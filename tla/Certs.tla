-------------------------------- MODULE Certs --------------------------------
(***************************************************************************)
(* The certificates of the webhook (internal/certgen/provisioner.go), on   *)
(* every replica of the manager at once: nothing elects one of them.       *)
(*                                                                         *)
(* A certificate is its number, counted as they are made: CA, server       *)
(* certificate and key are made together.  The Secret and the webhook      *)
(* configuration change only by an update from the version that was read,  *)
(* so what was read stands for the version.                                *)
(***************************************************************************)
EXTENDS Naturals

CONSTANTS
  Replica,
  MaxFaults,   \* bound: failed calls and crashes; they end at some time
  MaxMade      \* bound: once this many certificates are made none comes due

ASSUME BoundsAssumption == MaxFaults \in Nat /\ MaxMade \in Nat

VARIABLES
  secret,       \* the certificate in the Secret, NoCert before there is one
  due,          \* certsValid would refuse the Secret: expiry is near
  bundle,       \* the caBundle of the webhook configuration
  files,        \* per replica, tls.crt and tls.key in its cert-dir
  serving,      \* per replica, what its TLS server presents
  proc,         \* per replica, how far ensureCerts is
  made,         \* how many certificates have been made
  faults,       \* how many faults there have been
  unstored,     \* history: the certificates made and never put in the Secret
  interrupted   \* history: a provision stopped short, or two overlapped,
                \* between the Secret and the caBundle

vars == <<secret, due, bundle, files, serving, proc, made, faults, unstored, interrupted>>

(***************************************************************************)
(* pc is the next call of ensureCerts, "down" (no process) or "running"    *)
(* (between two ticks).  startup tells EnsureCerts in main from a tick,    *)
(* new tells provision from the write of a valid certificate, and seen is  *)
(* what the Get before an update has read.                                 *)
(***************************************************************************)
Call == {"check", "getSecret", "putSecret", "writeCrt", "writeKey", "getConfig", "putConfig"}

NoCert == 0

Proc(pc, startup) ==
  [pc |-> pc, startup |-> startup, new |-> FALSE, cert |-> NoCert, seen |-> NoCert]

NoFiles == [crt |-> NoCert, key |-> NoCert]

\* A provision that has stored its certificate and not yet published its CA.
Publishing(r) ==
  /\ proc[r].new
  /\ proc[r].pc \in {"writeCrt", "writeKey", "getConfig", "putConfig"}

-----------------------------------------------------------------------------
(* How ensureCerts ends.                                                   *)

\* An error at startup exits the process; one at a tick is logged.
Fail(r) ==
  /\ proc' = [proc EXCEPT ![r] = Proc(IF proc[r].startup THEN "down" ELSE "running", FALSE)]
  /\ UNCHANGED serving

\* After startup the manager starts, and its TLS server loads the files.
Done(r) ==
  /\ proc' = [proc EXCEPT ![r] = Proc("running", FALSE)]
  /\ serving' = IF proc[r].startup THEN [serving EXCEPT ![r] = files'[r].crt] ELSE serving

Fault == faults < MaxFaults /\ faults' = faults + 1

\* A call to the API server or to the file system fails and changes nothing,
\* except that a file may be left truncated.
CallFails(r) ==
  /\ proc[r].pc \in Call /\ Fault
  /\ Fail(r)
  /\ \/ UNCHANGED files
     \/ proc[r].pc = "writeCrt" /\ files' = [files EXCEPT ![r].crt = NoCert]
     \/ proc[r].pc = "writeKey" /\ files' = [files EXCEPT ![r].key = NoCert]
  /\ interrupted' = (interrupted \/ Publishing(r))
  /\ UNCHANGED <<secret, due, bundle, made, unstored>>

-----------------------------------------------------------------------------
(* ensureCerts, call by call.                                              *)

\* main calls EnsureCerts before there is a manager.
Start(r) ==
  /\ proc[r].pc = "down"
  /\ proc' = [proc EXCEPT ![r] = Proc("check", TRUE)]
  /\ UNCHANGED <<secret, due, bundle, files, serving, made, faults, unstored, interrupted>>

Tick(r) ==
  /\ proc[r].pc = "running"
  /\ proc' = [proc EXCEPT ![r] = Proc("check", FALSE)]
  /\ UNCHANGED <<secret, due, bundle, files, serving, made, faults, unstored, interrupted>>

\* provision starts with GenerateCerts.
Generate(r) ==
  /\ made' = made + 1
  /\ unstored' = unstored \cup {made'}
  /\ proc' = [proc EXCEPT ![r].pc = "getSecret", ![r].new = TRUE, ![r].cert = made']

\* Mutations: a missing Secret counts as a valid one, expiry is not looked at, or
\* a valid certificate is not written to the files.
CheckMissing(r) ==
  /\ proc[r].pc = "check" /\ secret = NoCert
  /\ proc' = [proc EXCEPT ![r].pc = "writeCrt", ![r].cert = secret]
  /\ UNCHANGED <<secret, due, bundle, files, serving, made, faults, unstored, interrupted>>

CheckIgnoringExpiry(r) ==
  /\ proc[r].pc = "check"
  /\ \/ secret = NoCert /\ Generate(r)
     \/ /\ secret # NoCert
        /\ proc' = [proc EXCEPT ![r].pc = "writeCrt", ![r].cert = secret]
        /\ UNCHANGED <<made, unstored>>
  /\ UNCHANGED <<secret, due, bundle, files, serving, faults, interrupted>>

CheckWithoutWrite(r) ==
  /\ proc[r].pc = "check"
  /\ UNCHANGED <<secret, due, bundle, files, faults, interrupted>>
  /\ \/ (secret = NoCert \/ due) /\ Generate(r) /\ UNCHANGED serving
     \/ secret # NoCert /\ ~ due /\ Done(r) /\ UNCHANGED <<made, unstored>>

\* No Secret, or one that certsValid refuses: provision, starting with a new
\* certificate.  Otherwise what the Secret holds is written to the files.
Check(r) ==
  /\ proc[r].pc = "check"
  /\ \/ /\ secret = NoCert \/ due
        /\ Generate(r)
     \/ /\ secret # NoCert /\ ~ due
        /\ proc' = [proc EXCEPT ![r].pc = "writeCrt", ![r].cert = secret]
        /\ UNCHANGED <<made, unstored>>
  /\ UNCHANGED <<secret, due, bundle, files, serving, faults, interrupted>>

\* upsertSecret reads the Secret once more, and does not look at what is in it.
GetSecret(r) ==
  /\ proc[r].pc = "getSecret"
  /\ proc' = [proc EXCEPT ![r].pc = "putSecret", ![r].seen = secret]
  /\ UNCHANGED <<secret, due, bundle, files, serving, made, faults, unstored, interrupted>>

\* The Secret holds r's certificate from now on.
Stored(r) ==
  /\ secret' = proc[r].cert /\ due' = FALSE
  /\ unstored' = unstored \ {proc[r].cert}

\* Mutation: an update that conflicts is taken for one that was applied.
PutSecretIgnoringConflict(r) ==
  /\ proc[r].pc = "putSecret"
  /\ proc' = [proc EXCEPT ![r].pc = "writeCrt", ![r].seen = NoCert]
  /\ IF secret = proc[r].seen THEN Stored(r) ELSE UNCHANGED <<secret, due, unstored>>
  /\ interrupted' = \E q \in Replica : Publishing(q)
  /\ UNCHANGED <<bundle, files, serving, made, faults>>

\* Mutation: a call that gets no reply is made again, instead of failing.
PutSecretRetried(r) ==
  /\ proc[r].pc = "putSecret"
  /\ \/ /\ secret = proc[r].seen /\ Stored(r)
        /\ proc' = [proc EXCEPT ![r].pc = "writeCrt", ![r].seen = NoCert]
        /\ UNCHANGED faults
     \/ /\ secret = proc[r].seen /\ Stored(r) /\ Fault
        /\ proc' = [proc EXCEPT ![r].pc = "getSecret", ![r].seen = NoCert]
     \/ /\ secret # proc[r].seen
        /\ Fail(r)
        /\ UNCHANGED <<secret, due, faults, unstored>>
  /\ interrupted' = TRUE
  /\ UNCHANGED <<bundle, files, serving, made>>

(***************************************************************************)
(* Create, or Update from the version read.  It is refused when the Secret *)
(* has changed or has come to exist.  The call may be applied and its      *)
(* reply lost.                                                             *)
(***************************************************************************)
PutSecret(r) ==
  /\ proc[r].pc = "putSecret"
  /\ \/ /\ secret = proc[r].seen /\ Stored(r)
        /\ proc' = [proc EXCEPT ![r].pc = "writeCrt", ![r].seen = NoCert]
        /\ interrupted' = \E q \in Replica : Publishing(q)
        /\ UNCHANGED <<serving, faults>>
     \/ /\ secret = proc[r].seen /\ Stored(r)
        /\ Fault /\ Fail(r)
        /\ interrupted' = TRUE
     \/ /\ secret # proc[r].seen
        /\ Fail(r)
        /\ UNCHANGED <<secret, due, faults, unstored, interrupted>>
  /\ UNCHANGED <<bundle, files, made>>

\* writeFiles: two files, one after the other.
WriteCrt(r) ==
  /\ proc[r].pc = "writeCrt"
  /\ files' = [files EXCEPT ![r].crt = proc[r].cert]
  /\ proc' = [proc EXCEPT ![r].pc = "writeKey"]
  /\ UNCHANGED <<secret, due, bundle, serving, made, faults, unstored, interrupted>>

\* Mutation: the caBundle is not patched.
WriteKeyLast(r) ==
  /\ proc[r].pc = "writeKey"
  /\ files' = [files EXCEPT ![r].key = proc[r].cert]
  /\ Done(r)
  /\ UNCHANGED <<secret, due, bundle, made, faults, unstored, interrupted>>

WriteKey(r) ==
  /\ proc[r].pc = "writeKey"
  /\ files' = [files EXCEPT ![r].key = proc[r].cert]
  /\ \/ /\ proc[r].new
        /\ proc' = [proc EXCEPT ![r].pc = "getConfig"]
        /\ UNCHANGED serving
     \/ ~ proc[r].new /\ Done(r)
  /\ UNCHANGED <<secret, due, bundle, made, faults, unstored, interrupted>>

\* patchWebhookCABundle: read, then update from the version read.
GetConfig(r) ==
  /\ proc[r].pc = "getConfig"
  /\ proc' = [proc EXCEPT ![r].pc = "putConfig", ![r].seen = bundle]
  /\ UNCHANGED <<secret, due, bundle, files, serving, made, faults, unstored, interrupted>>

PutConfig(r) ==
  /\ proc[r].pc = "putConfig"
  /\ UNCHANGED <<secret, due, files, made, unstored>>
  /\ \/ /\ bundle = proc[r].seen
        /\ bundle' = proc[r].cert
        /\ \/ Done(r) /\ UNCHANGED faults
           \/ Fault /\ Fail(r)
        /\ UNCHANGED interrupted
     \/ /\ bundle # proc[r].seen
        /\ Fail(r)
        /\ interrupted' = TRUE
        /\ UNCHANGED <<bundle, faults>>

-----------------------------------------------------------------------------
(* The world around it (external).                                         *)

\* The process ends.  The files outlive the container, but not the pod.
Crash(r) ==
  /\ proc[r].pc # "down" /\ Fault
  /\ proc' = [proc EXCEPT ![r] = Proc("down", FALSE)]
  /\ serving' = [serving EXCEPT ![r] = NoCert]
  /\ \/ UNCHANGED files
     \/ files' = [files EXCEPT ![r] = NoFiles]
  /\ interrupted' = (interrupted \/ Publishing(r))
  /\ UNCHANGED <<secret, due, bundle, made, unstored>>

\* The TLS server loads changed files, once certificate and key belong together.
Reload(r) ==
  /\ serving[r] # NoCert
  /\ files[r].crt = files[r].key /\ files[r].crt # serving[r]
  /\ serving' = [serving EXCEPT ![r] = files[r].crt]
  /\ UNCHANGED <<secret, due, bundle, files, proc, made, faults, unstored, interrupted>>

(***************************************************************************)
(* The certificate in the Secret reaches the age at which it is rotated,   *)
(* months after it was stored.  No call takes as long, and a replica that  *)
(* runs has ticked and reloaded many times since.                          *)
(***************************************************************************)
ComeDue ==
  /\ secret # NoCert /\ ~ due /\ made < MaxMade
  /\ \A r \in Replica : proc[r].pc # "down" => proc[r].pc = "running" /\ serving[r] = secret
  /\ due' = TRUE
  /\ UNCHANGED <<secret, bundle, files, serving, proc, made, faults, unstored, interrupted>>

-----------------------------------------------------------------------------
(* The specification.                                                      *)

Init ==
  /\ secret = NoCert /\ due = FALSE /\ bundle = NoCert
  /\ files = [r \in Replica |-> NoFiles]
  /\ serving = [r \in Replica |-> NoCert]
  /\ proc = [r \in Replica |-> Proc("down", FALSE)]
  /\ made = 0 /\ faults = 0 /\ unstored = {} /\ interrupted = FALSE

\* The calls ensureCerts makes, whether they succeed, conflict or fail.
Step(r) ==
  \/ Check(r) \/ GetSecret(r) \/ PutSecret(r) \/ WriteCrt(r) \/ WriteKey(r)
  \/ GetConfig(r) \/ PutConfig(r) \/ CallFails(r)

Next ==
  \/ \E r \in Replica : Start(r) \/ Tick(r) \/ Step(r) \/ Crash(r) \/ Reload(r)
  \/ ComeDue

Spec == Init /\ [][Next]_vars

-----------------------------------------------------------------------------
(* Properties.                                                             *)

\* A certificate that has been made, or none.
Cert == 0 .. made

ProcType ==
  [pc : Call \cup {"down", "running"}, startup : BOOLEAN, new : BOOLEAN,
   cert : Cert, seen : Cert]

\* Every variable has its type, no certificate is used before it is made, and a
\* replica that stores, writes or publishes a certificate has one.
TypeOK ==
  /\ made \in Nat
  /\ secret \in Cert /\ due \in BOOLEAN
  /\ bundle \in Cert
  /\ files \in [Replica -> [crt : Cert, key : Cert]]
  /\ serving \in [Replica -> Cert]
  /\ proc \in [Replica -> ProcType]
  /\ \A r \in Replica : proc[r].pc \in Call \ {"check"} => proc[r].cert # NoCert
  /\ faults \in 0 .. MaxFaults
  /\ unstored \subseteq Cert \ {NoCert} /\ interrupted \in BOOLEAN

(***************************************************************************)
(* Only certificates that have been in the Secret are written to a file,   *)
(* presented by a TLS server or put in the caBundle: provision goes on     *)
(* from upsertSecret only when it succeeded.  A certificate that lost the  *)
(* race to the Secret must leave no trace, or no other replica could ever  *)
(* present what the API server trusts.                                     *)
(***************************************************************************)
Provenance ==
  /\ bundle \notin unstored
  /\ \A r \in Replica :
       /\ {files[r].crt, files[r].key, serving[r]} \cap unstored = {}
       /\ Publishing(r) => proc[r].cert \notin unstored

(***************************************************************************)
(* The API server trusts the certificate in the Secret, unless the replica *)
(* that stored it is still on its way to patch the caBundle, or a          *)
(* provision has failed, crashed or met another one on that way.           *)
(***************************************************************************)
CABundleCurrent ==
  ~ interrupted => \/ bundle = secret
                   \/ \E r \in Replica : Publishing(r) /\ proc[r].cert = secret

(***************************************************************************)
(* Why, as an inductive invariant: provision and the plain write stay      *)
(* apart, what is written or published has come through the Secret, and as *)
(* long as nothing was interrupted a replica that publishes does so for    *)
(* the certificate that is in the Secret.                                  *)
(***************************************************************************)
CertsInv ==
  /\ Provenance /\ CABundleCurrent
  /\ secret \notin unstored
  /\ \A r \in Replica :
       /\ proc[r].pc = "check" => ~ proc[r].new
       /\ proc[r].pc \in {"getSecret", "putSecret", "getConfig", "putConfig"} => proc[r].new
       /\ proc[r].pc \in {"writeCrt", "writeKey"} => proc[r].cert \notin unstored
       /\ ~ interrupted /\ Publishing(r) => proc[r].cert = secret

(***************************************************************************)
(* The Secret never goes back: an update puts a certificate there that has *)
(* not been in it before, though the writer may have read it long ago and  *)
(* may not know whether an earlier call of its own was applied.            *)
(***************************************************************************)
SecretNeverGoesBack == [][secret' # secret => secret' \in unstored]_vars

\* A provision that has made its certificate and not yet stored it.
Storing(r) == proc[r].pc \in {"getSecret", "putSecret"}

\* Why, as an inductive invariant: what a replica is about to store is its own
\* and has never been stored, so nothing is left to be stored again.
FreshInv ==
  \A r \in Replica : Storing(r) =>
     /\ proc[r].cert \in unstored
     /\ \A q \in Replica : Storing(q) /\ proc[q].cert = proc[r].cert => q = r

-----------------------------------------------------------------------------
(* Liveness.                                                               *)

\* Containers are restarted, the ticker ticks, a call returns or fails, and the
\* TLS server watches its files.
Fairness ==
  \A r \in Replica : WF_vars(Start(r) \/ Tick(r)) /\ WF_vars(Step(r)) /\ WF_vars(Reload(r))

FairSpec == Spec /\ Fairness

\* A certificate close to its expiry is replaced, whichever replicas race to do
\* it and whatever fails on the way.
RotatedWhenDue == due ~> ~ due

(***************************************************************************)
(* Every replica comes to present the certificate in the Secret, though    *)
(* another replica made it and though a write may stop between the two     *)
(* files, unless that certificate comes due before.                        *)
(***************************************************************************)
EveryReplicaServes ==
  \A r \in Replica : secret # NoCert /\ ~ due ~> serving[r] = secret \/ due

\* ReadyzCheck: the manager runs, and the two files belong together.
Ready(r) == serving[r] # NoCert /\ files[r].crt = files[r].key

(***************************************************************************)
(* A replica that is ready is in the end trusted: the API server can call  *)
(* its webhook with the caBundle it has.  Rotation is months away and does *)
(* not count.                                                              *)
(***************************************************************************)
ReadyMeansTrusted ==
  \A r \in Replica : Ready(r) ~> serving[r] = bundle \/ due
=============================================================================
