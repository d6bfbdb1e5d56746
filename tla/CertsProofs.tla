----------------------------- MODULE CertsProofs -----------------------------
(***************************************************************************)
(* Proofs about Certs, for every set of replicas and any number of faults  *)
(* and rotations: the type invariant, and which certificates are written,  *)
(* presented and trusted.                                                  *)
(***************************************************************************)
EXTENDS Certs, TLAPS

-----------------------------------------------------------------------------
(* Type correctness.                                                       *)

\* Making a certificate keeps the types of what refers to the older ones.
LEMMA Growing ==
  ASSUME made \in Nat, made' \in Nat, made <= made'
  PROVE  /\ Cert \subseteq Cert' /\ ProcType \subseteq ProcType' /\ made' \in Cert'
         /\ NoCert \in Cert
BY DEF Cert, ProcType, NoCert

\* Where ensureCerts goes next is well typed.
LEMMA ProcSteps ==
  ASSUME TypeOK, NEW r \in Replica
  PROVE  /\ \A pc \in Call \cup {"down", "running"}, b \in BOOLEAN : Proc(pc, b) \in ProcType
         /\ \A pc \in Call : [proc[r] EXCEPT !.pc = pc] \in ProcType
         /\ \A pc \in Call, c \in Cert : [proc[r] EXCEPT !.pc = pc, !.cert = c] \in ProcType
         /\ \A pc \in Call, c \in Cert : [proc[r] EXCEPT !.pc = pc, !.seen = c] \in ProcType
<1>1. proc[r] \in ProcType /\ NoCert \in Cert
  BY DEF TypeOK, Cert, NoCert
<1> QED
  BY <1>1 DEF ProcType, Proc
\* What TypeOK says of the processes.
ProcsOK ==
  /\ proc \in [Replica -> ProcType]
  /\ \A r \in Replica : proc[r].pc \in Call \ {"check"} => proc[r].cert # NoCert

\* One replica moves on, and holds a certificate where it needs one.
LEMMA ProcMoves ==
  ASSUME TypeOK, NEW r \in Replica, NEW q \in ProcType,
         q.pc \in Call \ {"check"} => q.cert # NoCert,
         proc' = [proc EXCEPT ![r] = q], UNCHANGED made
  PROVE  ProcsOK'
<1>1. ProcType' = ProcType /\ proc \in [Replica -> ProcType]
  BY DEF ProcType, Cert, TypeOK
<1>2. proc' \in [Replica -> ProcType]
  BY <1>1
<1>3. \A x \in Replica : proc'[x].pc \in Call \ {"check"} => proc'[x].cert # NoCert
  BY <1>1 DEF TypeOK
<1> QED
  BY <1>1, <1>2, <1>3 DEF ProcsOK

\* A failed or a finished ensureCerts.
LEMMA EndTypes ==
  ASSUME TypeOK, NEW r \in Replica, UNCHANGED made
  PROVE  /\ Fail(r) => ProcsOK' /\ UNCHANGED serving
         /\ Done(r) /\ files' \in [Replica -> [crt : Cert, key : Cert]]
              => ProcsOK' /\ serving' \in [Replica -> Cert]
<1> DEFINE down(pc) == Proc(pc, FALSE)
<1>1. \A pc \in {"down", "running"} :
        down(pc) \in ProcType /\ down(pc).pc \notin Call
  BY ProcSteps DEF Proc, Call
<1>2. Fail(r) => \E pc \in {"down", "running"} : proc' = [proc EXCEPT ![r] = down(pc)]
  BY DEF Fail
<1>3. Done(r) => proc' = [proc EXCEPT ![r] = down("running")]
  BY DEF Done
<1> HIDE DEF down
<1>4. Fail(r) \/ Done(r) => ProcsOK'
  BY <1>1, <1>2, <1>3, ProcMoves
<1>5. Done(r) /\ files' \in [Replica -> [crt : Cert, key : Cert]]
        => serving' \in [Replica -> Cert]
  BY DEF Done, TypeOK
<1> QED
  BY <1>4, <1>5 DEF Fail

\* Type correctness of Certs, and no replica ever stores, writes or publishes
\* "no certificate": every path of ensureCerts that gets there has made one or
\* read one from the Secret.
THEOREM CertsTypeCorrect == Spec => []TypeOK
<1>1. Init => TypeOK
  <2> SUFFICES ASSUME Init PROVE TypeOK
    OBVIOUS
  <2>1. Cert = {0} /\ NoCert \in Cert
    BY DEF Init, Cert, NoCert
  <2>2. Proc("down", FALSE) \in ProcType /\ Proc("down", FALSE).pc \notin Call
    BY <2>1 DEF Proc, ProcType, Call
  <2>3. proc \in [Replica -> ProcType] /\ \A r \in Replica : proc[r].pc \notin Call
    BY <2>2 DEF Init
  <2>4. /\ files \in [Replica -> [crt : Cert, key : Cert]]
        /\ serving \in [Replica -> Cert]
    BY <2>1 DEF Init, NoFiles
  <2>5. faults \in 0 .. MaxFaults
    BY BoundsAssumption DEF Init
  <2> QED
    BY <2>1, <2>3, <2>4, <2>5 DEF Init, TypeOK
<1>2. TypeOK /\ [Next]_vars => TypeOK'
  <2> SUFFICES ASSUME TypeOK, [Next]_vars PROVE TypeOK'
    OBVIOUS
  <2>1. CASE UNCHANGED vars
    BY <2>1 DEF vars, TypeOK, Cert, ProcType
  <2>2. ASSUME UNCHANGED made, ProcsOK',
               secret' \in Cert, due' \in BOOLEAN, bundle' \in Cert,
               files' \in [Replica -> [crt : Cert, key : Cert]],
               serving' \in [Replica -> Cert], faults' \in 0 .. MaxFaults,
               unstored' \subseteq unstored, interrupted' \in BOOLEAN
        PROVE  TypeOK'
    <3>1. Cert' = Cert /\ ProcType' = ProcType
      BY <2>2 DEF Cert, ProcType
    <3> QED
      BY <2>2, <3>1 DEF TypeOK, ProcsOK
  <2>3. NoCert \in Cert
    BY DEF TypeOK, Cert, NoCert
  <2>4. Fault => faults' \in 0 .. MaxFaults
    BY BoundsAssumption DEF Fault, TypeOK
  <2>5. ASSUME NEW r \in Replica, Start(r) \/ Tick(r) PROVE TypeOK'
    <3>1. PICK b \in BOOLEAN : proc' = [proc EXCEPT ![r] = Proc("check", b)]
      BY <2>5 DEF Start, Tick
    <3>2. Proc("check", b) \in ProcType /\ Proc("check", b).pc = "check"
      BY ProcSteps DEF Proc, Call
    <3>3. UNCHANGED <<secret, due, bundle, files, serving, made, faults, unstored, interrupted>>
      BY <2>5 DEF Start, Tick
    <3>4. ProcsOK'
      BY <3>1, <3>2, <3>3, ProcMoves
    <3> QED
      BY <2>2, <3>3, <3>4 DEF TypeOK
  <2>6. ASSUME NEW r \in Replica, Check(r) PROVE TypeOK'
    <3>1. CASE Generate(r)
      <4>1. made' \in Nat /\ made <= made' /\ made' # NoCert
        BY <3>1 DEF Generate, TypeOK, NoCert
      <4>2. /\ Cert \subseteq Cert' /\ ProcType \subseteq ProcType' /\ made' \in Cert'
        BY <4>1, Growing DEF TypeOK
      <4> DEFINE q == [proc[r] EXCEPT !.pc = "getSecret", !.new = TRUE, !.cert = made']
      <4>3. q \in ProcType' /\ q.cert = made'
        <5>1. proc[r] \in ProcType'
          BY <4>2 DEF TypeOK
        <5> QED
          BY <4>2, <5>1 DEF ProcType, Call
      <4>4. proc' = [proc EXCEPT ![r] = q]
        BY <3>1 DEF Generate
      <4> HIDE DEF q
      <4>5. proc' \in [Replica -> ProcType']
        BY <4>2, <4>3, <4>4 DEF TypeOK
      <4>6. \A x \in Replica : proc'[x].pc \in Call \ {"check"} => proc'[x].cert # NoCert
        BY <4>1, <4>3, <4>4 DEF TypeOK
      <4>7. unstored' \subseteq Cert' \ {NoCert}
        BY <3>1, <4>1, <4>2 DEF Generate, TypeOK
      <4>8. UNCHANGED <<secret, due, bundle, files, serving, faults, interrupted>>
        BY <2>6 DEF Check
      <4>9. files' \in [Replica -> [crt : Cert', key : Cert']]
        BY <4>2, <4>8 DEF TypeOK
      <4> QED
        BY <4>1, <4>2, <4>5, <4>6, <4>7, <4>8, <4>9 DEF TypeOK
    <3>2. CASE ~ Generate(r)
      <4> DEFINE q == [proc[r] EXCEPT !.pc = "writeCrt", !.cert = secret]
      <4>1. /\ secret # NoCert /\ secret \in Cert /\ proc[r] \in ProcType
            /\ proc' = [proc EXCEPT ![r] = q] /\ UNCHANGED <<made, unstored>>
        BY <2>6, <3>2 DEF Check, TypeOK
      <4>2. q \in ProcType /\ q.cert = secret
        BY <4>1 DEF ProcType, Call
      <4> HIDE DEF q
      <4>3. ProcsOK'
        BY <4>1, <4>2, ProcMoves
      <4>4. UNCHANGED <<secret, due, bundle, files, serving, faults, interrupted>>
        BY <2>6 DEF Check
      <4> QED
        BY <2>2, <4>1, <4>3, <4>4 DEF TypeOK
    <3> QED
      BY <3>1, <3>2
  <2>7. ASSUME NEW r \in Replica, NEW pc \in Call, NEW c \in Cert,
               proc[r].pc \in Call \ {"check"},
               \/ proc' = [proc EXCEPT ![r].pc = pc]
               \/ proc' = [proc EXCEPT ![r].pc = pc, ![r].seen = c],
               UNCHANGED made
        PROVE  ProcsOK'
    <3>1. proc[r] \in ProcType /\ proc[r].cert # NoCert
      BY <2>7 DEF TypeOK
    <3>2. PICK q : /\ q \in {[proc[r] EXCEPT !.pc = pc], [proc[r] EXCEPT !.pc = pc, !.seen = c]}
                   /\ proc' = [proc EXCEPT ![r] = q]
      BY <2>7
    <3>3. q \in ProcType /\ q.cert = proc[r].cert
      BY <3>1, <3>2 DEF ProcType
    <3> QED
      BY <2>7, <3>1, <3>2, <3>3, ProcMoves
  <2>8. ASSUME NEW r \in Replica, GetSecret(r) \/ GetConfig(r) PROVE TypeOK'
    <3>1. UNCHANGED <<secret, due, bundle, files, serving, made, faults, unstored, interrupted>>
      BY <2>8 DEF GetSecret, GetConfig
    <3>2. ProcsOK'
      BY <2>7, <2>8, <3>1 DEF GetSecret, GetConfig, Call, TypeOK
    <3> QED
      BY <2>2, <3>1, <3>2 DEF TypeOK
  <2>9. ASSUME NEW r \in Replica, PutSecret(r) PROVE TypeOK'
    <3>1. UNCHANGED <<bundle, files, made>> /\ proc[r].pc \in Call \ {"check"}
      BY <2>9 DEF PutSecret, Call
    <3>2. proc[r].cert \in Cert
      BY DEF TypeOK, ProcType
    <3>3. /\ secret' \in Cert /\ due' \in BOOLEAN /\ unstored' \subseteq unstored
          /\ interrupted' \in BOOLEAN /\ faults' \in 0 .. MaxFaults
      BY <2>4, <2>9, <3>2 DEF PutSecret, Stored, TypeOK
    <3>4. ProcsOK' /\ serving' \in [Replica -> Cert]
      <4>1. CASE Fail(r)
        BY <3>1, <4>1, EndTypes DEF TypeOK
      <4>2. CASE /\ proc' = [proc EXCEPT ![r].pc = "writeCrt", ![r].seen = NoCert]
                 /\ UNCHANGED serving
        BY <2>3, <2>7, <3>1, <4>2 DEF Call, TypeOK
      <4> QED
        BY <2>9, <4>1, <4>2 DEF PutSecret
    <3> QED
      BY <2>2, <3>1, <3>3, <3>4 DEF TypeOK
  <2>10. ASSUME NEW r \in Replica, WriteCrt(r) PROVE TypeOK'
    <3>1. UNCHANGED <<secret, due, bundle, serving, made, faults, unstored, interrupted>>
      BY <2>10 DEF WriteCrt
    <3>2. ProcsOK'
      BY <2>3, <2>7, <2>10, <3>1 DEF WriteCrt, Call
    <3>3. files' \in [Replica -> [crt : Cert, key : Cert]]
      BY <2>10 DEF WriteCrt, TypeOK, ProcType
    <3> QED
      BY <2>2, <3>1, <3>2, <3>3 DEF TypeOK
  <2>11. ASSUME NEW r \in Replica, WriteKey(r) PROVE TypeOK'
    <3>1. UNCHANGED <<secret, due, bundle, made, faults, unstored, interrupted>>
      BY <2>11 DEF WriteKey
    <3>2. files' \in [Replica -> [crt : Cert, key : Cert]]
      BY <2>11 DEF WriteKey, TypeOK, ProcType
    <3>3. ProcsOK' /\ serving' \in [Replica -> Cert]
      <4>1. CASE Done(r)
        BY <3>1, <3>2, <4>1, EndTypes
      <4>2. CASE proc' = [proc EXCEPT ![r].pc = "getConfig"] /\ UNCHANGED serving
        BY <2>3, <2>7, <2>11, <3>1, <4>2 DEF WriteKey, Call, TypeOK
      <4> QED
        BY <2>11, <4>1, <4>2 DEF WriteKey
    <3> QED
      BY <2>2, <3>1, <3>2, <3>3 DEF TypeOK
  <2>12. ASSUME NEW r \in Replica, PutConfig(r) PROVE TypeOK'
    <3>1. UNCHANGED <<secret, due, files, made, unstored>>
      BY <2>12 DEF PutConfig
    <3>2. /\ bundle' \in Cert /\ interrupted' \in BOOLEAN /\ faults' \in 0 .. MaxFaults
      BY <2>4, <2>12 DEF PutConfig, TypeOK, ProcType
    <3>3. ProcsOK' /\ serving' \in [Replica -> Cert]
      <4>1. Fail(r) \/ Done(r)
        BY <2>12 DEF PutConfig
      <4> QED
        BY <3>1, <4>1, EndTypes DEF TypeOK
    <3> QED
      BY <2>2, <3>1, <3>2, <3>3 DEF TypeOK
  <2>13. ASSUME NEW r \in Replica, CallFails(r) PROVE TypeOK'
    <3>1. UNCHANGED <<secret, due, bundle, made, unstored>>
      BY <2>13 DEF CallFails
    <3>2. ProcsOK' /\ UNCHANGED serving
      BY <2>13, <3>1, EndTypes DEF CallFails
    <3>3. files' \in [Replica -> [crt : Cert, key : Cert]]
      BY <2>3, <2>13 DEF CallFails, TypeOK
    <3>4. interrupted' \in BOOLEAN
      BY <2>13 DEF CallFails
    <3> QED
      BY <2>2, <2>4, <2>13, <3>1, <3>2, <3>3, <3>4 DEF CallFails, TypeOK
  <2>14. ASSUME NEW r \in Replica, Crash(r) PROVE TypeOK'
    <3>1. UNCHANGED <<secret, due, bundle, made, unstored>>
      BY <2>14 DEF Crash
    <3>2. Proc("down", FALSE) \in ProcType /\ Proc("down", FALSE).pc \notin Call
      BY ProcSteps DEF Proc, Call
    <3>3. ProcsOK'
      BY <2>14, <3>1, <3>2, ProcMoves DEF Crash
    <3>4. /\ files' \in [Replica -> [crt : Cert, key : Cert]]
          /\ serving' \in [Replica -> Cert]
      BY <2>3, <2>14 DEF Crash, TypeOK, NoFiles
    <3>5. interrupted' \in BOOLEAN
      BY <2>14 DEF Crash
    <3> QED
      BY <2>2, <2>4, <2>14, <3>1, <3>3, <3>4, <3>5 DEF Crash, TypeOK
  <2>15. ASSUME NEW r \in Replica, Reload(r) PROVE TypeOK'
    BY <2>15 DEF Reload, TypeOK, Cert, ProcType
  <2>16. CASE ComeDue
    BY <2>16 DEF ComeDue, TypeOK, Cert, ProcType
  <2> QED
    BY <2>1, <2>5, <2>6, <2>8, <2>9, <2>10, <2>11, <2>12, <2>13, <2>14, <2>15, <2>16
    DEF Next, Step
<1> QED
  BY <1>1, <1>2, PTL DEF Spec
-----------------------------------------------------------------------------
(* Provenance and trust.                                                   *)

\* The part of CertsInv that is about one replica.
ReplicaInv(r) ==
  /\ {files[r].crt, files[r].key, serving[r]} \cap unstored = {}
  /\ proc[r].pc = "check" => ~ proc[r].new
  /\ proc[r].pc \in {"getSecret", "putSecret", "getConfig", "putConfig"} => proc[r].new
  /\ proc[r].pc \in {"writeCrt", "writeKey", "getConfig", "putConfig"}
       => proc[r].cert \notin unstored
  /\ ~ interrupted /\ Publishing(r) => proc[r].cert = secret

\* CertsInv, taken apart.
LEMMA CertsInvParts ==
  CertsInv <=> /\ bundle \notin unstored /\ secret \notin unstored
               /\ CABundleCurrent
               /\ \A r \in Replica : ReplicaInv(r)
BY DEF CertsInv, Provenance, ReplicaInv, Publishing

\* A replica that a step leaves alone keeps its part, as long as no certificate
\* it holds becomes unstored and no other replaces the Secret unnoticed.
LEMMA OthersKeep ==
  ASSUME NEW x \in Replica, ReplicaInv(x),
         proc'[x] = proc[x], files'[x] = files[x], serving'[x] = serving[x],
         unstored' \subseteq unstored,
         ~ interrupted' /\ Publishing(x) => ~ interrupted /\ secret' = secret
  PROVE  ReplicaInv(x)'
BY DEF ReplicaInv, Publishing

\* A replica whose ensureCerts is not under way.
LEMMA AtRest ==
  ASSUME NEW x \in Replica, proc'[x].pc \notin Call \/ proc'[x] = Proc("check", TRUE)
                             \/ proc'[x] = Proc("check", FALSE),
         {files'[x].crt, files'[x].key, serving'[x]} \cap unstored' = {}
  PROVE  ReplicaInv(x)' /\ ~ Publishing(x)'
BY DEF ReplicaInv, Publishing, Proc, Call
\* A step that leaves Secret and caBundle alone keeps CABundleCurrent, if no
\* replica gives up publishing unnoticed.
LEMMA TrustKept ==
  ASSUME CABundleCurrent, UNCHANGED <<secret, bundle>>,
         ~ interrupted' => ~ interrupted,
         \A x \in Replica : ~ interrupted' /\ Publishing(x)
                              => Publishing(x)' /\ proc'[x].cert = proc[x].cert
  PROVE  CABundleCurrent'
BY DEF CABundleCurrent

\* A step of replica r that leaves Secret, caBundle and history alone and does
\* not end a provision: what remains to show is r's own part.
LEMMA PlainStep ==
  ASSUME TypeOK, CertsInv, NEW r \in Replica,
         UNCHANGED <<secret, bundle, unstored>>, ~ interrupted' => ~ interrupted,
         \A x \in Replica \ {r} :
            proc'[x] = proc[x] /\ files'[x] = files[x] /\ serving'[x] = serving[x],
         ~ interrupted' /\ Publishing(r) => Publishing(r)' /\ proc'[r].cert = proc[r].cert,
         ReplicaInv(r)'
  PROVE  CertsInv'
<1>1. /\ bundle \notin unstored /\ secret \notin unstored
      /\ CABundleCurrent /\ \A x \in Replica : ReplicaInv(x)
  BY CertsInvParts
<1>2. \A x \in Replica \ {r} : ReplicaInv(x)'
  BY <1>1, OthersKeep
<1>3. \A x \in Replica \ {r} : Publishing(x) => Publishing(x)'
  BY DEF Publishing
<1>4. CABundleCurrent'
  BY <1>1, <1>3, TrustKept
<1>5. CertsInv' <=> /\ bundle' \notin unstored' /\ secret' \notin unstored'
                    /\ CABundleCurrent'
                    /\ \A x \in Replica : ReplicaInv(x)'
  BY DEF CertsInv, Provenance, ReplicaInv, Publishing
<1> QED
  BY <1>1, <1>2, <1>4, <1>5

(***************************************************************************)
(* The inductive invariant of Certs holds of every behaviour, for any      *)
(* number of replicas that race, fail and crash in provision and           *)
(* patchWebhookCABundle.                                                   *)
(***************************************************************************)
THEOREM CertsInvariant == Spec => []CertsInv
<1>1. Init => CertsInv
  <2> SUFFICES ASSUME Init PROVE CertsInv
    OBVIOUS
  <2>1. \A r \in Replica : proc[r].pc = "down"
    BY DEF Init, Proc
  <2> QED
    BY <2>1 DEF Init, CertsInv, Provenance, CABundleCurrent, Publishing
<1>2. TypeOK /\ TypeOK' /\ CertsInv /\ [Next]_vars => CertsInv'
  <2> SUFFICES ASSUME TypeOK, TypeOK', CertsInv, [Next]_vars PROVE CertsInv'
    OBVIOUS
  <2>1. /\ bundle \notin unstored /\ secret \notin unstored
        /\ CABundleCurrent /\ \A x \in Replica : ReplicaInv(x)
    BY CertsInvParts
  <2>2. CertsInv' <=> /\ bundle' \notin unstored' /\ secret' \notin unstored'
                      /\ CABundleCurrent'
                      /\ \A x \in Replica : ReplicaInv(x)'
    BY DEF CertsInv, Provenance, ReplicaInv, Publishing
  <2>3. /\ proc \in [Replica -> ProcType] /\ serving \in [Replica -> Cert]
        /\ files \in [Replica -> [crt : Cert, key : Cert]]
        /\ interrupted \in BOOLEAN /\ NoCert \notin unstored /\ NoCert \notin unstored'
    BY DEF TypeOK
  <2>4. CASE UNCHANGED vars
    BY <2>4 DEF vars, CertsInv, Provenance, CABundleCurrent, Publishing
  <2>5. ASSUME NEW r \in Replica, Start(r) \/ Tick(r) PROVE CertsInv'
    <3>1. /\ proc[r].pc \notin Call
          /\ proc'[r] = Proc("check", TRUE) \/ proc'[r] = Proc("check", FALSE)
          /\ \A x \in Replica \ {r} : proc'[x] = proc[x]
          /\ UNCHANGED <<secret, bundle, files, serving, unstored, interrupted>>
      BY <2>3, <2>5 DEF Start, Tick, Call
    <3>2. ReplicaInv(r)' /\ ~ Publishing(r)
      BY <2>1, <3>1, AtRest DEF ReplicaInv, Publishing, Call
    <3> QED
      BY <3>1, <3>2, PlainStep
  <2>6. ASSUME NEW r \in Replica, Check(r) PROVE CertsInv'
    <3>1. /\ proc[r].pc = "check" /\ ~ proc[r].new /\ ~ Publishing(r)
          /\ UNCHANGED <<secret, bundle, files, serving, interrupted>>
      BY <2>1, <2>6 DEF Check, ReplicaInv, Publishing
    <3>2. CASE Generate(r)
      <4>1. /\ made' = made + 1 /\ unstored' = unstored \cup {made + 1}
            /\ proc' = [proc EXCEPT ![r].pc = "getSecret", ![r].new = TRUE,
                                     ![r].cert = made']
        BY <3>2 DEF Generate
      <4>2. made + 1 \notin Cert
        BY DEF TypeOK, Cert
      <4>3. /\ secret' \notin unstored' /\ bundle' \notin unstored'
            /\ \A x \in Replica : {files'[x].crt, files'[x].key, serving'[x]} \cap unstored' = {}
        BY <2>1, <2>3, <3>1, <4>1, <4>2 DEF TypeOK, ReplicaInv
      <4>4. /\ proc'[r].pc = "getSecret" /\ proc'[r].new
            /\ \A x \in Replica \ {r} : proc'[x] = proc[x]
        BY <2>3, <4>1 DEF ProcType
      <4>5. ReplicaInv(r)'
        BY <4>3, <4>4 DEF ReplicaInv, Publishing
      <4>6. ASSUME NEW x \in Replica \ {r} PROVE ReplicaInv(x)'
        <5>1. proc[x].cert # made + 1
          BY <2>3, <4>2 DEF ProcType
        <5>2. ReplicaInv(x) /\ proc'[x] = proc[x]
          BY <2>1, <4>4
        <5>3. proc[x].cert \notin unstored => proc'[x].cert \notin unstored'
          BY <4>1, <5>1, <5>2
        <5>4. {files'[x].crt, files'[x].key, serving'[x]} \cap unstored' = {}
          BY <4>3
        <5> QED
          BY <3>1, <5>2, <5>3, <5>4, Zenon DEF ReplicaInv, Publishing
      <4>7. \A x \in Replica : Publishing(x) => Publishing(x)' /\ proc'[x].cert = proc[x].cert
        BY <3>1, <4>4 DEF Publishing
      <4>8. CABundleCurrent'
        BY <2>1, <3>1, <4>7, TrustKept
      <4> QED
        BY <2>2, <4>3, <4>5, <4>6, <4>8
    <3>3. CASE ~ Generate(r)
      <4>1. /\ proc' = [proc EXCEPT ![r].pc = "writeCrt", ![r].cert = secret]
            /\ UNCHANGED unstored
        BY <2>6, <3>3 DEF Check
      <4>2. /\ proc'[r].pc = "writeCrt" /\ proc'[r].cert = secret /\ ~ proc'[r].new
            /\ \A x \in Replica \ {r} : proc'[x] = proc[x]
        BY <2>3, <3>1, <4>1 DEF ProcType
      <4>3. ReplicaInv(r)'
        BY <2>1, <3>1, <4>1, <4>2 DEF ReplicaInv, Publishing
      <4> QED
        BY <3>1, <4>1, <4>2, <4>3, PlainStep
    <3> QED
      BY <3>2, <3>3
  <2>7. ASSUME NEW r \in Replica, GetSecret(r) \/ GetConfig(r) PROVE CertsInv'
    <3>1. /\ \/ proc[r].pc = "getSecret" /\ proc'[r].pc = "putSecret"
             \/ proc[r].pc = "getConfig" /\ proc'[r].pc = "putConfig"
          /\ proc'[r].new = proc[r].new /\ proc'[r].cert = proc[r].cert
          /\ \A x \in Replica \ {r} : proc'[x] = proc[x]
          /\ UNCHANGED <<secret, bundle, files, serving, unstored, interrupted>>
      BY <2>3, <2>7 DEF GetSecret, GetConfig, ProcType
    <3>2. ReplicaInv(r)' /\ (Publishing(r) => Publishing(r)')
      BY <2>1, <3>1 DEF ReplicaInv, Publishing
    <3> QED
      BY <3>1, <3>2, PlainStep
  <2>8. ASSUME NEW r \in Replica, Fail(r)
        PROVE  /\ proc'[r].pc \notin Call /\ UNCHANGED serving
               /\ \A x \in Replica \ {r} : proc'[x] = proc[x]
    BY <2>3, <2>8 DEF Fail, Proc, Call
  <2>9. ASSUME NEW r \in Replica, PutSecret(r) PROVE CertsInv'
    <3>1. /\ proc[r].pc = "putSecret" /\ proc[r].new /\ ~ Publishing(r)
          /\ UNCHANGED <<bundle, files>>
      BY <2>1, <2>9 DEF PutSecret, ReplicaInv, Publishing
    <3>2. CASE secret # proc[r].seen
      <4>1. Fail(r) /\ UNCHANGED <<secret, unstored, interrupted>>
        BY <2>9, <3>2 DEF PutSecret
      <4>2. ReplicaInv(r)'
        BY <2>1, <2>8, <3>1, <4>1, AtRest DEF ReplicaInv
      <4> QED
        BY <2>8, <3>1, <4>1, <4>2, PlainStep
    <3>3. CASE secret = proc[r].seen
      <4>1. /\ secret' = proc[r].cert /\ unstored' = unstored \ {proc[r].cert}
            /\ UNCHANGED serving /\ \A x \in Replica \ {r} : proc'[x] = proc[x]
            /\ ~ interrupted' => ~ \E q \in Replica : Publishing(q)
        BY <2>3, <2>8, <2>9, <3>3 DEF PutSecret, Stored
      <4>2. secret' \notin unstored' /\ bundle' \notin unstored'
        BY <2>1, <3>1, <4>1
      <4>3. ASSUME NEW x \in Replica \ {r} PROVE ReplicaInv(x)'
        BY <2>1, <3>1, <4>1, OthersKeep
      <4>4. CASE Fail(r) /\ interrupted' = TRUE
        <5>1. ReplicaInv(r)'
          <6>1. {files'[r].crt, files'[r].key, serving'[r]} \cap unstored' = {}
            BY <2>1, <3>1, <4>1 DEF ReplicaInv
          <6>2. proc'[r].pc \notin Call
            BY <2>8, <4>4
          <6> QED
            BY <6>1, <6>2, AtRest
        <5>2. CABundleCurrent'
          BY <4>4 DEF CABundleCurrent
        <5> QED
          BY <2>2, <4>2, <4>3, <5>1, <5>2
      <4>5. CASE proc' = [proc EXCEPT ![r].pc = "writeCrt", ![r].seen = NoCert]
        <5>1. proc'[r].pc = "writeCrt" /\ proc'[r].new = proc[r].new /\ proc'[r].cert = secret'
          BY <2>3, <4>1, <4>5 DEF ProcType
        <5>2. ReplicaInv(r)'
          BY <2>1, <3>1, <4>1, <4>2, <5>1 DEF ReplicaInv, Publishing
        <5>3. Publishing(r)'
          BY <3>1, <5>1 DEF Publishing
        <5>4. CABundleCurrent'
          BY <5>1, <5>3 DEF CABundleCurrent
        <5> QED
          BY <2>2, <4>2, <4>3, <5>2, <5>4
      <4> QED
        BY <2>9, <3>3, <4>4, <4>5 DEF PutSecret
    <3> QED
      BY <3>2, <3>3
  <2>10. ASSUME NEW r \in Replica, WriteCrt(r) PROVE CertsInv'
    <3>1. /\ proc[r].pc = "writeCrt" /\ proc'[r].pc = "writeKey"
          /\ proc'[r].new = proc[r].new /\ proc'[r].cert = proc[r].cert
          /\ \A x \in Replica \ {r} : proc'[x] = proc[x] /\ files'[x] = files[x]
          /\ files'[r].crt = proc[r].cert /\ files'[r].key = files[r].key
          /\ UNCHANGED <<secret, bundle, serving, unstored, interrupted>>
      BY <2>3, <2>10 DEF WriteCrt, ProcType
    <3>2. ReplicaInv(r)' /\ (Publishing(r) => Publishing(r)')
      BY <2>1, <3>1 DEF ReplicaInv, Publishing
    <3> QED
      BY <3>1, <3>2, PlainStep
  <2>11. ASSUME NEW r \in Replica, Done(r)
         PROVE  /\ proc'[r].pc = "running" /\ serving'[r] \in {serving[r], files'[r].crt}
                /\ \A x \in Replica \ {r} : proc'[x] = proc[x] /\ serving'[x] = serving[x]
    BY <2>3, <2>11 DEF Done, Proc
  <2>12. ASSUME NEW r \in Replica, WriteKey(r) PROVE CertsInv'
    <3>1. /\ proc[r].pc = "writeKey" /\ proc[r].cert \notin unstored
          /\ \A x \in Replica \ {r} : files'[x] = files[x]
          /\ files'[r].key = proc[r].cert /\ files'[r].crt = files[r].crt
          /\ UNCHANGED <<secret, bundle, unstored, interrupted>>
      BY <2>1, <2>3, <2>12 DEF WriteKey, ReplicaInv
    <3>2. CASE ~ proc[r].new
      <4>1. Done(r) /\ ~ Publishing(r)
        BY <2>12, <3>2 DEF WriteKey, Publishing
      <4>2. ReplicaInv(r)'
        <5>1. proc'[r].pc \notin Call
          BY <2>11, <4>1 DEF Call
        <5>2. {files'[r].crt, files'[r].key, serving'[r]} \cap unstored' = {}
          BY <2>1, <2>11, <3>1, <4>1 DEF ReplicaInv
        <5> QED
          BY <5>1, <5>2, AtRest
      <4> QED
        BY <2>11, <3>1, <4>1, <4>2, PlainStep
    <3>3. CASE proc[r].new
      <4>1. /\ proc'[r].pc = "getConfig" /\ proc'[r].new /\ proc'[r].cert = proc[r].cert
            /\ UNCHANGED serving /\ \A x \in Replica \ {r} : proc'[x] = proc[x]
        BY <2>3, <2>12, <3>3 DEF WriteKey, ProcType
      <4>2. ReplicaInv(r)' /\ Publishing(r)'
        BY <2>1, <3>1, <3>3, <4>1 DEF ReplicaInv, Publishing
      <4> QED
        BY <3>1, <4>1, <4>2, PlainStep
    <3> QED
      BY <3>2, <3>3
  <2>13. ASSUME NEW r \in Replica, PutConfig(r) PROVE CertsInv'
    <3>1. /\ proc[r].pc = "putConfig" /\ proc[r].new /\ Publishing(r)
          /\ proc[r].cert \notin unstored
          /\ UNCHANGED <<secret, files, unstored>>
      BY <2>1, <2>13 DEF PutConfig, ReplicaInv, Publishing
    <3>2. /\ proc'[r].pc \notin Call /\ serving'[r] \in {serving[r], files'[r].crt}
          /\ \A x \in Replica \ {r} : proc'[x] = proc[x] /\ serving'[x] = serving[x]
      <4>1. Fail(r) \/ Done(r)
        BY <2>13 DEF PutConfig
      <4> QED
        BY <2>8, <2>11, <4>1 DEF Call
    <3>3. ReplicaInv(r)'
      <4>1. {files'[r].crt, files'[r].key, serving'[r]} \cap unstored' = {}
        BY <2>1, <3>1, <3>2 DEF ReplicaInv
      <4> QED
        BY <3>2, <4>1, AtRest
    <3>4. CASE bundle = proc[r].seen
      <4>1. bundle' = proc[r].cert /\ UNCHANGED interrupted
        BY <2>13, <3>4 DEF PutConfig
      <4>2. \A x \in Replica \ {r} : ReplicaInv(x)'
        BY <2>1, <3>1, <3>2, <4>1, OthersKeep
      <4>3. CABundleCurrent'
        BY <2>1, <3>1, <4>1 DEF CABundleCurrent, ReplicaInv
      <4> QED
        BY <2>1, <2>2, <3>1, <3>3, <4>1, <4>2, <4>3
    <3>5. CASE bundle # proc[r].seen
      <4>1. interrupted' = TRUE /\ UNCHANGED bundle
        BY <2>13, <3>5 DEF PutConfig
      <4> QED
        BY <3>1, <3>2, <3>3, <4>1, PlainStep
    <3> QED
      BY <3>4, <3>5
  <2>14. ASSUME NEW r \in Replica, CallFails(r) PROVE CertsInv'
    <3>1. /\ Fail(r) /\ UNCHANGED <<secret, bundle, unstored>>
          /\ interrupted' = (interrupted \/ Publishing(r))
          /\ files'[r].crt \in {files[r].crt, NoCert} /\ files'[r].key \in {files[r].key, NoCert}
          /\ \A x \in Replica \ {r} : files'[x] = files[x]
      BY <2>3, <2>14 DEF CallFails
    <3>2. ReplicaInv(r)'
      <4>1. {files'[r].crt, files'[r].key, serving'[r]} \cap unstored' = {}
        BY <2>1, <2>3, <2>8, <3>1 DEF ReplicaInv
      <4> QED
        BY <2>8, <3>1, <4>1, AtRest
    <3> QED
      BY <2>8, <3>1, <3>2, PlainStep
  <2>15. ASSUME NEW r \in Replica, Crash(r) PROVE CertsInv'
    <3>1. /\ proc'[r].pc \notin Call /\ UNCHANGED <<secret, bundle, unstored>>
          /\ interrupted' = (interrupted \/ Publishing(r))
          /\ files'[r] \in {files[r], NoFiles} /\ serving'[r] = NoCert
          /\ \A x \in Replica \ {r} :
               proc'[x] = proc[x] /\ files'[x] = files[x] /\ serving'[x] = serving[x]
      BY <2>3, <2>15 DEF Crash, Proc, Call
    <3>2. ReplicaInv(r)'
      <4>1. {files'[r].crt, files'[r].key, serving'[r]} \cap unstored' = {}
        BY <2>1, <2>3, <3>1 DEF ReplicaInv, NoFiles
      <4> QED
        BY <3>1, <4>1, AtRest
    <3> QED
      BY <3>1, <3>2, PlainStep
  <2>16. ASSUME NEW r \in Replica, Reload(r) PROVE CertsInv'
    <3>1. /\ serving'[r] = files[r].crt
          /\ \A x \in Replica \ {r} : serving'[x] = serving[x]
          /\ UNCHANGED <<secret, bundle, files, proc, unstored, interrupted>>
      BY <2>3, <2>16 DEF Reload
    <3>2. ReplicaInv(r)' /\ (Publishing(r) => Publishing(r)')
      BY <2>1, <3>1 DEF ReplicaInv, Publishing
    <3> QED
      BY <3>1, <3>2, PlainStep
  <2>17. CASE ComeDue
    BY <2>17 DEF ComeDue, CertsInv, Provenance, CABundleCurrent, Publishing
  <2> QED
    BY <2>4, <2>5, <2>6, <2>7, <2>9, <2>10, <2>12, <2>13, <2>14, <2>15, <2>16, <2>17
    DEF Next, Step
<1> QED
  BY <1>1, <1>2, CertsTypeCorrect, PTL DEF Spec

(***************************************************************************)
(* Only certificates that were stored in the Secret are ever written to a  *)
(* file, presented or trusted, however many replicas race in upsertSecret. *)
(***************************************************************************)
THEOREM OnlyStoredCertsUsed == Spec => []Provenance
<1>1. CertsInv => Provenance
  BY DEF CertsInv
<1> QED
  BY <1>1, CertsInvariant, PTL

(***************************************************************************)
(* The caBundle is that of the Secret, or the replica that stored it is    *)
(* about to patch it, in every behaviour in which no provision failed or   *)
(* met another one in between.                                             *)
(***************************************************************************)
THEOREM CABundleFollowsSecret == Spec => []CABundleCurrent
<1>1. CertsInv => CABundleCurrent
  BY DEF CertsInv
<1> QED
  BY <1>1, CertsInvariant, PTL

-----------------------------------------------------------------------------
(* The order of the Secret's certificates.                                 *)

\* A step after which the same replicas, or fewer, are about to store what they
\* were about to store.
LEMMA FreshKept ==
  ASSUME FreshInv, UNCHANGED unstored,
         \A x \in Replica : Storing(x)' => Storing(x) /\ proc'[x].cert = proc[x].cert
  PROVE  FreshInv'
<1> SUFFICES ASSUME NEW x \in Replica, Storing(x)'
             PROVE  /\ proc'[x].cert \in unstored'
                    /\ \A q \in Replica : Storing(q)' /\ proc'[q].cert = proc'[x].cert => q = x
  BY DEF FreshInv
<1> QED
  BY DEF FreshInv

\* Where a replica may be after a call that does not lead to upsertSecret.
LEMMA NotStoring ==
  ASSUME TypeOK, FreshInv, UNCHANGED unstored, NEW r \in Replica, NEW p,
         proc' = [proc EXCEPT ![r] = p], p.pc \notin {"getSecret", "putSecret"}
  PROVE  FreshInv'
<1>1. proc'[r] = p /\ \A x \in Replica \ {r} : proc'[x] = proc[x]
  BY DEF TypeOK
<1>2. ~ Storing(r)' /\ \A x \in Replica \ {r} : Storing(x)' => Storing(x)
  BY <1>1 DEF Storing
<1> QED
  BY <1>1, <1>2, FreshKept

(***************************************************************************)
(* What any number of replicas are about to store in upsertSecret is, for  *)
(* each its own, a certificate that was never stored.                      *)
(***************************************************************************)
THEOREM FreshInvariant == Spec => []FreshInv
<1>1. Init => FreshInv
  BY DEF Init, Proc, FreshInv, Storing
<1>2. TypeOK /\ FreshInv /\ [Next]_vars => FreshInv'
  <2> SUFFICES ASSUME TypeOK, FreshInv, [Next]_vars PROVE FreshInv'
    OBVIOUS
  <2>1. proc \in [Replica -> ProcType]
    BY DEF TypeOK
  <2>2. CASE UNCHANGED proc /\ UNCHANGED unstored
    BY <2>2 DEF FreshInv, Storing
  <2>3. ASSUME NEW r \in Replica, Fail(r) \/ Done(r), UNCHANGED unstored PROVE FreshInv'
    <3>1. PICK pc \in {"down", "running"} : proc' = [proc EXCEPT ![r] = Proc(pc, FALSE)]
      BY <2>3 DEF Fail, Done
    <3>2. Proc(pc, FALSE).pc \notin {"getSecret", "putSecret"}
      BY DEF Proc
    <3> QED
      BY <2>3, <3>1, <3>2, NotStoring
  <2>4. ASSUME NEW r \in Replica, Start(r) \/ Tick(r) PROVE FreshInv'
    <3>1. PICK b \in BOOLEAN : proc' = [proc EXCEPT ![r] = Proc("check", b)]
      BY <2>4 DEF Start, Tick
    <3>2. UNCHANGED unstored /\ Proc("check", b).pc = "check"
      BY <2>4 DEF Start, Tick, Proc
    <3> QED
      BY <3>1, <3>2, NotStoring
  <2>5. ASSUME NEW r \in Replica, Check(r) PROVE FreshInv'
    <3>1. CASE Generate(r)
      <4>1. /\ unstored' = unstored \cup {made + 1}
            /\ proc'[r].cert = made + 1 /\ \A x \in Replica \ {r} : proc'[x] = proc[x]
        BY <2>1, <3>1 DEF Generate, ProcType
      <4>2. ASSUME NEW x \in Replica PROVE proc[x].cert # made + 1
        BY <2>1 DEF ProcType, Cert, TypeOK
      <4>3. \A x \in Replica \ {r} : Storing(x)' => Storing(x) /\ proc[x].cert \in unstored
        BY <4>1 DEF Storing, FreshInv
      <4>4. ASSUME NEW x \in Replica, Storing(x)',
                   NEW q \in Replica, Storing(q)', proc'[q].cert = proc'[x].cert
            PROVE  q = x
        BY <4>1, <4>2, <4>3, <4>4 DEF FreshInv
      <4>5. ASSUME NEW x \in Replica, Storing(x)' PROVE proc'[x].cert \in unstored'
        BY <4>1, <4>3, <4>5
      <4> QED
        BY <4>4, <4>5 DEF FreshInv
    <3>2. CASE ~ Generate(r)
      <4> DEFINE p == [proc[r] EXCEPT !.pc = "writeCrt", !.cert = secret]
      <4>1. proc' = [proc EXCEPT ![r] = p] /\ UNCHANGED unstored
        BY <2>5, <3>2 DEF Check
      <4>2. p.pc = "writeCrt"
        BY <2>1 DEF ProcType
      <4> HIDE DEF p
      <4> QED
        BY <4>1, <4>2, NotStoring
    <3> QED
      BY <3>1, <3>2
  <2>6. ASSUME NEW r \in Replica, GetSecret(r) PROVE FreshInv'
    <3>1. /\ UNCHANGED unstored /\ Storing(r) /\ proc'[r].cert = proc[r].cert
          /\ \A x \in Replica \ {r} : proc'[x] = proc[x]
      BY <2>1, <2>6 DEF GetSecret, Storing, ProcType
    <3>2. \A x \in Replica : Storing(x)' => Storing(x)
      BY <3>1 DEF Storing
    <3> QED
      BY <3>1, <3>2, FreshKept
  <2>7. ASSUME NEW r \in Replica, PutSecret(r) PROVE FreshInv'
    <3>1. CASE secret # proc[r].seen
      BY <2>3, <2>7, <3>1 DEF PutSecret
    <3>2. CASE secret = proc[r].seen
      <4>1. /\ Storing(r) /\ unstored' = unstored \ {proc[r].cert}
            /\ \/ Fail(r)
               \/ proc' = [proc EXCEPT ![r].pc = "writeCrt", ![r].seen = NoCert]
        BY <2>7, <3>2 DEF PutSecret, Stored, Storing
      <4>2. /\ proc'[r].pc \notin {"getSecret", "putSecret"}
            /\ \A x \in Replica \ {r} : proc'[x] = proc[x]
        BY <2>1, <4>1 DEF Fail, Proc, ProcType
      <4>3. ~ Storing(r)' /\ \A x \in Replica \ {r} : Storing(x)' => Storing(x)
        BY <4>2 DEF Storing
      <4>4. ASSUME NEW x \in Replica, Storing(x)' PROVE proc'[x].cert \in unstored'
        BY <4>1, <4>2, <4>3, <4>4 DEF FreshInv
      <4>5. ASSUME NEW x \in Replica, Storing(x)',
                   NEW q \in Replica, Storing(q)', proc'[q].cert = proc'[x].cert
            PROVE  q = x
        BY <4>2, <4>3, <4>5 DEF FreshInv
      <4> QED
        BY <4>4, <4>5 DEF FreshInv
    <3> QED
      BY <3>1, <3>2
  <2>8. ASSUME NEW r \in Replica, WriteCrt(r) \/ WriteKey(r) \/ GetConfig(r),
               ~ Done(r)
        PROVE  FreshInv'
    <3>1. UNCHANGED unstored
      BY <2>8 DEF WriteCrt, WriteKey, GetConfig
    <3>2. /\ proc'[r].pc \in {"writeKey", "getConfig", "putConfig"}
          /\ \A x \in Replica \ {r} : proc'[x] = proc[x]
      BY <2>1, <2>8 DEF WriteCrt, WriteKey, GetConfig, ProcType
    <3>3. ~ Storing(r)' /\ \A x \in Replica \ {r} : Storing(x)' => Storing(x)
      BY <3>2 DEF Storing
    <3> QED
      BY <3>1, <3>2, <3>3, FreshKept
  <2>9. ASSUME NEW r \in Replica, WriteKey(r), Done(r) PROVE FreshInv'
    BY <2>3, <2>9 DEF WriteKey
  <2>10. ASSUME NEW r \in Replica, PutConfig(r) \/ CallFails(r) PROVE FreshInv'
    BY <2>3, <2>10 DEF PutConfig, CallFails
  <2>11. ASSUME NEW r \in Replica, Crash(r) PROVE FreshInv'
    <3>1. proc' = [proc EXCEPT ![r] = Proc("down", FALSE)] /\ UNCHANGED unstored
      BY <2>11 DEF Crash
    <3>2. Proc("down", FALSE).pc = "down"
      BY DEF Proc
    <3> QED
      BY <3>1, <3>2, NotStoring
  <2>12. ASSUME NEW r \in Replica, Reload(r) PROVE FreshInv'
    BY <2>2, <2>12 DEF Reload
  <2>13. CASE ComeDue
    BY <2>2, <2>13 DEF ComeDue
  <2>14. ASSUME NEW r \in Replica, WriteCrt(r) \/ WriteKey(r) \/ GetConfig(r) PROVE FreshInv'
    <3>1. Done(r) => WriteKey(r)
      <4>1. WriteCrt(r) \/ GetConfig(r) => proc'[r].pc \in {"writeKey", "putConfig"}
        BY <2>1 DEF WriteCrt, GetConfig, ProcType
      <4>2. Done(r) => proc'[r].pc = "running"
        BY <2>1 DEF Done, Proc
      <4> QED
        BY <2>14, <4>1, <4>2
    <3> QED
      BY <2>8, <2>9, <2>14, <3>1
  <2>15. CASE UNCHANGED vars
    BY <2>2, <2>15 DEF vars
  <2> QED
    BY <2>4, <2>5, <2>6, <2>7, <2>10, <2>11, <2>12, <2>13, <2>14, <2>15 DEF Next, Step
<1> QED
  BY <1>1, <1>2, CertsTypeCorrect, PTL DEF Spec

(***************************************************************************)
(* upsertSecret never puts a certificate into the Secret that was there    *)
(* before, whichever replicas race and whatever reply was lost.            *)
(***************************************************************************)
THEOREM SecretMovesOn == Spec => SecretNeverGoesBack
<1>1. FreshInv /\ [Next]_vars => [secret' # secret => secret' \in unstored]_vars
  <2> SUFFICES ASSUME FreshInv, Next, secret' # secret PROVE secret' \in unstored
    OBVIOUS
  <2>1. PICK r \in Replica : PutSecret(r)
    BY DEF Next, Step, Start, Tick, Check, GetSecret, WriteCrt, WriteKey, GetConfig,
           PutConfig, CallFails, Crash, Reload, ComeDue
  <2>2. secret' = proc[r].cert /\ Storing(r)
    BY <2>1 DEF PutSecret, Stored, Storing
  <2> QED
    BY <2>2 DEF FreshInv
<1> QED
  BY <1>1, FreshInvariant, PTL DEF Spec, SecretNeverGoesBack
=============================================================================
