--------------------------- MODULE KeyMintTaProofs ---------------------------
(***************************************************************************)
(* Proofs about the TA state machine of KeyMintTa: type correctness and    *)
(* the trusted-presence invariant, for every value of the constants.       *)
(***************************************************************************)
EXTENDS KeyMintTa, WellFoundedInduction, TLAPS

(* MinOf, the "first slot" choice of the operation and use-count tables,   *)
(* picks a member of any nonempty set of naturals, and its least one.      *)
LEMMA MinOfIsLeast ==
    ASSUME NEW S \in SUBSET Nat, S # {}
    PROVE  /\ MinOf(S) \in S
           /\ \A j \in S : MinOf(S) <= j
<1>1. \E x \in S : \A y \in S : ~(<<y, x>> \in OpToRel(<, Nat))
  BY NatLessThanWellFounded, WFMin, Zenon
<1>2. \A x, y \in Nat : <<y, x>> \in OpToRel(<, Nat) <=> y < x
  BY DEF OpToRel
<1>3. PICK x \in S : \A y \in S : ~(<<y, x>> \in OpToRel(<, Nat))
  BY <1>1, Zenon
<1>4. \A y \in S : ~(y < x)
  BY <1>2, <1>3, Zenon
<1>5. \A y \in S : x <= y
  BY <1>4
<1>6. QED
  BY <1>5, Zenon DEF MinOf

USE KeyMintTaAssumption

(* None, the empty slot of both tables, is no table entry. *)
LEMMA NoneIsNoEntry == None \notin UseCount /\ None \notin Operation
  BY NoneAssumption DEF UseCount, Operation, Handles

(* The shape of one call of update_use_count on key k when the table has *)
(* a slot for it: one slot idx, the key's own or else a free one, is      *)
(* written with count c, or c + 1 when c is below the limit; the call     *)
(* returns Ok exactly in that second case.                                 *)
LEMMA UpdateUseCountShape ==
    ASSUME TypeOK, NEW k \in Keys, NEW L \in Nat,
           \E i \in UseSlots : useCount[i] = None \/ useCount[i].key = k
    PROVE  \E idx \in UseSlots, c \in Nat :
              /\ UpdateUseCount(k, L).table =
                    [useCount EXCEPT ![idx] = IF c >= L THEN [key |-> k, count |-> c]
                                              ELSE [key |-> k, count |-> c + 1]]
              /\ UpdateUseCount(k, L).code = "Ok" <=> c < L
              /\ \/ useCount[idx] = [key |-> k, count |-> c]
                    /\ \A j \in UseSlots : useCount[j] # None /\ useCount[j].key = k
                                              => idx <= j
                 \/ /\ useCount[idx] = None /\ c = 0
                    /\ \A j \in UseSlots : useCount[j] # None => useCount[j].key # k
<1> DEFINE tracking == {i \in UseSlots : useCount[i] # None /\ useCount[i].key = k}
           free == {i \in UseSlots : useCount[i] = None}
<1>0. UseSlots \subseteq Nat
  BY DEF UseSlots
<1>1. CASE tracking # {}
  <2> DEFINE idx == MinOf(tracking)
  <2>1. idx \in tracking /\ \A j \in tracking : idx <= j
    BY <1>0, <1>1, MinOfIsLeast
  <2>2. useCount[idx] \in UseCount
    BY <2>1 DEF TypeOK
  <2>3. useCount[idx] = [key |-> k, count |-> useCount[idx].count]
    BY <2>1, <2>2, Zenon DEF UseCount
  <2>4. [useCount[idx] EXCEPT !.count = @ + 1] = [key |-> k, count |-> useCount[idx].count + 1]
    BY <2>2, <2>3 DEF UseCount
  <2>5. UpdateUseCount(k, L) =
          IF useCount[idx].count >= L
          THEN [code |-> "KeyMaxOpsExceeded", table |-> [useCount EXCEPT ![idx] = useCount[idx]]]
          ELSE [code |-> "Ok",
                table |-> [useCount EXCEPT ![idx] = [useCount[idx] EXCEPT !.count = @ + 1]]]
    BY <1>1, Zenon DEF UpdateUseCount
  <2>6. QED
    <3> USE <2>1, <2>2 DEF UseCount
    <3> WITNESS idx \in UseSlots, useCount[idx].count \in Nat
    <3>1. UpdateUseCount(k, L).table =
             [useCount EXCEPT ![idx] = IF useCount[idx].count >= L
                                       THEN [key |-> k, count |-> useCount[idx].count]
                                       ELSE [key |-> k, count |-> useCount[idx].count + 1]]
      <4>1. CASE useCount[idx].count >= L
        <5>1. UpdateUseCount(k, L).table = [useCount EXCEPT ![idx] = useCount[idx]]
          BY <4>1, <2>5
        <5>2. QED
          BY <5>1, <4>1, <2>3, Zenon
      <4>2. CASE ~(useCount[idx].count >= L)
        <5>1. UpdateUseCount(k, L).table =
                 [useCount EXCEPT ![idx] = [useCount[idx] EXCEPT !.count = @ + 1]]
          BY <4>2, <2>5
        <5>2. QED
          BY <5>1, <4>2, <2>4, Zenon
      <4>3. QED
        BY <4>1, <4>2
    <3>2. UpdateUseCount(k, L).code = "Ok" <=> useCount[idx].count < L
      BY <2>5
    <3>3. \A j \in UseSlots : useCount[j] # None /\ useCount[j].key = k => idx <= j
      BY <2>1
    <3>4. QED
      BY <2>3, <3>1, <3>2, <3>3
<1>2. CASE tracking = {}
  <2> DEFINE idx == MinOf(free)
  <2>1. free # {}
    BY <1>2
  <2>2. idx \in free
    BY <1>0, <2>1, MinOfIsLeast
  <2>3. [[key |-> k, count |-> 0] EXCEPT !.count = @ + 1] = [key |-> k, count |-> 1]
    OBVIOUS
  <2>4. UpdateUseCount(k, L) =
          IF 0 >= L
          THEN [code |-> "KeyMaxOpsExceeded",
                table |-> [useCount EXCEPT ![idx] = [key |-> k, count |-> 0]]]
          ELSE [code |-> "Ok",
                table |-> [useCount EXCEPT ![idx] = [[key |-> k, count |-> 0] EXCEPT !.count = @ + 1]]]
    BY <1>2, <2>1, Zenon DEF UpdateUseCount
  <2>5. \A j \in UseSlots : useCount[j] # None => useCount[j].key # k
    BY <1>2
  <2>6. QED
    <3> USE <2>2
    <3> WITNESS idx \in UseSlots, 0 \in Nat
    <3>1. UpdateUseCount(k, L).table =
             [useCount EXCEPT ![idx] = IF 0 >= L THEN [key |-> k, count |-> 0]
                                       ELSE [key |-> k, count |-> 0 + 1]]
      <4>1. CASE 0 >= L
        <5>1. UpdateUseCount(k, L).table = [useCount EXCEPT ![idx] = [key |-> k, count |-> 0]]
          BY <4>1, <2>4
        <5>2. QED
          BY <5>1, <4>1
      <4>2. CASE ~(0 >= L)
        <5>1. UpdateUseCount(k, L).table =
                 [useCount EXCEPT ![idx] = [[key |-> k, count |-> 0] EXCEPT !.count = @ + 1]]
          BY <4>2, <2>4
        <5>2. QED
          BY <5>1, <4>2, <2>3, Zenon
      <4>3. QED
        BY <4>1, <4>2
    <3>2. UpdateUseCount(k, L).code = "Ok" <=> 0 < L
      BY <2>4
    <3>3. QED
      BY <2>2, <2>5, <3>1, <3>2
<1>3. QED
  BY <1>1, <1>2, Zenon

(* update_use_count returns one of its three codes and leaves a table of   *)
(* the right shape.                                                        *)
LEMMA UpdateUseCountType ==
    ASSUME TypeOK, NEW k \in Keys, NEW maxUses \in Nat
    PROVE  /\ UpdateUseCount(k, maxUses).code \in {"Ok", "KeyMaxOpsExceeded", "TooManyOperations"}
           /\ UpdateUseCount(k, maxUses).table \in [UseSlots -> UseCount \cup {None}]
<1>1. CASE \A i \in UseSlots : useCount[i] # None /\ useCount[i].key # k
  BY <1>1 DEF UpdateUseCount, TypeOK
<1>2. CASE \E i \in UseSlots : useCount[i] = None \/ useCount[i].key = k
  <2>1. PICK idx \in UseSlots, c \in Nat :
              /\ UpdateUseCount(k, maxUses).table =
                    [useCount EXCEPT ![idx] = IF c >= maxUses THEN [key |-> k, count |-> c]
                                              ELSE [key |-> k, count |-> c + 1]]
              /\ UpdateUseCount(k, maxUses).code = "Ok" <=> c < maxUses
    BY <1>2, UpdateUseCountShape, Zenon
  <2>2. UpdateUseCount(k, maxUses).code \in {"Ok", "KeyMaxOpsExceeded", "TooManyOperations"}
    BY DEF UpdateUseCount
  <2>3. QED
    BY <2>1, <2>2 DEF TypeOK, UseCount
<1>3. QED
  BY <1>1, <1>2

(* The use-count step of begin, for limited and unlimited keys alike. *)
LEMMA UseCountStepType ==
    ASSUME TypeOK, NEW k \in Keys
    PROVE  /\ UseCountStep(k).code \in Codes
           /\ UseCountStep(k).table \in [UseSlots -> UseCount \cup {None}]
<1>1. CASE UsageLimit[k] = NoLimit
  BY <1>1 DEF UseCountStep, TypeOK, Codes
<1>2. CASE UsageLimit[k] # NoLimit
  <2>1. UsageLimit[k] \in Nat
    BY <1>2
  <2>2. QED
    BY <1>2, <2>1, UpdateUseCountType DEF UseCountStep, Codes
<1>3. QED
  BY <1>1, <1>2

-----------------------------------------------------------------------------
(* Type correctness: every request handler leaves every field of the TA    *)
(* within its type, for every table size and every set of keys.           *)
LEMMA TypeInit == Init => TypeOK
<1> SUFFICES ASSUME Init PROVE TypeOK
  OBVIOUS
<1>1. devIds \in AttIds \cup {None}
  <2>1. CASE HasAttestIds
    BY <2>1 DEF Init
  <2>2. CASE ~HasAttestIds
    BY <2>2 DEF Init
  <2>3. QED
    BY <2>1, <2>2
<1>2. QED
  BY <1>1 DEF Init, TypeOK, OpSlots, UseSlots, Challenges, Codes, LockStates

LEMMA TypeStep == TypeOK /\ [Next]_vars => TypeOK'
<1> SUFFICES ASSUME TypeOK, [Next]_vars PROVE TypeOK'
  OBVIOUS
<1>1. CASE \E b \in BootInfos : SetBootInfo(b)
  <2> PICK b \in BootInfos : SetBootInfo(b)
    BY <1>1
  <2>1. rotData' \in RotValues \cup {None}
    <3>1. CASE bootInfo = None /\ EncodeMayFail
      BY <3>1 DEF SetBootInfo, RotValues
    <3>2. CASE bootInfo = None /\ ~EncodeMayFail
      BY <3>2 DEF SetBootInfo, RotValues
    <3>3. CASE bootInfo # None
      BY <3>3 DEF SetBootInfo, TypeOK
    <3>4. QED
      BY <3>1, <3>2, <3>3
  <2>2. QED
    BY <2>1 DEF SetBootInfo, TypeOK, Codes, deviceVars, opVars
<1>2. CASE SetBootInfoBadState
  BY <1>2 DEF SetBootInfoBadState, TypeOK, Codes, latchVars, deviceVars, opVars
<1>3. CASE \E a \in HalInfos : SetHalInfo(a)
  BY <1>3 DEF SetHalInfo, TypeOK, Codes, deviceVars, opVars
<1>4. CASE \E ids \in AttIds : SetAttestationIds(ids)
  BY <1>4 DEF SetAttestationIds, TypeOK, Codes, deviceVars, opVars
<1>5. CASE \E k \in HmacKeys : ComputeSharedSecret(k)
  BY <1>5 DEF ComputeSharedSecret, TypeOK, Codes, deviceVars, opVars
<1>6. CASE EarlyBootEnded
  BY <1>6, Zenon DEF EarlyBootEnded, TypeOK, Codes, deviceVars, opVars
<1>7. CASE \E pw \in BOOLEAN, t \in Tokens : DeviceLocked(pw, t)
  BY <1>7 DEF DeviceLocked, LockError, TypeOK, Codes, LockStates, latchVars, opVars
<1>8. CASE GetRootOfTrustChallenge
  BY <1>8 DEF GetRootOfTrustChallenge, TypeOK, Codes, Challenges, latchVars, opVars
<1>9. CASE GetRootOfTrust
  BY <1>9 DEF GetRootOfTrust, TypeOK, Codes, latchVars, deviceVars, opVars
<1>10. CASE \E m \in RotMessage : SendRootOfTrust(m)
  BY <1>10 DEF SendRootOfTrust, TypeOK, Codes, RotMessage, deviceVars, opVars
<1>11. CASE DestroyAttestationIds
  BY <1>11 DEF DestroyAttestationIds, TypeOK, Codes, deviceVars, opVars
<1>12. CASE GenerateCertificateRequest
  BY <1>12 DEF GenerateCertificateRequest, FetchedIds, TypeOK, Codes, deviceVars, opVars
<1>13. CASE \E k \in Keys : Begin(k)
  <2> PICK k \in Keys : Begin(k)
    BY <1>13
  <2>1. UseCountStep(k).code \in Codes
        /\ UseCountStep(k).table \in [UseSlots -> UseCount \cup {None}]
    BY UseCountStepType
  <2>2. CASE BeginRejected(k)
    BY <2>2 DEF BeginRejected, TypeOK, Codes, latchVars, deviceVars, opVars
  <2>3. CASE BeginUseCountFails(k)
    BY <2>1, <2>3 DEF BeginUseCountFails, TypeOK, latchVars, deviceVars
  <2>4. CASE BeginPresenceConflict(k)
    BY <2>1, <2>4 DEF BeginPresenceConflict, TypeOK, Codes, latchVars, deviceVars
  <2>5. CASE BeginOk(k)
    <3>1. MinOf(FreeOpSlots) \in OpSlots
      BY <2>5, MinOfIsLeast DEF BeginOk, FreeOpSlots, OpSlots
    <3>2. NewHandle \in Handles
      BY <2>5 DEF BeginOk, NewHandle, TypeOK, Handles
    <3>3. ops' \in [OpSlots -> Operation \cup {None}]
      BY <2>5, <3>1, <3>2 DEF BeginOk, TypeOK, Operation
    <3>4. presenceOp' \in Handles \cup {None} /\ nextHandle' \in 0..MaxHandles
      BY <2>5, <3>2 DEF BeginOk, TypeOK, Handles
    <3>5. begun' \in [Keys -> Nat]
      BY <2>5 DEF BeginOk, TypeOK
    <3>6. QED
      BY <2>1, <2>5, <3>3, <3>4, <3>5 DEF BeginOk, TypeOK, Codes, latchVars, deviceVars
  <2>6. QED
    BY <2>2, <2>3, <2>4, <2>5 DEF Begin
<1>14. CASE \E h \in Handles : EndOperation(h)
  BY <1>14 DEF EndOperation, TypeOK, Codes, latchVars, deviceVars
<1>15. CASE UNCHANGED vars
  BY <1>15 DEF vars, TypeOK
<1>16. QED
  BY <1>1, <1>2, <1>3, <1>4, <1>5, <1>6, <1>7, <1>8, <1>9, <1>10, <1>11,
     <1>12, <1>13, <1>14, <1>15 DEF Next

(* The TA's state is always well typed. *)
THEOREM TypeCorrect == Spec => []TypeOK
  BY TypeInit, TypeStep, PTL DEF Spec

-----------------------------------------------------------------------------
(* The use-count ledger.                                                   *)

(* One call of update_use_count for a limited key k keeps the ledger,      *)
(* whether or not the begin that called it goes on to count an operation   *)
(* (it counts one only when the call returned Ok).                         *)
LEMMA LedgerStepLimited ==
    ASSUME TypeOK, UseCountLedger, NEW k \in Keys, UsageLimit[k] # NoLimit,
           useCount' = UpdateUseCount(k, UsageLimit[k]).table,
           \/ begun' = begun
           \/ /\ UpdateUseCount(k, UsageLimit[k]).code = "Ok"
              /\ begun' = [begun EXCEPT ![k] = @ + 1]
    PROVE  UseCountLedger'
<1> DEFINE L == UsageLimit[k]
<1>0. L \in Nat
  OBVIOUS
<1>1. CASE \A i \in UseSlots : useCount[i] # None /\ useCount[i].key # k
  <2>1. UpdateUseCount(k, L).table = useCount
        /\ UpdateUseCount(k, L).code = "TooManyOperations"
    BY <1>1 DEF UpdateUseCount
  <2>2. useCount' = useCount /\ begun' = begun
    BY <2>1
  <2>3. QED
    BY <2>2, SMTT(30) DEF UseCountLedger, Tracked
<1>2. CASE \E i \in UseSlots : useCount[i] = None \/ useCount[i].key = k
  <2>1. PICK idx \in UseSlots, c \in Nat :
              /\ UpdateUseCount(k, L).table =
                    [useCount EXCEPT ![idx] = IF c >= L THEN [key |-> k, count |-> c]
                                              ELSE [key |-> k, count |-> c + 1]]
              /\ UpdateUseCount(k, L).code = "Ok" <=> c < L
              /\ \/ useCount[idx] = [key |-> k, count |-> c]
                    /\ \A j \in UseSlots : useCount[j] # None /\ useCount[j].key = k
                                              => idx <= j
                 \/ /\ useCount[idx] = None /\ c = 0
                    /\ \A j \in UseSlots : useCount[j] # None => useCount[j].key # k
    BY <1>0, <1>2, UpdateUseCountShape, Zenon
  <2> DEFINE new == IF c >= L THEN [key |-> k, count |-> c] ELSE [key |-> k, count |-> c + 1]
  <2>0. idx \in UseSlots /\ c \in Nat
    BY <2>1
  <2>2. /\ begun[k] <= c /\ c <= L
        /\ \A j \in UseSlots \ {idx} : useCount[j] # None => useCount[j].key # k
        /\ useCount[idx] # None => useCount[idx].key = k
    <3>1. CASE /\ useCount[idx] = [key |-> k, count |-> c]
               /\ \A j \in UseSlots : useCount[j] # None /\ useCount[j].key = k => idx <= j
      <4>1. idx \in Tracked(k)
        BY <2>0, <3>1, NoneIsNoEntry DEF Tracked, UseCount
      <4>2. begun[k] <= c /\ c <= L
        BY <3>1, <4>1 DEF UseCountLedger
      <4>3. \A j \in UseSlots \ {idx} : useCount[j] # None => useCount[j].key # k
        BY <2>0, <3>1, NoneIsNoEntry DEF UseCountLedger, UseCount
      <4>4. QED
        BY <3>1, <4>2, <4>3
    <3>2. CASE /\ useCount[idx] = None /\ c = 0
               /\ \A j \in UseSlots : useCount[j] # None => useCount[j].key # k
      <4>1. Tracked(k) = {}
        BY <3>2 DEF Tracked
      <4>2. begun[k] = 0
        BY <4>1 DEF UseCountLedger
      <4>3. QED
        BY <3>2, <4>2, <1>0
    <3>3. QED
      BY <2>1, <3>1, <3>2
  <2>3. /\ new \in UseCount /\ new # None
        /\ new.key = k /\ new.count \in Nat /\ new.count <= L
        /\ begun'[k] <= new.count
    BY <1>0, <2>0, <2>1, <2>2, NoneIsNoEntry DEF TypeOK, UseCount
  <2>4. /\ useCount'[idx] = new
        /\ \A i \in UseSlots \ {idx} : useCount'[i] = useCount[i]
    BY <2>0, <2>1 DEF TypeOK
  <2>5. \A k2 \in Keys \ {k} : begun'[k2] = begun[k2]
    BY DEF TypeOK
  <2>6. ASSUME NEW i \in UseSlots, NEW j \in UseSlots,
               useCount'[i] # None, useCount'[j] # None,
               useCount'[i].key = useCount'[j].key
        PROVE  i = j
    BY <2>6, <2>2, <2>3, <2>4 DEF UseCountLedger
  <2>7. ASSUME NEW k2 \in Keys, UsageLimit[k2] # NoLimit
        PROVE  /\ Tracked(k2)' = {} => begun'[k2] = 0
               /\ \A i \in Tracked(k2)' : /\ begun'[k2] <= useCount'[i].count
                                          /\ useCount'[i].count <= UsageLimit[k2]
    <3>1. CASE k2 = k
      <4>1. Tracked(k)' = {idx}
        BY <2>0, <2>2, <2>3, <2>4 DEF Tracked
      <4>2. QED
        BY <3>1, <4>1, <2>3, <2>4
    <3>2. CASE k2 # k
      <4>1. Tracked(k2)' = Tracked(k2)
        BY <3>2, <2>0, <2>2, <2>3, <2>4 DEF Tracked
      <4>2. idx \notin Tracked(k2)
        BY <3>2, <2>2 DEF Tracked
      <4>3. Tracked(k2) \subseteq UseSlots
        BY DEF Tracked
      <4>4. /\ Tracked(k2) = {} => begun[k2] = 0
            /\ \A i \in Tracked(k2) : begun[k2] <= useCount[i].count
                                     /\ useCount[i].count <= UsageLimit[k2]
        BY <2>7 DEF UseCountLedger
      <4>5. begun'[k2] = begun[k2]
        BY <3>2, <2>5
      <4>6. \A i \in Tracked(k2) : useCount'[i] = useCount[i]
        BY <4>2, <4>3, <2>4
      <4>7. QED
        BY <4>1, <4>4, <4>5, <4>6
    <3>3. QED
      BY <3>1, <3>2
  <2>8. QED
    BY <2>6, <2>7 DEF UseCountLedger
<1>3. QED
  BY <1>1, <1>2

(* A begin on a key without a usage limit changes neither the table nor   *)
(* the count of any limited key.                                           *)
LEMMA LedgerStepUnlimited ==
    ASSUME TypeOK, UseCountLedger, NEW k \in Keys, UsageLimit[k] = NoLimit,
           useCount' = useCount,
           begun' = begun \/ begun' = [begun EXCEPT ![k] = @ + 1]
    PROVE  UseCountLedger'
<1>1. \A k2 \in Keys : UsageLimit[k2] # NoLimit => begun'[k2] = begun[k2]
  BY DEF TypeOK
<1>2. QED
  BY <1>1 DEF UseCountLedger, Tracked

LEMMA LedgerInit == Init => UseCountLedger
  BY DEF Init, UseCountLedger, Tracked

LEMMA LedgerStep == TypeOK /\ UseCountLedger /\ [Next]_vars => UseCountLedger'
<1> SUFFICES ASSUME TypeOK, UseCountLedger, [Next]_vars PROVE UseCountLedger'
  OBVIOUS
<1>1. CASE UNCHANGED <<useCount, begun>>
  BY <1>1 DEF UseCountLedger, Tracked
<1>2. CASE \E k \in Keys : Begin(k)
  <2> PICK k \in Keys : Begin(k)
    BY <1>2, SMTT(30)
  <2>1. CASE BeginRejected(k)
    BY <2>1 DEF BeginRejected, opVars, UseCountLedger, Tracked
  <2>2. CASE BeginUseCountFails(k) \/ BeginPresenceConflict(k)
    <3>1. useCount' = UseCountStep(k).table /\ begun' = begun
      BY <2>2 DEF BeginUseCountFails, BeginPresenceConflict
    <3>2. CASE UsageLimit[k] = NoLimit
      BY <3>1, <3>2, LedgerStepUnlimited DEF UseCountStep
    <3>3. CASE UsageLimit[k] # NoLimit
      BY <3>1, <3>3, LedgerStepLimited DEF UseCountStep
    <3>4. QED
      BY <3>2, <3>3
  <2>3. CASE BeginOk(k)
    <3>1. /\ useCount' = UseCountStep(k).table /\ UseCountStep(k).code = "Ok"
          /\ begun' = [begun EXCEPT ![k] = @ + 1]
      BY <2>3 DEF BeginOk
    <3>2. CASE UsageLimit[k] = NoLimit
      BY <3>1, <3>2, LedgerStepUnlimited, Zenon DEF UseCountStep
    <3>3. CASE UsageLimit[k] # NoLimit
      BY <3>1, <3>3, LedgerStepLimited, Zenon DEF UseCountStep
    <3>4. QED
      BY <3>2, <3>3
  <2>4. QED
    BY <2>1, <2>2, <2>3 DEF Begin
<1>3. CASE \E h \in Handles : EndOperation(h)
  BY <1>3 DEF EndOperation, UseCountLedger, Tracked
<1>4. QED
  BY <1>1, <1>2, <1>3
    DEF Next, vars, SetBootInfo, SetBootInfoBadState, SetHalInfo, SetAttestationIds,
        ComputeSharedSecret, EarlyBootEnded, DeviceLocked, GetRootOfTrustChallenge,
        GetRootOfTrust, SendRootOfTrust, DestroyAttestationIds,
        GenerateCertificateRequest, opVars

(* Use-count enforcement: no key with UsageCountLimit(n) ever has more     *)
(* than n operations begun on it, for every table size and every limit:   *)
(* update_use_count's ledger (UseCountLedger) is inductive, and it bounds *)
(* the operations begun by the limit.                                      *)
THEOREM UseLimitHolds == Spec => []UseLimitRespected
<1>1. TypeOK /\ UseCountLedger => UseLimitRespected
  <2> SUFFICES ASSUME TypeOK, UseCountLedger, NEW k \in Keys, UsageLimit[k] # NoLimit
               PROVE  begun[k] <= UsageLimit[k]
    BY DEF UseLimitRespected
  <2>1. UsageLimit[k] \in Nat
    OBVIOUS
  <2>2. CASE Tracked(k) = {}
    BY <2>1, <2>2 DEF UseCountLedger
  <2>3. CASE Tracked(k) # {}
    <3>1. PICK i \in Tracked(k) : TRUE
      BY <2>3
    <3>2. i \in UseSlots /\ useCount[i] \in UseCount
      BY <3>1 DEF Tracked, TypeOK
    <3>3. QED
      BY <2>1, <3>1, <3>2 DEF UseCountLedger, TypeOK, UseCount
  <2>4. QED
    BY <2>2, <2>3
<1>2. QED
  BY <1>1, TypeInit, TypeStep, LedgerInit, LedgerStep, PTL DEF Spec

-----------------------------------------------------------------------------
(* Trusted presence.                                                       *)

LEMMA PresenceInit == Init => PresenceExclusive
  BY DEF Init, PresenceExclusive, PresenceSlots

LEMMA PresenceStep == TypeOK /\ PresenceExclusive /\ [Next]_vars => PresenceExclusive'
<1> SUFFICES ASSUME TypeOK, PresenceExclusive, [Next]_vars PROVE PresenceExclusive'
  OBVIOUS
<1>1. CASE UNCHANGED <<ops, presenceOp>>
  BY <1>1 DEF PresenceExclusive, PresenceSlots
<1>2. CASE \E k \in Keys : BeginOk(k)
  <2> PICK k \in Keys : BeginOk(k)
    BY <1>2
  <2> DEFINE slot == MinOf(FreeOpSlots)
             op == [handle |-> NewHandle, key |-> k, presence |-> k \in PresenceKeys]
  <2>1. slot \in OpSlots /\ ops[slot] = None
    BY MinOfIsLeast, SMTT(30) DEF BeginOk, FreeOpSlots, OpSlots
  <2>2. /\ ops'[slot] = op
        /\ \A i \in OpSlots \ {slot} : ops'[i] = ops[i]
    BY <2>1 DEF BeginOk, TypeOK
  <2>0. nextHandle \in Nat
    BY DEF TypeOK
  <2>3. op # None
    <3>1. op \in [handle : Nat, key : Keys, presence : BOOLEAN]
      BY <2>0 DEF NewHandle
    <3>2. QED
      BY <3>1, NoneAssumption, Zenon
  <2>4. slot \notin PresenceSlots
    BY <2>1 DEF PresenceSlots
  <2>5. CASE k \in PresenceKeys
    <3>1. presenceOp = None /\ presenceOp' = NewHandle
      BY <2>5 DEF BeginOk
    <3>2. PresenceSlots = {}
      BY <3>1 DEF PresenceExclusive
    <3>3. PresenceSlots' = {slot}
      <4>1. ops'[slot] # None /\ ops'[slot].presence
        <5>1. op.presence = (k \in PresenceKeys)
          OBVIOUS
        <5>2. QED
          BY <2>2, <2>3, <2>5, <5>1, Zenon
      <4>2. \A i \in OpSlots \ {slot} : ~(ops'[i] # None /\ ops'[i].presence)
        BY <2>2, <3>2 DEF PresenceSlots
      <4>3. QED
        BY <2>1, <4>1, <4>2 DEF PresenceSlots
    <3>4. NewHandle # None
      BY NoneAssumption DEF NewHandle, TypeOK
    <3>5. \A i, j \in PresenceSlots' : i = j
      BY <3>3
    <3>6. presenceOp' = None <=> PresenceSlots' = {}
      BY <3>1, <3>3, <3>4
    <3>7. \A i \in PresenceSlots' : ops'[i].handle = presenceOp'
      BY <2>2, <3>1, <3>3
    <3>8. QED
      BY <3>5, <3>6, <3>7 DEF PresenceExclusive
  <2>6. CASE k \notin PresenceKeys
    <3>1. presenceOp' = presenceOp
      BY <2>6 DEF BeginOk
    <3>2. PresenceSlots' = PresenceSlots
      <4>1. ~(ops'[slot] # None /\ ops'[slot].presence)
        <5>1. op.presence = (k \in PresenceKeys)
          OBVIOUS
        <5>2. QED
          BY <2>2, <2>6, <5>1, Zenon
      <4>2. ~(ops[slot] # None /\ ops[slot].presence)
        BY <2>1
      <4>3. QED
        BY <2>2, <4>1, <4>2 DEF PresenceSlots
    <3>3. \A i \in PresenceSlots : ops'[i] = ops[i]
      BY <2>2, <2>4 DEF PresenceSlots
    <3>4. QED
      BY <3>1, <3>2, <3>3, Zenon DEF PresenceExclusive
  <2>7. QED
    BY <2>5, <2>6
<1>3. CASE \E h \in Handles : EndOperation(h)
  <2> PICK h \in Handles : EndOperation(h)
    BY <1>3
  <2>1. CASE \E i \in OpSlots : ops[i] # None /\ ops[i].handle = h
    <3>1. /\ ops' = [i \in OpSlots |-> IF ops[i] # None /\ ops[i].handle = h THEN None ELSE ops[i]]
          /\ presenceOp' = IF presenceOp = h THEN None ELSE presenceOp
      BY <2>1 DEF EndOperation
    <3>2. PresenceSlots' = {i \in PresenceSlots : ops[i].handle # h}
      BY <3>1 DEF PresenceSlots
    <3>3. CASE presenceOp = h
      BY <3>1, <3>2, <3>3 DEF PresenceExclusive
    <3>4. CASE presenceOp # h
      <4>1. PresenceSlots' = PresenceSlots
        BY <3>2, <3>4 DEF PresenceExclusive
      <4>2. \A i \in PresenceSlots : ops'[i] = ops[i]
        BY <3>1, <3>4 DEF PresenceExclusive, PresenceSlots
      <4>3. QED
        BY <3>1, <3>4, <4>1, <4>2, Zenon DEF PresenceExclusive
    <3>5. QED
      BY <3>3, <3>4
  <2>2. CASE ~\E i \in OpSlots : ops[i] # None /\ ops[i].handle = h
    BY <2>2, <1>1 DEF EndOperation
  <2>3. QED
    BY <2>1, <2>2
<1>4. QED
  <2>1. \A k \in Keys : BeginRejected(k) \/ BeginUseCountFails(k) \/ BeginPresenceConflict(k)
                        => UNCHANGED <<ops, presenceOp>>
    BY DEF BeginRejected, BeginUseCountFails, BeginPresenceConflict, opVars
  <2>2. QED
    BY <1>1, <1>2, <1>3, <2>1
    DEF Next, vars, Begin, SetBootInfo, SetBootInfoBadState, SetHalInfo, SetAttestationIds,
        ComputeSharedSecret, EarlyBootEnded, DeviceLocked, GetRootOfTrustChallenge,
        GetRootOfTrust, SendRootOfTrust, DestroyAttestationIds,
        GenerateCertificateRequest, opVars

(* Trusted presence: at most one operation in the table needs trusted user *)
(* presence and presence_required_op names exactly it, for every table    *)
(* size, over any interleaving of begins, finishes and aborts.             *)
THEOREM PresenceHolds == Spec => []PresenceExclusive
  BY TypeInit, TypeStep, PresenceInit, PresenceStep, PTL DEF Spec


=============================================================================
