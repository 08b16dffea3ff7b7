---------------------------- MODULE QMsg2Proofs ----------------------------
(***************************************************************************)
(* Proofs about the bounded queue of QMsg2, for every number of callers,   *)
(* every capacity and every assignment of operations to callers.           *)
(***************************************************************************)
EXTENDS QMsg2, CountingLemmas

(* A new queue (_init_qmsg2_s) has the right types.                        *)
LEMMA InitTypes == Init => TypeOK
  BY BufSzAssumption, ThreadsAssumption DEF Init, TypeOK, Slots, Items, PCs, Results

(* Every operation keeps them.                                             *)
LEMMA StepTypes == TypeOK /\ [Next]_vars => TypeOK'
<1> USE BufSzAssumption, ThreadsAssumption, MayCallAssumption
<1> SUFFICES ASSUME TypeOK, [Next]_vars
             PROVE  TypeOK'
  OBVIOUS
<1> USE DEF TypeOK, PCs, Results, Goto, ring
<1>1. ASSUME NEW t \in Threads, Calls(t)
      PROVE  TypeOK'
  <2>1. PICK o \in MayCall[t] : \E m \in (IF o \in EnqOps THEN Items ELSE {Null}) : Call(t, o, m)
    BY <1>1 DEF Calls
  <2>2. PICK m \in (IF o \in EnqOps THEN Items ELSE {Null}) : Call(t, o, m)
    BY <2>1
  <2>3. o \in Ops /\ m \in Items
    BY <2>2 DEF Items
  <2>4. QED
    BY <2>2, <2>3 DEF Call
<1>2. ASSUME NEW t \in Threads, EnqWait(t) \/ DeqWait(t)
      PROVE  TypeOK'
  BY <1>2 DEF EnqWait, DeqWait
<1>3. ASSUME NEW t \in Threads, Softblock(t) \/ Timeout(t) \/ Interrupt(t)
      PROVE  TypeOK'
  BY <1>3 DEF Softblock, Timeout, Interrupt, Fail
<1>4. ASSUME NEW t \in Threads, Lock(t)
      PROVE  TypeOK'
  BY <1>4 DEF Lock
<1>5. ASSUME NEW t \in Threads, EnqBody(t)
      PROVE  TypeOK'
  <2>1. (inserts + 1) % BufSz \in Slots
    BY ModRange DEF Slots
  <2>2. QED
    BY <1>5, <2>1 DEF EnqBody
<1>6. ASSUME NEW t \in Threads, DeqBody(t)
      PROVE  TypeOK'
  <2>1. (removes + 1) % BufSz \in Slots
    BY ModRange DEF Slots
  <2>2. QED
    BY <1>6, <2>1 DEF DeqBody, Items
<1>7. ASSUME NEW t \in Threads, CountBody(t)
      PROVE  TypeOK'
  <2>1. (IF inserts >= removes THEN inserts - removes ELSE BufSz - removes + inserts) \in Nat
    BY DEF Slots
  <2>2. QED
    BY <1>7, <2>1 DEF CountBody
<1>8. ASSUME NEW t \in Threads, EnqPost(t) \/ DeqPost(t)
      PROVE  TypeOK'
  BY <1>8 DEF EnqPost, DeqPost
<1>9. ASSUME NEW t \in Threads, Return(t)
      PROVE  TypeOK'
  BY <1>9 DEF Return, Items
<1>10. CASE Flush
  <2>1. buffer' \in [Slots -> Items] /\ inserts' \in Slots /\ removes' \in Slots
    BY <1>10 DEF Flush, Items, Slots
  <2>2. QED
    BY <1>10, <2>1 DEF Flush
<1>11. CASE UNCHANGED vars
  BY <1>11 DEF vars
<1>12. QED
  BY <1>1, <1>2, <1>3, <1>4, <1>5, <1>6, <1>7, <1>8, <1>9, <1>10, <1>11 DEF Next, Step

(* Every step keeps the types: indices stay inside the ring, semaphores    *)
(* never go negative, and callers hold messages (all of qmsg2.c).          *)
THEOREM TypeCorrect == Spec => []TypeOK
  BY InitTypes, StepTypes, PTL DEF Spec
-----------------------------------------------------------------------------
(***************************************************************************)
(* Counting the callers between two of their steps.                        *)
(***************************************************************************)
(* The four counts of QMsg2 are natural numbers.                           *)
LEMMA CountTypes ==
  /\ IsFiniteSet(EnqClaimed) /\ Cardinality(EnqClaimed) \in Nat
  /\ IsFiniteSet(EnqWritten) /\ Cardinality(EnqWritten) \in Nat
  /\ IsFiniteSet(DeqClaimed) /\ Cardinality(DeqClaimed) \in Nat
  /\ IsFiniteSet(DeqRead) /\ Cardinality(DeqRead) \in Nat
<1>1. /\ EnqClaimed \subseteq Threads /\ EnqWritten \subseteq Threads
      /\ DeqClaimed \subseteq Threads /\ DeqRead \subseteq Threads
  BY DEF EnqClaimed, EnqWritten, DeqClaimed, DeqRead, At
<1>2. QED
  BY <1>1, ThreadsAssumption, FS_Subset, FS_CardinalityType

(* A caller that has claimed a slot or a message counts.                   *)
LEMMA MemberCounts ==
  /\ EnqClaimed # {} => Cardinality(EnqClaimed) > 0
  /\ DeqClaimed # {} => Cardinality(DeqClaimed) > 0
BY CountTypes, FS_EmptySet

(* A step of t changes each of the four counts by the membership of t.     *)
LEMMA CountMove ==
  ASSUME NEW t \in Threads,
         \A u \in Threads \ {t} : pc'[u] = pc[u] /\ op'[u] = op[u]
  PROVE  /\ Cardinality(EnqClaimed') = Cardinality(EnqClaimed) - Has(EnqClaimed, t) + Has(EnqClaimed', t)
         /\ Cardinality(EnqWritten') = Cardinality(EnqWritten) - Has(EnqWritten, t) + Has(EnqWritten', t)
         /\ Cardinality(DeqClaimed') = Cardinality(DeqClaimed) - Has(DeqClaimed, t) + Has(DeqClaimed', t)
         /\ Cardinality(DeqRead') = Cardinality(DeqRead) - Has(DeqRead, t) + Has(DeqRead', t)
<1>1. /\ EnqClaimed \ {t} = EnqClaimed' \ {t}
      /\ EnqWritten \ {t} = EnqWritten' \ {t}
      /\ DeqClaimed \ {t} = DeqClaimed' \ {t}
      /\ DeqRead \ {t} = DeqRead' \ {t}
  BY DEF EnqClaimed, EnqWritten, DeqClaimed, DeqRead, At
<1>2. QED
  BY <1>1, CountTypes, CardinalityMove
-----------------------------------------------------------------------------
(***************************************************************************)
(* The inductive invariant.                                                *)
(***************************************************************************)
(* The ring index that follows another, without the modulo.                *)
LEMMA NextSlot ==
  ASSUME NEW i \in Slots
  PROVE  (i + 1) % BufSz = IF i = BufSz - 1 THEN 0 ELSE i + 1
<1>1. CASE i = BufSz - 1
  BY <1>1, ModWrap, BufSzAssumption DEF Slots
<1>2. CASE i # BufSz - 1
  BY <1>2, ModSmall, BufSzAssumption DEF Slots
<1>3. QED
  BY <1>1, <1>2

(* The slot of a message, without the modulo.                              *)
LEMMA SlotOfCases ==
  ASSUME removes \in Slots, NEW i \in 0 .. BufSz
  PROVE  SlotOf(i) = IF removes + i < BufSz THEN removes + i ELSE removes + i - BufSz
<1>1. CASE removes + i < BufSz
  BY <1>1, ModSmall, BufSzAssumption DEF Slots, SlotOf
<1>2. CASE ~ removes + i < BufSz
  BY <1>2, ModWrap, BufSzAssumption DEF Slots, SlotOf
<1>3. QED
  BY <1>1, <1>2

(* The number of stored messages is between 0 and the size of the ring.    *)
LEMMA StoredRange ==
  ASSUME TypeOK, live, SlotAccounting
  PROVE  Stored \in 0 .. BufSz
BY CountTypes, BufSzAssumption DEF TypeOK, SlotAccounting, Stored

(* Every step keeps the callers' positions consistent with the mutex.      *)
LEMMA StepControl ==
  ASSUME TypeOK, Control, [Next]_vars
  PROVE  Control'
<1> USE ThreadsAssumption, MayCallAssumption DEF TypeOK, Control, Goto
<1>1. ASSUME NEW t \in Threads, Calls(t)
      PROVE  Control'
  <2>1. PICK o \in MayCall[t] : \E m \in (IF o \in EnqOps THEN Items ELSE {Null}) : Call(t, o, m)
    BY <1>1 DEF Calls
  <2>2. PICK m \in (IF o \in EnqOps THEN Items ELSE {Null}) : Call(t, o, m)
    BY <2>1
  <2>3. o \in Ops
    OBVIOUS
  <2>4. QED
    BY <2>2, <2>3 DEF Call, Ops, EnqOps, DeqOps
<1>2. ASSUME NEW t \in Threads, EnqWait(t) \/ DeqWait(t)
      PROVE  Control'
  BY <1>2 DEF EnqWait, DeqWait, EnqOps, DeqOps
<1>3. ASSUME NEW t \in Threads, Softblock(t) \/ Timeout(t) \/ Interrupt(t)
      PROVE  Control'
  BY <1>3 DEF Softblock, Timeout, Interrupt, Fail
<1>4. ASSUME NEW t \in Threads, Lock(t)
      PROVE  Control'
  BY <1>4 DEF Lock
<1>5. ASSUME NEW t \in Threads, EnqBody(t) \/ DeqBody(t) \/ CountBody(t)
      PROVE  Control'
  BY <1>5 DEF EnqBody, DeqBody, CountBody
<1>6. ASSUME NEW t \in Threads, EnqPost(t) \/ DeqPost(t)
      PROVE  Control'
  BY <1>6 DEF EnqPost, DeqPost
<1>7. ASSUME NEW t \in Threads, Return(t)
      PROVE  Control'
  BY <1>7 DEF Return, Ops, EnqOps, DeqOps
<1>8. CASE Flush
  BY <1>8 DEF Flush
<1>9. CASE UNCHANGED vars
  BY <1>9 DEF vars
<1>10. QED
  BY <1>1, <1>2, <1>3, <1>4, <1>5, <1>6, <1>7, <1>8, <1>9 DEF Next, Step

(* What each kind of step does to the four counts.                         *)
LEMMA StepCounts ==
  ASSUME TypeOK, Control, NEW t \in Threads
  PROVE  /\ EnqWait(t) => /\ Cardinality(EnqClaimed') = Cardinality(EnqClaimed) + 1
                          /\ Cardinality(EnqWritten') = Cardinality(EnqWritten)
                          /\ Cardinality(DeqClaimed') = Cardinality(DeqClaimed)
                          /\ Cardinality(DeqRead') = Cardinality(DeqRead)
         /\ DeqWait(t) => /\ Cardinality(EnqClaimed') = Cardinality(EnqClaimed)
                          /\ Cardinality(EnqWritten') = Cardinality(EnqWritten)
                          /\ Cardinality(DeqClaimed') = Cardinality(DeqClaimed) + 1
                          /\ Cardinality(DeqRead') = Cardinality(DeqRead)
         /\ EnqBody(t) => /\ Cardinality(EnqClaimed') = Cardinality(EnqClaimed) - 1
                          /\ Cardinality(EnqWritten') = Cardinality(EnqWritten) + 1
                          /\ Cardinality(DeqClaimed') = Cardinality(DeqClaimed)
                          /\ Cardinality(DeqRead') = Cardinality(DeqRead)
         /\ DeqBody(t) => /\ Cardinality(EnqClaimed') = Cardinality(EnqClaimed)
                          /\ Cardinality(EnqWritten') = Cardinality(EnqWritten)
                          /\ Cardinality(DeqClaimed') = Cardinality(DeqClaimed) - 1
                          /\ Cardinality(DeqRead') = Cardinality(DeqRead) + 1
         /\ EnqPost(t) => /\ Cardinality(EnqClaimed') = Cardinality(EnqClaimed)
                          /\ Cardinality(EnqWritten') = Cardinality(EnqWritten) - 1
                          /\ Cardinality(DeqClaimed') = Cardinality(DeqClaimed)
                          /\ Cardinality(DeqRead') = Cardinality(DeqRead)
         /\ DeqPost(t) => /\ Cardinality(EnqClaimed') = Cardinality(EnqClaimed)
                          /\ Cardinality(EnqWritten') = Cardinality(EnqWritten)
                          /\ Cardinality(DeqClaimed') = Cardinality(DeqClaimed)
                          /\ Cardinality(DeqRead') = Cardinality(DeqRead) - 1
<1> DEFINE Moved == \A u \in Threads \ {t} : pc'[u] = pc[u] /\ op'[u] = op[u]
           Member == /\ Has(EnqClaimed, t) = IF pc[t] \in {"lock", "crit"} /\ op[t] \in EnqOps THEN 1 ELSE 0
                     /\ Has(EnqWritten, t) = IF pc[t] = "post" /\ op[t] \in EnqOps THEN 1 ELSE 0
                     /\ Has(DeqClaimed, t) = IF pc[t] \in {"lock", "crit"} /\ op[t] \in DeqOps THEN 1 ELSE 0
                     /\ Has(DeqRead, t) = IF pc[t] = "post" /\ op[t] \in DeqOps THEN 1 ELSE 0
<1>1. Member /\ Member'
  BY DEF Has, EnqClaimed, EnqWritten, DeqClaimed, DeqRead, At
<1>2. Moved => /\ Cardinality(EnqClaimed') = Cardinality(EnqClaimed) - Has(EnqClaimed, t) + Has(EnqClaimed', t)
               /\ Cardinality(EnqWritten') = Cardinality(EnqWritten) - Has(EnqWritten, t) + Has(EnqWritten', t)
               /\ Cardinality(DeqClaimed') = Cardinality(DeqClaimed) - Has(DeqClaimed, t) + Has(DeqClaimed', t)
               /\ Cardinality(DeqRead') = Cardinality(DeqRead) - Has(DeqRead, t) + Has(DeqRead', t)
  BY CountMove
<1> USE CountTypes DEF TypeOK, Goto, EnqOps, DeqOps
<1>3. ASSUME EnqWait(t)
      PROVE  Moved /\ pc[t] = "wait" /\ op[t] \in EnqOps /\ pc'[t] = "lock" /\ op'[t] = op[t]
  BY <1>3 DEF EnqWait
<1>4. ASSUME DeqWait(t)
      PROVE  Moved /\ pc[t] = "wait" /\ op[t] \in DeqOps /\ pc'[t] = "lock" /\ op'[t] = op[t]
  BY <1>4 DEF DeqWait
<1>5. ASSUME EnqBody(t)
      PROVE  Moved /\ pc[t] = "crit" /\ op[t] \in EnqOps /\ pc'[t] = "post" /\ op'[t] = op[t]
  BY <1>5 DEF EnqBody
<1>6. ASSUME DeqBody(t)
      PROVE  Moved /\ pc[t] = "crit" /\ op[t] \in DeqOps /\ pc'[t] = "post" /\ op'[t] = op[t]
  BY <1>6 DEF DeqBody
<1>7. ASSUME EnqPost(t)
      PROVE  Moved /\ pc[t] = "post" /\ op[t] \in EnqOps /\ pc'[t] = "ret" /\ op'[t] = op[t]
  BY <1>7 DEF EnqPost
<1>8. ASSUME DeqPost(t)
      PROVE  Moved /\ pc[t] = "post" /\ op[t] \in DeqOps /\ pc'[t] = "ret" /\ op'[t] = op[t]
  BY <1>8 DEF DeqPost
<1> HIDE DEF Moved
<1>9. QED
  BY <1>1, <1>2, <1>3, <1>4, <1>5, <1>6, <1>7, <1>8

(* The remaining steps leave the callers that hold a slot where they are.  *)
LEMMA StepKeepsCounts ==
  ASSUME TypeOK, Control, NEW t \in Threads,
         \/ Calls(t) \/ Softblock(t) \/ Timeout(t) \/ Interrupt(t)
         \/ Lock(t) \/ CountBody(t) \/ Return(t)
  PROVE  /\ EnqClaimed' = EnqClaimed /\ EnqWritten' = EnqWritten
         /\ DeqClaimed' = DeqClaimed /\ DeqRead' = DeqRead
         /\ UNCHANGED <<inserts, removes, empty, full, live>>
<1> USE DEF TypeOK, Control, Goto, ring, EnqClaimed, EnqWritten, DeqClaimed, DeqRead, At, EnqOps, DeqOps
<1>1. CASE Calls(t)
  BY <1>1 DEF Calls, Call
<1>2. CASE Softblock(t) \/ Timeout(t) \/ Interrupt(t)
  BY <1>2 DEF Softblock, Timeout, Interrupt, Fail
<1>3. CASE Lock(t)
  BY <1>3 DEF Lock
<1>4. CASE CountBody(t)
  BY <1>4 DEF CountBody
<1>5. CASE Return(t)
  BY <1>5 DEF Return
<1>6. QED
  BY <1>1, <1>2, <1>3, <1>4, <1>5

(* The accounting of slots is inductive.                                   *)
LEMMA StepAccounting ==
  ASSUME IInv, [Next]_vars
  PROVE  SlotAccounting'
<1>0. /\ TypeOK /\ Control /\ SlotAccounting
      /\ empty \in Nat /\ full \in Nat /\ BufSz \in Nat
      /\ Cardinality(EnqClaimed) \in Nat /\ Cardinality(EnqWritten) \in Nat
      /\ Cardinality(DeqClaimed) \in Nat /\ Cardinality(DeqRead) \in Nat
  BY CountTypes, BufSzAssumption DEF IInv, TypeOK
<1> USE DEF SlotAccounting, Stored
<1>1. ASSUME NEW t \in Threads,
             EnqWait(t) \/ DeqWait(t) \/ EnqBody(t) \/ DeqBody(t) \/ EnqPost(t) \/ DeqPost(t)
      PROVE  SlotAccounting'
  <2>1. CASE EnqWait(t)
    <3>1. empty' = empty - 1 /\ full' = full /\ live' = live
      BY <2>1 DEF EnqWait
    <3>2. QED
      BY <1>0, <2>1, <3>1, StepCounts
  <2>2. CASE DeqWait(t)
    <3>1. full' = full - 1 /\ empty' = empty /\ live' = live
      BY <2>2 DEF DeqWait
    <3>2. QED
      BY <1>0, <2>2, <3>1, StepCounts
  <2>3. CASE EnqBody(t)
    <3>1. full' = full /\ empty' = empty /\ live' = live
      BY <2>3 DEF EnqBody
    <3>2. QED
      BY <1>0, <2>3, <3>1, StepCounts
  <2>4. CASE DeqBody(t)
    <3>1. full' = full /\ empty' = empty /\ live' = live
      BY <2>4 DEF DeqBody
    <3>2. QED
      BY <1>0, <2>4, <3>1, StepCounts
  <2>5. CASE EnqPost(t)
    <3>1. full' = full + 1 /\ empty' = empty /\ live' = live
      BY <2>5 DEF EnqPost
    <3>2. QED
      BY <1>0, <2>5, <3>1, StepCounts
  <2>6. CASE DeqPost(t)
    <3>1. empty' = empty + 1 /\ full' = full /\ live' = live
      BY <2>6 DEF DeqPost
    <3>2. QED
      BY <1>0, <2>6, <3>1, StepCounts
  <2>7. QED
    BY <1>1, <2>1, <2>2, <2>3, <2>4, <2>5, <2>6
<1>2. ASSUME NEW t \in Threads,
             \/ Calls(t) \/ Softblock(t) \/ Timeout(t) \/ Interrupt(t)
             \/ Lock(t) \/ CountBody(t) \/ Return(t)
      PROVE  SlotAccounting'
  BY <1>0, <1>2, StepKeepsCounts
<1>3. CASE Flush
  BY <1>3 DEF Flush
<1>4. CASE UNCHANGED vars
  BY <1>0, <1>4 DEF vars, EnqClaimed, EnqWritten, DeqClaimed, DeqRead, At
<1>5. QED
  BY <1>1, <1>2, <1>3, <1>4 DEF Next, Step

(* The indices stay as far apart as there are messages.                    *)
LEMMA StepIndex ==
  ASSUME IInv, [Next]_vars
  PROVE  IndexAgreement'
<1>0. /\ TypeOK /\ Control /\ SlotAccounting /\ IndexAgreement
      /\ empty \in Nat /\ full \in Nat /\ BufSz \in Nat \ {0}
      /\ Cardinality(EnqClaimed) \in Nat /\ Cardinality(EnqWritten) \in Nat
      /\ Cardinality(DeqClaimed) \in Nat /\ Cardinality(DeqRead) \in Nat
  BY CountTypes, BufSzAssumption DEF IInv, TypeOK
<1> USE <1>0
<1>1. ASSUME NEW t \in Threads, EnqWait(t) \/ DeqWait(t) \/ EnqPost(t) \/ DeqPost(t)
      PROVE  IndexAgreement'
  <2>1. Stored' = Stored
    BY <1>1, CountTypes, StepCounts DEF Stored, TypeOK, EnqWait, DeqWait, EnqPost, DeqPost
  <2>2. UNCHANGED <<inserts, removes, live>>
    BY <1>1 DEF EnqWait, DeqWait, EnqPost, DeqPost, ring
  <2>3. QED
    BY <2>1, <2>2 DEF IndexAgreement, SlotOf
<1>2. ASSUME NEW t \in Threads, EnqBody(t), live
      PROVE  IndexAgreement'
  <2>1. Stored' = Stored + 1 /\ Stored + 1 \in 0 .. BufSz
    <3>1. full' = full
      BY <1>2 DEF EnqBody
    <3>2. Stored' = Stored + 1
      BY <1>2, <3>1, StepCounts DEF Stored
    <3>3. Cardinality(EnqClaimed) > 0
      BY <1>2, MemberCounts DEF EnqBody, EnqClaimed, At
    <3>4. QED
      BY <1>2, <3>2, <3>3 DEF SlotAccounting, Stored
  <2>2. removes' = removes /\ inserts' = (inserts + 1) % BufSz
    BY <1>2 DEF EnqBody
  <2>3. inserts = SlotOf(Stored) /\ inserts \in Slots /\ removes \in Slots
    BY <1>2 DEF IndexAgreement, TypeOK
  <2>4. Stored \in 0 .. BufSz
    BY <1>2, StoredRange
  <2>5. SlotOf(Stored + 1) = (inserts + 1) % BufSz
    BY <2>1, <2>3, <2>4, NextSlot, SlotOfCases, BufSzAssumption DEF Slots
  <2>6. QED
    BY <2>1, <2>2, <2>5 DEF IndexAgreement, SlotOf
<1>3. ASSUME NEW t \in Threads, DeqBody(t), live
      PROVE  IndexAgreement'
  <2>1. Stored' = Stored - 1 /\ Stored \in 1 .. BufSz
    <3>1. full' = full
      BY <1>3 DEF DeqBody
    <3>2. Stored' = Stored - 1
      BY <1>3, <3>1, StepCounts DEF Stored
    <3>3. Cardinality(DeqClaimed) > 0
      BY <1>3, MemberCounts DEF DeqBody, DeqClaimed, At
    <3>4. QED
      BY <1>3, <3>2, <3>3, StoredRange DEF Stored
  <2>2. removes' = (removes + 1) % BufSz /\ inserts' = inserts
    BY <1>3 DEF DeqBody
  <2>3. inserts = SlotOf(Stored) /\ inserts \in Slots /\ removes \in Slots
    BY <1>3 DEF IndexAgreement, TypeOK
  <2>4. removes' = IF removes = BufSz - 1 THEN 0 ELSE removes + 1
    BY <2>2, <2>3, NextSlot
  <2>5. (removes' + (Stored - 1)) % BufSz = (removes + Stored) % BufSz
    <3>1. CASE removes = BufSz - 1
      <4>1. removes + Stored \in BufSz .. 2 * BufSz - 1
        BY <2>1, <3>1, BufSzAssumption
      <4>2. (removes + Stored) % BufSz = Stored - 1
        BY <4>1, <2>1, <3>1, ModWrap, BufSzAssumption
      <4>3. (Stored - 1) % BufSz = Stored - 1
        BY <2>1, ModSmall, BufSzAssumption
      <4>4. QED
        BY <4>2, <4>3, <2>1, <2>4, <3>1
    <3>2. CASE removes # BufSz - 1
      BY <2>1, <2>3, <2>4, <3>2 DEF Slots
    <3>3. QED
      BY <3>1, <3>2
  <2>6. QED
    BY <2>1, <2>2, <2>3, <2>5 DEF IndexAgreement, SlotOf
<1>4. ASSUME NEW t \in Threads,
             \/ Calls(t) \/ Softblock(t) \/ Timeout(t) \/ Interrupt(t)
             \/ Lock(t) \/ CountBody(t) \/ Return(t)
      PROVE  IndexAgreement'
  BY <1>4, StepKeepsCounts DEF IndexAgreement, SlotOf, Stored
<1>5. CASE Flush
  BY <1>5 DEF Flush, IndexAgreement
<1>6. CASE UNCHANGED vars
  BY <1>6 DEF vars, ring, IndexAgreement, SlotOf, Stored, EnqClaimed, EnqWritten, DeqClaimed, DeqRead, At
<1>7. ASSUME NEW t \in Threads, EnqBody(t) \/ DeqBody(t), ~live
      PROVE  IndexAgreement'
  BY <1>7 DEF IndexAgreement, EnqBody, DeqBody
<1>8. QED
  BY <1>1, <1>2, <1>3, <1>4, <1>5, <1>6, <1>7 DEF Next, Step

(* The inductive invariant holds of a new queue,                           *)
LEMMA InitIInv == Init => IInv
<1> SUFFICES ASSUME Init PROVE IInv
  OBVIOUS
<1>1. TypeOK
  BY InitTypes
<1>2. Control
  BY ThreadsAssumption DEF Init, Control, Ops, EnqOps, DeqOps
<1>3. EnqClaimed = {} /\ EnqWritten = {} /\ DeqClaimed = {} /\ DeqRead = {}
  BY DEF Init, EnqClaimed, EnqWritten, DeqClaimed, DeqRead, At
<1>4. Stored = 0
  BY <1>3, FS_EmptySet DEF Init, Stored
<1>5. SlotAccounting
  BY <1>3, <1>4, FS_EmptySet, BufSzAssumption DEF Init, SlotAccounting
<1>6. IndexAgreement
  BY <1>4, SlotOfCases, BufSzAssumption DEF Init, IndexAgreement, Slots
<1>7. QED
  BY <1>1, <1>2, <1>5, <1>6 DEF IInv

(* is kept by every step of every caller,                                  *)
LEMMA StepIInv == IInv /\ [Next]_vars => IInv'
  BY StepTypes, StepControl, StepAccounting, StepIndex DEF IInv

(* and so holds always.                                                    *)
LEMMA Inductive == Spec => []IInv
  BY InitIInv, StepIInv, PTL DEF Spec

(* A writer never reaches a slot that still holds an unread message and a  *)
(* reader never reaches an unwritten one.                                  *)
LEMMA SlotSafetyFromIInv == IInv => SlotSafety
<1> SUFFICES ASSUME IInv, NEW t \in Threads, pc[t] = "crit"
             PROVE  /\ op[t] \in EnqOps => \A i \in 0 .. Stored - 1 : inserts # SlotOf(i)
                    /\ op[t] \in DeqOps => Stored > 0
  BY DEF SlotSafety
<1> USE DEF IInv
<1>1. live
  BY DEF Control
<1>2. Stored \in 0 .. BufSz /\ removes \in Slots /\ inserts = SlotOf(Stored)
  BY <1>1, StoredRange DEF IndexAgreement, TypeOK
<1>3. ASSUME op[t] \in EnqOps, NEW i \in 0 .. Stored - 1
      PROVE  inserts # SlotOf(i)
  <2>1. t \in EnqClaimed
    BY <1>3 DEF EnqClaimed, At
  <2>2. Cardinality(EnqClaimed) > 0
    BY <2>1, MemberCounts
  <2>3. Stored < BufSz
    BY <1>1, <2>2, CountTypes, BufSzAssumption DEF SlotAccounting, TypeOK, Stored
  <2>4. QED
    BY <1>2, <2>3, SlotOfCases, BufSzAssumption DEF Slots
<1>4. ASSUME op[t] \in DeqOps
      PROVE  Stored > 0
  <2>1. t \in DeqClaimed
    BY <1>4 DEF DeqClaimed, At
  <2>2. Cardinality(DeqClaimed) > 0
    BY <2>1, MemberCounts
  <2>3. QED
    BY <2>2, CountTypes DEF TypeOK, Stored
<1>5. QED
  BY <1>3, <1>4

(* Slots are never lost nor counted twice, whatever the interleaving of    *)
(* enqueuers, dequeuers, timeouts and interruptions (qmsg2.c:75-235).      *)
THEOREM AccountingHolds == Spec => []SlotAccounting
  BY Inductive, PTL DEF IInv

(* The indices inserts and removes, each wrapped on its own under the      *)
(* mutex, always agree with the two semaphores (qmsg2.c:87, :161).         *)
THEOREM IndicesAgree == Spec => []IndexAgreement
  BY Inductive, PTL DEF IInv

(* No message is overwritten before it is read and none is read before it  *)
(* is written, for any number of callers and any capacity.                 *)
THEOREM SlotsAreSafe == Spec => []SlotSafety
  BY Inductive, SlotSafetyFromIInv, PTL
-----------------------------------------------------------------------------
(***************************************************************************)
(* QMsg2 implements BoundedQueue, step by step.                            *)
(***************************************************************************)
StatusMap == [t \in Threads |-> Status(t)]
OutcomeMap == [t \in Threads |-> Outcome(t)]

(* What a step of t looks like from above.                                 *)
LEMMA MapMoves ==
  ASSUME NEW t \in Threads,
         \A u \in Threads \ {t} : pc'[u] = pc[u] /\ res'[u] = res[u]
  PROVE  /\ StatusMap' = [StatusMap EXCEPT ![t] = Status(t)']
         /\ OutcomeMap' = [OutcomeMap EXCEPT ![t] = Outcome(t)']
         /\ Status(t)' = Status(t) => StatusMap' = StatusMap
         /\ Outcome(t)' = Outcome(t) => OutcomeMap' = OutcomeMap
<1>1. \A u \in Threads \ {t} : Status(u)' = Status(u) /\ Outcome(u)' = Outcome(u)
  BY DEF Status, Outcome
<1>2. QED
  BY <1>1 DEF StatusMap, OutcomeMap

(* The queue as a sequence.                                                *)
LEMMA QueueItems ==
  ASSUME TypeOK, live, SlotAccounting
  PROVE  /\ Stored \in 0 .. BufSz
         /\ Queue = [i \in 1 .. Stored |-> buffer[SlotOf(i - 1)]]
         /\ Queue \in Seq(Items) /\ Len(Queue) = Stored
<1>1. Stored \in 0 .. BufSz
  BY StoredRange
<1>2. Queue = [i \in 1 .. Stored |-> buffer[SlotOf(i - 1)]]
  BY DEF Queue
<1>3. \A i \in 1 .. Stored : buffer[SlotOf(i - 1)] \in Items
  <2>1. ASSUME NEW i \in 1 .. Stored
        PROVE  SlotOf(i - 1) \in Slots
    <3>1. removes + (i - 1) \in Nat
      BY <1>1 DEF TypeOK, Slots
    <3>2. QED
      BY <3>1, ModRange, BufSzAssumption DEF SlotOf, Slots
  <2>2. QED
    BY <2>1 DEF TypeOK
<1>4. QED
  BY <1>1, <1>2, <1>3

(* Nothing but the ring, the index of the next removal and the number of   *)
(* stored messages decides what the queue holds.                           *)
LEMMA QueueSame ==
  ASSUME UNCHANGED <<buffer, removes, live>>, Stored' = Stored
  PROVE  Queue' = Queue
BY DEF Queue, SlotOf

(* The critical section of an enqueue appends to it.                       *)
LEMMA QueueAppends ==
  ASSUME IInv, NEW t \in Threads, EnqBody(t)
  PROVE  Len(Queue) < BufSz /\ Queue' = Append(Queue, item[t])
<1>1. TypeOK /\ Control /\ live /\ SlotAccounting /\ SlotSafety
  BY SlotSafetyFromIInv DEF IInv, Control, EnqBody
<1>2. Queue = [i \in 1 .. Stored |-> buffer[SlotOf(i - 1)]] /\ Len(Queue) = Stored /\ Stored \in 0 .. BufSz
      /\ Queue \in Seq(Items)
  BY <1>1, QueueItems
<1>3. Stored' = Stored + 1 /\ Stored < BufSz
  <2>1. full' = full
    BY DEF EnqBody
  <2>2. Cardinality(EnqClaimed) > 0
    BY MemberCounts DEF EnqBody, EnqClaimed, At
  <2>3. Stored' = Stored + 1
    BY <1>1, <2>1, StepCounts, CountTypes DEF Stored, TypeOK
  <2>4. QED
    BY <1>1, <2>2, <2>3, CountTypes, BufSzAssumption DEF SlotAccounting, Stored, TypeOK
<1>4. /\ inserts = SlotOf(Stored) /\ inserts \in Slots
      /\ \A i \in 1 .. Stored : i - 1 \in 0 .. Stored - 1 /\ inserts # SlotOf(i - 1)
  BY <1>1, <1>2 DEF IInv, IndexAgreement, SlotSafety, EnqBody, TypeOK
<1>5. buffer' = [buffer EXCEPT ![inserts] = item[t]] /\ removes' = removes /\ live' = live
  BY DEF EnqBody
<1>6. Queue' = [i \in 1 .. Stored + 1 |-> buffer'[SlotOf(i - 1)]]
  BY <1>1, <1>3, <1>5 DEF Queue, SlotOf
<1>7. \A i \in 1 .. Stored : buffer'[SlotOf(i - 1)] = buffer[SlotOf(i - 1)]
  BY <1>1, <1>4, <1>5 DEF TypeOK
<1>8. buffer'[SlotOf((Stored + 1) - 1)] = item[t]
  BY <1>1, <1>2, <1>4, <1>5 DEF TypeOK
<1>9. item[t] \in Items
  BY <1>1 DEF TypeOK
<1>10. QED
  BY <1>2, <1>3, <1>6, <1>7, <1>8, <1>9

(* That of a dequeue takes its head.                                       *)
LEMMA QueueShrinks ==
  ASSUME IInv, NEW t \in Threads, DeqBody(t)
  PROVE  Queue # <<>> /\ buffer[removes] = Head(Queue) /\ Queue' = Tail(Queue)
<1>1. TypeOK /\ Control /\ live /\ SlotAccounting /\ SlotSafety
  BY SlotSafetyFromIInv DEF IInv, Control, DeqBody
<1>2. Queue = [i \in 1 .. Stored |-> buffer[SlotOf(i - 1)]] /\ Len(Queue) = Stored /\ Stored \in 0 .. BufSz
      /\ Queue \in Seq(Items)
  BY <1>1, QueueItems
<1>3. Stored' = Stored - 1 /\ Stored > 0
  <2>1. full' = full
    BY DEF DeqBody
  <2>2. Stored' = Stored - 1
    BY <1>1, <2>1, StepCounts, CountTypes DEF Stored, TypeOK
  <2>3. QED
    BY <1>1, <2>2 DEF SlotSafety, DeqBody
<1>4. removes \in Slots /\ removes' = (removes + 1) % BufSz /\ live' = live
      /\ buffer' = [buffer EXCEPT ![removes] = Null]
  BY <1>1 DEF DeqBody, TypeOK
<1>5. SlotOf(0) = removes
  BY <1>4, SlotOfCases, BufSzAssumption DEF Slots
<1>6. ASSUME NEW i \in 1 .. Stored - 1
      PROVE  (removes' + (i - 1)) % BufSz = SlotOf(i) /\ SlotOf(i) # removes /\ SlotOf(i) \in Slots
  <2>1. i \in 0 .. BufSz /\ i - 1 \in 0 .. BufSz /\ i < BufSz /\ i > 0
    BY <1>2, BufSzAssumption
  <2>2. SlotOf(i) = IF removes + i < BufSz THEN removes + i ELSE removes + i - BufSz
    BY <1>4, <2>1, SlotOfCases
  <2>3. removes' = IF removes = BufSz - 1 THEN 0 ELSE removes + 1
    BY <1>4, NextSlot
  <2>4. CASE removes = BufSz - 1
    <3>1. (removes' + (i - 1)) = i - 1 /\ i - 1 \in 0 .. BufSz - 1
      BY <2>1, <2>3, <2>4, BufSzAssumption
    <3>2. (i - 1) % BufSz = i - 1
      BY <3>1, ModSmall, BufSzAssumption
    <3>3. QED
      BY <2>1, <2>2, <2>4, <3>1, <3>2, BufSzAssumption DEF Slots
  <2>5. CASE removes # BufSz - 1
    <3>1. removes' + (i - 1) = removes + i
      BY <1>4, <2>1, <2>3, <2>5, BufSzAssumption DEF Slots
    <3>2. QED
      BY <1>4, <2>1, <2>2, <3>1, BufSzAssumption DEF SlotOf, Slots
  <2>6. QED
    BY <2>4, <2>5
<1>7. Queue' = [i \in 1 .. Stored - 1 |-> buffer'[(removes' + (i - 1)) % BufSz]]
  BY <1>1, <1>3, <1>4 DEF Queue, SlotOf
<1>8. \A i \in 1 .. Stored - 1 : buffer'[(removes' + (i - 1)) % BufSz] = buffer[SlotOf(i)]
  BY <1>1, <1>4, <1>6 DEF TypeOK
<1>9. Tail(Queue) = [i \in 1 .. Stored - 1 |-> buffer[SlotOf(i)]]
  <2>1. Tail(Queue) = [i \in 1 .. Stored - 1 |-> Queue[i + 1]]
    BY <1>2, <1>3
  <2>2. \A i \in 1 .. Stored - 1 : Queue[i + 1] = buffer[SlotOf(i)]
    BY <1>2
  <2>3. QED
    BY <2>1, <2>2
<1>10. Queue # <<>> /\ Head(Queue) = buffer[SlotOf(0)]
  BY <1>2, <1>3
<1>11. QED
  BY <1>5, <1>7, <1>8, <1>9, <1>10

(* The difference of the indices is the length, but for a full queue.      *)
LEMMA IndicesCount ==
  ASSUME IInv, live
  PROVE  (IF inserts >= removes THEN inserts - removes ELSE BufSz - removes + inserts)
           = IF Len(Queue) = BufSz THEN 0 ELSE Len(Queue)
<1>1. Len(Queue) = Stored /\ Stored \in 0 .. BufSz
  BY QueueItems DEF IInv
<1>2. inserts = SlotOf(Stored) /\ removes \in Slots
  BY DEF IInv, IndexAgreement, TypeOK
<1>3. inserts = IF removes + Stored < BufSz THEN removes + Stored ELSE removes + Stored - BufSz
  BY <1>1, <1>2, SlotOfCases
<1>4. QED
  BY <1>1, <1>2, <1>3, BufSzAssumption DEF Slots

(* A soft enqueue that finds no free slot finds the queue full, if those   *)
(* of the others who own a slot or have not given it back are counted.     *)
LEMMA NoSlotFree ==
  ASSUME IInv, NEW t \in Threads, pc[t] = "wait", empty = 0
  PROVE  Len(Queue) + Cardinality(BQ!InFlight(t)) >= BufSz
<1>1. TypeOK /\ live /\ SlotAccounting
  BY DEF IInv, Control
<1>2. Len(Queue) = Stored /\ Stored \in 0 .. BufSz
  BY <1>1, QueueItems
<1>3. Cardinality(EnqClaimed \cup DeqRead) = Cardinality(EnqClaimed) + Cardinality(DeqRead)
  <2>1. EnqClaimed \cap DeqRead = {}
    BY DEF EnqClaimed, DeqRead, At
  <2>2. Cardinality(EnqClaimed \cup DeqRead)
          = Cardinality(EnqClaimed) + Cardinality(DeqRead) - Cardinality(EnqClaimed \cap DeqRead)
    BY CountTypes, FS_Union
  <2>3. QED
    BY <2>1, <2>2, CountTypes, FS_EmptySet
<1>4. EnqClaimed \cup DeqRead \subseteq BQ!InFlight(t)
  BY DEF BQ!InFlight, EnqClaimed, DeqRead, At, Status, EnqOps, DeqOps, BQ!EnqOps, BQ!DeqOps
<1>5. IsFiniteSet(BQ!InFlight(t))
  <2>1. BQ!InFlight(t) \subseteq Threads
    BY DEF BQ!InFlight
  <2>2. QED
    BY <2>1, ThreadsAssumption, PartOf
<1>6. Cardinality(EnqClaimed) + Cardinality(DeqRead) <= Cardinality(BQ!InFlight(t))
      /\ Cardinality(BQ!InFlight(t)) \in Nat
  BY <1>3, <1>4, <1>5, PartOf, FS_CardinalityType
<1>7. Cardinality(EnqClaimed) + Stored + Cardinality(DeqRead) = BufSz
  BY <1>1, <1>2, CountTypes DEF SlotAccounting
<1>8. QED
  BY <1>2, <1>6, <1>7, CountTypes, BufSzAssumption

(* The abstract queue counts as QMsg2 does.                                *)
LEMMA SameCardinality ==
  ASSUME NEW S
  PROVE  BQ!Cardinality(S) = Cardinality(S)
BY DEF Cardinality, BQ!Cardinality, IsFiniteSet, BQ!IsFiniteSet

(* A new queue is a new abstract queue.                                    *)
LEMMA InitImplements == Init => BQ!Init
<1> SUFFICES ASSUME Init
             PROVE  BQ!Init
  OBVIOUS
<1>1. EnqWritten = {} /\ DeqClaimed = {}
  BY DEF Init, EnqWritten, DeqClaimed, At
<1>2. Stored = 0
  BY <1>1, FS_EmptySet DEF Init, Stored
<1>3. Queue = <<>>
  BY <1>2 DEF Init, Queue
<1>4. /\ [t \in Threads |-> Status(t)] = [t \in Threads |-> "idle"]
      /\ [t \in Threads |-> Outcome(t)] = [t \in Threads |-> "ok"]
  BY DEF Init, Status, Outcome
<1>5. QED
  BY <1>3, <1>4 DEF Init, BQ!Init

(* Every step of the ring buffer is a step of the abstract queue or        *)
(* changes nothing that its callers see.                                   *)
LEMMA StepImplements == IInv /\ [Next]_vars => [BQ!Next]_(BQ!bqvars)
<1> SUFFICES ASSUME IInv, [Next]_vars
             PROVE  BQ!Next \/ UNCHANGED BQ!bqvars
  OBVIOUS
<1>a. TypeOK /\ Control
  BY DEF IInv
<1>b. ASSUME Queue' = Queue, StatusMap' = StatusMap, OutcomeMap' = OutcomeMap, UNCHANGED <<live, op, item, cnt>>
      PROVE  UNCHANGED BQ!bqvars
  BY <1>b DEF BQ!bqvars, StatusMap, OutcomeMap
<1> USE <1>a DEF TypeOK, Goto
<1>1. ASSUME NEW t \in Threads, Calls(t)
      PROVE  BQ!Next
  <2>1. PICK o \in Ops, m \in Items : Call(t, o, m)
    BY <1>1, MayCallAssumption DEF Calls, Items
  <2>2. Queue' = Queue
    BY <1>1, <2>1, StepKeepsCounts, QueueSame DEF Stored, Call, ring
  <2>3. Status(t) = "idle" /\ Status(t)' = "pending" /\ Outcome(t)' = Outcome(t)
    BY <2>1 DEF Call, Status, Outcome
  <2>4. StatusMap' = [StatusMap EXCEPT ![t] = "pending"] /\ OutcomeMap' = OutcomeMap
    BY <2>1, <2>3, MapMoves DEF Call
  <2>5. BQ!Call(t, o, m)
    BY <2>1, <2>2, <2>3, <2>4 DEF Call, BQ!Call, StatusMap, OutcomeMap
  <2>6. QED
    BY <2>5 DEF BQ!Next, Items, Ops, EnqOps, DeqOps, BQ!Ops, BQ!EnqOps, BQ!DeqOps
<1>2. ASSUME NEW t \in Threads, EnqWait(t) \/ DeqWait(t) \/ Lock(t)
      PROVE  UNCHANGED BQ!bqvars
  <2>1. Stored' = Stored
    <3>1. CASE EnqWait(t)
      BY <3>1, StepCounts, CountTypes DEF Stored, EnqWait
    <3>2. CASE DeqWait(t)
      <4>1. full' = full - 1
        BY <3>2 DEF DeqWait
      <4>2. QED
        BY <3>2, <4>1, StepCounts, CountTypes DEF Stored
    <3>3. CASE Lock(t)
      BY <3>3, StepKeepsCounts DEF Stored
    <3>4. QED
      BY <1>2, <3>1, <3>2, <3>3
  <2>2. UNCHANGED <<buffer, removes, live, op, item, res, cnt>>
    BY <1>2 DEF EnqWait, DeqWait, Lock, ring
  <2>3. Status(t)' = Status(t) /\ Outcome(t)' = Outcome(t) /\ \A u \in Threads \ {t} : pc'[u] = pc[u]
    BY <1>2 DEF EnqWait, DeqWait, Lock, Status, Outcome
  <2>4. QED
    BY <1>b, <2>1, <2>2, <2>3, QueueSame, MapMoves
<1>3. ASSUME NEW t \in Threads, Softblock(t) \/ Timeout(t) \/ Interrupt(t)
      PROVE  BQ!Next
  <2> DEFINE Because(r) == \/ r = "softblocked" /\ op[t] = "enq_soft" /\ empty = 0
                           \/ r = "timeout" /\ op[t] \in {"poll", "poll_nointr"}
                           \/ r = "interrupt" /\ op[t] = "poll"
                           \/ r = "error" /\ op[t] \in {"enq", "deq"}
  <2> HIDE DEF Because
  <2>9. \/ Fail(t, "softblocked") /\ Because("softblocked")
        \/ Fail(t, "timeout") /\ Because("timeout")
        \/ Fail(t, "interrupt") /\ Because("interrupt")
        \/ Fail(t, "error") /\ Because("error")
    <3>1. Softblock(t) => Fail(t, "softblocked") /\ Because("softblocked")
      BY Zenon DEF Softblock, Because
    <3>2. Timeout(t) => Fail(t, "timeout") /\ Because("timeout")
      BY Zenon DEF Timeout, Because
    <3>3. Interrupt(t) => \/ Fail(t, "interrupt") /\ Because("interrupt")
                          \/ Fail(t, "error") /\ Because("error")
      BY Zenon DEF Interrupt, Because
    <3>4. QED
      BY <1>3, <3>1, <3>2, <3>3
  <2>1. PICK r \in Results : Fail(t, r) /\ Because(r)
    BY <2>9 DEF Results
  <2>2. Queue' = Queue
    BY <1>3, <2>1, StepKeepsCounts, QueueSame DEF Stored, Fail, ring
  <2>3. Status(t) = "pending" /\ Status(t)' = "done" /\ Outcome(t)' = r
    BY <2>1 DEF Fail, Status, Outcome
  <2>4. StatusMap' = [StatusMap EXCEPT ![t] = "done"] /\ OutcomeMap' = [OutcomeMap EXCEPT ![t] = r]
    BY <2>1, <2>3, MapMoves DEF Fail
  <2>5. BQ!Settle(t, r) /\ UNCHANGED <<Queue, live, op, item, cnt>>
    BY <2>1, <2>2, <2>3, <2>4 DEF Fail, BQ!Settle, StatusMap, OutcomeMap
  <2>6. CASE r = "softblocked"
    <3>1. pc[t] = "wait"
      BY <2>1 DEF Fail
    <3>2. Len(Queue) + Cardinality(BQ!InFlight(t)) >= BufSz
      BY <2>1, <2>6, <3>1, NoSlotFree DEF Because
    <3>3. BQ!Settle(t, "softblocked")
      BY <2>5, <2>6, Zenon
    <3>4. op[t] = "enq_soft"
      BY <2>1, <2>6 DEF Because
    <3>5. BQ!Refuse(t)
      BY <2>5, <3>2, <3>3, <3>4, SameCardinality DEF BQ!Refuse
    <3>6. QED
      BY <3>5 DEF BQ!Next
  <2>7. CASE r # "softblocked"
    BY <2>1, <2>5, <2>7 DEF Because, BQ!Next, BQ!GiveUp
  <2>8. QED
    BY <2>6, <2>7
<1>4. ASSUME NEW t \in Threads, EnqBody(t)
      PROVE  BQ!Next
  <2>1. Len(Queue) < BufSz /\ Queue' = Append(Queue, item[t])
    BY <1>4, QueueAppends
  <2>2. Status(t) = "pending" /\ Status(t)' = "done" /\ Outcome(t)' = "ok"
    BY <1>4 DEF EnqBody, Status, Outcome
  <2>3. StatusMap' = [StatusMap EXCEPT ![t] = "done"] /\ OutcomeMap' = [OutcomeMap EXCEPT ![t] = "ok"]
    BY <1>4, <2>2, MapMoves DEF EnqBody
  <2>4. BQ!Enqueue(t)
    BY <1>4, <2>1, <2>2, <2>3 DEF EnqBody, BQ!Enqueue, BQ!Settle, BQ!EnqOps, EnqOps, StatusMap, OutcomeMap
  <2>5. QED
    BY <2>4 DEF BQ!Next
<1>5. ASSUME NEW t \in Threads, DeqBody(t)
      PROVE  BQ!Next
  <2>1. Queue # <<>> /\ buffer[removes] = Head(Queue) /\ Queue' = Tail(Queue)
    BY <1>5, QueueShrinks
  <2>2. Status(t) = "pending" /\ Status(t)' = "done" /\ Outcome(t)' = "ok"
    BY <1>5 DEF DeqBody, Status, Outcome
  <2>3. StatusMap' = [StatusMap EXCEPT ![t] = "done"] /\ OutcomeMap' = [OutcomeMap EXCEPT ![t] = "ok"]
    BY <1>5, <2>2, MapMoves DEF DeqBody
  <2>4. BQ!Dequeue(t)
    BY <1>5, <2>1, <2>2, <2>3 DEF DeqBody, BQ!Dequeue, BQ!Settle, BQ!DeqOps, DeqOps, StatusMap, OutcomeMap
  <2>5. QED
    BY <2>4 DEF BQ!Next
<1>6. ASSUME NEW t \in Threads, CountBody(t)
      PROVE  BQ!Next
  <2>1. live
    BY <1>6 DEF CountBody, Control
  <2>2. cnt' = [cnt EXCEPT ![t] = IF Len(Queue) = BufSz THEN 0 ELSE Len(Queue)]
    BY <1>6, <2>1, IndicesCount DEF CountBody
  <2>3. Queue' = Queue
    BY <1>6, StepKeepsCounts, QueueSame DEF Stored, CountBody, ring
  <2>4. Status(t) = "pending" /\ Status(t)' = "done" /\ Outcome(t)' = "ok"
    BY <1>6 DEF CountBody, Status, Outcome
  <2>5. StatusMap' = [StatusMap EXCEPT ![t] = "done"] /\ OutcomeMap' = [OutcomeMap EXCEPT ![t] = "ok"]
    BY <1>6, <2>4, MapMoves DEF CountBody
  <2>6. BQ!Count(t)
    BY <1>6, <2>2, <2>3, <2>4, <2>5 DEF CountBody, BQ!Count, BQ!Settle, StatusMap, OutcomeMap
  <2>7. QED
    BY <2>6 DEF BQ!Next
<1>7. ASSUME NEW t \in Threads, EnqPost(t) \/ DeqPost(t)
      PROVE  UNCHANGED BQ!bqvars
  <2>1. Stored' = Stored
    <3>1. CASE EnqPost(t)
      <4>1. full' = full + 1
        BY <3>1 DEF EnqPost
      <4>2. QED
        BY <3>1, <4>1, StepCounts, CountTypes DEF Stored
    <3>2. CASE DeqPost(t)
      BY <3>2, StepCounts, CountTypes DEF Stored, DeqPost
    <3>3. QED
      BY <1>7, <3>1, <3>2
  <2>2. UNCHANGED <<buffer, removes, live, op, item, cnt>>
    BY <1>7 DEF EnqPost, DeqPost, ring
  <2>3. /\ Status(t)' = Status(t) /\ Outcome(t)' = Outcome(t)
        /\ \A u \in Threads \ {t} : pc'[u] = pc[u] /\ res'[u] = res[u]
    BY <1>7 DEF EnqPost, DeqPost, Status, Outcome
  <2>4. QED
    BY <1>b, <2>1, <2>2, <2>3, QueueSame, MapMoves
<1>8. ASSUME NEW t \in Threads, Return(t)
      PROVE  BQ!Next
  <2>1. Queue' = Queue
    BY <1>8, StepKeepsCounts, QueueSame DEF Stored, Return, ring
  <2>2. Status(t) = "done" /\ Status(t)' = "idle" /\ Outcome(t)' = "ok"
    BY <1>8 DEF Return, Status, Outcome
  <2>3. StatusMap' = [StatusMap EXCEPT ![t] = "idle"] /\ OutcomeMap' = [OutcomeMap EXCEPT ![t] = "ok"]
    BY <1>8, <2>2, MapMoves DEF Return
  <2>4. BQ!Return(t)
    BY <1>8, <2>1, <2>2, <2>3 DEF Return, BQ!Return, StatusMap, OutcomeMap
  <2>5. QED
    BY <2>4 DEF BQ!Next
<1>9. CASE Flush
  <2>1. Queue' = <<>>
    BY <1>9 DEF Flush, Queue
  <2>2. \A t \in Threads : Status(t) = "idle"
    BY <1>9 DEF Flush, Status
  <2>3. StatusMap' = StatusMap /\ OutcomeMap' = OutcomeMap
    BY <1>9 DEF Flush, StatusMap, OutcomeMap, Status, Outcome
  <2>4. BQ!Dispose
    BY <1>9, <2>1, <2>2, <2>3 DEF Flush, BQ!Dispose, StatusMap, OutcomeMap
  <2>5. QED
    BY <2>4 DEF BQ!Next
<1>10. CASE UNCHANGED vars
  <2>1. StatusMap' = StatusMap /\ OutcomeMap' = OutcomeMap
    BY <1>10 DEF vars, StatusMap, OutcomeMap, Status, Outcome
  <2>2. Queue' = Queue
    BY <1>10 DEF vars, ring, Queue, SlotOf, Stored, EnqWritten, DeqClaimed, At
  <2>3. QED
    BY <1>10, <1>b, <2>1, <2>2 DEF vars
<1>11. QED
  BY <1>1, <1>2, <1>3, <1>4, <1>5, <1>6, <1>7, <1>8, <1>9, <1>10 DEF Next, Step

(* To its callers the ring buffer with two semaphores is a FIFO of BufSz   *)
(* messages on which each operation takes effect at one moment, in its     *)
(* critical section (qmsg2.c:75-235).                                      *)
THEOREM RingImplementsFIFO == Spec => ImplementsFIFO
  BY InitImplements, StepImplements, Inductive, PTL DEF Spec, ImplementsFIFO, BQ!Spec
=============================================================================
