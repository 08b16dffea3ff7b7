--------------------------- MODULE TimeoutsProofs ---------------------------
(***************************************************************************)
(* Proofs about Timeouts, for any threads, keys and plans.                 *)
(***************************************************************************)
EXTENDS Timeouts, CountingLemmas

OneEach(h) == \A i, j \in 1 .. Len(h) : i # j => h[i].due # h[j].due
-----------------------------------------------------------------------------
(***************************************************************************)
(* The heap: its operations lose and double nothing, in whatever order it  *)
(* is.  A rearrangement has the same items, one in each place if h has.    *)
(***************************************************************************)
Rearranged(h) == {g \in Seq(Timeout) : /\ Len(g) = Len(h) /\ InSeq(g) = InSeq(h)
                                       /\ OneEach(h) => OneEach(g)}

(* Heap!Swap: two items change places.                                     *)
LEMMA SwapKeeps ==
  ASSUME NEW h \in Seq(Timeout), NEW i \in 1 .. Len(h), NEW j \in 1 .. Len(h)
  PROVE  H!Swap(h, i, j) \in Rearranged(h)
<1> DEFINE g == H!Swap(h, i, j)
           to == [k \in 1 .. Len(h) |-> IF k = i THEN j ELSE IF k = j THEN i ELSE k]
<1>1. g \in Seq(Timeout) /\ Len(g) = Len(h)
  BY DEF H!Swap
<1>2. \A k \in 1 .. Len(h) : to[k] \in 1 .. Len(h) /\ g[k] = h[to[k]] /\ g[to[k]] = h[k]
  BY DEF H!Swap
<1>3. \A k, l \in 1 .. Len(h) : k # l => to[k] # to[l]
  OBVIOUS
<1>4. InSeq(g) = InSeq(h)
  <2> HIDE DEF g, to
  <2>1. \A x \in InSeq(g) : x \in InSeq(h)
    BY <1>1, <1>2 DEF InSeq
  <2>2. \A x \in InSeq(h) : x \in InSeq(g)
    BY <1>1, <1>2 DEF InSeq
  <2>3. QED
    BY <2>1, <2>2
<1>5. OneEach(h) => OneEach(g)
  <2> HIDE DEF g, to
  <2> SUFFICES ASSUME OneEach(h), NEW k \in 1 .. Len(g), NEW l \in 1 .. Len(g), k # l
               PROVE  g[k].due # g[l].due
    BY DEF OneEach
  <2>1. to[k] \in 1 .. Len(h) /\ to[l] \in 1 .. Len(h) /\ to[k] # to[l]
        /\ g[k] = h[to[k]] /\ g[l] = h[to[l]]
    BY <1>1, <1>2, <1>3
  <2>2. QED
    BY <2>1 DEF OneEach
<1>6. QED
  BY <1>1, <1>4, <1>5 DEF Rearranged

(* A rearrangement of a rearrangement is one.                              *)
LEMMA RearrangedAgain ==
  ASSUME NEW h \in Seq(Timeout), NEW g \in Rearranged(h)
  PROVE  Rearranged(g) \subseteq Rearranged(h)
BY DEF Rearranged

(* Heap!Loop with Heap!UpStep: the loop stays where its steps stay.         *)
LEMMA UpRuns ==
  ASSUME NEW n \in Nat, NEW X, NEW s0 \in X, \A s \in X : H!UpStep(s) \in X
  PROVE  LET run[k \in 0 .. n] == IF k = 0 THEN s0 ELSE H!UpStep(run[k - 1]) IN run[n] \in X
<1> DEFINE step == [s \in X |-> H!UpStep(s)]
           R(r) == r = [k \in 0 .. n |-> IF k = 0 THEN s0 ELSE H!UpStep(r[k - 1])]
           run == CHOOSE r : R(r)
           P == {k \in 0 .. n : run[k] \in X}
<1>1. step \in [X -> X] /\ \A s \in X : step[s] = H!UpStep(s)
  OBVIOUS
<1>2. PICK g : Iterates(g, X, s0, step, n)
  <2> HIDE DEF step
  <2>1. QED
    BY <1>1, IterationExists
<1>3. \A k \in 0 .. n : g[k] = IF k = 0 THEN s0 ELSE H!UpStep(g[k - 1])
  <2> HIDE DEF step
  <2>1. \A k \in 1 .. n : k - 1 \in 0 .. n
    OBVIOUS
  <2>2. QED
    BY <1>1, <1>2, <2>1 DEF Iterates
<1>4. R(run)
  <2>1. R(g)
    BY <1>2, <1>3 DEF Iterates
  <2> HIDE DEF R
  <2>2. QED
    BY <2>1
<1> HIDE DEF run
<1>5. run[0] = s0 /\ \A k \in 1 .. n : run[k] = H!UpStep(run[k - 1])
  BY <1>4
<1>6. 0 \in P /\ \A k \in 1 .. n : k - 1 \in P => k \in P
  BY <1>5
<1>7. 0 .. n \subseteq P
  <2> HIDE DEF P
  <2>1. QED
    BY <1>6, StepByStep
<1>8. run[n] \in X
  BY <1>7
<1>9. QED
  BY <1>8 DEF run

(* Heap!Loop with Heap!DownStep: the loop stays where its steps stay.         *)
LEMMA DownRuns ==
  ASSUME NEW n \in Nat, NEW X, NEW s0 \in X, \A s \in X : H!DownStep(s) \in X
  PROVE  LET run[k \in 0 .. n] == IF k = 0 THEN s0 ELSE H!DownStep(run[k - 1]) IN run[n] \in X
<1> DEFINE step == [s \in X |-> H!DownStep(s)]
           R(r) == r = [k \in 0 .. n |-> IF k = 0 THEN s0 ELSE H!DownStep(r[k - 1])]
           run == CHOOSE r : R(r)
           P == {k \in 0 .. n : run[k] \in X}
<1>1. step \in [X -> X] /\ \A s \in X : step[s] = H!DownStep(s)
  OBVIOUS
<1>2. PICK g : Iterates(g, X, s0, step, n)
  <2> HIDE DEF step
  <2>1. QED
    BY <1>1, IterationExists
<1>3. \A k \in 0 .. n : g[k] = IF k = 0 THEN s0 ELSE H!DownStep(g[k - 1])
  <2> HIDE DEF step
  <2>1. \A k \in 1 .. n : k - 1 \in 0 .. n
    OBVIOUS
  <2>2. QED
    BY <1>1, <1>2, <2>1 DEF Iterates
<1>4. R(run)
  <2>1. R(g)
    BY <1>2, <1>3 DEF Iterates
  <2> HIDE DEF R
  <2>2. QED
    BY <2>1
<1> HIDE DEF run
<1>5. run[0] = s0 /\ \A k \in 1 .. n : run[k] = H!DownStep(run[k - 1])
  BY <1>4
<1>6. 0 \in P /\ \A k \in 1 .. n : k - 1 \in P => k \in P
  BY <1>5
<1>7. 0 .. n \subseteq P
  <2> HIDE DEF P
  <2>1. QED
    BY <1>6, StepByStep
<1>8. run[n] \in X
  BY <1>7
<1>9. QED
  BY <1>8 DEF run


(* __pushup rearranges.                                                    *)
LEMMA PushUpKeeps ==
  ASSUME NEW h \in Seq(Timeout), NEW i \in 1 .. Len(h)
  PROVE  H!PushUp(h, i) \in Rearranged(h)
<1> DEFINE X == [heap : Rearranged(h), at : 1 .. Len(h)]
           s0 == [heap |-> h, at |-> i]
<1>1. h \in Rearranged(h) /\ Len(h) \in Nat
  BY DEF Rearranged
<1>2. s0 \in X
  BY <1>1
<1>3. ASSUME NEW s \in X PROVE H!UpStep(s) \in X
  <2>1. CASE s.at = 1 \/ ByDue(s.heap[s.at], s.heap[s.at \div 2]) < 0
    BY <2>1 DEF H!UpStep, H!Parent
  <2>2. CASE ~(s.at = 1 \/ ByDue(s.heap[s.at], s.heap[s.at \div 2]) < 0)
    <3>1. s.at \in 1 .. Len(h) /\ s.at \div 2 \in 1 .. Len(h)
      BY <1>1, <2>2
    <3>2. s.heap \in Seq(Timeout) /\ Len(s.heap) = Len(h) /\ s.heap \in Rearranged(h)
      BY DEF Rearranged
    <3>3. H!Swap(s.heap, s.at, s.at \div 2) \in Rearranged(h)
      BY <3>1, <3>2, SwapKeeps, RearrangedAgain
    <3>4. H!UpStep(s) = [heap |-> H!Swap(s.heap, s.at, s.at \div 2), at |-> s.at \div 2]
      BY <2>2 DEF H!UpStep, H!Parent
    <3>5. QED
      BY <3>1, <3>3, <3>4
  <2>3. QED
    BY <2>1, <2>2
<1> HIDE DEF X
<1>4. LET run[k \in 0 .. Len(h)] == IF k = 0 THEN s0 ELSE H!UpStep(run[k - 1])
      IN  run[Len(h)] \in X
  <2> HIDE DEF s0
  <2>1. QED
    BY <1>1, <1>2, <1>3, UpRuns
<1>5. QED
  BY <1>4 DEF H!PushUp, H!Loop, X

(* __pushdown rearranges, an empty heap too.                               *)
LEMMA PushDownKeeps ==
  ASSUME NEW h \in Seq(Timeout)
  PROVE  H!PushDown(h, 1) \in Rearranged(h)
<1> DEFINE X == [heap : Rearranged(h), at : Nat \ {0}]
           s0 == [heap |-> h, at |-> 1]
<1>1. h \in Rearranged(h) /\ Len(h) \in Nat
  BY DEF Rearranged
<1>2. s0 \in X
  BY <1>1
<1>3. ASSUME NEW s \in X PROVE H!DownStep(s) \in X
  <2> DEFINE child == H!BiggestChild(s.heap, s.at)
             stay == H!Left(s.at) > Len(s.heap) \/ ByDue(s.heap[s.at], s.heap[child]) >= 0
  <2>1. CASE stay
    BY <2>1 DEF H!DownStep
  <2>2. CASE ~stay
    <3>1. s.heap \in Seq(Timeout) /\ Len(s.heap) = Len(h) /\ s.heap \in Rearranged(h)
      BY DEF Rearranged
    <3>2. s.at \in 1 .. Len(h) /\ child \in 1 .. Len(h)
      BY <1>1, <2>2, <3>1 DEF H!Left, H!Right, H!BiggestChild
    <3> HIDE DEF child
    <3>3. H!Swap(s.heap, s.at, child) \in Rearranged(h)
      BY <3>1, <3>2, SwapKeeps, RearrangedAgain
    <3>4. H!DownStep(s) = [heap |-> H!Swap(s.heap, s.at, child), at |-> child]
      BY <2>2 DEF H!DownStep, child
    <3>5. QED
      BY <3>2, <3>3, <3>4
  <2>3. QED
    BY <2>1, <2>2
<1> HIDE DEF X
<1>4. LET run[k \in 0 .. Len(h)] == IF k = 0 THEN s0 ELSE H!DownStep(run[k - 1])
      IN  run[Len(h)] \in X
  <2> HIDE DEF s0
  <2>1. QED
    BY <1>1, <1>2, <1>3, DownRuns
<1>5. QED
  BY <1>4 DEF H!PushDown, H!Loop, X
-----------------------------------------------------------------------------
(* An offered item is there, among those that were.                        *)
LEMMA OfferKeeps ==
  ASSUME NEW h \in Seq(Timeout), NEW x \in Timeout
  PROVE  /\ H!Offer(h, x) \in Seq(Timeout) /\ Len(H!Offer(h, x)) = Len(h) + 1
         /\ InSeq(H!Offer(h, x)) = InSeq(h) \cup {x}
         /\ OneEach(h) /\ (\A y \in InSeq(h) : y.due # x.due) => OneEach(H!Offer(h, x))
<1> DEFINE g == Append(h, x)
<1>1. g \in Seq(Timeout) /\ Len(g) = Len(h) + 1 /\ Len(h) \in Nat /\ g[Len(h) + 1] = x
      /\ \A i \in 1 .. Len(h) : g[i] = h[i]
  OBVIOUS
<1> HIDE DEF g
<1>2. H!PushUp(g, Len(h) + 1) \in Rearranged(g)
  BY <1>1, PushUpKeeps
<1>3. InSeq(g) = InSeq(h) \cup {x}
  <2>1. InSeq(g) \subseteq InSeq(h) \cup {x}
    BY <1>1 DEF InSeq
  <2>2. InSeq(h) \subseteq InSeq(g) /\ x \in InSeq(g)
    BY <1>1 DEF InSeq
  <2>3. QED
    BY <2>1, <2>2
<1>4. OneEach(h) /\ (\A y \in InSeq(h) : y.due # x.due) => OneEach(g)
  BY <1>1 DEF OneEach, InSeq
<1>5. H!Offer(h, x) = H!PushUp(g, Len(h) + 1)
  BY DEF H!Offer, g
<1>6. QED
  BY <1>1, <1>2, <1>3, <1>4, <1>5 DEF Rearranged

(* Where the last item takes the place of another, that one is gone.       *)
LEMMA MoveLastKeeps ==
  ASSUME NEW h \in Seq(Timeout), NEW i \in 1 .. Len(h)
  PROVE  /\ H!MoveLastTo(h, i) \in Seq(Timeout) /\ Len(H!MoveLastTo(h, i)) = Len(h) - 1
         /\ InSeq(H!MoveLastTo(h, i)) \subseteq InSeq(h)
         /\ OneEach(h) => /\ OneEach(H!MoveLastTo(h, i))
                          /\ InSeq(H!MoveLastTo(h, i)) = InSeq(h) \ {h[i]}
<1> DEFINE g == H!MoveLastTo(h, i)
           from == [k \in 1 .. Len(h) - 1 |-> IF k = i THEN Len(h) ELSE k]
<1>1. Len(h) \in Nat \ {0} /\ \A k \in 1 .. Len(h) : h[k] \in Timeout
  OBVIOUS
<1>2. /\ g \in Seq(Timeout) /\ Len(g) = Len(h) - 1
      /\ \A k \in 1 .. Len(h) - 1 : g[k] = h[from[k]] /\ from[k] \in (1 .. Len(h)) \ {i}
  <2> DEFINE e == [h EXCEPT ![i] = h[Len(h)]]
  <2>1. e \in Seq(Timeout) /\ Len(e) = Len(h)
        /\ \A k \in 1 .. Len(h) : e[k] = IF k = i THEN h[Len(h)] ELSE h[k]
    BY <1>1
  <2>2. g = SubSeq(e, 1, Len(h) - 1)
    BY DEF H!MoveLastTo
  <2> HIDE DEF e, g
  <2>3. g \in Seq(Timeout) /\ Len(g) = Len(h) - 1 /\ \A k \in 1 .. Len(h) - 1 : g[k] = e[k]
    BY <1>1, <2>1, <2>2
  <2>4. QED
    BY <1>1, <2>1, <2>3
<1>3. \A k, l \in 1 .. Len(h) - 1 : k # l => from[k] # from[l]
  BY <1>1
<1>4. \A k \in (1 .. Len(h)) \ {i} : \E l \in 1 .. Len(h) - 1 : from[l] = k
  <2> SUFFICES ASSUME NEW k \in (1 .. Len(h)) \ {i}
               PROVE  \E l \in 1 .. Len(h) - 1 : from[l] = k
    OBVIOUS
  <2>1. CASE k = Len(h)
    <3>1. i \in 1 .. Len(h) - 1 /\ from[i] = k
      BY <1>1, <2>1
    <3>2. QED
      BY <3>1
  <2>2. CASE k # Len(h)
    <3>1. k \in 1 .. Len(h) - 1 /\ from[k] = k
      BY <1>1, <2>2
    <3>2. QED
      BY <3>1
  <2>3. QED
    BY <2>1, <2>2
<1> HIDE DEF g, from
<1>5. InSeq(g) \subseteq InSeq(h)
  <2> SUFFICES ASSUME NEW k \in 1 .. Len(g) PROVE g[k] \in InSeq(h)
    BY DEF InSeq
  <2>1. g[k] = h[from[k]] /\ from[k] \in 1 .. Len(h)
    BY <1>2
  <2>2. QED
    BY <2>1 DEF InSeq
<1>6. ASSUME OneEach(h) PROVE OneEach(g) /\ InSeq(g) = InSeq(h) \ {h[i]}
  <2>1. OneEach(g)
    <3> SUFFICES ASSUME NEW k \in 1 .. Len(g), NEW l \in 1 .. Len(g), k # l
                 PROVE  g[k].due # g[l].due
      BY DEF OneEach
    <3>1. /\ g[k] = h[from[k]] /\ from[k] \in 1 .. Len(h)
          /\ g[l] = h[from[l]] /\ from[l] \in 1 .. Len(h) /\ from[k] # from[l]
      BY <1>2, <1>3
    <3>2. QED
      BY <1>6, <3>1 DEF OneEach
  <2>2. h[i] \notin InSeq(g)
    BY <1>2, <1>6 DEF OneEach, InSeq
  <2>3. ASSUME NEW x \in InSeq(h) \ {h[i]} PROVE x \in InSeq(g)
    <3>1. PICK k \in (1 .. Len(h)) \ {i} : x = h[k]
      BY DEF InSeq
    <3>2. PICK l \in 1 .. Len(h) - 1 : from[l] = k
      BY <1>4
    <3>3. QED
      BY <1>2, <3>1, <3>2 DEF InSeq
  <2>4. QED
    BY <1>5, <2>1, <2>2, <2>3
<1>7. QED
  BY <1>2, <1>5, <1>6 DEF g

(* heap_poll takes the root out.                                           *)
LEMMA PollKeeps ==
  ASSUME NEW h \in Seq(Timeout), h # <<>>
  PROVE  /\ H!Poll(h) \in Seq(Timeout) /\ Len(H!Poll(h)) = Len(h) - 1
         /\ InSeq(H!Poll(h)) \subseteq InSeq(h) /\ Head(h) \in InSeq(h)
         /\ OneEach(h) => OneEach(H!Poll(h)) /\ InSeq(H!Poll(h)) = InSeq(h) \ {Head(h)}
<1> DEFINE g == H!MoveLastTo(h, 1)
<1>1. 1 \in 1 .. Len(h) /\ Head(h) = h[1]
  OBVIOUS
<1>2. /\ g \in Seq(Timeout) /\ Len(g) = Len(h) - 1 /\ InSeq(g) \subseteq InSeq(h)
      /\ OneEach(h) => OneEach(g) /\ InSeq(g) = InSeq(h) \ {h[1]}
  BY <1>1, MoveLastKeeps
<1>3. H!Poll(h) = H!PushDown(g, 1)
  BY DEF H!Poll
<1> HIDE DEF g
<1>4. H!PushDown(g, 1) \in Rearranged(g)
  BY <1>2, PushDownKeeps
<1>5. Head(h) \in InSeq(h)
  BY <1>1 DEF InSeq
<1>6. QED
  BY <1>1, <1>2, <1>3, <1>4, <1>5 DEF Rearranged

(* The first of the items with a deadline is one of them.                  *)
LEMMA IndexOfIs ==
  ASSUME NEW h \in Seq(Timeout), NEW x, H!Equals(h, x) # {}
  PROVE  H!IndexOf(h, x) \in H!Equals(h, x)
<1>1. H!Equals(h, x) \subseteq Nat
  BY DEF H!Equals
<1>2. \E i \in H!Equals(h, x) : \A j \in H!Equals(h, x) : i <= j
  BY <1>1, MinExists
<1>3. QED
  BY <1>2 DEF H!IndexOf

(* heap_remove_item takes an item with the deadline of x out: x itself, if *)
(* the deadlines differ and x is there.                                    *)
LEMMA WithoutKeeps ==
  ASSUME NEW h \in Seq(Timeout), NEW x \in Timeout
  PROVE  /\ Without(h, x) \in Seq(Timeout) /\ InSeq(Without(h, x)) \subseteq InSeq(h)
         /\ OneEach(h) /\ x \in InSeq(h) =>
              OneEach(Without(h, x)) /\ InSeq(Without(h, x)) = InSeq(h) \ {x}
<1>1. \A k \in H!Equals(h, x) : k \in 1 .. Len(h) /\ h[k].due = x.due
  <2>1. \A y \in Timeout : y.due \in Int
    BY DEF Timeout
  <2>2. \A k \in 1 .. Len(h) : h[k] \in Timeout
    OBVIOUS
  <2>3. QED
    BY <2>1, <2>2 DEF H!Equals, ByDue
<1>2. \A k \in 1 .. Len(h) : h[k] = x => k \in H!Equals(h, x)
  BY DEF H!Equals, ByDue, Timeout
<1>3. CASE H!Equals(h, x) = {}
  <2>1. x \notin InSeq(h)
    BY <1>2, <1>3 DEF InSeq
  <2>2. QED
    BY <1>3, <2>1 DEF Without
<1>4. CASE H!Equals(h, x) # {}
  <2> DEFINE i == H!IndexOf(h, x)
             g == H!MoveLastTo(h, i)
  <2>1. i \in 1 .. Len(h) /\ h[i].due = x.due
    BY <1>1, <1>4, IndexOfIs
  <2>2. OneEach(h) /\ x \in InSeq(h) => h[i] = x
    BY <2>1 DEF OneEach, InSeq
  <2> HIDE DEF i
  <2>3. /\ g \in Seq(Timeout) /\ Len(g) = Len(h) - 1 /\ InSeq(g) \subseteq InSeq(h)
        /\ OneEach(h) => OneEach(g) /\ InSeq(g) = InSeq(h) \ {h[i]}
    BY <2>1, MoveLastKeeps
  <2>4. Without(h, x) = IF i = Len(h) THEN SubSeq(h, 1, i - 1) ELSE H!PushUp(g, i)
    BY <1>4 DEF Without, H!RemoveItem, i
  <2>5. CASE i = Len(h)
    <3>1. [h EXCEPT ![i] = h[i]] = h
      OBVIOUS
    <3>2. g = SubSeq(h, 1, i - 1)
      BY <2>5, <3>1 DEF H!MoveLastTo
    <3>3. QED
      BY <2>2, <2>3, <2>4, <2>5, <3>2
  <2>6. CASE i # Len(h)
    <3>1. i \in 1 .. Len(g)
      BY <2>1, <2>3, <2>6
    <3> HIDE DEF g
    <3>2. H!PushUp(g, i) \in Rearranged(g)
      BY <2>3, <3>1, PushUpKeeps
    <3>3. QED
      BY <2>2, <2>3, <2>4, <2>6, <3>2 DEF Rearranged
  <2>7. QED
    BY <2>5, <2>6
<1>5. QED
  BY <1>3, <1>4
-----------------------------------------------------------------------------
(* _timeout_delete: what the rounds of its loop keep, the loop keeps, and  *)
(* what holds after each in its turn (S[k] after k rounds) holds at last.  *)
LEMMA RoundsRun ==
  ASSUME NEW n \in Nat, NEW X, NEW s0 \in X, \A s \in X : Withdraw(s) \in X,
         NEW S, s0 \in S[0], \A k \in 1 .. n : \A s \in X : s \in S[k - 1] => Withdraw(s) \in S[k]
  PROVE  LET s[i \in 0 .. n] == IF i = 0 THEN s0 ELSE Withdraw(s[i - 1])
         IN  s[n] \in X /\ s[n] \in S[n]
<1> DEFINE step == [s \in X |-> Withdraw(s)]
           R(r) == r = [k \in 0 .. n |-> IF k = 0 THEN s0 ELSE Withdraw(r[k - 1])]
           run == CHOOSE r : R(r)
           P == {k \in 0 .. n : run[k] \in X /\ run[k] \in S[k]}
<1>1. step \in [X -> X] /\ \A s \in X : step[s] = Withdraw(s)
  OBVIOUS
<1>2. PICK g : Iterates(g, X, s0, step, n)
  <2> HIDE DEF step
  <2>1. QED
    BY <1>1, IterationExists
<1>3. \A k \in 0 .. n : g[k] = IF k = 0 THEN s0 ELSE Withdraw(g[k - 1])
  <2> HIDE DEF step
  <2>1. \A k \in 1 .. n : k - 1 \in 0 .. n
    OBVIOUS
  <2>2. QED
    BY <1>1, <1>2, <2>1 DEF Iterates
<1>4. R(run)
  <2>1. R(g)
    BY <1>2, <1>3 DEF Iterates
  <2> HIDE DEF R
  <2>2. QED
    BY <2>1
<1> HIDE DEF run
<1>5. run[0] = s0 /\ \A k \in 1 .. n : run[k] = Withdraw(run[k - 1])
  BY <1>4
<1>6. 0 \in P /\ \A k \in 1 .. n : k - 1 \in P => k \in P
  BY <1>5
<1>7. 0 .. n \subseteq P
  <2> HIDE DEF P
  <2>1. QED
    BY <1>6, StepByStep
<1>8. run[n] \in X /\ run[n] \in S[n]
  BY <1>7
<1>9. QED
  BY <1>8 DEF run

Withdrawing == [mine : Seq(Timeout), main : Seq(Timeout), dead : SUBSET Timeout, crash : BOOLEAN]

(* A round takes the top of the key's heap out of both, if there is one.   *)
LEMMA WithdrawTakes ==
  ASSUME NEW s \in Withdrawing
  PROVE  /\ Withdraw(s) \in Withdrawing
         /\ s.mine = <<>> => Withdraw(s) = s
         /\ s.mine # <<>> =>
              LET x == Head(s.mine) IN
              /\ x \in InSeq(s.mine) /\ Len(Withdraw(s).mine) = Len(s.mine) - 1
              /\ Withdraw(s).dead = s.dead \cup {x}
              /\ OneEach(s.mine) => /\ OneEach(Withdraw(s).mine)
                                    /\ InSeq(Withdraw(s).mine) = InSeq(s.mine) \ {x}
              /\ OneEach(s.main) /\ x \in InSeq(s.main) =>
                   /\ OneEach(Withdraw(s).main)
                   /\ InSeq(Withdraw(s).main) = InSeq(s.main) \ {x}
<1>1. s.mine \in Seq(Timeout) /\ s.main \in Seq(Timeout) /\ s.dead \subseteq Timeout /\ s.crash \in BOOLEAN
  BY DEF Withdrawing
<1>2. CASE s.mine = <<>>
  BY <1>2 DEF Withdraw
<1>3. CASE s.mine # <<>>
  <2> DEFINE x == Head(s.mine)
             c == s.crash \/ Crashes(s.main, x)
  <2>1. x \in Timeout
    BY <1>1, <1>3
  <2>2. Withdraw(s) = [mine |-> H!Poll(s.mine), main |-> Without(s.main, x),
                       dead |-> s.dead \cup {x}, crash |-> c]
    BY <1>3 DEF Withdraw
  <2>3. c \in BOOLEAN
    OBVIOUS
  <2> HIDE DEF c
  <2>4. /\ H!Poll(s.mine) \in Seq(Timeout) /\ Len(H!Poll(s.mine)) = Len(s.mine) - 1
        /\ x \in InSeq(s.mine)
        /\ OneEach(s.mine) => /\ OneEach(H!Poll(s.mine))
                              /\ InSeq(H!Poll(s.mine)) = InSeq(s.mine) \ {x}
    BY <1>1, <1>3, PollKeeps
  <2>5. /\ Without(s.main, x) \in Seq(Timeout)
        /\ OneEach(s.main) /\ x \in InSeq(s.main) =>
             /\ OneEach(Without(s.main, x))
             /\ InSeq(Without(s.main, x)) = InSeq(s.main) \ {x}
    BY <1>1, <2>1, WithoutKeeps
  <2> HIDE DEF x
  <2>6. Withdraw(s) \in Withdrawing
    BY <1>1, <2>1, <2>2, <2>3, <2>4, <2>5 DEF Withdrawing
  <2>7. QED
    BY <1>3, <2>2, <2>4, <2>5, <2>6 DEF x
<1>4. QED
  BY <1>2, <1>3

(* The rounds leave two heaps and a set of timeouts, whatever they find.   *)
LEMMA RoundsTyped ==
  ASSUME NEW n \in Nat, NEW key \in Keys, hp \in Seq(Timeout), map \in [Keys -> Seq(Timeout)]
  PROVE  Rounds(key, n) \in Withdrawing
<1> DEFINE s0 == [mine |-> map[key], main |-> hp, dead |-> {}, crash |-> FALSE]
           S == [k \in 0 .. n |-> Withdrawing]
<1>1. s0 \in Withdrawing
  BY DEF Withdrawing
<1>2. \A s \in Withdrawing : Withdraw(s) \in Withdrawing
  BY WithdrawTakes
<1>3. s0 \in S[0] /\ \A k \in 1 .. n : \A s \in Withdrawing : s \in S[k - 1] => Withdraw(s) \in S[k]
  BY <1>1, <1>2
<1> HIDE DEF s0, S
<1>4. LET s[i \in 0 .. n] == IF i = 0 THEN s0 ELSE Withdraw(s[i - 1]) IN s[n] \in Withdrawing
  BY <1>1, <1>2, <1>3, RoundsRun
<1>5. QED
  BY <1>4 DEF Rounds, s0

(* Where the key's heap is a part of the main heap, the dead leave both,   *)
(* and as many rounds as there are items leave none.                       *)
LEMMA RoundsExact ==
  ASSUME NEW n \in Nat, NEW key \in Keys, hp \in Seq(Timeout), map \in [Keys -> Seq(Timeout)],
         OneEach(hp), OneEach(map[key]), InSeq(map[key]) \subseteq InSeq(hp)
  PROVE  LET s == Rounds(key, n)
         IN  /\ s.dead \subseteq InSeq(map[key])
             /\ OneEach(s.mine) /\ InSeq(s.mine) = InSeq(map[key]) \ s.dead
             /\ OneEach(s.main) /\ InSeq(s.main) = InSeq(hp) \ s.dead
             /\ n = Len(map[key]) => s.dead = InSeq(map[key])
<1> DEFINE s0 == [mine |-> map[key], main |-> hp, dead |-> {}, crash |-> FALSE]
           Exact(s) == /\ s.dead \subseteq InSeq(map[key])
                       /\ OneEach(s.mine) /\ InSeq(s.mine) = InSeq(map[key]) \ s.dead
                       /\ OneEach(s.main) /\ InSeq(s.main) = InSeq(hp) \ s.dead
           X == {s \in Withdrawing : Exact(s)}
           Left(s, k) == s.mine = <<>> \/ Len(s.mine) + k <= Len(map[key])
           S == [k \in 0 .. n |-> {s \in X : Left(s, k)}]
<1>1. s0 \in X /\ s0 \in S[0]
  BY DEF Withdrawing
<1>2. ASSUME NEW s \in X
      PROVE  Withdraw(s) \in X /\ \A k \in 1 .. n : s \in S[k - 1] => Left(Withdraw(s), k)
  <2>1. s \in Withdrawing /\ Exact(s)
    OBVIOUS
  <2> HIDE DEF X
  <2>2. CASE s.mine = <<>>
    BY <2>1, <2>2, WithdrawTakes DEF X
  <2>3. CASE s.mine # <<>>
    <3> DEFINE x == Head(s.mine)
    <3>1. /\ Withdraw(s) \in Withdrawing /\ x \in InSeq(s.mine)
          /\ Len(Withdraw(s).mine) = Len(s.mine) - 1 /\ Withdraw(s).dead = s.dead \cup {x}
          /\ OneEach(s.mine) => /\ OneEach(Withdraw(s).mine)
                                /\ InSeq(Withdraw(s).mine) = InSeq(s.mine) \ {x}
          /\ OneEach(s.main) /\ x \in InSeq(s.main) =>
               /\ OneEach(Withdraw(s).main)
               /\ InSeq(Withdraw(s).main) = InSeq(s.main) \ {x}
      BY <2>1, <2>3, WithdrawTakes
    <3> HIDE DEF x
    <3>2. x \in InSeq(s.main)
      BY <2>1, <3>1
    <3>3. Exact(Withdraw(s))
      BY <2>1, <3>1, <3>2
    <3>4. Withdraw(s) \in X
      BY <3>1, <3>3 DEF X
    <3>5. ASSUME NEW k \in 1 .. n, s \in S[k - 1] PROVE Left(Withdraw(s), k)
      <4>1. Len(s.mine) + (k - 1) <= Len(map[key])
        BY <2>3, <3>5
      <4>2. Len(s.mine) \in Nat /\ Len(map[key]) \in Nat
        BY <2>1 DEF Withdrawing
      <4>3. QED
        BY <3>1, <4>1, <4>2
    <3>6. QED
      BY <3>4, <3>5
  <2>4. QED
    BY <2>2, <2>3
<1>3. ASSUME NEW k \in 1 .. n, NEW s \in X, s \in S[k - 1] PROVE Withdraw(s) \in S[k]
  <2>1. Withdraw(s) \in X /\ Left(Withdraw(s), k)
    <3> HIDE DEF X, S, Left
    <3>1. QED
      BY <1>2, <1>3
  <2> HIDE DEF X
  <2>2. QED
    BY <2>1
<1>4. \A s \in X : Withdraw(s) \in X
  BY <1>2
<1> HIDE DEF s0
<1>5. LET s[i \in 0 .. n] == IF i = 0 THEN s0 ELSE Withdraw(s[i - 1])
      IN  s[n] \in X /\ s[n] \in S[n]
  <2> HIDE DEF S, X
  <2>1. QED
    BY <1>1, <1>3, <1>4, RoundsRun
<1>6. Rounds(key, n) \in X /\ Rounds(key, n) \in S[n]
  BY <1>5 DEF Rounds, s0
<1>7. ASSUME n = Len(map[key]) PROVE Rounds(key, n).dead = InSeq(map[key])
  <2> DEFINE s == Rounds(key, n)
  <2>1. s \in Withdrawing /\ Exact(s) /\ Left(s, n)
    BY <1>6
  <2>2. s.mine = <<>>
    BY <1>7, <2>1 DEF Withdrawing
  <2>3. InSeq(s.mine) = {}
    BY <2>2 DEF InSeq
  <2> HIDE DEF s
  <2>4. s.dead = InSeq(map[key])
    BY <2>1, <2>3
  <2>5. QED
    BY <2>4 DEF s
<1>8. QED
  BY <1>6, <1>7
-----------------------------------------------------------------------------
(***************************************************************************)
(* The inductive invariant.                                                *)
(***************************************************************************)
Commands == [typ : {"add", "delete", "deleteone"}, tmout : Timeout, from : Clients]

Types ==
  /\ TypeOK
  /\ ctrl \in Seq(Commands \cup {Stop}) /\ cmd \in Commands \cup {Stop}
  /\ req \in [Clients -> Commands \cup {Stop}]

(* What the main loop and the clients have in hand where they are.         *)
Stages ==
  /\ at = "overdue" => hp # <<>>
  /\ at \in {"overdue", "run", "fire", "drop", "free"} => held \in Timeout
  /\ at \in {"overdue", "run", "fire"} => now >= held.due
  /\ at \in {"exec", "signal"} => cmd \in Commands
  /\ \A c \in Clients : pc[c] # "idle" => req[c] \in Commands /\ req[c].from = c
  /\ \A c \in Clients : pc[c] = "idle" => req[c] = Stop
  /\ \A c \in Clients : pc[c] = "directmap" => req[c].typ = "add"

(* In a calm plan a command is its client's request, which the client      *)
(* waits for, and it is in one place.                                      *)
Underway(c) == pc[c] \in {"sent", "wait"}
Queue ==
  /\ \A i \in 1 .. Len(ctrl) :
       ctrl[i] # Stop => ctrl[i] = req[ctrl[i].from] /\ Underway(ctrl[i].from)
  /\ \A i, j \in 1 .. Len(ctrl) : i # j /\ ctrl[i] # Stop => ctrl[i] # ctrl[j]
  /\ at \in {"exec", "signal"} =>
       cmd = req[cmd.from] /\ Underway(cmd.from) /\ cmd \notin InSeq(ctrl)
  /\ \A c \in Clients : pc[c] \notin {"direct", "directmap"}

(* Where the timeout is that the main loop holds.                          *)
Holding ==
  /\ at = "overdue" => held = Head(hp)
  /\ at = "next" => held \in InSeq(hp) \cup {None}
  /\ at \in {"batch", "exec", "signal", "ended"} => held = None
  /\ at \in {"run", "drop", "unmap", "wait", "fire", "free"} => held \notin InSeq(hp)

(* The map has the items of the main heap by their keys, and the one that  *)
(* has left the main heap before it leaves the map; no two are due at the  *)
(* same time, which is what heap_remove_item goes by.                      *)
Unmapping == IF at \in {"run", "drop", "unmap"} THEN {held} \ {None} ELSE {}
Both ==
  /\ OneEach(hp) /\ \A key \in Keys : OneEach(map[key])
  /\ \A key \in Keys : InSeq(map[key]) = {x \in InSeq(hp) \cup Unmapping : x.key = key}

(* Is client c's timeout still to be added?                                *)
Coming(c) ==
  /\ req[c].typ = "add"
  /\ pc[c] \in {"decide", "send"} \/ req[c] \in InSeq(ctrl) \/ (at = "exec" /\ cmd = req[c])

(* Pending timeouts and those to come are told apart by deadline and id.   *)
Differ(x, y) == x.due # y.due /\ x.id # y.id
Separate ==
  /\ \A x, y \in Pending : x # y => Differ(x, y)
  /\ \A c \in Clients : Coming(c) =>
       /\ \A x \in Pending : Differ(x, req[c].tmout)
       /\ \A d \in Clients : Coming(d) /\ c # d => Differ(req[c].tmout, req[d].tmout)

(* None of them has been freed, cancelled, or fired but the one that is    *)
(* about to be freed; and what comes will be new.                          *)
Live == Pending \cup {req[c].tmout : c \in {c \in Clients : Coming(c)}}
Served == IF at \in {"drop", "free"} THEN {held} ELSE {}
Past ==
  /\ \A x \in Live : x.id \notin freed /\ x \notin gone /\ x \notin fired \ Served
  /\ \A x \in Live \cup fired \cup gone : x.id <= ids
  /\ \A n \in freed : n <= ids

CalmInv == Queue /\ Holding /\ Both /\ Separate /\ Past
IInv == Types /\ Stages /\ (plan.calm => CalmInv)
-----------------------------------------------------------------------------
(* What the constants are, and what is no timeout and no command.          *)
LEMMA Basics ==
  /\ CtrlSz \in Nat /\ CtrlSz >= 2 /\ MaxTime \in Nat /\ MaxCalls \in Nat
  /\ \A p \in Plans : /\ p.clients \subseteq Clients /\ p.keys \subseteq Keys
                      /\ p.time \in 0 .. MaxTime /\ p.calls \in 0 .. MaxCalls
  /\ None \notin Timeout /\ Stop \notin Commands
  /\ \A x \in Timeout : /\ x.id \in 1 .. MaxCalls /\ x.key \in Keys /\ x.due \in 0 .. MaxTime
                        /\ x.id \in Nat /\ x.due \in Nat
  /\ \A c \in Commands : c.tmout \in Timeout /\ c.from \in Clients
                         /\ c.typ \in {"add", "delete", "deleteone"}
  /\ \A typ \in {"add", "delete", "deleteone"}, x \in Timeout, c \in Clients :
       Command(typ, x, c) \in Commands
<1>1. /\ CtrlSz \in Nat /\ CtrlSz >= 2 /\ MaxTime \in Nat /\ MaxCalls \in Nat
      /\ \A p \in Plans : /\ p.clients \subseteq Clients /\ p.keys \subseteq Keys
                          /\ p.time \in 0 .. MaxTime /\ p.calls \in 0 .. MaxCalls
  BY TimeoutsAssumption
<1>2. None \notin Timeout /\ Stop \notin Commands
  BY DEF None, Timeout, Stop, Command, Commands
<1>3. \A x \in Timeout : /\ x.id \in 1 .. MaxCalls /\ x.key \in Keys /\ x.due \in 0 .. MaxTime
                         /\ x.id \in Nat /\ x.due \in Nat
  BY <1>1 DEF Timeout
<1>4. \A c \in Commands : c.tmout \in Timeout /\ c.from \in Clients
                          /\ c.typ \in {"add", "delete", "deleteone"}
  BY DEF Commands
<1>5. \A typ \in {"add", "delete", "deleteone"}, x \in Timeout, c \in Clients :
        Command(typ, x, c) \in Commands
  BY DEF Command, Commands
<1>6. QED
  BY <1>1, <1>2, <1>3, <1>4, <1>5

(* The map with a timeout put in, or taken out.                            *)
LEMMA MapKeeps ==
  ASSUME map \in [Keys -> Seq(Timeout)], NEW x \in Timeout
  PROVE  /\ IntoMap(x) \in [Keys -> Seq(Timeout)]
         /\ OutOfMap(x) \in [Keys -> Seq(Timeout)]
         /\ \A key \in Keys : IntoMap(x)[key] = IF key = x.key THEN H!Offer(map[key], x) ELSE map[key]
         /\ \A key \in Keys : OutOfMap(x)[key] = IF key = x.key THEN Without(map[key], x) ELSE map[key]
<1>1. x.key \in Keys /\ map[x.key] \in Seq(Timeout)
  BY Basics
<1>2. H!Offer(map[x.key], x) \in Seq(Timeout) /\ Without(map[x.key], x) \in Seq(Timeout)
  BY <1>1, OfferKeeps, WithoutKeeps
<1>3. QED
  BY <1>1, <1>2 DEF IntoMap, OutOfMap, Into

(* Every step keeps the types, and what is in hand.                        *)
LEMMA TypesStep ==
  ASSUME Types, Stages, Next
  PROVE  Types' /\ Stages'
<1> USE Basics
<1>1. /\ plan' = plan /\ plan \in Plans
      /\ hp \in Seq(Timeout) /\ map \in [Keys -> Seq(Timeout)]
      /\ \A c \in Clients : req[c] \in Commands \cup {Stop}
  BY DEF Next, Types, TypeOK
<1>2. ASSUME Die PROVE Types' /\ Stages'
  BY <1>1, <1>2 DEF Die, Types, TypeOK, Stages, heaps, loop, calls, history
<1>3. ASSUME Tick PROVE Types' /\ Stages'
  BY <1>1, <1>3 DEF Tick, Types, TypeOK, Stages, heaps, loop, calls, history
<1>4. ASSUME BatchEmpty PROVE Types' /\ Stages'
  BY <1>1, <1>4 DEF BatchEmpty, Types, TypeOK, Stages, heaps, loop, calls, history
<1>5. ASSUME BatchPeek PROVE Types' /\ Stages'
  <2>1. Head(hp) \in Timeout /\ hp # <<>>
    BY <1>1, <1>5 DEF BatchPeek
  <2>2. QED
    BY <1>1, <1>5, <2>1 DEF BatchPeek, Types, TypeOK, Stages, heaps, loop, calls, history
<1>6. ASSUME BatchPoll PROVE Types' /\ Stages'
  <2>1. hp # <<>> /\ hp' = H!Poll(hp)
    BY <1>6 DEF BatchPoll, Stages
  <2>2. hp' \in Seq(Timeout)
    BY <1>1, <2>1, PollKeeps
  <2>3. QED
    BY <1>1, <1>6, <2>2 DEF BatchPoll, Types, TypeOK, Stages, heaps, loop, calls, history
<1>7. ASSUME Run PROVE Types' /\ Stages'
  <2>1. CASE HandlerCancels
    BY <1>2, <2>1 DEF HandlerCancels
  <2>2. CASE ~HandlerCancels
    <3>1. hp' \in Seq(Timeout) /\ map' \in [Keys -> Seq(Timeout)] /\ ids' \in 0 .. MaxCalls
      <4>1. CASE UNCHANGED <<heaps, ids>>
        BY <4>1 DEF heaps, Types, TypeOK
      <4>2. CASE \E x \in Timeout : /\ Fresh(x)
                                    /\ ids' = x.id /\ hp' = H!Offer(hp, x) /\ map' = IntoMap(x)
        <5>1. PICK x \in Timeout : ids' = x.id /\ hp' = H!Offer(hp, x) /\ map' = IntoMap(x)
          BY <4>2
        <5>2. H!Offer(hp, x) \in Seq(Timeout) /\ IntoMap(x) \in [Keys -> Seq(Timeout)]
          BY <1>1, OfferKeeps, MapKeeps
        <5>3. x.id \in 0 .. MaxCalls
          OBVIOUS
        <5>4. QED
          BY <5>1, <5>2, <5>3
      <4>3. QED
        BY <1>7, <2>2, <4>1, <4>2 DEF Run, Handler
    <3>2. held \in Timeout
      BY <1>7 DEF Run, Stages
    <3>3. Types'
      BY <1>1, <1>7, <2>2, <3>1, <3>2 DEF Run, Types, TypeOK, heaps, loop, calls, history
    <3>4. Stages'
      BY <1>7, <2>2 DEF Run, Stages, heaps, loop, calls, history
    <3>5. QED
      BY <3>3, <3>4
  <2>3. QED
    BY <2>1, <2>2
<1>8. ASSUME Drop PROVE Types' /\ Stages'
  <2>1. CASE at = "drop" /\ Crashes(map[held.key], held)
    BY <1>8, <1>2, <2>1 DEF Drop
  <2>2. CASE ~(at = "drop" /\ Crashes(map[held.key], held))
    <3>1. held \in Timeout
      BY <1>8 DEF Drop, Stages
    <3>2. map' \in [Keys -> Seq(Timeout)]
      BY <1>1, <1>8, <2>2, <3>1, MapKeeps DEF Drop
    <3>3. /\ freed' = freed \cup {held.id} /\ held' = None /\ at' = "batch"
          /\ UNCHANGED <<now, hp, cmd, start, ctrl, closed, stopped, calls, fired, gone, fault>>
      BY <1>8, <2>2 DEF Drop
    <3>4. freed' \subseteq 0 .. MaxCalls
      <4>1. held.id \in 0 .. MaxCalls /\ freed \subseteq 0 .. MaxCalls
        BY <3>1 DEF Types, TypeOK
      <4>2. QED
        BY <3>3, <4>1
    <3>5. QED
      BY <1>1, <3>2, <3>3, <3>4 DEF Types, TypeOK, Stages, calls
  <2>3. QED
    BY <2>1, <2>2
<1>9. ASSUME NextPoll PROVE Types' /\ Stages'
  <2>1. hp' \in Seq(Timeout) /\ held' \in Timeout \cup {None}
    BY <1>1, <1>9, PollKeeps DEF NextPoll
  <2>2. QED
    BY <1>1, <1>9, <2>1 DEF NextPoll, Types, TypeOK, Stages, heaps, loop, calls, history
<1>10. ASSUME NextUnmap PROVE Types' /\ Stages'
  <2>1. CASE held # None /\ Crashes(map[held.key], held)
    BY <1>10, <1>2, <2>1 DEF NextUnmap
  <2>2. CASE ~(held # None /\ Crashes(map[held.key], held))
    <3>1. map' \in [Keys -> Seq(Timeout)]
      BY <1>1, <1>10, <2>2, MapKeeps DEF NextUnmap, Types, TypeOK
    <3>2. Types'
      BY <1>1, <1>10, <2>2, <3>1 DEF NextUnmap, Types, TypeOK, heaps, loop, calls, history
    <3>3. Stages'
      BY <1>10, <2>2 DEF NextUnmap, Stages, heaps, loop, calls, history
    <3>4. QED
      BY <3>2, <3>3
  <2>3. QED
    BY <2>1, <2>2
<1>11. ASSUME TimedOut PROVE Types' /\ Stages'
  BY <1>1, <1>11 DEF TimedOut, Types, TypeOK, Stages, heaps, loop, calls, history
<1>12. ASSUME Receive PROVE Types' /\ Stages'
  <2>1. CASE held = None
    BY <1>12, <1>2, <2>1 DEF Receive
  <2>2. CASE held # None
    <3>1. held \in Timeout
      BY <2>2 DEF Types, TypeOK
    <3>2. hp' \in Seq(Timeout) /\ map' \in [Keys -> Seq(Timeout)]
      BY <1>1, <1>12, <2>2, <3>1, OfferKeeps, MapKeeps DEF Receive
    <3>3. /\ ctrl \in Seq(Commands \cup {Stop}) /\ ctrl # <<>>
          /\ cmd' = Head(ctrl) /\ ctrl' = Tail(ctrl) /\ cmd' # Stop
      BY <1>12, <2>2 DEF Receive, Types
    <3>4. /\ ctrl' \in Seq(Commands \cup {Stop}) /\ cmd' \in Commands
          /\ Len(ctrl') <= Len(ctrl) /\ Len(ctrl) \in Nat /\ Len(ctrl') \in Nat
      BY <3>3
    <3>5. /\ start' = FALSE /\ held' = None /\ at' = "exec"
          /\ UNCHANGED <<now, closed, stopped, calls, history, fault>>
      BY <1>12, <2>2 DEF Receive
    <3>6. Types'
      <4>1. Len(ctrl') <= CtrlSz
        BY <3>4 DEF Types, TypeOK
      <4>2. TypeOK'
        BY <1>1, <3>2, <3>5, <4>1 DEF Types, TypeOK, calls, history
      <4>3. QED
        BY <3>4, <3>5, <4>2 DEF Types, calls
    <3>7. Stages'
      BY <3>4, <3>5 DEF Stages, calls
    <3>8. QED
      BY <3>6, <3>7
  <2>3. QED
    BY <2>1, <2>2
<1>13. ASSUME ReceiveStop PROVE Types' /\ Stages'
  <2> DEFINE twice == InSeq(hp) \cap UNION {InSeq(map[key]) : key \in Keys} # {}
  <2>1. CASE twice
    BY <1>2, <1>13, <2>1 DEF ReceiveStop
  <2>2. CASE ~twice
    <3>1. /\ ctrl \in Seq(Commands \cup {Stop}) /\ ctrl # <<>> /\ ctrl' = Tail(ctrl)
      BY <1>13, <2>2 DEF ReceiveStop, Types
    <3>2. /\ ctrl' \in Seq(Commands \cup {Stop})
          /\ Len(ctrl') <= Len(ctrl) /\ Len(ctrl) \in Nat /\ Len(ctrl') \in Nat
      BY <3>1
    <3>3. {x.id : x \in Pending} \subseteq 0 .. MaxCalls
      <4>1. Pending \subseteq Timeout
        BY <1>1 DEF Pending, InSeq, Types, TypeOK
      <4>2. QED
        BY <4>1
    <3>4. /\ freed' = freed \cup {x.id : x \in Pending}
          /\ hp' = <<>> /\ held' = None /\ start' = FALSE /\ at' = "ended"
          /\ UNCHANGED <<now, map, cmd, closed, stopped, calls, fired, gone, fault>>
      BY <1>13, <2>2 DEF ReceiveStop
    <3>5. freed' \subseteq 0 .. MaxCalls
      BY <3>3, <3>4 DEF Types, TypeOK
    <3>6. QED
      <4>1. Len(ctrl') <= CtrlSz
        BY <3>2 DEF Types, TypeOK
      <4>2. TypeOK'
        <5>1. hp' \in Seq(Timeout) /\ held' \in Timeout \cup {None} /\ map' = map
          BY <3>4
        <5>2. QED
          BY <1>1, <3>4, <3>5, <4>1, <5>1 DEF Types, TypeOK, calls
      <4>3. Types'
        BY <3>2, <3>4, <4>2 DEF Types, calls
      <4>4. Stages'
        BY <3>4 DEF Stages, calls
      <4>5. QED
        BY <4>3, <4>4
  <2>3. QED
    BY <2>1, <2>2
<1>14. ASSUME ExecAdd PROVE Types' /\ Stages'
  <2>1. cmd \in Commands /\ cmd.tmout \in Timeout
    BY <1>14 DEF ExecAdd, Stages
  <2>2. hp' \in Seq(Timeout) /\ map' \in [Keys -> Seq(Timeout)]
    BY <1>1, <1>14, <2>1, OfferKeeps, MapKeeps DEF ExecAdd
  <2>3. QED
    BY <1>1, <1>14, <2>1, <2>2 DEF ExecAdd, Types, TypeOK, Stages, heaps, loop, calls, history
<1>15. ASSUME ExecDelete PROVE Types' /\ Stages'
  <2> DEFINE key == cmd.tmout.key
             n == IF cmd.typ = "delete" THEN Len(map[key]) ELSE 1
             s == Rounds(key, n)
  <2>1. cmd \in Commands /\ key \in Keys /\ n \in Nat
    BY <1>1, <1>15 DEF ExecDelete, Stages
  <2> HIDE DEF n
  <2>2. s \in Withdrawing
    BY <1>1, <2>1, RoundsTyped
  <2>3. CASE s.crash
    BY <1>15, <1>2, <2>3 DEF ExecDelete, n
  <2>4. CASE ~s.crash
    <3>1. /\ hp' = s.main /\ map' = [map EXCEPT ![key] = s.mine]
          /\ freed' = freed \cup {x.id : x \in s.dead}
          /\ gone' = gone \cup (IF cmd.typ = "delete"
                                THEN {x \in Pending : x.key = key} ELSE s.dead)
          /\ at' = "signal"
          /\ UNCHANGED <<now, held, cmd, start, ctrl, closed, stopped, calls, fired, fault>>
      BY <1>15, <2>4 DEF ExecDelete, n
    <3> HIDE DEF s
    <3>2. hp' \in Seq(Timeout) /\ map' \in [Keys -> Seq(Timeout)] /\ s.dead \subseteq Timeout
      BY <1>1, <2>1, <2>2, <3>1 DEF Withdrawing
    <3>3. Pending \subseteq Timeout
      BY <1>1 DEF Pending, InSeq, Types, TypeOK
    <3>4. freed' \subseteq 0 .. MaxCalls /\ gone' \subseteq Timeout
      <4>1. freed \subseteq 0 .. MaxCalls /\ gone \subseteq Timeout
        BY DEF Types, TypeOK
      <4>2. {x.id : x \in s.dead} \subseteq 0 .. MaxCalls
        BY <3>2
      <4>3. QED
        BY <3>1, <3>2, <3>3, <4>1, <4>2
    <3> HIDE DEF key
    <3>5. QED
      BY <1>1, <2>1, <3>1, <3>2, <3>4 DEF Types, TypeOK, Stages, heaps, loop, calls, history
  <2>5. QED
    BY <2>3, <2>4
<1>16. ASSUME Signal PROVE Types' /\ Stages'
  BY <1>1, <1>16 DEF Signal, Types, TypeOK, Stages, heaps, loop, calls, history
<1>17. ASSUME Close PROVE Types' /\ Stages'
  BY <1>1, <1>17 DEF Close, Types, TypeOK, Stages, heaps, loop, calls, history
<1>18. ASSUME SendStop PROVE Types' /\ Stages'
  <2>1. /\ ctrl \in Seq(Commands \cup {Stop}) /\ ctrl' = Append(ctrl, Stop)
        /\ Len(ctrl) < CtrlSz
    BY <1>18 DEF SendStop, Types
  <2>2. ctrl' \in Seq(Commands \cup {Stop}) /\ Len(ctrl') <= CtrlSz
    BY <2>1
  <2>3. QED
    BY <1>1, <1>18, <2>2 DEF SendStop, Types, TypeOK, Stages, heaps, loop, calls, history
<1>19. ASSUME NEW c \in Clients, Register(c) PROVE Types' /\ Stages'
  <2>1. PICK x \in Timeout : Fresh(x) /\ ids' = x.id /\ Begin(c, "add", x)
    BY <1>19 DEF Register
  <2>2. Command("add", x, c) \in Commands /\ Command("add", x, c).from = c
    BY <2>1, <1>19 DEF Command
  <2>3. QED
    BY <1>1, <1>19, <2>1, <2>2 DEF Begin, Goto, Types, TypeOK, Stages, heaps, loop, calls, history
<1>20. ASSUME NEW c \in Clients, Cancel(c) PROVE Types' /\ Stages'
  <2>1. PICK key \in plan.keys, typ \in {"delete", "deleteone"} :
          Begin(c, typ, [id |-> ids + 1, key |-> key, due |-> 0])
    BY <1>20 DEF Cancel
  <2> DEFINE x == [id |-> ids + 1, key |-> key, due |-> 0]
  <2>2. ids \in Nat /\ ids < MaxCalls /\ ids' = ids + 1 /\ ids' \in 0 .. MaxCalls
    BY <1>1, <1>20 DEF Cancel, Types, TypeOK
  <2>3. x \in Timeout
    BY <1>1, <2>2 DEF Timeout
  <2>4. Command(typ, x, c) \in Commands /\ Command(typ, x, c).from = c
    BY <2>3, <1>20 DEF Command
  <2> HIDE DEF x
  <2>5. Begin(c, typ, x)
    BY <2>1 DEF x
  <2>6. QED
    BY <1>1, <1>20, <2>2, <2>4, <2>5 DEF Begin, Goto, Types, TypeOK, Stages, heaps, loop, calls, history
<1>21. ASSUME NEW c \in Clients, Decide(c) PROVE Types' /\ Stages'
  BY <1>1, <1>21 DEF Decide, Goto, Types, TypeOK, Stages, heaps, loop, calls, history
<1>22. ASSUME NEW c \in Clients, Send(c) PROVE Types' /\ Stages'
  <2>1. /\ ctrl \in Seq(Commands \cup {Stop}) /\ ctrl' = Append(ctrl, req[c])
        /\ Len(ctrl) < CtrlSz
    BY <1>22 DEF Send, Types
  <2>2. ctrl' \in Seq(Commands \cup {Stop}) /\ Len(ctrl') <= CtrlSz
    BY <1>1, <1>22, <2>1
  <2>3. QED
    BY <1>1, <1>22, <2>2 DEF Send, Goto, Types, TypeOK, Stages, heaps, loop, calls, history
<1>23. ASSUME NEW c \in Clients, Wait(c) PROVE Types' /\ Stages'
  BY <1>1, <1>23 DEF Wait, Goto, Types, TypeOK, Stages, heaps, loop, calls, history
<1>24. ASSUME NEW c \in Clients, DirectMain(c) PROVE Types' /\ Stages'
  <2>1. req[c] \in Commands /\ req[c].tmout \in Timeout
    BY <1>24 DEF DirectMain, Stages
  <2>2. hp' \in Seq(Timeout) /\ hp' # <<>>
    <3>1. hp' \in Seq(Timeout) /\ Len(hp') = Len(hp) + 1
      BY <1>1, <1>24, <2>1, OfferKeeps DEF DirectMain
    <3>2. QED
      BY <1>1, <3>1
  <2>3. QED
    BY <1>1, <1>24, <2>2 DEF DirectMain, Goto, Types, TypeOK, Stages, heaps, loop, calls, history
<1>25. ASSUME NEW c \in Clients, DirectMap(c) PROVE Types' /\ Stages'
  <2>1. req[c] \in Commands /\ req[c].tmout \in Timeout
    BY <1>25 DEF DirectMap, Stages
  <2>2. map' \in [Keys -> Seq(Timeout)]
    BY <1>1, <1>25, <2>1, MapKeeps DEF DirectMap
  <2>3. QED
    BY <1>1, <1>25, <2>2 DEF DirectMap, Goto, Types, TypeOK, Stages, heaps, loop, calls, history
<1>26. ASSUME NEW c \in Clients, Return(c) PROVE Types' /\ Stages'
  BY <1>1, <1>26 DEF Return, Goto, Types, TypeOK, Stages, heaps, loop, calls, history
<1>27. ASSUME NEW c \in Clients, DirectCancel(c) PROVE Types' /\ Stages'
  BY <1>2, <1>27 DEF DirectCancel
<1>28. QED
  BY <1>1, <1>3, <1>4, <1>5, <1>6, <1>7, <1>8, <1>9, <1>10, <1>11, <1>12, <1>13, <1>14, <1>15, <1>16, <1>17, <1>18, <1>19, <1>20, <1>21, <1>22, <1>23, <1>24, <1>25, <1>26, <1>27 DEF Next, LoopStep, ClientStep
-----------------------------------------------------------------------------
(* Most steps leave the commands where they are.                           *)
LEMMA QueueStays ==
  ASSUME Queue, UNCHANGED <<ctrl, req, pc>>,
         at' \in {"exec", "signal"} => at \in {"exec", "signal"} /\ cmd' = cmd
  PROVE  Queue'
BY DEF Queue, Underway, InSeq

(* A client that is outside a call, or has not sent its command, or has    *)
(* been woken, has none in the queue: its request may change.              *)
LEMMA QueueApart ==
  ASSUME Types, Stages, Queue, NEW c \in Clients, ~Underway(c),
         UNCHANGED <<ctrl, at, cmd>>,
         pc' = [pc EXCEPT ![c] = pc'[c]], pc'[c] \notin {"direct", "directmap"},
         \A d \in Clients : d # c => req'[d] = req[d]
  PROVE  Queue'
<1>1. \A i \in 1 .. Len(ctrl) : ctrl[i] # Stop => ctrl[i].from \in Clients /\ ctrl[i].from # c
  BY Basics DEF Types, Queue
<1>2. at \in {"exec", "signal"} => cmd.from \in Clients /\ cmd.from # c
  BY Basics DEF Stages, Queue
<1>3. \A d \in Clients : d # c => pc'[d] = pc[d]
  BY DEF Types, TypeOK
<1>4. \A d \in Clients : d # c => (Underway(d)' <=> Underway(d))
  BY <1>3 DEF Underway
<1>5. \A i \in 1 .. Len(ctrl') :
        ctrl'[i] # Stop => ctrl'[i] = req'[ctrl'[i].from] /\ Underway(ctrl[i].from)'
  BY <1>1, <1>4 DEF Queue
<1>6. at' \in {"exec", "signal"} =>
        cmd' = req'[cmd'.from] /\ Underway(cmd.from)' /\ cmd' \notin InSeq(ctrl')
  BY <1>2, <1>4 DEF Queue
<1>7. \A d \in Clients : pc'[d] \notin {"direct", "directmap"}
  BY <1>3 DEF Queue
<1>8. QED
  BY <1>5, <1>6, <1>7 DEF Queue, Underway

(* Every step of a calm plan keeps the commands in their places.           *)
LEMMA QueueStep ==
  ASSUME Types, Stages, plan.calm, Queue, Next
  PROVE  Queue'
<1>1. ctrl \in Seq(Commands \cup {Stop})
  BY DEF Types
<1>2. CASE UNCHANGED <<ctrl, req, pc>> /\ (at' \in {"exec", "signal"} => at \in {"exec", "signal"} /\ cmd' = cmd)
  BY <1>2, QueueStays
<1>3. CASE Tick \/ BatchEmpty \/ BatchPeek \/ BatchPoll \/ NextPoll \/ TimedOut \/ ExecAdd \/ Close
  BY <1>2, <1>3 DEF Tick, BatchEmpty, BatchPeek, BatchPoll, NextPoll, TimedOut, ExecAdd, Close, calls, loop
<1>4. CASE Run \/ Drop \/ NextUnmap \/ ExecDelete \/ Die
  BY <1>2, <1>4 DEF Run, HandlerCancels, Drop, NextUnmap, ExecDelete, Die, calls, loop
<1>5. ASSUME ctrl # <<>>, ctrl' = Tail(ctrl), UNCHANGED <<req, pc>>,
             at' = "exec" => cmd' = Head(ctrl) /\ cmd' # Stop, at' # "signal"
      PROVE  Queue'
  <2>1. /\ Len(ctrl') = Len(ctrl) - 1 /\ Len(ctrl) \in Nat \ {0} /\ Head(ctrl) = ctrl[1]
        /\ \A i \in 1 .. Len(ctrl') : ctrl'[i] = ctrl[i + 1] /\ i + 1 \in 2 .. Len(ctrl)
    BY <1>1, <1>5
  <2>2. \A i \in 1 .. Len(ctrl') :
          ctrl'[i] # Stop => ctrl'[i] = req[ctrl'[i].from] /\ Underway(ctrl'[i].from)
    BY <2>1 DEF Queue
  <2>3. \A i, k \in 1 .. Len(ctrl') : i # k /\ ctrl'[i] # Stop => ctrl'[i] # ctrl'[k]
    BY <2>1 DEF Queue
  <2>4. at' = "exec" => cmd' = req[cmd'.from] /\ Underway(cmd'.from) /\ cmd' \notin InSeq(ctrl')
    <3> SUFFICES ASSUME at' = "exec"
                 PROVE  cmd' = req[cmd'.from] /\ Underway(cmd'.from) /\ cmd' \notin InSeq(ctrl')
      OBVIOUS
    <3>1. cmd' = ctrl[1] /\ cmd' # Stop /\ 1 \in 1 .. Len(ctrl)
      BY <1>5, <2>1
    <3>2. cmd' \notin InSeq(ctrl')
      BY <2>1, <3>1 DEF Queue, InSeq
    <3>3. QED
      BY <3>1, <3>2 DEF Queue
  <2>5. QED
    BY <1>5, <2>2, <2>3, <2>4 DEF Queue, Underway
<1>6. CASE Receive
  BY <1>4, <1>5, <1>6 DEF Receive, calls
<1>7. CASE ReceiveStop
  BY <1>4, <1>5, <1>7 DEF ReceiveStop, calls
<1>8. CASE Signal
  <2>1. cmd \in Commands /\ cmd.from \in Clients /\ cmd = req[cmd.from] /\ cmd \notin InSeq(ctrl)
    BY <1>8, Basics DEF Signal, Stages, Queue
  <2>2. \A i \in 1 .. Len(ctrl) : ctrl[i] # Stop => ctrl[i].from # cmd.from
    BY <2>1 DEF Queue, InSeq
  <2>3. /\ \A d \in Clients : d # cmd.from => pc'[d] = pc[d]
        /\ pc'[cmd.from] \notin {"direct", "directmap"}
        /\ at' = "batch" /\ UNCHANGED <<ctrl, req>>
    BY <1>8, <2>1 DEF Signal, Types, TypeOK, Queue
  <2>4. \A i \in 1 .. Len(ctrl) : ctrl[i] # Stop => ctrl[i].from \in Clients
    BY <1>1, Basics
  <2>5. QED
    BY <2>2, <2>3, <2>4 DEF Queue, Underway, InSeq
<1>9. ASSUME NEW x \in Commands \cup {Stop}, ctrl' = Append(ctrl, x), UNCHANGED <<at, cmd, req>>,
             \A d \in Clients : Underway(d) => Underway(d)' ,
             \A d \in Clients : pc'[d] \notin {"direct", "directmap"},
             x # Stop => /\ x = req[x.from] /\ Underway(x.from)' /\ x \notin InSeq(ctrl)
                         /\ at \in {"exec", "signal"} => cmd # x
      PROVE  Queue'
  <2>1. /\ Len(ctrl') = Len(ctrl) + 1 /\ Len(ctrl) \in Nat /\ ctrl'[Len(ctrl) + 1] = x
        /\ \A i \in 1 .. Len(ctrl) : ctrl'[i] = ctrl[i] /\ ctrl[i] \in Commands \cup {Stop}
    BY <1>1, <1>9
  <2>2. \A i \in 1 .. Len(ctrl') :
          ctrl'[i] # Stop => ctrl'[i] = req[ctrl'[i].from] /\ pc'[ctrl'[i].from] \in {"sent", "wait"}
    <3> SUFFICES ASSUME NEW i \in 1 .. Len(ctrl'), ctrl'[i] # Stop
                 PROVE  ctrl'[i] = req[ctrl'[i].from] /\ pc'[ctrl'[i].from] \in {"sent", "wait"}
      OBVIOUS
    <3>1. CASE i \in 1 .. Len(ctrl)
      <4>1. ctrl[i] = ctrl'[i] /\ ctrl[i].from \in Clients
        BY <2>1, <3>1, Basics
      <4>2. ctrl[i] = req[ctrl[i].from] /\ Underway(ctrl[i].from)
        BY <3>1, <4>1 DEF Queue
      <4>3. QED
        BY <1>9, <4>1, <4>2 DEF Underway
    <3>2. CASE i = Len(ctrl) + 1
      BY <1>9, <2>1, <3>2 DEF Underway
    <3>3. QED
      BY <2>1, <3>1, <3>2
  <2>3. \A i, k \in 1 .. Len(ctrl') : i # k /\ ctrl'[i] # Stop => ctrl'[i] # ctrl'[k]
    BY <1>9, <2>1 DEF Queue, InSeq
  <2>4. at' \in {"exec", "signal"} => cmd' \notin InSeq(ctrl')
    <3>1. at \in {"exec", "signal"} => cmd \notin InSeq(ctrl) /\ cmd # x
      BY <1>9, Basics DEF Queue, Stages
    <3>2. QED
      BY <1>9, <2>1, <3>1 DEF InSeq
  <2>5. at' \in {"exec", "signal"} => cmd' = req'[cmd'.from] /\ Underway(cmd.from)'
    BY <1>9, Basics DEF Queue, Stages
  <2>6. QED
    BY <1>9, <2>2, <2>3, <2>4, <2>5 DEF Queue, Underway
<1>10. CASE SendStop
  BY <1>9, <1>10 DEF SendStop, calls, loop, Underway, Queue
<1>11. ASSUME NEW c \in Clients, Register(c) \/ Cancel(c) PROVE Queue'
  <2>1. PICK typ, x : Begin(c, typ, x)
    BY <1>11 DEF Register, Cancel
  <2>2. ~Underway(c) /\ pc'[c] = "decide" /\ \A d \in Clients : d # c => req'[d] = req[d]
    BY <2>1 DEF Begin, Goto, Underway, Types, TypeOK
  <2>3. UNCHANGED <<ctrl, at, cmd>> /\ pc' = [pc EXCEPT ![c] = pc'[c]]
    BY <2>1, <2>2 DEF Begin, Goto, loop
  <2>4. QED
    BY <2>2, <2>3, QueueApart
<1>12. ASSUME NEW c \in Clients, Decide(c) PROVE Queue'
  <2>1. ~Underway(c) /\ pc'[c] = "send" /\ \A d \in Clients : d # c => req'[d] = req[d]
    BY <1>12 DEF Decide, Goto, Underway, Types, TypeOK
  <2>2. UNCHANGED <<ctrl, at, cmd>> /\ pc' = [pc EXCEPT ![c] = pc'[c]]
    BY <1>12, <2>1 DEF Decide, Goto, loop
  <2>3. QED
    BY <2>1, <2>2, QueueApart
<1>13. ASSUME NEW c \in Clients, Return(c) PROVE Queue'
  <2>1. ~Underway(c) /\ pc'[c] = "idle" /\ \A d \in Clients : d # c => req'[d] = req[d]
    BY <1>13 DEF Return, Goto, Underway, Types, TypeOK
  <2>2. UNCHANGED <<ctrl, at, cmd>> /\ pc' = [pc EXCEPT ![c] = pc'[c]]
    BY <1>13, <2>1 DEF Return, Goto, loop
  <2>3. QED
    BY <2>1, <2>2, QueueApart
<1>14. ASSUME NEW c \in Clients, Send(c) PROVE Queue'
  <2>1. req[c] \in Commands /\ req[c].from = c /\ ~Underway(c)
    BY <1>14 DEF Send, Stages, Underway
  <2>2. req[c] \notin InSeq(ctrl) /\ (at \in {"exec", "signal"} => cmd # req[c])
    BY <2>1, Basics DEF Queue, InSeq
  <2>3. /\ \A d \in Clients : pc'[d] = IF d = c THEN "sent" ELSE pc[d]
        /\ ctrl' = Append(ctrl, req[c]) /\ UNCHANGED <<at, cmd, req>>
    BY <1>14 DEF Send, Goto, Types, TypeOK, loop
  <2>4. /\ \A d \in Clients : Underway(d) => Underway(d)'
        /\ \A d \in Clients : pc'[d] \notin {"direct", "directmap"}
        /\ Underway(c)'
    BY <2>3 DEF Underway, Queue
  <2>5. QED
    BY <1>9, <2>1, <2>2, <2>3, <2>4
<1>15. ASSUME NEW c \in Clients, Wait(c) PROVE Queue'
  <2>1. /\ \A d \in Clients : pc'[d] = IF d = c THEN "wait" ELSE pc[d]
        /\ pc[c] = "sent" /\ UNCHANGED <<at, cmd, req, ctrl>>
    BY <1>15 DEF Wait, Goto, Types, TypeOK, loop
  <2>2. \A d \in Clients : (Underway(d)' <=> Underway(d)) /\ pc'[d] \notin {"direct", "directmap"}
    BY <2>1 DEF Underway, Queue
  <2>3. \A i \in 1 .. Len(ctrl) : ctrl[i] # Stop => ctrl[i].from \in Clients
    BY <1>1, Basics
  <2>4. at \in {"exec", "signal"} => cmd.from \in Clients
    BY Basics DEF Stages
  <2>5. QED
    BY <2>1, <2>2, <2>3, <2>4 DEF Queue, Underway
<1>16. ASSUME NEW c \in Clients, DirectMain(c) \/ DirectMap(c) \/ DirectCancel(c) PROVE FALSE
  BY <1>16 DEF DirectMain, DirectMap, DirectCancel, Queue
<1>17. plan.clients \subseteq Clients
  BY Basics DEF Types, TypeOK
<1>18. QED
  BY <1>3, <1>4, <1>6, <1>7, <1>8, <1>10, <1>11, <1>12, <1>13, <1>14, <1>15, <1>16, <1>17
     DEF Next, LoopStep, ClientStep
-----------------------------------------------------------------------------
(* A timeout due at a time of its own goes into both structures.           *)
LEMMA BothAdd ==
  ASSUME hp \in Seq(Timeout), map \in [Keys -> Seq(Timeout)], Both, NEW x \in Timeout,
         \A y \in InSeq(hp) \cup Unmapping : y.due # x.due,
         hp' = H!Offer(hp, x), map' = IntoMap(x), Unmapping' = Unmapping
  PROVE  Both' /\ InSeq(hp') = InSeq(hp) \cup {x}
<1>1. InSeq(hp') = InSeq(hp) \cup {x} /\ OneEach(hp')
  BY OfferKeeps DEF Both
<1>2. ASSUME NEW key \in Keys
      PROVE  OneEach(map'[key]) /\ InSeq(map'[key]) = {y \in InSeq(hp') \cup Unmapping : y.key = key}
  <2>1. InSeq(map[key]) = {y \in InSeq(hp) \cup Unmapping : y.key = key} /\ OneEach(map[key])
        /\ map[key] \in Seq(Timeout)
    BY DEF Both
  <2>2. map'[key] = IF key = x.key THEN H!Offer(map[key], x) ELSE map[key]
    BY MapKeeps
  <2>3. CASE key = x.key
    <3>1. \A y \in InSeq(map[key]) : y.due # x.due
      BY <2>1
    <3>2. OneEach(map'[key]) /\ InSeq(map'[key]) = InSeq(map[key]) \cup {x}
      BY <2>1, <2>2, <2>3, <3>1, OfferKeeps
    <3>3. QED
      BY <1>1, <2>1, <2>3, <3>2
  <2>4. CASE key # x.key
    BY <1>1, <2>1, <2>2, <2>4
  <2>5. QED
    BY <2>3, <2>4
<1>3. QED
  BY <1>1, <1>2 DEF Both

(* The timeout that has left the main heap leaves the map.                 *)
LEMMA BothDrop ==
  ASSUME hp \in Seq(Timeout), map \in [Keys -> Seq(Timeout)], Both, held \in Timeout,
         held \notin InSeq(hp), Unmapping = {held},
         hp' = hp, map' = OutOfMap(held), Unmapping' = {}
  PROVE  Both'
<1>1. ASSUME NEW key \in Keys
      PROVE  OneEach(map'[key]) /\ InSeq(map'[key]) = {y \in InSeq(hp) : y.key = key}
  <2>1. InSeq(map[key]) = {y \in InSeq(hp) \cup {held} : y.key = key} /\ OneEach(map[key])
        /\ map[key] \in Seq(Timeout)
    BY DEF Both
  <2>2. map'[key] = IF key = held.key THEN Without(map[key], held) ELSE map[key]
    BY MapKeeps
  <2>3. CASE key = held.key
    <3>1. held \in InSeq(map[key])
      BY <2>1, <2>3
    <3>2. OneEach(map'[key]) /\ InSeq(map'[key]) = InSeq(map[key]) \ {held}
      BY <2>1, <2>2, <2>3, <3>1, WithoutKeeps
    <3>3. QED
      BY <2>1, <3>2
  <2>4. CASE key # held.key
    BY <2>1, <2>2, <2>4
  <2>5. QED
    BY <2>3, <2>4
<1>2. QED
  BY <1>1 DEF Both

(* The root leaves the main heap.                                          *)
LEMMA BothPoll ==
  ASSUME hp \in Seq(Timeout), hp # <<>>, Both, Unmapping = {},
         hp' = H!Poll(hp), map' = map, Unmapping' = {Head(hp)}
  PROVE  /\ Both' /\ InSeq(hp') = InSeq(hp) \ {Head(hp)}
         /\ Head(hp) \in InSeq(hp)
<1>1. OneEach(hp') /\ InSeq(hp') = InSeq(hp) \ {Head(hp)} /\ Head(hp) \in InSeq(hp)
  BY PollKeeps DEF Both
<1>2. InSeq(hp') \cup {Head(hp)} = InSeq(hp) \cup {}
  BY <1>1
<1>3. QED
  BY <1>1, <1>2 DEF Both

(* A cancellation takes timeouts of the key out of both structures.        *)
LEMMA BothDelete ==
  ASSUME hp \in Seq(Timeout), map \in [Keys -> Seq(Timeout)], Both, Unmapping = {},
         NEW key \in Keys, NEW n \in Nat, hp' = Rounds(key, n).main,
         map' = [map EXCEPT ![key] = Rounds(key, n).mine], Unmapping' = {}
  PROVE  /\ Both' /\ InSeq(hp') = InSeq(hp) \ Rounds(key, n).dead
         /\ Rounds(key, n).dead \subseteq InSeq(map[key])
         /\ n = Len(map[key]) => Rounds(key, n).dead = {x \in InSeq(hp) : x.key = key}
<1> DEFINE s == Rounds(key, n)
<1>1. /\ OneEach(hp) /\ OneEach(map[key])
      /\ \A k \in Keys : OneEach(map[k]) /\ InSeq(map[k]) = {x \in InSeq(hp) : x.key = k}
  BY DEF Both
<1>2. InSeq(map[key]) \subseteq InSeq(hp)
  BY <1>1
<1>3. /\ s.dead \subseteq InSeq(map[key])
      /\ OneEach(s.mine) /\ InSeq(s.mine) = InSeq(map[key]) \ s.dead
      /\ OneEach(s.main) /\ InSeq(s.main) = InSeq(hp) \ s.dead
      /\ n = Len(map[key]) => s.dead = InSeq(map[key])
  BY <1>1, <1>2, RoundsExact
<1> HIDE DEF s
<1>4. hp' = s.main /\ map' = [map EXCEPT ![key] = s.mine]
  BY DEF s
<1>5. ASSUME NEW k \in Keys
      PROVE  OneEach(map'[k]) /\ InSeq(map'[k]) = {x \in InSeq(hp') : x.key = k}
  <2>1. CASE k = key
    <3>1. map'[k] = s.mine
      BY <1>4, <2>1
    <3>2. QED
      BY <1>1, <1>3, <1>4, <2>1, <3>1
  <2>2. CASE k # key
    <3>1. map'[k] = map[k] /\ \A x \in s.dead : x.key # k
      BY <1>1, <1>3, <1>4, <2>2
    <3>2. QED
      BY <1>1, <1>3, <1>4, <3>1
  <2>3. QED
    BY <2>1, <2>2
<1>6. Both'
  BY <1>3, <1>4, <1>5 DEF Both
<1>7. QED
  BY <1>1, <1>3, <1>4, <1>6 DEF s
(* Every step of a calm plan keeps the two structures alike.               *)
LEMMA PlacesStep ==
  ASSUME Types, Stages, plan.calm, Queue, Holding, Both, Separate, Next
  PROVE  Holding' /\ Both'
<1>1. hp \in Seq(Timeout) /\ map \in [Keys -> Seq(Timeout)] /\ held \in Timeout \cup {None}
      /\ None \notin Timeout
  BY Basics DEF Types, TypeOK
<1>2. \A x \in InSeq(hp) : x \in Timeout
  BY <1>1 DEF InSeq
<1>3. CASE UNCHANGED <<hp, map, held, at>>
  BY <1>3 DEF Holding, Both, Unmapping
<1>4. CASE Tick \/ Close \/ SendStop \/ Die
  BY <1>3, <1>4 DEF Tick, Close, SendStop, Die, heaps, loop
<1>5. ASSUME NEW c \in Clients, Register(c) \/ Cancel(c) \/ Decide(c) \/ Send(c) \/ Wait(c) \/ Return(c)
      PROVE  Holding' /\ Both'
  BY <1>3, <1>5 DEF Register, Cancel, Begin, Decide, Send, Wait, Return, heaps, loop
<1>6. ASSUME NEW c \in Clients, DirectMain(c) \/ DirectMap(c) \/ DirectCancel(c) PROVE FALSE
  BY <1>6 DEF DirectMain, DirectMap, DirectCancel, Queue
<1>7. CASE BatchEmpty \/ BatchPeek
  <2>1. hp # <<>> => Head(hp) \in InSeq(hp)
    BY <1>1, PollKeeps
  <2>2. at = "batch" /\ at' \in {"overdue", "next"} /\ UNCHANGED <<hp, map>>
    BY <1>7 DEF BatchEmpty, BatchPeek, heaps
  <2>3. Holding'
    BY <1>7, <2>1, <2>2 DEF BatchEmpty, BatchPeek, Holding
  <2>4. Unmapping = {} /\ Unmapping' = {}
    BY <2>2 DEF Unmapping
  <2>5. QED
    BY <2>2, <2>3, <2>4 DEF Both
<1>8. CASE BatchPoll
  <2>1. hp # <<>> /\ held = Head(hp) /\ held \in Timeout /\ hp' = H!Poll(hp) /\ at = "overdue"
        /\ at' = "run" /\ UNCHANGED <<map, held>>
    BY <1>8 DEF BatchPoll, Holding, Stages
  <2>2. Unmapping = {} /\ Unmapping' = {Head(hp)}
    BY <1>1, <2>1 DEF Unmapping
  <2>3. Both' /\ InSeq(hp') = InSeq(hp) \ {Head(hp)}
    BY <1>1, <2>1, <2>2, BothPoll
  <2>4. QED
    BY <2>1, <2>3 DEF Holding
<1>9. CASE Run /\ ~HandlerCancels
  <2>1. /\ at \in {"run", "fire"} /\ held \in Timeout /\ held' = held
        /\ at' = IF at = "run" THEN "drop" ELSE "free"
    BY <1>9 DEF Run, Stages
  <2>2. Unmapping' = Unmapping /\ held \notin InSeq(hp)
    BY <2>1 DEF Unmapping, Holding
  <2>3. CASE UNCHANGED heaps
    BY <2>1, <2>2, <2>3 DEF Holding, Both, heaps
  <2>4. CASE ~UNCHANGED heaps
    <3>1. PICK x \in Timeout : Fresh(x) /\ hp' = H!Offer(hp, x) /\ map' = IntoMap(x)
      BY <1>9, <2>4 DEF Run, Handler
    <3>2. \A y \in Pending : y.due # x.due
      BY <3>1 DEF Fresh
    <3>3. \A y \in InSeq(hp) \cup Unmapping : y.due # x.due
      BY <3>2 DEF Pending, Unmapping
    <3>4. Both' /\ InSeq(hp') = InSeq(hp) \cup {x}
      BY <1>1, <2>2, <3>1, <3>3, BothAdd
    <3>5. held # x
      BY <1>1, <2>1, <3>2 DEF Pending
    <3>6. QED
      BY <2>1, <2>2, <3>4, <3>5 DEF Holding
  <2>5. QED
    BY <2>3, <2>4
<1>10. CASE Run /\ HandlerCancels
  BY <1>4, <1>10 DEF HandlerCancels
<1>11. CASE Drop
  <2>1. CASE at = "drop" /\ Crashes(map[held.key], held)
    BY <1>4, <1>11, <2>1 DEF Drop
  <2>2. CASE ~(at = "drop" /\ Crashes(map[held.key], held))
    <3>1. held \in Timeout /\ held \notin InSeq(hp) /\ at \in {"drop", "free"}
      BY <1>11 DEF Drop, Stages, Holding
    <3>2. map' = (IF at = "drop" THEN OutOfMap(held) ELSE map) /\ hp' = hp
          /\ at' = "batch" /\ held' = None
      BY <1>11, <2>2 DEF Drop
    <3>3. Unmapping' = {} /\ Unmapping = IF at = "drop" THEN {held} ELSE {}
      BY <1>1, <3>1, <3>2 DEF Unmapping
    <3>4. Both'
      <4>1. CASE at = "drop"
        BY <1>1, <3>1, <3>2, <3>3, <4>1, BothDrop
      <4>2. CASE at # "drop"
        BY <3>2, <3>3, <4>2 DEF Both
      <4>3. QED
        BY <4>1, <4>2
    <3>5. QED
      BY <3>2, <3>4 DEF Holding
  <2>3. QED
    BY <2>1, <2>2
<1>12. CASE NextPoll
  <2>1. at = "next" /\ at' = "unmap" /\ map' = map
    BY <1>12 DEF NextPoll
  <2>2. CASE hp = <<>>
    <3>1. hp' = hp /\ held' = None
      BY <1>12, <2>2 DEF NextPoll
    <3>2. Unmapping = {} /\ Unmapping' = {}
      BY <2>1, <3>1 DEF Unmapping
    <3>3. None \notin InSeq(hp)
      BY <1>1, <1>2
    <3>4. QED
      BY <2>1, <3>1, <3>2, <3>3 DEF Holding, Both
  <2>3. CASE hp # <<>>
    <3>1. hp' = H!Poll(hp) /\ held' = Head(hp)
      BY <1>12, <2>3 DEF NextPoll
    <3>2. Head(hp) \in InSeq(hp)
      BY <1>1, <2>3, PollKeeps
    <3>3. Unmapping = {} /\ Unmapping' = {Head(hp)}
      BY <1>1, <1>2, <2>1, <3>1, <3>2 DEF Unmapping
    <3>4. Both' /\ InSeq(hp') = InSeq(hp) \ {Head(hp)}
      BY <1>1, <2>1, <2>3, <3>1, <3>3, BothPoll
    <3>5. QED
      BY <2>1, <3>1, <3>4 DEF Holding
  <2>4. QED
    BY <2>2, <2>3
<1>13. CASE NextUnmap
  <2>1. CASE held # None /\ Crashes(map[held.key], held)
    BY <1>4, <1>13, <2>1 DEF NextUnmap
  <2>2. CASE ~(held # None /\ Crashes(map[held.key], held))
    <3>1. /\ at = "unmap" /\ at' = "wait" /\ hp' = hp /\ held' = held /\ held \notin InSeq(hp)
          /\ map' = IF held = None THEN map ELSE OutOfMap(held)
      BY <1>13, <2>2 DEF NextUnmap, Holding
    <3>2. Unmapping' = {} /\ Unmapping = {held} \ {None}
      BY <3>1 DEF Unmapping
    <3>3. Both'
      <4>1. CASE held = None
        BY <3>1, <3>2, <4>1 DEF Both
      <4>2. CASE held # None
        BY <1>1, <3>1, <3>2, <4>2, BothDrop
      <4>3. QED
        BY <4>1, <4>2
    <3>4. QED
      BY <3>1, <3>3 DEF Holding
  <2>3. QED
    BY <2>1, <2>2
<1>14. CASE TimedOut
  BY <1>14 DEF TimedOut, Holding, Both, Unmapping, heaps
<1>15. CASE Receive
  <2>1. CASE held = None
    BY <1>4, <1>15, <2>1 DEF Receive
  <2>2. CASE held # None
    <3>1. /\ at = "wait" /\ at' = "exec" /\ held' = None
          /\ hp' = H!Offer(hp, held) /\ map' = IntoMap(held)
      BY <1>15, <2>2 DEF Receive
    <3>2. Unmapping = {} /\ Unmapping' = {} /\ held \in Timeout /\ held \notin InSeq(hp)
      BY <1>1, <2>2, <3>1 DEF Unmapping, Holding
    <3>3. \A y \in InSeq(hp) \cup Unmapping : y.due # held.due
      BY <2>2, <3>2 DEF Separate, Pending, Differ
    <3>4. Both'
      BY <1>1, <3>1, <3>2, <3>3, BothAdd
    <3>5. QED
      BY <3>1, <3>4 DEF Holding
  <2>3. QED
    BY <2>1, <2>2
<1>16. CASE ReceiveStop
  <2> DEFINE twice == InSeq(hp) \cap UNION {InSeq(map[key]) : key \in Keys} # {}
  <2>1. CASE twice
    BY <1>4, <1>16, <2>1 DEF ReceiveStop
  <2>2. CASE ~twice
    <3>1. at = "wait" /\ hp' = <<>> /\ held' = None /\ at' = "ended" /\ map' = map
      BY <1>16, <2>2 DEF ReceiveStop
    <3>2. Unmapping = {} /\ Unmapping' = {}
      BY <3>1 DEF Unmapping
    <3>3. ASSUME NEW key \in Keys PROVE InSeq(map[key]) = {}
      <4>1. InSeq(map[key]) \subseteq InSeq(hp)
        BY <3>2 DEF Both
      <4>2. QED
        BY <2>2, <4>1
    <3>4. InSeq(hp') = {} /\ OneEach(hp')
      BY <3>1 DEF InSeq, OneEach
    <3>5. Both'
      BY <3>1, <3>2, <3>3, <3>4 DEF Both
    <3>6. QED
      BY <3>1, <3>5 DEF Holding
  <2>3. QED
    BY <2>1, <2>2
<1>17. CASE ExecAdd
  <2>1. /\ at = "exec" /\ cmd.typ = "add" /\ at' = "signal" /\ held' = held
        /\ hp' = H!Offer(hp, cmd.tmout) /\ map' = IntoMap(cmd.tmout)
    BY <1>17 DEF ExecAdd
  <2>2. cmd \in Commands /\ cmd.tmout \in Timeout /\ cmd.from \in Clients /\ cmd = req[cmd.from]
    BY <2>1, Basics DEF Stages, Queue
  <2>3. \A y \in Pending : Differ(y, cmd.tmout)
    BY <2>1, <2>2 DEF Separate, Coming
  <2>4. Unmapping = {} /\ Unmapping' = {}
    BY <2>1 DEF Unmapping
  <2>5. \A y \in InSeq(hp) \cup Unmapping : y.due # cmd.tmout.due
    BY <2>3, <2>4 DEF Pending, Differ
  <2>6. Both'
    BY <1>1, <2>1, <2>2, <2>4, <2>5, BothAdd
  <2>7. QED
    BY <2>1, <2>6 DEF Holding
<1>18. CASE ExecDelete
  <2> DEFINE key == cmd.tmout.key
             n == IF cmd.typ = "delete" THEN Len(map[key]) ELSE 1
  <2>1. cmd \in Commands /\ key \in Keys /\ n \in Nat /\ at = "exec"
    BY <1>1, <1>18, Basics DEF ExecDelete, Stages
  <2>2. CASE Rounds(key, n).crash
    BY <1>4, <1>18, <2>2 DEF ExecDelete
  <2>3. CASE ~Rounds(key, n).crash
    <3>1. /\ hp' = Rounds(key, n).main /\ map' = [map EXCEPT ![key] = Rounds(key, n).mine]
          /\ at' = "signal" /\ held' = held
      BY <1>18, <2>3 DEF ExecDelete
    <3>2. Unmapping = {} /\ Unmapping' = {}
      BY <2>1, <3>1 DEF Unmapping
    <3> HIDE DEF key, n
    <3>3. Both'
      BY <1>1, <2>1, <3>1, <3>2, BothDelete
    <3>4. QED
      BY <2>1, <3>1, <3>3 DEF Holding
  <2>4. QED
    BY <2>2, <2>3
<1>19. CASE Signal
  BY <1>19 DEF Signal, Holding, Both, Unmapping, heaps
<1>20. plan.clients \subseteq Clients
  BY Basics DEF Types, TypeOK
<1>21. QED
  BY <1>4, <1>5, <1>6, <1>7, <1>8, <1>9, <1>10, <1>11, <1>12, <1>13, <1>14, <1>15, <1>16, <1>17,
     <1>18, <1>19, <1>20
     DEF Next, LoopStep, ClientStep
-----------------------------------------------------------------------------
(* Where some timeouts (Out) leave the main loop for good, they alone may  *)
(* have been freed or cancelled; only what is about to be freed has fired. *)
LEMMA PastKeeps ==
  ASSUME Types, Types', Separate, Past,
         NEW Out, Out \subseteq Pending, Pending' \subseteq Pending \ Out,
         \A c \in Clients : Coming(c)' => Coming(c) /\ req'[c] = req[c],
         fired' \subseteq fired \cup (Served' \cap Pending), Served \subseteq Served' \cup Out,
         gone' \subseteq gone \cup Out, freed' \subseteq freed \cup {x.id : x \in Out},
         ids' >= ids
  PROVE  Separate' /\ Past'
<1>1. ids \in Nat /\ ids' \in Nat /\ Pending \subseteq Timeout /\ Live \subseteq Timeout
      /\ fired \subseteq Timeout /\ gone \subseteq Timeout /\ freed \subseteq Nat
  BY Basics DEF Types, TypeOK, Pending, InSeq, Live, Coming, Stop, Command
<1>2. Separate'
  <2>1. \A x, y \in Pending' : x # y => Differ(x, y)
    BY DEF Separate
  <2>2. ASSUME NEW c \in Clients, Coming(c)'
        PROVE  /\ \A x \in Pending' : Differ(x, req'[c].tmout)
               /\ \A d \in Clients : Coming(d)' /\ c # d => Differ(req'[c].tmout, req'[d].tmout)
    BY <2>2 DEF Separate
  <2>3. QED
    BY <2>1, <2>2 DEF Separate, Differ
<1>3. \A x \in Live' : x \in Live /\ x \notin Out /\ \A y \in Out : y.id # x.id
  <2>1. ASSUME NEW x \in Pending'
        PROVE  x \in Live /\ x \notin Out /\ \A y \in Out : y.id # x.id
    BY DEF Separate, Differ, Live
  <2>2. ASSUME NEW c \in Clients, Coming(c)'
        PROVE  /\ req'[c].tmout \in Live /\ req'[c].tmout \notin Out
               /\ \A y \in Out : y.id # req'[c].tmout.id
    BY <2>2 DEF Separate, Differ, Live
  <2>3. QED
    BY <2>1, <2>2 DEF Live
<1>4. \A x \in Live' : x.id \notin freed' /\ x \notin gone' /\ x \notin fired' \ Served'
  BY <1>3 DEF Past
<1>5. \A x \in Live' \cup fired' \cup gone' : x.id <= ids'
  <2>1. \A x \in Live \cup fired \cup gone : x.id <= ids /\ x.id \in Nat
    BY <1>1, Basics DEF Past
  <2>2. Live' \cup fired' \cup gone' \subseteq Live \cup fired \cup gone
    BY <1>3 DEF Live
  <2>3. QED
    BY <1>1, <2>1, <2>2
<1>6. \A n \in freed' : n <= ids'
  <2>1. \A n \in freed : n <= ids /\ n \in Nat
    BY <1>1 DEF Past
  <2>2. \A x \in Out : x.id <= ids /\ x.id \in Nat
    BY <1>1, Basics DEF Past, Live
  <2>3. QED
    BY <1>1, <2>1, <2>2
<1>7. QED
  BY <1>2, <1>4, <1>5, <1>6 DEF Past

(* A new timeout differs from all that there have been.                    *)
LEMMA FreshDiffers ==
  ASSUME Types, Past, NEW x \in Timeout, Fresh(x)
  PROVE  /\ \A y \in Live : Differ(x, y) /\ Differ(y, x)
         /\ x.id \notin freed /\ x \notin gone /\ x \notin fired
         /\ x.id = ids + 1 /\ ids \in Nat
<1>1. ids \in Nat /\ x.id = ids + 1
  BY DEF Types, TypeOK, Fresh
<1>2. \A y \in Live : y.id <= ids /\ x.due # y.due
  BY DEF Past, Fresh, Live
<1>3. Live \subseteq Timeout
  BY Basics DEF Types, TypeOK, Pending, InSeq, Live, Coming, Stop, Command
<1>4. \A y \in Live : y.id \in Nat
  BY <1>3, Basics
<1>5. \A y \in Live : y.id # x.id
  BY <1>1, <1>2, <1>4
<1>6. x.id \notin freed /\ x \notin gone /\ x \notin fired
  BY <1>1 DEF Past
<1>7. QED
  BY <1>1, <1>2, <1>5, <1>6 DEF Differ

(* Every step of a calm plan keeps the pending timeouts apart from each    *)
(* other and from those of the past.                                       *)
LEMMA PastStep ==
  ASSUME Types, Types', Stages, plan.calm, Queue, Holding, Both, Separate, Past, Next
  PROVE  Separate' /\ Past'
<1>1. /\ hp \in Seq(Timeout) /\ map \in [Keys -> Seq(Timeout)] /\ held \in Timeout \cup {None}
      /\ None \notin Timeout /\ ids \in Nat /\ ids' \in Nat /\ InSeq(hp) \subseteq Timeout
      /\ ctrl \in Seq(Commands \cup {Stop}) /\ plan.clients \subseteq Clients
      /\ \A x \in Timeout : x.id \in Nat
  BY Basics DEF Types, TypeOK, InSeq
<1>2. \A c \in Clients : Coming(c) => req[c] \in Commands /\ req[c].from = c
  BY DEF Coming, Types, Stages, Stop, Command
<1>3. ASSUME UNCHANGED <<history>>, Pending' \subseteq Pending, ids' >= ids, Served \subseteq Served',
             \A c \in Clients : Coming(c)' => Coming(c) /\ req'[c] = req[c]
      PROVE  Separate' /\ Past'
  BY <1>3, PastKeeps DEF history
<1>4. ASSUME UNCHANGED <<pc, req, ctrl>>, at' # "exec"
      PROVE  \A c \in Clients : Coming(c)' => Coming(c) /\ req'[c] = req[c]
  BY <1>4 DEF Coming
<1>5. CASE UNCHANGED <<hp, held, at, cmd, pc, req, ctrl, ids, history>>
  <2>1. \A c \in Clients : Coming(c)' => Coming(c) /\ req'[c] = req[c]
    BY <1>5 DEF Coming
  <2>2. Pending' = Pending /\ Served' = Served
    BY <1>5 DEF Pending, Served
  <2>3. QED
    BY <1>1, <1>3, <1>5, <2>1, <2>2
<1>6. CASE Tick \/ Close \/ Die
  BY <1>5, <1>6 DEF Tick, Close, Die, heaps, loop, calls
<1>7. CASE BatchEmpty \/ BatchPeek
  <2>1. hp # <<>> => Head(hp) \in InSeq(hp)
    BY <1>1, PollKeeps
  <2>2. /\ at = "batch" /\ at' \in {"overdue", "next"} /\ UNCHANGED <<hp, pc, req, ctrl, ids, history>>
        /\ held' = held \/ held' \in InSeq(hp)
    BY <1>7, <2>1 DEF BatchEmpty, BatchPeek, heaps, calls
  <2>3. Pending' \subseteq Pending /\ Served = {}
    BY <2>2 DEF Pending, Served
  <2>4. QED
    BY <1>1, <1>3, <1>4, <2>2, <2>3
<1>8. CASE BatchPoll
  <2>1. /\ at = "overdue" /\ at' = "run" /\ UNCHANGED <<held, pc, req, ctrl, ids, history>>
        /\ hp # <<>> /\ hp' = H!Poll(hp)
    BY <1>8 DEF BatchPoll, Stages, calls
  <2>2. InSeq(hp') \subseteq InSeq(hp)
    BY <1>1, <2>1, PollKeeps
  <2>3. Pending' \subseteq Pending /\ Served = {}
    BY <2>1, <2>2 DEF Pending, Served
  <2>4. QED
    BY <1>1, <1>3, <1>4, <2>1, <2>3
<1>9. CASE Run /\ ~HandlerCancels
  <2>1. /\ at \in {"run", "fire"} /\ held \in Timeout /\ held' = held /\ held \in Pending
        /\ at' = (IF at = "run" THEN "drop" ELSE "free") /\ fired' = fired \cup {held}
        /\ UNCHANGED <<pc, req, ctrl, gone, freed>>
    BY <1>1, <1>9 DEF Run, Stages, Pending
  <2>2. Served = {} /\ Served' = {held}
    BY <2>1 DEF Served
  <2>3. \A c \in Clients : Coming(c)' => Coming(c) /\ req'[c] = req[c]
    BY <1>4, <2>1
  <2>4. CASE UNCHANGED <<heaps, ids>>
    <3>1. Pending' = Pending
      BY <2>1, <2>4 DEF Pending, heaps
    <3> DEFINE out == {}
    <3>2. /\ out \subseteq Pending /\ Pending' \subseteq Pending \ out
          /\ fired' \subseteq fired \cup (Served' \cap Pending) /\ Served \subseteq Served' \cup out
          /\ gone' \subseteq gone \cup out /\ freed' \subseteq freed \cup {x.id : x \in out}
          /\ ids' >= ids
      BY <1>1, <2>1, <2>2, <2>4, <3>1
    <3> HIDE DEF out
    <3>3. QED
      BY <2>3, <3>2, PastKeeps
  <2>5. CASE ~UNCHANGED <<heaps, ids>>
    <3>1. PICK x \in Timeout : Fresh(x) /\ ids' = x.id /\ hp' = H!Offer(hp, x)
      BY <1>9, <2>5 DEF Run, Handler
    <3>2. /\ \A y \in Live : Differ(x, y) /\ Differ(y, x)
          /\ x.id \notin freed /\ x \notin gone /\ x \notin fired
          /\ x.id = ids + 1
      BY <3>1, FreshDiffers
    <3>3. Pending' = Pending \cup {x}
      <4>1. InSeq(hp') = InSeq(hp) \cup {x}
        BY <1>1, <3>1, OfferKeeps
      <4>2. QED
        BY <1>1, <2>1, <4>1 DEF Pending
    <3>4. Separate'
      <4>1. \A y, z \in Pending' : y # z => Differ(y, z)
        BY <3>2, <3>3 DEF Separate, Live
      <4>2. ASSUME NEW c \in Clients, Coming(c)'
            PROVE  /\ \A y \in Pending' : Differ(y, req'[c].tmout)
                   /\ \A d \in Clients : Coming(d)' /\ c # d => Differ(req'[c].tmout, req'[d].tmout)
        BY <2>3, <3>2, <3>3, <4>2 DEF Separate, Live
      <4>3. QED
        BY <4>1, <4>2 DEF Separate, Differ
    <3>5. Live' \subseteq Live \cup {x}
      BY <2>3, <3>3 DEF Live
    <3>6. \A y \in Live' : y.id \notin freed' /\ y \notin gone' /\ y \notin fired' \ Served'
      BY <2>1, <2>2, <3>2, <3>5 DEF Past
    <3>7. \A y \in Live' \cup fired' \cup gone' : y.id <= ids'
      <4>1. \A y \in Live \cup fired \cup gone : y.id <= ids /\ y.id \in Nat
        <5>1. Live \subseteq Timeout /\ fired \subseteq Timeout /\ gone \subseteq Timeout
          BY <1>2, Basics DEF Types, TypeOK, Pending, InSeq, Live
        <5>2. QED
          BY <1>1, <5>1 DEF Past
      <4>2. held \in Live
        BY <2>1 DEF Live
      <4>3. QED
        BY <1>1, <2>1, <3>1, <3>2, <3>5, <4>1, <4>2
    <3>8. \A n \in freed' : n <= ids'
      <4>1. \A n \in freed : n \in Nat /\ n <= ids
        BY DEF Past, Types, TypeOK
      <4>2. QED
        BY <1>1, <2>1, <3>1, <3>2, <4>1
    <3>9. QED
      BY <3>4, <3>6, <3>7, <3>8 DEF Past
  <2>6. QED
    BY <2>4, <2>5
<1>10. CASE Run /\ HandlerCancels
  BY <1>6, <1>10 DEF HandlerCancels
<1>11. CASE Drop
  <2>1. CASE at = "drop" /\ Crashes(map[held.key], held)
    BY <1>6, <1>11, <2>1 DEF Drop
  <2>2. CASE ~(at = "drop" /\ Crashes(map[held.key], held))
    <3>1. /\ at \in {"drop", "free"} /\ at' = "batch" /\ held' = None /\ hp' = hp
          /\ freed' = freed \cup {held.id} /\ UNCHANGED <<fired, gone, pc, req, ctrl, ids>>
      BY <1>11, <2>2 DEF Drop, calls
    <3>2. held \in Timeout /\ held \notin InSeq(hp)
      BY <3>1 DEF Stages, Holding
    <3>3. {held} \subseteq Pending /\ Pending' \subseteq Pending \ {held}
      BY <1>1, <3>1, <3>2 DEF Pending
    <3>4. Served = {held}
      BY <3>1 DEF Served
    <3> DEFINE out == {held}
    <3>5. /\ out \subseteq Pending /\ Pending' \subseteq Pending \ out
          /\ fired' \subseteq fired \cup (Served' \cap Pending) /\ Served \subseteq Served' \cup out
          /\ gone' \subseteq gone \cup out /\ freed' \subseteq freed \cup {x.id : x \in out}
          /\ ids' >= ids
      BY <1>1, <3>1, <3>3, <3>4
    <3>6. \A c \in Clients : Coming(c)' => Coming(c) /\ req'[c] = req[c]
      BY <1>4, <3>1
    <3> HIDE DEF out
    <3>7. QED
      BY <3>5, <3>6, PastKeeps
  <2>3. QED
    BY <2>1, <2>2
<1>12. CASE NextPoll
  <2>1. at = "next" /\ at' = "unmap" /\ UNCHANGED <<pc, req, ctrl, ids, history>>
    BY <1>12 DEF NextPoll, calls
  <2>2. InSeq(hp') \subseteq InSeq(hp) /\ held' \in InSeq(hp) \cup {None}
    BY <1>1, <1>12, PollKeeps DEF NextPoll
  <2>3. Pending' \subseteq Pending /\ Served = {}
    BY <2>1, <2>2 DEF Pending, Served
  <2>4. QED
    BY <1>1, <1>3, <1>4, <2>1, <2>3
<1>13. CASE NextUnmap
  <2>1. CASE held # None /\ Crashes(map[held.key], held)
    BY <1>6, <1>13, <2>1 DEF NextUnmap
  <2>2. CASE ~(held # None /\ Crashes(map[held.key], held))
    <3>1. at = "unmap" /\ at' = "wait" /\ UNCHANGED <<hp, held, pc, req, ctrl, ids, history>>
      BY <1>13, <2>2 DEF NextUnmap, calls
    <3>2. Pending' = Pending /\ Served = {}
      BY <3>1 DEF Pending, Served
    <3>3. QED
      BY <1>1, <1>3, <1>4, <3>1, <3>2
  <2>3. QED
    BY <2>1, <2>2
<1>14. CASE TimedOut
  <2>1. at = "wait" /\ at' = "fire" /\ UNCHANGED <<hp, held, pc, req, ctrl, ids, history>>
    BY <1>14 DEF TimedOut, heaps, calls
  <2>2. Pending' = Pending /\ Served = {}
    BY <2>1 DEF Pending, Served
  <2>3. QED
    BY <1>1, <1>3, <1>4, <2>1, <2>2
<1>15. CASE Receive
  <2>1. CASE held = None
    BY <1>6, <1>15, <2>1 DEF Receive
  <2>2. CASE held # None
    <3>1. /\ at = "wait" /\ at' = "exec" /\ held' = None /\ hp' = H!Offer(hp, held) /\ ctrl # <<>>
          /\ cmd' = Head(ctrl) /\ ctrl' = Tail(ctrl) /\ UNCHANGED <<pc, req, ids, history>>
      BY <1>15, <2>2 DEF Receive, calls
    <3>2. InSeq(hp') = InSeq(hp) \cup {held}
      BY <1>1, <2>2, <3>1, OfferKeeps
    <3>3. Pending' \subseteq Pending /\ Served = {}
      BY <2>2, <3>1, <3>2 DEF Pending, Served
    <3>4. InSeq(ctrl') \subseteq InSeq(ctrl) /\ cmd' \in InSeq(ctrl)
      <4>1. InSeq(ctrl') \subseteq InSeq(ctrl)
        BY <1>1, <3>1 DEF InSeq
      <4>2. 1 \in 1 .. Len(ctrl) /\ cmd' = ctrl[1]
        BY <1>1, <3>1
      <4>3. QED
        BY <4>1, <4>2 DEF InSeq
    <3>5. \A c \in Clients : Coming(c)' => Coming(c) /\ req'[c] = req[c]
      BY <3>1, <3>4 DEF Coming
    <3>6. QED
      BY <1>1, <1>3, <3>1, <3>3, <3>5
  <2>3. QED
    BY <2>1, <2>2
<1>16. CASE ReceiveStop
  <2> DEFINE twice == InSeq(hp) \cap UNION {InSeq(map[key]) : key \in Keys} # {}
  <2>1. CASE twice
    BY <1>6, <1>16, <2>1 DEF ReceiveStop
  <2>2. CASE ~twice
    <3>1. /\ at = "wait" /\ at' = "ended" /\ hp' = <<>> /\ held' = None /\ ctrl # <<>>
          /\ ctrl' = Tail(ctrl) /\ freed' = freed \cup {x.id : x \in Pending}
          /\ UNCHANGED <<pc, req, ids, fired, gone>>
      BY <1>16, <2>2 DEF ReceiveStop, calls
    <3>2. Pending' = {} /\ Served = {}
      BY <3>1 DEF Pending, Served, InSeq
    <3>3. InSeq(ctrl') \subseteq InSeq(ctrl)
      BY <1>1, <3>1 DEF InSeq
    <3>4. \A c \in Clients : Coming(c)' => Coming(c) /\ req'[c] = req[c]
      BY <3>1, <3>3 DEF Coming
    <3>5. QED
      BY <1>1, <3>1, <3>2, <3>4, PastKeeps
  <2>3. QED
    BY <2>1, <2>2
<1>17. CASE ExecAdd
  <2>1. /\ at = "exec" /\ cmd.typ = "add" /\ at' = "signal" /\ held' = held /\ cmd' = cmd
        /\ hp' = H!Offer(hp, cmd.tmout) /\ UNCHANGED <<pc, req, ctrl, ids, history>>
    BY <1>17 DEF ExecAdd, calls
  <2> DEFINE d == cmd.from
             x == cmd.tmout
  <2>2. /\ cmd \in Commands /\ x \in Timeout /\ d \in Clients /\ cmd = req[d] /\ Underway(d)
        /\ cmd \notin InSeq(ctrl)
    BY <2>1, Basics DEF Stages, Queue
  <2>3. Coming(d) /\ ~Coming(d)' /\ x = req[d].tmout
    BY <2>1, <2>2 DEF Coming, Underway
  <2>4. \A c \in Clients : Coming(c)' => Coming(c) /\ c # d /\ req'[c] = req[c]
    BY <1>4, <2>1, <2>3
  <2> HIDE DEF d, x
  <2>5. InSeq(hp') = InSeq(hp) \cup {x}
    BY <1>1, <2>1, <2>2, OfferKeeps DEF x
  <2>6. Pending' = Pending \cup {x} /\ Served = {} /\ Served' = {}
    BY <2>1, <2>5 DEF Pending, Served
  <2>7. \A y \in Pending : Differ(y, x) /\ Differ(x, y)
    BY <2>2, <2>3 DEF Separate, Differ
  <2>8. \A c \in Clients : Coming(c) /\ c # d => Differ(x, req[c].tmout)
    BY <2>2, <2>3 DEF Separate
  <2>9. Separate'
    <3>1. \A y, z \in Pending' : y # z => Differ(y, z)
      BY <2>6, <2>7 DEF Separate
    <3>2. ASSUME NEW c \in Clients, Coming(c)'
          PROVE  /\ \A y \in Pending' : Differ(y, req'[c].tmout)
                 /\ \A e \in Clients : Coming(e)' /\ c # e => Differ(req'[c].tmout, req'[e].tmout)
      BY <2>4, <2>6, <2>8, <3>2 DEF Separate
    <3>3. QED
      BY <3>1, <3>2 DEF Separate, Differ
  <2>10. Live' \subseteq Live
    BY <2>2, <2>3, <2>4, <2>6 DEF Live
  <2>11. QED
    BY <2>1, <2>6, <2>9, <2>10 DEF Past, history
<1>18. CASE ExecDelete
  <2> DEFINE key == cmd.tmout.key
             n == IF cmd.typ = "delete" THEN Len(map[key]) ELSE 1
             dead == Rounds(key, n).dead
  <2>1. cmd \in Commands /\ key \in Keys /\ n \in Nat /\ at = "exec" /\ held = None
    BY <1>1, <1>18, Basics DEF ExecDelete, Stages, Holding
  <2>2. CASE Rounds(key, n).crash
    BY <1>6, <1>18, <2>2 DEF ExecDelete
  <2>3. CASE ~Rounds(key, n).crash
    <3>1. /\ hp' = Rounds(key, n).main /\ map' = [map EXCEPT ![key] = Rounds(key, n).mine]
          /\ freed' = freed \cup {x.id : x \in dead}
          /\ gone' = gone \cup (IF cmd.typ = "delete" THEN {x \in Pending : x.key = key} ELSE dead)
          /\ at' = "signal" /\ UNCHANGED <<held, pc, req, ctrl, ids, fired>>
      BY <1>18, <2>3 DEF ExecDelete, calls
    <3>2. Unmapping = {} /\ Unmapping' = {} /\ Served = {}
      BY <2>1, <3>1 DEF Unmapping, Served
    <3>3. cmd.typ = "delete" => n = Len(map[key])
      OBVIOUS
    <3> HIDE DEF key, n
    <3>4. /\ InSeq(hp') = InSeq(hp) \ dead /\ dead \subseteq InSeq(map[key])
          /\ n = Len(map[key]) => dead = {x \in InSeq(hp) : x.key = key}
      BY <1>1, <2>1, <3>1, <3>2, BothDelete
    <3>5. InSeq(map[key]) \subseteq InSeq(hp)
      BY <2>1, <3>2 DEF Both
    <3> HIDE DEF dead
    <3>6. dead \subseteq Pending /\ Pending' \subseteq Pending \ dead
      BY <2>1, <3>1, <3>4, <3>5 DEF Pending
    <3>7. gone' \subseteq gone \cup dead
      BY <2>1, <3>1, <3>3, <3>4 DEF Pending
    <3>8. /\ fired' \subseteq fired \cup (Served' \cap Pending) /\ Served \subseteq Served' \cup dead
          /\ freed' \subseteq freed \cup {x.id : x \in dead} /\ ids' >= ids
      BY <1>1, <3>1, <3>2
    <3>9. \A c \in Clients : Coming(c)' => Coming(c) /\ req'[c] = req[c]
      BY <1>4, <3>1
    <3>10. QED
      BY <3>6, <3>7, <3>8, <3>9, PastKeeps
  <2>4. QED
    BY <2>2, <2>3
<1>19. CASE Signal
  <2>1. /\ at = "signal" /\ at' = "batch" /\ UNCHANGED <<hp, held, req, ctrl, ids, history>>
        /\ \A c \in Clients : pc'[c] = pc[c] \/ pc'[c] = "woken"
    BY <1>19 DEF Signal, heaps, Types, TypeOK
  <2>2. Pending' = Pending /\ Served = {}
    BY <2>1 DEF Pending, Served
  <2>3. \A c \in Clients : Coming(c)' => Coming(c) /\ req'[c] = req[c]
    BY <2>1 DEF Coming
  <2>4. QED
    BY <1>1, <1>3, <2>1, <2>2, <2>3
<1>20. ASSUME UNCHANGED <<hp, held, at, cmd, history>>, ids' >= ids,
              \A c \in Clients : Coming(c)' => Coming(c) /\ req'[c] = req[c]
       PROVE  Separate' /\ Past'
  BY <1>3, <1>20 DEF Pending, Served
<1>21. CASE SendStop
  <2>1. InSeq(ctrl') \subseteq InSeq(ctrl) \cup {Stop}
    BY <1>1, <1>21 DEF SendStop, InSeq
  <2>2. UNCHANGED <<hp, held, at, cmd, history, pc, req, ids>>
    BY <1>21 DEF SendStop, heaps, loop, calls
  <2>3. \A c \in Clients : Coming(c)' => Coming(c) /\ req'[c] = req[c]
    BY <2>1, <2>2 DEF Coming, Stop, Command
  <2>4. QED
    BY <1>1, <1>20, <2>2, <2>3
<1>22. ASSUME NEW c \in Clients, Cancel(c) PROVE Separate' /\ Past'
  <2>1. PICK key \in plan.keys, typ \in {"delete", "deleteone"} :
          Begin(c, typ, [id |-> ids + 1, key |-> key, due |-> 0])
    BY <1>22 DEF Cancel
  <2>2. /\ \A d \in Clients : d # c => req'[d] = req[d] /\ pc'[d] = pc[d]
        /\ req'[c].typ = typ /\ UNCHANGED <<hp, held, at, cmd, history, ctrl>>
    BY <2>1 DEF Begin, Goto, heaps, loop, Types, TypeOK, Command
  <2>3. \A d \in Clients : Coming(d)' => Coming(d) /\ req'[d] = req[d]
    BY <2>2 DEF Coming
  <2>4. ids' = ids + 1
    BY <1>22 DEF Cancel
  <2>5. QED
    BY <1>1, <1>20, <2>2, <2>3, <2>4
<1>23. ASSUME NEW c \in Clients, Decide(c) \/ Wait(c) \/ Return(c) PROVE Separate' /\ Past'
  <2>1. /\ UNCHANGED <<hp, held, at, cmd, history, ctrl, ids>>
        /\ \A d \in Clients : d # c => req'[d] = req[d] /\ pc'[d] = pc[d]
        /\ req'[c] = Stop \/ (req'[c] = req[c] /\ (pc[c] = "decide" \/ pc'[c] = "wait"))
    BY <1>23 DEF Decide, Wait, Return, Goto, heaps, loop, Types, TypeOK
  <2>2. \A d \in Clients : Coming(d)' => Coming(d) /\ req'[d] = req[d]
    BY <2>1 DEF Coming, Stop, Command
  <2>3. QED
    BY <1>1, <1>20, <2>1, <2>2
<1>24. ASSUME NEW c \in Clients, Send(c) PROVE Separate' /\ Past'
  <2>1. /\ UNCHANGED <<hp, held, at, cmd, history, req, ids>> /\ pc[c] = "send" /\ pc'[c] = "sent"
        /\ \A d \in Clients : d # c => pc'[d] = pc[d]
        /\ ctrl' = Append(ctrl, req[c]) /\ req[c] \in Commands /\ req[c].from = c
    BY <1>24 DEF Send, Goto, heaps, loop, Types, TypeOK, Stages
  <2>2. InSeq(ctrl') \subseteq InSeq(ctrl) \cup {req[c]}
    BY <1>1, <2>1 DEF InSeq
  <2>3. \A d \in Clients : d # c => req[d] # req[c]
    BY <2>1, Basics DEF Stages
  <2>4. \A d \in Clients : Coming(d)' => Coming(d) /\ req'[d] = req[d]
    BY <2>1, <2>2, <2>3 DEF Coming
  <2>5. QED
    BY <1>1, <1>20, <2>1, <2>4
<1>25. ASSUME NEW c \in Clients, Register(c) PROVE Separate' /\ Past'
  <2>1. PICK x \in Timeout : Fresh(x) /\ ids' = x.id /\ Begin(c, "add", x)
    BY <1>25 DEF Register
  <2>2. /\ \A d \in Clients : d # c => req'[d] = req[d] /\ pc'[d] = pc[d]
        /\ req'[c].tmout = x /\ UNCHANGED <<hp, held, at, cmd, history, ctrl>>
    BY <2>1 DEF Begin, Goto, heaps, loop, Types, TypeOK, Command
  <2>3. \A d \in Clients : Coming(d)' => d = c \/ (Coming(d) /\ req'[d] = req[d])
    BY <2>2 DEF Coming
  <2>4. /\ \A y \in Live : Differ(x, y) /\ Differ(y, x)
        /\ x.id \notin freed /\ x \notin gone /\ x \notin fired
        /\ x.id = ids + 1
    BY <2>1, FreshDiffers
  <2>5. Pending' = Pending /\ Served' = Served
    BY <2>2 DEF Pending, Served
  <2>6. Separate'
    <3>1. \A y, z \in Pending' : y # z => Differ(y, z)
      BY <2>5 DEF Separate
    <3>2. ASSUME NEW d \in Clients, Coming(d)'
          PROVE  /\ \A y \in Pending' : Differ(y, req'[d].tmout)
                 /\ \A e \in Clients : Coming(e)' /\ d # e => Differ(req'[d].tmout, req'[e].tmout)
      <4>1. \A y \in Pending' : Differ(y, req'[d].tmout)
        BY <2>2, <2>3, <2>4, <2>5, <3>2 DEF Separate, Live
      <4>2. \A e \in Clients : Coming(e)' /\ d # e => Differ(req'[d].tmout, req'[e].tmout)
        BY <2>2, <2>3, <2>4, <3>2 DEF Separate, Live
      <4>3. QED
        BY <4>1, <4>2
    <3>3. QED
      BY <3>1, <3>2 DEF Separate, Differ
  <2>7. Live' \subseteq Live \cup {x}
    BY <2>2, <2>3, <2>5 DEF Live
  <2>8. Past'
    <3>1. \A y \in Live \cup fired \cup gone : y.id <= ids /\ y.id \in Nat
      <4>1. Live \subseteq Timeout /\ fired \subseteq Timeout /\ gone \subseteq Timeout
        BY <1>2, Basics DEF Types, TypeOK, Pending, InSeq, Live
      <4>2. QED
        BY <1>1, <4>1 DEF Past
    <3>2. \A n \in freed : n \in Nat /\ n <= ids
      BY DEF Past, Types, TypeOK
    <3>3. UNCHANGED <<fired, gone, freed>>
      BY <2>2 DEF history
    <3>4. \A y \in Live' : y.id \notin freed' /\ y \notin gone' /\ y \notin fired' \ Served'
      BY <2>4, <2>5, <2>7, <3>3 DEF Past
    <3>5. \A y \in Live' \cup fired' \cup gone' : y.id <= ids'
      BY <1>1, <2>1, <2>4, <2>7, <3>1, <3>3
    <3>6. \A n \in freed' : n <= ids'
      BY <1>1, <2>1, <2>4, <3>2, <3>3
    <3>7. QED
      BY <3>4, <3>5, <3>6 DEF Past
  <2>9. QED
    BY <2>6, <2>8
<1>26. ASSUME NEW c \in Clients, DirectMain(c) \/ DirectMap(c) \/ DirectCancel(c) PROVE FALSE
  BY <1>26 DEF DirectMain, DirectMap, DirectCancel, Queue
<1>27. QED
  BY <1>1, <1>6, <1>7, <1>8, <1>9, <1>10, <1>11, <1>12, <1>13, <1>14, <1>15, <1>16, <1>17, <1>18,
     <1>19, <1>21, <1>22, <1>23, <1>24, <1>25, <1>26
     DEF Next, LoopStep, ClientStep
-----------------------------------------------------------------------------
(* At the start: the initialisers' one or two timeouts are in both.        *)
LEMMA InitIInv == Init => IInv
<1> SUFFICES ASSUME Init PROVE IInv
  OBVIOUS
<1> USE Basics
<1>1. PICK first \in Timeout, second \in Timeout \cup {None} :
        LET one == [key \in Keys |-> IF key = first.key THEN <<first>> ELSE <<>>]
        IN  /\ first.id = 1 /\ Planned(first)
            /\ \/ /\ second = None
                  /\ hp = <<first>> /\ map = one /\ ids = 1
               \/ /\ second.id = 2 /\ Planned(second) /\ first.due # second.due
                  /\ hp = H!Offer(<<first>>, second)
                  /\ map = [one EXCEPT ![second.key] = H!Offer(@, second)]
                  /\ ids = 2
  BY DEF Init
<1> DEFINE one == [key \in Keys |-> IF key = first.key THEN <<first>> ELSE <<>>]
<1>2. /\ plan \in Plans /\ now = 0 /\ held = None /\ at = "batch" /\ cmd = Stop /\ start = FALSE
      /\ ctrl = <<>> /\ closed = FALSE /\ stopped = FALSE
      /\ pc = [c \in Clients |-> "idle"] /\ req = [c \in Clients |-> Stop]
      /\ fired = {} /\ gone = {} /\ freed = {} /\ fault = FALSE
  BY DEF Init
<1>3. /\ <<first>> \in Seq(Timeout) /\ InSeq(<<first>>) = {first} /\ OneEach(<<first>>)
      /\ <<>> \in Seq(Timeout) /\ InSeq(<<>>) = {} /\ OneEach(<<>>)
  BY DEF InSeq, OneEach
<1>4. one \in [Keys -> Seq(Timeout)] /\ first.key \in Keys
      /\ \A key \in Keys : one[key] = IF key = first.key THEN <<first>> ELSE <<>>
  BY <1>3
<1>5. \A key \in Keys : InSeq(one[key]) = {x \in {first} : x.key = key} /\ OneEach(one[key])
  BY <1>3, <1>4
<1>6. /\ hp \in Seq(Timeout) /\ map \in [Keys -> Seq(Timeout)]
      /\ OneEach(hp) /\ \A key \in Keys : OneEach(map[key])
      /\ \A key \in Keys : InSeq(map[key]) = {x \in InSeq(hp) : x.key = key}
      /\ \A x, y \in InSeq(hp) : x # y => Differ(x, y)
      /\ \A x \in InSeq(hp) : x.id \in 1 .. ids
      /\ ids \in 1 .. MaxCalls
  <2>1. CASE second = None
    <3>1. hp = <<first>> /\ map = one /\ ids = 1 /\ first.id = 1
      BY <1>1, <2>1 DEF None
    <3> HIDE DEF one
    <3>2. InSeq(hp) = {first} /\ first.id \in 1 .. MaxCalls
      BY <1>3, <3>1
    <3>3. QED
      BY <1>3, <1>4, <1>5, <3>1, <3>2
  <2>2. CASE second # None
    <3>1. /\ second \in Timeout /\ second.id = 2 /\ first.id = 1 /\ first.due # second.due
          /\ hp = H!Offer(<<first>>, second)
          /\ map = [one EXCEPT ![second.key] = H!Offer(one[second.key], second)] /\ ids = 2
      BY <1>1, <2>2
    <3> HIDE DEF one
    <3> DEFINE h == <<first>>
    <3>2. /\ hp \in Seq(Timeout) /\ InSeq(hp) = {first, second} /\ OneEach(hp)
      <4>1. /\ h \in Seq(Timeout) /\ InSeq(h) = {first} /\ OneEach(h)
            /\ hp = H!Offer(h, second) /\ \A y \in InSeq(h) : y.due # second.due
        BY <1>3, <3>1
      <4> HIDE DEF h
      <4>2. InSeq(h) \cup {second} = {first, second}
        BY <4>1
      <4>3. QED
        BY <3>1, <4>1, <4>2, OfferKeeps
    <3>3. second.key \in Keys /\ one[second.key] \in Seq(Timeout)
          /\ \A x \in InSeq(one[second.key]) : x.due # second.due
      BY <1>4, <1>5, <3>1
    <3>4. /\ H!Offer(one[second.key], second) \in Seq(Timeout)
          /\ InSeq(H!Offer(one[second.key], second)) = InSeq(one[second.key]) \cup {second}
          /\ OneEach(H!Offer(one[second.key], second))
      BY <1>5, <3>1, <3>3, OfferKeeps
    <3>5. /\ map \in [Keys -> Seq(Timeout)]
          /\ \A key \in Keys : map[key] = IF key = second.key THEN H!Offer(one[second.key], second)
                                          ELSE one[key]
      BY <1>4, <3>1, <3>3, <3>4
    <3>6. \A key \in Keys : InSeq(map[key]) = {x \in {first, second} : x.key = key}
                            /\ OneEach(map[key])
      <4>1. ASSUME NEW key \in Keys, key = second.key
            PROVE  InSeq(map[key]) = {x \in {first, second} : x.key = key} /\ OneEach(map[key])
        BY <1>5, <3>4, <3>5, <4>1
      <4>2. ASSUME NEW key \in Keys, key # second.key
            PROVE  InSeq(map[key]) = {x \in {first, second} : x.key = key} /\ OneEach(map[key])
        BY <1>5, <3>5, <4>2
      <4>3. QED
        BY <4>1, <4>2
    <3>7. Differ(first, second) /\ Differ(second, first)
      BY <3>1 DEF Differ
    <3>8. second.id \in 1 .. MaxCalls
      BY <3>1
    <3>9. ids \in 1 .. MaxCalls /\ \A x \in InSeq(hp) : x.id \in 1 .. ids
      <4>1. 1 \in 1 .. 2 /\ 2 \in 1 .. 2
        OBVIOUS
      <4>2. ids \in 1 .. MaxCalls
        BY <3>1, <3>8
      <4>3. QED
        BY <3>1, <3>2, <4>1, <4>2
    <3>10. QED
      BY <3>2, <3>5, <3>6, <3>7, <3>9
  <2>3. QED
    BY <2>1, <2>2
<1>7. Types
  <2>1. ctrl \in Seq(Commands \cup {Stop}) /\ Len(ctrl) <= CtrlSz /\ now \in 0 .. MaxTime
        /\ ids \in 0 .. MaxCalls
    BY <1>2, <1>6
  <2>2. QED
    BY <1>2, <1>6, <2>1 DEF Types, TypeOK
<1>8. Stages
  BY <1>2 DEF Stages
<1>9. Pending = InSeq(hp) /\ Unmapping = {} /\ Served = {}
  BY <1>2 DEF Pending, Unmapping, Served
<1>10. \A c \in Clients : ~Coming(c)
  BY <1>2 DEF Coming, Stop, Command
<1>11. Live = InSeq(hp)
  BY <1>9, <1>10 DEF Live
<1>12. Queue /\ Holding
  BY <1>2 DEF Queue, Holding
<1>13. Both
  BY <1>6, <1>9 DEF Both
<1>14. Separate
  BY <1>6, <1>9, <1>10 DEF Separate
<1>15. Past
  BY <1>2, <1>6, <1>9, <1>11 DEF Past
<1>16. QED
  BY <1>7, <1>8, <1>12, <1>13, <1>14, <1>15 DEF IInv, CalmInv

(* Every step keeps the invariant.                                         *)
LEMMA StepIInv == IInv /\ [Next]_vars => IInv'
<1>1. ASSUME IInv, Next
      PROVE  IInv'
  <2>1. Types' /\ Stages' /\ plan' = plan
    BY <1>1, TypesStep DEF IInv, Next
  <2>2. ASSUME plan.calm
        PROVE  CalmInv'
    <3>1. Types /\ Stages /\ Queue /\ Holding /\ Both /\ Separate /\ Past
      BY <1>1, <2>2 DEF IInv, CalmInv
    <3>2. Queue'
      BY <1>1, <2>2, <3>1, QueueStep
    <3>3. Holding' /\ Both'
      BY <1>1, <2>2, <3>1, PlacesStep
    <3>4. Separate' /\ Past'
      BY <1>1, <2>1, <2>2, <3>1, PastStep
    <3>5. QED
      BY <3>2, <3>3, <3>4 DEF CalmInv
  <2>3. QED
    BY <2>1, <2>2 DEF IInv
<1>2. ASSUME IInv, UNCHANGED vars
      PROVE  IInv'
  <2>1. /\ plan' = plan /\ now' = now /\ hp' = hp /\ map' = map /\ held' = held /\ at' = at
        /\ cmd' = cmd /\ start' = start /\ ctrl' = ctrl /\ closed' = closed /\ stopped' = stopped
        /\ pc' = pc /\ req' = req /\ ids' = ids /\ fired' = fired /\ gone' = gone
        /\ freed' = freed /\ fault' = fault
    BY <1>2 DEF vars, heaps, loop, calls, history
  <2>2. Types' /\ Stages'
    BY <1>2, <2>1 DEF IInv, Types, TypeOK, Stages
  <2>3. Pending' = Pending /\ Unmapping' = Unmapping /\ Served' = Served
        /\ \A c \in Clients : Coming(c)' <=> Coming(c)
    BY <2>1 DEF Pending, Unmapping, Served, Coming
  <2>4. Live' = Live
    BY <2>1, <2>3 DEF Live
  <2>5. ASSUME plan.calm
        PROVE  CalmInv'
    <3>1. Queue /\ Holding /\ Both /\ Separate /\ Past
      BY <1>2, <2>5 DEF IInv, CalmInv
    <3>2. Queue' /\ Holding'
      BY <2>1, <3>1 DEF Queue, Holding, Underway
    <3>3. Both'
      BY <2>1, <2>3, <3>1 DEF Both
    <3>4. Separate'
      BY <2>1, <2>3, <3>1 DEF Separate, Differ
    <3>5. Past'
      BY <2>1, <2>3, <2>4, <3>1 DEF Past
    <3>6. QED
      BY <3>2, <3>3, <3>4, <3>5 DEF CalmInv
  <2>6. QED
    BY <2>1, <2>2, <2>5 DEF IInv
<1>3. QED
  BY <1>1, <1>2

(* The invariant holds in every plan.                                      *)
THEOREM Invariance == Spec => []IInv
<1>1. Init => IInv
  BY InitIInv
<1>2. IInv /\ [Next]_vars => IInv'
  BY StepIInv
<1>3. QED
  BY <1>1, <1>2, PTL DEF Spec

(* While clients only call when the main loop waits, however many there    *)
(* are: the main heap and the map hold the same timeouts whenever the main *)
(* loop waits, and nothing in use has been freed (cevf.c:690-699,          *)
(* :727-741, :867-884).                                                    *)
THEOREM StructuresAlwaysAgree == Spec => []StructuresAgree
<1>1. ASSUME IInv
      PROVE  StructuresAgree
  <2>1. TypeOK
    BY <1>1 DEF IInv, Types
  <2>2. ASSUME plan.calm
        PROVE  Mirrored /\ NoDangling
    <3>1. Holding /\ Both /\ Past /\ Stages /\ None \notin Timeout
      BY <1>1, <2>2, Basics DEF IInv, CalmInv
    <3>2. Mirrored
      <4>1. at = "wait" => Unmapping = {}
        BY DEF Unmapping
      <4>2. QED
        BY <3>1, <4>1 DEF Mirrored, Holding, Both
    <3>3. NoDangling
      <4>1. Unmapping \subseteq Pending /\ InSeq(hp) \subseteq Pending
        BY DEF Unmapping, Pending
      <4>2. Pending \cup UNION {InSeq(map[key]) : key \in Keys} \subseteq Live
        BY <3>1, <4>1 DEF Both, Live
      <4>3. QED
        BY <3>1, <4>2 DEF NoDangling, Past
    <3>4. QED
      BY <3>2, <3>3
  <2>3. QED
    BY <2>1, <2>2 DEF StructuresAgree
<1>2. QED
  BY <1>1, Invariance, PTL

(* A handler is called by Run alone, for the timeout that the main loop    *)
(* holds, which is due then.                                               *)
LEMMA OnlyRunFires ==
  ASSUME Types, Stages, [Next]_vars
  PROVE  \/ fired' = fired /\ ~(at \in {"run", "fire"} /\ at' \in {"drop", "free"})
         \/ /\ at \in {"run", "fire"} /\ fired' = fired \cup {held}
            /\ held \in Timeout /\ held \in Pending /\ now >= held.due
<1>1. CASE Run
  <2>1. CASE HandlerCancels
    BY <1>1, <2>1 DEF HandlerCancels, Die, loop, history
  <2>2. CASE ~HandlerCancels
    BY <1>1, <2>2, Basics DEF Run, Stages, Pending
  <2>3. QED
    BY <2>1, <2>2
<1>2. CASE Die
  BY <1>2 DEF Die, loop, history
<1>3. CASE LoopStep /\ ~Run /\ ~Die
  <2>1. BatchEmpty \/ BatchPeek \/ BatchPoll \/ NextPoll \/ Signal
        => at \notin {"run", "fire"} /\ fired' = fired
    BY DEF BatchEmpty, BatchPeek, BatchPoll, NextPoll, Signal, history
  <2>2. NextUnmap \/ TimedOut \/ Receive \/ ExecAdd
        => Die \/ (at \notin {"run", "fire"} /\ fired' = fired)
    BY DEF NextUnmap, TimedOut, Receive, ExecAdd, history
  <2>3. Drop \/ ReceiveStop \/ ExecDelete => Die \/ (at \notin {"run", "fire"} /\ fired' = fired)
    BY DEF Drop, ReceiveStop, ExecDelete
  <2>4. QED
    BY <1>3, <2>1, <2>2, <2>3 DEF LoopStep
<1>4. CASE Tick \/ Close \/ SendStop
  BY <1>4 DEF Tick, Close, SendStop, loop, history
<1>5. ASSUME NEW c \in plan.clients, Register(c) \/ Cancel(c) \/ ClientStep(c), ~Die
      PROVE  at' = at /\ fired' = fired
  <2>1. Register(c) \/ Cancel(c) => at' = at /\ fired' = fired
    BY DEF Register, Cancel, Begin, loop, history
  <2>2. ClientStep(c) => at' = at /\ fired' = fired
    BY <1>5 DEF ClientStep, Decide, Send, Wait, DirectMain, DirectMap, DirectCancel, Return,
                loop, history
  <2>3. QED
    BY <1>5, <2>1, <2>2
<1>6. CASE UNCHANGED vars
  BY <1>6 DEF vars, loop, history
<1>7. QED
  BY <1>1, <1>2, <1>3, <1>4, <1>5, <1>6 DEF Next

(* In calm plans no cancelled timeout fires, not even the one that the     *)
(* main loop was waiting for when the command came (cevf.c:1001-1004).     *)
THEOREM CancelledNeverFires == Spec => CancelIsFinal
<1>1. ASSUME IInv, [Next]_vars
      PROVE  plan.calm => FiresUncancelled
  <2> SUFFICES ASSUME plan.calm PROVE FiresUncancelled
    OBVIOUS
  <2>1. Types /\ Stages /\ Past
    BY <1>1 DEF IInv, CalmInv
  <2>2. fired' = fired \/ (fired' = fired \cup {held} /\ held \in Pending)
    BY <1>1, <2>1, OnlyRunFires
  <2>3. \A x \in Pending : x \notin gone
    BY <2>1 DEF Past, Live
  <2>4. QED
    BY <2>2, <2>3 DEF FiresUncancelled
<1>2. QED
  BY <1>1, Invariance, PTL DEF Spec, CancelIsFinal

(* In calm plans a handler runs at most once for each registration, and in *)
(* all plans, whatever races, never before its deadline (cevf.c:825,       *)
(* :992).                                                                  *)
THEOREM AlwaysFiresOnceInTime == Spec => FiresOnceInTime
<1>1. ASSUME IInv, [Next]_vars
      PROVE  (plan.calm => FiresFirstTime) /\ \A x \in fired' \ fired : now >= x.due
  <2>1. Types /\ Stages
    BY <1>1 DEF IInv
  <2>2. \A x \in fired' \ fired : now >= x.due
    BY <1>1, <2>1, OnlyRunFires
  <2>3. ASSUME plan.calm
        PROVE  FiresFirstTime
    <3>1. Past
      BY <1>1, <2>3 DEF IInv, CalmInv
    <3>2. at \in {"run", "fire"} /\ at' \in {"drop", "free"} => held \in Pending
      BY <1>1, <2>1, OnlyRunFires
    <3>3. at \in {"run", "fire"} => Served = {}
      BY DEF Served
    <3>4. QED
      BY <3>1, <3>2, <3>3 DEF FiresFirstTime, Past, Live
  <2>4. QED
    BY <2>2, <2>3
<1>2. [](IInv) /\ [][Next]_vars
      => [][plan.calm => FiresFirstTime]_vars /\ [][\A x \in fired' \ fired : now >= x.due]_vars
  BY <1>1, PTL
<1>3. QED
  BY <1>2, Invariance, PTL DEF Spec, FiresOnceInTime, NeverEarly
=============================================================================
