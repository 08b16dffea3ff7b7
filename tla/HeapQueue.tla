------------------------------ MODULE HeapQueue ------------------------------
(***************************************************************************)
(* A heap (Heap, src/src/utils/heap.c) as its callers use it: any sequence *)
(* of offers, polls and removals, beside the bag of items it should hold.  *)
(* Items are ranked; several may have one rank, as timeouts may have one   *)
(* deadline.  Bound: at most MaxSize items at a time.                      *)
(***************************************************************************)
EXTENDS Integers, Sequences, FiniteSets

CONSTANTS MaxRank, Copies, MaxSize

(* What an instance has to give.                                           *)
HeapQueueParameters == MaxRank \in Nat /\ MaxSize \in Nat

Items == [rank : 1 .. MaxRank, copy : 1 .. Copies]
ByRank(a, b) == a.rank - b.rank
H == INSTANCE Heap WITH Cmp <- ByRank

VARIABLES heap,     (* the array                                            *)
          held,     (* history: the set of items the caller has put in      *)
          out,      (* the item the last poll or removal returned, or none  *)
          removed,  (* history: has an item been removed by name?           *)
          crashed   (* a removal has compared a NULL item                   *)

vars == <<heap, held, out, removed, crashed>>
Nothing == [rank |-> 0, copy |-> 0]

Init ==
  /\ heap = <<>> /\ held = {} /\ out = Nothing
  /\ removed = FALSE /\ crashed = FALSE

HeapOffer(x) ==
  /\ x \notin held
  /\ Len(heap) < MaxSize
  /\ heap' = H!Offer(heap, x)
  /\ held' = held \cup {x}
  /\ out' = Nothing
  /\ UNCHANGED <<removed, crashed>>

HeapPoll ==
  /\ heap # <<>>
  /\ out' = Head(heap)
  /\ heap' = H!Poll(heap)
  /\ held' = held \ {out'}
  /\ UNCHANGED <<removed, crashed>>

(* The comparison with NULL ends the program (ByRank reads its item).      *)
HeapRemoveItem(x) ==
  /\ H!Equals(heap, x) # {}
  /\ removed' = TRUE
  /\ IF H!ComparesNull(heap, x)
     THEN crashed' = TRUE /\ UNCHANGED <<heap, held, out>>
     ELSE /\ out' = heap[H!IndexOf(heap, x)]
          /\ heap' = H!RemoveItem(heap, x)
          /\ held' = held \ {out'}
          /\ UNCHANGED crashed

Next ==
  /\ ~crashed
  /\ \/ \E x \in Items : HeapOffer(x) \/ HeapRemoveItem(x)
     \/ HeapPoll

Spec == Init /\ [][Next]_vars
-----------------------------------------------------------------------------
Contents(h) == {h[i] : i \in 1 .. Len(h)}

TypeOK ==
  /\ heap \in Seq(Items) /\ Len(heap) <= MaxSize
  /\ held \subseteq Items
  /\ out \in Items \cup {Nothing}
  /\ removed \in BOOLEAN /\ crashed \in BOOLEAN

(* No item is lost or doubled by the swaps, whatever was removed before.   *)
HoldsItsItems == Contents(heap) = held /\ Len(heap) = Cardinality(held)

(* While nothing is removed by name, a poll returns an item of the highest *)
(* rank ("Remove the item with the top priority", heap.h:92).              *)
PollsTop == [][HeapPoll /\ ~removed => \A x \in held : x.rank <= out'.rank]_vars

(* Offers and polls keep the heap in order, with equal ranks, too.         *)
InOrder == ~removed => H!IsHeap(heap)

(* "ensure heap property" (heap.c:202): the array is a heap after every    *)
(* operation, removals included.                                           *)
HeapProperty == ~crashed => H!IsHeap(heap)
=============================================================================
