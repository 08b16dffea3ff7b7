-------------------------------- MODULE Heap --------------------------------
(***************************************************************************)
(* The array heap of src/src/utils/heap.c as operators on sequences: the   *)
(* largest item, by Cmp, is meant to be first.  Index 0 of the C array is  *)
(* index 1 here.  The capacity, which heap_offer doubles when it has to,   *)
(* is left out.                                                            *)
(***************************************************************************)
EXTENDS Integers, Sequences

CONSTANT Cmp(_, _)          (* the comparator: negative, zero or positive    *)

Parent(i) == i \div 2
Left(i) == 2 * i
Right(i) == 2 * i + 1

Swap(h, i, j) == [h EXCEPT ![i] = h[j], ![j] = h[i]]

(* A loop on an array and an index, run until nothing changes: on a heap   *)
(* of n items neither of the two loops below goes round n times.           *)
Loop(Body(_), h, i) ==
  LET run[n \in 0 .. Len(h)] ==
        IF n = 0 THEN [heap |-> h, at |-> i] ELSE Body(run[n - 1])
  IN  run[Len(h)].heap

(* One round of __pushup: equal items change places too.                   *)
UpStep(s) ==
  IF s.at = 1 \/ Cmp(s.heap[s.at], s.heap[Parent(s.at)]) < 0
  THEN s
  ELSE [heap |-> Swap(s.heap, s.at, Parent(s.at)), at |-> Parent(s.at)]

(* Mutant: an item goes up by one level only.                              *)
PushUpOnce(h, i) == UpStep([heap |-> h, at |-> i]).heap

PushUp(h, i) == Loop(UpStep, h, i)

(* One round of __pushdown.                                                *)
(* Mutant: the left child is taken for the biggest.                        *)
LeftChild(h, i) == Left(i)

BiggestChild(h, i) ==
  IF Right(i) <= Len(h) /\ Cmp(h[Left(i)], h[Right(i)]) < 0 THEN Right(i) ELSE Left(i)
DownStep(s) ==
  LET child == BiggestChild(s.heap, s.at)
  IN  IF Left(s.at) > Len(s.heap) \/ Cmp(s.heap[s.at], s.heap[child]) >= 0
      THEN s
      ELSE [heap |-> Swap(s.heap, s.at, child), at |-> child]
PushDown(h, i) == Loop(DownStep, h, i)

Offer(h, x) == PushUp(Append(h, x), Len(h) + 1)

(* heap_poll: the root leaves, the last item takes its place.              *)
MoveLastTo(h, i) == SubSeq([h EXCEPT ![i] = h[Len(h)]], 1, Len(h) - 1)
Poll(h) == PushDown(MoveLastTo(h, 1), 1)

(* __item_get_idx: the first item that compares equal, not the item itself.*)
Equals(h, x) == {i \in 1 .. Len(h) : Cmp(h[i], x) = 0}
IndexOf(h, x) == CHOOSE i \in Equals(h, x) : \A j \in Equals(h, x) : i <= j

(* heap_remove_item, of an item that is there.  After the last one of      *)
(* several has been replaced by itself and cut off, __pushup starts at an  *)
(* index outside the heap, where the NULL just written is compared.        *)
ComparesNull(h, x) == IndexOf(h, x) = Len(h) /\ Len(h) > 1
RemoveItem(h, x) ==
  LET i == IndexOf(h, x)
  IN  IF i = Len(h) THEN SubSeq(h, 1, i - 1) ELSE PushUp(MoveLastTo(h, i), i)

(* What the array has to satisfy for Poll to return the largest item.      *)
IsHeap(h) == \A i \in 2 .. Len(h) : Cmp(h[i], h[Parent(i)]) <= 0
=============================================================================
