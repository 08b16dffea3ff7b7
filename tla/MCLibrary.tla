------------------------------ MODULE MCLibrary ------------------------------
(***************************************************************************)
(* Instances for TLC of the dynamic threads with their table of ids, and   *)
(* of the hash table, the heap and the time arithmetic.  They share        *)
(* nothing, so a behaviour is one of a single component, chosen at the     *)
(* start; the others stay as they began.                                   *)
(***************************************************************************)
EXTENDS Threads, TLC

CONSTANTS c1, c2,                                         (* of Threads    *)
          k1, k2, k3, Keys, NoKey, Values, Hash, TombValue,
          DefaultCapacity, MaxVisits, MaxCapacity,        (* of HashMap    *)
          MaxRank, Copies, MaxSize,                       (* of HeapQueue  *)
          NSec, MSec, USec, Operands, MaxSec              (* of Times      *)

VARIABLES part,                                (* the component that moves  *)
          m, answer,                           (* of HashMap                *)
          heap, held, out, removed, crashed,   (* of HeapQueue              *)
          acc, exact, arg                      (* of Times                  *)

(* Three threads and one client, or two of each.                           *)
ThreeThreads == 1 .. 3
TwoPlans == {[calls |-> c1 :> 4 @@ c2 :> 0, threads |-> 3],
             [calls |-> c1 :> 2 @@ c2 :> 2, threads |-> 2]}

(* Two keys that collide, and one whose probes wrap around the table.      *)
ThreeKeys == {k1, k2, k3}
TheirHash == k1 :> 0 @@ k2 :> 0 @@ k3 :> 3

(* Both signs, and less and more than a second of nanoseconds.             *)
MixedOperands == [sec : -2 .. 2, nsec : {-13, -4, -1, 0, 1, 3, 4, 8, 9}]

H == INSTANCE HashMap
Q == INSTANCE HeapQueue
N == INSTANCE Times
ASSUME HashMapAssumption == H!HashMapParameters
ASSUME HeapQueueAssumption == Q!HeapQueueParameters
ASSUME TimesAssumption == N!TimesParameters

map == <<m, answer>>
queue == <<heap, held, out, removed, crashed>>
times == <<acc, exact, arg>>
all == <<part, vars, map, queue, times>>

(* What another part would choose is fixed.                                *)
LibraryInit ==
  /\ part \in {"threads", "map", "heap", "times"}
  /\ Init /\ H!Init /\ Q!Init /\ N!Init
  /\ part = "threads" \/ left.threads = 2
LibraryNext ==
  /\ UNCHANGED part
  /\ \/ part = "threads" /\ Next /\ UNCHANGED <<map, queue, times>>
     \/ part = "map" /\ H!Next /\ UNCHANGED <<vars, queue, times>>
     \/ part = "heap" /\ Q!Next /\ UNCHANGED <<vars, map, times>>
     \/ part = "times" /\ N!Next /\ UNCHANGED <<vars, map, queue>>

(* Callers inside ev_rm_th and ev_deinit run, and a thread returns once    *)
(* its terminator has been called.                                         *)
ThreadsFairness ==
  LET Runs(A) == part = "threads" /\ A /\ UNCHANGED <<part, map, queue, times>>
  IN  /\ \A c \in Callers : WF_all(Runs(CallStep(c)))
      /\ \A t \in Threads : WF_all(Runs(ThreadEnds(t))) /\ WF_all(Runs(told[t] /\ Return(t)))
      /\ WF_all(Runs(Deinit))

LibrarySpec == LibraryInit /\ [][LibraryNext]_all /\ ThreadsFairness

(* The hash table keeps its counters and its list of buckets, and always a *)
(* bucket that ends a search, through tombstones and resizing.             *)
TableSound == H!TypeOK /\ H!SearchEnds /\ H!ListAndCounters

(* The table is a dictionary, whatever collides and is removed.            *)
ImplementsDictionary == H!ImplementsDictionary

(* The heap loses and doubles nothing, and is in order until the first     *)
(* removal by item; then the top is polled.                                *)
HeapSound == Q!TypeOK /\ Q!HoldsItsItems /\ Q!InOrder
PollsTop == Q!PollsTop

(* Sums, differences, remainders, conversions and comparisons of times are *)
(* those of whole numbers of nanoseconds.                                  *)
TimesExact == N!TypeOK /\ N!ArithmeticExact /\ N!OrderAgrees
=============================================================================
