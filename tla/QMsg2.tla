------------------------------- MODULE QMsg2 -------------------------------
(***************************************************************************)
(* The bounded multi-producer multi-consumer queue of                      *)
(* src/src/utils/qmsg2.c, one action per synchronisation step: a semaphore *)
(* of empty slots, a semaphore of full slots, a mutex, and a ring buffer   *)
(* with two indices.  Every caller is a thread that runs one operation at  *)
(* a time:                                                                 *)
(*                                                                         *)
(*   idle -> wait -> lock -> crit -> post -> ret -> idle                   *)
(*                                                                         *)
(* where wait is the semaphore (sem_wait, sem_trywait, sem_timedwait),     *)
(* crit is the critical section with the unlock that ends it, and post is  *)
(* the sem_post on the other semaphore.                                    *)
(***************************************************************************)
EXTENDS Integers, Sequences, FiniteSets

CONSTANTS Threads,   (* the callers                                         *)
          Msgs,      (* messages other than NULL                            *)
          Null,      (* NULL: an empty slot, and also a legal message       *)
          BufSz,     (* bufsz, sz of qmsg2_new_mq                           *)
          MayCall,   (* MayCall[t]: the operations thread t ever calls      *)
          NoOne      (* the owner of a free mutex                           *)

EnqOps == {"enq", "enq_soft"}
DeqOps == {"deq", "poll", "poll_nointr"}
Ops == EnqOps \cup DeqOps \cup {"count"}
Results == {"ok", "interrupt", "softblocked", "timeout", "error"}
PCs == {"idle", "wait", "lock", "crit", "post", "ret"}
Slots == 0 .. BufSz - 1
Items == Msgs \cup {Null}

(* qmsg2_new_mq refuses sz < 1 (qmsg2.c:66).                               *)
ASSUME BufSzAssumption == BufSz \in Nat \ {0}
ASSUME ThreadsAssumption == IsFiniteSet(Threads) /\ NoOne \notin Threads
ASSUME MayCallAssumption == MayCall \in [Threads -> SUBSET Ops]

VARIABLES buffer, inserts, removes,  (* the ring buffer and its indices     *)
          mutex,                     (* who holds mq->mutex                 *)
          empty, full,               (* the values of the two semaphores    *)
          live,                      (* FALSE once flushed and deleted      *)
          pc, op, item, res, cnt     (* the callers                         *)

ring == <<buffer, inserts, removes>>
vars == <<ring, mutex, empty, full, live, pc, op, item, res, cnt>>

(* Mutant: the semaphore of empty slots starts one too high.               *)
InitSemTooHigh ==
  /\ buffer = [i \in Slots |-> Null] /\ inserts = 0 /\ removes = 0
  /\ mutex = NoOne /\ empty = BufSz + 1 /\ full = 0 /\ live = TRUE
  /\ pc = [t \in Threads |-> "idle"] /\ op = [t \in Threads |-> "none"]
  /\ item = [t \in Threads |-> Null] /\ res = [t \in Threads |-> "ok"]
  /\ cnt = [t \in Threads |-> 0]

Init ==
  /\ buffer = [i \in Slots |-> Null]
  /\ inserts = 0
  /\ removes = 0
  /\ mutex = NoOne
  /\ empty = BufSz
  /\ full = 0
  /\ live = TRUE
  /\ pc = [t \in Threads |-> "idle"]
  /\ op = [t \in Threads |-> "none"]
  /\ item = [t \in Threads |-> Null]
  /\ res = [t \in Threads |-> "ok"]
  /\ cnt = [t \in Threads |-> 0]

Goto(t, label) == pc' = [pc EXCEPT ![t] = label]

Call(t, o, m) ==
  /\ live
  /\ pc[t] = "idle"
  /\ Goto(t, IF o = "count" THEN "lock" ELSE "wait")
  /\ op' = [op EXCEPT ![t] = o]
  /\ item' = [item EXCEPT ![t] = m]
  /\ UNCHANGED <<ring, mutex, empty, full, live, res, cnt>>

(* Mutant: a soft enqueue looks at the semaphore without taking from it.   *)
EnqWaitWithoutClaim(t) ==
  /\ pc[t] = "wait" /\ op[t] \in EnqOps /\ empty > 0
  /\ empty' = IF op[t] = "enq" THEN empty - 1 ELSE empty
  /\ Goto(t, "lock")
  /\ UNCHANGED <<ring, mutex, full, live, op, item, res, cnt>>

(* A semaphore operation that succeeds claims a slot (enq) or a message.   *)
EnqWait(t) ==
  /\ pc[t] = "wait"
  /\ op[t] \in EnqOps
  /\ empty > 0
  /\ empty' = empty - 1
  /\ Goto(t, "lock")
  /\ UNCHANGED <<ring, mutex, full, live, op, item, res, cnt>>

DeqWait(t) ==
  /\ pc[t] = "wait"
  /\ op[t] \in DeqOps
  /\ full > 0
  /\ full' = full - 1
  /\ Goto(t, "lock")
  /\ UNCHANGED <<ring, mutex, empty, live, op, item, res, cnt>>

Fail(t, r) ==
  /\ pc[t] = "wait"
  /\ Goto(t, "ret")
  /\ res' = [res EXCEPT ![t] = r]
  /\ UNCHANGED <<ring, mutex, empty, full, live, op, item, cnt>>

(* sem_trywait fails with EAGAIN.                                          *)
Softblock(t) ==
  /\ op[t] = "enq_soft"
  /\ empty = 0
  /\ Fail(t, "softblocked")

(* sem_timedwait fails with ETIMEDOUT; a post may slip in just before.     *)
Timeout(t) ==
  /\ op[t] \in {"poll", "poll_nointr"}
  /\ Fail(t, "timeout")

(* A signal handler interrupts the wait: EINTR.  qmsg2_poll2_nointr waits  *)
(* again, so for it there is no step.                                      *)
Interrupt(t) ==
  \/ op[t] = "poll" /\ Fail(t, "interrupt")
  \/ op[t] \in {"enq", "deq"} /\ Fail(t, "error")

Lock(t) ==
  /\ pc[t] = "lock"
  /\ mutex = NoOne
  /\ mutex' = t
  /\ Goto(t, "crit")
  /\ UNCHANGED <<ring, empty, full, live, op, item, res, cnt>>

(* Mutant: the index of enqueues wraps one slot late.                      *)
EnqBodyWrapsLate(t) ==
  /\ pc[t] = "crit" /\ op[t] \in EnqOps
  /\ buffer' = [buffer EXCEPT ![inserts] = item[t]]
  /\ inserts' = (inserts + 1) % (BufSz + 1)
  /\ mutex' = NoOne /\ Goto(t, "post")
  /\ UNCHANGED <<removes, empty, full, live, op, item, res, cnt>>

EnqBody(t) ==
  /\ pc[t] = "crit"
  /\ op[t] \in EnqOps
  /\ buffer' = [buffer EXCEPT ![inserts] = item[t]]
  /\ inserts' = (inserts + 1) % BufSz
  /\ mutex' = NoOne
  /\ Goto(t, "post")
  /\ UNCHANGED <<removes, empty, full, live, op, item, res, cnt>>

(* Mutant: the index of dequeues does not wrap.                            *)
DeqBodyWithoutWrap(t) ==
  /\ pc[t] = "crit" /\ op[t] \in DeqOps
  /\ item' = [item EXCEPT ![t] = buffer[removes]]
  /\ buffer' = [buffer EXCEPT ![removes] = Null]
  /\ removes' = removes + 1
  /\ mutex' = NoOne /\ Goto(t, "post")
  /\ UNCHANGED <<inserts, empty, full, live, op, res, cnt>>

DeqBody(t) ==
  /\ pc[t] = "crit"
  /\ op[t] \in DeqOps
  /\ item' = [item EXCEPT ![t] = buffer[removes]]
  /\ buffer' = [buffer EXCEPT ![removes] = Null]
  /\ removes' = (removes + 1) % BufSz
  /\ mutex' = NoOne
  /\ Goto(t, "post")
  /\ UNCHANGED <<inserts, empty, full, live, op, res, cnt>>

(* Mutant: equal indices are taken for a full queue.                       *)
CountBodyFullWhenEqual(t) ==
  /\ pc[t] = "crit" /\ op[t] = "count"
  /\ cnt' = [cnt EXCEPT ![t] = IF inserts > removes THEN inserts - removes
                               ELSE BufSz - removes + inserts]
  /\ mutex' = NoOne /\ Goto(t, "ret") /\ res' = [res EXCEPT ![t] = "ok"]
  /\ UNCHANGED <<ring, empty, full, live, op, item>>

CountBody(t) ==
  /\ pc[t] = "crit"
  /\ op[t] = "count"
  /\ cnt' = [cnt EXCEPT ![t] = IF inserts >= removes
                               THEN inserts - removes
                               ELSE BufSz - removes + inserts]
  /\ mutex' = NoOne
  /\ Goto(t, "ret")
  /\ res' = [res EXCEPT ![t] = "ok"]
  /\ UNCHANGED <<ring, empty, full, live, op, item>>

EnqPost(t) ==
  /\ pc[t] = "post"
  /\ op[t] \in EnqOps
  /\ full' = full + 1
  /\ Goto(t, "ret")
  /\ res' = [res EXCEPT ![t] = "ok"]
  /\ UNCHANGED <<ring, mutex, empty, live, op, item, cnt>>

(* Mutant: the slot is not given back.                                     *)
DeqPostForgotten(t) ==
  /\ pc[t] = "post" /\ op[t] \in DeqOps
  /\ Goto(t, "ret") /\ res' = [res EXCEPT ![t] = "ok"]
  /\ UNCHANGED <<ring, mutex, empty, full, live, op, item, cnt>>

DeqPost(t) ==
  /\ pc[t] = "post"
  /\ op[t] \in DeqOps
  /\ empty' = empty + 1
  /\ Goto(t, "ret")
  /\ res' = [res EXCEPT ![t] = "ok"]
  /\ UNCHANGED <<ring, mutex, full, live, op, item, cnt>>

(* The caller takes the result; the operation's locals are gone.           *)
Return(t) ==
  /\ pc[t] = "ret"
  /\ Goto(t, "idle")
  /\ op' = [op EXCEPT ![t] = "none"]
  /\ item' = [item EXCEPT ![t] = Null]
  /\ res' = [res EXCEPT ![t] = "ok"]
  /\ cnt' = [cnt EXCEPT ![t] = 0]
  /\ UNCHANGED <<ring, mutex, empty, full, live>>

(* qmsg2_flush, which cevf_deinit calls right before qmsg2_del_mq once all *)
(* threads have been joined; it leaves the semaphores as they are.         *)
Flush ==
  /\ live
  /\ \A t \in Threads : pc[t] = "idle"
  /\ buffer' = [i \in Slots |-> Null]
  /\ inserts' = 0
  /\ removes' = 0
  /\ live' = FALSE
  /\ UNCHANGED <<mutex, empty, full, pc, op, item, res, cnt>>

Step(t) ==
  \/ EnqWait(t) \/ DeqWait(t) \/ Softblock(t)
  \/ Lock(t) \/ EnqBody(t) \/ DeqBody(t) \/ CountBody(t)
  \/ EnqPost(t) \/ DeqPost(t) \/ Return(t)

Calls(t) ==
  \E o \in MayCall[t] : \E m \in (IF o \in EnqOps THEN Items ELSE {Null}) : Call(t, o, m)

Next ==
  \/ \E t \in Threads : Calls(t) \/ Step(t) \/ Timeout(t) \/ Interrupt(t)
  \/ Flush

Spec == Init /\ [][Next]_vars
-----------------------------------------------------------------------------
TypeOK ==
  /\ buffer \in [Slots -> Items]
  /\ inserts \in Slots
  /\ removes \in Slots
  /\ mutex \in Threads \cup {NoOne}
  /\ empty \in Nat
  /\ full \in Nat
  /\ live \in BOOLEAN
  /\ pc \in [Threads -> PCs]
  /\ op \in [Threads -> Ops \cup {"none"}]
  /\ item \in [Threads -> Items]
  /\ res \in [Threads -> Results]
  /\ cnt \in [Threads -> Nat]

(* The threads between a semaphore operation and its counterpart.          *)
At(labels, ops) == {t \in Threads : pc[t] \in labels /\ op[t] \in ops}
EnqClaimed == At({"lock", "crit"}, EnqOps)   (* own a slot, not written yet *)
EnqWritten == At({"post"}, EnqOps)           (* written, not announced yet  *)
DeqClaimed == At({"lock", "crit"}, DeqOps)   (* own a message, not read yet *)
DeqRead    == At({"post"}, DeqOps)           (* read, slot not returned yet *)

(* The number of messages written and not read.                            *)
Stored == full + Cardinality(DeqClaimed) + Cardinality(EnqWritten)

(* The slot of the i-th oldest message, counting from 0.                   *)
SlotOf(i) == (removes + i) % BufSz
Queue == IF live THEN [i \in 1 .. Stored |-> buffer[SlotOf(i - 1)]] ELSE <<>>

(* Every slot is accounted for once: free, claimed by an enqueuer, holding *)
(* a message, or read by a dequeuer that has not given it back (the two    *)
(* semaphores and the mutex of qmsg2_enq and qmsg2_deq work together).     *)
SlotAccounting ==
  live => empty + Cardinality(EnqClaimed) + Stored + Cardinality(DeqRead) = BufSz

(* The two indices, wrapped modulo bufsz, stay as far apart as the number  *)
(* of messages the semaphores say there are (qmsg2.c:87, :161).            *)
IndexAgreement == live => inserts = SlotOf(Stored)

(* An enqueuer never overwrites a message that nobody has read, and a      *)
(* dequeuer never takes a slot that nobody has written.                    *)
SlotSafety ==
  \A t \in Threads : pc[t] = "crit" =>
    /\ op[t] \in EnqOps => \A i \in 0 .. Stored - 1 : inserts # SlotOf(i)
    /\ op[t] \in DeqOps => Stored > 0

(* How the callers' positions relate to the rest of the state; with the    *)
(* two invariants above it is inductive (QMsg2Proofs).                     *)
Control ==
  /\ ~live => \A t \in Threads : pc[t] = "idle"
  /\ \A t \in Threads :
       /\ pc[t] = "idle" <=> op[t] = "none"
       /\ pc[t] \in {"wait", "post"} => op[t] \in EnqOps \cup DeqOps
       /\ pc[t] = "crit" <=> mutex = t
IInv == TypeOK /\ Control /\ SlotAccounting /\ IndexAgreement

(* The queue implements the abstract FIFO: an operation takes effect in    *)
(* its critical section.                                                   *)
Status(t) == CASE pc[t] = "idle" -> "idle"
               [] pc[t] \in {"wait", "lock", "crit"} -> "pending"
               [] OTHER -> "done"
Outcome(t) == IF pc[t] = "post" THEN "ok" ELSE res[t]

BQ == INSTANCE BoundedQueue
        WITH Capacity <- BufSz,
             queue <- Queue,
             status <- [t \in Threads |-> Status(t)],
             res <- [t \in Threads |-> Outcome(t)]
ImplementsFIFO == BQ!Spec
-----------------------------------------------------------------------------
(* Weak fairness of every thread inside an operation, and of the callers   *)
(* that dequeue: a consumer loop (cevf.c:274) always comes back for more.  *)
(* A timeout or an interruption need never happen, but neither can hit a   *)
(* consumer every time: sem_wait does not wait when the semaphore is       *)
(* positive, so one that keeps coming back gets through (strong fairness). *)
Fairness ==
  /\ \A t \in Threads : WF_vars(Step(t)) /\ SF_vars(DeqWait(t))
  /\ \A t \in Threads : MayCall[t] \cap DeqOps # {} => WF_vars(Calls(t))
FairSpec == Spec /\ Fairness

(* No slot is ever lost: whenever the queue has no free slot one is given  *)
(* back later, so a blocked enqueue is never the end of the story.         *)
SlotsComeBack == empty = 0 ~> (empty > 0 \/ ~live)

=============================================================================
