---------------------------- MODULE BoundedQueue ----------------------------
(***************************************************************************)
(* What the bounded message queue of src/src/utils/qmsg2.c promises to its  *)
(* callers: a FIFO of at most Capacity messages, on which every operation   *)
(* takes effect atomically at one moment between its call and its return.   *)
(* A soft enqueue may be refused, a timed poll may time out, a blocking     *)
(* wait may be interrupted; none of these three leaves a trace.             *)
(***************************************************************************)
EXTENDS Naturals, Sequences, FiniteSets

CONSTANTS Threads,   (* the callers                                         *)
          Msgs,      (* the messages; the C API passes them as void*        *)
          Null,      (* the message NULL: legal, it asks a loop to stop     *)
          Capacity   (* bufsz                                               *)

VARIABLES queue,     (* the messages, oldest first                          *)
          live,      (* FALSE once the queue is flushed and deleted         *)
          op,        (* op[t]: the operation t is in, "none" outside        *)
          status,    (* status[t]: "idle", "pending" or "done"              *)
          item,      (* item[t]: what t enqueues, or what it dequeued       *)
          res,       (* res[t]: the result of t's operation                 *)
          cnt        (* cnt[t]: what qmsg2_count tells t                    *)

bqvars == <<queue, live, op, status, item, res, cnt>>

EnqOps == {"enq", "enq_soft"}
DeqOps == {"deq", "poll", "poll_nointr"}
Ops == EnqOps \cup DeqOps \cup {"count"}
Results == {"ok", "interrupt", "softblocked", "timeout", "error"}

Init ==
  /\ queue = <<>>
  /\ live = TRUE
  /\ op = [t \in Threads |-> "none"]
  /\ status = [t \in Threads |-> "idle"]
  /\ item = [t \in Threads |-> Null]
  /\ res = [t \in Threads |-> "ok"]
  /\ cnt = [t \in Threads |-> 0]

Call(t, o, m) ==
  /\ live
  /\ status[t] = "idle"
  /\ op' = [op EXCEPT ![t] = o]
  /\ item' = [item EXCEPT ![t] = m]
  /\ status' = [status EXCEPT ![t] = "pending"]
  /\ UNCHANGED <<queue, live, res, cnt>>

(* The operation of t takes effect with result r.                          *)
Settle(t, r) ==
  /\ status[t] = "pending"
  /\ status' = [status EXCEPT ![t] = "done"]
  /\ res' = [res EXCEPT ![t] = r]

Enqueue(t) ==
  /\ op[t] \in EnqOps
  /\ Len(queue) < Capacity
  /\ queue' = Append(queue, item[t])
  /\ Settle(t, "ok")
  /\ UNCHANGED <<live, op, item, cnt>>

Dequeue(t) ==
  /\ op[t] \in DeqOps
  /\ queue # <<>>
  /\ item' = [item EXCEPT ![t] = Head(queue)]
  /\ queue' = Tail(queue)
  /\ Settle(t, "ok")
  /\ UNCHANGED <<live, op, cnt>>

(* Operations of others in flight that can hold a place of the queue.      *)
InFlight(t) ==
  {u \in Threads \ {t} : \/ status[u] = "pending" /\ op[u] \in EnqOps
                         \/ status[u] = "done" /\ op[u] \in DeqOps}

(* A soft enqueue is refused only if the queue and the operations in       *)
(* flight fill the capacity between them.                                  *)
Refuse(t) ==
  /\ op[t] = "enq_soft"
  /\ Len(queue) + Cardinality(InFlight(t)) >= Capacity
  /\ Settle(t, "softblocked")
  /\ UNCHANGED <<queue, live, op, item, cnt>>

GiveUp(t) ==
  /\ \/ op[t] \in {"poll", "poll_nointr"} /\ Settle(t, "timeout")
     \/ op[t] = "poll" /\ Settle(t, "interrupt")
     \/ op[t] \in {"enq", "deq"} /\ Settle(t, "error")
  /\ UNCHANGED <<queue, live, op, item, cnt>>

(* qmsg2_count tells the length, except that a full queue counts as empty. *)
Count(t) ==
  /\ op[t] = "count"
  /\ cnt' = [cnt EXCEPT ![t] = IF Len(queue) = Capacity THEN 0 ELSE Len(queue)]
  /\ Settle(t, "ok")
  /\ UNCHANGED <<queue, live, op, item>>

Return(t) ==
  /\ status[t] = "done"
  /\ status' = [status EXCEPT ![t] = "idle"]
  /\ op' = [op EXCEPT ![t] = "none"]
  /\ item' = [item EXCEPT ![t] = Null]
  /\ res' = [res EXCEPT ![t] = "ok"]
  /\ cnt' = [cnt EXCEPT ![t] = 0]
  /\ UNCHANGED <<queue, live>>

(* Flushed and deleted by cevf_deinit when nobody is left to use it.       *)
Dispose ==
  /\ live
  /\ \A t \in Threads : status[t] = "idle"
  /\ live' = FALSE
  /\ queue' = <<>>
  /\ UNCHANGED <<op, status, item, res, cnt>>

Next ==
  \/ \E t \in Threads :
       \/ \E o \in Ops, m \in Msgs \cup {Null} : Call(t, o, m)
       \/ Enqueue(t) \/ Dequeue(t) \/ Count(t)
       \/ Refuse(t) \/ GiveUp(t) \/ Return(t)
  \/ Dispose

Spec == Init /\ [][Next]_bqvars
=============================================================================
