------------------------------ MODULE MCQMsg2 ------------------------------
(* The callers of the queue for TLC: two that enqueue, two that dequeue.   *)
EXTENDS QMsg2, TLC

CONSTANTS p1, p2, c1, c2

(* Every operation, spread over the callers; one of them also counts, as   *)
(* cevf_is_idle does.                                                      *)
SafetyCallers == p1 :> {"enq", "enq_soft"} @@ p2 :> {"enq"}
                 @@ c1 :> {"deq"} @@ c2 :> {"poll", "poll_nointr", "count"}

(* Without a counting thread: it could take the mutex again and again      *)
(* ahead of the others, which a default pthread mutex does not exclude.    *)
LiveCallers == p1 :> {"enq_soft"} @@ p2 :> {"enq"}
               @@ c1 :> {"deq"} @@ c2 :> {"poll"}
=============================================================================
