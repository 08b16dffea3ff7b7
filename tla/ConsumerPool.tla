---------------------------- MODULE ConsumerPool ----------------------------
(***************************************************************************)
(* The consumer threads of cevf, the event queue data_mq in front of them, *)
(* and the shutdown that ends them: cevf_run starts NC consumers and NP    *)
(* producers; after cevf_terminate the main thread leaves its loop and     *)
(* ev_join sends one THEND message per consumer, then joins every thread.  *)
(* Code: src/src/cevf.c (data_mq, consumers, cevf_run, cevf_terminate) and *)
(* src/src/cevf_ev.c (thread registry).                                    *)
(*                                                                         *)
(* data_mq is a FIFO of Cap messages with blocking and soft enqueues, as   *)
(* QMsg2 implements it: a slot is free again only when the dequeuer posts. *)
(* Bound: the application starts at most MaxCalls enqueues.                *)
(***************************************************************************)
EXTENDS Integers, Sequences, FiniteSets

CONSTANTS NC,               (* cm_thr_cnt, consumer threads                 *)
          NP,               (* pd_num, static producers                     *)
          Cap,              (* evqsz, size of data_mq                       *)
          MaxCalls,         (* bound on the application's enqueues          *)
          HandlersEnqueue   (* do event handlers enqueue events themselves? *)

(* cevf_run replaces a count of 0 consumers and cevf_init a size below 2.  *)
ASSUME SizesAssumption ==
  NC \in Nat \ {0} /\ NP \in Nat /\ Cap \in Nat \ {0, 1} /\ MaxCalls \in Nat
ASSUME HandlersAssumption == HandlersEnqueue \in BOOLEAN

(* Threads are numbered in the order cevf_run_ev creates them.             *)
Main == 0
Consumers == 1 .. NC
Producers == NC + 1 .. NC + NP
Started == 1 .. NC + NP
Threads == 0 .. NC + NP

VARIABLES
  queue,    (* data_mq: events and THEND messages                           *)
  free,     (* its semaphore of free slots                                  *)
  closed,   (* data_mq_closed                                               *)
  cnt,      (* m_thfunc_cnt of the consumer loop                            *)
  seen,     (* seen[t]: the count as t read it (ans of th_cnt_inc, _dec)    *)
  term,     (* term[t]: has the terminator of t not been taken yet?         *)
  pc,       (* where each thread is                                         *)
  call,     (* the step of the enqueue it is in, "none" outside             *)
  held,     (* held[c]: the message consumer c has dequeued                 *)
  k,        (* the next thread of the loops of ev_join                      *)
  calls,    (* application enqueues so far                                  *)
  sent,     (* history: THEND messages accepted by the queue                *)
  drops,    (* history: THEND messages refused by the queue                 *)
  lost      (* history: an update of cnt has overwritten another            *)

reg == <<cnt, seen, lost>>
vars == <<queue, free, closed, reg, term, pc, call, held, k, calls, sent, drops>>

(* An event is early if it was accepted before any THEND.                  *)
Messages == {"early", "late", "thend"}

(* Initialisers may have left events in the queue (soft enqueues).         *)
Init ==
  /\ \E n \in 0 .. Cap : queue = [i \in 1 .. n |-> "early"] /\ free = Cap - n
  /\ closed = FALSE
  /\ cnt = 0
  /\ seen = [t \in Threads |-> 0]
  /\ term = [t \in Threads |-> t # Main]
  /\ pc = [t \in Threads |-> IF t \in Consumers THEN "new" ELSE "run"]
  /\ call = [t \in Threads |-> "none"]
  /\ held = [t \in Threads |-> "none"]
  /\ k = NC + NP
  /\ calls = 0
  /\ sent = 0
  /\ drops = 0
  /\ lost = FALSE

Goto(t, label) == pc' = [pc EXCEPT ![t] = label]
SetCall(t, step) == call' = [call EXCEPT ![t] = step]
-----------------------------------------------------------------------------
(* Enqueueing.  The application enqueues from producers and, where they    *)
(* do, from event handlers; a thread elsewhere enqueues a THEND.           *)
InApplication(t) == (t \in Producers /\ pc[t] = "run") \/ pc[t] = "handle"
Message(t) == IF ~InApplication(t) THEN "thend" ELSE IF sent = 0 THEN "early" ELSE "late"

(* cevf_generic_enqueue, cevf_copy_enqueue, and cevf_copy_enqueue_soft,    *)
(* which ignores its soft argument (cevf.c:177); cevf_generic_enqueue_soft.*)
CallEnqueue(t) ==
  /\ InApplication(t)
  /\ t \in Consumers => HandlersEnqueue
  /\ call[t] = "none"
  /\ calls < MaxCalls
  /\ calls' = calls + 1
  /\ \E step \in {"check", "checksoft"} : SetCall(t, step)
  /\ UNCHANGED <<queue, free, closed, reg, term, pc, held, k, sent, drops>>

(* Mutant: the enqueue does not look at data_mq_closed.                    *)
CheckClosedIgnored(t) ==
  /\ call[t] \in {"check", "checksoft"}
  /\ SetCall(t, IF call[t] = "check" THEN "choose" ELSE "try")
  /\ UNCHANGED <<queue, free, closed, reg, term, pc, held, k, calls, sent, drops>>

CheckClosed(t) ==
  /\ call[t] \in {"check", "checksoft"}
  /\ SetCall(t, IF closed THEN "none" ELSE IF call[t] = "check" THEN "choose" ELSE "try")
  /\ UNCHANGED <<queue, free, closed, reg, term, pc, held, k, calls, sent, drops>>

(* Mutant: one running consumer is not enough to block.                    *)
ChooseModeOffByOne(t) ==
  /\ call[t] = "choose"
  /\ SetCall(t, IF cnt > 1 THEN "block" ELSE "try")
  /\ UNCHANGED <<queue, free, closed, reg, term, pc, held, k, calls, sent, drops>>

(* _cevf_evq_enqueue blocks only if it sees a running consumer.            *)
ChooseMode(t) ==
  /\ call[t] = "choose"
  /\ SetCall(t, IF cnt > 0 THEN "block" ELSE "try")
  /\ UNCHANGED <<queue, free, closed, reg, term, pc, held, k, calls, sent, drops>>

Put(t) ==
  /\ call[t] \in {"block", "try"}
  /\ free > 0
  /\ free' = free - 1
  /\ queue' = Append(queue, Message(t))
  /\ sent' = IF Message(t) = "thend" THEN sent + 1 ELSE sent
  /\ SetCall(t, "none")
  /\ UNCHANGED <<closed, reg, term, pc, held, k, calls, drops>>

(* A refused THEND is lost: the terminator ignores the result (cevf.c:265).*)
Refuse(t) ==
  /\ call[t] = "try"
  /\ free = 0
  /\ drops' = IF Message(t) = "thend" THEN drops + 1 ELSE drops
  /\ SetCall(t, "none")
  /\ UNCHANGED <<queue, free, closed, reg, term, pc, held, k, calls, sent>>

EnqueueStep(t) == CheckClosed(t) \/ ChooseMode(t) \/ Put(t) \/ Refuse(t)
-----------------------------------------------------------------------------
(* A consumer thread: ev_generic_thread_f around the consumer loop.        *)
(* th_cnt_inc reads and writes the count in two critical sections.         *)
IncRead(c) ==
  /\ pc[c] = "new"
  /\ seen' = [seen EXCEPT ![c] = cnt]
  /\ Goto(c, "inc")
  /\ UNCHANGED <<queue, free, closed, cnt, lost, term, call, held, k, calls, sent, drops>>

IncWrite(c) ==
  /\ pc[c] = "inc"
  /\ cnt' = seen[c] + 1
  /\ lost' = (lost \/ cnt # seen[c])
  /\ Goto(c, "loop")
  /\ UNCHANGED <<queue, free, closed, seen, term, call, held, k, calls, sent, drops>>

Take(c) ==
  /\ pc[c] = "loop"
  /\ queue # <<>>
  /\ held' = [held EXCEPT ![c] = Head(queue)]
  /\ queue' = Tail(queue)
  /\ Goto(c, "give")
  /\ UNCHANGED <<free, closed, reg, term, call, k, calls, sent, drops>>

(* Mutant: the loop ends as soon as the program terminates.                *)
GiveStopsWhenClosed(c) ==
  /\ pc[c] = "give"
  /\ free' = free + 1
  /\ Goto(c, IF held[c] = "thend" \/ closed THEN "left" ELSE "handle")
  /\ held' = [held EXCEPT ![c] = "none"]
  /\ UNCHANGED <<queue, closed, reg, term, call, k, calls, sent, drops>>

(* The dequeue posts the slot; a THEND ends the loop.                      *)
Give(c) ==
  /\ pc[c] = "give"
  /\ free' = free + 1
  /\ Goto(c, IF held[c] = "thend" THEN "left" ELSE "handle")
  /\ held' = [held EXCEPT ![c] = "none"]
  /\ UNCHANGED <<queue, closed, reg, term, call, k, calls, sent, drops>>

(* The handlers of the event and the global ones have run.                 *)
Handled(c) ==
  /\ pc[c] = "handle"
  /\ call[c] = "none"
  /\ Goto(c, "loop")
  /\ UNCHANGED <<queue, free, closed, reg, term, call, held, k, calls, sent, drops>>

(* Mutant: the terminator is called but not taken.                         *)
TakeOwnTerminatorKept(c) ==
  /\ pc[c] = "left"
  /\ SetCall(c, IF term[c] THEN "choose" ELSE "none")
  /\ Goto(c, "dec")
  /\ UNCHANGED <<queue, free, closed, reg, term, held, k, calls, sent, drops>>

(* A thread that ends takes its terminator, and calls it unless ev_join    *)
(* was first (term_mut makes this one step).                               *)
TakeOwnTerminator(c) ==
  /\ pc[c] = "left"
  /\ term' = [term EXCEPT ![c] = FALSE]
  /\ SetCall(c, IF term[c] THEN "choose" ELSE "none")
  /\ Goto(c, "dec")
  /\ UNCHANGED <<queue, free, closed, reg, held, k, calls, sent, drops>>

DecRead(c) ==
  /\ pc[c] = "dec"
  /\ call[c] = "none"
  /\ seen' = [seen EXCEPT ![c] = cnt]
  /\ Goto(c, IF cnt = 0 THEN "done" ELSE "decw")
  /\ UNCHANGED <<queue, free, closed, cnt, lost, term, call, held, k, calls, sent, drops>>

DecWrite(c) ==
  /\ pc[c] = "decw"
  /\ cnt' = seen[c] - 1
  /\ lost' = (lost \/ cnt # seen[c])
  /\ Goto(c, "done")
  /\ UNCHANGED <<queue, free, closed, seen, term, call, held, k, calls, sent, drops>>

ConsumerStep(c) ==
  \/ IncRead(c) \/ IncWrite(c) \/ Take(c) \/ Give(c) \/ Handled(c)
  \/ TakeOwnTerminator(c) \/ DecRead(c) \/ DecWrite(c)
-----------------------------------------------------------------------------
(* A producer returns from its function when it likes; it has to once its  *)
(* terminator has been called, which is what a terminator is for.          *)
ProducerReturn(p) ==
  /\ p \in Producers
  /\ pc[p] = "run"
  /\ call[p] = "none"
  /\ Goto(p, "done")
  /\ term' = [term EXCEPT ![p] = FALSE]
  /\ UNCHANGED <<queue, free, closed, reg, call, held, k, calls, sent, drops>>

(* cevf_terminate, from any thread or a signal handler.                    *)
Terminate ==
  /\ ~closed
  /\ closed' = TRUE
  /\ UNCHANGED <<queue, free, reg, term, pc, call, held, k, calls, sent, drops>>

(* The main thread gets the NULL message and goes to ev_join.              *)
LeaveMainloop ==
  /\ pc[Main] = "run"
  /\ closed
  /\ Goto(Main, "term")
  /\ UNCHANGED <<queue, free, closed, reg, term, call, held, k, calls, sent, drops>>

(* Mutant: the terminators of consumers are taken but not called.          *)
TerminateThreadSilently ==
  /\ pc[Main] = "term" /\ call[Main] = "none" /\ k > 0
  /\ term' = [term EXCEPT ![k] = FALSE]
  /\ k' = k - 1
  /\ UNCHANGED <<queue, free, closed, reg, pc, call, held, calls, sent, drops>>

(* terminate_th of every thread, last created first.                       *)
TerminateThread ==
  /\ pc[Main] = "term"
  /\ call[Main] = "none"
  /\ k > 0
  /\ term' = [term EXCEPT ![k] = FALSE]
  /\ SetCall(Main, IF term[k] /\ k \in Consumers THEN "choose" ELSE "none")
  /\ k' = k - 1
  /\ UNCHANGED <<queue, free, closed, reg, pc, held, calls, sent, drops>>

AllTerminated ==
  /\ pc[Main] = "term"
  /\ call[Main] = "none"
  /\ k = 0
  /\ k' = NC + NP
  /\ Goto(Main, "join")
  /\ UNCHANGED <<queue, free, closed, reg, term, call, held, calls, sent, drops>>

(* destroy_th of every thread, in the same order.                          *)
JoinThread ==
  /\ pc[Main] = "join"
  /\ k > 0
  /\ pc[k] = "done"
  /\ k' = k - 1
  /\ Goto(Main, IF k = 1 THEN "joined" ELSE "join")
  /\ UNCHANGED <<queue, free, closed, reg, term, call, held, calls, sent, drops>>

MainStep == LeaveMainloop \/ TerminateThread \/ AllTerminated \/ JoinThread

Next ==
  \/ \E t \in Threads : CallEnqueue(t) \/ EnqueueStep(t)
  \/ \E c \in Consumers : ConsumerStep(c)
  \/ \E p \in Producers : ProducerReturn(p)
  \/ Terminate
  \/ MainStep

Spec == Init /\ [][Next]_vars

(* Every thread keeps running unless it waits; handlers return; producers  *)
(* return once they have been told to.  cevf_terminate need not be called. *)
Fairness ==
  /\ \A t \in Threads : WF_vars(EnqueueStep(t))
  /\ \A c \in Consumers : WF_vars(ConsumerStep(c))
  /\ \A p \in Producers : WF_vars(~term[p] /\ ProducerReturn(p))
  /\ WF_vars(MainStep)
FairSpec == Spec /\ Fairness
-----------------------------------------------------------------------------
TypeOK ==
  /\ queue \in Seq(Messages)
  /\ free \in 0 .. Cap
  /\ closed \in BOOLEAN
  /\ cnt \in Nat
  /\ seen \in [Threads -> Nat]
  /\ term \in [Threads -> BOOLEAN]
  /\ pc \in [Threads -> {"new", "inc", "loop", "give", "handle", "left", "dec",
                         "decw", "done", "run", "term", "join", "joined"}]
  /\ call \in [Threads -> {"none", "check", "checksoft", "choose", "block", "try"}]
  /\ held \in [Threads -> Messages \cup {"none"}]
  /\ k \in 0 .. NC + NP
  /\ calls \in 0 .. MaxCalls
  /\ sent \in Nat /\ drops \in Nat
  /\ lost \in BOOLEAN

(* Where the THENDs come from and go: each consumer's terminator makes one *)
(* THEND, whoever calls it, and each one that got into the queue ends one  *)
(* consumer.                                                               *)
Unused == {c \in Consumers : term[c]}
Sending == {t \in Threads : call[t] # "none" /\ ~InApplication(t)}
Left == {c \in Consumers : \/ pc[c] \in {"left", "dec", "decw", "done"}
                           \/ held[c] = "thend"}
Queued(m) == {i \in 1 .. Len(queue) : queue[i] = m}
ThendPerConsumer ==
  /\ Cardinality(Unused) + Cardinality(Sending) + sent + drops = NC
  /\ sent = Cardinality(Queued("thend")) + Cardinality(Left)

(* When cevf_run has joined its threads, every event that was accepted     *)
(* before the shutdown reached the queue has been handled: what is left    *)
(* for qmsg2_flush is late events only (cevf.c:1231, :1250).               *)
EarlyEventsHandled ==
  pc[Main] = "joined" => \A i \in 1 .. Len(queue) : queue[i] = "late"

(* A THEND that was refused leaves a consumer that never ends, so ev_join  *)
(* never returns: refusals and completion exclude each other.              *)
DropMeansHang == drops > 0 => pc[Main] # "joined"

(* Every THEND is accounted for, from the terminator to the consumer it    *)
(* ends, and nobody joins a pool that has lost one.                        *)
ThendsAccounted == TypeOK /\ ThendPerConsumer /\ DropMeansHang

(* A THEND is sent softly, so that it can be lost, only if an update of    *)
(* the thread count was overwritten (th_cnt_inc and th_cnt_dec are not     *)
(* atomic) or a consumer has not come as far as counting itself.           *)
SoftThendExplained ==
  [][\A t \in Threads :
       call[t] = "choose" /\ ~InApplication(t) /\ call'[t] = "try"
         => lost \/ \E c \in Consumers : pc[c] \in {"new", "inc"}]_vars

(* Everyone who could make room for a blocked enqueue is gone or blocked.  *)
Jammed ==
  /\ free = 0
  /\ \E t \in Threads : call[t] = "block"
  /\ \A c \in Consumers : call[c] = "block" \/ pc[c] = "done"

(* With no more producers than slots, and handlers that do not enqueue, no *)
(* producer is left waiting for room after the last consumer has gone.     *)
NoJamWhenFewProducers == NP <= Cap /\ ~HandlersEnqueue => ~Jammed

(* After cevf_terminate, cevf_run joins all its threads, unless a THEND    *)
(* was lost or the queue is jammed.                                        *)
JoinCompletes == closed ~> (pc[Main] = "joined" \/ drops > 0 \/ Jammed)
=============================================================================
