------------------------------ MODULE Lifecycle ------------------------------
(***************************************************************************)
(* The life of a program on cevf: main (src/src/cevfd.c), cevf_init,       *)
(* cevf_run and cevf_deinit (src/src/cevf.c), with cevf_terminate called   *)
(* at any time by threads and by signal handlers, and sockets that come    *)
(* and go.  Consumers and producers end when ev_join tells them, which     *)
(* ConsumerPool is about; here only the thread of the main loop, which has *)
(* no terminator, can keep ev_join waiting.                                *)
(*                                                                         *)
(* fault: "null" is a use of the thread counters before ev_init, "freed"   *)
(* one of ctrl_mq after it is gone.  Bounds: each terminator calls once.   *)
(***************************************************************************)
EXTENDS Integers, Sequences, FiniteSetsExt, SequencesExt

CONSTANTS Initialisers,   (* records: name, prio, init and deinit (hooks?)  *)
          OnMain,         (* terminators: signal handlers on the main thread*)
          Elsewhere,      (* and callers on other threads                   *)
          Cap,            (* the size of data_mq                            *)
          MaxSocks

Terminators == OnMain \cup Elsewhere

(* cevf_init replaces a size below 2.  A name tells an initialiser.        *)
ASSUME LifecycleAssumption ==
  /\ Cap \in Nat \ {0, 1} /\ MaxSocks \in Nat /\ IsFiniteSet(Terminators)
  /\ IsFiniteSet(Initialisers)
  /\ \A x \in Initialisers : x.prio \in Nat /\ x.init \in BOOLEAN /\ x.deinit \in BOOLEAN
  /\ \A x, y \in Initialisers : x.name = y.name => x = y

VARIABLES
  phase,       (* where the main thread is                                  *)
  ini, i_ini,  (* the initialisers in order, and how far they came          *)
  back,        (* rounds of the loop of cevf_run_deinitialisers             *)
  calls,       (* history: the hooks called, in order                       *)
  failed,      (* has an initialiser failed?                                *)
  producers,   (* are there static producers?                               *)
  ctrl, nulls, (* ctrl_mq: "none", "open" or "deleted"; NULLs sent and taken*)
  closed,      (* data_mq_closed and timeout_closed                         *)
  eterm,       (* eloop.terminate                                           *)
  sockreg,     (* cevf_register_sock_cnt                                    *)
  socks,       (* sockets registered in the event loop                      *)
  data, tcnt,  (* events in data_mq, and timeout_cnt                        *)
  loopthread,  (* the thread of cevf_mainloop: "none", "runs" or "ended"    *)
  term,        (* where each call of cevf_terminate is                      *)
  heard,       (* history: the calls that began while ctrl_mq existed       *)
  fault

initials == <<ini, i_ini, back, calls, failed, producers>>
work == <<sockreg, socks, data, tcnt>>
signals == <<closed, term, heard>>
queue == <<ctrl, nulls>>
vars == <<phase, initials, queue, eterm, work, loopthread, signals, fault>>

Init ==
  /\ phase = "registered"
  /\ ini = <<>> /\ i_ini = 0 /\ back = 0 /\ calls = <<>> /\ failed = FALSE
  /\ producers \in BOOLEAN
  /\ ctrl = "none" /\ nulls = 0 /\ closed = FALSE /\ eterm = FALSE
  /\ sockreg = FALSE /\ socks = 0 /\ data = 0 /\ tcnt = 0
  /\ loopthread = "none"
  /\ term = [k \in Terminators |-> "no"] /\ heard = {}
  /\ fault = "none"

(* A signal handler on the main thread holds the main thread up.           *)
At(p) == phase = p /\ \A k \in OnMain : term[k] \in {"no", "done"}
-----------------------------------------------------------------------------
(* cevf_terminate, in three steps.  On the main thread it interrupts       *)
(* epoll_wait; from elsewhere the event loop goes on sleeping.             *)
TerminateClose(k) ==
  /\ term[k] = "no" /\ phase # "exited"
  /\ closed' = TRUE
  /\ term' = [term EXCEPT ![k] = "closed"]
  /\ heard' = IF ctrl = "open" THEN heard \cup {k} ELSE heard
  /\ UNCHANGED <<phase, initials, queue, eterm, work, loopthread, fault>>

TerminateEloop(k) ==
  /\ term[k] = "closed"
  /\ eterm' = TRUE
  /\ term' = [term EXCEPT ![k] = "enq"]
  /\ phase' = IF k \in OnMain /\ phase = "asleep" THEN "eloop" ELSE phase
  /\ UNCHANGED <<initials, queue, work, loopthread, closed, heard, fault>>

(* Mutants: the message is forgotten; one is sent for either main loop.    *)
TerminateEnqForgotten(k) ==
  /\ term[k] = "enq"
  /\ term' = [term EXCEPT ![k] = "done"]
  /\ UNCHANGED <<phase, initials, queue, eterm, work, loopthread, closed, heard, fault>>
TerminateEnqTwice(k) ==
  /\ term[k] = "enq" /\ ctrl = "open"
  /\ nulls' = nulls + 2
  /\ term' = [term EXCEPT ![k] = "done"]
  /\ UNCHANGED <<phase, initials, ctrl, eterm, work, loopthread, closed, heard, fault>>

(* The enqueue returns an error on a NULL queue.                           *)
TerminateEnq(k) ==
  /\ term[k] = "enq" /\ phase # "exited"
  /\ nulls' = IF ctrl = "open" THEN nulls + 1 ELSE nulls
  /\ fault' = IF ctrl = "deleted" THEN "freed" ELSE fault
  /\ term' = [term EXCEPT ![k] = "done"]
  /\ UNCHANGED <<phase, initials, ctrl, eterm, work, loopthread, closed, heard>>
-----------------------------------------------------------------------------
(* cevf_init clears eloop.terminate; when it fails main returns at once.   *)
CevfInit ==
  /\ At("registered")
  /\ \/ phase' = "inited" /\ eterm' = FALSE
     \/ phase' = "exited" /\ UNCHANGED eterm
  /\ UNCHANGED <<initials, queue, work, loopthread, signals, fault>>

(* The arrays of initialisers in the order of prio; qsort is not stable.   *)
Sorted == {s \in SetToSeqs(Initialisers) :
             \A i, j \in 1 .. Len(s) : i < j => s[i].prio <= s[j].prio}

RunBegins ==
  /\ At("inited")
  /\ phase' = "initialising"
  /\ ctrl' = "open"
  /\ ini' \in Sorted
  /\ UNCHANGED <<nulls, i_ini, back, calls, failed, producers>>
  /\ UNCHANGED <<eterm, work, loopthread, signals, fault>>

(* What an initialiser may do, besides nothing, and whether it succeeds.   *)
(* The form of enqueue that may block asks how many consumers run, in      *)
(* counters that ev_init has not created.                                  *)
Effects ==
  \/ UNCHANGED <<work, fault>>
  \/ sockreg' = TRUE /\ socks < MaxSocks /\ socks' = socks + 1 /\ UNCHANGED <<data, tcnt, fault>>
  \/ ~closed /\ tcnt < 1 /\ tcnt' = tcnt + 1 /\ UNCHANGED <<sockreg, socks, data, fault>>
  \/ ~closed /\ data < Cap /\ data' = data + 1 /\ UNCHANGED <<sockreg, socks, tcnt, fault>>
  \/ ~closed /\ fault' = "null" /\ UNCHANGED work

(* One round of cevf_run_initialisers: i_ini stays at one that fails.      *)
Initialiser ==
  /\ At("initialising") /\ i_ini < Len(ini)
  /\ LET this == ini[i_ini + 1]
     IN  IF ~this.init
         THEN i_ini' = i_ini + 1 /\ UNCHANGED <<phase, calls, failed, work, fault>>
         ELSE /\ calls' = Append(calls, <<"init", this.name>>)
              /\ Effects
              /\ \/ i_ini' = i_ini + 1 /\ UNCHANGED <<phase, failed>>
                 \/ phase' = "deinitialising" /\ failed' = TRUE /\ UNCHANGED i_ini
  /\ UNCHANGED <<ini, back, producers, queue, eterm, loopthread, signals>>

(* Mutant: pending timeouts are not asked for.                             *)
IsIdleWithoutTimeouts == ~sockreg /\ nulls = 0 /\ data % Cap = 0

(* cevf_is_idle: a full queue counts 0 (Count of QMsg2).                   *)
IsIdle == ~sockreg /\ nulls = 0 /\ data % Cap = 0 /\ tcnt = 0

(* If there is nothing to do, leave; otherwise start the threads, and, if  *)
(* a socket was ever registered, one for cevf_mainloop.                    *)
StartThreads ==
  /\ At("initialising") /\ i_ini = Len(ini)
  /\ IF IsIdle /\ ~producers THEN phase' = "deinitialising" /\ UNCHANGED loopthread
     ELSE IF sockreg THEN phase' = "eloop" /\ loopthread' = "runs"
     ELSE phase' = "mainloop" /\ UNCHANGED loopthread
  /\ UNCHANGED <<initials, queue, eterm, work, signals, fault>>
-----------------------------------------------------------------------------
(* While the threads run: events are handled, timeouts fire, and any       *)
(* thread may register or unregister sockets.                              *)
Running == phase \in {"eloop", "asleep", "mainloop"}
Work ==
  /\ Running
  /\ \/ data > 0 /\ data' = data - 1 /\ UNCHANGED <<sockreg, socks, tcnt>>
     \/ tcnt > 0 /\ tcnt' = tcnt - 1 /\ UNCHANGED <<sockreg, socks, data>>
     \/ socks < MaxSocks /\ socks' = socks + 1 /\ sockreg' = TRUE /\ UNCHANGED <<data, tcnt>>
     \/ socks > 0 /\ socks' = socks - 1 /\ UNCHANGED <<sockreg, data, tcnt>>
  /\ UNCHANGED <<phase, initials, queue, eterm, loopthread, signals, fault>>

(* eloop_run: at the top of its loop it sleeps or ends, ...                *)
EloopTop ==
  /\ At("eloop")
  /\ IF eterm \/ socks = 0 THEN phase' = "joining" /\ eterm' = FALSE
     ELSE phase' = "asleep" /\ UNCHANGED eterm
  /\ UNCHANGED <<initials, queue, work, loopthread, signals, fault>>

(* ... and an event of a socket wakes it.                                  *)
SockEvent ==
  /\ phase = "asleep" /\ socks > 0
  /\ phase' = "eloop"
  /\ UNCHANGED <<initials, queue, eterm, work, loopthread, signals, fault>>

(* cevf_mainloop ends with a NULL message, on either thread.               *)
MainloopEnds ==
  /\ nulls > 0
  /\ \/ At("mainloop") /\ phase' = "joining" /\ UNCHANGED loopthread
     \/ loopthread = "runs" /\ loopthread' = "ended" /\ UNCHANGED phase
  /\ nulls' = nulls - 1
  /\ UNCHANGED <<initials, ctrl, eterm, work, signals, fault>>

(* Mutant: the thread of the main loop is not waited for.                  *)
EvJoinAtOnce ==
  /\ At("joining")
  /\ phase' = "deinitialising"
  /\ UNCHANGED <<initials, queue, eterm, work, loopthread, signals, fault>>

EvJoin ==
  /\ At("joining") /\ loopthread # "runs"
  /\ phase' = "deinitialising"
  /\ UNCHANGED <<initials, queue, eterm, work, loopthread, signals, fault>>

(* Mutant: the one that failed is left out.                                *)
DeinitialiserShort ==
  /\ At("deinitialising") /\ back < Len(ini)
  /\ LET place == Len(ini) - back
     IN  calls' = IF place <= i_ini /\ ini[place].deinit
                  THEN Append(calls, <<"deinit", ini[place].name>>) ELSE calls
  /\ back' = back + 1
  /\ UNCHANGED <<phase, ini, i_ini, failed, producers>>
  /\ UNCHANGED <<queue, eterm, work, loopthread, signals, fault>>

(* One round of cevf_run_deinitialisers: backwards, leaving out those      *)
(* behind the one at which the initialisers stopped, ...                   *)
Deinitialiser ==
  /\ At("deinitialising") /\ back < Len(ini)
  /\ LET place == Len(ini) - back
     IN  calls' = IF place <= i_ini + 1 /\ ini[place].deinit
                  THEN Append(calls, <<"deinit", ini[place].name>>) ELSE calls
  /\ back' = back + 1
  /\ UNCHANGED <<phase, ini, i_ini, failed, producers>>
  /\ UNCHANGED <<queue, eterm, work, loopthread, signals, fault>>

(* ... and its end.                                                        *)
Deinitialised ==
  /\ At("deinitialising") /\ back = Len(ini)
  /\ i_ini' = 0
  /\ phase' = "closing"
  /\ UNCHANGED <<ini, back, calls, failed, producers>>
  /\ UNCHANGED <<queue, eterm, work, loopthread, signals, fault>>

(* ctrl_mq goes first; its variable is not reset.  Then cevf_deinit.       *)
DeleteCtrl ==
  /\ At("closing")
  /\ ctrl' = "deleted" /\ phase' = "deleted"
  /\ UNCHANGED <<nulls, initials, eterm, work, loopthread, signals, fault>>

CevfDeinit ==
  /\ At("deleted")
  /\ phase' = "exited"
  /\ UNCHANGED <<initials, queue, eterm, work, loopthread, signals, fault>>

MainStep ==
  \/ CevfInit \/ RunBegins \/ Initialiser \/ StartThreads \/ EloopTop \/ EvJoin
  \/ Deinitialiser \/ Deinitialised \/ DeleteCtrl \/ CevfDeinit
TerminateStep(k) == TerminateEloop(k) \/ TerminateEnq(k)

Next ==
  /\ fault = "none"
  /\ \/ MainStep \/ Work \/ SockEvent \/ MainloopEnds
     \/ \E k \in Terminators : TerminateClose(k) \/ TerminateStep(k)

Spec == Init /\ [][Next]_vars
-----------------------------------------------------------------------------
TypeOK ==
  /\ phase \in {"registered", "inited", "initialising", "eloop", "asleep", "mainloop", "joining",
                "deinitialising", "closing", "deleted", "exited"}
  /\ ini \in Seq(Initialisers) /\ i_ini \in 0 .. Len(ini) /\ back \in 0 .. Len(ini)
  /\ ctrl \in {"none", "open", "deleted"} /\ nulls \in 0 .. Cardinality(Terminators)
  /\ socks \in 0 .. MaxSocks /\ data \in 0 .. Cap /\ tcnt \in 0 .. 1
  /\ loopthread \in {"none", "runs", "ended"}
  /\ term \in [Terminators -> {"no", "closed", "enq", "done"}]
  /\ fault \in {"none", "null", "freed"}

(* The calls of hooks, and their order.                                    *)
InitOf(x) == <<"init", x.name>>
DeinitOf(x) == <<"deinit", x.name>>
Called(c) == \E n \in 1 .. Len(calls) : calls[n] = c
Before(c, d) == \E n, k \in 1 .. Len(calls) : n < k /\ calls[n] = c /\ calls[k] = d

(* The order of prio going in, its reverse going out, and nothing twice.   *)
InPriority ==
  /\ \A n, k \in 1 .. Len(calls) : calls[n] = calls[k] => n = k
  /\ \A x, y \in Initialisers : x.prio < y.prio =>
       ~Before(InitOf(y), InitOf(x)) /\ ~Before(DeinitOf(x), DeinitOf(y))

(* Every initialiser that was called has been undone, the failing one,     *)
(* too, in the reverse order; one that only has a deinit_f is called if    *)
(* those before it were.                                                   *)
Undone ==
  \A x, y \in Initialisers :
    /\ Called(InitOf(x)) /\ x.deinit => Before(InitOf(x), DeinitOf(x))
    /\ Called(DeinitOf(x)) /\ y.init /\ (y = x \/ y.prio < x.prio) => Called(InitOf(y))
    /\ Before(InitOf(x), InitOf(y)) /\ x.deinit /\ y.deinit => Before(DeinitOf(y), DeinitOf(x))

(* However the program ends, the deinitialisers run in the reverse order,  *)
(* once, of every initialiser that was called, of the failing one, too,    *)
(* and of none that was not reached (cevf.c:1180).  The types hold.        *)
DeinitMirrorsInit == TypeOK /\ InPriority /\ (phase \in {"closing", "deleted"} => Undone)

(* A program that nobody terminates and whose initialisers succeed ends    *)
(* only if nothing is left to do - but it takes a full queue for an empty  *)
(* one (cevf.c:1191, qmsg2.c:109).                                         *)
QuitsIdle ==
  phase = "deleted" /\ ~failed /\ (\A k \in Terminators : term[k] = "no") =>
    ~producers /\ socks = 0 /\ tcnt = 0 /\ data \in {0, Cap}

(* One cevf_terminate that begins while the threads run cannot meet the    *)
(* deleted queue: that takes a second one, or a program that was about to  *)
(* end by itself.                                                          *)
OneTerminateIsSafe ==
  fault = "freed" => \/ Cardinality({k \in Terminators : term[k] # "no"}) > 1
                     \/ failed \/ (IsIdle /\ ~producers)

(* A cevf_terminate that begins once ctrl_mq exists ends the program, or   *)
(* the event loop sleeps for ever: eloop_terminate does not wake it.       *)
TerminateEnds ==
  heard # {} ~> phase = "exited" \/ fault # "none" \/ [](phase = "asleep")
=============================================================================
