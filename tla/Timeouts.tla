------------------------------ MODULE Timeouts ------------------------------
(***************************************************************************)
(* Timeouts of cevf and the main loop that runs them (src/src/cevf.c).     *)
(*                                                                         *)
(* A pending timeout is in two places: the main heap tmout_hp and, under   *)
(* its handler and context, a heap in the map m_tmok_tmouthp; or it is the *)
(* one the main loop has withdrawn from both to wait for.  A thread that   *)
(* registers or cancels sends a command to the main loop through ctrl_mq   *)
(* and waits on a condition variable until it is carried out - unless it   *)
(* reads mainloop_start = 0: then it changes the two structures itself.    *)
(*                                                                         *)
(* One action is one step between two critical sections.  fault records    *)
(* that the program has died of an invalid memory access or a double free. *)
(* A plan is one way to use all this: which clients call, what they name,  *)
(* when the clock stops, how many calls there are, and whether clients     *)
(* only call while the main loop waits (calm) or at any time.              *)
(* Bounds: MaxTime and MaxCalls, for the clock and the calls of any plan.  *)
(***************************************************************************)
EXTENDS Integers, Sequences, FiniteSets

CONSTANTS Clients,     (* threads that register and cancel timeouts         *)
          Keys,        (* pairs of a handler and a context                  *)
          Nobody,      (* no client: the sender of the stop message         *)
          CtrlSz,      (* size of ctrl_mq                                   *)
          MaxTime, MaxCalls,
          Plans        (* the plans of which a behaviour follows one        *)
ASSUME TimeoutsAssumption ==
  /\ CtrlSz \in Nat \ {0, 1} /\ MaxTime \in Nat /\ MaxCalls \in Nat
  /\ Nobody \notin Clients \cup Keys
  /\ Plans \subseteq [calm : BOOLEAN, clients : SUBSET Clients, keys : SUBSET Keys,
                     time : 0 .. MaxTime, calls : 0 .. MaxCalls]

(* A struct cevf_timeout_s: its address, handler and context, and deadline;*)
(* and the NULL pointer.                                                   *)
Timeout == [id : 1 .. MaxCalls, key : Keys, due : 0 .. MaxTime]
None == [id |-> 0, key |-> Nobody, due |-> 0]

(* A struct cevf_tmouta_s; for cancellations only the key of tmout counts. *)
Command(typ, tmout, from) == [typ |-> typ, tmout |-> tmout, from |-> from]
Stop == Command("stop", None, Nobody)

(* _timeout_cmpf.                                                          *)
ByDue(a, b) == a.due - b.due
H == INSTANCE Heap WITH Cmp <- ByDue

VARIABLES
  plan,      (* the plan the behaviour follows                              *)
  now,       (* CLOCK_REALTIME                                              *)
  hp,        (* tmout_hp                                                    *)
  map,       (* m_tmok_tmouthp; <<>> is a key without an entry              *)
  held,      (* tmout of cevf_mainloop, None for NULL                       *)
  at,        (* where the main loop is                                      *)
  cmd,       (* the command it carries out                                  *)
  start,     (* mainloop_start                                              *)
  ctrl,      (* ctrl_mq                                                     *)
  closed,    (* timeout_closed                                              *)
  stopped,   (* has cevf_terminate sent its NULL message?                   *)
  pc, req,   (* where each client is, and its command                       *)
  ids,       (* timeouts allocated so far                                   *)
  fired,     (* history: the timeouts whose handler has been called         *)
  gone,      (* history: the timeouts a cancellation was meant for          *)
  freed,     (* ids of the timeouts that have been freed                    *)
  fault      (* has the program died?                                       *)

heaps == <<hp, map>>
loop == <<held, at, cmd, start>>
calls == <<pc, req, ids>>
history == <<fired, gone, freed>>
vars == <<plan, now, heaps, loop, ctrl, closed, stopped, calls, history, fault>>

InSeq(h) == {h[i] : i \in 1 .. Len(h)}
Pending == InSeq(hp) \cup ({held} \ {None})
Planned(x) == x.key \in plan.keys /\ x.due <= plan.time

(* The first timeouts are registered by initialisers, before the loop.     *)
Init ==
  /\ plan \in Plans
  /\ now = 0
  /\ \E first \in Timeout, second \in Timeout \cup {None} :
       LET one == [key \in Keys |-> IF key = first.key THEN <<first>> ELSE <<>>]
       IN  /\ first.id = 1 /\ Planned(first)
           /\ \/ /\ second = None
                 /\ hp = <<first>> /\ map = one /\ ids = 1
              \/ /\ second.id = 2 /\ Planned(second) /\ first.due # second.due
                 /\ hp = H!Offer(<<first>>, second)
                 /\ map = [one EXCEPT ![second.key] = H!Offer(@, second)]
                 /\ ids = 2
  /\ held = None /\ at = "batch" /\ cmd = Stop /\ start = FALSE
  /\ ctrl = <<>> /\ closed = FALSE /\ stopped = FALSE
  /\ pc = [c \in Clients |-> "idle"]
  /\ req = [c \in Clients |-> Stop]
  /\ fired = {} /\ gone = {} /\ freed = {}
  /\ fault = FALSE

Tick ==
  /\ now < plan.time
  /\ now' = now + 1
  /\ UNCHANGED <<heaps, loop, ctrl, closed, stopped, calls, history, fault>>

Die == fault' = TRUE /\ UNCHANGED <<now, heaps, loop, ctrl, closed, stopped, calls, history>>
-----------------------------------------------------------------------------
(* The two structures.  heap_remove_item looks for an equal deadline.      *)
Into(h, x) == H!Offer(h, x)
IntoMap(x) == [map EXCEPT ![x.key] = Into(@, x)]
Without(h, x) == IF H!Equals(h, x) = {} THEN h ELSE H!RemoveItem(h, x)
Crashes(h, x) == H!Equals(h, x) # {} /\ H!ComparesNull(h, x)
OutOfMap(x) == [map EXCEPT ![x.key] = Without(@, x)]

(* One round of the loop of _timeout_delete, which is also what            *)
(* _timeout_deleteone does: the top of the key's heap, out of both heaps.  *)
Withdraw(s) ==
  IF s.mine = <<>> THEN s
  ELSE LET x == Head(s.mine)
       IN  [mine |-> H!Poll(s.mine), main |-> Without(s.main, x),
            dead |-> s.dead \cup {x}, crash |-> s.crash \/ Crashes(s.main, x)]
Rounds(key, n) ==
  LET s[i \in 0 .. n] ==
        IF i = 0 THEN [mine |-> map[key], main |-> hp, dead |-> {}, crash |-> FALSE]
        ELSE Withdraw(s[i - 1])
  IN  s[n]
-----------------------------------------------------------------------------
(* cevf_mainloop.  _timeout_batchexec runs the root while it is overdue.   *)
BatchEmpty ==
  /\ at = "batch" /\ hp = <<>>
  /\ at' = "next"
  /\ UNCHANGED <<now, heaps, held, cmd, start, ctrl, closed, stopped, calls, history, fault>>

BatchPeek ==
  /\ at = "batch" /\ hp # <<>>
  /\ held' = Head(hp)
  /\ at' = IF now > Head(hp).due THEN "overdue" ELSE "next"
  /\ UNCHANGED <<now, heaps, cmd, start, ctrl, closed, stopped, calls, history, fault>>

(* It polls the heap again: the root may be another timeout by now.        *)
(* Mutant: it does not.                                                    *)
BatchPollForgotten ==
  /\ at = "overdue" /\ at' = "run"
  /\ UNCHANGED <<now, heaps, held, cmd, start, ctrl, closed, stopped, calls, history, fault>>

BatchPoll ==
  /\ at = "overdue"
  /\ hp' = H!Poll(hp)
  /\ at' = "run"
  /\ UNCHANGED <<now, map, held, cmd, start, ctrl, closed, stopped, calls, history, fault>>

(* A handler does nothing, or registers another timeout (a periodic one):  *)
(* the main thread has mainloop_start = 0, so it adds to the structures.   *)
(* A handler that cancels ends the program: see DirectCancel.              *)
Fresh(x) ==
  /\ x.id = ids + 1
  /\ ids < plan.calls
  /\ Planned(x) /\ x.due >= now
  /\ \A y \in Pending \cup {req[c].tmout : c \in Clients} : x.due # y.due

Handler ==
  \/ UNCHANGED <<heaps, ids>>
  \/ /\ ~closed
     /\ \E x \in Timeout : /\ Fresh(x)
                           /\ ids' = x.id /\ hp' = H!Offer(hp, x) /\ map' = IntoMap(x)
HandlerCancels == ~closed /\ Die

Run ==
  /\ at \in {"run", "fire"}
  /\ \/ /\ Handler
        /\ fired' = fired \cup {held}
        /\ at' = IF at = "run" THEN "drop" ELSE "free"
        /\ UNCHANGED <<now, held, cmd, start, ctrl, closed, stopped, pc, req, gone, freed, fault>>
     \/ HandlerCancels

(* After its handler, an overdue timeout leaves the map, and either is     *)
(* freed.                                                                  *)
Drop ==
  /\ at \in {"drop", "free"}
  /\ IF at = "drop" /\ Crashes(map[held.key], held) THEN Die
     ELSE /\ map' = IF at = "drop" THEN OutOfMap(held) ELSE map
          /\ freed' = freed \cup {held.id}
          /\ held' = None /\ at' = "batch"
          /\ UNCHANGED <<now, hp, cmd, start, ctrl, closed, stopped, calls, fired, gone, fault>>

(* _timeout_next withdraws the timeout to wait for, if there is one.       *)
NextPoll ==
  /\ at = "next"
  /\ held' = IF hp = <<>> THEN None ELSE Head(hp)
  /\ hp' = IF hp = <<>> THEN hp ELSE H!Poll(hp)
  /\ at' = "unmap"
  /\ UNCHANGED <<now, map, cmd, start, ctrl, closed, stopped, calls, history, fault>>

(* Mutant: the timeout waited for stays in the map.                        *)
NextUnmapForgotten ==
  /\ at = "unmap"
  /\ start' = TRUE /\ at' = "wait"
  /\ UNCHANGED <<now, heaps, held, cmd, ctrl, closed, stopped, calls, history, fault>>

NextUnmap ==
  /\ at = "unmap"
  /\ IF held # None /\ Crashes(map[held.key], held) THEN Die
     ELSE /\ map' = IF held = None THEN map ELSE OutOfMap(held)
          /\ start' = TRUE
          /\ at' = "wait"
          /\ UNCHANGED <<now, hp, held, cmd, ctrl, closed, stopped, calls, history, fault>>

(* qmsg2_deq or qmsg2_poll2_nointr: the deadline has passed ...            *)
TimedOut ==
  /\ at = "wait" /\ ctrl = <<>>
  /\ held # None /\ now >= held.due
  /\ start' = FALSE
  /\ at' = "fire"
  /\ UNCHANGED <<now, heaps, held, cmd, ctrl, closed, stopped, calls, history, fault>>

(* Mutant: the timeout goes back to the main heap but not to the map.      *)
ReceiveUnmapped ==
  /\ at = "wait" /\ ctrl # <<>> /\ Head(ctrl) # Stop
  /\ IF held = None THEN Die
     ELSE /\ hp' = H!Offer(hp, held)
          /\ cmd' = Head(ctrl) /\ ctrl' = Tail(ctrl)
          /\ start' = FALSE /\ held' = None /\ at' = "exec"
          /\ UNCHANGED <<now, map, closed, stopped, calls, history, fault>>

(* Mutant: the timeout does not go back at all.                            *)
ReceiveForgets ==
  /\ at = "wait" /\ ctrl # <<>> /\ Head(ctrl) # Stop
  /\ cmd' = Head(ctrl) /\ ctrl' = Tail(ctrl)
  /\ start' = FALSE /\ held' = None /\ at' = "exec"
  /\ UNCHANGED <<now, heaps, closed, stopped, calls, history, fault>>

(* ... or a command has come: the timeout goes back before it is carried   *)
(* out, so that a cancellation finds it.  With no timeout to put back,     *)
(* _timeout_add reads through NULL (cevf.c:1001, :695).                    *)
Receive ==
  /\ at = "wait" /\ ctrl # <<>> /\ Head(ctrl) # Stop
  /\ IF held = None THEN Die
     ELSE /\ hp' = H!Offer(hp, held) /\ map' = IntoMap(held)
          /\ cmd' = Head(ctrl) /\ ctrl' = Tail(ctrl)
          /\ start' = FALSE /\ held' = None /\ at' = "exec"
          /\ UNCHANGED <<now, closed, stopped, calls, history, fault>>

(* The NULL message: _timeout_flush frees what is in the main heap and     *)
(* then again what it finds in the map.                                    *)
ReceiveStop ==
  /\ at = "wait" /\ ctrl # <<>> /\ Head(ctrl) = Stop
  /\ IF InSeq(hp) \cap UNION {InSeq(map[key]) : key \in Keys} # {} THEN Die
     ELSE /\ freed' = freed \cup {x.id : x \in Pending}
          /\ hp' = <<>> /\ held' = None /\ start' = FALSE /\ at' = "ended"
          /\ ctrl' = Tail(ctrl)
          /\ UNCHANGED <<now, map, cmd, closed, stopped, calls, fired, gone, fault>>

(* _tmouta_exec in the main loop.                                          *)
ExecAdd ==
  /\ at = "exec" /\ cmd.typ = "add"
  /\ hp' = H!Offer(hp, cmd.tmout) /\ map' = IntoMap(cmd.tmout)
  /\ at' = "signal"
  /\ UNCHANGED <<now, held, cmd, start, ctrl, closed, stopped, calls, history, fault>>

ExecDelete ==
  /\ at = "exec" /\ cmd.typ \in {"delete", "deleteone"}
  /\ LET key == cmd.tmout.key
         s == Rounds(key, IF cmd.typ = "delete" THEN Len(map[key]) ELSE 1)
     IN  IF s.crash THEN Die
         ELSE /\ hp' = s.main
              /\ map' = [map EXCEPT ![key] = s.mine]
              /\ freed' = freed \cup {x.id : x \in s.dead}
              /\ gone' = gone \cup (IF cmd.typ = "delete"
                                    THEN {x \in Pending : x.key = key} ELSE s.dead)
              /\ at' = "signal"
              /\ UNCHANGED <<now, held, cmd, start, ctrl, closed, stopped, calls, fired, fault>>

(* Mutant: only an added timeout is signalled.                             *)
SignalAddsOnly ==
  /\ at = "signal"
  /\ pc' = [pc EXCEPT ![cmd.from] = IF @ = "wait" /\ cmd.typ = "add" THEN "woken" ELSE @]
  /\ cmd' = Stop /\ at' = "batch"
  /\ UNCHANGED <<now, heaps, held, start, ctrl, closed, stopped, req, ids, history, fault>>

(* pthread_cond_signal wakes the sender only if it waits already.          *)
Signal ==
  /\ at = "signal"
  /\ pc' = [pc EXCEPT ![cmd.from] = IF @ = "wait" THEN "woken" ELSE @]
  /\ cmd' = Stop /\ at' = "batch"
  /\ UNCHANGED <<now, heaps, held, start, ctrl, closed, stopped, req, ids, history, fault>>

LoopStep ==
  \/ BatchEmpty \/ BatchPeek \/ BatchPoll \/ Run \/ Drop \/ NextPoll \/ NextUnmap
  \/ TimedOut \/ Receive \/ ReceiveStop \/ ExecAdd \/ ExecDelete \/ Signal
-----------------------------------------------------------------------------
(* Clients: cevf_register_timeout, cevf_cancel_timeout and _one.           *)
Goto(c, label) == pc' = [pc EXCEPT ![c] = label]

Begin(c, typ, x) ==
  /\ pc[c] = "idle" /\ ~closed
  /\ req' = [req EXCEPT ![c] = Command(typ, x, c)]
  /\ Goto(c, "decide")
  /\ UNCHANGED <<now, heaps, loop, ctrl, closed, stopped, history, fault>>

Register(c) == \E x \in Timeout : Fresh(x) /\ ids' = x.id /\ Begin(c, "add", x)

(* Cancellations count as calls too, so that behaviours are finite.        *)
Cancel(c) ==
  /\ ids < plan.calls /\ ids' = ids + 1
  /\ \E key \in plan.keys, typ \in {"delete", "deleteone"} :
       Begin(c, typ, [id |-> ids + 1, key |-> key, due |-> 0])

(* The client reads mainloop_start.                                        *)
Decide(c) ==
  /\ pc[c] = "decide"
  /\ plan.calm => start
  /\ Goto(c, IF start THEN "send" ELSE "direct")
  /\ UNCHANGED <<now, heaps, loop, ctrl, closed, stopped, req, ids, history, fault>>

(* _tmouta_enq_waitexec: send, and then wait for the signal.               *)
Send(c) ==
  /\ pc[c] = "send" /\ Len(ctrl) < CtrlSz
  /\ ctrl' = Append(ctrl, req[c])
  /\ Goto(c, "sent")
  /\ UNCHANGED <<now, heaps, loop, closed, stopped, req, ids, history, fault>>

Wait(c) ==
  /\ pc[c] = "sent"
  /\ Goto(c, "wait")
  /\ UNCHANGED <<now, heaps, loop, ctrl, closed, stopped, req, ids, history, fault>>

(* _timeout_add by the client itself, in two critical sections.            *)
DirectMain(c) ==
  /\ pc[c] = "direct" /\ req[c].typ = "add"
  /\ hp' = H!Offer(hp, req[c].tmout)
  /\ Goto(c, "directmap")
  /\ UNCHANGED <<now, map, loop, ctrl, closed, stopped, req, ids, history, fault>>

DirectMap(c) ==
  /\ pc[c] = "directmap"
  /\ map' = IntoMap(req[c].tmout)
  /\ Goto(c, "woken")
  /\ UNCHANGED <<now, hp, loop, ctrl, closed, stopped, req, ids, history, fault>>

(* A cancellation by the client itself frees its request in _tmouta_exec   *)
(* and again after it (cevf.c:911 and :1056, :917 and :1080).              *)
DirectCancel(c) == pc[c] = "direct" /\ req[c].typ # "add" /\ Die

Return(c) ==
  /\ pc[c] = "woken"
  /\ Goto(c, "idle")
  /\ req' = [req EXCEPT ![c] = Stop]
  /\ UNCHANGED <<now, heaps, loop, ctrl, closed, stopped, ids, history, fault>>

ClientStep(c) ==
  Decide(c) \/ Send(c) \/ Wait(c) \/ DirectMain(c) \/ DirectMap(c) \/ DirectCancel(c) \/ Return(c)

(* cevf_terminate: the flag first, then the NULL message.                  *)
Close ==
  /\ ~closed
  /\ closed' = TRUE
  /\ UNCHANGED <<now, heaps, loop, ctrl, stopped, calls, history, fault>>

SendStop ==
  /\ closed /\ ~stopped /\ Len(ctrl) < CtrlSz
  /\ stopped' = TRUE
  /\ ctrl' = Append(ctrl, Stop)
  /\ UNCHANGED <<now, heaps, loop, closed, calls, history, fault>>

Next ==
  /\ ~fault /\ UNCHANGED plan
  /\ \/ Tick \/ LoopStep \/ Close \/ SendStop
     \/ \E c \in plan.clients : Register(c) \/ Cancel(c) \/ ClientStep(c)

Spec == Init /\ [][Next]_vars

(* Time passes, the main thread runs and a client inside a call goes on.   *)
(* cevf_terminate need not be called, and handlers return.                 *)
Fairness ==
  /\ WF_vars(~fault /\ UNCHANGED plan /\ Tick)
  /\ WF_vars(~fault /\ UNCHANGED plan /\ LoopStep)
  /\ \A c \in Clients : WF_vars(~fault /\ UNCHANGED plan /\ ClientStep(c))
FairSpec == Spec /\ Fairness
-----------------------------------------------------------------------------
TypeOK ==
  /\ plan \in Plans
  /\ now \in 0 .. MaxTime
  /\ hp \in Seq(Timeout)
  /\ map \in [Keys -> Seq(Timeout)]
  /\ held \in Timeout \cup {None}
  /\ at \in {"batch", "overdue", "run", "fire", "drop", "free", "next", "unmap",
             "wait", "exec", "signal", "ended"}
  /\ start \in BOOLEAN /\ closed \in BOOLEAN /\ stopped \in BOOLEAN /\ fault \in BOOLEAN
  /\ Len(ctrl) <= CtrlSz
  /\ pc \in [Clients -> {"idle", "decide", "send", "sent", "wait", "woken", "direct", "directmap"}]
  /\ ids \in 0 .. MaxCalls
  /\ fired \subseteq Timeout /\ gone \subseteq Timeout
  /\ freed \subseteq 0 .. MaxCalls

(* No handler runs before the deadline its timeout was registered for,     *)
(* on either of the two paths (cevf.c:825, :992).                          *)
NeverEarly == [][\A x \in fired' \ fired : now >= x.due]_vars

(* While the main loop waits, the map has exactly the timeouts of the main *)
(* heap, each under its own key, and the one waited for is in neither.     *)
Mirrored ==
  at = "wait" => /\ \A key \in Keys : InSeq(map[key]) = {x \in InSeq(hp) : x.key = key}
                 /\ held \notin InSeq(hp)

(* Nothing that is still in use has been freed.                            *)
NoDangling ==
  ~fault => \A x \in Pending \cup UNION {InSeq(map[key]) : key \in Keys} : x.id \notin freed

(* While clients only call when the main loop waits, the main heap and the *)
(* map hold the same timeouts, and nothing in use is freed.                *)
StructuresAgree == TypeOK /\ (plan.calm => Mirrored /\ NoDangling)

(* A timeout whose cancellation was carried out never fires afterwards,    *)
(* not even the one the main loop was waiting for (cevf.c:1001-1004).      *)
FiresUncancelled == \A x \in fired' \ fired : x \notin gone
CancelIsFinal == [][plan.calm => FiresUncancelled]_vars

(* The handler of a timeout runs at most once per registration, and in no  *)
(* plan before the deadline.                                               *)
FiresFirstTime == at' \in {"drop", "free"} /\ at \in {"run", "fire"} => held \notin fired
FiresOnceInTime == [][plan.calm => FiresFirstTime]_vars /\ NeverEarly

(* "mainloop withdraw from this the closest timeout to execute"            *)
(* (cevf.c:662): a handler runs only if no pending timeout is due before.  *)
ClosestFirst == [][\A x \in fired' \ fired : \A y \in Pending : x.due <= y.due]_vars

(* Every registered timeout fires, is cancelled, or the loop has ended.    *)
EveryTimeoutFires ==
  \A n \in 1 .. MaxCalls :
    (\E x \in InSeq(hp) : x.id = n)
      ~> (\E x \in fired \cup gone : x.id = n) \/ at = "ended" \/ fault

(* A call returns if the client waits by the time its command is signalled *)
(* (the signal is lost otherwise), or acts itself, unless the loop ends.   *)
InTime(c) ==
  \/ pc[c] = "wait" /\ (cmd.from = c \/ req[c] \in InSeq(ctrl))
  \/ pc[c] \in {"direct", "directmap"}
CallsReturn ==
  \A c \in Clients : InTime(c) ~> (pc[c] = "idle" \/ at = "ended" \/ fault)
=============================================================================
