------------------------------- MODULE Eloop -------------------------------
(***************************************************************************)
(* eloop_run (src/src/utils/eloop/eloop.c, the epoll build) with all that  *)
(* moves it: sockets, timeouts, signals, eloop_terminate.  The code that   *)
(* uses it runs before the loop, in handlers, and, while the loop sleeps,  *)
(* on another thread; it opens and closes descriptors, too.                *)
(*                                                                         *)
(* A handler is the socket, type and file it was registered with.  fault   *)
(* records a use of memory that was freed or never written.  Bounds: the   *)
(* calls of each kind and the ticks of the clock (one of Budgets, none     *)
(* beyond MaxNow), and the files a descriptor stands for (MaxGen).  Calls  *)
(* whose count is below 0 never run out, so that handlers may change the   *)
(* tables for ever; the rows they may have at once are a bound as well.    *)
(***************************************************************************)
EXTENDS EloopTables

CONSTANTS Types,     (* of "read", "write", "exception"                     *)
          Keys,      (* a timeout's handler and its context                 *)
          Sigs,      (* the signals registered, with those that terminate   *)
          Terminating,
          Budgets,   (* records: calls of each kind, rows, signals and ticks*)
          MaxGen, MaxNow

ASSUME EloopAssumption ==
  /\ "no" \notin Types /\ Sigs \in Seq(STRING) /\ MaxGen \in Nat
  /\ \A fd \in Fds, typ \in Types :
       /\ [sock |-> fd, typ |-> typ] # None
       /\ \A n \in 1 .. MaxGen : [sock |-> fd, typ |-> typ, gen |-> n] \notin {None, Garbage}

VARIABLES
  tab,       (* the tables of EloopTables                                   *)
  file,      (* the file a descriptor stands for: n, or -n once it is closed*)
  ready,     (* the descriptors that have something to say                  *)
  timeouts,  (* the list of timeouts                                        *)
  now,       (* the clock                                                   *)
  tms,       (* timeout_ms, kept from one round to the next                 *)
  until,     (* when epoll_wait returns without events                      *)
  signals,   (* for each signal, its signaled                               *)
  signaled, pending,   (* eloop.signaled, pending_terminate                 *)
  sigi, back,          (* the pass over signals, and where it was called    *)
  eterm,     (* eloop.terminate                                             *)
  pc, cur,   (* where the loop is, and the handler that runs                *)
  events,    (* what epoll_wait has returned and is not dispatched yet      *)
  moved,     (* has epoll_events moved since the loop took its address?     *)
  other,     (* the registration of another thread in progress              *)
  left,      (* the calls that may still be made                            *)
  untidy,    (* history: descriptors closed before they were unregistered,  *)
             (* registered again, or whose registration by another thread   *)
             (* was overtaken by one of the loop's                          *)
  raced,     (* history: has another thread come in?                        *)
  missed,    (* history: did a signal come after the check for pending ones?*)
  fault

socks == <<tab, file, ready, moved, untidy>>
clock == <<now, tms, until>>
sigs == <<signals, signaled, pending, sigi, back, missed>>
run == <<pc, cur, events>>
outside == <<other, raced>>
vars == <<socks, timeouts, clock, sigs, eterm, run, outside, left, fault>>

NoHandler == [after |-> "none", fd |-> -1]
H(fd, typ, gen) == [sock |-> fd, typ |-> typ, gen |-> gen]
Spend(what) == left[what] # 0 /\ left' = [left EXCEPT ![what] = IF @ > 0 THEN @ - 1 ELSE @]

Init ==
  /\ tab = EmptyTables /\ file = [fd \in Fds |-> 0] /\ ready = {} /\ moved = FALSE
  /\ timeouts = <<>> /\ now = 0 /\ tms = -1 /\ until = -1
  /\ signals = [i \in 1 .. Len(Sigs) |-> FALSE] /\ signaled = FALSE /\ pending = FALSE
  /\ sigi = 0 /\ back = "none" /\ missed = FALSE
  /\ eterm = FALSE /\ pc = "setup" /\ cur = NoHandler /\ events = <<>>
  /\ other = None /\ left \in Budgets /\ untidy = {} /\ raced = FALSE /\ fault = "none"

(* The code that uses the loop runs before it, or is one of its handlers.  *)
InApp == pc \in {"setup", "handler"}
-----------------------------------------------------------------------------
(* Sockets.  The kernel gives out the lowest descriptor that is free.      *)
Lowest(fd) ==
  file[fd] \in (1 - MaxGen) .. 0 /\ \A other_fd \in Fds : other_fd < fd => file[other_fd] > 0

Open(fd) ==
  /\ InApp /\ Lowest(fd) /\ Spend("opens")
  /\ file' = [file EXCEPT ![fd] = 1 - @]
  /\ UNCHANGED <<tab, ready, moved, untidy, timeouts, clock, sigs, eterm, run, outside, fault>>

(* A descriptor that is registered already; one of that type that another  *)
(* thread has registered and not stored in fd_table yet.                   *)
Already(fd) == {f \in {fd} : Registered(tab, f)}
Storing(typ) == {f \in Fds : other = [sock |-> f, typ |-> typ]}

Close(fd) ==
  /\ InApp /\ file[fd] > 0
  /\ file' = [file EXCEPT ![fd] = -@]
  /\ ready' = ready \ {fd}
  /\ tab' = Closed(tab, fd)
  /\ untidy' = untidy \cup Already(fd)
  /\ UNCHANGED <<moved, timeouts, clock, sigs, eterm, run, outside, left, fault>>

Adds(fd, typ, NewTab) ==
  /\ tab' = NewTab
  /\ moved' = (moved \/ tab'.max_events # tab.max_events)
  /\ untidy' = untidy \cup Already(fd) \cup Storing(typ)

Register(fd, typ) ==
  /\ InApp /\ file[fd] > 0 /\ Spend("socks") /\ count(tab) < left.rows
  /\ Adds(fd, typ, RegisterSock(tab, fd, typ, H(fd, typ, file[fd]), TRUE))
  /\ UNCHANGED <<file, ready, timeouts, clock, sigs, eterm, run, outside, fault>>

Unregister(fd, typ) ==
  /\ InApp /\ Registered(tab, fd)
  /\ tab' = RemoveSock(tab, fd, typ)
  /\ untidy' = untidy \cup ({fd} \cap Storing(typ))
  /\ UNCHANGED <<file, ready, moved, timeouts, clock, sigs, eterm, run, outside, left, fault>>

(* Another thread opens and registers a socket, or unregisters and closes  *)
(* one, while the loop sleeps.  It copies the row into fd_table only after *)
(* the kernel watches the socket.                                          *)
OtherRegisters(fd, typ) ==
  /\ pc = "asleep" /\ other = None /\ Lowest(fd) /\ Spend("others")
  /\ file' = [file EXCEPT ![fd] = 1 - @]
  /\ Adds(fd, typ, SockQueue(tab, fd, typ, H(fd, typ, 1 - file[fd]), TRUE))
  /\ other' = [sock |-> fd, typ |-> typ] /\ raced' = TRUE
  /\ UNCHANGED <<ready, timeouts, clock, sigs, eterm, run, fault>>

OtherStores ==
  /\ other # None
  /\ tab' = Store(tab, other.sock, other.typ)
  /\ other' = None
  /\ UNCHANGED <<file, ready, moved, untidy, timeouts, clock, sigs, eterm, run, raced, left, fault>>

OtherUnregisters(fd, typ) ==
  /\ pc = "asleep" /\ other = None /\ file[fd] > 0 /\ FirstRow(tab, fd, typ) # 0 /\ Spend("others")
  /\ tab' = Closed(RemoveSock(tab, fd, typ), fd)
  /\ file' = [file EXCEPT ![fd] = -@]
  /\ ready' = ready \ {fd}
  /\ untidy' = IF Registered(tab', fd) THEN untidy \cup {fd} ELSE untidy
  /\ raced' = TRUE
  /\ UNCHANGED <<moved, timeouts, clock, sigs, eterm, run, other, fault>>

(* The environment: something arrives.                                     *)
Arrive(fd) ==
  /\ file[fd] > 0 /\ fd \notin ready /\ tab.watched[fd] # "no"
  /\ ready' = ready \cup {fd}
  /\ UNCHANGED <<tab, file, moved, untidy, timeouts, clock, sigs, eterm, run, outside, left, fault>>
-----------------------------------------------------------------------------
(* Timeouts.  Mutant: a new one goes to the end of the list.               *)
InsertedLast(list, t) == Append(list, t)

(* The list stays in order, and a new one comes behind those of its time.  *)
Inserted(list, t) ==
  LET i == SelectInSeq(list, LAMBDA u : t.time < u.time)
  IN  IF i = 0 THEN Append(list, t) ELSE InsertAt(list, i, t)

Cancelled(list, keys) == SelectSeq(list, LAMBDA t : t.key \notin keys)
Find(k) == SelectInSeq(timeouts, LAMBDA t : t.key = k)
InTime(secs) == secs <= left.ticks

RegisterTimeout(secs, k) ==
  /\ InApp /\ InTime(secs) /\ Spend("timeouts")
  /\ timeouts' = Inserted(timeouts, [time |-> now + secs, key |-> k])
  /\ UNCHANGED <<socks, clock, sigs, eterm, run, outside, fault>>

(* eloop_cancel_timeout, with ELOOP_ALL_CTX for several keys at once.      *)
CancelTimeout(keys) ==
  /\ InApp /\ timeouts # <<>>
  /\ timeouts' = Cancelled(timeouts, keys)
  /\ UNCHANGED <<socks, clock, sigs, eterm, run, outside, left, fault>>

CancelTimeoutOne(k) ==
  /\ InApp /\ Find(k) # 0
  /\ timeouts' = RemoveAt(timeouts, Find(k))
  /\ UNCHANGED <<socks, clock, sigs, eterm, run, outside, left, fault>>

(* eloop_deplete_timeout and eloop_replenish_timeout look at the first of  *)
(* a key, and replace all of that key.                                     *)
Reset(secs, k) ==
  /\ Spend("timeouts") /\ InTime(secs)
  /\ timeouts' = Inserted(Cancelled(timeouts, {k}), [time |-> now + secs, key |-> k])
  /\ UNCHANGED <<socks, clock, sigs, eterm, run, outside, fault>>
DepleteTimeout(secs, k) ==
  InApp /\ Find(k) # 0 /\ secs < timeouts[Find(k)].time - now /\ Reset(secs, k)
ReplenishTimeout(secs, k) ==
  InApp /\ Find(k) # 0 /\ timeouts[Find(k)].time - now < secs /\ Reset(secs, k)

(* Time passes while the loop sleeps, or works with nobody waiting for it. *)
Tick ==
  /\ pc # "done" /\ pc # "destroyed" /\ Spend("ticks")
  /\ now' = now + 1
  /\ UNCHANGED <<socks, timeouts, tms, until, sigs, eterm, run, outside, fault>>
-----------------------------------------------------------------------------
(* eloop_handle_signal, on the thread of the loop; it interrupts the wait. *)
Signal(i) ==
  /\ pc \notin {"setup", "done", "destroyed"} /\ Spend("sigs")
  /\ signals' = [signals EXCEPT ![i] = TRUE]
  /\ signaled' = TRUE
  /\ pending' = (pending \/ Sigs[i] \in Terminating)
  /\ missed' = (missed \/ pc = "presleep" \/ (sigi > 0 /\ back = "presleep"))
  /\ IF pc = "asleep" THEN pc' = "woken" /\ events' = <<>> ELSE UNCHANGED <<pc, events>>
  /\ UNCHANGED <<socks, timeouts, clock, sigi, back, eterm, cur, outside, fault>>

Terminate ==
  /\ pc # "destroyed" /\ ~eterm /\ Spend("terminates")
  /\ eterm' = TRUE
  /\ UNCHANGED <<socks, timeouts, clock, sigs, run, outside, fault>>

(* eloop_process_pending_signals, called at `from`.                        *)
ProcessSignals(from) ==
  /\ back' = from
  /\ IF signaled THEN pc' = "signals" /\ sigi' = 1 /\ signaled' = FALSE /\ pending' = FALSE /\ missed' = FALSE
     ELSE pc' = from /\ UNCHANGED <<sigi, signaled, pending, missed>>

(* Mutant: the count of signals is reset after the pass.                   *)
SignalPassResets ==
  /\ pc = "signals"
  /\ LET due == {i \in sigi .. Len(Sigs) : signals[i]}
     IN  IF due # {}
         THEN LET i == CHOOSE j \in due : \A k \in due : j <= k
              IN  /\ signals' = [signals EXCEPT ![i] = FALSE] /\ sigi' = i + 1
                  /\ pc' = "handler" /\ cur' = [after |-> "signals", fd |-> -1]
                  /\ UNCHANGED <<signaled, eterm>>
         ELSE /\ pc' = IF back = "presleep" /\ eterm THEN "done" ELSE back
              /\ eterm' = (eterm /\ pc' # "done")
              /\ sigi' = 0 /\ signaled' = FALSE
              /\ UNCHANGED <<signals, cur>>
  /\ UNCHANGED <<socks, timeouts, clock, pending, back, missed, events, outside, left, fault>>

(* One handler of a signal, or the end of the pass; where the pass began   *)
(* at the top of the loop, eloop.terminate is read once more.              *)
SignalPass ==
  /\ pc = "signals"
  /\ LET due == {i \in sigi .. Len(Sigs) : signals[i]}
     IN  IF due # {}
         THEN LET i == CHOOSE j \in due : \A k \in due : j <= k
              IN  /\ signals' = [signals EXCEPT ![i] = FALSE] /\ sigi' = i + 1
                  /\ pc' = "handler" /\ cur' = [after |-> "signals", fd |-> -1]
                  /\ UNCHANGED eterm
         ELSE /\ pc' = IF back = "presleep" /\ eterm THEN "done" ELSE back
              /\ eterm' = (eterm /\ pc' # "done")
              /\ sigi' = 0
              /\ UNCHANGED <<signals, cur>>
  /\ UNCHANGED <<socks, timeouts, clock, signaled, pending, back, missed, events, outside, left, fault>>
-----------------------------------------------------------------------------
(* eloop_run.                                                              *)
Begin ==
  /\ pc = "setup"
  /\ pc' = "top"
  /\ UNCHANGED <<socks, timeouts, clock, sigs, eterm, cur, events, outside, left, fault>>

Top ==
  /\ pc = "top"
  /\ IF eterm \/ (timeouts = <<>> /\ count(tab) = 0)
     THEN pc' = "done" /\ eterm' = FALSE /\ UNCHANGED <<sigi, back, signaled, pending, missed>>
     ELSE /\ UNCHANGED eterm
          /\ IF pending THEN ProcessSignals("presleep")
             ELSE pc' = "presleep" /\ UNCHANGED <<sigi, back, signaled, pending, missed>>
  /\ UNCHANGED <<socks, timeouts, clock, signals, cur, events, outside, left, fault>>

(* The time to wait is that of the first timeout; without timeouts it is   *)
(* what it was before.  Without sockets there is no wait at all.           *)
Sleep ==
  /\ pc = "presleep"
  /\ tms' = IF timeouts = <<>> THEN tms
            ELSE IF timeouts[1].time > now THEN timeouts[1].time - now ELSE 0
  /\ until' = IF tms' < 0 THEN -1 ELSE now + tms'
  /\ pc' = IF count(tab) = 0 THEN "woken" ELSE "asleep"
  /\ moved' = FALSE
  /\ UNCHANGED <<tab, file, ready, untidy, timeouts, now, sigs, eterm, cur, events, outside, left, fault>>

(* epoll_wait returns events if there are any.                             *)
Wake ==
  /\ pc = "asleep"
  /\ LET lists == EventLists(tab, ready)
     IN  IF lists # {}
         THEN \E l \in lists : events' = [i \in 1 .. Len(l) |-> [fd |-> l[i], gen |-> file[l[i]]]]
         ELSE until >= 0 /\ now >= until /\ events' = <<>>
  /\ pc' = "woken"
  /\ UNCHANGED <<socks, timeouts, clock, sigs, eterm, cur, outside, left, fault>>

(* Mutant: the marks of changes are never reset.                           *)
WokenMarked ==
  /\ pc = "woken"
  /\ fault' = IF moved /\ events # <<>> THEN "moved" ELSE fault
  /\ ProcessSignals("timeouts")
  /\ UNCHANGED <<socks, timeouts, clock, signals, eterm, cur, events, outside, left>>

Woken ==
  /\ pc = "woken"
  /\ fault' = IF moved /\ events # <<>> THEN "moved" ELSE fault
  /\ tab' = [tab EXCEPT !.changed = FALSE]
  /\ ProcessSignals("timeouts")
  /\ UNCHANGED <<file, ready, moved, untidy, timeouts, clock, signals, eterm, cur, events, outside, left>>

(* At most one timeout in each round.                                      *)
RunTimeout ==
  /\ pc = "timeouts"
  /\ IF timeouts # <<>> /\ timeouts[1].time <= now
     THEN timeouts' = Tail(timeouts) /\ pc' = "handler" /\ cur' = [after |-> "sockets", fd |-> -1]
     ELSE pc' = "sockets" /\ UNCHANGED <<timeouts, cur>>
  /\ UNCHANGED <<socks, clock, sigs, eterm, events, outside, left, fault>>

(* Mutant: what timeout and signal handlers have changed is not asked for. *)
SocketsUnasked ==
  /\ pc = "sockets"
  /\ IF events = <<>> THEN pc' = "top" /\ UNCHANGED events
     ELSE pc' = "dispatch" /\ UNCHANGED events
  /\ moved' = FALSE
  /\ UNCHANGED <<tab, file, ready, untidy, timeouts, clock, sigs, eterm, cur, outside, left, fault>>

Sockets ==
  /\ pc = "sockets"
  /\ IF events = <<>> \/ tab.changed THEN pc' = "top" /\ events' = <<>>
     ELSE pc' = "dispatch" /\ UNCHANGED events
  /\ moved' = FALSE
  /\ UNCHANGED <<tab, file, ready, untidy, timeouts, clock, sigs, eterm, cur, outside, left, fault>>

(* eloop_sock_table_dispatch, one event.                                   *)
Dispatch ==
  /\ pc = "dispatch"
  /\ IF events = <<>> THEN pc' = "top" /\ UNCHANGED <<cur, events, fault>>
     ELSE LET e == Head(events)  h == tab.entry[e.fd]
          IN  /\ events' = Tail(events)
              /\ fault' = IF moved THEN "moved" ELSE IF h = Garbage THEN "garbage" ELSE fault
              /\ IF h \in {None, Garbage} THEN UNCHANGED <<pc, cur>>
                 ELSE /\ pc' = "handler"
                      /\ cur' = [after |-> "dispatch", fd |-> e.fd, h |-> h, gen |-> e.gen]
  /\ UNCHANGED <<socks, timeouts, clock, sigs, eterm, outside, left>>

(* A handler returns, having read what there was or not.  Where it has     *)
(* changed a table the other events are dropped.                           *)
Return ==
  /\ pc = "handler"
  /\ cur' = NoHandler
  /\ ready' \in {ready, ready \ {cur.fd}}
  /\ IF cur.after = "dispatch" /\ tab.changed THEN pc' = "top" /\ events' = <<>>
     ELSE pc' = cur.after /\ UNCHANGED events
  /\ UNCHANGED <<tab, file, moved, untidy, timeouts, clock, sigs, eterm, outside, left, fault>>

(* eloop_destroy; nothing is left of the lists.                            *)
Destroy ==
  /\ pc = "done"
  /\ pc' = "destroyed"
  /\ timeouts' = <<>> /\ tab' = EmptyTables
  /\ UNCHANGED <<file, ready, moved, untidy, clock, sigs, eterm, cur, events, outside, left, fault>>

LoopStep ==
  \/ Begin \/ Top \/ SignalPass \/ Sleep \/ Wake \/ Woken \/ RunTimeout \/ Sockets \/ Dispatch
  \/ Return \/ Destroy
AppStep ==
  \/ \E fd \in Fds : \/ Open(fd) \/ Close(fd)
                     \/ \E typ \in Types : Register(fd, typ) \/ Unregister(fd, typ)
  \/ \E k \in Keys : \/ CancelTimeoutOne(k) \/ CancelTimeout({k})
                     \/ \E secs \in 0 .. MaxNow : \/ RegisterTimeout(secs, k)
                                                  \/ DepleteTimeout(secs, k) \/ ReplenishTimeout(secs, k)
  \/ CancelTimeout(Keys)
OtherStep ==
  \/ \E fd \in Fds, typ \in Types : OtherRegisters(fd, typ) \/ OtherUnregisters(fd, typ)
  \/ OtherStores
Environment ==
  \/ \E fd \in Fds : Arrive(fd)
  \/ \E i \in 1 .. Len(Sigs) : Signal(i)
  \/ Tick \/ Terminate

Next == fault = "none" /\ (LoopStep \/ AppStep \/ OtherStep \/ Environment)

(* The loop runs, its handlers return, time passes, and another thread     *)
(* finishes what it has begun.                                             *)
Fairness ==
  /\ WF_vars(fault = "none" /\ LoopStep) /\ WF_vars(fault = "none" /\ Tick)
  /\ WF_vars(fault = "none" /\ OtherStores)
Spec == Init /\ [][Next]_vars /\ Fairness
-----------------------------------------------------------------------------
TableTypes ==
  /\ tab.max_sock \in Nat /\ tab.max_fd \in Nat /\ tab.max_events \in Nat /\ tab.changed \in BOOLEAN
  /\ \A i \in 1 .. count(tab) : tab.rows[i].sock \in Fds /\ tab.rows[i].typ \in Types
  /\ file \in [Fds -> -MaxGen .. MaxGen] /\ ready \subseteq Fds
TypeOK ==
  /\ TableTypes
  /\ \A i \in 1 .. Len(timeouts) : timeouts[i].key \in Keys /\ timeouts[i].time \in 0 .. MaxNow
  /\ tms \in -1 .. MaxNow /\ sigi \in 0 .. Len(Sigs) + 1
  /\ pc \in {"setup", "top", "presleep", "asleep", "woken", "signals", "timeouts", "sockets",
             "dispatch", "handler", "done", "destroyed"}

(* epoll_wait is told that there is room for `count` events (eloop.c:1152):*)
(* the array has that room, the kernel never has more to return, and       *)
(* fd_table has a place for each, whatever is closed, registered twice or  *)
(* refused by the kernel.                                                  *)
EventsFit ==
  LET watching == {fd \in Fds : tab.watched[fd] # "no"}
  IN  /\ Cardinality(watching) <= count(tab) /\ count(tab) <= tab.max_events
      /\ \A fd \in watching : fd < tab.max_fd

(* A descriptor that is never closed while it is registered, nor           *)
(* registered twice, is watched exactly while it is registered, for that   *)
(* type, and fd_table has the handler of the file it stands for (unless    *)
(* two threads register sockets of one type at once).                      *)
TidyExact ==
  \A fd \in Fds \ untidy :
    IF Registered(tab, fd)
    THEN /\ \E h \in {H(fd, tab.watched[fd], file[fd])} :
              /\ \A i \in 1 .. count(tab) : tab.rows[i].sock = fd => tab.rows[i].h = h
              /\ other = None => tab.entry[fd] = h
    ELSE tab.watched[fd] = "no"

(* The tables of the event loop fit the registrations at every moment.     *)
TablesExact == TableTypes /\ EventsFit /\ TidyExact

(* A handler is called for an event of the file it was registered for, and *)
(* while it is registered: "Sockets may have been closed and reopened with *)
(* the same FD" (eloop.c:1216).                                            *)
DispatchSound ==
  [][pc = "dispatch" /\ pc' = "handler" /\ cur'.fd \notin untidy =>
       /\ cur'.h.gen = cur'.gen /\ file[cur'.fd] = cur'.gen
       /\ \E i \in 1 .. count(tab) : tab.rows[i].h = cur'.h]_vars

(* Memory is used after it was freed, or before it was written, only if    *)
(* another thread has registered a socket.                                 *)
FaultNeedsOthers == fault # "none" => raced

(* A timeout runs when it is due, and no other one is due before it.       *)
FiresEarliest ==
  [][pc = "timeouts" /\ timeouts' # timeouts =>
       \A i \in 1 .. Len(timeouts) : timeouts[1].time <= timeouts[i].time /\ timeouts[1].time <= now]_vars

(* A signal that has come is still to be seen, however it comes in between *)
(* the steps of the pass over those that have come before.                 *)
NoSignalForgotten ==
  \A i \in 1 .. Len(Sigs) :
    signals[i] /\ pc # "destroyed" => signaled \/ (sigi > 0 /\ i >= sigi)

(* The loop does not go to sleep with a terminating signal unanswered,     *)
(* which the alarm answers by killing the program (eloop.c:966), unless it *)
(* came after the check at the top of the loop.                            *)
SleepsInformed == pc = "asleep" /\ pending => missed

(* No signal is forgotten, and the loop does not sleep with one pending.   *)
SignalsHeard == NoSignalForgotten /\ SleepsInformed

(* Once the registrations stay as they are, whatever they were before,     *)
(* what is ready is handled, unless the socket is unregistered or closed,  *)
(* the loop ends or another thread has damaged the tables.  Handlers that  *)
(* change a table in every round do starve the sockets behind theirs: the  *)
(* rest of the events is dropped each time (eloop.c:633, 1213).            *)
Settled == <>[][tab'.rows = tab.rows]_vars
ReadyServed ==
  Settled =>
    \A fd \in Fds :
      fd \in ready /\ fd \notin untidy ~>
        \/ cur.fd = fd \/ tab.watched[fd] = "no" \/ fd \in untidy \/ pc = "destroyed" \/ fault # "none"

(* Timeouts run or are cancelled, however many sockets are ready.          *)
TimeoutsRun == timeouts # <<>> ~> timeouts = <<>> \/ fault # "none"
=============================================================================
