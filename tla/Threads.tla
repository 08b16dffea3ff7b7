------------------------------- MODULE Threads -------------------------------
(***************************************************************************)
(* Dynamic threads: ev_add_th, ev_rm_th, the end of a thread and ev_deinit *)
(* (src/src/cevf_ev.c), on the table that gives out their ids              *)
(* (src/src/utils/ids.c).                                                  *)
(*                                                                         *)
(* A removal is done by any thread that has an id, and by a dynamic thread *)
(* itself when its function has returned.  It gets the thinfo of the       *)
(* thread from the table, calls its terminator, joins it and frees it, and *)
(* releases the id, holding no lock from one step to the next.             *)
(*                                                                         *)
(* ids_add_item returns no value on success: its caller finds what         *)
(* pthread_mutex_unlock has returned (gcc, all levels of optimisation).    *)
(* fault records an access to freed memory.  Bounds: the calls of each     *)
(* client and the number of threads, one of the given plans.               *)
(***************************************************************************)
EXTENDS Integers, Sequences

CONSTANTS Threads,   (* 1 .. n; threads are numbered as they are started    *)
          Clients,   (* static threads that add and remove them             *)
          Main, Nobody,
          Plans      (* records: calls, of each client, and threads         *)

Callers == Clients \cup Threads \cup {Main}

ASSUME ThreadsAssumption ==
  /\ Threads \subseteq Nat /\ Clients \cap Threads = {}
  /\ Main \notin Clients \cup Threads /\ Nobody \notin Callers

VARIABLES
  slots, free,   (* item_arr, with Nobody for NULL, and freeid_arr          *)
  life,          (* how far each thread has come                            *)
  info,          (* its thinfo_s: "none", "live" or "freed"                 *)
  term,          (* is its terminator still in there?                       *)
  known,         (* does it know its id (dynamic_id)?                       *)
  told,          (* has its terminator been called?                         *)
  op,            (* for each caller, its step and the thread it is about    *)
  phase, turn,   (* how far ev_deinit is, and the index of ids_foreach      *)
  left,          (* calls each client may still make, and threads           *)
  lost,          (* history: threads a table entry was taken from unjoined  *)
  overlap,       (* history: did calls on one thread overlap?               *)
  fault

table == <<slots, free>>
thread == <<life, info, term, known, told>>
deinit == <<phase, turn>>
history == <<lost, overlap>>
vars == <<table, thread, op, deinit, left, history, fault>>

(* The only id that any call of ids_add_item returns.                      *)
ReturnedId == 0

Idle == [pc |-> "idle", th |-> Nobody]
At(c, pc) == ~fault /\ op[c].pc = pc
Goto(c, pc) == op' = [op EXCEPT ![c].pc = pc]
Die == fault' = TRUE /\ UNCHANGED <<table, thread, op, deinit, left, history>>

(* Reading a thinfo, or the table, that has been freed.                    *)
Uses(t, Step) == IF info[t] = "freed" THEN Die ELSE Step /\ UNCHANGED fault
UsesTable(Step) == IF phase = "ended" THEN Die ELSE Step /\ UNCHANGED fault

Init ==
  /\ slots = <<>> /\ free = <<>>
  /\ life = [t \in Threads |-> "unborn"]
  /\ info = [t \in Threads |-> "none"]
  /\ term = [t \in Threads |-> FALSE]
  /\ known = [t \in Threads |-> FALSE]
  /\ told = [t \in Threads |-> FALSE]
  /\ op = [c \in Callers |-> Idle]
  /\ phase = "running" /\ turn = 0
  /\ left \in Plans
  /\ lost = {} /\ overlap = FALSE /\ fault = FALSE
-----------------------------------------------------------------------------
(* ev_add_th: start the thread, put it in the table, store its id.         *)
CreateTh(c, t) ==
  /\ At(c, "idle") /\ phase = "running" /\ left.calls[c] > 0
  /\ t <= left.threads /\ \A u \in Threads : life[u] = "unborn" <=> u >= t
  /\ left' = [left EXCEPT !.calls[c] = @ - 1]
  /\ life' = [life EXCEPT ![t] = "runs"]
  /\ info' = [info EXCEPT ![t] = "live"]
  /\ term' = [term EXCEPT ![t] = TRUE]
  /\ op' = [op EXCEPT ![c] = [pc |-> "add", th |-> t]]
  /\ UNCHANGED <<table, known, told, deinit, history, fault>>

IdsAddItem(c) ==
  /\ At(c, "add")
  /\ IF free = <<>>
     THEN slots' = Append(slots, op[c].th) /\ UNCHANGED <<free, lost>>
     ELSE LET i == free[Len(free)] + 1
          IN  /\ slots' = [slots EXCEPT ![i] = op[c].th]
              /\ free' = SubSeq(free, 1, Len(free) - 1)
              /\ lost' = lost \cup ({slots[i]} \ {Nobody})
  /\ Goto(c, "store")
  /\ UNCHANGED <<thread, deinit, left, overlap, fault>>

StoreId(c) ==
  /\ At(c, "store")
  /\ Uses(op[c].th, /\ known' = [known EXCEPT ![op[c].th] = TRUE]
                    /\ op' = [op EXCEPT ![c] = Idle]
                    /\ UNCHANGED <<table, life, info, term, told, deinit, left, history>>)
-----------------------------------------------------------------------------
(* ev_rm_th by a client, which has the id from an earlier ev_add_th.       *)
RmTh(c) ==
  /\ At(c, "idle") /\ phase = "running" /\ left.calls[c] > 0
  /\ \E t \in Threads : known[t]
  /\ left' = [left EXCEPT !.calls[c] = @ - 1]
  /\ Goto(c, "get")
  /\ UNCHANGED <<table, thread, deinit, history, fault>>

(* Do others hold the thinfo of t, or will ev_deinit?                      *)
Shared(c, t) ==
  /\ t \notin {c, Nobody}
  /\ phase # "running" \/ \E d \in Callers \ {c, t} : op[d].th = t

GetItem(c) ==
  /\ At(c, "get")
  /\ UsesTable(LET t == slots[ReturnedId + 1]
               IN  /\ op' = [op EXCEPT ![c] = [pc |-> IF t = Nobody THEN "release" ELSE "term", th |-> t]]
                   /\ overlap' = (overlap \/ Shared(c, t))
                   /\ UNCHANGED <<table, thread, deinit, left, lost>>)

(* Mutant: the terminator is taken out and not called.                     *)
TakeTermUncalled(c) ==
  /\ At(c, "term")
  /\ Uses(op[c].th, /\ Goto(c, "join")
                    /\ term' = [term EXCEPT ![op[c].th] = FALSE]
                    /\ UNCHANGED <<table, life, info, known, told, deinit, left, history>>)

(* terminate_th, also of a dynamic thread by itself: whoever takes the     *)
(* terminator out calls it, with a context that it reads from thinfo.      *)
TakeTerm(c) ==
  /\ At(c, "term")
  /\ Uses(op[c].th, /\ Goto(c, IF term[op[c].th] THEN "call" ELSE "join")
                    /\ term' = [term EXCEPT ![op[c].th] = FALSE]
                    /\ UNCHANGED <<table, life, info, known, told, deinit, left, history>>)

CallTerm(c) ==
  /\ At(c, "call")
  /\ Uses(op[c].th, /\ told' = [told EXCEPT ![op[c].th] = TRUE]
                    /\ Goto(c, "join")
                    /\ UNCHANGED <<table, life, info, term, known, deinit, left, history>>)

(* pthread_join fails at once on the caller itself and on a thread that    *)
(* another thread is joining; then thinfo is not freed.                    *)
Join(c) ==
  /\ At(c, "join") /\ (c = Main => phase = "destroying")
  /\ Uses(op[c].th, /\ Goto(c, IF op[c].th = c \/ \E d \in Callers : op[d] = [pc |-> "joining", th |-> op[c].th]
                               THEN "release" ELSE "joining")
                    /\ UNCHANGED <<table, thread, deinit, left, history>>)

DestroyTh(c) ==
  /\ At(c, "joining")
  /\ life[op[c].th] = "ended"
  /\ Uses(op[c].th, /\ info' = [info EXCEPT ![op[c].th] = "freed"]
                    /\ Goto(c, "release")
                    /\ UNCHANGED <<table, life, term, known, told, deinit, left, history>>)

(* Mutant: the item leaves the table, its id is not released.              *)
IdsRmItemKeepsId(c) ==
  /\ At(c, "release") /\ c # Main
  /\ UsesTable(/\ slots' = [slots EXCEPT ![ReturnedId + 1] = Nobody]
               /\ op' = [op EXCEPT ![c] = Idle]
               /\ life' = IF c \in Threads THEN [life EXCEPT ![c] = "counts"] ELSE life
               /\ UNCHANGED <<free, info, term, known, told, deinit, left, history>>)

(* The entry may hold another thread by now, or one that is not joined.    *)
IdsRmItem(c) ==
  /\ At(c, "release") /\ c # Main
  /\ UsesTable(/\ free' = Append(free, ReturnedId)
               /\ slots' = [slots EXCEPT ![ReturnedId + 1] = Nobody]
               /\ lost' = lost \cup {t \in {slots[ReturnedId + 1]} \ {Nobody} : info[t] # "freed"}
               /\ op' = [op EXCEPT ![c] = Idle]
               /\ life' = IF c \in Threads THEN [life EXCEPT ![c] = "counts"] ELSE life
               /\ UNCHANGED <<info, term, known, told, deinit, left, overlap>>)
-----------------------------------------------------------------------------
(* The function of a thread returns, by itself or told to.                 *)
Return(t) ==
  /\ ~fault /\ life[t] = "runs"
  /\ life' = [life EXCEPT ![t] = "returned"]
  /\ UNCHANGED <<table, info, term, known, told, op, deinit, left, history, fault>>

(* ev_generic_thread_f goes on: a thread that knows its id removes itself, *)
(* or whichever thread that id stands for, another one takes its           *)
(* terminator and calls it.                                                *)
AfterReturn(t) ==
  /\ ~fault /\ life[t] = "returned"
  /\ Uses(t, IF known[t]
             THEN /\ life' = [life EXCEPT ![t] = "removes"]
                  /\ op' = [op EXCEPT ![t].pc = "get"]
                  /\ UNCHANGED <<table, info, term, known, told, deinit, left, history>>
             ELSE /\ life' = [life EXCEPT ![t] = "counts"]
                  /\ told' = [told EXCEPT ![t] = @ \/ term[t]]
                  /\ term' = [term EXCEPT ![t] = FALSE]
                  /\ UNCHANGED <<table, info, known, op, deinit, left, history>>)

(* th_cnt_dec reads thinfo and the counters, which ev_deinit frees.        *)
CountDown(t) ==
  /\ ~fault /\ life[t] = "counts"
  /\ UsesTable(Uses(t, /\ life' = [life EXCEPT ![t] = "ended"]
                       /\ UNCHANGED <<table, info, term, known, told, op, deinit, left, history>>))
-----------------------------------------------------------------------------
(* ev_deinit, when the static threads are joined: terminate the threads in *)
(* the table in turn, then destroy them in turn, then free the table.      *)
DeinitBegin ==
  /\ ~fault /\ phase = "running" /\ \A c \in Clients : op[c].pc = "idle"
  /\ phase' = "terminating" /\ turn' = 1
  /\ UNCHANGED <<table, thread, op, left, history, fault>>

MainDone(pc) == op[Main].pc \in {"idle", pc}

DeinitVisit ==
  /\ ~fault /\ phase \in {"terminating", "destroying"} /\ turn <= Len(slots)
  /\ MainDone(IF phase = "terminating" THEN "join" ELSE "release")
  /\ LET t == slots[turn]
     IN  /\ op' = [op EXCEPT ![Main] =
                     IF t = Nobody THEN Idle
                     ELSE [pc |-> IF phase = "terminating" THEN "term" ELSE "join", th |-> t]]
         /\ overlap' = (overlap \/ (t # Nobody /\ \E c \in Callers \ {Main, t} : op[c].th = t))
  /\ turn' = turn + 1
  /\ UNCHANGED <<table, thread, phase, left, lost, fault>>

DeinitPass ==
  /\ ~fault /\ phase \in {"terminating", "destroying"} /\ turn > Len(slots)
  /\ MainDone(IF phase = "terminating" THEN "join" ELSE "release")
  /\ phase' = IF phase = "terminating" THEN "destroying" ELSE "ended"
  /\ turn' = 1
  /\ op' = [op EXCEPT ![Main] = Idle]
  /\ UNCHANGED <<table, thread, left, history, fault>>

CallStep(c) ==
  \/ IdsAddItem(c) \/ StoreId(c) \/ GetItem(c) \/ TakeTerm(c) \/ CallTerm(c)
  \/ Join(c) \/ DestroyTh(c) \/ IdsRmItem(c)
ThreadEnds(t) == AfterReturn(t) \/ CountDown(t)
Deinit == DeinitVisit \/ DeinitPass

Next ==
  \/ \E c \in Clients : (\E t \in Threads : CreateTh(c, t)) \/ RmTh(c)
  \/ \E c \in Callers : CallStep(c)
  \/ \E t \in Threads : Return(t) \/ ThreadEnds(t)
  \/ DeinitBegin \/ Deinit

Spec == Init /\ [][Next]_vars
-----------------------------------------------------------------------------
TypeOK ==
  /\ slots \in Seq(Threads \cup {Nobody}) /\ free \in Seq(Nat)
  /\ life \in [Threads -> {"unborn", "runs", "returned", "removes", "counts", "ended"}]
  /\ info \in [Threads -> {"none", "live", "freed"}]
  /\ op \in [Callers -> [pc : {"idle", "add", "store", "get", "term", "call", "join", "joining", "release"},
                         th : Threads \cup {Nobody}]]
  /\ phase \in {"running", "terminating", "destroying", "ended"}
  /\ lost \subseteq Threads

(* Freed memory is used only if two calls on one thread overlapped, or     *)
(* ev_deinit ended while threads ran that had lost their entry: calls that *)
(* do not overlap are safe, although all threads share one id, and a       *)
(* thread that ends removes itself while it is being removed.              *)
FaultExplained == fault => overlap \/ (phase = "ended" /\ lost # {})

(* Every entry of the table is filled or free, so it is used again.        *)
NoEntryForgotten ==
  \A i \in 1 .. Len(slots) :
    slots[i] = Nobody => \E k \in 1 .. Len(free) : free[k] + 1 = i

(* When ev_deinit ends, every thread that ever ran has ended and its       *)
(* memory is free, but for those that a call pushed out of the table, and  *)
(* unless calls overlapped, so that one of two joins failed.               *)
DeinitLeavesNone ==
  phase = "ended" /\ ~fault /\ ~overlap =>
    \A t \in Threads \ lost : life[t] \in {"unborn", "ended"} /\ info[t] # "live"

(* Threads come and go, and are removed by anybody (ev_rm_th, ids_rm_item, *)
(* ev_deinit): every entry of the table holds one or will be used again,   *)
(* ev_deinit ends and frees all it can reach, and freed memory is used     *)
(* only where calls overlapped or an entry was lost.                       *)
ThreadsSound == TypeOK /\ FaultExplained /\ NoEntryForgotten /\ DeinitLeavesNone

(* Every ev_rm_th and ev_deinit returns if threads return once they are    *)
(* told: no joins wait for each other, and none for a thread nobody told.  *)
RemovalsReturn == <>[](fault \/ \A c \in Callers : op[c].pc = "idle")
=============================================================================
