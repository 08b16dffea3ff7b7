----------------------------- MODULE LuaMacros -----------------------------
(***************************************************************************)
(* The macros of src/src/extras/cevfm_luamac.c: files that an initialiser  *)
(* loads into one Lua interpreter and that are then called for events and  *)
(* as procedures, by any thread, under one mutex.  What the Lua code does  *)
(* is a choice: it returns what is expected or something else, it calls a  *)
(* procedure, it clears the global of a macro.  An error in Lua ends the   *)
(* program and is left out, as is the size of the interpreter's stack.     *)
(* Bounds: the files, the calls of each kind.                              *)
(***************************************************************************)
EXTENDS Naturals, Sequences, FiniteSets, SequencesExt

CONSTANTS Threads, Types, Numbers,  (* types of events, numbers of procedures *)
          All,       (* CEVF_RESERVED_EV_THEND: macros for every event      *)
          None,
          Directories,  (* sequences of files, records: name, table, fails, *)
                        (* main, pcd, kind and arr of cevf_events           *)
          Budget        (* record: events, procs, drops                     *)

(* The names of files in a directory differ; a type that is a number is    *)
(* one.                                                                    *)
LuaMacrosParameters ==
  /\ None \notin Threads
  /\ \A d \in Directories :
       /\ Len(d) \in Nat
       /\ \A i, j \in 1 .. Len(d) : i # j => d[i].name # d[j].name
       /\ \A i \in 1 .. Len(d) :
            /\ d[i].kind \in {"nil", "number", "table", "other"}
            /\ Len(d[i].arr) \in Nat
            /\ d[i].kind = "number" => Len(d[i].arr) = 1

VARIABLES
  phase,         (* "load", "run", "failed" or "ended"                      *)
  files, loaded, (* the directory; how many of its files have been loaded   *)
  names, pcds,   (* m_evtyp_modnamelst, m_pcdno_modname                     *)
  sound,         (* macros whose global has a main function                 *)
  mutex,         (* who has locked L_mutex                                  *)
  stack,         (* for each thread the calls it is in, innermost last      *)
  left,
  kept,          (* history: has a call returned with the mutex locked?     *)
  nested,        (* history: has a macro called a macro's procedure?        *)
  fault          (* has a name been freed twice?                            *)

tables == <<phase, files, loaded, names, pcds>>
history == <<kept, nested, fault>>
vars == <<tables, sound, mutex, stack, left, history>>

Spend(what) == left[what] > 0 /\ left' = [left EXCEPT ![what] = @ - 1]

Init ==
  /\ phase = "load" /\ files \in Directories /\ loaded = 0
  /\ names = [t \in Types \cup {All} |-> <<>>] /\ pcds = [n \in Numbers |-> None]
  /\ sound = {} /\ mutex = None /\ stack = [t \in Threads |-> <<>>]
  /\ left = Budget /\ kept = FALSE /\ nested = FALSE /\ fault = FALSE
-----------------------------------------------------------------------------
(* How often _load_lua_mod_register_ev enters a macro for the type t.  The *)
(* loop counts from 0 and the array from 1, so the last type of a table is *)
(* left out; with none that is a number the macro is called for every      *)
(* event.                                                                  *)
Registered(f, t) ==
  LET typed == {i \in 1 .. Len(f.arr) - 1 : f.arr[i] \in Types}
  IN  CASE f.kind = "nil" -> 0
        [] f.kind = "number" -> IF f.arr[1] = t THEN 1 ELSE 0
        [] f.kind = "table" /\ typed # {} -> Cardinality({i \in typed : f.arr[i] = t})
        [] OTHER -> IF t = All THEN 1 ELSE 0

(* load_lua_mod, one file: as a procedure if it has a number, or else for  *)
(* events.                                                                 *)
Load ==
  /\ phase = "load" /\ loaded < Len(files)
  /\ LET f == files[loaded + 1]
         added == f.pcd # None \/ f.kind # "nil"
     IN  /\ phase' = IF f.table /\ f.fails THEN "failed" ELSE phase
         /\ IF f.table /\ ~f.fails /\ f.main
            THEN /\ sound' = IF added THEN sound \cup {f.name} ELSE sound
                 /\ IF f.pcd # None
                    THEN pcds' = [pcds EXCEPT ![f.pcd] = f.name] /\ UNCHANGED names
                    ELSE /\ names' = [t \in Types \cup {All} |->
                                        names[t] \o [i \in 1 .. Registered(f, t) |-> f.name]]
                         /\ UNCHANGED pcds
            ELSE UNCHANGED <<sound, names, pcds>>
  /\ loaded' = loaded + 1
  /\ UNCHANGED <<files, mutex, stack, left, history>>

Loaded ==
  /\ phase = "load" /\ loaded = Len(files)
  /\ phase' = "run"
  /\ UNCHANGED <<files, loaded, names, pcds, sound, mutex, stack, left, history>>
-----------------------------------------------------------------------------
(* Calls.  An event is handled by the macros of its type and then by those *)
(* for every event; a procedure by one macro.                              *)
Top(t) == Last(stack[t])
Inside(t, pc) == stack[t] # <<>> /\ Top(t).pc = pc
Goes(t, frame) == stack' = [stack EXCEPT ![t] = Append(Front(@), frame)]
Returns(t) == stack' = [stack EXCEPT ![t] = Front(@)]
Call(t, kind, todo) == stack' = [stack EXCEPT ![t] = Append(@, [kind |-> kind, todo |-> todo, pc |-> "lock"])]

Event(t, e) ==
  /\ phase = "run" /\ stack[t] = <<>> /\ Spend("events")
  /\ Call(t, "event", names[e])
  /\ UNCHANGED <<tables, sound, mutex, history>>

Proc(t, n) ==
  /\ phase = "run" /\ stack[t] = <<>> /\ pcds[n] # None /\ Spend("procs")
  /\ Call(t, "proc", <<pcds[n]>>)
  /\ UNCHANGED <<tables, sound, mutex, history>>

(* The list is at its end: the other list, or the handler returns.         *)
EndOfList(t) ==
  /\ Inside(t, "lock") /\ Top(t).todo = <<>>
  /\ IF Top(t).kind = "event" THEN Goes(t, [kind |-> "all", todo |-> names[All], pc |-> "lock"])
     ELSE Returns(t)
  /\ UNCHANGED <<tables, sound, mutex, left, history>>

(* _exec_mainf_t1 and _t2: where the global or its function is missing     *)
(* they return 0 with the mutex locked, as they do for a result of another *)
(* kind.                                                                   *)
Next1(t) == Goes(t, [Top(t) EXCEPT !.todo = Tail(@), !.pc = "lock"])

(* Mutant: the mutex is not waited for.                                    *)
EnterUnlocked(t) ==
  /\ Inside(t, "lock") /\ Top(t).todo # <<>>
  /\ mutex' = t
  /\ IF Head(Top(t).todo) \in sound
     THEN Goes(t, [Top(t) EXCEPT !.pc = "main"]) /\ UNCHANGED kept
     ELSE Next1(t) /\ kept' = TRUE
  /\ UNCHANGED <<tables, sound, left, nested, fault>>

Enter(t) ==
  /\ Inside(t, "lock") /\ Top(t).todo # <<>> /\ mutex = None
  /\ mutex' = t
  /\ IF Head(Top(t).todo) \in sound
     THEN Goes(t, [Top(t) EXCEPT !.pc = "main"]) /\ UNCHANGED kept
     ELSE Next1(t) /\ kept' = TRUE
  /\ UNCHANGED <<tables, sound, left, nested, fault>>

(* cevf_exec_procedure in a macro, of another macro's procedure.           *)
MainCalls(t, n) ==
  /\ Inside(t, "main") /\ pcds[n] # None /\ Spend("procs")
  /\ Call(t, "proc", <<pcds[n]>>)
  /\ nested' = TRUE
  /\ UNCHANGED <<tables, sound, mutex, kept, fault>>

MainClears(t, m) ==
  /\ Inside(t, "main") /\ m \in sound /\ Spend("drops")
  /\ sound' = sound \ {m}
  /\ UNCHANGED <<tables, mutex, stack, history>>

(* Mutant: the mutex stays locked when a macro asks for no more handlers.  *)
MainReturnsLocked(t) ==
  /\ Inside(t, "main")
  /\ \/ mutex' = None /\ Next1(t) /\ UNCHANGED kept
     \/ Top(t).kind # "proc" /\ Returns(t) /\ UNCHANGED <<mutex, kept>>
     \/ kept' = TRUE /\ Next1(t) /\ UNCHANGED mutex
  /\ UNCHANGED <<tables, sound, left, nested, fault>>

(* The function returns 0 (or a string), a number that ends the handling,  *)
(* or anything else.                                                       *)
MainReturns(t) ==
  /\ Inside(t, "main")
  /\ \/ mutex' = None /\ Next1(t) /\ UNCHANGED kept
     \/ Top(t).kind # "proc" /\ mutex' = None /\ Returns(t) /\ UNCHANGED kept
     \/ kept' = TRUE /\ Next1(t) /\ UNCHANGED mutex
  /\ UNCHANGED <<tables, sound, left, nested, fault>>

(* luamac_deinit, after every thread has been joined: the names in every   *)
(* list are freed, and a macro has one name in all of its lists.           *)
Deinit ==
  /\ phase = "run" /\ \A t \in Threads : stack[t] = <<>>
  /\ phase' = "ended"
  /\ fault' = \E t, u \in Types \cup {All} : \E i \in 1 .. Len(names[t]), j \in 1 .. Len(names[u]) :
                <<t, i>> # <<u, j>> /\ names[t][i] = names[u][j]
  /\ UNCHANGED <<files, loaded, names, pcds, sound, mutex, stack, left, kept, nested>>

Running(t) ==
  EndOfList(t) \/ Enter(t) \/ MainReturns(t)
Next ==
  \/ Load \/ Loaded \/ Deinit
  \/ \E t \in Threads :
       \/ \E e \in Types : Event(t, e)
       \/ \E n \in Numbers : Proc(t, n) \/ MainCalls(t, n)
       \/ Running(t)
       \/ \E m \in sound : MainClears(t, m)

(* Main functions return, and a mutex that is unlocked again and again is  *)
(* had by all who wait for it.                                             *)
Fairness == \A t \in Threads : SF_vars(Running(t))
Spec == Init /\ [][Next]_vars /\ Fairness
-----------------------------------------------------------------------------
TypeOK ==
  /\ phase \in {"load", "run", "failed", "ended"} /\ mutex \in Threads \cup {None}
  /\ \A t \in Threads, i \in 1 .. 3 : i <= Len(stack[t]) => stack[t][i].pc \in {"lock", "main"}

(* One thread at most is in the interpreter, and it holds the mutex, also  *)
(* when calls before it have returned with the mutex locked.               *)
OneInside ==
  \A t \in Threads : \A i \in 1 .. Len(stack[t]) :
    stack[t][i].pc = "main" => mutex = t /\ \A u \in Threads \ {t} : ~Inside(u, "main")

(* A name is freed twice only if some macro, and not one of a procedure,   *)
(* asks for three types of events or more.                                 *)
FaultExplained ==
  fault => \E i \in 1 .. Len(files) : files[i].pcd = None /\ Len(files[i].arr) > 2

(* A call of a macro returns, unless a macro has returned something else   *)
(* than was expected, was not there, or has called another's procedure.    *)
CallsReturn == \A t \in Threads : stack[t] # <<>> ~> stack[t] = <<>> \/ kept \/ nested
=============================================================================
