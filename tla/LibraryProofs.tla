---------------------------- MODULE LibraryProofs ----------------------------
(***************************************************************************)
(* Proofs about the dynamic threads, for every number of threads, clients  *)
(* and calls of each; about the hash table, for all keys, values and hash  *)
(* functions; about the heap, for every size and all ranks; and about the  *)
(* time arithmetic, for all units and operands.                            *)
(***************************************************************************)
EXTENDS MCLibrary, SequenceTheorems, CountingLemmas

-----------------------------------------------------------------------------
(***************************************************************************)
(* Dynamic threads.                                                        *)
(***************************************************************************)

(* Steps at which a call holds the thinfo that it has got from the table.  *)
Removing == {"term", "call", "join", "joining"}

Types ==
  /\ TypeOK /\ free \in Seq({ReturnedId})
  /\ term \in [Threads -> BOOLEAN] /\ known \in [Threads -> BOOLEAN]
  /\ turn \in Nat /\ overlap \in BOOLEAN /\ fault \in BOOLEAN

(* Who can be at which step, and what it is about there.                   *)
Control ==
  /\ \A c \in Callers :
       /\ op[c].pc \in {"idle", "get"} => op[c].th = Nobody
       /\ op[c].pc \in {"add", "store"} => c \in Clients
       /\ op[c].pc \in {"add", "store"} \cup Removing => op[c].th \in Threads
       /\ op[c].pc = "joining" => op[c].th # c
  /\ \A t \in Threads : op[t].pc # "idle" <=> life[t] = "removes"
  /\ phase \in {"running", "ended"} => op[Main].pc = "idle"
  /\ phase = "terminating" => op[Main].pc \in {"idle", "term", "call", "join"}
  /\ phase = "destroying" => op[Main].pc \in {"idle", "join", "joining", "release"}
  /\ op[Main].pc # "idle" => op[Main].th \in Threads
  /\ phase # "running" => turn > 0 /\ \A c \in Clients : op[c].pc = "idle"

(* A thinfo is made with its thread, and freed only when that has ended.   *)
Infos ==
  \A t \in Threads :
    /\ info[t] = "none" <=> life[t] = "unborn"
    /\ info[t] = "freed" => life[t] = "ended"
    /\ \/ life[t] # "unborn"
       \/ (\A c \in Callers : op[c].th # t) /\ \A i \in 1 .. Len(slots) : slots[i] # t

(* All ids are 0: only the first place is ever emptied, a thread has one   *)
(* place, and a call holds the thread in the first place or one that is no *)
(* longer in the table.                                                    *)
Table ==
  /\ free # <<>> \/ (\E t \in Threads : known[t]) \/ (\E c \in Callers : op[c].pc \notin {"idle", "add"})
       => slots # <<>>
  /\ \A i \in 1 .. Len(slots) : slots[i] = Nobody => i = 1 /\ free # <<>>
  /\ \A i, j \in 1 .. Len(slots) : slots[i] = slots[j] => i = j
  /\ \A c \in Callers : op[c].pc = "add" =>
       /\ \A i \in 1 .. Len(slots) : slots[i] # op[c].th
       /\ \A d \in Callers \ {c} : op[d].th # op[c].th
  /\ \A c \in Callers \ {Main} : op[c].pc \in Removing \cup {"release"} =>
       \A i \in 1 .. Len(slots) : slots[i] = op[c].th => i = 1
  /\ op[Main].pc # "idle" => \A i \in 1 .. Len(slots) : slots[i] = op[Main].th => i = turn - 1

(* A thread is in the table, about to be put there, freed, or lost.        *)
Kept ==
  \A t \in Threads :
    \/ life[t] = "unborn" \/ t \in lost \/ info[t] = "freed"
    \/ \E i \in 1 .. Len(slots) : slots[i] = t
    \/ \E c \in Callers : op[c].pc = "add" /\ op[c].th = t

(* What calls that do not overlap may rely on: nobody else holds the same  *)
(* thread, what they hold is there, and what is freed is in the table only *)
(* until the call that freed it, or ev_deinit, has removed it.             *)
OneHolder ==
  \A c, d \in Callers : op[c].th = op[d].th /\ op[c].th # Nobody => c = d \/ op[c].th \in {c, d}
HeldLive ==
  \A c \in Callers :
    op[c].pc \in {"add", "store"} \cup Removing /\ op[c].th # c => info[op[c].th] = "live"
FreedLeaves ==
  \A i \in 1 .. Len(slots) : slots[i] # Nobody /\ info[slots[i]] = "freed" =>
    \/ \E c \in Callers \ {slots[i], Main} : op[c].pc = "release" /\ op[c].th = slots[i] /\ i = 1
    \/ phase = "destroying" /\ i < turn
    \/ phase = "ended"

(* ev_deinit has freed what it has gone past in its second turn.           *)
Destroyed ==
  /\ op[Main].pc = "release" => info[op[Main].th] = "freed"
  /\ phase = "destroying" =>
       \A i \in 1 .. Len(slots) : i < turn =>
         slots[i] = Nobody \/ info[slots[i]] = "freed" \/ op[Main].th = slots[i]
  /\ phase = "ended" => \A t \in Threads \ lost : life[t] = "unborn" \/ info[t] = "freed"

Apart == OneHolder /\ HeldLive /\ FreedLeaves /\ Destroyed

IInv == Types /\ Control /\ Infos /\ Table /\ Kept /\ (overlap \/ Apart) /\ FaultExplained
-----------------------------------------------------------------------------
(***************************************************************************)
(* Steps of a call.                                                        *)
(***************************************************************************)
Steps == {"idle", "add", "store", "get", "term", "call", "join", "joining", "release"}
Ops == [pc : Steps, th : Threads \cup {Nobody}]

(* The caller c is at a new step, about t, and nobody else moves.          *)
Moves(c, pc, t) ==
  /\ op' \in [Callers -> Ops] /\ op'[c] = [pc |-> pc, th |-> t]
  /\ \A d \in Callers \ {c} : op'[d] = op[d]

(* A step of c, whether it changes the record or only the place.           *)
LEMMA GotoMoves ==
  ASSUME Types, NEW c \in Callers, NEW pc \in Steps, Goto(c, pc)
  PROVE  Moves(c, pc, op[c].th)
BY DEF Types, TypeOK, Goto, Moves, Ops, Steps

(* The same with a new record.                                             *)
LEMMA SetMoves ==
  ASSUME Types, NEW c \in Callers, NEW pc \in Steps, NEW t \in Threads \cup {Nobody},
         op' = [op EXCEPT ![c] = [pc |-> pc, th |-> t]]
  PROVE  Moves(c, pc, t)
BY DEF Types, TypeOK, Moves, Ops, Steps

(* The callers are of three kinds.                                         *)
LEMMA Kinds ==
  /\ Clients \subseteq Callers /\ Threads \subseteq Callers /\ Main \in Callers
  /\ Main \notin Clients /\ Main \notin Threads /\ Nobody \notin Threads
  /\ \A t \in Threads : t \notin Clients
BY ThreadsAssumption DEF Callers

(* A thinfo is only read after it was freed if calls overlapped.           *)
LEMMA HeldUsable ==
  ASSUME IInv, NEW c \in Callers, op[c].pc \in {"add", "store"} \cup Removing
  PROVE  /\ op[c].th \in Threads
         /\ info[op[c].th] = "freed" => overlap
<1>1. op[c].th \in Threads
  BY DEF IInv, Control
<1>2. CASE op[c].th = c
  BY <1>1, <1>2 DEF IInv, Control, Infos, Removing
<1>3. CASE op[c].th # c
  BY <1>1, <1>3 DEF IInv, Apart, HeldLive
<1>4. QED
  BY <1>1, <1>2, <1>3

(* A program that dies stays as it is.                                     *)
LEMMA DieKeeps ==
  ASSUME IInv, Die, overlap \/ (phase = "ended" /\ lost # {})
  PROVE  IInv'
<1>1. UNCHANGED <<slots, free, life, info, term, known, op, phase, turn, lost, overlap>> /\ fault'
  BY DEF Die, table, thread, deinit, history
<1>2. Types' /\ FaultExplained'
  BY <1>1 DEF IInv, Types, TypeOK, FaultExplained
<1>3. Control' /\ Infos'
  BY <1>1 DEF IInv, Control, Infos
<1>4. Kept'
  BY <1>1 DEF IInv, Kept
<1>5. Table'
  BY <1>1 DEF IInv, Table
<1>6. overlap' \/ Apart'
  BY <1>1 DEF IInv, Apart, OneHolder, HeldLive, FreedLeaves, Destroyed
<1>7. QED
  BY <1>2, <1>3, <1>4, <1>5, <1>6 DEF IInv

(* A call that removes a thread goes on, and has not freed it.             *)
LEMMA MoveOn ==
  ASSUME IInv, Types', NEW c \in Callers, NEW pc \in Removing \cup {"release"},
         op[c].pc \in Removing, Moves(c, pc, op[c].th), pc = "joining" => op[c].th # c,
         c = Main => IF phase = "terminating" THEN pc \in {"term", "call", "join"}
                     ELSE pc \in {"join", "joining"} \/ (pc = "release" /\ overlap),
         UNCHANGED <<slots, free, life, info, known, phase, turn, lost, overlap, fault>>
  PROVE  IInv'
<1> USE DEF Removing, Moves
<1>1. Control'
  <2>1. \A d \in Callers :
          /\ op'[d].pc \in {"idle", "get"} => op'[d].th = Nobody
          /\ op'[d].pc \in {"add", "store"} => d \in Clients
          /\ op'[d].pc \in {"add", "store"} \cup Removing => op'[d].th \in Threads
          /\ op'[d].pc = "joining" => op'[d].th # d
          /\ op'[d].pc = "idle" <=> op[d].pc = "idle"
    BY DEF IInv, Control
  <2>2. /\ phase \in {"running", "ended"} => op'[Main].pc = "idle"
        /\ phase = "terminating" => op'[Main].pc \in {"idle", "term", "call", "join"}
        /\ phase = "destroying" => op'[Main].pc \in {"idle", "join", "joining", "release"}
        /\ op'[Main].pc # "idle" => op'[Main].th \in Threads
    BY Kinds DEF IInv, Control
  <2>3. QED
    BY <2>1, <2>2, Kinds DEF IInv, Control
<1>2. Infos'
  BY DEF IInv, Infos
<1>k. Kept'
  BY DEF IInv, Kept
<1>3. Table'
  <2>1. Table
    BY DEF IInv
  <2>2. \A d \in Callers : op'[d].th = op[d].th /\ (op'[d].pc # op[d].pc => op'[d].pc \in Removing \cup {"release"} /\ op[d].pc \in Removing)
    OBVIOUS
  <2>3. UNCHANGED <<slots, free, known, turn>>
    OBVIOUS
  <2>4. slots # <<>>
    BY <2>1 DEF Table
  <2>5. QED
    BY ONLY <2>1, <2>2, <2>3, <2>4, Kinds DEF Table, Removing
<1>4. ASSUME ~overlap'
      PROVE  Apart'
  <2>1. OneHolder' /\ HeldLive'
    BY <1>4 DEF IInv, Apart, OneHolder, HeldLive
  <2>2. FreedLeaves'
    BY <1>4 DEF IInv, Apart, FreedLeaves
  <2>3. Destroyed'
    BY <1>4, Kinds DEF IInv, Apart, Destroyed
  <2>4. QED
    BY <2>1, <2>2, <2>3 DEF Apart
<1>5. QED
  BY <1>1, <1>2, <1>k, <1>3, <1>4 DEF IInv, FaultExplained

(* terminate_th (cevf_ev.c:191).                                           *)
LEMMA TakeTermKeeps ==
  ASSUME IInv, NEW c \in Callers, TakeTerm(c)
  PROVE  IInv'
<1>1. op[c].pc = "term" /\ ~fault /\ op[c].th \in Threads /\ (info[op[c].th] = "freed" => overlap)
  BY HeldUsable DEF TakeTerm, At, Removing
<1>2. CASE info[op[c].th] = "freed"
  BY <1>1, <1>2, DieKeeps DEF TakeTerm, Uses
<1>3. CASE info[op[c].th] # "freed"
  <2>1. PICK pc \in {"call", "join"} : Goto(c, pc)
    BY <1>3 DEF TakeTerm, Uses
  <2>2. Moves(c, pc, op[c].th)
    BY <2>1, GotoMoves DEF Steps, IInv
  <2>3. Types'
    BY <1>1, <1>3, <2>2 DEF IInv, Types, TypeOK, TakeTerm, Uses, table, deinit, history, Moves, Ops, Steps
  <2>4. c = Main => phase = "terminating"
    BY <1>1 DEF IInv, Control, Types, TypeOK
  <2>5. QED
    BY <1>1, <1>3, <2>2, <2>3, <2>4, MoveOn DEF TakeTerm, Uses, table, deinit, history, Removing
<1>4. QED
  BY <1>2, <1>3

(* Whoever took the terminator out calls it (cevf_ev.c:198).               *)
LEMMA CallTermKeeps ==
  ASSUME IInv, NEW c \in Callers, CallTerm(c)
  PROVE  IInv'
<1>1. op[c].pc = "call" /\ ~fault /\ op[c].th \in Threads /\ (info[op[c].th] = "freed" => overlap)
  BY HeldUsable DEF CallTerm, At, Removing
<1>2. CASE info[op[c].th] = "freed"
  BY <1>1, <1>2, DieKeeps DEF CallTerm, Uses
<1>3. CASE info[op[c].th] # "freed"
  <2>1. Moves(c, "join", op[c].th)
    BY <1>3, GotoMoves DEF CallTerm, Uses, Steps, IInv
  <2>2. Types'
    BY <1>1, <1>3, <2>1 DEF IInv, Types, TypeOK, CallTerm, Uses, table, deinit, history, Moves, Ops, Steps
  <2>3. c = Main => phase = "terminating"
    BY <1>1 DEF IInv, Control, Types, TypeOK
  <2>4. QED
    BY <1>1, <1>3, <2>1, <2>2, <2>3, MoveOn DEF CallTerm, Uses, table, deinit, history, Removing
<1>4. QED
  BY <1>2, <1>3

(* pthread_join waits for the end of the thread or fails (cevf_ev.c:205).  *)
LEMMA JoinKeeps ==
  ASSUME IInv, NEW c \in Callers, Join(c)
  PROVE  IInv'
<1>1. op[c].pc = "join" /\ ~fault /\ op[c].th \in Threads /\ (info[op[c].th] = "freed" => overlap)
  BY HeldUsable DEF Join, At, Removing
<1>2. CASE info[op[c].th] = "freed"
  BY <1>1, <1>2, DieKeeps DEF Join, Uses
<1>3. CASE info[op[c].th] # "freed"
  <2>1. PICK pc \in {"release", "joining"} :
          /\ Goto(c, pc)
          /\ pc = "joining" => op[c].th # c
          /\ pc = "release" => op[c].th = c \/ \E d \in Callers : op[d] = [pc |-> "joining", th |-> op[c].th]
    BY <1>3 DEF Join, Uses
  <2>2. Moves(c, pc, op[c].th)
    BY <2>1, GotoMoves DEF Steps, IInv
  <2>3. Types'
    BY <1>1, <1>3, <2>2 DEF IInv, Types, TypeOK, Join, Uses, table, thread, deinit, history, Moves, Ops, Steps
  <2>4. c = Main => phase = "destroying"
    BY DEF Join
  <2>5. c = Main /\ pc = "release" => overlap
    <3>1. SUFFICES ASSUME c = Main, pc = "release"
                   PROVE  overlap
      OBVIOUS
    <3>2. PICK d \in Callers : op[d].pc = "joining" /\ op[d].th = op[c].th
      BY <1>1, <2>1, <3>1, Kinds
    <3>3. d # c /\ op[d].th # d /\ op[c].th # c /\ op[c].th # Nobody
      BY <1>1, <3>1, <3>2, Kinds DEF IInv, Control
    <3>4. QED
      BY <3>2, <3>3 DEF IInv, Apart, OneHolder
  <2>6. QED
    BY <1>1, <1>3, <2>1, <2>2, <2>3, <2>4, <2>5, MoveOn
       DEF Join, Uses, table, thread, deinit, history, Removing
<1>4. QED
  BY <1>2, <1>3

(* The thread has ended and been joined, and its thinfo is freed.          *)
LEMMA DestroyThKeeps ==
  ASSUME IInv, NEW c \in Callers, DestroyTh(c)
  PROVE  IInv'
<1>1. /\ op[c].pc = "joining" /\ ~fault /\ op[c].th \in Threads /\ (info[op[c].th] = "freed" => overlap)
      /\ op[c].th # c /\ op[c].th # Nobody /\ life[op[c].th] = "ended"
  BY HeldUsable, Kinds DEF DestroyTh, At, Removing, IInv, Control
<1>2. CASE info[op[c].th] = "freed"
  BY <1>1, <1>2, DieKeeps DEF DestroyTh, Uses
<1>3. CASE info[op[c].th] # "freed"
  <2>1. /\ UNCHANGED <<slots, free, life, term, known, told, phase, turn, left, lost, overlap, fault>>
        /\ info' = [info EXCEPT ![op[c].th] = "freed"]
        /\ Moves(c, "release", op[c].th)
    BY <1>3, GotoMoves DEF DestroyTh, Uses, table, deinit, history, Steps, IInv
  <2>2. /\ Types'
        /\ \A t \in Threads : info'[t] = IF t = op[c].th THEN "freed" ELSE info[t]
    BY <1>1, <2>1 DEF IInv, Types, TypeOK, Moves, Ops, Steps
  <2>3. \A d \in Callers : op'[d].th = op[d].th /\ (op'[d].pc # op[d].pc => d = c)
    BY <2>1 DEF Moves
  <2>4. op'[c].pc = "release"
    BY <2>1 DEF Moves
  <2>5. Control'
    <3>1. c = Main => phase = "destroying"
      BY <1>1 DEF IInv, Control, Types, TypeOK
    <3>2. \A d \in Callers : op'[d].pc = "idle" <=> op[d].pc = "idle"
      BY <1>1, <2>3, <2>4
    <3>3. /\ phase \in {"running", "ended"} => op'[Main].pc = "idle"
          /\ phase = "terminating" => op'[Main].pc \in {"idle", "term", "call", "join"}
          /\ phase = "destroying" => op'[Main].pc \in {"idle", "join", "joining", "release"}
          /\ op'[Main].pc # "idle" => op'[Main].th \in Threads
      BY <1>1, <2>3, <2>4, <3>1, Kinds DEF IInv, Control
    <3>4. QED
      BY <1>1, <2>1, <2>3, <2>4, <3>2, <3>3, Kinds DEF IInv, Control, Removing
  <2>6. Infos'
    BY <1>1, <2>1, <2>2, <2>3 DEF IInv, Infos
  <2>7. Kept'
    BY <1>1, <2>1, <2>2, <2>3 DEF IInv, Kept
  <2>8. Table'
    <3>1. Table
      BY DEF IInv
    <3>2. slots # <<>>
      BY <1>1, <3>1 DEF Table
    <3>3. QED
      BY <1>1, <2>1, <2>3, <2>4, <3>1, <3>2, Kinds DEF Table, Removing
  <2>9. ASSUME ~overlap'
        PROVE  Apart'
    <3>1. OneHolder' /\ OneHolder
      BY <2>1, <2>3, <2>9 DEF IInv, Apart, OneHolder
    <3>2. HeldLive'
      <4>1. ASSUME NEW d \in Callers, d # c, op[d].th = op[c].th
            PROVE  op[d].th = d
        BY <1>1, <3>1, <4>1 DEF OneHolder
      <4>2. QED
        BY <1>1, <2>1, <2>2, <2>3, <2>4, <2>9, <4>1 DEF IInv, Apart, HeldLive, Removing, Control
    <3>3. FreedLeaves'
      <4>1. ASSUME NEW i \in 1 .. Len(slots), slots[i] = op[c].th
            PROVE  \/ c # Main /\ i = 1
                   \/ phase = "destroying" /\ i < turn
        <5>1. c # Main => i = 1
          BY <1>1, <4>1 DEF IInv, Table, Removing
        <5>2. c = Main => i = turn - 1 /\ phase = "destroying"
          BY <1>1, <4>1 DEF IInv, Table, Control, Types, TypeOK
        <5>3. QED
          BY <5>1, <5>2 DEF IInv, Types
      <4>2. QED
        BY <1>1, <2>1, <2>2, <2>3, <2>4, <2>9, <4>1 DEF IInv, Apart, FreedLeaves, Types, TypeOK
    <3>4. Destroyed'
      BY <1>1, <2>1, <2>2, <2>3, <2>4, <2>9, Kinds DEF IInv, Apart, Destroyed, Types, TypeOK, Control
    <3>5. QED
      BY <3>1, <3>2, <3>3, <3>4 DEF Apart
  <2>10. QED
    BY <2>1, <2>2, <2>5, <2>6, <2>7, <2>8, <2>9 DEF IInv, FaultExplained
<1>4. QED
  BY <1>2, <1>3

(* After ev_deinit only threads that were lost still run, and of the       *)
(* callers only they can come to the table.                                *)
LEMMA EndedLost ==
  ASSUME IInv, phase = "ended"
  PROVE  /\ \A c \in Callers : op[c].pc # "idle" => c \in Threads
         /\ \A t \in Threads : life[t] \notin {"unborn", "ended"} => overlap \/ lost # {}
         /\ \A c \in Callers : op[c].pc # "idle" => overlap \/ lost # {}
<1>1. ASSUME NEW t \in Threads, life[t] \notin {"unborn", "ended"}
      PROVE  overlap \/ lost # {}
  BY <1>1 DEF IInv, Infos, Apart, Destroyed
<1>2. ASSUME NEW c \in Callers, op[c].pc # "idle"
      PROVE  c \in Threads /\ life[c] = "removes"
  BY <1>2, Kinds DEF IInv, Control, Callers
<1>3. QED
  BY <1>1, <1>2

(* The first place is emptied, and its id, which is always 0, released     *)
(* (ids.c:69).                                                             *)
LEMMA IdsRmItemKeeps ==
  ASSUME IInv, NEW c \in Callers, IdsRmItem(c)
  PROVE  IInv'
<1>1. op[c].pc = "release" /\ ~fault /\ c # Main
  BY DEF IdsRmItem, At
<1>2. CASE phase = "ended"
  BY <1>1, <1>2, EndedLost, DieKeeps DEF IdsRmItem, UsesTable
<1>3. CASE phase # "ended"
  <2>1. /\ free' = Append(free, 0) /\ slots' = [slots EXCEPT ![1] = Nobody]
        /\ lost' = lost \cup {t \in {slots[1]} \ {Nobody} : info[t] # "freed"}
        /\ op' = [op EXCEPT ![c] = Idle]
        /\ life' = IF c \in Threads THEN [life EXCEPT ![c] = "counts"] ELSE life
        /\ UNCHANGED <<info, term, known, told, phase, turn, left, overlap, fault>>
    BY <1>3 DEF IdsRmItem, UsesTable, ReturnedId, deinit
  <2>2. slots \in Seq(Threads \cup {Nobody}) /\ slots # <<>>
    BY <1>1 DEF IInv, Types, TypeOK, Table
  <2>3. 1 \in 1 .. Len(slots)
    BY <2>2
  <2>4. /\ slots' \in Seq(Threads \cup {Nobody}) /\ Len(slots') = Len(slots)
        /\ \A i \in 1 .. Len(slots) : slots'[i] = IF i = 1 THEN Nobody ELSE slots[i]
    BY <2>1, <2>2, <2>3
  <2>5. free' \in Seq({0}) /\ free' # <<>>
    BY <2>1 DEF IInv, Types, ReturnedId
  <2>6. Moves(c, "idle", Nobody)
    BY <2>1, SetMoves DEF Idle, Steps, IInv
  <2>7. \A t \in Threads : life'[t] = IF t = c THEN "counts" ELSE life[t]
    BY <2>1 DEF IInv, Types, TypeOK
  <2>8. c \in Threads => life[c] = "removes"
    BY <1>1 DEF IInv, Control
  <2>9. Types'
    <3>1. free' \in Seq(Nat)
      BY <2>5
    <3>2. lost' \subseteq Threads
      BY <2>1, <2>2, <2>3 DEF IInv, Types, TypeOK
    <3>3. QED
      BY <2>1, <2>4, <2>5, <2>6, <3>1, <3>2 DEF IInv, Types, TypeOK, ReturnedId, Moves, Ops, Steps
  <2>10. Control'
    BY <1>1, <2>1, <2>6, <2>7, <2>8, Kinds DEF IInv, Control, Removing, Moves
  <2>11. Infos'
    BY <1>1, <2>1, <2>4, <2>6, <2>7, <2>8, Kinds DEF IInv, Infos, Moves
  <2>12. Table'
    <3>1. Table /\ slots' # <<>>
      BY <2>2, <2>4 DEF IInv
    <3>2. \A d \in Callers : IF d = c THEN op'[d].pc = "idle" /\ op'[d].th = Nobody ELSE op'[d] = op[d]
      BY <2>6 DEF Moves
    <3>3. \A d \in Callers : op[d].pc = "add" \/ (d = Main /\ op[d].pc # "idle") => op[d].th # Nobody
      BY Kinds DEF IInv, Control
    <3>4. /\ \A i \in 1 .. Len(slots') : slots'[i] = Nobody => i = 1 /\ free' # <<>>
          /\ \A i, j \in 1 .. Len(slots') : slots'[i] = slots'[j] => i = j
      BY ONLY <2>3, <2>4, <2>5, <3>1, SMTT(20) DEF Table
    <3>5. \A d \in Callers : op'[d].pc = "add" =>
            /\ \A i \in 1 .. Len(slots') : slots'[i] # op'[d].th
            /\ \A e \in Callers \ {d} : op'[e].th # op'[d].th
      BY ONLY <2>4, <3>1, <3>2, <3>3 DEF Table
    <3>6. \A d \in Callers \ {Main} : op'[d].pc \in Removing \cup {"release"} =>
            \A i \in 1 .. Len(slots') : slots'[i] = op'[d].th => i = 1
      BY ONLY <2>4, <3>1, <3>2 DEF Table, Removing
    <3>7. op'[Main].pc # "idle" => \A i \in 1 .. Len(slots') : slots'[i] = op'[Main].th => i = turn' - 1
      BY <1>1, <2>1, <2>4, <3>1, <3>2, <3>3, Kinds DEF Table
    <3>8. QED
      BY <3>1, <3>4, <3>5, <3>6, <3>7 DEF Table
  <2>13. Kept'
    BY <1>1, <2>1, <2>3, <2>4, <2>6, <2>7, <2>8, Kinds DEF IInv, Kept, Moves
  <2>14. ASSUME ~overlap'
         PROVE  Apart'
    <3>1. OneHolder' /\ HeldLive'
      BY <1>1, <2>1, <2>6, <2>14 DEF IInv, Apart, OneHolder, HeldLive, Removing, Moves
    <3>2. FreedLeaves'
      BY <1>1, <2>1, <2>4, <2>6, <2>14 DEF IInv, Apart, FreedLeaves, Moves
    <3>3. Destroyed'
      BY <1>1, <1>3, <2>1, <2>4, <2>6, <2>7, <2>14, Kinds DEF IInv, Apart, Destroyed, Moves
    <3>4. QED
      BY <3>1, <3>2, <3>3 DEF Apart
  <2>15. QED
    BY <1>1, <2>1, <2>9, <2>10, <2>11, <2>12, <2>13, <2>14 DEF IInv, FaultExplained
<1>4. QED
  BY <1>2, <1>3

(* The thread in the first place is the one a call gets: it is held by     *)
(* nobody else, or calls overlap.                                          *)
LEMMA GetItemKeeps ==
  ASSUME IInv, NEW c \in Callers, GetItem(c)
  PROVE  IInv'
<1>1. op[c].pc = "get" /\ ~fault /\ c # Main /\ op[c].th = Nobody
  BY DEF GetItem, At, IInv, Control, Types, TypeOK
<1>2. CASE phase = "ended"
  BY <1>1, <1>2, EndedLost, DieKeeps DEF GetItem, UsesTable
<1>3. CASE phase # "ended"
  <2>1. slots \in Seq(Threads \cup {Nobody}) /\ slots # <<>>
    BY <1>1 DEF IInv, Types, TypeOK, Table
  <2>2. 1 \in 1 .. Len(slots) /\ slots[1] \in Threads \cup {Nobody}
    BY <2>1
  <2>3. PICK t \in Threads \cup {Nobody} : t = slots[1]
    BY <2>2
  <2>4. PICK pc \in {"term", "release"} : pc = IF t = Nobody THEN "release" ELSE "term"
    OBVIOUS
  <2>5. /\ op' = [op EXCEPT ![c] = [pc |-> pc, th |-> t]]
        /\ overlap' = (overlap \/ Shared(c, t))
        /\ UNCHANGED <<slots, free, life, info, term, known, told, phase, turn, left, lost, fault>>
    BY <1>3, <2>3, <2>4 DEF GetItem, UsesTable, ReturnedId, table, thread, deinit
  <2>6. Moves(c, pc, t)
    BY <2>5, SetMoves DEF Steps, IInv
  <2>7. t # Nobody => life[t] # "unborn"
    BY <2>2, <2>3 DEF IInv, Infos
  <2>8. Types'
    BY <2>5, <2>6 DEF IInv, Types, TypeOK, Moves, Ops, Steps, Shared
  <2>9. Control'
    BY <1>1, <2>4, <2>5, <2>6, Kinds DEF IInv, Control, Removing, Moves
  <2>10. Infos'
    BY <1>1, <2>5, <2>6, <2>7 DEF IInv, Infos, Moves
  <2>11. Table'
    <3>1. \A i \in 1 .. Len(slots) : slots[i] = t => i = 1
      BY <2>2, <2>3 DEF IInv, Table
    <3>2. \A d \in Callers : op[d].pc = "add" => op[d].th # t
      BY <2>2, <2>3 DEF IInv, Table
    <3>3. QED
      BY <1>1, <2>1, <2>4, <2>5, <2>6, <3>1, <3>2, Kinds DEF IInv, Table, Removing, Moves
  <2>12. Kept'
    BY <1>1, <2>4, <2>5, <2>6 DEF IInv, Kept, Moves
  <2>13. ASSUME ~overlap'
         PROVE  Apart'
    <3>1. Apart /\ ~Shared(c, t)
      BY <2>5, <2>13 DEF IInv
    <3>2. OneHolder'
      BY <1>1, <2>5, <2>6, <3>1 DEF Apart, OneHolder, Moves, Shared
    <3>3. HeldLive'
      <4>1. t \in Threads /\ t # c => info[t] = "live"
        <5>1. SUFFICES ASSUME t \in Threads, t # c
                       PROVE  info[t] = "live"
          OBVIOUS
        <5>2. phase = "running" /\ \A d \in Callers \ {c, t} : op[d].th # t
          BY <3>1, <5>1, Kinds DEF Shared
        <5>3. info[t] # "freed"
          BY <1>1, <2>2, <2>3, <3>1, <5>1, <5>2, Kinds DEF Apart, FreedLeaves
        <5>4. QED
          BY <2>7, <5>1, <5>3, Kinds DEF IInv, Infos, Types, TypeOK
      <4>2. QED
        BY <1>1, <2>4, <2>5, <2>6, <3>1, <4>1 DEF Apart, HeldLive, Removing, Moves
    <3>4. FreedLeaves'
      BY <1>1, <2>5, <2>6, <3>1 DEF Apart, FreedLeaves, Moves
    <3>5. Destroyed'
      BY <1>1, <2>5, <2>6, <3>1, Kinds DEF Apart, Destroyed, Moves
    <3>6. QED
      BY <3>2, <3>3, <3>4, <3>5 DEF Apart
  <2>14. QED
    BY <1>1, <2>5, <2>8, <2>9, <2>10, <2>11, <2>12, <2>13 DEF IInv, FaultExplained
<1>4. QED
  BY <1>2, <1>3

(* A thread is put at the end of the table, or in the first place, where a *)
(* thread that is still there is lost (ids.c:38).                          *)
LEMMA IdsAddItemKeeps ==
  ASSUME IInv, NEW c \in Callers, IdsAddItem(c)
  PROVE  IInv'
<1>1. PICK t \in Threads : t = op[c].th
  BY DEF IdsAddItem, At, IInv, Control
<1>2. /\ op[c].pc = "add" /\ ~fault /\ c \in Clients /\ c # t /\ phase = "running" /\ op[Main].pc = "idle"
      /\ \A d \in Callers \ {c} : op[d].th # t
      /\ \A i \in 1 .. Len(slots) : slots[i] # t
  BY <1>1, Kinds DEF IdsAddItem, At, IInv, Control, Table
<1>3. /\ Moves(c, "store", t)
      /\ UNCHANGED <<life, info, term, known, told, phase, turn, left, overlap, fault>>
  BY <1>1, GotoMoves DEF IdsAddItem, thread, deinit, Steps, IInv
<1>4. slots \in Seq(Threads \cup {Nobody}) /\ free \in Seq({0}) /\ lost \subseteq Threads
  BY DEF IInv, Types, TypeOK, ReturnedId
<1>5. \E n \in 1 .. Len(slots') :
        /\ slots'[n] = t
        /\ \A i \in 1 .. Len(slots') : i # n => i \in 1 .. Len(slots) /\ slots'[i] = slots[i] /\ slots[i] # Nobody
        /\ n \in 1 .. Len(slots) => slots[n] \in {Nobody} \cup lost'
        /\ 1 .. Len(slots) \subseteq 1 .. Len(slots')
        /\ lost \subseteq lost' /\ lost' \subseteq Threads
        /\ slots' \in Seq(Threads \cup {Nobody}) /\ free' \in Seq({0})
  <2>1. CASE free = <<>>
    <3>1. slots' = Append(slots, t) /\ free' = free /\ lost' = lost
      BY <1>1, <2>1 DEF IdsAddItem
    <3>2. \A i \in 1 .. Len(slots) : slots[i] # Nobody
      BY <2>1 DEF IInv, Table
    <3>3. /\ slots' \in Seq(Threads \cup {Nobody}) /\ Len(slots') = Len(slots) + 1 /\ Len(slots) \in Nat
          /\ slots'[Len(slots) + 1] = t /\ \A i \in 1 .. Len(slots) : slots'[i] = slots[i]
      BY <1>4, <3>1
    <3>4. QED
      BY <1>4, <3>1, <3>2, <3>3
  <2>2. CASE free # <<>>
    <3>1. Len(free) \in Nat \ {0} /\ free[Len(free)] = 0
      BY <1>4, <2>2
    <3>2. slots # <<>>
      BY <2>2 DEF IInv, Table
    <3>3. 1 \in 1 .. Len(slots) /\ slots[1] \in Threads \cup {Nobody}
      BY <1>4, <3>2
    <3>4. /\ slots' = [slots EXCEPT ![1] = t] /\ free' = SubSeq(free, 1, Len(free) - 1)
          /\ lost' = lost \cup ({slots[1]} \ {Nobody})
      BY <1>1, <2>2, <3>1 DEF IdsAddItem
    <3>5. /\ slots' \in Seq(Threads \cup {Nobody}) /\ Len(slots') = Len(slots)
          /\ \A i \in 1 .. Len(slots) : slots'[i] = IF i = 1 THEN t ELSE slots[i]
      BY <1>4, <3>3, <3>4
    <3>6. free' \in Seq({0})
      BY <1>4, <3>1, <3>4
    <3>7. \A i \in 1 .. Len(slots) : i # 1 => slots[i] # Nobody
      BY DEF IInv, Table
    <3>8. QED
      BY <1>4, <3>3, <3>4, <3>5, <3>6, <3>7
  <2>3. QED
    BY <2>1, <2>2
<1>6. PICK n \in 1 .. Len(slots') :
        /\ slots'[n] = t
        /\ \A i \in 1 .. Len(slots') : i # n => i \in 1 .. Len(slots) /\ slots'[i] = slots[i] /\ slots[i] # Nobody
        /\ n \in 1 .. Len(slots) => slots[n] \in {Nobody} \cup lost'
        /\ 1 .. Len(slots) \subseteq 1 .. Len(slots')
        /\ lost \subseteq lost' /\ lost' \subseteq Threads
        /\ slots' \in Seq(Threads \cup {Nobody}) /\ free' \in Seq({0})
  BY ONLY <1>5
<1>7. \A d \in Callers : op'[d].th = op[d].th /\ (IF d = c THEN op'[d].pc = "store" ELSE op'[d] = op[d])
  BY <1>1, <1>3 DEF Moves
<1>8. Types'
  <2>1. free' \in Seq(Nat)
    BY <1>6
  <2>2. QED
    BY <1>3, <1>6, <2>1 DEF IInv, Types, TypeOK, ReturnedId, Moves, Ops, Steps
<1>9. Control'
  BY <1>1, <1>2, <1>3, <1>7, Kinds DEF IInv, Control, Removing
<1>10. Infos'
  <2>1. ASSUME NEW x \in Threads, info[x] = "none"
        PROVE  (\A d \in Callers : op'[d].th # x) /\ \A i \in 1 .. Len(slots') : slots'[i] # x
    <3>1. (\A d \in Callers : op[d].th # x) /\ \A i \in 1 .. Len(slots) : slots[i] # x
      BY <2>1 DEF IInv, Infos
    <3>2. x # t
      BY <1>1, <3>1
    <3>3. QED
      BY <1>6, <1>7, <3>1, <3>2
  <2>2. QED
    BY <1>3, <2>1 DEF IInv, Infos
<1>11. Table'
  <2>1. Table
    BY DEF IInv
  <2>2. slots' # <<>>
    BY <1>6
  <2>3. /\ \A i \in 1 .. Len(slots') : slots'[i] # Nobody
        /\ \A i, j \in 1 .. Len(slots') : slots'[i] = slots'[j] => i = j
    <3>1. t \in Threads /\ Nobody \notin Threads
      BY ONLY <1>1, Kinds
    <3>2. \A i \in 1 .. Len(slots') : slots'[i] # Nobody /\ (i # n => slots'[i] # t)
      BY ONLY <1>2, <1>6, <3>1
    <3>3. \A i, j \in 1 .. Len(slots) : slots[i] = slots[j] => i = j
      BY ONLY <2>1 DEF Table
    <3>4. ASSUME NEW i \in 1 .. Len(slots'), NEW j \in 1 .. Len(slots'), slots'[i] = slots'[j], i # j
          PROVE  FALSE
      <4>1. i # n /\ j # n
        BY <1>6, <3>2, <3>4
      <4>2. i \in 1 .. Len(slots) /\ j \in 1 .. Len(slots) /\ slots[i] = slots[j]
        BY <1>6, <3>4, <4>1
      <4>3. QED
        BY <3>3, <3>4, <4>2
    <3>5. QED
      BY <3>2, <3>4
  <2>4. \A d \in Callers : op'[d].pc = "add" =>
          /\ \A i \in 1 .. Len(slots') : slots'[i] # op'[d].th
          /\ \A e \in Callers \ {d} : op'[e].th # op'[d].th
    BY ONLY <1>2, <1>6, <1>7, <2>1 DEF Table
  <2>5. \A d \in Callers \ {Main} : op'[d].pc \in Removing \cup {"release"} =>
          \A i \in 1 .. Len(slots') : slots'[i] = op'[d].th => i = 1
    BY ONLY <1>2, <1>6, <1>7, <2>1 DEF Table, Removing
  <2>6. op'[Main].pc = "idle"
    BY <1>2, <1>7, Kinds
  <2>7. QED
    BY <2>2, <2>3, <2>4, <2>5, <2>6 DEF Table
<1>12. Kept'
  BY <1>1, <1>2, <1>3, <1>6, <1>7, Kinds DEF IInv, Kept
<1>13. ASSUME ~overlap'
       PROVE  Apart'
  <2>1. Apart
    BY <1>3, <1>13 DEF IInv
  <2>2. OneHolder'
    BY <1>7, <2>1 DEF Apart, OneHolder
  <2>3. HeldLive'
    BY <1>1, <1>2, <1>3, <1>7, <2>1 DEF Apart, HeldLive, Removing
  <2>4. info[t] # "freed"
    BY <1>1, <1>2, <2>1 DEF Apart, HeldLive
  <2>5. FreedLeaves'
    BY <1>2, <1>3, <1>6, <1>7, <2>1, <2>4 DEF Apart, FreedLeaves
  <2>6. Destroyed'
    BY <1>2, <1>3, <1>7, Kinds DEF Destroyed
  <2>7. QED
    BY <2>2, <2>3, <2>5, <2>6 DEF Apart
<1>14. QED
  BY <1>2, <1>3, <1>8, <1>9, <1>10, <1>11, <1>12, <1>13 DEF IInv, FaultExplained

(* The id of a new thread is stored with it (cevf_ev.c:235).               *)
LEMMA StoreIdKeeps ==
  ASSUME IInv, NEW c \in Callers, StoreId(c)
  PROVE  IInv'
<1>1. /\ op[c].pc = "store" /\ ~fault /\ op[c].th \in Threads /\ (info[op[c].th] = "freed" => overlap)
      /\ c \in Clients /\ phase = "running"
  BY HeldUsable, Kinds DEF StoreId, At, IInv, Control
<1>2. CASE info[op[c].th] = "freed"
  BY <1>1, <1>2, DieKeeps DEF StoreId, Uses
<1>3. CASE info[op[c].th] # "freed"
  <2>1. /\ known' = [known EXCEPT ![op[c].th] = TRUE] /\ op' = [op EXCEPT ![c] = Idle]
        /\ UNCHANGED <<slots, free, life, info, term, told, phase, turn, left, lost, overlap, fault>>
    BY <1>3 DEF StoreId, Uses, table, deinit, history
  <2>2. Moves(c, "idle", Nobody)
    BY <2>1, SetMoves DEF Idle, Steps, IInv
  <2>3. \A d \in Callers : IF d = c THEN op'[d].pc = "idle" /\ op'[d].th = Nobody ELSE op'[d] = op[d]
    BY <2>2 DEF Moves
  <2>4. Types'
    BY <2>1, <2>2 DEF IInv, Types, TypeOK, Moves, Ops, Steps
  <2>5. Control'
    BY <1>1, <2>1, <2>3, Kinds DEF IInv, Control, Removing
  <2>6. Infos' /\ Kept'
    BY <1>1, <2>1, <2>3, Kinds DEF IInv, Infos, Kept
  <2>7. Table'
    <3>1. Table /\ slots # <<>>
      BY <1>1 DEF IInv, Table
    <3>2. \A d \in Callers : op[d].pc = "add" => op[d].th # Nobody
      BY Kinds DEF IInv, Control
    <3>3. QED
      BY <1>1, <2>1, <2>3, <3>1, <3>2, Kinds DEF Table, Removing
  <2>8. ASSUME ~overlap'
        PROVE  Apart'
    BY <1>1, <2>1, <2>3, <2>8, Kinds DEF IInv, Apart, OneHolder, HeldLive, FreedLeaves, Destroyed, Removing
  <2>9. QED
    BY <1>1, <2>1, <2>4, <2>5, <2>6, <2>7, <2>8 DEF IInv, FaultExplained
<1>4. QED
  BY <1>2, <1>3

(* A client, or a thread that has returned, begins to remove one.          *)
LEMMA AskKeeps ==
  ASSUME IInv, Types', ~fault, NEW c \in Callers \ {Main}, op[c].pc = "idle", Moves(c, "get", Nobody),
         \E t \in Threads : known[t], c \in Clients => phase = "running",
         \A t \in Threads : IF t = c THEN life[t] = "returned" /\ life'[t] = "removes" ELSE life'[t] = life[t],
         UNCHANGED <<slots, free, info, known, phase, turn, lost, overlap, fault>>
  PROVE  IInv'
<1>1. \A d \in Callers : IF d = c THEN op'[d].pc = "get" /\ op'[d].th = Nobody ELSE op'[d] = op[d]
  BY DEF Moves
<1>2. Control'
  BY <1>1, Kinds DEF IInv, Control, Removing
<1>3. Infos' /\ Kept'
  BY <1>1, Kinds DEF IInv, Infos, Kept
<1>4. Table'
  <2>1. Table /\ slots # <<>>
    BY DEF IInv, Table
  <2>2. \A d \in Callers : op[d].pc = "add" => op[d].th # Nobody
    BY Kinds DEF IInv, Control
  <2>3. QED
    BY <1>1, <2>1, <2>2, Kinds DEF Table, Removing
<1>5. ASSUME ~overlap'
      PROVE  Apart'
  <2>1. OneHolder' /\ HeldLive' /\ FreedLeaves'
    BY <1>1, <1>5 DEF IInv, Apart, OneHolder, HeldLive, FreedLeaves, Removing
  <2>2. Destroyed'
    BY <1>1, <1>5, Kinds DEF IInv, Apart, Destroyed
  <2>3. QED
    BY <2>1, <2>2 DEF Apart
<1>6. QED
  BY <1>2, <1>3, <1>4, <1>5 DEF IInv, FaultExplained

(* A thread goes on, outside of a call.                                    *)
LEMMA LifeKeeps ==
  ASSUME IInv, Types', ~fault, NEW t \in Threads, NEW stage, life' = [life EXCEPT ![t] = stage],
         life[t] \in {"runs", "returned", "counts"}, stage \in {"returned", "counts", "ended"},
         UNCHANGED <<slots, free, info, known, op, phase, turn, lost, overlap, fault>>
  PROVE  IInv'
<1>1. \A u \in Threads : life'[u] = IF u = t THEN stage ELSE life[u]
  BY DEF IInv, Types, TypeOK
<1>2. Control'
  BY <1>1 DEF IInv, Control
<1>3. Infos' /\ Kept'
  BY <1>1 DEF IInv, Infos, Kept
<1>4. Table'
  BY DEF IInv, Table
<1>5. ASSUME ~overlap'
      PROVE  Apart'
  BY <1>1, <1>5 DEF IInv, Apart, OneHolder, HeldLive, FreedLeaves, Destroyed, Infos
<1>6. QED
  BY <1>2, <1>3, <1>4, <1>5 DEF IInv, FaultExplained

(* ev_add_th starts a thread (cevf_ev.c:226).                              *)
LEMMA CreateThKeeps ==
  ASSUME IInv, NEW c \in Clients, NEW t \in Threads, CreateTh(c, t)
  PROVE  IInv'
<1>1. /\ op[c].pc = "idle" /\ ~fault /\ phase = "running" /\ c \in Callers /\ c # t /\ c # Main
      /\ op[Main].pc = "idle" /\ life[t] = "unborn"
  BY Kinds, ThreadsAssumption DEF CreateTh, At, IInv, Control
<1>2. /\ life' = [life EXCEPT ![t] = "runs"] /\ info' = [info EXCEPT ![t] = "live"]
      /\ term' = [term EXCEPT ![t] = TRUE] /\ op' = [op EXCEPT ![c] = [pc |-> "add", th |-> t]]
      /\ UNCHANGED <<slots, free, known, told, phase, turn, lost, overlap, fault>>
  BY DEF CreateTh, table, deinit, history
<1>3. Moves(c, "add", t)
  BY <1>1, <1>2, SetMoves DEF Steps, IInv
<1>4. \A d \in Callers : IF d = c THEN op'[d].pc = "add" /\ op'[d].th = t ELSE op'[d] = op[d]
  BY <1>3 DEF Moves
<1>5. /\ \A u \in Threads : life'[u] = IF u = t THEN "runs" ELSE life[u]
      /\ \A u \in Threads : info'[u] = IF u = t THEN "live" ELSE info[u]
  BY <1>2 DEF IInv, Types, TypeOK
<1>6. /\ \A d \in Callers : op[d].th # t
      /\ \A i \in 1 .. Len(slots) : slots[i] # t
  BY <1>1 DEF IInv, Infos
<1>7. Types'
  BY <1>2, <1>3 DEF IInv, Types, TypeOK, Moves, Ops, Steps
<1>8. Control'
  BY <1>1, <1>2, <1>4, <1>5, Kinds DEF IInv, Control, Removing
<1>9. Infos' /\ Kept'
  BY <1>1, <1>2, <1>4, <1>5, Kinds DEF IInv, Infos, Kept
<1>10. Table'
  <2>1. Table
    BY DEF IInv
  <2>2. QED
    BY <1>1, <1>2, <1>4, <1>6, <2>1, Kinds DEF Table, Removing
<1>11. ASSUME ~overlap'
       PROVE  Apart'
  <2>1. OneHolder'
    BY <1>2, <1>4, <1>6, <1>11 DEF IInv, Apart, OneHolder
  <2>2. HeldLive'
    BY <1>2, <1>4, <1>5, <1>6, <1>11 DEF IInv, Apart, HeldLive, Removing, Control
  <2>3. FreedLeaves'
    <3>1. FreedLeaves
      BY <1>2, <1>11 DEF IInv, Apart
    <3>2. \A i \in 1 .. Len(slots) : slots[i] # Nobody => slots[i] \in Threads /\ info'[slots[i]] = info[slots[i]]
      BY <1>5, <1>6 DEF IInv, Types, TypeOK
    <3>3. \A d \in Callers : op[d].pc = "release" => op'[d] = op[d]
      BY <1>1, <1>4
    <3>4. QED
      BY <1>2, <3>1, <3>2, <3>3 DEF FreedLeaves
  <2>4. Destroyed'
    BY <1>1, <1>2, <1>4, Kinds DEF Destroyed
  <2>5. QED
    BY <2>1, <2>2, <2>3, <2>4 DEF Apart
<1>12. QED
  BY <1>1, <1>2, <1>7, <1>8, <1>9, <1>10, <1>11 DEF IInv, FaultExplained
-----------------------------------------------------------------------------
(***************************************************************************)
(* ev_deinit.                                                              *)
(***************************************************************************)

(* ev_deinit begins when the static threads are joined (cevf_ev.c:274).    *)
LEMMA DeinitBeginKeeps ==
  ASSUME IInv, DeinitBegin
  PROVE  IInv'
<1>1. /\ ~fault /\ phase = "running" /\ phase' = "terminating" /\ turn' = 1
      /\ \A c \in Clients : op[c].pc = "idle"
      /\ op[Main].pc = "idle"
      /\ UNCHANGED <<slots, free, life, info, term, known, op, lost, overlap, fault>>
  BY DEF DeinitBegin, table, thread, history, IInv, Control
<1>2. Types'
  BY <1>1 DEF IInv, Types, TypeOK
<1>3. Control'
  BY <1>1, Kinds DEF IInv, Control
<1>4. Infos' /\ Kept'
  BY <1>1 DEF IInv, Infos, Kept
<1>5. Table'
  BY <1>1 DEF IInv, Table
<1>6. ASSUME ~overlap'
      PROVE  Apart'
  BY <1>1, <1>6 DEF IInv, Apart, OneHolder, HeldLive, FreedLeaves, Destroyed
<1>7. QED
  BY <1>1, <1>2, <1>3, <1>4, <1>5, <1>6 DEF IInv, FaultExplained

(* It comes to the next place of the table (ids.c:84).                      *)
LEMMA DeinitVisitKeeps ==
  ASSUME IInv, DeinitVisit
  PROVE  IInv'
<1>1. /\ ~fault /\ phase \in {"terminating", "destroying"}
      /\ turn \in 1 .. Len(slots) /\ turn' = turn + 1 /\ slots \in Seq(Threads \cup {Nobody})
      /\ \A c \in Clients : op[c].pc = "idle"
      /\ UNCHANGED <<slots, free, life, info, term, known, told, phase, lost, fault>>
  BY DEF DeinitVisit, table, thread, IInv, Control, Types, TypeOK
<1>2. PICK t \in Threads \cup {Nobody} : t = slots[turn]
  BY <1>1
<1>3. PICK pc \in {"idle", "term", "join"} :
        pc = IF t = Nobody THEN "idle" ELSE IF phase = "terminating" THEN "term" ELSE "join"
  OBVIOUS
<1>4. /\ op' = [op EXCEPT ![Main] = [pc |-> pc, th |-> t]]
      /\ overlap' = (overlap \/ (t # Nobody /\ \E c \in Callers \ {Main, t} : op[c].th = t))
  BY <1>2, <1>3 DEF DeinitVisit, Idle
<1>5. Moves(Main, pc, t)
  BY <1>4, SetMoves, Kinds DEF Steps, IInv
<1>6. \A d \in Callers : IF d = Main THEN op'[d].pc = pc /\ op'[d].th = t ELSE op'[d] = op[d]
  BY <1>5 DEF Moves
<1>7. t # Nobody => life[t] # "unborn"
  BY <1>1, <1>2 DEF IInv, Infos
<1>8. Types'
  BY <1>1, <1>4, <1>5 DEF IInv, Types, TypeOK, Moves, Ops, Steps
<1>9. Control'
  BY <1>1, <1>3, <1>6, Kinds DEF IInv, Control, Removing, Types
<1>10. Infos' /\ Kept'
  BY <1>1, <1>3, <1>6, <1>7, Kinds DEF IInv, Infos, Kept, Control
<1>11. Table'
  <2>1. Table
    BY DEF IInv
  <2>2. \A d \in Callers : op[d].pc # "add" /\ op'[d].pc # "add"
    BY <1>1, <1>3, <1>6 DEF IInv, Control
  <2>3. \A i \in 1 .. Len(slots) : slots[i] = t => i = turn' - 1
    BY <1>1, <1>2, <2>1 DEF Table
  <2>4. slots # <<>>
    BY <1>1
  <2>5. QED
    BY <1>1, <1>6, <2>1, <2>2, <2>3, <2>4, Kinds DEF Table
<1>12. ASSUME ~overlap'
       PROVE  Apart'
  <2>1. Apart /\ (t # Nobody => \A c \in Callers \ {Main, t} : op[c].th # t)
    BY <1>4, <1>12 DEF IInv
  <2>2. OneHolder'
    BY <1>6, <2>1, Kinds DEF Apart, OneHolder
  <2>3. HeldLive'
    <3>1. t # Nobody => info[t] # "freed"
      BY <1>1, <1>2, <2>1 DEF Apart, FreedLeaves
    <3>2. t # Nobody => info[t] = "live"
      BY <1>7, <3>1 DEF IInv, Infos, Types, TypeOK
    <3>3. QED
      BY <1>1, <1>3, <1>6, <2>1, <3>2 DEF Apart, HeldLive, Removing
  <2>4. FreedLeaves'
    BY <1>1, <1>6, <2>1 DEF Apart, FreedLeaves
  <2>5. Destroyed'
    <3>1. phase = "destroying" => \A i \in 1 .. Len(slots) : i < turn => slots[i] = Nobody \/ info[slots[i]] = "freed"
      BY <1>1, <2>1, Kinds DEF DeinitVisit, MainDone, Apart, Destroyed, IInv, Control
    <3>2. QED
      BY <1>1, <1>2, <1>3, <1>6, <3>1, Kinds DEF Destroyed
  <2>6. QED
    BY <2>2, <2>3, <2>4, <2>5 DEF Apart
<1>13. QED
  BY <1>1, <1>8, <1>9, <1>10, <1>11, <1>12 DEF IInv, FaultExplained

(* All threads are terminated, then all are destroyed; then every thread   *)
(* is freed that has not been lost, as no call is adding one any more.     *)
LEMMA DeinitPassKeeps ==
  ASSUME IInv, DeinitPass
  PROVE  IInv'
<1>1. /\ ~fault /\ phase \in {"terminating", "destroying"} /\ turn > Len(slots) /\ turn' = 1
      /\ phase' = IF phase = "terminating" THEN "destroying" ELSE "ended"
      /\ op' = [op EXCEPT ![Main] = Idle]
      /\ \A c \in Clients : op[c].pc = "idle"
      /\ UNCHANGED <<slots, free, life, info, term, known, told, lost, overlap, fault>>
  BY DEF DeinitPass, table, thread, history, IInv, Control
<1>2. Moves(Main, "idle", Nobody)
  BY <1>1, SetMoves, Kinds DEF Idle, Steps, IInv
<1>3. \A d \in Callers : IF d = Main THEN op'[d].pc = "idle" /\ op'[d].th = Nobody ELSE op'[d] = op[d]
  BY <1>2 DEF Moves
<1>4. Types'
  BY <1>1, <1>2 DEF IInv, Types, TypeOK, Moves, Ops, Steps
<1>5. Control'
  BY <1>1, <1>3, Kinds DEF IInv, Control, Removing
<1>6. \A d \in Callers : op[d].pc # "add"
  BY <1>1 DEF IInv, Control
<1>7. Infos' /\ Kept'
  BY <1>1, <1>3, <1>6, Kinds DEF IInv, Infos, Kept
<1>8. Table'
  <2>1. Table
    BY DEF IInv
  <2>2. QED
    BY <1>1, <1>3, <1>6, <2>1, Kinds DEF Table
<1>9. ASSUME ~overlap'
      PROVE  Apart'
  <2>1. Apart
    BY <1>1, <1>9 DEF IInv
  <2>2. OneHolder' /\ HeldLive'
    BY <1>1, <1>3, <2>1 DEF Apart, OneHolder, HeldLive, Removing
  <2>3. FreedLeaves'
    BY <1>1, <1>3, <2>1 DEF Apart, FreedLeaves
  <2>4. phase = "destroying" => \A i \in 1 .. Len(slots) : slots[i] = Nobody \/ info[slots[i]] = "freed"
    <3>1. \A i \in 1 .. Len(slots) : i < turn
      BY <1>1 DEF IInv, Types, TypeOK
    <3>2. QED
      BY <1>1, <2>1, <3>1, Kinds DEF DeinitPass, MainDone, Apart, Destroyed, IInv, Control
  <2>5. phase' = "ended" => \A t \in Threads \ lost : life[t] = "unborn" \/ info[t] = "freed"
    BY <1>1, <1>6, <2>4, Kinds DEF IInv, Kept
  <2>6. Destroyed'
    <3>1. phase' = "destroying" => \A i \in 1 .. Len(slots) : ~(i < turn')
      BY <1>1
    <3>2. QED
      BY <1>1, <1>3, <2>5, <3>1, Kinds DEF Destroyed
  <2>7. QED
    BY <2>2, <2>3, <2>6 DEF Apart
<1>10. QED
  BY <1>1, <1>4, <1>5, <1>7, <1>8, <1>9 DEF IInv, FaultExplained
-----------------------------------------------------------------------------
(***************************************************************************)
(* The invariant.                                                          *)
(***************************************************************************)

(* Before the first thread is added the table is empty.                    *)
LEMMA InitIInv == Init => IInv
<1> SUFFICES ASSUME Init
             PROVE  IInv
  OBVIOUS
<1>1. Types
  <2>1. slots = <<>> /\ free = <<>> /\ <<>> \in Seq(Threads \cup {Nobody}) /\ <<>> \in Seq(Nat) /\ <<>> \in Seq({ReturnedId})
    BY DEF Init
  <2>2. op \in [Callers -> [pc : {"idle", "add", "store", "get", "term", "call", "join", "joining", "release"},
                            th : Threads \cup {Nobody}]]
    BY DEF Init, Idle
  <2>3. lost \subseteq Threads
    BY DEF Init
  <2>4. QED
    BY <2>1, <2>2, <2>3 DEF Init, Types, TypeOK
<1>2. Control /\ Table
  BY Kinds DEF Init, Control, Table, Idle, Removing
<1>3. Infos /\ Kept
  BY Kinds DEF Init, Infos, Kept, Idle
<1>4. Apart /\ FaultExplained
  BY Kinds DEF Init, Apart, OneHolder, HeldLive, FreedLeaves, Destroyed, Idle, Removing, FaultExplained
<1>5. QED
  BY <1>1, <1>2, <1>3, <1>4 DEF IInv

(* ev_rm_th begins, for a client that has the id (cevf_ev.c:240).          *)
LEMMA RmThKeeps ==
  ASSUME IInv, NEW c \in Clients, RmTh(c)
  PROVE  IInv'
<1>1. op[c].pc = "idle" /\ ~fault /\ c \in Callers \ {Main} /\ c \notin Threads
  BY Kinds DEF RmTh, At
<1>2. op[c].th = Nobody
  BY <1>1 DEF IInv, Control
<1>3. Moves(c, "get", Nobody)
  BY <1>1, <1>2, GotoMoves DEF RmTh, Steps, IInv
<1>4. Types'
  BY <1>3 DEF IInv, Types, TypeOK, RmTh, table, thread, deinit, history, Moves, Ops, Steps
<1>5. QED
  BY <1>1, <1>3, <1>4, AskKeeps DEF RmTh, table, thread, deinit, history

(* The function of a thread returns.                                       *)
LEMMA ReturnKeeps ==
  ASSUME IInv, NEW t \in Threads, Return(t)
  PROVE  IInv'
<1>1. Types'
  BY DEF IInv, Types, TypeOK, Return, table, deinit, history
<1>2. QED
  BY <1>1, LifeKeeps DEF Return, table, deinit, history

(* A thread that knows its id removes itself (cevf_ev.c:255).              *)
LEMMA AfterReturnKeeps ==
  ASSUME IInv, NEW t \in Threads, AfterReturn(t)
  PROVE  IInv'
<1>1. ~fault /\ life[t] = "returned" /\ info[t] # "freed" /\ t \in Callers \ {Main}
  BY Kinds DEF AfterReturn, IInv, Infos
<1>2. CASE known[t]
  <2>1. /\ life' = [life EXCEPT ![t] = "removes"] /\ op' = [op EXCEPT ![t].pc = "get"]
        /\ UNCHANGED <<slots, free, info, term, known, told, phase, turn, lost, overlap, fault>>
    BY <1>1, <1>2 DEF AfterReturn, Uses, table, deinit, history
  <2>2. op[t].pc = "idle" /\ op[t].th = Nobody
    BY <1>1 DEF IInv, Control
  <2>3. Moves(t, "get", Nobody)
    BY <1>1, <2>1, <2>2, GotoMoves DEF Goto, Steps, IInv
  <2>4. Types'
    BY <1>1, <2>1, <2>3 DEF IInv, Types, TypeOK, Moves, Ops, Steps
  <2>5. \A u \in Threads : IF u = t THEN life[u] = "returned" /\ life'[u] = "removes" ELSE life'[u] = life[u]
    BY <1>1, <2>1 DEF IInv, Types, TypeOK
  <2>6. QED
    BY <1>1, <1>2, <2>1, <2>2, <2>3, <2>4, <2>5, Kinds, AskKeeps
<1>3. CASE ~known[t]
  <2>1. /\ life' = [life EXCEPT ![t] = "counts"] /\ term' = [term EXCEPT ![t] = FALSE]
        /\ UNCHANGED <<slots, free, info, known, op, phase, turn, lost, overlap, fault>>
    BY <1>1, <1>3 DEF AfterReturn, Uses, table, deinit, history
  <2>2. Types'
    BY <2>1 DEF IInv, Types, TypeOK
  <2>3. QED
    BY <1>1, <2>1, <2>2, LifeKeeps
<1>4. QED
  BY <1>2, <1>3

(* It counts itself out (cevf_ev.c:107).                                   *)
LEMMA CountDownKeeps ==
  ASSUME IInv, NEW t \in Threads, CountDown(t)
  PROVE  IInv'
<1>1. ~fault /\ life[t] = "counts" /\ info[t] # "freed"
  BY DEF CountDown, IInv, Infos
<1>2. CASE phase = "ended"
  BY <1>1, <1>2, EndedLost, DieKeeps DEF CountDown, UsesTable
<1>3. CASE phase # "ended"
  <2>1. /\ life' = [life EXCEPT ![t] = "ended"]
        /\ UNCHANGED <<slots, free, info, term, known, told, op, phase, turn, lost, overlap, fault>>
    BY <1>1, <1>3 DEF CountDown, UsesTable, Uses, table, deinit, history
  <2>2. Types'
    BY <2>1 DEF IInv, Types, TypeOK
  <2>3. QED
    BY <1>1, <2>1, <2>2, LifeKeeps
<1>4. QED
  BY <1>2, <1>3

(* Every step of the threads, the clients and ev_deinit.                   *)
LEMMA StepIInv == IInv /\ [Next]_vars => IInv'
<1> SUFFICES ASSUME IInv, [Next]_vars
             PROVE  IInv'
  OBVIOUS
<1>1. ASSUME NEW c \in Callers, CallStep(c)
      PROVE  IInv'
  BY <1>1, IdsAddItemKeeps, StoreIdKeeps, GetItemKeeps, TakeTermKeeps, CallTermKeeps,
     JoinKeeps, DestroyThKeeps, IdsRmItemKeeps DEF CallStep
<1>2. ASSUME NEW c \in Clients, (\E t \in Threads : CreateTh(c, t)) \/ RmTh(c)
      PROVE  IInv'
  BY <1>2, CreateThKeeps, RmThKeeps
<1>3. ASSUME NEW t \in Threads, Return(t) \/ ThreadEnds(t)
      PROVE  IInv'
  BY <1>3, ReturnKeeps, AfterReturnKeeps, CountDownKeeps DEF ThreadEnds
<1>4. CASE DeinitBegin \/ Deinit
  BY <1>4, DeinitBeginKeeps, DeinitVisitKeeps, DeinitPassKeeps DEF Deinit
<1>5. CASE UNCHANGED vars
  <2>1. UNCHANGED <<slots, free, life, info, term, known, op, phase, turn, lost, overlap, fault>>
    BY <1>5 DEF vars, table, thread, deinit, history
  <2>2. Types' /\ Control' /\ Infos' /\ Kept'
    BY <2>1 DEF IInv, Types, TypeOK, Control, Infos, Kept
  <2>3. Table'
    BY <2>1 DEF IInv, Table
  <2>4. (overlap \/ Apart)' /\ FaultExplained'
    BY <2>1 DEF IInv, Apart, OneHolder, HeldLive, FreedLeaves, Destroyed, FaultExplained
  <2>5. QED
    BY <2>2, <2>3, <2>4 DEF IInv
<1>6. QED
  BY <1>1, <1>2, <1>3, <1>4, <1>5 DEF Next

(* The entries, the infos and the calls always fit together.               *)
THEOREM Invariance == Spec => []IInv
<1>1. Init => IInv
  BY InitIInv
<1>2. IInv /\ [Next]_vars => IInv'
  BY StepIInv
<1>3. QED
  BY <1>1, <1>2, PTL DEF Spec

(* However many threads come and go, and whoever removes them: no entry of *)
(* the table is left behind (ids.c:69), ev_deinit leaves no thread running *)
(* and none unfreed but for those a call pushed out of the table or calls  *)
(* that overlapped (cevf_ev.c:274), and freed memory is used for no other  *)
(* reason.                                                                 *)
THEOREM ThreadsAlwaysSound == Spec => []ThreadsSound
<1>1. ASSUME IInv
      PROVE  ThreadsSound
  <2>1. TypeOK /\ FaultExplained
    BY <1>1 DEF IInv, Types
  <2>2. NoEntryForgotten
    <3>1. free \in Seq({0})
      BY <1>1 DEF IInv, Types, ReturnedId
    <3>2. free # <<>> => 1 \in 1 .. Len(free) /\ free[1] = 0
      BY <3>1
    <3>3. QED
      BY <1>1, <3>2 DEF IInv, Table, NoEntryForgotten
  <2>3. DeinitLeavesNone
    BY <1>1 DEF IInv, Infos, Apart, Destroyed, DeinitLeavesNone
  <2>4. QED
    BY <2>1, <2>2, <2>3 DEF ThreadsSound
<1>2. QED
  BY <1>1, Invariance, PTL

-----------------------------------------------------------------------------
(***************************************************************************)
(* The hash table.                                                         *)
(***************************************************************************)
Places(cap) == 0 .. cap - 1

(* A table has the buckets of its capacity, and a bucket without a key is  *)
(* an empty one or a tombstone.                                            *)
Shaped(h) ==
  /\ h.capacity \in Nat /\ h.capacity >= 2
  /\ h \in [buckets : [Places(h.capacity) -> H!Buckets], capacity : Nat, count : Nat, tombs : Nat,
            chain : Seq(Places(h.capacity))]
  /\ \A i \in Places(h.capacity) : h.buckets[i].key = NoKey => h.buckets[i] \in {H!Empty, H!Tomb}

(* Its list has the buckets that are not empty, once each.                 *)
Linked(h) ==
  /\ \A i, j \in 1 .. Len(h.chain) : i # j => h.chain[i] # h.chain[j]
  /\ \A i \in 1 .. Len(h.chain) : h.buckets[h.chain[i]] # H!Empty
  /\ \A b \in Places(h.capacity) :
       h.buckets[b] # H!Empty => \E i \in 1 .. Len(h.chain) : h.chain[i] = b

(* It counts them, and the tombstones among them, and is never full.       *)
Tombs(h) == {i \in 1 .. Len(h.chain) : h.buckets[h.chain[i]] = H!Tomb}
Counted(h) ==
  /\ h.count = Len(h.chain) /\ h.tombs = Cardinality(Tombs(h))
  /\ 4 * h.count <= 3 * h.capacity

(* What is known of the parameters.                                        *)
LEMMA TableParameters ==
  /\ NoKey \notin Keys /\ 0 \in Values /\ TombValue # 0
  /\ \A k \in Keys : Hash[k] \in Nat
  /\ DefaultCapacity \in Nat /\ DefaultCapacity >= 2
  /\ MaxVisits \in Nat /\ MaxCapacity \in Nat
  /\ H!Empty \in H!Buckets /\ H!Tomb \in H!Buckets /\ H!Empty # H!Tomb
  /\ H!Empty.key = NoKey /\ H!Tomb.key = NoKey
  /\ \A k \in Keys, v \in Values : [key |-> k, value |-> v] \in H!Buckets
BY HashMapAssumption DEF H!HashMapParameters, H!Empty, H!Tomb, H!Buckets

(* A probe sequence goes through all places.                               *)
LEMMA ProbesAll ==
  ASSUME NEW cap \in Nat \ {0}, NEW n \in Nat, NEW b \in Places(cap)
  PROVE  \E i \in Places(cap) : (n + i) % cap = b
<1> DEFINE i == (b - n) % cap
           q == (b - n) \div cap
<1>1. i \in Places(cap) /\ i \in Int /\ q \in Int /\ i = (b - n) - cap * q
  BY Division DEF Places
<1> HIDE DEF i, q
<1>2. cap * q \in Int /\ cap * (-q) = -(cap * q)
  BY <1>1
<1>3. Divided(n + i, cap, -q, b)
  BY <1>1, <1>2 DEF Divided, Places
<1>4. n + i \in Int /\ b \in Int /\ -q \in Int
  BY <1>1 DEF Places
<1>5. (n + i) % cap = b
  BY <1>3, <1>4, OneQuotient
<1>6. QED
  BY <1>1, <1>5

(* Min finds the least number of a set.                                    *)
LEMMA LeastIs ==
  ASSUME NEW I, I \subseteq Nat, I # {}
  PROVE  H!Min(I) \in I /\ \A i \in I : H!Min(I) <= i
<1>1. PICK x \in I : \A y \in I : x <= y
  BY MinExists
<1>2. QED
  BY <1>1 DEF H!Min

(* The place that the probe sequence of a key comes to.                    *)
ProbeAt(h, k, i) == (Hash[k] + i) % h.capacity

(* find_entry: the bucket that has the key, or an empty one.               *)
LEMMA FindsEntry ==
  ASSUME NEW h, Shaped(h), NEW k \in Keys,
         \E b \in Places(h.capacity) : h.buckets[b] = H!Empty
  PROVE  LET e == H!FindEntry(h, k)
         IN  /\ e \in Places(h.capacity) /\ (h.buckets[e] = H!Empty \/ h.buckets[e].key = k)
             /\ \E i \in Places(h.capacity) :
                  /\ ProbeAt(h, k, i) = e
                  /\ \A j \in 0 .. i - 1 : /\ h.buckets[ProbeAt(h, k, j)] # H!Empty
                                           /\ h.buckets[ProbeAt(h, k, j)].key # k
<1> DEFINE S == {b \in Places(h.capacity) : h.buckets[b] = H!Empty \/ h.buckets[b].key = k}
           I == {i \in 0 .. h.capacity - 1 : (Hash[k] + i) % h.capacity \in S}
<1>1. h.capacity \in Nat \ {0} /\ Hash[k] \in Nat /\ S \in SUBSET Places(h.capacity) /\ S # {}
  BY TableParameters DEF Shaped
<1>2. /\ (Hash[k] + H!Min(I)) % h.capacity \in S
      /\ H!Min(I) \in I /\ \A i \in I : H!Min(I) <= i
  <2>1. PICK b \in S : b \in Places(h.capacity)
    BY <1>1
  <2>2. PICK x \in Places(h.capacity) : (Hash[k] + x) % h.capacity = b
    BY <1>1, <2>1, ProbesAll
  <2> HIDE DEF S
  <2>3. I \subseteq Nat /\ I # {}
    BY <1>1, <2>1, <2>2 DEF Places
  <2>4. \A i \in I : (Hash[k] + i) % h.capacity \in S
    OBVIOUS
  <2> HIDE DEF I
  <2>5. H!Min(I) \in I /\ \A i \in I : H!Min(I) <= i
    BY <2>3, LeastIs
  <2>6. QED
    BY <2>4, <2>5
<1>3. \A i \in 0 .. h.capacity - 1 : (Hash[k] + i) % h.capacity \in Places(h.capacity)
  BY <1>1 DEF Places
<1>4. I = {i \in 0 .. h.capacity - 1 : LET b == h.buckets[(Hash[k] + i) % h.capacity]
                                       IN  b = H!Empty \/ b.key = k}
  BY <1>3
<1>5. H!FindEntry(h, k) = (Hash[k] + H!Min(I)) % h.capacity
  <2> HIDE DEF I, S
  <2>1. QED
    BY <1>4 DEF H!FindEntry, H!Probe
<1> DEFINE first == H!Min(I)
<1>6. first \in Places(h.capacity) /\ ProbeAt(h, k, first) = H!FindEntry(h, k)
  BY <1>1, <1>2, <1>5 DEF Places, ProbeAt
<1>7. ASSUME NEW j \in 0 .. first - 1
      PROVE  ProbeAt(h, k, j) \in Places(h.capacity) /\ ProbeAt(h, k, j) \notin S
  <2>1. j \in 0 .. h.capacity - 1 /\ j < first
    <3> HIDE DEF first
    <3>1. QED
      BY <1>1, <1>6 DEF Places
  <2>2. j \notin I
    <3> HIDE DEF I
    <3>1. QED
      BY <1>2, <1>6, <2>1 DEF Places
  <2>3. QED
    BY <1>3, <2>1, <2>2 DEF ProbeAt
<1> HIDE DEF first
<1>8. QED
  BY <1>2, <1>5, <1>6, <1>7

(* resize_entry: a bucket without a key.                                   *)
LEMMA ResizesEntry ==
  ASSUME NEW h, Shaped(h), NEW k \in Keys,
         \E b \in Places(h.capacity) : h.buckets[b].key = NoKey
  PROVE  LET e == H!ResizeEntry(h, k)
         IN  /\ e \in Places(h.capacity) /\ h.buckets[e].key = NoKey
             /\ \E i \in Places(h.capacity) :
                  ProbeAt(h, k, i) = e /\ \A j \in 0 .. i - 1 : h.buckets[ProbeAt(h, k, j)].key # NoKey
<1> DEFINE S == {b \in Places(h.capacity) : h.buckets[b].key = NoKey}
           I == {i \in 0 .. h.capacity - 1 : (Hash[k] + i) % h.capacity \in S}
<1>1. h.capacity \in Nat \ {0} /\ Hash[k] \in Nat /\ S \in SUBSET Places(h.capacity) /\ S # {}
  BY TableParameters DEF Shaped
<1>2. /\ (Hash[k] + H!Min(I)) % h.capacity \in S
      /\ H!Min(I) \in I /\ \A i \in I : H!Min(I) <= i
  <2>1. PICK b \in S : b \in Places(h.capacity)
    BY <1>1
  <2>2. PICK x \in Places(h.capacity) : (Hash[k] + x) % h.capacity = b
    BY <1>1, <2>1, ProbesAll
  <2> HIDE DEF S
  <2>3. I \subseteq Nat /\ I # {}
    BY <1>1, <2>1, <2>2 DEF Places
  <2>4. \A i \in I : (Hash[k] + i) % h.capacity \in S
    OBVIOUS
  <2> HIDE DEF I
  <2>5. H!Min(I) \in I /\ \A i \in I : H!Min(I) <= i
    BY <2>3, LeastIs
  <2>6. QED
    BY <2>4, <2>5
<1>3. \A i \in 0 .. h.capacity - 1 : (Hash[k] + i) % h.capacity \in Places(h.capacity)
  BY <1>1 DEF Places
<1>4. I = {i \in 0 .. h.capacity - 1 : h.buckets[(Hash[k] + i) % h.capacity].key = NoKey}
  BY <1>3
<1>5. H!ResizeEntry(h, k) = (Hash[k] + H!Min(I)) % h.capacity
  <2> HIDE DEF I, S
  <2>1. QED
    BY <1>4 DEF H!ResizeEntry, H!Probe
<1> DEFINE first == H!Min(I)
<1>6. first \in Places(h.capacity) /\ ProbeAt(h, k, first) = H!ResizeEntry(h, k)
  BY <1>1, <1>2, <1>5 DEF Places, ProbeAt
<1>7. ASSUME NEW j \in 0 .. first - 1
      PROVE  ProbeAt(h, k, j) \in Places(h.capacity) /\ ProbeAt(h, k, j) \notin S
  <2>1. j \in 0 .. h.capacity - 1 /\ j < first
    <3> HIDE DEF first
    <3>1. QED
      BY <1>1, <1>6 DEF Places
  <2>2. j \notin I
    <3> HIDE DEF I
    <3>1. QED
      BY <1>2, <1>6, <2>1 DEF Places
  <2>3. QED
    BY <1>3, <2>1, <2>2 DEF ProbeAt
<1> HIDE DEF first
<1>8. QED
  BY <1>2, <1>5, <1>6, <1>7

(* A list shorter than the table leaves a bucket empty.                    *)
LEMMA EmptyIsThere ==
  ASSUME NEW h, Shaped(h), Linked(h), Len(h.chain) < h.capacity
  PROVE  \E b \in Places(h.capacity) : h.buckets[b] = H!Empty
<1> SUFFICES ASSUME \A b \in Places(h.capacity) : h.buckets[b] # H!Empty
             PROVE  FALSE
  OBVIOUS
<1>1. h.chain \in [1 .. Len(h.chain) -> Places(h.capacity)] /\ Len(h.chain) \in Nat
      /\ h.capacity \in Nat \ {0}
  BY DEF Shaped
<1>2. h.chain \in Surjection(1 .. Len(h.chain), Places(h.capacity))
  BY <1>1 DEF Linked, Surjection
<1>3. IsFiniteSet(1 .. Len(h.chain)) /\ Cardinality(1 .. Len(h.chain)) = Len(h.chain)
      /\ Cardinality(Places(h.capacity)) = h.capacity
  BY <1>1, FirstNumbers DEF Places
<1>4. Cardinality(Places(h.capacity)) <= Cardinality(1 .. Len(h.chain))
  BY <1>2, <1>3, FS_Surjection
<1>5. QED
  BY <1>1, <1>3, <1>4

(* A key has one bucket, and every bucket that its probe sequence comes to *)
(* before that is in use.                                                  *)
Keyed(h) ==
  /\ \A a, b \in Places(h.capacity) :
       h.buckets[a].key # NoKey /\ h.buckets[a].key = h.buckets[b].key => a = b
  /\ \A b \in Places(h.capacity) : h.buckets[b].key # NoKey =>
       \E i \in Places(h.capacity) :
         /\ ProbeAt(h, h.buckets[b].key, i) = b
         /\ \A j \in 0 .. i - 1 : h.buckets[ProbeAt(h, h.buckets[b].key, j)] # H!Empty

(* A probe is of some place.                                               *)
LEMMA ProbeIsPlace ==
  ASSUME NEW h, Shaped(h), NEW k \in Keys, NEW i \in Nat
  PROVE  ProbeAt(h, k, i) \in Places(h.capacity)
<1>1. h.capacity \in Nat \ {0} /\ Hash[k] + i \in Nat
  BY TableParameters DEF Shaped
<1>2. QED
  BY <1>1, ModRange DEF ProbeAt, Places

(* find_entry returns an empty bucket only for a key that is not there.    *)
LEMMA FindsKey ==
  ASSUME NEW h, Shaped(h), Keyed(h), NEW k \in Keys,
         \E b \in Places(h.capacity) : h.buckets[b] = H!Empty
  PROVE  LET e == H!FindEntry(h, k)
         IN  /\ e \in Places(h.capacity)
             /\ \/ h.buckets[e].key = k
                \/ /\ h.buckets[e] = H!Empty /\ \A b \in Places(h.capacity) : h.buckets[b].key # k
                   /\ \E i \in Places(h.capacity) :
                        /\ ProbeAt(h, k, i) = e
                        /\ \A j \in 0 .. i - 1 : h.buckets[ProbeAt(h, k, j)] # H!Empty
<1> DEFINE e == H!FindEntry(h, k)
<1>1. /\ e \in Places(h.capacity) /\ (h.buckets[e] = H!Empty \/ h.buckets[e].key = k)
      /\ \E i \in Places(h.capacity) :
           /\ ProbeAt(h, k, i) = e
           /\ \A j \in 0 .. i - 1 : /\ h.buckets[ProbeAt(h, k, j)] # H!Empty
                                    /\ h.buckets[ProbeAt(h, k, j)].key # k
  BY FindsEntry
<1> HIDE DEF e
<1>2. PICK i \in Places(h.capacity) :
        /\ ProbeAt(h, k, i) = e
        /\ \A j \in 0 .. i - 1 : /\ h.buckets[ProbeAt(h, k, j)] # H!Empty
                                 /\ h.buckets[ProbeAt(h, k, j)].key # k
  BY <1>1
<1>3. ASSUME h.buckets[e] = H!Empty, NEW b \in Places(h.capacity), h.buckets[b].key = k
      PROVE  FALSE
  <2>1. k # NoKey
    BY TableParameters
  <2>2. PICK l \in Places(h.capacity) :
          /\ ProbeAt(h, k, l) = b
          /\ \A j \in 0 .. l - 1 : h.buckets[ProbeAt(h, k, j)] # H!Empty
    BY <1>3, <2>1 DEF Keyed
  <2>3. l < i \/ l = i \/ i < l
    BY DEF Places
  <2>4. ~(l < i)
    BY <1>2, <1>3, <2>2 DEF Places
  <2>5. ~(i < l)
    BY <1>2, <1>3, <2>2 DEF Places
  <2>6. l # i
    BY <1>2, <1>3, <2>1, <2>2, TableParameters
  <2>7. QED
    BY <2>3, <2>4, <2>5, <2>6
<1>4. QED
  BY <1>1, <1>2, <1>3 DEF e

-----------------------------------------------------------------------------
(***************************************************************************)
(* The entries of a table.                                                 *)
(***************************************************************************)
(* The first n buckets of the list that have a key.                        *)
Live(h, n) == {i \in 1 .. n : h.buckets[h.chain[i]].key # NoKey}

(* One more bucket is looked at.                                           *)
LEMMA LiveGrows ==
  ASSUME NEW h, NEW n \in Nat \ {0}
  PROVE  /\ IsFiniteSet(Live(h, n - 1)) /\ Cardinality(Live(h, n - 1)) \in 0 .. n - 1
         /\ Cardinality(Live(h, n))
              = Cardinality(Live(h, n - 1)) + (IF h.buckets[h.chain[n]].key # NoKey THEN 1 ELSE 0)
<1>1. Live(h, n - 1) \subseteq 1 .. n - 1 /\ n - 1 \in Nat
  BY DEF Live
<1>2. IsFiniteSet(1 .. n - 1) /\ Cardinality(1 .. n - 1) = n - 1
  BY <1>1, FirstNumbers
<1>3. IsFiniteSet(Live(h, n - 1)) /\ Cardinality(Live(h, n - 1)) \in 0 .. n - 1
  BY <1>1, <1>2, PartOf
<1>4. Live(h, n) = IF h.buckets[h.chain[n]].key # NoKey THEN Live(h, n - 1) \cup {n} ELSE Live(h, n - 1)
  BY DEF Live
<1>5. n \notin Live(h, n - 1)
  BY DEF Live
<1>6. Cardinality(Live(h, n - 1) \cup {n}) = Cardinality(Live(h, n - 1)) + 1
  BY <1>3, <1>5, FS_AddElement
<1>7. QED
  BY <1>3, <1>4, <1>6

(* The list of entries grows by one bucket.                                *)
Grown(h, n, s) ==
  LET b == h.buckets[h.chain[n]]
  IN  IF b.key = NoKey THEN s ELSE Append(s, b)
Grow(h, n, f) == f[0] = <<>> /\ \A i \in 1 .. n : f[i] = Grown(h, i, f[i - 1])

(* Entries is a function of the number of buckets looked at.               *)
LEMMA EntriesRun ==
  ASSUME NEW h, NEW n \in Nat
  PROVE  \E f : H!Entries(h, n) = f[n] /\ Grow(h, n, f)
<1> DEFINE R(f) == f = [i \in 0 .. n |-> IF i = 0 THEN <<>> ELSE Grown(h, i, f[i - 1])]
           s == CHOOSE f : R(f)
           P == {j \in 0 .. n : \E f : Grow(h, j, f)}
<1>1. 0 \in P
  <2> DEFINE f == [i \in {0} |-> <<>>]
  <2>1. Grow(h, 0, f)
    BY DEF Grow
  <2> HIDE DEF f
  <2>2. QED
    BY <2>1
<1>2. ASSUME NEW j \in 1 .. n, j - 1 \in P
      PROVE  j \in P
  <2>1. PICK f : Grow(h, j - 1, f)
    BY <1>2
  <2> DEFINE g == [i \in 0 .. j |-> IF i = j THEN Grown(h, j, f[j - 1]) ELSE f[i]]
  <2>2. g[0] = <<>> /\ g[j] = Grown(h, j, g[j - 1])
    BY <2>1 DEF Grow
  <2>3. \A i \in 1 .. j - 1 : g[i] = f[i] /\ g[i - 1] = f[i - 1]
    OBVIOUS
  <2> HIDE DEF g
  <2>4. \A i \in 1 .. j : i = j \/ i \in 1 .. j - 1
    OBVIOUS
  <2>5. Grow(h, j, g)
    BY <2>1, <2>2, <2>3, <2>4 DEF Grow
  <2>6. QED
    BY <2>5
<1>3. n \in P
  <2> HIDE DEF P
  <2>1. 0 .. n \subseteq P
    BY <1>1, <1>2, StepByStep
  <2>2. QED
    BY <2>1
<1>4. PICK f : Grow(h, n, f)
  BY <1>3
<1>5. R([i \in 0 .. n |-> f[i]])
  <2> DEFINE g == [i \in 0 .. n |-> f[i]]
  <2>1. \A i \in 0 .. n : g[i] = IF i = 0 THEN <<>> ELSE Grown(h, i, g[i - 1])
    BY <1>4 DEF Grow
  <2>2. QED
    BY <2>1
<1>6. R(s)
  BY <1>5
<1>7. H!Entries(h, n) = s[n]
  BY DEF H!Entries, Grown
<1> HIDE DEF s
<1>8. Grow(h, n, s)
  <2>1. \A i \in 0 .. n : s[i] = IF i = 0 THEN <<>> ELSE Grown(h, i, s[i - 1])
    BY <1>6
  <2>2. 0 \in 0 .. n /\ \A i \in 1 .. n : i \in 0 .. n /\ i # 0
    OBVIOUS
  <2>3. QED
    BY <2>1, <2>2 DEF Grow
<1>9. QED
  BY <1>7, <1>8

(* So each bucket adds its entry to the list, or nothing.                  *)
LEMMA EntriesStep ==
  ASSUME NEW h, NEW n \in Nat
  PROVE  /\ H!Entries(h, 0) = <<>>
         /\ n > 0 => H!Entries(h, n) = Grown(h, n, H!Entries(h, n - 1))
<1>1. H!Entries(h, 0) = <<>>
  BY EntriesRun DEF Grow
<1>2. ASSUME n > 0 PROVE H!Entries(h, n) = Grown(h, n, H!Entries(h, n - 1))
  <2>1. PICK f : H!Entries(h, n) = f[n] /\ Grow(h, n, f)
    BY EntriesRun
  <2>2. n - 1 \in Nat
    BY <1>2
  <2>3. PICK g : H!Entries(h, n - 1) = g[n - 1] /\ Grow(h, n - 1, g)
    BY <2>2, EntriesRun
  <2> DEFINE P == {i \in 0 .. n - 1 : f[i] = g[i]}
  <2>4. 0 \in P
    BY <2>1, <2>2, <2>3 DEF Grow
  <2>5. ASSUME NEW i \in 1 .. n - 1, i - 1 \in P PROVE i \in P
    <3>1. f[i] = Grown(h, i, f[i - 1]) /\ g[i] = Grown(h, i, g[i - 1]) /\ f[i - 1] = g[i - 1]
      BY <2>1, <2>3, <2>5 DEF Grow
    <3>2. QED
      BY <3>1
  <2>6. n - 1 \in P
    <3> HIDE DEF P
    <3>1. 0 .. n - 1 \subseteq P
      BY <2>2, <2>4, <2>5, StepByStep
    <3>2. QED
      BY <2>2, <3>1
  <2>7. f[n] = Grown(h, n, f[n - 1])
    BY <1>2, <2>1 DEF Grow
  <2>8. QED
    BY <2>1, <2>3, <2>6, <2>7
<1>3. QED
  BY <1>1, <1>2

(* Only the buckets looked at count.                                       *)
LEMMA EntriesSame ==
  ASSUME NEW h, NEW g, NEW n \in Nat,
         \A i \in 1 .. n : g.buckets[g.chain[i]] = h.buckets[h.chain[i]]
  PROVE  H!Entries(g, n) = H!Entries(h, n)
<1> DEFINE P == {i \in 0 .. n : H!Entries(g, i) = H!Entries(h, i)}
<1>1. 0 \in P
  BY EntriesStep
<1>2. ASSUME NEW i \in 1 .. n, i - 1 \in P PROVE i \in P
  <2>1. H!Entries(g, i - 1) = H!Entries(h, i - 1)
    BY <1>2
  <2>2. i \in Nat /\ i > 0
    OBVIOUS
  <2>3. H!Entries(g, i) = Grown(g, i, H!Entries(g, i - 1))
    BY <2>2, EntriesStep
  <2>4. H!Entries(h, i) = Grown(h, i, H!Entries(h, i - 1))
    BY <2>2, EntriesStep
  <2>5. \A s : Grown(g, i, s) = Grown(h, i, s)
    BY DEF Grown
  <2>6. H!Entries(g, i) = H!Entries(h, i)
    BY <2>1, <2>3, <2>4, <2>5
  <2>7. QED
    BY <2>6
<1>3. QED
  <2> HIDE DEF P
  <2>1. 0 .. n \subseteq P
    BY <1>1, <1>2, StepByStep
  <2>2. QED
    BY <2>1 DEF P

(* Entries has the buckets with a key, in their order, each key once.      *)
IsList(h, n, s) ==
  /\ s \in Seq(H!Buckets) /\ Len(s) = Cardinality(Live(h, n))
  /\ \A j \in 1 .. Len(s) : s[j].key # NoKey /\ \E i \in 1 .. n : s[j] = h.buckets[h.chain[i]]
  /\ \A i \in Live(h, n) : \E j \in 1 .. Len(s) : s[j] = h.buckets[h.chain[i]]
  /\ \A j, l \in 1 .. Len(s) : s[j].key = s[l].key => j = l

(* That is what Entries is, at every bucket of the list.                   *)
LEMMA EntriesList ==
  ASSUME NEW h, Shaped(h), Linked(h), Keyed(h), NEW n \in 0 .. Len(h.chain)
  PROVE  IsList(h, n, H!Entries(h, n))
<1> DEFINE last == Len(h.chain)
           P == {i \in 0 .. last : IsList(h, i, H!Entries(h, i))}
<1>1. last \in Nat /\ \A i \in 1 .. last : /\ h.chain[i] \in Places(h.capacity)
                                          /\ h.buckets[h.chain[i]] \in H!Buckets
  BY DEF Shaped
<1>2. 0 \in P
  <2>1. Live(h, 0) = {} /\ H!Entries(h, 0) = <<>>
    BY EntriesStep DEF Live
  <2>2. Cardinality(Live(h, 0)) = 0
    BY <2>1, FS_EmptySet
  <2>3. <<>> \in Seq(H!Buckets) /\ Len(<<>>) = 0
    OBVIOUS
  <2>4. IsList(h, 0, <<>>)
    BY <2>1, <2>2, <2>3 DEF IsList
  <2>5. QED
    BY <1>1, <2>1, <2>4
<1>3. ASSUME NEW i \in 1 .. last, i - 1 \in P PROVE i \in P
  <2> DEFINE s == H!Entries(h, i - 1)
             t == H!Entries(h, i)
             b == h.buckets[h.chain[i]]
  <2>1. IsList(h, i - 1, s)
    BY <1>3
  <2>2. i \in Nat \ {0} /\ i \in Nat /\ i > 0 /\ i \in 0 .. last /\ b \in H!Buckets
    BY <1>1
  <2>3. t = IF b.key = NoKey THEN s ELSE Append(s, b)
    BY <2>2, EntriesStep DEF Grown
  <2>4. /\ Cardinality(Live(h, i - 1)) \in 0 .. i - 1
        /\ Cardinality(Live(h, i)) = Cardinality(Live(h, i - 1)) + (IF b.key # NoKey THEN 1 ELSE 0)
    BY <2>2, LiveGrows
  <2>5. Live(h, i) = IF b.key # NoKey THEN Live(h, i - 1) \cup {i} ELSE Live(h, i - 1)
    BY <2>2 DEF Live
  <2>6. \A j \in 1 .. i - 1 : j \in 1 .. i
    OBVIOUS
  <2> HIDE DEF s, t
  <2>7. CASE b.key = NoKey
    <3>1. t = s /\ Live(h, i) = Live(h, i - 1)
      BY <2>3, <2>5, <2>7
    <3>2. IsList(h, i, t)
      BY <2>1, <2>6, <3>1 DEF IsList
    <3>3. QED
      BY <2>2, <3>2 DEF t
  <2>8. CASE b.key # NoKey
    <3> DEFINE k == Len(s) + 1
    <3>1. s \in Seq(H!Buckets) /\ t = Append(s, b) /\ Len(s) \in Nat
      BY <2>1, <2>3, <2>8 DEF IsList
    <3>2. /\ t \in Seq(H!Buckets) /\ Len(t) = k /\ t[k] = b
          /\ \A j \in 1 .. Len(s) : t[j] = s[j]
          /\ \A j \in 1 .. k : j = k \/ j \in 1 .. Len(s)
          /\ k \in 1 .. k /\ \A j \in 1 .. Len(s) : j \in 1 .. k
      BY <2>2, <3>1
    <3> HIDE DEF k
    <3>3. Len(t) = Cardinality(Live(h, i))
      BY <2>1, <2>4, <2>8, <3>1, <3>2 DEF IsList, k
    <3>4. ASSUME NEW j \in 1 .. k
          PROVE  t[j].key # NoKey /\ \E l \in 1 .. i : t[j] = h.buckets[h.chain[l]]
      <4>1. CASE j = k
        BY <2>2, <2>8, <3>2, <4>1
      <4>2. CASE j \in 1 .. Len(s)
        <5>1. s[j].key # NoKey /\ \E l \in 1 .. i - 1 : s[j] = h.buckets[h.chain[l]]
          BY <2>1, <4>2 DEF IsList
        <5>2. t[j] = s[j]
          BY <3>2, <4>2
        <5>3. QED
          BY <2>6, <5>1, <5>2
      <4>3. j = k \/ j \in 1 .. Len(s)
        BY <3>2
      <4>4. QED
        BY <4>1, <4>2, <4>3
    <3>5. ASSUME NEW l \in Live(h, i)
          PROVE  \E j \in 1 .. k : t[j] = h.buckets[h.chain[l]]
      <4>1. CASE l = i
        BY <3>2, <4>1
      <4>2. CASE l \in Live(h, i - 1)
        BY <2>1, <3>2, <4>2 DEF IsList
      <4>3. QED
        BY <2>5, <2>8, <4>1, <4>2
    <3>6. ASSUME NEW j \in 1 .. Len(s)
          PROVE  s[j].key # b.key
      <4>1. PICK l \in 1 .. i - 1 : s[j] = h.buckets[h.chain[l]]
        BY <2>1 DEF IsList
      <4>2. l \in 1 .. last /\ i \in 1 .. last /\ l # i
        BY <1>1
      <4>3. h.chain[l] # h.chain[i]
        BY <4>2 DEF Linked
      <4>4. QED
        BY <1>1, <2>8, <4>1, <4>2, <4>3 DEF Keyed
    <3>7. ASSUME NEW j \in 1 .. k, NEW l \in 1 .. k, t[j].key = t[l].key
          PROVE  j = l
      BY <2>1, <3>2, <3>6, <3>7 DEF IsList
    <3>8. IsList(h, i, t)
      BY <3>2, <3>3, <3>4, <3>5, <3>7 DEF IsList
    <3>9. QED
      BY <2>2, <3>8 DEF t
  <2>9. QED
    BY <2>7, <2>8
<1>4. QED
  <2> HIDE DEF P
  <2>1. 0 .. last \subseteq P
    BY <1>1, <1>2, <1>3, StepByStep
  <2>2. QED
    BY <2>1 DEF P

(* So an entry has one place among them.                                   *)
LEMMA EntryPlace ==
  ASSUME NEW h, Shaped(h), Linked(h), Keyed(h)
  PROVE  LET s == H!Entries(h, Len(h.chain))
         IN  /\ s \in Seq(H!Buckets) /\ Len(s) = Cardinality(Live(h, Len(h.chain)))
             /\ \A e \in Places(h.capacity) : h.buckets[e].key # NoKey =>
                  \E p \in 1 .. Len(s) :
                    s[p] = h.buckets[e] /\ \A j \in 1 .. Len(s) : s[j].key = s[p].key => j = p
             /\ \A j \in 1 .. Len(s) : s[j].key # NoKey /\ \E e \in Places(h.capacity) : s[j] = h.buckets[e]
<1> DEFINE n == Len(h.chain)
           s == H!Entries(h, n)
<1>1. n \in Nat /\ n \in 0 .. n /\ \A i \in 1 .. n : h.chain[i] \in Places(h.capacity)
  BY DEF Shaped
<1>2. IsList(h, n, s)
  BY <1>1, EntriesList
<1> HIDE DEF s
<1>3. ASSUME NEW e \in Places(h.capacity), h.buckets[e].key # NoKey
      PROVE  \E p \in 1 .. Len(s) :
               s[p] = h.buckets[e] /\ \A j \in 1 .. Len(s) : s[j].key = s[p].key => j = p
  <2>1. PICK i \in 1 .. n : h.chain[i] = e
    BY <1>3, TableParameters DEF Linked
  <2>2. i \in Live(h, n)
    BY <1>3, <2>1 DEF Live
  <2>3. QED
    BY <1>2, <2>1, <2>2 DEF IsList
<1>4. QED
  BY <1>1, <1>2, <1>3 DEF IsList, s

-----------------------------------------------------------------------------
(***************************************************************************)
(* What the calls do to a table.                                           *)
(***************************************************************************)
(* A bucket that is empty is filled, and comes last in the list.           *)
Filled(h, e, b) == [h EXCEPT !.buckets[e] = b, !.chain = Append(@, e)]

(* The table stays in shape, with one more bucket in its list.             *)
LEMMA FilledIs ==
  ASSUME NEW h, Shaped(h), Linked(h), NEW e \in Places(h.capacity), h.buckets[e] = H!Empty,
         NEW b \in H!Buckets, b.key # NoKey
  PROVE  LET g == Filled(h, e, b)
         IN  /\ Shaped(g) /\ Linked(g) /\ Tombs(g) = Tombs(h)
             /\ g.capacity = h.capacity /\ g.count = h.count /\ g.tombs = h.tombs
             /\ Len(g.chain) = Len(h.chain) + 1 /\ Len(h.chain) \in Nat
             /\ g.chain[Len(h.chain) + 1] = e
             /\ \A i \in 1 .. Len(h.chain) : g.chain[i] = h.chain[i] /\ h.chain[i] # e
             /\ \A i \in Places(h.capacity) : g.buckets[i] = IF i = e THEN b ELSE h.buckets[i]
<1> DEFINE g == Filled(h, e, b)
           n == Len(h.chain)
<1>1. /\ h.chain \in Seq(Places(h.capacity)) /\ n \in Nat
      /\ h.buckets \in [Places(h.capacity) -> H!Buckets]
  BY DEF Shaped
<1>2. /\ g.capacity = h.capacity /\ g.count = h.count /\ g.tombs = h.tombs
      /\ g.chain = Append(h.chain, e) /\ g.buckets = [h.buckets EXCEPT ![e] = b]
  BY DEF Filled, Shaped
<1>3. /\ g.chain \in Seq(Places(h.capacity)) /\ Len(g.chain) = n + 1 /\ g.chain[n + 1] = e
      /\ \A i \in 1 .. n : g.chain[i] = h.chain[i] /\ h.chain[i] \in Places(h.capacity)
  BY <1>1, <1>2
<1>4. /\ g.buckets \in [Places(h.capacity) -> H!Buckets]
      /\ \A i \in Places(h.capacity) : g.buckets[i] = IF i = e THEN b ELSE h.buckets[i]
  BY <1>1, <1>2
<1>5. g \in [buckets : [Places(h.capacity) -> H!Buckets], capacity : Nat, count : Nat, tombs : Nat,
             chain : Seq(Places(h.capacity))]
  BY <1>1, <1>3, <1>4 DEF Filled, Shaped
<1>6. Shaped(g)
  BY <1>2, <1>4, <1>5 DEF Shaped
<1>7. \A i \in 1 .. n : h.chain[i] # e
  BY DEF Linked
<1> HIDE DEF g
<1>8. Linked(g)
  <2>1. \A i \in 1 .. n + 1 : i = n + 1 \/ i \in 1 .. n
    BY <1>1
  <2>2. \A i, j \in 1 .. n + 1 : i # j => g.chain[i] # g.chain[j]
    BY <1>3, <1>7, <2>1 DEF Linked
  <2>3. b # H!Empty
    BY TableParameters
  <2>4. \A i \in 1 .. n + 1 : g.buckets[g.chain[i]] # H!Empty
    BY <1>3, <1>4, <1>7, <2>1, <2>3 DEF Linked
  <2>5. ASSUME NEW c \in Places(h.capacity), g.buckets[c] # H!Empty
        PROVE  \E i \in 1 .. n + 1 : g.chain[i] = c
    <3>1. CASE c = e
      BY <1>1, <1>3, <3>1
    <3>2. CASE c # e
      <4>1. PICK i \in 1 .. n : h.chain[i] = c
        BY <1>4, <2>5, <3>2 DEF Linked
      <4>2. i \in 1 .. n + 1 /\ g.chain[i] = c
        BY <1>1, <1>3, <4>1
      <4>3. QED
        BY <4>2
    <3>3. QED
      BY <3>1, <3>2
  <2>6. QED
    BY <1>2, <1>3, <2>2, <2>4, <2>5 DEF Linked
<1>9. Tombs(g) = Tombs(h)
  <2>1. b # H!Tomb
    BY TableParameters
  <2>2. ASSUME NEW i \in 1 .. n
        PROVE  g.buckets[g.chain[i]] = h.buckets[h.chain[i]]
    BY <1>3, <1>4, <1>7
  <2>3. g.buckets[g.chain[n + 1]] # H!Tomb
    BY <1>3, <1>4, <2>1
  <2>4. 1 .. n + 1 = (1 .. n) \cup {n + 1}
    BY <1>1
  <2>5. QED
    BY <1>3, <2>2, <2>3, <2>4 DEF Tombs
<1>10. QED
  BY <1>1, <1>2, <1>3, <1>4, <1>6, <1>7, <1>8, <1>9 DEF g

(* The bucket is where its key is looked for, and its entry comes last.    *)
LEMMA FilledKeyed ==
  ASSUME NEW h, Shaped(h), Linked(h), Keyed(h), NEW e \in Places(h.capacity), h.buckets[e] = H!Empty,
         NEW b \in H!Buckets, b.key # NoKey, \A c \in Places(h.capacity) : h.buckets[c].key # b.key,
         \E i \in Places(h.capacity) :
           /\ ProbeAt(h, b.key, i) = e
           /\ \A j \in 0 .. i - 1 : h.buckets[ProbeAt(h, b.key, j)] # H!Empty
  PROVE  LET g == Filled(h, e, b)
         IN  /\ Keyed(g)
             /\ H!Entries(g, Len(g.chain)) = Append(H!Entries(h, Len(h.chain)), b)
<1> DEFINE g == Filled(h, e, b)
           n == Len(h.chain)
<1>1. /\ g.capacity = h.capacity /\ Len(g.chain) = n + 1 /\ n \in Nat /\ g.chain[n + 1] = e
      /\ \A i \in 1 .. n : g.chain[i] = h.chain[i] /\ h.chain[i] # e
      /\ \A i \in Places(h.capacity) : g.buckets[i] = IF i = e THEN b ELSE h.buckets[i]
  BY FilledIs
<1> HIDE DEF g
<1>2. \A k, i : ProbeAt(g, k, i) = ProbeAt(h, k, i)
  BY <1>1 DEF ProbeAt
<1>3. \A c \in Places(h.capacity) : h.buckets[c] # H!Empty => g.buckets[c] # H!Empty
  BY <1>1
<1>4. \A c, d \in Places(h.capacity) :
        g.buckets[c].key # NoKey /\ g.buckets[c].key = g.buckets[d].key => c = d
  BY <1>1 DEF Keyed
<1>5. ASSUME NEW c \in Places(h.capacity), g.buckets[c].key # NoKey
      PROVE  \E i \in Places(h.capacity) :
               /\ ProbeAt(h, g.buckets[c].key, i) = c
               /\ \A j \in 0 .. i - 1 : g.buckets[ProbeAt(h, g.buckets[c].key, j)] # H!Empty
  <2> DEFINE k == g.buckets[c].key
  <2>1. g.buckets[c] \in H!Buckets
    BY <1>1 DEF Shaped
  <2>2. k \in Keys
    BY <1>5, <2>1 DEF H!Buckets
  <2>3. PICK i \in Places(h.capacity) :
          /\ ProbeAt(h, k, i) = c
          /\ \A j \in 0 .. i - 1 : h.buckets[ProbeAt(h, k, j)] # H!Empty
    BY <1>1, <1>5 DEF Keyed
  <2> HIDE DEF k
  <2>4. \A j \in 0 .. i - 1 : ProbeAt(h, k, j) \in Places(h.capacity)
    BY <2>2, ProbeIsPlace
  <2>5. \A j \in 0 .. i - 1 : g.buckets[ProbeAt(h, k, j)] # H!Empty
    BY <1>3, <2>3, <2>4
  <2>6. QED
    BY <2>3, <2>5 DEF k
<1>6. Keyed(g)
  BY <1>1, <1>2, <1>4, <1>5 DEF Keyed
<1>7. H!Entries(g, n) = H!Entries(h, n)
  <2>1. \A i \in 1 .. n : h.chain[i] \in Places(h.capacity)
    BY DEF Shaped
  <2>2. \A i \in 1 .. n : g.buckets[g.chain[i]] = h.buckets[h.chain[i]]
    BY <1>1, <2>1
  <2>3. QED
    BY <1>1, <2>2, EntriesSame
<1>8. H!Entries(g, n + 1) = Append(H!Entries(h, n), b)
  <2>1. n + 1 \in Nat /\ n + 1 > 0 /\ (n + 1) - 1 = n
    BY <1>1
  <2>2. H!Entries(g, n + 1) = Grown(g, n + 1, H!Entries(g, n))
    BY <2>1, EntriesStep
  <2>3. QED
    BY <1>1, <1>7, <2>2 DEF Grown
<1>9. QED
  BY <1>1, <1>6, <1>8 DEF g

(* One bucket of the old table moves, or drops out.                        *)
Moved(h, n, s) ==
  LET b == h.buckets[h.chain[n]]
  IN  IF b.key = NoKey THEN s ELSE Filled(s, H!ResizeEntry(s, b.key), b)

(* The loop of resize is a function of the number of buckets moved.        *)
LEMMA MoveRuns ==
  ASSUME NEW h, NEW new, Len(h.chain) \in Nat
  PROVE  \E s : /\ H!Move(h, new) = s[Len(h.chain)]
                /\ s[0] = new
                /\ \A n \in 1 .. Len(h.chain) : s[n] = Moved(h, n, s[n - 1])
<1> DEFINE last == Len(h.chain)
           R(f) == f = [n \in 0 .. last |-> IF n = 0 THEN new ELSE Moved(h, n, f[n - 1])]
           s == CHOOSE f : R(f)
           P == {j \in 0 .. last : \E f : f[0] = new /\ \A n \in 1 .. j : f[n] = Moved(h, n, f[n - 1])}
<1>1. 0 \in P
  <2> DEFINE f == [n \in {0} |-> new]
  <2>1. f[0] = new /\ \A n \in 1 .. 0 : f[n] = Moved(h, n, f[n - 1])
    OBVIOUS
  <2> HIDE DEF f
  <2>2. QED
    BY <2>1
<1>2. ASSUME NEW j \in 1 .. last, j - 1 \in P
      PROVE  j \in P
  <2>1. PICK f : f[0] = new /\ \A n \in 1 .. j - 1 : f[n] = Moved(h, n, f[n - 1])
    BY <1>2
  <2> DEFINE g == [n \in 0 .. j |-> IF n = j THEN Moved(h, j, f[j - 1]) ELSE f[n]]
  <2>2. g[0] = new /\ g[j] = Moved(h, j, g[j - 1])
    BY <2>1
  <2>3. \A n \in 1 .. j - 1 : g[n] = f[n] /\ g[n - 1] = f[n - 1]
    OBVIOUS
  <2> HIDE DEF g
  <2>4. \A n \in 1 .. j : n = j \/ n \in 1 .. j - 1
    OBVIOUS
  <2>5. \A n \in 1 .. j : g[n] = Moved(h, n, g[n - 1])
    BY <2>1, <2>2, <2>3, <2>4
  <2>6. QED
    BY <2>2, <2>5
<1>3. last \in P
  <2> HIDE DEF P
  <2>1. 0 .. last \subseteq P
    BY <1>1, <1>2, StepByStep
  <2>2. QED
    BY <2>1
<1>4. PICK f : f[0] = new /\ \A n \in 1 .. last : f[n] = Moved(h, n, f[n - 1])
  BY <1>3
<1>5. R([n \in 0 .. last |-> f[n]])
  <2> DEFINE g == [n \in 0 .. last |-> f[n]]
  <2>1. \A n \in 0 .. last : g[n] = IF n = 0 THEN new ELSE Moved(h, n, g[n - 1])
    BY <1>4
  <2>2. QED
    BY <2>1
<1>6. R(s)
  BY <1>5
<1>7. H!Move(h, new) = s[last]
  BY DEF H!Move, Moved, Filled
<1> HIDE DEF s
<1>8. s[0] = new /\ \A n \in 1 .. last : s[n] = Moved(h, n, s[n - 1])
  <2>1. \A n \in 0 .. last : s[n] = IF n = 0 THEN new ELSE Moved(h, n, s[n - 1])
    BY <1>6
  <2>2. 0 \in 0 .. last /\ \A n \in 1 .. last : n \in 0 .. last /\ n # 0
    OBVIOUS
  <2> HIDE DEF last
  <2>3. QED
    BY <2>1, <2>2
<1>9. QED
  BY <1>7, <1>8

(* resize moves what is live into a table of the new capacity.             *)
LEMMA MoveKeeps ==
  ASSUME NEW h, Shaped(h), Linked(h), Keyed(h),
         NEW new, Shaped(new), Linked(new), Keyed(new), new.chain = <<>>, Len(h.chain) < new.capacity
  PROVE  LET g == H!Move(h, new)
         IN  /\ Shaped(g) /\ Linked(g) /\ Keyed(g) /\ Tombs(g) = {}
             /\ H!Entries(g, Len(g.chain)) = H!Entries(h, Len(h.chain))
             /\ g.capacity = new.capacity /\ g.count = new.count /\ g.tombs = new.tombs
             /\ Len(g.chain) = Cardinality(Live(h, Len(h.chain)))
<1> DEFINE last == Len(h.chain)
           Good(s, n) == /\ Shaped(s) /\ Linked(s) /\ Keyed(s) /\ Tombs(s) = {}
                         /\ H!Entries(s, Len(s.chain)) = H!Entries(h, n)
                         /\ s.capacity = new.capacity /\ s.count = new.count /\ s.tombs = new.tombs
                         /\ Len(s.chain) = Cardinality(Live(h, n))
<1>1. last \in Nat /\ last < new.capacity /\ new.capacity \in Nat
      /\ \A n \in 1 .. last : h.chain[n] \in Places(h.capacity) /\ h.buckets[h.chain[n]] \in H!Buckets
  BY DEF Shaped
<1>2. PICK s : /\ H!Move(h, new) = s[last]
               /\ s[0] = new
               /\ \A n \in 1 .. last : s[n] = Moved(h, n, s[n - 1])
  BY <1>1, MoveRuns
<1> DEFINE P == {n \in 0 .. last : Good(s[n], n)}
<1>3. 0 \in P
  <2>1. /\ Live(h, 0) = {} /\ Tombs(new) = {} /\ Len(new.chain) = 0
    BY DEF Live, Tombs
  <2>2. Cardinality(Live(h, 0)) = 0
    BY <2>1, FS_EmptySet
  <2>3. H!Entries(new, 0) = <<>> /\ H!Entries(h, 0) = <<>>
    <3>1. H!Entries(new, 0) = <<>>
      BY EntriesStep
    <3>2. H!Entries(h, 0) = <<>>
      BY EntriesStep
    <3>3. QED
      BY <3>1, <3>2
  <2>4. QED
    BY <1>1, <1>2, <2>1, <2>2, <2>3
<1>4. ASSUME NEW n \in 1 .. last, n - 1 \in P
      PROVE  n \in P
  <2> DEFINE t == s[n - 1]
             b == h.buckets[h.chain[n]]
             e == H!ResizeEntry(t, b.key)
  <2>1. Good(t, n - 1)
    BY <1>4
  <2>2. n \in Nat \ {0} /\ n \in 0 .. last
    BY <1>1
  <2>3. /\ Cardinality(Live(h, n - 1)) \in 0 .. n - 1
        /\ Cardinality(Live(h, n)) = Cardinality(Live(h, n - 1)) + (IF b.key # NoKey THEN 1 ELSE 0)
    BY <2>2, LiveGrows
  <2>4. s[n] = Moved(h, n, t)
    BY <1>2
  <2>5. CASE b.key = NoKey
    <3>1. /\ s[n] = t /\ Cardinality(Live(h, n)) = Cardinality(Live(h, n - 1))
          /\ H!Entries(h, n) = H!Entries(h, n - 1)
      BY <2>2, <2>3, <2>4, <2>5, EntriesStep DEF Moved, Grown
    <3>2. QED
      BY <2>1, <2>2, <3>1
  <2>6. CASE b.key # NoKey
    <3>1. s[n] = Filled(t, e, b) /\ b \in H!Buckets /\ b.key \in Keys
      BY <1>1, <2>4, <2>6 DEF Moved, H!Buckets
    <3>2. Len(t.chain) < t.capacity
      BY <1>1, <2>1, <2>2, <2>3
    <3>3. PICK d \in Places(t.capacity) : t.buckets[d] = H!Empty
      BY <2>1, <3>2, EmptyIsThere
    <3>4. /\ e \in Places(t.capacity) /\ t.buckets[e].key = NoKey
          /\ \E i \in Places(t.capacity) :
               ProbeAt(t, b.key, i) = e /\ \A j \in 0 .. i - 1 : t.buckets[ProbeAt(t, b.key, j)].key # NoKey
      BY <2>1, <3>1, <3>3, ResizesEntry, TableParameters
    <3>5. t.buckets[e] = H!Empty
      <4>1. t.buckets[e] \in {H!Empty, H!Tomb}
        BY <2>1, <3>4 DEF Shaped
      <4>2. t.buckets[e] = H!Tomb => \E i \in 1 .. Len(t.chain) : t.chain[i] = e
        BY <2>1, <3>4, TableParameters DEF Linked
      <4>3. t.buckets[e] # H!Tomb
        BY <2>1, <4>2 DEF Tombs
      <4>4. QED
        BY <4>1, <4>3
    <3>6. \E i \in Places(t.capacity) :
            ProbeAt(t, b.key, i) = e /\ \A j \in 0 .. i - 1 : t.buckets[ProbeAt(t, b.key, j)] # H!Empty
      BY <3>4, TableParameters
    <3>7. \A c \in Places(t.capacity) : t.buckets[c].key # b.key
      <4>1. SUFFICES ASSUME NEW c \in Places(t.capacity), t.buckets[c].key = b.key PROVE FALSE
        OBVIOUS
      <4> DEFINE u == H!Entries(h, n - 1)
      <4>2. b = h.buckets[h.chain[n]] /\ H!Entries(t, Len(t.chain)) = u
            /\ Shaped(t) /\ Linked(t) /\ Keyed(t)
        BY <2>1
      <4>3. n - 1 \in 0 .. last /\ \A i \in 1 .. n - 1 : i \in 1 .. last /\ i # n
        BY <1>1
      <4>4. IsList(h, n - 1, u)
        BY <4>3, EntriesList
      <4> HIDE DEF t, b, u
      <4>5. PICK q \in 1 .. Len(u) : u[q] = t.buckets[c]
        <5>1. t.buckets[c].key # NoKey
          BY <2>6, <4>1
        <5>2. QED
          BY <4>2, <5>1, EntryPlace
      <4>6. PICK i \in 1 .. n - 1 : u[q] = h.buckets[h.chain[i]]
        BY <4>4, <4>5 DEF IsList
      <4>7. h.chain[i] # h.chain[n]
        BY <4>3 DEF Linked
      <4>8. QED
        BY <1>1, <2>6, <4>2, <4>1, <4>3, <4>5, <4>6, <4>7 DEF Keyed
    <3> HIDE DEF t, b, e
    <3>8. /\ Shaped(s[n]) /\ Linked(s[n]) /\ Tombs(s[n]) = Tombs(t)
          /\ s[n].capacity = t.capacity /\ s[n].count = t.count /\ s[n].tombs = t.tombs
          /\ Len(s[n].chain) = Len(t.chain) + 1
      BY <2>1, <2>6, <3>1, <3>4, <3>5, FilledIs
    <3>9. Keyed(s[n]) /\ H!Entries(s[n], Len(s[n].chain)) = Append(H!Entries(t, Len(t.chain)), b)
      BY <2>1, <2>6, <3>1, <3>4, <3>5, <3>6, <3>7, FilledKeyed
    <3>10. H!Entries(h, n) = Append(H!Entries(h, n - 1), b)
      BY <2>2, <2>6, EntriesStep DEF Grown, b
    <3>11. Good(s[n], n)
      BY <2>1, <2>3, <2>6, <3>8, <3>9, <3>10
    <3>12. QED
      BY <2>2, <3>11
  <2>7. QED
    BY <2>5, <2>6
<1>5. last \in P
  <2> HIDE DEF P
  <2>1. 0 .. last \subseteq P
    BY <1>1, <1>3, <1>4, StepByStep
  <2>2. QED
    BY <1>1, <2>1
<1>6. QED
  BY <1>2, <1>5

(* What is in the list is live or a tombstone.                             *)
LEMMA LiveOrTomb ==
  ASSUME NEW h, Shaped(h), Linked(h)
  PROVE  /\ IsFiniteSet(Tombs(h)) /\ Cardinality(Tombs(h)) \in 0 .. Len(h.chain)
         /\ Cardinality(Live(h, Len(h.chain))) = Len(h.chain) - Cardinality(Tombs(h))
<1> DEFINE n == Len(h.chain)
           A == Live(h, n)
           B == Tombs(h)
<1>1. n \in Nat /\ \A i \in 1 .. n : h.chain[i] \in Places(h.capacity)
  BY DEF Shaped
<1>2. A \cup B = 1 .. n /\ A \cap B = {} /\ A \subseteq 1 .. n /\ B \subseteq 1 .. n
  <2>1. \A i \in 1 .. n : h.buckets[h.chain[i]].key # NoKey \/ h.buckets[h.chain[i]] = H!Tomb
    BY <1>1 DEF Shaped, Linked
  <2>2. QED
    BY <2>1, TableParameters DEF Live, Tombs
<1>3. IsFiniteSet(1 .. n) /\ Cardinality(1 .. n) = n
  BY <1>1, FirstNumbers
<1> HIDE DEF A, B, n
<1>4. /\ IsFiniteSet(A) /\ Cardinality(A) \in Nat /\ Cardinality(A) <= n
      /\ IsFiniteSet(B) /\ Cardinality(B) \in Nat /\ Cardinality(B) <= n
  BY <1>2, <1>3, PartOf
<1>5. Cardinality(A \cup B) = Cardinality(A) + Cardinality(B) - Cardinality(A \cap B)
  BY <1>4, FS_Union
<1>6. Cardinality(A \cap B) = 0
  BY <1>2, FS_EmptySet
<1>7. Cardinality(A) = n - Cardinality(B) /\ Cardinality(B) \in 0 .. n
  <2>1. Cardinality(A \cup B) = n
    BY <1>2, <1>3
  <2>2. n = Cardinality(A) + Cardinality(B) - 0
    BY <1>5, <1>6, <2>1
  <2>3. QED
    BY <1>1, <1>4, <2>2
<1>8. QED
  BY <1>4, <1>7 DEF A, B, n

(* A new table of some capacity.                                           *)
New(cap, count) ==
  [buckets |-> H!Buffer(cap), capacity |-> cap, count |-> count, tombs |-> 0, chain |-> <<>>]
(* It is in shape and has nothing.                                         *)
LEMMA NewIs ==
  ASSUME NEW cap \in Nat, cap >= 2, NEW count \in Nat
  PROVE  /\ Shaped(New(cap, count)) /\ Linked(New(cap, count)) /\ Keyed(New(cap, count))
         /\ Tombs(New(cap, count)) = {}
         /\ New(cap, count).chain = <<>> /\ New(cap, count).capacity = cap
         /\ New(cap, count).count = count /\ New(cap, count).tombs = 0
<1> DEFINE g == New(cap, count)
<1>1. /\ g.buckets = [i \in Places(cap) |-> H!Empty] /\ g.capacity = cap /\ g.count = count
      /\ g.tombs = 0 /\ g.chain = <<>>
  BY DEF New, H!Buffer, Places
<1>2. g.buckets \in [Places(cap) -> H!Buckets]
  BY <1>1, TableParameters
<1>3. g \in [buckets : [Places(cap) -> H!Buckets], capacity : Nat, count : Nat, tombs : Nat,
             chain : Seq(Places(cap))]
  BY <1>1, <1>2 DEF New
<1> HIDE DEF g
<1>4. Shaped(g)
  BY <1>1, <1>3 DEF Shaped
<1>5. Linked(g) /\ Keyed(g) /\ Tombs(g) = {}
  BY <1>1, TableParameters DEF Linked, Keyed, Tombs
<1>6. QED
  BY <1>1, <1>4, <1>5 DEF g

(* What fits into a table fits into one twice as large, and one more.      *)
LEMMA HalfFull ==
  ASSUME NEW cap \in Nat, cap >= 2, NEW count \in Nat, 4 * count <= 3 * cap,
         NEW live \in Nat, live <= count
  PROVE  4 * (live + 1) <= 3 * (2 * cap) /\ 4 * live <= 3 * (2 * cap)
OBVIOUS

(* Ensure leaves room for one more entry below the maximal load.          *)
LEMMA EnsureIs ==
  ASSUME NEW h, Shaped(h), Linked(h), Keyed(h), Counted(h)
  PROVE  LET g == H!Ensure(h)
         IN  /\ Shaped(g) /\ Linked(g) /\ Keyed(g) /\ Counted(g) /\ 4 * (g.count + 1) <= 3 * g.capacity
             /\ H!Entries(g, Len(g.chain)) = H!Entries(h, Len(h.chain))
             /\ g.capacity = IF H!Loaded(h) THEN 2 * h.capacity ELSE h.capacity
<1>1. h.capacity \in Nat /\ h.capacity >= 2 /\ h.count \in Nat /\ h.count = Len(h.chain)
      /\ 4 * h.count <= 3 * h.capacity
  BY DEF Shaped, Counted
<1>2. CASE ~H!Loaded(h)
  BY <1>1, <1>2 DEF H!Ensure, H!Loaded
<1>3. CASE H!Loaded(h)
  <2> DEFINE live == Cardinality(Live(h, Len(h.chain)))
             new == New(2 * h.capacity, live)
             g == H!Move(h, new)
  <2>1. h.tombs = Cardinality(Tombs(h)) /\ live \in Nat /\ live <= h.count /\ live = h.count - h.tombs
    BY <1>1, LiveOrTomb DEF Counted
  <2>2. H!Ensure(h) = g
    BY <1>3, <2>1 DEF H!Ensure, H!Resize, New
  <2> HIDE DEF live
  <2>3. 2 * h.capacity \in Nat /\ 2 * h.capacity >= 2
    BY <1>1
  <2>4. Shaped(new) /\ Linked(new) /\ Keyed(new) /\ new.chain = <<>> /\ new.capacity = 2 * h.capacity
        /\ new.count = live /\ new.tombs = 0
    BY <2>1, <2>3, NewIs
  <2> HIDE DEF new
  <2>5. Len(h.chain) < new.capacity
    BY <1>1, <2>4
  <2>6. /\ Shaped(g) /\ Linked(g) /\ Keyed(g) /\ Tombs(g) = {}
        /\ H!Entries(g, Len(g.chain)) = H!Entries(h, Len(h.chain))
        /\ g.capacity = new.capacity /\ g.count = new.count /\ g.tombs = new.tombs
        /\ Len(g.chain) = live
    BY <2>4, <2>5, MoveKeeps DEF live
  <2> HIDE DEF g
  <2>7. Cardinality(Tombs(g)) = 0
    BY <2>6, FS_EmptySet
  <2>8. 4 * (live + 1) <= 3 * (2 * h.capacity) /\ 4 * live <= 3 * (2 * h.capacity)
    BY <1>1, <2>1, HalfFull
  <2>9. g.count = Len(g.chain) /\ g.tombs = Cardinality(Tombs(g))
    BY <2>4, <2>6, <2>7
  <2>10. 4 * (g.count + 1) <= 3 * g.capacity /\ 4 * g.count <= 3 * g.capacity
    <3>1. g.count = live /\ g.capacity = 2 * h.capacity
      BY <2>4, <2>6
    <3>2. QED
      BY <2>8, <3>1
  <2>11. QED
    BY <1>3, <2>2, <2>4, <2>6, <2>9, <2>10 DEF Counted
<1>4. QED
  BY <1>2, <1>3

(* Below the maximal load a search ends.                                   *)
LEMMA EndIsThere ==
  ASSUME NEW h, Shaped(h), Linked(h), Counted(h)
  PROVE  \E b \in Places(h.capacity) : h.buckets[b] = H!Empty
<1>1. Len(h.chain) < h.capacity
  BY DEF Shaped, Counted
<1>2. QED
  BY <1>1, EmptyIsThere

(* A new entry.                                                            *)
LEMMA InsertIs ==
  ASSUME NEW h, Shaped(h), Linked(h), Keyed(h), Counted(h), 4 * (h.count + 1) <= 3 * h.capacity,
         NEW e \in Places(h.capacity), h.buckets[e] = H!Empty, NEW k \in Keys, NEW v \in Values,
         \A c \in Places(h.capacity) : h.buckets[c].key # k,
         \E i \in Places(h.capacity) :
           /\ ProbeAt(h, k, i) = e
           /\ \A j \in 0 .. i - 1 : h.buckets[ProbeAt(h, k, j)] # H!Empty
  PROVE  LET g == H!Insert(h, e, k, v)
         IN  /\ Shaped(g) /\ Linked(g) /\ Keyed(g) /\ Counted(g)
             /\ H!Entries(g, Len(g.chain))
                  = Append(H!Entries(h, Len(h.chain)), [key |-> k, value |-> v])
<1> DEFINE b == [key |-> k, value |-> v]
           f == Filled(h, e, b)
           g == H!Insert(h, e, k, v)
<1>1. b \in H!Buckets /\ b.key # NoKey /\ b.key = k
  BY TableParameters
<1>2. /\ Shaped(f) /\ Linked(f) /\ Tombs(f) = Tombs(h)
      /\ f.capacity = h.capacity /\ f.count = h.count /\ f.tombs = h.tombs
      /\ Len(f.chain) = Len(h.chain) + 1 /\ Len(h.chain) \in Nat
      /\ Keyed(f) /\ H!Entries(f, Len(f.chain)) = Append(H!Entries(h, Len(h.chain)), b)
  <2> HIDE DEF b
  <2>1. /\ Shaped(f) /\ Linked(f) /\ Tombs(f) = Tombs(h)
        /\ f.capacity = h.capacity /\ f.count = h.count /\ f.tombs = h.tombs
        /\ Len(f.chain) = Len(h.chain) + 1 /\ Len(h.chain) \in Nat
    BY <1>1, FilledIs
  <2>2. Keyed(f) /\ H!Entries(f, Len(f.chain)) = Append(H!Entries(h, Len(h.chain)), b)
    BY <1>1, FilledKeyed
  <2>3. QED
    BY <2>1, <2>2
<1>3. /\ g.buckets = f.buckets /\ g.capacity = f.capacity /\ g.tombs = f.tombs /\ g.chain = f.chain
      /\ g.count = h.count + 1 /\ g = [f EXCEPT !.count = h.count + 1]
  BY DEF H!Insert, Filled, Shaped
<1> HIDE DEF f, g, b
<1>4. h.count \in Nat
  BY DEF Shaped
<1>5. Shaped(g)
  <2>1. h.count + 1 \in Nat
    BY <1>4
  <2>2. g \in [buckets : [Places(f.capacity) -> H!Buckets], capacity : Nat, count : Nat, tombs : Nat,
               chain : Seq(Places(f.capacity))]
    BY <1>2, <1>3, <2>1 DEF Shaped
  <2>3. QED
    BY <1>2, <1>3, <2>2 DEF Shaped
<1>6. Linked(g) /\ Tombs(g) = Tombs(f)
  BY <1>2, <1>3 DEF Linked, Tombs
<1>7. Keyed(g)
  BY <1>2, <1>3 DEF Keyed, ProbeAt
<1>8. H!Entries(g, Len(g.chain)) = H!Entries(f, Len(f.chain))
  <2> DEFINE n == Len(f.chain)
  <2>1. n \in Nat /\ n = Len(g.chain)
    BY <1>2, <1>3
  <2>2. \A i \in 1 .. n : g.buckets[g.chain[i]] = f.buckets[f.chain[i]]
    BY <1>3
  <2> HIDE DEF n
  <2>3. H!Entries(g, n) = H!Entries(f, n)
    BY <2>1, <2>2, EntriesSame
  <2>4. QED
    BY <2>1, <2>3 DEF n
<1>9. Counted(g)
  BY <1>2, <1>3, <1>4, <1>6 DEF Counted
<1>10. QED
  BY <1>2, <1>5, <1>6, <1>9, <1>7, <1>8 DEF g, b

(* A bucket with a key gets other contents that are not empty.             *)
Replaced(h, e, b) == [h EXCEPT !.buckets[e] = b]

(* The table stays in shape, and its list as it was.                       *)
LEMMA ReplaceIs ==
  ASSUME NEW h, Shaped(h), Linked(h), Keyed(h), NEW e \in Places(h.capacity), h.buckets[e].key # NoKey,
         NEW b \in H!Buckets, b.key = h.buckets[e].key \/ b = H!Tomb
  PROVE  LET g == Replaced(h, e, b)
         IN  /\ Shaped(g) /\ Linked(g) /\ Keyed(g)
             /\ g.capacity = h.capacity /\ g.count = h.count /\ g.tombs = h.tombs
             /\ g.chain = h.chain
             /\ \A i \in Places(h.capacity) : g.buckets[i] = IF i = e THEN b ELSE h.buckets[i]
<1> DEFINE g == Replaced(h, e, b)
<1>1. /\ g.capacity = h.capacity /\ g.count = h.count /\ g.tombs = h.tombs /\ g.chain = h.chain
      /\ g.buckets = [h.buckets EXCEPT ![e] = b]
      /\ g \in [buckets : {g.buckets}, capacity : Nat, count : Nat, tombs : Nat,
               chain : Seq(Places(h.capacity))]
  BY DEF Shaped, Replaced
<1> HIDE DEF g
<1>2. /\ g.buckets \in [Places(h.capacity) -> H!Buckets]
      /\ \A i \in Places(h.capacity) : g.buckets[i] = IF i = e THEN b ELSE h.buckets[i]
  BY <1>1 DEF Shaped
<1>3. Shaped(g)
  BY <1>1, <1>2 DEF Shaped
<1>4. \A i \in Places(h.capacity) : g.buckets[i] # H!Empty <=> h.buckets[i] # H!Empty
  BY <1>2, TableParameters
<1>5. \A i \in 1 .. Len(h.chain) : h.chain[i] \in Places(h.capacity)
  BY DEF Shaped
<1>6. Linked(g)
  BY <1>1, <1>4, <1>5 DEF Linked
<1>7. \A c \in Places(h.capacity) : g.buckets[c].key # NoKey => g.buckets[c].key = h.buckets[c].key
  BY <1>2, TableParameters
<1>8. ASSUME NEW c \in Places(h.capacity), g.buckets[c].key # NoKey
      PROVE  \E i \in Places(h.capacity) :
               /\ ProbeAt(h, g.buckets[c].key, i) = c
               /\ \A j \in 0 .. i - 1 : g.buckets[ProbeAt(h, g.buckets[c].key, j)] # H!Empty
  <2> DEFINE k == h.buckets[c].key
  <2>1. g.buckets[c].key = k /\ k # NoKey /\ h.buckets[c] \in H!Buckets
    BY <1>7, <1>8 DEF Shaped
  <2>2. k \in Keys
    BY <2>1 DEF H!Buckets
  <2>3. PICK i \in Places(h.capacity) :
          /\ ProbeAt(h, k, i) = c
          /\ \A j \in 0 .. i - 1 : h.buckets[ProbeAt(h, k, j)] # H!Empty
    BY <2>1 DEF Keyed
  <2> HIDE DEF k
  <2>4. \A j \in 0 .. i - 1 : ProbeAt(h, k, j) \in Places(h.capacity)
    BY <2>2, ProbeIsPlace
  <2>5. QED
    BY <1>4, <2>1, <2>3, <2>4
<1>9. Keyed(g)
  <2>1. \A k, i : ProbeAt(g, k, i) = ProbeAt(h, k, i)
    BY <1>1 DEF ProbeAt
  <2>2. \A c, d \in Places(h.capacity) :
          g.buckets[c].key # NoKey /\ g.buckets[c].key = g.buckets[d].key => c = d
    BY <1>7 DEF Keyed
  <2>3. QED
    BY <1>1, <1>8, <2>1, <2>2 DEF Keyed
<1>10. QED
  BY <1>1, <1>2, <1>3, <1>6, <1>9 DEF g

(* An entry that gets other contents does so in its place.                 *)
With(s, k, b) == [j \in 1 .. Len(s) |-> IF s[j].key = k THEN b ELSE s[j]]

(* Only the contents of that entry change, at every bucket of the list.    *)
LEMMA EntriesWith ==
  ASSUME NEW h, Shaped(h), Linked(h), Keyed(h), NEW e \in Places(h.capacity),
         h.buckets[e].key # NoKey, NEW b \in H!Buckets, b.key = h.buckets[e].key,
         NEW g, g.chain = h.chain,
         \A i \in Places(h.capacity) : g.buckets[i] = IF i = e THEN b ELSE h.buckets[i],
         NEW n \in 0 .. Len(h.chain)
  PROVE  H!Entries(g, n) = With(H!Entries(h, n), h.buckets[e].key, b)
<1> DEFINE last == Len(h.chain)
           k == h.buckets[e].key
           P == {i \in 0 .. last : H!Entries(g, i) = With(H!Entries(h, i), k, b)}
<1>1. last \in Nat /\ n \in Nat /\ \A i \in 1 .. last : h.chain[i] \in Places(h.capacity)
  BY DEF Shaped
<1>2. 0 \in P
  <2>1. H!Entries(g, 0) = <<>>
    BY EntriesStep
  <2>2. H!Entries(h, 0) = <<>>
    BY EntriesStep
  <2>3. With(<<>>, k, b) = <<>>
    BY DEF With
  <2>4. QED
    BY <1>1, <2>1, <2>2, <2>3
<1>3. ASSUME NEW i \in 1 .. last, i - 1 \in P PROVE i \in P
  <2> DEFINE s == H!Entries(h, i - 1)
             x == h.buckets[h.chain[i]]
             y == g.buckets[g.chain[i]]
  <2>1. i \in Nat /\ i > 0 /\ i - 1 \in 0 .. last /\ i \in 0 .. last
    BY <1>1
  <2>2. IsList(h, i - 1, s)
    BY <2>1, EntriesList
  <2>3. H!Entries(g, i - 1) = With(s, k, b)
    BY <1>3
  <2>4. y = IF x.key = k THEN b ELSE x
    BY <1>1 DEF Keyed
  <2>5. /\ H!Entries(h, i) = IF x.key = NoKey THEN s ELSE Append(s, x)
        /\ H!Entries(g, i) = IF y.key = NoKey THEN With(s, k, b) ELSE Append(With(s, k, b), y)
    BY <2>1, <2>3, EntriesStep DEF Grown
  <2>6. x \in H!Buckets /\ s \in Seq(H!Buckets)
    BY <1>1, <2>2 DEF Shaped, IsList
  <2> HIDE DEF s, x, y, k
  <2>7. With(Append(s, x), k, b) = Append(With(s, k, b), IF x.key = k THEN b ELSE x)
    BY <2>6 DEF With
  <2>8. H!Entries(g, i) = With(H!Entries(h, i), k, b)
    BY <2>4, <2>5, <2>7 DEF k
  <2>9. QED
    BY <2>1, <2>8
<1>4. QED
  <2> HIDE DEF P
  <2>1. 0 .. last \subseteq P
    BY <1>1, <1>2, <1>3, StepByStep
  <2>2. QED
    BY <2>1 DEF P

(* An entry gets another value.                                            *)
Valued(h, e, v) == [h EXCEPT !.buckets[e].value = v]
Given(s, p, v) == [s EXCEPT ![p].value = v]

(* The table stays in shape, and its entries change in that place only.    *)
LEMMA ValueIs ==
  ASSUME NEW h, Shaped(h), Linked(h), Keyed(h), Counted(h), NEW e \in Places(h.capacity),
         h.buckets[e].key # NoKey, NEW v \in Values,
         NEW p \in 1 .. Len(H!Entries(h, Len(h.chain))),
         H!Entries(h, Len(h.chain))[p].key = h.buckets[e].key
  PROVE  LET g == Valued(h, e, v)
         IN  /\ Shaped(g) /\ Linked(g) /\ Keyed(g) /\ Counted(g)
             /\ H!Entries(g, Len(g.chain)) = Given(H!Entries(h, Len(h.chain)), p, v)
<1> DEFINE b == [h.buckets[e] EXCEPT !.value = v]
           g == Valued(h, e, v)
<1>1. h.buckets[e] \in H!Buckets
  BY DEF Shaped
<1>2. b \in H!Buckets /\ b.key # NoKey /\ b.key = h.buckets[e].key
  BY <1>1 DEF H!Buckets
<1>3. g = Replaced(h, e, b)
  BY DEF Replaced, Valued
<1> HIDE DEF b, g
<1>4. /\ Shaped(g) /\ Linked(g) /\ Keyed(g)
      /\ g.capacity = h.capacity /\ g.count = h.count /\ g.tombs = h.tombs /\ g.chain = h.chain
      /\ \A i \in Places(h.capacity) : g.buckets[i] = IF i = e THEN b ELSE h.buckets[i]
  BY <1>2, <1>3, ReplaceIs
<1>5. Tombs(g) = Tombs(h)
  <2>1. \A i \in 1 .. Len(h.chain) : h.chain[i] \in Places(h.capacity)
    BY DEF Shaped
  <2>2. \A i \in Places(h.capacity) : g.buckets[i] = H!Tomb <=> h.buckets[i] = H!Tomb
    BY <1>2, <1>4, TableParameters
  <2>3. QED
    BY <1>4, <2>1, <2>2 DEF Tombs
<1>6. Counted(g)
  BY <1>4, <1>5 DEF Counted
<1>7. H!Entries(g, Len(g.chain)) = Given(H!Entries(h, Len(h.chain)), p, v)
  <2> DEFINE n == Len(h.chain)
             s == H!Entries(h, n)
             k == h.buckets[e].key
  <2>1. n \in Nat /\ n \in 0 .. n
    BY DEF Shaped
  <2>2. IsList(h, n, s)
    BY <2>1, EntriesList
  <2>3. H!Entries(g, n) = With(s, k, b)
    BY <1>2, <1>4, <2>1, EntriesWith
  <2>4. PICK i \in 1 .. n : s[p] = h.buckets[h.chain[i]]
    BY <2>2 DEF IsList
  <2>5. h.chain[i] = e
    BY <2>1, <2>4 DEF Keyed, Shaped
  <2>6. b = [s[p] EXCEPT !.value = v]
    BY <2>4, <2>5 DEF b
  <2>7. s \in Seq(H!Buckets) /\ \A j \in 1 .. Len(s) : s[j].key = k <=> j = p
    BY <2>2 DEF IsList
  <2> HIDE DEF s, k
  <2>8. With(s, k, b) = [s EXCEPT ![p] = b]
    BY <2>7 DEF With, s
  <2>9. QED
    BY <1>4, <2>3, <2>6, <2>8 DEF Given, s
<1>8. QED
  BY <1>4, <1>6, <1>7 DEF g

(* A sequence without its pth element.                                     *)
Without(s, p) == SubSeq(s, 1, p - 1) \o SubSeq(s, p + 1, Len(s))

(* The elements after it move up by one place.                             *)
LEMMA WithoutIs ==
  ASSUME NEW X, NEW s \in Seq(X), NEW p \in 1 .. Len(s)
  PROVE  /\ Without(s, p) \in Seq(X) /\ Len(Without(s, p)) = Len(s) - 1
         /\ \A i \in 1 .. Len(s) - 1 : Without(s, p)[i] = IF i < p THEN s[i] ELSE s[i + 1]
<1> DEFINE a == SubSeq(s, 1, p - 1)
           b == SubSeq(s, p + 1, Len(s))
           n == Len(s)
<1>1. n \in Nat /\ p \in Nat /\ p >= 1 /\ p <= n /\ \A i \in 1 .. n : s[i] \in X
  OBVIOUS
<1>2. a \in Seq(X) /\ Len(a) = p - 1 /\ \A i \in 1 .. p - 1 : a[i] = s[i]
  <2>1. 1 \in Int /\ p - 1 \in Int /\ \A i \in 1 .. p - 1 : s[i] \in X
    BY <1>1
  <2>2. /\ a \in Seq(X) /\ Len(a) = IF 1 <= p - 1 THEN (p - 1) - 1 + 1 ELSE 0
        /\ \A i \in 1 .. (p - 1) - 1 + 1 : a[i] = s[1 + i - 1]
    BY <2>1, SubSeqProperties
  <2> HIDE DEF a
  <2>3. QED
    BY <1>1, <2>2
<1>3. b \in Seq(X) /\ Len(b) = n - p /\ \A i \in 1 .. n - p : b[i] = s[p + i]
  <2>1. p + 1 \in Int /\ n \in Int /\ \A i \in p + 1 .. n : s[i] \in X
    BY <1>1
  <2>2. /\ b \in Seq(X) /\ Len(b) = IF p + 1 <= n THEN n - (p + 1) + 1 ELSE 0
        /\ \A i \in 1 .. n - (p + 1) + 1 : b[i] = s[p + 1 + i - 1]
    BY <2>1, SubSeqProperties
  <2> HIDE DEF b
  <2>3. QED
    BY <1>1, <2>2
<1>4. Without(s, p) = a \o b
  BY DEF Without
<1> HIDE DEF a, b, n
<1>5. /\ a \o b \in Seq(X) /\ Len(a \o b) = Len(a) + Len(b)
      /\ \A i \in 1 .. Len(a) + Len(b) : (a \o b)[i] = IF i <= Len(a) THEN a[i] ELSE b[i - Len(a)]
  BY <1>2, <1>3, ConcatProperties
<1>6. Len(a) + Len(b) = n - 1
  BY <1>1, <1>2, <1>3
<1>7. ASSUME NEW i \in 1 .. n - 1
      PROVE  (a \o b)[i] = IF i < p THEN s[i] ELSE s[i + 1]
  <2>1. CASE i < p
    <3>1. i \in 1 .. p - 1 /\ i <= Len(a) /\ i \in 1 .. Len(a) + Len(b)
      BY <1>1, <1>2, <1>6, <2>1
    <3>2. QED
      BY <1>2, <1>5, <2>1, <3>1
  <2>2. CASE ~(i < p)
    <3>1. /\ i - (p - 1) \in 1 .. n - p /\ ~(i <= Len(a)) /\ i \in 1 .. Len(a) + Len(b)
          /\ p + (i - (p - 1)) = i + 1 /\ i - Len(a) = i - (p - 1)
      BY <1>1, <1>2, <1>6, <2>2
    <3>2. (a \o b)[i] = b[i - (p - 1)]
      BY <1>5, <3>1
    <3>3. b[i - (p - 1)] = s[i + 1]
      BY <1>3, <3>1
    <3>4. QED
      BY <2>2, <3>2, <3>3
  <2>3. QED
    BY <2>1, <2>2
<1>8. QED
  BY <1>4, <1>5, <1>6, <1>7 DEF n

(* The last element can be left out or kept when one is left out.          *)
LEMMA WithoutAppend ==
  ASSUME NEW X, NEW s \in Seq(X), NEW x \in X
  PROVE  /\ Without(Append(s, x), Len(s) + 1) = s
         /\ \A p \in 1 .. Len(s) : Without(Append(s, x), p) = Append(Without(s, p), x)
<1> DEFINE t == Append(s, x)
           n == Len(s)
<1>1. /\ t \in Seq(X) /\ Len(t) = n + 1 /\ n \in Nat /\ t[n + 1] = x
      /\ \A i \in 1 .. n : t[i] = s[i]
  OBVIOUS
<1> HIDE DEF t, n
<1>2. Without(t, n + 1) = s
  <2>1. n + 1 \in 1 .. Len(t)
    BY <1>1
  <2>2. /\ Without(t, n + 1) \in Seq(X) /\ Len(Without(t, n + 1)) = Len(t) - 1
        /\ \A i \in 1 .. Len(t) - 1 : Without(t, n + 1)[i] = IF i < n + 1 THEN t[i] ELSE t[i + 1]
    BY <1>1, <2>1, WithoutIs
  <2>3. Len(Without(t, n + 1)) = Len(s) /\ \A i \in 1 .. Len(s) : Without(t, n + 1)[i] = s[i]
    BY <1>1, <2>2 DEF n
  <2>4. QED
    BY <2>2, <2>3, SeqEqual
<1>3. ASSUME NEW p \in 1 .. n
      PROVE  Without(t, p) = Append(Without(s, p), x)
  <2> DEFINE u == Append(Without(s, p), x)
  <2>1. p \in 1 .. Len(t) /\ p \in 1 .. Len(s)
    BY <1>1 DEF n
  <2>2. /\ Without(t, p) \in Seq(X) /\ Len(Without(t, p)) = Len(t) - 1
        /\ \A i \in 1 .. Len(t) - 1 : Without(t, p)[i] = IF i < p THEN t[i] ELSE t[i + 1]
    BY <1>1, <2>1, WithoutIs
  <2>3. /\ Without(s, p) \in Seq(X) /\ Len(Without(s, p)) = n - 1
        /\ \A i \in 1 .. n - 1 : Without(s, p)[i] = IF i < p THEN s[i] ELSE s[i + 1]
    BY <2>1, WithoutIs DEF n
  <2>4. /\ u \in Seq(X) /\ Len(u) = n /\ u[n] = x
        /\ \A i \in 1 .. n - 1 : u[i] = Without(s, p)[i]
    <3>1. Len(Without(s, p)) + 1 = n /\ 1 .. Len(Without(s, p)) = 1 .. n - 1
      BY <1>1, <2>3
    <3> DEFINE w == Without(s, p)
    <3>2. w \in Seq(X)
      BY <2>3
    <3> HIDE DEF w
    <3>3. /\ Append(w, x) \in Seq(X) /\ Len(Append(w, x)) = Len(w) + 1
          /\ Append(w, x)[Len(w) + 1] = x /\ \A i \in 1 .. Len(w) : Append(w, x)[i] = w[i]
      BY <3>2
    <3>4. QED
      BY <3>1, <3>3 DEF w
  <2> HIDE DEF u
  <2>5. ASSUME NEW i \in 1 .. n PROVE Without(t, p)[i] = u[i]
    <3>1. CASE i = n
      <4>1. ~(i < p) /\ i \in 1 .. Len(t) - 1
        BY <1>1, <3>1
      <4>2. QED
        BY <1>1, <2>2, <2>4, <3>1, <4>1
    <3>2. CASE i \in 1 .. n - 1
      <4>1. i \in 1 .. Len(t) - 1 /\ i + 1 \in 1 .. n
        BY <1>1, <3>2
      <4>2. QED
        BY <1>1, <2>2, <2>3, <2>4, <3>2, <4>1
    <3>3. QED
      BY <1>1, <3>1, <3>2
  <2>6. Len(Without(t, p)) = Len(u) /\ 1 .. n = 1 .. Len(u)
    BY <1>1, <2>2, <2>4
  <2>7. QED
    BY <2>2, <2>4, <2>5, <2>6, SeqEqual DEF u
<1>4. QED
  BY <1>2, <1>3 DEF t, n

(* An entry that becomes a tombstone is no longer there.                   *)
Out(h, k, g, n) ==
  LET s == H!Entries(h, n)
  IN  /\ (\A j \in 1 .. Len(s) : s[j].key # k) => H!Entries(g, n) = s
      /\ \A p \in 1 .. Len(s) : s[p].key = k => H!Entries(g, n) = Without(s, p)

(* The list loses that entry and no other.                                 *)
LEMMA EntriesOut ==
  ASSUME NEW h, Shaped(h), Linked(h), Keyed(h), NEW e \in Places(h.capacity),
         h.buckets[e].key # NoKey, NEW g, g.chain = h.chain,
         \A i \in Places(h.capacity) : g.buckets[i] = IF i = e THEN H!Tomb ELSE h.buckets[i],
         NEW n \in 0 .. Len(h.chain)
  PROVE  Out(h, h.buckets[e].key, g, n)
<1> DEFINE last == Len(h.chain)
           k == h.buckets[e].key
           P == {i \in 0 .. last : Out(h, k, g, i)}
<1>1. last \in Nat /\ n \in Nat /\ \A i \in 1 .. last : h.chain[i] \in Places(h.capacity)
  BY DEF Shaped
<1>2. 0 \in P
  <2>1. H!Entries(g, 0) = <<>>
    BY EntriesStep
  <2>2. H!Entries(h, 0) = <<>>
    BY EntriesStep
  <2>3. QED
    BY <1>1, <2>1, <2>2 DEF Out
<1>3. ASSUME NEW i \in 1 .. last, i - 1 \in P PROVE i \in P
  <2> DEFINE s == H!Entries(h, i - 1)
             t == H!Entries(h, i)
             x == h.buckets[h.chain[i]]
             y == g.buckets[g.chain[i]]
  <2>1. i \in Nat /\ i > 0 /\ i - 1 \in 0 .. last /\ i \in 0 .. last
    BY <1>1
  <2>2. IsList(h, i - 1, s) /\ IsList(h, i, t)
    BY <2>1, EntriesList
  <2>3. Out(h, k, g, i - 1)
    BY <1>3
  <2>4. (x.key = k => y = H!Tomb) /\ (x.key # k => y = x)
    BY <1>1 DEF Keyed
  <2>5. /\ t = IF x.key = NoKey THEN s ELSE Append(s, x)
        /\ H!Entries(g, i) = IF y.key = NoKey THEN H!Entries(g, i - 1) ELSE Append(H!Entries(g, i - 1), y)
    BY <2>1, EntriesStep DEF Grown
  <2>6. x \in H!Buckets /\ s \in Seq(H!Buckets) /\ k # NoKey
    BY <1>1, <2>2 DEF Shaped, IsList
  <2>7. /\ (\A j \in 1 .. Len(s) : s[j].key # k) => H!Entries(g, i - 1) = s
        /\ \A p \in 1 .. Len(s) : s[p].key = k => H!Entries(g, i - 1) = Without(s, p)
    BY <2>3 DEF Out
  <2>8. \A j, l \in 1 .. Len(t) : t[j].key = t[l].key => j = l
    BY <2>2 DEF IsList
  <2> DEFINE gs == H!Entries(g, i - 1)
             gt == H!Entries(g, i)
  <2> HIDE DEF s, t, x, y, k, gs, gt
  <2>9. /\ (\A j \in 1 .. Len(t) : t[j].key # k) => gt = t
        /\ \A p \in 1 .. Len(t) : t[p].key = k => gt = Without(t, p)
    <3>1. CASE x.key = NoKey
      <4>1. t = s /\ gt = gs
        BY <2>4, <2>5, <2>6, <3>1 DEF gs, gt
      <4>2. QED
        BY <2>7, <4>1 DEF gs
    <3>2. CASE x.key # NoKey
      <4>1. /\ t = Append(s, x) /\ Len(t) = Len(s) + 1 /\ t[Len(s) + 1] = x /\ Len(s) \in Nat
            /\ \A j \in 1 .. Len(s) : t[j] = s[j]
            /\ \A j \in 1 .. Len(t) : j = Len(s) + 1 \/ j \in 1 .. Len(s)
            /\ Len(s) + 1 \in 1 .. Len(t) /\ \A j \in 1 .. Len(s) : j \in 1 .. Len(t) /\ j # Len(s) + 1
        BY <2>5, <2>6, <3>2
      <4>2. /\ Without(t, Len(s) + 1) = s
            /\ \A p \in 1 .. Len(s) : Without(t, p) = Append(Without(s, p), x)
        BY <2>6, <4>1, WithoutAppend
      <4>3. CASE x.key = k
        <5>1. gt = gs
          BY <2>4, <2>5, <4>3, TableParameters DEF gs, gt
        <5>2. \A j \in 1 .. Len(s) : s[j].key # k
          BY <2>8, <4>1, <4>3
        <5>3. gs = s
          BY <2>7, <5>2 DEF gs
        <5>4. QED
          BY <2>8, <4>1, <4>2, <4>3, <5>1, <5>2, <5>3
      <4>4. CASE x.key # k
        <5>1. gt = Append(gs, x)
          BY <2>4, <2>5, <3>2, <4>4 DEF gs, gt
        <5>2. ASSUME \A j \in 1 .. Len(t) : t[j].key # k PROVE gt = t
          BY <2>7, <4>1, <5>1, <5>2 DEF gs
        <5>3. ASSUME NEW p \in 1 .. Len(t), t[p].key = k PROVE gt = Without(t, p)
          <6>1. p \in 1 .. Len(s) /\ s[p].key = k
            BY <4>1, <4>4, <5>3
          <6>2. gs = Without(s, p)
            BY <2>7, <6>1 DEF gs
          <6>3. QED
            BY <4>2, <5>1, <6>1, <6>2
        <5>4. QED
          BY <5>2, <5>3
      <4>5. QED
        BY <4>3, <4>4
    <3>3. QED
      BY <3>1, <3>2
  <2>10. Out(h, k, g, i)
    BY <2>9 DEF Out, t, gt
  <2>11. QED
    BY <2>1, <2>10
<1>4. QED
  <2> HIDE DEF P
  <2>1. 0 .. last \subseteq P
    BY <1>1, <1>2, <1>3, StepByStep
  <2>2. QED
    BY <2>1 DEF P

(* An entry becomes a tombstone.                                           *)
LEMMA TombIs ==
  ASSUME NEW h, Shaped(h), Linked(h), Keyed(h), Counted(h), NEW e \in Places(h.capacity),
         h.buckets[e].key # NoKey
  PROVE  LET g == [h EXCEPT !.buckets[e] = H!Tomb, !.tombs = @ + 1]
             s == H!Entries(h, Len(h.chain))
         IN  /\ Shaped(g) /\ Linked(g) /\ Keyed(g) /\ Counted(g)
             /\ \A p \in 1 .. Len(s) : s[p].key = h.buckets[e].key =>
                  H!Entries(g, Len(g.chain)) = Without(s, p)
<1> DEFINE f == Replaced(h, e, H!Tomb)
           g == [h EXCEPT !.buckets[e] = H!Tomb, !.tombs = @ + 1]
<1>1. /\ Shaped(f) /\ Linked(f) /\ Keyed(f)
      /\ f.capacity = h.capacity /\ f.count = h.count /\ f.tombs = h.tombs /\ f.chain = h.chain
      /\ \A i \in Places(h.capacity) : f.buckets[i] = IF i = e THEN H!Tomb ELSE h.buckets[i]
  <2> HIDE DEF f
  <2>1. H!Tomb \in H!Buckets
    BY TableParameters
  <2>2. QED
    BY <2>1, ReplaceIs DEF f
<1>2. /\ g.buckets = f.buckets /\ g.capacity = f.capacity /\ g.count = f.count /\ g.chain = f.chain
      /\ g.tombs = h.tombs + 1 /\ g = [f EXCEPT !.tombs = h.tombs + 1]
  BY DEF Shaped, Replaced
<1> HIDE DEF f, g
<1>3. h.tombs \in Nat /\ h.buckets[e] # H!Empty /\ h.buckets[e] # H!Tomb
      /\ \A i \in 1 .. Len(h.chain) : h.chain[i] \in Places(h.capacity)
  BY TableParameters DEF Shaped
<1>4. Shaped(g)
  BY <1>1, <1>2, <1>3 DEF Shaped
<1>5. Linked(g)
  BY <1>1, <1>2 DEF Linked
<1>6. PICK i \in 1 .. Len(h.chain) : h.chain[i] = e
  BY <1>3 DEF Linked
<1>7. Tombs(g) = Tombs(h) \cup {i} /\ i \notin Tombs(h)
  BY <1>1, <1>2, <1>3, <1>6 DEF Tombs, Linked
<1>8. IsFiniteSet(Tombs(h))
  BY LiveOrTomb
<1>9. Cardinality(Tombs(g)) = Cardinality(Tombs(h)) + 1
  BY <1>7, <1>8, FS_AddElement
<1>10. Counted(g)
  BY <1>1, <1>2, <1>9 DEF Counted
<1>11. Keyed(g)
  BY <1>1, <1>2 DEF Keyed, ProbeAt
<1>12. Out(h, h.buckets[e].key, g, Len(h.chain))
  <2>1. Len(h.chain) \in 0 .. Len(h.chain)
    BY DEF Shaped
  <2>2. /\ g.chain = h.chain
        /\ \A j \in Places(h.capacity) : g.buckets[j] = IF j = e THEN H!Tomb ELSE h.buckets[j]
    BY <1>1, <1>2
  <2>3. QED
    BY <2>1, <2>2, EntriesOut
<1>13. g.chain = h.chain
  BY <1>1, <1>2
<1>14. QED
  BY <1>4, <1>5, <1>10, <1>11, <1>12, <1>13 DEF g, Out

-----------------------------------------------------------------------------
(***************************************************************************)
(* The invariant of the table, and the dictionary.                         *)
(***************************************************************************)
(* What a call finds is what the dictionary has.                           *)
LEMMA FindsWhatIsThere ==
  ASSUME NEW h, Shaped(h), Linked(h), Keyed(h), Counted(h),
         H!Entries(h, Len(h.chain)) = H!Entries(m, Len(m.chain)), NEW k \in Keys
  PROVE  LET e == H!FindEntry(h, k)
             s == H!Entries(m, Len(m.chain))
         IN  /\ e \in Places(h.capacity)
             /\ \/ /\ h.buckets[e] = H!Empty /\ h.buckets[e].key = NoKey
                   /\ \A b \in Places(h.capacity) : h.buckets[b].key # k
                   /\ \E i \in Places(h.capacity) :
                        /\ ProbeAt(h, k, i) = e
                        /\ \A j \in 0 .. i - 1 : h.buckets[ProbeAt(h, k, j)] # H!Empty
                   /\ ~H!D!Has(k)
                \/ /\ h.buckets[e].key = k /\ k # NoKey
                   /\ H!D!Has(k) /\ H!D!IndexOf(k) \in 1 .. Len(s)
                   /\ s[H!D!IndexOf(k)] = h.buckets[e]
<1> DEFINE e == H!FindEntry(h, k)
           s == H!Entries(m, Len(m.chain))
<1>1. \E b \in Places(h.capacity) : h.buckets[b] = H!Empty
  BY EndIsThere
<1>2. /\ e \in Places(h.capacity)
      /\ \/ h.buckets[e].key = k
         \/ /\ h.buckets[e] = H!Empty /\ \A b \in Places(h.capacity) : h.buckets[b].key # k
            /\ \E i \in Places(h.capacity) :
                 /\ ProbeAt(h, k, i) = e
                 /\ \A j \in 0 .. i - 1 : h.buckets[ProbeAt(h, k, j)] # H!Empty
  BY <1>1, FindsKey
<1>3. /\ s \in Seq(H!Buckets)
      /\ \A c \in Places(h.capacity) : h.buckets[c].key # NoKey =>
           \E p \in 1 .. Len(s) :
             s[p] = h.buckets[c] /\ \A j \in 1 .. Len(s) : s[j].key = s[p].key => j = p
      /\ \A j \in 1 .. Len(s) : s[j].key # NoKey /\ \E c \in Places(h.capacity) : s[j] = h.buckets[c]
  BY EntryPlace
<1> HIDE DEF e, s
<1>4. /\ H!D!Has(k) <=> \E i \in 1 .. Len(s) : s[i].key = k
      /\ H!D!IndexOf(k) = CHOOSE i \in 1 .. Len(s) : s[i].key = k
  BY DEF H!D!Has, H!D!IndexOf, s
<1>5. CASE h.buckets[e].key = k
  <2>1. k # NoKey
    BY TableParameters
  <2>2. PICK p \in 1 .. Len(s) :
          s[p] = h.buckets[e] /\ \A j \in 1 .. Len(s) : s[j].key = s[p].key => j = p
    BY <1>2, <1>3, <1>5, <2>1
  <2>3. H!D!Has(k) /\ H!D!IndexOf(k) = p
    BY <1>4, <1>5, <2>2
  <2>4. QED
    BY <1>2, <1>5, <2>1, <2>2, <2>3 DEF e, s
<1>6. CASE h.buckets[e].key # k
  <2>1. /\ h.buckets[e] = H!Empty /\ \A b \in Places(h.capacity) : h.buckets[b].key # k
        /\ \E i \in Places(h.capacity) :
             /\ ProbeAt(h, k, i) = e
             /\ \A j \in 0 .. i - 1 : h.buckets[ProbeAt(h, k, j)] # H!Empty
    BY <1>2, <1>6
  <2>2. h.buckets[e].key = NoKey
    BY <2>1, TableParameters
  <2>3. ~H!D!Has(k)
    BY <1>3, <1>4, <2>1
  <2>4. QED
    BY <1>2, <2>1, <2>2, <2>3 DEF e
<1>7. QED
  BY <1>5, <1>6

(* No table has more buckets in use than hashmap_iterate gets to.          *)
AllVisited == 3 * DefaultCapacity <= 4 * MaxVisits /\ 3 * MaxCapacity <= 4 * MaxVisits
Visited(h) == AllVisited => 3 * h.capacity <= 4 * MaxVisits

HInv == Shaped(m) /\ Linked(m) /\ Keyed(m) /\ Counted(m) /\ Visited(m)

(* hashmap_create.                                                         *)
LEMMA TableInit == H!Init => HInv /\ H!D!Init
<1> SUFFICES ASSUME H!Init PROVE HInv /\ H!D!Init
  OBVIOUS
<1>1. m = New(DefaultCapacity, 0)
  BY DEF H!Init, New
<1>2. /\ Shaped(m) /\ Linked(m) /\ Keyed(m) /\ Tombs(m) = {} /\ m.chain = <<>>
      /\ m.capacity = DefaultCapacity /\ m.count = 0 /\ m.tombs = 0
  BY <1>1, NewIs, TableParameters
<1>3. Cardinality(Tombs(m)) = 0
  BY <1>2, FS_EmptySet
<1>4. Counted(m) /\ Visited(m)
  BY <1>2, <1>3, TableParameters DEF Counted, Visited, AllVisited
<1>5. Len(m.chain) = 0
  BY <1>2
<1>6. H!Entries(m, Len(m.chain)) = <<>>
  BY <1>5, EntriesStep
<1>7. H!D!Init
  BY <1>6 DEF H!Init, H!D!Init
<1>8. QED
  BY <1>2, <1>4, <1>7 DEF HInv

(* Every call keeps the table in shape and does what that of the           *)
(* dictionary does.                                                        *)
LEMMA TableStep ==
  HInv /\ [H!Next]_map => HInv' /\ (AllVisited => [H!D!Next]_(H!D!dvars))
<1> SUFFICES ASSUME HInv, [H!Next]_map
             PROVE  HInv' /\ (AllVisited => [H!D!Next]_(H!D!dvars))
  OBVIOUS
<1> DEFINE h == H!Ensure(m)
           s == H!Entries(m, Len(m.chain))
           t == H!Entries(m', Len(m'.chain))
           Good(g) == Shaped(g) /\ Linked(g) /\ Keyed(g) /\ Counted(g) /\ Visited(g)
<1>1. Shaped(m) /\ Linked(m) /\ Keyed(m) /\ Counted(m) /\ Visited(m) /\ m.capacity \in Nat
  BY DEF HInv, Shaped
<1>2. /\ Shaped(h) /\ Linked(h) /\ Keyed(h) /\ Counted(h) /\ 4 * (h.count + 1) <= 3 * h.capacity
      /\ H!Entries(h, Len(h.chain)) = s
      /\ h.capacity = IF H!Loaded(m) THEN 2 * m.capacity ELSE m.capacity
  BY <1>1, EnsureIs
<1> HIDE DEF h
<1>3. H!InBound => Visited(h)
  BY <1>1, <1>2, TableParameters DEF H!InBound, Visited, AllVisited
<1>4. s' = t
  BY DEF H!Entries
<1> HIDE DEF s, t
<1>5. ASSUME NEW k \in Keys
      PROVE  LET e == H!FindEntry(h, k)
             IN  /\ e \in Places(h.capacity)
                 /\ \/ /\ h.buckets[e] = H!Empty /\ h.buckets[e].key = NoKey
                       /\ \A b \in Places(h.capacity) : h.buckets[b].key # k
                       /\ \E i \in Places(h.capacity) :
                            /\ ProbeAt(h, k, i) = e
                            /\ \A j \in 0 .. i - 1 : h.buckets[ProbeAt(h, k, j)] # H!Empty
                       /\ ~H!D!Has(k)
                    \/ /\ h.buckets[e].key = k /\ k # NoKey
                       /\ H!D!Has(k) /\ H!D!IndexOf(k) \in 1 .. Len(s)
                       /\ s[H!D!IndexOf(k)] = h.buckets[e]
  BY <1>2, FindsWhatIsThere DEF s
<1>6. ASSUME NEW k \in Keys, NEW v \in Values, Visited(h),
             NEW e, e = H!FindEntry(h, k), h.buckets[e].key = NoKey,
             m' = H!Insert(h, e, k, v)
      PROVE  Good(m') /\ ~H!D!Has(k) /\ t = Append(s, [key |-> k, value |-> v])
  <2>1. /\ e \in Places(h.capacity) /\ h.buckets[e] = H!Empty
        /\ \A b \in Places(h.capacity) : h.buckets[b].key # k
        /\ \E i \in Places(h.capacity) :
             /\ ProbeAt(h, k, i) = e
             /\ \A j \in 0 .. i - 1 : h.buckets[ProbeAt(h, k, j)] # H!Empty
        /\ ~H!D!Has(k)
    BY <1>5, <1>6
  <2>2. /\ Shaped(m') /\ Linked(m') /\ Keyed(m') /\ Counted(m')
        /\ t = Append(s, [key |-> k, value |-> v])
    BY <1>2, <1>6, <2>1, InsertIs DEF t
  <2>3. Visited(m')
    BY <1>2, <1>6 DEF Visited, H!Insert, Shaped
  <2>4. QED
    BY <2>1, <2>2, <2>3
<1>7. ASSUME NEW k \in Keys, NEW v \in Values, H!HashmapSet(k, v)
      PROVE  Good(m') /\ H!D!Put(k, v)
  <2> DEFINE e == H!FindEntry(h, k)
  <2>1. /\ m' = IF h.buckets[e].key = NoKey THEN H!Insert(h, e, k, v)
                ELSE [h EXCEPT !.buckets[e].value = v]
        /\ answer' = H!D!NoAnswer /\ Visited(h)
    BY <1>3, <1>7 DEF H!HashmapSet, h
  <2>2. Good(m') /\ t = IF H!D!Has(k) THEN [s EXCEPT ![H!D!IndexOf(k)].value = v]
                        ELSE Append(s, [key |-> k, value |-> v])
    <3>1. CASE h.buckets[e].key = NoKey
      BY <1>6, <2>1, <3>1
    <3>2. CASE h.buckets[e].key # NoKey
      <4> DEFINE p == H!D!IndexOf(k)
      <4>1. /\ e \in Places(h.capacity) /\ h.buckets[e].key = k
            /\ H!D!Has(k) /\ p \in 1 .. Len(s) /\ s[p] = h.buckets[e]
        BY <1>5, <3>2
      <4> HIDE DEF e, p
      <4> DEFINE g == Valued(h, e, v)
      <4>2. m' = g /\ g.capacity = h.capacity
        BY <1>2, <2>1, <3>2 DEF Shaped, Valued
      <4>3. p \in 1 .. Len(H!Entries(h, Len(h.chain))) /\ H!Entries(h, Len(h.chain))[p].key = h.buckets[e].key
        BY <1>2, <4>1
      <4>4. /\ Shaped(g) /\ Linked(g) /\ Keyed(g) /\ Counted(g)
            /\ H!Entries(g, Len(g.chain)) = Given(H!Entries(h, Len(h.chain)), p, v)
        BY <1>2, <3>2, <4>1, <4>3, ValueIs
      <4> HIDE DEF g
      <4>5. Good(m') /\ t = Given(s, p, v)
        BY <1>2, <2>1, <4>2, <4>4 DEF Visited, t
      <4>6. QED
        BY <4>1, <4>5 DEF p, Given
    <3>3. QED
      BY <3>1, <3>2
  <2>3. QED
    BY <1>4, <2>1, <2>2 DEF H!D!Put, H!D!Added, s
<1>8. ASSUME NEW k \in Keys, NEW v \in Values, H!HashmapGetSet(k, v)
      PROVE  Good(m') /\ H!D!PutIfAbsent(k, v)
  <2> DEFINE e == H!FindEntry(h, k)
  <2>1. Visited(h)
    BY <1>3, <1>8 DEF H!HashmapGetSet
  <2>2. CASE h.buckets[e].key = NoKey
    <3>1. m' = H!Insert(h, e, k, v) /\ answer' = H!D!Answer(FALSE, v, <<>>)
      BY <1>8, <2>2 DEF H!HashmapGetSet, h
    <3>2. Good(m') /\ ~H!D!Has(k) /\ t = Append(s, [key |-> k, value |-> v])
      BY <1>6, <2>1, <2>2, <3>1
    <3>3. H!D!Has(k) = FALSE
      BY <3>2 DEF H!D!Has
    <3>4. H!D!Answer(H!D!Has(k), IF H!D!Has(k) THEN s[H!D!IndexOf(k)].value ELSE v, <<>>)
            = H!D!Answer(FALSE, v, <<>>)
      BY <3>3, Zenon
    <3>5. QED
      BY <1>4, <3>1, <3>2, <3>4, Zenon DEF H!D!PutIfAbsent, H!D!Added, s
  <2>3. CASE h.buckets[e].key # NoKey
    <3>1. m' = h /\ answer' = H!D!Answer(TRUE, h.buckets[e].value, <<>>)
      BY <1>8, <2>3 DEF H!HashmapGetSet, h
    <3>2. H!D!Has(k) /\ s[H!D!IndexOf(k)] = h.buckets[e]
      BY <1>5, <2>3
    <3>3. Good(m') /\ t = s
      BY <1>2, <2>1, <3>1 DEF t
    <3>4. QED
      BY <1>4, <3>1, <3>2, <3>3 DEF H!D!PutIfAbsent, s
  <2>4. QED
    BY <2>2, <2>3
<1>9. ASSUME m' = m
      PROVE  Good(m') /\ t = s
  BY <1>1, <1>9 DEF s, t
<1>10. ASSUME NEW k \in Keys
       PROVE  LET e == H!FindEntry(m, k)
              IN  /\ e \in Places(m.capacity)
                  /\ \/ m.buckets[e] = H!Empty /\ m.buckets[e].key = NoKey /\ ~H!D!Has(k)
                     \/ /\ m.buckets[e].key = k /\ k # NoKey
                        /\ H!D!Has(k) /\ H!D!IndexOf(k) \in 1 .. Len(s)
                        /\ s[H!D!IndexOf(k)] = m.buckets[e]
  BY <1>1, FindsWhatIsThere DEF s
<1>11. ASSUME NEW k \in Keys, H!HashmapGet(k)
       PROVE  Good(m') /\ H!D!Lookup(k)
  <2> DEFINE b == m.buckets[H!FindEntry(m, k)]
  <2>1. m' = m /\ answer' = H!D!Answer(b.key # NoKey, b.value, <<>>)
    BY <1>11 DEF H!HashmapGet
  <2>2. \/ b.key = NoKey /\ b.value = 0 /\ ~H!D!Has(k)
        \/ b.key # NoKey /\ H!D!Has(k) /\ s[H!D!IndexOf(k)] = b
    BY <1>10 DEF H!Empty
  <2> HIDE DEF b
  <2>3. answer' = H!D!Answer(H!D!Has(k), IF H!D!Has(k) THEN s[H!D!IndexOf(k)].value ELSE 0, <<>>)
    <3>1. CASE b.key = NoKey
      <4>1. H!D!Has(k) = FALSE /\ (b.key # NoKey) = FALSE /\ b.value = 0
        BY <2>2, <3>1 DEF H!D!Has
      <4>2. QED
        BY <2>1, <4>1, Zenon
    <3>2. CASE b.key # NoKey
      <4>1. H!D!Has(k) = TRUE /\ (b.key # NoKey) = TRUE /\ s[H!D!IndexOf(k)] = b
        BY <2>2, <3>2 DEF H!D!Has
      <4>2. QED
        BY <2>1, <4>1, Zenon
    <3>3. QED
      BY <3>1, <3>2
  <2>4. QED
    BY <1>4, <1>9, <2>1, <2>3 DEF H!D!Lookup, s
<1>12. ASSUME NEW k \in Keys, H!HashmapRemove(k)
       PROVE  Good(m') /\ H!D!Delete(k)
  <2> DEFINE e == H!FindEntry(m, k)
             p == H!D!IndexOf(k)
  <2>1. /\ m' = IF m.buckets[e].key = NoKey THEN m
                ELSE [m EXCEPT !.buckets[e] = H!Tomb, !.tombs = @ + 1]
        /\ answer' = H!D!NoAnswer
    BY <1>12 DEF H!HashmapRemove
  <2>2. Good(m') /\ t = IF H!D!Has(k) THEN Without(s, p) ELSE s
    <3>1. CASE m.buckets[e].key = NoKey
      BY <1>9, <1>10, <2>1, <3>1
    <3>2. CASE m.buckets[e].key # NoKey
      <4>1. /\ e \in Places(m.capacity) /\ m.buckets[e].key = k
            /\ H!D!Has(k) /\ p \in 1 .. Len(s) /\ s[p] = m.buckets[e]
        BY <1>10, <3>2
      <4> HIDE DEF e, p
      <4>2. m' = [m EXCEPT !.buckets[e] = H!Tomb, !.tombs = @ + 1]
        BY <2>1, <3>2
      <4>3. /\ Shaped(m') /\ Linked(m') /\ Keyed(m') /\ Counted(m') /\ t = Without(s, p)
        BY <1>1, <3>2, <4>1, <4>2, TombIs DEF s, t
      <4>4. Visited(m')
        BY <1>1, <4>2 DEF Visited, Shaped
      <4>5. QED
        BY <4>1, <4>3, <4>4
    <3>3. QED
      BY <3>1, <3>2
  <2>3. QED
    BY <1>4, <2>1, <2>2 DEF H!D!Delete, H!D!Without, Without, s
<1>13. ASSUME H!HashmapSize
       PROVE  Good(m') /\ H!D!Size
  <2>1. m' = m /\ answer' = H!D!Answer(FALSE, m.count - m.tombs, <<>>)
    BY <1>13 DEF H!HashmapSize
  <2>2. m.count - m.tombs = Len(s)
    BY <1>1, EntryPlace, LiveOrTomb DEF Counted, s
  <2>3. QED
    BY <1>4, <1>9, <2>1, <2>2 DEF H!D!Size, s
<1>14. ASSUME H!HashmapIterate
       PROVE  Good(m') /\ (AllVisited => H!D!Visit)
  <2>1. m' = m
    BY <1>14 DEF H!HashmapIterate
  <2>2. ASSUME AllVisited PROVE H!D!Visit
    <3>1. Len(m.chain) \in Nat /\ Len(m.chain) <= MaxVisits
      BY <1>1, <2>2, TableParameters DEF Counted, Visited, Shaped
    <3>2. (IF Len(m.chain) < MaxVisits THEN Len(m.chain) ELSE MaxVisits) = Len(m.chain)
      BY <3>1, TableParameters
    <3>3. answer' = H!D!Answer(FALSE, 0, s)
      BY <1>14, <3>2 DEF H!HashmapIterate, s
    <3>4. QED
      BY <1>4, <1>9, <2>1, <3>3 DEF H!D!Visit, s
  <2>3. QED
    BY <1>9, <2>1, <2>2
<1>15. ASSUME UNCHANGED map
       PROVE  Good(m') /\ UNCHANGED H!D!dvars
  <2>1. m' = m /\ answer' = answer
    BY <1>15 DEF map
  <2>2. QED
    BY <1>4, <1>9, <2>1 DEF H!D!dvars, s
<1>16. Good(m') /\ (AllVisited => [H!D!Next]_(H!D!dvars))
  BY <1>7, <1>8, <1>11, <1>12, <1>13, <1>14, <1>15 DEF H!Next, H!D!Next
<1>17. Good(m') => HInv'
  BY DEF HInv, Shaped, Linked, Keyed, Counted, Visited, Tombs, Places, ProbeAt
<1>18. QED
  BY <1>16, <1>17

(* The invariant says what a user of the table relies on.                  *)
LEMMA TableInvSound == HInv => TableSound
<1> SUFFICES ASSUME HInv PROVE TableSound
  OBVIOUS
<1> DEFINE n == Len(m.chain)
           Used == {m.chain[i] : i \in 1 .. n}
           Dead == {i \in DOMAIN m.buckets : m.buckets[i] = H!Tomb}
           at == [i \in Tombs(m) |-> m.chain[i]]
<1>1. /\ Shaped(m) /\ Linked(m) /\ Counted(m)
      /\ n \in Nat /\ m.chain \in Seq(Places(m.capacity)) /\ DOMAIN m.buckets = Places(m.capacity)
      /\ \A i \in 1 .. n : m.chain[i] \in Places(m.capacity)
  BY DEF HInv, Shaped
<1>2. H!TypeOK
  BY <1>1 DEF H!TypeOK, Shaped, Places
<1>3. H!SearchEnds
  BY <1>1, EndIsThere DEF H!SearchEnds
<1>4. Used = {i \in DOMAIN m.buckets : m.buckets[i] # H!Empty}
  BY <1>1 DEF Linked
<1>5. Cardinality(Used) = n
  <2>1. IsFiniteSet(1 .. n) /\ Cardinality(1 .. n) = n
    BY <1>1, FirstNumbers
  <2>2. m.chain \in Bijection(1 .. n, Used)
    <3>1. m.chain \in [1 .. n -> Used] /\ \A b \in Used : \E i \in 1 .. n : m.chain[i] = b
      BY <1>1
    <3>2. \A i, j \in 1 .. n : m.chain[i] = m.chain[j] => i = j
      BY <1>1 DEF Linked
    <3> HIDE DEF n, Used
    <3>3. QED
      BY <3>1, <3>2 DEF Bijection, Injection, Surjection, IsInjective
  <2>3. QED
    BY <2>1, <2>2, FS_Bijection DEF ExistsBijection
<1>6. Cardinality(Dead) = Cardinality(Tombs(m))
  <2>1. IsFiniteSet(Tombs(m))
    BY <1>1, LiveOrTomb
  <2>2. \A b \in Dead : \E i \in Tombs(m) : m.chain[i] = b
    <3>1. ASSUME NEW b \in Dead PROVE \E i \in Tombs(m) : m.chain[i] = b
      <4>1. b \in Places(m.capacity) /\ m.buckets[b] = H!Tomb /\ m.buckets[b] # H!Empty
        BY <1>1, TableParameters
      <4>2. PICK i \in 1 .. n : m.chain[i] = b
        BY <1>1, <4>1 DEF Linked
      <4>3. QED
        BY <4>1, <4>2 DEF Tombs
    <3>2. QED
      BY <3>1
  <2>3. \A i \in Tombs(m) : i \in 1 .. n /\ m.chain[i] \in Dead
    BY <1>1 DEF Tombs
  <2> HIDE DEF Dead
  <2>4. at \in [Tombs(m) -> Dead]
    BY <2>3
  <2>5. \A i, j \in Tombs(m) : at[i] = at[j] => i = j
    BY <1>1, <2>3 DEF Linked
  <2>6. \A b \in Dead : \E i \in Tombs(m) : at[i] = b
    BY <2>2
  <2> HIDE DEF at
  <2>7. at \in Bijection(Tombs(m), Dead)
    BY <2>4, <2>5, <2>6 DEF Bijection, Injection, Surjection, IsInjective
  <2>8. QED
    BY <2>1, <2>7, FS_Bijection DEF ExistsBijection
<1>7. \A S : H!Cardinality(S) = Cardinality(S)
  BY DEF H!Cardinality, Cardinality
<1>8. H!ListAndCounters
  <2> HIDE DEF n
  <2>1. /\ Used = {m.chain[i] : i \in 1 .. Len(m.chain)}
        /\ m.count = n /\ n = Len(m.chain) /\ m.tombs = Cardinality(Dead)
    BY <1>1, <1>6 DEF Counted, n
  <2> HIDE DEF Used
  <2>2. QED
    BY <1>4, <1>5, <1>7, <2>1 DEF H!ListAndCounters
<1>9. QED
  BY <1>2, <1>3, <1>8 DEF TableSound

(* The hash table keeps its counters and its list of buckets, and always a *)
(* bucket that ends a search (map.c), for every hash function.             *)
THEOREM TableAlwaysSound == LibrarySpec => []TableSound
<1>1. LibraryInit => HInv
  BY TableInit DEF LibraryInit
<1>2. HInv /\ [LibraryNext]_all => HInv'
  BY TableStep DEF LibraryNext, all, map
<1>3. HInv => TableSound
  BY TableInvSound
<1>4. QED
  BY <1>1, <1>2, <1>3, PTL DEF LibrarySpec

(* Through collisions, tombstones and resizing every call answers as the   *)
(* dictionary does, for every hash function, as long as no table has more  *)
(* buckets in use than hashmap_iterate visits (map.c:388).                 *)
THEOREM TableIsADictionary ==
  ASSUME AllVisited
  PROVE  LibrarySpec => ImplementsDictionary
<1>1. LibraryInit => HInv /\ H!D!Init
  BY TableInit DEF LibraryInit
<1>2. HInv /\ [LibraryNext]_all => HInv' /\ [H!D!Next]_(H!D!dvars)
  BY TableStep, AllVisited DEF LibraryNext, all, map
<1>3. QED
  BY <1>1, <1>2, PTL DEF LibrarySpec, ImplementsDictionary, H!ImplementsDictionary, H!D!Spec

-----------------------------------------------------------------------------
(***************************************************************************)
(* The heap: its operations lose and double nothing, whatever its order.   *)
(***************************************************************************)
Distinct(h) == \A i, j \in 1 .. Len(h) : i # j => h[i] # h[j]
Rearranged(h) == {g \in Seq(Q!Items) : /\ Len(g) = Len(h) /\ Q!Contents(g) = Q!Contents(h)
                                       /\ Distinct(h) => Distinct(g)}

(* Ranks are numbers.                                                      *)
LEMMA Ranks ==
  /\ MaxSize \in Nat
  /\ \A x \in Q!Items : x.rank \in Nat
BY HeapQueueAssumption DEF Q!HeapQueueParameters, Q!Items

(* Heap!Swap: two items change places.                                     *)
LEMMA SwapKeeps ==
  ASSUME NEW h \in Seq(Q!Items), NEW i \in 1 .. Len(h), NEW j \in 1 .. Len(h)
  PROVE  Q!H!Swap(h, i, j) \in Rearranged(h)
<1> DEFINE g == Q!H!Swap(h, i, j)
           to == [k \in 1 .. Len(h) |-> IF k = i THEN j ELSE IF k = j THEN i ELSE k]
<1>1. g \in Seq(Q!Items) /\ Len(g) = Len(h)
  BY DEF Q!H!Swap
<1>2. \A k \in 1 .. Len(h) : to[k] \in 1 .. Len(h) /\ g[k] = h[to[k]] /\ g[to[k]] = h[k]
  BY DEF Q!H!Swap
<1>3. \A k, l \in 1 .. Len(h) : k # l => to[k] # to[l]
  OBVIOUS
<1>4. Q!Contents(g) = Q!Contents(h)
  <2> HIDE DEF g, to
  <2>1. \A x \in Q!Contents(g) : x \in Q!Contents(h)
    BY <1>1, <1>2 DEF Q!Contents
  <2>2. \A x \in Q!Contents(h) : x \in Q!Contents(g)
    BY <1>1, <1>2 DEF Q!Contents
  <2>3. QED
    BY <2>1, <2>2
<1>5. Distinct(h) => Distinct(g)
  <2> HIDE DEF g, to
  <2> SUFFICES ASSUME Distinct(h), NEW k \in 1 .. Len(g), NEW l \in 1 .. Len(g), k # l
               PROVE  g[k] # g[l]
    BY DEF Distinct
  <2>1. to[k] \in 1 .. Len(h) /\ to[l] \in 1 .. Len(h) /\ to[k] # to[l]
        /\ g[k] = h[to[k]] /\ g[l] = h[to[l]]
    BY <1>1, <1>2, <1>3
  <2>2. QED
    BY <2>1 DEF Distinct
<1>6. QED
  BY <1>1, <1>4, <1>5 DEF Rearranged

(* A rearrangement of a rearrangement is one, and so is the sequence.      *)
LEMMA RearrangedAgain ==
  ASSUME NEW h \in Seq(Q!Items)
  PROVE  /\ h \in Rearranged(h)
         /\ \A g \in Rearranged(h) : Rearranged(g) \subseteq Rearranged(h)
BY DEF Rearranged

(* Heap!Loop with Heap!UpStep: if each round leads from one set of states  *)
(* to the next, all lead from the first to the last.                       *)
LEMMA UpRuns ==
  ASSUME NEW n \in Nat, NEW X, NEW F, F \in [0 .. n -> SUBSET X], NEW s0 \in F[0],
         \A s \in X : Q!H!UpStep(s) \in X,
         \A k \in 1 .. n : \A s \in F[k - 1] : Q!H!UpStep(s) \in F[k]
  PROVE  LET run[k \in 0 .. n] == IF k = 0 THEN s0 ELSE Q!H!UpStep(run[k - 1]) IN run[n] \in F[n]
<1> DEFINE step == [s \in X |-> Q!H!UpStep(s)]
           R(r) == r = [k \in 0 .. n |-> IF k = 0 THEN s0 ELSE Q!H!UpStep(r[k - 1])]
           run == CHOOSE r : R(r)
           P == {k \in 0 .. n : run[k] \in F[k]}
<1>1. step \in [X -> X] /\ s0 \in X /\ \A s \in X : step[s] = Q!H!UpStep(s)
  OBVIOUS
<1>2. PICK g : Iterates(g, X, s0, step, n)
  <2> HIDE DEF step
  <2>1. QED
    BY <1>1, IterationExists
<1>3. \A k \in 0 .. n : g[k] = IF k = 0 THEN s0 ELSE Q!H!UpStep(g[k - 1])
  <2> HIDE DEF step
  <2>1. \A k \in 1 .. n : k - 1 \in 0 .. n
    OBVIOUS
  <2>2. QED
    BY <1>1, <1>2, <2>1 DEF Iterates
<1>4. R(run)
  <2>1. R(g)
    BY <1>2, <1>3 DEF Iterates
  <2> HIDE DEF R
  <2>2. QED
    BY <2>1
<1> HIDE DEF run
<1>5. run[0] = s0 /\ \A k \in 1 .. n : run[k] = Q!H!UpStep(run[k - 1])
  BY <1>4
<1>6. 0 \in P /\ \A k \in 1 .. n : k - 1 \in P => k \in P
  BY <1>5
<1>7. 0 .. n \subseteq P
  <2> HIDE DEF P
  <2>1. QED
    BY <1>6, StepByStep
<1>8. run[n] \in F[n]
  BY <1>7
<1>9. QED
  BY <1>8 DEF run

(* The same with Heap!DownStep.                                            *)
LEMMA DownRuns ==
  ASSUME NEW n \in Nat, NEW X, NEW F, F \in [0 .. n -> SUBSET X], NEW s0 \in F[0],
         \A s \in X : Q!H!DownStep(s) \in X,
         \A k \in 1 .. n : \A s \in F[k - 1] : Q!H!DownStep(s) \in F[k]
  PROVE  LET run[k \in 0 .. n] == IF k = 0 THEN s0 ELSE Q!H!DownStep(run[k - 1]) IN run[n] \in F[n]
<1> DEFINE step == [s \in X |-> Q!H!DownStep(s)]
           R(r) == r = [k \in 0 .. n |-> IF k = 0 THEN s0 ELSE Q!H!DownStep(r[k - 1])]
           run == CHOOSE r : R(r)
           P == {k \in 0 .. n : run[k] \in F[k]}
<1>1. step \in [X -> X] /\ s0 \in X /\ \A s \in X : step[s] = Q!H!DownStep(s)
  OBVIOUS
<1>2. PICK g : Iterates(g, X, s0, step, n)
  <2> HIDE DEF step
  <2>1. QED
    BY <1>1, IterationExists
<1>3. \A k \in 0 .. n : g[k] = IF k = 0 THEN s0 ELSE Q!H!DownStep(g[k - 1])
  <2> HIDE DEF step
  <2>1. \A k \in 1 .. n : k - 1 \in 0 .. n
    OBVIOUS
  <2>2. QED
    BY <1>1, <1>2, <2>1 DEF Iterates
<1>4. R(run)
  <2>1. R(g)
    BY <1>2, <1>3 DEF Iterates
  <2> HIDE DEF R
  <2>2. QED
    BY <2>1
<1> HIDE DEF run
<1>5. run[0] = s0 /\ \A k \in 1 .. n : run[k] = Q!H!DownStep(run[k - 1])
  BY <1>4
<1>6. 0 \in P /\ \A k \in 1 .. n : k - 1 \in P => k \in P
  BY <1>5
<1>7. 0 .. n \subseteq P
  <2> HIDE DEF P
  <2>1. QED
    BY <1>6, StepByStep
<1>8. run[n] \in F[n]
  BY <1>7
<1>9. QED
  BY <1>8 DEF run
-----------------------------------------------------------------------------
(***************************************************************************)
(* The order of the heap.  While an item goes up, it alone may be higher   *)
(* than its parent; while one goes down, it alone may be lower than one of *)
(* its children.                                                           *)
(***************************************************************************)
Under(g, j, i) == g[j].rank <= g[i].rank

UpOk(g, a) ==
  /\ \A j \in 2 .. Len(g) : j # a => Under(g, j, j \div 2)
  /\ \A j \in 2 .. Len(g) : j \div 2 = a /\ a >= 2 => Under(g, j, a \div 2)
UpDone(g, a) == a = 1 \/ g[a].rank < g[a \div 2].rank

DownOk(g, a) ==
  /\ \A j \in 2 .. Len(g) : j \div 2 # a => Under(g, j, j \div 2)
  /\ \A j \in 2 .. Len(g) : j \div 2 = a /\ a >= 2 => Under(g, j, a \div 2)
DownDone(g, a) == \A j \in 2 .. Len(g) : j \div 2 = a => Under(g, j, a)

(* Halves of places.                                                       *)
LEMMA Halves ==
  ASSUME NEW n \in Nat
  PROVE  \A j \in 2 .. n : j \div 2 \in 1 .. n /\ j \div 2 < j
OBVIOUS

(* The order is that of Heap!IsHeap.                                       *)
LEMMA IsHeapMeans ==
  ASSUME NEW g \in Seq(Q!Items)
  PROVE  Q!H!IsHeap(g) <=> \A j \in 2 .. Len(g) : Under(g, j, j \div 2)
<1>1. \A j \in 2 .. Len(g) : j \in 1 .. Len(g) /\ j \div 2 \in 1 .. Len(g)
  BY Halves
<1>2. \A j \in 2 .. Len(g) : g[j].rank \in Nat /\ g[j \div 2].rank \in Nat
  BY <1>1, Ranks
<1>3. QED
  BY <1>2 DEF Q!H!IsHeap, Q!ByRank, Q!H!Parent, Under

(* The item has come to its place.                                         *)
LEMMA UpEnds ==
  ASSUME NEW g \in Seq(Q!Items), NEW a \in 1 .. Len(g), UpOk(g, a), UpDone(g, a)
  PROVE  Q!H!IsHeap(g)
<1>1. \A j \in 1 .. Len(g) : g[j].rank \in Nat
  BY Ranks
<1>2. a = 1 \/ (a \in 2 .. Len(g) /\ a \div 2 \in 1 .. Len(g))
  OBVIOUS
<1>3. a # 1 => Under(g, a, a \div 2)
  BY <1>1, <1>2 DEF UpDone, Under
<1>4. QED
  BY <1>3, IsHeapMeans DEF UpOk

(* One round of __pushup.                                                  *)
LEMMA UpGoes ==
  ASSUME NEW g \in Seq(Q!Items), NEW a \in 1 .. Len(g), UpOk(g, a), ~UpDone(g, a)
  PROVE  /\ a \div 2 \in 1 .. Len(g) /\ a \div 2 < a
         /\ UpOk(Q!H!Swap(g, a, a \div 2), a \div 2)
<1> DEFINE p == a \div 2
           f == Q!H!Swap(g, a, p)
<1>1. /\ a \in 2 .. Len(g) /\ p \in 1 .. Len(g) /\ p < a /\ Len(g) \in Nat
      /\ \A j \in 1 .. Len(g) : g[j].rank \in Nat
  BY Ranks DEF UpDone
<1>2. Under(g, p, a)
  BY <1>1 DEF UpDone, Under
<1>3. Len(f) = Len(g) /\ f[a] = g[p] /\ f[p] = g[a]
      /\ \A j \in 1 .. Len(g) : j # a /\ j # p => f[j] = g[j]
  BY <1>1 DEF Q!H!Swap
<1>4. \A j \in 2 .. Len(g) : j \div 2 \in 1 .. Len(g) /\ j \div 2 < j
  BY <1>1, Halves
<1>5. p >= 2 => p \in 2 .. Len(g) /\ p \div 2 < p /\ p \div 2 \in 1 .. Len(g)
  BY <1>1
<1> DEFINE half == [j \in 2 .. Len(g) |-> j \div 2]
<1>6. half[a] = p /\ \A j \in 2 .. Len(g) : half[j] = j \div 2
  BY <1>1
<1> HIDE DEF half, f, p
<1>7. ASSUME NEW j \in 2 .. Len(g), j # p
      PROVE  Under(f, j, half[j])
  <2>1. j # a => Under(g, j, half[j])
    BY <1>6 DEF UpOk
  <2>2. half[j] = a => Under(g, j, p)
    BY <1>1, <1>6 DEF UpOk, p
  <2>3. CASE j = a
    BY <1>2, <1>3, <1>6, <2>3 DEF Under
  <2>4. CASE j # a /\ half[j] = a
    BY <1>1, <1>3, <1>7, <2>2, <2>4 DEF Under
  <2>5. CASE j # a /\ half[j] = p
    BY <1>1, <1>2, <1>3, <1>4, <1>7, <2>1, <2>5 DEF Under
  <2>6. CASE j # a /\ half[j] # a /\ half[j] # p
    <3>1. j \in 1 .. Len(g) /\ half[j] \in 1 .. Len(g)
      BY <1>1, <1>4, <1>6
    <3>2. f[j] = g[j] /\ f[half[j]] = g[half[j]]
      BY <1>3, <1>7, <2>6, <3>1
    <3>3. QED
      BY <2>1, <2>6, <3>2 DEF Under
  <2>7. QED
    BY <2>3, <2>4, <2>5, <2>6
<1>8. ASSUME NEW j \in 2 .. Len(g), half[j] = p, p >= 2
      PROVE  Under(f, j, half[p])
  <2>1. p \in 2 .. Len(g) /\ half[p] # p /\ half[p] # a /\ half[p] \in 1 .. Len(g)
    BY <1>1, <1>5, <1>6, <1>8
  <2>2. Under(g, p, half[p])
    BY <1>1, <1>6, <2>1 DEF UpOk
  <2>3. j # p
    BY <1>4, <1>6, <1>8
  <2>4. j # a => Under(g, j, p)
    BY <1>6, <1>8 DEF UpOk
  <2>5. f[half[p]] = g[half[p]]
    BY <1>3, <2>1
  <2>6. CASE j = a
    BY <1>3, <2>2, <2>5, <2>6 DEF Under
  <2>7. CASE j # a
    <3>1. f[j] = g[j] /\ g[j].rank <= g[p].rank /\ g[p].rank <= g[half[p]].rank
      BY <1>3, <2>2, <2>3, <2>4, <2>7 DEF Under
    <3>2. g[j].rank \in Nat /\ g[p].rank \in Nat /\ g[half[p]].rank \in Nat
      BY <1>1, <2>1
    <3>3. QED
      BY <2>5, <3>1, <3>2 DEF Under
  <2>8. QED
    BY <2>6, <2>7
<1>9. UpOk(f, p)
  <2>1. p >= 2 => half[p] = p \div 2
    BY <1>5, <1>6
  <2>2. QED
    BY <1>3, <1>6, <1>7, <1>8, <2>1 DEF UpOk
<1>10. QED
  BY <1>1, <1>9 DEF f, p
(***************************************************************************)

(* The child that __pushdown compares with: one that no child is above.    *)
(***************************************************************************)
LEMMA BiggestIs ==
  ASSUME NEW g \in Seq(Q!Items), NEW a \in 1 .. Len(g), 2 * a <= Len(g)
  PROVE  LET c == Q!H!BiggestChild(g, a)
         IN  /\ c \in 2 .. Len(g) /\ c \div 2 = a
             /\ \A j \in 2 .. Len(g) : j \div 2 = a => Under(g, j, c)
<1> DEFINE c == Q!H!BiggestChild(g, a)
<1>1. \A j \in 1 .. Len(g) : g[j].rank \in Nat
  BY Ranks
<1>2. \A j \in 2 .. Len(g) : j \div 2 = a => j = 2 * a \/ j = 2 * a + 1
  OBVIOUS
<1>3. 2 * a \in 2 .. Len(g) /\ (2 * a) \div 2 = a /\ (2 * a + 1) \div 2 = a
  OBVIOUS
<1>4. c = IF 2 * a + 1 <= Len(g) /\ g[2 * a].rank - g[2 * a + 1].rank < 0 THEN 2 * a + 1 ELSE 2 * a
  BY DEF Q!H!BiggestChild, Q!H!Left, Q!H!Right, Q!ByRank
<1>5. c \in 2 .. Len(g) /\ c \div 2 = a
  BY <1>3, <1>4
<1>6. 2 * a + 1 <= Len(g) => 2 * a + 1 \in 1 .. Len(g)
  OBVIOUS
<1> HIDE DEF c
<1>7. Under(g, 2 * a, c) /\ (2 * a + 1 <= Len(g) => Under(g, 2 * a + 1, c))
  <2> DEFINE l == 2 * a
             r == 2 * a + 1
  <2>1. l \in 1 .. Len(g) /\ (r <= Len(g) => r \in 1 .. Len(g))
    BY <1>3, <1>6
  <2>2. c = IF r <= Len(g) /\ g[l].rank - g[r].rank < 0 THEN r ELSE l
    BY <1>4
  <2> HIDE DEF l, r
  <2>3. Under(g, l, c) /\ (r <= Len(g) => Under(g, r, c))
    BY <1>1, <2>1, <2>2 DEF Under
  <2>4. QED
    BY <2>3 DEF l, r
<1>9. \A j \in 2 .. Len(g) : j \div 2 = a => Under(g, j, c)
  BY <1>2, <1>7
<1>10. QED
  BY <1>5, <1>9 DEF c

(* The item has come to its place.                                         *)
LEMMA DownEnds ==
  ASSUME NEW g \in Seq(Q!Items), NEW a, DownOk(g, a), DownDone(g, a)
  PROVE  Q!H!IsHeap(g)
<1>1. \A j \in 2 .. Len(g) : Under(g, j, j \div 2)
  BY DEF DownOk, DownDone
<1>2. QED
  BY <1>1, IsHeapMeans

(* One round of __pushdown, with the biggest child c.                      *)
LEMMA DownGoes ==
  ASSUME NEW g \in Seq(Q!Items), NEW a \in 1 .. Len(g), NEW c \in 2 .. Len(g),
         c \div 2 = a, \A j \in 2 .. Len(g) : j \div 2 = a => Under(g, j, c),
         DownOk(g, a), g[a].rank <= g[c].rank
  PROVE  DownOk(Q!H!Swap(g, a, c), c)
<1> DEFINE f == Q!H!Swap(g, a, c)
           half == [j \in 2 .. Len(g) |-> j \div 2]
<1>1. /\ \A j \in 1 .. Len(g) : g[j].rank \in Nat
      /\ Len(g) \in Nat /\ c \in 1 .. Len(g) /\ a < c
  BY Ranks, Halves
<1>2. Len(f) = Len(g) /\ f[a] = g[c] /\ f[c] = g[a]
      /\ \A j \in 1 .. Len(g) : j # a /\ j # c => f[j] = g[j]
  BY <1>1 DEF Q!H!Swap
<1>3. \A j \in 2 .. Len(g) : j \in 1 .. Len(g) /\ half[j] \in 1 .. Len(g) /\ half[j] < j
  BY <1>1, Halves
<1>4. half[c] = a /\ \A j \in 2 .. Len(g) : half[j] = j \div 2
  OBVIOUS
<1> HIDE DEF half, f
<1>5. ASSUME NEW j \in 2 .. Len(g), half[j] # c
      PROVE  Under(f, j, half[j])
  <2>1. half[j] # a => Under(g, j, half[j])
    BY <1>4 DEF DownOk
  <2>2. half[j] = a => Under(g, j, c)
    BY <1>4
  <2>3. CASE j = a
    <3>1. Under(g, c, half[a])
      <4>1. a >= 2 /\ half[a] = a \div 2
        BY <1>4, <2>3
      <4>2. QED
        BY <4>1 DEF DownOk
    <3>2. f[half[a]] = g[half[a]]
      BY <1>1, <1>2, <1>3, <1>5, <2>3
    <3>3. QED
      BY <1>2, <2>3, <3>1, <3>2 DEF Under
  <2>4. CASE j = c
    BY <1>2, <1>4, <2>4 DEF Under
  <2>5. CASE j # a /\ j # c /\ half[j] = a
    <3>1. f[j] = g[j] /\ f[a] = g[c]
      BY <1>2, <1>3, <2>5
    <3>2. QED
      BY <2>2, <2>5, <3>1 DEF Under
  <2>6. CASE j # a /\ j # c /\ half[j] # a
    <3>1. f[j] = g[j] /\ f[half[j]] = g[half[j]]
      BY <1>2, <1>3, <1>5, <2>6
    <3>2. QED
      BY <2>1, <2>6, <3>1 DEF Under
  <2>7. QED
    BY <2>3, <2>4, <2>5, <2>6
<1>6. ASSUME NEW j \in 2 .. Len(g), half[j] = c
      PROVE  Under(f, j, half[c])
  <2>1. c < j /\ a # c
    BY <1>1, <1>3, <1>6
  <2>2. Under(g, j, half[j])
    BY <1>4, <1>6, <2>1 DEF DownOk
  <2>3. f[j] = g[j]
    BY <1>1, <1>2, <1>3, <2>1
  <2>4. QED
    BY <1>2, <1>4, <1>6, <2>2, <2>3 DEF Under
<1>7. DownOk(f, c)
  BY <1>2, <1>4, <1>5, <1>6 DEF DownOk
<1>8. QED
  BY <1>7 DEF f

(* __pushup rearranges, and ends with a heap if only the item it starts at *)
(* was too high.                                                           *)
LEMMA PushUpKeeps ==
  ASSUME NEW h \in Seq(Q!Items), NEW i \in 1 .. Len(h)
  PROVE  /\ Q!H!PushUp(h, i) \in Rearranged(h)
         /\ UpOk(h, i) => Q!H!IsHeap(Q!H!PushUp(h, i))
<1> DEFINE X == [heap : Rearranged(h), at : 1 .. Len(h)]
           s0 == [heap |-> h, at |-> i]
           After(k) == {s \in X : UpOk(h, i) => /\ UpOk(s.heap, s.at)
                                                /\ UpDone(s.heap, s.at) \/ s.at <= Len(h) - k}
           F == [k \in 0 .. Len(h) |-> After(k)]
<1>1. h \in Rearranged(h) /\ Len(h) \in Nat
  BY RearrangedAgain
<1>2. s0 \in X /\ s0 \in F[0]
  BY <1>1
<1>3. ASSUME NEW s \in X
      PROVE  LET u == Q!H!UpStep(s)
                 p == s.at \div 2
             IN  /\ u \in X
                 /\ \/ u = s /\ UpDone(s.heap, s.at)
                    \/ /\ ~UpDone(s.heap, s.at)
                       /\ UpOk(s.heap, s.at) => UpOk(u.heap, u.at)
                       /\ u.at < s.at
  <2> DEFINE g == s.heap
             a == s.at
             p == a \div 2
  <2>1. g \in Seq(Q!Items) /\ Len(g) = Len(h) /\ g \in Rearranged(h) /\ a \in 1 .. Len(g)
    BY DEF Rearranged
  <2>2. \A j \in 1 .. Len(g) : g[j].rank \in Nat
    BY <2>1, Ranks
  <2>3. a = 1 \/ p \in 1 .. Len(g)
    BY <2>1
  <2>4. (a = 1 \/ Q!ByRank(g[a], g[Q!H!Parent(a)]) < 0) <=> UpDone(g, a)
    BY <2>1, <2>2, <2>3 DEF UpDone, Q!ByRank, Q!H!Parent
  <2>5. CASE UpDone(g, a)
    BY <2>4, <2>5 DEF Q!H!UpStep
  <2>6. CASE ~UpDone(g, a)
    <3>1. p \in 1 .. Len(g) /\ p < a
      BY <2>1, <2>6 DEF UpDone
    <3>2. Q!H!UpStep(s) = [heap |-> Q!H!Swap(g, a, p), at |-> p]
      BY <2>4, <2>6 DEF Q!H!UpStep, Q!H!Parent
    <3>3. Q!H!Swap(g, a, p) \in Rearranged(h)
      BY <2>1, <3>1, SwapKeeps, RearrangedAgain
    <3>4. UpOk(g, a) => UpOk(Q!H!Swap(g, a, p), p)
      BY <2>1, <2>6, UpGoes
    <3>5. QED
      BY <2>1, <2>6, <3>1, <3>2, <3>3, <3>4
  <2>7. QED
    BY <2>5, <2>6
<1>4. ASSUME NEW k \in 1 .. Len(h), NEW s \in After(k - 1)
      PROVE  Q!H!UpStep(s) \in After(k)
  <2> DEFINE u == Q!H!UpStep(s)
  <2>1. s \in X
    OBVIOUS
  <2>2. /\ u \in X
        /\ \/ u = s /\ UpDone(s.heap, s.at)
           \/ /\ ~UpDone(s.heap, s.at)
              /\ UpOk(s.heap, s.at) => UpOk(u.heap, u.at)
              /\ u.at < s.at
    BY <1>3, <2>1
  <2>3. u.at \in Nat /\ s.at \in Nat
    BY <2>1, <2>2
  <2> HIDE DEF u, X
  <2>4. UpOk(h, i) => UpOk(u.heap, u.at) /\ (UpDone(u.heap, u.at) \/ u.at <= Len(h) - k)
    BY <1>1, <2>2, <2>3
  <2>5. u \in After(k)
    BY <2>2, <2>4
  <2>6. QED
    BY <2>5 DEF u
<1> HIDE DEF X
<1>5. F \in [0 .. Len(h) -> SUBSET X]
  OBVIOUS
<1>6. \A k \in 1 .. Len(h) : \A s \in F[k - 1] : Q!H!UpStep(s) \in F[k]
  <2> HIDE DEF After
  <2>1. \A k \in 1 .. Len(h) : F[k] = After(k) /\ F[k - 1] = After(k - 1)
    OBVIOUS
  <2>2. QED
    BY <1>4, <2>1
<1>7. LET run[k \in 0 .. Len(h)] == IF k = 0 THEN s0 ELSE Q!H!UpStep(run[k - 1])
      IN  run[Len(h)] \in F[Len(h)]
  <2> HIDE DEF s0, F
  <2>1. \A s \in X : Q!H!UpStep(s) \in X
    BY <1>3
  <2>2. QED
    BY <1>1, <1>2, <1>5, <1>6, <2>1, UpRuns
<1>8. ASSUME NEW s \in F[Len(h)]
      PROVE  s.heap \in Rearranged(h) /\ (UpOk(h, i) => Q!H!IsHeap(s.heap))
  <2>1. s \in X /\ s \in After(Len(h))
    BY <1>1
  <2>2. s.heap \in Rearranged(h) /\ s.at \in 1 .. Len(h)
    BY <2>1 DEF X
  <2>3. s.heap \in Seq(Q!Items) /\ Len(s.heap) = Len(h)
    BY <2>2 DEF Rearranged
  <2>4. UpOk(h, i) => UpOk(s.heap, s.at) /\ UpDone(s.heap, s.at)
    BY <2>1, <2>2
  <2>5. QED
    BY <2>2, <2>3, <2>4, UpEnds
<1>9. QED
  <2> HIDE DEF F
  <2>1. QED
    BY <1>7, <1>8 DEF Q!H!PushUp, Q!H!Loop

(* __pushdown rearranges, an empty heap too, and ends with a heap if only  *)
(* the item it starts at was too low.                                      *)
LEMMA PushDownKeeps ==
  ASSUME NEW h \in Seq(Q!Items)
  PROVE  /\ Q!H!PushDown(h, 1) \in Rearranged(h)
         /\ DownOk(h, 1) => Q!H!IsHeap(Q!H!PushDown(h, 1))
<1> DEFINE X == [heap : Rearranged(h), at : Nat \ {0}]
           s0 == [heap |-> h, at |-> 1]
           After(k) == {s \in X : DownOk(h, 1) => /\ DownOk(s.heap, s.at)
                                                  /\ DownDone(s.heap, s.at) \/ s.at > k}
           F == [k \in 0 .. Len(h) |-> After(k)]
<1>1. h \in Rearranged(h) /\ Len(h) \in Nat
  BY RearrangedAgain
<1>2. s0 \in X /\ s0 \in F[0]
  BY <1>1
<1>3. ASSUME NEW s \in X
      PROVE  LET u == Q!H!DownStep(s)
             IN  /\ u \in X
                 /\ \/ u = s /\ DownDone(s.heap, s.at)
                    \/ /\ ~DownDone(s.heap, s.at)
                       /\ DownOk(s.heap, s.at) => DownOk(u.heap, u.at)
                       /\ s.at < u.at
  <2> DEFINE g == s.heap
             a == s.at
             c == Q!H!BiggestChild(g, a)
             stay == Q!H!Left(a) > Len(g) \/ Q!ByRank(g[a], g[c]) >= 0
  <2>1. g \in Seq(Q!Items) /\ Len(g) = Len(h) /\ g \in Rearranged(h) /\ a \in Nat \ {0}
    BY DEF Rearranged
  <2>2. \A j \in 1 .. Len(g) : g[j].rank \in Nat
    BY <2>1, Ranks
  <2>3. CASE 2 * a > Len(g)
    <3>1. DownDone(g, a)
      <4>1. \A j \in 2 .. Len(g) : j \div 2 # a
        BY <2>1, <2>3
      <4>2. QED
        BY <4>1 DEF DownDone
    <3>2. Q!H!DownStep(s) = s
      BY <2>3 DEF Q!H!DownStep, Q!H!Left
    <3>3. QED
      BY <3>1, <3>2
  <2>4. CASE 2 * a <= Len(g)
    <3>1. a \in 1 .. Len(g)
      BY <2>1, <2>4
    <3>2. c \in 2 .. Len(g) /\ c \div 2 = a /\ \A j \in 2 .. Len(g) : j \div 2 = a => Under(g, j, c)
      BY <2>1, <2>4, <3>1, BiggestIs
    <3>3. c \in 1 .. Len(g) /\ a < c
      BY <2>1, <3>2
    <3>4. g[a].rank \in Nat /\ g[c].rank \in Nat
      BY <2>2, <3>1, <3>3
    <3>5. Q!H!DownStep(s) = IF g[a].rank - g[c].rank >= 0 THEN s
                            ELSE [heap |-> Q!H!Swap(g, a, c), at |-> c]
      <4>1. ~(Q!H!Left(a) > Len(g))
        BY <2>1, <2>4 DEF Q!H!Left
      <4>2. QED
        BY <4>1 DEF Q!H!DownStep, Q!ByRank
    <3> HIDE DEF c
    <3>6. CASE g[a].rank - g[c].rank >= 0
      <4>1. \A j \in 2 .. Len(g) : j \div 2 = a => Under(g, j, a)
        <5> SUFFICES ASSUME NEW j \in 2 .. Len(g), j \div 2 = a PROVE Under(g, j, a)
          OBVIOUS
        <5>1. g[j].rank <= g[c].rank /\ g[j].rank \in Nat
          BY <2>1, <2>2, <3>2 DEF Under
        <5>2. QED
          BY <3>4, <3>6, <5>1 DEF Under
      <4>2. DownDone(g, a)
        BY <4>1 DEF DownDone
      <4>3. QED
        BY <3>5, <3>6, <4>2
    <3>7. CASE g[a].rank - g[c].rank < 0
      <4>1. g[a].rank <= g[c].rank /\ ~DownDone(g, a)
        BY <3>2, <3>4, <3>7 DEF DownDone, Under
      <4>2. DownOk(g, a) => DownOk(Q!H!Swap(g, a, c), c)
        BY <2>1, <3>1, <3>2, <4>1, DownGoes
      <4>3. Q!H!Swap(g, a, c) \in Rearranged(h)
        BY <2>1, <3>1, <3>3, SwapKeeps, RearrangedAgain
      <4>4. Q!H!DownStep(s) = [heap |-> Q!H!Swap(g, a, c), at |-> c]
        BY <3>4, <3>5, <3>7
      <4>5. c \in Nat \ {0}
        BY <3>3
      <4>6. QED
        BY <3>3, <4>1, <4>2, <4>3, <4>4, <4>5
    <3>8. QED
      BY <3>4, <3>6, <3>7
  <2>5. QED
    BY <2>1, <2>3, <2>4
<1>4. ASSUME NEW k \in 1 .. Len(h), NEW s \in After(k - 1)
      PROVE  Q!H!DownStep(s) \in After(k)
  <2> DEFINE u == Q!H!DownStep(s)
  <2>1. s \in X
    OBVIOUS
  <2>2. /\ u \in X
        /\ \/ u = s /\ DownDone(s.heap, s.at)
           \/ /\ ~DownDone(s.heap, s.at)
              /\ DownOk(s.heap, s.at) => DownOk(u.heap, u.at)
              /\ s.at < u.at
    BY <1>3, <2>1
  <2>3. u.at \in Nat /\ s.at \in Nat
    BY <2>1, <2>2
  <2> HIDE DEF u, X
  <2>4. DownOk(h, 1) => DownOk(u.heap, u.at) /\ (DownDone(u.heap, u.at) \/ u.at > k)
    BY <1>1, <2>2, <2>3
  <2>5. u \in After(k)
    BY <2>2, <2>4
  <2>6. QED
    BY <2>5 DEF u
<1> HIDE DEF X
<1>5. F \in [0 .. Len(h) -> SUBSET X]
  OBVIOUS
<1>6. \A k \in 1 .. Len(h) : \A s \in F[k - 1] : Q!H!DownStep(s) \in F[k]
  <2> HIDE DEF After
  <2>1. \A k \in 1 .. Len(h) : F[k] = After(k) /\ F[k - 1] = After(k - 1)
    OBVIOUS
  <2>2. QED
    BY <1>4, <2>1
<1>7. LET run[k \in 0 .. Len(h)] == IF k = 0 THEN s0 ELSE Q!H!DownStep(run[k - 1])
      IN  run[Len(h)] \in F[Len(h)]
  <2> HIDE DEF s0, F
  <2>1. \A s \in X : Q!H!DownStep(s) \in X
    BY <1>3
  <2>2. QED
    BY <1>1, <1>2, <1>5, <1>6, <2>1, DownRuns
<1>8. ASSUME NEW s \in F[Len(h)]
      PROVE  s.heap \in Rearranged(h) /\ (DownOk(h, 1) => Q!H!IsHeap(s.heap))
  <2>1. s \in X /\ s \in After(Len(h))
    BY <1>1
  <2>2. s.heap \in Rearranged(h) /\ s.at \in Nat \ {0}
    BY <2>1 DEF X
  <2>3. s.heap \in Seq(Q!Items) /\ Len(s.heap) = Len(h)
    BY <2>2 DEF Rearranged
  <2>4. s.at > Len(h) => DownDone(s.heap, s.at)
    <3>1. s.at > Len(h) => \A j \in 2 .. Len(s.heap) : j \div 2 # s.at
      BY <1>1, <2>2, <2>3
    <3>2. QED
      BY <3>1 DEF DownDone
  <2>5. DownOk(h, 1) => DownOk(s.heap, s.at) /\ DownDone(s.heap, s.at)
    BY <2>1, <2>4
  <2>6. QED
    BY <2>2, <2>3, <2>5, DownEnds
<1>9. QED
  <2> HIDE DEF F
  <2>1. QED
    BY <1>7, <1>8 DEF Q!H!PushDown, Q!H!Loop
-----------------------------------------------------------------------------
(***************************************************************************)
(* The operations of the heap.                                             *)
(***************************************************************************)

(* heap_offer puts one item in, where it belongs.                          *)
LEMMA OfferKeeps ==
  ASSUME NEW h \in Seq(Q!Items), NEW x \in Q!Items
  PROVE  LET g == Q!H!Offer(h, x)
         IN  /\ g \in Seq(Q!Items) /\ Len(g) = Len(h) + 1
             /\ Q!Contents(g) = Q!Contents(h) \cup {x}
             /\ Distinct(h) /\ x \notin Q!Contents(h) => Distinct(g)
             /\ Q!H!IsHeap(h) => Q!H!IsHeap(g)
<1> DEFINE g == Append(h, x)
<1>1. g \in Seq(Q!Items) /\ Len(g) = Len(h) + 1 /\ Len(h) \in Nat /\ g[Len(h) + 1] = x
      /\ \A i \in 1 .. Len(h) : g[i] = h[i]
  OBVIOUS
<1> HIDE DEF g
<1>2. Q!Contents(g) = Q!Contents(h) \cup {x}
  <2>1. Q!Contents(g) \subseteq Q!Contents(h) \cup {x}
    BY <1>1 DEF Q!Contents
  <2>2. Q!Contents(h) \subseteq Q!Contents(g) /\ x \in Q!Contents(g)
    BY <1>1 DEF Q!Contents
  <2>3. QED
    BY <2>1, <2>2
<1>3. Distinct(h) /\ x \notin Q!Contents(h) => Distinct(g)
  BY <1>1 DEF Distinct, Q!Contents
<1>4. ASSUME Q!H!IsHeap(h)
      PROVE  UpOk(g, Len(h) + 1)
  <2>1. ASSUME NEW j \in 2 .. Len(g), j # Len(h) + 1
        PROVE  Under(g, j, j \div 2)
    <3>1. j \in 2 .. Len(h) /\ j \in 1 .. Len(h) /\ j \div 2 \in 1 .. Len(h)
      BY <1>1, <2>1, Halves
    <3>2. Under(h, j, j \div 2)
      BY <1>4, <3>1, IsHeapMeans
    <3>3. QED
      BY <1>1, <3>1, <3>2 DEF Under
  <2>2. \A j \in 2 .. Len(g) : j \div 2 # Len(h) + 1
    BY <1>1, Halves
  <2>3. QED
    BY <2>1, <2>2 DEF UpOk
<1>5. Len(h) + 1 \in 1 .. Len(g)
  BY <1>1
<1>6. Q!H!PushUp(g, Len(h) + 1) \in Rearranged(g)
      /\ (UpOk(g, Len(h) + 1) => Q!H!IsHeap(Q!H!PushUp(g, Len(h) + 1)))
  BY <1>1, <1>5, PushUpKeeps
<1>7. Q!H!Offer(h, x) = Q!H!PushUp(g, Len(h) + 1)
  BY DEF Q!H!Offer, g
<1>8. QED
  BY <1>1, <1>2, <1>3, <1>4, <1>6, <1>7 DEF Rearranged

(* Where the last item takes the place of another, that one is gone.  In   *)
(* the place of the root it alone may be too low.                          *)
LEMMA MoveLastKeeps ==
  ASSUME NEW h \in Seq(Q!Items), NEW i \in 1 .. Len(h), Distinct(h)
  PROVE  LET g == Q!H!MoveLastTo(h, i)
         IN  /\ g \in Seq(Q!Items) /\ Len(g) = Len(h) - 1 /\ Distinct(g)
             /\ Q!Contents(g) = Q!Contents(h) \ {h[i]}
             /\ i = 1 /\ Q!H!IsHeap(h) => DownOk(g, 1)
<1> DEFINE g == Q!H!MoveLastTo(h, i)
           from == [k \in 1 .. Len(h) - 1 |-> IF k = i THEN Len(h) ELSE k]
<1>1. Len(h) \in Nat \ {0} /\ \A k \in 1 .. Len(h) : h[k] \in Q!Items
  OBVIOUS
<1>2. /\ g \in Seq(Q!Items) /\ Len(g) = Len(h) - 1
      /\ \A k \in 1 .. Len(h) - 1 : g[k] = h[from[k]] /\ from[k] \in (1 .. Len(h)) \ {i}
  <2> DEFINE e == [h EXCEPT ![i] = h[Len(h)]]
  <2>1. e \in Seq(Q!Items) /\ Len(e) = Len(h)
        /\ \A k \in 1 .. Len(h) : e[k] = IF k = i THEN h[Len(h)] ELSE h[k]
    BY <1>1
  <2>2. g = SubSeq(e, 1, Len(h) - 1)
    BY DEF Q!H!MoveLastTo
  <2> HIDE DEF e, g
  <2>3. g \in Seq(Q!Items) /\ Len(g) = Len(h) - 1 /\ \A k \in 1 .. Len(h) - 1 : g[k] = e[k]
    BY <1>1, <2>1, <2>2
  <2>4. QED
    BY <1>1, <2>1, <2>3
<1>3. \A k, l \in 1 .. Len(h) - 1 : k # l => from[k] # from[l]
  BY <1>1
<1>4. \A k \in (1 .. Len(h)) \ {i} : \E l \in 1 .. Len(h) - 1 : from[l] = k
  <2> SUFFICES ASSUME NEW k \in (1 .. Len(h)) \ {i}
               PROVE  \E l \in 1 .. Len(h) - 1 : from[l] = k
    OBVIOUS
  <2>1. CASE k = Len(h)
    <3>1. i \in 1 .. Len(h) - 1 /\ from[i] = k
      BY <1>1, <2>1
    <3>2. QED
      BY <3>1
  <2>2. CASE k # Len(h)
    <3>1. k \in 1 .. Len(h) - 1 /\ from[k] = k
      BY <1>1, <2>2
    <3>2. QED
      BY <3>1
  <2>3. QED
    BY <2>1, <2>2
<1>5. \A k \in 1 .. Len(h) - 1 : k # i => from[k] = k
  OBVIOUS
<1> HIDE DEF g, from
<1>6. Distinct(g)
  <2> SUFFICES ASSUME NEW k \in 1 .. Len(g), NEW l \in 1 .. Len(g), k # l
               PROVE  g[k] # g[l]
    BY DEF Distinct
  <2>1. /\ g[k] = h[from[k]] /\ from[k] \in 1 .. Len(h)
        /\ g[l] = h[from[l]] /\ from[l] \in 1 .. Len(h) /\ from[k] # from[l]
    BY <1>2, <1>3
  <2>2. QED
    BY <2>1 DEF Distinct
<1>7. Q!Contents(g) = Q!Contents(h) \ {h[i]}
  <2>1. ASSUME NEW k \in 1 .. Len(g) PROVE g[k] \in Q!Contents(h) \ {h[i]}
    <3>1. g[k] = h[from[k]] /\ from[k] \in 1 .. Len(h) /\ from[k] # i
      BY <1>2
    <3>2. QED
      BY <3>1 DEF Distinct, Q!Contents
  <2>2. ASSUME NEW x \in Q!Contents(h) \ {h[i]} PROVE x \in Q!Contents(g)
    <3>1. PICK k \in (1 .. Len(h)) \ {i} : x = h[k]
      BY DEF Q!Contents
    <3>2. PICK l \in 1 .. Len(h) - 1 : from[l] = k
      BY <1>4
    <3>3. QED
      BY <1>2, <3>1, <3>2 DEF Q!Contents
  <2>3. Q!Contents(g) \subseteq Q!Contents(h) \ {h[i]}
    BY <2>1 DEF Q!Contents
  <2>4. QED
    BY <2>2, <2>3
<1>8. ASSUME i = 1, Q!H!IsHeap(h)
      PROVE  DownOk(g, 1)
  <2>1. ASSUME NEW j \in 2 .. Len(g), j \div 2 # 1
        PROVE  Under(g, j, j \div 2)
    <3>1. j \in 1 .. Len(h) - 1 /\ j \div 2 \in 1 .. Len(h) - 1 /\ j \in 2 .. Len(h)
      BY <1>1, <1>2, Halves
    <3>2. g[j] = h[j] /\ g[j \div 2] = h[j \div 2]
      <4>1. \A k \in 1 .. Len(h) - 1 : k # 1 => g[k] = h[k]
        BY <1>2, <1>5, <1>8
      <4>2. j # 1
        OBVIOUS
      <4>3. QED
        BY <2>1, <3>1, <4>1, <4>2
    <3>3. Under(h, j, j \div 2)
      BY <1>8, <3>1, IsHeapMeans
    <3>4. QED
      BY <3>2, <3>3 DEF Under
  <2>2. QED
    BY <2>1 DEF DownOk
<1>9. QED
  BY <1>2, <1>6, <1>7, <1>8 DEF g

(* heap_poll takes the root out.                                           *)
LEMMA PollKeeps ==
  ASSUME NEW h \in Seq(Q!Items), h # <<>>, Distinct(h)
  PROVE  LET g == Q!H!Poll(h)
         IN  /\ g \in Seq(Q!Items) /\ Len(g) = Len(h) - 1 /\ Distinct(g)
             /\ Q!Contents(g) = Q!Contents(h) \ {Head(h)} /\ Head(h) \in Q!Contents(h)
             /\ Q!H!IsHeap(h) => Q!H!IsHeap(g)
<1> DEFINE g == Q!H!MoveLastTo(h, 1)
<1>1. 1 \in 1 .. Len(h) /\ Head(h) = h[1]
  OBVIOUS
<1>2. /\ g \in Seq(Q!Items) /\ Len(g) = Len(h) - 1 /\ Distinct(g)
      /\ Q!Contents(g) = Q!Contents(h) \ {h[1]}
      /\ Q!H!IsHeap(h) => DownOk(g, 1)
  BY <1>1, MoveLastKeeps
<1>3. Q!H!Poll(h) = Q!H!PushDown(g, 1)
  BY DEF Q!H!Poll
<1> HIDE DEF g
<1>4. Q!H!PushDown(g, 1) \in Rearranged(g) /\ (DownOk(g, 1) => Q!H!IsHeap(Q!H!PushDown(g, 1)))
  BY <1>2, PushDownKeeps
<1>5. Head(h) \in Q!Contents(h)
  BY <1>1 DEF Q!Contents
<1>6. QED
  BY <1>1, <1>2, <1>3, <1>4, <1>5 DEF Rearranged

(* The first of the items that compare equal is one of them.               *)
LEMMA IndexOfIs ==
  ASSUME NEW h \in Seq(Q!Items), NEW x, Q!H!Equals(h, x) # {}
  PROVE  Q!H!IndexOf(h, x) \in 1 .. Len(h)
<1>1. Q!H!Equals(h, x) \subseteq Nat /\ Q!H!Equals(h, x) \subseteq 1 .. Len(h)
  BY DEF Q!H!Equals
<1>2. \E i \in Q!H!Equals(h, x) : \A j \in Q!H!Equals(h, x) : i <= j
  BY <1>1, MinExists
<1>3. QED
  BY <1>1, <1>2 DEF Q!H!IndexOf

(* heap_remove_item takes out what it found, if it does not crash.         *)
LEMMA RemoveItemKeeps ==
  ASSUME NEW h \in Seq(Q!Items), NEW x, Q!H!Equals(h, x) # {}, Distinct(h)
  PROVE  LET i == Q!H!IndexOf(h, x)
             g == Q!H!RemoveItem(h, x)
         IN  /\ g \in Seq(Q!Items) /\ Len(g) = Len(h) - 1 /\ Distinct(g)
             /\ Q!Contents(g) = Q!Contents(h) \ {h[i]} /\ h[i] \in Q!Contents(h)
<1> DEFINE i == Q!H!IndexOf(h, x)
           g == Q!H!MoveLastTo(h, i)
<1>1. i \in 1 .. Len(h) /\ Len(h) \in Nat
  BY IndexOfIs
<1>2. Q!H!RemoveItem(h, x) = IF i = Len(h) THEN SubSeq(h, 1, i - 1) ELSE Q!H!PushUp(g, i)
  BY DEF Q!H!RemoveItem
<1> HIDE DEF i
<1>3. /\ g \in Seq(Q!Items) /\ Len(g) = Len(h) - 1 /\ Distinct(g)
      /\ Q!Contents(g) = Q!Contents(h) \ {h[i]}
  BY <1>1, MoveLastKeeps
<1>4. h[i] \in Q!Contents(h)
  BY <1>1 DEF Q!Contents
<1>5. CASE i = Len(h)
  <2>1. [h EXCEPT ![i] = h[i]] = h
    OBVIOUS
  <2>2. g = SubSeq(h, 1, i - 1)
    BY <1>5, <2>1 DEF Q!H!MoveLastTo
  <2>3. QED
    BY <1>2, <1>3, <1>4, <1>5, <2>2 DEF i
<1>6. CASE i # Len(h)
  <2>1. i \in 1 .. Len(g)
    BY <1>1, <1>3, <1>6
  <2> HIDE DEF g
  <2>2. Q!H!PushUp(g, i) \in Rearranged(g)
    BY <1>3, <2>1, PushUpKeeps
  <2>3. QED
    BY <1>2, <1>3, <1>4, <1>6, <2>2 DEF Rearranged, i
<1>7. QED
  BY <1>5, <1>6

(* No item of a heap is above its root: the first one that were would be   *)
(* above its parent.                                                       *)
LEMMA RootIsTop ==
  ASSUME NEW h \in Seq(Q!Items), Q!H!IsHeap(h)
  PROVE  \A i \in 1 .. Len(h) : Under(h, i, 1)
<1> DEFINE Above == {i \in 1 .. Len(h) : ~Under(h, i, 1)}
<1>1. SUFFICES ASSUME Above # {} PROVE FALSE
  OBVIOUS
<1>2. \A i \in 1 .. Len(h) : h[i].rank \in Nat
  BY Ranks
<1>3. PICK i \in Above : \A k \in Above : i <= k
  <2>1. Above \subseteq Nat
    OBVIOUS
  <2> HIDE DEF Above
  <2>2. QED
    BY <1>1, <2>1, MinExists
<1>4. i \in 2 .. Len(h) /\ 1 \in 1 .. Len(h)
  <2>1. i # 1
    BY <1>2 DEF Under
  <2>2. QED
    BY <2>1
<1>5. i \div 2 \in 1 .. Len(h) /\ i \div 2 < i
  BY <1>4, Halves
<1>6. Under(h, i, i \div 2)
  BY <1>4, IsHeapMeans
<1>7. Under(h, i \div 2, 1)
  BY <1>3, <1>5
<1>8. Under(h, i, 1)
  BY <1>2, <1>4, <1>5, <1>6, <1>7 DEF Under
<1>9. QED
  BY <1>8
-----------------------------------------------------------------------------
(***************************************************************************)
(* The invariant of the heap.                                              *)
(***************************************************************************)
QInv ==
  /\ Q!TypeOK
  /\ Distinct(heap) /\ Q!Contents(heap) = held
  /\ IsFiniteSet(held) /\ Cardinality(held) = Len(heap)
  /\ Q!InOrder

(* The instance of the heap counts as this module does.                    *)
LEMMA SameSize == \A S : Q!Cardinality(S) = Cardinality(S)
BY DEF Q!Cardinality, Cardinality

(* The empty heap satisfies it.                                            *)
LEMMA QInit == Q!Init => QInv
<1> SUFFICES ASSUME Q!Init PROVE QInv
  OBVIOUS
<1>1. heap = <<>> /\ held = {} /\ out = Q!Nothing /\ removed = FALSE /\ crashed = FALSE
  BY DEF Q!Init
<1>2. Len(heap) = 0 /\ heap \in Seq(Q!Items)
  BY <1>1
<1>3. Q!TypeOK
  <2>1. Len(heap) <= MaxSize
    BY <1>2, Ranks
  <2>2. QED
    BY <1>1, <1>2, <2>1 DEF Q!TypeOK
<1>4. Distinct(heap) /\ Q!Contents(heap) = held
  BY <1>1, <1>2 DEF Distinct, Q!Contents
<1>5. Q!H!IsHeap(heap)
  BY <1>2 DEF Q!H!IsHeap
<1>6. IsFiniteSet(held) /\ Cardinality(held) = Len(heap)
  BY <1>1, <1>2, FS_EmptySet
<1>7. QED
  BY <1>3, <1>4, <1>5, <1>6 DEF QInv, Q!InOrder

(* heap_offer keeps it.                                                    *)
LEMMA QOffer ==
  ASSUME QInv, NEW x \in Q!Items, Q!HeapOffer(x)
  PROVE  QInv'
<1>1. /\ heap \in Seq(Q!Items) /\ Len(heap) \in Nat /\ Len(heap) < MaxSize
      /\ held \subseteq Q!Items /\ x \notin held
      /\ heap' = Q!H!Offer(heap, x) /\ held' = held \cup {x} /\ out' = Q!Nothing
      /\ UNCHANGED <<removed, crashed>>
  BY DEF QInv, Q!TypeOK, Q!HeapOffer
<1>2. /\ heap' \in Seq(Q!Items) /\ Len(heap') = Len(heap) + 1
      /\ Q!Contents(heap') = Q!Contents(heap) \cup {x}
      /\ Distinct(heap) /\ x \notin Q!Contents(heap) => Distinct(heap')
      /\ Q!H!IsHeap(heap) => Q!H!IsHeap(heap')
  BY <1>1, OfferKeeps
<1>3. Q!TypeOK'
  BY <1>1, <1>2, Ranks DEF QInv, Q!TypeOK
<1>4. IsFiniteSet(held') /\ Cardinality(held') = Cardinality(held) + 1
  BY <1>1, FS_AddElement DEF QInv
<1>5. (Q!InOrder)'
  BY <1>1, <1>2 DEF QInv, Q!InOrder
<1>6. QED
  BY <1>1, <1>2, <1>3, <1>4, <1>5 DEF QInv

(* What takes an item out leaves the others, and in order unless it was a  *)
(* removal by name.                                                        *)
LEMMA QLeaves ==
  ASSUME QInv, NEW x \in held, heap' \in Seq(Q!Items), Len(heap') = Len(heap) - 1,
         Distinct(heap'), Q!Contents(heap') = Q!Contents(heap) \ {x},
         held' = held \ {x}, out' = x, removed' \in BOOLEAN, UNCHANGED crashed,
         ~removed' => Q!H!IsHeap(heap')
  PROVE  QInv'
<1>1. heap \in Seq(Q!Items) /\ Len(heap) <= MaxSize /\ held \subseteq Q!Items /\ Len(heap) \in Nat
  BY DEF QInv, Q!TypeOK
<1>2. Q!TypeOK'
  BY <1>1, Ranks DEF QInv, Q!TypeOK
<1>3. IsFiniteSet(held') /\ Cardinality(held') = Cardinality(held) - 1
  BY FS_RemoveElement DEF QInv
<1>4. (Q!InOrder)'
  BY DEF Q!InOrder
<1>5. QED
  BY <1>1, <1>2, <1>3, <1>4 DEF QInv

(* heap_poll keeps it.                                                     *)
LEMMA QPoll ==
  ASSUME QInv, Q!HeapPoll
  PROVE  QInv'
<1>1. /\ heap \in Seq(Q!Items) /\ heap # <<>> /\ Distinct(heap)
      /\ out' = Head(heap) /\ heap' = Q!H!Poll(heap) /\ held' = held \ {out'}
      /\ UNCHANGED <<removed, crashed>>
      /\ removed \in BOOLEAN /\ Q!Contents(heap) = held
  BY DEF QInv, Q!TypeOK, Q!HeapPoll
<1>2. /\ heap' \in Seq(Q!Items) /\ Len(heap') = Len(heap) - 1 /\ Distinct(heap')
      /\ Q!Contents(heap') = Q!Contents(heap) \ {Head(heap)} /\ Head(heap) \in Q!Contents(heap)
      /\ Q!H!IsHeap(heap) => Q!H!IsHeap(heap')
  BY <1>1, PollKeeps
<1>3. ~removed' => Q!H!IsHeap(heap')
  BY <1>1, <1>2 DEF QInv, Q!InOrder
<1>4. QED
  BY <1>1, <1>2, <1>3, QLeaves

(* heap_remove_item keeps it, also where it crashes.                       *)
LEMMA QRemoveItem ==
  ASSUME QInv, NEW x \in Q!Items, Q!HeapRemoveItem(x)
  PROVE  QInv'
<1>1. /\ heap \in Seq(Q!Items) /\ Distinct(heap) /\ Q!Contents(heap) = held
      /\ Q!H!Equals(heap, x) # {} /\ removed' = TRUE
  BY DEF QInv, Q!TypeOK, Q!HeapRemoveItem
<1>2. CASE Q!H!ComparesNull(heap, x)
  <2>1. crashed' = TRUE /\ UNCHANGED <<heap, held, out>>
    BY <1>2 DEF Q!HeapRemoveItem
  <2>2. Q!TypeOK'
    BY <1>1, <2>1 DEF QInv, Q!TypeOK
  <2>3. QED
    BY <1>1, <2>1, <2>2 DEF QInv, Q!InOrder, Distinct, Q!Contents
<1>3. CASE ~Q!H!ComparesNull(heap, x)
  <2>1. /\ out' = heap[Q!H!IndexOf(heap, x)] /\ heap' = Q!H!RemoveItem(heap, x)
        /\ held' = held \ {out'} /\ UNCHANGED crashed
    BY <1>3 DEF Q!HeapRemoveItem
  <2>2. /\ heap' \in Seq(Q!Items) /\ Len(heap') = Len(heap) - 1 /\ Distinct(heap')
        /\ Q!Contents(heap') = Q!Contents(heap) \ {out'} /\ out' \in Q!Contents(heap)
    BY <1>1, <2>1, RemoveItemKeeps
  <2>3. QED
    BY <1>1, <2>1, <2>2, QLeaves
<1>4. QED
  BY <1>2, <1>3

(* The operations of the heap, and those of other parts, keep it.          *)
LEMMA QStep == QInv /\ [LibraryNext]_all => QInv'
<1> SUFFICES ASSUME QInv, [LibraryNext]_all PROVE QInv'
  OBVIOUS
<1>1. CASE Q!Next
  BY <1>1, QOffer, QPoll, QRemoveItem DEF Q!Next
<1>2. CASE UNCHANGED queue
  <2>1. UNCHANGED heap /\ UNCHANGED held /\ UNCHANGED out /\ UNCHANGED removed /\ UNCHANGED crashed
    BY <1>2 DEF queue
  <2>2. QED
    BY <2>1 DEF QInv, Q!TypeOK, Distinct, Q!Contents, Q!InOrder
<1>3. QED
  BY <1>1, <1>2 DEF LibraryNext, all

(* Whatever is offered, polled and removed, the heap holds the items put   *)
(* in and not yet returned, each once, and until the first removal by item *)
(* its parents are above their children (heap.h:92).                       *)
THEOREM HeapAlwaysSound == LibrarySpec => []HeapSound
<1>1. LibraryInit => QInv
  BY QInit DEF LibraryInit
<1>2. ASSUME QInv PROVE HeapSound
  <2>1. Q!HoldsItsItems
    BY <1>2, SameSize DEF QInv, Q!HoldsItsItems
  <2>2. Q!TypeOK /\ Q!InOrder
    BY <1>2 DEF QInv
  <2>3. QED
    BY <2>1, <2>2 DEF HeapSound
<1>3. QED
  BY <1>1, <1>2, QStep, PTL DEF LibrarySpec

(* So the item that heap_poll returns is one of the highest rank of all.   *)
THEOREM AlwaysPollsTop == LibrarySpec => PollsTop
<1>1. LibraryInit => QInv
  BY QInit DEF LibraryInit
<1>2. ASSUME QInv, Q!HeapPoll, ~removed
      PROVE  \A x \in held : x.rank <= out'.rank
  <2>1. heap \in Seq(Q!Items) /\ heap # <<>> /\ out' = Head(heap) /\ held = Q!Contents(heap)
        /\ Q!H!IsHeap(heap)
    BY <1>2 DEF QInv, Q!TypeOK, Q!HeapPoll, Q!InOrder
  <2>2. out' = heap[1]
    BY <2>1
  <2>3. \A i \in 1 .. Len(heap) : Under(heap, i, 1)
    BY <2>1, RootIsTop
  <2>4. QED
    BY <2>1, <2>2, <2>3 DEF Under, Q!Contents
<1>3. QInv => [Q!HeapPoll /\ ~removed => \A x \in held : x.rank <= out'.rank]_(Q!vars)
  BY <1>2
<1>4. QED
  BY <1>1, <1>3, QStep, PTL DEF LibrarySpec, PollsTop, Q!PollsTop

-----------------------------------------------------------------------------
(***************************************************************************)
(* Times: a pair of seconds and nanoseconds is a number of nanoseconds,    *)
(* which every operation keeps exact.                                      *)
(***************************************************************************)
Timespecs == [sec : Int, nsec : Int]
Normalised(t) == t \in Timespecs /\ t.nsec \in 0 .. NSec - 1

(* What is known of the units.                                             *)
LEMMA Units ==
  /\ NSec \in Nat \ {0} /\ MSec \in Nat \ {0} /\ USec \in Nat \ {0} /\ MaxSec \in Nat
  /\ Operands \subseteq Timespecs
BY TimesAssumption DEF N!TimesParameters, Timespecs

(* C's division: the rest is smaller than the divisor.                     *)
LEMMA QuotRem ==
  ASSUME NEW a \in Int, NEW b \in Nat \ {0}
  PROVE  /\ N!Quot(a, b) \in Int /\ N!Rem(a, b) \in Int
         /\ a = b * N!Quot(a, b) + N!Rem(a, b)
         /\ a >= 0 => N!Rem(a, b) \in 0 .. b - 1
         /\ a < 0 => N!Rem(a, b) \in -(b - 1) .. 0
<1>1. CASE a >= 0
  <2>1. N!Quot(a, b) = a \div b /\ N!Rem(a, b) = a - b * (a \div b)
    BY <1>1 DEF N!Quot, N!Rem
  <2>2. a \div b \in Int /\ a % b \in 0 .. b - 1 /\ a % b = a - b * (a \div b)
    BY Division
  <2>3. QED
    BY <1>1, <2>1, <2>2
<1>2. CASE a < 0
  <2> DEFINE c == -a
             q == c \div b
  <2>1. N!Quot(a, b) = -q /\ N!Rem(a, b) = a - b * (-q)
    BY <1>2 DEF N!Quot, N!Rem
  <2>2. c \in Int /\ c = -a
    OBVIOUS
  <2>3. q \in Int /\ c % b \in 0 .. b - 1 /\ c % b = c - b * q
    BY <2>2, Division
  <2> HIDE DEF q, c
  <2>4. b * (-q) = -(b * q) /\ b * q \in Int
    BY <2>3
  <2>5. QED
    BY <1>2, <2>1, <2>2, <2>3, <2>4
<1>3. QED
  BY <1>1, <1>2

(* timespec_normalise keeps the value, and brings the nanoseconds in range.*)
LEMMA NormaliseIs ==
  ASSUME NEW t \in Timespecs
  PROVE  Normalised(N!Normalise(t)) /\ N!Value(N!Normalise(t)) = N!Value(t)
<1> DEFINE q == N!Quot(t.nsec, NSec)
           r == N!Rem(t.nsec, NSec)
<1>1. t.sec \in Int /\ t.nsec \in Int /\ NSec \in Nat \ {0}
  BY Units DEF Timespecs
<1>2. q \in Int /\ r \in Int /\ t.nsec = NSec * q + r /\ r \in -(NSec - 1) .. NSec - 1
  <2>1. /\ q \in Int /\ r \in Int /\ t.nsec = NSec * q + r
        /\ t.nsec >= 0 => r \in 0 .. NSec - 1
        /\ t.nsec < 0 => r \in -(NSec - 1) .. 0
    BY <1>1, QuotRem
  <2> HIDE DEF q, r
  <2>2. QED
    BY <1>1, <2>1
<1> HIDE DEF q, r
<1>3. N!Normalise(t) = IF r < 0 THEN N!T((t.sec + q) - 1, NSec + r) ELSE N!T(t.sec + q, r)
  <2>1. \A x, y : N!T(x, y).sec = x /\ N!T(x, y).nsec = y
    BY DEF N!T
  <2>2. N!Normalise(t) = LET u == N!T(t.sec + q, r)
                         IN  IF u.nsec < 0 THEN N!T(u.sec - 1, NSec + u.nsec) ELSE u
    BY DEF N!Normalise, q, r
  <2>3. QED
    BY <2>1, <2>2
<1>4. (t.sec + q) * NSec + r = t.sec * NSec + t.nsec
  BY <1>1, <1>2
<1>5. ((t.sec + q) - 1) * NSec + (NSec + r) = t.sec * NSec + t.nsec
  BY <1>1, <1>2
<1>6. QED
  BY <1>1, <1>2, <1>3, <1>4, <1>5 DEF Normalised, Timespecs, N!T, N!Value

(* Times in range are ordered as pairs.                                    *)
LEMMA Pairs ==
  ASSUME NEW a, NEW b, Normalised(a), Normalised(b)
  PROVE  /\ a.sec < b.sec => N!Value(a) < N!Value(b)
         /\ a.sec = b.sec => (a.nsec < b.nsec <=> N!Value(a) < N!Value(b))
         /\ a = b <=> N!Value(a) = N!Value(b)
         /\ N!Value(a) \in Int /\ a.sec \in Int /\ a.nsec \in Int
<1>1. /\ a.sec \in Int /\ b.sec \in Int /\ NSec \in Nat
      /\ a.nsec \in 0 .. NSec - 1 /\ b.nsec \in 0 .. NSec - 1
  BY Units DEF Normalised, Timespecs
<1>2. a.sec * NSec \in Int /\ b.sec * NSec \in Int
  BY <1>1, Products
<1>3. /\ a.sec < b.sec => a.sec * NSec + NSec <= b.sec * NSec
      /\ b.sec < a.sec => b.sec * NSec + NSec <= a.sec * NSec
  BY <1>1, Products
<1>4. a = b <=> a.sec = b.sec /\ a.nsec = b.nsec
  BY DEF Normalised, Timespecs
<1>5. /\ a.sec < b.sec => N!Value(a) < N!Value(b)
      /\ b.sec < a.sec => N!Value(b) < N!Value(a)
  BY <1>1, <1>2, <1>3 DEF N!Value
<1>6. a.sec = b.sec => /\ a.nsec < b.nsec <=> N!Value(a) < N!Value(b)
                       /\ a.nsec = b.nsec <=> N!Value(a) = N!Value(b)
  BY <1>1, <1>2 DEF N!Value
<1>7. N!Value(a) \in Int /\ N!Value(b) \in Int
  BY <1>1, <1>2 DEF N!Value
<1>8. a = b <=> N!Value(a) = N!Value(b)
  BY <1>1, <1>4, <1>5, <1>6, <1>7
<1>9. QED
  BY <1>1, <1>5, <1>6, <1>7, <1>8

(* timespec_gt, timespec_ge, timespec_lt, timespec_le, timespec_eq and     *)
(* timespec_cmp compare the values.                                        *)
LEMMA Comparisons ==
  ASSUME NEW t \in Timespecs, NEW u \in Timespecs
  PROVE  /\ N!Value(t) \in Int /\ N!Value(u) \in Int
         /\ N!Gt(t, u) <=> N!Value(t) > N!Value(u)
         /\ N!Ge(t, u) <=> N!Value(t) >= N!Value(u)
         /\ N!Lt(t, u) <=> N!Value(t) < N!Value(u)
         /\ N!Le(t, u) <=> N!Value(t) <= N!Value(u)
         /\ N!Eq(t, u) <=> N!Value(t) = N!Value(u)
<1> DEFINE a == N!Normalise(t)
           b == N!Normalise(u)
           v == N!Value(t)
           w == N!Value(u)
<1>1. Normalised(a) /\ Normalised(b) /\ N!Value(a) = v /\ N!Value(b) = w
  BY NormaliseIs
<1> DEFINE gt == a.sec > b.sec \/ (a.sec = b.sec /\ a.nsec > b.nsec)
           ge == a.sec > b.sec \/ (a.sec = b.sec /\ a.nsec >= b.nsec)
           lt == a.sec < b.sec \/ (a.sec = b.sec /\ a.nsec < b.nsec)
           le == a.sec < b.sec \/ (a.sec = b.sec /\ a.nsec <= b.nsec)
<1>2. /\ N!Gt(t, u) <=> gt
      /\ N!Ge(t, u) <=> ge
      /\ N!Lt(t, u) <=> lt
      /\ N!Le(t, u) <=> le
      /\ N!Eq(t, u) <=> a = b
  BY DEF N!Gt, N!Ge, N!Lt, N!Le, N!Eq
<1> HIDE DEF a, b, v, w
<1>3. /\ a.sec < b.sec => v < w
      /\ b.sec < a.sec => w < v
      /\ a.sec = b.sec => (a.nsec < b.nsec <=> v < w)
      /\ a.sec = b.sec => (b.nsec < a.nsec <=> w < v)
      /\ a = b <=> v = w
      /\ v \in Int /\ w \in Int /\ {a.sec, b.sec, a.nsec, b.nsec} \subseteq Int
  BY <1>1, Pairs
<1>4. /\ gt <=> v > w
      /\ ge <=> v >= w
      /\ lt <=> v < w
      /\ le <=> v <= w
  BY <1>3
<1>5. QED
  BY <1>2, <1>3, <1>4 DEF v, w

(* timespec_add and timespec_sub.                                          *)
LEMMA SumsExact ==
  ASSUME NEW t \in Timespecs, NEW u \in Timespecs
  PROVE  /\ Normalised(N!Add(t, u)) /\ N!Value(N!Add(t, u)) = N!Value(t) + N!Value(u)
         /\ Normalised(N!Sub(t, u)) /\ N!Value(N!Sub(t, u)) = N!Value(t) - N!Value(u)
<1> DEFINE a == N!Normalise(t)
           b == N!Normalise(u)
           s == N!T(a.sec + b.sec, a.nsec + b.nsec)
           d == N!T(a.sec - b.sec, a.nsec - b.nsec)
<1>1. Normalised(a) /\ Normalised(b) /\ N!Value(a) = N!Value(t) /\ N!Value(b) = N!Value(u)
  BY NormaliseIs
<1>2. N!Add(t, u) = N!Normalise(s) /\ N!Sub(t, u) = N!Normalise(d)
  BY DEF N!Add, N!Sub
<1> HIDE DEF a, b
<1>3. {a.sec, b.sec, a.nsec, b.nsec} \subseteq Int /\ NSec \in Int
  BY <1>1, Units DEF Normalised, Timespecs
<1>4. s \in Timespecs /\ d \in Timespecs
  BY <1>3 DEF N!T, Timespecs
<1>5. /\ (a.sec + b.sec) * NSec = a.sec * NSec + b.sec * NSec
      /\ (a.sec - b.sec) * NSec = a.sec * NSec - b.sec * NSec
      /\ a.sec * NSec \in Int /\ b.sec * NSec \in Int
  BY <1>3
<1>6. N!Value(s) = N!Value(a) + N!Value(b) /\ N!Value(d) = N!Value(a) - N!Value(b)
  BY <1>3, <1>5 DEF N!Value, N!T
<1>7. QED
  BY <1>1, <1>2, <1>4, <1>6, NormaliseIs
-----------------------------------------------------------------------------
(* Double and Halve: twice the value, and back to the same pair.           *)
LEMMA DoubleIs ==
  ASSUME NEW u \in Timespecs
  PROVE  /\ N!Double(u) \in Timespecs /\ N!Value(N!Double(u)) = 2 * N!Value(u)
         /\ N!Halve(N!Double(u)) = u
<1>1. u.sec \in Int /\ u.nsec \in Int /\ NSec \in Nat \ {0} /\ u = N!T(u.sec, u.nsec)
  BY Units DEF Timespecs, N!T
<1> DEFINE s == u.sec
           n == u.nsec
<1>2. /\ (2 * s + 1) * NSec = 2 * (s * NSec) + NSec
      /\ (2 * s) * NSec = 2 * (s * NSec)
      /\ s * NSec \in Int
  BY <1>1
<1>3. /\ (2 * s + 1) \div 2 = s /\ (2 * s + 1) % 2 = 1 /\ (2 * s) \div 2 = s /\ (2 * s) % 2 = 0
      /\ (2 * n - NSec + 1 * NSec) \div 2 = n /\ (2 * n + 0 * NSec) \div 2 = n
  <2>1. (2 * n - NSec) + 1 * NSec = 2 * n /\ 2 * n + 0 * NSec = 2 * n
    BY <1>1
  <2>2. (2 * n) \div 2 = n
    BY <1>1
  <2>3. (2 * s + 1) \div 2 = s /\ (2 * s + 1) % 2 = 1 /\ (2 * s) \div 2 = s /\ (2 * s) % 2 = 0
    BY <1>1
  <2>4. QED
    BY <2>1, <2>2, <2>3
<1> HIDE DEF s, n
<1>4. CASE 2 * n > NSec
  <2>1. N!Double(u) = N!T(2 * s + 1, 2 * n - NSec)
    BY <1>4 DEF N!Double, s, n
  <2>2. N!Halve(N!T(2 * s + 1, 2 * n - NSec)) = N!T(s, n)
    BY <1>3 DEF N!Halve, N!T
  <2>3. QED
    BY <1>1, <1>2, <2>1, <2>2 DEF N!Value, N!T, Timespecs, s, n
<1>5. CASE ~(2 * n > NSec)
  <2>1. N!Double(u) = N!T(2 * s, 2 * n)
    BY <1>5 DEF N!Double, s, n
  <2>2. N!Halve(N!T(2 * s, 2 * n)) = N!T(s, n)
    BY <1>3 DEF N!Halve, N!T
  <2>3. QED
    BY <1>1, <1>2, <2>1, <2>2 DEF N!Value, N!T, Timespecs, s, n
<1>6. QED
  BY <1>4, <1>5

(* Doubled: the multiples of u by the powers of two.  They grow, and each  *)
(* is half of the next.                                                    *)
LEMMA DoubledIs ==
  ASSUME NEW u \in Timespecs, N!Value(u) > 0
  PROVE  LET d == N!Doubled(u)
             last == MaxSec * NSec
         IN  /\ d[0] = u /\ last \in Nat
             /\ \A i \in 0 .. last : /\ d[i] \in Timespecs /\ N!Value(d[i]) > i
                                     /\ \E q \in Int : N!Value(d[i]) = q * N!Value(u)
             /\ \A i \in 1 .. last : /\ N!Value(d[i]) = 2 * N!Value(d[i - 1])
                                     /\ N!Halve(d[i]) = d[i - 1]
<1> DEFINE last == MaxSec * NSec
           w == N!Value(u)
           step == [s \in Timespecs |-> N!Double(s)]
           R(r) == r = [i \in 0 .. last |-> IF i = 0 THEN u ELSE N!Double(r[i - 1])]
           d == CHOOSE r : R(r)
<1>1. last \in Nat /\ w \in Int /\ N!Rounds = 0 .. last
  BY Units, Comparisons DEF N!Rounds
<1>2. step \in [Timespecs -> Timespecs]
  BY DoubleIs
<1> HIDE DEF last
<1>3. PICK g : Iterates(g, Timespecs, u, step, last)
  <2> HIDE DEF step
  <2>1. QED
    BY <1>1, <1>2, IterationExists
<1>4. \A i \in 1 .. last : i - 1 \in 0 .. last
  BY <1>1
<1>5. R(g)
  <2>1. \A i \in 1 .. last : g[i - 1] \in Timespecs
    BY <1>3, <1>4 DEF Iterates
  <2>2. \A i \in 1 .. last : g[i] = N!Double(g[i - 1])
    BY <1>3, <2>1 DEF Iterates
  <2>3. \A i \in 0 .. last : i # 0 => i \in 1 .. last
    BY <1>1
  <2>4. QED
    BY <1>3, <2>2, <2>3 DEF Iterates
<1>6. R(d)
  <2> HIDE DEF R
  <2>1. QED
    BY <1>5
<1>7. N!Doubled(u) = d
  BY <1>1 DEF N!Doubled
<1> HIDE DEF d
<1>8. d[0] = u /\ \A i \in 1 .. last : d[i] = N!Double(d[i - 1])
  BY <1>1, <1>6
<1> DEFINE P == {i \in 0 .. last : /\ d[i] \in Timespecs /\ N!Value(d[i]) > i
                                   /\ \E q \in Int : N!Value(d[i]) = q * w}
<1>9. 0 \in P
  <2>1. w = 1 * w
    BY <1>1
  <2>2. QED
    BY <1>1, <1>8, <2>1
<1>10. ASSUME NEW i \in 1 .. last, i - 1 \in P
       PROVE  i \in P
  <2>1. d[i] \in Timespecs /\ N!Value(d[i]) = 2 * N!Value(d[i - 1]) /\ N!Value(d[i - 1]) > i - 1
    BY <1>8, <1>10, DoubleIs
  <2>2. N!Value(d[i - 1]) \in Int
    BY <1>10, Comparisons
  <2>3. PICK q \in Int : N!Value(d[i - 1]) = q * w
    BY <1>10
  <2>4. 2 * q \in Int /\ 2 * (q * w) = (2 * q) * w
    BY <1>1
  <2>5. QED
    BY <1>1, <2>1, <2>2, <2>3, <2>4
<1>11. 0 .. last \subseteq P
  <2> HIDE DEF P
  <2>1. QED
    BY <1>1, <1>9, <1>10, StepByStep
<1>12. ASSUME NEW i \in 1 .. last
       PROVE  N!Value(d[i]) = 2 * N!Value(d[i - 1]) /\ N!Halve(d[i]) = d[i - 1]
  <2>1. d[i - 1] \in Timespecs
    BY <1>4, <1>11
  <2>2. QED
    BY <1>8, <2>1, DoubleIs
<1>13. QED
  BY <1>1, <1>7, <1>8, <1>11, <1>12 DEF last, w

(* The first doubling that exceeds t, which has not more than MaxSec       *)
(* seconds.                                                                *)
LEMMA ShiftsIs ==
  ASSUME NEW t \in Timespecs, NEW u \in Timespecs, N!Value(u) > 0,
         N!Value(t) <= MaxSec * NSec
  PROVE  LET n == N!Shifts(t, u)
         IN  n \in 0 .. MaxSec * NSec /\ N!Value(t) < N!Value(N!Doubled(u)[n])
<1> DEFINE last == MaxSec * NSec
           d == N!Doubled(u)
           Beyond == {i \in 0 .. last : ~N!Ge(t, d[i])}
<1>1. /\ last \in Nat /\ N!Value(t) \in Int /\ N!Rounds = 0 .. last /\ N!Value(t) <= last
      /\ \A i \in 0 .. last : d[i] \in Timespecs /\ N!Value(d[i]) > i
  BY DoubledIs, Comparisons, Units DEF N!Rounds
<1> HIDE DEF last, d
<1>2. \A i \in 0 .. last : N!Value(d[i]) \in Int /\ (N!Ge(t, d[i]) <=> N!Value(t) >= N!Value(d[i]))
  BY <1>1, Comparisons
<1>3. last \in Beyond
  BY <1>1, <1>2
<1>4. PICK i \in Beyond : \A j \in Beyond : i <= j
  <2>1. Beyond \subseteq Nat
    OBVIOUS
  <2> HIDE DEF Beyond
  <2>2. QED
    BY <1>3, <2>1, MinExists
<1>5. \E n \in N!Rounds : ~N!Ge(t, d[n]) /\ \A j \in 0 .. n - 1 : N!Ge(t, d[j])
  <2>1. \A j \in 0 .. i - 1 : N!Ge(t, d[j])
    BY <1>1, <1>4
  <2>2. QED
    BY <1>1, <1>4, <2>1
<1>6. N!Shifts(t, u) \in N!Rounds /\ ~N!Ge(t, d[N!Shifts(t, u)])
  BY <1>5 DEF N!Shifts, d
<1>7. QED
  BY <1>1, <1>2, <1>6 DEF d, last

(* timespec_mod's loop: what is left is smaller than u, and differs from t *)
(* by a multiple of it.                                                    *)
LEMMA ReduceIs ==
  ASSUME NEW t \in Timespecs, NEW u \in Timespecs, N!Value(u) > 0,
         N!Value(t) \in 0 .. MaxSec * NSec
  PROVE  LET r == N!Reduce(t, u)
         IN  /\ r.div = u /\ r.rest \in Timespecs /\ (r.rest = t \/ Normalised(r.rest))
             /\ N!Value(r.rest) \in 0 .. N!Value(u) - 1
             /\ \E q \in Int : N!Value(t) = N!Value(u) * q + N!Value(r.rest)
<1> DEFINE v == N!Value(t)
           w == N!Value(u)
           n == N!Shifts(t, u)
           d == N!Doubled(u)
           X == [rest : Timespecs, div : Timespecs]
           Less(b) == [b EXCEPT !.rest = IF N!Ge(@, b.div) THEN N!Sub(@, b.div) ELSE @]
           first == Less([rest |-> t, div |-> d[n]])
           Then(x) == Less([rest |-> x.rest, div |-> N!Halve(x.div)])
           step == [x \in X |-> Then(x)]
           R(r) == r = [i \in 0 .. n |->
                          LET before == IF i = n THEN [rest |-> t, div |-> d[n]]
                                        ELSE [rest |-> r[i + 1].rest, div |-> N!Halve(r[i + 1].div)]
                          IN  Less(before)]
           s == CHOOSE r : R(r)
<1>1. v \in Nat /\ w \in Int /\ w > 0
  BY Comparisons
<1>2. /\ n \in Nat /\ d[n] \in Timespecs /\ v < N!Value(d[n]) /\ N!Value(d[n]) \in Int
      /\ \A i \in 0 .. n : d[i] \in Timespecs
      /\ \A i \in 1 .. n : N!Value(d[i]) = 2 * N!Value(d[i - 1]) /\ N!Halve(d[i]) = d[i - 1]
      /\ \A i \in 0 .. n : \E q \in Int : N!Value(d[i]) = q * w
      /\ d[0] = u
  <2>1. /\ n \in 0 .. MaxSec * NSec /\ v < N!Value(d[n]) /\ MaxSec * NSec \in Nat
    BY ShiftsIs, DoubledIs
  <2>2. \A i \in 0 .. n : i \in 0 .. MaxSec * NSec
    BY <2>1
  <2>3. \A i \in 1 .. n : i \in 1 .. MaxSec * NSec
    BY <2>1
  <2> HIDE DEF n, d, v
  <2>4. QED
    BY <2>1, <2>2, <2>3, DoubledIs, Comparisons DEF d
<1> HIDE DEF n, d
<1>3. ASSUME NEW x \in X
      PROVE  Less(x) \in X /\ Less(x).div = x.div
             /\ Less(x).rest = IF N!Value(x.rest) >= N!Value(x.div) THEN N!Sub(x.rest, x.div) ELSE x.rest
  <2>1. N!Ge(x.rest, x.div) <=> N!Value(x.rest) >= N!Value(x.div)
    BY Comparisons
  <2>2. N!Sub(x.rest, x.div) \in Timespecs
    BY SumsExact DEF Normalised
  <2>3. QED
    BY <2>1, <2>2
<1>4. ASSUME NEW x \in Timespecs PROVE N!Halve(x) \in Timespecs
  <2>1. x.sec \in Int /\ x.nsec \in Int /\ NSec \in Int
    BY Units DEF Timespecs
  <2>2. x.sec \div 2 \in Int /\ x.sec % 2 \in Int /\ (x.sec % 2) * NSec \in Int
    BY <2>1
  <2>3. (x.nsec + (x.sec % 2) * NSec) \div 2 \in Int
    BY <2>1, <2>2
  <2>4. QED
    BY <2>2, <2>3 DEF N!Halve, N!T, Timespecs
<1>5. first \in X /\ first.div = d[n] /\ first.rest = t
  <2> DEFINE x == [rest |-> t, div |-> d[n]]
  <2>1. x \in X /\ x.rest = t /\ x.div = d[n]
    BY <1>2
  <2> HIDE DEF x, Less
  <2>2. first = Less(x)
    BY DEF x
  <2>3. QED
    BY <1>1, <1>2, <1>3, <2>1, <2>2
<1>6. ASSUME NEW x \in X
      PROVE  LET h == N!Halve(x.div)
             IN  /\ Then(x) \in X /\ Then(x).div = h
                 /\ Then(x).rest = IF N!Value(x.rest) >= N!Value(h) THEN N!Sub(x.rest, h) ELSE x.rest
  <2> DEFINE y == [rest |-> x.rest, div |-> N!Halve(x.div)]
  <2>1. y \in X /\ y.rest = x.rest /\ y.div = N!Halve(x.div)
    BY <1>4
  <2> HIDE DEF y, Less
  <2>2. Then(x) = Less(y)
    BY DEF y
  <2>3. QED
    BY <1>3, <2>1, <2>2
<1>7. N!Reduce(t, u) = s[0]
  BY DEF N!Reduce, n, d
<1> HIDE DEF Less
<1>8. PICK g : Iterates(g, X, first, step, n)
  <2>1. step \in [X -> X]
    BY <1>6
  <2> HIDE DEF step, X
  <2>2. QED
    BY <1>2, <1>5, <2>1, IterationExists
<1> HIDE DEF s
<1>9. R(s) /\ \A r : R(r) => \A i \in 0 .. n : r[i] = IF i = n THEN first ELSE Then(r[i + 1])
  <2> DEFINE f == [i \in 0 .. n |-> g[n - i]]
  <2>1. \A i \in 0 .. n : n - i \in 0 .. n /\ (i # n => i + 1 \in 0 .. n /\ n - i \in 1 .. n
                                                       /\ n - (i + 1) = (n - i) - 1)
    BY <1>2
  <2>2. \A k \in 1 .. n : g[k] = Then(g[k - 1])
    <3>1. \A k \in 1 .. n : g[k - 1] \in X
      BY <1>2, <1>8 DEF Iterates
    <3>2. QED
      BY <1>8, <3>1 DEF Iterates
  <2>3. g[0] = first
    BY <1>8 DEF Iterates
  <2>4. \A i \in 0 .. n : f[i] = IF i = n THEN first ELSE Then(f[i + 1])
    <3> HIDE DEF first, Then
    <3>1. QED
      BY <1>2, <2>1, <2>2, <2>3
  <2>5. R(f)
    BY <2>4
  <2>6. \A r : R(r) => \A i \in 0 .. n : r[i] = IF i = n THEN first ELSE Then(r[i + 1])
    OBVIOUS
  <2> HIDE DEF R, f
  <2>7. QED
    BY <2>5, <2>6 DEF s
<1>10. s[n] = first /\ \A i \in 0 .. n : i # n => s[i] = Then(s[i + 1])
  <2> HIDE DEF R, first, Then
  <2>1. \A i \in 0 .. n : s[i] = IF i = n THEN first ELSE Then(s[i + 1])
    BY <1>9
  <2>2. QED
    BY <1>2, <2>1
<1> HIDE DEF R, first, Then
<1> DEFINE Good(x, i) == /\ x \in X /\ x.div = d[i]
                         /\ x.rest = t \/ Normalised(x.rest)
                         /\ N!Value(x.rest) \in 0 .. N!Value(d[i]) - 1
                         /\ \E q \in Int : v = w * q + N!Value(x.rest)
           P == {k \in 0 .. n : Good(s[n - k], n - k)}
<1>11. 0 \in P
  <2>1. v = w * 0 + v /\ n - 0 = n
    BY <1>1, <1>2
  <2>2. QED
    BY <1>1, <1>2, <1>5, <1>10, <2>1
<1>12. ASSUME NEW k \in 1 .. n, k - 1 \in P
       PROVE  k \in P
  <2> DEFINE i == n - k
             x == s[i + 1]
             y == s[i]
  <2>1. i \in 0 .. n /\ i + 1 \in 1 .. n /\ i # n /\ n - (k - 1) = i + 1 /\ (i + 1) - 1 = i
    BY <1>2
  <2>2. Good(x, i + 1)
    BY <1>12, <2>1
  <2>3. y = Then(x)
    BY <1>10, <2>1
  <2> HIDE DEF i, x, y
  <2>4. /\ N!Value(d[i + 1]) = 2 * N!Value(d[i]) /\ N!Halve(x.div) = d[i]
        /\ d[i] \in Timespecs /\ N!Value(d[i]) \in Int
    BY <1>2, <2>1, <2>2, Comparisons
  <2>5. y \in X /\ y.div = d[i]
        /\ y.rest = IF N!Value(x.rest) >= N!Value(d[i]) THEN N!Sub(x.rest, d[i]) ELSE x.rest
    BY <1>6, <2>2, <2>3, <2>4
  <2>6. CASE N!Value(x.rest) >= N!Value(d[i])
    <3>1. Normalised(y.rest) /\ N!Value(y.rest) = N!Value(x.rest) - N!Value(d[i])
      BY <2>2, <2>4, <2>5, <2>6, SumsExact
    <3>2. PICK q \in Int : v = w * q + N!Value(x.rest)
      BY <2>2
    <3>3. PICK e \in Int : N!Value(d[i]) = e * w
      BY <1>2, <2>1
    <3>4. q + e \in Int /\ v = w * (q + e) + N!Value(y.rest)
      <4>1. N!Value(x.rest) \in Int
        BY <2>2
      <4>2. w * (q + e) = w * q + e * w
        BY <1>1
      <4>3. QED
        BY <1>1, <3>1, <3>2, <3>3, <4>1, <4>2
    <3>5. N!Value(y.rest) \in 0 .. N!Value(d[i]) - 1
      BY <2>2, <2>4, <2>6, <3>1
    <3>6. Good(y, i)
      BY <2>5, <3>1, <3>4, <3>5
    <3>7. QED
      BY <2>1, <3>6 DEF y, i
  <2>7. CASE ~(N!Value(x.rest) >= N!Value(d[i]))
    <3>1. y.rest = x.rest /\ N!Value(x.rest) \in 0 .. N!Value(d[i]) - 1
      BY <2>2, <2>4, <2>5, <2>7
    <3>2. Good(y, i)
      BY <2>2, <2>5, <3>1
    <3>3. QED
      BY <2>1, <3>2 DEF y, i
  <2>8. QED
    BY <2>6, <2>7
<1>13. n \in P
  <2> HIDE DEF P
  <2>1. 0 .. n \subseteq P
    BY <1>2, <1>11, <1>12, StepByStep
  <2>2. QED
    BY <1>2, <2>1
<1>14. Good(s[0], 0)
  BY <1>2, <1>13
<1>15. QED
  BY <1>2, <1>7, <1>14
-----------------------------------------------------------------------------
(* Changing the sign.                                                      *)
LEMMA FlipIs ==
  ASSUME NEW t \in Timespecs
  PROVE  N!Flip(t) \in Timespecs /\ N!Value(N!Flip(t)) = -N!Value(t)
<1>1. t.sec \in Int /\ t.nsec \in Int /\ NSec \in Int
  BY Units DEF Timespecs
<1>2. (-t.sec) * NSec = -(t.sec * NSec) /\ t.sec * NSec \in Int
  BY <1>1
<1>3. QED
  BY <1>1, <1>2 DEF N!Flip, N!T, N!Value, Timespecs

(* Times in range have the sign of their seconds, and are 0 in one way.    *)
LEMMA AbsIs ==
  ASSUME NEW a, Normalised(a)
  PROVE  /\ N!Negative(a) <=> N!Value(a) < 0
         /\ a = N!T(0, 0) <=> N!Value(a) = 0
         /\ N!Abs(a) \in Timespecs
         /\ N!Value(N!Abs(a)) = IF N!Value(a) < 0 THEN -N!Value(a) ELSE N!Value(a)
         /\ N!Abs(a) = N!T(0, 0) <=> N!Value(a) = 0
<1> DEFINE zero == N!T(0, 0)
<1>1. Normalised(zero) /\ N!Value(zero) = 0 /\ zero.sec = 0 /\ zero.nsec = 0
  BY Units DEF N!T, Normalised, Timespecs, N!Value
<1>2. a.sec \in Int /\ a.nsec \in 0 .. NSec - 1 /\ N!Value(a) \in Int /\ a \in Timespecs
  BY Pairs DEF Normalised, Timespecs
<1> HIDE DEF zero
<1>3. a.sec < 0 <=> N!Value(a) < 0
  <2>1. a.sec < 0 => N!Value(a) < 0
    BY <1>1, Pairs
  <2>2. 0 < a.sec => 0 < N!Value(a)
    BY <1>1, Pairs
  <2>3. a.sec = 0 => ~(N!Value(a) < 0)
    BY <1>1, <1>2, Pairs
  <2>4. QED
    BY <1>2, <2>1, <2>2, <2>3
<1>4. N!Negative(a) <=> N!Value(a) < 0
  BY <1>2, <1>3 DEF N!Negative
<1>5. a = zero <=> N!Value(a) = 0
  BY <1>1, Pairs
<1>6. CASE N!Value(a) < 0
  <2>1. N!Abs(a) = N!Flip(a) /\ N!Flip(a) \in Timespecs /\ N!Value(N!Flip(a)) = -N!Value(a)
    BY <1>2, <1>4, <1>6, FlipIs DEF N!Abs
  <2>2. N!Abs(a) # zero
    BY <1>1, <1>2, <1>6, <2>1
  <2>3. QED
    BY <1>2, <1>4, <1>5, <1>6, <2>1, <2>2 DEF zero
<1>7. CASE ~(N!Value(a) < 0)
  BY <1>2, <1>4, <1>5, <1>7 DEF N!Abs, zero
<1>8. QED
  BY <1>6, <1>7

(* The size of a number; the rest of one by another in size; and how the   *)
(* rest becomes the remainder, rounded down.                               *)
Size(v) == IF v < 0 THEN -v ELSE v
Signed(v, w, r) ==
  LET c == IF (v < 0 <=> w < 0) \/ r = 0 THEN r ELSE r - Size(w)
  IN  IF v < 0 THEN -c ELSE c

(* That is the reference.                                                  *)
LEMMA FlooredIs ==
  ASSUME NEW v \in Int, NEW w \in Int, w # 0, NEW q \in Int, NEW r \in Int, Divided(Size(v), Size(w), q, r)
  PROVE  N!Floored(v, w) = Signed(v, w, r)
<1> DEFINE x == Size(v)
           y == Size(w)
<1>1. /\ x \in Int /\ y \in Nat \ {0} /\ x = y * q + r /\ r \in 0 .. y - 1
      /\ x = IF v < 0 THEN -v ELSE v
      /\ y = IF w < 0 THEN -w ELSE w
  BY DEF Divided, Size
<1>11. Signed(v, w, r) = LET c == IF (v < 0 <=> w < 0) \/ r = 0 THEN r ELSE r - y
                         IN  IF v < 0 THEN -c ELSE c
  BY DEF Signed
<1> HIDE DEF x, y
<1>2. x \div y = q
  <2>1. Divided(x, y, q, r)
    BY <1>1 DEF Divided
  <2>2. QED
    BY <1>1, <2>1, OneQuotient
<1>3. /\ y * (-q) = -(y * q) /\ y * (-q - 1) = -(y * q) - y
      /\ y * q \in Int
  BY <1>1
<1>4. -x = IF r = 0 THEN y * (-q) + 0 ELSE y * (-q - 1) + (y - r)
  BY <1>1, <1>3
<1>5. (-x) \div y = IF r = 0 THEN -q ELSE -q - 1
  <2>1. CASE r = 0
    <3>1. -x \in Int /\ -q \in Int /\ Divided(-x, y, -q, 0)
      BY <1>1, <1>4, <2>1 DEF Divided
    <3>2. QED
      BY <1>1, <2>1, <3>1, OneQuotient
  <2>2. CASE r # 0
    <3>1. -x \in Int /\ -q - 1 \in Int /\ y - r \in Int /\ Divided(-x, y, -q - 1, y - r)
      BY <1>1, <1>4, <2>2 DEF Divided
    <3>2. QED
      BY <1>1, <2>2, <3>1, OneQuotient
  <2>3. QED
    BY <2>1, <2>2
<1>6. CASE w > 0 /\ v >= 0
  <2>1. N!Floored(v, w) = v - w * (v \div w) /\ x = v /\ y = w
    BY <1>1, <1>6 DEF N!Floored
  <2>2. QED
    BY <1>1, <1>2, <1>3, <1>6, <1>11, <2>1
<1>7. CASE w > 0 /\ v < 0
  <2>1. N!Floored(v, w) = v - w * (v \div w) /\ -x = v /\ y = w
    BY <1>1, <1>7 DEF N!Floored
  <2>2. QED
    BY <1>1, <1>3, <1>5, <1>7, <1>11, <2>1
<1>8. CASE w < 0 /\ v >= 0
  <2>1. N!Floored(v, w) = v - w * ((-v) \div (-w)) /\ x = v /\ y = -w /\ w = -y
    BY <1>1, <1>8 DEF N!Floored
  <2>2. w * (-q) = y * q /\ w * (-q - 1) = y * q + y
    BY <1>1, <2>1
  <2>3. QED
    BY <1>1, <1>3, <1>5, <1>8, <1>11, <2>1, <2>2
<1>9. CASE w < 0 /\ v < 0
  <2>1. N!Floored(v, w) = v - w * ((-v) \div (-w)) /\ x = -v /\ y = -w /\ w = -y
    BY <1>1, <1>9 DEF N!Floored
  <2>2. w * q = -(y * q)
    BY <1>1, <2>1
  <2>3. QED
    BY <1>1, <1>2, <1>3, <1>9, <1>11, <2>1, <2>2
<1>10. QED
  BY <1>6, <1>7, <1>8, <1>9

(* timespec_mod, of a time within the bound: the remainder of the values,  *)
(* rounded down, or the time itself if the divisor is 0.                   *)
LEMMA ModIs ==
  ASSUME NEW t \in Timespecs, NEW u \in Timespecs,
         N!Value(t) \in -(MaxSec * NSec) .. MaxSec * NSec
  PROVE  /\ N!Mod(t, u) \in Timespecs
         /\ N!Value(N!Mod(t, u)) = IF N!Value(u) = 0 THEN N!Value(t)
                                   ELSE N!Floored(N!Value(t), N!Value(u))
<1> DEFINE v == N!Value(t)
           w == N!Value(u)
           a == N!Normalise(t)
           b == N!Normalise(u)
           x == Size(v)
           y == Size(w)
           r == N!Reduce(N!Abs(a), N!Abs(b))
           crossed == IF N!Negative(a) # N!Negative(b) /\ r.rest # N!T(0, 0)
                      THEN N!Sub(r.rest, r.div) ELSE r.rest
<1>1. /\ Normalised(a) /\ Normalised(b) /\ N!Value(a) = v /\ N!Value(b) = w
      /\ v \in Int /\ w \in Int /\ v \in -(MaxSec * NSec) .. MaxSec * NSec /\ MaxSec * NSec \in Nat
      /\ a \in Timespecs
  BY NormaliseIs, Comparisons, Units DEF Normalised
<1>2. N!Mod(t, u) = IF b = N!T(0, 0) THEN a ELSE IF N!Negative(a) THEN N!Flip(crossed) ELSE crossed
  BY DEF N!Mod
<1> HIDE DEF v, w, a, b, r
<1>3. /\ N!Negative(a) <=> v < 0
      /\ N!Negative(b) <=> w < 0
      /\ b = N!T(0, 0) <=> w = 0
      /\ N!Abs(a) \in Timespecs /\ N!Value(N!Abs(a)) = x
      /\ N!Abs(b) \in Timespecs /\ N!Value(N!Abs(b)) = y
      /\ N!Abs(a) = N!T(0, 0) <=> v = 0
  BY <1>1, AbsIs DEF Size
<1>4. CASE w = 0
  BY <1>1, <1>2, <1>3, <1>4 DEF v, w
<1>5. CASE w # 0
  <2>1. x \in 0 .. MaxSec * NSec /\ y > 0 /\ y \in Int /\ x \in Int
    BY <1>1, <1>5 DEF Size
  <2> HIDE DEF x, y
  <2>2. /\ r.div = N!Abs(b) /\ r.rest \in Timespecs /\ (r.rest = N!Abs(a) \/ Normalised(r.rest))
        /\ N!Value(r.rest) \in 0 .. y - 1
        /\ \E q \in Int : x = y * q + N!Value(r.rest)
    BY <1>3, <2>1, ReduceIs DEF r
  <2>3. PICK q \in Int : x = y * q + N!Value(r.rest)
    BY <2>2
  <2> DEFINE rho == N!Value(r.rest)
  <2>4. rho \in Int /\ 0 <= rho /\ rho < y
    BY <2>1, <2>2
  <2>5. r.rest = N!T(0, 0) <=> rho = 0
    <3>1. CASE Normalised(r.rest)
      BY <3>1, AbsIs
    <3>2. CASE r.rest = N!Abs(a)
      <4>1. rho = x /\ (r.rest = N!T(0, 0) <=> v = 0)
        BY <1>3, <3>2
      <4>2. x = 0 <=> v = 0
        BY <1>1 DEF x, Size
      <4>3. QED
        BY <4>1, <4>2
    <3>3. QED
      BY <2>2, <3>1, <3>2
  <2>6. N!Sub(r.rest, r.div) \in Timespecs /\ N!Value(N!Sub(r.rest, r.div)) = rho - y
    BY <1>3, <2>2, SumsExact DEF Normalised
  <2> HIDE DEF rho
  <2>7. crossed \in Timespecs
        /\ N!Value(crossed) = IF (v < 0 <=> w < 0) \/ rho = 0 THEN rho ELSE rho - y
    <3>1. (N!Negative(a) # N!Negative(b)) <=> ~(v < 0 <=> w < 0)
      <4>1. N!Negative(a) \in BOOLEAN /\ N!Negative(b) \in BOOLEAN
        BY DEF N!Negative
      <4>2. QED
        BY <1>3, <4>1
    <3>2. QED
      BY <2>2, <2>5, <2>6, <3>1 DEF rho
  <2> HIDE DEF crossed
  <2>8. N!Mod(t, u) = IF v < 0 THEN N!Flip(crossed) ELSE crossed
    BY <1>2, <1>3, <1>5
  <2>9. N!Floored(v, w) = Signed(v, w, rho)
    <3>1. Divided(x, y, q, rho)
      BY <2>1, <2>3, <2>4 DEF Divided, rho
    <3>2. v \in Int /\ w \in Int /\ w # 0 /\ q \in Int /\ rho \in Int
      BY <1>1, <1>5, <2>3, <2>4
    <3>3. Divided(Size(v), Size(w), q, rho)
      BY <3>1 DEF x, y
    <3>4. QED
      BY <3>2, <3>3, FlooredIs
  <2>10. QED
    BY <1>5, <2>7, <2>8, <2>9, FlipIs DEF Signed, v, w, y
<1>6. QED
  BY <1>4, <1>5
-----------------------------------------------------------------------------
(***************************************************************************)
(* Units.                                                                  *)
(***************************************************************************)

(* A unit that divides a second: rounding down to it.                      *)
LEMMA DownIs ==
  ASSUME NEW v \in Int, NEW k \in Nat \ {0}, NEW q \in Int, NEW r \in Int, Divided(v, k, q, r)
  PROVE  N!Down(v, k) = k * q
<1>1. v % k = r /\ v = k * q + r
  BY OneQuotient DEF Divided
<1>2. k * q \in Int
  OBVIOUS
<1>3. QED
  BY <1>1, <1>2 DEF N!Down

(* timespec_from_ms after timespec_to_ms, of a time in range.              *)
LEMMA MsIs ==
  ASSUME NEW t, Normalised(t)
  PROVE  LET s == N!FromMs(N!ToMs(t))
         IN  s \in Timespecs /\ N!Value(s) = N!Down(N!Value(t), NSec \div MSec)
<1> DEFINE k == NSec \div MSec
           q == N!Quot(t.nsec, k)
           r == N!Rem(t.nsec, k)
           ms == t.sec * MSec + q
           secs == N!Quot(ms, MSec)
           rest == N!Rem(ms, MSec)
<1>1. k \in Nat \ {0} /\ MSec \in Nat \ {0} /\ NSec = MSec * k
  BY Units, UnitsDivide, TimesAssumption DEF N!TimesParameters
<1> HIDE DEF k
<1>2. t.sec \in Int /\ t.nsec \in Nat /\ t.nsec \in Int
  BY Units DEF Normalised, Timespecs
<1>3. q \in Int /\ r \in Int /\ t.nsec = k * q + r /\ r \in 0 .. k - 1
  BY <1>1, <1>2, QuotRem
<1> HIDE DEF q, r
<1>4. t.sec * MSec \in Int /\ ms \in Int
  BY <1>1, <1>2, <1>3
<1> HIDE DEF ms
<1>5. secs \in Int /\ rest \in Int /\ ms = MSec * secs + rest
  BY <1>1, <1>4, QuotRem
<1> HIDE DEF secs, rest
<1> DEFINE u == N!T(secs, rest * k)
<1>6. u \in Timespecs /\ N!Value(u) = secs * NSec + rest * k
  BY <1>1, <1>5 DEF N!T, N!Value, Timespecs
<1>7. N!ToMs(t) = ms /\ N!FromMs(ms) = N!Normalise(u)
  BY DEF N!ToMs, N!FromMs, k, q, ms, secs, rest
<1> HIDE DEF u
<1>8. N!Value(u) = k * ms
  <2>1. secs * NSec = (MSec * secs) * k
    BY <1>1, <1>5
  <2>2. k * ms = (MSec * secs) * k + rest * k
    BY <1>1, <1>5
  <2>3. QED
    BY <1>6, <2>1, <2>2
<1>9. N!Value(t) = k * ms + r
  <2>1. t.sec * NSec = k * (t.sec * MSec)
    BY <1>1, <1>2
  <2>2. k * ms = k * (t.sec * MSec) + k * q
    BY <1>1, <1>3, <1>4 DEF ms
  <2>3. k * (t.sec * MSec) \in Int /\ k * q \in Int
    BY <1>1, <1>3, <1>4
  <2>4. N!Value(t) = t.sec * NSec + t.nsec
    BY DEF N!Value
  <2>5. QED
    BY <1>3, <2>1, <2>2, <2>3, <2>4
<1>10. N!Down(N!Value(t), k) = k * ms
  <2>1. Divided(N!Value(t), k, ms, r)
    BY <1>3, <1>9 DEF Divided
  <2>2. N!Value(t) \in Int
    BY Pairs
  <2>3. QED
    BY <1>1, <1>3, <1>4, <2>1, <2>2, DownIs
<1>11. N!Normalise(u) \in Timespecs /\ N!Value(N!Normalise(u)) = N!Value(u)
  BY <1>6, NormaliseIs DEF Normalised
<1>12. QED
  BY <1>7, <1>8, <1>10, <1>11 DEF k

(* What a timeval stands for: its microseconds are less than a second, so  *)
(* that the pair in nanoseconds is in range.                               *)
Timevals == [sec : Int, usec : 0 .. USec - 1]
InNsec(v) == N!T(v.sec, v.usec * (NSec \div USec))

LEMMA TimevalIs ==
  ASSUME NEW v \in Timevals
  PROVE  Normalised(InNsec(v)) /\ N!FromTimeval(v) = InNsec(v)
<1> DEFINE k == NSec \div USec
           u == N!T(v.sec, v.usec * k)
<1>1. k \in Nat \ {0} /\ USec \in Nat \ {0} /\ NSec = USec * k
  BY Units, UnitsDivide, TimesAssumption DEF N!TimesParameters
<1>2. N!FromTimeval(v) = N!Normalise(u) /\ InNsec(v) = u
  BY DEF N!FromTimeval, InNsec
<1>3. v.sec \in Int /\ v.usec \in 0 .. USec - 1
  BY DEF Timevals
<1> HIDE DEF k
<1>4. v.usec * k \in Nat /\ v.usec * k + k <= NSec
  <2>1. v.usec < USec /\ v.usec \in Int /\ USec \in Int /\ v.usec >= 0 /\ k \in Nat
    BY <1>1, <1>3
  <2>2. v.usec * k + k <= USec * k /\ v.usec * k >= 0 /\ v.usec * k \in Int
    BY <2>1, Products
  <2>3. QED
    BY <1>1, <2>2
<1>5. Normalised(u) /\ u \in Timespecs
  BY <1>1, <1>3, <1>4 DEF N!T, Normalised, Timespecs
<1> HIDE DEF u
<1>6. Normalised(N!Normalise(u)) /\ N!Value(N!Normalise(u)) = N!Value(u)
  BY <1>5, NormaliseIs
<1>7. N!Normalise(u) = u
  BY <1>5, <1>6, Pairs
<1>8. QED
  BY <1>2, <1>5, <1>7

(* timespec_to_timeval and back.                                           *)
LEMMA ToTimevalIs ==
  ASSUME NEW t \in Timespecs
  PROVE  LET v == N!ToTimeval(t)
         IN  v \in Timevals /\ N!Value(InNsec(v)) = N!Down(N!Value(t), NSec \div USec)
<1> DEFINE k == NSec \div USec
           n == N!Normalise(t)
           v == N!ToTimeval(t)
           q == n.nsec \div k
           r == n.nsec % k
<1>1. k \in Nat \ {0} /\ USec \in Nat \ {0} /\ NSec = USec * k
  BY Units, UnitsDivide, TimesAssumption DEF N!TimesParameters
<1>2. Normalised(n) /\ N!Value(n) = N!Value(t)
  BY NormaliseIs
<1>3. v = [sec |-> n.sec, usec |-> q]
  BY DEF N!ToTimeval
<1> HIDE DEF k, n, v
<1>4. n.sec \in Int /\ n.nsec \in Nat /\ n.nsec < NSec /\ N!Value(n) = n.sec * NSec + n.nsec
      /\ N!Value(n) \in Int
  BY <1>2, Units, Pairs DEF Normalised, Timespecs, N!Value
<1>5. q \in Nat /\ r \in 0 .. k - 1 /\ r = n.nsec - k * q
  <2>1. n.nsec \in Int /\ n.nsec >= 0
    BY <1>4
  <2>2. QED
    BY <1>1, <2>1, Division
<1> HIDE DEF q, r
<1>6. q < USec
  <2>1. USec \in Int /\ q \in Int /\ k \in Nat
    BY <1>1, <1>5
  <2>2. USec <= q => USec * k <= q * k
    BY <2>1, Products
  <2>3. q * k = k * q /\ q * k \in Int
    BY <2>1
  <2>4. QED
    BY <1>1, <1>4, <1>5, <2>1, <2>2, <2>3
<1>7. v \in Timevals
  BY <1>1, <1>3, <1>4, <1>5, <1>6 DEF Timevals
<1>8. N!Value(InNsec(v)) = k * (n.sec * USec + q)
  <2>1. N!Value(InNsec(v)) = n.sec * NSec + q * k
    BY <1>3 DEF InNsec, N!T, N!Value, k
  <2>2. n.sec * NSec = k * (n.sec * USec)
    BY <1>1, <1>4
  <2>3. k * (n.sec * USec + q) = k * (n.sec * USec) + q * k
    BY <1>1, <1>4, <1>5
  <2>4. QED
    BY <2>1, <2>2, <2>3
<1>9. Divided(N!Value(n), k, n.sec * USec + q, r)
  <2>1. n.sec * NSec = k * (n.sec * USec)
    BY <1>1, <1>4
  <2>2. k * (n.sec * USec + q) = k * (n.sec * USec) + k * q
    BY <1>1, <1>4, <1>5
  <2>3. k * (n.sec * USec) \in Int /\ k * q \in Int
    BY <1>1, <1>4, <1>5
  <2>4. QED
    BY <1>4, <1>5, <2>1, <2>2, <2>3 DEF Divided
<1>10. n.sec * USec + q \in Int
  BY <1>1, <1>4, <1>5
<1>11. N!Down(N!Value(n), k) = k * (n.sec * USec + q)
  <2>1. k \in Nat \ {0} /\ N!Value(n) \in Int /\ r \in Int
    BY <1>1, <1>4, <1>5
  <2>2. QED
    BY <1>9, <1>10, <2>1, DownIs
<1>12. QED
  BY <1>2, <1>7, <1>8, <1>11 DEF k, v

(* os_reltime_before and os_reltime_sub on times of the clock.             *)
LEMMA ReltimeIs ==
  ASSUME NEW a \in Timevals, NEW b \in Timevals
  PROVE  /\ N!ReltimeBefore(a, b) <=> N!Value(N!FromTimeval(a)) < N!Value(N!FromTimeval(b))
         /\ N!ReltimeSub(a, b) = N!ToTimeval(N!Sub(N!FromTimeval(a), N!FromTimeval(b)))
<1> DEFINE k == NSec \div USec
           x == InNsec(a)
           y == InNsec(b)
           c == N!ReltimeSub(a, b)
           z == InNsec(c)
           d == N!Sub(x, y)
<1>1. k \in Nat \ {0} /\ USec \in Nat \ {0} /\ NSec = USec * k
  BY Units, UnitsDivide, TimesAssumption DEF N!TimesParameters
<1>2. a.sec \in Int /\ b.sec \in Int /\ a.usec \in 0 .. USec - 1 /\ b.usec \in 0 .. USec - 1
  BY DEF Timevals
<1>3. /\ Normalised(x) /\ Normalised(y) /\ N!FromTimeval(a) = x /\ N!FromTimeval(b) = y
      /\ x.sec = a.sec /\ x.nsec = a.usec * k /\ y.sec = b.sec /\ y.nsec = b.usec * k
  BY TimevalIs DEF InNsec, N!T
<1> HIDE DEF k, x, y
<1>4. a.usec < b.usec <=> a.usec * k < b.usec * k
  <2>1. a.usec \in Int /\ b.usec \in Int /\ k \in Nat /\ k > 0
    BY <1>1, <1>2
  <2>2. /\ a.usec < b.usec => a.usec * k + k <= b.usec * k
        /\ b.usec <= a.usec => b.usec * k <= a.usec * k
        /\ a.usec * k \in Int /\ b.usec * k \in Int
    BY <2>1, Products
  <2>3. QED
    BY <2>1, <2>2
<1>5. N!ReltimeBefore(a, b) <=> N!Value(x) < N!Value(y)
  <2>1. /\ a.sec < b.sec => N!Value(x) < N!Value(y)
        /\ b.sec < a.sec => N!Value(y) < N!Value(x)
        /\ a.sec = b.sec => (a.usec < b.usec <=> N!Value(x) < N!Value(y))
        /\ N!Value(x) \in Int /\ N!Value(y) \in Int
    BY <1>3, <1>4, Pairs
  <2>2. QED
    BY <1>2, <2>1 DEF N!ReltimeBefore
<1>6. c \in Timevals /\ c.sec \in Int /\ c.usec \in Int
      /\ c.sec * NSec + c.usec * k = (a.sec * NSec + a.usec * k) - (b.sec * NSec + b.usec * k)
  <2>1. CASE a.usec < b.usec
    <3>1. c = [sec |-> a.sec - b.sec - 1, usec |-> a.usec - b.usec + USec]
      BY <2>1 DEF N!ReltimeSub
    <3>2. (a.sec - b.sec - 1) * NSec = a.sec * NSec - b.sec * NSec - NSec
      BY <1>1, <1>2
    <3>3. (a.usec - b.usec + USec) * k = a.usec * k - b.usec * k + USec * k
      BY <1>1, <1>2
    <3> HIDE DEF c
    <3>4. /\ c.sec * NSec = a.sec * NSec - b.sec * NSec - NSec
          /\ c.usec * k = a.usec * k - b.usec * k + NSec
          /\ {a.sec * NSec, b.sec * NSec, a.usec * k, b.usec * k, NSec} \subseteq Int
      BY <1>1, <1>2, <3>1, <3>2, <3>3
    <3>5. c \in Timevals
      BY <1>1, <1>2, <2>1, <3>1 DEF Timevals
    <3>6. QED
      BY <3>4, <3>5 DEF Timevals
  <2>2. CASE ~(a.usec < b.usec)
    <3>1. c = [sec |-> a.sec - b.sec, usec |-> a.usec - b.usec]
      BY <2>2 DEF N!ReltimeSub
    <3>2. (a.sec - b.sec) * NSec = a.sec * NSec - b.sec * NSec
      BY <1>1, <1>2
    <3>3. (a.usec - b.usec) * k = a.usec * k - b.usec * k
      BY <1>1, <1>2
    <3> HIDE DEF c
    <3>4. /\ c.sec * NSec = a.sec * NSec - b.sec * NSec
          /\ c.usec * k = a.usec * k - b.usec * k
          /\ {a.sec * NSec, b.sec * NSec, a.usec * k, b.usec * k} \subseteq Int
      BY <1>1, <1>2, <3>1, <3>2, <3>3
    <3>5. c \in Timevals
      BY <1>1, <1>2, <2>2, <3>1 DEF Timevals
    <3>6. QED
      BY <3>4, <3>5 DEF Timevals
  <2>3. QED
    BY <2>1, <2>2
<1> HIDE DEF c, d
<1>7. Normalised(z) /\ z.sec = c.sec /\ z.nsec = c.usec * k
  BY <1>6, TimevalIs DEF InNsec, N!T, k
<1> HIDE DEF z
<1>8. Normalised(d) /\ N!Value(d) = N!Value(x) - N!Value(y)
  BY <1>3, SumsExact DEF Normalised, d
<1>9. z = d
  <2>1. N!Value(z) = N!Value(x) - N!Value(y)
    BY <1>3, <1>6, <1>7 DEF N!Value
  <2>2. QED
    BY <1>7, <1>8, <2>1, Pairs
<1>10. N!ToTimeval(d) = c
  <2>1. N!Normalise(d) = d
    <3>1. Normalised(N!Normalise(d)) /\ N!Value(N!Normalise(d)) = N!Value(d)
      BY <1>8, NormaliseIs DEF Normalised
    <3>2. QED
      BY <1>8, <3>1, Pairs
  <2>2. N!ToTimeval(d) = [sec |-> c.sec, usec |-> (c.usec * k) \div k]
    BY <1>7, <1>9, <2>1 DEF N!ToTimeval, k
  <2>3. (c.usec * k) \div k = c.usec
    <3>1. Divided(c.usec * k, k, c.usec, 0) /\ c.usec * k \in Int
      BY <1>1, <1>6 DEF Divided
    <3>2. QED
      BY <1>1, <1>6, <3>1, OneQuotient
  <2>4. c = [sec |-> c.sec, usec |-> c.usec]
    BY <1>6 DEF Timevals
  <2>5. QED
    BY <2>2, <2>3, <2>4
<1>11. QED
  BY <1>3, <1>5, <1>10 DEF c, d
-----------------------------------------------------------------------------
(***************************************************************************)
(* The invariant of the accumulator.                                       *)
(***************************************************************************)
NInv ==
  /\ acc \in Timespecs /\ N!Value(acc) = exact
  /\ exact \in -(MaxSec * NSec) .. MaxSec * NSec
  /\ arg \in Operands \cup {N!T(0, 0)}

(* It begins at 0.                                                         *)
LEMMA NInit == N!Init => NInv
<1> SUFFICES ASSUME N!Init PROVE NInv
  OBVIOUS
<1>1. acc = N!T(0, 0) /\ exact = 0 /\ arg = N!T(0, 0)
  BY DEF N!Init
<1>2. MaxSec * NSec \in Nat /\ 0 * NSec = 0 /\ NSec \in Nat
  BY Units
<1>3. acc \in Timespecs /\ N!Value(acc) = 0
  BY <1>1, <1>2 DEF N!T, Timespecs, N!Value
<1>4. QED
  BY <1>1, <1>2, <1>3 DEF NInv

(* What a call makes of the accumulator has the value it should have.      *)
LEMMA CallExact ==
  ASSUME NInv, N!Next
  PROVE  acc' \in Timespecs /\ N!Value(acc)' = exact' /\ arg' \in Operands \cup {arg}
<1>1. acc \in Timespecs /\ N!Value(acc) = exact /\ exact \in Int
      /\ N!Value(acc) \in -(MaxSec * NSec) .. MaxSec * NSec
  BY Comparisons DEF NInv
<1>2. ASSUME NEW u \in Operands
      PROVE  u \in Timespecs /\ N!Value(u) \in Int
  BY <1>2, Units, Comparisons
<1>3. ASSUME NEW u \in Operands, N!TimespecAdd(u) \/ N!TimespecSub(u)
      PROVE  acc' \in Timespecs /\ N!Value(acc)' = exact' /\ arg' = u
  BY <1>1, <1>2, <1>3, SumsExact DEF N!TimespecAdd, N!TimespecSub, N!Becomes, Normalised, N!Value
<1>4. ASSUME NEW u \in Operands, N!TimespecMod(u)
      PROVE  acc' \in Timespecs /\ N!Value(acc)' = exact' /\ arg' = u
  BY <1>1, <1>2, <1>4, ModIs DEF N!TimespecMod, N!Becomes, N!Value
<1>5. ASSUME NEW u \in Operands, N!TimespecClamp(u)
      PROVE  acc' \in Timespecs /\ N!Value(acc)' = exact' /\ arg' = u
  <2> DEFINE one == N!T(1, 0)
             top == N!Add(u, one)
  <2>1. one \in Timespecs /\ N!Value(one) = NSec /\ NSec \in Nat /\ NSec > 0
    BY Units DEF N!T, Timespecs, N!Value
  <2> HIDE DEF one
  <2>2. top \in Timespecs /\ N!Value(top) = N!Value(u) + NSec
    BY <1>2, <2>1, SumsExact DEF Normalised
  <2>3. acc' = N!Clamp(acc, u, top) /\ arg' = u
        /\ exact' = IF exact < N!Value(u) THEN N!Value(u)
                    ELSE IF exact > N!Value(top) THEN N!Value(top) ELSE exact
    BY <1>5 DEF N!TimespecClamp, N!Becomes, one
  <2> HIDE DEF top
  <2>4. /\ N!Gt(acc, top) <=> exact > N!Value(top)
        /\ N!Lt(acc, u) <=> exact < N!Value(u)
    BY <1>1, <1>2, <2>2, Comparisons
  <2>5. acc' = IF exact > N!Value(top) THEN top ELSE IF exact < N!Value(u) THEN u ELSE acc
    BY <2>3, <2>4 DEF N!Clamp
  <2>6. exact > N!Value(top) => ~(exact < N!Value(u))
    BY <1>1, <1>2, <2>1, <2>2
  <2>7. \A t : t = acc' => N!Value(t) = N!Value(acc)'
    BY DEF N!Value
  <2>8. QED
    BY <1>1, <1>2, <2>2, <2>3, <2>5, <2>6, <2>7
<1>6. ASSUME NEW u \in Operands, N!TimespecMinMax(u)
      PROVE  acc' \in Timespecs /\ N!Value(acc)' = exact' /\ arg' = u
  <2>1. /\ N!Le(acc, u) <=> exact <= N!Value(u)
        /\ N!Ge(acc, u) <=> exact >= N!Value(u)
    BY <1>1, <1>2, Comparisons
  <2>2. arg' = u
    BY <1>6 DEF N!TimespecMinMax, N!Becomes
  <2>3. \A t : t = acc' => N!Value(t) = N!Value(acc)'
    BY DEF N!Value
  <2>4. CASE acc' = N!MinTime(acc, u) /\ exact' = IF exact < N!Value(u) THEN exact ELSE N!Value(u)
    <3>1. acc' = IF exact <= N!Value(u) THEN acc ELSE u
      BY <2>1, <2>4 DEF N!MinTime
    <3>2. QED
      BY <1>1, <1>2, <2>2, <2>3, <2>4, <3>1
  <2>5. CASE acc' = N!MaxTime(acc, u) /\ exact' = IF exact > N!Value(u) THEN exact ELSE N!Value(u)
    <3>1. acc' = IF exact >= N!Value(u) THEN acc ELSE u
      BY <2>1, <2>5 DEF N!MaxTime
    <3>2. QED
      BY <1>1, <1>2, <2>2, <2>3, <2>5, <3>1
  <2>6. QED
    BY <1>6, <2>4, <2>5 DEF N!TimespecMinMax, N!Becomes
<1>7. ASSUME N!ThroughMs
      PROVE  acc' \in Timespecs /\ N!Value(acc)' = exact' /\ arg' = arg
  <2> DEFINE zero == N!T(0, 0)
             n == N!Add(acc, zero)
  <2>1. zero \in Timespecs /\ N!Value(zero) = 0
    BY Units DEF N!T, Timespecs, N!Value
  <2>2. acc' = N!FromMs(N!ToMs(n)) /\ exact' = N!Down(exact, NSec \div MSec) /\ arg' = arg
    BY <1>7 DEF N!ThroughMs, N!Becomes
  <2> HIDE DEF zero
  <2>3. Normalised(n) /\ N!Value(n) = exact
    BY <1>1, <2>1, SumsExact
  <2> HIDE DEF n
  <2>4. acc' \in Timespecs /\ N!Value(N!FromMs(N!ToMs(n))) = N!Down(exact, NSec \div MSec)
    BY <2>2, <2>3, MsIs
  <2>5. \A t : t = acc' => N!Value(t) = N!Value(acc)'
    BY DEF N!Value
  <2>6. QED
    BY <2>2, <2>4, <2>5
<1>8. ASSUME N!ThroughTimeval
      PROVE  acc' \in Timespecs /\ N!Value(acc)' = exact' /\ arg' = arg
  <2> DEFINE v == N!ToTimeval(acc)
  <2>1. acc' = N!FromTimeval(v) /\ exact' = N!Down(exact, NSec \div USec) /\ arg' = arg
    BY <1>8 DEF N!ThroughTimeval, N!Becomes
  <2>2. v \in Timevals /\ N!Value(InNsec(v)) = N!Down(exact, NSec \div USec)
    BY <1>1, ToTimevalIs
  <2> HIDE DEF v
  <2>3. acc' = InNsec(v) /\ InNsec(v) \in Timespecs
    BY <2>1, <2>2, TimevalIs DEF Normalised
  <2>4. \A t : t = acc' => N!Value(t) = N!Value(acc)'
    BY DEF N!Value
  <2>5. QED
    BY <2>1, <2>2, <2>3, <2>4
<1>9. QED
  BY <1>3, <1>4, <1>5, <1>6, <1>7, <1>8 DEF N!Next

(* The calls, and the steps of other parts, keep the value exact.          *)
LEMMA NStep == NInv /\ [LibraryNext]_all => NInv'
<1> SUFFICES ASSUME NInv, [LibraryNext]_all PROVE NInv'
  OBVIOUS
<1>1. CASE N!Next
  <2>1. exact' \in -(MaxSec * NSec) .. MaxSec * NSec
    BY <1>1 DEF N!Next
  <2>2. QED
    BY <1>1, <2>1, CallExact DEF NInv
<1>2. CASE UNCHANGED times
  <2>1. UNCHANGED acc /\ UNCHANGED exact /\ UNCHANGED arg
    BY <1>2 DEF times
  <2>2. QED
    BY <2>1 DEF NInv, N!Value
<1>3. QED
  BY <1>1, <1>2 DEF LibraryNext, all

(* Sums, differences, remainders, limits and conversions are exact, and    *)
(* comparisons agree with them, whatever the mixture of signs and seconds  *)
(* in the nanoseconds, and whatever the units (timespec.c, os.h:43).       *)
THEOREM TimesAlwaysExact == LibrarySpec => []TimesExact
<1>1. LibraryInit => NInv
  BY NInit DEF LibraryInit
<1>2. ASSUME NInv PROVE TimesExact
  <2>1. arg \in Timespecs /\ acc \in Timespecs /\ exact \in Int
    <3>1. N!T(0, 0) \in Timespecs
      BY DEF N!T, Timespecs
    <3>2. N!Value(acc) \in Int
      BY <1>2, Comparisons DEF NInv
    <3>3. QED
      BY <1>2, <3>1, <3>2, Units DEF NInv
  <2>2. N!TypeOK
    BY <1>2, <2>1 DEF NInv, N!TypeOK, Timespecs
  <2>3. N!ArithmeticExact
    BY <1>2 DEF NInv, N!ArithmeticExact
  <2>4. N!OrderAgrees
    <3> DEFINE d == N!Value(acc) - N!Value(arg)
               a == N!ToTimeval(acc)
               b == N!ToTimeval(arg)
    <3>1. /\ N!Gt(acc, arg) <=> d > 0
          /\ N!Ge(acc, arg) <=> d >= 0
          /\ N!Lt(acc, arg) <=> d < 0
          /\ N!Le(acc, arg) <=> d <= 0
          /\ N!Eq(acc, arg) <=> d = 0
          /\ d \in Int
      BY <2>1, Comparisons
    <3>2. a \in Timevals /\ b \in Timevals
      BY <2>1, ToTimevalIs
    <3> HIDE DEF d, a, b
    <3>3. N!Cmp(acc, arg) = IF d > 0 THEN 1 ELSE IF d < 0 THEN -1 ELSE 0
      BY <3>1 DEF N!Cmp
    <3>4. /\ N!ReltimeBefore(a, b) <=> N!Value(N!FromTimeval(a)) < N!Value(N!FromTimeval(b))
          /\ N!ReltimeSub(a, b) = N!ToTimeval(N!Sub(N!FromTimeval(a), N!FromTimeval(b)))
      BY <3>2, ReltimeIs
    <3>5. QED
      BY <3>1, <3>3, <3>4 DEF N!OrderAgrees, d, a, b
  <2>5. QED
    BY <2>2, <2>3, <2>4 DEF TimesExact
<1>3. QED
  BY <1>1, <1>2, NStep, PTL DEF LibrarySpec
==============================================================================
