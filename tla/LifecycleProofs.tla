-------------------------- MODULE LifecycleProofs --------------------------
(***************************************************************************)
(* Proofs about the end of a program on cevf and the hooks of its          *)
(* initialisers, for every set of initialisers, every number of            *)
(* terminators and every size of data_mq.                                  *)
(***************************************************************************)
EXTENDS Lifecycle, CountingLemmas

(* Somebody's cevf_terminate is over: only then can there be a NULL.       *)
SomeoneDone == \E k \in Terminators : term[k] = "done"

(* The program found nothing to do before it started a thread.             *)
NothingToDo == ~sockreg /\ data % Cap = 0 /\ tcnt = 0 /\ ~producers

(* What may be the reason for using ctrl_mq when it is gone.               *)
FreedBecause ==
  \/ Cardinality({k \in Terminators : term[k] # "no"}) > 1
  \/ failed \/ (IsIdle /\ ~producers)

Types ==
  /\ phase \in {"registered", "inited", "initialising", "eloop", "asleep", "mainloop", "joining",
                "deinitialising", "closing", "deleted", "exited"}
  /\ ctrl \in {"none", "open", "deleted"} /\ nulls \in Nat
  /\ socks \in 0 .. MaxSocks /\ data \in 0 .. Cap /\ tcnt \in 0 .. 1
  /\ loopthread \in {"none", "runs", "ended"}
  /\ term \in [Terminators -> {"no", "closed", "enq", "done"}]
  /\ fault \in {"none", "null", "freed"}

(* A main loop ends with a NULL, which a cevf_terminate has sent: so the   *)
(* threads are joined because of one, or there never were any.             *)
Ends ==
  /\ socks > 0 => sockreg
  /\ nulls > 0 \/ loopthread = "ended" => SomeoneDone
  /\ phase \in {"eloop", "asleep"} => loopthread # "none"
  /\ phase = "joining" => loopthread # "none" \/ SomeoneDone
  /\ phase \in {"deinitialising", "closing", "deleted"} => failed \/ NothingToDo \/ SomeoneDone
  /\ ctrl = "deleted" => phase \in {"deleted", "exited"}
  /\ fault = "freed" => FreedBecause

IInv == Types /\ Ends
-----------------------------------------------------------------------------
(* It holds when cevf_register and its like are done and cevf_init not yet *)
(* called.                                                                 *)
LEMMA InitIInv == Init => IInv
BY LifecycleAssumption DEF Init, IInv, Types, Ends

(* Each step of the main thread.                                           *)
LEMMA MainKeeps ==
  ASSUME IInv, fault = "none", MainStep
  PROVE  IInv'
<1> USE LifecycleAssumption DEF IInv, Types, Ends, At, SomeoneDone, NothingToDo,
                                initials, queue, work, signals
<1>1. CASE CevfInit
  BY <1>1 DEF CevfInit
<1>2. CASE RunBegins
  BY <1>2 DEF RunBegins
<1>3. CASE Initialiser
  <2>1. /\ phase = "initialising" /\ phase' \in {"initialising", "deinitialising"}
        /\ phase' = "deinitialising" => failed'
        /\ UNCHANGED <<producers, ctrl, nulls, loopthread, term>>
    BY <1>3 DEF Initialiser
  <2>2. /\ data' \in 0 .. Cap /\ tcnt' \in 0 .. 1 /\ socks' \in 0 .. MaxSocks
        /\ socks' > 0 => sockreg'
        /\ fault' \in {"none", "null"}
    BY <1>3 DEF Initialiser, Effects
  <2>3. QED
    BY <2>1, <2>2
<1>4. CASE StartThreads
  BY <1>4 DEF StartThreads, IsIdle
<1>5. CASE EloopTop
  BY <1>5 DEF EloopTop
<1>6. CASE EvJoin
  BY <1>6 DEF EvJoin
<1>7. CASE Deinitialiser \/ Deinitialised
  BY <1>7 DEF Deinitialiser, Deinitialised
<1>8. CASE DeleteCtrl \/ CevfDeinit
  BY <1>8 DEF DeleteCtrl, CevfDeinit
<1>9. QED
  BY <1>1, <1>2, <1>3, <1>4, <1>5, <1>6, <1>7, <1>8 DEF MainStep

(* Two callers of cevf_terminate are more than one.                        *)
LEMMA TwoTerminate ==
  ASSUME NEW f, NEW j \in Terminators, NEW k \in Terminators, j # k, f[j] # "no", f[k] # "no"
  PROVE  Cardinality({i \in Terminators : f[i] # "no"}) > 1
<1> DEFINE Calls == {i \in Terminators : f[i] # "no"}
<1>1. IsFiniteSet(Calls) /\ {j, k} \subseteq Calls
  BY LifecycleAssumption, PartOf
<1>2. Cardinality({j, k}) = 2
  <2>1. IsFiniteSet({j}) /\ Cardinality({j}) = 1
    BY FS_Singleton
  <2>2. Cardinality({j} \cup {k}) = Cardinality({j}) + 1
    BY <2>1, FS_AddElement
  <2>3. {j} \cup {k} = {j, k}
    OBVIOUS
  <2>4. QED
    BY <2>1, <2>2, <2>3
<1>3. QED
  BY <1>1, <1>2, PartOf

(* The three steps of a cevf_terminate (cevf.c:1242-1248): the close, the  *)
(* flag of eloop and the NULL in ctrl_mq, which may be gone by then.       *)
LEMMA TerminateKeeps ==
  ASSUME IInv, fault = "none", NEW k \in Terminators, TerminateClose(k) \/ TerminateStep(k)
  PROVE  IInv'
<1> USE LifecycleAssumption DEF IInv, Types, Ends, At, SomeoneDone, NothingToDo,
                                initials, queue, work, signals
<1>1. CASE TerminateClose(k)
  BY <1>1 DEF TerminateClose
<1>2. CASE TerminateEloop(k)
  BY <1>2 DEF TerminateEloop
<1>3. CASE TerminateEnq(k)
  <2>1. term[k] = "enq" /\ term' = [term EXCEPT ![k] = "done"] /\ term'[k] = "done"
    BY <1>3 DEF TerminateEnq
  <2>2. Types' /\ SomeoneDone'
    BY <1>3, <2>1 DEF TerminateEnq
  <2>3. fault' = "freed" => FreedBecause'
    <3>1. SUFFICES ASSUME fault' = "freed"
                   PROVE  FreedBecause'
      OBVIOUS
    <3>2. ctrl = "deleted" /\ nulls' = nulls
      BY <1>3, <3>1 DEF TerminateEnq
    <3>3. phase = "deleted"
      BY <1>3, <3>2 DEF TerminateEnq
    <3>4. CASE SomeoneDone
      <4>1. PICK j \in Terminators : term[j] = "done"
        BY <3>4
      <4>2. j # k /\ term'[j] # "no" /\ term'[k] # "no"
        BY <2>1, <4>1
      <4>3. QED
        BY <4>2, TwoTerminate DEF FreedBecause
    <3>5. CASE ~SomeoneDone
      <4>1. failed \/ NothingToDo
        BY <3>3, <3>5
      <4>2. QED
        BY <1>3, <3>2, <3>5, <4>1 DEF TerminateEnq, FreedBecause, IsIdle
    <3>6. QED
      BY <3>4, <3>5
  <2>4. QED
    BY <1>3, <2>2, <2>3 DEF TerminateEnq
<1>4. QED
  BY <1>1, <1>2, <1>3 DEF TerminateStep

(* The work of other threads, sockets and the two main loops.              *)
LEMMA OthersKeep ==
  ASSUME IInv, fault = "none", Work \/ SockEvent \/ MainloopEnds
  PROVE  IInv'
<1> USE LifecycleAssumption DEF IInv, Types, Ends, At, SomeoneDone, NothingToDo,
                                initials, queue, work, signals
<1>1. CASE Work
  BY <1>1 DEF Work, Running
<1>2. CASE SockEvent
  BY <1>2 DEF SockEvent
<1>3. CASE MainloopEnds
  BY <1>3 DEF MainloopEnds
<1>4. QED
  BY <1>1, <1>2, <1>3

(* The invariant is inductive.                                             *)
LEMMA StepIInv == IInv /\ [Next]_vars => IInv'
<1>1. CASE Next
  BY <1>1, MainKeeps, TerminateKeeps, OthersKeep DEF Next
<1>2. CASE UNCHANGED vars
  BY <1>2 DEF vars, initials, queue, work, signals, IInv, Types, Ends, SomeoneDone, NothingToDo,
              FreedBecause, IsIdle
<1>3. QED
  BY <1>1, <1>2

(* And so it holds in every behaviour of the program.                      *)
LEMMA Invariance == Spec => []IInv
BY InitIInv, StepIInv, PTL DEF Spec

(* A program that nobody terminates and whose initialisers succeed ends    *)
(* only when it has nothing to do, or takes a full queue for an empty one  *)
(* (cevf.c:1191, qmsg2.c:109).                                             *)
THEOREM QuitsOnlyIdle == Spec => []QuitsIdle
<1>1. ASSUME IInv, phase = "deleted", ~failed, \A k \in Terminators : term[k] = "no"
      PROVE  ~producers /\ socks = 0 /\ tcnt = 0 /\ data \in {0, Cap}
  <2>1. NothingToDo
    BY <1>1 DEF IInv, Ends, SomeoneDone
  <2>2. data < Cap => data = 0
    <3>1. data < Cap => data \in 0 .. Cap - 1
      BY <1>1, LifecycleAssumption DEF IInv, Types
    <3>2. QED
      BY <2>1, <3>1, ModSmall, LifecycleAssumption DEF NothingToDo
  <2>3. QED
    BY <1>1, <2>1, <2>2, LifecycleAssumption DEF NothingToDo, IInv, Types, Ends
<1>2. IInv => QuitsIdle
  BY <1>1 DEF QuitsIdle
<1>3. QED
  BY <1>2, Invariance, PTL

(* It takes a second cevf_terminate, or a program that ends by itself, to  *)
(* meet the deleted ctrl_mq.                                               *)
THEOREM OneTerminateAlwaysSafe == Spec => []OneTerminateIsSafe
<1>1. IInv => OneTerminateIsSafe
  BY DEF IInv, Ends, FreedBecause, OneTerminateIsSafe
<1>2. QED
  BY <1>1, Invariance, PTL
-----------------------------------------------------------------------------
(***************************************************************************)
(* The hooks.                                                              *)
(***************************************************************************)

(* What is known of the initialisers.                                      *)
LEMMA InitialisersAre ==
  /\ \A x \in Initialisers : x.prio \in Nat /\ x.init \in BOOLEAN /\ x.deinit \in BOOLEAN
  /\ \A x, y \in Initialisers : x.name = y.name => x = y
BY LifecycleAssumption

(* Calls of hooks.                                                         *)
HookCalls == {"init", "deinit"} \X {x.name : x \in Initialisers}

(* The phases before cevf_run, and those after its deinitialisers.         *)
Early == {"registered", "inited"}
Late == {"closing", "deleted", "exited"}

(* The array of initialisers: sorted, and with all of them once cevf_run   *)
(* has begun.  The loops over it are where the phase says.                 *)
Lists ==
  /\ ini \in Seq(Initialisers) /\ i_ini \in 0 .. Len(ini) /\ back \in 0 .. Len(ini)
  /\ calls \in Seq(HookCalls) /\ failed \in BOOLEAN
  /\ \A p, q \in 1 .. Len(ini) : p < q => ini[p] # ini[q] /\ ini[p].prio <= ini[q].prio
  /\ phase \in Early => ini = <<>> /\ calls = <<>>
  /\ phase \notin Early \cup {"exited"} => \A x \in Initialisers : \E p \in 1 .. Len(ini) : ini[p] = x
  /\ phase \notin {"deinitialising"} \cup Late => back = 0 /\ ~failed
  /\ phase \in {"closing", "deleted"} => back = Len(ini)
  /\ phase \in {"eloop", "asleep", "mainloop", "joining"} => i_ini = Len(ini)
  /\ phase = "deinitialising" => IF failed THEN i_ini < Len(ini) ELSE i_ini = Len(ini)

(* The calls n of the hooks of the initialiser at p.                       *)
IsInit(n, p) == calls[n] = InitOf(ini[p]) /\ ini[p].init
IsDeinit(n, p) == calls[n] = DeinitOf(ini[p]) /\ ini[p].deinit

(* The init hooks of the first r have been called, forwards, and then,     *)
(* backwards, the deinit hooks of those of them that the loop has come to. *)
Made(r) ==
  /\ \A n \in 1 .. Len(calls) : \E p \in 1 .. r :
       IsInit(n, p) \/ (IsDeinit(n, p) /\ p > Len(ini) - back)
  /\ \A p \in 1 .. r : ini[p].init => \E n \in 1 .. Len(calls) : IsInit(n, p)
  /\ \A p \in 1 .. r : ini[p].deinit /\ p > Len(ini) - back =>
       \E n \in 1 .. Len(calls) : IsDeinit(n, p)
Ordered ==
  \A n, k \in 1 .. Len(calls), p, q \in 1 .. Len(ini) : n < k =>
    /\ IsInit(n, p) /\ IsInit(k, q) => p < q
    /\ IsDeinit(n, p) /\ IsDeinit(k, q) => q < p
    /\ ~(IsDeinit(n, p) /\ IsInit(k, q))

(* How many initialisers were reached, the one that failed included.       *)
Reached == IF failed THEN i_ini + 1 ELSE i_ini
Trace == \E r \in 0 .. Len(ini) : Made(r) /\ (phase \notin Late => r = Reached)

(* A NULL in ctrl_mq is that of a cevf_terminate.                          *)
NullsSent == nulls <= Cardinality({k \in Terminators : term[k] = "done"})

HInv == IInv /\ NullsSent /\ Lists /\ Ordered /\ Trace

(* Nothing has been called.                                                *)
LEMMA InitHInv == Init => HInv
<1>1. ASSUME Init PROVE NullsSent
  <2>1. IsFiniteSet({k \in Terminators : term[k] = "done"})
    BY LifecycleAssumption, PartOf
  <2>2. QED
    BY <1>1, <2>1, FS_CardinalityType DEF Init, NullsSent
<1>2. ASSUME Init PROVE Lists /\ Ordered /\ Trace
  <2>1. ini = <<>> /\ calls = <<>> /\ Len(ini) = 0 /\ Len(calls) = 0
    BY <1>2 DEF Init
  <2>2. Lists
    <3>1. ini \in Seq(Initialisers) /\ calls \in Seq(HookCalls)
      BY <2>1
    <3>2. i_ini \in 0 .. Len(ini) /\ back \in 0 .. Len(ini) /\ failed = FALSE /\ back = 0
          /\ phase = "registered"
      BY <1>2, <2>1 DEF Init
    <3>3. \A p \in 1 .. Len(ini) : FALSE
      BY <2>1
    <3>4. phase \in Early /\ phase \notin Late
      BY <3>2 DEF Early, Late
    <3>5. QED
      BY <2>1, <3>1, <3>2, <3>3, <3>4 DEF Lists
  <2>3. Ordered
    BY <2>1 DEF Ordered
  <2>4. Made(0) /\ Reached = 0
    BY <1>2, <2>1 DEF Init, Made, Reached
  <2>5. QED
    BY <2>1, <2>2, <2>3, <2>4 DEF Trace
<1>3. QED
  BY <1>1, <1>2, InitIInv DEF HInv

(* The hooks of two initialisers, or two hooks, are told apart.            *)
LEMMA HooksApart ==
  ASSUME Lists, NEW p \in 1 .. Len(ini), NEW q \in 1 .. Len(ini)
  PROVE  /\ InitOf(ini[p]) # DeinitOf(ini[q])
         /\ InitOf(ini[p]) = InitOf(ini[q]) => p = q
         /\ DeinitOf(ini[p]) = DeinitOf(ini[q]) => p = q
         /\ InitOf(ini[p]) \in HookCalls /\ DeinitOf(ini[p]) \in HookCalls
<1>1. ini[p] \in Initialisers /\ ini[q] \in Initialisers /\ p \in Nat /\ q \in Nat
  BY DEF Lists
<1>2. ini[p].name = ini[q].name => p = q
  BY <1>1, InitialisersAre DEF Lists
<1>3. QED
  BY <1>1, <1>2 DEF InitOf, DeinitOf, HookCalls

(* The next call of the loop of cevf_run_initialisers.                     *)
LEMMA InitCalled ==
  ASSUME Lists, Ordered, NEW r \in 0 .. Len(ini) - 1, Made(r), back = 0, UNCHANGED <<ini, back>>,
         calls' = IF ini[r + 1].init THEN Append(calls, InitOf(ini[r + 1])) ELSE calls
  PROVE  calls' \in Seq(HookCalls) /\ Made(r + 1)' /\ Ordered'
<1> SUFFICES ASSUME NEW l, l = Len(calls)
             PROVE  calls' \in Seq(HookCalls) /\ Made(r + 1)' /\ Ordered'
  OBVIOUS
<1>1. r \in Nat /\ r + 1 \in 1 .. Len(ini) /\ l \in Nat /\ Len(ini) \in Nat
      /\ calls \in Seq(HookCalls) /\ InitOf(ini[r + 1]) \in HookCalls
  BY HooksApart DEF Lists
<1>2. \A p \in 1 .. Len(ini) : ~(p > Len(ini) - back)
  BY <1>1
<1>3. CASE ~ini[r + 1].init
  <2>1. calls' = calls /\ \A n, p : IsInit(n, p)' = IsInit(n, p) /\ IsDeinit(n, p)' = IsDeinit(n, p)
    BY <1>3 DEF IsInit, IsDeinit, InitOf, DeinitOf
  <2>2. QED
    BY <1>1, <1>2, <1>3, <2>1 DEF Made, Ordered
<1>4. CASE ini[r + 1].init
  <2>1. calls' = Append(calls, InitOf(ini[r + 1]))
    BY <1>4
  <2>2. /\ calls' \in Seq(HookCalls) /\ Len(calls') = l + 1
        /\ calls'[l + 1] = InitOf(ini[r + 1])
        /\ \A n \in 1 .. l : calls'[n] = calls[n]
    BY <1>1, <2>1
  <2>3. \A n \in 1 .. l, p \in 1 .. Len(ini) :
          IsInit(n, p)' = IsInit(n, p) /\ IsDeinit(n, p)' = IsDeinit(n, p)
    BY <2>2 DEF IsInit, IsDeinit, InitOf, DeinitOf
  <2>4. \A p \in 1 .. Len(ini) : (IsInit(l + 1, p)' <=> p = r + 1) /\ ~IsDeinit(l + 1, p)'
    <3>1. SUFFICES ASSUME NEW p \in 1 .. Len(ini)
                   PROVE  (IsInit(l + 1, p)' <=> p = r + 1) /\ ~IsDeinit(l + 1, p)'
      OBVIOUS
    <3>2. /\ InitOf(ini[r + 1]) = InitOf(ini[p]) => p = r + 1
          /\ InitOf(ini[r + 1]) # DeinitOf(ini[p])
      BY <1>1, HooksApart
    <3>3. /\ IsInit(l + 1, p)' <=> InitOf(ini[r + 1]) = InitOf(ini[p]) /\ ini[p].init
          /\ IsDeinit(l + 1, p)' <=> InitOf(ini[r + 1]) = DeinitOf(ini[p]) /\ ini[p].deinit
      BY <2>2 DEF IsInit, IsDeinit, InitOf, DeinitOf
    <3>4. QED
      BY <1>4, <3>2, <3>3
  <2>5. \A n \in 1 .. l, p \in 1 .. Len(ini) :
          (IsInit(n, p) => p \in 1 .. r) /\ ~IsDeinit(n, p)
    <3>1. SUFFICES ASSUME NEW n \in 1 .. l, NEW p \in 1 .. Len(ini)
                   PROVE  (IsInit(n, p) => p \in 1 .. r) /\ ~IsDeinit(n, p)
      OBVIOUS
    <3>2. PICK q \in 1 .. r : IsInit(n, q) \/ (IsDeinit(n, q) /\ q > Len(ini) - back)
      BY DEF Made
    <3>3. q \in 1 .. Len(ini)
      BY <1>1
    <3>4. IsInit(n, q)
      BY <1>2, <3>2, <3>3
    <3>5. QED
      BY <3>3, <3>4, HooksApart DEF IsInit, IsDeinit
  <2>6. Ordered'
    <3>1. SUFFICES ASSUME NEW n \in 1 .. l + 1, NEW k \in 1 .. l + 1,
                          NEW p \in 1 .. Len(ini), NEW q \in 1 .. Len(ini), n < k
                   PROVE  /\ IsInit(n, p)' /\ IsInit(k, q)' => p < q
                          /\ IsDeinit(n, p)' /\ IsDeinit(k, q)' => q < p
                          /\ ~(IsDeinit(n, p)' /\ IsInit(k, q)')
      BY <2>2 DEF Ordered
    <3>2. n \in 1 .. l
      BY <1>1, <3>1
    <3>3. CASE k = l + 1
      BY <1>1, <2>3, <2>4, <2>5, <3>2, <3>3
    <3>4. CASE k # l + 1
      <4>1. k \in 1 .. l
        BY <1>1, <3>4
      <4>2. QED
        BY <2>3, <3>1, <3>2, <4>1 DEF Ordered
    <3>5. QED
      BY <3>3, <3>4
  <2>7. Made(r + 1)'
    <3>1. \A n \in 1 .. l + 1 : \E p \in 1 .. r + 1 : IsInit(n, p)'
      <4>1. SUFFICES ASSUME NEW n \in 1 .. l + 1 PROVE \E p \in 1 .. r + 1 : IsInit(n, p)'
        OBVIOUS
      <4>2. CASE n = l + 1
        BY <1>1, <2>4, <4>2
      <4>3. CASE n # l + 1
        <5>1. n \in 1 .. l
          BY <1>1, <4>3
        <5>2. PICK p \in 1 .. r : IsInit(n, p) \/ (IsDeinit(n, p) /\ p > Len(ini) - back)
          BY <5>1 DEF Made
        <5>3. p \in 1 .. Len(ini) /\ p \in 1 .. r + 1
          BY <1>1
        <5>4. QED
          BY <1>2, <2>3, <5>1, <5>2, <5>3
      <4>4. QED
        BY <4>2, <4>3
    <3>2. \A p \in 1 .. r + 1 : ini[p].init => \E n \in 1 .. l + 1 : IsInit(n, p)'
      <4>1. SUFFICES ASSUME NEW p \in 1 .. r + 1, ini[p].init
                     PROVE  \E n \in 1 .. l + 1 : IsInit(n, p)'
        OBVIOUS
      <4>2. CASE p = r + 1
        BY <1>1, <2>4, <4>2
      <4>3. CASE p # r + 1
        <5>1. p \in 1 .. r /\ p \in 1 .. Len(ini)
          BY <1>1, <4>3
        <5>2. PICK n \in 1 .. l : IsInit(n, p)
          BY <4>1, <5>1 DEF Made
        <5>3. n \in 1 .. l + 1
          BY <1>1
        <5>4. QED
          BY <2>3, <5>1, <5>2, <5>3
      <4>4. QED
        BY <4>2, <4>3
    <3>3. \A p \in 1 .. r + 1 : p \in 1 .. Len(ini)
      BY <1>1
    <3>4. QED
      BY <1>2, <2>2, <3>1, <3>2, <3>3 DEF Made
  <2>8. QED
    BY <2>2, <2>6, <2>7
<1>5. QED
  BY <1>3, <1>4

(* The next round of the loop of cevf_run_deinitialisers.                  *)
LEMMA DeinitCalled ==
  ASSUME Lists, Ordered, NEW r \in 0 .. Len(ini), Made(r), back < Len(ini), UNCHANGED ini,
         back' = back + 1, NEW place, place = Len(ini) - back,
         calls' = IF place <= r /\ ini[place].deinit THEN Append(calls, DeinitOf(ini[place])) ELSE calls
  PROVE  calls' \in Seq(HookCalls) /\ Made(r)' /\ Ordered'
<1> SUFFICES ASSUME NEW l, l = Len(calls)
             PROVE  calls' \in Seq(HookCalls) /\ Made(r)' /\ Ordered'
  OBVIOUS
<1> DEFINE came(p) == p > Len(ini) - back
<1>1. r \in Nat /\ place \in 1 .. Len(ini) /\ l \in Nat /\ Len(ini) \in Nat /\ back \in Nat
      /\ calls \in Seq(HookCalls) /\ DeinitOf(ini[place]) \in HookCalls
  <2>1. Len(ini) \in Nat /\ back \in Nat /\ Len(calls) \in Nat /\ calls \in Seq(HookCalls)
    BY DEF Lists
  <2>2. place \in 1 .. Len(ini)
    BY <2>1
  <2>3. DeinitOf(ini[place]) \in HookCalls
    BY <2>2, HooksApart
  <2>4. QED
    BY <2>1, <2>2, <2>3
<1>2. \A p \in 1 .. Len(ini) : p > Len(ini') - back' <=> came(p) \/ p = place
  BY <1>1
<1>3. CASE ~(place <= r /\ ini[place].deinit)
  <2>1. calls' = calls /\ \A n, p : IsInit(n, p)' = IsInit(n, p) /\ IsDeinit(n, p)' = IsDeinit(n, p)
    BY <1>3 DEF IsInit, IsDeinit, InitOf, DeinitOf
  <2>2. \A p \in 1 .. r : p \in 1 .. Len(ini) /\ (p = place => ~ini[p].deinit)
    BY <1>1, <1>3
  <2>3. Ordered'
    BY <2>1 DEF Ordered
  <2>4. Made(r)'
    BY <1>2, <2>1, <2>2 DEF Made
  <2>5. QED
    BY <1>1, <2>1, <2>3, <2>4
<1>4. CASE place <= r /\ ini[place].deinit
  <2>1. calls' = Append(calls, DeinitOf(ini[place])) /\ place \in 1 .. r
    BY <1>1, <1>4
  <2>2. /\ calls' \in Seq(HookCalls) /\ Len(calls') = l + 1
        /\ calls'[l + 1] = DeinitOf(ini[place])
        /\ \A n \in 1 .. l : calls'[n] = calls[n]
    BY <1>1, <2>1
  <2>3. \A n \in 1 .. l, p \in 1 .. Len(ini) :
          IsInit(n, p)' = IsInit(n, p) /\ IsDeinit(n, p)' = IsDeinit(n, p)
    BY <2>2 DEF IsInit, IsDeinit, InitOf, DeinitOf
  <2>4. \A p \in 1 .. Len(ini) : (IsDeinit(l + 1, p)' <=> p = place) /\ ~IsInit(l + 1, p)'
    BY <1>1, <1>4, <2>2, HooksApart DEF IsInit, IsDeinit, InitOf, DeinitOf
  <2>5. \A n \in 1 .. l, p \in 1 .. Len(ini) : IsDeinit(n, p) => came(p)
    <3>1. SUFFICES ASSUME NEW n \in 1 .. l, NEW p \in 1 .. Len(ini), IsDeinit(n, p)
                   PROVE  came(p)
      OBVIOUS
    <3>2. PICK q \in 1 .. r : IsInit(n, q) \/ (IsDeinit(n, q) /\ came(q))
      BY DEF Made
    <3>3. q \in 1 .. Len(ini)
      BY <1>1
    <3>4. QED
      BY <3>1, <3>2, <3>3, HooksApart DEF IsInit, IsDeinit
  <2>6. \A p \in 1 .. Len(ini) : came(p) => place < p
    BY <1>1
  <2>7. Ordered'
    <3>1. SUFFICES ASSUME NEW n \in 1 .. l + 1, NEW k \in 1 .. l + 1,
                          NEW p \in 1 .. Len(ini), NEW q \in 1 .. Len(ini), n < k
                   PROVE  /\ IsInit(n, p)' /\ IsInit(k, q)' => p < q
                          /\ IsDeinit(n, p)' /\ IsDeinit(k, q)' => q < p
                          /\ ~(IsDeinit(n, p)' /\ IsInit(k, q)')
      BY <2>2 DEF Ordered
    <3>2. n \in 1 .. l
      BY <1>1, <3>1
    <3>3. CASE k = l + 1
      BY <2>3, <2>4, <2>5, <2>6, <3>2, <3>3
    <3>4. CASE k # l + 1
      <4>1. k \in 1 .. l
        BY <1>1, <3>4
      <4>2. QED
        BY <2>3, <3>1, <3>2, <4>1 DEF Ordered
    <3>5. QED
      BY <3>3, <3>4
  <2>8. Made(r)'
    <3>1. \A p \in 1 .. r : p \in 1 .. Len(ini)
      BY <1>1
    <3>2. \A n \in 1 .. l + 1 : \E p \in 1 .. r :
            IsInit(n, p)' \/ (IsDeinit(n, p)' /\ (came(p) \/ p = place))
      <4>1. SUFFICES ASSUME NEW n \in 1 .. l + 1
                     PROVE  \E p \in 1 .. r : IsInit(n, p)' \/ (IsDeinit(n, p)' /\ (came(p) \/ p = place))
        OBVIOUS
      <4>2. CASE n = l + 1
        BY <1>1, <2>1, <2>4, <4>2
      <4>3. CASE n # l + 1
        <5>1. n \in 1 .. l
          BY <1>1, <4>3
        <5>2. PICK p \in 1 .. r : IsInit(n, p) \/ (IsDeinit(n, p) /\ came(p))
          BY <5>1 DEF Made
        <5>3. QED
          BY <2>3, <3>1, <5>1, <5>2
      <4>4. QED
        BY <4>2, <4>3
    <3>3. \A n \in 1 .. l : n \in 1 .. l + 1
      BY <1>1
    <3>4. \A p \in 1 .. r : ini[p].init => \E n \in 1 .. l + 1 : IsInit(n, p)'
      BY <2>3, <3>1, <3>3 DEF Made
    <3>5. \A p \in 1 .. r : ini[p].deinit /\ (came(p) \/ p = place) =>
                              \E n \in 1 .. l + 1 : IsDeinit(n, p)'
      <4>1. SUFFICES ASSUME NEW p \in 1 .. r, ini[p].deinit, came(p) \/ p = place
                     PROVE  \E n \in 1 .. l + 1 : IsDeinit(n, p)'
        OBVIOUS
      <4>2. CASE p = place
        BY <1>1, <2>4, <4>2
      <4>3. CASE came(p)
        <5>1. PICK n \in 1 .. l : IsDeinit(n, p)
          BY <4>1, <4>3 DEF Made
        <5>2. QED
          BY <2>3, <3>1, <3>3, <5>1
      <4>4. QED
        BY <4>1, <4>2, <4>3
    <3>6. QED
      BY <1>2, <2>2, <3>1, <3>2, <3>4, <3>5 DEF Made
  <2>9. QED
    BY <2>2, <2>7, <2>8
<1>5. QED
  BY <1>3, <1>4

(* The sort has every initialiser once, in the order of prio.              *)
LEMMA SortedIs ==
  ASSUME NEW s \in Sorted
  PROVE  /\ s \in Seq(Initialisers)
         /\ \A p, q \in 1 .. Len(s) : p < q => s[p] # s[q] /\ s[p].prio <= s[q].prio
         /\ \A x \in Initialisers : \E p \in 1 .. Len(s) : s[p] = x
<1> DEFINE N == Cardinality(Initialisers)
<1>1. N \in Nat /\ IsFiniteSet(Initialisers)
  BY LifecycleAssumption, FS_CardinalityType
<1>2. s \in [1 .. N -> Initialisers] /\ \A p, q \in 1 .. N : p # q => s[p] # s[q]
  BY DEF Sorted, SetToSeqs
<1>3. s \in Seq(Initialisers) /\ Len(s) = N
  BY <1>1, <1>2
<1>4. \A x \in Initialisers : \E p \in 1 .. N : s[p] = x
  <2>1. s \in Injection(1 .. N, Initialisers)
    BY <1>2 DEF Injection, IsInjective
  <2>2. IsFiniteSet(1 .. N) /\ Cardinality(1 .. N) = Cardinality(Initialisers)
    BY <1>1, FirstNumbers
  <2>3. s \in Surjection(1 .. N, Initialisers)
    BY <1>1, <2>1, <2>2, FS_Injection
  <2>4. QED
    BY <2>3 DEF Surjection
<1>5. QED
  BY <1>2, <1>3, <1>4 DEF Sorted

(* The invariant but for the counting of NULLs.                            *)
HooksInv == Lists /\ Ordered /\ Trace

(* A step that calls no hook leaves the history as it is.                  *)
LEMMA NoHook ==
  ASSUME HooksInv, UNCHANGED <<ini, back, calls>>
  PROVE  Ordered' /\ \A r : Made(r) => Made(r)'
<1>1. UNCHANGED <<ini, back, calls>>
  OBVIOUS
<1>2. \A n, p : IsInit(n, p)' = IsInit(n, p) /\ IsDeinit(n, p)' = IsDeinit(n, p)
  BY <1>1 DEF IsInit, IsDeinit, InitOf, DeinitOf
<1>3. Ordered'
  BY <1>1, <1>2 DEF HooksInv, Ordered
<1>4. \A r : Made(r) => Made(r)'
  BY <1>1, <1>2 DEF Made
<1>5. QED
  BY <1>3, <1>4

(* The main thread's steps that call no hook.                              *)
LEMMA QuietMain ==
  ASSUME HooksInv, CevfInit \/ StartThreads \/ EloopTop \/ EvJoin \/ DeleteCtrl \/ CevfDeinit
  PROVE  HooksInv'
<1>1. UNCHANGED initials
  BY DEF CevfInit, StartThreads, EloopTop, EvJoin, DeleteCtrl, CevfDeinit
<1>2. UNCHANGED <<ini, i_ini, back, calls, failed>>
  BY <1>1 DEF initials
<1>3. PICK r \in 0 .. Len(ini) : Made(r) /\ (phase \notin Late => r = Reached)
  BY DEF HooksInv, Trace
<1>4. Ordered' /\ Made(r)' /\ Reached' = Reached
  BY <1>2, <1>3, NoHook DEF Reached
<1>5. Lists' /\ (phase' \notin Late => phase \notin Late)
  <2> USE <1>2 DEF HooksInv, Lists, Early, Late, At
  <2>1. CASE CevfInit
    BY <2>1 DEF CevfInit
  <2>2. CASE StartThreads
    BY <2>2 DEF StartThreads
  <2>3. CASE EloopTop
    BY <2>3 DEF EloopTop
  <2>4. CASE EvJoin
    BY <2>4 DEF EvJoin
  <2>5. CASE DeleteCtrl \/ CevfDeinit
    BY <2>5 DEF DeleteCtrl, CevfDeinit
  <2>6. QED
    BY <2>1, <2>2, <2>3, <2>4, <2>5
<1>6. QED
  BY <1>2, <1>3, <1>4, <1>5 DEF HooksInv, Trace

(* cevf_run sorts the initialisers.                                        *)
LEMMA RunBeginsHooks ==
  ASSUME HooksInv, RunBegins
  PROVE  HooksInv'
<1>1. /\ phase = "inited" /\ phase' = "initialising" /\ ini' \in Sorted
      /\ UNCHANGED <<i_ini, back, calls, failed>>
  BY DEF RunBegins, At
<1>2. ini = <<>> /\ calls = <<>> /\ i_ini = 0 /\ back = 0 /\ failed = FALSE /\ Len(calls) = 0
      /\ calls \in Seq(HookCalls)
  BY <1>1 DEF HooksInv, Lists, Early, Late
<1>3. Lists'
  <2>1. /\ ini' \in Seq(Initialisers)
        /\ \A p, q \in 1 .. Len(ini') : p < q => ini'[p] # ini'[q] /\ ini'[p].prio <= ini'[q].prio
        /\ \A x \in Initialisers : \E p \in 1 .. Len(ini') : ini'[p] = x
    BY <1>1, SortedIs
  <2>2. i_ini' \in 0 .. Len(ini') /\ back' \in 0 .. Len(ini')
    BY <1>1, <1>2, <2>1
  <2>3. QED
    BY <1>1, <1>2, <2>1, <2>2 DEF Lists, Early, Late
<1>4. Ordered' /\ Made(0)' /\ Reached' = 0 /\ 0 \in 0 .. Len(ini')
  BY <1>1, <1>2, <1>3 DEF Ordered, Made, Reached, Lists
<1>5. QED
  BY <1>3, <1>4 DEF HooksInv, Trace

(* One initialiser.                                                        *)
LEMMA InitialiserHooks ==
  ASSUME HooksInv, Initialiser
  PROVE  HooksInv'
<1>1. phase = "initialising" /\ i_ini < Len(ini) /\ UNCHANGED <<ini, back>> /\ back = 0 /\ ~failed
      /\ i_ini \in Nat /\ Len(ini) \in Nat
  BY DEF Initialiser, At, HooksInv, Lists, Early, Late
<1>2. Made(i_ini)
  BY <1>1 DEF HooksInv, Trace, Late, Reached
<1>3. calls' = IF ini[i_ini + 1].init THEN Append(calls, InitOf(ini[i_ini + 1])) ELSE calls
  BY DEF Initialiser, InitOf
<1>4. \/ i_ini' = i_ini + 1 /\ phase' = phase /\ failed' = failed
      \/ i_ini' = i_ini /\ phase' = "deinitialising" /\ failed' = TRUE
  BY DEF Initialiser
<1>5. PICK r : r = i_ini
  OBVIOUS
<1>6. r \in 0 .. Len(ini) - 1 /\ r + 1 \in 0 .. Len(ini)
  BY <1>1, <1>5
<1>7. calls' \in Seq(HookCalls) /\ Made(r + 1)' /\ Ordered'
  BY <1>1, <1>2, <1>3, <1>5, <1>6, InitCalled DEF HooksInv
<1>8. Lists'
  <2>1. i_ini' \in 0 .. Len(ini') /\ failed' \in BOOLEAN
    <3>1. i_ini' \in 0 .. Len(ini')
      BY <1>1, <1>4
    <3>2. failed \in BOOLEAN
      BY DEF HooksInv, Lists
    <3>3. failed' \in BOOLEAN
      BY <1>4, <3>2
    <3>4. QED
      BY <3>1, <3>3
  <2>2. CASE phase' = phase /\ failed' = failed
    BY <1>1, <1>7, <2>1, <2>2 DEF HooksInv, Lists, Early, Late
  <2>3. CASE i_ini' = i_ini /\ phase' = "deinitialising" /\ failed' = TRUE
    BY <1>1, <1>7, <2>1, <2>3 DEF HooksInv, Lists, Early, Late
  <2>4. QED
    BY <1>4, <2>2, <2>3
<1>9. Reached' = r + 1
  BY <1>1, <1>4, <1>5 DEF Reached
<1>10. QED
  BY <1>1, <1>6, <1>7, <1>8, <1>9 DEF HooksInv, Trace

(* One round of the deinitialisers, and their end.                         *)
LEMMA DeinitialiserHooks ==
  ASSUME HooksInv, Deinitialiser \/ Deinitialised
  PROVE  HooksInv'
<1>1. /\ phase = "deinitialising" /\ UNCHANGED <<ini, failed>> /\ i_ini \in Nat /\ Len(ini) \in Nat
      /\ back \in Nat /\ failed \in BOOLEAN
      /\ IF failed THEN i_ini < Len(ini) ELSE i_ini = Len(ini)
  BY DEF Deinitialiser, Deinitialised, At, HooksInv, Lists
<1>2. PICK r \in 0 .. Len(ini) : Made(r) /\ r = Reached
  BY <1>1 DEF HooksInv, Trace, Late
<1>3. CASE Deinitialiser
  <2>1. PICK place : place = Len(ini) - back
    OBVIOUS
  <2>2. back < Len(ini) /\ back' = back + 1 /\ UNCHANGED <<phase, i_ini>>
    BY <1>3 DEF Deinitialiser
  <2>3. place <= i_ini + 1 <=> place <= r
    BY <1>1, <1>2, <2>1, <2>2 DEF Reached
  <2>4. calls' = IF place <= r /\ ini[place].deinit THEN Append(calls, DeinitOf(ini[place])) ELSE calls
    BY <1>3, <2>1, <2>3 DEF Deinitialiser, DeinitOf
  <2>5. calls' \in Seq(HookCalls) /\ Made(r)' /\ Ordered'
    BY <1>1, <1>2, <2>1, <2>2, <2>4, DeinitCalled DEF HooksInv
  <2>6. Lists'
    BY <1>1, <2>2, <2>5 DEF HooksInv, Lists, Early, Late
  <2>7. Reached' = r
    BY <1>1, <1>2, <2>2 DEF Reached
  <2>8. QED
    BY <1>1, <2>5, <2>6, <2>7 DEF HooksInv, Trace
<1>4. CASE Deinitialised
  <2>1. phase' = "closing" /\ i_ini' = 0 /\ back = Len(ini) /\ UNCHANGED <<back, calls>>
    BY <1>4 DEF Deinitialised
  <2>2. Lists'
    BY <1>1, <2>1 DEF HooksInv, Lists, Early, Late
  <2>3. Made(r)' /\ Ordered'
    BY <1>1, <1>2, <2>1, NoHook
  <2>4. QED
    BY <1>1, <2>1, <2>2, <2>3 DEF HooksInv, Trace, Late
<1>5. QED
  BY <1>3, <1>4

(* Steps of others: they may wake the main thread, no more.                *)
LEMMA OthersHooks ==
  ASSUME HooksInv, UNCHANGED initials,
         \/ phase' = phase
         \/ phase = "asleep" /\ phase' = "eloop"
         \/ phase = "mainloop" /\ phase' = "joining"
  PROVE  HooksInv'
<1>1. UNCHANGED <<ini, i_ini, back, calls, failed>>
  BY DEF initials
<1>2. PICK r \in 0 .. Len(ini) : Made(r) /\ (phase \notin Late => r = Reached)
  BY DEF HooksInv, Trace
<1>3. Ordered' /\ Made(r)' /\ Reached' = Reached
  BY <1>1, <1>2, NoHook DEF Reached
<1>4. Lists' /\ (phase' \notin Late => phase \notin Late)
  BY <1>1 DEF HooksInv, Lists, Early, Late
<1>5. QED
  BY <1>1, <1>2, <1>3, <1>4 DEF HooksInv, Trace

(* Only an enqueue of cevf_terminate adds a NULL, and its call is over.    *)
LEMMA NullsStep ==
  ASSUME IInv, NullsSent, [Next]_vars
  PROVE  NullsSent'
<1> DEFINE Over == {k \in Terminators : term[k] = "done"}
<1>1. IsFiniteSet(Over) /\ Cardinality(Over) \in Nat /\ IsFiniteSet(Over') /\ Cardinality(Over)' \in Nat
  BY LifecycleAssumption, PartOf, FS_CardinalityType
<1>2. nulls \in Nat /\ term \in [Terminators -> {"no", "closed", "enq", "done"}]
  BY DEF IInv, Types
<1>3. CASE \E k \in Terminators : TerminateEnq(k)
  <2>1. PICK k \in Terminators : TerminateEnq(k)
    BY <1>3
  <2>2. term[k] = "enq" /\ term' = [term EXCEPT ![k] = "done"] /\ nulls' <= nulls + 1
    BY <1>2, <2>1 DEF TerminateEnq
  <2>3. Over' = Over \cup {k} /\ k \notin Over
    BY <1>2, <2>2
  <2>4. Cardinality(Over') = Cardinality(Over) + 1
    BY <1>1, <2>3, FS_AddElement
  <2>5. nulls' \in Nat
    BY <1>2, <2>1 DEF TerminateEnq
  <2>6. QED
    BY <1>1, <1>2, <2>2, <2>4, <2>5 DEF NullsSent
<1>4. CASE MainloopEnds
  BY <1>1, <1>2, <1>4 DEF MainloopEnds, signals, NullsSent
<1>5. CASE \E k \in Terminators : TerminateClose(k) \/ TerminateEloop(k)
  <2>1. PICK k \in Terminators : TerminateClose(k) \/ TerminateEloop(k)
    BY <1>5
  <2>2. nulls' = nulls /\ term[k] # "done" /\ \E t \in {"closed", "enq"} : term' = [term EXCEPT ![k] = t]
    BY <2>1 DEF TerminateClose, TerminateEloop, queue
  <2>3. Over' = Over
    BY <1>2, <2>2
  <2>4. QED
    BY <2>2, <2>3 DEF NullsSent
<1>6. CASE MainStep \/ Work \/ SockEvent \/ UNCHANGED vars
  <2>1. nulls' = nulls /\ term' = term
    BY <1>6 DEF MainStep, CevfInit, RunBegins, Initialiser, StartThreads, EloopTop, EvJoin,
                Deinitialiser, Deinitialised, DeleteCtrl, CevfDeinit, Work, SockEvent,
                vars, queue, signals
  <2>2. QED
    BY <2>1 DEF NullsSent
<1>7. QED
  BY <1>3, <1>4, <1>5, <1>6 DEF Next, TerminateStep

(* The invariant is inductive.                                             *)
LEMMA StepHInv == HInv /\ [Next]_vars => HInv'
<1>1. SUFFICES ASSUME HInv, [Next]_vars PROVE HooksInv'
  BY StepIInv, NullsStep DEF HInv, HooksInv
<1>2. HooksInv
  BY <1>1 DEF HInv, HooksInv
<1>3. CASE MainStep
  BY <1>2, <1>3, QuietMain, RunBeginsHooks, InitialiserHooks, DeinitialiserHooks DEF MainStep
<1>4. CASE Work \/ SockEvent \/ MainloopEnds
  BY <1>2, <1>4, OthersHooks DEF Work, SockEvent, MainloopEnds, At
<1>5. CASE \E k \in Terminators : TerminateClose(k) \/ TerminateStep(k)
  BY <1>2, <1>5, OthersHooks DEF TerminateClose, TerminateStep, TerminateEloop, TerminateEnq
<1>6. CASE UNCHANGED vars
  BY <1>2, <1>6, OthersHooks DEF vars
<1>7. QED
  BY <1>1, <1>3, <1>4, <1>5, <1>6 DEF Next
(* A call of the history is that of one initialiser that was reached.      *)
LEMMA WhoseCall ==
  ASSUME Lists, NEW r \in 0 .. Len(ini), Made(r), NEW n \in 1 .. Len(calls), NEW x \in Initialisers
  PROVE  /\ calls[n] = InitOf(x) => \E p \in 1 .. r : ini[p] = x /\ IsInit(n, p)
         /\ calls[n] = DeinitOf(x) => \E p \in 1 .. r : ini[p] = x /\ IsDeinit(n, p)
<1>1. PICK p \in 1 .. r : IsInit(n, p) \/ IsDeinit(n, p)
  BY DEF Made
<1>2. p \in 1 .. Len(ini) /\ ini[p] \in Initialisers
  BY DEF Lists
<1>3. CASE calls[n] = InitOf(x)
  <2>1. IsInit(n, p) /\ ini[p].name = x.name
    BY <1>1, <1>3 DEF IsInit, IsDeinit, InitOf, DeinitOf
  <2>2. QED
    BY <1>2, <1>3, <2>1, InitialisersAre DEF InitOf, DeinitOf
<1>4. CASE calls[n] = DeinitOf(x)
  <2>1. IsDeinit(n, p) /\ ini[p].name = x.name
    BY <1>1, <1>4 DEF IsInit, IsDeinit, InitOf, DeinitOf
  <2>2. QED
    BY <1>2, <1>4, <2>1, InitialisersAre DEF InitOf, DeinitOf
<1>5. QED
  BY <1>3, <1>4

(* The order of the calls.                                                 *)
LEMMA CallsInPriority ==
  ASSUME Lists, Ordered, Trace
  PROVE  InPriority
<1>1. PICK r \in 0 .. Len(ini) : Made(r)
  BY DEF Trace
<1>2. \A p \in 1 .. r : p \in 1 .. Len(ini) /\ ini[p] \in Initialisers /\ p \in Nat
  BY DEF Lists
<1>3. ASSUME NEW n \in 1 .. Len(calls), NEW k \in 1 .. Len(calls), n < k
      PROVE  calls[n] # calls[k]
  <2>1. PICK p \in 1 .. r : IsInit(n, p) \/ IsDeinit(n, p)
    BY <1>1 DEF Made
  <2>2. PICK q \in 1 .. r : IsInit(k, q) \/ IsDeinit(k, q)
    BY <1>1 DEF Made
  <2>3. /\ InitOf(ini[p]) # DeinitOf(ini[q]) /\ InitOf(ini[q]) # DeinitOf(ini[p])
        /\ InitOf(ini[p]) = InitOf(ini[q]) => p = q
        /\ DeinitOf(ini[p]) = DeinitOf(ini[q]) => p = q
    BY <1>2, HooksApart
  <2>4. /\ IsInit(n, p) /\ IsInit(k, q) => p < q
        /\ IsDeinit(n, p) /\ IsDeinit(k, q) => q < p
    BY <1>2, <1>3 DEF Ordered
  <2>5. CASE IsInit(n, p) /\ IsInit(k, q)
    BY <1>2, <2>3, <2>4, <2>5 DEF IsInit
  <2>6. CASE IsDeinit(n, p) /\ IsDeinit(k, q)
    BY <1>2, <2>3, <2>4, <2>6 DEF IsDeinit
  <2>7. CASE (IsInit(n, p) /\ IsDeinit(k, q)) \/ (IsDeinit(n, p) /\ IsInit(k, q))
    BY <2>3, <2>7 DEF IsInit, IsDeinit
  <2>8. QED
    BY <2>1, <2>2, <2>5, <2>6, <2>7
<1>4. ASSUME NEW x \in Initialisers, NEW y \in Initialisers, x.prio < y.prio,
             Before(InitOf(y), InitOf(x))
      PROVE  FALSE
  <2>1. PICK n, k \in 1 .. Len(calls) : n < k /\ calls[n] = InitOf(y) /\ calls[k] = InitOf(x)
    BY <1>4 DEF Before
  <2>2. PICK p \in 1 .. r : ini[p] = y /\ IsInit(n, p)
    BY <1>1, <2>1, WhoseCall
  <2>3. PICK q \in 1 .. r : ini[q] = x /\ IsInit(k, q)
    BY <1>1, <2>1, WhoseCall
  <2>4. p < q
    BY <1>2, <2>1, <2>2, <2>3 DEF Ordered
  <2>5. y.prio <= x.prio
    BY <1>2, <2>2, <2>3, <2>4 DEF Lists
  <2>6. QED
    BY <1>4, <2>5, InitialisersAre
<1>5. ASSUME NEW x \in Initialisers, NEW y \in Initialisers, x.prio < y.prio,
             Before(DeinitOf(x), DeinitOf(y))
      PROVE  FALSE
  <2>1. PICK n, k \in 1 .. Len(calls) : n < k /\ calls[n] = DeinitOf(x) /\ calls[k] = DeinitOf(y)
    BY <1>5 DEF Before
  <2>2. PICK p \in 1 .. r : ini[p] = x /\ IsDeinit(n, p)
    BY <1>1, <2>1, WhoseCall
  <2>3. PICK q \in 1 .. r : ini[q] = y /\ IsDeinit(k, q)
    BY <1>1, <2>1, WhoseCall
  <2>4. q < p
    BY <1>2, <2>1, <2>2, <2>3 DEF Ordered
  <2>5. y.prio <= x.prio
    BY <1>2, <2>2, <2>3, <2>4 DEF Lists
  <2>6. QED
    BY <1>5, <2>5, InitialisersAre
<1>6. \A n, k \in 1 .. Len(calls) : calls[n] = calls[k] => n = k
  <2>1. SUFFICES ASSUME NEW n \in 1 .. Len(calls), NEW k \in 1 .. Len(calls), n # k
                 PROVE  calls[n] # calls[k]
    OBVIOUS
  <2>2. n < k \/ k < n
    BY <2>1
  <2>3. QED
    BY <1>3, <2>2
<1>7. QED
  BY <1>4, <1>5, <1>6 DEF InPriority

(* After the loop over the deinitialisers, what was called is undone.      *)
LEMMA AllUndone ==
  ASSUME Lists, Ordered, Trace, phase \in {"closing", "deleted"}
  PROVE  Undone
<1>1. PICK r \in 0 .. Len(ini) : Made(r)
  BY DEF Trace
<1>2. \A p \in 1 .. r : p \in 1 .. Len(ini) /\ ini[p] \in Initialisers /\ p \in Nat
  BY DEF Lists
<1>3. \A p \in 1 .. r : ini[p].deinit => \E n \in 1 .. Len(calls) : IsDeinit(n, p)
  <2>1. back = Len(ini) /\ Len(ini) \in Nat
    BY DEF Lists
  <2>2. \A p \in 1 .. r : p > Len(ini) - back
    BY <2>1
  <2>3. QED
    BY <1>1, <2>2 DEF Made
<1>4. ASSUME NEW x \in Initialisers, Called(InitOf(x)), x.deinit
      PROVE  Before(InitOf(x), DeinitOf(x))
  <2>1. PICK n \in 1 .. Len(calls) : calls[n] = InitOf(x)
    BY <1>4 DEF Called
  <2>2. PICK p \in 1 .. r : ini[p] = x /\ IsInit(n, p)
    BY <1>1, <2>1, WhoseCall
  <2>3. PICK k \in 1 .. Len(calls) : IsDeinit(k, p)
    BY <1>3, <1>4, <2>2
  <2>4. calls[k] = DeinitOf(x)
    BY <2>2, <2>3 DEF IsDeinit
  <2>5. n # k
    BY <2>1, <2>4 DEF InitOf, DeinitOf
  <2>6. ~(k < n)
    BY <1>2, <2>2, <2>3 DEF Ordered
  <2>7. n < k
    BY <2>5, <2>6
  <2>8. QED
    BY <2>1, <2>4, <2>7 DEF Before
<1>5. ASSUME NEW x \in Initialisers, NEW y \in Initialisers, Called(DeinitOf(x)), y.init,
             y = x \/ y.prio < x.prio
      PROVE  Called(InitOf(y))
  <2>1. PICK n \in 1 .. Len(calls) : calls[n] = DeinitOf(x)
    BY <1>5 DEF Called
  <2>2. PICK p \in 1 .. r : ini[p] = x /\ IsDeinit(n, p)
    BY <1>1, <2>1, WhoseCall
  <2>3. PICK q \in 1 .. Len(ini) : ini[q] = y /\ (y = x => q = p)
    <3>1. \E q \in 1 .. Len(ini) : ini[q] = y
      BY DEF Lists, Early
    <3>2. QED
      BY <1>2, <2>2, <3>1
  <2>4. q <= p
    <3>1. SUFFICES ASSUME p < q, y.prio < x.prio PROVE FALSE
      BY <1>2, <1>5, <2>3
    <3>2. x.prio <= y.prio
      BY <1>2, <2>2, <2>3, <3>1 DEF Lists
    <3>3. QED
      BY <3>1, <3>2, InitialisersAre
  <2>5. q \in 1 .. r
    BY <1>2, <2>4
  <2>6. PICK k \in 1 .. Len(calls) : IsInit(k, q)
    BY <1>1, <1>5, <2>3, <2>5 DEF Made
  <2>7. QED
    BY <2>3, <2>6 DEF IsInit, Called
<1>6. ASSUME NEW x \in Initialisers, NEW y \in Initialisers, Before(InitOf(x), InitOf(y)),
             x.deinit, y.deinit
      PROVE  Before(DeinitOf(y), DeinitOf(x))
  <2>1. PICK n, k \in 1 .. Len(calls) : n < k /\ calls[n] = InitOf(x) /\ calls[k] = InitOf(y)
    BY <1>6 DEF Before
  <2>2. PICK p \in 1 .. r : ini[p] = x /\ IsInit(n, p)
    BY <1>1, <2>1, WhoseCall
  <2>3. PICK q \in 1 .. r : ini[q] = y /\ IsInit(k, q)
    BY <1>1, <2>1, WhoseCall
  <2>4. p < q
    BY <1>2, <2>1, <2>2, <2>3 DEF Ordered
  <2>5. PICK i \in 1 .. Len(calls) : IsDeinit(i, p)
    BY <1>3, <1>6, <2>2
  <2>6. PICK j \in 1 .. Len(calls) : IsDeinit(j, q)
    BY <1>3, <1>6, <2>3
  <2>7. calls[i] = DeinitOf(x) /\ calls[j] = DeinitOf(y)
    BY <2>2, <2>3, <2>5, <2>6 DEF IsDeinit
  <2>8. i # j
    BY <1>2, <2>2, <2>3, <2>4, <2>7, HooksApart
  <2>9. ~(i < j)
    BY <1>2, <2>4, <2>5, <2>6 DEF Ordered
  <2>10. j < i
    BY <2>8, <2>9
  <2>11. QED
    BY <2>7, <2>10 DEF Before
<1>7. QED
  BY <1>4, <1>5, <1>6 DEF Undone

(* The types, with the bound on the NULLs in ctrl_mq.                      *)
LEMMA TypesFromHInv ==
  ASSUME HInv
  PROVE  TypeOK
<1>1. nulls \in 0 .. Cardinality(Terminators)
  <2>1. /\ Cardinality({k \in Terminators : term[k] = "done"}) <= Cardinality(Terminators)
        /\ Cardinality({k \in Terminators : term[k] = "done"}) \in Nat
    BY LifecycleAssumption, PartOf
  <2>2. nulls \in Nat /\ nulls <= Cardinality({k \in Terminators : term[k] = "done"})
    BY DEF HInv, IInv, Types, NullsSent
  <2>3. Cardinality(Terminators) \in Nat
    BY LifecycleAssumption, FS_CardinalityType
  <2>4. QED
    BY <2>1, <2>2, <2>3
<1>2. QED
  BY <1>1 DEF HInv, IInv, Types, Lists, TypeOK

(* The hooks are called in the order of prio, and undone in the reverse    *)
(* order, each once, those and no others that were reached (cevf.c:1180).  *)
THEOREM DeinitAlwaysMirrorsInit == Spec => []DeinitMirrorsInit
<1>1. HInv => DeinitMirrorsInit
  BY TypesFromHInv, CallsInPriority, AllUndone DEF HInv, DeinitMirrorsInit
<1>2. QED
  BY <1>1, InitHInv, StepHInv, PTL DEF Spec
=============================================================================
