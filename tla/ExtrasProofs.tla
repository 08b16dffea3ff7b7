---------------------------- MODULE ExtrasProofs ----------------------------
(***************************************************************************)
(* Proofs about the procedures, for every number of threads, procedures    *)
(* and entries and every depth of calls; about the Lua macros, for every   *)
(* directory and every kind of call; about the adapters, for every number  *)
(* of requests, consumers and bytes and every size of the queue; and about *)
(* packet assembly, for every plan of packets, number of consumers and     *)
(* size of the fragments and of the queue.                                 *)
(***************************************************************************)
EXTENDS MCExtras, CountingLemmas, SequenceTheorems

(* What an operation knows of its entry at each of its places, as long as  *)
(* nobody else changes its number.                                         *)
Good(f) ==
  /\ f.at # "store" => f.entry = table[f.no] /\ f.entry \notin freed
  /\ f.op # "add" => f.entry # 0
  /\ f.op = "rm" /\ f.at = "store" => f.entry = table[f.no] /\ f.entry \in freed
  /\ f.op = "add" /\ f.at = "store" =>
       /\ f.entry \in (1 .. made) \ freed
       /\ \A n \in Numbers : table[n] # f.entry
       /\ table[f.no] \in {0} \cup freed

(* An operation that is inside a function calls it, and has the mutex.     *)
Shapes ==
  \A p \in InProgress :
    /\ Frame(p).at = "in" => Frame(p).op = "exec"
    /\ Frame(p).at = "store" => Frame(p).op # "exec"
    /\ Frame(p).op = "rm" => Frame(p).entry # 0
    /\ Frame(p).entry <= made
    /\ p[2] < Len(stack[p[1]]) => Frame(p).at = "in"

(* Additions are begun only if there is an entry left for them (the bound  *)
(* of the model).                                                          *)
Room == made + Cardinality(Adding) <= MaxEntries

Stopped == ~live => InProgress = {}

Alone ==
  \A p, q \in InProgress :
    p # q /\ Frame(p).no = Frame(q).no => Frame(p).op = "exec" /\ Frame(q).op = "exec"
AllGood == \A p \in InProgress : Good(Frame(p))
Pending(p) == Frame(p).op = "add" /\ Frame(p).at = "store"
FreshApart ==
  \A p, q \in InProgress : p # q /\ Pending(p) /\ Pending(q) => Frame(p).entry # Frame(q).entry
Valid ==
  live => \A n \in Numbers : table[n] \in freed =>
            \E p \in InProgress : Frame(p).no = n /\ Frame(p).at = "store"
Injective == \A m, n \in Numbers : table[m] = table[n] /\ m # n => table[m] = 0
Kept ==
  \A e \in 1 .. made :
    \/ e \in freed
    \/ live /\ \E n \in Numbers : table[n] = e
    \/ \E p \in InProgress : Frame(p).op = "add" /\ Frame(p).entry = e
Held(p) == Frame(p).at = "in" /\ Frame(p).no \in Synchronized
Locked ==
  /\ \A p \in InProgress : Held(p) => mut[Frame(p).entry] = p[1]
  /\ \A p, q \in InProgress : Held(p) /\ Held(q) /\ Frame(p).no = Frame(q).no => p = q

Calm ==
  /\ ~fault
  /\ Alone /\ AllGood /\ FreshApart /\ Valid /\ Injective /\ Kept /\ Locked

IInv == TypeOK /\ Shapes /\ Room /\ Stopped /\ (overlap \/ Calm)
-----------------------------------------------------------------------------
(***************************************************************************)
(* The stacks: which frame each operation on them changes.                 *)
(***************************************************************************)
(* The place of the innermost operation, and of one that begins.           *)
Here(t) == <<t, Len(stack[t])>>
Above(t) == <<t, Len(stack[t]) + 1>>

(* Operations in progress are frames, and finitely many.                   *)
LEMMA FrameTypes ==
  ASSUME TypeOK
  PROVE  /\ \A p \in InProgress : Frame(p) \in Frames
         /\ \A p \in InProgress : p[1] \in Threads /\ p = <<p[1], p[2]>>
         /\ \A t \in Threads : stack[t] # <<>> =>
              Here(t) \in InProgress /\ Frame(Here(t)) = Top(t) /\ Top(t) \in Frames
         /\ \A t \in Threads : Above(t) \notin InProgress
         /\ InProgress = {} <=> \A t \in Threads : stack[t] = <<>>
<1>1. \A t \in Threads : stack[t] \in Seq(Frames) /\ Len(stack[t]) \in Nat /\ Len(stack[t]) <= MaxDepth
  BY DEF TypeOK
<1>2. \A p \in InProgress : Frame(p) \in Frames /\ p[1] \in Threads /\ p = <<p[1], p[2]>>
  BY <1>1 DEF InProgress, Frame
<1>3. \A t \in Threads : stack[t] # <<>> =>
        Here(t) \in InProgress /\ Frame(Here(t)) = Top(t) /\ Top(t) \in Frames
  <2>1. SUFFICES ASSUME NEW t \in Threads, stack[t] # <<>>
                 PROVE  Here(t) \in InProgress /\ Frame(Here(t)) = Top(t) /\ Top(t) \in Frames
    OBVIOUS
  <2>2. Len(stack[t]) \in 1 .. MaxDepth
    BY <1>1, <2>1, ProceduresAssumption
  <2>3. Top(t) \in Frames
    BY <1>1, <2>2 DEF Top
  <2>4. QED
    BY <2>2, <2>3 DEF InProgress, Frame, Here, Top
<1>4. \A t \in Threads : Above(t) \notin InProgress
  BY <1>1 DEF Above, InProgress
<1>5. InProgress = {} <=> \A t \in Threads : stack[t] = <<>>
  BY <1>1, <1>3 DEF InProgress
<1>6. QED
  BY <1>2, <1>3, <1>4, <1>5

(* An operation begins: a frame more.                                      *)
LEMMA PushEffect ==
  ASSUME TypeOK, NEW t \in Threads, NEW f \in Frames, Push(t, f), Len(stack[t]) < MaxDepth,
         NEW new, new = Above(t)
  PROVE  /\ stack' \in [Threads -> Seq(Frames)] /\ \A u \in Threads : Len(stack'[u]) <= MaxDepth
         /\ InProgress' = InProgress \cup {new}
         /\ \A p \in InProgress : Frame(p)' = Frame(p)
         /\ Frame(new)' = f
         /\ \A u \in Threads : Len(stack'[u]) = IF u = t THEN Len(stack[t]) + 1 ELSE Len(stack[u])
<1>1. \A u \in Threads : stack[u] \in Seq(Frames) /\ Len(stack[u]) \in Nat /\ Len(stack[u]) <= MaxDepth
  BY DEF TypeOK
<1>2. stack'[t] = Append(stack[t], f) /\ \A u \in Threads : u # t => stack'[u] = stack[u]
  BY DEF Push, TypeOK
<1>3. /\ Append(stack[t], f) \in Seq(Frames) /\ Len(Append(stack[t], f)) = Len(stack[t]) + 1
      /\ Append(stack[t], f)[Len(stack[t]) + 1] = f
      /\ \A i \in 1 .. Len(stack[t]) : Append(stack[t], f)[i] = stack[t][i]
  BY <1>1
<1>4. stack' \in [Threads -> Seq(Frames)]
  BY <1>1, <1>2, <1>3 DEF Push, TypeOK
<1>5. \A u \in Threads : Len(stack'[u]) = IF u = t THEN Len(stack[t]) + 1 ELSE Len(stack[u])
  BY <1>1, <1>2, <1>3
<1>6. InProgress' = InProgress \cup {new}
  <2>1. \A u \in Threads, i \in 1 .. MaxDepth :
          <<u, i>> \in InProgress' <=> <<u, i>> \in InProgress \cup {new}
    BY <1>1, <1>5 DEF InProgress, Above
  <2>2. Above(t) \in Threads \X (1 .. MaxDepth)
    BY <1>1, ProceduresAssumption DEF Above
  <2>3. QED
    BY <2>1, <2>2 DEF InProgress
<1>7. \A p \in InProgress : Frame(p)' = Frame(p)
  BY <1>1, <1>2, <1>3 DEF InProgress, Frame
<1>8. Frame(new)' = f
  BY <1>2, <1>3 DEF Frame, Above
<1>9. \A u \in Threads : Len(stack'[u]) <= MaxDepth
  BY <1>1, <1>5, ProceduresAssumption
<1>10. QED
  BY <1>4, <1>5, <1>6, <1>7, <1>8, <1>9

(* An operation goes on: its frame changes.                                *)
LEMMA SetTopEffect ==
  ASSUME TypeOK, NEW t \in Threads, NEW f \in Frames, SetTop(t, f), stack[t] # <<>>,
         NEW top, top = Here(t)
  PROVE  /\ stack' \in [Threads -> Seq(Frames)] /\ \A u \in Threads : Len(stack'[u]) <= MaxDepth
         /\ InProgress' = InProgress
         /\ \A p \in InProgress : p # top => Frame(p)' = Frame(p)
         /\ Frame(top)' = f
         /\ \A u \in Threads : Len(stack'[u]) = Len(stack[u])
<1>1. \A u \in Threads : stack[u] \in Seq(Frames) /\ Len(stack[u]) \in Nat /\ Len(stack[u]) <= MaxDepth
  BY DEF TypeOK
<1>2. stack'[t] = [stack[t] EXCEPT ![Len(stack[t])] = f] /\ \A u \in Threads : u # t => stack'[u] = stack[u]
  BY DEF SetTop, TypeOK
<1>3. Len(stack[t]) \in 1 .. Len(stack[t])
  BY <1>1
<1>4. /\ stack'[t] \in Seq(Frames) /\ Len(stack'[t]) = Len(stack[t])
      /\ stack'[t][Len(stack[t])] = f
      /\ \A i \in 1 .. Len(stack[t]) : i # Len(stack[t]) => stack'[t][i] = stack[t][i]
  BY <1>1, <1>2, <1>3
<1>5. stack' \in [Threads -> Seq(Frames)]
  <2>1. DOMAIN stack' = Threads /\ stack' = [u \in Threads |-> stack'[u]]
    BY DEF SetTop, TypeOK
  <2>2. \A u \in Threads : stack'[u] \in Seq(Frames)
    BY <1>1, <1>2, <1>4
  <2>3. QED
    BY <2>1, <2>2
<1>6. \A u \in Threads : Len(stack'[u]) = Len(stack[u])
  BY <1>2, <1>4
<1>7. InProgress' = InProgress
  BY <1>6 DEF InProgress
<1>8. \A p \in InProgress : p # top => Frame(p)' = Frame(p)
  BY <1>1, <1>2, <1>4 DEF InProgress, Frame, Here
<1>9. Frame(top)' = f
  BY <1>4 DEF Frame, Here
<1>10. QED
  BY <1>1, <1>5, <1>6, <1>7, <1>8, <1>9

(* An operation ends: a frame less.                                        *)
LEMMA PopEffect ==
  ASSUME TypeOK, NEW t \in Threads, Pop(t), stack[t] # <<>>
  PROVE  /\ stack' \in [Threads -> Seq(Frames)] /\ \A u \in Threads : Len(stack'[u]) <= MaxDepth
         /\ InProgress' = InProgress \ {Here(t)}
         /\ \A p \in InProgress' : Frame(p)' = Frame(p)
         /\ \A u \in Threads : Len(stack'[u]) = IF u = t THEN Len(stack[t]) - 1 ELSE Len(stack[u])
<1>1. \A u \in Threads : stack[u] \in Seq(Frames) /\ Len(stack[u]) \in Nat /\ Len(stack[u]) <= MaxDepth
  BY DEF TypeOK
<1>2. stack'[t] = SubSeq(stack[t], 1, Len(stack[t]) - 1) /\ \A u \in Threads : u # t => stack'[u] = stack[u]
  BY DEF Pop, TypeOK
<1>3. Len(stack[t]) - 1 \in Nat /\ Len(stack[t]) \in Nat \ {0}
  BY <1>1
<1>4. /\ stack'[t] \in Seq(Frames) /\ Len(stack'[t]) = Len(stack[t]) - 1
      /\ \A i \in 1 .. Len(stack[t]) - 1 : stack'[t][i] = stack[t][i]
  BY <1>1, <1>2, <1>3
<1>5. stack' \in [Threads -> Seq(Frames)]
  <2>1. DOMAIN stack' = Threads /\ stack' = [u \in Threads |-> stack'[u]]
    BY DEF Pop, TypeOK
  <2>2. \A u \in Threads : stack'[u] \in Seq(Frames)
    BY <1>1, <1>2, <1>4
  <2>3. QED
    BY <2>1, <2>2
<1>6. \A u \in Threads : Len(stack'[u]) = IF u = t THEN Len(stack[t]) - 1 ELSE Len(stack[u])
  BY <1>2, <1>4
<1>7. InProgress' = InProgress \ {Here(t)}
  <2>1. \A u \in Threads, i \in 1 .. MaxDepth :
          <<u, i>> \in InProgress' <=> <<u, i>> \in InProgress \ {Here(t)}
    BY <1>1, <1>3, <1>6 DEF InProgress, Here
  <2>2. QED
    BY <2>1 DEF InProgress
<1>8. \A p \in InProgress' : Frame(p)' = Frame(p)
  <2>1. SUFFICES ASSUME NEW u \in Threads, NEW i \in 1 .. MaxDepth, i <= Len(stack'[u])
                 PROVE  stack'[u][i] = stack[u][i]
    BY DEF InProgress, Frame
  <2>2. CASE u = t
    BY <1>1, <1>4, <2>1, <2>2
  <2>3. CASE u # t
    BY <1>2, <2>3
  <2>4. QED
    BY <2>2, <2>3
<1>9. \A u \in Threads : Len(stack'[u]) <= MaxDepth
  BY <1>1, <1>6, ProceduresAssumption
<1>10. QED
  BY <1>5, <1>6, <1>7, <1>8, <1>9
-----------------------------------------------------------------------------
(***************************************************************************)
(* The steps.                                                              *)
(***************************************************************************)
(* The operations that are left keep their shapes when one ends.           *)
LEMMA PopShapes ==
  ASSUME TypeOK, Shapes, NEW t \in Threads, Pop(t), stack[t] # <<>>, made' = made
  PROVE  Shapes'
<1>1. /\ InProgress' = InProgress \ {Here(t)}
      /\ \A p \in InProgress' : Frame(p)' = Frame(p)
      /\ \A u \in Threads : Len(stack'[u]) = IF u = t THEN Len(stack[t]) - 1 ELSE Len(stack[u])
  BY PopEffect
<1>2. \A p \in InProgress : p[1] \in Threads
  BY FrameTypes
<1>3. \A u \in Threads : Len(stack'[u]) <= Len(stack[u])
  BY <1>1 DEF TypeOK
<1>4. \A p \in InProgress' : p[2] < Len(stack'[p[1]]) => p[2] < Len(stack[p[1]])
  BY <1>1, <1>2, <1>3 DEF InProgress, TypeOK
<1>5. QED
  BY <1>1, <1>4 DEF Shapes

(* There are finitely many operations in progress.                         *)
LEMMA AddingFinite ==
  IsFiniteSet(InProgress) /\ IsFiniteSet(Adding) /\ Cardinality(Adding) \in Nat
<1>1. IsFiniteSet(Threads \X (1 .. MaxDepth))
  <2>1. IsFiniteSet(1 .. MaxDepth)
    BY ProceduresAssumption, FS_Interval
  <2>2. QED
    BY <2>1, ProceduresAssumption, FS_Product
<1>2. InProgress \subseteq Threads \X (1 .. MaxDepth) /\ Adding \subseteq InProgress
  BY DEF InProgress, Adding
<1>3. QED
  BY <1>1, <1>2, PartOf

(* A step that uses a freed entry changes nothing else.                    *)
LEMMA FaultKeeps ==
  ASSUME IInv, overlap, Fault
  PROVE  IInv'
<1>1. TypeOK'
  BY DEF IInv, Fault, TypeOK
<1>2. Shapes' /\ Room' /\ Stopped' /\ overlap'
  BY DEF IInv, Fault, Shapes, Room, Stopped, Adding, InProgress, Frame
<1>3. QED
  BY <1>1, <1>2 DEF IInv

(* What is true of the operation a thread is in.                           *)
LEMMA TopFacts ==
  ASSUME IInv, NEW t \in Threads, stack[t] # <<>>
  PROVE  /\ Here(t) \in InProgress /\ Frame(Here(t)) = Top(t) /\ Top(t) \in Frames
         /\ Top(t).entry <= made /\ (Top(t).op = "rm" => Top(t).entry # 0)
         /\ live
         /\ ~overlap => Good(Top(t))
<1>1. Here(t) \in InProgress /\ Frame(Here(t)) = Top(t) /\ Top(t) \in Frames
  BY FrameTypes DEF IInv
<1>2. Top(t).entry <= made /\ (Top(t).op = "rm" => Top(t).entry # 0)
  BY <1>1 DEF IInv, Shapes
<1>3. live
  BY <1>1 DEF IInv, Stopped, TypeOK
<1>4. ~overlap => Good(Top(t))
  BY <1>1 DEF IInv, Calm, AllGood
<1>5. QED
  BY <1>1, <1>2, <1>3, <1>4
-----------------------------------------------------------------------------
(* _cevf_exec_procedure before the function: the mutex was free, so nobody *)
(* else is in the function.                                                *)
LEMMA EnterKeeps ==
  ASSUME IInv, NEW t \in Threads, Enter(t)
  PROVE  IInv'
<1> PICK f : f = Top(t)
  OBVIOUS
<1> PICK p : p = Here(t)
  OBVIOUS
<1>1. stack[t] # <<>> /\ f.op = "exec" /\ f.at = "found"
  BY DEF Enter, At
<1>2. /\ p \in InProgress /\ Frame(p) = f /\ f \in Frames /\ f.entry <= made /\ live
      /\ ~overlap => Good(f)
  BY <1>1, TopFacts
<1>3. CASE f.entry \in freed
  <2>1. overlap
    BY <1>1, <1>2, <1>3 DEF Good, IInv, TypeOK
  <2>2. Fault
    BY <1>3 DEF Enter
  <2>3. QED
    BY <2>1, <2>2, FaultKeeps
<1>4. CASE f.entry \notin freed
  <2> PICK g : g = [f EXCEPT !.at = "in"]
    OBVIOUS
  <2>1. /\ f.no \in Synchronized => mut[f.entry] = NoThread
        /\ mut' = IF f.no \in Synchronized THEN [mut EXCEPT ![f.entry] = t] ELSE mut
        /\ SetTop(t, g)
        /\ UNCHANGED <<table, made, freed, live, fault, overlap>>
    BY <1>4 DEF Enter
  <2>2. g \in Frames /\ g.op = f.op /\ g.at = "in" /\ g.no = f.no /\ g.entry = f.entry
    BY <1>1, <1>2 DEF Frames
  <2>3. /\ stack' \in [Threads -> Seq(Frames)] /\ \A u \in Threads : Len(stack'[u]) <= MaxDepth
        /\ InProgress' = InProgress
        /\ \A q \in InProgress : q # p => Frame(q)' = Frame(q)
        /\ Frame(p)' = g
        /\ \A u \in Threads : Len(stack'[u]) = Len(stack[u])
    BY <1>1, <2>1, <2>2, SetTopEffect DEF IInv
  <2>4. \A q \in InProgress :
          /\ Frame(q)'.op = Frame(q).op /\ Frame(q)'.no = Frame(q).no /\ Frame(q)'.entry = Frame(q).entry
          /\ Frame(q)'.at = IF q = p THEN "in" ELSE Frame(q).at
    BY <1>2, <2>2, <2>3
  <2>5. TypeOK'
    BY <2>1, <2>3 DEF IInv, TypeOK
  <2>6. Shapes'
    <3>1. \A q \in InProgress : q[1] \in Threads
      BY FrameTypes DEF IInv
    <3>2. QED
      BY <1>1, <1>2, <2>1, <2>3, <2>4, <3>1 DEF IInv, Shapes
  <2>7. Adding' = Adding
    BY <1>1, <1>2, <2>3, <2>4 DEF Adding
  <2>8. Room' /\ Stopped'
    BY <2>1, <2>3, <2>7 DEF IInv, Room, Stopped
  <2>9. ASSUME ~overlap PROVE Calm'
    <3>1. Calm /\ Good(f)
      BY <1>2, <2>9 DEF IInv
    <3>2. Alone'
      BY <2>3, <2>4, <3>1 DEF Calm, Alone
    <3>3. AllGood'
      <4>1. Good(g)'
        BY <1>1, <2>1, <2>2, <3>1 DEF Good
      <4>2. \A q \in InProgress : q # p => Good(Frame(q))'
        BY <2>1, <2>3, <3>1 DEF Calm, AllGood, Good
      <4>3. QED
        BY <2>3, <4>1, <4>2 DEF AllGood
    <3>4. FreshApart'
      BY <1>1, <1>2, <2>3, <2>4, <3>1 DEF Calm, FreshApart, Pending
    <3>5. Valid'
      BY <1>1, <1>2, <2>1, <2>3, <2>4, <3>1 DEF Calm, Valid
    <3>6. Injective'
      BY <2>1, <3>1 DEF Calm, Injective
    <3>7. Kept'
      BY <2>1, <2>3, <2>4, <3>1, SMTT(30) DEF Calm, Kept
    <3>8. Locked'
      <4>1. \A q \in InProgress : q # p => (Held(q)' <=> Held(q))
        BY <2>4 DEF Held
      <4>2. CASE f.no \notin Synchronized
        <5>1. ~Held(p)' /\ mut' = mut
          BY <1>2, <2>1, <2>4, <4>2 DEF Held
        <5>2. QED
          BY <2>3, <2>4, <3>1, <4>1, <5>1 DEF Calm, Locked
      <4>3. CASE f.no \in Synchronized
        <5>1. f.entry \in Entries /\ f.entry = table[f.no] /\ f.entry # 0
          BY <1>1, <1>2, <3>1 DEF Good, Frames, Entries
        <5>2. \A q \in InProgress : q # p /\ Held(q) =>
                Frame(q).no # f.no /\ Frame(q).entry # f.entry
          <6>1. SUFFICES ASSUME NEW q \in InProgress, q # p, Held(q)
                         PROVE  Frame(q).no # f.no /\ Frame(q).entry # f.entry
            OBVIOUS
          <6>2. q[1] \in Threads
            BY FrameTypes DEF IInv
          <6>3. mut[Frame(q).entry] = q[1] /\ Frame(q).entry = table[Frame(q).no]
            BY <3>1, <6>1 DEF Calm, Locked, Held, AllGood, Good
          <6>4. mut[f.entry] = NoThread
            BY <2>1, <4>3
          <6>5. QED
            BY <5>1, <6>2, <6>3, <6>4, ProceduresAssumption
        <5>3. mut'[f.entry] = t /\ \A e \in Entries : e # f.entry => mut'[e] = mut[e]
          BY <2>1, <4>3, <5>1 DEF IInv, TypeOK
        <5>4. \A q \in InProgress : q # p /\ Held(q) => mut'[Frame(q).entry] = q[1]
          <6>1. SUFFICES ASSUME NEW q \in InProgress, q # p, Held(q)
                         PROVE  mut'[Frame(q).entry] = q[1]
            OBVIOUS
          <6>2. Frame(q) \in Frames /\ Frame(q).op # "add" /\ Good(Frame(q))
            BY <3>1, <6>1, FrameTypes DEF IInv, Shapes, Held, Calm, AllGood
          <6>3. Frame(q).entry \in Entries
            BY <6>2 DEF Frames, Good, Entries
          <6>4. QED
            BY <3>1, <5>2, <5>3, <6>1, <6>3 DEF Calm, Locked
        <5>5. p[1] = t
          BY DEF Here
        <5>6. \A q \in InProgress : Held(q)' => mut'[Frame(q)'.entry] = q[1]
          BY <1>2, <2>4, <4>1, <5>3, <5>4, <5>5
        <5>7. \A q, r \in InProgress : Held(q)' /\ Held(r)' /\ Frame(q)'.no = Frame(r)'.no => q = r
          BY <1>2, <2>4, <3>1, <4>1, <5>2 DEF Calm, Locked
        <5>8. QED
          BY <2>3, <5>6, <5>7 DEF Locked
      <4>4. QED
        BY <4>2, <4>3
    <3>9. QED
      BY <2>1, <3>1, <3>2, <3>3, <3>4, <3>5, <3>6, <3>7, <3>8 DEF Calm
  <2>10. QED
    BY <2>1, <2>5, <2>6, <2>8, <2>9 DEF IInv
<1>5. QED
  BY <1>3, <1>4
(* The end of a call: the mutex that is given back is that of the entry    *)
(* which was called, and no other call has it.                             *)
LEMMA LeaveKeeps ==
  ASSUME IInv, NEW t \in Threads, Leave(t)
  PROVE  IInv'
<1> PICK f : f = Top(t)
  OBVIOUS
<1> PICK p : p = Here(t)
  OBVIOUS
<1>1. stack[t] # <<>> /\ f.op = "exec" /\ f.at = "in"
  BY DEF Leave, At
<1>2. /\ p \in InProgress /\ Frame(p) = f /\ f \in Frames /\ f.entry <= made /\ live
      /\ ~overlap => Good(f)
  BY <1>1, TopFacts
<1>3. CASE f.entry \in freed
  <2>1. overlap
    BY <1>1, <1>2, <1>3 DEF Good, IInv, TypeOK
  <2>2. Fault
    BY <1>3 DEF Leave
  <2>3. QED
    BY <2>1, <2>2, FaultKeeps
<1>4. CASE f.entry \notin freed
  <2>1. /\ mut' = IF f.no \in Synchronized THEN [mut EXCEPT ![f.entry] = NoThread] ELSE mut
        /\ Pop(t)
        /\ UNCHANGED <<table, made, freed, live, fault, overlap>>
    BY <1>4 DEF Leave
  <2>2. /\ stack' \in [Threads -> Seq(Frames)] /\ \A u \in Threads : Len(stack'[u]) <= MaxDepth
        /\ InProgress' = InProgress \ {p}
        /\ \A q \in InProgress' : Frame(q)' = Frame(q)
        /\ \A u \in Threads : Len(stack'[u]) = IF u = t THEN Len(stack[t]) - 1 ELSE Len(stack[u])
    BY <1>1, <2>1, PopEffect DEF IInv
  <2>3. TypeOK'
    BY <2>1, <2>2 DEF IInv, TypeOK
  <2>4. Shapes'
    BY <2>1, <2>2, PopShapes DEF IInv
  <2>5. Adding' = Adding
    BY <1>1, <1>2, <2>2 DEF Adding
  <2>6. Room' /\ Stopped'
    BY <2>1, <2>2, <2>5 DEF IInv, Room, Stopped
  <2>7. ASSUME ~overlap PROVE Calm'
    <3>1. Calm /\ Good(f)
      BY <1>2, <2>7 DEF IInv
    <3>2. Alone' /\ FreshApart'
      BY <2>2, <3>1 DEF Calm, Alone, FreshApart, Pending
    <3>3. AllGood'
      BY <2>1, <2>2, <3>1 DEF Calm, AllGood, Good
    <3>4. Valid' /\ Injective'
      BY <1>1, <1>2, <2>1, <2>2, <3>1 DEF Calm, Valid, Injective
    <3>5. Kept'
      <4>1. \A q \in InProgress : Frame(q).op = "add" => q \in InProgress' /\ Frame(q)' = Frame(q)
        BY <1>1, <1>2, <2>2
      <4>2. QED
        BY <2>1, <3>1, <4>1 DEF Calm, Kept
    <3>6. Locked'
      <4>1. ASSUME NEW q \in InProgress', Held(q)' PROVE mut'[Frame(q)'.entry] = q[1]
        <5>1. q \in InProgress /\ q # p /\ Frame(q)' = Frame(q) /\ Held(q)
          BY <2>2, <4>1 DEF Held
        <5>2. mut[Frame(q).entry] = q[1]
          BY <3>1, <5>1 DEF Calm, Locked
        <5>3. CASE f.no \notin Synchronized
          BY <2>1, <5>1, <5>2, <5>3
        <5>4. CASE f.no \in Synchronized
          <6>1. Held(p) /\ Frame(q).no # f.no
            BY <1>1, <1>2, <3>1, <5>1, <5>4 DEF Calm, Locked, Held
          <6>2. Frame(q) \in Frames /\ Frame(q).op = "exec" /\ Good(Frame(q))
            BY <3>1, <5>1, FrameTypes DEF IInv, Shapes, Held, Calm, AllGood
          <6>3. Frame(q).entry # f.entry
            BY <1>1, <1>2, <3>1, <6>1, <6>2, <5>1 DEF Good, Held, Calm, Injective, Frames
          <6>4. Frame(q).entry \in Entries
            BY <6>2 DEF Frames, Good, Entries
          <6>5. mut'[Frame(q).entry] = mut[Frame(q).entry]
            BY <2>1, <5>4, <6>3, <6>4 DEF IInv, TypeOK
          <6>6. QED
            BY <5>1, <5>2, <6>5
        <5>5. QED
          BY <5>3, <5>4
      <4>2. \A q, r \in InProgress' : Held(q)' /\ Held(r)' /\ Frame(q)'.no = Frame(r)'.no => q = r
        BY <2>2, <3>1 DEF Calm, Locked, Held
      <4>3. QED
        BY <4>1, <4>2 DEF Locked
    <3>7. QED
      BY <2>1, <3>1, <3>2, <3>3, <3>4, <3>5, <3>6 DEF Calm
  <2>8. QED
    BY <2>1, <2>3, <2>4, <2>6, <2>7 DEF IInv
<1>5. QED
  BY <1>3, <1>4

(* cevf_add_procedure: the new entry is nobody else's, and the number it   *)
(* is for has no other operation that could use the old one.               *)
LEMMA AddFreeKeeps ==
  ASSUME IInv, NEW t \in Threads, AddFree(t)
  PROVE  IInv'
<1> PICK f : f = Top(t)
  OBVIOUS
<1> PICK p : p = Here(t)
  OBVIOUS
<1>1. stack[t] # <<>> /\ f.op = "add" /\ f.at = "found"
  BY DEF AddFree, At
<1>2. /\ p \in InProgress /\ Frame(p) = f /\ f \in Frames /\ f.entry <= made /\ live
      /\ ~overlap => Good(f)
  BY <1>1, TopFacts
<1>3. CASE f.entry \in freed
  <2>1. overlap
    BY <1>1, <1>2, <1>3 DEF Good, IInv, TypeOK
  <2>2. Fault
    BY <1>3 DEF AddFree
  <2>3. QED
    BY <2>1, <2>2, FaultKeeps
<1>4. CASE f.entry \notin freed
  <2> PICK g : g = [f EXCEPT !.at = "store", !.entry = made + 1]
    OBVIOUS
  <2>1. /\ made' = made + 1
        /\ freed' = IF f.entry = 0 THEN freed ELSE freed \cup {f.entry}
        /\ SetTop(t, g)
        /\ UNCHANGED <<table, mut, live, fault, overlap>>
    BY <1>4 DEF AddFree
  <2>2. /\ made \in Nat /\ MaxEntries \in Nat /\ made' \in 1 .. MaxEntries
        /\ made + Cardinality(Adding) <= MaxEntries /\ Cardinality(Adding) \in Nat \ {0}
    <3>1. p \in Adding
      BY <1>1, <1>2 DEF Adding
    <3>2. Cardinality(Adding) \in Nat \ {0}
      BY <3>1, AddingFinite, FS_EmptySet
    <3>3. QED
      BY <2>1, <3>2, ProceduresAssumption DEF IInv, TypeOK, Room
  <2>3. g \in Frames /\ g.op = f.op /\ g.at = "store" /\ g.no = f.no /\ g.entry = made'
    <3>1. made + 1 \in 0 .. MaxEntries
      BY <2>1, <2>2
    <3>2. g = [op |-> f.op, no |-> f.no, entry |-> made + 1, at |-> "store"]
      BY <1>2 DEF Frames
    <3>3. QED
      BY <1>2, <2>1, <3>1, <3>2 DEF Frames
  <2>4. /\ stack' \in [Threads -> Seq(Frames)] /\ \A u \in Threads : Len(stack'[u]) <= MaxDepth
        /\ InProgress' = InProgress
        /\ \A q \in InProgress : q # p => Frame(q)' = Frame(q)
        /\ Frame(p)' = g
        /\ \A u \in Threads : Len(stack'[u]) = Len(stack[u])
    BY <1>1, <2>1, <2>3, SetTopEffect DEF IInv
  <2>5. \A q \in InProgress :
          /\ Frame(q)'.op = Frame(q).op /\ Frame(q)'.no = Frame(q).no
          /\ Frame(q)'.entry = IF q = p THEN made' ELSE Frame(q).entry
          /\ Frame(q)'.at = IF q = p THEN "store" ELSE Frame(q).at
    BY <1>2, <2>3, <2>4
  <2>6. TypeOK'
    <3>1. table' \in [Numbers -> 0 .. made'] /\ freed' \subseteq 1 .. made'
      BY <1>2, <2>1, <2>2 DEF IInv, TypeOK, Frames
    <3>2. QED
      BY <2>1, <2>2, <2>4, <3>1 DEF IInv, TypeOK
  <2>7. Shapes'
    <3>1. \A q \in InProgress : q[1] \in Threads /\ Frame(q) \in Frames
      BY FrameTypes DEF IInv
    <3>2. p[2] = Len(stack[p[1]])
      BY DEF Here
    <3>3. \A q \in InProgress : Frame(q).entry <= made /\ Frame(q).entry \in Nat
      BY <3>1 DEF IInv, Shapes, Frames
    <3>4. \A q \in InProgress : Frame(q)'.entry <= made'
      BY <2>1, <2>2, <2>5, <3>3
    <3>5. \A q \in InProgress : Frame(q)'.op = "rm" => Frame(q)'.entry # 0
      BY <1>1, <1>2, <2>5 DEF IInv, Shapes
    <3>6. \A q \in InProgress : q[2] < Len(stack'[q[1]]) => Frame(q)'.at = "in"
      <4>1. ~(p[2] < Len(stack[p[1]]))
        BY <3>1, <3>2, <1>2 DEF IInv, TypeOK
      <4>2. QED
        BY <2>4, <2>5, <3>1, <4>1 DEF IInv, Shapes
    <3>7. QED
      BY <1>1, <1>2, <2>4, <2>5, <3>4, <3>5, <3>6 DEF IInv, Shapes
  <2>8. Room' /\ Stopped'
    <3>1. Adding' = Adding \ {p}
      BY <1>1, <1>2, <2>4, <2>5 DEF Adding
    <3>2. Cardinality(Adding') = Cardinality(Adding) - 1
      <4>1. p \in Adding
        BY <1>1, <1>2 DEF Adding
      <4>2. QED
        BY <3>1, <4>1, AddingFinite, FS_RemoveElement
    <3>3. QED
      BY <2>1, <2>2, <2>4, <3>2 DEF IInv, Room, Stopped
  <2>9. ASSUME ~overlap PROVE Calm'
    <3>1. Calm /\ Good(f)
      BY <1>2, <2>9 DEF IInv
    <3>2. \A q \in InProgress : q # p => Frame(q).no # f.no
      BY <1>1, <1>2, <3>1 DEF Calm, Alone
    <3>3. Alone'
      BY <2>4, <2>5, <3>1 DEF Calm, Alone
    <3>4. f.entry = table[f.no] /\ f.no \in Numbers /\ f.entry \in Nat
      BY <1>1, <1>2, <3>1 DEF Good, Frames
    <3>5. \A q \in InProgress : Frame(q).entry <= made /\ Frame(q).entry \in Nat /\ Frame(q).no \in Numbers
      BY FrameTypes DEF IInv, Shapes, Frames
    <3>6. \A n \in Numbers : table[n] \in 0 .. made
      BY DEF IInv, TypeOK
    <3>7. AllGood'
      <4>1. ASSUME NEW q \in InProgress, q # p PROVE Good(Frame(q))'
        <5>1. Good(Frame(q)) /\ Frame(q)' = Frame(q) /\ Frame(q).no # f.no
          BY <2>4, <3>1, <3>2, <4>1 DEF Calm, AllGood
        <5>2. f.entry # 0 => Frame(q).entry # f.entry \/ (Frame(q).op = "rm" /\ Frame(q).at = "store")
          <6>1. CASE Frame(q).at # "store"
            BY <3>1, <3>4, <3>5, <5>1, <6>1 DEF Good, Calm, Injective
          <6>2. CASE Frame(q).at = "store"
            <7>1. Frame(q).op # "exec" /\ Frame(q).op \in {"exec", "add", "rm"}
              BY <6>2, FrameTypes DEF IInv, Shapes, Frames
            <7>2. QED
              BY <3>4, <5>1, <6>2, <7>1 DEF Good
          <6>3. QED
            BY <6>1, <6>2
        <5>3. Frame(q).entry \in freed' => Frame(q).entry \in freed \/ (Frame(q).op = "rm" /\ Frame(q).at = "store")
          BY <2>1, <5>2
        <5>4. freed \subseteq freed' /\ 1 .. made \subseteq 1 .. made' /\ table' = table
          BY <2>1, <2>2
        <5>5. QED
          BY <5>1, <5>3, <5>4, <3>5 DEF Good
      <4>2. Good(g)'
        <5>1. made' \in (1 .. made') \ freed'
          BY <1>2, <2>1, <2>2 DEF IInv, TypeOK, Frames
        <5>2. \A n \in Numbers : table'[n] # made'
          BY <2>1, <2>2, <3>6
        <5>3. table'[g.no] \in {0} \cup freed'
          BY <2>1, <2>3, <3>4
        <5>4. QED
          BY <1>1, <2>3, <5>1, <5>2, <5>3 DEF Good
      <4>3. QED
        BY <2>4, <4>1, <4>2 DEF AllGood
    <3>8. FreshApart'
      <4>1. \A q \in InProgress : Frame(q).entry # made'
        BY <2>1, <2>2, <3>5
      <4>2. QED
        BY <2>4, <2>5, <3>1, <4>1 DEF Calm, FreshApart, Pending
    <3>9. Valid'
      <4>1. SUFFICES ASSUME NEW n \in Numbers, table[n] \in freed'
                     PROVE  \E q \in InProgress : Frame(q)'.no = n /\ Frame(q)'.at = "store"
        BY <2>1, <2>4 DEF Valid
      <4>2. CASE table[n] \in freed
        BY <1>2, <2>5, <3>1, <4>1, <4>2 DEF Calm, Valid
      <4>3. CASE table[n] \notin freed
        <5>1. n = f.no
          BY <2>1, <3>1, <3>4, <4>1, <4>3 DEF Calm, Injective
        <5>2. QED
          BY <1>2, <2>5, <5>1
      <4>4. QED
        BY <4>2, <4>3
    <3>10. Injective'
      BY <2>1, <3>1 DEF Calm, Injective
    <3>11. Kept'
      <4>1. SUFFICES ASSUME NEW e \in 1 .. made'
                     PROVE  \/ e \in freed'
                            \/ live' /\ \E n \in Numbers : table'[n] = e
                            \/ \E q \in InProgress : Frame(q)'.op = "add" /\ Frame(q)'.entry = e
        BY <2>4 DEF Kept
      <4>2. CASE e = made'
        BY <1>1, <1>2, <2>5, <4>2
      <4>3. CASE e # made'
        <5>1. e \in 1 .. made
          BY <2>1, <2>2, <4>3
        <5>2. CASE \E q \in InProgress : Frame(q).op = "add" /\ Frame(q).entry = e /\ q # p
          BY <2>5, <5>2
        <5>3. CASE f.entry = e
          BY <2>1, <5>1, <5>3
        <5>4. QED
          BY <1>2, <2>1, <3>1, <5>1, <5>2, <5>3 DEF Calm, Kept
      <4>4. QED
        BY <4>2, <4>3
    <3>12. Locked'
      <4>1. \A q \in InProgress : (Held(q)' <=> Held(q)) /\ ~Held(p)
        BY <1>1, <1>2, <2>5 DEF Held
      <4>2. QED
        BY <2>1, <2>4, <2>5, <3>1, <4>1 DEF Calm, Locked
    <3>13. QED
      BY <2>1, <3>1, <3>3, <3>7, <3>8, <3>9, <3>10, <3>11, <3>12 DEF Calm
  <2>10. QED
    BY <2>1, <2>6, <2>7, <2>8, <2>9 DEF IInv
<1>5. QED
  BY <1>3, <1>4
(* cevf_rm_procedure: likewise, without a new entry.                       *)
LEMMA RmFreeKeeps ==
  ASSUME IInv, NEW t \in Threads, RmFree(t)
  PROVE  IInv'
<1> PICK f : f = Top(t)
  OBVIOUS
<1> PICK p : p = Here(t)
  OBVIOUS
<1>1. stack[t] # <<>> /\ f.op = "rm" /\ f.at = "found"
  BY DEF RmFree, At
<1>2. /\ p \in InProgress /\ Frame(p) = f /\ f \in Frames /\ f.entry \in 1 .. made /\ live
      /\ ~overlap => Good(f)
  <2>1. /\ p \in InProgress /\ Frame(p) = f /\ f \in Frames /\ f.entry <= made /\ f.entry # 0 /\ live
        /\ ~overlap => Good(f)
    BY <1>1, TopFacts
  <2>2. QED
    BY <2>1 DEF IInv, TypeOK, Frames
<1>3. CASE f.entry \in freed
  <2>1. overlap
    BY <1>1, <1>2, <1>3 DEF Good
  <2>2. Fault
    BY <1>3 DEF RmFree
  <2>3. QED
    BY <2>1, <2>2, FaultKeeps
<1>4. CASE f.entry \notin freed
  <2> PICK g : g = [f EXCEPT !.at = "store"]
    OBVIOUS
  <2>1. /\ freed' = freed \cup {f.entry}
        /\ SetTop(t, g)
        /\ UNCHANGED <<table, made, mut, live, fault, overlap>>
    BY <1>4 DEF RmFree
  <2>2. g \in Frames /\ g.op = f.op /\ g.at = "store" /\ g.no = f.no /\ g.entry = f.entry
    BY <1>1, <1>2 DEF Frames
  <2>3. /\ stack' \in [Threads -> Seq(Frames)] /\ \A u \in Threads : Len(stack'[u]) <= MaxDepth
        /\ InProgress' = InProgress
        /\ \A q \in InProgress : q # p => Frame(q)' = Frame(q)
        /\ Frame(p)' = g
        /\ \A u \in Threads : Len(stack'[u]) = Len(stack[u])
    BY <1>1, <2>1, <2>2, SetTopEffect DEF IInv
  <2>4. \A q \in InProgress :
          /\ Frame(q)'.op = Frame(q).op /\ Frame(q)'.no = Frame(q).no /\ Frame(q)'.entry = Frame(q).entry
          /\ Frame(q)'.at = IF q = p THEN "store" ELSE Frame(q).at
    BY <1>2, <2>2, <2>3
  <2>5. TypeOK'
    BY <1>2, <2>1, <2>3 DEF IInv, TypeOK
  <2>6. Shapes'
    <3>1. \A q \in InProgress : q[1] \in Threads
      BY FrameTypes DEF IInv
    <3>2. ~(p[2] < Len(stack[p[1]]))
      BY <1>2, <3>1 DEF Here, IInv, TypeOK
    <3>3. QED
      BY <1>1, <1>2, <2>1, <2>3, <2>4, <3>1, <3>2 DEF IInv, Shapes
  <2>7. Adding' = Adding
    BY <1>1, <1>2, <2>3, <2>4 DEF Adding
  <2>8. Room' /\ Stopped'
    BY <2>1, <2>3, <2>7 DEF IInv, Room, Stopped
  <2>9. ASSUME ~overlap PROVE Calm'
    <3>1. Calm /\ Good(f)
      BY <1>2, <2>9 DEF IInv
    <3>2. \A q \in InProgress : q # p => Frame(q).no # f.no
      BY <1>1, <1>2, <3>1 DEF Calm, Alone
    <3>3. Alone' /\ FreshApart'
      <4>1. Alone'
        BY <2>3, <2>4, <3>1 DEF Calm, Alone
      <4>2. \A q \in InProgress : Pending(q)' <=> Pending(q)
        BY <1>1, <1>2, <2>4 DEF Pending
      <4>3. FreshApart'
        BY <2>3, <2>4, <3>1, <4>2 DEF Calm, FreshApart
      <4>4. QED
        BY <4>1, <4>3
    <3>4. f.entry = table[f.no] /\ f.no \in Numbers /\ f.entry # 0
      BY <1>1, <1>2, <3>1 DEF Good, Frames
    <3>5. \A q \in InProgress : Frame(q).no \in Numbers
      BY FrameTypes DEF IInv, Frames
    <3>6. AllGood'
      <4>1. ASSUME NEW q \in InProgress, q # p PROVE Good(Frame(q))'
        <5>1. Good(Frame(q)) /\ Frame(q)' = Frame(q) /\ Frame(q).no # f.no
          BY <2>3, <3>1, <3>2, <4>1 DEF Calm, AllGood
        <5>2. Frame(q).entry # f.entry \/ (Frame(q).op = "rm" /\ Frame(q).at = "store")
          <6>1. CASE Frame(q).at # "store"
            BY <3>1, <3>4, <3>5, <5>1, <6>1 DEF Good, Calm, Injective
          <6>2. CASE Frame(q).at = "store"
            <7>1. Frame(q).op # "exec" /\ Frame(q).op \in {"exec", "add", "rm"}
              BY <6>2, FrameTypes DEF IInv, Shapes, Frames
            <7>2. QED
              BY <3>4, <5>1, <6>2, <7>1 DEF Good
          <6>3. QED
            BY <6>1, <6>2
        <5>3. Frame(q).entry \in freed' => Frame(q).entry \in freed \/ (Frame(q).op = "rm" /\ Frame(q).at = "store")
          BY <2>1, <5>2
        <5>4. QED
          BY <2>1, <5>1, <5>3 DEF Good
      <4>2. Good(g)'
        BY <1>1, <2>1, <2>2, <3>4 DEF Good
      <4>3. QED
        BY <2>3, <4>1, <4>2 DEF AllGood
    <3>7. Valid'
      <4>1. SUFFICES ASSUME NEW n \in Numbers, table[n] \in freed'
                     PROVE  \E q \in InProgress : Frame(q)'.no = n /\ Frame(q)'.at = "store"
        BY <2>1, <2>3 DEF Valid
      <4>2. CASE table[n] \in freed
        BY <1>2, <2>4, <3>1, <4>1, <4>2 DEF Calm, Valid
      <4>3. CASE table[n] \notin freed
        <5>1. n = f.no
          BY <2>1, <3>1, <3>4, <4>1, <4>3 DEF Calm, Injective
        <5>2. QED
          BY <1>2, <2>4, <5>1
      <4>4. QED
        BY <4>2, <4>3
    <3>8. Injective'
      BY <2>1, <3>1 DEF Calm, Injective
    <3>9. Kept'
      BY <2>1, <2>3, <2>4, <3>1 DEF Calm, Kept
    <3>10. Locked'
      <4>1. \A q \in InProgress : (Held(q)' <=> Held(q)) /\ ~Held(p)
        BY <1>1, <1>2, <2>4 DEF Held
      <4>2. QED
        BY <2>1, <2>3, <2>4, <3>1, <4>1 DEF Calm, Locked
    <3>11. QED
      BY <2>1, <3>1, <3>3, <3>6, <3>7, <3>8, <3>9, <3>10 DEF Calm
  <2>10. QED
    BY <2>1, <2>5, <2>6, <2>8, <2>9 DEF IInv
<1>5. QED
  BY <1>3, <1>4

(* The number gets the new entry, which only the operation knew.           *)
LEMMA AddStoreKeeps ==
  ASSUME IInv, NEW t \in Threads, AddStore(t)
  PROVE  IInv'
<1> PICK f : f = Top(t)
  OBVIOUS
<1> PICK p : p = Here(t)
  OBVIOUS
<1>1. stack[t] # <<>> /\ f.op = "add" /\ f.at = "store"
  BY DEF AddStore, At
<1>2. /\ p \in InProgress /\ Frame(p) = f /\ f \in Frames /\ f.entry <= made /\ live
      /\ ~overlap => Good(f)
  BY <1>1, TopFacts
<1>3. /\ table' = [table EXCEPT ![f.no] = f.entry]
      /\ Pop(t)
      /\ UNCHANGED <<made, freed, mut, live, fault, overlap>>
  BY DEF AddStore
<1>4. /\ stack' \in [Threads -> Seq(Frames)] /\ \A u \in Threads : Len(stack'[u]) <= MaxDepth
      /\ InProgress' = InProgress \ {p}
      /\ \A q \in InProgress' : Frame(q)' = Frame(q)
  BY <1>1, <1>3, PopEffect DEF IInv
<1>5. f.no \in Numbers /\ f.entry \in 0 .. made /\ \A n \in Numbers : table'[n] = IF n = f.no THEN f.entry ELSE table[n]
  BY <1>2, <1>3 DEF IInv, TypeOK, Frames
<1>6. TypeOK'
  BY <1>3, <1>4, <1>5 DEF IInv, TypeOK
<1>7. Shapes'
  BY <1>1, <1>3, PopShapes DEF IInv
<1>8. Adding' = Adding
  BY <1>1, <1>2, <1>4 DEF Adding
<1>9. Room' /\ Stopped'
  BY <1>3, <1>4, <1>8 DEF IInv, Room, Stopped
<1>10. ASSUME ~overlap PROVE Calm'
  <2>1. Calm /\ Good(f)
    BY <1>2, <1>10 DEF IInv
  <2>2. \A q \in InProgress' : q \in InProgress /\ Frame(q).no # f.no /\ Frame(q).no \in Numbers
    <3>1. \A q \in InProgress : Frame(q).no \in Numbers
      BY FrameTypes DEF IInv, Frames
    <3>2. \A q \in InProgress : q # p => Frame(q).no # f.no
      BY <1>1, <1>2, <2>1 DEF Calm, Alone
    <3>3. QED
      BY <1>4, <3>1, <3>2
  <2>3. f.entry \in (1 .. made) \ freed /\ (\A n \in Numbers : table[n] # f.entry) /\ table[f.no] \in {0} \cup freed
    BY <1>1, <2>1 DEF Good
  <2>4. Alone' /\ FreshApart'
    BY <1>4, <2>1 DEF Calm, Alone, FreshApart, Pending
  <2>5. AllGood'
    <3>1. SUFFICES ASSUME NEW q \in InProgress' PROVE Good(Frame(q))'
      BY DEF AllGood
    <3>2. Good(Frame(q)) /\ Frame(q)' = Frame(q) /\ table'[Frame(q).no] = table[Frame(q).no]
      BY <1>4, <1>5, <2>1, <2>2 DEF Calm, AllGood
    <3>3. Pending(q) => Frame(q).entry # f.entry
      BY <1>1, <1>2, <1>4, <2>1, <2>2 DEF Calm, FreshApart, Pending
    <3>4. QED
      BY <1>3, <1>5, <3>2, <3>3 DEF Good, Pending
  <2>6. Valid'
    <3>1. SUFFICES ASSUME NEW n \in Numbers, table'[n] \in freed
                   PROVE  \E q \in InProgress' : Frame(q)'.no = n /\ Frame(q)'.at = "store"
      BY <1>3 DEF Valid
    <3>2. n # f.no /\ table[n] \in freed
      BY <1>5, <2>3, <3>1
    <3>3. PICK q \in InProgress : Frame(q).no = n /\ Frame(q).at = "store"
      BY <1>2, <2>1, <3>2 DEF Calm, Valid
    <3>4. q \in InProgress' /\ Frame(q)' = Frame(q)
      BY <1>2, <1>4, <3>2, <3>3
    <3>5. QED
      BY <3>3, <3>4
  <2>7. Injective'
    BY <1>5, <2>1, <2>3 DEF Calm, Injective
  <2>8. Kept'
    <3>1. SUFFICES ASSUME NEW e \in 1 .. made
                   PROVE  \/ e \in freed
                          \/ \E n \in Numbers : table'[n] = e
                          \/ \E q \in InProgress' : Frame(q)'.op = "add" /\ Frame(q)'.entry = e
      BY <1>2, <1>3 DEF Kept
    <3>2. CASE e = f.entry
      BY <1>5, <3>2
    <3>3. CASE \E n \in Numbers : table[n] = e
      BY <1>5, <2>3, <3>1, <3>3
    <3>4. CASE e # f.entry /\ \E q \in InProgress : Frame(q).op = "add" /\ Frame(q).entry = e
      BY <1>2, <1>4, <3>4
    <3>5. QED
      BY <2>1, <3>1, <3>2, <3>3, <3>4 DEF Calm, Kept
  <2>9. Locked'
    BY <1>3, <1>4, <2>1 DEF Calm, Locked, Held
  <2>10. QED
    BY <1>3, <2>1, <2>4, <2>5, <2>6, <2>7, <2>8, <2>9 DEF Calm
<1>11. QED
  BY <1>3, <1>6, <1>7, <1>9, <1>10 DEF IInv

(* The number loses its entry, which has been freed.                       *)
LEMMA RmStoreKeeps ==
  ASSUME IInv, NEW t \in Threads, RmStore(t)
  PROVE  IInv'
<1> PICK f : f = Top(t)
  OBVIOUS
<1> PICK p : p = Here(t)
  OBVIOUS
<1>1. stack[t] # <<>> /\ f.op = "rm" /\ f.at = "store"
  BY DEF RmStore, At
<1>2. /\ p \in InProgress /\ Frame(p) = f /\ f \in Frames /\ live
      /\ ~overlap => Good(f)
  BY <1>1, TopFacts
<1>3. /\ table' = [table EXCEPT ![f.no] = 0]
      /\ Pop(t)
      /\ UNCHANGED <<made, freed, mut, live, fault, overlap>>
  BY DEF RmStore
<1>4. /\ stack' \in [Threads -> Seq(Frames)] /\ \A u \in Threads : Len(stack'[u]) <= MaxDepth
      /\ InProgress' = InProgress \ {p}
      /\ \A q \in InProgress' : Frame(q)' = Frame(q)
  BY <1>1, <1>3, PopEffect DEF IInv
<1>5. f.no \in Numbers /\ \A n \in Numbers : table'[n] = IF n = f.no THEN 0 ELSE table[n]
  BY <1>2, <1>3 DEF IInv, TypeOK, Frames
<1>6. TypeOK'
  BY <1>3, <1>4, <1>5 DEF IInv, TypeOK
<1>7. Shapes'
  BY <1>1, <1>3, PopShapes DEF IInv
<1>8. Adding' = Adding
  BY <1>1, <1>2, <1>4 DEF Adding
<1>9. Room' /\ Stopped'
  BY <1>3, <1>4, <1>8 DEF IInv, Room, Stopped
<1>10. ASSUME ~overlap PROVE Calm'
  <2>1. Calm /\ Good(f)
    BY <1>2, <1>10 DEF IInv
  <2>2. \A q \in InProgress' : q \in InProgress /\ Frame(q).no # f.no /\ Frame(q).no \in Numbers
    <3>1. \A q \in InProgress : Frame(q).no \in Numbers
      BY FrameTypes DEF IInv, Frames
    <3>2. \A q \in InProgress : q # p => Frame(q).no # f.no
      BY <1>1, <1>2, <2>1 DEF Calm, Alone
    <3>3. QED
      BY <1>4, <3>1, <3>2
  <2>3. table[f.no] \in freed /\ 0 \notin freed
    BY <1>1, <2>1 DEF Good, IInv, TypeOK
  <2>4. Alone' /\ FreshApart'
    BY <1>4, <2>1 DEF Calm, Alone, FreshApart, Pending
  <2>5. AllGood'
    <3>1. SUFFICES ASSUME NEW q \in InProgress' PROVE Good(Frame(q))'
      BY DEF AllGood
    <3>2. Good(Frame(q)) /\ Frame(q)' = Frame(q) /\ table'[Frame(q).no] = table[Frame(q).no]
      BY <1>4, <1>5, <2>1, <2>2 DEF Calm, AllGood
    <3>3. QED
      BY <1>3, <1>5, <3>2 DEF Good
  <2>6. Valid'
    <3>1. SUFFICES ASSUME NEW n \in Numbers, table'[n] \in freed
                   PROVE  \E q \in InProgress' : Frame(q)'.no = n /\ Frame(q)'.at = "store"
      BY <1>3 DEF Valid
    <3>2. n # f.no /\ table[n] \in freed
      BY <1>5, <2>3, <3>1
    <3>3. PICK q \in InProgress : Frame(q).no = n /\ Frame(q).at = "store"
      BY <1>2, <2>1, <3>2 DEF Calm, Valid
    <3>4. q \in InProgress' /\ Frame(q)' = Frame(q)
      BY <1>2, <1>4, <3>2, <3>3
    <3>5. QED
      BY <3>3, <3>4
  <2>7. Injective'
    BY <1>5, <2>1 DEF Calm, Injective
  <2>8. Kept'
    <3>1. \A q \in InProgress : Frame(q).op = "add" => q \in InProgress' /\ Frame(q)' = Frame(q)
      BY <1>1, <1>2, <1>4
    <3>2. QED
      BY <1>2, <1>3, <1>5, <2>1, <2>3, <3>1 DEF Calm, Kept
  <2>9. Locked'
    BY <1>3, <1>4, <2>1 DEF Calm, Locked, Held
  <2>10. QED
    BY <1>3, <2>1, <2>4, <2>5, <2>6, <2>7, <2>8, <2>9 DEF Calm
<1>11. QED
  BY <1>3, <1>6, <1>7, <1>9, <1>10 DEF IInv
(* An operation begins: alone on its number, or overlap remembers it.      *)
LEMMA BeginKeeps ==
  ASSUME IInv, NEW t \in Threads, NEW op \in Changes \cup {"exec"}, NEW n \in Numbers, Begin(t, op, n)
  PROVE  IInv'
<1> PICK p : p = Above(t)
  OBVIOUS
<1> PICK f : f = [op |-> op, no |-> n, entry |-> table[n], at |-> "found"]
  OBVIOUS
<1>1. /\ live /\ Len(stack[t]) < MaxDepth
      /\ stack[t] # <<>> => Top(t).at = "in"
      /\ table[n] # 0 \/ op = "add"
      /\ op = "add" => made + Cardinality(Adding) < MaxEntries
      /\ Push(t, f)
      /\ overlap' = (overlap \/ Overlaps(op, n))
      /\ UNCHANGED <<table, made, freed, mut, live, fault>>
  BY DEF Begin
<1>2. table[n] \in 0 .. made /\ made \in 0 .. MaxEntries
  BY DEF IInv, TypeOK
<1>3. f \in Frames /\ f.op = op /\ f.no = n /\ f.entry = table[n] /\ f.at = "found"
  <2>1. op \in {"exec", "add", "rm"}
    BY ProceduresAssumption
  <2>2. table[n] \in 0 .. MaxEntries
    BY <1>2, ProceduresAssumption
  <2>3. QED
    BY <2>1, <2>2 DEF Frames
<1>4. /\ stack' \in [Threads -> Seq(Frames)] /\ \A u \in Threads : Len(stack'[u]) <= MaxDepth
      /\ InProgress' = InProgress \cup {p}
      /\ \A q \in InProgress : Frame(q)' = Frame(q)
      /\ Frame(p)' = f
      /\ \A u \in Threads : Len(stack'[u]) = IF u = t THEN Len(stack[t]) + 1 ELSE Len(stack[u])
  BY <1>1, <1>3, PushEffect DEF IInv
<1>5. p \notin InProgress /\ p[1] = t /\ p[2] = Len(stack[t]) + 1
  BY FrameTypes DEF IInv, Above
<1>6. TypeOK'
  BY <1>1, <1>4 DEF IInv, TypeOK
<1>7. Shapes'
  <2>1. ASSUME NEW q \in InProgress, q[2] < Len(stack'[q[1]]) PROVE Frame(q).at = "in"
    <3>1. q[1] \in Threads /\ q = <<q[1], q[2]>> /\ q[2] \in Nat /\ q[2] <= Len(stack[q[1]])
      BY FrameTypes DEF IInv, InProgress
    <3>2. CASE q[2] < Len(stack[q[1]])
      BY <3>2 DEF IInv, Shapes
    <3>3. CASE q[2] = Len(stack[q[1]])
      <4>1. q[1] = t /\ q = Here(t)
        BY <1>4, <2>1, <3>1, <3>3 DEF Here
      <4>2. stack[t] # <<>>
        BY <3>1, <3>3, <4>1 DEF InProgress
      <4>3. QED
        BY <1>1, <4>1, <4>2, FrameTypes DEF IInv
    <3>4. QED
      BY <3>1, <3>2, <3>3 DEF IInv, TypeOK
  <2>2. ~(p[2] < Len(stack'[p[1]]))
    BY <1>4, <1>5 DEF IInv, TypeOK
  <2>3. ASSUME NEW q \in InProgress
        PROVE  /\ Frame(q)'.at = "in" => Frame(q)'.op = "exec"
               /\ Frame(q)'.at = "store" => Frame(q)'.op # "exec"
               /\ Frame(q)'.op = "rm" => Frame(q)'.entry # 0
               /\ Frame(q)'.entry <= made'
               /\ q[2] < Len(stack'[q[1]]) => Frame(q)'.at = "in"
    BY <1>1, <1>4, <2>1 DEF IInv, Shapes
  <2>4. f.entry <= made' /\ (f.op = "rm" => f.entry # 0)
    BY <1>1, <1>2, <1>3
  <2>5. QED
    BY <1>3, <1>4, <2>2, <2>3, <2>4 DEF Shapes
<1>8. Room'
  <2>1. CASE op = "add"
    <3>1. Adding' = Adding \cup {p}
      BY <1>3, <1>4, <1>5, <2>1 DEF Adding
    <3>2. Cardinality(Adding') <= Cardinality(Adding) + 1 /\ Cardinality(Adding') \in Nat
      <4>1. Cardinality(Adding \cup {p}) = IF p \in Adding THEN Cardinality(Adding) ELSE Cardinality(Adding) + 1
        BY AddingFinite, FS_AddElement
      <4>2. QED
        BY <3>1, <4>1, AddingFinite
    <3>3. QED
      BY <1>1, <1>2, <2>1, <3>2, AddingFinite, ProceduresAssumption DEF Room
  <2>2. CASE op # "add"
    <3>1. Adding' = Adding
      BY <1>3, <1>4, <1>5, <2>2 DEF Adding
    <3>2. QED
      BY <1>1, <3>1 DEF IInv, Room
  <2>3. QED
    BY <2>1, <2>2
<1>9. Stopped'
  BY <1>1 DEF Stopped
<1>10. ASSUME ~overlap' PROVE Calm'
  <2>1. Calm /\ ~Overlaps(op, n)
    BY <1>1, <1>10 DEF IInv
  <2>2. \A q \in InProgress : Frame(q).no = n => op = "exec" /\ Frame(q).op = "exec"
    BY <2>1 DEF Overlaps
  <2>3. Alone'
    BY <1>3, <1>4, <1>5, <2>1, <2>2 DEF Calm, Alone
  <2>4. table[n] \notin freed
    <3>1. SUFFICES ASSUME table[n] \in freed PROVE FALSE
      OBVIOUS
    <3>2. PICK q \in InProgress : Frame(q).no = n /\ Frame(q).at = "store"
      BY <1>1, <2>1, <3>1 DEF Calm, Valid
    <3>3. QED
      BY <2>2, <3>2 DEF IInv, Shapes
  <2>5. AllGood'
    <3>1. Good(f)'
      BY <1>1, <1>3, <2>4 DEF Good
    <3>2. \A q \in InProgress : Good(Frame(q))'
      BY <1>1, <1>4, <2>1 DEF Calm, AllGood, Good
    <3>3. QED
      BY <1>4, <3>1, <3>2 DEF AllGood
  <2>6. FreshApart'
    BY <1>3, <1>4, <2>1 DEF Calm, FreshApart, Pending
  <2>7. Valid' /\ Injective'
    BY <1>1, <1>4, <2>1 DEF Calm, Valid, Injective
  <2>8. Kept'
    BY <1>1, <1>4, <2>1 DEF Calm, Kept
  <2>9. Locked'
    BY <1>1, <1>3, <1>4, <2>1 DEF Calm, Locked, Held
  <2>10. QED
    BY <1>1, <2>1, <2>3, <2>5, <2>6, <2>7, <2>8, <2>9 DEF Calm
<1>11. QED
  BY <1>6, <1>7, <1>8, <1>9, <1>10 DEF IInv

(* cevf_deinit_m_pcdno_handler frees what is in the table, and nothing     *)
(* twice, since no operation is left that has freed an entry of it.        *)
LEMMA DeinitKeeps ==
  ASSUME IInv, Deinit
  PROVE  IInv'
<1> DEFINE left == {table[n] : n \in Numbers} \ {0}
<1>1. live /\ InProgress = {}
  BY FrameTypes DEF Deinit, IInv
<1>2. CASE left \cap freed # {}
  <2>1. overlap
    BY <1>1, <1>2 DEF IInv, Calm, Valid
  <2>2. Fault
    BY <1>2 DEF Deinit
  <2>3. QED
    BY <2>1, <2>2, FaultKeeps
<1>3. CASE left \cap freed = {}
  <2>1. /\ freed' = freed \cup left /\ live' = FALSE
        /\ UNCHANGED <<table, made, mut, stack, fault, overlap>>
    BY <1>3 DEF Deinit
  <2>2. TypeOK'
    <3>1. left \subseteq 1 .. made
      BY DEF IInv, TypeOK
    <3>2. freed' \subseteq 1 .. made'
      BY <2>1, <3>1 DEF IInv, TypeOK
    <3>3. QED
      BY <2>1, <3>2 DEF IInv, TypeOK
  <2>3. InProgress' = {} /\ Adding' = Adding
    BY <1>1, <2>1 DEF InProgress, Adding, Frame
  <2>4. Shapes' /\ Room' /\ Stopped'
    BY <2>1, <2>3 DEF IInv, Shapes, Room, Stopped
  <2>5. ASSUME ~overlap PROVE Calm'
    <3>1. Calm
      BY <2>5 DEF IInv
    <3>2. Kept'
      BY <1>1, <2>1, <3>1 DEF Calm, Kept
    <3>3. Alone' /\ AllGood' /\ FreshApart' /\ Valid' /\ Locked'
      BY <2>1, <2>3 DEF Alone, AllGood, FreshApart, Valid, Locked
    <3>4. Injective'
      BY <2>1, <3>1 DEF Calm, Injective
    <3>5. QED
      BY <2>1, <3>1, <3>2, <3>3, <3>4 DEF Calm
  <2>6. QED
    BY <2>1, <2>2, <2>4, <2>5 DEF IInv
<1>4. QED
  BY <1>2, <1>3
-----------------------------------------------------------------------------
(***************************************************************************)
(* The theorem.                                                            *)
(***************************************************************************)
(* At the start the procedures have the entries 1 .. made, one each: a     *)
(* table that grows strictly is one to one, and as many entries as numbers *)
(* leave none out.                                                         *)
LEMMA InitIInv == Init => IInv
<1> SUFFICES ASSUME Init PROVE IInv
  OBVIOUS
<1>1. /\ made = Cardinality(Numbers) /\ made \in Nat /\ made <= MaxEntries
      /\ table \in [Numbers -> 1 .. made]
      /\ \A m, n \in Numbers : m < n => table[m] < table[n]
  BY ProceduresAssumption, FS_CardinalityType DEF Init
<1>2. \A t \in Threads : stack[t] = <<>>
  BY DEF Init
<1>3. TypeOK
  <2>1. stack \in [Threads -> Seq(Frames)] /\ \A t \in Threads : Len(stack[t]) <= MaxDepth
    BY ProceduresAssumption DEF Init
  <2>2. mut \in [Entries -> Threads \cup {NoThread}]
    BY DEF Init
  <2>3. table \in [Numbers -> 0 .. made] /\ made \in 0 .. MaxEntries
    BY <1>1, ProceduresAssumption
  <2>4. QED
    BY <2>1, <2>2, <2>3 DEF Init, TypeOK
<1>4. InProgress = {} /\ Adding = {}
  BY <1>2, <1>3, FrameTypes DEF Adding
<1>5. Shapes /\ Stopped /\ Alone /\ AllGood /\ FreshApart /\ Locked
  BY <1>4 DEF Shapes, Stopped, Alone, AllGood, FreshApart, Locked
<1>6. Room
  BY <1>1, <1>4, FS_EmptySet DEF Room
<1>7. \A m, n \in Numbers : table[m] = table[n] => m = n
  <2>1. \A m, n \in Numbers : m \in Nat /\ n \in Nat /\ table[m] \in Nat /\ table[n] \in Nat
    BY <1>1, ProceduresAssumption
  <2>2. QED
    BY <1>1, <2>1
<1>8. Kept
  <2>1. table \in Injection(Numbers, 1 .. made)
    BY <1>1, <1>7 DEF Injection, IsInjective
  <2>2. IsFiniteSet(1 .. made) /\ Cardinality(1 .. made) = made
    BY <1>1, FS_Interval
  <2>3. table \in Surjection(Numbers, 1 .. made)
    BY <1>1, <2>1, <2>2, FS_Injection
  <2>4. \A e \in 1 .. made : \E n \in Numbers : table[n] = e
    BY <2>3 DEF Surjection
  <2>5. QED
    BY <2>4 DEF Kept, Init
<1>9. Valid /\ Injective /\ ~fault
  BY <1>7 DEF Valid, Injective, Init
<1>10. QED
  BY <1>3, <1>5, <1>6, <1>8, <1>9 DEF IInv, Calm

(* Every step keeps the invariant.                                         *)
LEMMA StepIInv == IInv /\ [Next]_vars => IInv'
<1> SUFFICES ASSUME IInv, [Next]_vars PROVE IInv'
  OBVIOUS
<1>1. CASE UNCHANGED vars
  <2>1. InProgress' = InProgress /\ (\A p \in InProgress : Frame(p)' = Frame(p)) /\ Adding' = Adding
    BY <1>1 DEF vars, InProgress, Frame, Adding
  <2>2. TypeOK'
    BY <1>1 DEF vars, IInv, TypeOK
  <2>3. Shapes' /\ Room' /\ Stopped'
    BY <1>1, <2>1 DEF vars, IInv, Shapes, Room, Stopped
  <2>4. Calm => Calm'
    <3>1. SUFFICES ASSUME Calm PROVE Calm'
      OBVIOUS
    <3>2. Alone' /\ AllGood' /\ FreshApart'
      BY <1>1, <2>1, <3>1 DEF vars, Calm, Alone, AllGood, Good, FreshApart, Pending
    <3>3. Valid' /\ Injective' /\ Kept' /\ Locked' /\ ~fault'
      BY <1>1, <2>1, <3>1 DEF vars, Calm, Valid, Injective, Kept, Locked, Held
    <3>4. QED
      BY <3>2, <3>3 DEF Calm
  <2>5. QED
    BY <1>1, <2>2, <2>3, <2>4 DEF vars, IInv
<1>2. ASSUME NEW t \in Threads, Step(t) PROVE IInv'
  BY <1>2, EnterKeeps, LeaveKeeps, AddFreeKeeps, AddStoreKeeps, RmFreeKeeps, RmStoreKeeps DEF Step
<1>3. ASSUME NEW t \in Threads, NEW op \in Changes \cup {"exec"}, NEW n \in Numbers, Begin(t, op, n)
      PROVE  IInv'
  BY <1>3, BeginKeeps
<1>4. CASE Deinit
  BY <1>4, DeinitKeeps
<1>5. QED
  BY <1>1, <1>2, <1>3, <1>4 DEF Next

(* Two threads inside a synchronized procedure would both have its mutex.  *)
LEMMA IInvSound == IInv => ProceduresSound
<1> SUFFICES ASSUME IInv PROVE ProceduresSound
  OBVIOUS
<1>1. TypeOK /\ FaultExplained
  BY DEF IInv, Calm, FaultExplained
<1>2. NoLeak
  BY DEF IInv, Calm, Kept, NoLeak
<1>3. OneInside
  <2>1. SUFFICES ASSUME ~overlap, NEW n \in Synchronized, NEW t \in Threads, NEW u \in Threads,
                        Inside(t, n), Inside(u, n)
                 PROVE  t = u
    BY DEF OneInside
  <2>2. ASSUME NEW v \in Threads, Inside(v, n)
        PROVE  \E i \in Nat : <<v, i>> \in InProgress /\ Held(<<v, i>>) /\ Frame(<<v, i>>).no = n
    <3>1. PICK i \in 1 .. Len(stack[v]) :
            stack[v][i].op = "exec" /\ stack[v][i].no = n /\ stack[v][i].at = "in"
      BY <2>2 DEF Inside
    <3>2. Len(stack[v]) \in Nat /\ Len(stack[v]) <= MaxDepth
      BY DEF IInv, TypeOK
    <3>3. <<v, i>> \in InProgress
      BY <3>1, <3>2, ProceduresAssumption DEF InProgress
    <3>4. QED
      BY <3>1, <3>3 DEF Held, Frame
  <2>3. PICK i \in Nat : <<t, i>> \in InProgress /\ Held(<<t, i>>) /\ Frame(<<t, i>>).no = n
    BY <2>1, <2>2
  <2>4. PICK j \in Nat : <<u, j>> \in InProgress /\ Held(<<u, j>>) /\ Frame(<<u, j>>).no = n
    BY <2>1, <2>2
  <2>5. <<t, i>> = <<u, j>>
    BY <2>1, <2>3, <2>4 DEF IInv, Calm, Locked
  <2>6. QED
    BY <2>5
<1>4. QED
  BY <1>1, <1>2, <1>3 DEF ProceduresSound

(* For every number of threads, procedures and entries and every depth of  *)
(* calls: what cevf.c:418-525 does with an entry after it has released the *)
(* lock of the table is sound as long as changes of a number do not        *)
(* overlap other operations on it.  No freed entry is used or freed again, *)
(* none is lost, and no two threads run one synchronized procedure.        *)
THEOREM ProceduresAlwaysSound == Spec => []ProceduresSound
<1>1. Init => IInv
  BY InitIInv
<1>2. IInv /\ [Next]_vars => IInv'
  BY StepIInv
<1>3. IInv => ProceduresSound
  BY IInvSound
<1>4. QED
  BY <1>1, <1>2, <1>3, PTL DEF Spec-----------------------------------------------------------------------------
(***************************************************************************)
(* The macros.                                                             *)
(***************************************************************************)
MacroNames == UNION {{d[i].name : i \in 1 .. Len(d)} : d \in Directories}
Events == Types \cup {All}
MacroFrames ==
  {g \in [kind : {"event", "all", "proc"}, todo : Seq(MacroNames), pc : {"lock", "main"}] :
     g.pc = "main" => g.todo # <<>>}

MacrosTyped ==
  /\ phase \in {"load", "run", "failed", "ended"} /\ mutex \in Threads \cup {None}
  /\ files \in Directories /\ loaded \in 0 .. Len(files)
  /\ names \in [Events -> Seq(MacroNames)]
  /\ pcds \in [MacroNumbers -> MacroNames \cup {None}]
  /\ lstack \in [Threads -> Seq(MacroFrames)]

(* Who is in a function has the mutex, and is in one.                      *)
InMain(t, i) == i \in 1 .. Len(lstack[t]) /\ lstack[t][i].pc = "main"
MainHolds == \A t \in Threads : \A i : InMain(t, i) => mutex = t
OneMain == \A t \in Threads : \A i, j : InMain(t, i) /\ InMain(t, j) => i = j

(* The names in the lists are those of files that have been loaded, each   *)
(* once unless a macro asks for three types.                               *)
Several == \E i \in 1 .. Len(files) : files[i].pcd = None /\ Len(files[i].arr) > 2
Listed(t, i) == t \in Events /\ i \in 1 .. Len(names[t])
OfLoaded == \A t, i : Listed(t, i) => \E k \in 1 .. loaded : names[t][i] = files[k].name
NamesOnce ==
  \A t, u, i, j : Listed(t, i) /\ Listed(u, j) /\ names[t][i] = names[u][j] => t = u /\ i = j
ListsInv == OfLoaded /\ (Several \/ NamesOnce) /\ (lfault => Several)

MacrosInv == MacrosTyped /\ MainHolds /\ OneMain /\ ListsInv

(* What is assumed of a file.                                              *)
LEMMA FileTypes ==
  ASSUME MacrosTyped, NEW n \in 1 .. Len(files)
  PROVE  /\ Len(files) \in Nat /\ files[n].name \in MacroNames
         /\ \A m \in 1 .. Len(files) : m # n => files[m].name # files[n].name
         /\ files[n].kind \in {"nil", "number", "table", "other"}
         /\ Len(files[n].arr) \in Nat
         /\ files[n].kind = "number" => Len(files[n].arr) = 1
<1>1. files \in Directories
  BY DEF MacrosTyped
<1>2. /\ Len(files) \in Nat
      /\ \A i, j \in 1 .. Len(files) : i # j => files[i].name # files[j].name
      /\ \A i \in 1 .. Len(files) :
           /\ files[i].kind \in {"nil", "number", "table", "other"}
           /\ Len(files[i].arr) \in Nat
           /\ files[i].kind = "number" => Len(files[i].arr) = 1
  BY <1>1, LuaMacrosAssumption DEF L!LuaMacrosParameters
<1>3. files[n].name \in MacroNames
  BY <1>1 DEF MacroNames
<1>4. QED
  BY <1>2, <1>3

(* A macro is registered a number of times; for two types at most, once at *)
(* most.                                                                   *)
LEMMA RegisteredOnce ==
  ASSUME NEW f, f.kind \in {"nil", "number", "table", "other"}, Len(f.arr) \in Nat, NEW t
  PROVE  /\ L!Registered(f, t) \in Nat
         /\ Len(f.arr) <= 2 =>
              /\ L!Registered(f, t) <= 1
              /\ \A u : L!Registered(f, t) > 0 /\ L!Registered(f, u) > 0 => t = u
<1> DEFINE typed == {i \in 1 .. Len(f.arr) - 1 : f.arr[i] \in Types}
           those(u) == {i \in typed : f.arr[i] = u}
<1>1. \A u : L!Registered(f, u) = CASE f.kind = "nil" -> 0
               [] f.kind = "number" -> IF f.arr[1] = u THEN 1 ELSE 0
               [] f.kind = "table" /\ typed # {} -> Cardinality(those(u))
               [] OTHER -> IF u = All THEN 1 ELSE 0
  <2>1. \A u : L!Cardinality(those(u)) = Cardinality(those(u))
    BY DEF L!Cardinality, Cardinality
  <2>2. QED
    BY <2>1 DEF L!Registered
<1>2. CASE f.kind = "nil"
  BY <1>1, <1>2
<1>3. CASE f.kind = "number"
  BY <1>1, <1>3
<1>4. CASE f.kind = "table" /\ typed # {}
  <2>1. \A u : L!Registered(f, u) = Cardinality(those(u))
    BY <1>1, <1>4
  <2>2. IsFiniteSet(typed)
    <3>1. IsFiniteSet(1 .. Len(f.arr) - 1)
      <4>1. Len(f.arr) - 1 \in Int
        OBVIOUS
      <4>2. QED
        BY <4>1, FS_Interval
    <3>2. QED
      BY <3>1, PartOf
  <2>3. \A u : those(u) \subseteq typed
    OBVIOUS
  <2>4. \A u : IsFiniteSet(those(u)) /\ Cardinality(those(u)) \in Nat /\ (Cardinality(those(u)) = 0 <=> those(u) = {})
    <3> HIDE DEF typed, those
    <3>1. QED
      BY <2>2, <2>3, PartOf
  <2>5. ASSUME Len(f.arr) <= 2
        PROVE  /\ Cardinality(those(t)) <= 1
               /\ \A u : Cardinality(those(t)) > 0 /\ Cardinality(those(u)) > 0 => t = u
    <3>1. \A u : those(u) \subseteq {1}
      BY <2>5
    <3>2. IsFiniteSet({1}) /\ Cardinality({1}) = 1
      BY FS_Singleton
    <3>3. Cardinality(those(t)) <= 1
      <4> HIDE DEF those
      <4>1. QED
        BY <3>1, <3>2, PartOf
    <3>4. \A u : those(u) # {} => f.arr[1] = u
      BY <3>1
    <3>5. \A u : Cardinality(those(u)) > 0 => those(u) # {}
      <4> HIDE DEF those
      <4>1. \A u : Cardinality(those(u)) > 0 => Cardinality(those(u)) # 0
        OBVIOUS
      <4>2. QED
        BY <2>4, <4>1
    <3>6. \A u : Cardinality(those(t)) > 0 /\ Cardinality(those(u)) > 0 => t = u
      <4> HIDE DEF those
      <4>1. QED
        BY <3>4, <3>5
    <3>7. QED
      BY <3>3, <3>6
  <2> HIDE DEF typed, those
  <2>6. QED
    BY <2>1, <2>4, <2>5
<1>5. CASE f.kind = "other" \/ (f.kind = "table" /\ typed = {})
  <2>1. \A u : L!Registered(f, u) = IF u = All THEN 1 ELSE 0
    BY <1>1, <1>5
  <2>2. QED
    BY <2>1
<1> HIDE DEF typed, those
<1>6. QED
  BY <1>2, <1>3, <1>4, <1>5
-----------------------------------------------------------------------------
(* Loading a file.                                                         *)
LEMMA LoadKeeps ==
  ASSUME MacrosInv, L!Load
  PROVE  MacrosInv'
<1> PICK n : n = loaded + 1
  OBVIOUS
<1> PICK f : f = files[n]
  OBVIOUS
<1>1. n \in 1 .. Len(files) /\ loaded \in Nat /\ loaded' = n /\ Len(files) \in Nat
  BY LuaMacrosAssumption DEF L!Load, MacrosInv, MacrosTyped, L!LuaMacrosParameters
<1>2. UNCHANGED <<files, mutex, lstack, lfault>>
  BY DEF L!Load, L!history
<1>3. phase' \in {"load", "run", "failed", "ended"}
  BY DEF L!Load, MacrosInv, MacrosTyped
<1>4. \/ UNCHANGED <<names, pcds>>
      \/ f.pcd # None /\ pcds' = [pcds EXCEPT ![f.pcd] = f.name] /\ UNCHANGED names
      \/ /\ f.pcd = None /\ UNCHANGED pcds
         /\ names' = [t \in Events |-> names[t] \o [i \in 1 .. L!Registered(f, t) |-> f.name]]
  BY DEF L!Load, Events
<1>5. /\ f.name \in MacroNames
      /\ \A m \in 1 .. Len(files) : m # n => files[m].name # f.name
      /\ f.kind \in {"nil", "number", "table", "other"} /\ Len(f.arr) \in Nat
  BY <1>1, FileTypes DEF MacrosInv
<1>6. \A t : /\ L!Registered(f, t) \in Nat
             /\ Len(f.arr) <= 2 =>
                  /\ L!Registered(f, t) <= 1
                  /\ \A u : L!Registered(f, t) > 0 /\ L!Registered(f, u) > 0 => t = u
  BY <1>5, RegisteredOnce
<1>7. MainHolds' /\ OneMain'
  BY <1>2 DEF MacrosInv, MainHolds, OneMain, InMain
<1>8. Several' = Several
  BY <1>2 DEF Several
<1>9. CASE UNCHANGED names
  <2>1. pcds' \in [MacroNumbers -> MacroNames \cup {None}]
    BY <1>4, <1>5, <1>9 DEF MacrosInv, MacrosTyped
  <2>2. MacrosTyped'
    BY <1>1, <1>2, <1>3, <1>9, <2>1 DEF MacrosInv, MacrosTyped
  <2>3. OfLoaded'
    BY <1>1, <1>2, <1>9 DEF MacrosInv, ListsInv, OfLoaded, Listed
  <2>4. NamesOnce' = NamesOnce
    BY <1>9 DEF NamesOnce, Listed
  <2>5. QED
    BY <1>2, <1>7, <1>8, <2>2, <2>3, <2>4 DEF MacrosInv, ListsInv
<1>10. CASE /\ f.pcd = None /\ UNCHANGED pcds
            /\ names' = [t \in Events |-> names[t] \o [i \in 1 .. L!Registered(f, t) |-> f.name]]
  <2> DEFINE more(t) == [i \in 1 .. L!Registered(f, t) |-> f.name]
  <2>1. ASSUME NEW t \in Events
        PROVE  /\ names'[t] \in Seq(MacroNames) /\ names[t] \in Seq(MacroNames)
               /\ Len(names'[t]) = Len(names[t]) + L!Registered(f, t)
               /\ \A i \in 1 .. Len(names'[t]) : names'[t][i] = IF i <= Len(names[t]) THEN names[t][i] ELSE f.name
    <3> PICK r \in Nat : r = L!Registered(f, t)
      BY <1>6
    <3>1. more(t) \in Seq(MacroNames) /\ Len(more(t)) = r /\ \A i \in 1 .. r : more(t)[i] = f.name
      BY <1>5
    <3>2. names[t] \in Seq(MacroNames)
      BY <2>1 DEF MacrosInv, MacrosTyped
    <3>3. names'[t] = names[t] \o more(t)
      BY <1>10, <2>1
    <3> HIDE DEF more
    <3>4. /\ names'[t] \in Seq(MacroNames) /\ Len(names'[t]) = Len(names[t]) + r
          /\ \A i \in 1 .. Len(names[t]) + r : names'[t][i] = IF i <= Len(names[t]) THEN names[t][i] ELSE more(t)[i - Len(names[t])]
      <4> PICK a \in Seq(MacroNames), m \in Seq(MacroNames) : a = names[t] /\ m = more(t)
        BY <3>1, <3>2
      <4>1. /\ a \o m \in Seq(MacroNames) /\ Len(a \o m) = Len(a) + Len(m)
            /\ \A i \in 1 .. Len(a) + Len(m) : (a \o m)[i] = IF i <= Len(a) THEN a[i] ELSE m[i - Len(a)]
        BY ConcatProperties
      <4>2. names'[t] = a \o m /\ Len(m) = r
        BY <3>1, <3>3
      <4>3. QED
        BY <4>1, <4>2
    <3>5. \A i \in 1 .. Len(names[t]) + r : ~(i <= Len(names[t])) => i - Len(names[t]) \in 1 .. r
      BY <3>2
    <3>6. QED
      BY <3>1, <3>2, <3>4, <3>5
  <2> HIDE DEF more
  <2>2. names' \in [Events -> Seq(MacroNames)]
    <3>1. DOMAIN names' = Events /\ names' = [t \in Events |-> names'[t]]
      BY <1>10
    <3>2. QED
      BY <2>1, <3>1
  <2>3. MacrosTyped'
    BY <1>1, <1>2, <1>3, <1>10, <2>2 DEF MacrosInv, MacrosTyped
  (* An entry is an old one, or the new file's.                            *)
  <2>4. \A t, i : Listed(t, i)' =>
          \/ Listed(t, i) /\ names'[t][i] = names[t][i]
          \/ /\ t \in Events /\ names'[t][i] = f.name
             /\ i \in Len(names[t]) + 1 .. Len(names[t]) + L!Registered(f, t)
    <3>1. SUFFICES ASSUME NEW t, NEW i, t \in Events, i \in 1 .. Len(names'[t])
                   PROVE  \/ Listed(t, i) /\ names'[t][i] = names[t][i]
                          \/ /\ t \in Events /\ names'[t][i] = f.name
                             /\ i \in Len(names[t]) + 1 .. Len(names[t]) + L!Registered(f, t)
      BY DEF Listed
    <3>2. Len(names[t]) \in Nat /\ L!Registered(f, t) \in Nat
      BY <1>6, <2>1, <3>1
    <3>3. QED
      BY <2>1, <3>1, <3>2 DEF Listed
  <2>5. \A t, i : Listed(t, i) => \E k \in 1 .. loaded : names[t][i] = files[k].name
    BY DEF MacrosInv, ListsInv, OfLoaded
  <2>6. \A k \in 1 .. loaded : k \in 1 .. n /\ k \in 1 .. Len(files) /\ k # n
    BY <1>1
  <2>7. OfLoaded'
    <3>1. SUFFICES ASSUME NEW t, NEW i, Listed(t, i)'
                   PROVE  \E k \in 1 .. n : names'[t][i] = files[k].name
      BY <1>1, <1>2 DEF OfLoaded
    <3>2. n \in 1 .. n
      BY <1>1
    <3>3. QED
      BY <2>4, <2>5, <2>6, <3>1, <3>2
  <2>8. ASSUME ~Several PROVE NamesOnce'
    <3>1. Len(f.arr) <= 2
      BY <1>1, <1>5, <1>10, <2>8 DEF Several
    <3>2. SUFFICES ASSUME NEW t, NEW u, NEW i, NEW j, Listed(t, i)', Listed(u, j)', names'[t][i] = names'[u][j]
                   PROVE  t = u /\ i = j
      BY DEF NamesOnce
    <3>3. NamesOnce
      BY <2>8 DEF MacrosInv, ListsInv
    <3>4. \A x, k : Listed(x, k) => names[x][k] # f.name
      BY <1>5, <2>5, <2>6
    <3>5. CASE Listed(t, i) /\ names'[t][i] = names[t][i]
      <4>1. names[t][i] # f.name
        BY <3>4, <3>5
      <4>2. Listed(u, j) /\ names'[u][j] = names[u][j]
        BY <2>4, <3>2, <3>5, <4>1
      <4>3. QED
        BY <3>2, <3>3, <3>5, <4>2 DEF NamesOnce
    <3>6. CASE /\ t \in Events /\ names'[t][i] = f.name
               /\ i \in Len(names[t]) + 1 .. Len(names[t]) + L!Registered(f, t)
      <4>1. /\ u \in Events
            /\ j \in Len(names[u]) + 1 .. Len(names[u]) + L!Registered(f, u)
        BY <2>4, <3>2, <3>4, <3>6
      <4>2. Len(names[t]) \in Nat /\ Len(names[u]) \in Nat
        BY <2>1, <3>6, <4>1
      <4>3. L!Registered(f, t) > 0 /\ L!Registered(f, u) > 0
        BY <1>6, <3>6, <4>1, <4>2
      <4>4. t = u /\ L!Registered(f, t) \in Nat /\ L!Registered(f, t) <= 1
        BY <1>6, <3>1, <4>3
      <4>5. i = Len(names[t]) + 1 /\ j = Len(names[t]) + 1
        BY <3>6, <4>1, <4>2, <4>4
      <4>6. QED
        BY <4>4, <4>5
    <3>7. QED
      BY <2>4, <3>2, <3>5, <3>6
  <2>9. QED
    BY <1>2, <1>7, <1>8, <2>3, <2>7, <2>8 DEF MacrosInv, ListsInv
<1>11. QED
  BY <1>4, <1>9, <1>10
-----------------------------------------------------------------------------
(* The stacks: which frames are in a function after a step.                *)
LEMMA MacroTop ==
  ASSUME MacrosTyped, NEW t \in Threads
  PROVE  /\ Len(lstack[t]) \in Nat /\ lstack[t] \in Seq(MacroFrames)
         /\ lstack[t] # <<>> =>
              /\ Len(lstack[t]) > 0 /\ L!Top(t) \in MacroFrames
              /\ L!Top(t) = lstack[t][Len(lstack[t])]
<1>1. lstack[t] \in Seq(MacroFrames) /\ Len(lstack[t]) \in Nat
  BY DEF MacrosTyped
<1>2. lstack[t] # <<>> => Len(lstack[t]) > 0 /\ lstack[t][Len(lstack[t])] \in MacroFrames
  BY <1>1
<1>3. L!Top(t) = lstack[t][Len(lstack[t])]
  BY DEF L!Top, L!Last
<1>4. QED
  BY <1>1, <1>2, <1>3

LEMMA MacroPush ==
  ASSUME MacrosTyped, NEW t \in Threads, NEW f \in MacroFrames, f.pc = "lock",
         lstack' = [lstack EXCEPT ![t] = Append(@, f)]
  PROVE  /\ lstack' \in [Threads -> Seq(MacroFrames)]
         /\ \A u \in Threads : \A i : InMain(u, i)' <=> InMain(u, i)
<1>1. lstack[t] \in Seq(MacroFrames) /\ Len(lstack[t]) \in Nat
  BY MacroTop
<1>2. lstack'[t] = Append(lstack[t], f) /\ \A u \in Threads : u # t => lstack'[u] = lstack[u]
  BY DEF MacrosTyped
<1>3. /\ lstack'[t] \in Seq(MacroFrames) /\ Len(lstack'[t]) = Len(lstack[t]) + 1
      /\ lstack'[t][Len(lstack[t]) + 1] = f
      /\ \A i \in 1 .. Len(lstack[t]) : lstack'[t][i] = lstack[t][i]
  BY <1>1, <1>2
<1>4. lstack' \in [Threads -> Seq(MacroFrames)]
  BY <1>1, <1>2, <1>3 DEF MacrosTyped
<1>5. \A i : InMain(t, i)' <=> InMain(t, i)
  <2>1. \A i : i \in 1 .. Len(lstack'[t]) <=> i \in 1 .. Len(lstack[t]) \/ i = Len(lstack[t]) + 1
    BY <1>1, <1>3
  <2>2. QED
    BY <1>3, <2>1 DEF InMain
<1>6. \A u \in Threads : u # t => \A i : InMain(u, i)' <=> InMain(u, i)
  BY <1>2 DEF InMain
<1>7. QED
  BY <1>4, <1>5, <1>6

LEMMA MacroGoes ==
  ASSUME MacrosTyped, NEW t \in Threads, NEW f \in MacroFrames, lstack[t] # <<>>, L!Goes(t, f),
         NEW l, l = Len(lstack[t])
  PROVE  /\ lstack' \in [Threads -> Seq(MacroFrames)]
         /\ \A u \in Threads : \A i :
              InMain(u, i)' <=> IF u = t /\ i = l THEN f.pc = "main" ELSE InMain(u, i)
<1>1. lstack[t] \in Seq(MacroFrames) /\ l \in Nat /\ l > 0
  BY MacroTop
<1>2. lstack'[t] = Append(SubSeq(lstack[t], 1, l - 1), f) /\ \A u \in Threads : u # t => lstack'[u] = lstack[u]
  BY DEF MacrosTyped, L!Goes, L!Front
<1>3. /\ SubSeq(lstack[t], 1, l - 1) \in Seq(MacroFrames) /\ Len(SubSeq(lstack[t], 1, l - 1)) = l - 1
      /\ \A i \in 1 .. l - 1 : SubSeq(lstack[t], 1, l - 1)[i] = lstack[t][i]
  BY <1>1
<1>4. /\ lstack'[t] \in Seq(MacroFrames) /\ Len(lstack'[t]) = l /\ lstack'[t][l] = f
      /\ \A i \in 1 .. l - 1 : lstack'[t][i] = lstack[t][i]
  <2> PICK s \in Seq(MacroFrames) : s = SubSeq(lstack[t], 1, l - 1)
    BY <1>3
  <2>1. /\ Append(s, f) \in Seq(MacroFrames) /\ Len(Append(s, f)) = Len(s) + 1
        /\ Append(s, f)[Len(s) + 1] = f /\ \A i \in 1 .. Len(s) : Append(s, f)[i] = s[i]
    OBVIOUS
  <2>2. Len(s) = l - 1 /\ Len(s) + 1 = l
    BY <1>1, <1>3
  <2>3. QED
    BY <1>2, <1>3, <2>1, <2>2
<1>5. lstack' \in [Threads -> Seq(MacroFrames)]
  <2>1. DOMAIN lstack' = Threads /\ lstack' = [u \in Threads |-> lstack'[u]]
    BY DEF L!Goes, MacrosTyped
  <2>2. \A u \in Threads : lstack'[u] \in Seq(MacroFrames)
    BY <1>2, <1>4 DEF MacrosTyped
  <2>3. QED
    BY <2>1, <2>2
<1>6. \A i : InMain(t, i)' <=> IF i = l THEN f.pc = "main" ELSE InMain(t, i)
  <2>1. \A i : i \in 1 .. l <=> i \in 1 .. l - 1 \/ i = l
    BY <1>1
  <2>2. QED
    BY <1>4, <2>1 DEF InMain
<1>7. \A u \in Threads : u # t => \A i : InMain(u, i)' <=> InMain(u, i)
  BY <1>2 DEF InMain
<1>8. QED
  BY <1>5, <1>6, <1>7

LEMMA MacroReturns ==
  ASSUME MacrosTyped, NEW t \in Threads, lstack[t] # <<>>, L!Returns(t), NEW l, l = Len(lstack[t])
  PROVE  /\ lstack' \in [Threads -> Seq(MacroFrames)]
         /\ \A u \in Threads : \A i : InMain(u, i)' <=> InMain(u, i) /\ ~(u = t /\ i = l)
<1>1. lstack[t] \in Seq(MacroFrames) /\ l \in Nat /\ l > 0
  BY MacroTop
<1>2. lstack'[t] = SubSeq(lstack[t], 1, l - 1) /\ \A u \in Threads : u # t => lstack'[u] = lstack[u]
  BY DEF MacrosTyped, L!Returns, L!Front
<1>3. /\ lstack'[t] \in Seq(MacroFrames) /\ Len(lstack'[t]) = l - 1
      /\ \A i \in 1 .. l - 1 : lstack'[t][i] = lstack[t][i]
  BY <1>1, <1>2
<1>4. lstack' \in [Threads -> Seq(MacroFrames)]
  <2>1. DOMAIN lstack' = Threads /\ lstack' = [u \in Threads |-> lstack'[u]]
    BY DEF L!Returns, MacrosTyped
  <2>2. \A u \in Threads : lstack'[u] \in Seq(MacroFrames)
    BY <1>2, <1>3 DEF MacrosTyped
  <2>3. QED
    BY <2>1, <2>2
<1>5. \A i : InMain(t, i)' <=> InMain(t, i) /\ i # l
  <2>1. \A i : i \in 1 .. l - 1 <=> i \in 1 .. l /\ i # l
    BY <1>1
  <2>2. QED
    BY <1>3, <2>1 DEF InMain
<1>6. \A u \in Threads : u # t => \A i : InMain(u, i)' <=> InMain(u, i)
  BY <1>2 DEF InMain
<1>7. QED
  BY <1>4, <1>5, <1>6

(* What a call does not touch.                                             *)
LEMMA CallsLeave ==
  ASSUME MacrosInv, UNCHANGED L!tables, UNCHANGED lfault,
         mutex' \in Threads \cup {None}, lstack' \in [Threads -> Seq(MacroFrames)],
         MainHolds', OneMain'
  PROVE  MacrosInv'
<1>1. UNCHANGED <<phase, files, loaded, names, pcds>>
  BY DEF L!tables
<1>2. MacrosTyped'
  BY <1>1 DEF MacrosInv, MacrosTyped
<1>3. ListsInv'
  BY <1>1 DEF MacrosInv, ListsInv, OfLoaded, NamesOnce, Listed, Several
<1>4. QED
  BY <1>2, <1>3 DEF MacrosInv

LEMMA CallKeeps ==
  ASSUME MacrosInv, NEW t \in Threads, NEW kind \in {"event", "all", "proc"}, NEW todo \in Seq(MacroNames),
         L!Call(t, kind, todo), UNCHANGED <<L!tables, lfault, mutex>>
  PROVE  MacrosInv'
<1> PICK f : f = [kind |-> kind, todo |-> todo, pc |-> "lock"]
  OBVIOUS
<1>1. f \in MacroFrames /\ f.pc = "lock"
  BY DEF MacroFrames
<1>2. lstack' = [lstack EXCEPT ![t] = Append(@, f)]
  BY DEF L!Call
<1>3. /\ lstack' \in [Threads -> Seq(MacroFrames)]
      /\ \A u \in Threads : \A i : InMain(u, i)' <=> InMain(u, i)
  BY <1>1, <1>2, MacroPush DEF MacrosInv
<1>4. MainHolds' /\ OneMain'
  BY <1>3 DEF MacrosInv, MainHolds, OneMain
<1>5. QED
  BY <1>3, <1>4, CallsLeave DEF MacrosInv, MacrosTyped

(* A procedure is the macro's of its number.                               *)
LEMMA ProcedureNamed ==
  ASSUME MacrosInv, NEW n \in MacroNumbers, pcds[n] # None
  PROVE  <<pcds[n]>> \in Seq(MacroNames)
<1>1. pcds[n] \in MacroNames
  BY DEF MacrosInv, MacrosTyped
<1>2. QED
  BY <1>1

LEMMA EndOfListKeeps ==
  ASSUME MacrosInv, NEW t \in Threads, L!EndOfList(t)
  PROVE  MacrosInv'
<1> PICK l : l = Len(lstack[t])
  OBVIOUS
<1>1. lstack[t] # <<>> /\ L!Top(t).pc = "lock" /\ UNCHANGED L!tables /\ mutex' = mutex /\ lfault' = lfault
  BY DEF L!EndOfList, L!Inside, L!history
<1>2. \A u \in Threads : \A i : InMain(u, i) => ~(u = t /\ i = l)
  BY <1>1, MacroTop DEF InMain, MacrosInv
<1>3. /\ lstack' \in [Threads -> Seq(MacroFrames)]
      /\ \A u \in Threads : \A i : InMain(u, i)' => InMain(u, i)
  <2>1. CASE L!Returns(t)
    BY <1>1, <2>1, MacroReturns DEF MacrosInv
  <2>2. CASE L!Goes(t, [kind |-> "all", todo |-> names[All], pc |-> "lock"])
    <3> PICK f : f = [kind |-> "all", todo |-> names[All], pc |-> "lock"]
      OBVIOUS
    <3>1. f \in MacroFrames /\ f.pc = "lock"
      BY DEF MacroFrames, MacrosInv, MacrosTyped, Events
    <3>2. L!Goes(t, f)
      BY <2>2
    <3>3. QED
      BY <1>1, <3>1, <3>2, MacroGoes DEF MacrosInv
  <2>3. QED
    BY <2>1, <2>2 DEF L!EndOfList
<1>4. MainHolds' /\ OneMain'
  BY <1>1, <1>3 DEF MacrosInv, MainHolds, OneMain
<1>5. QED
  BY <1>1, <1>3, <1>4, CallsLeave DEF MacrosInv, MacrosTyped

(* The next name of the list.                                              *)
LEMMA NextFrame ==
  ASSUME MacrosInv, NEW t \in Threads, lstack[t] # <<>>, L!Top(t).todo # <<>>, NEW f,
         f = [L!Top(t) EXCEPT !.todo = Tail(@), !.pc = "lock"]
  PROVE  f \in MacroFrames /\ f.pc = "lock"
<1>1. L!Top(t) \in MacroFrames
  BY MacroTop DEF MacrosInv
<1>2. Tail(L!Top(t).todo) \in Seq(MacroNames)
  BY <1>1 DEF MacroFrames
<1>3. QED
  BY <1>1, <1>2 DEF MacroFrames

LEMMA MacroEnterKeeps ==
  ASSUME MacrosInv, NEW t \in Threads, L!Enter(t)
  PROVE  MacrosInv'
<1> PICK l : l = Len(lstack[t])
  OBVIOUS
<1>1. /\ lstack[t] # <<>> /\ L!Top(t).pc = "lock" /\ L!Top(t).todo # <<>>
      /\ mutex = None /\ mutex' = t /\ UNCHANGED L!tables /\ lfault' = lfault
  BY DEF L!Enter, L!Inside
<1>2. \A u \in Threads : \A i : ~InMain(u, i)
  <2>1. None \notin Threads
    BY LuaMacrosAssumption DEF L!LuaMacrosParameters
  <2>2. QED
    BY <1>1, <2>1 DEF MacrosInv, MainHolds
<1>3. /\ lstack' \in [Threads -> Seq(MacroFrames)]
      /\ \A u \in Threads : \A i : InMain(u, i)' => u = t /\ i = l
  <2>1. CASE L!Goes(t, [L!Top(t) EXCEPT !.pc = "main"])
    <3> PICK f : f = [L!Top(t) EXCEPT !.pc = "main"]
      OBVIOUS
    <3>1. f \in MacroFrames
      BY <1>1, MacroTop DEF MacroFrames, MacrosInv
    <3>2. L!Goes(t, f)
      BY <2>1
    <3>3. QED
      BY <1>1, <1>2, <3>1, <3>2, MacroGoes DEF MacrosInv
  <2>2. CASE L!Next1(t)
    <3> PICK f : f = [L!Top(t) EXCEPT !.todo = Tail(@), !.pc = "lock"]
      OBVIOUS
    <3>1. f \in MacroFrames
      BY <1>1, NextFrame
    <3>2. L!Goes(t, f)
      BY <2>2 DEF L!Next1
    <3>3. QED
      BY <1>1, <1>2, <3>1, <3>2, MacroGoes DEF MacrosInv
  <2>3. QED
    BY <2>1, <2>2 DEF L!Enter
<1>4. MainHolds' /\ OneMain'
  BY <1>1, <1>3 DEF MainHolds, OneMain
<1>5. QED
  BY <1>1, <1>3, <1>4, CallsLeave

LEMMA MainReturnsKeeps ==
  ASSUME MacrosInv, NEW t \in Threads, L!MainReturns(t)
  PROVE  MacrosInv'
<1> PICK l : l = Len(lstack[t])
  OBVIOUS
<1>1. /\ lstack[t] # <<>> /\ L!Top(t).pc = "main" /\ UNCHANGED L!tables /\ lfault' = lfault
      /\ mutex' \in {None, mutex}
  BY DEF L!MainReturns, L!Inside
<1>2. /\ L!Top(t) \in MacroFrames /\ InMain(t, l)
  BY <1>1, MacroTop DEF InMain, MacrosInv
<1>3. \A u \in Threads : \A i : InMain(u, i) => u = t /\ i = l
  BY <1>2 DEF MacrosInv, MainHolds, OneMain
<1>4. /\ lstack' \in [Threads -> Seq(MacroFrames)]
      /\ \A u \in Threads : \A i : ~InMain(u, i)'
  <2>1. CASE L!Returns(t)
    BY <1>1, <1>3, <2>1, MacroReturns DEF MacrosInv
  <2>2. CASE L!Next1(t)
    <3> PICK f : f = [L!Top(t) EXCEPT !.todo = Tail(@), !.pc = "lock"]
      OBVIOUS
    <3>1. L!Top(t).todo # <<>>
      BY <1>1, <1>2 DEF MacroFrames
    <3>2. f \in MacroFrames /\ f.pc = "lock"
      BY <1>1, <3>1, NextFrame
    <3>3. L!Goes(t, f)
      BY <2>2 DEF L!Next1
    <3>4. /\ lstack' \in [Threads -> Seq(MacroFrames)]
          /\ \A u \in Threads : \A i :
               InMain(u, i)' <=> IF u = t /\ i = l THEN f.pc = "main" ELSE InMain(u, i)
      BY <1>1, <3>2, <3>3, MacroGoes DEF MacrosInv
    <3>5. f.pc # "main"
      BY <3>2
    <3>6. QED
      BY <1>3, <3>4, <3>5
  <2>3. QED
    BY <2>1, <2>2 DEF L!MainReturns
<1>5. MainHolds' /\ OneMain'
  BY <1>4 DEF MainHolds, OneMain
<1>6. mutex' \in Threads \cup {None}
  BY <1>1 DEF MacrosInv, MacrosTyped
<1>7. QED
  BY <1>1, <1>4, <1>5, <1>6, CallsLeave

LEMMA MacroDeinitKeeps ==
  ASSUME MacrosInv, L!Deinit
  PROVE  MacrosInv'
<1>1. UNCHANGED <<files, loaded, names, pcds, mutex, lstack>> /\ phase' = "ended"
  BY DEF L!Deinit
<1>2. MacrosTyped' /\ MainHolds' /\ OneMain'
  BY <1>1 DEF MacrosInv, MacrosTyped, MainHolds, OneMain, InMain
<1>3. OfLoaded' /\ (Several \/ NamesOnce)' /\ Several' = Several
  BY <1>1 DEF MacrosInv, ListsInv, OfLoaded, NamesOnce, Listed, Several
<1>4. lfault' => Several
  <2>1. SUFFICES ASSUME lfault', ~Several PROVE FALSE
    OBVIOUS
  <2>2. PICK t \in Events, u \in Events :
          \E i \in 1 .. Len(names[t]), j \in 1 .. Len(names[u]) :
            <<t, i>> # <<u, j>> /\ names[t][i] = names[u][j]
    BY <2>1 DEF L!Deinit, Events
  <2>3. NamesOnce
    BY <2>1 DEF MacrosInv, ListsInv
  <2>4. QED
    BY <2>2, <2>3 DEF NamesOnce, Listed
<1>5. QED
  BY <1>2, <1>3, <1>4 DEF MacrosInv, ListsInv

LEMMA InitMacros ==
  ASSUME L!Init PROVE MacrosInv
<1>1. /\ phase = "load" /\ files \in Directories /\ loaded = 0
      /\ names = [t \in Events |-> <<>>] /\ pcds = [n \in MacroNumbers |-> None]
      /\ mutex = None /\ lstack = [t \in Threads |-> <<>>] /\ lfault = FALSE
  BY DEF L!Init, Events
<1>2. Len(files) \in Nat
  BY <1>1, LuaMacrosAssumption DEF L!LuaMacrosParameters
<1>3. MacrosTyped
  BY <1>1, <1>2 DEF MacrosTyped
<1>4. MainHolds /\ OneMain
  BY <1>1 DEF MainHolds, OneMain, InMain
<1>5. ListsInv
  BY <1>1 DEF ListsInv, OfLoaded, NamesOnce, Listed
<1>6. QED
  BY <1>3, <1>4, <1>5 DEF MacrosInv

LEMMA StepMacros ==
  ASSUME MacrosInv, [L!Next]_(L!vars)
  PROVE  MacrosInv'
<1>1. CASE UNCHANGED L!vars
  <2>1. UNCHANGED <<phase, files, loaded, names, pcds, mutex, lstack, lfault>>
    BY <1>1 DEF L!vars, L!tables, L!history
  <2>2. QED
    BY <2>1 DEF MacrosInv, MacrosTyped, MainHolds, OneMain, InMain, ListsInv, OfLoaded, NamesOnce, Listed, Several
<1>2. CASE L!Load
  BY <1>2, LoadKeeps
<1>3. CASE L!Loaded
  <2>1. UNCHANGED <<files, loaded, names, pcds, mutex, lstack, lfault>> /\ phase' = "run"
    BY <1>3 DEF L!Loaded, L!history
  <2>2. QED
    BY <2>1 DEF MacrosInv, MacrosTyped, MainHolds, OneMain, InMain, ListsInv, OfLoaded, NamesOnce, Listed, Several
<1>4. CASE L!Deinit
  BY <1>4, MacroDeinitKeeps
<1>5. ASSUME NEW t \in Threads, NEW e \in Types, L!Event(t, e) PROVE MacrosInv'
  <2>1. names[e] \in Seq(MacroNames)
    BY DEF MacrosInv, MacrosTyped, Events
  <2>2. QED
    BY <1>5, <2>1, CallKeeps DEF L!Event, L!history
<1>6. ASSUME NEW t \in Threads, NEW n \in MacroNumbers, L!Proc(t, n) PROVE MacrosInv'
  <2>1. <<pcds[n]>> \in Seq(MacroNames)
    BY <1>6, ProcedureNamed DEF L!Proc
  <2>2. QED
    BY <1>6, <2>1, CallKeeps DEF L!Proc, L!history
<1>7. ASSUME NEW t \in Threads, NEW n \in MacroNumbers, L!MainCalls(t, n) PROVE MacrosInv'
  <2>1. <<pcds[n]>> \in Seq(MacroNames)
    BY <1>7, ProcedureNamed DEF L!MainCalls
  <2>2. QED
    BY <1>7, <2>1, CallKeeps DEF L!MainCalls
<1>8. ASSUME NEW t \in Threads, L!Running(t) PROVE MacrosInv'
  BY <1>8, EndOfListKeeps, MacroEnterKeeps, MainReturnsKeeps DEF L!Running
<1>9. ASSUME NEW t \in Threads, NEW m \in sound, L!MainClears(t, m) PROVE MacrosInv'
  <2>1. UNCHANGED <<L!tables, mutex, lstack, lfault>>
    BY <1>9 DEF L!MainClears, L!history
  <2>2. MainHolds' /\ OneMain' /\ lstack' \in [Threads -> Seq(MacroFrames)] /\ mutex' \in Threads \cup {None}
    BY <2>1 DEF MacrosInv, MacrosTyped, MainHolds, OneMain, InMain
  <2>3. QED
    BY <2>1, <2>2, CallsLeave
<1>10. QED
  BY <1>1, <1>2, <1>3, <1>4, <1>5, <1>6, <1>7, <1>8, <1>9 DEF L!Next

LEMMA MacrosInvSound ==
  ASSUME MacrosInv
  PROVE  MacrosSound
<1>1. \A t \in Threads : \A i \in 1 .. Len(lstack[t]) : lstack[t][i].pc \in {"lock", "main"}
  <2>1. \A t \in Threads : \A i \in 1 .. Len(lstack[t]) : lstack[t][i] \in MacroFrames
    BY DEF MacrosInv, MacrosTyped
  <2>2. \A f \in MacroFrames : f.pc \in {"lock", "main"}
    BY DEF MacroFrames
  <2>3. QED
    BY <2>1, <2>2
<1>2. L!TypeOK
  <2>1. SUFFICES ASSUME NEW t \in Threads, NEW i \in 1 .. 3, i <= Len(lstack[t])
                 PROVE  i \in 1 .. Len(lstack[t])
    BY <1>1 DEF L!TypeOK, MacrosInv, MacrosTyped
  <2>2. QED
    BY <2>1, MacroTop DEF MacrosInv
<1>3. L!OneInside
  <2>1. SUFFICES ASSUME NEW t \in Threads, NEW i \in 1 .. Len(lstack[t]), lstack[t][i].pc = "main"
                 PROVE  mutex = t /\ \A u \in Threads \ {t} : ~L!Inside(u, "main")
    BY DEF L!OneInside
  <2>2. mutex = t
    BY <2>1 DEF MacrosInv, MainHolds, InMain
  <2>3. \A u \in Threads : L!Inside(u, "main") => InMain(u, Len(lstack[u]))
    BY MacroTop DEF MacrosInv, L!Inside, InMain
  <2>4. QED
    BY <2>2, <2>3 DEF MacrosInv, MainHolds
<1>4. L!FaultExplained
  BY DEF MacrosInv, ListsInv, Several, L!FaultExplained
<1>5. QED
  BY <1>2, <1>3, <1>4 DEF MacrosSound

(* One thread at most is in the interpreter and has the mutex, and a name  *)
(* is freed twice only if some macro asks for three types of events.       *)
THEOREM MacrosAlwaysSound == ExtrasSpec => []MacrosSound
<1>1. ExtrasInit => MacrosInv
  BY InitMacros DEF ExtrasInit
<1>2. MacrosInv /\ [ExtrasNext]_all => MacrosInv'
  <2>1. [ExtrasNext]_all => [L!Next]_(L!vars)
    BY DEF ExtrasNext, all, macros, L!vars, L!tables, L!history
  <2>2. QED
    BY <2>1, StepMacros
<1>3. MacrosInv => MacrosSound
  BY MacrosInvSound
<1>4. QED
  BY <1>1, <1>2, <1>3, PTL DEF ExtrasSpec-----------------------------------------------------------------------------
(***************************************************************************)
(* The adapters.                                                           *)
(***************************************************************************)
(* Where a request is: in the queue, in hands, or at one of its ends.      *)
Hands(r) == {w \in Threads : rwk[w] = r}
Ends(r) == Has(ended, r) + Has(failed, r) + Has(rlost, r)
Places(r) == Cardinality(Positions(rqueue, r)) + Cardinality(Hands(r)) + Ends(r)

WritesTyped ==
  /\ rqueue \in Seq(Requests) /\ Len(rqueue) <= QueueSize
  /\ rest \in [Requests -> 0 .. Length + 1]
  /\ rwk \in [Threads -> Requests \cup {"none"}]
  /\ wire \in Seq(Requests \X Nat)
InOnePlace == \A r \in Requests : Places(r) = IF rest[r] > 0 THEN 1 ELSE 0

(* The bytes of a request on the wire are those before the first that is   *)
(* not written, and all of them are.                                       *)
OnlyWritten == \A i \in 1 .. Len(wire) : wire[i][2] \in 1 .. rest[wire[i][1]] - 1
AllWritten ==
  \A r \in Requests, n \in 1 .. Length :
    n < rest[r] => \E i \in 1 .. Len(wire) : wire[i] = <<r, n>>
WritesInv == WritesTyped /\ InOnePlace /\ OnlyWritten /\ AllWritten /\ R!WrittenInOrder

PipesInv ==
  /\ at \in {"idle", "first", "second", "fail"} /\ open \subseteq Pipes /\ pips \in Seq(Pipes)
  /\ R!NoPipeLeaks

(* The module's finite sets are those of the library.                      *)
LEMMA SameSets ==
  \A S : R!Cardinality(S) = Cardinality(S) /\ (R!IsFiniteSet(S) <=> IsFiniteSet(S))
BY DEF R!Cardinality, Cardinality, R!IsFiniteSet, IsFiniteSet

(* A request is counted in places that are numbers.                        *)
LEMMA PlacesAreNumbers ==
  ASSUME WritesTyped, NEW r
  PROVE  /\ Cardinality(Positions(rqueue, r)) \in Nat
         /\ IsFiniteSet(Hands(r)) /\ Cardinality(Hands(r)) \in Nat
         /\ Ends(r) \in Nat
         /\ \A w \in Threads : rwk[w] = r => Cardinality(Hands(r)) > 0
<1>1. Cardinality(Positions(rqueue, r)) \in Nat
  BY PositionsCount DEF WritesTyped
<1>2. IsFiniteSet(Threads) /\ Hands(r) \subseteq Threads
  BY ProceduresAssumption DEF Hands
<1>3. IsFiniteSet(Hands(r)) /\ Cardinality(Hands(r)) \in Nat /\ (Cardinality(Hands(r)) = 0 <=> Hands(r) = {})
  BY <1>2, PartOf
<1>4. \A w \in Threads : rwk[w] = r => Cardinality(Hands(r)) > 0
  BY <1>3 DEF Hands
<1>5. Ends(r) \in Nat
  BY DEF Ends, Has
<1>6. QED
  BY <1>1, <1>3, <1>4, <1>5

(* What a consumer has in its hands changes.                               *)
LEMMA HandsChange ==
  ASSUME WritesTyped, NEW w \in Threads, NEW x, rwk' = [rwk EXCEPT ![w] = x], NEW r
  PROVE  Cardinality(Hands(r)') = Cardinality(Hands(r)) - (IF rwk[w] = r THEN 1 ELSE 0)
                                                        + (IF x = r THEN 1 ELSE 0)
<1>1. IsFiniteSet(Hands(r))
  BY PlacesAreNumbers
<1>2. Hands(r) \ {w} = Hands(r)' \ {w}
  BY DEF WritesTyped, Hands
<1>3. Cardinality(Hands(r)') = Cardinality(Hands(r)) - Has(Hands(r), w) + Has(Hands(r)', w)
  BY <1>1, <1>2, CardinalityMove
<1>4. Has(Hands(r), w) = IF rwk[w] = r THEN 1 ELSE 0
  BY DEF Hands, Has
<1>5. Has(Hands(r)', w) = IF x = r THEN 1 ELSE 0
  BY DEF WritesTyped, Hands, Has
<1>6. QED
  BY <1>3, <1>4, <1>5

LEMMA SubmitKeeps ==
  ASSUME WritesInv, NEW q \in Requests, R!Submit(q)
  PROVE  WritesInv'
<1>1. /\ rest[q] = 0 /\ Len(rqueue) < QueueSize
      /\ rqueue' = Append(rqueue, q) /\ rest' = [rest EXCEPT ![q] = 1]
      /\ rwk' = rwk /\ wire' = wire /\ ended' = ended /\ failed' = failed /\ rlost' = rlost
  BY DEF R!Submit
<1>2. QueueSize \in Nat /\ Length \in Nat
  BY AdaptersAssumption DEF R!AdaptersParameters
<1>3. WritesTyped'
  <2>1. rqueue' \in Seq(Requests) /\ Len(rqueue') <= QueueSize
    BY <1>1, <1>2 DEF WritesInv, WritesTyped
  <2>2. rest' \in [Requests -> 0 .. Length + 1]
    BY <1>1, <1>2 DEF WritesInv, WritesTyped
  <2>3. QED
    BY <1>1, <2>1, <2>2 DEF WritesInv, WritesTyped
<1>4. InOnePlace'
  <2>1. SUFFICES ASSUME NEW r \in Requests PROVE Places(r)' = IF rest'[r] > 0 THEN 1 ELSE 0
    BY DEF InOnePlace
  <2>2. Cardinality(Positions(rqueue', r)) = Cardinality(Positions(rqueue, r)) + (IF q = r THEN 1 ELSE 0)
    BY <1>1, PositionsAppend DEF WritesInv, WritesTyped
  <2>3. Hands(r)' = Hands(r) /\ Ends(r)' = Ends(r)
    BY <1>1 DEF Hands, Ends, Has
  <2>4. Places(r) = IF rest[r] > 0 THEN 1 ELSE 0
    BY DEF WritesInv, InOnePlace
  <2>5. rest'[r] = (IF q = r THEN 1 ELSE rest[r]) /\ rest[r] \in Nat
    BY <1>1 DEF WritesInv, WritesTyped
  <2>6. Cardinality(Positions(rqueue, r)) \in Nat /\ Cardinality(Hands(r)) \in Nat /\ Ends(r) \in Nat
    BY PlacesAreNumbers DEF WritesInv
  <2>7. Places(r)' = Places(r) + (IF q = r THEN 1 ELSE 0)
    BY <2>2, <2>3, <2>6 DEF Places
  <2>8. QED
    BY <1>1, <2>4, <2>5, <2>7
<1>5. OnlyWritten'
  <2>1. \A i \in 1 .. Len(wire) : wire[i] \in Requests \X Nat
    BY DEF WritesInv, WritesTyped
  <2>2. \A r \in Requests : rest'[r] >= rest[r] /\ rest[r] \in Nat /\ rest'[r] \in Nat
    BY <1>1 DEF WritesInv, WritesTyped
  <2>3. QED
    BY <1>1, <2>1, <2>2 DEF WritesInv, OnlyWritten
<1>6. AllWritten'
  <2>1. \A r \in Requests : rest'[r] = (IF q = r THEN 1 ELSE rest[r])
    BY <1>1 DEF WritesInv, WritesTyped
  <2>2. \A r \in Requests, n \in 1 .. Length : n < rest'[r] => n < rest[r]
    BY <1>2, <2>1
  <2>3. QED
    BY <1>1, <2>2 DEF WritesInv, AllWritten
<1>7. R!WrittenInOrder'
  BY <1>1 DEF WritesInv, R!WrittenInOrder
<1>8. QED
  BY <1>3, <1>4, <1>5, <1>6, <1>7 DEF WritesInv

LEMMA TakeKeeps ==
  ASSUME WritesInv, NEW w \in Threads, R!Take(w)
  PROVE  WritesInv'
<1>1. /\ rwk[w] = "none" /\ rqueue # <<>>
      /\ rwk' = [rwk EXCEPT ![w] = Head(rqueue)] /\ rqueue' = Tail(rqueue)
      /\ rest' = rest /\ wire' = wire /\ ended' = ended /\ failed' = failed /\ rlost' = rlost
  BY DEF R!Take
<1>2. "none" \notin Requests /\ QueueSize \in Nat
  BY AdaptersAssumption DEF R!AdaptersParameters
<1>3. rqueue \in Seq(Requests) /\ Len(rqueue) <= QueueSize
  BY DEF WritesInv, WritesTyped
<1>4. WritesTyped'
  <2>1. Tail(rqueue) \in Seq(Requests) /\ Head(rqueue) \in Requests /\ Len(Tail(rqueue)) = Len(rqueue) - 1
    BY <1>1, <1>3
  <2>2. rqueue' \in Seq(Requests) /\ Len(rqueue') <= QueueSize
    BY <1>1, <1>2, <1>3, <2>1
  <2>3. rwk' \in [Threads -> Requests \cup {"none"}]
    BY <1>1, <2>1 DEF WritesInv, WritesTyped
  <2>4. QED
    BY <1>1, <2>2, <2>3 DEF WritesInv, WritesTyped
<1>5. InOnePlace'
  <2>1. SUFFICES ASSUME NEW r \in Requests PROVE Places(r)' = Places(r)
    BY <1>1 DEF WritesInv, InOnePlace
  <2>2. Cardinality(Positions(rqueue', r)) = Cardinality(Positions(rqueue, r)) - (IF Head(rqueue) = r THEN 1 ELSE 0)
    BY <1>1, <1>3, PositionsTail
  <2>3. Cardinality(Hands(r)') = Cardinality(Hands(r)) - (IF rwk[w] = r THEN 1 ELSE 0)
                                                       + (IF Head(rqueue) = r THEN 1 ELSE 0)
    BY <1>1, HandsChange DEF WritesInv
  <2>4. rwk[w] # r
    BY <1>1, <1>2
  <2>5. Ends(r)' = Ends(r)
    BY <1>1 DEF Ends, Has
  <2>6. Cardinality(Positions(rqueue, r)) \in Nat /\ Cardinality(Hands(r)) \in Nat /\ Ends(r) \in Nat
    BY PlacesAreNumbers DEF WritesInv
  <2>7. QED
    BY <2>2, <2>3, <2>4, <2>5, <2>6 DEF Places
<1>6. OnlyWritten' /\ AllWritten' /\ R!WrittenInOrder'
  BY <1>1 DEF WritesInv, OnlyWritten, AllWritten, R!WrittenInOrder
<1>7. QED
  BY <1>4, <1>5, <1>6 DEF WritesInv

(* Bytes of r go on the wire.                                              *)
Writes(r, n) ==
  /\ rest[r] > 0 /\ n \in 0 .. Length - rest[r] + 1
  /\ wire' = wire \o R!Bytes(r, n) /\ rest' = [rest EXCEPT ![r] = @ + n]

LEMMA WireGrows ==
  ASSUME WritesInv, NEW r \in Requests, NEW n \in Nat, Writes(r, n)
  PROVE  /\ wire' \in Seq(Requests \X Nat) /\ rest' \in [Requests -> 0 .. Length + 1]
         /\ \A q \in Requests : rest'[q] > 0 <=> rest[q] > 0
         /\ OnlyWritten' /\ AllWritten' /\ R!WrittenInOrder'
<1>1. Length \in Nat
  BY AdaptersAssumption DEF R!AdaptersParameters
<1>2. rest \in [Requests -> 0 .. Length + 1] /\ wire \in Seq(Requests \X Nat)
  BY DEF WritesInv, WritesTyped
<1> PICK l \in Nat : l = Len(wire)
  BY <1>2
<1> PICK b \in Nat : b = rest[r]
  BY <1>2
<1>3. /\ rest' \in [Requests -> 0 .. Length + 1] /\ rest'[r] = b + n /\ b > 0
      /\ \A q \in Requests : q # r => rest'[q] = rest[q]
  BY <1>1, <1>2 DEF Writes
<1> DEFINE B == R!Bytes(r, n)
<1>4. B \in Seq(Requests \X Nat) /\ Len(B) = n /\ \A k \in 1 .. n : B[k] = <<r, b + k - 1>>
  <2>1. n \in Nat /\ B = [k \in 1 .. n |-> <<r, b + k - 1>>]
    BY <1>1 DEF R!Bytes
  <2>2. \A k \in 1 .. n : <<r, b + k - 1>> \in Requests \X Nat
    OBVIOUS
  <2>3. QED
    BY <2>1, <2>2
<1> HIDE DEF B
<1>5. /\ wire' \in Seq(Requests \X Nat) /\ Len(wire') = l + n
      /\ \A i \in 1 .. l : wire'[i] = wire[i]
      /\ \A k \in 1 .. n : wire'[l + k] = <<r, b + k - 1>>
  <2>1. /\ wire \o B \in Seq(Requests \X Nat) /\ Len(wire \o B) = l + n
        /\ \A i \in 1 .. l + n : (wire \o B)[i] = IF i <= l THEN wire[i] ELSE B[i - l]
    BY <1>2, <1>4, ConcatProperties
  <2>2. wire' = wire \o B
    BY DEF B, Writes
  <2>3. \A i \in 1 .. l : i \in 1 .. l + n /\ i <= l
    OBVIOUS
  <2>4. \A k \in 1 .. n : l + k \in 1 .. l + n /\ ~(l + k <= l) /\ l + k - l = k
    OBVIOUS
  <2>5. \A k \in 1 .. n : wire'[l + k] = B[k]
    BY <2>1, <2>2, <2>4
  <2>6. QED
    BY <1>4, <2>1, <2>2, <2>3, <2>5
<1>6. \A i \in 1 .. l : wire[i] \in Requests \X Nat /\ wire[i][2] \in 1 .. rest[wire[i][1]] - 1
  BY <1>2 DEF WritesInv, OnlyWritten
<1>7. \A i \in 1 .. l + n : i \in 1 .. l \/ \E k \in 1 .. n : i = l + k
  <2>1. \A i \in 1 .. l + n : i \notin 1 .. l => i - l \in 1 .. n /\ i = l + (i - l)
    OBVIOUS
  <2>2. QED
    BY <2>1
<1>8. OnlyWritten'
  <2>1. SUFFICES ASSUME NEW i \in 1 .. l + n PROVE wire'[i][2] \in 1 .. rest'[wire'[i][1]] - 1
    BY <1>5 DEF OnlyWritten
  <2>2. CASE i \in 1 .. l
    <3>1. wire'[i] = wire[i] /\ wire[i][1] \in Requests /\ wire[i][2] \in 1 .. rest[wire[i][1]] - 1
      BY <1>5, <1>6, <2>2
    <3>2. rest'[wire[i][1]] >= rest[wire[i][1]] /\ rest[wire[i][1]] \in Nat /\ rest'[wire[i][1]] \in Nat
      <4>1. rest[wire[i][1]] \in Nat /\ rest'[wire[i][1]] \in Nat
        BY <1>2, <1>3, <3>1
      <4>2. \/ rest'[wire[i][1]] = rest[wire[i][1]]
            \/ rest'[wire[i][1]] = b + n /\ rest[wire[i][1]] = b
        BY <1>3, <3>1
      <4>3. b + n >= b
        OBVIOUS
      <4>4. QED
        BY <4>1, <4>2, <4>3
    <3>3. \A m : m \in 1 .. rest[wire[i][1]] - 1 => m \in 1 .. rest'[wire[i][1]] - 1
      BY <3>2
    <3>4. QED
      BY <3>1, <3>3
  <2>3. ASSUME NEW k \in 1 .. n, i = l + k PROVE wire'[i][2] \in 1 .. rest'[wire'[i][1]] - 1
    <3>1. wire'[i][1] = r /\ wire'[i][2] = b + k - 1
      <4>1. wire'[i] = <<r, b + k - 1>>
        BY <1>5, <2>3
      <4>2. QED
        BY <4>1
    <3>2. b + k - 1 \in 1 .. b + n - 1
      BY <1>3
    <3>3. QED
      BY <1>3, <3>1, <3>2
  <2>4. QED
    BY <1>7, <2>2, <2>3
<1>9. AllWritten'
  <2>1. SUFFICES ASSUME NEW q \in Requests, NEW m \in 1 .. Length, m < rest'[q]
                 PROVE  \E i \in 1 .. l + n : wire'[i] = <<q, m>>
    BY <1>5 DEF AllWritten
  <2>2. CASE m < rest[q]
    <3>1. PICK i \in 1 .. l : wire[i] = <<q, m>>
      BY <2>2 DEF WritesInv, AllWritten
    <3>2. i \in 1 .. l + n
      OBVIOUS
    <3>3. wire'[i] = <<q, m>>
      BY <1>5, <3>1
    <3>4. QED
      BY <3>2, <3>3
  <2>3. CASE ~(m < rest[q])
    <3>1. q = r /\ m >= b /\ m < b + n
      BY <1>2, <1>3, <2>1, <2>3
    <3>2. PICK k \in 1 .. n : k = m - b + 1
      BY <3>1
    <3>3. l + k \in 1 .. l + n /\ b + k - 1 = m
      <4>1. m \in Int /\ k \in Int
        BY <1>1
      <4>2. l + k \in 1 .. l + n
        OBVIOUS
      <4>3. b + k - 1 = m
        BY <3>2, <4>1
      <4>4. QED
        BY <4>2, <4>3
    <3>4. wire'[l + k] = <<q, m>>
      BY <1>5, <3>1, <3>3
    <3>5. QED
      BY <3>3, <3>4
  <2>4. QED
    BY <2>2, <2>3
<1>10. R!WrittenInOrder'
  <2>1. SUFFICES ASSUME NEW i \in 1 .. l + n
                 PROVE  /\ \A j \in 1 .. i - 1 : wire'[j] # wire'[i]
                        /\ \/ wire'[i][2] = 1
                           \/ \E j \in 1 .. i - 1 : wire'[j] = <<wire'[i][1], wire'[i][2] - 1>>
    BY <1>5 DEF R!WrittenInOrder
  <2>2. CASE i \in 1 .. l
    <3>1. \A j \in 1 .. i : wire'[j] = wire[j]
      BY <1>5, <2>2
    <3>2. /\ \A j \in 1 .. i - 1 : wire[j] # wire[i]
          /\ wire[i][2] = 1 \/ \E j \in 1 .. i - 1 : wire[j] = <<wire[i][1], wire[i][2] - 1>>
      BY <2>2 DEF WritesInv, R!WrittenInOrder
    <3>3. i \in 1 .. i /\ \A j \in 1 .. i - 1 : j \in 1 .. i
      BY <2>2
    <3>4. QED
      BY <3>1, <3>2, <3>3
  <2>3. ASSUME NEW k \in 1 .. n, i = l + k
        PROVE  /\ \A j \in 1 .. i - 1 : wire'[j] # wire'[i]
               /\ \/ wire'[i][2] = 1
                  \/ \E j \in 1 .. i - 1 : wire'[j] = <<wire'[i][1], wire'[i][2] - 1>>
    <3>1. wire'[i] = <<r, b + k - 1>>
      BY <1>5, <2>3
    <3>2. ASSUME NEW j \in 1 .. i - 1 PROVE wire'[j] # wire'[i]
      <4>1. CASE j \in 1 .. l
        <5>1. wire'[j] = wire[j] /\ wire[j][2] \in 1 .. rest[wire[j][1]] - 1
          BY <1>5, <1>6, <4>1
        <5>2. wire[j][1] = r => wire[j][2] # b + k - 1
          BY <5>1
        <5>3. QED
          BY <3>1, <5>1, <5>2
      <4>2. ASSUME NEW h \in 1 .. n, j = l + h PROVE wire'[j] # wire'[i]
        <5>1. wire'[j] = <<r, b + h - 1>>
          BY <1>5, <4>2
        <5>2. b + h - 1 # b + k - 1
          BY <2>3, <3>2, <4>2
        <5>3. QED
          BY <3>1, <5>1, <5>2
      <4>3. j \in 1 .. l + n
        BY <3>2
      <4>4. QED
        BY <1>7, <4>1, <4>2, <4>3
    <3>3. CASE k > 1
      <4>1. k - 1 \in 1 .. n /\ l + (k - 1) \in 1 .. i - 1
        BY <2>3, <3>3
      <4>2. wire'[l + (k - 1)] = <<r, b + (k - 1) - 1>>
        BY <1>5, <4>1
      <4>3. b + (k - 1) - 1 = b + k - 1 - 1
        OBVIOUS
      <4>4. wire'[i][1] = r /\ wire'[i][2] = b + k - 1
        BY <3>1
      <4>5. wire'[l + (k - 1)] = <<wire'[i][1], wire'[i][2] - 1>>
        <5>1. wire'[l + (k - 1)] = <<r, b + k - 1 - 1>>
          BY <4>2, <4>3
        <5>2. b + k - 1 - 1 = wire'[i][2] - 1
          BY <4>4
        <5>3. QED
          BY <4>4, <5>1, <5>2
      <4>6. QED
        BY <3>2, <4>1, <4>5
    <3>4. CASE k = 1
      <4>1. CASE b = 1
        <5>1. wire'[i][2] = b + k - 1 /\ b + k - 1 = 1
          BY <3>1, <3>4, <4>1
        <5>2. QED
          BY <3>2, <5>1
      <4>2. CASE b # 1
        <5>1. b - 1 \in 1 .. Length /\ b - 1 < rest[r]
          <6>1. b = rest[r] /\ rest[r] \in 0 .. Length + 1
            BY <1>2
          <6>2. QED
            BY <1>1, <1>3, <4>2, <6>1
        <5>2. PICK j \in 1 .. l : wire[j] = <<r, b - 1>>
          BY <5>1 DEF WritesInv, AllWritten
        <5>3. j \in 1 .. i - 1 /\ wire'[j] = <<r, b - 1>>
          BY <1>5, <2>3, <3>4, <5>2
        <5>4. wire'[i][1] = r /\ wire'[i][2] = b
          <6>1. b + k - 1 = b
            BY <3>4
          <6>2. QED
            BY <3>1, <6>1
        <5>5. QED
          BY <3>2, <5>3, <5>4
      <4>3. QED
        BY <4>1, <4>2
    <3>5. k > 1 \/ k = 1
      OBVIOUS
    <3>6. QED
      BY <3>3, <3>4, <3>5
  <2>4. QED
    BY <1>7, <2>2, <2>3
<1>11. \A q \in Requests : rest'[q] > 0 <=> rest[q] > 0
  <2>1. rest'[r] > 0 /\ rest[r] > 0
    BY <1>3
  <2>2. QED
    BY <1>3, <2>1
<1>12. QED
  BY <1>3, <1>5, <1>8, <1>9, <1>10, <1>11

LEMMA ResumeKeeps ==
  ASSUME WritesInv, NEW w \in Threads, R!Resume(w)
  PROVE  WritesInv'
<1> PICK r : r = rwk[w]
  OBVIOUS
<1>1. "none" \notin Requests /\ QueueSize \in Nat /\ Length \in Nat
  BY AdaptersAssumption DEF R!AdaptersParameters
<1>2. r \in Requests /\ rwk' = [rwk EXCEPT ![w] = "none"]
  BY DEF R!Resume, WritesInv, WritesTyped
<1>3. /\ rqueue \in Seq(Requests) /\ Len(rqueue) <= QueueSize
      /\ rest \in [Requests -> 0 .. Length + 1] /\ rest[r] \in Nat
      /\ rwk \in [Threads -> Requests \cup {"none"}] /\ wire \in Seq(Requests \X Nat)
  BY <1>2 DEF WritesInv, WritesTyped
<1>4. \A q : /\ Cardinality(Positions(rqueue, q)) \in Nat /\ Cardinality(Hands(q)) \in Nat
             /\ Ends(q) \in Nat
  BY PlacesAreNumbers DEF WritesInv
(* It is in this consumer's hands and nowhere else.                        *)
<1>5. /\ rest[r] > 0 /\ Cardinality(Positions(rqueue, r)) = 0 /\ Cardinality(Hands(r)) = 1
      /\ r \notin ended /\ r \notin failed /\ r \notin rlost
  <2>1. Cardinality(Hands(r)) > 0
    BY PlacesAreNumbers DEF WritesInv
  <2>2. Places(r) = IF rest[r] > 0 THEN 1 ELSE 0
    BY <1>2 DEF WritesInv, InOnePlace
  <2>3. rest[r] > 0 /\ Cardinality(Positions(rqueue, r)) = 0 /\ Cardinality(Hands(r)) = 1 /\ Ends(r) = 0
    BY <1>3, <1>4, <2>1, <2>2 DEF Places
  <2>4. QED
    BY <2>3 DEF Ends, Has
<1>6. \A q \in Requests : Cardinality(Hands(q)') = IF q = r THEN 0 ELSE Cardinality(Hands(q))
  <2>1. SUFFICES ASSUME NEW q \in Requests
                 PROVE  Cardinality(Hands(q)') = IF q = r THEN 0 ELSE Cardinality(Hands(q))
    OBVIOUS
  <2>2. Cardinality(Hands(q)') = Cardinality(Hands(q)) - (IF rwk[w] = q THEN 1 ELSE 0)
                                                       + (IF "none" = q THEN 1 ELSE 0)
    BY <1>2, HandsChange DEF WritesInv
  <2>3. "none" # q
    BY <1>1
  <2>4. QED
    BY <1>4, <1>5, <2>2, <2>3
<1>7. rwk' \in [Threads -> Requests \cup {"none"}]
  BY <1>2, <1>3
(* It is in one place again: the queue or an end.                          *)
<1>8. ASSUME \A q \in Requests : rest'[q] > 0 <=> rest[q] > 0,
             \A q \in Requests : q # r =>
               Cardinality(Positions(rqueue, q)') = Cardinality(Positions(rqueue, q)) /\ Ends(q)' = Ends(q),
             \/ Cardinality(Positions(rqueue, r)') = 1 /\ Ends(r)' = 0
             \/ Cardinality(Positions(rqueue, r)') = 0 /\ Ends(r)' = 1
      PROVE  InOnePlace'
  <2>1. SUFFICES ASSUME NEW q \in Requests PROVE Places(q)' = IF rest'[q] > 0 THEN 1 ELSE 0
    BY DEF InOnePlace
  <2>2. Places(q)' = Cardinality(Positions(rqueue, q)') + Cardinality(Hands(q)') + Ends(q)'
    BY DEF Places
  <2>3. CASE q = r
    <3>1. Cardinality(Hands(q)') = 0
      BY <1>6, <2>3
    <3>2. rest'[q] > 0
      BY <1>2, <1>5, <1>8, <2>3
    <3>3. QED
      BY <1>8, <2>2, <2>3, <3>1, <3>2
  <2>4. CASE q # r
    <3>1. Places(q)' = Places(q)
      BY <1>6, <1>8, <2>2, <2>4 DEF Places
    <3>2. Places(q) = IF rest[q] > 0 THEN 1 ELSE 0
      BY DEF WritesInv, InOnePlace
    <3>3. QED
      BY <1>8, <3>1, <3>2
  <2>5. QED
    BY <2>3, <2>4
<1>9. UNCHANGED rqueue => \A q : Cardinality(Positions(rqueue, q)') = Cardinality(Positions(rqueue, q))
  BY DEF Positions
<1>10. ASSUME NEW n \in 0 .. Length - rest[r] + 1,
              wire' = wire \o R!Bytes(r, n), rest' = [rest EXCEPT ![r] = @ + n],
              IF rest'[r] > Length THEN ended' = ended \cup {r} /\ UNCHANGED <<rqueue, rlost>>
              ELSE /\ UNCHANGED ended
                   /\ IF Len(rqueue) < QueueSize THEN rqueue' = Append(rqueue, r) /\ UNCHANGED rlost
                      ELSE rlost' = rlost \cup {r} /\ UNCHANGED rqueue,
              failed' = failed
       PROVE  WritesInv'
  <2>1. n \in Nat
    BY <1>1, <1>3, <1>10
  <2>2. Writes(r, n)
    BY <1>5, <1>10 DEF Writes
  <2>3. /\ wire' \in Seq(Requests \X Nat) /\ rest' \in [Requests -> 0 .. Length + 1]
        /\ \A q \in Requests : rest'[q] > 0 <=> rest[q] > 0
        /\ OnlyWritten' /\ AllWritten' /\ R!WrittenInOrder'
    BY <1>2, <2>1, <2>2, WireGrows
  <2>4. CASE rqueue' = Append(rqueue, r) /\ Len(rqueue) < QueueSize /\ rlost' = rlost /\ ended' = ended
    <3>1. rqueue' \in Seq(Requests) /\ Len(rqueue') <= QueueSize
      BY <1>1, <1>2, <1>3, <2>4
    <3>2. \A q : Cardinality(Positions(rqueue, q)') = Cardinality(Positions(rqueue, q)) + (IF r = q THEN 1 ELSE 0)
      BY <1>2, <1>3, <2>4, PositionsAppend
    <3>3. \A q : Ends(q)' = Ends(q)
      BY <1>10, <2>4 DEF Ends, Has
    <3>4. Ends(r) = 0
      BY <1>5 DEF Ends, Has
    <3>5. Cardinality(Positions(rqueue, r)') = 1 /\ Ends(r)' = 0
      BY <1>5, <3>2, <3>3, <3>4
    <3>6. \A q \in Requests : q # r => Cardinality(Positions(rqueue, q)') = Cardinality(Positions(rqueue, q))
      BY <1>4, <3>2
    <3>7. InOnePlace'
      BY <1>8, <2>3, <3>3, <3>5, <3>6
    <3>8. QED
      BY <1>7, <2>3, <3>1, <3>7 DEF WritesInv, WritesTyped
  <2>5. CASE rqueue' = rqueue /\ \/ ended' = ended \cup {r} /\ rlost' = rlost
                                 \/ rlost' = rlost \cup {r} /\ ended' = ended
    <3>1. \A q : q # r => Ends(q)' = Ends(q)
      BY <1>10, <2>5 DEF Ends, Has
    <3>2. Ends(r)' = 1
      BY <1>5, <1>10, <2>5 DEF Ends, Has
    <3>3. Cardinality(Positions(rqueue, r)') = 0 /\ Ends(r)' = 1
      BY <1>5, <1>9, <2>5, <3>2
    <3>4. InOnePlace'
      BY <1>8, <1>9, <2>3, <2>5, <3>1, <3>3
    <3>5. QED
      BY <1>3, <1>7, <2>3, <2>5, <3>4 DEF WritesInv, WritesTyped
  <2>6. QED
    BY <1>10, <2>4, <2>5
<1>11. ASSUME UNCHANGED <<wire, rest, rqueue, rlost>>,
              \/ ended' = ended \cup {r} /\ failed' = failed
              \/ failed' = failed \cup {r} /\ ended' = ended
       PROVE  WritesInv'
  <2>1. \A q : q # r => Ends(q)' = Ends(q)
    BY <1>11 DEF Ends, Has
  <2>2. Ends(r)' = 1
    BY <1>5, <1>11 DEF Ends, Has
  <2>3. Cardinality(Positions(rqueue, r)') = 0 /\ Ends(r)' = 1
    BY <1>5, <1>9, <1>11, <2>2
  <2>4. InOnePlace'
    BY <1>8, <1>9, <1>11, <2>1, <2>3
  <2>5. OnlyWritten' /\ AllWritten' /\ R!WrittenInOrder'
    BY <1>11 DEF WritesInv, OnlyWritten, AllWritten, R!WrittenInOrder
  <2>6. QED
    BY <1>3, <1>7, <1>11, <2>4, <2>5 DEF WritesInv, WritesTyped
<1>12. QED
  BY <1>10, <1>11 DEF R!Resume
-----------------------------------------------------------------------------
(* The items of sequences that grow.                                       *)
LEMMA TwoMore ==
  ASSUME NEW S, NEW s \in Seq(S), NEW a \in S, NEW b \in S
  PROVE  s \o <<a, b>> \in Seq(S) /\ R!ToSet(s \o <<a, b>>) = R!ToSet(s) \cup {a, b}
<1>1. <<a, b>> \in Seq(S) /\ Len(<<a, b>>) = 2 /\ <<a, b>>[1] = a /\ <<a, b>>[2] = b
  OBVIOUS
<1>2. /\ s \o <<a, b>> \in Seq(S) /\ Len(s \o <<a, b>>) = Len(s) + 2
      /\ \A i \in 1 .. Len(s) + 2 : (s \o <<a, b>>)[i] = IF i <= Len(s) THEN s[i] ELSE <<a, b>>[i - Len(s)]
  BY <1>1, ConcatProperties
<1> PICK l \in Nat : l = Len(s)
  OBVIOUS
<1>3. \A i \in 1 .. l : (s \o <<a, b>>)[i] = s[i]
  BY <1>2
<1>4. (s \o <<a, b>>)[l + 1] = a /\ (s \o <<a, b>>)[l + 2] = b
  <2>1. l + 1 \in 1 .. l + 2 /\ l + 2 \in 1 .. l + 2 /\ ~(l + 1 <= l) /\ ~(l + 2 <= l)
        /\ l + 1 - l = 1 /\ l + 2 - l = 2
    OBVIOUS
  <2>2. QED
    BY <1>1, <1>2, <2>1
<1>5. R!ToSet(s \o <<a, b>>) = {(s \o <<a, b>>)[i] : i \in 1 .. l + 2}
  BY <1>2 DEF R!ToSet
<1>6. R!ToSet(s) = {s[i] : i \in 1 .. l}
  BY DEF R!ToSet
<1>7. \A i \in 1 .. l + 2 : i \in 1 .. l \/ i = l + 1 \/ i = l + 2
  OBVIOUS
<1>8. \A i : i \in 1 .. l \/ i = l + 1 \/ i = l + 2 => i \in 1 .. l + 2
  OBVIOUS
<1>9. QED
  BY <1>2, <1>3, <1>4, <1>5, <1>6, <1>7, <1>8

LEMMA PipeKeeps ==
  ASSUME PipesInv, R!Pipe
  PROVE  PipesInv'
<1>1. Pipes \subseteq Nat /\ IsFiniteSet(Pipes)
  BY AdaptersAssumption, SameSets DEF R!AdaptersParameters
<1> DEFINE free == Pipes \ open
           a == CHOOSE x \in free : \A y \in free : x <= y
           b == CHOOSE x \in free \ {a} : \A y \in free \ {a} : x <= y
<1>2. \/ /\ Cardinality(free) > 1
         /\ open' = open \cup {a, b} /\ pips' = pips \o <<a, b>>
         /\ at' = IF Len(pips') = 4 THEN "first" ELSE at
      \/ at' = "fail" /\ UNCHANGED <<open, pips>>
  <2>1. R!Cardinality(free) = Cardinality(free)
    BY SameSets
  <2>2. QED
    BY <2>1, Zenon DEF R!Pipe
<1>3. at = "idle" /\ given' = given
  BY DEF R!Pipe
<1>4. CASE at' = "fail" /\ UNCHANGED <<open, pips>>
  BY <1>3, <1>4 DEF PipesInv, R!NoPipeLeaks
<1>5. CASE /\ Cardinality(free) > 1
           /\ open' = open \cup {a, b} /\ pips' = pips \o <<a, b>>
           /\ at' = IF Len(pips') = 4 THEN "first" ELSE at
  <2>1. free \subseteq Nat /\ IsFiniteSet(free)
    BY <1>1, PartOf
  <2>2. free # {} /\ \A x : free # {x}
    <3>1. Cardinality({}) = 0 /\ \A x : Cardinality({x}) = 1
      BY FS_EmptySet, FS_Singleton
    <3> HIDE DEF free, a, b
    <3>2. Cardinality(free) # 0 /\ Cardinality(free) # 1
      BY <1>5
    <3>3. QED
      BY <3>1, <3>2, Zenon
  <2>3. a \in free
    <3> HIDE DEF free
    <3>1. \E x \in free : \A y \in free : x <= y
      BY <2>1, <2>2, MinExists
    <3>2. QED
      BY <3>1
  <2>4. b \in free
    <3> HIDE DEF free, a
    <3>1. free \ {a} # {} /\ free \ {a} \subseteq Nat
      BY <2>1, <2>2
    <3>2. \E x \in free \ {a} : \A y \in free \ {a} : x <= y
      BY <3>1, MinExists
    <3>3. QED
      BY <3>2
  <2> HIDE DEF a, b
  <2>5. a \in Pipes /\ b \in Pipes
    BY <2>3, <2>4
  <2>6. pips' \in Seq(Pipes) /\ R!ToSet(pips') = R!ToSet(pips) \cup {a, b}
    BY <1>5, <2>5, TwoMore DEF PipesInv
  <2>7. at' \in {"idle", "first"} /\ open' \subseteq Pipes
    BY <1>3, <1>5, <2>5 DEF PipesInv
  <2>8. R!NoPipeLeaks'
    BY <1>3, <1>5, <2>6 DEF PipesInv, R!NoPipeLeaks
  <2>9. QED
    BY <2>6, <2>7, <2>8 DEF PipesInv
<1>6. QED
  BY <1>2, <1>4, <1>5

LEMMA SpleisKeeps ==
  ASSUME PipesInv, R!Spleis
  PROVE  PipesInv'
<1>1. /\ open' = open
      /\ \/ at' = "second" /\ UNCHANGED <<given, pips>>
         \/ at' = "idle" /\ given' = given \cup {pips} /\ pips' = <<>>
         \/ at' = "fail" /\ UNCHANGED <<given, pips>>
  BY DEF R!Spleis
<1>2. CASE UNCHANGED <<given, pips>>
  BY <1>1, <1>2 DEF PipesInv, R!NoPipeLeaks
<1>3. CASE at' = "idle" /\ given' = given \cup {pips} /\ pips' = <<>>
  <2>1. R!NoPipeLeaks'
    BY <1>1, <1>3 DEF PipesInv, R!NoPipeLeaks
  <2>2. QED
    BY <1>1, <1>3, <2>1 DEF PipesInv
<1>4. QED
  BY <1>1, <1>2, <1>3

LEMMA FailKeeps ==
  ASSUME PipesInv, R!Fail
  PROVE  PipesInv'
<1>1. /\ open' = open \ {pips[i] : i \in {j \in 1 .. Len(pips) : pips[j] > 0}}
      /\ pips' = <<>> /\ at' = "idle" /\ given' = given
  BY DEF R!Fail
<1>2. \A x \in open \ {0} : x \in Nat /\ x > 0
  BY AdaptersAssumption DEF R!AdaptersParameters, PipesInv
<1>3. R!ToSet(pips) = {pips[i] : i \in 1 .. Len(pips)}
  BY DEF R!ToSet, PipesInv
<1>4. \A x \in open' \ {0} : x \notin R!ToSet(pips)
  BY <1>1, <1>2, <1>3
<1>5. R!NoPipeLeaks'
  BY <1>1, <1>4 DEF PipesInv, R!NoPipeLeaks
<1>6. QED
  BY <1>1, <1>5 DEF PipesInv

LEMMA CloseSockKeeps ==
  ASSUME PipesInv, R!CloseSock
  PROVE  PipesInv'
<1>1. PICK s \in given : given' = given \ {s} /\ open' = open \ R!ToSet(s)
  BY DEF R!CloseSock
<1>2. pips' = pips /\ at' = at
  BY DEF R!CloseSock
<1>3. R!NoPipeLeaks'
  BY <1>1, <1>2 DEF PipesInv, R!NoPipeLeaks
<1>4. QED
  BY <1>1, <1>2, <1>3 DEF PipesInv

(* What the two halves leave alone.                                        *)
LEMMA HalvesApart ==
  /\ WritesInv /\ UNCHANGED R!writes => WritesInv'
  /\ PipesInv /\ UNCHANGED R!splicer => PipesInv'
<1>1. ASSUME WritesInv, UNCHANGED R!writes PROVE WritesInv'
  <2>1. /\ rqueue' = rqueue /\ rest' = rest /\ rwk' = rwk /\ wire' = wire
        /\ ended' = ended /\ failed' = failed /\ rlost' = rlost
    BY <1>1 DEF R!writes
  <2>2. WritesTyped' /\ OnlyWritten' /\ AllWritten' /\ R!WrittenInOrder'
    BY <1>1, <2>1 DEF WritesInv, WritesTyped, OnlyWritten, AllWritten, R!WrittenInOrder
  <2>3. InOnePlace'
    BY <1>1, <2>1 DEF WritesInv, InOnePlace, Places, Positions, Hands, Ends, Has
  <2>4. QED
    BY <2>2, <2>3 DEF WritesInv
<1>2. ASSUME PipesInv, UNCHANGED R!splicer PROVE PipesInv'
  BY <1>2 DEF R!splicer, PipesInv, R!NoPipeLeaks
<1>3. QED
  BY <1>1, <1>2

LEMMA InitAdapters ==
  ASSUME R!Init PROVE WritesInv /\ PipesInv
<1>1. /\ rqueue = <<>> /\ rest = [r \in Requests |-> 0] /\ rwk = [w \in Threads |-> "none"]
      /\ wire = <<>> /\ ended = {} /\ failed = {} /\ rlost = {}
      /\ pips = <<>> /\ at = "idle" /\ open = {}
  BY DEF R!Init
<1>2. "none" \notin Requests /\ QueueSize \in Nat /\ Length \in Nat
  BY AdaptersAssumption DEF R!AdaptersParameters
<1>3. WritesTyped
  BY <1>1, <1>2 DEF WritesTyped
<1>4. InOnePlace
  <2>1. SUFFICES ASSUME NEW r \in Requests PROVE Places(r) = 0
    BY <1>1 DEF InOnePlace
  <2>2. Positions(rqueue, r) = {} /\ Hands(r) = {} /\ Ends(r) = 0
    BY <1>1, <1>2 DEF Positions, Hands, Ends, Has
  <2>3. QED
    BY <2>2, FS_EmptySet DEF Places
<1>5. OnlyWritten /\ R!WrittenInOrder
  BY <1>1 DEF OnlyWritten, R!WrittenInOrder
<1>6. AllWritten
  BY <1>1, <1>2 DEF AllWritten
<1>7. PipesInv
  BY <1>1 DEF PipesInv, R!NoPipeLeaks
<1>8. QED
  BY <1>3, <1>4, <1>5, <1>6, <1>7 DEF WritesInv

LEMMA StepAdapters ==
  ASSUME WritesInv, PipesInv, [R!Next]_(R!vars)
  PROVE  WritesInv' /\ PipesInv'
<1>1. CASE UNCHANGED R!vars
  BY <1>1, HalvesApart DEF R!vars
<1>2. ASSUME NEW r \in Requests, R!Submit(r) PROVE WritesInv' /\ PipesInv'
  BY <1>2, SubmitKeeps, HalvesApart DEF R!Submit
<1>3. ASSUME NEW w \in Threads, R!Take(w) PROVE WritesInv' /\ PipesInv'
  BY <1>3, TakeKeeps, HalvesApart DEF R!Take
<1>4. ASSUME NEW w \in Threads, R!Resume(w) PROVE WritesInv' /\ PipesInv'
  BY <1>4, ResumeKeeps, HalvesApart DEF R!Resume
<1>5. CASE R!Pipe
  BY <1>5, PipeKeeps, HalvesApart DEF R!Pipe
<1>6. CASE R!Spleis
  BY <1>6, SpleisKeeps, HalvesApart DEF R!Spleis
<1>7. CASE R!Fail
  BY <1>7, FailKeeps, HalvesApart DEF R!Fail
<1>8. CASE R!CloseSock
  BY <1>8, CloseSockKeeps, HalvesApart DEF R!CloseSock
<1>9. QED
  BY <1>1, <1>2, <1>3, <1>4, <1>5, <1>6, <1>7, <1>8 DEF R!Next

(* Of three sets with different names, those that have r.                  *)
LEMMA ThreeEnds ==
  ASSUME NEW r
  PROVE  Cardinality({S \in {<<"end", ended>>, <<"error", failed>>, <<"full", rlost>>} : r \in S[2]})
           = Ends(r)
<1> DEFINE e == <<"end", ended>>
           f == <<"error", failed>>
           l == <<"full", rlost>>
           E == IF r \in ended THEN {e} ELSE {}
           F == IF r \in failed THEN E \cup {f} ELSE E
           A3 == IF r \in rlost THEN F \cup {l} ELSE F
<1>1. e # f /\ e # l /\ f # l
  OBVIOUS
<1>2. {S \in {e, f, l} : r \in S[2]} = A3
  <2>1. e[2] = ended /\ f[2] = failed /\ l[2] = rlost
    OBVIOUS
  <2> HIDE DEF e, f, l
  <2>2. QED
    BY <2>1
<1> HIDE DEF e, f, l
<1>3. IsFiniteSet(E) /\ Cardinality(E) = Has(ended, r) /\ f \notin E /\ l \notin E
  BY <1>1, FS_EmptySet, FS_Singleton DEF Has
<1> HIDE DEF E
<1>4. IsFiniteSet(F) /\ Cardinality(F) = Cardinality(E) + Has(failed, r) /\ l \notin F
  <2>1. Cardinality(E) \in Nat
    BY <1>3 DEF Has
  <2>2. CASE r \in failed
    <3>1. F = E \cup {f} /\ Has(failed, r) = 1
      BY <2>2 DEF Has
    <3>2. IsFiniteSet(E \cup {f}) /\ Cardinality(E \cup {f}) = Cardinality(E) + 1
      BY <1>3, FS_AddElement
    <3> HIDE DEF F
    <3>3. QED
      BY <1>1, <1>3, <3>1, <3>2
  <2>3. CASE r \notin failed
    <3>1. F = E /\ Has(failed, r) = 0
      BY <2>3 DEF Has
    <3> HIDE DEF F
    <3>2. QED
      BY <1>3, <2>1, <3>1
  <2>4. QED
    BY <2>2, <2>3
<1> HIDE DEF F
<1>5. Cardinality(A3) = Cardinality(F) + Has(rlost, r)
  <2>1. Cardinality(F) \in Nat
    BY <1>3, <1>4 DEF Has
  <2>2. CASE r \in rlost
    <3>1. A3 = F \cup {l} /\ Has(rlost, r) = 1
      BY <2>2 DEF Has
    <3>2. Cardinality(F \cup {l}) = Cardinality(F) + 1
      BY <1>4, FS_AddElement
    <3> HIDE DEF A3
    <3>3. QED
      BY <3>1, <3>2
  <2>3. CASE r \notin rlost
    <3>1. A3 = F /\ Has(rlost, r) = 0
      BY <2>3 DEF Has
    <3> HIDE DEF A3
    <3>2. QED
      BY <2>1, <3>1
  <2>4. QED
    BY <2>2, <2>3
<1>6. Has(ended, r) \in Nat /\ Has(failed, r) \in Nat /\ Has(rlost, r) \in Nat
  BY DEF Has
<1> HIDE DEF A3
<1>7. Cardinality(A3) = Ends(r)
  BY <1>3, <1>4, <1>5, <1>6 DEF Ends
<1>8. QED
  BY <1>2, <1>7 DEF e, f, l

LEMMA AdaptersSound ==
  ASSUME WritesInv, PipesInv
  PROVE  HandedOnOnce
<1>1. R!TypeOK
  BY DEF R!TypeOK, WritesInv, WritesTyped, PipesInv
<1>2. R!RequestsEndOnce
  <2>1. SUFFICES ASSUME NEW r \in Requests, rest[r] > 0
                 PROVE  Cardinality(Positions(rqueue, r)) + Cardinality(Hands(r)) + Ends(r) = 1
    BY ThreeEnds, SameSets DEF R!RequestsEndOnce, Positions, Hands
  <2>2. QED
    BY <2>1 DEF WritesInv, InOnePlace, Places
<1>3. QED
  BY <1>1, <1>2 DEF HandedOnOnce, WritesInv, PipesInv

(* Requests that go through the queue until they are written reach one end *)
(* and their bytes the wire in order and once, and pipes their caller or   *)
(* the kernel.                                                             *)
THEOREM HandedOnAlwaysOnce == ExtrasSpec => []HandedOnOnce
<1>1. ExtrasInit => WritesInv /\ PipesInv
  BY InitAdapters DEF ExtrasInit
<1>2. WritesInv /\ PipesInv /\ [ExtrasNext]_all => WritesInv' /\ PipesInv'
  <2>1. [ExtrasNext]_all => [R!Next]_(R!vars)
    BY DEF ExtrasNext, all, adapters, R!vars, R!writes, R!splicer
  <2>2. QED
    BY <2>1, StepAdapters
<1>3. WritesInv /\ PipesInv => HandedOnOnce
  BY AdaptersSound
<1>4. QED
  BY <1>1, <1>2, <1>3, PTL DEF ExtrasSpec

-----------------------------------------------------------------------------
(* Packet assembly.                                                        *)

(* The packets of a plan, their lengths and their last fragments.          *)
Whole(p) == p.chunks \cup p.packets
PacketNames(p) == {c.of : c \in Whole(p)}
Size(p, of) == (CHOOSE c \in Whole(p) : c.of = of).len
End(p, of) == IF Size(p, of) = 0 THEN 0 ELSE (Size(p, of) - 1) \div FragSz
(* The bytes of a fragment, and their places in the packet.                *)
Bytes(p, of, k) == IF k = End(p, of) THEN Size(p, of) - End(p, of) * FragSz ELSE FragSz
Span(p, of, k) == k * FragSz .. k * FragSz + Bytes(p, of, k) - 1
Total(p, of, C) ==
  Cardinality(C \ {End(p, of)}) * FragSz + (IF End(p, of) \in C THEN Bytes(p, of, End(p, of)) ELSE 0)

(* A packet has its length, and at least one fragment to be cut into, of   *)
(* which only the last may be short.                                       *)
LEMMA PacketSizes ==
  ASSUME NEW p \in Plans, NEW of \in PacketNames(p)
  PROVE  /\ Size(p, of) \in Nat /\ End(p, of) \in Nat
         /\ End(p, of) * FragSz \in Nat
         /\ End(p, of) * FragSz <= Size(p, of)
         /\ Size(p, of) <= End(p, of) * FragSz + FragSz
         /\ Size(p, of) # 0 => End(p, of) * FragSz < Size(p, of)
         /\ \A c \in Whole(p) : c.of = of => Size(p, of) = c.len
<1>1. PICK c \in Whole(p) : c.of = of
  BY DEF PacketNames
<1>2. /\ \A d \in Whole(p) : d.len \in Nat
      /\ \A d, e \in Whole(p) : d.of = e.of => d = e
  BY AssemblyAssumption DEF A!AssemblyParameters, A!PlanParameters, Whole
<1>3. (CHOOSE d \in Whole(p) : d.of = of) = c
  BY <1>1, <1>2
<1>4. Size(p, of) = c.len /\ Size(p, of) \in Nat
  BY <1>2, <1>3 DEF Size
<1>5. \A d \in Whole(p) : d.of = of => Size(p, of) = d.len
  BY <1>1, <1>2, <1>4
<1>6. FragSz \in Nat \ {0}
  BY AssemblyAssumption DEF A!AssemblyParameters
<1>7. CASE Size(p, of) = 0
  BY <1>4, <1>5, <1>6, <1>7 DEF End
<1>8. CASE Size(p, of) # 0
  <2> DEFINE m == Size(p, of) - 1
             q == m \div FragSz
  <2>1. m \in Nat /\ End(p, of) = q
    BY <1>4, <1>8 DEF End
  <2>2. q \in Nat /\ m % FragSz \in 0 .. FragSz - 1 /\ m % FragSz = m - FragSz * q
    <3>1. m \in Int /\ FragSz \in Nat \ {0} /\ m >= 0
      BY <2>1, <1>6
    <3> HIDE DEF m
    <3> QED
      BY <3>1, Division
  <2>3. q * FragSz = FragSz * q /\ q * FragSz \in Int /\ q * FragSz >= 0
    <3>1. q \in Int /\ FragSz \in Nat /\ q >= 0 /\ FragSz \in Int
      BY <2>2, <1>6
    <3> HIDE DEF q
    <3>2. q * FragSz \in Int /\ q * FragSz >= 0
      BY <3>1, Products
    <3>3. q * FragSz = FragSz * q
      BY <3>1
    <3>4. QED
      BY <3>2, <3>3
  <2>4. Size(p, of) = m + 1 /\ m % FragSz \in Nat /\ m % FragSz < FragSz
    BY <2>2, <1>4, <1>6
  <2> DEFINE r == m % FragSz
             Q == q * FragSz
  <2>5. m = Q + r /\ r \in Nat /\ r < FragSz /\ Q \in Nat
    <3>1. r = m - FragSz * q /\ r \in Nat /\ r < FragSz
      BY <2>2, <2>4
    <3>2. Q \in Int /\ Q >= 0 /\ FragSz * q = Q
      BY <2>3
    <3> HIDE DEF r, Q, m, q
    <3>3. r = m - Q
      BY <3>1, <3>2
    <3> QED
      BY <3>1, <3>2, <3>3, <2>1
  <2>6. End(p, of) * FragSz = Q
    BY <2>1
  <2>7. Size(p, of) = Q + r + 1
    <3> HIDE DEF Q, r, m
    <3> QED
      BY <2>4, <2>5
  <2> HIDE DEF Q, r, m, q
  <2>8. /\ Q \in Nat /\ Q <= Size(p, of) /\ Size(p, of) <= Q + FragSz /\ Q < Size(p, of)
    BY <2>5, <2>7, <1>6
  <2>9. QED
    BY <2>1, <2>2, <2>6, <2>8, <1>4, <1>5
<1>9. QED
  BY <1>7, <1>8

(* The places of the fragments.  What is left after the first k of them is *)
(* more than a fragment exactly if fragment k is not the last.             *)
LEMMA FragmentShape ==
  ASSUME NEW p \in Plans, NEW of \in PacketNames(p), NEW k \in 0 .. End(p, of)
  PROVE  /\ k * FragSz \in Nat /\ k * FragSz <= Size(p, of)
         /\ Size(p, of) - k * FragSz > FragSz => k # End(p, of)
         /\ k # End(p, of) /\ Size(p, of) # 0 => Size(p, of) - k * FragSz > FragSz
         /\ k # End(p, of) =>
              k + 1 \in 0 .. End(p, of) /\ (k + 1) * FragSz = k * FragSz + FragSz
         /\ Bytes(p, of, k) \in Nat /\ Bytes(p, of, k) <= FragSz
         /\ Size(p, of) # 0 => Bytes(p, of, k) > 0
         /\ k * FragSz + Bytes(p, of, k) <= Size(p, of)
         /\ Span(p, of, k) \subseteq 0 .. Size(p, of) - 1
<1> DEFINE e == End(p, of)
           E == End(p, of) * FragSz
           K == k * FragSz
           n == Size(p, of)
<1>1. /\ n \in Nat /\ e \in Nat /\ E \in Nat /\ E <= n /\ n <= E + FragSz /\ (n # 0 => E < n)
      /\ FragSz \in Nat \ {0} /\ FragSz \in Nat
  BY PacketSizes, AssemblyAssumption DEF A!AssemblyParameters
<1>2. k \in Int /\ e \in Int /\ k \in Nat /\ k <= e /\ 1 \in Int /\ 1 \in Nat
  BY <1>1
<1>3. K \in Int /\ K >= 0
  BY <1>1, <1>2, Products
<1>4. k # e => K + FragSz <= E
  <2>1. k < e => k * FragSz + FragSz <= e * FragSz
    <3> HIDE DEF e
    <3> QED
      BY <1>1, <1>2, Products
  <2>2. k # e => k < e
    <3>1. k \in Int /\ e \in Int /\ k <= e
      BY <1>2
    <3> HIDE DEF e
    <3> QED
      BY <3>1
  <2>3. QED
    BY <2>1, <2>2
<1>5. k = e => K = E
  OBVIOUS
<1>6. (k + 1) * FragSz = K + FragSz
  BY <1>1, <1>2
<1>7. Bytes(p, of, k) = IF k = e THEN n - E ELSE FragSz
  BY DEF Bytes
<1>8. Span(p, of, k) = K .. K + Bytes(p, of, k) - 1
  BY DEF Span
<1> HIDE DEF E, K, n
<1>9. K \in Nat /\ K <= n /\ (n - K > FragSz => k # e) /\ (k # e /\ n # 0 => n - K > FragSz)
  BY <1>1, <1>3, <1>4, <1>5
<1>10. Bytes(p, of, k) \in Nat /\ Bytes(p, of, k) <= FragSz /\ (n # 0 => Bytes(p, of, k) > 0)
  BY <1>1, <1>7
<1>11. K + Bytes(p, of, k) <= n
  BY <1>1, <1>3, <1>4, <1>5, <1>7
<1>12. Span(p, of, k) \subseteq 0 .. n - 1
  BY <1>8, <1>9, <1>10, <1>11, <1>1
<1>13. k # e => k + 1 \in 0 .. e
  BY <1>1, <1>2
<1>14. QED
  BY <1>6, <1>9, <1>10, <1>11, <1>12, <1>13 DEF E, K, n

(* Every place of a packet is in one of its fragments.                     *)
LEMMA SpansCover ==
  ASSUME NEW p \in Plans, NEW of \in PacketNames(p), NEW i \in 0 .. Size(p, of) - 1
  PROVE  \E k \in 0 .. End(p, of) : i \in Span(p, of, k)
<1> DEFINE k == i \div FragSz
           K == k * FragSz
           E == End(p, of) * FragSz
<1>1. /\ Size(p, of) \in Nat /\ End(p, of) \in Nat /\ E \in Nat /\ E <= Size(p, of)
      /\ Size(p, of) <= E + FragSz
      /\ FragSz \in Nat \ {0} /\ FragSz \in Nat
  BY PacketSizes, AssemblyAssumption DEF A!AssemblyParameters
<1>2. i \in Nat /\ i < Size(p, of)
  BY <1>1
<1>3. k \in Nat /\ i % FragSz \in 0 .. FragSz - 1 /\ i % FragSz = i - FragSz * k
  <2>1. i \in Int /\ FragSz \in Nat \ {0} /\ i >= 0
    BY <1>1, <1>2
  <2>2. QED
    BY <2>1, Division
<1>4. K = FragSz * k /\ K \in Int
  <2>1. k \in Int /\ FragSz \in Int
    BY <1>1, <1>3
  <2> HIDE DEF k
  <2>2. QED
    BY <2>1
<1>5. K <= i /\ i < K + FragSz
  <2>1. K = i - (i % FragSz) /\ i % FragSz \in Nat /\ i % FragSz < FragSz
    <3>1. i % FragSz = i - K /\ i % FragSz \in 0 .. FragSz - 1
      BY <1>3, <1>4
    <3> HIDE DEF K
    <3> QED
      BY <3>1, <1>1, <1>2, <1>4
  <2> HIDE DEF K
  <2>2. QED
    BY <2>1, <1>1, <1>2
<1>6. k <= End(p, of)
  <2>1. SUFFICES ASSUME End(p, of) < k PROVE FALSE
    BY <1>1, <1>3
  <2>2. E + FragSz <= K
    <3> HIDE DEF k
    <3> QED
      BY <2>1, <1>1, <1>3, Products
  <2> HIDE DEF E, K
  <2>3. QED
    BY <2>2, <1>1, <1>2, <1>4, <1>5
<1>7. k \in 0 .. End(p, of)
  BY <1>1, <1>3, <1>6
<1>8. i <= K + Bytes(p, of, k) - 1
  <2>1. Bytes(p, of, k) = IF k = End(p, of) THEN Size(p, of) - E ELSE FragSz
    BY DEF Bytes
  <2>2. k = End(p, of) => K = E
    OBVIOUS
  <2> HIDE DEF E, K, k
  <2>3. QED
    BY <2>1, <2>2, <1>1, <1>2, <1>4, <1>5
<1>9. i \in Span(p, of, k)
  <2>1. K + Bytes(p, of, k) - 1 \in Int
    BY FragmentShape, <1>7, <1>4
  <2> HIDE DEF k
  <2>2. QED
    BY <2>1, <1>2, <1>4, <1>5, <1>8 DEF Span
<1>10. QED
  BY <1>7, <1>9

(* How many bytes a set of fragments has: one more adds its bytes, and it  *)
(* is all of them if they have all the bytes.                              *)
LEMMA TotalAdd ==
  ASSUME NEW p \in Plans, NEW of \in PacketNames(p), NEW C \in SUBSET (0 .. End(p, of)),
         NEW k \in 0 .. End(p, of)
  PROVE  /\ Total(p, of, {}) = 0 /\ Total(p, of, C) \in Int
         /\ k \notin C => Total(p, of, C \cup {k}) = Total(p, of, C) + Bytes(p, of, k)
         /\ Total(p, of, C) = Size(p, of) /\ Size(p, of) # 0 => C = 0 .. End(p, of)
<1> DEFINE e == End(p, of)
           D == C \ {e}
<1>1. /\ Size(p, of) \in Nat /\ e \in Nat /\ e * FragSz \in Nat
      /\ (Size(p, of) # 0 => e * FragSz < Size(p, of))
      /\ FragSz \in Nat \ {0} /\ FragSz \in Nat
  BY PacketSizes, AssemblyAssumption DEF A!AssemblyParameters
<1>2. e \in 0 .. e /\ Bytes(p, of, e) \in Nat /\ Bytes(p, of, e) = Size(p, of) - e * FragSz
      /\ Bytes(p, of, k) \in Nat
  BY <1>1, FragmentShape DEF Bytes
<1>3. IsFiniteSet(0 .. e - 1) /\ Cardinality(0 .. e - 1) = e /\ D \subseteq 0 .. e - 1
  <2>1. e \in Nat
    BY <1>1
  <2>2. IsFiniteSet(0 .. e - 1) /\ Cardinality(0 .. e - 1) = e
    <3> HIDE DEF e
    <3> QED
      BY <2>1, FirstNumbers
  <2>3. \A j : j \in C /\ j # e => j \in 0 .. e - 1
    <3>1. C \subseteq 0 .. e
      OBVIOUS
    <3> HIDE DEF e
    <3> QED
      BY <2>1, <3>1
  <2>4. QED
    BY <2>2, <2>3
<1>4. IsFiniteSet(D) /\ Cardinality(D) \in Nat /\ Cardinality(D) <= e
  BY <1>3, PartOf
<1>5. Total(p, of, {}) = 0
  <2>1. {} \ {e} = {} /\ Cardinality({}) = 0
    BY FS_EmptySet
  <2>2. QED
    BY <2>1, <1>1 DEF Total
<1>6. Cardinality(D) * FragSz \in Int /\ Total(p, of, C) = Cardinality(D) * FragSz + (IF e \in C THEN Bytes(p, of, e) ELSE 0)
  <2>1. Cardinality(D) \in Int
    BY <1>4
  <2>2. Cardinality(D) * FragSz \in Int
    <3> HIDE DEF D
    <3> QED
      BY <2>1, <1>1, Products
  <2>3. QED
    BY <2>2 DEF Total
<1>7. ASSUME k \notin C
      PROVE  Total(p, of, C \cup {k}) = Total(p, of, C) + Bytes(p, of, k)
  <2>1. CASE k = e
    <3>1. (C \cup {k}) \ {e} = D /\ e \notin C /\ e \in C \cup {k}
      BY <2>1, <1>7
    <3>2. Total(p, of, C \cup {k}) = Cardinality(D) * FragSz + Bytes(p, of, e)
      BY <3>1 DEF Total
    <3> HIDE DEF D
    <3>3. QED
      BY <3>1, <3>2, <1>6, <1>2, <2>1
  <2>2. CASE k # e
    <3>1. (C \cup {k}) \ {e} = D \cup {k} /\ k \notin D /\ (e \in C \cup {k} <=> e \in C)
      BY <2>2, <1>7
    <3>2. Cardinality(D \cup {k}) = Cardinality(D) + 1
      BY <3>1, <1>4, FS_AddElement
    <3>3. (Cardinality(D) + 1) * FragSz = Cardinality(D) * FragSz + FragSz
      <4> HIDE DEF D
      <4> QED
        BY <1>1, <1>4
    <3>4. Total(p, of, C \cup {k})
            = Cardinality(D) * FragSz + FragSz + (IF e \in C THEN Bytes(p, of, e) ELSE 0)
      <4>1. Cardinality((C \cup {k}) \ {e}) * FragSz = Cardinality(D) * FragSz + FragSz
        BY <3>1, <3>2, <3>3
      <4>2. QED
        BY <3>1, <4>1 DEF Total
    <3>5. Bytes(p, of, k) = FragSz
      BY <2>2 DEF Bytes
    <3>6. \E m \in {Bytes(p, of, e), 0} : m = IF e \in C THEN Bytes(p, of, e) ELSE 0
      OBVIOUS
    <3>7. PICK m \in Nat : m = IF e \in C THEN Bytes(p, of, e) ELSE 0
      BY <3>6, <1>2
    <3>8. /\ Total(p, of, C \cup {k}) = Cardinality(D) * FragSz + FragSz + m
          /\ Total(p, of, C) = Cardinality(D) * FragSz + m
      BY <3>4, <1>6, <3>7
    <3> HIDE DEF D
    <3>9. QED
      BY <3>8, <3>5, <1>6, <1>1, <3>7
  <2>3. QED
    BY <2>1, <2>2
<1>8. ASSUME Total(p, of, C) = Size(p, of), Size(p, of) # 0
      PROVE  C = 0 .. e
  <2>1. Cardinality(D) * FragSz <= e * FragSz
    <3>1. Cardinality(D) \in Int /\ e \in Int
      BY <1>1, <1>4
    <3> HIDE DEF D, e
    <3> QED
      BY <3>1, <1>1, <1>4, Products
  <2>2. e \in C
    <3> HIDE DEF D
    <3>1. SUFFICES ASSUME e \notin C PROVE FALSE
      OBVIOUS
    <3>2. Total(p, of, C) = Cardinality(D) * FragSz
      BY <3>1, <1>6
    <3> QED
      BY <3>2, <1>1, <1>6, <1>8, <2>1
  <2>3. Cardinality(D) * FragSz = e * FragSz
    <3> HIDE DEF D
    <3>1. Total(p, of, C) = Cardinality(D) * FragSz + (Size(p, of) - e * FragSz)
      BY <2>2, <1>2, <1>6
    <3> QED
      BY <3>1, <1>1, <1>6, <1>8
  <2>4. Cardinality(D) = e
    <3>1. Cardinality(D) < e => Cardinality(D) * FragSz + FragSz <= e * FragSz
      <4> HIDE DEF D, e
      <4>1. Cardinality(D) \in Int /\ e \in Int
        BY <1>1, <1>4
      <4> QED
        BY <4>1, <1>1, Products
    <3> HIDE DEF D
    <3> QED
      BY <3>1, <2>3, <1>1, <1>4, <1>6
  <2>5. D = 0 .. e - 1
    BY <2>4, <1>3, FS_Subset
  <2>6. 0 .. e = (0 .. e - 1) \cup {e}
    <3>1. e \in Nat
      BY <1>1
    <3> HIDE DEF e
    <3> QED
      BY <3>1
  <2>7. C = D \cup {e}
    BY <2>2
  <2>8. QED
    BY <2>5, <2>6, <2>7
<1>9. QED
  BY <1>5, <1>6, <1>7, <1>8, <1>4, <1>2

ChunksOf(p) ==
  {d \in [of : PacketNames(p), id : 0 .. MaxId, size : Nat, left : Nat, fragno : Nat] :
     d.fragno \in 0 .. End(p, d.of) /\ d.left = Size(p, d.of) - d.fragno * FragSz}
FragmentsOf(p) ==
  {f \in [of : PacketNames(p), id : 1 .. MaxId, size : Nat, fragno : Nat, last : BOOLEAN, n : Int] :
     /\ f.fragno \in 0 .. End(p, f.of) /\ Size(p, f.of) # 0
     /\ f.last <=> f.fragno = End(p, f.of)
     /\ f.fragno = 0 => f.size = Size(p, f.of)}

(* What is copied of a fragment are its bytes, to their places.            *)
LEMMA LengthCopied ==
  ASSUME NEW p \in Plans, NEW f \in FragmentsOf(p)
  PROVE  /\ A!LenOf(f, Size(p, f.of)) = Bytes(p, f.of, f.fragno)
         /\ A!Places(f, Size(p, f.of)) = Span(p, f.of, f.fragno)
<1> DEFINE n == Size(p, f.of)
           e == End(p, f.of)
           E == e * FragSz
           r == n - E
<1>1. f.of \in PacketNames(p) /\ n # 0 /\ (f.last <=> f.fragno = e)
  BY DEF FragmentsOf
<1>2. /\ n \in Nat /\ e \in Nat /\ E \in Nat /\ n <= E + FragSz /\ E < n
      /\ FragSz \in Nat \ {0}
  BY <1>1, PacketSizes, AssemblyAssumption DEF A!AssemblyParameters
<1>3. r \in 1 .. FragSz /\ n = E + r
  <2> HIDE DEF n, E
  <2> QED
    BY <1>2
<1>4. r # FragSz => n % FragSz = r
  <2>1. SUFFICES ASSUME r # FragSz PROVE n % FragSz = r
    OBVIOUS
  <2>2. r \in 0 .. FragSz - 1 /\ r \in Int /\ n \in Int /\ e \in Int
    BY <1>2, <1>3, <2>1
  <2>3. Divided(n, FragSz, e, r)
    <3>1. n = e * FragSz + r
      BY <1>3
    <3> HIDE DEF n, e, r
    <3>2. e * FragSz = FragSz * e
      BY <2>2, <1>2
    <3>3. QED
      BY <3>1, <3>2, <2>2 DEF Divided
  <2> HIDE DEF n, e, r
  <2>4. QED
    BY <2>2, <2>3, <1>2, OneQuotient
<1>5. r = FragSz => n % FragSz = 0
  <2>1. SUFFICES ASSUME r = FragSz PROVE n % FragSz = 0
    OBVIOUS
  <2>2. (e + 1) * FragSz = E + FragSz
    <3> HIDE DEF n, e
    <3> QED
      BY <1>2
  <2>3. e + 1 \in Int /\ 0 \in Int /\ n \in Int /\ 0 \in 0 .. FragSz - 1
    <3> HIDE DEF n, E, r
    <3> QED
      BY <1>2
  <2>4. Divided(n, FragSz, e + 1, 0)
    <3>1. n = (e + 1) * FragSz + 0
      <4> DEFINE X == (e + 1) * FragSz
      <4>1. X = E + FragSz
        BY <2>2
      <4> HIDE DEF n, E, r, X
      <4>2. X + 0 = n
        BY <4>1, <1>2, <1>3, <2>1
      <4> QED
        BY <4>2 DEF X
    <3> HIDE DEF n, e, r
    <3>2. (e + 1) * FragSz = FragSz * (e + 1)
      BY <2>3, <1>2
    <3>3. QED
      BY <3>1, <3>2, <2>3 DEF Divided
  <2> HIDE DEF n, e, r
  <2>5. QED
    BY <2>3, <2>4, <1>2, OneQuotient
<1>6. Bytes(p, f.of, f.fragno) = IF f.fragno = e THEN r ELSE FragSz
  BY DEF Bytes
<1>7. A!LenOf(f, n) = Bytes(p, f.of, f.fragno)
  <2>1. A!LenOf(f, n) = IF ~f.last THEN FragSz ELSE IF n % FragSz = 0 THEN FragSz ELSE n % FragSz
    BY DEF A!LenOf
  <2>2. r # 0
    BY <1>2, <1>3
  <2> HIDE DEF n, e, r
  <2>3. QED
    BY <2>1, <2>2, <1>1, <1>4, <1>5, <1>6
<1>8. A!Places(f, n) = Span(p, f.of, f.fragno)
  BY <1>7 DEF A!Places, Span
<1>9. QED
  BY <1>7, <1>8
-----------------------------------------------------------------------------
(***************************************************************************)
(* The invariant of packet assembly.                                       *)
(***************************************************************************)
InHands == {"set", "get", "copy", "subtract", "test", "assembled", "remove"}
Pointing == {"set", "copy", "subtract", "test", "assembled", "remove"}
Finishing == {"test", "assembled"}
PacketHands(p) == [pc : InHands, f : FragmentsOf(p), obj : Nat, rest : Int]
ChunkHands(p) == [pc : {"chunk"}, d : ChunksOf(p)]
RawBytes(p) == {None, Garbage} \cup (PacketNames(p) \X Nat)
Objects(p) ==
  [size : Nat, left : Int, age : Nat, live : BOOLEAN, raw : UNION {[0 .. n - 1 -> RawBytes(p)] : n \in Nat}]

LeftTyped(p) ==
  aleft \in [chunks : SUBSET p.chunks, packets : {p.packets}, copies : Nat, passes : Nat]
MemTyped(p) ==
  /\ mem \in Seq(Objects(p))
  /\ \A o \in 1 .. Len(mem) :
       mem[o].left <= mem[o].size /\ mem[o].raw \in [0 .. mem[o].size - 1 -> RawBytes(p)]
TableTyped == atable \in [1 .. MaxId -> {None} \cup 1 .. Len(mem)]
HandsTyped(p) == awk \in [Threads -> {A!Idle} \cup ChunkHands(p) \cup PacketHands(p)]
HandsPoint ==
  \A w \in Threads :
    /\ awk[w].pc \in Pointing => awk[w].obj \in 1 .. Len(mem)
    /\ awk[w].pc = "subtract" => awk[w].rest <= mem[awk[w].obj].size
AssemblyTyped(p) ==
  /\ aqueue \in Seq(ChunksOf(p)) /\ Len(aqueue) <= QueueSize
  /\ lastid \in 0 .. MaxId /\ net \subseteq FragmentsOf(p)
  /\ LeftTyped(p) /\ MemTyped(p) /\ TableTyped /\ HandsTyped(p) /\ HandsPoint

(* Where fragment k of a packet is before its bytes have been counted: it  *)
(* has not been cut from its chunk yet, it is on its way, or a consumer    *)
(* has it.                                                                 *)
Waiting == {aqueue[i] : i \in 1 .. Len(aqueue)}
Place(x, p, of, k) ==
  \/ \E c \in aleft.chunks : x = <<"left", c>> /\ c.of = of
  \/ \E d \in Waiting : x = <<"queue", d>> /\ d.of = of /\ d.fragno <= k
  \/ \E w \in Threads :
       awk[w].pc = "chunk" /\ x = <<"chunk", w>> /\ awk[w].d.of = of /\ awk[w].d.fragno <= k
  \/ \E f \in net : x = <<"net", f>> /\ f.of = of /\ f.fragno = k
  \/ \E w \in Threads :
       /\ awk[w].pc \in {"set", "get", "copy", "subtract"} /\ x = <<"hand", w>>
       /\ awk[w].f.of = of /\ awk[w].f.fragno = k
OnePlace(p) ==
  \A of \in PacketNames(p) : \A k \in 0 .. End(p, of) :
    \A x, y : Place(x, p, of, k) /\ Place(y, p, of, k) => x = y
Finished(p, of, k) == \A x : ~Place(x, p, of, k)
QueueOnce == \A i, j \in 1 .. Len(aqueue) : aqueue[i] = aqueue[j] => i = j

(* An id is that of one packet.                                            *)
SeenOnce == \A s, t \in seen : s[2] = t[2] => s[1] = t[1]
HeldSeen == \A w \in Threads : awk[w].pc \in InHands => <<awk[w].f.of, awk[w].f.id>> \in seen

(* The bytes of the fragments C of a packet are in their places, and n are *)
(* left to come; all of these fragments are finished.                      *)
Filled(p, o, of, k) == \A i \in Span(p, of, k) : mem[o].raw[i] \in {<<of, i>>, Garbage}
Counted(p, o, of, C, n) == (\A k \in C : Filled(p, o, of, k)) /\ n = Size(p, of) - Total(p, of, C)
Past(p, of, C) == C \subseteq 0 .. End(p, of) /\ \A k \in C : Finished(p, of, k)

(* What is in memory is of one packet: only its fragments are put there.   *)
Referred(o, s) == \A id \in 1 .. MaxId : atable[id] = o => id = s[2]
UsedFor(o, s) ==
  \A w \in Threads : awk[w].pc \in Pointing /\ awk[w].obj = o => awk[w].f.of = s[1] /\ awk[w].f.id = s[2]
Counts(p, o, of) == \E C : Past(p, of, C) /\ Counted(p, o, of, C, mem[o].left)
(* It is freed by the collection, or when nobody needs it any more unless  *)
(* two consumers were about to finish it.                                  *)
Excused == collected \/ met
AllPast(p, of) == \A k \in 0 .. End(p, of) : Finished(p, of, k)
NotFinishing(o) == \A w \in Threads : awk[w].pc \in Finishing => awk[w].obj # o
Freed(p, o, of) == ~mem[o].live => Excused \/ (AllPast(p, of) /\ NotFinishing(o))
Owned(p, o, s) ==
  /\ s[1] \in PacketNames(p) /\ mem[o].size = Size(p, s[1])
  /\ Referred(o, s) /\ UsedFor(o, s) /\ Counts(p, o, s[1]) /\ Freed(p, o, s[1])
ObjectsOwned(p) == \A o \in 1 .. Len(mem) : \E s \in seen : Owned(p, o, s)

(* Who is about to write what is left has counted fragments that are there *)
(* and its own; who hands a packet on has all of it, and is the only one   *)
(* with it, and so is who is about to see whether it is complete, unless   *)
(* two of these have met.                                                  *)
Knows(p, w) ==
  LET f == awk[w].f
  IN  \E C : Past(p, f.of, C) /\ Counted(p, awk[w].obj, f.of, C \cup {f.fragno}, awk[w].rest)
SubtractKnows(p) == \A w \in Threads : awk[w].pc = "subtract" => Knows(p, w)
Full(p, o, of) == \A k \in 0 .. End(p, of) : Finished(p, of, k) /\ Filled(p, o, of, k)
AssembledFull(p) ==
  \A w \in Threads : awk[w].pc = "assembled" => Full(p, awk[w].obj, awk[w].f.of)
FinishingOnce ==
  \A v, w \in Threads :
    awk[v].pc \in Finishing /\ awk[w].pc \in Finishing /\ awk[v].obj = awk[w].obj => v = w \/ met

Unmixed(p) ==
  /\ OnePlace(p) /\ QueueOnce /\ SeenOnce /\ HeldSeen
  /\ ObjectsOwned(p) /\ SubtractKnows(p) /\ AssembledFull(p) /\ FinishingOnce /\ A!BytesInPlace
AssemblyInv(p) == AssemblyTyped(p) /\ A!FaultExplained /\ (mixed \/ Unmixed(p))
-----------------------------------------------------------------------------
(* A chunk or a fragment moves: what a place had, several new ones have    *)
(* between them, and no other.  Then what is finished stays so.            *)
Moved(p, a) ==
  \A of \in PacketNames(p) : \A k \in 0 .. End(p, of) :
    /\ \A x : Place(x, p, of, k)' /\ ~Place(x, p, of, k) => Place(a, p, of, k) /\ ~Place(a, p, of, k)'
    /\ \A x, y :
         Place(x, p, of, k)' /\ ~Place(x, p, of, k) /\ Place(y, p, of, k)' /\ ~Place(y, p, of, k)
           => x = y
HistoryKept == (met => met') /\ (collected => collected')
FinishedStay(p) ==
  \A of \in PacketNames(p) : \A k \in 0 .. End(p, of) : Finished(p, of, k) => Finished(p, of, k)'

LEMMA PlacesMove ==
  ASSUME NEW p, NEW a, OnePlace(p), Moved(p, a)
  PROVE  OnePlace(p)' /\ FinishedStay(p)
<1>1. ASSUME NEW of \in PacketNames(p), NEW k \in 0 .. End(p, of), NEW x, NEW y,
             Place(x, p, of, k)', Place(y, p, of, k)'
      PROVE  x = y
  <2>1. Place(x, p, of, k) /\ Place(y, p, of, k) => x = y
    BY DEF OnePlace
  <2>2. Place(x, p, of, k) /\ ~Place(y, p, of, k) => a = x
    BY <1>1 DEF OnePlace, Moved
  <2>3. ~Place(x, p, of, k) /\ Place(y, p, of, k) => a = y
    BY <1>1 DEF OnePlace, Moved
  <2>4. ~Place(x, p, of, k) \/ ~Place(y, p, of, k) => ~Place(a, p, of, k)'
    BY <1>1 DEF Moved
  <2>5. ~Place(x, p, of, k) /\ ~Place(y, p, of, k) => x = y
    BY <1>1 DEF Moved
  <2>6. QED
    BY <1>1, <2>1, <2>2, <2>3, <2>4, <2>5
<1>2. OnePlace(p)'
  BY <1>1 DEF OnePlace, PacketNames, Whole, End, Size
<1>3. FinishedStay(p)
  BY DEF FinishedStay, Finished, Moved
<1>4. QED
  BY <1>2, <1>3

(* What consumers have in their hands, and what one of them takes next.    *)
LEMMA HandFacts ==
  ASSUME NEW p, HandsTyped(p), NEW w \in Threads
  PROVE  /\ awk[w].pc \in {"idle", "chunk"} \cup InHands
         /\ awk[w].pc = "chunk" => awk[w] \in ChunkHands(p) /\ awk[w].d \in ChunksOf(p)
         /\ awk[w].pc \in InHands => awk[w] \in PacketHands(p) /\ awk[w].f \in FragmentsOf(p)
<1>1. awk[w] \in {A!Idle} \cup ChunkHands(p) \cup PacketHands(p)
  BY DEF HandsTyped
<1>2. awk[w] = A!Idle => awk[w].pc = "idle"
  BY DEF A!Idle
<1>3. awk[w] \in ChunkHands(p) => awk[w].pc = "chunk" /\ awk[w].d \in ChunksOf(p)
  BY DEF ChunkHands
<1>4. awk[w] \in PacketHands(p) => awk[w].pc \in InHands /\ awk[w].f \in FragmentsOf(p)
  BY DEF PacketHands
<1>5. QED
  BY <1>1, <1>2, <1>3, <1>4 DEF InHands

LEMMA HandGoes ==
  ASSUME NEW p, HandsTyped(p), NEW w \in Threads, NEW to \in {A!Idle} \cup ChunkHands(p) \cup PacketHands(p),
         A!Goes(w, to)
  PROVE  /\ HandsTyped(p)' /\ awk'[w] = to
         /\ \A v \in Threads : v # w => awk'[v] = awk[v]
BY DEF A!Goes, HandsTyped, ChunkHands, PacketHands, A!Idle

(* The chunks that wait are those of the queue.                            *)
LEMMA WaitingMore ==
  ASSUME NEW S, aqueue \in Seq(S), NEW d \in S, aqueue' = Append(aqueue, d), QueueOnce, d \notin Waiting
  PROVE  Waiting' = Waiting \cup {d} /\ QueueOnce'
<1>1. PICK l \in Nat : l = Len(aqueue)
  OBVIOUS
<1>2. /\ Len(aqueue') = l + 1 /\ aqueue'[l + 1] = d
      /\ \A i \in 1 .. l : aqueue'[i] = aqueue[i]
  BY <1>1
<1>3. Waiting' = Waiting \cup {d}
  BY <1>1, <1>2 DEF Waiting
<1>4. \A i \in 1 .. l : aqueue[i] # d
  BY <1>1 DEF Waiting
<1>5. QueueOnce'
  BY <1>1, <1>2, <1>4 DEF QueueOnce
<1>6. QED
  BY <1>3, <1>5

LEMMA WaitingLess ==
  ASSUME NEW S, aqueue \in Seq(S), aqueue # <<>>, aqueue' = Tail(aqueue), QueueOnce
  PROVE  /\ Waiting' = Waiting \ {Head(aqueue)} /\ QueueOnce'
         /\ Head(aqueue) \in Waiting
<1>1. PICK l \in Nat : l = Len(aqueue)
  OBVIOUS
<1>2. /\ l > 0 /\ Len(aqueue') = l - 1 /\ Head(aqueue) = aqueue[1]
      /\ \A i \in 1 .. l - 1 : aqueue'[i] = aqueue[i + 1]
  BY <1>1
<1>3. Head(aqueue) \in Waiting
  BY <1>1, <1>2 DEF Waiting
<1>4. Waiting' \subseteq Waiting \ {Head(aqueue)}
  <2>1. SUFFICES ASSUME NEW i \in 1 .. l - 1
                 PROVE  aqueue'[i] \in Waiting /\ aqueue'[i] # Head(aqueue)
    BY <1>1, <1>2 DEF Waiting
  <2>2. i + 1 \in 1 .. l /\ i + 1 # 1 /\ 1 \in 1 .. l /\ aqueue'[i] = aqueue[i + 1]
    BY <1>2, <2>1
  <2>3. QED
    BY <1>1, <1>2, <2>2 DEF Waiting, QueueOnce
<1>5. Waiting \ {Head(aqueue)} \subseteq Waiting'
  <2>1. SUFFICES ASSUME NEW i \in 1 .. l, aqueue[i] # Head(aqueue)
                 PROVE  aqueue[i] \in Waiting'
    BY <1>1 DEF Waiting
  <2>2. i - 1 \in 1 .. l - 1 /\ aqueue'[i - 1] = aqueue[i]
    BY <1>2, <2>1
  <2>3. QED
    BY <1>2, <2>2 DEF Waiting
<1>6. QueueOnce'
  <2>1. SUFFICES ASSUME NEW i \in 1 .. l - 1, NEW j \in 1 .. l - 1, aqueue'[i] = aqueue'[j]
                 PROVE  i = j
    BY <1>2 DEF QueueOnce
  <2>2. i + 1 = j + 1
    BY <1>1, <1>2, <2>1 DEF QueueOnce
  <2>3. QED
    BY <2>2
<1>7. QED
  BY <1>3, <1>4, <1>5, <1>6

(* A consumer whose hand does not take a chunk or another fragment: no     *)
(* fragment has a place that it had not.                                   *)
LEMMA HandKeeps ==
  ASSUME NEW p, NEW w \in Threads, UNCHANGED <<aqueue, net, aleft>>,
         \A v \in Threads : v # w => awk'[v] = awk[v],
         awk'[w].pc # "chunk",
         awk'[w].pc \in {"set", "get", "copy", "subtract"} =>
           awk[w].pc \in {"set", "get", "copy", "subtract"} /\ awk'[w].f = awk[w].f,
         OnePlace(p)
  PROVE  /\ \A of, k, x : Place(x, p, of, k)' => Place(x, p, of, k)
         /\ OnePlace(p)' /\ FinishedStay(p)
<1>1. Waiting' = Waiting
  BY DEF Waiting
<1>2. \A of, k, x : Place(x, p, of, k)' => Place(x, p, of, k)
  BY <1>1 DEF Place
<1>3. Moved(p, w)
  <2>1. \A of \in PacketNames(p) : \A k \in 0 .. End(p, of) : \A x :
          ~(Place(x, p, of, k)' /\ ~Place(x, p, of, k))
    BY <1>2
  <2>2. QED
    BY <2>1, Zenon DEF Moved
<1>4. QED
  BY <1>2, <1>3, PlacesMove

(* As long as nothing changes in memory, it stays sound if entries are     *)
(* made for what they refer to, and consumers find what is theirs.         *)
EntriesRight(p) ==
  \A o \in 1 .. Len(mem) : \A s \in seen : \A id \in 1 .. MaxId :
    Owned(p, o, s) /\ atable'[id] = o => atable[id] = o \/ id = s[2]
FoundRight(p) ==
  \A w \in Threads :
    /\ awk'[w].pc \in InHands => awk[w].pc \in InHands /\ awk'[w].f = awk[w].f
    /\ awk'[w].pc \in Pointing =>
         \/ awk[w].pc \in Pointing /\ awk'[w].obj = awk[w].obj
         \/ \A s \in seen : Owned(p, awk'[w].obj, s) => <<awk'[w].f.of, awk'[w].f.id>> = <<s[1], s[2]>>
    /\ awk'[w].pc \in {"subtract", "test", "assembled"} => awk'[w] = awk[w]

(* The collection frees what is too old.                                   *)
OnlyAges(p) ==
  /\ Len(mem') = Len(mem)
  /\ \A o \in 1 .. Len(mem) :
       /\ mem'[o].size = mem[o].size /\ mem'[o].left = mem[o].left /\ mem'[o].raw = mem[o].raw
       /\ mem'[o].live = mem[o].live \/ Excused'

LEMMA AgedStays ==
  ASSUME NEW p \in Plans, Unmixed(p), OnePlace(p)', QueueOnce', FinishedStay(p),
         UNCHANGED <<seen, out, mixed>>, OnlyAges(p), HistoryKept,
         HandsTyped(p), HandsPoint, EntriesRight(p), FoundRight(p)
  PROVE  Unmixed(p)'
<1>1. SeenOnce'
  BY DEF Unmixed, SeenOnce
<1>2. HeldSeen'
  BY DEF Unmixed, HeldSeen, FoundRight
<1>3. A!BytesInPlace'
  BY DEF Unmixed, A!BytesInPlace
<1>4. \A of, C : of \in PacketNames(p) /\ Past(p, of, C) => Past(p, of, C)'
  BY DEF Past, FinishedStay
<1>5. \A o \in 1 .. Len(mem) : \A of, k : Filled(p, o, of, k)' <=> Filled(p, o, of, k)
  BY DEF Filled, OnlyAges
<1>6. \A o \in 1 .. Len(mem) : \A of, C, n : Counted(p, o, of, C, n)' <=> Counted(p, o, of, C, n)
  BY <1>5 DEF Counted
<1>7. ObjectsOwned(p)'
  <2>1. SUFFICES ASSUME NEW o \in 1 .. Len(mem)
                 PROVE  \E s \in seen : Owned(p, o, s)'
    BY DEF ObjectsOwned, OnlyAges
  <2>2. PICK s \in seen : Owned(p, o, s)
    BY DEF Unmixed, ObjectsOwned
  <2>3. s[1] \in PacketNames(p) /\ mem'[o].size = Size(p, s[1])
    BY <2>2 DEF Owned, OnlyAges
  <2>4. Referred(o, s)'
    BY <2>2 DEF Owned, Referred, EntriesRight
  <2>5. UsedFor(o, s)'
    <3>1. SUFFICES ASSUME NEW w \in Threads, awk'[w].pc \in Pointing, awk'[w].obj = o
                   PROVE  awk'[w].f.of = s[1] /\ awk'[w].f.id = s[2]
      BY DEF UsedFor
    <3>2. awk[w].pc \in Pointing /\ awk[w].obj = o => awk[w].f.of = s[1] /\ awk[w].f.id = s[2]
      BY <2>2 DEF Owned, UsedFor
    <3>3. awk'[w].f = awk[w].f
      BY <3>1 DEF FoundRight, Pointing, InHands
    <3>4. QED
      BY <2>2, <3>1, <3>2, <3>3 DEF FoundRight
  <2>6. Counts(p, o, s[1])'
    BY <2>2, <2>3, <1>4, <1>6 DEF Owned, Counts, OnlyAges
  <2>7. Freed(p, o, s[1])'
    <3>1. AllPast(p, s[1]) => AllPast(p, s[1])'
      BY <2>3 DEF AllPast, FinishedStay
    <3>2. NotFinishing(o) => NotFinishing(o)'
      BY DEF NotFinishing, FoundRight, Finishing
    <3>3. QED
      BY <2>2, <3>1, <3>2 DEF Owned, Freed, OnlyAges, HistoryKept, Excused
  <2>8. QED
    BY <2>3, <2>4, <2>5, <2>6, <2>7 DEF Owned
<1>8. SubtractKnows(p)'
  <2>1. SUFFICES ASSUME NEW w \in Threads, awk'[w].pc = "subtract" PROVE Knows(p, w)'
    BY DEF SubtractKnows
  <2>2. awk'[w] = awk[w] /\ Knows(p, w)
    BY <2>1 DEF FoundRight, Unmixed, SubtractKnows
  <2>3. awk[w].f.of \in PacketNames(p) /\ awk[w].obj \in 1 .. Len(mem)
    BY <2>1, <2>2, HandFacts DEF InHands, FragmentsOf, HandsPoint, Pointing
  <2>4. QED
    BY <2>2, <2>3, <1>4, <1>6 DEF Knows
<1>9. AssembledFull(p)'
  <2>1. SUFFICES ASSUME NEW w \in Threads, awk'[w].pc = "assembled",
                        NEW o, o = awk'[w].obj, NEW of, of = awk'[w].f.of
                 PROVE  Full(p, o, of)'
    BY DEF AssembledFull
  <2>2. awk'[w] = awk[w] /\ Full(p, awk[w].obj, awk[w].f.of)
    BY <2>1 DEF FoundRight, Unmixed, AssembledFull
  <2>3. of \in PacketNames(p) /\ o \in 1 .. Len(mem)
    BY <2>1, <2>2, HandFacts DEF InHands, FragmentsOf, HandsPoint, Pointing
  <2>4. QED
    BY <2>1, <2>2, <2>3, <1>5 DEF Full, FinishedStay
<1>10. FinishingOnce'
  BY DEF Unmixed, FinishingOnce, FoundRight, Finishing, HistoryKept
<1>11. QED
  BY <1>1, <1>2, <1>3, <1>7, <1>8, <1>9, <1>10 DEF Unmixed

LEMMA MemoryStays ==
  ASSUME NEW p \in Plans, Unmixed(p), OnePlace(p)', QueueOnce', FinishedStay(p),
         UNCHANGED <<mem, seen, out, mixed>>, HistoryKept,
         HandsTyped(p), HandsPoint, EntriesRight(p), FoundRight(p)
  PROVE  Unmixed(p)'
<1>1. OnlyAges(p)
  BY DEF OnlyAges
<1>2. QED
  BY <1>1, AgedStays
-----------------------------------------------------------------------------
(* What every step of packet assembly starts from.                         *)
Going(p) == AssemblyInv(p) /\ afault = "none"

LEMMA HistoryExcuses ==
  ASSUME HistoryKept, Excused
  PROVE  Excused'
BY DEF HistoryKept, Excused

(* A step that uses nothing freed explains itself, and what came twice     *)
(* stays so: the rest is to be shown as long as nothing did.               *)
LEMMA StepStays ==
  ASSUME NEW p, Going(p), UNCHANGED <<afault, mixed>>,
         AssemblyTyped(p)', ~mixed /\ Unmixed(p) => Unmixed(p)'
  PROVE  AssemblyInv(p)'
<1>1. A!FaultExplained'
  BY DEF Going, A!FaultExplained
<1>2. mixed' \/ Unmixed(p)'
  BY DEF Going, AssemblyInv
<1>3. QED
  BY <1>1, <1>2 DEF AssemblyInv

(* A chunk is in the queue after it was submitted.                         *)
LEMMA SubmitChunkKeeps ==
  ASSUME NEW p \in Plans, Going(p), HistoryKept, NEW c \in aleft.chunks, A!Submit(c)
  PROVE  AssemblyInv(p)'
<1> DEFINE d == [of |-> c.of, id |-> 0, size |-> c.len, left |-> c.len, fragno |-> 0]
<1>1. /\ aqueue' = Append(aqueue, d) /\ Len(aqueue) < QueueSize
      /\ aleft' = [aleft EXCEPT !.chunks = @ \ {c}]
      /\ UNCHANGED <<lastid, net, atable, mem, out, awk, seen, mixed, afault>>
  BY DEF A!Submit, A!packets
<1>2. AssemblyTyped(p)
  BY DEF Going, AssemblyInv
<1>3. c \in Whole(p) /\ c.of \in PacketNames(p)
  BY <1>2 DEF AssemblyTyped, LeftTyped, Whole, PacketNames
<1>4. d \in ChunksOf(p)
  <2>1. Size(p, c.of) = c.len /\ c.len \in Nat /\ End(p, c.of) \in Nat
    BY <1>3, PacketSizes
  <2>2. 0 * FragSz = 0 /\ MaxId \in Nat
    BY AssemblyAssumption DEF A!AssemblyParameters
  <2>3. d.left = Size(p, d.of) - d.fragno * FragSz /\ d.fragno \in 0 .. End(p, d.of)
    BY <2>1, <2>2
  <2>4. d \in [of : PacketNames(p), id : 0 .. MaxId, size : Nat, left : Nat, fragno : Nat]
    BY <2>1, <2>2, <1>3
  <2> HIDE DEF d
  <2>5. QED
    BY <2>3, <2>4 DEF ChunksOf
<1>5. d.of = c.of /\ d.fragno = 0
  OBVIOUS
<1> HIDE DEF d
<1>6. aqueue' \in Seq(ChunksOf(p)) /\ Len(aqueue') <= QueueSize
  BY <1>1, <1>2, <1>4, AssemblyAssumption DEF AssemblyTyped, A!AssemblyParameters
<1>7. LeftTyped(p)' /\ aleft'.chunks = aleft.chunks \ {c}
  BY <1>1, <1>2 DEF AssemblyTyped, LeftTyped
<1>8. AssemblyTyped(p)'
  BY <1>1, <1>2, <1>6, <1>7 DEF AssemblyTyped, MemTyped, TableTyped, HandsTyped, HandsPoint
<1>9. ASSUME Unmixed(p) PROVE Unmixed(p)'
  <2>1. d \notin Waiting
    <3>1. SUFFICES ASSUME d \in Waiting PROVE FALSE
      OBVIOUS
    <3>2. End(p, c.of) \in 0 .. End(p, c.of) /\ 0 <= End(p, c.of)
      BY <1>3, PacketSizes
    <3>3. Place(<<"queue", d>>, p, c.of, End(p, c.of)) /\ Place(<<"left", c>>, p, c.of, End(p, c.of))
      BY <1>5, <3>1, <3>2 DEF Place
    <3>4. QED
      BY <1>3, <3>2, <3>3, <1>9 DEF Unmixed, OnePlace
  <2>2. Waiting' = Waiting \cup {d} /\ QueueOnce'
    BY <1>1, <1>2, <1>4, <1>9, <2>1, WaitingMore DEF AssemblyTyped, Unmixed
  <2>3. \A of \in PacketNames(p) : \A k \in 0 .. End(p, of) : \A x :
          Place(x, p, of, k)' /\ ~Place(x, p, of, k) => x = <<"queue", d>> /\ of = c.of
    BY <1>1, <1>5, <1>7, <2>2 DEF Place
  <2>4. \A k : Place(<<"left", c>>, p, c.of, k) /\ ~Place(<<"left", c>>, p, c.of, k)'
    BY <1>7 DEF Place
  <2>5. Moved(p, <<"left", c>>)
    BY <2>3, <2>4 DEF Moved
  <2>6. OnePlace(p)' /\ FinishedStay(p)
    BY <2>5, <1>9, PlacesMove DEF Unmixed
  <2>7. EntriesRight(p) /\ FoundRight(p)
    BY <1>1 DEF EntriesRight, FoundRight
  <2>8. QED
    BY <1>1, <1>2, <1>7, <1>9, <2>2, <2>6, <2>7, MemoryStays DEF AssemblyTyped
<1>10. QED
  BY <1>1, <1>8, <1>9, StepStays

(* It is in the hands of the consumer that takes it.                       *)
LEMMA TakeChunkKeeps ==
  ASSUME NEW p \in Plans, Going(p), HistoryKept, NEW w \in Threads, A!TakeChunk(w)
  PROVE  AssemblyInv(p)'
<1>0. PICK d : d = Head(aqueue)
  OBVIOUS
<1> DEFINE to == [pc |-> "chunk", d |-> d]
<1>1. /\ awk[w].pc = "idle" /\ aqueue # <<>> /\ A!Goes(w, to) /\ aqueue' = Tail(aqueue)
      /\ UNCHANGED <<lastid, net, atable, mem, out, aleft, seen, mixed, afault>>
  BY <1>0 DEF A!TakeChunk, A!packets
<1>2. AssemblyTyped(p)
  BY DEF Going, AssemblyInv
<1>3. /\ d \in ChunksOf(p) /\ aqueue' \in Seq(ChunksOf(p))
      /\ Len(aqueue') <= QueueSize
  BY <1>0, <1>1, <1>2, AssemblyAssumption DEF AssemblyTyped, A!AssemblyParameters
<1>4. to \in ChunkHands(p)
  BY <1>3 DEF ChunkHands
<1>5. /\ HandsTyped(p)' /\ awk'[w] = to
      /\ \A v \in Threads : v # w => awk'[v] = awk[v]
  BY <1>1, <1>2, <1>4, HandGoes DEF AssemblyTyped
<1>6. awk'[w].pc = "chunk" /\ awk'[w].d = d
  BY <1>5
<1> HIDE DEF to
<1>7. AssemblyTyped(p)'
  <2>1. HandsPoint'
    BY <1>1, <1>2, <1>5, <1>6 DEF AssemblyTyped, HandsPoint, Pointing
  <2>2. QED
    BY <1>1, <1>2, <1>3, <1>5, <2>1 DEF AssemblyTyped, MemTyped, TableTyped, LeftTyped
<1>8. ASSUME Unmixed(p) PROVE Unmixed(p)'
  <2>1. Waiting' = Waiting \ {d} /\ QueueOnce' /\ d \in Waiting
    BY <1>1, <1>2, <1>8, <1>0, WaitingLess DEF AssemblyTyped, Unmixed
  <2>2. \A of \in PacketNames(p) : \A k \in 0 .. End(p, of) : \A x :
          Place(x, p, of, k)' /\ ~Place(x, p, of, k) => x = <<"chunk", w>> /\ of = d.of /\ d.fragno <= k
    BY <1>1, <1>5, <1>6, <2>1 DEF Place
  <2>3. \A k : d.fragno <= k =>
          Place(<<"queue", d>>, p, d.of, k) /\ ~Place(<<"queue", d>>, p, d.of, k)'
    BY <2>1 DEF Place
  <2>4. Moved(p, <<"queue", d>>)
    BY <2>2, <2>3 DEF Moved
  <2>5. OnePlace(p)' /\ FinishedStay(p)
    BY <2>4, <1>8, PlacesMove DEF Unmixed
  <2>6. EntriesRight(p) /\ FoundRight(p)
    BY <1>1, <1>5, <1>6 DEF EntriesRight, FoundRight, InHands, Pointing
  <2>7. QED
    BY <1>1, <1>2, <1>8, <2>1, <2>5, <2>6, MemoryStays DEF AssemblyTyped
<1>9. QED
  BY <1>1, <1>7, <1>8, StepStays

(* A consumer cuts at most one fragment from its chunk, and what is left   *)
(* of the chunk may wait in the queue.                                     *)
Cut(p, d, e, N) ==
  /\ e \in ChunksOf(p) /\ e.of = d.of
  /\ N \subseteq FragmentsOf(p) /\ \A f, g \in N : f = g
  /\ \A f \in N : f.of = d.of /\ f.fragno = d.fragno
  /\ net' = net \cup N
  /\ \/ aqueue' = aqueue
     \/ /\ aqueue' = Append(aqueue, e) /\ Len(aqueue) < QueueSize
        /\ d.fragno <= e.fragno /\ (N # {} => d.fragno < e.fragno)

LEMMA ChunkCut ==
  ASSUME NEW p \in Plans, AssemblyTyped(p), NEW w \in Threads, A!Disassemble(w)
  PROVE  lastid' \in 0 .. MaxId /\ \E e, N : Cut(p, awk[w].d, e, N)
<1>1. PICK c : c = awk[w].d
  OBVIOUS
<1>2. c \in ChunksOf(p) /\ lastid \in 0 .. MaxId /\ MaxId \in Nat \ {0} /\ FragSz \in Nat \ {0}
  BY <1>1, HandFacts, AssemblyAssumption DEF AssemblyTyped, A!Disassemble, A!AssemblyParameters
<1>3. PICK d : d = IF c.id = 0 THEN [c EXCEPT !.id = A!NextId] ELSE c
  OBVIOUS
<1>4. A!NextId \in 1 .. MaxId
  BY <1>2 DEF A!NextId
<1>5. lastid' \in 0 .. MaxId
  <2>1. lastid' = IF c.id = 0 THEN A!NextId ELSE lastid
    BY <1>1 DEF A!Disassemble
  <2>2. QED
    BY <2>1, <1>2, <1>4
<1>6. /\ d \in [of : PacketNames(p), id : 1 .. MaxId, size : Nat, left : Nat, fragno : Nat]
      /\ d.of = c.of /\ d.fragno = c.fragno /\ d.left = c.left
  <2>1. c \in [of : PacketNames(p), id : 0 .. MaxId, size : Nat, left : Nat, fragno : Nat]
    BY <1>2 DEF ChunksOf
  <2>2. QED
    BY <2>1, <1>2, <1>3, <1>4
<1>7. d.fragno \in 0 .. End(p, d.of) /\ d.left = Size(p, d.of) - d.fragno * FragSz
  BY <1>2, <1>6 DEF ChunksOf
<1>8. d \in ChunksOf(p)
  BY <1>6, <1>7, <1>2 DEF ChunksOf
<1>9. /\ d.of \in PacketNames(p) /\ d.id \in 1 .. MaxId /\ d.left \in Nat /\ d.fragno \in Nat
      /\ Size(p, d.of) \in Nat
      /\ d.fragno * FragSz \in Nat
      /\ d.left > FragSz =>
           d.fragno + 1 \in 0 .. End(p, d.of) /\ (d.fragno + 1) * FragSz = d.fragno * FragSz + FragSz
      /\ d.left > FragSz => d.fragno # End(p, d.of)
      /\ d.left <= FragSz /\ d.left > 0 => d.fragno = End(p, d.of)
      /\ d.left > 0 => Size(p, d.of) # 0
      /\ d.fragno = 0 => d.left = Size(p, d.of)
  <2>1. d.of \in PacketNames(p) /\ d.id \in 1 .. MaxId /\ d.left \in Nat /\ d.fragno \in Nat
    BY <1>6
  <2>2. Size(p, d.of) \in Nat
    BY <2>1, PacketSizes
  <2>3. PICK k : k = d.fragno
    OBVIOUS
  <2>4. PICK K : K = k * FragSz
    OBVIOUS
  <2>5. /\ K \in Nat
        /\ d.left > FragSz => k # End(p, d.of)
        /\ k # End(p, d.of) /\ Size(p, d.of) # 0 => d.left > FragSz
        /\ k # End(p, d.of) => k + 1 \in 0 .. End(p, d.of) /\ (k + 1) * FragSz = K + FragSz
        /\ d.left = Size(p, d.of) - K
    BY <2>1, <2>3, <2>4, <1>7, FragmentShape
  <2>6. k = 0 => K = 0
    BY <2>4, <1>2
  <2>7. d.left > 0 => Size(p, d.of) # 0
    BY <2>1, <2>2, <2>5
  <2>8. d.left <= FragSz => ~(d.left > FragSz)
    BY <2>1, <1>2
  <2>9. d.fragno = 0 => d.left = Size(p, d.of)
    BY <2>3, <2>5, <2>6, <2>2
  <2>10. QED
    BY <2>1, <2>2, <2>3, <2>4, <2>5, <2>7, <2>8, <2>9
<1> DEFINE n == d.left - d.fragno * FragSz
           f == A!Fragment(d.of, d.id, d.left, d.fragno, FALSE, FragSz)
           l == A!Fragment(d.of, d.id, d.left, d.fragno, TRUE, n)
           e == [d EXCEPT !.fragno = @ + 1, !.left = @ - FragSz]
<1>10. /\ d.left > FragSz => net' = net \cup {f} /\ A!Requeue(e)
       /\ ~(d.left > FragSz) /\ d.left > 0 /\ n < 0 => net' = net /\ A!Requeue(d)
       /\ ~(d.left > FragSz) /\ ~(d.left > 0 /\ n < 0) =>
            net' = (IF d.left > 0 THEN net \cup {l} ELSE net) /\ aqueue' = aqueue
  BY <1>1, <1>3, Zenon DEF A!Disassemble
<1>11. \A x : A!Requeue(x) => aqueue' = aqueue \/ (aqueue' = Append(aqueue, x) /\ Len(aqueue) < QueueSize)
  BY DEF A!Requeue
<1>12. CASE d.left > FragSz
  <2>1. f \in FragmentsOf(p) /\ f.of = d.of /\ f.fragno = d.fragno
    <3>1. /\ f.of = d.of /\ f.id = d.id /\ f.size = d.left /\ f.fragno = d.fragno /\ f.last = FALSE
          /\ f.n = FragSz
          /\ f \in [of : PacketNames(p), id : 1 .. MaxId, size : Nat, fragno : Nat, last : BOOLEAN, n : Int]
      BY <1>9, <1>2 DEF A!Fragment
    <3>2. 0 < d.left
      BY <1>2, <1>9, <1>12
    <3> HIDE DEF f
    <3>3. QED
      BY <3>1, <3>2, <1>7, <1>9, <1>12 DEF FragmentsOf
  <2>2. e \in ChunksOf(p) /\ e.of = d.of /\ e.fragno = d.fragno + 1
    <3>1. /\ e.of = d.of /\ e.fragno = d.fragno + 1 /\ e.left = d.left - FragSz
          /\ e.left \in Nat
      BY <1>2, <1>6, <1>9, <1>12
    <3>2. e \in [of : PacketNames(p), id : 0 .. MaxId, size : Nat, left : Nat, fragno : Nat]
      <4>1. d.fragno + 1 \in Nat /\ d.left - FragSz \in Nat
        BY <1>2, <1>9, <1>12
      <4>2. d \in [of : PacketNames(p), id : 0 .. MaxId, size : Nat, left : Nat, fragno : Nat]
        BY <1>8 DEF ChunksOf
      <4>3. QED
        BY <4>1, <4>2
    <3>3. e.left = Size(p, d.of) - (d.fragno + 1) * FragSz
      <4>1. PICK K : K = d.fragno * FragSz
        OBVIOUS
      <4>2. PICK M : M = (d.fragno + 1) * FragSz
        OBVIOUS
      <4>3. K \in Nat /\ M = K + FragSz /\ d.left = Size(p, d.of) - K
        BY <4>1, <4>2, <1>7, <1>9, <1>12
      <4>4. e.left = Size(p, d.of) - M
        BY <4>3, <3>1, <1>2, <1>9
      <4>5. QED
        BY <4>2, <4>4
    <3> HIDE DEF e
    <3>4. QED
      BY <3>1, <3>2, <3>3, <1>9, <1>12 DEF ChunksOf
  <2>3. net' = net \cup {f}
    BY <1>10, <1>12
  <2>4. aqueue' = aqueue \/ (aqueue' = Append(aqueue, e) /\ Len(aqueue) < QueueSize)
    BY <1>10, <1>11, <1>12
  <2> HIDE DEF e, f
  <2>5. Cut(p, c, e, {f})
    BY <2>1, <2>2, <2>3, <2>4, <1>6, <1>9 DEF Cut
  <2>6. QED
    BY <2>5, <1>1, <1>5
<1>13. CASE ~(d.left > FragSz) /\ d.left > 0 /\ n < 0
  <2>1. net' = net /\ (aqueue' = aqueue \/ (aqueue' = Append(aqueue, d) /\ Len(aqueue) < QueueSize))
    BY <1>10, <1>11, <1>13
  <2>2. Cut(p, c, d, {})
    BY <2>1, <1>6, <1>8, <1>9 DEF Cut
  <2>3. QED
    BY <2>2, <1>1, <1>5
<1>14. CASE ~(d.left > FragSz) /\ ~(d.left > 0 /\ n < 0)
  <2>1. net' = (IF d.left > 0 THEN net \cup {l} ELSE net) /\ aqueue' = aqueue
    BY <1>10, <1>14
  <2>2. CASE d.left > 0
    <3>1. n \in Int
      BY <1>9
    <3>2. l \in FragmentsOf(p) /\ l.of = d.of /\ l.fragno = d.fragno
      <4>1. /\ l.of = d.of /\ l.id = d.id /\ l.size = d.left /\ l.fragno = d.fragno /\ l.last = TRUE
            /\ l \in [of : PacketNames(p), id : 1 .. MaxId, size : Nat, fragno : Nat, last : BOOLEAN, n : Int]
        <5> HIDE DEF n
        <5> QED
          BY <3>1, <1>9 DEF A!Fragment
      <4>2. d.left <= FragSz
        BY <1>2, <1>9, <1>14
      <4> HIDE DEF l
      <4>3. QED
        BY <4>1, <4>2, <2>2, <1>7, <1>9 DEF FragmentsOf
    <3> HIDE DEF l
    <3>3. Cut(p, c, d, {l})
      BY <2>1, <2>2, <3>2, <1>6, <1>8 DEF Cut
    <3>4. QED
      BY <3>3, <1>1, <1>5
  <2>3. CASE ~(d.left > 0)
    <3>1. Cut(p, c, d, {})
      BY <2>1, <2>3, <1>6, <1>8 DEF Cut
    <3>2. QED
      BY <3>1, <1>1, <1>5
  <2>4. QED
    BY <2>2, <2>3
<1>15. QED
  BY <1>12, <1>13, <1>14

LEMMA DisassembleKeeps ==
  ASSUME NEW p \in Plans, Going(p), HistoryKept, NEW w \in Threads, A!Disassemble(w)
  PROVE  AssemblyInv(p)'
<1>1. /\ awk[w].pc = "chunk" /\ A!Goes(w, A!Idle)
      /\ UNCHANGED <<atable, mem, out, aleft, seen, mixed, afault>>
  BY DEF A!Disassemble, A!packets
<1>2. AssemblyTyped(p)
  BY DEF Going, AssemblyInv
<1>3. PICK d : d = awk[w].d
  OBVIOUS
<1>4. d \in ChunksOf(p) /\ d.of \in PacketNames(p) /\ d.fragno \in 0 .. End(p, d.of)
  BY <1>1, <1>2, <1>3, HandFacts DEF AssemblyTyped, ChunksOf
<1>5. PICK e, N : Cut(p, d, e, N)
  BY <1>2, <1>3, ChunkCut
<1>6. /\ HandsTyped(p)' /\ awk'[w] = A!Idle /\ awk'[w].pc = "idle"
      /\ \A v \in Threads : v # w => awk'[v] = awk[v]
  BY <1>1, <1>2, HandGoes DEF AssemblyTyped, A!Idle
<1>7. AssemblyTyped(p)'
  <2>1. lastid' \in 0 .. MaxId
    BY <1>2, ChunkCut
  <2>2. net' \subseteq FragmentsOf(p)
    BY <1>2, <1>5 DEF Cut, AssemblyTyped
  <2>3. aqueue' \in Seq(ChunksOf(p)) /\ Len(aqueue') <= QueueSize
    BY <1>2, <1>5, AssemblyAssumption DEF Cut, AssemblyTyped, A!AssemblyParameters
  <2>4. HandsPoint'
    BY <1>1, <1>2, <1>6 DEF AssemblyTyped, HandsPoint, Pointing
  <2>5. QED
    BY <1>1, <1>2, <1>6, <2>1, <2>2, <2>3, <2>4 DEF AssemblyTyped, MemTyped, TableTyped, LeftTyped
<1>8. ASSUME Unmixed(p) PROVE Unmixed(p)'
  <2>1. \A k : d.fragno <= k => Place(<<"chunk", w>>, p, d.of, k) /\ ~Place(<<"chunk", w>>, p, d.of, k)'
    BY <1>1, <1>3, <1>6 DEF Place
  <2>2. e \notin Waiting
    <3>1. SUFFICES ASSUME e \in Waiting PROVE FALSE
      OBVIOUS
    <3>2. e.of = d.of /\ e.fragno \in 0 .. End(p, d.of)
      BY <1>5 DEF Cut, ChunksOf
    <3>3. /\ End(p, d.of) \in 0 .. End(p, d.of)
          /\ d.fragno <= End(p, d.of) /\ e.fragno <= End(p, d.of)
      BY <1>4, <3>2, PacketSizes
    <3>4. Place(<<"queue", e>>, p, d.of, End(p, d.of)) /\ Place(<<"chunk", w>>, p, d.of, End(p, d.of))
      BY <2>1, <3>1, <3>2, <3>3 DEF Place
    <3>5. QED
      BY <1>4, <1>8, <3>3, <3>4 DEF Unmixed, OnePlace
  <2>3. QueueOnce' /\ (Waiting' = Waiting \/ (Waiting' = Waiting \cup {e} /\ aqueue' = Append(aqueue, e)))
    <3>1. CASE aqueue' = aqueue
      BY <3>1, <1>8 DEF Unmixed, QueueOnce, Waiting
    <3>2. CASE aqueue' = Append(aqueue, e)
      BY <3>2, <2>2, <1>2, <1>5, <1>8, WaitingMore DEF Unmixed, AssemblyTyped, Cut
    <3>3. QED
      BY <3>1, <3>2, <1>5 DEF Cut
  <2>4. \A of \in PacketNames(p) : \A k \in 0 .. End(p, of) : \A x :
          Place(x, p, of, k)' /\ ~Place(x, p, of, k) =>
            /\ of = d.of
            /\ \/ \E f \in N : x = <<"net", f>> /\ k = d.fragno
               \/ x = <<"queue", e>> /\ Waiting' # Waiting /\ e.fragno <= k
    BY <1>1, <1>5, <1>6, <2>3 DEF Place, Cut
  <2>5. Waiting' # Waiting => d.fragno <= e.fragno /\ (N # {} => d.fragno < e.fragno)
    BY <1>5, <2>3 DEF Cut, Waiting
  <2>6. Moved(p, <<"chunk", w>>)
    <3>1. SUFFICES ASSUME NEW k \in 0 .. End(p, d.of)
                   PROVE  /\ \A x : Place(x, p, d.of, k)' /\ ~Place(x, p, d.of, k) => d.fragno <= k
                          /\ \A x, y :
                               Place(x, p, d.of, k)' /\ ~Place(x, p, d.of, k)
                               /\ Place(y, p, d.of, k)' /\ ~Place(y, p, d.of, k) => x = y
      BY <2>1, <2>4 DEF Moved
    <3>2. k \in Int /\ d.fragno \in Int /\ e.fragno \in Int
      BY <1>4, <1>5 DEF Cut, ChunksOf
    <3>3. \A f, g \in N : f = g
      BY <1>5 DEF Cut
    <3>4. QED
      BY <2>4, <2>5, <3>2, <3>3, <1>4
  <2>7. OnePlace(p)' /\ FinishedStay(p)
    BY <2>6, <1>8, PlacesMove DEF Unmixed
  <2>8. EntriesRight(p) /\ FoundRight(p)
    BY <1>1, <1>6 DEF EntriesRight, FoundRight, InHands, Pointing
  <2>9. QED
    BY <1>1, <1>2, <1>8, <2>3, <2>7, <2>8, MemoryStays DEF AssemblyTyped
<1>9. QED
  BY <1>1, <1>7, <1>8, StepStays

LEMMA NothingMoves ==
  ASSUME NEW p, UNCHANGED <<aqueue, net, awk>>, aleft'.chunks = aleft.chunks, OnePlace(p), QueueOnce
  PROVE  OnePlace(p)' /\ QueueOnce' /\ FinishedStay(p)
<1>1. Waiting' = Waiting /\ QueueOnce'
  BY DEF Waiting, QueueOnce
<1>2. \A of, k, x : Place(x, p, of, k)' => Place(x, p, of, k)
  BY <1>1 DEF Place
<1>3. \A of \in PacketNames(p) : \A k \in 0 .. End(p, of) : \A x :
        ~(Place(x, p, of, k)' /\ ~Place(x, p, of, k))
  BY <1>2
<1>4. Moved(p, p)
  BY <1>3, Zenon DEF Moved
<1>5. QED
  BY <1>1, <1>4, PlacesMove

(* The entry of the first fragment.                                        *)
LEMMA SetKeeps ==
  ASSUME NEW p \in Plans, Going(p), HistoryKept, NEW w \in Threads, A!Set(w)
  PROVE  AssemblyInv(p)'
<1> DEFINE to == [awk[w] EXCEPT !.pc = "get"]
<1>1. /\ awk[w].pc = "set" /\ A!Goes(w, to) /\ atable' = [atable EXCEPT ![awk[w].f.id] = awk[w].obj]
      /\ UNCHANGED <<aqueue, lastid, net, mem, out, aleft, seen, mixed, afault>>
  BY DEF A!Set, A!chunks
<1>2. AssemblyTyped(p)
  BY DEF Going, AssemblyInv
<1>3. awk[w] \in PacketHands(p) /\ awk[w].f \in FragmentsOf(p) /\ awk[w].obj \in 1 .. Len(mem)
  BY <1>1, <1>2, HandFacts DEF AssemblyTyped, InHands, HandsPoint, Pointing
<1>4. to \in PacketHands(p) /\ to.pc = "get" /\ to.f = awk[w].f
  BY <1>3 DEF PacketHands, InHands
<1>5. /\ HandsTyped(p)' /\ awk'[w] = to
      /\ \A v \in Threads : v # w => awk'[v] = awk[v]
  BY <1>1, <1>2, <1>4, HandGoes DEF AssemblyTyped
<1> HIDE DEF to
<1>6. awk[w].f.id \in 1 .. MaxId
  BY <1>3 DEF FragmentsOf
<1>7. AssemblyTyped(p)'
  <2>1. TableTyped'
    BY <1>1, <1>2, <1>3, <1>6 DEF AssemblyTyped, TableTyped
  <2>2. HandsPoint'
    BY <1>1, <1>2, <1>4, <1>5 DEF AssemblyTyped, HandsPoint, Pointing
  <2>3. QED
    BY <1>1, <1>2, <1>5, <2>1, <2>2 DEF AssemblyTyped, MemTyped, LeftTyped
<1>8. ASSUME Unmixed(p) PROVE Unmixed(p)'
  <2>1. OnePlace(p)' /\ FinishedStay(p)
    BY <1>1, <1>4, <1>5, <1>8, HandKeeps DEF Unmixed
  <2>2. QueueOnce'
    BY <1>1, <1>8 DEF Unmixed, QueueOnce
  <2>3. EntriesRight(p)
    <3>1. SUFFICES ASSUME NEW o, NEW s, NEW id \in 1 .. MaxId,
                          Owned(p, o, s), atable'[id] = o, atable[id] # o
                   PROVE  id = s[2]
      BY DEF EntriesRight
    <3>2. id = awk[w].f.id /\ o = awk[w].obj
      BY <1>1, <1>2, <3>1 DEF AssemblyTyped, TableTyped
    <3>3. QED
      BY <1>1, <3>1, <3>2 DEF Owned, UsedFor, Pointing
  <2>4. FoundRight(p)
    BY <1>1, <1>4, <1>5 DEF FoundRight, InHands, Pointing
  <2>5. QED
    BY <1>1, <1>2, <1>8, <2>1, <2>2, <2>3, <2>4, MemoryStays DEF AssemblyTyped
<1>9. QED
  BY <1>1, <1>7, <1>8, StepStays

(* What is found under the id of a fragment is of its packet.              *)
LEMMA GetKeeps ==
  ASSUME NEW p \in Plans, Going(p), HistoryKept, NEW w \in Threads, A!Get(w)
  PROVE  AssemblyInv(p)'
<1>0. PICK o : o = atable[awk[w].f.id]
  OBVIOUS
<1> DEFINE go == [awk[w] EXCEPT !.pc = "copy", !.obj = o]
           to == IF o = None THEN A!Idle ELSE go
<1>1. /\ awk[w].pc = "get" /\ A!Goes(w, to)
      /\ UNCHANGED <<aqueue, lastid, net, atable, mem, out, aleft, seen, mixed, afault>>
  BY <1>0 DEF A!Get, A!chunks, A!packets
<1>2. AssemblyTyped(p)
  BY DEF Going, AssemblyInv
<1>3. awk[w] \in PacketHands(p) /\ awk[w].f \in FragmentsOf(p) /\ awk[w].f.id \in 1 .. MaxId
  BY <1>1, <1>2, HandFacts DEF AssemblyTyped, InHands, FragmentsOf
<1>4. o # None => o \in 1 .. Len(mem) /\ o \in Nat
  BY <1>0, <1>2, <1>3 DEF AssemblyTyped, TableTyped
<1>5. o # None => to \in PacketHands(p) /\ to.pc = "copy" /\ to.f = awk[w].f /\ to.obj = o
  BY <1>3, <1>4 DEF PacketHands, InHands
<1>6. o = None => to = A!Idle /\ to.pc = "idle"
  BY DEF A!Idle
<1> HIDE DEF to
<1>7. /\ HandsTyped(p)' /\ awk'[w] = to
      /\ \A v \in Threads : v # w => awk'[v] = awk[v]
  BY <1>1, <1>2, <1>5, <1>6, HandGoes DEF AssemblyTyped
<1>8. AssemblyTyped(p)'
  <2>1. HandsPoint'
    BY <1>1, <1>2, <1>4, <1>5, <1>6, <1>7 DEF AssemblyTyped, HandsPoint, Pointing
  <2>2. QED
    BY <1>1, <1>2, <1>7, <2>1 DEF AssemblyTyped, MemTyped, LeftTyped, TableTyped
<1>9. ASSUME Unmixed(p) PROVE Unmixed(p)'
  <2>1. OnePlace(p)' /\ FinishedStay(p)
    BY <1>1, <1>5, <1>6, <1>7, <1>9, HandKeeps DEF Unmixed
  <2>2. QueueOnce'
    BY <1>1, <1>9 DEF Unmixed, QueueOnce
  <2>3. EntriesRight(p)
    BY <1>1 DEF EntriesRight
  <2>4. FoundRight(p)
    <3>1. ASSUME o # None, NEW s \in seen, Owned(p, o, s)
          PROVE  awk[w].f.of = s[1] /\ awk[w].f.id = s[2]
      <4>1. awk[w].f.id = s[2]
        BY <1>0, <1>3, <3>1 DEF Owned, Referred
      <4>2. <<awk[w].f.of, awk[w].f.id>> \in seen
        BY <1>1, <1>9 DEF Unmixed, HeldSeen, InHands
      <4>3. QED
        BY <4>1, <4>2, <3>1, <1>9 DEF Unmixed, SeenOnce
    <3>2. QED
      BY <1>1, <1>5, <1>6, <1>7, <3>1 DEF FoundRight, InHands, Pointing
  <2>5. QED
    BY <1>1, <1>2, <1>9, <2>1, <2>2, <2>3, <2>4, MemoryStays DEF AssemblyTyped
<1>10. QED
  BY <1>1, <1>8, <1>9, StepStays

LEMMA ForgetKeeps ==
  ASSUME NEW p \in Plans, Going(p), HistoryKept, NEW w \in Threads, A!Forget(w)
  PROVE  AssemblyInv(p)'
<1>1. /\ awk[w].pc = "remove" /\ A!Goes(w, A!Idle) /\ atable' = [atable EXCEPT ![awk[w].f.id] = None]
      /\ UNCHANGED <<aqueue, lastid, net, mem, out, aleft, seen, mixed, afault>>
  BY DEF A!Forget, A!chunks
<1>2. AssemblyTyped(p)
  BY DEF Going, AssemblyInv
<1>3. /\ HandsTyped(p)' /\ awk'[w] = A!Idle /\ awk'[w].pc = "idle"
      /\ \A v \in Threads : v # w => awk'[v] = awk[v]
  BY <1>1, <1>2, HandGoes DEF AssemblyTyped, A!Idle
<1>4. \A id \in 1 .. MaxId : atable'[id] = None \/ atable'[id] = atable[id]
  BY <1>1, <1>2 DEF AssemblyTyped, TableTyped
<1>5. AssemblyTyped(p)'
  <2>1. TableTyped'
    BY <1>1, <1>2 DEF AssemblyTyped, TableTyped
  <2>2. HandsPoint'
    BY <1>1, <1>2, <1>3 DEF AssemblyTyped, HandsPoint, Pointing
  <2>3. QED
    BY <1>1, <1>2, <1>3, <2>1, <2>2 DEF AssemblyTyped, MemTyped, LeftTyped
<1>6. ASSUME Unmixed(p) PROVE Unmixed(p)'
  <2>1. OnePlace(p)' /\ FinishedStay(p)
    BY <1>1, <1>3, <1>6, HandKeeps DEF Unmixed
  <2>2. QueueOnce'
    BY <1>1, <1>6 DEF Unmixed, QueueOnce
  <2>3. EntriesRight(p)
    BY <1>2, <1>4, AssemblyAssumption DEF EntriesRight, A!AssemblyParameters
  <2>4. FoundRight(p)
    BY <1>1, <1>3 DEF FoundRight, InHands, Pointing
  <2>5. QED
    BY <1>1, <1>2, <1>6, <2>1, <2>2, <2>3, <2>4, MemoryStays DEF AssemblyTyped
<1>7. QED
  BY <1>1, <1>5, <1>6, StepStays

LEMMA PassRemovesKeeps ==
  ASSUME NEW p \in Plans, Going(p), HistoryKept, A!PassRemoves
  PROVE  AssemblyInv(p)'
<1>1. /\ atable' = [id \in 1 .. MaxId |-> IF id \in doomed THEN None ELSE atable[id]]
      /\ UNCHANGED <<aqueue, lastid, net, mem, out, aleft, awk, seen, mixed, afault>>
  BY DEF A!PassRemoves, A!chunks
<1>2. AssemblyTyped(p)
  BY DEF Going, AssemblyInv
<1>3. \A id \in 1 .. MaxId : atable'[id] = None \/ atable'[id] = atable[id]
  BY <1>1
<1>4. AssemblyTyped(p)'
  <2>1. TableTyped'
    BY <1>1, <1>2 DEF AssemblyTyped, TableTyped
  <2>2. QED
    BY <1>1, <1>2, <2>1 DEF AssemblyTyped, MemTyped, LeftTyped, HandsTyped, HandsPoint
<1>5. ASSUME Unmixed(p) PROVE Unmixed(p)'
  <2>1. OnePlace(p)' /\ QueueOnce' /\ FinishedStay(p)
    BY <1>1, <1>5, NothingMoves DEF Unmixed
  <2>2. EntriesRight(p)
    BY <1>2, <1>3, AssemblyAssumption DEF EntriesRight, A!AssemblyParameters
  <2>3. FoundRight(p)
    BY <1>1 DEF FoundRight
  <2>4. QED
    BY <1>1, <1>2, <1>5, <2>1, <2>2, <2>3, MemoryStays DEF AssemblyTyped
<1>6. QED
  BY <1>1, <1>4, <1>5, StepStays

(* A step that uses what was freed, or writes beyond the end, changes      *)
(* nothing else.                                                           *)
LEMMA FaultyStep ==
  ASSUME NEW p \in Plans, Going(p), UNCHANGED <<aqueue, lastid, net, atable, mem, out, awk, seen, mixed>>,
         LeftTyped(p)', aleft'.chunks = aleft.chunks, HistoryKept,
         ~mixed /\ Unmixed(p) => (afault' = "freed" => Excused') /\ afault' # "bounds"
  PROVE  AssemblyInv(p)'
<1>1. AssemblyTyped(p) /\ A!FaultExplained /\ (mixed \/ Unmixed(p))
  BY DEF Going, AssemblyInv
<1>2. AssemblyTyped(p)'
  BY <1>1 DEF AssemblyTyped, MemTyped, TableTyped, HandsTyped, HandsPoint
<1>3. A!FaultExplained'
  BY <1>1 DEF Going, A!FaultExplained, Excused
<1>4. ASSUME Unmixed(p) PROVE Unmixed(p)'
  <2>1. OnePlace(p)' /\ QueueOnce' /\ FinishedStay(p)
    BY <1>4, NothingMoves DEF Unmixed
  <2>2. OnlyAges(p) /\ EntriesRight(p) /\ FoundRight(p)
    BY DEF OnlyAges, EntriesRight, FoundRight
  <2>3. QED
    BY <1>1, <1>4, <2>1, <2>2, AgedStays DEF AssemblyTyped
<1>5. QED
  BY <1>1, <1>2, <1>3, <1>4 DEF AssemblyInv

(* The collection ages the packets, and frees those that are too old.      *)
LEMMA PassKeeps ==
  ASSUME NEW p \in Plans, Going(p), HistoryKept, A!Pass
  PROVE  AssemblyInv(p)'
<1> DEFINE held == {id \in 1 .. MaxId : atable[id] # None}
           objs == {atable[id] : id \in held}
           old == {o \in objs : mem[o].age = Expire}
           Ages == mem' = [o \in 1 .. Len(mem) |->
                             IF o \in objs THEN [mem[o] EXCEPT !.age = @ + 1, !.live = o \notin old]
                             ELSE mem[o]]
<1>1. /\ aleft.passes > 0 /\ aleft' = [aleft EXCEPT !.passes = @ - 1]
      /\ UNCHANGED <<aqueue, lastid, net, atable, out, awk, seen, mixed>>
      /\ (Ages /\ afault' = afault) \/ (mem' = mem /\ afault' \in {"freed", "array"})
  BY DEF A!Pass, A!chunks
<1>2. AssemblyTyped(p)
  BY DEF Going, AssemblyInv
<1>3. LeftTyped(p)' /\ Excused' /\ aleft'.chunks = aleft.chunks
  <2>1. aleft \in [chunks : SUBSET p.chunks, packets : {p.packets}, copies : Nat, passes : Nat]
    BY <1>2 DEF AssemblyTyped, LeftTyped
  <2>2. aleft.passes > 0 /\ aleft' = [aleft EXCEPT !.passes = @ - 1]
    BY <1>1
  <2>3. LeftTyped(p)' /\ aleft'.chunks = aleft.chunks
    <3>1. aleft.passes - 1 \in Nat
      BY <2>1, <2>2
    <3>2. QED
      BY <2>1, <2>2, <3>1 DEF LeftTyped
  <2>4. Excused'
    BY Zenon DEF A!Pass, Excused
  <2>5. QED
    BY <2>3, <2>4
<1>4. CASE mem' = mem /\ afault' \in {"freed", "array"}
  BY <1>1, <1>3, <1>4, FaultyStep
<1>5. CASE Ages /\ afault' = afault
  <2> HIDE DEF objs, old
  <2>1. Len(mem') = Len(mem) /\ \A o \in 1 .. Len(mem) : mem[o] \in Objects(p)
    <3>1. mem \in Seq(Objects(p))
      BY <1>2 DEF AssemblyTyped, MemTyped
    <3>2. PICK l \in Nat : l = Len(mem)
      BY <3>1
    <3>3. Len(mem') = l
      <4>1. mem' \in [1 .. l -> {mem'[o] : o \in 1 .. l}]
        BY <1>5, <3>2, Zenon
      <4>2. QED
        BY <4>1
    <3>4. QED
      BY <3>1, <3>2, <3>3
  <2>2. \A o \in 1 .. Len(mem) :
          /\ mem'[o] \in Objects(p)
          /\ mem'[o].size = mem[o].size /\ mem'[o].left = mem[o].left /\ mem'[o].raw = mem[o].raw
    <3>1. SUFFICES ASSUME NEW o \in 1 .. Len(mem), NEW r, r = mem[o], NEW u, u = mem'[o]
                   PROVE  /\ u \in Objects(p)
                          /\ u.size = r.size /\ u.left = r.left /\ u.raw = r.raw
      OBVIOUS
    <3>2. r \in Objects(p)
      BY <2>1, <3>1
    <3>3. u = r \/ \E b \in BOOLEAN : u = [r EXCEPT !.age = @ + 1, !.live = b]
      BY <1>5, <3>1
    <3>4. ASSUME NEW b \in BOOLEAN, u = [r EXCEPT !.age = @ + 1, !.live = b]
          PROVE  u \in Objects(p) /\ u.size = r.size /\ u.left = r.left /\ u.raw = r.raw
      <4>1. PICK a \in Nat : a = r.age + 1
        BY <3>2 DEF Objects
      <4>2. u = [r EXCEPT !.age = a, !.live = b]
        BY <3>4, <4>1
      <4>3. QED
        BY <3>2, <4>2 DEF Objects
    <3>5. QED
      BY <3>2, <3>3, <3>4
  <2>3. AssemblyTyped(p)'
    <3>1. mem' \in Seq(Objects(p))
      <4>1. PICK l \in Nat : l = Len(mem)
        BY <1>2 DEF AssemblyTyped, MemTyped
      <4>2. mem' \in [1 .. l -> Objects(p)]
        BY <1>5, <2>2, <4>1
      <4>3. QED
        BY <4>1, <4>2
    <3>2. MemTyped(p)'
      BY <1>2, <2>1, <2>2, <3>1 DEF AssemblyTyped, MemTyped
    <3>3. TableTyped' /\ HandsPoint'
      BY <1>1, <1>2, <2>1, <2>2 DEF AssemblyTyped, TableTyped, HandsPoint, Pointing
    <3>4. QED
      BY <1>1, <1>2, <1>3, <3>2, <3>3 DEF AssemblyTyped, HandsTyped
  <2>4. ASSUME Unmixed(p) PROVE Unmixed(p)'
    <3>1. OnePlace(p)' /\ QueueOnce' /\ FinishedStay(p)
      BY <1>1, <1>3, <2>4, NothingMoves DEF Unmixed
    <3>2. OnlyAges(p)
      BY <1>3, <2>1, <2>2 DEF OnlyAges
    <3>3. EntriesRight(p) /\ FoundRight(p)
      BY <1>1 DEF EntriesRight, FoundRight
    <3>4. QED
      BY <1>1, <1>2, <1>3, <2>4, <3>1, <3>2, <3>3, AgedStays DEF AssemblyTyped
  <2>5. QED
    BY <1>1, <1>5, <2>3, <2>4, StepStays
<1>6. QED
  BY <1>1, <1>4, <1>5

(* A consumer changes the packet o that it works on.                       *)
OnlyObject(o) ==
  /\ Len(mem') = Len(mem) /\ mem'[o].size = mem[o].size
  /\ \A q \in 1 .. Len(mem) : q # o => mem'[q] = mem[q]
ObjectRight(p, o) ==
  \A s \in seen : Owned(p, o, s) =>
    /\ \A k \in 0 .. End(p, s[1]) : Filled(p, o, s[1], k) => Filled(p, o, s[1], k)'
    /\ Counts(p, o, s[1])' /\ Freed(p, o, s[1])'
HandRight(p, w, o) ==
  /\ awk'[w].pc \in InHands => awk'[w].f = awk[w].f
  /\ awk'[w].pc \in Pointing => awk'[w].obj = o
  /\ awk'[w].pc = "subtract" => Knows(p, w)'
  /\ awk'[w].pc = "assembled" =>
       \A k \in 0 .. End(p, awk[w].f.of) :
            Finished(p, awk[w].f.of, k)' /\ Filled(p, o, awk[w].f.of, k)'
  /\ awk'[w].pc \in Finishing =>
       \A v \in Threads : v # w /\ awk[v].pc \in Finishing /\ awk[v].obj = o => met'

LEMMA ObjectChanges ==
  ASSUME NEW p \in Plans, Unmixed(p), HandsTyped(p), HandsPoint,
         NEW w \in Threads, NEW o, awk[w].pc \in Pointing, o = awk[w].obj,
         \A v \in Threads : v # w => awk'[v] = awk[v],
         UNCHANGED <<aqueue, atable, seen, aleft, mixed>>, HistoryKept,
         OnePlace(p)', FinishedStay(p), A!BytesInPlace',
         OnlyObject(o), ObjectRight(p, o), HandRight(p, w, o)
  PROVE  Unmixed(p)'
<1>1. QueueOnce' /\ SeenOnce'
  BY DEF Unmixed, QueueOnce, SeenOnce
<1>2. HeldSeen'
  BY DEF Unmixed, HeldSeen, HandRight, Pointing, InHands
<1>3. o \in 1 .. Len(mem)
  BY DEF HandsPoint
<1>4. \A of, C : of \in PacketNames(p) /\ Past(p, of, C) => Past(p, of, C)'
  BY DEF Past, FinishedStay
<1>5. \A q \in 1 .. Len(mem) : \A s \in seen : Owned(p, q, s) =>
        \A k \in 0 .. End(p, s[1]) : Filled(p, q, s[1], k) => Filled(p, q, s[1], k)'
  <2>1. SUFFICES ASSUME NEW q \in 1 .. Len(mem), NEW s \in seen, Owned(p, q, s), q # o,
                        NEW k \in 0 .. End(p, s[1]), Filled(p, q, s[1], k)
                 PROVE  Filled(p, q, s[1], k)'
    BY DEF ObjectRight
  <2>2. QED
    BY <2>1 DEF Filled, OnlyObject
<1>6. \A v \in Threads : \A s \in seen : \A q :
        awk[v].pc \in Pointing /\ q = awk[v].obj /\ Owned(p, q, s) => awk[v].f.of = s[1]
  BY DEF Owned, UsedFor
<1>7. \A v \in Threads : awk[v].pc \in Pointing =>
        /\ awk[v].obj \in 1 .. Len(mem) /\ awk[v].f.fragno \in 0 .. End(p, awk[v].f.of)
        /\ awk[v].f.of \in PacketNames(p)
        /\ \E s \in seen : Owned(p, awk[v].obj, s)
  <2>1. SUFFICES ASSUME NEW v \in Threads, awk[v].pc \in Pointing
                 PROVE  /\ awk[v].obj \in 1 .. Len(mem) /\ awk[v].f.fragno \in 0 .. End(p, awk[v].f.of)
                        /\ awk[v].f.of \in PacketNames(p)
                        /\ \E s \in seen : Owned(p, awk[v].obj, s)
    OBVIOUS
  <2>2. awk[v].obj \in 1 .. Len(mem)
    BY <2>1 DEF HandsPoint
  <2>3. awk[v].f \in FragmentsOf(p)
    BY <2>1, HandFacts DEF InHands, Pointing
  <2>4. QED
    BY <2>2, <2>3 DEF FragmentsOf, Unmixed, ObjectsOwned
<1>8. ObjectsOwned(p)'
  <2>1. SUFFICES ASSUME NEW q \in 1 .. Len(mem)
                 PROVE  \E s \in seen : Owned(p, q, s)'
    BY DEF ObjectsOwned, OnlyObject
  <2>2. PICK s \in seen : Owned(p, q, s)
    BY DEF Unmixed, ObjectsOwned
  <2>3. s[1] \in PacketNames(p) /\ mem'[q].size = Size(p, s[1])
    BY <2>2 DEF Owned, OnlyObject
  <2>4. Referred(q, s)'
    BY <2>2 DEF Owned, Referred
  <2>5. UsedFor(q, s)'
    <3>1. SUFFICES ASSUME NEW v \in Threads, awk'[v].pc \in Pointing, awk'[v].obj = q
                   PROVE  awk'[v].f.of = s[1] /\ awk'[v].f.id = s[2]
      BY DEF UsedFor
    <3>2. awk[v].pc \in Pointing /\ awk[v].obj = q /\ awk'[v].f = awk[v].f
      BY <3>1 DEF HandRight, Pointing, InHands
    <3>3. QED
      BY <2>2, <3>2 DEF Owned, UsedFor
  <2>6. CASE q = o
    BY <2>2, <2>3, <2>4, <2>5, <2>6 DEF ObjectRight, Owned
  <2>7. CASE q # o
    <3>1. mem'[q] = mem[q]
      BY <2>7 DEF OnlyObject
    <3>2. \A C : Counted(p, q, s[1], C, mem[q].left) => Counted(p, q, s[1], C, mem[q].left)'
      BY <3>1 DEF Counted, Filled
    <3>3. Counts(p, q, s[1])'
      BY <2>2, <2>3, <3>1, <3>2, <1>4 DEF Owned, Counts, Counted
    <3>4. AllPast(p, s[1]) => AllPast(p, s[1])'
      BY <2>3 DEF AllPast, FinishedStay
    <3>5. NotFinishing(q) => NotFinishing(q)'
      BY <2>7 DEF NotFinishing, HandRight, Pointing, Finishing
    <3>6. Freed(p, q, s[1])'
      BY <2>2, <3>1, <3>4, <3>5 DEF Owned, Freed, HistoryKept, Excused
    <3>7. QED
      BY <2>3, <2>4, <2>5, <3>3, <3>6 DEF Owned
  <2>8. QED
    BY <2>6, <2>7
<1>9. SubtractKnows(p)'
  <2>1. SUFFICES ASSUME NEW v \in Threads, awk'[v].pc = "subtract", v # w PROVE Knows(p, v)'
    BY DEF SubtractKnows, HandRight
  <2>2. awk'[v] = awk[v] /\ awk[v].pc \in Pointing /\ Knows(p, v)
    BY <2>1 DEF Unmixed, SubtractKnows, Pointing
  <2>3. PICK q, f : q = awk[v].obj /\ f = awk[v].f
    OBVIOUS
  <2>4. PICK s \in seen : Owned(p, q, s) /\ f.of = s[1]
    BY <2>2, <2>3, <1>6, <1>7
  <2>5. f.of \in PacketNames(p) /\ f.fragno \in 0 .. End(p, f.of) /\ q \in 1 .. Len(mem)
    BY <2>2, <2>3, <1>7
  <2>6. PICK C : Past(p, f.of, C) /\ Counted(p, q, f.of, C \cup {f.fragno}, awk[v].rest)
    BY <2>2, <2>3 DEF Knows
  <2>7. Counted(p, q, f.of, C \cup {f.fragno}, awk[v].rest)'
    <3>1. C \cup {f.fragno} \subseteq 0 .. End(p, f.of)
      BY <2>5, <2>6 DEF Past
    <3>2. QED
      BY <2>2, <2>4, <2>5, <2>6, <3>1, <1>5 DEF Counted
  <2>8. QED
    BY <2>2, <2>3, <2>5, <2>6, <2>7, <1>4 DEF Knows
<1>10. AssembledFull(p)'
  <2>1. SUFFICES ASSUME NEW v \in Threads, awk'[v].pc = "assembled",
                        NEW q, q = awk'[v].obj, NEW of, of = awk'[v].f.of
                 PROVE  Full(p, q, of)'
    BY DEF AssembledFull
  <2>2. CASE v = w
    BY <2>1, <2>2 DEF HandRight, Full, Pointing, InHands
  <2>3. CASE v # w
    <3>1. awk'[v] = awk[v] /\ awk[v].pc \in Pointing /\ Full(p, q, of)
      BY <2>1, <2>3 DEF Unmixed, AssembledFull, Pointing
    <3>2. PICK s \in seen : Owned(p, q, s) /\ of = s[1]
      BY <2>1, <3>1, <1>6, <1>7
    <3>3. of \in PacketNames(p) /\ q \in 1 .. Len(mem)
      BY <2>1, <3>1, <1>7
    <3>4. QED
      BY <3>1, <3>2, <3>3, <1>5 DEF Full, FinishedStay
  <2>4. QED
    BY <2>2, <2>3
<1>11. FinishingOnce'
  <2>1. SUFFICES ASSUME NEW u \in Threads, NEW v \in Threads, u # v, awk'[u].pc \in Finishing,
                        awk'[v].pc \in Finishing, awk'[u].obj = awk'[v].obj
                 PROVE  met'
    BY DEF FinishingOnce
  <2>2. CASE u # w /\ v # w
    BY <2>1, <2>2 DEF Unmixed, FinishingOnce, HistoryKept
  <2>3. CASE u = w
    BY <2>1, <2>3 DEF HandRight, Pointing, Finishing
  <2>4. CASE v = w
    BY <2>1, <2>4 DEF HandRight, Pointing, Finishing
  <2>5. QED
    BY <2>2, <2>3, <2>4
<1>12. QED
  BY <1>1, <1>2, <1>8, <1>9, <1>10, <1>11 DEF Unmixed

(* What is written to a packet in memory has its size.                     *)
LEMMA ObjectWritten ==
  ASSUME NEW p, MemTyped(p), TableTyped, UNCHANGED atable, NEW o \in 1 .. Len(mem), NEW u \in Objects(p),
         u.size = mem[o].size, u.left <= u.size, u.raw \in [0 .. u.size - 1 -> RawBytes(p)],
         mem' = [mem EXCEPT ![o] = u]
  PROVE  /\ MemTyped(p)' /\ TableTyped' /\ OnlyObject(o)
         /\ Len(mem') = Len(mem) /\ mem'[o] = u
<1>1. mem \in Seq(Objects(p))
  BY DEF MemTyped
<1>2. /\ mem' \in Seq(Objects(p)) /\ Len(mem') = Len(mem) /\ mem'[o] = u
      /\ \A q \in 1 .. Len(mem) : q # o => mem'[q] = mem[q]
  BY <1>1
<1>3. MemTyped(p)'
  <2>1. SUFFICES ASSUME NEW q \in 1 .. Len(mem)
                 PROVE  mem'[q].left <= mem'[q].size /\ mem'[q].raw \in [0 .. mem'[q].size - 1 -> RawBytes(p)]
    BY <1>2 DEF MemTyped
  <2>2. CASE q = o
    BY <1>2, <2>2
  <2>3. CASE q # o
    BY <1>2, <2>3 DEF MemTyped
  <2>4. QED
    BY <2>2, <2>3
<1>4. TableTyped'
  BY <1>2 DEF TableTyped
<1>5. QED
  BY <1>2, <1>3, <1>4 DEF OnlyObject

LEMMA HandsStillPoint ==
  ASSUME HandsPoint, NEW o \in 1 .. Len(mem), OnlyObject(o), NEW w \in Threads,
         \A v \in Threads : v # w => awk'[v] = awk[v],
         awk'[w].pc \in Pointing => awk'[w].obj = o,
         awk'[w].pc = "subtract" => awk'[w].rest <= mem[o].size
  PROVE  HandsPoint'
<1>1. \A q \in 1 .. Len(mem) : mem'[q].size = mem[q].size
  BY DEF OnlyObject
<1>2. \A v \in Threads : v # w =>
        /\ awk'[v].pc \in Pointing => awk'[v].obj \in 1 .. Len(mem)
        /\ awk'[v].pc = "subtract" => awk'[v].rest <= mem'[awk'[v].obj].size
  BY <1>1 DEF HandsPoint, Pointing
<1>3. /\ awk'[w].pc \in Pointing => awk'[w].obj \in 1 .. Len(mem)
      /\ awk'[w].pc = "subtract" => awk'[w].rest <= mem'[awk'[w].obj].size
  BY <1>1 DEF Pointing
<1>4. QED
  BY <1>2, <1>3 DEF HandsPoint, OnlyObject

(* A fragment in the hands of a consumer is not finished; its packet is    *)
(* in memory until the collection has it.                                  *)
LEMMA HandPacket ==
  ASSUME NEW p \in Plans, Unmixed(p), HandsTyped(p), HandsPoint,
         NEW w \in Threads, NEW o, NEW f, o = awk[w].obj, f = awk[w].f
  PROVE  /\ awk[w].pc \in {"copy", "subtract"} => ~Finished(p, f.of, f.fragno)
         /\ awk[w].pc \in Pointing =>
              /\ f.of \in PacketNames(p) /\ f.fragno \in 0 .. End(p, f.of) /\ f \in FragmentsOf(p)
              /\ mem[o].size = Size(p, f.of) /\ \E s \in seen : Owned(p, o, s)
              /\ \A s \in seen : Owned(p, o, s) => s[1] = f.of
         /\ awk[w].pc \in {"copy", "subtract", "test", "assembled"} => mem[o].live \/ Excused
<1>1. ASSUME awk[w].pc \in {"copy", "subtract"}
      PROVE  ~Finished(p, f.of, f.fragno)
  <2>1. Place(<<"hand", w>>, p, f.of, f.fragno)
    BY <1>1 DEF Place
  <2>2. QED
    BY <2>1 DEF Finished
<1>2. ASSUME awk[w].pc \in Pointing
      PROVE  /\ f.of \in PacketNames(p) /\ f.fragno \in 0 .. End(p, f.of) /\ f \in FragmentsOf(p)
             /\ mem[o].size = Size(p, f.of) /\ \E s \in seen : Owned(p, o, s)
             /\ \A s \in seen : Owned(p, o, s) => s[1] = f.of
  <2>1. o \in 1 .. Len(mem)
    BY <1>2 DEF HandsPoint
  <2>2. f \in FragmentsOf(p)
    BY <1>2, HandFacts DEF Pointing, InHands
  <2>3. \A s \in seen : Owned(p, o, s) => s[1] = f.of /\ mem[o].size = Size(p, s[1])
    BY <1>2 DEF Owned, UsedFor
  <2>4. \E s \in seen : Owned(p, o, s)
    BY <2>1 DEF Unmixed, ObjectsOwned
  <2>5. QED
    BY <2>2, <2>3, <2>4 DEF FragmentsOf
<1>3. ASSUME awk[w].pc \in {"copy", "subtract", "test", "assembled"}, ~mem[o].live
      PROVE  Excused
  <2>1. awk[w].pc \in Pointing
    BY <1>3 DEF Pointing
  <2>2. PICK s \in seen : Owned(p, o, s) /\ s[1] = f.of
    BY <2>1, <1>2
  <2>3. Excused \/ (AllPast(p, f.of) /\ NotFinishing(o))
    BY <2>2, <1>3 DEF Owned, Freed
  <2>4. awk[w].pc \in Finishing => ~NotFinishing(o)
    BY DEF NotFinishing
  <2>5. awk[w].pc \in {"copy", "subtract"} => ~AllPast(p, f.of)
    BY <2>1, <1>1, <1>2 DEF AllPast
  <2>6. QED
    BY <1>3, <2>3, <2>4, <2>5 DEF Finishing
<1>4. QED
  BY <1>1, <1>2, <1>3

(* The bytes are copied to their places, and what will be left is known.   *)
LEMMA CopyKeeps ==
  ASSUME NEW p \in Plans, Going(p), HistoryKept, NEW w \in Threads, A!Copy(w)
  PROVE  AssemblyInv(p)'
<1>0. PICK o, f, r : o = awk[w].obj /\ f = awk[w].f /\ r = mem[o]
  OBVIOUS
<1> DEFINE places == A!Places(f, r.size)
           raw == [i \in DOMAIN r.raw |-> IF i \in places THEN A!Byte(f, i) ELSE r.raw[i]]
           rem == r.left - A!LenOf(f, r.size)
           to == [awk[w] EXCEPT !.pc = "subtract", !.rest = rem]
           Bad == ~r.live \/ ~(places \subseteq 0 .. r.size - 1)
<1>1. /\ awk[w].pc = "copy"
      /\ UNCHANGED <<aqueue, lastid, net, atable, out, aleft, seen, mixed>>
      /\ Bad => /\ afault' = (IF ~r.live THEN "freed" ELSE "bounds")
                /\ UNCHANGED <<mem, awk>>
      /\ ~Bad => /\ mem' = [mem EXCEPT ![o].raw = raw]
                 /\ A!Goes(w, to) /\ UNCHANGED afault
  BY <1>0 DEF A!Copy, A!chunks
<1>2. AssemblyTyped(p)
  BY DEF Going, AssemblyInv
<1>3. awk[w] \in PacketHands(p) /\ f \in FragmentsOf(p) /\ o \in 1 .. Len(mem) /\ f.of \in PacketNames(p)
  BY <1>0, <1>1, <1>2, HandFacts DEF AssemblyTyped, InHands, HandsPoint, Pointing, FragmentsOf
<1>4. /\ mem \in Seq(Objects(p)) /\ r \in Objects(p) /\ r.size \in Nat /\ r.left \in Int
      /\ r.left <= r.size /\ r.raw \in [0 .. r.size - 1 -> RawBytes(p)]
  <2>1. /\ mem \in Seq(Objects(p))
        /\ mem[o].left <= mem[o].size /\ mem[o].raw \in [0 .. mem[o].size - 1 -> RawBytes(p)]
    BY <1>2, <1>3 DEF AssemblyTyped, MemTyped
  <2>2. r \in Objects(p)
    BY <2>1, <1>0, <1>3
  <2>3. r.size \in Nat /\ r.left \in Int
    BY <2>2 DEF Objects
  <2>4. QED
    BY <2>1, <2>2, <2>3, <1>0
<1>5. A!LenOf(f, r.size) \in Nat
  <2>1. FragSz \in Nat \ {0}
    BY AssemblyAssumption DEF A!AssemblyParameters
  <2>2. r.size % FragSz \in 0 .. FragSz - 1
    BY <1>4, <2>1, ModRange
  <2>3. QED
    BY <2>1, <2>2 DEF A!LenOf
<1>6. rem \in Int /\ rem <= r.size
  BY <1>4, <1>5
<1>7. to \in PacketHands(p) /\ to.pc = "subtract" /\ to.f = f /\ to.obj = o /\ to.rest = rem
  BY <1>0, <1>3, <1>6 DEF PacketHands, InHands
<1> HIDE DEF to, rem
<1>8. ASSUME Unmixed(p)
      PROVE  /\ mem[o].live \/ Excused
             /\ r.size = Size(p, f.of) /\ places = Span(p, f.of, f.fragno)
             /\ A!LenOf(f, r.size) = Bytes(p, f.of, f.fragno)
             /\ places \subseteq 0 .. r.size - 1
             /\ f.fragno \in 0 .. End(p, f.of) /\ ~Finished(p, f.of, f.fragno)
             /\ \E s \in seen : Owned(p, o, s)
             /\ \A s \in seen : Owned(p, o, s) => s[1] = f.of
  <2>1. /\ mem[o].live \/ Excused
        /\ mem[o].size = Size(p, f.of) /\ f.fragno \in 0 .. End(p, f.of)
        /\ ~Finished(p, f.of, f.fragno)
        /\ \E s \in seen : Owned(p, o, s)
        /\ \A s \in seen : Owned(p, o, s) => s[1] = f.of
    <3>1. awk[w].pc \in Pointing /\ awk[w].pc \in {"copy", "subtract"}
      BY <1>1 DEF Pointing
    <3>2. QED
      BY <3>1, <1>0, <1>2, <1>8, HandPacket DEF AssemblyTyped
  <2>2. /\ A!LenOf(f, Size(p, f.of)) = Bytes(p, f.of, f.fragno)
        /\ A!Places(f, Size(p, f.of)) = Span(p, f.of, f.fragno)
    BY <1>3, LengthCopied
  <2>3. Span(p, f.of, f.fragno) \subseteq 0 .. Size(p, f.of) - 1
    BY <1>3, <2>1, FragmentShape
  <2>4. QED
    BY <1>0, <2>1, <2>2, <2>3
<1>9. CASE Bad
  <2>1. ASSUME Unmixed(p) PROVE (afault' = "freed" => Excused') /\ afault' # "bounds"
    BY <1>0, <1>1, <1>8, <1>9, <2>1, HistoryExcuses
  <2>2. LeftTyped(p)' /\ aleft'.chunks = aleft.chunks
    BY <1>1, <1>2 DEF AssemblyTyped, LeftTyped
  <2>3. QED
    BY <1>1, <1>9, <2>1, <2>2, FaultyStep
<1>10. CASE ~Bad
  <2>1. /\ HandsTyped(p)' /\ awk'[w] = to
        /\ \A v \in Threads : v # w => awk'[v] = awk[v]
    BY <1>1, <1>2, <1>7, <1>10, HandGoes DEF AssemblyTyped
  <2>2. raw \in [0 .. r.size - 1 -> RawBytes(p)]
    <3>1. \A i \in 0 .. r.size - 1 : A!Byte(f, i) \in RawBytes(p) /\ r.raw[i] \in RawBytes(p)
      BY <1>3, <1>4 DEF A!Byte, RawBytes
    <3>2. DOMAIN r.raw = 0 .. r.size - 1
      BY <1>4
    <3> HIDE DEF places
    <3>3. QED
      BY <3>1, <3>2
  <2>3. PICK u : u = [r EXCEPT !.raw = raw]
    OBVIOUS
  <2>4. /\ u \in Objects(p) /\ u.raw = raw
        /\ u.size = r.size /\ u.left = r.left /\ u.live = r.live
    <3> HIDE DEF raw
    <3> QED
      BY <1>4, <2>2, <2>3 DEF Objects
  <2>5. mem' = [mem EXCEPT ![o] = u]
    BY <1>0, <1>1, <1>3, <1>4, <1>10, <2>3
  <2>6. Len(mem') = Len(mem) /\ mem'[o] = u /\ MemTyped(p)' /\ TableTyped' /\ OnlyObject(o)
    <3>1. MemTyped(p) /\ TableTyped /\ UNCHANGED atable
      BY <1>1, <1>2 DEF AssemblyTyped
    <3>2. o \in 1 .. Len(mem) /\ u \in Objects(p) /\ u.size = mem[o].size /\ u.left <= u.size
      BY <1>0, <1>3, <1>4, <2>2, <2>4
    <3>3. u.raw \in [0 .. u.size - 1 -> RawBytes(p)]
      BY <1>4, <2>2, <2>4
    <3>4. QED
      BY <3>1, <3>2, <3>3, <2>5, ObjectWritten
  <2>7. HandsPoint'
    BY <1>0, <1>2, <1>3, <1>6, <1>7, <2>1, <2>6, HandsStillPoint DEF AssemblyTyped
  <2>8. AssemblyTyped(p)'
    BY <1>1, <1>2, <2>1, <2>6, <2>7 DEF AssemblyTyped, LeftTyped
  <2>9. ASSUME Unmixed(p) PROVE Unmixed(p)'
    <3>1. OnePlace(p)' /\ FinishedStay(p)
      BY <1>0, <1>1, <1>7, <2>1, <2>9, HandKeeps DEF Unmixed
    <3>2. A!BytesInPlace'
      BY <1>1, <2>9 DEF Unmixed, A!BytesInPlace
    <3>3. \A i \in 0 .. r.size - 1 :
            mem'[o].raw[i] = IF i \in places THEN A!Byte(f, i) ELSE mem[o].raw[i]
      <4>1. DOMAIN r.raw = 0 .. r.size - 1
        BY <1>4
      <4> HIDE DEF places
      <4>2. QED
        BY <1>0, <2>4, <2>6, <4>1
    <3>4. \A i : A!Byte(f, i) \in {<<f.of, i>>, Garbage}
      BY DEF A!Byte
    <3>5. \A k \in 0 .. End(p, f.of) : Filled(p, o, f.of, k) => Filled(p, o, f.of, k)'
      <4>1. SUFFICES ASSUME NEW k \in 0 .. End(p, f.of), Filled(p, o, f.of, k), NEW i \in Span(p, f.of, k)
                     PROVE  mem'[o].raw[i] \in {<<f.of, i>>, Garbage}
        BY DEF Filled
      <4>2. i \in 0 .. r.size - 1
        BY <1>3, <1>8, <2>9, <4>1, FragmentShape
      <4>3. mem[o].raw[i] \in {<<f.of, i>>, Garbage}
        BY <4>1 DEF Filled
      <4> HIDE DEF places
      <4>4. QED
        BY <3>3, <3>4, <4>2, <4>3
    <3>6. Filled(p, o, f.of, f.fragno)'
      <4>1. SUFFICES ASSUME NEW i \in Span(p, f.of, f.fragno)
                     PROVE  mem'[o].raw[i] \in {<<f.of, i>>, Garbage}
        BY DEF Filled
      <4>2. i \in places /\ i \in 0 .. r.size - 1
        BY <1>8, <2>9, <4>1
      <4> HIDE DEF places
      <4>3. QED
        BY <3>3, <3>4, <4>2
    <3>7. PICK C : Past(p, f.of, C) /\ Counted(p, o, f.of, C, r.left)
      BY <1>0, <1>8, <2>9 DEF Owned, Counts
    <3>8. Past(p, f.of, C)' /\ C \subseteq 0 .. End(p, f.of)
      BY <1>3, <3>1, <3>7 DEF Past, FinishedStay
    <3>9. Counted(p, o, f.of, C, r.left)'
      BY <3>5, <3>7, <3>8 DEF Counted
    <3>10. f.fragno \notin C
      BY <1>8, <2>9, <3>7 DEF Past
    <3>11. Counted(p, o, f.of, C \cup {f.fragno}, rem)'
      <4>1. /\ Total(p, f.of, C \cup {f.fragno}) = Total(p, f.of, C) + Bytes(p, f.of, f.fragno)
            /\ Total(p, f.of, C) \in Int
        <5>1. C \in SUBSET (0 .. End(p, f.of)) /\ f.fragno \in 0 .. End(p, f.of)
          BY <1>8, <2>9, <3>8
        <5>2. QED
          BY <5>1, <1>3, <3>10, TotalAdd
      <4>2. r.left = Size(p, f.of) - Total(p, f.of, C) /\ rem = r.left - Bytes(p, f.of, f.fragno)
        BY <1>8, <2>9, <3>7 DEF Counted, rem
      <4>3. rem = Size(p, f.of) - Total(p, f.of, C \cup {f.fragno})
        <5>1. Size(p, f.of) \in Int /\ Bytes(p, f.of, f.fragno) \in Int
          BY <1>3, <1>8, <2>9, PacketSizes, FragmentShape
        <5>2. QED
          BY <4>1, <4>2, <5>1
      <4>4. \A k \in C \cup {f.fragno} : Filled(p, o, f.of, k)'
        BY <3>6, <3>9 DEF Counted
      <4>5. QED
        BY <4>3, <4>4 DEF Counted
    <3>12. ObjectRight(p, o)
      <4>1. SUFFICES ASSUME NEW s \in seen, Owned(p, o, s), s[1] = f.of
                     PROVE  Counts(p, o, f.of)' /\ Freed(p, o, f.of)'
        BY <1>8, <2>9, <3>5 DEF ObjectRight
      <4>2. Counts(p, o, f.of)'
        BY <3>8, <3>9, <2>4, <2>6 DEF Counts
      <4>3. Freed(p, o, f.of)'
        BY <1>10, <2>4, <2>6 DEF Freed
      <4>4. QED
        BY <4>2, <4>3
    <3>13. HandRight(p, w, o)
      <4>1. /\ awk'[w].pc = "subtract" /\ awk'[w].f = f /\ awk'[w].obj = o /\ awk'[w].rest = rem
        BY <1>7, <2>1
      <4>2. Knows(p, w)'
        BY <4>1, <3>8, <3>11 DEF Knows
      <4>3. QED
        BY <4>1, <4>2, <1>0 DEF HandRight, Finishing
    <3>14. awk[w].pc \in Pointing
      BY <1>1 DEF Pointing
    <3>15. QED
      BY <1>0, <1>1, <1>2, <2>1, <2>6, <2>9, <3>1, <3>2, <3>12, <3>13, <3>14, ObjectChanges
         DEF AssemblyTyped
  <2>10. QED
    BY <1>1, <1>10, <2>8, <2>9, StepStays
<1>11. QED
  BY <1>9, <1>10

(* What is left is written: no other consumer has seen that the packet is  *)
(* complete, and one that is about to look meets this one.                 *)
LEMMA SubtractKeeps ==
  ASSUME NEW p \in Plans, Going(p), HistoryKept, NEW w \in Threads, A!Subtract(w),
         A!Meeting(awk') => met'
  PROVE  AssemblyInv(p)'
<1>0. PICK o, f, r, n : o = awk[w].obj /\ f = awk[w].f /\ r = mem[o] /\ n = awk[w].rest
  OBVIOUS
<1> DEFINE to == [awk[w] EXCEPT !.pc = "test"]
<1>1. /\ awk[w].pc = "subtract"
      /\ UNCHANGED <<aqueue, lastid, net, atable, out, aleft, seen, mixed>>
      /\ ~r.live => afault' = "freed" /\ UNCHANGED <<mem, awk>>
      /\ r.live => /\ mem' = [mem EXCEPT ![o].left = n]
                   /\ A!Goes(w, to) /\ UNCHANGED afault
  BY <1>0 DEF A!Subtract, A!chunks
<1>2. AssemblyTyped(p)
  BY DEF Going, AssemblyInv
<1>3. awk[w] \in PacketHands(p) /\ f \in FragmentsOf(p) /\ o \in 1 .. Len(mem) /\ f.of \in PacketNames(p)
  BY <1>0, <1>1, <1>2, HandFacts DEF AssemblyTyped, InHands, HandsPoint, Pointing, FragmentsOf
<1>4. n \in Int /\ n <= r.size
  BY <1>0, <1>1, <1>2, <1>3 DEF AssemblyTyped, HandsPoint, PacketHands
<1>5. /\ mem \in Seq(Objects(p)) /\ r \in Objects(p)
      /\ r.raw \in [0 .. r.size - 1 -> RawBytes(p)]
  <2>1. mem \in Seq(Objects(p)) /\ mem[o].raw \in [0 .. mem[o].size - 1 -> RawBytes(p)]
    BY <1>2, <1>3 DEF AssemblyTyped, MemTyped
  <2>2. QED
    BY <2>1, <1>0, <1>3
<1>6. to \in PacketHands(p) /\ to.pc = "test" /\ to.f = f /\ to.obj = o
  BY <1>0, <1>3 DEF PacketHands, InHands
<1> HIDE DEF to
<1>7. awk[w].pc \in Pointing /\ awk[w].pc \in {"copy", "subtract"}
  BY <1>1 DEF Pointing
<1>8. ASSUME Unmixed(p)
      PROVE  /\ mem[o].live \/ Excused
             /\ f.fragno \in 0 .. End(p, f.of) /\ ~Finished(p, f.of, f.fragno)
             /\ \A s \in seen : Owned(p, o, s) => s[1] = f.of
  BY <1>0, <1>2, <1>7, <1>8, HandPacket DEF AssemblyTyped
<1>9. CASE ~r.live
  <2>1. ASSUME Unmixed(p) PROVE (afault' = "freed" => Excused') /\ afault' # "bounds"
    BY <1>0, <1>1, <1>8, <1>9, <2>1, HistoryExcuses
  <2>2. LeftTyped(p)' /\ aleft'.chunks = aleft.chunks
    BY <1>1, <1>2 DEF AssemblyTyped, LeftTyped
  <2>3. QED
    BY <1>1, <1>9, <2>1, <2>2, FaultyStep
<1>10. CASE r.live
  <2>1. /\ HandsTyped(p)' /\ awk'[w] = to
        /\ \A v \in Threads : v # w => awk'[v] = awk[v]
    BY <1>1, <1>2, <1>6, <1>10, HandGoes DEF AssemblyTyped
  <2>2. PICK u : u = [r EXCEPT !.left = n]
    OBVIOUS
  <2>3. /\ u \in Objects(p) /\ u.left = n
        /\ u.size = r.size /\ u.raw = r.raw /\ u.live = r.live
    BY <1>4, <1>5, <2>2 DEF Objects
  <2>4. mem' = [mem EXCEPT ![o] = u]
    BY <1>0, <1>1, <1>3, <1>5, <1>10, <2>2
  <2>5. Len(mem') = Len(mem) /\ mem'[o] = u /\ MemTyped(p)' /\ TableTyped' /\ OnlyObject(o)
    <3>1. MemTyped(p) /\ TableTyped /\ UNCHANGED atable
      BY <1>1, <1>2 DEF AssemblyTyped
    <3>2. o \in 1 .. Len(mem) /\ u \in Objects(p) /\ u.size = mem[o].size /\ u.left <= u.size
      BY <1>0, <1>3, <1>4, <1>5, <2>3
    <3>3. u.raw \in [0 .. u.size - 1 -> RawBytes(p)]
      BY <1>4, <1>5, <2>3
    <3>4. QED
      BY <3>1, <3>2, <3>3, <2>4, ObjectWritten
  <2>6. HandsPoint'
    BY <1>2, <1>3, <1>6, <2>1, <2>5, HandsStillPoint DEF AssemblyTyped, Pointing
  <2>7. AssemblyTyped(p)'
    BY <1>1, <1>2, <2>1, <2>5, <2>6 DEF AssemblyTyped, LeftTyped
  <2>8. ASSUME Unmixed(p) PROVE Unmixed(p)'
    <3>1. /\ \A of, k, x : Place(x, p, of, k)' => Place(x, p, of, k)
          /\ OnePlace(p)' /\ FinishedStay(p)
      BY <1>0, <1>1, <1>6, <2>1, <2>8, HandKeeps DEF Unmixed
    <3>2. A!BytesInPlace'
      BY <1>1, <2>8 DEF Unmixed, A!BytesInPlace
    <3>3. \A of, k : Filled(p, o, of, k)' <=> Filled(p, o, of, k)
      BY <1>0, <2>3, <2>5 DEF Filled
    <3>4. Finished(p, f.of, f.fragno)'
      <4>1. SUFFICES ASSUME NEW x, Place(x, p, f.of, f.fragno)' PROVE FALSE
        BY DEF Finished
      <4>2. Place(<<"hand", w>>, p, f.of, f.fragno)
        BY <1>0, <1>1 DEF Place
      <4>3. x = <<"hand", w>>
        BY <4>1, <4>2, <3>1, <1>3, <1>8, <2>8 DEF Unmixed, OnePlace
      <4>4. QED
        BY <4>1, <4>3, <1>6, <2>1 DEF Place
    <3>5. PICK C : Past(p, f.of, C) /\ Counted(p, o, f.of, C \cup {f.fragno}, n)
      BY <1>0, <1>1, <2>8 DEF Unmixed, SubtractKnows, Knows
    <3>6. PICK D : D = C \cup {f.fragno}
      OBVIOUS
    <3>7. Past(p, f.of, D)' /\ D \in SUBSET (0 .. End(p, f.of))
      BY <1>3, <1>8, <2>8, <3>1, <3>4, <3>5, <3>6 DEF Past, FinishedStay
    <3>8. Counted(p, o, f.of, D, n)' /\ Counted(p, o, f.of, D, n)
      BY <3>3, <3>5, <3>6 DEF Counted
    <3>9. ObjectRight(p, o)
      <4>1. SUFFICES ASSUME NEW s \in seen, Owned(p, o, s), s[1] = f.of
                     PROVE  Counts(p, o, f.of)' /\ Freed(p, o, f.of)'
        BY <1>8, <2>8, <3>3 DEF ObjectRight
      <4>2. Counts(p, o, f.of)'
        BY <3>7, <3>8, <2>3, <2>5 DEF Counts
      <4>3. Freed(p, o, f.of)'
        BY <1>10, <2>3, <2>5 DEF Freed
      <4>4. QED
        BY <4>2, <4>3
    <3>10. ASSUME NEW v \in Threads, v # w, awk[v].pc \in Finishing, awk[v].obj = o
           PROVE  met'
      <4>1. awk[v].pc # "assembled"
        <5>1. SUFFICES ASSUME awk[v].pc = "assembled" PROVE FALSE
          OBVIOUS
        <5>2. PICK g : g = awk[v].f
          OBVIOUS
        <5>3. \E s \in seen : Owned(p, o, s) /\ s[1] = g.of
          BY <3>10, <5>1, <5>2, <1>2, <2>8, HandPacket DEF AssemblyTyped, Pointing
        <5>4. g.of = f.of
          BY <5>3, <1>8, <2>8
        <5>5. Finished(p, f.of, f.fragno)
          BY <3>10, <5>1, <5>2, <5>4, <1>8, <2>8 DEF Unmixed, AssembledFull, Full
        <5>6. QED
          BY <5>5, <1>8, <2>8
      <4>2. awk'[v] = awk[v] /\ awk[v].pc = "test"
        BY <3>10, <4>1, <2>1 DEF Finishing
      <4>3. awk'[w].pc = "test" /\ awk'[w].obj = o
        BY <1>6, <2>1
      <4>4. QED
        BY <3>10, <4>2, <4>3 DEF A!Meeting
    <3>11. HandRight(p, w, o)
      BY <1>0, <1>6, <2>1, <3>10 DEF HandRight, InHands, Pointing
    <3>12. QED
      BY <1>0, <1>1, <1>2, <1>7, <2>1, <2>5, <2>8, <3>1, <3>2, <3>9, <3>11, ObjectChanges
         DEF AssemblyTyped
  <2>9. QED
    BY <1>1, <1>10, <2>7, <2>8, StepStays
<1>11. QED
  BY <1>9, <1>10

(* Nothing is left when it is read again, and the packet is complete.      *)
LEMMA TestKeeps ==
  ASSUME NEW p \in Plans, Going(p), HistoryKept, NEW w \in Threads, A!Test(w)
  PROVE  AssemblyInv(p)'
<1>0. PICK o, f, r : o = awk[w].obj /\ f = awk[w].f /\ r = mem[o]
  OBVIOUS
<1> DEFINE go == [awk[w] EXCEPT !.pc = "assembled"]
           to == IF r.left = 0 THEN go ELSE A!Idle
<1>1. /\ awk[w].pc = "test"
      /\ UNCHANGED <<aqueue, lastid, net, atable, mem, out, aleft, seen, mixed>>
      /\ ~r.live => afault' = "freed" /\ UNCHANGED awk
      /\ r.live => A!Goes(w, to) /\ UNCHANGED afault
  BY <1>0 DEF A!Test, A!chunks, A!packets
<1>2. AssemblyTyped(p)
  BY DEF Going, AssemblyInv
<1>3. awk[w] \in PacketHands(p) /\ f \in FragmentsOf(p) /\ o \in 1 .. Len(mem) /\ f.of \in PacketNames(p)
  BY <1>0, <1>1, <1>2, HandFacts DEF AssemblyTyped, InHands, HandsPoint, Pointing, FragmentsOf
<1>4. /\ r.left = 0 => to \in PacketHands(p) /\ to.pc = "assembled" /\ to.f = f /\ to.obj = o
      /\ r.left # 0 => to = A!Idle /\ to.pc = "idle"
  BY <1>0, <1>3 DEF PacketHands, InHands, A!Idle
<1> HIDE DEF to
<1>5. awk[w].pc \in Pointing /\ awk[w].pc \in Finishing
  BY <1>1 DEF Pointing, Finishing
<1>6. ASSUME Unmixed(p)
      PROVE  /\ mem[o].live \/ Excused
             /\ \E s \in seen : Owned(p, o, s) /\ s[1] = f.of
             /\ \A s \in seen : Owned(p, o, s) => s[1] = f.of
  BY <1>0, <1>1, <1>2, <1>5, <1>6, HandPacket DEF AssemblyTyped
<1>7. CASE ~r.live
  <2>1. ASSUME Unmixed(p) PROVE (afault' = "freed" => Excused') /\ afault' # "bounds"
    BY <1>0, <1>1, <1>6, <1>7, <2>1, HistoryExcuses
  <2>2. LeftTyped(p)' /\ aleft'.chunks = aleft.chunks
    BY <1>1, <1>2 DEF AssemblyTyped, LeftTyped
  <2>3. QED
    BY <1>1, <1>7, <2>1, <2>2, FaultyStep
<1>8. CASE r.live
  <2>1. /\ HandsTyped(p)' /\ awk'[w] = to
        /\ \A v \in Threads : v # w => awk'[v] = awk[v]
    BY <1>1, <1>2, <1>4, <1>8, HandGoes DEF AssemblyTyped
  <2>2. OnlyObject(o)
    BY <1>1 DEF OnlyObject
  <2>3. HandsPoint'
    BY <1>2, <1>3, <1>4, <2>1, <2>2, HandsStillPoint DEF AssemblyTyped, Pointing
  <2>4. AssemblyTyped(p)'
    BY <1>1, <1>2, <2>1, <2>3 DEF AssemblyTyped, LeftTyped, MemTyped, TableTyped
  <2>5. ASSUME Unmixed(p) PROVE Unmixed(p)'
    <3>1. OnePlace(p)' /\ FinishedStay(p)
      BY <1>0, <1>1, <1>4, <2>1, <2>5, HandKeeps DEF Unmixed
    <3>2. A!BytesInPlace'
      BY <1>1, <2>5 DEF Unmixed, A!BytesInPlace
    <3>3. \A of, k : Filled(p, o, of, k)' <=> Filled(p, o, of, k)
      BY <1>1 DEF Filled
    <3>4. PICK C : Past(p, f.of, C) /\ Counted(p, o, f.of, C, r.left)
      BY <1>0, <1>6, <2>5 DEF Owned, Counts
    <3>5. Past(p, f.of, C)' /\ C \in SUBSET (0 .. End(p, f.of)) /\ Counted(p, o, f.of, C, r.left)'
      BY <1>3, <3>1, <3>3, <3>4 DEF Past, FinishedStay, Counted
    <3>6. ObjectRight(p, o)
      <4>1. SUFFICES ASSUME NEW s \in seen, Owned(p, o, s), s[1] = f.of
                     PROVE  Counts(p, o, f.of)' /\ Freed(p, o, f.of)'
        BY <1>6, <2>5, <3>3 DEF ObjectRight
      <4>2. Counts(p, o, f.of)'
        BY <1>0, <1>1, <3>5 DEF Counts
      <4>3. Freed(p, o, f.of)'
        BY <1>0, <1>1, <1>8 DEF Freed
      <4>4. QED
        BY <4>2, <4>3
    <3>7. ASSUME r.left = 0
          PROVE  \A k \in 0 .. End(p, f.of) : Finished(p, f.of, k)' /\ Filled(p, o, f.of, k)'
      <4>1. Size(p, f.of) \in Nat /\ Size(p, f.of) # 0
        BY <1>3, PacketSizes DEF FragmentsOf
      <4>2. Total(p, f.of, C) \in Int /\ 0 = Size(p, f.of) - Total(p, f.of, C)
        <5>1. f.fragno \in 0 .. End(p, f.of)
          BY <1>3 DEF FragmentsOf
        <5>2. QED
          BY <1>3, <3>4, <3>5, <3>7, <5>1, TotalAdd DEF Counted
      <4>3. C = 0 .. End(p, f.of)
        <5>1. Total(p, f.of, C) = Size(p, f.of)
          BY <4>1, <4>2
        <5>2. f.fragno \in 0 .. End(p, f.of)
          BY <1>3 DEF FragmentsOf
        <5>3. QED
          BY <5>1, <5>2, <4>1, <1>3, <3>5, TotalAdd
      <4>4. QED
        BY <4>3, <3>5 DEF Past, Counted
    <3>8. \A v \in Threads : v # w /\ awk[v].pc \in Finishing /\ awk[v].obj = o => met'
      BY <1>0, <1>5, <2>5 DEF Unmixed, FinishingOnce, HistoryKept
    <3>9. HandRight(p, w, o)
      BY <1>0, <1>4, <2>1, <3>7, <3>8 DEF HandRight, InHands, Pointing
    <3>10. QED
      BY <1>0, <1>1, <1>2, <1>5, <2>1, <2>2, <2>5, <3>1, <3>2, <3>6, <3>9, ObjectChanges
         DEF AssemblyTyped
  <2>6. QED
    BY <1>1, <1>8, <2>4, <2>5, StepStays
<1>9. QED
  BY <1>7, <1>8

(* A packet that is handed on has each of its bytes in its place.          *)
LEMMA AssembledKeeps ==
  ASSUME NEW p \in Plans, Going(p), HistoryKept, NEW w \in Threads, A!Assembled(w)
  PROVE  AssemblyInv(p)'
<1>0. PICK o, f, r : o = awk[w].obj /\ f = awk[w].f /\ r = mem[o]
  OBVIOUS
<1> DEFINE to == [awk[w] EXCEPT !.pc = "remove"]
<1>1. /\ awk[w].pc = "assembled"
      /\ UNCHANGED <<aqueue, lastid, net, atable, aleft, seen, mixed>>
      /\ ~r.live => afault' = "freed" /\ UNCHANGED <<mem, awk, out>>
      /\ r.live => /\ mem' = [mem EXCEPT ![o].live = FALSE]
                   /\ out' = out \cup {r.raw}
                   /\ A!Goes(w, to) /\ UNCHANGED afault
  BY <1>0 DEF A!Assembled, A!chunks
<1>2. AssemblyTyped(p)
  BY DEF Going, AssemblyInv
<1>3. awk[w] \in PacketHands(p) /\ f \in FragmentsOf(p) /\ o \in 1 .. Len(mem) /\ f.of \in PacketNames(p)
  BY <1>0, <1>1, <1>2, HandFacts DEF AssemblyTyped, InHands, HandsPoint, Pointing, FragmentsOf
<1>4. /\ mem \in Seq(Objects(p)) /\ r \in Objects(p) /\ r.left <= r.size
      /\ r.raw \in [0 .. r.size - 1 -> RawBytes(p)]
  <2>1. /\ mem \in Seq(Objects(p))
        /\ mem[o].left <= mem[o].size /\ mem[o].raw \in [0 .. mem[o].size - 1 -> RawBytes(p)]
    BY <1>2, <1>3 DEF AssemblyTyped, MemTyped
  <2>2. QED
    BY <2>1, <1>0, <1>3
<1>5. to \in PacketHands(p) /\ to.pc = "remove" /\ to.f = f /\ to.obj = o
  BY <1>0, <1>3 DEF PacketHands, InHands
<1> HIDE DEF to
<1>6. awk[w].pc \in Pointing
  BY <1>1 DEF Pointing
<1>7. ASSUME Unmixed(p)
      PROVE  /\ mem[o].live \/ Excused
             /\ r.size = Size(p, f.of) /\ \E s \in seen : Owned(p, o, s) /\ s[1] = f.of
             /\ \A s \in seen : Owned(p, o, s) => s[1] = f.of
             /\ \A k \in 0 .. End(p, f.of) : Finished(p, f.of, k) /\ Filled(p, o, f.of, k)
  <2>1. \A k \in 0 .. End(p, f.of) : Finished(p, f.of, k) /\ Filled(p, o, f.of, k)
    BY <1>0, <1>1, <1>7 DEF Unmixed, AssembledFull, Full
  <2>2. QED
    BY <2>1, <1>0, <1>1, <1>2, <1>6, <1>7, HandPacket DEF AssemblyTyped
<1>8. CASE ~r.live
  <2>1. ASSUME Unmixed(p) PROVE (afault' = "freed" => Excused') /\ afault' # "bounds"
    BY <1>0, <1>1, <1>7, <1>8, <2>1, HistoryExcuses
  <2>2. LeftTyped(p)' /\ aleft'.chunks = aleft.chunks
    BY <1>1, <1>2 DEF AssemblyTyped, LeftTyped
  <2>3. QED
    BY <1>1, <1>8, <2>1, <2>2, FaultyStep
<1>9. CASE r.live
  <2>1. /\ HandsTyped(p)' /\ awk'[w] = to
        /\ \A v \in Threads : v # w => awk'[v] = awk[v]
    BY <1>1, <1>2, <1>5, <1>9, HandGoes DEF AssemblyTyped
  <2>2. PICK u : u = [r EXCEPT !.live = FALSE]
    OBVIOUS
  <2>3. /\ u \in Objects(p)
        /\ u.left = r.left /\ u.size = r.size /\ u.raw = r.raw
    BY <1>4, <2>2 DEF Objects
  <2>4. mem' = [mem EXCEPT ![o] = u]
    BY <1>0, <1>1, <1>3, <1>4, <1>9, <2>2
  <2>5. Len(mem') = Len(mem) /\ mem'[o] = u /\ MemTyped(p)' /\ TableTyped' /\ OnlyObject(o)
    <3>1. MemTyped(p) /\ TableTyped /\ UNCHANGED atable
      BY <1>1, <1>2 DEF AssemblyTyped
    <3>2. o \in 1 .. Len(mem) /\ u \in Objects(p) /\ u.size = mem[o].size /\ u.left <= u.size
      BY <1>0, <1>3, <1>4, <2>3
    <3>3. u.raw \in [0 .. u.size - 1 -> RawBytes(p)]
      BY <1>4, <2>3
    <3>4. QED
      BY <3>1, <3>2, <3>3, <2>4, ObjectWritten
  <2>6. HandsPoint'
    BY <1>2, <1>3, <1>5, <2>1, <2>5, HandsStillPoint DEF AssemblyTyped
  <2>7. AssemblyTyped(p)'
    BY <1>1, <1>2, <2>1, <2>5, <2>6 DEF AssemblyTyped, LeftTyped
  <2>8. ASSUME Unmixed(p) PROVE Unmixed(p)'
    <3>1. OnePlace(p)' /\ FinishedStay(p)
      BY <1>0, <1>1, <1>5, <2>1, <2>8, HandKeeps DEF Unmixed
    <3>2. \E s \in seen : \A i \in DOMAIN r.raw : r.raw[i] \in {<<s[1], i>>, Garbage}
      <4>1. PICK s \in seen : s[1] = f.of
        BY <1>7, <2>8
      <4>2. SUFFICES ASSUME NEW i \in DOMAIN r.raw PROVE r.raw[i] \in {<<f.of, i>>, Garbage}
        BY <4>1
      <4>3. i \in 0 .. Size(p, f.of) - 1
        BY <1>4, <1>7, <2>8, <4>2
      <4>4. PICK k \in 0 .. End(p, f.of) : i \in Span(p, f.of, k)
        BY <1>3, <4>3, SpansCover
      <4>5. QED
        BY <1>0, <1>7, <2>8, <4>4 DEF Filled
    <3>3. A!BytesInPlace'
      BY <1>1, <1>9, <2>8, <3>2 DEF Unmixed, A!BytesInPlace
    <3>4. \A of, k : Filled(p, o, of, k)' <=> Filled(p, o, of, k)
      BY <1>0, <2>3, <2>5 DEF Filled
    <3>5. ObjectRight(p, o)
      <4>1. SUFFICES ASSUME NEW s \in seen, Owned(p, o, s), s[1] = f.of
                     PROVE  Counts(p, o, f.of)' /\ Freed(p, o, f.of)'
        BY <1>7, <2>8, <3>4 DEF ObjectRight
      <4>2. PICK C : Past(p, f.of, C) /\ Counted(p, o, f.of, C, r.left)
        BY <4>1, <1>0 DEF Owned, Counts
      <4>3. Past(p, f.of, C)'
        BY <1>3, <3>1, <4>2 DEF Past, FinishedStay
      <4>4. Counted(p, o, f.of, C, r.left)'
        BY <3>4, <4>2 DEF Counted
      <4>5. Counts(p, o, f.of)'
        BY <4>3, <4>4, <2>3, <2>5 DEF Counts
      <4>6. AllPast(p, f.of)'
        BY <1>3, <1>7, <2>8, <3>1 DEF AllPast, FinishedStay
      <4>7. ~met => NotFinishing(o)'
        <5>1. SUFFICES ASSUME ~met, NEW v \in Threads, awk'[v].pc \in Finishing PROVE awk'[v].obj # o
          BY DEF NotFinishing
        <5>2. v # w /\ awk'[v] = awk[v] /\ awk[v].pc \in Finishing
          BY <1>5, <2>1, <5>1 DEF Finishing
        <5>3. QED
          BY <1>0, <1>1, <2>8, <5>1, <5>2 DEF Unmixed, FinishingOnce, Finishing
      <4>8. QED
        BY <4>5, <4>6, <4>7 DEF Freed, HistoryKept, Excused
    <3>6. HandRight(p, w, o)
      BY <1>0, <1>5, <2>1 DEF HandRight, Finishing
    <3>7. QED
      BY <1>0, <1>1, <1>2, <1>6, <2>1, <2>5, <2>8, <3>1, <3>3, <3>5, <3>6, ObjectChanges
         DEF AssemblyTyped
  <2>9. QED
    BY <1>1, <1>9, <2>7, <2>8, StepStays
<1>10. QED
  BY <1>8, <1>9

(* A fragment that has arrived: the first one of a packet makes room for   *)
(* all of it.                                                              *)
LEMMA ReceiveKeeps ==
  ASSUME NEW p \in Plans, Going(p), HistoryKept, NEW w \in Threads, A!Receive(w)
  PROVE  AssemblyInv(p)'
<1>1. PICK f \in net :
        /\ \/ net' = net \ {f} /\ UNCHANGED aleft
           \/ aleft.copies > 0 /\ aleft' = [aleft EXCEPT !.copies = @ - 1] /\ net' = net
        /\ mixed' = (mixed \/ net' = net \/ \E s \in seen : s[1] # f.of /\ s[2] = f.id)
        /\ seen' = seen \cup {<<f.of, f.id>>}
        /\ IF A!Body(f) < 0 THEN UNCHANGED <<awk, mem>>
           ELSE IF f.fragno = 0
           THEN /\ mem' = Append(mem, [size |-> f.size, left |-> f.size, age |-> 0, live |-> TRUE,
                                       raw |-> [i \in 0 .. f.size - 1 |-> None]])
                /\ A!Goes(w, [pc |-> "set", f |-> f, obj |-> Len(mem'), rest |-> 0])
           ELSE A!Goes(w, [pc |-> "get", f |-> f, obj |-> 0, rest |-> 0]) /\ UNCHANGED mem
  BY Zenon DEF A!Receive
<1>2. /\ awk[w].pc = "idle"
      /\ UNCHANGED <<aqueue, lastid, atable, out, afault>>
  BY DEF A!Receive, A!chunks
<1>3. AssemblyTyped(p)
  BY DEF Going, AssemblyInv
<1>4. /\ f \in FragmentsOf(p) /\ f.of \in PacketNames(p) /\ f.id \in 1 .. MaxId /\ f.size \in Nat
      /\ f.fragno \in 0 .. End(p, f.of)
      /\ f.fragno = 0 => f.size = Size(p, f.of)
  BY <1>1, <1>3 DEF AssemblyTyped, FragmentsOf
<1>5. PICK l \in Nat : l = Len(mem)
  BY <1>3 DEF AssemblyTyped, MemTyped
<1>6. PICK r : r = [size |-> f.size, left |-> f.size, age |-> 0, live |-> TRUE,
                    raw |-> [i \in 0 .. f.size - 1 |-> None]]
  OBVIOUS
<1>7. /\ r \in Objects(p) /\ r.size = f.size /\ r.left = f.size /\ r.live = TRUE
      /\ r.raw \in [0 .. f.size - 1 -> RawBytes(p)]
  <2>1. [i \in 0 .. f.size - 1 |-> None] \in [0 .. f.size - 1 -> RawBytes(p)]
    BY DEF RawBytes
  <2>2. PICK m : m = [i \in 0 .. f.size - 1 |-> None]
    OBVIOUS
  <2>3. r = [size |-> f.size, left |-> f.size, age |-> 0, live |-> TRUE, raw |-> m]
    BY <1>6, <2>2
  <2>4. m \in UNION {[0 .. n - 1 -> RawBytes(p)] : n \in Nat} /\ m \in [0 .. f.size - 1 -> RawBytes(p)]
    BY <2>1, <2>2, <1>4
  <2>5. QED
    BY <2>3, <2>4, <1>4 DEF Objects
(* The three outcomes: refused, made, or to be looked up.                  *)
<1> DEFINE set == [pc |-> "set", f |-> f, obj |-> l + 1, rest |-> 0]
           get == [pc |-> "get", f |-> f, obj |-> 0, rest |-> 0]
           Refused == UNCHANGED <<awk, mem>>
           Made == f.fragno = 0 /\ mem' = Append(mem, r) /\ awk'[w] = set
           Sought == mem' = mem /\ awk'[w] = get
<1>8. set \in PacketHands(p) /\ get \in PacketHands(p)
  BY <1>4, <1>5 DEF PacketHands, InHands
<1>9. /\ HandsTyped(p)' /\ \A v \in Threads : v # w => awk'[v] = awk[v]
      /\ Refused \/ Made \/ Sought
  <2>1. HandsTyped(p) /\ mem \in Seq(Objects(p))
    BY <1>3 DEF AssemblyTyped, MemTyped
  <2>2. CASE A!Body(f) < 0
    BY <1>1, <2>1, <2>2 DEF HandsTyped
  <2>3. CASE ~(A!Body(f) < 0) /\ f.fragno = 0
    <3>1. mem' = Append(mem, r) /\ A!Goes(w, [pc |-> "set", f |-> f, obj |-> Len(mem'), rest |-> 0])
      BY <1>1, <1>6, <2>3
    <3>2. Len(mem') = l + 1
      BY <3>1, <2>1, <1>5, <1>7
    <3>3. A!Goes(w, set)
      BY <3>1, <3>2
    <3> HIDE DEF set
    <3>4. QED
      BY <3>1, <3>3, <2>1, <2>3, <1>8, HandGoes
  <2>4. CASE ~(A!Body(f) < 0) /\ f.fragno # 0
    <3>1. A!Goes(w, get) /\ mem' = mem
      BY <1>1, <2>4
    <3> HIDE DEF get
    <3>2. QED
      BY <3>1, <2>1, <1>8, HandGoes
  <2>5. QED
    BY <2>2, <2>3, <2>4
<1>10. /\ mem' \in Seq(Objects(p)) /\ Len(mem') \in {l, l + 1}
       /\ Len(mem') = l + 1 <=> Made
       /\ \A o \in 1 .. l : mem'[o] = mem[o]
       /\ Made => mem'[l + 1] = r
  <2>1. mem \in Seq(Objects(p))
    BY <1>3 DEF AssemblyTyped, MemTyped
  <2>2. PICK m : m = mem'
    OBVIOUS
  <2>3. CASE Made
    <3>1. m = Append(mem, r)
      BY <2>2, <2>3
    <3>2. /\ m \in Seq(Objects(p)) /\ Len(m) = l + 1 /\ m[l + 1] = r
          /\ \A o \in 1 .. l : m[o] = mem[o]
      BY <3>1, <2>1, <1>5, <1>7
    <3>3. QED
      BY <3>2, <2>2, <2>3
  <2>4. CASE ~Made
    <3>1. m = mem
      BY <2>2, <2>4, <1>9
    <3>2. l # l + 1
      BY <1>5
    <3>3. QED
      BY <3>1, <3>2, <2>1, <2>2, <2>4, <1>5
  <2>5. QED
    BY <2>3, <2>4
<1>11. /\ awk'[w].pc \in {"idle", "set", "get"}
       /\ awk'[w].pc # "idle" => awk'[w].f = f
       /\ awk'[w].pc = "set" => Made /\ awk'[w].obj = l + 1
  BY <1>2, <1>9
<1> HIDE DEF Made, Sought, Refused, set, get
<1>12. AssemblyTyped(p)'
  <2>1. net' \subseteq FragmentsOf(p)
    BY <1>1, <1>3 DEF AssemblyTyped
  <2>2. LeftTyped(p)'
    <3>1. aleft \in [chunks : SUBSET p.chunks, packets : {p.packets}, copies : Nat, passes : Nat]
      BY <1>3 DEF AssemblyTyped, LeftTyped
    <3>2. aleft.copies > 0 => aleft.copies - 1 \in Nat
      BY <3>1
    <3>3. aleft' = aleft \/ (aleft.copies > 0 /\ aleft' = [aleft EXCEPT !.copies = @ - 1])
      BY <1>1
    <3>4. QED
      BY <3>1, <3>2, <3>3 DEF LeftTyped
  <2>3. MemTyped(p)'
    <3>1. SUFFICES ASSUME NEW o \in 1 .. Len(mem')
                   PROVE  mem'[o].left <= mem'[o].size /\ mem'[o].raw \in [0 .. mem'[o].size - 1 -> RawBytes(p)]
      BY <1>10 DEF MemTyped
    <3>2. o \in 1 .. l \/ (Made /\ o = l + 1)
      BY <1>5, <1>10
    <3>3. CASE o \in 1 .. l
      BY <3>3, <1>3, <1>5, <1>10 DEF AssemblyTyped, MemTyped
    <3>4. CASE Made /\ o = l + 1
      BY <3>4, <1>4, <1>7, <1>10
    <3>5. QED
      BY <3>2, <3>3, <3>4
  <2>4. 1 .. Len(mem) \subseteq 1 .. Len(mem') /\ (Made => l + 1 \in 1 .. Len(mem'))
    BY <1>5, <1>10
  <2>5. TableTyped'
    BY <1>2, <1>3, <2>4 DEF AssemblyTyped, TableTyped
  <2>6. HandsPoint'
    <3>1. \A v \in Threads : v # w =>
            /\ awk'[v].pc \in Pointing => awk'[v].obj \in 1 .. Len(mem')
            /\ awk'[v].pc = "subtract" => awk'[v].rest <= mem'[awk'[v].obj].size
      BY <1>3, <1>5, <1>9, <1>10, <2>4 DEF AssemblyTyped, HandsPoint, Pointing
    <3>2. /\ awk'[w].pc \in Pointing => awk'[w].obj \in 1 .. Len(mem')
          /\ awk'[w].pc # "subtract"
      BY <1>11, <2>4 DEF Pointing
    <3>3. QED
      BY <3>1, <3>2 DEF HandsPoint
  <2>7. QED
    BY <1>2, <1>3, <1>9, <2>1, <2>2, <2>3, <2>5, <2>6 DEF AssemblyTyped
<1>13. ASSUME ~mixed'
       PROVE  Unmixed(p)'
  <2>1. /\ Unmixed(p) /\ net' = net \ {f} /\ UNCHANGED aleft /\ ~mixed
        /\ \A s \in seen : s[2] = f.id => s[1] = f.of
    BY <1>1, <1>13 DEF Going, AssemblyInv
  <2>2. Waiting' = Waiting /\ QueueOnce'
    BY <1>2, <2>1 DEF Waiting, Unmixed, QueueOnce
  <2>3. \A of \in PacketNames(p) : \A k \in 0 .. End(p, of) : \A x :
          Place(x, p, of, k)' /\ ~Place(x, p, of, k) => x = <<"hand", w>> /\ of = f.of /\ k = f.fragno
    BY <1>9, <1>11, <2>1, <2>2 DEF Place
  <2>4. Place(<<"net", f>>, p, f.of, f.fragno) /\ ~Place(<<"net", f>>, p, f.of, f.fragno)'
    BY <1>1, <2>1 DEF Place
  <2>5. Moved(p, <<"net", f>>)
    BY <2>3, <2>4 DEF Moved
  <2>6. OnePlace(p)' /\ FinishedStay(p)
    BY <2>1, <2>5, PlacesMove DEF Unmixed
  <2>7. SeenOnce'
    <3>1. \A s, t \in seen : s[2] = t[2] => s[1] = t[1]
      BY <2>1 DEF Unmixed, SeenOnce
    <3>2. PICK n : n = <<f.of, f.id>>
      OBVIOUS
    <3>3. n[1] = f.of /\ n[2] = f.id /\ seen' = seen \cup {n}
      BY <3>2, <1>1
    <3>4. QED
      BY <2>1, <3>1, <3>3 DEF SeenOnce
  <2>8. HeldSeen'
    <3>1. \A v \in Threads : v # w /\ awk'[v].pc \in InHands => <<awk'[v].f.of, awk'[v].f.id>> \in seen'
      BY <1>1, <1>9, <2>1 DEF Unmixed, HeldSeen
    <3>2. awk'[w].pc \in InHands => <<awk'[w].f.of, awk'[w].f.id>> \in seen'
      BY <1>1, <1>11 DEF InHands
    <3>3. QED
      BY <3>1, <3>2 DEF HeldSeen
  <2>9. A!BytesInPlace'
    BY <1>1, <1>2, <2>1 DEF Unmixed, A!BytesInPlace
  <2>10. \A of, C : of \in PacketNames(p) /\ Past(p, of, C) => Past(p, of, C)'
    BY <2>6 DEF Past, FinishedStay
  <2>11. \A o \in 1 .. l : \A of, C, n : Counted(p, o, of, C, n) => Counted(p, o, of, C, n)'
    <3>1. \A o \in 1 .. l : \A of, k : Filled(p, o, of, k)' <=> Filled(p, o, of, k)
      BY <1>10 DEF Filled
    <3>2. QED
      BY <3>1 DEF Counted
  <2>12. \A v \in Threads : awk'[v].pc \in {"copy", "subtract", "test", "assembled", "remove"} => awk'[v] = awk[v]
    BY <1>9, <1>11
  <2>13. \A v \in Threads : awk[v].pc \in Pointing => awk[v].obj \in 1 .. l /\ awk[v].f \in FragmentsOf(p)
    BY <1>3, <1>5, HandFacts DEF AssemblyTyped, HandsPoint, Pointing, InHands
  <2>14. ASSUME NEW o \in 1 .. l, NEW s \in seen, Owned(p, o, s)
         PROVE  Owned(p, o, s)'
    <3>1. s[1] \in PacketNames(p) /\ mem'[o].size = Size(p, s[1])
      BY <1>10, <2>14 DEF Owned
    <3>2. Referred(o, s)'
      BY <1>2, <2>14 DEF Owned, Referred
    <3>3. UsedFor(o, s)'
      <4>1. SUFFICES ASSUME NEW v \in Threads, awk'[v].pc \in Pointing, awk'[v].obj = o
                     PROVE  awk'[v].f.of = s[1] /\ awk'[v].f.id = s[2]
        BY DEF UsedFor
      <4>2. l + 1 # o
        BY <1>5
      <4>3. v # w
        BY <1>11, <4>1, <4>2 DEF Pointing
      <4>4. QED
        BY <4>1, <4>3, <1>9, <2>14 DEF Owned, UsedFor
    <3>4. Counts(p, o, s[1])'
      BY <1>10, <2>10, <2>11, <2>14, <3>1 DEF Owned, Counts
    <3>5. AllPast(p, s[1]) => AllPast(p, s[1])'
      BY <2>6, <3>1 DEF AllPast, FinishedStay
    <3>6. NotFinishing(o) => NotFinishing(o)'
      BY <2>12 DEF NotFinishing, Finishing
    <3>7. Freed(p, o, s[1])'
      BY <1>10, <2>14, <3>5, <3>6, HistoryExcuses DEF Owned, Freed
    <3>8. QED
      BY <3>1, <3>2, <3>3, <3>4, <3>7 DEF Owned
  <2>15. ASSUME Made, NEW s, s = <<f.of, f.id>>
         PROVE  Owned(p, l + 1, s)'
    <3>1. PICK o : o = l + 1
      OBVIOUS
    <3>2. o \in Nat /\ o \notin 1 .. l
      BY <3>1, <1>5
    <3>3. /\ mem'[o] = r /\ r.size = Size(p, f.of) /\ r.left = Size(p, f.of) /\ r.live
          /\ s[1] = f.of /\ s[2] = f.id /\ Size(p, f.of) \in Nat
      BY <1>4, <1>7, <1>10, <2>15, <3>1, PacketSizes DEF Made
    <3>4. Referred(o, s)'
      BY <1>2, <1>3, <1>5, <3>2, AssemblyAssumption DEF Referred, AssemblyTyped, TableTyped, A!AssemblyParameters
    <3>5. UsedFor(o, s)'
      <4>1. SUFFICES ASSUME NEW v \in Threads, awk'[v].pc \in Pointing, awk'[v].obj = o
                     PROVE  awk'[v].f = f
        BY <3>3 DEF UsedFor
      <4>2. v = w
        BY <4>1, <3>2, <1>9, <2>13
      <4>3. QED
        BY <4>1, <4>2, <1>11 DEF Pointing
    <3>6. Counts(p, o, f.of)'
      <4>1. Past(p, f.of, {})'
        BY DEF Past
      <4>2. Total(p, f.of, {}) = 0
        BY <1>4, TotalAdd
      <4>3. Counted(p, o, f.of, {}, r.left)'
        BY <3>3, <4>2 DEF Counted
      <4>4. QED
        BY <4>1, <4>3, <3>3 DEF Counts
    <3>7. Freed(p, o, f.of)'
      BY <3>3 DEF Freed
    <3>8. Owned(p, o, s)'
      BY <1>4, <3>3, <3>4, <3>5, <3>6, <3>7 DEF Owned
    <3>9. QED
      BY <3>1, <3>8
  <2>16. ObjectsOwned(p)'
    <3>1. SUFFICES ASSUME NEW o \in 1 .. Len(mem') PROVE \E s \in seen' : Owned(p, o, s)'
      BY DEF ObjectsOwned
    <3>2. o \in 1 .. l \/ (Made /\ o = l + 1)
      BY <1>5, <1>10
    <3>3. CASE o \in 1 .. l
      BY <3>3, <1>1, <1>5, <2>1, <2>14 DEF Unmixed, ObjectsOwned
    <3>4. CASE Made /\ o = l + 1
      BY <3>4, <1>1, <2>15
    <3>5. QED
      BY <3>2, <3>3, <3>4
  <2>17. SubtractKnows(p)'
    <3>1. SUFFICES ASSUME NEW v \in Threads, awk'[v].pc = "subtract" PROVE Knows(p, v)'
      BY DEF SubtractKnows
    <3>2. awk'[v] = awk[v] /\ awk[v].pc = "subtract" /\ Knows(p, v)
      BY <2>1, <2>12, <3>1 DEF Unmixed, SubtractKnows
    <3>3. awk[v].obj \in 1 .. l /\ awk[v].f.of \in PacketNames(p)
      BY <2>13, <3>2 DEF Pointing, FragmentsOf
    <3>4. QED
      BY <2>10, <2>11, <3>2, <3>3 DEF Knows
  <2>18. AssembledFull(p)'
    <3>1. SUFFICES ASSUME NEW v \in Threads, awk'[v].pc = "assembled",
                          NEW o, o = awk'[v].obj, NEW of, of = awk'[v].f.of
                   PROVE  Full(p, o, of)'
      BY DEF AssembledFull
    <3>2. awk'[v] = awk[v] /\ awk[v].pc = "assembled" /\ Full(p, o, of)
      BY <2>1, <2>12, <3>1 DEF Unmixed, AssembledFull
    <3>3. o \in 1 .. l /\ of \in PacketNames(p)
      BY <2>13, <3>1, <3>2 DEF Pointing, FragmentsOf
    <3>4. \A k : Filled(p, o, of, k)' <=> Filled(p, o, of, k)
      BY <1>10, <3>3 DEF Filled
    <3>5. QED
      BY <2>6, <3>2, <3>3, <3>4 DEF Full, FinishedStay
  <2>19. FinishingOnce'
    BY <2>1, <2>12 DEF Unmixed, FinishingOnce, Finishing, HistoryKept
  <2>20. QED
    BY <2>2, <2>6, <2>7, <2>8, <2>9, <2>16, <2>17, <2>18, <2>19 DEF Unmixed
<1>14. A!FaultExplained'
  BY <1>2 DEF Going, A!FaultExplained
<1>15. QED
  BY <1>12, <1>13, <1>14 DEF AssemblyInv

(* What a peer sends are the fragments of its packet, each once.           *)
LEMMA PiecesApart ==
  ASSUME NEW p \in Plans, NEW c \in p.packets
  PROVE  /\ A!Pieces(c) \subseteq FragmentsOf(p)
         /\ \A f, g \in A!Pieces(c) : f.of = c.of /\ (f.fragno = g.fragno => f = g)
<1> DEFINE end == (c.len - 1) \div FragSz
           Piece(k) == A!Fragment(c.of, c.id, c.len, k, k = end,
                                  IF k = end THEN c.len - k * FragSz ELSE FragSz)
<1>1. c \in Whole(p) /\ c.of \in PacketNames(p) /\ c.id \in 1 .. MaxId /\ c.len \in Nat
  BY AssemblyAssumption DEF A!AssemblyParameters, A!PlanParameters, Whole, PacketNames
<1>2. Size(p, c.of) = c.len /\ FragSz \in Nat \ {0}
  BY <1>1, PacketSizes, AssemblyAssumption DEF A!AssemblyParameters
<1>3. A!Pieces(c) = {Piece(k) : k \in 0 .. end}
  BY DEF A!Pieces
<1>4. c.len = 0 => end < 0
  <2>1. SUFFICES ASSUME c.len = 0 PROVE end < 0
    OBVIOUS
  <2>2. PICK q : q = (-1) \div FragSz
    OBVIOUS
  <2>3. end = q
    BY <2>1, <2>2
  <2>4. -1 \in Int /\ FragSz \in Nat \ {0}
    BY <1>2
  <2>5. q \in Int /\ (-1) % FragSz \in 0 .. FragSz - 1 /\ (-1) % FragSz = -1 - FragSz * q
    BY <2>2, <2>4, Division
  <2>6. PICK m : m = (-1) % FragSz
    OBVIOUS
  <2>7. PICK Q : Q = q * FragSz
    OBVIOUS
  <2>8. Q \in Int /\ (q >= 0 => Q >= 0) /\ FragSz * q = Q
    BY <2>5, <2>7, <1>2, Products
  <2>9. m >= 0 /\ m \in Int /\ m = -1 - Q
    BY <2>5, <2>6, <2>8, <1>2
  <2>10. QED
    BY <2>3, <2>5, <2>8, <2>9
<1>5. c.len # 0 => end = End(p, c.of)
  BY <1>2 DEF End
<1>6. end \in Int
  <2>1. c.len - 1 \in Int /\ FragSz \in Nat \ {0}
    BY <1>1, <1>2
  <2>2. QED
    BY <2>1, Division
<1> HIDE DEF end
<1>7. ASSUME NEW k \in 0 .. end
      PROVE  /\ Piece(k) \in FragmentsOf(p) /\ Piece(k).of = c.of /\ Piece(k).fragno = k
  <2>1. c.len # 0 /\ k \in 0 .. End(p, c.of) /\ end = End(p, c.of) /\ k \in Nat
    BY <1>1, <1>4, <1>5, <1>6, <1>7
  <2>2. k * FragSz \in Nat
    BY <2>1, <1>1, FragmentShape
  <2>3. PICK n \in Int : n = IF k = end THEN c.len - k * FragSz ELSE FragSz
    BY <2>2, <1>1, <1>2
  <2>4. PICK b \in BOOLEAN : b = (k = end)
    OBVIOUS
  <2>5. PICK f : f = [of |-> c.of, id |-> c.id, size |-> c.len, fragno |-> k, last |-> b, n |-> n]
    OBVIOUS
  <2>6. Piece(k) = f
    BY <2>3, <2>4, <2>5 DEF A!Fragment
  <2>7. /\ f \in [of : PacketNames(p), id : 1 .. MaxId, size : Nat, fragno : Nat, last : BOOLEAN, n : Int]
        /\ f.of = c.of /\ f.fragno = k /\ f.size = c.len /\ f.last = b
    BY <2>1, <2>5, <1>1
  <2>8. f \in FragmentsOf(p)
    BY <2>1, <2>4, <2>7, <1>2 DEF FragmentsOf
  <2> HIDE DEF Piece
  <2>9. QED
    BY <2>6, <2>7, <2>8
<1> HIDE DEF Piece
<1>8. QED
  BY <1>3, <1>7

LEMMA InitAssembly ==
  ASSUME A!Init
  PROVE  \E p \in Plans : AssemblyInv(p)
<1>1. PICK p \in Plans : p = aleft
  BY DEF A!Init
<1>2. /\ net = UNION {A!Pieces(c) : c \in p.packets}
      /\ aqueue = <<>> /\ lastid = 0 /\ atable = [id \in 1 .. MaxId |-> None] /\ mem = <<>> /\ out = {}
      /\ awk = [w \in Threads |-> A!Idle] /\ seen = {} /\ mixed = FALSE /\ afault = "none"
  BY <1>1 DEF A!Init
<1>3. \A w \in Threads : awk[w] = A!Idle /\ awk[w].pc = "idle"
  BY <1>2 DEF A!Idle
<1>4. A!PlanParameters(p) /\ QueueSize \in Nat /\ MaxId \in Nat
  BY AssemblyAssumption DEF A!AssemblyParameters
<1>5. AssemblyTyped(p)
  <2>1. net \subseteq FragmentsOf(p)
    BY <1>2, PiecesApart
  <2>2. LeftTyped(p)
    <3>1. p = [chunks |-> p.chunks, packets |-> p.packets, copies |-> p.copies, passes |-> p.passes]
          /\ p.copies \in Nat /\ p.passes \in Nat
      BY <1>4 DEF A!PlanParameters
    <3>3. p \in [chunks : SUBSET p.chunks, packets : {p.packets}, copies : Nat, passes : Nat]
      BY <3>1
    <3>4. QED
      BY <3>3, <1>1 DEF LeftTyped
  <2>3. MemTyped(p) /\ TableTyped
    BY <1>2 DEF MemTyped, TableTyped
  <2>4. HandsTyped(p) /\ HandsPoint
    BY <1>2, <1>3 DEF HandsTyped, HandsPoint, Pointing
  <2>5. aqueue \in Seq(ChunksOf(p)) /\ Len(aqueue) <= QueueSize /\ lastid \in 0 .. MaxId
    BY <1>2, <1>4
  <2>6. QED
    BY <2>1, <2>2, <2>3, <2>4, <2>5 DEF AssemblyTyped
<1>6. Unmixed(p)
  <2>1. Waiting = {} /\ QueueOnce
    BY <1>2 DEF Waiting, QueueOnce
  <2>2. OnePlace(p)
    <3>1. SUFFICES ASSUME NEW of, NEW k, NEW x, NEW y, Place(x, p, of, k), Place(y, p, of, k)
                   PROVE  x = y
      BY DEF OnePlace
    <3>2. \A z : Place(z, p, of, k) =>
            \/ \E c \in p.chunks : z = <<"left", c>> /\ c.of = of
            \/ \E c \in p.packets : \E f \in A!Pieces(c) :
                 z = <<"net", f>> /\ f.of = of /\ c.of = of /\ f.fragno = k
      BY <1>1, <1>2, <1>3, <2>1, PiecesApart DEF Place
    <3>3. /\ \A c, d \in p.chunks \cup p.packets : c.of = d.of => c = d
          /\ p.chunks \cap p.packets = {}
      BY <1>4 DEF A!PlanParameters
    <3>4. CASE \E c \in p.chunks : c.of = of
      BY <3>1, <3>2, <3>3, <3>4
    <3>5. CASE ~\E c \in p.chunks : c.of = of
      <4>1. PICK c \in p.packets : \E f \in A!Pieces(c) : x = <<"net", f>> /\ c.of = of /\ f.fragno = k
        BY <3>1, <3>2, <3>5
      <4>2. PICK d \in p.packets : \E f \in A!Pieces(d) : y = <<"net", f>> /\ d.of = of /\ f.fragno = k
        BY <3>1, <3>2, <3>5
      <4>3. c = d
        BY <4>1, <4>2, <3>3
      <4>4. QED
        BY <4>1, <4>2, <4>3, PiecesApart
    <3>6. QED
      BY <3>4, <3>5
  <2>3. SeenOnce /\ HeldSeen /\ ObjectsOwned(p) /\ A!BytesInPlace
    BY <1>2, <1>3 DEF SeenOnce, HeldSeen, ObjectsOwned, A!BytesInPlace, InHands
  <2>4. SubtractKnows(p) /\ AssembledFull(p) /\ FinishingOnce
    BY <1>3 DEF SubtractKnows, AssembledFull, FinishingOnce, Finishing
  <2>5. QED
    BY <2>1, <2>2, <2>3, <2>4 DEF Unmixed
<1>7. A!FaultExplained
  BY <1>2 DEF A!FaultExplained
<1>8. QED
  BY <1>5, <1>6, <1>7 DEF AssemblyInv

LEMMA HistoryStays ==
  ASSUME A!Next
  PROVE  HistoryKept /\ (A!Meeting(awk') => met')
<1>1. met' = (met \/ A!Meeting(awk'))
  BY DEF A!Next
<1>2. ASSUME NEW c, A!Submit(c) PROVE collected => collected'
  BY <1>2, Zenon DEF A!Submit
<1>3. ASSUME NEW w, A!TakeChunk(w) \/ A!Receive(w) PROVE collected => collected'
  BY <1>3, Zenon DEF A!TakeChunk, A!Receive
<1>4. ASSUME NEW w, A!Step(w) PROVE collected => collected'
  <2>1. ASSUME A!Disassemble(w) \/ A!Set(w) \/ A!Get(w) \/ A!Copy(w) PROVE collected => collected'
    BY <2>1, Zenon DEF A!Disassemble, A!Set, A!Get, A!Copy
  <2>2. ASSUME A!Subtract(w) \/ A!Test(w) \/ A!Assembled(w) \/ A!Forget(w) PROVE collected => collected'
    BY <2>2, Zenon DEF A!Subtract, A!Test, A!Assembled, A!Forget
  <2>3. QED
    BY <1>4, <2>1, <2>2, Zenon DEF A!Step
<1>5. ASSUME A!Pass \/ A!PassRemoves PROVE collected => collected'
  BY <1>5, Zenon DEF A!Pass, A!PassRemoves
<1>6. collected => collected'
  BY <1>2, <1>3, <1>4, <1>5, Zenon DEF A!Next
<1>7. QED
  BY <1>1, <1>6, Zenon DEF HistoryKept

LEMMA StepAssembly ==
  ASSUME NEW p \in Plans, AssemblyInv(p), [A!Next]_(A!vars)
  PROVE  AssemblyInv(p)'
<1>1. CASE UNCHANGED A!vars
  <2>1. /\ UNCHANGED <<aqueue, lastid, net, atable, mem, out, awk, seen, mixed, aleft, afault, collected, met>>
        /\ HistoryKept
    BY <1>1 DEF A!vars, A!chunks, A!packets, A!history, HistoryKept
  <2>2. AssemblyTyped(p)'
    BY <2>1 DEF AssemblyInv, AssemblyTyped, LeftTyped, MemTyped, TableTyped, HandsTyped, HandsPoint
  <2>3. A!FaultExplained'
    BY <2>1 DEF AssemblyInv, A!FaultExplained
  <2>4. ASSUME Unmixed(p) PROVE Unmixed(p)'
    <3>1. OnePlace(p)' /\ QueueOnce' /\ FinishedStay(p)
      BY <2>1, <2>4, NothingMoves DEF Unmixed
    <3>2. EntriesRight(p) /\ FoundRight(p)
      BY <2>1 DEF EntriesRight, FoundRight
    <3>3. QED
      BY <2>1, <2>4, <3>1, <3>2, MemoryStays DEF AssemblyInv, AssemblyTyped
  <2>5. QED
    BY <2>1, <2>2, <2>3, <2>4 DEF AssemblyInv
<1>2. CASE A!Next
  <2>1. Going(p) /\ HistoryKept /\ (A!Meeting(awk') => met')
    BY <1>2, HistoryStays DEF Going, A!Next
  <2>2. ASSUME NEW c \in aleft.chunks, A!Submit(c) PROVE AssemblyInv(p)'
    BY <2>1, <2>2, SubmitChunkKeeps
  <2>3. ASSUME NEW w \in Threads, A!TakeChunk(w) \/ A!Receive(w) \/ A!Step(w) PROVE AssemblyInv(p)'
    <3>1. CASE A!TakeChunk(w)
      BY <2>1, <3>1, TakeChunkKeeps
    <3>2. CASE A!Receive(w)
      BY <2>1, <3>2, ReceiveKeeps
    <3>3. CASE A!Disassemble(w)
      BY <2>1, <3>3, DisassembleKeeps
    <3>4. CASE A!Set(w)
      BY <2>1, <3>4, SetKeeps
    <3>5. CASE A!Get(w)
      BY <2>1, <3>5, GetKeeps
    <3>6. CASE A!Copy(w)
      BY <2>1, <3>6, CopyKeeps
    <3>7. CASE A!Subtract(w)
      BY <2>1, <3>7, SubtractKeeps
    <3>8. CASE A!Test(w)
      BY <2>1, <3>8, TestKeeps
    <3>9. CASE A!Assembled(w)
      BY <2>1, <3>9, AssembledKeeps
    <3>10. CASE A!Forget(w)
      BY <2>1, <3>10, ForgetKeeps
    <3>11. QED
      BY <2>3, <3>1, <3>2, <3>3, <3>4, <3>5, <3>6, <3>7, <3>8, <3>9, <3>10 DEF A!Step
  <2>4. CASE A!Pass
    BY <2>1, <2>4, PassKeeps
  <2>5. CASE A!PassRemoves
    BY <2>1, <2>5, PassRemovesKeeps
  <2>6. QED
    BY <1>2, <2>2, <2>3, <2>4, <2>5 DEF A!Next
<1>3. QED
  BY <1>1, <1>2

LEMMA AssemblyInvSound ==
  ASSUME NEW p \in Plans, AssemblyInv(p)
  PROVE  AssemblySound
<1>1. A!TypeOK
  BY DEF AssemblyInv, AssemblyTyped, TableTyped, MemTyped, A!TypeOK
<1>2. A!BytesInPlace
  BY DEF AssemblyInv, Unmixed, A!BytesInPlace
<1>3. QED
  BY <1>1, <1>2 DEF AssemblySound, AssemblyInv

(* Whatever the order of the fragments and however many consumers put them *)
(* together, a packet that is handed on has each byte in its place, and no *)
(* memory is used after it was freed or written beyond its end but where a *)
(* fragment or an id comes twice; or, for the former, the collection has   *)
(* run or two consumers were between writing what is left of a packet and  *)
(* reading it again.                                                       *)
THEOREM AssemblyAlwaysSound == ExtrasSpec => []AssemblySound
<1> DEFINE AInv == \E p \in Plans : AssemblyInv(p)
<1>1. ExtrasInit => AInv
  BY InitAssembly DEF ExtrasInit
<1>2. AInv /\ [ExtrasNext]_all => AInv'
  <2>1. [ExtrasNext]_all => [A!Next]_(A!vars)
    BY DEF ExtrasNext, all, assembly, A!vars, A!chunks, A!packets, A!history
  <2>2. QED
    BY <2>1, StepAssembly
<1>3. AInv => AssemblySound
  BY AssemblyInvSound
<1>4. QED
  BY <1>1, <1>2, <1>3, PTL DEF ExtrasSpec
=============================================================================
