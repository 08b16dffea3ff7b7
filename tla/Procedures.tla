----------------------------- MODULE Procedures -----------------------------
(***************************************************************************)
(* The procedures of cevf (src/src/cevf.c): entries registered under a     *)
(* number, that any thread calls, replaces or removes at run time.  Each   *)
(* of the three operations reads the table under its lock, releases it and *)
(* goes on with the entry; adding and removing free the old entry before   *)
(* they change the table.  The code has the table and the operations twice *)
(* (types t1 and t2, alike); this is one of them.                          *)
(*                                                                         *)
(* A thread has a stack of operations: a procedure's function may call,    *)
(* add and remove procedures itself.  fault records that a freed entry has *)
(* been used.  Bounds: MaxEntries entries, stacks of MaxDepth.             *)
(***************************************************************************)
EXTENDS Naturals, Sequences, FiniteSets

CONSTANTS Threads, NoThread,
          Numbers,         (* the numbers of procedures, cevf_pcdno_t       *)
          Synchronized,    (* those registered with synchronized set        *)
          MayCall,         (* <<m, n>>: m's function calls n                *)
          Changes,         (* operations used besides "exec"                *)
          MaxEntries, MaxDepth

ASSUME ProceduresAssumption ==
  /\ IsFiniteSet(Threads) /\ IsFiniteSet(Numbers)
  /\ Numbers \subseteq Nat /\ Synchronized \subseteq Numbers
  /\ MayCall \subseteq Numbers \X Numbers
  /\ NoThread \notin Threads
  /\ Changes \subseteq {"add", "rm"}
  /\ MaxEntries \in Nat /\ MaxDepth \in Nat
  /\ Cardinality(Numbers) <= MaxEntries

VARIABLES table,     (* the entry of a number, 0 for none                   *)
          made,      (* entries allocated so far: 1 .. made                 *)
          freed,     (* those freed                                         *)
          mut,       (* who holds the mutex of an entry                     *)
          stack,     (* the operations each thread is in, innermost last    *)
          live,      (* FALSE once cevf_deinit has freed the table          *)
          fault,     (* has a freed entry been used?                        *)
          overlap    (* history: has a change overlapped another operation  *)
                     (* on the same number?                                 *)

vars == <<table, made, freed, mut, stack, live, fault, overlap>>

Entries == 1 .. MaxEntries
Frames == [op : {"exec", "add", "rm"}, no : Numbers, entry : 0 .. MaxEntries,
           at : {"found", "in", "store"}]

(* One procedure per number is registered at the start, by initialisers.   *)
Init ==
  /\ made = Cardinality(Numbers)
  /\ table \in [Numbers -> 1 .. made] /\ \A m, n \in Numbers : m < n => table[m] < table[n]
  /\ freed = {}
  /\ mut = [e \in Entries |-> NoThread]
  /\ stack = [t \in Threads |-> <<>>]
  /\ live = TRUE /\ fault = FALSE /\ overlap = FALSE

Top(t) == stack[t][Len(stack[t])]
At(t, op, label) == stack[t] # <<>> /\ Top(t).op = op /\ Top(t).at = label
Push(t, f) == stack' = [stack EXCEPT ![t] = Append(@, f)]
Pop(t) == stack' = [stack EXCEPT ![t] = SubSeq(@, 1, Len(@) - 1)]
SetTop(t, f) == stack' = [stack EXCEPT ![t][Len(stack[t])] = f]

(* Use of an entry that has been freed: the program's behaviour is over.   *)
Fault == fault' = TRUE /\ UNCHANGED <<table, made, freed, mut, stack, live, overlap>>

InProgress == {p \in Threads \X (1 .. MaxDepth) : p[2] <= Len(stack[p[1]])}
Frame(p) == stack[p[1]][p[2]]
Overlaps(op, n) ==
  \E p \in InProgress : Frame(p).no = n /\ (op # "exec" \/ Frame(p).op # "exec")

(* The additions that have not allocated their entry yet.                  *)
Adding == {p \in InProgress : Frame(p).op = "add" /\ Frame(p).at = "found"}

(* Every operation starts with a lookup; it is over if it finds nothing,   *)
(* except that adding goes on.                                             *)
Begin(t, op, n) ==
  /\ live
  /\ Len(stack[t]) < MaxDepth
  /\ stack[t] # <<>> => Top(t).at = "in" /\ (op = "exec" => <<Top(t).no, n>> \in MayCall)
  /\ table[n] # 0 \/ op = "add"
  /\ op = "add" => made + Cardinality(Adding) < MaxEntries
  /\ Push(t, [op |-> op, no |-> n, entry |-> table[n], at |-> "found"])
  /\ overlap' = (overlap \/ Overlaps(op, n))
  /\ UNCHANGED <<table, made, freed, mut, live, fault>>
-----------------------------------------------------------------------------
(* Mutant: the mutex is not taken.                                         *)
EnterUnlocked(t) ==
  /\ At(t, "exec", "found")
  /\ SetTop(t, [Top(t) EXCEPT !.at = "in"])
  /\ UNCHANGED <<table, made, freed, mut, live, fault, overlap>>

(* _cevf_exec_procedure_t1, cevf_exec_procedure_t2.                        *)
Enter(t) ==
  /\ At(t, "exec", "found")
  /\ LET f == Top(t)
     IN  IF f.entry \in freed THEN Fault
         ELSE /\ f.no \in Synchronized => mut[f.entry] = NoThread
              /\ mut' = IF f.no \in Synchronized THEN [mut EXCEPT ![f.entry] = t] ELSE mut
              /\ SetTop(t, [f EXCEPT !.at = "in"])
              /\ UNCHANGED <<table, made, freed, live, fault, overlap>>

Leave(t) ==
  /\ At(t, "exec", "in")
  /\ LET f == Top(t)
     IN  IF f.entry \in freed THEN Fault
         ELSE /\ mut' = IF f.no \in Synchronized THEN [mut EXCEPT ![f.entry] = NoThread] ELSE mut
              /\ Pop(t)
              /\ UNCHANGED <<table, made, freed, live, fault, overlap>>

(* cevf_add_procedure_t1, _t2: a new entry, the old one is freed ...       *)
AddFree(t) ==
  /\ At(t, "add", "found")
  /\ IF Top(t).entry \in freed THEN Fault
     ELSE /\ made' = made + 1
          /\ freed' = IF Top(t).entry = 0 THEN freed ELSE freed \cup {Top(t).entry}
          /\ SetTop(t, [Top(t) EXCEPT !.at = "store", !.entry = made + 1])
          /\ UNCHANGED <<table, mut, live, fault, overlap>>

(* ... and then the table changed.                                         *)
AddStore(t) ==
  /\ At(t, "add", "store")
  /\ table' = [table EXCEPT ![Top(t).no] = Top(t).entry]
  /\ Pop(t)
  /\ UNCHANGED <<made, freed, mut, live, fault, overlap>>

(* cevf_rm_procedure_t1, _t2, in the same order.                           *)
RmFree(t) ==
  /\ At(t, "rm", "found")
  /\ IF Top(t).entry \in freed THEN Fault
     ELSE /\ freed' = freed \cup {Top(t).entry}
          /\ SetTop(t, [Top(t) EXCEPT !.at = "store"])
          /\ UNCHANGED <<table, made, mut, live, fault, overlap>>

(* Mutant: the number keeps its entry.                                     *)
RmStoreForgotten(t) ==
  /\ At(t, "rm", "store")
  /\ Pop(t)
  /\ UNCHANGED <<table, made, freed, mut, live, fault, overlap>>

RmStore(t) ==
  /\ At(t, "rm", "store")
  /\ table' = [table EXCEPT ![Top(t).no] = 0]
  /\ Pop(t)
  /\ UNCHANGED <<made, freed, mut, live, fault, overlap>>

(* cevf_deinit_m_pcdno_handler, when all threads have been joined.         *)
Deinit ==
  /\ live
  /\ \A t \in Threads : stack[t] = <<>>
  /\ LET left == {table[n] : n \in Numbers} \ {0}
     IN  IF left \cap freed # {} THEN Fault
         ELSE /\ freed' = freed \cup left
              /\ live' = FALSE
              /\ UNCHANGED <<table, made, mut, stack, fault, overlap>>

Step(t) == Enter(t) \/ Leave(t) \/ AddFree(t) \/ AddStore(t) \/ RmFree(t) \/ RmStore(t)

Next ==
  /\ ~fault
  /\ \/ \E t \in Threads :
          Step(t) \/ \E op \in Changes \cup {"exec"}, n \in Numbers : Begin(t, op, n)
     \/ Deinit

Spec == Init /\ [][Next]_vars

(* A thread in an operation goes on when it can, a function calls others   *)
(* only so often before it returns, and a mutex that is free again and     *)
(* again is got in the end.                                                *)
StepAt(t, d) == ~fault /\ Len(stack[t]) = d /\ Step(t)
Fairness == \A t \in Threads, d \in 1 .. MaxDepth : SF_vars(StepAt(t, d))
FairSpec == Spec /\ Fairness
-----------------------------------------------------------------------------
TypeOK ==
  /\ table \in [Numbers -> 0 .. made] /\ made \in 0 .. MaxEntries
  /\ freed \subseteq 1 .. made
  /\ mut \in [Entries -> Threads \cup {NoThread}]
  /\ stack \in [Threads -> Seq(Frames)] /\ \A t \in Threads : Len(stack[t]) <= MaxDepth
  /\ live \in BOOLEAN /\ fault \in BOOLEAN /\ overlap \in BOOLEAN

(* A freed entry is used only in a program that has changed a number while *)
(* another operation on it was in progress: adding and removing procedures *)
(* is safe for everybody who leaves the number alone meanwhile, whatever   *)
(* happens to the other numbers.                                           *)
FaultExplained == fault => overlap

(* In such a program no entry is lost: it is in the table, freed, or about *)
(* to be stored; and the end of the program frees what is left.            *)
NoLeak ==
  ~overlap =>
    \A e \in 1 .. made :
      \/ e \in freed
      \/ live /\ \E n \in Numbers : table[n] = e
      \/ \E p \in InProgress : Frame(p).op = "add" /\ Frame(p).entry = e

(* Nobody runs the function of a synchronized number while another thread  *)
(* does, unless the number was changed under a call.                       *)
Inside(t, n) == \E i \in 1 .. Len(stack[t]) :
                  stack[t][i].op = "exec" /\ stack[t][i].no = n /\ stack[t][i].at = "in"
OneInside ==
  ~overlap => \A n \in Synchronized, t, u \in Threads :
                Inside(t, n) /\ Inside(u, n) => t = u

(* Calling, adding and removing procedures is sound in every program that  *)
(* keeps changes of a number apart from other operations on it: no entry   *)
(* is used after it was freed, none is lost, and the mutex of a            *)
(* synchronized procedure keeps others out.                                *)
ProceduresSound == TypeOK /\ FaultExplained /\ NoLeak /\ OneInside

(* Every call ends if functions call numbers in one order only, so that no *)
(* two threads can wait for each other's synchronized procedures, nor one  *)
(* for its own.                                                            *)
Ordered == \A p \in MayCall : p[1] < p[2]
CallsEnd ==
  \A t \in Threads : Ordered /\ stack[t] # <<>> ~> (stack[t] = <<>> \/ fault)
=============================================================================
