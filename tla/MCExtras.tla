------------------------------ MODULE MCExtras ------------------------------
(***************************************************************************)
(* Instances of the procedures and of three modules of src/src/extras for  *)
(* TLC: packet assembly, Lua macros, and the adapters for writing and for  *)
(* pipes.  They share nothing, so a behaviour is one of a single component *)
(* that is chosen at the start; the others stay as they began.             *)
(***************************************************************************)
EXTENDS Procedures

CONSTANTS t1, t2, pa, pb, pd, None, QueueSize,
          FragSz, FirstHeader, Header, MaxId, Expire, Garbage, Plans,   (* of Assembly  *)
          Types, MacroNumbers, All, Directories, Budget,                (* of LuaMacros *)
          Requests, Length, Pipes, Splices                              (* of Adapters  *)

VARIABLES part,
          aqueue, lastid, net, atable, mem, awk, doomed, out, done, alost, seen, mixed,
          collected, met, aleft, afault,
          phase, files, loaded, names, pcds, sound, mutex, lstack, lleft, kept, nested, lfault,
          rqueue, rest, rwk, wire, ended, failed, rlost, pips, at, open, given, rleft

(* The functions call higher numbers only.                                 *)
Upwards == {<<1, 2>>, <<1, 3>>, <<2, 3>>}

(* Two chunks; two packets; one with a copy; a packet beside a chunk with  *)
(* its id; a packet that is collected.                                     *)
Plan(chs, pks, cps, pss) == [chunks |-> chs, packets |-> pks, copies |-> cps, passes |-> pss]
Chunk(of, len) == [of |-> of, len |-> len]
Packet(of, id, len) == [of |-> of, id |-> id, len |-> len]
SixPlans ==
  {Plan({Chunk(pa, 2), Chunk(pb, 5)}, {}, 0, 0), Plan({Chunk(pb, 5), Chunk(pd, 4)}, {}, 0, 0),
   Plan({}, {Packet(pa, 1, 3), Packet(pb, 2, 4)}, 0, 0), Plan({}, {Packet(pa, 1, 4)}, 1, 0),
   Plan({Chunk(pd, 4)}, {Packet(pa, 1, 4)}, 0, 0), Plan({}, {Packet(pa, 1, 5)}, 0, 2)}

A == INSTANCE Assembly
       WITH Workers <- Threads, queue <- aqueue, table <- atable, wk <- awk, lost <- alost, left <- aleft, fault <- afault
assembly == <<aqueue, lastid, net, atable, mem, awk, doomed, out, done, alost, seen, mixed,
              collected, met, aleft, afault>>

(* A macro for the types it lists and one for every event; procedures of   *)
(* one number; a file without a table, one without a main function, one    *)
(* that fails.                                                             *)
Macro(name, pcd, kind, arr) ==
  [name |-> name, table |-> TRUE, fails |-> FALSE, main |-> TRUE, pcd |-> pcd, kind |-> kind, arr |-> arr]
FourDirectories ==
  {<<Macro("m1", None, "table", <<1, 2>>), Macro("m2", None, "other", <<>>), Macro("m3", 1, "nil", <<>>)>>,
   <<Macro("m1", None, "table", <<1, 2, 3>>), Macro("m2", None, "number", <<2>>)>>,
   <<Macro("m1", 1, "nil", <<>>), [Macro("m2", None, "number", <<1>>) EXCEPT !.main = FALSE],
     [Macro("m3", None, "number", <<1>>) EXCEPT !.table = FALSE], Macro("m4", 1, "number", <<1>>)>>,
   <<Macro("m1", None, "nil", <<>>), [Macro("m2", 1, "nil", <<>>) EXCEPT !.fails = TRUE]>>}

SomeCalls == [events |-> 2, procs |-> 2, drops |-> 1]

L == INSTANCE LuaMacros
       WITH Numbers <- MacroNumbers, stack <- lstack, left <- lleft, fault <- lfault
macros == <<phase, files, loaded, names, pcds, sound, mutex, lstack, lleft, kept, nested, lfault>>

SixPipes == 0 .. 5

R == INSTANCE Adapters
       WITH Workers <- Threads, queue <- rqueue, wk <- rwk, lost <- rlost, left <- rleft
adapters == <<rqueue, rest, rwk, wire, ended, failed, rlost, pips, at, open, given, rleft>>

ASSUME AssemblyAssumption == A!AssemblyParameters
ASSUME LuaMacrosAssumption == L!LuaMacrosParameters
ASSUME AdaptersAssumption == R!AdaptersParameters

(* What the other parts would choose is fixed.                             *)
ExtrasInit ==
  /\ part \in {"procedures", "assembly", "macros", "writes", "pipes"}
  /\ Init /\ A!Init /\ L!Init /\ R!Init
  /\ part = "assembly" \/ aleft = CHOOSE plan \in Plans : TRUE
  /\ part = "macros" \/ files = CHOOSE d \in Directories : TRUE
ExtrasNext ==
  /\ UNCHANGED part
  /\ \/ part = "procedures" /\ Next /\ UNCHANGED <<assembly, macros, adapters>>
     \/ part = "assembly" /\ A!Next /\ UNCHANGED <<vars, macros, adapters>>
     \/ part = "macros" /\ L!Next /\ UNCHANGED <<vars, assembly, adapters>>
     \/ part = "writes" /\ R!Next /\ UNCHANGED <<R!splicer, vars, assembly, macros>>
     \/ part = "pipes" /\ R!Next /\ UNCHANGED <<R!writes, vars, assembly, macros>>

(* The fairness of the modules.  Only one part moves, so that of a thread  *)
(* in a procedure and that of a thread in a macro are one condition.       *)
all == <<part, vars, assembly, macros, adapters>>
GoesOn(t, depth) ==
  \/ StepAt(t, depth) /\ UNCHANGED <<part, assembly, macros, adapters>>
  \/ depth = 1 /\ L!Running(t) /\ UNCHANGED <<part, vars, assembly, adapters>>
ExtrasFairness ==
  A!Fairness /\ \A t \in Threads, depth \in 1 .. MaxDepth : SF_all(GoesOn(t, depth))
ExtrasSpec == ExtrasInit /\ [][ExtrasNext]_all /\ ExtrasFairness

(* The Lua interpreter has one thread in it, and what is used after it was *)
(* freed, or freed twice, is a name of a macro for three types.            *)
MacrosSound == L!TypeOK /\ L!OneInside /\ L!FaultExplained

(* Calls of procedures and of macros return, with the exceptions that the  *)
(* modules name: Procedures!CallsEnd and LuaMacros!CallsReturn at once.    *)
InCall(t) == stack[t] # <<>> \/ lstack[t] # <<>>
CallsReturn == \A t \in Threads : InCall(t) ~> ~InCall(t) \/ fault \/ kept \/ nested

(* Packets are put together from their own bytes, and are used after they  *)
(* were freed, or written beyond their end, only where fragments or ids    *)
(* come twice, the collection has run, or two consumers finished a packet  *)
(* at once.                                                                *)
AssemblySound == A!TypeOK /\ A!BytesInPlace /\ A!FaultExplained
ChunksEnd == A!ChunksEnd

(* What is given to an adapter comes out once: requests reach one end and  *)
(* their bytes the wire, and pipes their caller or the kernel.             *)
HandedOnOnce == R!TypeOK /\ R!RequestsEndOnce /\ R!WrittenInOrder /\ R!NoPipeLeaks
=============================================================================
