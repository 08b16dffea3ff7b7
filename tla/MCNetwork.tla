----------------------------- MODULE MCNetwork -----------------------------
(***************************************************************************)
(* Instances of Eloop and of Sockets for TLC.  A behaviour is one of       *)
(* either, chosen at the start; the other one stays as it began.           *)
(***************************************************************************)
EXTENDS Eloop

CONSTANTS Servers, Conns, Workers, Own, FirstServer, QueueSize, Plans

VARIABLES part,
          stab, sfile, mem, fdof, conns, sockarr, input, gone, mq, loop, sevents, wk,
          sleft, overlap, helped, crossed, sfault

IntAndHup == <<"int", "hup">>

(* Two sockets in any order; another thread; timeouts; signals; handlers   *)
(* that register and unregister for ever.                                  *)
Calls(opens, regs, times, sig, others, terms, ticks) ==
  [opens |-> opens, socks |-> regs, timeouts |-> times, sigs |-> sig, others |-> others,
   terminates |-> terms, ticks |-> ticks, rows |-> IF regs < 0 THEN 2 ELSE 4]
SevenBudgets == {Calls(2, 2, 1, 0, 0, 0, 0), Calls(2, 3, 0, 0, 0, 0, 0), Calls(1, 2, 0, 0, 1, 0, 0),
                 Calls(1, 1, 0, 0, 1, 1, 0), Calls(1, 1, 2, 0, 0, 0, 1), Calls(1, 1, 0, 2, 0, 1, 0),
                 Calls(2, -1, 0, 0, 0, 0, 0)}

(* Connections closed by number beside files that workers open, and        *)
(* servers opened and closed.                                              *)
Procs(closes, owns, opens, closesrvs, sends, ends) ==
  [closes |-> closes, owns |-> owns, opens |-> opens, closesrvs |-> closesrvs, sends |-> sends,
   ends |-> ends]
FivePlans == {Procs(1, 1, 0, 0, 3, 2), Procs(0, 0, 1, 0, 2, 1), Procs(0, 0, 1, 1, 2, 0),
              Procs(0, 0, 1, 2, 1, 0), Procs(1, 0, 0, 1, 1, 1)}

K == INSTANCE Sockets
       WITH tab <- stab, file <- sfile, events <- sevents, left <- sleft, fault <- sfault,
            FdSlack <- 16, FirstEvents <- 8
ASSUME SocketsAssumption == K!SocketsParameters
servers == <<stab, sfile, mem, fdof, conns, sockarr, input, gone, mq, loop, sevents, wk,
             sleft, overlap, helped, crossed, sfault>>

(* What the other part would choose is fixed.                              *)
NetworkInit ==
  /\ part \in {"eloop", "sockets"} /\ Init /\ K!Init
  /\ IF part = "eloop" THEN sleft.sends = 3 ELSE left.sigs = 2
NetworkNext ==
  /\ UNCHANGED part
  /\ \/ part = "eloop" /\ Next /\ UNCHANGED servers
     \/ part = "sockets" /\ K!Next /\ UNCHANGED vars

(* The loop runs and its handlers return, time passes, and another thread  *)
(* finishes what it has begun; nothing is assumed of the workers.          *)
all == <<part, vars, servers>>
NetworkFairness ==
  LET Runs(A) == part = "eloop" /\ fault = "none" /\ A /\ UNCHANGED <<part, servers>>
  IN  /\ WF_all(Runs(LoopStep)) /\ WF_all(Runs(Tick)) /\ WF_all(Runs(OtherStores))
      /\ WF_all(part = "sockets" /\ sfault = "none" /\ K!LoopStep
                /\ overlap' \in BOOLEAN /\ crossed' \in BOOLEAN /\ UNCHANGED <<part, vars>>)
NetworkSpec == NetworkInit /\ [][NetworkNext]_all /\ NetworkFairness

(* Memory is used after it was freed, or past the end of a table, for the  *)
(* causes the modules name only: another thread that registers sockets,    *)
(* and descriptors or servers that are closed under a handler.             *)
FaultsExplained == TypeOK /\ FaultNeedsOthers /\ K!FaultExplained

(* Sockets that are ready and timeouts that are due are served in the end, *)
(* and of the timeouts it is the earliest that runs.                       *)
Served == FiresEarliest /\ ReadyServed /\ TimeoutsRun

(* A server is closed once, its list has its connections, and an open one  *)
(* is served.                                                              *)
ConnectionsSound == K!TypeOK /\ K!ServerClosedOnce /\ K!ConnsLinked /\ K!OpenConnServed
PeerGoneCloses == K!PeerGoneCloses
=============================================================================
