------------------------------ MODULE Sockets ------------------------------
(***************************************************************************)
(* The servers of src/src/extras/cevfm_tcpsrv.c and cevfm_usock.c, with    *)
(* the structures of srvctx.h, on the tables of the event loop.  The loop  *)
(* accepts and reads; the consumers of the events call the procedures that *)
(* close a connection and open or close a server, and open files of their  *)
(* own, all in one table of descriptors.                                   *)
(*                                                                         *)
(* No lock guards the tables of the loop.  A registration is three steps:  *)
(* the row is appended, the kernel told, the last row copied into fd_table *)
(* (eloop.c:365-385).  Threads that append and remove rows at once may     *)
(* also tear the array (Tears); apart from that a removal is one step.     *)
(*                                                                         *)
(* fault records memory used after it was freed ("freed"), freed twice     *)
(* ("double"), an entry of fd_table that was never written ("garbage"), or *)
(* a close that hits a file of somebody else ("foreign").  Bounds: Servers,*)
(* Conns, the descriptors, and the calls of a Plan; they are fewer than    *)
(* the arrays of the loop have room for, which do not move.                *)
(***************************************************************************)
EXTENDS EloopTables

CONSTANTS Servers,   (* struct srv_ctx_s, one for each name                 *)
          Conns,     (* struct srv_conn_ctx_s with its srvread_s            *)
          Workers,   (* consumer threads                                    *)
          Own,       (* a file that a worker opens                          *)
          FirstServer, QueueSize,
          Plans      (* records: the calls of each procedure, and of peers  *)

(* Servers, connections and files of workers are told apart.               *)
SocketsParameters ==
  /\ Servers \cap Conns = {} /\ IsFiniteSet(Conns) /\ FirstServer \in Servers
  /\ {None, Garbage, Own} \cap (Servers \cup Conns) = {} /\ Own # None
  /\ Fds # {} /\ QueueSize \in Nat

VARIABLES
  tab,       (* the tables of EloopTables, with objects for handlers        *)
  file,      (* what each descriptor stands for                             *)
  mem,       (* of each object: "none", "live" or "freed"                   *)
  fdof,      (* the descriptor an object holds                              *)
  conns,     (* srv->conns, the newest first                                *)
  sockarr,   (* the servers that can be found by name                       *)
  input,     (* the objects the peers have sent something to                *)
  gone,      (* the connections whose peers have closed                     *)
  mq,        (* the events: the connection they came from and its number    *)
  loop, events,   (* the step of the loop and the object it is about        *)
  wk,        (* the same for each worker, with the list it goes through     *)
  left,
  overlap,   (* history: was a server closed while a handler could run?     *)
  helped,    (* history: has a worker opened or closed any file?            *)
  crossed,   (* history: did two threads change the tables at once, or one  *)
             (* store what the loop was about to dispatch?                  *)
  fault

fds == <<tab, file>>
objects == <<mem, fdof, conns, sockarr>>
peers == <<input, gone>>
history == <<overlap, helped, crossed>>
vars == <<fds, objects, peers, mq, loop, events, wk, left, history, fault>>

At(pc) == loop.pc = pc
Loop(pc, obj) == loop' = [pc |-> pc, obj |-> obj]
Idle == [pc |-> "idle", obj |-> None, list |-> <<>>]
Worker(w, pc, obj, list) == wk' = [wk EXCEPT ![w] = [pc |-> pc, obj |-> obj, list |-> list]]
Spend(what) == left[what] > 0 /\ left' = [left EXCEPT ![what] = @ - 1]
Lowest(fd) == file[fd] = None /\ \A lower \in Fds : lower < fd => file[lower] # None

(* close and fd_close_handle by whoever takes fd for that of obj.          *)
Foreign(fd, obj) == file[fd] \notin {obj, None}
Free(obj) == mem' = [mem EXCEPT ![obj] = "freed"]
FaultIf(freed, double, foreign) ==
  fault' = IF freed THEN "freed" ELSE IF double THEN "double" ELSE IF foreign THEN "foreign" ELSE fault
CloseFd(fd) == file' = [file EXCEPT ![fd] = None] /\ tab' = Closed(tab, fd)
FdCloseHandle(fd) ==
  file' = [file EXCEPT ![fd] = None] /\ tab' = Closed(RemoveSock(tab, fd, "read"), fd)

(* A new object with a descriptor of its own, still to be registered.      *)
Opened(obj, fd) ==
  /\ file' = [file EXCEPT ![fd] = obj]
  /\ mem' = [mem EXCEPT ![obj] = "live"]
  /\ fdof' = [fdof EXCEPT ![obj] = fd]

(* The steps of cevf_register_sock; where the last one is not reached, as  *)
(* with an epoll set at its limit, the descriptor is closed and obj freed. *)
Appends(obj) == tab' = AddRow(tab, fdof[obj], "read", obj)
Watches(obj) ==
  /\ Queues(tab, fdof[obj], file[fdof[obj]] # None)
  /\ tab' = [tab EXCEPT !.watched[fdof[obj]] = "read"]
Refuses(obj) == CloseFd(fdof[obj]) /\ Free(obj) /\ FaultIf(FALSE, FALSE, Foreign(fdof[obj], obj))
Stores(obj) == tab' = Store(tab, fdof[obj], "read")
Registering == {"init", "queue", "store"}

Init ==
  LET fd == CHOOSE f \in Fds : \A g \in Fds : f <= g
  IN  /\ file = [f \in Fds |-> IF f = fd THEN FirstServer ELSE None]
      /\ tab = RegisterSock(EmptyTables, fd, "read", FirstServer, TRUE)
      /\ mem = [o \in Servers \cup Conns |-> IF o = FirstServer THEN "live" ELSE "none"]
      /\ fdof = [o \in Servers \cup Conns |-> IF o = FirstServer THEN fd ELSE 0]
      /\ conns = [s \in Servers |-> <<>>] /\ sockarr = {FirstServer}
      /\ input = {} /\ gone = {} /\ mq = <<>> /\ events = <<>>
      /\ loop = [pc |-> "poll", obj |-> None] /\ wk = [w \in Workers |-> Idle]
      /\ left \in Plans /\ overlap = FALSE /\ helped = FALSE
      /\ crossed = FALSE /\ fault = "none"
-----------------------------------------------------------------------------
(* The loop: epoll_wait, the check of `changed`, the dispatch.             *)
Ready == {fd \in Fds : file[fd] \in input \cup gone}

Poll ==
  /\ At("poll")
  /\ events' \in EventLists(tab, Ready)
  /\ tab' = [tab EXCEPT !.changed = FALSE]
  /\ Loop("check", None)
  /\ UNCHANGED <<file, objects, peers, mq, wk, left, helped, fault>>

Check ==
  /\ At("check")
  /\ IF tab.changed THEN Loop("poll", None) /\ events' = <<>>
     ELSE Loop("dispatch", None) /\ UNCHANGED events
  /\ UNCHANGED <<fds, objects, peers, mq, wk, left, helped, fault>>

Dispatch ==
  /\ At("dispatch")
  /\ IF events = <<>> THEN Loop("poll", None) /\ UNCHANGED <<events, fault>>
     ELSE LET h == tab.entry[Head(events)]
          IN  /\ events' = Tail(events)
              /\ IF h \in {None, Garbage}
                 THEN fault' = (IF h = Garbage THEN "garbage" ELSE fault) /\ UNCHANGED loop
                 ELSE /\ Loop(IF h \in Servers THEN "accept" ELSE "read", h)
                      /\ FaultIf(mem[h] = "freed", FALSE, FALSE)
  /\ UNCHANGED <<fds, objects, peers, mq, wk, left, helped>>

(* A handler returns.                                                      *)
Return ==
  /\ At("return")
  /\ IF tab.changed THEN Loop("poll", None) /\ events' = <<>>
     ELSE Loop("dispatch", None) /\ UNCHANGED events
  /\ UNCHANGED <<fds, objects, peers, mq, wk, left, helped, fault>>

(* The handler of a server: accept, which fails when nobody waits or there *)
(* is no descriptor left.                                                  *)
ConnHandler ==
  /\ At("accept")
  /\ LET s == loop.obj
         new == {x \in Fds \X Conns : Lowest(x[1]) /\ mem[x[2]] = "none"}
     IN  IF mem[s] = "freed" \/ file[fdof[s]] # s \/ s \notin input \/ new = {}
         THEN /\ Loop("return", None) /\ FaultIf(mem[s] = "freed", FALSE, FALSE)
              /\ UNCHANGED <<file, input, mem, fdof>>
         ELSE LET fd == (CHOOSE x \in new : TRUE)[1]  d == (CHOOSE x \in new : TRUE)[2]
              IN
              /\ Opened(d, fd)
              /\ input' = input \ {s}
              /\ loop' = [pc |-> "init", obj |-> d, srv |-> s] /\ UNCHANGED fault
  /\ UNCHANGED <<tab, conns, sockarr, gone, mq, events, wk, left, helped>>

(* *_server_sndrcv_init: register the connection, and link it; where the   *)
(* registration fails the handler closes the same number again.            *)
LoopGoes(pc) == loop' = [loop EXCEPT !.pc = pc]
SndRcvInit ==
  /\ \/ At("init") /\ Appends(loop.obj) /\ LoopGoes("queue")
        /\ FaultIf(mem[loop.srv] = "freed", FALSE, FALSE) /\ UNCHANGED <<file, mem>>
     \/ At("queue") /\ Watches(loop.obj) /\ LoopGoes("store") /\ UNCHANGED <<file, mem, fault>>
     \/ At("queue") /\ Refuses(loop.obj) /\ Loop("reclose", loop.obj)
     \/ At("store") /\ Stores(loop.obj) /\ LoopGoes("link") /\ UNCHANGED <<file, mem, fault>>
  /\ UNCHANGED <<fdof, conns, sockarr, peers, mq, events, wk, left, helped>>

Link ==
  /\ At("link")
  /\ conns' = [conns EXCEPT ![loop.srv] = <<loop.obj>> \o @]
  /\ FaultIf(mem[loop.srv] = "freed", FALSE, FALSE)
  /\ Loop("return", None)
  /\ UNCHANGED <<fds, mem, fdof, sockarr, peers, mq, events, wk, left, helped>>

Reclose ==
  /\ At("reclose")
  /\ CloseFd(fdof[loop.obj])
  /\ FaultIf(FALSE, FALSE, Foreign(fdof[loop.obj], loop.obj))
  /\ Loop("return", None)
  /\ UNCHANGED <<objects, peers, mq, events, wk, left, helped>>

(* Both events go into the queue softly: what does not fit is lost.        *)
Enqueued(e) == mq' = IF Len(mq) < QueueSize THEN Append(mq, e) ELSE mq

(* Mutant: the form of enqueue that waits for room.                        *)
ReadHandlerWaits ==
  /\ At("read") /\ Len(mq) < QueueSize
  /\ LET c == loop.obj  fd == fdof[c]
     IN  \/ /\ file[fd] = c /\ c \in input
            /\ input' = input \ {c} /\ Enqueued([conn |-> c, sd |-> fd])
            /\ Loop("return", None) /\ UNCHANGED <<fds, fault>>
         \/ /\ file[fd] = c /\ c \notin input /\ c \in gone
            /\ Enqueued([conn |-> c, sd |-> fd])
            /\ FdCloseHandle(fd)
            /\ Loop("erase", c) /\ UNCHANGED <<input, fault>>
  /\ UNCHANGED <<objects, gone, events, wk, left, helped>>

(* The handler of a connection: data, the end, or an error of read, as     *)
(* after a worker has closed it, on which nothing is done.  The sockets    *)
(* that accept returns block: a read of one with nothing there waits.      *)
ReadHandler ==
  /\ At("read")
  /\ LET c == loop.obj  fd == fdof[c]
     IN  \/ /\ file[fd] = c /\ c \in input
            /\ input' = input \ {c} /\ Enqueued([conn |-> c, sd |-> fd])
            /\ Loop("return", None) /\ UNCHANGED <<fds, fault>>
         \/ /\ file[fd] = c /\ c \notin input /\ c \in gone
            /\ Enqueued([conn |-> c, sd |-> fd])
            /\ FdCloseHandle(fd)
            /\ Loop("erase", c) /\ UNCHANGED <<input, fault>>
         \/ /\ file[fd] # c
            /\ FaultIf(mem[c] = "freed", FALSE, Foreign(fd, c))
            /\ Loop("return", None) /\ UNCHANGED <<fds, input, mq>>
  /\ UNCHANGED <<objects, gone, events, wk, left, helped>>

Unlinked(c) == [s \in Servers |-> RemoveFirst(conns[s], c)]

(* erase_srv_conn_ctx_s, which closes the descriptor once more, and looks  *)
(* for the connection in the list of its server.                           *)
Erase ==
  /\ At("erase")
  /\ LET c == loop.obj
     IN  /\ CloseFd(fdof[c])
         /\ FaultIf(\E s \in Servers : mem[s] = "freed" /\ Contains(conns[s], c),
                    mem[c] = "freed", Foreign(fdof[c], c))
         /\ conns' = Unlinked(c) /\ Free(c)
  /\ Loop("return", None)
  /\ UNCHANGED <<fdof, sockarr, peers, mq, events, wk, left, helped>>
-----------------------------------------------------------------------------
(* The workers.  One takes an event and may close the connection by the    *)
(* number it carries.                                                      *)
TakeEvent(w) ==
  /\ wk[w].pc = "idle" /\ mq # <<>>
  /\ mq' = Tail(mq)
  /\ \/ UNCHANGED <<wk, left>>
     \/ Spend("closes") /\ Worker(w, "close", Head(mq).conn, <<Head(mq).sd>>)
  /\ UNCHANGED <<fds, objects, peers, loop, events, helped, fault>>

CloseSock(w) ==
  /\ wk[w].pc = "close"
  /\ FdCloseHandle(Head(wk[w].list))
  /\ FaultIf(FALSE, FALSE, Foreign(Head(wk[w].list), wk[w].obj))
  /\ wk' = [wk EXCEPT ![w] = Idle] /\ helped' = TRUE
  /\ UNCHANGED <<objects, peers, mq, loop, events, left>>

OpenOwn(w) ==
  /\ wk[w].pc = "idle" /\ Spend("owns")
  /\ \E fd \in Fds : Lowest(fd) /\ file' = [file EXCEPT ![fd] = Own]
  /\ helped' = TRUE
  /\ UNCHANGED <<tab, objects, peers, mq, loop, events, wk, fault>>

(* usock_open_srvsock: a socket that listens already is registered.        *)
OpenSrvSock(w, s) ==
  /\ wk[w].pc = "idle" /\ mem[s] = "none" /\ Spend("opens")
  /\ \E fd \in Fds : Lowest(fd) /\ Opened(s, fd)
  /\ Worker(w, "init", s, <<>>) /\ helped' = TRUE
  /\ UNCHANGED <<tab, conns, sockarr, peers, mq, loop, events, fault>>
RegisterServer(w) ==
  LET s == wk[w].obj
      Goes(pc) == Worker(w, pc, s, <<>>) /\ UNCHANGED <<file, mem, fault>>
  IN  /\ \/ wk[w].pc = "init" /\ Appends(s) /\ Goes("queue")
         \/ wk[w].pc = "queue" /\ Watches(s) /\ Goes("store")
         \/ wk[w].pc = "queue" /\ Refuses(s) /\ wk' = [wk EXCEPT ![w] = Idle]
         \/ wk[w].pc = "store" /\ Stores(s) /\ Goes("found")
      /\ UNCHANGED <<fdof, conns, sockarr, peers, mq, loop, events, left, helped>>
Found(w) ==
  /\ wk[w].pc = "found"
  /\ sockarr' = sockarr \cup {wk[w].obj}
  /\ wk' = [wk EXCEPT ![w] = Idle]
  /\ UNCHANGED <<fds, mem, fdof, conns, peers, mq, loop, events, left, helped, fault>>

(* usock_close_srvsock: take the server out of the array, under the lock.  *)
TakeSrvSock(w, s) ==
  /\ wk[w].pc = "idle" /\ s \in sockarr /\ Spend("closesrvs")
  /\ sockarr' = sockarr \ {s}
  /\ Worker(w, "server", s, <<>>)
  /\ UNCHANGED <<fds, mem, fdof, conns, peers, mq, loop, events, helped, fault>>

(* Close it, ...                                                           *)
CloseServer(w) ==
  /\ wk[w].pc = "server"
  /\ LET s == wk[w].obj
     IN  /\ FdCloseHandle(fdof[s])
         /\ FaultIf(FALSE, mem[s] = "freed", Foreign(fdof[s], s))
         /\ Worker(w, "conns", s, conns[s])
  /\ helped' = TRUE
  /\ UNCHANGED <<objects, peers, mq, loop, events, left>>

(* ... free its connections, from the list as it was (a next that is read  *)
(* from a freed connection is a fault in any case) ...                     *)
FreeConn(w) ==
  /\ wk[w].pc = "conns" /\ wk[w].list # <<>>
  /\ LET c == Head(wk[w].list)
     IN  /\ CloseFd(fdof[c])
         /\ FaultIf(FALSE, mem[c] = "freed", Foreign(fdof[c], c))
         /\ conns' = Unlinked(c) /\ Free(c)
  /\ wk' = [wk EXCEPT ![w].list = Tail(@)]
  /\ UNCHANGED <<fdof, sockarr, peers, mq, loop, events, left, helped>>

(* ... and itself.                                                         *)
FreeServer(w) ==
  /\ wk[w].pc = "conns" /\ wk[w].list = <<>>
  /\ FaultIf(FALSE, mem[wk[w].obj] = "freed", FALSE)
  /\ Free(wk[w].obj)
  /\ wk' = [wk EXCEPT ![w] = Idle]
  /\ UNCHANGED <<fds, fdof, conns, sockarr, peers, mq, loop, events, left, helped>>

(* The peers: one connects, sends, or closes.                              *)
Peer(o) ==
  /\ \E fd \in Fds : file[fd] = o
  /\ \/ o \notin input /\ o \notin gone /\ Spend("sends") /\ input' = input \cup {o} /\ UNCHANGED gone
     \/ o \in Conns \ gone /\ Spend("ends") /\ gone' = gone \cup {o} /\ UNCHANGED input
  /\ UNCHANGED <<fds, objects, mq, loop, events, wk, helped, fault>>

(* The threads whose next step appends or removes a row.                   *)
WillClose(c) == file[fdof[c]] = c /\ c \in gone \ input
LoopChanges == loop.pc \in Registering \/ (At("read") /\ WillClose(loop.obj))
Changing == {w \in Workers : wk[w].pc \in Registering \cup {"close", "server"}}
Crossing ==
  \/ Cardinality(Changing) > 1
  \/ Changing # {} /\ LoopChanges
  \/ \E w \in Changing : wk[w].pc = "store" /\ fdof[wk[w].obj] \in ToSet(events)

(* One of them moves the array while another one reads or writes it.       *)
Tears ==
  /\ At("init") \/ \E w \in Changing : wk[w].pc = "init"
  /\ Cardinality(Changing) > 1 \/ (Changing # {} /\ LoopChanges)
  /\ fault' \in {"freed", "double"}
  /\ UNCHANGED <<fds, objects, peers, mq, loop, events, wk, left, helped>>

LoopStep ==
  \/ Poll \/ Check \/ Dispatch \/ Return
  \/ ConnHandler \/ SndRcvInit \/ Link \/ Reclose \/ ReadHandler \/ Erase
ClosesServer(w) == CloseServer(w) \/ FreeConn(w) \/ FreeServer(w)
WorkerStep(w) ==
  \/ TakeEvent(w) \/ CloseSock(w) \/ OpenOwn(w) \/ RegisterServer(w) \/ Found(w) \/ ClosesServer(w)
  \/ \E s \in Servers : OpenSrvSock(w, s) \/ TakeSrvSock(w, s)

(* The loop is anywhere but in its wait while a server is being closed.    *)
Overlaps(l, threads) ==
  l.pc # "poll" /\ \E w \in Workers : threads[w].pc \in {"server", "conns"}
Next ==
  /\ fault = "none"
  /\ \/ LoopStep \/ Tears
     \/ \E w \in Workers : WorkerStep(w)
     \/ \E o \in Servers \cup Conns : Peer(o)
  /\ overlap' = (overlap \/ Overlaps(loop, wk) \/ Overlaps(loop', wk'))
  /\ crossed' = (crossed \/ Crossing)

Fairness == WF_vars(fault = "none" /\ LoopStep /\ overlap' \in BOOLEAN /\ crossed' \in BOOLEAN)
Spec == Init /\ [][Next]_vars /\ Fairness
-----------------------------------------------------------------------------
TypeOK ==
  /\ \A fd \in Fds : file[fd] \in Servers \cup Conns \cup {Own, None}
  /\ mem \in [Servers \cup Conns -> {"none", "live", "freed"}]
  /\ sockarr \subseteq Servers /\ Len(mq) <= QueueSize
  /\ fault \in {"none", "freed", "double", "garbage", "foreign"}

(* Memory is freed twice, used after that or before it was written only if *)
(* a server was closed while the loop was not asleep, or two threads       *)
(* changed the tables at once, as a worker that opens a server and the     *)
(* loop that accepts may; and no close hits a file of somebody else as     *)
(* long as the loop alone opens and closes, though it closes each          *)
(* connection twice.                                                       *)
FaultExplained ==
  /\ fault \in {"freed", "double", "garbage"} => overlap \/ crossed
  /\ fault = "foreign" => helped

(* No two threads close the same server.                                   *)
ServerClosedOnce ==
  \A v, w \in Workers :
    v # w /\ {wk[v].pc, wk[w].pc} \subseteq {"server", "conns"} => wk[v].obj # wk[w].obj

(* Every connection in memory is in the list of one server, once, so that  *)
(* the server frees it when it is closed itself, and what is freed is in   *)
(* no list.                                                                *)
ConnsLinked ==
  fault = "none" =>
    \A c \in Conns :
      LET places == {x \in Servers \X (1 .. Cardinality(Conns)) :
                       x[2] <= Len(conns[x[1]]) /\ conns[x[1]][x[2]] = c}
      IN  IF mem[c] = "live"
          THEN IF loop.pc \in Registering \cup {"link"} /\ loop.obj = c THEN places = {} ELSE Cardinality(places) = 1
          ELSE places = {}

(* The events of an open connection reach its own handler, whatever stale  *)
(* rows the connections before it have left behind, unless two threads     *)
(* changed the tables at once: fd_table may have the row of another socket *)
(* then, which was the last one when the connection's own was copied.      *)
OpenConnServed ==
  \A fd \in Fds :
    file[fd] \in Conns /\ ~(loop.pc \in Registering /\ loop.obj = file[fd])
      /\ fault = "none" /\ ~crossed =>
      tab.watched[fd] = "read" /\ tab.entry[fd] = file[fd]

(* Again and again, no connection is open whose peer has closed, unless    *)
(* two threads changed the tables at once.                                 *)
PeerGoneCloses ==
  []<>(fault # "none" \/ crossed \/ \A c \in gone, fd \in Fds : file[fd] # c)
=============================================================================
