---------------------------- MODULE EloopTables ----------------------------
(***************************************************************************)
(* The sockets of the event loop (src/src/utils/eloop/eloop.c, the epoll   *)
(* build), as operators on a record of the three tables of sockets, the    *)
(* table fd_table that the dispatch reads, and the kernel's epoll set:     *)
(*   rows     the rows of readers, writers and exceptions, each with its   *)
(*            type and handler, in the order of registration,              *)
(*   changed  is one of the three flags set?  (only read and reset         *)
(*            together),                                                   *)
(*   entry    fd_table: a handler, None if zeroed, Garbage if never set,   *)
(*   watched  the type each descriptor has in the epoll set, or "no",      *)
(*   max_sock, max_fd, max_events    the sizes of the arrays.              *)
(* Memory never runs out.                                                  *)
(***************************************************************************)
EXTENDS Integers, Sequences, FiniteSets, SequencesExt

CONSTANTS Fds,          (* descriptors, a set of numbers                    *)
          FdSlack,      (* 16: how far fd_table grows beyond the highest    *)
          FirstEvents,  (* 8: the first size of epoll_events                *)
          None, Garbage

ASSUME TablesAssumption ==
  Fds \subseteq Nat /\ FdSlack \in Nat \ {0} /\ FirstEvents \in Nat \ {0} /\ None # Garbage

EmptyTables ==
  [rows |-> <<>>, changed |-> FALSE,
   entry |-> [fd \in Fds |-> Garbage], watched |-> [fd \in Fds |-> "no"],
   max_sock |-> 0, max_fd |-> 0, max_events |-> 0]

count(t) == Len(t.rows)
FirstRow(t, fd, typ) == SelectInSeq(t.rows, LAMBDA r : r.sock = fd /\ r.typ = typ)
Registered(t, fd) == \E i \in 1 .. count(t) : t.rows[i].sock = fd

(* Mutant: a row is added without a mark.                                  *)
AddRowUnmarked(t, fd, typ, h) ==
  LET top == IF fd > t.max_sock THEN fd ELSE t.max_sock
  IN  [t EXCEPT !.max_fd = IF top >= @ THEN top + FdSlack ELSE @,
                !.max_events = IF count(t) + 1 <= @ THEN @
                               ELSE IF @ = 0 THEN FirstEvents ELSE 2 * @,
                !.rows = Append(@, [sock |-> fd, typ |-> typ, h |-> h]),
                !.max_sock = top]
(* eloop_sock_table_add_sock up to the epoll set: the arrays grow, the row *)
(* is appended and stays, whatever comes after it.                         *)
AddRow(t, fd, typ, h) ==
  LET top == IF fd > t.max_sock THEN fd ELSE t.max_sock
  IN  [t EXCEPT !.max_fd = IF top >= @ THEN top + FdSlack ELSE @,
                !.max_events = IF count(t) + 1 <= @ THEN @
                               ELSE IF @ = 0 THEN FirstEvents ELSE 2 * @,
                !.rows = Append(@, [sock |-> fd, typ |-> typ, h |-> h]),
                !.max_sock = top, !.changed = TRUE]

(* EPOLL_CTL_ADD fails on a descriptor that is in the set, for any type,   *)
(* and on one that is closed.                                              *)
Queues(t, fd, open) == open /\ t.watched[fd] = "no"
SockQueue(t, fd, typ, h, open) ==
  IF Queues(t, fd, open) THEN [AddRow(t, fd, typ, h) EXCEPT !.watched[fd] = typ]
  ELSE AddRow(t, fd, typ, h)

(* The row that is copied to fd_table is the last of its type.             *)
LastOf(t, typ) ==
  LET i == SelectLastInSeq(t.rows, LAMBDA r : r.typ = typ)
  IN  IF i = 0 THEN Garbage ELSE t.rows[i].h
(* Mutant: fd_table is written only where it holds nothing.                *)
StoreKeepsEntry(t, fd, typ) ==
  [t EXCEPT !.entry[fd] = IF @ \in {None, Garbage} THEN LastOf(t, typ) ELSE @]
Store(t, fd, typ) == [t EXCEPT !.entry[fd] = LastOf(t, typ)]

RegisterSock(t, fd, typ, h, open) ==
  IF Queues(t, fd, open) THEN Store(SockQueue(t, fd, typ, h, open), fd, typ)
  ELSE SockQueue(t, fd, typ, h, open)

(* Mutant: the descriptor stays in the epoll set.                          *)
RemoveSockWatched(t, fd, typ) ==
  LET i == FirstRow(t, fd, typ)
  IN  IF i = 0 THEN t
      ELSE [t EXCEPT !.rows = RemoveAt(@, i), !.changed = TRUE, !.entry[fd] = None]

(* eloop_sock_table_remove_sock: the first such row goes.  The entry of    *)
(* fd_table is zeroed only if EPOLL_CTL_DEL succeeds, which takes the      *)
(* descriptor out of the set for every type.                               *)
RemoveSock(t, fd, typ) ==
  LET i == FirstRow(t, fd, typ)
      removed == [t EXCEPT !.rows = RemoveAt(@, i), !.changed = TRUE]
  IN  IF i = 0 THEN t
      ELSE IF t.watched[fd] = "no" THEN removed
      ELSE [removed EXCEPT !.watched[fd] = "no", !.entry[fd] = None]

(* The kernel takes a descriptor that is closed out of the set.            *)
Closed(t, fd) == [t EXCEPT !.watched[fd] = "no"]

(* What epoll_wait may return when `ready` have events: at most `count` of *)
(* them, in any order.                                                     *)
EventLists(t, ready) ==
  LET hot == {fd \in ready : t.watched[fd] # "no"}
      n == IF Cardinality(hot) <= count(t) THEN Cardinality(hot) ELSE count(t)
  IN  UNION {SetToSeqs(S) : S \in {U \in SUBSET hot : Cardinality(U) = n}} \ {<<>>}
=============================================================================
