---------------------------- MODULE EloopProofs -----------------------------
(***************************************************************************)
(* Proofs about the event loop, for every set of descriptors, every        *)
(* handling of signals and every number of registrations.                  *)
(***************************************************************************)
EXTENDS Eloop, CountingLemmas, SequenceTheorems

(* Where the loop is, and in the pass over signals, from where.  What      *)
(* epoll_wait returned is kept from the end of the wait to the dispatch.   *)
Passing == pc = "signals" \/ (pc = "handler" /\ cur.after = "signals")
Control ==
  /\ pc \in {"setup", "top", "presleep", "asleep", "woken", "signals", "timeouts", "sockets",
             "dispatch", "handler", "done", "destroyed"}
  /\ pc = "handler" => cur.after \in {"signals", "sockets", "dispatch"}
  /\ sigi \in Nat /\ (sigi > 0 <=> Passing)
  /\ sigi > 0 => back \in {"presleep", "timeouts"}
  /\ pc \in {"setup", "top", "presleep", "asleep", "done", "destroyed"} => events = <<>>
  /\ sigi > 0 /\ back = "presleep" => events = <<>>

(* A terminating signal that is pending has been counted, and was not      *)
(* there when the loop looked before it went to sleep.                     *)
Heard ==
  /\ signals \in [1 .. Len(Sigs) -> BOOLEAN] /\ signaled \in BOOLEAN
  /\ pending \in BOOLEAN /\ missed \in BOOLEAN
  /\ \A i \in 1 .. Len(Sigs) : signals[i] => signaled \/ (sigi > 0 /\ i >= sigi)
  /\ pending => signaled
  /\ pending /\ (pc \in {"presleep", "asleep"} \/ (sigi > 0 /\ back = "presleep")) => missed

SignalsInv == Control /\ Heard

(* The tables.                                                             *)
Handlers == [sock : Fds, typ : Types, gen : Int]
Rows == [sock : Fds, typ : Types, h : Handlers]
Tables == [rows : Seq(Rows), changed : BOOLEAN, entry : [Fds -> Handlers \cup {None, Garbage}],
           watched : [Fds -> Types \cup {"no"}], max_sock : Nat, max_fd : Nat, max_events : Nat]
Shaped ==
  /\ tab \in Tables
  /\ file \in [Fds -> -MaxGen .. MaxGen] /\ ready \subseteq Fds /\ untidy \subseteq Fds
  /\ other \in [sock : Fds, typ : Types] \cup {None}
  /\ pc = "destroyed" => tab.rows = <<>>

(* The arrays are large enough for every row, and only registered          *)
(* descriptors are in the epoll set.                                       *)
Fits(t) ==
  /\ count(t) <= t.max_events
  /\ \A i \in 1 .. count(t) : t.rows[i].sock < t.max_fd
  /\ \A fd \in Fds : t.watched[fd] # "no" => Registered(t, fd)

(* The descriptor fd stands for the n-th file, and has one row if any.     *)
(* Its entry of fd_table is that of its row, or o says that another thread *)
(* is to write it.                                                         *)
Tidy(t, n, o, fd) ==
  IF Registered(t, fd)
  THEN /\ n > 0 /\ t.watched[fd] # "no"
       /\ \A i \in 1 .. count(t) : t.rows[i].sock = fd =>
            t.rows[i].typ = t.watched[fd] /\ t.rows[i].h = H(fd, t.watched[fd], n)
       /\ \A i, j \in 1 .. count(t) : t.rows[i].sock = fd /\ t.rows[j].sock = fd => i = j
       /\ \/ t.entry[fd] = H(fd, t.watched[fd], n)
          \/ o # None /\ o.sock = fd /\ t.entry[fd] \in {None, Garbage}
  ELSE t.watched[fd] = "no" /\ t.entry[fd] \in {None, Garbage}

(* The row that another thread is about to copy is the last of its type.   *)
IsLast(t, i) == \A j \in 1 .. count(t) : t.rows[j].typ = t.rows[i].typ => j <= i
HasLast(t, fd, typ) ==
  \E i \in 1 .. count(t) : t.rows[i].sock = fd /\ t.rows[i].typ = typ /\ IsLast(t, i)
Copies ==
  other # None /\ other.sock \notin untidy /\ pc # "destroyed" => HasLast(tab, other.sock, other.typ)

TablesInv ==
  Shaped /\ Fits(tab) /\ (\A fd \in Fds \ untidy : Tidy(tab, file[fd], other, fd)) /\ Copies

(* What epoll_wait returns: a descriptor, and the file it stands for then. *)
Events == [fd : Fds, gen : Int]

(* What epoll_wait has returned is about registered files as long as no    *)
(* table has been changed.                                                 *)
Fresh ==
  /\ events \in Seq(Events)
  /\ pc = "dispatch" => ~tab.changed
  /\ pc = "woken" \/ ~tab.changed =>
       \A i \in 1 .. Len(events) : events[i].fd \notin untidy =>
         Registered(tab, events[i].fd) /\ file[events[i].fd] = events[i].gen

(* As long as no other thread has come in, epoll_events stays where it is  *)
(* while it is used, and fd_table has been written where it is read.       *)
Undisturbed ==
  /\ fault = "none" /\ other = None
  /\ pc \in {"asleep", "woken", "dispatch"} => ~moved
  /\ pc = "handler" /\ cur.after = "dispatch" /\ moved => tab.changed
  /\ \A fd \in Fds : tab.watched[fd] # "no" => tab.entry[fd] # Garbage
  /\ \A i \in 1 .. Len(events) : tab.entry[events[i].fd] # Garbage

EventsInv == Fresh /\ (raced \/ Undisturbed)
-----------------------------------------------------------------------------
(* Some sets of positions have a greatest element.                         *)
LEMMA MaxExists ==
  ASSUME NEW n \in Nat, NEW S, S \subseteq 1 .. n, S # {}
  PROVE  \E i \in S : \A k \in S : i >= k
<1> DEFINE Upper == {u \in Nat : \A k \in S : k <= u}
<1>1. n \in Upper /\ Upper \subseteq Nat
  OBVIOUS
<1>2. PICK u \in Upper : \A v \in Upper : u <= v
  <2> HIDE DEF Upper
  <2>1. QED
    BY <1>1, MinExists
<1>3. u \in Nat /\ \A k \in S : k <= u /\ k \in Nat \ {0}
  BY <1>2
<1>4. CASE u \in S
  BY <1>3, <1>4
<1>5. CASE u \notin S
  <2>1. \A k \in S : k <= u - 1 /\ k # u
    BY <1>3, <1>5
  <2>2. u - 1 \in Nat
    <3>1. PICK k \in S : TRUE
      OBVIOUS
    <3>2. k \in Nat \ {0} /\ k <= u - 1
      BY <1>3, <2>1, <3>1
    <3>3. QED
      BY <1>3, <3>2
  <2>3. u - 1 \in Upper
    BY <2>1, <2>2
  <2>4. QED
    BY <1>2, <1>3, <2>3
<1>6. QED
  BY <1>4, <1>5

(* What a row is.                                                          *)
LEMMA RowsAre ==
  ASSUME NEW t \in Tables
  PROVE  /\ count(t) \in Nat /\ t.rows \in Seq(Rows)
         /\ \A i \in 1 .. count(t) :
              t.rows[i].sock \in Fds /\ t.rows[i].typ \in Types /\ t.rows[i].h \in Handlers
<1>1. t.rows \in Seq(Rows)
  BY DEF Tables
<1>2. \A r \in Rows : r.sock \in Fds /\ r.typ \in Types /\ r.h \in Handlers
  BY DEF Rows
<1>3. \A i \in 1 .. count(t) : t.rows[i] \in Rows
  BY <1>1 DEF count
<1>4. QED
  BY <1>1, <1>2, <1>3 DEF count

(* A row is found if there is one.                                         *)
LEMMA FirstRowFound ==
  ASSUME NEW t \in Tables, NEW fd \in Fds, NEW typ \in Types
  PROVE  /\ FirstRow(t, fd, typ) \in 0 .. count(t)
         /\ FirstRow(t, fd, typ) = 0 =>
              \A i \in 1 .. count(t) : ~(t.rows[i].sock = fd /\ t.rows[i].typ = typ)
         /\ FirstRow(t, fd, typ) # 0 =>
              t.rows[FirstRow(t, fd, typ)].sock = fd /\ t.rows[FirstRow(t, fd, typ)].typ = typ
<1> DEFINE I == {i \in 1 .. count(t) : t.rows[i].sock = fd /\ t.rows[i].typ = typ}
<1>1. count(t) \in Nat
  BY DEF Tables, count
<1>2. FirstRow(t, fd, typ) = IF I # {} THEN Min(I) ELSE 0
  BY DEF FirstRow, SelectInSeq, count
<1>3. ASSUME I # {} PROVE Min(I) \in I
  <2>1. I \subseteq Nat
    OBVIOUS
  <2> HIDE DEF I
  <2>2. \E i \in I : \A k \in I : i <= k
    BY <1>3, <2>1, MinExists
  <2>3. QED
    BY <2>2 DEF Min
<1>4. CASE I = {}
  BY <1>1, <1>2, <1>4
<1>5. CASE I # {}
  BY <1>1, <1>2, <1>3, <1>5
<1>6. QED
  BY <1>4, <1>5

(* The handler that is copied to fd_table is that of the last row.         *)
LEMMA LastOfIs ==
  ASSUME NEW t \in Tables, NEW typ \in Types
  PROVE  /\ LastOf(t, typ) \in Handlers \cup {Garbage}
         /\ \A i \in 1 .. count(t) : t.rows[i].typ = typ /\ IsLast(t, i) => LastOf(t, typ) = t.rows[i].h
         /\ count(t) = 0 => LastOf(t, typ) = Garbage
<1> DEFINE I == {i \in 1 .. count(t) : t.rows[i].typ = typ}
<1>1. count(t) \in Nat /\ \A i \in 1 .. count(t) : t.rows[i].h \in Handlers
  BY RowsAre
<1>2. SelectLastInSeq(t.rows, LAMBDA r : r.typ = typ) = IF I # {} THEN Max(I) ELSE 0
  BY DEF SelectLastInSeq, count
<1>3. CASE I = {}
  <2>1. LastOf(t, typ) = Garbage
    BY <1>2, <1>3 DEF LastOf
  <2>2. QED
    BY <1>3, <2>1
<1>4. CASE I # {}
  <2>1. I \subseteq 1 .. count(t)
    OBVIOUS
  <2>2. Max(I) \in I /\ \A k \in I : Max(I) >= k
    <3> HIDE DEF I
    <3>1. \E i \in I : \A k \in I : i >= k
      BY <1>1, <1>4, <2>1, MaxExists
    <3>2. QED
      BY <3>1 DEF Max
  <2>3. LastOf(t, typ) = t.rows[Max(I)].h
    <3>1. Max(I) # 0
      BY <2>2
    <3> HIDE DEF I
    <3>2. QED
      BY <1>2, <1>4, <3>1 DEF LastOf
  <2>4. \A i \in 1 .. count(t) : t.rows[i].typ = typ /\ IsLast(t, i) => i = Max(I)
    <3> SUFFICES ASSUME NEW i \in 1 .. count(t), t.rows[i].typ = typ, IsLast(t, i) PROVE i = Max(I)
      OBVIOUS
    <3>1. i \in I /\ Max(I) \in 1 .. count(t) /\ t.rows[Max(I)].typ = typ
      BY <2>2
    <3>2. Max(I) <= i /\ Max(I) >= i
      BY <2>2, <3>1 DEF IsLast
    <3>3. QED
      BY <1>1, <3>1, <3>2
  <2>5. Max(I) \in 1 .. count(t) /\ count(t) # 0
    BY <1>1, <2>2
  <2>6. QED
    <3> HIDE DEF I
    <3>1. QED
      BY <1>1, <2>3, <2>4, <2>5
<1>5. QED
  BY <1>3, <1>4

(* What is left of a sequence without one of its items.                    *)
LEMMA RemoveAtItems ==
  ASSUME NEW R, NEW s \in Seq(R), NEW i \in 1 .. Len(s)
  PROVE  /\ RemoveAt(s, i) \in Seq(R)
         /\ Len(RemoveAt(s, i)) = Len(s) - 1
         /\ \A j \in 1 .. Len(s) - 1 : RemoveAt(s, i)[j] = IF j < i THEN s[j] ELSE s[j + 1]
<1> DEFINE p == SubSeq(s, 1, i - 1)
           q == SubSeq(s, i + 1, Len(s))
<1>1. p \in Seq(R) /\ Len(p) = i - 1 /\ \A j \in 1 .. i - 1 : p[j] = s[j]
  BY SubSeqProperties
<1>2. q \in Seq(R) /\ Len(q) = Len(s) - i /\ \A j \in 1 .. Len(s) - i : q[j] = s[i + j]
  BY SubSeqProperties
<1>3. RemoveAt(s, i) = p \o q
  BY DEF RemoveAt
<1> HIDE DEF p, q
<1>4. /\ p \o q \in Seq(R) /\ Len(p \o q) = i - 1 + (Len(s) - i)
      /\ \A j \in 1 .. i - 1 + (Len(s) - i) : (p \o q)[j] = IF j <= i - 1 THEN p[j] ELSE q[j - (i - 1)]
  <2>1. /\ p \o q \in Seq(R) /\ Len(p \o q) = Len(p) + Len(q)
        /\ \A j \in 1 .. Len(p) + Len(q) : (p \o q)[j] = IF j <= Len(p) THEN p[j] ELSE q[j - Len(p)]
    BY <1>1, <1>2, ConcatProperties, Zenon
  <2>2. QED
    BY <1>1, <1>2, <2>1, Zenon
<1>5. ASSUME NEW j \in 1 .. Len(s) - 1
      PROVE  (p \o q)[j] = IF j < i THEN s[j] ELSE s[j + 1]
  <2>1. j < i => p[j] = s[j]
    BY <1>1
  <2>2. j >= i => q[j - (i - 1)] = s[j + 1]
    <3>1. SUFFICES ASSUME j >= i
                   PROVE  q[j - (i - 1)] = s[j + 1]
      OBVIOUS
    <3>2. j - (i - 1) \in 1 .. Len(s) - i /\ i + (j - (i - 1)) = j + 1
      BY <3>1
    <3>3. QED
      BY <1>2, <3>2, Zenon
  <2>3. j \in 1 .. i - 1 + (Len(s) - i) /\ (j < i <=> j <= i - 1)
    OBVIOUS
  <2>4. QED
    BY <1>4, <2>1, <2>2, <2>3
<1>6. QED
  <2>1. i - 1 + (Len(s) - i) = Len(s) - 1
    OBVIOUS
  <2>2. QED
    BY <1>3, <1>4, <1>5, <2>1
-----------------------------------------------------------------------------
(***************************************************************************)
(* The operations on the tables, field by field.                           *)
(***************************************************************************)
(* A row is appended, and the arrays have room for it.                     *)
LEMMA AddRowIs ==
  ASSUME NEW t \in Tables, NEW fd \in Fds, NEW typ \in Types, NEW h \in Handlers
  PROVE  /\ AddRow(t, fd, typ, h) \in Tables
         /\ AddRow(t, fd, typ, h).rows = Append(t.rows, [sock |-> fd, typ |-> typ, h |-> h])
         /\ AddRow(t, fd, typ, h).changed
         /\ AddRow(t, fd, typ, h).entry = t.entry
         /\ AddRow(t, fd, typ, h).watched = t.watched
         /\ count(t) <= t.max_events => count(t) + 1 <= AddRow(t, fd, typ, h).max_events
         /\ t.max_fd <= AddRow(t, fd, typ, h).max_fd /\ fd < AddRow(t, fd, typ, h).max_fd
<1> DEFINE top == IF fd > t.max_sock THEN fd ELSE t.max_sock
           row == [sock |-> fd, typ |-> typ, h |-> h]
           events1 == IF count(t) + 1 <= t.max_events THEN t.max_events
                      ELSE IF t.max_events = 0 THEN FirstEvents ELSE 2 * t.max_events
           fds1 == IF top >= t.max_fd THEN top + FdSlack ELSE t.max_fd
<1>1. /\ t.rows \in Seq(Rows) /\ t.max_sock \in Nat /\ t.max_fd \in Nat /\ t.max_events \in Nat
      /\ fd \in Nat /\ FdSlack \in Nat \ {0} /\ FirstEvents \in Nat \ {0} /\ row \in Rows
  BY TablesAssumption DEF Tables, Rows
<1>2. count(t) \in Nat
  BY <1>1 DEF count
<1>3. top \in Nat /\ fd <= top
  BY <1>1
<1>4. fds1 \in Nat /\ t.max_fd <= fds1 /\ fd < fds1
  <2> HIDE DEF top
  <2>1. QED
    BY <1>1, <1>3
<1>5. events1 \in Nat /\ (count(t) <= t.max_events => count(t) + 1 <= events1)
  BY <1>1, <1>2
<1>6. Append(t.rows, row) \in Seq(Rows)
  BY <1>1
<1>7. AddRow(t, fd, typ, h) = [t EXCEPT !.max_fd = fds1, !.max_events = events1,
                                        !.rows = Append(t.rows, row), !.max_sock = top, !.changed = TRUE]
  BY DEF AddRow
<1> HIDE DEF top, events1, fds1, row
<1>8. AddRow(t, fd, typ, h) = [rows |-> Append(t.rows, row), changed |-> TRUE, entry |-> t.entry,
                               watched |-> t.watched, max_sock |-> top, max_fd |-> fds1, max_events |-> events1]
  BY <1>7 DEF Tables
<1>9. AddRow(t, fd, typ, h) \in Tables
  BY <1>3, <1>4, <1>5, <1>6, <1>8 DEF Tables
<1>10. QED
  BY <1>4, <1>5, <1>8, <1>9 DEF row

(* q is t with a row more, and with the descriptor watched.                *)
Grown(t, q, fd, typ, h) ==
  /\ q \in Tables
  /\ q.rows = Append(t.rows, [sock |-> fd, typ |-> typ, h |-> h])
  /\ q.changed
  /\ t.watched[fd] = "no" => q.watched = [t.watched EXCEPT ![fd] = typ]
  /\ t.watched[fd] # "no" => q.watched = t.watched
  /\ count(t) <= t.max_events => count(t) + 1 <= q.max_events
  /\ t.max_fd <= q.max_fd /\ fd < q.max_fd
SockQueued(t, q, fd, typ, h) == Grown(t, q, fd, typ, h) /\ q.entry = t.entry

(* The epoll set gets the descriptor if it does not have it.               *)
LEMMA SockQueueIs ==
  ASSUME NEW t \in Tables, NEW fd \in Fds, NEW typ \in Types, NEW h \in Handlers
  PROVE  SockQueued(t, SockQueue(t, fd, typ, h, TRUE), fd, typ, h)
<1> PICK q : q = SockQueue(t, fd, typ, h, TRUE)
  OBVIOUS
<1> SUFFICES SockQueued(t, q, fd, typ, h)
  OBVIOUS
<1> USE DEF SockQueued, Grown
<1>1. PICK a : a = AddRow(t, fd, typ, h)
  OBVIOUS
<1>2. /\ a \in Tables /\ a.rows = Append(t.rows, [sock |-> fd, typ |-> typ, h |-> h])
      /\ a.changed /\ a.entry = t.entry /\ a.watched = t.watched
      /\ count(t) <= t.max_events => count(t) + 1 <= a.max_events
      /\ t.max_fd <= a.max_fd /\ fd < a.max_fd
  BY <1>1, AddRowIs
<1>3. CASE t.watched[fd] = "no"
  <2>1. PICK b : b = [a EXCEPT !.watched[fd] = typ]
    OBVIOUS
  <2>2. q = b
    BY <1>1, <1>3, <2>1 DEF SockQueue, Queues
  <2>3. /\ q.rows = a.rows /\ q.changed = a.changed /\ q.entry = a.entry /\ q.max_events = a.max_events
        /\ q.max_fd = a.max_fd /\ q.watched = [a.watched EXCEPT ![fd] = typ]
    BY <1>2, <2>1, <2>2 DEF Tables
  <2>4. [a.watched EXCEPT ![fd] = typ] \in [Fds -> Types \cup {"no"}]
    BY <1>2 DEF Tables
  <2>5. q \in Tables
    BY <1>2, <2>1, <2>2, <2>4 DEF Tables
  <2>6. QED
    BY <1>2, <1>3, <2>2, <2>3, <2>5
<1>4. CASE t.watched[fd] # "no"
  <2>1. q = a
    BY <1>1, <1>4 DEF SockQueue, Queues
  <2>2. QED
    BY <1>2, <1>4, <2>1
<1>5. QED
  BY <1>3, <1>4

(* q has the entry written, too.                                           *)
SockRegistered(t, q, fd, typ, h) ==
  /\ Grown(t, q, fd, typ, h)
  /\ t.watched[fd] = "no" => q.entry = [t.entry EXCEPT ![fd] = h]
  /\ t.watched[fd] # "no" => q.entry = t.entry

(* Where it gets it, fd_table gets the handler of the new row.             *)
LEMMA RegisterSockIs ==
  ASSUME NEW t \in Tables, NEW fd \in Fds, NEW typ \in Types, NEW h \in Handlers
  PROVE  SockRegistered(t, RegisterSock(t, fd, typ, h, TRUE), fd, typ, h)
<1> PICK q : q = RegisterSock(t, fd, typ, h, TRUE)
  OBVIOUS
<1> SUFFICES SockRegistered(t, q, fd, typ, h)
  OBVIOUS
<1> USE DEF SockRegistered, Grown
<1>1. PICK a : a = SockQueue(t, fd, typ, h, TRUE)
  OBVIOUS
<1>2. /\ a \in Tables /\ a.rows = Append(t.rows, [sock |-> fd, typ |-> typ, h |-> h])
      /\ a.changed /\ a.entry = t.entry
      /\ t.watched[fd] = "no" => a.watched = [t.watched EXCEPT ![fd] = typ]
      /\ t.watched[fd] # "no" => a.watched = t.watched
      /\ count(t) <= t.max_events => count(t) + 1 <= a.max_events
      /\ t.max_fd <= a.max_fd /\ fd < a.max_fd
  <2>1. SockQueued(t, a, fd, typ, h)
    BY <1>1, SockQueueIs
  <2>2. QED
    BY <2>1 DEF SockQueued, Grown
<1>3. CASE t.watched[fd] = "no"
  <2>1. LastOf(a, typ) = h
    <3>1. t.rows \in Seq(Rows) /\ [sock |-> fd, typ |-> typ, h |-> h] \in Rows
      BY DEF Tables, Rows
    <3>2. count(a) = count(t) + 1 /\ count(t) \in Nat /\ a.rows[count(a)] = [sock |-> fd, typ |-> typ, h |-> h]
      BY <1>2, <3>1 DEF count
    <3>3. count(a) \in 1 .. count(a) /\ IsLast(a, count(a))
      BY <3>2 DEF IsLast
    <3>4. PICK k : k = count(a)
      OBVIOUS
    <3>5. k \in 1 .. count(a) /\ IsLast(a, k) /\ a.rows[k].typ = typ /\ a.rows[k].h = h
      BY <3>2, <3>3, <3>4
    <3>6. QED
      BY <1>2, <3>5, LastOfIs, ZenonT(40)
  <2>2. PICK b : b = [a EXCEPT !.entry[fd] = h]
    OBVIOUS
  <2>3. q = b
    BY <1>1, <1>3, <2>1, <2>2 DEF RegisterSock, Queues, Store
  <2>4. [a.entry EXCEPT ![fd] = h] \in [Fds -> Handlers \cup {None, Garbage}]
    BY <1>2 DEF Tables
  <2>5. /\ b \in Tables /\ b.rows = a.rows /\ b.changed = a.changed /\ b.watched = a.watched
        /\ b.max_events = a.max_events /\ b.max_fd = a.max_fd /\ b.entry = [a.entry EXCEPT ![fd] = h]
    BY <1>2, <2>2, <2>4 DEF Tables
  <2>6. QED
    BY <1>2, <1>3, <2>3, <2>5
<1>4. CASE t.watched[fd] # "no"
  <2>1. q = a
    BY <1>1, <1>4 DEF RegisterSock, Queues
  <2>2. QED
    BY <1>2, <1>4, <2>1
<1>5. QED
  BY <1>3, <1>4

(* q is t with the entry of fd written.                                    *)
Stored(t, q, fd, typ) ==
  /\ q \in Tables /\ q.rows = t.rows /\ q.changed = t.changed /\ q.watched = t.watched
  /\ q.max_fd = t.max_fd /\ q.max_events = t.max_events
  /\ q.entry = [t.entry EXCEPT ![fd] = LastOf(t, typ)]

(* The entry is written with the handler of a row, or with nothing known.  *)
LEMMA StoreIs ==
  ASSUME NEW t \in Tables, NEW fd \in Fds, NEW typ \in Types
  PROVE  Stored(t, Store(t, fd, typ), fd, typ)
<1> PICK q : q = Store(t, fd, typ)
  OBVIOUS
<1> SUFFICES Stored(t, q, fd, typ)
  OBVIOUS
<1> USE DEF Stored
<1>1. PICK h \in Handlers \cup {Garbage} : h = LastOf(t, typ)
  BY LastOfIs
<1>2. q = [t EXCEPT !.entry[fd] = h]
  BY <1>1 DEF Store
<1>3. [t.entry EXCEPT ![fd] = h] \in [Fds -> Handlers \cup {None, Garbage}]
  BY DEF Tables
<1>4. QED
  BY <1>1, <1>2, <1>3 DEF Tables

(* q is t with nobody watching the descriptor.                             *)
Unwatched(t, q, fd) ==
  /\ q \in Tables /\ q.rows = t.rows /\ q.changed = t.changed /\ q.entry = t.entry
  /\ q.max_fd = t.max_fd /\ q.max_events = t.max_events
  /\ q.watched = [t.watched EXCEPT ![fd] = "no"]

(* A closed descriptor leaves the epoll set.                               *)
LEMMA ClosedIs ==
  ASSUME NEW t \in Tables, NEW fd \in Fds
  PROVE  Unwatched(t, Closed(t, fd), fd)
<1> PICK q : q = Closed(t, fd)
  OBVIOUS
<1> SUFFICES Unwatched(t, q, fd)
  OBVIOUS
<1> USE DEF Unwatched
<1>1. [t.watched EXCEPT ![fd] = "no"] \in [Fds -> Types \cup {"no"}]
  BY DEF Tables
<1>2. QED
  BY <1>1 DEF Tables, Closed

(* q is t without the first row of the descriptor and type.                *)
SockRemoved(t, q, fd, typ) ==
  /\ q \in Tables /\ q.rows = RemoveAt(t.rows, FirstRow(t, fd, typ)) /\ q.changed
  /\ q.max_fd = t.max_fd /\ q.max_events = t.max_events
  /\ q.watched = [t.watched EXCEPT ![fd] = "no"]
  /\ t.watched[fd] = "no" => q.entry = t.entry
  /\ t.watched[fd] # "no" => q.entry = [t.entry EXCEPT ![fd] = None]

(* The first row of the descriptor and type is removed, if there is one;   *)
(* then nobody watches the descriptor.                                     *)
LEMMA RemoveSockIs ==
  ASSUME NEW t \in Tables, NEW fd \in Fds, NEW typ \in Types, FirstRow(t, fd, typ) # 0
  PROVE  SockRemoved(t, RemoveSock(t, fd, typ), fd, typ)
<1> PICK q : q = RemoveSock(t, fd, typ)
  OBVIOUS
<1> SUFFICES SockRemoved(t, q, fd, typ)
  OBVIOUS
<1> USE DEF SockRemoved
<1>1. PICK i : i = FirstRow(t, fd, typ)
  OBVIOUS
<1>2. i \in 1 .. Len(t.rows) /\ t.rows \in Seq(Rows)
  BY <1>1, FirstRowFound DEF count, Tables
<1>3. RemoveAt(t.rows, i) \in Seq(Rows)
  BY <1>2, RemoveAtItems
<1>4. PICK r : r = [t EXCEPT !.rows = RemoveAt(t.rows, i), !.changed = TRUE]
  OBVIOUS
<1>5. /\ r \in Tables /\ r.rows = RemoveAt(t.rows, i) /\ r.changed
      /\ r.max_fd = t.max_fd /\ r.max_events = t.max_events /\ r.watched = t.watched /\ r.entry = t.entry
  BY <1>3, <1>4 DEF Tables
<1>6. CASE t.watched[fd] = "no"
  <2>1. q = r
    BY <1>1, <1>4, <1>6 DEF RemoveSock
  <2>2. [t.watched EXCEPT ![fd] = "no"] = t.watched
    BY <1>6 DEF Tables
  <2>3. QED
    BY <1>1, <1>5, <1>6, <2>1, <2>2
<1>7. CASE t.watched[fd] # "no"
  <2>1. PICK b : b = [r EXCEPT !.watched[fd] = "no", !.entry[fd] = None]
    OBVIOUS
  <2>2. q = b
    BY <1>1, <1>4, <1>7, <2>1 DEF RemoveSock
  <2>3. /\ [r.watched EXCEPT ![fd] = "no"] \in [Fds -> Types \cup {"no"}]
        /\ [r.entry EXCEPT ![fd] = None] \in [Fds -> Handlers \cup {None, Garbage}]
    BY <1>5 DEF Tables
  <2>4. /\ q \in Tables /\ q.rows = r.rows /\ q.changed /\ q.max_fd = r.max_fd
        /\ q.max_events = r.max_events
        /\ q.watched = [r.watched EXCEPT ![fd] = "no"] /\ q.entry = [r.entry EXCEPT ![fd] = None]
    BY <1>5, <2>1, <2>2, <2>3 DEF Tables
  <2>5. QED
    BY <1>1, <1>5, <1>7, <2>2, <2>4
<1>8. QED
  BY <1>6, <1>7
-----------------------------------------------------------------------------
(***************************************************************************)
(* What the operations do to the parts of the invariant.                   *)
(***************************************************************************)
(* The rows are kept, and the new one is the last.                         *)
LEMMA GrownRows ==
  ASSUME NEW t \in Tables, NEW q, NEW fd \in Fds, NEW typ \in Types, NEW h \in Handlers,
         Grown(t, q, fd, typ, h)
  PROVE  /\ count(t) \in Nat /\ count(q) = count(t) + 1
         /\ \A i \in 1 .. count(t) : i \in 1 .. count(q) /\ q.rows[i] = t.rows[i]
         /\ \A i \in 1 .. count(q) : i = count(q) \/ i \in 1 .. count(t)
         /\ count(q) \in 1 .. count(q)
         /\ q.rows[count(q)].sock = fd /\ q.rows[count(q)].typ = typ /\ q.rows[count(q)].h = h
<1>1. t.rows \in Seq(Rows) /\ [sock |-> fd, typ |-> typ, h |-> h] \in Rows
  BY DEF Tables, Rows
<1>2. q.rows = Append(t.rows, [sock |-> fd, typ |-> typ, h |-> h])
  BY DEF Grown
<1>3. QED
  BY <1>1, <1>2 DEF count

(* A descriptor is registered if it was, or is the new one.                *)
LEMMA GrownRegistered ==
  ASSUME NEW t \in Tables, NEW q, NEW fd \in Fds, NEW typ \in Types, NEW h \in Handlers,
         Grown(t, q, fd, typ, h), NEW x
  PROVE  Registered(q, x) <=> Registered(t, x) \/ x = fd
BY GrownRows DEF Registered

(* The arrays have grown with the rows.                                    *)
LEMMA GrownFits ==
  ASSUME NEW t \in Tables, NEW q, NEW fd \in Fds, NEW typ \in Types, NEW h \in Handlers,
         Grown(t, q, fd, typ, h), Fits(t)
  PROVE  Fits(q)
<1>1. count(q) <= q.max_events
  BY GrownRows DEF Grown, Fits
<1>2. ASSUME NEW i \in 1 .. count(q) PROVE q.rows[i].sock < q.max_fd
  <2>1. /\ t.rows \in Seq(Rows) /\ t.max_fd \in Nat /\ q.max_fd \in Nat /\ t.max_fd <= q.max_fd
        /\ fd < q.max_fd /\ Fds \subseteq Nat
    BY TablesAssumption DEF Grown, Tables
  <2>2. \A j \in 1 .. count(t) : t.rows[j].sock \in Nat
    BY <2>1, RowsAre
  <2>3. CASE i = count(q)
    BY <2>1, <2>3, GrownRows
  <2>4. CASE i \in 1 .. count(t)
    <3>1. t.rows[i].sock < t.max_fd /\ q.rows[i] = t.rows[i]
      BY <2>4, GrownRows DEF Fits
    <3>2. QED
      BY <2>1, <2>2, <2>4, <3>1
  <2>5. QED
    BY <2>3, <2>4, GrownRows
<1>3. ASSUME NEW x \in Fds, q.watched[x] # "no" PROVE Registered(q, x)
  <2>1. x = fd \/ t.watched[x] # "no"
    BY <1>3 DEF Grown, Tables
  <2>2. QED
    BY <2>1, GrownRegistered DEF Fits
<1>4. QED
  BY <1>1, <1>2, <1>3 DEF Fits

(* The other descriptors stay tidy, ...                                    *)
LEMMA GrownOthersTidy ==
  ASSUME NEW t \in Tables, NEW q, NEW fd \in Fds, NEW typ \in Types, NEW h \in Handlers,
         Grown(t, q, fd, typ, h),
         NEW x \in Fds, x # fd, q.entry[x] = t.entry[x],
         NEW n, NEW o, NEW p, p = o \/ o = None, Tidy(t, n, o, x)
  PROVE  Tidy(q, n, p, x)
<1>1. q.watched[x] = t.watched[x]
  BY DEF Grown, Tables
<1>2. Registered(q, x) <=> Registered(t, x)
  BY GrownRegistered
<1>3. \A i \in 1 .. count(q) : q.rows[i].sock = x => i \in 1 .. count(t) /\ t.rows[i] = q.rows[i]
  BY GrownRows
<1>4. CASE Registered(t, x)
  <2>1. /\ n > 0 /\ t.watched[x] # "no"
        /\ \A i \in 1 .. count(t) : t.rows[i].sock = x =>
             t.rows[i].typ = t.watched[x] /\ t.rows[i].h = H(x, t.watched[x], n)
        /\ \A i, j \in 1 .. count(t) : t.rows[i].sock = x /\ t.rows[j].sock = x => i = j
        /\ \/ t.entry[x] = H(x, t.watched[x], n)
           \/ o # None /\ o.sock = x /\ t.entry[x] \in {None, Garbage}
    BY <1>4 DEF Tidy
  <2>2. QED
    BY <1>1, <1>2, <1>3, <1>4, <2>1 DEF Tidy
<1>5. CASE ~Registered(t, x)
  BY <1>1, <1>2, <1>5 DEF Tidy
<1>6. QED
  BY <1>4, <1>5

(* ... and so is the new one, if it had no row.                            *)
LEMMA GrownTidy ==
  ASSUME NEW t \in Tables, NEW q, NEW fd \in Fds, NEW typ \in Types, NEW h \in Handlers,
         Grown(t, q, fd, typ, h), ~Registered(t, fd),
         NEW m, NEW o, Tidy(t, m, o, fd),
         NEW n, n > 0, h = H(fd, typ, n), NEW p,
         \/ q.entry[fd] = h
         \/ q.entry[fd] = t.entry[fd] /\ p # None /\ p.sock = fd
  PROVE  Tidy(q, n, p, fd)
<1>1. t.watched[fd] = "no" /\ t.entry[fd] \in {None, Garbage}
  BY DEF Tidy
<1>2. q.watched[fd] = typ /\ typ # "no"
  BY <1>1, EloopAssumption DEF Grown, Tables
<1>3. Registered(q, fd)
  BY GrownRegistered
<1>4. \A i \in 1 .. count(q) : q.rows[i].sock = fd => i = count(q)
  BY GrownRows DEF Registered
<1>5. QED
  BY <1>1, <1>2, <1>3, <1>4, GrownRows DEF Tidy

(* The new row is the last of its type, and no other type is concerned.    *)
LEMMA GrownLast ==
  ASSUME NEW t \in Tables, NEW q, NEW fd \in Fds, NEW typ \in Types, NEW h \in Handlers,
         Grown(t, q, fd, typ, h)
  PROVE  /\ HasLast(q, fd, typ)
         /\ \A x, ty : ty # typ /\ HasLast(t, x, ty) => HasLast(q, x, ty)
<1>1. HasLast(q, fd, typ)
  <2>1. IsLast(q, count(q))
    BY GrownRows DEF IsLast
  <2>2. QED
    BY <2>1, GrownRows DEF HasLast
<1>2. ASSUME NEW x, NEW ty, ty # typ, HasLast(t, x, ty) PROVE HasLast(q, x, ty)
  <2>1. PICK i \in 1 .. count(t) : t.rows[i].sock = x /\ t.rows[i].typ = ty /\ IsLast(t, i)
    BY <1>2 DEF HasLast
  <2>2. i \in 1 .. count(q) /\ q.rows[i] = t.rows[i]
    BY GrownRows
  <2>3. \A j \in 1 .. count(q) : q.rows[j].typ = ty => j \in 1 .. count(t) /\ t.rows[j].typ = ty
    BY <1>2, GrownRows
  <2>4. IsLast(q, i)
    BY <2>1, <2>2, <2>3 DEF IsLast
  <2>5. QED
    BY <2>1, <2>2, <2>4 DEF HasLast
<1>3. QED
  BY <1>1, <1>2

(* All rows but the one removed are kept, in their order.                  *)
LEMMA RemovedRows ==
  ASSUME NEW t \in Tables, NEW q, NEW fd \in Fds, NEW typ \in Types,
         FirstRow(t, fd, typ) # 0, SockRemoved(t, q, fd, typ)
  PROVE  \E k \in 1 .. count(t) :
           /\ t.rows[k].sock = fd /\ t.rows[k].typ = typ
           /\ count(t) \in Nat /\ count(q) = count(t) - 1
           /\ \A i \in 1 .. count(q) : i < k => q.rows[i] = t.rows[i]
           /\ \A i \in 1 .. count(q) : i >= k => q.rows[i] = t.rows[i + 1]
<1>1. PICK k : k = FirstRow(t, fd, typ)
  OBVIOUS
<1>2. k \in 1 .. count(t) /\ t.rows[k].sock = fd /\ t.rows[k].typ = typ
  BY <1>1, FirstRowFound, RowsAre
<1>3. q.rows = RemoveAt(t.rows, k)
  BY <1>1 DEF SockRemoved
<1>4. PICK s \in Seq(Rows) : s = t.rows
  BY RowsAre
<1>5. PICK r : r = RemoveAt(s, k)
  OBVIOUS
<1>6. Len(r) = Len(s) - 1 /\ \A j \in 1 .. Len(s) - 1 : r[j] = IF j < k THEN s[j] ELSE s[j + 1]
  BY <1>2, <1>4, <1>5, RemoveAtItems DEF count
<1>7. q.rows = r /\ count(q) = Len(r) /\ count(t) = Len(s) /\ count(t) \in Nat
  BY <1>3, <1>4, <1>5 DEF count
<1>8. count(q) = count(t) - 1
  BY <1>6, <1>7
<1>9. ASSUME NEW i \in 1 .. count(q)
      PROVE  q.rows[i] = IF i < k THEN t.rows[i] ELSE t.rows[i + 1]
  BY <1>4, <1>6, <1>7, <1>8
<1>10. \A i \in 1 .. count(q) : i >= k => ~(i < k)
  BY <1>2, <1>7, <1>8
<1>11. QED
  BY <1>2, <1>7, <1>8, <1>9, <1>10

(* A place before the removed one stays, one behind it moves up.           *)
LEMMA RemovedPlaces ==
  ASSUME NEW n \in Nat, NEW k \in 1 .. n, NEW R, NEW Q,
         \A i \in 1 .. n - 1 : i < k => Q[i] = R[i],
         \A i \in 1 .. n - 1 : i >= k => Q[i] = R[i + 1]
  PROVE  /\ \A i \in 1 .. n - 1 : \E j \in 1 .. n :
              j # k /\ Q[i] = R[j] /\ (i < k => j = i) /\ (i >= k => j = i + 1)
         /\ \A j \in 1 .. n : j # k => \E i \in 1 .. n - 1 :
              Q[i] = R[j] /\ (j < k => i = j) /\ (j > k => i = j - 1)
<1>1. ASSUME NEW i \in 1 .. n - 1
      PROVE  \E j \in 1 .. n : j # k /\ Q[i] = R[j] /\ (i < k => j = i) /\ (i >= k => j = i + 1)
  <2>1. CASE i < k
    <3>1. i \in 1 .. n /\ Q[i] = R[i]
      BY <2>1
    <3>2. QED
      BY <2>1, <3>1
  <2>2. CASE i >= k
    <3>1. i + 1 \in 1 .. n /\ i + 1 # k /\ Q[i] = R[i + 1]
      BY <2>2
    <3>2. QED
      BY <2>2, <3>1
  <2>3. QED
    BY <2>1, <2>2
<1>2. ASSUME NEW j \in 1 .. n, j # k
      PROVE  \E i \in 1 .. n - 1 : Q[i] = R[j] /\ (j < k => i = j) /\ (j > k => i = j - 1)
  <2>1. CASE j < k
    <3>1. j \in 1 .. n - 1 /\ Q[j] = R[j]
      BY <2>1
    <3>2. QED
      BY <2>1, <3>1
  <2>2. CASE j > k
    <3>1. j - 1 \in 1 .. n - 1 /\ j - 1 >= k /\ (j - 1) + 1 = j
      BY <2>2
    <3>2. Q[j - 1] = R[j]
      BY <3>1
    <3>3. QED
      BY <2>2, <3>1, <3>2
  <2>3. QED
    BY <1>2, <2>1, <2>2
<1>3. QED
  BY <1>1, <1>2

(* The rows of q are those of t without the k-th, which is one of fd.      *)
MovedUp(t, q, fd, typ, k) ==
  /\ t.rows[k].sock = fd /\ t.rows[k].typ = typ
  /\ count(t) \in Nat /\ count(q) = count(t) - 1
  /\ \A i \in 1 .. count(q) : \E j \in 1 .. count(t) :
       j # k /\ q.rows[i] = t.rows[j] /\ (i < k => j = i) /\ (i >= k => j = i + 1)
  /\ \A j \in 1 .. count(t) : j # k => \E i \in 1 .. count(q) :
       q.rows[i] = t.rows[j] /\ (j < k => i = j) /\ (j > k => i = j - 1)

(* One row has gone, and the others have moved up.                         *)
LEMMA RemovedMoves ==
  ASSUME NEW t \in Tables, NEW q, NEW fd \in Fds, NEW typ \in Types,
         FirstRow(t, fd, typ) # 0, SockRemoved(t, q, fd, typ)
  PROVE  \E k \in 1 .. count(t) : MovedUp(t, q, fd, typ, k)
<1>1. PICK n, k, R, Q :
        /\ n = count(t) /\ k \in 1 .. n /\ R = t.rows /\ Q = q.rows /\ n \in Nat /\ count(q) = n - 1
        /\ R[k].sock = fd /\ R[k].typ = typ
        /\ \A i \in 1 .. n - 1 : i < k => Q[i] = R[i]
        /\ \A i \in 1 .. n - 1 : i >= k => Q[i] = R[i + 1]
  <2>1. PICK k \in 1 .. count(t) :
          /\ t.rows[k].sock = fd /\ t.rows[k].typ = typ
          /\ count(t) \in Nat /\ count(q) = count(t) - 1
          /\ \A i \in 1 .. count(q) : i < k => q.rows[i] = t.rows[i]
          /\ \A i \in 1 .. count(q) : i >= k => q.rows[i] = t.rows[i + 1]
    BY RemovedRows
  <2>2. QED
    BY <2>1
<1>2. /\ \A i \in 1 .. n - 1 : \E j \in 1 .. n :
           j # k /\ Q[i] = R[j] /\ (i < k => j = i) /\ (i >= k => j = i + 1)
      /\ \A j \in 1 .. n : j # k => \E i \in 1 .. n - 1 :
           Q[i] = R[j] /\ (j < k => i = j) /\ (j > k => i = j - 1)
  BY <1>1, RemovedPlaces
<1>3. QED
  BY <1>1, <1>2 DEF MovedUp

(* The arrays stay large enough.                                           *)
LEMMA RemovedFits ==
  ASSUME NEW t \in Tables, NEW q, NEW fd \in Fds, NEW typ \in Types,
         FirstRow(t, fd, typ) # 0, SockRemoved(t, q, fd, typ), Fits(t)
  PROVE  Fits(q)
<1> PICK k \in 1 .. count(t) : MovedUp(t, q, fd, typ, k)
  BY RemovedMoves
<1>1. /\ t.rows[k].sock = fd /\ t.rows[k].typ = typ
      /\ count(t) \in Nat /\ count(q) = count(t) - 1
      /\ \A i \in 1 .. count(q) : \E j \in 1 .. count(t) :
           j # k /\ q.rows[i] = t.rows[j] /\ (i < k => j = i) /\ (i >= k => j = i + 1)
      /\ \A j \in 1 .. count(t) : j # k => \E i \in 1 .. count(q) :
           q.rows[i] = t.rows[j] /\ (j < k => i = j) /\ (j > k => i = j - 1)
  BY DEF MovedUp
<1>2. count(q) <= q.max_events
  BY <1>1 DEF SockRemoved, Tables, Fits
<1>3. \A i \in 1 .. count(q) : q.rows[i].sock < q.max_fd
  BY <1>1 DEF SockRemoved, Fits
<1>4. ASSUME NEW x \in Fds, q.watched[x] # "no" PROVE Registered(q, x)
  <2>1. x # fd /\ t.watched[x] # "no"
    BY <1>4 DEF SockRemoved, Tables
  <2>2. PICK j \in 1 .. count(t) : t.rows[j].sock = x
    BY <2>1 DEF Fits, Registered
  <2>3. QED
    BY <1>1, <2>1, <2>2 DEF Registered
<1>5. QED
  BY <1>2, <1>3, <1>4 DEF Fits

(* The other descriptors are as tidy as they were, ...                     *)
LEMMA RemovedOthersTidy ==
  ASSUME NEW t \in Tables, NEW q, NEW fd \in Fds, NEW typ \in Types,
         FirstRow(t, fd, typ) # 0, SockRemoved(t, q, fd, typ),
         NEW x \in Fds, x # fd, NEW n, NEW o, Tidy(t, n, o, x)
  PROVE  Tidy(q, n, o, x)
<1> PICK k \in 1 .. count(t) : MovedUp(t, q, fd, typ, k)
  BY RemovedMoves
<1>1. /\ t.rows[k].sock = fd /\ t.rows[k].typ = typ
      /\ count(t) \in Nat /\ count(q) = count(t) - 1
      /\ \A i \in 1 .. count(q) : \E j \in 1 .. count(t) :
           j # k /\ q.rows[i] = t.rows[j] /\ (i < k => j = i) /\ (i >= k => j = i + 1)
      /\ \A j \in 1 .. count(t) : j # k => \E i \in 1 .. count(q) :
           q.rows[i] = t.rows[j] /\ (j < k => i = j) /\ (j > k => i = j - 1)
  BY DEF MovedUp
<1>2. q.watched[x] = t.watched[x] /\ q.entry[x] = t.entry[x]
  BY DEF SockRemoved, Tables
<1>3. Registered(q, x) <=> Registered(t, x)
  BY <1>1 DEF Registered
<1>4. CASE Registered(t, x)
  <2>1. /\ n > 0 /\ t.watched[x] # "no"
        /\ \A i \in 1 .. count(t) : t.rows[i].sock = x =>
             t.rows[i].typ = t.watched[x] /\ t.rows[i].h = H(x, t.watched[x], n)
        /\ \A i, j \in 1 .. count(t) : t.rows[i].sock = x /\ t.rows[j].sock = x => i = j
        /\ \/ t.entry[x] = H(x, t.watched[x], n)
           \/ o # None /\ o.sock = x /\ t.entry[x] \in {None, Garbage}
    BY <1>4 DEF Tidy
  <2>2. \A i \in 1 .. count(q) : q.rows[i].sock = x =>
          q.rows[i].typ = q.watched[x] /\ q.rows[i].h = H(x, q.watched[x], n)
    BY <1>1, <1>2, <2>1
  <2>3. ASSUME NEW i \in 1 .. count(q), NEW j \in 1 .. count(q), q.rows[i].sock = x, q.rows[j].sock = x
        PROVE  i = j
    <3>1. PICK a \in 1 .. count(t) : q.rows[i] = t.rows[a] /\ (i < k => a = i) /\ (i >= k => a = i + 1)
      BY <1>1
    <3>2. PICK b \in 1 .. count(t) : q.rows[j] = t.rows[b] /\ (j < k => b = j) /\ (j >= k => b = j + 1)
      BY <1>1
    <3>3. a = b
      BY <2>1, <2>3, <3>1, <3>2
    <3>4. QED
      BY <1>1, <3>1, <3>2, <3>3
  <2>4. QED
    BY <1>2, <1>3, <1>4, <2>1, <2>2, <2>3 DEF Tidy
<1>5. CASE ~Registered(t, x)
  BY <1>2, <1>3, <1>5 DEF Tidy
<1>6. QED
  BY <1>4, <1>5

(* ... and a tidy descriptor is not registered any more.                   *)
LEMMA RemovedTidy ==
  ASSUME NEW t \in Tables, NEW q, NEW fd \in Fds, NEW typ \in Types,
         FirstRow(t, fd, typ) # 0, SockRemoved(t, q, fd, typ),
         NEW m, NEW o, Tidy(t, m, o, fd)
  PROVE  ~Registered(q, fd) /\ \A n, p : Tidy(q, n, p, fd)
<1> PICK k \in 1 .. count(t) : MovedUp(t, q, fd, typ, k)
  BY RemovedMoves
<1>1. /\ t.rows[k].sock = fd /\ t.rows[k].typ = typ
      /\ count(t) \in Nat /\ count(q) = count(t) - 1
      /\ \A i \in 1 .. count(q) : \E j \in 1 .. count(t) :
           j # k /\ q.rows[i] = t.rows[j] /\ (i < k => j = i) /\ (i >= k => j = i + 1)
      /\ \A j \in 1 .. count(t) : j # k => \E i \in 1 .. count(q) :
           q.rows[i] = t.rows[j] /\ (j < k => i = j) /\ (j > k => i = j - 1)
  BY DEF MovedUp
<1>2. Registered(t, fd)
  BY <1>1 DEF Registered
<1>3. t.watched[fd] # "no" /\ \A i, j \in 1 .. count(t) : t.rows[i].sock = fd /\ t.rows[j].sock = fd => i = j
  BY <1>2 DEF Tidy
<1>4. ~Registered(q, fd)
  BY <1>1, <1>3 DEF Registered
<1>5. q.watched[fd] = "no" /\ q.entry[fd] = None
  BY <1>3 DEF SockRemoved, Tables
<1>6. QED
  BY <1>4, <1>5 DEF Tidy

(* A last row stays the last of its type.                                  *)
LEMMA RemovedLast ==
  ASSUME NEW t \in Tables, NEW q, NEW fd \in Fds, NEW typ \in Types,
         FirstRow(t, fd, typ) # 0, SockRemoved(t, q, fd, typ),
         NEW x, NEW ty, x # fd \/ ty # typ, HasLast(t, x, ty)
  PROVE  HasLast(q, x, ty)
<1> PICK k \in 1 .. count(t) : MovedUp(t, q, fd, typ, k)
  BY RemovedMoves
<1>1. /\ t.rows[k].sock = fd /\ t.rows[k].typ = typ
      /\ count(t) \in Nat /\ count(q) = count(t) - 1
      /\ \A i \in 1 .. count(q) : \E j \in 1 .. count(t) :
           j # k /\ q.rows[i] = t.rows[j] /\ (i < k => j = i) /\ (i >= k => j = i + 1)
      /\ \A j \in 1 .. count(t) : j # k => \E i \in 1 .. count(q) :
           q.rows[i] = t.rows[j] /\ (j < k => i = j) /\ (j > k => i = j - 1)
  BY DEF MovedUp
<1>2. PICK b \in 1 .. count(t) : t.rows[b].sock = x /\ t.rows[b].typ = ty /\ IsLast(t, b)
  BY DEF HasLast
<1>3. b # k
  BY <1>1, <1>2
<1>4. PICK a \in 1 .. count(q) : q.rows[a] = t.rows[b] /\ (b < k => a = b) /\ (b > k => a = b - 1)
  BY <1>1, <1>3
<1>5. ASSUME NEW i \in 1 .. count(q), q.rows[i].typ = ty PROVE i <= a
  <2>1. PICK j \in 1 .. count(t) : q.rows[i] = t.rows[j] /\ (i < k => j = i) /\ (i >= k => j = i + 1)
    BY <1>1
  <2>2. j <= b
    BY <1>2, <1>5, <2>1 DEF IsLast
  <2>3. QED
    BY <1>1, <1>3, <1>4, <2>1, <2>2
<1>6. IsLast(q, a)
  BY <1>2, <1>4, <1>5 DEF IsLast
<1>7. QED
  BY <1>2, <1>4, <1>6 DEF HasLast

(* What only the rows say.                                                 *)
LEMMA RowsSay ==
  ASSUME NEW t, NEW q, q.rows = t.rows, NEW x, NEW ty
  PROVE  /\ count(q) = count(t) /\ (Registered(q, x) <=> Registered(t, x))
         /\ HasLast(q, x, ty) <=> HasLast(t, x, ty)
BY DEF count, Registered, HasLast, IsLast

(* The arrays fit when nobody is watched who was not.                      *)
LEMMA FewerFit ==
  ASSUME NEW t, NEW q, Fits(t), q.rows = t.rows, q.max_fd = t.max_fd, q.max_events = t.max_events,
         \A x \in Fds : q.watched[x] # "no" => t.watched[x] # "no"
  PROVE  Fits(q)
BY RowsSay DEF Fits

(* A descriptor with the same entry, watched as before, is as tidy.        *)
LEMMA AlikeTidy ==
  ASSUME NEW t, NEW q, NEW fd, NEW n, NEW o, Tidy(t, n, o, fd), q.rows = t.rows,
         q.watched[fd] = t.watched[fd], q.entry[fd] = t.entry[fd], NEW p,
         p = o \/ q.entry[fd] \notin {None, Garbage} \/ (o # None => o.sock # fd)
  PROVE  Tidy(q, n, p, fd)
<1>1. count(q) = count(t) /\ (Registered(q, fd) <=> Registered(t, fd))
  BY RowsSay
<1>2. CASE Registered(t, fd)
  BY <1>1, <1>2 DEF Tidy
<1>3. CASE ~Registered(t, fd)
  BY <1>1, <1>3 DEF Tidy
<1>4. QED
  BY <1>2, <1>3

(* A descriptor without a row that is closed is tidy.                      *)
LEMMA UnwatchedTidy ==
  ASSUME NEW t \in Tables, NEW q, NEW fd \in Fds, Unwatched(t, q, fd), ~Registered(t, fd),
         NEW m, NEW o, Tidy(t, m, o, fd), NEW n, NEW p
  PROVE  Tidy(q, n, p, fd)
<1>1. q.watched[fd] = "no" /\ q.entry[fd] = t.entry[fd] /\ ~Registered(q, fd)
  BY RowsSay DEF Unwatched, Tables
<1>2. QED
  BY <1>1 DEF Tidy

(* The entry written is that of the row, if it is the last of its type.    *)
LEMMA StoredTidy ==
  ASSUME NEW t \in Tables, NEW q, NEW fd \in Fds, NEW typ \in Types, Stored(t, q, fd, typ),
         NEW n, NEW o, Tidy(t, n, o, fd), HasLast(t, fd, typ) \/ count(t) = 0, NEW p
  PROVE  Tidy(q, n, p, fd)
<1>1. q.watched = t.watched /\ q.entry[fd] = LastOf(t, typ) /\ (Registered(q, fd) <=> Registered(t, fd))
  BY RowsSay DEF Stored, Tables
<1>2. q.rows = t.rows /\ count(q) = count(t)
  BY RowsSay DEF Stored
<1>3. CASE HasLast(t, fd, typ)
  <2>1. PICK i \in 1 .. count(t) : t.rows[i].sock = fd /\ t.rows[i].typ = typ /\ IsLast(t, i)
    BY <1>3 DEF HasLast
  <2>2. LastOf(t, typ) = t.rows[i].h
    BY <2>1, LastOfIs
  <2>3. Registered(t, fd)
    BY <2>1 DEF Registered
  <2>4. t.rows[i].h = H(fd, t.watched[fd], n)
    BY <2>1, <2>3 DEF Tidy
  <2>5. QED
    BY <1>1, <1>2, <2>2, <2>3, <2>4 DEF Tidy
<1>4. CASE count(t) = 0
  <2>1. ~Registered(t, fd) /\ LastOf(t, typ) = Garbage
    BY <1>4, LastOfIs DEF Registered
  <2>2. QED
    BY <1>1, <2>1 DEF Tidy
<1>5. QED
  BY <1>3, <1>4
-----------------------------------------------------------------------------
(***************************************************************************)
(* Signals.                                                                *)
(***************************************************************************)
(* There is a number of signals.                                           *)
LEMMA SigsCounted == Len(Sigs) \in Nat
BY EloopAssumption

(* Before the loop runs there is nothing to be heard.                      *)
LEMMA InitSignals == Init => SignalsInv
<1> SUFFICES ASSUME Init PROVE SignalsInv
  OBVIOUS
<1>1. pc = "setup" /\ sigi = 0 /\ events = <<>> /\ signaled = FALSE /\ pending = FALSE /\ missed = FALSE
  BY DEF Init
<1>2. signals \in [1 .. Len(Sigs) -> BOOLEAN] /\ \A i \in 1 .. Len(Sigs) : ~signals[i]
  BY DEF Init
<1>3. Control
  BY <1>1 DEF Control, Passing
<1>4. Heard
  BY <1>1, <1>2 DEF Heard
<1>5. QED
  BY <1>3, <1>4 DEF SignalsInv

(* What the code that uses the loop, another thread and the environment,   *)
(* signals apart, leave alone.                                             *)
LEMMA OthersSteps ==
  ASSUME \/ AppStep \/ OtherStep \/ Tick \/ Terminate \/ \E fd \in Fds : Arrive(fd)
  PROVE  UNCHANGED <<sigs, run>>
BY DEF AppStep, OtherStep, Open, Close, Register, Unregister, CancelTimeoutOne, CancelTimeout,
       RegisterTimeout, DepleteTimeout, ReplenishTimeout, Reset, OtherRegisters, OtherUnregisters,
       OtherStores, Tick, Terminate, Arrive, sigs, run

(* The invariant is kept by every step, by the pass over signals and the   *)
(* two places that start it above all.                                     *)
LEMMA StepSignals == SignalsInv /\ [Next]_vars => SignalsInv'
<1> SUFFICES ASSUME SignalsInv, [Next]_vars PROVE SignalsInv'
  OBVIOUS
<1> USE DEF SignalsInv
<1>1. CASE UNCHANGED <<sigs, run>>
  BY <1>1 DEF sigs, run, Control, Heard, Passing
<1>2. CASE UNCHANGED vars
  BY <1>1, <1>2 DEF vars
<1>3. CASE AppStep \/ OtherStep \/ Tick \/ Terminate \/ \E fd \in Fds : Arrive(fd)
  BY <1>1, <1>3, OthersSteps
<1>4. ASSUME NEW i \in 1 .. Len(Sigs), Signal(i) PROVE SignalsInv'
  <2>1. Control'
    BY <1>4 DEF Signal, Control, Passing
  <2>2. signals' \in [1 .. Len(Sigs) -> BOOLEAN] /\ signaled' = TRUE /\ pending' \in BOOLEAN /\ missed' \in BOOLEAN
    BY <1>4 DEF Signal, Heard
  <2>3. pending' /\ (pc' \in {"presleep", "asleep"} \/ (sigi' > 0 /\ back' = "presleep")) => missed'
    BY <1>4 DEF Signal, Heard
  <2>4. QED
    BY <2>1, <2>2, <2>3 DEF Heard
<1>5. CASE SignalPass
  <2> DEFINE due == {i \in sigi .. Len(Sigs) : signals[i]}
  <2>1. pc = "signals" /\ sigi \in Nat /\ sigi > 0 /\ UNCHANGED <<signaled, pending, back, missed, events>>
    BY <1>5 DEF SignalPass, Control, Passing
  <2>2. CASE due # {}
    <3>1. due \subseteq Nat
      BY <2>1
    <3>2. PICK i \in due : \A k \in due : i <= k
      BY <2>2, <3>1, MinExists
    <3>3. (CHOOSE j \in due : \A k \in due : j <= k) = i
      <4> HIDE DEF due
      <4>1. \A j \in due : (\A k \in due : j <= k) => j = i
        BY <3>1, <3>2
      <4>2. QED
        BY <3>2, <4>1
    <3>4. /\ signals' = [signals EXCEPT ![i] = FALSE] /\ sigi' = i + 1
          /\ pc' = "handler" /\ cur' = [after |-> "signals", fd |-> -1]
      BY <1>5, <2>2, <3>3 DEF SignalPass
    <3>5. i \in sigi .. Len(Sigs) /\ \A k \in sigi .. Len(Sigs) : signals[k] => i <= k
      BY <3>2
    <3>6. Control'
      BY <2>1, <3>4, <3>5 DEF Control, Passing
    <3>7. \A k \in 1 .. Len(Sigs) : signals'[k] => signaled' \/ (sigi' > 0 /\ k >= sigi')
      BY <2>1, <3>4, <3>5, EloopAssumption DEF Heard
    <3>8. Heard'
      BY <2>1, <3>4, <3>7 DEF Heard
    <3>9. QED
      BY <3>6, <3>8
  <2>3. CASE due = {}
    <3>1. sigi' = 0 /\ signals' = signals /\ cur' = cur /\ pc' = IF back = "presleep" /\ eterm THEN "done" ELSE back
      BY <1>5, <2>3 DEF SignalPass
    <3>2. \A k \in 1 .. Len(Sigs) : signals[k] => signaled
      BY <2>1, <2>3, EloopAssumption DEF Heard
    <3>3. Control'
      BY <2>1, <3>1 DEF Control, Passing
    <3>4. Heard'
      BY <2>1, <3>1, <3>2 DEF Heard, Control
    <3>5. QED
      BY <3>3, <3>4
  <2>4. QED
    BY <2>2, <2>3
<1>6. CASE Top
  <2>1. CASE pc' = "signals"
    <3>1. /\ pc = "top" /\ sigi' = 1 /\ signaled' = FALSE /\ pending' = FALSE /\ missed' = FALSE
          /\ back' = "presleep" /\ UNCHANGED <<signals, cur, events>>
      BY <1>6, <2>1 DEF Top, ProcessSignals, Control
    <3>2. Control'
      BY <2>1, <3>1 DEF Control, Passing
    <3>3. Heard'
      <4>1. \A i \in 1 .. Len(Sigs) : sigi' > 0 /\ i >= sigi'
        BY <3>1, SigsCounted
      <4>2. QED
        BY <3>1, <4>1 DEF Heard
    <3>4. QED
      BY <3>2, <3>3
  <2>2. CASE pc' # "signals"
    <3>1. Control'
      BY <1>6, <2>2 DEF Top, ProcessSignals, Control, Passing
    <3>2. pc' = "presleep" => ~pending'
      BY <1>6, <2>2 DEF Top, ProcessSignals, Heard
    <3>3. pc' \in {"presleep", "done"} /\ sigi = 0 /\ UNCHANGED <<signals, signaled, pending, missed, sigi>>
      BY <1>6, <2>2 DEF Top, ProcessSignals, Control, Passing
    <3>4. Heard'
      BY <3>2, <3>3 DEF Heard
    <3>5. QED
      BY <3>1, <3>4
  <2>3. QED
    BY <2>1, <2>2
<1>7. CASE Woken
  <2>1. CASE signaled
    <3>1. /\ pc = "woken" /\ pc' = "signals" /\ sigi' = 1 /\ signaled' = FALSE /\ pending' = FALSE
          /\ missed' = FALSE /\ back' = "timeouts" /\ UNCHANGED <<signals, cur, events>>
      BY <1>7, <2>1 DEF Woken, ProcessSignals
    <3>2. Control'
      BY <3>1 DEF Control, Passing
    <3>3. Heard'
      <4>1. \A i \in 1 .. Len(Sigs) : sigi' > 0 /\ i >= sigi'
        BY <3>1, SigsCounted
      <4>2. QED
        BY <3>1, <4>1 DEF Heard
    <3>4. QED
      BY <3>2, <3>3
  <2>2. CASE ~signaled
    BY <1>7, <2>2 DEF Woken, ProcessSignals, Control, Heard, Passing
  <2>3. QED
    BY <2>1, <2>2
<1>8. CASE Begin \/ Sleep \/ Wake
  BY <1>8 DEF Begin, Sleep, Wake, sigs, Control, Heard, Passing
<1>9. CASE RunTimeout \/ Sockets \/ Dispatch
  BY <1>9 DEF RunTimeout, Sockets, Dispatch, sigs, Control, Heard, Passing
<1>10. CASE Return \/ Destroy
  BY <1>10 DEF Return, Destroy, NoHandler, sigs, Control, Heard, Passing
<1>11. QED
  BY <1>2, <1>3, <1>4, <1>5, <1>6, <1>7, <1>8, <1>9, <1>10 DEF Next, LoopStep, Environment

(* No signal is forgotten and the loop never sleeps with a terminating one *)
(* unanswered, whatever signals come between the steps of the pass over    *)
(* those that have come before.                                            *)
THEOREM SignalsAlwaysHeard == Spec => []SignalsHeard
<1>1. SignalsInv => SignalsHeard
  BY DEF SignalsInv, Control, Heard, SignalsHeard, NoSignalForgotten, SleepsInformed
<1>2. QED
  BY <1>1, InitSignals, StepSignals, PTL DEF Spec
-----------------------------------------------------------------------------
(***************************************************************************)
(* Tables.                                                                 *)
(***************************************************************************)
(* Nothing is registered before the loop runs.                             *)
LEMMA InitTables == Init => TablesInv
<1> SUFFICES ASSUME Init PROVE TablesInv
  OBVIOUS
<1>1. PICK t : t = EmptyTables
  OBVIOUS
<1>2. t \in Tables /\ t.rows = <<>> /\ t.max_events = 0 /\ t.watched = [fd \in Fds |-> "no"]
      /\ t.entry = [fd \in Fds |-> Garbage]
  BY <1>1 DEF EmptyTables, Tables
<1>3. tab = t /\ file = [fd \in Fds |-> 0] /\ ready = {} /\ untidy = {} /\ other = None /\ pc = "setup"
  BY <1>1 DEF Init
<1>4. count(t) = 0 /\ \A fd : ~Registered(t, fd)
  BY <1>2 DEF count, Registered
<1>5. Shaped
  BY <1>2, <1>3, EloopAssumption DEF Shaped
<1>6. Fits(tab)
  BY <1>2, <1>3, <1>4 DEF Fits
<1>7. \A fd \in Fds : Tidy(tab, file[fd], other, fd)
  BY <1>2, <1>3, <1>4 DEF Tidy
<1>8. QED
  BY <1>3, <1>5, <1>6, <1>7 DEF TablesInv, Copies

(* Only eloop_destroy destroys the loop, and nothing revives it.           *)
LEMMA Destroyed ==
  ASSUME SignalsInv, Next, ~Destroy
  PROVE  pc' = "destroyed" <=> pc = "destroyed"
<1>1. pc = "signals" => back \in {"presleep", "timeouts"}
  BY DEF SignalsInv, Control, Passing
<1>2. pc = "handler" => cur.after \in {"signals", "sockets", "dispatch"}
  BY DEF SignalsInv, Control
<1>3. CASE AppStep \/ OtherStep \/ Tick \/ Terminate \/ \E fd \in Fds : Arrive(fd)
  BY <1>3, OthersSteps DEF run
<1>4. CASE \E i \in 1 .. Len(Sigs) : Signal(i)
  BY <1>4 DEF Signal
<1>5. CASE Begin \/ Top \/ Sleep \/ Wake \/ Woken
  BY <1>5 DEF Begin, Top, Sleep, Wake, Woken, ProcessSignals
<1>6. CASE SignalPass
  BY <1>1, <1>6 DEF SignalPass
<1>7. CASE RunTimeout \/ Sockets \/ Dispatch \/ Return
  BY <1>2, <1>7 DEF RunTimeout, Sockets, Dispatch, Return
<1>8. QED
  BY <1>3, <1>4, <1>5, <1>6, <1>7 DEF Next, LoopStep, Environment

(* What the loop, signals and the clock leave alone.                       *)
LEMMA TablesKept ==
  ASSUME TablesInv, UNCHANGED <<tab, file, untidy, other>>, ready' \subseteq Fds,
         pc' = "destroyed" <=> pc = "destroyed"
  PROVE  TablesInv'
<1>1. Shaped'
  BY DEF TablesInv, Shaped
<1>2. Fits(tab)' /\ \A fd \in Fds \ untidy' : Tidy(tab, file[fd], other, fd)'
  BY DEF TablesInv
<1>3. Copies'
  BY DEF TablesInv, Copies
<1>4. QED
  BY <1>1, <1>2, <1>3 DEF TablesInv

(* A socket of the loop's thread.  The new entry is its own, and another   *)
(* thread that is about to write one of that type is overtaken.            *)
LEMMA RegisterTables ==
  ASSUME TablesInv, NEW fd \in Fds, NEW typ \in Types, Register(fd, typ)
  PROVE  TablesInv'
<1>1. PICK h : h = H(fd, typ, file[fd])
  OBVIOUS
<1>2. /\ file[fd] > 0 /\ UNCHANGED <<file, ready, other, pc>>
      /\ tab' = RegisterSock(tab, fd, typ, h, TRUE)
      /\ untidy' = untidy \cup Already(fd) \cup Storing(typ) /\ pc # "destroyed"
  BY <1>1 DEF Register, Adds, outside, run, InApp
<1>3. tab \in Tables /\ h \in Handlers /\ Shaped /\ Fits(tab) /\ file[fd] \in Int
  BY <1>1, EloopAssumption DEF TablesInv, Shaped, H, Handlers
<1>4. SockRegistered(tab, tab', fd, typ, h)
  BY <1>2, <1>3, RegisterSockIs
<1>5. Grown(tab, tab', fd, typ, h)
  BY <1>4 DEF SockRegistered
<1>6. Shaped'
  BY <1>2, <1>3, <1>5 DEF Shaped, Grown, Already, Storing
<1>7. Fits(tab)'
  BY <1>3, <1>5, GrownFits
<1>8. ASSUME NEW x \in Fds \ untidy' PROVE Tidy(tab, file[x], other, x)'
  <2>1. Tidy(tab, file[x], other, x) /\ x \notin Already(fd)
    BY <1>2, <1>8 DEF TablesInv
  <2>2. CASE x # fd
    <3>1. tab'.entry[x] = tab.entry[x]
      BY <1>3, <1>4, <2>2 DEF SockRegistered, Tables
    <3>2. QED
      BY <1>2, <1>3, <1>5, <2>1, <2>2, <3>1, GrownOthersTidy
  <2>3. CASE x = fd
    <3>1. ~Registered(tab, fd)
      BY <2>1, <2>3 DEF Already
    <3>2. tab.watched[fd] = "no"
      BY <2>1, <2>3, <3>1 DEF Tidy
    <3>3. tab'.entry[fd] = h
      BY <1>3, <1>4, <3>2 DEF SockRegistered, Tables
    <3>4. PICK t, q, n, o : t = tab /\ q = tab' /\ n = file[fd] /\ o = other
      OBVIOUS
    <3>5. t \in Tables /\ Grown(t, q, fd, typ, h) /\ ~Registered(t, fd) /\ Tidy(t, n, o, fd)
      BY <1>3, <1>5, <2>1, <2>3, <3>1, <3>4
    <3>6. n > 0 /\ h = H(fd, typ, n) /\ q.entry[fd] = h
      BY <1>1, <1>2, <3>3, <3>4
    <3>7. Tidy(q, n, o, fd)
      BY <1>3, <3>5, <3>6, GrownTidy
    <3>8. QED
      BY <1>2, <2>3, <3>4, <3>7
  <2>4. QED
    BY <2>2, <2>3
<1>9. Copies'
  <2> SUFFICES ASSUME other # None, other.sock \notin untidy' PROVE HasLast(tab', other.sock, other.typ)
    BY <1>2 DEF Copies
  <2>1. other \in [sock : Fds, typ : Types] /\ other.sock \notin untidy
    BY <1>2, <1>3 DEF Shaped
  <2>2. other.typ # typ
    <3>1. other = [sock |-> other.sock, typ |-> other.typ] /\ other.sock \in Fds
      BY <2>1
    <3>2. other.typ = typ => other.sock \in Storing(typ)
      BY <3>1 DEF Storing
    <3>3. QED
      BY <1>2, <3>2
  <2>3. HasLast(tab, other.sock, other.typ)
    BY <1>2, <2>1 DEF TablesInv, Copies
  <2>4. QED
    BY <1>3, <1>5, <2>2, <2>3, GrownLast
<1>10. QED
  BY <1>6, <1>7, <1>8, <1>9 DEF TablesInv

(* A descriptor that is closed while it is registered is untidy.           *)
LEMMA CloseTables ==
  ASSUME TablesInv, NEW fd \in Fds, Close(fd)
  PROVE  TablesInv'
<1>1. /\ file[fd] > 0 /\ file' = [file EXCEPT ![fd] = -@] /\ ready' \subseteq ready
      /\ tab' = Closed(tab, fd) /\ untidy' = untidy \cup Already(fd)
      /\ UNCHANGED <<other, pc>> /\ pc # "destroyed"
  BY DEF Close, outside, run, InApp
<1>2. tab \in Tables /\ Shaped /\ Fits(tab) /\ file \in [Fds -> -MaxGen .. MaxGen] /\ MaxGen \in Nat
  BY EloopAssumption DEF TablesInv, Shaped
<1>3. Unwatched(tab, tab', fd)
  BY <1>1, <1>2, ClosedIs
<1>4. Shaped'
  <2>1. file' \in [Fds -> -MaxGen .. MaxGen]
    BY <1>1, <1>2
  <2>2. QED
    BY <1>1, <1>2, <1>3, <2>1 DEF Shaped, Unwatched, Already
<1>5. Fits(tab)'
  BY <1>2, <1>3, FewerFit DEF Unwatched, Tables
<1>6. ASSUME NEW x \in Fds \ untidy' PROVE Tidy(tab, file[x], other, x)'
  <2>1. Tidy(tab, file[x], other, x) /\ x \notin Already(fd)
    BY <1>1, <1>6 DEF TablesInv
  <2>2. CASE x # fd
    <3>1. tab'.entry[x] = tab.entry[x] /\ tab'.watched[x] = tab.watched[x] /\ tab'.rows = tab.rows /\ file'[x] = file[x]
      BY <1>1, <1>2, <1>3, <2>2 DEF Unwatched, Tables
    <3>2. QED
      BY <1>1, <2>1, <3>1, AlikeTidy
  <2>3. CASE x = fd
    <3>1. ~Registered(tab, fd)
      BY <2>1, <2>3 DEF Already
    <3>2. QED
      BY <1>2, <1>3, <2>1, <2>3, <3>1, UnwatchedTidy
  <2>4. QED
    BY <2>2, <2>3
<1>7. Copies'
  BY <1>1, <1>3, RowsSay DEF TablesInv, Copies, Unwatched
<1>8. QED
  BY <1>4, <1>5, <1>6, <1>7 DEF TablesInv

(* A descriptor that is opened has no row, unless it is untidy.            *)
LEMMA OpenTables ==
  ASSUME TablesInv, NEW fd \in Fds, Open(fd)
  PROVE  TablesInv'
<1>1. /\ file[fd] \in (1 - MaxGen) .. 0 /\ file' = [file EXCEPT ![fd] = 1 - @]
      /\ UNCHANGED <<tab, ready, untidy, other, pc>>
  BY DEF Open, Lowest, outside, run
<1>2. Shaped /\ Fits(tab) /\ file \in [Fds -> -MaxGen .. MaxGen] /\ MaxGen \in Nat
  BY EloopAssumption DEF TablesInv, Shaped
<1>3. Shaped'
  <2>1. file' \in [Fds -> -MaxGen .. MaxGen]
    BY <1>1, <1>2
  <2>2. QED
    BY <1>1, <1>2, <2>1 DEF Shaped
<1>4. ASSUME NEW x \in Fds \ untidy' PROVE Tidy(tab, file[x], other, x)'
  <2>1. Tidy(tab, file[x], other, x)
    BY <1>1, <1>4 DEF TablesInv
  <2>2. CASE x # fd
    <3>1. file'[x] = file[x]
      BY <1>1, <1>2, <2>2
    <3>2. QED
      BY <1>1, <2>1, <3>1
  <2>3. CASE x = fd
    <3>1. ~(file[fd] > 0)
      BY <1>1
    <3>2. QED
      BY <1>1, <2>1, <2>3, <3>1 DEF Tidy
  <2>4. QED
    BY <2>2, <2>3
<1>5. Fits(tab)' /\ Copies'
  BY <1>1 DEF TablesInv, Copies
<1>6. QED
  BY <1>3, <1>4, <1>5 DEF TablesInv

(* Only the type of an unregistered socket is forgotten, and the entry     *)
(* with it.                                                                *)
LEMMA UnregisterTables ==
  ASSUME TablesInv, NEW fd \in Fds, NEW typ \in Types, Unregister(fd, typ), FirstRow(tab, fd, typ) # 0
  PROVE  TablesInv'
<1>1. /\ tab' = RemoveSock(tab, fd, typ) /\ untidy' = untidy \cup ({fd} \cap Storing(typ))
      /\ UNCHANGED <<file, ready, other, pc>> /\ pc # "destroyed"
  BY DEF Unregister, outside, run, InApp
<1>2. tab \in Tables /\ Shaped /\ Fits(tab)
  BY DEF TablesInv, Shaped
<1>3. SockRemoved(tab, tab', fd, typ)
  BY <1>1, <1>2, RemoveSockIs
<1>4. Shaped'
  BY <1>1, <1>2, <1>3 DEF Shaped, SockRemoved
<1>5. Fits(tab)'
  BY <1>2, <1>3, RemovedFits
<1>6. ASSUME NEW x \in Fds \ untidy' PROVE Tidy(tab, file[x], other, x)'
  <2>1. Tidy(tab, file[x], other, x)
    BY <1>1, <1>6 DEF TablesInv
  <2>2. CASE x # fd
    BY <1>1, <1>2, <1>3, <2>1, <2>2, RemovedOthersTidy
  <2>3. CASE x = fd
    BY <1>1, <1>2, <1>3, <2>1, <2>3, RemovedTidy
  <2>4. QED
    BY <2>2, <2>3
<1>7. Copies'
  <2> SUFFICES ASSUME other # None, other.sock \notin untidy' PROVE HasLast(tab', other.sock, other.typ)
    BY <1>1 DEF Copies
  <2>1. other \in [sock : Fds, typ : Types] /\ other.sock \notin untidy
    BY <1>1, <1>2 DEF Shaped
  <2>2. other.sock # fd \/ other.typ # typ
    <3>1. other = [sock |-> other.sock, typ |-> other.typ] /\ other.sock \in Fds
      BY <2>1
    <3>2. other.typ = typ => other.sock \in Storing(typ)
      BY <3>1 DEF Storing
    <3>3. QED
      BY <1>1, <3>2
  <2>3. HasLast(tab, other.sock, other.typ)
    BY <1>1, <2>1 DEF TablesInv, Copies
  <2>4. QED
    BY <1>2, <1>3, <2>2, <2>3, RemovedLast
<1>8. QED
  BY <1>4, <1>5, <1>6, <1>7 DEF TablesInv

(* Another thread's row is the last of its type until it is copied.        *)
LEMMA OtherRegistersTables ==
  ASSUME TablesInv, NEW fd \in Fds, NEW typ \in Types, OtherRegisters(fd, typ)
  PROVE  TablesInv'
<1>1. PICK n, h, p : n = 1 - file[fd] /\ h = H(fd, typ, n) /\ p = [sock |-> fd, typ |-> typ]
  OBVIOUS
<1>2. /\ file[fd] \in (1 - MaxGen) .. 0 /\ file' = [file EXCEPT ![fd] = n]
      /\ tab' = SockQueue(tab, fd, typ, h, TRUE)
      /\ untidy' = untidy \cup Already(fd) \cup Storing(typ)
      /\ other = None /\ other' = p /\ UNCHANGED <<ready, pc>> /\ pc = "asleep"
  BY <1>1 DEF OtherRegisters, Lowest, Adds, run
<1>3. /\ tab \in Tables /\ Shaped /\ Fits(tab) /\ file \in [Fds -> -MaxGen .. MaxGen] /\ MaxGen \in Nat
      /\ p \in [sock : Fds, typ : Types] /\ p # None /\ p.sock = fd /\ p.typ = typ
  BY <1>1, EloopAssumption DEF TablesInv, Shaped
<1>4. n \in 1 .. MaxGen /\ n > 0
  BY <1>1, <1>2, <1>3
<1>5. h \in Handlers
  BY <1>1, <1>4 DEF H, Handlers
<1>6. SockQueued(tab, tab', fd, typ, h)
  BY <1>2, <1>3, <1>5, SockQueueIs
<1>7. Grown(tab, tab', fd, typ, h) /\ tab'.entry = tab.entry
  BY <1>6 DEF SockQueued
<1>8. Shaped'
  <2>1. file' \in [Fds -> -MaxGen .. MaxGen]
    BY <1>2, <1>3, <1>4
  <2>2. QED
    BY <1>2, <1>3, <1>7, <2>1 DEF Shaped, Grown, Already, Storing
<1>9. Fits(tab)'
  BY <1>3, <1>5, <1>7, GrownFits
<1>10. ASSUME NEW x \in Fds \ untidy' PROVE Tidy(tab, file[x], other, x)'
  <2>1. Tidy(tab, file[x], None, x) /\ x \notin Already(fd)
    BY <1>2, <1>10 DEF TablesInv
  <2>2. CASE x # fd
    <3>1. Tidy(tab', file[x], p, x)
      BY <1>3, <1>5, <1>7, <2>1, <2>2, GrownOthersTidy
    <3>2. QED
      BY <1>2, <1>3, <2>2, <3>1
  <2>3. CASE x = fd
    <3>1. ~Registered(tab, fd)
      BY <2>1, <2>3 DEF Already
    <3>2. PICK t, q, m : t = tab /\ q = tab' /\ m = file[fd]
      OBVIOUS
    <3>3. t \in Tables /\ Grown(t, q, fd, typ, h) /\ ~Registered(t, fd) /\ Tidy(t, m, None, fd)
      BY <1>3, <1>7, <2>1, <2>3, <3>1, <3>2
    <3>4. h = H(fd, typ, n) /\ q.entry[fd] = t.entry[fd] /\ p # None /\ p.sock = fd
      BY <1>1, <1>3, <1>7, <3>2
    <3>5. Tidy(q, n, p, fd)
      BY <1>4, <1>5, <3>3, <3>4, GrownTidy
    <3>6. QED
      BY <1>2, <1>3, <2>3, <3>2, <3>5
  <2>4. QED
    BY <2>2, <2>3
<1>11. Copies'
  <2>1. HasLast(tab', fd, typ)
    BY <1>3, <1>5, <1>7, GrownLast
  <2>2. QED
    BY <1>2, <1>3, <2>1 DEF Copies
<1>12. QED
  BY <1>8, <1>9, <1>10, <1>11 DEF TablesInv

(* The row copied is that of the socket, unless it has been overtaken.     *)
LEMMA OtherStoresTables ==
  ASSUME TablesInv, OtherStores
  PROVE  TablesInv'
<1>1. /\ other # None /\ tab' = Store(tab, other.sock, other.typ) /\ other' = None
      /\ UNCHANGED <<file, ready, untidy, pc>>
  BY DEF OtherStores, run
<1>2. PICK fd \in Fds, typ \in Types : other.sock = fd /\ other.typ = typ
  BY <1>1 DEF TablesInv, Shaped
<1>3. tab \in Tables /\ Shaped /\ Fits(tab)
  BY DEF TablesInv, Shaped
<1>4. Stored(tab, tab', fd, typ)
  BY <1>1, <1>2, <1>3, StoreIs
<1>5. Shaped'
  BY <1>1, <1>3, <1>4 DEF Shaped, Stored
<1>6. Fits(tab)'
  BY <1>3, <1>4, FewerFit DEF Stored
<1>7. ASSUME NEW x \in Fds \ untidy' PROVE Tidy(tab, file[x], other, x)'
  <2>1. Tidy(tab, file[x], other, x)
    BY <1>1, <1>7 DEF TablesInv
  <2>2. CASE x # fd
    <3>1. tab'.rows = tab.rows /\ tab'.watched[x] = tab.watched[x] /\ tab'.entry[x] = tab.entry[x]
      BY <1>3, <1>4, <2>2 DEF Stored, Tables
    <3>2. other.sock # x
      BY <1>2, <2>2
    <3>3. Tidy(tab', file[x], None, x)
      BY <2>1, <3>1, <3>2, AlikeTidy
    <3>4. QED
      BY <1>1, <3>3
  <2>3. CASE x = fd
    <3>1. HasLast(tab, fd, typ) \/ count(tab) = 0
      <4>1. CASE pc = "destroyed"
        BY <1>3, <4>1 DEF Shaped, count
      <4>2. CASE pc # "destroyed"
        BY <1>1, <1>2, <1>7, <2>3, <4>2 DEF TablesInv, Copies
      <4>3. QED
        BY <4>1, <4>2
    <3>2. Tidy(tab', file[x], None, x)
      BY <1>3, <1>4, <2>1, <2>3, <3>1, StoredTidy
    <3>3. QED
      BY <1>1, <3>2
  <2>4. QED
    BY <2>2, <2>3
<1>8. Copies'
  BY <1>1 DEF Copies
<1>9. QED
  BY <1>5, <1>6, <1>7, <1>8 DEF TablesInv

(* What another thread unregisters and closes is tidy if no row is left.   *)
LEMMA OtherUnregistersTables ==
  ASSUME TablesInv, NEW fd \in Fds, NEW typ \in Types, OtherUnregisters(fd, typ)
  PROVE  TablesInv'
<1>1. /\ other = None /\ FirstRow(tab, fd, typ) # 0
      /\ tab' = Closed(RemoveSock(tab, fd, typ), fd) /\ file' = [file EXCEPT ![fd] = -@]
      /\ ready' \subseteq ready /\ untidy' \in {untidy, untidy \cup {fd}}
      /\ UNCHANGED <<other, pc>> /\ pc = "asleep"
  BY DEF OtherUnregisters, run
<1>2. tab \in Tables /\ Shaped /\ Fits(tab) /\ file \in [Fds -> -MaxGen .. MaxGen] /\ MaxGen \in Nat
  BY EloopAssumption DEF TablesInv, Shaped
<1>3. PICK r : r = RemoveSock(tab, fd, typ)
  OBVIOUS
<1>4. SockRemoved(tab, r, fd, typ) /\ r \in Tables
  BY <1>1, <1>2, <1>3, RemoveSockIs DEF SockRemoved
<1>5. Unwatched(r, tab', fd)
  BY <1>1, <1>3, <1>4, ClosedIs
<1>6. Shaped'
  <2>1. file' \in [Fds -> -MaxGen .. MaxGen]
    BY <1>1, <1>2
  <2>2. QED
    BY <1>1, <1>2, <1>5, <2>1 DEF Shaped, Unwatched
<1>7. Fits(tab)'
  <2>1. Fits(r)
    BY <1>1, <1>2, <1>4, RemovedFits
  <2>2. QED
    BY <1>4, <1>5, <2>1, FewerFit DEF Unwatched, Tables
<1>8. ASSUME NEW x \in Fds \ untidy' PROVE Tidy(tab, file[x], other, x)'
  <2>1. Tidy(tab, file[x], other, x)
    BY <1>1, <1>8 DEF TablesInv
  <2>2. CASE x # fd
    <3>1. Tidy(r, file[x], other, x)
      BY <1>1, <1>2, <1>4, <2>1, <2>2, RemovedOthersTidy
    <3>2. tab'.rows = r.rows /\ tab'.watched[x] = r.watched[x] /\ tab'.entry[x] = r.entry[x] /\ file'[x] = file[x]
      BY <1>1, <1>2, <1>4, <1>5, <2>2 DEF Unwatched, Tables
    <3>3. Tidy(tab', file[x], other, x)
      BY <3>1, <3>2, AlikeTidy
    <3>4. QED
      BY <1>1, <3>2, <3>3
  <2>3. CASE x = fd
    <3>1. ~Registered(r, fd) /\ Tidy(r, 0, None, fd)
      BY <1>1, <1>2, <1>4, <2>1, <2>3, RemovedTidy
    <3>2. \A n, p : Tidy(tab', n, p, fd)
      BY <1>4, <1>5, <3>1, UnwatchedTidy
    <3>3. QED
      BY <2>3, <3>2
  <2>4. QED
    BY <2>2, <2>3
<1>9. Copies'
  BY <1>1 DEF Copies
<1>10. QED
  BY <1>6, <1>7, <1>8, <1>9 DEF TablesInv

(* The end of a wait, eloop_destroy and all that leaves the tables alone.  *)
LEMMA LoopTables ==
  ASSUME TablesInv, SignalsInv, Next,
         LoopStep \/ Tick \/ Terminate \/ (\E fd \in Fds : Arrive(fd)) \/ \E i \in 1 .. Len(Sigs) : Signal(i)
  PROVE  TablesInv'
<1>1. CASE Destroy
  <2>1. PICK t : t = EmptyTables
    OBVIOUS
  <2>2. t \in Tables /\ t.rows = <<>> /\ t.max_events = 0 /\ t.watched = [fd \in Fds |-> "no"]
        /\ t.entry = [fd \in Fds |-> Garbage]
    BY <2>1 DEF EmptyTables, Tables
  <2>3. tab' = t /\ UNCHANGED <<file, ready, untidy, other>> /\ pc' = "destroyed"
    BY <1>1, <2>1 DEF Destroy, outside
  <2>4. count(t) = 0 /\ \A fd : ~Registered(t, fd)
    BY <2>2 DEF count, Registered
  <2>5. Shaped'
    BY <2>2, <2>3 DEF TablesInv, Shaped
  <2>6. Fits(tab)'
    BY <2>2, <2>3, <2>4 DEF Fits
  <2>7. \A fd \in Fds : Tidy(tab, file[fd], other, fd)'
    BY <2>2, <2>3, <2>4 DEF Tidy
  <2>8. QED
    BY <2>3, <2>5, <2>6, <2>7 DEF TablesInv, Copies
<1>2. CASE Woken
  <2>1. PICK q : q = [tab EXCEPT !.changed = FALSE]
    OBVIOUS
  <2>2. tab' = q /\ UNCHANGED <<file, ready, untidy, other>> /\ pc' # "destroyed" /\ pc # "destroyed"
    BY <1>2, <2>1 DEF Woken, ProcessSignals, outside
  <2>3. tab \in Tables /\ Shaped /\ Fits(tab)
    BY DEF TablesInv, Shaped
  <2>4. /\ q \in Tables /\ q.rows = tab.rows /\ q.watched = tab.watched /\ q.entry = tab.entry
        /\ q.max_fd = tab.max_fd /\ q.max_events = tab.max_events
    BY <2>1, <2>3 DEF Tables
  <2>5. Shaped'
    BY <2>2, <2>3, <2>4 DEF Shaped
  <2>6. Fits(q)
    BY <2>3, <2>4, FewerFit
  <2>7. ASSUME NEW fd \in Fds \ untidy PROVE Tidy(q, file[fd], other, fd)
    <3>1. Tidy(tab, file[fd], other, fd)
      BY DEF TablesInv
    <3>2. QED
      BY <2>4, <3>1, AlikeTidy
  <2>8. Copies'
    BY <2>2, <2>4, RowsSay DEF TablesInv, Copies
  <2>9. QED
    BY <2>2, <2>5, <2>6, <2>7, <2>8 DEF TablesInv
<1>3. CASE ~Destroy /\ ~Woken
  <2>1. UNCHANGED <<tab, file, untidy, other>> /\ ready' \subseteq Fds
    <3>1. ready \subseteq Fds
      BY DEF TablesInv, Shaped
    <3>2. CASE Tick \/ Terminate \/ (\E fd \in Fds : Arrive(fd)) \/ \E i \in 1 .. Len(Sigs) : Signal(i)
      BY <3>1, <3>2 DEF Tick, Terminate, Arrive, Signal, socks, outside
    <3>3. CASE LoopStep
      BY <1>3, <3>1, <3>3 DEF LoopStep, Begin, Top, SignalPass, Sleep, Wake, RunTimeout, Sockets, Dispatch,
                              Return, socks, outside
    <3>4. QED
      BY <3>2, <3>3
  <2>2. pc' = "destroyed" <=> pc = "destroyed"
    BY <1>3, Destroyed
  <2>3. QED
    BY <2>1, <2>2, TablesKept
<1>4. QED
  BY <1>1, <1>2, <1>3

(* The invariant of the tables is kept by every step.                      *)
LEMMA StepTables == TablesInv /\ SignalsInv /\ [Next]_vars => TablesInv'
<1> SUFFICES ASSUME TablesInv, SignalsInv, [Next]_vars PROVE TablesInv'
  OBVIOUS
<1>1. CASE UNCHANGED vars
  <2>1. UNCHANGED <<tab, file, untidy, other>> /\ ready' = ready /\ pc' = pc
    BY <1>1 DEF vars, socks, outside, run
  <2>2. QED
    BY <2>1, TablesKept DEF TablesInv, Shaped
<1>2. CASE Next
  <2>1. CASE AppStep
    <3>1. ASSUME NEW fd \in Fds, NEW typ \in Types, Unregister(fd, typ) PROVE TablesInv'
      <4>1. CASE FirstRow(tab, fd, typ) # 0
        BY <3>1, <4>1, UnregisterTables
      <4>2. CASE FirstRow(tab, fd, typ) = 0
        <5>1. tab' = tab /\ untidy' = untidy \cup ({fd} \cap Storing(typ))
              /\ UNCHANGED <<file, ready, other, pc>>
          BY <3>1, <4>2 DEF Unregister, RemoveSock, outside, run
        <5>2. Shaped'
          BY <5>1 DEF TablesInv, Shaped
        <5>3. Fits(tab)' /\ \A x \in Fds \ untidy' : Tidy(tab, file[x], other, x)'
          BY <5>1 DEF TablesInv
        <5>4. Copies'
          BY <5>1 DEF TablesInv, Copies
        <5>5. QED
          BY <5>2, <5>3, <5>4 DEF TablesInv
      <4>3. QED
        BY <4>1, <4>2
    <3>2. CASE \E fd \in Fds : Open(fd) \/ Close(fd) \/ \E typ \in Types : Register(fd, typ) \/ Unregister(fd, typ)
      BY <3>1, <3>2, OpenTables, CloseTables, RegisterTables
    <3>3. CASE ~\E fd \in Fds : Open(fd) \/ Close(fd) \/ \E typ \in Types : Register(fd, typ) \/ Unregister(fd, typ)
      <4>1. UNCHANGED <<tab, file, untidy, other>> /\ ready' = ready /\ pc' = pc
        BY <2>1, <3>3 DEF AppStep, CancelTimeoutOne, CancelTimeout, RegisterTimeout, DepleteTimeout,
                          ReplenishTimeout, Reset, socks, outside, run
      <4>2. QED
        BY <4>1, TablesKept DEF TablesInv, Shaped
    <3>4. QED
      BY <3>2, <3>3
  <2>2. CASE OtherStep
    BY <2>2, OtherRegistersTables, OtherStoresTables, OtherUnregistersTables DEF OtherStep
  <2>3. CASE LoopStep \/ Environment
    BY <1>2, <2>3, LoopTables DEF Environment
  <2>4. QED
    BY <1>2, <2>1, <2>2, <2>3 DEF Next
<1>3. QED
  BY <1>1, <1>2

(* Every watched descriptor has a row, and two have not the same.          *)
LEMMA WatchedFit ==
  ASSUME TablesInv
  PROVE  EventsFit /\ IsFiniteSet({fd \in Fds : tab.watched[fd] # "no"})
<1> DEFINE watching == {fd \in Fds : tab.watched[fd] # "no"}
           socket == [i \in 1 .. count(tab) |-> tab.rows[i].sock]
           sockets == {socket[i] : i \in 1 .. count(tab)}
<1>1. tab \in Tables /\ Fits(tab) /\ count(tab) \in Nat
  BY RowsAre DEF TablesInv, Shaped
<1>2. \A i \in 1 .. count(tab) : tab.rows[i].sock \in Fds
  BY <1>1, RowsAre
<1>3. socket \in Surjection(1 .. count(tab), sockets)
  BY DEF Surjection
<1>4. IsFiniteSet(1 .. count(tab)) /\ Cardinality(1 .. count(tab)) = count(tab)
  BY <1>1, FS_Interval
<1>5. IsFiniteSet(sockets) /\ Cardinality(sockets) \in Nat /\ Cardinality(sockets) <= count(tab)
  <2> HIDE DEF socket, sockets
  <2>1. QED
    BY <1>3, <1>4, FS_Surjection, FS_CardinalityType
<1>6. watching \subseteq sockets
  BY <1>1 DEF Fits, Registered
<1>7. IsFiniteSet(watching) /\ Cardinality(watching) <= count(tab)
  <2> HIDE DEF watching, sockets
  <2>1. IsFiniteSet(watching) /\ Cardinality(watching) \in Nat /\ Cardinality(watching) <= Cardinality(sockets)
    BY <1>5, <1>6, PartOf
  <2>2. QED
    BY <1>1, <1>5, <2>1
<1>8. \A fd \in watching : fd < tab.max_fd
  BY <1>1 DEF Fits, Registered
<1>9. QED
  BY <1>1, <1>7, <1>8 DEF EventsFit, Fits

(* The tables of the event loop fit the registrations at every moment: the *)
(* loop hands the kernel an array that is large enough, reads fd_table     *)
(* only where it has a place, and a descriptor that is never closed while  *)
(* registered, nor registered twice, nor overtaken while another thread    *)
(* stores it, is watched exactly while it is registered, with the handler  *)
(* of its file.                                                            *)
THEOREM TablesAlwaysExact == Spec => []TablesExact
<1>1. TablesInv => TableTypes
  BY RowsAre DEF TablesInv, Shaped, TableTypes, Tables
<1>2. ASSUME TablesInv, NEW fd \in Fds \ untidy
      PROVE  IF Registered(tab, fd)
             THEN \E h \in {H(fd, tab.watched[fd], file[fd])} :
                    /\ \A i \in 1 .. count(tab) : tab.rows[i].sock = fd => tab.rows[i].h = h
                    /\ other = None => tab.entry[fd] = h
             ELSE tab.watched[fd] = "no"
  <2>1. Tidy(tab, file[fd], other, fd)
    BY <1>2 DEF TablesInv
  <2>2. QED
    BY <2>1 DEF Tidy
<1>3. TablesInv => TidyExact
  BY <1>2 DEF TidyExact
<1>4. TablesInv => TablesExact
  BY <1>1, <1>3, WatchedFit DEF TablesExact
<1>5. QED
  BY <1>4, InitSignals, StepSignals, InitTables, StepTables, PTL DEF Spec
-----------------------------------------------------------------------------
(***************************************************************************)
(* Events.                                                                 *)
(***************************************************************************)
(* Before the loop runs there are none.                                    *)
LEMMA InitEvents == Init => EventsInv
<1> SUFFICES ASSUME Init PROVE EventsInv
  OBVIOUS
<1>1. /\ pc = "setup" /\ events = <<>> /\ fault = "none" /\ other = None
      /\ tab.watched = [fd \in Fds |-> "no"]
  BY DEF Init, EmptyTables
<1>2. Fresh /\ Undisturbed
  BY <1>1 DEF Fresh, Undisturbed
<1>3. QED
  BY <1>2 DEF EventsInv

(* Events that are kept while the tables are, or dropped.                  *)
LEMMA FreshKept ==
  ASSUME Fresh, UNCHANGED <<tab, file, untidy>>, events' = events \/ events' = <<>>,
         pc' = "dispatch" => ~tab.changed, pc' = "woken" => pc = "woken" \/ events' = <<>>
  PROVE  Fresh'
<1>1. CASE events' = <<>>
  BY <1>1 DEF Fresh
<1>2. CASE events' = events
  BY <1>2 DEF Fresh
<1>3. QED
  BY <1>1, <1>2

(* The code that uses the loop: what it closes becomes untidy, what it     *)
(* opens was not registered, and what it changes is marked.                *)
LEMMA AppFresh ==
  ASSUME SignalsInv, TablesInv, Fresh, AppStep
  PROVE  Fresh'
<1>1. UNCHANGED run /\ InApp
  BY OthersSteps DEF AppStep, Open, Close, Register, Unregister, CancelTimeoutOne, CancelTimeout,
                     RegisterTimeout, DepleteTimeout, ReplenishTimeout, Reset
<1>2. events' = events /\ pc' = pc /\ pc \notin {"woken", "dispatch"}
  BY <1>1 DEF run, InApp
<1> SUFFICES ASSUME ~tab'.changed, NEW i \in 1 .. Len(events), events[i].fd \notin untidy'
             PROVE  Registered(tab', events[i].fd) /\ file'[events[i].fd] = events[i].gen
  BY <1>2 DEF Fresh
<1>3. PICK e : e = events[i].fd
  OBVIOUS
<1>4. e \in Fds
  <2>1. events \in Seq(Events)
    BY DEF Fresh
  <2>2. events[i] \in Events
    BY <2>1
  <2>3. QED
    BY <1>3, <2>2 DEF Events
<1>5. tab \in Tables /\ file \in [Fds -> -MaxGen .. MaxGen]
  BY DEF TablesInv, Shaped
<1>6. ~tab.changed /\ e \notin untidy => Registered(tab, e) /\ file[e] = events[i].gen
  BY <1>3 DEF Fresh
<1>7. ASSUME NEW fd \in Fds, Open(fd) PROVE Registered(tab', e) /\ file'[e] = events[i].gen
  <2>1. file' = [file EXCEPT ![fd] = 1 - @] /\ UNCHANGED <<tab, untidy>> /\ ~(file[fd] > 0)
    BY <1>5, <1>7, EloopAssumption DEF Open, Lowest
  <2>2. Registered(tab, e) /\ file[e] = events[i].gen /\ e \notin untidy
    BY <1>3, <1>6, <2>1
  <2>3. file[e] > 0
    BY <1>4, <2>2 DEF TablesInv, Tidy
  <2>4. e # fd
    BY <2>1, <2>3
  <2>5. QED
    BY <1>4, <1>5, <2>1, <2>2, <2>4
<1>8. ASSUME NEW fd \in Fds, Close(fd) PROVE Registered(tab', e) /\ file'[e] = events[i].gen
  <2>1. file' = [file EXCEPT ![fd] = -@] /\ tab' = Closed(tab, fd) /\ untidy' = untidy \cup Already(fd)
    BY <1>8 DEF Close
  <2>2. Unwatched(tab, tab', fd)
    BY <1>5, <2>1, ClosedIs
  <2>3. tab'.rows = tab.rows /\ ~tab.changed
    BY <2>2 DEF Unwatched
  <2>4. Registered(tab, e) /\ file[e] = events[i].gen
    BY <1>3, <1>6, <2>1, <2>3
  <2>5. e # fd
    BY <1>3, <2>1, <2>4 DEF Already
  <2>6. QED
    BY <1>4, <1>5, <2>1, <2>3, <2>4, <2>5, RowsSay
<1>9. ASSUME NEW fd \in Fds, NEW typ \in Types, Register(fd, typ) PROVE FALSE
  <2>1. PICK h \in Handlers : tab' = RegisterSock(tab, fd, typ, h, TRUE)
    <3>1. file[fd] \in Int
      BY <1>5, EloopAssumption
    <3>2. H(fd, typ, file[fd]) \in Handlers
      BY <3>1 DEF H, Handlers
    <3>3. QED
      BY <1>9, <3>2 DEF Register, Adds
  <2>2. SockRegistered(tab, tab', fd, typ, h)
    BY <1>5, <2>1, RegisterSockIs
  <2>3. QED
    BY <2>2 DEF SockRegistered, Grown
<1>10. ASSUME NEW fd \in Fds, NEW typ \in Types, Unregister(fd, typ)
       PROVE  Registered(tab', e) /\ file'[e] = events[i].gen
  <2>1. tab' = RemoveSock(tab, fd, typ) /\ file' = file /\ untidy \subseteq untidy'
    BY <1>10 DEF Unregister
  <2>2. FirstRow(tab, fd, typ) = 0
    <3> SUFFICES ASSUME FirstRow(tab, fd, typ) # 0 PROVE FALSE
      OBVIOUS
    <3>1. SockRemoved(tab, tab', fd, typ)
      BY <1>5, <2>1, RemoveSockIs
    <3>2. QED
      BY <3>1 DEF SockRemoved
  <2>3. tab' = tab
    BY <2>1, <2>2 DEF RemoveSock
  <2>4. QED
    BY <1>3, <1>6, <2>1, <2>3
<1>11. CASE ~\E fd \in Fds : Open(fd) \/ Close(fd) \/ \E typ \in Types : Register(fd, typ) \/ Unregister(fd, typ)
  <2>1. UNCHANGED <<tab, file, untidy>>
    BY <1>11 DEF AppStep, CancelTimeoutOne, CancelTimeout, RegisterTimeout, DepleteTimeout,
                 ReplenishTimeout, Reset, socks
  <2>2. QED
    BY <1>3, <1>6, <2>1
<1>12. QED
  BY <1>3, <1>7, <1>8, <1>9, <1>10, <1>11

(* Another thread changes the tables only while the loop has no events.    *)
LEMMA OtherFresh ==
  ASSUME SignalsInv, TablesInv, Fresh, OtherStep
  PROVE  Fresh'
<1>1. CASE \E fd \in Fds, typ \in Types : OtherRegisters(fd, typ) \/ OtherUnregisters(fd, typ)
  <2>1. pc = "asleep" /\ UNCHANGED <<pc, events>>
    BY <1>1 DEF OtherRegisters, OtherUnregisters, run
  <2>2. events = <<>>
    BY <2>1 DEF SignalsInv, Control
  <2>3. QED
    BY <2>1, <2>2 DEF Fresh
<1>2. CASE OtherStores
  <2>1. /\ other # None /\ tab' = Store(tab, other.sock, other.typ)
        /\ UNCHANGED <<file, untidy, pc, events>>
    BY <1>2 DEF OtherStores, run
  <2>2. tab \in Tables /\ other.sock \in Fds /\ other.typ \in Types
    BY <2>1 DEF TablesInv, Shaped
  <2>3. Stored(tab, tab', other.sock, other.typ)
    BY <2>1, <2>2, StoreIs
  <2>4. tab'.rows = tab.rows /\ tab'.changed = tab.changed
    BY <2>3 DEF Stored
  <2>5. QED
    BY <2>1, <2>4, RowsSay DEF Fresh
<1>3. QED
  BY <1>1, <1>2 DEF OtherStep

(* What epoll_wait returns is watched, and so it is registered.            *)
LEMMA WakeHot ==
  ASSUME TablesInv, Wake
  PROVE  /\ events' \in Seq(Events)
         /\ \A i \in 1 .. Len(events') :
              tab.watched[events'[i].fd] # "no" /\ events'[i].gen = file[events'[i].fd]
<1>1. tab \in Tables /\ file \in [Fds -> -MaxGen .. MaxGen] /\ MaxGen \in Nat /\ ready \subseteq Fds
  BY EloopAssumption DEF TablesInv, Shaped
<1>2. CASE events' = <<>>
  BY <1>2
<1>3. CASE events' # <<>>
  <2>1. PICK l \in EventLists(tab, ready) : events' = [i \in 1 .. Len(l) |-> [fd |-> l[i], gen |-> file[l[i]]]]
    BY <1>3 DEF Wake
  <2>2. PICK S \in SUBSET {fd \in ready : tab.watched[fd] # "no"} : l \in SetToSeqs(S)
    BY <2>1 DEF EventLists
  <2>3. PICK n : n = Cardinality(S)
    OBVIOUS
  <2>4. l \in [1 .. n -> S]
    BY <2>2, <2>3 DEF SetToSeqs
  <2>5. S \subseteq Fds /\ \A fd \in S : tab.watched[fd] # "no" /\ file[fd] \in Int
    BY <1>1, <2>2
  <2>6. n \in Nat
    <3>1. S \subseteq {fd \in Fds : tab.watched[fd] # "no"}
      BY <2>5
    <3>2. QED
      BY <2>3, <3>1, WatchedFit, PartOf
  <2>7. Len(l) = n /\ \A i \in 1 .. n : l[i] \in S
    BY <2>4, <2>6
  <2>8. \A i \in 1 .. n : [fd |-> l[i], gen |-> file[l[i]]] \in Events
    BY <2>5, <2>7 DEF Events
  <2>9. events' \in Seq(Events) /\ Len(events') = n
    BY <2>1, <2>6, <2>7, <2>8
  <2>10. QED
    BY <2>1, <2>5, <2>6, <2>7, <2>9
<1>4. QED
  BY <1>2, <1>3

(* The steps of the loop, and what comes from outside.                     *)
LEMMA LoopFresh ==
  ASSUME SignalsInv, TablesInv, Fresh, LoopStep \/ Environment
  PROVE  Fresh'
<1>1. CASE Wake
  <2>1. pc' = "woken" /\ UNCHANGED <<tab, file, untidy>>
    BY <1>1 DEF Wake, socks
  <2>2. Fits(tab)
    BY DEF TablesInv
  <2>3. \A i \in 1 .. Len(events') : events'[i].fd \in Fds
    <3>1. events' \in Seq(Events)
      BY <1>1, WakeHot
    <3>2. \A i \in 1 .. Len(events') : events'[i] \in Events
      BY <3>1
    <3>3. QED
      BY <3>2 DEF Events
  <2>4. \A i \in 1 .. Len(events') : Registered(tab, events'[i].fd) /\ file[events'[i].fd] = events'[i].gen
    BY <1>1, <2>2, <2>3, WakeHot DEF Fits
  <2>5. QED
    BY <1>1, <2>1, <2>4, WakeHot DEF Fresh
<1>2. CASE Woken
  <2>1. PICK q : q = [tab EXCEPT !.changed = FALSE]
    OBVIOUS
  <2>2. pc = "woken" /\ tab' = q /\ UNCHANGED <<file, untidy, events>> /\ pc' \notin {"woken", "dispatch"}
    BY <1>2, <2>1 DEF Woken, ProcessSignals
  <2>3. tab \in Tables
    BY DEF TablesInv, Shaped
  <2>4. q.rows = tab.rows
    BY <2>1, <2>3 DEF Tables
  <2>5. QED
    BY <2>2, <2>4, RowsSay DEF Fresh
<1>3. CASE Dispatch
  <2>1. CASE events = <<>>
    <3>1. pc' = "top" /\ events' = events /\ UNCHANGED <<tab, file, untidy>>
      BY <1>3, <2>1 DEF Dispatch, socks
    <3>2. QED
      BY <3>1, FreshKept
  <2>2. CASE events # <<>>
    <3>1. events' = Tail(events) /\ UNCHANGED <<tab, file, untidy>> /\ pc = "dispatch" /\ pc' # "woken"
      BY <1>3, <2>2 DEF Dispatch, socks
    <3>2. events \in Seq(Events) /\ ~tab.changed
      BY <3>1 DEF Fresh
    <3>3. /\ events' \in Seq(Events)
          /\ \A i \in 1 .. Len(events') : i + 1 \in 1 .. Len(events) /\ events'[i] = events[i + 1]
      BY <2>2, <3>1, <3>2
    <3>4. \A i \in 1 .. Len(events) : events[i].fd \notin untidy =>
            Registered(tab, events[i].fd) /\ file[events[i].fd] = events[i].gen
      BY <3>2 DEF Fresh
    <3>5. QED
      BY <3>1, <3>2, <3>3, <3>4 DEF Fresh
  <2>3. QED
    BY <2>1, <2>2
<1>4. CASE Destroy
  <2>1. pc = "done" /\ UNCHANGED events /\ pc' = "destroyed"
    BY <1>4 DEF Destroy
  <2>2. events = <<>>
    BY <2>1 DEF SignalsInv, Control
  <2>3. QED
    BY <2>1, <2>2 DEF Fresh
<1>5. CASE Begin \/ Top \/ SignalPass \/ Sleep \/ RunTimeout \/ Sockets \/ Return
  <2>1. UNCHANGED <<tab, file, untidy>> /\ (events' = events \/ events' = <<>>)
    BY <1>5 DEF Begin, Top, SignalPass, Sleep, RunTimeout, Sockets, Return, socks
  <2>2. CASE Begin \/ Top \/ Sleep
    <3>1. pc \in {"setup", "top", "presleep"} /\ UNCHANGED events
      BY <2>2 DEF Begin, Top, Sleep
    <3>2. events' = <<>>
      BY <3>1 DEF SignalsInv, Control
    <3>3. pc' # "dispatch"
      BY <2>2 DEF Begin, Top, Sleep, ProcessSignals
    <3>4. QED
      BY <2>1, <3>2, <3>3, FreshKept
  <2>3. CASE SignalPass
    <3>1. back \in {"presleep", "timeouts"}
      BY <2>3 DEF SignalPass, SignalsInv, Control, Passing
    <3>2. pc' \notin {"woken", "dispatch"}
      BY <2>3, <3>1 DEF SignalPass
    <3>3. QED
      BY <2>1, <3>2, FreshKept
  <2>4. CASE RunTimeout \/ Sockets
    <3>1. pc' # "woken" /\ (pc' = "dispatch" => ~tab.changed)
      BY <2>4 DEF RunTimeout, Sockets
    <3>2. QED
      BY <2>1, <3>1, FreshKept
  <2>5. CASE Return
    <3>1. cur.after \in {"signals", "sockets", "dispatch"}
      BY <2>5 DEF Return, SignalsInv, Control
    <3>2. pc' # "woken" /\ (pc' = "dispatch" => ~tab.changed)
      BY <2>5, <3>1 DEF Return
    <3>3. QED
      BY <2>1, <3>2, FreshKept
  <2>6. QED
    BY <1>5, <2>2, <2>3, <2>4, <2>5
<1>6. CASE Environment
  <2>1. /\ UNCHANGED <<tab, file, untidy>>
        /\ \/ UNCHANGED <<pc, events>>
           \/ pc' = "woken" /\ events' = <<>>
    BY <1>6 DEF Environment, Arrive, Signal, Tick, Terminate, socks, run
  <2>2. pc = "dispatch" => ~tab.changed
    BY DEF Fresh
  <2>3. QED
    BY <2>1, <2>2, FreshKept
<1>7. QED
  BY <1>1, <1>2, <1>3, <1>4, <1>5, <1>6 DEF LoopStep

(* Nothing is disturbed where the tables are kept, unless epoll_events has *)
(* moved where it is used.                                                 *)
LEMMA UndisturbedKept ==
  ASSUME Undisturbed, UNCHANGED <<tab, other, fault>>, events' = events \/ events' = <<>>,
         pc' \in {"asleep", "woken", "dispatch"} => ~moved',
         pc' = "handler" /\ cur'.after = "dispatch" /\ moved' => tab.changed
  PROVE  Undisturbed'
<1>1. /\ fault' = "none" /\ other' = None
      /\ \A fd \in Fds : tab'.watched[fd] # "no" => tab'.entry[fd] # Garbage
  BY DEF Undisturbed
<1>2. pc' = "handler" /\ cur'.after = "dispatch" /\ moved' => tab'.changed
  OBVIOUS
<1>3. \A i \in 1 .. Len(events') : tab'.entry[events'[i].fd] # Garbage
  BY DEF Undisturbed
<1>4. QED
  BY <1>1, <1>2, <1>3 DEF Undisturbed

(* The code that uses the loop: a table that makes epoll_events move is    *)
(* marked, and what it makes watched has its entry.                        *)
LEMMA AppUndisturbed ==
  ASSUME SignalsInv, TablesInv, Fresh, Undisturbed, AppStep
  PROVE  Undisturbed'
<1>1. UNCHANGED <<run, other, fault>> /\ InApp
  BY OthersSteps DEF AppStep, Open, Close, Register, Unregister, CancelTimeoutOne, CancelTimeout,
                     RegisterTimeout, DepleteTimeout, ReplenishTimeout, Reset, outside
<1>2. UNCHANGED <<pc, cur, events>> /\ pc \notin {"asleep", "woken", "dispatch"}
  BY <1>1 DEF run, InApp
<1>3. tab \in Tables /\ file \in [Fds -> -MaxGen .. MaxGen] /\ MaxGen \in Nat
  BY EloopAssumption DEF TablesInv, Shaped
<1>4. \A i \in 1 .. Len(events) : events[i].fd \in Fds
  <2>1. \A i \in 1 .. Len(events) : events[i] \in Events
    BY DEF Fresh
  <2>2. QED
    BY <2>1 DEF Events
<1>5. SUFFICES /\ \A fd \in Fds : tab'.watched[fd] # "no" => tab'.entry[fd] # Garbage
               /\ \A fd \in Fds : tab.entry[fd] # Garbage => tab'.entry[fd] # Garbage
               /\ tab'.changed \/ (tab'.changed = tab.changed /\ moved' = moved)
  <2>1. fault' = "none" /\ other' = None
    BY <1>1 DEF Undisturbed
  <2>2. \A i \in 1 .. Len(events) : tab.entry[events[i].fd] # Garbage
    BY DEF Undisturbed
  <2>3. pc = "handler" /\ cur.after = "dispatch" /\ moved => tab.changed
    BY DEF Undisturbed
  <2>4. QED
    BY <1>2, <1>4, <1>5, <2>1, <2>2, <2>3 DEF Undisturbed
<1>6. \A fd \in Fds : tab.watched[fd] # "no" => tab.entry[fd] # Garbage
  BY DEF Undisturbed
<1>7. ASSUME NEW fd \in Fds, NEW typ \in Types, Register(fd, typ)
      PROVE  /\ \A x \in Fds : tab'.watched[x] # "no" => tab'.entry[x] # Garbage
             /\ \A x \in Fds : tab.entry[x] # Garbage => tab'.entry[x] # Garbage
             /\ tab'.changed
  <2>1. PICK h : h = H(fd, typ, file[fd])
    OBVIOUS
  <2>2. file[fd] \in 1 .. MaxGen
    BY <1>3, <1>7 DEF Register
  <2>3. h \in Handlers /\ h # Garbage
    BY <2>1, <2>2, EloopAssumption DEF H, Handlers
  <2>4. tab' = RegisterSock(tab, fd, typ, h, TRUE)
    BY <1>7, <2>1 DEF Register, Adds
  <2>5. SockRegistered(tab, tab', fd, typ, h)
    BY <1>3, <2>3, <2>4, RegisterSockIs
  <2>6. tab'.changed
    BY <2>5 DEF SockRegistered, Grown
  <2>7. CASE tab.watched[fd] = "no"
    <3>1. tab'.entry = [tab.entry EXCEPT ![fd] = h] /\ tab'.watched = [tab.watched EXCEPT ![fd] = typ]
      BY <2>5, <2>7 DEF SockRegistered, Grown
    <3>2. tab.entry \in [Fds -> Handlers \cup {None, Garbage}] /\ tab.watched \in [Fds -> Types \cup {"no"}]
      BY <1>3 DEF Tables
    <3>3. /\ tab'.entry[fd] = h
          /\ \A x \in Fds : x # fd => tab'.entry[x] = tab.entry[x] /\ tab'.watched[x] = tab.watched[x]
      BY <3>1, <3>2
    <3>4. QED
      BY <1>6, <2>3, <2>6, <3>3
  <2>8. CASE tab.watched[fd] # "no"
    BY <1>6, <2>5, <2>6, <2>8 DEF SockRegistered, Grown
  <2>9. QED
    BY <2>7, <2>8
<1>8. ASSUME NEW fd \in Fds, NEW typ \in Types, Unregister(fd, typ), FirstRow(tab, fd, typ) # 0
      PROVE  /\ \A x \in Fds : tab'.watched[x] # "no" => tab'.entry[x] # Garbage
             /\ \A x \in Fds : tab.entry[x] # Garbage => tab'.entry[x] # Garbage
             /\ tab'.changed
  <2>1. SockRemoved(tab, tab', fd, typ)
    BY <1>3, <1>8, RemoveSockIs DEF Unregister
  <2>2. CASE tab.watched[fd] = "no"
    BY <1>3, <1>6, <2>1, <2>2 DEF SockRemoved, Tables
  <2>3. CASE tab.watched[fd] # "no"
    BY <1>3, <1>6, <2>1, <2>3, TablesAssumption DEF SockRemoved, Tables
  <2>4. QED
    BY <2>2, <2>3
<1>9. ASSUME NEW fd \in Fds, Close(fd)
      PROVE  /\ \A x \in Fds : tab'.watched[x] # "no" => tab'.entry[x] # Garbage
             /\ tab'.entry = tab.entry /\ tab'.changed = tab.changed /\ moved' = moved
  <2>1. Unwatched(tab, tab', fd) /\ moved' = moved
    BY <1>3, <1>9, ClosedIs DEF Close
  <2>2. QED
    BY <1>3, <1>6, <2>1 DEF Unwatched, Tables
<1>10. CASE UNCHANGED <<tab, moved>>
  BY <1>6, <1>10
<1>11. CASE ~UNCHANGED <<tab, moved>>
  <2>1. PICK fd \in Fds : Close(fd) \/ \E typ \in Types :
          Register(fd, typ) \/ (Unregister(fd, typ) /\ FirstRow(tab, fd, typ) # 0)
    BY <1>11 DEF AppStep, Open, Unregister, RemoveSock, CancelTimeoutOne, CancelTimeout, RegisterTimeout,
                 DepleteTimeout, ReplenishTimeout, Reset, socks
  <2>2. QED
    BY <1>7, <1>8, <1>9, <2>1
<1>12. QED
  BY <1>10, <1>11

(* The steps of the loop, and what comes from outside.                     *)
LEMMA LoopUndisturbed ==
  ASSUME SignalsInv, TablesInv, Fresh, Undisturbed, LoopStep \/ Environment
  PROVE  Undisturbed'
<1>1. CASE Wake
  <2>1. /\ pc = "asleep" /\ pc' = "woken" /\ UNCHANGED <<tab, moved, other, fault>>
    BY <1>1 DEF Wake, socks, outside
  <2>2. \A i \in 1 .. Len(events') : events'[i].fd \in Fds /\ tab.watched[events'[i].fd] # "no"
    <3>1. \A i \in 1 .. Len(events') : events'[i] \in Events
      BY <1>1, WakeHot
    <3>2. QED
      BY <1>1, <3>1, WakeHot DEF Events
  <2>3. QED
    BY <2>1, <2>2 DEF Undisturbed
<1>2. CASE Woken
  <2>1. PICK q : q = [tab EXCEPT !.changed = FALSE]
    OBVIOUS
  <2>2. /\ pc = "woken" /\ tab' = q /\ UNCHANGED <<moved, other, events>>
        /\ pc' \in {"signals", "timeouts"} /\ fault' = IF moved /\ events # <<>> THEN "moved" ELSE fault
    BY <1>2, <2>1 DEF Woken, ProcessSignals, outside
  <2>3. tab \in Tables
    BY DEF TablesInv, Shaped
  <2>4. q.watched = tab.watched /\ q.entry = tab.entry
    BY <2>1, <2>3 DEF Tables
  <2>5. QED
    BY <2>2, <2>4 DEF Undisturbed
<1>3. CASE Dispatch
  <2>1. pc = "dispatch" /\ ~moved /\ UNCHANGED <<tab, moved, other>>
    BY <1>3 DEF Dispatch, socks, outside, Undisturbed
  <2>2. CASE events = <<>>
    <3>1. pc' = "top" /\ UNCHANGED <<events, fault>>
      BY <1>3, <2>2 DEF Dispatch
    <3>2. QED
      BY <2>1, <3>1, UndisturbedKept
  <2>3. CASE events # <<>>
    <3>1. events \in Seq(Events)
      BY DEF Fresh
    <3>2. events' = Tail(events) /\ fault' = IF moved THEN "moved" ELSE
            IF tab.entry[Head(events).fd] = Garbage THEN "garbage" ELSE fault
      BY <1>3, <2>3 DEF Dispatch
    <3>3. 1 \in 1 .. Len(events) /\ Head(events) = events[1]
      BY <2>3, <3>1
    <3>4. fault' = "none"
      BY <2>1, <3>2, <3>3 DEF Undisturbed
    <3>5. \A i \in 1 .. Len(events') : i + 1 \in 1 .. Len(events) /\ events'[i] = events[i + 1]
      BY <2>3, <3>1, <3>2
    <3>6. \A i \in 1 .. Len(events') : tab.entry[events'[i].fd] # Garbage
      BY <3>5 DEF Undisturbed
    <3>7. QED
      BY <2>1, <3>4, <3>6 DEF Undisturbed
  <2>4. QED
    BY <2>2, <2>3
<1>4. CASE Destroy
  <2>1. /\ pc = "done" /\ UNCHANGED <<events, other, fault>> /\ pc' = "destroyed"
        /\ tab'.watched = [fd \in Fds |-> "no"]
    BY <1>4 DEF Destroy, EmptyTables, outside
  <2>2. events = <<>>
    BY <2>1 DEF SignalsInv, Control
  <2>3. QED
    BY <2>1, <2>2 DEF Undisturbed
<1>5. CASE Begin \/ Top \/ SignalPass \/ Sleep \/ RunTimeout \/ Sockets \/ Return
  <2>1. UNCHANGED <<tab, other, fault>> /\ (events' = events \/ events' = <<>>)
    BY <1>5 DEF Begin, Top, SignalPass, Sleep, RunTimeout, Sockets, Return, socks, outside
  <2>2. CASE Begin \/ Top
    <3>1. pc' \in {"top", "presleep", "signals", "done"}
      BY <2>2 DEF Begin, Top, ProcessSignals
    <3>2. QED
      BY <2>1, <3>1, UndisturbedKept
  <2>3. CASE Sleep \/ Sockets
    <3>1. moved' = FALSE
      BY <2>3 DEF Sleep, Sockets
    <3>2. QED
      BY <2>1, <3>1, UndisturbedKept
  <2>4. CASE SignalPass
    <3>1. back \in {"presleep", "timeouts"}
      BY <2>4 DEF SignalPass, SignalsInv, Control, Passing
    <3>2. pc' \in {"presleep", "timeouts", "done"} \/ (pc' = "handler" /\ cur'.after = "signals")
      BY <2>4, <3>1 DEF SignalPass
    <3>3. QED
      BY <2>1, <3>2, UndisturbedKept
  <2>5. CASE RunTimeout
    <3>1. pc' = "sockets" \/ (pc' = "handler" /\ cur'.after = "sockets")
      BY <2>5 DEF RunTimeout
    <3>2. QED
      BY <2>1, <3>1, UndisturbedKept
  <2>6. CASE Return
    <3>1. cur.after \in {"signals", "sockets", "dispatch"} /\ moved' = moved /\ pc = "handler"
      BY <2>6 DEF Return, SignalsInv, Control
    <3>2. pc' \in {"signals", "sockets", "top"} \/ (pc' = "dispatch" /\ cur.after = "dispatch" /\ ~tab.changed)
      BY <2>6, <3>1 DEF Return
    <3>3. pc' = "dispatch" => ~moved'
      BY <3>1, <3>2 DEF Undisturbed
    <3>4. QED
      BY <2>1, <3>2, <3>3, UndisturbedKept
  <2>7. QED
    BY <1>5, <2>2, <2>3, <2>4, <2>5, <2>6
<1>6. CASE Environment
  <2>1. /\ UNCHANGED <<tab, other, fault, moved, cur>>
        /\ \/ UNCHANGED <<pc, events>>
           \/ pc = "asleep" /\ pc' = "woken" /\ events' = <<>>
    BY <1>6 DEF Environment, Arrive, Signal, Tick, Terminate, socks, run, outside
  <2>2. /\ pc \in {"asleep", "woken", "dispatch"} => ~moved
        /\ pc = "handler" /\ cur.after = "dispatch" /\ moved => tab.changed
    BY DEF Undisturbed
  <2>3. QED
    BY <2>1, <2>2, UndisturbedKept
<1>7. QED
  BY <1>1, <1>2, <1>3, <1>4, <1>5, <1>6 DEF LoopStep

(* The invariant of the events is kept by every step.                      *)
LEMMA StepEvents == EventsInv /\ TablesInv /\ SignalsInv /\ [Next]_vars => EventsInv'
<1> SUFFICES ASSUME EventsInv, TablesInv, SignalsInv, [Next]_vars PROVE EventsInv'
  OBVIOUS
<1>1. CASE UNCHANGED vars
  <2>1. UNCHANGED <<tab, file, untidy, moved, other, raced, fault, pc, cur, events>>
    BY <1>1 DEF vars, socks, outside, run
  <2>2. QED
    BY <2>1 DEF EventsInv, Fresh, Undisturbed
<1>2. CASE Next
  <2>1. Fresh'
    BY <1>2, AppFresh, OtherFresh, LoopFresh DEF EventsInv, Next
  <2>2. CASE raced
    <3>1. raced'
      BY <1>2, <2>2 DEF Next, LoopStep, Begin, Top, SignalPass, Sleep, Wake, Woken, RunTimeout, Sockets, Dispatch,
         Return, Destroy, AppStep, Open, Close, Register, Unregister, CancelTimeoutOne, CancelTimeout,
         RegisterTimeout, DepleteTimeout, ReplenishTimeout, Reset, OtherStep, OtherRegisters, OtherStores,
         OtherUnregisters, Environment, Arrive, Signal, Tick, Terminate, outside
    <3>2. QED
      BY <2>1, <3>1 DEF EventsInv
  <2>3. CASE ~raced
    <3>1. Undisturbed
      BY <2>3 DEF EventsInv
    <3>2. CASE OtherStep
      <4>1. raced'
        BY <3>1, <3>2 DEF OtherStep, OtherRegisters, OtherStores, OtherUnregisters, Undisturbed
      <4>2. QED
        BY <2>1, <4>1 DEF EventsInv
    <3>3. CASE AppStep \/ LoopStep \/ Environment
      <4>1. Undisturbed'
        BY <3>1, <3>3, AppUndisturbed, LoopUndisturbed DEF EventsInv
      <4>2. QED
        BY <2>1, <4>1 DEF EventsInv
    <3>4. QED
      BY <1>2, <3>2, <3>3 DEF Next
  <2>4. QED
    BY <2>2, <2>3
<1>3. QED
  BY <1>1, <1>2

(* The three invariants hold at every moment.                              *)
LEMMA Invariance == Spec => [](SignalsInv /\ TablesInv /\ EventsInv)
BY InitSignals, StepSignals, InitTables, StepTables, InitEvents, StepEvents, PTL DEF Spec

(* A handler is called only for an event of the file it was registered     *)
(* for, and while it is registered, however descriptors are closed and     *)
(* opened again between the wait and the dispatch.                         *)
THEOREM DispatchAlwaysSound == Spec => DispatchSound
<1> DEFINE Call == pc = "dispatch" /\ pc' = "handler" /\ cur'.fd \notin untidy =>
                     /\ cur'.h.gen = cur'.gen /\ file[cur'.fd] = cur'.gen
                     /\ \E i \in 1 .. count(tab) : tab.rows[i].h = cur'.h
<1>1. ASSUME SignalsInv, TablesInv, EventsInv, [Next]_vars PROVE [Call]_vars
  <2> SUFFICES ASSUME Next, pc = "dispatch", pc' = "handler", cur'.fd \notin untidy
               PROVE  /\ cur'.h.gen = cur'.gen /\ file[cur'.fd] = cur'.gen
                      /\ \E i \in 1 .. count(tab) : tab.rows[i].h = cur'.h
    BY <1>1
  <2>1. Dispatch
    <3>1. CASE AppStep \/ OtherStep \/ Tick \/ Terminate \/ \E fd \in Fds : Arrive(fd)
      BY <3>1, OthersSteps DEF run
    <3>2. CASE \E i \in 1 .. Len(Sigs) : Signal(i)
      BY <3>2 DEF Signal
    <3>3. CASE LoopStep
      BY <3>3 DEF LoopStep, Begin, Top, SignalPass, Sleep, Wake, Woken, RunTimeout, Sockets, Return, Destroy
    <3>4. QED
      BY <3>1, <3>2, <3>3 DEF Next, Environment
  <2>2. PICK e, h : e = Head(events) /\ h = tab.entry[e.fd]
    OBVIOUS
  <2>3. /\ events # <<>> /\ h \notin {None, Garbage}
        /\ cur' = [after |-> "dispatch", fd |-> e.fd, h |-> h, gen |-> e.gen]
    BY <2>1, <2>2 DEF Dispatch
  <2>4. events \in Seq(Events) /\ ~tab.changed
    BY <1>1 DEF EventsInv, Fresh
  <2>5. 1 \in 1 .. Len(events) /\ e = events[1] /\ e \in Events
    BY <2>2, <2>3, <2>4
  <2>6. e.fd \in Fds \ untidy
    BY <2>3, <2>5 DEF Events
  <2>7. Registered(tab, e.fd) /\ file[e.fd] = e.gen
    BY <1>1, <2>4, <2>5, <2>6 DEF EventsInv, Fresh
  <2>8. Tidy(tab, file[e.fd], other, e.fd)
    BY <1>1, <2>6 DEF TablesInv
  <2>9. /\ h = H(e.fd, tab.watched[e.fd], file[e.fd])
        /\ \A i \in 1 .. count(tab) : tab.rows[i].sock = e.fd => tab.rows[i].h = h
    BY <2>2, <2>3, <2>7, <2>8 DEF Tidy
  <2>10. h.gen = file[e.fd]
    BY <2>9 DEF H
  <2>11. \E i \in 1 .. count(tab) : tab.rows[i].h = h
    BY <2>7, <2>9 DEF Registered
  <2>12. QED
    BY <2>3, <2>7, <2>10, <2>11
<1>2. QED
  BY <1>1, Invariance, PTL DEF Spec, DispatchSound

(* Memory that was freed or never written is used only if another thread   *)
(* has registered or unregistered a socket while the loop ran.             *)
THEOREM FaultAlwaysNeedsOthers == Spec => []FaultNeedsOthers
<1>1. EventsInv => FaultNeedsOthers
  BY DEF EventsInv, Undisturbed, FaultNeedsOthers
<1>2. QED
  BY <1>1, Invariance, PTL
=============================================================================
