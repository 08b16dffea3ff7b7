------------------------- MODULE ConsumerPoolProofs -------------------------
(***************************************************************************)
(* Proofs about the consumer threads and their shutdown, for every number  *)
(* of consumers and producers and every size of the queue.                 *)
(***************************************************************************)
EXTENDS ConsumerPool, CountingLemmas

Giving == {c \in Consumers : pc[c] = "give"}
Counted == {c \in Consumers : pc[c] \in {"loop", "give", "handle", "left", "dec", "decw"}}
InFlight == {p \in Producers : call[p] \in {"choose", "block", "try"}}

(* Where each thread can be, and what its place says about its terminator, *)
(* its call, the message it holds and the count it has read.               *)
Control ==
  /\ pc[Main] \in {"run", "term", "join", "joined"}
  /\ pc[Main] # "run" => closed
  /\ call[Main] # "none" => pc[Main] = "term"
  /\ \A c \in Consumers :
       /\ pc[c] \in {"new", "inc", "loop", "give", "handle", "left", "dec", "decw", "done"}
       /\ held[c] # "none" => pc[c] = "give"
       /\ call[c] # "none" => pc[c] \in {"handle", "dec"}
       /\ pc[c] \in {"dec", "decw", "done"} => ~term[c]
       /\ pc[c] = "decw" => seen[c] > 0
       /\ pc[c] = "handle" /\ call[c] # "none" => HandlersEnqueue
  /\ \A p \in Producers : pc[p] \in {"run", "done"} /\ (call[p] # "none" => pc[p] = "run")
  /\ \A t \in Threads : ~InApplication(t) => call[t] \notin {"check", "checksoft"}

(* A slot is free, holds a message, or is about to be given back.          *)
Slots == free + Len(queue) + Cardinality(Giving) = Cap

(* THENDs are only sent after cevf_terminate.                              *)
Shutdown == sent > 0 \/ Sending # {} => closed

(* ev_join has seen the end of the threads it has passed.                  *)
Joined ==
  /\ pc[Main] = "join" => \A t \in Started : t > k => pc[t] = "done"
  /\ pc[Main] = "joined" => \A t \in Started : pc[t] = "done"

(* Early events are in front of all others, and no consumer has left       *)
(* before they are taken.                                                  *)
EarlyFirst ==
  /\ sent = 0 => \A i \in 1 .. Len(queue) : queue[i] = "early"
  /\ \A i \in 1 .. Len(queue) :
       queue[i] = "early" => Left = {} /\ \A j \in 1 .. i : queue[j] = "early"

(* After the shutdown has begun each producer puts in one event at most.   *)
FewLate ==
  ~HandlersEnqueue /\ closed => Cardinality(Queued("late")) + Cardinality(InFlight) <= NP

(* The count of threads is exact until an update of it is overwritten.     *)
CountExact == ~lost => cnt = Cardinality(Counted)

IInv ==
  /\ TypeOK /\ Control /\ Slots /\ ThendPerConsumer /\ Shutdown
  /\ Joined /\ EarlyFirst /\ FewLate /\ CountExact
-----------------------------------------------------------------------------
(***************************************************************************)
(* Counting.                                                               *)
(***************************************************************************)
One(p) == IF p THEN 1 ELSE 0

(* The main thread, the consumers and the producers are three disjoint     *)
(* kinds, and there are NC consumers.                                      *)
LEMMA ThreadSets ==
  /\ Main \in Threads /\ Main \notin Started
  /\ Consumers \subseteq Started /\ Producers \subseteq Started /\ Started \subseteq Threads
  /\ Consumers \cap Producers = {} /\ Consumers # {}
  /\ IsFiniteSet(Consumers) /\ Cardinality(Consumers) = NC
  /\ IsFiniteSet(Producers) /\ Cardinality(Producers) = NP
  /\ IsFiniteSet(Threads)
<1>1. IsFiniteSet(Consumers) /\ Cardinality(Consumers) = NC
  BY SizesAssumption, FS_Interval DEF Consumers
<1>2. IsFiniteSet(Producers) /\ Cardinality(Producers) = NP
  <2>1. /\ IsFiniteSet(NC + 1 .. NC + NP)
        /\ Cardinality(NC + 1 .. NC + NP)
             = IF NC + 1 > NC + NP THEN 0 ELSE (NC + NP) - (NC + 1) + 1
    BY SizesAssumption, FS_Interval
  <2>2. QED
    BY <2>1, SizesAssumption DEF Producers
<1>3. IsFiniteSet(Threads)
  <2>1. 0 \in Int /\ NC + NP \in Int
    BY SizesAssumption
  <2>2. IsFiniteSet(0 .. NC + NP)
    BY <2>1, FS_Interval
  <2>3. QED
    BY <2>2 DEF Threads
<1>4. /\ Main \in Threads /\ Main \notin Started
      /\ Consumers \subseteq Started /\ Producers \subseteq Started /\ Started \subseteq Threads
      /\ Consumers \cap Producers = {} /\ 1 \in Consumers
  BY SizesAssumption DEF Main, Started, Consumers, Producers, Threads
<1>5. QED
  BY <1>1, <1>2, <1>3, <1>4

(* A thread is the main thread, a consumer or a producer.                  *)
LEMMA ThreadKinds ==
  Started = Consumers \cup Producers /\ Threads = {Main} \cup Started
BY SizesAssumption DEF Main, Started, Consumers, Producers, Threads

(* The sets that are counted are finite.                                   *)
LEMMA CountTypes ==
  /\ IsFiniteSet(Unused) /\ Cardinality(Unused) \in Nat
  /\ IsFiniteSet(Sending) /\ Cardinality(Sending) \in Nat
  /\ IsFiniteSet(Left) /\ Cardinality(Left) \in Nat /\ Cardinality(Left) <= NC
  /\ IsFiniteSet(Giving) /\ Cardinality(Giving) \in Nat
  /\ IsFiniteSet(Counted) /\ Cardinality(Counted) \in Nat
  /\ IsFiniteSet(InFlight) /\ Cardinality(InFlight) \in Nat /\ Cardinality(InFlight) <= NP
<1>1. /\ Unused \subseteq Consumers /\ Left \subseteq Consumers
      /\ Giving \subseteq Consumers /\ Counted \subseteq Consumers
      /\ InFlight \subseteq Producers /\ Sending \subseteq Threads
  BY DEF Unused, Left, Giving, Counted, InFlight, Sending
<1>2. QED
  BY <1>1, ThreadSets, PartOf

(* A step that concerns one thread moves that thread only.                 *)
LEMMA MoveOne ==
  ASSUME NEW t \in Threads,
         \A u \in Threads \ {t} : /\ pc'[u] = pc[u] /\ call'[u] = call[u]
                                 /\ held'[u] = held[u] /\ term'[u] = term[u]
  PROVE  /\ Cardinality(Unused') = Cardinality(Unused) - Has(Unused, t) + Has(Unused', t)
         /\ Cardinality(Sending') = Cardinality(Sending) - Has(Sending, t) + Has(Sending', t)
         /\ Cardinality(Left') = Cardinality(Left) - Has(Left, t) + Has(Left', t)
         /\ Cardinality(Giving') = Cardinality(Giving) - Has(Giving, t) + Has(Giving', t)
         /\ Cardinality(Counted') = Cardinality(Counted) - Has(Counted, t) + Has(Counted', t)
         /\ Cardinality(InFlight') = Cardinality(InFlight) - Has(InFlight, t) + Has(InFlight', t)
<1>1. /\ Unused \ {t} = Unused' \ {t} /\ Left \ {t} = Left' \ {t}
      /\ Giving \ {t} = Giving' \ {t} /\ Counted \ {t} = Counted' \ {t}
  BY ThreadSets DEF Unused, Left, Giving, Counted
<1>2. InFlight \ {t} = InFlight' \ {t}
  BY ThreadSets DEF InFlight
<1>3. Sending \ {t} = Sending' \ {t}
  BY DEF Sending, InApplication
<1>4. QED
  BY <1>1, <1>2, <1>3, CountTypes, CardinalityMove

(* What puts a thread into each of the sets.                               *)
LEMMA Members ==
  ASSUME NEW t \in Threads
  PROVE  /\ Has(Unused, t) = One(t \in Consumers /\ term[t])
         /\ Has(Sending, t) = One(call[t] # "none" /\ ~InApplication(t))
         /\ Has(Left, t) = One(t \in Consumers /\ (pc[t] \in {"left", "dec", "decw", "done"} \/ held[t] = "thend"))
         /\ Has(Giving, t) = One(t \in Consumers /\ pc[t] = "give")
         /\ Has(Counted, t) = One(t \in Consumers /\ pc[t] \in {"loop", "give", "handle", "left", "dec", "decw"})
         /\ Has(InFlight, t) = One(t \in Producers /\ call[t] \in {"choose", "block", "try"})
         /\ Has(Unused', t) = One(t \in Consumers /\ term'[t])
         /\ Has(Sending', t) = One(call'[t] # "none" /\ ~InApplication(t)')
         /\ Has(Left', t) = One(t \in Consumers /\ (pc'[t] \in {"left", "dec", "decw", "done"} \/ held'[t] = "thend"))
         /\ Has(Giving', t) = One(t \in Consumers /\ pc'[t] = "give")
         /\ Has(Counted', t) = One(t \in Consumers /\ pc'[t] \in {"loop", "give", "handle", "left", "dec", "decw"})
         /\ Has(InFlight', t) = One(t \in Producers /\ call'[t] \in {"choose", "block", "try"})
BY DEF Has, One, Unused, Sending, Left, Giving, Counted, InFlight

(* The messages of each kind in the queue.                                 *)
LEMMA QueueMoves ==
  ASSUME TypeOK, NEW m \in Messages
  PROVE  /\ Cardinality(Queued(m)) \in Nat
         /\ Cardinality(Queued(m)) = 0 <=> \A i \in 1 .. Len(queue) : queue[i] # m
         /\ \A x \in Messages :
              queue' = Append(queue, x) =>
                Cardinality(Queued(m)') = Cardinality(Queued(m)) + One(x = m)
         /\ queue # <<>> /\ queue' = Tail(queue) =>
              Cardinality(Queued(m)') = Cardinality(Queued(m)) - One(Head(queue) = m)
<1>1. queue \in Seq(Messages)
  BY DEF TypeOK
<1>2. Queued(m) = Positions(queue, m) /\ Queued(m)' = Positions(queue', m)
  BY DEF Queued, Positions
<1>3. Cardinality(Queued(m)) \in Nat /\ (Cardinality(Queued(m)) = 0 <=> \A i \in 1 .. Len(queue) : queue[i] # m)
  BY <1>1, <1>2, PositionsCount
<1>4. ASSUME NEW x \in Messages, queue' = Append(queue, x)
      PROVE  Cardinality(Queued(m)') = Cardinality(Queued(m)) + One(x = m)
  <2>1. Cardinality(Positions(Append(queue, x), m)) = Cardinality(Positions(queue, m)) + (IF x = m THEN 1 ELSE 0)
    BY <1>1, PositionsAppend
  <2>2. QED
    BY <1>2, <1>4, <2>1 DEF One
<1>5. ASSUME queue # <<>>, queue' = Tail(queue)
      PROVE  Cardinality(Queued(m)') = Cardinality(Queued(m)) - One(Head(queue) = m)
  <2>1. Cardinality(Positions(Tail(queue), m)) = Cardinality(Positions(queue, m)) - (IF Head(queue) = m THEN 1 ELSE 0)
    BY <1>1, <1>5, PositionsTail
  <2>2. QED
    BY <1>2, <1>5, <2>1 DEF One
<1>6. QED
  BY <1>3, <1>4, <1>5
-----------------------------------------------------------------------------
(***************************************************************************)
(* The control of the threads.                                             *)
(***************************************************************************)
(* Every step leaves each thread where it can be.                          *)
LEMMA StepControl == IInv /\ Next => Control'
<1> SUFFICES ASSUME IInv, Next
             PROVE  Control'
  OBVIOUS
<1> USE ThreadSets DEF IInv, TypeOK, Control, Goto, SetCall, InApplication, reg
<1>1. ASSUME NEW t \in Threads, CallEnqueue(t)
      PROVE  Control'
  BY <1>1 DEF CallEnqueue
<1>2. ASSUME NEW t \in Threads, CheckClosed(t)
      PROVE  Control'
  BY <1>2 DEF CheckClosed
<1>3. ASSUME NEW t \in Threads, ChooseMode(t)
      PROVE  Control'
  BY <1>3 DEF ChooseMode
<1>4. ASSUME NEW t \in Threads, Put(t) \/ Refuse(t)
      PROVE  Control'
  BY <1>4 DEF Put, Refuse
<1>5. ASSUME NEW c \in Consumers, IncRead(c) \/ IncWrite(c)
      PROVE  Control'
  BY <1>5, SMTT(30) DEF IncRead, IncWrite
<1>6. ASSUME NEW c \in Consumers, Take(c)
      PROVE  Control'
  BY <1>6 DEF Take
<1>7. ASSUME NEW c \in Consumers, Give(c)
      PROVE  Control'
  BY <1>7 DEF Give
<1>8. ASSUME NEW c \in Consumers, Handled(c)
      PROVE  Control'
  BY <1>8 DEF Handled
<1>9. ASSUME NEW c \in Consumers, TakeOwnTerminator(c)
      PROVE  Control'
  BY <1>9 DEF TakeOwnTerminator
<1>10. ASSUME NEW c \in Consumers, DecRead(c) \/ DecWrite(c)
       PROVE  Control'
  BY <1>10, SMTT(30) DEF DecRead, DecWrite
<1>11. ASSUME NEW p \in Producers, ProducerReturn(p)
       PROVE  Control'
  BY <1>11 DEF ProducerReturn
<1>12. CASE Terminate
  BY <1>12 DEF Terminate
<1>13. CASE TerminateThread
  <2>1. k \in Started
    BY <1>13, SizesAssumption DEF TerminateThread, Started
  <2>2. QED
    BY <1>13, <2>1 DEF TerminateThread
<1>14. CASE LeaveMainloop \/ AllTerminated \/ JoinThread
  BY <1>14, SMTT(30) DEF LeaveMainloop, AllTerminated, JoinThread
<1>15. QED
  BY <1>1, <1>2, <1>3, <1>4, <1>5, <1>6, <1>7, <1>8, <1>9, <1>10, <1>11, <1>12, <1>13, <1>14
     DEF Next, EnqueueStep, ConsumerStep, MainStep
-----------------------------------------------------------------------------
(***************************************************************************)
(* The queue: slots, THENDs, early and late events.                        *)
(***************************************************************************)
(* A slot is only taken when it is free, and only given back after the     *)
(* message has left the queue.                                             *)
LEMMA StepSlots == IInv /\ Next => Slots'
<1> SUFFICES ASSUME IInv, Next
             PROVE  Slots'
  OBVIOUS
<1> USE CountTypes, ThreadSets DEF IInv, TypeOK, Control, Slots, Goto, SetCall, reg
<1>1. ASSUME NEW t \in Threads, Put(t)
      PROVE  Slots'
  <2>1. Giving' = Giving
    BY <1>1 DEF Put, Giving
  <2>2. Message(t) \in Messages
    BY DEF Message, Messages
  <2>3. Len(queue') = Len(queue) + 1
    BY <1>1, <2>2 DEF Put
  <2>4. QED
    BY <1>1, <2>1, <2>3 DEF Put
<1>2. ASSUME NEW c \in Consumers, Take(c)
      PROVE  Slots'
  <2>1. Cardinality(Giving') = Cardinality(Giving) + 1
    <3>1. Cardinality(Giving') = Cardinality(Giving) - Has(Giving, c) + Has(Giving', c)
      BY <1>2, MoveOne DEF Take
    <3>2. Has(Giving, c) = 0 /\ Has(Giving', c) = 1
      BY <1>2 DEF Take, Has, Giving
    <3>3. QED
      BY <3>1, <3>2
  <2>2. Len(queue') = Len(queue) - 1
    BY <1>2 DEF Take
  <2>3. QED
    BY <1>2, <2>1, <2>2 DEF Take
<1>3. ASSUME NEW c \in Consumers, Give(c)
      PROVE  Slots'
  <2>1. Cardinality(Giving') = Cardinality(Giving) - 1
    <3>1. Cardinality(Giving') = Cardinality(Giving) - Has(Giving, c) + Has(Giving', c)
      BY <1>3, MoveOne DEF Give
    <3>2. Has(Giving, c) = 1 /\ Has(Giving', c) = 0
      BY <1>3 DEF Give, Has, Giving
    <3>3. QED
      BY <3>1, <3>2
  <2>2. QED
    BY <1>3, <2>1 DEF Give
<1>4. ASSUME NEW t \in Threads, CallEnqueue(t) \/ CheckClosed(t) \/ ChooseMode(t) \/ Refuse(t)
      PROVE  Slots'
  <2>1. Giving' = Giving
    BY <1>4 DEF CallEnqueue, CheckClosed, ChooseMode, Refuse, Giving
  <2>2. QED
    BY <1>4, <2>1 DEF CallEnqueue, CheckClosed, ChooseMode, Refuse
<1>5. ASSUME NEW c \in Consumers,
             IncRead(c) \/ IncWrite(c) \/ Handled(c) \/ TakeOwnTerminator(c) \/ DecRead(c) \/ DecWrite(c)
      PROVE  Slots'
  <2>1. Giving' = Giving
    BY <1>5, ZenonT(40) DEF IncRead, IncWrite, Handled, TakeOwnTerminator, DecRead, DecWrite, Giving
  <2>2. QED
    BY <1>5, <2>1 DEF IncRead, IncWrite, Handled, TakeOwnTerminator, DecRead, DecWrite
<1>6. ASSUME NEW p \in Producers, ProducerReturn(p)
      PROVE  Slots'
  <2>1. Giving' = Giving
    BY <1>6 DEF ProducerReturn, Giving
  <2>2. QED
    BY <1>6, <2>1 DEF ProducerReturn
<1>7. CASE Terminate \/ MainStep
  <2>1. Giving' = Giving
    BY <1>7 DEF Terminate, MainStep, LeaveMainloop, TerminateThread, AllTerminated, JoinThread, Giving
  <2>2. QED
    BY <1>7, <2>1 DEF Terminate, MainStep, LeaveMainloop, TerminateThread, AllTerminated, JoinThread
<1>8. QED
  BY <1>1, <1>2, <1>3, <1>4, <1>5, <1>6, <1>7 DEF Next, EnqueueStep, ConsumerStep

(* Every step keeps the types; what fills the queue leaves its semaphore   *)
(* no more free slots than there are.                                      *)
LEMMA StepTypes == IInv /\ Next => TypeOK'
<1> SUFFICES ASSUME IInv, Next
             PROVE  TypeOK'
  OBVIOUS
<1>a. TypeOK
  BY DEF IInv
<1> USE <1>a, ThreadSets, SizesAssumption DEF TypeOK, Goto, SetCall, reg
<1>1. ASSUME NEW t \in Threads, CallEnqueue(t)
      PROVE  TypeOK'
  BY <1>1 DEF CallEnqueue
<1>2. ASSUME NEW t \in Threads, CheckClosed(t) \/ ChooseMode(t) \/ Refuse(t)
      PROVE  TypeOK'
  <2>1. CASE CheckClosed(t)
    BY <2>1 DEF CheckClosed
  <2>2. CASE ChooseMode(t)
    BY <2>2 DEF ChooseMode
  <2>3. CASE Refuse(t)
    BY <2>3 DEF Refuse
  <2>4. QED
    BY <1>2, <2>1, <2>2, <2>3
<1>3. ASSUME NEW t \in Threads, Put(t)
      PROVE  TypeOK'
  <2>1. Message(t) \in Messages
    BY DEF Message, Messages
  <2>2. queue' \in Seq(Messages)
    BY <1>3, <2>1 DEF Put
  <2>3. QED
    BY <1>3, <2>2 DEF Put
<1>4. ASSUME NEW c \in Consumers, IncRead(c) \/ IncWrite(c)
      PROVE  TypeOK'
  <2>1. CASE IncRead(c)
    BY <2>1 DEF IncRead
  <2>2. CASE IncWrite(c)
    <3>1. seen[c] + 1 \in Nat
      OBVIOUS
    <3>2. QED
      BY <2>2, <3>1 DEF IncWrite
  <2>3. QED
    BY <1>4, <2>1, <2>2
<1>5. ASSUME NEW c \in Consumers, Take(c)
      PROVE  TypeOK'
  <2>1. Head(queue) \in Messages /\ queue' \in Seq(Messages)
    BY <1>5 DEF Take
  <2>2. QED
    BY <1>5, <2>1 DEF Take
<1>6. ASSUME NEW c \in Consumers, Give(c)
      PROVE  TypeOK'
  <2>1. Slots' /\ Cardinality(Giving') \in Nat
    <3>1. IsFiniteSet(Giving')
      BY PartOf DEF Giving
    <3>2. QED
      BY <3>1, FS_CardinalityType, <1>6, StepSlots DEF Next, ConsumerStep
  <2>2. free' <= Cap
    BY <1>6, <2>1, CountTypes, SMTT(30) DEF Give, Slots, IInv, Control
  <2>3. QED
    BY <1>6, <2>2 DEF Give
<1>7. ASSUME NEW c \in Consumers, Handled(c) \/ TakeOwnTerminator(c)
      PROVE  TypeOK'
  BY <1>7 DEF Handled, TakeOwnTerminator
<1>8. ASSUME NEW c \in Consumers, DecRead(c) \/ DecWrite(c)
      PROVE  TypeOK'
  <2>1. CASE DecRead(c)
    BY <2>1 DEF DecRead
  <2>2. CASE DecWrite(c)
    <3>1. seen[c] - 1 \in Nat
      BY <2>2 DEF DecWrite, IInv, Control
    <3>2. QED
      BY <2>2, <3>1 DEF DecWrite
  <2>3. QED
    BY <1>8, <2>1, <2>2
<1>9. ASSUME NEW p \in Producers, ProducerReturn(p)
      PROVE  TypeOK'
  BY <1>9 DEF ProducerReturn
<1>10. CASE Terminate \/ MainStep
  <2>1. CASE Terminate \/ LeaveMainloop
    <3>1. closed' \in BOOLEAN /\ UNCHANGED <<queue, free, reg, term, call, held, k, calls, sent, drops>>
      BY <2>1 DEF Terminate, LeaveMainloop
    <3>2. pc' \in [Threads -> {"new", "inc", "loop", "give", "handle", "left", "dec", "decw",
                              "done", "run", "term", "join", "joined"}]
      BY <2>1 DEF Terminate, LeaveMainloop
    <3>3. QED
      BY <3>1, <3>2
  <2>2. CASE TerminateThread
    <3>1. call' \in [Threads -> {"none", "check", "checksoft", "choose", "block", "try"}]
      BY <2>2 DEF TerminateThread
    <3>2. term' \in [Threads -> BOOLEAN]
      BY <2>2, Zenon DEF TerminateThread
    <3>3. k' \in 0 .. NC + NP
      BY <2>2 DEF TerminateThread
    <3>4. QED
      BY <2>2, <3>1, <3>2, <3>3 DEF TerminateThread
  <2>3. CASE AllTerminated
    BY <2>3 DEF AllTerminated
  <2>4. CASE JoinThread
    BY <2>4 DEF JoinThread
  <2>5. QED
    BY <1>10, <2>1, <2>2, <2>3, <2>4 DEF MainStep
<1>11. QED
  BY <1>1, <1>2, <1>3, <1>4, <1>5, <1>6, <1>7, <1>8, <1>9, <1>10 DEF Next, EnqueueStep, ConsumerStep

(* What the places of a THEND gain and lose when its terminator is taken   *)
(* (a), it is accepted (b) or refused (d), and a consumer takes it (l).    *)
LEMMA ThendsMove ==
  ASSUME TypeOK, ThendPerConsumer,
         NEW a \in {0, 1}, NEW b \in {0, 1}, NEW d \in {0, 1}, NEW l \in {0, 1},
         Cardinality(Unused') = Cardinality(Unused) - a,
         Cardinality(Sending') = Cardinality(Sending) + a - b - d,
         sent' = sent + b, drops' = drops + d,
         Cardinality(Queued("thend")') = Cardinality(Queued("thend")) + b - l,
         Cardinality(Left') = Cardinality(Left) + l
  PROVE  ThendPerConsumer'
<1>1. sent \in Nat /\ drops \in Nat
  BY DEF TypeOK
<1>2. "thend" \in Messages
  BY DEF Messages
<1>3. Cardinality(Queued("thend")) \in Nat
  BY <1>2, QueueMoves
<1>4. QED
  BY <1>1, <1>3, CountTypes DEF ThendPerConsumer

(* A THEND goes from the terminator to a sender, into the queue or down    *)
(* the drain, and from the queue to the consumer that takes it.            *)
LEMMA StepThends == IInv /\ Next => ThendPerConsumer'
<1> SUFFICES ASSUME IInv, Next
             PROVE  ThendPerConsumer'
  OBVIOUS
<1>a. /\ TypeOK /\ Control /\ ThendPerConsumer
      /\ "thend" \in Messages
  BY DEF IInv, Messages
<1>b. ASSUME Unused' = Unused, Sending' = Sending, Left' = Left, UNCHANGED <<queue, sent, drops>>
      PROVE  ThendPerConsumer'
  <2>1. Queued("thend")' = Queued("thend")
    BY <1>b DEF Queued
  <2>2. QED
    BY <1>a, <1>b, <2>1 DEF ThendPerConsumer
<1> USE <1>a, ThreadSets DEF TypeOK, Control, Goto, SetCall, InApplication, reg
<1>1. ASSUME NEW t \in Threads, CallEnqueue(t) \/ CheckClosed(t) \/ ChooseMode(t)
      PROVE  ThendPerConsumer'
  <2>1. Unused' = Unused /\ Left' = Left
    BY <1>1 DEF CallEnqueue, CheckClosed, ChooseMode, Unused, Left
  <2>2. Sending' = Sending
    BY <1>1, SMTT(30) DEF CallEnqueue, CheckClosed, ChooseMode, Sending
  <2>3. QED
    BY <1>1, <1>b, <2>1, <2>2 DEF CallEnqueue, CheckClosed, ChooseMode
<1>2. ASSUME NEW t \in Threads, Put(t) \/ Refuse(t)
      PROVE  ThendPerConsumer'
  <2>1. Unused' = Unused /\ Left' = Left
    BY <1>2 DEF Put, Refuse, Unused, Left
  <2>2. /\ Cardinality(Sending') = Cardinality(Sending) - One(Message(t) = "thend")
        /\ Cardinality(Sending) \in Nat
    <3>1. Cardinality(Sending') = Cardinality(Sending) - Has(Sending, t) + Has(Sending', t)
      BY <1>2, MoveOne DEF Put, Refuse
    <3>2. Has(Sending, t) = One(Message(t) = "thend") /\ Has(Sending', t) = 0
      BY <1>2 DEF Put, Refuse, Has, One, Sending, Message
    <3>3. QED
      BY <3>1, <3>2, CountTypes DEF One
  <2>3. CASE Put(t)
    <3>1. Message(t) \in Messages
      BY DEF Message, Messages
    <3>2. Cardinality(Queued("thend")') = Cardinality(Queued("thend")) + One(Message(t) = "thend")
      BY <2>3, <3>1, QueueMoves, ZenonT(40) DEF Put
    <3>3. Cardinality(Queued("thend")) \in Nat
      BY QueueMoves
    <3>4. sent' = sent + One(Message(t) = "thend") /\ drops' = drops + 0
      BY <2>3 DEF Put, One
    <3>5. One(Message(t) = "thend") \in {0, 1}
      BY DEF One
    <3>6. /\ Cardinality(Unused') = Cardinality(Unused) - 0
          /\ Cardinality(Sending') = Cardinality(Sending) + 0 - One(Message(t) = "thend") - 0
          /\ Cardinality(Queued("thend")') = Cardinality(Queued("thend")) + One(Message(t) = "thend") - 0
          /\ Cardinality(Left') = Cardinality(Left) + 0
      BY <2>1, <2>2, <3>2, <3>3, <3>5, CountTypes, SMTT(30)
    <3>7. QED
      BY <3>4, <3>5, <3>6, ThendsMove
  <2>4. CASE Refuse(t)
    <3>1. Queued("thend")' = Queued("thend")
      BY <2>4 DEF Queued, Refuse
    <3>2. sent' = sent + 0 /\ drops' = drops + One(Message(t) = "thend")
      BY <2>4 DEF Refuse, One
    <3>3. One(Message(t) = "thend") \in {0, 1} /\ Cardinality(Queued("thend")) \in Nat
      BY QueueMoves DEF One
    <3>4. /\ Cardinality(Unused') = Cardinality(Unused) - 0
          /\ Cardinality(Sending') = Cardinality(Sending) + 0 - 0 - One(Message(t) = "thend")
          /\ Cardinality(Queued("thend")') = Cardinality(Queued("thend")) + 0 - 0
          /\ Cardinality(Left') = Cardinality(Left) + 0
      BY <2>1, <2>2, <3>1, <3>3, CountTypes
    <3>5. QED
      BY <3>2, <3>3, <3>4, ThendsMove
  <2>5. QED
    BY <1>2, <2>3, <2>4
<1>3. ASSUME NEW c \in Consumers, IncRead(c) \/ IncWrite(c) \/ Handled(c) \/ DecRead(c) \/ DecWrite(c)
      PROVE  ThendPerConsumer'
  <2>1. Unused' = Unused /\ Left' = Left
    BY <1>3 DEF IncRead, IncWrite, Handled, DecRead, DecWrite, Unused, Left
  <2>2. Sending' = Sending
    BY <1>3 DEF IncRead, IncWrite, Handled, DecRead, DecWrite, Sending
  <2>3. QED
    BY <1>3, <1>b, <2>1, <2>2 DEF IncRead, IncWrite, Handled, DecRead, DecWrite
<1>4. ASSUME NEW c \in Consumers, Take(c)
      PROVE  ThendPerConsumer'
  <2>1. Unused' = Unused /\ Sending' = Sending
    BY <1>4 DEF Take, Unused, Sending
  <2>2. Cardinality(Left') = Cardinality(Left) + One(Head(queue) = "thend")
    <3>1. Cardinality(Left') = Cardinality(Left) - Has(Left, c) + Has(Left', c)
      BY <1>4, MoveOne DEF Take
    <3>2. Has(Left, c) = 0 /\ Has(Left', c) = One(Head(queue) = "thend")
      BY <1>4 DEF Take, Has, One, Left
    <3>3. QED
      BY <3>1, <3>2, CountTypes DEF One
  <2>3. /\ Cardinality(Queued("thend")') = Cardinality(Queued("thend")) - One(Head(queue) = "thend")
        /\ Cardinality(Queued("thend")) \in Nat
    BY <1>4, QueueMoves DEF Take
  <2>4. sent' = sent + 0 /\ drops' = drops + 0 /\ One(Head(queue) = "thend") \in {0, 1}
    BY <1>4 DEF Take, One
  <2>5. /\ Cardinality(Unused') = Cardinality(Unused) - 0
        /\ Cardinality(Sending') = Cardinality(Sending) + 0 - 0 - 0
        /\ Cardinality(Queued("thend")') = Cardinality(Queued("thend")) + 0 - One(Head(queue) = "thend")
    BY <2>1, <2>3, <2>4, CountTypes
  <2>6. QED
    BY <2>2, <2>4, <2>5, ThendsMove
<1>5. ASSUME NEW c \in Consumers, Give(c)
      PROVE  ThendPerConsumer'
  <2>1. Unused' = Unused
    BY <1>5 DEF Give, Unused
  <2>2. Left' = Left
    BY <1>5 DEF Give, Left
  <2>3. Sending' = Sending
    BY <1>5 DEF Give, Sending
  <2>4. QED
    BY <1>5, <1>b, <2>1, <2>2, <2>3 DEF Give
<1>6. ASSUME NEW c \in Consumers, TakeOwnTerminator(c)
      PROVE  ThendPerConsumer'
  <2>1. Left' = Left /\ Queued("thend")' = Queued("thend")
    BY <1>6 DEF TakeOwnTerminator, Left, Queued
  <2>2. /\ Cardinality(Unused') = Cardinality(Unused) - Has(Unused, c) + Has(Unused', c)
        /\ Cardinality(Sending') = Cardinality(Sending) - Has(Sending, c) + Has(Sending', c)
    BY <1>6, MoveOne DEF TakeOwnTerminator
  <2>3. /\ Has(Unused, c) = One(term[c]) /\ Has(Unused', c) = 0
        /\ Has(Sending, c) = 0 /\ Has(Sending', c) = One(term[c])
    BY <1>6 DEF TakeOwnTerminator, Has, One, Unused, Sending
  <2>4. sent' = sent + 0 /\ drops' = drops + 0 /\ One(term[c]) \in {0, 1}
    BY <1>6 DEF TakeOwnTerminator, One
  <2>5. /\ Cardinality(Unused') = Cardinality(Unused) - One(term[c])
        /\ Cardinality(Sending') = Cardinality(Sending) + One(term[c]) - 0 - 0
        /\ Cardinality(Queued("thend")') = Cardinality(Queued("thend")) + 0 - 0
        /\ Cardinality(Left') = Cardinality(Left) + 0
    BY <2>1, <2>2, <2>3, <2>4, CountTypes, QueueMoves
  <2>6. QED
    BY <2>4, <2>5, ThendsMove
<1>7. ASSUME NEW p \in Producers, ProducerReturn(p)
      PROVE  ThendPerConsumer'
  <2>1. Unused' = Unused /\ Left' = Left /\ Sending' = Sending
    BY <1>7 DEF ProducerReturn, Unused, Left, Sending
  <2>2. QED
    BY <1>7, <1>b, <2>1 DEF ProducerReturn
<1>8. CASE TerminateThread
  <2>1. Left' = Left /\ Queued("thend")' = Queued("thend")
    BY <1>8 DEF TerminateThread, Left, Queued
  <2>2. k \in Started
    BY <1>8, SizesAssumption DEF TerminateThread, Started
  <2>3. Cardinality(Unused') = Cardinality(Unused) - Has(Unused, k) + Has(Unused', k)
    <3>1. Unused \ {k} = Unused' \ {k}
      BY <1>8 DEF TerminateThread, Unused
    <3>2. QED
      BY <3>1, CountTypes, CardinalityMove
  <2>4. Cardinality(Sending') = Cardinality(Sending) - Has(Sending, Main) + Has(Sending', Main)
    <3>1. Sending \ {Main} = Sending' \ {Main}
      BY <1>8 DEF TerminateThread, Sending
    <3>2. QED
      BY <3>1, CountTypes, CardinalityMove
  <2>5. Has(Unused, k) = One(term[k] /\ k \in Consumers) /\ Has(Unused', k) = 0
    BY <1>8, <2>2 DEF TerminateThread, Has, One, Unused
  <2>6. Has(Sending, Main) = 0 /\ Has(Sending', Main) = One(term[k] /\ k \in Consumers)
    BY <1>8 DEF TerminateThread, Has, One, Sending
  <2>7. sent' = sent + 0 /\ drops' = drops + 0 /\ One(term[k] /\ k \in Consumers) \in {0, 1}
    BY <1>8 DEF TerminateThread, One
  <2>8. /\ Cardinality(Unused') = Cardinality(Unused) - One(term[k] /\ k \in Consumers)
        /\ Cardinality(Sending') = Cardinality(Sending) + One(term[k] /\ k \in Consumers) - 0 - 0
        /\ Cardinality(Queued("thend")') = Cardinality(Queued("thend")) + 0 - 0
        /\ Cardinality(Left') = Cardinality(Left) + 0
    BY <2>1, <2>3, <2>4, <2>5, <2>6, <2>7, CountTypes, QueueMoves, SMTT(30)
  <2>9. QED
    BY <2>7, <2>8, ThendsMove
<1>9. CASE Terminate \/ LeaveMainloop \/ AllTerminated \/ JoinThread
  <2>1. Unused' = Unused /\ Left' = Left
    BY <1>9 DEF Terminate, LeaveMainloop, AllTerminated, JoinThread, Unused, Left
  <2>2. Sending' = Sending
    BY <1>9 DEF Terminate, LeaveMainloop, AllTerminated, JoinThread, Sending
  <2>3. QED
    BY <1>9, <1>b, <2>1, <2>2 DEF Terminate, LeaveMainloop, AllTerminated, JoinThread
<1>10. QED
  BY <1>1, <1>2, <1>3, <1>4, <1>5, <1>6, <1>7, <1>8, <1>9 DEF Next, EnqueueStep, ConsumerStep, MainStep

(* No consumer has left before a THEND was accepted.                       *)
LEMMA NoneLeft ==
  ASSUME TypeOK, ThendPerConsumer, sent = 0
  PROVE  Left = {}
<1>1. Cardinality(Queued("thend")) \in Nat
  BY QueueMoves DEF Messages
<1>2. Cardinality(Left) = 0
  BY <1>1, CountTypes DEF ThendPerConsumer
<1>3. QED
  BY <1>2, CountTypes, PartOf

(* Before cevf_terminate there is no THEND anywhere.                       *)
LEMMA Quiet ==
  ASSUME IInv, ~closed
  PROVE  sent = 0 /\ Sending = {} /\ Left = {} /\ pc[Main] = "run"
<1>1. sent = 0 /\ Sending = {} /\ pc[Main] = "run"
  BY DEF IInv, Shutdown, TypeOK, Control
<1>2. Left = {}
  BY <1>1, NoneLeft DEF IInv
<1>3. QED
  BY <1>1, <1>2

(* A THEND is sent by a thread that has seen the shutdown: the main thread *)
(* in ev_join, or a consumer that a THEND has ended.                       *)
LEMMA StepShutdown == IInv /\ Next => Shutdown'
<1> SUFFICES ASSUME IInv, Next, ~closed'
             PROVE  sent' = 0 /\ Sending' = {}
  BY DEF Shutdown
<1>1. ~closed
  BY DEF Next, EnqueueStep, ConsumerStep, MainStep, CallEnqueue, CheckClosed, ChooseMode, Put, Refuse,
         IncRead, IncWrite, Take, Give, Handled, TakeOwnTerminator, DecRead, DecWrite, ProducerReturn,
         Terminate, LeaveMainloop, TerminateThread, AllTerminated, JoinThread
<1>2. sent = 0 /\ Sending = {} /\ Left = {} /\ pc[Main] = "run" /\ TypeOK /\ Control
  BY <1>1, Quiet DEF IInv
<1>3. /\ \A t \in Threads : call[t] # "none" => InApplication(t)
      /\ \A c \in Consumers : pc[c] # "left"
  BY <1>2 DEF Sending, Left
<1> USE <1>1, <1>2, <1>3, ThreadSets DEF TypeOK, Control, Goto, SetCall, reg, InApplication
<1>4. ASSUME NEW t \in Threads, CallEnqueue(t) \/ CheckClosed(t) \/ ChooseMode(t) \/ Refuse(t)
      PROVE  sent' = 0 /\ Sending' = {}
  BY <1>4 DEF CallEnqueue, CheckClosed, ChooseMode, Refuse, Sending
<1>5. ASSUME NEW t \in Threads, Put(t)
      PROVE  sent' = 0 /\ Sending' = {}
  BY <1>5 DEF Put, Message, Sending
<1>6. ASSUME NEW c \in Consumers, ConsumerStep(c)
      PROVE  sent' = 0 /\ Sending' = {}
  <2>1. sent' = sent /\ call' = call
    BY <1>6 DEF ConsumerStep, IncRead, IncWrite, Take, Give, Handled, TakeOwnTerminator, DecRead, DecWrite
  <2>2. call[c] # "none" => pc'[c] = pc[c]
    BY <1>6 DEF ConsumerStep, IncRead, IncWrite, Take, Give, Handled, TakeOwnTerminator, DecRead, DecWrite
  <2>3. \A t \in Threads \ {c} : pc'[t] = pc[t]
    BY <1>6 DEF ConsumerStep, IncRead, IncWrite, Take, Give, Handled, TakeOwnTerminator, DecRead, DecWrite
  <2>4. QED
    BY <2>1, <2>2, <2>3 DEF Sending
<1>7. ASSUME NEW p \in Producers, ProducerReturn(p)
      PROVE  sent' = 0 /\ Sending' = {}
  BY <1>7 DEF ProducerReturn, Sending
<1>8. CASE Terminate \/ MainStep
  BY <1>8 DEF Terminate, MainStep, LeaveMainloop, TerminateThread, AllTerminated, JoinThread
<1>9. QED
  BY <1>4, <1>5, <1>6, <1>7, <1>8 DEF Next, EnqueueStep

(* ev_join only passes threads that have ended, and they stay ended.       *)
LEMMA StepJoined == IInv /\ Next => Joined'
<1> SUFFICES ASSUME IInv, Next
             PROVE  Joined'
  OBVIOUS
<1>a. TypeOK /\ Control /\ Joined
  BY DEF IInv
<1>b. ASSUME pc'[Main] = pc[Main], k' = k, \A t \in Started : pc[t] = "done" => pc'[t] = "done"
      PROVE  Joined'
  BY <1>a, <1>b DEF Joined
<1> USE <1>a, ThreadSets DEF TypeOK, Control, Goto, SetCall, reg
<1>1. ASSUME NEW t \in Threads, CallEnqueue(t) \/ EnqueueStep(t)
      PROVE  Joined'
  BY <1>1, <1>b DEF CallEnqueue, EnqueueStep, CheckClosed, ChooseMode, Put, Refuse
<1>2. ASSUME NEW c \in Consumers, ConsumerStep(c)
      PROVE  Joined'
  <2>1. c # Main /\ c \in Threads
    OBVIOUS
  <2>2. k' = k /\ pc[c] # "done" /\ \A t \in Threads \ {c} : pc'[t] = pc[t]
    BY <1>2, <2>1 DEF ConsumerStep, IncRead, IncWrite, Take, Give, Handled, TakeOwnTerminator, DecRead, DecWrite
  <2>3. QED
    BY <2>1, <2>2, <1>b
<1>3. ASSUME NEW p \in Producers, ProducerReturn(p)
      PROVE  Joined'
  BY <1>3, <1>b DEF ProducerReturn
<1>4. CASE Terminate
  BY <1>4, <1>b DEF Terminate
<1>5. CASE LeaveMainloop \/ TerminateThread
  BY <1>5 DEF LeaveMainloop, TerminateThread, Joined
<1>6. CASE AllTerminated
  BY <1>6, SizesAssumption DEF AllTerminated, Joined, Started
<1>7. CASE JoinThread
  BY <1>7, SizesAssumption DEF JoinThread, Joined, Started, Main
<1>8. QED
  BY <1>1, <1>2, <1>3, <1>4, <1>5, <1>6, <1>7 DEF Next, MainStep

(* Nothing gets in front of an early event, and a consumer that leaves has *)
(* taken a THEND from behind all of them.                                  *)
LEMMA StepEarlyFirst == IInv /\ Next => EarlyFirst'
<1> SUFFICES ASSUME IInv, Next
             PROVE  EarlyFirst'
  OBVIOUS
<1>a. TypeOK /\ Control /\ ThendPerConsumer /\ EarlyFirst
  BY DEF IInv
<1>b. ASSUME UNCHANGED <<queue, sent>>, Left' = Left
      PROVE  EarlyFirst'
  BY <1>a, <1>b DEF EarlyFirst
<1>1. ASSUME NEW t \in Threads, Put(t)
      PROVE  EarlyFirst'
  <2>1. Left' = Left
    BY <1>1 DEF Put, SetCall, Left, reg
  <2>2. Message(t) \in Messages
    BY DEF Message, Messages
  <2>3. /\ Len(queue') = Len(queue) + 1 /\ queue'[Len(queue) + 1] = Message(t)
        /\ \A i \in 1 .. Len(queue) : queue'[i] = queue[i]
        /\ Len(queue) \in Nat
    BY <1>1, <1>a, <2>2 DEF Put, TypeOK
  <2>4. /\ sent \in Nat /\ (sent' = 0 => sent = 0 /\ Message(t) = "early")
        /\ Message(t) = "early" => sent = 0
    BY <1>1, <1>a DEF Put, Message, TypeOK
  <2>5. sent = 0 => Left = {}
    BY <1>a, NoneLeft
  <2>6. ASSUME sent' = 0, NEW i \in 1 .. Len(queue')
        PROVE  queue'[i] = "early"
    BY <2>3, <2>4, <2>6, <1>a DEF EarlyFirst
  <2>7. ASSUME NEW i \in 1 .. Len(queue'), queue'[i] = "early"
        PROVE  Left' = {} /\ \A j \in 1 .. i : queue'[j] = "early"
    <3>1. CASE i \in 1 .. Len(queue)
      BY <3>1, <2>1, <2>3, <2>7, <1>a DEF EarlyFirst
    <3>2. CASE i = Len(queue) + 1
      BY <3>2, <2>1, <2>3, <2>4, <2>5, <2>7, <1>a DEF EarlyFirst
    <3>3. QED
      BY <3>1, <3>2, <2>3
  <2>8. QED
    BY <2>6, <2>7 DEF EarlyFirst
<1>2. ASSUME NEW c \in Consumers, Take(c)
      PROVE  EarlyFirst'
  <2>1. /\ queue # <<>> /\ Len(queue) \in Nat \ {0} /\ Len(queue') = Len(queue) - 1
        /\ \A i \in 1 .. Len(queue) - 1 : queue'[i] = queue[i + 1]
        /\ Head(queue) = queue[1] /\ sent' = sent
    BY <1>2, <1>a DEF Take, TypeOK
  <2>2. Head(queue) # "thend" => Left' = Left
    BY <1>2, <1>a, ThreadSets DEF Take, Left, Goto, TypeOK, Control
  <2>3. ASSUME NEW i \in 1 .. Len(queue'), queue'[i] = "early"
        PROVE  Left' = {} /\ \A j \in 1 .. i : queue'[j] = "early"
    <3>1. i + 1 \in 1 .. Len(queue) /\ queue[i + 1] = "early" /\ 1 \in 1 .. i + 1
      BY <2>1, <2>3
    <3>2. Left = {} /\ \A j \in 1 .. i + 1 : queue[j] = "early"
      BY <3>1, <1>a DEF EarlyFirst
    <3>3. Left' = {}
      BY <3>1, <3>2, <2>1, <2>2
    <3>4. \A j \in 1 .. i : j + 1 \in 1 .. i + 1 /\ j \in 1 .. Len(queue) - 1
      BY <2>1
    <3>5. QED
      BY <3>2, <3>3, <3>4, <2>1
  <2>4. ASSUME sent' = 0, NEW i \in 1 .. Len(queue')
        PROVE  queue'[i] = "early"
    BY <2>1, <2>4, <1>a DEF EarlyFirst
  <2>5. QED
    BY <2>3, <2>4 DEF EarlyFirst
<1>3. ASSUME NEW t \in Threads, CallEnqueue(t) \/ CheckClosed(t) \/ ChooseMode(t) \/ Refuse(t)
      PROVE  EarlyFirst'
  BY <1>3, <1>b DEF CallEnqueue, CheckClosed, ChooseMode, Refuse, Left
<1>4. ASSUME NEW c \in Consumers,
             \/ IncRead(c) \/ IncWrite(c) \/ Give(c) \/ Handled(c)
             \/ TakeOwnTerminator(c) \/ DecRead(c) \/ DecWrite(c)
      PROVE  EarlyFirst'
  <2>1. UNCHANGED <<queue, sent>>
    BY <1>4 DEF IncRead, IncWrite, Give, Handled, TakeOwnTerminator, DecRead, DecWrite
  <2>2. Left' = Left
    BY <1>4, <1>a, ThreadSets
       DEF IncRead, IncWrite, Give, Handled, TakeOwnTerminator, DecRead, DecWrite, Left, TypeOK, Control, Goto
  <2>3. QED
    BY <1>b, <2>1, <2>2
<1>5. ASSUME NEW p \in Producers, ProducerReturn(p)
      PROVE  EarlyFirst'
  <2>1. Left' = Left
    BY <1>5, <1>a, ThreadSets DEF ProducerReturn, Left, TypeOK, Goto
  <2>2. QED
    BY <1>5, <1>b, <2>1 DEF ProducerReturn
<1>6. CASE Terminate \/ MainStep
  <2>1. Left' = Left
    BY <1>6, <1>a, ThreadSets
       DEF Terminate, MainStep, LeaveMainloop, TerminateThread, AllTerminated, JoinThread, Left, TypeOK, Goto
  <2>2. QED
    BY <1>6, <1>b, <2>1 DEF Terminate, MainStep, LeaveMainloop, TerminateThread, AllTerminated, JoinThread
<1>7. QED
  BY <1>1, <1>2, <1>3, <1>4, <1>5, <1>6 DEF Next, EnqueueStep, ConsumerStep

(* After cevf_terminate only a producer that has already looked at         *)
(* data_mq_closed can still add an event.                                  *)
LEMMA StepFewLate == IInv /\ Next => FewLate'
<1> SUFFICES ASSUME IInv, Next, ~HandlersEnqueue, closed'
             PROVE  Cardinality(Queued("late")') + Cardinality(InFlight') <= NP
  BY DEF FewLate
<1>a. TypeOK /\ Control /\ FewLate /\ "late" \in Messages
  BY DEF IInv, Messages
<1>b. /\ Cardinality(Queued("late")) \in Nat
      /\ Cardinality(InFlight) \in Nat /\ Cardinality(InFlight) <= NP
      /\ closed => Cardinality(Queued("late")) + Cardinality(InFlight) <= NP
      /\ NP \in Nat
  BY <1>a, QueueMoves, CountTypes, SizesAssumption DEF FewLate
<1>c. ASSUME closed, UNCHANGED queue, InFlight' = InFlight
      PROVE  Cardinality(Queued("late")') + Cardinality(InFlight') <= NP
  <2>1. Queued("late")' = Queued("late")
    BY <1>c DEF Queued
  <2>2. QED
    BY <1>b, <1>c, <2>1
<1> USE <1>a, ThreadSets DEF TypeOK, Control, Goto, SetCall, reg
<1>1. ASSUME NEW t \in Threads, Put(t)
      PROVE  Cardinality(Queued("late")') + Cardinality(InFlight') <= NP
  <2>1. Message(t) \in Messages /\ closed
    BY <1>1 DEF Put, Message, Messages
  <2>2. Cardinality(Queued("late")') = Cardinality(Queued("late")) + One(Message(t) = "late")
    BY <1>1, <2>1, QueueMoves, ZenonT(40) DEF Put
  <2>3. Cardinality(InFlight') = Cardinality(InFlight) - One(t \in Producers)
    <3>1. Cardinality(InFlight') = Cardinality(InFlight) - Has(InFlight, t) + Has(InFlight', t)
      BY <1>1, MoveOne DEF Put
    <3>2. Has(InFlight, t) = One(t \in Producers) /\ Has(InFlight', t) = 0
      BY <1>1 DEF Put, Has, One, InFlight
    <3>3. QED
      BY <3>1, <3>2, <1>b DEF One
  <2>4. Message(t) = "late" => t \in Producers
    BY <1>1, ThreadKinds DEF Put, Message, InApplication
  <2>5. QED
    BY <1>b, <2>1, <2>2, <2>3, <2>4 DEF One
<1>2. ASSUME NEW t \in Threads, Refuse(t)
      PROVE  Cardinality(Queued("late")') + Cardinality(InFlight') <= NP
  <2>1. Queued("late")' = Queued("late") /\ closed
    BY <1>2 DEF Refuse, Queued
  <2>2. InFlight' \subseteq InFlight
    BY <1>2 DEF Refuse, InFlight
  <2>3. Cardinality(InFlight') <= Cardinality(InFlight) /\ Cardinality(InFlight') \in Nat
    BY <2>2, CountTypes, PartOf
  <2>4. QED
    BY <1>b, <2>1, <2>3
<1>3. ASSUME NEW t \in Threads, CallEnqueue(t) \/ CheckClosed(t) \/ ChooseMode(t)
      PROVE  Cardinality(Queued("late")') + Cardinality(InFlight') <= NP
  <2>1. closed /\ UNCHANGED queue
    BY <1>3 DEF CallEnqueue, CheckClosed, ChooseMode
  <2>2. InFlight' = InFlight
    BY <1>3, <2>1, SMTT(30) DEF CallEnqueue, CheckClosed, ChooseMode, InFlight
  <2>3. QED
    BY <1>c, <2>1, <2>2
<1>4. ASSUME NEW c \in Consumers, Take(c)
      PROVE  Cardinality(Queued("late")') + Cardinality(InFlight') <= NP
  <2>1. Cardinality(Queued("late")') = Cardinality(Queued("late")) - One(Head(queue) = "late")
    BY <1>4, QueueMoves DEF Take
  <2>2. InFlight' = InFlight /\ closed
    BY <1>4 DEF Take, InFlight
  <2>3. QED
    BY <1>b, <2>1, <2>2 DEF One
<1>5. ASSUME NEW c \in Consumers,
             \/ IncRead(c) \/ IncWrite(c) \/ Give(c) \/ Handled(c)
             \/ TakeOwnTerminator(c) \/ DecRead(c) \/ DecWrite(c)
      PROVE  Cardinality(Queued("late")') + Cardinality(InFlight') <= NP
  <2>1. closed /\ UNCHANGED queue
    BY <1>5 DEF IncRead, IncWrite, Give, Handled, TakeOwnTerminator, DecRead, DecWrite
  <2>2. \A t \in Producers : call'[t] = call[t]
    BY <1>5 DEF IncRead, IncWrite, Give, Handled, TakeOwnTerminator, DecRead, DecWrite
  <2>3. QED
    BY <1>c, <2>1, <2>2 DEF InFlight
<1>6. ASSUME NEW p \in Producers, ProducerReturn(p)
      PROVE  Cardinality(Queued("late")') + Cardinality(InFlight') <= NP
  BY <1>6, <1>c DEF ProducerReturn, InFlight
<1>7. CASE Terminate
  <2>1. sent = 0
    BY <1>7, Quiet DEF Terminate
  <2>2. \A i \in 1 .. Len(queue) : queue[i] # "late"
    BY <2>1 DEF IInv, EarlyFirst
  <2>3. Cardinality(Queued("late")) = 0
    BY <2>2, QueueMoves
  <2>4. Queued("late")' = Queued("late") /\ InFlight' = InFlight
    BY <1>7 DEF Terminate, Queued, InFlight
  <2>5. QED
    BY <1>b, <2>3, <2>4
<1>8. CASE MainStep
  <2>1. closed /\ UNCHANGED queue
    BY <1>8 DEF MainStep, LeaveMainloop, TerminateThread, AllTerminated, JoinThread
  <2>2. \A t \in Producers : call'[t] = call[t]
    BY <1>8 DEF MainStep, LeaveMainloop, TerminateThread, AllTerminated, JoinThread
  <2>3. QED
    BY <1>c, <2>1, <2>2 DEF InFlight
<1>9. QED
  BY <1>1, <1>2, <1>3, <1>4, <1>5, <1>6, <1>7, <1>8 DEF Next, EnqueueStep, ConsumerStep

(* A consumer is counted from its increment to its decrement.              *)
LEMMA StepCountExact == IInv /\ Next => CountExact'
<1> SUFFICES ASSUME IInv, Next, ~lost'
             PROVE  cnt' = Cardinality(Counted')
  BY DEF CountExact
<1>a. TypeOK /\ Control
  BY DEF IInv
<1>b. Cardinality(Counted) \in Nat /\ (~lost => cnt = Cardinality(Counted))
  BY CountTypes DEF IInv, CountExact
<1>c. ASSUME UNCHANGED <<cnt, lost>>, Counted' = Counted
      PROVE  cnt' = Cardinality(Counted')
  BY <1>b, <1>c
<1> USE <1>a, ThreadSets DEF TypeOK, Control, Goto, SetCall, reg
<1>1. ASSUME NEW c \in Consumers, IncWrite(c)
      PROVE  cnt' = Cardinality(Counted')
  <2>1. ~lost /\ cnt = seen[c] /\ cnt' = cnt + 1
    BY <1>1 DEF IncWrite
  <2>2. Cardinality(Counted') = Cardinality(Counted) - Has(Counted, c) + Has(Counted', c)
    BY <1>1, MoveOne DEF IncWrite
  <2>3. Has(Counted, c) = 0 /\ Has(Counted', c) = 1
    BY <1>1 DEF IncWrite, Has, Counted
  <2>4. QED
    BY <1>b, <2>1, <2>2, <2>3
<1>2. ASSUME NEW c \in Consumers, DecWrite(c)
      PROVE  cnt' = Cardinality(Counted')
  <2>1. ~lost /\ cnt = seen[c] /\ cnt' = cnt - 1
    BY <1>2 DEF DecWrite
  <2>2. Cardinality(Counted') = Cardinality(Counted) - Has(Counted, c) + Has(Counted', c)
    BY <1>2, MoveOne DEF DecWrite
  <2>3. Has(Counted, c) = 1 /\ Has(Counted', c) = 0
    BY <1>2 DEF DecWrite, Has, Counted
  <2>4. QED
    BY <1>b, <2>1, <2>2, <2>3
<1>3. ASSUME NEW c \in Consumers, DecRead(c)
      PROVE  cnt' = Cardinality(Counted')
  <2>1. c \in Counted /\ UNCHANGED <<cnt, lost>>
    BY <1>3 DEF DecRead, Counted
  <2>2. cnt # 0
    BY <1>b, <2>1, CountTypes, PartOf
  <2>3. Counted' = Counted
    BY <1>3, <2>2 DEF DecRead, Counted
  <2>4. QED
    BY <1>c, <2>1, <2>3
<1>4. ASSUME NEW c \in Consumers,
             IncRead(c) \/ Take(c) \/ Give(c) \/ Handled(c) \/ TakeOwnTerminator(c)
      PROVE  cnt' = Cardinality(Counted')
  <2>1. UNCHANGED <<cnt, lost>>
    BY <1>4 DEF IncRead, Take, Give, Handled, TakeOwnTerminator
  <2>2. Counted' = Counted
    BY <1>4, SMTT(30) DEF IncRead, Take, Give, Handled, TakeOwnTerminator, Counted
  <2>3. QED
    BY <1>c, <2>1, <2>2
<1>5. ASSUME NEW t \in Threads, CallEnqueue(t) \/ EnqueueStep(t)
      PROVE  cnt' = Cardinality(Counted')
  <2>1. UNCHANGED <<cnt, lost, pc>>
    BY <1>5 DEF CallEnqueue, EnqueueStep, CheckClosed, ChooseMode, Put, Refuse
  <2>2. QED
    BY <1>c, <2>1 DEF Counted
<1>6. ASSUME NEW p \in Producers, ProducerReturn(p)
      PROVE  cnt' = Cardinality(Counted')
  BY <1>6, <1>c DEF ProducerReturn, Counted
<1>7. CASE Terminate \/ MainStep
  <2>1. Counted' = Counted
    BY <1>7 DEF Terminate, MainStep, LeaveMainloop, TerminateThread, AllTerminated, JoinThread, Counted
  <2>2. QED
    BY <1>7, <1>c, <2>1 DEF Terminate, MainStep, LeaveMainloop, TerminateThread, AllTerminated, JoinThread
<1>8. QED
  BY <1>1, <1>2, <1>3, <1>4, <1>5, <1>6, <1>7 DEF Next, ConsumerStep
-----------------------------------------------------------------------------
(***************************************************************************)
(* The inductive invariant.                                                *)
(***************************************************************************)
(* When cevf_run starts its threads nobody has left, nobody sends, and     *)
(* every consumer still has its terminator.                                *)
LEMMA InitIInv == Init => IInv
<1> SUFFICES ASSUME Init
             PROVE  IInv
  OBVIOUS
<1> USE ThreadSets, SizesAssumption DEF Init
<1>1. PICK n \in 0 .. Cap : queue = [i \in 1 .. n |-> "early"] /\ free = Cap - n
  OBVIOUS
<1>2. Len(queue) = n /\ n \in Nat /\ queue \in Seq(Messages)
  BY <1>1 DEF Messages
<1>3. \A i \in 1 .. Len(queue) : queue[i] = "early"
  BY <1>1, <1>2
<1>4. TypeOK
  <2>1. k \in 0 .. NC + NP /\ calls \in 0 .. MaxCalls /\ free \in 0 .. Cap
    BY <1>1
  <2>2. QED
    BY <1>2, <2>1 DEF TypeOK
<1>5. Control
  BY DEF Control, InApplication
<1>6. Unused = Consumers /\ Sending = {} /\ Left = {} /\ Giving = {} /\ Counted = {} /\ InFlight = {}
  BY DEF Unused, Sending, Left, Giving, Counted, InFlight
<1>7. Cardinality({}) = 0
  BY FS_EmptySet
<1>8. Slots
  BY <1>1, <1>2, <1>6, <1>7 DEF Slots
<1>9. Cardinality(Queued("thend")) = 0
  BY <1>3, <1>4, QueueMoves DEF Messages
<1>10. ThendPerConsumer
  BY <1>6, <1>7, <1>9 DEF ThendPerConsumer
<1>11. Shutdown /\ Joined
  BY <1>6 DEF Shutdown, Joined
<1>12. EarlyFirst
  BY <1>3, <1>6 DEF EarlyFirst
<1>13. FewLate /\ CountExact
  BY <1>6, <1>7 DEF FewLate, CountExact
<1>14. QED
  BY <1>4, <1>5, <1>8, <1>10, <1>11, <1>12, <1>13 DEF IInv

(* It is inductive.                                                        *)
LEMMA StepIInv == IInv /\ [Next]_vars => IInv'
<1>1. CASE Next
  BY <1>1, StepTypes, StepControl, StepSlots, StepThends, StepShutdown, StepJoined,
     StepEarlyFirst, StepFewLate, StepCountExact DEF IInv
<1>2. CASE UNCHANGED vars
  BY <1>2 DEF vars, reg, IInv, TypeOK, Control, InApplication, Slots, Giving, ThendPerConsumer, Unused, Sending,
              Left, Queued, Shutdown, Joined, EarlyFirst, FewLate, InFlight, CountExact, Counted
<1>3. QED
  BY <1>1, <1>2
-----------------------------------------------------------------------------
(***************************************************************************)
(* What follows from it.                                                   *)
(***************************************************************************)
LEMMA Invariance == Spec => []IInv
BY InitIInv, StepIInv, PTL DEF Spec

(* When every consumer has left, each THEND has been used up by one.       *)
LEMMA AllLeft ==
  ASSUME IInv, Consumers \subseteq Left
  PROVE  /\ Left # {} /\ Sending = {} /\ drops = 0 /\ closed
         /\ \A i \in 1 .. Len(queue) : queue[i] = "late"
<1>1. Left = Consumers /\ "thend" \in Messages
  BY DEF Left, Messages
<1>2. Cardinality(Queued("thend")) \in Nat
  BY <1>1, QueueMoves DEF IInv
<1>3. Cardinality(Left) = NC /\ NC \in Nat \ {0}
  BY <1>1, ThreadSets, SizesAssumption
<1>4. sent = NC /\ drops = 0 /\ Cardinality(Sending) = 0 /\ Cardinality(Queued("thend")) = 0
  <2>1. sent \in Nat /\ drops \in Nat
    BY DEF IInv, TypeOK
  <2>2. QED
    BY <1>2, <1>3, <2>1, CountTypes DEF IInv, ThendPerConsumer
<1>5. Sending = {}
  BY <1>4, CountTypes, PartOf
<1>6. Left # {} /\ closed
  BY <1>1, <1>3, <1>4, ThreadSets DEF IInv, Shutdown
<1>7. ASSUME NEW i \in 1 .. Len(queue)
      PROVE  queue[i] = "late"
  <2>1. queue[i] \in Messages
    BY DEF IInv, TypeOK
  <2>2. queue[i] # "thend"
    BY <1>1, <1>4, QueueMoves DEF IInv
  <2>3. queue[i] # "early"
    BY <1>6 DEF IInv, EarlyFirst
  <2>4. QED
    BY <2>1, <2>2, <2>3 DEF Messages
<1>8. QED
  BY <1>4, <1>5, <1>6, <1>7

(* ev_join returns only when every consumer has left its loop              *)
(* (cevf_ev.c:257-262).                                                    *)
LEMMA JoinedAllLeft ==
  ASSUME IInv, pc[Main] = "joined"
  PROVE  Consumers \subseteq Left
BY ThreadSets DEF IInv, Joined, Left

(* Every THEND is accounted for, from the terminator (cevf.c:265) to the   *)
(* consumer that it ends, and ev_join does not return if one was refused.  *)
THEOREM ThendsAccountedAlways == Spec => []ThendsAccounted
<1>1. IInv => ThendsAccounted
  <2>1. IInv => DropMeansHang
    BY AllLeft, JoinedAllLeft DEF DropMeansHang
  <2>2. QED
    BY <2>1 DEF IInv, ThendsAccounted
<1>2. QED
  BY <1>1, Invariance, PTL

(* Once cevf_run has joined its threads, every event that was accepted     *)
(* before the first THEND has been handled (cevf.c:1231, :1250).           *)
THEOREM EarlyEventsAlways == Spec => []EarlyEventsHandled
<1>1. IInv => EarlyEventsHandled
  BY AllLeft, JoinedAllLeft DEF EarlyEventsHandled
<1>2. QED
  BY <1>1, Invariance, PTL

(* With no more producers than slots, and handlers that do not enqueue, no *)
(* producer waits for room that nobody will make (cevf.c:177).             *)
THEOREM NoJamAlways == Spec => []NoJamWhenFewProducers
<1>1. ASSUME IInv, NP <= Cap, ~HandlersEnqueue, Jammed
      PROVE  FALSE
  <2>1. TypeOK /\ Control /\ Slots /\ FewLate
    BY <1>1 DEF IInv
  <2>2. \A c \in Consumers : pc[c] \in {"dec", "done"}
    BY <1>1, <2>1 DEF Jammed, Control
  <2>3. Consumers \subseteq Left
    BY <2>2 DEF Left
  <2>4. Sending = {} /\ closed /\ \A i \in 1 .. Len(queue) : queue[i] = "late"
    BY <1>1, <2>3, AllLeft
  <2>5. PICK t \in Threads : call[t] = "block"
    BY <1>1 DEF Jammed
  <2>6. InApplication(t)
    BY <2>4, <2>5 DEF Sending
  <2>7. t \in InFlight
    BY <2>1, <2>2, <2>5, <2>6, ThreadKinds, ThreadSets DEF InFlight, InApplication, Control
  <2>8. Cardinality(InFlight) \in Nat /\ Cardinality(InFlight) > 0
    BY <2>7, CountTypes, PartOf
  <2>9. Len(queue) = Cap
    <3>1. Giving = {}
      BY <2>2 DEF Giving
    <3>2. Cardinality(Giving) = 0
      BY <3>1, FS_EmptySet
    <3>3. QED
      BY <1>1, <2>1, <3>2 DEF Slots, Jammed, TypeOK
  <2>10. Cardinality(Queued("late")) = Cap
    <3>1. Queued("late") = 1 .. Cap
      BY <2>4, <2>9 DEF Queued
    <3>2. Cap \in Nat
      BY SizesAssumption
    <3>3. QED
      BY <3>1, <3>2, FS_Interval
  <2>11. QED
    BY <1>1, <2>1, <2>4, <2>8, <2>10, SizesAssumption DEF FewLate
<1>2. IInv => NoJamWhenFewProducers
  BY <1>1 DEF NoJamWhenFewProducers
<1>3. QED
  BY <1>2, Invariance, PTL

(* A THEND is sent softly only after an update of the thread count has     *)
(* overwritten another, or while a consumer has not counted itself yet     *)
(* (_cevf_evq_enqueue, th_cnt_inc and th_cnt_dec of cevf.c).               *)
THEOREM SoftThendAlways == Spec => SoftThendExplained
<1>1. ASSUME IInv, Next, NEW t \in Threads,
             call[t] = "choose", ~InApplication(t), call'[t] = "try"
      PROVE  lost \/ \E c \in Consumers : pc[c] \in {"new", "inc"}
  <2>1. SUFFICES ASSUME ~lost, \A c \in Consumers : pc[c] \notin {"new", "inc"}
                 PROVE  FALSE
    OBVIOUS
  <2>2. TypeOK /\ Control /\ CountExact
    BY <1>1 DEF IInv
  <2>3. cnt = 0
    <3> USE <1>1, <2>2, ThreadSets DEF TypeOK, Control, SetCall
    <3>1. ASSUME NEW u \in Threads, CallEnqueue(u) \/ EnqueueStep(u)
          PROVE  cnt = 0
      <4>1. CASE ChooseMode(u)
        BY <4>1 DEF ChooseMode
      <4>2. CASE CallEnqueue(u) \/ CheckClosed(u) \/ Put(u) \/ Refuse(u)
        <5>1. call[u] # "choose" /\ \A x \in Threads \ {u} : call'[x] = call[x]
          BY <4>2 DEF CallEnqueue, CheckClosed, Put, Refuse
        <5>2. QED
          BY <5>1
      <4>3. QED
        BY <3>1, <4>1, <4>2 DEF EnqueueStep
    <3>2. ASSUME NEW c \in Consumers, ConsumerStep(c)
          PROVE  cnt = 0
      BY <3>2 DEF ConsumerStep, IncRead, IncWrite, Take, Give, Handled, TakeOwnTerminator, DecRead, DecWrite
    <3>3. CASE (\E p \in Producers : ProducerReturn(p)) \/ Terminate \/ MainStep
      BY <3>3 DEF ProducerReturn, Terminate, MainStep, LeaveMainloop, TerminateThread, AllTerminated, JoinThread
    <3>4. QED
      BY <3>1, <3>2, <3>3 DEF Next
  <2>4. Counted = {}
    BY <2>1, <2>2, <2>3, CountTypes, PartOf DEF CountExact
  <2>5. Consumers \subseteq Left
    BY <2>1, <2>2, <2>4 DEF Counted, Left, Control
  <2>6. t \in Sending
    BY <1>1 DEF Sending
  <2>7. QED
    BY <1>1, <2>5, <2>6, AllLeft
<1>2. IInv /\ [Next]_vars =>
        [\A t \in Threads : call[t] = "choose" /\ ~InApplication(t) /\ call'[t] = "try"
           => lost \/ \E c \in Consumers : pc[c] \in {"new", "inc"}]_vars
  BY <1>1
<1>3. QED
  BY <1>2, Invariance, PTL DEF Spec, SoftThendExplained
=============================================================================
