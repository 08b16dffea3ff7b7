# cevf, specified and checked

cevf is an event framework in C: a program is a set of modules that register
producers, consumers (event handlers), timeouts, procedures, sockets and
initialisers, and `cevf_run` runs them on a pool of threads.  This directory
holds TLA+ models of its core, the TLC runs that check them and the TLAPS proofs
about them.  Line numbers refer to the files under `src/src/`.

Run a model with `tlc -config <run>.cfg <MC module>`, a proof with
`tlapm <module>.tla`.  `PROJECT.json` lists the runs, what each definition
translates (`map`), a mutation of the code that each property detects
(`mutants`), the hazards the properties are aimed at, and the theorems.

## The system

| part | code | state | operations |
| --- | --- | --- | --- |
| bounded queue | `utils/qmsg2.c` | ring buffer, two indices, two semaphores, a mutex | enqueue (blocking, soft), dequeue, timed poll (interruptible or not), count, flush |
| event queue and consumers | `cevf.c` 95-343 | `data_mq`, `data_mq_closed`, one thread per consumer | enqueue an event (generic or copied, soft or not), dequeue, run the handlers |
| threads | `cevf_ev.c` | per-function counters, per-thread terminator | create, count, terminate, join; dynamic threads by id |
| id table | `utils/ids.c` | array of items, list of free ids | add, get, remove, visit |
| priority heap | `utils/heap.c` | array | offer, poll, peek, remove an item |
| hash table | `utils/map.c` | open addressing with tombstones | set, get, remove, resize, iterate |
| timeouts and main loop | `cevf.c` 590-1105 | main heap, map from handler and context to a heap, `ctrl_mq`, `mainloop_start` | register, cancel all, cancel one, run when due, flush |
| procedures | `cevf.c` 345-525 | map from a number to a procedure | register, call, remove |
| event loop | `utils/eloop/` | table of sockets, list of timeouts, signals | register, dispatch, run, terminate |
| time arithmetic | `utils/timespec.c` | none | add, subtract, compare, normalise |
| life cycle | `cevf.c` 1109-1257, `cevfd.c` | which initialisers have run | init, run, terminate, deinit |
| modules shipped with it | `extras/` | connections, fragments, a Lua state | TCP server, Unix sockets, splicing, packet assembly |

How they interact:

* Producers, handlers and anybody else enqueue events into `data_mq`; every
  consumer thread takes the next one and runs its handlers.
* A thread that registers or cancels a timeout sends a command to the main
  thread through `ctrl_mq` and sleeps on a condition variable of the command.
  If it reads `mainloop_start = 0` it changes the shared structures itself.
* The main thread waits on `ctrl_mq` until the timeout it has withdrawn from the
  heap is due.  With sockets registered, `eloop_run` takes its place and the
  main loop becomes a thread of its own.
* `cevf_terminate` closes the event queue and the timeouts, and sends a NULL
  command.  The main thread then leaves its loop, sends one `THEND` event per
  consumer and joins all threads.

What is hard about it is concurrency: locks are small and often released in the
middle of an operation (`th_cnt_inc`, `_timeout_add`, peek and poll of the
heap), modes are chosen from flags read without a lock (`mainloop_start`,
`ev_is_running`), and the end of the program depends on messages that can be
refused by a full queue.  Nothing is persisted, so there is no recovery.

What makes each part correct:

* queue: it is a FIFO for any number of callers; no slot is lost;
* consumers: every accepted event is handled before the shutdown ends, every
  consumer is told to end exactly once, and `cevf_run` returns;
* heap: it holds what was put in, and returns a top item;
* timeouts: a handler runs at most once, not before its deadline, not after its
  cancellation; heap and map agree; calls return; nothing freed is used;
* hash table: it is a function; ids: no id denotes two threads;
* procedures: a call reaches the procedure registered when it started;
* event loop: handlers run for what is there and registered when they are called;
  what is ready or due is served; signals and termination are heard;
* time arithmetic: it is that of whole numbers of nanoseconds;
* life cycle: what is initialised is deinitialised, an idle program ends, a
  terminated one ends, and dynamic threads are all joined and freed;
* extras: a connection whose peer is gone is closed, and nobody closes a file of
  somebody else; a packet is put together from its own bytes; one thread is in the
  Lua interpreter; what is given to an adapter comes out once.

## The modules

There is one module for each component and one MC module for each instance that
TLC checks.  Components that share nothing at run time are checked in one run:
in `MCLibrary`, `MCNetwork` and `MCExtras`, a behaviour is one of a
single component, chosen in the initial state (`part`), and the variables of the
others stay as they began.  A property of such a run is a conjunction of
properties that the component modules state by name; the fairness of a component
is stated for its own behaviours.

What does share state is composed in one module or through a shared one:
`ConsumerPool` has threads, events and shutdown, `Timeouts` the clients and the
main loop, `Threads` the dynamic threads and their table of ids, `Sockets` the
servers on the tables of the event loop (`EloopTables`), and `Lifecycle` the main
thread with the loops it runs.

### BoundedQueue and QMsg2

`BoundedQueue` is what the queue promises: each operation takes effect at one
moment between its call and its return, on a FIFO of at most `Capacity`
messages.  It also says when a soft enqueue may be refused (the queue and the
operations in flight fill the capacity) and that `qmsg2_count` returns 0 for a
full queue, which is what the code does (qmsg2.c:109).

`QMsg2` has one action per synchronisation step of `qmsg2.c`:
`EnqWait`/`DeqWait` are the semaphore operations at the head of each function,
with `Softblock`, `Timeout` and `Interrupt` for the ways they fail, then `Lock`,
`EnqBody`/`DeqBody`/`CountBody` for the critical section and the unlock,
`EnqPost`/`DeqPost` and `Return`.  `Flush` is `qmsg2_flush` followed by
`qmsg2_del_mq`, as `cevf_deinit` calls them when no thread is left.  `live` says
that this has not happened yet.  The failures of `pthread_mutex_lock`,
`pthread_mutex_unlock` and `sem_post` on a valid object are left out.

The refinement mapping reads the abstract queue off the ring: the slots from
`removes` on, as many as the semaphores and the callers' positions say are
written and not read (`Stored`).

### ConsumerPool

The threads that `cevf_run` starts, from their creation to their last join, and
the event queue between them.  The queue is taken at the level of
`BoundedQueue` with one refinement: the semaphore of free slots is a variable of
its own, because a slot becomes free only when the dequeuer posts (`Give`), a
step after the message is gone (`Take`), and a soft enqueue looks at exactly
that.  `IncRead`/`IncWrite` and `DecRead`/`DecWrite` are the two halves of
`th_cnt_inc` and `th_cnt_dec`, between which the lock is released.  `ChooseMode`
is `_cevf_evq_enqueue`: it blocks only if it sees a running consumer.  Terminators
are taken under `term_mut` by the thread itself or by `ev_join`
(`TakeOwnTerminator`, `TerminateThread`).  Events are only told apart by whether
they were accepted before the first `THEND`.

A producer returns when it likes, before or after its terminator is called.
Dynamic threads, the contents of events and their deallocation are left out, and
so is a consumer's wait that ends with EINTR: signal handlers are assumed to be
installed with `SA_RESTART`.  `Threads` has the dynamic threads.

### Heap and HeapQueue

`Heap` translates `heap.c` into operators on sequences, the loops of `__pushup`
and `__pushdown` as functions of the number of rounds.  `HeapQueue` drives it
with every sequence of offers, polls and removals, beside the set of items the
caller has put in.  Ranks may be equal.  `heap_remove_item` of the last of
several items compares a NULL: with the comparator of the timeouts this ends the
program, which `crashed` records.

### Timeouts

The main loop, its clients and the two structures between them.  A pending
timeout is in the main heap `hp` and in the map `map`, or it is the one the main
loop holds (`held`).  The loop's position `at` goes through

    batch -> overdue -> run -> drop -> batch            an overdue timeout
    batch -> next -> unmap -> wait                      _timeout_next
    wait -> fire -> free -> batch                       the deadline passes
    wait -> exec -> signal -> batch                     a command arrives
    wait -> ended                                       the NULL message

and a client goes through decide (reads `mainloop_start`), send, sent, wait, or
through the direct path, on which it changes heap and map itself in two critical
sections.  `Close` and `SendStop` are the two halves of `cevf_terminate`.

Four paths of the code end in an invalid memory access or a double free, and the
model ends there (`Die`): a command that arrives while no timeout is pending
(cevf.c:1001 to :695), the flush of a timeout that is in both structures
(cevf.c:997), a cancellation by the caller itself (cevf.c:1056, :1080), and the
removal of the last item of a heap (heap.c:203).  They were confirmed by running
the compiled code.  `_tmouta_exec` has no return statement although its result
is used on the direct path (cevf.c:924, :1032); the model takes the outcome of
the default build, success.

A behaviour follows one plan of the constant `Plans`: its clients, their keys,
how far the clock goes, how many calls there are, and whether it is `calm`.  In a
calm plan clients only call while the main loop waits.  It is the discipline under
which the structures stay consistent; without it a direct registration can fall
between the peek and the poll of `_timeout_batchexec`, and `Mirrored`, `NoDangling`
and `FiresFirstTime` do not hold.  `NeverEarly` does.  `MCTimeouts` has a calm plan
and a racing one (`CalmAndRacing`).

The code looks a timeout up by its deadline (heap.c:185).  Deadlines are
nanosecond readings of a clock, and the model registers distinct ones (`Fresh`).

### Dictionary and HashMap

`Dictionary` is a function from keys to values that remembers the order in which
keys were added.  `HashMap` is the table of `map.c`, which all parts of the
program look things up in: buckets, probing (`FindEntry`), tombstones
(`HashmapRemove`), the linked list of used buckets (`chain`), the two counters
and `Resize`.  The hash function is a parameter; a run makes two keys collide
and a third one probe around the end of the table.  `hashmap_set_free` and
`hashmap_remove_free`, which nobody calls, change the table as `hashmap_set` and
`hashmap_remove` do.  Callers hold a lock, so operations are atomic.  Under the
refinement mapping the dictionary of a table is what its list gives, from first to
last, without the tombstones (`Entries`).

### Procedures

Entries that threads call, replace and remove while the program runs.  Each
operation looks its entry up under the lock of the table and goes on without it
(`Begin`); `AddFree`/`AddStore` and `RmFree`/`RmStore` are the two halves of a
change, which frees the old entry before the table stops pointing to it.  A
thread has a stack of operations, because functions call procedures themselves.
The types t1 and t2 have the same code and a table each; the model is one of
them.  The flag `synchronized` belongs to the number.

Freed entries can be used: a call that has found its entry races with a removal.
`overlap` records whether a change of a number ever overlapped another operation
on it, and the invariants say that this discipline is all a program needs.

### Times

The arithmetic of `timespec.c` as operators on records of seconds and nanoseconds,
with C's division, which truncates; the conversions to and from milliseconds and
`timeval`; and `os_reltime_before` and `os_reltime_sub` of `eloop/os.h`.  An
accumulator goes through any sequence of calls beside the exact number of
nanoseconds it should have, so results that are not normalised, which
`timespec_mod` can return, are operands in turn.  A second of the model has 8
nanoseconds; the code uses `NSEC_PER_SEC` nowhere but as a number.

### Threads

Dynamic threads (`ev_add_th`, `ev_rm_th`, the end of a thread and `ev_deinit` of
`cevf_ev.c`) and the table of `ids.c` that gives out their ids.  A caller's
operation is `CreateTh`, `IdsAddItem`, `StoreId`, or `GetItem`, `TakeTerm`,
`CallTerm`, `Join`, `DestroyTh`, `IdsRmItem`: each is one call of the code and no
lock is held between them.  A thread that ends goes through the same removal for
itself (`AfterReturn`) if it has seen its id by then.  `ids_add_item` has no return
statement on success: in the builds that were looked at its caller finds the result
of `pthread_mutex_unlock`, so all threads get the id 0 and a removal concerns
whichever thread is in that place.  The model takes this outcome (`ReturnedId`).

`overlap` records that two calls concerned one thread at once, and `lost` the
threads that were pushed out of the table before they were joined.
`FaultExplained` says that freed memory is used only then.  The invariant that the
run checks and the proof is about is `ThreadsSound`.

### Lifecycle

The main thread from `cevf_init` to its exit: initialisers by priority, one at a
time, and their failure, the decision to end when nothing is left to do, the
threads, `eloop_run` or the main loop, `ev_join`, deinitialisers one at a time in
the reverse order, deletion of `ctrl_mq`, `cevf_deinit`.
`cevf_terminate` is three steps (`TerminateClose`, `TerminateEloop`,
`TerminateEnq`) that another thread, or a signal handler on the main thread, takes
at any time; a handler stops the main thread while it runs (`At`).  Sockets come
and go (`Work`, `SockEvent`), and nothing is assumed of them, so an event loop that
nobody wakes sleeps: `eloop_terminate` only sets a flag (eloop.c:1257), and
`TerminateEnds` names that case.  The other threads are taken to return when they
are told, which `ConsumerPool` and `Threads` are about.

### EloopTables and Eloop

`EloopTables` has the tables of sockets as operators on a record: the rows in the
order of registration, `fd_table` by descriptor, the epoll set of the kernel, and
the flags that tell the dispatch that a table has changed.  A descriptor has one
entry in `fd_table` whatever its types, and `EPOLL_CTL_DEL` removes it for all of
them, as in the code.

`Eloop` is `eloop_run` with all that moves it.  The loop goes through

    setup -> top -> presleep -> asleep -> woken  epoll_wait with its timeout
    top -> signals -> presleep                   if a terminating signal is pending
    woken -> signals -> timeouts -> sockets -> dispatch -> top
    top -> done -> destroyed                     eloop_run returns, eloop_destroy

with `handler` in between for each handler it calls.  Application code (`AppStep`:
registering, cancelling, opening, closing) runs before the loop and in handlers.  Another thread registers sockets while the loop
sleeps, in two steps because it writes `fd_table` after the table has grown
(`OtherRegisters`, `OtherStores`).  A file descriptor stands for one file after
another (`file`), because that is what makes entries stale.  `untidy` are the
descriptors that were closed while registered or registered twice, or registered
by another thread and overtaken: if the loop registers or removes a socket of the
same type before that thread copies its row, the row it copies into `fd_table`
(the last one, eloop.c:384) is not its own.  The exact statements hold for the other
descriptors, and `EventsFit`, that the arrays are large enough, for all.

`Spend` counts down the calls of application code.  A negative budget never runs out:
its handlers open, close, register and unregister for ever, with at most two rows at a
time.  As the loop drops the rest of its events, and the events of a wait before any
handler, when a table has changed (eloop.c:633, :1213), such handlers keep sockets
from being served although they are ready.  `ReadyServed` is therefore about
behaviours that come to leave the rows alone (`Settled`); the starvation before that
is real, and the run has it.

cevf registers no signals and no timeouts with the event loop itself; the modules
of a program may.

### Sockets

The servers of `cevfm_tcpsrv.c` and `cevfm_usock.c` with the structures of
`srvctx.h`, on the same tables.  The loop's thread accepts (`ConnHandler`,
`SndRcvInit`), reads and enqueues (`ReadHandler`), and closes a connection whose
peer has closed: the handler closes the number (`ReadHandler`), and the structure is
freed and closes it again (`Erase`).  A connection whose registration fails is closed
twice too (`Reclose`).  Accepted sockets block, so a handler that reads one with
nothing there waits.  Consumers close connections by number,
close servers by name (`TakeSrvSock`, `CloseServer`, `FreeConn`, `FreeServer`, as
the lock is released between them), open servers, and open files of their own,
all from one table of descriptors.

No lock guards the tables of the loop, so a registration is the steps of the code
(eloop.c:365-385): `Appends` a row, `Watches` (epoll is told, or `Refuses`), and
`Stores` the last row in `fd_table`.  The loop takes them for an accepted connection
(`SndRcvInit`, then `Link`) and a worker for a server it opens (`OpenSrvSock`,
`RegisterServer`, then `Found`), each between any steps of the other.  `crossed` is
set when two threads are about to change the tables at once, or one is about to store
the entry of an event that the loop is about to dispatch.  From then on

* the row that is copied last may be another socket's, so a connection has the
  handler of another one, is not served, and does not close with its peer;
* an entry is used that nobody has written yet (the fault "garbage");
* the array itself may be torn while it is grown (`Tears`), which stands for every
  outcome of that race.

A close that hits another file, a use after free and a second free can happen, and
`FaultExplained` names what it takes: a worker that has opened or closed files, a server
closed while the loop is in a handler, or threads that crossed.  `OpenConnServed` and
`PeerGoneCloses` hold as long as threads have not crossed.  The plans have behaviours of
both kinds: workers that open and close while the loop registers and removes, and
workers that do so while it waits.

### Assembly

`assdis.h` with the handlers of `cevfm_assdisass.c`.  A chunk is taken apart one
fragment at a time and put back into the event queue between them
(`Disassemble`).  Fragments of these chunks and of peers arrive in any order, late,
not at all or twice, and each consumer puts one in with the code's critical
sections: create or look up (`Set`, `Get`), copy without a lock (`Copy`), write what
is left (`Subtract`, assdis.h:312), read it again (`Test`, assdis.h:313), hand on
(`Assembled`), forget (`Forget`).  The main loop's collection of packets that stay
incomplete is `Pass` and `PassRemoves`.  Two histories say what a use of freed memory
takes: `collected`, that the collection has run, and `met`, that two consumers were
between writing what is left of one packet and reading it again.  Bytes are
places in a packet, so that `BytesInPlace` can say where each came from.

### LuaMacros

`cevfm_luamac.c`: files loaded into one interpreter by an initialiser, which enters
them in the list of each type of event they ask for or as a procedure, and calls of
them by any thread under one mutex.  What Lua code does is a choice: return what is
expected or not, call a procedure, clear its own global.

### Adapters

`cevfm_resumew.c`, a request to write that goes back into the event queue until it
is written, and `cevfm_socksplicer.c`, which makes two pipes and splices between
sockets.  Each `write`, `pipe` and `splice` succeeds, does part of it or fails.

## The runs

| run | shows | instance |
| --- | --- | --- |
| `queue_safety` | `TypeOK`, `SlotAccounting`, `IndexAgreement`, `SlotSafety`; `QMsg2` implements `BoundedQueue` (`ImplementsFIFO`) | 4 callers, all operations, 2 slots |
| `queue_live` | `SlotsComeBack` | the same, without counting |
| `pool_safety` | `ThendsAccounted` (`ThendPerConsumer`, `DropMeansHang`), `EarlyEventsHandled`, `NoJamWhenFewProducers`, `SoftThendExplained` | 2 consumers, 2 producers, 2 slots, 3 enqueues |
| `pool_live` | `JoinCompletes` | 2 enqueues, handlers enqueue too |
| `library` | `ThreadsSound` (`FaultExplained`, `NoEntryForgotten`, `DeinitLeavesNone`), `RemovalsReturn`; `ImplementsDictionary`, `TableSound` (`SearchEnds`, `ListAndCounters`); `HeapSound` (`HoldsItsItems`, `InOrder`), `PollsTop`; `TimesExact` (`ArithmeticExact`, `OrderAgrees`) | 3 dynamic threads and 1 client, or 2 and 2; 3 keys, 2 values, tables of 4 and 8 buckets; 4 ranks twice, 6 items at a time; times of both signs up to 3 seconds |
| `heap_order` | the comment at heap.c:202 does not hold | 6 items |
| `timeouts` | `StructuresAgree` (`Mirrored`, `NoDangling`), `CancelIsFinal`, `FiresOnceInTime` (`FiresFirstTime`, `NeverEarly`) | calm: 1 client, 2 keys, 4 calls, clock to 3; racing: 2 clients, 1 key, 3 calls, clock to 2 |
| `timeouts_live` | `EveryTimeoutFires`, `CallsReturn` | 1 client, 1 key, 3 calls |
| `timeouts_order` | the comment at cevf.c:662 does not hold | 1 client, 2 keys |
| `lifecycle` | `DeinitMirrorsInit`, `QuitsIdle`, `OneTerminateIsSafe`, `TerminateEnds` | 4 initialisers, a thread and a signal handler that terminate, 2 sockets |
| `network` | `TablesExact` (`EventsFit`, `TidyExact`), `DispatchSound`, `SignalsHeard` (`NoSignalForgotten`, `SleepsInformed`), `Served` (`FiresEarliest`, `ReadyServed`, `TimeoutsRun`); `ConnectionsSound` (`ServerClosedOnce`, `ConnsLinked`, `OpenConnServed`), `PeerGoneCloses`; `FaultsExplained` (`FaultNeedsOthers` of the loop, `FaultExplained` of the servers) | 3 descriptors, 2 signals, 7 budgets of calls; 2 servers, 2 connections, 2 consumers, 5 plans |
| `extras` | `ProceduresSound` (`FaultExplained`, `NoLeak`, `OneInside`); `MacrosSound` (`OneInside`, `FaultExplained`); `AssemblySound` (`BytesInPlace`, `FaultExplained`), `ChunksEnd`; `HandedOnOnce` (`RequestsEndOnce`, `WrittenInOrder`, `NoPipeLeaks`); `CallsReturn` of procedures and macros | 2 threads, 3 numbers, 4 entries, calls nested twice; 6 plans of packets; 4 directories of macros; 3 requests of 2 bytes, 6 descriptors |

Why these bounds are enough to be of interest.

* Queue and pool.  Two slots are the smallest size `cevf_init` allows, and the
  ring wraps, fills and empties within a few calls; two threads on each side meet
  in every pair of steps.  Two consumers are enough to lose an update of the
  counter and to overtake each other; with two slots a `THEND` is refused
  (`drops > 0` is reached after 8 steps).
* Timeouts.  Two keys and two initial timeouts let a cancellation hit, miss, or hit
  the timeout being waited for, and the clock reaches every deadline.  The keys
  are symmetric, which is sound as the run checks no liveness.
* Library.  Three threads are enough for an id to be used again while its first
  owner is being joined, and two clients to remove one thread at once.
  Two levels are enough for a removal to misplace an item (the root's); with three, items
  move over more than one place, and a removal inside the heap can go wrong too.
  The hash table fills with tombstones and is resized once, two keys collide and
  one probes around the end; 0 and the mark of a tombstone are among the values.
  The operands of the time arithmetic have both signs and more or less than a
  second of nanoseconds, in every combination.
* Lifecycle.  Two initialisers of one priority and two that lack a hook; the two
  terminators overlap each other and every step of the main thread.
* Network.  The budgets are one question each: a timeout beside two sockets that are
  closed, opened again and registered in any order during a dispatch; three
  registrations of two descriptors; another thread; another thread and a
  termination; two timeouts and a clock; two signals, one of which terminates, with
  a socket; and two sockets that handlers register and unregister for ever.
  `FdSlack` is 1 and `FirstEvents` 2, so that both arrays grow: `fd_table` at once,
  `epoll_events` with the third row.  The plans of `Sockets` are connections closed
  by number beside a file of somebody else, a server opened while the loop accepts
  connections and their peers leave, a server closed and another opened that gets
  the numbers its connections had, a server opened beside two closes of servers, and
  a connection closed by number while its server is closed; the queue has one place,
  so an enqueue of the loop is refused.  These few descriptors fit the arrays that
  cevf starts with (16 and 8), which `Sockets` has, so there they do not move.
* Extras.  Two threads and three numbers let every operation on procedures fall
  into every other, and functions call each other with both mutexes; faults are
  reached.  The functions call higher numbers only: `CallsReturn` is about programs
  that keep to such an order, and the other properties do not depend on it.
  Fragments have two bytes and a header of one, so packets of two to five bytes
  have whole and partial last fragments, and there are two ids, so that they come
  round.  Some directory has a name in three lists, a file that fails, one without
  a table, one without a main function, and procedures of one number.

### Fairness

`QMsg2`: a thread inside an operation goes on when it can (weak fairness of
`Step`), consumers come back for more (cevf.c:274), and the semaphore is fair
enough not to pass over a consumer that keeps coming (strong fairness of
`DeqWait`: its wait is broken off by timeouts).  Enqueuers need not call.
`queue_live` has no counting thread, which could take a default mutex again and
again.

`ConsumerPool`: every thread goes on unless it waits, handlers return, and a
producer returns once its terminator has been called, which is what a
terminator is for.  `cevf_terminate` need not be called.

`Timeouts`: time passes, the main thread runs (handlers return) and a client
inside a call goes on.

`Procedures` and `LuaMacros`: a thread in an operation goes on when it can,
functions return after finitely many calls of their own, and a mutex that is
released again and again is got in the end (strong fairness).  In `MCExtras` one
condition stands for both (`GoesOn`), because only one of the two parts moves.

`Lifecycle`: the main thread runs, the main loop ends once its NULL has come, and a
call of `cevf_terminate` that has begun goes on.  Nothing is assumed of sockets.

`Threads`: a caller inside `ev_add_th`, `ev_rm_th` or `ev_deinit` goes on, and a
thread returns once its terminator has been called, which is what a terminator is
for.  New calls need not come.

`Eloop` and `Sockets`: the loop runs and its handlers return, time passes, and
another thread finishes the registration it has begun.  Nothing is assumed of
workers and peers.

`Assembly`: a consumer that has a fragment or a chunk goes on, and some consumer
takes the next chunk.  Fragments need not arrive and the collection need not run.

## The proofs

Each theorem holds for every value of the constants that the named assumptions of
the component's module allow.  TLC evaluates these assumptions on the instances of
the runs.

| module | theorems | for every |
| --- | --- | --- |
| `QMsg2Proofs` | `TypeCorrect`, `AccountingHolds`, `IndicesAgree`, `SlotsAreSafe`, `RingImplementsFIFO` | set of threads, size of the ring, choice of operations |
| `ConsumerPoolProofs` | `ThendsAccountedAlways`, `EarlyEventsAlways`, `NoJamAlways`, `SoftThendAlways` | number of consumers, producers and slots |
| `LifecycleProofs` | `DeinitAlwaysMirrorsInit`, `QuitsOnlyIdle`, `OneTerminateAlwaysSafe` | set of initialisers, set of terminators, size of `data_mq` |
| `ExtrasProofs` | `ProceduresAlwaysSound` | set of threads and numbers, relation of calls, depth of calls |
| | `MacrosAlwaysSound` | set of threads, directories of macros, budget of calls |
| | `HandedOnAlwaysOnce` | set of requests, consumers and descriptors, length of requests, size of the queue |
| | `AssemblyAlwaysSound` | plan of packets, copies and passes of the collection, size of the fragments and of the queue, set of consumers |
| `LibraryProofs` | `ThreadsAlwaysSound` | number of dynamic threads, set of clients, plan of calls |
| | `TableAlwaysSound`, `TableIsADictionary` | set of keys and values, hash function, capacity of the first table |
| | `HeapAlwaysSound`, `AlwaysPollsTop` | number of ranks, size of the heap |
| | `TimesAlwaysExact` | units, set of operands, bound on the time |
| `EloopProofs` | `SignalsAlwaysHeard`, `TablesAlwaysExact`, `DispatchAlwaysSound`, `FaultAlwaysNeedsOthers` | set of descriptors, growth of the arrays, list of signals, budget of calls |
| `TimeoutsProofs` | `StructuresAlwaysAgree`, `CancelledNeverFires`, `AlwaysFiresOnceInTime` | set of clients and keys, size of `ctrl_mq`, set of plans |

`CountingLemmas` has what several of them need: parts of finite sets, the place of
an item in a sequence, the sizes of ranges of numbers, least elements, remainders and division, and what is
repeated a number of times.

What is assumed of the constants.  `BufSzAssumption`: the ring has a slot
(qmsg2.c:66).  `ThreadsAssumption` of `QMsg2`: threads are finitely many; of
`Threads`: threads are numbered, and threads, clients, the main thread and nobody
are told apart.  `SizesAssumption`:
there is a consumer, and `data_mq` has two slots at least, which `cevf_init` sees to.
`LifecycleAssumption`: the same for `data_mq`; terminators and initialisers are
finitely many, and an initialiser is told by its name (in the code, by its place in memory).
`ProceduresAssumption`: threads and numbers are finitely many, and there are as many
entries as numbers.  `TablesAssumption`: descriptors are natural numbers, the arrays
grow by something.  `EloopAssumption`: "no" and the marks for no handler and an
unwritten entry are no handlers.  `TimeoutsAssumption`: `ctrl_mq` has two places, nobody
is neither a client nor a key, and plans speak of the clients and keys there are.
`HashMapAssumption`: no key is not a key, 0 is a value and a tombstone's is another,
hashes are natural numbers, and the first table has two buckets at least.
`HeapQueueAssumption`: the bounds on ranks and items are natural numbers.
`LuaMacrosAssumption`: the names of the files in a directory differ, a type that is
given as a number is one type, and nobody is not a thread.  `AdaptersAssumption`: "none"
is not a request, descriptors are finitely many natural numbers, and lengths are natural
numbers.  `AssemblyAssumption`: fragments have a byte at least and there is an id, "none"
is not an object, packets have names of their own and lengths that are natural numbers,
those of peers have an id, and copies and passes are counted with natural numbers.
`TimesAssumption`: the units are positive, a second is a whole number of milliseconds
and of microseconds, and operands are pairs of integers.

One theorem has a hypothesis of its own.  `TableIsADictionary` is about tables that
have no more buckets in use than `hashmap_iterate` visits (`AllVisited`).  With more
than 1002 (map.c:388) the code does not visit "every element" (map.h:65), so the
hypothesis cannot be dropped; `TableAlwaysSound` does not have it.

### Queue

`SlotSafety` is not inductive: that an enqueuer's slot is free
follows from how many slots are claimed, not from where the indices are.  The
inductive invariant `IInv` is `TypeOK`, `Control` (how a caller's position
determines its operation and the owner of the mutex), `SlotAccounting` and
`IndexAgreement`.  Each step moves one thread between the four sets `EnqClaimed`,
`EnqWritten`, `DeqClaimed`, `DeqRead`, or none; the lemmas `CountMove`,
`StepCounts` and `StepKeepsCounts` say what that does to their
sizes, `StepAccounting` adds it up with the semaphores, and `StepIndex` follows
the indices, with `ModSmall`, `ModWrap` and `NextSlot` for the
arithmetic modulo `BufSz`.  An enqueuer in its critical section is counted in
`EnqClaimed`, so `Stored < BufSz`, and the slots from `removes` on do not reach
`inserts`: this is `SlotSafetyFromIInv`.

`RingImplementsFIFO` uses the same invariant.  Under the mapping of `QMsg2` each
step is a stutter but four kinds: a call, the body of an enqueue, which appends, the
body of a dequeue, which takes the first, and the moment an operation has its
result.  A refused soft enqueue is allowed because a semaphore at zero means that
messages and operations in flight fill the ring.  The body of an enqueue is where
`SlotSafety` is needed: the slot it writes is none of those the queue is read from.

### Consumers

`ThendPerConsumer` counts each consumer's THEND in one of five places: not yet
sent, being sent, refused, in the queue, received.  It needs `Control`, that a
consumer past its loop has no terminator any more, and `Slots`, that a slot is free,
filled, or about to be given back.  `EarlyFirst` makes the order of the queue
inductive: no event from before the first THEND is behind one that is not, and while
one is left no consumer has left.  `DropMeansHang` and `EarlyEventsHandled` follow
because at the end (`Joined`) every consumer has received a THEND (`AllLeft`).
`NoJamWhenFewProducers` rests on `FewLate`: after `cevf_terminate` a producer can put
in one more event, so what is in the queue or on its way never exceeds the
producers.  `SoftThendExplained` rests on `CountExact`: the count of
threads is the number of counted consumers unless an update was overwritten.

### Life cycle

`IInv` says in each phase what has led to it (`Ends`): the main loop ends only with
a NULL, and a NULL comes only from a `cevf_terminate` that is done with it; so a
program past `ev_join` has had a failed initialiser, had nothing to do, or was
terminated by somebody.  If `ctrl_mq` is deleted at a NULL, the one who sends it is
therefore a second terminator, or the program was ending by itself.

`DeinitMirrorsInit` is about the history of calls.  `Trace` says that it is made of the
init hooks of the first initialisers in the sorted list, up to the one that failed, and of
the deinit hooks of those of them that the loop going back has come to; `Ordered`, that
places go up in the first part and down in the second.  The property follows because an
initialiser has one place in the list (`WhoseCall`) and the places are sorted by priority
(`SortedIs`): `CallsInPriority`, and `AllUndone` at the end of the second loop.

### Procedures

`ProceduresSound` is about programs that keep changes of a number apart
(`~overlap`); `Shapes`, `Room` and `Stopped` hold in all.  In such programs every
operation knows its entry (`AllGood`): what it found is still what the table has, and
is freed only if it freed it itself.  An entry that is being stored is nobody else's
(`FreshApart`), no two numbers share one (`Injective`), the table points to a freed
entry only between the two halves of a change (`Valid`), and who is inside a
synchronised function has the mutex of the entry (`Locked`).  The lemmas
`PushEffect`, `SetTopEffect` and `PopEffect` say which operation each step changes,
and there is one lemma for each action.

### Macros

`MainHolds` and `OneMain`: whoever is in a main function has the mutex, and a thread is
in one only, however its calls are nested, because entering takes a mutex that nobody
has.  It does not follow that who has the mutex is in a function, and need not: the
paths that forget to unlock only take entries away.  `ListsInv` follows the loading of the
directory: the names in the lists are those of files that are loaded (`OfLoaded`), so a new
file adds new names, and unless it asks for three types it adds one at most
(`RegisteredOnce`); hence all names are there once (`NamesOnce`), and freeing them all
frees none twice.

### Adapters

`InOnePlace` counts the places of a request (`Places`): in the queue, in hands, at its
ends; a step takes it out of one and puts it into another.  For the bytes, `OnlyWritten`
says that the request's first byte that is not written bounds what is on the wire, and
`AllWritten` that everything below it is there; together they make `WrittenInOrder`
inductive (`WireGrows`).  `NoPipeLeaks` is inductive as it stands.

### Packet assembly

`AssemblyInv` is about the plan that a behaviour follows, and everything in it but the
types and `FaultExplained` is claimed only while no fragment has come twice and no id
has been used for two packets (`~mixed`).  Its argument is a count without a lock.

* Until its bytes are counted, a fragment has one place (`OnePlace`): not cut from its
  chunk yet, on its way, or in the hands of a consumer.  A chunk stands for the
  fragments that are still to be cut from it.  `PlacesMove` says that a step which
  takes a fragment from one place to one other keeps this, and that a fragment that is
  finished, with no place left, stays so.
* An object in memory is of one packet (`Owned`): only that packet's id leads to it,
  and only its fragments are copied to it.
* `asmb_assemble` reads what is left, copies, and writes what is left later
  (`Copy`, `Subtract`), so the number may be too large: of two consumers the second
  undoes what the first subtracted.  It is never too small (`Counts`, `Knows`): it is the
  size less the bytes of some set of fragments that are finished and in their places.
  `FragmentShape` and `TotalAdd` give the arithmetic of fragments and bytes,
  `LengthCopied` that the code's remainder is the length of the last one.
* So nothing is left only when this set is all of them (`AssembledFull`), and as the
  last one to subtract was not finished before, it is the last.  What it wrote it reads
  again (`Test`), and so may a consumer that wrote earlier: both find nothing left.  This
  needs two consumers between their writing and reading, which `met` records, and while
  that has not happened and nothing was collected (`~Excused`), one consumer hands the
  packet on (`AssembledOnce`, `FinishingOnce`).  `SpansCover` says that the
  spans of the fragments make up the packet.
* An object is freed by the collection, or when all of its packet's fragments are
  finished and nobody else is about to finish it (`Freed`); a consumer that uses freed
  memory was therefore overtaken by the collection, or by one that it met.
  `HistoryKept` is about the two histories, which no step takes back.

There is one lemma for each action (`DisassembleKeeps`, `ReceiveKeeps`, `SetKeeps`,
...), and `FaultyStep` for those that end in a fault.

### Threads

`FaultExplained`, `NoEntryForgotten` and `DeinitLeavesNone` need to know where each
thread is.  `Table` says what the one id makes of the table of ids: only the first
place is ever emptied, and then an id is free; a thread has one place; and a call
that removes a thread holds the one in the first place or one that is not in the
table any more.  `Kept`: a thread that was started is in the table, about to be put
there, freed, or lost.  `Infos` and `Control` tie a thread's memory and its calls to
its life.  While no calls have overlapped, `Apart` holds as well: no two calls hold
one thread but the thread itself (`OneHolder`), what a call holds has not been freed
(`HeldLive`), what is freed is in the table only until its remover or `ev_deinit`
takes it out (`FreedLeaves`), and the second turn of `ev_deinit` has freed all that
it has passed (`Destroyed`).  There is one lemma for each action; `MoveOn`,
`AskKeeps` and `LifeKeeps` are for steps that change only where a call or a thread
is, and `EndedLost` says who can still come to the table after `ev_deinit`: threads
that were lost.

### Event loop

Three invariants, each resting on those before it.  `SignalsInv`: where the pass over
signals is, and that what it has not seen is counted (`Heard`).  `TablesInv`: the arrays
have room (`Fits`); a tidy descriptor has one row if any, the kernel watches it for
that type, and its entry of `fd_table` is the row's, unless another thread is about
to write it (`Tidy`); and if so, the row it will copy is the last of its type
(`Copies`).  `EventsInv`: while no table has changed, each event that `epoll_wait`
returned is about the file its descriptor stands for (`Fresh`), and, while no other
thread has come in, the arrays it is dispatched from are where they were
(`Undisturbed`).

The operators of `EloopTables` are described once (`RegisterSockIs`, `RemoveSockIs`,
`StoreIs`, `ClosedIs`), and what growing and shrinking the rows does to `Fits`,
`Tidy` and `Copies` in the lemmas `Grown...` and `Removed...`; for each action there
is then one lemma per invariant.  `MinExists` (of `CountingLemmas`) and `MaxExists`
give the first and last row, from the well-foundedness of the order of numbers.

`Copies` was found by the proof.  An earlier form of `TidyExact` spoke of every descriptor
closed or registered in order, and was not inductive: `eloop_sock_table_add_sock`
copies the last row of its table after the kernel watches the socket (eloop.c:384),
and if the loop's thread has registered or removed a socket of that type in between, the
row copied is another's.  `untidy` names these descriptors now.

### Timeouts

The inductive invariant `IInv` is `Types` and `Stages` (what the main loop and the
clients have in hand where they are) in all plans, and `CalmInv` in calm ones.
`NeverEarly` needs only the first two: what the main loop runs was due when it looked.
`CalmInv` is five things.  `Queue`: a command is its client's own request, the client
waits for it, and it is in one place, so a cancellation is still under way while
its client waits.  `Holding`: where the timeout is that the main loop holds.  `Both`:
the map has the items of the main heap by their keys, and the one that has left the
heap before it leaves the map.  `Separate`: pending timeouts and those to come have
different deadlines; `heap_remove_item` finds its item by the deadline (heap.c:185),
so without it a cancellation takes another timeout out.  `Past`: nothing that is
pending or to come was freed, cancelled or fired, but for the timeout about to be freed.

`TypesStep`, `QueueStep`, `PlacesStep` and `PastStep` have one step per action.  Under
them are lemmas about the heap, in whatever order it is: its operations rearrange,
add one item or take one out (`OfferKeeps`, `PollKeeps`, `WithoutKeeps`), and so change
both structures alike (`BothAdd`, `BothDrop`, `BothPoll`, `BothDelete`).  The loops of
`heap.c` and of `_timeout_delete` are functions of the number of rounds; `UpRuns`,
`DownRuns` and `RoundsRun` say that what each round keeps, the loop keeps.  This is
induction along numbers, done by a least counterexample (`StepByStep`, from
`MinExists`), and the functions exist because an iteration does (`IterationExists`).
`CancelIsFinal` and `FiresFirstTime` are action properties; `OnlyRunFires` says
which step they are about.

### Hash table

`HInv` is five things.  `Shaped`: as many buckets as the capacity says, and a bucket
without a key is empty or a tombstone.  `Linked`: the list has each used bucket once.
`Counted`: the counters are those of the list, which is no longer than three quarters
of the table.  `Keyed`: a key has one bucket, and every bucket that its probe sequence
comes to before it has been used.  `Visited`: the list is not longer than
`hashmap_iterate` visits, given `AllVisited`.

A probe sequence goes through all places (`ProbesAll`), and a list shorter than the
table leaves one empty (`EmptyIsThere`), so a search ends; by `Keyed` it ends at the
key, if the table has it (`FindsKey`).  This is why a removed entry must stay a
tombstone.  The lemmas on `Entries` say what a dictionary sees of a call: an entry put
into an empty bucket is the last (`InsertIs`, `EntriesList`), one written over keeps
its place (`EntriesWith`), one removed closes the gap (`EntriesOut`), and resizing changes
nothing (`MoveKeeps`, `EnsureIs`): the old entries move in the order of the list, and
each finds a bucket in a table that is then at most three eighths full (`HalfFull`).
`TableStep` puts these together, one case for each call.  `Entries` and the loop of
`hashmap_resize` are functions of the number of rounds, as in the heap, and
`StepByStep` is the induction.

### Heap

`QInv` says that the array and the caller's set hold the same items, each once, and
that the array is in order until the first `heap_remove_item`.  While an item moves up
or down it alone may be out of order: `UpOk` and `DownOk` say that all others are in
order, and that the children of its place are in order with its parent, which is
what makes the next swap right.  A round keeps this (`UpGoes`, `DownGoes`), and where
the loop stops the array is a heap (`UpEnds`, `DownEnds`).  As each round goes
to a smaller, or a larger, place, as many rounds as there are items are enough.
`RootIsTop` is induction again: the least place that outranks the root has a parent.

### Time arithmetic

`NInv`: the accumulator is a pair of integers and its value, seconds times `NSec` plus
nanoseconds, is the exact number.  It need not be normalised.  The operators are
described once, by what they do to the value: `NormaliseIs` (with C's truncating
division, `QuotRem`), `SumsExact`, `Comparisons` (normalised pairs are ordered as their
values are, `Pairs`), `MsIs` and `ToTimevalIs` (conversions round down).
`ModIs` is about the loop of `timespec_mod`, which doubles the divisor until it
exceeds the time and halves it back, subtracting where it can: each halving undoes a
doubling (`DoubleIs`), the rest stays below the current divisor, and it
differs from the time by a multiple of the first.

### Only model-checked

* Every liveness property (`SlotsComeBack`, `JoinCompletes`, `EveryTimeoutFires`,
  `CallsReturn`, `TerminateEnds`, `RemovalsReturn`, `ReadyServed`, `TimeoutsRun`,
  `PeerGoneCloses`, `ChunksEnd`): liveness under fairness is outside what the prover
  does.
* That the list of timeouts of the event loop stays sorted (`FiresEarliest`).  The loop
  that inserts into it would need the arguments used for those of the heap.
* The safety properties of `Sockets` (`ConnectionsSound`, and `FaultsExplained` but for
  the event loop).  They are within reach of the same method.

## What the checks found

* The main loop waits for the timeout with the latest deadline, not the closest
  (cevf.c:617, :662; `timeouts_order`).  Closer timeouts run late, in the batch
  after the latest one.
* `heap_remove_item` does not restore the order of the heap when the item moved
  is smaller than its new children (heap.c:203; `heap_order`).

Seen while modelling.  Where a property depends on one of these, it names the
case as its exception.

* Heap and table: `heap_remove_item` of the item in the last of several places
  passes NULL to the comparator (heap.c:198-203, `ComparesNull`), and
  `hashmap_iterate` stops after 1002 buckets (map.c:389, `MaxVisits`).
* Timeouts: four paths of the main loop and of direct calls end in an invalid
  access (see `Timeouts`).
* Time: `timespec_mod` can return a time that is not normalised, and
  `timespec_to_ms` then depends on which of the two forms it gets; the branch of
  the event loop's registration that looks for an overflow of the clock cannot be
  reached with a 64-bit `time_t`.
* Event loop: `timeout_ms` keeps its value from the last timeout when no timeout is
  left (eloop.c:1114-1135), so the loop wakes without need; with timeouts and no
  socket it does not sleep at all until they are due (eloop.c:1151).
* Life cycle: when all sockets have been unregistered `eloop_run` returns, and
  `ev_join` then waits for the main loop's thread until somebody terminates; an
  initialiser that enqueues in the blocking form reads a table that `ev_init` has
  not made yet; `cevf_copy_enqueue_soft` may block, as `_cevf_copy_enq` does not use
  the function it is given (cevf.c:177).  Two calls of `cevf_terminate`
  can use `ctrl_mq` after it is gone.
* Threads: all dynamic threads share one id (`ids_add_item`), so `ev_rm_th` removes
  whichever is in that place; a thread that ends before `dynamic_id` is stored
  leaves its entry behind, and one that ends joins itself, which fails at once.
* Sockets: a connection that ends is closed twice, and the splicer takes a
  descriptor 0 for none.  A worker that opens a server while the loop accepts may leave
  the connection with the server's row in `fd_table`, or the server with the
  connection's (eloop.c:383-385); it is then never served.
* Event loop: handlers that change a table in each round keep ready sockets from being
  served for as long as they go on (eloop.c:633, :1213).
* Assembly: two consumers between assdis.h:312 and 313 may both find a packet complete,
  and the second then uses what the first has freed, or hands the packet on again.
  A chunk that does not fit into one fragment or fill exactly two never
  ends, as its last length is computed from a rest that is already reduced
  (assdis.h:95), and the header that is subtracted twice costs bytes at the end of
  a fragment (assdis.h:108); the ids to delete are not set before the first pass.
* Lua: a main function that returns something else than was expected leaves the
  mutex locked (cevfm_luamac.c:120), a macro that calls a macro's procedure waits
  for itself, the last type of a macro's list is never read, and the names of a
  macro with three types or more are freed more than once.
* Resume: the rest of a request that a full queue refuses is gone, without `on_end`
  or `on_error`.

## Plan

All modules of the plan are written, in this order: `BoundedQueue`, `QMsg2` and its
proofs; `ConsumerPool`; `Heap`, `HeapQueue`; `Timeouts`; `Dictionary`, `HashMap`;
`Procedures`; `Times`; `Threads`; `Lifecycle`; `EloopTables`, `Eloop`; `Sockets`;
`Assembly`; `LuaMacros`; `Adapters`.

The theorems were proved in this order: the queue and its refinement, the consumers,
the life cycle, the procedures, the event loop, the dynamic threads, the timeouts, the
heap, the time arithmetic, the hash table, the initialisers' hooks, the macros, the
adapters and the packet assembly.  "Only model-checked" lists what is left.

## Not modelled

* The portability layer of the event loop (`os_*.c`, `common.h`): files, strings and
  clocks, no state of cevf.  The select, poll and kqueue builds of the loop.
  `eloop_sock_requeue` and `eloop_wait_for_read_sock`, which nothing calls.
* Vectors, logging and the macros that fill the tables of a program.
* Failures of `malloc` and `pthread_create`, except where the code uses the result;
  failures of `pthread_mutex_lock` and `sem_post` on valid objects.
* The contents of events and their deallocation.  A wait of a consumer that ends
  with EINTR: signal handlers are assumed to be installed with `SA_RESTART`.
* In `Timeouts`: the counter `timeout_cnt` (it is in `Lifecycle`, where it decides
  whether the program is idle), the remaining time that a cancellation returns, and
  an interrupted wait.
* `heap_clear` and `heap_contains`, which nothing calls, and the growth of arrays
  other than those of the event loop.  A thread that registers while the event loop's
  arrays move under a handler (`Sockets` has arrays that are large enough, and `Tears`
  for the rows; `Eloop` has other threads only while the loop sleeps).
* `usock_deinit_1` and `asmb_deinit`, which run when no other thread is left; the
  parsing of names, addresses and headers.
* Lua: errors, which end the program; enqueueing from Lua; the interpreter's stack,
  which grows by one place with each call.
* The loading of modules from files by `cevfd.c`.
* The conversions of times from and to `double`.
