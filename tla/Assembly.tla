------------------------------ MODULE Assembly ------------------------------
(***************************************************************************)
(* Cutting a chunk into fragments and putting packets together again       *)
(* (src/src/extras/assdis.h, with the handlers of cevfm_assdisass.c).      *)
(* Consumers handle chunks, one fragment at a time and back into the       *)
(* queue, and fragments that arrive from the network, the chunks' own and  *)
(* those of peers, in any order, not at all or twice; the main loop        *)
(* collects the packets that stay incomplete.                              *)
(*                                                                         *)
(* A byte is the packet it is of and its place in it, or Garbage.  fault   *)
(* records memory used after it was freed ("freed"), written beyond its    *)
(* end ("bounds"), or an array that was never set ("array").  Bounds: the  *)
(* packets, the copies and the passes of the collection, each a Plan.      *)
(***************************************************************************)
EXTENDS Integers, Sequences, FiniteSets, SequencesExt

CONSTANTS FragSz,               (* bytes in a fragment, cevfe_asmb_max_sgmt_size *)
          FirstHeader, Header,  (* bytes before them: 13 in the first, 5    *)
          MaxId,                (* 2^16 - 1                                 *)
          Expire,               (* ASSDIS1_GC_EXPIRE_CNT                    *)
          Workers, QueueSize, Garbage, None,
          Plans      (* records: chunks, packets of peers, copies, passes   *)

(* Packets have names of their own, and those of peers have an id.         *)
PlanParameters(p) ==
  /\ p = [chunks |-> p.chunks, packets |-> p.packets, copies |-> p.copies, passes |-> p.passes]
  /\ p.copies \in Nat /\ p.passes \in Nat
  /\ \A c \in p.chunks \cup p.packets : c.len \in Nat
  /\ \A c \in p.packets : c.id \in 1 .. MaxId
  /\ \A c, d \in p.chunks \cup p.packets : c.of = d.of => c = d
  /\ p.chunks \cap p.packets = {}
AssemblyParameters ==
  /\ FragSz \in Nat \ {0} /\ MaxId \in Nat \ {0} /\ QueueSize \in Nat
  /\ None \notin Nat
  /\ \A p \in Plans : PlanParameters(p)

VARIABLES
  queue,     (* the chunks in data_mq                                       *)
  lastid,    (* the id of the disassembler                                  *)
  net,       (* the fragments on their way                                  *)
  table,     (* m_id_data                                                   *)
  mem,       (* the packets in memory, all that ever were                   *)
  wk,        (* what each consumer does                                     *)
  doomed,    (* to_delete_arr, or None outside of a pass                    *)
  out,       (* history: the packets assembled                              *)
  done, lost,   (* history: chunks taken apart, and refused by the queue    *)
  seen,      (* history: the packets that fragments arrived of              *)
  mixed,     (* history: has a fragment come twice, or an id for two?       *)
  collected, (* history: has the collection run?                            *)
  met,       (* history: were two consumers between writing what is left of *)
             (* one packet and reading it again?                            *)
  left,      (* what is left of the plan                                    *)
  fault

chunks == <<queue, lastid, done, lost>>
packets == <<table, mem, doomed, out>>
history == <<collected, met>>
vars == <<chunks, net, packets, wk, seen, mixed, history, left, fault>>

Idle == [pc |-> "idle"]
Goes(w, to) == wk' = [wk EXCEPT ![w] = to]

(* A fragment with its header; n bytes of its body are there.              *)
Fragment(of, id, size, k, last, n) ==
  [of |-> of, id |-> id, size |-> size, fragno |-> k, last |-> last, n |-> n]
(* The fragments a peer sends of a packet.                                 *)
Pieces(p) ==
  LET end == (p.len - 1) \div FragSz
  IN  {Fragment(p.of, p.id, p.len, k, k = end, IF k = end THEN p.len - k * FragSz ELSE FragSz) :
         k \in 0 .. end}

Init ==
  /\ left \in Plans
  /\ net = UNION {Pieces(p) : p \in left.packets}
  /\ queue = <<>> /\ lastid = 0 /\ done = {} /\ lost = {}
  /\ table = [id \in 1 .. MaxId |-> None] /\ mem = <<>> /\ doomed = None /\ out = {}
  /\ wk = [w \in Workers |-> Idle]
  /\ seen = {} /\ mixed = FALSE /\ collected = FALSE /\ met = FALSE /\ fault = "none"
-----------------------------------------------------------------------------
(* A chunk is enqueued as an event, and taken by a consumer.               *)
Submit(c) ==
  /\ c \in left.chunks /\ Len(queue) < QueueSize
  /\ left' = [left EXCEPT !.chunks = @ \ {c}]
  /\ queue' = Append(queue, [of |-> c.of, id |-> 0, size |-> c.len, left |-> c.len, fragno |-> 0])
  /\ UNCHANGED <<lastid, done, lost, net, packets, wk, seen, mixed, collected, fault>>

TakeChunk(w) ==
  /\ wk[w].pc = "idle" /\ queue # <<>>
  /\ Goes(w, [pc |-> "chunk", d |-> Head(queue)])
  /\ queue' = Tail(queue)
  /\ UNCHANGED <<lastid, done, lost, net, packets, seen, mixed, collected, left, fault>>

(* Ids are never 0.                                                        *)
NextId == IF lastid = MaxId THEN 1 ELSE lastid + 1

(* asmb_chunk_in_handle puts a chunk that is not done back softly.         *)
Requeue(d) ==
  IF Len(queue) < QueueSize THEN queue' = Append(queue, d) /\ UNCHANGED lost
  ELSE lost' = lost \cup {d.of} /\ UNCHANGED queue

(* Mutant: the chunk does not go on to its next fragment.                  *)
DisassembleStays(w) ==
  /\ wk[w].pc = "chunk"
  /\ LET d == IF wk[w].d.id = 0 THEN [wk[w].d EXCEPT !.id = NextId] ELSE wk[w].d
         n == d.left - d.fragno * FragSz
     IN  /\ lastid' = IF wk[w].d.id = 0 THEN NextId ELSE lastid
         /\ IF d.left > FragSz
            THEN /\ net' = net \cup {Fragment(d.of, d.id, d.left, d.fragno, FALSE, FragSz)}
                 /\ Requeue(d) /\ UNCHANGED done
            ELSE IF d.left > 0 /\ n < 0
            THEN Requeue(d) /\ UNCHANGED <<net, done>>
            ELSE /\ net' = IF d.left > 0
                           THEN net \cup {Fragment(d.of, d.id, d.left, d.fragno, TRUE, n)} ELSE net
                 /\ done' = done \cup {d.of} /\ UNCHANGED <<queue, lost>>
  /\ Goes(w, Idle)
  /\ UNCHANGED <<packets, seen, mixed, collected, left, fault>>

(* assdis1_disassemble.  The length of the last fragment is that of the    *)
(* rest less what went before, which has been taken off already: where     *)
(* that is negative nothing is sent and the chunk goes back as it is.      *)
Disassemble(w) ==
  /\ wk[w].pc = "chunk"
  /\ LET d == IF wk[w].d.id = 0 THEN [wk[w].d EXCEPT !.id = NextId] ELSE wk[w].d
         n == d.left - d.fragno * FragSz
     IN  /\ lastid' = IF wk[w].d.id = 0 THEN NextId ELSE lastid
         /\ IF d.left > FragSz
            THEN /\ net' = net \cup {Fragment(d.of, d.id, d.left, d.fragno, FALSE, FragSz)}
                 /\ Requeue([d EXCEPT !.fragno = @ + 1, !.left = @ - FragSz]) /\ UNCHANGED done
            ELSE IF d.left > 0 /\ n < 0
            THEN Requeue(d) /\ UNCHANGED <<net, done>>
            ELSE /\ net' = IF d.left > 0
                           THEN net \cup {Fragment(d.of, d.id, d.left, d.fragno, TRUE, n)} ELSE net
                 /\ done' = done \cup {d.of} /\ UNCHANGED <<queue, lost>>
  /\ Goes(w, Idle)
  /\ UNCHANGED <<packets, seen, mixed, collected, left, fault>>
-----------------------------------------------------------------------------
(* assdis1_assemble.  The header is taken off twice, so that as many bytes *)
(* at the end of the body are lost, and a body that is shorter is refused. *)
Body(f) == f.n - (IF f.fragno = 0 THEN FirstHeader ELSE Header)

Receive(w) ==
  /\ wk[w].pc = "idle"
  /\ \E f \in net :
       /\ \/ net' = net \ {f} /\ UNCHANGED left
          \/ left.copies > 0 /\ left' = [left EXCEPT !.copies = @ - 1] /\ UNCHANGED net
       /\ mixed' = (mixed \/ net' = net \/ \E s \in seen : s[1] # f.of /\ s[2] = f.id)
       /\ seen' = seen \cup {<<f.of, f.id>>}
       /\ IF Body(f) < 0 THEN UNCHANGED <<wk, mem>>
          ELSE IF f.fragno = 0
          THEN /\ mem' = Append(mem, [size |-> f.size, left |-> f.size, age |-> 0, live |-> TRUE,
                                      raw |-> [i \in 0 .. f.size - 1 |-> None]])
               /\ Goes(w, [pc |-> "set", f |-> f, obj |-> Len(mem'), rest |-> 0])
          ELSE Goes(w, [pc |-> "get", f |-> f, obj |-> 0, rest |-> 0]) /\ UNCHANGED mem
  /\ UNCHANGED <<chunks, table, doomed, out, collected, fault>>

(* The first fragment makes the entry, in the place of any other.          *)
Set(w) ==
  /\ wk[w].pc = "set"
  /\ table' = [table EXCEPT ![wk[w].f.id] = wk[w].obj]
  /\ Goes(w, [wk[w] EXCEPT !.pc = "get"])
  /\ UNCHANGED <<chunks, net, mem, doomed, out, seen, mixed, collected, left, fault>>

(* Every fragment looks the entry up and lets go of the lock.              *)
Get(w) ==
  /\ wk[w].pc = "get"
  /\ LET obj == table[wk[w].f.id]
     IN  Goes(w, IF obj = None THEN Idle ELSE [wk[w] EXCEPT !.pc = "copy", !.obj = obj])
  /\ UNCHANGED <<chunks, net, packets, seen, mixed, collected, left, fault>>

(* mod_ceil                                                                *)
LenOf(f, size) == IF ~f.last THEN FragSz ELSE IF size % FragSz = 0 THEN FragSz ELSE size % FragSz
Places(f, size) == f.fragno * FragSz .. f.fragno * FragSz + LenOf(f, size) - 1
Byte(f, i) == IF i - f.fragno * FragSz < Body(f) THEN <<f.of, i>> ELSE Garbage

(* Copying, and reading what is left; another consumer may be between      *)
(* reading and writing it, too.                                            *)
Copy(w) ==
  /\ wk[w].pc = "copy"
  /\ LET f == wk[w].f  r == mem[wk[w].obj]
     IN  IF ~r.live \/ ~(Places(f, r.size) \subseteq 0 .. r.size - 1)
         THEN fault' = (IF ~r.live THEN "freed" ELSE "bounds") /\ UNCHANGED <<mem, wk>>
         ELSE /\ mem' = [mem EXCEPT ![wk[w].obj].raw =
                           [i \in DOMAIN @ |-> IF i \in Places(f, r.size) THEN Byte(f, i) ELSE @[i]]]
              /\ Goes(w, [wk[w] EXCEPT !.pc = "subtract", !.rest = r.left - LenOf(f, r.size)])
              /\ UNCHANGED fault
  /\ UNCHANGED <<chunks, net, table, doomed, out, seen, mixed, collected, left>>

(* The rest is written, and the packet is complete if it is zero when it   *)
(* is read again: another consumer may have written its own by then, and   *)
(* even have handed the packet on and freed it.                            *)
Subtract(w) ==
  /\ wk[w].pc = "subtract"
  /\ IF ~mem[wk[w].obj].live THEN fault' = "freed" /\ UNCHANGED <<mem, wk>>
     ELSE /\ mem' = [mem EXCEPT ![wk[w].obj].left = wk[w].rest]
          /\ Goes(w, [wk[w] EXCEPT !.pc = "test"])
          /\ UNCHANGED fault
  /\ UNCHANGED <<chunks, net, table, doomed, out, seen, mixed, collected, left>>

(* Mutant: a packet is complete with its last fragment.                    *)
TestUntilLast(w) ==
  /\ wk[w].pc = "test"
  /\ IF ~mem[wk[w].obj].live THEN fault' = "freed" /\ UNCHANGED wk
     ELSE /\ Goes(w, IF mem[wk[w].obj].left = 0 \/ wk[w].f.last THEN [wk[w] EXCEPT !.pc = "assembled"]
                     ELSE Idle)
          /\ UNCHANGED fault
  /\ UNCHANGED <<chunks, net, packets, seen, mixed, collected, left>>

Test(w) ==
  /\ wk[w].pc = "test"
  /\ IF ~mem[wk[w].obj].live THEN fault' = "freed" /\ UNCHANGED wk
     ELSE /\ Goes(w, IF mem[wk[w].obj].left = 0 THEN [wk[w] EXCEPT !.pc = "assembled"] ELSE Idle)
          /\ UNCHANGED fault
  /\ UNCHANGED <<chunks, net, packets, seen, mixed, collected, left>>

(* on_assembled is called with the packet, which is freed, ...             *)
Assembled(w) ==
  /\ wk[w].pc = "assembled"
  /\ LET r == mem[wk[w].obj]
     IN  IF ~r.live THEN fault' = "freed" /\ UNCHANGED <<mem, wk, out>>
         ELSE /\ out' = out \cup {r.raw}
              /\ mem' = [mem EXCEPT ![wk[w].obj].live = FALSE]
              /\ Goes(w, [wk[w] EXCEPT !.pc = "remove"])
              /\ UNCHANGED fault
  /\ UNCHANGED <<chunks, net, table, doomed, seen, mixed, collected, left>>

(* ... and then taken out of the table, or whatever has its id by now.     *)
Forget(w) ==
  /\ wk[w].pc = "remove"
  /\ table' = [table EXCEPT ![wk[w].f.id] = None]
  /\ Goes(w, Idle)
  /\ UNCHANGED <<chunks, net, mem, doomed, out, seen, mixed, collected, left, fault>>
-----------------------------------------------------------------------------
(* assdis1_periodic_exec: a pass over the table, and the removal of what   *)
(* it has freed.  The array starts out with whatever is on the stack: it   *)
(* is usable if that is NULL.                                              *)
Pass ==
  /\ doomed = None /\ left.passes > 0
  /\ left' = [left EXCEPT !.passes = @ - 1] /\ collected' = TRUE
  /\ LET held == {id \in 1 .. MaxId : table[id] # None}
         objs == {table[id] : id \in held}
         old == {o \in objs : mem[o].age = Expire}
     IN  \/ /\ \A o \in objs : mem[o].live
            /\ mem' = [o \in 1 .. Len(mem) |->
                         IF o \in objs THEN [mem[o] EXCEPT !.age = @ + 1, !.live = o \notin old]
                         ELSE mem[o]]
            /\ doomed' = {id \in held : table[id] \in old}
            /\ UNCHANGED fault
         \/ /\ \E o \in objs : ~mem[o].live
            /\ fault' = "freed" /\ UNCHANGED <<mem, doomed>>
         \/ fault' = "array" /\ UNCHANGED <<mem, doomed>>
  /\ UNCHANGED <<chunks, net, table, out, wk, seen, mixed>>

PassRemoves ==
  /\ doomed # None
  /\ table' = [id \in 1 .. MaxId |-> IF id \in doomed THEN None ELSE table[id]]
  /\ doomed' = None
  /\ UNCHANGED <<chunks, net, mem, out, wk, seen, mixed, collected, left, fault>>

(* Two consumers that are to read what is left of the same packet.         *)
Meeting(threads) ==
  \E v, w \in Workers :
    v # w /\ threads[v].pc = "test" /\ threads[w].pc = "test" /\ threads[v].obj = threads[w].obj

Step(w) ==
  \/ Disassemble(w)
  \/ Set(w) \/ Get(w) \/ Copy(w) \/ Subtract(w) \/ Test(w) \/ Assembled(w) \/ Forget(w)
Next ==
  /\ fault = "none"
  /\ \/ \E c \in left.chunks : Submit(c)
     \/ \E w \in Workers : TakeChunk(w) \/ Receive(w) \/ Step(w)
     \/ Pass \/ PassRemoves
  /\ met' = (met \/ Meeting(wk'))

Fairness ==
  /\ \A w \in Workers : WF_vars(fault = "none" /\ Step(w) /\ met' \in BOOLEAN)
  /\ WF_vars(fault = "none" /\ (\E w \in Workers : TakeChunk(w)) /\ met' \in BOOLEAN)
Spec == Init /\ [][Next]_vars /\ Fairness
-----------------------------------------------------------------------------
TypeOK ==
  /\ Len(queue) <= QueueSize /\ lastid \in 0 .. MaxId
  /\ \A id \in 1 .. MaxId : table[id] \in {None} \cup 1 .. Len(mem)
  /\ \A o \in 1 .. Len(mem) : mem[o].left <= mem[o].size

(* Whatever the order of the fragments and however many consumers put them *)
(* together, no memory is used after it was freed unless a fragment or an  *)
(* id comes twice, the collection has run, or two consumers were between   *)
(* writing what is left of a packet and reading it again, where both may   *)
(* find the packet complete; and none is written beyond its end unless a   *)
(* fragment or an id comes twice.                                          *)
FaultExplained ==
  /\ fault = "freed" => mixed \/ collected \/ met
  /\ fault = "bounds" => mixed

(* A packet that is handed on holds in each place the byte that was sent   *)
(* there, or one of those that the second header has cost, and never one   *)
(* of another place or another packet, unless an id came for two.          *)
BytesInPlace ==
  ~mixed =>
    \A raw \in out : \E s \in seen : \A i \in DOMAIN raw : raw[i] \in {<<s[1], i>>, Garbage}

(* A chunk is taken apart in the end, or refused by the queue, unless it   *)
(* goes round for ever: every one does that is longer than a fragment and  *)
(* not twice as long.                                                      *)
Circles(d) == d.size > FragSz /\ d.size # 2 * FragSz
Unfinished ==
  {d \in ToSet(queue) \cup {wk[w].d : w \in {v \in Workers : wk[v].pc = "chunk"}} : ~Circles(d)}
ChunksEnd == Unfinished # {} ~> Unfinished = {} \/ fault # "none"
=============================================================================
