------------------------------- MODULE HashMap -------------------------------
(***************************************************************************)
(* The hash table of src/src/utils/map.c, built with __HASHMAP_REMOVABLE:  *)
(* open addressing with linear probing.  A removed entry leaves a          *)
(* tombstone, a bucket without a key whose value is not 0, which is never  *)
(* used again and goes away when the table is resized.  All buckets that   *)
(* were ever filled are linked in the order they were.                     *)
(* Bound: no resize beyond MaxCapacity.                                    *)
(***************************************************************************)
EXTENDS Integers, Sequences, FiniteSetsExt

CONSTANTS Keys, NoKey,
          Values,            (* 0 and TombValue may be among them           *)
          Hash,              (* Hash[k]: hash_data of k                     *)
          TombValue,         (* 0xDEAD                                      *)
          DefaultCapacity,   (* HASHMAP_DEFAULT_CAPACITY                    *)
          MaxVisits,         (* entries hashmap_iterate gets to: 1002       *)
          MaxCapacity

(* What an instance has to give.                                          *)
HashMapParameters ==
  /\ NoKey \notin Keys
  /\ 0 \in Values /\ TombValue # 0
  /\ Hash \in [Keys -> Nat]
  /\ DefaultCapacity \in Nat /\ DefaultCapacity >= 2
  /\ MaxVisits \in Nat /\ MaxCapacity \in Nat

Empty == [key |-> NoKey, value |-> 0]
Tomb == [key |-> NoKey, value |-> TombValue]
Buffer(n) == [i \in 0 .. n - 1 |-> Empty]

VARIABLES m,         (* the struct hashmap; chain is its linked list        *)
          answer     (* what the last call told its caller                  *)

vars == <<m, answer>>

(* The entries among the first n buckets of the list: no tombstones.       *)
Entries(h, n) ==
  LET first[i \in 0 .. n] ==
        IF i = 0 THEN <<>>
        ELSE LET b == h.buckets[h.chain[i]]
             IN  IF b.key = NoKey THEN first[i - 1] ELSE Append(first[i - 1], b)
  IN  first[n]

D == INSTANCE Dictionary WITH Default <- 0, entries <- Entries(m, Len(m.chain))

(* hashmap_create.                                                         *)
Init ==
  /\ m = [buckets |-> Buffer(DefaultCapacity), capacity |-> DefaultCapacity,
          count |-> 0, tombs |-> 0, chain |-> <<>>]
  /\ answer = D!NoAnswer

(* The first bucket of the probe sequence of k for which Stops holds.      *)
Probe(buckets, capacity, k, Stops(_)) ==
  LET at(i) == (Hash[k] + i) % capacity
  IN  at(Min({i \in 0 .. capacity - 1 : Stops(buckets[at(i)])}))

(* Mutant: a tombstone ends the search.                                    *)
FindEntryOrTomb(h, k) ==
  Probe(h.buckets, h.capacity, k, LAMBDA b : b.key \in {k, NoKey})

FindEntry(h, k) == Probe(h.buckets, h.capacity, k, LAMBDA b : b = Empty \/ b.key = k)
ResizeEntry(h, k) == Probe(h.buckets, h.capacity, k, LAMBDA b : b.key = NoKey)

(* The old entries move in the order of the list; tombstones drop out.     *)
Move(h, new) ==
  LET move[n \in 0 .. Len(h.chain)] ==
        IF n = 0 THEN new
        ELSE LET b == h.buckets[h.chain[n]]
                 s == move[n - 1]
             IN  IF b.key = NoKey THEN s
                 ELSE [s EXCEPT !.buckets[ResizeEntry(s, b.key)] = b,
                                !.chain = Append(@, ResizeEntry(s, b.key))]
  IN  move[Len(h.chain)]

Resize(h) ==
  Move(h, [buckets |-> Buffer(2 * h.capacity), capacity |-> 2 * h.capacity,
           count |-> h.count - h.tombs, tombs |-> 0, chain |-> <<>>])

(* HASHMAP_MAX_LOAD is 0.75.                                               *)
Loaded(h) == 4 * (h.count + 1) > 3 * h.capacity

Ensure(h) == IF Loaded(h) THEN Resize(h) ELSE h

Insert(h, e, k, v) ==
  [h EXCEPT !.buckets[e] = [key |-> k, value |-> v], !.chain = Append(@, e), !.count = @ + 1]
InBound == Loaded(m) => 2 * m.capacity <= MaxCapacity
-----------------------------------------------------------------------------
HashmapSet(k, v) ==
  /\ InBound
  /\ LET h == Ensure(m)
         e == FindEntry(h, k)
     IN  m' = IF h.buckets[e].key = NoKey THEN Insert(h, e, k, v)
              ELSE [h EXCEPT !.buckets[e].value = v]
  /\ answer' = D!NoAnswer

HashmapGetSet(k, v) ==
  /\ InBound
  /\ LET h == Ensure(m)
         e == FindEntry(h, k)
     IN  IF h.buckets[e].key = NoKey
         THEN m' = Insert(h, e, k, v) /\ answer' = D!Answer(FALSE, v, <<>>)
         ELSE m' = h /\ answer' = D!Answer(TRUE, h.buckets[e].value, <<>>)

HashmapGet(k) ==
  /\ LET b == m.buckets[FindEntry(m, k)]
     IN  answer' = D!Answer(b.key # NoKey, b.value, <<>>)
  /\ UNCHANGED m

(* Mutant: a removed entry becomes an empty one.                           *)
HashmapRemoveClears(k) ==
  /\ LET e == FindEntry(m, k)
     IN  m' = IF m.buckets[e].key = NoKey THEN m
              ELSE [m EXCEPT !.buckets[e] = Empty, !.tombs = @ + 1]
  /\ answer' = D!NoAnswer

HashmapRemove(k) ==
  /\ LET e == FindEntry(m, k)
     IN  m' = IF m.buckets[e].key = NoKey THEN m
              ELSE [m EXCEPT !.buckets[e] = Tomb, !.tombs = @ + 1]
  /\ answer' = D!NoAnswer

HashmapSize ==
  /\ answer' = D!Answer(FALSE, m.count - m.tombs, <<>>)
  /\ UNCHANGED m

(* hashmap_iterate counts the buckets it gets to, tombstones included, and *)
(* gives up after MaxVisits of them.                                       *)
HashmapIterate ==
  /\ LET n == IF Len(m.chain) < MaxVisits THEN Len(m.chain) ELSE MaxVisits
     IN  answer' = D!Answer(FALSE, 0, Entries(m, n))
  /\ UNCHANGED m

Next ==
  \/ \E k \in Keys : \/ \E v \in Values : HashmapSet(k, v) \/ HashmapGetSet(k, v)
                     \/ HashmapGet(k) \/ HashmapRemove(k)
  \/ HashmapSize \/ HashmapIterate

Spec == Init /\ [][Next]_vars
-----------------------------------------------------------------------------
Buckets == [key : Keys \cup {NoKey}, value : Values \cup {0, TombValue}]
TypeOK ==
  /\ m.capacity \in Nat \ {0}
  /\ m.buckets \in [0 .. m.capacity - 1 -> Buckets]
  /\ m.count \in Nat /\ m.tombs \in Nat
  /\ m.chain \in Seq(0 .. m.capacity - 1)

(* A search always ends: whatever was set and removed, there is a bucket   *)
(* that was never used (the loop of find_entry has no other way out for a  *)
(* key that is not there).                                                 *)
SearchEnds == \E i \in DOMAIN m.buckets : m.buckets[i] = Empty

(* The list links every bucket that has been used, once, and the two       *)
(* counters are its length and the number of its tombstones.               *)
ListAndCounters ==
  /\ {m.chain[i] : i \in 1 .. Len(m.chain)} = {i \in DOMAIN m.buckets : m.buckets[i] # Empty}
  /\ m.count = Len(m.chain)
  /\ m.count = Cardinality({m.chain[i] : i \in 1 .. Len(m.chain)})
  /\ m.tombs = Cardinality({i \in DOMAIN m.buckets : m.buckets[i] = Tomb})

(* The table is a dictionary: through collisions, tombstones and resizing, *)
(* every call answers as the abstract one does, iteration in order.        *)
ImplementsDictionary == D!Spec
=============================================================================
