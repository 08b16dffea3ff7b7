----------------------------- MODULE Dictionary -----------------------------
(***************************************************************************)
(* What the hash table of src/src/utils/map.c promises (map.h): it is a    *)
(* function from keys to values that remembers the order in which its keys *)
(* were added, and visits "every element" in that order (map.h:65).        *)
(***************************************************************************)
EXTENDS Naturals, Sequences

CONSTANTS Keys, Values,
          Default            (* the value a lookup gives for no entry       *)

VARIABLES entries,           (* pairs of a key and a value, oldest first    *)
          answer             (* what the last call told its caller          *)

dvars == <<entries, answer>>

Answer(found, value, visited) == [found |-> found, value |-> value, visited |-> visited]
NoAnswer == Answer(FALSE, Default, <<>>)

Init == entries = <<>> /\ answer = NoAnswer

Has(k) == \E i \in 1 .. Len(entries) : entries[i].key = k
IndexOf(k) == CHOOSE i \in 1 .. Len(entries) : entries[i].key = k
Added(k, v) == Append(entries, [key |-> k, value |-> v])
Without(i) == SubSeq(entries, 1, i - 1) \o SubSeq(entries, i + 1, Len(entries))

Put(k, v) ==
  /\ entries' = IF Has(k) THEN [entries EXCEPT ![IndexOf(k)].value = v] ELSE Added(k, v)
  /\ answer' = NoAnswer

PutIfAbsent(k, v) ==
  /\ entries' = IF Has(k) THEN entries ELSE Added(k, v)
  /\ answer' = Answer(Has(k), IF Has(k) THEN entries[IndexOf(k)].value ELSE v, <<>>)

Lookup(k) ==
  /\ answer' = Answer(Has(k), IF Has(k) THEN entries[IndexOf(k)].value ELSE Default, <<>>)
  /\ UNCHANGED entries

Delete(k) ==
  /\ entries' = IF Has(k) THEN Without(IndexOf(k)) ELSE entries
  /\ answer' = NoAnswer

Size ==
  /\ answer' = Answer(FALSE, Len(entries), <<>>)
  /\ UNCHANGED entries

Visit ==
  /\ answer' = Answer(FALSE, Default, entries)
  /\ UNCHANGED entries

Next ==
  \/ \E k \in Keys : \/ \E v \in Values : Put(k, v) \/ PutIfAbsent(k, v)
                     \/ Lookup(k) \/ Delete(k)
  \/ Size \/ Visit

Spec == Init /\ [][Next]_dvars
=============================================================================
