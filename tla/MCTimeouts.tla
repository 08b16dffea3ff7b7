----------------------------- MODULE MCTimeouts -----------------------------
(***************************************************************************)
(* Instances of Timeouts for TLC: deadlines and calls are few, and an      *)
(* address is the number of the call that allocated the timeout.           *)
(***************************************************************************)
EXTENDS Timeouts, TLC

CONSTANTS c1, c2, k1, k2, k3

(* In the calm plan a client only calls while the main loop waits; in the  *)
(* other two clients call at any time, and change the two structures       *)
(* themselves while it does not.                                           *)
Calm(keyset, until, most) ==
  [calm |-> TRUE, clients |-> {c1}, keys |-> keyset, time |-> until, calls |-> most]
Racing == [calm |-> FALSE, clients |-> {c1, c2}, keys |-> {k3}, time |-> 2, calls |-> 3]

CalmAndRacing == {Calm({k1, k2}, 3, 4), Racing}
CalmOneKey == {Calm({k1}, 2, 3)}
CalmTwoKeys == {Calm({k1, k2}, 3, 3)}

KeySymmetry == Permutations({k1, k2})
=============================================================================
