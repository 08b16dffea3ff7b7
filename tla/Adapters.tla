------------------------------ MODULE Adapters ------------------------------
(***************************************************************************)
(* Two adapters of src/src/extras: requests to write that go through the   *)
(* queue of events until they are written (cevfm_resumew.c), and pipes     *)
(* between two sockets, made, filled once and given out                    *)
(* (cevfm_socksplicer.c).  What the system calls do is a choice.  Bounds:  *)
(* the requests with their lengths, the calls of the splicer, descriptors. *)
(***************************************************************************)
EXTENDS Naturals, Sequences, FiniteSets, SequencesExt

CONSTANTS Requests,   (* names of requests, all to one socket               *)
          Length,     (* bytes in each                                      *)
          Workers, QueueSize,
          Pipes,      (* descriptors that pipes may get                     *)
          Splices     (* calls of the splicer                               *)

AdaptersParameters ==
  /\ "none" \notin Requests /\ IsFiniteSet(Workers)
  /\ Length \in Nat /\ QueueSize \in Nat /\ Splices \in Nat
  /\ Pipes \subseteq Nat /\ IsFiniteSet(Pipes)

VARIABLES
  queue,     (* the requests in data_mq                                     *)
  rest,      (* for each request the first byte that is not written         *)
  wk,        (* the request a consumer handles, or "none"                   *)
  wire,      (* the bytes written, <<request, number>>                      *)
  ended, failed, lost,   (* history: on_end, on_error, refused by the queue *)
  pips,      (* the descriptors of a call of the splicer, in order          *)
  at,        (* where it is: "idle", "first", "second"                      *)
  open,      (* the pipes that are open                                     *)
  given,     (* those that were returned to a caller                        *)
  left

writes == <<queue, rest, wk, wire, ended, failed, lost>>
splicer == <<pips, at, open, given, left>>
vars == <<writes, splicer>>

Init ==
  /\ queue = <<>> /\ rest = [r \in Requests |-> 0] /\ wk = [w \in Workers |-> "none"]
  /\ wire = <<>> /\ ended = {} /\ failed = {} /\ lost = {}
  /\ pips = <<>> /\ at = "idle" /\ open = {} /\ given = {} /\ left = Splices
-----------------------------------------------------------------------------
Submit(r) ==
  /\ rest[r] = 0 /\ Len(queue) < QueueSize
  /\ queue' = Append(queue, r) /\ rest' = [rest EXCEPT ![r] = 1]
  /\ UNCHANGED <<wk, wire, ended, failed, lost, splicer>>

Take(w) ==
  /\ wk[w] = "none" /\ queue # <<>>
  /\ wk' = [wk EXCEPT ![w] = Head(queue)] /\ queue' = Tail(queue)
  /\ UNCHANGED <<rest, wire, ended, failed, lost, splicer>>

Bytes(r, n) == [i \in 1 .. n |-> <<r, rest[r] + i - 1>>]

(* Mutant: what is written already is not taken off the request.           *)
ResumeAgain(w) ==
  /\ wk[w] # "none"
  /\ LET r == wk[w]
     IN  \/ \E n \in 0 .. Length - rest[r] + 1 :
              /\ wire' = wire \o Bytes(r, n)
              /\ rest' = IF n = Length - rest[r] + 1 THEN [rest EXCEPT ![r] = @ + n] ELSE rest
              /\ IF rest'[r] > Length THEN ended' = ended \cup {r} /\ UNCHANGED <<queue, lost>>
                 ELSE /\ UNCHANGED ended
                      /\ IF Len(queue) < QueueSize THEN queue' = Append(queue, r) /\ UNCHANGED lost
                         ELSE lost' = lost \cup {r} /\ UNCHANGED queue
              /\ UNCHANGED failed
         \/ ended' = ended \cup {r} /\ UNCHANGED <<wire, rest, queue, failed, lost>>
         \/ failed' = failed \cup {r} /\ UNCHANGED <<wire, rest, queue, ended, lost>>
  /\ wk' = [wk EXCEPT ![w] = "none"]
  /\ UNCHANGED splicer

(* resumew_resume_handle: write takes some bytes or all, would block,      *)
(* which counts as the end, or fails.  The rest goes back softly, and is   *)
(* lost without a word where the queue is full.                            *)
Resume(w) ==
  /\ wk[w] # "none"
  /\ LET r == wk[w]
     IN  \/ \E n \in 0 .. Length - rest[r] + 1 :
              /\ wire' = wire \o Bytes(r, n)
              /\ rest' = [rest EXCEPT ![r] = @ + n]
              /\ IF rest'[r] > Length THEN ended' = ended \cup {r} /\ UNCHANGED <<queue, lost>>
                 ELSE /\ UNCHANGED ended
                      /\ IF Len(queue) < QueueSize THEN queue' = Append(queue, r) /\ UNCHANGED lost
                         ELSE lost' = lost \cup {r} /\ UNCHANGED queue
              /\ UNCHANGED failed
         \/ ended' = ended \cup {r} /\ UNCHANGED <<wire, rest, queue, failed, lost>>
         \/ failed' = failed \cup {r} /\ UNCHANGED <<wire, rest, queue, ended, lost>>
  /\ wk' = [wk EXCEPT ![w] = "none"]
  /\ UNCHANGED splicer
-----------------------------------------------------------------------------
(* pipe takes the two lowest descriptors that are free, or fails.          *)
Pipe ==
  /\ at = "idle" /\ (left > 0 \/ pips # <<>>)
  /\ left' = IF pips = <<>> THEN left - 1 ELSE left
  /\ LET free == Pipes \ open
         a == CHOOSE x \in free : \A y \in free : x <= y
         b == CHOOSE x \in free \ {a} : \A y \in free \ {a} : x <= y
     IN  \/ /\ Cardinality(free) > 1
            /\ open' = open \cup {a, b} /\ pips' = pips \o <<a, b>>
            /\ at' = IF Len(pips') = 4 THEN "first" ELSE at
         \/ at' = "fail" /\ UNCHANGED <<open, pips>>
  /\ UNCHANGED <<writes, given>>

(* Bytes are spliced into the pipe and out again, in both directions.      *)
Spleis ==
  /\ at \in {"first", "second"}
  /\ \/ at = "first" /\ at' = "second" /\ UNCHANGED <<given, pips>>
     \/ at = "second" /\ at' = "idle" /\ given' = given \cup {pips} /\ pips' = <<>>
     \/ at' = "fail" /\ UNCHANGED <<given, pips>>
  /\ UNCHANGED <<writes, open, left>>

(* The label fail of sspli_splice_sock, which takes 0 for no descriptor.   *)
Fail ==
  /\ at = "fail"
  /\ open' = open \ {pips[i] : i \in {j \in 1 .. Len(pips) : pips[j] > 0}}
  /\ pips' = <<>> /\ at' = "idle"
  /\ UNCHANGED <<writes, given, left>>

(* sspli_close_sock, once for what was returned.                           *)
CloseSock ==
  /\ \E s \in given : given' = given \ {s} /\ open' = open \ ToSet(s)
  /\ UNCHANGED <<writes, pips, at, left>>

Next ==
  \/ \E r \in Requests : Submit(r)
  \/ \E w \in Workers : Take(w) \/ Resume(w)
  \/ Pipe \/ Spleis \/ Fail \/ CloseSock
Spec == Init /\ [][Next]_vars
-----------------------------------------------------------------------------
TypeOK ==
  /\ Len(queue) <= QueueSize /\ rest \in [Requests -> 0 .. Length + 1]
  /\ at \in {"idle", "first", "second", "fail"} /\ open \subseteq Pipes

(* A request is in one place: the queue, a consumer's hands, or at one of  *)
(* its three ends, of which it reaches one.                                *)
RequestsEndOnce ==
  \A r \in Requests :
    rest[r] > 0 =>
      Cardinality({i \in 1 .. Len(queue) : queue[i] = r}) + Cardinality({w \in Workers : wk[w] = r})
      + Cardinality({S \in {<<"end", ended>>, <<"error", failed>>, <<"full", lost>>} : r \in S[2]}) = 1

(* The bytes of each request are on the wire in order and once, however    *)
(* they mix with those of others.                                          *)
WrittenInOrder ==
  \A i \in 1 .. Len(wire) :
    LET r == wire[i][1]  number == wire[i][2]
    IN  /\ \A j \in 1 .. i - 1 : wire[j] # wire[i]
        /\ number = 1 \/ \E j \in 1 .. i - 1 : wire[j] = <<r, number - 1>>

(* A pipe is open only while a call works on it or a caller has it, but    *)
(* for the descriptor 0.                                                   *)
NoPipeLeaks == open \ {0} \subseteq ToSet(pips) \cup UNION {ToSet(s) : s \in given}
=============================================================================
