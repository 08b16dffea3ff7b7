------------------------------- MODULE Times -------------------------------
(***************************************************************************)
(* The time arithmetic of src/src/utils/timespec.c, which orders the       *)
(* timeouts of cevf, and of src/src/utils/eloop/os.h, which orders those   *)
(* of the event loop.  An accumulator goes through any sequence of calls,  *)
(* beside the exact value it should have, in nanoseconds.                  *)
(*                                                                         *)
(* A second has NSec nanoseconds, MSec milliseconds and USec microseconds, *)
(* as in the code but fewer.  Bound: the accumulator stays below MaxSec.   *)
(***************************************************************************)
EXTENDS Integers

CONSTANTS NSec, MSec, USec,  (* NSEC_PER_SEC, 1000, 1000000                 *)
          Operands,          (* the timespecs that are passed in            *)
          MaxSec

(* What an instance has to give.                                           *)
TimesParameters ==
  /\ {NSec, MSec, USec} \subseteq Nat \ {0} /\ MaxSec \in Nat
  /\ NSec % MSec = 0 /\ NSec % USec = 0
  /\ Operands \subseteq [sec : Int, nsec : Int]

VARIABLES acc,    (* a struct timespec, also one that is not normalised     *)
          exact,  (* history: its value by the reference below              *)
          arg     (* the operand it was last combined with                  *)

vars == <<acc, exact, arg>>

T(sec, nsec) == [sec |-> sec, nsec |-> nsec]
Value(t) == t.sec * NSec + t.nsec

(* C's division and remainder truncate towards 0.                          *)
Quot(a, b) == IF a < 0 THEN -((-a) \div b) ELSE a \div b
Rem(a, b) == a - b * Quot(a, b)

(* The two loops and the last step of timespec_normalise: whole seconds    *)
(* move towards 0 first, and then a negative rest borrows one more.        *)
Normalise(t) ==
  LET u == T(t.sec + Quot(t.nsec, NSec), Rem(t.nsec, NSec))
  IN  IF u.nsec < 0 THEN T(u.sec - 1, NSec + u.nsec) ELSE u

Add(t, u) ==
  LET a == Normalise(t)  b == Normalise(u)
  IN  Normalise(T(a.sec + b.sec, a.nsec + b.nsec))
Sub(t, u) ==
  LET a == Normalise(t)  b == Normalise(u)
  IN  Normalise(T(a.sec - b.sec, a.nsec - b.nsec))

Gt(t, u) ==
  LET a == Normalise(t)  b == Normalise(u)
  IN  a.sec > b.sec \/ (a.sec = b.sec /\ a.nsec > b.nsec)
Eq(t, u) == Normalise(t) = Normalise(u)
Ge(t, u) ==
  LET a == Normalise(t)  b == Normalise(u)
  IN  a.sec > b.sec \/ (a.sec = b.sec /\ a.nsec >= b.nsec)
Lt(t, u) ==
  LET a == Normalise(t)  b == Normalise(u)
  IN  a.sec < b.sec \/ (a.sec = b.sec /\ a.nsec < b.nsec)
Le(t, u) ==
  LET a == Normalise(t)  b == Normalise(u)
  IN  a.sec < b.sec \/ (a.sec = b.sec /\ a.nsec <= b.nsec)
Cmp(t, u) == IF Eq(t, u) THEN 0 ELSE IF Gt(t, u) THEN 1 ELSE -1

Clamp(t, min, max) == IF Gt(t, max) THEN max ELSE IF Lt(t, min) THEN min ELSE t
MinTime(t, u) == IF Le(t, u) THEN t ELSE u
MaxTime(t, u) == IF Ge(t, u) THEN t ELSE u
-----------------------------------------------------------------------------
(* timespec_mod: double the divisor until it is the larger, then subtract  *)
(* on the way back.  Signs are taken off first and restored last.          *)
Negative(t) == t.sec < 0 \/ t.nsec < 0
Flip(t) == T(-t.sec, -t.nsec)
Abs(t) == IF Negative(t) THEN Flip(t) ELSE t

Double(u) ==
  IF 2 * u.nsec > NSec THEN T(2 * u.sec + 1, 2 * u.nsec - NSec)
  ELSE T(2 * u.sec, 2 * u.nsec)

(* Mutant: an odd second is lost when the divisor is halved.               *)
HalveNoCarry(u) == T(u.sec \div 2, u.nsec \div 2)

Halve(u) == T(u.sec \div 2, (u.nsec + (u.sec % 2) * NSec) \div 2)

(* No operand needs more doublings than the bound of the accumulator.      *)
Rounds == 0 .. MaxSec * NSec
Doubled(u) == LET d[i \in Rounds] == IF i = 0 THEN u ELSE Double(d[i - 1]) IN d
Shifts(t, u) == CHOOSE i \in Rounds :
                  ~Ge(t, Doubled(u)[i]) /\ \A j \in 0 .. i - 1 : Ge(t, Doubled(u)[j])

Reduce(t, u) ==
  LET n == Shifts(t, u)
      s[i \in 0 .. n] ==
        LET before == IF i = n THEN [rest |-> t, div |-> Doubled(u)[n]]
                      ELSE [rest |-> s[i + 1].rest, div |-> Halve(s[i + 1].div)]
        IN  [before EXCEPT !.rest = IF Ge(@, before.div) THEN Sub(@, before.div) ELSE @]
  IN  s[0]

Mod(t, u) ==
  LET a == Normalise(t)  b == Normalise(u)
      r == Reduce(Abs(a), Abs(b))
      crossed == IF Negative(a) # Negative(b) /\ r.rest # T(0, 0)
                 THEN Sub(r.rest, r.div) ELSE r.rest
  IN  IF b = T(0, 0) THEN a
      ELSE IF Negative(a) THEN Flip(crossed) ELSE crossed
-----------------------------------------------------------------------------
FromMs(ms) == Normalise(T(Quot(ms, MSec), Rem(ms, MSec) * (NSec \div MSec)))
ToMs(t) == t.sec * MSec + Quot(t.nsec, NSec \div MSec)
FromTimeval(v) == Normalise(T(v.sec, v.usec * (NSec \div USec)))
ToTimeval(t) ==
  LET n == Normalise(t) IN [sec |-> n.sec, usec |-> n.nsec \div (NSec \div USec)]

(* os_reltime_before and os_reltime_sub; times of the clock are normalised.*)
ReltimeBefore(t, u) == t.sec < u.sec \/ (t.sec = u.sec /\ t.usec < u.usec)
ReltimeSub(t, u) ==
  IF t.usec < u.usec THEN [sec |-> t.sec - u.sec - 1, usec |-> t.usec - u.usec + USec]
  ELSE [sec |-> t.sec - u.sec, usec |-> t.usec - u.usec]
-----------------------------------------------------------------------------
Init == acc = T(0, 0) /\ exact = 0 /\ arg = T(0, 0)

Becomes(t, v, u) == acc' = t /\ exact' = v /\ arg' = u

(* The reference: floored modulo, and rounding down of whole units.        *)
Floored(v, w) == v - w * (IF w > 0 THEN v \div w ELSE (-v) \div (-w))
Down(v, unit) == v - (v % unit)

TimespecAdd(u) == Becomes(Add(acc, u), exact + Value(u), u)
TimespecSub(u) == Becomes(Sub(acc, u), exact - Value(u), u)
TimespecMod(u) == Becomes(Mod(acc, u), IF Value(u) = 0 THEN exact ELSE Floored(exact, Value(u)), u)
TimespecClamp(u) ==
  LET top == Add(u, T(1, 0))
  IN  Becomes(Clamp(acc, u, top),
              IF exact < Value(u) THEN Value(u)
              ELSE IF exact > Value(top) THEN Value(top) ELSE exact, u)
TimespecMinMax(u) ==
  \/ Becomes(MinTime(acc, u), IF exact < Value(u) THEN exact ELSE Value(u), u)
  \/ Becomes(MaxTime(acc, u), IF exact > Value(u) THEN exact ELSE Value(u), u)

(* Through another unit and back; to_ms rounds towards 0 what is not       *)
(* normalised, so it is given the sum with 0, which is.                    *)
ThroughMs == Becomes(FromMs(ToMs(Add(acc, T(0, 0)))), Down(exact, NSec \div MSec), arg)
ThroughTimeval == Becomes(FromTimeval(ToTimeval(acc)), Down(exact, NSec \div USec), arg)

Next ==
  /\ \/ \E u \in Operands : \/ TimespecAdd(u) \/ TimespecSub(u) \/ TimespecMod(u)
                            \/ TimespecClamp(u) \/ TimespecMinMax(u)
     \/ ThroughMs \/ ThroughTimeval
  /\ exact' \in -(MaxSec * NSec) .. MaxSec * NSec

Spec == Init /\ [][Next]_vars
-----------------------------------------------------------------------------
TypeOK == acc \in [sec : Int, nsec : Int] /\ exact \in Int /\ arg \in Operands \cup {T(0, 0)}

(* Whatever mixture of signs and of seconds in the nanoseconds goes in,    *)
(* sums, differences, remainders ("Returns the remainder left over after   *)
(* dividing ts1 by ts2", timespec.c), limits and conversions have the      *)
(* exact value.                                                            *)
ArithmeticExact == Value(acc) = exact

(* The six comparisons and timespec_cmp agree with the order of the values *)
(* (timespec_cmp orders the heaps of timeouts, cevf.c:617); os_reltime     *)
(* agrees with both on times of the clock.                                 *)
OrderAgrees ==
  LET d == Value(acc) - Value(arg)
      a == ToTimeval(acc)  b == ToTimeval(arg)
  IN  /\ Gt(acc, arg) <=> d > 0
      /\ Ge(acc, arg) <=> d >= 0
      /\ Lt(acc, arg) <=> d < 0
      /\ Le(acc, arg) <=> d <= 0
      /\ Eq(acc, arg) <=> d = 0
      /\ Cmp(acc, arg) = IF d > 0 THEN 1 ELSE IF d < 0 THEN -1 ELSE 0
      /\ ReltimeBefore(a, b) <=> Value(FromTimeval(a)) < Value(FromTimeval(b))
      /\ ReltimeSub(a, b) = ToTimeval(Sub(FromTimeval(a), FromTimeval(b)))
=============================================================================
