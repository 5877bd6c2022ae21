------------------------------ MODULE Float16 -------------------------------
(***************************************************************************)
(* Half precision numbers as the demo reads them (demo/float16.c and       *)
(* parse_fp16 of demo/util.c).  A number is a record: sign, exponent e     *)
(* (five bits) and fraction m (ten bits).                                  *)
(***************************************************************************)
EXTENDS Integers

Half == [neg : BOOLEAN, e : 0 .. 31, m : 0 .. 1023]

Zero16 == [neg |-> FALSE, e |-> 0, m |-> 0]
Infinity(neg) == [neg |-> neg, e |-> 31, m |-> 0]
NotANumber == [neg |-> FALSE, e |-> 31, m |-> 1023]

IsZero(x) == x.e = 0 /\ x.m = 0
IsInvalid(x) == x.e = 31
IsNan(x) == x.e = 31 /\ x.m > 0

Mantissa(x) == IF x.e = 0 THEN x.m ELSE x.m + 1024
Exponent(x) == IF x.e = 0 THEN 1 ELSE x.e

\* The loops that shift v until it has eleven bits; e keeps count.
ShiftDown(v, e) ==
  LET k == CHOOSE k \in 0 .. 31 : v \div 2 ^ k < 2048 /\ \A j \in 0 .. k - 1 : v \div 2 ^ j >= 2048
  IN [v |-> v \div 2 ^ k, e |-> e + k]

ShiftUp(v, e) ==
  LET k == CHOOSE k \in 0 .. 10 : v * 2 ^ k >= 1024 /\ \A j \in 0 .. k - 1 : v * 2 ^ j < 1024
  IN [v |-> v * 2 ^ k, e |-> e - k]

FromInt(i) ==
  LET down == ShiftDown(IF i < 0 THEN -i ELSE i, 25)
      up == ShiftUp(down.v, down.e)
  IN CASE i = 0 -> Zero16
       [] i # 0 /\ up.e >= 31 -> Infinity(i < 0)
       [] OTHER -> [neg |-> i < 0, e |-> up.e, m |-> up.v % 1024]

\* The remainder is not carried on.
RefinedBlindly(v, rem, m2, e) == LET up == ShiftUp(v, e) IN [v |-> up.v, e |-> up.e, rem |-> rem]

\* The division of mantissas, bit by bit, until v has eleven bits or the exponent is
\* zero.  The remainder has a bit shifted in for each of v.
Refined(v, rem, m2, e) ==
  LET go[s \in [v : 0 .. 2047, rem : 0 .. 2047, e : 0 .. 63]] ==
        IF s.v >= 1024 \/ s.e = 0 THEN s
        ELSE LET more == 2 * s.rem >= m2
             IN go[[v |-> 2 * s.v + (IF more THEN 1 ELSE 0),
                    rem |-> 2 * s.rem - (IF more THEN m2 ELSE 0), e |-> s.e - 1]]
  IN go[[v |-> v, rem |-> rem, e |-> e]]

Quotient16(neg, m1, m2, e) ==
  LET v == (m1 * 1024) \div m2
      start == ShiftDown(v, e)
      r == IF v < 1024 /\ e > 0 THEN Refined(v, (m1 * 1024) % m2, m2, e) ELSE start
  IN CASE r.e <= 0 -> [neg |-> neg, e |-> 0, m |-> (r.v \div 2 ^ (1 - r.e)) % 1024]
       [] r.e >= 31 -> Infinity(neg)
       [] OTHER -> [neg |-> neg, e |-> r.e, m |-> r.v % 1024]

Div16(a, b) ==
  LET neg == a.neg # b.neg
  IN IF IsNan(a) \/ IsNan(b) \/ (IsInvalid(a) /\ IsInvalid(b)) \/ (IsZero(a) /\ IsZero(b))
       THEN NotANumber
     ELSE IF IsInvalid(a) \/ IsZero(b) THEN Infinity(neg)
     ELSE IF IsInvalid(b) \/ IsZero(a) THEN Zero16
     ELSE Quotient16(neg, Mantissa(a), Mantissa(b), Exponent(a) - Exponent(b) + 15)

Neg16(x) == [x EXCEPT !.neg = ~@]

\* parse_fp16 of a number with the given digits, 10^places of which are decimals.
ParseFp16(neg, digits, denominator) ==
  LET x == Div16(FromInt(digits), FromInt(denominator))
  IN IF neg THEN Neg16(x) ELSE x
=============================================================================
