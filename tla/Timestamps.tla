----------------------------- MODULE Timestamps -----------------------------
(***************************************************************************)
(* The stored form of instants (formatTime and parseTime of                *)
(* storage/sqlite/db.go) and the order in which SQL compares it.           *)
(*                                                                         *)
(* An instant counts the smallest fractions of a second.  time.RFC3339Nano *)
(* writes the date and the second with a fixed width, then the fraction    *)
(* without its trailing zeros, then 'Z'.  Go has Base 10 and Places 9.     *)
(***************************************************************************)
EXTENDS Integers, Sequences, FiniteSetsExt

CONSTANTS
  Base,    \* digits are 0 .. Base - 1
  Places   \* digits of a full fraction

ASSUME TimestampsAssumption == Base \in Nat \ {0, 1} /\ Places \in Nat

\* Arithmetic, spelled out for proofs: what exponentiation is, as far as a
\* fraction reaches.
ASSUME PowersAssumption ==
  Base ^ 0 = 1 /\ \A n \in 0..(Places - 1) : Base ^ (n + 1) = Base * Base ^ n

TicksPerSecond == Base ^ Places

SecondOf(t) == t \div TicksPerSecond

\* The p-th digit of the fraction.
Digit(t, p) == (t \div Base ^ (Places - p)) % Base

\* The place of the last digit that is not zero, 0 if there is none.
LastDigit(t) == Max({0} \cup {p \in 1..Places : Digit(t, p) # 0})

formatTime(t) ==
  [second |-> SecondOf(t), fraction |-> [p \in 1..LastDigit(t) |-> Digit(t, p)]]

\* The number the digits of a fraction spell, read from the left.
ReadDigits(fraction) ==
  LET value[n \in 0..Len(fraction)] ==
        IF n = 0 THEN 0 ELSE value[n - 1] * Base + fraction[n]
  IN  value[Len(fraction)]

\* A fraction with fewer digits is scaled up.
parseTime(text) ==
  text.second * TicksPerSecond
    + ReadDigits(text.fraction) * Base ^ (Places - Len(text.fraction))

\* The characters after the second: 'Z' sorts after '.' and after every digit.
Characters(text) == Append(text.fraction, Base)

\* text1 <= text2 as SQLite's BINARY collation compares them.
TextAtMost(text1, text2) ==
  LET c1 == Characters(text1)
      c2 == Characters(text2)
  IN  \/ text1.second < text2.second
      \/ /\ text1.second = text2.second
         /\ \/ c1 = c2
            \/ \E p \in DOMAIN c1 \cap DOMAIN c2 :
                 c1[p] < c2[p] /\ \A q \in 1..(p - 1) : c1[q] = c2[q]
=============================================================================
