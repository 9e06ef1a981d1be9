------------------------------- MODULE Words -------------------------------
(***************************************************************************)
(* Machine words.  The program computes with 64-bit two's-complement words; *)
(* here a word has 16 bits, so that TLC's own integers hold every product,  *)
(* and the shift count is masked to the width, as the processor does.       *)
(***************************************************************************)
EXTENDS Integers, Bitwise

WordBits == 16
Modulus  == 2 ^ WordBits
Word     == - (Modulus \div 2) .. (Modulus \div 2) - 1

Unsigned(x) == x % Modulus
Wrap(x) == LET u == Unsigned(x) IN IF u < Modulus \div 2 THEN u ELSE u - Modulus

BitAnd(a, b) == Wrap(Unsigned(a) & Unsigned(b))
BitOr(a, b)  == Wrap(Unsigned(a) | Unsigned(b))
Shl(a, b)    == Wrap(Unsigned(a) * 2 ^ (b % WordBits))
Sar(a, b)    == a \div 2 ^ (b % WordBits)

\* Division truncates towards zero, and the remainder has the dividend's sign.
AbsOf(x)   == IF x < 0 THEN - x ELSE x
Quot(a, b) == LET q == AbsOf(a) \div AbsOf(b) IN IF (a < 0) = (b < 0) THEN q ELSE - q
Rem(a, b)  == a - b * Quot(a, b)
\* The two divisions the processor traps.
Divides(a, b) == b # 0 /\ Quot(a, b) \in Word

Bool(p) == IF p THEN 1 ELSE 0
=============================================================================
