------------------------------- MODULE Uxlen -------------------------------
(***************************************************************************)
(* XLEN value arithmetic (machine/riscv/tcf/uxlen.h, which is not part of  *)
(* the sources at hand: these operators are written from spec section 4.1).*)
(*                                                                         *)
(* A value is a natural number below 2^WordBits, the register width of    *)
(* the model machine.  Every operation wraps modulo 2^WordBits; shift      *)
(* amounts are masked modulo the width, and the arithmetic right shift     *)
(* replicates the sign bit of the selected width.                          *)
(***************************************************************************)
EXTENDS Integers, Bitwise

CONSTANT WordBits

ASSUME WordBits \in 2..30

Modulus == 2^WordBits
UVal == 0..(Modulus - 1)

uxlen_from_u(x) == x % Modulus
uxlen_from_i(x) == x % Modulus          \* two's complement at the width
uxlen_add(a, b) == (a + b) % Modulus
uxlen_add_u(a, x) == (a + x) % Modulus
uxlen_add_i(a, x) == (a + x) % Modulus
uxlen_sub(a, b) == (a - b) % Modulus
uxlen_and(a, b) == a & b
uxlen_or(a, b) == a | b
uxlen_xor(a, b) == a ^^ b

\* Shift amounts are masked modulo the width.
ShiftAmount(n) == n % WordBits

uxlen_sll(a, n) == (a * 2^ShiftAmount(n)) % Modulus
uxlen_srl(a, n) == a \div 2^ShiftAmount(n)

\* The sign bit of the selected width is copied into the vacated bits.
uxlen_sra(a, n) ==
    LET k == ShiftAmount(n)
    IN  IF a >= Modulus \div 2
           THEN (a \div 2^k) + (Modulus - Modulus \div 2^k)
           ELSE a \div 2^k

\* Unsigned three-way compare.
uxlen_cmp(a, b) == IF a < b THEN -1 ELSE IF a = b THEN 0 ELSE 1

=============================================================================
