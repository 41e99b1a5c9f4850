------------------------------ MODULE HostBits ------------------------------
(***************************************************************************)
(* The AArch64 data-processing instructions that the line-E emitters of    *)
(* src/src/M68k_LINEE.c generate, as operators on host words.              *)
(*                                                                         *)
(* A word is the SET of the positions of its one bits: 0x80000001 is      *)
(* {0, 31}.  TLC integers are 32-bit signed, so 32- and 64-bit register   *)
(* contents cannot be integers; sets of positions keep every bit, and the  *)
(* shifts, rotates and bitfield moves become set comprehensions.  The     *)
(* width argument n (32 for a W register, 64 for an X register) says which *)
(* bits the instruction reads and writes: a W-form write clears bits      *)
(* 32..63, exactly as the hardware does.                                   *)
(*                                                                         *)
(* These operators stand for the host CPU and for the instruction encoders *)
(* of the external assembler (lsl, rorv, bfi, ...), which are not part of  *)
(* this repository.                                                        *)
(***************************************************************************)
EXTENDS Integers, FiniteSetsExt

\* The bit positions of an n-bit register.
Bits(n) == 0 .. (n - 1)

\* The word whose unsigned value is x (x < 2^31), and a 32-bit word built
\* from two 16-bit halves, so that test values can be written in hex.
FromNat(x) == {i \in 0 .. 30 : (x \div 2^i) % 2 = 1}
Hex32(hi, lo) == FromNat(lo) \cup {i + 16 : i \in FromNat(hi)}

\* The unsigned value of the low k bits of v; register shift amounts are
\* read this way (lslv/lsrv/asrv/rorv use the low 5 or 6 bits only).
LowValue(v, k) == MapThenSumSet(LAMBDA i : 2^i, v \cap Bits(k))

\* A 32-bit word as a signed integer (2^31 written so that TLC's integers
\* do not overflow).
SignedLong(v) == IF 31 \in v THEN (LowValue(v, 31) - 1073741824) - 1073741824
                 ELSE LowValue(v, 31)

\* The n-bit view of a register (what a W-form instruction reads).
Trunc(v, n) == v \cap Bits(n)

\* LSL, LSR, ASR and ROR by a constant or register amount s, n-bit form.
\* The variable-amount instructions take s modulo n; callers pass s % n.
Lsl(v, s, n) == {i + s : i \in Trunc(v, n)} \cap Bits(n)
Lsr(v, s, n) == {i - s : i \in Trunc(v, n) \cap s .. (n - 1)}
Asr(v, s, n) == Lsr(v, s, n) \cup
                   IF (n - 1) \in v THEN {i \in Bits(n) : i >= n - s} ELSE {}
Ror(v, s, n) == {(i - s) % n : i \in Trunc(v, n)}

\* SXTB/SXTH/SXTW (from = 8, 16, 32) and UXTB/UXTH into an n-bit register.
Sext(v, from, n) == Trunc(v, from) \cup
                       IF (from - 1) \in v THEN from .. (n - 1) ELSE {}
Uext(v, from) == Trunc(v, from)

\* BFI d, s, #lsb, #w: bits lsb..lsb+w-1 of d become bits 0..w-1 of s.
Bfi(d, s, lsb, w, n) ==
    (Trunc(d, n) \ (lsb .. (lsb + w - 1))) \cup
        ({i + lsb : i \in s \cap 0 .. (w - 1)} \cap Bits(n))

\* BFXIL d, s, #lsb, #w: bits 0..w-1 of d become bits lsb..lsb+w-1 of s.
Bfxil(d, s, lsb, w, n) ==
    (Trunc(d, n) \ (0 .. (w - 1))) \cup
        {i - lsb : i \in s \cap lsb .. (lsb + w - 1)}

\* The single bit selected by a logical immediate of width 1 rotated right
\* by ror, in an n-bit instruction (tst_immed(r, 1, ror), orr_immed(...,
\* 1, ror), bic_immed(..., 1, ror)): bit (n - ror) mod n.
ImmBit(ror, n) == (n - ror) % n

\* The N and Z flags left by CMN wzr, r, LSL #k, which the emitters use to
\* test the low (32 - k) bits of r as a signed value of that size.
CmnN(r, k) == (31 - k) \in r
CmnZ(r, k) == r \cap Bits(32 - k) = {}

\* ADD (W form): 32-bit addition of two words, modulo 2^32, computed in
\* 16-bit halves to stay within TLC's integers.
Val16(v) == LowValue(v, 16)
AddW(a, b) ==
    LET lo == Val16(a) + Val16(b)
        hi == (Val16({i - 16 : i \in a \cap 16 .. 31}) +
               Val16({i - 16 : i \in b \cap 16 .. 31}) + lo \div 65536) % 65536
    IN  Hex32(hi, lo % 65536)

=============================================================================
