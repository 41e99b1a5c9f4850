---------------------------- MODULE M68kShiftRef ----------------------------
(***************************************************************************)
(* What a 68020 does for ASd, LSd, ROd and ROXd on a data register, as the *)
(* Motorola M68000 Family Programmer's Reference Manual defines it.  This  *)
(* is the reference the emitted AArch64 code is compared with; it is not   *)
(* code of this repository.                                                *)
(*                                                                         *)
(* Values are sets of bit positions (see HostBits).  w is the operand      *)
(* width in bits (8, 16, 32) and c the shift count: 1..8 for an immediate  *)
(* count, the count register modulo 64 otherwise.                          *)
(***************************************************************************)
EXTENDS HostBits

\* Condition-code bits of the 68k SR, numbered as in the code (SRB_C ...).
SRB_C == 0
SRB_V == 1
SRB_Z == 2
SRB_N == 3
SRB_X == 4
SR_NZVC == {SRB_N, SRB_Z, SRB_V, SRB_C}
SR_CCR == SR_NZVC \cup {SRB_X}
SR_NZV == {SRB_N, SRB_Z, SRB_V}
SR_XC == {SRB_X, SRB_C}

\* The operation classes of the register shift instructions, indexed by
\* bits 4..3 of the opcode: ASd, LSd, ROXd, ROd.
AS == 0
LS == 1
ROX == 2
RO == 3

\* The ring that ROXd rotates: the operand with X above its top bit.
XRing(v, w, x) == Trunc(v, w) \cup IF x THEN {w} ELSE {}

\* A left rotation by c of an m-bit ring, as a right rotation.
RolAmount(c, m) == (m - (c % m)) % m

\* Result value (low w bits) of shifting or rotating v by c.
RefResult(type, left, w, c, v, x) ==
    CASE type \in {AS, LS} /\ left -> Lsl(v, c, w)
      [] type = AS /\ ~left     -> Asr(v, IF c < w THEN c ELSE w, w)
      [] type = LS /\ ~left     -> Lsr(v, c, w)
      [] type = RO              -> Ror(v, IF left THEN RolAmount(c, w) ELSE c % w, w)
      [] type = ROX             -> Trunc(Ror(XRing(v, w, x),
                                    IF left THEN RolAmount(c, w + 1)
                                            ELSE c % (w + 1), w + 1), w)

\* The last bit shifted or rotated out (the new C), for a count c > 0.
RefCarry(type, left, w, c, v, x) ==
    CASE type \in {AS, LS} /\ left -> c <= w /\ (w - c) \in v
      [] type = AS /\ ~left     -> (IF c <= w THEN c - 1 ELSE w - 1) \in v
      [] type = LS /\ ~left     -> c <= w /\ (c - 1) \in v
      [] type = RO              -> (IF left THEN 0 ELSE w - 1)
                                     \in RefResult(type, left, w, c, v, x)
      [] type = ROX             -> w \in Ror(XRing(v, w, x),
                                    IF left THEN RolAmount(c, w + 1)
                                            ELSE c % (w + 1), w + 1)

\* ASL sets V when the most significant bit changes at any time during the
\* shift: the bits that pass through it are not all equal to it, or zeros
\* reach it after a nonzero operand has been shifted out.
RefOverflow(type, left, w, c, v) ==
    LET passing == {i \in Bits(w) : i >= w - 1 - c}
    IN  /\ type = AS /\ left /\ c > 0
        /\ ~(passing \cap v = {} \/ (c < w /\ passing \subseteq v))

\* The condition codes after the instruction.  A zero count leaves the
\* operand alone, clears C (ROXd: copies X into C) and leaves X unchanged;
\* ROd never touches X.
RefCcr(type, left, w, c, v, ccr) ==
    LET x   == SRB_X \in ccr
        res == RefResult(type, left, w, c, v, x)
        cy  == IF c = 0 THEN type = ROX /\ x
                        ELSE RefCarry(type, left, w, c, v, x)
        nx  == IF type = RO \/ c = 0 THEN x ELSE cy
    IN  (ccr \ SR_CCR)
          \cup {f \in SR_CCR :
                  \/ f = SRB_C /\ cy
                  \/ f = SRB_V /\ RefOverflow(type, left, w, c, v)
                  \/ f = SRB_Z /\ res = {}
                  \/ f = SRB_N /\ (w - 1) \in res
                  \/ f = SRB_X /\ nx}

-----------------------------------------------------------------------------
\* The bitfield opcodes on Dn, by bits 11..8: 1000 BFTST ... 1111 BFINS.
BFTST == 8
BFEXTU == 9
BFCHG == 10
BFEXTS == 11
BFCLR == 12
BFFFO == 13
BFSET == 14
BFINS == 15

\* Bit i, and the n-bit field from bit lo, of an instruction word.
Bit(x, i) == (x \div 2^i) % 2
ExtField(e, lo, n) == (e \div 2^lo) % 2^n

=============================================================================
