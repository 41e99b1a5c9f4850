----------------------------- MODULE LineEShift -----------------------------
(***************************************************************************)
(* The register forms of ASd, LSd, ROd and ROXd (opcode 1110 ccc d ss i tt *)
(* rrr) as translated by EMIT_ASL, EMIT_LSL, EMIT_ROL and EMIT_ROXL in     *)
(* src/src/M68k_LINEE.c, AArch64 build.  Each EMIT_* operator computes    *)
(* what the code it emits does to the destination register and to the     *)
(* condition-code register: the emitted instructions are followed one by  *)
(* one with the operators of HostBits.                                     *)
(*                                                                         *)
(* The state machine runs a sequence of such instructions twice, on the    *)
(* translated code (d, ccr) and on the 68k reference (rd, rccr).  Each    *)
(* step picks the update mask that M68K_GetSRMask may return: a subset of  *)
(* the flags the instruction sets (od_SRSets); the others become dead, and *)
(* a later instruction may only be translated if it does not need a dead  *)
(* flag.  That is the contract between the flag-liveness analysis and the  *)
(* emitters: a flag outside the mask may hold anything, a flag outside     *)
(* od_SRSets must keep its value.                                         *)
(***************************************************************************)
EXTENDS M68kShiftRef

CONSTANTS
    DRegs,          \* data register numbers used (0..7)
    Words,          \* initial values of those registers
    Opcodes,        \* the line-E shift/rotate opcodes that may be translated
    MaskChoices,    \* candidate update masks (intersected with od_SRSets)
    CcrInit,        \* initial condition codes
    MaxSteps        \* bound on the number of instructions run

ASSUME DRegs \subseteq 0 .. 7 /\ MaxSteps \in Nat

VARIABLES d, ccr, rd, rccr, dead, fault, steps
vars == <<d, ccr, rd, rccr, dead, fault, steps>>

-----------------------------------------------------------------------------
(* Decoding and the dispatch table.                                        *)

\* bits lo .. lo+n-1 of an opcode: (opcode >> lo) & (2^n - 1)
Field(opcode, lo, n) == (opcode \div 2^lo) % 2^n

\* od_SRNeeds and od_SRSets of the InsnTable rows of register shifts: ROd
\* needs nothing and sets NZVC, the others need X and set all of CCR.
SRNeeds(opcode) == IF Field(opcode, 3, 2) = RO THEN {} ELSE {SRB_X}
SRSets(opcode)  == IF Field(opcode, 3, 2) = RO THEN SR_NZVC ELSE SR_CCR

-----------------------------------------------------------------------------
(* Helpers outside this repository, with the meaning their names give.     *)

\* EMIT_GetNZ00: N and Z from the host flags, V and C cleared, for the
\* flags of the mask.  EMIT_GetNZxx: N and Z only, V and C left alone.
GetNZ00(cc, mask, n, z) ==
    (cc \ (mask \cap SR_NZVC)) \cup
        {f \in mask \cap {SRB_N, SRB_Z} : IF f = SRB_N THEN n ELSE z}
GetNZxx(cc, mask, n, z) ==
    (cc \ (mask \cap {SRB_N, SRB_Z})) \cup
        {f \in mask \cap {SRB_N, SRB_Z} : IF f = SRB_N THEN n ELSE z}

-----------------------------------------------------------------------------
(* ASd and LSd.                                                            *)

\* Writing the result back: mov_reg for .L, bfi(reg, tmp, 0, 8*size) else.
Insert(v, tmp, size) == Bfi(v, tmp, 0, 8 * size, 32)

\* Count in a register: 64-bit shift by the count (mod 64); C is the bit
\* shifted just past the operand, or for a right shift the bit of the
\* operand selected by the mask 1 << (count - 1).
ASL_RegShift(direction, size, v, cnt) ==
    IF direction = 1
    THEN LET tmp == Lsl(v, cnt, 64)
         IN  [tmp |-> tmp, reg |-> Insert(v, tmp, size), cbit |-> 8 * size \in tmp]
    ELSE LET ext == Sext(v, 8 * size, 64)
             tmp == Asr(ext, cnt, 64)
         IN  [tmp |-> tmp, reg |-> Insert(v, tmp, size),
              cbit |-> (cnt - 1) % 64 \in ext]

\* Immediate count 1..8: C is tested on the operand before the shift.  The
\* rotation of the width-1 logical immediate of tst_immed(reg, 1, rot):
\* bit 32-shift (left, .L), 16-shift (.W), 8-shift (.B), shift-1 (right).
\* Mutant: .W left tests one bit too high.
ImmCarryRot_Off(direction, size, shift) ==
    IF direction = 1
    THEN CASE size = 4 -> shift
           [] size = 2 -> 15 + shift
           [] size = 1 -> (24 + shift) % 32
    ELSE (33 - shift) % 32

ImmCarryRot(direction, size, shift) ==
    IF direction = 1
    THEN CASE size = 4 -> shift
           [] size = 2 -> 16 + shift
           [] size = 1 -> (24 + shift) % 32
    ELSE (33 - shift) % 32

\* Mutant: ASR of a byte or word without the sxtb/sxth before it.
ASL_ImmShift_NoSext(direction, size, v, shift) ==
    LET tmp == IF direction = 1 THEN Lsl(v, shift, 32) ELSE Asr(v, shift, 32)
    IN  [tmp |-> tmp, reg |-> Insert(v, tmp, size),
         cbit |-> ImmBit(ImmCarryRot(direction, size, shift), 32) \in v]

ASL_ImmShift(direction, size, v, shift) ==
    LET tmp == IF direction = 1 THEN Lsl(v, shift, 32)
                                ELSE Asr(Sext(v, 8 * size, 32), shift, 32)
    IN  [tmp |-> tmp, reg |-> Insert(v, tmp, size),
         cbit |-> ImmBit(ImmCarryRot(direction, size, shift), 32) \in v]

\* The flag block shared by EMIT_ASL and EMIT_LSL: clear the mask, set C
\* and X together if the tested bit was one, N and Z from a CMN of the
\* result at its size.
\* Mutant: N and Z from a CMN of the whole register at every size.
ShiftCcr_Cmn0(size, r, cc, update_mask) ==
    IF update_mask = {} THEN cc
    ELSE LET c1 == cc \ update_mask
             c2 == IF update_mask \cap SR_XC # {} /\ r.cbit
                   THEN c1 \cup SR_XC ELSE c1
         IN  c2 \cup {f \in update_mask \cap {SRB_Z, SRB_N} :
                        IF f = SRB_Z THEN CmnZ(r.reg, 0) ELSE CmnN(r.reg, 0)}

ShiftCcr(size, r, cc, update_mask) ==
    IF update_mask = {} THEN cc
    ELSE LET src == IF size = 4 THEN r.reg ELSE r.tmp
             k   == 32 - 8 * size
             c1  == cc \ update_mask
             c2  == IF update_mask \cap SR_XC # {} /\ r.cbit
                    THEN c1 \cup SR_XC ELSE c1
         IN  c2 \cup {f \in update_mask \cap {SRB_Z, SRB_N} :
                        IF f = SRB_Z THEN CmnZ(src, k) ELSE CmnN(src, k)}

EMIT_ASL(opcode, dval, sval, cc, update_mask) ==
    LET shift     == Field(opcode, 9, 3)
        size      == 2 ^ Field(opcode, 6, 2)
        regshift  == Field(opcode, 5, 1)
        direction == Field(opcode, 8, 1)
        r == IF regshift = 1
             THEN ASL_RegShift(direction, size, dval, LowValue(sval, 6))
             ELSE ASL_ImmShift(direction, size, dval, IF shift = 0 THEN 8 ELSE shift)
    IN  [reg |-> r.reg, ccr |-> ShiftCcr(size, r, cc, update_mask), fault |-> FALSE]

\* The flag block of EMIT_LSL is a copy of the one of EMIT_ASL.
LSL_Ccr(size, r, cc, update_mask) == ShiftCcr(size, r, cc, update_mask)

\* LSd differs from ASd only in the right shift: zero extension, and the
\* carry mask is applied with a 32-bit ANDS.
LSL_RegShift(direction, size, v, cnt) ==
    IF direction = 1
    THEN ASL_RegShift(direction, size, v, cnt)
    ELSE LET ext == Uext(v, 8 * size)
             tmp == Lsr(ext, cnt, 64)
         IN  [tmp |-> tmp, reg |-> Insert(v, tmp, size),
              cbit |-> (cnt - 1) % 64 \in Trunc(ext, 32)]

LSL_ImmShift(direction, size, v, shift) ==
    IF direction = 1
    THEN ASL_ImmShift(direction, size, v, shift)
    ELSE LET tmp == Lsr(Uext(v, 8 * size), shift, 32)
         IN  [tmp |-> tmp, reg |-> Insert(v, tmp, size),
              cbit |-> ImmBit(ImmCarryRot(direction, size, shift), 32) \in v]

EMIT_LSL(opcode, dval, sval, cc, update_mask) ==
    LET shift     == Field(opcode, 9, 3)
        size      == 2 ^ Field(opcode, 6, 2)
        regshift  == Field(opcode, 5, 1)
        direction == Field(opcode, 8, 1)
        r == IF regshift = 1
             THEN LSL_RegShift(direction, size, dval, LowValue(sval, 6))
             ELSE LSL_ImmShift(direction, size, dval, IF shift = 0 THEN 8 ELSE shift)
    IN  [reg |-> r.reg, ccr |-> LSL_Ccr(size, r, cc, update_mask), fault |-> FALSE]

-----------------------------------------------------------------------------
(* ROd.                                                                    *)

\* The operand repeated across the 32-bit temporary (bfi tmp, tmp, ...) so
\* that a 32-bit rotate rotates it at its own size.
Replicate(v, size) ==
    LET t == Trunc(v, 32)
        b == Bfi(t, t, 8, 8, 32)
    IN  CASE size = 4 -> t
          [] size = 2 -> Bfi(t, t, 16, 16, 32)
          [] size = 1 -> Bfi(b, b, 16, 16, 32)

\* The flags: N and Z by EMIT_GetNZxx after a CMN of the result at its
\* size; GetNZxx consumes them from the mask, so the EMIT_SetFlagsConditional
\* calls after it emit nothing.  Then C from the bit rotated into the lsb
\* (left) or msb (right) of the result.
ROL_Ccr(size, direction, reg, tmp, cc, update_mask) ==
    LET src == IF size = 4 THEN reg ELSE tmp
        k   == 32 - 8 * size
        c1  == GetNZxx(cc, update_mask, CmnN(src, k), CmnZ(src, k))
        c2  == CASE SRB_C \notin update_mask -> c1
                 [] direction = 0 -> Bfxil(c1, reg, 8 * size - 1, 1, 32)
                 [] direction = 1 -> Bfi(c1, reg, 0, 1, 32)
    IN  IF update_mask = {} THEN cc ELSE c2

\* A left rotation is a right rotation by 32 - count: neg and add #32 on a
\* copy of the count register, or 32 - shift for an immediate count.
EMIT_ROL(opcode, dval, sval, cc, update_mask) ==
    LET shift     == Field(opcode, 9, 3)
        size      == 2 ^ Field(opcode, 6, 2)
        direction == Field(opcode, 8, 1)
        imm       == IF shift = 0 THEN 8 ELSE shift
        amount    == IF Field(opcode, 5, 1) = 1
                     THEN IF direction = 1 THEN (32 - LowValue(sval, 6)) % 32
                                           ELSE LowValue(sval, 6) % 32
                     ELSE IF direction = 1 THEN 32 - imm ELSE imm
        tmp == Ror(Replicate(dval, size), amount, 32)
        reg == Insert(dval, tmp, size)
    IN  [reg |-> reg, ccr |-> ROL_Ccr(size, direction, reg, tmp, cc, update_mask),
         fault |-> FALSE]

-----------------------------------------------------------------------------
(* ROXd.  size is the raw size field (0, 1, 2) here, as in the code.       *)

\* Bit i of t set to b (bic_immed, then orr_immed unless tbz skips it).
WithBit(t, i, b) == IF b THEN t \cup {i} ELSE t \ {i}

\* Count in a register, a = count mod (w+1): the operand and X are laid out
\* twice in the temporary, which is then rotated (rorv/rorv64).
\* Mutant: the left .W ring copies 16 bits instead of 17, leaving X out.
ROXL_RegRing_NoX(dir, size, v, a, x) ==
    LET w  == 8 * 2 ^ size
        t  == IF size = 2 THEN Trunc(v, 32) ELSE Trunc(v, w)
        tx == IF x THEN t \cup {w} ELSE t
        l  == Lsl(tx, 31, 64)
    IN  CASE dir = 1 /\ size = 0 -> Ror(Bfi(tx, tx, 23, 9, 32), (32 - a) % 32, 32)
          [] dir = 1 /\ size = 1 -> Ror(Bfi(tx, tx, 48, 16, 64), (64 - a) % 64, 64)
          [] dir = 1 /\ size = 2 -> Ror(Bfxil(l, l, 31, 32, 64), (64 - a) % 64, 64)
          [] dir = 0 /\ size = 0 -> Ror(Bfi(tx, tx, 9, 9, 32), a, 32)
          [] dir = 0 /\ size = 1 -> Ror(Bfi(tx, tx, 17, 17, 64), a, 64)
          [] dir = 0 /\ size = 2 -> Ror(Bfi(tx, tx, 33, 31, 64), a, 64)

ROXL_RegRing(dir, size, v, a, x) ==
    LET w  == 8 * 2 ^ size
        t  == IF size = 2 THEN Trunc(v, 32) ELSE Trunc(v, w)
        tx == IF x THEN t \cup {w} ELSE t
        l  == Lsl(tx, 31, 64)
    IN  CASE dir = 1 /\ size = 0 -> Ror(Bfi(tx, tx, 23, 9, 32), (32 - a) % 32, 32)
          [] dir = 1 /\ size = 1 -> Ror(Bfi(tx, tx, 47, 17, 64), (64 - a) % 64, 64)
          [] dir = 1 /\ size = 2 -> Ror(Bfxil(l, l, 31, 32, 64), (64 - a) % 64, 64)
          [] dir = 0 /\ size = 0 -> Ror(Bfi(tx, tx, 9, 9, 32), a, 32)
          [] dir = 0 /\ size = 1 -> Ror(Bfi(tx, tx, 17, 17, 64), a, 64)
          [] dir = 0 /\ size = 2 -> Ror(Bfi(tx, tx, 33, 31, 64), a, 64)

\* Immediate count a in 1..8: X goes to bit 31 (63 for .L) for a left
\* rotation and to bit w for a right one.
ROXL_ImmRing(dir, size, v, a, x) ==
    LET t  == Trunc(v, 32)
        hi == WithBit(t, 31, x)
        l  == WithBit(Lsl(v, 31, 64), 63, x)
        r  == WithBit(Bfi(Lsl(v, 33, 64), v, 0, 32, 64), 32, x)
    IN  CASE dir = 1 /\ size = 0 -> Ror(Bfi(hi, hi, 23, 8, 32), 32 - a, 32)
          [] dir = 1 /\ size = 1 -> Ror(Bfi(hi, hi, 15, 16, 64), 32 - a, 32)
          [] dir = 1 /\ size = 2 -> Ror(Bfxil(l, l, 31, 32, 64), 64 - a, 64)
          [] dir = 0 /\ size = 0 -> Ror(Bfi(WithBit(t, 8, x), WithBit(t, 8, x), 9, 9, 32), a, 32)
          [] dir = 0 /\ size = 1 -> Ror(Bfi(WithBit(t, 16, x), WithBit(t, 16, x), 17, 17, 64), a, 64)
          [] dir = 0 /\ size = 2 -> Ror(r, a, 64)

\* N, Z (and V, C cleared) by EMIT_GetNZ00 after a CMN of the result; then
\* C from bit cpos of the rotated temporary, and X copied from C.
\* Mutant: X written to bit SR_X (16) instead of bit SRB_X (4).
ROXL_Ccr_SRX(size, tmp, cpos, cc, update_mask) ==
    LET k  == 32 - 8 * 2 ^ size
        c1 == IF update_mask \cap SR_NZV # {}
              THEN GetNZ00(cc, update_mask, CmnN(tmp, k), CmnZ(tmp, k)) ELSE cc
        c2 == Bfxil(c1, tmp, cpos, 1, 64)
    IN  CASE update_mask \cap SR_XC = {} -> c1
          [] SRB_X \in update_mask -> Bfi(c2, c2, 16, 1, 64)
          [] OTHER -> c2

\* Mutant: N and Z from a CMN of the temporary without the size shift.
ROXL_Ccr_Cmn0(size, tmp, cpos, cc, update_mask) ==
    LET c1 == IF update_mask \cap SR_NZV # {}
              THEN GetNZ00(cc, update_mask, CmnN(tmp, 0), CmnZ(tmp, 0)) ELSE cc
        c2 == Bfxil(c1, tmp, cpos, 1, 64)
    IN  CASE update_mask \cap SR_XC = {} -> c1
          [] SRB_X \in update_mask -> Bfi(c2, c2, SRB_X, 1, 64)
          [] OTHER -> c2

ROXL_Ccr(size, tmp, cpos, cc, update_mask) ==
    LET k  == 32 - 8 * 2 ^ size
        c1 == IF update_mask \cap SR_NZV # {}
              THEN GetNZ00(cc, update_mask, CmnN(tmp, k), CmnZ(tmp, k)) ELSE cc
        c2 == Bfxil(c1, tmp, cpos, 1, 64)
    IN  CASE update_mask \cap SR_XC = {} -> c1
          [] SRB_X \in update_mask -> Bfi(c2, c2, SRB_X, 1, 64)
          [] OTHER -> c2

\* The immediate-count path ends with its own copy of the flag block.
ROXL_ImmCcr(size, tmp, cpos, cc, update_mask) == ROXL_Ccr(size, tmp, cpos, cc, update_mask)

\* Register count = 0 mod 64: the branch over the rotation is not taken;
\* N, Z, V, C as for the operand, C := X if X is in the mask, then the
\* placeholder word that is patched into a branch past the rotation only
\* when X or C is in the mask.  Unpatched, the host executes word 0, which
\* is an undefined instruction.
ROXL_ZeroCount(size, dval, cc, update_mask) ==
    LET k  == 32 - 8 * 2 ^ size
        c1 == IF update_mask \cap SR_NZV # {}
              THEN GetNZ00(cc, update_mask, CmnN(dval, k), CmnZ(dval, k)) ELSE cc
    IN  [reg   |-> dval,
         ccr   |-> IF SRB_X \in update_mask THEN Bfxil(c1, c1, SRB_X, 1, 64) ELSE c1,
         fault |-> update_mask \cap SR_XC = {}]

EMIT_ROXL(opcode, dval, sval, cc, update_mask) ==
    LET dir    == Field(opcode, 8, 1)
        size   == Field(opcode, 6, 2)
        w      == 8 * 2 ^ size
        x      == SRB_X \in cc
        cnt    == LowValue(sval, 6)
        shift  == Field(opcode, 9, 3)
        amount == IF shift = 0 THEN 8 ELSE shift
        tmp    == IF Field(opcode, 5, 1) = 1
                  THEN ROXL_RegRing(dir, size, dval, cnt % (w + 1), x)
                  ELSE ROXL_ImmRing(dir, size, dval, amount, x)
        cpos   == CASE Field(opcode, 5, 1) = 1 -> w
                    [] dir = 1 -> IF size = 2 THEN 63 ELSE 31
                    [] dir = 0 -> w
    IN  IF Field(opcode, 5, 1) = 1 /\ cnt = 0
        THEN ROXL_ZeroCount(size, dval, cc, update_mask)
        ELSE [reg   |-> Insert(dval, tmp, 2 ^ size),
              ccr   |-> IF Field(opcode, 5, 1) = 1
                        THEN ROXL_Ccr(size, tmp, cpos, cc, update_mask)
                        ELSE ROXL_ImmCcr(size, tmp, cpos, cc, update_mask),
              fault |-> FALSE]

-----------------------------------------------------------------------------
(* Running translated instructions beside the reference.                   *)

\* The 68k executes the instruction: count 1..8 from the opcode, or the
\* count register modulo 64.
RefExec(opcode) ==
    LET dn    == Field(opcode, 0, 3)
        shift == Field(opcode, 9, 3)
        type  == Field(opcode, 3, 2)
        left  == Field(opcode, 8, 1) = 1
        w     == 8 * 2 ^ Field(opcode, 6, 2)
        c     == IF Field(opcode, 5, 1) = 1 THEN LowValue(rd[shift], 6)
                 ELSE IF shift = 0 THEN 8 ELSE shift
    IN  /\ rd' = [rd EXCEPT ![dn] = (rd[dn] \ Bits(w)) \cup
                     RefResult(type, left, w, c, rd[dn], SRB_X \in rccr)]
        /\ rccr' = RefCcr(type, left, w, c, rd[dn], rccr)

Init ==
    /\ d \in [DRegs -> Words]
    /\ ccr \in CcrInit
    /\ rd = d
    /\ rccr = ccr
    /\ dead = {}
    /\ fault = FALSE
    /\ steps = 0

\* The emitter of the opcode's InsnTable row (od_Emit), called by EMIT_lineE.
Dispatch(opcode, dval, sval, cc, update_mask) ==
    CASE Field(opcode, 3, 2) = AS  -> EMIT_ASL(opcode, dval, sval, cc, update_mask)
      [] Field(opcode, 3, 2) = LS  -> EMIT_LSL(opcode, dval, sval, cc, update_mask)
      [] Field(opcode, 3, 2) = ROX -> EMIT_ROXL(opcode, dval, sval, cc, update_mask)
      [] Field(opcode, 3, 2) = RO  -> EMIT_ROL(opcode, dval, sval, cc, update_mask)

\* The emitter's result r applied: the register, host flags and fault it
\* leaves; the flags of sets outside mask become dead.
Apply(dn, sets, mask, r) ==
    /\ d' = [d EXCEPT ![dn] = r.reg]
    /\ ccr' = r.ccr
    /\ fault' = r.fault
    /\ dead' = (dead \ sets) \cup (sets \ mask)

\* One instruction translated and run.  Behaviours end when the
\* host faults or after a block of MaxSteps instructions.  The instruction may not
\* need a dead flag; the update mask is a subset of od_SRSets, and the
\* flags it leaves out become dead until an instruction sets them again.
Exec(opcode) ==
    LET dn   == Field(opcode, 0, 3)
        sets == SRSets(opcode)
    IN  /\ ~fault
        /\ steps < MaxSteps
        /\ SRNeeds(opcode) \cap dead = {}
        /\ \E m \in MaskChoices :
              Apply(dn, sets, m \cap sets,
                    Dispatch(opcode, d[dn], d[Field(opcode, 9, 3)], ccr, m \cap sets))
        /\ RefExec(opcode)
        /\ steps' = steps + 1

TranslateASL  == \E op \in Opcodes : Field(op, 3, 2) = AS  /\ Exec(op)
TranslateLSL  == \E op \in Opcodes : Field(op, 3, 2) = LS  /\ Exec(op)
TranslateROXL == \E op \in Opcodes : Field(op, 3, 2) = ROX /\ Exec(op)
TranslateROL  == \E op \in Opcodes : Field(op, 3, 2) = RO  /\ Exec(op)

Next == TranslateASL \/ TranslateLSL \/ TranslateROXL \/ TranslateROL

Spec == Init /\ [][Next]_vars

-----------------------------------------------------------------------------
(* Properties.                                                             *)

TypeOK ==
    /\ d \in [DRegs -> SUBSET Bits(32)]
    /\ rd \in [DRegs -> SUBSET Bits(32)]
    /\ ccr \subseteq SR_CCR /\ rccr \subseteq SR_CCR
    /\ dead \subseteq SR_CCR
    /\ fault \in BOOLEAN
    /\ steps \in 0 .. MaxSteps

\* After every translated instruction, every data register holds what the
\* 68k would hold: the shifted value at the operand size, and the bits
\* above it untouched (bfi/mov_reg write-back of EMIT_ASL ... EMIT_ROXL).
RegistersAgree == d = rd

\* Every live N and Z flag equals the 68k's (the CMN of the result at its
\* size and the conditional ORs or EMIT_GetNZ00/GetNZxx that follow it).
NZAgree == \A f \in {SRB_N, SRB_Z} \ dead : (f \in ccr) <=> (f \in rccr)

\* Every live C and X flag equals the 68k's: the last bit shifted out, as
\* tested by tst_immed / ands or extracted by bfxil, and X unchanged where
\* the 68k leaves it (zero count, ROd).
CarryAgree == \A f \in SR_XC \ dead : (f \in ccr) <=> (f \in rccr)

\* A live V flag equals the 68k's: set by ASL when the sign changes during
\* the shift, cleared by every other shift and rotate.
OverflowAgree == SRB_V \notin dead => ((SRB_V \in ccr) <=> (SRB_V \in rccr))

\* The translated code never runs into an unpatched placeholder word (the
\* zero-count path of EMIT_ROXL with a register count).
HostNeverFaults == ~fault

=============================================================================
