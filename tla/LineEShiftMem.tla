---------------------------- MODULE LineEShiftMem ----------------------------
(***************************************************************************)
(* The memory forms ASd, LSd, ROXd and ROd .W <ea> (shift by one, opcode   *)
(* 1110 0tt d 11 mmm rrr) as translated by EMIT_ASL_mem, EMIT_LSL_mem,     *)
(* EMIT_ROXL_mem and EMIT_ROL_mem in src/src/M68k_LINEE.c, AArch64 build. *)
(*                                                                         *)
(* Memory is a function from a few even addresses to 16-bit words (sets   *)
(* of bit positions); a is the address register A<reg> used by the modes *)
(* (An), (An)+ and -(An).  The effective address of the other modes is    *)
(* computed by EMIT_LoadFromEffectiveAddress, outside this repository, and *)
(* is any address of Addrs here.  For (An)+ and -(An) the emitters update  *)
(* An themselves, with the post-index store and the pre-index load; the   *)
(* resolver hands them the register holding An.                           *)
(*                                                                         *)
(* As in LineEShift, the translated code (mem, a, ccr) runs beside the 68k *)
(* (rmem, ra, rccr) under the update-mask contract.                        *)
(***************************************************************************)
EXTENDS M68kShiftRef

CONSTANTS
    Addrs,          \* word addresses that exist
    Words,          \* initial values of the memory words
    AInit,          \* initial values of the address register
    Opcodes,        \* the memory shift opcodes that may be translated
    MaskChoices,    \* candidate update masks (intersected with od_SRSets)
    CcrInit,        \* initial condition codes
    MaxSteps        \* bound on the number of instructions run

ASSUME AInit \subseteq Addrs /\ MaxSteps \in Nat

VARIABLES mem, a, ccr, rmem, ra, rccr, dead, steps
vars == <<mem, a, ccr, rmem, ra, rccr, dead, steps>>

-----------------------------------------------------------------------------
(* Decoding and the dispatch table.                                        *)

\* bits lo .. lo+n-1 of an opcode: (opcode >> lo) & (2^n - 1)
Field(opcode, lo, n) == (opcode \div 2^lo) % 2^n

\* od_SRNeeds and od_SRSets of the InsnTable rows 00320 ... 03771: ROd
\* needs nothing and sets NZVC, the others need X and set all of CCR.
SRNeeds(opcode) == IF Field(opcode, 9, 2) = RO THEN {} ELSE {SRB_X}
SRSets(opcode)  == IF Field(opcode, 9, 2) = RO THEN SR_NZVC ELSE SR_CCR

\* The address the emitted load reads: the pre-index load of -(An)
\* subtracts 2 first; every other mode reads at the address in dest.
LoadAddr(mode, an, ea) ==
    CASE mode = 4 -> an - 2
      [] mode \in {2, 3} -> an
      [] OTHER -> ea

\* The addresses the external resolver may compute: the modes that do not
\* use An directly take any address, the others ignore it.
EAChoices(mode, an) == IF mode \in 2 .. 4 THEN {an} ELSE Addrs

\* Mutant: the store of (An)+ without post-index.
AnAfter_NoPost(mode, an) == IF mode = 4 THEN an - 2 ELSE an

\* An after the instruction: written back by the pre-index load of -(An)
\* and by the post-index store of (An)+.
AnAfter(mode, an) ==
    CASE mode = 4 -> an - 2
      [] mode = 3 -> an + 2
      [] OTHER -> an

\* EMIT_GetNZ00 (outside this repository): N and Z from the host flags, V
\* and C cleared, for the flags of the mask.
GetNZ00(cc, mask, n, z) ==
    (cc \ (mask \cap SR_NZVC)) \cup
        {f \in mask \cap {SRB_N, SRB_Z} : IF f = SRB_N THEN n ELSE z}

\* Bit i of t set to b.
WithBit(t, i, b) == IF b THEN t \cup {i} ELSE t \ {i}

-----------------------------------------------------------------------------
(* The emitters.  Each returns the word stored and the new CCR.            *)

\* Mutant: N and Z from a CMN of the unshifted temporary.
MemShiftCcr_Cmn0(tmp, cbit, cc, mask) ==
    IF mask = {} THEN cc
    ELSE LET c1 == cc \ mask
             c2 == IF mask \cap SR_XC # {} /\ cbit THEN c1 \cup SR_XC ELSE c1
         IN  c2 \cup {f \in mask \cap {SRB_Z, SRB_N} :
                        IF f = SRB_Z THEN CmnZ(tmp, 0) ELSE CmnN(tmp, 0)}

\* Mutant: the bic constant built without SR_V.
MemShiftCcr_KeepV(tmp, cbit, cc, mask) ==
    IF mask = {} THEN cc
    ELSE LET c1 == cc \ (mask \ {SRB_V})
             c2 == IF mask \cap SR_XC # {} /\ cbit THEN c1 \cup SR_XC ELSE c1
         IN  c2 \cup {f \in mask \cap {SRB_Z, SRB_N} :
                        IF f = SRB_Z THEN CmnZ(tmp, 16) ELSE CmnN(tmp, 16)}

\* ASd/LSd flags: the mask cleared (bic), C and X both set when the tested
\* bit was one, then N and Z from a CMN of the result shifted left by 16.
\* V is only ever cleared.
MemShiftCcr(tmp, cbit, cc, mask) ==
    IF mask = {} THEN cc
    ELSE LET c1 == cc \ mask
             c2 == IF mask \cap SR_XC # {} /\ cbit THEN c1 \cup SR_XC ELSE c1
         IN  c2 \cup {f \in mask \cap {SRB_Z, SRB_N} :
                        IF f = SRB_Z THEN CmnZ(tmp, 16) ELSE CmnN(tmp, 16)}

\* ldrsh: the word sign-extended; C from bit 15 (left) or bit 0 (right);
\* lsl or asr by one.
EMIT_ASL_mem(opcode, v, cc, mask) ==
    LET left == Field(opcode, 8, 1) = 1
        tmp  == Sext(v, 16, 32)
        res  == IF left THEN Lsl(tmp, 1, 32) ELSE Asr(tmp, 1, 32)
        cbit == IF left THEN 15 \in tmp ELSE 0 \in tmp
    IN  [word |-> Trunc(res, 16), ccr |-> MemShiftCcr(res, cbit, cc, mask)]

\* Mutant: the result stored with a 32-bit str instead of strh.
EMIT_LSL_mem_Str32(opcode, v, cc, mask) ==
    LET left == Field(opcode, 8, 1) = 1
        tmp  == Trunc(v, 16)
        res  == IF left THEN Lsl(tmp, 1, 32) ELSE Lsr(tmp, 1, 32)
        cbit == IF left THEN 15 \in tmp ELSE 0 \in tmp
    IN  [word |-> res, ccr |-> MemShiftCcr(res, cbit, cc, mask)]

\* ldrh: the word zero-extended; lsl or lsr by one.
EMIT_LSL_mem(opcode, v, cc, mask) ==
    LET left == Field(opcode, 8, 1) = 1
        tmp  == Trunc(v, 16)
        res  == IF left THEN Lsl(tmp, 1, 32) ELSE Lsr(tmp, 1, 32)
        cbit == IF left THEN 15 \in tmp ELSE 0 \in tmp
    IN  [word |-> Trunc(res, 16), ccr |-> MemShiftCcr(res, cbit, cc, mask)]

\* Mutant: C of the left rotation extracted from bit 15.
EMIT_ROXL_mem_Bit15(opcode, v, cc, mask) ==
    LET left == Field(opcode, 8, 1) = 1
        x    == SRB_X \in cc
        tmp  == IF left THEN Ror(WithBit(Trunc(v, 16), 31, x), 31, 32)
                        ELSE Ror(WithBit(Trunc(v, 16), 16, x), 1, 32)
        cbit == IF left THEN 15 \in tmp ELSE 31 \in tmp
        c1   == IF mask \cap {SRB_Z, SRB_N} # {}
                THEN GetNZ00(cc, mask, CmnN(tmp, 16), CmnZ(tmp, 16)) ELSE cc
        c2   == IF mask \cap SR_XC = {} THEN c1 ELSE WithBit(c1, SRB_C, cbit)
        c3   == IF SRB_X \in mask /\ mask \cap SR_XC # {}
                THEN WithBit(c2, SRB_X, cbit) ELSE c2
    IN  [word |-> Trunc(tmp, 16), ccr |-> IF mask = {} THEN cc ELSE c3]

\* X (tested in cc before anything is changed) ORed into bit 31 (left) or
\* bit 16 (right), then a 32-bit rotation by 31 or 1.  Flags: EMIT_GetNZ00
\* only if N or Z is in the mask, C by bfxil from bit 16 or 31, X := C.
EMIT_ROXL_mem(opcode, v, cc, mask) ==
    LET left == Field(opcode, 8, 1) = 1
        x    == SRB_X \in cc
        tmp  == IF left THEN Ror(WithBit(Trunc(v, 16), 31, x), 31, 32)
                        ELSE Ror(WithBit(Trunc(v, 16), 16, x), 1, 32)
        cbit == IF left THEN 16 \in tmp ELSE 31 \in tmp
        c1   == IF mask \cap {SRB_Z, SRB_N} # {}
                THEN GetNZ00(cc, mask, CmnN(tmp, 16), CmnZ(tmp, 16)) ELSE cc
        c2   == IF mask \cap SR_XC = {} THEN c1 ELSE WithBit(c1, SRB_C, cbit)
        c3   == IF SRB_X \in mask /\ mask \cap SR_XC # {}
                THEN WithBit(c2, SRB_X, cbit) ELSE c2
    IN  [word |-> Trunc(tmp, 16), ccr |-> IF mask = {} THEN cc ELSE c3]

\* Mutant: the word not replicated before the 32-bit rotation.
EMIT_ROL_mem_NoRepl(opcode, v, cc, mask) ==
    LET left == Field(opcode, 8, 1) = 1
        t    == Trunc(v, 16)
        res  == Ror(t, IF left THEN 31 ELSE 1, 32)
        c1   == (cc \ mask) \cup
                  {f \in mask \cap {SRB_Z, SRB_N} :
                     IF f = SRB_Z THEN CmnZ(res, 16) ELSE CmnN(res, 16)}
        tbit == IF left THEN 0 \in mask ELSE 31 \in mask
        c2   == IF mask \cap SR_XC # {} /\ tbit THEN c1 \cup SR_XC ELSE c1
    IN  [word |-> Trunc(res, 16), ccr |-> IF mask = {} THEN cc ELSE c2]

\* Mutant: the CMN emitted before the rotation instead of after it.
EMIT_ROL_mem_CmnFirst(opcode, v, cc, mask) ==
    LET left == Field(opcode, 8, 1) = 1
        t    == Trunc(v, 16)
        res  == Ror(Bfi(t, t, 16, 16, 32), IF left THEN 31 ELSE 1, 32)
        c1   == (cc \ mask) \cup
                  {f \in mask \cap {SRB_Z, SRB_N} :
                     IF f = SRB_Z THEN CmnZ(t, 16) ELSE CmnN(t, 16)}
        tbit == IF left THEN 0 \in mask ELSE 31 \in mask
        c2   == IF mask \cap SR_XC # {} /\ tbit THEN c1 \cup SR_XC ELSE c1
    IN  [word |-> Trunc(res, 16), ccr |-> IF mask = {} THEN cc ELSE c2]

\* The word replicated into the upper half (bfi tmp, tmp, 16, 16), rotated
\* by 31 (left) or 1 (right).  Flags: CMN of the result if N or Z is in the
\* mask, then tmp is overwritten with the mask (mov_immed_u16) and used for
\* the bic; the C/X test that follows reads that tmp: bit 0 (left) or bit 31
\* (right) of the mask, and sets both C and X.
EMIT_ROL_mem(opcode, v, cc, mask) ==
    LET left == Field(opcode, 8, 1) = 1
        t    == Trunc(v, 16)
        res  == Ror(Bfi(t, t, 16, 16, 32), IF left THEN 31 ELSE 1, 32)
        c1   == (cc \ mask) \cup
                  {f \in mask \cap {SRB_Z, SRB_N} :
                     IF f = SRB_Z THEN CmnZ(res, 16) ELSE CmnN(res, 16)}
        tbit == IF left THEN 0 \in mask ELSE 31 \in mask
        c2   == IF mask \cap SR_XC # {} /\ tbit THEN c1 \cup SR_XC ELSE c1
    IN  [word |-> Trunc(res, 16), ccr |-> IF mask = {} THEN cc ELSE c2]

\* The emitter of the opcode's InsnTable row, called by EMIT_lineE.
Dispatch(opcode, v, cc, mask) ==
    CASE Field(opcode, 9, 2) = AS  -> EMIT_ASL_mem(opcode, v, cc, mask)
      [] Field(opcode, 9, 2) = LS  -> EMIT_LSL_mem(opcode, v, cc, mask)
      [] Field(opcode, 9, 2) = ROX -> EMIT_ROXL_mem(opcode, v, cc, mask)
      [] Field(opcode, 9, 2) = RO  -> EMIT_ROL_mem(opcode, v, cc, mask)

-----------------------------------------------------------------------------
(* Running translated instructions beside the reference.                   *)

\* The 68k addressing of a word operand: -(An) decrements An by 2 before
\* the access, (An)+ increments it by 2 after; (An) uses An; the other
\* modes use the address ea.
RefAddr(mode, an, ea) == IF mode = 4 THEN an - 2 ELSE IF mode \in {2, 3} THEN an ELSE ea
RefAn(mode, an) == an + (IF mode = 3 THEN 2 ELSE IF mode = 4 THEN -2 ELSE 0)

\* The 68k: the word at the effective address shifted by one at size 16.
RefExec(opcode, ea) ==
    LET mode == Field(opcode, 3, 3)
        type == Field(opcode, 9, 2)
        left == Field(opcode, 8, 1) = 1
        addr == RefAddr(mode, ra, ea)
    IN  /\ rmem' = [rmem EXCEPT ![addr] =
                      RefResult(type, left, 16, 1, rmem[addr], SRB_X \in rccr)]
        /\ ra' = RefAn(mode, ra)
        /\ rccr' = RefCcr(type, left, 16, 1, rmem[addr], rccr)

Init ==
    /\ mem \in [Addrs -> Words]
    /\ a \in AInit
    /\ ccr \in CcrInit
    /\ rmem = mem
    /\ ra = a
    /\ rccr = ccr
    /\ dead = {}
    /\ steps = 0

\* The emitter's result r applied: the word stored back at addr and the
\* host flags it leaves; the flags of sets outside mask become dead.
Apply(addr, sets, mask, r) ==
    /\ mem' = [mem EXCEPT ![addr] = r.word]
    /\ ccr' = r.ccr
    /\ dead' = (dead \ sets) \cup (sets \ mask)

\* One instruction translated and run, on a word that exists.
Exec(opcode) ==
    LET mode == Field(opcode, 3, 3)
        sets == SRSets(opcode)
    IN  /\ steps < MaxSteps
        /\ SRNeeds(opcode) \cap dead = {}
        /\ \E ea \in EAChoices(mode, a), m \in MaskChoices :
              LET addr == LoadAddr(mode, a, ea)
              IN  /\ addr \in Addrs
                  /\ Apply(addr, sets, m \cap sets,
                           Dispatch(opcode, mem[addr], ccr, m \cap sets))
                  /\ a' = AnAfter(mode, a)
                  /\ RefExec(opcode, ea)
        /\ steps' = steps + 1

TranslateASLmem  == \E op \in Opcodes : Field(op, 9, 2) = AS  /\ Exec(op)
TranslateLSLmem  == \E op \in Opcodes : Field(op, 9, 2) = LS  /\ Exec(op)
TranslateROXLmem == \E op \in Opcodes : Field(op, 9, 2) = ROX /\ Exec(op)
TranslateROLmem  == \E op \in Opcodes : Field(op, 9, 2) = RO  /\ Exec(op)

Next == TranslateASLmem \/ TranslateLSLmem \/ TranslateROXLmem \/ TranslateROLmem

Spec == Init /\ [][Next]_vars

-----------------------------------------------------------------------------
(* Properties.                                                             *)

TypeOK ==
    /\ mem \in [Addrs -> SUBSET Bits(16)]
    /\ rmem \in [Addrs -> SUBSET Bits(16)]
    /\ a \in Int /\ ra \in Int
    /\ ccr \subseteq SR_CCR /\ rccr \subseteq SR_CCR
    /\ dead \subseteq SR_CCR
    /\ steps \in 0 .. MaxSteps

\* After every instruction memory and the address register hold what the
\* 68k leaves: the word shifted in place, at the address the mode selects,
\* and An moved by the pre-index load of -(An) / post-index store of (An)+.
MemoryAgrees == mem = rmem /\ a = ra

\* Every live N and Z flag equals the 68k's (CMN of the result << 16).
NZAgree == \A f \in {SRB_N, SRB_Z} \ dead : (f \in ccr) <=> (f \in rccr)

\* Every live C and X flag equals the 68k's: the bit shifted out, and X
\* untouched by ROd, whose od_SRSets leaves X out.
CarryAgree == \A f \in SR_XC \ dead : (f \in ccr) <=> (f \in rccr)

\* A live V flag equals the 68k's: set by ASL when bit 15 changes,
\* cleared by every other shift and rotate.
OverflowAgree == SRB_V \notin dead => ((SRB_V \in ccr) <=> (SRB_V \in rccr))

=============================================================================
