---------------------------- MODULE LineEDispatch ----------------------------
(***************************************************************************)
(* EMIT_lineE and the InsnTable of src/src/M68k_LINEE.c, translating a    *)
(* stream of 68k instruction words.  EMIT_lineE consumes one opcode and    *)
(*   - replaces the triple ROd.W #8,Dn; SWAP Dn; ROd.W #8,Dn by one REV    *)
(*     (three words consumed), or                                          *)
(*   - calls the emitter of the opcode's InsnTable row (the register       *)
(*     shifts of LineEShift here), or                                     *)
(*   - for an opcode without a row, emits the illegal-instruction          *)
(*     exception.                                                          *)
(* A SWAP that is not part of a triple is translated by the line-4        *)
(* translator, outside this repository, as the 68k defines it.            *)
(* GetSR_LineE gives the flags each opcode needs and sets; the liveness    *)
(* contract of LineEShift is applied with it.                              *)
(*                                                                         *)
(* pc indexes the stream (m68k_ptr); gpc is the guest PC advance the       *)
(* translated code emits (EMIT_AdvancePC), rpc the 68k's PC.              *)
(***************************************************************************)
EXTENDS M68kShiftRef, Sequences

CONSTANTS
    DRegs,          \* data register numbers used
    Words,          \* initial register values
    MaskChoices,    \* candidate update masks (intersected with od_SRSets)
    CcrInit,        \* initial condition codes
    MaxSteps,       \* bound on the number of EMIT_lineE calls
    Progs           \* instruction streams (sequences of 16-bit words)

VARIABLES prog, pc, d, ccr, rd, rccr, dead, fault, exc, rexc, gpc, rpc, steps
vars == <<prog, pc, d, ccr, rd, rccr, dead, fault, exc, rexc, gpc, rpc, steps>>

Shift == INSTANCE LineEShift WITH Opcodes <- {}

Field(opcode, lo, n) == Shift!Field(opcode, lo, n)

-----------------------------------------------------------------------------
(* The InsnTable.                                                          *)

\* Mutant: every bitfield row ending at 073, PC-relative BFCHG included.
HasRow_PCRel(opcode) ==
    LET i    == opcode % 4096
        mode == Field(i, 3, 3)
        reg  == Field(i, 0, 3)
    IN  CASE Field(i, 6, 2) # 3 -> TRUE
          [] Field(i, 11, 1) = 0 -> mode \in 2 .. 6 \/ (mode = 7 /\ reg <= 1)
          [] OTHER -> \/ mode \in {0, 2, 5, 6}
                      \/ mode = 7 /\ reg <= 3

\* od_Emit is set: every register shift (size field 0..2); the memory
\* shifts in modes 2..6 and (xxx).W/.L; the bitfield instructions with Dn,
\* (An), d16(An), d8(An,Xn) and absolute operands, and also the PC-relative
\* modes for the four that only read the field (BFTST, BFEXTU, BFEXTS,
\* BFFFO).
HasRow(opcode) ==
    LET i    == opcode % 4096
        mode == Field(i, 3, 3)
        reg  == Field(i, 0, 3)
    IN  CASE Field(i, 6, 2) # 3 -> TRUE
          [] Field(i, 11, 1) = 0 -> mode \in 2 .. 6 \/ (mode = 7 /\ reg <= 1)
          [] OTHER -> \/ mode \in {0, 2, 5, 6}
                      \/ mode = 7 /\ reg <= IF Field(i, 8, 4) \in {8, 9, 11, 13}
                                           THEN 3 ELSE 1

\* The type field of a shift: bits 4..3 for a register, 10..9 for memory.
ShiftType(opcode) ==
    IF Field(opcode, 6, 2) = 3 THEN Field(opcode, 9, 2) ELSE Field(opcode, 3, 2)

\* GetSR_LineE: od_SRNeeds and od_SRSets of the row; an opcode without a
\* row needs every flag and sets none.
GetSR_LineE(opcode) ==
    CASE ~HasRow(opcode) -> [needs |-> SR_CCR, sets |-> {}]
      [] Field(opcode, 6, 2) = 3 /\ Field(opcode, 11, 1) = 1 ->
            [needs |-> {}, sets |-> SR_NZVC]
      [] ShiftType(opcode) = RO -> [needs |-> {}, sets |-> SR_NZVC]
      [] OTHER -> [needs |-> {SRB_X}, sets |-> SR_CCR]

\* The word at index j of the stream, 0 past its end.
Word(p, j) == IF j \in 1 .. Len(p) THEN p[j] ELSE 0

\* The number of extension words of the effective address ea (mode and
\* register) of an instruction of the given operand size, whose first
\* extension word is w: the 68020's formats, which SR_GetEALength and
\* EMIT_LoadFromEffectiveAddress (outside this repository) are taken to
\* count.  A brief index word (bit 8 clear) is one word; a full one adds a
\* base displacement (bits 5..4) and an outer displacement (bits 1..0) of
\* 0, 1 or 2 words.
DispWords(sz) == CASE sz = 2 -> 1 [] sz = 3 -> 2 [] OTHER -> 0
IndexWords(w) ==
    IF Field(w, 8, 1) = 0 THEN 1
    ELSE 1 + DispWords(Field(w, 4, 2)) + DispWords(Field(w, 0, 2))
EAExtWords(w, ea, size) ==
    LET mode == ea \div 8
        reg  == ea % 8
    IN  CASE mode = 5 -> 1
          [] mode = 6 -> IndexWords(w)
          [] mode = 7 /\ reg \in {0, 2} -> 1
          [] mode = 7 /\ reg = 1 -> 2
          [] mode = 7 /\ reg = 3 -> IndexWords(w)
          [] mode = 7 /\ reg = 4 -> IF size = 4 THEN 2 ELSE 1
          [] OTHER -> 0

\* od_BaseLength, od_HasEA and od_OpSize of a row: register shifts are one
\* word without an EA, of the size of bits 7..6; memory shifts one word
\* with a word EA; bitfields two words, with an EA in modes 5..7 only.
IsBitfield(opcode) == Field(opcode, 6, 2) = 3 /\ Field(opcode, 11, 1) = 1
BaseLength(opcode) == IF IsBitfield(opcode) THEN 2 ELSE 1
HasEA(opcode) ==
    CASE Field(opcode, 6, 2) # 3 -> FALSE
      [] IsBitfield(opcode)     -> Field(opcode, 3, 3) >= 5
      [] OTHER                  -> TRUE
OpSize(opcode) ==
    CASE Field(opcode, 6, 2) # 3 -> 2^Field(opcode, 6, 2)
      [] IsBitfield(opcode)     -> 0
      [] OTHER                  -> 2

\* Mutant: the EA extension words counted from the word after the opcode.
M68K_GetLineELength_EAAtOne(p, i) ==
    LET op == p[i]
    IN  IF ~HasRow(op) THEN 0
        ELSE BaseLength(op) + IF HasEA(op) THEN EAExtWords(Word(p, i + 1), op % 64, OpSize(op))
                              ELSE 0

\* M68K_GetLineELength of the instruction at index i: the row's base length
\* and, if it has an EA, the EA's extension words read after it; 0 for an
\* opcode without a row.
M68K_GetLineELength(p, i) ==
    LET op == p[i]
    IN  IF ~HasRow(op) THEN 0
        ELSE BaseLength(op) + IF HasEA(op)
                              THEN EAExtWords(Word(p, i + BaseLength(op)), op % 64, OpSize(op))
                              ELSE 0

\* The words an emitter consumes: the opcode and ext_words, which starts at
\* 1 in the bitfield emitters (the extension word) and at 0 in the memory
\* shifts, to which EMIT_LoadFromEffectiveAddress adds the EA's extension
\* words, read at m68k_ptr[ext_words]; a register shift takes one word.
EmitterLength(p, i) ==
    LET op   == p[i]
        ext0 == IF IsBitfield(op) THEN 1 ELSE 0
        ea   == IF Field(op, 6, 2) = 3 /\ Field(op, 3, 3) # 0
                THEN EAExtWords(Word(p, i + 1 + ext0), op % 64, 0) ELSE 0
    IN  1 + ext0 + ea

-----------------------------------------------------------------------------
(* The REV peephole.                                                       *)

SwapOf(r) == 18496 + r   \* SWAP Dr: 0x4840 | r

\* (opcode & 0xfef8) == 0xe058: ROR.W or ROL.W #8 of some Dn.
IsRotW8(opcode) == Field(opcode, 9, 7) = 112 /\ Field(opcode, 3, 5) = 11

\* Mutant: the SWAP of any register accepted.
IsRevTriple_AnySwap(p, i) ==
    /\ i + 2 <= Len(p)
    /\ IsRotW8(p[i])
    /\ p[i + 1] \in {SwapOf(r) : r \in 0 .. 7}
    /\ Field(p[i + 2], 9, 7) = Field(p[i], 9, 7)
    /\ Field(p[i + 2], 0, 8) = Field(p[i], 0, 8)

\* The first word is ROd.W #8,Dn, the next is SWAP Dn, and the third equals
\* the first in every bit but the direction.  The stream ends with the
\* block; words past its end are not part of it.
IsRevTriple(p, i) ==
    /\ i + 2 <= Len(p)
    /\ IsRotW8(p[i])
    /\ p[i + 1] = SwapOf(Field(p[i], 0, 3))
    /\ Field(p[i + 2], 9, 7) = Field(p[i], 9, 7)
    /\ Field(p[i + 2], 0, 8) = Field(p[i], 0, 8)

\* Mutant: byte index counted from 4 instead of 3.
Rev32_Off(v) == {8 * (4 - i \div 8) + (i % 8) : i \in Trunc(v, 32)}

\* rev: the four bytes reversed.
Rev32(v) == {8 * (3 - i \div 8) + (i % 8) : i \in Trunc(v, 32)}

\* cmn wzr, reg adds reg to zero, which never carries out.
CmnZeroCarry(v) == FALSE

\* The peephole's flags: cmn of the whole register, bic of the mask, Z on
\* EQ, N on MI, C and X on CS.
RevCcr(v, cc, mask) ==
    IF mask = {} THEN cc
    ELSE (cc \ mask)
         \cup {f \in mask \cap {SRB_Z, SRB_N} :
                 IF f = SRB_Z THEN CmnZ(v, 0) ELSE CmnN(v, 0)}
         \cup (IF mask \cap SR_XC # {} /\ CmnZeroCarry(v) THEN SR_XC ELSE {})

\* *insn_consumed = 3 and m68k_ptr moved past the SWAP and the third word.
RevConsumed == 3

\* Mutant: the PC advanced as for the single instruction decoded.
RevAdvance_One == 2

\* EMIT_AdvancePC(ptr, 6): the guest PC moves past the three words.
RevAdvance == 6

-----------------------------------------------------------------------------
(* The 68k reference on (registers, ccr) pairs.                            *)

\* A register shift or rotate.
RefShift(opcode, regs, cc) ==
    LET dn    == Field(opcode, 0, 3)
        shift == Field(opcode, 9, 3)
        type  == Field(opcode, 3, 2)
        left  == Field(opcode, 8, 1) = 1
        w     == 8 * 2 ^ Field(opcode, 6, 2)
        c     == IF Field(opcode, 5, 1) = 1 THEN LowValue(regs[shift], 6)
                 ELSE IF shift = 0 THEN 8 ELSE shift
    IN  [d   |-> [regs EXCEPT ![dn] = (regs[dn] \ Bits(w)) \cup
                    RefResult(type, left, w, c, regs[dn], SRB_X \in cc)],
         ccr |-> RefCcr(type, left, w, c, regs[dn], cc)]

\* The 68k's legal line-E opcodes: a register shift at any size; a memory
\* shift on a memory-alterable operand; a bitfield instruction on Dn or a
\* control operand, alterable for those that write the field.
EAMode(opcode) == IF Field(opcode, 3, 3) = 7 THEN 7 + Field(opcode, 0, 3)
                  ELSE Field(opcode, 3, 3)
MemoryAlterable == {2, 3, 4, 5, 6, 7, 8}        \* (An) .. (xxx).L
ControlAlterable == {2, 5, 6, 7, 8}
Control == ControlAlterable \cup {9, 10}          \* and d16(PC), d8(PC,Xn)
FieldReaders == {8, 9, 11, 13}                   \* BFTST BFEXTU BFEXTS BFFFO
RefLegal(opcode) ==
    \/ Field(opcode, 6, 2) # 3
    \/ Field(opcode, 11, 1) = 0 /\ EAMode(opcode) \in MemoryAlterable
    \/ /\ Field(opcode, 11, 1) = 1
       /\ EAMode(opcode) \in {0} \cup IF Field(opcode, 8, 4) \in FieldReaders
                                      THEN Control ELSE ControlAlterable

\* SWAP Dr: the halves exchanged; N and Z of the long result, V and C
\* cleared, X unchanged.
SwapFlags(v) ==
    {f \in {SRB_N, SRB_Z} : IF f = SRB_N THEN 31 \in v ELSE v = {}}
RefSwap(r, regs, cc) ==
    LET v == Ror(regs[r], 16, 32)
    IN  [d |-> [regs EXCEPT ![r] = v], ccr |-> (cc \ SR_NZVC) \cup SwapFlags(v)]

-----------------------------------------------------------------------------
(* EMIT_lineE.                                                             *)

Init ==
    /\ prog \in Progs
    /\ pc = 1
    /\ d \in [DRegs -> Words]
    /\ ccr \in CcrInit
    /\ rd = d /\ rccr = ccr
    /\ dead = {}
    /\ fault = FALSE /\ exc = FALSE /\ rexc = FALSE
    /\ gpc = 0 /\ rpc = 0
    /\ steps = 0

\* The block goes on while there are words, the host has not faulted and no
\* exception was raised.
Running == pc <= Len(prog) /\ ~fault /\ ~exc /\ steps < MaxSteps

\* The triple: one rev, flags under the mask M68K_GetSRMask gives for the
\* FIRST instruction, PC advanced by 6, m68k_ptr by three words.  The flags
\* live afterwards are those the liveness analysis keeps of the THIRD.
RevTriple ==
    /\ Running
    /\ IsRevTriple(prog, pc)
    /\ \E m1, m3 \in MaskChoices :
          LET op == prog[pc]
              r  == Field(op, 0, 3)
              v  == Rev32(d[r])
              s1 == RefShift(op, rd, rccr)
              s2 == RefSwap(prog[pc + 1] - 18496, s1.d, s1.ccr)
              s3 == RefShift(prog[pc + 2], s2.d, s2.ccr)
          IN  /\ d' = [d EXCEPT ![r] = v]
              /\ ccr' = RevCcr(v, ccr, m1 \cap SR_NZVC)
              /\ rd' = s3.d /\ rccr' = s3.ccr
              /\ dead' = (dead \ SR_NZVC) \cup (SR_NZVC \ m3)
    /\ pc' = pc + RevConsumed
    /\ gpc' = gpc + RevAdvance /\ rpc' = rpc + 6
    /\ steps' = steps + 1
    /\ UNCHANGED <<prog, fault, exc, rexc>>

\* An opcode with a row: its emitter (od_Emit), under a mask that is a
\* subset of od_SRSets, if it does not need a dead flag.  The register
\* shifts are followed here; the memory forms are LineEShiftMem's and a
\* block of this module stops before them and before a bitfield row.
TableInsn ==
    /\ Running
    /\ ~IsRevTriple(prog, pc)
    /\ prog[pc] \div 4096 = 14
    /\ HasRow(prog[pc])
    /\ Field(prog[pc], 6, 2) # 3
    /\ GetSR_LineE(prog[pc]).needs \cap dead = {}
    /\ \E m \in MaskChoices :
          LET op   == prog[pc]
              dn   == Field(op, 0, 3)
              sets == GetSR_LineE(op).sets
              r    == Shift!Dispatch(op, d[dn], d[Field(op, 9, 3)], ccr, m \cap sets)
              s    == RefShift(op, rd, rccr)
          IN  /\ d' = [d EXCEPT ![dn] = r.reg]
              /\ ccr' = r.ccr
              /\ fault' = r.fault
              /\ rd' = s.d /\ rccr' = s.ccr
              /\ dead' = (dead \ sets) \cup (sets \ (m \cap sets))
    /\ rexc' = ~RefLegal(prog[pc])
    /\ pc' = pc + 1
    /\ gpc' = gpc + 2 /\ rpc' = rpc + 2
    /\ steps' = steps + 1
    /\ UNCHANGED <<prog, exc>>

\* No row: EMIT_FlushPC and the illegal-instruction exception, taken with
\* the PC of the opcode; m68k_ptr has moved past it.
Illegal ==
    /\ Running
    /\ ~IsRevTriple(prog, pc)
    /\ prog[pc] \div 4096 = 14
    /\ ~HasRow(prog[pc])
    /\ GetSR_LineE(prog[pc]).needs \cap dead = {}
    /\ exc' = TRUE /\ rexc' = ~RefLegal(prog[pc])
    /\ pc' = pc + 1
    /\ steps' = steps + 1
    /\ UNCHANGED <<prog, d, ccr, rd, rccr, dead, fault, gpc, rpc>>

\* A SWAP outside a triple, translated by the line-4 translator.
Swap ==
    /\ Running
    /\ prog[pc] \in {SwapOf(r) : r \in DRegs}
    /\ \E m \in MaskChoices :
          LET r    == prog[pc] - 18496
              v    == Ror(d[r], 16, 32)
              mask == m \cap SR_NZVC
              s    == RefSwap(r, rd, rccr)
          IN  /\ d' = [d EXCEPT ![r] = v]
              /\ ccr' = (ccr \ mask) \cup (SwapFlags(v) \cap mask)
              /\ rd' = s.d /\ rccr' = s.ccr
              /\ dead' = (dead \ SR_NZVC) \cup (SR_NZVC \ mask)
    /\ pc' = pc + 1
    /\ gpc' = gpc + 2 /\ rpc' = rpc + 2
    /\ steps' = steps + 1
    /\ UNCHANGED <<prog, fault, exc, rexc>>

Next == RevTriple \/ TableInsn \/ Illegal \/ Swap

Spec == Init /\ [][Next]_vars

-----------------------------------------------------------------------------
(* Properties.                                                             *)

TypeOK ==
    /\ prog \in Progs
    /\ pc \in 1 .. Len(prog) + 1
    /\ d \in [DRegs -> SUBSET Bits(32)] /\ rd \in [DRegs -> SUBSET Bits(32)]
    /\ ccr \subseteq SR_CCR /\ rccr \subseteq SR_CCR /\ dead \subseteq SR_CCR
    /\ fault \in BOOLEAN /\ exc \in BOOLEAN /\ rexc \in BOOLEAN
    /\ gpc \in Nat /\ rpc \in Nat
    /\ steps \in 0 .. MaxSteps

\* Whether or not the peephole fires, the registers after each EMIT_lineE
\* call are what the 68k leaves after the instructions it consumed.
RegistersAgree == d = rd

\* The guest PC the translated code advances equals the 68k's PC, and,
\* until an exception, the words EMIT_lineE consumed from the stream; an
\* illegal opcode raises the exception exactly when the 68k does.
PcAgree ==
    /\ gpc = rpc /\ exc = rexc
    /\ ~exc => gpc = 2 * (pc - 1)

\* Every line-E word still to be decoded has an InsnTable row exactly when
\* the 68k defines it: EMIT_lineE emits code for no illegal opcode, and
\* raises the illegal-instruction exception for no legal one.
TableCoversISA ==
    \A i \in pc .. Len(prog) :
        prog[i] \div 4096 = 14 => (HasRow(prog[i]) <=> RefLegal(prog[i]))

\* For every line-E word of the stream that has a row, the length
\* M68K_GetLineELength reports, which the condition-code scan uses to step
\* from one instruction to the next, is the number of words the emitter
\* consumes from m68k_ptr: the table's od_BaseLength and od_HasEA agree with
\* the emitters' ext_words, for every mode and index-word format.
LengthAgrees ==
    \A i \in pc .. Len(prog) :
        (prog[i] \div 4096 = 14 /\ HasRow(prog[i]))
            => M68K_GetLineELength(prog, i) = EmitterLength(prog, i)

\* Every live N and Z flag equals the 68k's after the peephole's REV.
NZAgree == \A f \in {SRB_N, SRB_Z} \ dead : (f \in ccr) <=> (f \in rccr)

=============================================================================
