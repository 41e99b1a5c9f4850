--------------------------- MODULE MC_LineEShift ---------------------------
(***************************************************************************)
(* Instances of LineEShift for TLC: opcode sets built from the opcode     *)
(* fields, register values written in hex, and update-mask choices.       *)
(***************************************************************************)
EXTENDS LineEShift

\* 1110 ccc d ss i tt rrr
Opcode(ccc, dir, ss, ir, tt, r) ==
    57344 + ccc * 512 + dir * 256 + ss * 64 + ir * 32 + tt * 8 + r

\* Every immediate-count form (count field 0 means 8) of the given types.
ImmOpcodes(types) ==
    {Opcode(c, dr, s, 0, t, r) : c \in 0 .. 7, dr \in 0 .. 1, s \in 0 .. 2,
                                  t \in types, r \in DRegs}

\* Every register-count form with count and destination among DRegs,
\* including the count register being the destination.
RegOpcodes(types, dirs, sizes) ==
    {Opcode(c, dr, s, 1, t, r) : c \in DRegs, dr \in dirs, s \in sizes,
                                  t \in types, r \in DRegs}

\* Operands: zero, all ones, and words whose bytes, words and longs have
\* either sign, alternating bits and single bits at the edges.
MC_Operands ==
    {Hex32(0, 0), Hex32(65535, 65535), Hex32(4660, 22136) (* 12345678 *),
     Hex32(34661, 17185) (* 87654321 *), Hex32(32960, 32897) (* 80C08081 *)}

\* Register values whose low six bits are the interesting counts: 0, 1, 8,
\* 9, 16, 17, 31, 32, 33, 56 and 63 (an operand as well).
MC_CountWords ==
    MC_Operands \cup
    {Hex32(0, 8), Hex32(32768, 9) (* 80000009 *), Hex32(0, 16),
     Hex32(0, 17), Hex32(0, 31), Hex32(0, 32)}

ImmOpcodesAll == ImmOpcodes({AS, LS, ROX, RO})

RegOpcodesAll == RegOpcodes({AS, LS, ROX, RO}, 0 .. 1, 0 .. 2)

MC_AllMasks == SUBSET SR_CCR

MC_CcrInit == {{}, SR_CCR}

\* Masks that keep N and Z live and let C, V and X be live or dead.
MC_NZMasks == {m \cup {SRB_N, SRB_Z} : m \in SUBSET {SRB_C, SRB_V, SRB_X}}

\* Instances for the single-property runs.
MC_ZeroCountWords == {Hex32(0, 0), Hex32(34661, 17185), Hex32(32960, 32897)}
\* Counts 0 and 33: both 0 modulo the 33-bit ring of ROXd.L, only one of
\* them 0 modulo 64.
MC_RingEdgeWords == MC_ZeroCountWords \cup {Hex32(0, 33)}
MC_COnly == {{SRB_C}}
MC_XSet == {SR_CCR}
\* X alone or C alone live: each flag's zero-count path on its own.
MC_XorC == {{SRB_X}, {SRB_C}}
MC_NoCarryMasks == {{}, {SRB_N, SRB_Z}, SR_NZV}
ASL_ImmOpcodes == ImmOpcodes({AS})
ZeroCount_RegOpcodes == RegOpcodes({AS, LS, RO}, 0 .. 1, 0 .. 2)
ROX_RegOpcodes == RegOpcodes({ROX}, 0 .. 1, 0 .. 2)

\* Count 32: ROXR.L lays out d0..d31, X, d0..d30 in 64 bits, one bit short
\* of a second copy of the ring, so a rotate by 32 leaves d0 at bit 32.
MC_Count32Words == {Hex32(0, 1), Hex32(0, 32)}
ROXR_RegOpcodes == RegOpcodes({ROX}, {0}, {2})

\* Every register-count form, counts 0, 32 and 33 among the words, and
\* the immediate ASd.
FlagEdge_Opcodes == ZeroCount_RegOpcodes \cup ROX_RegOpcodes \cup ASL_ImmOpcodes
MC_FlagEdgeWords == MC_RingEdgeWords \cup MC_Operands \cup MC_Count32Words

\* The flags the passing runs leave out agree with the 68k: V of ASL (set
\* when the sign changes during the shift), and X and C after a register
\* count that is 0 modulo the ring (0, or 33 for ROXd.L) and after ROXR.L
\* by 32 (C and X are the last bit rotated out, d31); and the count-0
\* paths of EMIT_ASL, EMIT_LSL, EMIT_ROL and EMIT_ROXL never run into an
\* unpatched placeholder word.
FlagEdgesAgree == CarryAgree /\ OverflowAgree /\ HostNeverFaults

=============================================================================
