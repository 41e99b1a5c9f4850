------------------------- MODULE MC_LineEShiftMem -------------------------
(***************************************************************************)
(* Instances of LineEShiftMem for TLC: memory opcodes built from their    *)
(* fields, word values written in hex, and update-mask choices.           *)
(***************************************************************************)
EXTENDS LineEShiftMem

\* 1110 0tt d 11 mmm rrr
MemOpcode(tt, dir, mode, r) == 57536 + tt * 512 + dir * 256 + mode * 8 + r

\* (A0), (A0)+, -(A0) and (xxx).L.  The modes d16(An), d8(An,Xn) and
\* (xxx).W reach the emitters the same way as (xxx).L: as an address the
\* resolver computed, which the emitter neither reads nor changes.
MemOpcodes(types, dirs) ==
    {MemOpcode(t, dr, m, 0) : t \in types, dr \in dirs, m \in 2 .. 4} \cup
    {MemOpcode(t, dr, 7, 1) : t \in types, dr \in dirs}

\* Words: zero, all ones, the two edge bits together (each shift moves
\* one out and the other across the word), and bit 14 alone (ASL
\* overflow into the sign, and a word with bit 0 clear).
MC_Words == {{}, Bits(16), {0, 15}, {14}}

MC_Addrs == {0, 2}
MC_AInit == {2}
MC_AllMasks == SUBSET SR_CCR
MC_CcrInit == {{}, SR_CCR}

\* ASd, LSL and ROXd, which reads the X they set.
MemOpcodesShift == MemOpcodes({AS, ROX}, 0 .. 1) \cup MemOpcodes({LS}, {1})
\* ROd with the right shifts, whose 68k V is always cleared: no X consumer.
MemOpcodesVClear == MemOpcodes({RO}, 0 .. 1) \cup MemOpcodes({AS, LS}, {0})

\* Instances for the single-property runs.
\* ASL, whose V the 68k sets on a sign change, and ROXd, whose V it clears.
Overflow_MemOpcodes == MemOpcodes({AS}, {1}) \cup MemOpcodes({ROX}, 0 .. 1)
ROL_ROXL_MemOpcodes == MemOpcodes({RO, ROX}, 0 .. 1)

\* ASL, ROXd and the ROd-then-ROXd chain.
MemFlag_Opcodes == Overflow_MemOpcodes \cup ROL_ROXL_MemOpcodes

\* V and memory agree with the 68k in the cases the passing runs leave
\* out: V after ASL.W <ea> (set when bit 15 changes) and after ROXd.W <ea>
\* (cleared), and memory after ROXd.W <ea> reads the X that an ROd.W <ea>
\* before it left.
MemFlagsAgree == MemoryAgrees /\ OverflowAgree
MC_OneStep == 1

=============================================================================
