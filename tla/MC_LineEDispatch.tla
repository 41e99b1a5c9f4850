------------------------- MODULE MC_LineEDispatch -------------------------
(***************************************************************************)
(* Instruction streams for LineEDispatch: the REV triple in both rotate   *)
(* directions, near misses of it, and an opcode without an InsnTable row. *)
(***************************************************************************)
EXTENDS LineEDispatch

\* 1110 ccc d ss i tt rrr
Opcode(ccc, dir, ss, ir, tt, r) ==
    57344 + ccc * 512 + dir * 256 + ss * 64 + ir * 32 + tt * 8 + r

RORW8(r) == Opcode(0, 0, 1, 0, RO, r)
ROLW8(r) == Opcode(0, 1, 1, 0, RO, r)
RORL8(r) == Opcode(0, 0, 2, 0, RO, r)
ASLW1(r) == Opcode(1, 1, 1, 0, AS, r)
\* BFTST (A0)+ ... mode 1 (An): 0xE8C8, no InsnTable row.
BFTST_An == 59592

\* The triple; the triple with ROL first; SWAP of another register; a
\* third rotate of another size; an illegal opcode after a shift.
MC_Progs ==
    {<<RORW8(0), SwapOf(0), RORW8(0)>>,
     <<ROLW8(1), SwapOf(1), RORW8(1)>>,
     <<RORW8(0), SwapOf(1), RORW8(0)>>,
     <<RORW8(0), SwapOf(0), RORL8(0)>>,
     <<ASLW1(0), BFTST_An>>}

\* Registers: a byte pattern, a word whose rotate moves a bit into the sign
\* of the long, and zero.
MC_Words == {Hex32(4660, 22136) (* 12345678 *), Hex32(0, 128), Hex32(0, 0)}

MC_AllMasks == SUBSET SR_CCR
MC_CcrInit == {{}, SR_CCR}

\* Every opcode of size field 3 (memory shifts and bitfields), one per
\* stream, together with the streams above.
MC_Size3Progs == {<<op>> : op \in {o \in 57344 .. 61439 : Field(o, 6, 2) = 3}}
\* BFFFO and BFINS on d8(A0,Xn) and BFTST on d8(PC,Xn), and ASL.W on
\* d8(A0,Xn), each followed by its extension words: the bitfield word (2,
\* which as an index word would be brief) and a full index word with a
\* null base displacement (0110), a word one (0120), or long base and
\* outer displacements (0133).
MC_IndexWords == {272, 288, 307}
MC_LengthProgs ==
    {<<op, 2, w, 0>> : op \in {60400, 61424, 59643}, w \in MC_IndexWords} \cup
    {<<57840, w, 0>> : w \in MC_IndexWords}

MC_DispatchProgs == MC_Progs \cup MC_Size3Progs \cup MC_LengthProgs

\* Only the triple.
MC_RevProg == {<<RORW8(0), SwapOf(0), RORW8(0)>>}

=============================================================================
