------------------------- MODULE MC_LineEBitfield -------------------------
(***************************************************************************)
(* Instances of LineEBitfield for TLC: bitfield opcodes on D0 and on      *)
(* (A0), extension words of the four operand policies, register values   *)
(* that serve as data, offsets and widths, and a memory window around    *)
(* the effective address.                                                *)
(***************************************************************************)
EXTENDS LineEBitfield

\* 1110 1kkk 11 mmm rrr: class k (8 .. 15), mode m, register r; mode 0 is
\* Dr, mode 2 and register 0 (ea 16) is (A0).
BfOpcode(k, ea) == 59584 + (k - 8) * 256 + ea

\* Extension word: 0 ddd Do ooooo Dw wwwww (a register in the low three
\* bits of a field when Do or Dw is set).
Ext(dn, do, off, dw, wid) == dn * 4096 + do * 2048 + off * 64 + dw * 32 + wid

\* Policy 0: offsets 0, 4 and 28 (a field that wraps past bit 0) with widths
\* 32 (field 0), 1 and 8, the whole register {0:0} among them; policy 1
\* and 2 with the other operand in D1 or D2; policy 3 with D1 and D2 and
\* with one register as both.
MC_Exts(dn) ==
    {Ext(dn, 0, o, 0, w) : o \in {0, 4, 28}, w \in {0, 1, 8}} \cup
    {Ext(dn, 0, o, 1, wr) : o \in {0, 28}, wr \in {1, 2}} \cup
    {Ext(dn, 1, orr, 0, w) : orr \in {1, 2}, w \in {0, 8}} \cup
    {Ext(dn, 1, 1, 1, 2), Ext(dn, 1, 2, 1, 2)}

\* The whole register, immediate offset 0 and width 0.
Whole(dn) == Ext(dn, 0, 0, 0, 0)

\* Every class on D0, the data register D1 (also an offset or width).
MC_AllInsns ==
    {<<BfOpcode(k, 0), e>> : k \in 8 .. 15, e \in MC_Exts(1)}

\* Every class on (A0).
MC_MemInsns ==
    {<<BfOpcode(k, 16), e>> : k \in 8 .. 15, e \in MC_Exts(1)}

\* Without BFFFO of the whole register (see MC_BFFFOWhole).
MC_Insns == (MC_AllInsns \ {<<BfOpcode(BFFFO, 0), Whole(1)>>}) \cup MC_MemInsns

\* BFFFO D0{0:0},D1 alone.
MC_BFFFOWhole == {<<BfOpcode(BFFFO, 0), Whole(1)>>}

\* Registers: the ring example of the manual (F0000001), 28 (an offset
\* that wraps, a width of 28), FFFFFFE8 (-24: offset 8 modulo 32, width 8,
\* a negative offset for BFFFO), 0 (width 32, an empty field), and
\* 80000021 (offset 1, width 1, the sign bit set).
MC_Words == {Hex32(61440, 1), Hex32(0, 28), Hex32(65535, 65512), Hex32(0, 0),
             Hex32(32768, 33)}

\* Bytes 0 .. 13 with A0 = 3: the 8 bytes an immediate offset loads start
\* at 3, the register offsets 28 and -24 (FFFFFFE8) move them to 6 and 0;
\* the other register values put the field outside memory.  The bytes mix
\* set and clear bits; byte 0 is zero, so that the fields offset -24 of
\* width 8 or less are empty (BFFFO finds no one), and byte 3, the first
\* at the address, is 80 (a field whose top bit alone is set).
MC_Addrs == 0 .. 13
MC_Base == 3
MC_Bytes == <<0, 129, 255, 128, 60, 1, 128, 240, 15, 0, 150, 126, 0, 195>>
MC_MemInit == {[a \in MC_Addrs |-> FromNat(MC_Bytes[a + 1])]}

\* No flag live, N and Z live, all of NZVC live.
MC_Masks == {{}, {SRB_N, SRB_Z}, SR_NZVC}
MC_NoMask == {{}}
MC_CcrInit == {{}, SR_CCR}

=============================================================================
