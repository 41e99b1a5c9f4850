---------------------------- MODULE BitfieldSpec ----------------------------
(***************************************************************************)
(* What the 68020 bitfield instructions promise on a data register, as the *)
(* Programmer's Reference Manual defines them, together with the update-   *)
(* mask contract of the translator: the flags of the mask get the 68k's    *)
(* values, the other flags the instruction sets become dead and may hold   *)
(* anything, X is left alone.  This is the abstract specification that    *)
(* LineEBitfield, the translated code, is checked to implement.            *)
(*                                                                         *)
(* The field of a register is a ring: offset o counts from bit 31 down,    *)
(* and a field that runs past bit 0 continues at bit 31.  A field value is *)
(* a w-bit word whose bit w-1 is the bit at offset o.                      *)
(*                                                                         *)
(* A memory operand is a string of bits: bit address 8 * a + i is bit     *)
(* 7 - i of byte a, the field starts at bit address 8 * EA + offset, and a *)
(* register offset is a signed long, so the field may start before the EA. *)
(***************************************************************************)
EXTENDS M68kShiftRef

CONSTANTS
    DRegs,          \* data register numbers
    Words,          \* initial register values
    Insns,          \* the instructions: pairs <<opcode, extension word>>
    MaskChoices,    \* candidate update masks
    CcrInit,        \* initial condition codes
    Addrs,          \* the byte addresses of memory that exist
    MemInit,        \* initial memory images, functions Addrs -> SUBSET 0..7
    Base            \* the effective address of a memory operand

VARIABLES d, ccr, dead, last, mem
absVars == <<d, ccr, dead, last, mem>>

\* The register bit at ring position j of a field at offset o.
RingPos(o, j) == 31 - ((o + j) % 32)

\* The bit positions of the field, and its value as a w-bit word.
FieldPos(o, w) == {RingPos(o, j) : j \in 0 .. (w - 1)}
FieldVal(v, o, w) == {w - 1 - j : j \in {j \in 0 .. (w - 1) : RingPos(o, j) \in v}}

\* The low w bits of s placed into the field.
Placed(s, o, w) == {RingPos(o, w - 1 - i) : i \in s \cap Bits(w)}

\* Offset and width of the extension word: an immediate or a data register;
\* a register offset is a signed long, taken modulo 32 inside a register;
\* width 0 means 32.
Offset(e, regs) == IF Bit(e, 11) = 1 THEN LowValue(regs[ExtField(e, 6, 3)], 5)
                   ELSE ExtField(e, 6, 5)
OffsetLong(e, regs) == IF Bit(e, 11) = 1 THEN regs[ExtField(e, 6, 3)]
                       ELSE FromNat(ExtField(e, 6, 5))
Width(e, regs) ==
    LET w == IF Bit(e, 5) = 1 THEN LowValue(regs[ExtField(e, 0, 3)], 5)
             ELSE ExtField(e, 0, 5)
    IN  IF w = 0 THEN 32 ELSE w

\* Bit address p of memory, the start of a memory field, the bytes a field
\* covers and its value; MemWith gives the field the value f.
MemBit(mm, p) == (7 - (p % 8)) \in mm[p \div 8]
FieldStart(e, regs) ==
    8 * Base + (IF Bit(e, 11) = 1 THEN SignedLong(regs[ExtField(e, 6, 3)])
                ELSE ExtField(e, 6, 5))
FieldBytes(p, w) == {(p + j) \div 8 : j \in 0 .. (w - 1)}
FieldMem(mm, p, w) == {w - 1 - j : j \in {j \in 0 .. (w - 1) : MemBit(mm, p + j)}}
MemWith(mm, p, w, f) ==
    [a \in DOMAIN mm |->
        {b \in 0 .. 7 : LET j == 8 * a + 7 - b - p
                        IN  IF j \in 0 .. (w - 1) THEN (w - 1 - j) \in f
                            ELSE b \in mm[a]}]

\* The mode field of the opcode: 0 is Dn, the others a memory operand.
IsMemory(op) == ExtField(op, 3, 3) # 0

\* A memory field lies in the memory that exists.
InWindow(op, e, regs) ==
    IsMemory(op) => FieldBytes(FieldStart(e, regs), Width(e, regs)) \subseteq Addrs

\* The index of the first one of a w-bit field from its top, w if none.
FirstOne(f, w) == IF f = {} THEN w ELSE w - 1 - Max(f)

\* The value BFCHG, BFSET, BFCLR and BFINS give the field f; ins is the
\* inserted value.
NewField(k, f, ins, w) ==
    CASE k = BFCHG -> Bits(w) \ f
      [] k = BFSET -> Bits(w)
      [] k = BFCLR -> {}
      [] OTHER     -> ins

\* The 68k's registers, memory and N, Z after one bitfield instruction.
Ref68k(op, e, regs, mm) ==
    LET k   == ExtField(op, 8, 4)
        r   == op % 8
        dn  == ExtField(e, 12, 3)
        o   == Offset(e, regs)
        w   == Width(e, regs)
        p   == FieldStart(e, regs)
        f   == IF IsMemory(op) THEN FieldMem(mm, p, w) ELSE FieldVal(regs[r], o, w)
        pos == FieldPos(o, w)
        ins == regs[dn] \cap Bits(w)
        nf  == NewField(k, f, ins, w)
        tst == IF k = BFINS THEN ins ELSE f
        wr  == k \in {BFCHG, BFSET, BFCLR, BFINS}
    IN  [d |-> CASE k = BFEXTU -> [regs EXCEPT ![dn] = f]
                 [] k = BFEXTS -> [regs EXCEPT ![dn] = Sext(f, w, 32)]
                 [] k = BFFFO  -> [regs EXCEPT ![dn] =
                                      AddW(OffsetLong(e, regs), FromNat(FirstOne(f, w)))]
                 [] wr /\ ~IsMemory(op) ->
                                  [regs EXCEPT ![r] = (regs[r] \ pos) \cup Placed(nf, o, w)]
                 [] OTHER      -> regs,
     mem |-> IF wr /\ IsMemory(op) THEN MemWith(mm, p, w, nf) ELSE mm,
     n |-> (w - 1) \in tst,
     z |-> tst = {}]

\* The condition codes the contract allows after an instruction whose 68k
\* N and Z are n and z, under the mask: the masked flags are the 68k's (V
\* and C cleared), the rest of NZVC is free, X is kept.
Allowed(cc, mask, n, z) ==
    {c \in SUBSET SR_CCR :
        /\ c \cap mask = {f \in mask : (f = SRB_N /\ n) \/ (f = SRB_Z /\ z)}
        /\ (c \ SR_NZVC) = (cc \ SR_NZVC)}

Init ==
    /\ d \in [DRegs -> Words]
    /\ ccr \in CcrInit
    /\ mem \in MemInit
    /\ dead = {}
    /\ last = <<>>

\* One bitfield instruction of Insns whose field exists, with the mask the liveness analysis
\* gives it.
Execute ==
    \E i \in Insns, m \in MaskChoices :
        LET mask == m \cap SR_NZVC
            s    == Ref68k(i[1], i[2], d, mem)
        IN  /\ last' = i
            /\ InWindow(i[1], i[2], d)
            /\ dead' = (dead \ SR_NZVC) \cup (SR_NZVC \ mask)
            /\ d' = s.d
            /\ mem' = s.mem
            /\ ccr' \in Allowed(ccr, mask, s.n, s.z)

Spec == Init /\ [][Execute]_absVars

=============================================================================
