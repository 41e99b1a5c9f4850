---------------------------- MODULE LineEBitfield ----------------------------
(***************************************************************************)
(* The register (Dn) forms of the bitfield emitters of src/src/M68k_LINEE.c*)
(* : the Dn branches of EMIT_BFTST, EMIT_BFEXTU and EMIT_BFEXTS, and       *)
(* EMIT_BFFFO_reg, EMIT_BFCHG_reg, EMIT_BFSET_reg, EMIT_BFCLR_reg and       *)
(* EMIT_BFINS_reg.  Each emitter has four paths, one per operand policy of *)
(* the extension word (offset and width each an immediate or a register); *)
(* each path is followed instruction by instruction on host words (sets of *)
(* bit positions, see HostBits).  The register data is doubled into a     *)
(* 64-bit temporary (reg:reg) so that a field that wraps past bit 0 is    *)
(* contiguous, or the register is rotated so that the field sits at the   *)
(* top.                                                                    *)
(*                                                                         *)
(* The state has the variables of BitfieldSpec, which the translated code  *)
(* is checked to implement, and the step count.                            *)
(***************************************************************************)
EXTENDS M68kShiftRef

CONSTANTS
    DRegs,          \* data register numbers
    Words,          \* initial register values
    Insns,          \* the instructions: pairs <<opcode, extension word>>
    MaskChoices,    \* candidate update masks (intersected with od_SRSets)
    CcrInit,        \* initial condition codes
    Addrs,          \* the byte addresses of memory that exist
    MemInit,        \* initial memory images, functions Addrs -> SUBSET 0..7
    Base,           \* the address the effective address resolver returns
    MaxSteps        \* bound on the number of instructions of a block

VARIABLES d, ccr, dead, last, mem, steps
vars == <<d, ccr, dead, last, mem, steps>>

Abs == INSTANCE BitfieldSpec

-----------------------------------------------------------------------------
(* Host idioms the emitters share.                                         *)

\* lsl64 tmp, src, #32+s; orr64 tmp, tmp, src, LSL #s: the register doubled
\* into 64 bits and shifted left by s.
Doubled(src, s) == Lsl(src, 32 + s, 64) \cup Lsl(Trunc(src, 32), s, 64)

\* The top w bits of an n-bit register: orr_immed(mask, 31, width, width),
\* or (1 << w) - 1 rotated right by w.
TopBits(w, n) == (n - w) .. (n - 1)

\* and_immed(wr, wr, 5, 0); cbnz wr, +2; mov wr, #32.
WidthOfReg(v) == IF LowValue(v, 5) = 0 THEN 32 ELSE LowValue(v, 5)

\* sbfx64 / ubfx64 d, s, #lsb, #w.
Ubfx64(v, lsb, w) == {i - lsb : i \in v \cap lsb .. (lsb + w - 1)}
Sbfx64(v, lsb, w) == Ubfx64(v, lsb, w) \cup
                        IF (lsb + w - 1) \in v THEN w .. 63 ELSE {}

\* clz64 and clz (32-bit): the number of leading zeros, as a word.
Clz(v, n) == FromNat(IF Trunc(v, n) = {} THEN n ELSE n - 1 - Max(Trunc(v, n)))

\* The N and Z of ands64 on a 64-bit result and of a 32-bit cmn/ands.
NZ64(v) == [n |-> 63 \in v, z |-> v = {}]
NZ32(v) == [n |-> 31 \in v, z |-> Trunc(v, 32) = {}]

\* RA_ModifyCC and EMIT_GetNZ00 under `if (update_mask)`: N and Z from the
\* host flags, V and C cleared, each for the flags of the mask only.
CcNZ00(cc, mask, f) ==
    IF mask = {} THEN cc
    ELSE (cc \ mask) \cup {x \in mask : (x = SRB_N /\ f.n) \/ (x = SRB_Z /\ f.z)}

\* The fields of the extension word, as the emitters decode them.
Policy(e) == 2 * Bit(e, 11) + Bit(e, 5)   \* 0: #o,#w 1: #o,Dw 2: Do,#w 3: Do,Dw
OffImm(e) == ExtField(e, 6, 5)
WidImm(e) == ExtField(e, 0, 5)
OffReg(e) == ExtField(e, 6, 3)
WidReg(e) == ExtField(e, 0, 3)

-----------------------------------------------------------------------------
(* Extraction: BFTST, BFEXTU, BFEXTS, BFFFO on Dn.  Each gives the host    *)
(* flags f (n, z), and, but for BFTST, the value written to the data       *)
(* register of the extension word.                                         *)

\* The field at the top of a 64-bit temporary, masked with ands64: paths
\* 1..3 (path 1 shifts by the immediate offset while doubling, paths 2 and
\* 3 shift the doubled register by the offset register with lslv64).
TopField(src, e, regs) ==
    LET w == IF Bit(e, 5) = 1 THEN WidthOfReg(regs[WidReg(e)])
             ELSE IF WidImm(e) = 0 THEN 32 ELSE WidImm(e)
    IN  IF Bit(e, 11) = 0 THEN Doubled(src, OffImm(e)) \cap TopBits(w, 64)
        ELSE Lsl(Doubled(src, 0), LowValue(regs[OffReg(e)], 5), 64) \cap TopBits(w, 64)

\* The width the emitter computes (immediate or register, 0 meaning 32).
EmitWidth(e, regs) ==
    IF Bit(e, 5) = 1 THEN WidthOfReg(regs[WidReg(e)])
    ELSE IF WidImm(e) = 0 THEN 32 ELSE WidImm(e)

EMIT_BFTST_reg(src, e, regs) ==
    LET o == OffImm(e)
        w == EmitWidth(e, regs)
    IN  IF Policy(e) = 0
        THEN IF o # 0 \/ WidImm(e) # 0
             THEN NZ32(Sbfx64(Doubled(src, 0), 64 - (o + w), w))
             ELSE NZ32(src)
        ELSE NZ64(TopField(src, e, regs))

\* ubfx64 dest, tmp, #64-(o+w), #w, or mov dest, src for the whole register;
\* flags from cmn wzr, dest, LSL #(32 - w).  Paths 1..3: lsr64/lsrv64 by
\* 64 - w after the ands64, then mov dest, tmp.
EMIT_BFEXTU_reg(src, e, regs) ==
    LET o == OffImm(e)
        w == EmitWidth(e, regs)
        t == TopField(src, e, regs)
    IN  IF Policy(e) = 0
        THEN LET v == IF o # 0 \/ w # 32
                      THEN Trunc(Ubfx64(Doubled(src, 0), 64 - (o + w), w), 32)
                      ELSE Trunc(src, 32)
             IN  [n |-> CmnN(v, 32 - w), z |-> CmnZ(v, 32 - w), v |-> v]
        ELSE [n |-> 63 \in t, z |-> t = {}, v |-> Trunc(Lsr(t, 64 - w, 64), 32)]

\* Mutant: the 64-bit temporary moved to the destination with mov64.
EMIT_BFEXTS_reg_Mov64(src, e, regs) ==
    LET o == OffImm(e)
        w == EmitWidth(e, regs)
        t == TopField(src, e, regs)
    IN  IF Policy(e) = 0
        THEN LET v == IF o # 0 \/ WidImm(e) # 0
                      THEN Sbfx64(Doubled(src, 0), 64 - (o + w), w)
                      ELSE Trunc(src, 32)
             IN  [n |-> 31 \in v, z |-> v = {}, v |-> v]
        ELSE [n |-> 63 \in t, z |-> t = {}, v |-> Asr(t, 64 - w, 64)]

\* sbfx64 and mov, flags from cmn of the destination; paths 1..3 as BFEXTU
\* with asr64/asrv64.
EMIT_BFEXTS_reg(src, e, regs) ==
    LET o == OffImm(e)
        w == EmitWidth(e, regs)
        t == TopField(src, e, regs)
    IN  IF Policy(e) = 0
        THEN LET v == IF o # 0 \/ WidImm(e) # 0
                      THEN Trunc(Sbfx64(Doubled(src, 0), 64 - (o + w), w), 32)
                      ELSE Trunc(src, 32)
             IN  [n |-> 31 \in v, z |-> v = {}, v |-> v]
        ELSE [n |-> 63 \in t, z |-> t = {}, v |-> Trunc(Asr(t, 64 - w, 64), 32)]

\* ands64 of the field at the top, the bits below it set (orr64_immed or
\* orn64 with the mask), clz64, and the offset added: the immediate, or the
\* whole offset register (off_orig, a copy when it is the destination).
\* For offset 0 and width 0, clz dest, src is emitted only with the flags.
EMIT_BFFFO_reg(src, e, regs, dn, mask) ==
    LET o == OffImm(e)
        w == EmitWidth(e, regs)
        t == TopField(src, e, regs)
        low == Bits(64) \ TopBits(w, 64)
    IN  CASE Policy(e) = 0 /\ (o # 0 \/ WidImm(e) # 0) ->
               [f |-> NZ64(t), v |-> AddW(Clz(t \cup low, 64), FromNat(o))]
          [] Policy(e) = 0 ->
               [f |-> NZ32(src), v |-> IF mask # {} THEN Clz(src, 32) ELSE regs[dn]]
          [] Policy(e) = 1 ->
               [f |-> NZ64(t), v |-> AddW(Clz(t \cup low, 64), FromNat(o))]
          [] OTHER ->
               [f |-> NZ64(t), v |-> AddW(Clz(t \cup low, 64), regs[OffReg(e)])]

-----------------------------------------------------------------------------
(* Modification in place: BFCHG, BFSET, BFCLR on Dn differ only in the     *)
(* host operation applied to the field (eor, orr, bic) and in the whole-   *)
(* register form (mvn, movn #0, mov #0).                                   *)

Eor(v, m) == (v \ m) \cup (m \ v)
Orr(v, m) == v \cup m
Bic(v, m) == v \ m
Mvn(v) == Bits(32) \ v
AllOnes(v) == Bits(32)
AllZeros(v) == {}

\* The operation on the field, and on the whole register, of class k.
FieldOp(k, v, m) == CASE k = BFCHG -> Eor(v, m) [] k = BFSET -> Orr(v, m) [] OTHER -> Bic(v, m)
WholeOp(k, v) == CASE k = BFCHG -> Mvn(v) [] k = BFSET -> AllOnes(v) [] OTHER -> AllZeros(v)

\* Flags from the field rotated to the top (ror by 32 - offset, or rorv by
\* 32 - offset register), masked with the top-w mask by ands, or compared
\* with cmn when the width is 32; then the mask, rotated right by the
\* offset, applied to the register by the operation of class k.
BFModify_reg(k, src, e, regs) ==
    LET o  == OffImm(e)
        w  == EmitWidth(e, regs)
        ro == LowValue(regs[OffReg(e)], 5)
        rm == Ror(Bits(w), w % 32, 32)        \* rorv of (1 << w) - 1 by w
    IN  CASE Policy(e) = 0 /\ (o # 0 \/ WidImm(e) # 0) ->
               LET t == Ror(src, (32 - o) % 32, 32)
               IN  [f |-> IF w # 32 THEN NZ32(t \cap TopBits(w, 32)) ELSE NZ32(t),
                    v |-> IF w # 32 THEN FieldOp(k, src, Ror(Bits(w), (w + o) % 32, 32))
                          ELSE WholeOp(k, src)]
          [] Policy(e) = 0 ->
               [f |-> NZ32(src), v |-> WholeOp(k, src)]
          [] Policy(e) = 1 ->
               [f |-> IF o # 0 THEN NZ32(Ror(src, (32 - o) % 32, 32) \cap rm)
                      ELSE NZ32(src \cap rm),
                v |-> FieldOp(k, src, Ror(rm, o, 32))]
          [] Policy(e) = 2 ->
               LET t == Ror(src, (32 - ro) % 32, 32)
               IN  [f |-> IF w # 32 THEN NZ32(t \cap TopBits(w, 32)) ELSE NZ32(t),
                    v |-> IF w # 32 THEN FieldOp(k, src, Ror(TopBits(w, 32), ro, 32))
                          ELSE WholeOp(k, src)]
          [] OTHER ->
               [f |-> NZ32(Ror(src, (32 - ro) % 32, 32) \cap rm),
                v |-> FieldOp(k, src, Ror(rm, ro, 32))]

EMIT_BFCHG_reg(src, e, regs) == BFModify_reg(BFCHG, src, e, regs)
EMIT_BFSET_reg(src, e, regs) == BFModify_reg(BFSET, src, e, regs)
EMIT_BFCLR_reg(src, e, regs) == BFModify_reg(BFCLR, src, e, regs)

\* Mutant: the immediate-offset path rotates the source by the width only,
\* the MSB of the field left at bit 31 whatever the offset.
EMIT_BFINS_reg_NoOffset(dst, src, e, regs) ==
    LET o  == OffImm(e)
        w  == EmitWidth(e, regs)
        ro == LowValue(regs[OffReg(e)], 5)
        rm == Ror(Bits(w), w % 32, 32)
        ms == Ror(src \cap Bits(w), w % 32, 32)
    IN  CASE Policy(e) = 0 /\ (o # 0 \/ WidImm(e) # 0) ->
               LET m0 == IF w # 32 THEN src \cap Bits(w) ELSE Trunc(src, 32)
                   m1 == Ror(m0, w % 32, 32)
               IN  [f |-> NZ32(m1),
                    v |-> IF w # 32 THEN Bic(dst, Ror(Bits(w), (w + o) % 32, 32)) \cup m1
                          ELSE m1]
          [] Policy(e) = 0 -> [f |-> NZ32(src), v |-> Trunc(src, 32)]
          [] Policy(e) = 1 -> [f |-> NZ32(ms), v |-> Bic(dst, Ror(rm, o, 32)) \cup Ror(ms, o, 32)]
          [] Policy(e) = 2 ->
               IF w # 32 THEN [f |-> NZ32(ms),
                               v |-> Bic(dst, Ror(TopBits(w, 32), ro, 32)) \cup Ror(ms, ro, 32)]
               ELSE [f |-> NZ32(src), v |-> Ror(Trunc(src, 32), ro, 32)]
          [] OTHER -> [f |-> NZ32(ms), v |-> Bic(dst, Ror(rm, ro, 32)) \cup Ror(ms, ro, 32)]

\* The low w bits of the source (ands_immed, or mov for width 32), rotated
\* so that their top bit lands at the offset (ror by offset + width), the
\* flags from cmn of them rotated back to the top; bic of the field and orr
\* of the source into the destination, or mov for width 32.  Register
\* paths: and with (1 << w) - 1, rorv by the width, then both rorv by the
\* offset register (only the source for width 32).
EMIT_BFINS_reg(dst, src, e, regs) ==
    LET o  == OffImm(e)
        w  == EmitWidth(e, regs)
        ro == LowValue(regs[OffReg(e)], 5)
        rm == Ror(Bits(w), w % 32, 32)
        ms == Ror(src \cap Bits(w), w % 32, 32)
    IN  CASE Policy(e) = 0 /\ (o # 0 \/ WidImm(e) # 0) ->
               LET m0 == IF w # 32 THEN src \cap Bits(w) ELSE Trunc(src, 32)
                   m1 == IF (o + w) % 32 # 0 THEN Ror(m0, (o + w) % 32, 32) ELSE m0
               IN  [f |-> IF o # 0 THEN NZ32(Ror(m1, (32 - o) % 32, 32)) ELSE NZ32(m1),
                    v |-> IF w # 32 THEN Bic(dst, Ror(Bits(w), (w + o) % 32, 32)) \cup m1
                          ELSE m1]
          [] Policy(e) = 0 -> [f |-> NZ32(src), v |-> Trunc(src, 32)]
          [] Policy(e) = 1 -> [f |-> NZ32(ms), v |-> Bic(dst, Ror(rm, o, 32)) \cup Ror(ms, o, 32)]
          [] Policy(e) = 2 ->
               IF w # 32 THEN [f |-> NZ32(ms),
                               v |-> Bic(dst, Ror(TopBits(w, 32), ro, 32)) \cup Ror(ms, ro, 32)]
               ELSE [f |-> NZ32(src), v |-> Ror(Trunc(src, 32), ro, 32)]
          [] OTHER -> [f |-> NZ32(ms), v |-> Bic(dst, Ror(rm, ro, 32)) \cup Ror(ms, ro, 32)]

-----------------------------------------------------------------------------
(* The memory forms.  EMIT_LoadFromEffectiveAddress leaves the EA, Base,   *)
(* in a scratch register; a register offset adds offset ASR 3 to it and    *)
(* keeps offset & 7 as the shift.  ldr64_offset loads the 8 bytes at the   *)
(* address, the byte at the address in bits 63..56 (the host reads data    *)
(* big-endian, as the memory shifts' ldrh/strh also assume), the field is  *)
(* shifted to the top, and the modifying forms write the 8 bytes back with *)
(* str64_offset.                                                           *)

\* The address ldr64/str64 use, and the left shift that brings the field to
\* bit 63.
MemEA(e, regs) ==
    IF Bit(e, 11) = 1 THEN Base + (SignedLong(regs[OffReg(e)]) \div 8) ELSE Base
MemShift(e, regs) == IF Bit(e, 11) = 1 THEN LowValue(regs[OffReg(e)], 3) ELSE OffImm(e)

\* ldr64_offset and str64_offset on big-endian data.
Load64(mm, a) == UNION {{56 - 8 * i + b : b \in mm[a + i]} : i \in 0 .. 7}
Store64(mm, a, v) ==
    [x \in DOMAIN mm |->
        IF x \in a .. (a + 7) THEN {b \in 0 .. 7 : (56 - 8 * (x - a) + b) \in v}
        ELSE mm[x]]

\* The 8 bytes the code accesses exist.
MemGuard(op, e, regs) ==
    ExtField(op, 3, 3) # 0 => MemEA(e, regs) .. (MemEA(e, regs) + 7) \subseteq Addrs

\* The loaded word shifted left (lsl64 by the offset, or lslv64 by off_reg)
\* and and-ed with the top-w mask (ands64_immed, orr64_immed, or the mask
\* built from width_reg): the field at the top, the flags set from it.
MemTop(mm, e, regs) ==
    Lsl(Load64(mm, MemEA(e, regs)), MemShift(e, regs), 64) \cap TopBits(EmitWidth(e, regs), 64)

\* The top-w mask moved down onto the field in the loaded word (eor/orr/
\* bic64_immed rotated by width + offset, mask LSR offset, lsrv64 by off_reg).
MemFieldMask(e, regs) == Lsr(TopBits(EmitWidth(e, regs), 64), MemShift(e, regs), 64)

\* Path 0: sbfx64 of the field, cmn64 of it LSL 64 - w; else the ands64.
EMIT_BFTST_mem(e, regs, mm) ==
    LET o == OffImm(e)
        w == EmitWidth(e, regs)
    IN  IF Policy(e) = 0
        THEN NZ64(Lsl(Sbfx64(Load64(mm, Base), 64 - o - w, w), 64 - w, 64))
        ELSE NZ64(MemTop(mm, e, regs))

\* Path 0: ubfx64 / sbfx64, mov_reg dest, flags from cmn64 of the extracted
\* field LSL 64 - w; else lsr(v)64 / asr(v)64 by 64 - w after the ands64.
MemExtract(signed, e, regs, mm) ==
    LET o == OffImm(e)
        w == EmitWidth(e, regs)
        t == MemTop(mm, e, regs)
        x == IF signed THEN Sbfx64(Load64(mm, Base), 64 - o - w, w)
             ELSE Ubfx64(Load64(mm, Base), 64 - o - w, w)
    IN  IF Policy(e) = 0
        THEN [f |-> NZ64(Lsl(x, 64 - w, 64)), v |-> Trunc(x, 32)]
        ELSE [f |-> NZ64(t),
              v |-> Trunc(IF signed THEN Asr(t, 64 - w, 64) ELSE Lsr(t, 64 - w, 64), 32)]

EMIT_BFEXTU_mem(e, regs, mm) == MemExtract(FALSE, e, regs, mm)
EMIT_BFEXTS_mem(e, regs, mm) == MemExtract(TRUE, e, regs, mm)

\* ands64 of the field at the top, the bits below it set (orr64_immed, or
\* orn64 with the mask), clz64, and add of the immediate offset or of the
\* whole offset register (off_orig).
EMIT_BFFFO_mem(e, regs, mm) ==
    LET t  == MemTop(mm, e, regs)
        lo == Bits(64) \ TopBits(EmitWidth(e, regs), 64)
        o  == IF Bit(e, 11) = 1 THEN regs[OffReg(e)] ELSE FromNat(OffImm(e))
    IN  [f |-> NZ64(t), v |-> AddW(Clz(t \cup lo, 64), o)]

\* BFCHG, BFSET, BFCLR: flags from the field shifted to the top (testreg,
\* ands64 into xzr), then eor/orr/bic of the field mask, str64.
BFModify_mem(k, e, regs, mm) ==
    [f |-> NZ64(MemTop(mm, e, regs)),
     t |-> FieldOp(k, Load64(mm, MemEA(e, regs)), MemFieldMask(e, regs))]

EMIT_BFCHG_mem(e, regs, mm) == BFModify_mem(BFCHG, e, regs, mm)
EMIT_BFSET_mem(e, regs, mm) == BFModify_mem(BFSET, e, regs, mm)
EMIT_BFCLR_mem(e, regs, mm) == BFModify_mem(BFCLR, e, regs, mm)

\* Path 0: flags from cmn64 src LSL 64 - w, bfi64 at 64 - (o + w).  Else the
\* low w bits of src (ands64 with the mask) rotated right by w to the top,
\* flags from cmn64 of them, then bic of the field mask and orr of them
\* moved down by the offset (LSR or lsrv64), str64.
EMIT_BFINS_mem(src, e, regs, mm) ==
    LET o  == OffImm(e)
        w  == EmitWidth(e, regs)
        t  == Load64(mm, MemEA(e, regs))
        ms == Ror(src \cap Bits(w), w, 64)
    IN  IF Policy(e) = 0
        THEN [f |-> NZ64(Lsl(src, 64 - w, 64)), t |-> Bfi(t, src, 64 - (o + w), w, 64)]
        ELSE [f |-> NZ64(ms),
              t |-> Bic(t, MemFieldMask(e, regs)) \cup Lsr(ms, MemShift(e, regs), 64)]

-----------------------------------------------------------------------------
(* The line-E table routes a bitfield opcode on Dn by bits 11..8: BFTST,   *)
(* BFEXTU and BFEXTS handle mode 0 in their own emitter, the others call   *)
(* the _reg emitter.  The data register is the source of BFEXTU, BFEXTS,   *)
(* BFFFO and BFINS, the destination of the first three.                    *)

\* An emitter's result x applied: x.v written to data register r (the
\* destination Dn of BFEXTU, BFEXTS, BFFFO, the operand of BFCHG, BFSET,
\* BFCLR, BFINS), with x's flags.
Written(regs, r, x) == [d |-> [regs EXCEPT ![r] = x.v], f |-> x.f]
WrittenNZ(regs, r, x) == [d |-> [regs EXCEPT ![r] = x.v], f |-> [n |-> x.n, z |-> x.z]]

\* The same for the memory forms: x.v into Dn, or x.t stored back with
\* str64 at a.
Extracted(regs, mm, dn, x) == [d |-> [regs EXCEPT ![dn] = x.v], mem |-> mm, f |-> x.f]
Stored(regs, mm, a, x) == [d |-> regs, mem |-> Store64(mm, a, x.t), f |-> x.f]

\* The registers after the instruction, and the host N and Z it leaves.
Dispatch(op, e, regs, mask) ==
    LET k   == ExtField(op, 8, 4)
        r   == op % 8
        dn  == ExtField(e, 12, 3)
        src == regs[r]
    IN  CASE k = BFTST  -> [d |-> regs, f |-> EMIT_BFTST_reg(src, e, regs)]
          [] k = BFEXTU -> WrittenNZ(regs, dn, EMIT_BFEXTU_reg(src, e, regs))
          [] k = BFEXTS -> WrittenNZ(regs, dn, EMIT_BFEXTS_reg(src, e, regs))
          [] k = BFFFO  -> Written(regs, dn, EMIT_BFFFO_reg(src, e, regs, dn, mask))
          [] k = BFCHG  -> Written(regs, r, EMIT_BFCHG_reg(src, e, regs))
          [] k = BFSET  -> Written(regs, r, EMIT_BFSET_reg(src, e, regs))
          [] k = BFCLR  -> Written(regs, r, EMIT_BFCLR_reg(src, e, regs))
          [] OTHER      -> Written(regs, r, EMIT_BFINS_reg(src, regs[dn], e, regs))

\* The memory forms: BFTST, BFEXTU and BFEXTS handle them in the else
\* branch of their emitter, EMIT_BFFFO, EMIT_BFCHG, EMIT_BFSET, EMIT_BFCLR
\* and EMIT_BFINS throughout; the registers and memory after the
\* instruction, and the host N and Z.
DispatchMem(op, e, regs, mm) ==
    LET k  == ExtField(op, 8, 4)
        dn == ExtField(e, 12, 3)
        a  == MemEA(e, regs)
    IN  CASE k = BFTST  -> [d |-> regs, mem |-> mm, f |-> EMIT_BFTST_mem(e, regs, mm)]
          [] k = BFEXTU -> Extracted(regs, mm, dn, EMIT_BFEXTU_mem(e, regs, mm))
          [] k = BFEXTS -> Extracted(regs, mm, dn, EMIT_BFEXTS_mem(e, regs, mm))
          [] k = BFFFO  -> Extracted(regs, mm, dn, EMIT_BFFFO_mem(e, regs, mm))
          [] k = BFCHG  -> Stored(regs, mm, a, EMIT_BFCHG_mem(e, regs, mm))
          [] k = BFSET  -> Stored(regs, mm, a, EMIT_BFSET_mem(e, regs, mm))
          [] k = BFCLR  -> Stored(regs, mm, a, EMIT_BFCLR_mem(e, regs, mm))
          [] OTHER      -> Stored(regs, mm, a, EMIT_BFINS_mem(regs[dn], e, regs, mm))

Init ==
    /\ d \in [DRegs -> Words]
    /\ ccr \in CcrInit
    /\ mem \in MemInit
    /\ dead = {}
    /\ last = <<>>
    /\ steps = 0

\* The state after instruction i whose translation leaves the registers,
\* memory and host N and Z of s, under flag mask mask.
Apply(i, mask, s) ==
    /\ last' = i
    /\ d' = s.d
    /\ mem' = s.mem
    /\ ccr' = CcNZ00(ccr, mask, s.f)
    /\ dead' = (dead \ SR_NZVC) \cup (SR_NZVC \ mask)
    /\ steps' = steps + 1

\* A register form's result, memory left alone.
OnRegs(r) == [d |-> r.d, mem |-> mem, f |-> r.f]

\* One instruction of class k translated and run: the emitter's code on the
\* registers, then the flag block under `if (update_mask)`; the flags the
\* instruction sets and the mask leaves out are dead.
Exec(k) ==
    /\ steps < MaxSteps
    /\ \E i \in {j \in Insns : ExtField(j[1], 8, 4) = k}, m \in MaskChoices :
        /\ MemGuard(i[1], i[2], d)
        /\ Apply(i, m \cap SR_NZVC,
                 IF ExtField(i[1], 3, 3) # 0 THEN DispatchMem(i[1], i[2], d, mem)
                 ELSE OnRegs(Dispatch(i[1], i[2], d, m \cap SR_NZVC)))

TranslateBFTST == Exec(BFTST)
TranslateBFEXTU == Exec(BFEXTU)
TranslateBFCHG == Exec(BFCHG)
TranslateBFEXTS == Exec(BFEXTS)
TranslateBFCLR == Exec(BFCLR)
TranslateBFFFO == Exec(BFFFO)
TranslateBFSET == Exec(BFSET)
TranslateBFINS == Exec(BFINS)

Next ==
    \/ TranslateBFTST \/ TranslateBFEXTU \/ TranslateBFCHG \/ TranslateBFEXTS
    \/ TranslateBFCLR \/ TranslateBFFFO \/ TranslateBFSET \/ TranslateBFINS

Spec == Init /\ [][Next]_vars

-----------------------------------------------------------------------------
TypeOK ==
    /\ d \in [DRegs -> SUBSET Bits(32)]
    /\ mem \in [Addrs -> SUBSET (0 .. 7)]
    /\ ccr \subseteq SR_CCR
    /\ dead \subseteq SR_NZVC
    /\ steps \in 0 .. MaxSteps

\* The translated register forms implement BitfieldSpec: every step of the
\* emitted code leaves the registers the 68k leaves, the live N and Z the
\* 68k's, V and C cleared when live, and X untouched.
Refinement == Abs!Spec

=============================================================================
