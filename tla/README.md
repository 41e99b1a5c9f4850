# TLA+ models of the Emu68 line-E translator

Emu68 translates 68k code into AArch64 (or AArch32) code. This repository holds one
part of it: `src/src/M68k_LINEE.c`, the translator for opcode line E (the 68k shift, rotate
and bitfield instructions). It also holds the AArch32 compatibility macros in
`src/include/ArchCompat.h` and the digests in `src/src/md5.c`. The modules here check the
instruction sequences the emitters generate against the 68k's own definition of each
instruction, bit for bit. They also check the contract between the emitters and the
condition-code liveness analysis. A separate module checks which memory `CalcCRC32` and
`CalcMD5` read, and in which order they consume it.

## The system

- **Dispatch.** `EMIT_lineE` reads one opcode. It either recognises the
  `ROd.W #8,Dn; SWAP Dn; ROd.W #8,Dn` triple and emits a single `REV`, or it looks the
  opcode up in `InsnTable[opcode & 0xfff]` and calls the row's emitter. An opcode with no
  row gets the illegal-instruction exception.
- **Table metadata.** Each row also gives `od_SRNeeds` and `od_SRSets` (flags read and
  written) and the length data. The outside world reads these through `GetSR_LineE` and
  `M68K_GetLineELength`.
- **Emitters.** `EMIT_ASL`, `EMIT_LSL`, `EMIT_ROL` and `EMIT_ROXL` handle register shifts and
  rotates; the right-shift forms are aliases of the same functions. Each emitter:
  1. decodes the opcode;
  2. maps guest registers to host registers (external allocator);
  3. emits the data operation;
  4. advances the guest PC;
  5. emits code that updates the condition-code register for the flags of the *update mask*.
  The `*_mem` emitters do the same for `.W <ea>` memory operands, and the `EMIT_BF*`
  emitters handle the bitfield instructions.
- **Checksums.** `md5.c` is independent of the translator. `CalcCRC32(_start, _end)` has two
  builds. On AArch64 it takes 16 bytes per iteration with `ldp`/`crc32x`, then one step each
  of 8, 4 and 2 bytes, then a last byte. On AArch32 it uses a table loop, one byte at a time.
  `CalcMD5` copies one 64-byte block ahead into `pad[]` (`prefetch`) and compresses `pad[]`
  `1 + ceil(len/64)` times. When `M` reaches the rounded-up end `E`, it writes the length
  block into `pad[]` instead of a prefetched block.
- **Update mask.** `M68K_GetSRMask`, an external function, returns `od_SRSets` trimmed of
  flags that later instructions overwrite before reading. A flag left out of the mask may
  hold anything afterwards. A flag outside `od_SRSets` must keep its value.

Everything runs in one thread, and an emitter runs to completion. The hard behaviours
are therefore not interleavings. They are:
- the bit layouts of the emitted code at each size, count and direction;
- the edge counts: 0, the operand width, the width + 1 of the `ROXd` ring, and 63;
- the trimmed update mask.

## Modules

| module | models | maps to |
|---|---|---|
| `HostBits` | the AArch64 instructions the emitters use (`lsl`, `rorv`, `bfi`, `bfxil`, `tst` with a logical immediate, `cmn ... LSL #k`) on words represented as **sets of bit positions**. TLC integers are 32-bit, so 64-bit host words cannot be integers. | host CPU / external encoders (not mapped) |
| `M68kShiftRef` | the 68k reference: result, C, V, Z, N, X of ASd, LSd, ROd, ROXd for a count of 0..63 | Programmer's Reference Manual (not mapped) |
| `LineEShift` | `EMIT_ASL`, `EMIT_LSL`, `EMIT_ROL`, `EMIT_ROXL` (AArch64 paths) as operators that follow the emitted instructions one by one. Also the state machine that runs translated instructions beside the reference. | `M68k_LINEE.c` 509-1931, table rows 6191-6595 |
| `MC_LineEShift` | opcode sets built from the opcode fields, register values in hex, mask choices | — |
| `LineEShiftMem` | `EMIT_ASL_mem`, `EMIT_LSL_mem`, `EMIT_ROXL_mem`, `EMIT_ROL_mem` (shift by one of a word in memory), with the same state machine over memory and an address register | `M68k_LINEE.c` 15-507, table rows 6392-6395, 6597-6600 |
| `MC_LineEShiftMem` | memory opcodes by mode, word values, mask choices | — |
| `LineEDispatch` | `EMIT_lineE` over a stream of instruction words: the REV peephole, the `InsnTable` row test, the illegal-instruction path, `GetSR_LineE` and `M68K_GetLineELength`. It instantiates `LineEShift` for the register-shift rows. | `M68k_LINEE.c` 6484-6633, 6636-6735, 6737-6769 |
| `MC_LineEDispatch` | streams: the triple, its near misses, a lone SWAP, every opcode of size field 3, and indexed-mode opcodes followed by brief and full index words | — |
| `BitfieldSpec` | the abstract specification of the bitfield instructions on Dn and on memory: the 68k's result (a field on the ring of the register, or a string of bits at 8 × EA + offset), N and Z, and the update-mask contract | Programmer's Reference Manual, `spec.md` (not mapped) |
| `LineEBitfield` | all bitfield emitters, each with its four operand paths: the register forms (`EMIT_BFTST`, `EMIT_BFEXTU`, `EMIT_BFEXTS` on Dn, `EMIT_BFFFO_reg` ... `EMIT_BFINS_reg`), the memory forms (the `<ea>` branch of `EMIT_BFTST`, `EMIT_BFEXTU`, `EMIT_BFEXTS`, and `EMIT_BFFFO`, `EMIT_BFCHG`, `EMIT_BFSET`, `EMIT_BFCLR`, `EMIT_BFINS`), and the state machine that runs them. It instantiates `BitfieldSpec` as `Abs`. | `M68k_LINEE.c` 1933-6188, table rows 6602-6632 |
| `MC_LineEBitfield` | bitfield opcodes on D0 and on (A0), extension words of the four policies, register values that are data, offsets and widths, a 14-byte memory window | — |
| `Checksum` | one call of `CalcCRC32` (both builds) or `CalcMD5` over a buffer of `len` bytes. The data is abstracted to the byte offsets that are read and the order in which bytes and blocks are consumed. | `md5.c` 27-55, 57-117, 119-209 |
| `MC_Checksum` | lengths, builds, the function called | — |

**State** of `LineEShift`:
- `d`, `ccr`: the guest data registers and CCR as the translated code leaves them.
- `rd`, `rccr`: the same as the 68k leaves them.
- `dead`: the flags the update masks have left stale.
- `fault`: the host executed an undefined instruction.
- `steps`: the instruction count.

**Actions.**
- `TranslateASL`, `TranslateLSL`, `TranslateROXL` and `TranslateROL` each dispatch one opcode of their class to its emitter.
- `Exec` is the common frame of these actions:
  1. the instruction may not need a dead flag;
  2. the mask is any subset of `od_SRSets`;
  3. the emitter's effect is applied;
  4. the reference executes the same instruction;
  5. the flags outside the mask become dead.
- Each `EMIT_*` operator keeps the code's control:
  - the `regshift` / immediate split;
  - the size switch;
  - the `if (update_mask & ...)` guards;
  - the `ROXd` zero-count branch and its placeholder word.
- The data is abstracted to bit sets.
- A register count is read through its low 6 bits. Every consumer in the code (`lslv64`,
  `rorv`, `ands #63`, the 32-bit `sub`/`neg`/`add` feeding them) depends only on those bits.

**State** of `LineEShiftMem`:
- `mem`, `a`, `ccr`: memory (a function from even addresses to 16-bit words), the address
  register A0 and the CCR after the translated code.
- `rmem`, `ra`, `rccr`: the same after the 68k.
- `dead` and `steps`: as in `LineEShift`.

**Actions** of `LineEShiftMem`: `TranslateASLmem`, `TranslateLSLmem`, `TranslateROXLmem` and
`TranslateROLmem` share one frame, `Exec`. Each emitter operator follows the emitted code:
1. the load: `ldrsh` for ASd, `ldrh` for the others, with pre-index by -2 for `-(An)`;
2. the C test on the loaded word;
3. the shift or rotate by one on the 32-bit temporary (ROd replicates the word first, ROXd ORs X in);
4. the store: `strh`, with post-index by +2 for `(An)+`;
5. the flag block.
`LoadAddr` and `AnAfter` give the emitter's addressing. The 68k side has its own
definitions, `RefAddr` and `RefAn`. For the modes other than `(An)`, `(An)+` and `-(An)`,
the address comes from `EMIT_LoadFromEffectiveAddress`, and the emitter neither reads it
nor changes it. It is therefore any address of `Addrs`. `(xxx).L` stands for all of those modes.

**Assumptions about code outside the repository:**
- `EMIT_GetNZ00` sets N and Z from the host flags and clears V and C for the flags in the
  mask. `EMIT_GetNZxx` sets N and Z only.
- Guest registers sit zero-extended in host registers; every write in this file is a W-form write.
- `RA_CopyFromM68kRegister` returns the guest register's value from before the instruction,
  even when `RA_MapM68kRegisterForWrite` has already mapped the same register as a
  bitfield destination. The bitfield emitters map the destination first.
- `EMIT_AdvancePC` and `RA_ModifyCC` emit no flag-setting instructions.
- The host reads and writes data big-endian. Neither `spec.md` nor the code says so, but the
  emitters depend on it: the memory shifts take the 68k word from `ldrsh`/`ldrh` with no byte
  reversal, and the memory bitfields take bit 63 of an `ldr64` as the first bit at the EA.
  `LineEShiftMem`, `LineEBitfield` and `Checksum` all assume this byte order.
- For a memory bitfield, `EMIT_LoadFromEffectiveAddress` returns the EA in a scratch
  register, which the register-offset paths then move by `offset ASR 3`.
- For `(An)+` and `-(An)`, `EMIT_LoadFromEffectiveAddress` with size 0 returns the host
  register that holds An. The emitters' pre-index load and post-index store therefore
  update An.

**State** of `LineEDispatch`:
- `prog`, `pc`: the instruction stream and the index of the next word (`m68k_ptr`).
- `d`, `ccr`, `dead`, `fault`: as in `LineEShift`.
- `rd`, `rccr`: the 68k's registers and CCR.
- `exc`, `rexc`: whether the translated code and the 68k raised the illegal-instruction exception.
- `gpc`, `rpc`: the guest PC advance the translated code emits (`EMIT_AdvancePC`), and the 68k's PC.

**Actions** of `LineEDispatch`:
- `RevTriple`: the triple `ROd.W #8,Dn; SWAP Dn; ROd.W #8,Dn` becomes one `rev`. The flags
  use the mask of the *first* instruction. Three words are consumed and the PC advances by 6.
  The 68k side executes the three instructions one by one, each decoded from its own word.
- `TableInsn`: an opcode with a row. The register shifts call `LineEShift`'s `Dispatch`.
  A block of this module stops before a memory or bitfield row, which `LineEShiftMem`
  covers or which is not modelled.
- `Illegal`: an opcode without a row raises the exception.
- `Swap`: a SWAP outside a triple. The line-4 translator, outside this repository, handles
  it, and it is modelled as the 68k defines it.

`M68K_GetLineELength(p, i)` is an operator over the stream. It returns the row's
`od_BaseLength` (`BaseLength`) plus, if `od_HasEA` (`HasEA`), the EA's extension words, read
after the base length. `EmitterLength(p, i)` is what the emitter consumes: the opcode and
`ext_words`. `ext_words` starts at 1 in the bitfield emitters and at 0 in the memory shifts,
and the EA resolver adds its words, read at `m68k_ptr[ext_words]`. `SR_GetEALength` and the EA
resolver are outside the repository. Both count with `EAExtWords`, the 68020 formats: brief
and full index words, with null, word and long base and outer displacements.

**State** of `LineEBitfield`: `d`, `ccr` and `mem` (bytes `Addrs`, each a set of bit
positions) as the translated code leaves them, `dead`, the last instruction `last`, and
`steps`. All but `steps` are the variables of `BitfieldSpec`.

**Actions** of `LineEBitfield`: `TranslateBFTST` ... `TranslateBFINS`, one per table row
class, share `Exec`:
1. an instruction of the class and a mask choice, cut to `od_SRSets` (NZVC);
2. `Dispatch` routes the opcode as `InsnTable` does. The field readers (BFTST, BFEXTU,
   BFEXTS) handle Dn inside their emitter. The others call their `_reg` emitter.
3. The emitter operator gives the new register value and the host N and Z. It follows the
   emitted code on bit sets:
   - the register doubled into a 64-bit temporary (`lsl64`/`orr64`), or rotated so that
     the field is at the top;
   - `ands64` with a top-w mask, or `cmn` for width 32;
   - `ubfx64`/`sbfx64`, `lsrv64`/`asrv64`, `clz64`, `eor`/`orr`/`bic` with a rotated
     mask;
   - the width-32 and `{0:0}` special cases.
   For a memory operand, `DispatchMem` routes to the `*_mem` operators, which follow the
   `<ea>` branch:
   - the EA `Base`, moved by `offset ASR 3` for a register offset (`MemEA`);
   - `ldr64` of the 8 bytes there (`Load64`, big-endian);
   - the shift by the immediate offset or by `offset & 7` (`MemShift`);
   - the top-w mask and `ands64` (`MemTop`);
   - the extraction, `clz64`, or `eor`/`orr`/`bic`/`bfi` with the mask moved onto the field
     (`MemFieldMask`);
   - the `str64` back of the modifying forms (`Store64`).
   `MemGuard` takes only steps whose 8 bytes lie in `Addrs`.
4. The flag block `if (update_mask) { ... EMIT_GetNZ00 }` (`CcNZ00`).

Each emitter's result is passed as an argument to one operator that applies it:
- `Written`, `WrittenNZ`, `Extracted` and `Stored` write the register or the memory;
- `Apply` (in all three translator modules) makes the primed assignments.

So each emitter occurs once in an action. TLC's profiler (`-coverage`) expands an
operator at every place it is used. When the result was a LET name read three or four
times, that expansion was exponential in the nesting of the emitters, and the bitfield
run never got past its initial states.

**State** of `Checksum`:
- `call`, `build`, `len`: the function called, the `#if` of the build and `_end - _start`.
- `pc`: the `if` or loop the call is at.
- `s`, `fed`: the CRC's cursor and the offsets of the bytes fed to `crc32x/w/h/b` or to the
  table step, in order. A CRC is a function of that byte sequence. The `crc32` instructions
  take their operand LSB first. On the big-endian data the translator assumes, that is the
  last byte of each load first (`Loaded`). The final `crc32b` takes the low byte of a
  16-bit load, which is the byte after the cursor.
- `m`, `count`, `pad`, `blocks`: `M` in blocks, the loop counter, the block held in `pad[]`
  (`LengthBlock` for the padding), and the blocks compressed, in order.
- `read`: every offset the call has loaded, including those of the 16-bit load at line 150
  and of the 64-byte prefetches.
- `steps`: loop iterations so far, capped by `MaxSteps`.

**Actions** of `Checksum`:
- `Crc16`/`Crc16Exit`: the 16-byte loop.
- `Crc8`, `Crc4` and `Crc2`: the three `if ((e - s) >= n)` steps. All are instances of
  `CrcTail`.
- `CrcByte`: `if (e != s)` and the return.
- `CrcTable`/`CrcTableExit`: the AArch32 loop.
- `Md5Compress`: one iteration of `while (count--)`, with its `M == E` choice between the
  length block and the next prefetch.
- `Md5Return`: the return.

`Init` enters the function: `crc = 0xffffffff`, or `E`, `count` and the first prefetch.

**Refinement.** `BitfieldSpec` is stated from the manual and `spec.md`, not from the code:
- a field at offset o and width w (0 meaning 32) runs from bit 31 - o downwards and wraps
  past bit 0;
- a register offset is taken modulo 32;
- BFFFO adds the whole offset register to the index of the first one;
- BFINS takes N and Z from the inserted value, the others from the field;
- a memory field starts at bit address 8 × EA + offset, where a register offset is a signed
  long; bit address p is bit 7 - p mod 8 of byte p div 8. The field may start before the EA,
  and it covers one to five bytes. `Execute` takes only fields whose bytes are in `Addrs`.

Its one action, `Execute`, lets any NZVC flag outside the mask hold anything and keeps X.
`LineEBitfield` has the same variables, so the refinement mapping is the identity, and
`Refinement == Abs!Spec` is checked as a temporal property. `steps` is the only variable
it hides. The spec says nothing about the bytes around a memory field, and the code
rewrites them with their old values, so the refinement holds there.

## Runs

| run | cfg | expect | what it shows |
|---|---|---|---|
| `shift_imm` | `shift_imm.cfg` | pass | Covers every immediate-count register shift and rotate: 4 classes × 2 directions × 3 sizes × counts 1..8 × destination D0/D1. It uses 5 operand values per register, all 32 update masks, and X clear or set. Data, N, Z, C and X agree with the 68k (282,660 states). |
| `shift_reg` | `shift_reg.cfg` | pass | Covers register counts with low six bits 0, 1, 8, 9, 16, 17, 31, 32, 33, 56, 63. The count register may be the destination. Data, N and Z agree for every class, size and direction. C and X are left to `reg_flags`. |
| `reg_flags` | `reg_flags.cfg` | violation | `FlagEdgesAgree` (`CarryAgree`, `OverflowAgree` and `HostNeverFaults`) covers the ASL immediate forms and every register-count shift by a register holding 0 or 33 (0 modulo the 33-bit ring of ROXd.L). Several code paths get it wrong: <br>- ASL never sets V. <br>- ASd, LSd and ROd by 0 change X or C. LSR clears X, ASR / LSL.W set C from the sign bit or bit 16 of the register, and ROd sets C from the result. <br>- ROXd by 0 with C live and X dead clears C. <br>- ROXL.L by 33 takes C and X from operand bit 1. <br>- ROXR.L by 32 takes C and X from d0 instead of d31. The `.L` right layout (lines 1593-1596) repeats only d0..d30 above X, so after `rorv64` by 32, bit 32 (read at line 1668) holds d0. `Opcodes <- ROXR_RegOpcodes` and `Words <- MC_Count32Words` show it: D1 = 32 and D0 = 1 sets C. <br>- ROXd by 0 with X and C dead runs into an unpatched placeholder word (UDF). <br>TLC reports the first it meets (ASL by 0 clears X). The findings name the narrower `MC_LineEShift` sets that show each of the others. |
| `mem_shift` | `mem_shift.cfg` | pass | ASd, LSL and ROXd `.W <ea>` in `(A0)`, `(A0)+`, `-(A0)` and `(xxx).L`, two instructions in a row, every update mask. Memory, A0, N, Z, C and X agree with the 68k (141,789 states). |
| `mem_rotate` | `mem_rotate.cfg` | pass | ROd, ASR and LSR `.W <ea>`: the right shifts, whose V the 68k clears, and no consumer of X. Two in a row. Memory, A0, N and Z agree, and a live V is cleared (115,644 states). |
| `mem_flags` | `mem_flags.cfg` | violation | `MemFlagsAgree` (`MemoryAgrees` and `OverflowAgree`) for ASL.W `<ea>`, ROXd.W `<ea>`, and ROd.W followed by ROXd.W. <br>- ASL.W `<ea>` never sets V (0x4000 << 1). <br>- ROXd.W `<ea>` leaves V stale when the mask holds V but neither N nor Z, because V is cleared only by `EMIT_GetNZ00` inside the N/Z branch. <br>- ROd.W `<ea>` overwrites its temporary with the update mask (line 453) and then tests it for C (lines 473-484). ROL always sets C, ROR never does, and both set X, which ROd must leave alone. A following ROXR.W `(A0)` rotates that X into memory: 0 becomes 0x8000. <br>TLC reports the stale V of ROXd first. The findings name the narrowings that show the others. |
| `dispatch` | `dispatch.cfg` | pass | Covers streams with the triple in both directions, its near misses (SWAP of another register, a third rotate of another size), a lone SWAP, and each of the 1024 opcodes with size field 3. Registers, the guest PC, the words consumed and the exception agree with the 68k. `InsnTable` has a row for exactly the legal memory-shift and bitfield opcodes, including the PC-relative modes only for the field readers. `LengthAgrees`: `M68K_GetLineELength` equals the words the emitter consumes, for every opcode with a row and for indexed modes with brief and full index words (34,100 states). |
| `rev_flags` | | violation | After the peephole, N and Z are those of a 32-bit `cmn` under the *first* rotate's mask (line 6648). The liveness analysis gives that mask for an instruction whose flags the SWAP overwrites, so it is usually empty, and the flags the third rotate should set stay stale: 0 leaves Z clear. |
| `bitfield` | `bitfield.cfg` | pass | `Refinement` and `TypeOK`. All eight bitfield instructions on D0 and on (A0), each in 19 extension words: <br>- all four operand policies; <br>- offsets 0, 4 and 28 (a field that wraps); <br>- widths 1, 8 and 32; <br>- the offset or width register being the destination register D1; <br>- the masks {}, NZ and NZVC. <br>The register offsets 28 and -24 move a memory field 3 bytes forward and back; the others put it outside memory. Every start state of three registers over five values, with one memory image (150,160 states). The translated code implements `BitfieldSpec`. It excludes only the BFFFO case below. |
| `checksum` | `checksum.cfg` | pass | Covers both builds, lengths 0..40, 63..65 and 127..129, and either function. Three properties hold: <br>- `CrcFeedsEachByteOnce`: at its return, `CalcCRC32` has fed each of bytes 0..len-1 once, in the AArch32 build and, in the AArch64 build, for an even length. <br>- `Md5CompressesPadded`: for len > 0, `CalcMD5` has compressed blocks 0..ceil(len/64)-1 and then the length block. <br>- `Terminates`: every call returns, under weak fairness. <br>2,224 states. |
| `checksum_bounds` | `checksum_bounds.cfg` | violation | `ChecksumOfBuffer` is violated. It requires that the calls read only the buffer (`ReadsInBuffer`) and that the CRC be fed in address order, as in the AArch32 build. <br>- `CalcMD5` reads whole blocks past `_end`. After the length block it prefetches one more block, past `E`. For len 0 it compresses the 64 bytes at `_start`, which lie outside the buffer, and never the length block. <br>- On AArch64 with big-endian data, `CalcCRC32` feeds each 8-, 4- or 2-byte load last byte first. For an odd length it loads 16 bits at the last byte (line 150) and feeds the byte past `_end` instead of the last one. The two builds give different CRCs. <br>TLC reports the len-0 MD5 initial state. `Routines <- MC_CrcOnly` shows the CRC read (len 1 reads {0, 1}). Adding `Lens <- MC_TwoBytes` shows the order (len 2 fed <<1, 0>>). |
| `bfffo_whole` | `bfffo_whole.cfg` | violation | BFFFO D0{0:0},D1 with N and Z dead. `EMIT_BFFFO_reg` emits `clz dest, src` only inside `if (update_mask)` (line 3272), so D1 is not written. For D0 = 0 the 68k writes 32. |

`mem_shift` runs ROXd without ROd, and `mem_rotate` runs ROd without ROXd. That keeps the ROd X
bug, which `mem_flags` shows, out of the data comparison of the passing runs.

The carry of register-count shifts is checked only by `reg_flags`, a violation run, because
the code gets it wrong in three places:
- a zero count;
- the ROXd ring edge (33);
- ROXR.L by 32.

Across register counts 1..63, checked with only C and X live, these are the only
disagreements. No passing run checks the carry of a register count.

**Bounds.**
- One instruction per behaviour (`MaxSteps = 1`) with D0/D1 is enough for the data and flag
  questions: each emitter's effect depends only on the destination, the count register and
  the CCR.
- The operand values contain, at byte, word and long size:
  - both signs;
  - zero;
  - all ones;
  - single edge bits;
  - mixed patterns.
- The count values hit every branch of the code: zero, the width, width + 1 of the ring,
  the 6-bit maximum, the value that is 0 mod 33 but not mod 64, and 32, where the ROXR.L
  layout runs out.
- A translated block ends after `MaxSteps` instructions or at a host fault. The cfgs
  therefore say `CHECK_DEADLOCK FALSE`: the end of a block is not a deadlock.

- Memory runs use two words, 0 and 2, with A0 = 2 and two instructions. This gives
  `-(A0)` then `(A0)+`, `(A0)+` then an access that would leave memory (not enumerated), and
  the ROd-then-ROXd chain. The words are 0, FFFF, 8001 and 4000:
  - each edge bit set and clear (8001: each shift moves one edge bit out and the other across the word);
  - a sign change under ASL (4000);
  - a word with bit 0 clear.

- Bitfield runs take one instruction from every assignment of D0..D2 over five words:
  - F0000001, the manual's ring example;
  - 1C, an offset of 28, so the field wraps, and a width of 28;
  - FFFFFFE8, offset 8 and width 8 modulo 32, and a negative offset for BFFFO;
  - 0, an empty field and a register width of 32;
  - 80000021, offset 1 and width 1 with the sign bit set.

  Each emitter's effect depends only on the source, the data register and the offset and
  width registers, and all of these are among D0..D2. So one step from every start state
  covers every pair of an instruction and a register state in the bounds. Two steps add only
  register states already in the bounds and took ten minutes.
- Memory bitfields use bytes 0..13 with A0 = 3, so that the 8-byte load of every immediate
  offset (at 3) and of the register offsets 28 and -24 (at 6 and 0) is in memory. The image
  mixes set and clear bits. Byte 0 is zero, so the fields at -24 of width up to 8 are empty
  and BFFFO finds no one. Byte 3 is 80, a field whose top bit alone is set. Fields at
  immediate offsets up to 28 with width 32 reach byte 10, across five bytes. A second image
  of zeros doubled the states and the run time.

- Dispatch streams are at most three words long, with `MaxSteps = 3`. That is enough for
  the triple, for its near misses taken one instruction at a time, and for a shift followed by
  an illegal opcode. Every size-3 opcode sits alone in a stream. Every row of the table
  that is not a register shift is therefore decoded in some initial state.
  The length streams are four words long. They hold an opcode in d8(A0,Xn) or d8(PC,Xn),
  then the bitfield word if there is one, then an index word, then a zero word. The index
  words are a full word with a null base displacement (1 word), one with a word
  displacement (2 words), and one with long base and outer displacements (5 words). The
  bitfield word, 2, would be a brief index word, so a length that reads the EA from the
  wrong word differs. A stream that ends early reads zeros, a brief index word.

- `Checksum` lengths take every subset of the 8/4/2/1-byte tail steps (0..15 remaining),
  zero, one and two passes of the 16-byte loop (up to 40), and one, two and three MD5 blocks
  on both sides of a 64-byte boundary (63..65, 127..129). `MaxSteps = 130` is above the 129
  table steps of the longest AArch32 CRC, so the cap never stops a correct call. A mutant
  that does not advance stops at the cap, and `Terminates` catches that.
  The CRC table, the MD5 rounds and `_start` do not influence the control, so they are not
  modelled. `checksum.cfg` says `CHECK_DEADLOCK FALSE` because a call that has returned
  takes no further step.

**Fairness.** The translator properties are safety properties of single translated
instructions, and the translator specifications have no fairness. `Checksum`'s `Spec` has
`WF_vars(Next)`. A call is a plain C function on one thread, with no lock or wait, so once it
is entered it keeps taking its next step until it returns. `Terminates == <>(pc = "done")`
is checked under that assumption.

## Plan

1. Done: **`LineEShiftMem`**.
2. Done: **`LineEDispatch`**, with `M68K_GetLineELength` checked against the words the
   emitters consume.
3. Done: **`LineEBitfield`** refines **`BitfieldSpec`**, for the register and the memory
   forms.
4. **AArch32 build.** A second host semantics in which `ArchCompat.h`'s macros replace the
   AArch64 encoders.
5. Done: **`md5.c`**, as the bytes and blocks consumed. The CRC and MD5 values themselves
   are not checked: a table CRC and a 64-round compression over enumerated bytes are beyond
   what TLC evaluates in reasonable time, and the control does not depend on them.

## Not modelled

- The register allocator, EA resolver, PC tracker and `M68K_GetSRMask`: external, and
  represented only by the assumptions above.
- Text and debug output (`EMIT_InjectDebugString`, `kprintf`).
- Bitfield EA modes other than (A0). The emitters treat every mode alike after
  `EMIT_LoadFromEffectiveAddress`, which is external. The model also does not represent what
  the 8-byte `ldr64`/`str64` does to the up to 7 bytes next to the field. The code writes
  their old values back, which only a concurrent writer (DMA, custom chips) or a page
  boundary could tell apart. Both are outside the single-threaded, fault-free memory of
  `spec.md` §5, and the hazard is listed.
- `ArchCompat.h`, the AArch32 build of the translator. Two of its macros are wrong, and both
  are listed as hazards.
  - `tbz`, `tbnz` and `cbnz` expand to two statements. `*ptr++ = cbnz(width_reg, 2)` in the
    bitfield emitters (line 2025 and four more) therefore stores the `cmp` and drops the
    branch, so every register width becomes 32.
  - `bfxil` is mapped to `bfi`.
  A second host semantics is the remaining step; the run budget is spent on the AArch64 build.
- The values of the MD5 digest and the CRC (see the plan).
