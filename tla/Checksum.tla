------------------------------ MODULE Checksum ------------------------------
(***************************************************************************)
(* CalcCRC32 and CalcMD5 of src/src/md5.c: one call of one of them over a *)
(* buffer [_start, _end) of len bytes.  Addresses are byte offsets from    *)
(* _start.  The data is abstracted to which bytes are consumed: a CRC is   *)
(* determined by the sequence of bytes fed to it (crc32x/w/h/b take their  *)
(* operand least significant byte first; the AArch32 table step takes one  *)
(* byte), and an MD5 by the sequence of 64-byte blocks compressed.  Data   *)
(* is loaded big-endian, the byte order the line-E emitters rely on when   *)
(* they load guest memory without reversing it (LineEShiftMem,             *)
(* LineEBitfield), so the least significant byte of an n-byte load at s   *)
(* is the byte at s + n - 1.  The 64 rounds of a block and                 *)
(* the CRC table are not modelled: they do not decide which memory is     *)
(* read or which block comes next.                                         *)
(***************************************************************************)
EXTENDS Integers, Sequences

CONSTANTS
    Lens,       \* buffer lengths in bytes
    Builds,     \* subset of {"aarch64", "aarch32"}: the #if of the build
    Routines,   \* subset of {"crc32", "md5"}: the function called
    MaxSteps    \* bound on the number of loop iterations of one call

VARIABLES
    call,       \* the function called
    build,      \* the build
    len,        \* _end - _start
    pc,         \* where the call is
    s,          \* CalcCRC32: the cursor, s - _start
    fed,        \* CalcCRC32: the offsets of the bytes fed to the CRC, in order
    m,          \* CalcMD5: M - _start in 64-byte blocks
    count,      \* CalcMD5: the loop counter
    pad,        \* CalcMD5: the block held in pad[] (LengthBlock: the padding)
    blocks,     \* CalcMD5: the blocks compressed, in order
    read,       \* the byte offsets the call has read
    steps       \* loop iterations so far

vars == <<call, build, len, pc, s, fed, m, count, pad, blocks, read, steps>>

\* The block pad[] holds after M reached E: 0x80 and zeros, _start and the
\* length in bytes.
LengthBlock == -1

\* The bytes of offsets lo .. lo + n - 1, in order.
Bytes(lo, n) == [i \in 1 .. n |-> lo + i - 1]

\* The bytes of an n-byte big-endian load at lo, least significant first:
\* the order crc32x/w/h consume them.
Loaded(lo, n) == [i \in 1 .. n |-> lo + n - i]
Range(q) == {q[i] : i \in DOMAIN q}

-----------------------------------------------------------------------------
(* CalcCRC32 *)

\* crc = 0xffffffff; the AArch64 build starts the 16-byte loop, the AArch32
\* build the table loop.
CrcStart ==
    /\ s = 0
    /\ fed = <<>>
    /\ read = {}
    /\ pc = IF build = "aarch64" THEN "crc16" ELSE "table"

\* Mutant: the loop without s += 16.
Crc16_NoAdvance ==
    /\ pc = "crc16"
    /\ len - s >= 16
    /\ steps < MaxSteps
    /\ fed' = fed \o Loaded(s, 8) \o Loaded(s + 8, 8)
    /\ read' = read \cup Range(Bytes(s, 16))
    /\ steps' = steps + 1
    /\ UNCHANGED <<call, build, len, pc, s, m, count, pad, blocks>>

\* while ((e - s) >= 16): ldp val1, val2; crc32x twice; s += 16.
Crc16 ==
    /\ pc = "crc16"
    /\ len - s >= 16
    /\ steps < MaxSteps
    /\ fed' = fed \o Loaded(s, 8) \o Loaded(s + 8, 8)
    /\ read' = read \cup Range(Bytes(s, 16))
    /\ s' = s + 16
    /\ steps' = steps + 1
    /\ UNCHANGED <<call, build, len, pc, m, count, pad, blocks>>

Crc16Exit ==
    /\ pc = "crc16"
    /\ len - s < 16
    /\ pc' = "crc8"
    /\ UNCHANGED <<call, build, len, s, fed, m, count, pad, blocks, read, steps>>

\* Mutant: the tests (e - s) >= n off by one, as (e - s) >= n - 1.
CrcTail_OffByOne(n, here, next) ==
    /\ pc = here
    /\ IF len - s >= n - 1
       THEN /\ fed' = fed \o Loaded(s, n)
            /\ read' = read \cup Range(Bytes(s, n))
            /\ s' = s + n
       ELSE UNCHANGED <<fed, read, s>>
    /\ pc' = next
    /\ UNCHANGED <<call, build, len, m, count, pad, blocks, steps>>

\* Mutant: the tail steps without their s += n.
CrcTail_NoAdvance(n, here, next) ==
    /\ pc = here
    /\ IF len - s >= n
       THEN /\ fed' = fed \o Loaded(s, n)
            /\ read' = read \cup Range(Bytes(s, n))
       ELSE UNCHANGED <<fed, read>>
    /\ pc' = next
    /\ UNCHANGED <<call, build, len, s, m, count, pad, blocks, steps>>

\* if ((e - s) >= n): an n-byte load, crc32x/w/h, s += n; then the next if.
CrcTail(n, here, next) ==
    /\ pc = here
    /\ IF len - s >= n
       THEN /\ fed' = fed \o Loaded(s, n)
            /\ read' = read \cup Range(Bytes(s, n))
            /\ s' = s + n
       ELSE UNCHANGED <<fed, read, s>>
    /\ pc' = next
    /\ UNCHANGED <<call, build, len, m, count, pad, blocks, steps>>

Crc8 == CrcTail(8, "crc8", "crc4")
Crc4 == CrcTail(4, "crc4", "crc2")
Crc2 == CrcTail(2, "crc2", "crc1")

\* if (e != s): a 16-bit load at s, crc32b of its low byte, the byte at
\* s + 1; return crc.
CrcByte ==
    /\ pc = "crc1"
    /\ IF len # s
       THEN /\ fed' = Append(fed, s + 1)
            /\ read' = read \cup {s, s + 1}
       ELSE UNCHANGED <<fed, read>>
    /\ pc' = "done"
    /\ UNCHANGED <<call, build, len, s, m, count, pad, blocks, steps>>

\* AArch32: while (s < e) crc = crc32_table[(crc ^ *data++) & 0xff] ^ (crc >> 8).
CrcTable ==
    /\ pc = "table"
    /\ s < len
    /\ steps < MaxSteps
    /\ fed' = Append(fed, s)
    /\ read' = read \cup {s}
    /\ s' = s + 1
    /\ steps' = steps + 1
    /\ UNCHANGED <<call, build, len, pc, m, count, pad, blocks>>

CrcTableExit ==
    /\ pc = "table"
    /\ s >= len
    /\ pc' = "done"
    /\ UNCHANGED <<call, build, len, s, fed, m, count, pad, blocks, read, steps>>

-----------------------------------------------------------------------------
(* CalcMD5 *)

\* The 64 bytes prefetch(M, pad) copies from block k.
Block(k) == (64 * k) .. (64 * k + 63)

\* E = _start + ((len + 63) & ~63), in blocks.
EBlocks == (len + 63) \div 64

\* count = 1 + (E - M) / 16; prefetch(M, pad).
Md5Start ==
    /\ m = 0
    /\ count = 1 + EBlocks
    /\ pad = 0
    /\ blocks = <<>>
    /\ read = Block(0)
    /\ pc = "md5"

\* Mutant: M == E tested before M += 16.
Md5Compress_CheckBefore ==
    /\ pc = "md5"
    /\ count > 0
    /\ steps < MaxSteps
    /\ count' = count - 1
    /\ blocks' = Append(blocks, pad)
    /\ m' = m + 1
    /\ IF m = EBlocks
       THEN pad' = LengthBlock /\ read' = read
       ELSE pad' = m + 1 /\ read' = read \cup Block(m + 1)
    /\ steps' = steps + 1
    /\ UNCHANGED <<call, build, len, pc, s, fed>>

\* One iteration of while (count--): the 64 rounds over pad[], M += 16,
\* then pad[] gets the length block if M == E, else the next block.
Md5Compress ==
    /\ pc = "md5"
    /\ count > 0
    /\ steps < MaxSteps
    /\ count' = count - 1
    /\ blocks' = Append(blocks, pad)
    /\ m' = m + 1
    /\ IF m + 1 = EBlocks
       THEN pad' = LengthBlock /\ read' = read
       ELSE pad' = m + 1 /\ read' = read \cup Block(m + 1)
    /\ steps' = steps + 1
    /\ UNCHANGED <<call, build, len, pc, s, fed>>

Md5Return ==
    /\ pc = "md5"
    /\ count = 0
    /\ pc' = "done"
    /\ UNCHANGED <<call, build, len, s, fed, m, count, pad, blocks, read, steps>>

-----------------------------------------------------------------------------
Init ==
    /\ call \in Routines
    /\ build \in Builds
    /\ len \in Lens
    /\ steps = 0
    /\ IF call = "crc32"
       THEN CrcStart /\ m = 0 /\ count = 0 /\ pad = 0 /\ blocks = <<>>
       ELSE Md5Start /\ s = 0 /\ fed = <<>>

Next ==
    \/ Crc16 \/ Crc16Exit \/ Crc8 \/ Crc4 \/ Crc2 \/ CrcByte
    \/ CrcTable \/ CrcTableExit
    \/ Md5Compress \/ Md5Return

\* A call runs to completion on one thread: every step that is enabled is
\* taken.
Spec == Init /\ [][Next]_vars /\ WF_vars(Next)

-----------------------------------------------------------------------------
(* Properties *)

TypeOK ==
    /\ call \in Routines /\ build \in Builds /\ len \in Lens
    /\ pc \in {"crc16", "crc8", "crc4", "crc2", "crc1", "table", "md5", "done"}
    /\ s \in 0 .. len
    /\ fed \in Seq(Nat)
    /\ m \in Nat /\ count \in Nat
    /\ pad \in Nat \cup {LengthBlock}
    /\ blocks \in Seq(Nat \cup {LengthBlock})
    /\ read \subseteq Nat
    /\ steps \in 0 .. MaxSteps

\* When CalcCRC32 returns, the CRC has been fed every byte of [_start, _end)
\* exactly once, whichever of the 16/8/4/2-byte steps the length takes: in
\* the AArch32 build, and in the AArch64 build for an even length (an odd
\* one ends in the crc32b step, which ChecksumOfBuffer is about).
CrcFeedsEachByteOnce ==
    (call = "crc32" /\ pc = "done" /\ (build = "aarch32" \/ len % 2 = 0))
        => Len(fed) = len /\ Range(fed) = 0 .. (len - 1)

\* When CalcMD5 returns on a non-empty buffer, it has compressed every
\* 64-byte block of the buffer once, in order, and then the length block
\* written when M reached E, and nothing else.
Md5CompressesPadded ==
    (call = "md5" /\ pc = "done" /\ len > 0)
        => blocks = Bytes(0, EBlocks) \o <<LengthBlock>>

\* Every call returns: the while loops of CalcCRC32 and CalcMD5 end.
Terminates == <>(pc = "done")

\* Neither function reads memory outside [_start, _end): the CRC's last
\* 16-bit load and MD5's 64-byte prefetches stay within the buffer.
ReadsInBuffer == read \subseteq 0 .. (len - 1)

\* A checksum is of the buffer: CalcCRC32 and CalcMD5 read only
\* [_start, _end), and CalcCRC32 feeds its bytes in address order, as the
\* AArch32 table loop does, so that both builds return the same CRC.
ChecksumOfBuffer ==
    /\ ReadsInBuffer
    /\ (call = "crc32" /\ pc = "done") => fed = Bytes(0, len)

=============================================================================
