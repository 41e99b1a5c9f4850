---------------------------- MODULE MC_Checksum ----------------------------
EXTENDS Checksum

\* Lengths that take every combination of the 8/4/2/1-byte tail steps, zero,
\* one and two passes of the 16-byte loop, and one, two and three MD5 blocks
\* on both sides of a 64-byte boundary.
MC_Lens == (0 .. 40) \cup {63, 64, 65, 127, 128, 129}
MC_Builds == {"aarch64", "aarch32"}
MC_Routines == {"crc32", "md5"}
\* The AArch32 table loop takes one step per byte.
MC_MaxSteps == 130

\* Narrowings of the checksum_bounds run: CalcCRC32 alone, lengths of
\* whole 64-byte blocks, and a two-byte buffer (read in full, fed in
\* reverse by crc32h).
MC_CrcOnly == {"crc32"}
MC_Md5Only == {"md5"}
MC_BlockLens == {64, 128}
MC_TwoBytes == {2}
=============================================================================
