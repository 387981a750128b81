--------------------------- MODULE MC_FuseStrategy ---------------------------
(* Instantiates FuseStrategy for TLC with small byte counts.              *)
EXTENDS FuseStrategy

\* A block of two bytes and chunks of two bytes, so that buffers of three
\* and four bytes take two or more rounds and a buffer may end inside a
\* block.
MCBlockSize == 2
MCIoSize == 2
MCBufCounts == {0, 1, 3, 4}
\* Cached sizes before, inside and past the buffers of blocks 0 and 1.
MCFileSizes == {0, 1, 3, 5}
MCBlkNos == {-1, 0, 1}
MCVTypes == {"VREG", "VDIR", "VLNK"}
MCModes == {"read", "write"}
MCWriteModes == {"write"}
\* One byte more than a chunk: the audit has something to refuse.
MCMaxReply == 3
MCMaxAck == 3
\* A four-byte read takes at most four non-empty replies and one empty one.
MCMaxRounds == 5
\* An 8-bit unsigned int: wide enough for every count, small enough for
\* TLC, and wrapping where the 32-bit one wraps.
MCUWidth == 8
=============================================================================
