--------------------------- MODULE MC_FuseReaddir ---------------------------
(* Instantiates FuseReaddir for TLC.  The record layout is the real one:   *)
(* FUSE_NAME_OFFSET 24 and 8-byte alignment from the FUSE protocol, the    *)
(* 8-byte header of the 10.4 struct dirent.                               *)
EXTENDS FuseReaddir

MCNameOffset == 24
MCDirentAlign == 8
MCHostHdr == 8
\* d_fileno scaled from 32 to 4 bits: inode 16 casts to 0 as 2^32 does.
MCInoWidth == 4

E(n, i, s) == [namelen |-> n, ino |-> i, special |-> s]

\* Names of 1, 9 and 4 bytes: wire records of 32, 40 and 32 bytes, host
\* records of 12, 20 and 16; the third is a ._ name the mount filters.
\* The empty directory, and directories whose daemon sends a name of
\* length 0 or one longer than MAXNAMLEN.
MCDirs == {<<>>,
           <<E(1, 3, FALSE), E(9, 5, FALSE), E(4, 7, TRUE)>>,
           <<E(1, 3, FALSE), E(0, 5, FALSE)>>,
           <<E(1, 3, FALSE), E(10, 5, FALSE)>>}

\* MAXNAMLEN scaled from 255 to 9, so that an over-long name has a wire
\* record a request can hold.
MCMaxNameLenSmall == 9

\* Requests of up to 100 bytes: two records and part of a third fit.
MCIoSize == 100
\* Buffers that hold one wire record, and ones that hold two.
MCUserBufs == {40, 100}
\* One call per entry and one that finds the end.
MCMaxCalls == 4
=============================================================================
