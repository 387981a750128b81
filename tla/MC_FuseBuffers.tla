--------------------------- MODULE MC_FuseBuffers ---------------------------
(* Instantiates FuseBuffers for TLC with scaled-down byte counts.         *)
EXTENDS FuseBuffers

CONSTANTS c1, c2, s1, s2, s3

MCCallers == {c1, c2}
\* Two callers, one of them holding a ticket while the other's is freed or
\* killed, need at most three tickets.
MCSlots == {s1, s2, s3}
\* One opcode of each audit class whose reply lands in a buffer of the
\* ticket, and READ, whose reply lands in the caller's buffer.
MCOps == {"READ", "READDIR", "LOOKUP", "GETXATTR", "INIT", "UNLINK"}
MCHdrSize == 2
\* An empty body, and one that takes the send buffer past its first size.
MCIoSizes == {0, 4}
MCReadSizes == {2}
\* Empty, exact, one byte too long for a READ, and larger than a page.
MCBodyLens == {0, 2, 3, 6}
MCSz == [entry |-> 3, attr |-> 2, getxtimes |-> 2, open |-> 1, write |-> 1,
         statfs |-> 3, compatStatfs |-> 2, init |-> 3, initCompat |-> 2]
MCPageSize == 4
\* FU_AT_LEAST's floor equal to the permanent size: a buffer at the floor
\* is never shrunk, one grown past it is shrunk back after its credit runs
\* out.
MCMinIov == 4
MCCredit == 1
MCPermanent == 4
MCMaxFree == 1
MCMaxTickets == 1
MCMaxOps == 4
=============================================================================
