---------------------------- MODULE FuseStrategy ----------------------------
(***************************************************************************)
(* The bulk data path of fuse_internal.c: fuse_internal_strategy_buf and   *)
(* fuse_internal_strategy carrying out one buffer I/O (struct buf) as a    *)
(* loop of FUSE_READ / FUSE_WRITE requests of at most data->iosize bytes.   *)
(*                                                                         *)
(* The dispatcher is abstracted to its result: fdisp_wait_answ either      *)
(* fails (and then has released the ticket itself, by a drop or by handing *)
(* it to the late reply) or succeeds with a reply the daemon chose among   *)
(* those fuse_body_audit admits.  Sizes are byte counts; the unsigned      *)
(* 32-bit quantities of the code (buf_resid, the u_int min(), the          *)
(* arithmetic on fwo->size) are kept modulo 2^UWidth.                       *)
(***************************************************************************)
EXTENDS Integers, Sequences, SequencesExt, FuseFile

CONSTANTS
  BlockSize,    \* data->blocksize (biosize)
  IoSize,       \* data->iosize, the largest chunk
  BufCounts,    \* buf_count(bp) of the buffers the VM layer may issue
  FileSizes,    \* fvdat->filesize, the cached size of the node
  BlkNos,       \* buf_lblkno(bp) values, -1 for a block with no backing
  VTypes,       \* vnode types reaching the strategy routine
  Modes,        \* "read" (B_READ set) and "write"
  MaxReply,     \* bound: largest reply body the daemon sends
  MaxAck,       \* bound: largest fwo->size the daemon sends
  AckOver,      \* the daemon may acknowledge more than it was sent
  FhCanFail,    \* fuse_filehandle_get may fail
  MapCanFail,   \* buf_map may fail
  MaxRounds,    \* bound: requests one strategy call sends
  UWidth        \* width of the code's unsigned int

ASSUME /\ BlockSize \in Nat \ {0} /\ IoSize \in Nat \ {0}
       /\ Modes \subseteq {"read", "write"} /\ Modes # {}
       /\ VTypes \subseteq {"VREG", "VDIR", "VLNK"}
       /\ {AckOver, FhCanFail, MapCanFail} \subseteq BOOLEAN
       /\ MaxRounds \in Nat /\ UWidth \in Nat

VARIABLES
  pc,       \* control point of the thread running the strategy
  mode,     \* B_READ or write
  vtype,    \* vnode_vtype(vp)
  cluster,  \* B_CLUSTER in buf_flags(bp)
  upl,      \* buf_upl(bp) is not NULL
  blkno,    \* buf_blkno(bp)
  lblkno,   \* buf_lblkno(bp)
  bufLen,   \* length of the caller's buffer (buf_count when issued)
  count,    \* buf_count(bp)
  resid,    \* buf_resid(bp)
  fileSize, \* fvdat->filesize
  offset,   \* file offset of the next request
  left,     \* bytes still to write (off_t)
  bufPos,   \* bufdat, as an offset into the caller's buffer
  chunk,    \* chunksize of the request in flight
  err,      \* err, "0" when none
  mapped,   \* the buffer is mapped
  biodone,  \* buf_biodone(bp) was called
  tick,     \* fdi.tick: "none", "held" or "released"
  releases, \* times the ticket was released
  sent,     \* the requests sent: file offset, size, buffer position, handle
  fufhValid, \* the types of fvdat->fufh[] with FUFH_VALID set
  fufhType  \* fufh_type, the handle the requests go out on

vars == <<pc, mode, vtype, cluster, upl, blkno, lblkno, bufLen, count, resid,
          fileSize, offset, left, bufPos, chunk, err, mapped, biodone, tick,
          releases, sent, fufhValid, fufhType>>

Errno == {"0", "EIO", "EINVAL", "EFAULT", "ENOTSUP", "EWAIT"}
UMax  == 2^UWidth

\* The C conversion of a value to unsigned int.
UInt(n) == n % UMax

\* min() of libkern takes and returns u_int.
UMin(a, b) == IF UInt(a) < UInt(b) THEN UInt(a) ELSE UInt(b)

\* Mutant: no audit of the read reply's length.
ReadAuditDropped(size) == 0..MaxReply

\* The reply sizes fuse_body_audit admits for FUSE_READ and FUSE_READDIR:
\* fri->size >= blen.
ReadAudit(size) == {n \in 0..MaxReply : size >= n}

\* fuse_body_audit checks only that the FUSE_WRITE reply is a
\* struct fuse_write_out; its size field is whatever the daemon wrote.
WriteAcks(size) == IF AckOver THEN 0..MaxAck ELSE 0..size

\* fdisp_make_vp: fetch a ticket on the first round, refresh it afterwards.
MakeRequest ==
  /\ tick' = "held"
  /\ sent' = Append(sent, [off |-> offset, size |-> chunk', pos |-> bufPos,
                               fh |-> fufhType])

\* Mutant: an error of fdisp_wait_answ returns at once instead of going
\* to out:.
WaitFailedReturns ==
  /\ err' = "EWAIT"
  /\ tick' = "released"
  /\ releases' = releases + 1
  /\ pc' = "done"

\* An error of fdisp_wait_answ: it has dropped or handed over the ticket.
WaitFailed ==
  /\ err' = "EWAIT"
  /\ tick' = "released"
  /\ releases' = releases + 1
  /\ pc' = "out"

Return == /\ pc' = "done"
          /\ UNCHANGED <<mapped, tick, releases, sent>>

bufVars == <<mode, vtype, cluster, upl, lblkno, bufLen, fileSize>>

inVars == <<bufVars, fufhValid, fufhType>>

(***************************************************************************)
(* fuse_internal_strategy_buf                                              *)
(***************************************************************************)

\* A paged buffer goes to cluster_bp, which issues it again as a cluster
\* I/O; a block mapped to -1 has no backing and completes at once.
StrategyBuf ==
  /\ pc = "buf"
  /\ IF ~cluster
       THEN IF upl
              THEN /\ cluster' = TRUE
                   /\ UNCHANGED <<pc, blkno, biodone>>
              ELSE LET bn == IF blkno = lblkno
                               THEN (lblkno * BlockSize) \div BlockSize
                               ELSE blkno
                   IN /\ blkno' = bn
                      /\ pc' = IF bn = -1 THEN "done" ELSE "strat"
                      /\ biodone' = (bn = -1)
                      /\ UNCHANGED cluster
       ELSE /\ pc' = "strat"
            /\ UNCHANGED <<cluster, blkno, biodone>>
  /\ UNCHANGED <<mode, vtype, upl, lblkno, bufLen, count, resid, fileSize,
                 offset, left, bufPos, chunk, err, mapped, tick, releases,
                 sent, fufhValid, fufhType>>

(***************************************************************************)
(* fuse_internal_strategy                                                  *)
(***************************************************************************)

\* The handle type the strategy looks for first.
StrategyFufhType == IF mode = "read" THEN "FUFH_RDONLY" ELSE "FUFH_WRONLY"

\* The valid handle it takes: that type, else a read-write handle.
ExistingFufh ==
  CASE StrategyFufhType \in fufhValid -> StrategyFufhType
    [] StrategyFufhType \notin fufhValid /\ "FUFH_RDWR" \in fufhValid
         -> "FUFH_RDWR"
    [] OTHER -> "FUFH_INVALID"

\* Mutant: the type opened when no handle is valid is swapped.
OpenFufhTypeSwapped == IF mode = "read" THEN "FUFH_RDWR" ELSE "FUFH_RDONLY"

\* The type fuse_filehandle_get opens when the node has no valid handle.
OpenFufhType == IF mode = "read" THEN "FUFH_RDONLY" ELSE "FUFH_RDWR"

\* With a handle: the zero-length buffer returns, any other starts the I/O.
Proceed ==
  \/ /\ count = 0
     /\ UNCHANGED <<err, biodone>>
     /\ Return
  \/ /\ count # 0
     /\ pc' = IF mode = "read" THEN "rstart" ELSE "wstart"
     /\ UNCHANGED <<err, biodone, mapped, tick, releases, sent>>

\* The vnode type check, the choice of a valid filehandle or the open of
\* a new one (which may fail: EIO), and the zero-length buffer.
Strategy ==
  /\ pc = "strat"
  /\ \/ /\ vtype \notin {"VREG", "VDIR"}
        /\ err' = "ENOTSUP"
        /\ UNCHANGED <<biodone, fufhValid, fufhType>>
        /\ Return
     \/ /\ vtype \in {"VREG", "VDIR"}
        /\ ExistingFufh # "FUFH_INVALID"
        /\ fufhType' = ExistingFufh
        /\ UNCHANGED fufhValid
        /\ Proceed
     \/ /\ vtype \in {"VREG", "VDIR"}
        /\ ExistingFufh = "FUFH_INVALID"
        /\ FhCanFail
        /\ err' = "EIO"
        /\ biodone' = TRUE
        /\ UNCHANGED <<fufhValid, fufhType>>
        /\ Return
     \/ /\ vtype \in {"VREG", "VDIR"}
        /\ ExistingFufh = "FUFH_INVALID"
        /\ fufhType' = OpenFufhType
        /\ fufhValid' = fufhValid \cup {OpenFufhType}
        /\ Proceed
  /\ UNCHANGED <<bufVars, blkno, count, resid, offset, left, bufPos, chunk>>

\* buf_map failed: return EFAULT.
MapFailed ==
  /\ MapCanFail
  /\ err' = "EFAULT"
  /\ UNCHANGED biodone
  /\ Return

\* The read set-up: the residual, the EOF checks and the trimming.
ReadStart ==
  /\ pc = "rstart"
  /\ resid' = UInt(count)
  /\ offset' = blkno * BlockSize
  /\ IF offset' >= fileSize
       THEN /\ err' = IF offset' # fileSize THEN "EINVAL" ELSE err
            /\ biodone' = TRUE
            /\ UNCHANGED count
            /\ Return
       ELSE /\ count' = IF offset' + count > fileSize
                          THEN UInt(fileSize - offset') ELSE count
            /\ \/ MapFailed
               \/ /\ mapped' = TRUE
                  /\ pc' = "rloop"
                  /\ UNCHANGED <<err, biodone, tick, releases, sent>>
  /\ UNCHANGED <<inVars, blkno, left, bufPos, chunk>>

\* Mutant: the chunk is not clamped to data->iosize.
ReadChunkNoClamp ==
  /\ pc = "rloop"
  /\ \/ /\ resid > 0
        /\ Len(sent) < MaxRounds
        /\ chunk' = resid
        /\ MakeRequest
        /\ pc' = "rwait"
        /\ UNCHANGED releases
     \/ /\ resid = 0
        /\ pc' = "fin"
        /\ UNCHANGED <<chunk, tick, releases, sent>>
  /\ UNCHANGED <<inVars, blkno, count, resid, offset, left, bufPos, err,
                 mapped, biodone>>

\* Mutant: the request is sent and the loop goes on without
\* fdisp_wait_answ.
ReadChunkNoWait ==
  /\ pc = "rloop"
  /\ \/ /\ resid > 0
        /\ Len(sent) < MaxRounds
        /\ chunk' = UMin(resid, IoSize)
        /\ MakeRequest
        /\ UNCHANGED <<pc, releases>>
     \/ /\ resid = 0
        /\ pc' = "fin"
        /\ UNCHANGED <<chunk, tick, releases, sent>>
  /\ UNCHANGED <<inVars, blkno, count, resid, offset, left, bufPos, err,
                 mapped, biodone>>

\* One round of the read loop: a FUSE_READ (FUSE_READDIR on a directory)
\* of min(buf_resid, iosize) bytes at the current offset.
ReadChunk ==
  /\ pc = "rloop"
  /\ \/ /\ resid > 0
        /\ Len(sent) < MaxRounds
        /\ chunk' = UMin(resid, IoSize)
        /\ MakeRequest
        /\ pc' = "rwait"
        /\ UNCHANGED releases
     \/ /\ resid = 0
        /\ pc' = "fin"
        /\ UNCHANGED <<chunk, tick, releases, sent>>
  /\ UNCHANGED <<inVars, blkno, count, resid, offset, left, bufPos, err,
                 mapped, biodone>>

\* Mutant: the file offset is not advanced by the reply (the historical
\* fri->offset = buf_blkno * biosize).
ReadReplyStaleOffset ==
  /\ pc = "rwait"
  /\ \/ /\ WaitFailed
        /\ UNCHANGED <<resid, offset, bufPos>>
     \/ \E n \in ReadAudit(chunk) :
          LET r == UInt(resid - n) IN
          /\ bufPos' = bufPos + n
          /\ offset' = offset
          /\ resid' = IF n = 0 /\ r > 0 THEN 0 ELSE r
          /\ pc' = IF n = 0 /\ r > 0 THEN "fin" ELSE "rloop"
          /\ UNCHANGED <<err, tick, releases>>
  /\ UNCHANGED <<inVars, blkno, count, left, chunk, mapped, biodone, sent>>

\* Mutant: an empty reply does not end the loop.
ReadReplyNoPadStop ==
  /\ pc = "rwait"
  /\ \/ /\ WaitFailed
        /\ UNCHANGED <<resid, offset, bufPos>>
     \/ \E n \in ReadAudit(chunk) :
          /\ bufPos' = bufPos + n
          /\ offset' = offset + n
          /\ resid' = UInt(resid - n)
          /\ pc' = "rloop"
          /\ UNCHANGED <<err, tick, releases>>
  /\ UNCHANGED <<inVars, blkno, count, left, chunk, mapped, biodone, sent>>

\* The reply to a read: advance by the bytes returned; an empty reply
\* before the residual is exhausted zero-fills the rest.
ReadReply ==
  /\ pc = "rwait"
  /\ \/ /\ WaitFailed
        /\ UNCHANGED <<resid, offset, bufPos>>
     \/ \E n \in ReadAudit(chunk) :
          LET r == UInt(resid - n) IN
          /\ bufPos' = bufPos + n
          /\ offset' = offset + n
          /\ resid' = IF n = 0 /\ r > 0 THEN 0 ELSE r
          /\ pc' = IF n = 0 /\ r > 0 THEN "fin" ELSE "rloop"
          /\ UNCHANGED <<err, tick, releases>>
  /\ UNCHANGED <<inVars, blkno, count, left, chunk, mapped, biodone, sent>>

\* The write set-up: map the buffer, start at the block's offset.
WriteStart ==
  /\ pc = "wstart"
  /\ \/ /\ MapFailed
        /\ UNCHANGED <<resid, offset, left>>
     \/ /\ mapped' = TRUE
        /\ resid' = UInt(count)
        /\ offset' = blkno * BlockSize
        /\ left' = count
        /\ pc' = "wloop"
        /\ UNCHANGED <<err, biodone, tick, releases, sent>>
  /\ UNCHANGED <<inVars, blkno, count, bufPos, chunk>>

\* One round of the write loop: a FUSE_WRITE of min(left, iosize) bytes
\* taken from bufdat.
WriteChunk ==
  /\ pc = "wloop"
  /\ \/ /\ left # 0
        /\ Len(sent) < MaxRounds
        /\ chunk' = UMin(left, IoSize)
        /\ MakeRequest
        /\ pc' = "wwait"
        /\ UNCHANGED releases
     \/ /\ left = 0
        /\ pc' = "fin"
        /\ UNCHANGED <<chunk, tick, releases, sent>>
  /\ UNCHANGED <<inVars, blkno, count, resid, offset, left, bufPos, err,
                 mapped, biodone>>

\* Mutant: a failed wait leaves the loop by break without merr, so the
\* final drop runs as well.
WriteReplyNoMerr ==
  /\ pc = "wwait"
  /\ \/ /\ err' = "EWAIT"
        /\ tick' = "released"
        /\ releases' = releases + 1
        /\ pc' = "fin"
        /\ UNCHANGED <<resid, offset, left, bufPos>>
     \/ \E ack \in WriteAcks(chunk) :
          /\ left' = left - ack
          /\ bufPos' = bufPos + ack
          /\ offset' = offset + ack
          /\ resid' = UInt(resid - ack)
          /\ pc' = "wloop"
          /\ UNCHANGED <<err, tick, releases>>
  /\ UNCHANGED <<inVars, blkno, count, chunk, mapped, biodone, sent>>

\* Mutant: the acknowledged size is not taken off left.
WriteReplyKeepsLeft ==
  /\ pc = "wwait"
  /\ \/ /\ WaitFailed
        /\ UNCHANGED <<resid, offset, left, bufPos>>
     \/ \E ack \in WriteAcks(chunk) :
          /\ bufPos' = bufPos + ack
          /\ offset' = offset + ack
          /\ resid' = UInt(resid - ack)
          /\ pc' = "wloop"
          /\ UNCHANGED <<left, err, tick, releases>>
  /\ UNCHANGED <<inVars, blkno, count, chunk, mapped, biodone, sent>>

\* The reply to a write: diff = chunksize - fwo->size is computed in
\* unsigned int and widened to off_t, so it is never negative; left,
\* bufdat and the offset advance by the acknowledged size.
WriteReply ==
  /\ pc = "wwait"
  /\ \/ /\ WaitFailed
        /\ UNCHANGED <<resid, offset, left, bufPos>>
     \/ \E ack \in WriteAcks(chunk) :
          LET diff == UInt(chunk - ack) IN
          IF diff < 0
            THEN /\ err' = "EINVAL"
                 /\ pc' = "fin"
                 /\ UNCHANGED <<resid, offset, left, bufPos, tick, releases>>
            ELSE /\ left' = left - ack
                 /\ bufPos' = bufPos + ack
                 /\ offset' = offset + ack
                 /\ resid' = UInt(resid - ack)
                 /\ pc' = "wloop"
                 /\ UNCHANGED <<err, tick, releases>>
  /\ UNCHANGED <<inVars, blkno, count, chunk, mapped, biodone, sent>>

\* After the loop: drop the ticket if fdi.tick is set, which it stays
\* after fdisp_wait_answ has released it.
Finish ==
  /\ pc = "fin"
  /\ IF tick # "none"
       THEN /\ tick' = "released"
            /\ releases' = releases + 1
       ELSE UNCHANGED <<tick, releases>>
  /\ pc' = "out"
  /\ UNCHANGED <<inVars, blkno, count, resid, offset, left, bufPos, chunk,
                 err, mapped, biodone, sent>>

\* out: record the error, unmap and complete the buffer.
Out ==
  /\ pc = "out"
  /\ mapped' = FALSE
  /\ biodone' = TRUE
  /\ pc' = "done"
  /\ UNCHANGED <<inVars, blkno, count, resid, offset, left, bufPos, chunk,
                 err, tick, releases, sent>>

(***************************************************************************)
(* The specification                                                       *)
(***************************************************************************)

\* A buffer as the VM layer issues it: buf_blkno starts as the logical
\* block, or as -1 when the block has no backing.
Init ==
  /\ mode \in Modes
  /\ vtype \in VTypes
  /\ cluster \in BOOLEAN
  /\ upl \in BOOLEAN
  /\ lblkno \in BlkNos
  /\ blkno \in {lblkno, -1}
  /\ bufLen \in BufCounts
  /\ count = bufLen
  /\ resid = 0
  /\ fileSize \in FileSizes
  /\ offset = 0
  /\ left = 0
  /\ bufPos = 0
  /\ chunk = 0
  /\ err = "0"
  /\ mapped = FALSE
  /\ biodone = FALSE
  /\ tick = "none"
  /\ releases = 0
  /\ sent = <<>>
  /\ fufhValid \in SUBSET FufhTypes
  /\ fufhType = "FUFH_INVALID"
  /\ pc = "buf"

Next == \/ StrategyBuf
        \/ Strategy
        \/ ReadStart
        \/ ReadChunk
        \/ ReadReply
        \/ WriteStart
        \/ WriteChunk
        \/ WriteReply
        \/ Finish
        \/ Out

\* One kernel thread runs the routine to its end.
Spec == Init /\ [][Next]_vars /\ WF_vars(Next)

(***************************************************************************)
(* The strategy as a user of the dispatcher's contract                     *)
(***************************************************************************)

\* The one kernel thread running the routine.
StrategyThread == "kthread"

\* The contract phase of the thread: waiting in fdisp_wait_answ, holding
\* fdi.tick after a reply (until the next round refreshes it or the final
\* drop), or with no ticket.
StrategyPhase ==
  CASE pc \in {"rwait", "wwait"} -> "pending"
    [] pc \notin {"rwait", "wwait"} /\ tick = "held" -> "holding"
    [] OTHER -> "idle"

StrategyDispatch == INSTANCE DispatchContract WITH
  Req    <- {StrategyThread},
  MaxOps <- MaxRounds,
  NoReq  <- <<"none", 0>>,
  phase  <- [r \in {StrategyThread} |-> StrategyPhase],
  ops    <- [r \in {StrategyThread} |-> Len(sent)],
  answer <- [r \in {StrategyThread} |->
               IF StrategyPhase = "holding" THEN <<r, Len(sent)>>
                                            ELSE <<"none", 0>>]

(***************************************************************************)
(* Properties                                                              *)
(***************************************************************************)

TypeOK ==
  /\ pc \in {"buf", "strat", "rstart", "rloop", "rwait", "wstart", "wloop",
             "wwait", "fin", "out", "done"}
  /\ mode \in Modes /\ vtype \in VTypes
  /\ {cluster, upl, mapped, biodone} \subseteq BOOLEAN
  /\ count \in 0..(UMax - 1) /\ resid \in 0..(UMax - 1)
  /\ chunk \in 0..IoSize
  /\ {offset, left, bufPos, blkno} \subseteq Int
  /\ err \in Errno
  /\ tick \in {"none", "held", "released"}
  /\ releases \in Nat
  /\ sent \in Seq([off : Int, size : 0..IoSize, pos : Int,
                    fh : FufhTypes])
  /\ fufhValid \subseteq FufhTypes
  /\ fufhType \in FufhTypes \cup {"FUFH_INVALID"}

\* Every request of the read and write loops names a range of the
\* caller's buffer: bufdat never runs past the bytes the buffer holds, so
\* a write never sends foreign kernel memory and a read never lands
\* outside the buffer.
BufferRangesSound ==
  \A i \in 1..Len(sent) :
    0 <= sent[i].pos /\ sent[i].pos + sent[i].size <= bufLen

\* The file offset of every request and the buffer position it uses
\* advance together, from the block's offset blkno * biosize.
OffsetsTrackBuffer ==
  \A i \in 1..Len(sent) : sent[i].off = blkno * BlockSize + sent[i].pos

\* When the routine returns, the ticket it fetched has been released
\* exactly once: by fdisp_wait_answ on an error, by the final drop
\* otherwise.
TicketReleasedOnce ==
  pc = "done" => releases = (IF sent = <<>> THEN 0 ELSE 1)

\* A read finishes whatever the daemon returns: the residual shrinks with
\* every non-empty reply and an empty one ends the loop.
ReadsTerminate == mode = "read" => <>(pc = "done")

\* Every FUSE_READ and FUSE_WRITE goes out on a filehandle the node holds
\* valid, and one opened (xlate_to_oflags) with an access mode that allows
\* the transfer: neither the fallback to a read-write handle nor the open
\* of a new one puts a write on a read-only handle or a read on a
\* write-only one.
HandleAllowsTransfer ==
  \A i \in 1..Len(sent) :
    /\ sent[i].fh \in fufhValid
    /\ (IF mode = "read" THEN "FREAD" ELSE "FWRITE")
         \in FFlagsOf(XlateToOflags(sent[i].fh))

\* The filehandle translations of fuse_file.h agree with each other for
\* every handle the node holds valid (XlateAgreeFor): the open flags a
\* handle type is opened with, the type fflags and mmap protections call
\* for, and the rights fuse_filehandle_preflight_status checks.
XlateAgree == XlateAgreeFor(fufhValid)

\* The strategy keeps to the contract FuseIpc is shown to implement
\* (DispatchContract): it fetches a ticket for its first request, waits
\* for each request before it sends the next, sends the next only on the
\* ticket of a successful reply (fdisp_make's refresh), and drops the
\* ticket it holds at the end.  The dispatcher is abstracted in this
\* module to its result; this is what makes that abstraction sound.
StrategyUsesDispatch == StrategyDispatch!DSafe

\* The strategy routine returns without buf_biodone, leaving a waiter in
\* buf_biowait asleep, only on its refusals before any I/O: a zero-length
\* buffer, a vnode type it does not serve, a failed buf_map.  Once a
\* FUSE_READ or FUSE_WRITE has been sent, every path, the failed waits
\* and the refused replies included, unmaps and completes the buffer.
CompletedOnceSent ==
  pc = "done" /\ ~biodone => sent = <<>> /\ ~mapped

\* Every write round after the first starts past the one before it: the
\* daemon acknowledged at least one byte of each FUSE_WRITE so far.
AcksProgress == \A i \in 1..(Len(sent) - 1) : sent[i + 1].pos > sent[i].pos

\* The write loop of fuse_internal_strategy ends, and the buffer is
\* completed, whenever the daemon acknowledges at least one byte per
\* FUSE_WRITE: left falls by every acknowledgement and reaches exactly 0,
\* so only a daemon acknowledging nothing keeps the thread looping.
WritesTerminate ==
  (mode = "write" /\ []AcksProgress) => <>(pc = "done")
====
