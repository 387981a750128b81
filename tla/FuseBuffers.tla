---------------------------- MODULE FuseBuffers ----------------------------
(***************************************************************************)
(* The buffers of fuse_ipc.c (10.5) and what happens to them between a     *)
(* request and its reply: the fuse_iov growth and credit policy            *)
(* (fiov_init, fiov_adjust, fiov_adjust_canfail, fiov_refresh,             *)
(* fiov_teardown), the ticket life cycle around them (fticket_alloc,       *)
(* fticket_refresh, fticket_destroy, fuse_ticket_fetch, fuse_ticket_drop,   *)
(* fuse_ticket_kill), the fallible request builder fdisp_make_canfail and   *)
(* the reply path fuse_standard_handler -> fticket_pull -> fuse_body_audit  *)
(* -> fticket_aw_pull_uio.                                                  *)
(*                                                                         *)
(* Each caller thread runs one operation at a time to completion; the      *)
(* interleavings of the queues and the waits are the subject of FuseIpc.   *)
(* A buffer is its three numbers: allocated_size, len and credit; the      *)
(* bytes in it are not modelled.  Opcodes are strings and the wire         *)
(* structures are their sizes, scaled down.                                 *)
(***************************************************************************)
EXTENDS Integers, Sequences, FiniteSets

CONSTANTS
  Callers,      \* threads issuing requests through a fuse_dispatcher
  Slots,        \* addresses a struct fuse_ticket may be allocated at
  Ops,          \* opcodes the callers send (each has a reply handler)
  HdrSize,      \* sizeof(struct fuse_in_header)
  IoSizes,      \* fdi.iosize: request body sizes the callers ask for
  ReadSizes,    \* fuse_read_in.size of READ / READDIR requests
  BodyLens,     \* reply body lengths the daemon sends
  Sz,           \* sizes of the fixed reply structures, by name
  PageSize,     \* PAGE_SIZE
  AbiGeq74,     \* fuse_libabi_geq(data, 7, 4)
  MinIov,       \* the floor FU_AT_LEAST rounds an allocation up to
  Credit,       \* fuse_iov_credit
  Permanent,    \* fuse_iov_permanent_bufsize (-1: no shrinking)
  MaxFree,      \* fuse_max_freetickets (-1: no limit)
  MaxTickets,   \* fuse_max_tickets (0: no limit)
  AllocCanFail, \* FUSE_OSRealloc_nocopy_canfail may return NULL
  MaxOps        \* bound: requests built in one behaviour

\* Opcodes whose reply body fuse_body_audit checks, by the check applied.
EntryOps == {"LOOKUP", "SYMLINK", "MKNOD", "MKDIR", "LINK"}
AttrOps == {"GETATTR", "SETATTR"}
OpenOps == {"OPEN", "OPENDIR"}
EmptyOps == {"UNLINK", "RMDIR", "RENAME", "RELEASE", "FSYNC", "FLUSH",
             "RELEASEDIR", "FSYNCDIR", "ACCESS", "DESTROY", "EXCHANGE",
             "SETVOLNAME"}
RequestBoundOps == {"READ", "READDIR"}
UncheckedOps == {"SETXATTR", "GETXATTR", "LISTXATTR", "REMOVEXATTR",
                 "INTERRUPT", "BMAP"}
OtherOps == {"GETXTIMES", "READLINK", "WRITE", "STATFS", "INIT", "CREATE"}
\* FORGET, GETLK, SETLK, SETLKW and unknown opcodes panic in the audit; no
\* reply handler is ever installed for them.
AuditedOps == EntryOps \cup AttrOps \cup OpenOps \cup EmptyOps
                \cup RequestBoundOps \cup UncheckedOps \cup OtherOps

ASSUME /\ Ops \subseteq AuditedOps
       /\ {AbiGeq74, AllocCanFail} \subseteq BOOLEAN
       /\ Credit \in Nat /\ Permanent \in Int /\ MaxFree \in Int
       /\ MaxTickets \in Nat /\ MaxOps \in Nat

VARIABLES
  \* struct fuse_data
  live,        \* alltickets_head, as the set of tickets on it
  free,        \* freetickets_head (freeticket_counter is its length)
  ticketer,    \* data->ticketer
  deadCount,   \* data->deadticket_counter
  dead,        \* FSESS_DEAD in data->dataflags
  \* globals
  iovCurrent,  \* fuse_iov_current
  tickCurrent, \* fuse_tickets_current
  \* struct fuse_ticket, by slot
  ms,          \* tk_ms_fiov
  aw,          \* tk_aw_fiov
  kill,        \* FT_KILLL in tk_flag
  op,          \* opcode in the request header
  readSize,    \* fuse_read_in.size of the request body
  awType,      \* tk_aw_type: "FIOV" or "BUF"
  bufSize,     \* tk_aw_bufsize
  answered,    \* FT_ANSW in tk_flag
  awErr,       \* tk_aw_errno
  \* callers
  fdi,         \* fdi.tick, "none" when NULL
  pc,          \* "idle", "made" (request built) or "answered"
  ops          \* requests built so far

dataVars == <<live, free, ticketer, deadCount, dead, iovCurrent, tickCurrent>>
tickVars == <<ms, aw, kill, op, readSize, awType, bufSize, answered, awErr>>
vars == <<dataVars, tickVars, fdi, pc, ops>>

None == "none"
Errno == {"0", "EINVAL", "ENOTCONN", "ENOMEM"}
IovRec == [alloc : Nat, len : Nat, credit : Int]
\* A torn-down fuse_iov: fiov_teardown sets allocated_size to 0.
NoIov == [alloc |-> 0, len |-> 0, credit |-> 0]

-----------------------------------------------------------------------------
(* The fuse_iov operations, as functions of a buffer.                      *)

\* FU_AT_LEAST(size): the allocation made for size bytes.
AtLeast(size) == IF size < MinIov THEN MinIov ELSE size

\* fiov_init: an empty buffer of FU_AT_LEAST(size) bytes and a full credit.
FiovInit(size) == [alloc |-> AtLeast(size), len |-> 0, credit |-> Credit]

\* The second disjunct of fiov_adjust's condition up to the credit test:
\* shrinking is enabled and the buffer would keep more than the permanent
\* size unused.  Only evaluated when allocated_size >= size.
Oversized(f, size) == Permanent >= 0 /\ f.alloc - size > Permanent

\* The credit after the condition is evaluated: "--fiov->credit" runs only
\* when the buffer is large enough and oversized (short-circuit).
Charged(f, size) ==
  IF f.alloc >= size /\ Oversized(f, size) THEN f.credit - 1 ELSE f.credit

\* The whole condition of fiov_adjust / fiov_adjust_canfail.
NeedsRealloc(f, size) ==
  \/ f.alloc < size
  \/ Oversized(f, size) /\ Charged(f, size) < 0

\* Variant of Adjust whose reallocation leaves the credit as charged.
AdjustNoCreditReset(f, size) ==
  IF NeedsRealloc(f, size)
  THEN [alloc |-> AtLeast(size), len |-> size, credit |-> Charged(f, size)]
  ELSE [f EXCEPT !.len = size, !.credit = Charged(f, size)]

\* fiov_adjust (and a successful fiov_adjust_canfail).
Adjust(f, size) ==
  IF NeedsRealloc(f, size)
  THEN [alloc |-> AtLeast(size), len |-> size, credit |-> Credit]
  ELSE [f EXCEPT !.len = size, !.credit = Charged(f, size)]

\* Variant of AdjustFailed that records the new length before failing.
AdjustFailedSetsLen(f, size) ==
  [f EXCEPT !.credit = Charged(f, size), !.len = size]

\* fiov_adjust_canfail when the reallocation returns NULL: ENOMEM, the
\* buffer as it was except for the credit already charged.
AdjustFailed(f, size) == [f EXCEPT !.credit = Charged(f, size)]

\* The outcomes of fiov_adjust_canfail: TRUE when it failed.
CanFail(f, size) ==
  IF AllocCanFail /\ NeedsRealloc(f, size) THEN BOOLEAN ELSE {FALSE}

\* fiov_refresh: zero the used bytes, then fiov_adjust(fiov, 0).
Refresh(f) == Adjust(f, 0)

-----------------------------------------------------------------------------
(* fuse_body_audit: the error for a reply body of blen bytes to a ticket   *)
(* whose request was op with a fuse_read_in.size of rsize.                 *)

ExactLen(blen, size) == IF blen = size THEN "0" ELSE "EINVAL"
AtMost(blen, bound) == IF bound >= blen THEN "0" ELSE "EINVAL"

\* The READ / READDIR check: the body may not exceed the fuse_read_in.size
\* found in the request still held in tk_ms_fiov.
RequestBound(blen, rsize) == AtMost(blen, rsize)

Audit(o, blen, rsize) ==
  IF dead THEN "ENOTCONN" ELSE
  CASE o \in EntryOps        -> ExactLen(blen, Sz.entry)
    [] o \in AttrOps         -> ExactLen(blen, Sz.attr)
    [] o = "GETXTIMES"       -> ExactLen(blen, Sz.getxtimes)
    [] o = "READLINK"        -> AtMost(blen, PageSize)
    [] o \in OpenOps         -> ExactLen(blen, Sz.open)
    [] o \in RequestBoundOps -> RequestBound(blen, rsize)
    [] o = "WRITE"           -> ExactLen(blen, Sz.write)
    [] o = "STATFS"          -> ExactLen(blen, IF AbiGeq74 THEN Sz.statfs
                                                ELSE Sz.compatStatfs)
    [] o \in EmptyOps        -> ExactLen(blen, 0)
    [] o \in UncheckedOps    -> "0"
    [] o = "INIT"            -> IF blen \in {Sz.init, Sz.initCompat}
                                THEN "0" ELSE "EINVAL"
    [] o = "CREATE"          -> ExactLen(blen, Sz.entry + Sz.open)

-----------------------------------------------------------------------------
(* Ticket life cycle.                                                      *)

\* Variant of RemoveTicket whose destruction tears down one buffer only.
RemoveTicketOneIov(t, liveIn, iovIn, tickIn) ==
  /\ live' = liveIn \ {t}
  /\ deadCount' = deadCount + 1
  /\ iovCurrent' = iovIn - 1
  /\ tickCurrent' = tickIn - 1
  /\ ms' = [ms EXCEPT ![t] = NoIov]
  /\ aw' = [aw EXCEPT ![t] = NoIov]

\* fuse_remove_allticks then fticket_destroy: off the registry (the dead
\* ticket count goes up), both buffers torn down, the ticket freed.  The
\* counts are passed in because a ticket may be destroyed in the step that
\* allocated it.
RemoveTicket(t, liveIn, iovIn, tickIn) ==
  /\ live' = liveIn \ {t}
  /\ deadCount' = deadCount + 1
  /\ iovCurrent' = iovIn - 2
  /\ tickCurrent' = tickIn - 1
  /\ ms' = [ms EXCEPT ![t] = NoIov]
  /\ aw' = [aw EXCEPT ![t] = NoIov]

\* The transient fields fticket_refresh (and fticket_alloc's bzero) clear.
ClearTicket(t) ==
  /\ kill' = [kill EXCEPT ![t] = FALSE]
  /\ bufSize' = [bufSize EXCEPT ![t] = 0]
  /\ answered' = [answered EXCEPT ![t] = FALSE]
  /\ awErr' = [awErr EXCEPT ![t] = "0"]

\* fdisp_make_canfail by caller c for opcode o with a body of n bytes.  The
\* ticket is the caller's previous one refreshed, else fuse_ticket_fetch's:
\* the head of the free list, else a new one (fticket_alloc, fiov_init of
\* both buffers).  fetch marks the session dead when the tickets not yet
\* destroyed exceed fuse_max_tickets, and hands the ticket out anyway.  The
\* send buffer is then grown with fiov_adjust_canfail; when that fails the
\* ticket is killed (fuse_ticket_kill) and the caller gets ENOMEM.  The
\* strategy routine answers a READ into its own buffer (FT_A_BUF) and
\* passes the chunk size as fuse_read_in.size.
Make(c, o, n, rs) ==
  LET reused == fdi[c] # None
      popped == ~reused /\ free # <<>>
      fresh  == ~reused /\ ~popped
      t == CASE reused -> fdi[c]
             [] popped -> Head(free)
             [] fresh  -> CHOOSE s \in Slots \ live : TRUE
      ms0 == CASE reused -> Refresh(ms[t])
               [] popped -> ms[t]
               [] fresh  -> FiovInit(HdrSize)
      aw0 == CASE reused -> Refresh(aw[t])
               [] popped -> aw[t]
               [] fresh  -> FiovInit(0)
      live0 == IF fresh THEN live \cup {t} ELSE live
      ticketer0 == IF fresh THEN ticketer + 1 ELSE ticketer
      iov0 == IF fresh THEN iovCurrent + 2 ELSE iovCurrent
      tick0 == IF fresh THEN tickCurrent + 1 ELSE tickCurrent
      overLimit == ~reused /\ MaxTickets # 0
                     /\ ticketer0 - deadCount > MaxTickets
      size == HdrSize + n
  IN
  /\ \/ pc[c] = "answered"
     \/ pc[c] = "idle" /\ fdi[c] = None
  /\ ops < MaxOps
  /\ fresh => Slots \ live # {}
  /\ ops' = ops + 1
  /\ free' = IF popped THEN Tail(free) ELSE free
  /\ ticketer' = ticketer0
  /\ dead' = (dead \/ overLimit)
  /\ ClearTicket(t)
  /\ \E fail \in CanFail(ms0, size) :
       IF fail
       THEN /\ RemoveTicket(t, live0, iov0, tick0)
            /\ fdi' = [fdi EXCEPT ![c] = None]
            /\ pc' = [pc EXCEPT ![c] = "idle"]
            /\ UNCHANGED <<op, readSize, awType>>
       ELSE /\ ms' = [ms EXCEPT ![t] = Adjust(ms0, size)]
            /\ aw' = [aw EXCEPT ![t] = aw0]
            /\ op' = [op EXCEPT ![t] = o]
            /\ readSize' = [readSize EXCEPT ![t] = rs]
            /\ awType' = [awType EXCEPT ![t] =
                            IF o = "READ" THEN "BUF" ELSE "FIOV"]
            /\ live' = live0
            /\ iovCurrent' = iov0
            /\ tickCurrent' = tick0
            /\ fdi' = [fdi EXCEPT ![c] = t]
            /\ pc' = [pc EXCEPT ![c] = "made"]
            /\ UNCHANGED deadCount

\* The daemon's reply to caller c's request: blen body bytes, with or
\* without an error in the out header.  fuse_standard_handler runs
\* fticket_pull, which skips the body when the header carries an error,
\* else audits it (fuse_body_audit) and copies it (fticket_aw_pull_uio):
\* into tk_aw_fiov grown with fiov_adjust_canfail, whose failure flags the
\* ticket FT_KILLL, or into the caller's buffer.  The result becomes
\* tk_aw_errno and the ticket is marked answered.
Answer(c, blen, oerr) ==
  LET t == fdi[c]
      err0 == IF oerr THEN "0" ELSE Audit(op[t], blen, readSize[t])
      pull == ~oerr /\ err0 = "0" /\ blen > 0
      toFiov == pull /\ awType[t] = "FIOV"
  IN
  /\ pc[c] = "made"
  /\ \E fail \in (IF toFiov THEN CanFail(aw[t], blen) ELSE {FALSE}) :
       /\ aw' = [aw EXCEPT ![t] = CASE ~toFiov -> @
                                    [] fail    -> AdjustFailed(@, blen)
                                    [] OTHER   -> Adjust(@, blen)]
       /\ kill' = [kill EXCEPT ![t] = @ \/ fail]
       /\ awErr' = [awErr EXCEPT ![t] = IF fail THEN "ENOMEM" ELSE err0]
  /\ bufSize' = [bufSize EXCEPT ![t] =
                   IF pull /\ awType[t] = "BUF" THEN blen ELSE @]
  /\ answered' = [answered EXCEPT ![t] = TRUE]
  /\ pc' = [pc EXCEPT ![c] = "answered"]
  /\ UNCHANGED <<dataVars, ms, op, readSize, awType, fdi, ops>>

\* Caller c is done with its ticket: fuse_ticket_drop.  The ticket is
\* destroyed when the free list is at fuse_max_freetickets or the ticket is
\* flagged FT_KILLL; otherwise it is refreshed (fticket_refresh) and put at
\* the tail of the free list.
Release(c) ==
  LET t == fdi[c]
      die == \/ MaxFree >= 0 /\ MaxFree <= Len(free)
             \/ kill[t]
  IN
  /\ pc[c] = "answered"
  /\ IF die
     THEN /\ RemoveTicket(t, live, iovCurrent, tickCurrent)
          /\ UNCHANGED <<free, kill, bufSize, answered, awErr, awType>>
     ELSE /\ ms' = [ms EXCEPT ![t] = Refresh(@)]
          /\ aw' = [aw EXCEPT ![t] = Refresh(@)]
          /\ ClearTicket(t)
          /\ awType' = [awType EXCEPT ![t] = "FIOV"]
          /\ free' = Append(free, t)
          /\ UNCHANGED <<live, deadCount, iovCurrent, tickCurrent>>
  /\ fdi' = [fdi EXCEPT ![c] = None]
  /\ pc' = [pc EXCEPT ![c] = "idle"]
  /\ UNCHANGED <<ticketer, dead, op, readSize, ops>>

Init ==
  /\ live = {}
  /\ free = <<>>
  /\ ticketer = 0
  /\ deadCount = 0
  /\ dead = FALSE
  /\ iovCurrent = 0
  /\ tickCurrent = 0
  /\ ms = [t \in Slots |-> NoIov]
  /\ aw = [t \in Slots |-> NoIov]
  /\ kill = [t \in Slots |-> FALSE]
  /\ op = [t \in Slots |-> None]
  /\ readSize = [t \in Slots |-> 0]
  /\ awType = [t \in Slots |-> "FIOV"]
  /\ bufSize = [t \in Slots |-> 0]
  /\ answered = [t \in Slots |-> FALSE]
  /\ awErr = [t \in Slots |-> "0"]
  /\ fdi = [c \in Callers |-> None]
  /\ pc = [c \in Callers |-> "idle"]
  /\ ops = 0

Next ==
  \E c \in Callers :
    \/ \E o \in Ops, n \in IoSizes :
         \E rs \in (IF o \in RequestBoundOps THEN ReadSizes ELSE {0}) :
           Make(c, o, n, rs)
    \/ \E blen \in BodyLens, oerr \in BOOLEAN : Answer(c, blen, oerr)
    \/ Release(c)

Spec == Init /\ [][Next]_vars

-----------------------------------------------------------------------------
(* Properties.                                                             *)

TypeOK ==
  /\ live \subseteq Slots
  /\ free \in Seq(live)
  /\ {ticketer, deadCount, iovCurrent, tickCurrent} \subseteq Nat
  /\ dead \in BOOLEAN
  /\ ms \in [Slots -> IovRec] /\ aw \in [Slots -> IovRec]
  /\ \A t \in live : {ms[t].credit, aw[t].credit} \subseteq -1..Credit
  /\ kill \in [Slots -> BOOLEAN] /\ answered \in [Slots -> BOOLEAN]
  /\ op \in [Slots -> Ops \cup {None}]
  /\ awType \in [Slots -> {"FIOV", "BUF"}]
  /\ awErr \in [Slots -> Errno]
  /\ fdi \in [Callers -> live \cup {None}]
  /\ pc \in [Callers -> {"idle", "made", "answered"}]
  /\ \A c \in Callers : pc[c] # "idle" => fdi[c] # None

\* Every live ticket's buffers hold at least the bytes they claim to hold:
\* len <= allocated_size for tk_ms_fiov and tk_aw_fiov, whatever mix of
\* growth, credit-paced shrinking, refreshes and failed fallible
\* reallocations (fiov_adjust_canfail returning ENOMEM) came before.
BuffersHoldTheirLength ==
  \A t \in live : /\ ms[t].len <= ms[t].alloc
                  /\ aw[t].len <= aw[t].alloc

\* The counters kept beside the ticket registry agree with it through every
\* way a ticket dies (dropped when the free list is full, dropped flagged
\* FT_KILLL, killed by fdisp_make_canfail): fuse_iov_current counts two
\* buffers per ticket and fuse_tickets_current one (both are changed with
\* OSAddAtomic).  data->ticketer minus data->deadticket_counter, what
\* fuse_ticket_fetch compares with fuse_max_tickets, never counts more
\* tickets than alltickets_head holds: every destroy path counts the
\* ticket dead.  It is an upper bound only, not an equality, because
\* fticket_alloc's ticketer++ runs without ticket_mtx (torn_ticketer) and
\* a lost increment leaves the difference below the registry for good.
CountersTrackRegistry ==
  /\ iovCurrent = 2 * Cardinality(live)
  /\ tickCurrent = Cardinality(live)
  /\ ticketer - deadCount <= Cardinality(live)

=============================================================================
