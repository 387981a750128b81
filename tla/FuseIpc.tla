------------------------------- MODULE FuseIpc -------------------------------
(***************************************************************************)
(* The ticket engine of the MacFUSE kernel extension (fuse_ipc.c) together *)
(* with the INIT handshake of fuse_internal.c.                              *)
(*                                                                         *)
(* Kernel threads (Req) run synchronous requests: fuse_ticket_fetch,       *)
(* fdisp_make, fdisp_wait_answ (insert_callback, insert_message,           *)
(* fticket_wait_answer) and the caller's fuse_ticket_drop.  The daemon     *)
(* reads the pending-send queue and writes replies; the device side        *)
(* (fuse_device.c, not in this source tree) matches a reply to a ticket on *)
(* the awaiting-answer queue and runs the ticket's handler                 *)
(* (fuse_standard_handler or fuse_internal_init_callback).                  *)
(*                                                                         *)
(* A ticket is identified with the address it lives at (Slot): tickets are *)
(* recycled through the free list and destroyed when the pool is full, and *)
(* a destroyed address may be handed out again by the allocator.           *)
(***************************************************************************)
EXTENDS Integers, Sequences, FiniteSets, SequencesExt

CONSTANTS
  Req,           \* kernel threads issuing VFS operations
  Slot,          \* addresses a struct fuse_ticket can be allocated at
  MaxOps,        \* bound: operations each thread issues
  MaxFree,       \* fuse_max_freetickets (-1: the pool is never full)
  Replies,       \* reply kinds the daemon may send: "ok", "err", "bad"
  TimeoutOn,     \* data->daemon_timeout_p is set when the volume mounts
  NoAlerts,      \* FSESS_NO_ALERTS is in data->dataflags
  AnswerSignals, \* a signal may end the PCATCH sleep in fticket_wait_answer
  GateSignals,   \* a signal may end the PCATCH sleep of the handshake gate
  AllocCanFail,  \* fiov_adjust_canfail may return ENOMEM when pulling a reply
  TornTicketer,  \* data->ticketer++ (outside ticket_mtx) may interleave
  InterruptOn,   \* M_MACFUSE_ENABLE_INTERRUPT
  MaxTickets,    \* fuse_max_tickets (0: no admission limit)
  DaemonCloses,  \* the daemon may close the device while requests are out
  InitTimeoutOn, \* M_MACFUSE_ENABLE_INIT_TIMEOUT
  CanfailReq,    \* threads whose requests are made with fdisp_make_canfail,
                 \* whose fiov_adjust_canfail may fail
  NoSlot         \* the NULL ticket pointer

ASSUME /\ NoSlot \notin Slot /\ CanfailReq \subseteq Req
       /\ MaxOps \in Nat /\ MaxFree \in Int /\ MaxTickets \in Nat
       /\ Replies \subseteq {"ok", "err", "bad"} /\ Replies # {}
       /\ {TimeoutOn, NoAlerts, AnswerSignals, GateSignals,
           AllocCanFail, TornTicketer, InterruptOn, DaemonCloses,
           InitTimeoutOn}
          \subseteq BOOLEAN

VARIABLES
  \* struct fuse_data
  ticketer, freeList, freeCount, deadCount, allTicks, msQ, awQ,
  dead, inited, kicked, timeoutStatus, timeoutArmed, gateSleepers,
  deadEvents, panicked, initSent, tcall, calloutActive,
  \* struct fuse_ticket, one per address
  inUse, unique, age, flag, handler, awErrno, ohErr, opcode, reqOf, ansOf,
  \* the requesting kernel threads
  pc, tick, err, savedAge, tmp, itick, ops,
  \* the daemon and the device write path
  inbox, devPc, devTick, devReply, devErr, closed

sessVars == <<ticketer, freeList, freeCount, deadCount, allTicks, msQ, awQ,
              dead, inited, kicked, timeoutStatus, timeoutArmed,
              gateSleepers, deadEvents, panicked, initSent, tcall,
              calloutActive>>
tickVars == <<inUse, unique, age, flag, handler, awErrno, ohErr, opcode,
              reqOf, ansOf>>
reqVars  == <<pc, tick, err, savedAge, tmp, itick, ops>>
devVars  == <<inbox, devPc, devTick, devReply, devErr, closed>>
vars     == <<sessVars, tickVars, reqVars, devVars>>

\* The variables fuse_ticket_drop may change.
dropVars == <<freeList, freeCount, allTicks, deadCount, inUse, age, flag,
              awErrno, ohErr, reqOf, ansOf>>


\* A request is named by its thread and its number.
InitReq == <<"init", 0>>
NoReq   == <<"none", 0>>
ReqId   == (Req \X (1..MaxOps)) \cup {InitReq}
Errno   == {"0", "ENOTCONN", "EINTR", "EINVAL", "ENOMEM", "EIO", "ENXIO",
            "EPROTONOSUPPORT"}
PcValue == {"idle", "alloc", "alloc2", "gate", "sd_fetch", "fill", "msg",
            "wait", "sleep", "alert", "alreadydead", "sd_wait", "adans", "out",
            "ret", "scan", "use", "ifetch", "igate", "sd_ifetch", "imsg"}
DevPc   == {"idle", "std", "stdlock", "init", "initcancel", "initdone"}

CurReq(r) == <<r, ops[r]>>
OnAw(t)   == t \in ToSet(awQ)

\* fuse_max_freetickets >= 0 && fuse_max_freetickets <= freeticket_counter
PoolFull == MaxFree >= 0 /\ MaxFree <= freeCount

\* A requester holds its ticket's tk_aw_mtx from the return of a timed-out
\* fuse_msleep until the "out:" label of fticket_wait_answer.
HeldBy(t) == {r \in Req : tick[r] = t /\
                          pc[r] \in {"alert", "alreadydead", "sd_wait", "adans",
                                     "ifetch", "igate", "sd_ifetch", "imsg"}}

-----------------------------------------------------------------------------
(* Ticket lifecycle: fticket_refresh, fticket_destroy, fuse_ticket_drop.    *)

\* Variant of Refresh that only clears FT_DIRTY of the ticket's flags.
RefreshKeepFlags(t) ==
  /\ age'     = [age     EXCEPT ![t] = @ + 1]
  /\ flag'    = [flag    EXCEPT ![t] = @ \ {"DIRTY"}]
  /\ awErrno' = [awErrno EXCEPT ![t] = "0"]
  /\ ohErr'   = [ohErr   EXCEPT ![t] = FALSE]
  /\ reqOf'   = [reqOf   EXCEPT ![t] = NoReq]
  /\ ansOf'   = [ansOf   EXCEPT ![t] = NoReq]

\* fticket_refresh: both buffers zeroed, flags cleared, age incremented.
\* tk_aw_handler and tk_unique are left as they are.
Refresh(t) ==
  /\ age'     = [age     EXCEPT ![t] = @ + 1]
  /\ flag'    = [flag    EXCEPT ![t] = {}]
  /\ awErrno' = [awErrno EXCEPT ![t] = "0"]
  /\ ohErr'   = [ohErr   EXCEPT ![t] = FALSE]
  /\ reqOf'   = [reqOf   EXCEPT ![t] = NoReq]
  /\ ansOf'   = [ansOf   EXCEPT ![t] = NoReq]

\* fuse_remove_allticks followed by fticket_destroy: the address is freed.
Destroy(t) ==
  /\ allTicks'  = allTicks \ {t}
  /\ deadCount' = deadCount + 1
  /\ inUse'     = [inUse EXCEPT ![t] = FALSE]
  /\ UNCHANGED <<freeList, freeCount, age, flag, awErrno, ohErr, reqOf, ansOf>>

\* fuse_ticket_kill: fuse_remove_allticks under ticket_mtx, then
\* fticket_destroy, whatever the ticket's flags.
Kill(t) == Destroy(t)

\* Variant of Recycle whose counter update goes the wrong way.
RecycleCountDown(t) ==
  /\ Refresh(t)
  /\ freeList'  = Append(freeList, t)
  /\ freeCount' = freeCount - 1
  /\ UNCHANGED <<allTicks, deadCount, inUse>>

\* fticket_refresh followed by fuse_push_freeticks.
Recycle(t) ==
  /\ Refresh(t)
  /\ freeList'  = Append(freeList, t)
  /\ freeCount' = freeCount + 1
  /\ UNCHANGED <<allTicks, deadCount, inUse>>

\* fuse_ticket_drop
Drop(t) ==
  IF PoolFull \/ "KILLL" \in flag[t] THEN Destroy(t) ELSE Recycle(t)

-----------------------------------------------------------------------------
(* Session death and the handshake gate.                                   *)

\* Variant of MarkDead without the re-check of FSESS_DEAD under ms_mtx.
MarkDeadNoRecheck ==
  /\ dead' = TRUE
  /\ deadEvents' = deadEvents + 1
  /\ gateSleepers' = {}

\* fdata_set_dead: under ms_mtx, return if FSESS_DEAD is already set, else
\* set it and wake the reader; then wake the gate sleepers (ticket_mtx) and
\* post VQ_DEAD.
MarkDead ==
  IF dead
  THEN UNCHANGED <<dead, deadEvents, gateSleepers>>
  ELSE /\ dead' = TRUE
       /\ deadEvents' = deadEvents + 1
       /\ gateSleepers' = {}

\* The labels a fetch continues at: gate sleep, fdata_set_dead, or on; for
\* the request's own ticket ("fill") and for an interrupt notice ("imsg").
AfterFetch ==
  [fill |-> [gate |-> "gate",  dead |-> "sd_fetch",  go |-> "fill"],
   imsg |-> [gate |-> "igate", dead |-> "sd_ifetch", go |-> "imsg"]]

\* The end of fuse_ticket_fetch under ticket_mtx, with the value tk the
\* ticketer has there: the handshake gate, else the fuse_max_tickets check
\* whose failure marks the session dead.  Either way the ticket is returned.
GateOrGo(r, tk, k) ==
  IF ~inited /\ tk > 1
  THEN /\ pc' = [pc EXCEPT ![r] = AfterFetch[k].gate]
       /\ gateSleepers' = gateSleepers \cup {r}
  ELSE /\ pc' = [pc EXCEPT ![r] =
                   IF MaxTickets # 0 /\ tk - deadCount > MaxTickets
                   THEN AfterFetch[k].dead ELSE AfterFetch[k].go]
       /\ UNCHANGED gateSleepers

-----------------------------------------------------------------------------
(* fuse_ticket_fetch                                                        *)

\* Free list not empty: fuse_pop_freeticks, then the gate, under ticket_mtx.
FetchPop(r) ==
  /\ pc[r] = "idle" /\ ops[r] < MaxOps /\ initSent
  /\ freeCount # 0
  /\ freeList' = Tail(freeList)
  /\ freeCount' = freeCount - 1
  /\ tick' = [tick EXCEPT ![r] = Head(freeList)]
  /\ ops' = [ops EXCEPT ![r] = @ + 1]
  /\ GateOrGo(r, ticketer, "fill")
  /\ UNCHANGED <<ticketer, deadCount, allTicks, msQ, awQ, dead, inited, kicked,
                 timeoutStatus, timeoutArmed, deadEvents, panicked, initSent,
                 tickVars, err, savedAge, tmp, itick, devVars,
                 tcall, calloutActive>>

\* Free list empty: ticket_mtx is released and fticket_alloc is called.
FetchAlloc(r) ==
  /\ pc[r] = "idle" /\ ops[r] < MaxOps /\ initSent
  /\ freeCount = 0
  /\ pc' = [pc EXCEPT ![r] = "alloc"]
  /\ ops' = [ops EXCEPT ![r] = @ + 1]
  /\ UNCHANGED <<sessVars, tickVars, tick, err, savedAge, tmp, itick, devVars>>

\* The load half of "ftick->tk_unique = data->ticketer++", when the load and
\* the store of two threads may interleave.
AllocLoad(r) ==
  /\ TornTicketer
  /\ pc[r] = "alloc"
  /\ tmp' = [tmp EXCEPT ![r] = ticketer]
  /\ pc' = [pc EXCEPT ![r] = "alloc2"]
  /\ UNCHANGED <<sessVars, tickVars, tick, err, savedAge, itick, ops, devVars>>

\* fticket_alloc at the free address s with tk_unique u (a zeroed ticket),
\* then fuse_push_allticks.
NewTicket(s, u) ==
  /\ inUse'   = [inUse   EXCEPT ![s] = TRUE]
  /\ unique'  = [unique  EXCEPT ![s] = u]
  /\ age'     = [age     EXCEPT ![s] = 0]
  /\ flag'    = [flag    EXCEPT ![s] = {}]
  /\ handler' = [handler EXCEPT ![s] = "none"]
  /\ awErrno' = [awErrno EXCEPT ![s] = "0"]
  /\ ohErr'   = [ohErr   EXCEPT ![s] = FALSE]
  /\ opcode'  = [opcode  EXCEPT ![s] = "none"]
  /\ reqOf'   = [reqOf   EXCEPT ![s] = NoReq]
  /\ ansOf'   = [ansOf   EXCEPT ![s] = NoReq]
  /\ allTicks' = allTicks \cup {s}

\* Variant of AllocInit whose ticketer is not advanced.
AllocInitSameUnique(r) ==
  /\ pc[r] = IF TornTicketer THEN "alloc2" ELSE "alloc"
  /\ LET u == IF TornTicketer THEN tmp[r] ELSE ticketer IN
     \E s \in Slot :
       /\ ~inUse[s]
       /\ NewTicket(s, u)
       /\ tick' = [tick EXCEPT ![r] = s]
       /\ GateOrGo(r, u, "fill")
  /\ UNCHANGED <<ticketer, freeList, freeCount, deadCount, msQ, awQ, dead,
                 inited, kicked, timeoutStatus, timeoutArmed, deadEvents,
                 panicked, initSent, err, savedAge, tmp, itick, ops, devVars,
                 tcall, calloutActive>>

\* fticket_alloc (a zeroed ticket at a free address, tk_unique from the
\* ticketer), then under ticket_mtx fuse_push_allticks and the gate.
AllocInit(r) ==
  /\ pc[r] = IF TornTicketer THEN "alloc2" ELSE "alloc"
  /\ LET u == IF TornTicketer THEN tmp[r] ELSE ticketer IN
     \E s \in Slot :
       /\ ~inUse[s]
       /\ ticketer' = u + 1
       /\ NewTicket(s, u)
       /\ tick' = [tick EXCEPT ![r] = s]
       /\ GateOrGo(r, u + 1, "fill")
  /\ UNCHANGED <<freeList, freeCount, deadCount, msQ, awQ, dead, inited, kicked,
                 timeoutStatus, timeoutArmed, deadEvents, panicked, initSent,
                 err, savedAge, tmp, itick, ops, devVars,
                 tcall, calloutActive>>

\* The gate sleeper has been woken (FSESS_INITED or fdata_set_dead).
GateResume(r) ==
  /\ pc[r] \in {"gate", "igate"} /\ r \notin gateSleepers
  /\ pc' = [pc EXCEPT ![r] = IF pc[r] = "gate" THEN "fill" ELSE "imsg"]
  /\ UNCHANGED <<sessVars, tickVars, tick, err, savedAge, tmp, itick, ops, devVars>>

\* A signal ends the gate sleep: fuse_ticket_fetch calls fdata_set_dead and
\* still returns the ticket.
GateSignal(r) ==
  /\ GateSignals
  /\ pc[r] \in {"gate", "igate"} /\ r \in gateSleepers
  /\ gateSleepers' = gateSleepers \ {r}
  /\ pc' = [pc EXCEPT ![r] = IF pc[r] = "gate" THEN "sd_fetch" ELSE "sd_ifetch"]
  /\ UNCHANGED <<ticketer, freeList, freeCount, deadCount, allTicks, msQ, awQ,
                 dead, inited, kicked, timeoutStatus, timeoutArmed,
                 deadEvents, panicked, initSent,
                 tickVars, tick, err, savedAge, tmp, itick, ops, devVars,
                 tcall, calloutActive>>

\* fdata_set_dead, called from fuse_ticket_fetch or from the "alreadydead"
\* label of fticket_wait_answer.
SetDead(r) ==
  /\ pc[r] \in {"sd_fetch", "sd_ifetch", "sd_wait"}
  /\ MarkDead
  /\ pc' = [pc EXCEPT ![r] = CASE pc[r] = "sd_fetch"  -> "fill"
                              [] pc[r] = "sd_ifetch" -> "imsg"
                              [] OTHER               -> "adans"]
  /\ UNCHANGED <<ticketer, freeList, freeCount, deadCount, allTicks, msQ, awQ,
                 inited, kicked, timeoutStatus, timeoutArmed, panicked,
                 initSent, tickVars, tick, err, savedAge, tmp, itick, ops, devVars,
                 tcall, calloutActive>>

-----------------------------------------------------------------------------
(* fdisp_make and the two insertions at the start of fdisp_wait_answ.       *)

\* fuse_setup_ihead: the header carries the opcode and, as ihead->unique,
\* the ticket's tk_unique; the request it stands for is recorded with it.
\* The length, node id and credentials are left out.
SetupIhead(t, r) ==
  /\ opcode' = [opcode EXCEPT ![t] = "req"]
  /\ reqOf'  = [reqOf  EXCEPT ![t] = CurReq(r)]

\* fdisp_make fills the header of the fetched ticket; fdisp_wait_answ then
\* calls fuse_insert_callback, which returns without
\* registering when it reads FSESS_DEAD (no lock held for that read).
Callback(r) ==
  LET t == tick[r] IN
  /\ pc[r] = "fill"
  /\ SetupIhead(t, r)
  /\ IF dead
     THEN UNCHANGED <<awQ, handler>>
     ELSE /\ handler' = [handler EXCEPT ![t] = "std"]
          /\ awQ' = Append(awQ, t)
  /\ pc' = [pc EXCEPT ![r] = "msg"]
  /\ UNCHANGED <<ticketer, freeList, freeCount, deadCount, allTicks, msQ,
                 dead, inited, kicked, timeoutStatus, timeoutArmed,
                 gateSleepers, deadEvents, panicked, initSent,
                 inUse, unique, age, flag, awErrno, ohErr, ansOf,
                 tick, err, savedAge, tmp, itick, ops, devVars,
                 tcall, calloutActive>>

\* fuse_insert_message: panic on a ticket still FT_DIRTY, mark it dirty,
\* return when FSESS_DEAD is read, else push it on ms_head under ms_mtx;
\* f is the ticket's tk_flag when it is called.
InsertMessage(t, f) ==
  IF "DIRTY" \in f
  THEN /\ panicked' = TRUE
       /\ flag' = [flag EXCEPT ![t] = f]
       /\ UNCHANGED msQ
  ELSE /\ flag' = [flag EXCEPT ![t] = f \cup {"DIRTY"}]
       /\ msQ' = IF dead THEN msQ ELSE Append(msQ, t)
       /\ UNCHANGED panicked

Message(r) ==
  /\ pc[r] = "msg"
  /\ InsertMessage(tick[r], flag[tick[r]])
  /\ pc' = [pc EXCEPT ![r] = "wait"]
  /\ UNCHANGED <<ticketer, freeList, freeCount, deadCount, allTicks, awQ,
                 dead, inited, kicked, timeoutStatus, timeoutArmed,
                 gateSleepers, deadEvents, initSent,
                 inUse, unique, age, handler, awErrno, ohErr, opcode, reqOf,
                 ansOf, tick, err, savedAge, tmp, itick, ops, devVars,
                 tcall, calloutActive>>

-----------------------------------------------------------------------------
(* fticket_wait_answer                                                      *)

\* Under tk_aw_mtx: an answered ticket goes to "out"; on a dead session the
\* ticket is set answered with ENOTCONN; otherwise the thread sleeps.
WaitBegin(r) ==
  LET t == tick[r] IN
  /\ pc[r] = "wait" /\ HeldBy(t) = {}
  /\ CASE "ANSW" \in flag[t] ->
            /\ pc' = [pc EXCEPT ![r] = "out"]
            /\ UNCHANGED <<flag, err>>
       [] dead ->
            /\ flag' = [flag EXCEPT ![t] = @ \cup {"ANSW"}]
            /\ err' = [err EXCEPT ![r] = "ENOTCONN"]
            /\ pc' = [pc EXCEPT ![r] = "out"]
       [] OTHER ->
            /\ pc' = [pc EXCEPT ![r] = "sleep"]
            /\ UNCHANGED <<flag, err>>
  /\ UNCHANGED <<sessVars, inUse, unique, age, handler, awErrno, ohErr,
                 opcode, reqOf, ansOf, tick, savedAge, tmp, itick, ops, devVars>>

\* fuse_wakeup(ftick): every thread asleep on the ticket's address returns
\* from fuse_msleep with 0.
WakeSleepers(t) ==
  pc' = [q \in Req |-> IF pc[q] = "sleep" /\ tick[q] = t THEN "out" ELSE pc[q]]

\* fuse_msleep returns EINTR.  With M_MACFUSE_ENABLE_INTERRUPT the thread,
\* still holding tk_aw_mtx, calls fuse_internal_interrupt_send.
Interrupted(r) ==
  /\ AnswerSignals
  /\ pc[r] = "sleep"
  /\ err' = [err EXCEPT ![r] = "EINTR"]
  /\ pc' = [pc EXCEPT ![r] = IF InterruptOn THEN "ifetch" ELSE "out"]
  /\ UNCHANGED <<sessVars, tickVars, tick, savedAge, tmp, itick, ops, devVars>>

\* Variant of InterruptFetch in which fdisp_init keeps fdi.tick = ftick:
\* fdisp_make refreshes the waiting ticket itself for the notice.
InterruptFetchReuse(r) ==
  LET t == tick[r] IN
  /\ pc[r] = "ifetch"
  /\ itick' = [itick EXCEPT ![r] = t]
  /\ age'     = [age     EXCEPT ![t] = @ + 1]
  /\ flag'    = [flag    EXCEPT ![t] = {}]
  /\ awErrno' = [awErrno EXCEPT ![t] = "0"]
  /\ ohErr'   = [ohErr   EXCEPT ![t] = FALSE]
  /\ pc' = [pc EXCEPT ![r] = "imsg"]
  /\ UNCHANGED <<sessVars, inUse, unique, handler, opcode, reqOf, ansOf,
                 tick, err, savedAge, tmp, ops, devVars>>

\* fuse_internal_interrupt_send: fdisp_init sets fdi.tick to NULL, so
\* fdisp_make fetches a second ticket for the FUSE_INTERRUPT notice (the
\* whole of fuse_ticket_fetch, its gate included, under the waiting
\* ticket's tk_aw_mtx).
InterruptFetch(r) ==
  /\ pc[r] = "ifetch"
  /\ \/ /\ freeCount # 0
        /\ freeList' = Tail(freeList)
        /\ freeCount' = freeCount - 1
        /\ itick' = [itick EXCEPT ![r] = Head(freeList)]
        /\ GateOrGo(r, ticketer, "imsg")
        /\ UNCHANGED <<ticketer, allTicks, tickVars>>
     \/ /\ freeCount = 0
        /\ \E s \in Slot :
             /\ ~inUse[s]
             /\ NewTicket(s, ticketer)
             /\ ticketer' = ticketer + 1
             /\ itick' = [itick EXCEPT ![r] = s]
             /\ GateOrGo(r, ticketer + 1, "imsg")
        /\ UNCHANGED <<freeList, freeCount>>
  /\ UNCHANGED <<deadCount, msQ, awQ, dead, inited, kicked, timeoutStatus,
                 timeoutArmed, deadEvents, panicked, initSent,
                 tick, err, savedAge, tmp, ops, devVars,
                 tcall, calloutActive>>

\* The notice carries the waiting ticket's tk_unique in its body and has
\* no callback; fticket_invalidate sets FT_INVAL and fuse_insert_message
\* queues it.  Then "out:" releases tk_aw_mtx.
InterruptMessage(r) ==
  LET n == itick[r] IN
  /\ pc[r] = "imsg"
  /\ opcode' = [opcode EXCEPT ![n] = "intr"]
  /\ reqOf'  = [reqOf  EXCEPT ![n] = NoReq]
  /\ InsertMessage(n, flag[n] \cup {"INVAL"})
  /\ itick' = [itick EXCEPT ![r] = NoSlot]
  /\ pc' = [pc EXCEPT ![r] = "out"]
  /\ UNCHANGED <<ticketer, freeList, freeCount, deadCount, allTicks, awQ,
                 dead, inited, kicked, timeoutStatus, timeoutArmed,
                 gateSleepers, deadEvents, initSent,
                 inUse, unique, age, handler, awErrno, ohErr, ansOf,
                 tick, err, savedAge, tmp, ops, devVars,
                 tcall, calloutActive>>

\* Variant of TimedOut that shows the alert without claiming PROCESSING.
TimedOutNoClaim(r) ==
  /\ TimeoutOn /\ timeoutArmed
  /\ pc[r] = "sleep"
  /\ \/ /\ NoAlerts
        /\ timeoutStatus' = "DEAD"
        /\ pc' = [pc EXCEPT ![r] = "alreadydead"]
     \/ /\ ~NoAlerts /\ timeoutStatus \in {"NONE", "PROCESSING"}
        /\ timeoutStatus' = "PROCESSING"
        /\ pc' = [pc EXCEPT ![r] = "alert"]
     \/ /\ ~NoAlerts /\ timeoutStatus = "DEAD"
        /\ pc' = [pc EXCEPT ![r] = "alreadydead"]
        /\ UNCHANGED timeoutStatus
  /\ UNCHANGED <<ticketer, freeList, freeCount, deadCount, allTicks, msQ, awQ,
                 dead, inited, kicked, timeoutArmed, gateSleepers, deadEvents,
                 panicked, initSent, tickVars, tick, err, savedAge, tmp, itick, ops,
                 devVars,
                 tcall, calloutActive>>

\* fuse_msleep returns EAGAIN (daemon_timeout_p elapsed); tk_aw_mtx is
\* held from here to "out".  Under timeout_mtx: FSESS_NO_ALERTS makes the
\* status DEAD; NONE becomes PROCESSING and this thread shows the alert;
\* DEAD goes to alreadydead.  PROCESSING sleeps again (a stuttering step).
TimedOut(r) ==
  /\ TimeoutOn /\ timeoutArmed
  /\ pc[r] = "sleep"
  /\ \/ /\ NoAlerts
        /\ timeoutStatus' = "DEAD"
        /\ pc' = [pc EXCEPT ![r] = "alreadydead"]
     \/ /\ ~NoAlerts /\ timeoutStatus = "NONE"
        /\ timeoutStatus' = "PROCESSING"
        /\ pc' = [pc EXCEPT ![r] = "alert"]
     \/ /\ ~NoAlerts /\ timeoutStatus = "DEAD"
        /\ pc' = [pc EXCEPT ![r] = "alreadydead"]
        /\ UNCHANGED timeoutStatus
  /\ UNCHANGED <<ticketer, freeList, freeCount, deadCount, allTicks, msQ, awQ,
                 dead, inited, kicked, timeoutArmed, gateSleepers, deadEvents,
                 panicked, initSent, tickVars, tick, err, savedAge, tmp, itick, ops,
                 devVars,
                 tcall, calloutActive>>

\* The answer rf to KUNCUserNotificationDisplayAlert (kKUNCOtherResponse
\* also when the alert could not be shown): Force Eject makes the status
\* DEAD; Keep Trying, No Selection and Don't Warn Again reset it to NONE and
\* sleep again, Don't Warn Again also clearing daemon_timeout_p.
AlertAnswer(r) ==
  /\ pc[r] = "alert"
  /\ \/ /\ timeoutStatus' = "DEAD"
        /\ pc' = [pc EXCEPT ![r] = "alreadydead"]
        /\ UNCHANGED timeoutArmed
     \/ /\ timeoutStatus' = "NONE"
        /\ \E dontWarn \in BOOLEAN :
             timeoutArmed' = (timeoutArmed /\ ~dontWarn)
        /\ pc' = [pc EXCEPT ![r] = "sleep"]
  /\ UNCHANGED <<ticketer, freeList, freeCount, deadCount, allTicks, msQ, awQ,
                 dead, inited, kicked, gateSleepers, deadEvents, panicked,
                 initSent, tickVars, tick, err, savedAge, tmp, itick, ops, devVars,
                 tcall, calloutActive>>

\* alreadydead: "if (!fdata_dead_get(data)) fdata_set_dead(data)".
AlreadyDead(r) ==
  /\ pc[r] = "alreadydead"
  /\ pc' = [pc EXCEPT ![r] = IF dead THEN "adans" ELSE "sd_wait"]
  /\ UNCHANGED <<sessVars, tickVars, tick, err, savedAge, tmp, itick, ops, devVars>>

\* ENOTCONN, fticket_set_answered, then "out:" releases tk_aw_mtx.
DeadAnswer(r) ==
  /\ pc[r] = "adans"
  /\ flag' = [flag EXCEPT ![tick[r]] = @ \cup {"ANSW"}]
  /\ err' = [err EXCEPT ![r] = "ENOTCONN"]
  /\ pc' = [pc EXCEPT ![r] = "out"]
  /\ UNCHANGED <<sessVars, inUse, unique, age, handler, awErrno, ohErr,
                 opcode, reqOf, ansOf, tick, savedAge, tmp, itick, ops, devVars>>

\* After the unlock: "requester was woken up but still no answer" -> ENXIO.
Out(r) ==
  /\ pc[r] = "out"
  /\ err' = [err EXCEPT ![r] =
               IF @ = "0" /\ "ANSW" \notin flag[tick[r]] THEN "ENXIO" ELSE @]
  /\ pc' = [pc EXCEPT ![r] = "ret"]
  /\ UNCHANGED <<sessVars, tickVars, tick, savedAge, tmp, itick, ops, devVars>>

-----------------------------------------------------------------------------
(* The rest of fdisp_wait_answ, and the caller's fuse_ticket_drop.          *)

\* The end of an operation: the thread is idle again.
Finish(r) ==
  /\ pc' = [pc EXCEPT ![r] = "idle"]
  /\ err' = [err EXCEPT ![r] = "0"]

\* Variant of AfterWait that drops an unanswered ticket still on aw_head.
AfterWaitDropsQueued(r) ==
  LET t == tick[r] IN
  /\ pc[r] = "ret"
  /\ \/ \* interrupted or failed, already answered: drop and return err
        /\ err[r] # "0" /\ "ANSW" \in flag[t] /\ HeldBy(t) = {}
        /\ Drop(t) /\ Finish(r)
        /\ UNCHANGED <<savedAge, handler>>
     \/ \* not answered: remember tk_age and set it answered under tk_aw_mtx
        /\ err[r] # "0" /\ "ANSW" \notin flag[t] /\ HeldBy(t) = {}
        /\ Drop(t) /\ Finish(r)
        /\ UNCHANGED <<savedAge, handler>>
     \/ \* tk_aw_errno set by the handler: EIO, drop
        /\ err[r] = "0" /\ awErrno[t] # "0"
        /\ Drop(t) /\ Finish(r)
        /\ UNCHANGED <<savedAge, handler>>
     \/ \* the daemon's out header carries an error: answ_stat, drop
        /\ err[r] = "0" /\ awErrno[t] = "0" /\ ohErr[t]
        /\ Drop(t) /\ Finish(r)
        /\ UNCHANGED <<savedAge, handler>>
     \/ \* success: the caller reads fdip->answ and drops the ticket later
        /\ err[r] = "0" /\ awErrno[t] = "0" /\ ~ohErr[t]
        /\ pc' = [pc EXCEPT ![r] = "use"]
        /\ UNCHANGED <<dropVars, savedAge, err, handler>>
  /\ UNCHANGED <<ticketer, msQ, awQ, dead, inited, kicked, timeoutStatus,
                 timeoutArmed, gateSleepers, deadEvents, panicked, initSent,
                 unique, opcode, tick, tmp, itick, ops, devVars,
                 tcall, calloutActive>>

AfterWait(r) ==
  LET t == tick[r] IN
  /\ pc[r] = "ret"
  /\ \/ \* interrupted or failed, already answered: drop and return err
        /\ err[r] # "0" /\ "ANSW" \in flag[t] /\ HeldBy(t) = {}
        /\ Drop(t) /\ Finish(r)
        /\ UNCHANGED <<savedAge, handler>>
     \/ \* not answered: remember tk_age and set it answered under tk_aw_mtx
        /\ err[r] # "0" /\ "ANSW" \notin flag[t] /\ HeldBy(t) = {}
        /\ savedAge' = [savedAge EXCEPT ![r] = age[t]]
        /\ flag' = [flag EXCEPT ![t] = @ \cup {"ANSW"}]
        /\ pc' = [pc EXCEPT ![r] = "scan"]
        /\ UNCHANGED <<freeList, freeCount, allTicks, deadCount, inUse, age,
                       awErrno, ohErr, reqOf, ansOf, err, handler>>
     \/ \* tk_aw_errno set by the handler: EIO, drop
        /\ err[r] = "0" /\ awErrno[t] # "0"
        /\ Drop(t) /\ Finish(r)
        /\ UNCHANGED <<savedAge, handler>>
     \/ \* the daemon's out header carries an error: answ_stat, drop
        /\ err[r] = "0" /\ awErrno[t] = "0" /\ ohErr[t]
        /\ Drop(t) /\ Finish(r)
        /\ UNCHANGED <<savedAge, handler>>
     \/ \* success: the caller reads fdip->answ and drops the ticket later
        /\ err[r] = "0" /\ awErrno[t] = "0" /\ ~ohErr[t]
        /\ pc' = [pc EXCEPT ![r] = "use"]
        /\ UNCHANGED <<dropVars, savedAge, err, handler>>
  /\ UNCHANGED <<ticketer, msQ, awQ, dead, inited, kicked, timeoutStatus,
                 timeoutArmed, gateSleepers, deadEvents, panicked, initSent,
                 unique, opcode, tick, tmp, itick, ops, devVars,
                 tcall, calloutActive>>

\* Variant of ScanAw without the tk_age comparison.
ScanAwNoAge(r) ==
  LET t == tick[r] IN
  /\ pc[r] = "scan"
  /\ handler' = IF OnAw(t) THEN [handler EXCEPT ![t] = "none"] ELSE handler
  /\ Finish(r)
  /\ UNCHANGED <<sessVars, inUse, unique, age, flag, awErrno, ohErr, opcode,
                 reqOf, ansOf, tick, savedAge, tmp, itick, ops, devVars>>

\* Variant of ScanAw that gives the found ticket back to the pool.
ScanAwDrop(r) ==
  LET t == tick[r] IN
  /\ pc[r] = "scan"
  /\ IF OnAw(t) /\ age[t] = savedAge[r] THEN Drop(t) ELSE UNCHANGED dropVars
  /\ Finish(r)
  /\ UNCHANGED <<ticketer, msQ, awQ, dead, inited, kicked, timeoutStatus,
                 timeoutArmed, gateSleepers, deadEvents, panicked, initSent,
                 unique, handler, opcode, tick, savedAge, tmp, itick, ops, devVars,
                 tcall, calloutActive>>

\* Under aw_mtx: if the ticket is still on aw_head and its age is the one
\* saved, tk_aw_handler is cleared.  fdisp_wait_answ returns err without
\* dropping the ticket.
ScanAw(r) ==
  LET t == tick[r] IN
  /\ pc[r] = "scan"
  /\ handler' = IF OnAw(t) /\ age[t] = savedAge[r]
                THEN [handler EXCEPT ![t] = "none"] ELSE handler
  /\ Finish(r)
  /\ UNCHANGED <<sessVars, inUse, unique, age, flag, awErrno, ohErr, opcode,
                 reqOf, ansOf, tick, savedAge, tmp, itick, ops, devVars>>

\* The caller copies the answer out of fdip->answ and calls fuse_ticket_drop.
UseAnswer(r) ==
  /\ pc[r] = "use"
  /\ Drop(tick[r]) /\ Finish(r)
  /\ UNCHANGED <<ticketer, msQ, awQ, dead, inited, kicked, timeoutStatus,
                 timeoutArmed, gateSleepers, deadEvents, panicked, initSent,
                 unique, handler, opcode, tick, savedAge, tmp, itick, ops, devVars,
                 tcall, calloutActive>>

\* fdisp_make_canfail, the variant of fdisp_make some callers use: after
\* the fetch, fiov_adjust_canfail grows tk_ms_fiov for the request; when it
\* fails, fuse_ticket_kill takes the ticket off alltickets (counting it in
\* deadticket_counter) and destroys it, and the error is returned to the
\* caller without a message sent.
MakeCanfailKill(r) ==
  /\ r \in CanfailReq
  /\ pc[r] = "fill"
  /\ Kill(tick[r])
  /\ Finish(r)
  /\ UNCHANGED <<ticketer, msQ, awQ, dead, inited, kicked, timeoutStatus,
                 timeoutArmed, gateSleepers, deadEvents, panicked, initSent,
                 tcall, calloutActive, unique, handler, opcode,
                 tick, savedAge, tmp, itick, ops, devVars>>

-----------------------------------------------------------------------------
(* fticket_pull on the daemon's write path.                                 *)

\* The results fticket_pull can return for the reply the device thread is
\* handling: 0 without reading when the out header carries an error;
\* ENOTCONN from fuse_body_audit once FSESS_DEAD is set, EINVAL from it for a
\* body of the wrong size; ENOMEM when fiov_adjust_canfail cannot grow
\* tk_aw_fiov.
PullResults ==
  CASE devReply = "err" -> {"0"}
    [] dead             -> {"ENOTCONN"}
    [] devReply = "bad" -> {"EINVAL"}
    [] OTHER            -> {"0"} \cup (IF AllocCanFail THEN {"ENOMEM"} ELSE {})

-----------------------------------------------------------------------------
(* The INIT handshake (fuse_internal_send_init, fuse_internal_init_callback)*)

\* fuse_internal_send_init, run by the mounting thread before any VFS
\* operation: fetch (the free list is empty, the ticket gets tk_unique 0 and
\* passes the gate), fdisp_make FUSE_INIT, register the init callback, queue.
SendInit ==
  /\ ~initSent
  /\ \E s \in Slot :
       /\ ticketer' = ticketer + 1
       /\ inUse'   = [inUse   EXCEPT ![s] = TRUE]
       /\ unique'  = [unique  EXCEPT ![s] = ticketer]
       /\ handler' = [handler EXCEPT ![s] = "init"]
       /\ opcode'  = [opcode  EXCEPT ![s] = "init"]
       /\ reqOf'   = [reqOf   EXCEPT ![s] = InitReq]
       /\ flag'    = [flag    EXCEPT ![s] = {"DIRTY"}]
       /\ allTicks' = allTicks \cup {s}
       /\ awQ' = Append(awQ, s)
       /\ msQ' = Append(msQ, s)
  /\ initSent' = TRUE
  \* INIT_CALLOUT: thread_call_enter_delayed, callout_status ACTIVE
  /\ tcall' = IF InitTimeoutOn THEN "pending" ELSE tcall
  /\ calloutActive' = (calloutActive \/ InitTimeoutOn)
  /\ UNCHANGED <<freeList, freeCount, deadCount, dead, inited, kicked,
                 timeoutStatus, timeoutArmed, gateSleepers, deadEvents,
                 panicked, age, awErrno, ohErr, ansOf, reqVars, devVars>>

\* fuse_internal_init_callback up to fdata_kick_set: an error in the out
\* header, a failed fticket_pull, or fiio->major < 7 is an error; the ticket
\* is dropped, and an error kicks the session.
InitCallback ==
  LET t == devTick IN
  /\ devPc = "init"
  /\ \E pullErr \in PullResults, tooOld \in BOOLEAN :
       LET failed == ohErr[t] \/ pullErr # "0" \/ tooOld IN
       \* fticket_aw_pull_uio set FT_KILLL on ENOMEM: the drop destroys it
       /\ IF pullErr = "ENOMEM" THEN Destroy(t) ELSE Drop(t)
       /\ kicked' = (kicked \/ failed)
  /\ devPc' = IF InitTimeoutOn THEN "initcancel" ELSE "initdone"
  /\ devTick' = NoSlot
  /\ UNCHANGED <<ticketer, msQ, awQ, dead, inited, timeoutStatus,
                 timeoutArmed, gateSleepers, deadEvents, panicked, initSent,
                 unique, handler, opcode, reqVars, inbox, devReply,
                 devErr, closed, tcall, calloutActive>>

\* INIT_CALLOUT in fuse_internal_init_callback: under callout_mtx,
\* thread_call_cancel (its result ignored) and callout_status INACTIVE.  The
\* cancel removes a call still waiting for its deadline; a call that has
\* fired already runs its handler regardless.
InitCancel ==
  /\ devPc = "initcancel"
  /\ tcall' = IF tcall = "pending" THEN "idle" ELSE tcall
  /\ calloutActive' = FALSE
  /\ devPc' = "initdone"
  /\ UNCHANGED <<ticketer, freeList, freeCount, deadCount, allTicks, msQ, awQ,
                 dead, inited, kicked, timeoutStatus, timeoutArmed,
                 gateSleepers, deadEvents, panicked, initSent, tickVars,
                 reqVars, inbox, devTick, devReply, devErr, closed>>

\* The deadline of data->thread_call passes: the thread call is dequeued
\* and handed to a kernel thread to run.
CalloutFires ==
  /\ tcall = "pending"
  /\ tcall' = "fired"
  /\ UNCHANGED <<ticketer, freeList, freeCount, deadCount, allTicks, msQ, awQ,
                 dead, inited, kicked, timeoutStatus, timeoutArmed,
                 gateSleepers, deadEvents, panicked, initSent, calloutActive,
                 tickVars, reqVars, devVars>>

\* fuse_internal_thread_call_expiry_handler: under callout_mtx,
\* fdata_kick_set and the user notice; then proc_signal of the daemon
\* (outside the model).  It reads nothing the callback wrote: callout_status
\* is left as it is.
ExpiryHandler ==
  /\ tcall = "fired"
  /\ kicked' = TRUE
  /\ tcall' = "idle"
  /\ UNCHANGED <<ticketer, freeList, freeCount, deadCount, allTicks, msQ, awQ,
                 dead, inited, timeoutStatus, timeoutArmed, gateSleepers,
                 deadEvents, panicked, initSent, calloutActive, tickVars,
                 reqVars, devVars>>

\* Variant of InitDone that sets FSESS_INITED without the wakeup.
InitDoneNoWakeup ==
  /\ devPc = "initdone"
  /\ inited' = TRUE
  /\ devPc' = "idle"
  /\ UNCHANGED <<ticketer, freeList, freeCount, deadCount, allTicks, msQ, awQ,
                 dead, kicked, timeoutStatus, timeoutArmed, gateSleepers,
                 deadEvents, panicked, initSent, tickVars, reqVars, inbox,
                 devTick, devReply, devErr, closed,
                 tcall, calloutActive>>

\* Then, under ticket_mtx, FSESS_INITED is set and the gate sleepers woken.
InitDone ==
  /\ devPc = "initdone"
  /\ inited' = TRUE
  /\ gateSleepers' = {}
  /\ devPc' = "idle"
  /\ UNCHANGED <<ticketer, freeList, freeCount, deadCount, allTicks, msQ, awQ,
                 dead, kicked, timeoutStatus, timeoutArmed, deadEvents,
                 panicked, initSent, tickVars, reqVars, inbox, devTick,
                 devReply, devErr, closed,
                 tcall, calloutActive>>


-----------------------------------------------------------------------------
(* The device side (fuse_device.c is not in this tree: modelled from the    *)
(* specification, sections 4.4, 4.5 and 5).                                 *)

\* The daemon reads: pop the head of ms_head (ENODEV on a dead session),
\* copy the request out, then fuse_ticket_drop_invalid.  Every request but
\* an interrupt notice is eventually answered by the daemon.
DeviceRead ==
  LET t == Head(msQ) IN
  /\ ~closed /\ ~dead /\ msQ # <<>>
  /\ msQ' = Tail(msQ)
  /\ inbox' = IF opcode[t] = "intr" THEN inbox
              ELSE inbox \cup {[u |-> unique[t], req |-> reqOf[t]]}
  /\ IF "INVAL" \in flag[t] THEN Drop(t) ELSE UNCHANGED dropVars
  /\ UNCHANGED <<ticketer, awQ, dead, inited, kicked, timeoutStatus,
                 timeoutArmed, gateSleepers, deadEvents, panicked, initSent,
                 unique, handler, opcode, reqVars, devPc, devTick, devReply,
                 devErr, closed,
                 tcall, calloutActive>>

\* The index on aw_head of the first ticket whose tk_unique is u (0: none).
AwIndex(u) ==
  LET I == {i \in 1..Len(awQ) : unique[awQ[i]] = u}
  IN IF I = {} THEN 0 ELSE Min(I)

\* The daemon writes a reply of kind k to a request it read: the matching
\* ticket is removed from aw_head; with no handler left it is dropped, else
\* the out header is copied in and the handler runs.  No match: discarded.
\* A dead session takes no more replies (ENOTCONN to the daemon, spec 7).
DeviceWrite ==
  /\ ~closed /\ ~dead /\ devPc = "idle"
  /\ \E m \in inbox, k \in Replies :
       LET i == AwIndex(m.u)
           t == awQ[i]
       IN
       /\ inbox' = inbox \ {m}
       /\ IF i = 0
          THEN UNCHANGED <<awQ, dropVars, devPc, devTick, devReply>>
          ELSE /\ awQ' = RemoveAt(awQ, i)
               /\ IF handler[t] = "none"
                  THEN /\ Drop(t)
                       /\ UNCHANGED <<devPc, devTick, devReply>>
                  ELSE /\ ohErr' = [ohErr EXCEPT ![t] = (k = "err")]
                       /\ ansOf' = [ansOf EXCEPT ![t] = m.req]
                       /\ devPc' = handler[t]
                       /\ devTick' = t
                       /\ devReply' = k
                       /\ UNCHANGED <<freeList, freeCount, allTicks, deadCount,
                                      inUse, age, flag, awErrno, reqOf>>
  /\ UNCHANGED <<ticketer, msQ, dead, inited, kicked, timeoutStatus,
                 timeoutArmed, gateSleepers, deadEvents, panicked, initSent,
                 unique, handler, opcode, reqVars, devErr, closed,
                 tcall, calloutActive>>

\* fuse_standard_handler, first part: fticket_pull without any lock; an
\* ENOMEM also sets FT_KILLL.
StdPull ==
  LET t == devTick IN
  /\ devPc = "std"
  /\ \E e \in PullResults :
       /\ devErr' = e
       /\ flag' = IF e = "ENOMEM" THEN [flag EXCEPT ![t] = @ \cup {"KILLL"}]
                  ELSE flag
  /\ devPc' = "stdlock"
  /\ UNCHANGED <<sessVars, inUse, unique, age, handler, awErrno, ohErr,
                 opcode, reqOf, ansOf, reqVars, inbox, devTick, devReply,
                 closed>>

\* Then under tk_aw_mtx: an answered ticket is dropped; otherwise it is set
\* answered with tk_aw_errno and the waiter is woken.
StdAnswer ==
  LET t == devTick IN
  /\ devPc = "stdlock" /\ HeldBy(t) = {}
  /\ IF "ANSW" \in flag[t]
     THEN /\ Drop(t)
          /\ UNCHANGED pc
     ELSE /\ flag' = [flag EXCEPT ![t] = @ \cup {"ANSW"}]
          /\ awErrno' = [awErrno EXCEPT ![t] = devErr]
          /\ WakeSleepers(t)
          /\ UNCHANGED <<freeList, freeCount, allTicks, deadCount, inUse, age,
                         ohErr, reqOf, ansOf>>
  /\ devPc' = "idle"
  /\ devTick' = NoSlot
  /\ UNCHANGED <<ticketer, msQ, awQ, dead, inited, kicked, timeoutStatus,
                 timeoutArmed, gateSleepers, deadEvents, panicked, initSent,
                 unique, handler, opcode, tick, err, savedAge, tmp, itick, ops,
                 inbox, devReply, devErr, closed,
                 tcall, calloutActive>>

\* The daemon closes the device: fdata_set_dead, then every ticket on
\* aw_head is taken off, set answered with ENOTCONN and its waiter woken.
DeviceClose ==
  /\ DaemonCloses /\ ~closed /\ devPc = "idle"
  /\ \A t \in ToSet(awQ) : HeldBy(t) = {}
  /\ closed' = TRUE
  /\ MarkDead
  /\ awQ' = <<>>
  /\ flag' = [t \in Slot |-> IF OnAw(t) THEN flag[t] \cup {"ANSW"} ELSE flag[t]]
  /\ awErrno' = [t \in Slot |-> IF OnAw(t) THEN "ENOTCONN" ELSE awErrno[t]]
  /\ pc' = [q \in Req |-> IF pc[q] = "sleep" /\ OnAw(tick[q]) THEN "out"
                          ELSE pc[q]]
  /\ inbox' = {}
  /\ UNCHANGED <<ticketer, freeList, freeCount, deadCount, allTicks, msQ,
                 inited, kicked, timeoutStatus, timeoutArmed, panicked,
                 initSent, inUse, unique, age, handler, ohErr, opcode, reqOf,
                 ansOf, tick, err, savedAge, tmp, itick, ops, devPc, devTick,
                 devReply, devErr,
                 tcall, calloutActive>>


-----------------------------------------------------------------------------
(* The specification                                                        *)

\* fdata_alloc (zeroed session, ticketer 0, timeout status NONE) and a mount
\* that set daemon_timeout_p; no ticket allocated yet.
Init ==
  /\ ticketer = 0 /\ freeList = <<>> /\ freeCount = 0 /\ deadCount = 0
  /\ allTicks = {} /\ msQ = <<>> /\ awQ = <<>>
  /\ dead = FALSE /\ inited = FALSE /\ kicked = FALSE
  /\ timeoutStatus = "NONE" /\ timeoutArmed = TimeoutOn
  /\ gateSleepers = {} /\ deadEvents = 0 /\ panicked = FALSE
  /\ initSent = FALSE /\ tcall = "idle" /\ calloutActive = FALSE
  /\ inUse = [t \in Slot |-> FALSE] /\ unique = [t \in Slot |-> 0]
  /\ age = [t \in Slot |-> 0] /\ flag = [t \in Slot |-> {}]
  /\ handler = [t \in Slot |-> "none"] /\ awErrno = [t \in Slot |-> "0"]
  /\ ohErr = [t \in Slot |-> FALSE] /\ opcode = [t \in Slot |-> "none"]
  /\ reqOf = [t \in Slot |-> NoReq] /\ ansOf = [t \in Slot |-> NoReq]
  /\ pc = [r \in Req |-> "idle"] /\ tick = [r \in Req |-> NoSlot]
  /\ err = [r \in Req |-> "0"] /\ savedAge = [r \in Req |-> 0]
  /\ tmp = [r \in Req |-> 0] /\ ops = [r \in Req |-> 0]
  /\ itick = [r \in Req |-> NoSlot]
  /\ inbox = {} /\ devPc = "idle" /\ devTick = NoSlot /\ devReply = "ok"
  /\ devErr = "0" /\ closed = FALSE

\* The steps of one kernel thread that it takes on its own once enabled.
ReqStep(r) ==
  \/ FetchPop(r) \/ FetchAlloc(r) \/ AllocLoad(r) \/ AllocInit(r)
  \/ GateResume(r) \/ SetDead(r) \/ Callback(r) \/ MakeCanfailKill(r)
  \/ Message(r)
  \/ WaitBegin(r) \/ AlertAnswer(r) \/ AlreadyDead(r) \/ DeadAnswer(r)
  \/ Out(r) \/ AfterWait(r) \/ ScanAw(r) \/ UseAnswer(r)
  \/ InterruptFetch(r) \/ InterruptMessage(r)

\* Steps the environment decides: signals and an elapsed daemon timeout.
EnvStep(r) == GateSignal(r) \/ Interrupted(r) \/ TimedOut(r)

DevStep == DeviceRead \/ DeviceWrite \/ StdPull \/ StdAnswer
           \/ InitCallback \/ InitCancel \/ InitDone

\* A panic stops the system.
Next ==
  /\ ~panicked
  /\ \/ SendInit
     \/ \E r \in Req : ReqStep(r) \/ EnvStep(r)
     \/ DevStep
     \/ DeviceClose
     \/ CalloutFires \/ ExpiryHandler

\* Every kernel thread is scheduled while it can run, and the daemon keeps
\* reading and answering.  Signals, timeouts and a close need no fairness.
\* A delayed thread call fires once its deadline passes and its handler is
\* run by a kernel thread: the timer is fair too.
Fairness ==
  /\ WF_vars(SendInit)
  /\ \A r \in Req : WF_vars(ReqStep(r))
  /\ WF_vars(DeviceRead) /\ WF_vars(DeviceWrite)
  /\ WF_vars(StdPull) /\ WF_vars(StdAnswer)
  /\ WF_vars(InitCallback) /\ WF_vars(InitCancel) /\ WF_vars(InitDone)
  /\ WF_vars(CalloutFires) /\ WF_vars(ExpiryHandler)

Spec == Init /\ [][Next]_vars /\ Fairness


-----------------------------------------------------------------------------
(* Properties                                                               *)

TypeOK ==
  /\ ticketer \in Nat /\ freeCount \in Nat /\ deadCount \in Nat
  /\ freeList \in Seq(Slot) /\ msQ \in Seq(Slot) /\ awQ \in Seq(Slot)
  /\ allTicks \subseteq Slot /\ gateSleepers \subseteq Req
  /\ {dead, inited, kicked, timeoutArmed, panicked, initSent, closed}
       \subseteq BOOLEAN
  /\ timeoutStatus \in {"NONE", "PROCESSING", "DEAD"}
  /\ tcall \in {"idle", "pending", "fired"} /\ calloutActive \in BOOLEAN
  /\ deadEvents \in Nat
  /\ inUse \in [Slot -> BOOLEAN] /\ unique \in [Slot -> Nat]
  /\ age \in [Slot -> Nat]
  /\ flag \in [Slot -> SUBSET {"DIRTY", "ANSW", "KILLL", "INVAL"}]
  /\ handler \in [Slot -> {"none", "std", "init"}]
  /\ awErrno \in [Slot -> Errno] /\ ohErr \in [Slot -> BOOLEAN]
  /\ opcode \in [Slot -> {"none", "req", "init", "intr"}]
  /\ reqOf \in [Slot -> ReqId \cup {NoReq}]
  /\ ansOf \in [Slot -> ReqId \cup {NoReq}]
  /\ pc \in [Req -> PcValue] /\ tick \in [Req -> Slot \cup {NoSlot}]
  /\ err \in [Req -> Errno] /\ savedAge \in [Req -> Nat]
  /\ tmp \in [Req -> Nat] /\ ops \in [Req -> 0..MaxOps]
  /\ itick \in [Req -> Slot \cup {NoSlot}]
  /\ inbox \subseteq [u : Nat, req : ReqId \cup {NoReq}]
  /\ devPc \in DevPc /\ devTick \in Slot \cup {NoSlot}
  /\ devReply \in Replies \cup {"ok"} /\ devErr \in Errno

\* Spec 8.1: the tickets on aw_head carry pairwise distinct tk_unique, so
\* fuse_device_write's search by unique finds the one request a reply is
\* for (and no ticket is linked into aw_head twice).
UniqueCorrelation ==
  \A i, j \in 1..Len(awQ) : i # j => unique[awQ[i]] # unique[awQ[j]]

\* The thread's dispatcher holds its ticket from the fetch until it drops
\* it.  An interrupted fdisp_wait_answ gives the ticket up when it sets it
\* answered: the aw_head scan after that only compares its address and age.
Owns(r) == pc[r] \notin {"idle", "alloc", "alloc2", "scan"}

\* Spec 8.2 and 5: a ticket on freetickets_head is there once, and nobody
\* else still uses it: it is not queued for the daemon, not registered on
\* aw_head, not held by a thread's dispatcher, not in a handler.  A ticket
\* dropped twice (by fdisp_wait_answ and by a late fuse_standard_handler)
\* breaks it.
FreeListSound ==
  /\ freeCount = Len(freeList)
  /\ IsInjective(freeList)
  /\ \A t \in ToSet(freeList) :
       /\ ~OnAw(t) /\ t \notin ToSet(msQ) /\ devTick # t
       /\ \A r \in Req : Owns(r) => tick[r] # t

\* Spec 4.4/4.5: when fdisp_wait_answ returns 0 the answer in the ticket
\* is the daemon's reply to this thread's own request, never one for an
\* earlier request carried by the same recycled ticket.
SuccessCarriesOwnReply ==
  \A r \in Req : pc[r] = "use" => ansOf[tick[r]] = CurReq(r)

\* Spec 4.4, late reply after interruption: the aw_head scan of an
\* interrupted fdisp_wait_answ clears tk_aw_handler only for its own use of
\* the ticket (same tk_age).  A thread still waiting on a registered ticket
\* keeps its handler, so its reply reaches it and is not dropped.
WaiterKeepsHandler ==
  \A r \in Req :
    pc[r] \in {"wait", "sleep"} /\ OnAw(tick[r]) => handler[tick[r]] = "std"

\* Spec 4.2 and 4.9: before the INIT reply has been processed and
\* FSESS_INITED set, the daemon is sent nothing but the INIT request.
NoTrafficBeforeHandshake ==
  ~inited => \A m \in inbox : m.req = InitReq

\* A ticket is linked into ms_head at most once: an STAILQ entry inserted
\* twice corrupts the queue the daemon reads from.
MsQueueSound == IsInjective(msQ)

\* Spec 4.6/7: the daemon-timeout alert is shown by at most one thread at
\* a time, and only while timeout_status is PROCESSING.
TimeoutAlertExclusive ==
  \A r1, r2 \in Req :
    pc[r1] = "alert" => (timeoutStatus = "PROCESSING" /\ (pc[r2] = "alert" => r1 = r2))

\* Spec 5(d): marking the session dead is idempotent: FSESS_DEAD is set,
\* the reader woken and VQ_DEAD posted once, however many threads time out.
DeadSignalledOnce == deadEvents <= 1

\* Spec 5(a): a thread asleep in the handshake gate of fuse_ticket_fetch
\* eventually leaves it, woken by FSESS_INITED or by the session's death.
GateEventuallyPasses ==
  \A r \in Req : pc[r] = "gate" ~> pc[r] # "gate"

\* Every kernel thread finishes all its operations and no panic is hit:
\* no thread stays asleep in the handshake gate or on an unanswered ticket.
OpsComplete ==
  <>[](~panicked /\ \A r \in Req : pc[r] = "idle" /\ ops[r] = MaxOps)

-----------------------------------------------------------------------------
(* Refinement of the dispatcher's contract                                  *)

\* A thread is idle, inside fuse_ticket_fetch .. fdisp_wait_answ, or holds
\* the ticket fdisp_wait_answ returned 0 for; what it holds is the answer
\* the device put in that ticket.
\* The contract phase of each program counter of a thread.
PhaseOfPc == [p \in PcValue |-> CASE p = "idle" -> "idle"
                                   [] p = "use"  -> "holding"
                                   [] OTHER      -> "pending"]

Dispatch == INSTANCE DispatchContract WITH
  phase  <- [r \in Req |-> PhaseOfPc[pc[r]]],
  answer <- [r \in Req |-> IF pc[r] = "use" THEN ansOf[tick[r]] ELSE NoReq]

\* Spec 4.4, 5 and 7 together: every step of a thread's request through
\* fdisp_wait_answ is a step of the contract: it ends in an error, or in
\* success with the reply to that very request, and no reply, refresh or
\* drop by anyone else touches the ticket while the caller holds it.
\* Interruptions, recycled and reallocated tickets and late replies
\* included.  (That every request ends is OpsComplete.)
DispatchRefined == Dispatch!DSafe

=============================================================================
