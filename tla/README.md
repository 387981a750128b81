# TLA+ models of the MacFUSE kernel IPC, buffers, bulk I/O, readdir and entity helpers

This directory holds TLA+ models of the MacFUSE kernel extension under
`src/core/10.5/fusefs` (the ticket engine, `fuse_ipc.c`) and
`src/core/10.4/fusefs` (the INIT handshake, the strategy routine and the
readdir transcoder and the entity helpers of `fuse_internal.c`), with TLC configurations that check them. `PROJECT.json`
maps every definition to the source lines it models. It also lists the runs,
the mutants that show each property can fail, the findings and the hazards.

## The system

A mounted volume has one session (`struct fuse_data`). Kernel threads that
carry out VFS operations talk to the user-space daemon through it.

* **Tickets.** Every request travels in a `struct fuse_ticket`. A thread takes
  one with `fuse_ticket_fetch`: it pops the free list or allocates a new ticket
  with `fticket_alloc`, which assigns `tk_unique = ++ticketer`. It fills the
  request (`fdisp_make`) and registers it on the awaiting-answer queue
  `aw_head` (`fuse_insert_callback`). It then puts it on the pending-send queue
  `ms_head` (`fuse_insert_message`) and sleeps in `fticket_wait_answer`. When
  the request is done, the ticket returns to the pool with `fuse_ticket_drop`.
  If the pool is full or the ticket is marked `FT_KILLL`, the ticket is
  destroyed instead.
* **The daemon** reads `/dev/fuseN`, which pops `ms_head`. It writes a reply;
  the device matches it by unique to the first ticket on `aw_head`, removes
  that ticket and runs its handler. For a normal request the handler is
  `fuse_standard_handler`: it pulls the body with `fticket_pull`, marks the
  ticket answered and wakes the sleeper. The device code (`fuse_device.c`) is
  not in this tree, so it is modelled from `spec.md`.
* **Interruption and timeouts.** A signal ends the sleep with EINTR. The
  thread then hands the ticket to the daemon's late reply: it marks the ticket
  answered and clears the handler if the ticket is still on `aw_head` with the
  same `tk_age`. With `M_MACFUSE_ENABLE_INTERRUPT`, it also sends a
  FUSE_INTERRUPT notice. `fuse_internal_interrupt_send` points a dispatcher
  at the ticket, but `fdisp_init` clears that pointer, so `fdisp_make`
  fetches a fresh ticket (through the INIT gate and the ticket limit like
  any other); the notice is queued `FT_INVAL` and the device read drops it. A daemon timeout starts the
  alert state machine under `timeout_mtx`: NONE → PROCESSING → DEAD. The
  alert either waits again or ejects the volume (`fdata_set_dead`).
* **Handshake.** `fuse_internal_send_init` sends FUSE_INIT with unique 0.
  Until `FSESS_INITED` is set, every fetch except the INIT's waits in a gate.
  `fuse_internal_init_callback` checks the reply, drops the ticket, then sets
  `FSESS_INITED` and wakes the gate. With `M_MACFUSE_ENABLE_INIT_TIMEOUT`,
  `send_init` also arms a delayed thread call. If it fires, its handler
  `fuse_internal_thread_call_expiry_handler` kicks the session and signals
  the daemon. The init callback cancels the call (ignoring whether the
  cancel worked) before it sets `FSESS_INITED`.
* **Death.** `fdata_set_dead` sets `FSESS_DEAD` once and wakes the gate and the
  timeout sleepers. Closing the device marks the session dead and answers
  every waiting ticket with ENOTCONN.

* **Buffers.** Each ticket has a send buffer `tk_ms_fiov` and a reply buffer
  `tk_aw_fiov` (`struct fuse_iov`: `allocated_size`, `len`, `credit`).
  `fiov_adjust` grows a buffer when it is too small. It shrinks the buffer
  when it keeps more than `fuse_iov_permanent_bufsize` bytes unused and its
  credit has run out; a reallocation restores the credit. The fallible
  variant `fiov_adjust_canfail` returns ENOMEM. `fdisp_make_canfail` then kills
  the ticket; `fticket_aw_pull_uio` marks it `FT_KILLL`. Before a reply body
  is copied, `fuse_body_audit` checks its length against a per-opcode table.
* **Bulk I/O.** `fuse_internal_strategy_buf` maps a `struct buf` to a file
  offset. `fuse_internal_strategy` then runs it as a loop of FUSE_READ or
  FUSE_WRITE requests of at most `iosize` bytes. It reads into the caller's
  buffer (`FT_A_BUF`) until a short reply, zero-fills the rest, and writes
  until the daemon has acknowledged every byte. One ticket is reused
  across the chunks.
* **Readdir.** `fuse_internal_readdir` asks the daemon for up to the
  caller's residual of `struct fuse_dirent` records. For each reply,
  `fuse_internal_readdir_processdata` converts them to the host's
  `struct dirent`. It stops at the first record that does not fit and
  moves the uio offset to that record's cookie.
* **Entity helpers.** `fuse_internal_access` returns early for several
  mount flags and caller checks, otherwise asks the daemon; ENOSYS sets
  `FSESS_NOIMPL(ACCESS)`, ENOENT makes the vnode disappear (purge, and unless
  `FUSE_KL_skiprevoke` holds, `fuse_internal_revoke` with `FN_REVOKING` then
  `FN_REVOKED`). `fuse_internal_fsync` sends FSYNC asynchronously; its
  callback records ENOSYS in `noimplflags`. `fuse_internal_remove` and
  `_rename` wait for the daemon and invalidate cached attributes; an unlink
  of a hard link invalidates every regular vnode with the old link count.
  `fuse_internal_newentry` builds the request, waits, checks the entry and
  creates the vnode with `fuse_vget_i`; if that fails it sends FORGET for the
  lookup the daemon counted.

## Modules

| Module | Models | State | Actions |
|---|---|---|---|
| `FuseIpc` | the ticket engine, the handshake and the device side | session fields and queues; per-address ticket fields; per-thread program counter, ticket, errno and saved age; the daemon's inbox and handler step | one action per step of `fuse_ticket_fetch`, `fticket_alloc`, `fuse_insert_callback`, `fuse_insert_message`, `fticket_wait_answer` (with its timeout, alert and dead branches), `fdisp_wait_answ` (the error scan and the success path), `fuse_ticket_drop`, `fuse_standard_handler`, `fdisp_make_canfail` with `fuse_ticket_kill`, `fuse_internal_send_init`, `fuse_internal_init_callback` (the callout cancel is a step of its own), the callout's firing and `fuse_internal_thread_call_expiry_handler`, the interrupt notice and the device read, write and close |
| `DispatchContract` | what `fdisp_make` and `fdisp_wait_answ` promise a calling thread (`spec.md` 4.3, 4.4, 7) | per thread: idle, pending or holding a reply; requests sent; the request whose reply it holds | `Issue`, `Fail`, `Succeed`, `Release`, `Reissue` (`fdisp_make` refreshing the ticket the caller holds) |
| `FuseBuffers` | the `fuse_iov` policy, the ticket life cycle around it, `fdisp_make_canfail` and the reply path through `fuse_body_audit` | the registry, free list and counters of the session; per-ticket buffers (`alloc`, `len`, `credit`), flags, opcode, `fuse_read_in.size`, answer type and errno; per-caller `fdi.tick` and program counter | `Make` (`fdisp_make_canfail` with fetch, refresh or allocation and the kill on ENOMEM), `Answer` (`fuse_standard_handler` → `fticket_pull` → `fuse_body_audit` → `fticket_aw_pull_uio`), `Release` (`fuse_ticket_drop`); the `fiov_*` functions and the audit table are operators |
| `FuseStrategy` | `fuse_internal_strategy_buf` and `fuse_internal_strategy` | the buffer (`count`, `resid`, block numbers, mapping, `biodone`), the loop variables (`offset`, `left`, `bufdat`, `chunksize`), the valid handles of `fvdat->fufh[]` and the one chosen, `fdi.tick` and the requests sent | one action per stretch of code between two calls that may sleep: block mapping, the entry checks with the filehandle choice, the start, chunk and reply step of each loop, the final drop and the return |
| `FuseFile` | the inline translations of `fuse_file.h` | — (operators only) | `XlateFromMmap`, `XlateFromFflags`, `XlateToOflags`, `PreflightAction`, `PreflightStatus`; `FFlagsOf` is the `FFLAGS` conversion of `<sys/fcntl.h>` |
| `FuseReaddir` | `fuse_internal_readdir` and `fuse_internal_readdir_processdata` | the directory the daemon serves, the caller's uio (`resid`, `offset`), the request and reply in flight, the entries listed so far, the ticket | `Call`, `Request`, `Reply`, `WaitFailed`, `Process`, `Drop`, `Return`; the record conversion is the recursive operator `Transcode` |
| `FuseEntry` | access, fsync and its callback, remove, rename, revoke and vnode_disappear, newentry and forget_send | `noimplflags`; counts of live and free tickets; `ms_head` (FORGET and FSYNC notices) and the FSYNCs read and unanswered; the daemon's lookup count per node; per-vnode `nlookup`, `FN_REVOKING`/`FN_REVOKED`, valid attributes, cached `va_nlink`; per-thread program counter, operation, node, directory, errno, ticket, `target_nlink` or target directory | `Call`; `Access`, `AccessReply`, `Disappear`, `Revoked`; `Fsync`, `FsyncCallback`; `Remove`, `RemoveReply`, `Rename`, `RenameReply`; `Create` (makerequest), `CreateReply`, `CreateCheck` (checkentry, `fuse_vget_i` and forget_send); `IoctlAvfi`; `DaemonRead` |
| `MC_*` | bounds and constant values for TLC | — | — |

In `FuseIpc` a ticket is identified by its address (`Slot`). The allocator may hand out
the address of a destroyed ticket again, with `tk_age` 0. This is the real
reuse a `(pointer, age)` comparison has to survive. Each step between two lock
operations is one action. Where the code takes a lock, the step happens inside
it. Most accesses made without a lock are separate steps, for example the
`ticketer++` of `fticket_alloc` (`TornTicketer`). The insert functions are an
exception. Their unlocked `FSESS_DEAD` read (`fuse_ipc.c` 653 and 673) is
merged with the locked push that follows it, in `Callback` and
`InsertMessage`. The merge loses no state. `fdata_set_dead` (`fuse_ipc.c`
484-500) sets `FSESS_DEAD` and wakes sleepers. It touches neither `aw_head`
nor `ms_head`, so it commutes with the push. A death that falls between the
read and the push therefore reaches the same states as a death just after
the push, which the model does contain. A thread that holds a ticket's
`tk_aw_mtx` through the alert path blocks the handler of that ticket (`HeldBy`).

Build options and tunables are CONSTANTS. Each cfg turns them on or off:

* `InterruptOn` and `TimeoutOn`;
* `NoAlerts` (`FSESS_NO_ALERTS`);
* `MaxFree` (`fuse_max_freetickets`) and `MaxTickets` (`fuse_max_tickets`);
* `AllocCanFail` (ENOMEM in `fiov_adjust_canfail`);
* `AnswerSignals` and `GateSignals` (signals during the two sleeps);
* `DaemonCloses`;
* `InitTimeoutOn` (`M_MACFUSE_ENABLE_INIT_TIMEOUT`).
* `CanfailReq`, the threads whose requests are made with
  `fdisp_make_canfail` and may fail their allocation.

The data is abstracted. A request is its thread and number. A reply is
"ok", "err" (the daemon's error) or "bad" (rejected by `fuse_body_audit`).

`FuseBuffers` runs each caller's operation as one step and leaves the queue
interleavings to `FuseIpc`. A buffer is its three numbers. The bytes in it
are not modelled. `FU_AT_LEAST` is defined in a header that is not in this
tree; following `spec.md` 4.1 it is modelled as a floor (`MinIov`) on every
allocation. The audit table is translated case by case, with the wire
structures as scaled sizes (`Sz`). A caller either reuses its ticket for the
next request, as the strategy and readdir loops do through `fdi.tick`, or
drops it.

`FuseStrategy` abstracts the dispatcher to its result. `fdisp_wait_answ`
either fails, having released the ticket itself, or returns a reply the
daemon chose among those `fuse_body_audit` admits. The 32-bit unsigned
arithmetic of the loop (`buf_resid`, the `u_int` `min()`, `chunksize -
fwo->size`) is kept modulo `2^UWidth`. The strategy looks for a valid
handle of the transfer's own type, then for a read-write one; with neither it
opens one with `fuse_filehandle_get` (read-only for a read, read-write for a
write), which either fails (`FhCanFail`: EIO) or makes that handle valid. The
body of `fuse_filehandle_get` is in `fuse_file.c`, which is not in this tree.
A node starts with any set of valid handles.

`FuseFile` writes a flag word as the set of its flags that the translations
test. Its operators are used by `FuseStrategy` (`XlateToOflags`) and checked
against one another by `XlateAgree`.

`FuseReaddir` keeps a record as its name length, inode and whether the
`._` filter hides it. The wire size `FUSE_DIRENT_SIZE` and the host size
`GENERIC_DIRSIZ` are computed from the name length. `d_fileno` is the inode
modulo `2^InoWidth`. `Transcode` follows processdata's loop record by
record, and `Reference` states its result in closed form. The daemon side
(`Replies`) is modelled from `spec.md`: it fills the request with whole
records and may cut the last one short.

`FuseEntry` abstracts the ticket engine to its contract, which `FuseIpc`
checks: `fdisp_wait_answ` returns 0 and leaves the ticket with the caller,
or returns an error after releasing it. Tickets are counts (live and
free). The daemon is its per-node lookup count, raised by every entry
reply (also one whose caller was interrupted) and lowered by each FORGET it
reads. The VFS calls (`fuse_vnops.c`) and the device read are not in this
tree; `Call` and `DaemonRead` are modelled from `spec.md`.

## Properties

Each module has a type invariant `TypeOK`.

`FuseIpc`:

* `UniqueCorrelation` — no two live tickets on `aw_head`, in a handler or
  owned by a waiting thread have the same unique.
* `FreeListSound` — the free list holds each ticket once, the free counter
  equals its length, and no free ticket is queued, in a handler or owned by
  a thread.
* `SuccessCarriesOwnReply` — a thread that takes the success path of
  `fdisp_wait_answ` holds the reply to its own request.
* `WaiterKeepsHandler` — while a thread waits, its ticket on `aw_head` keeps
  `fuse_standard_handler`, so its reply will wake it.
* `NoTrafficBeforeHandshake` — before `FSESS_INITED`, the daemon reads only
  the INIT request.
* `MsQueueSound` — no ticket is on `ms_head` twice.
* `TimeoutAlertExclusive` — at most one thread is in the alert path, and only
  while the timeout state is PROCESSING.
* `DeadSignalledOnce` — the side effects of `fdata_set_dead` happen once.
* `GateEventuallyPasses` — a thread in the handshake gate eventually leaves it.
* `OpsComplete` — every thread eventually completes all its operations and is
  idle.
* `DispatchRefined` — every step of the ticket engine is a step of
  `DispatchContract` under the mapping below, or leaves the contract's state
  unchanged.

`DispatchContract` states what a thread is promised (`spec.md` 4.4, 5, 7).
`fdisp_wait_answ` either fails, having released the ticket, or succeeds. On
success the thread holds the reply to the request it sent, and no other
thread holds that ticket until it drops it. `FuseIpc` instantiates it with
`INSTANCE ... WITH`. A thread's phase is "idle" when its program counter is
idle, "holding" on the success path (`use`), and "pending" anywhere between
the fetch and the drop. The answer it holds is the reply recorded in its
ticket (`ansOf`). `FuseEntry` and `FuseStrategy` take this contract as
their model of a request, so the refinement is what makes their
abstraction sound. `FuseStrategy` checks its own side of that composition:
it instantiates the contract for its one thread (`StrategyDispatch`), with
the phase read off its program counter and `fdi.tick`, and the number of
requests sent as `ops`.

`FuseBuffers`:

* `BuffersHoldTheirLength` — every live ticket's buffers have
  `len <= allocated_size`, after any mix of growth, credit-paced shrinking,
  refreshes and failed fallible reallocations.
* `CountersTrackRegistry` — `fuse_iov_current` is twice the number of live
  tickets, and `fuse_tickets_current` equals it; both are updated with
  `FUSE_OSAddAtomic`. `ticketer - deadticket_counter` is the quantity compared
  with `fuse_max_tickets`. It never exceeds the number of live tickets, on
  every path that destroys a ticket. This is only an upper bound:
  `fticket_alloc`'s `ticketer++` runs without `ticket_mtx` (`TornTicketer`),
  and a lost increment leaves the difference below the registry.

`FuseStrategy`:

* `BufferRangesSound` — every request names a range inside the caller's
  buffer.
* `OffsetsTrackBuffer` — the file offset and the buffer position of every
  request advance together from `blkno * biosize`.
* `TicketReleasedOnce` — on return, the ticket has been released exactly
  once: by `fdisp_wait_answ` on an error, by the final drop otherwise.
* `CompletedOnceSent` — the routine returns without `buf_biodone` only on
  its refusals before any request (zero count, a vnode type it does not
  serve, a failed `buf_map`); once a request is sent, every path unmaps and
  completes the buffer.
* `HandleAllowsTransfer` — every request goes out on a handle the node holds
  valid, and one whose open flags (`XlateToOflags`, `FFLAGS`) allow the
  transfer: a write never on a read-only handle, a read never on a
  write-only one.
* `XlateAgree` — the `fuse_file.h` translations agree: the handle chosen for
  fflags or for an mmap protection is opened with exactly the access asked
  for (execute counts as read), and on a checked mount preflight passes a
  valid handle exactly when the caller holds the rights its open flags use.
* `StrategyUsesDispatch` — the routine keeps to `DispatchContract`: one
  wait per request, the next request only on the ticket of a successful
  reply (`fdisp_make`'s refresh, `Reissue`), a drop at the end.
* `ReadsTerminate` — a read finishes, whatever the daemon returns.
* `WritesTerminate` — a write finishes whenever the daemon acknowledges at
  least one byte of every FUSE_WRITE (`AcksProgress`, read off the offsets of
  consecutive requests). Dropped, the assumption fails: a daemon that
  acknowledges nothing keeps the loop going until the model's `MaxRounds`.

`FuseReaddir`:

* `TranscodeMatchesReference` — processdata computes, for every reply the
  daemon can send, what `spec.md` 4.7 describes, residual and offset
  included.
* `ListingExact` — across all getdirentries calls the application receives
  the entries in order, none twice and none skipped, and the end is reported
  after the last one.
* `TicketReleasedOnce` — the readdir ticket is released exactly once.
* `ListingTerminates` — every listing ends with EOF or an error.

`FuseEntry`:

* `TypeOK` also states that `remove`'s remembered link count is 0 or
  above one.
* `KernelRefsCovered` — once the FORGETs on `ms_head` are read, the daemon's
  lookup count of every node is at least the lookups its vnode holds. The
  daemon never forgets a node the kernel still uses.

## Runs

| Run | Expect | What it shows |
|---|---|---|
| `answer_matching` | pass | Two threads with one request each, plus the handshake. The daemon answers ok, err or bad, and signals may interrupt the wait, each interruption queueing an interrupt notice on a ticket of its own. Uniques, `ms_head`, the free list, reply matching and the handlers stay sound, everything completes, and the engine implements `DispatchContract` (about 1.2M states). |
| `timeout_escalation` | pass | Timeouts with the alert panel, gate signals, `fuse_max_tickets` = 2, interrupt notices, a thread whose `fdisp_make_canfail` may fail, the INIT timeout callout, the unlocked `ticketer` and a closing daemon. The alert path is exclusive and death is signalled once (about 4.4M states). |
| `torn_ticketer` | violation | `UniqueCorrelation`: two tickets get the same unique. |
| `timeout_double_drop` | violation | `FreeListSound`: a timed-out ticket is dropped while it is still queued. |
| `aba_handler_cleared` | violation | `WaiterKeepsHandler`: an interrupted thread clears a new request's handler at the same address. |
| `traffic_before_init` | violation | `NoTrafficBeforeHandshake`: a request passes the gate before `FSESS_INITED`. |
| `gate_sleeps_after_death` | violation | `GateEventuallyPasses`: a thread that reaches the gate after death sleeps forever. |
| `buffer_lifecycle` | pass | Two callers build, answer and drop requests. Reallocation may fail, and the free-list and ticket limits are low enough to be reached. Buffers stay within their allocations, and the counters match the registry (about 164k states). |
| `strategy_io` | pass | Reads and writes of every buffer shape, block number and cached file size, with failing filehandle lookups, mappings and waits. Requests stay inside the buffer, offsets track it and go out on a handle that allows them, the ticket is released once, every path after the first request completes the buffer, the filehandle translations agree, reads terminate, and writes terminate while the daemon acknowledges at least a byte per request (about 550k states). |
| `write_overack` | violation | `BufferRangesSound`: a daemon that acknowledges more than it was sent makes the write loop send from past the end of the buffer. |
| `readdir_listing` | pass | Listings of four directories into buffers of one and two records, with truncated replies, failed waits, a zero-length name, an over-long name and a ._ entry. Transcoding matches the reference and listings are exact and terminate. |
| `entry_lifecycle` | pass | Two threads, two operations each, on one directory and one file that may exist (with one or two links) or not. The daemon answers ok, ENOENT, ENOSYS, EIO or the wait is interrupted; it may send an entry checkentry refuses, and `fuse_vget_i` may fail. The threads may also call `ioctl_avfi`. The daemon's lookup counts cover the kernel's (about 3.5M states). |

`PROJECT.json` (`findings`) explains each violation against the source lines.
In short:

* `ticketer++` is outside `ticket_mtx`.
* The timeout and dead paths mark the ticket answered themselves, so the
  caller drops a registered ticket.
* The `(pointer, tk_age)` check after an interruption is defeated when an
  address is reused.
* The INIT ticket is recycled before `FSESS_INITED` is set.
* The gate does not look at `FSESS_DEAD`.
* `chunksize - fwo->size` is unsigned in `fuse_internal_strategy`, so the
  over-acknowledgement check never fires.

## Bounds

`FuseIpc`:

* Two threads (`Req`) and three addresses (`Slot`). Together with the INIT
  ticket, that is enough for every ticket to be live at once and for an
  address to be reused after a destroy.
* One operation per thread (`MaxOps`). The INIT ticket is recycled into the
  first request, so reuse of a ticket and its unique already happens.
* `MaxFree` is -1 (drop always recycles) or 0 (drop always destroys), the two
  extremes of `fuse_max_freetickets`.
* `MaxTickets` = 2 makes the admission limit trip with two threads.

All the `FuseIpc` violations need at most these bounds.

`FuseBuffers`:

* Two callers, three ticket addresses and four requests in all.
* A header of 2 bytes and bodies of 0 or 4. `FU_AT_LEAST`'s floor and the
  permanent size are both 4, so a grown buffer is shrunk back once its
  credit of 1 is spent.
* Reply bodies of 0, 2, 3 and 6 bytes: empty, exact, one byte past a READ
  of 2, and past the page size of 4.
* `fuse_max_freetickets` = 1 and `fuse_max_tickets` = 1, so a drop
  sometimes destroys and a second live ticket marks the session dead.

`FuseStrategy`:

* Blocks and chunks of 2 bytes, so buffers of 3 and 4 bytes take several
  rounds and may end inside a block.
* Buffers of 0, 1, 3 and 4 bytes and cached file sizes of 0, 1, 3 and 5,
  before, inside and past the buffers.
* Replies of up to 3 bytes (one more than a chunk) and at most 5 rounds.
* A node starts with any of the 8 sets of valid handles, so the strategy
  meets the preferred handle, the read-write fallback and the open of a new
  one in both modes.
* The unsigned int is 8 bits wide. It wraps where the 32-bit one does, and
  every count fits in it.

`FuseReaddir`:

* The real record layout: `FUSE_NAME_OFFSET` 24, 8-byte alignment and the
  8-byte header of the 10.4 `struct dirent`.
* `MAXNAMLEN` scaled to 9, so that an over-long name has a wire record a
  request can hold.
* `d_fileno` is 4 bits wide, so inode 16 becomes 0 as 2^32 does.
* Requests of at most 100 bytes, buffers of 40 and 100 bytes (one and two
  records), and four calls.

`FuseEntry`:

* Two threads and two operations each: enough for a create followed by an
  access, fsync, remove or rename of the new vnode, and for two threads to
  interleave on the same node.
* One directory and one file. A second directory (a rename across
  directories) makes the run exceed five minutes; it changes only which
  attributes are invalidated.
* Every wait result the helpers treat apart, plus an unrelated error.

## Fairness

In `FuseIpc`, weak fairness is assumed for each thread's own steps and for
the daemon's read, write and handler steps. A kernel thread that can run is
eventually scheduled, and `OpsComplete` assumes a daemon that keeps serving
its device. Signals, timeouts, the alert answer and the device close are
environment steps without fairness: they may never happen. The INIT
callout is fair: once armed, a delayed thread call fires at its deadline
unless it is cancelled first, and its handler then runs.

`DispatchRefined` checks only the safety part of the contract (`DSafe`).
`OpsComplete` already says that every request ends. `DSpec`, the contract
with its fairness, is stated for the modules that use the contract.

`FuseStrategy` and `FuseReaddir` are one thread each and assume weak
fairness of their next-state relation. The daemon's reply is a
nondeterministic choice inside that thread's step, and a failed wait is one
of its outcomes. Weak fairness does not make the daemon acknowledge bytes,
so `WritesTerminate` assumes that itself, as the antecedent `[]AcksProgress`,
instead of as fairness. `FuseBuffers` and `FuseEntry` check safety only and
assume no fairness.

Runs whose workload is bounded (`MaxOps`, `MaxRounds`, `MaxCalls`) set
`CHECK_DEADLOCK FALSE`: the callers stop when the bound is spent.

## Not modelled

* Lost updates of `dataflags` between its two locks.
* `fuse_insert_message_head`: nothing in this tree calls it.
* `fdata_destroy`: it is called from the unmount path, which is not in this
  tree, so the state the session is destroyed in is unknown.
* A callout that fires after the INIT reply has been handled. The cancel
  then fails, `callout_status` reads INACTIVE, and the handler kicks a
  session that is INITED. This is reachable in `timeout_escalation`. No
  property states it, because neither the code nor `spec.md` says it must
  not happen (see the hazards).
* A caller that reuses `fdi.tick` after `fdisp_make_canfail` failed. The
  ticket is already destroyed then, and `fdisp_make_canfail` does not clear
  the pointer. The callers of `fdisp_make_canfail` are not in this tree.
* In `fuse_internal_ioctl_avfi`, `ubc_sync_range` and the name-cache purge.
  They are calls into the VFS. Only `ubc_sync_range`'s result (1 or 0) is
  kept: the helper returns it as its errno, so a sync that succeeds returns 1
  (`EPERM`).
* `fuse_internal_forget_callback`: nothing in this tree installs it.
* Steps that `FuseIpc` takes as one action although the code unlocks in the
  middle. `Drop` is one step, but `fuse_ticket_drop` releases `ticket_mtx`
  around `fticket_refresh`. Two drops can then both see room on the free
  list, and it ends one above `fuse_max_freetickets` (see the hazards).
  `InterruptFetch` allocates with an untorn `ticketer++`. Only the ordinary
  fetch is torn (`TornTicketer`).
* `FuseBuffers.Make` also takes `ticketer++` as one step. Because of this,
  `CountersTrackRegistry` states an upper bound for `ticketer -
  deadticket_counter` and not an equality.
* `FuseEntry` drops the ticket of an access or create as soon as the wait
  returns, EINTR included. In the code, an interrupted ticket stays on
  `aw_head` until its late answer arrives. That delay is modelled in
  `FuseIpc`.
* The `EACCES` return of `fuse_internal_newentry` for Apple special names
  (`fuse_internal.c` 1122-1124). It comes before any request and changes no
  state, and `FuseEntry` does not model names.
* The `uiomove` failure that ends `fuse_internal_readdir_processdata`'s loop
  (425-428): a fault copying to the user's buffer. `Transcode` copies every
  record it has room for.
* The leaks `FuseEntry` shows are not stated as violated properties: the
  ticket `newentry_core` keeps after a failed `fuse_vget_i` and the missing
  FORGET after checkentry refuses an entry. Both are listed as hazards.
* Lost updates of `noimplflags` and of `fvdat->flag`, which are changed
  without a lock; each update is one step in `FuseEntry`.
* `fuse_device.c`, `fuse_vnops.c` and the other files the specification
  names but this tree does not contain. The device side of `FuseIpc` and the
  daemon side of `FuseReaddir` are modelled from `spec.md`.
* `fuse_mount.h`: mount-argument declarations, with no code that changes
  state.
* The bundled Objective-C libraries and the SDK template file system. They
  are interface declarations and a stub daemon.
