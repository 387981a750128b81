------------------------------ MODULE FuseEntry ------------------------------
(***************************************************************************)
(* The entity helpers of fuse_internal.c: access, fsync and its callback,  *)
(* remove, rename, revoke and vnode_disappear, newentry (makerequest and  *)
(* core) and forget_send, run by kernel threads against one daemon.        *)
(*                                                                         *)
(* The ticket engine is abstracted to its contract (FuseIpc checks it):    *)
(* fdisp_wait_answ returns 0 and leaves the ticket with the caller, or an  *)
(* error after it has released the ticket itself.  Tickets are counted:   *)
(* live is the size of alltickets, freeN of the free list.  The daemon's  *)
(* side of the FUSE lookup protocol is its count of lookups per node,     *)
(* raised by every entry reply and lowered by every FORGET it reads.       *)
(***************************************************************************)
EXTENDS Integers, Sequences, FiniteSets

CONSTANTS
  Thr,          \* kernel threads running vnode operations
  Dirs,         \* directory nodes; their vnodes always exist
  Files,        \* regular-file nodes the threads create and remove
  MaxOps,       \* bound: operations each thread runs
  WaitResults,  \* what fdisp_wait_answ may return
  CheckCanFail, \* the daemon may send an entry fuse_internal_checkentry refuses
  VgetCanFail,  \* fuse_vget_i may fail
  SkipRevoke    \* FUSE_KL_skiprevoke may hold for the access action

ASSUME /\ WaitResults \subseteq {"0", "ENOENT", "ENOSYS", "EIO", "EINTR"}
       /\ "0" \in WaitResults
       /\ {CheckCanFail, VgetCanFail, SkipRevoke} \subseteq BOOLEAN
       /\ Dirs # {} /\ Dirs \cap Files = {}

Node == Dirs \cup Files
Ops  == {"access", "fsync", "remove", "rename", "create", "ioctl"}

\* The FUSE_AVFI_* command bits whose effect the model tells apart
\* (FUSE_AVFI_PURGEVNCACHE only purges the name cache, which it does not
\* keep).
AvfiCmd == {"MARKGONE", "UBC", "PURGEATTRCACHE"}

VARIABLES
  \* struct fuse_data
  noimpl,   \* noimplflags: the FSESS_NOIMPL bits set
  live,     \* tickets on alltickets
  freeN,    \* tickets on the free list
  ms,       \* notices on ms_head the daemon has not read: [op, node]
  aw,       \* fsync tickets the daemon has read and not answered
  \* the daemon
  lookups,  \* nlookup the daemon keeps for each node
  \* struct fuse_vnode_data, one per node
  refs,     \* fvdat->nlookup of the node's vnode, 0 when it has none
  vflag,    \* fvdat->flag: FN_REVOKING, FN_REVOKED
  attrOk,   \* the vnode's cached attributes are valid
  nlink,    \* the cached va_nlink
  \* the kernel threads
  pc, op, node, dir, err, tick, target, ops

vars == <<noimpl, live, freeN, ms, aw, lookups, refs, vflag, attrOk, nlink,
          pc, op, node, dir, err, tick, target, ops>>

sessVars == <<noimpl, live, freeN, ms, aw>>
nodeVars == <<lookups, refs, vflag, attrOk, nlink>>
thrVars  == <<pc, op, node, dir, err, tick, target, ops>>

-----------------------------------------------------------------------------
(* Tickets                                                                  *)

\* fuse_ticket_fetch: pop the free list, else allocate.
Fetch ==
  IF freeN > 0 THEN /\ freeN' = freeN - 1 /\ UNCHANGED live
               ELSE /\ live' = live + 1 /\ UNCHANGED freeN

\* fuse_ticket_drop: refresh and push on the free list.
Drop == /\ freeN' = freeN + 1 /\ UNCHANGED live

\* The FORGETs for node n still on ms_head, each for one lookup.
PendingForgets(n) ==
  Cardinality({i \in 1..Len(ms) : ms[i] = [op |-> "forget", node |-> n]})

\* The vnode of n exists and has not been revoked.
Usable(n) == refs[n] > 0 /\ "REVOKED" \notin vflag[n]

\* Leave the helper with err e.
Return(r, e) ==
  /\ pc' = [pc EXCEPT ![r] = "idle"]
  /\ err' = [err EXCEPT ![r] = e]

-----------------------------------------------------------------------------
(* The VFS calls a helper                                                   *)

\* A thread enters a helper for a node and a directory: access, fsync,
\* remove and rename on a usable vnode, create of a file with no vnode.
Call(r) ==
  /\ pc[r] = "idle" /\ ops[r] < MaxOps
  /\ \E o \in Ops, n \in Node, d \in Dirs :
       /\ CASE o \in {"access", "fsync", "ioctl"} -> Usable(n)
            [] o \in {"remove", "rename"} -> n \in Files /\ Usable(n)
            [] o = "create" -> n \in Files /\ refs[n] = 0
       /\ op' = [op EXCEPT ![r] = o]
       /\ node' = [node EXCEPT ![r] = n]
       /\ dir' = [dir EXCEPT ![r] = d]
       /\ pc' = [pc EXCEPT ![r] = o]
  /\ ops' = [ops EXCEPT ![r] = @ + 1]
  /\ UNCHANGED <<sessVars, nodeVars, err, tick, target>>

-----------------------------------------------------------------------------
(* fuse_internal_access and fuse_internal_vnode_disappear                   *)

\* The checks before any request: FSESS_DEFER_AUTH, a write on a read-only
\* mount (EACCES), a caller other than the daemon's owner (EPERM), no
\* FACCESS_DO_ACCESS, execute on a regular file (ENOTSUP or 0, as the
\* build sets M_MACFUSE_NEED_MOUNT_ARGUMENT_FOR_THIS), FSESS_DEFAULT_PERMISSIONS
\* and a FUSE_ACCESS the daemon does not implement all return without
\* one; otherwise a FUSE_ACCESS is made and waited for.
Access(r) ==
  /\ pc[r] = "access"
  /\ \/ /\ \E e \in {"0", "EACCES", "EPERM", "ENOTSUP"} : Return(r, e)
        /\ UNCHANGED <<live, freeN, tick>>
     \/ /\ "ACCESS" \notin noimpl
        /\ Fetch
        /\ tick' = [tick EXCEPT ![r] = "held"]
        /\ pc' = [pc EXCEPT ![r] = "accwait"]
        /\ UNCHANGED err
  /\ UNCHANGED <<noimpl, ms, aw, nodeVars, op, node, dir, target, ops>>

\* The answer: the ticket is dropped (by the caller on success, by
\* fdisp_wait_answ otherwise); ENOSYS sets FSESS_NOIMPL(ACCESS) and counts
\* as success; ENOENT makes the vnode disappear.
AccessReply(r) ==
  /\ pc[r] = "accwait"
  /\ Drop
  /\ tick' = [tick EXCEPT ![r] = "none"]
  /\ \E res \in WaitResults :
       CASE res = "ENOSYS" -> /\ noimpl' = noimpl \cup {"ACCESS"}
                              /\ Return(r, "0")
         [] res = "ENOENT" -> /\ pc' = [pc EXCEPT ![r] = "disappear"]
                              /\ err' = [err EXCEPT ![r] = "ENOENT"]
                              /\ UNCHANGED noimpl
         [] OTHER          -> /\ Return(r, res)
                              /\ UNCHANGED noimpl
  /\ UNCHANGED <<ms, aw, nodeVars, op, node, dir, target, ops>>

\* fuse_internal_vnode_disappear: purge the name cache; unless
\* FUSE_KL_skiprevoke holds, fuse_internal_revoke sets FN_REVOKING and
\* calls vn_revoke.
Disappear(r) ==
  /\ pc[r] = "disappear"
  /\ \E skip \in IF SkipRevoke THEN BOOLEAN ELSE {FALSE} :
       IF skip
       THEN /\ Return(r, "ENOENT")
            /\ UNCHANGED vflag
       ELSE /\ vflag' = [vflag EXCEPT ![node[r]] = @ \cup {"REVOKING"}]
            /\ pc' = [pc EXCEPT ![r] = "revoking"]
            /\ UNCHANGED err
  /\ UNCHANGED <<sessVars, lookups, refs, attrOk, nlink, op, node, dir, tick,
                 target, ops>>

\* vn_revoke has returned: FN_REVOKING is cleared and FN_REVOKED set, then
\* vnode_recycle; access returns ENOENT.
Revoked(r) ==
  /\ pc[r] = "revoking"
  /\ vflag' = [vflag EXCEPT ![node[r]] = (@ \ {"REVOKING"}) \cup {"REVOKED"}]
  /\ Return(r, "ENOENT")
  /\ UNCHANGED <<sessVars, lookups, refs, attrOk, nlink, op, node, dir, tick,
                 target, ops>>

-----------------------------------------------------------------------------
(* fuse_internal_ioctl_avfi                                                 *)

\* No avfi argument, or FUSE_AVFI_MARKGONE: EINVAL.  Otherwise FUSE_AVFI_UBC
\* returns what ubc_sync_range returns (1 when it succeeds, 0 when it
\* fails: the KPI's boolean, passed on as the errno), and
\* FUSE_AVFI_PURGEATTRCACHE invalidates the cached attributes whatever
\* that was.
IoctlAvfi(r) ==
  /\ pc[r] = "ioctl"
  /\ \/ /\ Return(r, "EINVAL")
        /\ UNCHANGED attrOk
     \/ \E cmd \in SUBSET AvfiCmd, ubcOk \in BOOLEAN :
          IF "MARKGONE" \in cmd
          THEN /\ Return(r, "EINVAL") /\ UNCHANGED attrOk
          ELSE /\ Return(r, IF "UBC" \in cmd /\ ubcOk THEN "EPERM" ELSE "0")
               /\ attrOk' = IF "PURGEATTRCACHE" \in cmd
                            THEN [attrOk EXCEPT ![node[r]] = FALSE]
                            ELSE attrOk
  /\ UNCHANGED <<sessVars, lookups, refs, vflag, nlink, op, node, dir, tick,
                 target, ops>>

-----------------------------------------------------------------------------
(* fuse_internal_fsync and fuse_internal_fsync_callback                     *)

\* FUSE_FSYNC (FUSE_FSYNCDIR on a directory) is sent asynchronously: the
\* ticket goes on aw_head with the callback and on ms_head; return 0.
Fsync(r) ==
  LET n == node[r] IN
  /\ pc[r] = "fsync"
  /\ Fetch
  /\ ms' = Append(ms, [op |-> IF n \in Dirs THEN "fsyncdir" ELSE "fsync",
                       node |-> n])
  /\ Return(r, "0")
  /\ UNCHANGED <<noimpl, aw, nodeVars, op, node, dir, tick, target, ops>>

\* The daemon's answer to an fsync runs the callback: ENOSYS sets the
\* NOIMPL bit of the opcode; the ticket is dropped.
FsyncCallback ==
  \E i \in 1..Len(aw), res \in {"0", "ENOSYS"} :
    /\ aw' = SubSeq(aw, 1, i - 1) \o SubSeq(aw, i + 1, Len(aw))
    /\ noimpl' = IF res = "ENOSYS"
                 THEN noimpl \cup {IF aw[i].op = "fsync" THEN "FSYNC"
                                   ELSE "FSYNCDIR"}
                 ELSE noimpl
    /\ Drop
    /\ UNCHANGED <<ms, nodeVars, thrVars>>

\* The daemon reads the head of ms_head: a FORGET lowers its count and
\* the device drops the FT_INVAL ticket; an fsync waits for its answer.
DaemonRead ==
  LET m == Head(ms) IN
  /\ ms # <<>>
  /\ ms' = Tail(ms)
  /\ IF m.op = "forget"
     THEN /\ lookups' = [lookups EXCEPT ![m.node] = @ - 1]
          /\ Drop
          /\ UNCHANGED aw
     ELSE /\ aw' = Append(aw, m)
          /\ UNCHANGED <<lookups, live, freeN>>
  /\ UNCHANGED <<noimpl, refs, vflag, attrOk, nlink, thrVars>>

-----------------------------------------------------------------------------
(* fuse_internal_remove and fuse_internal_rename                            *)

\* Mutant: remembers the link count the surviving links will have.
RemoveSurvivorCount(r) ==
  LET n == node[r] IN
  /\ pc[r] = "remove"
  /\ Fetch
  /\ tick' = [tick EXCEPT ![r] = "held"]
  /\ target' = [target EXCEPT ![r] = IF nlink[n] > 1 THEN nlink[n] - 1 ELSE 0]
  /\ pc' = [pc EXCEPT ![r] = "rmwait"]
  /\ UNCHANGED <<noimpl, ms, aw, nodeVars, op, node, dir, err, ops>>

\* FUSE_UNLINK or FUSE_RMDIR of the name in dir; before the wait, a cached
\* link count above one is remembered as the one to invalidate.
Remove(r) ==
  LET n == node[r] IN
  /\ pc[r] = "remove"
  /\ Fetch
  /\ tick' = [tick EXCEPT ![r] = "held"]
  /\ target' = [target EXCEPT ![r] = IF nlink[n] > 1 THEN nlink[n] ELSE 0]
  /\ pc' = [pc EXCEPT ![r] = "rmwait"]
  /\ UNCHANGED <<noimpl, ms, aw, nodeVars, op, node, dir, err, ops>>

\* The answer: drop; the attributes of dir and of the vnode are
\* invalidated whatever the result; after a successful unlink of a hard
\* link, fuse_unlink_callback invalidates every regular vnode whose cached
\* link count is the one remembered.
RemoveReply(r) ==
  LET n == node[r] IN
  /\ pc[r] = "rmwait"
  /\ Drop
  /\ tick' = [tick EXCEPT ![r] = "none"]
  /\ \E res \in WaitResults :
       /\ attrOk' = [m \in Node |->
                       IF \/ m \in {dir[r], n}
                          \/ /\ res = "0" /\ target[r] # 0
                             /\ m \in Files /\ refs[m] > 0
                             /\ nlink[m] = target[r]
                       THEN FALSE ELSE attrOk[m]]
       /\ Return(r, res)
  /\ UNCHANGED <<noimpl, ms, aw, lookups, refs, vflag, nlink, op, node, dir,
                 target, ops>>

\* FUSE_RENAME of the name in dir to a name in the directory td.
Rename(r) ==
  /\ pc[r] = "rename"
  /\ Fetch
  /\ tick' = [tick EXCEPT ![r] = "held"]
  /\ \E td \in Dirs : target' = [target EXCEPT ![r] = td]
  /\ pc' = [pc EXCEPT ![r] = "rnwait"]
  /\ UNCHANGED <<noimpl, ms, aw, nodeVars, op, node, dir, err, ops>>

\* The answer: drop; on success the attributes of both directories are
\* invalidated.
RenameReply(r) ==
  /\ pc[r] = "rnwait"
  /\ Drop
  /\ tick' = [tick EXCEPT ![r] = "none"]
  /\ \E res \in WaitResults :
       /\ attrOk' = IF res = "0"
                    THEN [m \in Node |-> IF m \in {dir[r], target[r]} THEN FALSE
                                         ELSE attrOk[m]]
                    ELSE attrOk
       /\ Return(r, res)
  /\ UNCHANGED <<noimpl, ms, aw, lookups, refs, vflag, nlink, op, node, dir,
                 target, ops>>

-----------------------------------------------------------------------------
(* fuse_internal_newentry, _makerequest, _core and forget_send              *)

\* makerequest: fdisp_init leaves fdi.tick NULL, so the first fdisp_make
\* fetches a ticket; the second refreshes the same ticket.
Create(r) ==
  /\ pc[r] = "create"
  /\ Fetch
  /\ tick' = [tick EXCEPT ![r] = "held"]
  /\ pc' = [pc EXCEPT ![r] = "crwait"]
  /\ UNCHANGED <<noimpl, ms, aw, nodeVars, op, node, dir, err, target, ops>>

\* newentry invalidates the directory's attributes whatever core returns.
InvalidateDir(r) == attrOk' = [attrOk EXCEPT ![dir[r]] = FALSE]

\* core waits for the answer.  A daemon that created the node counted a
\* lookup for the entry it sent, also when the caller was interrupted and
\* the late reply is discarded.  An error returns at once.
CreateReply(r) ==
  LET n == node[r] IN
  /\ pc[r] = "crwait"
  /\ \E res \in WaitResults :
       IF res = "0"
       THEN /\ lookups' = [lookups EXCEPT ![n] = @ + 1]
            /\ pc' = [pc EXCEPT ![r] = "crcheck"]
            /\ UNCHANGED <<live, freeN, tick, err, attrOk>>
       ELSE /\ \E created \in IF res = "EINTR" THEN BOOLEAN ELSE {FALSE} :
                 lookups' = [lookups EXCEPT ![n] = @ + (IF created THEN 1 ELSE 0)]
            /\ Drop
            /\ tick' = [tick EXCEPT ![r] = "none"]
            /\ InvalidateDir(r)
            /\ Return(r, res)
  /\ UNCHANGED <<noimpl, ms, aw, refs, vflag, nlink, op, node, dir, target,
                 ops>>

\* Mutant: the FORGET is sent on every path after the wait, at "out:".
CreateCheckForgetAlways(r) ==
  LET n == node[r] IN
  /\ pc[r] = "crcheck"
  /\ refs' = [refs EXCEPT ![n] = @ + 1]
  /\ nlink' = [nlink EXCEPT ![n] = 1]
  /\ attrOk' = [attrOk EXCEPT ![n] = TRUE, ![dir[r]] = FALSE]
  /\ ms' = Append(ms, [op |-> "forget", node |-> n])
  /\ UNCHANGED <<live, freeN>>
  /\ tick' = [tick EXCEPT ![r] = "none"]
  /\ Return(r, "0")
  /\ UNCHANGED <<noimpl, aw, lookups, vflag, op, node, dir, target, ops>>

\* fuse_internal_checkentry refuses the entry: goto out, drop, return its
\* error.  fuse_vget_i fails: fuse_internal_forget_send(..., fdip) runs
\* fdisp_init on the dispatcher, which sets fdi.tick to NULL, so
\* fdisp_make fetches a second ticket for the FORGET (FT_INVAL, queued,
\* no callback) and the answered ticket is never dropped.  Otherwise the
\* new vnode holds the lookup, cache_attrs fills its attributes, drop.
CreateCheck(r) ==
  LET n == node[r] IN
  /\ pc[r] = "crcheck"
  /\ \/ /\ CheckCanFail
        /\ Drop
        /\ InvalidateDir(r)
        /\ Return(r, "EINVAL")
        /\ UNCHANGED <<ms, refs, nlink>>
     \/ /\ VgetCanFail
        /\ Fetch
        /\ ms' = Append(ms, [op |-> "forget", node |-> n])
        /\ InvalidateDir(r)
        /\ Return(r, "EIO")
        /\ UNCHANGED <<refs, nlink>>
     \/ /\ refs' = [refs EXCEPT ![n] = @ + 1]
        /\ nlink' = [nlink EXCEPT ![n] = 1]
        /\ attrOk' = [attrOk EXCEPT ![n] = TRUE, ![dir[r]] = FALSE]
        /\ Drop
        /\ Return(r, "0")
        /\ UNCHANGED ms
  /\ tick' = [tick EXCEPT ![r] = "none"]
  /\ UNCHANGED <<noimpl, aw, lookups, vflag, op, node, dir, target, ops>>

-----------------------------------------------------------------------------
(* The specification                                                        *)

\* A mounted volume: every directory has its vnode; a file may already
\* have one (with one lookup, and one or two links) or not exist yet.
Init ==
  /\ noimpl = {} /\ live = 0 /\ freeN = 0 /\ ms = <<>> /\ aw = <<>>
  /\ refs \in {f \in [Node -> 0..1] : \A d \in Dirs : f[d] = 1}
  /\ lookups = refs
  /\ vflag = [n \in Node |-> {}]
  /\ attrOk = [n \in Node |-> TRUE]
  /\ nlink \in {f \in [Node -> 1..2] : \A d \in Dirs : f[d] = 2}
  /\ pc = [r \in Thr |-> "idle"] /\ op = [r \in Thr |-> "none"]
  /\ node = [r \in Thr |-> CHOOSE d \in Dirs : TRUE]
  /\ dir = [r \in Thr |-> CHOOSE d \in Dirs : TRUE]
  /\ err = [r \in Thr |-> "0"] /\ tick = [r \in Thr |-> "none"]
  /\ target = [r \in Thr |-> 0] /\ ops = [r \in Thr |-> 0]

ThrStep(r) ==
  \/ Call(r) \/ Access(r) \/ AccessReply(r) \/ Disappear(r) \/ Revoked(r)
  \/ IoctlAvfi(r)
  \/ Fsync(r) \/ Remove(r) \/ RemoveReply(r) \/ Rename(r) \/ RenameReply(r)
  \/ Create(r) \/ CreateReply(r) \/ CreateCheck(r)

Next == \/ \E r \in Thr : ThrStep(r)
        \/ DaemonRead
        \/ FsyncCallback

Spec == Init /\ [][Next]_vars

-----------------------------------------------------------------------------
(* Properties                                                               *)

\* Every variable holds a value of its type; in particular remove's
\* remembered link count is 0 or above one.
TypeOK ==
  /\ noimpl \subseteq {"ACCESS", "FSYNC", "FSYNCDIR"}
  /\ live \in Nat /\ freeN \in Nat
  /\ ms \in Seq([op : {"forget", "fsync", "fsyncdir"}, node : Node])
  /\ aw \in Seq([op : {"fsync", "fsyncdir"}, node : Node])
  /\ lookups \in [Node -> Int] /\ refs \in [Node -> Nat]
  /\ vflag \in [Node -> SUBSET {"REVOKING", "REVOKED"}]
  /\ attrOk \in [Node -> BOOLEAN] /\ nlink \in [Node -> 1..2]
  /\ pc \in [Thr -> Ops \cup {"idle", "accwait", "disappear", "revoking",
                              "rmwait", "rnwait", "crwait", "crcheck"}]
  /\ err \in [Thr -> {"0", "EACCES", "EPERM", "ENOTSUP", "EINVAL"} \cup WaitResults]
  /\ tick \in [Thr -> {"none", "held"}]
  \* remove's target_nlink is 0 or a link count above one
  /\ target \in [Thr -> {0} \cup {k \in Nat : k > 1} \cup Dirs] /\ ops \in [Thr -> 0..MaxOps]

\* Spec 4.8 and the FUSE lookup protocol: the daemon never forgets a node
\* the kernel still holds.  Once the FORGETs on ms_head have been read,
\* the daemon's lookup count of every node is still at least the lookups
\* its vnode holds (newentry_core's forget on a failed fuse_vget_i, the
\* interrupted create, the answered entry).
KernelRefsCovered ==
  \A n \in Node : lookups[n] - PendingForgets(n) >= refs[n]
====
