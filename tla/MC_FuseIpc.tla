----------------------------- MODULE MC_FuseIpc -----------------------------
(* Instantiates FuseIpc for TLC: the thread and address sets are model     *)
(* values given in the .cfg files, the bounds are definitions here.        *)
EXTENDS FuseIpc, TLC

\* One operation per thread: with the INIT ticket recycled, a thread's
\* request already travels on a reused ticket, and two threads give the
\* interleavings of two requests.
MCMaxOps == 1

\* fuse_max_freetickets: -1 never destroys on drop, 0 always does.
MCMaxFreeUnlimited == -1
MCMaxFreeZero == 0

MCReplies == {"ok", "err", "bad"}
MCRepliesOk == {"ok"}

=============================================================================
