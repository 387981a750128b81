--------------------------- MODULE DispatchContract ---------------------------
(***************************************************************************)
(* What a kernel thread is promised when it sends a request through the   *)
(* dispatcher (spec 4.3, 4.4 and 7): fdisp_make and fdisp_wait_answ either *)
(* fail, having released the ticket, or succeed with the daemon's reply to *)
(* this very request in a ticket the caller alone holds until it drops     *)
(* it.  Every request ends one way or the other.                           *)
(*                                                                         *)
(* FuseIpc implements it (FuseIpc!Dispatch); FuseEntry and FuseStrategy   *)
(* take it as their model of a request.                                    *)
(***************************************************************************)
EXTENDS Naturals

CONSTANTS
  Req,      \* kernel threads
  MaxOps,   \* bound: requests each thread sends
  NoReq     \* no answer held

VARIABLES
  phase,    \* "idle", "pending" (in the dispatcher), "holding" (a reply)
  ops,      \* requests each thread has sent
  answer    \* the request whose reply the thread holds

avars == <<phase, ops, answer>>

\* The request a thread is on: its thread and its number.
Current(r) == <<r, ops[r]>>

DInit ==
  /\ phase = [r \in Req |-> "idle"]
  /\ ops = [r \in Req |-> 0]
  /\ answer = [r \in Req |-> NoReq]

\* fuse_ticket_fetch and fdisp_make: a new request.
Issue(r) ==
  /\ phase[r] = "idle" /\ ops[r] < MaxOps
  /\ phase' = [phase EXCEPT ![r] = "pending"]
  /\ ops' = [ops EXCEPT ![r] = @ + 1]
  /\ UNCHANGED answer

\* fdisp_wait_answ returns an error: nothing is held.
Fail(r) ==
  /\ phase[r] = "pending"
  /\ phase' = [phase EXCEPT ![r] = "idle"]
  /\ UNCHANGED <<ops, answer>>

\* fdisp_wait_answ returns 0: the ticket holds the reply to this request.
Succeed(r) ==
  /\ phase[r] = "pending"
  /\ phase' = [phase EXCEPT ![r] = "holding"]
  /\ answer' = [answer EXCEPT ![r] = Current(r)]
  /\ UNCHANGED ops

\* The caller reads the answer and calls fuse_ticket_drop.
Release(r) ==
  /\ phase[r] = "holding"
  /\ phase' = [phase EXCEPT ![r] = "idle"]
  /\ answer' = [answer EXCEPT ![r] = NoReq]
  /\ UNCHANGED ops

\* fdisp_make with the ticket the caller still holds: fticket_refresh
\* clears the reply and the ticket carries the caller's next request.
Reissue(r) ==
  /\ phase[r] = "holding" /\ ops[r] < MaxOps
  /\ phase' = [phase EXCEPT ![r] = "pending"]
  /\ ops' = [ops EXCEPT ![r] = @ + 1]
  /\ answer' = [answer EXCEPT ![r] = NoReq]

DNext == \E r \in Req : Issue(r) \/ Fail(r) \/ Succeed(r) \/ Release(r)
                         \/ Reissue(r)

DSafe == DInit /\ [][DNext]_avars

\* A request in the dispatcher ends; an answer held is released (or its
\* ticket reused).
DSpec ==
  /\ DSafe
  /\ \A r \in Req : WF_avars(Fail(r) \/ Succeed(r)) /\ WF_avars(Release(r) \/ Reissue(r))

=============================================================================
