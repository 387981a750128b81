----------------------------- MODULE FuseReaddir -----------------------------
(***************************************************************************)
(* Directory listing through fuse_internal_readdir and                     *)
(* fuse_internal_readdir_processdata (fuse_internal.c).                    *)
(*                                                                         *)
(* An application lists a directory with successive getdirentries calls.  *)
(* Each call runs fuse_internal_readdir: a loop of FUSE_READDIR requests   *)
(* at the uio offset, each reply transcoded record by record into the      *)
(* host's struct dirent.  The daemon serves the directory dir; the       *)
(* cookie it puts in a record's off field is the index of that entry,    *)
(* so a request at offset o resumes with entry o + 1.  A wire record is    *)
(* the entry it encodes and the number of its bytes the reply holds.       *)
(*                                                                         *)
(* processdata is the recursive operator Transcode, checked against the   *)
(* closed-form reading of spec 4.7 in Reference.                           *)
(***************************************************************************)
EXTENDS Integers, Sequences, SequencesExt

CONSTANTS
  Directories,  \* directories the daemon may serve: for each entry its
                \* name length, inode number and whether it is filtered
  NameOffset,   \* FUSE_NAME_OFFSET, the fixed part of struct fuse_dirent
  DirentAlign,  \* FUSE_DIRENT_ALIGN unit
  HostHdr,      \* sizeof(struct dirent) - (MAXNAMLEN + 1)
  MaxNameLen,   \* MAXNAMLEN
  InoWidth,     \* width of d_fileno
  IoSize,       \* data->iosize
  UserBufs,     \* buffer sizes the application passes to getdirentries
  Truncates,    \* the daemon may end a reply inside a record
  WaitCanFail,  \* fdisp_wait_answ may fail
  MaxCalls      \* bound: getdirentries calls of one listing

ASSUME /\ Directories \subseteq Seq([namelen : Nat, ino : Nat, special : BOOLEAN])
       /\ {Truncates, WaitCanFail} \subseteq BOOLEAN
       /\ MaxCalls \in Nat

VARIABLES
  dir,      \* the directory being listed
  pc,       \* control point of the listing thread
  resid,    \* uio_resid(uio)
  off,      \* uio_offset(uio), the cookie of the last entry copied out
  reqOff,   \* fri->offset of the request in flight
  reqSize,  \* fri->size of the request in flight
  reply,    \* the daemon's reply: a sequence of wire records
  listed,   \* the struct dirent records copied out, in order
  callOut,  \* records copied out by the current call
  calls,    \* getdirentries calls made
  err,      \* result of the last call
  tick,     \* fdi.tick: "none", "held" or "released"
  releases  \* ticket releases of the current call

vars == <<dir, pc, resid, off, reqOff, reqSize, reply, listed, callOut, calls, err, tick,
          releases>>

(***************************************************************************)
(* Record sizes                                                            *)
(***************************************************************************)

\* FUSE_DIRENT_SIZE: the name offset plus the name, aligned.
WireSize(i) ==
  LET n == NameOffset + dir[i].namelen
  IN ((n + DirentAlign - 1) \div DirentAlign) * DirentAlign

\* GENERIC_DIRSIZ: the header plus the name and its NUL, rounded to 4.
HostSize(n) == HostHdr + ((n + 1 + 3) \div 4) * 4

\* The bytes of a reply.
Bytes(buf) == FoldLeft(LAMBDA acc, r : acc + r.bytes, 0, buf)

\* Mutant: the filter marks the whiteout but keeps the file number.
DirentKeepsIno(i) ==
  [ent    |-> i,
   fileno |-> dir[i].ino % 2^InoWidth,
   wht    |-> dir[i].special]

\* The struct dirent made from entry i: fuse_skip_apple_special_mp turns
\* a filtered name into a whiteout with file number 0; otherwise the
\* 64-bit inode number is cast to the 32-bit d_fileno.
Dirent(i) ==
  [ent    |-> i,
   fileno |-> IF dir[i].special THEN 0 ELSE dir[i].ino % 2^InoWidth,
   wht    |-> dir[i].special]

(***************************************************************************)
(* fuse_internal_readdir_processdata                                       *)
(*                                                                         *)
(* Its result is the struct dirent records copied out, the residual and   *)
(* offset of the uio, and err: "stop" for -1 (nothing more in this reply, *)
(* or no room for the next record), "0" for a record cut short after at   *)
(* least one was copied (ask again), EINVAL or EIO for a bad name length.  *)
(***************************************************************************)

\* Mutant: a record cut short always ends the call, as if it were the
\* first.
RECURSIVE TranscodeShortStops(_, _, _, _, _)
TranscodeShortStops(buf, rsd, o, cou, out) ==
  LET stop(e) == [err |-> e, out |-> out, resid |-> rsd, off |-> o] IN
  IF Bytes(buf) < NameOffset THEN stop("stop")
  ELSE LET i == Head(buf).ent
           n == dir[i].namelen
       IN CASE Bytes(buf) < WireSize(i) -> stop("stop")
            [] n = 0 -> stop("EINVAL")
            [] n > MaxNameLen -> stop("EIO")
            [] HostSize(n) > rsd -> stop("stop")
            [] OTHER -> TranscodeShortStops(Tail(buf), rsd - HostSize(n), i,
                                            cou + 1, Append(out, Dirent(i)))

RECURSIVE Transcode(_, _, _, _, _)
Transcode(buf, rsd, o, cou, out) ==
  LET stop(e) == [err |-> e, out |-> out, resid |-> rsd, off |-> o] IN
  IF Bytes(buf) < NameOffset THEN stop("stop")
  ELSE LET i == Head(buf).ent
           n == dir[i].namelen
       IN CASE Bytes(buf) < WireSize(i) ->
                 stop(IF cou + 1 = 1 THEN "stop" ELSE "0")
            [] n = 0 -> stop("EINVAL")
            [] n > MaxNameLen -> stop("EIO")
            [] HostSize(n) > rsd -> stop("stop")
            [] OTHER -> Transcode(Tail(buf), rsd - HostSize(n), i, cou + 1,
                                  Append(out, Dirent(i)))

\* Spec 4.7 read as a whole: the records copied are the longest prefix of
\* complete, well-named records whose host sizes fit the residual; the
\* record after them decides the result.
Reference(buf, rsd, o) ==
  LET Whole(j) == buf[j].bytes = WireSize(buf[j].ent)
      Named(j) == dir[buf[j].ent].namelen \in 1..MaxNameLen
      Host(j)  == HostSize(dir[buf[j].ent].namelen)
      HostSum(k) == FoldLeft(LAMBDA a, j : a + Host(j), 0,
                             [j \in 1..k |-> j])
      Good(k) == /\ \A j \in 1..k : Whole(j) /\ Named(j)
                 /\ HostSum(k) <= rsd
      k  == Max({j \in 0..Len(buf) : Good(j)})
      nx == buf[k + 1]
      e  == CASE Bytes(SubSeq(buf, k + 1, Len(buf))) < NameOffset -> "stop"
              [] nx.bytes < WireSize(nx.ent) -> IF k = 0 THEN "stop" ELSE "0"
              [] dir[nx.ent].namelen = 0 -> "EINVAL"
              [] dir[nx.ent].namelen > MaxNameLen -> "EIO"
              [] OTHER -> "stop"
  IN [err   |-> e,
      out   |-> [j \in 1..k |-> Dirent(buf[j].ent)],
      resid |-> rsd - HostSum(k),
      off   |-> IF k = 0 THEN o ELSE buf[k].ent]

(***************************************************************************)
(* The daemon                                                              *)
(***************************************************************************)

\* The complete records of entries o + 1 .. o + k.
Full(o, k) == [j \in 1..k |-> [ent |-> o + j, bytes |-> WireSize(o + j)]]

\* A daemon fills the reply with as many whole records as fit the size
\* asked for.
Fit(o, size) ==
  Max({k \in 0..(Len(dir) - o) : Bytes(Full(o, k)) <= size})

\* The replies to a FUSE_READDIR at offset o for size bytes; a truncating
\* daemon may add the first bytes of the next record: a piece of its
\* header, or the header without the whole name.
Replies(o, size) ==
  LET k == Fit(o, size)
      room == size - Bytes(Full(o, k))
  IN {Full(o, k)} \cup
     IF Truncates /\ o + k < Len(dir)
       THEN {Append(Full(o, k), [ent |-> o + k + 1, bytes |-> b]) :
               b \in {b \in {1, NameOffset} : b <= room /\
                                              b < WireSize(o + k + 1)}}
       ELSE {}

(***************************************************************************)
(* fuse_internal_readdir, called by getdirentries                          *)
(***************************************************************************)

\* The application calls getdirentries with a buffer; an empty one
\* returns at once.
Call ==
  /\ pc = "idle"
  /\ calls < MaxCalls
  /\ \E r \in UserBufs :
       /\ resid' = r
       /\ pc' = IF r = 0 THEN "ret" ELSE "req"
  /\ calls' = calls + 1
  /\ callOut' = <<>>
  /\ err' = "0"
  /\ tick' = "none"
  /\ releases' = 0
  /\ UNCHANGED <<off, reqOff, reqSize, reply, listed>>

\* Mutant: the request does not carry the uio offset.
RequestStaleOffset ==
  /\ pc = "req"
  /\ \/ /\ resid > 0
        /\ reqOff' = 0
        /\ reqSize' = Min({resid, IoSize})
        /\ tick' = "held"
        /\ pc' = "wait"
     \/ /\ resid = 0
        /\ pc' = "drop"
        /\ UNCHANGED <<reqOff, reqSize, tick>>
  /\ UNCHANGED <<resid, off, reply, listed, callOut, calls, err, releases>>

\* The loop head: a FUSE_READDIR at uio_offset for min(uio_resid, iosize)
\* bytes; a residual used up leaves the loop.
Request ==
  /\ pc = "req"
  /\ \/ /\ resid > 0
        /\ reqOff' = off
        /\ reqSize' = Min({resid, IoSize})
        /\ tick' = "held"
        /\ pc' = "wait"
     \/ /\ resid = 0
        /\ pc' = "drop"
        /\ UNCHANGED <<reqOff, reqSize, tick>>
  /\ UNCHANGED <<resid, off, reply, listed, callOut, calls, err, releases>>

\* The daemon's reply reaches fdisp_wait_answ.
Reply ==
  /\ pc = "wait"
  /\ \E rep \in Replies(reqOff, reqSize) : reply' = rep
  /\ pc' = "process"
  /\ UNCHANGED <<resid, off, reqOff, reqSize, listed, callOut, calls, err,
                 tick, releases>>

\* Mutant: the failed wait leaves the loop by break and reaches the drop.
WaitFailedDrop ==
  /\ pc = "wait"
  /\ WaitCanFail
  /\ err' = "EWAIT"
  /\ tick' = "released"
  /\ releases' = releases + 1
  /\ pc' = "drop"
  /\ UNCHANGED <<resid, off, reqOff, reqSize, reply, listed, callOut, calls>>

\* fdisp_wait_answ failed: it has released the ticket; goto out.
WaitFailed ==
  /\ pc = "wait"
  /\ WaitCanFail
  /\ err' = "EWAIT"
  /\ tick' = "released"
  /\ releases' = releases + 1
  /\ pc' = "ret"
  /\ UNCHANGED <<resid, off, reqOff, reqSize, reply, listed, callOut, calls>>

\* Mutant: -1 is returned as it is instead of as success.
ProcessKeepsMinusOne ==
  /\ pc = "process"
  /\ LET t == Transcode(reply, resid, off, 0, <<>>) IN
       /\ listed' = listed \o t.out
       /\ callOut' = callOut \o t.out
       /\ resid' = t.resid
       /\ off' = t.off
       /\ pc' = IF t.err = "0" THEN "req" ELSE "drop"
       /\ err' = t.err
  /\ UNCHANGED <<reqOff, reqSize, reply, calls, tick, releases>>

\* Mutant: any result of processdata goes round the loop again.
ProcessNoBreak ==
  /\ pc = "process"
  /\ LET t == Transcode(reply, resid, off, 0, <<>>) IN
       /\ listed' = listed \o t.out
       /\ callOut' = callOut \o t.out
       /\ resid' = t.resid
       /\ off' = t.off
       /\ pc' = "req"
       /\ UNCHANGED err
  /\ UNCHANGED <<reqOff, reqSize, reply, calls, tick, releases>>

\* processdata copies the records out; a result other than 0 breaks the
\* loop, and -1 becomes success.
Process ==
  /\ pc = "process"
  /\ LET t == Transcode(reply, resid, off, 0, <<>>) IN
       /\ listed' = listed \o t.out
       /\ callOut' = callOut \o t.out
       /\ resid' = t.resid
       /\ off' = t.off
       /\ pc' = IF t.err = "0" THEN "req" ELSE "drop"
       /\ err' = IF t.err = "stop" THEN "0" ELSE t.err
  /\ UNCHANGED <<reqOff, reqSize, reply, calls, tick, releases>>

\* After the loop: fuse_ticket_drop.
Drop ==
  /\ pc = "drop"
  /\ tick' = "released"
  /\ releases' = releases + 1
  /\ pc' = "ret"
  /\ UNCHANGED <<resid, off, reqOff, reqSize, reply, listed, callOut, calls,
                 err>>

\* getdirentries returns: an error ends the listing, and so does a call
\* that copied nothing out, which the application takes for the end of
\* the directory.
Return ==
  /\ pc = "ret"
  /\ pc' = CASE err # "0" -> "error"
              [] callOut = <<>> -> "eof"
              [] OTHER -> "idle"
  /\ UNCHANGED <<resid, off, reqOff, reqSize, reply, listed, callOut, calls,
                 err, tick, releases>>

(***************************************************************************)
(* The specification                                                       *)
(***************************************************************************)

\* The directory is opened: the uio offset starts at 0.
Init ==
  /\ dir \in Directories
  /\ pc = "idle"
  /\ resid = 0
  /\ off = 0
  /\ reqOff = 0
  /\ reqSize = 0
  /\ reply = <<>>
  /\ listed = <<>>
  /\ callOut = <<>>
  /\ calls = 0
  /\ err = "0"
  /\ tick = "none"
  /\ releases = 0

Next == /\ \/ Call \/ Request \/ Reply \/ WaitFailed \/ Process \/ Drop
           \/ Return
        /\ UNCHANGED dir

\* The application keeps listing until the end of the directory or an
\* error; the daemon answers.
Spec == Init /\ [][Next]_vars /\ WF_vars(Next)

(***************************************************************************)
(* Properties                                                              *)
(***************************************************************************)

TypeOK ==
  /\ pc \in {"idle", "req", "wait", "process", "drop", "ret", "eof", "error"}
  /\ resid \in Nat /\ off \in 0..Len(dir) /\ reqOff \in 0..Len(dir)
  /\ reqSize \in 0..IoSize
  /\ calls \in 0..MaxCalls
  /\ err \in {"0", "EINVAL", "EIO", "EWAIT"}
  /\ tick \in {"none", "held", "released"}
  /\ releases \in Nat

\* processdata computes what spec 4.7 describes for every reply the
\* daemon can send, residual and offset included.
TranscodeMatchesReference ==
  pc = "process" =>
    Transcode(reply, resid, off, 0, <<>>) = Reference(reply, resid, off)

\* Across all getdirentries calls the application receives the entries
\* in directory order, none twice and none skipped, and the call that
\* reports the end comes after the last one.
ListingExact ==
  /\ \A j \in 1..Len(listed) : listed[j].ent = j
  /\ pc = "eof" => Len(listed) = Len(dir)

\* When getdirentries returns, the ticket fetched by fuse_internal_readdir
\* has been released exactly once.
TicketReleasedOnce ==
  pc = "ret" => releases = (IF tick = "none" THEN 0 ELSE 1)

\* A listing ends: every call copies something out or returns.
ListingTerminates == <>(pc \in {"eof", "error"})
====
