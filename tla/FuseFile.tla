------------------------------ MODULE FuseFile ------------------------------
(***************************************************************************)
(* The filehandle translations of fuse_file.h: the handle type an mmap     *)
(* protection or a set of file flags calls for, the open(2) flags a handle  *)
(* type is opened with, and the kauth action fuse_filehandle_preflight_    *)
(* status asks vnode_authorize for.  A flag word is the set of the flags   *)
(* set in it; the bits no translation tests are left out.                  *)
(***************************************************************************)
EXTENDS Integers

\* fufh_type_t, FUFH_MAXTYPE excluded.
FufhTypes == {"FUFH_RDONLY", "FUFH_WRONLY", "FUFH_RDWR"}

\* The access bits of the fflags the translations test.
FFlagBits == {"FREAD", "FWRITE"}

\* The protection bits of an mmap request.
ProtBits == {"PROT_READ", "PROT_WRITE", "PROT_EXEC"}

\* O_RDONLY, O_WRONLY and O_RDWR of <sys/fcntl.h>, and -1 for no mode.
O_RDONLY == 0
O_WRONLY == 1
O_RDWR   == 2

\* FFLAGS(oflags) of <sys/fcntl.h>: the access mode plus one gives FREAD
\* in bit 0 and FWRITE in bit 1; a mode of -1 gives neither.
FFlagsOf(oflags) ==
  LET f == oflags + 1 IN
  {b \in FFlagBits : \/ b = "FREAD" /\ f % 2 = 1
                     \/ b = "FWRITE" /\ (f \div 2) % 2 = 1}

\* Mutant: write access always takes a write-only handle.
XlateFromMmapNoRdwr(prot) ==
  CASE "PROT_WRITE" \in prot -> "FUFH_WRONLY"
    [] "PROT_WRITE" \notin prot /\ prot \cap {"PROT_READ", "PROT_EXEC"} # {}
         -> "FUFH_RDONLY"
    [] OTHER -> "FUFH_INVALID"

\* fuse_filehandle_xlate_from_mmap: write access takes a read-write handle
\* when read or execute access comes with it; no access at all is
\* FUFH_INVALID.
XlateFromMmap(prot) ==
  CASE "PROT_WRITE" \in prot /\ prot \cap {"PROT_READ", "PROT_EXEC"} # {}
         -> "FUFH_RDWR"
    [] "PROT_WRITE" \in prot /\ prot \cap {"PROT_READ", "PROT_EXEC"} = {}
         -> "FUFH_WRONLY"
    [] "PROT_WRITE" \notin prot /\ prot \cap {"PROT_READ", "PROT_EXEC"} # {}
         -> "FUFH_RDONLY"
    [] OTHER -> "FUFH_INVALID"

\* fuse_filehandle_xlate_from_fflags: flags with neither FREAD nor FWRITE
\* panic.
XlateFromFflags(fflags) ==
  CASE fflags \cap FFlagBits = FFlagBits -> "FUFH_RDWR"
    [] fflags \cap FFlagBits = {"FWRITE"} -> "FUFH_WRONLY"
    [] fflags \cap FFlagBits = {"FREAD"} -> "FUFH_RDONLY"
    [] OTHER -> "panic"

\* fuse_filehandle_xlate_to_oflags.
XlateToOflags(type) ==
  CASE type = "FUFH_RDONLY" -> O_RDONLY
    [] type = "FUFH_WRONLY" -> O_WRONLY
    [] type = "FUFH_RDWR"   -> O_RDWR
    [] OTHER -> -1

\* The kauth action of fuse_filehandle_preflight_status's switch, for the
\* types it has a case for; any other type is EINVAL.
PreflightAction ==
  [t \in FufhTypes |->
     CASE t = "FUFH_RDONLY" -> {"KAUTH_VNODE_READ_DATA"}
       [] t = "FUFH_WRONLY" -> {"KAUTH_VNODE_WRITE_DATA"}
       [] t = "FUFH_RDWR"   -> {"KAUTH_VNODE_READ_DATA",
                                "KAUTH_VNODE_WRITE_DATA"}]

\* fuse_filehandle_preflight_status: no check on a mount with opaque
\* authorisation, an asynchronous mount, a vnode that is not a regular
\* file or without a context; otherwise vnode_authorize, which grants the
\* action when every right in it is among the rights the caller has.
PreflightStatus(opaque, synchronous, isreg, hasContext, type, granted) ==
  LET checked == opaque = FALSE /\ synchronous /\ isreg /\ hasContext
      known   == type \in DOMAIN PreflightAction
  IN CASE ~checked -> "0"
       [] checked /\ ~known -> "EINVAL"
       [] checked /\ known /\ PreflightAction[type] \subseteq granted -> "0"
       [] checked /\ known /\ ~(PreflightAction[type] \subseteq granted)
            -> "EACCES"

(***************************************************************************)
(* Properties                                                              *)
(***************************************************************************)

\* The rights an open file with these fflags exercises, as kauth names them.
KauthOf(fflags) ==
  {IF b = "FREAD" THEN "KAUTH_VNODE_READ_DATA" ELSE "KAUTH_VNODE_WRITE_DATA"
     : b \in fflags}

\* The access an mmap protection needs: execute needs read.
MmapNeeds(prot) ==
  {b \in FFlagBits : \/ b = "FREAD" /\ prot \cap {"PROT_READ", "PROT_EXEC"} # {}
                     \/ b = "FWRITE" /\ "PROT_WRITE" \in prot}

\* The four translations agree for a node whose valid handles are
\* `handles`: the handle chosen for open flags or for an mmap is opened
\* with exactly the access they ask for, and on a checked mount preflight
\* lets each of the handles through exactly when the caller holds the
\* rights its open flags exercise.
XlateAgreeFor(handles) ==
  /\ \A f \in SUBSET FFlagBits \ {{}} :
       FFlagsOf(XlateToOflags(XlateFromFflags(f))) = f
  /\ \A prot \in SUBSET ProtBits :
       FFlagsOf(XlateToOflags(XlateFromMmap(prot))) = MmapNeeds(prot)
  /\ \A t \in handles, g \in SUBSET KauthOf(FFlagBits) :
       (PreflightStatus(FALSE, TRUE, TRUE, TRUE, t, g) = "0")
         <=> KauthOf(FFlagsOf(XlateToOflags(t))) \subseteq g
====
