---------------------------- MODULE MC_FuseEntry ----------------------------
(* Instantiates FuseEntry for TLC.                                          *)
EXTENDS FuseEntry

\* Every answer fdisp_wait_answ can give the helpers: success, the two
\* errors they treat apart, another error, and an interrupted wait.
MCWaitResults == {"0", "ENOENT", "ENOSYS", "EIO", "EINTR"}
====
