---------------------------- MODULE MCFollowing ----------------------------
(***************************************************************************)
(* An instance of Following for TLC.                                       *)
(***************************************************************************)
EXTENDS Following

AllFollowed == {"build", "runtime", "messages"}
NamelessLogs == {2}
UnreadableLogs == {3}
=============================================================================
