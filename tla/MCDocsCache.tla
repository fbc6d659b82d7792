---------------------------- MODULE MCDocsCache ----------------------------
(***************************************************************************)
(* Instances of DocsCache for TLC.                                         *)
(***************************************************************************)
EXTENDS DocsCache, Sequences, TLC

CONSTANTS user, job, a, b, x, y, z

\* The second commit changes b; the third brings b back and changes a.
TheCorpus == << a :> x @@ b :> x, a :> x @@ b :> y, a :> z @@ b :> x >>

TwoCommits == << a :> x @@ b :> x, a :> x @@ b :> y >>

\* A process that searches or syncs twice, while a job syncs or reads a document.
BothOps == user :> {"search", "sync"} @@ job :> {"sync", "get"}
BothCalls == user :> 2 @@ job :> 1

\* A user reads a document, or syncs, while a job syncs.
GetOps == user :> {"get"} @@ job :> {"sync"}
SyncOps == user :> {"sync"} @@ job :> {"sync"}
OneCall == user :> 1 @@ job :> 1
=============================================================================
