------------------------------ MODULE DocsStore ------------------------------
(***************************************************************************)
(* What the processes that share the documentation cache are promised: one *)
(* copy of the documents, those of one commit.  A sync replaces it at one  *)
(* stroke by the copy of a commit the source stood at during the call, and *)
(* a search is answered at one stroke from the copy there is.              *)
(*                                                                         *)
(* No lock backs the promise: it holds until two processes write one file  *)
(* at once, or one copies from a snapshot it did not load (faulty).        *)
(***************************************************************************)
EXTENDS Naturals

CONSTANTS Process, Corpus, None

VARIABLES
    head,      \* the commit the source's ref stands for
    cached,    \* the commit the copy is of, 0 when there is none
    resolved,  \* [Process -> Commit or 0]: the commit a sync is to bring
    held,      \* the processes whose sync has brought it
    synced,    \* the processes whose docs sync ended well
    answer,    \* [Process -> documents or None]: what a search was answered from
    faulty

storeVars == <<head, cached, resolved, held, synced, answer, faulty>>

Init ==
    /\ head = 1
    /\ cached \in {0, 1}
    /\ resolved = [p \in Process |-> 0]
    /\ held = {} /\ synced = {}
    /\ answer = [p \in Process |-> None]
    /\ faulty = FALSE

Push ==
    /\ head + 1 \in DOMAIN Corpus
    /\ head' = head + 1
    /\ UNCHANGED <<cached, resolved, held, synced, answer>>

\* A call begins: what came of the one before is forgotten.
Begin(p) ==
    /\ synced' = synced \ {p}
    /\ answer' = [answer EXCEPT ![p] = None]
    /\ UNCHANGED <<head, cached, resolved, held>>

Resolve(p) ==
    /\ resolved' = [resolved EXCEPT ![p] = head]
    /\ UNCHANGED <<head, cached, held, synced, answer>>

\* The copy is of that commit from now on, or was already.
Bring(p) ==
    /\ resolved[p] # 0
    /\ cached' = resolved[p]
    /\ resolved' = [resolved EXCEPT ![p] = 0]
    /\ held' = held \cup {p}
    /\ UNCHANGED <<head, synced, answer>>

\* Only a sync that has brought its commit ends well ...
Finish(p) ==
    /\ p \in held
    /\ held' = held \ {p}
    /\ synced' = synced \cup {p}
    /\ UNCHANGED <<head, cached, resolved, answer>>

\* ... and one that fails, is killed or was part of a search leaves the copy alone.
Leave(p) ==
    /\ resolved' = [resolved EXCEPT ![p] = 0]
    /\ held' = held \ {p}
    /\ UNCHANGED <<head, cached, synced, answer>>

Search(p) ==
    /\ cached # 0
    /\ answer' = [answer EXCEPT ![p] = Corpus[cached]]
    /\ UNCHANGED <<head, cached, resolved, held, synced>>

Kept ==
    \/ Push
    \/ \E p \in Process : Begin(p) \/ Resolve(p) \/ Bring(p) \/ Finish(p) \/ Leave(p) \/ Search(p)

Next == faulty' \/ (~faulty' /\ Kept)

Spec == Init /\ [][Next]_storeVars
=============================================================================
