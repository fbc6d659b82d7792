----------------------------- MODULE DocsCache -----------------------------
(***************************************************************************)
(* The cache of the documentation (internal/docs): processes that share    *)
(* one cache directory sync it from the repository and read it.  `volcano  *)
(* docs sync`, search and get each make one call; the MCP server of        *)
(* `volcano docs mcp` lives on, makes many and keeps its index.            *)
(*                                                                         *)
(* A sync collects a snapshot directory, then swings the pointer           *)
(* current.json to it through current.json.tmp, a name all processes       *)
(* share; one that finds nothing new renews the manifest of the current    *)
(* snapshot through manifest.json.tmp.  No lock keeps syncs apart.         *)
(*                                                                         *)
(* Simplifications.  A snapshot is removed in one step and its documents   *)
(* are collected in one, and a sync takes less than pruneGrace.  The time  *)
(* in checked_at and the ranking of results are left out.                  *)
(***************************************************************************)
EXTENDS Naturals, FiniteSets

CONSTANTS
    Process,     \* the processes that share the cache
    Ops,         \* [Process -> SUBSET Op]: what each may be asked
    MaxCalls,    \* [Process -> Nat]: how many calls each makes
    File,        \* the documents' paths
    Corpus,      \* [1..n -> [File -> blob or None]]: the documents at each commit
    MaxCrashes,  \* bound: processes killed in a behaviour
    Before,      \* the snapshot the cache had at first
    None

Op == {"sync", "search", "get"}

Commit == DOMAIN Corpus

ASSUME DocsCacheAssumption ==
    /\ Ops \in [Process -> SUBSET Op]
    /\ MaxCalls \in [Process -> Nat]
    /\ 1 \in Commit /\ Commit \subseteq Nat \ {0}
    /\ \A c \in Commit : Corpus[c] = [f \in File |-> Corpus[c][f]]
    /\ File # {}
    /\ MaxCrashes \in Nat

VARIABLES
    head,     \* the commit the source's ref stands for
    disk,     \* [Name -> Snapshot or None]: the snapshot directories
    text,     \* [Name -> Name or None]: what pointer files say, None for nothing yet
    pointer,  \* the pointer file that is current.json, None when there is none
    tmp,      \* the one that is current.json.tmp
    manifest, \* [Name -> Name or None]: the file that is a snapshot's manifest.json
    renewed,  \* [Name -> Name or None]: the one that is its manifest.json.tmp
    blank,    \* the manifest files that were truncated and not written
    old,      \* the snapshots not modified within pruneGrace
    at,       \* [Process -> Place]
    calls,    \* [Process -> Nat]: the calls begun
    op,       \* [Process -> Op]
    doc,      \* [Process -> File]: the document to get
    local,    \* [Process -> Local]: what the call under way has at hand
    index,    \* [Process -> Index or None]: the resident index
    outcome,  \* [Process -> {"none", "ok", "failed", "notFound"}]
    crashes,  \* how many processes were killed
    clash,    \* history: two processes wrote the pointer, or one manifest, at once
    mixed     \* history: a sync copied from another snapshot than it had loaded

sheets  == <<manifest, renewed, blank>>
store   == <<head, disk, text, pointer, tmp, sheets, old>>
request == <<calls, op, doc>>
history == <<clash, mixed>>
vars    == <<store, at, request, local, index, outcome, crashes, history>>

\* A snapshot is named by the time and the process of the sync.
Name == {Before} \cup UNION {{p} \X (1..MaxCalls[p]) : p \in Process}

ASSUME NameAssumption ==
    /\ Before \notin UNION {{p} \X (1..MaxCalls[p]) : p \in Process}
    /\ None \notin Name

Own(p) == <<p, calls[p]>>

Blob == UNION {{Corpus[c][f] : f \in File} : c \in Commit}

Contents == [File -> Blob \cup {None}]

\* commit is 0 until the manifest is written; the manifest lists what the commit has.
Snapshot == [commit : Commit \cup {0}, files : Contents]

Index == [gen : Name, commit : Commit, files : Contents]

ASSUME ContentAssumption == None \notin Snapshot /\ None \notin Index

Empty == [f \in File |-> None]

Local == [force  : BOOLEAN,              \* docs sync --force
          commit : Commit \cup {0},      \* the commit to sync to
          loaded : Name \cup {None},     \* the snapshot whose manifest the sync loaded
          prev   : Commit \cup {0},      \* that manifest's commit, 0 without one
          from   : Name \cup {None},     \* the snapshot it copies from
          fd     : Name \cup {None},     \* the pointer or manifest file it writes
          gen    : Name \cup {None},     \* the generation a search looks for
          pin    : Name \cup {None},     \* the snapshot a read or a touch is pinned to
          tries  : Nat,                  \* the attempts to build an index
          built  : Index \cup {None}]    \* the index just built

Nothing == [force |-> FALSE, commit |-> 0, loaded |-> None, prev |-> 0, from |-> None, fd |-> None,
            gen |-> None, pin |-> None, tries |-> 0, built |-> None]

Place == {"idle", "ensure", "resolve", "load", "touch", "stamp", "fill", "swap",
          "enumerate", "collect", "open", "write", "rename", "prune", "generation", "sections", "parse", "retry", "recheck",
          "pin", "get", "dead"}

TypeOK ==
    /\ head \in Commit
    /\ disk \in [Name -> Snapshot \cup {None}]
    /\ text \in [Name -> Name \cup {None}]
    /\ pointer \in Name \cup {None} /\ tmp \in Name \cup {None}
    /\ manifest \in [Name -> Name \cup {None}] /\ renewed \in [Name -> Name \cup {None}]
    /\ blank \subseteq Name
    /\ old \subseteq Name
    /\ at \in [Process -> Place]
    /\ calls \in [Process -> Nat]
    /\ op \in [Process -> Op]
    /\ doc \in [Process -> File]
    /\ local \in [Process -> Local]
    /\ index \in [Process -> Index \cup {None}]
    /\ outcome \in [Process -> {"none", "ok", "failed", "notFound"}]
    /\ crashes \in 0..MaxCrashes
    /\ clash \in BOOLEAN /\ mixed \in BOOLEAN

(***************************************************************************)
(* The pointer and what it names.                                          *)
(***************************************************************************)
CurrentName == IF pointer = None THEN None ELSE text[pointer]

\* A snapshot is there once its manifest is.
Published(n) == n # None /\ disk[n] # None /\ disk[n].commit # 0

Current == IF Published(CurrentName) THEN CurrentName ELSE None

\* The manifest of a snapshot that is there can be read.
Readable(n) == manifest[n] \notin blank

\* There is no cache yet, or an earlier sync left one.
Init ==
    /\ head = 1
    /\ disk \in [Name -> {None, [commit |-> 1, files |-> Corpus[1]]}]
    /\ \A n \in Name : n # Before => disk[n] = None
    /\ text = [n \in Name |-> IF n = Before /\ disk[n] # None THEN Before ELSE None]
    /\ pointer = text[Before]
    /\ tmp = None
    /\ manifest = text
    /\ renewed = [n \in Name |-> None]
    /\ blank = {}
    /\ old \in SUBSET {n \in Name : disk[n] # None}
    /\ at = [p \in Process |-> "idle"]
    /\ calls = [p \in Process |-> 0]
    /\ op = [p \in Process |-> "sync"]
    /\ doc = [p \in Process |-> CHOOSE f \in File : TRUE]
    /\ local = [p \in Process |-> Nothing]
    /\ index = [p \in Process |-> None]
    /\ outcome = [p \in Process |-> "none"]
    /\ crashes = 0
    /\ clash = FALSE
    /\ mixed = FALSE

Ends(p, how) ==
    /\ at' = [at EXCEPT ![p] = "idle"]
    /\ outcome' = [outcome EXCEPT ![p] = how]
    /\ local' = [local EXCEPT ![p] = Nothing]

ContinuesWith(p, place, what) ==
    /\ at' = [at EXCEPT ![p] = place]
    /\ local' = [local EXCEPT ![p] = what]
    /\ UNCHANGED outcome

Continues(p, place) == ContinuesWith(p, place, local[p])

(***************************************************************************)
(* The calls.                                                              *)
(***************************************************************************)
Call(p) ==
    /\ at[p] = "idle" /\ calls[p] < MaxCalls[p]
    /\ calls' = [calls EXCEPT ![p] = @ + 1]
    /\ \E o \in Ops[p] :
         /\ op' = [op EXCEPT ![p] = o]
         /\ \E d \in IF o = "get" THEN File ELSE {doc[p]} : doc' = [doc EXCEPT ![p] = d]
         /\ at' = [at EXCEPT ![p] = IF o = "sync" THEN "resolve" ELSE "ensure"]
         /\ \E f \in BOOLEAN : (f => o = "sync") /\ local' = [local EXCEPT ![p].force = f]
    /\ outcome' = [outcome EXCEPT ![p] = "none"]
    /\ UNCHANGED <<store, index, crashes, clash, mixed>>

\* How a read goes on once there is a cache.
FirstRead(p) == IF op[p] = "search" THEN "generation" ELSE "pin"

\* A missing cache is synced first, unless the call is offline.
EnsureCache(p) ==
    /\ at[p] = "ensure"
    /\ \/ Current # None /\ Continues(p, FirstRead(p))
       \/ Current = None /\ (Ends(p, "failed") \/ Continues(p, "resolve"))
    /\ UNCHANGED <<store, request, index, crashes, history>>

(***************************************************************************)
(* Syncer.Sync.                                                            *)
(***************************************************************************)
\* The request fails, at GitHub or on the way.
Fails(p) ==
    /\ at[p] \in {"resolve", "enumerate"}
    /\ Ends(p, "failed")
    /\ UNCHANGED <<store, request, index, crashes, history>>

ResolveCommit(p) ==
    /\ at[p] = "resolve"
    /\ ContinuesWith(p, "load", [local[p] EXCEPT !.commit = head])
    /\ UNCHANGED <<store, request, index, crashes, history>>

Load(p) ==
    /\ at[p] = "load"
    /\ LET loaded == IF Current # None /\ Readable(Current) THEN Current ELSE None
           commit == IF loaded = None THEN 0 ELSE disk[loaded].commit
           same == ~local[p].force /\ commit = local[p].commit
       IN  ContinuesWith(p, IF same THEN "touch" ELSE "enumerate",
                         [local[p] EXCEPT !.loaded = loaded, !.prev = commit])
    /\ UNCHANGED <<store, request, index, crashes, history>>

\* What a call does once its sync is done.
Synced(p) == IF op[p] = "sync" THEN Ends(p, "ok") ELSE ContinuesWith(p, FirstRead(p), Nothing)

\* Nothing changed: the manifest that is current now is read, to renew it ...
Touch(p) ==
    /\ at[p] = "touch"
    /\ \/ Current # None /\ Readable(Current) /\ ContinuesWith(p, "stamp", [Nothing EXCEPT !.pin = Current])
       \/ Ends(p, "failed")
    /\ UNCHANGED <<store, request, index, crashes, history>>

SameManifest(p, q) == local[p].pin = local[q].pin

\* ... os.WriteFile opens and truncates the file at manifest.json.tmp, unless the
\* snapshot was removed ...
OpenManifest(p) ==
    /\ at[p] = "stamp"
    /\ LET n == local[p].pin
           file == IF renewed[n] = None THEN Own(p) ELSE renewed[n]
       IN  \/ /\ disk[n] # None
              /\ renewed' = [renewed EXCEPT ![n] = file]
              /\ blank' = blank \cup {file}
              /\ old' = IF renewed[n] = None THEN old \ {n} ELSE old
              /\ ContinuesWith(p, "fill", [local[p] EXCEPT !.fd = file])
              /\ clash' = (clash \/ \E q \in Process : at[q] \in {"fill", "swap"} /\ SameManifest(p, q))
           \/ Ends(p, "failed") /\ UNCHANGED <<renewed, blank, old, clash>>
    /\ UNCHANGED <<head, disk, text, pointer, tmp, manifest, request, index, crashes, mixed>>

\* ... writes to it, wherever it is by now ...
Fill(p) ==
    /\ at[p] = "fill"
    /\ \/ blank' = blank \ {local[p].fd} /\ Continues(p, "swap")
       \/ Ends(p, "failed") /\ UNCHANGED blank
    /\ UNCHANGED <<head, disk, text, pointer, tmp, manifest, renewed, old, request, index, crashes, history>>

\* ... and renames it, which fails when it is not there any more.
Swap(p) ==
    /\ at[p] = "swap"
    /\ LET n == local[p].pin IN
         \/ /\ disk[n] # None /\ renewed[n] # None
            /\ manifest' = [manifest EXCEPT ![n] = renewed[n]]
            /\ renewed' = [renewed EXCEPT ![n] = None]
            /\ old' = old \ {n}
            /\ Synced(p)
         \/ /\ disk[n] = None \/ renewed[n] = None
            /\ Ends(p, "failed")
            /\ UNCHANGED <<manifest, renewed, old>>
    /\ UNCHANGED <<head, disk, text, pointer, tmp, blank, request, index, crashes, history>>

\* The documents are listed; what to copy from is looked up anew.
Enumerate(p) ==
    /\ at[p] = "enumerate"
    /\ LET source == IF local[p].prev = 0 THEN None ELSE Current IN
         /\ ContinuesWith(p, "collect", [local[p] EXCEPT !.from = source])
         /\ mixed' = (mixed \/ (source # None /\ source # local[p].loaded))
    /\ disk' = [disk EXCEPT ![Own(p)] = [commit |-> 0, files |-> Empty]]
    /\ UNCHANGED <<head, text, pointer, tmp, sheets, old, request, index, crashes, clash>>

ReusesByPath(l, f) ==
    /\ ~l.force /\ l.prev # 0
    /\ Corpus[l.commit][f] # None /\ Corpus[l.prev][f] # None

\* The document is in the manifest the sync loaded, with the same blob SHA.
Reuses(l, f) ==
    /\ ~l.force /\ l.prev # 0
    /\ Corpus[l.commit][f] # None /\ Corpus[l.prev][f] = Corpus[l.commit][f]

\* The error that ends a sync discards what it staged.
Discard(p) == disk' = [disk EXCEPT ![Own(p)] = None] /\ Ends(p, "failed")

Collected(p) ==
    LET l == local[p] IN
    [f \in File |-> IF Reuses(l, f) /\ l.from # None /\ disk[l.from] # None /\ disk[l.from].files[f] # None
                    THEN disk[l.from].files[f] ELSE Corpus[l.commit][f]]

\* A document that cannot be copied is downloaded; the manifest comes last.
\* What the sync went by is not used any more.
Collect(p) ==
    /\ at[p] = "collect"
    /\ \/ /\ disk' = [disk EXCEPT ![Own(p)] = [commit |-> local[p].commit, files |-> Collected(p)]]
          /\ manifest' = [manifest EXCEPT ![Own(p)] = Own(p)]
          /\ ContinuesWith(p, "open", Nothing)
       \/ Discard(p) /\ UNCHANGED manifest
    /\ UNCHANGED <<head, text, pointer, tmp, renewed, blank, old, request, index, crashes, history>>

(***************************************************************************)
(* staging.publish.                                                        *)
(***************************************************************************)
\* os.WriteFile opens and truncates the file it finds at current.json.tmp ...
OpenTmp(p) ==
    /\ at[p] = "open"
    /\ tmp' = IF tmp = None THEN Own(p) ELSE tmp
    /\ ContinuesWith(p, "write", [local[p] EXCEPT !.fd = tmp'])
    /\ text' = [text EXCEPT ![tmp'] = None]
    /\ clash' = (clash \/ \E q \in Process : at[q] \in {"write", "rename"})
    /\ UNCHANGED <<head, disk, pointer, sheets, old, request, index, crashes, mixed>>

\* ... and writes to it, wherever it is by now.
WriteTmp(p) ==
    /\ at[p] = "write"
    /\ \/ /\ text' = [text EXCEPT ![local[p].fd] = Own(p)]
          /\ Continues(p, "rename")
          /\ UNCHANGED disk
       \/ Discard(p) /\ UNCHANGED text
    /\ UNCHANGED <<head, pointer, tmp, sheets, old, request, index, crashes, clash, mixed>>

\* The file it replaces is gone; it fails when another process renamed its own.
Rename(p) ==
    /\ at[p] = "rename"
    /\ \/ /\ tmp # None
          /\ pointer' = tmp
          /\ text' = [n \in Name |-> IF n = pointer THEN None ELSE text[n]]
          /\ tmp' = None
          /\ Continues(p, "prune")
          /\ UNCHANGED disk
       \/ tmp = None /\ Discard(p) /\ UNCHANGED <<text, pointer, tmp>>
    /\ UNCHANGED <<head, sheets, old, request, index, crashes, clash, mixed>>

PrunableAll(p) == {n \in Name : calls[p] > 0 /\ Published(n)}

\* All but its own, and those modified within pruneGrace.
Prunable(p) == old \ {Own(p)}

Prune(p) ==
    /\ at[p] = "prune"
    /\ disk' = [n \in Name |-> IF n \in Prunable(p) THEN None ELSE disk[n]]
    /\ old' = old \ Prunable(p)
    /\ Synced(p)
    /\ UNCHANGED <<head, text, pointer, tmp, sheets, request, index, crashes, history>>

(***************************************************************************)
(* Service.resolveIndex.                                                   *)
(***************************************************************************)
IndexFitsAny(p, name) == index[p] # None /\ name # None

\* The resident index was built from the snapshot of that name.
IndexFits(p, name) == index[p] # None /\ index[p].gen = name

\* The name is read without a look at the snapshot.
Generation(p) ==
    /\ at[p] = "generation"
    /\ IF CurrentName = None THEN Ends(p, "failed")
       ELSE IF IndexFits(p, CurrentName) THEN Ends(p, "ok")
       ELSE ContinuesWith(p, "sections", [local[p] EXCEPT !.gen = CurrentName, !.tries = 1])
    /\ UNCHANGED <<store, request, index, crashes, history>>

\* A snapshot that is not there is an error; whether it is worth another
\* attempt is looked at next.
Sections(p) ==
    /\ at[p] = "sections"
    /\ ContinuesWith(p, IF Current # None THEN "parse" ELSE "retry", [local[p] EXCEPT !.pin = Current])
    /\ UNCHANGED <<store, request, index, crashes, history>>

Lists(n, f) == Corpus[disk[n].commit][f] # None

\* The snapshot has every document of its commit ...
Complete(n) == Published(n) /\ \A f \in File : Lists(n, f) => disk[n].files[f] # None

\* ... and a manifest that says so.
Whole(n) == Complete(n) /\ Readable(n)

\* Every document the manifest lists is read from the snapshot opened.
Parse(p) ==
    /\ at[p] = "parse"
    /\ LET n == local[p].pin IN
         IF Whole(n)
         THEN ContinuesWith(p, "recheck", [local[p] EXCEPT
                !.built = [gen |-> n, commit |-> disk[n].commit, files |-> disk[n].files]])
         ELSE Continues(p, "retry")
    /\ UNCHANGED <<store, request, index, crashes, history>>

MaxAttempts == 3

AgainUnopened(p) == Continues(p, "parse")

\* The next attempt looks for the snapshot the pointer names now.
Again(p) ==
    IF local[p].tries < MaxAttempts
    THEN ContinuesWith(p, "sections", [local[p] EXCEPT !.gen = CurrentName, !.tries = @ + 1])
    ELSE Ends(p, "failed")

\* An error counts when the pointer still names the snapshot looked for.
Retry(p) ==
    /\ at[p] = "retry"
    /\ IF CurrentName \in {None, local[p].gen} THEN Ends(p, "failed") ELSE Again(p)
    /\ UNCHANGED <<store, request, index, crashes, history>>

StillCurrent(p) == CurrentName = local[p].built.gen

\* The index is kept and used when its snapshot is still the current one.
Recheck(p) ==
    /\ at[p] = "recheck"
    /\ IF StillCurrent(p) THEN Ends(p, "ok") ELSE IF CurrentName = None THEN Ends(p, "failed") ELSE Again(p)
    /\ index' = IF StillCurrent(p) THEN [index EXCEPT ![p] = local[p].built] ELSE index
    /\ UNCHANGED <<store, request, crashes, history>>

(***************************************************************************)
(* Service.Get.                                                            *)
(***************************************************************************)
Pin(p) ==
    /\ at[p] = "pin"
    /\ IF Current # None THEN ContinuesWith(p, "get", [local[p] EXCEPT !.pin = Current]) ELSE Ends(p, "failed")
    /\ UNCHANGED <<store, request, index, crashes, history>>

\* A file that is not there is reported as a document that does not exist.
Get(p) ==
    /\ at[p] = "get"
    /\ LET n == local[p].pin IN
         Ends(p, IF disk[n] # None /\ disk[n].files[doc[p]] # None THEN "ok" ELSE "notFound")
    /\ UNCHANGED <<store, request, index, crashes, history>>

(***************************************************************************)
(* The rest of the world.                                                  *)
(***************************************************************************)
Push ==
    /\ head + 1 \in Commit
    /\ head' = head + 1
    /\ UNCHANGED <<disk, text, pointer, tmp, sheets, old, at, request, local, index, outcome, crashes, history>>

Syncing == {"collect", "open", "write", "rename", "prune"}

\* Time passes: no snapshot was modified within pruneGrace.  No sync takes as long.
Age ==
    /\ old # {n \in Name : disk[n] # None}
    /\ \A p \in Process : at[p] \notin Syncing \cup {"stamp", "fill", "swap"}
    /\ old' = {n \in Name : disk[n] # None}
    /\ UNCHANGED <<head, disk, text, pointer, tmp, sheets, at, request, local, index, outcome, crashes, history>>

\* What a killed process had in memory is lost.
Kill(p) ==
    /\ at[p] \notin {"idle", "dead"} /\ crashes < MaxCrashes
    /\ crashes' = crashes + 1
    /\ at' = [at EXCEPT ![p] = "dead"]
    /\ local' = [local EXCEPT ![p] = Nothing]
    /\ index' = [index EXCEPT ![p] = None]
    /\ UNCHANGED <<store, request, outcome, history>>

Step(p) ==
    \/ EnsureCache(p)
    \/ Fails(p) \/ ResolveCommit(p) \/ Load(p) \/ Enumerate(p) \/ Collect(p)
    \/ Touch(p) \/ OpenManifest(p) \/ Fill(p) \/ Swap(p)
    \/ OpenTmp(p) \/ WriteTmp(p) \/ Rename(p) \/ Prune(p)
    \/ Generation(p) \/ Sections(p) \/ Parse(p) \/ Retry(p) \/ Recheck(p)
    \/ Pin(p) \/ Get(p)

Done == (\A p \in Process : at[p] = "dead" \/ (at[p] = "idle" /\ calls[p] = MaxCalls[p])) /\ UNCHANGED vars

Next ==
    \/ \E p \in Process : Call(p) \/ Step(p) \/ Kill(p)
    \/ Age
    \/ Push
    \/ Done

Spec == Init /\ [][Next]_vars

\* A process that makes a call is scheduled.
FairSpec == Spec /\ \A p \in Process : WF_vars(Step(p))

(***************************************************************************)
(* Properties.                                                             *)
(***************************************************************************)
\* "An interrupted sync never corrupts the live cache" (staging): whatever fails
\* or is killed when, current.json names a snapshot that is there with every
\* document its manifest lists, unless two processes wrote the pointer, or two the
\* manifest of one snapshot, at once.  The variables keep their types.
LiveCacheWhole ==
    /\ TypeOK
    /\ ~clash /\ pointer # None => Whole(CurrentName)

\* A snapshot's documents are those of the commit its manifest names, however
\* many syncs reused them, unless a sync copied them from another snapshot than
\* the one whose manifest it had loaded.
ReuseTrue ==
    \A n \in Name : ~mixed /\ Published(n) => disk[n].files = Corpus[disk[n].commit]

\* "The manifest file list and the file contents are guaranteed to come from the
\* same generation" (sections): the documents of a snapshot are those of the
\* commit its manifest names.
SameGeneration ==
    \A n \in Name : Published(n) => disk[n].files = Corpus[disk[n].commit]

\* The commit of the one copy of the documents, 0 when there is none; that a sync
\* is to bring; the syncs that have brought theirs, and those that ended well; and
\* the documents a search was answered from.
Cached == IF Current = None THEN 0 ELSE disk[Current].commit

ResolvedBy(p) ==
    IF at[p] \in {"load", "enumerate", "collect"} THEN local[p].commit
    ELSE IF at[p] \in {"open", "write", "rename"} THEN disk[Own(p)].commit ELSE 0

Bringing == {p \in Process : at[p] \in {"touch", "stamp", "fill", "swap", "prune"}}

EndsWell(p, o) == at[p] = "idle" /\ op[p] = o /\ outcome[p] = "ok"

AnswerOf(p) == IF EndsWell(p, "search") THEN index[p].files ELSE None

\* The promise of the cache (DocsStore): directories, pointer files, renewals,
\* pruning and resident indexes amount to one copy of the documents that a sync
\* replaces and a search reads, each at one stroke.
Store == INSTANCE DocsStore WITH
    cached   <- Cached,
    resolved <- [p \in Process |-> ResolvedBy(p)],
    held     <- Bringing,
    synced   <- {p \in Process : EndsWell(p, "sync")},
    answer   <- [p \in Process |-> AnswerOf(p)],
    faulty   <- clash \/ mixed

StoreHolds == Store!Spec

\* "A concurrent external sync + prune can't spuriously 404 a doc that exists"
\* (Get): a document that every commit has is found.
GetFinds ==
    \A p \in Process :
        outcome[p] = "notFound" => \E c \in Commit : Corpus[c][doc[p]] = None

\* Every call ends: a search tries again only for a new snapshot, and not more
\* than three times.
CallsEnd == \A p \in Process : at[p] # "idle" ~> at[p] \in {"idle", "dead"}

\* How far each place is from the end of a call, by the longest way, but for the
\* attempts a search has left.
Height == [idle |-> 0, dead |-> 0, get |-> 1, pin |-> 2, retry |-> 2, recheck |-> 2, parse |-> 3, sections |-> 4,
           generation |-> 13, prune |-> 14, rename |-> 15, write |-> 16, open |-> 17, collect |-> 18, enumerate |-> 19,
           swap |-> 14, fill |-> 15, stamp |-> 16, touch |-> 17, load |-> 20, resolve |-> 21, ensure |-> 22]

Trying == {"sections", "parse", "retry", "recheck"}

StepsLeft(p) == Height[at[p]] + IF at[p] \in Trying THEN 4 * (MaxAttempts - local[p].tries) ELSE 0

TriesInv == \A p \in Process : at[p] \in Trying => local[p].tries \in 1..MaxAttempts

\* A call has at most 22 steps to go, each of its steps brings it nearer to its
\* end, and nothing another process does sends it back, however many snapshots
\* are published under a search: it makes three attempts and no more.
CallsBounded ==
    /\ [](\A p \in Process : StepsLeft(p) \in 0..22)
    /\ [][\A p \in Process : /\ Step(p) => StepsLeft(p)' < StepsLeft(p)
                             /\ ~Step(p) /\ ~Call(p) => StepsLeft(p)' <= StepsLeft(p)]_vars

(***************************************************************************)
(* The inductive invariant behind the safety of the cache.                 *)
(***************************************************************************)
\* What a sync has yet to do: begin its snapshot, complete it, open the pointer
\* file, write it.
Unstarted   == {"ensure", "resolve", "load", "touch", "stamp", "enumerate"}
Incomplete  == Unstarted \cup {"collect"}
Unopened    == Incomplete \cup {"open"}
Unwritten   == Unopened \cup {"write"}

\* The names of p's later syncs, and of the present one at those places.
Ahead(p, places) ==
    {n \in {p} \X (1..MaxCalls[p]) : n[2] > calls[p] \/ (n = Own(p) /\ at[p] \in places)}

\* A name is used for a snapshot, then for a pointer file, then in one.
NameInv ==
    /\ \A p \in Process :
         /\ calls[p] <= MaxCalls[p]
         /\ at[p] \notin {"idle", "dead"} => calls[p] > 0
         /\ \A n \in Ahead(p, Unstarted) : disk[n] = None
         /\ \A n \in Ahead(p, Unopened) : n # pointer /\ n # tmp
         /\ \A n \in Ahead(p, Unwritten) : \A m \in Name : text[m] # n
    /\ pointer # None => pointer # tmp
    /\ \A n \in old : disk[n] # None

\* The snapshot of a sync is there, and whole, from Collect on.
StageInv ==
    \A p \in Process :
        /\ at[p] \in Syncing => Own(p) \notin old
        /\ at[p] = "collect" => disk[Own(p)] # None /\ disk[Own(p)].commit = 0
        /\ at[p] \in {"open", "write", "rename"} => Complete(Own(p))

\* Unless two processes write the pointer at once, it is written to
\* current.json.tmp, and what it names is whole and too new to be removed.
PointerInv ==
    ~clash =>
        /\ \A p, q \in Process : {at[p], at[q]} \subseteq {"write", "rename"} => p = q
        /\ \A p \in Process :
              /\ at[p] \in {"write", "rename"} => tmp # None /\ local[p].fd = tmp
              /\ at[p] = "rename" => text[tmp] = Own(p)
              /\ at[p] = "prune" => CurrentName \notin old
        /\ pointer # None => Complete(CurrentName)

\* A name is that of at most one manifest file, in one place.
SheetNames ==
    /\ \A n, m \in Name : manifest[n] # None => manifest[n] # renewed[m]
    /\ \A n, m \in Name : renewed[n] # None /\ renewed[n] = renewed[m] => n = m
    /\ \A p \in Process : \A n \in Ahead(p, Incomplete) : n \notin blank /\ \A m \in Name : n # manifest[m] /\ n # renewed[m]
    /\ \A p \in Process : at[p] \in {"stamp", "fill", "swap"} => local[p].pin # None

\* Unless two processes write one manifest at once, it is written to
\* manifest.json.tmp, and the manifest there was stays until that is written.
SheetInv ==
    ~clash =>
        /\ \A n \in Name : Readable(n)
        /\ \A p \in Process :
              /\ at[p] \in {"fill", "swap"} => local[p].fd # None /\ local[p].fd = renewed[local[p].pin]
              /\ at[p] = "swap" => local[p].fd \notin blank
        /\ \A p, q \in Process :
              {at[p], at[q]} \subseteq {"fill", "swap"} /\ SameManifest(p, q) => p = q

\* The snapshot a sync copies from has the commit it goes by, or is gone.
SourceInv ==
    \A p \in Process :
        /\ at[p] \in {"load", "touch", "enumerate", "collect"} => local[p].commit # 0
        /\ at[p] \in {"touch", "enumerate", "collect"} /\ local[p].loaded # None =>
              /\ \A q \in Process : local[p].loaded \notin Ahead(q, Incomplete)
              /\ disk[local[p].loaded] # None => disk[local[p].loaded].commit = local[p].prev
        /\ at[p] = "collect" /\ ~mixed => local[p].from \in {None, local[p].loaded}

Faithful(x) == x.files = Corpus[x.commit]

\* What was built is as its commit has it, and that is the commit of its snapshot
\* for as long as that is there.
BuiltFrom(x) ==
    /\ ~mixed => Faithful(x)
    /\ \A q \in Process : x.gen \notin Ahead(q, Incomplete)
    /\ disk[x.gen] # None => disk[x.gen].commit = x.commit

IndexInv ==
    \A p \in Process :
        /\ index[p] # None => BuiltFrom(index[p])
        /\ local[p].built # None => BuiltFrom(local[p].built)
        /\ at[p] = "recheck" => local[p].built # None

\* A search never reads one document, a sync neither that nor an index.
CallInv ==
    \A p \in Process :
        /\ op[p] = "search" => at[p] \notin {"pin", "get"}
        /\ op[p] = "sync" => at[p] \notin {"ensure", "generation", "sections", "parse", "retry", "recheck", "pin", "get"}

CacheInv ==
    TypeOK /\ NameInv /\ StageInv /\ PointerInv /\ SheetNames /\ SheetInv /\ SourceInv /\ ReuseTrue /\ IndexInv /\ CallInv
=============================================================================
