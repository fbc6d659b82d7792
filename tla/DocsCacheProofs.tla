--------------------------- MODULE DocsCacheProofs ---------------------------
(***************************************************************************)
(* Proofs about DocsCache, for any number of processes, calls, commits and *)
(* documents.                                                              *)
(***************************************************************************)
EXTENDS DocsCache, TLAPS

Acts(p) == Call(p) \/ Step(p) \/ Kill(p)

\* The steps that leave the directory and the pointer alone.
Quiet(p) ==
    \/ EnsureCache(p) \/ Fails(p) \/ ResolveCommit(p) \/ Load(p) \/ Touch(p)
    \/ Generation(p) \/ Sections(p) \/ Parse(p) \/ Retry(p) \/ Recheck(p)
    \/ Pin(p) \/ Get(p) \/ Kill(p)

\* Those that renew a manifest.
Stamps(p) == OpenManifest(p) \/ Fill(p) \/ Swap(p)

LEMMA StepCases ==
    ASSUME NEW p \in Process, Acts(p)
    PROVE  \/ Call(p) \/ Quiet(p) \/ Stamps(p) \/ Enumerate(p) \/ Collect(p)
           \/ OpenTmp(p) \/ WriteTmp(p) \/ Rename(p) \/ Prune(p)
  BY DEF Acts, Step, Quiet, Stamps

(***************************************************************************)
(* Names and contents.                                                     *)
(***************************************************************************)
LEMMA OwnName ==
    ASSUME TypeOK, NEW p \in Process, calls[p] > 0, calls[p] <= MaxCalls[p]
    PROVE  Own(p) \in Name /\ Own(p) # None
<1>1. calls[p] \in Nat /\ MaxCalls[p] \in Nat
  BY DocsCacheAssumption DEF TypeOK
<1>2. Own(p) \in {p} \X (1..MaxCalls[p])
  BY <1>1 DEF Own
<1> QED BY <1>2, NameAssumption DEF Name

LEMMA OwnDistinct ==
    ASSUME NEW p, NEW q, p # q
    PROVE  Own(p) # Own(q)
  BY DEF Own

LEMMA CurrentFacts ==
    ASSUME TypeOK
    PROVE  /\ CurrentName \in Name \cup {None}
           /\ Current # None => Current = CurrentName /\ Published(Current)
           /\ Current \in Name \cup {None}
  BY DEF TypeOK, CurrentName, Current

\* A process in the middle of a call has a name of its own.
LEMMA OwnNameOf ==
    ASSUME TypeOK, NameInv, NEW p \in Process, at[p] \notin {"idle", "dead"}
    PROVE  Own(p) \in Name /\ Own(p) # None /\ calls[p] > 0
  BY OwnName DEF NameInv

LEMMA CorpusType == \A c \in Commit : Corpus[c] \in Contents
<1> SUFFICES ASSUME NEW c \in Commit PROVE Corpus[c] \in Contents
  OBVIOUS
<1>1. Corpus[c] = [f \in File |-> Corpus[c][f]]
  BY DocsCacheAssumption
<1>2. \A f \in File : Corpus[c][f] \in Blob
  BY DEF Blob
<1> QED BY <1>1, <1>2 DEF Contents

LEMMA CollectedType ==
    ASSUME TypeOK, NEW p \in Process, local[p].commit # 0
    PROVE  Collected(p) \in Contents
<1>1. local[p].commit \in Commit /\ local[p].from \in Name \cup {None}
  BY DEF TypeOK, Local
<1>2. ASSUME NEW f \in File PROVE Corpus[local[p].commit][f] \in Blob
  BY <1>1 DEF Blob
<1>3. ASSUME NEW f \in File, local[p].from # None, disk[local[p].from] # None
      PROVE  disk[local[p].from].files[f] \in Blob \cup {None}
  <2>1. disk[local[p].from] \in Snapshot
    BY <1>1, <1>3 DEF TypeOK
  <2> QED BY <2>1 DEF Snapshot, Contents
<1> QED BY <1>2, <1>3 DEF Collected, Contents

LEMMA EmptyType == Empty \in Contents
  BY DEF Empty, Contents

LEMMA ForceType ==
    ASSUME NEW l \in Local, NEW f \in BOOLEAN
    PROVE  [l EXCEPT !.force = f] \in Local
  BY DEF Local

LEMMA NothingType == Nothing \in Local
  BY DEF Nothing, Local

(***************************************************************************)
(* Types.                                                                  *)
(***************************************************************************)
Typed == TypeOK /\ NameInv /\ StageInv /\ SheetNames /\ SourceInv

\* What a step does with the place, the outcome and the local values of a call.
LEMMA CallTypes ==
    ASSUME TypeOK, NEW p \in Process
    PROVE  /\ \A how \in {"none", "ok", "failed", "notFound"} : Ends(p, how) =>
                 /\ at' \in [Process -> Place] /\ local' \in [Process -> Local]
                 /\ outcome' \in [Process -> {"none", "ok", "failed", "notFound"}]
           /\ \A place \in Place : \A what \in Local : ContinuesWith(p, place, what) =>
                 /\ at' \in [Process -> Place] /\ local' \in [Process -> Local]
                 /\ outcome' \in [Process -> {"none", "ok", "failed", "notFound"}]
<1>1. "idle" \in Place
  BY DEF Place
<1>2. ASSUME NEW how \in {"none", "ok", "failed", "notFound"}, Ends(p, how)
      PROVE  /\ at' \in [Process -> Place] /\ local' \in [Process -> Local]
             /\ outcome' \in [Process -> {"none", "ok", "failed", "notFound"}]
  BY <1>1, <1>2, NothingType DEF Ends, TypeOK
<1>3. ASSUME NEW place \in Place, NEW what \in Local, ContinuesWith(p, place, what)
      PROVE  /\ at' \in [Process -> Place] /\ local' \in [Process -> Local]
             /\ outcome' \in [Process -> {"none", "ok", "failed", "notFound"}]
  BY <1>3 DEF ContinuesWith, TypeOK
<1> QED BY <1>2, <1>3

LEMMA SyncedTypes ==
    ASSUME TypeOK, NEW p \in Process, Synced(p)
    PROVE  /\ at' \in [Process -> Place] /\ local' \in [Process -> Local]
           /\ outcome' \in [Process -> {"none", "ok", "failed", "notFound"}]
<1>1. FirstRead(p) \in Place
  BY DEF FirstRead, Place
<1> QED BY <1>1, CallTypes, NothingType DEF Synced

LEMMA QuietTypes ==
    ASSUME Typed, NEW p \in Process, Quiet(p)
    PROVE  TypeOK'
<1>1. TypeOK
  BY DEF Typed
<1>2. local[p] \in Local
  BY <1>1 DEF TypeOK
<1>3. \A place \in Place : Continues(p, place) => ContinuesWith(p, place, local[p])
  BY DEF Continues
<1>4. FirstRead(p) \in Place /\ local[p].tries + 1 \in Nat
  BY <1>2 DEF FirstRead, Place, Local
<1>5. CurrentName \in Name \cup {None} /\ Current \in Name \cup {None}
  BY <1>1, CurrentFacts
<1>6. ASSUME /\ at' \in [Process -> Place] /\ local' \in [Process -> Local]
             /\ outcome' \in [Process -> {"none", "ok", "failed", "notFound"}],
             index' \in [Process -> Index \cup {None}], crashes' \in 0..MaxCrashes,
             UNCHANGED <<store, request, history>>
      PROVE  TypeOK'
  BY <1>1, <1>6 DEF TypeOK, store, sheets, request, history
<1>7. {"idle", "resolve", "load", "touch", "stamp", "enumerate", "sections", "parse", "retry", "recheck", "get"}
          \subseteq Place
  BY DEF Place
<1>8. index \in [Process -> Index \cup {None}] /\ crashes \in 0..MaxCrashes
  BY <1>1 DEF TypeOK
<1>10. Again(p) => /\ at' \in [Process -> Place] /\ local' \in [Process -> Local]
                   /\ outcome' \in [Process -> {"none", "ok", "failed", "notFound"}]
  <2>1. [local[p] EXCEPT !.gen = CurrentName, !.tries = @ + 1] \in Local
    BY <1>2, <1>4, <1>5 DEF Local
  <2> QED BY <1>1, <1>7, <2>1, CallTypes DEF Again
<1>11. CASE EnsureCache(p) \/ Fails(p) \/ Retry(p) \/ Get(p)
  <2>1. /\ at' \in [Process -> Place] /\ local' \in [Process -> Local]
        /\ outcome' \in [Process -> {"none", "ok", "failed", "notFound"}]
    BY <1>1, <1>2, <1>3, <1>4, <1>7, <1>10, <1>11, CallTypes DEF EnsureCache, Fails, Retry, Get
  <2>2. UNCHANGED <<store, request, index, crashes, history>>
    BY <1>11 DEF EnsureCache, Fails, Retry, Get
  <2> QED BY <1>6, <1>8, <2>1, <2>2
<1>12. CASE ResolveCommit(p)
  <2>1. [local[p] EXCEPT !.commit = head] \in Local
    BY <1>1, <1>2 DEF Local, TypeOK
  <2> QED BY <1>1, <1>6, <1>7, <1>8, <1>12, <2>1, CallTypes DEF ResolveCommit
<1>13. CASE Load(p)
  <2> DEFINE loaded == IF Current # None /\ Readable(Current) THEN Current ELSE None
             commit == IF loaded = None THEN 0 ELSE disk[loaded].commit
  <2>1. loaded \in Name \cup {None} /\ commit \in Commit \cup {0}
    BY <1>1, <1>5, CurrentFacts DEF Published, TypeOK, Snapshot
  <2> HIDE DEF loaded, commit
  <2>2. [local[p] EXCEPT !.loaded = loaded, !.prev = commit] \in Local
    BY <1>2, <2>1 DEF Local
  <2>3. /\ \E place \in {"touch", "enumerate"} :
              ContinuesWith(p, place, [local[p] EXCEPT !.loaded = loaded, !.prev = commit])
        /\ UNCHANGED <<store, request, index, crashes, history>>
    BY <1>13 DEF Load, loaded, commit
  <2> QED BY <1>1, <1>6, <1>7, <1>8, <2>2, <2>3, CallTypes
<1>14. CASE Generation(p)
  <2>1. CurrentName # None => [local[p] EXCEPT !.gen = CurrentName, !.tries = 1] \in Local
    BY <1>2, <1>5 DEF Local
  <2> QED BY <1>1, <1>6, <1>7, <1>8, <1>14, <2>1, CallTypes DEF Generation
<1>15. CASE Sections(p) \/ Pin(p) \/ Touch(p)
  <2>1. [local[p] EXCEPT !.pin = Current] \in Local
    BY <1>2, <1>5 DEF Local
  <2>2. [Nothing EXCEPT !.pin = Current] \in Local
    BY <1>5, NothingType DEF Local
  <2> QED BY <1>1, <1>6, <1>7, <1>8, <1>15, <2>1, <2>2, CallTypes DEF Sections, Pin, Touch
<1>16. CASE Parse(p)
  <2> DEFINE n == local[p].pin
             i == [gen |-> n, commit |-> disk[n].commit, files |-> disk[n].files]
  <2>1. ASSUME Whole(n) PROVE [local[p] EXCEPT !.built = i] \in Local
    <3>1. n \in Name /\ disk[n] \in Snapshot /\ disk[n].commit # 0
      BY <1>1, <1>2, <2>1 DEF Whole, Complete, Published, Local, TypeOK
    <3>2. i \in Index
      BY <3>1 DEF Snapshot, Index
    <3> HIDE DEF n, i
    <3> QED BY <1>2, <3>2 DEF Local
  <2> QED BY <1>1, <1>2, <1>3, <1>6, <1>7, <1>8, <1>16, <2>1, CallTypes DEF Parse
<1>17. CASE Recheck(p)
  <2>1. /\ at' \in [Process -> Place] /\ local' \in [Process -> Local]
        /\ outcome' \in [Process -> {"none", "ok", "failed", "notFound"}]
    BY <1>1, <1>10, <1>17, CallTypes DEF Recheck
  <2>2. index' \in [Process -> Index \cup {None}]
    BY <1>2, <1>8, <1>17 DEF Recheck, Local
  <2> QED BY <1>6, <1>8, <1>17, <2>1, <2>2 DEF Recheck
<1>18. CASE Kill(p)
  <2>1. crashes' \in 0..MaxCrashes
    BY <1>8, <1>18, DocsCacheAssumption DEF Kill
  <2>2. "dead" \in Place
    BY DEF Place
  <2> QED BY <1>1, <1>6, <1>8, <1>18, <2>1, <2>2, NothingType DEF Kill, TypeOK
<1> QED BY <1>11, <1>12, <1>13, <1>14, <1>15, <1>16, <1>17, <1>18 DEF Quiet

\* A call that begins.
LEMMA BeginTypes ==
    ASSUME Typed, NEW p \in Process, Call(p)
    PROVE  TypeOK'
<1>1. TypeOK
  BY DEF Typed
<1>2. PICK o \in Ops[p] :
         /\ op' = [op EXCEPT ![p] = o]
         /\ \E d \in IF o = "get" THEN File ELSE {doc[p]} : doc' = [doc EXCEPT ![p] = d]
         /\ at' = [at EXCEPT ![p] = IF o = "sync" THEN "resolve" ELSE "ensure"]
         /\ \E f \in BOOLEAN : local' = [local EXCEPT ![p].force = f]
  BY DEF Call
<1>3. o \in Op
  BY <1>2, DocsCacheAssumption
<1>4. op' \in [Process -> Op] /\ doc' \in [Process -> File] /\ at' \in [Process -> Place]
  BY <1>1, <1>2, <1>3 DEF TypeOK, Place
<1>5. local' \in [Process -> Local]
  <2>1. PICK f \in BOOLEAN : local' = [local EXCEPT ![p] = [local[p] EXCEPT !.force = f]]
    BY <1>2
  <2>2. local[p] \in Local
    BY <1>1 DEF TypeOK
  <2>3. [local[p] EXCEPT !.force = f] \in Local
    BY <2>2, ForceType
  <2> QED BY <1>1, <2>1, <2>3 DEF TypeOK
<1>7. /\ calls' \in [Process -> Nat]
      /\ outcome' \in [Process -> {"none", "ok", "failed", "notFound"}]
      /\ UNCHANGED <<store, index, crashes, clash, mixed>>
  BY <1>1 DEF Call, TypeOK
<1> QED BY <1>1, <1>4, <1>5, <1>7 DEF TypeOK, store, sheets

LEMMA SyncTypes ==
    ASSUME Typed, NEW p \in Process,
           Stamps(p) \/ Enumerate(p) \/ Collect(p) \/ OpenTmp(p) \/ WriteTmp(p) \/ Rename(p) \/ Prune(p)
    PROVE  TypeOK'
<1>1. TypeOK /\ NameInv /\ SheetNames /\ SourceInv
  BY DEF Typed
<1>2. local[p] \in Local
  BY <1>1 DEF TypeOK
<1>3. Own(p) \in Name
  BY <1>1, OwnNameOf DEF Stamps, OpenManifest, Fill, Swap, Enumerate, Collect, OpenTmp, WriteTmp, Rename, Prune
<1>4. CurrentName \in Name \cup {None} /\ Current \in Name \cup {None}
  BY <1>1, CurrentFacts
<1>5. {"fill", "swap", "collect", "open", "write", "rename", "prune"} \subseteq Place
  BY DEF Place
<1>6. \A place \in Place : Continues(p, place) => ContinuesWith(p, place, local[p])
  BY DEF Continues
<1> DEFINE Told == /\ at' \in [Process -> Place] /\ local' \in [Process -> Local]
                   /\ outcome' \in [Process -> {"none", "ok", "failed", "notFound"}]
<1>7. Discard(p) => Told /\ disk' \in [Name -> Snapshot \cup {None}]
  BY <1>1, CallTypes DEF Discard, TypeOK
<1>7a. Ends(p, "failed") => Told
  BY <1>1, CallTypes
<1>8. \A place \in Place : Continues(p, place) => Told
  BY <1>1, <1>2, <1>6, CallTypes
<1>9. CASE Stamps(p)
  <2>1. CASE OpenManifest(p)
    <3> DEFINE n == local[p].pin
               file == IF renewed[n] = None THEN Own(p) ELSE renewed[n]
    <3>1. file \in Name
      <4>1. n \in Name
        BY <1>1, <1>2, <2>1 DEF Local, OpenManifest, SheetNames
      <4> QED BY <1>1, <1>3, <4>1 DEF TypeOK
    <3>2. CASE Ends(p, "failed") /\ UNCHANGED <<renewed, blank, old, clash>>
      BY <1>1, <2>1, <3>2, CallTypes DEF OpenManifest, TypeOK, sheets, request
    <3>3. CASE /\ disk[n] # None
               /\ renewed' = [renewed EXCEPT ![n] = file] /\ blank' = blank \cup {file}
               /\ old' = IF renewed[n] = None THEN old \ {n} ELSE old
               /\ ContinuesWith(p, "fill", [local[p] EXCEPT !.fd = file])
               /\ clash' \in BOOLEAN
      <4>1. [local[p] EXCEPT !.fd = file] \in Local
        BY <1>2, <3>1, <3>3 DEF Local
      <4>2. Told
        BY <1>1, <1>5, <3>3, <4>1, CallTypes
      <4>3. renewed' \in [Name -> Name \cup {None}] /\ blank' \subseteq Name /\ old' \subseteq Name
        BY <1>1, <3>1, <3>3 DEF TypeOK
      <4> QED BY <1>1, <2>1, <3>3, <4>2, <4>3 DEF OpenManifest, TypeOK, sheets, request
    <3> QED BY <2>1, <3>2, <3>3 DEF OpenManifest
  <2>2. CASE Fill(p)
    <3>1. Told /\ blank' \subseteq Name
      BY <1>1, <1>5, <1>7a, <1>8, <2>2 DEF Fill, TypeOK
    <3> QED BY <1>1, <2>2, <3>1 DEF Fill, TypeOK, sheets, request, history
  <2>3. CASE Swap(p)
    <3>1. Told
      BY <1>1, <1>7a, <2>3, SyncedTypes DEF Swap
    <3>2. /\ manifest' \in [Name -> Name \cup {None}] /\ renewed' \in [Name -> Name \cup {None}]
          /\ old' \subseteq Name
      BY <1>1, <2>3 DEF Swap, TypeOK
    <3> QED BY <1>1, <2>3, <3>1, <3>2 DEF Swap, TypeOK, sheets, request, history
  <2> QED BY <1>9, <2>1, <2>2, <2>3 DEF Stamps
<1>10. CASE Enumerate(p)
  <2> DEFINE source == IF local[p].prev = 0 THEN None ELSE Current
  <2>1. source \in Name \cup {None}
    BY <1>4
  <2>2. [local[p] EXCEPT !.from = source] \in Local
    BY <1>2, <2>1 DEF Local
  <2> HIDE DEF source
  <2>3. Told
    BY <1>1, <1>5, <1>10, <2>2, CallTypes DEF Enumerate, source
  <2>4. [commit |-> 0, files |-> Empty] \in Snapshot
    BY EmptyType DEF Snapshot
  <2>5. disk' \in [Name -> Snapshot \cup {None}]
    BY <1>1, <1>10, <2>4 DEF Enumerate, TypeOK
  <2>6. mixed' \in BOOLEAN
    BY <1>10 DEF Enumerate
  <2> QED BY <1>1, <1>10, <2>3, <2>5, <2>6 DEF Enumerate, TypeOK, sheets, request
<1>11. CASE Collect(p)
  <2>1. local[p].commit # 0
    BY <1>1, <1>11 DEF SourceInv, Collect
  <2>2. [commit |-> local[p].commit, files |-> Collected(p)] \in Snapshot
    BY <1>1, <1>2, <2>1, CollectedType DEF Snapshot, Local
  <2>3. disk' \in [Name -> Snapshot \cup {None}]
    BY <1>1, <1>7, <1>11, <2>2 DEF Collect, TypeOK
  <2>4. Told
    <3>1. ContinuesWith(p, "open", Nothing) => Told
      BY <1>1, <1>5, NothingType, CallTypes
    <3> QED BY <1>7, <1>11, <3>1 DEF Collect
  <2> QED BY <1>1, <1>11, <2>3, <2>4 DEF Collect, TypeOK, sheets, request, history
<1>12. CASE OpenTmp(p)
  <2>1. tmp' \in Name
    BY <1>1, <1>3, <1>12 DEF OpenTmp, TypeOK
  <2>2. [local[p] EXCEPT !.fd = tmp'] \in Local
    BY <1>2, <2>1 DEF Local
  <2>3. Told
    BY <1>1, <1>5, <1>12, <2>2, CallTypes DEF OpenTmp
  <2>4. text' \in [Name -> Name \cup {None}] /\ clash' \in BOOLEAN
    BY <1>1, <1>12 DEF OpenTmp, TypeOK
  <2> QED BY <1>1, <1>12, <2>1, <2>3, <2>4 DEF OpenTmp, TypeOK, sheets, request
<1>14. CASE WriteTmp(p)
  <2>1. text' \in [Name -> Name \cup {None}]
    BY <1>1, <1>3, <1>14 DEF WriteTmp, TypeOK
  <2>3. Told /\ disk' \in [Name -> Snapshot \cup {None}]
    BY <1>1, <1>5, <1>7, <1>8, <1>14 DEF WriteTmp, TypeOK
  <2> QED BY <1>1, <1>14, <2>1, <2>3 DEF WriteTmp, TypeOK, sheets, request, history
<1>15. CASE Rename(p)
  <2>1. /\ text' \in [Name -> Name \cup {None}]
        /\ pointer' \in Name \cup {None} /\ tmp' \in Name \cup {None}
    BY <1>1, <1>15 DEF Rename, TypeOK
  <2>3. Told /\ disk' \in [Name -> Snapshot \cup {None}]
    BY <1>1, <1>5, <1>7, <1>8, <1>15 DEF Rename, TypeOK
  <2> QED BY <1>1, <1>15, <2>1, <2>3 DEF Rename, TypeOK, sheets, request, history
<1>16. CASE Prune(p)
  <2>1. Told
    BY <1>1, <1>16, SyncedTypes DEF Prune
  <2>2. disk' \in [Name -> Snapshot \cup {None}] /\ old' \subseteq Name
    BY <1>1, <1>16 DEF Prune, TypeOK
  <2> QED BY <1>1, <1>16, <2>1, <2>2 DEF Prune, TypeOK, sheets, request, history
<1> QED BY <1>9, <1>10, <1>11, <1>12, <1>14, <1>15, <1>16

LEMMA TypeKeeps == Typed /\ [Next]_vars => TypeOK'
<1> SUFFICES ASSUME Typed, [Next]_vars PROVE TypeOK'
  OBVIOUS
<1>1. TypeOK
  BY DEF Typed
<1>2. CASE \E p \in Process : Acts(p)
  BY <1>2, StepCases, QuietTypes, BeginTypes, SyncTypes
<1>3. CASE Age
  <2>1. old' \subseteq Name
    BY <1>3 DEF Age
  <2> QED BY <1>1, <1>3, <2>1 DEF Age, TypeOK, sheets, request, history
<1>4. CASE Push
  BY <1>1, <1>4 DEF Push, TypeOK, sheets, request, history
<1>5. CASE UNCHANGED vars
  BY <1>1, <1>5 DEF vars, store, sheets, request, history, TypeOK
<1> QED BY <1>2, <1>3, <1>4, <1>5 DEF Next, Acts, Done

(***************************************************************************)
(* What a step leaves alone.                                               *)
(***************************************************************************)
LEMMA CallOthers ==
    ASSUME NEW p \in Process, NEW q \in Process, q # p, TypeOK
    PROVE  /\ \A how : Ends(p, how) => /\ at'[q] = at[q] /\ local'[q] = local[q]
                                       /\ outcome'[q] = outcome[q]
           /\ \A place, what : ContinuesWith(p, place, what) =>
                 /\ at'[q] = at[q] /\ local'[q] = local[q] /\ outcome'[q] = outcome[q]
           /\ \A place : Continues(p, place) =>
                 /\ at'[q] = at[q] /\ local'[q] = local[q] /\ outcome'[q] = outcome[q]
           /\ Synced(p) => /\ at'[q] = at[q] /\ local'[q] = local[q] /\ outcome'[q] = outcome[q]
           /\ Again(p) => /\ at'[q] = at[q] /\ local'[q] = local[q] /\ outcome'[q] = outcome[q]
  BY DEF Ends, ContinuesWith, Continues, Synced, Again, TypeOK

\* A step of one process leaves what the others have.
LEMMA Others ==
    ASSUME TypeOK, NEW p \in Process, Acts(p), NEW q \in Process, q # p
    PROVE  /\ at'[q] = at[q] /\ local'[q] = local[q] /\ outcome'[q] = outcome[q]
           /\ calls'[q] = calls[q] /\ op'[q] = op[q] /\ index'[q] = index[q]
<1> DEFINE Same == at'[q] = at[q] /\ local'[q] = local[q] /\ outcome'[q] = outcome[q]
<1>1. ASSUME Same, UNCHANGED <<request, index>>
      PROVE  Same /\ calls'[q] = calls[q] /\ op'[q] = op[q] /\ index'[q] = index[q]
  BY <1>1 DEF request
<1>2. CASE Call(p)
  BY <1>2 DEF Call, TypeOK
<1>3. CASE EnsureCache(p) \/ Fails(p) \/ ResolveCommit(p) \/ Touch(p) \/ Retry(p) \/ Pin(p) \/ Get(p)
  <2>1. Same
    BY <1>3, CallOthers DEF EnsureCache, Fails, ResolveCommit, Touch, Retry, Pin, Get
  <2> QED BY <1>1, <1>3, <2>1 DEF EnsureCache, Fails, ResolveCommit, Touch, Retry, Pin, Get
<1>4. CASE Load(p)
  <2>1. Same
    BY <1>4, CallOthers DEF Load
  <2> QED BY <1>1, <1>4, <2>1 DEF Load
<1>5. CASE Generation(p) \/ Sections(p) \/ Parse(p)
  <2>1. Same
    BY <1>5, CallOthers DEF Generation, Sections, Parse
  <2> QED BY <1>1, <1>5, <2>1 DEF Generation, Sections, Parse
<1>6. CASE Recheck(p)
  <2>1. Same
    BY <1>6, CallOthers DEF Recheck
  <2> QED BY <1>6, <2>1 DEF Recheck, request, TypeOK
<1>7. CASE Kill(p)
  BY <1>7 DEF Kill, request, TypeOK
<1>8. CASE Stamps(p) \/ Enumerate(p) \/ Prune(p)
  <2>1. Same
    BY <1>8, CallOthers DEF Stamps, OpenManifest, Fill, Swap, Enumerate, Prune
  <2> QED BY <1>1, <1>8, <2>1 DEF Stamps, OpenManifest, Fill, Swap, Enumerate, Prune
<1>9. CASE Collect(p) \/ OpenTmp(p) \/ WriteTmp(p) \/ Rename(p)
  <2>1. Same
    BY <1>9, CallOthers DEF Collect, OpenTmp, WriteTmp, Rename, Discard
  <2> QED BY <1>1, <1>9, <2>1 DEF Collect, OpenTmp, WriteTmp, Rename
<1> QED BY <1>2, <1>3, <1>4, <1>5, <1>6, <1>7, <1>8, <1>9, StepCases DEF Quiet

LEMMA PlaceSet ==
    ASSUME TypeOK, NEW p \in Process
    PROVE  /\ \A how : Ends(p, how) => at'[p] = "idle"
           /\ \A place, what : ContinuesWith(p, place, what) => at'[p] = place
           /\ \A place : Continues(p, place) => at'[p] = place
           /\ Synced(p) => at'[p] \in {"idle", "generation", "pin"}
           /\ Again(p) => at'[p] \in {"sections", "idle"}
  BY DEF Ends, ContinuesWith, Continues, Synced, FirstRead, Again, TypeOK

\* From where each step takes its process where.
LEMMA Places ==
    ASSUME TypeOK, NEW p \in Process
    PROVE  /\ Call(p) => at[p] = "idle" /\ at'[p] \in {"resolve", "ensure"}
           /\ Quiet(p) => at'[p] \notin Syncing /\ (at'[p] \in Unstarted => at[p] \in Unstarted)
           /\ Touch(p) => at[p] = "touch" /\ at'[p] \in {"stamp", "idle"}
           /\ Quiet(p) => at'[p] \notin {"fill", "swap"} /\ (at'[p] = "stamp" => Touch(p))
           /\ OpenManifest(p) => at[p] = "stamp" /\ at'[p] \in {"fill", "idle"}
           /\ Fill(p) => at[p] = "fill" /\ at'[p] \in {"swap", "idle"}
           /\ Swap(p) => at[p] = "swap" /\ at'[p] \in {"idle", "generation", "pin"}
           /\ Enumerate(p) => at[p] = "enumerate" /\ at'[p] = "collect"
           /\ Collect(p) => at[p] = "collect" /\ at'[p] \in {"open", "idle"}
           /\ OpenTmp(p) => at[p] = "open" /\ at'[p] = "write"
           /\ WriteTmp(p) => at[p] = "write" /\ at'[p] \in {"rename", "idle"}
           /\ Rename(p) => at[p] = "rename" /\ at'[p] \in {"prune", "idle"}
           /\ Prune(p) => at[p] = "prune" /\ at'[p] \in {"idle", "generation", "pin"}
<1>1. Call(p) => at[p] = "idle" /\ at'[p] \in {"resolve", "ensure"}
  BY DEF Call, TypeOK
<1>2. ASSUME Quiet(p)
      PROVE  /\ at'[p] \notin Syncing /\ (at'[p] \in Unstarted => at[p] \in Unstarted)
             /\ at'[p] \notin {"fill", "swap"} /\ (at'[p] = "stamp" => Touch(p))
  <2>1. EnsureCache(p) => at[p] = "ensure" /\ at'[p] \in {"generation", "pin", "idle", "resolve"}
    BY PlaceSet DEF EnsureCache, FirstRead
  <2>2. Load(p) => at[p] = "load" /\ at'[p] \in {"touch", "enumerate"}
    BY PlaceSet DEF Load
  <2>3. Fails(p) => at'[p] = "idle"
    BY PlaceSet DEF Fails
  <2>4. ResolveCommit(p) => at[p] = "resolve" /\ at'[p] = "load"
    BY PlaceSet DEF ResolveCommit
  <2>5. Generation(p) => at'[p] \in {"idle", "sections"}
    BY PlaceSet DEF Generation
  <2>6. Sections(p) => at'[p] \in {"parse", "retry"}
    BY PlaceSet DEF Sections
  <2>7. Parse(p) => at'[p] \in {"recheck", "retry"}
    BY PlaceSet DEF Parse
  <2>8. Retry(p) \/ Recheck(p) => at'[p] \in {"idle", "sections"}
    BY PlaceSet DEF Retry, Recheck
  <2>9. Pin(p) \/ Get(p) => at'[p] \in {"idle", "get"}
    BY PlaceSet DEF Pin, Get
  <2>10. Kill(p) => at'[p] = "dead"
    BY DEF Kill, TypeOK
  <2>11. Touch(p) => at[p] = "touch" /\ at'[p] \in {"stamp", "idle"}
    BY PlaceSet DEF Touch
  <2> QED BY <1>2, <2>1, <2>2, <2>3, <2>4, <2>5, <2>6, <2>7, <2>8, <2>9, <2>10, <2>11
          DEF Quiet, Syncing, Unstarted
<1>3. /\ Touch(p) => at[p] = "touch" /\ at'[p] \in {"stamp", "idle"}
      /\ OpenManifest(p) => at[p] = "stamp" /\ at'[p] \in {"fill", "idle"}
      /\ Fill(p) => at[p] = "fill" /\ at'[p] \in {"swap", "idle"}
      /\ Swap(p) => at[p] = "swap" /\ at'[p] \in {"idle", "generation", "pin"}
  BY PlaceSet DEF Touch, OpenManifest, Fill, Swap
<1>4. Enumerate(p) => at[p] = "enumerate" /\ at'[p] = "collect"
  BY PlaceSet DEF Enumerate
<1>5. Collect(p) => at[p] = "collect" /\ at'[p] \in {"open", "idle"}
  BY PlaceSet DEF Collect, Discard
<1>6. OpenTmp(p) => at[p] = "open" /\ at'[p] = "write"
  BY PlaceSet DEF OpenTmp
<1>7. WriteTmp(p) => at[p] = "write" /\ at'[p] \in {"rename", "idle"}
  BY PlaceSet DEF WriteTmp, Discard
<1>8. Rename(p) => at[p] = "rename" /\ at'[p] \in {"prune", "idle"}
  BY PlaceSet DEF Rename, Discard
<1>9. Prune(p) => at[p] = "prune" /\ at'[p] \in {"idle", "generation", "pin"}
  BY PlaceSet DEF Prune
<1> QED BY <1>1, <1>2, <1>3, <1>4, <1>5, <1>6, <1>7, <1>8, <1>9

Stages == {Unstarted, Incomplete, Unopened, Unwritten}

\* The names a process has ahead of it only become fewer.
LEMMA AheadShrinks ==
    ASSUME TypeOK, NEW p \in Process, Acts(p), NEW q \in Process, NEW S \in Stages
    PROVE  Ahead(q, S)' \subseteq Ahead(q, S)
<1>1. calls[q] \in Nat
  BY DEF TypeOK
<1>2. CASE q # p
  <2>1. at'[q] = at[q] /\ calls'[q] = calls[q]
    BY <1>2, Others
  <2> QED BY <2>1 DEF Ahead, Own
<1>3. CASE q = p /\ Call(p)
  <2>1. calls'[p] = calls[p] + 1
    BY <1>3 DEF Call, TypeOK
  <2>2. ASSUME NEW n \in {p} \X (1..MaxCalls[p]), n[2] > calls'[p] \/ n = <<p, calls'[p]>>
        PROVE  n[2] > calls[p]
    <3>1. MaxCalls[p] \in Nat
      BY DocsCacheAssumption
    <3> QED BY <1>1, <1>3, <2>1, <2>2, <3>1
  <2> QED BY <1>3, <2>2 DEF Ahead, Own
<1>4. CASE q = p /\ ~Call(p)
  <2>1. calls' = calls
    BY <1>4, StepCases DEF Quiet, EnsureCache, Fails, ResolveCommit, Load, Touch, Generation, Sections, Parse,
       Retry, Recheck, Pin, Get, Kill, Stamps, OpenManifest, Fill, Swap, Enumerate, Collect, OpenTmp, WriteTmp, Rename, Prune, request
  <2>2. at'[p] \in S => at[p] \in S
    BY <1>4, StepCases, Places DEF Stamps, Stages, Unstarted, Incomplete, Unopened, Unwritten, Syncing
  <2> QED BY <1>4, <2>1, <2>2 DEF Ahead, Own
<1> QED BY <1>2, <1>3, <1>4

LEMMA Frames ==
    ASSUME NEW p \in Process
    PROVE  /\ Quiet(p) => UNCHANGED <<store, request, history>>
           /\ Call(p) => UNCHANGED <<store, clash, mixed>>
  BY DEF Quiet, EnsureCache, Fails, ResolveCommit, Load, Touch, Generation, Sections, Parse, Retry, Recheck,
         Pin, Get, Kill, Call, request, history, store

(***************************************************************************)
(* Names.                                                                  *)
(***************************************************************************)
\* What is ahead of a process: names, and the present one until it is used.
LEMMA AheadFacts ==
    ASSUME TypeOK, NameInv, NEW p \in Process, NEW S \in Stages
    PROVE  /\ \A n \in Ahead(p, S) : n \in Name /\ n # None
           /\ at[p] \in S => Own(p) \in Ahead(p, S)
           /\ \A q \in Process : at[p] \notin S => Own(p) \notin Ahead(q, S)
<1>1. calls[p] \in Nat /\ MaxCalls[p] \in Nat
  BY DocsCacheAssumption DEF TypeOK
<1>2. \A n \in Ahead(p, S) : n \in Name
  BY DEF Ahead, Name
<1>3. \A n \in Ahead(p, S) : n # None
  BY <1>2, NameAssumption
<1>4. at[p] \in S => at[p] \notin {"idle", "dead"}
  BY DEF Stages, Unstarted, Incomplete, Unopened, Unwritten
<1>5. at[p] \in S => Own(p) \in {p} \X (1..MaxCalls[p])
  BY <1>1, <1>4 DEF NameInv, Own
<1>6. \A q \in Process : at[p] \notin S => Own(p) \notin Ahead(q, S)
  BY <1>1 DEF Ahead, Own
<1> QED BY <1>2, <1>3, <1>5, <1>6 DEF Ahead

LEMMA StagesAre ==
    /\ {Unstarted, Incomplete, Unopened, Unwritten} \subseteq Stages
    /\ "enumerate" \in Unstarted /\ "collect" \notin Unstarted /\ "open" \notin Unstarted
    /\ "idle" \notin Unstarted /\ "write" \notin Unopened /\ "rename" \notin Unwritten
    /\ "enumerate" \in Incomplete /\ "collect" \in Incomplete /\ "open" \notin Incomplete
    /\ {"enumerate", "collect", "open"} \subseteq Unopened
    /\ {"enumerate", "collect", "open", "write"} \subseteq Unwritten
  BY DEF Stages, Unstarted, Incomplete, Unopened, Unwritten

\* The name of a sync that has left those places is not ahead of anyone.
LEMMA LeavesAhead ==
    ASSUME TypeOK', NEW p \in Process, calls'[p] = calls[p], NEW S \in Stages, at'[p] \notin S,
           NEW q \in Process, NEW n \in Ahead(q, S)'
    PROVE  n # Own(p)
<1>1. SUFFICES ASSUME n = Own(p) PROVE FALSE
  OBVIOUS
<1>2. q = p /\ calls'[p] \in Nat
  BY <1>1 DEF Ahead, Own, TypeOK
<1> QED BY <1>1, <1>2 DEF Ahead, Own

LEMMA NameKeepsStep ==
    ASSUME CacheInv, NEW p \in Process, Acts(p), TypeOK'
    PROVE  NameInv'
<1>1. TypeOK /\ NameInv /\ StageInv
  BY DEF CacheInv
<1>2. ASSUME NEW q \in Process
      PROVE  calls'[q] <= MaxCalls[q]
  <2>1. calls[q] \in Nat /\ MaxCalls[q] \in Nat /\ calls[q] <= MaxCalls[q]
    BY <1>1, DocsCacheAssumption DEF TypeOK, NameInv
  <2>2. CASE calls'[q] = calls[q]
    BY <2>1, <2>2
  <2>3. CASE q = p /\ Call(p)
    <3>1. calls'[p] = calls[p] + 1 /\ calls[p] < MaxCalls[p]
      BY <1>1, <2>3 DEF Call, TypeOK
    <3> QED BY <2>1, <2>3, <3>1
  <2>4. CASE q = p /\ ~Call(p)
    BY <2>2, <2>4, StepCases, Frames DEF Stamps, OpenManifest, Fill, Swap, Enumerate, Collect, OpenTmp, WriteTmp, Rename, Prune, request
  <2>5. CASE q # p
    BY <1>1, <2>2, <2>5, Others
  <2> QED BY <2>3, <2>4, <2>5
<1>3. ASSUME NEW q \in Process, at'[q] \notin {"idle", "dead"}
      PROVE  calls'[q] > 0
  <2>1. calls[q] \in Nat
    BY <1>1 DEF TypeOK
  <2>2. CASE q = p /\ Call(p)
    <3>1. calls'[p] = calls[p] + 1
      BY <1>1, <2>2 DEF Call, TypeOK
    <3> QED BY <2>1, <2>2, <3>1
  <2>3. CASE q = p /\ ~Call(p)
    <3>1. at[p] # "idle" /\ at[p] # "dead"
      <4>1. CASE Quiet(p)
        BY <1>1, <1>3, <2>3, <4>1 DEF Quiet, EnsureCache, Fails, ResolveCommit, Load, Touch, Generation, Sections,
           Parse, Retry, Recheck, Pin, Get, Kill, TypeOK
      <4> QED BY <1>1, <2>3, <4>1, Places, StepCases DEF Stamps
    <3>2. calls' = calls
      BY <2>3, StepCases, Frames DEF Stamps, OpenManifest, Fill, Swap, Enumerate, Collect, OpenTmp, WriteTmp, Rename, Prune, request
    <3> QED BY <1>1, <2>3, <3>1, <3>2 DEF NameInv
  <2>4. CASE q # p
    BY <1>1, <1>3, <2>4, Others DEF NameInv
  <2> QED BY <2>2, <2>3, <2>4
<1>4. ASSUME NEW q \in Process, NEW n \in Ahead(q, Unstarted)'
      PROVE  disk'[n] = None
  <2>1. n \in Ahead(q, Unstarted) /\ n \in Name
    BY <1>1, <1>4, AheadShrinks, AheadFacts, StagesAre
  <2>2. disk[n] = None
    BY <1>1, <2>1 DEF NameInv
  <2>3. CASE Enumerate(p)
    <3>1. n # Own(p)
      <4>1. at'[p] = "collect" /\ calls' = calls
        BY <1>1, <2>3, Places DEF Enumerate, request
      <4> QED BY <1>4, <4>1, LeavesAhead, StagesAre
    <3> QED BY <1>1, <2>1, <2>2, <2>3, <3>1 DEF Enumerate, TypeOK
  <2>4. CASE Collect(p)
    <3>1. n # Own(p)
      BY <1>1, <2>1, <2>4, AheadFacts, StagesAre DEF Collect
    <3> QED BY <1>1, <2>1, <2>2, <2>4, <3>1 DEF Collect, Discard, TypeOK
  <2>5. CASE WriteTmp(p) \/ Rename(p)
    BY <1>1, <2>1, <2>2, <2>5 DEF WriteTmp, Rename, Discard, TypeOK
  <2>6. CASE Prune(p)
    BY <1>1, <2>1, <2>2, <2>6 DEF Prune, TypeOK
  <2>7. CASE Quiet(p) \/ Call(p)
    BY <2>2, <2>7, Frames DEF store
  <2>8. CASE Stamps(p) \/ OpenTmp(p)
    BY <2>2, <2>8 DEF Stamps, OpenManifest, Fill, Swap, OpenTmp
  <2> QED BY <2>3, <2>4, <2>5, <2>6, <2>7, <2>8, StepCases
<1>5. ASSUME NEW q \in Process, NEW n \in Ahead(q, Unopened)'
      PROVE  n # pointer' /\ n # tmp'
  <2>1. n \in Ahead(q, Unopened) /\ n # None
    BY <1>1, <1>5, AheadShrinks, AheadFacts, StagesAre
  <2>2. n # pointer /\ n # tmp
    BY <1>1, <2>1 DEF NameInv
  <2>3. CASE OpenTmp(p)
    <3>1. n # Own(p)
      <4>1. at'[p] = "write" /\ calls' = calls
        BY <1>1, <2>3, Places DEF OpenTmp, request
      <4> QED BY <1>5, <4>1, LeavesAhead, StagesAre
    <3> QED BY <2>2, <2>3, <3>1 DEF OpenTmp
  <2>4. CASE Rename(p)
    BY <2>1, <2>2, <2>4 DEF Rename
  <2>5. CASE Quiet(p) \/ Call(p)
    BY <2>2, <2>5, Frames DEF store
  <2>6. CASE Stamps(p) \/ Enumerate(p) \/ Collect(p) \/ WriteTmp(p) \/ Prune(p)
    BY <2>2, <2>6 DEF Stamps, OpenManifest, Fill, Swap, Enumerate, Collect, WriteTmp, Prune
  <2> QED BY <2>3, <2>4, <2>5, <2>6, StepCases
<1>6. ASSUME NEW q \in Process, NEW n \in Ahead(q, Unwritten)', NEW m \in Name
      PROVE  text'[m] # n
  <2>1. n \in Ahead(q, Unwritten) /\ n # None
    BY <1>1, <1>6, AheadShrinks, AheadFacts, StagesAre
  <2>2. text[m] # n
    BY <1>1, <2>1 DEF NameInv
  <2>3. CASE WriteTmp(p)
    <3>1. CASE text' = text
      BY <2>2, <3>1
    <3>2. CASE text' = [text EXCEPT ![local[p].fd] = Own(p)] /\ at'[p] = "rename"
      <4>1. n # Own(p)
        <5>1. calls' = calls
          BY <2>3 DEF WriteTmp, request
        <5> QED BY <1>6, <3>2, <5>1, LeavesAhead, StagesAre
      <4> QED BY <1>1, <2>2, <3>2, <4>1 DEF TypeOK
    <3> QED BY <1>1, <2>3, <3>1, <3>2, PlaceSet DEF WriteTmp
  <2>4. CASE OpenTmp(p)
    BY <1>1, <2>1, <2>2, <2>4 DEF OpenTmp, TypeOK
  <2>5. CASE Rename(p)
    BY <1>1, <2>1, <2>2, <2>5 DEF Rename, TypeOK
  <2>6. CASE Quiet(p) \/ Call(p)
    BY <2>2, <2>6, Frames DEF store
  <2>7. CASE Stamps(p) \/ Enumerate(p) \/ Collect(p) \/ Prune(p)
    BY <2>2, <2>7 DEF Stamps, OpenManifest, Fill, Swap, Enumerate, Collect, Prune
  <2> QED BY <2>3, <2>4, <2>5, <2>6, <2>7, StepCases
<1>7. pointer' # None => pointer' # tmp'
  <2>1. CASE OpenTmp(p)
    <3>1. Own(p) # pointer
      BY <1>1, <2>1, AheadFacts, StagesAre DEF OpenTmp, NameInv
    <3> QED BY <1>1, <2>1, <3>1 DEF OpenTmp, NameInv
  <2>2. CASE Rename(p)
    BY <1>1, <2>2 DEF Rename, NameInv
  <2>3. CASE Quiet(p) \/ Call(p)
    BY <1>1, <2>3, Frames DEF store, NameInv
  <2>4. CASE Stamps(p) \/ Enumerate(p) \/ Collect(p) \/ WriteTmp(p) \/ Prune(p)
    BY <1>1, <2>4 DEF Stamps, OpenManifest, Fill, Swap, Enumerate, Collect, WriteTmp, Prune, NameInv
  <2> QED BY <2>1, <2>2, <2>3, <2>4, StepCases
<1>8. ASSUME NEW n \in old' PROVE disk'[n] # None
  <2>1. CASE n \in old /\ disk[n] # None
    <3>1. n \in Name
      BY <1>1, <2>1 DEF TypeOK
    <3>2. CASE Collect(p) \/ WriteTmp(p) \/ Rename(p)
      <4>1. n # Own(p)
        BY <1>1, <2>1, <3>2 DEF Collect, WriteTmp, Rename, StageInv, Syncing
      <4> QED BY <1>1, <2>1, <3>1, <3>2, <4>1 DEF Collect, WriteTmp, Rename, Discard, TypeOK
    <3>3. CASE Enumerate(p)
      <4>1. [commit |-> 0, files |-> Empty] # None
        BY EmptyType, ContentAssumption DEF Snapshot
      <4> QED BY <1>1, <2>1, <3>1, <3>3, <4>1 DEF Enumerate, TypeOK
    <3>4. CASE Prune(p)
      BY <1>8, <2>1, <3>1, <3>4 DEF Prune
    <3>5. CASE Quiet(p) \/ Call(p)
      BY <2>1, <3>5, Frames DEF store
    <3>6. CASE Stamps(p) \/ OpenTmp(p)
      BY <2>1, <3>6 DEF Stamps, OpenManifest, Fill, Swap, OpenTmp
    <3> QED BY <3>2, <3>3, <3>4, <3>5, <3>6, StepCases
  <2>2. old' \subseteq old
    <3>1. CASE Quiet(p) \/ Call(p)
      BY <3>1, Frames DEF store
    <3> QED BY <3>1, StepCases DEF Stamps, OpenManifest, Fill, Swap, Enumerate, Collect, OpenTmp, WriteTmp, Rename, Prune
  <2> QED BY <1>1, <1>8, <2>1, <2>2 DEF NameInv
<1> QED BY <1>2, <1>3, <1>4, <1>5, <1>6, <1>7, <1>8 DEF NameInv

(***************************************************************************)
(* Snapshots.                                                              *)
(***************************************************************************)
\* A step changes its own snapshot, or removes an old one.
LEMMA DiskChanges ==
    ASSUME TypeOK, NEW p \in Process, Acts(p)
    PROVE  /\ old' \subseteq old
           /\ \A n \in Name : n # Own(p) => /\ disk'[n] \in {disk[n], None}
                                            /\ n \notin old => disk'[n] = disk[n]
           /\ ~(Enumerate(p) \/ Collect(p) \/ WriteTmp(p) \/ Rename(p)) =>
                 \A n \in Name : /\ disk'[n] \in {disk[n], None}
                                 /\ n \notin old => disk'[n] = disk[n]
<1>1. CASE Quiet(p) \/ Call(p)
  BY <1>1, Frames DEF store
<1>2. CASE Stamps(p) \/ OpenTmp(p)
  BY <1>2 DEF Stamps, OpenManifest, Fill, Swap, OpenTmp
<1>3. CASE Enumerate(p) \/ Collect(p) \/ WriteTmp(p) \/ Rename(p)
  BY <1>3 DEF Enumerate, Collect, WriteTmp, Rename, Discard, TypeOK
<1>4. CASE Prune(p)
  BY <1>4 DEF Prune, Prunable
<1> QED BY <1>1, <1>2, <1>3, <1>4, StepCases

\* The documents collected are all the commit has.
LEMMA CollectedComplete ==
    ASSUME TypeOK, NEW p \in Process, local[p].commit # 0, NEW n \in Name, n # None,
           disk' = [disk EXCEPT ![n] = [commit |-> local[p].commit, files |-> Collected(p)]]
    PROVE  Complete(n)'
<1> DEFINE s == [commit |-> local[p].commit, files |-> Collected(p)]
<1>1. disk'[n] = s /\ s.commit = local[p].commit /\ s.files = Collected(p)
  BY DEF TypeOK
<1>2. s # None
  <2>1. local[p].commit \in Commit \cup {0}
    BY DEF TypeOK, Local
  <2>2. s \in Snapshot
    BY <2>1, CollectedType DEF Snapshot
  <2> QED BY <2>2, ContentAssumption
<1>3. \A f \in File : Corpus[local[p].commit][f] # None => Collected(p)[f] # None
  BY DEF Collected
<1> HIDE DEF s
<1>4. n # None /\ disk'[n] # None /\ disk'[n].commit # 0
  BY <1>1, <1>2
<1>5. \A f \in File : Corpus[disk'[n].commit][f] # None => disk'[n].files[f] # None
  BY <1>1, <1>3
<1> QED BY <1>4, <1>5 DEF Complete, Published, Lists

\* A snapshot whose directory stays as it is stays whole.
LEMMA CompleteKept ==
    ASSUME NEW n, disk'[n] = disk[n], Complete(n)
    PROVE  Complete(n)'
  BY DEF Complete, Published, Lists

LEMMA StageKeepsStep ==
    ASSUME CacheInv, NEW p \in Process, Acts(p), TypeOK'
    PROVE  StageInv'
<1>1. TypeOK /\ NameInv /\ StageInv /\ SourceInv
  BY DEF CacheInv
<1>2. old' \subseteq old
  BY <1>1, DiskChanges
<1>3. ASSUME NEW q \in Process, q # p
      PROVE  /\ at'[q] \in Syncing => Own(q)' \notin old'
             /\ at'[q] = "collect" => disk'[Own(q)'] # None /\ disk'[Own(q)'].commit = 0
             /\ at'[q] \in {"open", "write", "rename"} => \A n : n = Own(q)' => Complete(n)'
  <2>1. at'[q] = at[q] /\ Own(q)' = Own(q)
    BY <1>1, <1>3, Others DEF Own
  <2>2. CASE at[q] \notin Syncing
    BY <2>1, <2>2 DEF Syncing
  <2>3. CASE at[q] \in Syncing
    <3>1. Own(q) \in Name /\ Own(q) \notin old
      BY <1>1, <2>3, OwnNameOf DEF StageInv, Syncing
    <3>2. disk'[Own(q)] = disk[Own(q)]
      BY <1>1, <1>3, <3>1, DiskChanges, OwnDistinct
    <3> QED BY <1>1, <1>2, <2>1, <3>1, <3>2, CompleteKept DEF StageInv
  <2> QED BY <2>2, <2>3
<1>4. /\ at'[p] \in Syncing => Own(p)' \notin old'
      /\ at'[p] = "collect" => disk'[Own(p)'] # None /\ disk'[Own(p)'].commit = 0
      /\ at'[p] \in {"open", "write", "rename"} => \A n : n = Own(p)' => Complete(n)'
  <2>1. CASE at'[p] \notin Syncing
    BY <2>1 DEF Syncing
  <2>2. CASE Enumerate(p)
    <3>1. Own(p)' = Own(p) /\ Own(p) \in Name /\ at'[p] = "collect"
      BY <1>1, <2>2, OwnNameOf, Places DEF Enumerate, Own, request
    <3>2. Own(p) \notin old
      BY <1>1, <2>2, AheadFacts, StagesAre DEF Enumerate, NameInv
    <3>3. [commit |-> 0, files |-> Empty] # None
      BY EmptyType, ContentAssumption DEF Snapshot
    <3>4. disk'[Own(p)] = [commit |-> 0, files |-> Empty]
      BY <1>1, <2>2, <3>1 DEF Enumerate, TypeOK
    <3> QED BY <1>2, <3>1, <3>2, <3>3, <3>4
  <2>3. CASE Collect(p) /\ at'[p] \in Syncing
    <3>1. Own(p)' = Own(p) /\ Own(p) \in Name /\ Own(p) # None /\ at'[p] = "open"
      BY <1>1, <2>3, OwnNameOf, Places DEF Collect, Own, request, Syncing
    <3>2. disk' = [disk EXCEPT ![Own(p)] = [commit |-> local[p].commit, files |-> Collected(p)]]
      BY <1>1, <2>3, <3>1, PlaceSet DEF Collect, Discard
    <3>3. local[p].commit # 0 /\ Own(p) \notin old
      BY <1>1, <2>3 DEF Collect, SourceInv, StageInv, Syncing
    <3>4. \A n : n = Own(p) => Complete(n)'
      BY <1>1, <3>1, <3>2, <3>3, CollectedComplete
    <3> QED BY <1>2, <3>1, <3>3, <3>4
  <2>4. CASE (OpenTmp(p) \/ WriteTmp(p) \/ Rename(p)) /\ at'[p] \in Syncing
    <3>1. Own(p)' = Own(p) /\ at[p] \in {"open", "write", "rename"} /\ at'[p] \in {"write", "rename", "prune"}
      BY <1>1, <2>4, Places DEF OpenTmp, WriteTmp, Rename, Own, request, Syncing
    <3>2. disk' = disk
      BY <1>1, <2>4, <3>1, PlaceSet DEF OpenTmp, WriteTmp, Rename, Discard
    <3> QED BY <1>1, <1>2, <3>1, <3>2, CompleteKept DEF StageInv, Syncing
  <2>5. CASE Quiet(p) \/ Call(p) \/ Stamps(p) \/ Prune(p)
    BY <1>1, <2>1, <2>5, Places DEF Syncing, Stamps
  <2> QED BY <2>1, <2>2, <2>3, <2>4, <2>5, StepCases
<1>5. ASSUME NEW q \in Process
      PROVE  /\ at'[q] \in Syncing => Own(q)' \notin old'
             /\ at'[q] = "collect" => disk'[Own(q)'] # None /\ disk'[Own(q)'].commit = 0
             /\ at'[q] \in {"open", "write", "rename"} => \A n : n = Own(q)' => Complete(n)'
  BY <1>3, <1>4
<1> QED BY <1>5 DEF StageInv, Complete, Published, Lists

(***************************************************************************)
(* The pointer.                                                            *)
(***************************************************************************)
\* Only the write of the pointer file and its renaming change what is current.
LEMMA CurrentChanges ==
    ASSUME TypeOK, NameInv, NEW p \in Process, Acts(p)
    PROVE  /\ ~WriteTmp(p) /\ ~Rename(p) => CurrentName' = CurrentName
           /\ WriteTmp(p) /\ local[p].fd # pointer => CurrentName' = CurrentName
           /\ Rename(p) /\ tmp = None => CurrentName' = CurrentName
           /\ Rename(p) /\ tmp # None => pointer' = tmp /\ CurrentName' = text[tmp]
<1>1. ASSUME OpenTmp(p) PROVE CurrentName' = CurrentName
  <2>1. Own(p) # pointer /\ Own(p) # None
    BY <1>1, OwnNameOf, AheadFacts, StagesAre DEF OpenTmp, NameInv
  <2>2. pointer # None => tmp' # pointer
    BY <1>1, <2>1 DEF OpenTmp, NameInv
  <2> QED BY <1>1, <2>2 DEF OpenTmp, CurrentName, TypeOK
<1>2. ASSUME Quiet(p) \/ Call(p) PROVE CurrentName' = CurrentName
  BY <1>2, Frames DEF store, CurrentName
<1>3. ASSUME Stamps(p) \/ Enumerate(p) \/ Collect(p) \/ Prune(p) PROVE CurrentName' = CurrentName
  BY <1>3 DEF Stamps, OpenManifest, Fill, Swap, Enumerate, Collect, Prune, CurrentName
<1>4. ASSUME WriteTmp(p), local[p].fd # pointer PROVE CurrentName' = CurrentName
  BY <1>4 DEF WriteTmp, CurrentName, TypeOK
<1>5. ASSUME Rename(p), tmp = None PROVE CurrentName' = CurrentName
  BY <1>5 DEF Rename, CurrentName
<1>6. ASSUME Rename(p), tmp # None PROVE pointer' = tmp /\ CurrentName' = text[tmp]
  BY <1>6 DEF Rename, CurrentName, TypeOK, NameInv
<1> QED BY <1>1, <1>2, <1>3, <1>4, <1>5, <1>6, StepCases

\* What is current was written by a sync that had completed its snapshot.
LEMMA CurrentNotAhead ==
    ASSUME TypeOK, NameInv, pointer # None, NEW p \in Process, at[p] \in Unwritten
    PROVE  CurrentName # Own(p)
  BY AheadFacts, StagesAre DEF NameInv, CurrentName, TypeOK

\* The files open for writing and tmp, after a step without a clash.
LEMMA WritersKeep ==
    ASSUME CacheInv, NEW p \in Process, Acts(p), TypeOK', ~clash'
    PROVE  /\ ~clash
           /\ \A q, r \in Process : {at'[q], at'[r]} \subseteq {"write", "rename"} => q = r
           /\ \A q \in Process :
                 /\ at'[q] \in {"write", "rename"} => tmp' # None /\ local'[q].fd = tmp'
                 /\ at'[q] = "rename" => text'[tmp'] = Own(q)'
<1>1. TypeOK /\ NameInv /\ PointerInv
  BY DEF CacheInv
<1>2. ~clash
  <2>1. CASE Quiet(p) \/ Call(p)
    BY <2>1, Frames DEF history
  <2> QED BY <2>1, StepCases DEF Stamps, OpenManifest, Fill, Swap, Enumerate, Collect, OpenTmp, WriteTmp, Rename, Prune, history
<1>3. \A q, r \in Process : {at[q], at[r]} \subseteq {"write", "rename"} => q = r
  BY <1>1, <1>2 DEF PointerInv
<1>4. \A q \in Process :
         /\ at[q] \in {"write", "rename"} => tmp # None /\ local[q].fd = tmp
         /\ at[q] = "rename" => text[tmp] = Own(q)
  BY <1>1, <1>2 DEF PointerInv
<1>5. \A q \in Process : q # p => /\ at'[q] = at[q] /\ local'[q] = local[q]
                                  /\ Own(q)' = Own(q)
  BY <1>1, Others DEF Own
<1>6. CASE OpenTmp(p)
  <2>1. at'[p] = "write" /\ \A q \in Process : at[q] \notin {"write", "rename"}
    BY <1>1, <1>6, Places DEF OpenTmp
  <2>2. tmp' # None
    BY <1>1, <1>6, OwnNameOf DEF OpenTmp
  <2>3. local'[p].fd = tmp'
    <3>1. local[p] \in Local /\ tmp' \in Name \cup {None}
      BY <1>1 DEF TypeOK
    <3>2. local'[p] = [local[p] EXCEPT !.fd = tmp']
      BY <1>1, <1>6 DEF OpenTmp, ContinuesWith, TypeOK
    <3> QED BY <3>1, <3>2 DEF Local
  <2> QED BY <1>2, <1>5, <2>1, <2>2, <2>3
<1>7. CASE WriteTmp(p)
  <2>1. at[p] = "write" /\ at'[p] \in {"rename", "idle"} /\ tmp' = tmp /\ Own(p)' = Own(p)
    BY <1>1, <1>7, Places DEF WriteTmp, Own, request
  <2>2. \A q \in Process : q # p => at'[q] \notin {"write", "rename"}
    BY <1>3, <1>5, <2>1
  <2>3. ASSUME at'[p] = "rename"
        PROVE  tmp' # None /\ local'[p].fd = tmp' /\ text'[tmp'] = Own(p)'
    <3>1. text' = [text EXCEPT ![local[p].fd] = Own(p)] /\ local'[p] = local[p]
      BY <1>1, <1>7, <2>3, PlaceSet DEF WriteTmp, Discard, Continues, ContinuesWith, TypeOK
    <3> QED BY <1>1, <1>4, <2>1, <3>1 DEF TypeOK
  <2> QED BY <1>2, <2>1, <2>2, <2>3
<1>8. CASE Rename(p)
  <2>1. at[p] = "rename" /\ at'[p] \in {"prune", "idle"}
    BY <1>1, <1>8, Places
  <2> QED BY <1>2, <1>3, <1>5, <2>1
<1>9. CASE Quiet(p) \/ Call(p) \/ Stamps(p) \/ Enumerate(p) \/ Collect(p) \/ Prune(p)
  <2>1. at'[p] \notin {"write", "rename"}
    BY <1>1, <1>9, Places DEF Syncing, Stamps
  <2>2. UNCHANGED <<text, tmp>>
    BY <1>9, Frames DEF store, Stamps, OpenManifest, Fill, Swap, Enumerate, Collect, Prune
  <2> QED BY <1>2, <1>3, <1>4, <1>5, <2>1, <2>2
<1> QED BY <1>6, <1>7, <1>8, <1>9, StepCases

\* Without a clash, what is current is what it was, and whole, until the pointer
\* is renamed.
LEMMA NamedKeeps ==
    ASSUME TypeOK, NameInv, PointerInv, ~clash, NEW p \in Process, Acts(p), ~Rename(p)
    PROVE  CurrentName' = CurrentName /\ pointer' = pointer
<1>1. CASE WriteTmp(p)
  <2>1. local[p].fd # pointer
    BY <1>1, Places DEF PointerInv, NameInv
  <2> QED BY <1>1, <2>1, CurrentChanges DEF WriteTmp
<1>2. CASE ~WriteTmp(p)
  <2>1. pointer' = pointer
    BY <1>2, StepCases, Frames DEF store, Stamps, OpenManifest, Fill, Swap, Enumerate, Collect, OpenTmp, Prune
  <2> QED BY <1>2, <2>1, CurrentChanges
<1> QED BY <1>1, <1>2

LEMMA CurrentWhole ==
    ASSUME TypeOK, NameInv, PointerInv, ~clash, NEW p \in Process, Acts(p), ~Rename(p), pointer # None
    PROVE  disk'[CurrentName] = disk[CurrentName] /\ Complete(CurrentName)
<1>1. Complete(CurrentName)
  BY DEF PointerInv
<1>2. CurrentName \in Name
  BY <1>1, CurrentFacts DEF Complete, Published
<1>3. CASE Prune(p)
  BY <1>1, <1>2, <1>3 DEF PointerInv, Prune, Prunable
<1>4. CASE Enumerate(p) \/ Collect(p) \/ WriteTmp(p)
  <2>1. CurrentName # Own(p)
    BY <1>4, Places, CurrentNotAhead, StagesAre
  <2> QED BY <1>1, <1>2, <1>4, <2>1 DEF Enumerate, Collect, WriteTmp, Discard, TypeOK
<1>5. CASE Quiet(p) \/ Call(p)
  BY <1>1, <1>5, Frames DEF store
<1>6. CASE Stamps(p) \/ OpenTmp(p)
  BY <1>1, <1>6 DEF Stamps, OpenManifest, Fill, Swap, OpenTmp
<1> QED BY <1>1, <1>3, <1>4, <1>5, <1>6, StepCases

LEMMA PointerKeepsStep ==
    ASSUME CacheInv, NEW p \in Process, Acts(p), TypeOK'
    PROVE  PointerInv'
<1> SUFFICES ASSUME ~clash'
             PROVE  /\ \A q \in Process : at'[q] = "prune" => CurrentName' \notin old'
                    /\ pointer' # None => \A n : n = CurrentName' => Complete(n)'
  BY WritersKeep DEF PointerInv, Complete, Published, Lists
<1>1. TypeOK /\ NameInv /\ StageInv /\ PointerInv /\ ~clash
  BY WritersKeep DEF CacheInv
<1>2. old' \subseteq old
  BY <1>1, DiskChanges
<1>3. \A q \in Process : q # p => at'[q] = at[q]
  BY <1>1, Others
<1>4. CASE Rename(p)
  <2>1. at[p] = "rename" /\ tmp # None /\ text[tmp] = Own(p)
    BY <1>1, <1>4, Places DEF PointerInv
  <2>2. pointer' = tmp /\ CurrentName' = Own(p) /\ disk' = disk
    BY <1>1, <1>4, <2>1, CurrentChanges DEF Rename
  <2>3. Own(p) \notin old /\ Complete(Own(p))
    BY <1>1, <2>1 DEF StageInv, Syncing
  <2> QED BY <1>2, <2>2, <2>3, CompleteKept
<1>5. CASE ~Rename(p)
  <2>1. CurrentName' = CurrentName /\ pointer' = pointer
    BY <1>1, <1>5, NamedKeeps
  <2>2. \A q \in Process : at'[q] = "prune" => at[q] = "prune"
    BY <1>1, <1>3, <1>5, Places, StepCases DEF Syncing, Stamps
  <2>3. pointer # None => disk'[CurrentName] = disk[CurrentName] /\ Complete(CurrentName)
    BY <1>1, <1>5, CurrentWhole
  <2> QED BY <1>1, <1>2, <2>1, <2>2, <2>3, CompleteKept DEF PointerInv
<1> QED BY <1>4, <1>5

(***************************************************************************)
(* The snapshot a sync copies from.                                        *)
(***************************************************************************)
\* Once complete, a snapshot only disappears.
LEMMA CompleteStays ==
    ASSUME TypeOK, NameInv, NEW p \in Process, Acts(p),
           NEW n \in Name, \A q \in Process : n \notin Ahead(q, Incomplete)
    PROVE  disk'[n] \in {disk[n], None}
<1>1. CASE Enumerate(p) \/ Collect(p)
  <2>1. n # Own(p)
    BY <1>1, Places, AheadFacts, StagesAre
  <2> QED BY <2>1, DiskChanges
<1>2. CASE WriteTmp(p) \/ Rename(p)
  BY <1>2 DEF WriteTmp, Rename, Discard, TypeOK
<1> QED BY <1>1, <1>2, DiskChanges

\* A snapshot that is published is complete.
LEMMA PublishedComplete ==
    ASSUME TypeOK, NameInv, StageInv, NEW n, Published(n), NEW q \in Process
    PROVE  n \notin Ahead(q, Incomplete)
<1>1. SUFFICES ASSUME n \in Ahead(q, Incomplete) PROVE FALSE
  OBVIOUS
<1>2. n \in Ahead(q, Unstarted) \/ (n = Own(q) /\ at[q] = "collect")
  BY <1>1 DEF Ahead, Incomplete
<1>3. CASE n \in Ahead(q, Unstarted)
  BY <1>3 DEF NameInv, Published
<1>4. CASE n = Own(q) /\ at[q] = "collect"
  BY <1>4 DEF StageInv, Published
<1> QED BY <1>2, <1>3, <1>4

LEMMA MixedStays ==
    ASSUME TypeOK, NEW p \in Process, Acts(p), ~mixed'
    PROVE  ~mixed
<1>1. CASE Quiet(p) \/ Call(p)
  BY <1>1, Frames DEF history
<1> QED BY <1>1, StepCases DEF Stamps, OpenManifest, Fill, Swap, Enumerate, Collect, OpenTmp, WriteTmp, Rename, Prune, history

\* How a step gets to the places where a sync goes by what it loaded.
LEMMA SourcePlaces ==
    ASSUME TypeOK, NEW p \in Process, Acts(p), at'[p] \in {"load", "touch", "enumerate", "collect"}
    PROVE  ResolveCommit(p) \/ Load(p) \/ Enumerate(p)
<1>1. CASE Quiet(p)
  <2>1. ~(Fails(p) \/ Get(p))
    BY PlaceSet DEF Fails, Get
  <2>2. ~(Generation(p) \/ Pin(p) \/ Retry(p))
    BY PlaceSet DEF Generation, Pin, Retry
  <2>3. ~(Sections(p) \/ Parse(p) \/ Recheck(p))
    BY PlaceSet DEF Sections, Parse, Recheck
  <2>4. ~EnsureCache(p)
    BY PlaceSet DEF EnsureCache, FirstRead
  <2>5. ~Kill(p) /\ ~Touch(p)
    BY PlaceSet DEF Kill, Touch, TypeOK
  <2> QED BY <1>1, <2>1, <2>2, <2>3, <2>4, <2>5 DEF Quiet
<1> QED BY <1>1, Places, StepCases DEF Stamps

SourceOf(p) ==
    /\ at[p] \in {"load", "touch", "enumerate", "collect"} => local[p].commit # 0
    /\ at[p] \in {"touch", "enumerate", "collect"} /\ local[p].loaded # None =>
          /\ \A q \in Process : local[p].loaded \notin Ahead(q, Incomplete)
          /\ disk[local[p].loaded] # None => disk[local[p].loaded].commit = local[p].prev
    /\ at[p] = "collect" /\ ~mixed => local[p].from \in {None, local[p].loaded}

\* A sync that goes on to collect has what it loaded.
LEMMA LoadedKeeps ==
    ASSUME TypeOK, NameInv, NEW p \in Process, Acts(p), NEW n \in Name, NEW prev,
           \A q \in Process : n \notin Ahead(q, Incomplete),
           disk[n] # None => disk[n].commit = prev
    PROVE  /\ \A q \in Process : n \notin Ahead(q, Incomplete)'
           /\ disk'[n] # None => disk'[n].commit = prev
<1>1. disk'[n] \in {disk[n], None}
  BY CompleteStays
<1> QED BY <1>1, AheadShrinks, StagesAre

LEMMA SourceKeepsStep ==
    ASSUME CacheInv, NEW p \in Process, Acts(p), TypeOK'
    PROVE  SourceInv'
<1>1. TypeOK /\ NameInv /\ StageInv
  BY DEF CacheInv
<1>2. \A q \in Process : SourceOf(q) /\ local[q] \in Local
  BY DEF CacheInv, SourceInv, SourceOf, TypeOK
<1>3. ~mixed' => ~mixed
  BY <1>1, MixedStays
<1>4. ASSUME NEW q \in Process, q # p
      PROVE  SourceOf(q)'
  <2>1. at'[q] = at[q] /\ local'[q] = local[q]
    BY <1>1, <1>4, Others
  <2>2. local[q].loaded # None => local[q].loaded \in Name
    BY <1>2 DEF Local
  <2>3. at[q] \in {"touch", "enumerate", "collect"} /\ local[q].loaded # None =>
          /\ \A r \in Process : local[q].loaded \notin Ahead(r, Incomplete)'
          /\ disk'[local[q].loaded] # None => disk'[local[q].loaded].commit = local[q].prev
    BY <1>1, <1>2, <2>2, LoadedKeeps DEF SourceOf
  <2> QED BY <1>2, <1>3, <2>1, <2>3 DEF SourceOf
<1>5. SourceOf(p)'
  <2>1. CASE at'[p] \notin {"load", "touch", "enumerate", "collect"}
    BY <2>1 DEF SourceOf
  <2>2. CASE ResolveCommit(p)
    <3>1. at'[p] = "load" /\ local'[p] = [local[p] EXCEPT !.commit = head]
      BY <1>1, <2>2 DEF ResolveCommit, ContinuesWith, TypeOK
    <3>2. local'[p].commit = head /\ head # 0
      BY <1>1, <1>2, <3>1, DocsCacheAssumption DEF Local, TypeOK
    <3> QED BY <3>1, <3>2 DEF SourceOf
  <2>3. CASE Load(p)
    <3> DEFINE loaded == IF Current # None /\ Readable(Current) THEN Current ELSE None
               commit == IF loaded = None THEN 0 ELSE disk[loaded].commit
    <3>1. local'[p] = [local[p] EXCEPT !.loaded = loaded, !.prev = commit]
      BY <1>1, <2>3 DEF Load, ContinuesWith, TypeOK
    <3>2. loaded # None => loaded = Current /\ Published(loaded) /\ loaded \in Name /\ disk[loaded].commit = commit
      BY <1>1, CurrentFacts
    <3> HIDE DEF loaded, commit
    <3>3. local'[p].commit = local[p].commit /\ local'[p].loaded = loaded /\ local'[p].prev = commit
      BY <1>2, <3>1 DEF Local
    <3>4. at[p] = "load" /\ at'[p] \in {"touch", "enumerate"} /\ UNCHANGED <<disk, calls>>
      BY <1>1, <2>3, PlaceSet DEF Load, store, request
    <3>5. ASSUME NEW n, n = loaded, n # None
          PROVE  /\ \A q \in Process : n \notin Ahead(q, Incomplete)'
                 /\ disk'[n] # None => disk'[n].commit = commit
      BY <1>1, <3>2, <3>5, PublishedComplete, LoadedKeeps
    <3> QED BY <1>2, <3>3, <3>4, <3>5 DEF SourceOf
  <2>4. CASE Enumerate(p)
    <3> DEFINE source == IF local[p].prev = 0 THEN None ELSE Current
    <3>1. local'[p] = [local[p] EXCEPT !.from = source]
      BY <1>1, <2>4 DEF Enumerate, ContinuesWith, TypeOK
    <3>2. mixed' = (mixed \/ (source # None /\ source # local[p].loaded))
      BY <2>4 DEF Enumerate
    <3> HIDE DEF source
    <3>3. /\ local'[p].commit = local[p].commit /\ local'[p].loaded = local[p].loaded
          /\ local'[p].prev = local[p].prev /\ local'[p].from = source
      BY <1>2, <3>1 DEF Local
    <3>4. at[p] = "enumerate" /\ at'[p] = "collect"
      BY <1>1, <2>4, Places
    <3>5. local[p].loaded # None => local[p].loaded \in Name
      BY <1>2 DEF Local
    <3>6. local[p].loaded # None =>
            /\ \A r \in Process : local[p].loaded \notin Ahead(r, Incomplete)'
            /\ disk'[local[p].loaded] # None => disk'[local[p].loaded].commit = local[p].prev
      BY <1>1, <1>2, <3>4, <3>5, LoadedKeeps DEF SourceOf
    <3> QED BY <1>2, <3>2, <3>3, <3>4, <3>6 DEF SourceOf
  <2> QED BY <1>1, <2>1, <2>2, <2>3, <2>4, SourcePlaces
<1> QED BY <1>4, <1>5 DEF SourceInv, SourceOf

\* The documents collected are those of the commit, unless they came from
\* another snapshot than the one loaded.
LEMMA CollectedTrue ==
    ASSUME CacheInv, ~mixed, NEW p \in Process, at[p] = "collect"
    PROVE  Collected(p) = Corpus[local[p].commit]
<1>1. TypeOK /\ SourceInv /\ ReuseTrue /\ local[p] \in Local
  BY DEF CacheInv, TypeOK
<1>2. local[p].commit \in Commit /\ local[p].from \in Name \cup {None}
  BY <1>1 DEF SourceInv, Local
<1>3. ASSUME NEW f \in File, Reuses(local[p], f), local[p].from # None, disk[local[p].from] # None
      PROVE  disk[local[p].from].files[f] = Corpus[local[p].commit][f]
  <2>1. local[p].from = local[p].loaded
    BY <1>1, <1>3 DEF SourceInv
  <2>2. disk[local[p].from].commit = local[p].prev /\ local[p].prev # 0
    BY <1>1, <1>3, <2>1 DEF SourceInv, Reuses
  <2>3. Published(local[p].from)
    BY <1>3, <2>2 DEF Published
  <2>4. disk[local[p].from].files = Corpus[local[p].prev]
    BY <1>1, <1>2, <1>3, <2>2, <2>3 DEF ReuseTrue
  <2> QED BY <1>3, <2>4 DEF Reuses
<1>4. Collected(p) = [f \in File |-> Corpus[local[p].commit][f]]
  BY <1>3 DEF Collected
<1> QED BY <1>2, <1>4, DocsCacheAssumption

LEMMA ReuseKeepsStep ==
    ASSUME CacheInv, NEW p \in Process, Acts(p), TypeOK'
    PROVE  ReuseTrue'
<1> SUFFICES ASSUME NEW n \in Name, ~mixed', disk'[n] # None, disk'[n].commit # 0, n # None
             PROVE  disk'[n].files = Corpus[disk'[n].commit]
  BY DEF ReuseTrue, Published
<1>1. TypeOK /\ NameInv /\ ReuseTrue /\ ~mixed
  BY MixedStays DEF CacheInv
<1>2. CASE disk'[n] \in {disk[n], None}
  BY <1>1, <1>2 DEF ReuseTrue, Published
<1>3. CASE Enumerate(p) /\ n = Own(p)
  BY <1>1, <1>3 DEF Enumerate, TypeOK
<1>4. CASE Collect(p) /\ n = Own(p)
  <2>1. CASE disk'[n] = None
    BY <1>1, <2>1
  <2>2. CASE disk' = [disk EXCEPT ![Own(p)] = [commit |-> local[p].commit, files |-> Collected(p)]]
    <3>1. disk'[n].files = Collected(p) /\ disk'[n].commit = local[p].commit
      BY <1>1, <1>4, <2>2 DEF TypeOK
    <3> QED BY <1>1, <1>4, <3>1, CollectedTrue DEF Collect
  <2> QED BY <1>1, <1>4, <2>1, <2>2 DEF Collect, Discard, TypeOK
<1>5. CASE WriteTmp(p) \/ Rename(p)
  <2>1. disk'[n] \in {disk[n], None}
    BY <1>1, <1>5 DEF WriteTmp, Rename, Discard, TypeOK
  <2> QED BY <1>2, <2>1
<1> QED BY <1>1, <1>2, <1>3, <1>4, <1>5, DiskChanges

(***************************************************************************)
(* Indexes.                                                                *)
(***************************************************************************)
LEMMA LocalSet ==
    ASSUME TypeOK, NEW p \in Process
    PROVE  /\ \A how : Ends(p, how) => local'[p] = Nothing /\ outcome'[p] = how
           /\ \A place, what : ContinuesWith(p, place, what) => local'[p] = what /\ at'[p] = place
           /\ \A place : Continues(p, place) => local'[p] = local[p] /\ at'[p] = place
           /\ Synced(p) => /\ local'[p] = Nothing
                           /\ op[p] = "search" => at'[p] = "generation"
                           /\ op[p] = "sync" => at'[p] = "idle" /\ outcome'[p] = "ok"
           /\ Again(p) => /\ local'[p].built \in {local[p].built, None}
                          /\ at'[p] = "sections" \/ outcome'[p] = "failed"
<1>1. Again(p) => /\ local'[p].built \in {local[p].built, None}
                  /\ at'[p] = "sections" \/ outcome'[p] = "failed"
  <2>1. local[p] \in Local
    BY DEF TypeOK
  <2>2. ASSUME ContinuesWith(p, "sections", [local[p] EXCEPT !.gen = CurrentName, !.tries = @ + 1])
        PROVE  local'[p].built = local[p].built /\ at'[p] = "sections"
    BY <2>1, <2>2 DEF ContinuesWith, TypeOK, Local
  <2> QED BY <2>2 DEF Again, Ends, TypeOK, Nothing
<1>2. FirstRead(p) = IF op[p] = "search" THEN "generation" ELSE "pin"
  BY DEF FirstRead
<1> QED BY <1>1, <1>2 DEF Ends, ContinuesWith, Continues, Synced, TypeOK

\* Only Parse builds an index.
LEMMA BuiltKeeps ==
    ASSUME TypeOK, NEW p \in Process, Acts(p), ~Parse(p)
    PROVE  local'[p].built \in {local[p].built, None} /\ at'[p] # "recheck"
<1>1. local[p] \in Local /\ Nothing.built = None
  BY DEF TypeOK, Nothing
<1>2. CASE EnsureCache(p) \/ Fails(p) \/ Retry(p) \/ Get(p) \/ Recheck(p)
  <2>1. EnsureCache(p) => local'[p].built \in {local[p].built, None} /\ at'[p] # "recheck"
    <3>1. FirstRead(p) \in {"generation", "pin"}
      BY DEF FirstRead
    <3> QED BY <1>1, <3>1, LocalSet, PlaceSet DEF EnsureCache
  <2>2. Fails(p) \/ Get(p) => local'[p].built \in {local[p].built, None} /\ at'[p] # "recheck"
    BY <1>1, LocalSet, PlaceSet DEF Fails, Get
  <2>3. Retry(p) \/ Recheck(p) => local'[p].built \in {local[p].built, None} /\ at'[p] # "recheck"
    BY <1>1, LocalSet, PlaceSet DEF Retry, Recheck
  <2> QED BY <1>2, <2>1, <2>2, <2>3
<1>3. CASE ResolveCommit(p) \/ Sections(p) \/ Pin(p) \/ Generation(p)
  <2>1. ResolveCommit(p) => local'[p].built = local[p].built /\ at'[p] = "load"
    BY <1>1, LocalSet DEF ResolveCommit, Local
  <2>2. Sections(p) => local'[p].built = local[p].built /\ at'[p] \in {"parse", "retry"}
    BY <1>1, LocalSet DEF Sections, Local
  <2>3. Pin(p) => local'[p].built \in {local[p].built, None} /\ at'[p] \in {"get", "idle"}
    BY <1>1, LocalSet, PlaceSet DEF Pin, Local
  <2>4. Generation(p) => local'[p].built \in {local[p].built, None} /\ at'[p] \in {"sections", "idle"}
    <3> DEFINE l == [local[p] EXCEPT !.gen = CurrentName, !.tries = 1]
    <3>1. l.built = local[p].built
      BY <1>1 DEF Local
    <3>2. Generation(p) => Ends(p, "failed") \/ Ends(p, "ok") \/ ContinuesWith(p, "sections", l)
      BY DEF Generation
    <3> HIDE DEF l
    <3> QED BY <1>1, <3>1, <3>2, LocalSet, PlaceSet
  <2> QED BY <1>3, <2>1, <2>2, <2>3, <2>4
<1>4. CASE Load(p)
  <2> DEFINE loaded == IF Current # None /\ Readable(Current) THEN Current ELSE None
             commit == IF loaded = None THEN 0 ELSE disk[loaded].commit
  <2>1. local'[p] = [local[p] EXCEPT !.loaded = loaded, !.prev = commit] /\ at'[p] \in {"touch", "enumerate"}
    BY <1>4, LocalSet DEF Load
  <2> HIDE DEF loaded, commit
  <2> QED BY <1>1, <2>1 DEF Local
<1>5. CASE Call(p)
  <2>1. PICK f \in BOOLEAN : local' = [local EXCEPT ![p] = [local[p] EXCEPT !.force = f]]
    BY <1>5 DEF Call
  <2>2. local'[p] = [local[p] EXCEPT !.force = f]
    BY <2>1 DEF TypeOK
  <2>3. local'[p].built = local[p].built
    BY <1>1, <2>2 DEF Local
  <2> QED BY <1>5, <2>3, Places
<1>6. CASE Kill(p)
  BY <1>1, <1>6 DEF Kill, TypeOK
<1>7. CASE Enumerate(p)
  <2> DEFINE source == IF local[p].prev = 0 THEN None ELSE Current
  <2>1. local'[p] = [local[p] EXCEPT !.from = source] /\ at'[p] = "collect"
    BY <1>7, LocalSet DEF Enumerate
  <2> HIDE DEF source
  <2> QED BY <1>1, <2>1 DEF Local
<1>8. CASE OpenTmp(p)
  <2>1. local'[p] = [local[p] EXCEPT !.fd = tmp'] /\ at'[p] = "write"
    BY <1>8, LocalSet DEF OpenTmp
  <2> QED BY <1>1, <2>1 DEF Local
<1>9. CASE Fill(p) \/ Swap(p) \/ Collect(p) \/ WriteTmp(p) \/ Rename(p) \/ Prune(p)
  <2>1. local'[p] \in {local[p], Nothing}
    BY <1>9, LocalSet DEF Fill, Swap, Collect, WriteTmp, Rename, Prune, Discard
  <2> QED BY <1>1, <1>9, <2>1, Places
<1>10. CASE Touch(p)
  <2>1. Ends(p, "failed") \/ local'[p] = [Nothing EXCEPT !.pin = Current]
    BY <1>10, LocalSet DEF Touch
  <2>2. [Nothing EXCEPT !.pin = Current].built = None
    BY DEF Nothing
  <2> QED BY <1>1, <1>10, <2>1, <2>2, LocalSet, Places
<1>11. CASE OpenManifest(p)
  <2> DEFINE file == IF renewed[local[p].pin] = None THEN Own(p) ELSE renewed[local[p].pin]
             l == [local[p] EXCEPT !.fd = file]
  <2>1. Ends(p, "failed") \/ local'[p] = l
    BY <1>11, LocalSet DEF OpenManifest
  <2> HIDE DEF file
  <2>2. l.built = local[p].built
    BY <1>1 DEF Local
  <2> QED BY <1>1, <1>11, <2>1, <2>2, LocalSet, Places
<1> QED BY <1>2, <1>3, <1>4, <1>5, <1>6, <1>7, <1>8, <1>9, <1>10, <1>11, StepCases DEF Quiet, Stamps

\* Only Recheck keeps an index, the one built; a process that is killed loses its own.
LEMMA IndexSet ==
    ASSUME TypeOK, NEW p \in Process, Acts(p)
    PROVE  \/ index' = index
           \/ /\ Recheck(p) /\ CurrentName = local[p].built.gen
              /\ index' = [index EXCEPT ![p] = local[p].built]
           \/ index' = [index EXCEPT ![p] = None]
<1>1. CASE Recheck(p)
  BY <1>1 DEF Recheck, StillCurrent
<1>2. CASE Kill(p)
  BY <1>2 DEF Kill
<1> QED BY <1>1, <1>2, StepCases DEF Quiet, EnsureCache, Fails, ResolveCommit, Load, Touch, Generation, Sections, Parse,
       Retry, Pin, Get, Call, Stamps, OpenManifest, Fill, Swap, Enumerate, Collect, OpenTmp, WriteTmp, Rename, Prune

\* What Parse builds is as its snapshot's commit has it.
LEMMA ParseBuilds ==
    ASSUME CacheInv, NEW p \in Process, Parse(p), at'[p] = "recheck" \/ local'[p].built # local[p].built
    PROVE  \E x \in Index : local'[p].built = x /\ BuiltFrom(x)
<1> DEFINE n == local[p].pin
           i == [gen |-> n, commit |-> disk[n].commit, files |-> disk[n].files]
<1>1. TypeOK /\ NameInv /\ StageInv /\ local[p] \in Local /\ ReuseTrue
  BY DEF CacheInv, TypeOK
<1>2. ASSUME ~Whole(n) PROVE FALSE
  BY <1>1, <1>2, LocalSet DEF Parse
<1>3. n \in Name /\ Published(n) /\ disk[n] \in Snapshot
  BY <1>1, <1>2 DEF Whole, Complete, Published, Local, TypeOK
<1>4. i \in Index
  BY <1>3 DEF Snapshot, Index, Published
<1>5. ~mixed => Faithful(i)
  BY <1>1, <1>3 DEF ReuseTrue, Faithful
<1>6. \A q \in Process : n \notin Ahead(q, Incomplete)
  BY <1>1, <1>3, PublishedComplete
<1>7. i.gen = n /\ i.commit = disk[n].commit
  OBVIOUS
<1>8. local'[p] = [local[p] EXCEPT !.built = i]
  BY <1>1, <1>2, LocalSet DEF Parse
<1> HIDE DEF n, i
<1>9. local'[p].built = i
  BY <1>1, <1>8 DEF Local
<1> QED BY <1>4, <1>5, <1>6, <1>7, <1>9 DEF BuiltFrom

\* What was built is as true after a step as before.
LEMMA BuiltStays ==
    ASSUME TypeOK, NameInv, NEW p \in Process, Acts(p), NEW x \in Index, BuiltFrom(x)
    PROVE  /\ ~mixed' => Faithful(x)
           /\ \A q \in Process : x.gen \notin Ahead(q, Incomplete)'
           /\ disk'[x.gen] # None => disk'[x.gen].commit = x.commit
<1>1. x.gen \in Name
  BY DEF Index
<1> QED BY <1>1, MixedStays, LoadedKeeps DEF BuiltFrom

LEMMA IndexKeepsStep ==
    ASSUME CacheInv, NEW p \in Process, Acts(p), TypeOK'
    PROVE  IndexInv'
<1>1. TypeOK /\ NameInv /\ IndexInv
  BY DEF CacheInv
<1>2. ASSUME NEW q \in Process
      PROVE  /\ index[q] # None => index[q] \in Index /\ BuiltFrom(index[q])
             /\ local[q].built # None => local[q].built \in Index /\ BuiltFrom(local[q].built)
  <2>1. index[q] \in Index \cup {None} /\ local[q].built \in Index \cup {None}
    BY <1>1 DEF TypeOK, Local
  <2> QED BY <1>1, <2>1 DEF IndexInv
<1>3. ASSUME NEW q \in Process, index'[q] # None
      PROVE  \E x \in Index : index'[q] = x /\ BuiltFrom(x)
  <2>1. index'[q] \in {index[q], local[q].built, None}
    BY <1>1, IndexSet DEF TypeOK
  <2> QED BY <1>2, <1>3, <2>1
<1>4. ASSUME NEW q \in Process, local'[q].built # None
      PROVE  \E x \in Index : local'[q].built = x /\ BuiltFrom(x)
  <2>1. CASE local'[q].built = local[q].built
    BY <1>2, <1>4, <2>1
  <2>2. CASE local'[q].built # local[q].built
    <3>1. q = p /\ Parse(p)
      BY <1>1, <1>4, <2>2, Others, BuiltKeeps
    <3> QED BY <2>2, <3>1, ParseBuilds
  <2> QED BY <2>1, <2>2
<1>5. ASSUME NEW q \in Process, at'[q] = "recheck" PROVE local'[q].built # None
  <2>1. CASE q # p
    BY <1>1, <1>5, <2>1, Others DEF IndexInv
  <2>2. CASE q = p
    BY <1>1, <1>5, <2>2, BuiltKeeps, ParseBuilds, ContentAssumption
  <2> QED BY <2>1, <2>2
<1>6. ASSUME NEW x \in Index, BuiltFrom(x)
      PROVE  /\ ~mixed' => Faithful(x)
             /\ \A q \in Process : x.gen \notin Ahead(q, Incomplete)'
             /\ disk'[x.gen] # None => disk'[x.gen].commit = x.commit
  BY <1>1, <1>6, BuiltStays
<1> QED BY <1>3, <1>4, <1>5, <1>6 DEF IndexInv, BuiltFrom, Faithful

(***************************************************************************)
(* Calls.                                                                  *)
(***************************************************************************)
\* A search that ends well has an index of the snapshot that is current.
LEMMA SearchEnds ==
    ASSUME CacheInv, NEW p \in Process, Acts(p), TypeOK', op'[p] = "search", at'[p] = "idle", outcome'[p] = "ok"
    PROVE  /\ at[p] \notin {"idle", "dead"} /\ op[p] = "search" /\ ~Call(p)
           /\ index'[p] # None /\ index'[p].gen = CurrentName
           /\ Generation(p) \/ Recheck(p)
<1>1. TypeOK /\ CallInv /\ IndexInv
  BY DEF CacheInv
<1>2. ~Call(p)
  BY <1>1, Places
<1>3. op[p] = "search"
  BY <1>2, StepCases, Frames DEF request, Stamps, OpenManifest, Fill, Swap, Enumerate, Collect, OpenTmp, WriteTmp, Rename, Prune
<1>4. ~(EnsureCache(p) \/ Fails(p) \/ Retry(p))
  BY <1>1, LocalSet, PlaceSet DEF EnsureCache, Fails, Retry, FirstRead
<1>5. ~(ResolveCommit(p) \/ Load(p) \/ Touch(p) \/ Sections(p) \/ Parse(p) \/ Kill(p))
  BY <1>1, LocalSet, PlaceSet DEF ResolveCommit, Load, Touch, Sections, Parse, Kill, TypeOK
<1>6. ~(Pin(p) \/ Get(p))
  BY <1>1, <1>3 DEF Pin, Get, CallInv
<1>7. ~(Stamps(p) \/ Prune(p))
  BY <1>1, <1>3, LocalSet DEF Stamps, OpenManifest, Fill, Swap, Prune
<1>8. ~(Enumerate(p) \/ OpenTmp(p))
  BY <1>1, Places
<1>9. ~(Collect(p) \/ WriteTmp(p) \/ Rename(p))
  BY <1>1, LocalSet DEF Collect, WriteTmp, Rename, Discard
<1>10. CASE Generation(p)
  <2>1. IndexFits(p, CurrentName)
    BY <1>1, <1>10, LocalSet DEF Generation
  <2> QED BY <1>2, <1>3, <1>10, <2>1 DEF Generation, IndexFits
<1>11. CASE Recheck(p)
  <2>1. StillCurrent(p) /\ index' = [index EXCEPT ![p] = local[p].built] /\ local[p].built # None
    BY <1>1, <1>11, LocalSet DEF Recheck, IndexInv
  <2> QED BY <1>1, <1>2, <1>3, <1>11, <2>1 DEF Recheck, StillCurrent, TypeOK
<1> QED BY <1>2, <1>4, <1>5, <1>6, <1>7, <1>8, <1>9, <1>10, <1>11, StepCases DEF Quiet

\* A search never reads one document, and a sync neither that nor an index.
LEMMA CallKeepsStep ==
    ASSUME CacheInv, NEW p \in Process, Acts(p), TypeOK'
    PROVE  CallInv'
<1> DEFINE Reads == {"ensure", "generation", "sections", "parse", "retry", "recheck", "pin", "get"}
           Allowed(q) == /\ op'[q] = "search" => at'[q] \notin {"pin", "get"}
                         /\ op'[q] = "sync" => at'[q] \notin Reads
<1>1. TypeOK /\ CallInv
  BY DEF CacheInv
<1>2. ASSUME NEW q \in Process, q # p PROVE Allowed(q)
  BY <1>1, <1>2, Others DEF CallInv
<1>3. ASSUME Call(p) PROVE Allowed(p)
  BY <1>1, <1>3 DEF Call, TypeOK
<1>4. ASSUME ~Call(p) PROVE Allowed(p)
  <2>1. op' = op
    BY <1>4, StepCases, Frames DEF request, Stamps, OpenManifest, Fill, Swap, Enumerate, Collect, OpenTmp, WriteTmp, Rename, Prune
  <2>2. EnsureCache(p) => op[p] # "sync" /\ (op[p] = "search" => at'[p] \in {"generation", "idle", "resolve"})
    BY <1>1, PlaceSet DEF EnsureCache, FirstRead, CallInv
  <2>3. Fails(p) \/ ResolveCommit(p) \/ Load(p) \/ Touch(p) => at'[p] \notin Reads
    BY <1>1, PlaceSet DEF Fails, ResolveCommit, Load, Touch
  <2>4. Generation(p) \/ Sections(p) \/ Parse(p) => op[p] # "sync" /\ at'[p] \notin {"pin", "get"}
    BY <1>1, PlaceSet DEF Generation, Sections, Parse, CallInv
  <2>5. Retry(p) \/ Recheck(p) => op[p] # "sync" /\ at'[p] \notin {"pin", "get"}
    BY <1>1, PlaceSet DEF Retry, Recheck, CallInv
  <2>6. Pin(p) \/ Get(p) => op[p] \notin {"sync", "search"}
    BY <1>1 DEF Pin, Get, CallInv
  <2>7. Kill(p) => at'[p] = "dead"
    BY <1>1 DEF Kill, TypeOK
  <2>8. Swap(p) \/ Prune(p) => /\ at'[p] \in {"idle", "generation", "pin"}
                               /\ op[p] = "search" => at'[p] \in {"generation", "idle"}
                               /\ op[p] = "sync" => at'[p] = "idle"
    BY <1>1, PlaceSet, LocalSet DEF Swap, Prune
  <2>9. OpenManifest(p) \/ Fill(p) \/ Enumerate(p) \/ Collect(p) \/ OpenTmp(p) \/ WriteTmp(p) \/ Rename(p)
        => at'[p] \notin Reads
    BY <1>1, Places
  <2>10. op'[p] = op[p] /\ "search" # "sync"
    BY <2>1
  <2>11. Quiet(p) => Allowed(p)
    BY <2>2, <2>3, <2>4, <2>5, <2>6, <2>7, <2>10 DEF Quiet
  <2>12. ~Quiet(p) => Allowed(p)
    BY <1>4, <2>8, <2>9, <2>10, StepCases DEF Stamps
  <2> QED BY <2>11, <2>12
<1> QED BY <1>2, <1>3, <1>4 DEF CallInv

(***************************************************************************)
(* The manifests.                                                          *)
(***************************************************************************)
Renewing == {"stamp", "fill", "swap"}

\* Only the steps that renew a manifest, and Collect, change the manifest files.
LEMMA SheetFrame ==
    ASSUME NEW p \in Process, Acts(p)
    PROVE  \/ UNCHANGED sheets
           \/ Stamps(p) \/ Collect(p)
<1>1. CASE Quiet(p) \/ Call(p)
  BY <1>1, Frames DEF store
<1> QED BY <1>1, StepCases DEF Enumerate, OpenTmp, WriteTmp, Rename, Prune

\* The steps on manifests, in full.
LEMMA OpenManifestIs ==
    ASSUME TypeOK, NEW p \in Process, OpenManifest(p)
    PROVE  LET n == local[p].pin
               file == IF renewed[n] = None THEN Own(p) ELSE renewed[n]
           IN  \/ /\ at'[p] = "fill" /\ local'[p].fd = file /\ local'[p].pin = n
                  /\ manifest' = manifest /\ renewed' = [renewed EXCEPT ![n] = file] /\ blank' = blank \cup {file}
                  /\ clash' = (clash \/ \E q \in Process : at[q] \in {"fill", "swap"} /\ SameManifest(p, q))
               \/ at'[p] = "idle" /\ UNCHANGED <<sheets, clash>>
<1> DEFINE n == local[p].pin
           file == IF renewed[n] = None THEN Own(p) ELSE renewed[n]
<1>1. CASE at'[p] = "idle" /\ UNCHANGED <<renewed, blank, old, clash>>
  BY <1>1 DEF OpenManifest, sheets
<1>2. CASE /\ renewed' = [renewed EXCEPT ![n] = file] /\ blank' = blank \cup {file}
           /\ local'[p] = [local[p] EXCEPT !.fd = file] /\ at'[p] = "fill"
           /\ clash' = (clash \/ \E q \in Process : at[q] \in {"fill", "swap"} /\ SameManifest(p, q))
  <2>1. local'[p].fd = file /\ local'[p].pin = n
    BY <1>2 DEF TypeOK, Local
  <2> QED BY <1>2, <2>1 DEF OpenManifest
<1> QED BY <1>1, <1>2, LocalSet, PlaceSet DEF OpenManifest

LEMMA SwapIs ==
    ASSUME TypeOK, NEW p \in Process, Swap(p)
    PROVE  \/ /\ renewed[local[p].pin] # None /\ blank' = blank
              /\ manifest' = [manifest EXCEPT ![local[p].pin] = renewed[local[p].pin]]
              /\ renewed' = [renewed EXCEPT ![local[p].pin] = None]
           \/ UNCHANGED sheets
  BY DEF Swap, sheets

LEMMA CollectIs ==
    ASSUME TypeOK, NEW p \in Process, Collect(p)
    PROVE  \/ UNCHANGED sheets
           \/ /\ manifest' = [manifest EXCEPT ![Own(p)] = Own(p)]
              /\ UNCHANGED <<renewed, blank>> /\ at'[p] = "open"
  BY PlaceSet DEF Collect, sheets

\* The snapshot whose manifest a process renews, and the name it may need.
LEMMA RenewedSnapshot ==
    ASSUME CacheInv, NEW p \in Process, at[p] \in Renewing
    PROVE  /\ local[p].pin \in Name /\ local[p].pin # None
           /\ Own(p) \in Name /\ Own(p) # None
           /\ at[p] = "stamp" => Own(p) \in Ahead(p, Incomplete)
<1>1. TypeOK /\ NameInv /\ local[p] \in Local /\ local[p].pin # None
  BY DEF CacheInv, TypeOK, SheetNames, Renewing
<1>2. "stamp" \in Incomplete
  BY DEF Incomplete, Unstarted
<1> QED BY <1>1, <1>2, OwnNameOf, AheadFacts, StagesAre DEF Local, Renewing

LEMMA SheetNamesKeepsStep ==
    ASSUME CacheInv, NEW p \in Process, Acts(p), TypeOK'
    PROVE  SheetNames'
<1>1. TypeOK /\ NameInv /\ SheetNames /\ NameAssumption
  BY NameAssumption DEF CacheInv
<1> DEFINE s == local[p].pin
           file == IF renewed[s] = None THEN Own(p) ELSE renewed[s]
<1>2. \A n, m \in Name : manifest[n] # None => manifest[n] # renewed[m]
  BY <1>1 DEF SheetNames
<1>3. \A n, m \in Name : renewed[n] # None /\ renewed[n] = renewed[m] => n = m
  BY <1>1 DEF SheetNames
<1>4. ASSUME NEW q \in Process, NEW n \in Ahead(q, Incomplete)'
      PROVE  /\ n \in Name /\ n # None /\ n \notin blank /\ (\A m \in Name : n # manifest[m] /\ n # renewed[m])
             /\ at'[p] \notin Incomplete /\ calls' = calls => n # Own(p)
  <2>1. n \in Ahead(q, Incomplete)
    BY <1>1, AheadShrinks, StagesAre
  <2>2. n \in Name /\ n # None /\ n \notin blank /\ (\A m \in Name : n # manifest[m] /\ n # renewed[m])
    BY <1>1, <2>1, AheadFacts, StagesAre DEF SheetNames
  <2>3. at'[p] \notin Incomplete /\ calls' = calls => n # Own(p)
    BY <1>4, LeavesAhead, StagesAre
  <2> QED BY <2>2, <2>3
<1>5. \A q \in Process : at'[q] \in Renewing => local'[q].pin # None
  <2>1. ASSUME NEW q \in Process, q # p, at'[q] \in Renewing PROVE local'[q].pin # None
    BY <1>1, <2>1, Others DEF SheetNames, Renewing
  <2>2. ASSUME at'[p] \in Renewing PROVE local'[p].pin # None
    <3>1. CASE Touch(p)
      <4>1. local'[p] = [Nothing EXCEPT !.pin = Current] /\ Current # None
        BY <1>1, <2>2, <3>1, LocalSet, PlaceSet DEF Touch, Renewing
      <4> QED BY <4>1 DEF Nothing
    <3>2. CASE OpenManifest(p)
      BY <1>1, <2>2, <3>2, OpenManifestIs, RenewedSnapshot, Places DEF Renewing
    <3>3. CASE Fill(p)
      BY <1>1, <2>2, <3>3, LocalSet, PlaceSet, RenewedSnapshot, Places DEF Fill, Renewing
    <3> QED BY <1>1, <2>2, <3>1, <3>2, <3>3, Places, StepCases DEF Stamps, Renewing, Syncing
  <2> QED BY <2>1, <2>2
<1>6. CASE UNCHANGED sheets
  BY <1>2, <1>3, <1>4, <1>5, <1>6 DEF SheetNames, sheets, Renewing
<1>7. CASE OpenManifest(p)
  <2>1. /\ s \in Name /\ Own(p) \in Name /\ Own(p) # None /\ calls' = calls
        /\ \A m \in Name : Own(p) # manifest[m] /\ Own(p) # renewed[m]
    <3>1. /\ s \in Name /\ Own(p) \in Name /\ Own(p) # None /\ Own(p) \in Ahead(p, Incomplete)
      BY <1>1, <1>7, RenewedSnapshot DEF OpenManifest, Renewing
    <3> QED BY <1>1, <1>7, <3>1 DEF SheetNames, OpenManifest, request
  <2>2. CASE /\ at'[p] = "fill"
             /\ manifest' = manifest /\ renewed' = [renewed EXCEPT ![s] = file] /\ blank' = blank \cup {file}
    <3>1. file # None /\ (file = Own(p) \/ file = renewed[s])
      BY <2>1
    <3>2. /\ \A n \in Name : manifest[n] # None => manifest[n] # file
          /\ \A n \in Name : n # s => renewed[n] # file
      BY <1>2, <1>3, <2>1, <3>1
    <3> HIDE DEF file
    <3>3. \A n \in Name : renewed'[n] = IF n = s THEN file ELSE renewed[n]
      BY <1>1, <2>2 DEF TypeOK
    <3>4. ASSUME NEW q \in Process, NEW n \in Ahead(q, Incomplete)'
          PROVE  n \notin blank' /\ \A m \in Name : n # manifest'[m] /\ n # renewed'[m]
      <4>1. "fill" \notin Incomplete
        BY DEF Incomplete, Unstarted
      <4> QED BY <1>4, <2>1, <2>2, <3>1, <3>3, <3>4, <4>1
    <3> QED BY <1>2, <1>3, <1>5, <2>2, <3>1, <3>2, <3>3, <3>4 DEF SheetNames, Renewing
  <2> QED BY <1>1, <1>6, <1>7, <2>2, OpenManifestIs
<1>8. CASE Fill(p)
  <2>1. manifest' = manifest /\ renewed' = renewed /\ blank' \subseteq blank
    BY <1>8 DEF Fill
  <2> QED BY <1>2, <1>3, <1>4, <1>5, <2>1 DEF SheetNames, Renewing
<1>9. CASE Swap(p)
  <2>1. CASE /\ renewed[s] # None /\ blank' = blank
             /\ manifest' = [manifest EXCEPT ![s] = renewed[s]] /\ renewed' = [renewed EXCEPT ![s] = None]
    <3>1. s \in Name
      BY <1>9, RenewedSnapshot DEF Swap, Renewing
    <3>2. \A n \in Name : /\ manifest'[n] = IF n = s THEN renewed[s] ELSE manifest[n]
                          /\ renewed'[n] = IF n = s THEN None ELSE renewed[n]
      BY <1>1, <2>1 DEF TypeOK
    <3>3. \A n, m \in Name : manifest'[n] # None => manifest'[n] # renewed'[m]
      BY <1>2, <1>3, <2>1, <3>1, <3>2
    <3>4. \A n, m \in Name : renewed'[n] # None /\ renewed'[n] = renewed'[m] => n = m
      BY <1>3, <3>2
    <3>5. ASSUME NEW q \in Process, NEW n \in Ahead(q, Incomplete)'
          PROVE  n \notin blank' /\ \A m \in Name : n # manifest'[m] /\ n # renewed'[m]
      BY <1>4, <2>1, <3>1, <3>2, <3>5
    <3> QED BY <1>5, <3>3, <3>4, <3>5 DEF SheetNames, Renewing
  <2> QED BY <1>1, <1>6, <1>9, <2>1, SwapIs
<1>10. CASE Collect(p)
  <2>1. /\ Own(p) \in Name /\ Own(p) # None /\ calls' = calls
        /\ \A m \in Name : Own(p) # manifest[m] /\ Own(p) # renewed[m]
    <3>1. Own(p) \in Name /\ Own(p) # None /\ Own(p) \in Ahead(p, Incomplete)
      BY <1>1, <1>10, OwnNameOf, AheadFacts, StagesAre DEF Collect
    <3> QED BY <1>1, <1>10, <3>1 DEF SheetNames, Collect, request
  <2>2. CASE manifest' = [manifest EXCEPT ![Own(p)] = Own(p)] /\ UNCHANGED <<renewed, blank>> /\ at'[p] = "open"
    <3>1. \A n \in Name : manifest'[n] = IF n = Own(p) THEN Own(p) ELSE manifest[n]
      BY <1>1, <2>2 DEF TypeOK
    <3>2. ASSUME NEW q \in Process, NEW n \in Ahead(q, Incomplete)'
          PROVE  n \notin blank' /\ \A m \in Name : n # manifest'[m] /\ n # renewed'[m]
      BY <1>4, <2>1, <2>2, <3>1, <3>2, StagesAre
    <3> QED BY <1>2, <1>3, <1>5, <2>1, <2>2, <3>1, <3>2 DEF SheetNames, Renewing
  <2> QED BY <1>1, <1>6, <1>10, <2>2, CollectIs
<1> QED BY <1>6, <1>7, <1>8, <1>9, <1>10, SheetFrame DEF Stamps

\* Only the opening of a manifest file can make a clash of manifests.
LEMMA ClashStays ==
    ASSUME TypeOK, NEW p \in Process, Acts(p), ~clash'
    PROVE  ~clash
<1>1. CASE Quiet(p) \/ Call(p)
  BY <1>1, Frames DEF history
<1> QED BY <1>1, StepCases DEF Stamps, OpenManifest, Fill, Swap, Enumerate, Collect, OpenTmp, WriteTmp, Rename,
       Prune, history

LEMMA SheetKeepsStep ==
    ASSUME CacheInv, NEW p \in Process, Acts(p), TypeOK'
    PROVE  SheetInv'
<1> SUFFICES ASSUME ~clash'
             PROVE  /\ \A n \in Name : manifest'[n] \notin blank'
                    /\ \A q \in Process :
                          /\ at'[q] \in {"fill", "swap"} =>
                                local'[q].fd # None /\ local'[q].fd = renewed'[local'[q].pin]
                          /\ at'[q] = "swap" => local'[q].fd \notin blank'
                    /\ \A q, r \in Process :
                          {at'[q], at'[r]} \subseteq {"fill", "swap"} /\ local'[q].pin = local'[r].pin => q = r
  BY DEF SheetInv, Readable, SameManifest
<1> DEFINE s == local[p].pin
           file == IF renewed[s] = None THEN Own(p) ELSE renewed[s]
           Writes(q) == at[q] \in {"fill", "swap"}
<1>1. TypeOK /\ NameInv /\ SheetNames /\ SheetInv /\ ~clash
  BY ClashStays DEF CacheInv
<1>2. \A n \in Name : manifest[n] \notin blank
  BY <1>1 DEF SheetInv, Readable
<1>3. ASSUME NEW q \in Process, Writes(q)
      PROVE  /\ local[q].pin \in Name /\ local[q].fd # None /\ local[q].fd = renewed[local[q].pin]
             /\ at[q] = "swap" => local[q].fd \notin blank
  BY <1>1, <1>3, RenewedSnapshot DEF SheetInv, Renewing
<1>4. \A q, r \in Process : Writes(q) /\ Writes(r) /\ local[q].pin = local[r].pin => q = r
  BY <1>1 DEF SheetInv, SameManifest
<1>5. \A q \in Process : q # p => at'[q] = at[q] /\ local'[q] = local[q]
  BY <1>1, Others
<1>6. \A n, m \in Name : renewed[n] # None /\ renewed[n] = renewed[m] => n = m
  BY <1>1 DEF SheetNames
<1>7. CASE UNCHANGED sheets /\ at'[p] \notin {"fill", "swap"}
  BY <1>2, <1>3, <1>4, <1>5, <1>7 DEF sheets
<1>8. CASE OpenManifest(p)
  <2>1. s \in Name /\ Own(p) # None /\ \A m \in Name : Own(p) # manifest[m] /\ Own(p) # renewed[m]
    BY <1>1, <1>8, RenewedSnapshot DEF SheetNames, OpenManifest, Renewing
  <2>2. CASE /\ at'[p] = "fill" /\ local'[p].fd = file /\ local'[p].pin = s
             /\ manifest' = manifest /\ renewed' = [renewed EXCEPT ![s] = file] /\ blank' = blank \cup {file}
             /\ clash' = (clash \/ \E q \in Process : at[q] \in {"fill", "swap"} /\ SameManifest(p, q))
    <3>1. \A q \in Process : Writes(q) => local[q].pin # s
      BY <2>2 DEF SameManifest
    <3>2. file # None /\ (\A n \in Name : manifest[n] # file) /\ (\A n \in Name : n # s => renewed[n] # file)
      BY <1>1, <1>6, <2>1 DEF SheetNames
    <3> HIDE DEF file
    <3>3. \A n \in Name : renewed'[n] = IF n = s THEN file ELSE renewed[n]
      BY <1>1, <2>2 DEF TypeOK
    <3>4. ASSUME NEW q \in Process, q # p, Writes(q)
          PROVE  /\ local[q].fd = renewed'[local[q].pin] /\ local[q].fd # None
                 /\ at[q] = "swap" => local[q].fd \notin blank'
      BY <1>3, <2>2, <3>1, <3>2, <3>3, <3>4
    <3>5. ASSUME NEW q \in Process
          PROVE  /\ at'[q] \in {"fill", "swap"} =>
                       local'[q].fd # None /\ local'[q].fd = renewed'[local'[q].pin]
                 /\ at'[q] = "swap" => local'[q].fd \notin blank'
      BY <1>5, <2>1, <2>2, <3>2, <3>3, <3>4
    <3>6. ASSUME NEW q \in Process, NEW r \in Process,
                 {at'[q], at'[r]} \subseteq {"fill", "swap"} /\ local'[q].pin = local'[r].pin
          PROVE  q = r
      BY <1>4, <1>5, <2>2, <3>1, <3>6
    <3> QED BY <1>2, <2>2, <3>2, <3>5, <3>6
  <2> QED BY <1>1, <1>7, <1>8, <2>2, OpenManifestIs
<1>9. CASE Fill(p)
  <2>1. at[p] = "fill" /\ manifest' = manifest /\ renewed' = renewed /\ blank' \subseteq blank
    BY <1>9 DEF Fill
  <2>2. \/ at'[p] = "idle"
        \/ at'[p] = "swap" /\ local'[p] = local[p] /\ blank' = blank \ {local[p].fd}
    BY <1>1, <1>9, LocalSet, PlaceSet DEF Fill
  <2> QED BY <1>2, <1>3, <1>4, <1>5, <2>1, <2>2
<1>10. CASE Swap(p)
  <2>1. at[p] = "swap" /\ at'[p] \notin {"fill", "swap"}
    BY <1>1, <1>10, Places
  <2>2. CASE /\ renewed[s] # None /\ blank' = blank
             /\ manifest' = [manifest EXCEPT ![s] = renewed[s]] /\ renewed' = [renewed EXCEPT ![s] = None]
    <3>1. \A n \in Name : /\ manifest'[n] = IF n = s THEN renewed[s] ELSE manifest[n]
                          /\ renewed'[n] = IF n = s THEN None ELSE renewed[n]
      BY <1>1, <2>2 DEF TypeOK
    <3>2. renewed[s] \notin blank
      BY <1>3, <2>1
    <3>3. ASSUME NEW q \in Process, q # p, Writes(q)
          PROVE  local[q].fd = renewed'[local[q].pin] /\ local[q].fd # None
      BY <1>3, <1>4, <2>1, <3>1, <3>3
    <3> QED BY <1>2, <1>3, <1>4, <1>5, <2>1, <2>2, <3>1, <3>2, <3>3
  <2> QED BY <1>1, <1>7, <1>10, <2>1, <2>2, SwapIs
<1>11. CASE Collect(p)
  <2>1. at'[p] \notin {"fill", "swap"}
    BY <1>1, <1>11, Places
  <2>2. CASE manifest' = [manifest EXCEPT ![Own(p)] = Own(p)] /\ UNCHANGED <<renewed, blank>>
    <3>1. Own(p) \notin blank
      BY <1>1, <1>11, AheadFacts, StagesAre DEF SheetNames, Collect
    <3>2. \A n \in Name : manifest'[n] \in {manifest[n], Own(p)}
      BY <1>1, <2>2 DEF TypeOK
    <3> QED BY <1>2, <1>3, <1>4, <1>5, <2>1, <2>2, <3>1, <3>2
  <2> QED BY <1>1, <1>7, <1>11, <2>1, <2>2, CollectIs
<1>12. CASE ~Stamps(p) /\ ~Collect(p)
  <2>1. at'[p] \notin {"fill", "swap"}
    BY <1>1, <1>12, Places, StepCases
  <2> QED BY <1>7, <1>12, <2>1, SheetFrame
<1> QED BY <1>8, <1>9, <1>10, <1>11, <1>12 DEF Stamps

(***************************************************************************)
(* The invariant and what follows from it.                                 *)
(***************************************************************************)
LEMMA InitCacheInv == Init => CacheInv
<1> SUFFICES ASSUME Init PROVE CacheInv
  OBVIOUS
<1>1. Before \in Name /\ None \notin Name /\ Before # None
  BY NameAssumption DEF Name
<1>2. ASSUME NEW p \in Process PROVE MaxCalls[p] \in Nat
  BY DocsCacheAssumption
<1>3. ASSUME NEW p \in Process, NEW n \in {p} \X (1..MaxCalls[p])
      PROVE  n # Before /\ n \in Name
  BY NameAssumption DEF Name
<1>4. [commit |-> 1, files |-> Corpus[1]] \in Snapshot
  BY CorpusType, DocsCacheAssumption DEF Snapshot
<1>5. \A n \in Name : n # Before => disk[n] = None
  BY DEF Init
<1>6. disk[Before] \in {None, [commit |-> 1, files |-> Corpus[1]]}
  BY <1>1 DEF Init
<1>7. TypeOK
  <2>1. disk \in [Name -> Snapshot \cup {None}]
    BY <1>4 DEF Init
  <2>2. text \in [Name -> Name \cup {None}]
    BY <1>1 DEF Init
  <2>3. pointer \in Name \cup {None} /\ tmp \in Name \cup {None}
    BY <1>1, <2>2 DEF Init
  <2>4. at \in [Process -> Place] /\ op \in [Process -> Op]
    BY DEF Init, Place, Op
  <2>5. doc \in [Process -> File]
    BY DocsCacheAssumption DEF Init
  <2>6. local \in [Process -> Local]
    BY NothingType DEF Init
  <2>7. head \in Commit /\ 0 \in 0..MaxCrashes
    BY DocsCacheAssumption DEF Init
  <2> QED BY <2>1, <2>2, <2>3, <2>4, <2>5, <2>6, <2>7 DEF Init, TypeOK
<1>8. pointer \in {None, Before} /\ (\A n \in Name : text[n] \in {None, Before})
  BY <1>1 DEF Init
<1>9. pointer # None => disk[Before] # None /\ CurrentName = Before
  BY <1>1 DEF Init, CurrentName
<1>10. NameInv
  <2>1. ASSUME NEW p \in Process
        PROVE  /\ calls[p] <= MaxCalls[p] /\ at[p] = "idle"
               /\ \A S \in Stages : \A n \in Ahead(p, S) : n \in Name /\ n # Before /\ n # None
    BY <1>1, <1>2, <1>3 DEF Init, Ahead
  <2>2. \A n \in old : disk[n] # None
    BY DEF Init
  <2>3. tmp = None
    BY DEF Init
  <2> QED BY <1>5, <1>8, <2>1, <2>2, <2>3, StagesAre DEF NameInv
<1>11. Complete(Before) \/ pointer = None
  <2>1. ASSUME pointer # None
        PROVE  disk[Before] # None /\ disk[Before].commit = 1 /\ disk[Before].files = Corpus[1]
    BY <1>6, <1>9, <2>1
  <2> QED BY <1>1, <2>1 DEF Complete, Published, Lists
<1>12. \A p \in Process : at[p] = "idle" /\ local[p].built = None /\ index[p] = None /\ outcome[p] = "none"
  BY DEF Init, Nothing
<1>16. SheetNames
  <2>1. \A n \in Name : manifest[n] \in {None, Before} /\ renewed[n] = None
    BY <1>8 DEF Init
  <2>2. ASSUME NEW q \in Process, NEW n \in Ahead(q, Incomplete) PROVE n # Before /\ n # None
    BY <1>1, <1>3, <2>2 DEF Ahead
  <2>3. blank = {}
    BY DEF Init
  <2> QED BY <1>12, <2>1, <2>2, <2>3 DEF SheetNames
<1>17. SheetInv
  <2>1. blank = {}
    BY DEF Init
  <2> QED BY <1>12, <2>1 DEF SheetInv, Readable
<1>13. StageInv /\ SourceInv /\ IndexInv /\ CallInv
  BY <1>12 DEF StageInv, Syncing, SourceInv, IndexInv, CallInv
<1>14. PointerInv
  BY <1>9, <1>11, <1>12 DEF PointerInv
<1>15. ReuseTrue
  BY <1>5, <1>6 DEF ReuseTrue, Published
<1> QED BY <1>7, <1>10, <1>13, <1>14, <1>15, <1>16, <1>17 DEF CacheInv

\* Time passing and pushes change nothing a sync under way depends on.
LEMMA WorldKeeps ==
    ASSUME CacheInv, TypeOK', UNCHANGED <<disk, text, pointer, tmp, sheets, at, request, local, index, outcome, history>>,
           old' = old \/ Age
    PROVE  CacheInv'
<1>1. /\ NameInv /\ StageInv /\ PointerInv /\ SheetNames /\ SheetInv
      /\ SourceInv /\ ReuseTrue /\ IndexInv /\ CallInv
  BY DEF CacheInv
<1>2. old' # old => /\ \A p \in Process : at[p] \notin Syncing
                    /\ \A n \in old' : disk[n] # None
  BY DEF Age
<1>3. NameInv'
  BY <1>1, <1>2 DEF NameInv, Ahead, Own, request
<1>4. StageInv'
  BY <1>1, <1>2 DEF StageInv, Own, Complete, Published, Lists, request
<1>5. PointerInv'
  BY <1>1, <1>2 DEF PointerInv, CurrentName, Own, Complete, Published, Lists, request, history, Syncing
<1>6. SourceInv'
  BY <1>1 DEF SourceInv, Ahead, Own, request, history
<1>7. ReuseTrue' /\ IndexInv'
  BY <1>1 DEF ReuseTrue, Published, IndexInv, BuiltFrom, Faithful, Ahead, Own, request, history
<1>8. CallInv'
  BY <1>1 DEF CallInv, request
<1>9. SheetNames'
  BY <1>1 DEF SheetNames, Ahead, Own, request, sheets
<1>10. SheetInv'
  BY <1>1 DEF SheetInv, Readable, SameManifest, history, sheets
<1> QED BY <1>3, <1>4, <1>5, <1>6, <1>7, <1>8, <1>9, <1>10 DEF CacheInv

LEMMA CacheInvKeeps == CacheInv /\ [Next]_vars => CacheInv'
<1> SUFFICES ASSUME CacheInv, [Next]_vars PROVE CacheInv'
  OBVIOUS
<1>1. TypeOK'
  BY TypeKeeps DEF CacheInv, Typed
<1>2. CASE \E p \in Process : Acts(p)
  BY <1>1, <1>2, NameKeepsStep, StageKeepsStep, PointerKeepsStep, SheetNamesKeepsStep, SheetKeepsStep,
     SourceKeepsStep, ReuseKeepsStep, IndexKeepsStep, CallKeepsStep DEF CacheInv
<1>3. CASE Age
  BY <1>1, <1>3, WorldKeeps DEF Age
<1>4. CASE Push
  BY <1>1, <1>4, WorldKeeps DEF Push
<1>5. CASE UNCHANGED vars
  BY <1>1, <1>5, WorldKeeps DEF vars, store
<1> QED BY <1>2, <1>3, <1>4, <1>5 DEF Next, Acts, Done

LEMMA CacheInvHolds == Spec => []CacheInv
  BY InitCacheInv, CacheInvKeeps, PTL DEF Spec

\* Whatever fails or is killed when, current.json names a snapshot that is there
\* with every document its manifest lists, unless two processes wrote the pointer,
\* or two the manifest of one snapshot, at once (staging.publish, prune, touch).
THEOREM CacheLives == Spec => []LiveCacheWhole
<1>1. CacheInv => LiveCacheWhole
  <2> SUFFICES ASSUME CacheInv, ~clash, pointer # None PROVE Whole(CurrentName)
    BY DEF CacheInv, LiveCacheWhole
  <2>1. Complete(CurrentName)
    BY DEF CacheInv, PointerInv
  <2>2. CurrentName \in Name
    BY <2>1, CurrentFacts DEF CacheInv, Complete, Published
  <2> QED BY <2>1, <2>2 DEF CacheInv, SheetInv, Whole
<1> QED BY <1>1, CacheInvHolds, PTL

\* A published snapshot has the documents of the commit its manifest names,
\* unless a sync copied them from another snapshot than the one it had loaded
\* (collectFiles, reuseFile).
THEOREM ReuseIsTrue == Spec => []ReuseTrue
<1>1. CacheInv => ReuseTrue
  BY DEF CacheInv
<1> QED BY <1>1, CacheInvHolds, PTL

(***************************************************************************)
(* The refinement of DocsStore.                                            *)
(***************************************************************************)
\* Any step but the first of a call is one of a call under way.
LEMMA SameCall ==
    ASSUME TypeOK, NEW p \in Process, Acts(p), ~Call(p)
    PROVE  UNCHANGED <<calls, op>> /\ at[p] \notin {"idle", "dead"}
<1>1. UNCHANGED <<calls, op>>
  BY StepCases, Frames DEF request, Stamps, OpenManifest, Fill, Swap, Enumerate, Collect, OpenTmp, WriteTmp, Rename, Prune
<1>2. Quiet(p) => at[p] \notin {"idle", "dead"}
  BY DEF Quiet, EnsureCache, Fails, ResolveCommit, Load, Touch, Generation, Sections, Parse, Retry, Recheck, Pin, Get, Kill
<1> QED BY <1>1, <1>2, StepCases, Places DEF Stamps

\* A sync that ends well has renewed a manifest or swung the pointer.
LEMMA SyncEnds ==
    ASSUME CacheInv, NEW p \in Process, Acts(p), op'[p] = "sync", at'[p] = "idle", outcome'[p] = "ok"
    PROVE  Swap(p) \/ Prune(p)
<1>1. TypeOK /\ CallInv
  BY DEF CacheInv
<1>2. ~Call(p)
  BY <1>1, Places
<1>3. op[p] = "sync"
  BY <1>1, <1>2, SameCall
<1>4. ~(Fails(p) \/ ResolveCommit(p) \/ Load(p) \/ Touch(p) \/ Kill(p))
  BY <1>1, LocalSet, PlaceSet DEF Fails, ResolveCommit, Load, Touch, Kill, TypeOK
<1>5. ~(EnsureCache(p) \/ Generation(p) \/ Sections(p) \/ Parse(p) \/ Retry(p) \/ Recheck(p) \/ Pin(p) \/ Get(p))
  BY <1>1, <1>3 DEF EnsureCache, Generation, Sections, Parse, Retry, Recheck, Pin, Get, CallInv
<1>6. ~(OpenManifest(p) \/ Fill(p))
  BY <1>1, LocalSet, PlaceSet DEF OpenManifest, Fill
<1>7. ~(Enumerate(p) \/ OpenTmp(p))
  BY <1>1, Places
<1>8. ~(Collect(p) \/ WriteTmp(p) \/ Rename(p))
  BY <1>1, LocalSet, PlaceSet DEF Collect, WriteTmp, Rename, Discard
<1> QED BY <1>2, <1>4, <1>5, <1>6, <1>7, <1>8, StepCases DEF Quiet, Stamps

\* Without a clash only the renaming of the pointer changes what there is a copy of.
LEMMA CachedKeeps ==
    ASSUME CacheInv, NEW p \in Process, Acts(p), TypeOK', ~clash', ~Rename(p)
    PROVE  CurrentName' = CurrentName /\ Cached' = Cached
<1>1. TypeOK /\ NameInv /\ PointerInv /\ ~clash
  BY WritersKeep DEF CacheInv
<1>2. CurrentName' = CurrentName /\ pointer' = pointer
  BY <1>1, NamedKeeps
<1>3. CASE pointer = None
  BY <1>2, <1>3 DEF Cached, Current, CurrentName, Published
<1>4. CASE pointer # None
  <2>1. disk'[CurrentName] = disk[CurrentName]
    BY <1>1, <1>4, CurrentWhole
  <2> QED BY <1>2, <2>1 DEF Cached, Current, Published
<1> QED BY <1>2, <1>3, <1>4

LEMMA CachedRenamed ==
    ASSUME CacheInv, NEW p \in Process, Rename(p), TypeOK', ~clash'
    PROVE  /\ at[p] = "rename" /\ at'[p] = "prune" /\ disk' = disk
           /\ disk[Own(p)].commit # 0 /\ Cached' = disk[Own(p)].commit
<1>1. TypeOK /\ NameInv /\ PointerInv /\ StageInv /\ ~clash /\ Acts(p)
  BY WritersKeep DEF CacheInv, Acts, Step
<1>2. at[p] = "rename" /\ tmp # None /\ text[tmp] = Own(p)
  BY <1>1 DEF PointerInv, Rename
<1>3. CurrentName' = Own(p) /\ disk' = disk /\ at'[p] = "prune"
  BY <1>1, <1>2, CurrentChanges, PlaceSet DEF Rename
<1>4. Published(Own(p))
  BY <1>1, <1>2 DEF StageInv, Complete
<1> QED BY <1>2, <1>3, <1>4 DEF Cached, Current, Published

\* What the store shows of the other processes stays.
LEMMA OtherViews ==
    ASSUME CacheInv, NEW p \in Process, Acts(p), NEW q \in Process, q # p
    PROVE  /\ ResolvedBy(q)' = ResolvedBy(q)
           /\ at'[q] = at[q]
           /\ \A o : EndsWell(q, o)' = EndsWell(q, o)
           /\ AnswerOf(q)' = AnswerOf(q)
<1>1. TypeOK /\ NameInv /\ StageInv
  BY DEF CacheInv
<1>2. /\ at'[q] = at[q] /\ local'[q] = local[q] /\ outcome'[q] = outcome[q]
      /\ op'[q] = op[q] /\ index'[q] = index[q] /\ Own(q)' = Own(q)
  BY <1>1, Others DEF Own
<1>3. at[q] \in {"open", "write", "rename"} => disk'[Own(q)] = disk[Own(q)]
  <2>1. SUFFICES ASSUME at[q] \in {"open", "write", "rename"} PROVE disk'[Own(q)] = disk[Own(q)]
    OBVIOUS
  <2>2. Own(q) \in Name /\ Own(q) \notin old
    BY <1>1, <2>1, OwnNameOf DEF StageInv, Syncing
  <2> QED BY <1>1, <2>2, DiskChanges, OwnDistinct
<1> QED BY <1>2, <1>3 DEF ResolvedBy, EndsWell, AnswerOf

BringPlaces == {"touch", "stamp", "fill", "swap", "prune"}

\* The steps of the store, by what it shows of the process that takes one.
LEMMA StoreViews ==
    ASSUME CacheInv, NEW p \in Process, Acts(p)
    PROVE  LET resolved == [q \in Process |-> ResolvedBy(q)]
               answer == [q \in Process |-> AnswerOf(q)]
               synced == {q \in Process : EndsWell(q, "sync")}
           IN  /\ resolved' = [resolved EXCEPT ![p] = ResolvedBy(p)']
               /\ ResolvedBy(p)' = ResolvedBy(p) => resolved' = resolved
               /\ answer' = [answer EXCEPT ![p] = AnswerOf(p)']
               /\ AnswerOf(p)' = AnswerOf(p) => answer' = answer
               /\ at'[p] \in BringPlaces => Bringing' = Bringing \cup {p}
               /\ at'[p] \notin BringPlaces => Bringing' = Bringing \ {p}
               /\ (at'[p] \in BringPlaces <=> at[p] \in BringPlaces) => Bringing' = Bringing
               /\ EndsWell(p, "sync")' => synced' = synced \cup {p}
               /\ ~EndsWell(p, "sync")' => synced' = synced \ {p}
               /\ ~EndsWell(p, "sync")' /\ ~EndsWell(p, "sync") => synced' = synced
<1>1. \A q \in Process : q # p => /\ ResolvedBy(q)' = ResolvedBy(q) /\ at'[q] = at[q]
                                  /\ EndsWell(q, "sync")' = EndsWell(q, "sync")
                                  /\ AnswerOf(q)' = AnswerOf(q)
  BY OtherViews
<1>2. /\ [q \in Process |-> ResolvedBy(q)'] = [[q \in Process |-> ResolvedBy(q)] EXCEPT ![p] = ResolvedBy(p)']
      /\ ResolvedBy(p)' = ResolvedBy(p) =>
            [q \in Process |-> ResolvedBy(q)'] = [q \in Process |-> ResolvedBy(q)]
  BY <1>1
<1>3. /\ [q \in Process |-> AnswerOf(q)'] = [[q \in Process |-> AnswerOf(q)] EXCEPT ![p] = AnswerOf(p)']
      /\ AnswerOf(p)' = AnswerOf(p) =>
            [q \in Process |-> AnswerOf(q)'] = [q \in Process |-> AnswerOf(q)]
  BY <1>1
<1>4. /\ at'[p] \in BringPlaces => Bringing' = Bringing \cup {p}
      /\ at'[p] \notin BringPlaces => Bringing' = Bringing \ {p}
      /\ (at'[p] \in BringPlaces <=> at[p] \in BringPlaces) => Bringing' = Bringing
  BY <1>1 DEF Bringing, BringPlaces
<1>5. LET synced == {q \in Process : EndsWell(q, "sync")} IN
      /\ EndsWell(p, "sync")' => {q \in Process : EndsWell(q, "sync")'} = synced \cup {p}
      /\ ~EndsWell(p, "sync")' => {q \in Process : EndsWell(q, "sync")'} = synced \ {p}
      /\ ~EndsWell(p, "sync")' /\ ~EndsWell(p, "sync") => {q \in Process : EndsWell(q, "sync")'} = synced
  BY <1>1
<1> QED BY <1>2, <1>3, <1>4, <1>5

LEMMA HeadStays ==
    ASSUME NEW p \in Process, Acts(p)
    PROVE  head' = head
<1>1. CASE Quiet(p) \/ Call(p)
  BY <1>1, Frames DEF store
<1> QED BY <1>1, StepCases DEF Stamps, OpenManifest, Fill, Swap, Enumerate, Collect, OpenTmp, WriteTmp, Rename, Prune

\* A call that begins.
LEMMA StoreBegins ==
    ASSUME CacheInv, NEW p \in Process, Call(p), TypeOK', ~clash'
    PROVE  Store!Begin(p)
<1>1. TypeOK /\ Acts(p) /\ ~Rename(p)
  BY Places DEF CacheInv, Acts
<1>2. Cached' = Cached /\ head' = head
  BY <1>1, CachedKeeps, HeadStays
<1>3. at[p] = "idle" /\ at'[p] \in {"resolve", "ensure"}
  BY <1>1, Places
<1>4. ResolvedBy(p)' = ResolvedBy(p) /\ ~EndsWell(p, "sync")' /\ AnswerOf(p)' = None
  BY <1>3 DEF ResolvedBy, EndsWell, AnswerOf
<1>5. at'[p] \notin BringPlaces /\ at[p] \notin BringPlaces
  BY <1>3 DEF BringPlaces
<1> DEFINE resolved == [q \in Process |-> ResolvedBy(q)]
           answer == [q \in Process |-> AnswerOf(q)]
           synced == {q \in Process : EndsWell(q, "sync")}
<1>6. /\ resolved' = resolved /\ Bringing' = Bringing
      /\ synced' = synced \ {p} /\ answer' = [answer EXCEPT ![p] = None]
  BY <1>1, <1>4, <1>5, StoreViews
<1> QED BY <1>1, <1>2, <1>6 DEF Store!Begin

Silent(p) == ~EndsWell(p, "sync") /\ AnswerOf(p) = None

\* The other steps of the store, by what it shows of the call they are of.
LEMMA StoreSteps ==
    ASSUME CacheInv, NEW p \in Process, Acts(p), ~Call(p), TypeOK', ~clash', ~mixed'
    PROVE  LET Brings == at'[p] \in BringPlaces
               Still == Cached' = Cached
           IN  /\ Still /\ ResolvedBy(p)' = ResolvedBy(p) /\ (Brings <=> at[p] \in BringPlaces) /\ Silent(p)'
                     => UNCHANGED Store!storeVars
               /\ Still /\ ResolvedBy(p)' = head /\ (Brings <=> at[p] \in BringPlaces) /\ Silent(p)'
                     => Store!Resolve(p)
               /\ ResolvedBy(p) # 0 /\ Cached' = ResolvedBy(p) /\ ResolvedBy(p)' = 0 /\ Brings /\ Silent(p)'
                     => Store!Bring(p)
               /\ Still /\ ResolvedBy(p)' = 0 /\ ~Brings /\ Silent(p)'
                     => Store!Leave(p)
               /\ Still /\ ResolvedBy(p)' = ResolvedBy(p) /\ at[p] \in BringPlaces /\ ~Brings
                        /\ EndsWell(p, "sync")' /\ AnswerOf(p)' = None
                     => Store!Finish(p)
               /\ Still /\ Cached # 0 /\ ResolvedBy(p)' = ResolvedBy(p) /\ (Brings <=> at[p] \in BringPlaces)
                        /\ ~EndsWell(p, "sync")' /\ AnswerOf(p)' = Corpus[Cached]
                     => Store!Search(p)
<1> DEFINE resolved == [q \in Process |-> ResolvedBy(q)]
           answer == [q \in Process |-> AnswerOf(q)]
           synced == {q \in Process : EndsWell(q, "sync")}
<1>1. head' = head /\ at[p] \notin {"idle", "dead"}
  BY HeadStays, SameCall DEF CacheInv
<1>2. Silent(p)
  BY <1>1 DEF Silent, EndsWell, AnswerOf
<1>3. p \in Bringing <=> at[p] \in BringPlaces
  BY DEF Bringing, BringPlaces
<1>4. /\ resolved' = [resolved EXCEPT ![p] = ResolvedBy(p)']
      /\ ResolvedBy(p)' = ResolvedBy(p) => resolved' = resolved
      /\ answer' = [answer EXCEPT ![p] = AnswerOf(p)']
      /\ AnswerOf(p)' = None => answer' = answer
      /\ resolved[p] = ResolvedBy(p)
  BY <1>2, StoreViews DEF Silent
<1>5. /\ at'[p] \in BringPlaces => Bringing' = Bringing \cup {p}
      /\ at'[p] \notin BringPlaces => Bringing' = Bringing \ {p}
      /\ (at'[p] \in BringPlaces <=> at[p] \in BringPlaces) => Bringing' = Bringing
  BY StoreViews
<1>6. /\ EndsWell(p, "sync")' => synced' = synced \cup {p}
      /\ ~EndsWell(p, "sync")' => synced' = synced
  BY <1>2, StoreViews DEF Silent
<1>7. Silent(p)' => synced' = synced /\ answer' = answer
  BY <1>4, <1>6 DEF Silent
<1> DEFINE Brings == at'[p] \in BringPlaces
           Still == Cached' = Cached
<1>8. Still /\ ResolvedBy(p)' = ResolvedBy(p) /\ (Brings <=> at[p] \in BringPlaces) /\ Silent(p)'
         => UNCHANGED Store!storeVars
  <2>1. SUFFICES ASSUME Still, ResolvedBy(p)' = ResolvedBy(p), Brings <=> at[p] \in BringPlaces, Silent(p)'
                 PROVE  UNCHANGED Store!storeVars
    OBVIOUS
  <2>2. (clash \/ mixed)' = (clash \/ mixed)
    BY WritersKeep, MixedStays DEF CacheInv
  <2> QED BY <1>1, <1>4, <1>5, <1>7, <2>1, <2>2 DEF Store!storeVars
<1>9. Still /\ ResolvedBy(p)' = head /\ (Brings <=> at[p] \in BringPlaces) /\ Silent(p)'
         => Store!Resolve(p)
  BY <1>1, <1>4, <1>5, <1>7 DEF Store!Resolve
<1>10. ResolvedBy(p) # 0 /\ Cached' = ResolvedBy(p) /\ ResolvedBy(p)' = 0 /\ Brings /\ Silent(p)'
         => Store!Bring(p)
  BY <1>1, <1>4, <1>5, <1>7 DEF Store!Bring
<1>11. Still /\ ResolvedBy(p)' = 0 /\ ~Brings /\ Silent(p)' => Store!Leave(p)
  BY <1>1, <1>4, <1>5, <1>7 DEF Store!Leave
<1>12. /\ Still /\ ResolvedBy(p)' = ResolvedBy(p) /\ at[p] \in BringPlaces /\ ~Brings
       /\ EndsWell(p, "sync")' /\ AnswerOf(p)' = None
       => Store!Finish(p)
  BY <1>1, <1>3, <1>4, <1>5, <1>6 DEF Store!Finish
<1>13. /\ Still /\ Cached # 0 /\ ResolvedBy(p)' = ResolvedBy(p) /\ (Brings <=> at[p] \in BringPlaces)
       /\ ~EndsWell(p, "sync")' /\ AnswerOf(p)' = Corpus[Cached]
       => Store!Search(p)
  BY <1>1, <1>4, <1>5, <1>6 DEF Store!Search
<1> QED BY <1>8, <1>9, <1>10, <1>11, <1>12, <1>13

\* What a sync that goes on is to bring.
LEMMA ResolvedKeeps ==
    ASSUME CacheInv, NEW p \in Process, Acts(p), TypeOK', ~Call(p), at'[p] \notin {"idle", "dead"},
           ~ResolveCommit(p), ~Rename(p), ~(Load(p) /\ at'[p] = "touch"), ~(Swap(p) \/ Prune(p))
    PROVE  ResolvedBy(p)' = ResolvedBy(p) /\ (at'[p] \in BringPlaces <=> at[p] \in BringPlaces)
<1>1. TypeOK /\ NameInv /\ local[p] \in Local /\ Own(p)' = Own(p)
  BY SameCall DEF CacheInv, TypeOK, Own
<1> DEFINE Outside == {"ensure", "resolve", "generation", "sections", "parse", "retry", "recheck", "pin", "get"}
<1>2. CASE at[p] \in Outside /\ at'[p] \in Outside
  BY <1>2 DEF ResolvedBy, BringPlaces
<1>3. CASE Quiet(p) /\ ~Load(p) /\ ~Touch(p)
  <2>1. EnsureCache(p) => at[p] \in Outside /\ at'[p] \in Outside
    BY <1>1, PlaceSet DEF EnsureCache, FirstRead
  <2>2. ~Fails(p) /\ ~Kill(p)
    BY <1>1, PlaceSet DEF Fails, Kill, TypeOK
  <2>3. Generation(p) \/ Sections(p) \/ Parse(p) => at[p] \in Outside /\ at'[p] \in Outside
    BY <1>1, PlaceSet DEF Generation, Sections, Parse
  <2>4. Retry(p) \/ Recheck(p) \/ Pin(p) \/ Get(p) => at[p] \in Outside /\ at'[p] \in Outside
    BY <1>1, PlaceSet DEF Retry, Recheck, Pin, Get
  <2> QED BY <1>2, <1>3, <2>1, <2>2, <2>3, <2>4 DEF Quiet
<1>4. CASE Load(p)
  <2> DEFINE loaded == IF Current # None /\ Readable(Current) THEN Current ELSE None
             commit == IF loaded = None THEN 0 ELSE disk[loaded].commit
  <2>1. local'[p] = [local[p] EXCEPT !.loaded = loaded, !.prev = commit]
    BY <1>1, <1>4, LocalSet DEF Load
  <2> HIDE DEF loaded, commit
  <2>2. local'[p].commit = local[p].commit
    BY <1>1, <2>1 DEF Local
  <2>3. at[p] = "load" /\ at'[p] = "enumerate"
    BY <1>1, <1>4, PlaceSet DEF Load
  <2> QED BY <2>2, <2>3 DEF ResolvedBy, BringPlaces
<1>5. CASE Touch(p) \/ OpenManifest(p) \/ Fill(p)
  <2>1. at[p] \in {"touch", "stamp", "fill"} /\ at'[p] \in {"stamp", "fill", "swap"}
    BY <1>1, <1>5, Places
  <2> QED BY <2>1 DEF ResolvedBy, BringPlaces
<1>6. CASE Enumerate(p)
  <2> DEFINE source == IF local[p].prev = 0 THEN None ELSE Current
  <2>1. local'[p] = [local[p] EXCEPT !.from = source]
    BY <1>1, <1>6, LocalSet DEF Enumerate
  <2> HIDE DEF source
  <2>2. local'[p].commit = local[p].commit
    BY <1>1, <2>1 DEF Local
  <2>3. at[p] = "enumerate" /\ at'[p] = "collect"
    BY <1>1, <1>6, Places
  <2> QED BY <2>2, <2>3 DEF ResolvedBy, BringPlaces
<1>7. CASE Collect(p)
  <2>1. at[p] = "collect" /\ at'[p] = "open" /\ Own(p) \in Name
    BY <1>1, <1>7, Places, OwnNameOf
  <2>2. disk' = [disk EXCEPT ![Own(p)] = [commit |-> local[p].commit, files |-> Collected(p)]]
    BY <1>1, <1>7, <2>1, PlaceSet DEF Collect, Discard
  <2>3. disk'[Own(p)].commit = local[p].commit
    BY <1>1, <2>1, <2>2 DEF TypeOK
  <2> QED BY <1>1, <2>1, <2>3 DEF ResolvedBy, BringPlaces
<1>8. CASE OpenTmp(p) \/ WriteTmp(p)
  <2>1. at[p] \in {"open", "write"} /\ at'[p] \in {"write", "rename"}
    BY <1>1, <1>8, Places
  <2>2. disk' = disk
    BY <1>1, <1>8, <2>1, PlaceSet DEF OpenTmp, WriteTmp, Discard
  <2> QED BY <1>1, <2>1, <2>2 DEF ResolvedBy, BringPlaces
<1> QED BY <1>3, <1>4, <1>5, <1>6, <1>7, <1>8, StepCases DEF Stamps

LEMMA StoreGoesOn ==
    ASSUME CacheInv, NEW p \in Process, Acts(p), ~Call(p), TypeOK', ~clash', ~mixed'
    PROVE  Store!Kept \/ UNCHANGED Store!storeVars
<1>1. /\ TypeOK /\ NameInv /\ PointerInv /\ SourceInv /\ CallInv /\ local[p] \in Local
      /\ ~clash /\ at[p] \notin {"idle", "dead"} /\ UNCHANGED <<calls, op>>
  BY WritersKeep, SameCall DEF CacheInv, TypeOK
<1> DEFINE Brings == at'[p] \in BringPlaces
<1>2. /\ Store!Resolve(p) => Store!Kept
      /\ Store!Bring(p) => Store!Kept
      /\ Store!Leave(p) => Store!Kept
      /\ Store!Finish(p) => Store!Kept
      /\ Store!Search(p) => Store!Kept
  BY DEF Store!Kept
<1>3. CASE EndsWell(p, "search")'
  <2>1. /\ Generation(p) \/ Recheck(p)
        /\ index'[p] # None /\ index'[p].gen = CurrentName
    BY <1>3, SearchEnds DEF EndsWell
  <2>2. Cached' = Cached /\ CurrentName' = CurrentName /\ disk' = disk
    <3>1. ~Rename(p)
      BY <1>1, <2>1, Places DEF Generation, Recheck
    <3> QED BY <2>1, <3>1, CachedKeeps DEF Generation, Recheck, store
  <2>3. index'[p] \in Index /\ BuiltFrom(index'[p])
    <3>1. index'[p] \in {index[p], local[p].built, None}
      BY <1>1, IndexSet DEF TypeOK
    <3>2. index[p] \in Index \cup {None} /\ local[p].built \in Index \cup {None}
      BY <1>1 DEF TypeOK, Local
    <3>3. \A x \in {index[p], local[p].built} : x # None => BuiltFrom(x)
      BY DEF CacheInv, IndexInv
    <3> QED BY <2>1, <3>1, <3>2, <3>3
  <2>4. CurrentName \in Name /\ pointer # None /\ Published(CurrentName)
    <3>1. CurrentName \in Name
      BY <2>1, <2>3 DEF Index
    <3>2. pointer # None
      BY <3>1, NameAssumption DEF CurrentName
    <3> QED BY <1>1, <3>1, <3>2 DEF PointerInv, Complete
  <2>5. Cached = index'[p].commit /\ Cached # 0
    BY <2>1, <2>3, <2>4 DEF BuiltFrom, Cached, Current, Published
  <2>6. index'[p].files = Corpus[Cached]
    <3>1. ~mixed
      BY <1>1, MixedStays
    <3> QED BY <2>3, <2>5, <3>1 DEF BuiltFrom, Faithful
  <2>7. AnswerOf(p)' = Corpus[Cached] /\ ~EndsWell(p, "sync")'
    BY <1>3, <2>6 DEF AnswerOf, EndsWell
  <2>8. ResolvedBy(p)' = ResolvedBy(p) /\ (Brings <=> at[p] \in BringPlaces)
    BY <1>3, <2>1 DEF Generation, Recheck, EndsWell, ResolvedBy, BringPlaces
  <2> QED BY <1>2, <2>2, <2>5, <2>7, <2>8, StoreSteps
<1>4. CASE EndsWell(p, "sync")'
  <2>1. Swap(p) \/ Prune(p)
    BY <1>4, SyncEnds DEF EndsWell
  <2>2. at[p] \in {"swap", "prune"} /\ at'[p] = "idle"
    BY <1>4, <2>1 DEF Swap, Prune, EndsWell
  <2>3. ResolvedBy(p)' = ResolvedBy(p) /\ at[p] \in BringPlaces /\ ~Brings /\ AnswerOf(p)' = None
    BY <1>4, <2>2 DEF ResolvedBy, BringPlaces, AnswerOf, EndsWell
  <2>4. Cached' = Cached
    BY <1>1, <2>2, CachedKeeps, Places
  <2> QED BY <1>2, <1>4, <2>3, <2>4, StoreSteps
<1> DEFINE Neither == ~EndsWell(p, "search")' /\ ~EndsWell(p, "sync")'
<1>5. Neither => Silent(p)'
  BY DEF Silent, AnswerOf
<1>6. CASE Neither /\ ~Rename(p) /\ at'[p] \in {"idle", "dead"}
  <2>1. ResolvedBy(p)' = 0 /\ ~Brings
    BY <1>6 DEF ResolvedBy, BringPlaces
  <2> QED BY <1>2, <1>5, <1>6, <2>1, CachedKeeps, StoreSteps
<1>7. CASE Neither /\ (Swap(p) \/ Prune(p))
  <2>1. at'[p] \in {"idle", "generation", "pin"} /\ ~Rename(p)
    BY <1>1, <1>7, Places
  <2>2. ResolvedBy(p)' = 0 /\ ~Brings
    BY <2>1 DEF ResolvedBy, BringPlaces
  <2> QED BY <1>2, <1>5, <1>7, <2>1, <2>2, CachedKeeps, StoreSteps
<1>8. CASE Neither /\ Rename(p)
  <2>1. /\ at[p] = "rename" /\ at'[p] = "prune"
        /\ disk[Own(p)].commit # 0 /\ Cached' = disk[Own(p)].commit
    BY <1>8, CachedRenamed
  <2>2. ResolvedBy(p) = disk[Own(p)].commit /\ ResolvedBy(p)' = 0 /\ Brings
    BY <2>1 DEF ResolvedBy, BringPlaces
  <2> QED BY <1>2, <1>5, <1>8, <2>1, <2>2, StoreSteps
<1>9. CASE Neither /\ ResolveCommit(p)
  <2>1. at[p] = "resolve" /\ at'[p] = "load" /\ local'[p] = [local[p] EXCEPT !.commit = head]
    BY <1>1, <1>9, LocalSet DEF ResolveCommit
  <2>2. local'[p].commit = head
    BY <1>1, <2>1 DEF Local
  <2>3. ResolvedBy(p)' = head /\ (Brings <=> at[p] \in BringPlaces)
    BY <2>1, <2>2 DEF ResolvedBy, BringPlaces
  <2>4. Cached' = Cached
    BY <1>1, <2>1, CachedKeeps, Places
  <2> QED BY <1>2, <1>5, <1>9, <2>3, <2>4, StoreSteps
<1>10. CASE Neither /\ Load(p) /\ at'[p] = "touch"
  <2>1. at[p] = "load" /\ Current # None /\ disk[Current].commit = local[p].commit /\ local[p].commit # 0
    <3>1. at[p] = "load" /\ local[p].commit # 0
      BY <1>1, <1>10 DEF Load, SourceInv
    <3> DEFINE loaded == IF Current # None /\ Readable(Current) THEN Current ELSE None
               commit == IF loaded = None THEN 0 ELSE disk[loaded].commit
    <3>2. commit = local[p].commit
      BY <1>1, <1>10, PlaceSet DEF Load
    <3>3. loaded # None
      BY <3>1, <3>2
    <3> QED BY <3>1, <3>2, <3>3
  <2>2. Cached' = Cached
    BY <1>1, <2>1, CachedKeeps, Places
  <2>3. /\ ResolvedBy(p) # 0 /\ Cached' = ResolvedBy(p)
        /\ ResolvedBy(p)' = 0 /\ Brings
    BY <1>10, <2>1, <2>2 DEF ResolvedBy, BringPlaces, Cached
  <2> QED BY <1>2, <1>5, <1>10, <2>3, StoreSteps
<1>11. CASE /\ Neither /\ at'[p] \notin {"idle", "dead"}
            /\ ~ResolveCommit(p) /\ ~Rename(p) /\ ~(Load(p) /\ at'[p] = "touch") /\ ~(Swap(p) \/ Prune(p))
  <2>1. ResolvedBy(p)' = ResolvedBy(p) /\ (Brings <=> at[p] \in BringPlaces)
    BY <1>11, ResolvedKeeps
  <2>2. Cached' = Cached
    BY <1>11, CachedKeeps
  <2> QED BY <1>5, <1>11, <2>1, <2>2, StoreSteps
<1> QED BY <1>3, <1>4, <1>6, <1>7, <1>8, <1>9, <1>10, <1>11

\* Time passing changes nothing there is a copy of, and a push only the source.
LEMMA StoreOutside ==
    ASSUME UNCHANGED <<disk, text, pointer, at, op, local, index, outcome, clash, mixed, calls>>
    PROVE  /\ head' = head => UNCHANGED Store!storeVars
           /\ Push => Store!Push
<1>1. Cached' = Cached
  BY DEF Cached, Current, CurrentName, Published
<1>2. \A p \in Process : /\ ResolvedBy(p)' = ResolvedBy(p) /\ AnswerOf(p)' = AnswerOf(p)
                         /\ \A o : EndsWell(p, o)' = EndsWell(p, o)
  BY DEF ResolvedBy, AnswerOf, EndsWell, Own
<1>3. /\ [p \in Process |-> ResolvedBy(p)'] = [p \in Process |-> ResolvedBy(p)]
      /\ [p \in Process |-> AnswerOf(p)'] = [p \in Process |-> AnswerOf(p)]
      /\ {p \in Process : EndsWell(p, "sync")'} = {p \in Process : EndsWell(p, "sync")}
      /\ Bringing' = Bringing
  BY <1>2 DEF Bringing
<1>4. head' = head => UNCHANGED Store!storeVars
  BY <1>1, <1>3 DEF Store!storeVars
<1>5. Push => Store!Push
  BY <1>1, <1>3 DEF Push, Store!Push, Commit
<1> QED BY <1>4, <1>5

LEMMA StoreStep == CacheInv /\ CacheInv' /\ [Next]_vars => [Store!Next]_(Store!storeVars)
<1> SUFFICES ASSUME CacheInv, CacheInv', [Next]_vars PROVE Store!Next \/ UNCHANGED Store!storeVars
  OBVIOUS
<1>1. TypeOK'
  BY DEF CacheInv
<1>2. Store!Kept /\ ~clash' /\ ~mixed' => Store!Next
  BY DEF Store!Next
<1>3. CASE clash' \/ mixed'
  BY <1>3 DEF Store!Next
<1>4. CASE ~clash' /\ ~mixed' /\ \E p \in Process : Acts(p)
  <2>1. PICK p \in Process : Acts(p)
    BY <1>4
  <2>2. CASE Call(p)
    <3>1. Store!Begin(p)
      BY <1>1, <1>4, <2>1, <2>2, StoreBegins
    <3> QED BY <1>2, <1>4, <2>1, <3>1 DEF Store!Kept
  <2>3. CASE ~Call(p)
    BY <1>1, <1>2, <1>4, <2>1, <2>3, StoreGoesOn
  <2> QED BY <2>2, <2>3
<1>5. CASE Age \/ UNCHANGED vars
  BY <1>5, StoreOutside DEF Age, vars, store, request, history
<1>6. CASE Push /\ ~clash' /\ ~mixed'
  <2>1. Store!Push
    BY <1>6, StoreOutside DEF Push, request, history
  <2> QED BY <1>2, <1>6, <2>1 DEF Store!Kept
<1> QED BY <1>3, <1>4, <1>5, <1>6 DEF Next, Acts, Done

LEMMA StoreInit == Init => Store!Init
<1> SUFFICES ASSUME Init PROVE Store!Init
  OBVIOUS
<1>1. Cached \in {0, 1}
  <2>1. Before \in Name
    BY DEF Name
  <2>2. \A n \in Name : disk[n] \in {None, [commit |-> 1, files |-> Corpus[1]]}
    BY DEF Init
  <2>3. Current # None => Current \in Name /\ disk[Current].commit = 1
    <3>1. TypeOK
      BY InitCacheInv DEF CacheInv
    <3> QED BY <2>2, <3>1, CurrentFacts DEF Published
  <2> QED BY <2>3 DEF Cached
<1>2. \A p \in Process : at[p] = "idle" /\ outcome[p] = "none"
  BY DEF Init
<1>3. \A p \in Process : ResolvedBy(p) = 0 /\ AnswerOf(p) = None /\ ~EndsWell(p, "sync")
  BY <1>2 DEF ResolvedBy, AnswerOf, EndsWell
<1>4. Bringing = {}
  BY <1>2 DEF Bringing
<1> QED BY <1>1, <1>3, <1>4 DEF Init, Store!Init

\* Directories, pointer files, renewals, pruning and resident indexes amount to
\* one copy of the documents: a sync that ends well has brought the commit the
\* source stood at during the call, and a search is answered at one stroke from
\* the copy there is, until two processes write one file at once or one copies
\* from a snapshot it had not loaded.
THEOREM ImplementsStore == Spec => StoreHolds
  BY StoreInit, StoreStep, CacheInvHolds, PTL DEF Spec, StoreHolds, Store!Spec

(***************************************************************************)
(* The length of a call.                                                   *)
(***************************************************************************)
LEMMA HeightIs ==
    /\ Height["idle"] = 0 /\ Height["dead"] = 0 /\ Height["get"] = 1 /\ Height["pin"] = 2
    /\ Height["retry"] = 2 /\ Height["recheck"] = 2 /\ Height["parse"] = 3 /\ Height["sections"] = 4
    /\ Height["generation"] = 13 /\ Height["prune"] = 14 /\ Height["rename"] = 15 /\ Height["write"] = 16
    /\ Height["open"] = 17 /\ Height["collect"] = 18 /\ Height["enumerate"] = 19
    /\ Height["swap"] = 14 /\ Height["fill"] = 15 /\ Height["stamp"] = 16 /\ Height["touch"] = 17
    /\ Height["load"] = 20 /\ Height["resolve"] = 21 /\ Height["ensure"] = 22
  BY DEF Height

LEMMA TryingIs ==
    /\ {"sections", "parse", "retry", "recheck"} \subseteq Trying
    /\ \A place \in Place \ {"sections", "parse", "retry", "recheck"} : place \notin Trying
    /\ MaxAttempts = 3
  BY DEF Trying, MaxAttempts

LEMMA StepsLeftIs ==
    ASSUME TypeOK, TriesInv, NEW p \in Process
    PROVE  /\ at[p] \notin Trying => StepsLeft(p) = Height[at[p]]
           /\ at[p] \in Trying => /\ local[p].tries \in 1..3
                                  /\ StepsLeft(p) = Height[at[p]] + 4 * (3 - local[p].tries)
           /\ StepsLeft(p) \in 0..22
<1>1. at[p] \in Place
  BY DEF TypeOK
<1>2. at[p] \in Trying => local[p].tries \in 1..3
  BY TryingIs DEF TriesInv
<1>3. at[p] \notin Trying => StepsLeft(p) = Height[at[p]]
  <2>1. Height[at[p]] \in Nat
    BY <1>1, HeightIs DEF Place
  <2> QED BY <2>1 DEF StepsLeft
<1>4. at[p] \in Trying => StepsLeft(p) = Height[at[p]] + 4 * (3 - local[p].tries)
  BY TryingIs DEF StepsLeft
<1>5. Height[at[p]] \in 0..22
  BY <1>1, HeightIs DEF Place
<1>6. at[p] \in Trying => Height[at[p]] \in 2..4
  BY HeightIs DEF Trying
<1>7. CASE at[p] \in Trying
  <2>1. \A h \in 2..4 : \A t \in 1..3 : h + 4 * (3 - t) \in 0..22
    OBVIOUS
  <2> QED BY <1>2, <1>3, <1>4, <1>6, <1>7, <2>1
<1> QED BY <1>2, <1>3, <1>4, <1>5, <1>7

\* Another attempt counts.
LEMMA AgainShortens ==
    ASSUME TypeOK, NEW p \in Process, local[p].tries \in 1..3, Again(p)
    PROVE  \/ at'[p] = "idle"
           \/ at'[p] = "sections" /\ local'[p].tries = local[p].tries + 1 /\ local'[p].tries \in 1..3
<1> DEFINE l == [local[p] EXCEPT !.gen = CurrentName, !.tries = @ + 1]
<1>1. CASE local[p].tries < 3
  <2>1. at'[p] = "sections" /\ local'[p] = l
    BY <1>1, TryingIs, LocalSet DEF Again
  <2>2. l.tries = local[p].tries + 1
    BY DEF TypeOK, Local
  <2> HIDE DEF l
  <2> QED BY <1>1, <2>1, <2>2
<1>2. CASE ~(local[p].tries < 3)
  BY <1>2, TryingIs, PlaceSet DEF Again
<1> QED BY <1>1, <1>2

\* Every step of a call is towards its end, and keeps count of the attempts.
LEMMA StepShortens ==
    ASSUME TypeOK, TriesInv, NEW p \in Process, Step(p), TypeOK'
    PROVE  /\ at'[p] \in Trying => local'[p].tries \in 1..3
           /\ \/ at'[p] \notin Trying /\ Height[at'[p]] < StepsLeft(p)
              \/ at'[p] \in Trying /\ Height[at'[p]] + 4 * (3 - local'[p].tries) < StepsLeft(p)
<1>1. /\ at[p] \notin Trying => StepsLeft(p) = Height[at[p]]
      /\ at[p] \in Trying => /\ local[p].tries \in 1..3
                             /\ StepsLeft(p) = Height[at[p]] + 4 * (3 - local[p].tries)
      /\ local[p] \in Local
  BY StepsLeftIs DEF TypeOK
<1> USE HeightIs
<1>2. CASE EnsureCache(p)
  <2>1. at[p] = "ensure" /\ at'[p] \in {"generation", "pin", "idle", "resolve"}
    BY <1>2, PlaceSet DEF EnsureCache, FirstRead
  <2> QED BY <1>1, <2>1 DEF Trying
<1>3. CASE Fails(p) \/ ResolveCommit(p) \/ Load(p)
  <2>1. \/ at[p] \in {"resolve", "enumerate"} /\ at'[p] = "idle"
        \/ at[p] = "resolve" /\ at'[p] = "load"
        \/ at[p] = "load" /\ at'[p] \in {"touch", "enumerate"}
    BY <1>3, PlaceSet DEF Fails, ResolveCommit, Load
  <2> QED BY <1>1, <2>1 DEF Trying
<1>4. CASE Touch(p) \/ OpenManifest(p) \/ Fill(p) \/ Swap(p)
  <2>1. \/ at[p] = "touch" /\ at'[p] \in {"stamp", "idle"}
        \/ at[p] = "stamp" /\ at'[p] \in {"fill", "idle"}
        \/ at[p] = "fill" /\ at'[p] \in {"swap", "idle"}
        \/ at[p] = "swap" /\ at'[p] \in {"idle", "generation", "pin"}
    BY <1>4, Places
  <2> QED BY <1>1, <2>1 DEF Trying
<1>5. CASE Enumerate(p) \/ Collect(p) \/ OpenTmp(p) \/ WriteTmp(p) \/ Rename(p) \/ Prune(p)
  <2>1. \/ at[p] = "enumerate" /\ at'[p] = "collect"
        \/ at[p] = "collect" /\ at'[p] \in {"open", "idle"}
        \/ at[p] = "open" /\ at'[p] = "write"
        \/ at[p] = "write" /\ at'[p] \in {"rename", "idle"}
        \/ at[p] = "rename" /\ at'[p] \in {"prune", "idle"}
        \/ at[p] = "prune" /\ at'[p] \in {"idle", "generation", "pin"}
    BY <1>5, Places
  <2> QED BY <1>1, <2>1 DEF Trying
<1>6. CASE Generation(p)
  <2> DEFINE l == [local[p] EXCEPT !.gen = CurrentName, !.tries = 1]
  <2>1. l.tries = 1
    BY <1>1 DEF Local
  <2>2. at[p] = "generation" /\ (at'[p] = "idle" \/ (at'[p] = "sections" /\ local'[p] = l))
    BY <1>6, LocalSet, PlaceSet DEF Generation
  <2> HIDE DEF l
  <2> QED BY <1>1, <2>1, <2>2 DEF Trying
<1>7. CASE Sections(p) \/ Parse(p)
  <2>1. \/ at[p] = "sections" /\ at'[p] \in {"parse", "retry"}
        \/ at[p] = "parse" /\ at'[p] \in {"recheck", "retry"}
    BY <1>7, PlaceSet DEF Sections, Parse
  <2>2. local'[p].tries = local[p].tries
    <3>1. CASE Sections(p)
      <4>1. local'[p] = [local[p] EXCEPT !.pin = Current]
        BY <3>1, LocalSet DEF Sections
      <4> QED BY <1>1, <4>1 DEF Local
    <3>2. CASE Parse(p)
      <4> DEFINE i == [gen |-> local[p].pin, commit |-> disk[local[p].pin].commit, files |-> disk[local[p].pin].files]
      <4>1. local'[p] \in {[local[p] EXCEPT !.built = i], local[p]}
        BY <3>2, LocalSet DEF Parse
      <4> HIDE DEF i
      <4> QED BY <1>1, <4>1 DEF Local
    <3> QED BY <1>7, <3>1, <3>2
  <2>3. at[p] \in Trying /\ at'[p] \in Trying /\ local[p].tries \in 1..3
    BY <1>1, <2>1 DEF Trying
  <2>4. Height[at'[p]] < Height[at[p]] /\ Height[at'[p]] \in Nat /\ Height[at[p]] \in Nat
    BY <2>1
  <2> QED BY <1>1, <2>2, <2>3, <2>4
<1>8. CASE Retry(p) \/ Recheck(p)
  <2>1. at[p] \in {"retry", "recheck"} /\ (at'[p] = "idle" \/ Again(p))
    BY <1>8, PlaceSet DEF Retry, Recheck
  <2>2. at[p] \in Trying /\ local[p].tries \in 1..3 /\ StepsLeft(p) = 2 + 4 * (3 - local[p].tries)
    BY <1>1, <2>1 DEF Trying
  <2>3. \/ at'[p] = "idle"
        \/ at'[p] = "sections" /\ local'[p].tries = local[p].tries + 1 /\ local'[p].tries \in 1..3
    BY <2>1, <2>2, AgainShortens
  <2>4. "idle" \notin Trying /\ "sections" \in Trying
    BY DEF Trying
  <2> QED BY <2>2, <2>3, <2>4
<1>9. CASE Pin(p) \/ Get(p)
  <2>1. at[p] \in {"pin", "get"} /\ (at'[p] = "idle" \/ (at[p] = "pin" /\ at'[p] = "get"))
    BY <1>9, PlaceSet DEF Pin, Get
  <2> QED BY <1>1, <2>1 DEF Trying
<1> QED BY <1>2, <1>3, <1>4, <1>5, <1>6, <1>7, <1>8, <1>9 DEF Step

LEMMA CallLengths ==
    ASSUME TypeOK, TriesInv, [Next]_vars, TypeOK'
    PROVE  /\ TriesInv'
           /\ \A p \in Process : /\ Step(p) => StepsLeft(p)' < StepsLeft(p)
                                 /\ ~Step(p) /\ ~Call(p) => StepsLeft(p)' <= StepsLeft(p)
<1>1. ASSUME NEW p \in Process, at'[p] = at[p], local'[p] = local[p]
      PROVE  /\ at'[p] \in Trying => local'[p].tries \in 1..3
             /\ StepsLeft(p)' = StepsLeft(p)
  BY <1>1, TryingIs DEF TriesInv, StepsLeft
<1>2. ASSUME NEW p \in Process, Kill(p)
      PROVE  /\ at'[p] = "dead" /\ at'[p] \notin Trying
  BY <1>2 DEF Kill, Trying, TypeOK
<1>3. ASSUME NEW p \in Process, Call(p)
      PROVE  at'[p] \notin Trying
  BY <1>3, Places DEF Trying
<1>4. ASSUME NEW p \in Process
      PROVE  \/ Step(p) \/ Kill(p) \/ Call(p)
             \/ at'[p] = at[p] /\ local'[p] = local[p]
  <2>1. CASE \E q \in Process : q # p /\ Acts(q)
    BY <2>1, Others
  <2>2. CASE Age \/ Push \/ UNCHANGED vars
    BY <2>2 DEF Age, Push, vars
  <2> QED BY <2>1, <2>2 DEF Next, Acts, Done
<1>5. TriesInv'
  <2>1. ASSUME NEW p \in Process, at'[p] \in Trying PROVE local'[p].tries \in 1..3
    BY <1>1, <1>2, <1>3, <1>4, <2>1, StepShortens
  <2> QED BY <2>1, TryingIs DEF TriesInv, MaxAttempts
<1>6. ASSUME NEW p \in Process
      PROVE  /\ at'[p] \notin Trying => StepsLeft(p)' = Height[at'[p]]
             /\ at'[p] \in Trying => StepsLeft(p)' = Height[at'[p]] + 4 * (3 - local'[p].tries)
  BY <1>5, TryingIs, HeightIs DEF StepsLeft, TypeOK, Place, MaxAttempts
<1>7. ASSUME NEW p \in Process, Step(p)
      PROVE  StepsLeft(p)' < StepsLeft(p)
  BY <1>6, <1>7, StepShortens
<1>8. ASSUME NEW p \in Process, ~Step(p), ~Call(p)
      PROVE  StepsLeft(p)' <= StepsLeft(p)
  <2>1. StepsLeft(p) \in 0..22
    BY StepsLeftIs
  <2>2. CASE Kill(p)
    BY <1>2, <1>6, <2>1, <2>2, HeightIs
  <2>3. CASE at'[p] = at[p] /\ local'[p] = local[p]
    BY <1>1, <2>1, <2>3
  <2> QED BY <1>4, <1>8, <2>2, <2>3
<1> QED BY <1>5, <1>7, <1>8

\* A call has at most 22 steps to go, each of its steps brings it nearer to its
\* end, and nothing another process does sends it back: a search makes three
\* attempts and no more (resolveIndex).
THEOREM CallsAreBounded == Spec => CallsBounded
<1> DEFINE Few == \A p \in Process : StepsLeft(p) \in 0..22
           Nearer == \A p \in Process : /\ Step(p) => StepsLeft(p)' < StepsLeft(p)
                                        /\ ~Step(p) /\ ~Call(p) => StepsLeft(p)' <= StepsLeft(p)
<1>1. Init => TriesInv
  BY DEF Init, TriesInv, Trying
<1>2. CacheInv /\ CacheInv' /\ TriesInv /\ [Next]_vars => TriesInv' /\ Nearer
  BY CallLengths DEF CacheInv
<1>3. CacheInv /\ TriesInv => Few
  BY StepsLeftIs DEF CacheInv
<1>4. CallsBounded <=> []Few /\ [][Nearer]_vars
  BY DEF CallsBounded
<1> HIDE DEF Few, Nearer
<1> QED BY <1>1, <1>2, <1>3, <1>4, CacheInvHolds, PTL DEF Spec

=============================================================================
