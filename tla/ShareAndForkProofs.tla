------------------------- MODULE ShareAndForkProofs -------------------------
(***************************************************************************)
(* Proofs about Sharing, then about Forking, for any number of commands,   *)
(* shares and releases; then owners and visitors together: each side's     *)
(* steps are steps the other side's module allows its surroundings, so     *)
(* what is proved of the sides holds of both, and a copy was confirmed by  *)
(* both.                                                                   *)
(***************************************************************************)
EXTENDS ShareAndFork, TLAPS

(***************************************************************************)
(* Owners on their own.                                                    *)
(***************************************************************************)

(***************************************************************************)
(* What a call changes of the shares.                                      *)
(***************************************************************************)
LEMMA CreateFacts ==
    ASSUME shares \in [ShareIds -> Share], NEW s \in ShareIds, NEW reshare \in {"yes", "no"}, CreateShare(s, reshare)
    PROVE  /\ shares' \in [ShareIds -> Share]
           /\ \A t \in ShareIds : shares'[t].release = shares[t].release
           /\ \A t \in ShareIds : t # s => shares'[t] = shares[t]
           /\ shares'[s].status = "draft" /\ shares'[s].reshare = reshare
  BY DEF CreateShare, Share, Status

LEMMA UpdateFacts ==
    ASSUME shares \in [ShareIds -> Share], NEW s \in ShareIds, NEW fields, UpdateShare(s, fields)
    PROVE  /\ shares' \in [ShareIds -> Share]
           /\ \A t \in ShareIds : shares'[t].release = shares[t].release
           /\ \A t \in ShareIds : t # s => shares'[t] = shares[t]
           /\ shares'[s].status = IF "on" \in fields THEN "active" ELSE IF "off" \in fields THEN "disabled" ELSE shares[s].status
           /\ shares'[s].reshare = IF "allow" \in fields THEN "yes" ELSE IF "stop" \in fields THEN "no" ELSE shares[s].reshare
  BY DEF UpdateShare, Share, Status

LEMMA PublishFacts ==
    ASSUME shares \in [ShareIds -> Share], build \in Build, NEW s \in ShareIds, NEW d, PublishRelease(s, d)
    PROVE  /\ shares' \in [ShareIds -> Share]
           /\ d = build
           /\ \A t \in ShareIds : t # s => shares'[t] = shares[t]
           /\ shares'[s].status = shares[s].status /\ shares'[s].reshare = shares[s].reshare
           /\ shares'[s].release.id = shares[s].release.id + 1
           /\ shares'[s].release.build = build
  <1>1. NextRelease(s) \in Release
    BY DEF Share, Release, NextRelease
  <1> QED
    BY <1>1 DEF PublishRelease, NextRelease, Share, Status, Release

(***************************************************************************)
(* The invariant holds at first, and every step keeps it.                  *)
(***************************************************************************)
LEMMA SharingInitSafe == SharingInit => SharingInv
  BY ShareServerAssumption, SharingAssumption
     DEF SharingInit, ServerInit, SharingInv, SharingTypeOK, ServerTypeOK, Build, NoBuild, Release, NoRelease,
         Share, NoShare, Status, FirstBuild, FirstRelease, Place, Result, Begun, Consistent, NoReleaseLost,
         ReleasesConfirmed, OldReleaseStaysOff, ConsentGiven, ConsentTakenBack, OffStays, Covers, Command

LEMMA StartSafe ==
    ASSUME SharingInv, NEW o \in Owners, Start(o)
    PROVE  SharingInv'
  <1>1. SharingTypeOK'
    BY ShareServerAssumption, SharingAssumption
       DEF SharingInv, Start, OnlyMoves, Goes, Ends, serverVars, SharingTypeOK, ServerTypeOK, Place, Result, Begun,
           Command, FirstStep, Share, Status
  <1>2. \A p \in Owners : Consistent(p)'
    BY <1>1, ShareServerAssumption, SharingAssumption
       DEF SharingInv, Start, OnlyMoves, Goes, Ends, serverVars, SharingTypeOK, ServerTypeOK, Consistent, Covers,
           Begun, ConfirmedAlready, Share, Release, Status, FirstStep, NoReleaseLost
  <1>3. NoReleaseLost'
    BY <1>1, ShareServerAssumption, SharingAssumption
       DEF SharingInv, Start, OnlyMoves, Goes, Ends, serverVars, SharingTypeOK, ServerTypeOK, NoReleaseLost,
           Consistent, Share, Release, Status
  <1>4. ReleasesConfirmed'
    BY <1>1, ShareServerAssumption, SharingAssumption
       DEF SharingInv, Start, OnlyMoves, Goes, Ends, serverVars, SharingTypeOK, ServerTypeOK, ReleasesConfirmed,
           Covers, Consistent, Begun, ConfirmedAlready, Build
  <1>5. OldReleaseStaysOff'
    BY <1>1, ShareServerAssumption, SharingAssumption
       DEF SharingInv, Start, OnlyMoves, Goes, Ends, serverVars, SharingTypeOK, ServerTypeOK, OldReleaseStaysOff,
           Consistent, Begun, Share, Release, Status, NoReleaseLost
  <1>6. ConsentGiven'
    BY <1>1, ShareServerAssumption, SharingAssumption
       DEF SharingInv, Start, OnlyMoves, Goes, Ends, serverVars, SharingTypeOK, ServerTypeOK, ConsentGiven,
           Consistent, Begun, Share, Release, Status
  <1>7. ConsentTakenBack'
    BY <1>1, ShareServerAssumption, SharingAssumption
       DEF SharingInv, Start, OnlyMoves, Goes, Ends, serverVars, SharingTypeOK, ServerTypeOK, ConsentTakenBack,
           Consistent, Begun, Share, Release, Status, FirstStep
  <1>8. OffStays'
    BY <1>1, ShareServerAssumption, SharingAssumption
       DEF SharingInv, Start, OnlyMoves, Goes, Ends, serverVars, SharingTypeOK, ServerTypeOK, OffStays, Consistent,
           Begun, Share, Release, Status
  <1> QED
    BY <1>1, <1>2, <1>3, <1>4, <1>5, <1>6, <1>7, <1>8 DEF SharingInv

LEMMA PutDirectoryOnCloudSafe ==
    ASSUME SharingInv, NEW o \in Owners, PutDirectoryOnCloud(o)
    PROVE  SharingInv'
  <1>c. build' \in Build
    BY DEF PutDirectoryOnCloud, Deployed, SharingInv, SharingTypeOK, ServerTypeOK, Build
  <1>1. SharingTypeOK'
    BY ShareServerAssumption, SharingAssumption, <1>c
       DEF SharingInv, PutDirectoryOnCloud, Deployed, OnlyMoves, Goes, Ends, serverVars, SharingTypeOK,
           ServerTypeOK, Place, Result, FirstStep, Build
  <1>2. \A p \in Owners : Consistent(p)'
    BY <1>1, ShareServerAssumption, SharingAssumption, <1>c
       DEF SharingInv, PutDirectoryOnCloud, Deployed, OnlyMoves, Goes, Ends, serverVars, SharingTypeOK,
           ServerTypeOK, Consistent, Covers, Begun, ConfirmedAlready, Share, Release, Status, FirstStep,
           NoReleaseLost
  <1>3. NoReleaseLost'
    BY <1>1, ShareServerAssumption, SharingAssumption, <1>c
       DEF SharingInv, PutDirectoryOnCloud, Deployed, OnlyMoves, Goes, Ends, serverVars, SharingTypeOK,
           ServerTypeOK, NoReleaseLost, Consistent, Share, Release, Status
  <1>4. ReleasesConfirmed'
    BY <1>1, ShareServerAssumption, SharingAssumption, <1>c
       DEF SharingInv, PutDirectoryOnCloud, Deployed, OnlyMoves, Goes, Ends, serverVars, SharingTypeOK,
           ServerTypeOK, ReleasesConfirmed, Covers, Consistent, Begun, ConfirmedAlready, Build
  <1>5. OldReleaseStaysOff'
    BY <1>1, ShareServerAssumption, SharingAssumption, <1>c
       DEF SharingInv, PutDirectoryOnCloud, Deployed, OnlyMoves, Goes, Ends, serverVars, SharingTypeOK,
           ServerTypeOK, OldReleaseStaysOff, Consistent, Begun, Share, Release, Status, NoReleaseLost
  <1>6. ConsentGiven'
    BY <1>1, ShareServerAssumption, SharingAssumption, <1>c
       DEF SharingInv, PutDirectoryOnCloud, Deployed, OnlyMoves, Goes, Ends, serverVars, SharingTypeOK,
           ServerTypeOK, ConsentGiven, Consistent, Begun, Share, Release, Status
  <1>7. ConsentTakenBack'
    BY <1>1, ShareServerAssumption, SharingAssumption, <1>c
       DEF SharingInv, PutDirectoryOnCloud, Deployed, OnlyMoves, Goes, Ends, serverVars, SharingTypeOK,
           ServerTypeOK, ConsentTakenBack, Consistent, Begun, Share, Release, Status, FirstStep
  <1>8. OffStays'
    BY <1>1, ShareServerAssumption, SharingAssumption, <1>c
       DEF SharingInv, PutDirectoryOnCloud, Deployed, OnlyMoves, Goes, Ends, serverVars, SharingTypeOK,
           ServerTypeOK, OffStays, Consistent, Begun, Share, Release, Status
  <1> QED
    BY <1>1, <1>2, <1>3, <1>4, <1>5, <1>6, <1>7, <1>8 DEF SharingInv

LEMMA PickShareSafe ==
    ASSUME SharingInv, NEW o \in Owners, PickShare(o)
    PROVE  SharingInv'
  <1>c. /\ \A p \in Owners : p # o => at'[p] = at[p] /\ result'[p] = result[p] /\ picked'[p] = picked[p] /\ seen'[p] = seen[p]
        /\ UNCHANGED <<shares, cmd, created, published, before>>
        /\ at[o] = "pick" /\ at'[o] \in {"off", "stop", "draft"} /\ result'[o] = result[o] /\ picked'[o] \in ShareIds
    BY ShareServerAssumption, SharingAssumption DEF SharingInv, SharingTypeOK, Consistent, Begun, PickShare, Goes, Ends, serverVars, FirstStep, Candidates, Newest, Existing
  <1>1. SharingTypeOK'
    BY ShareServerAssumption, SharingAssumption
       DEF SharingInv, PickShare, Candidates, Newest, Existing, OnlyMoves, Goes, Ends, serverVars, SharingTypeOK,
           ServerTypeOK, Place, Result, FirstStep, Release, Share, Status
  <1>2. \A p \in Owners : Consistent(p)'
    BY <1>1, ShareServerAssumption, SharingAssumption
       DEF SharingInv, PickShare, Candidates, Newest, Existing, OnlyMoves, Goes, Ends, serverVars, SharingTypeOK,
           ServerTypeOK, Consistent, Covers, Begun, ConfirmedAlready, Share, Release, Status, FirstStep,
           NoReleaseLost
  <1>3. NoReleaseLost'
    BY <1>1, ShareServerAssumption, SharingAssumption
       DEF SharingInv, PickShare, Candidates, Newest, Existing, OnlyMoves, Goes, Ends, serverVars, SharingTypeOK,
           ServerTypeOK, NoReleaseLost, Consistent, Share, Release, Status
  <1>4. ReleasesConfirmed'
    BY <1>1, ShareServerAssumption, SharingAssumption
       DEF SharingInv, PickShare, Candidates, Newest, Existing, OnlyMoves, Goes, Ends, serverVars, SharingTypeOK,
           ServerTypeOK, ReleasesConfirmed, Covers, Consistent, Begun, ConfirmedAlready, Build
  <1>5. OldReleaseStaysOff'
    BY <1>1, ShareServerAssumption, SharingAssumption
       DEF SharingInv, PickShare, Candidates, Newest, Existing, OnlyMoves, Goes, Ends, serverVars, SharingTypeOK,
           ServerTypeOK, OldReleaseStaysOff, Consistent, Begun, Share, Release, Status, NoReleaseLost
  <1>6. ConsentGiven'
    BY <1>1, <1>c
       DEF SharingInv, SharingTypeOK, ConsentGiven, Consistent, Begun
  <1>7. ConsentTakenBack'
    BY <1>1, ShareServerAssumption, SharingAssumption
       DEF SharingInv, PickShare, Candidates, Newest, Existing, OnlyMoves, Goes, Ends, serverVars, SharingTypeOK,
           ServerTypeOK, ConsentTakenBack, Consistent, Begun, Share, Release, Status, FirstStep
  <1>8. OffStays'
    BY <1>1, ShareServerAssumption, SharingAssumption
       DEF SharingInv, PickShare, Candidates, Newest, Existing, OnlyMoves, Goes, Ends, serverVars, SharingTypeOK,
           ServerTypeOK, OffStays, Consistent, Begun, Share, Release, Status
  <1> QED
    BY <1>1, <1>2, <1>3, <1>4, <1>5, <1>6, <1>7, <1>8 DEF SharingInv

LEMMA PickFailsSafe ==
    ASSUME SharingInv, NEW o \in Owners, PickFails(o)
    PROVE  SharingInv'
  <1>1. SharingTypeOK'
    BY ShareServerAssumption, SharingAssumption
       DEF SharingInv, PickFails, OnlyMoves, Goes, Ends, serverVars, SharingTypeOK, ServerTypeOK, Place, Result,
           Begun, Command, FirstStep, Share, Status
  <1>2. \A p \in Owners : Consistent(p)'
    BY <1>1, ShareServerAssumption, SharingAssumption
       DEF SharingInv, PickFails, OnlyMoves, Goes, Ends, serverVars, SharingTypeOK, ServerTypeOK, Consistent,
           Covers, Begun, ConfirmedAlready, Share, Release, Status, FirstStep, NoReleaseLost
  <1>3. NoReleaseLost'
    BY <1>1, ShareServerAssumption, SharingAssumption
       DEF SharingInv, PickFails, OnlyMoves, Goes, Ends, serverVars, SharingTypeOK, ServerTypeOK, NoReleaseLost,
           Consistent, Share, Release, Status
  <1>4. ReleasesConfirmed'
    BY <1>1, ShareServerAssumption, SharingAssumption
       DEF SharingInv, PickFails, OnlyMoves, Goes, Ends, serverVars, SharingTypeOK, ServerTypeOK, ReleasesConfirmed,
           Covers, Consistent, Begun, ConfirmedAlready, Build
  <1>5. OldReleaseStaysOff'
    BY <1>1, ShareServerAssumption, SharingAssumption
       DEF SharingInv, PickFails, OnlyMoves, Goes, Ends, serverVars, SharingTypeOK, ServerTypeOK,
           OldReleaseStaysOff, Consistent, Begun, Share, Release, Status, NoReleaseLost
  <1>6. ConsentGiven'
    BY <1>1, ShareServerAssumption, SharingAssumption
       DEF SharingInv, PickFails, OnlyMoves, Goes, Ends, serverVars, SharingTypeOK, ServerTypeOK, ConsentGiven,
           Consistent, Begun, Share, Release, Status
  <1>7. ConsentTakenBack'
    BY <1>1, ShareServerAssumption, SharingAssumption
       DEF SharingInv, PickFails, OnlyMoves, Goes, Ends, serverVars, SharingTypeOK, ServerTypeOK, ConsentTakenBack,
           Consistent, Begun, Share, Release, Status, FirstStep
  <1>8. OffStays'
    BY <1>1, ShareServerAssumption, SharingAssumption
       DEF SharingInv, PickFails, OnlyMoves, Goes, Ends, serverVars, SharingTypeOK, ServerTypeOK, OffStays,
           Consistent, Begun, Share, Release, Status
  <1> QED
    BY <1>1, <1>2, <1>3, <1>4, <1>5, <1>6, <1>7, <1>8 DEF SharingInv

LEMMA NoShareYetSafe ==
    ASSUME SharingInv, NEW o \in Owners, NoShareYet(o)
    PROVE  SharingInv'
  <1>1. SharingTypeOK'
    BY ShareServerAssumption, SharingAssumption
       DEF SharingInv, NoShareYet, OnlyMoves, Goes, Ends, serverVars, SharingTypeOK, ServerTypeOK, Place, Result,
           Begun, Command, FirstStep, Share, Status
  <1>2. \A p \in Owners : Consistent(p)'
    BY <1>1, ShareServerAssumption, SharingAssumption
       DEF SharingInv, NoShareYet, OnlyMoves, Goes, Ends, serverVars, SharingTypeOK, ServerTypeOK, Consistent,
           Covers, Begun, ConfirmedAlready, Share, Release, Status, FirstStep, NoReleaseLost
  <1>3. NoReleaseLost'
    BY <1>1, ShareServerAssumption, SharingAssumption
       DEF SharingInv, NoShareYet, OnlyMoves, Goes, Ends, serverVars, SharingTypeOK, ServerTypeOK, NoReleaseLost,
           Consistent, Share, Release, Status
  <1>4. ReleasesConfirmed'
    BY <1>1, ShareServerAssumption, SharingAssumption
       DEF SharingInv, NoShareYet, OnlyMoves, Goes, Ends, serverVars, SharingTypeOK, ServerTypeOK,
           ReleasesConfirmed, Covers, Consistent, Begun, ConfirmedAlready, Build
  <1>5. OldReleaseStaysOff'
    BY <1>1, ShareServerAssumption, SharingAssumption
       DEF SharingInv, NoShareYet, OnlyMoves, Goes, Ends, serverVars, SharingTypeOK, ServerTypeOK,
           OldReleaseStaysOff, Consistent, Begun, Share, Release, Status, NoReleaseLost
  <1>6. ConsentGiven'
    BY <1>1, ShareServerAssumption, SharingAssumption
       DEF SharingInv, NoShareYet, OnlyMoves, Goes, Ends, serverVars, SharingTypeOK, ServerTypeOK, ConsentGiven,
           Consistent, Begun, Share, Release, Status
  <1>7. ConsentTakenBack'
    BY <1>1, ShareServerAssumption, SharingAssumption
       DEF SharingInv, NoShareYet, OnlyMoves, Goes, Ends, serverVars, SharingTypeOK, ServerTypeOK, ConsentTakenBack,
           Consistent, Begun, Share, Release, Status, FirstStep
  <1>8. OffStays'
    BY <1>1, ShareServerAssumption, SharingAssumption
       DEF SharingInv, NoShareYet, OnlyMoves, Goes, Ends, serverVars, SharingTypeOK, ServerTypeOK, OffStays,
           Consistent, Begun, Share, Release, Status
  <1> QED
    BY <1>1, <1>2, <1>3, <1>4, <1>5, <1>6, <1>7, <1>8 DEF SharingInv

LEMMA CreateSafe ==
    ASSUME SharingInv, NEW o \in Owners, Create(o)
    PROVE  SharingInv'
  <1>a. PICK s \in ShareIds, reshare \in {"yes", "no"} :
          /\ ~Exists(s) /\ CreateShare(s, reshare)
          /\ reshare = (IF cmd[o].reshare = "allow" THEN "yes" ELSE "no")
          /\ picked' = [picked EXCEPT ![o] = s]
          /\ seen' = [seen EXCEPT ![o] = "draft"]
    BY DEF Create
  <1>b. /\ shares' \in [ShareIds -> Share]
        /\ \A t \in ShareIds : shares'[t].release = shares[t].release
        /\ \A t \in ShareIds : t # s => shares'[t] = shares[t]
        /\ shares'[s].status = "draft" /\ shares'[s].reshare = reshare
    BY <1>a, CreateFacts DEF SharingInv, SharingTypeOK, ServerTypeOK
  <1>c. /\ \A p \in Owners : p # o => at'[p] = at[p] /\ result'[p] = result[p] /\ picked'[p] = picked[p] /\ seen'[p] = seen[p]
        /\ UNCHANGED <<build, cmd, draft, confirmed, published, before>>
        /\ at[o] = "create" /\ created' = created \cup {o}
        /\ \/ at'[o] = "draft" /\ result'[o] = result[o]
           \/ at'[o] = "done" /\ result'[o] = "failed"
        /\ picked'[o] = s /\ seen'[o] = "draft"
    BY ShareServerAssumption, SharingAssumption, <1>a, <1>b DEF SharingInv, SharingTypeOK, Consistent, Begun, Create, Goes, Ends, serverVars
  <1>1. SharingTypeOK'
    BY ShareServerAssumption, SharingAssumption, <1>a, <1>b, <1>c
       DEF SharingInv, Create, Exists, OnlyMoves, Goes, Ends, serverVars, SharingTypeOK, ServerTypeOK, Place,
           Result, FirstStep
  <1>d. \A t \in ShareIds : before[t].release.id \in Nat /\ shares[t].release.id \in Nat
    BY DEF SharingInv, SharingTypeOK, ServerTypeOK, Share, Release
  <1>2. \A p \in Owners : Consistent(p)'
    BY <1>1, <1>a, <1>b, <1>c, <1>d
       DEF SharingInv, SharingTypeOK, Consistent, Covers, Begun, ConfirmedAlready, FirstStep, NoReleaseLost
  <1>3. NoReleaseLost'
    BY <1>1, <1>a, <1>b, <1>c, <1>d
       DEF SharingInv, SharingTypeOK, NoReleaseLost, Consistent
  <1>4. ReleasesConfirmed'
    <2>1. SUFFICES ASSUME NEW t \in ShareIds, (shares[t].release # before[t].release)'
                   PROVE  (\E p \in Owners : Covers(p, shares[t].release.build))'
      BY DEF ReleasesConfirmed
    <2>2. PICK p \in Owners : Covers(p, shares[t].release.build)
      BY <2>1, <1>b, <1>c DEF SharingInv, ReleasesConfirmed
    <2>3. Covers(p, shares[t].release.build)'
      BY <2>2, <1>b, <1>c DEF Covers, ConfirmedAlready
    <2> QED
      BY <2>3
  <1>5. OldReleaseStaysOff'
    BY <1>1, <1>a, <1>b, <1>c, <1>d
       DEF SharingInv, SharingTypeOK, OldReleaseStaysOff, Consistent, Begun, NoReleaseLost
  <1>6. ConsentGiven'
    BY <1>1, <1>a, <1>b, <1>c
       DEF SharingInv, SharingTypeOK, ConsentGiven, Consistent, Begun
  <1>7. ConsentTakenBack'
    <2>1. SUFFICES ASSUME NEW p \in Owners, (\A q \in Owners : cmd[q].reshare # "allow")', (cmd[p].reshare = "stop")',
                          (at[p] \in {"draft", "review", "publish", "publishFresh", "finish"}
                             \/ result[p] \in {"shared", "changed"})'
                   PROVE  (shares[picked[p]].reshare = "no")'
      BY DEF ConsentTakenBack
    <2>2. reshare = "no"
      BY <2>1, <1>a, <1>c
    <2>3. CASE p = o
      BY <2>2, <2>3, <1>b, <1>c
    <2>4. CASE p # o
      <3>1. /\ at'[p] = at[p] /\ result'[p] = result[p] /\ picked'[p] = picked[p] /\ cmd' = cmd
            /\ picked[p] \in ShareIds
        BY <2>1, <2>4, <1>c DEF SharingInv, Consistent, Begun
      <3>2. shares[picked[p]].reshare = "no"
        BY <2>1, <3>1 DEF SharingInv, ConsentTakenBack
      <3> QED
        BY <2>2, <3>1, <3>2, <1>b
    <2> QED
      BY <2>3, <2>4
  <1>8. OffStays'
    BY <1>1, <1>a, <1>b, <1>c
       DEF SharingInv, SharingTypeOK, OffStays, Consistent, Begun
  <1> QED
    BY <1>1, <1>2, <1>3, <1>4, <1>5, <1>6, <1>7, <1>8 DEF SharingInv

LEMMA CreateRefusedSafe ==
    ASSUME SharingInv, NEW o \in Owners, CreateRefused(o)
    PROVE  SharingInv'
  <1>1. SharingTypeOK'
    BY ShareServerAssumption, SharingAssumption
       DEF SharingInv, CreateRefused, OnlyMoves, Goes, Ends, serverVars, SharingTypeOK, ServerTypeOK, Place, Result,
           Begun, Command, FirstStep, Share, Status
  <1>2. \A p \in Owners : Consistent(p)'
    BY <1>1, ShareServerAssumption, SharingAssumption
       DEF SharingInv, CreateRefused, OnlyMoves, Goes, Ends, serverVars, SharingTypeOK, ServerTypeOK, Consistent,
           Covers, Begun, ConfirmedAlready, Share, Release, Status, FirstStep, NoReleaseLost
  <1>3. NoReleaseLost'
    BY <1>1, ShareServerAssumption, SharingAssumption
       DEF SharingInv, CreateRefused, OnlyMoves, Goes, Ends, serverVars, SharingTypeOK, ServerTypeOK, NoReleaseLost,
           Consistent, Share, Release, Status
  <1>4. ReleasesConfirmed'
    BY <1>1, ShareServerAssumption, SharingAssumption
       DEF SharingInv, CreateRefused, OnlyMoves, Goes, Ends, serverVars, SharingTypeOK, ServerTypeOK,
           ReleasesConfirmed, Covers, Consistent, Begun, ConfirmedAlready, Build
  <1>5. OldReleaseStaysOff'
    BY <1>1, ShareServerAssumption, SharingAssumption
       DEF SharingInv, CreateRefused, OnlyMoves, Goes, Ends, serverVars, SharingTypeOK, ServerTypeOK,
           OldReleaseStaysOff, Consistent, Begun, Share, Release, Status, NoReleaseLost
  <1>6. ConsentGiven'
    BY <1>1, ShareServerAssumption, SharingAssumption
       DEF SharingInv, CreateRefused, OnlyMoves, Goes, Ends, serverVars, SharingTypeOK, ServerTypeOK, ConsentGiven,
           Consistent, Begun, Share, Release, Status
  <1>7. ConsentTakenBack'
    BY <1>1, ShareServerAssumption, SharingAssumption
       DEF SharingInv, CreateRefused, OnlyMoves, Goes, Ends, serverVars, SharingTypeOK, ServerTypeOK,
           ConsentTakenBack, Consistent, Begun, Share, Release, Status, FirstStep
  <1>8. OffStays'
    BY <1>1, ShareServerAssumption, SharingAssumption
       DEF SharingInv, CreateRefused, OnlyMoves, Goes, Ends, serverVars, SharingTypeOK, ServerTypeOK, OffStays,
           Consistent, Begun, Share, Release, Status
  <1> QED
    BY <1>1, <1>2, <1>3, <1>4, <1>5, <1>6, <1>7, <1>8 DEF SharingInv

LEMMA StopResharingSafe ==
    ASSUME SharingInv, NEW o \in Owners, StopResharing(o)
    PROVE  SharingInv'
  <1>a. picked[o] \in ShareIds /\ UpdateShare(picked[o], {"stop"})
    BY DEF StopResharing, SharingInv, Consistent, Begun
  <1>b. /\ shares' \in [ShareIds -> Share]
        /\ \A t \in ShareIds : shares'[t].release = shares[t].release
        /\ \A t \in ShareIds : t # picked[o] => shares'[t] = shares[t]
        /\ shares'[picked[o]].status = shares[picked[o]].status /\ shares'[picked[o]].reshare = "no"
    BY <1>a, UpdateFacts DEF SharingInv, SharingTypeOK, ServerTypeOK
  <1>c. /\ \A p \in Owners : p # o => at'[p] = at[p] /\ result'[p] = result[p] /\ seen'[p] = seen[p]
        /\ UNCHANGED <<build, cmd, picked, created, draft, confirmed, published, before>>
        /\ at[o] = "stop"
        /\ \/ at'[o] = "draft" /\ result'[o] = result[o]
           \/ at'[o] = "done" /\ result'[o] = "stillReshares"
    <2>1. CASE Goes(o, "draft")
      BY <2>1, <1>a DEF SharingInv, SharingTypeOK, StopResharing, Goes, Ends
    <2>2. CASE Ends(o, "stillReshares")
      BY <2>2, <1>a DEF SharingInv, SharingTypeOK, StopResharing, Goes, Ends
    <2>3. Goes(o, "draft") \/ Ends(o, "stillReshares")
      BY DEF StopResharing
    <2> QED
      BY <2>1, <2>2, <2>3
  <1>1. SharingTypeOK'
    <2>1. shares[picked[o]].status \in {"none", "draft", "active", "disabled"}
      BY <1>a DEF SharingInv, SharingTypeOK, ServerTypeOK, Share, Status, Release
    <2> QED
      BY <2>1, <1>a, <1>b, <1>c DEF SharingInv, StopResharing, Goes, Ends, SharingTypeOK, ServerTypeOK, Place, Result
  <1>d. \A t \in ShareIds : before[t].release.id \in Nat /\ shares[t].release.id \in Nat
    BY DEF SharingInv, SharingTypeOK, ServerTypeOK, Share, Release
  <1>2. \A p \in Owners : Consistent(p)'
    BY <1>1, <1>a, <1>b, <1>c, <1>d
       DEF SharingInv, SharingTypeOK, Consistent, Covers, Begun, ConfirmedAlready, FirstStep, NoReleaseLost
  <1>3. NoReleaseLost'
    BY <1>1, <1>a, <1>b, <1>c, <1>d
       DEF SharingInv, SharingTypeOK, NoReleaseLost, Consistent
  <1>4. ReleasesConfirmed'
    <2>1. SUFFICES ASSUME NEW t \in ShareIds, (shares[t].release # before[t].release)'
                   PROVE  (\E p \in Owners : Covers(p, shares[t].release.build))'
      BY DEF ReleasesConfirmed
    <2>2. PICK p \in Owners : Covers(p, shares[t].release.build)
      BY <2>1, <1>b, <1>c DEF SharingInv, ReleasesConfirmed
    <2>3. Covers(p, shares[t].release.build)'
      BY <2>2, <1>b, <1>c DEF Covers, ConfirmedAlready
    <2> QED
      BY <2>3
  <1>5. OldReleaseStaysOff'
    BY <1>1, <1>a, <1>b, <1>c, <1>d
       DEF SharingInv, SharingTypeOK, OldReleaseStaysOff, Consistent, Begun, NoReleaseLost
  <1>6. ConsentGiven'
    BY <1>1, <1>a, <1>b, <1>c
       DEF SharingInv, SharingTypeOK, ConsentGiven, Consistent, Begun
  <1>7. ConsentTakenBack'
    BY <1>1, <1>a, <1>b, <1>c
       DEF SharingInv, SharingTypeOK, ConsentTakenBack, Consistent, Begun, FirstStep
  <1>8. OffStays'
    BY <1>1, <1>a, <1>b, <1>c
       DEF SharingInv, SharingTypeOK, OffStays, Consistent, Begun
  <1> QED
    BY <1>1, <1>2, <1>3, <1>4, <1>5, <1>6, <1>7, <1>8 DEF SharingInv

LEMMA StopRefusedSafe ==
    ASSUME SharingInv, NEW o \in Owners, StopRefused(o)
    PROVE  SharingInv'
  <1>1. SharingTypeOK'
    BY ShareServerAssumption, SharingAssumption
       DEF SharingInv, StopRefused, OnlyMoves, Goes, Ends, serverVars, SharingTypeOK, ServerTypeOK, Place, Result,
           Begun, Command, FirstStep, Share, Status
  <1>2. \A p \in Owners : Consistent(p)'
    BY <1>1, ShareServerAssumption, SharingAssumption
       DEF SharingInv, StopRefused, OnlyMoves, Goes, Ends, serverVars, SharingTypeOK, ServerTypeOK, Consistent,
           Covers, Begun, ConfirmedAlready, Share, Release, Status, FirstStep, NoReleaseLost
  <1>3. NoReleaseLost'
    BY <1>1, ShareServerAssumption, SharingAssumption
       DEF SharingInv, StopRefused, OnlyMoves, Goes, Ends, serverVars, SharingTypeOK, ServerTypeOK, NoReleaseLost,
           Consistent, Share, Release, Status
  <1>4. ReleasesConfirmed'
    BY <1>1, ShareServerAssumption, SharingAssumption
       DEF SharingInv, StopRefused, OnlyMoves, Goes, Ends, serverVars, SharingTypeOK, ServerTypeOK,
           ReleasesConfirmed, Covers, Consistent, Begun, ConfirmedAlready, Build
  <1>5. OldReleaseStaysOff'
    BY <1>1, ShareServerAssumption, SharingAssumption
       DEF SharingInv, StopRefused, OnlyMoves, Goes, Ends, serverVars, SharingTypeOK, ServerTypeOK,
           OldReleaseStaysOff, Consistent, Begun, Share, Release, Status, NoReleaseLost
  <1>6. ConsentGiven'
    BY <1>1, ShareServerAssumption, SharingAssumption
       DEF SharingInv, StopRefused, OnlyMoves, Goes, Ends, serverVars, SharingTypeOK, ServerTypeOK, ConsentGiven,
           Consistent, Begun, Share, Release, Status
  <1>7. ConsentTakenBack'
    BY <1>1, ShareServerAssumption, SharingAssumption
       DEF SharingInv, StopRefused, OnlyMoves, Goes, Ends, serverVars, SharingTypeOK, ServerTypeOK,
           ConsentTakenBack, Consistent, Begun, Share, Release, Status, FirstStep
  <1>8. OffStays'
    BY <1>1, ShareServerAssumption, SharingAssumption
       DEF SharingInv, StopRefused, OnlyMoves, Goes, Ends, serverVars, SharingTypeOK, ServerTypeOK, OffStays,
           Consistent, Begun, Share, Release, Status
  <1> QED
    BY <1>1, <1>2, <1>3, <1>4, <1>5, <1>6, <1>7, <1>8 DEF SharingInv

LEMMA DraftSafe ==
    ASSUME SharingInv, NEW o \in Owners, Draft(o)
    PROVE  SharingInv'
  <1>1. SharingTypeOK'
    BY ShareServerAssumption, SharingAssumption
       DEF SharingInv, Draft, OnlyMoves, Goes, Ends, serverVars, SharingTypeOK, ServerTypeOK, Place, Result, Begun,
           Command, FirstStep, Share, Status
  <1>2. \A p \in Owners : Consistent(p)'
    BY <1>1, ShareServerAssumption, SharingAssumption
       DEF SharingInv, Draft, OnlyMoves, Goes, Ends, serverVars, SharingTypeOK, ServerTypeOK, Consistent, Covers,
           Begun, ConfirmedAlready, Share, Release, Status, FirstStep, NoReleaseLost
  <1>3. NoReleaseLost'
    BY <1>1, ShareServerAssumption, SharingAssumption
       DEF SharingInv, Draft, OnlyMoves, Goes, Ends, serverVars, SharingTypeOK, ServerTypeOK, NoReleaseLost,
           Consistent, Share, Release, Status
  <1>4. ReleasesConfirmed'
    BY <1>1, ShareServerAssumption, SharingAssumption
       DEF SharingInv, Draft, OnlyMoves, Goes, Ends, serverVars, SharingTypeOK, ServerTypeOK, ReleasesConfirmed,
           Covers, Consistent, Begun, ConfirmedAlready, Build
  <1>5. OldReleaseStaysOff'
    BY <1>1, ShareServerAssumption, SharingAssumption
       DEF SharingInv, Draft, OnlyMoves, Goes, Ends, serverVars, SharingTypeOK, ServerTypeOK, OldReleaseStaysOff,
           Consistent, Begun, Share, Release, Status, NoReleaseLost
  <1>6. ConsentGiven'
    BY <1>1, ShareServerAssumption, SharingAssumption
       DEF SharingInv, Draft, OnlyMoves, Goes, Ends, serverVars, SharingTypeOK, ServerTypeOK, ConsentGiven,
           Consistent, Begun, Share, Release, Status
  <1>7. ConsentTakenBack'
    BY <1>1, ShareServerAssumption, SharingAssumption
       DEF SharingInv, Draft, OnlyMoves, Goes, Ends, serverVars, SharingTypeOK, ServerTypeOK, ConsentTakenBack,
           Consistent, Begun, Share, Release, Status, FirstStep
  <1>8. OffStays'
    BY <1>1, ShareServerAssumption, SharingAssumption
       DEF SharingInv, Draft, OnlyMoves, Goes, Ends, serverVars, SharingTypeOK, ServerTypeOK, OffStays, Consistent,
           Begun, Share, Release, Status
  <1> QED
    BY <1>1, <1>2, <1>3, <1>4, <1>5, <1>6, <1>7, <1>8 DEF SharingInv

LEMMA DraftFailsSafe ==
    ASSUME SharingInv, NEW o \in Owners, DraftFails(o)
    PROVE  SharingInv'
  <1>1. SharingTypeOK'
    BY ShareServerAssumption, SharingAssumption
       DEF SharingInv, DraftFails, OnlyMoves, Goes, Ends, serverVars, SharingTypeOK, ServerTypeOK, Place, Result,
           Begun, Command, FirstStep, Share, Status
  <1>2. \A p \in Owners : Consistent(p)'
    BY <1>1, ShareServerAssumption, SharingAssumption
       DEF SharingInv, DraftFails, OnlyMoves, Goes, Ends, serverVars, SharingTypeOK, ServerTypeOK, Consistent,
           Covers, Begun, ConfirmedAlready, Share, Release, Status, FirstStep, NoReleaseLost
  <1>3. NoReleaseLost'
    BY <1>1, ShareServerAssumption, SharingAssumption
       DEF SharingInv, DraftFails, OnlyMoves, Goes, Ends, serverVars, SharingTypeOK, ServerTypeOK, NoReleaseLost,
           Consistent, Share, Release, Status
  <1>4. ReleasesConfirmed'
    BY <1>1, ShareServerAssumption, SharingAssumption
       DEF SharingInv, DraftFails, OnlyMoves, Goes, Ends, serverVars, SharingTypeOK, ServerTypeOK,
           ReleasesConfirmed, Covers, Consistent, Begun, ConfirmedAlready, Build
  <1>5. OldReleaseStaysOff'
    BY <1>1, ShareServerAssumption, SharingAssumption
       DEF SharingInv, DraftFails, OnlyMoves, Goes, Ends, serverVars, SharingTypeOK, ServerTypeOK,
           OldReleaseStaysOff, Consistent, Begun, Share, Release, Status, NoReleaseLost
  <1>6. ConsentGiven'
    BY <1>1, ShareServerAssumption, SharingAssumption
       DEF SharingInv, DraftFails, OnlyMoves, Goes, Ends, serverVars, SharingTypeOK, ServerTypeOK, ConsentGiven,
           Consistent, Begun, Share, Release, Status
  <1>7. ConsentTakenBack'
    BY <1>1, ShareServerAssumption, SharingAssumption
       DEF SharingInv, DraftFails, OnlyMoves, Goes, Ends, serverVars, SharingTypeOK, ServerTypeOK, ConsentTakenBack,
           Consistent, Begun, Share, Release, Status, FirstStep
  <1>8. OffStays'
    BY <1>1, ShareServerAssumption, SharingAssumption
       DEF SharingInv, DraftFails, OnlyMoves, Goes, Ends, serverVars, SharingTypeOK, ServerTypeOK, OffStays,
           Consistent, Begun, Share, Release, Status
  <1> QED
    BY <1>1, <1>2, <1>3, <1>4, <1>5, <1>6, <1>7, <1>8 DEF SharingInv

LEMMA ConfirmSafe ==
    ASSUME SharingInv, NEW o \in Owners, Confirm(o)
    PROVE  SharingInv'
  <1>1. SharingTypeOK'
    BY ShareServerAssumption, SharingAssumption
       DEF SharingInv, Confirm, OnlyMoves, Goes, Ends, serverVars, SharingTypeOK, ServerTypeOK, Place, Result,
           Begun, Command, FirstStep, Share, Status
  <1>2. \A p \in Owners : Consistent(p)'
    BY <1>1, ShareServerAssumption, SharingAssumption
       DEF SharingInv, Confirm, OnlyMoves, Goes, Ends, serverVars, SharingTypeOK, ServerTypeOK, Consistent, Covers,
           Begun, ConfirmedAlready, Share, Release, Status, FirstStep, NoReleaseLost
  <1>3. NoReleaseLost'
    BY <1>1, ShareServerAssumption, SharingAssumption
       DEF SharingInv, Confirm, OnlyMoves, Goes, Ends, serverVars, SharingTypeOK, ServerTypeOK, NoReleaseLost,
           Consistent, Share, Release, Status
  <1>4. ReleasesConfirmed'
    BY <1>1, ShareServerAssumption, SharingAssumption
       DEF SharingInv, Confirm, OnlyMoves, Goes, Ends, serverVars, SharingTypeOK, ServerTypeOK, ReleasesConfirmed,
           Covers, Consistent, Begun, ConfirmedAlready, Build
  <1>5. OldReleaseStaysOff'
    BY <1>1, ShareServerAssumption, SharingAssumption
       DEF SharingInv, Confirm, OnlyMoves, Goes, Ends, serverVars, SharingTypeOK, ServerTypeOK, OldReleaseStaysOff,
           Consistent, Begun, Share, Release, Status, NoReleaseLost
  <1>6. ConsentGiven'
    BY <1>1, ShareServerAssumption, SharingAssumption
       DEF SharingInv, Confirm, OnlyMoves, Goes, Ends, serverVars, SharingTypeOK, ServerTypeOK, ConsentGiven,
           Consistent, Begun, Share, Release, Status
  <1>7. ConsentTakenBack'
    BY <1>1, ShareServerAssumption, SharingAssumption
       DEF SharingInv, Confirm, OnlyMoves, Goes, Ends, serverVars, SharingTypeOK, ServerTypeOK, ConsentTakenBack,
           Consistent, Begun, Share, Release, Status, FirstStep
  <1>8. OffStays'
    BY <1>1, ShareServerAssumption, SharingAssumption
       DEF SharingInv, Confirm, OnlyMoves, Goes, Ends, serverVars, SharingTypeOK, ServerTypeOK, OffStays,
           Consistent, Begun, Share, Release, Status
  <1> QED
    BY <1>1, <1>2, <1>3, <1>4, <1>5, <1>6, <1>7, <1>8 DEF SharingInv

LEMMA DeclineSafe ==
    ASSUME SharingInv, NEW o \in Owners, Decline(o)
    PROVE  SharingInv'
  <1>1. SharingTypeOK'
    BY ShareServerAssumption, SharingAssumption
       DEF SharingInv, Decline, OnlyMoves, Goes, Ends, serverVars, SharingTypeOK, ServerTypeOK, Place, Result,
           Begun, Command, FirstStep, Share, Status
  <1>2. \A p \in Owners : Consistent(p)'
    BY <1>1, ShareServerAssumption, SharingAssumption
       DEF SharingInv, Decline, OnlyMoves, Goes, Ends, serverVars, SharingTypeOK, ServerTypeOK, Consistent, Covers,
           Begun, ConfirmedAlready, Share, Release, Status, FirstStep, NoReleaseLost
  <1>3. NoReleaseLost'
    BY <1>1, ShareServerAssumption, SharingAssumption
       DEF SharingInv, Decline, OnlyMoves, Goes, Ends, serverVars, SharingTypeOK, ServerTypeOK, NoReleaseLost,
           Consistent, Share, Release, Status
  <1>4. ReleasesConfirmed'
    BY <1>1, ShareServerAssumption, SharingAssumption
       DEF SharingInv, Decline, OnlyMoves, Goes, Ends, serverVars, SharingTypeOK, ServerTypeOK, ReleasesConfirmed,
           Covers, Consistent, Begun, ConfirmedAlready, Build
  <1>5. OldReleaseStaysOff'
    BY <1>1, ShareServerAssumption, SharingAssumption
       DEF SharingInv, Decline, OnlyMoves, Goes, Ends, serverVars, SharingTypeOK, ServerTypeOK, OldReleaseStaysOff,
           Consistent, Begun, Share, Release, Status, NoReleaseLost
  <1>6. ConsentGiven'
    BY <1>1, ShareServerAssumption, SharingAssumption
       DEF SharingInv, Decline, OnlyMoves, Goes, Ends, serverVars, SharingTypeOK, ServerTypeOK, ConsentGiven,
           Consistent, Begun, Share, Release, Status
  <1>7. ConsentTakenBack'
    BY <1>1, ShareServerAssumption, SharingAssumption
       DEF SharingInv, Decline, OnlyMoves, Goes, Ends, serverVars, SharingTypeOK, ServerTypeOK, ConsentTakenBack,
           Consistent, Begun, Share, Release, Status, FirstStep
  <1>8. OffStays'
    BY <1>1, ShareServerAssumption, SharingAssumption
       DEF SharingInv, Decline, OnlyMoves, Goes, Ends, serverVars, SharingTypeOK, ServerTypeOK, OffStays,
           Consistent, Begun, Share, Release, Status
  <1> QED
    BY <1>1, <1>2, <1>3, <1>4, <1>5, <1>6, <1>7, <1>8 DEF SharingInv

LEMMA PublishSafe ==
    ASSUME SharingInv, NEW o \in Owners, Publish(o)
    PROVE  SharingInv'
  <1>a. picked[o] \in ShareIds /\ PublishRelease(picked[o], draft[o])
    BY DEF Publish, SharingInv, Consistent, Begun
  <1>b. /\ shares' \in [ShareIds -> Share]
        /\ draft[o] = build
        /\ \A t \in ShareIds : t # picked[o] => shares'[t] = shares[t]
        /\ shares'[picked[o]].status = shares[picked[o]].status
        /\ shares'[picked[o]].reshare = shares[picked[o]].reshare
        /\ shares'[picked[o]].release.id = shares[picked[o]].release.id + 1
        /\ shares'[picked[o]].release.build = build
    BY <1>a, PublishFacts DEF SharingInv, SharingTypeOK, ServerTypeOK
  <1>c. /\ \A p \in Owners : p # o => at'[p] = at[p] /\ result'[p] = result[p] /\ published'[p] = published[p]
        /\ UNCHANGED <<build, cmd, picked, seen, created, draft, confirmed, before>>
        /\ at[o] \in {"publish", "publishFresh"}
        /\ \/ /\ at'[o] = "finish" /\ result'[o] = result[o]
              /\ published'[o] = shares[picked[o]].release.id + 1
           \/ at'[o] = "done" /\ result'[o] = "failed" /\ published'[o] = published[o]
    <2>1. CASE Goes(o, "finish")
      BY <2>1, <1>a DEF SharingInv, SharingTypeOK, Publish, Goes, Ends
    <2>2. CASE Ends(o, "failed")
      BY <2>2, <1>a DEF SharingInv, SharingTypeOK, Publish, Goes, Ends
    <2>3. Goes(o, "finish") \/ Ends(o, "failed")
      BY DEF Publish
    <2> QED
      BY <2>1, <2>2, <2>3
  <1>1. SharingTypeOK'
    <2>1. shares[picked[o]].release.id + 1 \in Nat
      BY <1>a DEF SharingInv, SharingTypeOK, ServerTypeOK, Share, Status, Release
    <2> QED
      BY <2>1, <1>a, <1>b, <1>c DEF SharingInv, Publish, Goes, Ends, SharingTypeOK, ServerTypeOK, Place, Result
  <1>d. \A t \in ShareIds : before[t].release.id \in Nat /\ shares[t].release.id \in Nat
    BY DEF SharingInv, SharingTypeOK, ServerTypeOK, Share, Release
  <1>2. \A p \in Owners : Consistent(p)'
    BY <1>1, <1>a, <1>b, <1>c, <1>d
       DEF SharingInv, SharingTypeOK, Consistent, Covers, Begun, ConfirmedAlready, FirstStep, NoReleaseLost
  <1>3. NoReleaseLost'
    BY <1>1, <1>a, <1>b, <1>c, <1>d
       DEF SharingInv, SharingTypeOK, NoReleaseLost, Consistent
  <1>4. ReleasesConfirmed'
    <2>1. SUFFICES ASSUME NEW t \in ShareIds, (shares[t].release # before[t].release)'
                   PROVE  (\E p \in Owners : Covers(p, shares[t].release.build))'
      BY DEF ReleasesConfirmed
    <2>2. PICK p \in Owners : IF t = picked[o] THEN Covers(p, draft[o]) ELSE Covers(p, shares[t].release.build)
      BY <2>1, <1>a, <1>b, <1>c DEF SharingInv, ReleasesConfirmed, Consistent
    <2>3. Covers(p, shares[t].release.build)'
      BY <2>2, <1>b, <1>c DEF Covers, ConfirmedAlready
    <2> QED
      BY <2>3
  <1>5. OldReleaseStaysOff'
    BY <1>1, <1>a, <1>b, <1>c, <1>d
       DEF SharingInv, SharingTypeOK, OldReleaseStaysOff, Consistent, Begun, NoReleaseLost
  <1>6. ConsentGiven'
    BY <1>1, <1>a, <1>b, <1>c
       DEF SharingInv, SharingTypeOK, ConsentGiven, Consistent, Begun
  <1>7. ConsentTakenBack'
    BY <1>1, <1>a, <1>b, <1>c
       DEF SharingInv, SharingTypeOK, ConsentTakenBack, Consistent, Begun, FirstStep
  <1>8. OffStays'
    BY <1>1, <1>a, <1>b, <1>c
       DEF SharingInv, SharingTypeOK, OffStays, Consistent, Begun
  <1> QED
    BY <1>1, <1>2, <1>3, <1>4, <1>5, <1>6, <1>7, <1>8 DEF SharingInv

LEMMA PublishRefusedSafe ==
    ASSUME SharingInv, NEW o \in Owners, PublishRefused(o)
    PROVE  SharingInv'
  <1>1. SharingTypeOK'
    BY ShareServerAssumption, SharingAssumption
       DEF SharingInv, PublishRefused, OnlyMoves, Goes, Ends, serverVars, SharingTypeOK, ServerTypeOK, Place,
           Result, Begun, Command, FirstStep, Share, Status
  <1>2. \A p \in Owners : Consistent(p)'
    BY <1>1, ShareServerAssumption, SharingAssumption
       DEF SharingInv, PublishRefused, OnlyMoves, Goes, Ends, serverVars, SharingTypeOK, ServerTypeOK, Consistent,
           Covers, Begun, ConfirmedAlready, Share, Release, Status, FirstStep, NoReleaseLost
  <1>3. NoReleaseLost'
    BY <1>1, ShareServerAssumption, SharingAssumption
       DEF SharingInv, PublishRefused, OnlyMoves, Goes, Ends, serverVars, SharingTypeOK, ServerTypeOK,
           NoReleaseLost, Consistent, Share, Release, Status
  <1>4. ReleasesConfirmed'
    BY <1>1, ShareServerAssumption, SharingAssumption
       DEF SharingInv, PublishRefused, OnlyMoves, Goes, Ends, serverVars, SharingTypeOK, ServerTypeOK,
           ReleasesConfirmed, Covers, Consistent, Begun, ConfirmedAlready, Build
  <1>5. OldReleaseStaysOff'
    BY <1>1, ShareServerAssumption, SharingAssumption
       DEF SharingInv, PublishRefused, OnlyMoves, Goes, Ends, serverVars, SharingTypeOK, ServerTypeOK,
           OldReleaseStaysOff, Consistent, Begun, Share, Release, Status, NoReleaseLost
  <1>6. ConsentGiven'
    BY <1>1, ShareServerAssumption, SharingAssumption
       DEF SharingInv, PublishRefused, OnlyMoves, Goes, Ends, serverVars, SharingTypeOK, ServerTypeOK, ConsentGiven,
           Consistent, Begun, Share, Release, Status
  <1>7. ConsentTakenBack'
    BY <1>1, ShareServerAssumption, SharingAssumption
       DEF SharingInv, PublishRefused, OnlyMoves, Goes, Ends, serverVars, SharingTypeOK, ServerTypeOK,
           ConsentTakenBack, Consistent, Begun, Share, Release, Status, FirstStep
  <1>8. OffStays'
    BY <1>1, ShareServerAssumption, SharingAssumption
       DEF SharingInv, PublishRefused, OnlyMoves, Goes, Ends, serverVars, SharingTypeOK, ServerTypeOK, OffStays,
           Consistent, Begun, Share, Release, Status
  <1> QED
    BY <1>1, <1>2, <1>3, <1>4, <1>5, <1>6, <1>7, <1>8 DEF SharingInv

LEMMA ReviewAgainSafe ==
    ASSUME SharingInv, NEW o \in Owners, ReviewAgain(o)
    PROVE  SharingInv'
  <1>1. SharingTypeOK'
    BY ShareServerAssumption, SharingAssumption
       DEF SharingInv, ReviewAgain, OnlyMoves, Goes, Ends, serverVars, SharingTypeOK, ServerTypeOK, Place, Result,
           Begun, Command, FirstStep, Share, Status
  <1>2. \A p \in Owners : Consistent(p)'
    BY <1>1, ShareServerAssumption, SharingAssumption
       DEF SharingInv, ReviewAgain, OnlyMoves, Goes, Ends, serverVars, SharingTypeOK, ServerTypeOK, Consistent,
           Covers, Begun, ConfirmedAlready, Share, Release, Status, FirstStep, NoReleaseLost
  <1>3. NoReleaseLost'
    BY <1>1, ShareServerAssumption, SharingAssumption
       DEF SharingInv, ReviewAgain, OnlyMoves, Goes, Ends, serverVars, SharingTypeOK, ServerTypeOK, NoReleaseLost,
           Consistent, Share, Release, Status
  <1>4. ReleasesConfirmed'
    BY <1>1, ShareServerAssumption, SharingAssumption
       DEF SharingInv, ReviewAgain, OnlyMoves, Goes, Ends, serverVars, SharingTypeOK, ServerTypeOK,
           ReleasesConfirmed, Covers, Consistent, Begun, ConfirmedAlready, Build
  <1>5. OldReleaseStaysOff'
    BY <1>1, ShareServerAssumption, SharingAssumption
       DEF SharingInv, ReviewAgain, OnlyMoves, Goes, Ends, serverVars, SharingTypeOK, ServerTypeOK,
           OldReleaseStaysOff, Consistent, Begun, Share, Release, Status, NoReleaseLost
  <1>6. ConsentGiven'
    BY <1>1, ShareServerAssumption, SharingAssumption
       DEF SharingInv, ReviewAgain, OnlyMoves, Goes, Ends, serverVars, SharingTypeOK, ServerTypeOK, ConsentGiven,
           Consistent, Begun, Share, Release, Status
  <1>7. ConsentTakenBack'
    BY <1>1, ShareServerAssumption, SharingAssumption
       DEF SharingInv, ReviewAgain, OnlyMoves, Goes, Ends, serverVars, SharingTypeOK, ServerTypeOK,
           ConsentTakenBack, Consistent, Begun, Share, Release, Status, FirstStep
  <1>8. OffStays'
    BY <1>1, ShareServerAssumption, SharingAssumption
       DEF SharingInv, ReviewAgain, OnlyMoves, Goes, Ends, serverVars, SharingTypeOK, ServerTypeOK, OffStays,
           Consistent, Begun, Share, Release, Status
  <1> QED
    BY <1>1, <1>2, <1>3, <1>4, <1>5, <1>6, <1>7, <1>8 DEF SharingInv

LEMMA PublishFreshOneSafe ==
    ASSUME SharingInv, NEW o \in Owners, PublishFreshOne(o)
    PROVE  SharingInv'
  <1>1. SharingTypeOK'
    BY ShareServerAssumption, SharingAssumption
       DEF SharingInv, PublishFreshOne, OnlyMoves, Goes, Ends, serverVars, SharingTypeOK, ServerTypeOK, Place,
           Result, Begun, Command, FirstStep, Share, Status
  <1>2. \A p \in Owners : Consistent(p)'
    BY <1>1, ShareServerAssumption, SharingAssumption
       DEF SharingInv, PublishFreshOne, OnlyMoves, Goes, Ends, serverVars, SharingTypeOK, ServerTypeOK, Consistent,
           Covers, Begun, ConfirmedAlready, Share, Release, Status, FirstStep, NoReleaseLost
  <1>3. NoReleaseLost'
    BY <1>1, ShareServerAssumption, SharingAssumption
       DEF SharingInv, PublishFreshOne, OnlyMoves, Goes, Ends, serverVars, SharingTypeOK, ServerTypeOK,
           NoReleaseLost, Consistent, Share, Release, Status
  <1>4. ReleasesConfirmed'
    BY <1>1, ShareServerAssumption, SharingAssumption
       DEF SharingInv, PublishFreshOne, OnlyMoves, Goes, Ends, serverVars, SharingTypeOK, ServerTypeOK,
           ReleasesConfirmed, Covers, Consistent, Begun, ConfirmedAlready, Build
  <1>5. OldReleaseStaysOff'
    BY <1>1, ShareServerAssumption, SharingAssumption
       DEF SharingInv, PublishFreshOne, OnlyMoves, Goes, Ends, serverVars, SharingTypeOK, ServerTypeOK,
           OldReleaseStaysOff, Consistent, Begun, Share, Release, Status, NoReleaseLost
  <1>6. ConsentGiven'
    BY <1>1, ShareServerAssumption, SharingAssumption
       DEF SharingInv, PublishFreshOne, OnlyMoves, Goes, Ends, serverVars, SharingTypeOK, ServerTypeOK,
           ConsentGiven, Consistent, Begun, Share, Release, Status
  <1>7. ConsentTakenBack'
    BY <1>1, ShareServerAssumption, SharingAssumption
       DEF SharingInv, PublishFreshOne, OnlyMoves, Goes, Ends, serverVars, SharingTypeOK, ServerTypeOK,
           ConsentTakenBack, Consistent, Begun, Share, Release, Status, FirstStep
  <1>8. OffStays'
    BY <1>1, ShareServerAssumption, SharingAssumption
       DEF SharingInv, PublishFreshOne, OnlyMoves, Goes, Ends, serverVars, SharingTypeOK, ServerTypeOK, OffStays,
           Consistent, Begun, Share, Release, Status
  <1> QED
    BY <1>1, <1>2, <1>3, <1>4, <1>5, <1>6, <1>7, <1>8 DEF SharingInv

LEMMA StopOnChangeSafe ==
    ASSUME SharingInv, NEW o \in Owners, StopOnChange(o)
    PROVE  SharingInv'
  <1>1. SharingTypeOK'
    BY ShareServerAssumption, SharingAssumption
       DEF SharingInv, StopOnChange, OnlyMoves, Goes, Ends, serverVars, SharingTypeOK, ServerTypeOK, Place, Result,
           Begun, Command, FirstStep, Share, Status
  <1>2. \A p \in Owners : Consistent(p)'
    BY <1>1, ShareServerAssumption, SharingAssumption
       DEF SharingInv, StopOnChange, OnlyMoves, Goes, Ends, serverVars, SharingTypeOK, ServerTypeOK, Consistent,
           Covers, Begun, ConfirmedAlready, Share, Release, Status, FirstStep, NoReleaseLost
  <1>3. NoReleaseLost'
    BY <1>1, ShareServerAssumption, SharingAssumption
       DEF SharingInv, StopOnChange, OnlyMoves, Goes, Ends, serverVars, SharingTypeOK, ServerTypeOK, NoReleaseLost,
           Consistent, Share, Release, Status
  <1>4. ReleasesConfirmed'
    BY <1>1, ShareServerAssumption, SharingAssumption
       DEF SharingInv, StopOnChange, OnlyMoves, Goes, Ends, serverVars, SharingTypeOK, ServerTypeOK,
           ReleasesConfirmed, Covers, Consistent, Begun, ConfirmedAlready, Build
  <1>5. OldReleaseStaysOff'
    BY <1>1, ShareServerAssumption, SharingAssumption
       DEF SharingInv, StopOnChange, OnlyMoves, Goes, Ends, serverVars, SharingTypeOK, ServerTypeOK,
           OldReleaseStaysOff, Consistent, Begun, Share, Release, Status, NoReleaseLost
  <1>6. ConsentGiven'
    BY <1>1, ShareServerAssumption, SharingAssumption
       DEF SharingInv, StopOnChange, OnlyMoves, Goes, Ends, serverVars, SharingTypeOK, ServerTypeOK, ConsentGiven,
           Consistent, Begun, Share, Release, Status
  <1>7. ConsentTakenBack'
    BY <1>1, ShareServerAssumption, SharingAssumption
       DEF SharingInv, StopOnChange, OnlyMoves, Goes, Ends, serverVars, SharingTypeOK, ServerTypeOK,
           ConsentTakenBack, Consistent, Begun, Share, Release, Status, FirstStep
  <1>8. OffStays'
    BY <1>1, ShareServerAssumption, SharingAssumption
       DEF SharingInv, StopOnChange, OnlyMoves, Goes, Ends, serverVars, SharingTypeOK, ServerTypeOK, OffStays,
           Consistent, Begun, Share, Release, Status
  <1> QED
    BY <1>1, <1>2, <1>3, <1>4, <1>5, <1>6, <1>7, <1>8 DEF SharingInv

LEMMA FinishUnchangedSafe ==
    ASSUME SharingInv, NEW o \in Owners, FinishUnchanged(o)
    PROVE  SharingInv'
  <1>1. SharingTypeOK'
    BY ShareServerAssumption, SharingAssumption
       DEF SharingInv, FinishUnchanged, Fields, SwitchesOn, OnlyMoves, Goes, Ends, serverVars, SharingTypeOK,
           ServerTypeOK, Place, Result, Begun, Command, FirstStep, Share, Status
  <1>2. \A p \in Owners : Consistent(p)'
    BY <1>1, ShareServerAssumption, SharingAssumption
       DEF SharingInv, FinishUnchanged, Fields, SwitchesOn, OnlyMoves, Goes, Ends, serverVars, SharingTypeOK,
           ServerTypeOK, Consistent, Covers, Begun, ConfirmedAlready, Share, Release, Status, FirstStep,
           NoReleaseLost
  <1>3. NoReleaseLost'
    BY <1>1, ShareServerAssumption, SharingAssumption
       DEF SharingInv, FinishUnchanged, Fields, SwitchesOn, OnlyMoves, Goes, Ends, serverVars, SharingTypeOK,
           ServerTypeOK, NoReleaseLost, Consistent, Share, Release, Status
  <1>4. ReleasesConfirmed'
    BY <1>1, ShareServerAssumption, SharingAssumption
       DEF SharingInv, FinishUnchanged, Fields, SwitchesOn, OnlyMoves, Goes, Ends, serverVars, SharingTypeOK,
           ServerTypeOK, ReleasesConfirmed, Covers, Consistent, Begun, ConfirmedAlready, Build
  <1>5. OldReleaseStaysOff'
    BY <1>1, ShareServerAssumption, SharingAssumption
       DEF SharingInv, FinishUnchanged, Fields, SwitchesOn, OnlyMoves, Goes, Ends, serverVars, SharingTypeOK,
           ServerTypeOK, OldReleaseStaysOff, Consistent, Begun, Share, Release, Status, NoReleaseLost
  <1>6. ConsentGiven'
    BY <1>1, ShareServerAssumption, SharingAssumption
       DEF SharingInv, FinishUnchanged, Fields, SwitchesOn, OnlyMoves, Goes, Ends, serverVars, SharingTypeOK,
           ServerTypeOK, ConsentGiven, Consistent, Begun, Share, Release, Status
  <1>7. ConsentTakenBack'
    BY <1>1, ShareServerAssumption, SharingAssumption
       DEF SharingInv, FinishUnchanged, Fields, SwitchesOn, OnlyMoves, Goes, Ends, serverVars, SharingTypeOK,
           ServerTypeOK, ConsentTakenBack, Consistent, Begun, Share, Release, Status, FirstStep
  <1>8. OffStays'
    BY <1>1, ShareServerAssumption, SharingAssumption
       DEF SharingInv, FinishUnchanged, Fields, SwitchesOn, OnlyMoves, Goes, Ends, serverVars, SharingTypeOK,
           ServerTypeOK, OffStays, Consistent, Begun, Share, Release, Status
  <1> QED
    BY <1>1, <1>2, <1>3, <1>4, <1>5, <1>6, <1>7, <1>8 DEF SharingInv

LEMMA FinishSafe ==
    ASSUME SharingInv, NEW o \in Owners, Finish(o)
    PROVE  SharingInv'
  <1>a. picked[o] \in ShareIds /\ UpdateShare(picked[o], Fields(o))
    BY DEF Finish, SharingInv, Consistent, Begun
  <1>b. /\ shares' \in [ShareIds -> Share]
        /\ \A t \in ShareIds : shares'[t].release = shares[t].release
        /\ \A t \in ShareIds : t # picked[o] => shares'[t] = shares[t]
        /\ shares'[picked[o]].status = (IF SwitchesOn(o) THEN "active" ELSE shares[picked[o]].status)
        /\ shares'[picked[o]].reshare = (IF o \notin created /\ cmd[o].reshare = "allow" THEN "yes"
                                         ELSE shares[picked[o]].reshare)
    BY <1>a, UpdateFacts DEF SharingInv, SharingTypeOK, ServerTypeOK, Fields
  <1>c. /\ \A p \in Owners : p # o => at'[p] = at[p] /\ result'[p] = result[p]
        /\ UNCHANGED <<build, cmd, picked, seen, created, draft, confirmed, published, before>>
        /\ at[o] = "finish" /\ at'[o] = "done" /\ result'[o] \in {"shared", "stillOff", "notUpdated"}
        /\ published[o] > 0
    BY ShareServerAssumption, SharingAssumption, <1>a, <1>b DEF SharingInv, SharingTypeOK, Consistent, Begun, Finish, Goes, Ends, serverVars, Unfinished
  <1>1. SharingTypeOK'
    BY ShareServerAssumption, SharingAssumption, <1>a, <1>b, <1>c
       DEF SharingInv, Finish, Unfinished, SwitchesOn, OnlyMoves, Goes, Ends, serverVars, SharingTypeOK,
           ServerTypeOK, Place, Result, FirstStep
  <1>d. \A t \in ShareIds : before[t].release.id \in Nat /\ shares[t].release.id \in Nat
    BY DEF SharingInv, SharingTypeOK, ServerTypeOK, Share, Release
  <1>2. \A p \in Owners : Consistent(p)'
    BY <1>1, <1>a, <1>b, <1>c, <1>d
       DEF SharingInv, SharingTypeOK, Consistent, Covers, Begun, ConfirmedAlready, FirstStep, NoReleaseLost,
           SwitchesOn
  <1>3. NoReleaseLost'
    BY <1>1, <1>a, <1>b, <1>c, <1>d
       DEF SharingInv, SharingTypeOK, NoReleaseLost, Consistent, SwitchesOn
  <1>4. ReleasesConfirmed'
    <2>1. SUFFICES ASSUME NEW t \in ShareIds, (shares[t].release # before[t].release)'
                   PROVE  (\E p \in Owners : Covers(p, shares[t].release.build))'
      BY DEF ReleasesConfirmed
    <2>2. PICK p \in Owners : Covers(p, shares[t].release.build)
      BY <2>1, <1>b, <1>c DEF SharingInv, ReleasesConfirmed
    <2>3. Covers(p, shares[t].release.build)'
      BY <2>2, <1>b, <1>c DEF Covers, ConfirmedAlready
    <2> QED
      BY <2>3
  <1>5. OldReleaseStaysOff'
    BY <1>1, <1>a, <1>b, <1>c, <1>d
       DEF SharingInv, SharingTypeOK, OldReleaseStaysOff, Consistent, Begun, NoReleaseLost, SwitchesOn
  <1>6. ConsentGiven'
    BY <1>1, <1>a, <1>b, <1>c
       DEF SharingInv, SharingTypeOK, ConsentGiven, Consistent, Begun, SwitchesOn
  <1>7. ConsentTakenBack'
    BY <1>1, <1>a, <1>b, <1>c
       DEF SharingInv, SharingTypeOK, ConsentTakenBack, Consistent, Begun, FirstStep, SwitchesOn
  <1>8. OffStays'
    BY <1>1, <1>a, <1>b, <1>c
       DEF SharingInv, SharingTypeOK, OffStays, Consistent, Begun, SwitchesOn
  <1> QED
    BY <1>1, <1>2, <1>3, <1>4, <1>5, <1>6, <1>7, <1>8 DEF SharingInv

LEMMA FinishRefusedSafe ==
    ASSUME SharingInv, NEW o \in Owners, FinishRefused(o)
    PROVE  SharingInv'
  <1>1. SharingTypeOK'
    BY ShareServerAssumption, SharingAssumption
       DEF SharingInv, FinishRefused, Unfinished, OnlyMoves, Goes, Ends, serverVars, SharingTypeOK, ServerTypeOK,
           Place, Result, Begun, Command, FirstStep, Share, Status
  <1>2. \A p \in Owners : Consistent(p)'
    BY <1>1, ShareServerAssumption, SharingAssumption
       DEF SharingInv, FinishRefused, Unfinished, OnlyMoves, Goes, Ends, serverVars, SharingTypeOK, ServerTypeOK,
           Consistent, Covers, Begun, ConfirmedAlready, Share, Release, Status, FirstStep, NoReleaseLost
  <1>3. NoReleaseLost'
    BY <1>1, ShareServerAssumption, SharingAssumption
       DEF SharingInv, FinishRefused, Unfinished, OnlyMoves, Goes, Ends, serverVars, SharingTypeOK, ServerTypeOK,
           NoReleaseLost, Consistent, Share, Release, Status
  <1>4. ReleasesConfirmed'
    BY <1>1, ShareServerAssumption, SharingAssumption
       DEF SharingInv, FinishRefused, Unfinished, OnlyMoves, Goes, Ends, serverVars, SharingTypeOK, ServerTypeOK,
           ReleasesConfirmed, Covers, Consistent, Begun, ConfirmedAlready, Build
  <1>5. OldReleaseStaysOff'
    BY <1>1, ShareServerAssumption, SharingAssumption
       DEF SharingInv, FinishRefused, Unfinished, OnlyMoves, Goes, Ends, serverVars, SharingTypeOK, ServerTypeOK,
           OldReleaseStaysOff, Consistent, Begun, Share, Release, Status, NoReleaseLost
  <1>6. ConsentGiven'
    BY <1>1, ShareServerAssumption, SharingAssumption
       DEF SharingInv, FinishRefused, Unfinished, OnlyMoves, Goes, Ends, serverVars, SharingTypeOK, ServerTypeOK,
           ConsentGiven, Consistent, Begun, Share, Release, Status
  <1>7. ConsentTakenBack'
    BY <1>1, ShareServerAssumption, SharingAssumption
       DEF SharingInv, FinishRefused, Unfinished, OnlyMoves, Goes, Ends, serverVars, SharingTypeOK, ServerTypeOK,
           ConsentTakenBack, Consistent, Begun, Share, Release, Status, FirstStep
  <1>8. OffStays'
    BY <1>1, ShareServerAssumption, SharingAssumption
       DEF SharingInv, FinishRefused, Unfinished, OnlyMoves, Goes, Ends, serverVars, SharingTypeOK, ServerTypeOK,
           OffStays, Consistent, Begun, Share, Release, Status
  <1> QED
    BY <1>1, <1>2, <1>3, <1>4, <1>5, <1>6, <1>7, <1>8 DEF SharingInv

LEMMA SwitchOffSafe ==
    ASSUME SharingInv, NEW o \in Owners, SwitchOff(o)
    PROVE  SharingInv'
  <1>a. picked[o] \in ShareIds /\ UpdateShare(picked[o], {"off"})
    BY DEF SwitchOff, SharingInv, Consistent, Begun
  <1>b. /\ shares' \in [ShareIds -> Share]
        /\ \A t \in ShareIds : shares'[t].release = shares[t].release
        /\ \A t \in ShareIds : t # picked[o] => shares'[t] = shares[t]
        /\ shares'[picked[o]].status = "disabled" /\ shares'[picked[o]].reshare = shares[picked[o]].reshare
    BY <1>a, UpdateFacts DEF SharingInv, SharingTypeOK, ServerTypeOK
  <1>c. /\ \A p \in Owners : p # o => at'[p] = at[p] /\ result'[p] = result[p]
        /\ UNCHANGED <<build, cmd, picked, seen, created, draft, confirmed, published, before>>
        /\ at[o] = "off" /\ at'[o] = "done" /\ result'[o] \in {"off", "failed"}
    BY ShareServerAssumption, SharingAssumption, <1>a, <1>b DEF SharingInv, SharingTypeOK, Consistent, Begun, SwitchOff, Goes, Ends, serverVars
  <1>1. SharingTypeOK'
    BY ShareServerAssumption, SharingAssumption, <1>a, <1>b, <1>c
       DEF SharingInv, SwitchOff, OnlyMoves, Goes, Ends, serverVars, SharingTypeOK, ServerTypeOK, Place, Result,
           FirstStep
  <1>d. \A t \in ShareIds : before[t].release.id \in Nat /\ shares[t].release.id \in Nat
    BY DEF SharingInv, SharingTypeOK, ServerTypeOK, Share, Release
  <1>2. \A p \in Owners : Consistent(p)'
    BY <1>1, <1>a, <1>b, <1>c, <1>d
       DEF SharingInv, SharingTypeOK, Consistent, Covers, Begun, ConfirmedAlready, FirstStep, NoReleaseLost
  <1>3. NoReleaseLost'
    BY <1>1, <1>a, <1>b, <1>c, <1>d
       DEF SharingInv, SharingTypeOK, NoReleaseLost, Consistent
  <1>4. ReleasesConfirmed'
    <2>1. SUFFICES ASSUME NEW t \in ShareIds, (shares[t].release # before[t].release)'
                   PROVE  (\E p \in Owners : Covers(p, shares[t].release.build))'
      BY DEF ReleasesConfirmed
    <2>2. PICK p \in Owners : Covers(p, shares[t].release.build)
      BY <2>1, <1>b, <1>c DEF SharingInv, ReleasesConfirmed
    <2>3. Covers(p, shares[t].release.build)'
      BY <2>2, <1>b, <1>c DEF Covers, ConfirmedAlready
    <2> QED
      BY <2>3
  <1>5. OldReleaseStaysOff'
    BY <1>1, <1>a, <1>b, <1>c, <1>d
       DEF SharingInv, SharingTypeOK, OldReleaseStaysOff, Consistent, Begun, NoReleaseLost
  <1>6. ConsentGiven'
    BY <1>1, <1>a, <1>b, <1>c
       DEF SharingInv, SharingTypeOK, ConsentGiven, Consistent, Begun
  <1>7. ConsentTakenBack'
    BY <1>1, <1>a, <1>b, <1>c
       DEF SharingInv, SharingTypeOK, ConsentTakenBack, Consistent, Begun, FirstStep
  <1>8. OffStays'
    BY <1>1, <1>a, <1>b, <1>c
       DEF SharingInv, SharingTypeOK, OffStays, Consistent, Begun
  <1> QED
    BY <1>1, <1>2, <1>3, <1>4, <1>5, <1>6, <1>7, <1>8 DEF SharingInv

LEMMA SwitchOffRefusedSafe ==
    ASSUME SharingInv, NEW o \in Owners, SwitchOffRefused(o)
    PROVE  SharingInv'
  <1>1. SharingTypeOK'
    BY ShareServerAssumption, SharingAssumption
       DEF SharingInv, SwitchOffRefused, OnlyMoves, Goes, Ends, serverVars, SharingTypeOK, ServerTypeOK, Place,
           Result, Begun, Command, FirstStep, Share, Status
  <1>2. \A p \in Owners : Consistent(p)'
    BY <1>1, ShareServerAssumption, SharingAssumption
       DEF SharingInv, SwitchOffRefused, OnlyMoves, Goes, Ends, serverVars, SharingTypeOK, ServerTypeOK, Consistent,
           Covers, Begun, ConfirmedAlready, Share, Release, Status, FirstStep, NoReleaseLost
  <1>3. NoReleaseLost'
    BY <1>1, ShareServerAssumption, SharingAssumption
       DEF SharingInv, SwitchOffRefused, OnlyMoves, Goes, Ends, serverVars, SharingTypeOK, ServerTypeOK,
           NoReleaseLost, Consistent, Share, Release, Status
  <1>4. ReleasesConfirmed'
    BY <1>1, ShareServerAssumption, SharingAssumption
       DEF SharingInv, SwitchOffRefused, OnlyMoves, Goes, Ends, serverVars, SharingTypeOK, ServerTypeOK,
           ReleasesConfirmed, Covers, Consistent, Begun, ConfirmedAlready, Build
  <1>5. OldReleaseStaysOff'
    BY <1>1, ShareServerAssumption, SharingAssumption
       DEF SharingInv, SwitchOffRefused, OnlyMoves, Goes, Ends, serverVars, SharingTypeOK, ServerTypeOK,
           OldReleaseStaysOff, Consistent, Begun, Share, Release, Status, NoReleaseLost
  <1>6. ConsentGiven'
    BY <1>1, ShareServerAssumption, SharingAssumption
       DEF SharingInv, SwitchOffRefused, OnlyMoves, Goes, Ends, serverVars, SharingTypeOK, ServerTypeOK,
           ConsentGiven, Consistent, Begun, Share, Release, Status
  <1>7. ConsentTakenBack'
    BY <1>1, ShareServerAssumption, SharingAssumption
       DEF SharingInv, SwitchOffRefused, OnlyMoves, Goes, Ends, serverVars, SharingTypeOK, ServerTypeOK,
           ConsentTakenBack, Consistent, Begun, Share, Release, Status, FirstStep
  <1>8. OffStays'
    BY <1>1, ShareServerAssumption, SharingAssumption
       DEF SharingInv, SwitchOffRefused, OnlyMoves, Goes, Ends, serverVars, SharingTypeOK, ServerTypeOK, OffStays,
           Consistent, Begun, Share, Release, Status
  <1> QED
    BY <1>1, <1>2, <1>3, <1>4, <1>5, <1>6, <1>7, <1>8 DEF SharingInv

LEMMA KillSafe ==
    ASSUME SharingInv, NEW o \in Owners, Kill(o)
    PROVE  SharingInv'
  <1>1. SharingTypeOK'
    BY ShareServerAssumption, SharingAssumption
       DEF SharingInv, Kill, OnlyMoves, Goes, Ends, serverVars, SharingTypeOK, ServerTypeOK, Place, Result, Begun,
           Command, FirstStep, Share, Status
  <1>2. \A p \in Owners : Consistent(p)'
    BY <1>1, ShareServerAssumption, SharingAssumption
       DEF SharingInv, Kill, OnlyMoves, Goes, Ends, serverVars, SharingTypeOK, ServerTypeOK, Consistent, Covers,
           Begun, ConfirmedAlready, Share, Release, Status, FirstStep, NoReleaseLost
  <1>3. NoReleaseLost'
    BY <1>1, ShareServerAssumption, SharingAssumption
       DEF SharingInv, Kill, OnlyMoves, Goes, Ends, serverVars, SharingTypeOK, ServerTypeOK, NoReleaseLost,
           Consistent, Share, Release, Status
  <1>4. ReleasesConfirmed'
    BY <1>1, ShareServerAssumption, SharingAssumption
       DEF SharingInv, Kill, OnlyMoves, Goes, Ends, serverVars, SharingTypeOK, ServerTypeOK, ReleasesConfirmed,
           Covers, Consistent, Begun, ConfirmedAlready, Build
  <1>5. OldReleaseStaysOff'
    BY <1>1, ShareServerAssumption, SharingAssumption
       DEF SharingInv, Kill, OnlyMoves, Goes, Ends, serverVars, SharingTypeOK, ServerTypeOK, OldReleaseStaysOff,
           Consistent, Begun, Share, Release, Status, NoReleaseLost
  <1>6. ConsentGiven'
    BY <1>1, ShareServerAssumption, SharingAssumption
       DEF SharingInv, Kill, OnlyMoves, Goes, Ends, serverVars, SharingTypeOK, ServerTypeOK, ConsentGiven,
           Consistent, Begun, Share, Release, Status
  <1>7. ConsentTakenBack'
    BY <1>1, ShareServerAssumption, SharingAssumption
       DEF SharingInv, Kill, OnlyMoves, Goes, Ends, serverVars, SharingTypeOK, ServerTypeOK, ConsentTakenBack,
           Consistent, Begun, Share, Release, Status, FirstStep
  <1>8. OffStays'
    BY <1>1, ShareServerAssumption, SharingAssumption
       DEF SharingInv, Kill, OnlyMoves, Goes, Ends, serverVars, SharingTypeOK, ServerTypeOK, OffStays, Consistent,
           Begun, Share, Release, Status
  <1> QED
    BY <1>1, <1>2, <1>3, <1>4, <1>5, <1>6, <1>7, <1>8 DEF SharingInv

LEMMA SharingNextSafe == SharingInv /\ [SharingNext]_sharingVars => SharingInv'
  <1> SUFFICES ASSUME SharingInv, [SharingNext]_sharingVars
               PROVE  SharingInv'
    OBVIOUS
  <1>1. CASE \E o \in Owners : ShareStep(o) \/ Kill(o)
    BY <1>1, StartSafe, PutDirectoryOnCloudSafe, PickShareSafe, PickFailsSafe, NoShareYetSafe, CreateSafe, CreateRefusedSafe, StopResharingSafe, StopRefusedSafe, DraftSafe, DraftFailsSafe, ConfirmSafe, DeclineSafe, PublishSafe, PublishRefusedSafe, ReviewAgainSafe, PublishFreshOneSafe, StopOnChangeSafe, FinishUnchangedSafe, FinishSafe, FinishRefusedSafe, SwitchOffSafe, SwitchOffRefusedSafe, KillSafe
       DEF ShareStep
  <1>2. CASE Change /\ UNCHANGED ownerVars
    <2>1. build' \in Build /\ UNCHANGED <<shares, ownerVars>>
      BY <1>2 DEF Change, Deployed, SharingInv, SharingTypeOK, ServerTypeOK, Build
    <2>2. SharingTypeOK'
      BY <2>1 DEF SharingInv, SharingTypeOK, ServerTypeOK, ownerVars
    <2> QED
      BY <2>1, <2>2 DEF SharingInv, ownerVars, Consistent, Covers, ConfirmedAlready, NoReleaseLost, ReleasesConfirmed,
                        OldReleaseStaysOff, ConsentGiven, ConsentTakenBack, OffStays
  <1>3. CASE UNCHANGED sharingVars
    BY <1>3 DEF SharingInv, sharingVars, serverVars, ownerVars, SharingTypeOK, ServerTypeOK, Consistent, Covers,
                ConfirmedAlready, NoReleaseLost, ReleasesConfirmed, OldReleaseStaysOff, ConsentGiven,
                ConsentTakenBack, OffStays
  <1> QED
    BY <1>1, <1>2, <1>3 DEF SharingNext, SharingDone

(***************************************************************************)
(* The theorems.                                                           *)
(***************************************************************************)
\* The invariant holds of every behaviour: a command knows its share, and what
\* it is about to publish is covered by a confirmation.
THEOREM SharingSafe == SharingSafety => []SharingInv
  BY SharingInitSafe, SharingNextSafe, PTL DEF SharingSafety

\* A link offers only releases that an owner's confirmation covers, however the
\* project changes between the review and the publish.
THEOREM LinkOffersConfirmed == SharingSafety => []ReleasesConfirmed
  BY SharingSafe, PTL DEF SharingInv

\* A declined or failed publish never switches sharing on.
THEOREM OldReleaseNotSwitchedOn == SharingSafety => []OldReleaseStaysOff
  BY SharingSafe, PTL DEF SharingInv

\* Consent to share copies again is given only with a publish or a new share,
\* and once taken back stays so unless another command gives it.
THEOREM ConsentKept == SharingSafety => []ReshareAgreed
  BY SharingSafe, PTL DEF SharingInv, ReshareAgreed

\* Nor does a share command that found sharing on undo `share off`.
THEOREM OffIsKept == SharingSafety => []StaysOff
  BY SharingSafe, PTL DEF SharingInv, StaysOff

(***************************************************************************)
(* Visitors on their own.                                                  *)
(***************************************************************************)
LEMMA ForkingInitSafe == ForkingInit => ForkingInv
  <1> SUFFICES ASSUME ForkingInit
               PROVE  ForkingInv
    OBVIOUS
  <1>1. ServerTypeOK /\ NoRelease \in Release
    BY DEF ForkingInit, ServerInit, ServerTypeOK, Build, NoBuild, Release, NoRelease, Share, NoShare, Status,
           FirstBuild, FirstRelease
  <1> QED
    BY <1>1, ForkingAssumption
       DEF ForkingInit, VisitorInit, ForkingInv, ForkingTypeOK, Stage, Outcome, CopiesInv, LateInv, StageInv,
           Undecided, OneCopy, NothingCreatedTrue, CopyIsReported, SelectedIsInstalled

LEMMA PreviewSafe ==
    ASSUME ForkingInv, NEW v \in Visitors, Preview(v)
    PROVE  ForkingInv'
  <1>a. /\ shares[Link].release.id \in Nat /\ shares[Link].release \in Release
        /\ \A c \in copies : c.visitor \in Visitors
        /\ \A r \in late : r.visitor \in Visitors /\ r.release.id \in Nat
        /\ \A u \in Visitors : offer[u].id \in Nat /\ key[u] \in Nat
    BY ForkingAssumption DEF ForkingInv, ForkingTypeOK, ServerTypeOK, Share, Release, Copy, Request
  <1>1. ForkingTypeOK'
    BY <1>a, ForkingAssumption
       DEF ForkingInv, Preview, Serving, Current, Moves, Stops, serverVars, ForkingTypeOK, ServerTypeOK, Stage,
           Outcome, Copy, Request, Share
  <1>2. CopiesInv'
    BY <1>a, <1>1, ForkingAssumption
       DEF ForkingInv, Preview, Serving, Current, Moves, Stops, serverVars, ForkingTypeOK, CopiesInv, Undecided,
           StageInv
  <1>3. LateInv'
    BY <1>a, <1>1, ForkingAssumption
       DEF ForkingInv, Preview, Serving, Current, Moves, Stops, serverVars, ForkingTypeOK, LateInv, Undecided,
           StageInv
  <1>4. \A w \in Visitors : StageInv(w)'
    <2> SUFFICES ASSUME NEW w \in Visitors
                 PROVE  StageInv(w)'
      OBVIOUS
    <2>1. CASE w = v
      BY <2>1, <1>a, <1>1, ForkingAssumption
         DEF ForkingInv, Preview, Serving, Current, Moves, Stops, serverVars, ForkingTypeOK, StageInv, Current
    <2>2. CASE w # v
      BY <2>2, <1>a, <1>1, ForkingAssumption
         DEF ForkingInv, Preview, Serving, Current, Moves, Stops, serverVars, ForkingTypeOK, StageInv, Current
    <2> QED
      BY <2>1, <2>2
  <1>5. OneCopy'
    BY <1>a, <1>1, ForkingAssumption
       DEF ForkingInv, Preview, Serving, Current, Moves, Stops, serverVars, ForkingTypeOK, OneCopy, CopiesInv
  <1>6. NothingCreatedTrue'
    BY <1>a, <1>1, ForkingAssumption
       DEF ForkingInv, Preview, Serving, Current, Moves, Stops, serverVars, ForkingTypeOK, NothingCreatedTrue,
           CopiesInv, Undecided, StageInv
  <1>7. CopyIsReported'
    BY <1>a, <1>1, ForkingAssumption
       DEF ForkingInv, Preview, Serving, Current, Moves, Stops, serverVars, ForkingTypeOK, CopyIsReported,
           CopiesInv, StageInv, Undecided
  <1>8. SelectedIsInstalled'
    BY <1>a, <1>1, ForkingAssumption
       DEF ForkingInv, Preview, Serving, Current, Moves, Stops, serverVars, ForkingTypeOK, SelectedIsInstalled,
           StageInv
  <1> QED
    BY <1>1, <1>2, <1>3, <1>4, <1>5, <1>6, <1>7, <1>8 DEF ForkingInv

LEMMA AgreeSafe ==
    ASSUME ForkingInv, NEW v \in Visitors, Agree(v)
    PROVE  ForkingInv'
  <1>a. /\ shares[Link].release.id \in Nat /\ shares[Link].release \in Release
        /\ \A c \in copies : c.visitor \in Visitors
        /\ \A r \in late : r.visitor \in Visitors /\ r.release.id \in Nat
        /\ \A u \in Visitors : offer[u].id \in Nat /\ key[u] \in Nat
    BY ForkingAssumption DEF ForkingInv, ForkingTypeOK, ServerTypeOK, Share, Release, Copy, Request
  <1>1. ForkingTypeOK'
    BY <1>a, ForkingAssumption
       DEF ForkingInv, Agree, Moves, Stops, serverVars, ForkingTypeOK, ServerTypeOK, Stage, Outcome, Copy, Request,
           Share
  <1>2. CopiesInv'
    BY <1>a, <1>1, ForkingAssumption
       DEF ForkingInv, Agree, Moves, Stops, serverVars, ForkingTypeOK, CopiesInv, Undecided, StageInv
  <1>3. LateInv'
    BY <1>a, <1>1, ForkingAssumption
       DEF ForkingInv, Agree, Moves, Stops, serverVars, ForkingTypeOK, LateInv, Undecided, StageInv, Current
  <1>4. \A w \in Visitors : StageInv(w)'
    BY <1>a, <1>1, ForkingAssumption
       DEF ForkingInv, Agree, Moves, Stops, serverVars, ForkingTypeOK, StageInv, Current, CopiesInv, Undecided
  <1>5. OneCopy'
    BY <1>a, <1>1, ForkingAssumption
       DEF ForkingInv, Agree, Moves, Stops, serverVars, ForkingTypeOK, OneCopy, CopiesInv
  <1>6. NothingCreatedTrue'
    BY <1>a, <1>1, ForkingAssumption
       DEF ForkingInv, Agree, Moves, Stops, serverVars, ForkingTypeOK, NothingCreatedTrue, CopiesInv, Undecided,
           StageInv
  <1>7. CopyIsReported'
    BY <1>a, <1>1, ForkingAssumption
       DEF ForkingInv, Agree, Moves, Stops, serverVars, ForkingTypeOK, CopyIsReported, CopiesInv, StageInv,
           Undecided
  <1>8. SelectedIsInstalled'
    BY <1>a, <1>1, ForkingAssumption
       DEF ForkingInv, Agree, Moves, Stops, serverVars, ForkingTypeOK, SelectedIsInstalled, StageInv
  <1> QED
    BY <1>1, <1>2, <1>3, <1>4, <1>5, <1>6, <1>7, <1>8 DEF ForkingInv

LEMMA DeclineForkSafe ==
    ASSUME ForkingInv, NEW v \in Visitors, DeclineFork(v)
    PROVE  ForkingInv'
  <1>a. /\ shares[Link].release.id \in Nat /\ shares[Link].release \in Release
        /\ \A c \in copies : c.visitor \in Visitors
        /\ \A r \in late : r.visitor \in Visitors /\ r.release.id \in Nat
        /\ \A u \in Visitors : offer[u].id \in Nat /\ key[u] \in Nat
    BY ForkingAssumption DEF ForkingInv, ForkingTypeOK, ServerTypeOK, Share, Release, Copy, Request
  <1>1. ForkingTypeOK'
    BY <1>a, ForkingAssumption
       DEF ForkingInv, DeclineFork, Moves, Stops, serverVars, ForkingTypeOK, ServerTypeOK, Stage, Outcome, Copy,
           Request, Share
  <1>2. CopiesInv'
    BY <1>a, <1>1, ForkingAssumption
       DEF ForkingInv, DeclineFork, Moves, Stops, serverVars, ForkingTypeOK, CopiesInv, Undecided, StageInv
  <1>3. LateInv'
    BY <1>a, <1>1, ForkingAssumption
       DEF ForkingInv, DeclineFork, Moves, Stops, serverVars, ForkingTypeOK, LateInv, Undecided, StageInv, Current
  <1>4. \A w \in Visitors : StageInv(w)'
    BY <1>a, <1>1, ForkingAssumption
       DEF ForkingInv, DeclineFork, Moves, Stops, serverVars, ForkingTypeOK, StageInv, Current, CopiesInv, Undecided
  <1>5. OneCopy'
    BY <1>a, <1>1, ForkingAssumption
       DEF ForkingInv, DeclineFork, Moves, Stops, serverVars, ForkingTypeOK, OneCopy, CopiesInv
  <1>6. NothingCreatedTrue'
    BY <1>a, <1>1, ForkingAssumption
       DEF ForkingInv, DeclineFork, Moves, Stops, serverVars, ForkingTypeOK, NothingCreatedTrue, CopiesInv,
           Undecided, StageInv
  <1>7. CopyIsReported'
    BY <1>a, <1>1, ForkingAssumption
       DEF ForkingInv, DeclineFork, Moves, Stops, serverVars, ForkingTypeOK, CopyIsReported, CopiesInv, StageInv,
           Undecided
  <1>8. SelectedIsInstalled'
    BY <1>a, <1>1, ForkingAssumption
       DEF ForkingInv, DeclineFork, Moves, Stops, serverVars, ForkingTypeOK, SelectedIsInstalled, StageInv
  <1> QED
    BY <1>1, <1>2, <1>3, <1>4, <1>5, <1>6, <1>7, <1>8 DEF ForkingInv

LEMMA PreviewAgainSafe ==
    ASSUME ForkingInv, NEW v \in Visitors, PreviewAgain(v)
    PROVE  ForkingInv'
  <1>a. /\ shares[Link].release.id \in Nat /\ shares[Link].release \in Release
        /\ \A c \in copies : c.visitor \in Visitors
        /\ \A r \in late : r.visitor \in Visitors /\ r.release.id \in Nat
        /\ \A u \in Visitors : offer[u].id \in Nat /\ key[u] \in Nat
    BY ForkingAssumption DEF ForkingInv, ForkingTypeOK, ServerTypeOK, Share, Release, Copy, Request
  <1>b. offer' \in [Visitors -> Release] /\ key' \in [Visitors -> Nat]
    BY <1>a DEF ForkingInv, ForkingTypeOK, PreviewAgain, Current
  <1>c. stage' \in [Visitors -> Stage] /\ outcome' \in [Visitors -> Outcome]
    BY DEF ForkingInv, ForkingTypeOK, PreviewAgain, Moves, Stops, Stage, Outcome
  <1>1. ForkingTypeOK'
    BY <1>a, <1>b, <1>c, ForkingAssumption
       DEF ForkingInv, PreviewAgain, serverVars, ForkingTypeOK, ServerTypeOK
  <1>2. CopiesInv'
    BY <1>a, <1>1, <1>b, <1>c, ForkingAssumption
       DEF ForkingInv, PreviewAgain, Serving, Current, Moves, Stops, serverVars, ForkingTypeOK, CopiesInv,
           Undecided, StageInv
  <1>3. LateInv'
    BY <1>a, <1>1, <1>b, <1>c, ForkingAssumption
       DEF ForkingInv, PreviewAgain, Serving, Current, Moves, Stops, serverVars, ForkingTypeOK, LateInv, Undecided,
           StageInv
  <1>4. \A w \in Visitors : StageInv(w)'
    BY <1>a, <1>1, <1>b, <1>c, ForkingAssumption
       DEF ForkingInv, PreviewAgain, Serving, Current, Moves, Stops, serverVars, ForkingTypeOK, StageInv, CopiesInv,
           Undecided
  <1>5. OneCopy'
    BY <1>a, <1>1, <1>b, <1>c, ForkingAssumption
       DEF ForkingInv, PreviewAgain, Serving, Current, Moves, Stops, serverVars, ForkingTypeOK, OneCopy, CopiesInv
  <1>6. NothingCreatedTrue'
    BY <1>a, <1>1, <1>b, <1>c, ForkingAssumption
       DEF ForkingInv, PreviewAgain, Serving, Current, Moves, Stops, serverVars, ForkingTypeOK, NothingCreatedTrue,
           CopiesInv, Undecided, StageInv
  <1>7. CopyIsReported'
    BY <1>a, <1>1, <1>b, <1>c, ForkingAssumption
       DEF ForkingInv, PreviewAgain, Serving, Current, Moves, Stops, serverVars, ForkingTypeOK, CopyIsReported,
           CopiesInv, StageInv, Undecided
  <1>8. SelectedIsInstalled'
    BY <1>a, <1>1, <1>b, <1>c, ForkingAssumption
       DEF ForkingInv, PreviewAgain, Serving, Current, Moves, Stops, serverVars, ForkingTypeOK, SelectedIsInstalled,
           StageInv
  <1> QED
    BY <1>1, <1>2, <1>3, <1>4, <1>5, <1>6, <1>7, <1>8 DEF ForkingInv

LEMMA CreatedSafe ==
    ASSUME ForkingInv, NEW v \in Visitors, Created(v)
    PROVE  ForkingInv'
  <1>a. /\ shares[Link].release.id \in Nat /\ shares[Link].release \in Release
        /\ \A c \in copies : c.visitor \in Visitors
        /\ \A r \in late : r.visitor \in Visitors /\ r.release.id \in Nat
        /\ \A u \in Visitors : offer[u].id \in Nat /\ key[u] \in Nat
    BY ForkingAssumption DEF ForkingInv, ForkingTypeOK, ServerTypeOK, Share, Release, Copy, Request
  <1>b. PICK c \in Copy : /\ c.visitor = v /\ c.key = key[v] /\ c.release = offer[v]
                          /\ copies' = copies \cup {c}
    <2>1. PICK settled \in {"yes", "no"} : MakeCopy(RequestOf(v), settled)
      BY DEF Created
    <2>2. PICK install \in {"none", "queued"} :
            copies' = copies \cup {[visitor |-> v, key |-> key[v], release |-> offer[v], settled |-> settled,
                                    install |-> install]}
      BY <2>1 DEF MakeCopy, RequestOf
    <2> QED
      BY <1>a, <2>2 DEF ForkingInv, ForkingTypeOK, Copy
  <1>c. copies' \in SUBSET Copy
    BY <1>b DEF ForkingInv, ForkingTypeOK
  <1>1. ForkingTypeOK'
    BY <1>a, <1>b, <1>c, ForkingAssumption
       DEF ForkingInv, Created, Sending, Receives, Moves, Stops, serverVars, ForkingTypeOK, ServerTypeOK, Stage,
           Outcome
  <1>2. CopiesInv'
    BY <1>a, <1>1, <1>b, <1>c, ForkingAssumption
       DEF ForkingInv, Created, Sending, Accepts, Known, RequestOf, Receives, Serving, Current, Moves, Stops,
           serverVars, ForkingTypeOK, CopiesInv, Undecided, StageInv
  <1>3. LateInv'
    BY <1>a, <1>1, <1>b, <1>c, ForkingAssumption
       DEF ForkingInv, Created, Sending, Accepts, Known, RequestOf, Receives, Serving, Current, Moves, Stops,
           serverVars, ForkingTypeOK, LateInv, Undecided, StageInv
  <1>4. \A w \in Visitors : StageInv(w)'
    BY <1>a, <1>1, <1>b, <1>c, ForkingAssumption
       DEF ForkingInv, Created, Sending, Accepts, Known, RequestOf, Receives, Serving, Current, Moves, Stops,
           serverVars, ForkingTypeOK, StageInv, CopiesInv, Undecided
  <1>5. OneCopy'
    BY <1>a, <1>1, <1>b, <1>c, ForkingAssumption
       DEF ForkingInv, Created, Sending, Accepts, Known, RequestOf, Receives, Serving, Current, Moves, Stops,
           serverVars, ForkingTypeOK, OneCopy, CopiesInv
  <1>6. NothingCreatedTrue'
    BY <1>a, <1>1, <1>b, <1>c, ForkingAssumption
       DEF ForkingInv, Created, Sending, Accepts, Known, RequestOf, Receives, Serving, Current, Moves, Stops,
           serverVars, ForkingTypeOK, NothingCreatedTrue, CopiesInv, Undecided, StageInv
  <1>7. CopyIsReported'
    BY <1>a, <1>1, <1>b, <1>c, ForkingAssumption
       DEF ForkingInv, Created, Sending, Accepts, Known, RequestOf, Receives, Serving, Current, Moves, Stops,
           serverVars, ForkingTypeOK, CopyIsReported, CopiesInv, StageInv, Undecided
  <1>8. SelectedIsInstalled'
    BY <1>a, <1>1, <1>b, <1>c, ForkingAssumption
       DEF ForkingInv, Created, Sending, Accepts, Known, RequestOf, Receives, Serving, Current, Moves, Stops,
           serverVars, ForkingTypeOK, SelectedIsInstalled, StageInv
  <1> QED
    BY <1>1, <1>2, <1>3, <1>4, <1>5, <1>6, <1>7, <1>8 DEF ForkingInv

LEMMA RepeatedSafe ==
    ASSUME ForkingInv, NEW v \in Visitors, Repeated(v)
    PROVE  ForkingInv'
  <1>a. /\ shares[Link].release.id \in Nat /\ shares[Link].release \in Release
        /\ \A c \in copies : c.visitor \in Visitors
        /\ \A r \in late : r.visitor \in Visitors /\ r.release.id \in Nat
        /\ \A u \in Visitors : offer[u].id \in Nat /\ key[u] \in Nat
    BY ForkingAssumption DEF ForkingInv, ForkingTypeOK, ServerTypeOK, Share, Release, Copy, Request
  <1>1. ForkingTypeOK'
    BY <1>a, ForkingAssumption
       DEF ForkingInv, Repeated, Sending, Known, RequestOf, Receives, Moves, Stops, serverVars, ForkingTypeOK,
           ServerTypeOK, Stage, Outcome, Copy, Request, Share
  <1>2. CopiesInv'
    BY <1>a, <1>1, ForkingAssumption
       DEF ForkingInv, Repeated, Sending, Known, RequestOf, Receives, Moves, Stops, serverVars, ForkingTypeOK,
           CopiesInv, Undecided, StageInv
  <1>3. LateInv'
    BY <1>a, <1>1, ForkingAssumption
       DEF ForkingInv, Repeated, Sending, Known, RequestOf, Receives, Moves, Stops, serverVars, ForkingTypeOK,
           LateInv, Undecided, StageInv, Current
  <1>4. \A w \in Visitors : StageInv(w)'
    BY <1>a, <1>1, ForkingAssumption
       DEF ForkingInv, Repeated, Sending, Known, RequestOf, Receives, Moves, Stops, serverVars, ForkingTypeOK,
           StageInv, Current, CopiesInv, Undecided
  <1>5. OneCopy'
    BY <1>a, <1>1, ForkingAssumption
       DEF ForkingInv, Repeated, Sending, Known, RequestOf, Receives, Moves, Stops, serverVars, ForkingTypeOK,
           OneCopy, CopiesInv
  <1>6. NothingCreatedTrue'
    BY <1>a, <1>1, ForkingAssumption
       DEF ForkingInv, Repeated, Sending, Known, RequestOf, Receives, Moves, Stops, serverVars, ForkingTypeOK,
           NothingCreatedTrue, CopiesInv, Undecided, StageInv
  <1>7. CopyIsReported'
    BY <1>a, <1>1, ForkingAssumption
       DEF ForkingInv, Repeated, Sending, Known, RequestOf, Receives, Moves, Stops, serverVars, ForkingTypeOK,
           CopyIsReported, CopiesInv, StageInv, Undecided
  <1>8. SelectedIsInstalled'
    BY <1>a, <1>1, ForkingAssumption
       DEF ForkingInv, Repeated, Sending, Known, RequestOf, Receives, Moves, Stops, serverVars, ForkingTypeOK,
           SelectedIsInstalled, StageInv
  <1> QED
    BY <1>1, <1>2, <1>3, <1>4, <1>5, <1>6, <1>7, <1>8 DEF ForkingInv

LEMMA RequestLostSafe ==
    ASSUME ForkingInv, NEW v \in Visitors, RequestLost(v)
    PROVE  ForkingInv'
  <1>a. /\ shares[Link].release.id \in Nat /\ shares[Link].release \in Release
        /\ \A c \in copies : c.visitor \in Visitors
        /\ \A r \in late : r.visitor \in Visitors /\ r.release.id \in Nat
        /\ \A u \in Visitors : offer[u].id \in Nat /\ key[u] \in Nat
    BY ForkingAssumption DEF ForkingInv, ForkingTypeOK, ServerTypeOK, Share, Release, Copy, Request
  <1>1. ForkingTypeOK'
    BY <1>a, ForkingAssumption
       DEF ForkingInv, RequestLost, Sending, RequestOf, AfterLost, Moves, Stops, serverVars, ForkingTypeOK,
           ServerTypeOK, Stage, Outcome, Copy, Request, Share
  <1>2. CopiesInv'
    BY <1>a, <1>1, ForkingAssumption
       DEF ForkingInv, RequestLost, Sending, RequestOf, AfterLost, Moves, Stops, serverVars, ForkingTypeOK,
           CopiesInv, Undecided, StageInv
  <1>3. LateInv'
    BY <1>a, <1>1, ForkingAssumption
       DEF ForkingInv, RequestLost, Sending, RequestOf, AfterLost, Moves, Stops, serverVars, ForkingTypeOK, LateInv,
           Undecided, StageInv, Current
  <1>4. \A w \in Visitors : StageInv(w)'
    BY <1>a, <1>1, ForkingAssumption
       DEF ForkingInv, RequestLost, Sending, RequestOf, AfterLost, Moves, Stops, serverVars, ForkingTypeOK,
           StageInv, Current, CopiesInv, Undecided
  <1>5. OneCopy'
    BY <1>a, <1>1, ForkingAssumption
       DEF ForkingInv, RequestLost, Sending, RequestOf, AfterLost, Moves, Stops, serverVars, ForkingTypeOK, OneCopy,
           CopiesInv
  <1>6. NothingCreatedTrue'
    BY <1>a, <1>1, ForkingAssumption
       DEF ForkingInv, RequestLost, Sending, RequestOf, AfterLost, Moves, Stops, serverVars, ForkingTypeOK,
           NothingCreatedTrue, CopiesInv, Undecided, StageInv
  <1>7. CopyIsReported'
    BY <1>a, <1>1, ForkingAssumption
       DEF ForkingInv, RequestLost, Sending, RequestOf, AfterLost, Moves, Stops, serverVars, ForkingTypeOK,
           CopyIsReported, CopiesInv, StageInv, Undecided
  <1>8. SelectedIsInstalled'
    BY <1>a, <1>1, ForkingAssumption
       DEF ForkingInv, RequestLost, Sending, RequestOf, AfterLost, Moves, Stops, serverVars, ForkingTypeOK,
           SelectedIsInstalled, StageInv
  <1> QED
    BY <1>1, <1>2, <1>3, <1>4, <1>5, <1>6, <1>7, <1>8 DEF ForkingInv

LEMMA AnswerLostSafe ==
    ASSUME ForkingInv, NEW v \in Visitors, AnswerLost(v)
    PROVE  ForkingInv'
  <1>a. /\ shares[Link].release.id \in Nat /\ shares[Link].release \in Release
        /\ \A c \in copies : c.visitor \in Visitors
        /\ \A r \in late : r.visitor \in Visitors /\ r.release.id \in Nat
        /\ \A u \in Visitors : offer[u].id \in Nat /\ key[u] \in Nat
    BY ForkingAssumption DEF ForkingInv, ForkingTypeOK, ServerTypeOK, Share, Release, Copy, Request
  <1>b. PICK c \in Copy : /\ c.visitor = v /\ c.key = key[v] /\ c.release = offer[v]
                          /\ copies' = copies \cup {c}
    <2>1. PICK settled \in {"yes", "no"} : MakeCopy(RequestOf(v), settled)
      BY DEF AnswerLost
    <2>2. PICK install \in {"none", "queued"} :
            copies' = copies \cup {[visitor |-> v, key |-> key[v], release |-> offer[v], settled |-> settled,
                                    install |-> install]}
      BY <2>1 DEF MakeCopy, RequestOf
    <2> QED
      BY <1>a, <2>2 DEF ForkingInv, ForkingTypeOK, Copy
  <1>c. copies' \in SUBSET Copy
    BY <1>b DEF ForkingInv, ForkingTypeOK
  <1>1. ForkingTypeOK'
    BY <1>a, <1>b, <1>c, ForkingAssumption
       DEF ForkingInv, AnswerLost, Sending, AfterLost, Moves, Stops, serverVars, ForkingTypeOK, ServerTypeOK, Stage,
           Outcome, Request, Share
  <1>2. CopiesInv'
    BY <1>a, <1>1, <1>b, <1>c, ForkingAssumption
       DEF ForkingInv, AnswerLost, Sending, Accepts, Known, RequestOf, AfterLost, Serving, Current, Moves, Stops,
           serverVars, ForkingTypeOK, CopiesInv, Undecided, StageInv
  <1>3. LateInv'
    BY <1>a, <1>1, <1>b, <1>c, ForkingAssumption
       DEF ForkingInv, AnswerLost, Sending, Accepts, Known, RequestOf, AfterLost, Serving, Current, Moves, Stops,
           serverVars, ForkingTypeOK, LateInv, Undecided, StageInv
  <1>4. \A w \in Visitors : StageInv(w)'
    BY <1>a, <1>1, <1>b, <1>c, ForkingAssumption
       DEF ForkingInv, AnswerLost, Sending, Accepts, Known, RequestOf, AfterLost, Serving, Current, Moves, Stops,
           serverVars, ForkingTypeOK, StageInv, CopiesInv, Undecided
  <1>5. OneCopy'
    BY <1>a, <1>1, <1>b, <1>c, ForkingAssumption
       DEF ForkingInv, AnswerLost, Sending, Accepts, Known, RequestOf, AfterLost, Serving, Current, Moves, Stops,
           serverVars, ForkingTypeOK, OneCopy, CopiesInv
  <1>6. NothingCreatedTrue'
    BY <1>a, <1>1, <1>b, <1>c, ForkingAssumption
       DEF ForkingInv, AnswerLost, Sending, Accepts, Known, RequestOf, AfterLost, Serving, Current, Moves, Stops,
           serverVars, ForkingTypeOK, NothingCreatedTrue, CopiesInv, Undecided, StageInv
  <1>7. CopyIsReported'
    BY <1>a, <1>1, <1>b, <1>c, ForkingAssumption
       DEF ForkingInv, AnswerLost, Sending, Accepts, Known, RequestOf, AfterLost, Serving, Current, Moves, Stops,
           serverVars, ForkingTypeOK, CopyIsReported, CopiesInv, StageInv, Undecided
  <1>8. SelectedIsInstalled'
    BY <1>a, <1>1, <1>b, <1>c, ForkingAssumption
       DEF ForkingInv, AnswerLost, Sending, Accepts, Known, RequestOf, AfterLost, Serving, Current, Moves, Stops,
           serverVars, ForkingTypeOK, SelectedIsInstalled, StageInv
  <1> QED
    BY <1>1, <1>2, <1>3, <1>4, <1>5, <1>6, <1>7, <1>8 DEF ForkingInv

LEMMA InProgressSafe ==
    ASSUME ForkingInv, NEW v \in Visitors, InProgress(v)
    PROVE  ForkingInv'
  <1>a. /\ shares[Link].release.id \in Nat /\ shares[Link].release \in Release
        /\ \A c \in copies : c.visitor \in Visitors
        /\ \A r \in late : r.visitor \in Visitors /\ r.release.id \in Nat
        /\ \A u \in Visitors : offer[u].id \in Nat /\ key[u] \in Nat
    BY ForkingAssumption DEF ForkingInv, ForkingTypeOK, ServerTypeOK, Share, Release, Copy, Request
  <1>1. ForkingTypeOK'
    BY <1>a, ForkingAssumption
       DEF ForkingInv, InProgress, Sending, Known, RequestOf, Moves, Stops, serverVars, ForkingTypeOK, ServerTypeOK,
           Stage, Outcome, Copy, Request, Share
  <1>2. CopiesInv'
    BY <1>a, <1>1, ForkingAssumption
       DEF ForkingInv, InProgress, Sending, Known, RequestOf, Moves, Stops, serverVars, ForkingTypeOK, CopiesInv,
           Undecided, StageInv
  <1>3. LateInv'
    BY <1>a, <1>1, ForkingAssumption
       DEF ForkingInv, InProgress, Sending, Known, RequestOf, Moves, Stops, serverVars, ForkingTypeOK, LateInv,
           Undecided, StageInv, Current
  <1>4. \A w \in Visitors : StageInv(w)'
    BY <1>a, <1>1, ForkingAssumption
       DEF ForkingInv, InProgress, Sending, Known, RequestOf, Moves, Stops, serverVars, ForkingTypeOK, StageInv,
           Current, CopiesInv, Undecided
  <1>5. OneCopy'
    BY <1>a, <1>1, ForkingAssumption
       DEF ForkingInv, InProgress, Sending, Known, RequestOf, Moves, Stops, serverVars, ForkingTypeOK, OneCopy,
           CopiesInv
  <1>6. NothingCreatedTrue'
    BY <1>a, <1>1, ForkingAssumption
       DEF ForkingInv, InProgress, Sending, Known, RequestOf, Moves, Stops, serverVars, ForkingTypeOK,
           NothingCreatedTrue, CopiesInv, Undecided, StageInv
  <1>7. CopyIsReported'
    BY <1>a, <1>1, ForkingAssumption
       DEF ForkingInv, InProgress, Sending, Known, RequestOf, Moves, Stops, serverVars, ForkingTypeOK,
           CopyIsReported, CopiesInv, StageInv, Undecided
  <1>8. SelectedIsInstalled'
    BY <1>a, <1>1, ForkingAssumption
       DEF ForkingInv, InProgress, Sending, Known, RequestOf, Moves, Stops, serverVars, ForkingTypeOK,
           SelectedIsInstalled, StageInv
  <1> QED
    BY <1>1, <1>2, <1>3, <1>4, <1>5, <1>6, <1>7, <1>8 DEF ForkingInv

LEMMA WaitRetryAfterSafe ==
    ASSUME ForkingInv, NEW v \in Visitors, WaitRetryAfter(v)
    PROVE  ForkingInv'
  <1>a. /\ shares[Link].release.id \in Nat /\ shares[Link].release \in Release
        /\ \A c \in copies : c.visitor \in Visitors
        /\ \A r \in late : r.visitor \in Visitors /\ r.release.id \in Nat
        /\ \A u \in Visitors : offer[u].id \in Nat /\ key[u] \in Nat
    BY ForkingAssumption DEF ForkingInv, ForkingTypeOK, ServerTypeOK, Share, Release, Copy, Request
  <1>1. ForkingTypeOK'
    BY <1>a, ForkingAssumption
       DEF ForkingInv, WaitRetryAfter, Moves, Stops, serverVars, ForkingTypeOK, ServerTypeOK, Stage, Outcome, Copy,
           Request, Share
  <1>2. CopiesInv'
    BY <1>a, <1>1, ForkingAssumption
       DEF ForkingInv, WaitRetryAfter, Moves, Stops, serverVars, ForkingTypeOK, CopiesInv, Undecided, StageInv
  <1>3. LateInv'
    BY <1>a, <1>1, ForkingAssumption
       DEF ForkingInv, WaitRetryAfter, Moves, Stops, serverVars, ForkingTypeOK, LateInv, Undecided, StageInv,
           Current
  <1>4. \A w \in Visitors : StageInv(w)'
    BY <1>a, <1>1, ForkingAssumption
       DEF ForkingInv, WaitRetryAfter, Moves, Stops, serverVars, ForkingTypeOK, StageInv, Current, CopiesInv,
           Undecided
  <1>5. OneCopy'
    BY <1>a, <1>1, ForkingAssumption
       DEF ForkingInv, WaitRetryAfter, Moves, Stops, serverVars, ForkingTypeOK, OneCopy, CopiesInv
  <1>6. NothingCreatedTrue'
    BY <1>a, <1>1, ForkingAssumption
       DEF ForkingInv, WaitRetryAfter, Moves, Stops, serverVars, ForkingTypeOK, NothingCreatedTrue, CopiesInv,
           Undecided, StageInv
  <1>7. CopyIsReported'
    BY <1>a, <1>1, ForkingAssumption
       DEF ForkingInv, WaitRetryAfter, Moves, Stops, serverVars, ForkingTypeOK, CopyIsReported, CopiesInv, StageInv,
           Undecided
  <1>8. SelectedIsInstalled'
    BY <1>a, <1>1, ForkingAssumption
       DEF ForkingInv, WaitRetryAfter, Moves, Stops, serverVars, ForkingTypeOK, SelectedIsInstalled, StageInv
  <1> QED
    BY <1>1, <1>2, <1>3, <1>4, <1>5, <1>6, <1>7, <1>8 DEF ForkingInv

LEMMA ReleaseChangedSafe ==
    ASSUME ForkingInv, NEW v \in Visitors, ReleaseChanged(v)
    PROVE  ForkingInv'
  <1>a. /\ shares[Link].release.id \in Nat /\ shares[Link].release \in Release
        /\ \A c \in copies : c.visitor \in Visitors
        /\ \A r \in late : r.visitor \in Visitors /\ r.release.id \in Nat
        /\ \A u \in Visitors : offer[u].id \in Nat /\ key[u] \in Nat
    BY ForkingAssumption DEF ForkingInv, ForkingTypeOK, ServerTypeOK, Share, Release, Copy, Request
  <1>1. ForkingTypeOK'
    BY <1>a, ForkingAssumption
       DEF ForkingInv, ReleaseChanged, Sending, Known, RequestOf, Serving, Current, Moves, Stops, serverVars,
           ForkingTypeOK, ServerTypeOK, Stage, Outcome, Copy, Request, Share
  <1>2. CopiesInv'
    BY <1>a, <1>1, ForkingAssumption
       DEF ForkingInv, ReleaseChanged, Sending, Known, RequestOf, Serving, Current, Moves, Stops, serverVars,
           ForkingTypeOK, CopiesInv, Undecided, StageInv
  <1>3. LateInv'
    BY <1>a, <1>1, ForkingAssumption
       DEF ForkingInv, ReleaseChanged, Sending, Known, RequestOf, Serving, Current, Moves, Stops, serverVars,
           ForkingTypeOK, LateInv, Undecided, StageInv
  <1>4. \A w \in Visitors : StageInv(w)'
    BY <1>a, <1>1, ForkingAssumption
       DEF ForkingInv, ReleaseChanged, Sending, Known, RequestOf, Serving, Current, Moves, Stops, serverVars,
           ForkingTypeOK, StageInv, CopiesInv, Undecided
  <1>5. OneCopy'
    BY <1>a, <1>1, ForkingAssumption
       DEF ForkingInv, ReleaseChanged, Sending, Known, RequestOf, Serving, Current, Moves, Stops, serverVars,
           ForkingTypeOK, OneCopy, CopiesInv
  <1>6. NothingCreatedTrue'
    BY <1>a, <1>1, ForkingAssumption
       DEF ForkingInv, ReleaseChanged, Sending, Known, RequestOf, Serving, Current, Moves, Stops, serverVars,
           ForkingTypeOK, NothingCreatedTrue, CopiesInv, Undecided, StageInv
  <1>7. CopyIsReported'
    BY <1>a, <1>1, ForkingAssumption
       DEF ForkingInv, ReleaseChanged, Sending, Known, RequestOf, Serving, Current, Moves, Stops, serverVars,
           ForkingTypeOK, CopyIsReported, CopiesInv, StageInv, Undecided
  <1>8. SelectedIsInstalled'
    BY <1>a, <1>1, ForkingAssumption
       DEF ForkingInv, ReleaseChanged, Sending, Known, RequestOf, Serving, Current, Moves, Stops, serverVars,
           ForkingTypeOK, SelectedIsInstalled, StageInv
  <1> QED
    BY <1>1, <1>2, <1>3, <1>4, <1>5, <1>6, <1>7, <1>8 DEF ForkingInv

LEMMA RefusedSafe ==
    ASSUME ForkingInv, NEW v \in Visitors, Refused(v)
    PROVE  ForkingInv'
  <1>a. /\ shares[Link].release.id \in Nat /\ shares[Link].release \in Release
        /\ \A c \in copies : c.visitor \in Visitors
        /\ \A r \in late : r.visitor \in Visitors /\ r.release.id \in Nat
        /\ \A u \in Visitors : offer[u].id \in Nat /\ key[u] \in Nat
    BY ForkingAssumption DEF ForkingInv, ForkingTypeOK, ServerTypeOK, Share, Release, Copy, Request
  <1>1. ForkingTypeOK'
    BY <1>a, ForkingAssumption
       DEF ForkingInv, Refused, Sending, Known, RequestOf, Moves, Stops, serverVars, ForkingTypeOK, ServerTypeOK,
           Stage, Outcome, Copy, Request, Share
  <1>2. CopiesInv'
    BY <1>a, <1>1, ForkingAssumption
       DEF ForkingInv, Refused, Sending, Known, RequestOf, Moves, Stops, serverVars, ForkingTypeOK, CopiesInv,
           Undecided, StageInv
  <1>3. LateInv'
    BY <1>a, <1>1, ForkingAssumption
       DEF ForkingInv, Refused, Sending, Known, RequestOf, Moves, Stops, serverVars, ForkingTypeOK, LateInv,
           Undecided, StageInv, Current
  <1>4. \A w \in Visitors : StageInv(w)'
    BY <1>a, <1>1, ForkingAssumption
       DEF ForkingInv, Refused, Sending, Known, RequestOf, Moves, Stops, serverVars, ForkingTypeOK, StageInv,
           Current, CopiesInv, Undecided
  <1>5. OneCopy'
    BY <1>a, <1>1, ForkingAssumption
       DEF ForkingInv, Refused, Sending, Known, RequestOf, Moves, Stops, serverVars, ForkingTypeOK, OneCopy,
           CopiesInv
  <1>6. NothingCreatedTrue'
    BY <1>a, <1>1, ForkingAssumption
       DEF ForkingInv, Refused, Sending, Known, RequestOf, Moves, Stops, serverVars, ForkingTypeOK,
           NothingCreatedTrue, CopiesInv, Undecided, StageInv
  <1>7. CopyIsReported'
    BY <1>a, <1>1, ForkingAssumption
       DEF ForkingInv, Refused, Sending, Known, RequestOf, Moves, Stops, serverVars, ForkingTypeOK, CopyIsReported,
           CopiesInv, StageInv, Undecided
  <1>8. SelectedIsInstalled'
    BY <1>a, <1>1, ForkingAssumption
       DEF ForkingInv, Refused, Sending, Known, RequestOf, Moves, Stops, serverVars, ForkingTypeOK,
           SelectedIsInstalled, StageInv
  <1> QED
    BY <1>1, <1>2, <1>3, <1>4, <1>5, <1>6, <1>7, <1>8 DEF ForkingInv

LEMMA InstalledSafe ==
    ASSUME ForkingInv, NEW v \in Visitors, Installed(v)
    PROVE  ForkingInv'
  <1>a. /\ shares[Link].release.id \in Nat /\ shares[Link].release \in Release
        /\ \A c \in copies : c.visitor \in Visitors
        /\ \A r \in late : r.visitor \in Visitors /\ r.release.id \in Nat
        /\ \A u \in Visitors : offer[u].id \in Nat /\ key[u] \in Nat
    BY ForkingAssumption DEF ForkingInv, ForkingTypeOK, ServerTypeOK, Share, Release, Copy, Request
  <1>1. ForkingTypeOK'
    BY <1>a, ForkingAssumption
       DEF ForkingInv, Installed, Mine, Known, RequestOf, Moves, Stops, serverVars, ForkingTypeOK, ServerTypeOK,
           Stage, Outcome, Copy, Request, Share
  <1>2. CopiesInv'
    BY <1>a, <1>1, ForkingAssumption
       DEF ForkingInv, Installed, Mine, Known, RequestOf, Moves, Stops, serverVars, ForkingTypeOK, CopiesInv,
           Undecided, StageInv
  <1>3. LateInv'
    BY <1>a, <1>1, ForkingAssumption
       DEF ForkingInv, Installed, Mine, Known, RequestOf, Moves, Stops, serverVars, ForkingTypeOK, LateInv,
           Undecided, StageInv, Current
  <1>4. \A w \in Visitors : StageInv(w)'
    BY <1>a, <1>1, ForkingAssumption
       DEF ForkingInv, Installed, Mine, Known, RequestOf, Moves, Stops, serverVars, ForkingTypeOK, StageInv,
           Current, CopiesInv, Undecided
  <1>5. OneCopy'
    BY <1>a, <1>1, ForkingAssumption
       DEF ForkingInv, Installed, Mine, Known, RequestOf, Moves, Stops, serverVars, ForkingTypeOK, OneCopy,
           CopiesInv
  <1>6. NothingCreatedTrue'
    BY <1>a, <1>1, ForkingAssumption
       DEF ForkingInv, Installed, Mine, Known, RequestOf, Moves, Stops, serverVars, ForkingTypeOK,
           NothingCreatedTrue, CopiesInv, Undecided, StageInv
  <1>7. CopyIsReported'
    BY <1>a, <1>1, ForkingAssumption
       DEF ForkingInv, Installed, Mine, Known, RequestOf, Moves, Stops, serverVars, ForkingTypeOK, CopyIsReported,
           CopiesInv, StageInv, Undecided
  <1>8. SelectedIsInstalled'
    BY <1>a, <1>1, ForkingAssumption
       DEF ForkingInv, Installed, Mine, Known, RequestOf, Moves, Stops, serverVars, ForkingTypeOK,
           SelectedIsInstalled, StageInv
  <1> QED
    BY <1>1, <1>2, <1>3, <1>4, <1>5, <1>6, <1>7, <1>8 DEF ForkingInv

LEMMA StopsWaitingSafe ==
    ASSUME ForkingInv, NEW v \in Visitors, StopsWaiting(v)
    PROVE  ForkingInv'
  <1>a. /\ shares[Link].release.id \in Nat /\ shares[Link].release \in Release
        /\ \A c \in copies : c.visitor \in Visitors
        /\ \A r \in late : r.visitor \in Visitors /\ r.release.id \in Nat
        /\ \A u \in Visitors : offer[u].id \in Nat /\ key[u] \in Nat
    BY ForkingAssumption DEF ForkingInv, ForkingTypeOK, ServerTypeOK, Share, Release, Copy, Request
  <1>1. ForkingTypeOK'
    BY <1>a, ForkingAssumption
       DEF ForkingInv, StopsWaiting, Moves, Stops, serverVars, ForkingTypeOK, ServerTypeOK, Stage, Outcome, Copy,
           Request, Share
  <1>2. CopiesInv'
    BY <1>a, <1>1, ForkingAssumption
       DEF ForkingInv, StopsWaiting, Moves, Stops, serverVars, ForkingTypeOK, CopiesInv, Undecided, StageInv
  <1>3. LateInv'
    BY <1>a, <1>1, ForkingAssumption
       DEF ForkingInv, StopsWaiting, Moves, Stops, serverVars, ForkingTypeOK, LateInv, Undecided, StageInv, Current
  <1>4. \A w \in Visitors : StageInv(w)'
    BY <1>a, <1>1, ForkingAssumption
       DEF ForkingInv, StopsWaiting, Moves, Stops, serverVars, ForkingTypeOK, StageInv, Current, CopiesInv,
           Undecided
  <1>5. OneCopy'
    BY <1>a, <1>1, ForkingAssumption
       DEF ForkingInv, StopsWaiting, Moves, Stops, serverVars, ForkingTypeOK, OneCopy, CopiesInv
  <1>6. NothingCreatedTrue'
    BY <1>a, <1>1, ForkingAssumption
       DEF ForkingInv, StopsWaiting, Moves, Stops, serverVars, ForkingTypeOK, NothingCreatedTrue, CopiesInv,
           Undecided, StageInv
  <1>7. CopyIsReported'
    BY <1>a, <1>1, ForkingAssumption
       DEF ForkingInv, StopsWaiting, Moves, Stops, serverVars, ForkingTypeOK, CopyIsReported, CopiesInv, StageInv,
           Undecided
  <1>8. SelectedIsInstalled'
    BY <1>a, <1>1, ForkingAssumption
       DEF ForkingInv, StopsWaiting, Moves, Stops, serverVars, ForkingTypeOK, SelectedIsInstalled, StageInv
  <1> QED
    BY <1>1, <1>2, <1>3, <1>4, <1>5, <1>6, <1>7, <1>8 DEF ForkingInv

LEMMA SelectCopySafe ==
    ASSUME ForkingInv, NEW v \in Visitors, SelectCopy(v)
    PROVE  ForkingInv'
  <1>a. /\ shares[Link].release.id \in Nat /\ shares[Link].release \in Release
        /\ \A c \in copies : c.visitor \in Visitors
        /\ \A r \in late : r.visitor \in Visitors /\ r.release.id \in Nat
        /\ \A u \in Visitors : offer[u].id \in Nat /\ key[u] \in Nat
    BY ForkingAssumption DEF ForkingInv, ForkingTypeOK, ServerTypeOK, Share, Release, Copy, Request
  <1>1. ForkingTypeOK'
    BY <1>a, ForkingAssumption
       DEF ForkingInv, SelectCopy, Finished, Moves, Stops, serverVars, ForkingTypeOK, ServerTypeOK, Stage, Outcome,
           Copy, Request, Share
  <1>2. CopiesInv'
    BY <1>a, <1>1, ForkingAssumption
       DEF ForkingInv, SelectCopy, Finished, Moves, Stops, serverVars, ForkingTypeOK, CopiesInv, Undecided, StageInv
  <1>3. LateInv'
    BY <1>a, <1>1, ForkingAssumption
       DEF ForkingInv, SelectCopy, Finished, Moves, Stops, serverVars, ForkingTypeOK, LateInv, Undecided, StageInv,
           Current
  <1>4. \A w \in Visitors : StageInv(w)'
    BY <1>a, <1>1, ForkingAssumption
       DEF ForkingInv, SelectCopy, Finished, Moves, Stops, serverVars, ForkingTypeOK, StageInv, Current, CopiesInv,
           Undecided
  <1>5. OneCopy'
    BY <1>a, <1>1, ForkingAssumption
       DEF ForkingInv, SelectCopy, Finished, Moves, Stops, serverVars, ForkingTypeOK, OneCopy, CopiesInv
  <1>6. NothingCreatedTrue'
    BY <1>a, <1>1, ForkingAssumption
       DEF ForkingInv, SelectCopy, Finished, Moves, Stops, serverVars, ForkingTypeOK, NothingCreatedTrue, CopiesInv,
           Undecided, StageInv
  <1>7. CopyIsReported'
    BY <1>a, <1>1, ForkingAssumption
       DEF ForkingInv, SelectCopy, Finished, Moves, Stops, serverVars, ForkingTypeOK, CopyIsReported, CopiesInv,
           StageInv, Undecided
  <1>8. SelectedIsInstalled'
    BY <1>a, <1>1, ForkingAssumption
       DEF ForkingInv, SelectCopy, Finished, Moves, Stops, serverVars, ForkingTypeOK, SelectedIsInstalled, StageInv
  <1> QED
    BY <1>1, <1>2, <1>3, <1>4, <1>5, <1>6, <1>7, <1>8 DEF ForkingInv

LEMMA CancelSafe ==
    ASSUME ForkingInv, NEW v \in Visitors, Cancel(v)
    PROVE  ForkingInv'
  <1>a. /\ shares[Link].release.id \in Nat /\ shares[Link].release \in Release
        /\ \A c \in copies : c.visitor \in Visitors
        /\ \A r \in late : r.visitor \in Visitors /\ r.release.id \in Nat
        /\ \A u \in Visitors : offer[u].id \in Nat /\ key[u] \in Nat
    BY ForkingAssumption DEF ForkingInv, ForkingTypeOK, ServerTypeOK, Share, Release, Copy, Request
  <1>1. ForkingTypeOK'
    BY <1>a, ForkingAssumption
       DEF ForkingInv, Cancel, Moves, Stops, serverVars, ForkingTypeOK, ServerTypeOK, Stage, Outcome, Copy, Request,
           Share
  <1>2. CopiesInv'
    BY <1>a, <1>1, ForkingAssumption
       DEF ForkingInv, Cancel, Moves, Stops, serverVars, ForkingTypeOK, CopiesInv, Undecided, StageInv
  <1>3. LateInv'
    BY <1>a, <1>1, ForkingAssumption
       DEF ForkingInv, Cancel, Moves, Stops, serverVars, ForkingTypeOK, LateInv, Undecided, StageInv, Current
  <1>4. \A w \in Visitors : StageInv(w)'
    <2> SUFFICES ASSUME NEW w \in Visitors
                 PROVE  StageInv(w)'
      OBVIOUS
    <2>1. CASE w = v
      BY <2>1, <1>a, <1>1, ForkingAssumption
         DEF ForkingInv, Cancel, Moves, Stops, serverVars, ForkingTypeOK, StageInv, Current
    <2>2. CASE w # v
      BY <2>2, <1>a, <1>1, ForkingAssumption
         DEF ForkingInv, Cancel, Moves, Stops, serverVars, ForkingTypeOK, StageInv, Current
    <2> QED
      BY <2>1, <2>2
  <1>5. OneCopy'
    BY <1>a, <1>1, ForkingAssumption
       DEF ForkingInv, Cancel, Moves, Stops, serverVars, ForkingTypeOK, OneCopy, CopiesInv
  <1>6. NothingCreatedTrue'
    BY <1>a, <1>1, ForkingAssumption
       DEF ForkingInv, Cancel, Moves, Stops, serverVars, ForkingTypeOK, NothingCreatedTrue, CopiesInv, Undecided,
           StageInv
  <1>7. CopyIsReported'
    BY <1>a, <1>1, ForkingAssumption
       DEF ForkingInv, Cancel, Moves, Stops, serverVars, ForkingTypeOK, CopyIsReported, CopiesInv, StageInv,
           Undecided
  <1>8. SelectedIsInstalled'
    BY <1>a, <1>1, ForkingAssumption
       DEF ForkingInv, Cancel, Moves, Stops, serverVars, ForkingTypeOK, SelectedIsInstalled, StageInv
  <1> QED
    BY <1>1, <1>2, <1>3, <1>4, <1>5, <1>6, <1>7, <1>8 DEF ForkingInv

(***************************************************************************)
(* The API and the owner.                                                  *)
(***************************************************************************)
LEMMA ArrivesSafe ==
    ASSUME ForkingInv, NEW r \in late, Arrives(r)
    PROVE  ForkingInv'
  <1>a. /\ shares[Link].release.id \in Nat /\ shares[Link].release \in Release
        /\ \A c \in copies : c.visitor \in Visitors
        /\ \A q \in late : q.visitor \in Visitors /\ q.release.id \in Nat
        /\ \A u \in Visitors : offer[u].id \in Nat /\ key[u] \in Nat
    BY ForkingAssumption DEF ForkingInv, ForkingTypeOK, ServerTypeOK, Share, Release, Copy, Request
  <1>b. CASE UNCHANGED copies
    BY <1>a, <1>b
       DEF Arrives, serverVars, ForkingInv, ForkingTypeOK, ServerTypeOK, CopiesInv, LateInv, StageInv, Undecided, Current,
           OneCopy, NothingCreatedTrue, CopyIsReported, SelectedIsInstalled
  <1>c. CASE Accepts(r) /\ MakeCopy(r, "no")
    <2>1. PICK c \in Copy : /\ c.visitor = r.visitor /\ c.key = r.key /\ c.release = r.release
                            /\ copies' = copies \cup {c}
      <3>1. PICK install \in {"none", "queued"} :
              copies' = copies \cup {[visitor |-> r.visitor, key |-> r.key, release |-> r.release, settled |-> "no",
                                      install |-> install]}
        BY <1>c DEF MakeCopy
      <3> QED
        BY <3>1 DEF ForkingInv, ForkingTypeOK, Copy, Request
    <2>2. /\ r.key = key[r.visitor] /\ r.release = offer[r.visitor] /\ ~Undecided(r.visitor)
          /\ r.release \in agreed[r.visitor] /\ r.visitor \in Visitors
      BY <1>a, <1>c DEF Accepts, Current, ForkingInv, LateInv
    <2>3. \A e \in copies : e.visitor # r.visitor
      BY <1>c, <2>2 DEF Accepts, Known, ForkingInv, CopiesInv
    <2>4. ForkingTypeOK' /\ CopiesInv' /\ LateInv'
      BY <1>a, <2>1, <2>2
         DEF Arrives, serverVars, ForkingInv, ForkingTypeOK, ServerTypeOK, CopiesInv, LateInv, Undecided, Current
    <2>5. (\A v \in Visitors : StageInv(v)') /\ OneCopy'
      BY <2>1, <2>3 DEF Arrives, serverVars, ForkingInv, StageInv, OneCopy, Current
    <2>6. NothingCreatedTrue' /\ CopyIsReported' /\ SelectedIsInstalled'
      BY <1>a, <2>1, <2>2
         DEF Arrives, ForkingInv, NothingCreatedTrue, CopyIsReported, SelectedIsInstalled, Undecided
    <2> QED
      BY <2>4, <2>5, <2>6 DEF ForkingInv
  <1> QED
    BY <1>b, <1>c DEF Arrives

LEMMA BecomesSafe ==
    ASSUME ForkingInv, NEW c \in copies, NEW d \in Copy, Becomes(c, d),
           d.visitor = c.visitor, d.key = c.key, d.release = c.release, c.install = "ready" => d.install = "ready"
    PROVE  ForkingInv'
  <1>a. /\ shares[Link].release.id \in Nat /\ shares[Link].release \in Release
        /\ \A e \in copies : e.visitor \in Visitors
        /\ \A r \in late : r.visitor \in Visitors /\ r.release.id \in Nat
        /\ \A u \in Visitors : offer[u].id \in Nat /\ key[u] \in Nat
    BY ForkingAssumption DEF ForkingInv, ForkingTypeOK, ServerTypeOK, Share, Release, Copy, Request
  <1>1. ForkingTypeOK' /\ CopiesInv' /\ LateInv'
    BY <1>a DEF Becomes, serverVars, ForkingInv, ForkingTypeOK, ServerTypeOK, CopiesInv, LateInv, Undecided, Current
  <1>2. \A v \in Visitors : StageInv(v)'
    BY DEF Becomes, serverVars, ForkingInv, StageInv, Current
  <1>3. OneCopy' /\ NothingCreatedTrue' /\ CopyIsReported'
    BY DEF Becomes, ForkingInv, OneCopy, NothingCreatedTrue, CopyIsReported
  <1>4. SelectedIsInstalled'
    BY DEF Becomes, ForkingInv, SelectedIsInstalled
  <1> QED
    BY <1>1, <1>2, <1>3, <1>4 DEF ForkingInv

LEMMA ServerSafe ==
    ASSUME ForkingInv, UNCHANGED visitorVars, ServerTypeOK',
           Current' = Current \/ Current'.id = Current.id + 1
    PROVE  ForkingInv'
  <1>a. /\ shares[Link].release.id \in Nat /\ shares[Link].release \in Release
        /\ \A c \in copies : c.visitor \in Visitors
        /\ \A r \in late : r.visitor \in Visitors /\ r.release.id \in Nat
        /\ \A u \in Visitors : offer[u].id \in Nat /\ key[u] \in Nat
    BY ForkingAssumption DEF ForkingInv, ForkingTypeOK, ServerTypeOK, Share, Release, Copy, Request
  <1>b. ForkingTypeOK' /\ CopiesInv' /\ OneCopy' /\ NothingCreatedTrue' /\ CopyIsReported' /\ SelectedIsInstalled'
    BY DEF visitorVars, ForkingInv, ForkingTypeOK, CopiesInv, Undecided, OneCopy, NothingCreatedTrue, CopyIsReported,
           SelectedIsInstalled
  <1>c. Current.id \in Nat
    BY <1>a DEF Current
  <1>d. LateInv'
    BY <1>a, <1>c DEF visitorVars, ForkingInv, LateInv, Undecided
  <1>e. \A v \in Visitors : StageInv(v)'
    BY <1>a, <1>c DEF visitorVars, ForkingInv, StageInv
  <1> QED
    BY <1>b, <1>d, <1>e DEF ForkingInv

LEMMA OwnerStepMoves ==
    ASSUME ServerTypeOK, OwnerStep
    PROVE  ServerTypeOK' /\ (Current' = Current \/ Current'.id = Current.id + 1)
  <1>1. PICK s \in ShareIds, status \in Status, reshare \in {"yes", "no"} :
          \E release \in {shares[s].release, NextRelease(s)} :
            shares' = [shares EXCEPT ![s] = [status |-> status, reshare |-> reshare, release |-> release]]
    BY DEF OwnerStep
  <1>2. PICK release \in {shares[s].release, NextRelease(s)} :
          shares' = [shares EXCEPT ![s] = [status |-> status, reshare |-> reshare, release |-> release]]
    BY <1>1
  <1>3. release \in Release
    BY DEF ServerTypeOK, Share, Release, NextRelease
  <1> QED
    BY <1>2, <1>3, ForkingAssumption DEF OwnerStep, ServerTypeOK, Share, Current, NextRelease

LEMMA ForkingNextSafe == ForkingInv /\ [ForkingNext]_forkingVars => ForkingInv'
  <1> SUFFICES ASSUME ForkingInv, [ForkingNext]_forkingVars
               PROVE  ForkingInv'
    OBVIOUS
  <1>1. CASE \E v \in Visitors : ForkStep(v) \/ Cancel(v)
    BY <1>1, PreviewSafe, AgreeSafe, DeclineForkSafe, PreviewAgainSafe, CreatedSafe, RepeatedSafe,
           RequestLostSafe, AnswerLostSafe, InProgressSafe, WaitRetryAfterSafe, ReleaseChangedSafe,
           RefusedSafe, InstalledSafe, StopsWaitingSafe, SelectCopySafe, CancelSafe
       DEF ForkStep
  <1>2. CASE ApiStep
    <2>1. CASE \E r \in late : Arrives(r)
      BY <2>1, ArrivesSafe
    <2>2. ASSUME NEW c \in copies, Settles(c) \/ Installs(c)
          PROVE  ForkingInv'
      <3>1. c \in Copy
        BY DEF ForkingInv, ForkingTypeOK
      <3>2. CASE Settles(c)
        BY <3>1, <3>2, BecomesSafe DEF Settles, Copy
      <3>3. CASE Installs(c)
        BY <3>1, <3>3, BecomesSafe DEF Installs, Copy
      <3> QED
        BY <2>2, <3>2, <3>3
    <2> QED
      BY <1>2, <2>1, <2>2 DEF ApiStep
  <1>3. CASE OwnerStep /\ UNCHANGED visitorVars
    BY <1>3, OwnerStepMoves, ServerSafe DEF ForkingInv, ForkingTypeOK
  <1>4. CASE Change /\ UNCHANGED visitorVars
    <2>1. ServerTypeOK' /\ Current' = Current
      BY <1>4 DEF Change, Deployed, ForkingInv, ForkingTypeOK, ServerTypeOK, Build, Current
    <2> QED
      BY <1>4, <2>1, ServerSafe
  <1>5. CASE UNCHANGED forkingVars
    <2>1. ServerTypeOK' /\ Current' = Current /\ UNCHANGED visitorVars
      BY <1>5 DEF forkingVars, serverVars, ForkingInv, ForkingTypeOK, ServerTypeOK, Current
    <2> QED
      BY <2>1, ServerSafe
  <1> QED
    BY <1>1, <1>2, <1>3, <1>4, <1>5 DEF ForkingNext, ForkingDone

(***************************************************************************)
(* The theorems.                                                           *)
(***************************************************************************)
\* The invariant holds of every behaviour: a late request is the one being sent
\* or out of date.
THEOREM ForkingSafe == ForkingSafety => []ForkingInv
  BY ForkingInitSafe, ForkingNextSafe, PTL DEF ForkingSafety

\* One command makes at most one project, however many requests and answers are
\* lost and releases published.
THEOREM AtMostOneCopy == ForkingSafety => []OneCopy
  BY ForkingSafe, PTL DEF ForkingInv

\* When the command says that nothing was created, nothing is, then or later.
THEOREM NothingIsCreated == ForkingSafety => []NothingCreatedTrue
  BY ForkingSafe, PTL DEF ForkingInv

\* A copy is of a confirmed release, and it is the one the command reports.
THEOREM CopyIsConfirmed == ForkingSafety => []CopyIsReported
  BY ForkingSafe, PTL DEF ForkingInv

\* Only an installed copy, or one the person does not wait for, is selected.
THEOREM SelectedCopyInstalled == ForkingSafety => []SelectedIsInstalled
  BY ForkingSafe, PTL DEF ForkingInv

(***************************************************************************)
(* The owners' module allows every step.                                   *)
(***************************************************************************)
LEMMA VisitorsLeaveServer ==
    ASSUME NEW v \in Visitors, ForkStep(v) \/ Cancel(v)
    PROVE  UNCHANGED serverVars
  BY DEF ForkStep, Cancel, Preview, Agree, DeclineFork, PreviewAgain, Created, Repeated, RequestLost, AnswerLost,
         InProgress, WaitRetryAfter, ReleaseChanged, Refused, Installed, StopsWaiting, SelectCopy

LEMMA ApiLeavesServer == ApiStep => UNCHANGED serverVars
  BY DEF ApiStep, Arrives, Settles, Installs, Becomes

LEMMA NextIsSharing == [Next]_vars => [SharingNext]_sharingVars
  <1>1. OwnerActs \/ ProjectChanges => SharingNext
    BY DEF OwnerActs, ProjectChanges, SharingNext
  <1>2. VisitorActs => UNCHANGED sharingVars
    BY VisitorsLeaveServer, ApiLeavesServer DEF VisitorActs, sharingVars
  <1>3. Done \/ UNCHANGED vars => UNCHANGED sharingVars
    BY DEF Done, vars, sharingVars
  <1> QED
    BY <1>1, <1>2, <1>3 DEF Next

\* With visitors at work the owners' commands still behave as Sharing says.
THEOREM ImplementsSharing == Spec => SharingSafety
  <1>1. Init => SharingInit
    BY DEF Init
  <1> QED
    BY <1>1, NextIsSharing, PTL DEF Spec, SharingSafety

(***************************************************************************)
(* The visitors' module allows every step.                                 *)
(***************************************************************************)
\* A command changes one share at most, and its release only to the next.
LEMMA ShareStepIsOwners ==
    ASSUME SharingInv, NEW o \in Owners, ShareStep(o) \/ Kill(o)
    PROVE  UNCHANGED serverVars \/ Change \/ OwnerStep
  <1>1. CASE \/ Start(o) \/ PickShare(o) \/ PickFails(o) \/ NoShareYet(o) \/ CreateRefused(o) \/ StopRefused(o)
             \/ Draft(o) \/ DraftFails(o) \/ Confirm(o) \/ Decline(o) \/ PublishRefused(o) \/ ReviewAgain(o)
             \/ PublishFreshOne(o) \/ StopOnChange(o) \/ FinishUnchanged(o) \/ FinishRefused(o)
             \/ SwitchOffRefused(o) \/ Kill(o)
    BY <1>1 DEF Start, PickShare, PickFails, NoShareYet, CreateRefused, StopRefused, Draft, DraftFails, Confirm,
                Decline, PublishRefused, ReviewAgain, PublishFreshOne, StopOnChange, FinishUnchanged, FinishRefused,
                SwitchOffRefused, Kill, OnlyMoves
  <1>2. CASE PutDirectoryOnCloud(o)
    BY <1>2 DEF PutDirectoryOnCloud, Change, serverVars
  <1>3. ASSUME NEW s \in ShareIds, NEW status \in Status, NEW reshare \in {"yes", "no"},
               NEW release \in {shares[s].release, NextRelease(s)},
               release = NextRelease(s) => shares[s].release.id < MaxReleases,
               shares' = [shares EXCEPT ![s] = [status |-> status, reshare |-> reshare, release |-> release]],
               build' = build
        PROVE  OwnerStep
    <2>1. shares[s].release.id \in Nat /\ MaxReleases \in Nat
      BY ShareServerAssumption DEF SharingInv, SharingTypeOK, ServerTypeOK, Share, Release
    <2>2. release.id > shares[s].release.id => release.id =< MaxReleases
      BY <1>3, <2>1 DEF NextRelease
    <2> QED
      BY <1>3, <2>2 DEF OwnerStep
  <1>4. CASE Create(o)
    <2> DEFINE reshare == IF cmd[o].reshare = "allow" THEN "yes" ELSE "no"
    <2>1. PICK s \in ShareIds : CreateShare(s, reshare)
      BY <1>4 DEF Create
    <2>2. shares' = [shares EXCEPT ![s] = [status |-> "draft", reshare |-> reshare, release |-> shares[s].release]]
      BY <2>1 DEF CreateShare
    <2>3. reshare \in {"yes", "no"} /\ "draft" \in Status
      BY DEF Status
    <2>4. build' = build
      BY <1>4 DEF Create
    <2>5. NextRelease(s) # shares[s].release
      BY DEF NextRelease, SharingInv, SharingTypeOK, ServerTypeOK, Share, Release
    <2> HIDE DEF reshare
    <2> QED
      BY <1>3, <2>2, <2>3, <2>4, <2>5
  <1>5. ASSUME NEW s \in ShareIds, NEW fields, UpdateShare(s, fields), build' = build
        PROVE  OwnerStep
    <2> DEFINE status == IF "on" \in fields THEN "active"
                         ELSE IF "off" \in fields THEN "disabled" ELSE shares[s].status
               reshare == IF "allow" \in fields THEN "yes"
                          ELSE IF "stop" \in fields THEN "no" ELSE shares[s].reshare
    <2>1. shares' = [shares EXCEPT ![s] = [status |-> status, reshare |-> reshare, release |-> shares[s].release]]
      BY <1>5 DEF UpdateShare
    <2>2. status \in Status /\ reshare \in {"yes", "no"}
      BY DEF SharingInv, SharingTypeOK, ServerTypeOK, Share, Status
    <2>3. NextRelease(s) # shares[s].release
      BY DEF NextRelease, SharingInv, SharingTypeOK, ServerTypeOK, Share, Release
    <2> HIDE DEF status, reshare
    <2> QED
      BY <1>3, <1>5, <2>1, <2>2, <2>3
  <1>6. CASE StopResharing(o) \/ Finish(o) \/ SwitchOff(o)
    <2>1. picked[o] \in ShareIds
      BY <1>6 DEF StopResharing, Finish, SwitchOff, SharingInv, Consistent, Begun
    <2> QED
      BY <1>5, <1>6, <2>1 DEF StopResharing, Finish, SwitchOff
  <1>7. CASE Publish(o)
    <2>1. picked[o] \in ShareIds
      BY <1>7 DEF Publish, SharingInv, Consistent, Begun
    <2>2. shares' = [shares EXCEPT ![picked[o]] = [status |-> shares[picked[o]].status,
                                                    reshare |-> shares[picked[o]].reshare,
                                                    release |-> NextRelease(picked[o])]]
      BY <1>7, <2>1 DEF Publish, PublishRelease, SharingInv, SharingTypeOK, ServerTypeOK, Share
    <2>3. shares[picked[o]].status \in Status /\ shares[picked[o]].reshare \in {"yes", "no"}
      BY <2>1 DEF SharingInv, SharingTypeOK, ServerTypeOK, Share
    <2> QED
      BY <1>3, <1>7, <2>1, <2>2, <2>3 DEF Publish, PublishRelease
  <1> QED
    BY <1>1, <1>2, <1>4, <1>6, <1>7 DEF ShareStep

LEMMA NextIsForking == SharingInv /\ [Next]_vars => [ForkingNext]_forkingVars
  <1> SUFFICES ASSUME SharingInv, [Next]_vars
               PROVE  [ForkingNext]_forkingVars
    OBVIOUS
  <1>1. CASE OwnerActs
    <2>1. UNCHANGED serverVars \/ Change \/ OwnerStep
      BY <1>1, ShareStepIsOwners DEF OwnerActs
    <2> QED
      BY <1>1, <2>1 DEF OwnerActs, ForkingNext, forkingVars
  <1>2. CASE ProjectChanges \/ VisitorActs
    BY <1>2 DEF ProjectChanges, VisitorActs, ForkingNext
  <1>3. CASE Done \/ UNCHANGED vars
    BY <1>3 DEF Done, vars, forkingVars
  <1> QED
    BY <1>1, <1>2, <1>3 DEF Next

\* Whatever owners do with their commands is what Forking lets its owner do, so
\* visitors are safe with real owners.
THEOREM ImplementsForking == Spec => ForkingSafety
  <1>1. Init => ForkingInit
    BY DEF Init, SharingInit, ForkingInit
  <1>2. Spec => []SharingInv
    BY ImplementsSharing, SharingSafe, PTL
  <1> QED
    BY <1>1, <1>2, NextIsForking, PTL DEF Spec, ForkingSafety

(***************************************************************************)
(* A copy was confirmed by its owner and by its visitor.                   *)
(***************************************************************************)
OwnersConfirmed == \A c \in copies : c.release = before[Link].release \/ \E o \in Owners : Covers(o, c.release.build)

\* What an owner confirmed stays confirmed.
LEMMA ConfirmedStays ==
    ASSUME SharingTypeOK, [Next]_vars
    PROVE  UNCHANGED <<cmd, before>> /\ \A o \in Owners : confirmed[o] \subseteq confirmed'[o]
  <1>1. ASSUME NEW o \in Owners, ShareStep(o) \/ Kill(o)
        PROVE  UNCHANGED <<cmd, before>> /\ (UNCHANGED confirmed \/ Confirm(o))
    BY <1>1 DEF ShareStep, Kill, OnlyMoves, Start, PutDirectoryOnCloud, PickShare, PickFails, NoShareYet, Create,
                CreateRefused, StopResharing, StopRefused, Draft, DraftFails, Confirm, Decline, Publish,
                PublishRefused, ReviewAgain, PublishFreshOne, StopOnChange, FinishUnchanged, Finish, FinishRefused,
                SwitchOff, SwitchOffRefused
  <1>2. ASSUME NEW o \in Owners, Confirm(o)
        PROVE  \A p \in Owners : confirmed[p] \subseteq confirmed'[p]
    BY <1>2 DEF Confirm, SharingTypeOK
  <1>3. CASE OwnerActs
    BY <1>1, <1>2, <1>3 DEF OwnerActs
  <1>4. CASE ProjectChanges \/ VisitorActs \/ Done \/ UNCHANGED vars
    BY <1>4 DEF ProjectChanges, VisitorActs, Done, vars, ownerVars
  <1> QED
    BY <1>3, <1>4 DEF Next

\* A step makes copies only of the release the link offers.
LEMMA CopiesAreCurrent ==
    ASSUME ForkingInv, [Next]_vars, NEW c \in copies'
    PROVE  (\E d \in copies : d.release = c.release) \/ c.release = Current
  <1>1. ASSUME NEW r, NEW settled, MakeCopy(r, settled), Accepts(r)
        PROVE  (\E d \in copies : d.release = c.release) \/ c.release = Current
    BY <1>1 DEF MakeCopy, Accepts
  <1>2. ASSUME NEW v \in Visitors, ForkStep(v) \/ Cancel(v)
        PROVE  (\E d \in copies : d.release = c.release) \/ c.release = Current
    <2>1. CASE Created(v)
      BY <2>1, <1>1 DEF Created
    <2>2. CASE AnswerLost(v)
      BY <2>2, <1>1 DEF AnswerLost
    <2>3. CASE UNCHANGED copies
      BY <2>3
    <2> QED
      BY <1>2, <2>1, <2>2, <2>3 DEF ForkStep, Cancel, Preview, Agree, DeclineFork, PreviewAgain, Repeated, RequestLost,
         InProgress, WaitRetryAfter, ReleaseChanged, Refused, Installed, StopsWaiting, SelectCopy
  <1>3. CASE \E r \in late : Arrives(r)
    BY <1>3, <1>1 DEF Arrives
  <1>4. ASSUME NEW e \in copies, Settles(e) \/ Installs(e)
        PROVE  \E d \in copies : d.release = c.release
    <2>1. e \in Copy
      BY DEF ForkingInv, ForkingTypeOK
    <2> QED
      BY <1>4, <2>1 DEF Settles, Installs, Becomes, Copy
  <1>5. CASE OwnerActs \/ ProjectChanges \/ Done \/ UNCHANGED vars
    BY <1>5 DEF OwnerActs, ProjectChanges, Done, vars, visitorVars
  <1> QED
    BY <1>2, <1>3, <1>4, <1>5 DEF Next, VisitorActs, ApiStep

LEMMA OwnersConfirmedKept ==
    ASSUME SharingInv, ForkingInv, OwnersConfirmed, [Next]_vars
    PROVE  OwnersConfirmed'
  <1>1. SUFFICES ASSUME NEW c \in copies'
                 PROVE  (c.release = before[Link].release)' \/ \E o \in Owners : Covers(o, c.release.build)'
    BY DEF OwnersConfirmed
  <1>2. c.release = before[Link].release \/ \E o \in Owners : Covers(o, c.release.build)
    <2>1. Current = before[Link].release \/ \E o \in Owners : Covers(o, Current.build)
      BY ForkingAssumption DEF SharingInv, ReleasesConfirmed, Current
    <2> QED
      BY <2>1, CopiesAreCurrent DEF OwnersConfirmed
  <1>3. UNCHANGED <<cmd, before>> /\ \A o \in Owners : confirmed[o] \subseteq confirmed'[o]
    BY ConfirmedStays DEF SharingInv
  <1> QED
    BY <1>2, <1>3 DEF Covers

\* Everything anybody copies was confirmed by an owner before it was published,
\* or published before, and by the visitor.
THEOREM BothConfirmed == Spec => []CopiesConfirmed
  <1>1. Spec => []SharingInv /\ []ForkingInv
    BY ImplementsSharing, ImplementsForking, SharingSafe, ForkingSafe, PTL
  <1>2. Init => OwnersConfirmed
    BY DEF Init, VisitorInit, OwnersConfirmed
  <1>3. SharingInv /\ ForkingInv /\ OwnersConfirmed /\ [Next]_vars => OwnersConfirmed'
    BY OwnersConfirmedKept
  <1>4. ForkingInv /\ OwnersConfirmed => CopiesConfirmed
    BY DEF ForkingInv, CopiesInv, OwnersConfirmed, CopiesConfirmed
  <1> QED
    BY <1>1, <1>2, <1>3, <1>4, PTL DEF Spec

(***************************************************************************)
(* The length of a command.                                                *)
(***************************************************************************)
\* Each step of an owner's command brings it nearer to its end.
LEMMA OwnerShortens ==
    ASSUME SharingInv, NEW o \in Owners, ShareStep(o) \/ Kill(o)
    PROVE  OwnerSteps(o)' < OwnerSteps(o) /\ \A p \in Owners \ {o} : at'[p] = at[p] /\ draft'[p] = draft[p]
  <1>1. at \in [Owners -> Place] /\ draft \in [Owners -> Build] /\ result \in [Owners -> Result]
    BY DEF SharingInv, SharingTypeOK
  <1> USE <1>1 DEF Goes, Ends, OnlyMoves, serverVars, OwnerSteps, Place
  <1>2. CASE Start(o)
    BY <1>2 DEF Start
  <1>3. CASE PutDirectoryOnCloud(o)
    BY <1>3 DEF PutDirectoryOnCloud
  <1>4. CASE PickShare(o)
    BY <1>4 DEF PickShare, FirstStep
  <1>5. CASE PickFails(o) \/ NoShareYet(o)
    BY <1>5 DEF PickFails, NoShareYet
  <1>6. CASE Create(o) \/ CreateRefused(o)
    BY <1>6 DEF Create, CreateRefused
  <1>7. CASE StopResharing(o) \/ StopRefused(o)
    BY <1>7 DEF StopResharing, StopRefused
  <1>8. CASE Draft(o) \/ DraftFails(o)
    BY <1>8 DEF Draft, DraftFails
  <1>9. CASE Confirm(o) \/ Decline(o)
    BY <1>9 DEF Confirm, Decline
  <1>10. CASE Publish(o) \/ PublishRefused(o)
    BY <1>10 DEF Publish, PublishRefused, PublishRelease
  <1>11. CASE ReviewAgain(o)
    BY <1>11 DEF ReviewAgain
  <1>12. CASE PublishFreshOne(o)
    BY <1>12 DEF PublishFreshOne
  <1>13. CASE StopOnChange(o)
    BY <1>13 DEF StopOnChange
  <1>14. CASE FinishUnchanged(o) \/ Finish(o) \/ FinishRefused(o)
    BY <1>14 DEF FinishUnchanged, Finish, FinishRefused
  <1>15. CASE SwitchOff(o) \/ SwitchOffRefused(o)
    BY <1>15 DEF SwitchOff, SwitchOffRefused
  <1>16. CASE Kill(o)
    BY <1>16 DEF Kill
  <1> QED
    BY <1>2, <1>3, <1>4, <1>5, <1>6, <1>7, <1>8, <1>9, <1>10, <1>11, <1>12, <1>13, <1>14, <1>15, <1>16
       DEF ShareStep

\* Another review is only ever due to a change of the project (publish).
THEOREM SharingIsBounded == SharingSafety => SharingBounded
  <1>1. ASSUME SharingInv PROVE \A o \in Owners : OwnerSteps(o) \in 0 .. 9
    BY <1>1 DEF SharingInv, SharingTypeOK, OwnerSteps, Place
  <1>2. ASSUME SharingInv, [SharingNext]_sharingVars
        PROVE  build' = build => \A o \in Owners : OwnerSteps(o)' <= OwnerSteps(o)
    <2> SUFFICES ASSUME build' = build, NEW o \in Owners PROVE OwnerSteps(o)' <= OwnerSteps(o)
      OBVIOUS
    <2>1. ASSUME at'[o] = at[o], draft'[o] = draft[o] PROVE OwnerSteps(o)' <= OwnerSteps(o)
      BY <1>1, <1>2, <2>1 DEF OwnerSteps, SharingInv, SharingTypeOK, Place
    <2>2. ASSUME NEW p \in Owners, ShareStep(p) \/ Kill(p) PROVE OwnerSteps(o)' <= OwnerSteps(o)
      <3>1. CASE p = o
        <4>1. OwnerSteps(o)' < OwnerSteps(o)
          BY <1>2, <2>2, <3>1, OwnerShortens
        <4>2. at \in [Owners -> Place] /\ at' \in [Owners -> Place]
          BY <1>2, SharingNextSafe DEF SharingInv, SharingTypeOK
        <4> QED BY <4>1, <4>2 DEF OwnerSteps, Place
      <3>2. CASE p # o
        BY <1>2, <2>1, <2>2, <3>2, OwnerShortens
      <3> QED BY <3>1, <3>2
    <2>3. CASE UNCHANGED ownerVars
      BY <2>1, <2>3 DEF ownerVars
    <2> QED BY <1>2, <2>2, <2>3 DEF SharingNext, SharingDone, sharingVars
  <1>3. SharingInv /\ [SharingNext]_sharingVars
        => [/\ \A o \in Owners : ShareStep(o) \/ Kill(o) => OwnerSteps(o)' < OwnerSteps(o)
            /\ build' = build => \A o \in Owners : OwnerSteps(o)' <= OwnerSteps(o)]_sharingVars
    BY <1>2, OwnerShortens
  <1> QED
    BY <1>1, <1>3, SharingSafe, PTL DEF SharingSafety, SharingBounded

\* Each step of a visitor's command brings it nearer to its end.
LEMMA VisitorShortens ==
    ASSUME ForkingInv, NEW v \in Visitors, ForkStep(v) \/ Cancel(v)
    PROVE  VisitorSteps(v)' < VisitorSteps(v) /\ \A w \in Visitors \ {v} : stage'[w] = stage[w] /\ offer'[w] = offer[w]
  <1>1. stage \in [Visitors -> Stage] /\ offer \in [Visitors -> Release] /\ outcome \in [Visitors -> Outcome]
    BY DEF ForkingInv, ForkingTypeOK
  <1>2. Current' = Current
    BY VisitorsLeaveServer DEF serverVars, Current
  <1> USE <1>1, <1>2 DEF Moves, Stops, VisitorSteps, Stage
  <1>3. CASE Preview(v) \/ PreviewAgain(v)
    BY <1>3 DEF Preview, PreviewAgain
  <1>4. CASE Agree(v) \/ DeclineFork(v)
    BY <1>4 DEF Agree, DeclineFork
  <1>5. CASE Created(v) \/ Repeated(v)
    <2>1. Sending(v) /\ offer' = offer
      BY <1>5 DEF Created, Repeated
    <2>2. stage' = [stage EXCEPT ![v] = "done"] \/ stage' = [stage EXCEPT ![v] = "wait"]
            \/ stage' = [stage EXCEPT ![v] = "select"]
      BY <1>5 DEF Created, Repeated, Receives
    <2> QED BY <2>1, <2>2 DEF Sending
  <1>6. CASE RequestLost(v) \/ AnswerLost(v)
    <2>1. Sending(v) /\ offer' = offer /\ AfterLost(v)
      BY <1>6 DEF RequestLost, AnswerLost
    <2> QED BY <2>1 DEF Sending, AfterLost
  <1>7. CASE InProgress(v)
    BY <1>7 DEF InProgress, Sending
  <1>8. CASE WaitRetryAfter(v)
    BY <1>8 DEF WaitRetryAfter
  <1>9. CASE ReleaseChanged(v)
    BY <1>9 DEF ReleaseChanged, Sending
  <1>10. CASE Refused(v)
    BY <1>10 DEF Refused, Sending
  <1>11. CASE Installed(v) \/ StopsWaiting(v)
    BY <1>11 DEF Installed, StopsWaiting
  <1>12. CASE SelectCopy(v)
    BY <1>12 DEF SelectCopy, Finished
  <1>13. CASE Cancel(v)
    BY <1>13 DEF Cancel
  <1> QED
    BY <1>3, <1>4, <1>5, <1>6, <1>7, <1>8, <1>9, <1>10, <1>11, <1>12, <1>13 DEF ForkStep

\* Another preview is only ever due to a newer release: no loss, delay or repetition
\* of requests lets a command go on for ever (Service.Fork, Run).
THEOREM ForkingIsBounded == ForkingSafety => ForkingBounded
  <1>1. ASSUME ForkingInv PROVE \A v \in Visitors : VisitorSteps(v) \in 0 .. 13
    BY <1>1 DEF ForkingInv, ForkingTypeOK, VisitorSteps, Stage
  <1>2. ASSUME ForkingInv, [ForkingNext]_forkingVars
        PROVE  Current' = Current => \A v \in Visitors : VisitorSteps(v)' <= VisitorSteps(v)
    <2> SUFFICES ASSUME Current' = Current, NEW v \in Visitors PROVE VisitorSteps(v)' <= VisitorSteps(v)
      OBVIOUS
    <2>1. ASSUME stage'[v] = stage[v], offer'[v] = offer[v] PROVE VisitorSteps(v)' <= VisitorSteps(v)
      BY <1>2, <2>1 DEF VisitorSteps, ForkingInv, ForkingTypeOK, Stage
    <2>2. ASSUME NEW w \in Visitors, ForkStep(w) \/ Cancel(w) PROVE VisitorSteps(v)' <= VisitorSteps(v)
      <3>1. CASE w = v
        <4>1. VisitorSteps(v)' < VisitorSteps(v)
          BY <1>2, <2>2, <3>1, VisitorShortens
        <4>2. stage \in [Visitors -> Stage] /\ stage' \in [Visitors -> Stage]
          BY <1>2, ForkingNextSafe DEF ForkingInv, ForkingTypeOK
        <4> QED BY <4>1, <4>2 DEF VisitorSteps, Stage
      <3>2. CASE w # v
        BY <1>2, <2>1, <2>2, <3>2, VisitorShortens
      <3> QED BY <3>1, <3>2
    <2>3. CASE ApiStep
      BY <2>1, <2>3 DEF ApiStep, Arrives, Settles, Installs, Becomes
    <2>4. CASE UNCHANGED visitorVars
      BY <2>1, <2>4 DEF visitorVars
    <2> QED BY <1>2, <2>2, <2>3, <2>4 DEF ForkingNext, ForkingDone, forkingVars
  <1>3. ForkingInv /\ [ForkingNext]_forkingVars
        => [/\ \A v \in Visitors : ForkStep(v) \/ Cancel(v) => VisitorSteps(v)' < VisitorSteps(v)
            /\ Current' = Current => \A v \in Visitors : VisitorSteps(v)' <= VisitorSteps(v)]_forkingVars
    BY <1>2, VisitorShortens
  <1> QED
    BY <1>1, <1>3, ForkingSafe, PTL DEF ForkingSafety, ForkingBounded

\* Both, of owners and visitors at work together.
THEOREM CommandsAreBounded == Spec => SharingBounded /\ ForkingBounded
  BY ImplementsSharing, ImplementsForking, SharingIsBounded, ForkingIsBounded, PTL

(***************************************************************************)
(* One order for each command (ForkOnce).                                  *)
(***************************************************************************)
\* A late request is for the current release or for an older one.
LateIsOld == \A r \in late : r.release = Current \/ r.release.id < Current.id

LEMMA OfferIsOld ==
    ASSUME ForkingInv, NEW v \in Visitors, Sending(v)
    PROVE  offer[v] = Current \/ offer[v].id < Current.id
  BY DEF ForkingInv, StageInv, Sending

LEMMA CurrentMoves ==
    ASSUME ForkingInv, [ForkingNext]_forkingVars
    PROVE  /\ Current \in Release /\ Current' \in Release
           /\ Current' = Current \/ (Current'.id = Current.id + 1 /\ UNCHANGED visitorVars)
  <1>1. ForkingInv'
    BY ForkingNextSafe
  <1>2. Current \in Release /\ Current' \in Release
    BY <1>1, ForkingAssumption DEF ForkingInv, ForkingTypeOK, ServerTypeOK, Share, Current
  <1>3. CASE UNCHANGED serverVars
    BY <1>2, <1>3 DEF serverVars, Current
  <1>4. CASE OwnerStep /\ UNCHANGED visitorVars
    BY <1>2, <1>4, OwnerStepMoves DEF ForkingInv, ForkingTypeOK
  <1>5. CASE Change
    BY <1>2, <1>5 DEF Change, Current
  <1> QED
    BY <1>2, <1>3, <1>4, <1>5, VisitorsLeaveServer, ApiLeavesServer DEF ForkingNext, ForkingDone, forkingVars

LEMMA LateIsOldSafe == ForkingInv /\ LateIsOld /\ [ForkingNext]_forkingVars => LateIsOld'
  <1> SUFFICES ASSUME ForkingInv, LateIsOld, [ForkingNext]_forkingVars PROVE LateIsOld'
    OBVIOUS
  <1>1. \A r \in late : r.release.id \in Nat
    BY DEF ForkingInv, ForkingTypeOK, Request, Release
  <1>2. Current.id \in Nat
    BY CurrentMoves DEF Release
  <1>3. CASE UNCHANGED visitorVars
    BY <1>1, <1>2, <1>3, CurrentMoves DEF LateIsOld, visitorVars
  <1>4. CASE Current' = Current /\ late' \subseteq late
    BY <1>4 DEF LateIsOld
  <1>5. ASSUME NEW v \in Visitors, ForkStep(v) \/ Cancel(v) PROVE LateIsOld'
    <2>1. Current' = Current
      BY <1>5, VisitorsLeaveServer DEF serverVars, Current
    <2>2. CASE RequestLost(v)
      BY <2>1, <2>2, OfferIsOld DEF RequestLost, RequestOf, LateIsOld
    <2>3. CASE ~RequestLost(v)
      BY <1>4, <1>5, <2>1, <2>3
         DEF ForkStep, Cancel, Preview, Agree, DeclineFork, PreviewAgain, Created, Repeated, AnswerLost, InProgress,
             WaitRetryAfter, ReleaseChanged, Refused, Installed, StopsWaiting, SelectCopy
    <2> QED
      BY <2>2, <2>3
  <1>6. CASE ApiStep
    <2>1. Current' = Current
      BY <1>6, ApiLeavesServer DEF serverVars, Current
    <2> QED
      BY <1>4, <1>6, <2>1 DEF ApiStep, Arrives, Settles, Installs, Becomes
  <1> QED
    BY <1>3, <1>5, <1>6 DEF ForkingNext, ForkingDone, forkingVars

\* Whose command is at a place where nothing was created has no order on its way.
LEMMA UndecidedHasNone ==
    ASSUME ForkingInv, NEW v \in Visitors, Undecided(v)
    PROVE  CopyOf(v) = {} /\ OrderOf(v) = {} /\ ~\E r \in late : r.visitor = v /\ r.release = Current
  <1>1. \A c \in copies : c.visitor # v
    BY DEF ForkingInv, CopiesInv
  <1>2. CopyOf(v) = {}
    BY <1>1 DEF CopyOf
  <1>3. ~\E r \in late : r.visitor = v /\ r.release = Current
    <2>1. Current.id \in Nat
      BY ForkingAssumption DEF ForkingInv, ForkingTypeOK, ServerTypeOK, Share, Release, Current
    <2> QED
      BY <2>1 DEF ForkingInv, LateInv
  <1>4. stage[v] \notin {"send", "resend", "inProgress", "last"}
    BY DEF Undecided, ForkingInv, StageInv
  <1> QED
    BY <1>2, <1>3, <1>4 DEF OrderOf, OnItsWay

\* A copy leaves no order open.
LEMMA MadeLeavesNone ==
    ASSUME NEW v, CopyOf(v) # {}
    PROVE  OrderOf(v) = {}
  BY DEF OrderOf

LEMMA HasCopy ==
    ASSUME NEW c \in copies
    PROVE  [release |-> c.release, install |-> c.install] \in CopyOf(c.visitor)
  BY DEF CopyOf

LEMMA HasInstall ==
    ASSUME NEW c \in copies
    PROVE  \E d \in CopyOf(c.visitor) : d.install = c.install
  <1> DEFINE d == [release |-> c.release, install |-> c.install]
  <1>1. d \in CopyOf(c.visitor) /\ d.install = c.install
    BY HasCopy
  <1> QED
    BY <1>1

\* What is kept of the visitors a step is not about.
OthersKeep(v) ==
    \A w \in Visitors \ {v} : CopyOf(w)' = CopyOf(w) /\ OrderOf(w)' = OrderOf(w)

\* What the API may do with an order in one step, and what the command may report.
ServedOnce(v) ==
    \/ CopyOf(v)' = CopyOf(v) /\ OrderOf(v)' \in {OrderOf(v), {}}
    \/ /\ OrderOf(v)' = {}
       /\ \E r \in OrderOf(v), install \in {"none", "queued"} : CopyOf(v)' = {[release |-> r, install |-> install]}

ReportedOnce(v) ==
    \/ UNCHANGED <<outcome, active>>
    \/ /\ outcome[v] = "none"
       /\ \E how \in Outcome \ {"none"} :
            /\ Once!Truthful(how, CopyOf(v)', OrderOf(v)')
            /\ outcome' = [outcome EXCEPT ![v] = how]
            /\ UNCHANGED active \/ (how \in {"ready", "created"} /\ active' = [active EXCEPT ![v] = "copy"])

LEMMA ActsOnce ==
    ASSUME ForkingInv, NEW v \in Visitors, Current' = Current, OthersKeep(v), ServedOnce(v), ReportedOnce(v)
    PROVE  Once!Next
  <1> DEFINE O == [w \in Visitors |-> OrderOf(w)]
             M == [w \in Visitors |-> CopyOf(w)]
             A == {w \in Visitors : active[w] = "copy"}
  <1>1. O' = [O EXCEPT ![v] = OrderOf(v)'] /\ M' = [M EXCEPT ![v] = CopyOf(v)']
    BY DEF OthersKeep
  <1>2. O[v] = OrderOf(v) /\ M[v] = CopyOf(v) /\ O'[v] = OrderOf(v)' /\ M'[v] = CopyOf(v)'
    OBVIOUS
  <1>3. Once!Make(v) \/ Once!Drop(v) \/ UNCHANGED <<O, M>>
    <2>1. CASE CopyOf(v)' = CopyOf(v)
      <3>1. M' = M
        BY <1>1, <2>1
      <3>2. OrderOf(v)' = OrderOf(v) => O' = O
        BY <1>1
      <3>3. OrderOf(v)' = {} => Once!Drop(v)
        BY <1>1, <3>1 DEF Once!Drop
      <3>4. CASE OrderOf(v)' \in {OrderOf(v), {}}
        BY <3>1, <3>2, <3>3, <3>4
      <3>5. CASE OrderOf(v)' = {}
        BY <3>3, <3>5
      <3> QED
        BY <3>4, <3>5 DEF ServedOnce
    <2>2. CASE /\ OrderOf(v)' = {}
               /\ \E r \in OrderOf(v), install \in {"none", "queued"} :
                    CopyOf(v)' = {[release |-> r, install |-> install]}
      BY <1>1, <1>2, <2>2 DEF Once!Make
    <2> QED
      BY <2>1, <2>2 DEF ServedOnce
  <1>4. Once!Report(v) \/ UNCHANGED <<outcome, A>>
    <2>1. CASE UNCHANGED <<outcome, active>>
      BY <2>1
    <2>2. ASSUME outcome[v] = "none", NEW how \in Outcome \ {"none"},
                 Once!Truthful(how, CopyOf(v)', OrderOf(v)'),
                 outcome' = [outcome EXCEPT ![v] = how],
                 UNCHANGED active \/ (how \in {"ready", "created"} /\ active' = [active EXCEPT ![v] = "copy"])
          PROVE  Once!Report(v)
      <3>1. UNCHANGED A \/ (how \in {"ready", "created"} /\ A' = A \cup {v})
        BY <2>2 DEF ForkingInv, ForkingTypeOK
      <3>2. Once!Truthful(how, M'[v], O'[v])
        BY <1>2, <2>2
      <3> QED
        BY <2>2, <3>1, <3>2 DEF Once!Report, Outcome
    <2> QED
      BY <2>1, <2>2 DEF ReportedOnce
  <1> QED
    BY <1>3, <1>4 DEF Once!Next, Once!Act

\* What another visitor's step leaves alone.
LEMMA KeepOthers ==
    ASSUME NEW v \in Visitors, Current' = Current,
           \A w \in Visitors \ {v} : stage'[w] = stage[w] /\ offer'[w] = offer[w],
           \A w \in Visitors \ {v} : {c \in copies' : c.visitor = w} = {c \in copies : c.visitor = w},
           \A r : r.visitor # v => (r \in late' <=> r \in late)
    PROVE  OthersKeep(v)
  <1> SUFFICES ASSUME NEW w \in Visitors \ {v}
               PROVE  CopyOf(w)' = CopyOf(w) /\ OrderOf(w)' = OrderOf(w)
    BY DEF OthersKeep
  <1>1. CopyOf(w)' = CopyOf(w)
    BY DEF CopyOf
  <1>2. OnItsWay(w)' <=> OnItsWay(w)
    BY DEF OnItsWay
  <1> QED
    BY <1>1, <1>2 DEF OrderOf

\* A step that makes no copy and places no order.
LEMMA QuietOnce ==
    ASSUME ForkingInv, NEW v \in Visitors, Current' = Current, UNCHANGED copies,
           \A w \in Visitors \ {v} : stage'[w] = stage[w] /\ offer'[w] = offer[w],
           \A r : r.visitor # v => (r \in late' <=> r \in late),
           OnItsWay(v)' => OnItsWay(v),
           ReportedOnce(v)
    PROVE  Once!Next
  <1>1. OthersKeep(v)
    BY KeepOthers
  <1>2. CopyOf(v)' = CopyOf(v)
    BY DEF CopyOf
  <1>3. OrderOf(v)' \in {OrderOf(v), {}}
    BY <1>2 DEF OrderOf
  <1> QED
    BY <1>1, <1>2, <1>3, ActsOnce DEF ServedOnce

\* A step that makes the copy.
LEMMA MakesOnce ==
    ASSUME ForkingInv, NEW v \in Visitors, Current' = Current,
           \A w \in Visitors \ {v} : stage'[w] = stage[w] /\ offer'[w] = offer[w],
           \A r : r.visitor # v => (r \in late' <=> r \in late),
           CopyOf(v) = {}, OnItsWay(v),
           NEW c, c.visitor = v, c.release = Current, c.install \in {"none", "queued"}, copies' = copies \cup {c},
           CopyOf(v)' = {[release |-> c.release, install |-> c.install]} => ReportedOnce(v)
    PROVE  Once!Next
  <1>1. \A e \in copies : e.visitor # v
    BY DEF CopyOf
  <1>2. OthersKeep(v)
    BY KeepOthers
  <1>3. {e \in copies' : e.visitor = v} = {c}
    BY <1>1
  <1>4. CopyOf(v)' = {[release |-> c.release, install |-> c.install]}
    BY <1>3 DEF CopyOf
  <1>5. OrderOf(v)' = {}
    BY <1>4 DEF OrderOf
  <1>6. c.release \in OrderOf(v)
    BY DEF OrderOf
  <1> QED
    BY <1>2, <1>4, <1>5, <1>6, ActsOnce DEF ServedOnce

\* A request the API accepts is an order on its way, and there is no copy yet.
LEMMA AcceptedIsOrdered ==
    ASSUME ForkingInv, NEW v \in Visitors, Sending(v), Accepts(RequestOf(v))
    PROVE  CopyOf(v) = {} /\ OnItsWay(v) /\ offer[v] = Current
  <1>1. \A c \in copies : c.visitor # v
    BY DEF Accepts, RequestOf, Known, ForkingInv, CopiesInv
  <1> QED
    BY <1>1 DEF CopyOf, Accepts, RequestOf, OnItsWay, Sending

\* Every step of a visitor's command, but for the confirmation, is one of Act.
LEMMA AgreeOnce ==
    ASSUME ForkingInv, NEW v \in Visitors, Agree(v)
    PROVE  Once!Next \/ UNCHANGED Once!onceVars
  <1>1. Current' = Current /\ UNCHANGED <<copies, late, offer, outcome, active>>
    BY DEF Agree, Moves, serverVars, Current
  <1>2. Undecided(v) /\ outcome[v] = "none"
    BY DEF Agree, Undecided, ForkingInv, StageInv
  <1>3. CopyOf(v) = {} /\ OrderOf(v) = {} /\ ~\E r \in late : r.visitor = v /\ r.release = Current
    BY <1>2, UndecidedHasNone
  <1>4. /\ stage'[v] = "send"
        /\ \A w \in Visitors \ {v} : stage'[w] = stage[w] /\ offer'[w] = offer[w]
    BY <1>1 DEF Agree, Moves, ForkingInv, ForkingTypeOK
  <1>5. OthersKeep(v)
    BY <1>1, <1>4, KeepOthers
  <1>6. \A w \in Visitors : CopyOf(w)' = CopyOf(w)
    BY <1>1 DEF CopyOf
  <1>7. OrderOf(v)' = IF offer[v] = Current THEN {Current} ELSE {}
    BY <1>1, <1>3, <1>4, <1>6 DEF OrderOf, OnItsWay
  <1>8. [w \in Visitors |-> OrderOf(w)]' = [[w \in Visitors |-> OrderOf(w)] EXCEPT ![v] = OrderOf(v)']
    BY <1>5 DEF OthersKeep
  <1>9. CASE offer[v] = Current
    BY <1>1, <1>2, <1>3, <1>6, <1>7, <1>8, <1>9 DEF Once!Next, Once!Confirm
  <1>10. CASE offer[v] # Current
    <2>1. \A w \in Visitors : OrderOf(w)' = OrderOf(w)
      BY <1>3, <1>5, <1>7, <1>10 DEF OthersKeep
    <2> QED
      BY <1>1, <1>6, <2>1 DEF Once!onceVars
  <1> QED
    BY <1>9, <1>10

LEMMA VisitorOnce ==
    ASSUME ForkingInv, NEW v \in Visitors, ForkStep(v) \/ Cancel(v)
    PROVE  Once!Next \/ UNCHANGED Once!onceVars
  <1>1. /\ stage \in [Visitors -> Stage] /\ offer \in [Visitors -> Release] /\ outcome \in [Visitors -> Outcome]
        /\ active \in [Visitors -> {"old", "copy"}]
    BY DEF ForkingInv, ForkingTypeOK
  <1>2. Current' = Current
    BY VisitorsLeaveServer DEF serverVars, Current
  <1>3. stage[v] # "done" => outcome[v] = "none"
    BY DEF ForkingInv, StageInv
  <1> USE <1>1, <1>2 DEF Moves, Stops
  \* A step that leaves the requests alone and goes to no place where one is sent.
  <1>4. ASSUME UNCHANGED <<copies, late>>, stage'[v] \notin {"send", "resend", "inProgress", "last"},
               \A w \in Visitors \ {v} : stage'[w] = stage[w] /\ offer'[w] = offer[w],
               ReportedOnce(v)
        PROVE  Once!Next
    <2>1. OnItsWay(v)' => OnItsWay(v)
      BY <1>4 DEF OnItsWay
    <2> QED
      BY <1>4, <2>1, QuietOnce
  <1>5. CASE Preview(v) \/ PreviewAgain(v)
    <2>1. Undecided(v) /\ stage[v] # "done" /\ UNCHANGED <<copies, late, active>>
      BY <1>5 DEF Preview, PreviewAgain, Undecided
    <2>2. /\ stage'[v] \in {"confirm", "done"}
          /\ \A w \in Visitors \ {v} : stage'[w] = stage[w] /\ offer'[w] = offer[w]
          /\ \/ UNCHANGED outcome
             \/ stage'[v] = "done" /\ \E how \in {"failed", "changed"} : outcome' = [outcome EXCEPT ![v] = how]
      BY <1>5 DEF Preview, PreviewAgain
    <2>3. CopyOf(v)' = {} /\ OrderOf(v)' = {}
      BY <2>1, <2>2, UndecidedHasNone DEF CopyOf, OrderOf, OnItsWay
    <2>4. ReportedOnce(v)
      BY <1>3, <2>1, <2>2, <2>3 DEF ReportedOnce, Once!Truthful, Outcome
    <2> QED
      BY <1>4, <2>1, <2>2, <2>4
  <1>6. CASE DeclineFork(v)
    <2>1. Undecided(v) /\ stage[v] # "done" /\ UNCHANGED <<copies, late, active, offer>> /\ stage' = [stage EXCEPT ![v] = "done"]
      BY <1>6 DEF DeclineFork, Undecided
    <2>2. CopyOf(v)' = {} /\ OrderOf(v)' = {}
      BY <2>1, UndecidedHasNone DEF CopyOf, OrderOf, OnItsWay
    <2>3. ReportedOnce(v)
      BY <1>3, <1>6, <2>1, <2>2 DEF DeclineFork, ReportedOnce, Once!Truthful, Outcome
    <2> QED
      BY <1>4, <2>1, <2>3
  <1>7. CASE Created(v)
    <2>1. CopyOf(v) = {} /\ OnItsWay(v) /\ offer[v] = Current
      BY <1>7, AcceptedIsOrdered DEF Created
    <2>2. PICK install \in {"none", "queued"} :
            copies' = copies \cup {[visitor |-> v, key |-> key[v], release |-> offer[v], settled |-> "yes",
                                    install |-> install]}
      BY <1>7 DEF Created, MakeCopy, RequestOf
    <2> DEFINE c == [visitor |-> v, key |-> key[v], release |-> offer[v], settled |-> "yes", install |-> install]
    <2>3. \A e \in copies' \ copies : e = c
      BY <2>2
    <2>4. /\ UNCHANGED <<late, offer, active>>
          /\ \A w \in Visitors \ {v} : stage'[w] = stage[w]
          /\ \/ UNCHANGED outcome
             \/ c.install = "none" /\ outcome' = [outcome EXCEPT ![v] = "notInstalling"]
      BY <1>7, <2>3 DEF Created, Receives
    <2>5. ASSUME CopyOf(v)' = {[release |-> c.release, install |-> c.install]} PROVE ReportedOnce(v)
      <3>1. outcome[v] = "none"
        BY <1>3, <1>7 DEF Created, Sending
      <3>2. c.install = "none" => \E d \in CopyOf(v)' : d.install = "none"
        BY <2>5
      <3> QED
        BY <2>4, <3>1, <3>2 DEF ReportedOnce, Once!Truthful, Outcome
    <2> HIDE DEF c
    <2>6. c.visitor = v /\ c.release = Current /\ c.install \in {"none", "queued"} /\ copies' = copies \cup {c}
      BY <2>1, <2>2 DEF c
    <2> QED
      BY <2>1, <2>4, <2>5, <2>6, MakesOnce
  <1>8. CASE AnswerLost(v)
    <2>1. CopyOf(v) = {} /\ OnItsWay(v) /\ offer[v] = Current
      BY <1>8, AcceptedIsOrdered DEF AnswerLost
    <2>2. PICK settled \in {"yes", "no"}, install \in {"none", "queued"} :
            copies' = copies \cup {[visitor |-> v, key |-> key[v], release |-> offer[v], settled |-> settled,
                                    install |-> install]}
      BY <1>8 DEF AnswerLost, MakeCopy, RequestOf
    <2> DEFINE c == [visitor |-> v, key |-> key[v], release |-> offer[v], settled |-> settled, install |-> install]
    <2>3. /\ UNCHANGED <<late, offer, active>>
          /\ \A w \in Visitors \ {v} : stage'[w] = stage[w]
          /\ UNCHANGED outcome \/ outcome' = [outcome EXCEPT ![v] = "failed"]
      BY <1>8 DEF AnswerLost, AfterLost
    <2>4. ReportedOnce(v)
      BY <1>3, <1>8, <2>3 DEF AnswerLost, Sending, ReportedOnce, Once!Truthful, Outcome
    <2>5. c.visitor = v /\ c.release = Current /\ c.install \in {"none", "queued"} /\ copies' = copies \cup {c}
      BY <2>1, <2>2
    <2> HIDE DEF c
    <2> QED
      BY <2>1, <2>3, <2>4, <2>5, MakesOnce
  <1>9. CASE Repeated(v)
    <2>1. PICK c \in Known(RequestOf(v)) : Receives(v, c)
      BY <1>9 DEF Repeated
    <2>2. \E d \in CopyOf(v) : d.install = c.install
      BY <2>1, HasInstall DEF Known, RequestOf
    <2>3. UNCHANGED <<copies, late, offer, active>> /\ stage[v] # "done"
      BY <1>9 DEF Repeated, Sending
    <2>4. CopyOf(v)' = CopyOf(v)
      BY <2>3 DEF CopyOf
    <2>5. ReportedOnce(v)
      <3>1. UNCHANGED outcome \/ (c.install = "none" /\ outcome' = [outcome EXCEPT ![v] = "notInstalling"])
        BY <2>1 DEF Receives
      <3> QED
        BY <1>3, <2>2, <2>3, <2>4, <3>1 DEF ReportedOnce, Once!Truthful, Outcome
    <2>6. stage'[v] \in {"done", "wait", "select"} /\ \A w \in Visitors \ {v} : stage'[w] = stage[w]
      BY <2>1 DEF Receives
    <2> QED
      BY <1>4, <2>3, <2>5, <2>6
  <1>10. CASE RequestLost(v)
    <2>1. /\ UNCHANGED <<copies, offer, active>> /\ late' \subseteq late \cup {RequestOf(v)} /\ late \subseteq late'
          /\ stage[v] \in {"send", "resend", "last"}
          /\ \A w \in Visitors \ {v} : stage'[w] = stage[w]
          /\ UNCHANGED outcome \/ outcome' = [outcome EXCEPT ![v] = "failed"]
      BY <1>10 DEF RequestLost, AfterLost, Sending
    <2>2. OnItsWay(v)' => OnItsWay(v)
      BY <2>1 DEF OnItsWay, RequestOf
    <2>3. ReportedOnce(v)
      BY <1>3, <2>1 DEF ReportedOnce, Once!Truthful, Outcome
    <2>4. \A r : r.visitor # v => (r \in late' <=> r \in late)
      BY <2>1 DEF RequestOf
    <2> QED
      BY <2>1, <2>2, <2>3, <2>4, QuietOnce
  <1>11. CASE InProgress(v)
    <2>1. PICK c \in copies : c.visitor = v
      BY <1>11 DEF InProgress, Known, RequestOf
    <2>2. /\ UNCHANGED <<copies, late, offer, active>> /\ stage[v] \in {"send", "resend", "last"}
          /\ \A w \in Visitors \ {v} : stage'[w] = stage[w]
          /\ UNCHANGED outcome \/ outcome' = [outcome EXCEPT ![v] = "inProgress"]
      BY <1>11 DEF InProgress, Sending
    <2>3. CopyOf(v)' # {}
      BY <2>1, <2>2, HasCopy DEF CopyOf
    <2>4. ReportedOnce(v)
      BY <1>3, <2>2, <2>3 DEF ReportedOnce, Once!Truthful, Outcome
    <2>5. OnItsWay(v)' => OnItsWay(v)
      BY <2>2 DEF OnItsWay
    <2> QED
      BY <2>2, <2>4, <2>5, QuietOnce
  <1>12. CASE WaitRetryAfter(v)
    <2>1. /\ UNCHANGED <<copies, late, offer, outcome, active>> /\ stage[v] = "inProgress"
          /\ \A w \in Visitors \ {v} : stage'[w] = stage[w]
      BY <1>12 DEF WaitRetryAfter
    <2>2. OnItsWay(v)' => OnItsWay(v)
      BY <2>1 DEF OnItsWay
    <2> QED
      BY <2>1, <2>2, QuietOnce DEF ReportedOnce
  <1>13. CASE ReleaseChanged(v)
    <2>1. /\ UNCHANGED <<copies, late, offer, outcome, active>> /\ stage'[v] = "changed"
          /\ \A w \in Visitors \ {v} : stage'[w] = stage[w]
      BY <1>13 DEF ReleaseChanged
    <2> QED
      BY <1>4, <2>1 DEF ReportedOnce
  <1>14. CASE Refused(v) \/ Cancel(v)
    <2>1. /\ UNCHANGED <<copies, late, offer, active>> /\ stage[v] # "done" /\ stage'[v] = "done"
          /\ \A w \in Visitors \ {v} : stage'[w] = stage[w]
          /\ \E how \in {"refused", "canceled"} : outcome' = [outcome EXCEPT ![v] = how]
      BY <1>14 DEF Refused, Cancel, Sending
    <2>2. ReportedOnce(v)
      BY <1>3, <2>1 DEF ReportedOnce, Once!Truthful, Outcome
    <2> QED
      BY <1>4, <2>1, <2>2
  <1>15. CASE Installed(v) \/ StopsWaiting(v)
    <2>1. /\ UNCHANGED <<copies, late, offer, active>> /\ stage[v] = "wait" /\ stage'[v] \in {"select", "done"}
          /\ \A w \in Visitors \ {v} : stage'[w] = stage[w]
          /\ \/ UNCHANGED outcome
             \/ outcome' = [outcome EXCEPT ![v] = "continues"]
             \/ /\ outcome' = [outcome EXCEPT ![v] = "installFailed"]
                /\ \E c \in copies : c.visitor = v /\ c.install = "failed"
      BY <1>15 DEF Installed, StopsWaiting, Mine, Known, RequestOf
    <2>2. CopyOf(v) # {}
      BY <2>1, HasCopy DEF ForkingInv, StageInv
    <2>3. CopyOf(v)' = CopyOf(v)
      BY <2>1 DEF CopyOf
    <2>4. (\E c \in copies : c.visitor = v /\ c.install = "failed") => \E c \in CopyOf(v) : c.install = "failed"
      BY HasInstall
    <2>5. ReportedOnce(v)
      <3>1. CASE UNCHANGED outcome
        BY <2>1, <3>1 DEF ReportedOnce
      <3>2. CASE outcome' = [outcome EXCEPT ![v] = "continues"]
        BY <1>3, <2>1, <2>2, <2>3, <3>2 DEF ReportedOnce, Once!Truthful, Outcome
      <3>3. CASE outcome' = [outcome EXCEPT ![v] = "installFailed"] /\ \E c \in CopyOf(v) : c.install = "failed"
        BY <1>3, <2>1, <2>3, <3>3 DEF ReportedOnce, Once!Truthful, Outcome
      <3> QED
        BY <2>1, <2>4, <3>1, <3>2, <3>3
    <2> QED
      BY <1>4, <2>1, <2>5
  <1>16. CASE SelectCopy(v)
    <2>1. /\ UNCHANGED <<copies, late, offer>> /\ stage[v] = "select" /\ stage'[v] = "done"
          /\ \A w \in Visitors \ {v} : stage'[w] = stage[w]
      BY <1>16 DEF SelectCopy, Finished
    <2>2. \/ /\ outcome' = [outcome EXCEPT ![v] = IF order[v].wait = "yes" THEN "ready" ELSE "created"]
             /\ active' = [active EXCEPT ![v] = "copy"] \/ UNCHANGED active
          \/ outcome' = [outcome EXCEPT ![v] = "notSelected"] /\ UNCHANGED active
      BY <1>16 DEF SelectCopy, Finished
    <2>3. CopyOf(v) # {} /\ (order[v].wait = "yes" => \E c \in CopyOf(v) : c.install = "ready")
      BY <2>1, HasInstall DEF ForkingInv, StageInv
    <2>4. CopyOf(v)' = CopyOf(v)
      BY <2>1 DEF CopyOf
    <2>5. ReportedOnce(v)
      BY <1>3, <2>1, <2>2, <2>3, <2>4 DEF ReportedOnce, Once!Truthful, Outcome
    <2> QED
      BY <1>4, <2>1, <2>5
  <1>17. CASE Agree(v)
    BY <1>17, AgreeOnce
  <1> QED
    BY <1>5, <1>6, <1>7, <1>8, <1>9, <1>10, <1>11, <1>12, <1>13, <1>14, <1>15, <1>16, <1>17 DEF ForkStep

LEMMA ApiOnce ==
    ASSUME ForkingInv, ApiStep
    PROVE  Once!Next \/ UNCHANGED Once!onceVars
  <1>1. Current' = Current /\ UNCHANGED <<stage, offer, outcome, active>>
    BY ApiLeavesServer DEF ApiStep, Arrives, Settles, Installs, Becomes, serverVars, Current
  <1>2. ASSUME NEW r \in late, Arrives(r) PROVE Once!Next
    <2>1. r.visitor \in Visitors /\ late' = late \ {r}
      BY <1>2 DEF Arrives, ForkingInv, ForkingTypeOK, Request
    <2> DEFINE v == r.visitor
    <2>2. ReportedOnce(v)
      BY <1>1 DEF ReportedOnce
    <2>3. CASE UNCHANGED copies
      <3>1. OnItsWay(v)' => OnItsWay(v)
        BY <1>1, <2>1 DEF OnItsWay
      <3> QED
        BY <1>1, <2>1, <2>2, <2>3, <3>1, QuietOnce
    <2>4. CASE Accepts(r) /\ MakeCopy(r, "no")
      <3>1. r.release = Current /\ OnItsWay(v)
        BY <2>4 DEF Accepts, OnItsWay
      <3>2. r.key = key[v]
        <4>1. Current.id \in Nat
          BY ForkingAssumption DEF ForkingInv, ForkingTypeOK, ServerTypeOK, Share, Release, Current
        <4> QED
          BY <3>1, <4>1 DEF ForkingInv, LateInv
      <3>3. CopyOf(v) = {}
        BY <2>4, <3>2 DEF Accepts, Known, ForkingInv, CopiesInv, CopyOf
      <3>4. PICK install \in {"none", "queued"} :
              copies' = copies \cup {[visitor |-> v, key |-> r.key, release |-> r.release, settled |-> "no",
                                      install |-> install]}
        BY <2>4 DEF MakeCopy
      <3> DEFINE c == [visitor |-> v, key |-> r.key, release |-> r.release, settled |-> "no", install |-> install]
      <3>5. c.visitor = v /\ c.release = Current /\ c.install \in {"none", "queued"} /\ copies' = copies \cup {c}
        BY <3>1, <3>4
      <3> HIDE DEF c
      <3> QED
        BY <1>1, <2>1, <2>2, <3>1, <3>3, <3>5, MakesOnce
    <2> QED
      BY <1>2, <2>3, <2>4 DEF Arrives
  <1>3. ASSUME NEW c \in copies, NEW d, d.visitor = c.visitor, d.release = c.release, Becomes(c, d)
        PROVE  /\ c.visitor \in Visitors
               /\ \A w \in Visitors : OrderOf(w)' = OrderOf(w)
               /\ \A w \in Visitors \ {c.visitor} : CopyOf(w)' = CopyOf(w)
               /\ CopyOf(c.visitor) = {[release |-> c.release, install |-> c.install]}
               /\ CopyOf(c.visitor)' = {[release |-> c.release, install |-> d.install]}
    <2>1. copies' = (copies \ {c}) \cup {d} /\ UNCHANGED late
      BY <1>3 DEF Becomes
    <2>2. c.visitor \in Visitors /\ {e \in copies : e.visitor = c.visitor} = {c}
      BY DEF ForkingInv, ForkingTypeOK, Copy, OneCopy
    <2>3. {e \in copies' : e.visitor = c.visitor} = {d}
      BY <1>3, <2>1, <2>2
    <2>4. \A w \in Visitors \ {c.visitor} : {e \in copies' : e.visitor = w} = {e \in copies : e.visitor = w}
      BY <1>3, <2>1
    <2>5. /\ CopyOf(c.visitor) = {[release |-> c.release, install |-> c.install]}
          /\ CopyOf(c.visitor)' = {[release |-> c.release, install |-> d.install]}
      BY <1>3, <2>2, <2>3 DEF CopyOf
    <2>6. \A w \in Visitors \ {c.visitor} : CopyOf(w)' = CopyOf(w)
      BY <2>4 DEF CopyOf
    <2>7. \A w \in Visitors : OnItsWay(w)' <=> OnItsWay(w)
      BY <1>1, <2>1 DEF OnItsWay
    <2>8. \A w \in Visitors : OrderOf(w)' = OrderOf(w)
      BY <1>1, <2>5, <2>6, <2>7 DEF OrderOf
    <2> QED
      BY <2>2, <2>5, <2>6, <2>8
  <1>4. ASSUME NEW c \in copies, Settles(c) PROVE UNCHANGED Once!onceVars
    <2>1. c \in Copy
      BY DEF ForkingInv, ForkingTypeOK
    <2>2. \A w \in Visitors : CopyOf(w)' = CopyOf(w) /\ OrderOf(w)' = OrderOf(w)
      <3> DEFINE d == [c EXCEPT !.settled = "yes"]
      <3>1. d.visitor = c.visitor /\ d.release = c.release /\ d.install = c.install
        BY <2>1 DEF Copy
      <3>2. Becomes(c, d)
        BY <1>4 DEF Settles
      <3> HIDE DEF d
      <3> QED
        BY <1>3, <3>1, <3>2
    <2> QED
      BY <1>1, <2>2 DEF Once!onceVars
  <1>5. ASSUME NEW c \in copies, Installs(c) PROVE Once!Next
    <2>1. c \in Copy /\ c.install = "queued"
      BY <1>5 DEF ForkingInv, ForkingTypeOK, Installs
    <2>2. PICK install \in {"ready", "failed"} : Becomes(c, [c EXCEPT !.install = install])
      BY <1>5 DEF Installs
    <2> DEFINE d == [c EXCEPT !.install = install]
               v == c.visitor
    <2>3. d.visitor = c.visitor /\ d.release = c.release /\ d.install = install /\ Becomes(c, d)
      BY <2>1, <2>2 DEF Copy
    <2> HIDE DEF d
    <2>4. /\ v \in Visitors
          /\ \A w \in Visitors : OrderOf(w)' = OrderOf(w)
          /\ \A w \in Visitors \ {v} : CopyOf(w)' = CopyOf(w)
          /\ CopyOf(v) = {[release |-> c.release, install |-> c.install]}
          /\ CopyOf(v)' = {[release |-> c.release, install |-> install]}
      BY <1>3, <2>3
    <2>5. [w \in Visitors |-> CopyOf(w)]' = [[w \in Visitors |-> CopyOf(w)] EXCEPT ![v] = CopyOf(v)']
      BY <2>4
    <2>6. [w \in Visitors |-> OrderOf(w)]' = [w \in Visitors |-> OrderOf(w)]
      BY <2>4
    <2>7. Once!Install(v)
      <3> DEFINE e == [release |-> c.release, install |-> c.install]
      <3>1. e \in CopyOf(v) /\ e.install = "queued"
        BY <2>1, <2>4
      <3>2. CopyOf(v)' = {[e EXCEPT !.install = install]}
        BY <2>4
      <3> HIDE DEF e
      <3>3. [w \in Visitors |-> CopyOf(w)]' = [[w \in Visitors |-> CopyOf(w)] EXCEPT ![v] = {[e EXCEPT !.install = install]}]
        BY <2>5, <3>2
      <3>4. [w \in Visitors |-> CopyOf(w)][v] = CopyOf(v)
        BY <2>4
      <3> QED
        BY <1>1, <2>6, <3>1, <3>3, <3>4 DEF Once!Install
    <2> QED
      BY <2>4, <2>7 DEF Once!Next
  <1> QED
    BY <1>2, <1>4, <1>5 DEF ApiStep

\* A release that is published withdraws the orders for the one before.
LEMMA OwnersOnce ==
    ASSUME ForkingInv, LateIsOld, UNCHANGED visitorVars, Current \in Release, Current' \in Release,
           Current' = Current \/ Current'.id = Current.id + 1
    PROVE  Once!Next \/ UNCHANGED Once!onceVars
  <1>1. \A v \in Visitors : CopyOf(v)' = CopyOf(v)
    BY DEF CopyOf, visitorVars
  <1>2. CASE Current' = Current
    <2>1. \A v \in Visitors : OrderOf(v)' = OrderOf(v)
      BY <1>1, <1>2 DEF OrderOf, OnItsWay, visitorVars
    <2> QED
      BY <1>1, <1>2, <2>1 DEF Once!onceVars, visitorVars
  <1>3. CASE Current'.id = Current.id + 1
    <2>1. Current.id \in Nat /\ \A r \in late : r.release.id \in Nat
      BY DEF Release, ForkingInv, ForkingTypeOK, Request
    <2>2. \A r \in late : r.release # Current'
      BY <1>3, <2>1 DEF LateIsOld
    <2>3. \A v \in Visitors : stage[v] \in {"send", "resend", "inProgress", "last"} => offer[v] # Current'
      BY <1>3, <2>1 DEF ForkingInv, ForkingTypeOK, StageInv, Release
    <2>4. \A v \in Visitors : OrderOf(v)' = {}
      BY <2>2, <2>3 DEF OrderOf, OnItsWay, visitorVars
    <2>5. Current'.id > Current.id
      BY <1>3, <2>1
    <2> QED
      BY <1>1, <2>4, <2>5 DEF Once!Next, Once!Publish, visitorVars
  <1> QED
    BY <1>2, <1>3

LEMMA NextOnce ==
    ForkingInv /\ LateIsOld /\ [ForkingNext]_forkingVars => [Once!Next]_(Once!onceVars)
  <1> SUFFICES ASSUME ForkingInv, LateIsOld, [ForkingNext]_forkingVars
               PROVE  Once!Next \/ UNCHANGED Once!onceVars
    OBVIOUS
  <1>1. CASE UNCHANGED visitorVars
    BY <1>1, CurrentMoves, OwnersOnce
  <1> QED
    BY <1>1, VisitorOnce, ApiOnce DEF ForkingNext, ForkingDone, forkingVars

LEMMA InitOnce == ForkingInit => Once!Init /\ LateIsOld
  <1> SUFFICES ASSUME ForkingInit PROVE Once!Init /\ LateIsOld
    OBVIOUS
  <1>1. ForkingInv
    BY ForkingInitSafe
  <1>2. Current \in Release
    BY <1>1, ForkingAssumption DEF ForkingInv, ForkingTypeOK, ServerTypeOK, Share, Current
  <1>3. copies = {} /\ late = {} /\ \A v \in Visitors : stage[v] = "start" /\ active[v] = "old"
    BY DEF ForkingInit, VisitorInit
  <1>4. \A v \in Visitors : CopyOf(v) = {} /\ OrderOf(v) = {}
    BY <1>3 DEF CopyOf, OrderOf, OnItsWay
  <1> QED
    BY <1>2, <1>3, <1>4 DEF ForkingInit, VisitorInit, Once!Init, LateIsOld

\* volcano fork is one order: of the release confirmed last, carried out once at
\* most, for nobody who is asked again or told that nothing was created, and
\* reported as it went (Service.Fork, confirmAndCreate, finish).
THEOREM ForksOnce == ForkingSafety => ForkedOnce
  <1>1. ForkingSafety => []LateIsOld
    BY InitOnce, LateIsOldSafe, ForkingSafe, PTL DEF ForkingSafety
  <1> QED
    BY <1>1, InitOnce, NextOnce, ForkingSafe, PTL DEF ForkingSafety, ForkedOnce, Once!Spec

\* So it is beside owners who publish with volcano share.
THEOREM ForksOnceTogether == Spec => ForkedOnce
  BY ImplementsForking, ForksOnce, PTL
=============================================================================
