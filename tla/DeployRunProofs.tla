--------------------------- MODULE DeployRunProofs ---------------------------
(***************************************************************************)
(* Proofs about DeployRun, for any resources, manifests and bounds.        *)
(*                                                                         *)
(* The server's steps only ever move a deployment along After and add      *)
(* deployments at the end (FeedGrows); the listing is a past of the feed,  *)
(* so what the wait reads there is still true of it in the sense the       *)
(* properties need.                                                        *)
(***************************************************************************)
EXTENDS DeployRun, SequenceTheorems, TLAPS

Types == feed \in [Resource -> Seq(Status)] /\ condition \in [Resource -> Condition]

\* A step that keeps every deployment and only moves statuses along After.
FeedGrows ==
    /\ feed' \in [Resource -> Seq(Status)]
    /\ \A r \in Resource :
          /\ Len(feed[r]) <= Len(feed'[r])
          /\ \A i \in DOMAIN feed[r] : feed'[r][i] \in After[feed[r][i]]

\* A sequence is a function on an interval that starts at 1.
LEMMA FeedDomain ==
    ASSUME Types, NEW r \in Resource
    PROVE  /\ feed[r] \in Seq(Status)
           /\ Len(feed[r]) \in Nat
           /\ DOMAIN feed[r] = 1..Len(feed[r])
           /\ \A i \in DOMAIN feed[r] : feed[r][i] \in Status
  BY DEF Types

\* Statuses only move along After, in one step or in several.
LEMMA AfterReflexive == \A s \in Status : s \in After[s]
  BY DEF After, Status

LEMMA AfterTransitive ==
    \A a \in Status : \A b \in After[a] : \A c \in After[b] : c \in After[a]
  BY DEF After, Status

\* One deployment changes its status and the rest of the feed stays.
LEMMA OneStatus ==
    ASSUME Types, NEW r \in Resource, NEW i \in DOMAIN feed[r], NEW s \in Status,
           s \in After[feed[r][i]],
           feed' = [feed EXCEPT ![r][i] = s]
    PROVE  /\ FeedGrows
           /\ \A q \in Resource : Len(feed'[q]) = Len(feed[q])
           /\ \A q \in Resource \ {r} : feed'[q] = feed[q]
           /\ \A j \in DOMAIN feed[r] : feed'[r][j] = IF j = i THEN s ELSE feed[r][j]
<1>1. feed[r] \in Seq(Status) /\ i \in 1..Len(feed[r])
  BY FeedDomain
<1>2. feed' = [feed EXCEPT ![r] = [feed[r] EXCEPT ![i] = s]]
  OBVIOUS
<1>3. /\ [feed[r] EXCEPT ![i] = s] \in Seq(Status)
      /\ Len([feed[r] EXCEPT ![i] = s]) = Len(feed[r])
      /\ \A j \in 1..Len(feed[r]) : [feed[r] EXCEPT ![i] = s][j] = IF j = i THEN s ELSE feed[r][j]
  BY <1>1, ExceptSeq
<1>4. /\ feed'[r] = [feed[r] EXCEPT ![i] = s]
      /\ \A q \in Resource \ {r} : feed'[q] = feed[q]
      /\ feed' \in [Resource -> Seq(Status)]
  BY <1>2, <1>3 DEF Types
<1>5. \A q \in Resource : Len(feed'[q]) = Len(feed[q])
  BY <1>3, <1>4
<1>6. \A j \in DOMAIN feed[r] : feed'[r][j] = IF j = i THEN s ELSE feed[r][j]
  BY <1>3, <1>4, FeedDomain
<1>7. FeedGrows
  <2> SUFFICES ASSUME NEW q \in Resource
               PROVE  /\ Len(feed[q]) <= Len(feed'[q])
                      /\ \A j \in DOMAIN feed[q] : feed'[q][j] \in After[feed[q][j]]
    BY <1>4 DEF FeedGrows
  <2>1. Len(feed[q]) <= Len(feed'[q])
    BY <1>5, FeedDomain
  <2>2. \A j \in DOMAIN feed[q] : feed'[q][j] \in After[feed[q][j]]
    BY <1>4, <1>6, FeedDomain, AfterReflexive
  <2> QED BY <2>1, <2>2
<1> QED BY <1>4, <1>5, <1>6, <1>7

\* A new deployment is queued at the end, and supersedes a queued one.
LEMMA EnqueueFeed ==
    ASSUME Types, FeedInv, NEW r \in Resource, Enqueue(r)
    PROVE  /\ FeedGrows
           /\ Len(feed'[r]) = Len(feed[r]) + 1
           /\ feed'[r][Len(feed[r]) + 1] = "queued"
           /\ \A q \in Resource \ {r} : feed'[q] = feed[q]
           /\ \A i \in DOMAIN feed[r] :
                 feed'[r][i] = IF feed[r][i] = "queued" THEN "superseded" ELSE feed[r][i]
<1> DEFINE s == feed[r]
           t == Supersede(s)
<1>1. s \in Seq(Status) /\ Len(s) \in Nat /\ DOMAIN s = 1..Len(s)
  BY FeedDomain
<1>2. /\ t \in Seq(Status)
      /\ Len(t) = Len(s)
      /\ \A i \in 1..Len(s) : t[i] = IF s[i] = "queued" THEN "superseded" ELSE s[i]
  <2>1. CASE s # << >> /\ s[Len(s)] = "queued"
    <3>1. Len(s) \in 1..Len(s) /\ t = [s EXCEPT ![Len(s)] = "superseded"]
      BY <1>1, <2>1, EmptySeq DEF Supersede
    <3>2. "superseded" \in Status
      BY DEF Status
    <3>3. \A i \in 1..Len(s) : s[i] = "queued" => i = Len(s)
      BY <1>1 DEF FeedInv
    <3> QED BY <1>1, <2>1, <3>1, <3>2, <3>3, ExceptSeq
  <2>2. CASE ~(s # << >> /\ s[Len(s)] = "queued")
    <3>1. t = s
      BY <2>2 DEF Supersede
    <3>2. \A i \in 1..Len(s) : s[i] # "queued"
      BY <1>1, <2>2 DEF FeedInv
    <3> QED BY <1>1, <3>1, <3>2
  <2> QED BY <2>1, <2>2
<1>3. "queued" \in Status
  BY DEF Status
<1>4. /\ Append(t, "queued") \in Seq(Status)
      /\ Len(Append(t, "queued")) = Len(s) + 1
      /\ \A i \in 1..Len(s) : Append(t, "queued")[i] = t[i]
      /\ Append(t, "queued")[Len(s) + 1] = "queued"
  BY <1>1, <1>2, <1>3, AppendProperties
<1>5. feed' = [feed EXCEPT ![r] = Append(t, "queued")]
  BY DEF Enqueue
<1>6. /\ feed'[r] = Append(t, "queued")
      /\ \A q \in Resource \ {r} : feed'[q] = feed[q]
      /\ feed' \in [Resource -> Seq(Status)]
  BY <1>4, <1>5 DEF Types
<1>7. \A i \in DOMAIN s : feed'[r][i] = IF s[i] = "queued" THEN "superseded" ELSE s[i]
  BY <1>1, <1>2, <1>4, <1>6
<1>8. FeedGrows
  <2> SUFFICES ASSUME NEW q \in Resource
               PROVE  /\ Len(feed[q]) <= Len(feed'[q])
                      /\ \A i \in DOMAIN feed[q] : feed'[q][i] \in After[feed[q][i]]
    BY <1>6 DEF FeedGrows
  <2>1. CASE q = r
    <3>1. "superseded" \in After["queued"]
      BY DEF After, Status
    <3>2. Len(feed[r]) <= Len(feed'[r])
      BY <1>1, <1>4, <1>6
    <3>3. \A i \in DOMAIN feed[r] : feed'[r][i] \in After[feed[r][i]]
      BY <1>7, <3>1, FeedDomain, AfterReflexive
    <3> QED BY <2>1, <3>2, <3>3
  <2>2. CASE q # r
    BY <1>6, <2>2, FeedDomain, AfterReflexive
  <2> QED BY <2>1, <2>2
<1> HIDE DEF t
<1> QED BY <1>4, <1>6, <1>7, <1>8

\* The order the server keeps in the feed survives each of its steps.
LEMMA EnqueueInv ==
    ASSUME Types, FeedInv, NEW r \in Resource, Enqueue(r)
    PROVE  condition' \in [Resource -> Condition] /\ FeedInv'
<1>1. condition' \in [Resource -> Condition]
  BY DEF Enqueue, Types, Condition
<1>2. FeedGrows
  BY EnqueueFeed
<1>3. ASSUME NEW q \in Resource, NEW i \in DOMAIN feed'[q]
      PROVE  /\ feed'[q][i] = "queued" => i = Len(feed'[q])
             /\ feed'[q][i] \in {"deleting", "deleted"} =>
                   i = Len(feed'[q]) /\ condition'[q] = "deleting"
             /\ feed'[q][i] = "provisioning" =>
                   \A j \in DOMAIN feed'[q] : j > i => feed'[q][j] \in {"queued", "superseded"}
  <2>1. CASE q # r
    <3>1. feed'[q] = feed[q] /\ condition'[q] = condition[q]
      BY <2>1, EnqueueFeed DEF Enqueue, Types
    <3> QED BY <3>1 DEF FeedInv
  <2>2. CASE q = r
    <3>1. DOMAIN feed'[r] = 1..(Len(feed[r]) + 1) /\ Len(feed[r]) \in Nat
      BY <1>2, EnqueueFeed, FeedDomain, LenProperties DEF FeedGrows
    <3>2. condition[r] # "deleting"
      BY DEF Enqueue, CanDeploy
    <3>3. \A j \in DOMAIN feed[r] : feed[r][j] \notin {"deleting", "deleted"}
      BY <3>2 DEF FeedInv
    <3>4. CASE i = Len(feed[r]) + 1
      BY <2>2, <3>1, <3>4, EnqueueFeed
    <3>5. CASE i \in DOMAIN feed[r]
      <4>1. feed'[r][i] = IF feed[r][i] = "queued" THEN "superseded" ELSE feed[r][i]
        BY <3>5, EnqueueFeed
      <4>2. feed'[r][i] = "provisioning" =>
               \A j \in DOMAIN feed'[r] : j > i => feed'[r][j] \in {"queued", "superseded"}
        <5> SUFFICES ASSUME feed'[r][i] = "provisioning", NEW j \in DOMAIN feed'[r], j > i
                     PROVE  feed'[r][j] \in {"queued", "superseded"}
          OBVIOUS
        <5>1. feed[r][i] = "provisioning"
          BY <4>1
        <5>2. CASE j = Len(feed[r]) + 1
          BY <5>2, EnqueueFeed
        <5>3. CASE j \in DOMAIN feed[r]
          BY <3>5, <5>1, <5>3, EnqueueFeed DEF FeedInv
        <5> QED BY <3>1, <5>2, <5>3, FeedDomain
      <4> QED BY <2>2, <3>3, <3>5, <4>1, <4>2
    <3> QED BY <2>2, <3>1, <3>4, <3>5, FeedDomain
  <2> QED BY <2>1, <2>2
<1> QED BY <1>1, <1>3 DEF FeedInv

LEMMA StatusStepInv ==
    ASSUME Types, FeedInv, NEW r \in Resource,
           StartBuild(r) \/ FinishBuild(r) \/ Delete(r) \/ FinishDelete(r)
    PROVE  FeedGrows /\ condition' \in [Resource -> Condition] /\ FeedInv'
<1> DEFINE Moves(i, s) ==
        \/ /\ feed[r][i] = "queued" /\ s = "provisioning"
           /\ \A j \in DOMAIN feed[r] : feed[r][j] # "provisioning"
        \/ feed[r][i] = "provisioning" /\ s \in {"active", "failed", "degraded"}
        \/ /\ feed[r][i] = "active" /\ s = "deleting"
           /\ i = Len(feed[r]) /\ condition'[r] = "deleting"
        \/ feed[r][i] = "deleting" /\ s = "deleted" /\ condition' = condition
<1>1. PICK i \in DOMAIN feed[r], s \in Status :
        /\ feed' = [feed EXCEPT ![r][i] = s]
        /\ Moves(i, s)
        /\ condition' \in [Resource -> Condition]
        /\ \A q \in Resource \ {r} : condition'[q] = condition[q]
  <2>1. CASE StartBuild(r)
    <3>1. PICK i \in DOMAIN feed[r] :
            /\ feed[r][i] = "queued"
            /\ \A j \in DOMAIN feed[r] : feed[r][j] # "provisioning"
            /\ feed' = [feed EXCEPT ![r][i] = "provisioning"]
      BY <2>1 DEF StartBuild
    <3>2. PICK c \in Condition : condition' = [condition EXCEPT ![r] = c]
      <4>1. "provisioning" \in Condition /\ condition[r] \in Condition
        BY DEF Types, Condition
      <4> QED BY <2>1, <4>1 DEF StartBuild
    <3>3. "provisioning" \in Status
      BY DEF Status
    <3> QED BY <3>1, <3>2, <3>3 DEF Types
  <2>2. CASE FinishBuild(r)
    <3>1. PICK i \in DOMAIN feed[r], s \in {"active", "failed", "degraded"} :
            /\ feed[r][i] = "provisioning"
            /\ feed' = [feed EXCEPT ![r][i] = s]
      BY <2>2 DEF FinishBuild
    <3>2. PICK c \in Condition : condition' = [condition EXCEPT ![r] = c]
      <4>1. "active" \in Condition /\ "failed" \in Condition
        BY DEF Condition
      <4> QED BY <2>2, <4>1 DEF FinishBuild
    <3>3. s \in Status
      BY DEF Status
    <3> QED BY <3>1, <3>2, <3>3 DEF Types
  <2>3. CASE Delete(r)
    <3>1. Len(feed[r]) \in DOMAIN feed[r]
      BY <2>3, FeedDomain, EmptySeq DEF Delete
    <3> QED BY <2>3, <3>1 DEF Delete, Types, Status, Condition
  <2>4. CASE FinishDelete(r)
    BY <2>4 DEF FinishDelete, Types, Status
  <2> QED BY <2>1, <2>2, <2>3, <2>4
<1>2. s \in After[feed[r][i]]
  BY <1>1 DEF After, Status
<1>3. /\ FeedGrows
      /\ \A q \in Resource : Len(feed'[q]) = Len(feed[q])
      /\ \A q \in Resource \ {r} : feed'[q] = feed[q]
      /\ \A j \in DOMAIN feed[r] : feed'[r][j] = IF j = i THEN s ELSE feed[r][j]
  BY <1>1, <1>2, OneStatus
<1>4. DOMAIN feed[r] = 1..Len(feed[r]) /\ DOMAIN feed'[r] = 1..Len(feed[r]) /\ Len(feed[r]) \in Nat
  BY <1>3, FeedDomain, LenProperties DEF FeedGrows
<1>5. ASSUME NEW q \in Resource, NEW k \in DOMAIN feed'[q]
      PROVE  /\ feed'[q][k] = "queued" => k = Len(feed'[q])
             /\ feed'[q][k] \in {"deleting", "deleted"} =>
                   k = Len(feed'[q]) /\ condition'[q] = "deleting"
             /\ feed'[q][k] = "provisioning" =>
                   \A j \in DOMAIN feed'[q] : j > k => feed'[q][j] \in {"queued", "superseded"}
  <2>1. CASE q # r
    BY <1>1, <1>3, <2>1 DEF FeedInv
  <2>2. CASE q = r
    <3>1. feed'[r][k] = "queued" => k = Len(feed'[r])
      BY <1>1, <1>3, <1>4, <2>2 DEF FeedInv
    <3>2. feed'[r][k] \in {"deleting", "deleted"} =>
             k = Len(feed'[r]) /\ condition'[r] = "deleting"
      <4> SUFFICES ASSUME feed'[r][k] \in {"deleting", "deleted"}
                   PROVE  k = Len(feed'[r]) /\ condition'[r] = "deleting"
        OBVIOUS
      <4>1. CASE k = i
        BY <1>1, <1>3, <1>4, <2>2, <4>1 DEF FeedInv
      <4>2. CASE k # i
        <5>1. k = Len(feed[r]) /\ condition[r] = "deleting" /\ feed[r][k] \in {"deleting", "deleted"}
          BY <1>3, <1>4, <2>2, <4>2 DEF FeedInv
        <5>2. feed[r][i] # "queued" /\ feed[r][i] # "deleting"
          BY <1>1, <4>2, <5>1 DEF FeedInv
        <5>3. feed[r][i] # "provisioning"
          BY <1>1, <1>4, <4>2, <2>2, <5>1 DEF FeedInv
        <5> QED BY <1>1, <1>3, <4>2, <5>1, <5>2, <5>3
      <4> QED BY <4>1, <4>2
    <3>3. feed'[r][k] = "provisioning" =>
             \A j \in DOMAIN feed'[r] : j > k => feed'[r][j] \in {"queued", "superseded"}
      <4> SUFFICES ASSUME feed'[r][k] = "provisioning", NEW j \in DOMAIN feed'[r], j > k
                   PROVE  feed'[r][j] \in {"queued", "superseded"}
        OBVIOUS
      <4>1. CASE k = i
        BY <1>1, <1>3, <1>4, <2>2, <4>1 DEF FeedInv
      <4>2. CASE k # i
        <5>1. feed[r][k] = "provisioning" /\ feed[r][j] \in {"queued", "superseded"}
          BY <1>3, <1>4, <2>2, <4>2 DEF FeedInv
        <5> QED BY <1>1, <1>3, <1>4, <2>2, <5>1
      <4> QED BY <4>1, <4>2
    <3> QED BY <2>2, <3>1, <3>2, <3>3
  <2> QED BY <2>1, <2>2
<1> QED BY <1>1, <1>3, <1>5 DEF FeedInv

\* What holds of the listing and of the settled entries holds of a feed that has
\* grown: a settled status never becomes another verdict's.
LEMMA GrowthKeeps ==
    ASSUME IInv, FeedGrows, UNCHANGED <<listing, readAt, hidden>>
    PROVE  /\ ListingInv'
           /\ \A r \in Resource :
                 /\ DOMAIN feed[r] \subseteq DOMAIN feed'[r]
                 /\ hidden'[r] <= Len(feed'[r])
                 /\ readAt'[r] <= Len(feed'[r])
                 /\ verdict[r] = "succeeded" => feed'[r][started[r]] \in {"active", "deleting", "deleted"}
                 /\ verdict[r] = "failed"    => feed'[r][started[r]] \in {"failed", "degraded"}
                 /\ verdict[r] = "superseded" => feed'[r][started[r]] = "superseded"
                 /\ verdict[r] \in {"succeeded", "superseded"} =>
                       \A i \in DOMAIN feed'[r] :
                          started[r] < i /\ i <= readAt[r] => feed'[r][i] = "superseded"
<1>1. Types /\ \A r \in Resource : listing[r] \in Seq(Status)
  BY DEF IInv, TypeOK, ServerTypeOK, Types
<1> SUFFICES ASSUME NEW r \in Resource
             PROVE  /\ Len(listing[r]) <= Len(feed'[r])
                    /\ \A i \in DOMAIN listing[r] :
                          /\ feed'[r][i] \in After[listing[r][i]]
                          /\ listing[r][i] \in {"deleting", "deleted"} => i = Len(listing[r])
                    /\ DOMAIN feed[r] \subseteq DOMAIN feed'[r]
                    /\ hidden[r] <= Len(feed'[r])
                    /\ readAt[r] <= Len(feed'[r])
                    /\ verdict[r] = "succeeded" => feed'[r][started[r]] \in {"active", "deleting", "deleted"}
                    /\ verdict[r] = "failed"    => feed'[r][started[r]] \in {"failed", "degraded"}
                    /\ verdict[r] = "superseded" => feed'[r][started[r]] = "superseded"
                    /\ verdict[r] \in {"succeeded", "superseded"} =>
                          \A i \in DOMAIN feed'[r] :
                             started[r] < i /\ i <= readAt[r] => feed'[r][i] = "superseded"
  BY DEF ListingInv
<1>2. /\ DOMAIN feed[r] = 1..Len(feed[r]) /\ Len(feed[r]) \in Nat
      /\ \A i \in DOMAIN feed[r] : feed[r][i] \in Status
      /\ DOMAIN feed'[r] = 1..Len(feed'[r]) /\ Len(feed'[r]) \in Nat
      /\ Len(feed[r]) <= Len(feed'[r])
      /\ \A i \in DOMAIN feed[r] : feed'[r][i] \in After[feed[r][i]]
  BY <1>1, FeedDomain, LenProperties DEF FeedGrows
<1>3. /\ DOMAIN listing[r] = 1..Len(listing[r]) /\ Len(listing[r]) \in Nat
      /\ \A i \in DOMAIN listing[r] : listing[r][i] \in Status
  BY <1>1, LenProperties
<1>4. Len(listing[r]) <= Len(feed'[r])
  BY <1>2, <1>3 DEF IInv, ListingInv
<1>5. ASSUME NEW i \in DOMAIN listing[r]
      PROVE  /\ feed'[r][i] \in After[listing[r][i]]
             /\ listing[r][i] \in {"deleting", "deleted"} => i = Len(listing[r])
  <2>1. i \in DOMAIN feed[r] /\ feed[r][i] \in After[listing[r][i]]
    BY <1>2, <1>3 DEF IInv, ListingInv
  <2> QED BY <1>2, <1>3, <2>1, AfterTransitive DEF IInv, ListingInv
<1>6. DOMAIN feed[r] \subseteq DOMAIN feed'[r]
  BY <1>2
<1>7. hidden[r] <= Len(feed'[r]) /\ readAt[r] <= Len(feed'[r])
  <2>1. hidden[r] \in Nat /\ readAt[r] \in Nat
    BY DEF IInv, TypeOK
  <2> QED BY <1>2, <2>1 DEF IInv, EntryInv
<1>8. ASSUME verdict[r] \in {"succeeded", "failed", "superseded"}
      PROVE  feed'[r][started[r]] \in After[feed[r][started[r]]]
  BY <1>2, <1>8 DEF IInv, EntryInv
<1>9. verdict[r] = "succeeded" => feed'[r][started[r]] \in {"active", "deleting", "deleted"}
  BY <1>8 DEF IInv, VerdictsHold, After
<1>10. verdict[r] = "failed" => feed'[r][started[r]] \in {"failed", "degraded"}
  BY <1>8 DEF IInv, VerdictsHold, After
<1>11. verdict[r] = "superseded" => feed'[r][started[r]] = "superseded"
  BY <1>8 DEF IInv, VerdictsHold, After
<1>12. ASSUME verdict[r] \in {"succeeded", "superseded"}, NEW i \in DOMAIN feed'[r],
              started[r] < i, i <= readAt[r]
       PROVE  feed'[r][i] = "superseded"
  <2>1. readAt[r] \in Nat /\ readAt[r] <= Len(feed[r])
    BY DEF IInv, TypeOK, EntryInv
  <2>2. i \in DOMAIN feed[r]
    BY <1>2, <1>12, <2>1
  <2>3. feed[r][i] = "superseded"
    BY <1>12, <2>2 DEF IInv, NoNewerIgnored
  <2> QED BY <1>2, <2>2, <2>3 DEF After
<1> QED BY <1>4, <1>5, <1>6, <1>7, <1>9, <1>10, <1>11, <1>12

\* The server's steps keep the invariant.
LEMMA ServerKeeps ==
    ASSUME IInv, Server
    PROVE  IInv'
<1>1. PICK r \in Resource : ServerProgress(r) \/ Interference(r)
  BY PlanAssumption DEF Server, IInv, TypeOK, IsPlan, Deploys
<1>2. Types /\ FeedInv /\ ServerTypeOK
  BY DEF IInv, TypeOK, ServerTypeOK, Types
<1>3. FeedGrows /\ condition' \in [Resource -> Condition] /\ FeedInv'
  <2>1. CASE Redeploy(r)
    BY <1>2, <2>1, EnqueueFeed, EnqueueInv DEF Redeploy
  <2>2. CASE StartBuild(r) \/ FinishBuild(r) \/ Delete(r) \/ FinishDelete(r)
    BY <1>2, <2>2, StatusStepInv
  <2>3. CASE StartResync(r) \/ FinishResync(r)
    <3>1. feed' = feed /\ condition[r] # "deleting"
      BY <2>3 DEF StartResync, FinishResync
    <3>2. PICK c \in Condition : condition' = [condition EXCEPT ![r] = c]
      <4>1. "provisioning" \in Condition /\ "active" \in Condition
        BY DEF Condition
      <4> QED BY <2>3, <4>1 DEF StartResync, FinishResync
    <3>3. FeedGrows
      <4> SUFFICES ASSUME NEW q \in Resource
                   PROVE  /\ Len(feed[q]) <= Len(feed[q])
                          /\ \A i \in DOMAIN feed[q] : feed[q][i] \in After[feed[q][i]]
        BY <1>2, <3>1 DEF FeedGrows, Types
      <4> QED BY <1>2, FeedDomain, AfterReflexive
    <3>4. FeedInv'
      BY <1>2, <3>1, <3>2 DEF FeedInv, Types
    <3> QED BY <1>2, <3>2, <3>3, <3>4 DEF Types
  <2> QED BY <1>1, <2>1, <2>2, <2>3 DEF ServerProgress, Interference
<1>4. inPlace' \subseteq Resource /\ resyncs' \in Nat
  <2>1. inPlace' = inPlace /\ (resyncs' = resyncs \/ resyncs' = resyncs + 1)
    BY <1>1 DEF ServerProgress, Interference, Redeploy, StartBuild, FinishBuild, Delete,
                FinishDelete, StartResync, FinishResync
  <2> QED BY <1>2, <2>1 DEF ServerTypeOK
<1>5. UNCHANGED runnerVars
  BY DEF Server
<1>6. ServerTypeOK'
  BY <1>3, <1>4 DEF ServerTypeOK, FeedGrows
<1>7. ListingInv' /\ VerdictsHold' /\ NoNewerIgnored'
  BY <1>3, <1>5, GrowthKeeps DEF runnerVars, waitVars, history, VerdictsHold, NoNewerIgnored
<1>8. EntryInv'
  BY <1>3, <1>5, GrowthKeeps DEF runnerVars, waitVars, history, IInv, EntryInv
<1>9. TypeOK'
  BY <1>5, <1>6, <1>8 DEF runnerVars, waitVars, configVars, history, IInv, TypeOK, EntryInv
<1> QED BY <1>3, <1>7, <1>8, <1>9 DEF IInv

\* The variables a step of the run changes without touching any entry.
QuietTypes ==
    /\ inPlace' \subseteq Resource
    /\ resyncs' \in Nat
    /\ phase' \in Phases \ {"examine"}
    /\ todo' \subseteq Resource
    /\ manifest' \in Nat
    /\ inactive' \subseteq Resource
    /\ refused' \subseteq Resource
    /\ rejected' \subseteq Resource
    /\ deferred' \subseteq Resource
    /\ told' \in {"none", "resume", "schedulers"}

LEMMA QuietKeeps ==
    ASSUME IInv, UNCHANGED plan, QuietTypes, UNCHANGED <<feed, condition, hidden, waitVars, history>>
    PROVE  IInv'
<1> USE DEF waitVars, history
<1>1. TypeOK'
  BY DEF IInv, TypeOK, ServerTypeOK, QuietTypes
<1>2. FeedInv' /\ ListingInv' /\ VerdictsHold' /\ NoNewerIgnored'
  BY DEF IInv, FeedInv, ListingInv, VerdictsHold, NoNewerIgnored
<1>3. EntryInv'
  BY DEF IInv, EntryInv, QuietTypes
<1> QED BY <1>1, <1>2, <1>3 DEF IInv

\* The functions with schedulers are resources.
LEMMA ScheduledResources ==
    ASSUME TypeOK
    PROVE  /\ Scheduled \subseteq Resource
           /\ \A m \in DOMAIN Manifests : Manifests[m] \subseteq Callable
<1>1. Manifests \in Seq(SUBSET Callable)
  BY PlanAssumption DEF TypeOK, IsPlan, Manifests
<1>2. \A m \in DOMAIN Manifests : Manifests[m] \subseteq Callable
  BY <1>1, LenProperties
<1> QED BY <1>2 DEF Scheduled, Resource

\* The steps of the run that touch no entry and read no listing.
LEMMA QuietSteps ==
    ASSUME IInv,
           \/ InStep /\ (StepDone \/ StepFails)
           \/ Config
           \/ Tick \/ WaitFails \/ WaitDone
           \/ Schedulers
    PROVE  QuietTypes /\ UNCHANGED <<feed, condition, hidden, waitVars, history>>
<1> USE DEF Phases
<1>1. TypeOK /\ ServerTypeOK
  BY DEF IInv, TypeOK
<1>2. CASE InStep /\ (StepDone \/ StepFails)
  BY <1>1, <1>2 DEF InStep, StepDone, StepFails, StopAtStep, NextPhase, QuietTypes,
     configVars, serverVars, TypeOK, ServerTypeOK
<1>3. CASE ConfigSkipped \/ ConfigStarts \/ StatusesRead \/ DryRunsDone \/ ConfigFails \/ ConfigDone
  <2>1. Scheduled \subseteq Resource
    BY <1>1, ScheduledResources
  <2> QED BY <1>1, <1>3, <2>1 DEF ConfigSkipped, ConfigStarts, StatusesRead, DryRunsDone,
          ConfigFails, ConfigDone, AfterSteps, StopAtStep, Held, QuietTypes, configVars,
          serverVars, TypeOK, ServerTypeOK
<1>4. CASE DryRun
  <2>1. /\ refused' \subseteq Resource
        /\ rejected' \subseteq Resource
    BY <1>1, <1>4 DEF DryRun, TypeOK
  <2> QED BY <1>1, <1>4, <2>1 DEF DryRun, QuietTypes, configVars, serverVars, TypeOK, ServerTypeOK
<1>5. CASE ApplyManifest
  <2>1. manifest \in DOMAIN Manifests /\ Manifests[manifest] \subseteq Resource
    BY <1>1, <1>5, ScheduledResources DEF ApplyManifest, Resource
  <2>2. inPlace' \subseteq Resource
    BY <1>1, <1>5, <2>1 DEF ApplyManifest, Applied, ServerTypeOK
  <2> QED BY <1>1, <1>5, <2>2 DEF ApplyManifest, QuietTypes, TypeOK, ServerTypeOK
<1>6. CASE \E r \in Resource : ReadStatus(r)
  BY <1>1, <1>6 DEF ReadStatus, QuietTypes, serverVars, TypeOK, ServerTypeOK
<1>7. CASE Tick \/ WaitFails \/ WaitDone
  BY <1>1, <1>7 DEF Tick, WaitFails, WaitDone, StopWaiting, QuietTypes, configVars,
     serverVars, TypeOK, ServerTypeOK
<1>8. CASE ActivePassDone \/ ActiveTick
  BY <1>1, <1>8 DEF ActivePassDone, ActiveTick, QuietTypes, configVars, serverVars, TypeOK, ServerTypeOK
<1>9. CASE ApplyDeferred \/ ApplyDeferredPartly
  <2>1. inPlace' \subseteq Resource
    BY <1>1, <1>9 DEF ApplyDeferred, ApplyDeferredPartly, Applied, TypeOK, ServerTypeOK
  <2> QED BY <1>1, <1>9, <2>1 DEF ApplyDeferred, ApplyDeferredPartly, StopWaiting, QuietTypes,
          configVars, TypeOK, ServerTypeOK
<1>10. CASE \E r \in Resource : CheckActive(r)
  BY <1>1, <1>10 DEF CheckActive, StopWaiting, QuietTypes, serverVars, TypeOK, ServerTypeOK
<1> QED BY <1>2, <1>3, <1>4, <1>5, <1>6, <1>7, <1>8, <1>9, <1>10 DEF Config, Schedulers

\* A deploy request puts one resource under watch.
LEMMA DeployKeeps ==
    ASSUME IInv, UNCHANGED plan, InStep, NEW r \in Resource, DeployChanged(r) \/ DeployUnchanged(r)
    PROVE  IInv'
<1>1. Types /\ FeedInv /\ TypeOK /\ ServerTypeOK
  BY DEF IInv, TypeOK, ServerTypeOK, Types
<1>2. phase # "examine" /\ phase' = phase
  BY DEF InStep, NextPhase, DeployChanged, DeployUnchanged
<1>3. verdict[r] = "untracked" /\ mine[r] = 0
  BY DEF DeployChanged, DeployUnchanged, Tracked, IInv, EntryInv
<1>4. CASE DeployChanged(r)
  <2> DEFINE new == Len(feed[r]) + 1
  <2>1. Enqueue(r) /\ mine' = [mine EXCEPT ![r] = new]
    BY <1>4 DEF DeployChanged
  <2>2. FeedGrows /\ Len(feed'[r]) = new /\ condition' \in [Resource -> Condition] /\ FeedInv'
    BY <1>1, <2>1, EnqueueFeed, EnqueueInv
  <2>3. new \in Nat \ {0} /\ new \in DOMAIN feed'[r]
    BY <1>1, <2>2, FeedDomain, LenProperties DEF FeedGrows
  <2>4. /\ started' = [started EXCEPT ![r] = new]
        /\ verdict' = [verdict EXCEPT ![r] = "pending"]
    BY <1>4, <2>3 DEF DeployChanged, Track, TrackedId
  <2>5. UNCHANGED <<inPlace, resyncs, phase, hidden, listing, todo, configVars, told, readAt>>
    BY <1>4 DEF DeployChanged
  <2>6. hidden[r] \in Nat /\ hidden[r] < new
    BY <1>1, <2>3, FeedDomain DEF IInv, EntryInv, TypeOK
  <2>7. ListingInv'
    BY <2>2, <2>5, GrowthKeeps
  <2>8. ASSUME NEW q \in Resource, q # r
        PROVE  started'[q] = started[q] /\ verdict'[q] = verdict[q] /\ mine'[q] = mine[q]
    BY <1>1, <2>1, <2>4, <2>8 DEF TypeOK
  <2>9. started'[r] = new /\ verdict'[r] = "pending" /\ mine'[r] = new
    BY <1>1, <2>1, <2>4 DEF TypeOK
  <2>10. VerdictsHold' /\ NoNewerIgnored'
    BY <2>2, <2>5, <2>8, <2>9, GrowthKeeps DEF VerdictsHold, NoNewerIgnored
  <2>11. EntryInv'
    <3> SUFFICES ASSUME NEW q \in Resource
                 PROVE  /\ hidden'[q] <= Len(feed'[q])
                        /\ readAt'[q] <= Len(feed'[q])
                        /\ mine'[q] # 0 => hidden'[q] < mine'[q]
                        /\ verdict'[q] = "untracked" => started'[q] = 0
                        /\ verdict'[q] \in {"untracked", "unreported", "unchanged"} => mine'[q] = 0
                        /\ verdict'[q] \in {"pending", "succeeded", "failed", "superseded"} =>
                               started'[q] \in DOMAIN feed'[q] /\ mine'[q] <= started'[q]
                        /\ phase' # "examine"
      BY DEF EntryInv
    <3>1. CASE q = r
      BY <1>2, <2>2, <2>3, <2>5, <2>6, <2>9, <3>1, GrowthKeeps
    <3>2. CASE q # r
      BY <1>2, <2>2, <2>5, <2>8, <3>2, GrowthKeeps DEF IInv, EntryInv
    <3> QED BY <3>1, <3>2
  <2>12. TypeOK'
    <3>1. ServerTypeOK'
      BY <1>1, <2>2, <2>5 DEF ServerTypeOK, FeedGrows
    <3>2. /\ started' \in [Resource -> Nat]
          /\ verdict' \in [Resource -> Verdict]
          /\ mine' \in [Resource -> Nat]
      BY <1>1, <2>1, <2>3, <2>4 DEF TypeOK, Verdict
    <3>3. \A q \in Resource : verdict'[q] = "pending" => started'[q] \in DOMAIN feed'[q]
      BY <2>11 DEF EntryInv
    <3> QED BY <1>1, <2>5, <3>1, <3>2, <3>3 DEF TypeOK, configVars
  <2> QED BY <2>2, <2>7, <2>10, <2>11, <2>12 DEF IInv
<1>5. CASE DeployUnchanged(r)
  <2>1. PICK c \in {0} \cup Served(r) :
          /\ started' = [started EXCEPT ![r] = c]
          /\ verdict' = [verdict EXCEPT ![r] = IF c = 0 THEN "unreported" ELSE "pending"]
    BY <1>5 DEF DeployUnchanged, Track, TrackedId
  <2>2. c \in Nat /\ (c # 0 => c \in DOMAIN feed[r])
    BY <1>1, FeedDomain DEF Served
  <2>3. UNCHANGED <<serverVars, phase, hidden, listing, todo, configVars, told, history>>
    BY <1>5 DEF DeployUnchanged
  <2> USE DEF serverVars, configVars, history
  <2>4. ASSUME NEW q \in Resource, q # r
        PROVE  started'[q] = started[q] /\ verdict'[q] = verdict[q]
    BY <1>1, <2>1, <2>4 DEF TypeOK
  <2>5. started'[r] = c /\ verdict'[r] = IF c = 0 THEN "unreported" ELSE "pending"
    BY <1>1, <2>1 DEF TypeOK
  <2>6. FeedInv' /\ ListingInv'
    BY <2>3 DEF IInv, FeedInv, ListingInv
  <2>7. VerdictsHold' /\ NoNewerIgnored'
    BY <2>3, <2>4, <2>5 DEF IInv, VerdictsHold, NoNewerIgnored
  <2>8. EntryInv'
    BY <1>2, <1>3, <2>2, <2>3, <2>4, <2>5 DEF IInv, EntryInv
  <2>9. TypeOK'
    <3>1. started' \in [Resource -> Nat] /\ verdict' \in [Resource -> Verdict]
      BY <1>1, <2>1, <2>2 DEF TypeOK, Verdict
    <3>2. \A q \in Resource : verdict'[q] = "pending" => started'[q] \in DOMAIN feed'[q]
      BY <2>8 DEF EntryInv
    <3> QED BY <1>1, <2>3, <3>1, <3>2 DEF TypeOK, ServerTypeOK
  <2> QED BY <2>6, <2>7, <2>8, <2>9 DEF IInv
<1> QED BY <1>4, <1>5

\* A poll reads the feed as it is.
LEMMA PollKeeps ==
    ASSUME IInv, UNCHANGED plan, Poll
    PROVE  IInv'
<1> USE DEF serverVars, configVars, history
<1>1. TypeOK'
  BY DEF Poll, IInv, TypeOK, ServerTypeOK, Pending, Phases
<1>2. FeedInv' /\ VerdictsHold' /\ NoNewerIgnored'
  BY DEF Poll, IInv, FeedInv, VerdictsHold, NoNewerIgnored
<1>3. ListingInv'
  <2> SUFFICES ASSUME NEW r \in Resource
               PROVE  /\ Len(feed[r]) <= Len(feed[r])
                      /\ \A i \in DOMAIN feed[r] :
                            /\ feed[r][i] \in After[feed[r][i]]
                            /\ feed[r][i] \in {"deleting", "deleted"} => i = Len(feed[r])
    BY DEF Poll, ListingInv
  <2>1. Types /\ FeedInv
    BY DEF IInv, TypeOK, ServerTypeOK, Types
  <2> QED BY <2>1, FeedDomain, AfterReflexive DEF FeedInv
<1>4. EntryInv'
  BY DEF Poll, IInv, EntryInv, Pending
<1> QED BY <1>1, <1>2, <1>3, <1>4 DEF IInv

LEMMA PassDoneKeeps ==
    ASSUME IInv, UNCHANGED plan, PassDone
    PROVE  IInv'
<1> USE DEF serverVars, configVars, history
<1>1. \A r \in Resource : NoListing[r] \in Seq(Status) /\ Len(NoListing[r]) = 0 /\ DOMAIN NoListing[r] = {}
  BY EmptySeq DEF NoListing
<1>2. listing' = NoListing /\ phase' # "examine"
  BY DEF PassDone
<1>3. TypeOK'
  BY <1>1, <1>2 DEF PassDone, IInv, TypeOK, ServerTypeOK, Phases, NoListing
<1>4. FeedInv' /\ VerdictsHold' /\ NoNewerIgnored'
  BY DEF PassDone, IInv, FeedInv, VerdictsHold, NoNewerIgnored
<1>5. ListingInv'
  <2>1. Types
    BY DEF IInv, TypeOK, ServerTypeOK, Types
  <2>2. \A r \in Resource : 0 <= Len(feed[r])
    BY <2>1, FeedDomain
  <2> QED BY <1>1, <1>2, <2>2 DEF ListingInv, PassDone
<1>6. EntryInv'
  BY <1>2 DEF PassDone, IInv, EntryInv
<1> QED BY <1>3, <1>4, <1>5, <1>6 DEF IInv

\* What examining one entry does to it: it moves on to a newer deployment of the
\* listing, or it settles, or it stays.
LEMMA ExamineEffect ==
    ASSUME IInv, NEW r \in Resource, Examine(r)
    PROVE  /\ verdict[r] = "pending" /\ started[r] \in DOMAIN listing[r]
           /\ DOMAIN listing[r] \subseteq DOMAIN feed[r]
           /\ Len(listing[r]) \in Nat /\ Len(listing[r]) <= Len(feed[r])
           /\ \/ /\ UNCHANGED <<verdict, readAt>>
                 /\ \E j \in DOMAIN listing[r] :
                       j > started[r] /\ started' = [started EXCEPT ![r] = j]
              \/ UNCHANGED <<verdict, readAt, started>>
              \/ /\ UNCHANGED started
                 /\ readAt' = [readAt EXCEPT ![r] = Len(listing[r])]
                 /\ \E v \in Verdict :
                       /\ verdict' = [verdict EXCEPT ![r] = v]
                       /\ \/ v = "unchanged" /\ started[r] <= hidden[r]
                          \/ /\ v = "superseded" /\ Followed(r) = "superseded"
                             /\ Newer(listing[r], started[r]) = {}
                          \/ /\ v = "succeeded" /\ Followed(r) = "active"
                             /\ Newer(listing[r], started[r]) = {}
                          \/ v = "succeeded" /\ Followed(r) = "deleted"
                          \/ v = "failed" /\ Followed(r) \in {"failed", "degraded"}
<1>1. verdict[r] = "pending" /\ started[r] \in DOMAIN listing[r]
  BY DEF IInv, EntryInv, Examine
<1>2. /\ Types
      /\ listing[r] \in Seq(Status)
      /\ started[r] \in Nat /\ hidden[r] \in Nat
  BY DEF IInv, TypeOK, ServerTypeOK, Types
<1>3. /\ DOMAIN listing[r] \subseteq DOMAIN feed[r]
      /\ Len(listing[r]) \in Nat /\ Len(listing[r]) <= Len(feed[r])
  BY <1>2, FeedDomain, LenProperties DEF IInv, ListingInv
<1>4. CASE ExamineReplaced(r)
  BY <1>1, <1>3, <1>4 DEF ExamineReplaced, IsNewest, Newer
<1>5. CASE ExamineUnfinished(r)
  BY <1>1, <1>3, <1>5 DEF ExamineUnfinished, KeepWaiting
<1>6. CASE ExamineActive(r) /\ StillProvisioning(r)
  BY <1>1, <1>3, <1>6 DEF ExamineActive, KeepWaiting
<1>7. CASE ExamineActive(r) /\ ~StillProvisioning(r)
  BY <1>1, <1>3, <1>7 DEF ExamineActive, Settle, Verdict
<1>8. CASE ExamineSuperseded(r)
  BY <1>1, <1>3, <1>8 DEF ExamineSuperseded, Settle, Verdict
<1>9. CASE ExamineDeleted(r)
  BY <1>1, <1>3, <1>9 DEF ExamineDeleted, Settle, Verdict
<1>10. CASE ExamineFailed(r)
  BY <1>1, <1>3, <1>10 DEF ExamineFailed, Settle, Verdict
<1>11. CASE ExamineUnlisted(r)
  <2>1. started[r] <= hidden[r]
    BY <1>2, <1>11 DEF ExamineUnlisted, Listed
  <2> QED BY <1>1, <1>3, <1>11, <2>1 DEF ExamineUnlisted, Settle, Verdict
<1> QED BY <1>4, <1>5, <1>6, <1>7, <1>8, <1>9, <1>10, <1>11 DEF Examine

LEMMA ExamineKeeps ==
    ASSUME IInv, UNCHANGED plan, NEW r \in Resource, Examine(r)
    PROVE  IInv'
<1> USE DEF serverVars, configVars
<1>1. /\ UNCHANGED <<serverVars, phase, hidden, listing, configVars, told, mine>>
      /\ todo' = todo \ {r}
  BY DEF Examine
<1>2. Types /\ FeedInv /\ TypeOK /\ ServerTypeOK
  BY DEF IInv, TypeOK, ServerTypeOK, Types
<1>3. /\ DOMAIN feed[r] = 1..Len(feed[r]) /\ Len(feed[r]) \in Nat
      /\ DOMAIN listing[r] = 1..Len(listing[r])
  BY <1>2, FeedDomain, LenProperties DEF TypeOK
<1>4. /\ verdict[r] = "pending" /\ started[r] \in DOMAIN listing[r]
      /\ DOMAIN listing[r] \subseteq DOMAIN feed[r]
      /\ Len(listing[r]) \in Nat /\ Len(listing[r]) <= Len(feed[r])
  BY ExamineEffect
<1>5. FeedInv' /\ ListingInv'
  BY <1>1 DEF IInv, FeedInv, ListingInv
<1>6. CASE UNCHANGED <<verdict, readAt, started>>
  <2>1. VerdictsHold' /\ NoNewerIgnored' /\ EntryInv'
    BY <1>1, <1>6 DEF IInv, VerdictsHold, NoNewerIgnored, EntryInv
  <2>2. TypeOK'
    BY <1>1, <1>2, <1>6 DEF TypeOK, ServerTypeOK
  <2> QED BY <1>5, <2>1, <2>2 DEF IInv
<1>7. CASE /\ UNCHANGED <<verdict, readAt>>
           /\ \E j \in DOMAIN listing[r] :
                 j > started[r] /\ started' = [started EXCEPT ![r] = j]
  <2>1. PICK j \in DOMAIN listing[r] : j > started[r] /\ started' = [started EXCEPT ![r] = j]
    BY <1>7
  <2>2. j \in Nat /\ j \in DOMAIN feed[r] /\ started[r] \in Nat /\ mine[r] \in Nat
    BY <1>2, <1>3, <1>4 DEF TypeOK
  <2>3. started'[r] = j /\ \A q \in Resource \ {r} : started'[q] = started[q]
    BY <1>2, <2>1 DEF TypeOK
  <2>4. VerdictsHold' /\ NoNewerIgnored'
    BY <1>1, <1>4, <1>7, <2>3 DEF IInv, VerdictsHold, NoNewerIgnored
  <2>5. mine[r] <= j
    BY <1>4, <2>1, <2>2 DEF IInv, EntryInv
  <2>6. EntryInv'
    BY <1>1, <1>4, <1>7, <2>2, <2>3, <2>5 DEF IInv, EntryInv
  <2>7. TypeOK'
    <3>1. started' \in [Resource -> Nat]
      BY <1>2, <2>1, <2>2 DEF TypeOK
    <3>2. \A q \in Resource : verdict'[q] = "pending" => started'[q] \in DOMAIN feed'[q]
      BY <2>6 DEF EntryInv
    <3> QED BY <1>1, <1>2, <1>7, <3>1, <3>2 DEF TypeOK, ServerTypeOK
  <2> QED BY <1>5, <2>4, <2>6, <2>7 DEF IInv
<1>8. CASE /\ UNCHANGED started
           /\ readAt' = [readAt EXCEPT ![r] = Len(listing[r])]
           /\ \E v \in Verdict :
                 /\ verdict' = [verdict EXCEPT ![r] = v]
                 /\ \/ v = "unchanged" /\ started[r] <= hidden[r]
                    \/ /\ v = "superseded" /\ Followed(r) = "superseded"
                       /\ Newer(listing[r], started[r]) = {}
                    \/ /\ v = "succeeded" /\ Followed(r) = "active"
                       /\ Newer(listing[r], started[r]) = {}
                    \/ v = "succeeded" /\ Followed(r) = "deleted"
                    \/ v = "failed" /\ Followed(r) \in {"failed", "degraded"}
  <2>1. PICK v \in Verdict :
          /\ verdict' = [verdict EXCEPT ![r] = v]
          /\ \/ v = "unchanged" /\ started[r] <= hidden[r]
             \/ /\ v = "superseded" /\ Followed(r) = "superseded"
                /\ Newer(listing[r], started[r]) = {}
             \/ /\ v = "succeeded" /\ Followed(r) = "active"
                /\ Newer(listing[r], started[r]) = {}
             \/ v = "succeeded" /\ Followed(r) = "deleted"
             \/ v = "failed" /\ Followed(r) \in {"failed", "degraded"}
    BY <1>8
  <2>2. /\ verdict'[r] = v /\ readAt'[r] = Len(listing[r])
        /\ \A q \in Resource \ {r} : verdict'[q] = verdict[q] /\ readAt'[q] = readAt[q]
    BY <1>2, <1>8, <2>1 DEF TypeOK
  <2>3. feed[r][started[r]] \in After[Followed(r)]
    BY <1>4 DEF Followed, IInv, ListingInv
  <2>4. VerdictsHold'
    <3>1. /\ v = "succeeded" => feed[r][started[r]] \in {"active", "deleting", "deleted"}
          /\ v = "failed"    => feed[r][started[r]] \in {"failed", "degraded"}
          /\ v = "superseded" => feed[r][started[r]] = "superseded"
      BY <2>1, <2>3 DEF After
    <3> QED BY <1>1, <1>8, <2>2, <3>1 DEF IInv, VerdictsHold
  <2>5. NoNewerIgnored'
    <3>1. ASSUME v \in {"succeeded", "superseded"}, NEW i \in DOMAIN feed[r],
                 started[r] < i, i <= Len(listing[r])
          PROVE  feed[r][i] = "superseded"
      <4>1. i \in DOMAIN listing[r]
        BY <1>3, <1>4, <3>1
      <4>2. CASE Newer(listing[r], started[r]) = {}
        <5>1. listing[r][i] = "superseded"
          BY <3>1, <4>1, <4>2 DEF Newer
        <5>2. feed[r][i] \in After[listing[r][i]]
          BY <4>1 DEF IInv, ListingInv
        <5> QED BY <5>1, <5>2 DEF After
      <4>3. CASE Followed(r) = "deleted"
        <5>1. started[r] = Len(listing[r])
          BY <1>4, <4>3 DEF Followed, IInv, ListingInv
        <5> QED BY <1>2, <1>3, <1>4, <3>1, <5>1
      <4> QED BY <2>1, <3>1, <4>2, <4>3
    <3> QED BY <1>1, <1>8, <2>2, <3>1 DEF IInv, NoNewerIgnored
  <2>6. EntryInv'
    <3>1. v = "unchanged" => mine[r] = 0
      <4>1. started[r] \in Nat /\ hidden[r] \in Nat /\ mine[r] \in Nat
        BY <1>2 DEF TypeOK
      <4>2. mine[r] <= started[r] /\ (mine[r] # 0 => hidden[r] < mine[r])
        BY <1>4 DEF IInv, EntryInv
      <4> QED BY <2>1, <4>1, <4>2
    <3>2. started[r] \in DOMAIN feed[r] /\ mine[r] <= started[r]
      BY <1>4 DEF IInv, EntryInv
    <3>3. v \in {"unchanged", "superseded", "succeeded", "failed"}
      BY <2>1
    <3> QED BY <1>1, <1>4, <1>8, <2>2, <3>1, <3>2, <3>3 DEF IInv, EntryInv
  <2>7. TypeOK'
    <3>1. readAt' \in [Resource -> Nat] /\ verdict' \in [Resource -> Verdict]
      BY <1>2, <1>4, <1>8, <2>1 DEF TypeOK
    <3>2. \A q \in Resource : verdict'[q] = "pending" => started'[q] \in DOMAIN feed'[q]
      BY <2>6 DEF EntryInv
    <3> QED BY <1>1, <1>2, <1>8, <3>1, <3>2 DEF TypeOK, ServerTypeOK
  <2> QED BY <1>5, <2>4, <2>5, <2>6, <2>7 DEF IInv
<1> QED BY <1>6, <1>7, <1>8, ExamineEffect

\* The invariant holds at first ...
LEMMA InitHolds == Init => IInv
<1> SUFFICES ASSUME Init PROVE IInv
  OBVIOUS
<1>1. ASSUME NEW r \in Resource
      PROVE  /\ feed[r] \in Seq(Status) /\ Len(feed[r]) \in Nat
             /\ DOMAIN feed[r] = 1..Len(feed[r])
             /\ Len(feed[r]) <= 1
             /\ \A i \in DOMAIN feed[r] : feed[r][i] = "active"
  <2>1. CASE feed[r] = << >>
    BY <2>1, EmptySeq DEF Status
  <2>2. CASE feed[r] = <<"active">>
    <3>1. /\ <<"active">> \in Seq(Status) /\ Len(<<"active">>) = 1
          /\ DOMAIN <<"active">> = 1..1 /\ <<"active">>[1] = "active"
      BY DEF Status
    <3> QED BY <2>2, <3>1
  <2>3. feed[r] = << >> \/ feed[r] = <<"active">>
    BY DEF Init, ServerInit
  <2> QED BY <2>1, <2>2, <2>3
<1>2. \A r \in Resource : NoListing[r] \in Seq(Status) /\ Len(NoListing[r]) = 0 /\ DOMAIN NoListing[r] = {}
  BY EmptySeq DEF NoListing
<1>3. feed \in [Resource -> Seq(Status)]
  BY <1>1 DEF Init, ServerInit
<1>4. ServerTypeOK
  BY <1>3 DEF Init, ServerInit, ServerTypeOK, Condition, Resource
<1>5. TypeOK
  BY <1>2, <1>4 DEF Init, TypeOK, Phases, Verdict, NoListing
<1>6. FeedInv /\ ListingInv
  BY <1>1, <1>2 DEF Init, FeedInv, ListingInv
<1>7. EntryInv /\ VerdictsHold /\ NoNewerIgnored
  BY <1>1 DEF Init, EntryInv, VerdictsHold, NoNewerIgnored
<1> QED BY <1>5, <1>6, <1>7 DEF IInv

\* ... and every step keeps it.
LEMMA StepKeeps == IInv /\ [Next]_vars => IInv'
<1> SUFFICES ASSUME IInv, [Next]_vars PROVE IInv'
  OBVIOUS
<1>1. CASE Step /\ UNCHANGED plan
  <2>1. CASE \E r \in Resource : DeployChanged(r) \/ DeployUnchanged(r)
    BY <1>1, <2>1, DeployKeeps DEF Step
  <2>2. CASE StepDone \/ StepFails
    BY <1>1, <2>2, QuietSteps, QuietKeeps DEF Step
  <2> QED BY <1>1, <2>1, <2>2 DEF Step
<1>2. CASE (Config \/ Schedulers) /\ UNCHANGED plan
  BY <1>2, QuietSteps, QuietKeeps
<1>3. CASE Wait /\ UNCHANGED plan
  <2>1. CASE Tick \/ WaitFails \/ WaitDone
    BY <1>3, <2>1, QuietSteps, QuietKeeps
  <2> QED BY <1>3, <2>1, PollKeeps, PassDoneKeeps, ExamineKeeps DEF Wait
<1>4. CASE Server
  BY <1>4, ServerKeeps
<1>5. CASE UNCHANGED vars
  <2> USE <1>5 DEF vars, serverVars, waitVars, configVars, history
  <2>1. TypeOK'
    BY DEF IInv, TypeOK, ServerTypeOK
  <2>2. FeedInv' /\ ListingInv' /\ EntryInv' /\ VerdictsHold' /\ NoNewerIgnored'
    BY DEF IInv, FeedInv, ListingInv, EntryInv, VerdictsHold, NoNewerIgnored
  <2> QED BY <2>1, <2>2 DEF IInv
<1> QED BY <1>1, <1>2, <1>3, <1>4, <1>5 DEF Next, Runner, Finished

LEMMA Invariance == Spec => []IInv
  BY InitHolds, StepKeeps, PTL DEF Spec

\* The variables of a deploy run keep their types, and a pending entry names a
\* deployment that exists.
THEOREM TypeCorrect == Spec => []TypeOK
<1>1. IInv => TypeOK
  BY DEF IInv
<1> QED BY <1>1, Invariance, PTL

\* What a run reports of a resource is what became of the deployment it followed.
THEOREM VerdictsCorrect == Spec => []VerdictsHold
<1>1. IInv => VerdictsHold
  BY DEF IInv
<1> QED BY <1>1, Invariance, PTL

\* No redeploy that existed when the deciding listing was read is ignored.
THEOREM NewerFollowed == Spec => []NoNewerIgnored
<1>1. IInv => NoNewerIgnored
  BY DEF IInv
<1> QED BY <1>1, Invariance, PTL

\* The outcome is that of the run's own deployment or of a later one.
THEOREM OwnDeployment == Spec => []OwnDeploymentCounts
<1>1. IInv => OwnDeploymentCounts
  BY DEF IInv, EntryInv, OwnDeploymentCounts
<1> QED BY <1>1, Invariance, PTL

\* The two ways the followed deployment of a resource changes.
LEMMA StartedStep ==
    ASSUME IInv, [Next]_vars, NEW r \in Resource, started'[r] # started[r]
    PROVE  started'[r] > started[r] /\ verdict[r] \in {"untracked", "pending"}
<1>1. TypeOK /\ Types /\ started \in [Resource -> Nat]
  BY DEF IInv, TypeOK, ServerTypeOK, Types
<1>2. CASE Step
  <2>1. CASE \E q \in Resource : DeployChanged(q) \/ DeployUnchanged(q)
    <3>1. PICK q \in Resource : DeployChanged(q) \/ DeployUnchanged(q)
      BY <2>1
    <3>2. verdict[q] = "untracked" /\ started[q] = 0
      BY <3>1 DEF DeployChanged, DeployUnchanged, Tracked, IInv, EntryInv
    <3>3. \E c \in Nat : started' = [started EXCEPT ![q] = c]
      <4>1. \A c \in Served(q) \cup {0, Len(feed[q]) + 1} : c \in Nat
        BY <1>1, FeedDomain DEF Served
      <4> QED BY <3>1, <4>1 DEF DeployChanged, DeployUnchanged, Track, TrackedId
    <3>4. PICK c \in Nat : started' = [started EXCEPT ![q] = c]
      BY <3>3
    <3>5. r = q /\ started'[r] = c
      BY <1>1, <3>4
    <3> QED BY <3>2, <3>5
  <2>2. CASE StepDone \/ StepFails
    BY <1>2, <2>2, QuietSteps DEF Step, waitVars
  <2> QED BY <1>2, <2>1, <2>2 DEF Step
<1>3. CASE Config \/ Schedulers
  BY <1>3, QuietSteps DEF waitVars
<1>4. CASE Wait
  <2>1. CASE Tick \/ WaitFails \/ WaitDone
    BY <2>1, QuietSteps DEF waitVars
  <2>2. CASE Poll \/ PassDone
    BY <2>2 DEF Poll, PassDone
  <2>3. CASE \E q \in Resource : Examine(q)
    <3>1. PICK q \in Resource : Examine(q)
      BY <2>3
    <3>2. PICK j \in DOMAIN listing[q] : j > started[q] /\ started' = [started EXCEPT ![q] = j]
      BY <3>1, ExamineEffect
    <3>3. r = q /\ started'[r] = j
      BY <1>1, <3>2
    <3>4. verdict[q] = "pending"
      BY <3>1, ExamineEffect
    <3> QED BY <3>2, <3>3, <3>4
  <2> QED BY <1>4, <2>1, <2>2, <2>3 DEF Wait
<1>5. CASE Server \/ UNCHANGED vars
  BY <1>5 DEF Server, runnerVars, vars, waitVars
<1> QED BY <1>2, <1>3, <1>4, <1>5 DEF Next, Runner, Finished

\* The wait only ever moves forward, to newer deployments, and only for an entry
\* whose outcome is still open.
THEOREM WaitMovesForward == Spec => FollowsForward
<1>1. IInv /\ [Next]_vars =>
        [\A r \in Resource :
            started'[r] # started[r] =>
                /\ started'[r] > started[r]
                /\ verdict[r] \in {"untracked", "pending"}]_vars
  BY StartedStep
<1> QED BY <1>1, Invariance, PTL DEF FollowsForward, Spec

(***************************************************************************)
(* The progress of the wait.                                               *)
(***************************************************************************)
\* Only Examine takes a resource out of a pass.
LEMMA PassStep ==
    ASSUME IInv, [Next]_vars, phase = "examine", NEW r \in todo \ todo'
    PROVE  Examine(r)
<1>1. ~Step
  BY DEF Step, InStep, NextPhase
<1>2. ~Config
  BY DEF Config, ConfigSkipped, ConfigStarts, StatusesRead, DryRun, DryRunsDone, ApplyManifest, ConfigFails,
     ConfigDone, ReadStatus
<1>3. ~Schedulers
  BY DEF Schedulers, ActivePassDone, ActiveTick, ApplyDeferred, ApplyDeferredPartly, CheckActive
<1>4. CASE Wait
  <2>1. ~Poll /\ ~PassDone /\ ~Tick /\ ~WaitFails /\ ~WaitDone
    BY DEF Poll, PassDone, Tick, WaitFails, WaitDone
  <2>2. PICK q \in Resource : Examine(q)
    BY <1>4, <2>1 DEF Wait
  <2>3. r = q
    BY <2>2 DEF Examine
  <2> QED BY <2>2, <2>3
<1>5. CASE Server \/ Finished \/ UNCHANGED vars
  BY <1>5 DEF Server, runnerVars, Finished, vars
<1> QED BY <1>1, <1>2, <1>3, <1>4, <1>5 DEF Next, Runner

\* Every status a resource at rest can show is an outcome, or tells of a newer
\* deployment.
LEMMA ExamineAtRest ==
    ASSUME IInv, NEW r \in Resource, Examine(r), listing[r] = feed[r], AtRest(r)
    PROVE  \/ verdict'[r] # "pending"
           \/ Newer(feed[r], started[r]) # {} /\ Newer(feed[r], started'[r]) = {}
<1>1. started[r] \in DOMAIN feed[r] /\ verdict \in [Resource -> Verdict] /\ started \in [Resource -> Nat]
  BY ExamineEffect DEF IInv, TypeOK
<1>2. ASSUME NEW outcome, outcome # "pending", Settle(r, outcome) PROVE verdict'[r] # "pending"
  BY <1>1, <1>2 DEF Settle
<1>3. CASE ExamineReplaced(r)
  <2>1. PICK j \in DOMAIN feed[r] : IsNewest(j, Newer(feed[r], started[r])) /\ started' = [started EXCEPT ![r] = j]
    BY <1>3 DEF ExamineReplaced
  <2>2. DOMAIN feed[r] \subseteq Nat /\ started'[r] = j
    BY <1>1, <2>1, FeedDomain DEF IInv, TypeOK, ServerTypeOK, Types
  <2>3. Newer(feed[r], j) = {}
    <3> SUFFICES ASSUME NEW k \in Newer(feed[r], j) PROVE FALSE
      OBVIOUS
    <3>1. k \in DOMAIN feed[r] /\ k > j /\ feed[r][k] # "superseded" /\ j > started[r]
      BY <2>1 DEF IsNewest, Newer
    <3>2. k > started[r]
      BY <1>1, <2>1, <2>2, <3>1
    <3>3. k <= j
      BY <2>1, <3>1, <3>2 DEF IsNewest, Newer
    <3> QED BY <2>1, <2>2, <3>1, <3>3
  <2> QED BY <2>1, <2>2, <2>3 DEF IsNewest
<1>4. ~ExamineUnfinished(r)
  BY <1>1 DEF ExamineUnfinished, Followed, AtRest
<1>5. CASE ExamineActive(r)
  BY <1>2, <1>5 DEF ExamineActive, StillProvisioning, AtRest
<1>6. CASE ExamineUnlisted(r) \/ ExamineSuperseded(r) \/ ExamineDeleted(r) \/ ExamineFailed(r)
  BY <1>2, <1>6 DEF ExamineUnlisted, ExamineSuperseded, ExamineDeleted, ExamineFailed
<1> QED BY <1>3, <1>4, <1>5, <1>6 DEF Examine

\* Once the server is done with a resource, the pass that reads it reports its outcome
\* or moves to the newest deployment, whose outcome the next pass reports (wait.go).
THEOREM WaitGetsOn == Spec => PassesSettle
<1>1. ASSUME IInv, [Next]_vars, NEW r \in Resource,
             phase = "examine", r \in todo \ todo', listing[r] = feed[r], AtRest(r)
      PROVE  \/ verdict'[r] # "pending"
             \/ Newer(feed[r], started[r]) # {} /\ Newer(feed[r], started'[r]) = {}
  BY <1>1, PassStep, ExamineAtRest
<1>2. IInv /\ [Next]_vars =>
        [\A r \in Resource :
            phase = "examine" /\ r \in todo \ todo' /\ listing[r] = feed[r] /\ AtRest(r) =>
                \/ verdict'[r] # "pending"
                \/ Newer(feed[r], started[r]) # {} /\ Newer(feed[r], started'[r]) = {}]_vars
  BY <1>1
<1> QED BY <1>2, Invariance, PTL DEF PassesSettle, Spec

(***************************************************************************)
(* The schedulers of the manifests.                                        *)
(***************************************************************************)
\* No step of the run or of the server takes a scheduler away.
LEMMA InPlaceStays ==
    ASSUME Next
    PROVE  inPlace \subseteq inPlace' /\ plan' = plan
<1> USE DEF serverVars
<1>1. CASE Step /\ UNCHANGED plan
  BY <1>1 DEF Step, DeployChanged, DeployUnchanged, StepDone, StepFails
<1>2. CASE Config /\ UNCHANGED plan
  BY <1>2 DEF Config, ConfigSkipped, ConfigStarts, StatusesRead, DryRun, DryRunsDone, ApplyManifest,
     Applied, ConfigFails, ConfigDone, ReadStatus
<1>3. CASE Wait /\ UNCHANGED plan
  BY <1>3 DEF Wait, Poll, PassDone, Tick, WaitFails, WaitDone, Examine
<1>4. CASE Schedulers /\ UNCHANGED plan
  BY <1>4 DEF Schedulers, ActivePassDone, ActiveTick, ApplyDeferred, ApplyDeferredPartly, Applied,
     CheckActive
<1>5. CASE Server
  BY <1>5 DEF Server, runnerVars, ServerProgress, Interference, StartBuild, FinishBuild,
     FinishResync, FinishDelete, Redeploy, StartResync, Delete
<1>6. CASE Finished
  BY <1>6 DEF Finished, vars
<1> QED BY <1>1, <1>2, <1>3, <1>4, <1>5, <1>6 DEF Next, Runner

\* The manifests are numbered from 1.
LEMMA ManifestNumbers ==
    ASSUME TypeOK
    PROVE  /\ manifest \in Nat /\ Len(Manifests) \in Nat
           /\ DOMAIN Manifests = 1..Len(Manifests)
           /\ Manifests = << >> => DOMAIN Manifests = {}
<1>1. Manifests \in Seq(SUBSET Callable)
  BY PlanAssumption DEF TypeOK, IsPlan, Manifests
<1>2. Len(Manifests) \in Nat /\ DOMAIN Manifests = 1..Len(Manifests)
  BY <1>1, LenProperties
<1> QED BY <1>2 DEF TypeOK

\* The config step applies one manifest after another, all but what it holds back.
LEMMA ConfigSchedulers ==
    ASSUME IInv, SchedulersInv, Config, plan' = plan, inPlace \subseteq inPlace'
    PROVE  SchedulersInv'
<1>1. TypeOK
  BY DEF IInv
<1>2. /\ manifest \in Nat /\ Len(Manifests) \in Nat
      /\ DOMAIN Manifests = 1..Len(Manifests)
      /\ Manifests = << >> => DOMAIN Manifests = {}
  BY <1>1, ManifestNumbers
<1>3. /\ Manifests' = Manifests /\ Scheduled' = Scheduled /\ NoWait' = NoWait
  BY DEF Manifests, Scheduled, NoWait
<1>4. manifest >= 1
  BY DEF SchedulersInv
<1> USE DEF configVars, NextPhase
<1>5. CASE ConfigSkipped
  <2>1. Scheduled = {} /\ manifest' = manifest /\ phase = "config"
    BY <1>2, <1>5 DEF ConfigSkipped, Scheduled
  <2>2. phase' \in {"started", "poll"}
    BY <1>5 DEF ConfigSkipped, AfterSteps
  <2> QED BY <1>3, <1>4, <2>1, <2>2 DEF SchedulersInv
<1>6. CASE ConfigStarts
  BY <1>3, <1>6 DEF ConfigStarts, SchedulersInv
<1>7. CASE StatusesRead \/ \E r \in Resource : ReadStatus(r)
  <2>1. manifest = 1 /\ manifest' = 1 /\ phase' \in {"statuses", "apply", "dryRun"}
    BY <1>7 DEF StatusesRead, ReadStatus, SchedulersInv
  <2>2. \A m \in DOMAIN Manifests : ~(m < 1)
    BY <1>2
  <2> QED BY <1>3, <2>1, <2>2 DEF SchedulersInv
<1>8. CASE DryRun
  <2>1. manifest' >= 1 /\ phase' = "dryRun"
    BY <1>2, <1>8 DEF DryRun
  <2> QED BY <2>1 DEF SchedulersInv
<1>9. CASE DryRunsDone
  <2>1. manifest' = 1 /\ phase' = "apply"
    BY <1>9 DEF DryRunsDone
  <2>2. \A m \in DOMAIN Manifests : ~(m < 1)
    BY <1>2
  <2> QED BY <1>3, <2>1, <2>2 DEF SchedulersInv
<1>10. CASE ApplyManifest
  <2>1. /\ phase = "apply" /\ phase' = "apply" /\ manifest' = manifest + 1
        /\ Manifests[manifest] \ Held \subseteq inPlace' /\ Held' = Held
    BY <1>10 DEF ApplyManifest, Applied, Held
  <2>2. \A m \in DOMAIN Manifests : m < manifest => Manifests[m] \ Held \subseteq inPlace
    BY <2>1 DEF SchedulersInv
  <2>3. ASSUME NEW m \in DOMAIN Manifests, m < manifest' PROVE Manifests[m] \ Held \subseteq inPlace'
    <3>1. m = manifest \/ m < manifest
      BY <1>2, <2>1, <2>3
    <3> QED BY <2>1, <2>2, <3>1
  <2>4. manifest' >= 1
    BY <1>2, <2>1
  <2> QED BY <1>3, <2>1, <2>3, <2>4 DEF SchedulersInv
<1>11. CASE ConfigFails
  BY <1>3, <1>11 DEF ConfigFails, StopAtStep, SchedulersInv
<1>12. CASE ConfigDone
  <2>1. phase = "apply" /\ manifest \notin DOMAIN Manifests /\ deferred' = Held /\ manifest' = manifest
    BY <1>12 DEF ConfigDone
  <2>2. \A m \in DOMAIN Manifests : m < manifest
    BY <1>2, <1>4, <2>1
  <2>3. Scheduled \ Held \subseteq inPlace
    BY <2>1, <2>2 DEF SchedulersInv, Scheduled
  <2>4. \/ phase' = "poll"
        \/ phase' = "started" /\ (Held = {} \/ told' # "none")
    BY <1>12 DEF ConfigDone, AfterSteps
  <2> QED BY <1>3, <1>4, <2>1, <2>3, <2>4 DEF SchedulersInv
<1> QED BY <1>5, <1>6, <1>7, <1>8, <1>9, <1>10, <1>11, <1>12 DEF Config

\* A wait that ends early, or any pass of it, says what is still left out.
LEMMA WaitSchedulers ==
    ASSUME IInv, SchedulersInv, Wait \/ Schedulers, plan' = plan, inPlace \subseteq inPlace'
    PROVE  SchedulersInv'
<1>1. Scheduled' = Scheduled
  BY DEF Manifests, Scheduled
<1>2. manifest >= 1
  BY DEF SchedulersInv
<1> DEFINE Waiting == {"poll", "examine", "sleep", "activate", "activateSleep", "schedulers"}
<1>3. phase \in Waiting => Scheduled \ deferred \subseteq inPlace
  BY DEF SchedulersInv
<1>4. manifest' = manifest /\ deferred' = deferred /\ phase \in Waiting
  BY DEF Wait, Poll, PassDone, Tick, WaitFails, WaitDone, Examine, Schedulers, ActivePassDone,
     ActiveTick, ApplyDeferred, ApplyDeferredPartly, CheckActive, configVars
<1>5. \/ phase' \in Waiting
      \/ phase' = "error" /\ (deferred = {} \/ told' # "none")
      \/ phase' = "deployed" /\ (deferred = {} \/ deferred \subseteq inPlace')
  <2>1. CASE Poll \/ PassDone \/ Tick \/ \E r \in Resource : Examine(r)
    BY <1>4, <2>1 DEF Poll, PassDone, Tick, Examine
  <2>2. CASE WaitFails \/ WaitDone
    BY <2>2 DEF WaitFails, WaitDone, StopWaiting
  <2>3. CASE ActivePassDone \/ ActiveTick \/ ApplyDeferred \/ ApplyDeferredPartly
    BY <2>3 DEF ActivePassDone, ActiveTick, ApplyDeferred, Applied, ApplyDeferredPartly, StopWaiting
  <2>4. CASE \E r \in Resource : CheckActive(r)
    BY <1>4, <2>4 DEF CheckActive, StopWaiting
  <2> QED BY <2>1, <2>2, <2>3, <2>4 DEF Wait, Schedulers
<1>6. Scheduled \ deferred \subseteq inPlace'
  BY <1>3, <1>4
<1>7. manifest' >= 1
  BY <1>2, <1>4
<1> HIDE DEF Waiting
<1>8. CASE phase' \in Waiting
  BY <1>1, <1>4, <1>6, <1>7, <1>8 DEF SchedulersInv, NextPhase, Waiting
<1>9. CASE phase' = "error" /\ (deferred = {} \/ told' # "none")
  BY <1>1, <1>6, <1>7, <1>9 DEF SchedulersInv, NextPhase
<1>10. CASE phase' = "deployed" /\ (deferred = {} \/ deferred \subseteq inPlace')
  BY <1>1, <1>6, <1>7, <1>10 DEF SchedulersInv, NextPhase
<1> QED BY <1>5, <1>8, <1>9, <1>10

LEMMA SchedulersKeep == IInv /\ SchedulersInv /\ [Next]_vars => SchedulersInv'
<1> SUFFICES ASSUME IInv, SchedulersInv, [Next]_vars PROVE SchedulersInv'
  OBVIOUS
<1> USE DEF configVars
<1>1. ASSUME UNCHANGED <<plan, phase, manifest, refused, rejected, deferred, told>>,
             inPlace \subseteq inPlace'
      PROVE  SchedulersInv'
  BY <1>1 DEF SchedulersInv, Scheduled, Manifests, Held
<1>2. CASE Step /\ UNCHANGED plan
  <2>1. inPlace \subseteq inPlace'
    BY <1>2, InPlaceStays DEF Next, Runner
  <2>2. CASE \E r \in Resource : DeployChanged(r) \/ DeployUnchanged(r)
    BY <1>1, <1>2, <2>1, <2>2 DEF DeployChanged, DeployUnchanged
  <2>3. CASE StepDone
    <3>1. /\ phase' \in DOMAIN NextPhase \cup {"config"}
          /\ manifest' = manifest /\ manifest = 1
      BY <1>2, <2>3 DEF StepDone, Step, InStep, NextPhase, SchedulersInv
    <3> QED BY <3>1 DEF SchedulersInv, NextPhase
  <2>4. CASE StepFails
    <3>1. phase' = "error" /\ told' = "resume" /\ manifest' = manifest /\ manifest >= 1
      BY <2>4 DEF StepFails, StopAtStep, SchedulersInv
    <3> QED BY <3>1 DEF SchedulersInv, NextPhase
  <2> QED BY <1>2, <2>2, <2>3, <2>4 DEF Step
<1>3. CASE Config /\ UNCHANGED plan
  BY <1>3, InPlaceStays, ConfigSchedulers DEF Next, Runner
<1>4. CASE (Wait \/ Schedulers) /\ UNCHANGED plan
  BY <1>4, InPlaceStays, WaitSchedulers DEF Next, Runner
<1>5. CASE Server
  BY <1>1, <1>5, InPlaceStays DEF Next, Server, runnerVars
<1>6. CASE UNCHANGED vars
  BY <1>1, <1>6 DEF vars, serverVars
<1> QED BY <1>2, <1>3, <1>4, <1>5, <1>6 DEF Next, Runner, Finished

\* However a run ends, a scheduler of the manifests that is not in place is one
\* the user is told about (resumeHint, and the hint of a wait that fails).
THEOREM SchedulersTold == Spec => []SchedulersAccountedFor
<1>1. Init => SchedulersInv
  BY DEF Init, SchedulersInv, NextPhase
<1>2. SchedulersInv => SchedulersAccountedFor
  BY DEF SchedulersInv, SchedulersAccountedFor, Ended
<1> QED BY <1>1, <1>2, SchedulersKeep, Invariance, PTL DEF Spec
=============================================================================
