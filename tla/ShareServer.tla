---------------------------- MODULE ShareServer ----------------------------
(***************************************************************************)
(* A project and its shares at the API, as `volcano share` and             *)
(* `volcano fork` use them (internal/api/shares.go).  The server itself is *)
(* not in this repository: what a call does is what its callers and the    *)
(* comments on the client's methods rely on.                               *)
(***************************************************************************)
EXTENDS Naturals

CONSTANTS
    ShareIds,   \* the numbers of the shares: a greater one is newer
    Variables,  \* names of variables the project's code reads
    Functions,  \* names of functions that read VOLCANO_SERVICE_KEY
    MaxVersion, \* bound: how often the project changes
    MaxReleases \* bound: how many releases a share gets

ASSUME ShareServerAssumption ==
    /\ ShareIds \subseteq Nat \ {0}
    /\ MaxVersion \in Nat /\ MaxReleases \in Nat

VARIABLES
    build,  \* what a release built now would hold
    shares  \* the share of each number

serverVars == <<build, shares>>

\* A draft is a build: its version stands for draft_id and the code in it.
Build == [version : Nat, variables : SUBSET Variables, keyed : SUBSET Functions]

NoBuild == [version |-> 0, variables |-> {}, keyed |-> {}]

\* Release number 0 is no release.  Publishing makes the next number current.
Release == [id : Nat, build : Build]

NoRelease == [id |-> 0, build |-> NoBuild]

Status == {"none", "draft", "active", "disabled"}

Share == [status : Status, reshare : {"yes", "no"}, release : Release]

NoShare == [status |-> "none", reshare |-> "no", release |-> NoRelease]

FirstBuild == [version |-> 1, variables |-> {}, keyed |-> {}]

FirstRelease == [id |-> 1, build |-> FirstBuild]

ServerTypeOK ==
    /\ build \in Build
    /\ shares \in [ShareIds -> Share]

\* The owner has not shared the project yet, or has, and sharing is on or off;
\* the project may have changed since.  Later shares do not exist yet.
ServerInit ==
    /\ build \in [version : {1}, variables : {{}}, keyed : {{}}]
    /\ shares \in [ShareIds -> {NoShare} \cup
                     [status : {"active", "disabled"}, reshare : {"yes", "no"}, release : {FirstRelease}]]
    /\ \A s, t \in ShareIds : s < t /\ shares[t].status # "none" => shares[s].status # "none"

Exists(s) == shares[s].status # "none"

\* The link of s serves its release.
Serving(s) == shares[s].status = "active" /\ shares[s].release.id > 0

\* The project is deployed or changed, by whoever works on it.
Deployed ==
    /\ build.version < MaxVersion
    /\ \E variables \in SUBSET Variables, keyed \in SUBSET Functions :
         build' = [version |-> build.version + 1, variables |-> variables, keyed |-> keyed]

Change == Deployed /\ UNCHANGED shares

CreateShare(s, reshare) ==
    shares' = [shares EXCEPT ![s] = [status |-> "draft", reshare |-> reshare, release |-> @.release]]

\* UpdateShare changes only the fields the request sets.
UpdateShare(s, fields) ==
    shares' = [shares EXCEPT ![s] =
                 [status  |-> IF "on" \in fields THEN "active" ELSE IF "off" \in fields THEN "disabled" ELSE @.status,
                  reshare |-> IF "allow" \in fields THEN "yes" ELSE IF "stop" \in fields THEN "no" ELSE @.reshare,
                  release |-> @.release]]

\* Publishing builds the project afresh, and publishes that build when it is
\* the draft the owner reviewed.
NextRelease(s) == [id |-> shares[s].release.id + 1, build |-> build]

PublishRelease(s, draft) ==
    /\ draft = build
    /\ shares[s].release.id < MaxReleases
    /\ shares' = [shares EXCEPT ![s] = [status |-> @.status, reshare |-> @.reshare, release |-> NextRelease(s)]]

\* What any owner's command may do to a share, and so all that visitors may
\* rely on: its release only ever moves on to the next one.
OwnerStep ==
    /\ \E s \in ShareIds, status \in Status, reshare \in {"yes", "no"} :
         \E release \in {shares[s].release, NextRelease(s)} :
           /\ release.id > shares[s].release.id => release.id =< MaxReleases
           /\ shares' = [shares EXCEPT ![s] = [status |-> status, reshare |-> reshare, release |-> release]]
    /\ UNCHANGED build
=============================================================================
