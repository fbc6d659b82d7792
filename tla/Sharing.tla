------------------------------ MODULE Sharing ------------------------------
(***************************************************************************)
(* The owner's side of sharing: `volcano share` and `volcano share off`    *)
(* (internal/cmd/share over internal/sharing), run by several people or    *)
(* pipelines on one project that others deploy to meanwhile.               *)
(*                                                                         *)
(* Simplifications.  Deploying the directory is one step here (DeployRun   *)
(* models it), as are the two questions of confirmShare, both of which     *)
(* must be answered yes.  The description changes as the consent to share  *)
(* copies again does, in the same request, and is left out.                *)
(***************************************************************************)
EXTENDS ShareServer

CONSTANTS
    Owners,   \* the commands
    Commands  \* what they may be, a subset of Command

Command == [kind : {"share", "off"}, mode : {"ask", "yes"}, deploys : {"yes", "no"}, link : {"named", "newest"},
            reshare : {"keep", "allow", "stop"}]

ASSUME SharingAssumption == Commands \subseteq Command

VARIABLES
    cmd,        \* what each command is
    at,         \* where it is
    picked,     \* the share it works on, 0 before it has one
    seen,       \* that share's status when it was read
    created,    \* the commands that created their share
    draft,      \* the draft to publish
    confirmed,  \* history: the drafts the owner, or --yes, confirmed
    published,  \* the number of the release it published, 0 for none
    result,     \* how it ended
    before      \* history: the shares when the commands began

ownerVars == <<cmd, at, picked, seen, created, draft, confirmed, published, result, before>>
sharingVars == <<serverVars, ownerVars>>

Place == {"start", "deploy", "pick", "create", "stop", "draft", "review", "publish", "publishFresh", "finish",
          "off", "done"}

Result == {"none", "shared", "off", "declined", "failed", "changed", "stillReshares", "stillOff", "notUpdated",
           "killed"}

SharingTypeOK ==
    /\ ServerTypeOK
    /\ cmd \in [Owners -> Commands]
    /\ at \in [Owners -> Place]
    /\ picked \in [Owners -> ShareIds \cup {0}]
    /\ seen \in [Owners -> {"none", "draft", "active", "disabled"}]
    /\ created \in SUBSET Owners
    /\ draft \in [Owners -> Build]
    /\ confirmed \in [Owners -> SUBSET Build]
    /\ published \in [Owners -> Nat]
    /\ result \in [Owners -> Result]
    /\ before \in [ShareIds -> Share]

SharingInit ==
    /\ ServerInit
    /\ cmd \in [Owners -> Commands]
    /\ at = [o \in Owners |-> "start"]
    /\ picked = [o \in Owners |-> 0]
    /\ seen = [o \in Owners |-> "none"]
    /\ created = {}
    /\ draft = [o \in Owners |-> NoBuild]
    /\ confirmed = [o \in Owners |-> {}]
    /\ published = [o \in Owners |-> 0]
    /\ result = [o \in Owners |-> "none"]
    /\ before = shares

Goes(o, place) == at' = [at EXCEPT ![o] = place] /\ UNCHANGED result

Ends(o, how) == at' = [at EXCEPT ![o] = "done"] /\ result' = [result EXCEPT ![o] = how]

\* A step that leaves alone everything but where the command is.
OnlyMoves == UNCHANGED <<serverVars, cmd, picked, seen, created, draft, confirmed, published, before>>

FirstStepLate(o) == IF o \in Owners THEN "draft" ELSE "stop"

\* The options ask to take back the consent for a share that existed.
FirstStep(o) == IF cmd[o].reshare = "stop" THEN "stop" ELSE "draft"

(***************************************************************************)
(* Before the share: whether sharing is available, and the deploy.         *)
(***************************************************************************)
Start(o) ==
    /\ at[o] = "start"
    /\ \/ Ends(o, "failed")
       \/ Goes(o, IF cmd[o].kind = "share" /\ cmd[o].deploys = "yes" THEN "deploy" ELSE "pick")
    /\ OnlyMoves

\* The owner declines, or the directory is deployed; whatever a failed deploy
\* changed stays.
PutDirectoryOnCloud(o) ==
    /\ at[o] = "deploy"
    /\ \/ /\ cmd[o].mode = "ask"
          /\ Ends(o, "declined")
          /\ UNCHANGED build
       \/ /\ Deployed \/ UNCHANGED build
          /\ Goes(o, "pick") \/ Ends(o, "failed")
    /\ UNCHANGED <<shares, cmd, picked, seen, created, draft, confirmed, published, before>>

(***************************************************************************)
(* The share.                                                              *)
(***************************************************************************)
Existing == {s \in ShareIds : Exists(s)}

Newest(set) == {s \in set : \A t \in set : t <= s}

\* --link names one; else the newest that is switched on, else the newest.
Candidates(o) ==
    LET on == {s \in Existing : shares[s].status = "active"} IN
    IF cmd[o].link = "named" THEN Existing ELSE Newest(IF on # {} THEN on ELSE Existing)

PickShare(o) ==
    /\ at[o] = "pick"
    /\ \E s \in Candidates(o) :
         /\ picked' = [picked EXCEPT ![o] = s]
         /\ seen' = [seen EXCEPT ![o] = shares[s].status]
         /\ Goes(o, IF cmd[o].kind = "off" THEN "off" ELSE FirstStep(o))
    /\ UNCHANGED <<serverVars, cmd, created, draft, confirmed, published, before>>

\* The list could not be read, or off or --link found no share.
PickFails(o) ==
    /\ at[o] = "pick"
    /\ Ends(o, "failed")
    /\ OnlyMoves

NoShareYet(o) ==
    /\ at[o] = "pick" /\ cmd[o].kind = "share" /\ cmd[o].link = "newest"
    /\ Existing = {}
    /\ Goes(o, "create")
    /\ OnlyMoves

\* A new share takes --allow-reshare at once: it has no release to fork yet.
Create(o) ==
    /\ at[o] = "create"
    /\ \E s \in ShareIds :
         /\ ~Exists(s) /\ \A t \in ShareIds : t < s => Exists(t)
         /\ CreateShare(s, IF cmd[o].reshare = "allow" THEN "yes" ELSE "no")
         /\ picked' = [picked EXCEPT ![o] = s]
         /\ seen' = [seen EXCEPT ![o] = "draft"]
    /\ created' = created \cup {o}
    /\ Goes(o, "draft") \/ Ends(o, "failed")
    /\ UNCHANGED <<build, cmd, draft, confirmed, published, before>>

CreateRefused(o) ==
    /\ at[o] = "create"
    /\ Ends(o, "failed")
    /\ OnlyMoves

StopResharing(o) ==
    /\ at[o] = "stop"
    /\ UpdateShare(picked[o], {"stop"})
    /\ seen' = [seen EXCEPT ![o] = shares[picked[o]].status]
    /\ Goes(o, "draft") \/ Ends(o, "stillReshares")
    /\ UNCHANGED <<build, cmd, picked, created, draft, confirmed, published, before>>

StopRefused(o) ==
    /\ at[o] = "stop"
    /\ Ends(o, "stillReshares")
    /\ OnlyMoves

(***************************************************************************)
(* The release.                                                            *)
(***************************************************************************)
Draft(o) ==
    /\ at[o] = "draft"
    /\ draft' = [draft EXCEPT ![o] = build]
    /\ Goes(o, "review")
    /\ UNCHANGED <<serverVars, cmd, picked, seen, created, confirmed, published, before>>

DraftFails(o) ==
    /\ at[o] = "draft"
    /\ Ends(o, "failed")
    /\ OnlyMoves

Confirm(o) ==
    /\ at[o] = "review"
    /\ confirmed' = [confirmed EXCEPT ![o] = @ \cup {draft[o]}]
    /\ Goes(o, "publish")
    /\ UNCHANGED <<serverVars, cmd, picked, seen, created, draft, published, before>>

Decline(o) ==
    /\ at[o] = "review" /\ cmd[o].mode = "ask"
    /\ Ends(o, "declined")
    /\ OnlyMoves

\* confirmedAlready: the fresh draft asks for nothing the reviewed one did not.
ConfirmedAlready(reviewed, fresh) ==
    /\ fresh.variables \subseteq reviewed.variables
    /\ fresh.keyed \subseteq reviewed.keyed

\* The release is published.  When the answer is lost the command fails.
Publish(o) ==
    /\ at[o] \in {"publish", "publishFresh"}
    /\ PublishRelease(picked[o], draft[o])
    /\ \/ /\ published' = [published EXCEPT ![o] = shares[picked[o]].release.id + 1]
          /\ Goes(o, "finish")
       \/ /\ Ends(o, "failed")
          /\ UNCHANGED published
    /\ UNCHANGED <<build, cmd, picked, seen, created, draft, confirmed, before>>

PublishRefused(o) ==
    /\ at[o] \in {"publish", "publishFresh"}
    /\ Ends(o, "failed")
    /\ OnlyMoves

ReviewSkipped(o) ==
    /\ at[o] = "publish" /\ cmd[o].mode = "ask"
    /\ draft[o] # build
    /\ draft' = [draft EXCEPT ![o] = build]
    /\ Goes(o, "publish")
    /\ UNCHANGED <<serverVars, cmd, picked, seen, created, confirmed, published, before>>

ReviewStale(o) ==
    /\ at[o] = "publish" /\ cmd[o].mode = "ask"
    /\ draft[o] # build
    /\ Goes(o, "review")
    /\ OnlyMoves

\* A fresh build that is not the draft is refused with the fresh draft, which
\* an owner at a terminal reviews.
ReviewAgain(o) ==
    /\ at[o] = "publish" /\ cmd[o].mode = "ask"
    /\ draft[o] # build
    /\ draft' = [draft EXCEPT ![o] = build]
    /\ Goes(o, "review")
    /\ UNCHANGED <<serverVars, cmd, picked, seen, created, confirmed, published, before>>

PublishFreshAny(o) ==
    /\ at[o] = "publish" /\ cmd[o].mode = "yes"
    /\ draft[o] # build
    /\ draft' = [draft EXCEPT ![o] = build]
    /\ Goes(o, "publishFresh")
    /\ UNCHANGED <<serverVars, cmd, picked, seen, created, confirmed, published, before>>

\* Under --yes it is published once, when it asks for nothing more.
PublishFreshOne(o) ==
    /\ at[o] = "publish" /\ cmd[o].mode = "yes"
    /\ draft[o] # build
    /\ ConfirmedAlready(draft[o], build)
    /\ draft' = [draft EXCEPT ![o] = build]
    /\ Goes(o, "publishFresh")
    /\ UNCHANGED <<serverVars, cmd, picked, seen, created, confirmed, published, before>>

StopOnChange(o) ==
    /\ cmd[o].mode = "yes"
    /\ draft[o] # build
    /\ \/ at[o] = "publish" /\ ~ConfirmedAlready(draft[o], build)
       \/ at[o] = "publishFresh"
    /\ Ends(o, "changed")
    /\ OnlyMoves

(***************************************************************************)
(* The end of `share`, and `share off`.                                    *)
(***************************************************************************)
SwitchesOnAlways(o) == o \in Owners

SwitchesOn(o) == seen[o] # "active"

Fields(o) == (IF SwitchesOn(o) THEN {"on"} ELSE {}) \cup
             (IF o \notin created /\ cmd[o].reshare = "allow" THEN {"allow"} ELSE {})

\* With nothing to change the share is only read for the report.
FinishUnchanged(o) ==
    /\ at[o] = "finish" /\ Fields(o) = {}
    /\ Ends(o, "shared")
    /\ OnlyMoves

Unfinished(o) == IF SwitchesOn(o) THEN "stillOff" ELSE "notUpdated"

\* When the answer is lost the command says that nothing changed.
Finish(o) ==
    /\ at[o] = "finish" /\ Fields(o) # {}
    /\ UpdateShare(picked[o], Fields(o))
    /\ Ends(o, "shared") \/ Ends(o, Unfinished(o))
    /\ UNCHANGED <<build, cmd, picked, seen, created, draft, confirmed, published, before>>

FinishRefused(o) ==
    /\ at[o] = "finish" /\ Fields(o) # {}
    /\ Ends(o, Unfinished(o))
    /\ OnlyMoves

SwitchOff(o) ==
    /\ at[o] = "off"
    /\ UpdateShare(picked[o], {"off"})
    /\ Ends(o, "off") \/ Ends(o, "failed")
    /\ UNCHANGED <<build, cmd, picked, seen, created, draft, confirmed, published, before>>

SwitchOffRefused(o) ==
    /\ at[o] = "off"
    /\ Ends(o, "failed")
    /\ OnlyMoves

Kill(o) ==
    /\ at[o] # "done"
    /\ Ends(o, "killed")
    /\ OnlyMoves

ShareStep(o) ==
    \/ Start(o) \/ PutDirectoryOnCloud(o)
    \/ PickShare(o) \/ PickFails(o) \/ NoShareYet(o) \/ Create(o) \/ CreateRefused(o)
    \/ StopResharing(o) \/ StopRefused(o)
    \/ Draft(o) \/ DraftFails(o) \/ Confirm(o) \/ Decline(o)
    \/ Publish(o) \/ PublishRefused(o) \/ ReviewAgain(o) \/ PublishFreshOne(o) \/ StopOnChange(o)
    \/ FinishUnchanged(o) \/ Finish(o) \/ FinishRefused(o)
    \/ SwitchOff(o) \/ SwitchOffRefused(o)

SharingDone == (\A o \in Owners : at[o] = "done") /\ UNCHANGED sharingVars

SharingNext ==
    \/ \E o \in Owners : ShareStep(o) \/ Kill(o)
    \/ Change /\ UNCHANGED ownerVars
    \/ SharingDone

SharingSafety == SharingInit /\ [][SharingNext]_sharingVars

\* A command that runs is scheduled, and the person answers.
SharingSpec == SharingSafety /\ \A o \in Owners : WF_sharingVars(ShareStep(o))

(***************************************************************************)
(* Properties.                                                             *)
(***************************************************************************)
\* What o confirmed covers a build: at a terminal that very build, under --yes
\* the variables and service key functions the first draft listed.
Covers(o, b) ==
    IF cmd[o].mode = "ask" THEN b \in confirmed[o] ELSE \E d \in confirmed[o] : ConfirmedAlready(d, b)

\* Whatever changes the project between the review and the publish, a link
\* never offers a release that no owner's confirmation covers (publish and
\* publishConfirmed in share.go).
ReleasesConfirmed ==
    \A s \in ShareIds : shares[s].release # before[s].release => \E o \in Owners : Covers(o, shares[s].release.build)

\* "A failed publish never switches an old release back on": sharing that was
\* off is on again only with a newer release (finishShare).
OldReleaseStaysOff ==
    \A s \in ShareIds :
        before[s].status # "active" /\ shares[s].status = "active" => shares[s].release.id > before[s].release.id

\* Copies may be shared again only when a command with --allow-reshare created
\* the share or published to it: a declined or failed publish gives nothing
\* away (finishShare).
ConsentGiven ==
    \A s \in ShareIds :
        before[s].reshare = "no" /\ shares[s].reshare = "yes" =>
            \E o \in Owners : cmd[o].reshare = "allow" /\ picked[o] = s /\ (o \in created \/ published[o] > 0)

\* --no-allow-reshare holds from before the release is built, even when the
\* owner declines or the publish fails (stopResharing).
ConsentTakenBack ==
    \A o \in Owners :
        /\ cmd[o].reshare = "stop"
        /\ at[o] \in {"draft", "review", "publish", "publishFresh", "finish"} \/ result[o] \in {"shared", "changed"}
        /\ \A p \in Owners : cmd[p].reshare # "allow"
        => shares[picked[o]].reshare = "no"

\* Copies of a share may be shared again exactly as its owners agreed: allowed by
\* a command that was told to, and no longer once a command took it back,
\* whatever is declined, refused or killed in between.
ReshareAgreed == ConsentGiven /\ ConsentTakenBack

\* A share command that found sharing on does not undo a later `share off`:
\* only a command that found it off switches it on, after publishing.
OffStays ==
    \A o \in Owners :
        result[o] = "off" /\ shares[picked[o]].status = "active" =>
            \E p \in Owners : picked[p] = picked[o] /\ seen[p] # "active" /\ published[p] > 0

\* Sharing that an owner turned off stays off, for the release it had and for the
\* commands that were under way, until a command that found it off publishes.
StaysOff == OldReleaseStaysOff /\ OffStays

Begun == {"start", "deploy", "pick", "create"}

\* What a command knows where it is: it has a share once it picked or created
\* one, and what it is about to publish is covered by a confirmation.
Consistent(o) ==
    /\ at[o] \in Begun => picked[o] = 0 /\ o \notin created
    /\ at[o] \notin Begun \cup {"done"} => picked[o] \in ShareIds
    /\ o \in created \/ published[o] > 0 => picked[o] \in ShareIds
    /\ result[o] \in {"shared", "changed", "off"} => picked[o] \in ShareIds
    /\ at[o] \in {"publish", "publishFresh"} => Covers(o, draft[o])
    /\ at[o] = "publish" => draft[o] \in confirmed[o]
    /\ published[o] > 0 => at[o] \in {"finish", "done"}
    /\ at[o] = "finish" => published[o] > 0
    /\ published[o] > 0 => before[picked[o]].release.id < shares[picked[o]].release.id

NoReleaseLost == \A s \in ShareIds : before[s].release.id =< shares[s].release.id

\* Inductive: the properties above and what they rest on.
SharingInv ==
    /\ SharingTypeOK
    /\ \A o \in Owners : Consistent(o)
    /\ NoReleaseLost
    /\ ReleasesConfirmed /\ OldReleaseStaysOff /\ ConsentGiven /\ ConsentTakenBack /\ OffStays

\* Every command ends: a refused draft is reviewed again or given up, never
\* published again unchanged.
SharingEnds == \A o \in Owners : <>(at[o] = "done")

\* How many more steps a command can take unless the project changes: a draft that
\* is no longer what would be built costs another review.
OwnerSteps(o) ==
    CASE at[o] = "start"              -> 9
      [] at[o] = "deploy"             -> 8
      [] at[o] = "pick"               -> 7
      [] at[o] \in {"create", "stop"} -> 6
      [] at[o] = "draft"              -> 5
      [] at[o] = "review"             -> IF draft[o] = build THEN 4 ELSE 6
      [] at[o] = "publish"            -> IF draft[o] = build THEN 3 ELSE 5
      [] at[o] = "publishFresh"       -> 2
      [] at[o] \in {"finish", "off"}  -> 1
      [] at[o] = "done"               -> 0

\* A command is never sent round by what other owners and visitors do, and an owner
\* reviews again only what changed: each of its steps brings it nearer to its end,
\* and only a change of the project sets it back.
SharingBounded ==
    /\ [](\A o \in Owners : OwnerSteps(o) \in 0 .. 9)
    /\ [][/\ \A o \in Owners : ShareStep(o) \/ Kill(o) => OwnerSteps(o)' < OwnerSteps(o)
          /\ build' = build => \A o \in Owners : OwnerSteps(o)' <= OwnerSteps(o)]_sharingVars
=============================================================================
