------------------------------ MODULE DeployRun ------------------------------
(***************************************************************************)
(* One run of `volcano deploy` (internal/cmd/deploy) beside the server.    *)
(*                                                                         *)
(* The run executes its steps in order (variables, migrations, functions,  *)
(* durable, frontends, config), stops at the first failure, then polls the *)
(* project's deployments until each one it started has an outcome, and at  *)
(* last applies the schedulers the config step had to leave out.  Between  *)
(* any two requests of the run the server builds, supersedes, redeploys,   *)
(* deletes or re-synchronises the same resources.                          *)
(*                                                                         *)
(* Simplifications.  A deployment is identified by its resource and its    *)
(* place in the order the server created that resource's deployments: the  *)
(* creation instants of one resource's deployments are distinct.  The      *)
(* client clock is at most `clockSkew` ahead of the server's, so a listing *)
(* shows every deployment the run itself created.  A manifest is the set   *)
(* of functions it gives schedulers.  Of the output only `told` is kept:   *)
(* the hint the run ends with.                                             *)
(***************************************************************************)
EXTENDS DeployServer

CONSTANT Plans  \* what runs deploy, a set of plans

\* deploys: the resources; what becomes of others is left out.  manifests: the
\* functions each manifest gives schedulers.  invalid: those with one that is
\* always rejected.  wait: without --no-wait.
IsPlan(p) ==
    /\ p \in [deploys : SUBSET Resource, manifests : Seq(SUBSET Callable), invalid : Seq(SUBSET Callable),
              wait : {"yes", "no"}]
    /\ Len(p.invalid) = Len(p.manifests)
    /\ \A m \in DOMAIN p.manifests : p.manifests[m] \subseteq p.deploys

ASSUME PlanAssumption == \A p \in Plans : IsPlan(p)

VARIABLES
    plan,     \* what this run deploys
    phase,    \* what the run does next
    hidden,   \* [Resource -> Nat]: deployments too old for the listing window
    started,  \* [Resource -> Nat]: the deployment followed, 0 for uuid.Nil
    verdict,  \* [Resource -> Verdict]
    listing,  \* the feed as the last poll read it
    todo,     \* the resources the current phase has yet to visit
    manifest, \* the manifest the config step is at
    inactive, \* functions found inactive
    refused,  \* inactive functions refused only until they are deployed
    rejected, \* inactive functions with any other scheduler error
    deferred, \* functions whose schedulers the config step left out
    told,     \* the hint the run ended with
    mine,     \* history: the deployment this run created, 0 for none
    readAt    \* history: the length of the feed a verdict was read from

configVars == <<manifest, inactive, refused, rejected, deferred>>
waitVars   == <<started, verdict, listing>>
history    == <<mine, readAt>>
vars == <<serverVars, plan, phase, hidden, waitVars, todo, configVars, told, history>>

Phases == {"variables", "migrations", "functions", "durable", "frontends",
           "config", "statuses", "dryRun", "apply", "poll", "examine", "sleep",
           "activate", "activateSleep", "schedulers",
           "deployed", "started", "error"}

Ended == {"deployed", "started", "error"}

Verdict == {"untracked", "unreported", "pending", "unchanged", "superseded",
            "succeeded", "failed"}

TypeOK ==
    /\ ServerTypeOK
    /\ plan \in Plans
    /\ phase \in Phases
    /\ hidden \in [Resource -> Nat]
    /\ started \in [Resource -> Nat]
    /\ verdict \in [Resource -> Verdict]
    /\ listing \in [Resource -> Seq(Status)]
    /\ todo \subseteq Resource
    /\ manifest \in Nat
    /\ inactive \subseteq Resource
    /\ refused \subseteq Resource
    /\ rejected \subseteq Resource
    /\ deferred \subseteq Resource
    /\ told \in {"none", "resume", "schedulers"}
    /\ mine \in [Resource -> Nat]
    /\ readAt \in [Resource -> Nat]
    /\ \A r \in Resource : verdict[r] = "pending" => started[r] \in DOMAIN feed[r]

NoListing == [r \in Resource |-> << >>]

Deploys   == plan.deploys
Manifests == plan.manifests
Invalid   == plan.invalid
NoWait    == plan.wait = "no"

Init ==
    /\ plan \in Plans
    /\ ServerInit
    /\ \A r \in Resource \ Deploys : condition[r] = "absent"
    /\ \A m \in DOMAIN Manifests : inPlace \cap Invalid[m] = {}
    /\ hidden \in [Resource -> 0..1] /\ \A r \in Resource : hidden[r] <= Len(feed[r])
    /\ phase = "variables"
    /\ started = [r \in Resource |-> 0]
    /\ verdict = [r \in Resource |-> "untracked"]
    /\ listing = NoListing
    /\ todo = {}
    /\ manifest = 1
    /\ inactive = {} /\ refused = {} /\ rejected = {} /\ deferred = {}
    /\ told = "none"
    /\ mine = [r \in Resource |-> 0]
    /\ readAt = [r \in Resource |-> 0]

Scheduled   == UNION {Manifests[m] : m \in DOMAIN Manifests}
Tracked     == {r \in Resource : verdict[r] # "untracked"}
Pending     == {r \in Resource : verdict[r] = "pending"}

(***************************************************************************)
(* The end of a run.                                                       *)
(***************************************************************************)
\* A failed step stops the run; resumeHint names what is left to do.
StopAtStep ==
    /\ phase' = "error"
    /\ told' = "resume"

\* A failed wait, or a failed scheduler pass, stops the run.
StopWaiting ==
    /\ phase' = "error"
    /\ told' = IF deferred # {} THEN "schedulers" ELSE "none"

(***************************************************************************)
(* The steps up to the frontends.                                          *)
(***************************************************************************)
NextPhase == [variables  |-> "migrations", migrations |-> "functions",
              functions  |-> "durable",    durable    |-> "frontends",
              frontends  |-> "config"]

StepResources == [variables |-> {},                    migrations |-> {},
                  functions |-> Function \cap Deploys, durable    |-> Durable \cap Deploys,
                  frontends |-> Frontend \cap Deploys]

InStep == phase \in DOMAIN NextPhase

\* track: the deployment to follow, of the two a deploy response may name.
CurrentFirst(current, pending) == IF current # 0 THEN current ELSE pending
TrackedId(current, pending) == IF pending # 0 THEN pending ELSE current

Track(r, current, pending) ==
    /\ started' = [started EXCEPT ![r] = TrackedId(current, pending)]
    /\ verdict' = [verdict EXCEPT ![r] =
                     IF TrackedId(current, pending) = 0 THEN "unreported" ELSE "pending"]

\* The deployments of r the server may report as the current one.
Served(r) == {i \in DOMAIN feed[r] : feed[r][i] = "active"}

\* A deploy request that starts a deployment.  The response reports it as
\* pending when it queued behind a served one, else as the current one.
DeployChanged(r) ==
    /\ r \in StepResources[phase] \ Tracked
    /\ Enqueue(r)
    /\ LET new == Len(feed[r]) + 1
       IN  /\ \/ \E current \in Served(r) : Track(r, current, new)
              \/ Served(r) = {} /\ Track(r, new, 0)
           /\ mine' = [mine EXCEPT ![r] = new]
    /\ UNCHANGED <<inPlace, resyncs, phase, hidden, listing, todo, configVars, told, readAt>>

\* A deploy request whose source the server already serves, or one whose
\* response names no deployment at all.
DeployUnchanged(r) ==
    /\ r \in StepResources[phase] \ Tracked
    /\ condition[r] = "active"
    /\ \E current \in {0} \cup Served(r) : Track(r, current, 0)
    /\ UNCHANGED <<serverVars, phase, hidden, listing, todo, configVars, told, history>>

StepDone ==
    /\ StepResources[phase] \subseteq Tracked
    /\ phase' = NextPhase[phase]
    /\ UNCHANGED <<serverVars, hidden, waitVars, todo, configVars, told, history>>

StepFails ==
    /\ StopAtStep
    /\ UNCHANGED <<serverVars, hidden, waitVars, todo, configVars, history>>

Step ==
    /\ InStep
    /\ \/ \E r \in Resource : DeployChanged(r) \/ DeployUnchanged(r)
       \/ StepDone
       \/ StepFails

(***************************************************************************)
(* The config step.                                                        *)
(***************************************************************************)
AfterStepsSilent(left) ==
    /\ phase' = IF NoWait THEN "started" ELSE "poll"
    /\ told' = told

\* What follows the last step: the end with --no-wait, else the wait.
AfterSteps(left) ==
    IF NoWait
    THEN /\ phase' = "started"
         /\ told' = IF left # {} THEN "schedulers" ELSE "none"
    ELSE /\ phase' = "poll"
         /\ told' = told

ConfigSkipped ==
    /\ phase = "config"
    /\ Manifests = << >>
    /\ AfterSteps({})
    /\ UNCHANGED <<serverVars, hidden, waitVars, todo, configVars, history>>

ConfigStarts ==
    /\ phase = "config"
    /\ Manifests # << >>
    /\ phase' = "statuses"
    /\ todo' = Scheduled \cap Tracked
    /\ UNCHANGED <<serverVars, hidden, waitVars, configVars, told, history>>

\* inactiveScheduledFunctions reads one function's status after another.
ReadStatus(r) ==
    /\ phase = "statuses"
    /\ r \in todo
    /\ todo' = todo \ {r}
    /\ inactive' = IF condition[r] = "active" THEN inactive ELSE inactive \cup {r}
    /\ UNCHANGED <<serverVars, phase, hidden, waitVars, manifest, refused, rejected,
                   deferred, told, history>>

StatusesRead ==
    /\ phase = "statuses"
    /\ todo = {}
    /\ phase' = IF inactive = {} THEN "apply" ELSE "dryRun"
    /\ UNCHANGED <<serverVars, hidden, waitVars, todo, configVars, told, history>>

\* refusedSchedulers dry-runs a manifest and sorts the scheduler errors of the
\* inactive functions; a dry run that fails in any other way is passed over.
DryRun ==
    /\ phase = "dryRun"
    /\ manifest \in DOMAIN Manifests
    /\ \/ /\ refused' = refused \cup {r \in Manifests[manifest] \cap inactive : ~Accepts(r)}
          /\ rejected' = rejected \cup (Invalid[manifest] \cap inactive)
       \/ UNCHANGED <<refused, rejected>>
    /\ manifest' = manifest + 1
    /\ UNCHANGED <<serverVars, phase, hidden, waitVars, todo, inactive, deferred, told, history>>

DryRunsDone ==
    /\ phase = "dryRun"
    /\ manifest \notin DOMAIN Manifests
    /\ phase' = "apply"
    /\ manifest' = 1
    /\ UNCHANGED <<serverVars, hidden, waitVars, todo, inactive, refused, rejected,
                   deferred, told, history>>

\* The functions whose schedulers are held back from the real apply.
Held == refused \ rejected

\* One manifest is applied without the schedulers held back.  The server
\* rejects it whole when it refuses any scheduler in it.
Applied(schedulers, invalid) ==
    /\ schedulers \cap invalid = {}
    /\ \A r \in schedulers : Accepts(r)
    /\ inPlace' = inPlace \cup schedulers

ApplyManifest ==
    /\ phase = "apply"
    /\ manifest \in DOMAIN Manifests
    /\ Applied(Manifests[manifest] \ Held, Invalid[manifest])
    /\ manifest' = manifest + 1
    /\ UNCHANGED <<feed, condition, resyncs, phase, hidden, waitVars, todo, inactive,
                   refused, rejected, deferred, told, history>>

\* A status read, or the real apply, fails or is refused: the step fails.
ConfigFails ==
    /\ \/ phase = "statuses" /\ todo # {}
       \/ phase = "apply" /\ manifest \in DOMAIN Manifests
    /\ StopAtStep
    /\ UNCHANGED <<serverVars, hidden, waitVars, todo, configVars, history>>

ConfigDone ==
    /\ phase = "apply"
    /\ manifest \notin DOMAIN Manifests
    /\ deferred' = Held
    /\ AfterSteps(Held)
    /\ UNCHANGED <<serverVars, hidden, waitVars, todo, manifest, inactive, refused,
                   rejected, history>>

Config ==
    \/ ConfigSkipped \/ ConfigStarts \/ StatusesRead \/ DryRun \/ DryRunsDone
    \/ ApplyManifest \/ ConfigFails \/ ConfigDone
    \/ \E r \in Resource : ReadStatus(r)

(***************************************************************************)
(* The wait.                                                               *)
(***************************************************************************)
Poll ==
    /\ phase = "poll"
    /\ Pending # {}
    /\ listing' = feed
    /\ todo' = Pending
    /\ phase' = "examine"
    /\ UNCHANGED <<serverVars, hidden, started, verdict, configVars, told, history>>

Listed(r) == started[r] > hidden[r]

\* newestDeployment: the deployments of s created after its i-th that are not
\* superseded themselves.  The newest of them is the one that serves.
NewerActive(s, i) == {j \in DOMAIN s : j > i /\ s[j] = "active"}
NewerOrOlder(s, i) == {j \in DOMAIN s : j # i /\ s[j] # "superseded"}
NewerOrSame(s, i) == {j \in DOMAIN s : j >= i /\ s[j] # "superseded"}

Newer(s, i) == {j \in DOMAIN s : j > i /\ s[j] # "superseded"}

IsNewest(j, candidates) ==
    /\ j \in candidates
    /\ \A k \in candidates : k <= j

Latest(r)   == listing[r][Len(listing[r])]
Followed(r) == listing[r][started[r]]

\* The entry of r has its outcome and leaves the pending ones.
Settle(r, outcome) ==
    /\ verdict' = [verdict EXCEPT ![r] = outcome]
    /\ readAt' = [readAt EXCEPT ![r] = Len(listing[r])]
    /\ UNCHANGED started

KeepWaiting == UNCHANGED <<started, verdict, readAt>>

ExamineUnlisted(r) == ~Listed(r) /\ Settle(r, "unchanged")

\* A newer deployment serves instead: the entry waits for that one.
ExamineReplaced(r) ==
    /\ Listed(r)
    /\ Followed(r) \in {"active", "superseded"}
    /\ \E j \in DOMAIN listing[r] :
          /\ IsNewest(j, Newer(listing[r], started[r]))
          /\ started' = [started EXCEPT ![r] = j]
    /\ UNCHANGED <<verdict, readAt>>

ExamineSuperseded(r) ==
    /\ Listed(r)
    /\ Followed(r) = "superseded"
    /\ Newer(listing[r], started[r]) = {}
    /\ Settle(r, "superseded")

\* durableStillProvisioning: a durable function whose deployment is active may
\* still refuse executions; its status is read now, after the listing.
StillProvisioning(r) == r \in Durable /\ condition[r] = "provisioning"

ExamineActive(r) ==
    /\ Listed(r)
    /\ Followed(r) = "active"
    /\ Newer(listing[r], started[r]) = {}
    /\ IF StillProvisioning(r) THEN KeepWaiting ELSE Settle(r, "succeeded")

ExamineDeleted(r) ==
    /\ Listed(r)
    /\ Followed(r) = "deleted"
    /\ Settle(r, "succeeded")

ExamineFailed(r) ==
    /\ Listed(r)
    /\ Followed(r) \in {"failed", "degraded"}
    /\ Settle(r, "failed")

ExamineUnfinished(r) ==
    /\ Listed(r)
    /\ Followed(r) \in {"queued", "provisioning", "deleting"}
    /\ KeepWaiting

Examine(r) ==
    /\ phase = "examine"
    /\ r \in todo
    /\ todo' = todo \ {r}
    /\ \/ ExamineUnlisted(r) \/ ExamineReplaced(r) \/ ExamineSuperseded(r)
       \/ ExamineActive(r) \/ ExamineDeleted(r) \/ ExamineFailed(r)
       \/ ExamineUnfinished(r)
    /\ UNCHANGED <<serverVars, phase, hidden, listing, configVars, told, mine>>

PassDone ==
    /\ phase = "examine"
    /\ todo = {}
    /\ phase' = IF Pending = {} THEN "poll" ELSE "sleep"
    /\ listing' = NoListing
    /\ UNCHANGED <<serverVars, hidden, started, verdict, todo, configVars, told, history>>

Tick ==
    /\ phase = "sleep"
    /\ phase' = "poll"
    /\ UNCHANGED <<serverVars, hidden, waitVars, todo, configVars, told, history>>

\* The wait ends early: a request fails, the user interrupts it, or the timeout
\* expires while it sleeps.
WaitFails ==
    /\ \/ phase = "poll" /\ Pending # {}
       \/ phase = "examine" /\ \E r \in todo \cap Durable :
                                  Listed(r) /\ Followed(r) = "active"
       \/ phase \in {"sleep", "activate", "activateSleep", "schedulers"}
    /\ StopWaiting
    /\ UNCHANGED <<serverVars, hidden, waitVars, todo, configVars, history>>

\* Nothing is pending: the failures are reported, or the schedulers are next.
WaitDone ==
    /\ phase = "poll"
    /\ Pending = {}
    /\ IF \E r \in Resource : verdict[r] = "failed"
       THEN StopWaiting /\ UNCHANGED <<todo, inactive>>
       ELSE /\ phase' = IF deferred = {} THEN "deployed" ELSE "activate"
            /\ todo' = deferred
            /\ inactive' = {}
            /\ UNCHANGED told
    /\ UNCHANGED <<serverVars, hidden, waitVars, manifest, refused, rejected, deferred, history>>

Wait ==
    \/ Poll \/ PassDone \/ Tick \/ WaitFails \/ WaitDone
    \/ \E r \in Resource : Examine(r)

(***************************************************************************)
(* The schedulers the config step left out.                                *)
(***************************************************************************)
\* waitForActive: a function found active is not read again.
CheckActive(r) ==
    /\ phase = "activate"
    /\ r \in todo
    /\ todo' = todo \ {r}
    /\ \/ condition[r] = "active" /\ UNCHANGED <<inactive, phase, told>>
       \/ condition[r] \in {"failed", "deleting"} /\ StopWaiting /\ UNCHANGED inactive
       \/ condition[r] \in {"absent", "provisioning"} /\ inactive' = inactive \cup {r} /\ UNCHANGED <<phase, told>>
    /\ UNCHANGED <<serverVars, hidden, waitVars, manifest, refused, rejected, deferred, history>>

ActivePassDone ==
    /\ phase = "activate"
    /\ todo = {}
    /\ phase' = IF inactive = {} THEN "schedulers" ELSE "activateSleep"
    /\ UNCHANGED <<serverVars, hidden, waitVars, todo, configVars, told, history>>

ActiveTick ==
    /\ phase = "activateSleep"
    /\ phase' = "activate"
    /\ todo' = inactive
    /\ inactive' = {}
    /\ UNCHANGED <<serverVars, hidden, waitVars, manifest, refused, rejected, deferred,
                   told, history>>

\* The schedulers left out are applied by themselves.
InvalidDeferred == UNION {Invalid[m] : m \in DOMAIN Manifests}

ApplyDeferred ==
    /\ phase = "schedulers"
    /\ Applied(deferred, InvalidDeferred)
    /\ phase' = "deployed"
    /\ UNCHANGED <<feed, condition, resyncs, hidden, waitVars, todo, configVars, told, history>>

\* The apply is accepted, and reports an error for some of the schedulers.
ApplyDeferredPartly ==
    /\ phase = "schedulers"
    /\ \A r \in deferred : Accepts(r)
    /\ \E some \in SUBSET deferred : inPlace' = inPlace \cup some
    /\ StopWaiting
    /\ UNCHANGED <<feed, condition, resyncs, hidden, waitVars, todo, configVars, history>>

Schedulers ==
    \/ ActivePassDone \/ ActiveTick \/ ApplyDeferred \/ ApplyDeferredPartly
    \/ \E r \in Resource : CheckActive(r)

(***************************************************************************)
(* The specification.                                                      *)
(***************************************************************************)
Runner == (Step \/ Config \/ Wait \/ Schedulers) /\ UNCHANGED plan

runnerVars == <<plan, phase, hidden, waitVars, todo, configVars, told, history>>

\* The server runs on after the run ended; nothing reads it any more.
Server ==
    /\ phase \notin Ended
    /\ \E r \in Deploys : ServerProgress(r) \/ Interference(r)
    /\ UNCHANGED runnerVars

Finished == phase \in Ended /\ UNCHANGED vars

Next == Runner \/ Server \/ Finished

Spec == Init /\ [][Next]_vars

\* The process runs until it ends, and the server finishes what it started.
\* Nothing is assumed of timeouts, failures or of other people's deploys.
Fairness ==
    /\ WF_vars(Runner)
    /\ \A r \in Resource : WF_vars(Server /\ ServerProgress(r))

FairSpec == Spec /\ Fairness

(***************************************************************************)
(* Properties.                                                             *)
(***************************************************************************)
\* A verdict tells what became of the deployment that was followed: what is
\* reported as deployed was serving (or a finished delete), what is reported as
\* failed did fail, whatever happened on the server since (wait.go's switch).
VerdictsHold ==
    \A r \in Resource :
        /\ verdict[r] = "succeeded" => feed[r][started[r]] \in {"active", "deleting", "deleted"}
        /\ verdict[r] = "failed"    => feed[r][started[r]] \in {"failed", "degraded"}
        /\ verdict[r] = "superseded" => feed[r][started[r]] = "superseded"

\* A redeploy that existed when the deciding listing was read is never ignored:
\* every deployment newer than the followed one was superseded by then
\* (newestDeployment and the entry it replaces).
NoNewerIgnored ==
    \A r \in Resource :
        verdict[r] \in {"succeeded", "superseded"} =>
            \A i \in DOMAIN feed[r] :
                started[r] < i /\ i <= readAt[r] => feed[r][i] = "superseded"

\* The outcome reported for a resource is that of the deployment this run
\* created or of a later one, and a resource is called unchanged only when the
\* run created none (track's choice of id, and the listing window).
OwnDeploymentCounts ==
    \A r \in Resource :
        /\ verdict[r] \in {"succeeded", "failed", "superseded"} => mine[r] <= started[r]
        /\ verdict[r] \in {"unchanged", "unreported"} => mine[r] = 0

\* However the run ends, a scheduler of the manifests that the server does not
\* have is one the user is told about: a hint names it or the step to repeat
\* (the deferred schedulers survive every error path of wait and apply).
SchedulersAccountedFor ==
    phase \in Ended /\ ~(Scheduled \subseteq inPlace) => told # "none"

\* An entry only ever moves on to a newer deployment, and never after its
\* outcome was reported: the wait cannot go back and forth between two.
FollowsForward ==
    [][\A r \in Resource :
          started'[r] # started[r] =>
              /\ started'[r] > started[r]
              /\ verdict[r] \in {"untracked", "pending"}]_vars

\* When the server finishes what it starts and other people stop deploying, the
\* run ends without needing its timeout, whatever was superseded or redeployed.
RunEnds == <>(phase \in Ended)

\* The server has nothing left to do about r.
AtRest(r) ==
    /\ condition[r] # "provisioning"
    /\ \A i \in DOMAIN feed[r] : feed[r][i] \notin {"queued", "provisioning", "deleting"}

\* No pass of the wait is in vain once the server is done with a resource: the entry
\* gets its outcome, or moves on to the newest deployment, which is the last one it
\* moves to (wait.go's switch leaves no status out and does not go in circles).
PassesSettle ==
    [][\A r \in Resource :
          phase = "examine" /\ r \in todo \ todo' /\ listing[r] = feed[r] /\ AtRest(r) =>
              \/ verdict'[r] # "pending"
              \/ Newer(feed[r], started[r]) # {} /\ Newer(feed[r], started'[r]) = {}]_vars

(***************************************************************************)
(* The inductive invariant behind the safety properties.                   *)
(***************************************************************************)
\* What the status of a deployment can be, given what it was.
After == [queued |-> Status, provisioning |-> Status \ {"queued", "superseded"},
          active |-> {"active", "deleting", "deleted"}, failed |-> {"failed"},
          degraded |-> {"degraded"}, deleting |-> {"deleting", "deleted"},
          deleted |-> {"deleted"}, superseded |-> {"superseded"}]

\* Only the latest deployment is queued or deleted, and nothing overtakes a build.
FeedInv ==
    \A r \in Resource : \A i \in DOMAIN feed[r] :
        /\ feed[r][i] = "queued" => i = Len(feed[r])
        /\ feed[r][i] \in {"deleting", "deleted"} =>
               i = Len(feed[r]) /\ condition[r] = "deleting"
        /\ feed[r][i] = "provisioning" =>
               \A j \in DOMAIN feed[r] : j > i => feed[r][j] \in {"queued", "superseded"}

\* The listing is a past of the feed.
ListingInv ==
    \A r \in Resource :
        /\ Len(listing[r]) <= Len(feed[r])
        /\ \A i \in DOMAIN listing[r] :
              /\ feed[r][i] \in After[listing[r][i]]
              /\ listing[r][i] \in {"deleting", "deleted"} => i = Len(listing[r])

\* The followed deployment exists and is not older than the run's own.
EntryInv ==
    \A r \in Resource :
        /\ hidden[r] <= Len(feed[r])
        /\ readAt[r] <= Len(feed[r])
        /\ mine[r] # 0 => hidden[r] < mine[r]
        /\ verdict[r] = "untracked" => started[r] = 0
        /\ verdict[r] \in {"untracked", "unreported", "unchanged"} => mine[r] = 0
        /\ verdict[r] \in {"pending", "succeeded", "failed", "superseded"} =>
               started[r] \in DOMAIN feed[r] /\ mine[r] <= started[r]
        /\ phase = "examine" /\ r \in todo =>
               verdict[r] = "pending" /\ started[r] \in DOMAIN listing[r]

\* Everything the safety of the wait rests on, as one inductive invariant.
IInv ==
    TypeOK /\ FeedInv /\ ListingInv /\ EntryInv /\ VerdictsHold /\ NoNewerIgnored

\* What is known of the schedulers at each point: those of the manifests applied
\* so far are in place but for the ones held back, and a run that ends without
\* them says so.
SchedulersInv ==
    /\ manifest >= 1
    /\ phase \in DOMAIN NextPhase \cup {"config", "statuses"} => manifest = 1
    /\ phase = "apply" =>
          \A m \in DOMAIN Manifests : m < manifest => Manifests[m] \ Held \subseteq inPlace
    /\ phase \in {"poll", "examine", "sleep", "activate", "activateSleep", "schedulers"} =>
          Scheduled \ deferred \subseteq inPlace
    /\ phase = "deployed" => Scheduled \subseteq inPlace
    /\ phase \in {"started", "error"} => Scheduled \subseteq inPlace \/ told # "none"
=============================================================================
