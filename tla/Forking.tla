------------------------------ MODULE Forking ------------------------------
(***************************************************************************)
(* The visitor's side: `volcano fork` (internal/fork over                  *)
(* internal/project/fork.go) makes a project of one's own from the release *)
(* a share link offers, while the owner publishes newer releases and       *)
(* switches sharing off and on.                                            *)
(*                                                                         *)
(* A request may be lost, reach the API late, or be served with its answer *)
(* lost.  The API serves one request at a time: it looks the idempotency   *)
(* key up, and when it is new checks the release and makes the project, in *)
(* one step.  Values for variables and the copy's name are left out.       *)
(***************************************************************************)
EXTENDS ShareServer

CONSTANTS
    Visitors,  \* the commands
    Orders,    \* what they may be, a subset of Order
    Link       \* the share whose link they were given

\* wait: without --no-wait.  select: the copy becomes the active project.
\* directory: whether the working directory is linked.
Order == [mode : {"ask", "yes"}, wait : {"yes", "no"}, select : {"yes", "no"}, directory : {"linked", "other"}]

ASSUME ForkingAssumption == Orders \subseteq Order /\ Link \in ShareIds

VARIABLES
    copies,  \* the projects made from the link, at the API
    late,    \* requests given up that may still reach the API
    order,   \* what each command is
    stage,   \* where it is
    offer,   \* the release it previewed
    key,     \* the number of idempotency keys it has used
    agreed,  \* history: the releases the person, or --yes, confirmed
    active,  \* the project that cloud commands use
    outcome  \* how it ended

visitorVars == <<copies, late, order, stage, offer, key, agreed, active, outcome>>
forkingVars == <<serverVars, visitorVars>>

\* key and release are the request's.  settled: the key answers with the
\* project; until then with request_in_progress.
Copy == [visitor : Visitors, key : Nat, release : Release, settled : {"yes", "no"},
         install : {"none", "queued", "ready", "failed"}]

Request == [visitor : Visitors, key : Nat, release : Release]

Stage == {"start", "confirm", "send", "resend", "inProgress", "last", "changed", "wait", "select", "done"}

Outcome == {"none", "ready", "created", "notInstalling", "installFailed", "notSelected", "continues", "declined",
            "failed", "refused", "inProgress", "changed", "canceled"}

ForkingTypeOK ==
    /\ ServerTypeOK
    /\ copies \in SUBSET Copy
    /\ late \in SUBSET Request
    /\ order \in [Visitors -> Orders]
    /\ stage \in [Visitors -> Stage]
    /\ offer \in [Visitors -> Release]
    /\ key \in [Visitors -> Nat]
    /\ agreed \in [Visitors -> SUBSET Release]
    /\ active \in [Visitors -> {"old", "copy"}]
    /\ outcome \in [Visitors -> Outcome]

VisitorInit ==
    /\ copies = {} /\ late = {}
    /\ order \in [Visitors -> Orders]
    /\ stage = [v \in Visitors |-> "start"]
    /\ offer = [v \in Visitors |-> NoRelease]
    /\ key = [v \in Visitors |-> 1]
    /\ agreed = [v \in Visitors |-> {}]
    /\ active = [v \in Visitors |-> "old"]
    /\ outcome = [v \in Visitors |-> "none"]

ForkingInit == ServerInit /\ VisitorInit

Moves(v, place) == stage' = [stage EXCEPT ![v] = place] /\ UNCHANGED outcome

Stops(v, how) == stage' = [stage EXCEPT ![v] = "done"] /\ outcome' = [outcome EXCEPT ![v] = how]

Current == shares[Link].release

(***************************************************************************)
(* Preview and confirmation.                                               *)
(***************************************************************************)
Preview(v) ==
    /\ stage[v] = "start"
    /\ \/ /\ Serving(Link)
          /\ offer' = [offer EXCEPT ![v] = Current]
          /\ Moves(v, "confirm")
       \/ Stops(v, "failed") /\ UNCHANGED offer
    /\ UNCHANGED <<serverVars, copies, late, order, key, agreed, active>>

Agree(v) ==
    /\ stage[v] = "confirm"
    /\ agreed' = [agreed EXCEPT ![v] = @ \cup {offer[v]}]
    /\ Moves(v, "send")
    /\ UNCHANGED <<serverVars, copies, late, order, offer, key, active>>

\* The person says no, or --var names a variable the release does not declare.
DeclineFork(v) ==
    /\ stage[v] = "confirm"
    /\ Stops(v, "failed") \/ (order[v].mode = "ask" /\ Stops(v, "declined"))
    /\ UNCHANGED <<serverVars, copies, late, order, offer, key, agreed, active>>

\* The refusal created nothing.  A person sees the new release and is asked
\* again, with a new key; a run that does not ask stops.
PreviewAgain(v) ==
    /\ stage[v] = "changed"
    /\ \/ /\ Serving(Link)
          /\ offer' = [offer EXCEPT ![v] = Current]
          /\ \/ /\ order[v].mode = "ask"
                /\ key' = [key EXCEPT ![v] = @ + 1]
                /\ Moves(v, "confirm")
             \/ /\ order[v].mode = "yes"
                /\ Stops(v, "changed")
                /\ UNCHANGED key
       \/ Stops(v, "failed") /\ UNCHANGED <<offer, key>>
    /\ UNCHANGED <<serverVars, copies, late, order, agreed, active>>

(***************************************************************************)
(* The request at the API.                                                 *)
(***************************************************************************)
RequestOfAnew(v) ==
    [visitor |-> v, key |-> 2 * key[v] + (IF stage[v] = "send" THEN 0 ELSE 1), release |-> offer[v]]

RequestOfCurrent(v) == [visitor |-> v, key |-> key[v], release |-> shares[Link].release]

RequestOf(v) == [visitor |-> v, key |-> key[v], release |-> offer[v]]

Known(r) == {c \in copies : c.visitor = r.visitor /\ c.key = r.key}

Accepts(r) == Known(r) = {} /\ Serving(Link) /\ r.release = Current

MakeCopy(r, settled) ==
    \E install \in {"none", "queued"} :
      copies' = copies \cup {[visitor |-> r.visitor, key |-> r.key, release |-> r.release,
                              settled |-> settled, install |-> install]}

\* A request that was given up arrives after all.
Arrives(r) ==
    /\ late' = late \ {r}
    /\ IF Accepts(r) THEN MakeCopy(r, "no") \/ UNCHANGED copies ELSE UNCHANGED copies
    /\ UNCHANGED <<serverVars, order, stage, offer, key, agreed, active, outcome>>

Becomes(c, d) ==
    /\ copies' = (copies \ {c}) \cup {d}
    /\ UNCHANGED <<serverVars, late, order, stage, offer, key, agreed, active, outcome>>

Settles(c) == c.settled = "no" /\ Becomes(c, [c EXCEPT !.settled = "yes"])

Installs(c) ==
    /\ c.settled = "yes" /\ c.install = "queued"
    /\ \E install \in {"ready", "failed"} : Becomes(c, [c EXCEPT !.install = install])

(***************************************************************************)
(* Service.Fork: the calls.                                                *)
(***************************************************************************)
Sending(v) == stage[v] \in {"send", "resend", "last"}

\* The API answered with the project.
Receives(v, c) ==
    IF c.install = "none" THEN Stops(v, "notInstalling")
    ELSE Moves(v, IF order[v].wait = "yes" THEN "wait" ELSE "select")

Created(v) ==
    /\ Sending(v) /\ Accepts(RequestOf(v))
    /\ MakeCopy(RequestOf(v), "yes")
    /\ \E c \in copies' \ copies : Receives(v, c)
    /\ UNCHANGED <<serverVars, late, order, offer, key, agreed, active>>

Repeated(v) ==
    /\ Sending(v)
    /\ \E c \in Known(RequestOf(v)) : c.settled = "yes" /\ Receives(v, c)
    /\ UNCHANGED <<serverVars, copies, late, order, offer, key, agreed, active>>

AfterLostAsks(v) == IF stage[v] = "send" THEN Moves(v, "resend") ELSE Moves(v, "changed")

AfterLostAgain(v) == IF stage[v] = "send" THEN Moves(v, "resend") ELSE Moves(v, "send")

\* Only the first call is sent again, with the same key.
AfterLost(v) == IF stage[v] = "send" THEN Moves(v, "resend") ELSE Stops(v, "failed")

RequestLost(v) ==
    /\ Sending(v)
    /\ late' \in {late, late \cup {RequestOf(v)}}
    /\ AfterLost(v)
    /\ UNCHANGED <<serverVars, copies, order, offer, key, agreed, active>>

AnswerLost(v) ==
    /\ Sending(v) /\ Accepts(RequestOf(v))
    /\ \E settled \in {"yes", "no"} : MakeCopy(RequestOf(v), settled)
    /\ AfterLost(v)
    /\ UNCHANGED <<serverVars, late, order, offer, key, agreed, active>>

\* An earlier attempt with this key is still settling: one more call, after
\* the wait the API names.
InProgress(v) ==
    /\ Sending(v)
    /\ \E c \in Known(RequestOf(v)) : c.settled = "no"
    /\ IF stage[v] = "last" THEN Stops(v, "inProgress") ELSE Moves(v, "inProgress")
    /\ UNCHANGED <<serverVars, copies, late, order, offer, key, agreed, active>>

WaitRetryAfter(v) ==
    /\ stage[v] = "inProgress"
    /\ Moves(v, "last")
    /\ UNCHANGED <<serverVars, copies, late, order, offer, key, agreed, active>>

ReleaseChanged(v) ==
    /\ Sending(v) /\ Known(RequestOf(v)) = {}
    /\ Serving(Link) /\ Current # offer[v]
    /\ Moves(v, "changed")
    /\ UNCHANGED <<serverVars, copies, late, order, offer, key, agreed, active>>

\* Sharing is off, or the plan, the quota or the place refuses the fork.
Refused(v) ==
    /\ Sending(v) /\ Known(RequestOf(v)) = {}
    /\ Stops(v, "refused")
    /\ UNCHANGED <<serverVars, copies, late, order, offer, key, agreed, active>>

(***************************************************************************)
(* The installation, and the selection of the copy.                        *)
(***************************************************************************)
Mine(v) == Known(RequestOf(v))

Installed(v) ==
    /\ stage[v] = "wait"
    /\ \E c \in Mine(v) :
         \/ c.install = "ready" /\ Moves(v, "select")
         \/ c.install = "failed" /\ Stops(v, "installFailed")
    /\ UNCHANGED <<serverVars, copies, late, order, offer, key, agreed, active>>

\* The wait runs out, or a read fails: the installation continues.
StopsWaiting(v) ==
    /\ stage[v] = "wait"
    /\ Stops(v, "continues")
    /\ UNCHANGED <<serverVars, copies, late, order, offer, key, agreed, active>>

Finished(v) == Stops(v, IF order[v].wait = "yes" THEN "ready" ELSE "created")

\* A linked directory stays linked to its own project.
SelectCopy(v) ==
    /\ stage[v] = "select"
    /\ IF order[v].select = "yes" /\ order[v].directory = "other"
       THEN \/ Finished(v) /\ active' = [active EXCEPT ![v] = "copy"]
            \/ Stops(v, "notSelected") /\ UNCHANGED active
       ELSE Finished(v) /\ UNCHANGED active
    /\ UNCHANGED <<serverVars, copies, late, order, offer, key, agreed>>

Cancel(v) ==
    /\ stage[v] # "done"
    /\ Stops(v, "canceled")
    /\ UNCHANGED <<serverVars, copies, late, order, offer, key, agreed, active>>

ForkStep(v) ==
    \/ Preview(v) \/ Agree(v) \/ DeclineFork(v) \/ PreviewAgain(v)
    \/ Created(v) \/ Repeated(v) \/ RequestLost(v) \/ AnswerLost(v) \/ InProgress(v) \/ WaitRetryAfter(v)
    \/ ReleaseChanged(v) \/ Refused(v)
    \/ Installed(v) \/ StopsWaiting(v) \/ SelectCopy(v)

ApiStep == (\E r \in late : Arrives(r)) \/ (\E c \in copies : Settles(c) \/ Installs(c))

ForkingDone == (\A v \in Visitors : stage[v] = "done") /\ UNCHANGED forkingVars

ForkingNext ==
    \/ \E v \in Visitors : ForkStep(v) \/ Cancel(v)
    \/ ApiStep
    \/ (OwnerStep \/ Change) /\ UNCHANGED visitorVars
    \/ ForkingDone

ForkingSafety == ForkingInit /\ [][ForkingNext]_forkingVars

(***************************************************************************)
(* Properties.                                                             *)
(***************************************************************************)
\* "Either way it creates at most one project" (Service.Fork): however often
\* requests and answers are lost and releases change, one command makes at
\* most one copy.
OneCopy == \A c, d \in copies : c.visitor = d.visitor => c = d

\* "Nothing was created": when the command says so because the release
\* changed, or the person declines the new one, no copy exists, and no late
\* request makes one.
NothingCreatedTrue ==
    \A v \in Visitors : outcome[v] \in {"changed", "declined"} => \A c \in copies : c.visitor # v

\* A copy is made of a release that was confirmed, and the command reports it
\* as the release it installed, however the preview moved on meanwhile (Run and
\* confirmAndCreate).
CopyIsReported ==
    /\ \A c \in copies : c.release \in agreed[c.visitor]
    /\ \A v \in Visitors : outcome[v] \in {"ready", "created", "notInstalling", "installFailed", "notSelected", "continues"} =>
         \E c \in copies : c.visitor = v /\ c.release = offer[v]

\* The active project becomes the copy only when it is installed, or when the
\* person does not wait for that, and never in a linked directory.
SelectedIsInstalled ==
    \A v \in Visitors : active[v] = "copy" =>
        /\ order[v].directory = "other"
        /\ order[v].wait = "yes" => \E c \in copies : c.visitor = v /\ c.install = "ready"

\* The copy of a visitor, and the order that may still become one: a request being
\* sent, or given up and still on its way, for the release the link offers.
CopyOf(v) == {[release |-> c.release, install |-> c.install] : c \in {d \in copies : d.visitor = v}}

OnItsWay(v) ==
    \/ stage[v] \in {"send", "resend", "inProgress", "last"} /\ offer[v] = Current
    \/ \E r \in late : r.visitor = v /\ r.release = Current

OrderOf(v) == {r \in {Current} : CopyOf(v) = {} /\ OnItsWay(v)}

\* The promise of the command (ForkOnce): previews, idempotency keys, retries and
\* late requests amount to one order, of the release last confirmed, that the API
\* carries out once at most and the command reports truthfully.
Once == INSTANCE ForkOnce WITH
    offered  <- Current,
    open     <- [v \in Visitors |-> OrderOf(v)],
    made     <- [v \in Visitors |-> CopyOf(v)],
    selected <- {v \in Visitors : active[v] = "copy"}

ForkedOnce == Once!Spec

Undecided(v) == stage[v] \in {"start", "confirm", "changed"} \/ outcome[v] \in {"changed", "declined"}

\* A copy was made by the request being sent; a late request is either that
\* one or out of date, so a new key is safe.
CopiesInv ==
    \A c \in copies :
        /\ ~Undecided(c.visitor)
        /\ c.key = key[c.visitor] /\ c.release = offer[c.visitor] /\ c.release \in agreed[c.visitor]

LateInv ==
    \A r \in late :
        /\ r.release \in agreed[r.visitor]
        /\ \/ r.release.id < Current.id
           \/ r.key = key[r.visitor] /\ r.release = offer[r.visitor] /\ ~Undecided(r.visitor)

StageInv(v) ==
    /\ stage[v] \notin {"start", "done"} => offer[v].id < Current.id \/ offer[v] = Current
    /\ stage[v] = "changed" => offer[v].id < Current.id
    /\ stage[v] \in {"send", "resend", "inProgress", "last", "wait", "select"} => offer[v] \in agreed[v]
    /\ stage[v] \in {"wait", "select"} => \E c \in copies : c.visitor = v
    /\ stage[v] = "select" /\ order[v].wait = "yes" => \E c \in copies : c.visitor = v /\ c.install = "ready"
    /\ stage[v] # "done" => outcome[v] = "none"

\* Inductive: the properties above and what they rest on.
ForkingInv ==
    /\ ForkingTypeOK
    /\ CopiesInv /\ LateInv
    /\ \A v \in Visitors : StageInv(v)
    /\ OneCopy /\ NothingCreatedTrue /\ CopyIsReported /\ SelectedIsInstalled

\* Every command ends: requests are sent again only so often, and a person is
\* asked again only when there is a new release.
ForkingEnds == \A v \in Visitors : <>(stage[v] = "done")

\* How many more steps a command can take unless a release is published: an offer
\* that is no longer the current release costs another preview.
VisitorSteps(v) ==
    LET again == IF offer[v] = Current THEN 0 ELSE 6
    IN  CASE stage[v] = "start"      -> 8
          [] stage[v] = "changed"    -> 8
          [] stage[v] = "confirm"    -> 7 + again
          [] stage[v] = "send"       -> 6 + again
          [] stage[v] = "resend"     -> 5 + again
          [] stage[v] = "inProgress" -> 4 + again
          [] stage[v] = "last"       -> 3 + again
          [] stage[v] = "wait"       -> 2
          [] stage[v] = "select"     -> 1
          [] stage[v] = "done"       -> 0

\* However requests and answers are lost, late or repeated, each step of a command
\* brings it nearer to its end, and only a newer release sets it back.
ForkingBounded ==
    /\ [](\A v \in Visitors : VisitorSteps(v) \in 0 .. 13)
    /\ [][/\ \A v \in Visitors : ForkStep(v) \/ Cancel(v) => VisitorSteps(v)' < VisitorSteps(v)
          /\ Current' = Current => \A v \in Visitors : VisitorSteps(v)' <= VisitorSteps(v)]_forkingVars
=============================================================================
