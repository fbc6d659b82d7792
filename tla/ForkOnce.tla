------------------------------ MODULE ForkOnce ------------------------------
(***************************************************************************)
(* What `volcano fork` promises whoever follows a share link: an order for *)
(* the release the person confirmed, which the API carries out once at     *)
(* most, however its requests travel, and a truthful report of that.       *)
(*                                                                         *)
(* An order may be carried out after the report, unless the report is that *)
(* nothing was created.                                                    *)
(***************************************************************************)
EXTENDS Naturals

CONSTANTS Visitors, Release

VARIABLES
    offered,   \* the release of the link
    open,      \* [Visitors -> SUBSET Release]: the order the API may still carry out
    made,      \* [Visitors -> sets of [release, install]]: the copy, once there is one
    outcome,   \* what the command reported, "none" while it runs
    selected   \* the visitors whose cloud commands use the copy

onceVars == <<offered, open, made, outcome, selected>>

Init ==
    /\ offered \in Release
    /\ open = [v \in Visitors |-> {}] /\ made = open
    /\ outcome = [v \in Visitors |-> "none"]
    /\ selected = {}

\* A newer release: nobody gets a copy of an older one from now on.
Publish ==
    /\ offered' \in Release /\ offered'.id > offered.id
    /\ open' = [v \in Visitors |-> {}]
    /\ UNCHANGED <<made, outcome, selected>>

\* The person confirms the release; again only when there is no copy and none to come.
Confirm(v) ==
    /\ outcome[v] = "none" /\ open[v] = {} /\ made[v] = {}
    /\ open' = [open EXCEPT ![v] = {offered}]
    /\ UNCHANGED <<offered, made, outcome, selected>>

\* The API makes the copy ...
Make(v) ==
    /\ \E r \in open[v], install \in {"none", "queued"} :
         made' = [made EXCEPT ![v] = {[release |-> r, install |-> install]}]
    /\ open' = [open EXCEPT ![v] = {}]

\* ... or never will: the last request is lost.
Drop(v) == open' = [open EXCEPT ![v] = {}] /\ UNCHANGED made

Install(v) ==
    /\ \E c \in made[v], install \in {"ready", "failed"} :
         /\ c.install = "queued"
         /\ made' = [made EXCEPT ![v] = {[c EXCEPT !.install = install]}]
    /\ UNCHANGED <<offered, open, outcome, selected>>

\* What a report says of the copies, and of the order that is left.
Truthful(how, copies, order) ==
    CASE how = "ready"                                          -> \E c \in copies : c.install = "ready"
      [] how = "notInstalling"                                  -> \E c \in copies : c.install = "none"
      [] how = "installFailed"                                  -> \E c \in copies : c.install = "failed"
      [] how \in {"created", "continues", "notSelected", "inProgress"} -> copies # {}
      [] how \in {"changed", "declined"}                        -> copies = {} /\ order = {}
      [] how \in {"failed", "refused", "canceled"}              -> TRUE

Report(v) ==
    /\ outcome[v] = "none"
    /\ \E how \in {"ready", "notInstalling", "installFailed", "created", "continues", "notSelected", "inProgress",
                   "changed", "declined", "failed", "refused", "canceled"} :
         /\ Truthful(how, made'[v], open'[v])
         /\ outcome' = [outcome EXCEPT ![v] = how]
         /\ \/ UNCHANGED selected
            \/ how \in {"ready", "created"} /\ selected' = selected \cup {v}

\* A request is served, lost or answered, and the answer may end the command.
Act(v) ==
    /\ Make(v) \/ Drop(v) \/ UNCHANGED <<open, made>>
    /\ Report(v) \/ UNCHANGED <<outcome, selected>>
    /\ UNCHANGED offered

Next == Publish \/ \E v \in Visitors : Confirm(v) \/ Install(v) \/ Act(v)

Spec == Init /\ [][Next]_onceVars
=============================================================================
