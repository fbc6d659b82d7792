----------------------------- MODULE MCSharing -----------------------------
(***************************************************************************)
(* Instances of Sharing for TLC.                                           *)
(***************************************************************************)
EXTENDS Sharing

OneShare == {1}
TwoShares == {1, 2}

\* Two people or pipelines, one of them confirming with --yes.  Where consent is
\* taken or given does not depend on who confirms.
MixedCommands ==
    {c \in Command :
        /\ c.deploys = "no" /\ c.link = "newest"
        /\ c.kind = "off" \/ c.mode = "yes" => c.reshare = "keep"
        /\ c.kind = "off" => c.mode = "ask"}

AllCommands == {c \in Command : c.kind = "off" => c.mode = "ask" /\ c.deploys = "no" /\ c.reshare = "keep"}

CONSTANT other  \* one of the two Owners

Begin ==
    /\ picked = [o \in Owners |-> 0]
    /\ seen = [o \in Owners |-> "none"]
    /\ created = {}
    /\ draft = [o \in Owners |-> NoBuild]
    /\ confirmed = [o \in Owners |-> {}]
    /\ published = [o \in Owners |-> 0]
    /\ before = shares

\* One command of any kind and two shares: the other command was killed before
\* it did anything.
AloneInit ==
    /\ build = FirstBuild
    /\ cmd \in [Owners -> Commands] /\ cmd[other] = CHOOSE c \in Commands : c.kind = "off"
    /\ at = [o \in Owners |-> IF o = other THEN "done" ELSE "start"]
    /\ result = [o \in Owners |-> IF o = other THEN "killed" ELSE "none"]

\* Which of two commands is the other one makes no difference.
Rank(c) ==
    (IF c.kind = "off" THEN 6 ELSE IF c.mode = "yes" THEN 3 ELSE 0)
      + (IF c.reshare = "stop" THEN 2 ELSE IF c.reshare = "allow" THEN 1 ELSE 0)

\* Two commands on one share, of a project that changed since it was shared.
PairInit ==
    /\ build = [FirstBuild EXCEPT !.version = 2]
    /\ cmd \in [Owners -> MixedCommands] /\ \A o \in Owners : Rank(cmd[o]) =< Rank(cmd[other])
    /\ at = [o \in Owners |-> "start"]
    /\ result = [o \in Owners |-> "none"]
    /\ \A s \in ShareIds \ {1} : shares[s] = NoShare

\* Both begin in states SharingSafety reaches.
ScenarioInit ==
    /\ shares \in [ShareIds -> {NoShare} \cup
                     [status : {"active", "disabled"}, reshare : {"yes", "no"}, release : {FirstRelease}]]
    /\ \A s, t \in ShareIds : s < t /\ Exists(t) => Exists(s)
    /\ AloneInit \/ PairInit
    /\ Begin

ScenarioSpec ==
    ScenarioInit /\ [][SharingNext]_sharingVars /\ \A o \in Owners : WF_sharingVars(ShareStep(o))
=============================================================================
