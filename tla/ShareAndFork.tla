---------------------------- MODULE ShareAndFork ----------------------------
(***************************************************************************)
(* Owners and visitors together: the owners' commands are those of         *)
(* Sharing, the visitors' those of Forking, and both work on the shares of *)
(* one project.                                                            *)
(***************************************************************************)
EXTENDS Sharing, Forking

vars == <<serverVars, ownerVars, visitorVars>>

Init == SharingInit /\ VisitorInit

OwnerActs ==
    /\ \E o \in Owners : ShareStep(o) \/ Kill(o)
    /\ UNCHANGED visitorVars

ProjectChanges == Change /\ UNCHANGED <<ownerVars, visitorVars>>

VisitorActs ==
    /\ (\E v \in Visitors : ForkStep(v) \/ Cancel(v)) \/ ApiStep
    /\ UNCHANGED ownerVars

Done ==
    /\ \A o \in Owners : at[o] = "done"
    /\ \A v \in Visitors : stage[v] = "done"
    /\ UNCHANGED vars

Next == OwnerActs \/ ProjectChanges \/ VisitorActs \/ Done

Spec == Init /\ [][Next]_vars

\* Every command that runs is scheduled, and its person answers.
FairSpec ==
    /\ Spec
    /\ \A o \in Owners : WF_vars(ShareStep(o) /\ UNCHANGED visitorVars)
    /\ \A v \in Visitors : WF_vars(ForkStep(v) /\ UNCHANGED ownerVars)

\* Everybody who must agree has: what a copy is made of was confirmed by an
\* owner before it was published, or was published before, and by the visitor
\* before it was copied, whatever was deployed and published in between.
CopiesConfirmed ==
    \A c \in copies :
        /\ c.release \in agreed[c.visitor]
        /\ c.release = before[Link].release \/ \E o \in Owners : Covers(o, c.release.build)
=============================================================================
