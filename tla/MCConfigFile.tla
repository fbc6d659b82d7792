---------------------------- MODULE MCConfigFile ----------------------------
(***************************************************************************)
(* Instances of ConfigFile for TLC.                                        *)
(***************************************************************************)
EXTENDS ConfigFile, TLC

Symmetry == Permutations(Process)

\* Commands that change the login, the selections and the choices, and one that
\* sends a report.
MixedCommands == {"report", "login", "alias", "unalias", "logout", "telemetryOff", "feedbackOn"}

\* Commands that turn usage data on and off.
ChoiceCommands == {"none", "telemetryOff", "logout"}

\* Commands that turn feedback reports off, and one that sends them.
FeedbackCommands == {"report", "login", "telemetryOff", "feedbackOff"}

UsageCommands == ChoiceCommands \cup FeedbackCommands

Started == {p \in Process : pc[p] # "idle"}

\* Two scenarios in one run: four processes, at most two of which change what is
\* said about usage data, or three about feedback reports.
OneScenario ==
    \/ /\ \A p \in Started : command[p] \in ChoiceCommands
       /\ Cardinality({p \in Started : command[p] # "none"}) <= 2
    \/ Cardinality(Started) <= 3 /\ \A p \in Started : command[p] \in FeedbackCommands
=============================================================================
