----------------------------- MODULE MCLinking -----------------------------
(***************************************************************************)
(* An instance of Linking for TLC: two people, a checkout with one         *)
(* directory below its top.                                                *)
(***************************************************************************)
EXTENDS Linking, TLC

CONSTANTS below, q1, q2, q3

OneBelow == {below}

NamedBelow == [q \in Projects |-> below]

\* connect with and without a directory, a project and a name, and use.  With
\* the top as its directory connect does what it does in the top without one,
\* unless it is given the project.
SomeCommands ==
    {c \in Command :
        /\ c.project \in {"none", q1}
        /\ c.kind = "use" => c.dir # "none" /\ c.project # "none"
        /\ c.kind = "connect" /\ c.dir = Top => c.project # "none"}

\* q1 exists, the others are yet to be created; a linked directory was set up.
ScenarioInit ==
    /\ status = [q \in Projects |-> IF q = q1 THEN "active" ELSE "none"]
    /\ Init
    /\ env = link

Either == Permutations(People) \cup Permutations({q2, q3})

ScenarioSpec == ScenarioInit /\ [][Next]_vars
=============================================================================
