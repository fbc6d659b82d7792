---------------------------- MODULE MCGitBinding ---------------------------
(***************************************************************************)
(* The instance of GitBinding for TLC: two commands on a project that is   *)
(* not connected, or connected to r1, possibly under a name r1 had before  *)
(* and r2 has now.                                                         *)
(***************************************************************************)
EXTENDS GitBinding, TLC

CONSTANTS r1, r2, a, b, c, main, dev, web

RootDirectories == {"", "app"}

\* What a kind of command takes no notice of is fixed.
SomeCommands ==
    {d \in Command :
        /\ d.name # c
        /\ d.kind = "connect" => d.root # "" /\ (d.given = "yes" => d.root = "unnamed" /\ d.branch = "unnamed")
        /\ d.kind # "connect" => d.name = a /\ d.given = "no"
        /\ d.kind \notin {"connect", "root-directory", "frontend"} => d.root = "unnamed"
        /\ d.kind = "root-directory" => d.root \in RootDirectories
        /\ d.kind \notin {"connect", "production-branch"} => d.branch = "unnamed"
        /\ d.kind # "auto-deploy" => d.on = "off"
        /\ d.kind # "frontend" => d.frontend = "none"
        /\ d.kind = "frontend" => d.root = IF d.frontend = "none" THEN "" ELSE "app"}

Known(name, default) == [name |-> name, installations |-> {1}, default |-> default]

Asked(kinds) == \E p \in People : cmd[p].kind \in kinds

SettingAsked == Asked({"auto-deploy", "functions", "frontend"})

\* The two commands, and then a project of which they can tell the difference.
ScenarioInit ==
    /\ cmd \in [People -> Commands]
    /\ Asked({"cancel"}) => Asked({"export"})
    /\ repository \in {(r1 :> Known(a, main)) @@ (r2 :> Known(b, default)) : default \in {main, "none"}}
    /\ repository[r2].default = "none" => \E p \in People : cmd[p].kind = "connect" /\ cmd[p].name = b
    /\ binding \in {Unbound} \cup [repo : {r1}, name : {a, b}, installation : {1}, root : Roots,
                                   branch : Branches, follows : {"yes", "no"}]
    /\ Connected(binding) =>
         /\ binding.follows = "yes" => binding.branch = main
         /\ binding.name = b => Asked({"connect"}) /\ ~SettingAsked
    /\ own \in {"no"} \cup IF SettingAsked THEN {"yes"} ELSE {}
    /\ settings = IF own = "yes" THEN [auto |-> "off", functions |-> "on", frontend |-> web, appRoot |-> "app"]
                  ELSE UnsavedSettings(IF Connected(binding) THEN "on" ELSE "off")
    /\ chosen = IF own = "yes" THEN settings ELSE Unset
    /\ source = [mode |-> "platform", exported |-> "no"]
    /\ Init

Either == Permutations(People)

ScenarioSpec == ScenarioInit /\ [][Next]_gitVars
=============================================================================
