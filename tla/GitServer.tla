----------------------------- MODULE GitServer -----------------------------
(***************************************************************************)
(* A project's repository connection, its deploy settings and its source   *)
(* of truth at the API, and GitHub behind it, as `volcano git` uses them.  *)
(* None of it is in this repository: what a request does is what the       *)
(* generated client's comments and the callers in internal/gitconnect      *)
(* rely on.                                                                *)
(***************************************************************************)
EXTENDS Naturals

CONSTANTS
    Repos,         \* the repositories' ids
    Names,         \* full names a repository may have
    Installations, \* ids of installations of the GitHub App
    Branches,
    Roots,         \* directories a project or a frontend may build from
    Frontends,
    MaxEvents      \* bound: how often GitHub, or the export, moves by itself

ASSUME GitServerAssumption ==
    /\ "none" \notin Repos \cup Branches \cup Frontends
    /\ "unnamed" \notin Branches \cup Roots
    /\ "unset" \notin Frontends
    /\ "" \in Roots \ Branches
    /\ MaxEvents \in Nat

VARIABLES
    binding,    \* the project's connection
    updated,    \* its UpdatedAt
    settings,   \* what a push deploys
    own,        \* the settings were saved: connecting leaves them alone
    source,     \* the mode of the source of truth, and whether ExportedAt is set
    repository, \* what GitHub knows of each repository
    events      \* the events so far

gitServerVars == <<binding, updated, settings, own, source, repository, events>>

Unbound == [repo |-> "none"]

\* The repository's name is recorded when it is connected.
Binding == [repo : Repos, name : Names, installation : Installations,
            root : Roots, branch : Branches, follows : {"yes", "no"}]

Settings == [auto : {"on", "off"}, functions : {"on", "off"}, frontend : Frontends \cup {"none"}, appRoot : Roots]

Source == [mode : {"platform", "exporting", "pending", "git"}, exported : {"yes", "no"}]

\* A repository without a commit has no default branch.
Repository == [name : Names, installations : SUBSET Installations, default : Branches \cup {"none"}]

GitServerTypeOK ==
    /\ binding \in Binding \cup {Unbound}
    /\ updated \in Nat
    /\ settings \in Settings
    /\ own \in {"yes", "no"}
    /\ source \in Source
    /\ repository \in [Repos -> Repository]
    /\ events \in Nat

Connected(b) == b.repo # "none"

\* UpdatedAt moves with the repository, the root directory and the branch.
Rebind(b) ==
    /\ binding' = b
    /\ updated' = IF /\ b.repo = binding.repo /\ b.root = binding.root
                     /\ b.branch = binding.branch /\ b.follows = binding.follows
                  THEN updated ELSE updated + 1

(***************************************************************************)
(* What the requests do.  A request whose condition does not hold is       *)
(* refused and changes nothing.                                            *)
(***************************************************************************)
\* PUT git-connection replaces the whole connection: without a branch it follows
\* the default.  Changing repository, it takes no branch but the default, and
\* none at all once the repository is the source of truth.
AcceptsBinding(r, branch) ==
    /\ binding.repo # r => source.mode # "git"
    /\ branch = "unnamed" => repository[r].default # "none"
    /\ Connected(binding) /\ binding.repo # r => branch \in {"unnamed", repository[r].default}
                                                   \/ repository[r].default = "none"

Bound(r, installation, root, branch) ==
    [repo |-> r, name |-> repository[r].name, installation |-> installation, root |-> root,
     branch |-> IF branch = "unnamed" THEN repository[r].default ELSE branch,
     follows |-> IF branch = "unnamed" THEN "yes" ELSE "no"]

\* Until they are saved, connecting turns on auto-deploy and functions.
BindRequest(r, installation, root, branch) ==
    /\ AcceptsBinding(r, branch)
    /\ Rebind(Bound(r, installation, root, branch))
    /\ settings' = IF own = "yes" THEN settings ELSE [settings EXCEPT !.auto = "on", !.functions = "on"]
    /\ UNCHANGED <<own, source, repository, events>>

RootRequest(root) ==
    /\ Connected(binding)
    /\ Rebind([binding EXCEPT !.root = root])
    /\ UNCHANGED <<settings, own, source, repository, events>>

BranchRequest(branch) ==
    /\ Connected(binding)
    /\ branch = "unnamed" => repository[binding.repo].default # "none"
    /\ Rebind([binding EXCEPT !.branch = IF branch = "unnamed" THEN repository[binding.repo].default ELSE branch,
                              !.follows = IF branch = "unnamed" THEN "yes" ELSE "no"])
    /\ UNCHANGED <<settings, own, source, repository, events>>

UnbindRequest ==
    /\ Connected(binding) /\ source.mode # "git"
    /\ Rebind(Unbound)
    /\ UNCHANGED <<settings, own, source, repository, events>>

SaveRequest(wanted) ==
    /\ wanted.frontend = "none" => wanted.appRoot = ""
    /\ settings' = wanted
    /\ own' = "yes"
    /\ UNCHANGED <<binding, updated, source, repository, events>>

\* The export names only the branch.  GitHub may not confirm the push.
ExportRequest(branch) ==
    /\ Connected(binding) /\ branch = binding.branch
    /\ source.mode \in {"platform", "exporting"} /\ source.exported = "no"
    /\ source' \in {[mode |-> "exporting", exported |-> "no"], [mode |-> "pending", exported |-> "yes"]}
    /\ UNCHANGED <<binding, updated, settings, own, repository, events>>

\* Canceled after its commit was reserved, the one export is used up.
CancelRequest ==
    /\ source.mode \in {"exporting", "pending"}
    /\ \E exported \in {source.exported, "yes"} : source' = [mode |-> "platform", exported |-> exported]
    /\ UNCHANGED <<binding, updated, settings, own, repository, events>>

(***************************************************************************)
(* What moves by itself.                                                   *)
(***************************************************************************)
\* A repository is renamed, or the App is uninstalled and installed again.
Renamed(r) ==
    \E name \in Names :
      /\ \A other \in Repos : repository[other].name # name
      /\ repository' = [repository EXCEPT ![r].name = name]

Reinstalled(r) ==
    \E installation \in Installations : repository' = [repository EXCEPT ![r].installations = {installation}]

\* Its default branch changes.  A connection that follows it may be moved at
\* once or when it is next replaced.
DefaultMoves(r) ==
    \E default \in Branches :
      /\ repository' = [repository EXCEPT ![r].default = default]
      /\ \/ UNCHANGED <<binding, updated>>
         \/ /\ binding.repo = r /\ binding.follows = "yes"
            /\ Rebind([binding EXCEPT !.branch = default])

GitHubMoves ==
    /\ events < MaxEvents /\ events' = events + 1
    /\ \E r \in Repos : DefaultMoves(r) \/ (UNCHANGED <<binding, updated>> /\ (Renamed(r) \/ Reinstalled(r)))
    /\ UNCHANGED <<settings, own, source>>

\* The deployment of the exported commit succeeds.
HandsOver ==
    /\ events < MaxEvents /\ events' = events + 1
    /\ source.mode = "pending"
    /\ source' = [source EXCEPT !.mode = "git"]
    /\ UNCHANGED <<binding, updated, settings, own, repository>>
=============================================================================
