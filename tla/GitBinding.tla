----------------------------- MODULE GitBinding ----------------------------
(***************************************************************************)
(* The commands of `volcano git` that change a project (internal/cmd/git   *)
(* over internal/gitconnect), run by several people on one project: a      *)
(* command reads, resolves, asks, reads again and writes, and the API has  *)
(* no conditional write.                                                   *)
(*                                                                         *)
(* Simplifications.  Which repository a checkout pushes to is an input.    *)
(* Names are compared as GitHub does, without case.  What is only reported *)
(* after the write, the settings read for it included, is left out.        *)
(***************************************************************************)
EXTENDS GitServer

CONSTANTS
    People,   \* the commands
    Commands  \* what they may be, a subset of Command

Command == [kind : {"connect", "disconnect", "root-directory", "production-branch", "auto-deploy", "functions",
                    "frontend", "export", "cancel"},
            name : Names,                          \* connect: the repository asked for,
            given : {"yes", "no"},                 \* named on the command line rather than read from the checkout
            root : Roots \cup {"unnamed"},         \* connect, root-directory; frontend: its app root
            branch : Branches \cup {"unnamed"},    \* connect, production-branch, export
            on : {"on", "off"},                    \* auto-deploy, functions
            frontend : Frontends \cup {"none"}]    \* frontend

ASSUME GitBindingAssumption ==
    /\ Commands \subseteq Command
    /\ \A c \in Commands : c.kind \in {"root-directory", "frontend"} => c.root \in Roots

VARIABLES
    cmd,    \* what each command is
    at,     \* where it is
    seen,   \* the connection it read, and its UpdatedAt
    target, \* the repository it resolved
    held,   \* the settings it read
    agreed, \* history: the repository its user was shown and agreed about
    late,   \* history: it changed after the command's last look at it
    chosen, \* history: the settings as they were last chosen
    raced   \* history: settings were saved over a change the command had not seen

peopleVars == <<cmd, at, seen, target, held, agreed, late, chosen, raced>>
gitVars == <<gitServerVars, peopleVars>>

Place == {"source", "read", "resolve", "ask", "recheck", "write", "settings", "save", "done"}

Target == [repo : Repos, name : Names, installation : Installations, default : Branches \cup {"none"}]

NoTarget == [repo |-> "none"]

Choice == [auto : {"on", "off", "unset"}, functions : {"on", "off", "unset"},
           frontend : Frontends \cup {"none", "unset"}, appRoot : Roots]

TypeOK ==
    /\ GitServerTypeOK
    /\ cmd \in [People -> Commands]
    /\ at \in [People -> Place]
    /\ seen \in [People -> [binding : Binding \cup {Unbound}, updated : Nat]]
    /\ target \in [People -> Target \cup {NoTarget}]
    /\ held \in [People -> Settings]
    /\ agreed \in [People -> Repos \cup {"none"}]
    /\ late \in [People -> {"yes", "no"}]
    /\ chosen \in Choice
    /\ raced \in {"yes", "no"}

FirstPlace(c) ==
    CASE c.kind \in {"export", "cancel"} -> "source"
      [] c.kind \in {"root-directory", "production-branch"} -> "write"
      [] OTHER -> "read"

Goes(p, place) == at' = [at EXCEPT ![p] = place]

\* A step that changes nothing but where the command is.
Only(p) == UNCHANGED <<gitServerVars, cmd, seen, target, held, agreed, late, chosen, raced>>

\* A failed request, a refusal, or an answer of no ends the command.
Stops(p) == Goes(p, "done") /\ Only(p)

\* What changes is late for those who look no more before they write.
Overtakes(others) ==
    late' = [q \in People |->
               IF /\ q \in others
                  /\ \/ at[q] = "write" /\ binding' # binding
                     \/ at[q] = "save" /\ settings' # settings
               THEN "yes" ELSE late[q]]

(***************************************************************************)
(* A project anyone may find: connected or not, its settings saved or as   *)
(* connecting left them.                                                   *)
(***************************************************************************)
UnsavedSettings(connected) ==
    [auto |-> connected, functions |-> connected, frontend |-> "none", appRoot |-> ""]

Unset == [auto |-> "unset", functions |-> "unset", frontend |-> "unset", appRoot |-> ""]

ProjectInit ==
    /\ binding \in Binding \cup {Unbound}
    /\ updated = 0
    /\ repository \in [Repos -> Repository]
    /\ \A r, s \in Repos : r # s => repository[r].name # repository[s].name
    /\ source \in Source
    /\ source.mode # "platform" => Connected(binding)
    /\ \/ /\ own = "no" /\ chosen = Unset
          /\ settings \in {UnsavedSettings("on")} \cup IF Connected(binding) THEN {} ELSE {UnsavedSettings("off")}
       \/ own = "yes" /\ settings \in Settings /\ chosen = settings
    /\ settings.frontend = "none" => settings.appRoot = ""
    /\ events = 0

Init ==
    /\ ProjectInit
    /\ cmd \in [People -> Commands]
    /\ at = [p \in People |-> FirstPlace(cmd[p])]
    /\ seen = [p \in People |-> [binding |-> Unbound, updated |-> 0]]
    /\ target = [p \in People |-> NoTarget]
    /\ held = [p \in People |-> UnsavedSettings("off")]
    /\ agreed = [p \in People |-> "none"]
    /\ late = [p \in People |-> "no"]
    /\ raced = "no"

(***************************************************************************)
(* Reading and asking.                                                     *)
(***************************************************************************)
\* An export is refused once there is nothing to export, a cancellation when
\* none is unfinished.
ReadSource(p) ==
    /\ at[p] = "source"
    /\ CASE cmd[p].kind = "cancel" /\ source.mode \in {"exporting", "pending"} -> Goes(p, "ask")
         [] cmd[p].kind = "export" /\ source.mode \in {"platform", "exporting"} /\ source.exported = "no"
              -> Goes(p, "read")
         [] OTHER -> Goes(p, "done")
    /\ Only(p)

\* Mutant: a deploy setting is saved for a project that is not connected.
AfterReadSaves(c, b) ==
    CASE c.kind = "connect" -> "resolve"
      [] c.kind \in {"disconnect", "export"} -> IF Connected(b) THEN "ask" ELSE "done"
      [] OTHER -> "settings"

AfterRead(c, b) ==
    CASE c.kind = "connect" -> "resolve"
      [] c.kind # "connect" /\ ~Connected(b) -> "done"
      [] c.kind = "disconnect" /\ Connected(b) -> "ask"
      [] c.kind = "export" /\ Connected(b) -> IF c.branch \in {"unnamed", b.branch} THEN "ask" ELSE "done"
      [] OTHER -> "settings"

ReadBinding(p) ==
    /\ at[p] = "read"
    /\ seen' = [seen EXCEPT ![p] = [binding |-> binding, updated |-> updated]]
    /\ Goes(p, AfterRead(cmd[p], binding))
    /\ UNCHANGED <<gitServerVars, cmd, target, held, agreed, late, chosen, raced>>

Same(b, t) == Connected(b) /\ b.repo = t.repo

\* The branch asked for cannot be bound.
BranchRefused(c, b, t) ==
    \/ c.branch = "unnamed" /\ ~Same(b, t) /\ t.default = "none"
    \/ c.branch # "unnamed" /\ Same(b, t) /\ c.branch # b.branch
    \/ c.branch # "unnamed" /\ Connected(b) /\ ~Same(b, t) /\ t.default \notin {"none", c.branch}

\* Bound to the target exactly, apart from the root directory.
SameRepositoryBinding(b, t) ==
    /\ Same(b, t)
    /\ b.installation = t.installation
    /\ b.name = t.name
    /\ b.follows = "no" \/ b.branch = t.default

NothingToDo(c, b, t) == SameRepositoryBinding(b, t) /\ c.root \in {"unnamed", b.root}

\* Mutant: repositories are told apart by name.
ReplacingName(b, t) == Connected(b) /\ b.name # t.name

Replacing(b, t) == Connected(b) /\ b.repo # t.repo

AfterResolve(c, b, t) ==
    IF BranchRefused(c, b, t) \/ NothingToDo(c, b, t) THEN "done"
    ELSE IF Replacing(b, t) \/ (c.given = "yes" /\ ~Connected(b)) THEN "ask"
    ELSE "recheck"

\* Through any installation that lists it: the owner's is tried first, and one
\* that cannot be listed is passed over.
Resolve(p) ==
    /\ at[p] = "resolve"
    /\ \E r \in Repos : \E installation \in repository[r].installations :
         LET t == [repo |-> r, name |-> repository[r].name, installation |-> installation,
                   default |-> repository[r].default]
         IN /\ t.name = cmd[p].name
            /\ target' = [target EXCEPT ![p] = t]
            /\ Goes(p, AfterResolve(cmd[p], seen[p].binding, t))
    /\ UNCHANGED <<gitServerVars, cmd, seen, held, agreed, late, chosen, raced>>

\* Yes, or --yes, to a question that names the connection read.
Agree(p) ==
    /\ at[p] = "ask"
    /\ agreed' = [agreed EXCEPT ![p] = seen[p].binding.repo]
    /\ Goes(p, IF cmd[p].kind = "cancel" THEN "write" ELSE "recheck")
    /\ UNCHANGED <<gitServerVars, cmd, seen, target, held, late, chosen, raced>>

(***************************************************************************)
(* Reading again and writing.                                              *)
(***************************************************************************)
SameBinding(a, b) ==
    \/ ~Connected(a.binding) /\ ~Connected(b.binding)
    \/ Connected(a.binding) /\ a = b

ConfirmUnchanged(p) ==
    /\ at[p] = "recheck"
    /\ SameBinding([binding |-> binding, updated |-> updated], seen[p])
    /\ Goes(p, "write")
    /\ Only(p)

\* A root directory not asked for is kept for the same repository.
RootDirectoryFor(c, b, t) ==
    CASE c.root # "unnamed" -> c.root
      [] c.root = "unnamed" /\ Same(b, t) -> b.root
      [] OTHER -> ""

\* Mutant: a bind without a branch always follows the default.
BranchForgotten(c, b, t) == c.branch

\* And so is a pinned branch.
BranchFor(c, b, t) ==
    IF c.branch = "unnamed" /\ Same(b, t) /\ b.follows = "no" THEN b.branch ELSE c.branch

ConnectRequest(c, b, t) ==
    IF SameRepositoryBinding(b, t) THEN RootRequest(c.root)
    ELSE BindRequest(t.repo, t.installation, RootDirectoryFor(c, b, t), BranchFor(c, b, t))

Request(p) ==
    CASE cmd[p].kind = "connect" -> ConnectRequest(cmd[p], seen[p].binding, target[p])
      [] cmd[p].kind = "disconnect" -> UnbindRequest
      [] cmd[p].kind = "root-directory" -> RootRequest(cmd[p].root)
      [] cmd[p].kind = "production-branch" -> BranchRequest(cmd[p].branch)
      [] cmd[p].kind = "export" -> ExportRequest(seen[p].binding.branch)
      [] cmd[p].kind = "cancel" -> CancelRequest

\* The request is carried out, whether or not its answer arrives.
Write(p) ==
    /\ at[p] = "write"
    /\ Request(p)
    /\ Goes(p, "done")
    /\ Overtakes(People \ {p})
    /\ UNCHANGED <<cmd, seen, target, held, agreed, chosen, raced>>

(***************************************************************************)
(* A deploy setting is written back with the others as they were read.     *)
(***************************************************************************)
ReadSettings(p) ==
    /\ at[p] = "settings"
    /\ held' = [held EXCEPT ![p] = settings]
    /\ Goes(p, "save")
    /\ UNCHANGED <<gitServerVars, cmd, seen, target, agreed, late, chosen, raced>>

SettingsRequest(s) == [s EXCEPT !.appRoot = IF s.frontend = "none" THEN "" ELSE @]

Changed(c, s) ==
    CASE c.kind = "auto-deploy" -> [s EXCEPT !.auto = c.on]
      [] c.kind = "functions" -> [s EXCEPT !.functions = c.on]
      [] OTHER -> [s EXCEPT !.frontend = c.frontend, !.appRoot = IF c.frontend = "none" THEN "" ELSE c.root]

ChangeDeploySettings(p) ==
    /\ at[p] = "save"
    /\ SaveRequest(Changed(cmd[p], SettingsRequest(held[p])))
    /\ chosen' = Changed(cmd[p], chosen)
    /\ raced' = IF late[p] = "yes" THEN "yes" ELSE raced
    /\ Goes(p, "done")
    /\ Overtakes(People \ {p})
    /\ UNCHANGED <<cmd, seen, target, held, agreed>>

\* A request fails, the user declines or the re-read differs, or the command is
\* killed.
GivesUp(p) == at[p] # "done" /\ Stops(p)

Moves ==
    /\ GitHubMoves \/ HandsOver
    /\ Overtakes(People)
    /\ UNCHANGED <<cmd, at, seen, target, held, agreed, chosen, raced>>

Step(p) ==
    \/ ReadSource(p) \/ ReadBinding(p) \/ Resolve(p) \/ Agree(p) \/ ConfirmUnchanged(p) \/ Write(p)
    \/ ReadSettings(p) \/ ChangeDeploySettings(p) \/ GivesUp(p)

Next == Moves \/ \E p \in People : Step(p)

Spec == Init /\ [][Next]_gitVars

(***************************************************************************)
(* Properties.                                                             *)
(***************************************************************************)
Writes(p) == at[p] = "write" /\ at'[p] = "done" /\ late[p] = "no"

\* Unless the connection changes within the moment between the last read and the
\* write, pushes to a repository stop deploying, and the source is published to
\* one, only if the question answered yes, by the user or --yes, was about that
\* very repository (gitconnect.go:405-409, export.go:40-43; a name may by then be another's,
\* connect.go:178-186).
ReplacedAsAgreed ==
    [][\A p \in People :
         Writes(p) =>
           /\ Connected(binding) /\ binding'.repo # binding.repo => agreed[p] = binding.repo
           /\ cmd[p].kind = "export" /\ source' # source =>
                agreed[p] = binding.repo /\ binding = seen[p].binding]_gitVars

\* Connecting the repository that is connected, to pick up its new name or
\* installation or to move the root directory, keeps the root directory unless it
\* was asked for and the branch when it is pinned, also those another person has
\* just set (gitconnect.go:316-327, rootDirectoryFor).
ChoicesKept ==
    [][\A p \in People :
         /\ Writes(p) /\ cmd[p].kind = "connect"
         /\ Connected(binding) /\ binding'.repo = binding.repo
         =>
         /\ cmd[p].root = "unnamed" => binding'.root = binding.root
         /\ binding.follows = "no" => binding'.branch = binding.branch /\ binding'.follows = "no"]_gitVars

AsChosen ==
    [auto      |-> IF chosen.auto = "unset" THEN "on" ELSE chosen.auto,
     functions |-> IF chosen.functions = "unset" THEN "on" ELSE chosen.functions,
     frontend  |-> IF chosen.frontend = "unset" THEN "none" ELSE chosen.frontend,
     appRoot   |-> chosen.appRoot]

\* A connected project deploys what people last chose, each setting for itself,
\* and all of its code where nobody chose: no command reverts another's setting
\* but in the time two requests take (gitconnect.go:533-536), and none saves
\* settings in a way that keeps connecting from turning them on
\* (deploy_settings.go:53-57).
SettingsAsChosen == Connected(binding) /\ raced = "no" => settings = AsChosen

(***************************************************************************)
(* The inductive invariant.                                                *)
(***************************************************************************)
Confirmed == {"connect", "disconnect", "export"}

PlaceInv(p) ==
    CASE at[p] = "source" -> cmd[p].kind \in {"export", "cancel"}
      [] at[p] = "read" -> cmd[p].kind \notin {"root-directory", "production-branch", "cancel"}
      [] at[p] = "resolve" -> cmd[p].kind = "connect"
      [] at[p] = "ask" -> cmd[p].kind \in Confirmed \cup {"cancel"}
      [] at[p] = "recheck" -> cmd[p].kind \in Confirmed
      [] at[p] = "write" -> cmd[p].kind \in Confirmed \cup {"cancel", "root-directory", "production-branch"}
      [] at[p] \in {"settings", "save"} -> cmd[p].kind \in {"auto-deploy", "functions", "frontend"}
      [] OTHER -> TRUE

\* What the user is asked about is what was read.
AskedInv(p) ==
    at[p] \in {"ask", "recheck", "write"} =>
      /\ cmd[p].kind \in {"disconnect", "export"} => Connected(seen[p].binding)
      /\ cmd[p].kind = "connect" => /\ target[p] # NoTarget
                                    /\ ~BranchRefused(cmd[p], seen[p].binding, target[p])
                                    /\ ~NothingToDo(cmd[p], seen[p].binding, target[p])

AgreedInv(p) ==
    at[p] \in {"recheck", "write"} =>
      /\ cmd[p].kind \in {"disconnect", "export"} => agreed[p] = seen[p].binding.repo
      /\ cmd[p].kind = "connect" /\ Replacing(seen[p].binding, target[p]) => agreed[p] = seen[p].binding.repo

\* And what it was just before the write.
UnchangedInv(p) ==
    at[p] = "write" /\ cmd[p].kind \in Confirmed /\ late[p] = "no" => binding = seen[p].binding

\* Who writes settings found the project connected, and holds them as they are.
HeldInv(p) ==
    /\ at[p] \in {"settings", "save"} => own = "yes" \/ settings = UnsavedSettings("on")
    /\ at[p] = "save" /\ late[p] = "no" => held[p] = settings

SettingsInv ==
    /\ own = "no" => chosen = Unset /\ settings \in {UnsavedSettings("on"), UnsavedSettings("off")}
    /\ own = "no" /\ Connected(binding) => settings = UnsavedSettings("on")
    /\ own = "yes" /\ raced = "no" => settings = AsChosen
    /\ chosen.frontend \in {"none", "unset"} => chosen.appRoot = ""

GitInv ==
    /\ TypeOK
    /\ SettingsInv
    /\ \A p \in People : PlaceInv(p) /\ AskedInv(p) /\ AgreedInv(p) /\ UnchangedInv(p) /\ HeldInv(p)
=============================================================================
