------------------------------- MODULE Linking -------------------------------
(***************************************************************************)
(* Directories and the projects they are linked to: `volcano connect`,     *)
(* and `volcano use` inside a linked directory.  A link                    *)
(* (.volcano/project.json) says which project the commands run in a        *)
(* directory are about, and the directory's volcano/cloud.env holds that   *)
(* project's anon key for its deploys.  Nothing locks either file.         *)
(*                                                                         *)
(* Several people, or a person and a coding agent, run commands in one     *)
(* checkout.  Who gets an error runs the command the message gives, and    *)
(* the same command again when it gives none.                              *)
(*                                                                         *)
(* Simplifications.  connect is run at the top of the checkout.  A login   *)
(* that selects a project in a linked directory is a `use`.  No            *)
(* VOLCANO_PROJECT_ID is set.  The scaffold, .gitignore, AGENTS.md and the *)
(* skills matter only in that they may fail.                               *)
(***************************************************************************)
EXTENDS Naturals

CONSTANTS
    People,
    Projects,
    Top,        \* the top of the checkout
    Below,      \* directories in it
    NameDir,    \* the directory that connect names after a project
    Commands,   \* the commands people set out to run
    MaxRuns,    \* bound: how many commands are run
    MaxEvents   \* bound: how many projects fail or are deleted

Dirs == {Top} \cup Below

\* connect [dir] [--project project | --name], or use project, run in dir.
Command ==
    {c \in [kind : {"connect", "use"}, dir : Dirs \cup {"none"}, project : Projects \cup {"none"}, named : {"yes", "no"}] :
        c.project = "none" \/ c.named = "no"}

\* No command in particular.
AnyCommand == [kind |-> "connect", dir |-> "none", project |-> "none", named |-> "any"]

ASSUME LinkingAssumption ==
    /\ Top \notin Below
    /\ "none" \notin Projects \cup Dirs /\ "bad" \notin Projects
    /\ NameDir \in [Projects -> Below]
    /\ Commands \subseteq {c \in Command : c.kind = "use" => c.dir # "none" /\ c.project # "none"}
    /\ MaxRuns \in Nat /\ MaxEvents \in Nat

VARIABLES
    status,     \* the projects' statuses; "gone" once deleted
    contents,   \* what is in each directory
    link,       \* each directory's link; "bad" when it cannot be used
    env,        \* the project whose anon key is in its cloud.env
    events,
    cmd,        \* each person's command
    at,         \* and where it is
    seen,       \* the link it read last
    target,     \* connect: what it sets up
    next,       \* what the person runs next
    runs,
    made,       \* history: the projects each person created on the way to what it set out
                \* to do and was told of, while nobody else took them out of a link
    late,       \* history: people whose directory was relinked while they were at it
    cut,        \* history: directories with a key that a killed command was to replace
    raced       \* history: directories written by somebody late

files == <<contents, link, env>>
server == <<status, events>>
job == <<cmd, at, seen, target, next>>
history == <<late, cut, raced>>
vars == <<files, server, job, runs, made, history>>

Place == {"idle", "signIn", "look", "get", "place", "create", "prepare", "wait", "previous", "link", "setUp",
          "resolve", "select", "refresh"}

Seen == [dir : Dirs \cup {"none"}, project : Projects \cup {"none"}]

NoLink == [dir |-> "none", project |-> "none"]

Target == [dir : Dirs \cup {"none"}, project : Projects \cup {"none"}, created : {"yes", "no"}, ready : {"yes", "no"}]

NoTarget == [dir |-> "none", project |-> "none", created |-> "no", ready |-> "no"]

TypeOK ==
    /\ status \in [Projects -> {"none", "provisioning", "active", "failed", "deleting", "gone"}]
    /\ contents \in [Dirs -> {"missing", "empty", "files"}]
    /\ link \in [Dirs -> Projects \cup {"none", "bad"}]
    /\ env \in [Dirs -> Projects \cup {"none"}]
    /\ events \in 0..MaxEvents
    /\ cmd \in [People -> Command \cup {AnyCommand}]
    /\ at \in [People -> Place]
    /\ seen \in [People -> Seen]
    /\ target \in [People -> Target]
    /\ next \in [People -> Command \cup {AnyCommand}]
    /\ runs \in 0..MaxRuns
    /\ made \in [People -> SUBSET Projects]
    /\ late \subseteq People /\ cut \subseteq Dirs /\ raced \subseteq Dirs

\* The top has files; a linked directory has.  A key that connect wrote to
\* cloud.env is the linked project's.
Init ==
    /\ status \in [Projects -> {"none", "active"}]
    /\ contents \in [Dirs -> {"missing", "files"}] /\ contents[Top] = "files"
    /\ link \in [Dirs -> Projects \cup {"none"}]
    /\ \A d \in Dirs : link[d] # "none" => status[link[d]] = "active" /\ contents[d] = "files"
    /\ env \in {[d \in Dirs |-> "none"], link}
    /\ events = 0
    /\ at = [p \in People |-> "idle"]
    /\ seen = [p \in People |-> NoLink]
    /\ target = [p \in People |-> NoTarget]
    /\ cmd = [p \in People |-> AnyCommand] /\ next = cmd
    /\ runs = 0
    /\ made = [p \in People |-> {}]
    /\ late = {} /\ cut = {} /\ raced = {}

Set(f, p, value) == [f EXCEPT ![p] = value]

\* The command moves on, to set up t.
Moves(p, place, t) ==
    /\ at' = Set(at, p, place) /\ target' = Set(target, p, t)
    /\ UNCHANGED <<cmd, seen, next>>

\* The command ends, and the person's next one is n.
Halts(p, n) ==
    /\ at' = Set(at, p, "idle") /\ target' = Set(target, p, NoTarget)
    /\ cmd' = Set(cmd, p, AnyCommand) /\ seen' = Set(seen, p, NoLink)
    /\ next' = Set(next, p, n)

Go(p, place, t) == Moves(p, place, t) /\ UNCHANGED made

Stops(p, n) == Halts(p, n) /\ made' = IF n = AnyCommand THEN Set(made, p, {}) ELSE made

Usable(q) == status[q] \in {"provisioning", "active"}

Exists(q) == status[q] \in {"provisioning", "active", "failed", "deleting"}

(***************************************************************************)
(* config.FindLink: the link of the directory, or the one above it.        *)
(***************************************************************************)
Linked(d) == link[d] # "none"

FindLink(d) ==
    IF Linked(d) THEN [dir |-> d, project |-> link[d]]
    ELSE IF Linked(Top) THEN [dir |-> Top, project |-> link[Top]] ELSE NoLink

\* A link that cannot be used counts as none for connect, once it may replace it.
UsableLink(d) == IF FindLink(d).project = "bad" THEN NoLink ELSE FindLink(d)

Asked(c) == c.project # "none" \/ c.named = "yes"

\* The directory set up, when it is not named after a project.
Start(c) == IF c.dir = "none" THEN Top ELSE c.dir

(***************************************************************************)
(* What messages tell the person to run.                                   *)
(***************************************************************************)
Connect(dir, project) == [kind |-> "connect", dir |-> dir, project |-> project, named |-> "no"]

\* createdProjectError.
UnlinkedHint(p) ==
    IF target[p].created = "yes" THEN Connect(target[p].dir, target[p].project) ELSE cmd[p]

\* Mutant: the project just created is not named.
NoHint(p) == cmd[p]

\* waitUntilActive failed, but the project may still become active.
WaitHint(p) == UnlinkedHint(p)

\* linkedProjectError: from the top, a rerun finds only the top's own link.
LinkedHint(p) ==
    IF target[p].created = "yes" /\ target[p].dir # Top THEN Connect(target[p].dir, "none") ELSE cmd[p]

\* Mutant: the message does not say where to run connect.
HintAnywhere(d) == Connect("none", "none")

\* ReportCloudEnv: the key of a directory that was relinked could not be replaced.
RefreshHint(d) == Connect(d, "none")

(***************************************************************************)
(* Starting.  connect checks the link before it signs in; use reads it     *)
(* with the config.                                                        *)
(***************************************************************************)
BadLink(c) == link[Start(c)] = "bad" /\ ~Asked(c)
NameIgnored(c) == link[Start(c)] \in Projects /\ c.named = "yes"

\* Another command is begun once nothing is left to run again.
Begin(p) ==
    /\ at[p] = "idle" /\ runs < MaxRuns
    /\ runs' = runs + 1
    /\ late' = late \ {p}
    /\ \E c \in IF next[p] = AnyCommand THEN Commands ELSE {next[p]} :
         LET f == FindLink(c.dir)
             goes == IF c.kind = "connect" THEN ~BadLink(c) /\ ~NameIgnored(c) ELSE f.project \in Projects
         IN \/ /\ goes
               /\ cmd' = Set(cmd, p, c)
               /\ at' = Set(at, p, IF c.kind = "connect" THEN "signIn" ELSE "resolve")
               /\ seen' = IF c.kind = "connect" THEN seen ELSE Set(seen, p, f)
               /\ UNCHANGED <<target, next, made>>
            \/ ~goes /\ Stops(p, IF c.kind = "connect" /\ NameIgnored(c) THEN Connect(c.dir, "none") ELSE AnyCommand)
    /\ UNCHANGED <<files, server, cut, raced>>

SignIn(p) ==
    /\ at[p] = "signIn"
    /\ \/ cmd[p].project = "none" /\ Go(p, "look", NoTarget)
       \/ cmd[p].project # "none" /\ Go(p, "get", [NoTarget EXCEPT !.dir = cmd[p].dir, !.project = cmd[p].project])
       \/ Stops(p, cmd[p])
    /\ UNCHANGED <<files, server, runs, history>>

(***************************************************************************)
(* resolveTarget.                                                          *)
(***************************************************************************)
\* Without --project: the directory's own link is kept, else there is a new
\* project; in a directory named after it when nothing says which.
Look(p) ==
    /\ at[p] = "look"
    /\ LET c == cmd[p]
           d == Start(c)
           known == link[d] \in Projects
       IN \/ BadLink(c) /\ Stops(p, AnyCommand)
          \/ known /\ Go(p, "get", [NoTarget EXCEPT !.dir = d, !.project = link[d]])
          \/ /\ ~BadLink(c) /\ ~known
             /\ Go(p, "create", [NoTarget EXCEPT !.dir = IF c.dir = "none" /\ ~Linked(d) THEN "none" ELSE d])
    /\ UNCHANGED <<files, server, runs, history>>

Ready(q) == IF status[q] = "active" THEN "yes" ELSE "no"

\* Mutant: any error of the lookup replaces the linked project.
AnyError(p) == cmd[p].project = "none"

\* A linked project that no longer exists is replaced.
Replaceable(p) == cmd[p].project = "none" /\ ~Exists(target[p].project)

\* GetProject.
Get(p) ==
    /\ at[p] = "get"
    /\ LET t == target[p]
       IN \/ /\ Exists(t.project)
             /\ Go(p, IF t.dir = "none" THEN "place" ELSE "prepare", [t EXCEPT !.ready = Ready(t.project)])
          \/ Replaceable(p) /\ Go(p, "create", t)
          \/ ~Exists(t.project) /\ ~Replaceable(p) /\ Stops(p, AnyCommand)
          \/ Stops(p, cmd[p])
    /\ UNCHANGED <<files, server, runs, history>>

\* --project without a directory.  A directory linked to another project, or
\* with files and no link, is left alone.
PlaceProject(p) ==
    /\ at[p] = "place"
    /\ LET t == target[p]
           d == NameDir[t.project]
           own == link[d] \in Projects
           foreign == own /\ link[d] # t.project
           taken == ~own /\ contents[d] = "files"
       IN IF link[Top] = t.project THEN Go(p, "prepare", [t EXCEPT !.dir = Top])
          ELSE \/ foreign /\ Stops(p, AnyCommand)
               \/ taken /\ Stops(p, Connect(d, t.project))
               \/ ~foreign /\ ~taken /\ Go(p, "prepare", [t EXCEPT !.dir = d])
    /\ UNCHANGED <<files, server, runs, history>>

\* createProject: the first name that is not taken, by a project or, for a
\* directory named after it, by a file.  The answer may be lost.
Create(p) ==
    /\ at[p] = "create"
    /\ \/ \E q \in Projects, s \in {"provisioning", "active"} :
            LET d == IF target[p].dir = "none" THEN NameDir[q] ELSE target[p].dir
            IN /\ status[q] = "none"
               /\ target[p].dir = "none" => contents[d] = "missing"
               /\ status' = Set(status, q, s)
               /\ \/ /\ Moves(p, "prepare", [dir |-> d, project |-> q, created |-> "yes",
                                             ready |-> IF s = "active" THEN "yes" ELSE "no"])
                     /\ made' = Set(made, p, made[p] \cup {q})
                  \/ Stops(p, cmd[p])
       \/ Stops(p, cmd[p]) /\ UNCHANGED status
    /\ UNCHANGED <<files, events, runs, history>>

(***************************************************************************)
(* The rest of connect.                                                    *)
(***************************************************************************)
\* The directory is made, and its files checked again.  What is wrong with the
\* starter's files is reported without the project's name.
Prepare(p) ==
    /\ at[p] = "prepare"
    /\ LET t == target[p]
       IN \/ Stops(p, UnlinkedHint(p)) /\ UNCHANGED contents
          \/ /\ contents' = IF contents[t.dir] = "missing" THEN Set(contents, t.dir, "empty") ELSE contents
             /\ \/ Go(p, IF t.ready = "yes" THEN "previous" ELSE "wait", t)
                \/ Stops(p, UnlinkedHint(p))
                \/ Halts(p, cmd[p]) /\ made' = Set(made, p, {})
    /\ UNCHANGED <<link, env, server, runs, history>>

\* waitUntilActive: a poll, or its time is over.
Wait(p) ==
    /\ at[p] = "wait"
    /\ LET s == status[target[p].project]
       IN \/ s = "active" /\ Go(p, "previous", target[p])
          \/ s \in {"failed", "deleting"} /\ Stops(p, cmd[p])
          \/ Stops(p, WaitHint(p))
    /\ UNCHANGED <<files, server, runs, history>>

\* What the directory is linked to now, and the entries in .gitignore.
Previous(p) ==
    /\ at[p] = "previous"
    /\ LET d == target[p].dir
           written == Set(contents, d, "files")
       IN \/ /\ contents' = written
             /\ at' = Set(at, p, "link") /\ seen' = Set(seen, p, UsableLink(d))
             /\ UNCHANGED <<cmd, target, next, made>>
          \/ contents' \in {contents, written} /\ Stops(p, UnlinkedHint(p))
    /\ UNCHANGED <<link, env, server, runs, history>>

DirOf(r) == IF cmd[r].kind = "use" THEN seen[r].dir ELSE target[r].dir

\* A link that changes is news to the others at work on the directory, and to
\* the one whose new project it named; one that could not be used named any.
Relinks(p, d, mine) ==
    LET changed == link'[d] # link[d] IN
    /\ late' = late \cup {r \in People \ {p} : changed /\ at[r] # "idle" /\ DirOf(r) = d}
    /\ made' = [r \in People |-> IF r = p THEN mine
                               ELSE IF changed THEN IF link[d] = "bad" THEN {} ELSE made[r] \ {link[d]}
                               ELSE made[r]]

\* WriteLink.  A write that fails may leave half of a file.
WriteLink(p, d, project) ==
    /\ link' = Set(link, d, project)
    /\ contents' = Set(contents, d, "files")
    /\ raced' = IF p \in late THEN raced \cup {d} ELSE raced

Half(d) == {link, Set(link, d, "bad")}

\* The project a message says was linked before: only a relink to a project
\* that exists already is news to the person.
Undo(p) ==
    IF target[p].created = "no" /\ seen[p] \notin {NoLink, [dir |-> target[p].dir, project |-> target[p].project]}
       /\ seen[p].dir = target[p].dir
    THEN seen[p].project ELSE "none"

Link(p) ==
    /\ at[p] = "link"
    /\ LET t == target[p]
       IN /\ \/ WriteLink(p, t.dir, t.project) /\ Moves(p, "setUp", t)
             \/ link' \in Half(t.dir) /\ Halts(p, UnlinkedHint(p)) /\ UNCHANGED <<contents, raced>>
          /\ Relinks(p, t.dir, made[p])
    /\ UNCHANGED <<env, server, runs, cut>>

\* Upsert over os.WriteFile: a failed write may leave no key in the file.
EnvWritten(p, d, project) ==
    /\ env' = Set(env, d, project)
    /\ cut' = cut \ {d}
    /\ raced' = IF p \in late THEN raced \cup {d} ELSE raced \ {d}

EnvFails(d) ==
    /\ env' \in {env, Set(env, d, "none")}
    /\ UNCHANGED <<cut, raced>>

\* The scaffold, the anon key, cloud.env, AGENTS.md.
SetUp(p) ==
    /\ at[p] = "setUp"
    /\ LET t == target[p]
       IN \/ EnvFails(t.dir) /\ Stops(p, LinkedHint(p))
          \/ EnvWritten(p, t.dir, t.project) /\ Stops(p, LinkedHint(p))
          \/ EnvWritten(p, t.dir, t.project) /\ Stops(p, AnyCommand)
    /\ UNCHANGED <<contents, link, server, runs, late>>

(***************************************************************************)
(* use, inside a linked directory.                                         *)
(***************************************************************************)
Resolve(p) ==
    /\ at[p] = "resolve"
    /\ \/ Exists(cmd[p].project) /\ Go(p, "select", NoTarget)
       \/ Stops(p, AnyCommand)
    /\ UNCHANGED <<files, server, runs, history>>

\* SelectInLink: the same project keeps its cloud.env.
SameProject(p) == seen[p].project = cmd[p].project

Select(p) ==
    /\ at[p] = "select"
    /\ LET d == seen[p].dir
       IN /\ \/ /\ WriteLink(p, d, cmd[p].project)
                /\ IF SameProject(p) THEN Halts(p, AnyCommand) ELSE Moves(p, "refresh", NoTarget)
             \/ link' \in Half(d) /\ Halts(p, AnyCommand) /\ UNCHANGED <<contents, raced>>
          /\ Relinks(p, d, {})
    /\ UNCHANGED <<env, server, runs, cut>>

\* refreshCloudEnv: only a key that connect wrote is replaced.  A failure is a
\* warning that says what to run.
Refresh(p) ==
    /\ at[p] = "refresh"
    /\ LET d == seen[p].dir
       IN \/ env[d] = "none" /\ Stops(p, AnyCommand) /\ UNCHANGED <<env, cut, raced>>
          \/ env[d] # "none" /\ EnvWritten(p, d, cmd[p].project) /\ Stops(p, AnyCommand)
          \/ EnvFails(d) /\ Stops(p, RefreshHint(d))
    /\ UNCHANGED <<contents, link, server, runs, late>>

(***************************************************************************)
(* Everything else.                                                        *)
(***************************************************************************)
\* Command c is a connect that writes the key of the project d is linked to.
Repairs(c, d) ==
    /\ c # AnyCommand /\ c.kind = "connect"
    /\ \/ c.project = "none" /\ Start(c) = d
       \/ c.project = link[d] /\ c.dir = d

\* Somebody is on the way to the key of the project d is linked to: has been told
\* what to run, runs it, or has just linked d; and nobody has relinked d meanwhile.
Mends(p, d) ==
    LET t == target[p] IN
    \/ at[p] = "idle" /\ Repairs(next[p], d)
    \/ /\ p \notin late
       /\ \/ at[p] \in {"signIn", "look"} /\ Repairs(cmd[p], d)
          \/ /\ at[p] \in {"get", "prepare", "wait", "previous", "link", "setUp"} /\ t.dir = d
             /\ IF t.created = "yes" THEN at[p] = "setUp" ELSE Repairs(cmd[p], d)
          \/ at[p] = "refresh" /\ seen[p].dir = d

\* The directory deploys a project with another one's key.
Stale(d) == link[d] \in Projects /\ Exists(link[d]) /\ env[d] \notin {"none", link[d]}

\* A command is killed, during a write too.  It says nothing.
Killed(p) ==
    /\ at[p] # "idle"
    /\ Halts(p, AnyCommand)
    /\ LET d == DirOf(p)
       IN \/ at[p] \in {"link", "select"} /\ link' \in Half(d) /\ Relinks(p, d, {}) /\ UNCHANGED env
          \/ /\ at[p] \in {"setUp", "refresh"} /\ env' \in {env, Set(env, d, "none")}
             /\ made' = Set(made, p, {}) /\ UNCHANGED <<link, late>>
          \/ /\ at[p] \notin {"link", "select", "setUp", "refresh"}
             /\ made' = Set(made, p, {}) /\ UNCHANGED <<link, env, late>>
    /\ cut' = cut \cup {e \in Dirs : Stale(e) /\ Mends(p, e)}
    /\ UNCHANGED <<contents, server, runs, raced>>

\* A new project becomes active.
Activated ==
    /\ \E q \in Projects : status[q] = "provisioning" /\ status' = Set(status, q, "active")
    /\ UNCHANGED events

\* Or fails, or is deleted by somebody.
Lose ==
    /\ events < MaxEvents /\ events' = events + 1
    /\ \E q \in Projects :
         \/ status[q] = "provisioning" /\ status' = Set(status, q, "failed")
         \/ status[q] = "active" /\ status' \in {Set(status, q, "failed"), Set(status, q, "deleting")}

Deleted ==
    /\ \E q \in Projects : status[q] = "deleting" /\ status' = Set(status, q, "gone")
    /\ UNCHANGED events

ProjectsMove ==
    /\ Activated \/ Lose \/ Deleted
    /\ UNCHANGED <<files, job, runs, made, history>>

Step(p) ==
    \/ Begin(p) \/ SignIn(p) \/ Look(p) \/ Get(p) \/ PlaceProject(p) \/ Create(p) \/ Prepare(p) \/ Wait(p)
    \/ Previous(p) \/ Link(p) \/ SetUp(p) \/ Resolve(p) \/ Select(p) \/ Refresh(p) \/ Killed(p)

Next == ProjectsMove \/ \E p \in People : Step(p)

Spec == Init /\ [][Next]_vars

(***************************************************************************)
(* Properties.                                                             *)
(***************************************************************************)
\* Whoever does as the messages say gets one project: whatever fails between the
\* request that creates it and the end of the setup, running the command that is
\* given, or the same one again, makes no second one (connect.go:602-617).  Not
\* counted: a project whose answer was lost, that failed or was deleted, that
\* another person took out of the directory's link, or whose starter stopped
\* fitting meanwhile, and what somebody does after killing a command.
OneProjectEach ==
    \A p \in People : \A q, r \in made[p] : Usable(q) /\ Usable(r) => q = r

TakesAway(p) ==
    LET d == target[p].dir IN
    /\ at[p] = "link" /\ at'[p] = "setUp" /\ p \notin late
    /\ link[d] \in Projects /\ Exists(link[d]) /\ link'[d] # link[d]

\* connect takes a directory away from a project that exists only when it was
\* given both the directory and the project, and then says which project it was
\* (connect.go:258-259, 287-291).  Not when another command relinks the directory
\* at the same time: nothing locks a link.
RelinkedAsAsked ==
    [][\A p \in People :
         TakesAway(p) => cmd[p].dir # "none" /\ cmd[p].project # "none" /\ Undo(p) = link[target[p].dir]]_vars

\* The anon key in a directory's cloud.env is the linked project's, so that a
\* deploy with it does not upload another project's (cloudenv.go:46-48), or the
\* command that makes it so runs or is the one somebody was told to run next:
\* across every relink, failed write and rerun.  Not after a command on its way to
\* the key was killed, which says nothing (a repeated use then keeps the old key,
\* project.go:246-250), nor after two commands relinked the directory at once; but
\* even then again from the next key written there, by a command on its own.
EnvFollowsLink ==
    \A d \in Dirs : Stale(d) => d \in cut \cup raced \/ \E p \in People : Mends(p, d)

(***************************************************************************)
(* The inductive invariant behind the properties.                          *)
(***************************************************************************)
Using == {"resolve", "select", "refresh"}

Placed == {"prepare", "wait", "previous", "link", "setUp"}

\* Where a command is tells what it is about.
PlaceOf(p) ==
    LET c == cmd[p]
        t == target[p]
    IN /\ at[p] = "idle" => next[p].kind = "connect" /\ (next[p] = AnyCommand => made[p] = {})
       /\ at[p] # "idle" => c # AnyCommand
       /\ at[p] \notin Using => c.kind = "connect"
       /\ at[p] \in Using => c.kind = "use" /\ c.project \in Projects /\ seen[p].dir \in Dirs /\ made[p] = {}
       /\ at[p] \in {"select", "refresh"} => status[c.project] # "none"
       /\ at[p] \in {"idle", "signIn", "look"} => t = NoTarget
       /\ at[p] \in {"look", "create"} => c.project = "none"
       /\ at[p] = "create" => t.created = "no" /\ t.dir \in {"none", Start(c)}
       /\ at[p] = "get" => /\ t.project \in Projects /\ t.created = "no" /\ c.project \in {"none", t.project}
                           /\ t.dir = IF c.project = "none" THEN Start(c) ELSE c.dir
       /\ at[p] = "place" => /\ t.project \in Projects /\ t.created = "no" /\ status[t.project] # "none"
                             /\ c.project = t.project /\ c.dir = "none"
       /\ at[p] \in Placed =>
             /\ t.dir \in Dirs /\ t.project \in Projects /\ status[t.project] # "none"
             /\ t.created = "yes" => c.project = "none" /\ t.dir \in Below \cup {Start(c)}
             /\ t.created = "no" => /\ c.project \in {"none", t.project}
                                    /\ c.project = "none" => t.dir = Start(c)
                                    /\ c.dir # "none" => t.dir = c.dir

PlaceInv == \A p \in People : PlaceOf(p)

\* A linked project was created, and its directory has the link in it; what
\* somebody made was created.
LinkInv ==
    /\ \A d \in Dirs : link[d] \in Projects => status[link[d]] # "none" /\ contents[d] = "files"
    /\ \A p \in People : \A q \in made[p] : status[q] # "none"

\* Command c sets q up.
Finds(c, q) == c.project = q \/ (c.project = "none" /\ link[Start(c)] = q)

\* Who made a project is on the way to setting it up, or to being told that its
\* link cannot be used.
CourseOf(p) ==
    LET c == cmd[p]
        t == target[p]
    IN \A q \in made[p] : Usable(q) =>
          \/ at[p] = "idle" /\ (Finds(next[p], q) \/ BadLink(next[p]))
          \/ at[p] \in {"signIn", "look"} /\ c.named = "no" /\ (Finds(c, q) \/ BadLink(c))
          \/ /\ at[p] \in {"get", "place"} \cup Placed /\ t.project = q
             /\ t.created = "no" => c.named = "no" /\ Finds(c, q)
             /\ at[p] = "setUp" => link[t.dir] = q

CourseInv == \A p \in People : CourseOf(p)

Taken(d) == link[d] \in Projects /\ Exists(link[d])

\* What a command read of the link of its directory is so, unless it is late.
ReadOf(p) ==
    LET c == cmd[p]
        t == target[p]
    IN /\ at[p] \in {"resolve", "select"} => link[seen[p].dir] = seen[p].project
       /\ at[p] = "refresh" => link[seen[p].dir] = c.project
       /\ at[p] = "get" /\ c.project = "none" => link[t.dir] = t.project
       /\ at[p] = "create" /\ t.dir # "none" => ~Taken(t.dir)
       /\ at[p] \in Placed /\ Taken(t.dir) /\ link[t.dir] # t.project => c.dir # "none" /\ c.project # "none"
       /\ at[p] = "link" /\ link[t.dir] \in Projects => seen[p] = [dir |-> t.dir, project |-> link[t.dir]]
       /\ at[p] = "setUp" => link[t.dir] = t.project

ReadInv == \A p \in People \ late : ReadOf(p)

LinkingInv == TypeOK /\ PlaceInv /\ LinkInv /\ CourseInv /\ ReadInv /\ OneProjectEach

\* A link is never taken away, and only a linked directory has a key.
KeyedInv ==
    /\ \A d \in Dirs : (Linked(d) => contents[d] = "files") /\ (env[d] # "none" => Linked(d))
    /\ \A p \in People : /\ at[p] = "link" => contents[target[p].dir] = "files"
                         /\ at[p] \in Using \cup {"setUp"} => Linked(DirOf(p))

\* A directory that connect named after a project is no other project's.
NamedOf(p) ==
    at[p] \in Placed /\ cmd[p].dir = "none" /\ cmd[p].project # "none" =>
        link[target[p].dir] \in {"none", target[p].project}

NamedInv == \A p \in People \ late : NamedOf(p)

KeysInv == KeyedInv /\ NamedInv /\ EnvFollowsLink
=============================================================================
