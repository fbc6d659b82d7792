# A verification project for volcano-cli

`volcano-cli` is the command line of the Volcano hosting service: a Go program
that mostly turns one command into a few API requests.  Almost everything that
is hard about it comes from what happens *between* those requests: a server
that goes on working, other people and pipelines on the same project, other
processes of the same user on the same files, answers that are lost, commands
that are killed.  This directory models those parts in TLA+, model-checks them
with TLC on small instances, and proves their safety for every value of the
constants with TLAPS.

| Component | Modules | Instance | Proofs |
| --- | --- | --- | --- |
| The deploy run | `DeployServer`, `DeployRun` | `MCDeployRun` | `DeployRunProofs` |
| Config file, telemetry, feedback | `SettingsValues`, `Settings` (abstract), `ConfigFile` | `MCConfigFile` | `ConfigFileProofs` |
| Signing in | `Login` | `MCLogin` | `LoginProofs` |
| Sharing a project | `ShareServer`, `Sharing` | `MCSharing` | `ShareAndForkProofs` |
| Forking a project | `ForkOnce` (abstract), `ShareServer`, `Forking` | `MCShareAndFork` | `ShareAndForkProofs` |
| Sharing and forking together | `ShareAndFork` | `MCShareAndFork` | `ShareAndForkProofs` |
| The documentation cache | `DocsStore` (abstract), `DocsCache` | `MCDocsCache` | `DocsCacheProofs` |
| Following logs and messages | `Reading` (abstract), `Printing`, `BuildFollow`, `LogTail`, `MessageFollow`, `Following` | `MCFollowing` | `FollowingProofs` |
| The Git connection | `GitServer`, `GitBinding` | `MCGitBinding` | `GitBindingProofs` |
| Connect and directory links | `Linking` | `MCLinking` | `LinkingProofs` |

Three modules model what is not in this repository, from how its callers and the
comments on the client's methods rely on it: `DeployServer`, `ShareServer` and
`GitServer`.  Their definitions are marked external in `PROJECT.json`.

`PROJECT.json` lists the components (also those not modelled), the runs, the
lines of source each definition stands for, the hazards with the properties that
cover them, and the theorems.  For every property it names one *mutant*: a
definition and a variant of it, kept right beside it in the module, that makes
the mistake the property is there to catch (`NewerActive` beside `Newer`,
`LoadStale` beside `Load`, ...).  Nothing but the mutants uses those variants.

## Inventory of the system

Paths are relative to `src/internal`.  *Hard* says what a test would hardly
reach.

### Modelled

**Deploy run** (`cmd/deploy`, `project/deployments.go`).  State: the plan, the
entries of the deployments to wait for (id, outcome), the schedulers held back;
at the server, the feed of deployments of each resource and the condition of
each resource.  Operations: six steps in order (variables, migrations,
functions, durable functions, frontends, config manifests), then polling, then
the schedulers held back.  Interacts with the server only; the config step and
other people redeploy what the run waits for.  Hard: the order of the run's
requests and the server's steps, stale listings, redeploys, a failure at any
request, the end of the wait.  Correct when: a reported outcome is that of the
run's own deployment or a newer one, a newer deployment is never ignored, an
entry only moves forward, schedulers still missing are always announced, and
the run ends.

**Config file, telemetry and feedback** (`config`, `telemetry`,
`cmd/telemetry`, `cmd/feedback`).  State: `~/.volcano/config.json` and its lock
file, shared by all processes of a user; in each process the settings it read.
Operations: `Load` without the lock, `Update` (lock, load, change, truncate and
write, unlock), `Logout`, and `Record` at the end of a command.  Hard: lost
updates, torn reads, a crash between truncation and write, a stale decision to
send, the first-run notice decided by several processes at once, waiting for
the lock for ever.  Correct when: the processes change one set of settings one
step at a time, an opt-out is honoured by every process started after it, one
machine has one device id, and every process ends.

**Signing in** (`auth`, `api/auth.go`, `cmd/auth`, the sign-in of
`cmd/connect`).  State: the device code, the poll interval and its ticker, the
login and project saved in the config, the directory's link.  Operations: poll,
slow down, exchange with retries, check, save, select a project.  Hard: a code
that works once and a step that fails after it was spent, a tick queued before
the interval was lengthened, the timeout racing an answer, a refused code
falling back to another account's login, a selection written in two places.
Correct when: a spent code's login is kept, the command says what is so, the
API is polled no faster than it asked for, the login ends.

**Sharing** (`cmd/share`, `sharing`, `api/shares.go`).  State: at the server
the project, the shares with status, consent to re-share, and release; in the
command the share it picked, what it read of it, the draft that was reviewed.
Operations: `volcano share` (deploy, pick or create, take consent back, build a
draft, review, publish, publish anew, switch on) and `volcano share off`.
Hard: the project changing between review and publish, publish and switch-on
being two calls, two owners at once, lost answers.  Correct when: a link offers
only releases somebody confirmed, a failed publish switches nothing on, consent
and the switch are as their owners left them.

**Forking** (`fork`, `project/fork.go`, `cmd/fork`).  State: the release
previewed, the idempotency key, the copies at the server, the active project.
Operations: preview, confirm, create with one retry, ask again when the release
changed, wait for the installation, select.  Hard: a lost answer and a late
request that still creates, a retry meeting the first attempt, the owner
publishing meanwhile.  Correct when: one command makes at most one copy, the
command is right about whether it made one, the copy is of a release its user
confirmed: however requests travel, it is one order, carried out once or not at all.

**Documentation cache** (`docs/cache.go`, `docs/sync.go`, `docs/service.go`).
State: snapshot directories, `current.json` and `current.json.tmp`, and in the
long-lived MCP process a resident index.  Operations: sync (resolve, load the
manifest, list, collect with reuse, publish, prune), search, get.  Hard: two
syncs with nothing to keep them apart, a reader whose snapshot is pruned, a kill
between any two file operations.  Correct when: the live snapshot is whole, the
reused documents are the right ones, the whole amounts to one copy of the documents
that a sync replaces and a search reads at one stroke, every call ends.

**Log following and messages** (`logfollow`, `projectlog`, the `logs` commands,
`cmd/durable/messages`).  State: what was printed; for build logs the goroutine
that reads the stream, its error channel and the ids it recorded; for a tail the
cursor it reconnects from; for messages the cursor and the status read before
the page.  Operations: read the stream, poll the status, cancel, await, search;
open, deliver, back off, reopen; status, pages, tick.  Hard: the stream, the
poll and the search racing over the same logs, a connection that drops between
two logs, a message published between the status and the page, an interrupt at
any point, another shell selecting another project.  Correct when: each item is
printed once, in order where the command promises an order, a follow that ends by
itself has printed everything, and it ends.

**Git connection** (`gitconnect`, `cmd/git`).  State: at the API the connection,
the deploy settings and the source of truth, at GitHub the names, installations
and default branches of repositories; in a command what it read and what its user
agreed to.  Operations: connect, disconnect, root directory, production branch,
the three deploy settings, export and its cancellation.  Hard: every write
replaces a whole record and no request is conditional, so whatever another person
or GitHub does between the read and the write is put back; a name that stands for
another repository than the one the user saw.  Correct when: a connection is
replaced only if its user agreed about that repository, choices not asked about
survive, and a deploy setting is as it was last chosen.

**Connect and directory links** (`cmd/connect`, `config/link.go`, `project` in a
linked directory).  State: in each directory its link (`.volcano/project.json`) and
the anon key in its `volcano/cloud.env`, what else is in it; at the service the
projects.  Operations: `volcano connect` with and without a directory, a project
or a name, and `volcano use` in a linked directory.  Hard: a project created in
one step and set up in later ones that may each fail, so that the rerun must find
it; a link and a key in two files that nothing locks; a link read before requests
and waits and written after them; a link damaged by a killed write.  Correct when:
doing as the messages say makes one project, the key is the linked project's, and
a directory is taken from a project only when the user gave both.

### Not modelled

`PROJECT.json` lists each with its reason.  In short:

* *planned*: durable approvals (`durable`), access tokens (`accesstoken`),
  self-update (`update`), deploy commit detection (`deploycommit`, `localgit`);
* *no state over time*: the API client, functions, frontends, databases,
  sandboxes, storage, variables, notifications, domains and project commands are
  single requests; output, prompts, archives, ignore files and templates only
  compute;
* *out of reach of a model here*: local mode (docker compose), Lavaflow (an
  external pipeline), Markdown parsing and the BM25 ranking.

## The deploy run

`DeployServer` gives each resource a `feed`, its deployments oldest first with
their statuses, and a `condition`, the status of the resource itself.  A deploy
request appends a queued deployment (`Enqueue`) and supersedes one that is still
queued.  The server then starts and finishes builds, and re-synchronises
variables, which holds an active function in provisioning for a while; other
people redeploy and delete.  A scheduler is accepted on an active function, or
when it changes nothing (`Accepts`).

In `DeployRun`, `phase` is the place in `runPlan`, `runner.wait` and
`applyDeferredSchedulers`; `started` and `verdict` are the entries that `track`
makes; `listing` is the answer of the last `DeploymentsSince`.  The actions are
the requests: one deploy response per resource (`DeployChanged`,
`DeployUnchanged`, choosing the id to follow as `track` does), one status read,
one dry run, one manifest, one listing, one entry examined (the switch in
`wait`), one pass of `waitForActive`.  Every step may fail and end the run.
`hidden` stands for deployments older than the listing's window.

Simplifications: the creation instants of one resource's deployments differ;
the clock skew is within the window the code allows for; a manifest is the set
of functions it gives schedulers; of the output only the closing hint is kept.

## The config file

`SettingsValues` is what the file holds and what each command makes of it;
`Settings` is what the commands mean: one variable that each command changes in
one indivisible step, and that only an interrupted write can lose.

`ConfigFile` is how the code does it.  Each process reads the file once without
the lock (`Start`), runs its command, and records the invocation.  `Lock`,
`Load`, the truncation, the write and `Unlock` are separate steps, as in
`Update` over `os.WriteFile`; between truncation and write any other process
that starts reads a damaged file.  A process may be killed anywhere and a write
may fail (`MaxBreaks` bounds how often).  `OneAtATime` says that `ConfigFile`
implements `Settings`, where the settings are `Stored`: the file, or while the
lock's holder is between truncating and writing, what it had loaded.

Simplifications: no project link or environment variable overrides a setting,
all commands but `volcano telemetry` are recorded, the notice is shown only at
the end of a command.

## Signing in

`Login` is one command: `volcano login` in a browser, with a token or with a
code, or the sign-in of `volcano connect` with or without a code and with each
kind of saved login (`how`).  Time is counted in units of the five seconds that
`slow_down` adds.  `Tick` advances the ticker, whose channel holds one tick
(`ready`), and the timeout; `Wait` is the select; `Poll` is a request with every
answer the API gives and every way it may fail; after it come the exchange with
its retries, the check, the save and the selection.  `since` and `told` record
what the API may expect of the next poll.

## Sharing and forking

`ShareServer` is the project as a release built now would hold it (`build`) and
the shares.  `Sharing` runs any number of owners' commands beside a project that
others change; each API call is a step, every call may fail, be answered and
lose the answer, and a command may be killed anywhere.  A draft is covered by a
confirmation when the person reviewed it, or when under `--yes` a fresh one
needs no variable and no service key the confirmed one did not (`Covers`).

`Forking` runs visitors' commands against *any* owner: `OwnerStep` allows what
the API allows an owner, not only what `volcano share` does.  A request may be
lost before or after it was served, or reach the API late (`late`).

`ForkOnce` is what that amounts to: an order for the release last confirmed, which the
API makes a copy of at most once and the command reports.  Its order is open while a
request that the API may still accept is being sent or on its way (`OrderOf`), also
after the command has ended; a newer release withdraws it.  A person is asked again
only when no order is open, and nothing is open or made when the report is that
nothing was created.  `ForkedOnce` says that `Forking` implements this; keys, retries
and late requests are not in it.

`ShareAndFork` puts both together; `ImplementsSharing` and `ImplementsForking`
prove that it is a `Sharing` and a `Forking`, so what holds of each holds of both.

## The documentation cache

`DocsCache` has the snapshot directories (`disk`), pointer files with their
contents apart from their names (`text`, `pointer`, `tmp`: a rename moves a
file, and two processes may have the same one open), and in each process the
call it is at.  A sync resolves the commit, loads the manifest, lists, collects
(reusing the documents whose SHA the manifest lists), opens, writes and renames
the pointer, and prunes; a search reads the generation, parses and checks again;
a get pins a snapshot and reads.  A sync that finds nothing new reads the current
manifest (`Touch`) and renews it: `OpenManifest`, `Fill` and `Swap` write
`manifest.json.tmp` and rename it, over the files in `manifest` and `renewed`, of
which those in `blank` were truncated and not written.  `Age` lets the ten minutes
of `pruneGrace` pass, `Push` moves the source on, `Kill` ends a process anywhere in
a call.

`DocsStore` is the promise: one copy of the documents of one commit, which a sync
replaces at one stroke by the commit it resolved, and from which a search is answered
at one stroke.  `StoreHolds` says that `DocsCache` implements it, where the copy is of
the commit of the current snapshot (`Cached`), a sync is to bring the commit it
resolved until the rename of the pointer (`ResolvedBy`) and has brought it from then
on (`Bringing`), and a search's answer is the index it ended with (`AnswerOf`).
Directories, the pointer's temporary file, renewals, pruning and resident indexes are
not in it.  It promises nothing more once one of the two defects below has occurred
(`faulty`).

Two known defects are kept apart from the properties by history variables, so
that the properties still say what holds otherwise: `mixed` (a sync copied from
another snapshot than the one whose manifest it had loaded) and `clash` (two
processes were writing the pointer, or the manifest of one snapshot, at once).

## Following logs and messages

`Reading` says what `--follow` promises: items are written, each is printed once
(a log without an id may be printed again), an ordered reader leaves no gap, and
a follow that completes has printed all of them.  Three modules implement it over
the variables of `Printing`, and `Following` is whichever of them runs.

`BuildFollow` is `logfollow.Deployment`: the goroutine (`ReadEvent`, `PrintEvent`,
`StreamEnds`, `StreamCancelled`) and the command (`Selects`, `CheckStatus`, then
`AwaitThenSearch` and the pages of the search).  `errCh` is the channel between
them, nil once it was read.  A durable function's deployment cannot be read, so
its follow asks the function instead, which someone may deploy again meanwhile
(`reads`).  `LogTail` is `RuntimeEach` over `reconnectingStream`, with the pin of
`projectlog` for a whole project (`whole`) and a lookup on every connection for
one resource.  `MessageFollow` is the passes of `messages list --follow`: status,
pages, tick.

Simplifications: items are numbered in the order they were written; what an
environment must do for the promise to hold is listed under *Fairness*; of the
tail only the position matters, so its logs all carry ids, as its callers assume.

## The Git connection

`GitServer` has the connection, whose `updated` counts its `UpdatedAt`, the
deploy settings with `own` (saved, so connecting leaves them alone), the source
of truth, and each repository's name, installations and default branch.  Each
request is accepted or refused as the API does; `GitHubMoves` renames a
repository, reinstalls the App and moves a default branch, `HandsOver` ends an
export.

In `GitBinding` each person runs one command.  It reads (`seen`), resolves a
repository (`target`), asks, reads again (`ConfirmUnchanged`) and writes; a deploy
setting is read (`held`) and written back with the others.  Four history
variables carry the properties: `agreed`, the repository the question named that
was answered yes (`--yes` counts: it agrees to the same question); `late`, that
something changed after the command's last look; `chosen`, the settings as
people last chose them; `raced`, that a late command saved.  The API has no
conditional write, so between the last read and the write there is a window the
client cannot close; the properties except it, by `late` and `raced`, and say
that nothing *else* goes wrong.

Simplifications: which repository a checkout pushes to is an input; names are
compared as GitHub does, without case; what is only reported afterwards is left
out.

## Connect and directory links

In `Linking` several people run commands in one checkout.  `cmd` is a command with
its arguments, `at` its place in `run` of `connect` or in `SelectInLink`, `target`
what `resolveTarget` returns, `seen` the link it read last (`previous`, or the link
in the config of `use`).  `contents` says of a directory whether `emptyOrMissing`
holds of it.  Each request and each write is a step; all may fail, a write of the
link may leave half of a file (`Half`), and a command may be killed.  Whoever gets
an error next runs what the message gives, or else the same command (`next`), so
that what is said after a failure is part of what is checked.

Four history variables carry the properties: `made`, the projects a person created
on the way to what it set out to do and was told of; `late`, whose directory was
relinked while its command was at it; `cut`, the directories with another project's
key that a killed command was to replace; `raced`, those a late command wrote to.

The link and the key are two writes.  `EnvFollowsLink` says of the moments between
them, and of every failure there, that a directory with another project's key
(`Stale`) has somebody on the way to the right one (`Mends`): a command that has just
linked it and is about to write the key, or that was run to set it up; or a command
that somebody was told to run next, and that as it was given (`Repairs`) writes the
key of the project the directory is linked to by then.  So it checks the messages too:
a `use` whose refresh fails must name a `connect` of its own directory, and each
failure of that `connect` must name, or be, one that still does it.  Two cases are
excepted, each until the next key written there by a command on its own: a command
killed on that way, which tells nobody (`cut`), and two commands that relink the
directory at once, since nothing locks a link (`raced`, with `late` for what a command
does then).  Both are described under the findings.

Simplifications: connect is run at the top of the checkout; a login that selects a
project in a linked directory is a `use`; `VOLCANO_PROJECT_ID`, with which `connect`
does not run, is not set.

## The runs

All finish with two workers within about three minutes.

| Run | Configuration | What it shows |
| --- | --- | --- |
| `deploy` | `DeployRuns.cfg` | verdicts, newer deployments, schedulers, forward only, the run ends |
| `config_updates` | `ConfigUpdates.cfg` | no update lost, damage explained, all processes end |
| `config_usage` | `ConfigUsage.cfg` | opt-outs, one notice and one device id |
| `login` | `Login.cfg` | spent code, truthful outcome, account, selection, pace, end |
| `sharing` | `SharingCommands.cfg` | confirmed releases, consent, the switch, end |
| `share_and_fork` | `ShareAndFork.cfg` | a copy confirmed by both sides, truthful outcome, one order carried out once at most, end |
| `docs_cache` | `DocsCache.cfg` | whole cache, right reuse, one copy that syncs replace and searches read at one stroke, calls end |
| `docs_get` | `DocsGet.cfg` | *violation* of `GetFinds` |
| `docs_reuse` | `DocsReuse.cfg` | *violation* of `SameGeneration` |
| `following` | `Following.cfg` | the contract of `--follow`, failures reported, one project, a tail advances, end |
| `git_binding` | `GitBinding.cfg` | agreed replacements, choices kept, settings as chosen |
| `linking` | `Linking.cfg` | one project each, `cloud.env` follows the link or somebody was told how, directories taken as asked |

Bounds, and why they are enough:

* `deploy`: five plans.  A function, or a frontend, alone is deployed up to
  three times, the least in which an entry moves to a newer deployment that is
  superseded in turn; the pair of a function and a durable function, with two
  manifests, once each, enough for a manifest to be refused after another was
  applied and for the two to become active in either order.  One
  re-synchronisation in a behaviour: a second only repeats the wait.
* `config_updates`: two processes and one break; lost updates and torn reads
  need two, and after one break every process finds a damaged file.
  `config_usage`: four processes, since the notice concerns three (one printing,
  one started before, one after) beside one that opts out.  `OneScenario` keeps
  two scenarios apart: at most two processes that choose about usage data, or
  three processes with feedback reports.
* `login`: the code's own limits for failures and attempts (3), six units of
  time and intervals up to three: room for two slow-downs and for the timeout
  before, between and after polls.
* `sharing`: two commands on one share of a project changed since it was
  shared (`--yes` without consent options), or one command of any kind with
  two shares.  Three versions: shared
  before, reviewed, and changed during the review.
* `share_and_fork`: one visitor's command, with every way of waiting and
  selecting, and one owner's, with two releases: previewed, and changed before
  the copy is made.
* `docs_cache`: two processes with two calls and one, two documents of which
  one changes, one kill.  `docs_reuse` has a third commit, in which the changed
  document is back to its first version: the least for a wrong copy.
* `following`: three items, so that one is printed by the stream, one is in the
  goroutine's hands and one is left to the search, and so that a page of two is
  followed by another; one without an id, one that cannot be read, one
  redeployment, two dropped connections.
* `git_binding`: two commands of any kinds, two repositories of which a
  connection may bear the other's name, one event of GitHub or of an export.
  A setting is lost, or a replacement unagreed, through one other actor; a
  command takes no notice of a third.
* `linking`: two people and three commands between them: one that fails, its
  rerun, and one of the other person's in between, or two reruns.  One project
  that exists and two to be created, so that a second one can be; one directory
  below the top, which is also where connect puts every project; one project that
  fails or is deleted.  `connect` with the top as its directory is only tried with a
  project: without one it does what it does with no directory.

`DocsGet.cfg` and `DocsReuse.cfg` are the smallest instances
that show the disagreement.

### Fairness

* `DeployRun`: the run's process is scheduled, and the server finishes the
  builds, deletes and synchronisations it started.  Nothing is assumed of
  timeouts, failures, or other people; they deploy a bounded number of times.
* `ConfigFile`: a process that started goes on; `flock` hands the lock over
  when it is free, and the system releases it when its holder dies.
* `Login`: time passes (`Tick`), the select takes a branch that is ready
  (`Wait`), and a request is answered or fails (`Poll`, `Use`); the client's
  request timeout justifies the last.  The user need not approve anything.
* `Sharing`, `Forking`: each command goes on, requests are answered or fail, and
  the person asked answers.  The project and the owners need not do anything.
* `DocsCache`: a process in a call is scheduled.
* `Following`: the command and its goroutine are scheduled, requests are answered
  or fail, ticks come, and a read whose context was cancelled returns.  Go's
  `select` takes any case that is ready, so one that is ready again and again is
  taken (strong fairness of `SelectStreamEnd` and `SelectInterrupt`), and the pages
  of a search are not empty for ever (strong fairness of `PrintSearched`).  Nothing
  makes a deployment end, a stream send, or an execution finish.  What the service
  is relied on for is part of the actions: a deployment writes its last log before
  it is over, a search sees every log, a stream sends each log once and in order
  but may begin late, close or fail at any time, a page that promises more is not
  empty, and messages are published only while the execution runs.  An event that
  cannot be read stops a tail at the log before it for ever, so `TailAdvances`
  speaks of the logs before the first such event.
* `GitBinding` and `Linking` state no fairness: their properties are about what a
  command does to the connection or the directory, and every command is a bounded
  sequence of steps.

Elsewhere weak fairness is enough: no action waited for can be disabled again and
again, but for the lock of the config file, which is taken boundedly often.

## The proofs

Each theorem holds for every value of the constants that satisfies the named
assumption of its module.

| Module | Assumptions | Inductive invariant | Shown |
| --- | --- | --- | --- |
| `DeployRunProofs` | `PlanAssumption`, `ResourceAssumption` | `IInv`, `SchedulersInv` | `TypeCorrect`, `VerdictsCorrect`, `NewerFollowed`, `OwnDeployment`, `WaitMovesForward`, `SchedulersTold`, `WaitGetsOn` |
| `ConfigFileProofs` | `SettingsAssumption`, `ConfigFileAssumption` | `IInv`, `FirstUseInv` | `SafetyInvariant`, `TypeCorrect`, `OptOut`, `DamageExplained`, `Implements`, `FirstUse`, `ProcessesAreBounded` |
| `LoginProofs` | `LoginAssumption` | `LoginInv`, `SelectionInv`, `TickerInv` | `LoginSafe`, `SpentCodeIsKept`, `OutcomeIsTrue`, `PromptedAccountUsed`, `ProjectSelected`, `PollsSlowDown`, `LoginIsBounded` |
| `ShareAndForkProofs`, owners | `ShareServerAssumption`, `SharingAssumption` | `SharingInv` | `SharingSafe`, `LinkOffersConfirmed`, `OldReleaseNotSwitchedOn`, `ConsentKept`, `OffIsKept`, `SharingIsBounded` |
| `ShareAndForkProofs`, visitors | `ShareServerAssumption`, `ForkingAssumption` | `ForkingInv`, `LateIsOld` | `ForkingSafe`, `AtMostOneCopy`, `NothingIsCreated`, `CopyIsConfirmed`, `SelectedCopyInstalled`, `ForksOnce`, `ForkingIsBounded` |
| `ShareAndForkProofs`, together | those of both | those of both | `ImplementsSharing`, `ImplementsForking`, `BothConfirmed`, `ForksOnceTogether`, `CommandsAreBounded` |
| `DocsCacheProofs` | `DocsCacheAssumption`, `NameAssumption`, `ContentAssumption` | `CacheInv`, `TriesInv` | `CacheLives`, `ReuseIsTrue`, `ImplementsStore`, `CallsAreBounded` |
| `FollowingProofs` | those of `Printing` and the three followers | `FollowInv` | `FollowInvHolds`, `FollowersRead`, `FailureReportedHolds`, `OneProjectHolds`, `MessagesAreBounded` |
| `GitBindingProofs` | `GitServerAssumption`, `GitBindingAssumption` | `GitInv` | `GitInvHolds`, `Chosen`, `Replaced`, `Kept` |
| `LinkingProofs` | `LinkingAssumption` | `LinkingInv`, `KeysInv` | `LinkingSafe`, `OneProjectForEach`, `EnvIsTheLinkedProjects`, `RelinkAsked` |

The arguments, in short:

* *Deploy run.*  A verdict is written from a listing, and the feed has moved on
  since.  `FeedInv` says what the server keeps true of a feed (only the latest
  deployment is queued, nothing overtakes a build), `ListingInv` that every
  status in the listing is one the present status can have come from (`After`),
  `EntryInv` that the entry exists and is not older than the run's own
  deployment.  From these, what the listing showed to be final still is, and
  what it showed to be newest was.  `SchedulersInv` counts the manifests applied:
  all their schedulers but the held back ones are in place, also when the wait
  begins, so that whatever ends the run knows what is missing.
* *Config file.*  `LockInv`: between `Lock` and `Unlock` there is one process,
  and what it loaded is the file.  So a write changes `Stored` as one command
  does, which is `Implements`; and `ChoiceInv`, that the file and what each
  process read of it agree with the choices made, is preserved.  `DeviceInv`: all
  device ids there are, in the file and in processes, are one, and while the file
  has none nobody has; `NoticeInv`: one process changed the file to say that the
  notice was shown, and it alone prints it.  A damaged file keeps both, since
  nothing but a logout, which the properties except, writes it again.
* *Signing in.*  `LoginInv` says for each place of the command what has been
  saved, linked, traded and refused by then; the properties are read off it.
  `SelectionInv` adds the projects: none is selected before the login is saved,
  and only a login that names one in a linked directory comes to the link.
  `TickerInv`: since the answer that the API counts from, an interval has passed
  when a tick waits in the channel, and will have when the next one comes.
* *Sharing.*  `Consistent` says what a command knows at each place: what it is
  about to publish is covered by a confirmation.  `NoReleaseLost` orders the
  releases of a share, which is why a share switched on carries a newer one.
* *Forking.*  `ForkingInv` says that the copies, and the late requests, with a
  command's key are those of its present offer, and that a key that was refused
  has no copy and, since it is settled, will not get one.  That carries "at most
  one copy" over retries and new confirmations.  For `ForksOnce`, `LateIsOld` adds
  that no late request is for a release yet to come, so that publishing withdraws
  every order; a command at a place where nothing was created has no order open
  (`UndecidedHasNone`); and a request the API accepts is an open order without a copy
  (`AcceptedIsOrdered`).  Then every step makes the copy, drops the order, or leaves
  both, and what it reports is so.
* *Together.*  Every step of `ShareAndFork` is a step or a stutter of `Forking`,
  because a step of `Sharing` is one its `OwnerStep` allows; `BothConfirmed` then
  combines the two invariants.

* *Documentation cache.*  A name is used once: for a snapshot directory, then for
  a pointer file, then as what that file says.  `Ahead` has the names a process
  has yet to use, and `NameInv` that nobody else has used them, which is why a
  step of one sync does not touch what another built, or what is current.
  `StageInv`: what a sync stages is whole once collected and too new for `prune`;
  `PointerInv`: without a clash one process writes the pointer file, to a snapshot
  of its own.  `SheetNames` and `SheetInv` say the same of manifest files: a name is
  used for one, which is in one place, and without a clash the manifest there was
  stays until the new one is written.  `SourceInv`: what a sync loaded is complete, so it stays as it was or
  is removed, and a document copied from it is the one its commit has (`ReuseTrue`,
  `IndexInv`).  For `ImplementsStore`: only a rename of the pointer changes which
  snapshot is current, and it makes it the renaming sync's own, which is built from
  the commit that sync resolved; the last step of a search is answered from the
  index of the snapshot that is current at that step; and no step shows anything else
  of another process.

* *Following.*  While the goroutine runs, what was printed is what it recorded,
  but for the log in its hands; the search begins when it has ended, skips what was
  recorded, and has printed everything above its cursor (`GoroutineInv`,
  `RecordedInv`, `SearchInv`).  A tail's cursor is the last log printed
  (`TailInv`), and the pass that began with the end of the execution reaches the
  last message (`MessageInv`).  With these, every step is a step of `Reading` or a
  stutter, which is `FollowersRead`.
* *Git connection.*  What the user is asked about is what was read (`AskedInv`,
  `AgreedInv`), and unless the command is late that is still so at the write
  (`UnchangedInv`).  `SettingsInv` ties the settings to the choices, `HeldInv` what a
  command holds of them to what they are.
* *Directory links.*  `PlaceOf` says what a command is about at each place, `ReadOf`
  that what it read of its directory's link still holds unless it is late.  From
  `ReadOf` follows the property of relinks: at the write the old link is the one that
  was read.  `CourseOf` says that
  whoever made a project is on the way to it: at every place the command, or the
  next one, finds that project, by its id or by the link.  It is inductive only
  together with `OneProjectEach`, since a command whose link was damaged finds none.
  `KeysInv` rests on both: a key stands only in a linked directory (`KeyedInv`), and
  a directory that connect named after a project is linked to no other (`NamedInv`),
  so a command about to relink a directory with a key was given that directory or
  found its project there.  Then each step keeps what mends a directory, or hands it
  over to the next command (`OthersMend`, `KeysKept`, `RelinkKeys`, `EnvKeys`).

Each inductive invariant was an invariant of a run while its proof was written.
The runs no longer check it: TLC checks the properties that follow from it.

### The length of a command

Every liveness property (`RunEnds`, `ProcessesEnd`, `LoginEnds`, `SharingEnds`,
`ForkingEnds`, `CallsEnd`, `FollowEnds`, `TailAdvances`) is only model-checked: fairness
rests on `ENABLED`, which the provers here do not reach.  What they reach is the
other half of such an argument, and it is proved for every value of the constants: a
measure that each step of a command lowers, so that no retry, refusal, publication or
crash elsewhere can send it round for ever.

| Property (module) | Measure | What may raise it |
| --- | --- | --- |
| `CallsBounded` (`DocsCache`) | 22 places and the attempts left of a search | the next call |
| `ProcessesBounded` (`ConfigFile`) | 13 places; the lock's holder is never one that waits | nothing |
| `LoginBounded` (`Login`) | time left, attempts, failures, the second login of `connect` | nothing |
| `SharingBounded` (`Sharing`) | 9 places; another review when the draft is out of date | a change of the project |
| `ForkingBounded` (`Forking`) | 13 places; another preview when the offer is out of date | a newer release |
| `MessagesBounded` (`Following`) | messages left, one more pass when this one began too early | nothing, once the execution has ended |

`PassesSettle` (`DeployRun`) is the one that depends on the server: a pass over a
resource at rest gives the entry its outcome, or moves it to the newest deployment.
How long a build takes, how often a stream breaks and how many empty pages a search
has are the service's; the other ends of `DeployRun` and `Following` have no measure.
TLC checked these properties on the instances of the runs while they were proved; the
runs check what follows with fairness.

## What was found

* **A synced cache can hold documents of another commit** (`docs_reuse`,
  `docs/sync.go:97`).  `Sync` loads the manifest of the current snapshot, lists
  the repository over the network, and only then looks up which snapshot to copy
  from.  When another sync publishes in between, documents are copied from a
  snapshot the manifest is not of, and later syncs reuse them.
* **A read can report a document that exists as missing** (`docs_get`,
  `docs/cache.go:285`).  The grace of `prune` counts from when a snapshot was
  published, not from when it was replaced, so a snapshot older than ten minutes
  is removed at once, also from under a read pinned to it.
* Not a run of its own: an event can be sent before the notice was printed
  (`telemetry/telemetry.go:407`).  The notice is recorded as shown under the lock
  and printed after it; a process that starts in between counts as informed.
* Not a run of its own: "sharing is still off" may be untrue
  (`cmd/share/share.go:295`).  It is said for every error of the last update, the
  lost answer of one that was applied included.
* Not a run of its own: all processes write the pointer through the same
  `current.json.tmp` (`docs/cache.go:262`).  `LiveCacheWhole` excepts two pointer
  writes at once; without the exception it fails, against the comment of `Sync`
  that any failure leaves the previous cache untouched (`docs/sync.go:64`).
* Not a run of its own: two syncs that find nothing new renew one manifest through
  the same `manifest.json.tmp` (`docs/cache.go:316-320`).  One renames what the other
  has just truncated: the live manifest is empty until the other writes it, for
  good if it is killed, and the other's rename fails.  `LiveCacheWhole` excepts this
  too; it is against the comment that the temporary file keeps an interrupted
  update from truncating the only published manifest (`docs/cache.go:309-310`).
* Not a run of its own: when the second check of the starter's files fails
  (`cmd/connect/connect.go:242`), connect ends without the command that sets up the
  project it has just created, as every other failure there gives.  A rerun then
  creates another; `OneProjectEach` excepts it.
* Not a run of its own: a `use` that is killed between the link and the key
  (`project/project.go:241` and `:253`) leaves the directory linked to the new project
  with the old one's key, and says nothing.  The natural thing, the same `use` again,
  finds the project linked already and returns (`project/project.go:248`): the key
  stays, and a deploy with the file uploads it, against the comment of
  `refreshCloudEnv` (`project/cloudenv.go:46-48`) and what the documentation says of
  `volcano use` (`docs/connect.md:198-200`).  A `connect` killed between its two writes
  (`cmd/connect/connect.go:271` and `:303`) leaves the same, which a `connect` again
  repairs and a `use` does not.  So does a `use` repeated after one that failed and
  said to run `connect`.  `EnvFollowsLink` excepts the kill by `cut`; without it, it
  fails.  The failure is not excepted: it says what to run.
* Not a run of its own: two commands that relink a directory at once
  (`project/project.go:241`) may leave `cloud.env` with the key of the project that
  lost, and neither says so.  `EnvFollowsLink` excepts it by `raced`; without it, it
  fails.

## The plan

Done, in this order: `DeployServer` and `DeployRun`, `SettingsValues`,
`Settings` and `ConfigFile`, `Login`, `ShareServer`, `Sharing`, `Forking` and
`ShareAndFork`, each with its proofs; `DocsCache`; `Reading` and the three
followers, `GitServer` and `GitBinding`, and `Linking`, with theirs; then
`DocsCacheProofs`; last the abstract `DocsStore` and `ForkOnce`, with the proofs that the
cache and the fork command implement them, and the lengths of the commands.

Next:

1. `DurableApprovals`: approvals decided twice.
2. Pure algorithms against a reference definition: the name resolution of
   `accesstoken` over pages, the tree comparison of `deploycommit`.
3. `SelfUpdate`: staging, checksum and rename with a crash in between.
