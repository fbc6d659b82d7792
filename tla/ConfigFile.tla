----------------------------- MODULE ConfigFile -----------------------------
(***************************************************************************)
(* CLI processes that run side by side on one ~/.volcano/config.json       *)
(* (internal/config), and the usage data they send (internal/telemetry).   *)
(*                                                                         *)
(* A process reads the file once, without the lock, when it starts, runs   *)
(* its command, then records the invocation: it shows the first-run notice *)
(* if it has to, and sends a usage event if it may.  Every change of the   *)
(* file is made under a file lock: load, change, truncate, write.  A       *)
(* process can crash anywhere and a write can fail, which leaves the file  *)
(* truncated.                                                              *)
(*                                                                         *)
(* Simplifications.  No project link and no environment variable overrides *)
(* a setting, every command is recorded except those of `volcano telemetry`*)
(* and the notice is only shown at the end of a command.                   *)
(***************************************************************************)
EXTENDS SettingsValues, FiniteSets

CONSTANTS
    Commands,  \* the commands the processes of an instance run
    MaxBreaks  \* bound: crashes and failed writes in a behaviour

ASSUME ConfigFileAssumption == Commands \subseteq Command /\ MaxBreaks \in Nat

VARIABLES
    file,      \* the content of config.json, or Damaged
    lock,      \* who holds config.json.lock
    pc,        \* [Process -> Place]
    command,   \* [Process -> Command]
    seen,      \* [Process -> Config or Damaged]: the read at the start
    loaded,    \* [Process -> Config or Damaged]: the read under the lock
    stage,     \* [Process -> {"command", "notice"}]: what the lock is taken for
    marked,    \* the processes whose notice to print covers usage data
    known,     \* [Process -> Named]: the device id Record goes on with
    breaks,    \* how many crashes and failed writes happened
    sent,      \* history: [Process -> Named]: the device id of the event sent
    reports,   \* history: the processes that sent a feedback report
    printed,   \* history: the processes that printed the usage data notice
    choices,   \* history: the last telemetry and feedback choice that took effect
    wanted,    \* history: [Process -> choices when it started]
    reset      \* history: logout replaced a damaged file

local   == <<command, seen, loaded, stage, marked, known>>
history == <<sent, reports, printed, choices, wanted, reset>>
vars    == <<file, lock, pc, local, breaks, history>>

Place == {"idle", "command", "lock", "locked", "truncated", "unlock", "record", "print", "send",
          "done"}

Choices == [telemetry: Choice, feedback: Choice]

TypeOK ==
    /\ file \in Config \cup {Damaged}
    /\ lock \in Named
    /\ pc \in [Process -> Place]
    /\ command \in [Process -> Command]
    /\ seen \in [Process -> Config \cup {Damaged}]
    /\ loaded \in [Process -> Config \cup {Damaged}]
    /\ stage \in [Process -> {"command", "notice"}]
    /\ marked \subseteq Process
    /\ known \in [Process -> Named]
    /\ breaks \in Nat
    /\ sent \in [Process -> Named]
    /\ reports \subseteq Process
    /\ printed \subseteq Process
    /\ choices \in Choices
    /\ wanted \in [Process -> Choices]
    /\ reset \in BOOLEAN

NoChoice == [telemetry |-> "unset", feedback |-> "unset"]

Init ==
    /\ file = Default
    /\ lock = None
    /\ pc = [p \in Process |-> "idle"]
    /\ command = [p \in Process |-> "none"]
    /\ seen = [p \in Process |-> Default]
    /\ loaded = [p \in Process |-> Default]
    /\ stage = [p \in Process |-> "command"]
    /\ marked = {}
    /\ known = [p \in Process |-> None]
    /\ breaks = 0
    /\ sent = [p \in Process |-> None]
    /\ reports = {}
    /\ printed = {}
    /\ choices = NoChoice
    /\ wanted = [p \in Process |-> NoChoice]
    /\ reset = FALSE

Go(p, place) == pc' = [pc EXCEPT ![p] = place]

Holds(p) == lock = p

(***************************************************************************)
(* The command.                                                            *)
(***************************************************************************)
\* The recorder reads the file without the lock, whatever is in it.
Start(p) ==
    /\ pc[p] = "idle"
    /\ \E c \in Commands : command' = [command EXCEPT ![p] = c]
    /\ seen' = [seen EXCEPT ![p] = file]
    /\ wanted' = [wanted EXCEPT ![p] = choices]
    /\ Go(p, "command")
    /\ UNCHANGED <<file, lock, loaded, stage, marked, known, breaks, sent, reports, printed,
                   choices, reset>>

\* A command that changes nothing, or that fails before it changes anything.
Skip(p) ==
    /\ pc[p] = "command"
    /\ Go(p, "record")
    /\ UNCHANGED <<file, lock, local, breaks, history>>

\* volcano feedback: whether reports are on was read at the start, the login is
\* read now.
Report(p) ==
    /\ pc[p] = "command"
    /\ command[p] = "report"
    /\ file # Damaged /\ file.token # None
    /\ seen[p] # Damaged /\ FeedbackOn(seen[p]) /\ "feedback" \in seen[p].shown
    /\ reports' = reports \cup {p}
    /\ Go(p, "record")
    /\ UNCHANGED <<file, lock, local, breaks, sent, printed, choices, wanted, reset>>

TakeLockFor(p, what) ==
    /\ stage' = [stage EXCEPT ![p] = what]
    /\ Go(p, "lock")

\* A command that changes the settings.
Update(p) ==
    /\ pc[p] = "command"
    /\ command[p] \notin {"none", "report"}
    /\ TakeLockFor(p, "command")
    /\ UNCHANGED <<file, lock, command, seen, loaded, marked, known, breaks, history>>

(***************************************************************************)
(* config.Update and config.ClearLogin.                                    *)
(***************************************************************************)
LoadStale(p) == loaded' = [loaded EXCEPT ![p] = seen[p]]

Load(p) == loaded' = [loaded EXCEPT ![p] = file]

LockBusy(p) ==
    /\ pc[p] = "lock"
    /\ lock' = p
    /\ Load(p)
    /\ Go(p, "locked")
    /\ UNCHANGED <<file, command, seen, stage, marked, known, breaks, history>>

Lock(p) ==
    /\ pc[p] = "lock"
    /\ lock = None
    /\ lock' = p
    /\ Load(p)
    /\ Go(p, "locked")
    /\ UNCHANGED <<file, command, seen, stage, marked, known, breaks, history>>

\* needsNotice and initialize work with what was on when the process started.
Wanted(c) == (IF TelemetryOn(c) THEN {"usage"} ELSE {}) \cup
             (IF FeedbackOn(c) THEN {"feedback"} ELSE {})

Changed(p) ==
    IF stage[p] = "command"
    THEN Apply(command[p], p, loaded[p])
    ELSE Announced(Wanted(seen[p]), p, loaded[p])

\* The device id Record goes on with once the notice is saved: none when usage
\* data was turned off in the meantime.
DeviceAfter(p, c) ==
    IF stage[p] = "command" THEN known[p] ELSE IF TelemetryOn(c) THEN c.device ELSE None

\* The user's choices once a command of the user took effect.
Chosen(c) ==
    CASE c = "telemetryOn"  -> [choices EXCEPT !.telemetry = "on"]
      [] c = "telemetryOff" -> [choices EXCEPT !.telemetry = "off"]
      [] c = "feedbackOn"   -> [choices EXCEPT !.feedback = "on"]
      [] c = "feedbackOff"  -> [choices EXCEPT !.feedback = "off"]
      [] OTHER              -> choices

UnreadableLocked(p) ==
    /\ pc[p] = "locked"
    /\ loaded[p] = Damaged
    /\ ~(stage[p] = "command" /\ command[p] = "logout")
    /\ Go(p, IF stage[p] = "command" THEN "record" ELSE "print")
    /\ marked' = marked \ {p}
    /\ UNCHANGED <<file, lock, command, seen, loaded, stage, known, breaks, history>>

\* The file cannot be parsed: Update fails.
Unreadable(p) ==
    /\ pc[p] = "locked"
    /\ loaded[p] = Damaged
    /\ ~(stage[p] = "command" /\ command[p] = "logout")
    /\ Go(p, "unlock")
    /\ marked' = marked \ {p}
    /\ UNCHANGED <<file, lock, command, seen, loaded, stage, known, breaks, history>>

\* Logout removes a file it cannot parse, or has nothing left to say.
Remove(p) ==
    /\ pc[p] = "locked"
    /\ stage[p] = "command" /\ command[p] = "logout"
    /\ loaded[p] # Damaged => Changed(p) = Default
    /\ file' = Default
    /\ reset' = IF loaded[p] = Damaged THEN TRUE ELSE reset
    /\ Go(p, "unlock")
    /\ UNCHANGED <<lock, local, breaks, sent, reports, printed, choices, wanted>>

\* The commands that report no change when they find none to make.
MayKeep(p) == stage[p] = "notice" \/ command[p] = "unalias"

KeepFile(p) ==
    /\ pc[p] = "locked"
    /\ loaded[p] # Damaged
    /\ MayKeep(p) /\ Changed(p) = loaded[p]
    /\ marked' = marked \ {p}
    /\ known' = [known EXCEPT ![p] = DeviceAfter(p, loaded[p])]
    /\ Go(p, "unlock")
    /\ UNCHANGED <<file, lock, command, seen, loaded, stage, breaks, history>>

Saves(p) ==
    /\ pc[p] = "locked"
    /\ loaded[p] # Damaged
    /\ ~(MayKeep(p) /\ Changed(p) = loaded[p])
    /\ ~(stage[p] = "command" /\ command[p] = "logout" /\ Changed(p) = Default)

\* A home that cannot be written: nothing changes, and a notice is not printed.
SaveRefused(p) ==
    /\ Saves(p)
    /\ marked' = marked \ {p}
    /\ Go(p, "unlock")
    /\ UNCHANGED <<file, lock, command, seen, loaded, stage, known, breaks, history>>

\* os.WriteFile truncates the file ...
Truncate(p) ==
    /\ Saves(p)
    /\ file' = Damaged
    /\ Go(p, "truncated")
    /\ UNCHANGED <<lock, local, breaks, history>>

\* ... and writes it anew.
Write(p) ==
    /\ pc[p] = "truncated"
    /\ file' = Changed(p)
    /\ marked' = IF stage[p] = "notice" /\ "usage" \in Changed(p).shown \ loaded[p].shown
                 THEN marked \cup {p} ELSE marked \ {p}
    /\ known' = [known EXCEPT ![p] = DeviceAfter(p, Changed(p))]
    /\ choices' = IF stage[p] = "command" THEN Chosen(command[p]) ELSE choices
    /\ Go(p, "unlock")
    /\ UNCHANGED <<lock, command, seen, loaded, stage, breaks, sent, reports, printed, wanted,
                   reset>>

\* The write fails: the file stays truncated, and the process goes on without
\* its change.
WriteFails(p) ==
    /\ pc[p] = "truncated"
    /\ breaks < MaxBreaks
    /\ breaks' = breaks + 1
    /\ marked' = marked \ {p}
    /\ Go(p, "unlock")
    /\ UNCHANGED <<file, lock, command, seen, loaded, stage, known, history>>

Unlock(p) ==
    /\ pc[p] = "unlock"
    /\ lock' = None
    /\ Go(p, IF stage[p] = "command" THEN "record" ELSE "print")
    /\ UNCHANGED <<file, local, breaks, history>>

(***************************************************************************)
(* Recorder.Record.                                                        *)
(***************************************************************************)
NeedsNotice(c) ==
    \/ TelemetryOn(c) /\ c.device = None
    \/ ~(Wanted(c) \subseteq c.shown)

\* Commands of `volcano telemetry` are not recorded, and nothing is when the
\* file could not be read at the start.
RecordNothing(p) ==
    /\ pc[p] = "record"
    /\ seen[p] = Damaged \/ command[p] \in {"telemetryOn", "telemetryOff"}
    /\ Go(p, "done")
    /\ UNCHANGED <<file, lock, local, breaks, history>>

Recorded(p) ==
    /\ pc[p] = "record"
    /\ seen[p] # Damaged
    /\ command[p] \notin {"telemetryOn", "telemetryOff"}

\* known starts as the device id of the settings read at the start, and stays
\* that when the notice cannot be saved.
RecordWithNotice(p) ==
    /\ Recorded(p)
    /\ NeedsNotice(seen[p])
    /\ known' = [known EXCEPT ![p] = seen[p].device]
    /\ TakeLockFor(p, "notice")
    /\ UNCHANGED <<file, lock, command, seen, loaded, marked, breaks, history>>

RecordDirectly(p) ==
    /\ Recorded(p)
    /\ ~NeedsNotice(seen[p])
    /\ known' = [known EXCEPT ![p] = seen[p].device]
    /\ Go(p, "send")
    /\ UNCHANGED <<file, lock, command, seen, loaded, stage, marked, breaks, history>>

\* The notice is printed after the lock was released.
PrintNotice(p) ==
    /\ pc[p] = "print"
    /\ printed' = IF p \in marked THEN printed \cup {p} ELSE printed
    /\ Go(p, "send")
    /\ UNCHANGED <<file, lock, local, breaks, sent, reports, choices, wanted, reset>>

\* A process that started before the notice was shown sends nothing.
MaySend(p) == TelemetryOn(seen[p]) /\ known[p] # None /\ "usage" \in seen[p].shown

Send(p) ==
    /\ pc[p] = "send"
    /\ sent' = IF MaySend(p) THEN [sent EXCEPT ![p] = known[p]] ELSE sent
    /\ Go(p, "done")
    /\ UNCHANGED <<file, lock, local, breaks, reports, printed, choices, wanted, reset>>

\* The process is killed: the file stays as it is and the lock is free.
Crash(p) ==
    /\ pc[p] \notin {"idle", "done"}
    /\ breaks < MaxBreaks
    /\ breaks' = breaks + 1
    /\ lock' = IF Holds(p) THEN None ELSE lock
    /\ Go(p, "done")
    /\ UNCHANGED <<file, local, history>>

Run(p) ==
    \/ Start(p) \/ Skip(p) \/ Report(p) \/ Update(p)
    \/ Lock(p) \/ Unreadable(p) \/ Remove(p) \/ KeepFile(p) \/ Truncate(p) \/ Write(p)
    \/ Unlock(p)
    \/ RecordNothing(p) \/ RecordWithNotice(p) \/ RecordDirectly(p) \/ PrintNotice(p)
    \/ Send(p)

Finished == (\A p \in Process : pc[p] = "done") /\ UNCHANGED vars

Next == (\E p \in Process : Run(p) \/ SaveRefused(p) \/ WriteFails(p) \/ Crash(p)) \/ Finished

Spec == Init /\ [][Next]_vars

\* A process that was started runs until it ends or is killed.
FairSpec == Spec /\ \A p \in Process : WF_vars(pc[p] # "idle" /\ Run(p))

(***************************************************************************)
(* Properties.                                                             *)
(***************************************************************************)
\* What the file means to the processes: while one rewrites it under the lock,
\* what that one has read.
Stored == IF lock # None /\ pc[lock] = "truncated" THEN loaded[lock] ELSE file

\* The file is the settings every command changes in one step, whatever the
\* processes do in between: no update is lost (Update loads under the lock).
Store == INSTANCE Settings WITH settings <- Stored
OneAtATime == Store!Spec

\* No event and no report is sent by a process that was started after the user
\* had turned it off, unless a logout had to replace a damaged file.
OptOutHonoured ==
    \A p \in Process : ~reset =>
        /\ sent[p] # None => wanted[p].telemetry # "off"
        /\ p \in reports =>
              \/ wanted[p].feedback = "on"
              \/ wanted[p].feedback = "unset" /\ wanted[p].telemetry # "off"

\* However many processes find at the same time that a machine is new, one of them
\* prints the notice about usage data, and all events carry one device id
\* (initialize checks both again under the lock).
FirstUseOnce ==
    ~reset =>
        /\ Cardinality(printed) <= 1
        /\ \A p, q \in Process : sent[p] # None /\ sent[q] # None => sent[p] = sent[q]

\* Only a crash or a failed write damages the file, whatever the processes do
\* side by side (save truncates in place, under the lock).
DamageNeedsBreak == Stored = Damaged => breaks > 0

\* Every process that starts ends: none is left waiting for the lock.
ProcessesEnd == \A p \in Process : pc[p] = "command" ~> pc[p] = "done"

(***************************************************************************)
(* The length of a process.                                                *)
(***************************************************************************)
\* How many more steps a process can take: the lock is taken for the command, then
\* at most once for the notice.
StepsLeft(p) ==
    LET after == IF stage[p] = "command" THEN 5 ELSE 0
    IN  CASE pc[p] = "idle"      -> 13
          [] pc[p] = "command"   -> 12
          [] pc[p] = "lock"      -> 6 + after
          [] pc[p] = "locked"    -> 5 + after
          [] pc[p] = "truncated" -> 4 + after
          [] pc[p] = "unlock"    -> 3 + after
          [] pc[p] = "record"    -> 7
          [] pc[p] = "print"     -> 2
          [] pc[p] = "send"      -> 1
          [] pc[p] = "done"      -> 0

\* The lock is never held by a process that has ended, or that itself waits for it.
WaitsForOneAtWork ==
    \A p \in Process : pc[p] = "lock" /\ lock # None =>
        lock \in Process \ {p} /\ pc[lock] \in {"locked", "truncated", "unlock"}

\* Every step brings one process nearer to its end and sets no process back, also
\* when the settings change under it, a file is damaged or a holder of the lock
\* is killed.
ProcessesBounded ==
    /\ [](WaitsForOneAtWork /\ \A p \in Process : StepsLeft(p) \in 0 .. 13)
    /\ [][\E p \in Process :
            StepsLeft(p)' < StepsLeft(p) /\ \A q \in Process \ {p} : StepsLeft(q)' = StepsLeft(q)]_vars

(***************************************************************************)
(* The inductive invariant behind the safety properties.                   *)
(***************************************************************************)
\* One process at a time is between Lock and Unlock, and it knows the file.
LockInv ==
    \A p \in Process :
        /\ pc[p] \in {"locked", "truncated", "unlock"} <=> lock = p
        /\ pc[p] = "locked" => loaded[p] = file
        /\ pc[p] = "truncated" => file = Damaged /\ loaded[p] # Damaged
        /\ pc[p] \in {"print", "send"} => seen[p] # Damaged
        /\ pc[p] \in {"lock", "locked", "truncated", "unlock"} /\ stage[p] = "notice" =>
              seen[p] # Damaged

\* The settings read from the file are the choices made so far.
Agrees(c, choice) ==
    c # Damaged =>
        /\ (c.telemetry = "off" <=> choice.telemetry = "off")
        /\ c.feedback = choice.feedback

ChoiceInv ==
    ~reset =>
        /\ Agrees(Stored, choices)
        /\ \A p \in Process : pc[p] # "idle" => Agrees(seen[p], wanted[p])

\* What was sent was sent with usage data on, at the end of a process.
SentInv ==
    \A p \in Process :
        /\ sent[p] # None => pc[p] = "done" /\ seen[p] # Damaged /\ TelemetryOn(seen[p])
        /\ p \in reports => pc[p] # "idle" /\ seen[p] # Damaged /\ FeedbackOn(seen[p])

\* Everything the safety of the shared file rests on, as one inductive invariant.
IInv == TypeOK /\ LockInv /\ ChoiceInv /\ SentInv /\ DamageNeedsBreak

\* Every device id that is anywhere is d.
OneDevice(d) ==
    /\ Stored # Damaged => Stored.device \in {None, d}
    /\ \A p \in Process :
          /\ known[p] \in {None, d} /\ sent[p] \in {None, d}
          /\ seen[p] # Damaged => seen[p].device \in {None, d}

\* The device id is generated once, for the file: whoever has one has the file's,
\* and still has it when the file is damaged.
DeviceInv ==
    ~reset =>
        /\ \E d \in Named : OneDevice(d)
        /\ Stored # Damaged => (Stored.device = None => OneDevice(None))

\* Whoever is to print the notice about usage data is the one that changed the
\* file to say that it was shown.
NoticeInv ==
    /\ printed \subseteq marked
    /\ \A p \in marked : stage[p] = "notice" /\ pc[p] \in {"unlock", "print", "send", "done"}
    /\ ~reset =>
          /\ \A p, q \in marked : p = q
          /\ Stored # Damaged /\ marked # {} => "usage" \in Stored.shown

FirstUseInv == IInv /\ DeviceInv /\ NoticeInv
=============================================================================
