-------------------------- MODULE ConfigFileProofs --------------------------
(***************************************************************************)
(* Proofs about ConfigFile, for any number of processes and any commands:  *)
(* the file is changed one command at a time (it implements Settings), and *)
(* nothing is sent against the user's choice.                              *)
(***************************************************************************)
EXTENDS ConfigFile, FiniteSetTheorems, TLAPS

Value == Config \cup {Damaged}

\* A command, and the first-run notice, turn settings into settings.
LEMMA ChangedType ==
    ASSUME NEW p \in Process, NEW c \in Config
    PROVE  /\ \A command_ \in Command : Apply(command_, p, c) \in Config
           /\ \A notices \in SUBSET {"usage", "feedback"} : Announced(notices, p, c) \in Config
<1> USE DEF Config, Named, Choice
<1>1. ASSUME NEW command_ \in Command PROVE Apply(command_, p, c) \in Config
  BY DEF Apply, ClearedLogin, Command
<1>2. ASSUME NEW notices \in SUBSET {"usage", "feedback"} PROVE Announced(notices, p, c) \in Config
  BY DEF Announced, TelemetryOn, FeedbackOn
<1> QED BY <1>1, <1>2

LEMMA DefaultType == Default \in Config /\ Default # Damaged
<1>1. Default \in Config
  BY DEF Default, Config, Named, Choice
<1> QED BY <1>1, SettingsAssumption

\* What the holder of the lock is about to write.
LEMMA ChangedValue ==
    ASSUME TypeOK, LockInv, NEW p \in Process, loaded[p] # Damaged,
           pc[p] \in {"locked", "truncated"}
    PROVE  Changed(p) \in Config /\ loaded[p] \in Config
<1>1. loaded[p] \in Config /\ command[p] \in Command /\ stage[p] \in {"command", "notice"}
  BY DEF TypeOK
<1>2. CASE stage[p] = "command"
  BY <1>1, <1>2, ChangedType DEF Changed
<1>3. CASE stage[p] = "notice"
  <2>1. seen[p] \in Config
    BY <1>3 DEF LockInv, TypeOK
  <2>2. Wanted(seen[p]) \in SUBSET {"usage", "feedback"}
    BY DEF Wanted
  <2> QED BY <1>1, <1>3, <2>2, ChangedType DEF Changed
<1> QED BY <1>1, <1>2, <1>3

\* What a change does to the choices the file records.
LEMMA ChangedAgrees ==
    ASSUME NEW p \in Process, NEW c \in Config, Agrees(c, choices), choices \in Choices
    PROVE  /\ \A command_ \in Command : Agrees(Apply(command_, p, c), Chosen(command_))
           /\ \A notices \in SUBSET {"usage", "feedback"} : Agrees(Announced(notices, p, c), choices)
<1>1. /\ c # Damaged
      /\ c.telemetry = "off" <=> choices.telemetry = "off"
      /\ c.feedback = choices.feedback
  BY SettingsAssumption DEF Agrees
<1>2. ASSUME NEW command_ \in Command PROVE Agrees(Apply(command_, p, c), Chosen(command_))
  <2>1. Apply(command_, p, c).telemetry = "off" <=> Chosen(command_).telemetry = "off"
    BY <1>1 DEF Apply, ClearedLogin, Command, Chosen, Choices, Config
  <2>2. Apply(command_, p, c).feedback = Chosen(command_).feedback
    BY <1>1 DEF Apply, ClearedLogin, Command, Chosen, Choices, Config
  <2> QED BY <2>1, <2>2 DEF Agrees
<1>3. ASSUME NEW notices \in SUBSET {"usage", "feedback"} PROVE Agrees(Announced(notices, p, c), choices)
  BY <1>1 DEF Announced, Agrees, Config
<1> QED BY <1>2, <1>3

LEMMA ChosenType ==
    ASSUME choices \in Choices, NEW c \in Command
    PROVE  Chosen(c) \in Choices
  BY DEF Chosen, Choices, Choice

(***************************************************************************)
(* One step.                                                               *)
(***************************************************************************)
\* Every step is the step of one process, which alone moves.
Moves(p) == \A q \in Process \ {p} : pc'[q] = pc[q]

LEMMA StepMoves ==
    ASSUME TypeOK, NEW p \in Process, Run(p) \/ SaveRefused(p) \/ WriteFails(p) \/ Crash(p)
    PROVE  Moves(p) /\ \E place \in Place : pc' = [pc EXCEPT ![p] = place]
<1> USE DEF Moves, Go, TakeLockFor, TypeOK, Place
<1>1. CASE Start(p) \/ Skip(p) \/ Report(p) \/ Update(p) \/ Lock(p)
  BY <1>1 DEF Start, Skip, Report, Update, Lock
<1>2. CASE Unreadable(p) \/ SaveRefused(p) \/ Remove(p) \/ KeepFile(p) \/ Truncate(p) \/ Write(p) \/ WriteFails(p)
  BY <1>2 DEF Unreadable, SaveRefused, Saves, Remove, KeepFile, Truncate, Write, WriteFails
<1>3. CASE Unlock(p) \/ RecordNothing(p) \/ RecordDirectly(p) \/ RecordWithNotice(p)
  BY <1>3 DEF Unlock, RecordNothing, RecordDirectly, RecordWithNotice
<1>4. CASE PrintNotice(p) \/ Send(p) \/ Crash(p)
  BY <1>4 DEF PrintNotice, Send, Crash
<1> QED BY <1>1, <1>2, <1>3, <1>4 DEF Run

LEMMA TypeKeeps ==
    ASSUME IInv, NEW p \in Process, Run(p) \/ SaveRefused(p) \/ WriteFails(p) \/ Crash(p)
    PROVE  TypeOK'
<1>1. TypeOK /\ LockInv
  BY DEF IInv
<1>2. pc' \in [Process -> Place]
  BY <1>1, StepMoves DEF TypeOK
<1> USE DEF local, history
<1>3. CASE Start(p)
  <2>1. command' \in [Process -> Command]
    BY <1>1, <1>3, ConfigFileAssumption DEF Start, TypeOK
  <2> QED BY <1>1, <1>2, <1>3, <2>1 DEF Start, TypeOK
<1>4. CASE Skip(p) \/ Unlock(p) \/ RecordNothing(p) \/ Crash(p)
  <2>1. None \in Named
    BY DEF Named
  <2> QED BY <1>1, <1>2, <1>4, <2>1 DEF Skip, Unlock, RecordNothing, Crash, TypeOK
<1>5. CASE Report(p) \/ Update(p)
  BY <1>1, <1>2, <1>5 DEF Report, Update, TakeLockFor, TypeOK
<1>6. CASE Lock(p)
  <2>1. p \in Named
    BY DEF Named
  <2> QED BY <1>1, <1>2, <1>6, <2>1 DEF Lock, Load, TypeOK
<1>7. CASE Unreadable(p) \/ SaveRefused(p) \/ Truncate(p) \/ WriteFails(p)
  BY <1>1, <1>2, <1>7 DEF Unreadable, SaveRefused, Saves, Truncate, WriteFails, TypeOK
<1>8. CASE Remove(p)
  BY <1>1, <1>2, <1>8, DefaultType DEF Remove, TypeOK
<1>9. CASE KeepFile(p)
  <2>1. loaded[p] \in Config
    BY <1>1, <1>9 DEF KeepFile, TypeOK
  <2>2. DeviceAfter(p, loaded[p]) \in Named
    BY <1>1, <2>1 DEF DeviceAfter, Config, Named, TypeOK
  <2> QED BY <1>1, <1>2, <1>9, <2>2 DEF KeepFile, TypeOK
<1>10. CASE Write(p)
  <2>1. pc[p] = "truncated" /\ loaded[p] # Damaged
    BY <1>1, <1>10 DEF Write, LockInv
  <2>2. Changed(p) \in Config /\ loaded[p] \in Config
    BY <1>1, <2>1, ChangedValue
  <2>3. DeviceAfter(p, Changed(p)) \in Named
    BY <1>1, <2>2 DEF DeviceAfter, Config, Named, TypeOK
  <2>4. choices' \in Choices
    BY <1>1, <1>10, ChosenType DEF Write, TypeOK
  <2> QED BY <1>1, <1>2, <1>10, <2>2, <2>3, <2>4 DEF Write, TypeOK
<1>11. CASE RecordWithNotice(p) \/ RecordDirectly(p)
  <2>1. seen[p].device \in Named
    BY <1>1, <1>11 DEF RecordWithNotice, RecordDirectly, Recorded, TypeOK, Config
  <2> QED BY <1>1, <1>2, <1>11, <2>1 DEF RecordWithNotice, RecordDirectly, TakeLockFor, TypeOK
<1>12. CASE PrintNotice(p) \/ Send(p)
  BY <1>1, <1>2, <1>12 DEF PrintNotice, Send, TypeOK
<1> QED BY <1>3, <1>4, <1>5, <1>6, <1>7, <1>8, <1>9, <1>10, <1>11, <1>12 DEF Run

\* Locking excludes the other processes, and what was loaded stays the file's
\* content until it is written.
LEMMA LockKeeps ==
    ASSUME IInv, NEW p \in Process, Run(p) \/ SaveRefused(p) \/ WriteFails(p) \/ Crash(p)
    PROVE  LockInv'
<1> SUFFICES ASSUME NEW q \in Process
             PROVE  /\ pc'[q] \in {"locked", "truncated", "unlock"} <=> lock' = q
                    /\ pc'[q] = "locked" => loaded'[q] = file'
                    /\ pc'[q] = "truncated" => file' = Damaged /\ loaded'[q] # Damaged
                    /\ pc'[q] \in {"print", "send"} => seen'[q] # Damaged
                    /\ pc'[q] \in {"lock", "locked", "truncated", "unlock"} /\ stage'[q] = "notice" =>
                          seen'[q] # Damaged
  BY DEF LockInv
<1>1. /\ pc \in [Process -> Place] /\ stage \in [Process -> {"command", "notice"}]
      /\ seen \in [Process -> Value] /\ loaded \in [Process -> Value]
  BY DEF IInv, TypeOK, Value
<1>2. /\ LockInv /\ None \notin Process
  BY SettingsAssumption DEF IInv
<1> USE DEF Go, TakeLockFor, local, history
<1>3. CASE Start(p) \/ Skip(p) \/ Report(p) \/ Update(p)
  BY <1>1, <1>2, <1>3 DEF LockInv, Start, Skip, Report, Update
<1>4. CASE Lock(p)
  BY <1>1, <1>2, <1>4 DEF LockInv, Lock, Load
<1>5. CASE Unreadable(p) \/ SaveRefused(p) \/ Remove(p) \/ KeepFile(p)
  BY <1>1, <1>2, <1>5 DEF LockInv, Unreadable, SaveRefused, Saves, Remove, KeepFile
<1>6. CASE Truncate(p)
  BY <1>1, <1>2, <1>6 DEF LockInv, Truncate, Saves
<1>7. CASE Write(p) \/ WriteFails(p)
  BY <1>1, <1>2, <1>7 DEF LockInv, Write, WriteFails
<1>8. CASE Unlock(p)
  BY <1>1, <1>2, <1>8 DEF LockInv, Unlock
<1>9. CASE RecordNothing(p) \/ RecordWithNotice(p) \/ RecordDirectly(p)
  BY <1>1, <1>2, <1>9 DEF LockInv, RecordNothing, RecordWithNotice, RecordDirectly, Recorded
<1>10. CASE PrintNotice(p) \/ Send(p)
  BY <1>1, <1>2, <1>10 DEF LockInv, PrintNotice, Send
<1>11. CASE Crash(p)
  BY <1>1, <1>2, <1>11 DEF LockInv, Crash, Holds
<1> QED BY <1>3, <1>4, <1>5, <1>6, <1>7, <1>8, <1>9, <1>10, <1>11 DEF Run

\* How a step changes what the file means: not at all, by the whole change of
\* one process, by a logout, or by losing it to an interrupted write.
Untouched == Stored' = Stored /\ choices' = choices /\ reset' = reset
Interrupted == Stored' = Damaged /\ choices' = choices /\ reset' = reset /\ breaks' > 0

LEMMA StoredStep ==
    ASSUME IInv, NEW p \in Process, Run(p) \/ SaveRefused(p) \/ WriteFails(p) \/ Crash(p)
    PROVE  \/ Untouched
           \/ Write(p) /\ Stored = loaded[p] /\ Stored' = Changed(p) /\ loaded[p] # Damaged
           \/ Remove(p) /\ Stored = loaded[p] /\ Stored' = Default
           \/ Interrupted
<1>1. /\ pc \in [Process -> Place] /\ lock \in Named /\ None \notin Process
      /\ loaded \in [Process -> Value] /\ breaks \in Nat
  BY SettingsAssumption DEF IInv, TypeOK, Value
<1>2. LockInv
  BY DEF IInv
<1>3. lock # None => lock \in Process
  BY <1>1 DEF Named
<1> USE DEF Go, TakeLockFor, local, history
<1>4. CASE Start(p) \/ Skip(p) \/ Report(p) \/ Update(p)
  BY <1>1, <1>2, <1>3, <1>4 DEF LockInv, Start, Skip, Report, Update, Stored, Untouched
<1>5. CASE Lock(p)
  BY <1>1, <1>2, <1>3, <1>5 DEF LockInv, Lock, Stored, Untouched
<1>6. CASE Unreadable(p) \/ SaveRefused(p) \/ KeepFile(p)
  BY <1>1, <1>2, <1>3, <1>6 DEF LockInv, Unreadable, SaveRefused, Saves, KeepFile, Stored, Untouched
<1>7. CASE Remove(p)
  <2>1. lock = p /\ Stored = loaded[p] /\ lock' = p /\ pc'[p] = "unlock"
    BY <1>1, <1>2, <1>7 DEF LockInv, Remove, Stored
  <2> QED BY <1>7, <2>1 DEF Remove, Stored
<1>8. CASE Truncate(p)
  <2>1. lock = p /\ Stored = loaded[p] /\ lock' = p /\ pc'[p] = "truncated"
    BY <1>1, <1>2, <1>8 DEF LockInv, Truncate, Saves, Stored
  <2> QED BY <1>1, <1>8, <2>1 DEF Truncate, Saves, Stored, Untouched
<1>9. CASE Write(p)
  <2>1. lock = p /\ Stored = loaded[p] /\ lock' = p /\ pc'[p] = "unlock" /\ loaded[p] # Damaged
    BY <1>1, <1>2, <1>9 DEF LockInv, Write, Stored
  <2> QED BY <1>9, <2>1 DEF Write, Stored
<1>10. CASE WriteFails(p)
  <2>1. lock = p /\ file = Damaged /\ lock' = p /\ pc'[p] = "unlock"
    BY <1>1, <1>2, <1>10 DEF LockInv, WriteFails
  <2> QED BY <1>1, <1>10, <2>1 DEF WriteFails, Stored, Interrupted
<1>11. CASE Unlock(p)
  <2>1. lock = p /\ Stored = file /\ lock' = None
    BY <1>1, <1>2, <1>11 DEF LockInv, Unlock, Stored
  <2> QED BY <1>11, <2>1 DEF Unlock, Stored, Untouched
<1>12. CASE RecordNothing(p) \/ RecordWithNotice(p) \/ RecordDirectly(p)
  BY <1>1, <1>2, <1>3, <1>12
  DEF LockInv, RecordNothing, RecordWithNotice, RecordDirectly, Recorded, Stored, Untouched
<1>13. CASE PrintNotice(p) \/ Send(p)
  BY <1>1, <1>2, <1>3, <1>13 DEF LockInv, PrintNotice, Send, Stored, Untouched
<1>14. CASE Crash(p)
  <2>1. breaks' > 0 /\ choices' = choices /\ reset' = reset /\ file' = file /\ loaded' = loaded
    BY <1>1, <1>14 DEF Crash
  <2>2. CASE lock = p
    <3>1. Stored' = file
      BY <1>14, <2>2, <2>1 DEF Crash, Holds, Stored
    <3>2. CASE pc[p] = "truncated"
      BY <1>2, <2>1, <2>2, <3>1, <3>2 DEF LockInv, Interrupted
    <3>3. CASE pc[p] # "truncated"
      BY <1>1, <2>1, <2>2, <3>1, <3>3 DEF Stored, Untouched
    <3> QED BY <3>2, <3>3
  <2>3. CASE lock # p
    BY <1>1, <1>3, <1>14, <2>1, <2>3 DEF Crash, Holds, Stored, Untouched
  <2> QED BY <2>2, <2>3
<1> QED BY <1>4, <1>5, <1>6, <1>7, <1>8, <1>9, <1>10, <1>11, <1>12, <1>13, <1>14 DEF Run

\* Only crashes and failed writes damage the file.
LEMMA DamageKeeps ==
    ASSUME IInv, NEW p \in Process, Run(p) \/ SaveRefused(p) \/ WriteFails(p) \/ Crash(p)
    PROVE  DamageNeedsBreak'
<1>1. breaks \in Nat /\ (breaks' = breaks \/ breaks' = breaks + 1)
  BY DEF IInv, TypeOK, Run, Start, Skip, Report, Update, Lock, Unreadable, SaveRefused, Saves, Remove, KeepFile,
     Truncate, Write, WriteFails, Unlock, RecordNothing, RecordWithNotice, RecordDirectly,
     PrintNotice, Send, Crash
<1>2. CASE Untouched
  <2>1. Stored' = Damaged => breaks > 0
    BY <1>2 DEF Untouched, IInv, DamageNeedsBreak
  <2> QED BY <1>1, <2>1 DEF DamageNeedsBreak
<1>3. CASE Interrupted
  BY <1>3 DEF Interrupted, DamageNeedsBreak
<1>4. CASE Write(p) /\ Stored' = Changed(p) /\ loaded[p] # Damaged
  <2>1. Changed(p) \in Config
    BY <1>4, ChangedValue DEF IInv, Write
  <2> QED BY <1>4, <2>1, SettingsAssumption DEF DamageNeedsBreak
<1>5. CASE Stored' = Default
  BY <1>5, DefaultType DEF DamageNeedsBreak
<1> QED BY <1>2, <1>3, <1>4, <1>5, StoredStep

\* The file records the user's choices, and so did what a process read of it.
LEMMA ChoiceKeeps ==
    ASSUME IInv, NEW p \in Process, Run(p) \/ SaveRefused(p) \/ WriteFails(p) \/ Crash(p)
    PROVE  ChoiceInv'
<1>1. TypeOK /\ LockInv /\ ChoiceInv
  BY DEF IInv
<1> USE DEF local, history
<1>2. ~reset' => ~reset
  BY <1>1 DEF Run, Start, Skip, Report, Update, Lock, Unreadable, SaveRefused, Saves, Remove, KeepFile,
     Truncate, Write, WriteFails, Unlock, RecordNothing, RecordWithNotice, RecordDirectly,
     PrintNotice, Send, Crash, TypeOK
<1>3. SUFFICES ASSUME ~reset, ~reset'
               PROVE  /\ Agrees(Stored', choices')
                      /\ \A q \in Process : pc'[q] # "idle" => Agrees(seen'[q], wanted'[q])
  BY <1>2 DEF ChoiceInv, Agrees
<1>4. Agrees(Stored, choices)
  BY <1>1, <1>3 DEF ChoiceInv
<1>5. Agrees(Stored', choices')
  <2>1. CASE Untouched
    BY <1>4, <2>1 DEF Untouched
  <2>2. CASE Interrupted
    BY <2>2 DEF Interrupted, Agrees
  <2>3. CASE Write(p) /\ Stored = loaded[p] /\ Stored' = Changed(p) /\ loaded[p] # Damaged
    <3>1. loaded[p] \in Config /\ choices \in Choices
      BY <1>1, <2>3 DEF TypeOK
    <3>2. CASE stage[p] = "command"
      <4>1. choices' = Chosen(command[p]) /\ Changed(p) = Apply(command[p], p, loaded[p])
        BY <2>3, <3>2 DEF Write, Changed
      <4>2. command[p] \in Command
        BY <1>1 DEF TypeOK
      <4> QED BY <1>4, <2>3, <3>1, <4>1, <4>2, ChangedAgrees
    <3>3. CASE stage[p] # "command"
      <4>1. choices' = choices /\ Changed(p) = Announced(Wanted(seen[p]), p, loaded[p])
        BY <2>3, <3>3 DEF Write, Changed
      <4>2. Wanted(seen[p]) \in SUBSET {"usage", "feedback"}
        BY DEF Wanted
      <4> QED BY <1>4, <2>3, <3>1, <4>1, <4>2, ChangedAgrees
    <3> QED BY <3>2, <3>3
  <2>4. CASE Remove(p) /\ Stored = loaded[p] /\ Stored' = Default
    <3>1. loaded[p] # Damaged /\ loaded[p] \in Config /\ choices \in Choices
      BY <1>1, <1>3, <2>4 DEF Remove, TypeOK
    <3>2. /\ choices' = choices /\ command[p] = "logout"
          /\ Apply(command[p], p, loaded[p]) = Default
      BY <2>4, <3>1 DEF Remove, Changed
    <3>3. "logout" \in Command /\ Chosen("logout") = choices
      BY DEF Command, Chosen
    <3>4. Agrees(Apply("logout", p, loaded[p]), choices)
      BY <1>4, <2>4, <3>1, <3>3, ChangedAgrees
    <3> QED BY <2>4, <3>2, <3>4
  <2> QED BY <2>1, <2>2, <2>3, <2>4, StoredStep
<1>6. ASSUME NEW q \in Process, pc'[q] # "idle" PROVE Agrees(seen'[q], wanted'[q])
  <2>1. CASE Start(p) /\ q = p
    <3>1. file = Damaged \/ Stored = file
      BY <1>1, SettingsAssumption DEF LockInv, Stored, TypeOK, Named
    <3>2. Agrees(file, choices)
      BY <1>4, <3>1 DEF Agrees
    <3>3. seen'[p] = file /\ wanted'[p] = choices
      BY <1>1, <2>1 DEF Start, TypeOK
    <3> QED BY <2>1, <3>2, <3>3
  <2>2. CASE ~(Start(p) /\ q = p)
    <3>1. seen'[q] = seen[q] /\ wanted'[q] = wanted[q]
      BY <1>1, <2>2 DEF Run, Start, Skip, Report, Update, Lock, Unreadable, SaveRefused, Saves, Remove, KeepFile,
         Truncate, Write, WriteFails, Unlock, RecordNothing, RecordWithNotice, RecordDirectly,
         PrintNotice, Send, Crash, TypeOK
    <3>2. pc[q] # "idle"
      <4>1. CASE q = p
        BY <2>2, <4>1 DEF Run, Start, Skip, Report, Update, Lock, Unreadable, SaveRefused, Saves, Remove, KeepFile,
           Truncate, Write, WriteFails, Unlock, RecordNothing, RecordWithNotice, RecordDirectly,
           Recorded, PrintNotice, Send, Crash
      <4>2. CASE q # p
        BY <1>1, <1>6, <4>2, StepMoves DEF Moves
      <4> QED BY <4>1, <4>2
    <3> QED BY <1>1, <1>3, <3>1, <3>2 DEF ChoiceInv
  <2> QED BY <2>1, <2>2
<1> QED BY <1>5, <1>6

\* Events and reports are sent by processes for which they were on.
LEMMA SentKeeps ==
    ASSUME IInv, NEW p \in Process, Run(p) \/ SaveRefused(p) \/ WriteFails(p) \/ Crash(p)
    PROVE  SentInv'
<1>1. TypeOK /\ SentInv
  BY DEF IInv
<1>2. /\ pc \in [Process -> Place] /\ sent \in [Process -> Named]
      /\ seen \in [Process -> Value] /\ reports \subseteq Process
  BY <1>1 DEF TypeOK, Value
<1> USE DEF local, history, Go, TakeLockFor
<1>3. CASE Start(p)
  BY <1>1, <1>2, <1>3 DEF SentInv, Start, TelemetryOn, FeedbackOn
<1>4. CASE Report(p)
  BY <1>1, <1>2, <1>4 DEF SentInv, Report, TelemetryOn, FeedbackOn
<1>5. CASE Send(p)
  <2>1. sent[p] = None
    BY <1>1, <1>2, <1>5 DEF SentInv, Send
  <2>2. MaySend(p) => seen[p] # Damaged /\ TelemetryOn(seen[p])
    BY <1>5 DEF IInv, LockInv, Send, MaySend
  <2> QED BY <1>1, <1>2, <1>5, <2>1, <2>2 DEF SentInv, Send
<1>6. CASE ~Start(p) /\ ~Report(p) /\ ~Send(p)
  <2>1. UNCHANGED <<sent, seen, reports>>
    BY <1>6 DEF Run, Skip, Update, Lock, Unreadable, SaveRefused, Saves, Remove, KeepFile,
       Truncate, Write, WriteFails, Unlock, RecordNothing, RecordWithNotice, RecordDirectly,
       PrintNotice, Crash
  <2>2. pc[p] # "done" /\ pc'[p] # "idle"
    BY <1>2, <1>6 DEF Run, Skip, Update, Lock, Unreadable, SaveRefused, Saves, Remove, KeepFile,
       Truncate, Write, WriteFails, Unlock, RecordNothing, RecordWithNotice, RecordDirectly,
       Recorded, PrintNotice, Crash
  <2>3. \A q \in Process \ {p} : pc'[q] = pc[q]
    BY <1>1, StepMoves DEF Moves
  <2> QED BY <1>1, <2>1, <2>2, <2>3 DEF SentInv
<1> QED BY <1>3, <1>4, <1>5, <1>6

(***************************************************************************)
(* Theorems.                                                               *)
(***************************************************************************)
LEMMA InitInv == Init => IInv
<1> SUFFICES ASSUME Init PROVE IInv
  OBVIOUS
<1> USE DEF Init
<1>1. TypeOK
  BY DefaultType DEF TypeOK, Named, Place, Command, NoChoice, Choices, Choice
<1>2. LockInv
  BY SettingsAssumption DEF LockInv
<1>3. Stored = Default /\ Stored # Damaged
  BY DefaultType DEF Stored
<1>4. ChoiceInv
  BY <1>3 DEF ChoiceInv, Agrees, Default, NoChoice
<1>5. SentInv /\ DamageNeedsBreak
  BY <1>3 DEF SentInv, DamageNeedsBreak
<1> QED BY <1>1, <1>2, <1>4, <1>5 DEF IInv

LEMMA NextInv == IInv /\ [Next]_vars => IInv'
<1> SUFFICES ASSUME IInv, [Next]_vars PROVE IInv'
  OBVIOUS
<1>1. ASSUME NEW p \in Process, Run(p) \/ SaveRefused(p) \/ WriteFails(p) \/ Crash(p) PROVE IInv'
  BY <1>1, TypeKeeps, LockKeeps, ChoiceKeeps, SentKeeps, DamageKeeps DEF IInv
<1>2. CASE UNCHANGED vars
  <2>1. Stored' = Stored
    BY <1>2 DEF vars, local, Stored
  <2> QED BY <1>2, <2>1 DEF vars, local, history, IInv, TypeOK, LockInv, ChoiceInv, SentInv,
                            DamageNeedsBreak, Agrees
<1> QED BY <1>1, <1>2 DEF Next, Finished

\* One holder of the lock, a file that records the user's choices, and nothing
\* sent that was off (config.Update, Recorder.Record).
THEOREM SafetyInvariant == Spec => []IInv
<1> QED BY InitInv, NextInv, PTL DEF Spec

\* The variables keep their types: a process never sends an id that is not one.
THEOREM TypeCorrect == Spec => []TypeOK
<1>1. IInv => TypeOK
  BY DEF IInv
<1> QED BY <1>1, SafetyInvariant, PTL

\* Nothing is sent by a process started after the user turned it off, however
\* many processes run, whatever they do (Recorder.Record, feedback).
THEOREM OptOut == Spec => []OptOutHonoured
<1>1. IInv => OptOutHonoured
  BY DEF IInv, ChoiceInv, SentInv, Agrees, OptOutHonoured, TelemetryOn, FeedbackOn
<1> QED BY <1>1, SafetyInvariant, PTL

\* The file is only ever lost to a crash or a failed write.
THEOREM DamageExplained == Spec => []DamageNeedsBreak
<1>1. IInv => DamageNeedsBreak
  BY DEF IInv
<1> QED BY <1>1, SafetyInvariant, PTL

\* The abstract specification changes settings the way the commands do.
LEMMA SameValues ==
    /\ Store!Default = Default /\ Store!Command = Command
    /\ \A c, p, s : Store!Apply(c, p, s) = Apply(c, p, s)
    /\ \A n, p, s : Store!Announced(n, p, s) = Announced(n, p, s)
<1>1. Store!Default = Default /\ Store!Command = Command
  BY DEF Store!Default, Default, Store!Command, Command
<1>2. ASSUME NEW c, NEW p, NEW s PROVE Store!Apply(c, p, s) = Apply(c, p, s)
  BY DEF Store!Apply, Store!ClearedLogin, Apply, ClearedLogin
<1>3. ASSUME NEW n, NEW p, NEW s PROVE Store!Announced(n, p, s) = Announced(n, p, s)
  BY DEF Store!Announced, Store!TelemetryOn, Store!FeedbackOn, Announced, TelemetryOn, FeedbackOn
<1> QED BY <1>1, <1>2, <1>3

\* Commands running side by side change the file as if each ran alone: the file
\* under its lock implements Settings (config.Update, config.ClearLogin).
THEOREM Implements == Spec => OneAtATime
<1>1. Init => Store!Init
  BY SameValues DEF Init, Store!Init, Stored
<1>2. IInv /\ [Next]_vars => [Store!Next]_Stored
  <2> SUFFICES ASSUME IInv, [Next]_vars PROVE Store!Next \/ Stored' = Stored
    OBVIOUS
  <2> USE DEF Store!Next, Store!Lose, Store!Reset
  <2>1. ASSUME NEW p \in Process, Run(p) \/ SaveRefused(p) \/ WriteFails(p) \/ Crash(p)
        PROVE  Store!Next \/ Stored' = Stored
    <3>1. CASE Untouched \/ Interrupted
      BY <3>1 DEF Untouched, Interrupted
    <3>2. CASE Write(p) /\ Stored = loaded[p] /\ Stored' = Changed(p) /\ loaded[p] # Damaged
      <4>1. CASE stage[p] = "command"
        <5>1. command[p] \in Command
          BY DEF IInv, TypeOK
        <5> QED BY <3>2, <4>1, <5>1, SameValues DEF Changed, Store!Change
      <4>2. CASE stage[p] # "command"
        <5>1. Wanted(seen[p]) \in SUBSET {"usage", "feedback"}
          BY DEF Wanted
        <5> QED BY <3>2, <4>2, <5>1, SameValues DEF Changed, Store!Change
      <4> QED BY <4>1, <4>2
    <3>3. CASE Remove(p) /\ Stored = loaded[p] /\ Stored' = Default
      <4>1. CASE loaded[p] = Damaged
        BY <3>3, <4>1, SameValues
      <4>2. CASE loaded[p] # Damaged
        <5>1. Apply("logout", p, Stored) = Default
          BY <3>3, <4>2 DEF Remove, Changed
        <5>2. "logout" \in Command
          BY DEF Command
        <5> QED BY <3>3, <4>2, <5>1, <5>2, SameValues DEF Store!Change
      <4> QED BY <4>1, <4>2
    <3> QED BY <2>1, <3>1, <3>2, <3>3, StoredStep
  <2>2. CASE UNCHANGED vars
    BY <2>2 DEF vars, local, Stored
  <2> QED BY <2>1, <2>2 DEF Next, Finished
<1> QED BY <1>1, <1>2, SafetyInvariant, PTL DEF Spec, OneAtATime, Store!Spec

(***************************************************************************)
(* The first use of a machine.                                             *)
(***************************************************************************)
Step(p) == Run(p) \/ SaveRefused(p) \/ WriteFails(p) \/ Crash(p)

\* No command changes the device id or takes a notice back, and the notice makes
\* an id only where there is none.
LEMMA ChangedDevice ==
    ASSUME NEW p \in Process, NEW c \in Config
    PROVE  /\ \A command_ \in Command : /\ Apply(command_, p, c).device = c.device
                                        /\ c.shown \subseteq Apply(command_, p, c).shown
           /\ \A notices \in SUBSET {"usage", "feedback"} :
                 /\ Announced(notices, p, c).device \in {c.device, p}
                 /\ c.device # None => Announced(notices, p, c).device = c.device
                 /\ c.shown \subseteq Announced(notices, p, c).shown
<1> USE DEF Config
<1>1. ASSUME NEW command_ \in Command
      PROVE  /\ Apply(command_, p, c).device = c.device
             /\ c.shown \subseteq Apply(command_, p, c).shown
  BY DEF Apply, ClearedLogin, Command
<1>2. ASSUME NEW notices \in SUBSET {"usage", "feedback"}
      PROVE  /\ Announced(notices, p, c).device \in {c.device, p}
             /\ c.device # None => Announced(notices, p, c).device = c.device
             /\ c.shown \subseteq Announced(notices, p, c).shown
  BY DEF Announced
<1> QED BY <1>1, <1>2

\* A logout of a damaged file stays known.
LEMMA ResetStays ==
    ASSUME TypeOK, NEW p \in Process, Step(p), ~reset'
    PROVE  ~reset
  BY DEF Step, Run, Start, Skip, Report, Update, Lock, Unreadable, SaveRefused, Saves, Remove,
     KeepFile, Truncate, Write, WriteFails, Unlock, RecordNothing, RecordWithNotice, RecordDirectly,
     PrintNotice, Send, Crash, TypeOK, local, history

\* Without one, the file keeps its device id and its notices until it is damaged,
\* and only a write generates an id, where there was none.
LEMMA DeviceStep ==
    ASSUME IInv, NEW p \in Process, Step(p), ~reset', Stored' # Damaged
    PROVE  /\ Stored # Damaged
           /\ Stored.shown \subseteq Stored'.shown
           /\ \/ Stored'.device = Stored.device
              \/ Write(p) /\ Stored.device = None /\ Stored'.device = p
<1>1. TypeOK /\ LockInv
  BY DEF IInv
<1>2. CASE Untouched
  BY <1>2 DEF Untouched
<1>3. CASE Write(p) /\ Stored = loaded[p] /\ Stored' = Changed(p) /\ loaded[p] # Damaged
  <2>1. loaded[p] \in Config /\ command[p] \in Command
    BY <1>1, <1>3 DEF TypeOK
  <2>2. Wanted(seen[p]) \in SUBSET {"usage", "feedback"}
    BY DEF Wanted
  <2>3. CASE stage[p] = "command"
    BY <1>3, <2>1, <2>3, ChangedDevice DEF Changed
  <2>4. CASE stage[p] # "command"
    <3>1. /\ Stored'.device \in {loaded[p].device, p}
          /\ loaded[p].device # None => Stored'.device = loaded[p].device
          /\ loaded[p].shown \subseteq Stored'.shown
      BY <1>3, <2>1, <2>2, <2>4, ChangedDevice DEF Changed
    <3> QED BY <1>3, <3>1
  <2> QED BY <2>3, <2>4
<1>4. CASE Remove(p) /\ Stored = loaded[p] /\ Stored' = Default
  <2>1. loaded[p] # Damaged
    BY <1>4 DEF Remove
  <2>2. loaded[p] \in Config
    BY <1>1, <2>1 DEF TypeOK
  <2>3. Apply("logout", p, loaded[p]) = Default
    BY <1>4, <2>1 DEF Remove, Changed
  <2>4. "logout" \in Command
    BY DEF Command
  <2>5. Default.device = loaded[p].device /\ loaded[p].shown \subseteq Default.shown
    BY <2>2, <2>3, <2>4, ChangedDevice
  <2> QED BY <1>4, <2>1, <2>5
<1>5. CASE Interrupted
  BY <1>5 DEF Interrupted
<1> QED BY <1>2, <1>3, <1>4, <1>5, StoredStep DEF Step

\* Where a process gets a device id from.
LEMMA KnownStep ==
    ASSUME IInv, NEW p \in Process, Step(p), NEW q \in Process
    PROVE  /\ \/ known'[q] = known[q]
              \/ known'[q] = None
              \/ seen[q] # Damaged /\ known'[q] = seen[q].device
              \/ Stored' # Damaged /\ known'[q] = Stored'.device
           /\ sent'[q] \in {sent[q], known[q]}
           /\ \/ seen'[q] = seen[q]
              \/ seen'[q] = Damaged
              \/ Stored' = Stored /\ seen'[q] = Stored
<1>1. TypeOK /\ LockInv /\ None \notin Process
  BY SettingsAssumption DEF IInv
<1>2. /\ known \in [Process -> Named] /\ sent \in [Process -> Named] /\ pc \in [Process -> Place]
      /\ seen \in [Process -> Config \cup {Damaged}] /\ lock \in Named
      /\ stage \in [Process -> {"command", "notice"}]
  BY <1>1 DEF TypeOK
<1> USE DEF local, history, Go, TakeLockFor
<1>3. CASE Start(p)
  <2>1. UNCHANGED <<known, sent, file, lock, loaded>> /\ seen' = [seen EXCEPT ![p] = file]
    BY <1>3 DEF Start
  <2>2. Stored' = Stored
    BY <1>1, <1>2, <1>3 DEF Start, LockInv, Stored, Named
  <2>3. file = Damaged \/ Stored = file
    BY <1>1, <1>2 DEF LockInv, Stored, Named
  <2> QED BY <1>2, <2>1, <2>2, <2>3
<1>4. CASE Write(p)
  <2>1. Stored' = Changed(p) /\ loaded[p] # Damaged
    BY <1>1, <1>2, <1>4 DEF Write, LockInv, Stored
  <2>2. Changed(p) # Damaged
    BY <1>1, <1>4, <2>1, ChangedValue, SettingsAssumption DEF Write
  <2>3. known'[q] \in {known[q], None, Changed(p).device}
    BY <1>2, <1>4 DEF Write, DeviceAfter
  <2> QED BY <1>4, <2>1, <2>2, <2>3 DEF Write
<1>5. CASE KeepFile(p)
  <2>1. Stored' = loaded[p] /\ loaded[p] # Damaged
    BY <1>1, <1>2, <1>5 DEF KeepFile, LockInv, Stored
  <2>2. known'[q] \in {known[q], None, loaded[p].device}
    BY <1>2, <1>5 DEF KeepFile, DeviceAfter
  <2> QED BY <1>5, <2>1, <2>2 DEF KeepFile
<1>6. CASE RecordWithNotice(p) \/ RecordDirectly(p)
  BY <1>2, <1>6 DEF RecordWithNotice, RecordDirectly, Recorded
<1>7. CASE Send(p)
  BY <1>2, <1>7 DEF Send
<1>8. CASE /\ ~Start(p) /\ ~Write(p) /\ ~KeepFile(p)
           /\ ~RecordWithNotice(p) /\ ~RecordDirectly(p) /\ ~Send(p)
  BY <1>8 DEF Step, Run, Skip, Report, Update, Lock, Unreadable, SaveRefused, Saves, Remove, Truncate,
     WriteFails, Unlock, RecordNothing, PrintNotice, Crash
<1> QED BY <1>3, <1>4, <1>5, <1>6, <1>7, <1>8

\* All device ids there are stay one.
LEMMA DeviceKeeps == ASSUME FirstUseInv, NEW p \in Process, Step(p) PROVE DeviceInv'
<1>1. SUFFICES ASSUME ~reset'
               PROVE  /\ \E d \in Named : OneDevice(d)'
                      /\ Stored' # Damaged => (Stored'.device = None => OneDevice(None)')
  BY DEF DeviceInv
<1>2. IInv /\ TypeOK /\ ~reset
  BY <1>1, ResetStays DEF FirstUseInv, IInv
<1>3. PICK d \in Named : OneDevice(d)
  BY <1>2 DEF FirstUseInv, DeviceInv
<1>4. Stored # Damaged => (Stored.device = None => OneDevice(None))
  BY <1>2 DEF FirstUseInv, DeviceInv
<1>5. ASSUME NEW e \in Named, OneDevice(e), Stored' # Damaged => Stored'.device \in {None, e}
      PROVE  OneDevice(e)'
  BY <1>2, <1>5, KnownStep DEF OneDevice
<1>6. None \in Named /\ p \in Named
  BY DEF Named
<1>7. CASE Stored' = Damaged
  BY <1>3, <1>5, <1>7
<1>8. CASE Stored' # Damaged
  <2>1. CASE Stored'.device = Stored.device
    <3>1. Stored # Damaged
      BY <1>1, <1>2, <1>8, DeviceStep
    <3>2. Stored'.device \in {None, d}
      BY <1>3, <2>1, <3>1 DEF OneDevice
    <3>3. OneDevice(d)'
      BY <1>3, <1>5, <3>2
    <3>4. Stored'.device = None => OneDevice(None)'
      BY <1>4, <1>5, <1>6, <2>1, <3>1
    <3> QED BY <3>3, <3>4
  <2>2. CASE Stored'.device # Stored.device
    <3>1. Stored # Damaged /\ Stored.device = None /\ Stored'.device = p
      BY <1>1, <1>2, <1>8, <2>2, DeviceStep
    <3>2. OneDevice(None)
      BY <1>4, <3>1
    <3>3. OneDevice(p)
      BY <3>1, <3>2 DEF OneDevice
    <3>4. OneDevice(p)' /\ p # None
      BY <1>5, <1>6, <3>1, <3>3, SettingsAssumption
    <3> QED BY <1>6, <3>1, <3>4
  <2> QED BY <2>1, <2>2
<1> QED BY <1>7, <1>8

\* One process is to print the notice, and prints it at most once.
LEMMA NoticeKeeps == ASSUME FirstUseInv, NEW p \in Process, Step(p) PROVE NoticeInv'
<1>1. TypeOK /\ LockInv /\ IInv /\ NoticeInv
  BY DEF FirstUseInv, IInv
<1>2. /\ pc \in [Process -> Place] /\ stage \in [Process -> {"command", "notice"}]
      /\ marked \subseteq Process /\ printed \subseteq Process
  BY <1>1 DEF TypeOK
<1>3. /\ marked' \subseteq marked \cup {p}
      /\ p \in marked' /\ p \notin marked =>
            /\ Write(p) /\ stage[p] = "notice"
            /\ "usage" \in Changed(p).shown \ loaded[p].shown
  BY <1>2 DEF Step, Run, Start, Skip, Report, Update, Lock, Unreadable, SaveRefused, Saves, Remove,
     KeepFile, Truncate, Write, WriteFails, Unlock, RecordNothing, RecordWithNotice, RecordDirectly,
     PrintNotice, Send, Crash, TakeLockFor, local, history
<1>4. printed' \subseteq marked'
  BY <1>1, <1>2 DEF NoticeInv, Step, Run, Start, Skip, Report, Update, Lock, Unreadable, SaveRefused,
     Saves, Remove, KeepFile, Truncate, Write, WriteFails, Unlock, RecordNothing, RecordWithNotice,
     RecordDirectly, PrintNotice, Send, Crash, TakeLockFor, local, history
<1>5. ASSUME NEW q \in marked'
      PROVE  stage'[q] = "notice" /\ pc'[q] \in {"unlock", "print", "send", "done"}
  <2>1. CASE q # p
    <3>1. q \in marked /\ q \in Process
      BY <1>2, <1>3, <1>5, <2>1
    <3>2. pc'[q] = pc[q]
      BY <1>1, <2>1, <3>1, StepMoves DEF Moves, Step
    <3>3. stage'[q] = stage[q]
      BY <1>2, <2>1, <3>1 DEF Step, Run, Start, Skip, Report, Update, Lock, Unreadable, SaveRefused,
         Saves, Remove, KeepFile, Truncate, Write, WriteFails, Unlock, RecordNothing,
         RecordWithNotice, RecordDirectly, PrintNotice, Send, Crash, TakeLockFor, local, history
    <3> QED BY <1>1, <3>1, <3>2, <3>3 DEF NoticeInv
  <2>2. CASE q = p /\ p \notin marked
    BY <1>2, <1>3, <2>2 DEF Write, Go, local
  <2>3. CASE q = p /\ p \in marked
    <3>1. stage[p] = "notice" /\ pc[p] \in {"unlock", "print", "send", "done"}
      BY <1>1, <2>3 DEF NoticeInv
    <3>2. Unlock(p) \/ PrintNotice(p) \/ Send(p) \/ Crash(p)
      BY <3>1 DEF Step, Run, Start, Skip, Report, Update, Lock, Unreadable, SaveRefused,
         Saves, Remove, KeepFile, Truncate, Write, WriteFails, RecordNothing,
         RecordWithNotice, RecordDirectly, Recorded
    <3> QED BY <1>2, <2>3, <3>1, <3>2 DEF Unlock, PrintNotice, Send, Crash, Go, local
  <2> QED BY <2>1, <2>2, <2>3
<1>6. ASSUME ~reset'
      PROVE  /\ \A q, r \in marked' : q = r
             /\ Stored' # Damaged /\ marked' # {} => "usage" \in Stored'.shown
  <2>1. ~reset
    BY <1>1, <1>6, ResetStays
  <2>2. /\ \A q, r \in marked : q = r
        /\ Stored # Damaged /\ marked # {} => "usage" \in Stored.shown
    BY <1>1, <2>1 DEF NoticeInv
  <2>3. Stored' # Damaged => Stored # Damaged /\ Stored.shown \subseteq Stored'.shown
    BY <1>1, <1>6, DeviceStep
  <2>4. CASE marked' \subseteq marked
    BY <2>2, <2>3, <2>4
  <2>5. CASE ~(marked' \subseteq marked)
    <3>1. p \in marked' /\ p \notin marked
      BY <1>3, <2>5
    <3>2. Write(p) /\ "usage" \in Changed(p).shown /\ "usage" \notin loaded[p].shown
      BY <1>3, <3>1
    <3>3. Stored = loaded[p] /\ Stored' = Changed(p) /\ loaded[p] # Damaged
      BY <1>1, <1>2, <3>2, SettingsAssumption DEF Write, Go, LockInv, Stored
    <3>4. marked = {}
      BY <2>2, <3>2, <3>3
    <3> QED BY <1>3, <3>2, <3>3, <3>4
  <2> QED BY <2>4, <2>5
<1> QED BY <1>4, <1>5, <1>6 DEF NoticeInv

LEMMA FirstUseStarts == Init => FirstUseInv
<1> SUFFICES ASSUME Init PROVE FirstUseInv
  OBVIOUS
<1>1. Stored = Default /\ Default.device = None
  BY DEF Init, Stored, Default
<1>2. \A p \in Process : known[p] = None /\ sent[p] = None /\ seen[p] = Default
  BY DEF Init
<1>3. OneDevice(None) /\ None \in Named
  BY <1>1, <1>2 DEF OneDevice, Named
<1>4. DeviceInv
  BY <1>3 DEF DeviceInv
<1>5. NoticeInv
  BY DEF NoticeInv, Init
<1> QED BY <1>4, <1>5, InitInv DEF FirstUseInv

LEMMA FirstUseKeeps == FirstUseInv /\ [Next]_vars => FirstUseInv'
<1> SUFFICES ASSUME FirstUseInv, [Next]_vars PROVE FirstUseInv'
  OBVIOUS
<1>1. IInv'
  BY NextInv DEF FirstUseInv
<1>2. ASSUME NEW p \in Process, Step(p) PROVE FirstUseInv'
  BY <1>1, <1>2, DeviceKeeps, NoticeKeeps DEF FirstUseInv
<1>3. CASE UNCHANGED vars
  <2>1. Stored' = Stored
    BY <1>3 DEF vars, local, Stored
  <2>2. DeviceInv' /\ NoticeInv'
    BY <1>3, <2>1 DEF vars, local, history, FirstUseInv, DeviceInv, OneDevice, NoticeInv
  <2> QED BY <1>1, <2>2 DEF FirstUseInv
<1> QED BY <1>2, <1>3 DEF Next, Finished, Step

\* However many processes find a new machine at the same time, the notice is
\* printed at most once and all events carry one device id (initialize).
THEOREM FirstUse == Spec => []FirstUseOnce
<1>1. FirstUseInv => FirstUseOnce
  <2> SUFFICES ASSUME FirstUseInv, ~reset
               PROVE  /\ Cardinality(printed) <= 1
                      /\ \A p, q \in Process : sent[p] # None /\ sent[q] # None => sent[p] = sent[q]
    BY DEF FirstUseOnce
  <2>1. Cardinality(printed) <= 1
    <3>1. \A p, q \in printed : p = q
      BY DEF FirstUseInv, NoticeInv
    <3>2. CASE printed = {}
      BY <3>2, FS_EmptySet
    <3>3. CASE printed # {}
      <4>1. PICK p \in printed : TRUE
        BY <3>3
      <4>2. printed = {p}
        BY <3>1, <4>1
      <4>3. Cardinality({p}) = 1
        BY FS_Singleton
      <4> QED BY <4>2, <4>3
    <3> QED BY <3>2, <3>3
  <2>2. PICK d \in Named : OneDevice(d)
    BY DEF FirstUseInv, DeviceInv
  <2> QED BY <2>1, <2>2 DEF OneDevice
<1> QED BY <1>1, FirstUseStarts, FirstUseKeeps, PTL DEF Spec

(***************************************************************************)
(* The length of a process.                                                *)
(***************************************************************************)
\* A process takes the lock again only for the notice, after its command.
LEMMA StepShortens ==
    ASSUME IInv, NEW p \in Process, Step(p)
    PROVE  StepsLeft(p)' < StepsLeft(p) /\ \A q \in Process \ {p} : stage'[q] = stage[q]
<1>1. /\ pc \in [Process -> Place] /\ stage \in [Process -> {"command", "notice"}]
  BY DEF IInv, TypeOK
<1> USE <1>1 DEF Go, TakeLockFor, local, history, StepsLeft, Place
<1>2. CASE Start(p) \/ Skip(p) \/ Report(p)
  BY <1>2 DEF Start, Skip, Report
<1>3. CASE Update(p)
  BY <1>3 DEF Update
<1>4. CASE Lock(p)
  BY <1>4 DEF Lock
<1>5. CASE Unreadable(p) \/ SaveRefused(p) \/ Remove(p) \/ KeepFile(p)
  <2>1. pc[p] = "locked" /\ pc' = [pc EXCEPT ![p] = "unlock"] /\ stage' = stage
    BY <1>5 DEF Unreadable, SaveRefused, Saves, Remove, KeepFile
  <2> QED BY <2>1
<1>6. CASE Truncate(p) \/ Write(p) \/ WriteFails(p)
  <2>1. stage' = stage
    BY <1>6 DEF Truncate, Write, WriteFails
  <2>2. \/ pc[p] = "locked" /\ pc' = [pc EXCEPT ![p] = "truncated"]
        \/ pc[p] = "truncated" /\ pc' = [pc EXCEPT ![p] = "unlock"]
    BY <1>6 DEF Truncate, Saves, Write, WriteFails
  <2> QED BY <2>1, <2>2
<1>7. CASE Unlock(p)
  BY <1>7 DEF Unlock
<1>8. CASE RecordNothing(p) \/ RecordDirectly(p)
  BY <1>8 DEF RecordNothing, RecordDirectly, Recorded
<1>9. CASE RecordWithNotice(p)
  BY <1>9 DEF RecordWithNotice, Recorded
<1>10. CASE PrintNotice(p) \/ Send(p)
  BY <1>10 DEF PrintNotice, Send
<1>11. CASE Crash(p)
  BY <1>11 DEF Crash
<1> QED BY <1>2, <1>3, <1>4, <1>5, <1>6, <1>7, <1>8, <1>9, <1>10, <1>11 DEF Step, Run

\* Every step of the system is a step towards the end of one process: for any
\* number of processes there are at most 13 steps for each, and whoever waits for
\* the lock waits for one that is at work under it (Update, Record).
THEOREM ProcessesAreBounded == Spec => ProcessesBounded
<1>1. ASSUME IInv PROVE WaitsForOneAtWork /\ \A p \in Process : StepsLeft(p) \in 0 .. 13
  <2>1. pc \in [Process -> Place] /\ stage \in [Process -> {"command", "notice"}] /\ lock \in Named
    BY <1>1 DEF IInv, TypeOK
  <2>2. \A p \in Process : StepsLeft(p) \in 0 .. 13
    BY <2>1 DEF StepsLeft, Place
  <2>3. \A p \in Process : pc[p] \in {"locked", "truncated", "unlock"} <=> lock = p
    BY <1>1 DEF IInv, LockInv
  <2>4. WaitsForOneAtWork
    BY <2>1, <2>3 DEF WaitsForOneAtWork, Named
  <2> QED BY <2>2, <2>4
<1>2. ASSUME IInv, [Next]_vars
      PROVE  [\E p \in Process : StepsLeft(p)' < StepsLeft(p)
                 /\ \A q \in Process \ {p} : StepsLeft(q)' = StepsLeft(q)]_vars
  <2>1. ASSUME NEW p \in Process, Step(p)
        PROVE  StepsLeft(p)' < StepsLeft(p) /\ \A q \in Process \ {p} : StepsLeft(q)' = StepsLeft(q)
    <3>1. StepsLeft(p)' < StepsLeft(p) /\ \A q \in Process \ {p} : stage'[q] = stage[q]
      BY <1>2, <2>1, StepShortens
    <3>2. \A q \in Process \ {p} : pc'[q] = pc[q]
      BY <1>2, <2>1, StepMoves DEF IInv, Step, Moves
    <3> QED BY <3>1, <3>2 DEF StepsLeft
  <2> QED BY <1>2, <2>1 DEF Next, Finished, Step
<1> QED BY <1>1, <1>2, SafetyInvariant, PTL DEF Spec, ProcessesBounded
=============================================================================
