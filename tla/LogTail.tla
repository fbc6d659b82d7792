------------------------------- MODULE LogTail -------------------------------
(***************************************************************************)
(* Tailing runtime logs: logfollow.RuntimeEach over a reconnectingStream.  *)
(* `volcano logs --follow` tails a project's logs, and keeps to the        *)
(* project it began in (projectlog's pin); the logs commands of functions, *)
(* frontends and durable functions tail one resource, and look the         *)
(* selected project up on every connection.  Another shell may select      *)
(* another project meanwhile.                                              *)
(*                                                                         *)
(* A healthy connection stays open, so any end of it is a disconnect: the  *)
(* command waits a second and connects again after the last log it was     *)
(* given.  Every log event carries its ID, and each connection sends logs  *)
(* in order: from the cursor on, or without one from a recent log on.      *)
(***************************************************************************)
EXTENDS Printing

CONSTANTS
    MaxDrops,       \* bound: how often a connection ends that could have gone on
    Unreadable,     \* the logs whose event cannot be read: too long or malformed
    Home, Other     \* the project selected at first, and another

ASSUME LogTailAssumption ==
    MaxDrops \in Nat /\ Unreadable \subseteq Nat /\ Home # Other

VARIABLES
    selected,       \* the project selected in the config file
    whole,          \* the tail is of the project, not of one of its resources
    pinned,         \* the project the service was pinned to
    shownOf,        \* history: the projects whose logs were printed
    tail,           \* where the command is
    stream,         \* the project the open connection is of
    sent,           \* the last log sent on it
    lastID,         \* the last log given to the command, 0 before the first
    drops

tailVars == <<selected, whole, pinned, shownOf, tail, stream, sent, lastID, drops>>

TailTypeOK ==
    /\ selected \in {Home, Other}
    /\ whole \in BOOLEAN
    /\ pinned = Home
    /\ shownOf \in SUBSET {Home, Other}
    /\ tail \in {"off", "open", "read", "wait", "done"}
    /\ stream \in {Home, Other}
    /\ sent \in 0..MaxItems
    /\ lastID \in 0..MaxItems
    /\ drops \in 0..MaxDrops

LogWritten == MoreWritten /\ UNCHANGED tailVars

TailInterrupt == Interrupt /\ UNCHANGED tailVars

\* Another shell runs `volcano project use`.
SelectProject ==
    /\ selected' \in {Home, Other} \ {selected}
    /\ UNCHANGED <<printVars, whole, pinned, shownOf, tail, stream, sent, lastID, drops>>

TailEnvironment ==
    /\ tail \notin {"off", "done"}
    /\ LogWritten \/ TailInterrupt \/ SelectProject

\* A tail has no end of its own.  RuntimeEach: an error while the context is
\* cancelled is how it ends.
ReturnError ==
    /\ Ends(IF interrupted THEN "cut" ELSE "failed")
    /\ tail' = "done"

TailGoesTo(step) ==
    /\ tail' = step
    /\ UNCHANGED printVars

\* Mutant: looked up on every connection.
OpensSelected == selected

\* The project a connection is opened for.
Opens == IF whole THEN pinned ELSE selected

\* Without a cursor the stream begins with the most recent logs.
StartsAfter(cursor) == IF cursor = 0 THEN 0..written ELSE {cursor}

Open ==
    /\ tail = "open"
    /\ whole \/ Opens = Home
    /\ TailGoesTo("read")
    /\ stream' = Opens
    /\ sent' \in StartsAfter(lastID)
    /\ UNCHANGED <<selected, whole, pinned, shownOf, lastID, drops>>

\* Mutant: a failure to open is taken for another disconnect.
OpenAgain ==
    /\ tail = "open"
    /\ IF interrupted THEN ReturnError ELSE TailGoesTo("wait")
    /\ UNCHANGED <<selected, whole, pinned, shownOf, stream, sent, lastID, drops>>

\* Any failure to open is returned, a resource that is not found in the project
\* selected now among them.
OpenFails ==
    /\ tail = "open"
    /\ ReturnError
    /\ UNCHANGED <<selected, whole, pinned, shownOf, stream, sent, lastID, drops>>

\* Next returns an event, which is printed.
Deliver ==
    /\ tail = "read"
    /\ sent < written
    /\ sent + 1 \notin Unreadable
    /\ sent' = sent + 1
    /\ lastID' = sent + 1
    /\ \/ PrintItem(sent + 1) /\ shownOf' = shownOf \cup {stream} /\ UNCHANGED tail
       \/ ReturnError /\ UNCHANGED shownOf     \* it cannot be printed
    /\ UNCHANGED <<selected, whole, pinned, stream, drops>>

\* The connection ends, or an event on it cannot be read.
Disconnected ==
    /\ tail = "read"
    /\ \/ sent < written /\ sent + 1 \in Unreadable /\ UNCHANGED drops
       \/ drops < MaxDrops /\ drops' = drops + 1
       \/ interrupted /\ UNCHANGED drops
    /\ IF interrupted THEN ReturnError ELSE TailGoesTo("wait")
    /\ UNCHANGED <<selected, whole, pinned, shownOf, stream, sent, lastID>>

\* wait: a tick of the backoff, or the interrupt.
Backoff ==
    /\ tail = "wait"
    /\ TailGoesTo("open") \/ (interrupted /\ ReturnError)
    /\ UNCHANGED <<selected, whole, pinned, shownOf, stream, sent, lastID, drops>>

TailStep == Open \/ OpenFails \/ Deliver \/ Disconnected \/ Backoff

TailStart(on) ==
    /\ selected = Home
    /\ whole \in BOOLEAN
    /\ pinned = Home
    /\ shownOf = {}
    /\ tail = IF on THEN "open" ELSE "off"
    /\ stream = Home
    /\ sent = 0
    /\ lastID = 0
    /\ drops = 0

(***************************************************************************)
(* Fairness: a request is answered, an event that was sent is read, a tick *)
(* comes, and a read whose context was cancelled returns.                  *)
(***************************************************************************)
TailFairness ==
    LET v == <<printVars, tailVars>>
    IN  /\ WF_v(Open \/ OpenFails)
        /\ WF_v(Deliver)
        /\ WF_v(interrupted /\ Disconnected)
        /\ WF_v(Backoff)

\* The last log printed is the cursor; a connection that follows one begins there.
TailInv ==
    tail # "off" =>
        /\ over = "no" <=> tail # "done"
        /\ over # "complete"
        /\ over = "cut" => interrupted
        /\ sent <= written /\ lastID <= written
        /\ tail # "done" => (lastID = 0 <=> out = <<>>)
        /\ out # <<>> => out[Len(out)] = lastID \/ tail = "done"
        /\ \A i \in PrintedOut : i <= lastID
        /\ tail = "read" /\ lastID > 0 => sent = lastID

\* A tail of a project prints the logs of the project it began in, however often
\* it connects again and whatever another shell selects meanwhile (pinnedProject).
OneProject == shownOf \subseteq {Home}
=============================================================================
