------------------------------ MODULE Following ------------------------------
(***************************************************************************)
(* The three commands that take --follow, each of them a Reading.  One of  *)
(* them runs; what is written, what it printed and how it ended have the   *)
(* same variables in all three.                                            *)
(***************************************************************************)
EXTENDS BuildFollow, LogTail, MessageFollow

CONSTANT Followed       \* the commands: "build", "runtime", "messages"

VARIABLE command        \* the one that runs

vars == <<printVars, buildVars, tailVars, messageVars, command>>

TypeOK ==
    /\ command \in Followed
    /\ PrintTypeOK
    /\ BuildTypeOK
    /\ TailTypeOK
    /\ MessageTypeOK

Init ==
    /\ command \in Followed
    /\ written \in 0..MaxItems
    /\ out = <<>>
    /\ over = "no"
    /\ interrupted = FALSE
    /\ BuildStart(command = "build")
    /\ TailStart(command = "runtime")
    /\ MessageStart(command = "messages")

FollowBuild ==
    /\ BuildEnvironment \/ ReaderStep \/ MainStep
    /\ UNCHANGED <<tailVars, messageVars, command>>

FollowRuntime ==
    /\ TailEnvironment \/ TailStep
    /\ UNCHANGED <<buildVars, messageVars, command>>

FollowMessages ==
    /\ MessageEnvironment \/ MessageStep
    /\ UNCHANGED <<buildVars, tailVars, command>>

Over == over # "no" /\ UNCHANGED vars

Next == FollowBuild \/ FollowRuntime \/ FollowMessages \/ Over

Spec == Init /\ [][Next]_vars

FairSpec == Spec /\ BuildFairness /\ TailFairness /\ MessageFairness

\* The inductive invariant.
FollowInv ==
    /\ TypeOK
    /\ command = "build" <=> main # "off"
    /\ command = "runtime" <=> tail # "off"
    /\ command = "messages" <=> pass # "off"
    /\ PrintedOut \subseteq 1..written
    /\ BuildInv
    /\ TailInv
    /\ MessageInv
    /\ main = "off" => errCh = "empty"
    /\ stream = Home /\ shownOf \subseteq {Home}

(***************************************************************************)
(* Properties.                                                             *)
(***************************************************************************)
\* What all three promise.
Contract == INSTANCE Reading WITH ordered <- command # "build"

\* Each command prints every log or message once, messages and tails in order
\* and without a gap, and one that ends by itself has printed all of them:
\* whichever of the stream, the status poll and the search saw a log first,
\* however often a connection dropped, and whatever was written between two
\* pages or between the status and the page read after it.
ReadingHolds == Contract!Spec

\* A follow ends: of build logs once the deployment is over (for a durable
\* function, once it is not being deployed), of messages once the execution has
\* ended, and any of them once the user interrupts; no two of the goroutine, the
\* channel and the command wait on each other.
FollowEnds ==
    /\ command = "build" /\ <>[](finished /\ ~provisioning) => <>(over # "no")
    /\ (command = "messages" /\ ended) ~> (over # "no")
    /\ interrupted ~> (over # "no")

\* Once the execution has ended, the command that lists its messages is on its way to
\* its end: each request it makes and each message it prints is one of a number that
\* is fixed by then, also when the pass under way began before the end (runFollow).
MessagesBounded ==
    /\ [](MessageSteps \in 0 .. 3 * MaxItems + 7)
    /\ [][ended => ended' /\ IF MessageStep THEN MessageSteps' < MessageSteps
                                            ELSE MessageSteps' <= MessageSteps]_vars

\* A tail gives every log that was written, unless it ends, or an event before it
\* cannot be read: the cursor never passes a log that was not delivered.
Readable(i) == \A j \in 1..i : j \notin Unreadable

TailAdvances ==
    \A i \in 1..MaxItems :
        (command = "runtime" /\ written >= i /\ Readable(i)) ~> (sent >= i \/ over # "no")
=============================================================================
