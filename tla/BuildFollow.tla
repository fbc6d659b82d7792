----------------------------- MODULE BuildFollow -----------------------------
(***************************************************************************)
(* Following the build logs of one deployment: logfollow.Deployment, as    *)
(* `functions logs`, `frontends logs` and `durable logs` call it.          *)
(*                                                                         *)
(* A goroutine prints the live stream while the command waits on three     *)
(* things at once: the end of the stream, an interrupt, and a ticker that  *)
(* asks whether the deployment is over.  When it is, the stream is         *)
(* cancelled, its goroutine awaited, and a search prints the logs the      *)
(* stream did not: it may have begun late, closed early or been cancelled  *)
(* halfway.                                                                *)
(*                                                                         *)
(* The deployment writes its last log before it is over, and a search sees *)
(* every log written: that much is the service's.  The stream sends each   *)
(* log once, in order, from a recent one on, and may close or fail at any  *)
(* time.                                                                   *)
(***************************************************************************)
EXTENDS Printing

CONSTANTS
    MaxRedeploys,   \* bound: how often a durable function is deployed again meanwhile
    Nameless        \* the logs that carry no ID

ASSUME BuildFollowAssumption == MaxRedeploys \in Nat /\ Nameless \subseteq Nat

VARIABLES
    reads,          \* what says the deploy is over: "deployment", or "function" (durable)
    finished,       \* the deployment is over
    provisioning,   \* the function is being deployed, by this deployment or a later one
    redeploys,
    main,           \* where the command is
    streamCtx,      \* "live" or "cancelled": the context the stream was opened with
    reader,         \* the goroutine: "reading", "printing" or "ended"
    got,            \* the last log the goroutine read from the stream
    errCh,          \* the channel it ends with: "empty", "clean", "failed", or "nil" once read
    printed,        \* printedLogIDs
    cursor          \* the search: the logs above it were searched, newest first

deployVars == <<reads, finished, provisioning, redeploys>>
readerVars == <<reader, got, printed>>
buildVars == <<deployVars, main, streamCtx, readerVars, errCh, cursor>>

Mains ==
    {"off", "select", "streamEnded", "ticked", "interrupted", "failing", "finishing", "fetch", "print", "done"}

BuildTypeOK ==
    /\ reads \in {"deployment", "function"}
    /\ finished \in BOOLEAN
    /\ provisioning \in BOOLEAN
    /\ redeploys \in 0..MaxRedeploys
    /\ main \in Mains
    /\ streamCtx \in {"live", "cancelled"}
    /\ reader \in {"reading", "printing", "ended"}
    /\ got \in 0..MaxItems
    /\ errCh \in {"empty", "clean", "failed", "nil"}
    /\ printed \in SUBSET (1..MaxItems)
    /\ cursor \in 0..MaxItems

BuildRuns == main \notin {"off", "done"}

(***************************************************************************)
(* The deployment, and whoever deploys the function again.                 *)
(***************************************************************************)
BuildWrites ==
    /\ ~finished
    /\ MoreWritten
    /\ UNCHANGED buildVars

BuildFinishes ==
    /\ ~finished
    /\ finished' = TRUE
    /\ provisioning' = FALSE
    /\ UNCHANGED <<printVars, reads, redeploys, main, streamCtx, readerVars, errCh, cursor>>

Redeployed ==
    /\ finished
    /\ ~provisioning
    /\ redeploys < MaxRedeploys
    /\ provisioning' = TRUE
    /\ redeploys' = redeploys + 1
    /\ UNCHANGED <<printVars, reads, finished, main, streamCtx, readerVars, errCh, cursor>>

RedeployFinishes ==
    /\ finished
    /\ provisioning
    /\ provisioning' = FALSE
    /\ UNCHANGED <<printVars, reads, finished, redeploys, main, streamCtx, readerVars, errCh, cursor>>

BuildInterrupt == Interrupt /\ UNCHANGED buildVars

BuildEnvironment ==
    /\ BuildRuns
    /\ BuildWrites \/ BuildFinishes \/ Redeployed \/ RedeployFinishes \/ BuildInterrupt

(***************************************************************************)
(* The goroutine that reads the stream.                                    *)
(***************************************************************************)
RecordId(i) == printed' = IF i \in Nameless THEN printed ELSE printed \cup {i}

ReadEvent ==
    /\ reader = "reading"
    /\ got < written
    /\ got' = got + 1
    /\ RecordId(got + 1)
    /\ reader' = "printing"
    /\ UNCHANGED <<printVars, deployVars, main, streamCtx, errCh, cursor>>

PrintEvent ==
    /\ reader = "printing"
    /\ PrintItem(got)
    /\ reader' = "reading"
    /\ UNCHANGED <<deployVars, main, streamCtx, got, printed, errCh, cursor>>

\* The server closes the stream, or reading it fails.
StreamEnds ==
    /\ reader = "reading"
    /\ errCh' \in {"clean", "failed"}
    /\ reader' = "ended"
    /\ UNCHANGED <<printVars, deployVars, main, streamCtx, got, printed, cursor>>

\* The context it was opened with ends.
StreamCancelled ==
    /\ reader = "reading"
    /\ streamCtx = "cancelled" \/ interrupted
    /\ errCh' = "clean"
    /\ reader' = "ended"
    /\ UNCHANGED <<printVars, deployVars, main, streamCtx, got, printed, cursor>>

ReaderStep ==
    /\ main # "off"
    /\ ReadEvent \/ PrintEvent \/ StreamEnds \/ StreamCancelled

(***************************************************************************)
(* The command.                                                            *)
(***************************************************************************)
\* Mutant: asks the context of the stream instead of the command's.
CleanOnceCancelled == errCh # "failed" \/ streamCtx = "cancelled"

\* cleanStreamShutdown: the end of the stream is not an error.
Clean == errCh # "failed" \/ interrupted

\* awaitStream: the goroutine has ended, or had been seen to.
Awaited == errCh # "empty"

\* cancel runs on every way out.
Return(how) ==
    /\ Ends(how)
    /\ main' = "done"
    /\ streamCtx' = "cancelled"

GoTo(step) ==
    /\ main' = step
    /\ UNCHANGED <<printVars, streamCtx>>

\* Mutant: the stream is left open.
LeaveOpenAndGoTo(step) == GoTo(step)

CancelAndGoTo(step) ==
    /\ main' = step
    /\ streamCtx' = "cancelled"
    /\ UNCHANGED printVars

SelectStreamEnd ==
    /\ main = "select"
    /\ errCh \in {"clean", "failed"}
    /\ IF Clean THEN GoTo("streamEnded") /\ errCh' = "nil" ELSE Return("failed") /\ UNCHANGED errCh
    /\ UNCHANGED <<deployVars, readerVars, cursor>>

SelectInterrupt ==
    /\ main = "select"
    /\ interrupted
    /\ CancelAndGoTo("interrupted")
    /\ UNCHANGED <<deployVars, readerVars, errCh, cursor>>

SelectTick ==
    /\ main = "select"
    /\ GoTo("ticked")
    /\ UNCHANGED <<deployVars, readerVars, errCh, cursor>>

\* The terminal check: the deployment's own status, or for a durable function,
\* whose deployments cannot be read, the function's.
SaysOver == IF reads = "deployment" THEN finished ELSE ~provisioning

CheckStatus ==
    /\ main \in {"streamEnded", "ticked"}
    /\ IF SaysOver THEN CancelAndGoTo("finishing") ELSE GoTo("select")
    /\ UNCHANGED <<deployVars, readerVars, errCh, cursor>>

CheckFails ==
    /\ \/ main = "streamEnded" /\ Return("failed")
       \/ main = "ticked" /\ CancelAndGoTo("failing")
    /\ UNCHANGED <<deployVars, readerVars, errCh, cursor>>

\* After an interrupt, or after a check that failed on a tick.
AwaitAndReturn ==
    /\ main \in {"interrupted", "failing"}
    /\ Awaited
    /\ Return(IF main = "interrupted" THEN "cut" ELSE "failed")
    /\ UNCHANGED <<deployVars, readerVars, errCh, cursor>>

\* Mutant: the search does not wait for the goroutine.
SearchAtOnce ==
    /\ main = "finishing"
    /\ IF Clean THEN GoTo("fetch") /\ cursor' = written ELSE Return("failed") /\ UNCHANGED cursor
    /\ UNCHANGED <<deployVars, readerVars, errCh>>

\* finish: the goroutine is awaited, then the search begins.
AwaitThenSearch ==
    /\ main = "finishing"
    /\ Awaited
    /\ IF Clean THEN GoTo("fetch") /\ cursor' = written ELSE Return("failed") /\ UNCHANGED cursor
    /\ UNCHANGED <<deployVars, readerVars, errCh>>

FetchPage ==
    /\ main = "fetch"
    /\ GoTo("print") \/ Return("failed")
    /\ UNCHANGED <<deployVars, readerVars, errCh, cursor>>

\* The next log of the page, unless the stream printed it.
PrintSearched ==
    /\ main = "print"
    /\ cursor > 0
    /\ cursor' = cursor - 1
    /\ IF cursor \in printed THEN UNCHANGED printVars ELSE PrintItem(cursor)
    /\ UNCHANGED <<deployVars, main, streamCtx, readerVars, errCh>>

\* A page may hold fewer logs than asked for, or none, while more remain.
PageEnds ==
    /\ main = "print"
    /\ IF cursor > 0 THEN GoTo("fetch") ELSE Return("complete")
    /\ UNCHANGED <<deployVars, readerVars, errCh, cursor>>

Selects == SelectStreamEnd \/ SelectInterrupt \/ SelectTick

MainStep ==
    \/ Selects \/ CheckStatus \/ CheckFails \/ AwaitAndReturn
    \/ AwaitThenSearch \/ FetchPage \/ PrintSearched \/ PageEnds

\* The command begins to follow with the stream open, from a recent log on.
BuildStart(on) ==
    /\ reads \in {"deployment", "function"}
    /\ finished \in BOOLEAN
    /\ provisioning = ~finished
    /\ redeploys = 0
    /\ main = IF on THEN "select" ELSE "off"
    /\ streamCtx = "live"
    /\ reader = "reading"
    /\ got \in 0..written
    /\ errCh = "empty"
    /\ printed = {}
    /\ cursor = 0

(***************************************************************************)
(* Fairness: the goroutine and the command get to run, a request is        *)
(* answered, a tick comes, a read whose context was cancelled returns.     *)
(* Go's select takes any of the cases that are ready, so one that is ready *)
(* again and again is taken.  Pages of a search are not empty for ever.    *)
(* Nothing makes the deployment end, or a stream send.                     *)
(***************************************************************************)
BuildFairness ==
    LET v == <<printVars, buildVars>>
    IN  /\ WF_v(PrintEvent)
        /\ WF_v(StreamCancelled)
        /\ WF_v(SelectTick)
        /\ SF_v(SelectStreamEnd)
        /\ SF_v(SelectInterrupt)
        /\ WF_v(CheckStatus \/ CheckFails)
        /\ WF_v(AwaitAndReturn)
        /\ WF_v(AwaitThenSearch)
        /\ WF_v(FetchPage)
        /\ SF_v(PrintSearched)
        /\ WF_v(PageEnds)

(***************************************************************************)
(* Why it works.  While the goroutine runs, what was printed are the logs  *)
(* it recorded, but for the one it is printing; the search begins when it  *)
(* has ended, skips what was recorded, and has printed all above its       *)
(* cursor.                                                                 *)
(***************************************************************************)
Searching == main \in {"fetch", "print"}

GoroutineInv ==
    /\ errCh = "empty" <=> reader # "ended"
    /\ main = "streamEnded" => errCh = "nil"
    /\ main \in {"fetch", "print", "done"} => reader = "ended"
    /\ got <= written
    /\ reader = "printing" =>
          got \in 1..written /\ got \notin PrintedOut /\ (got \in printed \/ got \in Nameless)
    /\ reader # "ended" => \A i \in PrintedOut : i <= got

RecordedInv ==
    ~Searching /\ main # "done" =>
        \A i \in PrintedOut : i \in printed \/ i \in Nameless

SearchInv ==
    /\ ~provisioning => finished
    /\ main = "finishing" \/ Searching => finished
    /\ Searching =>
          /\ cursor <= written
          /\ \A i \in 1..written : i > cursor => i \in PrintedOut
          /\ \A i \in PrintedOut : i <= cursor => i \in printed \/ i \in Nameless
    /\ \A i \in printed : i \in PrintedOut \/ (reader = "printing" /\ i = got)

OutcomeInv ==
    /\ main = "interrupted" => interrupted
    /\ Searching => Clean

BuildInv ==
    main # "off" =>
        /\ over = "no" <=> main # "done"
        /\ GoroutineInv
        /\ RecordedInv
        /\ SearchInv
        /\ OutcomeInv

\* A stream that failed is not taken for one that ended: unless the user
\* interrupted, the command fails, whichever it noticed first, the failure or
\* the end of the deployment.  And only an interrupt ends it early without an
\* error (logfollow.Deployment, cleanStreamShutdown).
FailureReported ==
    /\ over = "complete" /\ ~interrupted => errCh # "failed"
    /\ over = "cut" => interrupted
=============================================================================
