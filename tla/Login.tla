------------------------------- MODULE Login -------------------------------
(***************************************************************************)
(* Signing in: `volcano login` with a browser, a token or a code from the  *)
(* dashboard (cmd/auth), and the sign-in of `volcano connect`              *)
(* (cmd/connect), over internal/auth.                                      *)
(*                                                                         *)
(* A device login polls the API for a token until the user has approved    *)
(* its code, and trades that token for a login.  The code works once.      *)
(* Time is counted in units of the five seconds that slow_down adds.       *)
(*                                                                         *)
(* Simplifications.  No other process changes the saved login meanwhile    *)
(* (ConfigFile models that), and reading the account's email, which never  *)
(* fails a login, is left out.                                             *)
(***************************************************************************)
EXTENDS Naturals

CONSTANTS
    Flows,        \* the commands of an instance, a subset of Flow
    MaxFailures,  \* maxConsecutiveDevicePollFailures
    MaxAttempts,  \* maxPlatformExchangeAttempts
    Expiry,       \* how long the code lives
    MaxInterval   \* bound: the longest interval the API asks for

ASSUME LoginAssumption ==
    /\ MaxFailures \in Nat \ {0} /\ MaxAttempts \in Nat \ {0}
    /\ Expiry \in Nat /\ MaxInterval \in Nat \ {0}

VARIABLES
    how,      \* the command: flow, --project, project link, kind of token, saved login
    pc,       \* Place
    code,     \* the device code at the API
    failures, \* failed polls in a row
    attempt,  \* attempts to trade the token
    interval, \* the time between polls
    due,      \* the time to the next tick
    ready,    \* a tick is waiting in the ticker's channel
    since,    \* history: the time since the last answer to a poll
    told,     \* history: that answer makes the API expect the next poll an interval later
    left,     \* the time left before the timeout fires
    saved,    \* the login and project in config.json
    linked,   \* the project in the directory's link
    refused,  \* ensureSession: the code from the dashboard was refused
    traded,   \* history: the code was traded for a login
    outcome   \* how the command ended

pollVars == <<failures, interval, due, ready, since, told, left>>
vars == <<how, pc, code, pollVars, attempt, saved, linked, refused, traded, outcome>>

Flow == {"login", "loginCode", "loginToken", "connect", "connectCode"}

\* project: --project names a project; link: the directory is linked; account:
\* the token is an account token; old: what the API says of the saved login.
How == {h \in [flow: Flow, project: BOOLEAN, link: BOOLEAN, account: BOOLEAN,
               old: {"none", "valid", "invalid", "project"}] :
          /\ h.flow \notin {"loginToken", "loginCode"} => ~h.project
          /\ h.flow # "loginToken" => h.account
          /\ h.flow \notin {"connect", "connectCode"} => h.old = "none"}

Place == {"start", "pollNow", "poll", "wait", "exchange", "saveCode", "validate", "override", "save", "link",
          "done"}

Outcome == {"none", "in", "failed", "codeRefused", "timeout", "savedError", "notSaved", "linkFailed",
            "canceled", "killed"}

TypeOK ==
    /\ how \in How
    /\ pc \in Place
    /\ code \in {"pending", "approved", "refused", "spent"}
    /\ failures \in 0..MaxFailures
    /\ attempt \in 1..MaxAttempts
    /\ interval \in 1..MaxInterval
    /\ due \in 1..MaxInterval
    /\ ready \in BOOLEAN
    /\ since \in Nat
    /\ told \in BOOLEAN
    /\ left \in 0..Expiry
    /\ saved \in [login: {"none", "old", "new"}, project: {"old", "new"}]
    /\ linked \in {"none", "old", "new"}
    /\ refused \in BOOLEAN
    /\ traded \in BOOLEAN
    /\ outcome \in Outcome

Init ==
    /\ how \in {h \in How : h.flow \in Flows}
    /\ pc = "start"
    /\ code = "pending"
    /\ failures = 0 /\ attempt = 1
    /\ interval = 1 /\ due = 1 /\ ready = FALSE
    /\ since = 0 /\ told = FALSE
    /\ left = Expiry
    /\ saved = [login |-> IF how.old = "none" THEN "none" ELSE "old", project |-> "old"]
    /\ linked = IF how.link THEN "old" ELSE "none"
    /\ refused = FALSE /\ traded = FALSE
    /\ outcome = "none"

End(result) == pc' = "done" /\ outcome' = result

\* A code of the dashboard is approved already and belongs to a first sign-in.
FromDashboard == how.flow \in {"loginCode", "connectCode"} /\ ~refused

\* A project is selected: the one --project names, or the token's own.
Selects == how.flow \in {"loginToken", "loginCode"} /\ (how.project \/ ~how.account)

InLinkOfTokens == how.flow = "loginToken" /\ how.project /\ how.link

InLink == how.flow \in {"loginToken", "loginCode"} /\ how.project /\ how.link

(***************************************************************************)
(* The beginning.                                                          *)
(***************************************************************************)
StartDeviceLogin(approved) ==
    /\ code' \in IF approved THEN {"approved", "refused", "pending"} ELSE {"pending"}
    /\ failures' = 0 /\ attempt' = 1
    /\ interval' = 1 /\ due' = 1 /\ ready' = FALSE
    /\ since' = 0 /\ told' = FALSE
    /\ left' = Expiry

\* A code from the dashboard is polled at once, one the CLI asked for after an
\* interval.
Start ==
    /\ pc = "start"
    /\ \/ /\ FromDashboard
          /\ StartDeviceLogin(TRUE)
          /\ pc' = "pollNow"
       \/ /\ how.flow = "login"
          /\ StartDeviceLogin(FALSE)
          /\ pc' = "wait"
       \/ /\ how.flow = "loginToken"
          /\ pc' = "validate"
          /\ UNCHANGED <<code, pollVars, attempt>>
    /\ UNCHANGED <<how, saved, linked, refused, traded, outcome>>

SavedLoginKept == how.old \in {"valid", "project"}

\* ensureSession without a code: the saved login if the API accepts it, and
\* else a browser login.
CheckSavedAlways ==
    /\ pc = "start" /\ (how.flow = "connect" \/ refused)
    /\ SavedLoginKept
    /\ End("in")
    /\ UNCHANGED <<how, code, pollVars, attempt, saved, linked, refused, traded>>

CheckSaved ==
    /\ pc = "start" /\ how.flow = "connect" /\ ~refused
    /\ SavedLoginKept
    /\ End("in")
    /\ UNCHANGED <<how, code, pollVars, attempt, saved, linked, refused, traded>>

CheckSavedFails ==
    /\ pc = "start" /\ how.flow = "connect" /\ ~refused
    /\ how.old \in {"valid", "invalid"}
    /\ End("failed")
    /\ UNCHANGED <<how, code, pollVars, attempt, saved, linked, refused, traded>>

BrowserLogin ==
    /\ pc = "start"
    /\ refused \/ (how.flow = "connect" /\ how.old \in {"none", "invalid"})
    /\ StartDeviceLogin(FALSE)
    /\ pc' = "wait"
    /\ UNCHANGED <<how, saved, linked, refused, traded, outcome>>

(***************************************************************************)
(* Polling: waitForDeviceToken and poll.                                   *)
(***************************************************************************)
StartPoll ==
    /\ pc = "wait" /\ ready
    /\ ready' = FALSE
    /\ pc' = "poll"
    /\ UNCHANGED <<how, code, failures, interval, due, since, told, left, attempt, saved, linked,
                   refused, traded, outcome>>

Polling == pc \in {"pollNow", "poll"}

Restart(length) == due' = length /\ ready' = FALSE /\ told' = TRUE

KeepPollingAnew ==
    /\ pc' = "wait"
    /\ IF pc = "pollNow" THEN Restart(interval) ELSE told' = FALSE /\ UNCHANGED <<due, ready>>
    /\ since' = 0
    /\ left' = Expiry
    /\ UNCHANGED <<how, interval, attempt, saved, linked, refused, traded, outcome>>

\* Back to waiting for the next tick, which is counted from now after the first
\* poll of a code from the dashboard.
KeepPolling ==
    /\ pc' = "wait"
    /\ IF pc = "pollNow" THEN Restart(interval) ELSE told' = FALSE /\ UNCHANGED <<due, ready>>
    /\ since' = 0
    /\ UNCHANGED <<how, interval, left, attempt, saved, linked, refused, traded, outcome>>

PollPending ==
    /\ Polling /\ code = "pending"
    /\ failures' = 0
    /\ KeepPolling
    /\ UNCHANGED code

PollSlowDownLate ==
    /\ Polling /\ code = "pending"
    /\ interval < MaxInterval
    /\ interval' = interval + 1
    /\ told' = TRUE
    /\ failures' = 0 /\ since' = 0
    /\ pc' = "wait"
    /\ UNCHANGED <<how, code, due, ready, left, attempt, saved, linked, refused, traded, outcome>>

\* The API asks for a longer interval, which is counted from its answer.
PollSlowDown ==
    /\ Polling /\ code = "pending"
    /\ interval < MaxInterval
    /\ interval' = interval + 1
    /\ Restart(interval + 1)
    /\ failures' = 0 /\ since' = 0
    /\ pc' = "wait"
    /\ UNCHANGED <<how, code, left, attempt, saved, linked, refused, traded, outcome>>

GiveUp ==
    /\ End("failed")
    /\ UNCHANGED <<how, interval, due, ready, since, told, left, attempt, saved, linked, refused,
                   traded>>

\* A poll that fails: the API may have handed the token out for nobody.
PollFails ==
    /\ Polling
    /\ code' \in {code} \cup (IF code = "approved" THEN {"spent"} ELSE {})
    /\ failures' = failures + 1
    /\ IF failures' >= MaxFailures THEN GiveUp ELSE KeepPolling

\* What LoginWithDeviceCode makes of a refusal and of a timeout: ensureSession
\* then goes on in the browser.
Refused(result) ==
    /\ IF how.flow = "connectCode" /\ ~refused
       THEN pc' = "start" /\ refused' = TRUE /\ UNCHANGED outcome
       ELSE End(result) /\ UNCHANGED refused
    /\ UNCHANGED <<how, code, pollVars, attempt, saved, linked, traded>>

PollRefused == Polling /\ code \in {"refused", "spent"} /\ Refused("codeRefused")

TimedOut == pc = "wait" /\ left = 0 /\ Refused("timeout")

PollSucceeds ==
    /\ Polling /\ code = "approved"
    /\ code' = "spent"
    /\ failures' = 0
    /\ pc' = "exchange"
    /\ UNCHANGED <<how, interval, due, ready, since, told, left, attempt, saved, linked, refused,
                   traded, outcome>>

(***************************************************************************)
(* The exchange of the token for a login, and what the login is used for.  *)
(***************************************************************************)
AfterExchangeUnsaved == IF FromDashboard THEN "validate" ELSE "save"

\* A login of a code from the dashboard is saved at once.
AfterExchange == IF FromDashboard THEN "saveCode" ELSE "save"

Exchange ==
    /\ pc = "exchange"
    /\ traded' = TRUE
    /\ pc' = AfterExchange
    /\ UNCHANGED <<how, code, pollVars, attempt, saved, linked, refused, outcome>>

\* A network error or a 5xx is tried again.
ExchangeAgain ==
    /\ pc = "exchange" /\ attempt < MaxAttempts
    /\ attempt' = attempt + 1
    /\ UNCHANGED <<how, pc, code, pollVars, saved, linked, refused, traded, outcome>>

ExchangeFails ==
    /\ pc = "exchange"
    /\ End("failed")
    /\ UNCHANGED <<how, code, pollVars, attempt, saved, linked, refused, traded>>

SaveCode ==
    /\ pc = "saveCode"
    /\ \/ saved' = [saved EXCEPT !.login = "new"] /\ pc' = "validate" /\ UNCHANGED outcome
       \/ UNCHANGED saved /\ End("notSaved")
    /\ UNCHANGED <<how, code, pollVars, attempt, linked, refused, traded>>

\* loginWithToken: the API accepts the token, and knows the project.
Validate ==
    /\ pc = "validate"
    /\ IF how.flow = "connectCode" THEN End("in") ELSE pc' = "override" /\ UNCHANGED outcome
    /\ UNCHANGED <<how, code, pollVars, attempt, saved, linked, refused, traded>>

\* A failure after the login of a code was saved says that it is saved.
Rejected ==
    /\ End(IF FromDashboard THEN "savedError" ELSE "failed")
    /\ UNCHANGED <<how, code, pollVars, attempt, saved, linked, refused, traded>>

ValidateFails == pc = "validate" /\ Rejected

\* CheckProjectOverride, when VOLCANO_PROJECT_ID names another project.
OverrideFails == pc = "override" /\ InLink /\ Rejected

NoOverride ==
    /\ pc = "override"
    /\ pc' = "save"
    /\ UNCHANGED <<how, code, pollVars, attempt, saved, linked, refused, traded, outcome>>

\* SaveCredentials: the link holds the selection of an account token.
Save ==
    /\ pc = "save"
    /\ \/ /\ saved' = [login   |-> "new",
                       project |-> IF Selects /\ (how.account => ~InLink) THEN "new" ELSE saved.project]
          /\ IF InLink THEN pc' = "link" /\ UNCHANGED outcome ELSE End("in")
       \/ UNCHANGED saved /\ End("notSaved")
    /\ UNCHANGED <<how, code, pollVars, attempt, linked, refused, traded>>

\* SelectInLink.
WriteLink ==
    /\ pc = "link"
    /\ \/ linked' = "new" /\ End("in")
       \/ UNCHANGED linked /\ End("linkFailed")
    /\ UNCHANGED <<how, code, pollVars, attempt, saved, refused, traded>>

(***************************************************************************)
(* The user, the API and the clock.                                        *)
(***************************************************************************)
Cancel ==
    /\ Polling \/ pc \in {"wait", "exchange"}
    /\ End("canceled")
    /\ UNCHANGED <<how, code, pollVars, attempt, saved, linked, refused, traded>>

Kill ==
    /\ pc # "done"
    /\ End("killed")
    /\ UNCHANGED <<how, code, pollVars, attempt, saved, linked, refused, traded>>

Decide ==
    /\ (Polling \/ pc = "wait") /\ code = "pending"
    /\ code' \in {"approved", "refused"}
    /\ UNCHANGED <<how, pc, pollVars, attempt, saved, linked, refused, traded, outcome>>

Lapse ==
    /\ (Polling \/ pc = "wait") /\ code = "approved"
    /\ code' = "refused"
    /\ UNCHANGED <<how, pc, pollVars, attempt, saved, linked, refused, traded, outcome>>

\* The ticker drops a tick nobody waits for.
Tick ==
    /\ (Polling \/ pc = "wait") /\ left > 0
    /\ left' = left - 1
    /\ since' = since + 1
    /\ IF due = 1 THEN ready' = TRUE /\ due' = interval ELSE due' = due - 1 /\ UNCHANGED ready
    /\ UNCHANGED <<how, pc, code, failures, interval, told, attempt, saved, linked, refused, traded,
                   outcome>>

Wait == Start \/ CheckSaved \/ CheckSavedFails \/ BrowserLogin \/ StartPoll \/ TimedOut

Poll == PollPending \/ PollSlowDown \/ PollFails \/ PollRefused \/ PollSucceeds

Use == \/ Exchange \/ ExchangeAgain \/ ExchangeFails \/ SaveCode \/ Validate \/ ValidateFails
       \/ OverrideFails \/ NoOverride \/ Save \/ WriteLink

Finished == pc = "done" /\ UNCHANGED vars

Next == Wait \/ Poll \/ Use \/ Cancel \/ Kill \/ Decide \/ Lapse \/ Tick \/ Finished

Spec == Init /\ [][Next]_vars

\* Time passes, and every request is answered or fails.
FairSpec == Spec /\ WF_vars(Wait) /\ WF_vars(Poll) /\ WF_vars(Use) /\ WF_vars(Tick)

(***************************************************************************)
(* Properties.                                                             *)
(***************************************************************************)
\* The code works once: after the API traded it for a login, nothing but a
\* failed save throws the login away (LoginWithDeviceCode).
SpentCodeKept ==
    traded /\ pc = "done" /\ outcome \notin {"notSaved", "killed"} => saved.login = "new"

\* What the command says of the saved login is so.
OutcomeTrue ==
    /\ outcome = "in" => saved.login = "new" \/ (how.flow = "connect" /\ SavedLoginKept)
    /\ outcome \in {"savedError", "linkFailed"} => saved.login = "new"
    /\ outcome \in {"failed", "codeRefused", "timeout", "canceled"} => saved.login # "new"

\* Whoever gave a code from the dashboard is never left signed in with the
\* login saved before, even when the code is refused (ensureSession).
PromptedAccount == how.flow = "connectCode" /\ outcome = "in" => saved.login = "new"

\* The project a login names is the one later commands use: the link's in a
\* linked directory, else the saved one.  A selection in a link leaves the one
\* outside it alone, and a login that was refused leaves both alone.
SelectionHolds ==
    /\ outcome = "in" /\ how.project =>
           IF how.link THEN linked = "new" ELSE saved.project = "new"
    /\ how.link /\ how.account => saved.project = "old"
    /\ outcome \in {"failed", "savedError"} => saved.project = "old" /\ linked # "new"

\* After the API asked for a longer interval, and after the poll made before the
\* first tick, the next poll comes a whole interval after the answer.
SlowsDown == [][pc = "wait" /\ pc' = "poll" /\ told => since >= interval]_vars

\* Every login ends, whatever the API answers and even if nobody decides.
LoginEnds == <>(pc = "done")

(***************************************************************************)
(* The length of a login.                                                  *)
(***************************************************************************)
\* What can still happen while the code is polled: every tick brings at most one
\* poll and its answer, and the code is decided and lapses once.
PollSteps ==
    3 * left + (IF ready THEN 2 ELSE 0) + (IF Polling THEN 1 ELSE 0) +
    (CASE code = "pending" -> 2 [] code = "approved" -> 1 [] OTHER -> 0)

\* The most steps of one device login, from its start.
RoundSteps == 3 * Expiry + MaxAttempts + 12

\* A refused code of `volcano connect` is followed by one login in the browser.
SecondLogin == IF how.flow = "connectCode" /\ ~refused THEN RoundSteps ELSE 0

PlaceSteps ==
    CASE pc = "start"                      -> RoundSteps
      [] pc \in {"pollNow", "poll", "wait"} -> PollSteps + MaxAttempts + 6
      [] pc = "exchange"                   -> MaxAttempts - attempt + 6
      [] pc = "saveCode"                   -> 5
      [] pc = "validate"                   -> 4
      [] pc = "override"                   -> 3
      [] pc = "save"                       -> 2
      [] pc = "link"                       -> 1
      [] pc = "done"                       -> 0

\* How many more steps a command can take.
StepsLeft == SecondLogin + PlaceSteps

\* Whatever the API answers and the user does, every step, a tick of the clock too,
\* brings the command nearer to its end: neither a slow_down nor a failed poll nor
\* the second login of `volcano connect` lets it go on for ever.
LoginBounded == [](StepsLeft \in 0 .. 2 * RoundSteps) /\ [][StepsLeft' < StepsLeft]_vars

(***************************************************************************)
(* The inductive invariant behind the safety of a login.                   *)
(***************************************************************************)
\* Where a command is tells whether its login is saved: never before the code
\* was traded, and always once a code from the dashboard was.
PlaceInv ==
    /\ pc # "done" => outcome = "none" /\ failures < MaxFailures
    /\ refused => how.flow = "connectCode"
    /\ pc \in {"start", "pollNow", "poll", "wait", "exchange"} => ~traded
    /\ pc \in {"start", "pollNow", "poll", "wait", "exchange", "saveCode"} => saved.login # "new"
    /\ pc \in {"pollNow", "poll", "wait", "exchange", "saveCode"} => how.flow # "loginToken"
    /\ pc = "saveCode" => FromDashboard
    /\ pc \in {"validate", "override"} =>
          \/ FromDashboard /\ saved.login = "new"
          \/ how.flow = "loginToken" /\ ~traded /\ saved.login # "new"
    /\ pc = "override" => how.flow # "connectCode"
    /\ pc = "link" => saved.login = "new"

LoginInv == TypeOK /\ PlaceInv /\ SpentCodeKept /\ OutcomeTrue /\ PromptedAccount

\* No project is selected before the login is saved, and only a login of a
\* linked directory comes to the link.
SelectionInv ==
    /\ pc \notin {"link", "done"} => saved.project = "old" /\ linked # "new"
    /\ pc = "link" => InLink /\ linked # "new"
    /\ SelectionHolds

\* The tick to come, or the one that waits, is an interval after the answer the
\* API counts from.
TickerInv ==
    /\ told /\ ready => since >= interval
    /\ told /\ ~ready => since + due >= interval
=============================================================================
