---------------------------- MODULE LoginProofs ----------------------------
(***************************************************************************)
(* Proofs about Login, for every command, expiry and number of retries.    *)
(***************************************************************************)
EXTENDS Login, TLAPS

LEMMA InitInv == Init => LoginInv
<1> SUFFICES ASSUME Init PROVE LoginInv
  OBVIOUS
<1> USE LoginAssumption DEF Init
<1>1. how \in How
  OBVIOUS
<1>2. ready \in BOOLEAN /\ told \in BOOLEAN /\ refused \in BOOLEAN /\ traded \in BOOLEAN
  OBVIOUS
<1>20. TypeOK
  BY <1>1, <1>2 DEF TypeOK, Place, Outcome
<1>3. PlaceInv
  BY DEF PlaceInv, FromDashboard
<1>4. SpentCodeKept /\ OutcomeTrue /\ PromptedAccount
  BY DEF SpentCodeKept, OutcomeTrue, PromptedAccount
<1> QED BY <1>20, <1>3, <1>4 DEF LoginInv

Flags ==
    /\ how \in How
    /\ ready \in BOOLEAN /\ told \in BOOLEAN /\ refused \in BOOLEAN /\ traded \in BOOLEAN

LEMMA FlagsKeep == Flags /\ Next => Flags'
<1> SUFFICES ASSUME Flags, Next PROVE Flags'
  OBVIOUS
<1> USE DEF Flags, pollVars
<1>1. CASE Wait
  BY <1>1 DEF Wait, Start, StartDeviceLogin, CheckSaved, CheckSavedFails, BrowserLogin, StartPoll,
     TimedOut, Refused
<1>2. CASE Poll
  BY <1>2 DEF Poll, PollPending, PollSlowDown, PollFails, GiveUp, KeepPolling, Restart, PollRefused,
     Refused, PollSucceeds
<1>3. CASE Use
  BY <1>3 DEF Use, Exchange, ExchangeAgain, ExchangeFails, SaveCode, Validate, ValidateFails,
     OverrideFails, NoOverride, Rejected, Save, WriteLink
<1>4. CASE Cancel \/ Kill \/ Decide \/ Lapse \/ Tick \/ Finished
  BY <1>4 DEF Cancel, Kill, Decide, Lapse, Tick, Finished, vars
<1> QED BY <1>1, <1>2, <1>3, <1>4 DEF Next

\* The variables keep their types.
LEMMA TypeKeeps == LoginInv /\ Next => TypeOK'
<1> SUFFICES ASSUME TypeOK, PlaceInv, Next PROVE TypeOK'
  BY DEF LoginInv
<1>0. Flags'
  BY FlagsKeep DEF Flags, TypeOK
<1> USE LoginAssumption DEF TypeOK, Flags, Place, Outcome, pollVars, End
<1>1. CASE Wait
  <2>1. CASE Start
    BY <1>0, <2>1 DEF Start, StartDeviceLogin
  <2>2. CASE CheckSaved \/ CheckSavedFails
    BY <1>0, <2>2 DEF CheckSaved, CheckSavedFails
  <2>3. CASE BrowserLogin
    BY <1>0, <2>3 DEF BrowserLogin, StartDeviceLogin
  <2>4. CASE StartPoll
    BY <1>0, <2>4 DEF StartPoll
  <2>5. CASE TimedOut
    BY <1>0, <2>5 DEF TimedOut, Refused
  <2> QED BY <1>1, <2>1, <2>2, <2>3, <2>4, <2>5 DEF Wait
<1>2. CASE Poll
  <2>1. CASE PollPending
    BY <1>0, <2>1 DEF PollPending, KeepPolling, Restart
  <2>2. CASE PollSlowDown
    BY <1>0, <2>2 DEF PollSlowDown, Restart
  <2>3. CASE PollFails
    <3>1. failures' \in 0..MaxFailures
      BY <2>3 DEF PollFails, PlaceInv, Polling
    <3>2. CASE failures' >= MaxFailures
      BY <1>0, <2>3, <3>1, <3>2 DEF PollFails, GiveUp
    <3>3. CASE ~(failures' >= MaxFailures)
      BY <1>0, <2>3, <3>1, <3>3 DEF PollFails, KeepPolling, Restart
    <3> QED BY <3>2, <3>3
  <2>4. CASE PollRefused
    BY <1>0, <2>4 DEF PollRefused, Refused
  <2>5. CASE PollSucceeds
    BY <1>0, <2>5 DEF PollSucceeds
  <2> QED BY <1>2, <2>1, <2>2, <2>3, <2>4, <2>5 DEF Poll
<1>3. CASE Use
  <2>1. CASE Exchange \/ ExchangeAgain \/ ExchangeFails
    BY <1>0, <2>1 DEF Exchange, ExchangeAgain, ExchangeFails, AfterExchange
  <2>2. CASE SaveCode
    BY <1>0, <2>2 DEF SaveCode
  <2>3. CASE Validate \/ ValidateFails \/ OverrideFails \/ NoOverride
    BY <1>0, <2>3 DEF Validate, ValidateFails, OverrideFails, NoOverride, Rejected
  <2>4. CASE Save
    BY <1>0, <2>4 DEF Save
  <2>5. CASE WriteLink
    BY <1>0, <2>5 DEF WriteLink
  <2> QED BY <1>3, <2>1, <2>2, <2>3, <2>4, <2>5 DEF Use
<1>4. CASE Cancel \/ Kill \/ Decide \/ Lapse \/ Finished
  BY <1>0, <1>4 DEF Cancel, Kill, Decide, Lapse, Finished, vars
<1>5. CASE Tick
  BY <1>0, <1>5 DEF Tick
<1> QED BY <1>1, <1>2, <1>3, <1>4, <1>5 DEF Next

\* A command that goes on knows whether its login is saved.
LEMMA PlaceKeeps == LoginInv /\ Next => PlaceInv'
<1> SUFFICES ASSUME LoginInv, Next PROVE PlaceInv'
  OBVIOUS
<1>1. saved \in [login: {"none", "old", "new"}, project: {"old", "new"}] /\ pc \in Place
  BY DEF LoginInv, TypeOK
<1> USE LoginAssumption DEF LoginInv, PlaceInv, pollVars, End, FromDashboard
<1>2. CASE Wait
  BY <1>2 DEF Wait, Start, StartDeviceLogin, CheckSaved, CheckSavedFails, BrowserLogin, StartPoll,
     TimedOut, Refused
<1>3. CASE Poll
  <2>1. CASE PollPending \/ PollSlowDown \/ PollSucceeds
    BY <2>1 DEF PollPending, PollSlowDown, KeepPolling, PollSucceeds, Polling
  <2>2. CASE PollFails
    <3>1. failures \in Nat /\ failures' = failures + 1 /\ pc \in {"pollNow", "poll"}
      BY <2>2 DEF TypeOK, PollFails, Polling
    <3>2. CASE failures' >= MaxFailures
      BY <2>2, <3>1, <3>2 DEF PollFails, GiveUp
    <3>3. CASE failures' < MaxFailures
      BY <2>2, <3>1, <3>3 DEF PollFails, KeepPolling
    <3> QED BY <3>1, <3>2, <3>3
  <2>3. CASE PollRefused
    BY <2>3 DEF PollRefused, Refused, Polling
  <2> QED BY <1>3, <2>1, <2>2, <2>3 DEF Poll
<1>4. CASE Exchange \/ ExchangeAgain \/ ExchangeFails
  BY <1>4 DEF Exchange, ExchangeAgain, ExchangeFails, AfterExchange
<1>5. CASE SaveCode
  BY <1>1, <1>5 DEF SaveCode
<1>6. CASE Validate \/ ValidateFails \/ OverrideFails \/ NoOverride
  BY <1>6 DEF Validate, ValidateFails, OverrideFails, NoOverride, Rejected
<1>7. CASE Save \/ WriteLink
  BY <1>7 DEF Save, WriteLink
<1>8. CASE Cancel \/ Kill \/ Decide \/ Lapse \/ Tick \/ Finished
  BY <1>8 DEF Cancel, Kill, Decide, Lapse, Tick, Finished, vars
<1> QED BY <1>2, <1>3, <1>4, <1>5, <1>6, <1>7, <1>8 DEF Next, Use

\* What a command says when it ends is so, and it throws no login away.
LEMMA OutcomeKeeps ==
    LoginInv /\ Next => SpentCodeKept' /\ OutcomeTrue' /\ PromptedAccount'
<1> SUFFICES ASSUME LoginInv, Next PROVE SpentCodeKept' /\ OutcomeTrue' /\ PromptedAccount'
  OBVIOUS
<1>1. /\ saved \in [login: {"none", "old", "new"}, project: {"old", "new"}]
      /\ pc \in Place /\ outcome \in Outcome
  BY DEF LoginInv, TypeOK
<1> USE DEF LoginInv, PlaceInv, SpentCodeKept, OutcomeTrue, PromptedAccount, pollVars, End,
            FromDashboard, SavedLoginKept
<1>2. CASE Wait
  BY <1>2 DEF Wait, Start, StartDeviceLogin, CheckSaved, CheckSavedFails, BrowserLogin, StartPoll,
     TimedOut, Refused
<1>3. CASE Poll
  BY <1>3 DEF Poll, PollPending, PollSlowDown, PollFails, GiveUp, KeepPolling, PollRefused, Refused,
     PollSucceeds, Polling
<1>4. CASE Exchange \/ ExchangeAgain \/ ExchangeFails
  BY <1>4 DEF Exchange, ExchangeAgain, ExchangeFails, AfterExchange
<1>5. CASE SaveCode
  BY <1>1, <1>5 DEF SaveCode
<1>6. CASE Validate \/ ValidateFails \/ OverrideFails \/ NoOverride
  BY <1>6 DEF Validate, ValidateFails, OverrideFails, NoOverride, Rejected
<1>7. CASE Save \/ WriteLink
  BY <1>1, <1>7 DEF Save, WriteLink
<1>8. CASE Cancel \/ Kill \/ Decide \/ Lapse \/ Tick \/ Finished
  BY <1>8 DEF Cancel, Kill, Decide, Lapse, Tick, Finished, vars, Polling
<1> QED BY <1>2, <1>3, <1>4, <1>5, <1>6, <1>7, <1>8 DEF Next, Use

\* A login never loses a spent code, never says what is not so, and knows at
\* every point whether it is saved (LoginWithDeviceCode, runLogin).
THEOREM LoginSafe == Spec => []LoginInv
<1>1. LoginInv /\ [Next]_vars => LoginInv'
  <2> SUFFICES ASSUME LoginInv, [Next]_vars PROVE LoginInv'
    OBVIOUS
  <2>1. CASE Next
    BY <2>1, TypeKeeps, PlaceKeeps, OutcomeKeeps DEF LoginInv
  <2>2. CASE UNCHANGED vars
    BY <2>2 DEF vars, pollVars, LoginInv, TypeOK, PlaceInv, SpentCodeKept, OutcomeTrue,
       PromptedAccount, FromDashboard, SavedLoginKept
  <2> QED BY <2>1, <2>2
<1> QED BY <1>1, InitInv, PTL DEF Spec

\* Nothing but a failed save, or being killed, throws away the login a code from
\* the dashboard was traded for.
THEOREM SpentCodeIsKept == Spec => []SpentCodeKept
<1>1. LoginInv => SpentCodeKept
  BY DEF LoginInv
<1> QED BY <1>1, LoginSafe, PTL

\* What the command says of the saved login is so.
THEOREM OutcomeIsTrue == Spec => []OutcomeTrue
<1>1. LoginInv => OutcomeTrue
  BY DEF LoginInv
<1> QED BY <1>1, LoginSafe, PTL

\* A code from the dashboard never ends in the login saved before.
THEOREM PromptedAccountUsed == Spec => []PromptedAccount
<1>1. LoginInv => PromptedAccount
  BY DEF LoginInv
<1> QED BY <1>1, LoginSafe, PTL

(***************************************************************************)
(* The project a login selects.                                            *)
(***************************************************************************)
LEMMA SelectionStarts == Init => SelectionInv
  BY DEF Init, SelectionInv, SelectionHolds

\* What is selected where changes with the login alone, or in the link after it.
LEMMA SelectionKeeps == LoginInv /\ SelectionInv /\ Next => SelectionInv'
<1> SUFFICES ASSUME LoginInv, SelectionInv, Next PROVE SelectionInv'
  OBVIOUS
<1>1. /\ saved \in [login: {"none", "old", "new"}, project: {"old", "new"}]
      /\ pc \in Place /\ how \in How
  BY DEF LoginInv, TypeOK
<1>2. /\ how.project \in BOOLEAN /\ how.link \in BOOLEAN /\ how.account \in BOOLEAN
      /\ how.flow \notin {"loginToken", "loginCode"} => ~how.project
      /\ how.flow # "loginToken" => how.account
  BY <1>1 DEF How
<1>3. refused => how.flow = "connectCode"
  BY DEF LoginInv, PlaceInv
<1>4. how' = how
  BY DEF Next, Wait, Start, CheckSaved, CheckSavedFails, BrowserLogin, StartPoll, TimedOut, Refused,
     Poll, PollPending, PollSlowDown, PollFails, GiveUp, KeepPolling, PollRefused, PollSucceeds,
     Use, Exchange, ExchangeAgain, ExchangeFails, SaveCode, Validate, ValidateFails, OverrideFails,
     NoOverride, Rejected, Save, WriteLink, Cancel, Kill, Decide, Lapse, Tick, Finished, vars
<1> USE DEF SelectionInv, SelectionHolds, InLink, pollVars, End
<1>5. CASE Wait
  BY <1>1, <1>2, <1>3, <1>4, <1>5 DEF Wait, Start, StartDeviceLogin, CheckSaved, CheckSavedFails, BrowserLogin, StartPoll,
     TimedOut, Refused
<1>6. CASE Poll
  BY <1>1, <1>2, <1>4, <1>6 DEF Poll, PollPending, PollSlowDown, PollFails, GiveUp, KeepPolling, PollRefused,
     Refused, PollSucceeds, Polling
<1>7. CASE Exchange \/ ExchangeAgain \/ ExchangeFails
  BY <1>1, <1>2, <1>4, <1>7 DEF Exchange, ExchangeAgain, ExchangeFails, AfterExchange
<1>8. CASE SaveCode
  BY <1>1, <1>2, <1>4, <1>8 DEF SaveCode
<1>9. CASE Validate \/ ValidateFails \/ OverrideFails \/ NoOverride
  BY <1>1, <1>2, <1>4, <1>9 DEF Validate, ValidateFails, OverrideFails, NoOverride, Rejected
<1>10. CASE Save
  <2>1. how.project => how.flow \in {"loginToken", "loginCode"}
    BY <1>2
  <2>2. CASE UNCHANGED saved /\ End("notSaved")
    BY <1>2, <1>4, <1>10, <2>2 DEF Save
  <2>3. CASE /\ saved'.project = IF Selects /\ (how.account => ~InLink) THEN "new" ELSE saved.project
             /\ IF InLink THEN pc' = "link" /\ outcome' = outcome ELSE End("in")
    <3>1. linked' = linked /\ linked # "new" /\ saved.project = "old" /\ outcome = "none"
      BY <1>10 DEF Save, LoginInv, PlaceInv
    <3>2. CASE InLink
      BY <1>2, <1>4, <1>10, <2>1, <2>3, <3>1, <3>2 DEF Save, Selects
    <3>3. CASE ~InLink
      BY <1>2, <1>4, <1>10, <2>1, <2>3, <3>1, <3>3 DEF Save, Selects
    <3> QED BY <3>2, <3>3
  <2> QED BY <1>10, <2>2, <2>3 DEF Save
<1>11. CASE WriteLink
  BY <1>1, <1>2, <1>4, <1>11 DEF WriteLink
<1>12. CASE Cancel \/ Kill \/ Decide \/ Lapse \/ Tick \/ Finished
  BY <1>1, <1>2, <1>4, <1>12 DEF Cancel, Kill, Decide, Lapse, Tick, Finished, vars, Polling
<1> QED BY <1>5, <1>6, <1>7, <1>8, <1>9, <1>10, <1>11, <1>12 DEF Next, Use

\* The project a login names is the one later commands use, and a selection in
\* a link leaves the one outside it alone (SaveCredentials, SelectInLink).
THEOREM ProjectSelected == Spec => []SelectionHolds
<1>1. LoginInv /\ SelectionInv /\ [Next]_vars => SelectionInv'
  <2>1. CASE Next
    BY <2>1, SelectionKeeps
  <2>2. CASE UNCHANGED vars
    BY <2>2 DEF vars, pollVars, SelectionInv, SelectionHolds, InLink
  <2> QED BY <2>1, <2>2
<1>2. SelectionInv => SelectionHolds
  BY DEF SelectionInv
<1> QED BY <1>1, <1>2, SelectionStarts, LoginSafe, PTL DEF Spec

(***************************************************************************)
(* The time between polls.                                                 *)
(***************************************************************************)
\* A poll or a tick keeps the tick an interval after the answer.
LEMMA TickerKeeps == LoginInv /\ TickerInv /\ Next => TickerInv'
<1> SUFFICES ASSUME LoginInv, TickerInv, Next PROVE TickerInv'
  OBVIOUS
<1>1. /\ interval \in Nat /\ due \in Nat \ {0} /\ since \in Nat
      /\ ready \in BOOLEAN /\ told \in BOOLEAN
  BY LoginAssumption DEF LoginInv, TypeOK
<1>2. ASSUME UNCHANGED <<interval, due, ready, since, told>> PROVE TickerInv'
  BY <1>2 DEF TickerInv
<1>3. ASSUME told' = FALSE PROVE TickerInv'
  BY <1>3 DEF TickerInv
<1>4. ASSUME NEW i \in Nat, interval' = i, due' = i, ready' = FALSE, since' = 0 PROVE TickerInv'
  <2>1. 0 + i >= i
    OBVIOUS
  <2> QED BY <1>4, <2>1 DEF TickerInv
<1>5. CASE Wait
  <2>1. CASE Start
    BY <1>2, <1>3, <2>1 DEF Start, StartDeviceLogin, pollVars
  <2>2. CASE BrowserLogin
    BY <1>3, <2>2 DEF BrowserLogin, StartDeviceLogin
  <2>3. CASE StartPoll
    BY <1>1, <2>3 DEF StartPoll, TickerInv
  <2>4. CASE CheckSaved \/ CheckSavedFails \/ TimedOut
    BY <1>2, <2>4 DEF CheckSaved, CheckSavedFails, TimedOut, Refused, pollVars
  <2> QED BY <1>5, <2>1, <2>2, <2>3, <2>4 DEF Wait
<1>6. CASE Poll
  <2>1. CASE PollSlowDown
    <3>1. interval' = interval + 1 /\ due' = interval + 1 /\ ready' = FALSE /\ since' = 0
      BY <2>1 DEF PollSlowDown, Restart
    <3>2. interval + 1 \in Nat
      BY <1>1
    <3> QED BY <1>4, <3>1, <3>2
  <2>2. ASSUME KeepPolling PROVE TickerInv'
    BY <1>1, <1>3, <1>4, <2>2 DEF KeepPolling, Restart
  <2>3. CASE PollPending
    BY <2>2, <2>3 DEF PollPending
  <2>4. CASE PollFails
    BY <1>2, <2>2, <2>4 DEF PollFails, GiveUp
  <2>5. CASE PollRefused \/ PollSucceeds
    BY <1>2, <2>5 DEF PollRefused, Refused, PollSucceeds, pollVars
  <2> QED BY <1>6, <2>1, <2>3, <2>4, <2>5 DEF Poll
<1>7. CASE Use
  BY <1>2, <1>7 DEF Use, Exchange, ExchangeAgain, ExchangeFails, SaveCode, Validate, ValidateFails,
     OverrideFails, NoOverride, Rejected, Save, WriteLink, pollVars
<1>8. CASE Tick
  <2>1. interval' = interval /\ told' = told /\ since' = since + 1
    BY <1>8 DEF Tick
  <2>2. CASE due = 1
    BY <1>1, <1>8, <2>1, <2>2 DEF Tick, TickerInv
  <2>3. CASE due # 1
    BY <1>1, <1>8, <2>1, <2>3 DEF Tick, TickerInv
  <2> QED BY <2>2, <2>3
<1>9. CASE Cancel \/ Kill \/ Decide \/ Lapse \/ Finished
  BY <1>2, <1>9 DEF Cancel, Kill, Decide, Lapse, Finished, vars, pollVars
<1> QED BY <1>5, <1>6, <1>7, <1>8, <1>9 DEF Next

\* A poll that follows the wait is made at a tick.
LEMMA PollAtATick == Next /\ pc = "wait" /\ pc' = "poll" => ready
  BY DEF Next, Wait, Start, CheckSaved, CheckSavedFails, BrowserLogin, StartPoll, TimedOut, Refused,
     Poll, PollPending, PollSlowDown, PollFails, GiveUp, KeepPolling, PollRefused, PollSucceeds,
     Use, Exchange, ExchangeAgain, ExchangeFails, SaveCode, Validate, ValidateFails, OverrideFails,
     NoOverride, Rejected, Save, WriteLink, Cancel, Kill, Decide, Lapse, Tick, Finished, vars,
     End, Polling

\* After slow_down, and after the poll made before the first tick, the next poll
\* comes a whole interval after the answer (waitForDeviceToken).
THEOREM PollsSlowDown == Spec => SlowsDown
<1>1. Init => TickerInv
  BY DEF Init, TickerInv
<1>2. LoginInv /\ TickerInv /\ [Next]_vars => TickerInv'
  <2>1. CASE Next
    BY <2>1, TickerKeeps
  <2>2. CASE UNCHANGED vars
    BY <2>2 DEF vars, pollVars, TickerInv
  <2> QED BY <2>1, <2>2
<1>3. TickerInv /\ [Next]_vars => [pc = "wait" /\ pc' = "poll" /\ told => since >= interval]_vars
  BY PollAtATick DEF TickerInv
<1> QED BY <1>1, <1>2, <1>3, LoginSafe, PTL DEF Spec, SlowsDown

(***************************************************************************)
(* The length of a login.                                                  *)
(***************************************************************************)
\* The numbers the length of a login is counted with.
Counted ==
    /\ left \in Nat /\ left <= Expiry /\ attempt \in Nat /\ 1 <= attempt /\ attempt <= MaxAttempts
    /\ pc \in Place /\ ready \in BOOLEAN /\ code \in {"pending", "approved", "refused", "spent"}

LEMMA CountedInv == LoginInv => Counted
  BY LoginAssumption DEF LoginInv, TypeOK, Counted

LEMMA Sums ==
    /\ \A a, b, c \in Nat : a < b => c + a < c + b
    /\ \A a, b, c \in Nat : a < b => a + c + 6 < b + c + 6
  OBVIOUS

LEMMA PollStepsCounted == Counted => PollSteps \in Nat /\ PollSteps <= 3 * Expiry + 5
  BY LoginAssumption DEF PollSteps, Counted

LEMMA PlaceStepsCounted ==
    Counted => PlaceSteps \in 0 .. RoundSteps /\ (pc # "done" => PlaceSteps > 0)
<1> SUFFICES ASSUME Counted
             PROVE  PlaceSteps \in 0 .. RoundSteps /\ (pc # "done" => PlaceSteps > 0)
  OBVIOUS
<1>1. PollSteps \in Nat /\ PollSteps <= 3 * Expiry + 5
  BY PollStepsCounted
<1>2. RoundSteps \in Nat /\ RoundSteps = 3 * Expiry + MaxAttempts + 12 /\ MaxAttempts \in Nat /\ Expiry \in Nat
  BY LoginAssumption DEF RoundSteps
<1>3. CASE pc \in {"pollNow", "poll", "wait"}
  <2>1. PlaceSteps = PollSteps + MaxAttempts + 6
    BY <1>3 DEF PlaceSteps
  <2> QED BY <1>1, <1>2, <1>3, <2>1
<1>4. CASE pc = "start"
  <2>1. PlaceSteps = RoundSteps
    BY <1>4 DEF PlaceSteps
  <2> QED BY <1>2, <1>4, <2>1
<1>5. CASE pc = "exchange"
  <2>1. PlaceSteps = MaxAttempts - attempt + 6
    BY <1>5 DEF PlaceSteps
  <2> QED BY <1>2, <1>5, <2>1 DEF Counted
<1>6. CASE pc \in {"saveCode", "validate", "override", "save", "link", "done"}
  <2>1. PlaceSteps \in 0 .. 5 /\ (pc # "done" => PlaceSteps > 0)
    BY <1>6 DEF PlaceSteps
  <2> QED BY <1>2, <2>1
<1> QED BY <1>3, <1>4, <1>5, <1>6 DEF Counted, Place

\* A poll and its answer use up the tick that led to it.
LEMMA PollShortens ==
    ASSUME LoginInv, Poll \/ StartPoll, pc' \in {"poll", "wait"}
    PROVE  PlaceSteps' < PlaceSteps /\ UNCHANGED <<how, refused>>
<1>1. Counted
  BY CountedInv
<1> USE LoginAssumption, <1>1 DEF Counted, PlaceSteps, PollSteps, Polling
<1>2. CASE StartPoll
  BY <1>2 DEF StartPoll
<1>3. CASE PollPending
  BY <1>3 DEF PollPending, KeepPolling, Restart
<1>4. CASE PollSlowDown
  BY <1>4 DEF PollSlowDown, Restart
<1>5. CASE PollFails
  <2>1. KeepPolling
    BY <1>5 DEF PollFails, GiveUp, End
  <2>2. code' = code \/ (code = "approved" /\ code' = "spent")
    BY <1>5 DEF PollFails
  <2>3. left' = left /\ pc' = "wait" /\ (ready' = ready \/ ready' = FALSE) /\ attempt' = attempt
    BY <2>1 DEF KeepPolling, Restart
  <2>4. PollSteps' < PollSteps
    BY <1>5, <2>2, <2>3 DEF PollFails
  <2>5. /\ PlaceSteps = PollSteps + MaxAttempts + 6
        /\ PlaceSteps' = PollSteps' + MaxAttempts + 6
    BY <1>5, <2>3 DEF PollFails
  <2>6. PollSteps \in Nat /\ PollSteps' \in Nat
    BY <2>2, <2>3
  <2>7. PlaceSteps' < PlaceSteps
    <3>1. MaxAttempts \in Nat
      BY LoginAssumption
    <3> HIDE DEF PlaceSteps, PollSteps
    <3> QED BY <2>4, <2>5, <2>6, <3>1, Sums, Zenon
  <2> QED BY <2>1, <2>7 DEF KeepPolling
<1>6. CASE PollRefused \/ PollSucceeds
  BY <1>6 DEF PollRefused, Refused, End, PollSucceeds
<1> QED BY <1>2, <1>3, <1>4, <1>5, <1>6 DEF Poll

\* The user, the API and the clock.
LEMMA OthersShorten ==
    ASSUME LoginInv, Decide \/ Lapse \/ Tick
    PROVE  PlaceSteps' < PlaceSteps /\ UNCHANGED <<how, refused>>
<1>1. Counted
  BY CountedInv
<1>2. pc \in {"pollNow", "poll", "wait"} /\ UNCHANGED <<how, pc, attempt, refused>>
  BY DEF Decide, Lapse, Tick, Polling
<1>3. PollSteps \in Nat /\ PollSteps' \in Nat /\ PollSteps' < PollSteps
  <2> USE <1>1, <1>2 DEF Counted, PollSteps, Polling
  <2>1. CASE Decide \/ Lapse
    BY <2>1 DEF Decide, Lapse, pollVars
  <2>2. CASE Tick
    <3>1. left' = left - 1 /\ left > 0 /\ ready' \in BOOLEAN /\ code' = code
      BY <2>2 DEF Tick
    <3> QED BY <3>1
  <2> QED BY <2>1, <2>2
<1>4. /\ PlaceSteps = PollSteps + MaxAttempts + 6
      /\ PlaceSteps' = PollSteps' + MaxAttempts + 6
  BY <1>2 DEF PlaceSteps
<1>5. MaxAttempts \in Nat
  BY LoginAssumption
<1>6. PlaceSteps' < PlaceSteps
  BY <1>3, <1>4, <1>5, Sums, Zenon
<1> QED BY <1>2, <1>6

\* What follows the polls, and the ends of a command.
LEMMA UseShortens ==
    ASSUME LoginInv, Use \/ Cancel \/ Kill \/ CheckSaved \/ CheckSavedFails
    PROVE  PlaceSteps' < PlaceSteps /\ UNCHANGED <<how, refused>>
<1>1. Counted /\ PlaceSteps \in Nat /\ (pc # "done" => PlaceSteps > 0)
  BY CountedInv, PlaceStepsCounted, LoginAssumption DEF RoundSteps
<1>2. ASSUME pc # "done", pc' = "done" PROVE PlaceSteps' < PlaceSteps
  BY <1>1, <1>2 DEF PlaceSteps
<1>3. CASE Cancel \/ Kill \/ CheckSaved \/ CheckSavedFails
  BY <1>2, <1>3 DEF Cancel, Kill, CheckSaved, CheckSavedFails, End, Polling
<1>4. CASE Use
  <2> USE LoginAssumption, <1>1 DEF Counted, End
  <2>1. CASE Exchange
    BY <2>1 DEF Exchange, AfterExchange, PlaceSteps
  <2>2. CASE ExchangeAgain
    BY <2>2 DEF ExchangeAgain, PlaceSteps
  <2>3. CASE ExchangeFails
    BY <1>2, <2>3 DEF ExchangeFails
  <2>4. CASE SaveCode
    BY <2>4 DEF SaveCode, PlaceSteps
  <2>5. CASE Validate \/ NoOverride
    BY <2>5 DEF Validate, NoOverride, PlaceSteps
  <2>6. CASE ValidateFails \/ OverrideFails
    BY <1>2, <2>6 DEF ValidateFails, OverrideFails, Rejected
  <2>7. CASE Save \/ WriteLink
    BY <2>7 DEF Save, WriteLink, PlaceSteps
  <2> QED BY <1>4, <2>1, <2>2, <2>3, <2>4, <2>5, <2>6, <2>7 DEF Use
<1> QED BY <1>3, <1>4

\* A login that begins, and the answers that end the polls.
LEMMA TurnShortens ==
    ASSUME LoginInv, Start \/ BrowserLogin \/ TimedOut \/ Poll, pc' \notin {"poll"}, pc = "start" \/ pc' # "wait"
    PROVE  StepsLeft' < StepsLeft
<1>1. Counted /\ RoundSteps \in Nat
  BY CountedInv, LoginAssumption DEF RoundSteps
<1>2. PlaceSteps \in 0 .. RoundSteps /\ (pc # "done" => PlaceSteps > 0)
  BY <1>1, PlaceStepsCounted
<1>3. ASSUME UNCHANGED <<how, refused>>, PlaceSteps' \in Nat, PlaceSteps' < PlaceSteps
      PROVE  StepsLeft' < StepsLeft
  <2>1. SecondLogin \in Nat /\ SecondLogin' = SecondLogin
    BY <1>1, <1>3 DEF SecondLogin, RoundSteps
  <2>2. PlaceSteps \in Nat
    BY <1>1, <1>2
  <2>3. StepsLeft = SecondLogin + PlaceSteps /\ StepsLeft' = SecondLogin' + PlaceSteps'
    BY DEF StepsLeft
  <2>4. SecondLogin' + PlaceSteps' < SecondLogin + PlaceSteps
    BY <1>3, <2>1, <2>2, Sums, Zenon
  <2> QED BY <2>3, <2>4
<1>4. ASSUME NEW approved \in BOOLEAN, StartDeviceLogin(approved), pc' \in {"pollNow", "wait"}, pc = "start",
             UNCHANGED <<how, refused>>
      PROVE  StepsLeft' < StepsLeft
  <2>1. \E n \in 0 .. 3 : PollSteps' = 3 * Expiry + n
    <3> DEFINE first == IF pc' = "pollNow" THEN 1 ELSE 0
               known == CASE code' = "pending" -> 2 [] code' = "approved" -> 1 [] OTHER -> 0
    <3>1. left' = Expiry /\ ready' = FALSE
      BY <1>4 DEF StartDeviceLogin
    <3>2. PollSteps' = 3 * Expiry + 0 + first + known
      BY <1>4, <3>1 DEF PollSteps, Polling
    <3>3. first \in {0, 1} /\ known \in {0, 1, 2}
      OBVIOUS
    <3> QED BY <3>2, <3>3, LoginAssumption
  <2>2. PICK n \in 0 .. 3 : PollSteps' = 3 * Expiry + n
    BY <2>1
  <2>3. PlaceSteps' = 3 * Expiry + n + MaxAttempts + 6 /\ PlaceSteps = RoundSteps
    BY <1>4, <2>2 DEF PlaceSteps
  <2>4. 3 * Expiry + n + MaxAttempts + 6 \in Nat /\ 3 * Expiry + n + MaxAttempts + 6 < RoundSteps
    BY LoginAssumption DEF RoundSteps
  <2>5. PlaceSteps' \in Nat /\ PlaceSteps' < PlaceSteps
    BY <2>3, <2>4
  <2> QED BY <1>3, <1>4, <2>5
<1>5. CASE Start
  <2>1. CASE pc' = "validate"
    <3>1. PlaceSteps' = 4 /\ PlaceSteps = RoundSteps
      BY <1>5, <2>1 DEF Start, PlaceSteps
    <3> QED BY <1>3, <1>5, <3>1, LoginAssumption DEF Start, RoundSteps
  <2>2. CASE pc' # "validate"
    BY <1>4, <1>5, <2>2 DEF Start
  <2> QED BY <2>1, <2>2
<1>6. CASE BrowserLogin
  BY <1>4, <1>6 DEF BrowserLogin
<1>7. ASSUME NEW result, Refused(result), pc # "done" PROVE StepsLeft' < StepsLeft
  <2>1. CASE how.flow = "connectCode" /\ ~refused
    <3>1. SecondLogin = RoundSteps /\ SecondLogin' = 0 /\ PlaceSteps' = RoundSteps
      BY <1>7, <2>1 DEF Refused, SecondLogin, PlaceSteps, RoundSteps
    <3> QED BY <1>1, <1>2, <1>7, <3>1 DEF StepsLeft
  <2>2. CASE ~(how.flow = "connectCode" /\ ~refused)
    <3>1. pc' = "done" /\ UNCHANGED <<how, refused>>
      BY <1>7, <2>2 DEF Refused, End
    <3>2. PlaceSteps' = 0
      BY <3>1 DEF PlaceSteps
    <3> QED BY <1>2, <1>3, <1>7, <3>1, <3>2
  <2> QED BY <2>1, <2>2
<1>8. CASE TimedOut
  BY <1>7, <1>8 DEF TimedOut
<1>9. CASE PollRefused
  BY <1>7, <1>9 DEF PollRefused, Polling
<1>10. CASE PollSucceeds
  <2>1. PlaceSteps' = MaxAttempts - attempt + 6
    BY <1>10 DEF PollSucceeds, PlaceSteps
  <2>2. PlaceSteps = PollSteps + MaxAttempts + 6
    BY <1>10 DEF PollSucceeds, PlaceSteps, Polling
  <2>3. PollSteps \in Nat
    BY <1>1, PollStepsCounted
  <2>4. UNCHANGED <<how, refused>>
    BY <1>10 DEF PollSucceeds
  <2> QED BY <1>1, <1>3, <2>1, <2>2, <2>3, <2>4, LoginAssumption DEF Counted
<1>11. CASE PollPending \/ PollSlowDown
  BY <1>11 DEF PollPending, PollSlowDown, KeepPolling, Polling
<1>12. CASE PollFails
  <2>1. pc # "start" /\ pc # "done"
    BY <1>12 DEF PollFails, Polling
  <2>2. GiveUp
    BY <1>12, <2>1 DEF PollFails, KeepPolling
  <2>3. PlaceSteps' = 0 /\ UNCHANGED <<how, refused>>
    BY <2>2 DEF GiveUp, End, PlaceSteps
  <2> QED BY <1>2, <1>3, <2>1, <2>3
<1> QED BY <1>5, <1>6, <1>8, <1>9, <1>10, <1>11, <1>12 DEF Poll

\* A login ends after a number of steps that the expiry of the code and the number
\* of attempts give, whatever is answered (waitForDeviceToken, ensureSession).
THEOREM LoginIsBounded == Spec => LoginBounded
<1>1. ASSUME LoginInv PROVE StepsLeft \in 0 .. 2 * RoundSteps
  <2>1. PlaceSteps \in 0 .. RoundSteps /\ RoundSteps \in Nat
    BY <1>1, CountedInv, PlaceStepsCounted, LoginAssumption DEF RoundSteps
  <2> QED BY <2>1 DEF StepsLeft, SecondLogin
<1>2. LoginInv => PlaceSteps \in 0 .. RoundSteps
  BY CountedInv, PlaceStepsCounted
<1>3. ASSUME LoginInv, Next, PlaceSteps \in 0 .. RoundSteps, (PlaceSteps \in 0 .. RoundSteps)'
      PROVE  StepsLeft' < StepsLeft \/ UNCHANGED vars
  <2>1. PlaceSteps \in Nat /\ PlaceSteps' \in Nat /\ RoundSteps \in Nat
    BY <1>3, LoginAssumption DEF RoundSteps
  <2>2. ASSUME PlaceSteps' < PlaceSteps, UNCHANGED <<how, refused>> PROVE StepsLeft' < StepsLeft
    <3>1. SecondLogin \in Nat /\ SecondLogin' = SecondLogin
      BY <2>1, <2>2 DEF SecondLogin, RoundSteps
    <3>2. StepsLeft = SecondLogin + PlaceSteps /\ StepsLeft' = SecondLogin' + PlaceSteps'
      BY DEF StepsLeft
    <3>3. SecondLogin' + PlaceSteps' < SecondLogin + PlaceSteps
      BY <2>1, <2>2, <3>1, Sums, Zenon
    <3> QED BY <3>2, <3>3
  <2>3. CASE Start \/ BrowserLogin \/ TimedOut
    <3>1. pc' # "poll" /\ (pc = "start" \/ pc' # "wait")
      BY <2>3 DEF Start, BrowserLogin, TimedOut, Refused, End
    <3> QED BY <1>3, <2>3, <3>1, TurnShortens
  <2>4. CASE Poll \/ StartPoll
    <3>1. CASE pc' \in {"poll", "wait"}
      BY <1>3, <2>2, <2>4, <3>1, PollShortens
    <3>2. CASE pc' \notin {"poll", "wait"}
      BY <1>3, <2>4, <3>2, TurnShortens DEF StartPoll
    <3> QED BY <3>1, <3>2
  <2>5. CASE Use \/ Cancel \/ Kill \/ CheckSaved \/ CheckSavedFails
    BY <1>3, <2>2, <2>5, UseShortens
  <2>6. CASE Decide \/ Lapse \/ Tick
    BY <1>3, <2>2, <2>6, OthersShorten
  <2> QED BY <1>3, <2>3, <2>4, <2>5, <2>6 DEF Next, Wait, Finished
<1>4. LoginInv /\ [Next]_vars /\ PlaceSteps \in 0 .. RoundSteps /\ (PlaceSteps \in 0 .. RoundSteps)'
      => [StepsLeft' < StepsLeft]_vars
  BY <1>3
<1> QED BY <1>1, <1>2, <1>4, LoginSafe, PTL DEF Spec, LoginBounded
=============================================================================
