--------------------------- MODULE FollowingProofs ---------------------------
(***************************************************************************)
(* The commands that follow implement Reading, for any number of logs and  *)
(* messages, pages of any size and any number of dropped connections.      *)
(***************************************************************************)
EXTENDS Following, TLAPS

USE MaxItemsAssumption, BuildFollowAssumption, LogTailAssumption, MessageFollowAssumption
USE DEF MaxItemsAssumption, BuildFollowAssumption, LogTailAssumption, MessageFollowAssumption

\* What appending one item does to what was printed.
LEMMA Appended ==
    ASSUME NEW S, NEW s \in Seq(S), NEW i \in S
    PROVE  LET t == Append(s, i)
           IN  /\ t \in Seq(S)
               /\ Len(t) = Len(s) + 1
               /\ t # <<>>
               /\ t[Len(t)] = i
               /\ \A k \in 1..Len(s) : t[k] = s[k]
               /\ {t[k] : k \in 1..Len(t)} = {s[k] : k \in 1..Len(s)} \cup {i}
<1> DEFINE t == Append(s, i)
<1>1. t \in Seq(S) /\ Len(t) = Len(s) + 1 /\ t # <<>> /\ t[Len(t)] = i
  OBVIOUS
<1>2. \A k \in 1..Len(s) : t[k] = s[k]
  OBVIOUS
<1>3. {t[k] : k \in 1..Len(t)} = {s[k] : k \in 1..Len(s)} \cup {i}
  <2>1. Len(s) \in Nat /\ 1..Len(t) = 1..Len(s) \cup {Len(t)}
    BY <1>1
  <2> QED
    BY <1>1, <1>2, <2>1
<1> QED
  BY <1>1, <1>2, <1>3

LEMMA PrintAppends ==
    ASSUME PrintTypeOK, NEW i \in 1..MaxItems, PrintItem(i)
    PROVE  /\ PrintTypeOK'
           /\ PrintedOut' = PrintedOut \cup {i}
           /\ Len(out') = Len(out) + 1
           /\ out' # <<>>
           /\ out'[Len(out')] = i
           /\ \A k \in 1..Len(out) : out'[k] = out[k]
           /\ UNCHANGED <<written, over, interrupted>>
BY Appended DEF PrintTypeOK, PrintedOut, PrintItem

LEMMA NothingPrinted ==
    ASSUME out' = out
    PROVE  PrintedOut' = PrintedOut
BY DEF PrintedOut

-----------------------------------------------------------------------------
LEMMA InitInv == Init => FollowInv
<1> SUFFICES ASSUME Init PROVE FollowInv
  OBVIOUS
<1> USE DEF Init, BuildStart, TailStart, MessageStart
<1>1. PrintedOut = {} /\ out \in Seq(1..MaxItems) /\ Len(out) = 0
  BY DEF PrintedOut
<1>2. TypeOK
  <2>1. PrintTypeOK
    BY <1>1 DEF PrintTypeOK
  <2>2. BuildTypeOK
    BY DEF BuildTypeOK, Mains
  <2>3. TailTypeOK
    BY DEF TailTypeOK
  <2>4. MessageTypeOK
    <3>1. sawEnd \in BOOLEAN /\ hasMore \in BOOLEAN /\ ended \in BOOLEAN
      OBVIOUS
    <3>2. page \in 0..Limit /\ after \in 0..MaxItems
      OBVIOUS
    <3>3. pass \in {"off", "status", "list", "print", "tick", "done"}
      OBVIOUS
    <3> QED
      BY <3>1, <3>2, <3>3 DEF MessageTypeOK
  <2> QED
    BY <2>1, <2>2, <2>3, <2>4 DEF TypeOK
<1>3. BuildInv
  <2>1. GoroutineInv
    BY <1>1, <1>2 DEF TypeOK, GoroutineInv, PrintTypeOK
  <2>2. RecordedInv
    BY <1>1 DEF RecordedInv
  <2>3. SearchInv
    BY <1>1 DEF SearchInv, Searching
  <2>4. OutcomeInv
    BY DEF OutcomeInv, Searching
  <2> QED
    BY <2>1, <2>2, <2>3, <2>4 DEF BuildInv
<1>4. TailInv
  BY <1>1, <1>2 DEF TailInv, TypeOK, PrintTypeOK
<1>5. MessageInv
  BY <1>1 DEF MessageInv
<1> QED
  BY <1>1, <1>2, <1>3, <1>4, <1>5 DEF FollowInv

-----------------------------------------------------------------------------
(***************************************************************************)
(* Build logs.                                                             *)
(***************************************************************************)
BuildIInv ==
    /\ PrintTypeOK
    /\ BuildTypeOK
    /\ main # "off"
    /\ PrintedOut \subseteq 1..written
    /\ BuildInv

LEMMA BuildKeeps ==
    ASSUME BuildIInv, BuildEnvironment \/ ReaderStep \/ MainStep
    PROVE  BuildIInv'
<1> USE DEF BuildIInv, PrintTypeOK, BuildTypeOK, Mains, BuildInv, GoroutineInv, RecordedInv, SearchInv, OutcomeInv,
            Searching, Clean, printVars, deployVars, readerVars, buildVars
<1>1. CASE BuildWrites /\ BuildRuns
  <2>1. UNCHANGED PrintedOut
    BY <1>1, NothingPrinted DEF BuildWrites, MoreWritten
  <2> QED
    BY <1>1, <2>1 DEF BuildWrites, MoreWritten, BuildRuns
<1>2. CASE BuildFinishes /\ BuildRuns
  <2>1. UNCHANGED PrintedOut
    BY <1>2, NothingPrinted DEF BuildFinishes
  <2> QED
    BY <1>2, <2>1 DEF BuildFinishes, BuildRuns
<1>3. CASE Redeployed /\ BuildRuns
  <2>1. UNCHANGED PrintedOut
    BY <1>3, NothingPrinted DEF Redeployed
  <2> QED
    BY <1>3, <2>1 DEF Redeployed, BuildRuns
<1>4. CASE RedeployFinishes /\ BuildRuns
  <2>1. UNCHANGED PrintedOut
    BY <1>4, NothingPrinted DEF RedeployFinishes
  <2> QED
    BY <1>4, <2>1 DEF RedeployFinishes, BuildRuns
<1>5. CASE BuildInterrupt /\ BuildRuns
  <2>1. UNCHANGED PrintedOut
    BY <1>5, NothingPrinted DEF BuildInterrupt, Interrupt
  <2> QED
    BY <1>5, <2>1 DEF BuildInterrupt, Interrupt, BuildRuns
<1>6. CASE ReadEvent
  <2>1. UNCHANGED PrintedOut
    BY <1>6, NothingPrinted DEF ReadEvent, RecordId
  <2> QED
    BY <1>6, <2>1 DEF ReadEvent, RecordId
<1>7. CASE PrintEvent
  <2>1. got \in 1..MaxItems /\ PrintItem(got)
    BY <1>7 DEF PrintEvent
  <2>2. PrintTypeOK' /\ PrintedOut' = PrintedOut \cup {got} /\ UNCHANGED <<written, over, interrupted>>
    BY <2>1, PrintAppends
  <2> QED
    BY <1>7, <2>1, <2>2 DEF PrintEvent
<1>8. CASE StreamEnds
  <2>1. UNCHANGED PrintedOut
    BY <1>8, NothingPrinted DEF StreamEnds
  <2> QED
    BY <1>8, <2>1 DEF StreamEnds
<1>9. CASE StreamCancelled
  <2>1. UNCHANGED PrintedOut
    BY <1>9, NothingPrinted DEF StreamCancelled
  <2> QED
    BY <1>9, <2>1 DEF StreamCancelled
<1>10. CASE SelectStreamEnd
  <2>1. UNCHANGED PrintedOut
    BY <1>10, NothingPrinted DEF SelectStreamEnd, Return, GoTo, Ends
  <2> QED
    BY <1>10, <2>1 DEF SelectStreamEnd, Return, GoTo, Ends
<1>11. CASE SelectInterrupt
  <2>1. UNCHANGED PrintedOut
    BY <1>11, NothingPrinted DEF SelectInterrupt, CancelAndGoTo
  <2> QED
    BY <1>11, <2>1 DEF SelectInterrupt, CancelAndGoTo
<1>12. CASE SelectTick
  <2>1. UNCHANGED PrintedOut
    BY <1>12, NothingPrinted DEF SelectTick, GoTo
  <2> QED
    BY <1>12, <2>1 DEF SelectTick, GoTo
<1>13. CASE CheckStatus
  <2>1. UNCHANGED PrintedOut
    BY <1>13, NothingPrinted DEF CheckStatus, SaysOver, CancelAndGoTo, GoTo
  <2> QED
    BY <1>13, <2>1 DEF CheckStatus, SaysOver, CancelAndGoTo, GoTo
<1>14. CASE CheckFails
  <2>1. UNCHANGED PrintedOut
    BY <1>14, NothingPrinted DEF CheckFails, Return, Ends, CancelAndGoTo
  <2> QED
    BY <1>14, <2>1 DEF CheckFails, Return, Ends, CancelAndGoTo
<1>15. CASE AwaitAndReturn
  <2>1. UNCHANGED PrintedOut
    BY <1>15, NothingPrinted DEF AwaitAndReturn, Awaited, Return, Ends
  <2> QED
    BY <1>15, <2>1 DEF AwaitAndReturn, Awaited, Return, Ends
<1>16. CASE AwaitThenSearch
  <2>1. UNCHANGED PrintedOut
    BY <1>16, NothingPrinted DEF AwaitThenSearch, Awaited, Return, Ends, GoTo
  <2> QED
    BY <1>16, <2>1 DEF AwaitThenSearch, Awaited, Return, Ends, GoTo
<1>17. CASE FetchPage
  <2>1. UNCHANGED PrintedOut
    BY <1>17, NothingPrinted DEF FetchPage, Return, Ends, GoTo
  <2> QED
    BY <1>17, <2>1 DEF FetchPage, Return, Ends, GoTo
<1>18. CASE PrintSearched
  <2>1. CASE cursor \in printed
    <3>1. UNCHANGED PrintedOut
      BY <1>18, <2>1, NothingPrinted DEF PrintSearched
    <3> QED
      BY <1>18, <2>1, <3>1 DEF PrintSearched
  <2>2. CASE cursor \notin printed
    <3>1. cursor \in 1..MaxItems /\ PrintItem(cursor)
      BY <1>18, <2>2 DEF PrintSearched
    <3>2. PrintTypeOK' /\ PrintedOut' = PrintedOut \cup {cursor} /\ UNCHANGED <<written, over, interrupted>>
      BY <3>1, PrintAppends
    <3> QED
      BY <1>18, <2>2, <3>1, <3>2 DEF PrintSearched
  <2> QED
    BY <2>1, <2>2
<1>19. CASE PageEnds
  <2>1. UNCHANGED PrintedOut
    BY <1>19, NothingPrinted DEF PageEnds, Return, Ends, GoTo
  <2> QED
    BY <1>19, <2>1 DEF PageEnds, Return, Ends, GoTo
<1> QED
  BY <1>1, <1>2, <1>3, <1>4, <1>5, <1>6, <1>7, <1>8, <1>9, <1>10, <1>11, <1>12, <1>13, <1>14, <1>15, <1>16, <1>17, <1>18, <1>19 DEF BuildEnvironment, ReaderStep, MainStep, Selects

-----------------------------------------------------------------------------
(***************************************************************************)
(* Runtime logs.                                                           *)
(***************************************************************************)
TailIInv ==
    /\ PrintTypeOK
    /\ TailTypeOK
    /\ tail # "off"
    /\ PrintedOut \subseteq 1..written
    /\ TailInv
    /\ stream = Home /\ shownOf \subseteq {Home}

LEMMA TailKeeps ==
    ASSUME TailIInv, TailEnvironment \/ TailStep
    PROVE  TailIInv'
<1> USE DEF TailIInv, PrintTypeOK, TailTypeOK, TailInv, printVars, tailVars
<1>1. CASE LogWritten /\ tail \notin {"off", "done"}
  <2>1. UNCHANGED PrintedOut
    BY <1>1, NothingPrinted DEF LogWritten, MoreWritten
  <2> QED
    BY <1>1, <2>1 DEF LogWritten, MoreWritten
<1>2. CASE TailInterrupt /\ tail \notin {"off", "done"}
  <2>1. UNCHANGED PrintedOut
    BY <1>2, NothingPrinted DEF TailInterrupt, Interrupt
  <2> QED
    BY <1>2, <2>1 DEF TailInterrupt, Interrupt
<1>3. CASE SelectProject /\ tail \notin {"off", "done"}
  <2>1. UNCHANGED PrintedOut
    BY <1>3, NothingPrinted DEF SelectProject
  <2> QED
    BY <1>3, <2>1 DEF SelectProject
<1>4. CASE Open
  <2>1. UNCHANGED PrintedOut
    BY <1>4, NothingPrinted DEF Open, TailGoesTo, Opens, StartsAfter
  <2> QED
    BY <1>4, <2>1 DEF Open, TailGoesTo, Opens, StartsAfter
<1>5. CASE OpenFails
  <2>1. UNCHANGED PrintedOut
    BY <1>5, NothingPrinted DEF OpenFails, ReturnError, Ends
  <2> QED
    BY <1>5, <2>1 DEF OpenFails, ReturnError, Ends
<1>6. CASE Deliver
  <2>1. CASE PrintItem(sent + 1) /\ UNCHANGED tail
    <3>1. sent + 1 \in 1..MaxItems
      BY <1>6 DEF Deliver
    <3>2. /\ PrintTypeOK' /\ PrintedOut' = PrintedOut \cup {sent + 1} /\ UNCHANGED <<written, over, interrupted>>
          /\ out' # <<>> /\ out'[Len(out')] = sent + 1
      BY <2>1, <3>1, PrintAppends
    <3> QED
      BY <1>6, <2>1, <3>1, <3>2 DEF Deliver
  <2>2. CASE ReturnError
    <3>1. UNCHANGED PrintedOut
      BY <2>2, NothingPrinted DEF ReturnError, Ends
    <3> QED
      BY <1>6, <2>2, <3>1 DEF Deliver, ReturnError, Ends
  <2> QED
    BY <1>6, <2>1, <2>2 DEF Deliver
<1>7. CASE Disconnected
  <2>1. UNCHANGED PrintedOut
    BY <1>7, NothingPrinted DEF Disconnected, ReturnError, Ends, TailGoesTo
  <2> QED
    BY <1>7, <2>1 DEF Disconnected, ReturnError, Ends, TailGoesTo
<1>8. CASE Backoff
  <2>1. UNCHANGED PrintedOut
    BY <1>8, NothingPrinted DEF Backoff, ReturnError, Ends, TailGoesTo
  <2> QED
    BY <1>8, <2>1 DEF Backoff, ReturnError, Ends, TailGoesTo
<1> QED
  BY <1>1, <1>2, <1>3, <1>4, <1>5, <1>6, <1>7, <1>8 DEF TailEnvironment, TailStep

-----------------------------------------------------------------------------
(***************************************************************************)
(* Messages.                                                               *)
(***************************************************************************)
MessageIInv ==
    /\ PrintTypeOK
    /\ MessageTypeOK
    /\ pass # "off"
    /\ PrintedOut \subseteq 1..written
    /\ MessageInv

LEMMA MessagesKeep ==
    ASSUME MessageIInv, MessageEnvironment \/ MessageStep
    PROVE  MessageIInv'
<1> USE DEF MessageIInv, PrintTypeOK, MessageTypeOK, MessageInv, printVars, messageVars
<1>1. CASE Publish /\ pass \notin {"off", "done"}
  <2>1. UNCHANGED PrintedOut
    BY <1>1, NothingPrinted DEF Publish, MoreWritten
  <2> QED
    BY <1>1, <2>1 DEF Publish, MoreWritten
<1>2. CASE ExecutionEnds /\ pass \notin {"off", "done"}
  <2>1. UNCHANGED PrintedOut
    BY <1>2, NothingPrinted DEF ExecutionEnds
  <2> QED
    BY <1>2, <2>1 DEF ExecutionEnds
<1>3. CASE MessagesInterrupt /\ pass \notin {"off", "done"}
  <2>1. UNCHANGED PrintedOut
    BY <1>3, NothingPrinted DEF MessagesInterrupt, Interrupt
  <2> QED
    BY <1>3, <2>1 DEF MessagesInterrupt, Interrupt
<1>4. CASE ReadFails
  <2>1. UNCHANGED PrintedOut
    BY <1>4, NothingPrinted DEF ReadFails, MessagesReturn, Ends
  <2> QED
    BY <1>4, <2>1 DEF ReadFails, MessagesReturn, Ends
<1>5. CASE ReadStatus
  <2>1. UNCHANGED PrintedOut
    BY <1>5, NothingPrinted DEF ReadStatus, PassGoesTo
  <2> QED
    BY <1>5, <2>1 DEF ReadStatus, PassGoesTo
<1>6. CASE ListPage
  <2>1. UNCHANGED PrintedOut
    BY <1>6, NothingPrinted DEF ListPage, PassGoesTo, Smaller
  <2> QED
    BY <1>6, <2>1 DEF ListPage, PassGoesTo, Smaller
<1>7. CASE PrintMessage
  <2>1. after + 1 \in 1..MaxItems /\ PrintItem(after + 1)
    BY <1>7 DEF PrintMessage
  <2>2. /\ PrintTypeOK' /\ PrintedOut' = PrintedOut \cup {after + 1} /\ UNCHANGED <<written, over, interrupted>>
        /\ Len(out') = Len(out) + 1 /\ out'[Len(out')] = after + 1
        /\ \A k \in 1..Len(out) : out'[k] = out[k]
    BY <2>1, PrintAppends
  <2>3. \A k \in 1..Len(out') : out'[k] = k
    BY <2>2
  <2> QED
    BY <1>7, <2>1, <2>2, <2>3 DEF PrintMessage
<1>8. CASE CannotPrint
  <2>1. UNCHANGED PrintedOut
    BY <1>8, NothingPrinted DEF CannotPrint, MessagesReturn, Ends
  <2> QED
    BY <1>8, <2>1 DEF CannotPrint, MessagesReturn, Ends
<1>9. CASE PagePrinted
  <2>1. UNCHANGED PrintedOut
    BY <1>9, NothingPrinted DEF PagePrinted, MessagesReturn, Ends, PassGoesTo
  <2> QED
    BY <1>9, <2>1 DEF PagePrinted, MessagesReturn, Ends, PassGoesTo
<1>10. CASE NextPass
  <2>1. UNCHANGED PrintedOut
    BY <1>10, NothingPrinted DEF NextPass, MessagesReturn, Ends, PassGoesTo
  <2> QED
    BY <1>10, <2>1 DEF NextPass, MessagesReturn, Ends, PassGoesTo
<1> QED
  BY <1>1, <1>2, <1>3, <1>4, <1>5, <1>6, <1>7, <1>8, <1>9, <1>10 DEF MessageEnvironment, MessageStep

-----------------------------------------------------------------------------
(***************************************************************************)
(* The composition.                                                        *)
(***************************************************************************)
LEMMA StepInv == FollowInv /\ [Next]_vars => FollowInv'
<1> SUFFICES ASSUME FollowInv, [Next]_vars PROVE FollowInv'
  OBVIOUS
<1>1. CASE FollowBuild
  <2>1. main # "off"
    BY <1>1 DEF FollowBuild, BuildEnvironment, BuildRuns, ReaderStep, MainStep, Selects, SelectStreamEnd,
                SelectInterrupt, SelectTick, CheckStatus, CheckFails, AwaitAndReturn, AwaitThenSearch, FetchPage,
                PrintSearched, PageEnds
  <2>2. BuildIInv'
    BY <1>1, <2>1, BuildKeeps DEF FollowBuild, BuildIInv, FollowInv, TypeOK
  <2>3. command = "build" /\ tail = "off" /\ pass = "off"
    BY <2>1 DEF FollowInv
  <2>4. UNCHANGED <<tailVars, messageVars, command>>
    BY <1>1 DEF FollowBuild
  <2>5. TypeOK'
    BY <2>2, <2>4 DEF FollowInv, TypeOK, BuildIInv, TailTypeOK, MessageTypeOK, tailVars, messageVars
  <2> QED
    BY <2>2, <2>3, <2>4, <2>5 DEF FollowInv, BuildIInv, TailInv, MessageInv, tailVars, messageVars
<1>2. CASE FollowRuntime
  <2>1. tail # "off"
    BY <1>2 DEF FollowRuntime, TailEnvironment, TailStep, Open, OpenFails, Deliver, Disconnected, Backoff
  <2>2. TailIInv'
    BY <1>2, <2>1, TailKeeps DEF FollowRuntime, TailIInv, FollowInv, TypeOK
  <2>3. command = "runtime" /\ main = "off" /\ pass = "off"
    BY <2>1 DEF FollowInv
  <2>4. UNCHANGED <<buildVars, messageVars, command>>
    BY <1>2 DEF FollowRuntime
  <2>5. TypeOK'
    BY <2>2, <2>4 DEF FollowInv, TypeOK, TailIInv, BuildTypeOK, MessageTypeOK, buildVars, deployVars, readerVars, messageVars
  <2> QED
    BY <2>2, <2>3, <2>4, <2>5 DEF FollowInv, TailIInv, BuildInv, MessageInv, buildVars, messageVars
<1>3. CASE FollowMessages
  <2>1. pass # "off"
    BY <1>3 DEF FollowMessages, MessageEnvironment, MessageStep, ReadFails, ReadStatus, ListPage, PrintMessage,
                CannotPrint, PagePrinted, NextPass
  <2>2. MessageIInv'
    BY <1>3, <2>1, MessagesKeep DEF FollowMessages, MessageIInv, FollowInv, TypeOK
  <2>3. command = "messages" /\ main = "off" /\ tail = "off"
    BY <2>1 DEF FollowInv
  <2>4. UNCHANGED <<buildVars, tailVars, command>>
    BY <1>3 DEF FollowMessages
  <2>5. TypeOK'
    BY <2>2, <2>4 DEF FollowInv, TypeOK, MessageIInv, BuildTypeOK, TailTypeOK, buildVars, deployVars, readerVars, tailVars
  <2> QED
    BY <2>2, <2>3, <2>4, <2>5 DEF FollowInv, MessageIInv, BuildInv, TailInv, buildVars, tailVars
<1>4. CASE UNCHANGED vars
  <2> QED
    BY <1>4 DEF vars, printVars, buildVars, deployVars, readerVars, tailVars, messageVars, FollowInv, TypeOK, PrintTypeOK,
                BuildTypeOK, TailTypeOK, MessageTypeOK, PrintedOut, BuildInv, GoroutineInv, RecordedInv, SearchInv,
                OutcomeInv, Searching, Clean, TailInv, MessageInv
<1> QED
  BY <1>1, <1>2, <1>3, <1>4 DEF Next, Over

\* The invariant of the three followers.
THEOREM FollowInvHolds == Spec => []FollowInv
<1> QED
  BY InitInv, StepInv, PTL DEF Spec


(***************************************************************************)
(* The refinement: every step prints one new item, ends, adds one, or      *)
(* leaves what Reading sees alone.                                         *)
(***************************************************************************)
LEMMA PrintsNew ==
    ASSUME FollowInv, UNCHANGED command, NEW i \in 1..written, PrintItem(i), over = "no",
           i \notin PrintedOut \/ i \in Nameless,
           command # "build" => out = <<>> \/ i = out[Len(out)] + 1
    PROVE  Contract!Next
BY DEF Contract!Next, Contract!PrintNew, Contract!Printed, Contract!Follows, PrintedOut, PrintItem

LEMMA NeitherPrintsNorEnds ==
    ASSUME UNCHANGED <<printVars, command>> \/ (Interrupt /\ UNCHANGED command)
    PROVE  UNCHANGED Contract!readingVars
BY DEF Contract!readingVars, printVars, Interrupt

LEMMA EndsCut ==
    ASSUME UNCHANGED command, over = "no", Ends("failed") \/ Ends("cut")
    PROVE  Contract!Next
BY DEF Contract!Next, Contract!Cut, Ends

LEMMA Adds ==
    ASSUME UNCHANGED command, MoreWritten
    PROVE  Contract!Next
BY DEF Contract!Next, Contract!Write, MoreWritten

LEMMA EndsComplete ==
    ASSUME UNCHANGED command, over = "no", Ends("complete"), PrintedOut = 1..written
    PROVE  Contract!Next
BY DEF Contract!Next, Contract!Complete, Contract!Printed, PrintedOut, Ends

LEMMA BuildReads ==
    ASSUME FollowInv, FollowBuild
    PROVE  Contract!Next \/ UNCHANGED Contract!readingVars
<1>1. UNCHANGED command
  BY DEF FollowBuild
<1>2. main # "off" /\ command = "build"
  BY DEF FollowInv, FollowBuild, BuildEnvironment, BuildRuns, ReaderStep, MainStep, Selects, SelectStreamEnd,
         SelectInterrupt, SelectTick, CheckStatus, CheckFails, AwaitAndReturn, AwaitThenSearch, FetchPage,
         PrintSearched, PageEnds
<1>3. BuildInv /\ PrintTypeOK /\ BuildTypeOK /\ PrintedOut \subseteq 1..written
  BY DEF FollowInv, TypeOK
<1>4. main # "done" => over = "no"
  BY <1>2, <1>3 DEF BuildInv
<1>5. CASE BuildEnvironment
  <2>1. MoreWritten \/ Interrupt \/ UNCHANGED printVars
    BY <1>5 DEF BuildEnvironment, BuildWrites, BuildFinishes, Redeployed, RedeployFinishes, BuildInterrupt
  <2> QED
    BY <1>1, <2>1, Adds, NeitherPrintsNorEnds
<1>6. CASE ReadEvent \/ StreamEnds \/ StreamCancelled
  BY <1>1, <1>6, NeitherPrintsNorEnds DEF ReadEvent, StreamEnds, StreamCancelled
<1>7. CASE PrintEvent
  <2>1. got \in 1..written /\ got \notin PrintedOut /\ over = "no"
    BY <1>2, <1>3, <1>4, <1>7 DEF PrintEvent, BuildInv, GoroutineInv
  <2> QED
    BY <1>1, <1>2, <1>7, <2>1, PrintsNew DEF PrintEvent
<1>8. CASE PrintSearched
  <2>1. cursor \in 1..written /\ over = "no"
    BY <1>2, <1>3, <1>4, <1>8 DEF PrintSearched, BuildInv, SearchInv, Searching, PrintTypeOK, BuildTypeOK
  <2>2. cursor \notin printed => cursor \notin PrintedOut \/ cursor \in Nameless
    BY <1>2, <1>3, <1>8, <2>1 DEF PrintSearched, BuildInv, SearchInv, Searching
  <2> QED
    BY <1>1, <1>2, <1>8, <2>1, <2>2, PrintsNew, NeitherPrintsNorEnds DEF PrintSearched
<1>9. CASE PageEnds
  <2>1. CASE cursor > 0
    BY <1>1, <1>9, <2>1, NeitherPrintsNorEnds DEF PageEnds, GoTo
  <2>2. CASE ~(cursor > 0)
    <3>1. PrintedOut = 1..written
      <4>1. cursor = 0
        BY <1>3, <2>2 DEF BuildTypeOK
      <4>2. \A i \in 1..written : i > cursor => i \in PrintedOut
        <5>1. Searching
          BY <1>9 DEF PageEnds, Searching
        <5> QED
          BY <1>2, <1>3, <5>1 DEF BuildInv, SearchInv
      <4>3. 1..written \subseteq PrintedOut
        BY <1>3, <4>1, <4>2 DEF PrintTypeOK
      <4> QED
        BY <1>3, <4>3
    <3> QED
      BY <1>1, <1>4, <1>9, <2>2, <3>1, EndsComplete DEF PageEnds, Return
  <2> QED
    BY <2>1, <2>2
<1>10. CASE Selects \/ CheckStatus \/ CheckFails \/ AwaitAndReturn \/ AwaitThenSearch \/ FetchPage
  <2>1. over = "no"
    BY <1>4, <1>10 DEF Selects, SelectStreamEnd, SelectInterrupt, SelectTick, CheckStatus, CheckFails, AwaitAndReturn,
                       AwaitThenSearch, FetchPage
  <2>2. UNCHANGED printVars \/ Ends("failed") \/ Ends("cut")
    BY <1>10 DEF Selects, SelectStreamEnd, SelectInterrupt, SelectTick, CheckStatus, CheckFails, AwaitAndReturn,
                 AwaitThenSearch, FetchPage, Return, GoTo, CancelAndGoTo
  <2> QED
    BY <1>1, <2>1, <2>2, EndsCut, NeitherPrintsNorEnds
<1> QED
  BY <1>5, <1>6, <1>7, <1>8, <1>9, <1>10 DEF FollowBuild, ReaderStep, MainStep

LEMMA RuntimeReads ==
    ASSUME FollowInv, FollowRuntime
    PROVE  Contract!Next \/ UNCHANGED Contract!readingVars
<1>1. UNCHANGED command
  BY DEF FollowRuntime
<1>2. tail # "off" /\ command # "build"
  BY DEF FollowInv, FollowRuntime, TailEnvironment, TailStep, Open, OpenFails, Deliver, Disconnected, Backoff
<1>3. TailInv /\ PrintTypeOK /\ TailTypeOK /\ PrintedOut \subseteq 1..written
  BY DEF FollowInv, TypeOK
<1>4. CASE TailEnvironment
  <2>1. MoreWritten \/ Interrupt \/ UNCHANGED printVars
    BY <1>4 DEF TailEnvironment, LogWritten, TailInterrupt, SelectProject
  <2> QED
    BY <1>1, <2>1, Adds, NeitherPrintsNorEnds
<1>5. CASE Open \/ OpenFails \/ Disconnected \/ Backoff \/ (Deliver /\ ReturnError)
  <2>1. over = "no"
    BY <1>2, <1>3, <1>5 DEF TailInv, Open, OpenFails, Disconnected, Backoff, Deliver
  <2>2. UNCHANGED printVars \/ Ends("failed") \/ Ends("cut")
    BY <1>5 DEF Open, OpenFails, Disconnected, Backoff, TailGoesTo, ReturnError
  <2> QED
    BY <1>1, <2>1, <2>2, EndsCut, NeitherPrintsNorEnds
<1>6. CASE Deliver /\ PrintItem(sent + 1)
  <2>1. sent + 1 \in 1..written /\ over = "no"
    BY <1>2, <1>3, <1>6 DEF Deliver, TailInv, TailTypeOK, PrintTypeOK
  <2>2. sent + 1 \notin PrintedOut
    <3>1. \A i \in PrintedOut : i <= lastID
      BY <1>2, <1>3 DEF TailInv
    <3>2. lastID <= sent
      BY <1>2, <1>3, <1>6 DEF Deliver, TailInv, TailTypeOK
    <3> QED
      BY <1>3, <3>1, <3>2 DEF TailTypeOK
  <2>3. out = <<>> \/ sent + 1 = out[Len(out)] + 1
    BY <1>2, <1>3, <1>6 DEF Deliver, TailInv, TailTypeOK, PrintTypeOK
  <2> QED
    BY <1>1, <1>6, <2>1, <2>2, <2>3, PrintsNew
<1> QED
  BY <1>4, <1>5, <1>6 DEF FollowRuntime, TailStep, Deliver

LEMMA MessagesRead ==
    ASSUME FollowInv, FollowMessages
    PROVE  Contract!Next \/ UNCHANGED Contract!readingVars
<1>1. UNCHANGED command
  BY DEF FollowMessages
<1>2. pass # "off" /\ command # "build"
  BY DEF FollowInv, FollowMessages, MessageEnvironment, MessageStep, ReadFails, ReadStatus, ListPage, PrintMessage,
         CannotPrint, PagePrinted, NextPass
<1>3. MessageInv /\ PrintTypeOK /\ MessageTypeOK /\ PrintedOut \subseteq 1..written
  BY DEF FollowInv, TypeOK
<1>4. CASE MessageEnvironment
  <2>1. MoreWritten \/ Interrupt \/ UNCHANGED printVars
    BY <1>4 DEF MessageEnvironment, Publish, ExecutionEnds, MessagesInterrupt
  <2> QED
    BY <1>1, <2>1, Adds, NeitherPrintsNorEnds
<1>5. CASE ReadFails \/ ReadStatus \/ ListPage \/ CannotPrint \/ NextPass
  <2>1. over = "no"
    BY <1>2, <1>3, <1>5 DEF MessageInv, ReadFails, ReadStatus, ListPage, CannotPrint, NextPass
  <2>2. UNCHANGED printVars \/ Ends("failed") \/ Ends("cut")
    BY <1>5 DEF ReadFails, ReadStatus, ListPage, CannotPrint, NextPass, PassGoesTo, MessagesReturn
  <2> QED
    BY <1>1, <2>1, <2>2, EndsCut, NeitherPrintsNorEnds
<1>6. CASE PrintMessage
  <2>1. after + 1 \in 1..written /\ over = "no"
    BY <1>2, <1>3, <1>6 DEF PrintMessage, MessageInv, MessageTypeOK, PrintTypeOK
  <2>2. after + 1 \notin PrintedOut
    BY <1>2, <1>3, <1>6 DEF PrintMessage, MessageInv, MessageTypeOK, PrintedOut
  <2>3. out = <<>> \/ after + 1 = out[Len(out)] + 1
    BY <1>2, <1>3, <1>6 DEF PrintMessage, MessageInv, MessageTypeOK, PrintTypeOK
  <2> QED
    BY <1>1, <1>6, <2>1, <2>2, <2>3, PrintsNew DEF PrintMessage
<1>7. CASE PagePrinted
  <2>1. over = "no"
    BY <1>2, <1>3, <1>7 DEF MessageInv, PagePrinted
  <2>2. CASE ~hasMore /\ sawEnd
    <3>1. after = written /\ Len(out) = after /\ \A k \in 1..Len(out) : out[k] = k
      BY <1>2, <1>3, <1>7, <2>2 DEF PagePrinted, MessageInv, MessageTypeOK, PrintTypeOK
    <3>2. PrintedOut = 1..written
      <4>1. PrintedOut = {k : k \in 1..Len(out)}
        BY <3>1 DEF PrintedOut
      <4> QED
        BY <3>1, <4>1
    <3> QED
      BY <1>1, <1>7, <2>1, <2>2, <3>2, EndsComplete DEF PagePrinted, MessagesReturn
  <2>3. CASE hasMore \/ ~sawEnd
    BY <1>1, <1>7, <2>3, NeitherPrintsNorEnds DEF PagePrinted, PassGoesTo
  <2> QED
    BY <2>2, <2>3
<1> QED
  BY <1>4, <1>5, <1>6, <1>7 DEF FollowMessages, MessageStep

\* Following build logs, runtime logs and messages all implement Reading: nothing
\* is printed twice, left out or out of order, and a follow that ends by itself has
\* printed everything (logfollow.Deployment, reconnectingStream, runFollow).
THEOREM FollowersRead == Spec => ReadingHolds
<1>1. Init => Contract!Init
  BY DEF Init, Contract!Init
<1>2. FollowInv /\ [Next]_vars => [Contract!Next]_(Contract!readingVars)
  <2> SUFFICES ASSUME FollowInv, [Next]_vars PROVE Contract!Next \/ UNCHANGED Contract!readingVars
    OBVIOUS
  <2>1. CASE Over \/ UNCHANGED vars
    BY <2>1 DEF Over, vars, printVars, Contract!readingVars
  <2> QED
    BY <2>1, BuildReads, RuntimeReads, MessagesRead DEF Next
<1> QED
  BY <1>1, <1>2, FollowInvHolds, PTL DEF Spec, ReadingHolds, Contract!Spec

-----------------------------------------------------------------------------
LEMMA FailureReportedStep == FollowInv /\ FailureReported /\ [Next]_vars => FailureReported'
<1> SUFFICES ASSUME FollowInv, FailureReported, [Next]_vars PROVE FailureReported'
  OBVIOUS
<1>1. CASE FollowBuild
  <2>1. BuildInv /\ main # "off"
    BY <1>1 DEF FollowInv, FollowBuild, BuildEnvironment, BuildRuns, ReaderStep, MainStep, Selects, SelectStreamEnd,
                SelectInterrupt, SelectTick, CheckStatus, CheckFails, AwaitAndReturn, AwaitThenSearch, FetchPage,
                PrintSearched, PageEnds
  <2>2. CASE BuildEnvironment
    BY <2>1, <2>2 DEF BuildEnvironment, BuildRuns, BuildWrites, BuildFinishes, Redeployed, RedeployFinishes,
                      BuildInterrupt, MoreWritten, Interrupt, printVars, buildVars, BuildInv, FailureReported
  <2>3. CASE ReaderStep
    BY <2>1, <2>3 DEF ReaderStep, ReadEvent, PrintEvent, StreamEnds, StreamCancelled, PrintItem, printVars, BuildInv,
                      GoroutineInv, FailureReported
  <2>4. CASE MainStep
    BY <2>1, <2>4 DEF MainStep, Selects, SelectStreamEnd, SelectInterrupt, SelectTick, CheckStatus, CheckFails,
                      AwaitAndReturn, AwaitThenSearch, FetchPage, PrintSearched, PageEnds, Return, Ends, GoTo,
                      CancelAndGoTo, PrintItem, printVars, BuildInv, OutcomeInv, Searching, Clean, FailureReported
  <2> QED
    BY <1>1, <2>2, <2>3, <2>4 DEF FollowBuild
<1>2. CASE FollowRuntime
  <2>1. FollowInv' /\ tail # "off" /\ tail' # "off"
    BY <1>2, StepInv DEF FollowInv, FollowRuntime, TailEnvironment, TailStep, LogWritten, TailInterrupt, SelectProject,
                Open, OpenFails, Deliver, Disconnected, Backoff, tailVars, TailGoesTo, ReturnError
  <2> QED
    BY <2>1 DEF FollowInv, TailInv, FailureReported
<1>3. CASE FollowMessages
  <2>1. FollowInv' /\ UNCHANGED <<main, errCh>>
    BY <1>3, StepInv DEF Next, FollowMessages, buildVars
  <2>2. pass' # "off"
    BY <1>3, <2>1 DEF FollowInv, FollowMessages, MessageEnvironment, MessageStep, Publish, ExecutionEnds,
                      MessagesInterrupt, ReadFails, ReadStatus, ListPage, PrintMessage, CannotPrint, PagePrinted,
                      NextPass, messageVars, PassGoesTo, MessagesReturn
  <2>3. (over' = "cut" => interrupted') /\ errCh' = "empty"
    BY <2>1, <2>2 DEF FollowInv, TypeOK, MessageInv
  <2> QED
    BY <1>3, <2>1, <2>3 DEF FailureReported
<1>4. CASE UNCHANGED vars
  BY <1>4 DEF vars, printVars, buildVars, FailureReported
<1> QED
  BY <1>1, <1>2, <1>3, <1>4 DEF Next, Over

\* A stream that failed is reported, whichever came first, and only an interrupt
\* ends a follow early without an error (cleanStreamShutdown).
THEOREM FailureReportedHolds == Spec => []FailureReported
<1>1. Init => FailureReported
  BY DEF Init, FailureReported
<1> QED
  BY <1>1, FollowInvHolds, FailureReportedStep, PTL DEF Spec

\* A tail of a project keeps to the project it began in (pinnedProject).
THEOREM OneProjectHolds == Spec => []OneProject
<1>1. FollowInv => OneProject
  BY DEF FollowInv, OneProject
<1> QED
  BY <1>1, FollowInvHolds, PTL
-----------------------------------------------------------------------------
(***************************************************************************)
(* The follow of messages comes to its end: every step of the command,     *)
(* once the execution has ended, leaves fewer to take.                     *)
(***************************************************************************)
\* What FollowInv says of the cursor, with the numbers spelled out.
LEMMA Cursor ==
    ASSUME FollowInv
    PROVE  /\ MaxItems \in Nat /\ Limit \in Nat \ {0} /\ written \in Nat /\ after \in Nat /\ page \in Nat
           /\ written <= MaxItems /\ after <= MaxItems
           /\ pass \in {"off", "status", "list", "print", "tick", "done"}
           /\ ended \in BOOLEAN /\ sawEnd \in BOOLEAN /\ hasMore \in BOOLEAN
           /\ pass \notin {"off", "print"} => after <= written
           /\ pass = "print" => after + page <= written
BY MaxItemsAssumption, MessageFollowAssumption DEF FollowInv, TypeOK, PrintTypeOK, MessageTypeOK, MessageInv

LEMMA MessageStepsInRange == FollowInv => MessageSteps \in 0 .. 3 * MaxItems + 7
<1> SUFFICES ASSUME FollowInv PROVE MessageSteps \in 0 .. 3 * MaxItems + 7
  OBVIOUS
<1>1. CASE pass \in {"off", "done"}
  <2>1. MessageSteps = 0
    BY <1>1 DEF MessageSteps
  <2> QED
    BY <2>1, Cursor
<1>2. CASE pass \notin {"off", "done"}
  <2>1. written - after \in 0..MaxItems
    BY <1>2, Cursor
  <2> QED
    BY <1>2, <2>1, Cursor DEF MessageSteps
<1> QED
  BY <1>1, <1>2

\* What the command does with the execution ended.
LEMMA MessageStepShortens ==
    ASSUME FollowInv, FollowInv', ended, MessageStep
    PROVE  ended' /\ MessageSteps' < MessageSteps
<1> USE Cursor DEF MessageSteps, printVars
<1>1. /\ written' \in Nat /\ after' \in Nat /\ page' \in Nat
      /\ sawEnd' \in BOOLEAN /\ hasMore' \in BOOLEAN
  BY MaxItemsAssumption DEF FollowInv, TypeOK, PrintTypeOK, MessageTypeOK
<1>2. CASE ReadFails
  BY <1>2 DEF ReadFails, MessagesReturn, Ends
<1>3. CASE ReadStatus
  BY <1>3 DEF ReadStatus, PassGoesTo
<1>4. CASE ListPage
  <2>1. /\ pass = "list" /\ pass' = "print"
        /\ UNCHANGED <<ended, sawEnd, after, written>>
    BY <1>4 DEF ListPage, PassGoesTo
  <2>2. ~(hasMore' /\ page' = 0)
    BY <1>4, <2>1 DEF ListPage, Smaller
  <2> QED
    BY <2>1, <2>2
<1>5. CASE PrintMessage
  <2>1. /\ pass = "print" /\ pass' = "print" /\ page > 0 /\ page' = page - 1 /\ after' = after + 1
        /\ UNCHANGED <<ended, sawEnd, hasMore, written>>
    BY <1>5 DEF PrintMessage, PrintItem
  <2>2. 3 * (written' - after') + 3 <= 3 * (written - after)
    BY <2>1
  <2> QED
    BY <2>1, <2>2
<1>6. CASE CannotPrint
  BY <1>6 DEF CannotPrint, MessagesReturn, Ends
<1>7. CASE PagePrinted
  BY <1>7 DEF PagePrinted, MessagesReturn, Ends, PassGoesTo
<1>8. CASE NextPass
  BY <1>8 DEF NextPass, MessagesReturn, Ends, PassGoesTo
<1> QED
  BY <1>2, <1>3, <1>4, <1>5, <1>6, <1>7, <1>8 DEF MessageStep

\* What is not a step of the command leaves the steps it has to take alone.
LEMMA OthersDoNotLengthen ==
    ASSUME FollowInv, FollowInv', ended, [Next]_vars, ~MessageStep
    PROVE  ended' /\ MessageSteps' <= MessageSteps
<1>1. MessageSteps \in Nat
  BY MessageStepsInRange, Cursor
<1>2. CASE FollowBuild \/ FollowRuntime
  <2>1. pass = "off"
    BY <1>2 DEF FollowInv, FollowBuild, FollowRuntime, BuildEnvironment, BuildRuns, ReaderStep, MainStep, Selects,
                SelectStreamEnd, SelectInterrupt, SelectTick, CheckStatus, CheckFails, AwaitAndReturn, AwaitThenSearch,
                FetchPage, PrintSearched, PageEnds, TailEnvironment, TailStep, Open, OpenFails, Deliver, Disconnected,
                Backoff
  <2>2. UNCHANGED messageVars
    BY <1>2 DEF FollowBuild, FollowRuntime
  <2> QED
    BY <2>1, <2>2 DEF messageVars, MessageSteps
<1>3. CASE FollowMessages
  <2>1. MessageEnvironment
    BY <1>3 DEF FollowMessages
  <2>2. UNCHANGED <<written, messageVars>>
    BY <2>1 DEF MessageEnvironment, Publish, ExecutionEnds, MessagesInterrupt, Interrupt
  <2>3. UNCHANGED MessageSteps
    BY <2>2 DEF messageVars, MessageSteps
  <2> QED
    BY <1>1, <2>2, <2>3 DEF messageVars
<1>4. CASE Over \/ UNCHANGED vars
  <2>1. UNCHANGED <<written, messageVars>>
    BY <1>4 DEF Over, vars, printVars
  <2>2. UNCHANGED MessageSteps
    BY <2>1 DEF messageVars, MessageSteps
  <2> QED
    BY <1>1, <2>1, <2>2 DEF messageVars
<1> QED
  BY <1>2, <1>3, <1>4 DEF Next

\* The command that lists messages, its execution over, has a bounded number of
\* requests and of messages left, and each of its steps is one of them (runFollow).
THEOREM MessagesAreBounded == Spec => MessagesBounded
<1>1. FollowInv /\ FollowInv' /\ [Next]_vars =>
          [ended => ended' /\ IF MessageStep THEN MessageSteps' < MessageSteps
                                             ELSE MessageSteps' <= MessageSteps]_vars
  BY MessageStepShortens, OthersDoNotLengthen
<1> QED
  BY <1>1, FollowInvHolds, MessageStepsInRange, PTL DEF Spec, MessagesBounded
=============================================================================
