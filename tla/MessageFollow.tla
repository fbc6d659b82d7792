---------------------------- MODULE MessageFollow ----------------------------
(***************************************************************************)
(* `durable messages list --follow`: reading the messages of one execution *)
(* until it ends.  Each pass reads the execution's status first, then      *)
(* pages through the messages after the last one printed, then waits for a *)
(* tick.                                                                   *)
(*                                                                         *)
(* A message is published only while the execution runs, and a page that   *)
(* promises more is not empty: that much is the service's.  Messages are   *)
(* numbered from the first one the command asks for, --after and the       *)
(* filters applied.                                                        *)
(***************************************************************************)
EXTENDS Printing

CONSTANT Limit          \* the most messages of one page

ASSUME MessageFollowAssumption == Limit \in Nat \ {0}

VARIABLES
    ended,          \* the execution has ended
    pass,           \* where the command is
    sawEnd,         \* the status this pass began with was an end
    page,           \* the messages of the page that are still to be printed
    hasMore,        \* what the page said of the ones after it
    after           \* the last message printed: input.After

messageVars == <<ended, pass, sawEnd, page, hasMore, after>>

MessageTypeOK ==
    /\ ended \in BOOLEAN
    /\ pass \in {"off", "status", "list", "print", "tick", "done"}
    /\ sawEnd \in BOOLEAN
    /\ page \in 0..Limit
    /\ hasMore \in BOOLEAN
    /\ after \in 0..MaxItems

Publish ==
    /\ ~ended
    /\ MoreWritten
    /\ UNCHANGED messageVars

ExecutionEnds ==
    /\ ~ended
    /\ ended' = TRUE
    /\ UNCHANGED <<printVars, pass, sawEnd, page, hasMore, after>>

MessagesInterrupt == Interrupt /\ UNCHANGED messageVars

MessageEnvironment ==
    /\ pass \notin {"off", "done"}
    /\ Publish \/ ExecutionEnds \/ MessagesInterrupt

PassGoesTo(step) ==
    /\ pass' = step
    /\ UNCHANGED printVars

MessagesReturn(how) ==
    /\ Ends(how)
    /\ pass' = "done"

\* A read that an interrupt cut short is not a failure.
ReadFails ==
    /\ pass \in {"status", "list"}
    /\ MessagesReturn(IF interrupted THEN "cut" ELSE "failed")
    /\ UNCHANGED <<ended, sawEnd, page, hasMore, after>>

ReadStatus ==
    /\ pass = "status"
    /\ ~interrupted
    /\ sawEnd' = ended
    /\ PassGoesTo("list")
    /\ UNCHANGED <<ended, page, hasMore, after>>

Smaller(m, n) == IF m < n THEN m ELSE n

ListPage ==
    /\ pass = "list"
    /\ ~interrupted
    /\ page' = Smaller(Limit, written - after)
    /\ hasMore' = (written - after > Limit)
    /\ PassGoesTo("print")
    /\ UNCHANGED <<ended, sawEnd, after>>

PrintMessage ==
    /\ pass = "print"
    /\ page > 0
    /\ PrintItem(after + 1)
    /\ after' = after + 1
    /\ page' = page - 1
    /\ UNCHANGED <<ended, pass, sawEnd, hasMore>>

CannotPrint ==
    /\ pass = "print"
    /\ page > 0
    /\ MessagesReturn("failed")
    /\ UNCHANGED <<ended, sawEnd, page, hasMore, after>>

\* The end of a page: another one, the next pass, or, in the pass that began
\* with an end, the end of the follow.
PagePrinted ==
    /\ pass = "print"
    /\ page = 0
    /\ \/ hasMore /\ PassGoesTo("list")
       \/ ~hasMore /\ sawEnd /\ MessagesReturn("complete")
       \/ ~hasMore /\ ~sawEnd /\ PassGoesTo("tick")
    /\ UNCHANGED <<ended, sawEnd, page, hasMore, after>>

NextPass ==
    /\ pass = "tick"
    /\ PassGoesTo("status") \/ (interrupted /\ MessagesReturn("cut"))
    /\ UNCHANGED <<ended, sawEnd, page, hasMore, after>>

MessageStep ==
    \/ ReadFails \/ ReadStatus \/ ListPage
    \/ PrintMessage \/ CannotPrint \/ PagePrinted \/ NextPass

MessageStart(on) ==
    /\ ended \in BOOLEAN
    /\ pass = IF on THEN "status" ELSE "off"
    /\ sawEnd = FALSE
    /\ page = 0
    /\ hasMore = FALSE
    /\ after = 0

\* The messages up to the cursor are printed, in order; the last page of the pass
\* that began with an end reaches the last message.
MessageInv ==
    pass # "off" =>
        /\ over = "no" <=> pass # "done"
        /\ over = "cut" => interrupted
        /\ Len(out) = after
        /\ \A k \in 1..Len(out) : out[k] = k
        /\ pass # "print" => after <= written
        /\ pass = "print" => after + page <= written
        /\ pass \in {"list", "print"} /\ sawEnd => ended
        /\ pass = "print" /\ sawEnd /\ ~hasMore => after + page = written

\* How many more steps a follow takes once the execution has ended: three for each
\* message that is left, and one more pass when this one began before the end.
MessageSteps ==
    LET rest  == 3 * (written - after)
        again == IF sawEnd THEN 0 ELSE 4
    IN  CASE pass = "tick"           -> rest + 4
          [] pass = "status"         -> rest + 3
          [] pass = "list"           -> rest + 2 + again
          [] pass = "print"          -> rest + again + (IF hasMore /\ page = 0 THEN 3 ELSE 1)
          [] pass \in {"off", "done"} -> 0

\* Fairness: a request is answered and a tick comes.
MessageFairness ==
    LET v == <<printVars, messageVars>>
    IN  /\ WF_v(ReadStatus \/ ListPage \/ ReadFails)
        /\ WF_v(PrintMessage \/ CannotPrint \/ PagePrinted)
        /\ WF_v(NextPass)
=============================================================================
