------------------------------ MODULE Printing ------------------------------
(***************************************************************************)
(* What the commands run with --follow have in common: the items that are  *)
(* written while they read, what they printed, and how they ended.         *)
(***************************************************************************)
EXTENDS Naturals, Sequences

CONSTANT MaxItems       \* bound: how many logs or messages are written

ASSUME MaxItemsAssumption == MaxItems \in Nat

VARIABLES
    written,        \* the items so far: 1..written
    out,            \* the items printed, in order of printing
    over,           \* "no", "complete", "failed", or "cut" by an interrupt
    interrupted     \* the context of the command is cancelled

\* The items printed at least once.
PrintedOut == {out[k] : k \in 1..Len(out)}

printVars == <<written, out, over, interrupted>>

PrintTypeOK ==
    /\ written \in 0..MaxItems
    /\ out \in Seq(1..MaxItems)
    /\ over \in {"no", "complete", "failed", "cut"}
    /\ interrupted \in BOOLEAN

\* Another log or message is written.
MoreWritten ==
    /\ written < MaxItems
    /\ written' = written + 1
    /\ UNCHANGED <<out, over, interrupted>>

\* Ctrl-C.
Interrupt ==
    /\ ~interrupted
    /\ interrupted' = TRUE
    /\ UNCHANGED <<written, out, over>>

PrintItem(i) ==
    /\ out' = Append(out, i)
    /\ UNCHANGED <<written, over, interrupted>>

Ends(how) ==
    /\ over' = how
    /\ UNCHANGED <<written, out, interrupted>>
=============================================================================
