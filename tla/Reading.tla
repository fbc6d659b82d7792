------------------------------- MODULE Reading -------------------------------
(***************************************************************************)
(* What a command run with --follow promises: it prints what is written,   *)
(* while it is being written, each item once; one that reads in order      *)
(* leaves no gap; and one that ends by itself has printed everything.  The *)
(* commands that follow build logs, runtime logs and messages all          *)
(* implement it (Following).                                               *)
(***************************************************************************)
EXTENDS Naturals, Sequences

CONSTANT Nameless   \* the items without an ID, which may be printed again

VARIABLES
    ordered,    \* this one prints oldest first, without a gap
    written,    \* how many items there are: they are 1..written
    out,        \* what was printed
    over        \* "no", "complete", "failed" (with an error) or "cut" (by an interrupt)

readingVars == <<ordered, written, out, over>>

Printed == {out[k] : k \in 1..Len(out)}

Init ==
    /\ ordered \in BOOLEAN
    /\ written \in Nat
    /\ out = <<>>
    /\ over = "no"

Write ==
    /\ written' = written + 1
    /\ UNCHANGED <<ordered, out, over>>

\* Next in order: the item after the last one printed.  The first one may be any,
\* a tail starts with the most recent ones.
Follows(i) == out = <<>> \/ i = out[Len(out)] + 1

PrintNew(i) ==
    /\ over = "no"
    /\ i \in 1..written
    /\ i \notin Printed \/ i \in Nameless
    /\ ordered => Follows(i)
    /\ out' = Append(out, i)
    /\ UNCHANGED <<ordered, written, over>>

Complete ==
    /\ over = "no"
    /\ Printed = 1..written
    /\ over' = "complete"
    /\ UNCHANGED <<ordered, written, out>>

Cut ==
    /\ over = "no"
    /\ over' \in {"failed", "cut"}
    /\ UNCHANGED <<ordered, written, out>>

Next == Write \/ (\E i \in 1..written : PrintNew(i)) \/ Complete \/ Cut

Spec == Init /\ [][Next]_readingVars
=============================================================================
