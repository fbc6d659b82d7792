------------------------------ MODULE Settings ------------------------------
(***************************************************************************)
(* What the processes of one user share, as the commands mean it: one set  *)
(* of settings that every command changes in one indivisible step.         *)
(***************************************************************************)
EXTENDS SettingsValues

VARIABLE settings

Init == settings = Default

\* One command, or the first-run notice of one process, takes effect.
Change ==
    /\ settings # Damaged
    /\ \E p \in Process :
          \/ \E command \in Command : settings' = Apply(command, p, settings)
          \/ \E notices \in SUBSET {"usage", "feedback"} :
                settings' = Announced(notices, p, settings)

\* Only a write that was interrupted loses the settings, and then logout starts
\* them anew.
Lose == settings' = Damaged
Reset == settings = Damaged /\ settings' = Default

Next == Change \/ Lose \/ Reset

Spec == Init /\ [][Next]_settings
=============================================================================
