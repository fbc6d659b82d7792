--------------------------- MODULE SettingsValues ---------------------------
(***************************************************************************)
(* The settings in ~/.volcano/config.json and what the commands do to them *)
(* (internal/config, cmd/telemetry, cmd/feedback, internal/telemetry).     *)
(*                                                                         *)
(* The values written are named after the process that writes them: the    *)
(* token a login saved, the project a process selected, the function an    *)
(* alias stands for, the device id it generated.  A missing file is a file *)
(* of settings nobody chose, and a missing block of the file is a block of *)
(* unset values.                                                           *)
(***************************************************************************)
EXTENDS Naturals

CONSTANTS
    Process, \* the CLI processes
    None,    \* no token, no project, no device id
    Damaged  \* what an interrupted write leaves of the file

Named == Process \cup {None}

Choice == {"unset", "on", "off"}

\* shown: which of the first-run notices were shown.

Config == [token: Named, project: Named, alias: Named,
           device: Named, telemetry: {"on", "off"}, feedback: Choice,
           shown: SUBSET {"usage", "feedback"}]

Default == [token |-> None, project |-> None, alias |-> None,
            device |-> None, telemetry |-> "on", feedback |-> "unset",
            shown |-> {}]

ASSUME SettingsAssumption == None \notin Process /\ Damaged \notin Config

\* The commands, for what they do to the settings.
Command == {"none", "report", "login", "loginProject", "use", "alias", "unalias", "logout",
            "telemetryOn", "telemetryOff", "feedbackOn", "feedbackOff"}

TelemetryOn(c) == c.telemetry = "on"

FeedbackUnlessDisabled(c) == c.feedback # "off"

\* FeedbackSetting: the user's choice, or else whatever telemetry is.
FeedbackOn(c) == c.feedback = "on" \/ (c.feedback = "unset" /\ TelemetryOn(c))

ClearedAll(c) == Default

\* ClearLogin keeps the settings that belong to the machine.
ClearedLogin(c) == [c EXCEPT !.token = None, !.project = None, !.alias = None]

Apply(command, p, c) ==
    CASE command = "login"        -> [c EXCEPT !.token = p]
      [] command = "loginProject" -> [c EXCEPT !.token = p, !.project = p]
      [] command = "use"          -> [c EXCEPT !.project = p]
      [] command = "alias"        -> [c EXCEPT !.alias = p]
      [] command = "unalias"      -> [c EXCEPT !.alias = None]
      [] command = "logout"       -> ClearedLogin(c)
      [] command = "telemetryOn"  -> [c EXCEPT !.telemetry = "on", !.shown = @ \cup {"usage"}]
      [] command = "telemetryOff" -> [c EXCEPT !.telemetry = "off", !.shown = @ \cup {"usage"}]
      [] command = "feedbackOn"   -> [c EXCEPT !.feedback = "on", !.shown = @ \cup {"feedback"}]
      [] command = "feedbackOff"  -> [c EXCEPT !.feedback = "off", !.shown = @ \cup {"feedback"}]
      [] OTHER                    -> c

AnnouncedBlindly(notices, p, c) ==
    [c EXCEPT !.device = IF "usage" \in notices THEN p ELSE @,
              !.telemetry = IF "usage" \in notices THEN "on" ELSE @,
              !.shown = @ \cup notices]

\* initialize: the settings are checked again, so that a choice made since the
\* process started stands and a device id generated since then is kept.
Announced(notices, p, c) ==
    LET usage    == "usage" \in notices /\ TelemetryOn(c)
        feedback == "feedback" \in notices /\ FeedbackOn(c)
    IN  [c EXCEPT !.device = IF usage /\ @ = None THEN p ELSE @,
                  !.shown = @ \cup (IF usage THEN {"usage"} ELSE {})
                              \cup (IF feedback THEN {"feedback"} ELSE {})]
=============================================================================
