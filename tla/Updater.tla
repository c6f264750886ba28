------------------------------- MODULE Updater -------------------------------
(***************************************************************************)
(* The scripts that a PC or a board runs to update the chip of a reader:   *)
(* orcanfc-updater.sh, surisdklite-updater.sh and                          *)
(* sirius-liked-orcanfc-updater.sh.  Each runs the stages of the upgrade   *)
(* type it is given: one run of serial_sender with -w over the session of a*)
(* directory, or a program that talks to the second boot loader.           *)
(***************************************************************************)
EXTENDS SerialSender

CONSTANTS
  SessionOfStage,       \* for each stage, the session in its directory
  Strays,               \* what the directory the script is started in may hold, <<>> for nothing
  SCP_FIRST_TRY         \* -f of all runs (bound: 100 in the scripts)

Scripts == {"orcanfc", "surisdklite", "sirius"}

\* The stages that have the customer's key or the OTP loaded.
Tolerant == {"key", "otp"}

ScpStages == Tolerant \cup {"eraser", "suribl", "firmware"}

ASSUME UpdaterAssumption ==
  /\ SCP_FIRST_TRY \in Nat
  /\ DOMAIN SessionOfStage = ScpStages
  /\ \A s \in ScpStages : Conv!Complete(SessionOfStage[s])
  /\ \A s \in Strays : s = <<>> \/ Conv!Complete(s)

VARIABLES
  up_pc,                \* where the script is
  script,               \* which script it is
  UPGRADE_TYPE,         \* -t
  todo,                 \* the stages from the current one on
  stray,                \* the packets where the script is started
  exit_code             \* exit status of the script

up_vars == <<up_pc, script, UPGRADE_TYPE, todo, stray, exit_code>>
all_vars == <<vars, up_vars>>

UPGRADE_TYPE_LIST(s) ==
  CASE s = "orcanfc"     -> {"ORCANFC", "ALL"}
    [] s = "surisdklite" -> {"ERASER", "SURIBL", "SURISDK", "ALL"}
    [] s = "sirius"      -> {"ERASER", "SURIBL", "SURISDK", "SURISDK_S", "ALL"}

\* The main program of the scripts; orcanfc-updater.sh does not load the OTP.
Stages(s, type) ==
  CASE type = "ORCANFC"               -> <<"firmware">>
    [] type = "ALL" /\ s = "orcanfc"  -> <<"key", "firmware">>
    [] type = "ALL" /\ s # "orcanfc"  -> <<"key", "otp", "eraser", "suribl", "surisdk">>
    [] type = "ERASER"                -> <<"eraser">>
    [] type = "SURIBL"                -> <<"suribl">>
    [] type = "SURISDK"               -> <<"surisdk">>
    [] type = "SURISDK_S"             -> <<"surisdk_s">>

CommandLine == [first_retry_nb |-> SCP_FIRST_TRY, warningRestrictedData |-> TRUE]

ScriptExit(code) == up_pc' = "exited" /\ exit_code' = code

\* The arguments are checked.  Whether the package of orcanfc-updater.sh was extracted is
\* not: what there is of it shows when its stage is played.
prepare ==
  /\ up_pc = "main"
  /\ \/ /\ up_pc' = "stages"
        /\ todo' = Stages(script, UPGRADE_TYPE)
        /\ UNCHANGED exit_code
     \/ /\ \E code \in {1, 2} : ScriptExit(code)
        /\ UNCHANGED todo
  /\ UNCHANGED <<vars, script, UPGRADE_TYPE, stray>>

(* The packets that are in the directory of a stage.  Those of the package *)
(* are as many as tar or unzip extracted of them, none to all; the list of *)
(* the package is written anew, of what there is.                          *)
Extracted(s) ==
  IF s = "firmware" THEN 0..Len(SessionOfStage[s]) ELSE {Len(SessionOfStage[s])}

\* cd is not checked either: where it fails, the packets are those of the directory that
\* the script was started in.
UpdateFirmwareSCP ==
  /\ up_pc = "stages"
  /\ todo # <<>>
  /\ Head(todo) \in ScpStages
  /\ \/ \E n \in Extracted(Head(todo)) : start(SessionOfStage[Head(todo)], n, CommandLine)
     \/ start(stray, Len(stray), CommandLine)
  /\ up_pc' = "running"
  /\ UNCHANGED <<script, UPGRADE_TYPE, todo, stray, exit_code>>

\* What UpdateFirmwareSCP returns for the status of serial_sender.
RetVal == CASE return_code = 0 -> 0
            [] return_code = 1 -> 1
            [] OTHER -> 2

MutAllTolerant(s) == RetVal \in {0, 1}

MutAlwaysLoaded(s) == s \in Tolerant \/ RetVal = 0

\* "load key could fail, if it already loaded key, so continue if load key fail".
Succeeded(s) == RetVal = 0 \/ (RetVal = 1 /\ s \in Tolerant)

stage_ended ==
  /\ up_pc = "running"
  /\ pc = "exited"
  /\ \/ /\ Succeeded(Head(todo))
        /\ up_pc' = "stages"
        /\ todo' = Tail(todo)
        /\ UNCHANGED exit_code
     \/ /\ ~Succeeded(Head(todo))
        /\ ScriptExit(1)
        /\ UNCHANGED todo
  /\ UNCHANGED <<vars, script, UPGRADE_TYPE, stray>>

\* surisdk_lite_updater and its siblings, of which there is only the binary.
UpgradeSurisdk ==
  /\ up_pc = "stages"
  /\ todo # <<>>
  /\ Head(todo) \notin ScpStages
  /\ \/ todo' = Tail(todo) /\ UNCHANGED <<up_pc, exit_code>>
     \/ ScriptExit(1) /\ UNCHANGED todo
  /\ UNCHANGED <<vars, script, UPGRADE_TYPE, stray>>

end_of_main ==
  /\ up_pc = "stages"
  /\ todo = <<>>
  /\ ScriptExit(0)
  /\ UNCHANGED <<vars, script, UPGRADE_TYPE, todo, stray>>

ScriptStep == prepare \/ UpdateFirmwareSCP \/ stage_ended \/ UpgradeSurisdk \/ end_of_main

-----------------------------------------------------------------------------
Init ==
  /\ pc = "not_started"
  /\ SenderInit(<<>>, CommandLine)
  /\ up_pc = "main"
  /\ script \in Scripts
  /\ UPGRADE_TYPE \in UPGRADE_TYPE_LIST(script)
  /\ todo = <<>>
  /\ stray \in Strays
  /\ exit_code = 0

Next == ScriptStep \/ (up_pc = "running" /\ RunStep /\ UNCHANGED up_vars)

\* The script and the program it runs proceed.  The chip and the line need not.
Spec == /\ Init /\ [][Next]_all_vars
        /\ WF_all_vars(ScriptStep)
        /\ WF_all_vars(SenderStep /\ UNCHANGED up_vars)

-----------------------------------------------------------------------------
\* The stages of the script that play a session, and the last of them.
Played == LET stages == Stages(script, UPGRADE_TYPE)
          IN  {n \in DOMAIN stages : stages[n] \in ScpStages}

IsLastPlayed(n) == n \in Played /\ \A m \in Played : m <= n

\* The commands that the list plays to their responses.
ListedCommands == Cardinality({k \in 1..listed : session[k].name = "response"})

(* A script succeeds only when all the commands that the last list it plays*)
(* names were executed, in order: those of the stage's own session, or of  *)
(* the packets it was started among.  But for a package that was extracted *)
(* in part, these are the commands of a whole session.                     *)
UpdatedIsFlashed ==
  up_pc = "exited" /\ exit_code = 0 =>
    \A n \in Played : IsLastPlayed(n) =>
      LET stage == Stages(script, UPGRADE_TYPE)[n]
      IN  /\ session \in {SessionOfStage[stage], stray}
          /\ IsPrefix(executed, Conv!Requested(session))
          /\ Len(executed) >= ListedCommands
          /\ stage # "firmware" \/ listed = Len(session)
               => executed = Conv!Requested(session)

(* No session is started after one that did not connect or was given up    *)
(* outside its commands; and after a stage that is not tolerated to fail,  *)
(* the erasure of the flash before the boot loader is written, only when   *)
(* all the commands of what it played were executed.                       *)
NoStageAfterFailure ==
  [][ up_pc = "stages" /\ up_pc' = "running" /\ pc = "exited" =>
        LET stages == Stages(script, UPGRADE_TYPE)
            previous == stages[Len(stages) - Len(todo)]
        IN  /\ return_code \notin {NOT_CONNECTED, FAILED}
            /\ previous \notin Tolerant => executed = Conv!Requested(session) ]_all_vars

\* The script ends, whatever becomes of the chip and of the line.
UpdateEnds == <>(up_pc = "exited")
=============================================================================
