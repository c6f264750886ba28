------------------------------- MODULE SendScp -------------------------------
(***************************************************************************)
(* sendscp_mod.sh: the script that flashes a chip with the session of one  *)
(* directory.  It runs serial_sender on packet.list and, when it controls  *)
(* the reset pin of the chip (toggle "y"), resets the chip and runs it     *)
(* again up to MAX_RETRY_TIMES times.                                      *)
(***************************************************************************)
EXTENDS SerialSender

CONSTANTS
  MAX_RETRY_TIMES,    \* 3 in the script
  DEFAULT_FIRST_RETRY,\* first_retry_nb of serial_sender without -f (bound: 20 in the code)
  GIVEN_FIRST_TRIES   \* values of the 4th argument; 0 when there are three (bound)

ASSUME RetriesAssumption ==
  /\ MAX_RETRY_TIMES \in Nat \ {0}
  /\ DEFAULT_FIRST_RETRY \in Nat
  /\ GIVEN_FIRST_TRIES \subseteq Nat

VARIABLES
  sh_pc,              \* where the script is
  bToogleGPIO,        \* 3rd argument: the script resets the chip itself
  numOfFirstTry,      \* 4th argument
  retries,            \* runs left
  status,             \* $? after the loop or after the only run
  exit_code           \* exit status of the script

sh_vars == <<sh_pc, bToogleGPIO, numOfFirstTry, retries, status, exit_code>>
all_vars == <<vars, sh_vars>>

\* Statuses of the checks on the arguments, the directory, the port and the system.
\* The archive of the directory is taken to be extracted whole (tar is not checked).
CHECK_FAILED == {1, 2, 3, 4, 6, 7, 8}

check_arguments ==
  /\ sh_pc = "check"
  /\ \/ sh_pc' = "loop" /\ UNCHANGED exit_code
     \/ sh_pc' = "exited" /\ exit_code' \in CHECK_FAILED
  /\ UNCHANGED <<vars, bToogleGPIO, numOfFirstTry, retries, status>>

\* Only a script that is given a number of first tries passes -f and -w.
CommandLine ==
  IF bToogleGPIO = "y" /\ numOfFirstTry # 0
    THEN [first_retry_nb |-> numOfFirstTry, warningRestrictedData |-> TRUE]
    ELSE [first_retry_nb |-> DEFAULT_FIRST_RETRY, warningRestrictedData |-> FALSE]

run_serial_sender ==
  /\ sh_pc = "loop"
  /\ bToogleGPIO = "y" => retries # 0
  /\ start(session, Len(session), CommandLine)
  /\ sh_pc' = "running"
  /\ UNCHANGED <<bToogleGPIO, numOfFirstTry, retries, status, exit_code>>

\* With toggle "n" there is one run and its status is that of the script's test.
only_run_ended ==
  /\ sh_pc = "running"
  /\ pc = "exited"
  /\ bToogleGPIO = "n"
  /\ status' = return_code
  /\ sh_pc' = "end"
  /\ UNCHANGED <<vars, bToogleGPIO, numOfFirstTry, retries, exit_code>>

Break == sh_pc' = "end" /\ UNCHANGED retries

MutForever == UNCHANGED retries

MutByTwo == retries' = retries - 2

Decrement == retries' = retries - 1

(* case $scpRet.  The status of the loop is 0 after "break", and otherwise *)
(* that of the last command of resetMaxim, which writes to the GPIO.       *)
run_ended ==
  /\ sh_pc = "running"
  /\ pc = "exited"
  /\ bToogleGPIO = "y"
  /\ \/ /\ return_code = 0
        /\ status' = 0
        /\ Break
        /\ UNCHANGED exit_code
     \/ /\ return_code = 1
        /\ exit_code' = 11
        /\ sh_pc' = "exited"
        /\ UNCHANGED <<retries, status>>
     \/ /\ return_code \notin {0, 1}
        /\ Decrement
        /\ status' \in {0, 1}
        /\ sh_pc' = IF retries' = 0 THEN "end" ELSE "loop"
        /\ UNCHANGED exit_code
  /\ UNCHANGED <<vars, bToogleGPIO, numOfFirstTry>>

MutStatusOnly == status # 0

Failed == status # 0 \/ (bToogleGPIO = "y" /\ retries = 0)

after_loop ==
  /\ sh_pc = "end"
  /\ sh_pc' = "exited"
  /\ exit_code' = IF ~Failed THEN 0 ELSE IF status # 0 THEN 9 ELSE 10
  /\ UNCHANGED <<vars, bToogleGPIO, numOfFirstTry, retries, status>>

ShellStep ==
  check_arguments \/ run_serial_sender \/ only_run_ended \/ run_ended \/ after_loop

-----------------------------------------------------------------------------
Init ==
  /\ pc = "not_started"
  /\ \E s \in Sessions, opts \in CommandLines : SenderInit(s, opts)
  /\ sh_pc = "check"
  /\ bToogleGPIO \in {"y", "n"}
  /\ numOfFirstTry \in GIVEN_FIRST_TRIES
  /\ retries = MAX_RETRY_TIMES
  /\ status = 0
  /\ exit_code = 0

Next == ShellStep \/ (sh_pc = "running" /\ RunStep /\ UNCHANGED sh_vars)

\* The script and the program it runs proceed.  The chip and the line need not.
Spec == /\ Init /\ [][Next]_all_vars
        /\ WF_all_vars(ShellStep)
        /\ WF_all_vars(SenderStep /\ UNCHANGED sh_vars)

-----------------------------------------------------------------------------
\* The exit status is one of those that the script's header lists, or 1.
ShellTypeOK ==
  /\ sh_pc \in {"check", "loop", "running", "end", "exited"}
  /\ retries \in 0..MAX_RETRY_TIMES
  /\ exit_code \in CHECK_FAILED \cup {0, 9, 10, 11}

(* The script says that flashing succeeded only when the last session, of  *)
(* those it tried, was executed to its last command.                       *)
ExitZeroIsFlashed ==
  sh_pc = "exited" /\ exit_code = 0 => executed = Conv!Requested(session)

(* With a number of first tries given, which passes -w, the script never   *)
(* resets the chip and plays the session again over a part of it: only one *)
(* of which nothing was written, or one written to its end whose closing   *)
(* answers were lost.  Without the number a part is played again.  A       *)
(* session that succeeded is never played again.                           *)
NeverReplaysPart ==
  [][ sh_pc = "loop" /\ sh_pc' = "running" /\ pc = "exited" =>
        /\ return_code # 0
        /\ options.warningRestrictedData
             => executed \in {<<>>, Conv!Requested(session)} ]_all_vars

\* The script ends, whatever becomes of the chip and of the line.
ScriptEnds == <>(sh_pc = "exited")

=============================================================================
