----------------------------- MODULE SendScpProofs -----------------------------
(***************************************************************************)
(* Of sendscp_mod.sh, for any session, any number of retries and any loss: *)
(* its status is 0 only if the last run of serial_sender executed the      *)
(* session to its last command, and no run is started after one that       *)
(* succeeded, nor, with -w, after one that executed a part of the session. *)
(*                                                                         *)
(* The invariant relates the state of the script to the outcome of the run *)
(* that it started last, to which that of SerialSenderProofs gives sense.  *)
(***************************************************************************)
EXTENDS SendScp, SerialSenderProofs

ScriptType ==
  /\ ShellTypeOK
  /\ bToogleGPIO \in {"y", "n"}
  /\ numOfFirstTry \in Nat

RunSucceeded == pc = "exited" /\ return_code = 0

\* What the script knows of the last run.
ScriptControl ==
  /\ sh_pc = "check" => pc = "not_started"
  /\ sh_pc = "loop" => pc = "not_started" \/ (pc = "exited" /\ return_code \notin {0, 1})
  /\ sh_pc = "running" /\ bToogleGPIO = "y" => retries # 0
  /\ sh_pc = "end" => pc = "exited" /\ (~Failed => RunSucceeded)
  /\ sh_pc = "exited" => pc \in {"not_started", "exited"} /\ (exit_code = 0 => RunSucceeded)

\* Where a run is given up, that is given -w and does not blame the data: before the
\* first command, or once the last is answered.
GivenUpOutside ==
  pc = "exited" /\ options.warningRestrictedData /\ return_code \notin {0, 1}
    => pos <= 3 \/ pos >= Len(session) - 1

ScriptInv == /\ SenderInv /\ ScriptType /\ ScriptControl
             /\ listed = Len(session) /\ GivenUpOutside

-----------------------------------------------------------------------------
\* The options of a run are among those of serial_sender.
LEMMA CommandLineIsOptions ==
  ASSUME numOfFirstTry \in Nat
  PROVE  CommandLine \in Options
  BY RetriesAssumption DEF CommandLine, Options

\* A session that was played can be played again.
LEMMA SessionPlayable ==
  ASSUME SenderInv
  PROVE  Playable(session)
  BY DEF SenderInv, Nothing, Replaying, Playable

\* The script starts with a session that session_build wrote to its end.
LEMMA ScriptInvInit ==
  ASSUME Init
  PROVE  ScriptInv
<1>1. PICK s \in Sessions, opts \in CommandLines : SenderInit(s, opts)
  BY DEF Init
<1>2. Playable(s) /\ opts \in Options
  BY SessionsAssumption DEF Playable
<1>3. SenderInv
  BY <1>1, <1>2, SenderInvInit DEF Init
<1>4. ScriptType /\ ScriptControl /\ listed = Len(session) /\ GivenUpOutside
  BY <1>1, RetriesAssumption DEF Init, ScriptType, ShellTypeOK, ScriptControl, GivenUpOutside,
     SenderInit, LinkInit
<1> QED
  BY <1>3, <1>4 DEF ScriptInv

\* Where the run does not move, its invariant holds on.
LEMMA RunStays ==
  ASSUME SenderInv, UNCHANGED vars
  PROVE  SenderInv'
<1>1. LineType' /\ (Nothing \/ Replaying)'
  BY Unmoved DEF SenderInv, vars, link_vars, sender_vars, run_vars
<1>2. TypeOK' /\ Control'
  BY DEF SenderInv, TypeOK, Control, vars, link_vars, sender_vars, run_vars
<1> QED
  BY <1>1, <1>2 DEF SenderInv, vars, sender_vars, run_vars

\* Nor what is known of where it was given up.
LEMMA OutsideStays ==
  ASSUME listed = Len(session), GivenUpOutside, UNCHANGED vars
  PROVE  (listed = Len(session) /\ GivenUpOutside)'
  BY DEF GivenUpOutside, vars, sender_vars, run_vars

\* With -w, a run that fails in the middle of its list says that the data are to blame.
LEMMA RunEndsOutside ==
  ASSUME SenderInv, listed = Len(session), GivenUpOutside, RunStep
  PROVE  (listed = Len(session) /\ GivenUpOutside)'
<1>1. /\ session' = session /\ options' = options /\ listed' = listed
      /\ Len(session) \in Nat /\ pos \in 1..(Len(session) + 1)
  <2>1. Len(session) \in Nat
    BY Turns DEF SenderInv, Nothing, Replaying
  <2> QED
    BY <2>1, SameList DEF SenderInv, TypeOK
<1> SUFFICES ASSUME pc' = "exited", options.warningRestrictedData, return_code' \notin {0, 1}
             PROVE  pos' <= 3 \/ pos' >= Len(session) - 1
  BY <1>1 DEF GivenUpOutside
<1>2. CASE pc = "exited"
  <2>1. pos' = pos /\ return_code' = return_code
    BY <1>2 DEF RunStep, SenderStep, sender_vars, open_port, parse_scpcmd_file,
       connection_request, connection_failed, connection_reply, InList, short_list, send,
       receive, receive_failed, disconnected
  <2> QED
    BY <1>2, <2>1 DEF GivenUpOutside
<1>3. CASE open_port \/ parse_scpcmd_file \/ connection_failed
  <2>1. pos = 1 /\ pos' = pos
    BY <1>3 DEF SenderInv, Control, open_port, parse_scpcmd_file, connection_failed
  <2> QED
    BY <2>1
<1>4. CASE short_list
  <2>1. pos' = 4 /\ Len(session) <= 5
    BY <1>1, <1>4 DEF short_list, HasMiddle
  <2> QED
    BY <1>1, <2>1
<1>5. CASE receive_failed
  <2>1. pos' = pos /\ pos \notin 4..(Len(session) - 2)
    BY <1>5 DEF receive_failed, OnFailure, Exit, Middle, RESTRICTED
  <2> QED
    BY <1>1, <2>1
<1> QED
  BY <1>2, <1>3, <1>4, <1>5 DEF RunStep, SenderStep, sender_vars, connection_request,
     connection_reply, send, receive, disconnected, Exit

\* Every step of the script and of the run it started preserves the invariant.
LEMMA ScriptInvStep ==
  ASSUME ScriptInv, [Next]_all_vars
  PROVE  ScriptInv'
<1>0. SenderInv /\ ScriptType /\ ScriptControl /\ listed = Len(session) /\ GivenUpOutside
  BY DEF ScriptInv
<1>1. ASSUME check_arguments
      PROVE  ScriptInv'
  <2>1. SenderInv' /\ (listed = Len(session) /\ GivenUpOutside)'
    BY <1>0, <1>1, RunStays, OutsideStays DEF check_arguments
  <2>2. ScriptType' /\ ScriptControl'
    BY <1>0, <1>1 DEF check_arguments, ScriptType, ShellTypeOK, ScriptControl, CHECK_FAILED,
       vars, sender_vars, Failed, RunSucceeded
  <2> QED
    BY <2>1, <2>2 DEF ScriptInv
<1>2. ASSUME run_serial_sender
      PROVE  ScriptInv'
  <2>1. SenderInv'
    <3>1. Len(session) \in 0..Len(session)
      BY <1>0 DEF SenderInv, TypeOK
    <3> QED
      BY <1>0, <1>2, <3>1, CommandLineIsOptions, SessionPlayable, SenderInvStart
         DEF run_serial_sender, ScriptType
  <2>2. (listed = Len(session) /\ GivenUpOutside)'
    BY <1>2 DEF run_serial_sender, start, NewSession, GivenUpOutside
  <2>3. ScriptType' /\ ScriptControl'
    BY <1>0, <1>2 DEF run_serial_sender, ScriptType, ShellTypeOK, ScriptControl
  <2> QED
    BY <2>1, <2>2, <2>3 DEF ScriptInv
<1>3. ASSUME only_run_ended
      PROVE  ScriptInv'
  <2>1. SenderInv' /\ (listed = Len(session) /\ GivenUpOutside)'
    BY <1>0, <1>3, RunStays, OutsideStays DEF only_run_ended
  <2>2. ScriptType' /\ ScriptControl'
    BY <1>0, <1>3 DEF only_run_ended, ScriptType, ShellTypeOK, ScriptControl, Failed,
       RunSucceeded, vars, sender_vars
  <2> QED
    BY <2>1, <2>2 DEF ScriptInv
<1>4. ASSUME run_ended
      PROVE  ScriptInv'
  <2>1. SenderInv' /\ (listed = Len(session) /\ GivenUpOutside)'
    BY <1>0, <1>4, RunStays, OutsideStays DEF run_ended
  <2>2. /\ sh_pc = "running" /\ pc = "exited" /\ bToogleGPIO = "y" /\ retries # 0
        /\ retries \in 0..MAX_RETRY_TIMES
        /\ pc' = pc /\ return_code' = return_code
        /\ bToogleGPIO' = bToogleGPIO /\ numOfFirstTry' = numOfFirstTry
    BY <1>0, <1>4 DEF run_ended, ScriptControl, ScriptType, ShellTypeOK, vars, sender_vars
  <2>3. CASE return_code = 0 /\ status' = 0 /\ Break /\ UNCHANGED exit_code
    <3>1. ScriptType'
      BY <1>0, <2>2, <2>3 DEF ScriptType, ShellTypeOK, Break
    <3>2. ScriptControl'
      BY <2>2, <2>3 DEF ScriptControl, Break, RunSucceeded
    <3> QED
      BY <2>1, <3>1, <3>2 DEF ScriptInv
  <2>4. CASE return_code = 1 /\ exit_code' = 11 /\ sh_pc' = "exited" /\ UNCHANGED <<retries, status>>
    <3>1. ScriptType'
      BY <1>0, <2>2, <2>4 DEF ScriptType, ShellTypeOK
    <3>2. ScriptControl'
      BY <2>2, <2>4 DEF ScriptControl
    <3> QED
      BY <2>1, <3>1, <3>2 DEF ScriptInv
  <2>5. CASE /\ return_code \notin {0, 1}
             /\ Decrement
             /\ sh_pc' = IF retries' = 0 THEN "end" ELSE "loop"
             /\ UNCHANGED exit_code
    <3>1. retries' \in 0..MAX_RETRY_TIMES
      BY <2>2, <2>5, RetriesAssumption DEF Decrement
    <3>2. ScriptType'
      BY <1>0, <2>2, <2>5, <3>1 DEF ScriptType, ShellTypeOK
    <3>3. ScriptControl'
      BY <2>2, <2>5 DEF ScriptControl, Failed
    <3> QED
      BY <2>1, <3>2, <3>3 DEF ScriptInv
  <2> QED
    BY <1>4, <2>1, <2>3, <2>4, <2>5 DEF run_ended, ScriptInv
<1>5. ASSUME after_loop
      PROVE  ScriptInv'
  <2>1. SenderInv' /\ (listed = Len(session) /\ GivenUpOutside)'
    BY <1>0, <1>5, RunStays, OutsideStays DEF after_loop
  <2>2. ScriptType' /\ ScriptControl'
    BY <1>0, <1>5 DEF after_loop, ScriptType, ShellTypeOK, ScriptControl, Failed,
       RunSucceeded, vars, sender_vars
  <2> QED
    BY <2>1, <2>2 DEF ScriptInv
<1>6. ASSUME sh_pc = "running", RunStep, UNCHANGED sh_vars
      PROVE  ScriptInv'
  <2>1. SenderInv' /\ (listed = Len(session) /\ GivenUpOutside)'
    BY <1>0, <1>6, SenderInvStep, RunEndsOutside
  <2>2. ScriptType' /\ ScriptControl'
    BY <1>0, <1>6 DEF ScriptType, ShellTypeOK, ScriptControl, sh_vars
  <2> QED
    BY <2>1, <2>2 DEF ScriptInv
<1>7. ASSUME UNCHANGED all_vars
      PROVE  ScriptInv'
  <2>1. SenderInv' /\ (listed = Len(session) /\ GivenUpOutside)'
    BY <1>0, <1>7, RunStays, OutsideStays DEF all_vars
  <2>2. ScriptType' /\ ScriptControl'
    BY <1>0, <1>7 DEF ScriptType, ShellTypeOK, ScriptControl, sh_vars, all_vars, vars,
       sender_vars, Failed, RunSucceeded
  <2> QED
    BY <2>1, <2>2 DEF ScriptInv
<1> QED
  BY <1>1, <1>2, <1>3, <1>4, <1>5, <1>6, <1>7 DEF Next, ShellStep

\* The invariant holds of every behavior.
THEOREM ScriptInvariance == Spec => []ScriptInv
<1>1. Init => ScriptInv
  BY ScriptInvInit
<1>2. ScriptInv /\ [Next]_all_vars => ScriptInv'
  BY ScriptInvStep
<1> QED
  BY <1>1, <1>2, PTL DEF Spec

\* TypeCorrect: the exit status of the script is one that its header lists, or 1.
THEOREM TypeCorrect == Spec => []ShellTypeOK
<1>1. ScriptInv => ShellTypeOK
  BY DEF ScriptInv, ScriptType
<1> QED
  BY <1>1, ScriptInvariance, PTL

(* ZeroMeansFlashed: the script exits with 0 only if, in the last session  *)
(* that it tried, the chip executed every command, in order, to the last.  *)
THEOREM ZeroMeansFlashed == Spec => []ExitZeroIsFlashed
<1>1. ASSUME ScriptInv
      PROVE  ExitZeroIsFlashed
  <2> SUFFICES ASSUME sh_pc = "exited", exit_code = 0
               PROVE  executed = Conv!Requested(session)
    BY DEF ExitZeroIsFlashed
  <2>1. SenderInv /\ listed = Len(session) /\ pc = "exited" /\ return_code = 0
    BY <1>1 DEF ScriptInv, ScriptControl, RunSucceeded
  <2> QED
    BY <2>1, ZeroIsSuccess
<1> QED
  BY <1>1, ScriptInvariance, PTL

(* NoPartIsReplayed: a run that follows another follows one that failed;   *)
(* and when the script passes -w, one that executed nothing of the session *)
(* or all of it.  A run that fails in between is the last: the script does *)
(* not flash the chip again over a part of the session.                    *)
THEOREM NoPartIsReplayed == Spec => NeverReplaysPart
<1> DEFINE Starts == sh_pc = "loop" /\ sh_pc' = "running" /\ pc = "exited"
           Clean == /\ return_code # 0
                    /\ options.warningRestrictedData
                         => executed \in {<<>>, Conv!Requested(session)}
<1>1. ASSUME ScriptInv, sh_pc = "loop", pc = "exited"
      PROVE  Clean
  <2>1. return_code \notin {0, 1}
    BY <1>1 DEF ScriptInv, ScriptControl
  <2>2. options.warningRestrictedData => executed \in {<<>>, Conv!Requested(session)}
    BY <1>1, <2>1, NothingOrAll DEF ScriptInv, GivenUpOutside
  <2> QED
    BY <2>1, <2>2
<1>2. ScriptInv /\ [Next]_all_vars => [Starts => Clean]_all_vars
  BY <1>1
<1> HIDE DEF Starts, Clean
<1>3. Spec => [][Starts => Clean]_all_vars
  BY <1>2, ScriptInvariance, PTL DEF Spec
<1> QED
  BY <1>3, PTL DEF NeverReplaysPart, Starts, Clean
=============================================================================
