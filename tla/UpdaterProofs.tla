----------------------------- MODULE UpdaterProofs -----------------------------
(***************************************************************************)
(* Of the updaters, for any sessions in the directories of their stages    *)
(* and any part of the package: an update that ends with 0 executed all    *)
(* that the last list it played names, and after a stage that failed, other*)
(* than one whose key or OTP may be there already, no session is played.   *)
(*                                                                         *)
(* The invariant says how far the script is in its stages, and what became *)
(* of the last session among those behind it.                              *)
(***************************************************************************)
EXTENDS Updater, SerialSenderProofs

Plan == Stages(script, UPGRADE_TYPE)

\* The stages of all lists.
StageNames == ScpStages \cup {"surisdk", "surisdk_s"}

\* Of the first n stages, m is the last that plays a session.
LastPlayed(m, n) ==
  /\ m \in 1..n
  /\ Plan[m] \in ScpStages
  /\ \A k \in (m + 1)..n : Plan[k] \notin ScpStages

NonePlayed(n) == \A k \in 1..n : Plan[k] \notin ScpStages

\* The run is over packets that the stage s may find.
MayPlay(s) ==
  \/ session = SessionOfStage[s] /\ listed \in Extracted(s)
  \/ session = stray /\ listed = Len(stray)

\* What is known of the last run when the first n stages are done.
Behind(n) ==
  \/ pc = "not_started" /\ NonePlayed(n)
  \/ /\ pc = "exited"
     /\ \E m \in 1..n : /\ LastPlayed(m, n)
                        /\ MayPlay(Plan[m])
                        /\ Succeeded(Plan[m])

\* The first n stages are done, and what is left is the script's list.
Done(n) == todo = After(Plan, n) /\ Behind(n)

\* The stage after the first n is the session being played.
Playing(n) ==
  /\ n < Len(Plan)
  /\ todo = After(Plan, n)
  /\ Plan[n + 1] \in ScpStages
  /\ MayPlay(Plan[n + 1])

UpdateControl ==
  /\ script \in Scripts /\ UPGRADE_TYPE \in UPGRADE_TYPE_LIST(script)
  /\ Playable(stray)
  /\ up_pc = "main" => pc = "not_started"
  /\ up_pc = "stages" => \E n \in 0..Len(Plan) : Done(n)
  /\ up_pc = "running" => \E n \in 0..Len(Plan) : Playing(n)
  /\ up_pc = "exited" /\ exit_code = 0 => Behind(Len(Plan))

UpdateInv == SenderInv /\ UpdateControl

-----------------------------------------------------------------------------
(* The lists of stages.                                                    *)

\* Each list ends, but for what the second boot loader loads, with a session that must
\* succeed; what the package holds or the second boot loader loads comes last.
LEMMA Plans ==
  ASSUME script \in Scripts, UPGRADE_TYPE \in UPGRADE_TYPE_LIST(script)
  PROVE  /\ Plan \in Seq(StageNames)
         /\ \A n \in 1..(Len(Plan) - 1) : Plan[n] \in ScpStages \ {"firmware"}
         /\ \A m \in 1..Len(Plan) : LastPlayed(m, Len(Plan)) => Plan[m] \notin Tolerant
<1>1. CASE Plan = <<"firmware">> /\ script = "orcanfc"
  <2>1. Plan \in Seq(StageNames) /\ Len(Plan) = 1 /\ Plan[1] = "firmware"
    BY <1>1 DEF StageNames, ScpStages
  <2> QED
    BY <1>1, <2>1 DEF Tolerant
<1>2. CASE Plan = <<"key", "firmware">> /\ script = "orcanfc"
  <2>1. /\ Plan \in Seq(StageNames) /\ Len(Plan) = 2
        /\ Plan[1] = "key" /\ Plan[2] = "firmware"
    BY <1>2 DEF StageNames, ScpStages, Tolerant
  <2>0. \A n \in 1..(2 - 1) : Plan[n] \in ScpStages \ {"firmware"}
    BY <2>1 DEF ScpStages, Tolerant
  <2>2. ASSUME NEW m \in 1..2, LastPlayed(m, 2)
        PROVE  Plan[m] \notin Tolerant
    <3>1. 2 \notin (m + 1)..2
      BY <2>1, <2>2 DEF LastPlayed, ScpStages
    <3>2. m = 2
      BY <3>1
    <3> QED
      BY <2>1, <3>2 DEF Tolerant
  <2> QED
    BY <1>2, <2>0, <2>1, <2>2
<1>3. CASE Plan = <<"key", "otp", "eraser", "suribl", "surisdk">>
  <2>1. Plan \in Seq(StageNames) /\ Len(Plan) = 5
    BY <1>3 DEF StageNames, ScpStages, Tolerant
  <2>2. /\ Plan[1] = "key" /\ Plan[2] = "otp" /\ Plan[3] = "eraser" /\ Plan[4] = "suribl"
        /\ Plan[5] = "surisdk"
    BY <1>3
  <2>3. ASSUME NEW m \in 1..5, LastPlayed(m, 5)
        PROVE  Plan[m] \notin Tolerant
    <3>1. 4 \notin (m + 1)..5
      BY <2>2, <2>3 DEF LastPlayed, ScpStages
    <3>2. m \in {4, 5}
      BY <3>1
    <3> QED
      BY <2>2, <3>2 DEF Tolerant
  <2>4. \A n \in 1..(5 - 1) : n \in {1, 2, 3, 4}
    OBVIOUS
  <2>5. \A n \in 1..(5 - 1) : Plan[n] \in ScpStages \ {"firmware"}
    BY <2>2, <2>4 DEF ScpStages, Tolerant
  <2> QED
    BY <2>1, <2>3, <2>5
<1>4. ASSUME NEW s \in {"eraser", "suribl", "surisdk", "surisdk_s"}, Plan = <<s>>
      PROVE  /\ Plan \in Seq(StageNames) /\ Len(Plan) = 1
             /\ Plan[1] \notin Tolerant \cup {"firmware"}
  <2>1. s \in StageNames
    BY DEF StageNames, ScpStages
  <2>2. Plan \in Seq(StageNames) /\ Len(Plan) = 1 /\ Plan[1] = s
    BY <1>4, <2>1
  <2> QED
    BY <2>2 DEF Tolerant
<1>5. CASE Plan \in {<<"eraser">>, <<"suribl">>, <<"surisdk">>, <<"surisdk_s">>}
  <2>1. (\A n \in 1..1 : n = 1) /\ 1..(1 - 1) = {}
    OBVIOUS
  <2> QED
    BY <1>4, <1>5, <2>1
<1> QED
  BY <1>1, <1>2, <1>3, <1>5 DEF Plan, Stages, Scripts, UPGRADE_TYPE_LIST

\* The stages left after the first n.
LEMMA WhatIsLeft ==
  ASSUME NEW S, NEW p \in Seq(S), NEW n \in 0..Len(p)
  PROVE  /\ After(p, n) = <<>> <=> n = Len(p)
         /\ n < Len(p) => Head(After(p, n)) = p[n + 1] /\ Tail(After(p, n)) = After(p, n + 1)
<1>1. Len(p) \in Nat
  OBVIOUS
<1>2. CASE n = Len(p)
  BY <1>1, <1>2 DEF After
<1>3. CASE n < Len(p)
  <2>1. n + 1 \in 1..Len(p) /\ Len(p) \in (n + 1)..Len(p)
    BY <1>1, <1>3
  <2>2. Head(After(p, n)) = p[n + 1] /\ Tail(After(p, n)) = After(p, n + 1)
    BY <2>1, HeadTailOfSubSeq DEF After
  <2>3. Len(After(p, n)) = Len(p) - n
    BY <1>1, <1>3 DEF After
  <2> QED
    BY <1>1, <1>3, <2>2, <2>3
<1> QED
  BY <1>1, <1>2, <1>3

\* What the directory of a stage holds of its session can be played.
LEMMA ExtractedPlayable ==
  ASSUME NEW s \in ScpStages
  PROVE  Playable(SessionOfStage[s]) /\ Extracted(s) \subseteq 0..Len(SessionOfStage[s])
<1>1. Conv!Complete(SessionOfStage[s])
  BY UpdaterAssumption
<1>2. Len(SessionOfStage[s]) \in Nat
  BY <1>1, Turns
<1> QED
  BY <1>1, <1>2 DEF Playable, Extracted

\* So can what there is where the script was started.
LEMMA StrayPlayable ==
  ASSUME Playable(stray)
  PROVE  Len(stray) \in 0..Len(stray)
<1>1. CASE stray = <<>>
  BY <1>1
<1>2. CASE Conv!Complete(stray)
  BY <1>2, Turns
<1> QED
  BY <1>1, <1>2 DEF Playable

LEMMA CommandLineIsOptions == CommandLine \in Options
  BY UpdaterAssumption DEF CommandLine, Options

\* The script starts with a port that no program has opened and a link of no session.
LEMMA UpdateInvInit ==
  ASSUME Init
  PROVE  UpdateInv
<1>1. SenderInv
  BY CommandLineIsOptions, SenderInvInit DEF Init, Playable
<1>2. Playable(stray)
  BY UpdaterAssumption DEF Init, Playable
<1>3. UpdateControl
  BY <1>2 DEF Init, UpdateControl
<1> QED
  BY <1>1, <1>3 DEF UpdateInv

\* Where the run does not move, its invariant holds on.
LEMMA RunStays ==
  ASSUME SenderInv, UNCHANGED vars
  PROVE  SenderInv'
<1>1. LineType' /\ (Nothing \/ Replaying)'
  BY Unmoved DEF SenderInv, vars, link_vars, sender_vars, run_vars
<1>2. TypeOK' /\ Control'
  BY DEF SenderInv, TypeOK, Control, vars, link_vars, sender_vars, run_vars
<1> QED
  BY <1>1, <1>2 DEF SenderInv, vars, sender_vars, run_vars

-----------------------------------------------------------------------------
(* The steps of the script.                                                *)

\* What is known of the last run does not depend on where the script is.
LEMMA BehindStays ==
  ASSUME NEW n, Behind(n), UNCHANGED <<vars, script, UPGRADE_TYPE, stray>>
  PROVE  Behind(n)'
<1>1. Plan' = Plan /\ pc' = pc
  BY DEF Plan, Stages, vars, sender_vars
<1>2. \A s : MayPlay(s)' <=> MayPlay(s)
  BY DEF MayPlay, Extracted, vars, sender_vars, run_vars
<1>3. \A s : Succeeded(s)' <=> Succeeded(s)
  BY DEF Succeeded, RetVal, vars, sender_vars
<1>4. NonePlayed(n)' <=> NonePlayed(n)
  BY <1>1 DEF NonePlayed
<1>5. \A m : LastPlayed(m, n)' <=> LastPlayed(m, n)
  BY <1>1 DEF LastPlayed
<1> QED
  BY <1>1, <1>2, <1>3, <1>4, <1>5, Zenon DEF Behind

\* A stage that is not played changes nothing of it.
LEMMA BehindNotPlayed ==
  ASSUME NEW n \in Nat, Behind(n), Plan[n + 1] \notin ScpStages
  PROVE  Behind(n + 1)
<1>1. \A m \in Nat : \A k \in m..(n + 1) : k \in m..n \/ k = n + 1
  OBVIOUS
<1>2. CASE pc = "not_started" /\ NonePlayed(n)
  BY <1>1, <1>2 DEF Behind, NonePlayed
<1>3. CASE pc = "exited" /\ \E m \in 1..n : /\ LastPlayed(m, n)
                                          /\ MayPlay(Plan[m])
                                          /\ Succeeded(Plan[m])
  <2>1. PICK m \in 1..n : LastPlayed(m, n) /\ MayPlay(Plan[m]) /\ Succeeded(Plan[m])
    BY <1>3
  <2>2. m \in 1..(n + 1) /\ m + 1 \in Nat
    OBVIOUS
  <2>3. LastPlayed(m, n + 1)
    BY <1>1, <2>1, <2>2 DEF LastPlayed
  <2> QED
    BY <1>3, <2>1, <2>2, <2>3 DEF Behind
<1> QED
  BY <1>2, <1>3 DEF Behind

\* A session that was played and succeeded is the last one played.
LEMMA BehindPlayed ==
  ASSUME NEW n \in Nat, Playing(n), pc = "exited", Succeeded(Plan[n + 1])
  PROVE  Behind(n + 1)
<1>1. n + 1 \in 1..(n + 1) /\ (n + 1 + 1)..(n + 1) = {}
  OBVIOUS
<1>2. LastPlayed(n + 1, n + 1)
  BY <1>1 DEF LastPlayed, Playing
<1> QED
  BY <1>1, <1>2 DEF Behind, Playing

\* Every step of the script and of the run it started preserves the invariant.
LEMMA UpdateInvStep ==
  ASSUME UpdateInv, [Next]_all_vars
  PROVE  UpdateInv'
<1>0. SenderInv /\ UpdateControl
  BY DEF UpdateInv
<1>p. /\ Plan \in Seq(StageNames) /\ Len(Plan) \in Nat
      /\ script \in Scripts /\ UPGRADE_TYPE \in UPGRADE_TYPE_LIST(script) /\ Playable(stray)
  BY <1>0, Plans DEF UpdateControl
<1>k. /\ script' = script /\ UPGRADE_TYPE' = UPGRADE_TYPE /\ stray' = stray
      /\ Plan' = Plan
      /\ (script \in Scripts /\ UPGRADE_TYPE \in UPGRADE_TYPE_LIST(script) /\ Playable(stray))'
  <2>1. script' = script /\ UPGRADE_TYPE' = UPGRADE_TYPE /\ stray' = stray
    BY DEF Next, ScriptStep, prepare, UpdateFirmwareSCP, stage_ended, UpgradeSurisdk,
       end_of_main, all_vars, up_vars
  <2>2. Plan' = Plan
    BY <2>1 DEF Plan, Stages
  <2>3. (script \in Scripts /\ UPGRADE_TYPE \in UPGRADE_TYPE_LIST(script))'
    BY <1>p, <2>1 DEF UPGRADE_TYPE_LIST
  <2>4. Playable(stray)'
    BY <1>p, <2>1 DEF Playable, Conv!Complete
  <2> QED
    BY <2>1, <2>2, <2>3, <2>4
<1>1. ASSUME prepare
      PROVE  UpdateInv'
  <2>1. SenderInv'
    BY <1>0, <1>1, RunStays DEF prepare
  <2>2. CASE up_pc' = "stages" /\ todo' = Plan
    <3>1. pc' = "not_started" /\ 0 \in 0..Len(Plan) /\ 1..0 = {}
      BY <1>0, <1>1, <1>p DEF prepare, UpdateControl, vars, sender_vars
    <3>2. Behind(0)'
      BY <3>1 DEF Behind, NonePlayed
    <3>3. After(Plan, 0) = Plan
      BY <1>p DEF After
    <3>4. Done(0)'
      BY <1>k, <2>2, <3>2, <3>3 DEF Done
    <3>5. UpdateControl'
      BY <1>k, <2>2, <3>1, <3>4 DEF UpdateControl
    <3> QED
      BY <2>1, <3>5 DEF UpdateInv
  <2>3. CASE up_pc' = "exited" /\ exit_code' # 0
    BY <1>k, <2>1, <2>3 DEF UpdateInv, UpdateControl
  <2> QED
    BY <1>1, <2>2, <2>3 DEF prepare, ScriptExit, Plan
<1>2. ASSUME UpdateFirmwareSCP
      PROVE  UpdateInv'
  <2>1. PICK n \in 0..Len(Plan) : Done(n)
    BY <1>0, <1>2 DEF UpdateFirmwareSCP, UpdateControl
  <2>2. n < Len(Plan) /\ Head(todo) = Plan[n + 1] /\ Plan[n + 1] \in ScpStages
    BY <1>2, <1>p, <2>1, WhatIsLeft DEF Done, UpdateFirmwareSCP
  <2>3. ASSUME NEW k \in Extracted(Plan[n + 1]),
               start(SessionOfStage[Plan[n + 1]], k, CommandLine)
        PROVE  SenderInv' /\ MayPlay(Plan[n + 1])'
    <3>1. /\ Playable(SessionOfStage[Plan[n + 1]]) /\ k \in 0..Len(SessionOfStage[Plan[n + 1]])
          /\ CommandLine \in Options
      BY <2>2, ExtractedPlayable, CommandLineIsOptions
    <3>2. SenderInv'
      BY <1>0, <2>3, <3>1, SenderInvStart
    <3>3. MayPlay(Plan[n + 1])'
      BY <1>k, <2>3 DEF MayPlay, Extracted, start, NewSession
    <3> QED
      BY <3>2, <3>3
  <2>4. ASSUME start(stray, Len(stray), CommandLine)
        PROVE  SenderInv' /\ MayPlay(Plan[n + 1])'
    <3>1. SenderInv'
      BY <1>0, <1>p, <2>4, StrayPlayable, CommandLineIsOptions, SenderInvStart
    <3>2. MayPlay(Plan[n + 1])'
      BY <1>k, <2>4 DEF MayPlay, start, NewSession
    <3> QED
      BY <3>1, <3>2
  <2>5. SenderInv' /\ MayPlay(Plan[n + 1])'
    BY <1>2, <2>2, <2>3, <2>4 DEF UpdateFirmwareSCP
  <2>6. up_pc' = "running" /\ todo' = todo
    BY <1>2 DEF UpdateFirmwareSCP
  <2>7. Playing(n)'
    BY <1>k, <2>1, <2>2, <2>5, <2>6 DEF Playing, Done, MayPlay
  <2>8. UpdateControl'
    BY <1>k, <2>6, <2>7 DEF UpdateControl
  <2> QED
    BY <2>5, <2>8 DEF UpdateInv
<1>3. ASSUME stage_ended
      PROVE  UpdateInv'
  <2>1. SenderInv'
    BY <1>0, <1>3, RunStays DEF stage_ended
  <2>2. PICK n \in 0..Len(Plan) : Playing(n)
    BY <1>0, <1>3 DEF stage_ended, UpdateControl
  <2>3. /\ n \in Nat /\ n + 1 \in 0..Len(Plan)
        /\ Head(todo) = Plan[n + 1] /\ Tail(todo) = After(Plan, n + 1)
    BY <1>p, <2>2, WhatIsLeft DEF Playing
  <2>4. CASE Succeeded(Head(todo)) /\ up_pc' = "stages" /\ todo' = Tail(todo)
    <3>1. Behind(n + 1)
      BY <1>3, <2>2, <2>3, <2>4, BehindPlayed DEF stage_ended
    <3>2. Behind(n + 1)'
      BY <1>3, <3>1, BehindStays DEF stage_ended
    <3>3. Done(n + 1)'
      BY <1>k, <2>3, <2>4, <3>2 DEF Done
    <3>4. UpdateControl'
      BY <1>k, <2>3, <2>4, <3>3 DEF UpdateControl
    <3> QED
      BY <2>1, <3>4 DEF UpdateInv
  <2>5. CASE up_pc' = "exited" /\ exit_code' # 0
    BY <1>k, <2>1, <2>5 DEF UpdateInv, UpdateControl
  <2> QED
    BY <1>3, <2>4, <2>5 DEF stage_ended, ScriptExit
<1>4. ASSUME UpgradeSurisdk
      PROVE  UpdateInv'
  <2>1. SenderInv'
    BY <1>0, <1>4, RunStays DEF UpgradeSurisdk
  <2>2. CASE todo' = Tail(todo) /\ UNCHANGED <<up_pc, exit_code>>
    <3>1. PICK n \in 0..Len(Plan) : Done(n)
      BY <1>0, <1>4 DEF UpgradeSurisdk, UpdateControl
    <3>2. /\ n \in Nat /\ n + 1 \in 0..Len(Plan) /\ Plan[n + 1] \notin ScpStages
          /\ Tail(todo) = After(Plan, n + 1)
      BY <1>4, <1>p, <3>1, WhatIsLeft DEF Done, UpgradeSurisdk
    <3>3. Behind(n + 1)
      BY <3>1, <3>2, BehindNotPlayed DEF Done
    <3>4. Behind(n + 1)'
      BY <1>4, <3>3, BehindStays DEF UpgradeSurisdk
    <3>5. Done(n + 1)'
      BY <1>k, <2>2, <3>2, <3>4 DEF Done
    <3>6. UpdateControl'
      BY <1>4, <1>k, <2>2, <3>2, <3>5 DEF UpdateControl, UpgradeSurisdk
    <3> QED
      BY <2>1, <3>6 DEF UpdateInv
  <2>3. CASE up_pc' = "exited" /\ exit_code' # 0
    BY <1>k, <2>1, <2>3 DEF UpdateInv, UpdateControl
  <2> QED
    BY <1>4, <2>2, <2>3 DEF UpgradeSurisdk, ScriptExit
<1>5. ASSUME end_of_main
      PROVE  UpdateInv'
  <2>1. SenderInv'
    BY <1>0, <1>5, RunStays DEF end_of_main
  <2>2. PICK n \in 0..Len(Plan) : Done(n)
    BY <1>0, <1>5 DEF end_of_main, UpdateControl
  <2>3. n = Len(Plan)
    BY <1>5, <1>p, <2>2, WhatIsLeft DEF Done, end_of_main
  <2>4. Behind(n)'
    BY <1>5, <2>2, BehindStays DEF Done, end_of_main
  <2>5. Behind(Len(Plan))'
    BY <1>k, <2>3, <2>4 DEF Behind, NonePlayed, LastPlayed
  <2>6. UpdateControl'
    BY <1>5, <1>k, <2>5 DEF UpdateControl, end_of_main, ScriptExit
  <2> QED
    BY <2>1, <2>6 DEF UpdateInv
<1>6. ASSUME up_pc = "running", RunStep, UNCHANGED up_vars
      PROVE  UpdateInv'
  <2>1. SenderInv'
    BY <1>0, <1>6, SenderInvStep
  <2>2. PICK n \in 0..Len(Plan) : Playing(n)
    BY <1>0, <1>6 DEF UpdateControl
  <2>3. MayPlay(Plan[n + 1])' <=> MayPlay(Plan[n + 1])
    BY <1>6, <1>k, SameList DEF MayPlay, Extracted
  <2>4. Playing(n)'
    BY <1>6, <1>k, <2>2, <2>3 DEF Playing, up_vars
  <2>5. UpdateControl'
    BY <1>6, <1>k, <2>4 DEF UpdateControl, up_vars
  <2> QED
    BY <2>1, <2>5 DEF UpdateInv
<1>7. ASSUME UNCHANGED all_vars
      PROVE  UpdateInv'
  <2>1. SenderInv'
    BY <1>0, <1>7, RunStays DEF all_vars
  <2>2. /\ up_pc' = up_pc /\ todo' = todo /\ exit_code' = exit_code
        /\ pc' = pc /\ session' = session /\ listed' = listed /\ UNCHANGED vars
    BY <1>7 DEF all_vars, up_vars, vars, sender_vars, run_vars
  <2>3. \A n : Behind(n) => Behind(n)'
    BY <1>k, <2>2, BehindStays
  <2>4. \A n : Done(n) => Done(n)'
    BY <1>k, <2>2, <2>3 DEF Done
  <2>5. \A s : MayPlay(s)' <=> MayPlay(s)
    BY <1>k, <2>2 DEF MayPlay, Extracted
  <2>6. \A n : Playing(n) => Playing(n)'
    BY <1>k, <2>2, <2>5 DEF Playing
  <2>7. Behind(Len(Plan)) => Behind(Len(Plan))'
    BY <1>k, <2>3 DEF Behind, NonePlayed, LastPlayed
  <2>8. UpdateControl'
    BY <1>0, <1>k, <2>2, <2>4, <2>6, <2>7 DEF UpdateControl
  <2> QED
    BY <2>1, <2>8 DEF UpdateInv
<1> QED
  BY <1>1, <1>2, <1>3, <1>4, <1>5, <1>6, <1>7 DEF Next, ScriptStep

-----------------------------------------------------------------------------
\* The invariant holds of every behavior.
THEOREM UpdateInvariance == Spec => []UpdateInv
<1>1. Init => UpdateInv
  BY UpdateInvInit
<1>2. UpdateInv /\ [Next]_all_vars => UpdateInv'
  BY UpdateInvStep
<1> QED
  BY <1>1, <1>2, PTL DEF Spec

(* SuccessIsTheLastList: an update ends with 0 only if all the commands    *)
(* that the last list it plays names were executed, in order.  They are    *)
(* those of a whole session, but for the stage of the package, of which no *)
(* one checks that it was extracted whole.                                 *)
THEOREM SuccessIsTheLastList == Spec => []UpdatedIsFlashed
<1>1. ASSUME UpdateInv
      PROVE  UpdatedIsFlashed
  <2> SUFFICES ASSUME up_pc = "exited", exit_code = 0, NEW n \in Played, IsLastPlayed(n)
               PROVE  /\ session \in {SessionOfStage[Plan[n]], stray}
                      /\ IsPrefix(executed, Conv!Requested(session))
                      /\ Len(executed) >= ListedCommands
                      /\ Plan[n] # "firmware" \/ listed = Len(session)
                           => executed = Conv!Requested(session)
    BY DEF UpdatedIsFlashed, Plan
  <2>1. /\ SenderInv /\ Behind(Len(Plan)) /\ Plan \in Seq(StageNames) /\ Len(Plan) \in Nat
        /\ DOMAIN Plan = 1..Len(Plan)
        /\ \A m \in 1..Len(Plan) : LastPlayed(m, Len(Plan)) => Plan[m] \notin Tolerant
    BY <1>1, Plans DEF UpdateInv, UpdateControl
  <2>2. /\ n \in 1..Len(Plan) /\ Plan[n] \in ScpStages
        /\ \A m \in 1..Len(Plan) : Plan[m] \in ScpStages => m <= n
    BY <2>1 DEF IsLastPlayed, Played, Plan
  <2>3. PICK m \in 1..Len(Plan) : /\ pc = "exited" /\ LastPlayed(m, Len(Plan))
                                  /\ MayPlay(Plan[m]) /\ Succeeded(Plan[m])
    BY <2>1, <2>2 DEF Behind, NonePlayed
  <2>4. m = n
    <3>1. m <= n
      BY <2>2, <2>3 DEF LastPlayed
    <3>2. n \notin (m + 1)..Len(Plan)
      BY <2>2, <2>3 DEF LastPlayed
    <3> QED
      BY <2>1, <2>2, <3>1, <3>2
  <2>5. return_code = 0 /\ MayPlay(Plan[n])
    BY <2>1, <2>3, <2>4 DEF Succeeded, RetVal
  <2>6. session \in {SessionOfStage[Plan[n]], stray}
    BY <2>5 DEF MayPlay
  <2>7. Plan[n] # "firmware" => listed = Len(session)
    BY <2>5 DEF MayPlay, Extracted
  <2>8. listed = Len(session) => executed = Conv!Requested(session)
    BY <2>1, <2>3, <2>5, ZeroIsSuccess
  <2>9. Len(executed) >= ListedCommands
    <3>1. listed \in Nat /\ pos - 1 = listed
      <4>1. Len(session) \in Nat
        BY <2>1, Turns DEF SenderInv, Nothing, Replaying
      <4> QED
        BY <2>1, <2>3, <2>5, <4>1 DEF SenderInv, Control, TypeOK
    <3>2. ListedCommands = Confirmed
      BY <3>1 DEF ListedCommands, Confirmed
    <3>3. ListedCommands \in Nat
      <4>1. IsFiniteSet(1..listed)
        BY <3>1, FS_Interval
      <4>2. IsFiniteSet({k \in 1..listed : session[k].name = "response"})
        BY <4>1, FS_Subset
      <4> QED
        BY <4>2, FS_CardinalityType DEF ListedCommands
    <3>4. LockStep
      BY <2>1, InvLockStep
    <3> QED
      BY <3>2, <3>3, <3>4 DEF LockStep
  <2> QED
    BY <2>1, <2>6, <2>7, <2>8, <2>9, ExecutedIsPrefix
<1> QED
  BY <1>1, UpdateInvariance, PTL

(* NothingAfterFailure: no session is played after one that failed outside *)
(* what may be there already, and none after an erasure, or whatever else  *)
(* is not tolerated to fail, that was not executed whole.                  *)
THEOREM NothingAfterFailure == Spec => NoStageAfterFailure
<1> DEFINE Starts == up_pc = "stages" /\ up_pc' = "running" /\ pc = "exited"
           Previous == Plan[Len(Plan) - Len(todo)]
           Clean == /\ return_code \notin {NOT_CONNECTED, FAILED}
                    /\ Previous \notin Tolerant => executed = Conv!Requested(session)
<1>1. ASSUME UpdateInv, [Next]_all_vars, Starts
      PROVE  Clean
  <2>1. PICK n \in 0..Len(Plan) : Done(n)
    BY <1>1 DEF UpdateInv, UpdateControl
  <2>2. /\ SenderInv /\ Plan \in Seq(StageNames) /\ Len(Plan) \in Nat
        /\ \A k \in 1..(Len(Plan) - 1) : Plan[k] \in ScpStages \ {"firmware"}
    BY <1>1, Plans DEF UpdateInv, UpdateControl
  <2>3. PICK m \in 1..n : LastPlayed(m, n) /\ MayPlay(Plan[m]) /\ Succeeded(Plan[m])
    BY <1>1, <2>1 DEF Done, Behind
  <2>4. n < Len(Plan) /\ Len(todo) = Len(Plan) - n
    <3>1. todo # <<>>
      BY <1>1 DEF Next, ScriptStep, prepare, UpdateFirmwareSCP, stage_ended, UpgradeSurisdk,
         end_of_main, ScriptExit, all_vars, up_vars
    <3>2. n < Len(Plan)
      BY <2>1, <2>2, <3>1, WhatIsLeft DEF Done
    <3> QED
      BY <2>1, <2>2, <3>2 DEF Done, After
  <2>5. n \in 1..(Len(Plan) - 1) /\ Previous = Plan[n]
    BY <2>2, <2>3, <2>4
  <2>6. m = n
    <3>1. n \notin (m + 1)..n
      BY <2>2, <2>3, <2>5 DEF LastPlayed
    <3> QED
      BY <2>3, <3>1
  <2>7. return_code = 0 \/ (return_code = 1 /\ Previous \in Tolerant)
    BY <2>3, <2>5, <2>6 DEF Succeeded, RetVal
  <2>8. listed = Len(session)
    BY <2>2, <2>3, <2>5, <2>6 DEF MayPlay, Extracted
  <2> HIDE DEF Previous
  <2> QED
    BY <1>1, <2>2, <2>7, <2>8, ZeroIsSuccess DEF NOT_CONNECTED, FAILED
<1>2. UpdateInv /\ [Next]_all_vars => [Starts => Clean]_all_vars
  BY <1>1
<1> HIDE DEF Starts, Clean
<1>3. Spec => [][Starts => Clean]_all_vars
  BY <1>2, UpdateInvariance, PTL DEF Spec
<1> QED
  BY <1>3, PTL DEF NoStageAfterFailure, Starts, Clean, Plan
=============================================================================
