------------------------------ MODULE MCUpdater ------------------------------
(***************************************************************************)
(* An instance of Updater: every stage has a session of one command, but   *)
(* the first boot loader and the firmware one of two.  The script may be   *)
(* started in a directory of packets that belong to no stage.              *)
(***************************************************************************)
EXTENDS Updater, MCSerialSender

MCSessionOfStage ==
  [key |-> SessionOf(<<"write_crk">>), otp |-> SessionOf(<<"write_timeout">>),
   eraser |-> SessionOf(<<"del_mem">>), suribl |-> SessionOf(<<"del_mem", "write_mem">>),
   firmware |-> SessionOf(<<"del_mem", "write_mem">>)]

MCStrays == {<<>>, SessionOf(<<"verify_data">>)}
=============================================================================
