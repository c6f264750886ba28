------------------------------ MODULE ScpReplay ------------------------------
(***************************************************************************)
(* What replaying a session promises to whoever looks at its outcome: the  *)
(* commands of the session are executed in their order, each at most once, *)
(* and success is reported only after the last of them was executed.       *)
(*                                                                         *)
(* A failure promises nothing: commands may have been executed before it,  *)
(* and the one that was on its way may still be executed after it.         *)
(***************************************************************************)
EXTENDS Naturals, Sequences

VARIABLES
  wanted,       \* the commands of the session
  executed,     \* those that the bootloader has executed
  outcome       \* "none", "success" or "failure"

Init ==
  /\ executed = <<>>
  /\ outcome = "none"

Execute ==
  /\ outcome # "success"
  /\ Len(executed) < Len(wanted)
  /\ executed' = Append(executed, wanted[Len(executed) + 1])
  /\ UNCHANGED <<wanted, outcome>>

Succeed ==
  /\ outcome = "none"
  /\ executed = wanted
  /\ outcome' = "success"
  /\ UNCHANGED <<wanted, executed>>

Fail ==
  /\ outcome = "none"
  /\ outcome' = "failure"
  /\ UNCHANGED <<wanted, executed>>

Next == Execute \/ Succeed \/ Fail

Spec == Init /\ [][Next]_<<wanted, executed, outcome>>
=============================================================================
