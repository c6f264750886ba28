----------------------------- MODULE MCBuildScp -----------------------------
(***************************************************************************)
(* Instances of BuildScp: two binaries whose sessions have two and three   *)
(* packets, the longer one an image with a header of its own, which a      *)
(* configuration without header signs as it is; and short signatures.      *)
(***************************************************************************)
EXTENDS BuildScp

Config(algo, key, header, signonly, jump, args) ==
  [algo |-> algo, key |-> key, header |-> header, signonly |-> signonly,
   version |-> 16777219, load_address |-> <<16, 0, 0, 0>>, jump_address |-> jump,
   arguments |-> args, slots |-> 7]

Jump == <<16, 0, 0, 32>>

MCConfigs == {
  Config("ecdsa", "k1", TRUE, FALSE, Jump, <<>>),
  Config("rsa", "k1", TRUE, FALSE, Jump, <<>>),
  Config("ecdsa", "k2", TRUE, FALSE, Jump, <<97>>),
  Config("ecdsa", "k1", TRUE, FALSE, <<16>>, <<>>),    \* a short address
  Config("ecdsa", "k1", FALSE, FALSE, Jump, <<>>),     \* no header
  Config("ecdsa", "k1", TRUE, TRUE, Jump, <<>>) }      \* signature only

\* The header of an ecdsa image whose binary is the last 8 bytes.
Headed == <<72, 73, 83, 87, 69, 68, 71, 68>> \o <<1, 0, 0, 3>> \o <<16, 0, 0, 0>>
            \o <<0, 0, 0, 8>> \o Jump \o <<0, 0, 0, 0>> \o <<7, 7, 7, 7>>

MCBinaries == {[k \in 1..5 |-> 1], Headed \o [k \in 1..8 |-> 2]}
MCSignatureLen == [rsa |-> 3, ecdsa |-> 2]
MCVersions == {<<1, 0, 0, 3>>}
=============================================================================
