------------------------------ MODULE BuildScp ------------------------------
(***************************************************************************)
(* buildSCP-from-bin.sh: signs a binary with ca_sign_build and turns the   *)
(* signed image into an archive of packets with buildSCP_mod.sh.  Neither  *)
(* script looks at the statuses of most of its commands, and several       *)
(* directories survive from one build to the next.                         *)
(*                                                                         *)
(* The same file is built again and again under the same name, each time   *)
(* with another content.  A directory of packets is its packet.list, the   *)
(* set of the packets named or None, and the packets it holds; a packet is *)
(* known by the image that it carries a part of.                           *)
(***************************************************************************)
EXTENDS SlaParser

CONSTANTS
  Binaries,    \* the contents that the binary may have
  ROMVersions, \* the versions that findrom.sh knows, as the bytes of the header
  PACKET,      \* bytes of an image in one packet
  MaxBuilds    \* bound: builds and runs of the signer

\* The signer keeps the length of a binary in 32 bits, the parser in an int.
ASSUME BuildAssumption ==
  /\ \A b \in Binaries : b \in Seq(Octet) /\ Len(b) <= 2147483647
  /\ PACKET \in Nat \ {0}
  /\ MaxBuilds \in Nat

VARIABLES
  step,        \* what the script does next
  builds,      \* how many builds have begun
  requested,   \* the binary of the build under way, or of the last one
  output,      \* the directory that session_build writes to
  tempFw,      \* its copy, which is never erased
  archive,     \* the archive in the folder of the user
  clean,       \* no command of the build under way has failed
  status       \* the exit status of the last build

build_vars == <<step, builds, requested, output, tempFw, archive, clean, status>>
vars == <<signer_vars, parsed, build_vars>>

None == {0}
Empty == [list |-> None, packets |-> << >>]

NbPackets(image) == 1 + Len(image) \div PACKET

\* "LC_ALL=C ls -1 *.packet >packet.list"
Listed(packets) == [list |-> DOMAIN packets, packets |-> packets]

-----------------------------------------------------------------------------
kept_vars == <<output, tempFw, archive, status>>

\* cp $BINARY_FILE CaSign/ : a copy that fails leaves the file of the build before.
copy_binary ==
  /\ step = "idle"
  /\ builds < MaxBuilds
  /\ builds' = builds + 1
  /\ step' = "sign"
  /\ \E b \in Binaries :
       /\ requested' = b
       /\ \/ files' = Stored("ca", Bytes(b)) /\ clean' = TRUE
          \/ files' = files /\ clean' = FALSE
  /\ parsed' = NotParsed
  /\ UNCHANGED <<library, pc, config, payload, signature, err, signed, kept_vars>>

start_signer ==
  /\ step = "sign"
  /\ \E c \in Configs : load_config(c)
  /\ step' = "signing"
  /\ UNCHANGED <<builds, requested, clean, parsed, kept_vars>>

signer_runs ==
  /\ step = "signing"
  /\ SignerStep
  /\ UNCHANGED <<step, builds, requested, clean, parsed, kept_vars>>

(* Nobody looks at the status of ca_sign_build; the history variable clean *)
(* tells whether it really wrote the image.                                *)
signer_done ==
  /\ step = "signing"
  /\ pc = "exited"
  /\ pc' = "idle"
  /\ step' = "copy_signed"
  /\ clean' = (clean /\ ~err /\ \E s \in signed : /\ s.config = config
                                                  /\ s.binary = Bytes(requested)
                                                  /\ s.image = payload \o signature)
  /\ config' = NoConfig /\ payload' = <<>> /\ signature' = <<>> /\ err' = FALSE
  /\ UNCHANGED <<library, files, signed, builds, requested, parsed, kept_vars>>

\* cp sca ../scripts
copy_signed ==
  /\ step = "copy_signed"
  /\ step' = "prepare"
  /\ \/ /\ "sca" \in DOMAIN files
        /\ files' = Stored("scripts", files["sca"])
        /\ UNCHANGED clean
     \/ files' = files /\ clean' = FALSE
  /\ UNCHANGED <<library, pc, config, payload, signature, err, signed>>
  /\ UNCHANGED <<builds, requested, parsed, kept_vars>>

EndBuild(s) == step' = "idle" /\ status' = s

MutNotErased == output

Erased == Empty

(* buildSCP_mod.sh: the input and the key must exist; the output directory *)
(* is erased and made; the version of the ROM, bytes 8 to 11 of the input, *)
(* must be known and objcopy must work.                                    *)
prepare ==
  /\ step = "prepare"
  /\ \/ EndBuild("failure") /\ clean' = FALSE /\ UNCHANGED output
     \/ /\ "scripts" \in DOMAIN files
        /\ output' = Erased
        /\ \/ /\ \E v \in ROMVersions : Field(files["scripts"], 8, 4) = Bytes(v)
              /\ step' = "generate"
              /\ UNCHANGED <<clean, status>>
           \/ EndBuild("failure") /\ clean' = FALSE
  /\ UNCHANGED <<builds, requested, tempFw, archive, parsed, signer_vars>>

(* session_build writes the packets of the session one after the other,    *)
(* and packet.list is written when it exits with status 0: after the whole *)
(* session, or in the middle of it when a signature failed.                *)
generate ==
  /\ step = "generate"
  /\ LET image == files["scripts"]
         nb == NbPackets(image)
     IN  \E n \in 0..nb :
           LET packets == Over([k \in 1..n |-> image], output.packets)
           IN  \/ output' = Listed(packets) /\ clean' = (clean /\ n = nb)
               \/ output' = [list |-> None, packets |-> packets] /\ clean' = FALSE
  /\ step' = "deliver"
  /\ UNCHANGED <<builds, requested, tempFw, archive, status, parsed, signer_vars>>

MutReplaced == output.packets

MergedPackets == Over(output.packets, tempFw.packets)

MergedList == IF output.list # None THEN output.list ELSE tempFw.list

(* "cp -rp $output tempFw" adds the files to those of the build before;    *)
(* tar, the copy to the user and the removal of the input follow, here all *)
(* of them with success although none is tested.  The status tested at the *)
(* end is that of "sleep 1".                                               *)
deliver ==
  /\ step = "deliver"
  /\ tempFw' = [list |-> MergedList, packets |-> MergedPackets]
  /\ archive' = tempFw'
  /\ files' = [f \in DOMAIN files \ {"scripts"} |-> files[f]]
  /\ EndBuild("success")
  /\ UNCHANGED <<builds, requested, output, clean, parsed>>
  /\ UNCHANGED <<library, pc, config, payload, signature, err, signed>>

look ==
  /\ step = "idle"
  /\ parse
  /\ UNCHANGED build_vars

Finished == step = "idle" /\ builds = MaxBuilds /\ UNCHANGED vars

Init ==
  /\ SignerInit
  /\ parsed = NotParsed
  /\ step = "idle"
  /\ builds = 0
  /\ requested = <<>>
  /\ output = Empty
  /\ tempFw = Empty
  /\ archive = Empty
  /\ clean = FALSE
  /\ status = "none"

Next ==
  \/ copy_binary \/ start_signer \/ signer_runs \/ signer_done \/ copy_signed
  \/ prepare \/ generate \/ deliver \/ look \/ Finished

Spec == Init /\ [][Next]_vars

-----------------------------------------------------------------------------
TypeOK ==
  /\ SignerTypeOK
  /\ step \in {"idle", "sign", "signing", "copy_signed", "prepare", "generate", "deliver"}
  /\ builds \in 0..MaxBuilds
  /\ requested \in Binaries \cup {<<>>}
  /\ \A d \in {output, tempFw, archive} : d.list = None \/ d.list \subseteq DOMAIN d.packets
  /\ clean \in BOOLEAN
  /\ status \in {"none", "success", "failure"}

(* What a reader of the archive is given: the packets that packet.list     *)
(* names are the whole session of one image, that of the binary asked for. *)
DeliversRequested ==
  \E s \in signed :
    /\ s.binary = Bytes(requested)
    /\ archive.list = 1..NbPackets(s.image)
    /\ \A k \in archive.list : archive.packets[k] = s.image

(* When no command of a build failed, the archive is the session of the    *)
(* binary asked for, whatever earlier builds, and those that failed among  *)
(* them, left in the four directories.                                     *)
CleanBuildDelivers == step = "idle" /\ clean => DeliversRequested

(* The packets that the list in the archive names, after a build that ends *)
(* with status 0, are packets that this build has generated, and none that *)
(* a build before it has left.                                             *)
PackageIsItsOwn ==
  step = "idle" /\ status = "success" /\ archive.list # None =>
    \A k \in archive.list :
      k \in DOMAIN output.packets /\ archive.packets[k] = output.packets[k]
=============================================================================
