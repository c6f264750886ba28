------------------------------ MODULE UsbDetect ------------------------------
(***************************************************************************)
(* serial_sender --auto-usb-detect: WaitMaximUsbBootloader listens to the  *)
(* events that udev announces for tty devices, in a thread of its own, and *)
(* the main program polls the global that the thread writes.  The port is  *)
(* then opened, and the session is replayed to whatever device it is.      *)
(*                                                                         *)
(* A device may be plugged or unplugged at any time before the port is     *)
(* opened, before the thread listens among others: resetMaxim restarts the *)
(* board before the monitor is created.                                    *)
(***************************************************************************)
EXTENDS SerialSender

CONSTANTS
  Bootloader,         \* the device of the chip, with both identifiers
  Lookalikes,         \* devices with its vendor or its product, but not both
  Nameless,           \* devices for which udev has no vendor or no product
  DETECT_TICKS        \* bound: --usb-detect-timeout, in turns of the loop

ASSUME DetectAssumption ==
  /\ Bootloader \notin Lookalikes \cup Nameless
  /\ Lookalikes \cap Nameless = {}
  /\ DETECT_TICKS \in Nat

VARIABLES
  det_pc,             \* where WaitMaximUsbBootloader is
  observer,           \* the thread: "stopped", "running" or "dead" of an exception
  msec_timeout,       \* turns of the loop left
  maxim_device,       \* the global, and then the port
  attached            \* the devices on the bus

det_vars == <<det_pc, observer, msec_timeout, maxim_device, attached>>
detect_all_vars == <<vars, det_vars>>

Devices == {Bootloader} \cup Lookalikes \cup Nameless
None    == "None"

-----------------------------------------------------------------------------
(* The bus and the thread.                                                 *)

\* model != "0625" and vendor != "0b6a": one of the two is enough.
IsMaxim(d) == d \in {Bootloader} \cup Lookalikes

\* Any action on a device, its removal too; a missing property is a KeyError.
device_event(d) ==
  IF observer # "running" THEN UNCHANGED <<observer, maxim_device>>
  ELSE /\ observer' = IF d \in Nameless THEN "dead" ELSE observer
       /\ maxim_device' = IF IsMaxim(d) THEN d ELSE maxim_device

BusEvent ==
  /\ pc = "open_port"
  /\ \E d \in Devices :
       /\ attached' \in {attached \cup {d}, attached \ {d}}
       /\ device_event(d)
  /\ UNCHANGED <<vars, det_pc, msec_timeout>>

-----------------------------------------------------------------------------
(* WaitMaximUsbBootloader.                                                 *)

Waiting(from, to) == pc = "open_port" /\ det_pc = from /\ det_pc' = to

observer_start ==
  /\ Waiting("start", "loop")
  /\ observer' = "running"
  /\ UNCHANGED <<vars, msec_timeout, maxim_device, attached>>

MutNoTick == UNCHANGED msec_timeout

Tick == msec_timeout' = msec_timeout - 1

poll ==
  /\ Waiting("loop", "loop")
  /\ msec_timeout > 0
  /\ maxim_device = None
  /\ Tick
  /\ UNCHANGED <<vars, observer, maxim_device, attached>>

loop_ended ==
  /\ Waiting("loop", "stop")
  /\ msec_timeout = 0 \/ maxim_device # None
  /\ UNCHANGED <<vars, observer, msec_timeout, maxim_device, attached>>

\* An event that comes before the thread is stopped is still taken into account.
observer_stop ==
  /\ Waiting("stop", "open")
  /\ observer' = "stopped"
  /\ UNCHANGED <<vars, msec_timeout, maxim_device, attached>>

\* The device may be gone when its port is opened; only the one opened matters then.
OpenPort ==
  /\ Waiting("open", "opened")
  /\ \/ maxim_device = None /\ Exit(FAILED)
     \/ maxim_device \notin attached \cup {None} /\ Exit(1)
     \/ maxim_device \in attached /\ pc' = "parse" /\ UNCHANGED return_code
  /\ attached' = attached \cap {maxim_device}
  /\ UNCHANGED <<session, link_vars, run_vars, attempt, pos, observer, msec_timeout,
                 maxim_device>>

-----------------------------------------------------------------------------
\* A device that does not speak the protocol swallows, sends back or garbles what it
\* is sent.
OtherDevice ==
  /\ to_bl # <<>>
  /\ to_bl' = Tail(to_bl)
  /\ to_host' \in {to_host, Append(to_host, Head(to_bl)), Append(to_host, Junk)}
  /\ UNCHANGED <<session, bl_out, bl_pos, executed, loaded, refused, lost>>

DetectStep == observer_start \/ poll \/ loop_ended \/ observer_stop \/ OpenPort

\* The steps of the sender once it has its port.
ReplayStep == pc # "open_port" /\ SenderStep /\ UNCHANGED det_vars

DeviceStep ==
  /\ pc # "open_port"
  /\ IF maxim_device = Bootloader THEN LinkStep ELSE OtherDevice
  /\ UNCHANGED <<sender_vars, det_vars>>

\* The port is given with -s, or detected.
DetectInit ==
  /\ RunInit
  /\ \/ det_pc = "start" /\ maxim_device = None
     \/ det_pc = "open" /\ maxim_device = Bootloader
  /\ observer = "stopped"
  /\ msec_timeout = DETECT_TICKS
  /\ attached \in SUBSET Devices

DetectNext == DetectStep \/ BusEvent \/ ReplayStep \/ DeviceStep

\* The program proceeds, in its loop too.  The bus and the device need not.
DetectSpec == /\ DetectInit /\ [][DetectNext]_detect_all_vars
              /\ WF_detect_all_vars(DetectStep \/ ReplayStep)

-----------------------------------------------------------------------------
\* The state of the detection is well formed, and that of the sender.
DetectTypeOK ==
  /\ TypeOK
  /\ det_pc \in {"start", "loop", "stop", "open", "opened"}
  /\ observer \in {"stopped", "running", "dead"}
  /\ msec_timeout \in 0..DETECT_TICKS
  /\ maxim_device \in Devices \cup {None}
  /\ attached \subseteq Devices

(* The detection may return another device than the bootloader: as long as *)
(* that device does not speak the protocol, and swallows, echoes or garbles*)
(* what it is sent, the session is not reported to have succeeded, a       *)
(* session without any command included.                                   *)
SuccessIsBootloader ==
  pc = "exited" /\ return_code = 0 => maxim_device = Bootloader
=============================================================================
