# Verification of the MAX325xx secure-ROM host tools

The repository holds the host side of Maxim's Secure Communication Protocol
(SCP), with which a chip's ROM bootloader is given keys, one-time-programmable
(OTP) settings and firmware. A binary is *signed*, turned into a session that is
*generated* off line, one file per packet, and *replayed* later over a serial or
USB port. These modules model the signer and its parser, the two generators, the
player and the scripts around them. TLC checks them on small instances; TLAPS
proves every safety property that a run checks, and the refinements, for every
instance.

Source paths are relative to the repository. `session_build.c` is
`src/Host/session_build/src/session_build.c`; `ca_sign_build.c` and
`sla_parser.c` are in `src/Host/casign/src/` and `src/Host/sla_parser/src/`;
`serial_sender/` is `src/Host/customer_scripts/lib/serial_sender/`; the scripts
`*_mod.sh` are in `src/Host/customer_scripts/scripts/` and the updaters in `src/`.

## 1. Inventory

| part | state it keeps | operations | hard behaviours | what makes it correct |
|---|---|---|---|---|
| **Session generator**, `session_build.c` `process_script` | globals `seq`, `tr_id`, `ch_id`, the sender set by `host()`/`usip()`, `compteur`, the packet files, the list of packets | handshake, one function per script command, `ack`, `generic_response`, disconnection | some fifty functions advance the counters by hand; results of some calls are ignored; one failure ends in `exit(0)`; a packet file may not be created | what it emits is an SCP conversation; a session reported built holds what the script asks, in order; a published list is a whole session |
| **S-record reader and memory writer**, same file | globals `start_addr`, `end_addr`, `addr[]`, `data[]`, `data_len` | two readings of a file, erasure, cutting into packets | globals survive from one line to the next; the two readings compute lengths differently; packet-size arithmetic by hand | every byte is sent once at its address; the erasure covers it and little more; packets fit the chip's buffer |
| **MAXQ1852 generator**, same file, 4504-5808 | `seq`, the flash image `dataloc`, the extended address | fourteen commands, Intel HEX files | each function numbers its packet; one ignored result; two copies of the code that cuts a file | a conversation whose announced lengths are right; a file is loaded whole and verified as loaded |
| **Configuration, command line, command recognition**, same file | `config_struct`, `session_mode`, `params[]`, the local `loline` | `load_default_config`, `load_ini_config`, `load_args`, `process_arg`, `process_command` | three sources of each setting; checks that depend on a mode that may still change; uninitialised locals; a command recognised anywhere in a line | the command line wins; what is checked is what is used; a line that reads never writes |
| **Payload builders and signatures**, same file | `payload[]`, `ipayload` | `*_payload`, `aes_*`, `rsa_sign_payload`, `ecdsa_sign_payload` | lengths written by hand, some on one byte; padding | lengths announced are lengths sent |
| **Certificate signer**, `ca_sign_build.c` | header, payload, signature, the files `sig` and `sca` | read key and binary, add header, sign, write | results overwritten; exits in the middle | see the next row |
| **SLA parser**, `sla_parser.c` | - | parse the header, check the signature, write `raw.bin` | field offsets kept in two programs | it accepts what the signer signed whole, and nothing else |
| **HSM access**, `mlsHsmInjection.c` | PKCS#11 session and handles | open, login, find key, close | any error ends the process | a session starts with its key |
| **Build scripts**, `buildSCP-from-bin.sh`, `buildSCP_mod.sh`, `build_application_mod.sh` | directories that survive from one build to the next | sign, convert, generate, list, archive | statuses that nobody tests, or of the wrong command | what is delivered is the session of the binary given |
| **Packet player**, `serial_sender/` | position in the list, connection attempts, input buffer of the port, exit status; the global `maxim_device` | detect the device, open the port, load the list, connect with retries, replay, compare | a udev thread; late answers to abandoned requests, lost or damaged packets, partial reads, a vendored progress bar that throws, exit statuses shared by different failures | it ends; status 0 means that the chip executed every command once |
| **Flashing script**, `sendscp_mod.sh` | retries left, status | argument checks, run, reset, run again | retrying what was partly done, status taken from the wrong command | success only if flashed; ends |
| **Updaters**, `orcanfc-updater.sh`, `surisdklite-updater.sh`, `sirius-liked-orcanfc-updater.sh` | stage of the update | unpack, load key and OTP, erase, boot loader, firmware | deciding from an exit status whether a failed session was harmless; `cd`, `tar` and `unzip` unchecked | success only if flashed; no stage after a failed one |
| **`sendscp.sh`, USB endurance test `test_usb_scp/`, OTP dump firmware** | - | - | - | not modelled, section 5 |

Interactions. The signer writes `sca`, which the scripts convert to S-records and
name in the script of `session_build`. That writes
`<script>.<n>.<bl|host>.<cmd>.packet` files, which the build script lists in
`packet.list` when `session_build` exits with 0; `serial_sender` reads the list,
writes the packets of `host` to the port and compares what it reads with those of
`bl`; the flashing scripts run `serial_sender` and act on its exit status alone.
Programs talk to each other through files and exit statuses only, so a status
that is wrong, or not tested, is how an error of one part reaches another. The
only concurrency is between the host program, the serial line, the bootloader,
and the udev thread while the device is being found.

`PROJECT.json` lists the same components with what is and is not modelled, and
the hazards, each at the line where it bites.

## 2. Modules

| module | what it is | code |
|---|---|---|
| `ScpConversation` | abstract specification: which packet may follow which in an SCP session | header, acknowledgement and counter functions of `session_build.c` |
| `ScpSession`, `ScpSessionProofs` | the generator | `process_script`, the command functions, `maxim_send`, `main`'s status, publication by `build_application_mod.sh` |
| `ScpWriteFile`, `ScpWriteFileProofs` | erasing, writing and comparing memory | `read_s19`, `read_s20`, `get_start_addr_and_length_*`, `del_mem_payload`, `write_file`, `write_only`, `verify_file`, `del_data` |
| `MaxqConversation` | abstract specification: numbered requests, each answered | `maxq1852_add_seq`, `maxq1852_generic_response` |
| `MaxqSession`, `MaxqSessionProofs` | the MAXQ1852 generator | `process_script_maxq1852_ecdsa` and what it calls, `read_hex` |
| `ScpPayload` | the length that each payload announces and has; signature and encryption | the `*_payload` functions, `padding`, `aes_cmac_payload`, `rsa_sign_payload` |
| `SessionBuild`, `SessionBuildProofs` | the main program: configuration, checks, HSM, recognition of commands; extends `ScpPayload` | `load_*`, `process_arg`, `process_command`, `process_script`'s checks of parameters, `mlsHsmInjection.c` |
| `CaSign` | the signer | `ca_sign_build.c` `process`, `add_header_to_payload`, the writing of the two files |
| `SlaParser` | the parser; extends `CaSign` | `sla_parser.c` `parse_header_payload`, `process` |
| `BuildScp`, `BuildScpProofs` | the two build scripts around signer, generator and parser; extends `SlaParser` | `buildSCP-from-bin.sh`, `buildSCP_mod.sh` |
| `ScpLink` | external: ROM bootloader and serial line | modelled from what the generator expects and the player is prepared for |
| `ScpReplay` | abstract specification of a replay: commands executed in order, outcome announced at the end | |
| `SerialSender`, `SerialSenderProofs` | one run of `serial_sender.py` over `ScpLink` | `process_packet`, `ScpPacket`, `BootloaderScp`, `main` |
| `UsbDetect` | the detection of the device, composed with `SerialSender`; proved about in `SerialSenderProofs` | `WaitMaximUsbBootloader`, `device_event` |
| `SendScp`, `SendScpProofs`, `Updater`, `UpdaterProofs` | the scripts, composed with `SerialSender` | `sendscp_mod.sh`; the three updaters |
| `MC*` | constants of the instances for TLC | |

### ScpSession

`pc` names the next call of `process_script`; there is one action per
packet-emitting call. A packet is `[from, name, cmd, seq, tr]`: who says it,
what it is, and the two counters of its header and payload. A script is the
sequence of the kinds of its lines, chosen as they are read: a line that is
skipped, one that is an error, a command, or a file command with the number of
data packets that the file needs (`Unreadable` when it cannot be opened). Seven
modes are modelled, chosen by `Init` from `MODES`; `SBL`, which supports no
command, is one of them, and `MSP_MAXQ1852_ECDSA` is in `MaxqSession`.

Each failure of the code is an action: `bad_line` (unknown command, parameters,
mode), `request_refused` (the command function returns before `seq++`),
`request_unsigned` (it returns after `seq++`, when signing failed), `sign_exit`
(the same with `exit(0)`, in the ECDSA mode of a program built without
`_MXIM_HSM`), the unreadable file in `file_erased`, and a packet file that is
not created in `maxim_send`. `ResultIgnored` says which callers look at the
result: `write_file` does not for its erasure and `verify_file` does not for a
comparison. `publish` is the `&& ls` of the build script.

### ScpWriteFile

The globals of the code are variables with their names. Each record is one step
of the two readings, each byte one step of the cutting loop. A byte is
identified with its place in the file, so that `writes`, the packets sent, can be
compared with what was loaded. `Relocate` is the exclusive-or with
`address_offset`; addresses are sent modulo `WORD`. Lines follow one another
without any reset other than the code's.

### MaxqSession

A request is its command, its sequence number, the bytes of its packet, and the
address and bytes of the piece of file it carries. The bytes are made in the
order of the code: the frame, the parameters, the identifier and the sequence
number, then the two length bytes (`LengthSet`), computed from what there is by
then and the constants of the code, then the signature, appended behind. Bytes
other than the length are not told apart. The sizes of parameters are sets,
because a wrong hexadecimal digit stops the copy of a parameter and the caller
sends what was copied. What a failed signature does depends on the library: an
unsigned request is sent (Maxim's HSM), or the program exits with 0 or 1. A file
is read record by record into `data`; `Placed` makes the image `dataloc` of it.
The two copies of the code differ where two records give a value to one place:
load-file keeps the first (`KeepFirst`, the byte of least index that is not
blank), verify-file the last (`KeepLast`).

### SessionBuild and ScpPayload

A configuration line is the key it starts with, the keys whose name occurs later
in it (strings are searched with `strstr`, anywhere), and its value as the
functions of each kind of key would read it. `process_arg` applies every key to
the line. A script line is a sequence of words, each with the command whose name
it starts with; `Recognised` takes the first command *in the order of the table*
whose name is anywhere in the line or in what earlier lines left in the
uninitialised `loline`, and `Params` cuts the parameters at the length of that
name from the start of the line. `GARBAGE` is what the uninitialised
`max_chunk_size` may hold in the modes that do not set it.

`ScpPayload` has one operator per payload function, with the code's own
arithmetic: `Body(lengths, size)` is the lengths it writes, outermost first, and
the number of bytes after the four of its header. `Protected` is what encryption
and signature make of it. `ran` keeps, for each line executed, the command, its
payload and what was sent of it.

### CaSign, SlaParser, BuildScp

A byte of an image is its value; a byte of a signature is its place, the
algorithm, the key and all that is signed, so that a signature verifies exactly
for what it was made of.
The header is built and parsed field by field, with the widths of both programs'
headers. A write may fail at once or in the middle (`Cuts`). `BuildScp` runs the
signer step by step inside `buildSCP-from-bin.sh`, then the steps of
`buildSCP_mod.sh` over the directories `output`, erased by each build, and
`tempFw`, which never is; a packet is the image it carries a part of. The parser
may be run on `sca` between two builds.

### ScpLink, SerialSender, ScpReplay, UsbDetect

The line is first-in first-out in both directions; packets in transit may be
lost or damaged, at most `MaxLost` of them, and an answer may stay in transit
for as long as it likes. The bootloader follows the conversation, repeats its
reply to a repeated connection request, ignores what is out of sequence, and
refuses a one-time value that it already holds. `SerialSender` has an action per
packet sent, received or rejected. A read that finds the buffer empty may always
time out, since time is not modelled; a packet cut by a timeout leaves its end,
`Junk`, to the next read, and `Junk` read as a header swallows any number of
packets behind it. `OutOfRange` is the vendored progress bar, wrapped around the
connection loop with a maximum of `first_retry_nb - 1`: its `ValueError` ends the
loop before the last request. A second bar counts the packets of the replay: a
`packet.list` may name the first packets of a session only (`listed`), and the
bar throws, once connected, for a list of five packets or fewer (`short_list`). The
code finds connection and disconnection by their place in the
list, so that in a cut list other packets are taken for the disconnection. Exit
statuses are those that the shell sees: 0,
1 (`RuntimeError` with `-w`, or an exception outside the `try`), 254, 255.

`UsbDetect` adds the udev thread: devices are plugged and unplugged at any time,
each event runs `device_event`, and the main program polls the global it writes.
A device that has the vendor or the product, not both, is taken for the chip
(`IsMaxim`, as the code's `and` of two inequalities has it); a device without
them kills the thread. The session is then replayed to whatever was found, and a
device that is not the bootloader may swallow, echo or garble packets. It does not
speak the protocol: another chip of the vendor that does is not covered.

### SendScp, Updater

`start` begins a run of the sender on a chip that has been reset. What the chip
holds (`loaded`) survives a reset. `Updater` is the three scripts: `Stages`
gives the stages of each upgrade type, `Tolerant` the two sessions whose status
1 is taken for "already loaded", and `Extracted` how many packets of its session
are in the directory of a stage: all, but any number of the first ones for the
package of `orcanfc-updater.sh`, whose extraction is not checked and whose list
is written anew of the packets found. When `cd` fails, which no script checks,
the packets are those of the directory that the script was started in (`stray`).
The programs for the second boot loader (`surisdk`) are binaries and modelled by
their outcome.

## 3. What is checked

Runs that pass:

| run | instance | properties |
|---|---|---|
| `session` | modes SCP_OFF_AES, SCP_FLORA_AES, SCP_ANGELA_ECDSA; signatures may fail; 3 lines, files of up to 2 packets, 1 packet file lost; 601018 states | `TypeOK`, `SentIsPrefix`, `ClosedIsComplete`, `IsConversation` (refinement of `ScpConversation`) |
| `session_hsm` | the seven modes, program with the HSM, failing signatures and extensions; 3 lines, 2 packets; 156295 states | `WritesFollowScript`, `PublishedIsWhole` |
| `write_s19` | 1 or 2 lines, 1 or 2 records adjacent, near or far; SCP_FLORA_RSA; 42453 states | `TypeOK`, `WritesAreImage`, `ErasureCoversWrites`, `ErasesItsFileOnly`, `PacketFits` |
| `maxq` | three libraries, 3 lines, 7 HEX files, 16 places of flash, parameters of 180 and 181 bytes; 875016 states | `TypeOK`, `AnnouncedIsSent`, `LoadFileIsImage`, `VerifyFollowsLoad`, `IsMaxqConversation` (refinement of `MaxqConversation`) |
| `config` | three builds, 2 lines of `.ini`, 2 arguments, 2 script lines; 1403656 states | `TypeOK`, `CommandLineWins`, `ReadyToSign`, `ChunkFitsMode`, `ReadsDoNotWrite`, `LengthsAnnounced` |
| `signed` | two binaries, six configurations, two keys, two builds with any command failing; 397467 states | `TypeOK`, `AcceptedIsSigned`, `SignedIsAccepted`, `CleanBuildDelivers` |
| `sender` | sessions of 0, 1 and 2 commands; `-f` 1 and 4, with and without `-w`; 2 packets lost or damaged; the bootloader, a lookalike and a device without identifiers; 85704 states | `DetectTypeOK`, `LockStep`, `SuccessIsBootloader`, `IsReplay` (refinement of `ScpReplay`), `Termination` |
| `sendscp` | 3 runs, default and given first tries, 1 loss, port that may not open; 15912 states | `ShellTypeOK`, `ExitZeroIsFlashed`, `NeverReplaysPart`, `ScriptEnds` |
| `updater` | the three scripts, every upgrade type; 1 loss; package extracted in part; packets or none where the script is started; 268332 states | `UpdatedIsFlashed`, `NoStageAfterFailure`, `UpdateEnds` |

What they show, in words: whatever fails in the generation, the packets written
are a prefix of a correct conversation, and, with `packet.list`, a whole one;
files reach the chip byte for byte, into memory that was erased; the checks made
on the configuration are those of the mode that is finally used; a line that
compares or reads is not taken for one that erases or writes, although commands
are recognised anywhere in a line, because the parameters are then cut in the
middle of a word (`help` with words behind it is the exception, see below); the
signer and the parser agree on every field before the signature; a replay that
returns 0 executed every command once, on the right device; the scripts end and
do not report success for a chip that did not execute all that the list they
played names. Whether this list is the whole of what was asked is another
matter: see the build below, and the package of `orcanfc-updater.sh`.

Runs whose counterexample shows the code and its documentation apart:

| run | property | what happens |
|---|---|---|
| `session_exit0` | `SuccessIsComplete` | a failed ECDSA signature calls `exit(0)`: the truncated session is reported built, and its list published |
| `write_s20` | `ErasureCoversWrites` | the first reading of an s20 file takes the high byte of a two-byte length, and the erasure is too short |
| `build_stale` | `PackageIsItsOwn` | `buildSCP_mod.sh` tests the status of `sleep 1` and never erases `tempFw`: the second of two builds, whose generator failed, reports success and delivers the packet list and the packets of the first |

### Met while modelling

Each of the following is in the model as the code has it; none has a run of its
own.

Generator and memory writer. `write_file` ignores that its erasure was not sent
(`session_build.c:4069`, against the comment at 4067), and the host then
acknowledges nothing. Outside SCP_FLORA_RSA the signature is not counted in the
packet size (4093, against the comment at 4063). `display_bin`'s result is
ignored, so a packet that could not be written is missing from `packet.list`
(with `MaxLost` 1 `PublishedIsWhole` fails). A file without S3 records is erased
from address -1 to the end of the line before; `erase-data` of a multiple of 16
bytes erases 16 more.

MAXQ1852. `process_script` ignores the result of the whole script (5841).
`read_hex` ignores segment addresses (type 02). The last byte of a file is not
sent when it is alone in its piece. Overlapping records are loaded with the first
value and verified with the last. With Maxim's HSM a request whose signature
failed is sent unsigned and still announces the signature. Addresses of 1 MiB and
more are written outside `dataloc` (files in the model stay below).

Configuration. A `.ini` line that is only a newline is an error, although
changelog 3.7.14 (#4186) says that empty lines are supported. String keys are
found anywhere in a line, so that a script called `app=1.txt` also sets `pp`. The
defaults set the bytes of `usn` and not its length, so that they are refused. An
unknown mode name changes nothing, silently. `max_chunk_size` is not initialised
in five modes. `write-only ... write-file.s19` runs write-file, and `write-only
verify-file.s19` only compares. `help` followed by words of which one holds
`write-file` and one in the right place is a file name, as `help aaaa x.s19
write-file`, runs write-file. The last line of a script loses its last
character when no newline ends it. `write-blpk` and `write-fak` take any text for a
key. `renew-crk` ignores a failure to read its first file (3867). An RSA public
key file is accepted for an ECDSA key, of which only the first 128 bytes are
read. Errors of the PKCS#11 library exit without closing the session, and with
SafeNet's a failed close turns a built session into a failure.

Payloads. With `pp=E_CMAC`, which `load_args` recommends for the AES modes (7092),
the padded size leaves out the four bytes of the header that is encrypted with the
rest: the last four bytes of each command are lost. `hello_reply` announces 50
bytes in SCP_FLORA_AES, where the 13 bytes of serial number are not filled up, and
46 in SBL whatever its length. The one-byte length of `write-bpk` and `write-otp`
wraps from 250 bytes. The responses to `read-configuration` and
`read-memory-mapping` carry no length; a comment asks whether they should (2201).
Changelog 2131 says that `pp=RSA` is forced in
SCP_FLORA_RSA; the code prints a warning (7075).

Signer, parser and build scripts. The parser reads `arguments_len` and does not
use it: an image with arguments is rejected. It cuts `raw.bin` behind a header of
the RSA length whatever the algorithm. The result of `write_signature` is
overwritten by that of `write_file`. With SafeNet's library an RSA signature is
made with a key that was never read. `buildSCP-from-bin.sh` ignores every status
from 92 on. A binary that begins with a header of its own and is signed without
one is accepted, and `raw.bin` is then what its own header says, not the binary:
`AcceptedIsSigned` speaks of `raw.bin` only for images that the signer put a
header before.

Player and scripts. `-f N` sends at most N - 1 connection requests
(`serial_sender.py:209`, against the help at 376). Status 1 means "already loaded"
to the updaters (`orcanfc-updater.sh:151`) and is also the status of a lost answer
in the middle of the key session and of a port that does not open.
`sendscp_mod.sh` exits with 11, "trying to write written value", when the port
cannot be opened, and with 9 or 10 when the chip refused a value but no number of
first tries was given. Without that number, which also passes `-w`, a session
whose first commands were executed and then refused is played again from its
start; with it, one is played again only when nothing or all of it was executed,
the latter when the answers that close it were lost (`NeverReplaysPart`).
`orcanfc-updater.sh` tests neither `tar` nor `unzip` (278-282) and writes
`packet.list` anew of whatever packets are there (120), so that the test for a
missing list behind it never fires: of a package cut after its sixth packet those
six are played, the last two are taken for the disconnection, and the update ends
with 0 without a command executed. `UpdatedIsFlashed` therefore promises the
commands that the list names, and the whole session only of a package that is
whole. With a directory that cannot be entered and packets in the current one, the
updaters play those and succeed; `UpdatedIsFlashed` allows for it. The udev
callback takes a device that matches the vendor or the product alone, counts
removals as arrivals, and ends its thread on a device that has neither property.

### Bounds

The transaction identifier wraps at `TR_MOD` = 3 (256 in the code) and the
sequence number at 16 as in the code; three lines of up to three exchanges take
both past their wrap. Two packets per file show the first and the last of a file;
two lines show what one leaves to the next. Records of 0, 1, 8, 12 and 17 bytes,
at distances that make them touch, leave a gap of one byte or a large one, cross
each boundary of the cutting loop with 8 bytes per packet (`chunk_size` 290 in
SCP_FLORA_RSA) and of the rounding to 16. The address space of 4096 is larger
than any file; wrapping of addresses is left to the assumption of the theorems.

`maxq`: sequence numbers modulo 4 (65536) wrap within one file; a memory of 16
places in two pages of 8 (`PAGE`, 64 KiB) cut into pieces of 4 holds files that
cross a piece, a page, that leave blank pieces between, that come back from the
second page to the first, and a last byte alone. Three commands stand for the
fourteen with one request: with no parameter, with one that may be cut, with one
that is copied whole or not at all. 180 and 181 are the numbers of parameter
bytes at which the announced length goes from one byte to two. The proofs are
for all.

`config`: two lines of `.ini` and two arguments are enough for a setting to be
given in both and twice in one, and for each order of a mode and of the setting
checked against it. The script lines are one correct line per command and those
whose words contain the name of another, cut at both ends; two lines are needed
for `loline`. `GARBAGE` is a value below and one above every chunk size. 498 and
500 hexadecimal digits are the longest data whose length fits one byte and the
shortest that does not.

`signed`: the two sessions have two and three packets (`PACKET` 40), the longer
one able to leave packets behind the shorter; `MaxBuilds` 2 is one build after
another. `Cuts` are nothing and part of a header. One binary is an image with a
header of its own, which a configuration without header signs as it is.

`sender`, `sendscp`, `updater`: two losses are what it takes to lose an answer to
a repeated request and another one later; one loss suffices in the compositions,
where runs are repeated. `-f` is 1 (no request at all), 2, 3 or 4, and
`SCP_FIRST_TRY` is 3 (100). The package of the updaters has a session of two
commands, cut after any of its packets: too few for the second bar, before or
between the commands, and in the disconnection. `DETECT_TICKS` 2 lets an event
come before, between and after two polls.

Caps (`MaxLines`, `MaxChunks`, `MaxLost`, `MaxIni`, `MaxArgs`, `MaxBuilds` and the
numbers of runs and ticks) are guards of actions, and there is no other.

### Fairness and deadlock

Only the host's program and scripts are weakly fair: `WF(SenderStep)` and
`WF(ShellStep)` or `WF(ScriptStep)` in the compositions, `WF(DetectStep \/
ReplayStep)` in `UsbDetect`. Each of their steps computes, sleeps, or reads with
a timeout (0.2 s for the connection reply, 5 s otherwise,
`BootloaderScp.py:311`). Nothing is assumed of the bootloader, of the line, of
the bus or of the thread, so that liveness means ending even if the chip is
silent for ever. In `Updater` the fairness of `ScriptStep` includes that the
programs for the second boot loader, binaries that the script waits for without
a timeout, come to an end. The generators, the signer and the build state no
liveness: they run over finite inputs without waiting. Deadlock is checked for
them (`Terminated`, `Exited`, `Finished`, `Done` are their final steps); the
sender and the scripts end, which is a deadlock to TLC, and `Termination`,
`ScriptEnds` and `UpdateEnds` cover being stuck.

Each property of a passing run has a mutant: a definition named `Mut...`, placed
before the one that it changes, under which TLC finds the property violated.
`next_tr` without its modulo, one chunk too many, a disconnection without its
sequence number, an ignored result too many, a missing reset of `start_addr`, a
length filled in before the sequence number was added, an extended address
forgotten, a key checked against the default mode, an output directory not
erased, the read without timeout, a refused value that `-w` does not report as
restricted, and so on.

## 4. What is proved

All theorems hold for every value of the constants, under the assumptions named.
`PROJECT.json` lists them with the properties that they state.

### The session generator: ScpSessionProofs

From `SessionAssumption`. Three definitions name what the code must not do for a
theorem to hold, each a thing that it does in some mode or build:
`NothingSwallowed` (no mode SBL, and no failure whose result a caller ignores),
`NoFalseSuccess` (no failed signature that ends the program by `exit(0)`), and
`NothingLost` (`NoFalseSuccess`, and every packet file can be created). Each is
satisfied by modes and builds of the code; the runs show what happens otherwise.

- `TypeCorrect`: `Spec => [](TypeOK /\ ChunksLeft)`. `TypeOK` alone is not
  inductive: `chunks' = chunks - 1` would leave its range if a file exchange could
  be under way with none left, which `ChunksLeft` excludes.
- `SessionIsConversation`: `Spec => IsConversation` under `NothingSwallowed`. The
  inductive invariant `EndsWith` says, for each value of `pc`, what the
  conversation ends in: the packet awaiting an acknowledgement (`Pending`) or the
  one just acknowledged (`Heard`), with `seq % 16` and `tr_id` equal to its
  counters. One step lemma per group of actions maps each action to one of
  `ScpConversation`, or to a stutter.
- `PublishedListIsWhole`: `[]PublishedIsWhole` under `NothingLost`.
  `PublishedIsWhole` speaks of the end; its inductive invariant `WholeInv` adds
  that every packet has its file (`AllFiles`), which packets are at either end of
  the session at each `pc` (`Ends`), and that only a session at its end is
  published (`Verdict`).
- `ClosedSessionIsComplete`: `[]ClosedIsComplete` under `NothingSwallowed`, from
  the refinement: what a conversation can end in is shown of `ScpConversation`
  (`Proper`) and carried over. With the preceding theorem it gives
  `PublishedListIsComplete`: a published list is a session in the sense of
  `Complete`, which is what the player assumes of its sessions.
- `RequestsFollowScript`: `[]SentIsPrefix` under `NothingSwallowed`, and
  `SuccessIsWhole`: `[]SuccessIsComplete` when there is `NoFalseSuccess` too. The
  run `session_exit0` is the counterexample without it. The invariant `ScriptInv`
  says that what was sent, followed by what the line under way still wants
  (`Remaining`), is what the lines read want.
- `WritesAreWhole`: `[]WritesFollowScript` under `NoFalseSuccess` alone, in every
  mode and whatever else fails. `WriteInv` is the same equation on the commands
  that are not `Unchecked`; `Kept` is a recursive function so that it can be
  unfolded in a proof.

### The memory writer: ScpWriteFileProofs

- `TypeCorrect`, `TypesHold`: types and the range of the indices (`i` is at most
  one past the last byte, and a chunk being collected is not empty).
- `PacketsCarryImage`: `WritesAreImage` for every file and chunk size.
- `PacketsFit`: `PacketFits` in SCP_FLORA_RSA, for `chunk_size` of at least 283,
  the size of a packet with one byte of data.
- `ErasureCovers`, `ErasureIsTight`: `ErasureCoversWrites` and `ErasesItsFileOnly`
  for s19 files with at least one record, sorted by address and disjoint
  (`GoodScripts`), below a limit under which `Relocate` adds a constant
  (`Translates`): an `address_offset` whose bits are above those of the image.
  Their invariant relates the first reading, `start_addr` and `end_addr`, to the
  bytes the second loads.

### The MAXQ1852 generator: MaxqSessionProofs

From `MaxqAssumption` (what a HEX file is, and that `dataloc` is a whole number of
pieces, as 1 MiB is for the sizes in use) and `FilesFit`: no byte of a file lies
beyond `dataloc`. The code does not check the latter; a file for which it is false
is written outside the array, which the model does not represent.

- `SessionIsMaxqConversation`: `Spec => IsMaxqConversation`, for every library,
  script, file and modulus. `TalkInv` ties `pc` to the last packet: a request
  whose answer is to come (`Asked`), or an answer whose request has the number
  before `seq` (`Answered`). Sequences of packets are typed by their own elements
  (`IsSequence`), so that nothing is assumed of what a packet carries.
- `LengthsAnnounced`: `[]AnnouncedIsSent`. The two bytes are computed before the
  signature is appended; that they hold the number of bytes behind the header of
  the finished packet follows from the lengths of the parts, for every number of
  bytes that a line of a script can give (`MAX_BYTES`).
- `TypeCorrect`, `VerifyMatchesLoad`, `LoadedIsImage`: `[]TypeOK`,
  `[]VerifyFollowsLoad`, `[]LoadFileIsImage`, all from `FileInv`. While a file is
  read (`Reading`) the buffer holds the bytes of the records read so far, by the
  definition of the format (`ImageTo`), the extended address is the base of the
  next record, and the last byte of the buffer is that of the last record that has
  one. While it is sent (`Loading`) `dataloc` is the memory the file describes, and
  the pieces sent are those of the places below `i`. For a finished line this makes
  the pieces a function of the file alone (`SentOf`), whichever of the two copies
  of the code sent them: `VerifyMatchesLoad` is then immediate, and
  `LoadedIsImage` follows from what `SentOf` is for a file in order
  (`RegularFile`, `MapIsImage`, `SentIsImage`), down to the one byte that the loop
  does not send.

### The configuration: SessionBuildProofs

Under `LinesAreValues`: a number in a configuration line is an integer, which is
what `atoi` returns.

- `BeginsReadyToSign` and `PacketsFitChip`: `[]ReadyToSign` and
  `[]ChunkFitsMode`, whatever the `.ini` file and the arguments. The invariant
  `Checked` adds that the configuration keeps its keys and an integer
  `chunk_size`; both properties are vacuous until `load_args` returns, which is
  the one step where they are established.
- `PayloadsAnnounceLengths`: `[]LengthsAnnounced`. `Measured` adds what the
  lengths depend on: a serial number of 0, 13 or 16 bytes, a `chunk_size` below
  15354, nothing executed before the script. Each payload is then shown to be a
  `Body` whose outer length is its size, for every length of its parameter.
- `TypeCorrect`: `[]TypeOK`, from `SettingsOK`; in particular the mode and the
  profile stay known ones, and no line runs more than one command.
- `LastArgumentWins`: `[]CommandLineWins`. `ArgsWin` says it from the moment an
  argument is read: the last one that names a mode (`Decides`) determines the mode
  as long as the configuration is not refused.
- `ReadingIsSafe`: `[]ReadsDoNotWrite`, for every script, whatever the words of a
  line are and whatever earlier lines left in `loline`; from `LinesAssumption`,
  which only gives the words their types. The line holds its own command, so the
  one executed comes no later in the table: of those that erase or write the
  memory, that leaves write-file to verify-file and to the two commands that read.
  Its parameters start 10 characters from the start of the line, inside the first
  word, which is longer: the first parameter is the end of that word and names no
  S-record file. A lone `help` has no parameters, and each of the three needs one.
  `ReadInv` adds that `loline` holds names of commands only.

### The player: SerialSenderProofs

From `SessionsAssumption` (the sessions are `Complete`, which
`PublishedListIsComplete` shows of what the generator publishes), `LinkAssumption`
(the number of losses is bounded by *some* number: the theorems hold for each) and
`DetectAssumption`.

`SenderInv` relates both ends of the line. A replay is in one of three situations:
`Unconnected` (the connection was requested any number of times, and nothing but
its replies is under way), `Following` (the host and the bootloader are where the
other is in the session, but for what is in flight: between the two positions only
one side has spoken, what the bootloader executed is what the session requested
up to its position, and each channel holds, in order, a part of what the
receiving side has not processed, after what is left of old packets), or
`GivenUp` (a command was refused, its response will not come). Losing, damaging,
repeating or delaying a packet keeps each of them. `DetectInv` adds what another
device than the bootloader may do (`Foreign`): it sees connection requests only,
and the run does not get past the connection.

- `TypeCorrect`: `[]DetectTypeOK`.
- `SuccessOnlyOfBootloader`: `[]SuccessIsBootloader`, against devices that do not
  speak the protocol.
- `OneCommandAhead`: `[]LockStep`; at most one request lies between the two
  positions of `Following`.
- `RunsAreReplays`: `DetectSpec => IsReplay`, the refinement of `ScpReplay`: each
  step is an `Execute`, an outcome, or a stutter.

### The scripts: SendScpProofs, UpdaterProofs

From the same assumptions and, of the scripts, `RetriesAssumption` (at least one
run, which is a constant of the script) and `UpdaterAssumption` (every stage has a
complete session, of which its directory holds the packets or the first ones).

- `SendScpProofs`: `TypeCorrect` (`[]ShellTypeOK`), `ZeroMeansFlashed`
  (`[]ExitZeroIsFlashed`) and `NoPartIsReplayed` (`NeverReplaysPart`). Its
  invariant is `SenderInv` of the run under way, that the list is whole
  (`listed = Len(session)`), what a run given up with `-w` has executed
  (`GivenUpOutside`) and, for each place of the script, what is known of the last
  run and of `status`.
- `UpdaterProofs`: `SuccessIsTheLastList` (`[]UpdatedIsFlashed`) and
  `NothingAfterFailure` (`NoStageAfterFailure`). `UpdateInv` says how many stages
  of the list are done, that of these the last one that plays a session ended
  well or was tolerated (`Behind`), and which lists a stage may play (`MayPlay`).
  That no list ends in a tolerated session is a
  lemma about the lists (`Plans`).

### The signer, the parser and the build: BuildScpProofs

From `CaSignAssumption` (bytes are bytes, lengths of signatures are not 0) and
`BuildAssumption` (a binary is a sequence of bytes, not longer than an `int`
counts).

The lemmas about images come first. Bytes of a signature stand only where the
signer put them, so a field that the parser takes for a signature lies in the one
of the image, begins where it begins, and was made with the parser's algorithm and
key: `AcceptedIsWhole` shows that for every image cut anywhere, so that a file
whose writing failed is never accepted. `HeaderCells` and `PayloadCells` follow
the bytes of the length through the concatenations of the header, and `NumberOf`
shows that the four bytes the signer writes of a number are read back as that
number below 2^31, and as one that is not larger in any case: an accepted image
with a header has therefore no arguments, and `raw.bin` of an RSA image is its
binary (`AcceptedIsBinary`). `WholeIsAccepted` is the other direction.

`BuildInv` is the inductive invariant. Of the signer (`SignerInv`): what `payload`
and `signature` are at each `pc`, that every image recorded in `signed` is one
(`WellSigned`), and that `sca` is one of those or the beginning of an image (`Cut`).
Of the scripts (`Clean`): while no command of the build has failed, `sca`, then
`scripts`, holds the image of the binary asked for, then `output`, then `archive`,
all its packets; `output` is empty before the generator runs, which is why packets
of an earlier build do not matter in it, and `packet.list` hides those that
`tempFw` keeps. That a run which signed nothing is not taken for one that wrote
its image needs the argument on signature bytes again (`WroteImage`).

- `TypeCorrect`: `[]TypeOK`.
- `AcceptedImagesAreSigned`: `[]AcceptedIsSigned`, and
  `SignedImagesAreAccepted`: `[]SignedIsAccepted`, for any file that the signer
  leaves in any state of the builds.
- `CleanBuildsDeliver`: `[]CleanBuildDelivers`.

### Only model-checked

Liveness (`Termination`, `ScriptEnds`, `UpdateEnds`): fairness and `ENABLED` are
out of the prover's reach. Every other property of a passing run is stated by a
theorem, some under the conditions named above. The properties of the three runs
that find a counterexample are false as the code is, and proved, where they are,
under the condition that excludes it.

The library's induction theorems take an operator as a parameter and cannot be
used either. Where a proof needs induction over an index, the set of the indices
without the property is taken, and its least element refuted (`LeastNatural`,
`IntervalInduction`, `Extremes`, from the theorems on well-founded relations);
recursive functions (`Kept`, `RequestsUpTo`) are unfolded by their definition.

## 5. Not modelled, and plan

Left out, with the reason:

- The bytes of packets, CRCs and the cryptography (UCL and PKCS#11 libraries,
  external); parsing of hexadecimal text, which is modelled by the lengths and
  addresses it yields; printing, the verbose mode and the display of the
  configuration; the responses with data (`read_configuration_response_payload`
  and its sibling); `aes_comp*`, which nothing calls.
- Configuration keys that are handled like one that is modelled
  (`transaction_id`, `addr_offset`, AES data and fabrication keys, HSM labels).
- `--bl-emulation` and `dump` packets of the sender (the generator writes none), a
  keyboard interrupt, reset pins.
- `sendscp.sh`: one call of `serial_sender`, a part of what `SendScp` models. The
  endurance loop of `test_usb_scp/` and the OTP dump firmware have no state that
  an interleaving could reach. The other build scripts move files.
- An extraction that leaves a package with a gap (in the model it stops after some
  packet) or a packet file itself cut; the archive of `sendscp_mod.sh`, whose `tar`
  (117) is not checked either and which is taken to be whole; the `cp`, `tar` and
  `rm` of `buildSCP_mod.sh` (113-124), which are one step that does not fail.
- Everything that is data or vendored. About 23000 lines of the repository's
  source are PN5180 firmware images kept as C arrays, 33000 are the UCL headers,
  and pyserial and progressbar are third-party. The maintained programs are about
  13000 lines, of which most are modelled; a share of *all* source lines of
  more than a fifth is out of reach.

Done: 1 generator, 2 memory writer, 3 player and link, 4 the flashing script and
the three updaters, 5 configuration and command recognition, 6 MAXQ1852, 7
signer, parser and build, 8 USB detection, 9 payload lengths, 10 the theorems
above. Left: the hazards that `PROJECT.json` lists without a property, each with
the reason, and the configuration keys named above.
