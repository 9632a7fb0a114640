# Formal verification of BCP

BCP is the flight software of a balloon-borne telescope. Two computers fly:
*Ophiuchus* (`src/Oph`), which points the telescope and drives the star camera and
the power boxes, and *Saggitarius* (`src/Sag`), which runs the receivers, the
spectrometer, the sensors and the heaters. `src/bvex-link` is a separate telemetry
program with its clients.

This directory holds TLA+ models of the parts of both programs in which threads,
processes, messages or long command sequences meet, configurations with which TLC
checks them on small instances, and theorems that TLAPS proves for every value of
the constants. A definition is named after the function or the variable it
stands for; `PROJECT.json` maps it to the lines it was read from.

Contents: [1 the system](#1-the-system), [2 the modules](#2-the-modules),
[3 what TLC checks](#3-what-tlc-checks), [4 what is proved](#4-what-is-proved),
[5 where code and documents disagree](#5-where-code-and-documents-disagree),
[6 not modelled](#6-what-is-not-modelled), [7 plan](#7-plan),
[8 how to run](#8-how-to-run).

## 1 The system

### 1.1 Ophiuchus

| component | state | operations | hard because |
|---|---|---|---|
| main thread: `main_Oph.c`, `cli_Oph.c` | one on/off flag per device, `cmd_count`, `exiting`, log files | start-up; a UDP loop that acknowledges a packet and then executes it; the shutdown sequence | it cannot read a relay, only toggle it; handlers end the program half way; the shutdown waits for other threads |
| power boxes: `pbob.c` | a table of relays (`toggle`, `state`), LabJack handles, `shutdown_pbob` | `set_toggle` (any thread), the polling thread, the UDP server thread | no lock; the hardware refuses writes; relays outlive the program |
| star camera downlink: `starcam_downlink.c` | `current_image`, `pending_image`, `transmission_state`, `bandwidth_tracker` | `notifyImageServer` (camera thread); requests, chunks and completion (server thread) | fields read and written outside the mutex, images freed and replaced while they are sent |
| motor thread: `ec_motor.c`, `motor_control.c` | `MotorData`, `axes_mode`, `scan_mode`, statics of the scans | read, scan, drive, 200 times a second | the main thread changes modes in the middle of an iteration; scans keep state over interruptions |
| star camera: `bvexcam.c`, `camera.c`, `lens_adapter.c`, `astrometry.c` | camera and blob parameters, statics with the image buffers, the file of a focus search | commands focus, expose, start and stop; one thread takes images, searches the focus and solves | both write the same parameters without a lock; a search spans many rounds; the lens adapter fails with the lens moved or not |
| housekeeping, lock pin, lazisusan, telemetry server, system monitor, receivers | a running flag and a last sample each | start, stop, sample, answer | stop while a sample is under way |

Interactions. Ground sends a command over UDP; the main thread is the only one to
execute it. The main thread toggles relays with `set_toggle`, starts and joins
threads, and writes `axes_mode` and `scan_mode`, which the motor thread reads and
writes too. Saggitarius sends toggle requests over UDP to the server thread of the
power boxes. The camera thread calls `notifyImageServer`. All else is read only.

### 1.2 Saggitarius

| component | state | operations | hard because |
|---|---|---|---|
| command thread: `main_Sag.c`, `cli_Sag.c` | running and powered flags, process ids | commands; exit | forks children and waits for them; toggles over the network with a reply that may be lost |
| heaters: `heaters.c` | `heaters[]` with `enabled`, `state`, `toggle`, temperatures; two threads' flags | calibration, the control loop, PV requests over UDP, commands | three threads write the array without a lock; relays outlive the program |
| position sensors: `position_sensors.c` | `script_pid`, three running flags, data files under a mutex | start, stop, a thread that keeps a script alive, a data thread | two threads wait for one child; threads are never joined |
| spectrometer: `spectrometer_server.c`, scripts | active type, shared memory with a ready word | start, stop, a UDP server with a rate limit | the server copies what another process may be writing |
| PR59 cooler: `PR59/tec_control_3.c`, `pr59_interface.c` | a process-shared mutex, pending PID updates | a separate process; commands through shared memory and signals | a kill at any step, also with the mutex held; a gain is in the memory, the device and a file |
| GPS: `gps.c` | flags, a log file that rotates, a socket, the last position and heading | start, stop, two logging threads, a UDP server | one thread rotates the file the other writes to; a stop waits for a thread that may wait for a datagram |
| telemetry server: `telemetry_server.c`, monitors | a datagram socket; samples and mutexes of other modules | answer, take messages of the recorder, end | modules are cleaned up while it may still answer |
| VLBI, RFSoC: `vlbi_client.c`, `rfsoc_client.c` and their daemons | one connection per command; a process, its stage and a thread per run | start, stop, status; a polling thread | the client times out while the daemon goes on |
| TICC: `ticc_client.c` | a serial line, a file that rotates, a line buffer, counts | start, stop, a logging thread | a rotation that fails |

### 1.3 Ground and bvex-link

`Sag/bvex_cmd` is the command line on the ground: it sends a packet and waits for a
counter in reply. `bvex-link/onboard-server` queues samples, cuts them into chunks
and sends them at a limited rate; the clients and codecs around it carry single
requests.

### 1.4 What makes each part correct

- Power boxes: one flip for one request, the record is the relay, everything off at the end.
- Main thread: flags and relays stay in step over all commands; exit ends and switches off.
- Downlink: no use of freed data, one image per transmission, transmissions end.
- Scans: the dither stays in its range, counts whole sweeps and ends; the on-off cycle is on one leg.
- Heaters: the coldest first, no request lost, cold heaters get heat, stop means off.
- Child processes: signals and waits concern the right child; a stop returns; threads end.
- Servers: an answer is whole and of the source that runs; no handle is used after its end.
- Cooler: a gain that was set is kept over kills; device, file and memory agree.
- Data of the sensors and the counter: what came is written, what did not is counted.
- Camera: a search has room for its rows, puts back what it changed and ends; a focus
  that is reported is where the lens is.

The hazards, each at its line with the properties aimed at it, are in `PROJECT.json`.

## 2 The modules

| module | models | uses |
|---|---|---|
| `RelayPower` | what power boxes promise: requests, flips, refusals, a shutdown | |
| `Pbob` | `pbob.c`: the polling thread, the UDP thread, callers of `set_toggle` | implements `RelayPower` |
| `OphPower` | commands and shutdown of `cli_Oph.c` and `main_Oph.c` | composed with `RelayPower` |
| `SagPower` | the commands of `cli_Sag.c` that switch a device, over `pbob_client.c` | composed with `RelayPower` |
| `FlightPower` | the power of the whole payload, both computers over the same boxes | `OphPower` and `SagPower` over one `RelayPower`; implements `SagPower` |
| `StarcamDownlink` | `starcam_downlink.c` | |
| `ScanControl` | scan commands against the iteration of the motor thread | |
| `Heaters` | `heaters.c` and the heater commands | |
| `SagChildren` | the script of the position sensors, the spectrometer and the PR59 controller as children of one process | |
| `Pr59Cooler` | `tec_control_3.c` and `pr59_interface.c`: the controller, its shared memory, the commands | |
| `SensorData` | `position_sensors.c` 334-834 and the program on the Pi: connection, packets, files | |
| `TiccClient` | `ticc_client.c`: the logging thread, its file, the commands | |
| `SagServices` | the devices the command thread starts and stops | `SagChildren`, `Pr59Cooler`, `SensorData`, `TiccClient` |
| `GpsServer` | `gps.c`: logging threads, file, UDP server | |
| `SpectrometerServer` | `spectrometer_server.c` and both spectrometer scripts | |
| `TelemetryServer` | `telemetry_server.c`, `system_monitor.c`, `aquila_status.c`, the end of `main_Sag.c` | |
| `RemoteControl` | `vlbi_client.c`, `rfsoc_client.c` and the daemons they talk to | |
| `RequestServers` | the programs that answer requests from the network | `Pbob` and the four above |
| `StarCamera` | `camera.c`, `bvexcam.c`, `lens_adapter.c`: the astrometry thread, the focus, the commands | |
| `StarCameras` | both halves of the star camera | `StarcamDownlink`, `StarCamera` |

`MC<Module>` instantiates a module for TLC; `<Module>Proofs` holds its theorems.
Throughout, a history variable is commented as such; it restricts nothing.

**RelayPower, Pbob, OphPower.** `Pbob` cuts `run_pbob_thread` at each store to the
relay table and each call of the LabJack library, because `set_toggle` may come
between any two. A write is `FlipRecord` (`state` is changed), then `WriteOk` or
`WriteError` (which reverts the record, with the relay possibly changed), then
`ClearToggle`. `hw` is the relay itself: it starts in any position, as relays keep
theirs over a restart. `ImplementsPower` maps a flip to the confirmed write and a
met request to that same moment. `OphPower` then needs only `RelayPower`: a command
is one action, since the only concurrent steps are flips, which commute with the rest
of it. Handlers that call `exit`, return early or crash are actions of their own (also the
housekeeping thread and the shutdown of its board, which write to the log without a look
whether it is open), and `missed` remembers relays for which a request was raised on top of another.

**SagPower, FlightPower.** A toggle of Saggitarius is a UDP request and a reply, and the
same request switches on and off. `message` is the one the command thread waits for;
when the wait ends without a reply, the request is gone, or is among `late` and still
comes, or it was served and the reply is what got lost. `Noted` is the flag of a device
(corrected by `uncounted`, the toggle `stop_heaters` makes without the flag), `Counted`
adds the request that the box has and the command thread has not heard of, and `Level`
is what the relay will be when its flip is made: `SagFlagsTellPower` says that the last
two agree. A device is `unsure` from the moment on at which one of the things happens
that break this in the code as it is: a request or reply lost or late, a flip that was
refused, a request on top of another or to a thread that has ended, a command repeated,
or a restart of either computer while the device is on. These are the exceptions the
property names; the code has no way to come out of them, as it never reads a relay.
What the boxes and Ophiuchus may do is one action each (`BoxesEnd`, `BoxesStart`, ...),
so `SagSpec` is an open specification: `FlightPower` puts `OphPower` in that place, and
the composition is a behaviour of `SagSpec`, which TLC checks and TLAPS proves. The
theorems about it therefore are about the flight system. The commands by name
(`rfsoc_on`, `start_timing_chain`, ...) are `PowerOn` and `PowerOff` of a device; the
heater box is the one that no command switches off.

**StarcamDownlink.** The server's critical sections are single steps; that of the
camera thread is split, since the server reads `current_image` and writes
`transmission_state` without the mutex. An image is an id, a time stamp in seconds
(several images may share one) and a size in chunks; `Tick` is the second of the
bandwidth counter. `torn` says that the chunks of the transmission were counted while the
camera thread was storing the image.

**ScanControl.** An angle is an integer, a unit what the telescope covers in an
iteration. The iteration is cut at the sample of the encoder, at the test of
`scanning`, at the scan and at the drive; a command may fall on each cut. `clean`
marks a dither that began at rest and had no command since. `session` is the set of
commands, targets and scans that one behaviour may use; nothing changes it. The drive moves or lags:
the PID loop is abstracted to that.

**Heaters.** The control thread is cut at each access to a field another thread
writes; the command thread and the UDP server write `state` and then `toggle` in two
steps. Temperatures come from a small set with `Invalid`; the current is what the
code reads, through a shunt and in mA. `Restart` is the end of the program by a
crash, by `exit` in `open_labjack` or by the command, and its next start: variables
are initialised, the relays and the file of the last settings stay. The bubble sort is
modelled by what it gives: the largest difference first, equal ones in their order.
`second` is a history variable: `start_heaters` made a thread while there was one.

**SagChildren.** A process is unused, running, a zombie, reaped or `stolen`, that is,
reaped by a `waitpid(-1)` meant for another child. The stop of the position sensors
is cut between each access to `script_pid` and each system call; the stop of a
service is cut at its polls. `early` marks a start that found the script or a thread
of an earlier start alive.

**RequestServers, SagServices, StarCameras.** The programs these put together share no
variable, so a behaviour of all is one of each. The state would be a product without a
question of its own: so in each behaviour one of them runs (`program`, `service`,
`half`) and the others rest in an initial state. What is said of several of them at once
(`AnswersAreWhole`, `ServersGoOn`, `DataKept`, ...) is the conjunction of what each
module states under a name of its own; the waits are joined to one leads-to property,
which for a behaviour of one program is the same as one property for each.

**GpsServer.** A log file is a number; `held` is the file the serial thread found
before it writes. `rotated` and `rotation_failed` are the exceptions that the code leaves
open: the rotation of one thread closes the file under the other, and one that fails
clears `logging`, after which `stop_gps` does nothing. A socket is named after the start
it belongs to. The stop waits for the server thread: the join with a time-out at
`gps.c:1013-1023` is compiled under `_GNU_SOURCE` only, which the build does not define,
so line 1026 is what runs, and the one-second time-out of the receive is what ends it.

**SpectrometerServer.** A spectrum is two words, written one at a time after `ready` is
cleared and before it is set; the server looks once and then copies. `spec_overlap` says
that the script wrote or the type changed in between. Of the words of a spectrum the
property speaks for the 120 kHz script; for the standard one see section 5. The rate limit counts per second
and client; `MaxClients` is the table of the server.

**TelemetryServer.** One kind of request for each way a datum is guarded: by a mutex that
`exit` destroys, by a mutex the sampling thread holds, by a flag, by nothing. Messages of
the recorder are a set, since they may be lost or pass each other. `main` is the stage of
the end of the program; `early` says that `exit` came before the threads had set the
flags by which it decides whether to join them.

**RemoteControl.** A connection belongs to one command: the client waits until its
time-out and then closes, while the handler thread of the daemon goes on. The check for a
running process and `Popen` are two steps. Each run has an output thread that sets the
stage, also when the next run has begun. A ping of the RFSoC is followed, when it is answered, by the
configuration of its oscillator over a connection of its own. `gave_up` names the case in
which an answer may be about something that has since changed, `vlbi_raced` two starts
that were both past the check for a running process before either had called `Popen`,
`vlbi_early` a run that began before the output thread or the start of the last one was done.
A start that is alone past the check is no exception: that it finds no run alive is what
`OneRecorder` says.

**Pr59Cooler.** The mutex is modelled as the futex it is: `pr59_interface_init` clears the
memory after it has initialised the mutex as shared between processes, so an unlock wakes
sleepers of its own process only. `sleeper`, `contended` and `forgotten` say who sleeps
and whom nobody will wake. The configuration file is truncated and then written.
`wanted` is the last command for each gain; `overtaken` a gain whose update another one
replaced in the memory, which holds one. What goes to the device is printed: a start sends
the gains with three decimals (`to_three_decimals`, which changes a gain of `Fine`), an
update with six, as the file has them. A write to the serial line may fail; the code goes
on as if it had not, and `unheard` names what the device was then told in vain
(`GainsKept` and `FanFollows` except it, by name). The override of the fan is applied in two
steps, `apply_fan_override` for the writes and `last_override_state` for the second look
at the shared memory; a command between the two is taken for applied, and also is `unheard`.

**SensorData.** Runs of the program on the Pi may overlap, since one that was told to
end may sit in `accept` and the port is shared. `SequenceMod` stands for 2^16. `missed`
counts what `packets_lost` should; the static of the sequence number survives
connections, so the count is right over a broken connection and wrong over a restart of
the program, which starts at 0: that is the exception `two_programs`.

**TiccClient.** A line may come in pieces and fill the buffer. The time of a rotation is
any; the next file opens or not.

**StarCamera.** A round of the astrometry thread is cut where it reads a parameter that a
command may write and at each call of the lens adapter, which moves the lens and tells
its position, or fails before, or after, with the reply lost. `lens` is where the lens
is, `focus_position` what the program believes. A search is `PhotosPerFocus` photos at
each position, a row of its file for each, and the best of them: the end of the range, a
position beyond it, none, or the -1 of an error. A command may ask for any of `Positions`,
also for one the lens does not have, where it stops at its end; `asked` is what the
command said, `reported` what it reported reached. `camera_closed` says that the camera
was closed because both moves at the begin of a search failed, and the memory of its
images freed, while the thread goes on.

## 3 What TLC checks

| run | shows | bounds, and why they are enough |
|---|---|---|
| `pbob` | the boxes: bounds of the loops; no flip without a request; the record is right; everything off at the end; every accepted request flips; implements `RelayPower`. The servers: answers are whole and true; files and mutexes live while they are used; requests are answered, commands return, threads end | boxes: two enabled with one relay each and a disabled one, so that one is visited while the other is asked for. GPS: two starts (the second meets the threads of the first), a file for each and one to rotate to. Spectrometer: two spectra, three type commands, two clients of a table of two. Telemetry: one kind of request at a time, two messages that can pass each other. A 120 kHz spectrum is whole. Recorder: three commands (a start, one that overtakes it, and a stop), two runs, two connections; the polling thread with one start, as it reads what the daemon does and changes nothing of it |
| `starcam` | no freed data is sent; one image, and all of it, per transmission; a pending image has a promoter; transmissions end; a focus search stays in its arrays, puts back the hot pixels and ends, and images go to and come from memory that is allocated, but in the two cases of section 5; a focus that is reported reached is where the lens is, the end of its range or, after `focus_inf`, infinity; a stop returns | three images (sent, pending, and one that replaces it), one or two chunks, a limit reached within one image. Camera: five positions of the lens, a range of three, two photos at each; two searches, two starts, up to three focus commands, to a position of the lens or one beyond either end, and one or two faults of the adapter (two, so that both moves of a search can fail), in five sessions |
| `flight_power` | the flags of both computers follow power; each exit switches off what it reached; the join on Ophiuchus returns; both exits end; the composition implements `SagSpec` | Ophiuchus alone with two or three devices at a time, which meet in pairs only, through `exit` and the boxes; Saggitarius alone with two of its devices, one of them the heater box, which has no off command, and alone with each device that has commands of its own; both with one device each. `oph_used`, `sag_used`: a computer without a device in the session gets no commands, a device in doubt no more, since nothing is said of it |
| `scan` | dithers: range, whole sweeps, end; the on-off cycle is on one leg; inductive invariant | four sessions, one chosen in the initial state: dithers in both directions up to three sweeps (a first, a middle and a last one); the on-off cycle with a moving target; a tracked dither; both tracked scans after each other |
| `heaters` | coldest first; PV requests are kept; stop means off | one control thread, so that `second` stays false and nothing is excused; two automatic heaters and the PV heater with a limit of one: the limit and the order both bite |
| `heaters_live` | cold heaters are heated, if the limit has room for them beside those that are on; stops end | the same, two temperatures, one relay that refuses |
| `sag_children` | ids belong to the right child; the stop knows its script; spectrum type follows the script; stops return; threads end; gains are kept over kills; what sensors and counter send is written or counted; readings, fan commands and data arrive | children: two processes and two starts, so that a stop has one child of its own and one of another; one poll stands for ten, since nothing happens between two. Cooler: two gains of two terms, one of them with more than three decimals, two runs of the controller, two fan commands (the second may fall between the two looks at the first), a write to the device that fails, readings, in five sessions. Sensors: four packets over a wrap of three and a broken connection, two starts, two runs on the Pi. Counter: two starts, three files, two lines, a buffer of two pieces |
| `oph_power_hang`, `scan_resume`, `heaters_off`, `sag_children_kill`, `sag_power_exit` | section 5 | one device or child each, as many as the disagreement needs |

Deadlock is checked in every run but `starcam`, where a camera that is stopped for the
last time has nothing left to do. Actions that stand for an ended program stutter; in
`pbob` and `sag_children` so does a program that waits for a client or a command, but
not the power boxes nor the child processes, whose deadlock is a real one.

*Fairness.* `Pbob`: both threads (a receive has a time-out). `StarcamDownlink`: both
threads and time; strong fairness of `SendChunk` only, as a non-blocking send may fail
any number of times but not for ever. `OphPower`: the shutdown, which needs nobody's
command, and each flip, which is what `RequestApplied` of `Pbob` gives it. `FlightPower`:
these, the end of the polling thread, and the exit of Saggitarius with its calls of
`pbob_send_command`, which a time-out ends; no message is promised to arrive. `ScanControl`:
the motor thread and time; strong fairness of the drive that moves, as a controller
that is asked for motion again and again gets it. `Heaters`: the threads and a command
that is under way; no requests, no restarts. `SagChildren`: threads and the command
under way, but nothing about the processes: a script may run for ever and ignore
SIGTERM, SIGKILL ends it. `GpsServer`, `TelemetryServer`, `TiccClient`, `StarCamera`:
the threads, a command under way and, for the GPS, time; no commands, no clients, no data.
`SpectrometerServer`: the server's loop, whose receive has a time-out, and time.
`RemoteControl`: time-outs, the handler threads and the polling thread; strong fairness
of a status that is answered, as a client that asks again and again over the same network
is answered again and again. `TelemetryServer` and `Pr59Cooler` have strong fairness
where a mutex is taken that is free again and again, or an override is looked at in each
fifth round. `Pr59Cooler` promises nothing of the end of the stabilisation, which the
device decides. `SensorData`: both ends of the connection, and the close of the files.

*Shape of the liveness properties.* Each names the outside events that release it from
its promise (another command, the end of the program, a limit reached, a refused
write); a counterexample is thus never just an environment that does nothing.

## 4 What is proved

For all values of the constants under the named assumptions of each module:

| module | theorems | inductive invariant |
|---|---|---|
| `RequestServersProofs` | boxes: `TypeCorrect`, `FlipsAreAskedFor`, `RecordsAreRight`, `ShutdownIsOff`, `Refinement` (implements `RelayPower`). All programs: `ServersInvariance`, `ServersTypeCorrect`, `HandlesAreLive`, `AnswersAreTrueAndWhole`; `BoxesAmongServers` | boxes: the relay being flipped exists and its flag is up; every other flag that is up stands for an unanswered request; relays a box has not yet written are suspect; before the loop and after it no relay is recorded as on. GPS: the open file is that of the log, and there is none when nothing is logged; unless a rotation failed, a serial thread that lives is the one a stop joins; one server lives at most, it is the one a stop joins, and the open socket is its own. Spectrometer: a script that writes is the one the memory names, `ready` is down meanwhile, and the words it has written are where it puts them; unless `spec_overlap`, what is ready, what is copied and what is served by the 120 kHz script is whole. Telemetry: the flags tell which threads live; unless `early`, the end passes the stop of a thread only when it has ended; mutexes and log live until then. Recorder: how far a handler is fits its command; unless `vlbi_raced`, one handler at most is past the check, it found no run alive, and all that is not over is the run the daemon holds; unless `vlbi_early` also, the stage tells whether it captures; what a success says is true |
| `StarCamerasProofs` | downlink: `TypeCorrect`, `BufferIsLive`, `NoMixedImages`, `PendingHasPromoter`. Camera: `CameraInvariance`, `SearchesAreSafe`, `FocusIsObeyed`. Both: `HalvesImplement`, `CamerasTypeCorrect`, `CamerasSafe` | downlink: the stamp of the transmission is that of the current image; the camera thread replaces only when nothing is active; chunks so far have one source; what was counted is the size of the current image unless `torn`. Camera: the position known is that of the lens, unless a reply was lost; where the thread may be with which flags of the search; photos count only while the file is open, rows are at most the positions counted; buffers that are freed are met only after another start, freed image memory only after `camera_closed`; the hot pixels are looked for before a search and restored after it |
| `OphPowerProofs` | `TypeCorrect`, `FlagsAreRight`, `ShutdownSwitchesOff` | `FlagsTellPower` with the stages: a device is on only until its stage of the shutdown |
| `SagPowerProofs` | `SagInvariant`, `SagFlagsAreRight`, `SagExitIsOff` | `SagFlagsTellPower` with what a call of `pbob_send_command` is about (a device that is not in doubt is switched on when it is noted as off, and the other way round) and what the power down has left to do |
| `FlightPowerProofs` | `FlightImplements`, `FlightFlagsAreRight`, `FlightExitIsOff`, `FlightInvariance`, `FlightFlagsOph`, `FlightShutdownOff` | those of the two modules above: a step of Ophiuchus is one of what `SagPower` allows its environment, and the requests of Saggitarius are what `OphPower` calls `RemoteToggles`; restarts are new |
| `ScanControlProofs` | `Invariance`, `DithersStay`, `WholeSweeps`, `OneLeg` | a clean dither is what the motor thread runs, its velocity is that of the sweep, and where the telescope can be follows from whether the sweep was seen inside the range |
| `HeatersProofs` | `TypeCorrect` (any number of control threads); `StoppedIsOff`, `PvIsFollowed`, `Invariance`, `RoundsAreOrdered`, `ColdestIsFirst` (till `start_heaters` makes a second thread) | till `second`, the thread that a stop joins is the only one; where the command thread, the server and it are in relation to `toggle`, `state` and the relay. Order: after the readings the heaters are sorted; what was switched on or kept off in this round is not less cold than what comes next; after a refusal the sum stays over the limit for every cold heater that follows |
| `SagServicesProofs` | `InvariantHolds`, `ServiceIsKept`, `TypeIsRight`, `StopKnows`; `ServicesInvariant`, `DataIsKept`, `GainsAreKept` for all services together | children: process ids are those of own children; a running service has an unreaped child unless a `waitpid(-1)` took it; and, for `StopKnows`, until a start is `early` there is at most one script thread, and while the sensors run it is one that knows every live script. Cooler: the file has the controller's gains, the device those or what three decimals leave of them, but while they are written or where the device was not heard; what is pending or fetched for a gain is its last command, or a later one is pending. Sensors: the packets in the buffer and on the wire are in the order of their numbers, after the last one processed and before the next one sent, while one program sends and one thread receives; the files of a receiving thread are open. Counter: the open file is `data_file`, and the thread has one unless a rotation failed |

The argument is the same everywhere: one lemma per action or group of actions that
the invariant survives, a lemma for the initial states, and PTL. Wherever the
invariant is more than the property, TLC checks it first (`IInv`, in a run or before
the proof was begun). The refinement proof maps each step of the polling thread to a
flip, a refusal, a request, the end or a stutter.

A step of `SagServices`, `RequestServers` or `StarCameras` is a step or a stutter of each
program in it, so the invariant of all is the conjunction of theirs, and each theorem
about one is one about all (`HalvesImplement`, `BoxesAmongServers`). The theorems about
the composition do not depend on the sessions and bounds a run chooses.

Three proofs need more than that:

- `DataIsKept` needs arithmetic. The gap that `Lost` computes from two remainders is
  congruent to the number of packets between them (`LostIsGap`, from `ModDef` and
  `ModAdd`), so the counters stay congruent packet by packet.
- `ColdestIsFirst` needs that the bubble sort gives an order at all: `CHOOSE` says
  nothing when there is none, and a sort is usually shown to end by induction. Here the
  order is written down. The place of a heater is one more than the number of heaters
  that come before it (colder, or as cold and listed first); places are different,
  hence, as there are finitely many heaters, every place is taken, and the inverse
  is the order (`PlacesOrder`, `PlacesAreTaken`, `SortSorts`).
- `TypeCorrect` of the heaters needs that `Total`, which is defined by recursion over the
  heaters, is a number for any number of them. The library's induction theorems
  cannot be instantiated; `LeastNumber` (a set of numbers that is not empty has a least
  member, from the well-foundedness of `<`) takes their place: were there a heater up
  to which no sum exists, there would be a first one (`SumsExist`, `TotalType`).

*One control thread.* The code lets a second control thread be started (section 5): a
`start_heaters` that comes before the first thread has set `heaters_running` makes one. With
two of them `ColdestFirst`, `PvFollows` and `OffWhenStopped` fail: TLC finds a
counterexample to each without `~second` and with `Thread = {t1, t2}`. The properties say so
themselves, by the history variable `second`, and the theorems need no hypothesis: they
hold for any set of threads, any number of starts and stops, one thread after the other,
until the very step that makes a second one. `Invariance` is an existential: of some
thread it holds that it is the one that a stop joins and that all others have ended.

*Assumptions.* Those at the head of the modules, which TLC evaluates on each run. They say
that counts and sizes are numbers, that sets of names do not overlap, that tables and
ranges are not empty; nothing is assumed of interleavings, of failures, or of how often
something happens.

*Model-checked only.* Every invariant and every action property that a passing run checks
is also a theorem. Liveness is not, since fairness and ENABLED are beyond the prover:
`ServersGoOn` (with `RequestApplied` of the boxes in it), `CamerasGoOn`, `DitherEnds`, `ColdHeated`, `StopEnds`,
`StopReturns`, `ServicesGoOn`, `JoinReturns`, `BothExitsEnd`. Nor are the violations.

## 5 Where code and documents disagree

Five runs expect a violation; TLC shows the steps.

1. `oph_power_hang`: with the housekeeping board on, `exit` never ends: its relay is not
   switched off (`main_Oph.c:387-398`), and the power box thread waits for all relays.
2. `scan_resume`: `encdither`, `gotoenc`, `encdither`: the second dither finds
   `firsttime = 0` and the axis in position mode, and stands still for ever.
3. `heaters_off`: the command that takes a heater out of the automatic control clears
   `state`, so the control loop takes it for off and its relay stays on.
4. `sag_children_kill`: the script's own thread reaps it during the stop and sets
   `script_pid` to -1; the stop polls, kills and waits for the process id -1.
5. `sag_power_exit`: `stop_heaters` switches the heater box off and leaves
   `heaters_powered_on_this_session` up; `exit` finds the flag, toggles the box once more
   and leaves it on.

Others were met while modelling. They are in the models, and no run is spent on them:

- The ground command line and the flight programs of this repository do not speak the same
  format: `send_packet` (`bvex_cmd/cli_ground.c:282`) writes ten fields, `decode_msg`
  (`cli_Oph.c:188`, `cli_Sag.c:175`) reads nine in another order and answers "Received
  corrupt string"; the notice at the head of the file asks for both to be kept in step. It also
  speaks of an uplink server between them, which is not in the repository. The
  models therefore begin at a decoded command. The acknowledgement of the link carries a
  counter that restarts with the program and stands for a packet received, not executed.
- A newer image may be replaced by an older one: `transmission_state` is cleared before
  `on_transmission_complete` promotes, and an image that arrives in between goes to
  `current_image` (`SMART_REPLACEMENT_DESIGN.md:33`, "Always Latest"). Checking
  `[][current'.valid /\ current.valid => current'.id >= current.id]_current` in
  `StarcamDownlink` shows it.
- `starcam_downlink.c:321` counts the chunks of a transmission after the mutex is released.
  When the camera thread is between the timestamp (209) and the size (214) just then, the
  number is that of the old image and the timestamp that of the new one (or the two images
  are of one second), so the transmission is not abandoned: it leaves out the end of the
  image, or goes on beyond it, where `chunk_size` at 415 wraps around. The protocol calls
  the field "Number of chunks to follow" (`STARCAM_DOWNLINK_PROTOCOL.md:77`).
  `OneImagePerTransmission` excepts it by `torn`; without that it does not hold.
- The header of a transmission may fail to be sent; the chunks follow all the same.
- The log of the housekeeping is closed by `housekeeping_off` and by the shutdown.
- A stop of a scan between the test of `scanning` and the scan is overwritten by it.
- The off position of `enconoff` is declared reached while the telescope is on target.
- The current limit of the heaters is not kept: each round starts its sum anew from
  readings of at most 20 mA, so heaters lit in other rounds hardly count.
  `HEATER_CLIENT_GUIDE.md:18` and `:136` call it "strictly enforced", and `:139` says "No command
  can exceed the 3A limit under any circumstances". `ColdHeated` therefore promises heat only where `HasRoom` says that
  the limit allows it, which both the guide and the code agree on; that the code also
  lights heaters beyond it, it neither demands nor forbids.
- `start_heaters` during the calibration starts a second control thread. The stop joins the
  last one only, and both sort and switch the same heaters.
- After "Could not start server" a stale `stop_heaters_server` stays set for the next start.
- Nothing is ever joined at `position_sensors.c:185`: the flags that guard the joins are
  cleared before. A script forked after the stop has looked survives it.
- `position_sensors.c:703`: when the rotation fails, the "current files" it means to go
  on with are closed, and each later packet opens them again and truncates them.
- `rfsoc_spec.py:98` says of its header that it "matches C structure exactly"; the data
  array of the C structure follows a `baseline` the script does not write, so the server
  reads the data one word late: the first point is lost and the last one is not of this
  spectrum. `StandardAsWritten` in `SpectrometerServer` states what the comment says and
  does not hold.
- `pr59_interface.c:61` clears the shared memory after the mutex in it was made
  `PTHREAD_PROCESS_SHARED`. A process that finds the mutex locked by the other may sleep
  until somebody of its own process unlocks it. `MutexIsShared` in `Pr59Cooler` states
  the contrary and does not hold.
- A controller killed with that mutex leaves it locked; the telemetry server of the flight
  program then waits for it for good.
- `stop_gps` after a rotation that failed does nothing, since `logging` is down already:
  the serial thread goes on and files stay open. A second start connects to gpsd never
  again, as only `gps_init` does.
- A heading is told with the age of the last position.
- `exit` clears `client_initialized` of the position sensors after it has destroyed the
  mutexes the flag guards.
- An output thread of a VLBI run that has ended sets the stage to "stopped" while the next
  run captures, and two starts that overlap leave a run nobody can stop.
- After a rotation that failed `ticc_client.c` counts measurements it does not write.
- When the move to the default position at the begin of a search fails twice, `camera.c:1272-1275`
  closes the camera, which frees the memory of its images (220-229), and the loop goes on to
  copy images from it (1375, 1383). `ImageBuffersLive` excepts it by `camera_closed`.
- `bvexcam_set_focus` takes any position (`cli_Oph.c:389-391`); the lens stops at its end
  (`lens_adapter.c:499-510`) and the command reports success for the position asked. After
  `focus_inf`, which is never taken back, each later focus command goes to infinity and
  reports success as well. `FocusObeyed` names both.
- A start of the cooler sends the gains with `%.3f` (`tec_control_3.c:517-524`), an update and
  the file have `%.6f` (640-661, 453-455): over a restart the device loses the decimals the
  file keeps. What `send_command` returns is not looked at (164-168), so a gain the device
  did not hear is told as set.
- `apply_fan_override` writes to the serial line (581, 585) and reads
  `fan_override_enable` once more to remember what it did (592): an override switched in
  between is taken for applied and is not.
- The housekeeping thread and the shutdown (`housekeeping.c:364-414, 495`) write to the log
  without a check: with the board on and the log not open, the program crashes there.
- `bvexcam_stop` during a round frees the image buffers, whose statics a later start uses
  as if they were allocated. A second `focus_bvexcam`
  during a search saves the hot pixel setting of the search as that of the user.
- `calculateOptimalFocus` returns -1000 when there is no optimum and -1 when its file
  cannot be read; `camera.c:1490` knows the first only and moves the lens to -1.

## 6 What is not modelled

- Numerical code: coordinates, matrices, blob finding, the fit of the focus, readings of the
  cooler, signal processing of the spectrometer scripts.
- Vendor libraries: EtherCAT, the camera, astrometry, LabJack (its calls succeed or fail).
- Threads that no command starts: the display and status threads of the GPS, `processClient`
  of the camera (commented out).
- Layout of packets and logs, display and banners, configuration parsing.
- Legacy copies that the build does not link (`server_Oph.c`, `UDPServer.c`, `PR59/pbob.c`).
- What section 7 plans.

## 7 Plan

Done: the modules of section 2. Next, in this order:

1. `SamplingThreads`: the sensor threads of `pos_sensor_tx.c` that fill the packets of
   `SensorData`, with their mutexes and the end of the program.
2. `Housekeeping`: sampling, rotation of the data file, stop; `LockPin`: the pulses.
3. `MotorStart`: the state machine of `ec_motor.c`.
4. `OnboardServer` of bvex-link: queue, chunks and rate.

To prove: the modules above, each with its invariant; the theorems about the heaters for
programs in which several control threads run, but one after the other; and an abstract transfer of images (one at a
time, its chunks in order, then done or dropped) that `StarcamDownlink` implements.

A run is a question, and several questions fit into one: small sessions are chosen
in the initial state, as `enabled` in `OphPower` and `session` in `SagChildren` and `ScanControl` do,
so that the runs stay few; and modules are composed, as `FlightPower` and `SagServices` do. A run of
`Heaters` that joins its two passing ones is too large.

## 8 How to run

    tlc -workers 2 -config MCPbob.cfg MCPbob     # one of the cfg files
    tlapm RequestServersProofs.tla               # one of the proof modules

The longest runs (`sag_children`, `flight_power`) take about three minutes on two cores.
