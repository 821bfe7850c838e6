# WiiPair in TLA+

A verification development kept beside the code of WiiPair, a program that connects Wii remotes to a PC
and shows them to games as virtual pads. It holds TLA+ modules translated from the Rust sources, TLC
configurations that check them on small instances, and theorems about them that TLAPS proves for every
value of the constants.

Run a check with `tlc -config <name>.cfg <MC module>.tla` (the table below says which goes with which), a
proof with `tlapm <module>.tla`.

## 1. The system

### Threads and channels

    UI thread  --Command-->           daemon worker  --writes-->          I/O thread of each open HID path
               <--UiEvent---          (lib.rs::run)  <--TransportEvent--  (hid.rs::io_loop)
                                        ^      |
                           ScannerEvent |      v scan_pause
                                      platform scanner  <--shared set, callback--> PIN helper

All channels are unbounded FIFO queues. The daemon's state belongs to its worker thread alone; what can go
wrong is therefore not a data race but the order in which messages meet state: an event keyed by a HID
path that has since been closed, opened again or given to another Wiimote; a command composed from a list
that is some frames old; a thread that outlives its handle; flags that gate each other; a reply of the
Wiimote that answers an earlier question.

### Components

| component | sources | state | operations | modelled in |
|---|---|---|---|---|
| daemon worker loop | `lib.rs`, `commands.rs`, `hid_scan.rs`, `transport.rs` | `DaemonCtx`: registry, scan window, memo of unpairings, `force_rescan`, `dirty`, `persist_dirty` | the six commands, scan and connect, reports, losses, retries, flush | `DaemonCore`, `RemoteLink`, `InputPipeline` |
| device registry | `state.rs` | one `DeviceRuntime` per canonical id | insert, rekey, remove, lookup by path, slots, `reset_session` | `DeviceRegistry` |
| HID sessions | `hid.rs` | handle map; per thread: write channel, idle counter | open, close, send, enumerate, `io_loop` | `HidSessions`, `HidTransport` |
| process and persistence | `lib.rs`, `persist.rs`, `helpers.rs` | `devices.json`, the list the UI has | save, load, quit, crash, restart | `DaemonProcess` |
| Bluetooth recovery, pairing watchdog | `scanner.rs`, `ticks.rs`, `commands.rs` | attempts under way, those announced as hung, memo of automatic unpairings | the scanner's events, `tick_pair_stuck`, cancel, forget | `PairingWatch`, `DaemonCore` |
| user-facing messages | `user_msg.rs`, `ui_log.rs` | de-duplication keys | emit, clear | `PairingWatch`, `UiFrame` |
| desktop UI | `apps/wiipair-ui` (`main.rs`, `dialogs.rs`, `device_card.rs`) | banners, dialogs, scan countdown | drain events, send commands | `UiFrame`, composed in `Recovery` |
| platform scanners | `platform/{linux_impl,linux_mgmt,windows_impl,mod}.rs` | seen and paired addresses, the attempt under way, PIN state, flags | inquiry, pairing, connecting, PIN reply | `ScanThread`, `LinuxScanner`, `WindowsScanner`, composed in `Scanners`; promise: `ScannerContract` |
| addresses | `platform/mod.rs`, `linux_mgmt.rs`, `helpers.rs` | none (pure) | MAC, `u64` and id of one another | `Addresses` |
| capability self-grant | `cap_self_grant.rs` | an environment marker | grant, re-exec | `CapSelfGrant` |
| extension handshake | `extension_fsm.rs` | `ext_phase`, the extension shown, the whammy baseline | `Status`, `Ack`, `ReadResponse` | `RemoteLink`, `InputPipeline` |
| periodic ticks | `ticks.rs` | keepalive and rumble deadlines | keepalive, rumble off, window end, pair-stuck | `RemoteLink`, `DaemonCore`, `PairingWatch` |
| wire codec | `report.rs`, `buttons.rs` | none (pure) | `parse_input`, `encode` | `WireCodec` |
| extension decoding | `extension.rs` | none (pure) | `from_id`, `parse` | `Extensions` |
| mapping and profiles | `mapping.rs`, `profile.rs`, `xbox.rs` | none (pure) | controller state to pad | `PadMapping` |
| output backends | `wiimote-output` | what each backend holds pressed | create, update, drop | `PadMapping`, `KeyboardOutput`, `InputPipeline` |
| widgets and icons | `device_widgets.rs`, `xbox_widget.rs`, ... | none | drawing | not modelled |

### What makes each component right

* **Slots**: never shared, held exactly while connected, never above the cap, whatever is lost or promoted.
* **Sessions**: every session is watched (a thread or its DeviceLost remains), no handle is leaked, a pending
  device does not wait for ever, a quiet one is lost, one that stays on is connected.
* **The user's decisions**: Disconnect is sticky; scans, re-keying and restarts keep profile and extension.
* **Flags**: `dirty` and `persist_dirty` say the truth about the list the UI has and the file; nothing stale stays.
* **Outputs**: a pad exists only for a connected Wiimote, in its present profile, or its creation is being retried.
* **Scanners**: on every platform an attempt is announced and ends in exactly one `Paired` or `PairFailed` of its address;
  the PIN is given for the program's own attempt only; the context handed to Windows outlives its callback; pause
  and quit are obeyed.
* **Pairing watchdog**: exactly the attempt under way is watched, a hung one reaches the user, a stale record is
  removed or the user is told.
* **Inputs**: what is decoded is what was held, on every extension; nothing held on the Wiimote means nothing held in the
  game; the whammy bar is monotonous whatever its calibration learns.
* **I/O threads**: they end when useless, post exactly one DeviceLost, and little after their handle is closed.
* **The Wiimote itself**: mode, LEDs, motor and extension agree with what the daemon believes, once what is on
  the wire has arrived.

`PROJECT.json` lists the hazards at the lines where they bite, with the properties aimed at each.

## 2. Modules

* `Identifiers` - devices (MACs), HID paths, canonical ids.
* `HidSessions` - the transport as the daemon relies on it: `node` (the OS's view), `handle` (the map of
  `HidTransport`), `io` (the threads of each path, and what they read), `events`. A closed handle leaves its
  thread running, so a path may have several threads.
* `HidTransport` - `hid.rs` in detail: each thread drains its write channel, finds it empty or disconnected,
  reads for 50 ms, and counts timeouts up to `IdleDeadline`. `ImplementsSessions` states that it implements
  `HidSessions`, with `io` mapped to `IoView`, which hides the position in the loop, the counter and the writes.
* `DeviceRegistry` - `DeviceRuntime` as a record, the registry as a function from known ids, slots, what the UI
  is shown and what the file holds. `LowestFreeSlot`, `IdsForPath` and `Hydrated` are the code's functions of
  these names or purposes; a lookup by path returns any match, as iteration over a `HashMap` does.
* `DaemonCore` - the worker thread, composed with `HidSessions`. `phase` is the position in one iteration of
  `run`: commands, scanner events, the scan, transport events until none is left, ticks, flush. Threads and the
  OS step between any two of its steps. A deadline is a Boolean (armed or not); where the code compares it with
  the clock, both outcomes are possible.
* `DaemonProperties` - the properties of the two, and the fairness they are checked under.
* `DaemonProcess` - the daemon in its process: what a flush sends and writes, quit, crash, restart.
* `RemoteLink` - one Wiimote and the daemon's side of its protocol: greeting, promotion, handshake, modes, LEDs,
  Identify, keepalive, over one write channel and one event channel, against a Wiimote that is switched on and
  off and whose extensions are swapped. `DaemonCore` has of this only the outcome, in its `ExtensionFsm`;
  `NewsIsSaved` is the part of that abstraction that matters to it.

Pairing and recovery:

* `Addresses` - a MAC as its bytes, most significant first; `WireFromMsb`, `AddressToU64`, `FormatAddr`, `MacToU64`. The number
  of bytes is not fixed: TLC uses two, the theorems hold for any.
* `ScannerContract` - what `platform/mod.rs` promises: one attempt at a time, announced, ended by one event that
  names its address. `ContractSpec` is the abstract specification of both scanners.
* `ScanThread` - what the two scan loops share: position, flags, the devices of a round, the channel, and the outside
  world (links that drop, bonds removed elsewhere, the daemon's flags).
* `LinuxScanner` - `linux_impl.rs` with the mgmt-socket helper of `linux_mgmt.rs`: rounds, the `seen` set, retries,
  pairing, connecting, the active set that the helper answers PIN requests from.
* `WindowsScanner` - `windows_impl.rs`: inquiry, stale bonds, the authentication callback with its heap context
  (active, poisoned, freed), `AuthenticateDeviceEx`, enabling HID.
* `CapSelfGrant` - whether the helper has a socket: capability, `setcap` and the single re-exec.
* `Scanners` - the scanner of each platform (macOS has none), its properties, and `KeepsContract`, the refinement.
* `PairingWatch` - the daemon's side: `handle_scanner_event`, `handle_bt_state_stuck`, `tick_pair_stuck`, the commands that touch
  pairing, and what each tells the UI; against any scanner that keeps the contract.
* `UiFrame` - one frame of the UI: drain of events, banners, the pairing-stuck and forget dialogs, commands sent.
* `Recovery` - the composition of the two, with a user who clicks whatever the UI offers.

Inputs:

* `WireCodec` - `parse_input` with its length checks and bit fields, and `OutputReport::encode`, on bytes.
* `Extensions` - `ExtensionType::from_id` and the four layouts; `PadMapping` - dead zones, `resolve_pad`, each profile's map
  to the pad, the ranges of each backend; `KeyboardOutput` - the key state of the macOS backend.
* `WiimoteFirmware` - the other end of the wire, external: how a Wiimote lays out what is held and moved.
* `InputPipeline` - one session from the bytes to the pad or keys of the platform, through the handshake, the whammy calibration,
  changes of profile and of extension, and the end of the session.

`MCDaemon`, `MCProcess`, `MCTransport`, `MCRemote`, `MCScanners`, `MCRecovery`, `MCInputs` hold constants for TLC;
`DaemonProofs`, `ProcessProofs`, `TransportProofs`, `ScannerProofs`, `RecoveryProofs`, `RemoteProofs`, `MappingProofs` and
`PipelineProofs` theorems. `LinkTypeOK` of `RemoteLink` and `ProcessTypeOK` are proved rather than run.

Definitions marked as mutants are wrong versions of the operator below them; they are used by no specification,
and exist so that each property can be seen to fail.

## 3. Runs

| run | module | instance | what it shows |
|---|---|---|---|
| `daemon_slots` | `MCDaemon` | 2 Wiimotes, 1 slot, Connect and Disconnect, 2 threads per path | slots exclusive and held iff connected, Disconnect sticky, sessions watched, handles owned |
| `daemon_liveness` | `MCDaemon` | 1 Wiimote, every command, Bluetooth recovery, 2 threads | pending is resolved, a quiet device is lost, one that stays on is connected again and again |
| `daemon_process` | `MCProcess` | 1 Wiimote, every command, recovery, an extension, restarts at any step | pads right or retried, memo only in its window, the flags true, stale files flushed |
| `daemon_paths` | `MCProcess` | 1 Wiimote, 2 paths, files of old and new versions | a scan re-binds and migrates without losing settings, and marks the file stale |
| `hid_transport` | `MCTransport` | 1 path, 2 threads, deadline 3 | refinement of `HidSessions`, at most one late report, useless threads end |
| `remote_link` | `MCRemote` | 2 extensions, 2 slots | mode re-affirmed, identity right, inputs decoded with the right layout, LED of the slot, motor stopped, identification in the end |
| `scanners` | `MCScanners` | 3 platforms, 2 Wiimotes whose addresses are each other's reverse | contract kept, PIN for the own attempt only and given, callback context alive, flags obeyed |
| `recovery` | `MCRecovery` | 1 Wiimote, any contract-keeping scanner, the UI and its user | watchdog exact, hung pair announced, stale record recovered |
| `inputs` | `MCInputs` | 4 extensions, 3 platforms, 3 profiles | decoded is sent, rest is neutral, whammy follows the bar |
| `finding_recycled_path`, `finding_rebound_session` | `MCDaemon` | 2 Wiimotes; 1 Wiimote and 2 paths | disagreements 1 and 2 of section 6 |
| `finding_forget_address` | `MCRecovery` | as `recovery` | disagreement 3 |

### Bounds, and why they are enough

* `MaxThreads = 2` gives a session and the leftover of the one before it, the case every session property is
  about. A third thread would need a path to be closed and opened twice within the 50 ms read of the first.
* `MaxQueue = 1` delays a thread's event until the one before was handled. Because the threads that wait to post
  are chosen in any order, every order of handling that a longer queue allows between threads is still
  explored; the delay between posting and handling appears as a delay of posting. `HidTransport` is checked
  with 2. (The theorems hold for every value.)
* One slot for two Wiimotes is the cap in its smallest form: the refusal, the release and the reuse of a slot all
  occur. Two Wiimotes are the fewest that can collide.
* `IdleDeadline = 3` stands for 40: below it, at it and a reset in between.
* `MaxPipe = 3` limits when a *new* message is started (keepalive, Identify, plugging, input); answers are never
  held back, so up to six messages are under way. The safety properties were also checked at 4.
* `daemon_slots` is symmetric under exchanging the Wiimotes together with their paths; the liveness runs use no
  symmetry.
* The scans of `daemon_liveness` and `daemon_slots` see Wiimotes that keep their paths (`OwnPath`). With paths that
  change owner, two of the properties are false in the code (section 6), so `daemon_paths` uses one Wiimote and
  two paths for what does hold.

* In `scanners` the addresses `<<1, 2>>` and `<<2, 1>>` make any mistake of byte order hit the other Wiimote. `MaxQueue = 1` holds
  the scanner at its next send until the daemon has received, which delays events as a longer queue does. `Foreign`,
  addresses that other programs pair, is empty in the run, because the kernel may already ask for the PIN of
  the Wiimote that is not the scanner's own; the theorems hold for any `Foreign`.
* In `recovery` one Wiimote suffices, since an attempt excludes all others by the contract and the sets of the daemon are
  per address. `MaxUi = 2` lets a banner be cleared behind another message; `MaxCommands = 1` makes a command cross with
  everything the daemon says meanwhile. `Banners` are the two dialogs and banners of pairing.
* In `inputs` the held buttons and readings lie at both ends of the bytes, inside and outside the dead zones and past
  the range; the whammy bar has a rest position above 0, a middle and its end, the fewest by which a lower rest can be
  learned. One report is handled before the next is sent; crossings are the subject of `remote_link`.

### Fairness and timing

* The loop turns (`WF` of `LoopStep`): `run` never blocks. I/O threads run (`SF`, because a step that appends to a
  queue the model bounds is disabled again and again; the code's queue never refuses). Users, the scanner,
  Wiimotes and the OS have no fairness.
* A thread whose link is alive reads a report or runs into its idle deadline; one whose handle is closed or whose
  link is gone returns.
* `OutsideWorldHelps`, a premise of `AutoConnects` only: scans are eventually allowed and complete, and a Wiimote that
  is read from eventually sends something. `RetriesAreUnhurried`: a path is tried again only after the thread of
  the closed handle returned and its DeviceLost was handled. The code arms retries 800 ms or 5 s ahead, the thread
  leaves its read within 50 ms and the loop turns every 10 ms. Without it, the late DeviceLost of one session can
  end the next one for ever. `RemoteLink` makes the same assumption, as the guard of `Open`.
* `ScannersFairSpec`: the scan loop, the PIN helper, the system's callback and the daemon's receive run (`WF`), and connecting
  returns. That a pairing call returns is never assumed: `AuthenticateDeviceEx` and BlueZ's `Pair` may hang, which is why
  the watchdog exists, and `ObeysItsFlags` and `PinIsAnswered` say what holds then.
* `RecoveryFairSpec`: the daemon handles events and commands and the UI drains its channel (`WF`: the loop and the frames
  turn). `TickPairStuck` and the scanner's report of a stale record have `SF`, because a full queue of the model, where
  the code's never is, disables them again and again. Attempts, users and windows have no fairness.
* `DrainsKeepUp`, a premise of `UselessThreadsEnd`: the write channel is empty again and again. The inner loop of
  `io_loop` does not bound what it drains; the daemon writes some ten payloads a second.

## 4. What is proved

`DaemonProofs` begins with lemmas on the registry: typing of its operators, that the lowest free slot is free and
that removing or resetting an entry frees no one else's slot. It proves, for every number of Wiimotes, paths, slots, profiles, threads and queue places,
`Spec => []IInv` (`Inductive`) and from it `TypeCorrect`, `SlotsStayExclusive`, `SlotsFollowConnections`,
`PadsStayRight` and `DisconnectIsSticky`; `MemosStayInWindow` and `StaleDisksAreFlushed` likewise. `IInv` joins
typing with the soundness of each entry and slot exclusivity, because neither is inductive alone: that a new slot is
exclusive needs slots to be typed, that a disabled device is not pending needs the candidate sets of the scan
to be those of sound entries, and a pad is right only if an entry without one that is connected is known to have
its retry armed. The preservation proof has one lemma per handler and one step per conjunct a handler disturbs.

`TransportProofs` proves `TransportTypes`; `LateReportsAreBounded`, whose invariant says that a thread whose handle
is closed and that has posted its late report is not in its read any more, while one whose handle is open has
posted none; and `TransportImplementsSessions`: initial states map to initial states, draining, timeouts and
unparsed reports to stuttering, a report to `IoReport`, every way out to `IoEnd`. So the daemon's modules may rest
on `HidSessions` alone.

`DaemonProofs` also proves `ScansLoseNothing`. It needs `OneNodeEach`, that the OS shows a Wiimote at one path at a time:
otherwise an entry could move to the MAC that shows at its path while another moves to the same MAC.

Its last section is about sessions. `HandlesAreWatched` needs no assumption: a handle is opened together with its
thread, and a thread ends by queueing a DeviceLost, whose handling closes the handle. That every *entry* with a session is
watched too (`SessionsStayWatched`) is false in general, which findings 1 and 2 of section 6 show: two entries on one path share
one DeviceLost, and an entry that a scan moves to another path leaves its session behind. It holds under
`SteadyPaths` - every Wiimote has one path of its own, and the file agrees - an assumption that the instances of
`daemon_slots` and `daemon_liveness` satisfy (`OwnPathsAreSteady` of `MCDaemon` has TLC evaluate it). `SessionsInv`
joins four facts: every handle is watched, every node lies at its Wiimote's home, every entry is filed at a path it may have
and no two at the same one (`Placed`), and every path of an entry with a session is watched. The effect
of each of the worker's steps on handles, live paths and events is one of a few (`Effect`), so preservation is
argued once per effect instead of once per step. `HandlesStayOwned` (an open handle belongs to an entry
with a session, or its DeviceLost is under way) needs also `BtRecovery = FALSE`: `handle_bt_state_stuck` removes an
entry that may be connected and leaves its handle open until the thread ends.

`ProcessProofs` extends the daemon's invariant over quit, crash and restart. `ProcessInv` joins `IInv` with
`UiStaleIsFlagged`: the lists and the file are typed, a restart begins from a state the daemon's invariant describes, and
every step that changes what the UI would be shown sets `dirty`. From it `ProcessTypes`, `UiIsNeverStale` and
`RestartsAreSafe` (pads are right in every life of the process). `DiskIsNeverStale` holds when saves do not fail
(`SaveMayFail = FALSE`), its one assumption: `persist_dirty` is cleared whether or not the save succeeded.

`ScannerProofs` proves, for any set of addresses of any length, `PinSetStaysOwn`, `ContextOutlivesCallback` and `ScannersKeepContract`,
that every step of either scanner is a step of `ScannerContract` or a stutter. `ScannersInv` adds that a scanner that is in an
attempt has an address (`HandlesSomebody`), and that a running callback means its hook is registered, which means
its context is active (`HookIsHeld`).

`RecoveryProofs` proves `WatchIsExact`. While events are under way the daemon's set lags behind the scanner, so the
invariant `WatchInv` speaks of what the daemon *will* watch once it has received the rest of the channel
(`WillWatch`): exactly the attempt under way. Each send moves both sides at once, each receive leaves `WillWatch` as it is.

`RemoteProofs` proves all of the safety of `RemoteLink`, for any slots, extensions and bound on what is under way. What the daemon
believes lags behind the Wiimote by what is on the wire, so none of the properties is inductive. Each invariant says
instead what will hold once the queues are drained:

* `LinkShape` - a thread that returned has written its DeviceLost last, and only a reset session has none; everything
  below is about a session that is still served.
* `MotorInv` - the motor, or the last write under way, rumbles only while `rumble_off_at` is armed. Every output report
  carries the bit, so the last write decides whatever it is (`MotorHolds`).
* `LedsInv`, `ModeInv` - the last write of the kind that is under way, or else the Wiimote, has the slot's LEDs, the mode
  the phase wants; for the mode, unless a Status is asked for or announced, which will set it again (`LedsHold`, `ModeHolds`).
* `IdentityInv` - for each place in the report queue, what the reports before it will make of the handshake fits the extension
  that was plugged in when the report at that place was sent (`Fits`), and an initialisation that is acknowledged, or will be, has
  initialised the extension that is in (`Acked`). An unplugging in between breaks the chain and resets the handshake. From
  it `IdentityHolds`, and `DecodingHolds`: no input is parsed with the layout of another extension.

`NewsIsSavedHolds` is the one fact about the handshake on which `DaemonCore` rests.

`PipelineProofs` proves every property of `InputPipeline`, for every extension, reading, set of buttons, profile and platform,
where the run samples a few. Two invariants carry it:

* `FlightInv` - what the daemon knows while a report is under way. For each of the five kinds of report it says what the report
  parses to, which phase of the handshake and which mode of the Wiimote it finds, and that the controller shows everything said
  before it (`StatusSent`, `AckSent`, `IdSent`, `AccelSent`, `ExtSent`); between two reports, that the handshake is over and
  the controller shows all that was said (`UpToDate`); before an identifier, that no extension is told or shown (`Unknowing`); and
  that a closed session keeps nothing (`Fresh`). `UpToDate`, from which `DecodedHolds` follows, is not inductive alone: an
  answer of the handshake is handled right only in the phase that asked for it. `WhammyHolds` follows from how `FlightInv` lets
  the controller change, and from arithmetic: a lower rest position is learnt only by a reading that is itself the lowest.
* `OutputInv` - a device without an Output is idle; with one, it shows the frame or the keys of the present controller, or its
  last update failed, or there was none yet. A pad that is late may show any older frame, so that what every frame keeps to
  (axes in range, keys that uinput declared) is part of it (`Fits`). From the two, `PipelineTypesHold` and `RestHolds`.

They rest on the codec's half of `MappingProofs`: every payload the daemon encodes is the one a Wiimote obeys, and every report
a Wiimote packs is parsed back (`ExtReportParsed`), bit by bit from the layouts of `WireCodec` and `Extensions`.
The bytes are those of `WiimoteFirmware`, which is external, so this says that the two ends agree, not that a Wiimote is so.

`MappingProofs` is also about the pure functions after the codec: sticks and tilt stay in 16 bits and grow with the reading (`AxesFitAndGrow`,
`SticksFitAndGrow`), the whammy calibration stays in 0..31 for every baseline and the axis in its range
(`CalibrationStaysInRange`, `WhammyFits`), a uinput device shows the last frame (`UinputShowsFrame`), the two ways of
naming a MAC agree (`IdsAreCanonical`), and what Forget unpairs is the address read backwards (`ForgetReadsBackwards`,
disagreement 3).

Assumptions are the named `ASSUME`s of the modules: constants have their types, device names and paths are disjoint
from each other and from `None` (`DistinctNames`, `NumbersAreNotNone`, `WindowsConstants`, `NoneIsNothing`). `PipelineConstants`
says that the owner moves the Wiimote within the range of its sensors and plays what an extension can send.

Only model-checked: liveness and fairness (`PendingIsResolved`, `QuietDeviceIsLost`, `AutoConnects`, `UselessThreadsEnd`,
`ExtensionIsIdentified`, `PinIsAnswered`, `ObeysItsFlags`, `HungPairIsAnnounced`, `StaleIsRecovered`), which are out of the
prover's reach. Every safety property of a passing run is also a theorem; of those, `SessionIsWatched` and `HandlesAreOwned`
under `SteadyPaths` and, the second, without recovery, `ScansKeepSettings` under `OneNodeEach`, and `DiskStaleIsFlagged` for
saves that succeed.

Proving showed two faults of the models, which were put right: the guards of two cases of `AfterReport` overlapped, where the
code's `else` excludes the first and TLA+ leaves the choice open (TLC takes the first); and the held bits of a report were
packed by a fold over a set, about which nothing could be proved, and are now a sum over the bits of a byte.

## 5. Abstractions

* Time, as said above; log lines, wording and battery. `Discovered` and `Error` of a scanner are only logged, so the models
  do not send them. The `slot_cap` banner and messages outside pairing and recovery are left out.
* BlueZ, the kernel's mgmt interface and the Windows Bluetooth stack: external; they answer, refuse or hang in any order.
  The D-Bus agent of Linux, which only delays a request by 30 s and rejects it, is left out.
* The parsing of `devices.json`; what follows from a file, whole or in the older format without MACs, is modelled.
* A stick that is derived from tilt before the first accelerometer report of a session sees (0, 0, 0), the default of
  `ControllerState` (`transport.rs:97`), which is a tilt; `RestIsNeutral` speaks of the sticks once a reading is known.
* Widgets, layout and icons: functions of the list the daemon sends to painter calls, with no state of their own that
  the program depends on.
* `hidapi` and the OS: nodes appear and vanish; opening needs a node and may fail nevertheless; a link may die
  without its node vanishing.
* The Wiimote: what the code says of it. A Status resets its mode and is sent when an extension comes or goes
  (`extension_fsm.rs:77`), and one bit of every output report switches the motor (`report.rs:229`). Its
  registers fail only while nothing is plugged in. How it lays out its bits is written independently in
  `WiimoteFirmware`, from the report layouts in the comments and tests of `wiimote-core`.
* The virtual pad: creating one succeeds or fails.
* A save is one step, since `persist.rs` writes a temporary file and renames it. `SaveMayFail` lets a save fail
  silently, as the code does; no run sets it, because no document promises anything then.
* The end of the process discards threads and events together. That `shutdown` turns LEDs off is not modelled.

## 6. Disagreements found

1. `finding_recycled_path` - `id_for_path` (`state.rs:238`) finds offline entries by the last path they had, so a
   recycled path credits one Wiimote with another's report.
2. `finding_rebound_session` - an enumeration re-binds a connected entry to another path (`hid_scan.rs:105`) and
   leaves its session on the old one, whose DeviceLost then meets no entry.
3. `finding_forget_address` - Forget turns the id into a number with `mac_to_u64`, whose byte order is the reverse of
   `format_addr`'s (`commands.rs:214`), so the OS is asked to unpair another address.

Each is a run that TLC finds violated; `PROJECT.json` quotes the sentence that the code contradicts. Three more were seen
while modelling and have no run: Connect on a connected Wiimote makes it pending again (`hid_scan.rs:178`); the loop
returns on quit before its flush (`lib.rs:377`), so a last Forget is not written; the keepalive clears the rumble bit
(`report.rs:256`, `ticks.rs:28`) and ends an Identify pulse within some 200 ms instead of 600.

## 7. Plan

Done: the core (`DaemonCore` over `HidSessions`), its process, the detailed transport, the link to the Wiimote, the
scanners and their contract, pairing watchdog and UI, the input pipeline, and the proofs of section 4. Still to do:

1. The file: entries that do not parse, files without a path, saves that fail, the `slot_cap` banner.
2. That `DaemonCore` is a user of `HidSessions` as `SessionSpec` describes it.
3. Two Wiimotes in `recovery`, with a bound on the events of the scanner.
