---------------------------- MODULE InputPipeline -----------------------------
(***************************************************************************)
(* What one Wiimote's input becomes: the reports, byte by byte, through    *)
(* parse_input, process_extension_fsm and handle_report to the Output of   *)
(* the platform, with the commands and ticks that replace that Output.     *)
(* A Wiimote answers a payload at once here: RemoteLink has the reports    *)
(* and payloads that cross on the wire.                                    *)
(***************************************************************************)
EXTENDS WiimoteFirmware, PadMapping, KeyboardOutput

CONSTANTS
  None,
  Systems,     \* a subset of {"windows", "linux", "macos"}
  Chosen,      \* the mapping profiles the user chooses
  Pluggable,   \* the extensions the owner has
  Holds,       \* sets of buttons of the Wiimote
  Motions,     \* readings of its accelerometer
  Plays(_)     \* states of an extension

ASSUME PipelineConstants ==
  /\ Systems \subseteq {"windows", "linux", "macos"}
  /\ Chosen \subseteq Profiles
  /\ Pluggable \subseteq DOMAIN ExtensionId
  /\ Holds \subseteq SUBSET Buttons
  /\ Motions \subseteq Readings
  /\ \A x \in Pluggable \cup {"None"} : Plays(x) \subseteq States(x)

Outputs == [profile : Profiles, pressed : SUBSET KeyCodes, late : BOOLEAN]

ASSUME NoneIsNothing ==
  /\ None \notin Nat /\ None \notin Readings /\ None \notin Outputs
  /\ None \notin DOMAIN ExtensionId \cup {"InitSent", "ReadingId", "Unknown"}

VARIABLES
  os,
  link,     \* "down", "up", or "closing" once the daemon has closed it
  runtime,  \* DeviceRuntime: the session, the handshake and the controller
  output,   \* Option<Box<dyn Output>>; late: its last update failed
  device,   \* the virtual device or the keyboard as games see it
  report,   \* the report the daemon has not handled yet, or <<>>
  wiimote,
  told      \* what the daemon was told in this session: accel, ext,
            \* and the ext before that

pipelineVars == <<os, link, runtime, output, device, report, wiimote, told>>

Phases == DOMAIN ExtensionId \cup {None, "InitSent", "ReadingId", "Unknown"}
AxisRange == (-I16Max)..I16Max

(* Every variable has its type; no axis leaves the range uinput declares   *)
(* and no whammy reading that of five bits.                                *)
PipelineTypeOK ==
  /\ os \in Systems
  /\ link \in {"down", "up", "closing"}
  /\ runtime.pending \in BOOLEAN /\ runtime.connected \in BOOLEAN
  /\ runtime.ext_phase \in Phases
  /\ runtime.whammy_baseline \in (0..31) \cup {None}
  /\ runtime.profile \in Profiles
  /\ runtime.output_retry_at \in BOOLEAN
  /\ runtime.controller.buttons \subseteq Buttons
  /\ runtime.controller.ext.kind = "Guitar" => runtime.controller.ext.whammy \in 0..31
  /\ \A a \in {"ABS_X", "ABS_Y", "ABS_RX", "ABS_RY"} : device.axes[a] \in AxisRange
  /\ \A a \in {"ABS_Z", "ABS_RZ"} : device.axes[a] \in Byte

Centred == [x |-> 0, y |-> 0, z |-> 0]  \* Accelerometer::default()
NoInput == [buttons |-> {}, accel |-> Centred, ext |-> NoExt]

NothingTold == [accel |-> None, ext |-> NoExt, was |-> NoExt]

PipelineInit ==
  /\ os \in Systems
  /\ link = "down"
  /\ runtime = [pending |-> FALSE, connected |-> FALSE, ext_phase |-> None,
                whammy_baseline |-> None, profile |-> "Auto", output_retry_at |-> FALSE,
                controller |-> NoInput]
  /\ output = None
  /\ device = Idle
  /\ report = <<>>
  /\ wiimote = [plugged |-> "None", inited |-> FALSE, mode |-> 48, held |-> {}]
  /\ told = NothingTold

-----------------------------------------------------------------------------
(* The Output of the platform.                                             *)

(* output_for_profile can fail, and must on macOS for a pad's profile.     *)
Buildable(profile) == os = "macos" => profile \in KeyboardProfiles

NewOutput(profile) ==
  [profile |-> IF os = "macos" THEN ActualProfile(profile) ELSE profile,
   pressed |-> {}, late |-> FALSE]

(* Dropping an Output unplugs its pad, or releases its keys.               *)
DroppedHolding ==  \* mutant: the keyboard of a dropped output keeps its keys
  IF os = "macos" THEN device ELSE Idle

Dropped ==
  IF os = "macos" /\ output # None
    THEN [device EXCEPT !.held = Applied(@, output.pressed, {})]
    ELSE Idle

(* Output::update; CGEvent's never fails.                                  *)
Updated(out, dev, c) ==
  CASE os = "windows" ->
         [output |-> [out EXCEPT !.late = FALSE],
          device |-> ToXGamepad(MapToXbox(out.profile, c))]
    [] os = "linux" ->
         [output |-> [out EXCEPT !.late = FALSE],
          device |-> Emitted(dev, XboxToEvents(MapToXbox(out.profile, c)))]
    [] OTHER ->
         LET target == KeysFor(out.profile, c)
         IN  [output |-> [out EXCEPT !.pressed = target],
              device |-> [dev EXCEPT !.held = Applied(@, out.pressed, target)]]

UpdateFails(out, dev) == [output |-> [out EXCEPT !.late = TRUE], device |-> dev]

-----------------------------------------------------------------------------
(* process_extension_fsm: the runtime after a report, and the payloads.    *)

Identified(phase) == phase \notin {None, "InitSent", "ReadingId"}

ExtParsed(rt, raw) ==
  LET parsed == ParseExtension(rt.ext_phase, raw)
      baseline == Baseline(rt.whammy_baseline, parsed.whammy)
  IN  IF ~Identified(rt.ext_phase) THEN rt
      ELSE IF parsed.kind # "Guitar" THEN [rt EXCEPT !.controller.ext = parsed]
      ELSE [rt EXCEPT !.whammy_baseline = baseline,
                      !.controller.ext = [parsed EXCEPT !.whammy = Calibrated(baseline, @)]]

AwaitedId(rt, r) ==
  r.error = 0 /\ r.address = 250 /\ r.size = 6 /\ rt.ext_phase = "ReadingId"

AwaitedAck(rt, r) == r.report_id = 22 /\ r.error = 0 /\ rt.ext_phase = "InitSent"

AfterReport(rt, r) ==
  CASE r.type = "Status" /\ ~r.extension_connected ->
         [rt EXCEPT !.ext_phase = None, !.controller.ext = NoExt]
    [] r.type = "Status" /\ r.extension_connected /\ rt.ext_phase = None ->
         [rt EXCEPT !.ext_phase = "InitSent"]
    [] r.type = "Ack" /\ AwaitedAck(rt, r) -> [rt EXCEPT !.ext_phase = "ReadingId"]
    [] r.type = "ReadResponse" /\ AwaitedId(rt, r) ->
         [rt EXCEPT !.ext_phase = FromId(r.data), !.whammy_baseline = None]
    [] r.type = "ButtonsAccelExt" -> ExtParsed(rt, r.ext)
    [] OTHER -> rt

Handshake == WriteRegister(10748144, <<85>>)  \* 0x55 to 0xa400f0
ReadId == ReadRegister(10748154, 6)           \* six bytes of 0xa400fa

PayloadsFor(rt, r) ==
  CASE r.type = "Status" ->
         (IF r.extension_connected /\ rt.ext_phase = None THEN <<Handshake>> ELSE <<>>)
           \o <<SetReportingMode(IF r.extension_connected /\ Identified(rt.ext_phase)
                                   THEN 53 ELSE 49)>>
    [] r.type = "Ack" /\ AwaitedAck(rt, r) -> <<ReadId>>
    [] r.type = "ReadResponse" /\ AwaitedId(rt, r) -> <<SetReportingMode(53)>>
    [] OTHER -> <<>>

(* decompose, and what handle_report keeps of it.                          *)
Decomposed(c, r) ==
  [c EXCEPT !.buttons = r.buttons,
            !.accel = IF "accel" \in DOMAIN r THEN r.accel ELSE @]

(* The Wiimote obeys the payloads in order and answers at most one; no     *)
(* handler writes more than three.                                         *)
Obeyed(s, outs, i) == IF i <= Len(outs) THEN Obey(s, Encode(outs[i])) ELSE s

Write(outs) ==
  LET start == [wiimote |-> wiimote, answer |-> <<>>]
      end == Obeyed(Obeyed(Obeyed(start, outs, 1), outs, 2), outs, 3)
  IN  wiimote' = end.wiimote /\ report' = end.answer

-----------------------------------------------------------------------------
(* handle_report, with promote_to_connected when the session is pending.   *)

Promotions ==
  LET promoted == [runtime EXCEPT !.pending = FALSE, !.connected = TRUE]
  IN  IF ~runtime.pending THEN {[rt |-> runtime, out |-> output, dev |-> device, up |-> link]}
      ELSE {[rt |-> [runtime EXCEPT !.pending = FALSE],  \* no slot is free
             out |-> output, dev |-> device, up |-> "closing"],
            [rt |-> [promoted EXCEPT !.output_retry_at = TRUE],
             out |-> output, dev |-> device, up |-> link]}
           \cup (IF Buildable(runtime.profile)
                   THEN {[rt |-> promoted, out |-> NewOutput(runtime.profile),
                          dev |-> Dropped, up |-> link]}
                   ELSE {})

HandleReport ==
  /\ report # <<>>
  /\ LET r == ParseInput(report)
     IN  \E p \in Promotions :
           LET rt == AfterReport(p.rt, r)
               c == Decomposed(rt.controller, r)
               updates == IF p.out = None THEN {[output |-> None, device |-> p.dev]}
                          ELSE {Updated(p.out, p.dev, c)}
                                 \cup (IF os = "macos" THEN {} ELSE {UpdateFails(p.out, p.dev)})
           IN  /\ runtime' = [rt EXCEPT !.controller = c]
               /\ \E u \in updates : output' = u.output /\ device' = u.device
               /\ link' = p.up
               /\ IF p.up = "up" THEN Write(PayloadsFor(p.rt, r))
                  ELSE report' = <<>> /\ UNCHANGED wiimote
  /\ UNCHANGED <<os, told>>

(* handle_set_profile.                                                     *)
SetProfile(p) ==
  /\ p # runtime.profile
  /\ device' = Dropped
  /\ \/ /\ ~runtime.connected
        /\ output' = None
        /\ runtime' = [runtime EXCEPT !.profile = p, !.output_retry_at = FALSE]
     \/ /\ runtime.connected
        /\ output' = None
        /\ runtime' = [runtime EXCEPT !.profile = p, !.output_retry_at = TRUE]
     \/ /\ runtime.connected
        /\ Buildable(p)
        /\ output' = NewOutput(p)
        /\ runtime' = [runtime EXCEPT !.profile = p, !.output_retry_at = FALSE]
  /\ UNCHANGED <<os, link, report, wiimote, told>>

(* tick_output_retry, when it succeeds; a failure changes nothing.         *)
TickOutputRetry ==
  /\ runtime.connected /\ output = None /\ runtime.output_retry_at
  /\ Buildable(runtime.profile)
  /\ output' = NewOutput(runtime.profile)
  /\ runtime' = [runtime EXCEPT !.output_retry_at = FALSE]
  /\ UNCHANGED <<os, link, device, report, wiimote, told>>

(* try_connect, on a new handle or on one that is open already.            *)
TryConnect ==
  /\ link # "closing"
  /\ report = <<>>
  /\ link' = "up"
  /\ runtime' = [runtime EXCEPT !.pending = TRUE]
  /\ Write(<<SetLeds(0, FALSE), SetReportingMode(49), RequestStatus>>)
  /\ UNCHANGED <<os, output, device, told>>

TickKeepalive ==
  /\ link = "up" /\ runtime.connected
  /\ report = <<>>
  /\ Write(<<RequestStatus>>)
  /\ UNCHANGED <<os, link, runtime, output, device, told>>

(* handle_disconnect and handle_device_lost: reset_session.                *)
EndSession ==
  /\ link # "down"
  /\ link' = "down"
  /\ runtime' = [runtime EXCEPT !.pending = FALSE, !.connected = FALSE, !.ext_phase = None,
                                !.whammy_baseline = None, !.output_retry_at = FALSE,
                                !.controller = NoInput]
  /\ output' = None
  /\ device' = Dropped
  /\ report' = <<>>
  /\ told' = NothingTold
  /\ UNCHANGED <<os, wiimote>>

-----------------------------------------------------------------------------
(* The Wiimote's owner.  A report is handled before the next one is sent.  *)

Send(bytes) == report' = IF link = "up" THEN bytes ELSE <<>>

Told(accel, ext, was) ==
  told' = IF link = "up" THEN [accel |-> accel, ext |-> ext, was |-> was] ELSE told

Play(held, accel, ext) ==
  /\ report = <<>>
  /\ wiimote' = [wiimote EXCEPT !.held = held]
  /\ CASE wiimote.mode = 48 ->
            Send(<<48>> \o PlainButtons(held)) /\ UNCHANGED told
       [] wiimote.mode = 49 ->
            Send(<<49>> \o AccelBytes(held, accel)) /\ Told(accel, told.ext, told.was)
       [] OTHER ->
            /\ Send(<<53>> \o AccelBytes(held, accel) \o ExtBytes(ext) \o Zeros(10))
            /\ Told(accel, ext, told.ext)
  /\ UNCHANGED <<os, link, runtime, output, device>>

(* A change at the expansion port is announced, and ends the mode.         *)
Plug(x) ==
  /\ report = <<>>
  /\ (wiimote.plugged = "None") # (x = "None")
  /\ wiimote' = [wiimote EXCEPT !.plugged = x, !.inited = FALSE, !.mode = 48]
  /\ Send(StatusBytes(wiimote'))
  /\ told' = [told EXCEPT !.ext = NoExt, !.was = NoExt]
  /\ UNCHANGED <<os, link, runtime, output, device>>

PipelineNext ==
  \/ HandleReport
  \/ \E p \in Chosen : SetProfile(p)
  \/ TickOutputRetry
  \/ TryConnect
  \/ TickKeepalive
  \/ EndSession
  \/ \E held \in Holds, accel \in Motions, ext \in Plays(wiimote.plugged) :
       Play(held, accel, ext)
  \/ \E x \in Pluggable \cup {"None"} : Plug(x)

PipelineSpec == PipelineInit /\ [][PipelineNext]_pipelineVars

-----------------------------------------------------------------------------
Handled == report = <<>> /\ link = "up"

(* A guitar's bar is calibrated, its buttons and everything else are not.  *)
Uncalibrated(e) == IF e.kind = "Guitar" THEN [e EXCEPT !.whammy = 0] ELSE e

(* The controller of a session is what its Wiimote last said, through the  *)
(* bit layouts of every report and extension and through plugging and      *)
(* unplugging, up to the bits that the Wiimote does not send.              *)
DecodedIsSent ==
  Handled /\ ~runtime.pending /\ runtime.connected =>
    LET c == runtime.controller
    IN  /\ c.buttons = wiimote.held
        /\ told.accel # None => c.accel = Coarse(told.accel)
        /\ Uncalibrated(c.ext) = Uncalibrated(told.ext)

ExtAtRest(e) ==
  /\ e.kind \in {"Nunchuk"} => e.stick_x = STICK_CENTER /\ e.stick_y = STICK_CENTER
  /\ e.kind \in {"Nunchuk", "Classic", "Guitar", "Drums"} => e.buttons = {}

LiesFlat ==
  told.accel # None /\ TiltToStick(told.accel.x) = 0 /\ TiltToStick(told.accel.y) = 0

(* When nothing is held on the Wiimote, nothing is held in the game: not   *)
(* after an unplugging, a change of profile or of layout, or the end of a  *)
(* session; and a Wiimote that is known to lie flat pushes no stick ("Keeps*)
(* a resting Wiimote from drifting the virtual stick").                    *)
RestIsNeutral ==
  /\ output = None => device = Idle
  /\ Handled /\ ~runtime.pending /\ output # None /\ wiimote.held = {} /\ ExtAtRest(told.ext) =>
       \/ output.late
       \/ /\ device.held = {}
          /\ device.axes.ABS_Z = 0 /\ device.axes.ABS_RZ = 0
          /\ LiesFlat => device.axes.ABS_X = 0 /\ device.axes.ABS_Y = 0

(* While one guitar stays identified, its bar is a bar: pushing it further *)
(* never moves the reading back, and releasing it never moves it on, even  *)
(* when that teaches a lower rest position.                                *)
WhammyFollowsBar ==
  [][LET guitar(e) == e.kind = "Guitar"
         before == runtime.controller.ext
         after == runtime'.controller.ext
     IN  guitar(told.was) /\ guitar(told.ext) /\ guitar(before) /\ guitar(after) =>
           /\ told.ext.whammy >= told.was.whammy => after.whammy >= before.whammy
           /\ told.ext.whammy <= told.was.whammy => after.whammy <= before.whammy
    ]_pipelineVars

=============================================================================
