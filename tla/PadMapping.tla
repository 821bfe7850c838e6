------------------------------ MODULE PadMapping ------------------------------
(***************************************************************************)
(* crates/wiimote-output: from the state of a Wiimote to the frame of an   *)
(* Xbox 360 pad and to what the two pad backends publish.  A controller is *)
(* [buttons, accel, ext], ext being an ExtensionData or [kind |-> "None"]; *)
(* a frame is the set of the pressed controls and six axes.                *)
(***************************************************************************)
EXTENDS Integers

ACCEL_CENTER == 512
ACCEL_DEADZONE == 30
ACCEL_RANGE == 220
STICK_CENTER == 128
STICK_DEADZONE == 8
STICK_RANGE == 95
I16Max == 32767

Abs(n) == IF n < 0 THEN -n ELSE n

(* Division of i32: towards zero.                                          *)
Quotient(n, d) == IF n < 0 THEN -((-n) \div d) ELSE n \div d

Clamp(n) == IF n > I16Max THEN I16Max ELSE IF n < -I16Max THEN -I16Max ELSE n

(* Zero in the dead zone, linear beyond it, full at `range`.               *)
UnclampedAxis(raw, center, deadzone, range) ==  \* mutant
  LET delta == raw - center
      signed == IF delta > 0 THEN delta - deadzone ELSE delta + deadzone
  IN  IF Abs(delta) < deadzone THEN 0 ELSE Quotient(signed * I16Max, range - deadzone)

Axis(raw, center, deadzone, range) ==
  LET delta == raw - center
      signed == IF delta > 0 THEN delta - deadzone ELSE delta + deadzone
  IN  IF Abs(delta) < deadzone THEN 0 ELSE Clamp(Quotient(signed * I16Max, range - deadzone))

NunchukStickToAxis(raw) == Axis(raw, STICK_CENTER, STICK_DEADZONE, STICK_RANGE)
TiltToStick(raw) == Axis(raw, ACCEL_CENTER, ACCEL_DEADZONE, ACCEL_RANGE)
WhammyToAxis(w) == ((IF w < 31 THEN w ELSE 31) * 65534) \div 31 - I16Max

-----------------------------------------------------------------------------
(* MappingProfile::resolve_pad: the layout of a profile, if the extension  *)
(* it is for is there, and the best fit for Auto and the keyboard profiles.*)
Profiles ==
  {"Auto", "WiimoteXbox", "GuitarXplorer", "DrumsXplorer", "ClassicXbox",
   "WiimoteKeyboard", "GuitarKeyboard"}

Instruments == {"Guitar", "Drums", "Classic"}

WantedFor ==
  [WiimoteXbox |-> {}, GuitarXplorer |-> {"Guitar"}, DrumsXplorer |-> {"Drums"},
   ClassicXbox |-> {"Classic"}, Auto |-> Instruments, WiimoteKeyboard |-> Instruments,
   GuitarKeyboard |-> Instruments]

ResolvePad(profile, ext) == IF ext.kind \in WantedFor[profile] THEN ext.kind ELSE "Wiimote"

-----------------------------------------------------------------------------
(* xbox.rs: the control each button becomes in a layout.                   *)
WiimoteLayout ==
  [A |-> "a", B |-> "b", ONE |-> "x", TWO |-> "y", PLUS |-> "start", MINUS |-> "back",
   HOME |-> "guide", UP |-> "up", DOWN |-> "down", LEFT |-> "left", RIGHT |-> "right"]

GuitarLayout ==
  [GREEN |-> "a", RED |-> "b", YELLOW |-> "y", BLUE |-> "x", ORANGE |-> "lb",
   STRUM_UP |-> "up", STRUM_DOWN |-> "down", PLUS |-> "start", MINUS |-> "back"]

DrumsLayout ==
  [GREEN |-> "a", RED |-> "b", BLUE |-> "x", YELLOW |-> "y", ORANGE |-> "lb",
   BASS_PEDAL |-> "rb", PLUS |-> "start", MINUS |-> "back"]

ClassicLayout ==
  [A |-> "a", B |-> "b", X |-> "x", Y |-> "y", ZL |-> "lb", ZR |-> "rb", PLUS |-> "start",
   MINUS |-> "back", HOME |-> "guide", DPAD_UP |-> "up", DPAD_DOWN |-> "down",
   DPAD_LEFT |-> "left", DPAD_RIGHT |-> "right"]

Placed(layout, buttons) == {layout[b] : b \in buttons \cap DOMAIN layout}

(* The Wiimote's HOME stays the guide button of the instruments.           *)
GuidePlaced(buttons) == IF "HOME" \in buttons THEN {"guide"} ELSE {}

Frame(pressed) ==
  [pressed |-> pressed, lx |-> 0, ly |-> 0, rx |-> 0, ry |-> 0, lt |-> 0, rt |-> 0]

Trigger(held) == IF held THEN 255 ELSE 0

Tilted(c) ==
  [Frame(Placed(WiimoteLayout, c.buttons)) EXCEPT
     !.lx = TiltToStick(c.accel.x), !.ly = TiltToStick(c.accel.y)]

(* A Nunchuk's stick takes the left thumbstick, the tilt moves to the right*)
(* one.                                                                    *)
ApplyNunchuk(s, n) ==
  [s EXCEPT !.lx = NunchukStickToAxis(n.stick_x), !.ly = NunchukStickToAxis(n.stick_y),
            !.rx = s.lx, !.ry = s.ly,
            !.pressed = @ \cup (IF "C" \in n.buttons THEN {"lb"} ELSE {}),
            !.lt = Trigger("Z" \in n.buttons)]

WiimotePad(c) ==
  IF c.ext.kind = "Nunchuk" THEN ApplyNunchuk(Tilted(c), c.ext) ELSE Tilted(c)

GuitarPad(g, c) ==
  [Frame(Placed(GuitarLayout, g.buttons) \cup GuidePlaced(c.buttons)) EXCEPT
     !.rx = WhammyToAxis(g.whammy)]

DrumsPad(d, c) == Frame(Placed(DrumsLayout, d.buttons) \cup GuidePlaced(c.buttons))

ClassicPad(c) ==
  [Frame(Placed(ClassicLayout, c.buttons)) EXCEPT
     !.lt = Trigger("LT" \in c.buttons), !.rt = Trigger("RT" \in c.buttons)]

MapToXbox(profile, c) ==
  LET layout == ResolvePad(profile, c.ext)
  IN  CASE layout = "Guitar" -> GuitarPad(c.ext, c)
        [] layout = "Drums" -> DrumsPad(c.ext, c)
        [] layout = "Classic" -> ClassicPad(c.ext)
        [] OTHER -> WiimotePad(c)

-----------------------------------------------------------------------------
(* What the backends publish: the bits of an XGamepad, whole each time;    *)
(* and a value for every key and axis of the uinput device.                *)
XButton ==
  [a |-> "A", b |-> "B", x |-> "X", y |-> "Y", lb |-> "LB", rb |-> "RB", start |-> "START",
   back |-> "BACK", guide |-> "GUIDE", thumb_l |-> "LTHUMB", thumb_r |-> "RTHUMB",
   up |-> "UP", down |-> "DOWN", left |-> "LEFT", right |-> "RIGHT"]

EvdevKey ==
  [a |-> "BTN_SOUTH", b |-> "BTN_EAST", x |-> "BTN_WEST", y |-> "BTN_NORTH", lb |-> "BTN_TL",
   rb |-> "BTN_TR", back |-> "BTN_SELECT", start |-> "BTN_START", guide |-> "BTN_MODE",
   thumb_l |-> "BTN_THUMBL", thumb_r |-> "BTN_THUMBR", up |-> "BTN_DPAD_UP",
   down |-> "BTN_DPAD_DOWN", left |-> "BTN_DPAD_LEFT", right |-> "BTN_DPAD_RIGHT"]

Axes(s) ==
  [ABS_X |-> s.lx, ABS_Y |-> s.ly, ABS_RX |-> s.rx, ABS_RY |-> s.ry, ABS_Z |-> s.lt,
   ABS_RZ |-> s.rt]

ToXGamepad(s) == [held |-> Placed(XButton, s.pressed), axes |-> Axes(s)]

XboxToEvents(s) ==
  [keys |-> {<<EvdevKey[c], c \in s.pressed>> : c \in DOMAIN EvdevKey}, axes |-> Axes(s)]

(* A virtual device keeps the value of a key until an event changes it.    *)
Emitted(device, events) ==
  [held |-> {k \in device.held : <<k, FALSE>> \notin events.keys}
              \cup {e[1] : e \in {f \in events.keys : f[2]}},
   axes |-> events.axes]

Idle == [held |-> {}, axes |-> Axes(Frame({}))]

=============================================================================
