---------------------------- MODULE KeyboardOutput ----------------------------
(***************************************************************************)
(* crates/wiimote-output/src/macos.rs: the keyboard that stands in for a   *)
(* pad on macOS.  A controller is the one of PadMapping.                   *)
(***************************************************************************)
EXTENDS Integers

(* CGEventOutput::new: pad profiles are refused, Auto is the Wiimote's.    *)
KeyboardProfiles == {"Auto", "WiimoteKeyboard", "GuitarKeyboard"}
ActualProfile(profile) == IF profile = "Auto" THEN "WiimoteKeyboard" ELSE profile

KeyCodes ==
  {"ARROW_UP", "ARROW_DOWN", "ARROW_LEFT", "ARROW_RIGHT", "KEY_A", "KEY_B", "KEY_C", "KEY_D",
   "KEY_E", "KEY_F", "KEY_G", "KEY_H", "KEY_J", "KEY_K", "KEY_L", "KEY_Q", "KEY_R", "KEY_S",
   "KEY_W", "KEY_X", "KEY_Z", "RETURN", "SPACE", "ESCAPE"}

WiimoteKeymap ==
  [UP |-> "ARROW_UP", DOWN |-> "ARROW_DOWN", LEFT |-> "ARROW_LEFT", RIGHT |-> "ARROW_RIGHT",
   A |-> "KEY_Z", B |-> "KEY_X", ONE |-> "KEY_Q", TWO |-> "KEY_W", PLUS |-> "RETURN",
   MINUS |-> "ESCAPE", HOME |-> "SPACE"]

GuitarKeymap ==
  [GREEN |-> "KEY_A", RED |-> "KEY_S", YELLOW |-> "KEY_D", BLUE |-> "KEY_F",
   ORANGE |-> "KEY_G", STRUM_UP |-> "ARROW_UP", STRUM_DOWN |-> "ARROW_DOWN",
   PLUS |-> "RETURN", MINUS |-> "ESCAPE"]

ClassicKeymap ==
  [A |-> "KEY_Z", B |-> "KEY_X", X |-> "KEY_E", Y |-> "KEY_R", ZL |-> "KEY_J", ZR |-> "KEY_K",
   LT |-> "KEY_H", RT |-> "KEY_L", PLUS |-> "RETURN", MINUS |-> "ESCAPE", HOME |-> "SPACE",
   DPAD_UP |-> "ARROW_UP", DPAD_DOWN |-> "ARROW_DOWN", DPAD_LEFT |-> "ARROW_LEFT",
   DPAD_RIGHT |-> "ARROW_RIGHT"]

NunchukKeymap == [C |-> "KEY_C", Z |-> "KEY_S"]

KeysOf(keymap, buttons) == {keymap[b] : b \in buttons \cap DOMAIN keymap}

STICK_THRESHOLD == 40

(* A stick pushed past the threshold holds an arrow key.                   *)
StickKey(raw, more, less) ==
  IF raw - 128 > STICK_THRESHOLD THEN {more}
  ELSE IF raw - 128 < -STICK_THRESHOLD THEN {less} ELSE {}

NunchukKeys(n) ==
  KeysOf(NunchukKeymap, n.buttons)
    \cup StickKey(n.stick_y, "ARROW_UP", "ARROW_DOWN")
    \cup StickKey(n.stick_x, "ARROW_RIGHT", "ARROW_LEFT")

(* A Classic Controller replaces the Wiimote's own keys.                   *)
WiimoteKeys(c) ==
  CASE c.ext.kind = "Classic" -> KeysOf(ClassicKeymap, c.ext.buttons)
    [] c.ext.kind = "Nunchuk" -> KeysOf(WiimoteKeymap, c.buttons) \cup NunchukKeys(c.ext)
    [] OTHER -> KeysOf(WiimoteKeymap, c.buttons)

GuitarKeys(g, c) ==
  KeysOf(GuitarKeymap, g.buttons) \cup (IF "HOME" \in c.buttons THEN {"SPACE"} ELSE {})

(* CGEventOutput::update.                                                  *)
KeysFor(profile, c) ==
  IF profile = "GuitarKeyboard" /\ c.ext.kind = "Guitar"
    THEN GuitarKeys(c.ext, c)
    ELSE WiimoteKeys(c)

(* The keyboard after the key presses and releases of apply(); drop()      *)
(* applies the empty set.                                                  *)
Applied(keyboard, pressed, target) ==
  (keyboard \cup (target \ pressed)) \ (pressed \ target)

=============================================================================
