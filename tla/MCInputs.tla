------------------------------- MODULE MCInputs -------------------------------
(***************************************************************************)
(* A small instance of the pipeline for TLC: buttons and bits at both ends *)
(* of the bytes, readings inside and outside the dead zones and beyond the *)
(* range, three positions of a whammy bar with a rest position above 0.    *)
(***************************************************************************)
EXTENDS InputPipeline

SomeHolds == {{}, {"A", "LEFT", "HOME"}}
Flat == [x |-> 515, y |-> 510, z |-> 613]
Steep == [x |-> 1023, y |-> 201, z |-> 350]
SomeMotions == {Flat, Steep}

Nunchuks ==
  {[kind |-> "Nunchuk", stick_x |-> 128, stick_y |-> 128, accel |-> Flat, buttons |-> {}],
   [kind |-> "Nunchuk", stick_x |-> 0, stick_y |-> 255, accel |-> Steep, buttons |-> {"Z"}]}

Classics ==
  {[kind |-> "Classic", buttons |-> b] : b \in {{}, {"LT", "DPAD_UP", "HOME"}}}

GuitarAt(w, b) ==
  [kind |-> "Guitar", stick_x |-> 32, stick_y |-> 31, touch_bar |-> 15, whammy |-> w,
   buttons |-> b]
Guitars ==
  {GuitarAt(4, {}), GuitarAt(16, {"ORANGE", "STRUM_UP"}), GuitarAt(31, {})}

Kits == {[kind |-> "Drums", buttons |-> b] : b \in {{}, {"BASS_PEDAL", "MINUS"}}}

MCPlays(x) ==
  CASE x = "Nunchuk" -> Nunchuks
    [] x = "ClassicController" -> Classics
    [] x = "Guitar" -> Guitars
    [] x = "Drums" -> Kits
    [] x = "None" -> {NoExt}
    [] OTHER -> {[kind |-> "Unparsed"]}

=============================================================================
