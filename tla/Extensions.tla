------------------------------ MODULE Extensions ------------------------------
(***************************************************************************)
(* crates/wiimote-core/src/extension.rs: which extension a 6-byte id names *)
(* and what the 16 bytes of its payload say.  A payload is numbered from 1,*)
(* so b[5] is the source's b[4].                                           *)
(***************************************************************************)
EXTENDS WireCodec

(* Family marker and model, bytes 2 to 5 of the id; where a model has      *)
(* variants, byte 0 tells them apart.                                      *)
FamilyMarker == <<164, 32>>

FromId(id) ==
  LET model == <<id[5], id[6]>>
  IN  IF <<id[3], id[4]>> # FamilyMarker THEN "Unknown"
      ELSE CASE model \in {<<0, 0>>, <<0, 1>>} -> "Nunchuk"
             [] model = <<1, 1>> ->
                  IF id[1] = 1 THEN "ClassicControllerPro" ELSE "ClassicController"
             [] model = <<1, 3>> ->
                  IF id[1] = 1 THEN "Drums"
                  ELSE IF id[1] = 3 THEN "DjHeroTurntable" ELSE "Guitar"
             [] model \in {<<4, 5>>, <<5, 5>>, <<7, 5>>} -> "MotionPlus"
             [] model = <<4, 4>> -> "UDrawTablet"
             [] model = <<1, 17>> -> "TaikoDrum"
             [] OTHER -> "Unknown"

(* The buttons of bytes 4 and 5, a cleared bit being a pressed button.     *)
ClassicBits ==
  [DPAD_RIGHT |-> <<4, 7>>, DPAD_DOWN |-> <<4, 6>>, LT |-> <<4, 5>>, MINUS |-> <<4, 4>>,
   HOME |-> <<4, 3>>, PLUS |-> <<4, 2>>, RT |-> <<4, 1>>, ZL |-> <<5, 7>>, B |-> <<5, 6>>,
   Y |-> <<5, 5>>, A |-> <<5, 4>>, X |-> <<5, 3>>, ZR |-> <<5, 2>>, DPAD_LEFT |-> <<5, 1>>,
   DPAD_UP |-> <<5, 0>>]

GuitarBits ==
  [PLUS |-> <<4, 2>>, MINUS |-> <<4, 4>>, STRUM_DOWN |-> <<4, 6>>, STRUM_UP |-> <<5, 0>>,
   YELLOW |-> <<5, 3>>, GREEN |-> <<5, 4>>, BLUE |-> <<5, 5>>, RED |-> <<5, 6>>,
   ORANGE |-> <<5, 7>>]

DrumsBits ==
  [PLUS |-> <<4, 2>>, MINUS |-> <<4, 4>>, BASS_PEDAL |-> <<5, 2>>, GREEN |-> <<5, 3>>,
   BLUE |-> <<5, 4>>, YELLOW |-> <<5, 5>>, RED |-> <<5, 6>>, ORANGE |-> <<5, 7>>]

Cleared(bits, b) == {n \in DOMAIN bits : ~IsSet(b[bits[n][1] + 1], bits[n][2])}

ParseNunchuk(b) ==
  [kind |-> "Nunchuk", stick_x |-> b[1], stick_y |-> b[2],
   accel |-> [x |-> 4 * b[3] + Bits(b[6], 2, 2),
              y |-> 4 * b[4] + Bits(b[6], 4, 2),
              z |-> 4 * b[5] + Bits(b[6], 6, 2)],
   buttons |-> (IF IsSet(b[6], 1) THEN {} ELSE {"C"}) \cup (IF IsSet(b[6], 0) THEN {} ELSE {"Z"})]

ParseClassic(b) == [kind |-> "Classic", buttons |-> Cleared(ClassicBits, b)]

ParseGuitar(b) ==
  [kind |-> "Guitar", stick_x |-> b[1] % 64, stick_y |-> b[2] % 64,
   touch_bar |-> b[3] % 32, whammy |-> b[4] % 32, buttons |-> Cleared(GuitarBits, b)]

ParseDrums(b) == [kind |-> "Drums", buttons |-> Cleared(DrumsBits, b)]

(* ExtensionData::parse.                                                   *)
ParseExtension(ext, raw) ==
  CASE ext = "Nunchuk" -> ParseNunchuk(raw)
    [] ext \in {"ClassicController", "ClassicControllerPro"} -> ParseClassic(raw)
    [] ext = "Guitar" -> ParseGuitar(raw)
    [] ext = "Drums" -> ParseDrums(raw)
    [] OTHER -> [kind |-> "Unparsed"]

-----------------------------------------------------------------------------
(* extension_fsm.rs: the bar of a guitar, self-calibrated.  Its lowest     *)
(* reading so far is 0, 31 stays 31.                                       *)
Baseline(baseline, w) == IF baseline \in Nat /\ baseline <= w THEN baseline ELSE w

CalibratedInU8(baseline, w) ==  \* mutant: the product wraps around in a u8
  LET span == IF baseline < 31 THEN 31 - baseline ELSE 1
  IN  (((w - baseline) * 31) % 256) \div span

Calibrated(baseline, w) ==
  LET span == IF baseline < 31 THEN 31 - baseline ELSE 1
  IN  ((w - baseline) * 31) \div span

=============================================================================
