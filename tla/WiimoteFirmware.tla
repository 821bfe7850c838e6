---------------------------- MODULE WiimoteFirmware ---------------------------
(***************************************************************************)
(* A Wiimote as the daemon meets it at the other end of the wire: how it   *)
(* packs what its owner does into the reports that parse_input reads, and  *)
(* what it makes of the payloads that OutputReport::encode writes.         *)
(***************************************************************************)
EXTENDS Extensions

NoExt == [kind |-> "None"]

(* A byte from the bits that `bits` puts in it.                            *)
PackedBits(bits, held, n) ==
  LET At(k) == IF \E b \in held : bits[b] = <<n, k>> THEN 2 ^ k ELSE 0
  IN  At(0) + At(1) + At(2) + At(3) + At(4) + At(5) + At(6) + At(7)

ButtonBytes(held, low0, low1) ==
  <<PackedBits(ButtonBits, held, 0) + 32 * low0, PackedBits(ButtonBits, held, 1) + 32 * low1>>

PlainButtons(held) == ButtonBytes(held, 0, 0)

(* x has ten bits; of y and z the lowest is not sent.                      *)
AccelBytes(held, a) ==
  ButtonBytes(held, a.x % 4, Bit(a.y, 1) + 2 * Bit(a.z, 1))
    \o <<a.x \div 4, a.y \div 4, a.z \div 4>>

Coarse(a) == [x |-> a.x, y |-> 2 * (a.y \div 2), z |-> 2 * (a.z \div 2)]

ClearedBytes(bits, held) ==
  <<255 - PackedBits(bits, held, 4), 255 - PackedBits(bits, held, 5)>>

Zeros(n) == [i \in 1..n |-> 0]

ExtBytes(e) ==
  CASE e.kind = "Nunchuk" ->
         <<e.stick_x, e.stick_y, e.accel.x \div 4, e.accel.y \div 4, e.accel.z \div 4,
           64 * (e.accel.z % 4) + 16 * (e.accel.y % 4) + 4 * (e.accel.x % 4)
             + (IF "C" \in e.buttons THEN 0 ELSE 2) + (IF "Z" \in e.buttons THEN 0 ELSE 1)>>
    [] e.kind = "Classic" -> <<128, 128, 0, 0>> \o ClearedBytes(ClassicBits, e.buttons)
    [] e.kind = "Guitar" ->
         <<192 + e.stick_x, 192 + e.stick_y, e.touch_bar, 224 + e.whammy>>
           \o ClearedBytes(GuitarBits, e.buttons)
    [] e.kind = "Drums" -> <<32, 32, 0, 0>> \o ClearedBytes(DrumsBits, e.buttons)
    [] OTHER -> Zeros(6)

ExtensionId ==
  [Nunchuk |-> <<255, 0, 164, 32, 0, 0>>, ClassicController |-> <<0, 0, 164, 32, 1, 1>>,
   Guitar |-> <<0, 0, 164, 32, 1, 3>>, Drums |-> <<1, 0, 164, 32, 1, 3>>,
   TaikoDrum |-> <<0, 0, 164, 32, 1, 17>>]

(* Readings of an accelerometer, and what each extension can be brought to *)
(* say.                                                                    *)
Readings == [x : 0..1023, y : 0..1023, z : 0..1023]

States(x) ==
  CASE x = "Nunchuk" ->
         [kind : {"Nunchuk"}, stick_x : Byte, stick_y : Byte, accel : Readings,
          buttons : SUBSET {"C", "Z"}]
    [] x = "ClassicController" -> [kind : {"Classic"}, buttons : SUBSET DOMAIN ClassicBits]
    [] x = "Guitar" ->
         [kind : {"Guitar"}, stick_x : 0..63, stick_y : 0..63, touch_bar : 0..31, whammy : 0..31,
          buttons : SUBSET DOMAIN GuitarBits]
    [] x = "Drums" -> [kind : {"Drums"}, buttons : SUBSET DOMAIN DrumsBits]
    [] x = "TaikoDrum" -> [kind : {"Unparsed"}]
    [] OTHER -> {NoExt}

(* A Wiimote: what is plugged in and whether it is initialised, the        *)
(* reporting mode, and the buttons held.                                   *)
StatusBytes(w) ==
  <<32>> \o PlainButtons(w.held) \o <<16 + (IF w.plugged # "None" THEN 2 ELSE 0), 0, 0, 200>>

AckBytes(w) ==
  <<34>> \o PlainButtons(w.held) \o <<22, IF w.plugged = "None" THEN 7 ELSE 0>>

IdBytes(w) ==
  IF w.plugged = "None" THEN <<33>> \o PlainButtons(w.held) \o <<87, 0, 250>> \o Zeros(16)
  ELSE <<33>> \o PlainButtons(w.held) \o <<80, 0, 250>>
         \o (IF w.inited THEN ExtensionId[w.plugged] ELSE Zeros(6)) \o Zeros(10)

(* What the Wiimote is after a payload and what it answers.                *)
InitPayload == <<22, 4, 164, 0, 240, 1, 85>>
ReadIdPayload == <<23, 4, 164, 0, 250, 0, 6>>

Obey(s, payload) ==
  LET w == s.wiimote
  IN  CASE payload[1] = 18 -> [s EXCEPT !.wiimote.mode = payload[3]]
        [] payload[1] = 21 ->
             [wiimote |-> [w EXCEPT !.mode = 48], answer |-> StatusBytes(w)]
        [] payload[1] = 22 /\ SubSeq(payload, 1, 7) = InitPayload ->
             [wiimote |-> [w EXCEPT !.inited = w.plugged # "None"], answer |-> AckBytes(w)]
        [] payload = ReadIdPayload -> [s EXCEPT !.answer = IdBytes(w)]
        [] OTHER -> s

=============================================================================
