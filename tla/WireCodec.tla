------------------------------ MODULE WireCodec -------------------------------
(***************************************************************************)
(* crates/wiimote-core: the reports of a Wiimote, byte by byte.  A buffer  *)
(* is a sequence of bytes, the report's number first; a set of bitflags is *)
(* the set of the names whose bits are set.                                *)
(***************************************************************************)
EXTENDS Integers, Sequences

Byte == 0..255

Bit(byte, k) == (byte \div 2 ^ k) % 2
Bits(byte, low, width) == (byte \div 2 ^ low) % 2 ^ width
IsSet(byte, k) == Bit(byte, k) = 1

(* The bits of Buttons: the byte, 0 or 1, and the bit in it.               *)
ButtonBits ==
  [LEFT |-> <<0, 0>>, RIGHT |-> <<0, 1>>, DOWN |-> <<0, 2>>, UP |-> <<0, 3>>,
   PLUS |-> <<0, 4>>, TWO |-> <<1, 0>>, ONE |-> <<1, 1>>, B |-> <<1, 2>>,
   A |-> <<1, 3>>, MINUS |-> <<1, 4>>, HOME |-> <<1, 7>>]

Buttons == DOMAIN ButtonBits

(* Buttons::parse; from_bits_truncate drops the bits no flag names.        *)
ParseButtons(byte0, byte1) ==
  {b \in Buttons : IsSet(<<byte0, byte1>>[ButtonBits[b][1] + 1], ButtonBits[b][2])}

(* The two low bits of x and the second lowest of y and z are among those  *)
(* of the buttons.                                                         *)
ParseAccelUnshifted(bb0, bb1, xh, yh, zh) ==  \* mutant: y's bit one place too low
  [x |-> 4 * xh + Bits(bb0, 5, 2), y |-> 4 * yh + Bit(bb1, 5), z |-> 4 * zh + 2 * Bit(bb1, 6)]

ParseAccel(bb0, bb1, xh, yh, zh) ==
  [x |-> 4 * xh + Bits(bb0, 5, 2), y |-> 4 * yh + 2 * Bit(bb1, 5), z |-> 4 * zh + 2 * Bit(bb1, 6)]

(* Three bytes of a dot: low x, low y, then two high bits of y, two of x   *)
(* and four of size.                                                       *)
ParseDot(b0, b1, b2) ==
  LET x == 256 * Bits(b2, 4, 2) + b0
      y == 256 * Bits(b2, 6, 2) + b1
  IN  [x |-> x, y |-> y, size |-> Bits(b2, 0, 4), visible |-> ~(x = 1023 /\ y = 1023)]

ParseIrExtended(buf) ==
  [i \in 1..4 |-> ParseDot(buf[3 * i - 2], buf[3 * i - 1], buf[3 * i])]

(* The least length of a report, by its number.                            *)
Lengths ==
  [n \in {32, 33, 34, 48, 49, 51, 53} |->
     CASE n = 32 -> 7  [] n = 34 -> 5  [] n = 48 -> 3
       [] n = 49 -> 6  [] n = 51 -> 18 [] OTHER -> 22]

Rejected == [type |-> "Error"]  \* TooShort or UnknownId

(* parse_input.                                                            *)
ParseInput(buf) ==
  IF \/ buf = <<>>
     \/ buf[1] \notin DOMAIN Lengths
     \/ Len(buf) < Lengths[buf[1]]
    THEN Rejected
    ELSE
      LET buttons == ParseButtons(buf[2], buf[3])
          accel == ParseAccel(buf[2], buf[3], buf[4], buf[5], buf[6])
      IN  CASE buf[1] = 32 ->
                 [type |-> "Status", buttons |-> buttons, battery |-> buf[7],
                  extension_connected |-> IsSet(buf[4], 1)]
            [] buf[1] = 33 ->
                 [type |-> "ReadResponse", buttons |-> buttons, error |-> Bits(buf[4], 0, 4),
                  size |-> Bits(buf[4], 4, 4) + 1, address |-> 256 * buf[5] + buf[6],
                  data |-> SubSeq(buf, 7, 22)]
            [] buf[1] = 34 ->
                 [type |-> "Ack", buttons |-> buttons, report_id |-> buf[4], error |-> buf[5]]
            [] buf[1] = 48 -> [type |-> "Buttons", buttons |-> buttons]
            [] buf[1] = 49 -> [type |-> "ButtonsAccel", buttons |-> buttons, accel |-> accel]
            [] buf[1] = 51 ->
                 [type |-> "ButtonsAccelIr", buttons |-> buttons, accel |-> accel,
                  ir |-> ParseIrExtended(SubSeq(buf, 7, 18))]
            [] OTHER ->
                 [type |-> "ButtonsAccelExt", buttons |-> buttons, accel |-> accel,
                  ext |-> SubSeq(buf, 7, 22)]

-----------------------------------------------------------------------------
(* OutputReport: what the daemon writes.                                   *)

SetLeds(leds, rumble) == [type |-> "SetLeds", leds |-> leds, rumble |-> rumble]
SetReportingMode(mode) == [type |-> "SetReportingMode", mode |-> mode]
RequestStatus == [type |-> "RequestStatus"]
WriteRegister(address, data) ==
  [type |-> "WriteRegister", address |-> address, data |-> data]
ReadRegister(address, count) ==
  [type |-> "ReadRegister", address |-> address, count |-> count]

AddressBytes(address) ==
  <<Bits(address, 16, 8), Bits(address, 8, 8), Bits(address, 0, 8)>>

(* The first n bytes of data, then zeros up to 16.                         *)
Padded(data, n) == [i \in 1..16 |-> IF i <= n THEN data[i] ELSE 0]

(* OutputReport::encode; every mode is requested continuous.               *)
Encode(out) ==
  CASE out.type = "SetLeds" ->
         <<17, 16 * Bits(out.leds, 0, 4) + (IF out.rumble THEN 1 ELSE 0)>>
    [] out.type = "SetReportingMode" -> <<18, 4, out.mode>>
    [] out.type = "RequestStatus" -> <<21, 0>>
    [] out.type = "WriteRegister" ->
         LET n == IF Len(out.data) < 16 THEN Len(out.data) ELSE 16
         IN  <<22, 4>> \o AddressBytes(out.address) \o <<n>> \o Padded(out.data, n)
    [] OTHER ->
         <<23, 4>> \o AddressBytes(out.address)
           \o <<Bits(out.count, 8, 8), Bits(out.count, 0, 8)>>

=============================================================================
