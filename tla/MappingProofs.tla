---------------------------- MODULE MappingProofs ----------------------------
(***************************************************************************)
(* What the pure functions on the way from the bytes of a report to a pad, *)
(* and between the representations of an address, give for every argument. *)
(***************************************************************************)
EXTENDS PadMapping, WiimoteFirmware, Addresses, SequenceTheorems, TLAPS

-----------------------------------------------------------------------------
(* Quotients of naturals.                                                  *)

LEMMA QuotientBound ==
  ASSUME NEW n \in Nat, NEW d \in Nat \ {0}, NEW k \in Nat, n <= k * d
  PROVE  n \div d \in Nat /\ n \div d <= k
OBVIOUS

LEMMA QuotientGrows ==
  ASSUME NEW n \in Nat, NEW m \in Nat, NEW d \in Nat \ {0}, n <= m
  PROVE  n \div d <= m \div d
<1>1. /\ n \div d \in Nat /\ m \div d \in Nat
      /\ (n \div d) * d <= n
      /\ m < ((m \div d) + 1) * d
  OBVIOUS
<1>2. \A x, y \in Nat : x * d < (y + 1) * d => x <= y
  OBVIOUS
<1> QED
  BY <1>1, <1>2

-----------------------------------------------------------------------------
(* An axis (backend.rs), for any center, dead zone and range.              *)

IsI16(n) == n \in Int /\ -I16Max <= n /\ n <= I16Max

(* An axis is odd about its center ...                                     *)
LEMMA AxisIsOdd ==
  ASSUME NEW c \in Int, NEW dz \in Nat \ {0}, NEW range \in Nat, dz < range, NEW d \in Nat
  PROVE  Axis(c - d, c, dz, range) = -Axis(c + d, c, dz, range)
<1> DEFINE p == (d - dz) * I16Max
<1>1. ((-d) + dz) * I16Max = -p /\ p \in Int /\ range - dz \in Nat \ {0}
  BY DEF I16Max
<1>2. CASE d < dz
  BY <1>2 DEF Axis, Abs
<1>3. CASE d >= dz
  <2>1. p \in Nat
    BY <1>3 DEF I16Max
  <2>2. /\ Axis(c + d, c, dz, range) = Clamp(Quotient(p, range - dz))
        /\ Axis(c - d, c, dz, range) = Clamp(Quotient(-p, range - dz))
    <3>1. /\ (c + d) - c = d /\ (c - d) - c = -d /\ d > 0 /\ ~(-d > 0)
          /\ Abs(d) = d /\ Abs(-d) = d
      BY <1>3 DEF Abs
    <3> QED
      BY <1>1, <1>3, <3>1 DEF Axis
  <2> HIDE DEF p
  <2>3. Quotient(p, range - dz) = p \div (range - dz)
    BY <1>1, <2>1 DEF Quotient
  <2>4. Quotient(-p, range - dz) = -(p \div (range - dz))
    <3>1. CASE p = 0
      BY <1>1, <3>1 DEF Quotient
    <3>2. CASE p > 0
      BY <1>1, <2>1, <3>2 DEF Quotient
    <3> QED
      BY <2>1, <3>1, <3>2
  <2>5. p \div (range - dz) \in Nat
    BY <1>1, <2>1
  <2> QED
    BY <2>2, <2>3, <2>4, <2>5 DEF Clamp, I16Max
<1> QED
  BY <1>2, <1>3

(* ... and grows on the one side ...                                       *)
LEMMA AxisAboveCenter ==
  ASSUME NEW c \in Int, NEW dz \in Nat \ {0}, NEW range \in Nat, dz < range,
         NEW d \in Nat, NEW e \in Nat, d <= e
  PROVE  /\ Axis(c + d, c, dz, range) \in Nat /\ Axis(c + d, c, dz, range) <= I16Max
         /\ Axis(c + d, c, dz, range) <= Axis(c + e, c, dz, range)
         /\ d < dz => Axis(c + d, c, dz, range) = 0
         /\ d >= range => Axis(c + d, c, dz, range) = I16Max
<1> DEFINE A(x) == Axis(c + x, c, dz, range)
           Q(x) == ((x - dz) * I16Max) \div (range - dz)
<1>1. ASSUME NEW x \in Nat, x < dz PROVE A(x) = 0
  BY <1>1 DEF Axis, Abs
<1>2. ASSUME NEW x \in Nat, x >= dz
      PROVE  /\ A(x) = IF Q(x) > I16Max THEN I16Max ELSE Q(x)
             /\ Q(x) \in Nat /\ (x - dz) * I16Max \in Nat
             /\ x >= range => Q(x) >= I16Max
  <2>1. (x - dz) * I16Max \in Nat /\ range - dz \in Nat \ {0}
    BY <1>2 DEF I16Max
  <2>2. Q(x) \in Nat
    BY <2>1
  <2>3. A(x) = Clamp(Quotient((x - dz) * I16Max, range - dz))
    <3>1. (c + x) - c = x /\ x > 0 /\ Abs(x) = x
      BY <1>2 DEF Abs
    <3> QED
      BY <1>2, <3>1 DEF Axis
  <2>4. Quotient((x - dz) * I16Max, range - dz) = Q(x)
    BY <2>1 DEF Quotient
  <2>5. A(x) = IF Q(x) > I16Max THEN I16Max ELSE Q(x)
    BY <2>2, <2>3, <2>4 DEF Clamp, I16Max
  <2>6. ASSUME x >= range PROVE Q(x) >= I16Max
    <3>1. I16Max * (range - dz) <= (x - dz) * I16Max /\ I16Max * (range - dz) \in Nat
      BY <1>2, <2>6 DEF I16Max
    <3>2. (I16Max * (range - dz)) \div (range - dz) = I16Max
      BY <2>1 DEF I16Max
    <3> QED
      BY <2>1, <3>1, <3>2, QuotientGrows
  <2> QED
    BY <2>1, <2>2, <2>5, <2>6
<1>3. ASSUME d >= dz PROVE Q(d) <= Q(e)
  <2>1. /\ (d - dz) * I16Max \in Nat /\ (e - dz) * I16Max \in Nat
        /\ (d - dz) * I16Max <= (e - dz) * I16Max /\ range - dz \in Nat \ {0}
    BY <1>3 DEF I16Max
  <2> QED
    BY <2>1, QuotientGrows
<1> DEFINE ad == A(d)
           ae == A(e)
           qd == Q(d)
           qe == Q(e)
<1>4. /\ d < dz => ad = 0
      /\ e < dz => ae = 0
      /\ d >= dz => qd \in Nat /\ ad = (IF qd > I16Max THEN I16Max ELSE qd) /\ qd <= qe
      /\ e >= dz => qe \in Nat /\ ae = IF qe > I16Max THEN I16Max ELSE qe
      /\ d >= range => d >= dz /\ qd >= I16Max
  <2>1. (d < dz => ad = 0) /\ (e < dz => ae = 0)
    BY <1>1
  <2>2. d >= dz => qd \in Nat /\ ad = (IF qd > I16Max THEN I16Max ELSE qd) /\ qd <= qe
    BY <1>2, <1>3
  <2>3. e >= dz => qe \in Nat /\ ae = IF qe > I16Max THEN I16Max ELSE qe
    BY <1>2
  <2>4. d >= range => d >= dz /\ qd >= I16Max
    <3>1. d >= range => d >= dz
      OBVIOUS
    <3> QED
      BY <1>2, <3>1
  <2> QED
    BY <2>1, <2>2, <2>3, <2>4
<1> HIDE DEF ad, ae, qd, qe
<1>5. /\ ad \in Nat /\ ad <= 32767 /\ ad <= ae
      /\ d < dz => ad = 0
      /\ d >= range => ad = 32767
  <2>1. CASE d < dz
    <3>1. ad = 0 /\ ~(d >= range)
      BY <1>4, <2>1
    <3>2. ae \in Nat
      BY <1>4 DEF I16Max
    <3> QED
      BY <2>1, <3>1, <3>2
  <2>2. CASE d >= dz
    <3>1. /\ qd \in Nat /\ qe \in Nat /\ qd <= qe
          /\ ad = IF qd > 32767 THEN 32767 ELSE qd
          /\ ae = IF qe > 32767 THEN 32767 ELSE qe
          /\ d >= range => qd >= 32767
      BY <1>4, <2>2 DEF I16Max
    <3> HIDE DEF ad, ae, qd, qe
    <3> QED
      BY <2>2, <3>1
  <2> QED
    BY <2>1, <2>2
<1> QED
  BY <1>5 DEF ad, ae, I16Max

(* ... so that every reading, in range or not, gives an i16, a larger one  *)
(* never a smaller deflection, the dead zone none, and the ends of the     *)
(* range a full one.                                                       *)
THEOREM AxesFitAndGrow ==
  ASSUME NEW c \in Int, NEW dz \in Nat \ {0}, NEW range \in Nat, dz < range,
         NEW r \in Int, NEW s \in Int, r <= s
  PROVE  /\ IsI16(Axis(r, c, dz, range))
         /\ Axis(r, c, dz, range) <= Axis(s, c, dz, range)
         /\ Abs(r - c) < dz => Axis(r, c, dz, range) = 0
         /\ r >= c + range => Axis(r, c, dz, range) = I16Max
         /\ r <= c - range => Axis(r, c, dz, range) = -I16Max
<1>1. \A x \in Int : \E n \in Nat : x = c + n \/ x = c - n
  <2> TAKE x \in Int
  <2>1. CASE x >= c
    <3>1. x - c \in Nat /\ x = c + (x - c)
      BY <2>1
    <3> QED
      BY <3>1
  <2>2. CASE x < c
    <3>1. c - x \in Nat /\ x = c - (c - x)
      BY <2>2
    <3> QED
      BY <3>1
  <2> QED
    BY <2>1, <2>2
<1>2. PICK m \in Nat, n \in Nat : (r = c + m \/ r = c - m) /\ (s = c + n \/ s = c - n)
  BY <1>1
<1> DEFINE ar == Axis(r, c, dz, range)
           ax == Axis(s, c, dz, range)
           am == Axis(c + m, c, dz, range)
           an == Axis(c + n, c, dz, range)
<1>3. /\ am \in Nat /\ am <= I16Max /\ an \in Nat /\ an <= I16Max
      /\ m < dz => am = 0
      /\ m >= range => am = I16Max
  <2>1. m <= m /\ n <= n
    OBVIOUS
  <2>2. am \in Nat /\ am <= I16Max /\ (m < dz => am = 0) /\ (m >= range => am = I16Max)
    BY <2>1, AxisAboveCenter
  <2>3. an \in Nat /\ an <= I16Max
    BY <2>1, AxisAboveCenter
  <2> QED
    BY <2>2, <2>3
<1>4. (m <= n => am <= an) /\ (n <= m => an <= am)
  BY AxisAboveCenter
<1>5. Axis(c - m, c, dz, range) = -am /\ Axis(c - n, c, dz, range) = -an
  <2>1. Axis(c - m, c, dz, range) = -Axis(c + m, c, dz, range)
    BY Zenon, AxisIsOdd
  <2>2. Axis(c - n, c, dz, range) = -Axis(c + n, c, dz, range)
    BY Zenon, AxisIsOdd
  <2> QED
    BY Zenon, <2>1, <2>2
<1>6. (r = c + m /\ ar = am) \/ (r = c - m /\ ar = -am)
  BY <1>2, <1>5
<1>7. (s = c + n /\ ax = an) \/ (s = c - n /\ ax = -an)
  BY <1>2, <1>5
<1>8. I16Max = 32767 /\ Abs(r - c) = m
  BY <1>2 DEF I16Max, Abs
<1> HIDE DEF ar, ax, am, an
<1>9. /\ IsI16(ar)
      /\ m < dz => ar = 0
      /\ r >= c + range => ar = I16Max
      /\ r <= c - range => ar = -I16Max
  <2>1. /\ m < dz => ar = 0
        /\ IsI16(ar)
    <3>1. ar = am \/ ar = -am
      BY <1>6
    <3>2. am \in Nat /\ am <= 32767
      BY <1>3, <1>8
    <3>3. ar \in Int /\ -32767 <= ar /\ ar <= 32767
      BY <3>1, <3>2
    <3> QED
      BY <1>3, <1>8, <3>1, <3>3 DEF IsI16, I16Max
  <2>2. r >= c + range => ar = I16Max
    BY <1>3, <1>6, <1>8
  <2>3. r <= c - range => ar = -I16Max
    BY <1>3, <1>6, <1>8
  <2> QED
    BY <2>1, <2>2, <2>3
<1>10. ar <= ax
  <2>1. CASE r = c + m /\ ar = am /\ s = c + n /\ ax = an
    BY <1>4, <2>1
  <2>2. CASE r = c - m /\ ar = -am /\ s = c - n /\ ax = -an
    <3>1. n <= m
      BY <2>2
    <3> QED
      BY <1>3, <1>4, <1>8, <2>2, <3>1
  <2>3. CASE r = c - m /\ ar = -am /\ s = c + n /\ ax = an
    BY <1>3, <1>8, <2>3
  <2>4. CASE r = c + m /\ ar = am /\ s = c - n /\ ax = -an
    <3>1. m = 0 /\ n = 0
      BY <2>4
    <3>2. ar = am /\ ax = -am
      BY <2>4, <3>1 DEF am, an
    <3>3. am = 0
      BY <1>3, <3>1
    <3> QED
      BY <3>2, <3>3
  <2> QED
    BY <1>6, <1>7, <2>1, <2>2, <2>3, <2>4
<1> QED
  BY <1>8, <1>9, <1>10 DEF ar, ax

(* The tilt of a Wiimote and the stick of a Nunchuk are such axes.         *)
THEOREM SticksFitAndGrow ==
  ASSUME NEW r \in Int, NEW s \in Int, r <= s
  PROVE  /\ IsI16(TiltToStick(r)) /\ TiltToStick(r) <= TiltToStick(s)
         /\ IsI16(NunchukStickToAxis(r))
         /\ NunchukStickToAxis(r) <= NunchukStickToAxis(s)
<1>1. /\ ACCEL_CENTER \in Int /\ ACCEL_DEADZONE \in Nat \ {0} /\ ACCEL_RANGE \in Nat
      /\ ACCEL_DEADZONE < ACCEL_RANGE
      /\ STICK_CENTER \in Int /\ STICK_DEADZONE \in Nat \ {0} /\ STICK_RANGE \in Nat
      /\ STICK_DEADZONE < STICK_RANGE
  BY DEF ACCEL_CENTER, ACCEL_DEADZONE, ACCEL_RANGE, STICK_CENTER, STICK_DEADZONE, STICK_RANGE
<1> QED
  BY <1>1, AxesFitAndGrow DEF TiltToStick, NunchukStickToAxis

-----------------------------------------------------------------------------
(* The whammy bar of a guitar (extension_fsm.rs, backend.rs).              *)

(* The calibration of a 5-bit reading is a 5-bit reading, whatever was     *)
(* read before; the lowest reading so far is 0.                            *)
THEOREM CalibrationStaysInRange ==
  ASSUME NEW w \in 0..31, NEW b \in 0..31
  PROVE  LET low == Baseline(b, w) IN
         /\ low \in 0..w
         /\ Calibrated(low, w) \in 0..31
         /\ w <= b => Calibrated(low, w) = 0
         /\ b < 31 /\ w = 31 => Calibrated(low, w) = 31
<1> DEFINE low == Baseline(b, w)
           span == IF low < 31 THEN 31 - low ELSE 1
<1>1. low \in 0..w /\ (w <= b => low = w) /\ (b < 31 /\ w = 31 => low = b)
  BY DEF Baseline
<1>2. span \in Nat \ {0} /\ w - low <= span /\ (w = 31 /\ low < 31 => w - low = span)
  BY <1>1
<1>3. Calibrated(low, w) = ((w - low) * 31) \div span
  BY DEF Calibrated
<1> HIDE DEF low, span
<1>4. (w - low) * 31 \in Nat /\ (w - low) * 31 <= 31 * span
  BY <1>1, <1>2
<1>5. Calibrated(low, w) \in 0..31
  BY <1>2, <1>3, <1>4, QuotientBound
<1>6. ASSUME w <= b PROVE Calibrated(low, w) = 0
  <2>1. (w - low) * 31 = 0
    BY <1>1, <1>6
  <2> QED
    BY <1>2, <1>3, <2>1
<1>7. ASSUME b < 31, w = 31 PROVE Calibrated(low, w) = 31
  <2>1. w - low = span
    BY <1>1, <1>2, <1>7
  <2> QED
    BY <1>2, <1>3, <2>1
<1> QED
  BY <1>1, <1>5, <1>6, <1>7 DEF low

(* The bar's axis is an i16 from end to end, for readings beyond 31 too.   *)
THEOREM WhammyFits ==
  ASSUME NEW w \in Nat
  PROVE  /\ IsI16(WhammyToAxis(w))
         /\ WhammyToAxis(0) = -I16Max
         /\ w >= 31 => WhammyToAxis(w) = I16Max
<1> DEFINE v == IF w < 31 THEN w ELSE 31
           q == (v * 65534) \div 31
<1>1. v \in 0..31 /\ (w = 0 => v = 0) /\ (w >= 31 => v = 31)
  OBVIOUS
<1>2. WhammyToAxis(w) = q - 32767
  BY DEF WhammyToAxis, I16Max
<1> HIDE DEF v
<1>3. v * 65534 \in Nat /\ v * 65534 <= 65534 * 31
  BY <1>1
<1>4. q \in Nat /\ q <= 65534
  BY <1>3, QuotientBound
<1>7. v = 31 => q = 65534
  OBVIOUS
<1>5. (0 * 65534) \div 31 = 0
  OBVIOUS
<1>6. WhammyToAxis(0) = -32767
  BY <1>5 DEF WhammyToAxis, I16Max
<1> HIDE DEF q
<1> QED
  BY <1>1, <1>2, <1>4, <1>6, <1>7 DEF IsI16, I16Max

-----------------------------------------------------------------------------
(* The virtual pad on Linux (linux.rs).                                    *)

EvdevKeys == {EvdevKey[c] : c \in DOMAIN EvdevKey}

LEMMA KeysDiffer ==
  ASSUME NEW c \in DOMAIN EvdevKey, NEW d \in DOMAIN EvdevKey, EvdevKey[c] = EvdevKey[d]
  PROVE  c = d
BY DEF EvdevKey

(* After the events of a frame the device holds the keys of the frame and  *)
(* no others, whatever it held before: nothing of an earlier frame, of     *)
(* another profile or of an update that was lost stays pressed.            *)
THEOREM UinputShowsFrame ==
  ASSUME NEW s, s.pressed \subseteq DOMAIN EvdevKey,
         NEW dev, dev.held \subseteq EvdevKeys
  PROVE  Emitted(dev, XboxToEvents(s)).held = {EvdevKey[c] : c \in s.pressed}
<1> DEFINE keys == {<<EvdevKey[c], c \in s.pressed>> : c \in DOMAIN EvdevKey}
           shown == {EvdevKey[c] : c \in s.pressed}
           held == {k \in dev.held : <<k, FALSE>> \notin keys}
                     \cup {e[1] : e \in {f \in keys : f[2]}}
<1>1. Emitted(dev, XboxToEvents(s)).held = held
  BY DEF Emitted, XboxToEvents
<1>2. ASSUME NEW c \in DOMAIN EvdevKey
      PROVE  <<EvdevKey[c], FALSE>> \in keys <=> c \notin s.pressed
  <2>1. ASSUME c \notin s.pressed PROVE <<EvdevKey[c], FALSE>> \in keys
    <3>1. <<EvdevKey[c], c \in s.pressed>> \in keys
      OBVIOUS
    <3>2. (c \in s.pressed) = FALSE
      BY <2>1
    <3> QED
      BY <3>1, <3>2
  <2>2. ASSUME <<EvdevKey[c], FALSE>> \in keys PROVE c \notin s.pressed
    <3>1. PICK d \in DOMAIN EvdevKey : <<EvdevKey[c], FALSE>> = <<EvdevKey[d], d \in s.pressed>>
      BY <2>2
    <3>2. EvdevKey[c] = EvdevKey[d] /\ d \notin s.pressed
      BY <3>1
    <3> QED
      BY <3>2, KeysDiffer
  <2> QED
    BY <2>1, <2>2
<1>3. {e[1] : e \in {f \in keys : f[2]}} = shown
  <2>1. ASSUME NEW e \in keys, e[2] PROVE e[1] \in shown
    <3>1. PICK c \in DOMAIN EvdevKey : e = <<EvdevKey[c], c \in s.pressed>>
      OBVIOUS
    <3>2. e[1] = EvdevKey[c] /\ e[2] = (c \in s.pressed)
      BY <3>1
    <3> QED
      BY <2>1, <3>2
  <2>2. ASSUME NEW c \in s.pressed
        PROVE  \E e \in keys : e[2] /\ e[1] = EvdevKey[c]
    <3>1. c \in DOMAIN EvdevKey
      OBVIOUS
    <3>2. <<EvdevKey[c], c \in s.pressed>> \in keys
      BY <3>1
    <3> QED
      BY <3>2
  <2> HIDE DEF keys
  <2> QED
    BY <2>1, <2>2
<1>4. \A k \in dev.held : <<k, FALSE>> \notin keys => k \in shown
  <2> SUFFICES ASSUME NEW k \in dev.held, <<k, FALSE>> \notin keys PROVE k \in shown
    OBVIOUS
  <2>1. PICK c \in DOMAIN EvdevKey : k = EvdevKey[c]
    BY DEF EvdevKeys
  <2> HIDE DEF keys
  <2> QED
    BY <1>2, <2>1
<1> HIDE DEF keys, shown
<1> QED
  BY <1>1, <1>3, <1>4 DEF shown

-----------------------------------------------------------------------------
(* Addresses (helpers.rs, platform/linux_impl.rs).                         *)

(* The id of a Wiimote is the same canonical MAC on Linux, from BlueZ's    *)
(* Address, and on Windows, from rgBytes; and the number leads back to the *)
(* Address.                                                                *)
THEOREM IdsAreCanonical ==
  ASSUME NEW S, NEW a \in Seq(S)
  PROVE  /\ FormatAddr(AddressToU64(a)) = a
         /\ FormatAddr(BtAddrU64(Reverse(a))) = a
         /\ U64ToAddress(AddressToU64(a)) = a
<1>1. Reverse(Reverse(a)) = a
  BY DEF Reverse
<1> QED
  BY <1>1 DEF FormatAddr, AddressToU64, BtAddrU64, U64ToAddress

(* What Forget asks the system to unpair is the id read backwards: another *)
(* address than the one the id was printed from, unless it is a            *)
(* palindrome.                                                             *)
THEOREM ForgetReadsBackwards ==
  ASSUME NEW S, NEW b \in Seq(S)
  PROVE  MacToU64(FormatAddr([le |-> b])) = [le |-> b] <=> Reverse(b) = b
<1>1. Reverse(b) \in Seq(S)
  BY DEF Reverse
<1>2. [i \in 1..Len(Reverse(b)) |-> Reverse(b)[i]] = Reverse(b)
  BY <1>1
<1>3. MacToU64(FormatAddr([le |-> b])) = [le |-> Reverse(b)]
  BY <1>2 DEF MacToU64, FormatAddr
<1> QED
  BY <1>3

-----------------------------------------------------------------------------
(* Bits and bytes (report.rs, buttons.rs, extension.rs), against what a    *)
(* Wiimote packs into them.                                                *)

LEMMA Powers ==
  /\ 2 ^ 0 = 1 /\ 2 ^ 1 = 2 /\ 2 ^ 2 = 4 /\ 2 ^ 3 = 8
  /\ 2 ^ 4 = 16 /\ 2 ^ 5 = 32 /\ 2 ^ 6 = 64 /\ 2 ^ 7 = 128 /\ 2 ^ 8 = 256
OBVIOUS

(* A byte, with two more bits where a report has them for the readings of  *)
(* the accelerometer.                                                      *)
LEMMA BitsOfByte ==
  ASSUME NEW a \in 0..1, NEW b \in 0..1, NEW c \in 0..1, NEW d \in 0..1,
         NEW e \in 0..1, NEW f \in 0..1, NEW g \in 0..1, NEW h \in 0..1,
         NEW n, n = a + 2 * b + 4 * c + 8 * d + 16 * e + 32 * f + 64 * g + 128 * h
  PROVE  /\ n \in Byte
         /\ Bit(n, 0) = a /\ Bit(n, 1) = b /\ Bit(n, 2) = c /\ Bit(n, 3) = d
         /\ Bit(n, 4) = e /\ Bit(n, 5) = f /\ Bit(n, 6) = g /\ Bit(n, 7) = h
         /\ Bits(n, 5, 2) = f + 2 * g
<1>1. n \in Byte
  BY DEF Byte
<1>2. Bit(n, 0) = a /\ Bit(n, 1) = b
  BY Powers DEF Bit
<1>3. Bit(n, 2) = c /\ Bit(n, 3) = d
  BY Powers DEF Bit
<1>4. Bit(n, 4) = e /\ Bit(n, 5) = f
  BY Powers DEF Bit
<1>5. Bit(n, 6) = g /\ Bit(n, 7) = h
  BY Powers DEF Bit
<1>6. Bits(n, 5, 2) = f + 2 * g
  BY Powers DEF Bits
<1> QED
  BY <1>1, <1>2, <1>3, <1>4, <1>5, <1>6

(* A packed byte has the bits of the flags that are set, and no others.    *)
At(bits, held, n, k) == IF \E b \in held : bits[b] = <<n, k>> THEN 1 ELSE 0

LEMMA PackedSum ==
  ASSUME NEW bits, NEW held, NEW n
  PROVE  /\ \A k : At(bits, held, n, k) \in 0..1
         /\ PackedBits(bits, held, n) =
              At(bits, held, n, 0) + 2 * At(bits, held, n, 1) + 4 * At(bits, held, n, 2)
                + 8 * At(bits, held, n, 3) + 16 * At(bits, held, n, 4)
                + 32 * At(bits, held, n, 5) + 64 * At(bits, held, n, 6)
                + 128 * At(bits, held, n, 7)
BY Powers DEF PackedBits, At

LEMMA PackedBit ==
  ASSUME NEW bits, NEW held, NEW n
  PROVE  LET byte == PackedBits(bits, held, n)
         IN  /\ byte \in Byte
             /\ \A k \in 0..7 : IsSet(byte, k) <=> \E b \in held : bits[b] = <<n, k>>
<1> DEFINE byte == PackedBits(bits, held, n)
           at(k) == At(bits, held, n, k)
<1>1. /\ \A k \in 0..7 : at(k) \in 0..1
      /\ byte = at(0) + 2 * at(1) + 4 * at(2) + 8 * at(3) + 16 * at(4) + 32 * at(5)
                  + 64 * at(6) + 128 * at(7)
  BY PackedSum
<1> HIDE DEF at, byte
<1>2. /\ byte \in Byte
      /\ Bit(byte, 0) = at(0) /\ Bit(byte, 1) = at(1) /\ Bit(byte, 2) = at(2)
      /\ Bit(byte, 3) = at(3) /\ Bit(byte, 4) = at(4) /\ Bit(byte, 5) = at(5)
      /\ Bit(byte, 6) = at(6) /\ Bit(byte, 7) = at(7)
  BY <1>1, BitsOfByte
<1>3. \A k \in 0..7 : Bit(byte, k) = at(k)
  BY <1>2
<1>4. \A k \in 0..7 : at(k) = 1 <=> \E b \in held : bits[b] = <<n, k>>
  BY DEF at, At
<1> QED
  BY <1>2, <1>3, <1>4 DEF IsSet, byte

(* The two bytes of the Wiimote's buttons leave bits 5 and 6 to others.    *)
LEMMA ButtonCodes ==
  ASSUME NEW b \in Buttons
  PROVE  /\ ButtonBits[b] = <<ButtonBits[b][1], ButtonBits[b][2]>>
         /\ ButtonBits[b][1] \in 0..1
         /\ ButtonBits[b][2] \in {0, 1, 2, 3, 4, 7}
         /\ \A c \in Buttons : ButtonBits[b] = ButtonBits[c] => b = c
BY DEF Buttons, ButtonBits

LEMMA ButtonByte ==
  ASSUME NEW held \in SUBSET Buttons, NEW n \in 0..1, NEW f \in 0..1, NEW g \in 0..1
  PROVE  LET byte == PackedBits(ButtonBits, held, n) + 32 * (f + 2 * g)
         IN  /\ byte \in Byte
             /\ \A b \in Buttons :
                  ButtonBits[b][1] = n => (IsSet(byte, ButtonBits[b][2]) <=> b \in held)
             /\ Bits(byte, 5, 2) = f + 2 * g
             /\ Bit(byte, 5) = f /\ Bit(byte, 6) = g
<1> DEFINE byte == PackedBits(ButtonBits, held, n) + 32 * (f + 2 * g)
           at(k) == At(ButtonBits, held, n, k)
<1>1. /\ \A k \in 0..7 : at(k) \in 0..1
      /\ PackedBits(ButtonBits, held, n) =
           at(0) + 2 * at(1) + 4 * at(2) + 8 * at(3) + 16 * at(4) + 32 * at(5)
             + 64 * at(6) + 128 * at(7)
  BY PackedSum
<1>2. \A k \in {5, 6} : at(k) = 0
  <2> SUFFICES ASSUME NEW k \in {5, 6}, NEW b \in held, ButtonBits[b] = <<n, k>>
               PROVE  FALSE
    BY DEF At
  <2>1. ButtonBits[b][2] = k
    OBVIOUS
  <2> QED
    BY <2>1, ButtonCodes
<1>3. \A b \in Buttons : ButtonBits[b][1] = n => (at(ButtonBits[b][2]) = 1 <=> b \in held)
  <2> SUFFICES ASSUME NEW b \in Buttons, ButtonBits[b][1] = n
               PROVE  at(ButtonBits[b][2]) = 1 <=> b \in held
    OBVIOUS
  <2>1. ButtonBits[b] = <<n, ButtonBits[b][2]>>
    BY ButtonCodes
  <2>2. (\E c \in held : ButtonBits[c] = <<n, ButtonBits[b][2]>>) <=> b \in held
    BY <2>1, ButtonCodes
  <2> QED
    BY <2>2 DEF At
<1> HIDE DEF at
<1>4. byte = at(0) + 2 * at(1) + 4 * at(2) + 8 * at(3) + 16 * at(4) + 32 * f + 64 * g
               + 128 * at(7)
  BY <1>1, <1>2
<1> HIDE DEF byte
<1>5. /\ byte \in Byte
      /\ Bit(byte, 0) = at(0) /\ Bit(byte, 1) = at(1) /\ Bit(byte, 2) = at(2)
      /\ Bit(byte, 3) = at(3) /\ Bit(byte, 4) = at(4) /\ Bit(byte, 7) = at(7)
      /\ Bit(byte, 5) = f /\ Bit(byte, 6) = g
      /\ Bits(byte, 5, 2) = f + 2 * g
  BY <1>1, <1>4, BitsOfByte
<1>6. \A k \in {0, 1, 2, 3, 4, 7} : Bit(byte, k) = at(k)
  BY <1>5
<1>7. \A b \in Buttons : ButtonBits[b][1] = n => (IsSet(byte, ButtonBits[b][2]) <=> b \in held)
  BY <1>3, <1>6, ButtonCodes DEF IsSet
<1> QED
  BY <1>5, <1>7 DEF byte

(* parse_buttons gives back what is held, whatever is packed beside it.    *)
LEMMA ButtonsParsed ==
  ASSUME NEW held \in SUBSET Buttons, NEW low0 \in 0..3, NEW low1 \in 0..3
  PROVE  LET bb == ButtonBytes(held, low0, low1)
         IN  /\ bb = <<bb[1], bb[2]>> /\ bb[1] \in Byte /\ bb[2] \in Byte
             /\ ParseButtons(bb[1], bb[2]) = held
             /\ Bits(bb[1], 5, 2) = low0
             /\ Bit(bb[2], 5) + 2 * Bit(bb[2], 6) = low1
             /\ Bit(bb[2], 5) \in 0..1 /\ Bit(bb[2], 6) \in 0..1
<1> DEFINE byte0 == PackedBits(ButtonBits, held, 0) + 32 * low0
           byte1 == PackedBits(ButtonBits, held, 1) + 32 * low1
<1>1. /\ low0 % 2 \in 0..1 /\ low0 \div 2 \in 0..1 /\ low0 = (low0 % 2) + 2 * (low0 \div 2)
      /\ low1 % 2 \in 0..1 /\ low1 \div 2 \in 0..1 /\ low1 = (low1 % 2) + 2 * (low1 \div 2)
  OBVIOUS
<1>2. /\ byte0 \in Byte
      /\ \A b \in Buttons : ButtonBits[b][1] = 0 => (IsSet(byte0, ButtonBits[b][2]) <=> b \in held)
      /\ Bits(byte0, 5, 2) = low0
  BY <1>1, ButtonByte
<1>3. /\ byte1 \in Byte
      /\ \A b \in Buttons : ButtonBits[b][1] = 1 => (IsSet(byte1, ButtonBits[b][2]) <=> b \in held)
      /\ Bit(byte1, 5) = low1 % 2 /\ Bit(byte1, 6) = low1 \div 2
  BY <1>1, ButtonByte
<1>4. ButtonBytes(held, low0, low1) = <<byte0, byte1>>
  BY DEF ButtonBytes
<1> HIDE DEF byte0, byte1
<1>5. \A b \in Buttons :
        IsSet(<<byte0, byte1>>[ButtonBits[b][1] + 1], ButtonBits[b][2]) <=> b \in held
  <2> SUFFICES ASSUME NEW b \in Buttons
               PROVE  IsSet(<<byte0, byte1>>[ButtonBits[b][1] + 1], ButtonBits[b][2]) <=> b \in held
    OBVIOUS
  <2>1. CASE ButtonBits[b][1] = 0
    BY <1>2, <2>1
  <2>2. CASE ButtonBits[b][1] = 1
    BY <1>3, <2>2
  <2> QED
    BY <2>1, <2>2, ButtonCodes
<1>6. ParseButtons(byte0, byte1) = held
  BY <1>5 DEF ParseButtons
<1> QED
  BY <1>1, <1>2, <1>3, <1>4, <1>6

(* Sequences of bytes, and one after another.                              *)
Bytes == Seq(Nat)

Joins(b, p, q) ==
  /\ b \in Bytes
  /\ Len(b) = Len(p) + Len(q)
  /\ \A i \in 1..Len(p) : b[i] = p[i]
  /\ \A i \in (Len(p) + 1)..(Len(p) + Len(q)) : b[i] = q[i - Len(p)]

LEMMA Joined ==
  ASSUME NEW p \in Bytes, NEW q \in Bytes
  PROVE  Joins(p \o q, p, q)
BY DEF Bytes, Joins

LEMMA OneByte ==
  ASSUME NEW a \in Nat
  PROVE  <<a>> \in Bytes /\ Len(<<a>>) = 1
BY DEF Bytes

LEMMA TwoBytes ==
  ASSUME NEW a \in Nat, NEW b \in Nat
  PROVE  <<a, b>> \in Bytes /\ Len(<<a, b>>) = 2
BY DEF Bytes

LEMMA ThreeBytes ==
  ASSUME NEW a \in Nat, NEW b \in Nat, NEW c \in Nat
  PROVE  <<a, b, c>> \in Bytes /\ Len(<<a, b, c>>) = 3
BY DEF Bytes

LEMMA FourBytes ==
  ASSUME NEW a \in Nat, NEW b \in Nat, NEW c \in Nat, NEW d \in Nat
  PROVE  <<a, b, c, d>> \in Bytes /\ Len(<<a, b, c, d>>) = 4
BY DEF Bytes

(* A reading of ten bits, as its high eight and what is left.              *)
LEMMA Quarters ==
  ASSUME NEW v \in Nat
  PROVE  /\ v \div 4 \in Nat /\ v % 4 \in 0..3 /\ (v \div 2) % 2 \in 0..1 /\ v \div 2 \in Nat
         /\ 4 * (v \div 4) + (v % 4) = v
         /\ 4 * (v \div 4) + (2 * ((v \div 2) % 2)) = 2 * (v \div 2)
         /\ Bit(v, 1) = (v \div 2) % 2
<1>1. v \div 4 \in Nat /\ v % 4 \in 0..3 /\ (v \div 2) % 2 \in 0..1 /\ v \div 2 \in Nat
  OBVIOUS
<1>2. 4 * (v \div 4) + (v % 4) = v
  OBVIOUS
<1>3. 4 * (v \div 4) + (2 * ((v \div 2) % 2)) = 2 * (v \div 2)
  OBVIOUS
<1>4. Bit(v, 1) = (v \div 2) % 2
  BY Powers DEF Bit
<1> QED
  BY <1>1, <1>2, <1>3, <1>4

LEMMA Reading ==
  ASSUME NEW a \in Readings
  PROVE  a = [x |-> a.x, y |-> a.y, z |-> a.z] /\ a.x \in Nat /\ a.y \in Nat /\ a.z \in Nat
<1>1. a = [x |-> a.x, y |-> a.y, z |-> a.z]
  BY DEF Readings
<1>2. a.x \in Nat
  BY DEF Readings
<1>3. a.y \in Nat
  BY DEF Readings
<1>4. a.z \in Nat
  BY DEF Readings
<1> QED
  BY <1>1, <1>2, <1>3, <1>4

(* parse_accel gives them back up to the lowest bit of y and of z, which a *)
(* Wiimote does not send.                                                  *)
LEMMA AccelParsed ==
  ASSUME NEW held \in SUBSET Buttons, NEW a \in Readings
  PROVE  LET b == AccelBytes(held, a)
         IN  /\ b \in Bytes /\ Len(b) = 5
             /\ ParseButtons(b[1], b[2]) = held
             /\ ParseAccel(b[1], b[2], b[3], b[4], b[5]) = Coarse(a)
<1> DEFINE x == a.x
           y == a.y
           z == a.z
           low0 == x % 4
           y1 == (y \div 2) % 2
           z1 == (z \div 2) % 2
           bb == ButtonBytes(held, low0, y1 + 2 * z1)
           xh == x \div 4
           yh == y \div 4
           zh == z \div 4
           high == <<xh, yh, zh>>
           b == AccelBytes(held, a)
<1>1. x \in Nat /\ y \in Nat /\ z \in Nat /\ a = [x |-> x, y |-> y, z |-> z]
  BY Reading
<1>2. b = bb \o high
  <2>1. Bit(y, 1) = y1
    <3> HIDE DEF y
    <3> QED
      BY <1>1, Quarters
  <2>2. Bit(z, 1) = z1
    <3> HIDE DEF z
    <3> QED
      BY <1>1, Quarters
  <2> QED
    BY <2>1, <2>2 DEF AccelBytes
<1>3. Coarse(a) = [x |-> x, y |-> 2 * (y \div 2), z |-> 2 * (z \div 2)]
  BY DEF Coarse
<1> HIDE DEF x, y, z, b
<1>4. low0 \in 0..3 /\ xh \in Nat /\ 4 * xh + low0 = x
  BY <1>1, Quarters
<1>5. y1 \in 0..1 /\ yh \in Nat /\ 4 * yh + (2 * y1) = 2 * (y \div 2)
  BY <1>1, Quarters
<1>6. z1 \in 0..1 /\ zh \in Nat /\ 4 * zh + (2 * z1) = 2 * (z \div 2)
  BY <1>1, Quarters
<1> HIDE DEF low0, y1, z1, xh, yh, zh
<1>7. /\ bb = <<bb[1], bb[2]>> /\ bb[1] \in Byte /\ bb[2] \in Byte
      /\ ParseButtons(bb[1], bb[2]) = held
      /\ Bits(bb[1], 5, 2) = low0
      /\ Bit(bb[2], 5) + (2 * Bit(bb[2], 6)) = y1 + (2 * z1)
      /\ Bit(bb[2], 5) \in 0..1 /\ Bit(bb[2], 6) \in 0..1
  <2>1. y1 + (2 * z1) \in 0..3
    BY <1>5, <1>6
  <2> QED
    BY <1>4, <2>1, ButtonsParsed
<1> HIDE DEF bb
<1>8. Bit(bb[2], 5) = y1 /\ Bit(bb[2], 6) = z1
  BY <1>5, <1>6, <1>7
<1>9. bb \in Bytes /\ Len(bb) = 2
  <2> DEFINE b1 == bb[1]
             b2 == bb[2]
  <2>1. bb = <<b1, b2>> /\ b1 \in Nat /\ b2 \in Nat
    BY <1>7 DEF Byte
  <2> HIDE DEF b1, b2
  <2> QED
    BY <2>1, TwoBytes
<1>10. /\ high \in Bytes /\ Len(high) = 3
       /\ high[1] = xh /\ high[2] = yh /\ high[3] = zh
  BY <1>4, <1>5, <1>6, ThreeBytes
<1> HIDE DEF high
<1>11. Joins(b, bb, high)
  BY <1>2, <1>9, <1>10, Joined
<1>12. /\ b \in Bytes /\ Len(b) = 5 /\ b[1] = bb[1] /\ b[2] = bb[2]
       /\ b[3] = xh /\ b[4] = yh /\ b[5] = zh
  BY <1>9, <1>10, <1>11 DEF Joins
<1>13. ParseAccel(bb[1], bb[2], xh, yh, zh) = Coarse(a)
  BY <1>3, <1>4, <1>5, <1>6, <1>7, <1>8 DEF ParseAccel
<1> QED
  BY <1>7, <1>12, <1>13 DEF b

-----------------------------------------------------------------------------
(* Extensions: what one can be, to whoever plays it.                       *)

(* The buttons of a payload, a cleared bit being a pressed one.            *)
LEMMA ClearedParsed ==
  ASSUME NEW bits, NEW held \in SUBSET DOMAIN bits,
         \A n \in DOMAIN bits : /\ bits[n] = <<bits[n][1], bits[n][2]>>
                                /\ bits[n][1] \in 4..5 /\ bits[n][2] \in 0..7
                                /\ \A m \in DOMAIN bits : bits[n] = bits[m] => n = m,
         NEW b, b[5] = ClearedBytes(bits, held)[1], b[6] = ClearedBytes(bits, held)[2]
  PROVE  Cleared(bits, b) = held
<1>1. ASSUME NEW n \in 4..5, NEW k \in 0..7
      PROVE  ~IsSet(255 - PackedBits(bits, held, n), k) <=> \E m \in held : bits[m] = <<n, k>>
  <2> DEFINE at(i) == At(bits, held, n, i)
             byte == PackedBits(bits, held, n)
             inv == 255 - byte
             co(i) == 1 - at(i)
  <2>1. /\ \A i \in 0..7 : at(i) \in 0..1
        /\ byte = at(0) + 2 * at(1) + 4 * at(2) + 8 * at(3) + 16 * at(4) + 32 * at(5)
                    + 64 * at(6) + 128 * at(7)
    BY PackedSum
  <2> HIDE DEF at, byte
  <2>2. /\ \A i \in 0..7 : co(i) \in 0..1
        /\ inv = co(0) + 2 * co(1) + 4 * co(2) + 8 * co(3) + 16 * co(4) + 32 * co(5)
                   + 64 * co(6) + 128 * co(7)
    BY <2>1
  <2> HIDE DEF inv, co
  <2>3. \A i \in 0..7 : Bit(inv, i) = co(i)
    <3>1. /\ Bit(inv, 0) = co(0) /\ Bit(inv, 1) = co(1) /\ Bit(inv, 2) = co(2)
          /\ Bit(inv, 3) = co(3) /\ Bit(inv, 4) = co(4) /\ Bit(inv, 5) = co(5)
          /\ Bit(inv, 6) = co(6) /\ Bit(inv, 7) = co(7)
      BY <2>2, BitsOfByte
    <3> QED
      BY <3>1
  <2>4. ~IsSet(inv, k) <=> at(k) = 1
    BY <2>1, <2>3 DEF IsSet, co
  <2> QED
    BY <2>4 DEF inv, byte, at, At
<1>2. \A n \in 4..5 : b[n + 1] = 255 - PackedBits(bits, held, n)
  BY DEF ClearedBytes
<1>3. ASSUME NEW n \in DOMAIN bits
      PROVE  ~IsSet(b[bits[n][1] + 1], bits[n][2]) <=> n \in held
  <2>1. ~IsSet(b[bits[n][1] + 1], bits[n][2]) <=> \E m \in held : bits[m] = <<bits[n][1], bits[n][2]>>
    BY <1>1, <1>2
  <2>2. (\E m \in held : bits[m] = bits[n]) <=> n \in held
    OBVIOUS
  <2>3. bits[n] = <<bits[n][1], bits[n][2]>>
    OBVIOUS
  <2> QED
    BY <2>1, <2>2, <2>3
<1> QED
  BY <1>3 DEF Cleared

LEMMA ExtensionCodes ==
  ASSUME NEW bits \in {ClassicBits, GuitarBits, DrumsBits}, NEW n \in DOMAIN bits
  PROVE  /\ bits[n] = <<bits[n][1], bits[n][2]>>
         /\ bits[n][1] \in 4..5 /\ bits[n][2] \in 0..7
         /\ \A m \in DOMAIN bits : bits[n] = bits[m] => n = m
<1>1. CASE bits = ClassicBits
  BY <1>1 DEF ClassicBits
<1>2. CASE bits = GuitarBits
  BY <1>2 DEF GuitarBits
<1>3. CASE bits = DrumsBits
  BY <1>3 DEF DrumsBits
<1> QED
  BY <1>1, <1>2, <1>3

(* Four bytes and the buttons.                                             *)
LEMMA PayloadOf ==
  ASSUME NEW bits \in {ClassicBits, GuitarBits, DrumsBits}, NEW held \in SUBSET DOMAIN bits,
         NEW c1 \in Nat, NEW c2 \in Nat, NEW c3 \in Nat, NEW c4 \in Nat
  PROVE  LET b == <<c1, c2, c3, c4>> \o ClearedBytes(bits, held)
         IN  /\ b \in Bytes /\ Len(b) = 6
             /\ b[1] = c1 /\ b[2] = c2 /\ b[3] = c3 /\ b[4] = c4
             /\ b[5] = ClearedBytes(bits, held)[1] /\ b[6] = ClearedBytes(bits, held)[2]
<1> DEFINE front == <<c1, c2, c3, c4>>
           back == ClearedBytes(bits, held)
           b == front \o back
<1>1. front \in Bytes /\ Len(front) = 4
  BY FourBytes
<1>2. front[1] = c1 /\ front[2] = c2 /\ front[3] = c3 /\ front[4] = c4
  OBVIOUS
<1>3. back \in Bytes /\ Len(back) = 2
  <2> DEFINE n == 255 - PackedBits(bits, held, 4)
             m == 255 - PackedBits(bits, held, 5)
  <2>1. n \in Nat /\ m \in Nat
    BY PackedBit DEF Byte
  <2>2. back = <<n, m>>
    BY DEF ClearedBytes
  <2> HIDE DEF n, m, back
  <2> QED
    BY <2>1, <2>2, TwoBytes
<1> HIDE DEF front, back
<1>4. Joins(b, front, back)
  BY <1>1, <1>3, Joined
<1> HIDE DEF b
<1>5. /\ b \in Bytes /\ Len(b) = 6
      /\ b[1] = front[1] /\ b[2] = front[2] /\ b[3] = front[3] /\ b[4] = front[4]
      /\ b[5] = back[1] /\ b[6] = back[2]
  BY <1>1, <1>3, <1>4 DEF Joins
<1> QED
  BY <1>2, <1>5 DEF b, back, front

(* The last byte of a Nunchuk: two buttons and the low bits of three axes. *)
LEMMA LowBits ==
  ASSUME NEW x \in 0..3, NEW y \in 0..3, NEW z \in 0..3, NEW c \in 0..1, NEW d \in 0..1,
         NEW n, n = 64 * z + 16 * y + 4 * x + 2 * c + d
  PROVE  /\ n \in Nat
         /\ Bits(n, 2, 2) = x /\ Bits(n, 4, 2) = y /\ Bits(n, 6, 2) = z
         /\ Bit(n, 1) = c /\ Bit(n, 0) = d
<1>1. n \in Nat
  OBVIOUS
<1>2. Bits(n, 2, 2) = x
  BY Powers DEF Bits
<1>3. Bits(n, 4, 2) = y
  BY Powers DEF Bits
<1>4. Bits(n, 6, 2) = z
  BY Powers DEF Bits
<1>5. Bit(n, 1) = c
  BY Powers DEF Bit
<1>6. Bit(n, 0) = d
  BY Powers DEF Bit
<1> QED
  BY <1>1, <1>2, <1>3, <1>4, <1>5, <1>6

(* ParseX gives back what was packed: the Nunchuk ...                      *)
Payload(b, e, x) ==
  /\ b \in Bytes /\ Len(b) = 6
  /\ \A raw : (\A i \in 1..6 : raw[i] = b[i]) => ParseExtension(x, raw) = e

LEMMA NunchukParsed ==
  ASSUME NEW e \in States("Nunchuk")
  PROVE  Payload(ExtBytes(e), e, "Nunchuk")
<1>1. PICK sx \in Byte, sy \in Byte, acc \in Readings, held \in SUBSET {"C", "Z"} :
        e = [kind |-> "Nunchuk", stick_x |-> sx, stick_y |-> sy, accel |-> acc, buttons |-> held]
  BY DEF States
<1> DEFINE x == acc.x
           y == acc.y
           z == acc.z
           x0 == x % 4
           y0 == y % 4
           z0 == z % 4
           xh == x \div 4
           yh == y \div 4
           zh == z \div 4
           c == IF "C" \in held THEN 0 ELSE 1
           d == IF "Z" \in held THEN 0 ELSE 1
           n == 64 * z0 + 16 * y0 + 4 * x0 + 2 * c + d
           b == ExtBytes(e)
<1>2. acc = [x |-> x, y |-> y, z |-> z] /\ x \in Nat /\ y \in Nat /\ z \in Nat
  BY Reading
<1>3. b = <<sx, sy, xh, yh, zh, n>>
  BY <1>1 DEF ExtBytes
<1> HIDE DEF x, y, z, b
<1>4. x0 \in 0..3 /\ xh \in Nat /\ 4 * xh + x0 = x
  BY <1>2, Quarters
<1>5. y0 \in 0..3 /\ yh \in Nat /\ 4 * yh + y0 = y
  BY <1>2, Quarters
<1>6. z0 \in 0..3 /\ zh \in Nat /\ 4 * zh + z0 = z
  BY <1>2, Quarters
<1> HIDE DEF x0, y0, z0, xh, yh, zh
<1>7. c \in 0..1 /\ d \in 0..1
  OBVIOUS
<1>8. held = (IF c = 1 THEN {} ELSE {"C"}) \cup (IF d = 1 THEN {} ELSE {"Z"})
  <2>1. /\ (IF c = 1 THEN {} ELSE {"C"}) = {k \in held : k = "C"}
        /\ (IF d = 1 THEN {} ELSE {"Z"}) = {k \in held : k = "Z"}
    OBVIOUS
  <2>2. held = {k \in held : k = "C"} \cup {k \in held : k = "Z"}
    OBVIOUS
  <2> QED
    BY <2>1, <2>2
<1> HIDE DEF c, d
<1>9. /\ n \in Nat
      /\ Bits(n, 2, 2) = x0 /\ Bits(n, 4, 2) = y0 /\ Bits(n, 6, 2) = z0
      /\ Bit(n, 1) = c /\ Bit(n, 0) = d
  BY <1>4, <1>5, <1>6, <1>7, LowBits
<1> HIDE DEF n
<1>10. b \in Bytes /\ Len(b) = 6
  BY <1>3, <1>4, <1>5, <1>6, <1>9 DEF Bytes, Byte
<1>11. b[1] = sx /\ b[2] = sy /\ b[3] = xh /\ b[4] = yh /\ b[5] = zh /\ b[6] = n
  BY <1>3
<1>12. ASSUME NEW raw, \A i \in 1..6 : raw[i] = b[i]
       PROVE  ParseExtension("Nunchuk", raw) = e
  <2>1. /\ raw[1] = sx /\ raw[2] = sy /\ raw[3] = xh /\ raw[4] = yh /\ raw[5] = zh
        /\ raw[6] = n
    BY <1>11, <1>12
  <2>2. ParseExtension("Nunchuk", raw) = ParseNunchuk(raw)
    BY DEF ParseExtension
  <2>3. ParseNunchuk(raw) =
          [kind |-> "Nunchuk", stick_x |-> sx, stick_y |-> sy,
           accel |-> [x |-> 4 * xh + x0, y |-> 4 * yh + y0, z |-> 4 * zh + z0],
           buttons |-> (IF c = 1 THEN {} ELSE {"C"}) \cup (IF d = 1 THEN {} ELSE {"Z"})]
    BY <1>9, <2>1 DEF ParseNunchuk, IsSet
  <2> QED
    BY <1>1, <1>2, <1>4, <1>5, <1>6, <1>8, <2>2, <2>3
<1> QED
  BY <1>10, <1>12 DEF Payload, b

(* ... and the instruments and the Classic Controller.                     *)
LEMMA GuitarParsed ==
  ASSUME NEW e \in States("Guitar")
  PROVE  Payload(ExtBytes(e), e, "Guitar")
<1>1. PICK sx \in 0..63, sy \in 0..63, touch \in 0..31, w \in 0..31,
           held \in SUBSET DOMAIN GuitarBits :
        e = [kind |-> "Guitar", stick_x |-> sx, stick_y |-> sy, touch_bar |-> touch,
             whammy |-> w, buttons |-> held]
  BY DEF States
<1> DEFINE b == ExtBytes(e)
           c1 == 192 + sx
           c2 == 192 + sy
           c4 == 224 + w
           back == ClearedBytes(GuitarBits, held)
<1>2. b = <<c1, c2, touch, c4>> \o back
  BY <1>1 DEF ExtBytes
<1>3. c1 % 64 = sx /\ c2 % 64 = sy /\ touch % 32 = touch /\ c4 % 32 = w
  OBVIOUS
<1>6. c1 \in Nat /\ c2 \in Nat /\ touch \in Nat /\ c4 \in Nat
  OBVIOUS
<1> HIDE DEF b, c1, c2, c4
<1>4. /\ b \in Bytes /\ Len(b) = 6
      /\ b[1] = c1 /\ b[2] = c2 /\ b[3] = touch /\ b[4] = c4
      /\ b[5] = back[1] /\ b[6] = back[2]
  BY <1>2, <1>6, PayloadOf
<1>5. ASSUME NEW raw, \A i \in 1..6 : raw[i] = b[i]
      PROVE  ParseExtension("Guitar", raw) = e
  <2>1. /\ raw[1] = c1 /\ raw[2] = c2 /\ raw[3] = touch /\ raw[4] = c4
        /\ raw[5] = back[1] /\ raw[6] = back[2]
    BY <1>4, <1>5
  <2>2. Cleared(GuitarBits, raw) = held
    BY <2>1, ExtensionCodes, ClearedParsed
  <2>3. ParseExtension("Guitar", raw) = ParseGuitar(raw)
    BY DEF ParseExtension
  <2> QED
    BY <1>1, <1>3, <2>1, <2>2, <2>3 DEF ParseGuitar
<1> QED
  BY <1>4, <1>5 DEF Payload, b

LEMMA ClassicParsed ==
  ASSUME NEW e \in States("ClassicController")
  PROVE  Payload(ExtBytes(e), e, "ClassicController")
<1>1. PICK held \in SUBSET DOMAIN ClassicBits : e = [kind |-> "Classic", buttons |-> held]
  BY DEF States
<1> DEFINE b == ExtBytes(e)
           back == ClearedBytes(ClassicBits, held)
<1>2. b = <<128, 128, 0, 0>> \o back
  BY <1>1 DEF ExtBytes
<1> HIDE DEF b
<1>3. b \in Bytes /\ Len(b) = 6 /\ b[5] = back[1] /\ b[6] = back[2]
  BY <1>2, PayloadOf
<1>4. ASSUME NEW raw, \A i \in 1..6 : raw[i] = b[i]
      PROVE  ParseExtension("ClassicController", raw) = e
  <2>1. raw[5] = back[1] /\ raw[6] = back[2]
    BY <1>3, <1>4
  <2>2. Cleared(ClassicBits, raw) = held
    BY <2>1, ExtensionCodes, ClearedParsed
  <2>3. ParseExtension("ClassicController", raw) = ParseClassic(raw)
    BY DEF ParseExtension
  <2> QED
    BY <1>1, <2>2, <2>3 DEF ParseClassic
<1> QED
  BY <1>3, <1>4 DEF Payload, b

LEMMA DrumsParsed ==
  ASSUME NEW e \in States("Drums")
  PROVE  Payload(ExtBytes(e), e, "Drums")
<1>1. PICK held \in SUBSET DOMAIN DrumsBits : e = [kind |-> "Drums", buttons |-> held]
  BY DEF States
<1> DEFINE b == ExtBytes(e)
           back == ClearedBytes(DrumsBits, held)
<1>2. b = <<32, 32, 0, 0>> \o back
  BY <1>1 DEF ExtBytes
<1> HIDE DEF b
<1>3. b \in Bytes /\ Len(b) = 6 /\ b[5] = back[1] /\ b[6] = back[2]
  BY <1>2, PayloadOf
<1>4. ASSUME NEW raw, \A i \in 1..6 : raw[i] = b[i]
      PROVE  ParseExtension("Drums", raw) = e
  <2>1. raw[5] = back[1] /\ raw[6] = back[2]
    BY <1>3, <1>4
  <2>2. Cleared(DrumsBits, raw) = held
    BY <2>1, ExtensionCodes, ClearedParsed
  <2>3. ParseExtension("Drums", raw) = ParseDrums(raw)
    BY DEF ParseExtension
  <2> QED
    BY <1>1, <2>2, <2>3 DEF ParseDrums
<1> QED
  BY <1>3, <1>4 DEF Payload, b

LEMMA TaikoParsed ==
  ASSUME NEW e \in States("TaikoDrum")
  PROVE  Payload(ExtBytes(e), e, "TaikoDrum")
<1>1. e = [kind |-> "Unparsed"]
  BY DEF States
<1>2. ExtBytes(e) = Zeros(6)
  BY <1>1 DEF ExtBytes
<1>3. Zeros(6) \in Bytes /\ Len(Zeros(6)) = 6
  BY DEF Zeros, Bytes
<1>4. \A raw : ParseExtension("TaikoDrum", raw) = e
  BY <1>1 DEF ParseExtension
<1> QED
  BY <1>2, <1>3, <1>4 DEF Payload

(* What is packed for an extension is parsed with its layout as it was.    *)
LEMMA ExtensionParsed ==
  ASSUME NEW x \in DOMAIN ExtensionId, NEW e \in States(x)
  PROVE  Payload(ExtBytes(e), e, x)
<1>1. x \in {"Nunchuk", "ClassicController", "Guitar", "Drums", "TaikoDrum"}
  BY DEF ExtensionId
<1> QED
  BY <1>1, NunchukParsed, GuitarParsed, ClassicParsed, DrumsParsed, TaikoParsed

-----------------------------------------------------------------------------
(* Whole reports (parse_input).                                            *)

LEMMA PlainParsed ==
  ASSUME NEW held \in SUBSET Buttons
  PROVE  LET bb == PlainButtons(held)
         IN  bb \in Bytes /\ Len(bb) = 2 /\ ParseButtons(bb[1], bb[2]) = held
<1> DEFINE bb == PlainButtons(held)
           b1 == bb[1]
           b2 == bb[2]
<1>1. bb = <<b1, b2>> /\ b1 \in Byte /\ b2 \in Byte /\ ParseButtons(b1, b2) = held
  BY ButtonsParsed DEF PlainButtons
<1>2. b1 \in Nat /\ b2 \in Nat
  BY <1>1 DEF Byte
<1> HIDE DEF b1, b2
<1>3. bb \in Bytes /\ Len(bb) = 2
  BY <1>1, <1>2, TwoBytes
<1> QED
  BY <1>1, <1>3 DEF b1, b2

(* A report is its number, the buttons and the rest.                       *)
LEMMA Headed ==
  ASSUME NEW n \in Nat, NEW held \in SUBSET Buttons
  PROVE  LET b == <<n>> \o PlainButtons(held)
         IN  b \in Bytes /\ Len(b) = 3 /\ b[1] = n /\ ParseButtons(b[2], b[3]) = held
<1> DEFINE head == <<n>>
           bb == PlainButtons(held)
           b == head \o bb
<1>1. head \in Bytes /\ Len(head) = 1 /\ head[1] = n
  BY OneByte
<1>2. bb \in Bytes /\ Len(bb) = 2 /\ ParseButtons(bb[1], bb[2]) = held
  BY PlainParsed
<1> HIDE DEF head, bb
<1>3. Joins(b, head, bb)
  BY <1>1, <1>2, Joined
<1> HIDE DEF b
<1>4. b \in Bytes /\ Len(b) = 3 /\ b[1] = n /\ b[2] = bb[1] /\ b[3] = bb[2]
  BY <1>1, <1>2, <1>3 DEF Joins
<1> QED
  BY <1>2, <1>4 DEF b, head, bb

LEMMA StatusParsed ==
  ASSUME NEW w, w.held \in SUBSET Buttons
  PROVE  /\ StatusBytes(w) # <<>>
         /\ ParseInput(StatusBytes(w)) =
              [type |-> "Status", buttons |-> w.held, battery |-> 200,
               extension_connected |-> w.plugged # "None"]
<1> DEFINE head == <<32>> \o PlainButtons(w.held)
           flags == 16 + (IF w.plugged # "None" THEN 2 ELSE 0)
           rest == <<flags, 0, 0, 200>>
           b == StatusBytes(w)
<1>1. head \in Bytes /\ Len(head) = 3 /\ head[1] = 32 /\ ParseButtons(head[2], head[3]) = w.held
  BY Headed
<1>2. b = head \o rest
  BY DEF StatusBytes
<1>3. flags \in Nat /\ (IsSet(flags, 1) <=> w.plugged # "None")
  BY Powers DEF IsSet, Bit
<1> HIDE DEF head, flags, b
<1>4. rest \in Bytes /\ Len(rest) = 4 /\ rest[1] = flags /\ rest[4] = 200
  BY <1>3, FourBytes
<1> HIDE DEF rest
<1>5. Joins(b, head, rest)
  BY <1>1, <1>2, <1>4, Joined
<1>6. /\ b \in Bytes /\ Len(b) = 7
      /\ b[1] = 32 /\ b[2] = head[2] /\ b[3] = head[3] /\ b[4] = flags /\ b[7] = 200
  BY <1>1, <1>4, <1>5 DEF Joins
<1>7. b # <<>>
  <2>1. Len(<<>>) = 0 /\ Len(b) # 0
    BY <1>6
  <2> QED
    BY Zenon, <2>1
<1>8. 32 \in DOMAIN Lengths /\ Lengths[32] = 7
  BY DEF Lengths
<1>9. ParseInput(b) = [type |-> "Status", buttons |-> w.held, battery |-> 200,
                       extension_connected |-> IsSet(flags, 1)]
  BY <1>1, <1>6, <1>7, <1>8 DEF ParseInput
<1>10. IsSet(flags, 1) = (w.plugged # "None")
  BY <1>3 DEF IsSet
<1> QED
  BY <1>7, <1>9, <1>10 DEF b

LEMMA AckParsed ==
  ASSUME NEW w, w.held \in SUBSET Buttons, w.plugged # "None"
  PROVE  /\ AckBytes(w) # <<>>
         /\ ParseInput(AckBytes(w)) =
              [type |-> "Ack", buttons |-> w.held, report_id |-> 22, error |-> 0]
<1> DEFINE head == <<34>> \o PlainButtons(w.held)
           rest == <<22, 0>>
           b == AckBytes(w)
<1>1. head \in Bytes /\ Len(head) = 3 /\ head[1] = 34 /\ ParseButtons(head[2], head[3]) = w.held
  BY Headed
<1>2. b = head \o rest
  BY DEF AckBytes
<1>3. rest \in Bytes /\ Len(rest) = 2 /\ rest[1] = 22 /\ rest[2] = 0
  BY TwoBytes
<1> HIDE DEF head, b, rest
<1>4. Joins(b, head, rest)
  BY <1>1, <1>2, <1>3, Joined
<1>5. /\ b \in Bytes /\ Len(b) = 5
      /\ b[1] = 34 /\ b[2] = head[2] /\ b[3] = head[3] /\ b[4] = 22 /\ b[5] = 0
  BY <1>1, <1>3, <1>4 DEF Joins
<1>6. b # <<>>
  <2>1. Len(<<>>) = 0 /\ Len(b) # 0
    BY <1>5
  <2> QED
    BY Zenon, <2>1
<1>7. 34 \in DOMAIN Lengths /\ Lengths[34] = 5
  BY DEF Lengths
<1> QED
  BY <1>1, <1>5, <1>6, <1>7 DEF ParseInput, b

LEMMA IdsAreBytes ==
  ASSUME NEW x \in DOMAIN ExtensionId
  PROVE  ExtensionId[x] \in Bytes /\ Len(ExtensionId[x]) = 6
<1>1. CASE x = "Nunchuk"
  BY <1>1 DEF ExtensionId, Bytes
<1>2. CASE x = "ClassicController"
  BY <1>2 DEF ExtensionId, Bytes
<1>3. CASE x = "Guitar"
  BY <1>3 DEF ExtensionId, Bytes
<1>4. CASE x = "Drums"
  BY <1>4 DEF ExtensionId, Bytes
<1>5. CASE x = "TaikoDrum"
  BY <1>5 DEF ExtensionId, Bytes
<1> QED
  BY <1>1, <1>2, <1>3, <1>4, <1>5 DEF ExtensionId

LEMMA IdsNamed ==
  ASSUME NEW x \in DOMAIN ExtensionId, NEW id, \A i \in 1..6 : id[i] = ExtensionId[x][i]
  PROVE  FromId(id) = x
<1>1. /\ id[1] = ExtensionId[x][1] /\ id[3] = ExtensionId[x][3] /\ id[4] = ExtensionId[x][4]
      /\ id[5] = ExtensionId[x][5] /\ id[6] = ExtensionId[x][6]
  OBVIOUS
<1>2. CASE x = "Nunchuk"
  BY <1>1, <1>2 DEF ExtensionId, FromId, FamilyMarker
<1>3. CASE x = "ClassicController"
  BY <1>1, <1>3 DEF ExtensionId, FromId, FamilyMarker
<1>4. CASE x = "Guitar"
  BY <1>1, <1>4 DEF ExtensionId, FromId, FamilyMarker
<1>5. CASE x = "Drums"
  BY <1>1, <1>5 DEF ExtensionId, FromId, FamilyMarker
<1>6. CASE x = "TaikoDrum"
  BY <1>1, <1>6 DEF ExtensionId, FromId, FamilyMarker
<1> QED
  BY <1>2, <1>3, <1>4, <1>5, <1>6 DEF ExtensionId

(* The sixteen bytes a report carries at its end.                          *)
LEMMA LastSixteen ==
  ASSUME NEW b \in Bytes, Len(b) = 22
  PROVE  \A i \in 1..16 : SubSeq(b, 7, 22)[i] = b[i + 6]
BY DEF Bytes

LEMMA IdParsed ==
  ASSUME NEW w, w.held \in SUBSET Buttons, w.plugged \in DOMAIN ExtensionId, w.inited
  PROVE  LET r == ParseInput(IdBytes(w))
         IN  /\ IdBytes(w) # <<>>
             /\ r = [type |-> "ReadResponse", buttons |-> w.held, error |-> 0, size |-> 6,
                     address |-> 250, data |-> r.data]
             /\ FromId(r.data) = w.plugged
<1> DEFINE head == <<33>> \o PlainButtons(w.held)
           mid == <<80, 0, 250>>
           id == ExtensionId[w.plugged]
           front == head \o mid
           most == front \o id
           pad == Zeros(10)
           b == IdBytes(w)
           data == SubSeq(b, 7, 22)
<1>1. head \in Bytes /\ Len(head) = 3 /\ head[1] = 33 /\ ParseButtons(head[2], head[3]) = w.held
  BY Headed
<1>2. mid \in Bytes /\ Len(mid) = 3 /\ mid[1] = 80 /\ mid[2] = 0 /\ mid[3] = 250
  BY ThreeBytes
<1>3. id \in Bytes /\ Len(id) = 6
  BY IdsAreBytes
<1>4. pad \in Bytes /\ Len(pad) = 10
  BY DEF Zeros, Bytes
<1>5. b = most \o pad
  BY DEF IdBytes, ExtensionId
<1> HIDE DEF head, mid, id, b, pad, data
<1>6. Joins(front, head, mid)
  BY <1>1, <1>2, Joined
<1> HIDE DEF front
<1>7. /\ front \in Bytes /\ Len(front) = 6
      /\ front[1] = 33 /\ front[2] = head[2] /\ front[3] = head[3]
      /\ front[4] = 80 /\ front[5] = 0 /\ front[6] = 250
  BY <1>1, <1>2, <1>6 DEF Joins
<1>8. Joins(most, front, id)
  BY <1>3, <1>7, Joined
<1> HIDE DEF most
<1>9. /\ \A i \in 1..6 : most[i] = front[i]
      /\ \A i \in 7..12 : most[i] = id[i - 6]
  BY <1>3, <1>7, <1>8 DEF Joins
<1>19. most \in Bytes /\ Len(most) = 12
  BY <1>3, <1>7, <1>8 DEF Joins
<1>10. Joins(b, most, pad)
  BY <1>4, <1>5, <1>19, Joined
<1>11. \A i \in 1..12 : b[i] = most[i]
  BY <1>4, <1>19, <1>10 DEF Joins
<1>20. b \in Bytes /\ Len(b) = 22
  BY <1>4, <1>19, <1>10 DEF Joins
<1>12. /\ b[1] = 33 /\ b[2] = head[2] /\ b[3] = head[3] /\ b[4] = 80 /\ b[5] = 0 /\ b[6] = 250
  BY <1>7, <1>9, <1>11
<1>13. \A i \in 1..6 : data[i] = id[i]
  <2> SUFFICES ASSUME NEW i \in 1..6 PROVE data[i] = id[i]
    OBVIOUS
  <2>1. data[i] = b[i + 6]
    BY <1>20, LastSixteen DEF data
  <2>2. b[i + 6] = most[i + 6] /\ most[i + 6] = id[(i + 6) - 6]
    BY <1>9, <1>11
  <2> QED
    BY <2>1, <2>2
<1>14. FromId(data) = w.plugged
  BY <1>13, IdsNamed DEF id
<1>15. b # <<>>
  <2>1. Len(<<>>) = 0 /\ Len(b) # 0
    BY <1>20
  <2> QED
    BY <2>1
<1>16. 33 \in DOMAIN Lengths /\ Lengths[33] = 22
  BY DEF Lengths
<1>17. Bits(80, 0, 4) = 0 /\ Bits(80, 4, 4) + 1 = 6 /\ 256 * 0 + 250 = 250
  BY Powers DEF Bits
<1>18. ParseInput(b) = [type |-> "ReadResponse", buttons |-> w.held, error |-> 0, size |-> 6,
                        address |-> 250, data |-> data]
  BY <1>1, <1>20, <1>12, <1>15, <1>16, <1>17 DEF ParseInput, data
<1> QED
  BY <1>14, <1>15, <1>18 DEF b

(* The same of a report without extension.                                 *)
LEMMA AccelReportParsed ==
  ASSUME NEW held \in SUBSET Buttons, NEW a \in Readings
  PROVE  LET b == <<49>> \o AccelBytes(held, a)
         IN  /\ b # <<>>
             /\ ParseInput(b) =
                  [type |-> "ButtonsAccel", buttons |-> held, accel |-> Coarse(a)]
<1> DEFINE head == <<49>>
           ab == AccelBytes(held, a)
           b == head \o ab
<1>1. head \in Bytes /\ Len(head) = 1 /\ head[1] = 49
  BY OneByte
<1>2. /\ ab \in Bytes /\ Len(ab) = 5
      /\ ParseButtons(ab[1], ab[2]) = held
      /\ ParseAccel(ab[1], ab[2], ab[3], ab[4], ab[5]) = Coarse(a)
  BY AccelParsed
<1> HIDE DEF head, ab
<1>3. Joins(b, head, ab)
  BY <1>1, <1>2, Joined
<1> HIDE DEF b
<1>4. /\ b \in Bytes /\ Len(b) = 6
      /\ b[1] = 49 /\ b[2] = ab[1] /\ b[3] = ab[2] /\ b[4] = ab[3] /\ b[5] = ab[4]
      /\ b[6] = ab[5]
  BY <1>1, <1>2, <1>3 DEF Joins
<1>5. b # <<>>
  <2>1. Len(<<>>) = 0 /\ Len(b) # 0
    BY <1>4
  <2> QED
    BY Zenon, <2>1
<1>6. 49 \in DOMAIN Lengths /\ Lengths[49] = 6
  BY DEF Lengths
<1> QED
  BY <1>2, <1>4, <1>5, <1>6 DEF ParseInput, b, head, ab

(* A report with buttons, accelerometer and extension, as a Wiimote packs  *)
(* it, is read back for every state of the three: the readings without the *)
(* bits that the report has no room for, the extension as it was.          *)
THEOREM ExtReportParsed ==
  ASSUME NEW held \in SUBSET Buttons, NEW a \in Readings, NEW x \in DOMAIN ExtensionId,
         NEW e \in States(x)
  PROVE  LET b == <<53>> \o AccelBytes(held, a) \o ExtBytes(e) \o Zeros(10)
             r == ParseInput(b)
         IN  /\ b # <<>>
             /\ r = [type |-> "ButtonsAccelExt", buttons |-> held, accel |-> Coarse(a),
                     ext |-> r.ext]
             /\ ParseExtension(x, r.ext) = e
<1> DEFINE head == <<53>>
           ab == AccelBytes(held, a)
           eb == ExtBytes(e)
           front == head \o ab
           most == front \o eb
           pad == Zeros(10)
           b == most \o pad
           raw == SubSeq(b, 7, 22)
<1>1. head \in Bytes /\ Len(head) = 1 /\ head[1] = 53
  BY OneByte
<1>2. /\ ab \in Bytes /\ Len(ab) = 5
      /\ ParseButtons(ab[1], ab[2]) = held
      /\ ParseAccel(ab[1], ab[2], ab[3], ab[4], ab[5]) = Coarse(a)
  BY AccelParsed
<1>3. /\ eb \in Bytes /\ Len(eb) = 6
      /\ \A data : (\A i \in 1..6 : data[i] = eb[i]) => ParseExtension(x, data) = e
  BY ExtensionParsed DEF Payload
<1>4. pad \in Bytes /\ Len(pad) = 10
  BY DEF Zeros, Bytes
<1> HIDE DEF head, ab, eb, pad, raw
<1>5. Joins(front, head, ab)
  BY <1>1, <1>2, Joined
<1> HIDE DEF front
<1>6. /\ front \in Bytes /\ Len(front) = 6
      /\ front[1] = 53 /\ front[2] = ab[1] /\ front[3] = ab[2]
      /\ front[4] = ab[3] /\ front[5] = ab[4] /\ front[6] = ab[5]
  BY <1>1, <1>2, <1>5 DEF Joins
<1>7. Joins(most, front, eb)
  BY <1>3, <1>6, Joined
<1> HIDE DEF most
<1>18. most \in Bytes /\ Len(most) = 12
  BY <1>3, <1>6, <1>7 DEF Joins
<1>8. /\ \A i \in 1..6 : most[i] = front[i]
      /\ \A i \in 7..12 : most[i] = eb[i - 6]
  BY <1>3, <1>6, <1>7 DEF Joins
<1>9. Joins(b, most, pad)
  BY <1>4, <1>18, Joined
<1> HIDE DEF b
<1>10. \A i \in 1..12 : b[i] = most[i]
  BY <1>4, <1>18, <1>9 DEF Joins
<1>19. b \in Bytes /\ Len(b) = 22
  BY <1>4, <1>18, <1>9 DEF Joins
<1>11. /\ b[1] = 53 /\ b[2] = ab[1] /\ b[3] = ab[2] /\ b[4] = ab[3] /\ b[5] = ab[4]
       /\ b[6] = ab[5]
  BY <1>6, <1>8, <1>10
<1>12. \A i \in 1..6 : raw[i] = eb[i]
  <2> SUFFICES ASSUME NEW i \in 1..6 PROVE raw[i] = eb[i]
    OBVIOUS
  <2>1. raw[i] = b[i + 6]
    BY <1>19, LastSixteen DEF raw
  <2>2. b[i + 6] = most[i + 6] /\ most[i + 6] = eb[(i + 6) - 6]
    BY <1>8, <1>10
  <2> QED
    BY <2>1, <2>2
<1>13. ParseExtension(x, raw) = e
  BY <1>3, <1>12
<1>14. b # <<>>
  <2>1. Len(<<>>) = 0 /\ Len(b) # 0
    BY <1>19
  <2> QED
    BY <2>1
<1>15. 53 \in DOMAIN Lengths /\ Lengths[53] = 22
  BY DEF Lengths
<1>16. ParseInput(b) = [type |-> "ButtonsAccelExt", buttons |-> held, accel |-> Coarse(a),
                        ext |-> raw]
  BY <1>2, <1>19, <1>11, <1>14, <1>15 DEF ParseInput, raw
<1>17. b = <<53>> \o AccelBytes(held, a) \o ExtBytes(e) \o Zeros(10)
  BY DEF b, most, front, head, ab, eb, pad
<1> QED
  BY <1>13, <1>14, <1>16, <1>17

=============================================================================
