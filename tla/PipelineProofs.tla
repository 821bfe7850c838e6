---------------------------- MODULE PipelineProofs ----------------------------
(***************************************************************************)
(* From the bits of a Wiimote to the keys of a game: the properties of     *)
(* InputPipeline, for every extension, reading, profile and platform, and  *)
(* every order of reports, commands and ticks.                             *)
(***************************************************************************)
EXTENDS InputPipeline, MappingProofs

-----------------------------------------------------------------------------
(* What the daemon writes: the payloads encoded (report.rs), and what a    *)
(* Wiimote does on each of them.                                           *)

LEMMA SameBytes ==
  ASSUME NEW p \in Bytes, NEW q \in Bytes, Len(p) = Len(q), \A i \in 1..Len(p) : p[i] = q[i]
  PROVE  p = q
BY DEF Bytes

LEMMA PowersAbove == 2 ^ 8 = 256 /\ 2 ^ 16 = 65536
OBVIOUS

LEMMA Addressed ==
  /\ AddressBytes(10748144) = <<164, 0, 240>>
  /\ AddressBytes(10748154) = <<164, 0, 250>>
<1>1. /\ Bits(10748144, 16, 8) = 164 /\ Bits(10748144, 8, 8) = 0 /\ Bits(10748144, 0, 8) = 240
  BY SMT, Powers, PowersAbove DEF Bits
<1>2. /\ Bits(10748154, 16, 8) = 164 /\ Bits(10748154, 8, 8) = 0 /\ Bits(10748154, 0, 8) = 250
  BY SMT, Powers, PowersAbove DEF Bits
<1> QED
  BY SMT, <1>1, <1>2 DEF AddressBytes

LEMMA ModeEncoded ==
  ASSUME NEW out, out.type = "SetReportingMode"
  PROVE  Encode(out) = <<18, 4, out.mode>>
BY Zenon DEF Encode

LEMMA StatusEncoded ==
  ASSUME NEW out, out.type = "RequestStatus"
  PROVE  Encode(out) = <<21, 0>>
BY Zenon DEF Encode

LEMMA LedsEncoded ==
  ASSUME NEW out, out.type = "SetLeds"
  PROVE  Encode(out) = <<17, 16 * Bits(out.leds, 0, 4) + (IF out.rumble THEN 1 ELSE 0)>>
BY Zenon DEF Encode

LEMMA ReadEncoded ==
  ASSUME NEW out, out.type = "ReadRegister"
  PROVE  Encode(out) = <<23, 4>> \o AddressBytes(out.address)
                         \o <<Bits(out.count, 8, 8), Bits(out.count, 0, 8)>>
BY Zenon DEF Encode

LEMMA WriteEncoded ==
  ASSUME NEW out, out.type = "WriteRegister", NEW n \in 0..15, Len(out.data) = n
  PROVE  Encode(out) = <<22, 4>> \o AddressBytes(out.address) \o <<n>> \o Padded(out.data, n)
<1>1. Encode(out) = LET m == IF Len(out.data) < 16 THEN Len(out.data) ELSE 16
                    IN  <<22, 4>> \o AddressBytes(out.address) \o <<m>> \o Padded(out.data, m)
  BY Zenon DEF Encode
<1>2. (IF Len(out.data) < 16 THEN Len(out.data) ELSE 16) = n
  OBVIOUS
<1> QED
  BY Zenon, <1>1, <1>2

LEMMA HandshakeEncoded ==
  LET b == Encode(Handshake) IN b[1] = 22 /\ SubSeq(b, 1, 7) = InitPayload
<1> DEFINE head == <<22, 4>>
           addr == <<164, 0, 240>>
           one == <<1>>
           pad == Padded(<<85>>, 1)
           front == head \o addr
           most == front \o one
           b == most \o pad
<1>1. Encode(Handshake) = b
  <2> DEFINE out == Handshake
  <2>1. /\ out.type = "WriteRegister" /\ out.data = <<85>> /\ Len(out.data) = 1
        /\ out.address = 10748144
    BY SMT DEF Handshake, WriteRegister
  <2> HIDE DEF out
  <2>2. Encode(out) = <<22, 4>> \o AddressBytes(out.address) \o <<1>> \o Padded(out.data, 1)
    <3>1. 1 \in 0..15 /\ out.type = "WriteRegister" /\ Len(out.data) = 1
      BY SMT, <2>1
    <3> QED
      BY Zenon, <3>1, WriteEncoded
  <2>3. AddressBytes(out.address) = addr /\ out.data = <<85>>
    BY SMT, <2>1, Addressed
  <2> QED
    BY Zenon, <2>2, <2>3 DEF out
<1>2. head \in Bytes /\ Len(head) = 2 /\ head[1] = 22 /\ head[2] = 4
  BY TwoBytes
<1>3. addr \in Bytes /\ Len(addr) = 3 /\ addr[1] = 164 /\ addr[2] = 0 /\ addr[3] = 240
  BY ThreeBytes
<1>4. one \in Bytes /\ Len(one) = 1 /\ one[1] = 1
  BY OneByte
<1>5. pad \in Bytes /\ Len(pad) = 16 /\ pad[1] = 85
  BY DEF Padded, Bytes
<1> HIDE DEF head, addr, one, pad
<1>6. Joins(front, head, addr)
  BY <1>2, <1>3, Joined
<1> HIDE DEF front
<1>7. /\ front \in Bytes /\ Len(front) = 5 /\ front[1] = 22 /\ front[2] = 4
      /\ front[3] = 164 /\ front[4] = 0 /\ front[5] = 240
  BY <1>2, <1>3, <1>6 DEF Joins
<1>8. Joins(most, front, one)
  BY <1>4, <1>7, Joined
<1> HIDE DEF most
<1>9. /\ most \in Bytes /\ Len(most) = 6 /\ most[1] = 22 /\ most[2] = 4
      /\ most[3] = 164 /\ most[4] = 0 /\ most[5] = 240 /\ most[6] = 1
  BY <1>4, <1>7, <1>8 DEF Joins
<1>10. Joins(b, most, pad)
  BY <1>5, <1>9, Joined
<1> HIDE DEF b
<1>11. /\ b \in Bytes /\ Len(b) = 22 /\ b[1] = 22 /\ b[2] = 4
       /\ b[3] = 164 /\ b[4] = 0 /\ b[5] = 240 /\ b[6] = 1 /\ b[7] = 85
  BY <1>5, <1>9, <1>10 DEF Joins
<1> DEFINE first == SubSeq(b, 1, 7)
<1>12. first \in Bytes /\ Len(first) = 7 /\ \A i \in 1..7 : first[i] = b[i]
  BY <1>11 DEF Bytes
<1> HIDE DEF first
<1>13. InitPayload \in Bytes /\ Len(InitPayload) = 7
  BY DEF InitPayload, Bytes
<1>14. \A i \in 1..7 : first[i] = InitPayload[i]
  BY <1>11, <1>12 DEF InitPayload
<1>15. first = InitPayload
  BY <1>12, <1>13, <1>14, SameBytes
<1> QED
  BY <1>1, <1>11, <1>15 DEF first

LEMMA ReadIdEncoded == Encode(ReadId) = ReadIdPayload
<1> DEFINE head == <<23, 4>>
           addr == <<164, 0, 250>>
           count == <<0, 6>>
           front == head \o addr
           b == front \o count
<1>1. Encode(ReadId) = b
  <2>1. Bits(6, 8, 8) = 0 /\ Bits(6, 0, 8) = 6
    BY SMT, Powers, PowersAbove DEF Bits
  <2> DEFINE out == ReadId
  <2>2. out.type = "ReadRegister" /\ out.address = 10748154 /\ out.count = 6
    BY SMT DEF ReadId, ReadRegister
  <2> HIDE DEF out
  <2>3. Encode(out) = <<23, 4>> \o AddressBytes(out.address)
                         \o <<Bits(out.count, 8, 8), Bits(out.count, 0, 8)>>
    <3>1. out.type = "ReadRegister"
      BY <2>2
    <3> QED
      BY Zenon, <3>1, ReadEncoded
  <2>4. AddressBytes(out.address) = addr /\ Bits(out.count, 8, 8) = 0 /\ Bits(out.count, 0, 8) = 6
    BY SMT, <2>1, <2>2, Addressed
  <2> QED
    BY Zenon, <2>3, <2>4 DEF out
<1>2. head \in Bytes /\ Len(head) = 2 /\ head[1] = 23 /\ head[2] = 4
  BY TwoBytes
<1>3. addr \in Bytes /\ Len(addr) = 3 /\ addr[1] = 164 /\ addr[2] = 0 /\ addr[3] = 250
  BY ThreeBytes
<1>4. count \in Bytes /\ Len(count) = 2 /\ count[1] = 0 /\ count[2] = 6
  BY TwoBytes
<1> HIDE DEF head, addr, count
<1>5. Joins(front, head, addr)
  BY <1>2, <1>3, Joined
<1> HIDE DEF front
<1>6. /\ front \in Bytes /\ Len(front) = 5 /\ front[1] = 23 /\ front[2] = 4
      /\ front[3] = 164 /\ front[4] = 0 /\ front[5] = 250
  BY <1>2, <1>3, <1>5 DEF Joins
<1>7. Joins(b, front, count)
  BY <1>4, <1>6, Joined
<1> HIDE DEF b
<1>8. /\ b \in Bytes /\ Len(b) = 7 /\ b[1] = 23 /\ b[2] = 4
      /\ b[3] = 164 /\ b[4] = 0 /\ b[5] = 250 /\ b[6] = 0 /\ b[7] = 6
  BY <1>4, <1>6, <1>7 DEF Joins
<1>9. ReadIdPayload \in Bytes /\ Len(ReadIdPayload) = 7
  BY DEF ReadIdPayload, Bytes
<1>10. \A i \in 1..7 : b[i] = ReadIdPayload[i]
  BY <1>8 DEF ReadIdPayload
<1> QED
  BY <1>1, <1>8, <1>9, <1>10, SameBytes

(* What a Wiimote makes of each payload that the daemon writes.            *)
State(w, a) == [wiimote |-> w, answer |-> a]

Wiimotes ==
  [plugged : DOMAIN ExtensionId \cup {"None"}, inited : BOOLEAN, mode : {48, 49, 53},
   held : SUBSET Buttons]

LEMMA ObeyCases ==
  ASSUME NEW s, NEW p
  PROVE  /\ p[1] = 18 /\ p # ReadIdPayload => Obey(s, p) = [s EXCEPT !.wiimote.mode = p[3]]
         /\ p[1] = 21 /\ p # ReadIdPayload =>
              Obey(s, p) = [wiimote |-> [s.wiimote EXCEPT !.mode = 48],
                            answer |-> StatusBytes(s.wiimote)]
         /\ p[1] = 22 /\ SubSeq(p, 1, 7) = InitPayload /\ p # ReadIdPayload =>
              Obey(s, p) = [wiimote |-> [s.wiimote EXCEPT !.inited = s.wiimote.plugged # "None"],
                            answer |-> AckBytes(s.wiimote)]
         /\ p[1] = 23 /\ p = ReadIdPayload =>
              Obey(s, p) = [s EXCEPT !.answer = IdBytes(s.wiimote)]
         /\ p[1] = 17 /\ p # ReadIdPayload => Obey(s, p) = s
<1>1. ASSUME p[1] = 18, p[1] # 21, p[1] # 22, p # ReadIdPayload
      PROVE  Obey(s, p) = [s EXCEPT !.wiimote.mode = p[3]]
  BY Zenon, <1>1 DEF Obey
<1>2. ASSUME p[1] # 18, p[1] = 21, p[1] # 22, p # ReadIdPayload
      PROVE  Obey(s, p) = [wiimote |-> [s.wiimote EXCEPT !.mode = 48],
                           answer |-> StatusBytes(s.wiimote)]
  BY Zenon, <1>2 DEF Obey
<1>3. ASSUME p[1] # 18, p[1] # 21, p[1] = 22, SubSeq(p, 1, 7) = InitPayload, p # ReadIdPayload
      PROVE  Obey(s, p) = [wiimote |-> [s.wiimote EXCEPT !.inited = s.wiimote.plugged # "None"],
                           answer |-> AckBytes(s.wiimote)]
  BY Zenon, <1>3 DEF Obey
<1>4. ASSUME p[1] # 18, p[1] # 21, p[1] # 22, p = ReadIdPayload
      PROVE  Obey(s, p) = [s EXCEPT !.answer = IdBytes(s.wiimote)]
  BY Zenon, <1>4 DEF Obey
<1>5. ASSUME p[1] # 18, p[1] # 21, p[1] # 22, p # ReadIdPayload PROVE Obey(s, p) = s
  BY Zenon, <1>5 DEF Obey
<1>6. /\ p[1] = 18 => p[1] # 21 /\ p[1] # 22
      /\ p[1] = 21 => p[1] # 18 /\ p[1] # 22
      /\ p[1] = 22 => p[1] # 18 /\ p[1] # 21
      /\ p[1] = 23 => p[1] # 18 /\ p[1] # 21 /\ p[1] # 22
      /\ p[1] = 17 => p[1] # 18 /\ p[1] # 21 /\ p[1] # 22
  BY SMT
<1> QED
  BY Zenon, <1>1, <1>2, <1>3, <1>4, <1>5, <1>6

LEMMA ReadIdFirst ==
  ASSUME NEW p, p[1] # 23
  PROVE  p # ReadIdPayload
BY DEF ReadIdPayload

LEMMA ObeyMode ==
  ASSUME NEW w \in Wiimotes, NEW a, NEW mode \in {49, 53}
  PROVE  Obey(State(w, a), Encode(SetReportingMode(mode))) = State([w EXCEPT !.mode = mode], a)
<1> DEFINE out == SetReportingMode(mode)
           p == Encode(out)
<1>1. p = <<18, 4, mode>>
  <2>1. out.type = "SetReportingMode" /\ out.mode = mode
    BY DEF SetReportingMode
  <2> HIDE DEF out
  <2> QED
    BY <2>1, ModeEncoded
<1> HIDE DEF p
<1>2. p[1] = 18 /\ p[3] = mode
  BY <1>1
<1> DEFINE s == State(w, a)
<1> HIDE DEF s
<1>3. p # ReadIdPayload
  BY <1>2, ReadIdFirst
<1>4. Obey(s, p) = [s EXCEPT !.wiimote.mode = p[3]]
  BY Zenon, <1>2, <1>3, ObeyCases
<1>5. s = [wiimote |-> w, answer |-> a]
  BY DEF s, State
<1>6. [s EXCEPT !.wiimote.mode = p[3]] = [wiimote |-> [w EXCEPT !.mode = p[3]], answer |-> a]
  BY <1>5 DEF Wiimotes
<1> QED
  BY <1>2, <1>4, <1>6 DEF p, s, State

LEMMA ObeyStatus ==
  ASSUME NEW w \in Wiimotes, NEW a
  PROVE  Obey(State(w, a), Encode(RequestStatus)) = State([w EXCEPT !.mode = 48], StatusBytes(w))
<1> DEFINE out == RequestStatus
           p == Encode(out)
           s == State(w, a)
<1>1. p = <<21, 0>>
  <2>1. out.type = "RequestStatus"
    BY DEF RequestStatus
  <2> HIDE DEF out
  <2> QED
    BY <2>1, StatusEncoded
<1>2. s.wiimote = w
  BY DEF State
<1> HIDE DEF p, s
<1>3. p[1] = 21 /\ p # ReadIdPayload
  BY <1>1, ReadIdFirst
<1>4. Obey(s, p) = [wiimote |-> [s.wiimote EXCEPT !.mode = 48], answer |-> StatusBytes(s.wiimote)]
  BY Zenon, <1>3, ObeyCases
<1> QED
  BY <1>2, <1>4 DEF p, s, State

LEMMA ObeyLeds ==
  ASSUME NEW w \in Wiimotes, NEW a
  PROVE  Obey(State(w, a), Encode(SetLeds(0, FALSE))) = State(w, a)
<1> DEFINE out == SetLeds(0, FALSE)
           p == Encode(out)
<1>1. p[1] = 17
  <2>1. out.type = "SetLeds"
    BY DEF SetLeds
  <2> HIDE DEF out
  <2>2. p = <<17, 16 * Bits(out.leds, 0, 4) + (IF out.rumble THEN 1 ELSE 0)>>
    BY <2>1, LedsEncoded
  <2> QED
    BY <2>2
<1> HIDE DEF p
<1>2. p # ReadIdPayload
  BY <1>1, ReadIdFirst
<1>3. Obey(State(w, a), p) = State(w, a)
  BY Zenon, <1>1, <1>2, ObeyCases
<1> QED
  BY Zenon, <1>3 DEF p

LEMMA ObeyHandshake ==
  ASSUME NEW w \in Wiimotes, NEW a
  PROVE  Obey(State(w, a), Encode(Handshake)) =
           State([w EXCEPT !.inited = w.plugged # "None"], AckBytes(w))
<1> DEFINE p == Encode(Handshake)
           s == State(w, a)
<1>1. p[1] = 22 /\ SubSeq(p, 1, 7) = InitPayload
  BY HandshakeEncoded
<1>2. s.wiimote = w
  BY DEF State
<1> HIDE DEF p, s
<1>3. p # ReadIdPayload
  BY <1>1, ReadIdFirst
<1>4. Obey(s, p) = [wiimote |-> [s.wiimote EXCEPT !.inited = s.wiimote.plugged # "None"],
                    answer |-> AckBytes(s.wiimote)]
  BY Zenon, <1>1, <1>3, ObeyCases
<1> QED
  BY <1>2, <1>4 DEF p, s, State

LEMMA ObeyReadId ==
  ASSUME NEW w \in Wiimotes, NEW a
  PROVE  Obey(State(w, a), Encode(ReadId)) = State(w, IdBytes(w))
<1> DEFINE p == Encode(ReadId)
           s == State(w, a)
<1>1. p = ReadIdPayload
  BY ReadIdEncoded
<1>2. ReadIdPayload[1] = 23
  BY DEF ReadIdPayload
<1>3. s.wiimote = w
  BY DEF State
<1> HIDE DEF p
<1>4. p[1] = 23
  BY <1>1, <1>2
<1> DEFINE u == s
<1> HIDE DEF u
<1>5. Obey(u, p) = [u EXCEPT !.answer = IdBytes(u.wiimote)]
  BY Zenon, <1>1, <1>4, ObeyCases
<1>6. u = [wiimote |-> w, answer |-> a]
  BY DEF u, State
<1>7. [u EXCEPT !.answer = IdBytes(u.wiimote)] = [wiimote |-> w, answer |-> IdBytes(w)]
  BY <1>6
<1> QED
  BY <1>5, <1>7 DEF p, u, State

-----------------------------------------------------------------------------
(* Write, for each sequence of payloads that a handler writes.             *)

LEMMA Delivered ==
  ASSUME NEW outs, Write(outs)
  PROVE  LET start == State(wiimote, <<>>)
             one == Obey(start, Encode(outs[1]))
             two == Obey(one, Encode(outs[2]))
             three == Obey(two, Encode(outs[3]))
         IN  /\ Len(outs) = 0 => State(wiimote', report') = start
             /\ Len(outs) = 1 => State(wiimote', report') = State(one.wiimote, one.answer)
             /\ Len(outs) = 2 => State(wiimote', report') = State(two.wiimote, two.answer)
             /\ Len(outs) = 3 => State(wiimote', report') = State(three.wiimote, three.answer)
<1> DEFINE start == State(wiimote, <<>>)
           end == Obeyed(Obeyed(Obeyed(start, outs, 1), outs, 2), outs, 3)
           one == Obey(start, Encode(outs[1]))
           two == Obey(one, Encode(outs[2]))
           three == Obey(two, Encode(outs[3]))
<1>1. wiimote' = end.wiimote /\ report' = end.answer
  BY DEF Write, State
<1>2. /\ Len(outs) = 0 => end = start
      /\ Len(outs) = 1 => end = one
      /\ Len(outs) = 2 => end = two
      /\ Len(outs) = 3 => end = three
  <2>1. ASSUME NEW s, NEW i \in Nat, NEW n \in Nat, Len(outs) = n
        PROVE  Obeyed(s, outs, i) = IF i <= n THEN Obey(s, Encode(outs[i])) ELSE s
    BY <2>1 DEF Obeyed
  <2> DEFINE o1 == Obeyed(start, outs, 1)
             o2 == Obeyed(o1, outs, 2)
  <2>2. ASSUME NEW n \in 0..3, Len(outs) = n
        PROVE  /\ o1 = IF 1 <= n THEN one ELSE start
               /\ o2 = IF 2 <= n THEN Obey(o1, Encode(outs[2])) ELSE o1
               /\ end = IF 3 <= n THEN Obey(o2, Encode(outs[3])) ELSE o2
    BY <2>1, <2>2
  <2> HIDE DEF o1, o2, end, start
  <2>3. ASSUME Len(outs) = 0 PROVE end = start
    BY <2>2, <2>3
  <2>4. ASSUME Len(outs) = 1 PROVE end = one
    BY <2>2, <2>4
  <2>5. ASSUME Len(outs) = 2 PROVE end = two
    BY <2>2, <2>5
  <2>6. ASSUME Len(outs) = 3 PROVE end = three
    BY <2>2, <2>6
  <2> QED
    BY <2>3, <2>4, <2>5, <2>6
<1>3. State(wiimote', report') = State(end.wiimote, end.answer)
  BY <1>1
<1>4. State(start.wiimote, start.answer) = start
  BY DEF State
<1> HIDE DEF end, start, one, two, three
<1> QED
  BY Zenon, <1>2, <1>3, <1>4 DEF start, one, two, three

LEMMA StateParts ==
  ASSUME NEW w, NEW a
  PROVE  State(w, a).wiimote = w /\ State(w, a).answer = a
BY DEF State

LEMMA StatesEqual ==
  ASSUME NEW w, NEW a, NEW v, NEW b, State(w, a) = State(v, b)
  PROVE  w = v /\ a = b
BY StateParts

LEMMA WriteNothing ==
  ASSUME Write(<<>>)
  PROVE  wiimote' = wiimote /\ report' = <<>>
<1>1. Len(<<>>) = 0
  OBVIOUS
<1> DEFINE outs == <<>>
<1> HIDE DEF outs
<1>2. State(wiimote', report') = State(wiimote, <<>>)
  BY Zenon, <1>1, Delivered DEF outs
<1> QED
  BY <1>2, StatesEqual

LEMMA WriteMode ==
  ASSUME NEW outs, Len(outs) = 1, NEW mode \in {49, 53}, outs[1] = SetReportingMode(mode),
         Write(outs), wiimote \in Wiimotes
  PROVE  wiimote' = [wiimote EXCEPT !.mode = mode] /\ report' = <<>>
<1> DEFINE one == State([wiimote EXCEPT !.mode = mode], <<>>)
<1>1. Obey(State(wiimote, <<>>), Encode(outs[1])) = one
  <2>1. Encode(outs[1]) = Encode(SetReportingMode(mode))
    OBVIOUS
  <2>2. Obey(State(wiimote, <<>>), Encode(SetReportingMode(mode))) = one
    BY Zenon, ObeyMode
  <2> QED
    BY Zenon, <2>1, <2>2
<1>2. one.wiimote = [wiimote EXCEPT !.mode = mode] /\ one.answer = <<>>
  BY StateParts
<1>3. State(wiimote', report') = State(one.wiimote, one.answer)
  BY Zenon, <1>1, Delivered
<1> QED
  BY <1>2, <1>3, StatesEqual

LEMMA WriteReadId ==
  ASSUME NEW outs, Len(outs) = 1, outs[1] = ReadId, Write(outs), wiimote \in Wiimotes
  PROVE  wiimote' = wiimote /\ report' = IdBytes(wiimote)
<1> DEFINE one == State(wiimote, IdBytes(wiimote))
<1>1. Obey(State(wiimote, <<>>), Encode(outs[1])) = one
  BY Zenon, ObeyReadId
<1>2. one.wiimote = wiimote /\ one.answer = IdBytes(wiimote)
  BY StateParts
<1>3. State(wiimote', report') = State(one.wiimote, one.answer)
  BY Zenon, <1>1, Delivered
<1> QED
  BY <1>2, <1>3, StatesEqual

LEMMA WriteStatus ==
  ASSUME NEW outs, Len(outs) = 1, outs[1] = RequestStatus, Write(outs), wiimote \in Wiimotes
  PROVE  wiimote' = [wiimote EXCEPT !.mode = 48] /\ report' = StatusBytes(wiimote)
<1> DEFINE one == State([wiimote EXCEPT !.mode = 48], StatusBytes(wiimote))
<1>1. Obey(State(wiimote, <<>>), Encode(outs[1])) = one
  BY Zenon, ObeyStatus
<1>2. one.wiimote = [wiimote EXCEPT !.mode = 48] /\ one.answer = StatusBytes(wiimote)
  BY StateParts
<1>3. State(wiimote', report') = State(one.wiimote, one.answer)
  BY Zenon, <1>1, Delivered
<1> QED
  BY <1>2, <1>3, StatesEqual

LEMMA WriteHandshake ==
  ASSUME NEW outs, Len(outs) = 2, outs[1] = Handshake, outs[2] = SetReportingMode(49),
         Write(outs), wiimote \in Wiimotes
  PROVE  /\ wiimote' = [wiimote EXCEPT !.inited = wiimote.plugged # "None", !.mode = 49]
         /\ report' = AckBytes(wiimote)
<1> DEFINE w == [wiimote EXCEPT !.inited = wiimote.plugged # "None"]
           one == State(w, AckBytes(wiimote))
           two == State([w EXCEPT !.mode = 49], AckBytes(wiimote))
<1>1. Obey(State(wiimote, <<>>), Encode(outs[1])) = one
  BY Zenon, ObeyHandshake
<1>2. w \in Wiimotes /\ 49 \in {49, 53}
  BY DEF Wiimotes
<1> HIDE DEF w
<1>3. Obey(one, Encode(outs[2])) = two
  BY Zenon, <1>2, ObeyMode
<1>4. two.wiimote = [w EXCEPT !.mode = 49] /\ two.answer = AckBytes(wiimote)
  BY StateParts
<1>5. State(wiimote', report') = State(two.wiimote, two.answer)
  BY Zenon, <1>1, <1>3, Delivered
<1>6. wiimote' = [w EXCEPT !.mode = 49] /\ report' = AckBytes(wiimote)
  BY <1>4, <1>5, StatesEqual
<1>7. [w EXCEPT !.mode = 49] = [wiimote EXCEPT !.inited = wiimote.plugged # "None", !.mode = 49]
  BY DEF w, Wiimotes
<1> QED
  BY Zenon, <1>6, <1>7

LEMMA WriteGreeting ==
  ASSUME NEW outs, Len(outs) = 3, outs[1] = SetLeds(0, FALSE), outs[2] = SetReportingMode(49),
         outs[3] = RequestStatus, Write(outs), wiimote \in Wiimotes
  PROVE  wiimote' = [wiimote EXCEPT !.mode = 48] /\ report' = StatusBytes(wiimote)
<1> DEFINE w == [wiimote EXCEPT !.mode = 49]
           one == State(wiimote, <<>>)
           two == State(w, <<>>)
           three == State([w EXCEPT !.mode = 48], StatusBytes(w))
<1>1. Obey(one, Encode(outs[1])) = one
  BY Zenon, ObeyLeds
<1>2. 49 \in {49, 53}
  OBVIOUS
<1>3. Obey(one, Encode(outs[2])) = two
  BY Zenon, <1>2, ObeyMode
<1>4. w \in Wiimotes /\ w.held = wiimote.held /\ w.plugged = wiimote.plugged
  BY DEF Wiimotes
<1>5. StatusBytes(w) = StatusBytes(wiimote)
  BY Zenon, <1>4 DEF StatusBytes
<1> HIDE DEF w
<1>6. Obey(two, Encode(outs[3])) = three
  BY Zenon, <1>4, ObeyStatus
<1>7. three.wiimote = [w EXCEPT !.mode = 48] /\ three.answer = StatusBytes(w)
  BY StateParts
<1>8. State(wiimote', report') = State(three.wiimote, three.answer)
  BY Zenon, <1>1, <1>3, <1>6, Delivered
<1>9. wiimote' = [w EXCEPT !.mode = 48] /\ report' = StatusBytes(w)
  BY <1>7, <1>8, StatesEqual
<1>10. [w EXCEPT !.mode = 48] = [wiimote EXCEPT !.mode = 48]
  BY DEF w, Wiimotes
<1> QED
  BY Zenon, <1>5, <1>9, <1>10

-----------------------------------------------------------------------------
(* The types, and the inductive invariant: what the daemon knows while a   *)
(* report is under way, for each kind of report.                           *)

Exts ==
  {NoExt, [kind |-> "Unparsed"]} \cup States("Nunchuk") \cup States("ClassicController")
    \cup States("Guitar") \cup States("Drums")

Controllers == [buttons : SUBSET Buttons, accel : Readings, ext : Exts]

Runtimes ==
  [pending : BOOLEAN, connected : BOOLEAN, ext_phase : Phases,
   whammy_baseline : (0..31) \cup {None}, profile : Profiles, output_retry_at : BOOLEAN,
   controller : Controllers]

PipelineTypes ==
  /\ os \in Systems
  /\ link \in {"down", "up", "closing"}
  /\ runtime \in Runtimes
  /\ wiimote \in Wiimotes
  /\ wiimote.plugged \in Pluggable \cup {"None"}
  /\ told \in [accel : Readings \cup {None}, ext : Exts, was : Exts]

(* What the controller shows of an extension that was told: a guitar's bar *)
(* is calibrated, and the rest position is one the bar was in.             *)
Calibration(e, baseline) ==
  IF e.kind = "Guitar" THEN [e EXCEPT !.whammy = Calibrated(baseline, @)] ELSE e

ShowsExt(e) ==
  /\ runtime.controller.ext = Calibration(e, runtime.whammy_baseline)
  /\ e.kind = "Guitar" => runtime.whammy_baseline \in 0..e.whammy

ShowsAccel == told.accel # None => runtime.controller.accel = Coarse(told.accel)

Shown == ShowsAccel /\ ShowsExt(told.ext)

(* The handshake is over: phase and mode are those of what is plugged in.  *)
Settled ==
  IF wiimote.plugged = "None" THEN runtime.ext_phase = None /\ wiimote.mode = 49
  ELSE runtime.ext_phase = wiimote.plugged /\ wiimote.mode = 53

(* The report under way, as it is parsed, and the state it finds: one of   *)
(* the answers of the handshake, or one of the owner's moves.              *)
StatusSent(r) ==
  /\ r = [type |-> "Status", buttons |-> wiimote.held, battery |-> 200,
          extension_connected |-> wiimote.plugged # "None"]
  /\ wiimote.mode = 48
  /\ ShowsAccel
  /\ IF wiimote.plugged = "None" THEN told.ext = NoExt
     ELSE runtime.ext_phase \in {None, wiimote.plugged} /\ ShowsExt(told.ext)

AckSent(r) ==
  /\ r = [type |-> "Ack", buttons |-> wiimote.held, report_id |-> 22, error |-> 0]
  /\ runtime.ext_phase = "InitSent"
  /\ wiimote.plugged # "None" /\ wiimote.inited /\ wiimote.mode = 49
  /\ Shown

IdSent(r) ==
  /\ r = [type |-> "ReadResponse", buttons |-> wiimote.held, error |-> 0, size |-> 6,
          address |-> 250, data |-> r.data]
  /\ FromId(r.data) = wiimote.plugged
  /\ runtime.ext_phase = "ReadingId"
  /\ wiimote.plugged # "None" /\ wiimote.mode = 49
  /\ Shown

AccelSent(r) ==
  /\ r = [type |-> "ButtonsAccel", buttons |-> wiimote.held, accel |-> Coarse(told.accel)]
  /\ told.accel # None
  /\ Settled
  /\ ShowsExt(told.ext)

ExtSent(r) ==
  /\ r = [type |-> "ButtonsAccelExt", buttons |-> wiimote.held, accel |-> Coarse(told.accel),
          ext |-> r.ext]
  /\ told.accel # None
  /\ wiimote.plugged # "None"
  /\ told.ext \in States(wiimote.plugged)
  /\ ParseExtension(wiimote.plugged, r.ext) = told.ext
  /\ Settled
  /\ ShowsExt(told.was)

Sent(r) == StatusSent(r) \/ AckSent(r) \/ IdSent(r) \/ AccelSent(r) \/ ExtSent(r)

InFlight == report # <<>> => link = "up" /\ Sent(ParseInput(report))

(* Between two reports the daemon has caught up with its Wiimote.          *)
UpToDate == Handled => Settled /\ Shown /\ runtime.controller.buttons = wiimote.held

(* Before the identifier there is no extension, told or shown; and a closed*)
(* session keeps nothing.                                                  *)
Unknowing ==
  link = "up" /\ ~Identified(runtime.ext_phase)
    => runtime.controller.ext = NoExt /\ told.ext = NoExt

Fresh ==
  link = "down" =>
    /\ runtime.controller = NoInput /\ told = NothingTold
    /\ runtime.ext_phase = None /\ runtime.whammy_baseline = None

FlightInv == InFlight /\ UpToDate /\ Unknowing /\ Fresh

-----------------------------------------------------------------------------
LEMMA NoneIsOther ==
  /\ None # "InitSent" /\ None # "ReadingId"
  /\ \A x \in DOMAIN ExtensionId : None # x /\ "None" # x /\ Identified(x)
  /\ None \notin Nat /\ None \notin Readings
<1>1. \A x \in DOMAIN ExtensionId : x # "None" /\ x # "InitSent" /\ x # "ReadingId"
  BY DEF ExtensionId
<1> QED
  BY <1>1, NoneIsNothing DEF Identified

LEMMA StatesAreExts ==
  ASSUME NEW x \in DOMAIN ExtensionId \cup {"None"}
  PROVE  States(x) \subseteq Exts
<1>1. x \in {"Nunchuk", "ClassicController", "Guitar", "Drums", "TaikoDrum", "None"}
  BY DEF ExtensionId
<1>2. /\ \A e \in States("TaikoDrum") : e = [kind |-> "Unparsed"]
      /\ \A e \in States("None") : e = NoExt
  BY DEF States
<1> QED
  BY Zenon, <1>1, <1>2 DEF Exts

LEMMA NoExtIsExt == NoExt \in Exts /\ NoExt.kind = "None" /\ Centred \in Readings
  /\ NoInput \in Controllers
<1>1. NoExt \in Exts
  BY Zenon DEF Exts
<1>2. NoExt.kind = "None"
  BY DEF NoExt
<1>3. Centred \in Readings
  BY DEF Centred, Readings
<1> QED
  BY <1>1, <1>2, <1>3 DEF NoInput, Controllers

LEMMA InitTypes == PipelineInit => PipelineTypes
<1> SUFFICES ASSUME PipelineInit PROVE PipelineTypes
  OBVIOUS
<1> USE DEF PipelineInit
<1>1. runtime \in Runtimes
  <2>1. None \in Phases /\ "Auto" \in Profiles
    BY Zenon DEF Phases, Profiles
  <2> QED
    BY <2>1, NoExtIsExt DEF Runtimes
<1>2. wiimote \in Wiimotes /\ wiimote.plugged = "None"
  BY DEF Wiimotes
<1>3. told \in [accel : Readings \cup {None}, ext : Exts, was : Exts]
  BY NoExtIsExt DEF NothingTold
<1> QED
  BY <1>1, <1>2, <1>3 DEF PipelineTypes

LEMMA InitFlight == PipelineInit => FlightInv
<1> SUFFICES ASSUME PipelineInit PROVE FlightInv
  OBVIOUS
<1>1. report = <<>> /\ link = "down" /\ told = NothingTold
  BY DEF PipelineInit
<1>2. /\ runtime.controller = NoInput
      /\ runtime.ext_phase = None /\ runtime.whammy_baseline = None
  BY DEF PipelineInit
<1> QED
  BY <1>1, <1>2 DEF FlightInv, InFlight, UpToDate, Unknowing, Fresh, Handled

-----------------------------------------------------------------------------
(* handle_report in parts: process_extension_fsm, the payloads it asks for,*)
(* and promote_to_connected.                                               *)

(* A runtime that differs from another in what a report changes at most.   *)
Becomes(rt, to, phase, baseline, ext) ==
  /\ to \in Runtimes
  /\ to.ext_phase = phase /\ to.whammy_baseline = baseline
  /\ to.controller = [buttons |-> rt.controller.buttons, accel |-> rt.controller.accel,
                      ext |-> ext]
  /\ to.profile = rt.profile /\ to.pending = rt.pending /\ to.connected = rt.connected

Record(pe, co, ph, wb, pr, re, c) ==
  [pending |-> pe, connected |-> co, ext_phase |-> ph, whammy_baseline |-> wb, profile |-> pr,
   output_retry_at |-> re, controller |-> c]

LEMMA RuntimeParts ==
  ASSUME NEW rt \in Runtimes, NEW phase \in Phases, NEW baseline \in (0..31) \cup {None},
         NEW ext \in Exts
  PROVE  /\ Becomes(rt, [rt EXCEPT !.ext_phase = phase], phase, rt.whammy_baseline,
                    rt.controller.ext)
         /\ Becomes(rt, [rt EXCEPT !.ext_phase = phase, !.controller.ext = ext], phase,
                    rt.whammy_baseline, ext)
         /\ Becomes(rt, [rt EXCEPT !.ext_phase = phase, !.whammy_baseline = baseline], phase,
                    baseline, rt.controller.ext)
         /\ Becomes(rt, [rt EXCEPT !.controller.ext = ext], rt.ext_phase, rt.whammy_baseline, ext)
         /\ Becomes(rt, [rt EXCEPT !.whammy_baseline = baseline, !.controller.ext = ext],
                    rt.ext_phase, baseline, ext)
<1>1. PICK pe, co, ph, wb, pr, re, c : rt = Record(pe, co, ph, wb, pr, re, c)
  BY DEF Runtimes, Record
<1>2. /\ rt.pending = pe /\ rt.connected = co /\ rt.ext_phase = ph /\ rt.whammy_baseline = wb
      /\ rt.profile = pr /\ rt.output_retry_at = re /\ rt.controller = c
  BY <1>1 DEF Record
<1>3. /\ pe \in BOOLEAN /\ co \in BOOLEAN /\ ph \in Phases /\ wb \in (0..31) \cup {None}
      /\ pr \in Profiles /\ re \in BOOLEAN /\ c \in Controllers
  BY <1>2 DEF Runtimes
<1>4. PICK b \in SUBSET Buttons, a \in Readings, e \in Exts :
        c = [buttons |-> b, accel |-> a, ext |-> e]
  BY <1>3 DEF Controllers
<1> DEFINE With(p2, w2, d) == Record(pe, co, p2, w2, pr, re, d)
           c2 == [c EXCEPT !.ext = ext]
<1>5. c2 = [buttons |-> b, accel |-> a, ext |-> ext]
  BY <1>4
<1>6. ASSUME NEW p2 \in Phases, NEW w2 \in (0..31) \cup {None}, NEW e2 \in Exts
      PROVE  Becomes(rt, With(p2, w2, [buttons |-> b, accel |-> a, ext |-> e2]), p2, w2, e2)
  <2> DEFINE d == [buttons |-> b, accel |-> a, ext |-> e2]
  <2>1. d \in Controllers
    BY DEF Controllers
  <2>2. rt.controller.buttons = b /\ rt.controller.accel = a
    BY <1>2, <1>4
  <2> HIDE DEF d
  <2> DEFINE to == With(p2, w2, d)
  <2>3. to \in Runtimes
    BY <1>3, <2>1 DEF Runtimes, Record
  <2>4. /\ to.pending = pe /\ to.connected = co /\ to.ext_phase = p2 /\ to.whammy_baseline = w2
        /\ to.profile = pr /\ to.controller = d
    BY DEF Record
  <2> HIDE DEF to
  <2> QED
    BY <1>2, <2>2, <2>3, <2>4 DEF Becomes, to, d
<1> DEFINE phased == [rt EXCEPT !.ext_phase = phase]
           based == [rt EXCEPT !.whammy_baseline = baseline]
           stated == [rt EXCEPT !.controller = c2]
<1> HIDE DEF c2
<1>7. /\ phased = With(phase, wb, c)
      /\ based = With(ph, baseline, c)
      /\ stated = With(ph, wb, c2)
  BY <1>1 DEF Record
<1> HIDE DEF phased, based, stated
<1>8. /\ [phased EXCEPT !.whammy_baseline = baseline] = With(phase, baseline, c)
      /\ [phased EXCEPT !.controller = c2] = With(phase, wb, c2)
      /\ [based EXCEPT !.controller = c2] = With(ph, baseline, c2)
  BY <1>7 DEF Record
<1> HIDE DEF With
<1>9. ext \in Exts /\ e \in Exts /\ rt.controller.ext = e
  BY <1>2, <1>4
<1>10. /\ Becomes(rt, With(phase, wb, c), phase, wb, e)
       /\ Becomes(rt, With(phase, wb, c2), phase, wb, ext)
       /\ Becomes(rt, With(phase, baseline, c), phase, baseline, e)
       /\ Becomes(rt, With(ph, wb, c2), ph, wb, ext)
       /\ Becomes(rt, With(ph, baseline, c2), ph, baseline, ext)
  BY <1>3, <1>4, <1>5, <1>6, <1>9
<1> DEFINE u1 == [rt EXCEPT !.ext_phase = phase]
           u2 == [rt EXCEPT !.ext_phase = phase, !.controller.ext = ext]
           u3 == [rt EXCEPT !.ext_phase = phase, !.whammy_baseline = baseline]
           u4 == [rt EXCEPT !.controller.ext = ext]
           u5 == [rt EXCEPT !.whammy_baseline = baseline, !.controller.ext = ext]
<1>11. u1 = With(phase, wb, c)
  BY <1>7 DEF phased
<1>12. u2 = With(phase, wb, c2)
  <2>1. phased.controller = c
    BY <1>7 DEF With, Record
  <2>2. u2 = [phased EXCEPT !.controller = [phased.controller EXCEPT !.ext = ext]]
    BY Zenon DEF phased
  <2> QED
    BY Zenon, <1>8, <2>1, <2>2 DEF c2
<1>13. u3 = With(phase, baseline, c)
  BY Zenon, <1>8 DEF phased
<1>14. u4 = With(ph, wb, c2)
  BY Zenon, <1>2, <1>7 DEF stated, c2
<1>15. u5 = With(ph, baseline, c2)
  <2>1. based.controller = c
    BY <1>7 DEF With, Record
  <2>2. u5 = [based EXCEPT !.controller = [based.controller EXCEPT !.ext = ext]]
    BY Zenon DEF based
  <2> QED
    BY Zenon, <1>8, <2>1, <2>2 DEF c2
<1> HIDE DEF u1, u2, u3, u4, u5
<1>16. /\ Becomes(rt, u1, phase, rt.whammy_baseline, rt.controller.ext)
       /\ Becomes(rt, u2, phase, rt.whammy_baseline, ext)
       /\ Becomes(rt, u3, phase, baseline, rt.controller.ext)
       /\ Becomes(rt, u4, rt.ext_phase, rt.whammy_baseline, ext)
       /\ Becomes(rt, u5, rt.ext_phase, baseline, ext)
  BY <1>2, <1>9, <1>10, <1>11, <1>12, <1>13, <1>14, <1>15
<1> QED
  BY Zenon, <1>16 DEF u1, u2, u3, u4, u5

LEMMA AfterCases ==
  ASSUME NEW rt, NEW r
  PROVE  /\ r.type = "Status" /\ ~r.extension_connected =>
              AfterReport(rt, r) = [rt EXCEPT !.ext_phase = None, !.controller.ext = NoExt]
         /\ r.type = "Status" /\ r.extension_connected /\ rt.ext_phase = None =>
              AfterReport(rt, r) = [rt EXCEPT !.ext_phase = "InitSent"]
         /\ r.type = "Status" /\ r.extension_connected /\ rt.ext_phase # None =>
              AfterReport(rt, r) = rt
         /\ r.type = "Ack" /\ AwaitedAck(rt, r) =>
              AfterReport(rt, r) = [rt EXCEPT !.ext_phase = "ReadingId"]
         /\ r.type = "ReadResponse" /\ AwaitedId(rt, r) =>
              AfterReport(rt, r) =
                [rt EXCEPT !.ext_phase = FromId(r.data), !.whammy_baseline = None]
         /\ r.type = "ButtonsAccel" => AfterReport(rt, r) = rt
         /\ r.type = "ButtonsAccelExt" => AfterReport(rt, r) = ExtParsed(rt, r.ext)
<1>1. ASSUME r.type = "Status", ~r.extension_connected
      PROVE  AfterReport(rt, r) = [rt EXCEPT !.ext_phase = None, !.controller.ext = NoExt]
  BY Zenon, <1>1 DEF AfterReport
<1>2. ASSUME r.type = "Status", r.extension_connected, rt.ext_phase = None
      PROVE  AfterReport(rt, r) = [rt EXCEPT !.ext_phase = "InitSent"]
  BY Zenon, <1>2 DEF AfterReport
<1>3. ASSUME r.type = "Status", r.extension_connected, rt.ext_phase # None
      PROVE  AfterReport(rt, r) = rt
  BY Zenon, <1>3 DEF AfterReport
<1>4. ASSUME r.type = "Ack", AwaitedAck(rt, r)
      PROVE  AfterReport(rt, r) = [rt EXCEPT !.ext_phase = "ReadingId"]
  BY Zenon, <1>4 DEF AfterReport
<1>5. ASSUME r.type = "ReadResponse", AwaitedId(rt, r)
      PROVE  AfterReport(rt, r) =
               [rt EXCEPT !.ext_phase = FromId(r.data), !.whammy_baseline = None]
  BY Zenon, <1>5 DEF AfterReport
<1>6. ASSUME r.type = "ButtonsAccel" PROVE AfterReport(rt, r) = rt
  BY Zenon, <1>6 DEF AfterReport
<1>7. ASSUME r.type = "ButtonsAccelExt" PROVE AfterReport(rt, r) = ExtParsed(rt, r.ext)
  BY Zenon, <1>7 DEF AfterReport
<1> QED
  BY Zenon, <1>1, <1>2, <1>3, <1>4, <1>5, <1>6, <1>7

LEMMA PayloadCases ==
  ASSUME NEW rt, NEW r
  PROVE  /\ r.type = "Status" =>
              PayloadsFor(rt, r) =
                (IF r.extension_connected /\ rt.ext_phase = None THEN <<Handshake>> ELSE <<>>)
                  \o <<SetReportingMode(IF r.extension_connected /\ Identified(rt.ext_phase)
                                          THEN 53 ELSE 49)>>
         /\ r.type = "Ack" /\ AwaitedAck(rt, r) => PayloadsFor(rt, r) = <<ReadId>>
         /\ r.type = "ReadResponse" /\ AwaitedId(rt, r) =>
              PayloadsFor(rt, r) = <<SetReportingMode(53)>>
         /\ r.type = "ButtonsAccel" => PayloadsFor(rt, r) = <<>>
         /\ r.type = "ButtonsAccelExt" => PayloadsFor(rt, r) = <<>>
<1>1. ASSUME r.type = "Status"
      PROVE  PayloadsFor(rt, r) =
               (IF r.extension_connected /\ rt.ext_phase = None THEN <<Handshake>> ELSE <<>>)
                 \o <<SetReportingMode(IF r.extension_connected /\ Identified(rt.ext_phase)
                                         THEN 53 ELSE 49)>>
  BY Zenon, <1>1 DEF PayloadsFor
<1>2. ASSUME r.type = "Ack", AwaitedAck(rt, r) PROVE PayloadsFor(rt, r) = <<ReadId>>
  BY Zenon, <1>2 DEF PayloadsFor
<1>3. ASSUME r.type = "ReadResponse", AwaitedId(rt, r)
      PROVE  PayloadsFor(rt, r) = <<SetReportingMode(53)>>
  BY Zenon, <1>3 DEF PayloadsFor
<1>4. ASSUME r.type = "ButtonsAccel" PROVE PayloadsFor(rt, r) = <<>>
  BY Zenon, <1>4 DEF PayloadsFor
<1>5. ASSUME r.type = "ButtonsAccelExt" PROVE PayloadsFor(rt, r) = <<>>
  BY Zenon, <1>5 DEF PayloadsFor
<1> QED
  BY Zenon, <1>1, <1>2, <1>3, <1>4, <1>5

LEMMA Promoted ==
  ASSUME PipelineTypes, NEW p \in Promotions
  PROVE  /\ p.rt \in Runtimes
         /\ p.rt.ext_phase = runtime.ext_phase
         /\ p.rt.whammy_baseline = runtime.whammy_baseline
         /\ p.rt.controller = runtime.controller
         /\ p.rt.profile = runtime.profile
         /\ p.up \in {link, "closing"}
         /\ \/ p.out = output /\ p.dev = device
            \/ /\ Buildable(runtime.profile)
               /\ p.out = NewOutput(runtime.profile) /\ p.dev = Dropped
<1>1. runtime \in Runtimes
  BY DEF PipelineTypes
<1> DEFINE without == [runtime EXCEPT !.pending = FALSE]
           promoted == [runtime EXCEPT !.pending = FALSE, !.connected = TRUE]
           waiting == [promoted EXCEPT !.output_retry_at = TRUE]
<1>2. \A rt \in {runtime, without, promoted, waiting} :
        /\ rt \in Runtimes /\ rt.ext_phase = runtime.ext_phase
        /\ rt.whammy_baseline = runtime.whammy_baseline
        /\ rt.controller = runtime.controller /\ rt.profile = runtime.profile
  BY <1>1 DEF Runtimes
<1>3. \/ p = [rt |-> runtime, out |-> output, dev |-> device, up |-> link]
      \/ p = [rt |-> without, out |-> output, dev |-> device, up |-> "closing"]
      \/ p = [rt |-> waiting, out |-> output, dev |-> device, up |-> link]
      \/ /\ p = [rt |-> promoted, out |-> NewOutput(runtime.profile), dev |-> Dropped, up |-> link]
         /\ Buildable(runtime.profile)
  BY Zenon DEF Promotions
<1> HIDE DEF without, promoted, waiting
<1> QED
  BY <1>2, <1>3

-----------------------------------------------------------------------------
(* decompose.                                                              *)

AccelOf(c, r) == IF "accel" \in DOMAIN r THEN r.accel ELSE c.accel

LEMMA Decomposing ==
  ASSUME NEW rt \in Runtimes, NEW r, r.buttons \in SUBSET Buttons,
         AccelOf(rt.controller, r) \in Readings
  PROVE  LET to == [rt EXCEPT !.controller = Decomposed(rt.controller, r)]
         IN  /\ to \in Runtimes
             /\ to.ext_phase = rt.ext_phase /\ to.whammy_baseline = rt.whammy_baseline
             /\ to.profile = rt.profile
             /\ to.controller = Decomposed(rt.controller, r)
             /\ to.controller = [buttons |-> r.buttons, accel |-> AccelOf(rt.controller, r),
                                 ext |-> rt.controller.ext]
<1> DEFINE d == Decomposed(rt.controller, r)
           acc == AccelOf(rt.controller, r)
           rb == r.buttons
<1>1. rt.controller \in Controllers
  BY DEF Runtimes
<1>2. PICK b \in SUBSET Buttons, a \in Readings, e \in Exts :
        rt.controller = [buttons |-> b, accel |-> a, ext |-> e]
  BY <1>1 DEF Controllers
<1> DEFINE c == rt.controller
           buttoned == [c EXCEPT !.buttons = rb]
<1>3. c.accel = a /\ c.ext = e
  BY <1>2
<1>4. buttoned = [buttons |-> rb, accel |-> a, ext |-> e]
  BY <1>2
<1>5. buttoned.accel = a
  BY <1>4
<1>6. d = [buttoned EXCEPT !.accel = IF "accel" \in DOMAIN r THEN r.accel ELSE @]
  BY Zenon DEF Decomposed
<1> HIDE DEF buttoned
<1>7. (IF "accel" \in DOMAIN r THEN r.accel ELSE buttoned.accel) = acc
  BY Zenon, <1>3, <1>5 DEF AccelOf
<1>8. d = [buttoned EXCEPT !.accel = acc]
  BY Zenon, <1>6, <1>7
<1> HIDE DEF d, acc, rb, c
<1>9. d = [buttons |-> rb, accel |-> acc, ext |-> e]
  BY <1>4, <1>8
<1>10. d \in Controllers
  BY <1>9 DEF Controllers, rb, acc
<1> DEFINE to == [rt EXCEPT !.controller = d]
<1>11. /\ to \in Runtimes
       /\ to.ext_phase = rt.ext_phase /\ to.whammy_baseline = rt.whammy_baseline
       /\ to.profile = rt.profile /\ to.controller = d
  BY <1>10 DEF Runtimes
<1> HIDE DEF to
<1> QED
  BY <1>3, <1>9, <1>11 DEF to, d, acc, rb, c

LEMMA UncalibratedParts ==
  ASSUME NEW rt \in Runtimes, NEW raw, Identified(rt.ext_phase),
         ParseExtension(rt.ext_phase, raw) \in Exts
  PROVE  LET e == ParseExtension(rt.ext_phase, raw)
             low == Baseline(rt.whammy_baseline, e.whammy)
         IN  /\ e.kind # "Guitar" =>
                  Becomes(rt, ExtParsed(rt, raw), rt.ext_phase, rt.whammy_baseline, e)
             /\ e.kind = "Guitar" =>
                  /\ Becomes(rt, ExtParsed(rt, raw), rt.ext_phase, low, Calibration(e, low))
                  /\ low \in 0..e.whammy
<1> DEFINE e == ParseExtension(rt.ext_phase, raw)
           low == Baseline(rt.whammy_baseline, e.whammy)
           cal == [e EXCEPT !.whammy = Calibrated(low, @)]
<1>1. ASSUME e.kind # "Guitar"
      PROVE  Becomes(rt, ExtParsed(rt, raw), rt.ext_phase, rt.whammy_baseline, e)
  <2>1. ExtParsed(rt, raw) = [rt EXCEPT !.controller.ext = e]
    BY Zenon, <1>1 DEF ExtParsed
  <2> HIDE DEF e
  <2>2. rt.whammy_baseline \in (0..31) \cup {None}
    BY DEF Runtimes
  <2>3. Becomes(rt, [rt EXCEPT !.controller.ext = e], rt.ext_phase, rt.whammy_baseline, e)
    BY Zenon, RuntimeParts, <2>2 DEF e, Runtimes
  <2> QED
    BY Zenon, <2>1, <2>3 DEF e
<1>2. ASSUME e.kind = "Guitar"
      PROVE  /\ Becomes(rt, ExtParsed(rt, raw), rt.ext_phase, low, Calibration(e, low))
             /\ low \in 0..e.whammy
  <2>1. ExtParsed(rt, raw) = [rt EXCEPT !.whammy_baseline = low, !.controller.ext = cal]
    BY Zenon, <1>2 DEF ExtParsed
  <2> HIDE DEF e
  <2>2. e \in States("Guitar") /\ States("Guitar") \subseteq Exts
    <3>1. \A x \in {NoExt, [kind |-> "Unparsed"]} \cup States("Nunchuk")
                     \cup States("ClassicController") \cup States("Drums") : x.kind # "Guitar"
      BY DEF NoExt, States
    <3> QED
      BY Zenon, <1>2, <3>1 DEF Exts, e
  <2>3. e.whammy \in 0..31
    BY <2>2 DEF States
  <2>4. rt.whammy_baseline \in (0..31) \cup {None}
    BY DEF Runtimes
  <2>5. low \in 0..e.whammy /\ low \in 0..31
    BY <2>3, <2>4, NoneIsOther DEF Baseline
  <2> HIDE DEF low
  <2>6. Calibrated(low, e.whammy) \in 0..31
    <3>1. Baseline(low, e.whammy) = low
      BY <2>3, <2>5 DEF Baseline
    <3> QED
      BY <2>3, <2>5, <3>1, CalibrationStaysInRange
  <2>7. cal = Calibration(e, low)
    BY Zenon, <1>2 DEF Calibration
  <2>8. cal \in States("Guitar")
    BY <2>2, <2>6 DEF States
  <2> HIDE DEF cal
  <2>9. cal \in Exts
    BY <2>2, <2>8
  <2>10. Becomes(rt, [rt EXCEPT !.whammy_baseline = low, !.controller.ext = cal], rt.ext_phase,
                 low, cal)
    BY Zenon, RuntimeParts, <2>5, <2>9 DEF Runtimes
  <2> QED
    BY Zenon, <2>1, <2>5, <2>7, <2>10
<1> QED
  BY Zenon, <1>1, <1>2

-----------------------------------------------------------------------------
(* handle_report, for one of the outcomes of promote_to_connected.         *)
Handles(p, r) ==
  LET rt == AfterReport(p.rt, r)
  IN  /\ runtime' = [rt EXCEPT !.controller = Decomposed(rt.controller, r)]
      /\ link' = p.up
      /\ p.up = "up" => Write(PayloadsFor(p.rt, r))
      /\ p.up # "up" => report' = <<>> /\ wiimote' = wiimote
      /\ told' = told /\ os' = os

(* What a report leaves of a session's runtime.                            *)
Leaves(phase, baseline, buttons, accel, ext) ==
  /\ runtime' \in Runtimes
  /\ runtime'.ext_phase = phase /\ runtime'.whammy_baseline = baseline
  /\ runtime'.controller.buttons = buttons /\ runtime'.controller.accel = accel
  /\ runtime'.controller.ext = ext
  /\ runtime'.profile = runtime.profile

LEMMA Left ==
  ASSUME PipelineTypes, NEW p \in Promotions, NEW r, NEW phase, NEW baseline, NEW ext,
         Handles(p, r), Becomes(p.rt, AfterReport(p.rt, r), phase, baseline, ext),
         r.buttons \in SUBSET Buttons, AccelOf(runtime.controller, r) \in Readings
  PROVE  Leaves(phase, baseline, r.buttons, AccelOf(runtime.controller, r), ext)
<1> DEFINE rt == AfterReport(p.rt, r)
           acc == AccelOf(rt.controller, r)
           to == [rt EXCEPT !.controller = Decomposed(rt.controller, r)]
<1>1. /\ p.rt.controller = runtime.controller /\ p.rt.profile = runtime.profile
  BY Promoted
<1>2. /\ rt \in Runtimes /\ rt.ext_phase = phase /\ rt.whammy_baseline = baseline
      /\ rt.controller = [buttons |-> p.rt.controller.buttons, accel |-> p.rt.controller.accel,
                          ext |-> ext]
      /\ rt.profile = p.rt.profile
  BY Zenon DEF Becomes
<1>3. rt.controller.accel = runtime.controller.accel /\ rt.controller.ext = ext
  BY <1>1, <1>2
<1>4. acc = AccelOf(runtime.controller, r)
  BY Zenon, <1>3 DEF AccelOf
<1>5. runtime' = to
  BY Zenon DEF Handles
<1> HIDE DEF rt
<1>6. /\ to \in Runtimes
      /\ to.ext_phase = rt.ext_phase /\ to.whammy_baseline = rt.whammy_baseline
      /\ to.profile = rt.profile
      /\ to.controller = [buttons |-> r.buttons, accel |-> acc, ext |-> rt.controller.ext]
  BY Zenon, <1>2, <1>4, Decomposing
<1> HIDE DEF acc, to
<1> QED
  BY <1>1, <1>2, <1>3, <1>4, <1>5, <1>6 DEF Leaves

LEMMA NotKept ==
  ASSUME NEW c, NEW r, "accel" \notin DOMAIN r
  PROVE  AccelOf(c, r) = c.accel
BY DEF AccelOf

LEMMA Kept ==
  ASSUME NEW c, NEW r, "accel" \in DOMAIN r
  PROVE  AccelOf(c, r) = r.accel
BY DEF AccelOf

LEMMA NoExtStays ==
  ASSUME NEW b
  PROVE  Calibration(NoExt, b) = NoExt
BY DEF Calibration, NoExt

LEMMA Closing ==
  ASSUME link' = "closing", report' = <<>>
  PROVE  FlightInv'
BY DEF FlightInv, InFlight, UpToDate, Unknowing, Fresh, Handled

LEMMA TypedParts ==
  ASSUME PipelineTypes
  PROVE  /\ runtime \in Runtimes /\ runtime.controller \in Controllers
         /\ runtime.controller.accel \in Readings /\ runtime.controller.ext \in Exts
         /\ runtime.ext_phase \in Phases /\ runtime.whammy_baseline \in (0..31) \cup {None}
         /\ wiimote \in Wiimotes /\ wiimote.held \in SUBSET Buttons
         /\ wiimote.plugged \in DOMAIN ExtensionId \cup {"None"}
<1>1. runtime \in Runtimes /\ wiimote \in Wiimotes
  BY DEF PipelineTypes
<1>2. /\ runtime.controller \in Controllers /\ runtime.ext_phase \in Phases
      /\ runtime.whammy_baseline \in (0..31) \cup {None}
  BY <1>1 DEF Runtimes
<1>3. runtime.controller.accel \in Readings /\ runtime.controller.ext \in Exts
  BY <1>2 DEF Controllers
<1>4. wiimote.held \in SUBSET Buttons /\ wiimote.plugged \in DOMAIN ExtensionId \cup {"None"}
  BY <1>1 DEF Wiimotes
<1> QED
  BY <1>1, <1>2, <1>3, <1>4

-----------------------------------------------------------------------------
(* A status report: nothing is plugged in, or something new, or what was.  *)

LEMMA StatusHandled ==
  ASSUME PipelineTypes, FlightInv, NEW p \in Promotions, NEW r, Handles(p, r), StatusSent(r),
         link = "up", report # <<>>
  PROVE  /\ runtime' \in Runtimes /\ runtime'.profile = runtime.profile
         /\ runtime'.controller.ext \in {runtime.controller.ext, NoExt}
         /\ wiimote' \in Wiimotes /\ wiimote'.plugged = wiimote.plugged
         /\ FlightInv'
<1> USE TypedParts
<1>1. /\ r.type = "Status" /\ r.buttons = wiimote.held
      /\ r.extension_connected = (wiimote.plugged # "None")
      /\ "accel" \notin DOMAIN r
  BY DEF StatusSent
<1>2. /\ p.rt \in Runtimes /\ p.rt.ext_phase = runtime.ext_phase
      /\ p.rt.whammy_baseline = runtime.whammy_baseline
      /\ p.rt.controller = runtime.controller /\ p.up \in {"up", "closing"}
  BY Promoted
<1> DEFINE rt == AfterReport(p.rt, r)
           base == runtime.whammy_baseline
           phase == IF wiimote.plugged = "None" THEN None
                    ELSE IF runtime.ext_phase = None THEN "InitSent" ELSE runtime.ext_phase
           ext == IF wiimote.plugged = "None" THEN NoExt ELSE runtime.controller.ext
           mode == IF wiimote.plugged # "None" /\ Identified(runtime.ext_phase) THEN 53 ELSE 49
<1>3. Becomes(p.rt, rt, phase, base, ext)
  <2>1. /\ None \in Phases /\ "InitSent" \in Phases /\ NoExt \in Exts
        /\ p.rt.ext_phase \in Phases /\ p.rt.whammy_baseline \in (0..31) \cup {None}
        /\ p.rt.controller.ext \in Exts
    BY <1>2, NoExtIsExt DEF Phases
  <2>2. CASE wiimote.plugged = "None"
    <3>1. rt = [p.rt EXCEPT !.ext_phase = None, !.controller.ext = NoExt]
      BY Zenon, <1>1, <2>2, AfterCases
    <3>2. Becomes(p.rt, [p.rt EXCEPT !.ext_phase = None, !.controller.ext = NoExt], None,
                  p.rt.whammy_baseline, NoExt)
      BY Zenon, <1>2, <2>1, RuntimeParts
    <3> QED
      BY Zenon, <1>2, <2>2, <3>1, <3>2
  <2>3. CASE wiimote.plugged # "None" /\ runtime.ext_phase = None
    <3>1. rt = [p.rt EXCEPT !.ext_phase = "InitSent"]
      BY Zenon, <1>1, <1>2, <2>3, AfterCases
    <3>2. Becomes(p.rt, [p.rt EXCEPT !.ext_phase = "InitSent"], "InitSent",
                  p.rt.whammy_baseline, p.rt.controller.ext)
      BY Zenon, <1>2, <2>1, RuntimeParts
    <3> QED
      BY Zenon, <1>2, <2>3, <3>1, <3>2
  <2>4. CASE wiimote.plugged # "None" /\ runtime.ext_phase # None
    <3>1. rt = p.rt
      BY Zenon, <1>1, <1>2, <2>4, AfterCases
    <3>2. p.rt = [p.rt EXCEPT !.ext_phase = p.rt.ext_phase]
      BY <1>2 DEF Runtimes
    <3>3. Becomes(p.rt, [p.rt EXCEPT !.ext_phase = p.rt.ext_phase], p.rt.ext_phase,
                  p.rt.whammy_baseline, p.rt.controller.ext)
      BY Zenon, <1>2, <2>1, RuntimeParts
    <3> QED
      BY Zenon, <1>2, <2>4, <3>1, <3>2, <3>3
  <2> QED
    BY <2>2, <2>3, <2>4
<1>4. Leaves(phase, base, wiimote.held, runtime.controller.accel, ext)
  <2>1. AccelOf(runtime.controller, r) = runtime.controller.accel
    BY <1>1, NotKept
  <2> HIDE DEF phase, base, ext
  <2>2. /\ r.buttons \in SUBSET Buttons /\ AccelOf(runtime.controller, r) \in Readings
        /\ Becomes(p.rt, AfterReport(p.rt, r), phase, base, ext)
    BY <1>1, <1>3, <2>1
  <2>3. Leaves(phase, base, r.buttons, AccelOf(runtime.controller, r), ext)
    BY Zenon, <2>2, Left
  <2> QED
    BY Zenon, <1>1, <2>1, <2>3
<1>5. CASE p.up = "closing"
  BY <1>4, <1>5, Closing DEF Handles, Leaves
<1>6. CASE p.up = "up"
  <2>1. /\ link' = "up" /\ told' = told /\ Write(PayloadsFor(p.rt, r))
    BY <1>6 DEF Handles
  <2>2. PayloadsFor(p.rt, r) =
          (IF wiimote.plugged # "None" /\ runtime.ext_phase = None THEN <<Handshake>> ELSE <<>>)
            \o <<SetReportingMode(mode)>>
    BY Zenon, <1>1, <1>2, PayloadCases
  <2>3. /\ wiimote.mode = 48 /\ ShowsAccel
        /\ wiimote.plugged = "None" => told.ext = NoExt
        /\ wiimote.plugged # "None" =>
             runtime.ext_phase \in {None, wiimote.plugged} /\ ShowsExt(told.ext)
    BY DEF StatusSent
  <2>4. ASSUME NEW m PROVE Len(<<>> \o <<m>>) = 1 /\ (<<>> \o <<m>>)[1] = m
    OBVIOUS
  <2>5. ASSUME NEW h, NEW m
        PROVE  /\ Len(<<h>> \o <<m>>) = 2
               /\ (<<h>> \o <<m>>)[1] = h /\ (<<h>> \o <<m>>)[2] = m
    OBVIOUS
  <2>6. /\ ShowsAccel' 
        /\ runtime'.controller.buttons = wiimote.held
    BY <1>4, <2>1, <2>3 DEF Leaves, ShowsAccel
  <2>7. CASE wiimote.plugged = "None"
    <3>1. wiimote' = [wiimote EXCEPT !.mode = 49] /\ report' = <<>>
      <4> DEFINE outs == <<>> \o <<SetReportingMode(49)>>
      <4>1. Write(outs)
        BY Zenon, <2>1, <2>2, <2>7
      <4>2. Len(outs) = 1 /\ outs[1] = SetReportingMode(49) /\ 49 \in {49, 53}
        BY <2>4
      <4> HIDE DEF outs
      <4> QED
        BY Zenon, <4>1, <4>2, WriteMode
    <3>2. /\ wiimote' \in Wiimotes /\ wiimote'.plugged = "None" /\ wiimote'.mode = 49
          /\ wiimote'.held = wiimote.held
      BY <2>7, <3>1 DEF Wiimotes
    <3>3. told'.ext = NoExt /\ runtime'.ext_phase = None /\ runtime'.controller.ext = NoExt
      BY <1>4, <2>1, <2>3, <2>7 DEF Leaves
    <3>4. Settled' /\ ShowsExt(told.ext)'
      <4>1. NoExt.kind # "Guitar"
        BY NoExtIsExt
      <4> QED
        BY <3>2, <3>3, <4>1, NoExtStays DEF Settled, ShowsExt
    <3> QED
      BY <1>4, <2>1, <2>6, <2>7, <3>1, <3>2, <3>3, <3>4
      DEF FlightInv, InFlight, UpToDate, Unknowing, Fresh, Shown, Leaves
  <2>8. CASE wiimote.plugged # "None" /\ runtime.ext_phase = None
    <3>1. /\ wiimote' = [wiimote EXCEPT !.inited = wiimote.plugged # "None", !.mode = 49]
          /\ report' = AckBytes(wiimote)
      <4> DEFINE outs == <<Handshake>> \o <<SetReportingMode(49)>>
      <4>1. Write(outs)
        <5>1. ~Identified(runtime.ext_phase)
          BY <2>8 DEF Identified
        <5> QED
          BY Zenon, <2>1, <2>2, <2>8, <5>1
      <4>2. Len(outs) = 2 /\ outs[1] = Handshake /\ outs[2] = SetReportingMode(49)
        BY <2>5
      <4> HIDE DEF outs
      <4> QED
        BY Zenon, <4>1, <4>2, WriteHandshake
    <3>2. /\ wiimote' \in Wiimotes /\ wiimote'.plugged = wiimote.plugged /\ wiimote'.mode = 49
          /\ wiimote'.held = wiimote.held /\ wiimote'.inited
      BY <2>8, <3>1 DEF Wiimotes
    <3>3. /\ report' # <<>>
          /\ ParseInput(report') =
               [type |-> "Ack", buttons |-> wiimote'.held, report_id |-> 22, error |-> 0]
      BY Zenon, <2>8, <3>1, <3>2, AckParsed
    <3>4. runtime'.ext_phase = "InitSent" /\ runtime'.controller.ext = runtime.controller.ext
          /\ runtime'.whammy_baseline = runtime.whammy_baseline
      BY <1>4, <2>8 DEF Leaves
    <3>5. ShowsExt(told.ext)'
      BY <2>1, <2>3, <2>8, <3>4 DEF ShowsExt
    <3>6. AckSent(ParseInput(report))'
      BY <2>6, <2>8, <3>2, <3>3, <3>4, <3>5 DEF AckSent, Shown
    <3>7. told.ext = NoExt /\ runtime.controller.ext = NoExt
      <4>1. ~Identified(runtime.ext_phase)
        BY <2>8 DEF Identified
      <4> QED
        BY <4>1 DEF FlightInv, Unknowing
    <3> QED
      BY <1>4, <2>1, <2>8, <3>2, <3>3, <3>4, <3>6, <3>7
      DEF FlightInv, InFlight, UpToDate, Unknowing, Fresh, Leaves, Handled, Sent
  <2>9. CASE wiimote.plugged # "None" /\ runtime.ext_phase # None
    <3>1. wiimote' = [wiimote EXCEPT !.mode = 53] /\ report' = <<>>
      <4> DEFINE outs == <<>> \o <<SetReportingMode(53)>>
      <4>1. Write(outs)
        <5>1. Identified(runtime.ext_phase)
          BY <2>3, <2>9, NoneIsOther
        <5> QED
          BY Zenon, <2>1, <2>2, <2>9, <5>1
      <4>2. Len(outs) = 1 /\ outs[1] = SetReportingMode(53) /\ 53 \in {49, 53}
        BY <2>4
      <4> HIDE DEF outs
      <4> QED
        BY Zenon, <4>1, <4>2, WriteMode
    <3>2. /\ wiimote' \in Wiimotes /\ wiimote'.plugged = wiimote.plugged /\ wiimote'.mode = 53
          /\ wiimote'.held = wiimote.held
      BY <3>1 DEF Wiimotes
    <3>3. /\ runtime'.ext_phase = wiimote.plugged
          /\ runtime'.controller.ext = runtime.controller.ext
          /\ runtime'.whammy_baseline = runtime.whammy_baseline
      BY <1>4, <2>3, <2>9 DEF Leaves
    <3>4. ShowsExt(told.ext)'
      BY <2>1, <2>3, <2>9, <3>3 DEF ShowsExt
    <3>5. Settled' /\ Identified(runtime'.ext_phase)
      BY <2>9, <3>2, <3>3, NoneIsOther DEF Settled
    <3> QED
      BY <1>4, <2>1, <2>6, <3>1, <3>2, <3>4, <3>5
      DEF FlightInv, InFlight, UpToDate, Unknowing, Fresh, Shown, Leaves
  <2> QED
    BY <2>7, <2>8, <2>9
<1> QED
  BY <1>2, <1>5, <1>6

-----------------------------------------------------------------------------
(* An acknowledgement, an identifier, and the two reports with readings.   *)

LEMMA SameRuntime ==
  ASSUME NEW rt \in Runtimes
  PROVE  Becomes(rt, rt, rt.ext_phase, rt.whammy_baseline, rt.controller.ext)
<1>1. /\ rt.ext_phase \in Phases /\ rt.whammy_baseline \in (0..31) \cup {None}
      /\ rt.controller \in Controllers
  BY DEF Runtimes
<1>2. rt.controller.ext \in Exts
  BY <1>1 DEF Controllers
<1>3. rt = [rt EXCEPT !.ext_phase = rt.ext_phase]
  BY DEF Runtimes
<1>4. Becomes(rt, [rt EXCEPT !.ext_phase = rt.ext_phase], rt.ext_phase, rt.whammy_baseline,
              rt.controller.ext)
  BY Zenon, <1>1, <1>2, RuntimeParts
<1> QED
  BY Zenon, <1>3, <1>4

(* The acknowledgement of the handshake: the id is asked for.              *)
LEMMA AckHandled ==
  ASSUME PipelineTypes, FlightInv, NEW p \in Promotions, NEW r, Handles(p, r), AckSent(r),
         link = "up", report # <<>>
  PROVE  /\ runtime' \in Runtimes /\ runtime'.profile = runtime.profile
         /\ runtime'.controller.ext \in {runtime.controller.ext, NoExt}
         /\ wiimote' \in Wiimotes /\ wiimote'.plugged = wiimote.plugged
         /\ FlightInv'
<1> USE TypedParts
<1>1. /\ r.type = "Ack" /\ r.buttons = wiimote.held
      /\ r.report_id = 22 /\ r.error = 0 /\ "accel" \notin DOMAIN r
      /\ runtime.ext_phase = "InitSent"
      /\ wiimote.plugged # "None" /\ wiimote.inited /\ wiimote.mode = 49
      /\ ShowsAccel /\ ShowsExt(told.ext)
  BY DEF AckSent, Shown
<1>2. /\ p.rt \in Runtimes /\ p.rt.ext_phase = runtime.ext_phase
      /\ p.rt.whammy_baseline = runtime.whammy_baseline
      /\ p.rt.controller = runtime.controller /\ p.up \in {"up", "closing"}
  BY Promoted
<1>3. AwaitedAck(p.rt, r)
  BY <1>1, <1>2 DEF AwaitedAck
<1> DEFINE base == runtime.whammy_baseline
           ext == runtime.controller.ext
<1>4. Becomes(p.rt, AfterReport(p.rt, r), "ReadingId", base, ext)
  <2>1. /\ "ReadingId" \in Phases
        /\ p.rt.ext_phase \in Phases /\ p.rt.whammy_baseline \in (0..31) \cup {None}
        /\ p.rt.controller.ext \in Exts
    BY <1>2 DEF Phases
  <2>2. AfterReport(p.rt, r) = [p.rt EXCEPT !.ext_phase = "ReadingId"]
    BY Zenon, <1>1, <1>3, AfterCases
  <2>3. Becomes(p.rt, [p.rt EXCEPT !.ext_phase = "ReadingId"], "ReadingId",
                p.rt.whammy_baseline, p.rt.controller.ext)
    BY Zenon, <1>2, <2>1, RuntimeParts
  <2> QED
    BY Zenon, <1>2, <2>2, <2>3
<1>5. Leaves("ReadingId", base, wiimote.held, runtime.controller.accel, ext)
  <2>1. AccelOf(runtime.controller, r) = runtime.controller.accel
    BY <1>1, NotKept
  <2>2. r.buttons \in SUBSET Buttons /\ AccelOf(runtime.controller, r) \in Readings
    BY <1>1, <2>1
  <2>3. Leaves("ReadingId", base, r.buttons, AccelOf(runtime.controller, r), ext)
    BY Zenon, <1>4, <2>2, Left
  <2> QED
    BY Zenon, <1>1, <2>1, <2>3
<1>6. CASE p.up = "closing"
  BY <1>5, <1>6, Closing DEF Handles, Leaves
<1>7. CASE p.up = "up"
  <2>1. link' = "up" /\ told' = told /\ Write(<<ReadId>>)
    <3>1. PayloadsFor(p.rt, r) = <<ReadId>>
      <4>1. r.type = "Ack"
        BY <1>1
      <4> QED
        BY Zenon, <1>3, <4>1, PayloadCases
    <3> QED
      BY Zenon, <1>7, <3>1 DEF Handles
  <2>2. wiimote' = wiimote /\ report' = IdBytes(wiimote)
    <3> DEFINE outs == <<ReadId>>
    <3>1. Len(outs) = 1 /\ outs[1] = ReadId /\ Write(outs)
      BY <2>1
    <3> HIDE DEF outs
    <3> QED
      BY Zenon, <3>1, WriteReadId
  <2> DEFINE i == ParseInput(report')
  <2>3. /\ report' # <<>>
        /\ i = [type |-> "ReadResponse", buttons |-> wiimote.held, error |-> 0, size |-> 6,
                address |-> 250, data |-> i.data]
        /\ FromId(i.data) = wiimote.plugged
    <3> DEFINE j == ParseInput(IdBytes(wiimote))
    <3>1. /\ wiimote.plugged \in DOMAIN ExtensionId /\ wiimote.inited
          /\ wiimote.held \in SUBSET Buttons
      BY <1>1
    <3>2. /\ IdBytes(wiimote) # <<>>
          /\ j = [type |-> "ReadResponse", buttons |-> wiimote.held, error |-> 0, size |-> 6,
                  address |-> 250, data |-> j.data]
          /\ FromId(j.data) = wiimote.plugged
      BY IdParsed, <3>1
    <3>3. i = j
      BY Zenon, <2>2
    <3> HIDE DEF i, j
    <3> QED
      BY <2>2, <3>2, <3>3
  <2> HIDE DEF i
  <2>4. /\ runtime'.ext_phase = "ReadingId"
        /\ runtime'.controller.ext = runtime.controller.ext
        /\ runtime'.controller.accel = runtime.controller.accel
        /\ runtime'.whammy_baseline = runtime.whammy_baseline
    BY <1>5 DEF Leaves
  <2>5. ShowsExt(told.ext)' /\ ShowsAccel'
    BY <1>1, <2>1, <2>4 DEF ShowsExt, ShowsAccel
  <2>6. IdSent(ParseInput(report))'
    BY <1>1, <2>2, <2>3, <2>4, <2>5 DEF IdSent, Shown, i
  <2>7. told.ext = NoExt /\ runtime.controller.ext = NoExt
    <3>1. ~Identified(runtime.ext_phase)
      BY <1>1 DEF Identified
    <3> QED
      BY <3>1 DEF FlightInv, Unknowing
  <2> QED
    BY <1>5, <2>1, <2>2, <2>3, <2>4, <2>6, <2>7
    DEF FlightInv, InFlight, UpToDate, Unknowing, Fresh, Leaves, Handled, Sent
<1> QED
  BY <1>2, <1>6, <1>7

(* The id: the extension is known from now on.                             *)
LEMMA IdHandled ==
  ASSUME PipelineTypes, FlightInv, NEW p \in Promotions, NEW r, Handles(p, r), IdSent(r),
         link = "up", report # <<>>
  PROVE  /\ runtime' \in Runtimes /\ runtime'.profile = runtime.profile
         /\ runtime'.controller.ext \in {runtime.controller.ext, NoExt}
         /\ wiimote' \in Wiimotes /\ wiimote'.plugged = wiimote.plugged
         /\ FlightInv'
<1> USE TypedParts
<1>1. /\ r.type = "ReadResponse" /\ r.buttons = wiimote.held
      /\ r.error = 0 /\ r.address = 250 /\ r.size = 6 /\ "accel" \notin DOMAIN r
  <2>1. PICK data : r = [type |-> "ReadResponse", buttons |-> wiimote.held, error |-> 0,
                         size |-> 6, address |-> 250, data |-> data]
    BY Zenon DEF IdSent
  <2> QED
    BY <2>1
<1>2. /\ FromId(r.data) = wiimote.plugged
      /\ runtime.ext_phase = "ReadingId"
      /\ wiimote.plugged # "None" /\ wiimote.mode = 49
      /\ ShowsAccel /\ ShowsExt(told.ext)
  BY Zenon DEF IdSent, Shown
<1>3. /\ p.rt \in Runtimes /\ p.rt.ext_phase = runtime.ext_phase
      /\ p.rt.whammy_baseline = runtime.whammy_baseline
      /\ p.rt.controller = runtime.controller /\ p.up \in {"up", "closing"}
  BY Promoted
<1>4. AwaitedId(p.rt, r)
  BY <1>1, <1>2, <1>3 DEF AwaitedId
<1> DEFINE ext == runtime.controller.ext
           x == wiimote.plugged
<1>5. told.ext = NoExt /\ ext = NoExt
  <2>1. ~Identified(runtime.ext_phase)
    BY <1>2 DEF Identified
  <2> QED
    BY <2>1 DEF FlightInv, Unknowing
<1>6. x \in DOMAIN ExtensionId
  BY <1>2
<1>7. Becomes(p.rt, AfterReport(p.rt, r), x, None, ext)
  <2>1. /\ x \in Phases /\ None \in (0..31) \cup {None}
        /\ p.rt.controller.ext \in Exts
    BY <1>3, <1>6 DEF Phases
  <2>2. AfterReport(p.rt, r) = [p.rt EXCEPT !.ext_phase = x, !.whammy_baseline = None]
    <3>1. r.type = "ReadResponse" /\ FromId(r.data) = x
      BY <1>1, <1>2
    <3>2. AfterReport(p.rt, r) =
            [p.rt EXCEPT !.ext_phase = FromId(r.data), !.whammy_baseline = None]
      BY Zenon, <1>4, <3>1, AfterCases
    <3> QED
      BY Zenon, <3>1, <3>2
  <2>3. Becomes(p.rt, [p.rt EXCEPT !.ext_phase = x, !.whammy_baseline = None], x, None,
                p.rt.controller.ext)
    BY Zenon, <1>3, <2>1, RuntimeParts
  <2> QED
    BY Zenon, <1>3, <2>2, <2>3
<1>8. Leaves(x, None, wiimote.held, runtime.controller.accel, ext)
  <2>1. AccelOf(runtime.controller, r) = runtime.controller.accel
    BY <1>1, NotKept
  <2>2. r.buttons \in SUBSET Buttons /\ AccelOf(runtime.controller, r) \in Readings
    BY <1>1, <2>1
  <2>3. Leaves(x, None, r.buttons, AccelOf(runtime.controller, r), ext)
    BY Zenon, <1>7, <2>2, Left
  <2> QED
    BY Zenon, <1>1, <2>1, <2>3
<1>9. CASE p.up = "closing"
  BY <1>8, <1>9, Closing DEF Handles, Leaves
<1>10. CASE p.up = "up"
  <2>1. link' = "up" /\ told' = told /\ Write(<<SetReportingMode(53)>>)
    <3>1. PayloadsFor(p.rt, r) = <<SetReportingMode(53)>>
      <4>1. r.type = "ReadResponse"
        BY <1>1
      <4> QED
        BY Zenon, <1>4, <4>1, PayloadCases
    <3> QED
      BY Zenon, <1>10, <3>1 DEF Handles
  <2>2. wiimote' = [wiimote EXCEPT !.mode = 53] /\ report' = <<>>
    <3> DEFINE outs == <<SetReportingMode(53)>>
    <3>1. Len(outs) = 1 /\ outs[1] = SetReportingMode(53) /\ Write(outs) /\ 53 \in {49, 53}
      BY <2>1
    <3> HIDE DEF outs
    <3> QED
      BY Zenon, <3>1, WriteMode
  <2>3. /\ wiimote' \in Wiimotes /\ wiimote'.plugged = wiimote.plugged /\ wiimote'.mode = 53
        /\ wiimote'.held = wiimote.held
    BY <2>2 DEF Wiimotes
  <2>4. /\ runtime'.ext_phase = wiimote.plugged
        /\ runtime'.controller.ext = NoExt
        /\ runtime'.controller.accel = runtime.controller.accel
    BY <1>5, <1>8 DEF Leaves
  <2>5. ShowsExt(told.ext)' /\ ShowsAccel'
    <3>1. NoExt.kind # "Guitar"
      BY NoExtIsExt
    <3> QED
      BY <1>2, <1>5, <2>1, <2>4, <3>1, NoExtStays DEF ShowsExt, ShowsAccel
  <2>6. Settled' /\ Identified(runtime'.ext_phase)
    BY <1>2, <1>6, <2>3, <2>4, NoneIsOther DEF Settled
  <2> QED
    BY <1>8, <2>1, <2>2, <2>3, <2>5, <2>6
    DEF FlightInv, InFlight, UpToDate, Unknowing, Fresh, Shown, Leaves
<1> QED
  BY <1>3, <1>9, <1>10

(* A report of the buttons and the accelerometer.                          *)
LEMMA CoarseIsReading ==
  ASSUME NEW a \in Readings
  PROVE  Coarse(a) \in Readings
<1>1. ASSUME NEW v \in 0..1023 PROVE 2 * (v \div 2) \in 0..1023
  OBVIOUS
<1>2. a.x \in 0..1023 /\ a.y \in 0..1023 /\ a.z \in 0..1023
  BY DEF Readings
<1> DEFINE y == 2 * (a.y \div 2)
           z == 2 * (a.z \div 2)
<1>3. y \in 0..1023 /\ z \in 0..1023
  <2> DEFINE ay == a.y
             az == a.z
  <2>1. ay \in 0..1023 /\ az \in 0..1023
    BY <1>2
  <2> HIDE DEF ay, az
  <2>2. 2 * (ay \div 2) \in 0..1023 /\ 2 * (az \div 2) \in 0..1023
    BY <2>1
  <2> QED
    BY <2>2 DEF ay, az
<1>4. Coarse(a) = [x |-> a.x, y |-> y, z |-> z]
  BY DEF Coarse
<1> HIDE DEF y, z
<1> QED
  BY <1>2, <1>3, <1>4 DEF Readings

LEMMA AccelHandled ==
  ASSUME PipelineTypes, FlightInv, NEW p \in Promotions, NEW r, Handles(p, r), AccelSent(r),
         link = "up", report # <<>>
  PROVE  /\ runtime' \in Runtimes /\ runtime'.profile = runtime.profile
         /\ runtime'.controller.ext \in {runtime.controller.ext, NoExt}
         /\ wiimote' \in Wiimotes /\ wiimote'.plugged = wiimote.plugged
         /\ FlightInv'
<1> USE TypedParts
<1> DEFINE acc == Coarse(told.accel)
<1>1. acc \in Readings
  <2>1. told.accel \in Readings
    BY DEF AccelSent, PipelineTypes
  <2> QED
    BY <2>1, CoarseIsReading
<1>2. /\ r = [type |-> "ButtonsAccel", buttons |-> wiimote.held, accel |-> acc]
      /\ told.accel # None /\ Settled /\ ShowsExt(told.ext)
  BY DEF AccelSent
<1> HIDE DEF acc
<1>3. /\ r.type = "ButtonsAccel" /\ r.buttons = wiimote.held /\ r.accel = acc
      /\ "accel" \in DOMAIN r
  BY <1>2
<1>4. /\ p.rt \in Runtimes /\ p.rt.ext_phase = runtime.ext_phase
      /\ p.rt.whammy_baseline = runtime.whammy_baseline
      /\ p.rt.controller = runtime.controller /\ p.up \in {"up", "closing"}
  BY Promoted
<1> DEFINE base == runtime.whammy_baseline
           ext == runtime.controller.ext
           phase == runtime.ext_phase
<1>5. Becomes(p.rt, AfterReport(p.rt, r), phase, base, ext)
  <2>1. AfterReport(p.rt, r) = p.rt
    BY Zenon, <1>3, AfterCases
  <2> QED
    BY Zenon, <1>4, <2>1, SameRuntime
<1>6. Leaves(phase, base, wiimote.held, acc, ext)
  <2>1. AccelOf(runtime.controller, r) = acc
    BY <1>3, Kept
  <2>2. r.buttons \in SUBSET Buttons /\ AccelOf(runtime.controller, r) \in Readings
    BY <1>1, <1>3, <2>1
  <2>3. Leaves(phase, base, r.buttons, AccelOf(runtime.controller, r), ext)
    BY Zenon, <1>5, <2>2, Left
  <2> QED
    BY Zenon, <1>3, <2>1, <2>3
<1>7. CASE p.up = "closing"
  BY <1>6, <1>7, Closing DEF Handles, Leaves
<1>8. CASE p.up = "up"
  <2>1. link' = "up" /\ told' = told /\ Write(<<>>)
    <3>1. PayloadsFor(p.rt, r) = <<>>
      BY Zenon, <1>3, PayloadCases
    <3> QED
      BY Zenon, <1>8, <3>1 DEF Handles
  <2>2. wiimote' = wiimote /\ report' = <<>>
    BY Zenon, <2>1, WriteNothing
  <2>3. /\ runtime'.ext_phase = runtime.ext_phase
        /\ runtime'.whammy_baseline = runtime.whammy_baseline
        /\ runtime'.controller.ext = runtime.controller.ext
        /\ runtime'.controller.accel = acc
        /\ runtime'.controller.buttons = wiimote.held
    BY <1>6 DEF Leaves
  <2>4. ShowsExt(told.ext)' /\ ShowsAccel'
    BY <1>2, <2>1, <2>3 DEF ShowsExt, ShowsAccel, acc
  <2>5. Settled'
    BY <1>2, <2>2, <2>3 DEF Settled
  <2> QED
    BY <1>6, <2>1, <2>2, <2>3, <2>4, <2>5
    DEF FlightInv, InFlight, UpToDate, Unknowing, Fresh, Shown, Leaves
<1> QED
  BY <1>4, <1>7, <1>8

(* A report of everything.                                                 *)
LEMMA ExtHandled ==
  ASSUME PipelineTypes, FlightInv, NEW p \in Promotions, NEW r, Handles(p, r), ExtSent(r),
         link = "up", report # <<>>
  PROVE  /\ runtime' \in Runtimes /\ runtime'.profile = runtime.profile
         /\ wiimote' \in Wiimotes /\ wiimote'.plugged = wiimote.plugged
         /\ FlightInv'
         /\ ShowsExt(told.was)
         /\ LET low == Baseline(runtime.whammy_baseline, told.ext.whammy)
            IN  told.ext.kind = "Guitar" =>
                  runtime'.controller.ext = Calibration(told.ext, low)
<1> USE TypedParts
<1> DEFINE acc == Coarse(told.accel)
           x == wiimote.plugged
           e == told.ext
<1>1. acc \in Readings
  <2>1. told.accel \in Readings
    BY DEF ExtSent, PipelineTypes
  <2> QED
    BY <2>1, CoarseIsReading
<1>2. r = [type |-> "ButtonsAccelExt", buttons |-> wiimote.held, accel |-> acc, ext |-> r.ext]
  BY Zenon DEF ExtSent
<1>3. /\ told.accel # None /\ wiimote.plugged # "None"
      /\ e \in States(x) /\ ParseExtension(x, r.ext) = e /\ Settled
      /\ ShowsExt(told.was)
  BY Zenon DEF ExtSent
<1> HIDE DEF acc
<1>4. /\ r.type = "ButtonsAccelExt" /\ r.buttons = wiimote.held /\ r.accel = acc
      /\ "accel" \in DOMAIN r
  <2>1. PICK y : r = [type |-> "ButtonsAccelExt", buttons |-> wiimote.held, accel |-> acc,
                      ext |-> y]
    BY Zenon, <1>2
  <2> QED
    BY <2>1
<1>5. /\ p.rt \in Runtimes /\ p.rt.ext_phase = runtime.ext_phase
      /\ p.rt.whammy_baseline = runtime.whammy_baseline
      /\ p.rt.controller = runtime.controller /\ p.up \in {"up", "closing"}
  BY Promoted
<1>6. x \in DOMAIN ExtensionId /\ runtime.ext_phase = x /\ Identified(x) /\ e \in Exts
  BY <1>3, NoneIsOther, StatesAreExts DEF Settled
<1> DEFINE base == runtime.whammy_baseline
           low == Baseline(base, e.whammy)
           next == IF e.kind = "Guitar" THEN low ELSE base
           ext == Calibration(e, next)
<1>7. Becomes(p.rt, AfterReport(p.rt, r), x, next, ext)
      /\ (e.kind = "Guitar" => low \in 0..e.whammy)
  <2>1. AfterReport(p.rt, r) = ExtParsed(p.rt, r.ext)
    BY Zenon, <1>4, AfterCases
  <2>2. Identified(p.rt.ext_phase) /\ ParseExtension(p.rt.ext_phase, r.ext) = e
    BY Zenon, <1>3, <1>5, <1>6
  <2> HIDE DEF e, low
  <2>3. ParseExtension(p.rt.ext_phase, r.ext) \in Exts
    BY Zenon, <1>6, <2>2
  <2> DEFINE e1 == ParseExtension(p.rt.ext_phase, r.ext)
             low1 == Baseline(p.rt.whammy_baseline, e1.whammy)
  <2>4. /\ e1.kind # "Guitar" =>
             Becomes(p.rt, ExtParsed(p.rt, r.ext), p.rt.ext_phase, p.rt.whammy_baseline, e1)
        /\ e1.kind = "Guitar" =>
             /\ Becomes(p.rt, ExtParsed(p.rt, r.ext), p.rt.ext_phase, low1, Calibration(e1, low1))
             /\ low1 \in 0..e1.whammy
    BY Zenon, <1>5, <2>2, <2>3, UncalibratedParts
  <2>5. e1 = e /\ low1 = low
    BY Zenon, <1>5, <2>2 DEF low
  <2> HIDE DEF e1, low1
  <2>6. e.kind # "Guitar" => Calibration(e, base) = e
    BY Zenon DEF Calibration
  <2> QED
    BY <1>5, <1>6, <2>1, <2>4, <2>5, <2>6
<1>8. Leaves(x, next, wiimote.held, acc, ext)
  <2> HIDE DEF next, ext
  <2>1. AccelOf(runtime.controller, r) = acc
    BY <1>4, Kept
  <2>2. r.buttons \in SUBSET Buttons /\ AccelOf(runtime.controller, r) \in Readings
    BY <1>1, <1>4, <2>1
  <2>3. Leaves(x, next, r.buttons, AccelOf(runtime.controller, r), ext)
    BY Zenon, <1>7, <2>2, Left
  <2> QED
    BY Zenon, <1>4, <2>1, <2>3
<1>9. e.kind = "Guitar" => runtime'.controller.ext = Calibration(e, low)
  BY <1>8 DEF Leaves
<1> HIDE DEF e, low
<1>10. CASE p.up = "closing"
  BY <1>3, <1>8, <1>9, <1>10, Closing DEF Handles, Leaves, e, low
<1>11. CASE p.up = "up"
  <2>1. link' = "up" /\ told' = told /\ Write(<<>>)
    <3>1. PayloadsFor(p.rt, r) = <<>>
      BY Zenon, <1>4, PayloadCases
    <3> QED
      BY Zenon, <1>11, <3>1 DEF Handles
  <2>2. wiimote' = wiimote /\ report' = <<>>
    BY Zenon, <2>1, WriteNothing
  <2>3. /\ runtime'.ext_phase = runtime.ext_phase
        /\ runtime'.whammy_baseline = next
        /\ runtime'.controller.ext = Calibration(e, next)
        /\ runtime'.controller.accel = acc
        /\ runtime'.controller.buttons = wiimote.held
    BY <1>6, <1>8 DEF Leaves
  <2>4. ShowsExt(told.ext)'
    <3>1. told'.ext = e
      BY <2>1 DEF e
    <3>2. e.kind = "Guitar" => next \in 0..e.whammy
      BY <1>7
    <3> HIDE DEF next
    <3> QED
      BY <2>3, <3>1, <3>2 DEF ShowsExt
  <2>5. ShowsAccel'
    BY <2>1, <2>3 DEF ShowsAccel, acc
  <2>6. Settled'
    BY <1>3, <2>2, <2>3 DEF Settled
  <2>7. Identified(runtime'.ext_phase)
    BY <1>6, <2>3
  <2> QED
    BY <1>3, <1>8, <1>9, <2>1, <2>2, <2>3, <2>4, <2>5, <2>6, <2>7
    DEF FlightInv, InFlight, UpToDate, Unknowing, Fresh, Shown, Leaves, e, low
<1> QED
  BY <1>5, <1>10, <1>11

-----------------------------------------------------------------------------
(* Every action keeps the invariant.                                       *)

Updates(p, c) ==
  IF p.out = None THEN {[output |-> None, device |-> p.dev]}
  ELSE {Updated(p.out, p.dev, c)}
         \cup (IF os = "macos" THEN {} ELSE {UpdateFails(p.out, p.dev)})

LEMMA Handling ==
  ASSUME HandleReport
  PROVE  /\ report # <<>>
         /\ \E p \in Promotions :
              LET rt == AfterReport(p.rt, ParseInput(report))
              IN  /\ Handles(p, ParseInput(report))
                  /\ \E u \in Updates(p, Decomposed(rt.controller, ParseInput(report))) :
                       output' = u.output /\ device' = u.device
BY Zenon DEF HandleReport, Handles, Updates

LEMMA HandleReportKeeps ==
  ASSUME PipelineTypes, FlightInv, HandleReport
  PROVE  /\ PipelineTypes' /\ FlightInv' /\ runtime'.profile = runtime.profile
         /\ \/ runtime'.controller.ext \in {runtime.controller.ext, NoExt}
            \/ /\ ShowsExt(told.was)
               /\ told.ext.kind = "Guitar" =>
                    runtime'.controller.ext =
                      Calibration(told.ext, Baseline(runtime.whammy_baseline, told.ext.whammy))
<1> DEFINE r == ParseInput(report)
<1>1. report # <<>> /\ \E p \in Promotions : Handles(p, r)
  BY Zenon, Handling
<1>2. PICK p \in Promotions : Handles(p, r)
  BY <1>1
<1> HIDE DEF r
<1>3. link = "up" /\ Sent(r)
  BY <1>1 DEF FlightInv, InFlight, r
<1> DEFINE ext == runtime'.controller.ext
           bent == /\ ShowsExt(told.was)
                   /\ told.ext.kind = "Guitar" =>
                        ext = Calibration(told.ext, Baseline(runtime.whammy_baseline,
                                                             told.ext.whammy))
<1>4. /\ runtime' \in Runtimes /\ runtime'.profile = runtime.profile
      /\ wiimote' \in Wiimotes /\ wiimote'.plugged = wiimote.plugged
      /\ FlightInv'
      /\ ext \in {runtime.controller.ext, NoExt} \/ bent
  <2>1. CASE StatusSent(r)
    BY <1>1, <1>2, <1>3, <2>1, StatusHandled
  <2>2. CASE AckSent(r)
    BY <1>1, <1>2, <1>3, <2>2, AckHandled
  <2>3. CASE IdSent(r)
    BY <1>1, <1>2, <1>3, <2>3, IdHandled
  <2>4. CASE AccelSent(r)
    BY <1>1, <1>2, <1>3, <2>4, AccelHandled
  <2>5. CASE ExtSent(r)
    BY <1>1, <1>2, <1>3, <2>5, ExtHandled
  <2> QED
    BY <1>3, <2>1, <2>2, <2>3, <2>4, <2>5 DEF Sent
<1>5. link' \in {"up", "closing"} /\ told' = told /\ os' = os
  BY <1>2, <1>3, Promoted DEF Handles
<1> QED
  BY <1>4, <1>5 DEF PipelineTypes

LEMMA CommandsKeep ==
  ASSUME PipelineTypes, FlightInv,
         runtime' \in Runtimes, runtime'.ext_phase = runtime.ext_phase,
         runtime'.whammy_baseline = runtime.whammy_baseline,
         runtime'.controller = runtime.controller,
         UNCHANGED <<os, link, report, wiimote, told>>
  PROVE  PipelineTypes' /\ FlightInv'
<1>1. PipelineTypes'
  BY DEF PipelineTypes
<1>2. /\ ShowsAccel' = ShowsAccel /\ Settled' = Settled
      /\ \A e : ShowsExt(e)' = ShowsExt(e)
  BY DEF ShowsAccel, Settled, ShowsExt
<1>3. InFlight'
  BY <1>2 DEF FlightInv, InFlight, Sent, StatusSent, AckSent, IdSent, AccelSent, ExtSent, Shown,
    ShowsExt
<1>4. UpToDate' /\ Unknowing' /\ Fresh'
  BY <1>2 DEF FlightInv, UpToDate, Unknowing, Fresh, Handled, Shown, ShowsExt
<1> QED
  BY <1>1, <1>3, <1>4 DEF FlightInv

LEMMA SetProfileKeeps ==
  ASSUME PipelineTypes, FlightInv, NEW q \in Chosen, SetProfile(q)
  PROVE  PipelineTypes' /\ FlightInv'
<1>1. q \in Profiles /\ runtime \in Runtimes
  BY PipelineConstants DEF PipelineTypes
<1>2. PICK retry \in BOOLEAN :
        runtime' = [runtime EXCEPT !.profile = q, !.output_retry_at = retry]
  BY DEF SetProfile
<1>3. /\ runtime' \in Runtimes /\ runtime'.ext_phase = runtime.ext_phase
      /\ runtime'.whammy_baseline = runtime.whammy_baseline
      /\ runtime'.controller = runtime.controller
  BY <1>1, <1>2 DEF Runtimes
<1> QED
  BY <1>3, CommandsKeep DEF SetProfile

LEMMA TickOutputRetryKeeps ==
  ASSUME PipelineTypes, FlightInv, TickOutputRetry
  PROVE  PipelineTypes' /\ FlightInv'
<1>1. runtime \in Runtimes /\ runtime' = [runtime EXCEPT !.output_retry_at = FALSE]
  BY DEF PipelineTypes, TickOutputRetry
<1>2. /\ runtime' \in Runtimes /\ runtime'.ext_phase = runtime.ext_phase
      /\ runtime'.whammy_baseline = runtime.whammy_baseline
      /\ runtime'.controller = runtime.controller
  BY <1>1 DEF Runtimes
<1> QED
  BY <1>2, CommandsKeep DEF TickOutputRetry

(* A status report is on its way after every request for one.              *)
LEMMA StatusRequested ==
  ASSUME PipelineTypes, FlightInv, report = <<>>, link' = "up",
         link = "up" \/ link = "down",
         runtime' \in Runtimes, runtime'.ext_phase = runtime.ext_phase,
         runtime'.whammy_baseline = runtime.whammy_baseline,
         runtime'.controller = runtime.controller,
         wiimote' = [wiimote EXCEPT !.mode = 48], report' = StatusBytes(wiimote),
         UNCHANGED <<os, told>>
  PROVE  PipelineTypes' /\ FlightInv'
<1> USE TypedParts
<1>1. /\ wiimote' \in Wiimotes /\ wiimote'.plugged = wiimote.plugged
      /\ wiimote'.held = wiimote.held /\ wiimote'.mode = 48
  BY DEF Wiimotes
<1>2. PipelineTypes'
  BY <1>1 DEF PipelineTypes
<1>3. /\ report' # <<>>
      /\ ParseInput(report') =
           [type |-> "Status", buttons |-> wiimote'.held, battery |-> 200,
            extension_connected |-> wiimote'.plugged # "None"]
  <2>1. wiimote.held \in SUBSET Buttons
    OBVIOUS
  <2>2. /\ StatusBytes(wiimote) # <<>>
        /\ ParseInput(StatusBytes(wiimote)) =
             [type |-> "Status", buttons |-> wiimote.held, battery |-> 200,
              extension_connected |-> wiimote.plugged # "None"]
    BY <2>1, StatusParsed
  <2> QED
    BY Zenon, <1>1, <2>2
<1>4. /\ ShowsAccel /\ ShowsExt(told.ext)
      /\ wiimote.plugged = "None" => told.ext = NoExt
      /\ wiimote.plugged # "None" => runtime.ext_phase \in {None, wiimote.plugged}
      /\ ~Identified(runtime.ext_phase) => runtime.controller.ext = NoExt /\ told.ext = NoExt
  <2>1. CASE link = "up"
    <3>1. Settled /\ ShowsAccel /\ ShowsExt(told.ext)
      BY <2>1 DEF FlightInv, UpToDate, Handled, Shown
    <3>2. ~Identified(runtime.ext_phase) => runtime.controller.ext = NoExt /\ told.ext = NoExt
      BY <2>1 DEF FlightInv, Unknowing
    <3>3. ~Identified(None)
      BY DEF Identified
    <3> QED
      BY <3>1, <3>2, <3>3 DEF Settled
  <2>2. CASE link = "down"
    <3>1. /\ runtime.controller = NoInput /\ told = NothingTold
          /\ runtime.ext_phase = None
      BY <2>2 DEF FlightInv, Fresh
    <3>2. told.ext = NoExt /\ told.accel = None /\ runtime.controller.ext = NoExt
      BY <3>1 DEF NothingTold, NoInput
    <3>3. NoExt.kind # "Guitar"
      BY NoExtIsExt
    <3> QED
      BY <3>1, <3>2, <3>3, NoExtStays DEF ShowsAccel, ShowsExt
  <2> QED
    BY <2>1, <2>2
<1>5. ShowsAccel' /\ ShowsExt(told.ext)'
  BY <1>4 DEF ShowsAccel, ShowsExt
<1>6. StatusSent(ParseInput(report))'
  BY <1>1, <1>3, <1>4, <1>5 DEF StatusSent
<1> QED
  BY <1>2, <1>3, <1>4, <1>6
  DEF FlightInv, InFlight, UpToDate, Unknowing, Fresh, Handled, Sent

LEMMA TryConnectKeeps ==
  ASSUME PipelineTypes, FlightInv, TryConnect
  PROVE  PipelineTypes' /\ FlightInv'
<1>1. runtime \in Runtimes /\ wiimote \in Wiimotes
  BY DEF PipelineTypes
<1>2. wiimote' = [wiimote EXCEPT !.mode = 48] /\ report' = StatusBytes(wiimote)
  <2> DEFINE outs == <<SetLeds(0, FALSE), SetReportingMode(49), RequestStatus>>
  <2>1. /\ Len(outs) = 3 /\ outs[1] = SetLeds(0, FALSE) /\ outs[2] = SetReportingMode(49)
        /\ outs[3] = RequestStatus
    OBVIOUS
  <2>2. Write(outs)
    BY DEF TryConnect
  <2> HIDE DEF outs
  <2> QED
    BY Zenon, <1>1, <2>1, <2>2, WriteGreeting
<1>3. runtime' = [runtime EXCEPT !.pending = TRUE]
  BY DEF TryConnect
<1>4. /\ runtime' \in Runtimes /\ runtime'.ext_phase = runtime.ext_phase
      /\ runtime'.whammy_baseline = runtime.whammy_baseline
      /\ runtime'.controller = runtime.controller
  BY <1>1, <1>3 DEF Runtimes
<1>5. /\ report = <<>> /\ link' = "up" /\ (link = "up" \/ link = "down")
      /\ UNCHANGED <<os, told>>
  BY DEF TryConnect, PipelineTypes
<1> QED
  BY <1>2, <1>4, <1>5, StatusRequested

LEMMA TickKeepaliveKeeps ==
  ASSUME PipelineTypes, FlightInv, TickKeepalive
  PROVE  PipelineTypes' /\ FlightInv'
<1>1. runtime \in Runtimes /\ wiimote \in Wiimotes
  BY DEF PipelineTypes
<1>2. wiimote' = [wiimote EXCEPT !.mode = 48] /\ report' = StatusBytes(wiimote)
  <2> DEFINE outs == <<RequestStatus>>
  <2>1. Len(outs) = 1 /\ outs[1] = RequestStatus
    OBVIOUS
  <2>2. Write(outs)
    BY DEF TickKeepalive
  <2> HIDE DEF outs
  <2> QED
    BY Zenon, <1>1, <2>1, <2>2, WriteStatus
<1>3. report = <<>> /\ link = "up" /\ UNCHANGED <<os, link, runtime, told>>
  BY DEF TickKeepalive
<1> QED
  BY <1>1, <1>2, <1>3, StatusRequested

LEMMA EndSessionKeeps ==
  ASSUME PipelineTypes, FlightInv, EndSession
  PROVE  PipelineTypes' /\ FlightInv'
<1>1. runtime \in Runtimes
  BY DEF PipelineTypes
<1>2. /\ runtime' = [runtime EXCEPT !.pending = FALSE, !.connected = FALSE, !.ext_phase = None,
                                    !.whammy_baseline = None, !.output_retry_at = FALSE,
                                    !.controller = NoInput]
      /\ link' = "down" /\ report' = <<>> /\ told' = NothingTold /\ UNCHANGED <<os, wiimote>>
  BY DEF EndSession
<1>3. None \in Phases
  BY DEF Phases
<1>4. /\ runtime' \in Runtimes /\ runtime'.ext_phase = None
      /\ runtime'.whammy_baseline = None /\ runtime'.controller = NoInput
  BY <1>1, <1>2, <1>3, NoExtIsExt DEF Runtimes
<1>5. told' \in [accel : Readings \cup {None}, ext : Exts, was : Exts]
  BY <1>2, NoExtIsExt DEF NothingTold
<1> QED
  BY <1>2, <1>4, <1>5
  DEF PipelineTypes, FlightInv, InFlight, UpToDate, Unknowing, Fresh, Handled

-----------------------------------------------------------------------------
(* What a Wiimote sends is what it was told, and can be read back.         *)
LEMMA PlayKeeps ==
  ASSUME PipelineTypes, FlightInv,
         NEW held \in Holds, NEW accel \in Motions, NEW ext \in Plays(wiimote.plugged),
         Play(held, accel, ext)
  PROVE  PipelineTypes' /\ FlightInv'
<1> USE TypedParts
<1>1. /\ held \in SUBSET Buttons /\ accel \in Readings /\ ext \in States(wiimote.plugged)
      /\ ext \in Exts /\ accel # None
  <2>1. wiimote.plugged \in Pluggable \cup {"None"}
    BY DEF PipelineTypes
  <2>2. ext \in States(wiimote.plugged)
    BY <2>1, PipelineConstants
  <2> QED
    BY <2>2, PipelineConstants, StatesAreExts, NoneIsOther
<1>2. /\ report = <<>> /\ wiimote' = [wiimote EXCEPT !.held = held]
      /\ UNCHANGED <<os, link, runtime, output, device>>
  BY DEF Play
<1>3. /\ wiimote' \in Wiimotes /\ wiimote'.plugged = wiimote.plugged
      /\ wiimote'.held = held /\ wiimote'.mode = wiimote.mode /\ wiimote.mode \in {48, 49, 53}
  BY <1>1, <1>2 DEF Wiimotes
<1> DEFINE plain == <<48>> \o PlainButtons(held)
           some == <<49>> \o AccelBytes(held, accel)
           all == <<53>> \o AccelBytes(held, accel) \o ExtBytes(ext) \o Zeros(10)
<1>4. /\ wiimote.mode = 48 => Send(plain) /\ UNCHANGED told
      /\ wiimote.mode = 49 => Send(some) /\ Told(accel, told.ext, told.was)
      /\ wiimote.mode = 53 => Send(all) /\ Told(accel, ext, told.ext)
  <2>1. ASSUME wiimote.mode = 48 PROVE Send(plain) /\ UNCHANGED told
    <3>1. wiimote.mode # 49
      BY <2>1
    <3> QED
      BY Zenon, <2>1, <3>1 DEF Play
  <2>2. ASSUME wiimote.mode = 49 PROVE Send(some) /\ Told(accel, told.ext, told.was)
    <3>1. wiimote.mode # 48
      BY <2>2
    <3> QED
      BY Zenon, <2>2, <3>1 DEF Play
  <2>3. ASSUME wiimote.mode = 53 PROVE Send(all) /\ Told(accel, ext, told.ext)
    <3>1. wiimote.mode # 48 /\ wiimote.mode # 49
      BY <2>3
    <3> QED
      BY Zenon, <3>1 DEF Play
  <2> QED
    BY <2>1, <2>2, <2>3
<1> HIDE DEF plain, some, all
<1>5. told \in [accel : Readings \cup {None}, ext : Exts, was : Exts]
  BY DEF PipelineTypes
<1>6. PipelineTypes'
  <2>1. \/ told' = told
        \/ told' = [accel |-> accel, ext |-> told.ext, was |-> told.was]
        \/ told' = [accel |-> accel, ext |-> ext, was |-> told.ext]
    BY <1>3, <1>4 DEF Told
  <2>2. told' \in [accel : Readings \cup {None}, ext : Exts, was : Exts]
    BY <1>1, <1>5, <2>1
  <2> QED
    BY <1>2, <1>3, <2>2 DEF PipelineTypes
<1>7. CASE link # "up"
  <2>1. report' = <<>> /\ told' = told
    BY <1>3, <1>4, <1>7 DEF Send, Told
  <2> QED
    BY <1>2, <1>6, <1>7, <2>1
    DEF FlightInv, InFlight, UpToDate, Unknowing, Fresh, Handled
<1>8. CASE link = "up"
  <2>1. Settled /\ ShowsExt(told.ext)
    BY <1>2, <1>8 DEF FlightInv, UpToDate, Handled, Shown
  <2>2. CASE wiimote.plugged = "None"
    <3>1. runtime.ext_phase = None /\ wiimote.mode = 49
      BY <2>1, <2>2 DEF Settled
    <3>2. report' = some /\ told' = [accel |-> accel, ext |-> told.ext, was |-> told.was]
      BY <1>4, <1>8, <3>1 DEF Send, Told
    <3>3. /\ some # <<>>
          /\ ParseInput(some) = [type |-> "ButtonsAccel", buttons |-> held,
                                 accel |-> Coarse(accel)]
      BY Zenon, <1>1, AccelReportParsed DEF some
    <3>4. told'.accel = accel /\ told'.ext = told.ext
      BY <3>2
    <3>5. Settled' /\ ShowsExt(told.ext)'
      BY <1>2, <1>3, <2>1, <3>4 DEF Settled, ShowsExt
    <3>6. AccelSent(ParseInput(report))'
      BY <1>1, <1>3, <3>2, <3>3, <3>4, <3>5 DEF AccelSent
    <3> QED
      BY <1>2, <1>6, <1>8, <3>2, <3>3, <3>4, <3>6
      DEF FlightInv, InFlight, UpToDate, Unknowing, Fresh, Handled, Sent
  <2>3. CASE wiimote.plugged # "None"
    <3> DEFINE x == wiimote.plugged
               r == ParseInput(all)
    <3>1. runtime.ext_phase = x /\ wiimote.mode = 53 /\ x \in DOMAIN ExtensionId
          /\ Identified(runtime.ext_phase)
      BY <2>1, <2>3, NoneIsOther DEF Settled
    <3>2. report' = all /\ told' = [accel |-> accel, ext |-> ext, was |-> told.ext]
      BY <1>4, <1>8, <3>1 DEF Send, Told
    <3>3. /\ all # <<>>
          /\ r = [type |-> "ButtonsAccelExt", buttons |-> held, accel |-> Coarse(accel),
                  ext |-> r.ext]
          /\ ParseExtension(x, r.ext) = ext
      BY Zenon, <1>1, <3>1, ExtReportParsed DEF all
    <3>4. told'.accel = accel /\ told'.ext = ext /\ told'.was = told.ext
      BY <3>2
    <3>5. Settled' /\ ShowsExt(told.was)'
      BY <1>2, <1>3, <2>1, <3>4 DEF Settled, ShowsExt
    <3> HIDE DEF r
    <3>6. ExtSent(r)'
      BY <1>1, <1>3, <2>3, <3>2, <3>3, <3>4, <3>5 DEF ExtSent
    <3>7. ExtSent(ParseInput(report))'
      BY Zenon, <3>2, <3>6 DEF r
    <3> QED
      BY <1>2, <1>6, <1>8, <3>1, <3>2, <3>3, <3>7
      DEF FlightInv, InFlight, UpToDate, Unknowing, Fresh, Handled, Sent
  <2> QED
    BY <2>2, <2>3
<1> QED
  BY <1>7, <1>8

(* A change at the expansion port.                                         *)
LEMMA PlugKeeps ==
  ASSUME PipelineTypes, FlightInv, NEW x \in Pluggable \cup {"None"}, Plug(x)
  PROVE  PipelineTypes' /\ FlightInv'
<1> USE TypedParts
<1>1. x \in DOMAIN ExtensionId \cup {"None"}
  BY PipelineConstants
<1>2. /\ report = <<>> /\ (wiimote.plugged = "None") # (x = "None")
      /\ wiimote' = [wiimote EXCEPT !.plugged = x, !.inited = FALSE, !.mode = 48]
      /\ told' = [told EXCEPT !.ext = NoExt, !.was = NoExt]
      /\ UNCHANGED <<os, link, runtime, output, device>>
  BY DEF Plug
<1>3. /\ wiimote' \in Wiimotes /\ wiimote'.plugged = x /\ wiimote'.mode = 48
      /\ wiimote'.held = wiimote.held
  BY <1>1, <1>2 DEF Wiimotes
<1>4. /\ told' \in [accel : Readings \cup {None}, ext : Exts, was : Exts]
      /\ told'.ext = NoExt /\ told'.was = NoExt /\ told'.accel = told.accel
  <2>1. told \in [accel : Readings \cup {None}, ext : Exts, was : Exts]
    BY DEF PipelineTypes
  <2> QED
    BY <1>2, <2>1, NoExtIsExt
<1>5. PipelineTypes'
  BY <1>2, <1>3, <1>4 DEF PipelineTypes
<1>6. Send(StatusBytes(wiimote'))
  BY DEF Plug
<1>7. CASE link # "up"
  <2>1. report' = <<>>
    BY <1>6, <1>7 DEF Send
  <2>2. link = "down" => told' = NothingTold
    <3>1. told' = [accel |-> told'.accel, ext |-> told'.ext, was |-> told'.was]
      BY <1>4
    <3>2. link = "down" => told.accel = None
      BY DEF FlightInv, Fresh, NothingTold
    <3> QED
      BY <1>4, <3>1, <3>2 DEF NothingTold
  <2> QED
    BY <1>2, <1>5, <1>7, <2>1, <2>2
    DEF FlightInv, InFlight, UpToDate, Unknowing, Fresh, Handled
<1>8. CASE link = "up"
  <2>1. report' = StatusBytes(wiimote')
    BY <1>6, <1>8 DEF Send
  <2>2. /\ report' # <<>>
        /\ ParseInput(report') =
             [type |-> "Status", buttons |-> wiimote'.held, battery |-> 200,
              extension_connected |-> wiimote'.plugged # "None"]
    <3>1. wiimote'.held \in SUBSET Buttons
      BY <1>3
    <3> QED
      BY <2>1, <3>1, StatusParsed
  <2>3. Settled /\ ShowsAccel
    BY <1>2, <1>8 DEF FlightInv, UpToDate, Handled, Shown
  <2>4. ~Identified(runtime.ext_phase) => runtime.controller.ext = NoExt
    BY <1>8 DEF FlightInv, Unknowing
  <2>5. ShowsAccel'
    BY <1>2, <1>4, <2>3 DEF ShowsAccel
  <2>6. ASSUME x # "None" PROVE runtime.ext_phase = None /\ ShowsExt(told.ext)'
    <3>1. runtime.ext_phase = None /\ ~Identified(None)
      BY <1>2, <2>3, <2>6 DEF Settled, Identified
    <3>2. runtime.controller.ext = NoExt /\ NoExt.kind # "Guitar"
      BY <2>4, <3>1, NoExtIsExt
    <3> QED
      BY <1>2, <1>4, <3>1, <3>2, NoExtStays DEF ShowsExt
  <2>7. StatusSent(ParseInput(report))'
    BY <1>2, <1>3, <1>4, <2>2, <2>5, <2>6 DEF StatusSent
  <2> QED
    BY <1>2, <1>4, <1>5, <1>8, <2>2, <2>4, <2>7
    DEF FlightInv, InFlight, UpToDate, Unknowing, Fresh, Handled, Sent
<1> QED
  BY <1>7, <1>8

LEMMA NothingHappens ==
  ASSUME PipelineTypes, FlightInv, UNCHANGED pipelineVars
  PROVE  PipelineTypes' /\ FlightInv'
BY CommandsKeep, TypedParts DEF pipelineVars

LEMMA StepKeeps ==
  ASSUME PipelineTypes, FlightInv, [PipelineNext]_pipelineVars
  PROVE  PipelineTypes' /\ FlightInv'
BY HandleReportKeeps, SetProfileKeeps, TickOutputRetryKeeps, TryConnectKeeps,
   TickKeepaliveKeeps, EndSessionKeeps, PlayKeeps, PlugKeeps, NothingHappens
DEF PipelineNext

(* The inductive invariant: whatever report is under way, the daemon knows *)
(* what its Wiimote said before it, and once it is handled, all it said.   *)
THEOREM FlightInvHolds == PipelineSpec => [](PipelineTypes /\ FlightInv)
<1>1. PipelineInit => PipelineTypes /\ FlightInv
  BY InitTypes, InitFlight
<1>2. PipelineTypes /\ FlightInv /\ [PipelineNext]_pipelineVars => PipelineTypes' /\ FlightInv'
  BY StepKeeps
<1> QED
  BY <1>1, <1>2, PTL DEF PipelineSpec

-----------------------------------------------------------------------------
(* What the pipeline promises of the controller.                           *)

LEMMA GuitarExt ==
  ASSUME NEW e \in Exts, e.kind = "Guitar"
  PROVE  e \in States("Guitar") /\ e.whammy \in 0..31
<1>1. \A x \in {NoExt, [kind |-> "Unparsed"]} \cup States("Nunchuk")
                 \cup States("ClassicController") \cup States("Drums") : x.kind # "Guitar"
  BY DEF NoExt, States
<1>2. e \in States("Guitar")
  BY Zenon, <1>1 DEF Exts
<1> QED
  BY <1>2 DEF States

LEMMA CalibrationParts ==
  ASSUME NEW e \in Exts, NEW b
  PROVE  LET c == Calibration(e, b)
         IN  /\ c.kind = e.kind /\ c.buttons = e.buttons
             /\ e.kind # "Guitar" => c = e
             /\ e.kind = "Guitar" => c.whammy = Calibrated(b, e.whammy)
             /\ Uncalibrated(c) = Uncalibrated(e)
<1>1. CASE e.kind # "Guitar"
  BY Zenon, <1>1 DEF Calibration
<1>2. CASE e.kind = "Guitar"
  <2>1. e \in States("Guitar")
    BY <1>2, GuitarExt
  <2> DEFINE w == Calibrated(b, e.whammy)
             c == [e EXCEPT !.whammy = w]
  <2>2. Calibration(e, b) = c
    BY Zenon, <1>2 DEF Calibration
  <2> HIDE DEF w
  <2>3. PICK sx, sy, tb, wh, bu :
          e = [kind |-> "Guitar", stick_x |-> sx, stick_y |-> sy, touch_bar |-> tb,
               whammy |-> wh, buttons |-> bu]
    BY <2>1 DEF States
  <2>4. c = [kind |-> "Guitar", stick_x |-> sx, stick_y |-> sy, touch_bar |-> tb,
             whammy |-> w, buttons |-> bu]
    BY <2>3
  <2> HIDE DEF c
  <2>5. [c EXCEPT !.whammy = 0] = [e EXCEPT !.whammy = 0]
    BY <2>3, <2>4
  <2>6. c.kind = e.kind /\ c.buttons = e.buttons /\ c.whammy = w
    BY <2>3, <2>4
  <2>7. Uncalibrated(c) = Uncalibrated(e)
    BY Zenon, <1>2, <2>5, <2>6 DEF Uncalibrated
  <2> QED
    BY <1>2, <2>2, <2>6, <2>7 DEF w
<1> QED
  BY <1>1, <1>2

(* The controller of a session is what its Wiimote last said, through the  *)
(* bit layouts of every report and extension and through plugging and      *)
(* unplugging.                                                             *)
THEOREM DecodedHolds == PipelineSpec => []DecodedIsSent
<1>1. PipelineTypes /\ FlightInv => DecodedIsSent
  <2> SUFFICES ASSUME PipelineTypes, FlightInv, Handled
               PROVE  LET c == runtime.controller
                      IN  /\ c.buttons = wiimote.held
                          /\ told.accel # None => c.accel = Coarse(told.accel)
                          /\ Uncalibrated(c.ext) = Uncalibrated(told.ext)
    BY Zenon DEF DecodedIsSent
  <2>1. /\ runtime.controller.buttons = wiimote.held /\ ShowsAccel
        /\ runtime.controller.ext = Calibration(told.ext, runtime.whammy_baseline)
    BY DEF FlightInv, UpToDate, Shown, ShowsExt
  <2>2. told.ext \in Exts
    BY DEF PipelineTypes
  <2>3. Uncalibrated(Calibration(told.ext, runtime.whammy_baseline)) = Uncalibrated(told.ext)
    BY Zenon, <2>2, CalibrationParts
  <2> QED
    BY Zenon, <2>1, <2>3 DEF ShowsAccel
<1> QED
  BY <1>1, FlightInvHolds, PTL

-----------------------------------------------------------------------------
(* The bar of a guitar.                                                    *)

LEMMA BarGrows ==
  ASSUME NEW b \in Nat, NEW v \in 0..31, NEW w \in 0..31, b <= v, v <= w
  PROVE  Calibrated(b, v) \in Nat /\ Calibrated(b, v) <= Calibrated(b, w)
<1> DEFINE span == IF b < 31 THEN 31 - b ELSE 1
           m == (v - b) * 31
           n == (w - b) * 31
<1>1. span \in Nat \ {0} /\ m \in Nat /\ n \in Nat /\ m <= n
  OBVIOUS
<1>2. Calibrated(b, v) = m \div span /\ Calibrated(b, w) = n \div span
  BY DEF Calibrated
<1> HIDE DEF span, m, n
<1>3. m \div span <= n \div span /\ m \div span \in Nat
  BY <1>1, QuotientGrows
<1> QED
  BY <1>2, <1>3

LEMMA BarFollows ==
  ASSUME NEW b \in Nat, NEW v \in 0..31, NEW w \in 0..31, b <= v
  PROVE  LET before == Calibrated(b, v)
             after == Calibrated(Baseline(b, w), w)
         IN  /\ w >= v => after >= before
             /\ w <= v => after <= before
<1> DEFINE before == Calibrated(b, v)
           low == Baseline(b, w)
           after == Calibrated(low, w)
<1>1. before \in Nat
  <2>1. v <= v
    OBVIOUS
  <2> QED
    BY Zenon, <2>1, BarGrows
<1>2. CASE b <= w
  <2>1. low = b
    BY <1>2 DEF Baseline
  <2>2. after = Calibrated(b, w)
    BY Zenon, <2>1
  <2>3. ASSUME v <= w PROVE before <= Calibrated(b, w)
    BY Zenon, <2>3, BarGrows
  <2>4. ASSUME w <= v PROVE Calibrated(b, w) <= before
    BY Zenon, <1>2, <2>4, BarGrows
  <2>5. Calibrated(b, w) \in Nat
    <3>1. w <= w
      OBVIOUS
    <3> QED
      BY Zenon, <1>2, <3>1, BarGrows
  <2> DEFINE next == Calibrated(b, w)
  <2> HIDE DEF before, next
  <2>6. before <= next \/ ~(w >= v)
    BY <2>3 DEF next
  <2>7. w <= v => next <= before
    BY <2>4 DEF next
  <2>8. w >= v => next >= before
    BY <1>1, <2>5, <2>6 DEF next
  <2> QED
    BY Zenon, <2>2, <2>7, <2>8 DEF before, next
<1>3. CASE b > w
  <2>1. low = w
    BY <1>3 DEF Baseline
  <2> DEFINE span == IF w < 31 THEN 31 - w ELSE 1
  <2>2. after = ((w - w) * 31) \div span
    BY Zenon, <2>1 DEF Calibrated
  <2>3. span \in Nat \ {0} /\ (w - w) * 31 = 0
    OBVIOUS
  <2> HIDE DEF span
  <2>4. after = 0
    BY <2>2, <2>3
  <2>5. ~(w >= v)
    BY <1>3
  <2> HIDE DEF before, after
  <2>6. after <= before
    BY <1>1, <2>4
  <2> QED
    BY Zenon, <2>5, <2>6 DEF before, after, low
<1> QED
  BY <1>2, <1>3

(* While one guitar stays identified, pushing its bar never moves the      *)
(* reading back and releasing it never moves it on.                        *)
THEOREM WhammyHolds == PipelineSpec => WhammyFollowsBar
<1> DEFINE A == LET guitar(e) == e.kind = "Guitar"
                    before == runtime.controller.ext
                    after == runtime'.controller.ext
                IN  guitar(told.was) /\ guitar(told.ext) /\ guitar(before) /\ guitar(after) =>
                      /\ told.ext.whammy >= told.was.whammy => after.whammy >= before.whammy
                      /\ told.ext.whammy <= told.was.whammy => after.whammy <= before.whammy
<1>1. PipelineTypes /\ FlightInv /\ [PipelineNext]_pipelineVars => [A]_pipelineVars
  <2> SUFFICES ASSUME PipelineTypes, FlightInv, [PipelineNext]_pipelineVars,
                      told.was.kind = "Guitar", told.ext.kind = "Guitar",
                      runtime.controller.ext.kind = "Guitar",
                      runtime'.controller.ext.kind = "Guitar"
               PROVE  /\ told.ext.whammy >= told.was.whammy =>
                           runtime'.controller.ext.whammy >= runtime.controller.ext.whammy
                      /\ told.ext.whammy <= told.was.whammy =>
                           runtime'.controller.ext.whammy <= runtime.controller.ext.whammy
    BY Zenon
  <2> DEFINE before == runtime.controller.ext
             after == runtime'.controller.ext
             v == told.was.whammy
             w == told.ext.whammy
             b == runtime.whammy_baseline
  <2>1. /\ before.whammy \in 0..31 /\ v \in 0..31 /\ w \in 0..31
        /\ told.was \in Exts /\ told.ext \in Exts
    <3>1. told.was \in Exts /\ told.ext \in Exts /\ before \in Exts
      BY TypedParts DEF PipelineTypes
    <3> QED
      BY <3>1, GuitarExt
  <2>2. NoExt.kind # "Guitar"
    BY NoExtIsExt
  <2>3. \/ after = before
        \/ after = NoExt
        \/ /\ before = Calibration(told.was, b) /\ b \in 0..v
           /\ after = Calibration(told.ext, Baseline(b, w))
    <3>1. CASE HandleReport
      <4>1. \/ after \in {before, NoExt}
            \/ ShowsExt(told.was) /\ after = Calibration(told.ext, Baseline(b, w))
        BY Zenon, <3>1, HandleReportKeeps
      <4> QED
        BY <4>1 DEF ShowsExt
    <3>2. CASE EndSession
      <4>1. runtime \in Runtimes
        BY DEF PipelineTypes
      <4>2. runtime'.controller = NoInput
        BY <3>2, <4>1 DEF EndSession, Runtimes
      <4> QED
        BY <4>2 DEF NoInput
    <3>3. CASE ~HandleReport /\ ~EndSession
      <4>1. runtime \in Runtimes
        BY DEF PipelineTypes
      <4>2. runtime'.controller = runtime.controller
        BY <3>3, <4>1 DEF PipelineNext, SetProfile, TickOutputRetry, TryConnect, TickKeepalive,
          Play, Plug, pipelineVars, Runtimes
      <4> QED
        BY <4>2
    <3> QED
      BY <3>1, <3>2, <3>3
  <2>4. CASE after = before
    BY <2>1, <2>4
  <2>5. CASE after = NoExt
    BY <2>2, <2>5
  <2>6. CASE /\ before = Calibration(told.was, b) /\ b \in 0..v
             /\ after = Calibration(told.ext, Baseline(b, w))
    <3>1. before.whammy = Calibrated(b, v) /\ after.whammy = Calibrated(Baseline(b, w), w)
      <4>1. Calibration(told.was, b).whammy = Calibrated(b, v)
        BY Zenon, <2>1, CalibrationParts
      <4>2. Calibration(told.ext, Baseline(b, w)).whammy = Calibrated(Baseline(b, w), w)
        BY Zenon, <2>1, CalibrationParts
      <4> QED
        BY Zenon, <2>6, <4>1, <4>2
    <3> HIDE DEF before, after, v, w, b
    <3>2. b \in Nat /\ b <= v
      BY <2>1, <2>6
    <3> DEFINE x == Calibrated(b, v)
               y == Calibrated(Baseline(b, w), w)
    <3>3. (w >= v => y >= x) /\ (w <= v => y <= x)
      BY Zenon, <2>1, <3>2, BarFollows
    <3> HIDE DEF x, y
    <3>4. before.whammy = x /\ after.whammy = y
      BY Zenon, <3>1 DEF x, y
    <3> QED
      BY <3>3, <3>4 DEF before, after, v, w
  <2> QED
    BY <2>3, <2>4, <2>5, <2>6
<1> QED
  BY <1>1, FlightInvHolds, PTL DEF PipelineSpec, WhammyFollowsBar

-----------------------------------------------------------------------------
(* The frames of a pad.                                                    *)

Frames ==
  [pressed : SUBSET DOMAIN EvdevKey, lx : AxisRange, ly : AxisRange, rx : AxisRange,
   ry : AxisRange, lt : Byte, rt : Byte]

AtRest(s) == s.pressed = {} /\ s.lt = 0 /\ s.rt = 0

LEMMA ExtKinds ==
  ASSUME NEW e \in Exts
  PROVE  /\ e.kind = "Nunchuk" => e.stick_x \in Byte /\ e.stick_y \in Byte
         /\ e.kind = "Guitar" => e.whammy \in Nat
<1>1. \A x \in {NoExt, [kind |-> "Unparsed"]} \cup States("Guitar")
                 \cup States("ClassicController") \cup States("Drums") : x.kind # "Nunchuk"
  BY DEF NoExt, States
<1>2. ASSUME e.kind = "Nunchuk" PROVE e.stick_x \in Byte /\ e.stick_y \in Byte
  <2>1. e \in States("Nunchuk")
    BY Zenon, <1>1, <1>2 DEF Exts
  <2> QED
    BY <2>1 DEF States
<1>3. ASSUME e.kind = "Guitar" PROVE e.whammy \in Nat
  BY <1>3, GuitarExt
<1> QED
  BY <1>2, <1>3

LEMMA I16IsAxis ==
  ASSUME NEW n, IsI16(n)
  PROVE  n \in AxisRange
BY DEF IsI16, AxisRange

LEMMA AxesInRange ==
  ASSUME NEW r \in Int
  PROVE  TiltToStick(r) \in AxisRange /\ NunchukStickToAxis(r) \in AxisRange
<1>1. r <= r
  OBVIOUS
<1>2. IsI16(TiltToStick(r)) /\ IsI16(NunchukStickToAxis(r))
  BY Zenon, <1>1, SticksFitAndGrow
<1> QED
  BY Zenon, <1>2, I16IsAxis

LEMMA LayoutsArePads ==
  ASSUME NEW buttons
  PROVE  /\ Placed(WiimoteLayout, buttons) \subseteq DOMAIN EvdevKey
         /\ Placed(GuitarLayout, buttons) \subseteq DOMAIN EvdevKey
         /\ Placed(DrumsLayout, buttons) \subseteq DOMAIN EvdevKey
         /\ Placed(ClassicLayout, buttons) \subseteq DOMAIN EvdevKey
         /\ GuidePlaced(buttons) \subseteq DOMAIN EvdevKey
         /\ {"lb"} \subseteq DOMAIN EvdevKey
<1>1. \A b \in DOMAIN WiimoteLayout : WiimoteLayout[b] \in DOMAIN EvdevKey
  BY DEF WiimoteLayout, EvdevKey
<1>2. \A b \in DOMAIN GuitarLayout : GuitarLayout[b] \in DOMAIN EvdevKey
  BY DEF GuitarLayout, EvdevKey
<1>3. \A b \in DOMAIN DrumsLayout : DrumsLayout[b] \in DOMAIN EvdevKey
  BY DEF DrumsLayout, EvdevKey
<1>4. \A b \in DOMAIN ClassicLayout : ClassicLayout[b] \in DOMAIN EvdevKey
  BY DEF ClassicLayout, EvdevKey
<1>5. "guide" \in DOMAIN EvdevKey /\ "lb" \in DOMAIN EvdevKey
  BY DEF EvdevKey
<1> QED
  BY <1>1, <1>2, <1>3, <1>4, <1>5 DEF Placed, GuidePlaced

LEMMA TriggerFits ==
  ASSUME NEW held
  PROVE  Trigger(held) \in Byte /\ (held = FALSE => Trigger(held) = 0)
BY DEF Trigger, Byte

LEMMA FrameFits ==
  ASSUME NEW pressed \in SUBSET DOMAIN EvdevKey
  PROVE  Frame(pressed) \in Frames
BY DEF Frame, Frames, AxisRange, I16Max, Byte

(* Each of the four layouts gives a frame, and a resting one at rest.      *)
LEMMA TiltedFits ==
  ASSUME NEW c \in Controllers
  PROVE  LET s == Tilted(c)
         IN  /\ s \in Frames
             /\ s = [pressed |-> Placed(WiimoteLayout, c.buttons), lx |-> TiltToStick(c.accel.x),
                     ly |-> TiltToStick(c.accel.y), rx |-> 0, ry |-> 0, lt |-> 0, rt |-> 0]
<1> DEFINE pressed == Placed(WiimoteLayout, c.buttons)
           x == TiltToStick(c.accel.x)
           y == TiltToStick(c.accel.y)
<1>1. x \in AxisRange /\ y \in AxisRange
  <2>1. c.accel.x \in Int /\ c.accel.y \in Int
    <3>1. c.accel \in Readings
      BY DEF Controllers
    <3>2. \A a \in Readings : a.x \in Int /\ a.y \in Int
      BY DEF Readings
    <3> QED
      BY Zenon, <3>1, <3>2
  <2> QED
    BY <2>1, AxesInRange
<1>2. pressed \in SUBSET DOMAIN EvdevKey
  BY LayoutsArePads
<1>3. Tilted(c) = [Frame(pressed) EXCEPT !.lx = x, !.ly = y]
  BY Zenon DEF Tilted
<1> HIDE DEF pressed, x, y
<1>4. Tilted(c) = [pressed |-> pressed, lx |-> x, ly |-> y, rx |-> 0, ry |-> 0, lt |-> 0, rt |-> 0]
  BY <1>3 DEF Frame
<1>5. 0 \in AxisRange /\ 0 \in Byte
  BY DEF AxisRange, I16Max, Byte
<1>6. Tilted(c) \in Frames
  BY <1>1, <1>2, <1>4, <1>5 DEF Frames
<1> QED
  BY <1>4, <1>6 DEF pressed, x, y

LEMMA NunchukFits ==
  ASSUME NEW s \in Frames, NEW n \in Exts, n.kind = "Nunchuk"
  PROVE  LET f == ApplyNunchuk(s, n)
         IN  /\ f \in Frames
             /\ f.lx = NunchukStickToAxis(n.stick_x) /\ f.ly = NunchukStickToAxis(n.stick_y)
             /\ n.buttons = {} => f.pressed = s.pressed /\ f.lt = 0 /\ f.rt = s.rt
<1> DEFINE x == NunchukStickToAxis(n.stick_x)
           y == NunchukStickToAxis(n.stick_y)
           c == IF "C" \in n.buttons THEN {"lb"} ELSE {}
           z == Trigger("Z" \in n.buttons)
<1>1. x \in AxisRange /\ y \in AxisRange
  <2>1. n.stick_x \in Int /\ n.stick_y \in Int
    BY ExtKinds DEF Byte
  <2> QED
    BY <2>1, AxesInRange
<1>2. z \in Byte /\ (n.buttons = {} => z = 0 /\ c = {})
  BY DEF Trigger, Byte
<1>3. c \in SUBSET DOMAIN EvdevKey
  BY LayoutsArePads
<1>4. PICK p, lx, ly, rx, ry, lt, rt :
        /\ s = [pressed |-> p, lx |-> lx, ly |-> ly, rx |-> rx, ry |-> ry, lt |-> lt, rt |-> rt]
        /\ p \in SUBSET DOMAIN EvdevKey
        /\ lx \in AxisRange /\ ly \in AxisRange /\ rx \in AxisRange /\ ry \in AxisRange
        /\ lt \in Byte /\ rt \in Byte
  BY DEF Frames
<1>5. ApplyNunchuk(s, n) = [s EXCEPT !.lx = x, !.ly = y, !.rx = s.lx, !.ry = s.ly,
                                     !.pressed = @ \cup c, !.lt = z]
  BY Zenon DEF ApplyNunchuk
<1> HIDE DEF x, y, c, z
<1>6. ApplyNunchuk(s, n) =
        [pressed |-> p \cup c, lx |-> x, ly |-> y, rx |-> lx, ry |-> ly, lt |-> z, rt |-> rt]
  BY <1>4, <1>5
<1>7. ApplyNunchuk(s, n) \in Frames
  BY <1>1, <1>2, <1>3, <1>4, <1>6 DEF Frames
<1>8. n.buttons = {} => p \cup c = p
  BY <1>2
<1> QED
  BY <1>2, <1>4, <1>6, <1>7, <1>8 DEF x, y

LEMMA InstrumentsFit ==
  ASSUME NEW c \in Controllers
  PROVE  /\ c.ext.kind = "Guitar" =>
              /\ GuitarPad(c.ext, c) \in Frames
              /\ c.buttons = {} /\ c.ext.buttons = {} => GuitarPad(c.ext, c).pressed = {}
              /\ GuitarPad(c.ext, c).lx = 0 /\ GuitarPad(c.ext, c).ly = 0
              /\ GuitarPad(c.ext, c).lt = 0 /\ GuitarPad(c.ext, c).rt = 0
         /\ /\ DrumsPad(c.ext, c) \in Frames
            /\ c.buttons = {} /\ c.ext.buttons = {} => DrumsPad(c.ext, c).pressed = {}
            /\ DrumsPad(c.ext, c).lx = 0 /\ DrumsPad(c.ext, c).ly = 0
            /\ DrumsPad(c.ext, c).lt = 0 /\ DrumsPad(c.ext, c).rt = 0
         /\ /\ ClassicPad(c.ext) \in Frames
            /\ c.ext.buttons = {} => AtRest(ClassicPad(c.ext))
            /\ ClassicPad(c.ext).lx = 0 /\ ClassicPad(c.ext).ly = 0
<1> DEFINE e == c.ext
           guide == GuidePlaced(c.buttons)
           g == Placed(GuitarLayout, e.buttons)
           d == Placed(DrumsLayout, e.buttons)
           k == Placed(ClassicLayout, e.buttons)
           lt == Trigger("LT" \in e.buttons)
           rt == Trigger("RT" \in e.buttons)
           bar == WhammyToAxis(e.whammy)
<1>1. /\ g \cup guide \in SUBSET DOMAIN EvdevKey /\ d \cup guide \in SUBSET DOMAIN EvdevKey
      /\ k \in SUBSET DOMAIN EvdevKey
  BY LayoutsArePads
<1>2. /\ lt \in Byte /\ rt \in Byte
      /\ e.buttons = {} => lt = 0 /\ rt = 0 /\ g = {} /\ d = {} /\ k = {}
      /\ c.buttons = {} => guide = {}
  BY DEF Trigger, Byte, Placed, GuidePlaced
<1>3. e.kind = "Guitar" => bar \in AxisRange
  <2>1. e \in Exts
    BY DEF Controllers
  <2> QED
    BY <2>1, ExtKinds, WhammyFits, I16IsAxis
<1>4. 0 \in AxisRange /\ 0 \in Byte
  BY DEF AxisRange, I16Max, Byte
<1>5. /\ GuitarPad(e, c) = [Frame(g \cup guide) EXCEPT !.rx = bar]
      /\ DrumsPad(e, c) = Frame(d \cup guide)
      /\ ClassicPad(e) = [Frame(k) EXCEPT !.lt = lt, !.rt = rt]
  BY Zenon DEF GuitarPad, DrumsPad, ClassicPad
<1> HIDE DEF e, guide, g, d, k, lt, rt, bar
<1>6. /\ GuitarPad(e, c) = [pressed |-> g \cup guide, lx |-> 0, ly |-> 0, rx |-> bar, ry |-> 0,
                            lt |-> 0, rt |-> 0]
      /\ DrumsPad(e, c) = [pressed |-> d \cup guide, lx |-> 0, ly |-> 0, rx |-> 0, ry |-> 0,
                           lt |-> 0, rt |-> 0]
      /\ ClassicPad(e) = [pressed |-> k, lx |-> 0, ly |-> 0, rx |-> 0, ry |-> 0,
                          lt |-> lt, rt |-> rt]
  BY <1>5 DEF Frame
<1>7. /\ e.kind = "Guitar" => GuitarPad(e, c) \in Frames
      /\ DrumsPad(e, c) \in Frames /\ ClassicPad(e) \in Frames
  BY <1>1, <1>2, <1>3, <1>4, <1>6 DEF Frames
<1>8. /\ c.buttons = {} /\ e.buttons = {} =>
           GuitarPad(e, c).pressed = {} /\ DrumsPad(e, c).pressed = {}
      /\ e.buttons = {} => AtRest(ClassicPad(e))
  BY <1>2, <1>6 DEF AtRest
<1>9. /\ GuitarPad(e, c).lx = 0 /\ GuitarPad(e, c).ly = 0
      /\ GuitarPad(e, c).lt = 0 /\ GuitarPad(e, c).rt = 0
      /\ DrumsPad(e, c).lx = 0 /\ DrumsPad(e, c).ly = 0
      /\ DrumsPad(e, c).lt = 0 /\ DrumsPad(e, c).rt = 0
      /\ ClassicPad(e).lx = 0 /\ ClassicPad(e).ly = 0
  BY <1>6
<1> QED
  BY <1>7, <1>8, <1>9 DEF e

(* MapToXbox.                                                              *)
LEMMA PadCases ==
  ASSUME NEW profile, NEW c
  PROVE  \/ c.ext.kind = "Guitar" /\ MapToXbox(profile, c) = GuitarPad(c.ext, c)
         \/ c.ext.kind = "Drums" /\ MapToXbox(profile, c) = DrumsPad(c.ext, c)
         \/ c.ext.kind = "Classic" /\ MapToXbox(profile, c) = ClassicPad(c.ext)
         \/ MapToXbox(profile, c) = WiimotePad(c)
<1> DEFINE layout == ResolvePad(profile, c.ext)
<1>1. layout = c.ext.kind \/ layout = "Wiimote"
  BY DEF ResolvePad
<1>2. MapToXbox(profile, c) =
        CASE layout = "Guitar" -> GuitarPad(c.ext, c)
          [] layout = "Drums" -> DrumsPad(c.ext, c)
          [] layout = "Classic" -> ClassicPad(c.ext)
          [] OTHER -> WiimotePad(c)
  BY Zenon DEF MapToXbox
<1> HIDE DEF layout
<1>3. "Drums" # "Guitar" /\ "Classic" # "Guitar" /\ "Classic" # "Drums"
  OBVIOUS
<1>4. CASE layout = "Guitar"
  <2>1. c.ext.kind = "Guitar"
    BY <1>1, <1>4
  <2> QED
    BY Zenon, <1>2, <1>4, <2>1
<1>5. CASE layout = "Drums"
  <2>1. c.ext.kind = "Drums" /\ layout # "Guitar"
    BY <1>1, <1>5
  <2> QED
    BY Zenon, <1>2, <1>5, <2>1
<1>6. CASE layout = "Classic"
  <2>1. c.ext.kind = "Classic" /\ layout # "Guitar" /\ layout # "Drums"
    BY <1>1, <1>6
  <2> QED
    BY Zenon, <1>2, <1>6, <2>1
<1>7. CASE layout # "Guitar" /\ layout # "Drums" /\ layout # "Classic"
  BY Zenon, <1>2, <1>7
<1> QED
  BY Zenon, <1>4, <1>5, <1>6, <1>7

LEMMA PadFits ==
  ASSUME NEW profile, NEW c \in Controllers
  PROVE  LET s == MapToXbox(profile, c)
         IN  /\ s \in Frames
             /\ c.buttons = {} /\ ExtAtRest(c.ext) => AtRest(s)
             /\ TiltToStick(c.accel.x) = 0 /\ TiltToStick(c.accel.y) = 0 /\ ExtAtRest(c.ext)
                  => s.lx = 0 /\ s.ly = 0
<1>1. c.ext \in Exts
  BY DEF Controllers
<1> DEFINE tilted == Tilted(c)
<1>2. /\ tilted \in Frames
      /\ tilted.lx = TiltToStick(c.accel.x) /\ tilted.ly = TiltToStick(c.accel.y)
      /\ c.buttons = {} => AtRest(tilted)
  <2>1. /\ tilted \in Frames
        /\ tilted = [pressed |-> Placed(WiimoteLayout, c.buttons), lx |-> TiltToStick(c.accel.x),
                     ly |-> TiltToStick(c.accel.y), rx |-> 0, ry |-> 0, lt |-> 0, rt |-> 0]
    BY Zenon, TiltedFits
  <2>2. c.buttons = {} => Placed(WiimoteLayout, c.buttons) = {}
    BY DEF Placed
  <2> QED
    BY <2>1, <2>2 DEF AtRest
<1> HIDE DEF tilted
<1>3. NunchukStickToAxis(STICK_CENTER) = 0
  BY DEF NunchukStickToAxis, Axis, Abs, STICK_CENTER, STICK_DEADZONE
<1>4. CASE c.ext.kind = "Nunchuk" /\ MapToXbox(profile, c) = WiimotePad(c)
  <2> DEFINE f == ApplyNunchuk(tilted, c.ext)
  <2>1. MapToXbox(profile, c) = f
    BY Zenon, <1>4 DEF WiimotePad, tilted
  <2>2. /\ f \in Frames
        /\ f.lx = NunchukStickToAxis(c.ext.stick_x) /\ f.ly = NunchukStickToAxis(c.ext.stick_y)
        /\ c.ext.buttons = {} => f.pressed = tilted.pressed /\ f.lt = 0 /\ f.rt = tilted.rt
    BY Zenon, <1>1, <1>2, <1>4, NunchukFits
  <2> HIDE DEF f
  <2>3. ExtAtRest(c.ext) => c.ext.stick_x = STICK_CENTER /\ c.ext.stick_y = STICK_CENTER
                            /\ c.ext.buttons = {}
    BY <1>4 DEF ExtAtRest
  <2>4. ExtAtRest(c.ext) => f.lx = 0 /\ f.ly = 0
    BY Zenon, <1>3, <2>2, <2>3
  <2>5. c.buttons = {} /\ ExtAtRest(c.ext) => AtRest(f)
    BY Zenon, <1>2, <2>2, <2>3 DEF AtRest
  <2> QED
    BY Zenon, <2>1, <2>2, <2>4, <2>5
<1>5. CASE c.ext.kind # "Nunchuk" /\ MapToXbox(profile, c) = WiimotePad(c)
  <2>1. MapToXbox(profile, c) = tilted
    BY Zenon, <1>5 DEF WiimotePad, tilted
  <2> QED
    BY Zenon, <1>2, <2>1
<1>6. CASE c.ext.kind = "Guitar" /\ MapToXbox(profile, c) = GuitarPad(c.ext, c)
  <2>1. ExtAtRest(c.ext) => c.ext.buttons = {}
    BY <1>6 DEF ExtAtRest
  <2> QED
    BY Zenon, <1>6, <2>1, InstrumentsFit DEF AtRest
<1>7. CASE c.ext.kind = "Drums" /\ MapToXbox(profile, c) = DrumsPad(c.ext, c)
  <2>1. ExtAtRest(c.ext) => c.ext.buttons = {}
    BY <1>7 DEF ExtAtRest
  <2> QED
    BY Zenon, <1>7, <2>1, InstrumentsFit DEF AtRest
<1>8. CASE c.ext.kind = "Classic" /\ MapToXbox(profile, c) = ClassicPad(c.ext)
  <2>1. ExtAtRest(c.ext) => c.ext.buttons = {}
    BY <1>8 DEF ExtAtRest
  <2> QED
    BY Zenon, <1>8, <2>1, InstrumentsFit DEF AtRest
<1> QED
  BY Zenon, <1>4, <1>5, <1>6, <1>7, <1>8, PadCases

-----------------------------------------------------------------------------
(* The Output and what games see of it.                                    *)

PadAxes ==
  [ABS_X : AxisRange, ABS_Y : AxisRange, ABS_RX : AxisRange, ABS_RY : AxisRange,
   ABS_Z : Byte, ABS_RZ : Byte]

HeldKeys == KeyCodes \cup EvdevKeys \cup {XButton[k] : k \in DOMAIN XButton}

Devices == [held : SUBSET HeldKeys, axes : PadAxes]

(* What the backend of the system publishes of a frame.                    *)
Published(s) ==
  [held |-> IF os = "linux" THEN {EvdevKey[k] : k \in s.pressed} ELSE Placed(XButton, s.pressed),
   axes |-> Axes(s)]

(* A keyboard's axes never move, and its keys are those of the Output.     *)
Fits(out, dev) ==
  /\ out \in Outputs /\ dev \in Devices
  /\ os = "linux" => dev.held \subseteq EvdevKeys
  /\ os = "macos" => dev = [held |-> out.pressed, axes |-> Idle.axes]

(* A device that is not late shows the controller, or nothing yet.         *)
Shows(out, dev, c) ==
  IF os = "macos" THEN out.pressed \in {{}, KeysFor(out.profile, c)}
  ELSE out.late \/ dev = Idle \/ dev = Published(MapToXbox(out.profile, c))

OutputInv ==
  IF output = None THEN device = Idle
  ELSE Fits(output, device) /\ Shows(output, device, runtime.controller)

-----------------------------------------------------------------------------
LEMMA AxesFit ==
  ASSUME NEW s \in Frames
  PROVE  Axes(s) \in PadAxes
BY DEF Frames, Axes, PadAxes

LEMMA IdleDevice ==
  /\ Idle \in Devices /\ Idle.held = {} /\ Idle = [held |-> {}, axes |-> Idle.axes]
  /\ Idle.axes \in PadAxes
  /\ Idle.axes.ABS_X = 0 /\ Idle.axes.ABS_Y = 0 /\ Idle.axes.ABS_Z = 0 /\ Idle.axes.ABS_RZ = 0
<1>1. Frame({}) \in Frames
  BY FrameFits
<1>2. Axes(Frame({})) \in PadAxes
  BY <1>1, AxesFit
<1>3. Idle = [held |-> {}, axes |-> Axes(Frame({}))]
  BY DEF Idle
<1>4. /\ Axes(Frame({})).ABS_X = 0 /\ Axes(Frame({})).ABS_Y = 0
      /\ Axes(Frame({})).ABS_Z = 0 /\ Axes(Frame({})).ABS_RZ = 0
  BY DEF Axes, Frame
<1> QED
  BY <1>2, <1>3, <1>4 DEF Devices

LEMMA PublishedParts ==
  ASSUME NEW s \in Frames
  PROVE  /\ Published(s) \in Devices
         /\ os = "linux" => Published(s).held \subseteq EvdevKeys
         /\ Published(s).axes = Axes(s)
         /\ s.pressed = {} => Published(s).held = {}
<1>1. s.pressed \subseteq DOMAIN EvdevKey /\ Axes(s) \in PadAxes
  BY AxesFit DEF Frames
<1>2. DOMAIN EvdevKey = DOMAIN XButton
  BY DEF EvdevKey, XButton
<1> DEFINE keys == {EvdevKey[k] : k \in s.pressed}
           bits == Placed(XButton, s.pressed)
<1>3. keys \subseteq HeldKeys /\ keys \subseteq EvdevKeys /\ (s.pressed = {} => keys = {})
  BY <1>1 DEF EvdevKeys, HeldKeys
<1>4. bits \subseteq HeldKeys /\ (s.pressed = {} => bits = {})
  BY <1>1, <1>2 DEF Placed, HeldKeys
<1> HIDE DEF keys, bits
<1>5. Published(s) = [held |-> IF os = "linux" THEN keys ELSE bits, axes |-> Axes(s)]
  BY Zenon DEF Published, keys, bits
<1> QED
  BY <1>1, <1>3, <1>4, <1>5 DEF Devices

LEMMA KeymapsAreKeys ==
  ASSUME NEW buttons
  PROVE  /\ KeysOf(WiimoteKeymap, buttons) \subseteq KeyCodes
         /\ KeysOf(GuitarKeymap, buttons) \subseteq KeyCodes
         /\ KeysOf(ClassicKeymap, buttons) \subseteq KeyCodes
         /\ KeysOf(NunchukKeymap, buttons) \subseteq KeyCodes
<1>1. \A b \in DOMAIN WiimoteKeymap : WiimoteKeymap[b] \in KeyCodes
  BY DEF WiimoteKeymap, KeyCodes
<1>2. \A b \in DOMAIN GuitarKeymap : GuitarKeymap[b] \in KeyCodes
  BY DEF GuitarKeymap, KeyCodes
<1>3. \A b \in DOMAIN ClassicKeymap : ClassicKeymap[b] \in KeyCodes
  BY DEF ClassicKeymap, KeyCodes
<1>4. \A b \in DOMAIN NunchukKeymap : NunchukKeymap[b] \in KeyCodes
  BY DEF NunchukKeymap, KeyCodes
<1> QED
  BY <1>1, <1>2, <1>3, <1>4 DEF KeysOf

(* The keys of a controller, and none at rest.                             *)
LEMMA KeysFit ==
  ASSUME NEW profile, NEW c
  PROVE  /\ KeysFor(profile, c) \subseteq KeyCodes
         /\ c.buttons = {} /\ ExtAtRest(c.ext) => KeysFor(profile, c) = {}
<1> DEFINE wiimote_keys == KeysOf(WiimoteKeymap, c.buttons)
           classic == KeysOf(ClassicKeymap, c.ext.buttons)
           nunchuk == NunchukKeys(c.ext)
           guitar == GuitarKeys(c.ext, c)
           calm == c.buttons = {} /\ ExtAtRest(c.ext)
<1>1. wiimote_keys \subseteq KeyCodes /\ (calm => wiimote_keys = {})
  BY KeymapsAreKeys DEF KeysOf
<1>2. classic \subseteq KeyCodes /\ (calm /\ c.ext.kind = "Classic" => classic = {})
  <2>1. c.ext.buttons = {} => classic = {}
    BY DEF KeysOf
  <2> QED
    BY <2>1, KeymapsAreKeys DEF ExtAtRest
<1>3. nunchuk \subseteq KeyCodes /\ (calm /\ c.ext.kind = "Nunchuk" => nunchuk = {})
  <2> DEFINE keys == KeysOf(NunchukKeymap, c.ext.buttons)
             up == StickKey(c.ext.stick_y, "ARROW_UP", "ARROW_DOWN")
             right == StickKey(c.ext.stick_x, "ARROW_RIGHT", "ARROW_LEFT")
  <2>1. keys \subseteq KeyCodes /\ (c.ext.buttons = {} => keys = {})
    BY KeymapsAreKeys DEF KeysOf
  <2>2. up \subseteq KeyCodes /\ right \subseteq KeyCodes
    BY DEF StickKey, KeyCodes
  <2>3. c.ext.stick_y = STICK_CENTER => up = {}
    BY DEF StickKey, STICK_CENTER, STICK_THRESHOLD
  <2>4. c.ext.stick_x = STICK_CENTER => right = {}
    BY DEF StickKey, STICK_CENTER, STICK_THRESHOLD
  <2>5. nunchuk = keys \cup up \cup right
    BY Zenon DEF NunchukKeys
  <2>6. calm /\ c.ext.kind = "Nunchuk" =>
          c.ext.buttons = {} /\ c.ext.stick_x = STICK_CENTER /\ c.ext.stick_y = STICK_CENTER
    BY DEF ExtAtRest
  <2> HIDE DEF keys, up, right, nunchuk, calm
  <2> QED
    BY <2>1, <2>2, <2>3, <2>4, <2>5, <2>6
<1>4. guitar \subseteq KeyCodes /\ (calm /\ c.ext.kind = "Guitar" => guitar = {})
  <2> DEFINE keys == KeysOf(GuitarKeymap, c.ext.buttons)
             home == IF "HOME" \in c.buttons THEN {"SPACE"} ELSE {}
  <2>1. keys \subseteq KeyCodes /\ (c.ext.buttons = {} => keys = {})
    BY KeymapsAreKeys DEF KeysOf
  <2>2. home \subseteq KeyCodes /\ (c.buttons = {} => home = {})
    BY DEF KeyCodes
  <2>3. guitar = keys \cup home
    BY Zenon DEF GuitarKeys
  <2>4. calm /\ c.ext.kind = "Guitar" => c.ext.buttons = {} /\ c.buttons = {}
    BY DEF ExtAtRest
  <2> HIDE DEF keys, home, guitar, calm
  <2> QED
    BY <2>1, <2>2, <2>3, <2>4
<1>5. KeysFor(profile, c) = IF profile = "GuitarKeyboard" /\ c.ext.kind = "Guitar"
                            THEN guitar ELSE WiimoteKeys(c)
  BY Zenon DEF KeysFor
<1>6. \/ c.ext.kind = "Classic" /\ WiimoteKeys(c) = classic
      \/ c.ext.kind = "Nunchuk" /\ WiimoteKeys(c) = wiimote_keys \cup nunchuk
      \/ WiimoteKeys(c) = wiimote_keys
  <2>1. "Classic" # "Nunchuk"
    OBVIOUS
  <2>2. CASE c.ext.kind = "Classic"
    <3>1. c.ext.kind # "Nunchuk"
      BY <2>2
    <3> QED
      BY Zenon, <2>2, <3>1 DEF WiimoteKeys
  <2>3. CASE c.ext.kind = "Nunchuk"
    <3>1. c.ext.kind # "Classic"
      BY <2>3
    <3> QED
      BY Zenon, <2>3, <3>1 DEF WiimoteKeys
  <2>4. CASE c.ext.kind # "Classic" /\ c.ext.kind # "Nunchuk"
    BY Zenon, <2>4 DEF WiimoteKeys
  <2> QED
    BY Zenon, <2>2, <2>3, <2>4
<1> HIDE DEF wiimote_keys, classic, nunchuk, guitar, calm
<1> QED
  BY <1>1, <1>2, <1>3, <1>4, <1>5, <1>6 DEF calm

(* An output that holds nothing, before its first update.                  *)
LEMMA NewFits ==
  ASSUME NEW profile \in Profiles, os \in Systems
  PROVE  /\ NewOutput(profile) # None
         /\ Fits(NewOutput(profile), Idle)
         /\ \A c : Shows(NewOutput(profile), Idle, c)
<1> DEFINE actual == IF os = "macos" THEN ActualProfile(profile) ELSE profile
<1>1. actual \in Profiles
  BY DEF ActualProfile, Profiles
<1> HIDE DEF actual
<1>2. NewOutput(profile) = [profile |-> actual, pressed |-> {}, late |-> FALSE]
  BY Zenon DEF NewOutput, actual
<1>3. NewOutput(profile) \in Outputs /\ NewOutput(profile).pressed = {}
  BY <1>1, <1>2 DEF Outputs
<1>4. NewOutput(profile) # None
  BY <1>3, NoneIsNothing
<1>5. Fits(NewOutput(profile), Idle)
  BY <1>3, IdleDevice DEF Fits
<1> QED
  BY <1>3, <1>4, <1>5 DEF Shows

LEMMA DroppedIsIdle ==
  ASSUME OutputInv
  PROVE  Dropped = Idle
<1>1. CASE os = "macos" /\ output # None
  <2>1. device = [held |-> output.pressed, axes |-> Idle.axes]
    BY Zenon, <1>1 DEF OutputInv, Fits
  <2>2. Dropped = [device EXCEPT !.held = Applied(@, output.pressed, {})]
    BY Zenon, <1>1 DEF Dropped
  <2>3. Applied(device.held, output.pressed, {}) = {}
    BY <2>1 DEF Applied
  <2>4. Dropped = [held |-> {}, axes |-> Idle.axes]
    BY <2>1, <2>2, <2>3
  <2> QED
    BY Zenon, <2>4, IdleDevice
<1>2. CASE ~(os = "macos" /\ output # None)
  BY Zenon, <1>2 DEF Dropped
<1> QED
  BY Zenon, <1>1, <1>2

-----------------------------------------------------------------------------
(* Output::update and a failure of it.                                     *)
LEMMA UpdatedWindows ==
  ASSUME NEW out, NEW dev, NEW c \in Controllers, Fits(out, dev), os = "windows"
  PROVE  LET u == Updated(out, dev, c)
         IN  Fits(u.output, u.device) /\ Shows(u.output, u.device, c)
<1> DEFINE o == [out EXCEPT !.late = FALSE]
           s == MapToXbox(out.profile, c)
           d == ToXGamepad(s)
<1>1. os # "linux" /\ os # "macos"
  OBVIOUS
<1>2. Updated(out, dev, c) = [output |-> o, device |-> d]
  BY Zenon, <1>1 DEF Updated
<1>3. o \in Outputs /\ o.profile = out.profile
  BY DEF Fits, Outputs
<1>4. s \in Frames
  BY Zenon, PadFits
<1> HIDE DEF s
<1>5. d = Published(s)
  BY Zenon, <1>1 DEF Published, ToXGamepad
<1>6. d \in Devices
  BY Zenon, <1>4, <1>5, PublishedParts
<1> HIDE DEF o, d
<1>7. Fits(o, d)
  BY Zenon, <1>1, <1>3, <1>6 DEF Fits
<1>8. Shows(o, d, c)
  BY Zenon, <1>1, <1>3, <1>5 DEF Shows, s
<1> QED
  BY <1>2, <1>7, <1>8

LEMMA UpdatedLinux ==
  ASSUME NEW out, NEW dev, NEW c \in Controllers, Fits(out, dev), os = "linux"
  PROVE  LET u == Updated(out, dev, c)
         IN  Fits(u.output, u.device) /\ Shows(u.output, u.device, c)
<1> DEFINE o == [out EXCEPT !.late = FALSE]
           s == MapToXbox(out.profile, c)
           d == Emitted(dev, XboxToEvents(s))
<1>1. os # "windows" /\ os # "macos"
  OBVIOUS
<1>2. Updated(out, dev, c) = [output |-> o, device |-> d]
  BY Zenon, <1>1 DEF Updated
<1>3. o \in Outputs /\ o.profile = out.profile
  BY DEF Fits, Outputs
<1>4. s \in Frames
  BY Zenon, PadFits
<1> HIDE DEF s
<1>5. d = Published(s)
  <2>1. s.pressed \subseteq DOMAIN EvdevKey
    BY <1>4 DEF Frames
  <2>2. dev.held \subseteq EvdevKeys
    BY Zenon DEF Fits
  <2>3. d.held = {EvdevKey[k] : k \in s.pressed}
    BY Zenon, <2>1, <2>2, UinputShowsFrame
  <2>4. d = [held |-> d.held, axes |-> Axes(s)]
    BY DEF Emitted, XboxToEvents
  <2> HIDE DEF d
  <2> QED
    BY Zenon, <2>3, <2>4 DEF Published
<1>6. d \in Devices /\ d.held \subseteq EvdevKeys
  BY Zenon, <1>4, <1>5, PublishedParts
<1> HIDE DEF o, d
<1>7. Fits(o, d)
  BY Zenon, <1>1, <1>3, <1>6 DEF Fits
<1>8. Shows(o, d, c)
  BY Zenon, <1>1, <1>3, <1>5 DEF Shows, s
<1> QED
  BY <1>2, <1>7, <1>8

LEMMA UpdatedMacos ==
  ASSUME NEW out, NEW dev, NEW c \in Controllers, Fits(out, dev), os = "macos"
  PROVE  LET u == Updated(out, dev, c)
         IN  Fits(u.output, u.device) /\ Shows(u.output, u.device, c)
<1> DEFINE target == KeysFor(out.profile, c)
           o == [out EXCEPT !.pressed = target]
           d == [dev EXCEPT !.held = Applied(@, out.pressed, target)]
<1>1. os # "windows" /\ os # "linux"
  OBVIOUS
<1>2. Updated(out, dev, c) = [output |-> o, device |-> d]
  BY Zenon, <1>1 DEF Updated
<1>3. target \subseteq KeyCodes
  BY Zenon, KeysFit
<1> HIDE DEF target
<1>4. o \in Outputs /\ o.profile = out.profile /\ o.pressed = target
  BY <1>3 DEF Fits, Outputs
<1>5. dev = [held |-> out.pressed, axes |-> Idle.axes]
  BY Zenon DEF Fits
<1>6. Applied(dev.held, out.pressed, target) = target
  BY <1>5 DEF Applied
<1>7. d = [held |-> target, axes |-> Idle.axes]
  BY <1>5, <1>6
<1>8. target \subseteq HeldKeys
  BY <1>3 DEF HeldKeys
<1> HIDE DEF o, d
<1>9. d \in Devices
  BY <1>7, <1>8, IdleDevice DEF Devices
<1>10. Fits(o, d)
  BY Zenon, <1>1, <1>4, <1>7, <1>9 DEF Fits
<1>11. o.pressed = KeysFor(o.profile, c)
  BY Zenon, <1>4 DEF target
<1>12. Shows(o, d, c)
  BY <1>11 DEF Shows
<1> QED
  BY <1>2, <1>10, <1>12

LEMMA FailedUpdate ==
  ASSUME NEW out, NEW dev, NEW c, Fits(out, dev), os # "macos"
  PROVE  LET u == UpdateFails(out, dev)
         IN  Fits(u.output, u.device) /\ Shows(u.output, u.device, c)
<1> DEFINE o == [out EXCEPT !.late = TRUE]
<1>1. UpdateFails(out, dev) = [output |-> o, device |-> dev]
  BY Zenon DEF UpdateFails
<1>2. o \in Outputs /\ o.late
  BY DEF Fits, Outputs
<1> HIDE DEF o
<1>3. Fits(o, dev)
  BY Zenon, <1>2 DEF Fits
<1>4. Shows(o, dev, c)
  BY Zenon, <1>2 DEF Shows
<1> QED
  BY <1>1, <1>3, <1>4

-----------------------------------------------------------------------------
LEMMA HandleReportShows ==
  ASSUME PipelineTypes, OutputInv, HandleReport, PipelineTypes'
  PROVE  OutputInv'
<1> DEFINE r == ParseInput(report)
<1>1. PICK p \in Promotions :
        LET rt == AfterReport(p.rt, r)
        IN  /\ Handles(p, r)
            /\ \E u \in Updates(p, Decomposed(rt.controller, r)) :
                 output' = u.output /\ device' = u.device
  BY Zenon, Handling
<1> DEFINE rt == AfterReport(p.rt, r)
           c == Decomposed(rt.controller, r)
<1>2. PICK u \in Updates(p, c) : output' = u.output /\ device' = u.device
  BY Zenon, <1>1
<1>3. runtime' = [rt EXCEPT !.controller = c] /\ os' = os
  BY Zenon, <1>1 DEF Handles
<1> HIDE DEF r, rt, c
<1>4. runtime'.controller = c /\ c \in Controllers
  <2>1. runtime' \in Runtimes
    BY DEF PipelineTypes
  <2>2. runtime'.controller \in Controllers /\ "controller" \in DOMAIN runtime'
    BY <2>1 DEF Runtimes
  <2>3. "controller" \in DOMAIN rt
    BY <1>3, <2>2
  <2>4. runtime'.controller = c
    BY <1>3, <2>3
  <2> QED
    BY <2>2, <2>4
<1>5. os \in Systems /\ os \in {"windows", "linux", "macos"}
  BY PipelineConstants DEF PipelineTypes
<1>6. \/ p.out = output /\ p.dev = device
      \/ p.out = NewOutput(runtime.profile) /\ p.dev = Dropped
  BY Zenon, Promoted
<1>7. IF p.out = None THEN p.dev = Idle ELSE Fits(p.out, p.dev)
  <2>1. CASE p.out = output /\ p.dev = device
    BY Zenon, <2>1 DEF OutputInv
  <2>2. CASE p.out = NewOutput(runtime.profile) /\ p.dev = Dropped
    <3>1. runtime.profile \in Profiles
      BY DEF PipelineTypes, Runtimes
    <3>2. p.out # None /\ Fits(p.out, p.dev)
      BY Zenon, <1>5, <2>2, <3>1, NewFits, DroppedIsIdle
    <3> QED
      BY Zenon, <3>2
  <2> QED
    BY Zenon, <1>6, <2>1, <2>2
<1>8. CASE p.out = None
  <2>1. u = [output |-> None, device |-> Idle]
    BY Zenon, <1>2, <1>7, <1>8 DEF Updates
  <2>2. output' = None /\ device' = Idle
    BY <1>2, <2>1
  <2> QED
    BY Zenon, <2>2 DEF OutputInv, Idle, Axes, Frame
<1>9. CASE p.out # None
  <2>1. Fits(p.out, p.dev)
    BY Zenon, <1>7, <1>9
  <2>2. \/ u = Updated(p.out, p.dev, c)
        \/ os # "macos" /\ u = UpdateFails(p.out, p.dev)
    BY Zenon, <1>9 DEF Updates
  <2>3. Fits(u.output, u.device) /\ Shows(u.output, u.device, c)
    <3>1. CASE os # "macos" /\ u = UpdateFails(p.out, p.dev)
      BY Zenon, <2>1, <3>1, FailedUpdate
    <3>2. CASE u = Updated(p.out, p.dev, c) /\ os = "windows"
      BY Zenon, <1>4, <2>1, <3>2, UpdatedWindows
    <3>3. CASE u = Updated(p.out, p.dev, c) /\ os = "linux"
      BY Zenon, <1>4, <2>1, <3>3, UpdatedLinux
    <3>4. CASE u = Updated(p.out, p.dev, c) /\ os = "macos"
      BY Zenon, <1>4, <2>1, <3>4, UpdatedMacos
    <3> QED
      BY Zenon, <1>5, <2>2, <3>1, <3>2, <3>3, <3>4
  <2>4. output' # None
    BY <1>2, <2>3, NoneIsNothing DEF Fits
  <2> QED
    BY <1>2, <1>3, <1>4, <2>3, <2>4 DEF OutputInv, Fits, Shows, Published
<1> QED
  BY <1>8, <1>9

-----------------------------------------------------------------------------
LEMMA NoOutput ==
  ASSUME output' = None, device' = Idle
  PROVE  OutputInv'
BY Zenon DEF OutputInv, Idle, Axes, Frame

LEMMA SameOutput ==
  ASSUME OutputInv, output' = output, device' = device, os' = os,
         runtime'.controller = runtime.controller
  PROVE  OutputInv'
BY Zenon DEF OutputInv, Fits, Shows, Published, Idle, Axes, Frame

LEMMA OtherOutput ==
  ASSUME PipelineTypes, NEW profile \in Profiles, os' = os,
         output' = NewOutput(profile), device' = Idle
  PROVE  OutputInv'
<1>1. /\ NewOutput(profile) # None /\ Fits(NewOutput(profile), Idle)
      /\ Shows(NewOutput(profile), Idle, runtime'.controller)
  BY Zenon, NewFits DEF PipelineTypes
<1> QED
  BY Zenon, <1>1 DEF OutputInv, Fits, Shows, Published, Idle, Axes, Frame

LEMMA SetProfileShows ==
  ASSUME PipelineTypes, OutputInv, NEW profile \in Chosen, SetProfile(profile)
  PROVE  OutputInv'
<1>1. profile \in Profiles
  BY PipelineConstants
<1>2. os' = os /\ device' = Idle /\ (output' = None \/ output' = NewOutput(profile))
  BY Zenon, DroppedIsIdle DEF SetProfile
<1> QED
  BY Zenon, <1>1, <1>2, NoOutput, OtherOutput

LEMMA OutputStep ==
  ASSUME PipelineTypes, PipelineTypes', OutputInv, [PipelineNext]_pipelineVars
  PROVE  OutputInv'
<1>1. runtime \in Runtimes
  BY DEF PipelineTypes
<1>2. CASE HandleReport
  BY <1>2, HandleReportShows
<1>3. CASE \E p \in Chosen : SetProfile(p)
  BY Zenon, <1>3, SetProfileShows
<1>4. CASE TickOutputRetry
  <2>1. runtime.profile \in Profiles
    BY <1>1 DEF Runtimes
  <2>2. device = Idle /\ os' = os /\ output' = NewOutput(runtime.profile) /\ device' = device
    BY Zenon, <1>4 DEF TickOutputRetry, OutputInv
  <2> QED
    BY Zenon, <2>1, <2>2, OtherOutput
<1>5. CASE TryConnect
  <2>1. runtime'.controller = runtime.controller
    BY <1>1, <1>5 DEF TryConnect, Runtimes
  <2> QED
    BY Zenon, <1>5, <2>1, SameOutput DEF TryConnect
<1>6. CASE EndSession
  BY Zenon, <1>6, DroppedIsIdle, NoOutput DEF EndSession
<1>7. CASE TickKeepalive
  BY Zenon, <1>7, SameOutput DEF TickKeepalive
<1>8. CASE \E held \in Holds, accel \in Motions, ext \in Plays(wiimote.plugged) :
             Play(held, accel, ext)
  BY Zenon, <1>8, SameOutput DEF Play
<1>9. CASE \E x \in Pluggable \cup {"None"} : Plug(x)
  BY Zenon, <1>9, SameOutput DEF Plug
<1>10. CASE UNCHANGED pipelineVars
  BY Zenon, <1>10, SameOutput DEF pipelineVars
<1> QED
  BY Zenon, <1>2, <1>3, <1>4, <1>5, <1>6, <1>7, <1>8, <1>9, <1>10 DEF PipelineNext

(* Whatever the platform, its device is idle without an Output and shows   *)
(* the controller with one, from the first update that did not fail.       *)
THEOREM OutputInvHolds == PipelineSpec => []OutputInv
<1>1. PipelineInit => OutputInv
  BY Zenon DEF PipelineInit, OutputInv
<1>2. PipelineTypes /\ PipelineTypes' /\ OutputInv /\ [PipelineNext]_pipelineVars => OutputInv'
  BY OutputStep
<1> QED
  BY <1>1, <1>2, FlightInvHolds, PTL DEF PipelineSpec

(* Every variable has its type; no axis leaves the range uinput declares   *)
(* and no whammy reading that of five bits.                                *)
THEOREM PipelineTypesHold == PipelineSpec => []PipelineTypeOK
<1>1. PipelineTypes /\ OutputInv => PipelineTypeOK
  <2> SUFFICES ASSUME PipelineTypes, OutputInv PROVE PipelineTypeOK
    OBVIOUS
  <2>1. os \in Systems /\ link \in {"down", "up", "closing"} /\ runtime \in Runtimes
    BY DEF PipelineTypes
  <2>2. /\ runtime.pending \in BOOLEAN /\ runtime.connected \in BOOLEAN
        /\ runtime.ext_phase \in Phases /\ runtime.whammy_baseline \in (0..31) \cup {None}
        /\ runtime.profile \in Profiles /\ runtime.output_retry_at \in BOOLEAN
    BY <2>1 DEF Runtimes
  <2>3. runtime.controller \in Controllers
    BY <2>1 DEF Runtimes
  <2>4. runtime.controller.buttons \subseteq Buttons /\ runtime.controller.ext \in Exts
    BY <2>3 DEF Controllers
  <2>5. runtime.controller.ext.kind = "Guitar" => runtime.controller.ext.whammy \in 0..31
    BY <2>4, GuitarExt
  <2>6. device \in Devices
    BY Zenon, IdleDevice DEF OutputInv, Fits
  <2>7. device.axes \in PadAxes
    BY <2>6 DEF Devices
  <2>8. /\ \A a \in {"ABS_X", "ABS_Y", "ABS_RX", "ABS_RY"} : device.axes[a] \in AxisRange
        /\ \A a \in {"ABS_Z", "ABS_RZ"} : device.axes[a] \in Byte
    BY <2>7 DEF PadAxes
  <2> QED
    BY <2>1, <2>2, <2>4, <2>5, <2>8 DEF PipelineTypeOK
<1> QED
  BY <1>1, FlightInvHolds, OutputInvHolds, PTL

-----------------------------------------------------------------------------
(* At rest.                                                                *)

(* The bits that a report leaves out are not missed in the dead zone.      *)
LEMMA FlatIsFlat ==
  ASSUME NEW n \in 0..1023
  PROVE  /\ TiltToStick(n) = 0 <=> n \in 482..542
         /\ TiltToStick(n) = 0 => TiltToStick(2 * (n \div 2)) = 0
<1>1. ASSUME NEW m \in 0..1023 PROVE TiltToStick(m) = 0 <=> m \in 482..542
  <2> DEFINE d == m - 512
             q == (d - 30) * 32767
             k == (-d - 30) * 32767
  <2>1. CASE d > 30
    <3>1. q \in Nat /\ 190 * 172 <= q
      BY <2>1
    <3>2. q \div 190 >= 172
      BY <3>1
    <3>3. Quotient(q, 190) = q \div 190
      BY <3>1 DEF Quotient
    <3>4. TiltToStick(m) = Clamp(Quotient(q, 190))
      BY <2>1 DEF TiltToStick, Axis, Abs, ACCEL_CENTER, ACCEL_DEADZONE, ACCEL_RANGE, I16Max
    <3> QED
      BY <2>1, <3>2, <3>3, <3>4 DEF Clamp, I16Max
  <2>2. CASE d < -30
    <3>1. k \in Nat /\ 190 * 172 <= k
      BY <2>2
    <3>2. k \div 190 >= 172
      BY <3>1
    <3>3. (d + 30) * 32767 = -k
      OBVIOUS
    <3>4. Quotient(-k, 190) = -(k \div 190)
      BY <3>1 DEF Quotient
    <3>5. TiltToStick(m) = Clamp(Quotient((d + 30) * 32767, 190))
      BY <2>2 DEF TiltToStick, Axis, Abs, ACCEL_CENTER, ACCEL_DEADZONE, ACCEL_RANGE, I16Max
    <3> QED
      BY <2>2, <3>2, <3>3, <3>4, <3>5 DEF Clamp, I16Max
  <2>3. CASE d \in (-30)..30
    <3>1. TiltToStick(m) = 0
      BY <2>3 DEF TiltToStick, Axis, Abs, ACCEL_CENTER, ACCEL_DEADZONE, ACCEL_RANGE, I16Max,
        Clamp, Quotient
    <3> QED
      BY <2>3, <3>1
  <2> QED
    BY <2>1, <2>2, <2>3
<1>2. 2 * (n \div 2) \in 0..1023 /\ (n \in 482..542 => 2 * (n \div 2) \in 482..542)
  OBVIOUS
<1> QED
  BY <1>1, <1>2

-----------------------------------------------------------------------------
LEMMA FlatReading ==
  ASSUME NEW a \in Readings, TiltToStick(a.x) = 0, TiltToStick(a.y) = 0
  PROVE  TiltToStick(Coarse(a).x) = 0 /\ TiltToStick(Coarse(a).y) = 0
<1>1. a.y \in 0..1023
  BY DEF Readings
<1> DEFINE y == 2 * (a.y \div 2)
           z == 2 * (a.z \div 2)
<1>2. TiltToStick(y) = 0
  BY Zenon, <1>1, FlatIsFlat
<1> HIDE DEF y, z
<1>3. Coarse(a) = [x |-> a.x, y |-> y, z |-> z]
  BY Zenon DEF Coarse, y, z
<1>4. Coarse(a).x = a.x /\ Coarse(a).y = y
  BY <1>3
<1> QED
  BY Zenon, <1>2, <1>4

LEMMA RestKept ==
  ASSUME NEW e \in Exts, NEW b, ExtAtRest(e)
  PROVE  ExtAtRest(Calibration(e, b))
<1> DEFINE c == Calibration(e, b)
<1>1. c.kind = e.kind /\ c.buttons = e.buttons /\ (e.kind # "Guitar" => c = e)
  BY Zenon, CalibrationParts
<1> HIDE DEF c
<1>2. CASE e.kind # "Guitar"
  BY Zenon, <1>1, <1>2 DEF c
<1>3. CASE e.kind = "Guitar"
  <2>1. e.buttons = {}
    BY <1>3 DEF ExtAtRest
  <2>2. c.kind \notin {"Nunchuk"} /\ c.buttons = {}
    BY <1>1, <1>3, <2>1
  <2>3. ExtAtRest(c)
    BY Zenon, <2>2 DEF ExtAtRest
  <2> QED
    BY Zenon, <2>3 DEF c
<1> QED
  BY Zenon, <1>2, <1>3

(* When nothing is held on the Wiimote, nothing is held in the game; and a *)
(* Wiimote that is known to lie flat pushes no stick.                      *)
THEOREM RestHolds == PipelineSpec => []RestIsNeutral
<1>1. PipelineTypes /\ FlightInv /\ OutputInv => RestIsNeutral
  <2> SUFFICES ASSUME PipelineTypes, FlightInv, OutputInv PROVE RestIsNeutral
    OBVIOUS
  <2>1. output = None => device = Idle
    BY Zenon DEF OutputInv
  <2>2. ASSUME Handled, output # None, wiimote.held = {}, ExtAtRest(told.ext)
        PROVE  \/ output.late
               \/ /\ device.held = {}
                  /\ device.axes.ABS_Z = 0 /\ device.axes.ABS_RZ = 0
                  /\ LiesFlat => device.axes.ABS_X = 0 /\ device.axes.ABS_Y = 0
    <3> DEFINE c == runtime.controller
               s == MapToXbox(output.profile, c)
    <3>1. /\ c.buttons = {} /\ ShowsAccel
          /\ c.ext = Calibration(told.ext, runtime.whammy_baseline)
      BY <2>2 DEF FlightInv, UpToDate, Shown, ShowsExt
    <3>2. c \in Controllers /\ told.ext \in Exts /\ told.accel \in Readings \cup {None}
      BY TypedParts DEF PipelineTypes
    <3>3. ExtAtRest(c.ext)
      BY Zenon, <2>2, <3>1, <3>2, RestKept
    <3>4. LiesFlat => TiltToStick(c.accel.x) = 0 /\ TiltToStick(c.accel.y) = 0
      <4> SUFFICES ASSUME LiesFlat
                   PROVE  TiltToStick(c.accel.x) = 0 /\ TiltToStick(c.accel.y) = 0
        OBVIOUS
      <4>1. /\ told.accel \in Readings
            /\ TiltToStick(told.accel.x) = 0 /\ TiltToStick(told.accel.y) = 0
        BY <3>2 DEF LiesFlat
      <4>2. c.accel = Coarse(told.accel)
        BY <3>1 DEF ShowsAccel, LiesFlat
      <4> QED
        BY Zenon, <4>1, <4>2, FlatReading
    <3>5. /\ Fits(output, device) /\ Shows(output, device, c)
      BY Zenon, <2>2 DEF OutputInv
    <3>6. s \in Frames /\ AtRest(s) /\ (LiesFlat => s.lx = 0 /\ s.ly = 0)
      BY Zenon, <3>1, <3>2, <3>3, <3>4, PadFits
    <3>7. KeysFor(output.profile, c) = {}
      BY Zenon, <3>1, <3>3, KeysFit
    <3> HIDE DEF c, s
    <3>8. CASE os = "macos"
      <4>1. output.pressed = {}
        BY <3>5, <3>7, <3>8 DEF Shows
      <4>2. device = [held |-> output.pressed, axes |-> Idle.axes]
        BY Zenon, <3>5, <3>8 DEF Fits
      <4> QED
        BY <4>1, <4>2, IdleDevice
    <3>9. CASE os # "macos" /\ device = Idle
      BY <3>9, IdleDevice
    <3>10. CASE os # "macos" /\ device = Published(s)
      <4>1. device.held = {} /\ device.axes = Axes(s)
        BY Zenon, <3>6, <3>10, PublishedParts DEF AtRest
      <4>2. /\ Axes(s).ABS_X = s.lx /\ Axes(s).ABS_Y = s.ly
            /\ Axes(s).ABS_Z = s.lt /\ Axes(s).ABS_RZ = s.rt
        BY DEF Axes
      <4> QED
        BY Zenon, <3>6, <4>1, <4>2 DEF AtRest
    <3>11. output.late \/ device = Idle \/ device = Published(s) \/ os = "macos"
      BY Zenon, <3>5 DEF Shows, s
    <3> QED
      BY Zenon, <3>8, <3>9, <3>10, <3>11
  <2> QED
    BY Zenon, <2>1, <2>2 DEF RestIsNeutral
<1> QED
  BY <1>1, FlightInvHolds, OutputInvHolds, PTL

=============================================================================
