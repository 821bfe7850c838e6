----------------------------- MODULE RemoteProofs -----------------------------
(***************************************************************************)
(* Theorems on RemoteLink, for any extensions, slots and lengths of the    *)
(* channels: what the daemon believes of a Wiimote, and what it makes of   *)
(* its reports, is right whatever crosses on the wire.                     *)
(***************************************************************************)
EXTENDS RemoteLink, TLAPS

(* The two channels: what is taken from one, and what is appended.         *)
LEMMA TailOf ==
  ASSUME NEW S, NEW q \in Seq(S), q # <<>>
  PROVE  /\ Tail(q) \in Seq(S)
         /\ Len(Tail(q)) = Len(q) - 1
         /\ Len(Tail(q)) \in Nat
         /\ Head(q) = q[1]
         /\ Head(q) \in S
         /\ \A i \in 1..Len(Tail(q)) : Tail(q)[i] = q[i + 1]
OBVIOUS

LEMMA ConcatOf ==
  ASSUME NEW S, NEW q \in Seq(S), NEW r \in Seq(S)
  PROVE  /\ q \o r \in Seq(S)
         /\ Len(q \o r) = Len(q) + Len(r)
         /\ \A i \in 1..Len(q) : (q \o r)[i] = q[i]
         /\ \A i \in 1..Len(r) : (q \o r)[Len(q) + i] = r[i]
OBVIOUS

LEMMA ConsOf ==
  ASSUME NEW S, NEW x \in S, NEW r \in Seq(S)
  PROVE  /\ <<x>> \o r \in Seq(S)
         /\ Len(<<x>> \o r) = Len(r) + 1
         /\ (<<x>> \o r)[1] = x
         /\ \A i \in 1..Len(r) : (<<x>> \o r)[i + 1] = r[i]
<1>1. <<x>> \in Seq(S) /\ Len(<<x>>) = 1 /\ <<x>>[1] = x
  OBVIOUS
<1>2. QED
  BY <1>1

-----------------------------------------------------------------------------
(* Types.                                                                  *)

LEMMA OneOf ==
  ASSUME NEW S, NEW x \in S
  PROVE  <<x>> \in Seq(S)
OBVIOUS

LEMMA ThreeOf ==
  ASSUME NEW S, NEW x \in S, NEW y \in S, NEW z \in S
  PROVE  <<x, y, z>> \in Seq(S)
OBVIOUS

LEMMA PayloadTypes ==
  /\ \A leds \in Slots \cup {None}, rumble \in BOOLEAN : SetLeds(leds, rumble) \in Payload
  /\ \A mode \in {49, 53} : SetReportingMode(mode) \in Payload
  /\ {RequestStatus, WriteRegister, ReadRegister} \subseteq Payload
BY DEF SetLeds, SetReportingMode, RequestStatus, WriteRegister, ReadRegister, Payload

LEMMA ListTypes ==
  /\ \A leds \in Slots \cup {None}, rumble \in BOOLEAN : <<SetLeds(leds, rumble)>> \in Seq(Payload)
  /\ \A mode \in {49, 53} : <<SetReportingMode(mode)>> \in Seq(Payload)
  /\ {<<>>, <<RequestStatus>>, <<WriteRegister>>, <<ReadRegister>>} \subseteq Seq(Payload)
<1>1. \A leds \in Slots \cup {None}, rumble \in BOOLEAN : <<SetLeds(leds, rumble)>> \in Seq(Payload)
  BY PayloadTypes, OneOf
<1>2. \A mode \in {49, 53} : <<SetReportingMode(mode)>> \in Seq(Payload)
  BY PayloadTypes, OneOf
<1>3. {<<RequestStatus>>, <<WriteRegister>>, <<ReadRegister>>} \subseteq Seq(Payload)
  BY PayloadTypes, OneOf
<1>4. QED
  BY <1>1, <1>2, <1>3

LEMMA GreetingType == Greeting \in Seq(Payload)
<1>1. 0 \in Slots
  BY RemoteConstants DEF Slots
<1>2. SetLeds(0, FALSE) \in Payload /\ SetReportingMode(49) \in Payload /\ RequestStatus \in Payload
  BY <1>1, PayloadTypes
<1>3. QED
  BY <1>2, ThreeOf DEF Greeting

LEMMA ReportTypes ==
  /\ \A w \in Wiimote : Status(w) \in Report
  /\ Lost \in Report
BY DEF Status, Lost, Report

LEMMA SessionTypes ==
  \A ext \in Extensions \cup {Unknown, None} : NewSession(ext) \in Runtime
BY DEF NewSession, Runtime, Phases

(* What a Wiimote is after a payload, and what it answers, has its type.   *)
LEMMA ObeyedType ==
  ASSUME NEW w \in Wiimote, NEW p \in Payload
  PROVE  Obeyed(w, p) \in Wiimote
<1> DEFINE stirred == [w EXCEPT !.motor = p.type = "SetLeds" /\ p.rumble]
<1>1. (p.type = "SetLeds" /\ p.rumble) \in BOOLEAN
  OBVIOUS
<1>2. stirred \in Wiimote
  BY <1>1 DEF Wiimote
<1>3. /\ p.type = "SetLeds" => p.leds \in Slots \cup {None}
      /\ p.type = "SetReportingMode" => p.mode \in {49, 53}
  BY DEF Payload
<1>4. (w.plugged # None) \in BOOLEAN
  OBVIOUS
<1> HIDE DEF stirred
<1>5. CASE p.type = "SetLeds"
  <2>1. Obeyed(w, p) = [stirred EXCEPT !.leds = p.leds]
    BY <1>5 DEF Obeyed, stirred
  <2>2. QED BY <1>2, <1>3, <1>5, <2>1 DEF Wiimote
<1>6. CASE p.type = "SetReportingMode"
  <2>1. Obeyed(w, p) = [stirred EXCEPT !.mode = p.mode]
    BY <1>6 DEF Obeyed, stirred
  <2>2. QED BY <1>2, <1>3, <1>6, <2>1 DEF Wiimote
<1>7. CASE p.type = "RequestStatus"
  <2>1. Obeyed(w, p) = [stirred EXCEPT !.mode = 48]
    BY <1>7 DEF Obeyed, stirred
  <2>2. QED BY <1>2, <2>1 DEF Wiimote
<1>8. CASE p.type = "WriteRegister"
  <2>1. Obeyed(w, p) = [stirred EXCEPT !.inited = w.plugged # None]
    BY <1>8 DEF Obeyed, stirred
  <2>2. QED BY <1>2, <1>4, <2>1 DEF Wiimote
<1>9. CASE p.type \notin {"SetLeds", "SetReportingMode", "RequestStatus", "WriteRegister"}
  BY <1>2, <1>9 DEF Obeyed, stirred
<1>10. QED
  BY <1>5, <1>6, <1>7, <1>8, <1>9

(* So have its answers to a list of payloads.                              *)
LEMMA RepliesType ==
  ASSUME NEW w \in Wiimote, NEW p \in Payload, w.inited => w.plugged # None
  PROVE  Replies(w, p) \in Seq(Report)
<1>1. (IF w.inited THEN w.plugged ELSE Unknown) \in Extensions \cup {Unknown}
  BY DEF Wiimote
<1>2. CASE p.type = "RequestStatus"
  BY <1>2, ReportTypes DEF Replies
<1>3. CASE p.type = "WriteRegister"
  <2>1. [type |-> "Ack", ok |-> w.plugged # None] \in Report
    BY DEF Report
  <2>2. QED BY <1>3, <2>1 DEF Replies
<1>4. CASE p.type = "ReadRegister"
  <2>1. [type |-> "ReadResponse", ok |-> w.plugged # None,
         id |-> IF w.inited THEN w.plugged ELSE Unknown] \in Report
    BY <1>1 DEF Report
  <2>2. QED BY <1>4, <2>1 DEF Replies
<1>5. CASE p.type \notin {"RequestStatus", "WriteRegister", "ReadRegister"}
  BY <1>5 DEF Replies
<1>6. QED
  BY <1>2, <1>3, <1>4, <1>5

(* Only an extension that is plugged in is initialised: without that, a    *)
(* read could be answered with the name of no extension.                   *)
LinkTypes == LinkTypeOK /\ (wiimote.inited => wiimote.plugged # None)

LEMMA SendType ==
  ASSUME LinkTypeOK, NEW open, NEW out \in Seq(Payload), Send(open, out)
  PROVE  writes' \in Seq(Payload)
BY DEF LinkTypeOK, Send

LEMMA ClosedType ==
  ASSUME LinkTypeOK, CloseHandle
  PROVE  handle' \in BOOLEAN /\ thread' \in {"serving", "closing", "returned"}
BY DEF LinkTypeOK, CloseHandle

(* What a handler of a report may be given to answer.                      *)
LEMMA PromotionTypes ==
  ASSUME LinkTypeOK, NEW promotion \in Promotions
  PROVE  /\ promotion.runtime \in Runtime
         /\ promotion.open \in BOOLEAN
         /\ promotion.out \in Seq(Payload)
<1>1. <<>> \in Seq(Payload)
  OBVIOUS
<1>2. CASE promotion = NotPending
  BY <1>1, <1>2 DEF NotPending, LinkTypeOK
<1>3. CASE promotion = Refused
  BY <1>1, <1>3 DEF Refused, LinkTypeOK, Runtime
<1>4. ASSUME NEW s \in Slots, promotion = Promoted(s)
      PROVE  /\ promotion.runtime \in Runtime
             /\ promotion.open \in BOOLEAN
             /\ promotion.out \in Seq(Payload)
  <2>1. <<SetLeds(s, FALSE)>> \in Seq(Payload)
    BY ListTypes
  <2>2. QED BY <2>1, <1>4 DEF Promoted, LinkTypeOK, Runtime
<1>5. QED
  BY <1>2, <1>3, <1>4 DEF Promotions

(* Handling a report keeps the types of all it touches.                    *)
LEMMA AnswerTypes ==
  ASSUME LinkTypeOK, NEW promotion \in Promotions,
         NEW phase \in Phases, NEW ext \in Extensions \cup {Unknown, None},
         NEW out \in Seq(Payload), Answer(promotion, phase, ext, out)
  PROVE  /\ runtime' \in Runtime
         /\ handle' \in BOOLEAN
         /\ linked' = linked
         /\ thread' \in {"serving", "closing", "returned"}
         /\ writes' \in Seq(Payload)
<1>1. runtime' \in Runtime /\ handle' \in BOOLEAN
  BY PromotionTypes DEF Answer, Runtime
<1>2. thread' \in {"serving", "closing", "returned"}
  BY DEF Answer, LinkTypeOK
<1>3. promotion.out \o out \in Seq(Payload)
  BY PromotionTypes
<1>4. writes' \in Seq(Payload)
  BY <1>3, SendType DEF Answer
<1>5. QED
  BY <1>1, <1>2, <1>4 DEF Answer

LEMMA ReceiveTypes ==
  ASSUME LinkTypeOK, NEW type, Receive(type)
  PROVE  /\ reports' \in Seq(Report)
         /\ wiimote' = wiimote
         /\ Head(reports) \in Report
         /\ Head(reports).type = type
BY TailOf DEF LinkTypeOK, Receive

LEMMA HeardTypes ==
  ASSUME LinkTypeOK, NEW sent \in Seq(Report), Heard(sent)
  PROVE  reports' \in Seq(Report)
BY DEF LinkTypeOK, Heard

(* The handlers of reports.                                                *)
LEMMA ReportHandlersKeepTypes ==
  ASSUME LinkTypes, HandleReport
  PROVE  LinkTypes'
<1> USE DEF LinkTypes
<1>1. runtime \in Runtime /\ persist_dirty \in BOOLEAN /\ linked \in BOOLEAN
  BY DEF LinkTypeOK
<1>2. CASE HandleStatus
  <2> DEFINE present == Head(reports).extension_connected
             phase == PhaseAfterStatus(runtime.ext_phase, present)
             out == Handshake(present) \o ModeAfterStatus(phase)
             ext == IF present THEN runtime.extension ELSE None
  <2>1. phase \in Phases
    BY <1>1 DEF PhaseAfterStatus, Phases, Runtime
  <2>2. WantedMode(phase) \in {49, 53}
    BY DEF WantedMode
  <2>3. ModeAfterStatus(phase) \in Seq(Payload) /\ Handshake(present) \in Seq(Payload)
    BY <2>2, ListTypes DEF ModeAfterStatus, Handshake
  <2>4. out \in Seq(Payload)
    BY <2>3
  <2>5. ext \in Extensions \cup {Unknown, None}
    BY <1>1 DEF Runtime
  <2>6. PICK promotion \in Promotions : Answer(promotion, phase, ext, out)
    BY <1>2 DEF HandleStatus
  <2>7. persist_dirty' \in BOOLEAN
    BY <1>2 DEF HandleStatus
  <2> HIDE DEF phase, out, ext, present
  <2>8. QED
    BY <1>1, <1>2, <2>1, <2>4, <2>5, <2>6, <2>7, AnswerTypes, ReceiveTypes
       DEF HandleStatus, LinkTypeOK
<1>3. CASE HandleAck
  <2> DEFINE awaited == Head(reports).ok /\ runtime.ext_phase = "InitSent"
             phase == IF awaited THEN "ReadingId" ELSE runtime.ext_phase
             out == IF awaited THEN <<ReadRegister>> ELSE <<>>
  <2>1. phase \in Phases /\ runtime.extension \in Extensions \cup {Unknown, None}
    BY <1>1 DEF Phases, Runtime
  <2>2. out \in Seq(Payload)
    BY ListTypes
  <2>3. PICK promotion \in Promotions : Answer(promotion, phase, runtime.extension, out)
    BY <1>3 DEF HandleAck
  <2> HIDE DEF phase, out
  <2>4. QED
    BY <1>1, <1>3, <2>1, <2>2, <2>3, AnswerTypes, ReceiveTypes DEF HandleAck, LinkTypeOK
<1>4. CASE HandleReadResponse
  <2> DEFINE awaited == Head(reports).ok /\ AwaitsId
             phase == IF awaited THEN Head(reports).id ELSE runtime.ext_phase
             ext == IF awaited THEN Head(reports).id ELSE runtime.extension
             out == IF awaited THEN <<SetReportingMode(53)>> ELSE <<>>
  <2>1. Head(reports).id \in Extensions \cup {Unknown}
    BY <1>4, ReceiveTypes DEF HandleReadResponse, Report
  <2>2. phase \in Phases /\ ext \in Extensions \cup {Unknown, None}
    BY <1>1, <2>1 DEF Phases, Runtime
  <2>3. out \in Seq(Payload)
    BY ListTypes
  <2>4. PICK promotion \in Promotions : Answer(promotion, phase, ext, out)
    BY <1>4 DEF HandleReadResponse
  <2>5. persist_dirty' \in BOOLEAN
    BY <1>4 DEF HandleReadResponse
  <2> HIDE DEF phase, ext, out
  <2>6. QED
    BY <1>1, <1>4, <2>2, <2>3, <2>4, <2>5, AnswerTypes, ReceiveTypes
       DEF HandleReadResponse, LinkTypeOK
<1>5. CASE HandleInput
  <2>1. runtime.ext_phase \in Phases /\ runtime.extension \in Extensions \cup {Unknown, None}
    BY <1>1 DEF Runtime
  <2>2. <<>> \in Seq(Payload)
    OBVIOUS
  <2>3. PICK promotion \in Promotions :
          Answer(promotion, runtime.ext_phase, runtime.extension, <<>>)
    BY <1>5 DEF HandleInput
  <2>4. QED
    BY <1>1, <1>5, <2>1, <2>2, <2>3, AnswerTypes, ReceiveTypes DEF HandleInput, LinkTypeOK
<1>6. CASE HandleLost
  <2>1. runtime' \in Runtime
    BY <1>1, <1>6, SessionTypes DEF HandleLost, ResetSession, Runtime
  <2>2. QED
    BY <1>1, <1>6, <2>1, ClosedType, ReceiveTypes DEF HandleLost, LinkTypeOK
<1>7. QED
  BY <1>2, <1>3, <1>4, <1>5, <1>6 DEF HandleReport

(* The commands, the ticks and the flush.                                  *)
CommandOrTick ==
  Open \/ OpenAgain \/ HandleDisconnect \/ HandleIdentify \/ TickRumbleOff \/ TickKeepalive
    \/ Flush

(* Commands and ticks keep the types.                                      *)
LEMMA CommandsKeepTypes ==
  ASSUME LinkTypes, CommandOrTick
  PROVE  LinkTypes'
<1> USE DEF LinkTypes
<1>1. runtime \in Runtime /\ runtime.slot \in Slots \cup {None}
  BY DEF LinkTypeOK, Runtime
<1>2. CASE Open
  BY <1>1, <1>2, GreetingType DEF Open, LinkTypeOK, Runtime, Wiimote
<1>3. CASE OpenAgain
  BY <1>1, <1>3, GreetingType, SendType DEF OpenAgain, LinkTypeOK, Runtime
<1>4. CASE HandleDisconnect
  <2>1. <<SetLeds(None, FALSE)>> \in Seq(Payload)
    BY ListTypes
  <2>2. runtime' \in Runtime
    BY <1>1, <1>4, SessionTypes DEF HandleDisconnect, ResetSession, Runtime
  <2>3. QED
    BY <1>4, <2>1, <2>2, SendType, ClosedType DEF HandleDisconnect, LinkTypeOK
<1>5. CASE HandleIdentify
  <2>1. <<SetLeds(runtime.slot, TRUE)>> \in Seq(Payload)
    BY <1>1, ListTypes
  <2>2. QED
    BY <1>1, <1>5, <2>1, SendType DEF HandleIdentify, LinkTypeOK, Runtime
<1>6. CASE TickRumbleOff
  <2>1. <<SetLeds(runtime.slot, FALSE)>> \in Seq(Payload)
    BY <1>1, ListTypes
  <2>2. QED
    BY <1>1, <1>6, <2>1, SendType DEF TickRumbleOff, LinkTypeOK, Runtime
<1>7. CASE TickKeepalive
  <2>1. <<RequestStatus>> \in Seq(Payload)
    BY ListTypes
  <2>2. QED
    BY <1>7, <2>1, SendType DEF TickKeepalive, LinkTypeOK
<1>8. CASE Flush
  BY <1>8 DEF Flush, LinkTypeOK
<1>9. QED
  BY <1>2, <1>3, <1>4, <1>5, <1>6, <1>7, <1>8 DEF CommandOrTick

(* The I/O thread, the Wiimote and its owner.                              *)
OutsideStep ==
  \/ Deliver \/ ThreadReturns \/ SwitchOn \/ SwitchOff \/ SendInput
  \/ \E ext \in Extensions \cup {None} : Plug(ext)

(* So do the wire, the I/O thread and the owner.                           *)
LEMMA OutsideKeepsTypes ==
  ASSUME LinkTypes, OutsideStep
  PROVE  LinkTypes'
<1> USE DEF LinkTypes
<1>1. wiimote \in Wiimote /\ writes \in Seq(Payload) /\ reports \in Seq(Report)
  BY DEF LinkTypeOK
<1>2. CASE Deliver
  <2>1. Head(writes) \in Payload /\ Tail(writes) \in Seq(Payload)
    BY <1>1, <1>2, TailOf DEF Deliver
  <2>2. wiimote' \in Wiimote /\ reports' \in Seq(Report)
    BY <1>1, <1>2, <2>1, ObeyedType, RepliesType, HeardTypes DEF Deliver
  <2>3. wiimote'.plugged = wiimote.plugged
    <3>1. wiimote' = Obeyed(wiimote, Head(writes))
      BY <1>2 DEF Deliver
    <3>2. QED BY <3>1, <1>1 DEF Obeyed, Wiimote
  <2>4. wiimote'.inited => wiimote'.plugged # None
    BY <1>1, <1>2, <2>1, <2>3 DEF Deliver, Obeyed, Wiimote
  <2>5. QED
    BY <1>2, <2>1, <2>2, <2>4 DEF Deliver, LinkTypeOK
<1>3. CASE ThreadReturns
  BY <1>1, <1>3, ReportTypes DEF ThreadReturns, LinkTypeOK
<1>4. CASE SwitchOn
  BY <1>1, <1>4 DEF SwitchOn, LinkTypeOK, Wiimote
<1>5. CASE SwitchOff
  BY <1>1, <1>5 DEF SwitchOff, PoweredOff, LinkTypeOK, Wiimote
<1>6. CASE SendInput
  <2> DEFINE sent == IF wiimote.mode = 53
                       THEN <<[type |-> "ButtonsAccelExt", ext |-> wiimote.plugged]>>
                       ELSE <<[type |-> "Buttons"]>>
  <2>1. sent \in Seq(Report)
    <3>1. /\ [type |-> "ButtonsAccelExt", ext |-> wiimote.plugged] \in Report
          /\ [type |-> "Buttons"] \in Report
      BY <1>1 DEF Report, Wiimote
    <3>2. QED BY <3>1
  <2>2. Heard(sent)
    BY <1>6 DEF SendInput
  <2> HIDE DEF sent
  <2>3. QED
    BY <1>6, <2>1, <2>2, HeardTypes DEF SendInput, LinkTypeOK
<1>7. ASSUME NEW ext \in Extensions \cup {None}, Plug(ext)
      PROVE  LinkTypes'
  <2>1. wiimote' \in Wiimote /\ ~wiimote'.inited
    BY <1>1, <1>7 DEF Plug, Wiimote
  <2>2. <<Status(wiimote')>> \in Seq(Report)
    BY <2>1, ReportTypes
  <2>3. reports' \in Seq(Report)
    BY <1>1, <1>7, <2>2, HeardTypes DEF Plug
  <2>4. QED
    BY <1>7, <2>1, <2>3 DEF Plug, LinkTypeOK
<1>8. QED
  BY <1>2, <1>3, <1>4, <1>5, <1>6, <1>7 DEF OutsideStep

(* Every step is one of these kinds.                                       *)
LEMMA StepKinds ==
  ASSUME [LinkNext]_linkVars
  PROVE  CommandOrTick \/ HandleReport \/ OutsideStep \/ UNCHANGED linkVars
BY DEF LinkNext, CommandOrTick, HandleReport, OutsideStep

(* Every variable of the link keeps its type.                              *)
THEOREM LinkTypesHold == LinkSpec => [](LinkTypeOK /\ (wiimote.inited => wiimote.plugged # None))
<1>1. LinkInit => LinkTypes
  <2> SUFFICES ASSUME LinkInit PROVE LinkTypes
    OBVIOUS
  <2>1. runtime \in Runtime
    BY SessionTypes DEF LinkInit
  <2>2. wiimote \in Wiimote /\ ~wiimote.inited
    BY DEF LinkInit, PoweredOff, Wiimote
  <2>3. writes \in Seq(Payload) /\ reports \in Seq(Report)
    BY DEF LinkInit
  <2>4. QED
    BY <2>1, <2>2, <2>3 DEF LinkInit, LinkTypes, LinkTypeOK
<1>2. LinkTypes /\ [LinkNext]_linkVars => LinkTypes'
  <2>1. LinkTypes /\ UNCHANGED linkVars => LinkTypes'
    BY DEF LinkTypes, LinkTypeOK, linkVars
  <2>2. QED
    BY <2>1, StepKinds, ReportHandlersKeepTypes, CommandsKeepTypes, OutsideKeepsTypes
<1>3. QED
  BY <1>1, <1>2, PTL DEF LinkSpec, LinkTypes

-----------------------------------------------------------------------------
(* The session as the daemon and its thread share it: reports end with the *)
(* DeviceLost of the thread, and only a reset session can be opened again. *)
LinkShape ==
  /\ thread = "serving" => handle
  /\ handle => thread # "closing"
  /\ thread = "returned" => writes = <<>>
  /\ linked => wiimote.on
  /\ \A i \in 1..Len(reports) :
       reports[i].type = "lost" => i = Len(reports) /\ thread = "returned"
  /\ thread = "returned" /\ reports # <<>> => reports[Len(reports)].type = "lost"
  /\ thread = "returned" /\ reports = <<>> =>
       runtime = NewSession(runtime.extension) /\ ~handle

(* What the handlers of reports have in common: the phase the handshake is *)
(* in after report r, and what it answers.                                 *)
Acks(r) == r.type = "Ack" /\ r.ok
Names(r) == r.type = "ReadResponse" /\ r.ok

PhaseAfter(r) ==
  CASE r.type = "Status" -> PhaseAfterStatus(runtime.ext_phase, r.extension_connected)
    [] Acks(r) /\ runtime.ext_phase = "InitSent" -> "ReadingId"
    [] Names(r) /\ runtime.ext_phase = "ReadingId" -> r.id
    [] OTHER -> runtime.ext_phase

OutAfter(r) ==
  CASE r.type = "Status" -> Handshake(r.extension_connected) \o ModeAfterStatus(PhaseAfter(r))
    [] Acks(r) /\ runtime.ext_phase = "InitSent" -> <<ReadRegister>>
    [] Names(r) /\ runtime.ext_phase = "ReadingId" -> <<SetReportingMode(53)>>
    [] OTHER -> <<>>

Handled ==
  /\ reports # <<>>
  /\ reports[1].type # "lost"
  /\ reports' = Tail(reports)
  /\ wiimote' = wiimote
  /\ \E promotion \in Promotions, ext \in Extensions \cup {Unknown, None} :
       Answer(promotion, PhaseAfter(reports[1]), ext, OutAfter(reports[1]))

(* A handled report is the first of the queue, and is taken from it.       *)
LEMMA HandledReports ==
  ASSUME LinkTypes, HandleStatus \/ HandleAck \/ HandleReadResponse \/ HandleInput
  PROVE  Handled
<1> DEFINE r == Head(reports)
<1>1. /\ reports # <<>> /\ reports' = Tail(reports) /\ wiimote' = wiimote
      /\ r = reports[1] /\ r \in Report
      /\ r.type \in {"Status", "Ack", "ReadResponse", "Buttons", "ButtonsAccelExt"}
  BY TailOf DEF HandleStatus, HandleAck, HandleReadResponse, HandleInput, Receive, LinkTypes,
                LinkTypeOK
<1>2. runtime.extension \in Extensions \cup {Unknown, None}
  BY DEF LinkTypes, LinkTypeOK, Runtime
<1>3. r.type = "ReadResponse" => r.id \in Extensions \cup {Unknown}
  BY <1>1 DEF Report
<1> HIDE DEF r
<1>4. CASE HandleStatus
  <2>1. r.type = "Status"
    BY <1>4 DEF HandleStatus, Receive, r
  <2>2. \E promotion \in Promotions :
          Answer(promotion, PhaseAfter(r), IF r.extension_connected THEN runtime.extension ELSE None,
                 OutAfter(r))
    BY <1>4, <2>1 DEF HandleStatus, PhaseAfter, OutAfter, Acks, Names, r
  <2>3. (IF r.extension_connected THEN runtime.extension ELSE None)
          \in Extensions \cup {Unknown, None}
    BY <1>2
  <2>4. QED
    BY <1>1, <2>1, <2>2, <2>3 DEF Handled
<1>5. CASE HandleAck
  <2>1. r.type = "Ack"
    BY <1>5 DEF HandleAck, Receive, r
  <2>2. \E promotion \in Promotions :
          Answer(promotion, PhaseAfter(r), runtime.extension, OutAfter(r))
    BY <1>5, <2>1 DEF HandleAck, PhaseAfter, OutAfter, Acks, Names, r
  <2>3. QED
    BY <1>1, <1>2, <2>1, <2>2 DEF Handled
<1>6. CASE HandleReadResponse
  <2>1. r.type = "ReadResponse"
    BY <1>6 DEF HandleReadResponse, Receive, r
  <2>2. \E promotion \in Promotions :
          Answer(promotion, PhaseAfter(r),
                 IF r.ok /\ AwaitsId THEN r.id ELSE runtime.extension, OutAfter(r))
    BY <1>6, <2>1 DEF HandleReadResponse, PhaseAfter, OutAfter, AwaitsId, Acks, Names, r
  <2>3. (IF r.ok /\ AwaitsId THEN r.id ELSE runtime.extension) \in Extensions \cup {Unknown, None}
    BY <1>2, <1>3, <2>1
  <2>4. QED
    BY <1>1, <2>1, <2>2, <2>3 DEF Handled
<1>7. CASE HandleInput
  <2>1. r.type \in {"Buttons", "ButtonsAccelExt"}
    BY <1>7 DEF HandleInput, Receive, r
  <2>2. PhaseAfter(r) = runtime.ext_phase /\ OutAfter(r) = <<>>
    BY <2>1 DEF PhaseAfter, OutAfter, Acks, Names
  <2>3. QED
    BY <1>1, <1>2, <1>7, <2>1, <2>2 DEF HandleInput, Handled
<1>8. QED
  BY <1>4, <1>5, <1>6, <1>7

(* The answers have their type, and switch no LEDs.                        *)
LEMMA OutTypes ==
  ASSUME NEW r
  PROVE  /\ OutAfter(r) \in Seq(Payload)
         /\ \A i \in 1..Len(OutAfter(r)) : OutAfter(r)[i].type # "SetLeds"
<1>1. CASE r.type = "Status"
  <2> DEFINE hand == Handshake(r.extension_connected)
             mode == ModeAfterStatus(PhaseAfter(r))
  <2>1. /\ hand \in Seq(Payload)
        /\ \A i \in 1..Len(hand) : hand[i].type # "SetLeds"
    BY ListTypes DEF Handshake, WriteRegister
  <2>2. /\ mode \in Seq(Payload)
        /\ \A i \in 1..Len(mode) : mode[i].type # "SetLeds"
    BY ListTypes DEF ModeAfterStatus, WantedMode, SetReportingMode
  <2>3. OutAfter(r) = hand \o mode
    BY <1>1 DEF OutAfter, Acks, Names
  <2> HIDE DEF hand, mode
  <2>4. QED
    BY <2>1, <2>2, <2>3
<1>2. CASE r.type # "Status"
  BY <1>2, ListTypes DEF OutAfter, ReadRegister, SetReportingMode, Acks, Names
<1>3. QED
  BY <1>1, <1>2

(* A promotion writes the LEDs before it answers.                          *)
WithLeds(s, out) == <<SetLeds(s, FALSE)>> \o out

LEMMA LedsFirst ==
  ASSUME NEW s \in Slots, NEW out \in Seq(Payload)
  PROVE  /\ WithLeds(s, out) \in Seq(Payload)
         /\ WithLeds(s, out) # <<>>
         /\ WithLeds(s, out)[1] = SetLeds(s, FALSE)
         /\ \A i \in 1..Len(WithLeds(s, out)) :
              i = 1 \/ (i - 1 \in 1..Len(out) /\ WithLeds(s, out)[i] = out[i - 1])
<1> DEFINE x == SetLeds(s, FALSE)
<1>1. x \in Payload
  BY PayloadTypes
<1>2. WithLeds(s, out) = <<x>> \o out
  BY DEF WithLeds
<1> HIDE DEF x
<1>3. /\ <<x>> \o out \in Seq(Payload)
      /\ Len(<<x>> \o out) = Len(out) + 1
      /\ (<<x>> \o out)[1] = x
      /\ \A i \in 1..Len(out) : (<<x>> \o out)[i + 1] = out[i]
  BY <1>1, ConsOf
<1> DEFINE all == WithLeds(s, out)
<1>4. /\ all \in Seq(Payload)
      /\ Len(all) = Len(out) + 1
      /\ all[1] = x
      /\ \A i \in 1..Len(out) : all[i + 1] = out[i]
  BY <1>2, <1>3
<1> HIDE DEF all
<1>5. ASSUME NEW i \in 1..Len(all), i # 1
      PROVE  i - 1 \in 1..Len(out) /\ all[i] = out[i - 1]
  <2>1. i - 1 \in 1..Len(out)
    BY <1>4, <1>5
  <2>2. all[(i - 1) + 1] = out[i - 1]
    BY <1>4, <2>1
  <2>3. (i - 1) + 1 = i
    BY <1>4
  <2>4. QED
    BY <2>1, <2>2, <2>3
<1>6. all # <<>>
  BY <1>4
<1>7. QED
  BY <1>4, <1>5, <1>6 DEF all, x

(* What an answer does to the session, by what the promotion was.          *)
LEMMA AnswerShape ==
  ASSUME LinkTypes, thread = "serving" => handle, handle => thread # "closing",
         NEW promotion \in Promotions, NEW phase, NEW ext, NEW out \in Seq(Payload),
         Answer(promotion, phase, ext, out)
  PROVE  /\ linked' = linked
         /\ runtime'.ext_phase = phase
         /\ runtime'.rumble_off_at = runtime.rumble_off_at
         /\ ~runtime'.pending
         /\ \/ /\ ~runtime.pending
               /\ UNCHANGED <<handle, thread>>
               /\ writes' = IF thread = "serving" THEN writes \o out ELSE writes
               /\ runtime'.slot = runtime.slot
            \/ /\ ~handle'
               /\ thread' = IF thread = "serving" THEN "closing" ELSE thread
               /\ writes' = writes
            \/ /\ UNCHANGED <<handle, thread>>
               /\ \E s \in Slots :
                    /\ runtime'.slot = s
                    /\ writes' = IF thread = "serving" THEN writes \o WithLeds(s, out)
                                 ELSE writes
<1>1. /\ runtime' = [promotion.runtime EXCEPT !.ext_phase = phase, !.extension = ext]
      /\ handle' = promotion.open
      /\ thread' = IF thread = "serving" /\ ~promotion.open THEN "closing" ELSE thread
      /\ writes' = IF promotion.open /\ thread = "serving" THEN writes \o (promotion.out \o out)
                   ELSE writes
      /\ linked' = linked
  BY DEF Answer, Send
<1>2. runtime \in Runtime /\ handle \in BOOLEAN
  BY DEF LinkTypes, LinkTypeOK
<1>3. CASE ~runtime.pending
  <2>1. promotion = NotPending
    BY <1>3 DEF Promotions
  <2>2. promotion.runtime = runtime /\ promotion.open = handle /\ promotion.out = <<>>
    BY <2>1 DEF NotPending
  <2>3. <<>> \o out = out
    OBVIOUS
  <2>4. QED
    BY <1>1, <1>2, <1>3, <2>2, <2>3 DEF Runtime
<1>4. CASE runtime.pending /\ promotion = Refused
  <2>1. /\ promotion.runtime = [runtime EXCEPT !.pending = FALSE]
        /\ promotion.open = FALSE
    BY <1>4 DEF Refused
  <2>2. QED
    BY <1>1, <1>2, <2>1 DEF Runtime
<1>5. ASSUME NEW s \in Slots, runtime.pending, promotion = Promoted(s)
      PROVE  /\ UNCHANGED <<handle, thread>>
             /\ runtime'.slot = s
             /\ writes' = IF thread = "serving" THEN writes \o WithLeds(s, out)
                          ELSE writes
             /\ runtime'.ext_phase = phase
             /\ runtime'.rumble_off_at = runtime.rumble_off_at
             /\ ~runtime'.pending
  <2>1. /\ promotion.runtime = [runtime EXCEPT !.pending = FALSE, !.slot = s]
        /\ promotion.open = handle
        /\ promotion.out \o out = WithLeds(s, out)
    BY <1>5 DEF Promoted, WithLeds
  <2>2. QED
    BY <1>1, <1>2, <2>1 DEF Runtime
<1>6. QED
  BY <1>1, <1>3, <1>4, <1>5 DEF Promotions

(* Handling a report keeps the shape of the queues.                        *)
LEMMA ReportsKeepShape ==
  ASSUME LinkTypes, LinkShape, HandleReport
  PROVE  LinkShape'
<1>1. reports \in Seq(Report)
  BY DEF LinkTypes, LinkTypeOK
<1>2. CASE HandleLost
  <2>1. reports # <<>> /\ reports[1].type = "lost" /\ reports' = Tail(reports) /\ wiimote' = wiimote
    BY <1>1, <1>2, TailOf DEF HandleLost, Receive
  <2>2. Len(reports) \in Nat /\ Len(reports) >= 1
    BY <1>1, <2>1
  <2>3. Len(reports) = 1 /\ thread = "returned"
    <3>1. \A i \in 1..Len(reports) :
            reports[i].type = "lost" => i = Len(reports) /\ thread = "returned"
      BY DEF LinkShape
    <3>2. 1 \in 1..Len(reports)
      BY <2>2
    <3>3. QED
      BY <2>1, <3>1, <3>2
  <2>4. reports' = <<>>
    BY <1>1, <2>1, <2>3, TailOf
  <2>5. runtime' = NewSession(runtime'.extension)
    BY <1>2 DEF HandleLost, ResetSession, NewSession
  <2>6. ~handle' /\ thread' = thread /\ UNCHANGED <<writes, linked>>
    BY <1>2, <2>3 DEF HandleLost, CloseHandle
  <2>7. writes = <<>> /\ (linked => wiimote.on)
    BY <2>3 DEF LinkShape
  <2>8. Len(reports') = 0
    BY <2>4
  <2>9. thread' = "returned" /\ writes' = <<>> /\ (linked' => wiimote'.on)
    BY <2>1, <2>3, <2>6, <2>7
  <2>10. \A i \in 1..Len(reports') : FALSE
    BY <2>8
  <2>11. QED
    BY <2>4, <2>5, <2>6, <2>9, <2>10 DEF LinkShape
<1>3. CASE Handled
  <2>1. /\ reports # <<>> /\ reports[1].type # "lost" /\ wiimote' = wiimote
        /\ Len(reports') = Len(reports) - 1 /\ Len(reports') \in Nat
        /\ \A i \in 1..Len(reports') : reports'[i] = reports[i + 1]
    BY <1>1, <1>3, TailOf DEF Handled
  <2>2. /\ thread' = "serving" => handle'
        /\ handle' => thread' # "closing"
        /\ thread' = "returned" <=> thread = "returned"
        /\ thread = "returned" => writes' = writes
        /\ linked' = linked
    BY <1>3, AnswerShape, OutTypes DEF Handled, LinkShape
  <2>3. ASSUME NEW i \in 1..Len(reports'), reports'[i].type = "lost"
        PROVE  i = Len(reports') /\ thread' = "returned"
    <3>1. i + 1 \in 1..Len(reports) /\ reports[i + 1].type = "lost"
      BY <1>1, <2>1, <2>3
    <3>2. QED
      BY <1>1, <2>1, <2>2, <3>1 DEF LinkShape
  <2>4. ASSUME thread' = "returned"
        PROVE  reports' # <<>> /\ reports'[Len(reports')].type = "lost"
    <3>1. reports[Len(reports)].type = "lost"
      BY <2>1, <2>2, <2>4 DEF LinkShape
    <3>2. Len(reports) > 1
      BY <1>1, <2>1, <3>1
    <3>3. QED
      BY <1>1, <2>1, <3>1, <3>2
  <2>5. QED
    BY <2>1, <2>2, <2>3, <2>4 DEF LinkShape
<1>4. QED
  BY <1>2, <1>3, HandledReports DEF HandleReport

(* Commands and ticks keep it.                                             *)
LEMMA CommandsKeepShape ==
  ASSUME LinkTypes, LinkShape, CommandOrTick
  PROVE  LinkShape'
<1> USE DEF LinkTypes
<1>1. CASE Open
  <2>1. reports = <<>>
    BY <1>1 DEF Open, LinkShape, LinkTypeOK, Lost, Report
  <2>2. QED
    BY <1>1, <2>1 DEF Open, LinkShape
<1>2. CASE OpenAgain
  BY <1>2 DEF OpenAgain, Send, LinkShape
<1>3. CASE HandleDisconnect
  BY <1>3 DEF HandleDisconnect, Send, CloseHandle, ResetSession, NewSession, LinkShape
<1>4. CASE HandleIdentify \/ TickRumbleOff \/ TickKeepalive
  BY <1>4, RemoteConstants
     DEF HandleIdentify, TickRumbleOff, TickKeepalive, Send, LinkShape, NewSession, Connected
<1>5. CASE Flush
  BY <1>5 DEF Flush, LinkShape
<1>6. QED
  BY <1>1, <1>2, <1>3, <1>4, <1>5 DEF CommandOrTick

(* So do the wire, the I/O thread and the owner.                           *)
LEMMA OutsideKeepsShape ==
  ASSUME LinkTypes, LinkShape, OutsideStep
  PROVE  LinkShape'
<1> USE DEF LinkTypes
<1>1. reports \in Seq(Report) /\ writes \in Seq(Payload) /\ wiimote \in Wiimote
  BY DEF LinkTypeOK
(* What is heard of a thread that has not returned is no DeviceLost.       *)
<1>2. ASSUME NEW sent \in Seq(Report), Heard(sent),
             \A i \in 1..Len(sent) : sent[i].type # "lost",
             UNCHANGED <<runtime, handle, thread, linked>>,
             thread = "returned" => writes' = <<>>,
             linked => wiimote'.on
      PROVE  LinkShape'
  <2>1. CASE thread = "returned" \/ ~linked
    BY <1>2, <2>1 DEF Heard, LinkShape
  <2>2. CASE thread # "returned" /\ linked
    <3>1. reports' = reports \o sent
      BY <1>2, <2>2 DEF Heard
    <3>2. \A i \in 1..Len(reports) : reports[i].type # "lost"
      BY <2>2 DEF LinkShape
    <3>3. \A i \in 1..Len(reports') : reports'[i].type # "lost"
      BY <1>1, <1>2, <3>1, <3>2
    <3>4. QED
      BY <1>2, <2>2, <3>3 DEF LinkShape
  <2>3. QED
    BY <2>1, <2>2
<1>3. CASE Deliver
  <2>1. Head(writes) \in Payload
    BY <1>1, <1>3, TailOf DEF Deliver
  <2> DEFINE sent == Replies(wiimote, Head(writes))
  <2>2. sent \in Seq(Report)
    BY <1>1, <2>1, RepliesType
  <2>3. \A i \in 1..Len(sent) : sent[i].type # "lost"
    BY DEF Replies, Status
  <2>4. wiimote'.on = wiimote.on
    BY <1>1, <1>3 DEF Deliver, Obeyed, Wiimote
  <2>5. Heard(sent) /\ UNCHANGED <<runtime, handle, thread, linked>> /\ thread # "returned"
    BY <1>3 DEF Deliver
  <2> HIDE DEF sent
  <2>6. QED
    BY <1>2, <2>2, <2>3, <2>4, <2>5 DEF LinkShape
<1>4. CASE ThreadReturns
  <2>1. \A i \in 1..Len(reports) : reports[i].type # "lost"
    BY <1>4 DEF ThreadReturns, LinkShape
  <2>2. /\ Len(reports') = Len(reports) + 1
        /\ reports'[Len(reports')].type = "lost"
        /\ \A i \in 1..Len(reports) : reports'[i] = reports[i]
    BY <1>1, <1>4 DEF ThreadReturns, Lost
  <2>3. QED
    BY <1>1, <1>4, <2>1, <2>2 DEF ThreadReturns, LinkShape
<1>5. CASE SwitchOn
  BY <1>1, <1>5 DEF SwitchOn, LinkShape, Wiimote
<1>6. CASE SwitchOff
  BY <1>6 DEF SwitchOff, LinkShape
<1>7. CASE SendInput
  <2> DEFINE sent == IF wiimote.mode = 53
                       THEN <<[type |-> "ButtonsAccelExt", ext |-> wiimote.plugged]>>
                       ELSE <<[type |-> "Buttons"]>>
  <2>1. sent \in Seq(Report)
    <3>1. /\ [type |-> "ButtonsAccelExt", ext |-> wiimote.plugged] \in Report
          /\ [type |-> "Buttons"] \in Report
      BY <1>1 DEF Report, Wiimote
    <3>2. QED BY <3>1
  <2>2. \A i \in 1..Len(sent) : sent[i].type # "lost"
    OBVIOUS
  <2>3. Heard(sent) /\ UNCHANGED <<runtime, handle, thread, linked, writes, wiimote>>
    BY <1>7 DEF SendInput
  <2> HIDE DEF sent
  <2>4. QED
    BY <1>2, <2>1, <2>2, <2>3 DEF LinkShape
<1>8. ASSUME NEW ext \in Extensions \cup {None}, Plug(ext)
      PROVE  LinkShape'
  <2>1. wiimote' \in Wiimote /\ wiimote'.on = wiimote.on
    BY <1>1, <1>8 DEF Plug, Wiimote
  <2>2. UNCHANGED <<runtime, handle, thread, linked, writes>>
    BY <1>8 DEF Plug
  <2>3. CASE ~wiimote.on
    BY <1>8, <2>1, <2>2, <2>3 DEF Plug, LinkShape
  <2>4. CASE wiimote.on
    <3>1. <<Status(wiimote')>> \in Seq(Report)
      BY <2>1, ReportTypes
    <3>2. Heard(<<Status(wiimote')>>)
      BY <1>8, <2>4 DEF Plug
    <3>3. \A i \in 1..Len(<<Status(wiimote')>>) : <<Status(wiimote')>>[i].type # "lost"
      BY DEF Status
    <3>4. QED
      BY <1>2, <2>1, <2>2, <2>4, <3>1, <3>2, <3>3 DEF LinkShape
  <2>5. QED BY <2>3, <2>4
<1>9. QED
  BY <1>3, <1>4, <1>5, <1>6, <1>7, <1>8 DEF OutsideStep

(* A thread that serves has its handle, one that has returned has written  *)
(* everything, and nothing follows its DeviceLost.                         *)
THEOREM LinkShapeHolds == LinkSpec => []LinkShape
<1>1. LinkInit => LinkShape
  BY DEF LinkInit, LinkShape, NewSession
<1>2. LinkTypes /\ LinkShape /\ [LinkNext]_linkVars => LinkShape'
  <2>1. LinkShape /\ UNCHANGED linkVars => LinkShape'
    BY DEF LinkShape, linkVars
  <2>2. QED
    BY <2>1, StepKinds, ReportsKeepShape, CommandsKeepShape, OutsideKeepsShape
<1>3. LinkSpec => []LinkTypes
  BY LinkTypesHold DEF LinkTypes
<1>4. QED
  BY <1>1, <1>2, <1>3, PTL DEF LinkSpec

-----------------------------------------------------------------------------
(* The motor.  What is on its way decides whether it will run; while it    *)
(* will, the end of the pulse is scheduled.  MotorIsWatched alone is not   *)
(* inductive: it says nothing while a write is on its way.                 *)
Rumbles(p) == p.type = "SetLeds" /\ p.rumble

MotorToBe == IF writes = <<>> THEN wiimote.motor ELSE Rumbles(writes[Len(writes)])

MotorInv == thread = "serving" /\ linked /\ MotorToBe => runtime.rumble_off_at

LEMMA ConcatLast ==
  ASSUME NEW S, NEW q \in Seq(S), NEW r \in Seq(S), r # <<>>
  PROVE  q \o r # <<>> /\ (q \o r)[Len(q \o r)] = r[Len(r)]
<1>1. Len(r) \in 1..Len(r) /\ Len(q \o r) = Len(q) + Len(r)
  OBVIOUS
<1>2. (q \o r)[Len(q) + Len(r)] = r[Len(r)]
  BY <1>1, ConcatOf
<1>3. QED
  BY <1>1, <1>2

(* Appending writes that do not rumble stops the motor, or changes nothing.*)
LEMMA QuietWrites ==
  ASSUME LinkTypes, NEW out \in Seq(Payload), \A i \in 1..Len(out) : ~Rumbles(out[i]),
         writes' = writes \o out, wiimote' = wiimote, MotorToBe'
  PROVE  MotorToBe
<1>1. writes \in Seq(Payload)
  BY DEF LinkTypes, LinkTypeOK
<1>2. CASE out = <<>>
  <2>1. writes' = writes
    BY <1>1, <1>2
  <2>2. QED
    BY <2>1 DEF MotorToBe
<1>3. CASE out # <<>>
  <2>1. writes' # <<>> /\ writes'[Len(writes')] = out[Len(out)]
    BY <1>1, <1>3, ConcatLast
  <2>2. Len(out) \in 1..Len(out)
    BY <1>3
  <2>3. QED
    BY <2>1, <2>2 DEF MotorToBe
<1>4. QED
  BY <1>2, <1>3

LEMMA GreetingShape ==
  /\ Greeting \in Seq(Payload)
  /\ Len(Greeting) = 3
  /\ Greeting[1] = SetLeds(0, FALSE)
  /\ Greeting[2] = SetReportingMode(49)
  /\ Greeting[3] = RequestStatus
BY GreetingType DEF Greeting

(* No step leaves a motor on that nobody will switch off.                  *)
LEMMA MotorStep ==
  ASSUME LinkTypes, LinkShape, MotorInv, [LinkNext]_linkVars
  PROVE  MotorInv'
<1> SUFFICES ASSUME thread' = "serving", linked', MotorToBe'
             PROVE  runtime'.rumble_off_at
  BY DEF MotorInv
<1>1. runtime \in Runtime /\ wiimote \in Wiimote /\ writes \in Seq(Payload)
  BY DEF LinkTypes, LinkTypeOK
<1>2. thread = "serving" /\ linked /\ MotorToBe => runtime.rumble_off_at
  BY DEF MotorInv
<1>3. \A i \in 1..Len(Greeting) : ~Rumbles(Greeting[i])
  BY GreetingShape DEF SetLeds, SetReportingMode, RequestStatus, Rumbles
<1>4. CASE Open
  <2>1. writes' # <<>> /\ writes'[Len(writes')] = RequestStatus
    BY <1>4, GreetingShape DEF Open
  <2>2. QED
    BY <2>1 DEF MotorToBe, Rumbles, RequestStatus
<1>5. CASE OpenAgain
  <2>1. thread = "serving" /\ linked /\ wiimote' = wiimote /\ writes' = writes \o Greeting
    BY <1>5 DEF OpenAgain, Send
  <2>2. runtime'.rumble_off_at = runtime.rumble_off_at
    BY <1>1, <1>5 DEF OpenAgain, Runtime
  <2>3. QED
    BY <1>2, <1>3, <2>1, <2>2, QuietWrites, GreetingShape
<1>6. CASE HandleDisconnect \/ HandleLost
  BY <1>6 DEF HandleDisconnect, HandleLost, CloseHandle
<1>7. CASE HandleIdentify
  BY <1>1, <1>7 DEF HandleIdentify, Runtime
<1>8. CASE TickRumbleOff
  <2>1. thread = "serving" /\ handle
    BY <1>8 DEF TickRumbleOff, LinkShape
  <2>2. writes' = writes \o <<SetLeds(runtime.slot, FALSE)>>
    BY <1>8, <2>1 DEF TickRumbleOff, Send
  <2>3. <<SetLeds(runtime.slot, FALSE)>> \in Seq(Payload)
    BY <1>1, ListTypes DEF Runtime
  <2>4. writes' # <<>> /\ writes'[Len(writes')] = SetLeds(runtime.slot, FALSE)
    BY <1>1, <2>2, <2>3, ConcatLast
  <2>5. QED
    BY <2>4 DEF MotorToBe, SetLeds, Rumbles
<1>9. CASE TickKeepalive
  <2>1. thread = "serving" /\ linked /\ handle /\ wiimote' = wiimote
    BY <1>9 DEF TickKeepalive, LinkShape
  <2>2. writes' = writes \o <<RequestStatus>>
    BY <1>9, <2>1 DEF TickKeepalive, Send
  <2>3. \A i \in 1..Len(<<RequestStatus>>) : ~Rumbles(<<RequestStatus>>[i])
    BY DEF RequestStatus, Rumbles
  <2>4. <<RequestStatus>> \in Seq(Payload)
    BY ListTypes
  <2>5. MotorToBe
    BY <2>1, <2>2, <2>3, <2>4, QuietWrites
  <2>6. QED
    BY <1>2, <1>9, <2>1, <2>5 DEF TickKeepalive
<1>10. CASE Handled
  <2>1. PICK promotion \in Promotions, ext \in Extensions \cup {Unknown, None} :
          Answer(promotion, PhaseAfter(reports[1]), ext, OutAfter(reports[1]))
    BY <1>10 DEF Handled
  <2> DEFINE out == OutAfter(reports[1])
  <2>2. out \in Seq(Payload) /\ \A i \in 1..Len(out) : ~Rumbles(out[i])
    BY OutTypes DEF Rumbles
  <2>3. wiimote' = wiimote
    BY <1>10 DEF Handled
  <2>4. /\ linked' = linked
        /\ runtime'.rumble_off_at = runtime.rumble_off_at
        /\ thread = "serving"
        /\ \/ writes' = writes \o out
           \/ \E s \in Slots : writes' = writes \o WithLeds(s, out)
    BY <2>1, <2>2, AnswerShape DEF LinkShape
  <2> HIDE DEF out
  <2>5. CASE writes' = writes \o out
    BY <1>2, <2>2, <2>3, <2>4, <2>5, QuietWrites
  <2>6. ASSUME NEW s \in Slots, writes' = writes \o WithLeds(s, out)
        PROVE  runtime'.rumble_off_at
    <3>1. ~Rumbles(SetLeds(s, FALSE))
      BY DEF SetLeds, Rumbles
    <3> DEFINE all == WithLeds(s, out)
    <3>2. /\ all \in Seq(Payload)
          /\ all[1] = SetLeds(s, FALSE)
          /\ \A i \in 1..Len(all) : i = 1 \/ (i - 1 \in 1..Len(out) /\ all[i] = out[i - 1])
      BY <2>2, LedsFirst
    <3> HIDE DEF all
    <3>3. \A i \in 1..Len(all) : ~Rumbles(all[i])
      BY <2>2, <3>1, <3>2
    <3>4. QED
      BY <1>2, <2>3, <2>4, <2>6, <3>2, <3>3, QuietWrites DEF all
  <2>7. QED
    BY <2>4, <2>5, <2>6
<1>11. CASE Deliver
  <2>1. writes # <<>> /\ writes' = Tail(writes) /\ wiimote' = Obeyed(wiimote, Head(writes))
    BY <1>11 DEF Deliver
  <2>2. /\ Head(writes) = writes[1] /\ Head(writes) \in Payload
        /\ Len(writes') = Len(writes) - 1 /\ Len(writes') \in Nat
        /\ \A i \in 1..Len(writes') : writes'[i] = writes[i + 1]
    BY <1>1, <2>1, TailOf
  <2>3. wiimote'.motor = Rumbles(writes[1])
    BY <1>1, <2>1, <2>2 DEF Obeyed, Wiimote, Rumbles
  <2>4. MotorToBe
    <3>1. CASE writes' = <<>>
      <4>1. Len(writes) = 1
        BY <2>2, <3>1
      <4>2. QED
        BY <2>1, <2>3, <3>1, <4>1 DEF MotorToBe
    <3>2. CASE writes' # <<>>
      <4>1. writes'[Len(writes')] = writes[Len(writes)]
        BY <1>1, <2>1, <2>2, <3>2
      <4>2. QED
        BY <2>1, <3>2, <4>1 DEF MotorToBe
    <3>3. QED
      BY <3>1, <3>2
  <2>5. QED
    BY <1>2, <1>11, <2>4 DEF Deliver
<1>12. CASE ThreadReturns \/ SwitchOff
  BY <1>12 DEF ThreadReturns, SwitchOff
<1>13. CASE SwitchOn \/ SendInput \/ \E ext \in Extensions \cup {None} : Plug(ext)
  <2>1. wiimote'.motor = wiimote.motor /\ UNCHANGED <<runtime, thread, linked, writes>>
    BY <1>1, <1>13 DEF SwitchOn, SendInput, Plug, Wiimote
  <2>2. QED
    BY <1>2, <2>1 DEF MotorToBe
<1>14. CASE Flush \/ UNCHANGED linkVars
  BY <1>2, <1>14 DEF Flush, MotorToBe, linkVars
<1>15. QED
  BY <1>4, <1>5, <1>6, <1>7, <1>8, <1>9, <1>10, <1>11, <1>12, <1>13, <1>14, HandledReports
     DEF LinkNext

(* No Wiimote in session is left rumbling (handle_identify and             *)
(* tick_rumble_off, and the rumble bit of every other write).              *)
THEOREM MotorHolds == LinkSpec => []MotorIsWatched
<1>1. LinkInit => MotorInv
  BY DEF LinkInit, MotorInv
<1>2. MotorInv => MotorIsWatched
  BY DEF MotorInv, MotorIsWatched, MotorToBe, Served
<1>3. LinkSpec => []LinkTypes
  BY LinkTypesHold DEF LinkTypes
<1>4. QED
  BY <1>1, <1>2, <1>3, LinkShapeHolds, MotorStep, PTL DEF LinkSpec

-----------------------------------------------------------------------------
(* What the last write of a kind says: the last member of q that is in T   *)
(* is in G.                                                                *)
LastIn(q, T, G) ==
  \E i \in 1..Len(q) : q[i] \in G /\ \A j \in (i + 1)..Len(q) : q[j] \notin T

NoneIn(q, T) == \A i \in 1..Len(q) : q[i] \notin T

(* The last payload of a kind, when the queue grows.                       *)
LEMMA LastAppended ==
  ASSUME NEW S, NEW q \in Seq(S), NEW r \in Seq(S), NEW T, NEW G
  PROVE  /\ LastIn(r, T, G) => LastIn(q \o r, T, G)
         /\ LastIn(q, T, G) /\ NoneIn(r, T) => LastIn(q \o r, T, G)
         /\ NoneIn(q, T) /\ NoneIn(r, T) => NoneIn(q \o r, T)
<1> DEFINE all == q \o r
<1>1. /\ all \in Seq(S)
      /\ Len(all) = Len(q) + Len(r)
      /\ \A i \in 1..Len(q) : all[i] = q[i]
      /\ \A i \in 1..Len(r) : all[Len(q) + i] = r[i]
  BY ConcatOf
<1>2. Len(q) \in Nat /\ Len(r) \in Nat
  OBVIOUS
<1> HIDE DEF all
<1>3. ASSUME LastIn(r, T, G)
      PROVE  LastIn(all, T, G)
  <2>1. PICK i \in 1..Len(r) : r[i] \in G /\ \A j \in (i + 1)..Len(r) : r[j] \notin T
    BY <1>3 DEF LastIn
  <2>2. Len(q) + i \in 1..Len(all) /\ all[Len(q) + i] \in G
    BY <1>1, <1>2, <2>1
  <2>3. ASSUME NEW j \in (Len(q) + i + 1)..Len(all)
        PROVE  all[j] \notin T
    <3>1. j - Len(q) \in (i + 1)..Len(r) /\ j - Len(q) \in 1..Len(r)
      BY <1>1, <1>2, <2>1
    <3>2. Len(q) + (j - Len(q)) = j
      BY <1>2
    <3>3. all[j] = r[j - Len(q)]
      BY <1>1, <3>1, <3>2
    <3>4. QED
      BY <2>1, <3>1, <3>3
  <2>4. QED
    BY <2>2, <2>3 DEF LastIn
<1>4. ASSUME NEW i \in 1..Len(all), i > Len(q), NoneIn(r, T)
      PROVE  all[i] \notin T
  <2>1. i - Len(q) \in 1..Len(r) /\ Len(q) + (i - Len(q)) = i
    BY <1>1, <1>2, <1>4
  <2>2. QED
    BY <1>1, <1>4, <2>1 DEF NoneIn
<1>5. ASSUME LastIn(q, T, G), NoneIn(r, T)
      PROVE  LastIn(all, T, G)
  <2>1. PICK i \in 1..Len(q) : q[i] \in G /\ \A j \in (i + 1)..Len(q) : q[j] \notin T
    BY <1>5 DEF LastIn
  <2>2. i \in 1..Len(all) /\ all[i] \in G
    BY <1>1, <1>2, <2>1
  <2>3. ASSUME NEW j \in (i + 1)..Len(all)
        PROVE  all[j] \notin T
    <3>1. CASE j > Len(q)
      <4>1. j \in 1..Len(all)
        BY <2>1
      <4>2. QED
        BY <1>4, <1>5, <3>1, <4>1
    <3>2. CASE j <= Len(q)
      <4>1. j \in (i + 1)..Len(q) /\ j \in 1..Len(q)
        BY <2>1, <3>2
      <4>2. QED
        BY <1>1, <2>1, <4>1
    <3>3. QED
      BY <1>2, <2>1, <3>1, <3>2
  <2>4. QED
    BY <2>2, <2>3 DEF LastIn
<1>6. ASSUME NoneIn(q, T), NoneIn(r, T), NEW i \in 1..Len(all)
      PROVE  all[i] \notin T
  <2>1. CASE i > Len(q)
    BY <1>4, <1>6, <2>1
  <2>2. CASE i <= Len(q)
    BY <1>1, <1>6, <2>2 DEF NoneIn
  <2>3. QED
    BY <1>2, <2>1, <2>2
<1>7. QED
  BY <1>3, <1>5, <1>6 DEF NoneIn, all

(* The last payload of a kind, when the head of the queue is taken.        *)
LEMMA LastTaken ==
  ASSUME NEW S, NEW q \in Seq(S), q # <<>>, NEW T, NEW G
  PROVE  /\ LastIn(q, T, G) => LastIn(Tail(q), T, G) \/ (q[1] \in G /\ NoneIn(Tail(q), T))
         /\ NoneIn(q, T) => NoneIn(Tail(q), T) /\ q[1] \notin T
<1> DEFINE rest == Tail(q)
<1>1. /\ Len(rest) = Len(q) - 1 /\ Len(rest) \in Nat /\ Len(q) \in Nat
      /\ \A i \in 1..Len(rest) : rest[i] = q[i + 1]
  BY TailOf
<1> HIDE DEF rest
<1>2. ASSUME LastIn(q, T, G)
      PROVE  LastIn(rest, T, G) \/ (q[1] \in G /\ NoneIn(rest, T))
  <2>1. PICK i \in 1..Len(q) : q[i] \in G /\ \A j \in (i + 1)..Len(q) : q[j] \notin T
    BY <1>2 DEF LastIn
  <2>2. ASSUME NEW j \in i..Len(rest), j >= 1
        PROVE  rest[j] \notin T
    <3>1. j \in 1..Len(rest) /\ j + 1 \in (i + 1)..Len(q)
      BY <1>1, <2>1, <2>2
    <3>2. QED
      BY <1>1, <2>1, <3>1
  <2>3. CASE i = 1
    BY <2>1, <2>2, <2>3 DEF NoneIn
  <2>4. CASE i # 1
    <3>1. i - 1 \in 1..Len(rest) /\ (i - 1) + 1 = i
      BY <1>1, <2>1, <2>4
    <3>2. rest[i - 1] \in G
      BY <1>1, <2>1, <3>1
    <3>3. \A j \in ((i - 1) + 1)..Len(rest) : rest[j] \notin T
      BY <2>1, <2>2, <3>1
    <3>4. QED
      BY <3>1, <3>2, <3>3 DEF LastIn
  <2>5. QED
    BY <2>3, <2>4
<1>3. ASSUME NoneIn(q, T)
      PROVE  NoneIn(rest, T) /\ q[1] \notin T
  <2>1. 1 \in 1..Len(q) /\ \A i \in 1..Len(rest) : i + 1 \in 1..Len(q)
    BY <1>1
  <2>2. QED
    BY <1>1, <1>3, <2>1 DEF NoneIn
<1>4. QED
  BY <1>2, <1>3 DEF rest

(* A state that writes of kind T set, and is `now`, will be `want`.        *)
Becomes(q, T, G, now, want) == (now = want /\ NoneIn(q, T)) \/ LastIn(q, T, G)

LEMMA BecomesAppended ==
  ASSUME NEW S, NEW q \in Seq(S), NEW r \in Seq(S), NEW T, NEW G, NEW now, NEW want
  PROVE  /\ LastIn(r, T, G) => Becomes(q \o r, T, G, now, want)
         /\ Becomes(q, T, G, now, want) /\ NoneIn(r, T) => Becomes(q \o r, T, G, now, want)
BY LastAppended DEF Becomes

LEMMA BecomesTaken ==
  ASSUME NEW S, NEW q \in Seq(S), q # <<>>, NEW T, NEW G, NEW now, NEW want, NEW then,
         Becomes(q, T, G, now, want),
         q[1] \in G => then = want,
         q[1] \notin T => then = now
  PROVE  Becomes(Tail(q), T, G, then, want)
BY LastTaken DEF Becomes

LEMMA OneLast ==
  ASSUME NEW x, NEW T, NEW G
  PROVE  /\ x \in G => LastIn(<<x>>, T, G)
         /\ x \notin T => NoneIn(<<x>>, T)
BY DEF LastIn, NoneIn

-----------------------------------------------------------------------------
(* The LEDs.  Until a Connect is answered by a report they may show        *)
(* anything; from then on the last write of the channel shows the slot.    *)
LedsWrites == {p \in Payload : p.type = "SetLeds"}
LedsOf(leds) == {p \in LedsWrites : p.leds = leds}

LedsInv ==
  thread = "serving" /\ linked /\ Connected /\ ~runtime.pending =>
    Becomes(writes, LedsWrites, LedsOf(runtime.slot), wiimote.leds, runtime.slot)

LEMMA SetLedsKind ==
  ASSUME NEW leds \in Slots \cup {None}, NEW rumble \in BOOLEAN
  PROVE  SetLeds(leds, rumble) \in LedsOf(leds)
BY PayloadTypes DEF LedsOf, LedsWrites, SetLeds

(* Every step keeps the LEDs, and those on their way, those of the slot.   *)
LEMMA LedsStep ==
  ASSUME LinkTypes, LinkShape, LedsInv, [LinkNext]_linkVars
  PROVE  LedsInv'
<1> SUFFICES ASSUME thread' = "serving", linked', runtime'.slot # None, ~runtime'.pending
             PROVE  Becomes(writes', LedsWrites, LedsOf(runtime'.slot), wiimote'.leds,
                            runtime'.slot)
  BY DEF LedsInv, Connected
<1>1. runtime \in Runtime /\ wiimote \in Wiimote /\ writes \in Seq(Payload)
  BY DEF LinkTypes, LinkTypeOK
<1> DEFINE Kept == Becomes(writes, LedsWrites, LedsOf(runtime.slot), wiimote.leds, runtime.slot)
<1>2. thread = "serving" /\ linked /\ runtime.slot # None /\ ~runtime.pending => Kept
  BY DEF LedsInv, Connected
<1> HIDE DEF Kept
(* A write of the slot on the LEDs settles the matter, ...                 *)
<1>3. ASSUME NEW rumble \in BOOLEAN, runtime' \in Runtime,
             writes' = writes \o <<SetLeds(runtime'.slot, rumble)>>
      PROVE  Becomes(writes', LedsWrites, LedsOf(runtime'.slot), wiimote'.leds, runtime'.slot)
  <2>1. runtime'.slot \in Slots \cup {None}
    BY <1>3 DEF Runtime
  <2>2. <<SetLeds(runtime'.slot, rumble)>> \in Seq(Payload)
    BY <2>1, ListTypes
  <2>3. LastIn(<<SetLeds(runtime'.slot, rumble)>>, LedsWrites, LedsOf(runtime'.slot))
    BY <2>1, SetLedsKind, OneLast
  <2>4. QED
    BY <1>1, <1>3, <2>2, <2>3, BecomesAppended
(* ... and other writes change nothing.                                    *)
<1>4. ASSUME NEW out \in Seq(Payload), NoneIn(out, LedsWrites), writes' = writes \o out,
             wiimote'.leds = wiimote.leds, runtime'.slot = runtime.slot, Kept
      PROVE  Becomes(writes', LedsWrites, LedsOf(runtime'.slot), wiimote'.leds, runtime'.slot)
  BY <1>1, <1>4, BecomesAppended DEF Kept
<1>5. CASE Open \/ OpenAgain
  BY <1>1, <1>5 DEF Open, OpenAgain, Runtime
<1>6. CASE HandleDisconnect \/ HandleLost
  BY <1>6 DEF HandleDisconnect, HandleLost, CloseHandle
<1>7. CASE HandleIdentify
  <2>1. writes' = writes \o <<SetLeds(runtime.slot, TRUE)>>
    BY <1>7 DEF HandleIdentify, Send, LinkShape
  <2>2. runtime' \in Runtime /\ runtime'.slot = runtime.slot
    BY <1>1, <1>7 DEF HandleIdentify, Runtime
  <2>3. QED
    BY <1>3, <2>1, <2>2
<1>8. CASE TickRumbleOff
  <2>1. writes' = writes \o <<SetLeds(runtime.slot, FALSE)>>
    BY <1>8 DEF TickRumbleOff, Send, LinkShape
  <2>2. runtime' \in Runtime /\ runtime'.slot = runtime.slot
    BY <1>1, <1>8 DEF TickRumbleOff, Runtime
  <2>3. QED
    BY <1>3, <2>1, <2>2
<1>9. CASE TickKeepalive
  <2>1. /\ thread = "serving" /\ linked /\ handle
        /\ wiimote' = wiimote /\ runtime' = runtime
    BY <1>9 DEF TickKeepalive, LinkShape
  <2>2. writes' = writes \o <<RequestStatus>>
    BY <1>9, <2>1 DEF TickKeepalive, Send
  <2>3. <<RequestStatus>> \in Seq(Payload) /\ NoneIn(<<RequestStatus>>, LedsWrites)
    BY ListTypes, OneLast DEF LedsWrites, RequestStatus
  <2>4. QED
    BY <1>2, <1>4, <2>1, <2>2, <2>3
<1>10. CASE Handled
  <2>1. PICK promotion \in Promotions, ext \in Extensions \cup {Unknown, None} :
          Answer(promotion, PhaseAfter(reports[1]), ext, OutAfter(reports[1]))
    BY <1>10 DEF Handled
  <2> DEFINE out == OutAfter(reports[1])
  <2>2. out \in Seq(Payload) /\ NoneIn(out, LedsWrites)
    BY OutTypes DEF NoneIn, LedsWrites
  <2>3. /\ linked' = linked /\ thread = "serving"
        /\ \/ /\ ~runtime.pending
              /\ runtime'.slot = runtime.slot
              /\ writes' = writes \o out
           \/ \E s \in Slots : runtime'.slot = s /\ writes' = writes \o WithLeds(s, out)
    BY <2>1, <2>2, AnswerShape DEF LinkShape
  <2>4. wiimote' = wiimote
    BY <1>10 DEF Handled
  <2> HIDE DEF out
  <2>5. CASE ~runtime.pending /\ runtime'.slot = runtime.slot /\ writes' = writes \o out
    BY <1>2, <1>4, <2>2, <2>3, <2>4, <2>5
  <2>6. ASSUME NEW s \in Slots, runtime'.slot = s, writes' = writes \o WithLeds(s, out)
        PROVE  Becomes(writes', LedsWrites, LedsOf(runtime'.slot), wiimote'.leds, runtime'.slot)
    <3>1. <<SetLeds(s, FALSE)>> \in Seq(Payload) /\ WithLeds(s, out) \in Seq(Payload)
      BY <2>2, ListTypes, LedsFirst
    <3>2. LastIn(<<SetLeds(s, FALSE)>>, LedsWrites, LedsOf(s))
      BY SetLedsKind, OneLast
    <3>3. LastIn(WithLeds(s, out), LedsWrites, LedsOf(s))
      BY <2>2, <3>1, <3>2, LastAppended DEF WithLeds
    <3>4. QED
      BY <1>1, <2>6, <3>1, <3>3, BecomesAppended
  <2>7. QED
    BY <2>3, <2>5, <2>6
<1>11. CASE Deliver
  <2>1. /\ writes # <<>> /\ writes' = Tail(writes) /\ wiimote' = Obeyed(wiimote, Head(writes))
        /\ thread = "serving" /\ linked /\ runtime' = runtime
    BY <1>11 DEF Deliver
  <2>2. Head(writes) = writes[1] /\ writes[1] \in Payload
    BY <1>1, <2>1, TailOf
  <2>3. IF writes[1].type = "SetLeds" THEN wiimote'.leds = writes[1].leds
        ELSE wiimote'.leds = wiimote.leds
    BY <1>1, <2>1, <2>2 DEF Obeyed, Wiimote
  <2>4. /\ writes[1] \in LedsOf(runtime.slot) => wiimote'.leds = runtime.slot
        /\ writes[1] \notin LedsWrites => wiimote'.leds = wiimote.leds
    BY <2>2, <2>3 DEF LedsOf, LedsWrites
  <2>5. Kept
    BY <1>2, <2>1
  <2>6. QED
    BY <1>1, <2>1, <2>4, <2>5, BecomesTaken DEF Kept
<1>12. CASE ThreadReturns \/ SwitchOff
  BY <1>12 DEF ThreadReturns, SwitchOff
<1>13. CASE SwitchOn \/ SendInput \/ Flush \/ (\E ext \in Extensions \cup {None} : Plug(ext))
  <2>1. wiimote'.leds = wiimote.leds /\ UNCHANGED <<runtime, thread, linked, writes>>
    BY <1>1, <1>13 DEF SwitchOn, SendInput, Flush, Plug, Wiimote
  <2>2. QED
    BY <1>2, <2>1 DEF Kept
<1>14. CASE UNCHANGED linkVars
  BY <1>2, <1>14 DEF Kept, linkVars
<1>15. QED
  BY <1>5, <1>6, <1>7, <1>8, <1>9, <1>10, <1>11, <1>12, <1>13, <1>14, HandledReports
     DEF LinkNext

(* A connected Wiimote shows its slot (promote_to_connected, and every     *)
(* later write of its LEDs).                                               *)
THEOREM LedsHold == LinkSpec => []LedsShowSlot
<1>1. LinkInit => LedsInv
  BY DEF LinkInit, LedsInv
<1>2. LedsInv => LedsShowSlot
  <2> SUFFICES ASSUME LedsInv, Served, Connected, ~runtime.pending, writes = <<>>
               PROVE  wiimote.leds = runtime.slot
    BY DEF LedsShowSlot
  <2>1. Becomes(writes, LedsWrites, LedsOf(runtime.slot), wiimote.leds, runtime.slot)
    BY DEF LedsInv, Served
  <2>2. Len(writes) = 0
    OBVIOUS
  <2>3. QED
    BY <2>1, <2>2 DEF Becomes, LastIn
<1>3. LinkSpec => []LinkTypes
  BY LinkTypesHold DEF LinkTypes
<1>4. QED
  BY <1>1, <1>2, <1>3, LinkShapeHolds, LedsStep, PTL DEF LinkSpec

-----------------------------------------------------------------------------
(* The reporting mode.                                                     *)
ModeWrites == {p \in Payload : p.type = "SetReportingMode"}

ModeInv ==
  Served => \/ Queued("RequestStatus") \/ Announced("Status")
            \/ Becomes(writes, ModeWrites, {SetReportingMode(WantedMode(runtime.ext_phase))},
                       wiimote.mode, WantedMode(runtime.ext_phase))

LEMMA ModeKind ==
  \A mode \in {49, 53} : SetReportingMode(mode) \in ModeWrites
BY PayloadTypes DEF ModeWrites, SetReportingMode

LEMMA WantedModes ==
  /\ \A phase : WantedMode(phase) \in {49, 53}
  /\ \A phase \in {None, "InitSent", "ReadingId"} : WantedMode(phase) = 49
  /\ \A phase \in Extensions \cup {Unknown} : WantedMode(phase) = 53
BY RemoteConstants DEF WantedMode, Identified

(* A handler that changes the mode that is wanted writes it, and so does   *)
(* the one of a Status.                                                    *)
LEMMA ModeAnswered ==
  ASSUME NEW r \in Report
  PROVE  \/ LastIn(OutAfter(r), ModeWrites, {SetReportingMode(WantedMode(PhaseAfter(r)))})
         \/ /\ r.type # "Status"
            /\ WantedMode(PhaseAfter(r)) = WantedMode(runtime.ext_phase)
            /\ NoneIn(OutAfter(r), ModeWrites)
<1> DEFINE wanted == SetReportingMode(WantedMode(PhaseAfter(r)))
<1>1. LastIn(<<wanted>>, ModeWrites, {wanted})
  BY OneLast
<1>2. CASE r.type = "Status"
  <2>1. OutAfter(r) = Handshake(r.extension_connected) \o <<wanted>>
    BY <1>2 DEF OutAfter, ModeAfterStatus, Acks, Names
  <2>2. Handshake(r.extension_connected) \in Seq(Payload)
    BY ListTypes DEF Handshake
  <2>3. <<wanted>> \in Seq(Payload)
    BY ListTypes, WantedModes
  <2>4. QED
    BY <1>1, <2>1, <2>2, <2>3, LastAppended
<1>3. CASE Acks(r) /\ runtime.ext_phase = "InitSent"
  <2>1. PhaseAfter(r) = "ReadingId" /\ OutAfter(r) = <<ReadRegister>> /\ r.type # "Status"
    BY <1>3 DEF PhaseAfter, OutAfter, Acks, Names
  <2>2. NoneIn(OutAfter(r), ModeWrites)
    BY <2>1, OneLast DEF ModeWrites, ReadRegister
  <2>3. WantedMode(PhaseAfter(r)) = WantedMode(runtime.ext_phase)
    BY <1>3, <2>1, WantedModes
  <2>4. QED
    BY <2>1, <2>2, <2>3
<1>4. CASE Names(r) /\ runtime.ext_phase = "ReadingId"
  <2>1. PhaseAfter(r) = r.id /\ OutAfter(r) = <<SetReportingMode(53)>>
    BY <1>4 DEF PhaseAfter, OutAfter, Acks, Names
  <2>2. r.id \in Extensions \cup {Unknown}
    BY <1>4 DEF Names, Report
  <2>3. wanted = SetReportingMode(53)
    BY <2>1, <2>2, WantedModes
  <2>4. QED
    BY <1>1, <2>1, <2>3
<1>5. CASE /\ r.type # "Status"
           /\ ~(Acks(r) /\ runtime.ext_phase = "InitSent")
           /\ ~(Names(r) /\ runtime.ext_phase = "ReadingId")
  BY <1>5 DEF PhaseAfter, OutAfter, NoneIn
<1>6. QED
  BY <1>2, <1>3, <1>4, <1>5

(* Every step keeps the mode to be the one the daemon wants.               *)
LEMMA ModeStep ==
  ASSUME LinkTypes, LinkShape, ModeInv, [LinkNext]_linkVars
  PROVE  ModeInv'
<1> DEFINE Goal(q, seen, mode, phase) ==
             \/ \E i \in 1..Len(q) : q[i].type = "RequestStatus"
             \/ \E i \in 1..Len(seen) : seen[i].type = "Status"
             \/ Becomes(q, ModeWrites, {SetReportingMode(WantedMode(phase))}, mode,
                        WantedMode(phase))
<1> SUFFICES ASSUME handle', thread' = "serving", linked'
             PROVE  Goal(writes', reports', wiimote'.mode, runtime'.ext_phase)
  BY DEF ModeInv, Served, Queued, Announced
<1>1. /\ runtime \in Runtime /\ wiimote \in Wiimote
      /\ writes \in Seq(Payload) /\ reports \in Seq(Report)
  BY DEF LinkTypes, LinkTypeOK
<1>2. thread = "serving" /\ linked => Goal(writes, reports, wiimote.mode, runtime.ext_phase)
  BY DEF ModeInv, Served, Queued, Announced, LinkShape
(* Writes that do not touch the mode, and reports that are only added.     *)
<1>3. ASSUME NEW out \in Seq(Payload), NoneIn(out, ModeWrites), writes' = writes \o out,
             NEW more \in Seq(Report), reports' = reports \o more,
             wiimote'.mode = wiimote.mode, runtime'.ext_phase = runtime.ext_phase,
             thread = "serving", linked
      PROVE  Goal(writes', reports', wiimote'.mode, runtime'.ext_phase)
  <2>1. Goal(writes, reports, wiimote.mode, runtime.ext_phase)
    BY <1>2, <1>3
  <2>2. CASE \E i \in 1..Len(writes) : writes[i].type = "RequestStatus"
    <3>1. PICK i \in 1..Len(writes) : writes[i].type = "RequestStatus"
      BY <2>2
    <3>2. i \in 1..Len(writes') /\ writes'[i] = writes[i]
      BY <1>1, <1>3, <3>1
    <3>3. QED
      BY <3>1, <3>2
  <2>3. CASE \E i \in 1..Len(reports) : reports[i].type = "Status"
    <3>1. PICK i \in 1..Len(reports) : reports[i].type = "Status"
      BY <2>3
    <3>2. i \in 1..Len(reports') /\ reports'[i] = reports[i]
      BY <1>1, <1>3, <3>1
    <3>3. QED
      BY <3>1, <3>2
  <2>4. CASE Becomes(writes, ModeWrites, {SetReportingMode(WantedMode(runtime.ext_phase))},
                     wiimote.mode, WantedMode(runtime.ext_phase))
    BY <1>1, <1>3, <2>4, BecomesAppended
  <2>5. QED
    BY <2>1, <2>2, <2>3, <2>4
<1>4. \A q \in Seq(Report) : q \o <<>> = q
  OBVIOUS
<1>5. <<>> \in Seq(Report) /\ <<>> \in Seq(Payload) /\ NoneIn(<<>>, ModeWrites)
  BY DEF NoneIn
<1>6. \A q \in Seq(Payload) : q \o <<>> = q
  OBVIOUS
<1>7. CASE Open \/ OpenAgain
  <2>1. \E i \in 1..Len(writes') : writes'[i] = RequestStatus
    <3>1. CASE Open
      BY <3>1, GreetingShape DEF Open
    <3>2. CASE OpenAgain
      <4>1. writes' = writes \o Greeting
        BY <3>2 DEF OpenAgain, Send
      <4>2. /\ writes'[Len(writes) + 3] = RequestStatus
            /\ Len(writes') = Len(writes) + 3 /\ Len(writes) \in Nat
        <5> DEFINE g == Greeting
        <5>1. g \in Seq(Payload) /\ Len(g) = 3 /\ g[3] = RequestStatus
          BY GreetingShape
        <5> HIDE DEF g
        <5>2. /\ Len(writes \o g) = Len(writes) + 3
              /\ (writes \o g)[Len(writes) + 3] = RequestStatus
          <6>1. 3 \in 1..Len(g)
            BY <5>1
          <6>2. /\ Len(writes \o g) = Len(writes) + Len(g)
                /\ \A i \in 1..Len(g) : (writes \o g)[Len(writes) + i] = g[i]
            <7>1. writes \in Seq(Payload) /\ g \in Seq(Payload)
              BY <1>1, <5>1
            <7>2. QED
              BY <7>1, ConcatOf
          <6>3. QED
            BY <5>1, <6>1, <6>2
        <5>3. QED
          BY <1>1, <4>1, <5>2 DEF g
      <4>3. QED
        BY <4>2
    <3>3. QED
      BY <1>7, <3>1, <3>2
  <2>2. QED
    BY <2>1 DEF RequestStatus
<1>8. CASE HandleDisconnect \/ HandleLost
  BY <1>8 DEF HandleDisconnect, HandleLost, CloseHandle
<1>9. ASSUME NEW rumble \in BOOLEAN, writes' = writes \o <<SetLeds(runtime.slot, rumble)>>,
             UNCHANGED <<linked, reports, wiimote>>, runtime'.ext_phase = runtime.ext_phase,
             thread = "serving"
      PROVE  Goal(writes', reports', wiimote'.mode, runtime'.ext_phase)
  <2>1. runtime.slot \in Slots \cup {None}
    BY <1>1 DEF Runtime
  <2>2. <<SetLeds(runtime.slot, rumble)>> \in Seq(Payload)
    BY <2>1, ListTypes
  <2>3. NoneIn(<<SetLeds(runtime.slot, rumble)>>, ModeWrites)
    BY OneLast DEF ModeWrites, SetLeds
  <2>4. reports' = reports \o <<>>
    BY <1>1, <1>4, <1>9
  <2>5. QED
    BY <1>3, <1>5, <1>9, <2>2, <2>3, <2>4
<1>10. CASE HandleIdentify
  <2>1. writes' = writes \o <<SetLeds(runtime.slot, TRUE)>> /\ thread = "serving"
    BY <1>10 DEF HandleIdentify, Send, LinkShape
  <2>2. runtime'.ext_phase = runtime.ext_phase
    BY <1>1, <1>10 DEF HandleIdentify, Runtime
  <2>3. QED
    BY <1>9, <1>10, <2>1, <2>2 DEF HandleIdentify
<1>11. CASE TickRumbleOff
  <2>1. writes' = writes \o <<SetLeds(runtime.slot, FALSE)>> /\ thread = "serving"
    BY <1>11 DEF TickRumbleOff, Send, LinkShape
  <2>2. runtime'.ext_phase = runtime.ext_phase
    BY <1>1, <1>11 DEF TickRumbleOff, Runtime
  <2>3. QED
    BY <1>9, <1>11, <2>1, <2>2 DEF TickRumbleOff
<1>12. CASE TickKeepalive
  <2>1. writes' = writes \o <<RequestStatus>>
    BY <1>12 DEF TickKeepalive, Send, LinkShape
  <2>2. writes'[Len(writes) + 1] = RequestStatus /\ Len(writes') = Len(writes) + 1
    BY <1>1, <2>1
  <2>3. Len(writes) + 1 \in 1..Len(writes')
    BY <1>1, <2>2
  <2>4. QED
    BY <2>2, <2>3 DEF RequestStatus
<1>13. CASE Handled
  <2>1. PICK promotion \in Promotions, ext \in Extensions \cup {Unknown, None} :
          Answer(promotion, PhaseAfter(reports[1]), ext, OutAfter(reports[1]))
    BY <1>13 DEF Handled
  <2> DEFINE r == reports[1]
             out == OutAfter(r)
  <2>2. /\ reports # <<>> /\ reports' = Tail(reports) /\ wiimote' = wiimote
        /\ r \in Report /\ Len(reports') = Len(reports) - 1 /\ Len(reports) \in Nat
        /\ \A i \in 1..Len(reports') : reports'[i] = reports[i + 1]
    BY <1>1, <1>13, TailOf DEF Handled
  <2>3. out \in Seq(Payload)
    BY OutTypes
  <2>4. /\ linked' = linked /\ thread = "serving"
        /\ runtime'.ext_phase = PhaseAfter(r)
        /\ \/ writes' = writes \o out
           \/ \E s \in Slots : writes' = writes \o WithLeds(s, out)
    BY <2>1, <2>3, AnswerShape DEF LinkShape
  <2> HIDE DEF r, out
  (* A promotion adds a write of the LEDs in front. *)
  <2>5. PICK all \in Seq(Payload) :
          /\ writes' = writes \o all
          /\ \A G : LastIn(out, ModeWrites, G) => LastIn(all, ModeWrites, G)
          /\ NoneIn(out, ModeWrites) => NoneIn(all, ModeWrites)
    <3>1. CASE writes' = writes \o out
      BY <2>3, <3>1
    <3>2. ASSUME NEW s \in Slots, writes' = writes \o WithLeds(s, out)
          PROVE  /\ WithLeds(s, out) \in Seq(Payload)
                 /\ \A G : LastIn(out, ModeWrites, G) =>
                          LastIn(WithLeds(s, out), ModeWrites, G)
                 /\ NoneIn(out, ModeWrites) => NoneIn(WithLeds(s, out), ModeWrites)
      <4>1. <<SetLeds(s, FALSE)>> \in Seq(Payload) /\ WithLeds(s, out) \in Seq(Payload)
        BY <2>3, ListTypes, LedsFirst
      <4>2. NoneIn(<<SetLeds(s, FALSE)>>, ModeWrites)
        <5>1. SetLeds(s, FALSE) \notin ModeWrites
          BY DEF ModeWrites, SetLeds
        <5>2. QED
          BY <5>1, OneLast
      <4>3. QED
        BY <2>3, <4>1, <4>2, LastAppended DEF WithLeds
    <3>3. QED
      BY <2>4, <3>1, <3>2
  <2>6. CASE LastIn(out, ModeWrites, {SetReportingMode(WantedMode(PhaseAfter(r)))})
    BY <1>1, <2>4, <2>5, <2>6, BecomesAppended
  <2>7. CASE /\ r.type # "Status"
             /\ WantedMode(PhaseAfter(r)) = WantedMode(runtime.ext_phase)
             /\ NoneIn(out, ModeWrites)
    <3>1. Goal(writes, reports, wiimote.mode, runtime.ext_phase)
      BY <1>2, <2>4
    <3>2. CASE \E i \in 1..Len(writes) : writes[i].type = "RequestStatus"
      <4>1. PICK i \in 1..Len(writes) : writes[i].type = "RequestStatus"
        BY <3>2
      <4>2. i \in 1..Len(writes') /\ writes'[i] = writes[i]
        BY <1>1, <2>5, <4>1
      <4>3. QED
        BY <4>1, <4>2
    <3>3. CASE \E i \in 1..Len(reports) : reports[i].type = "Status"
      <4>1. PICK i \in 1..Len(reports) : reports[i].type = "Status"
        BY <3>3
      <4>2. i # 1
        BY <2>7, <4>1 DEF r
      <4>3. i - 1 \in 1..Len(reports') /\ (i - 1) + 1 = i
        BY <2>2, <4>1, <4>2
      <4>4. QED
        BY <2>2, <4>1, <4>3
    <3>4. CASE Becomes(writes, ModeWrites, {SetReportingMode(WantedMode(runtime.ext_phase))},
                       wiimote.mode, WantedMode(runtime.ext_phase))
      <4>1. NoneIn(all, ModeWrites)
        BY <2>5, <2>7
      <4>2. QED
        BY <1>1, <2>2, <2>4, <2>5, <2>7, <3>4, <4>1, BecomesAppended
    <3>5. QED
      BY <3>1, <3>2, <3>3, <3>4
  <2>8. QED
    BY <2>2, <2>6, <2>7, ModeAnswered DEF out
<1>14. CASE Deliver
  <2>1. /\ writes # <<>> /\ writes' = Tail(writes) /\ wiimote' = Obeyed(wiimote, Head(writes))
        /\ reports' = reports \o Replies(wiimote, Head(writes))
        /\ thread = "serving" /\ linked /\ runtime' = runtime
    BY <1>14 DEF Deliver, Heard
  <2>2. /\ Head(writes) = writes[1] /\ writes[1] \in Payload
        /\ Len(writes') = Len(writes) - 1 /\ Len(writes) \in Nat
        /\ \A i \in 1..Len(writes') : writes'[i] = writes[i + 1]
    BY <1>1, <2>1, TailOf
  <2>3. CASE writes[1].type = "RequestStatus"
    <3>1. reports' = reports \o <<Status(wiimote)>>
      BY <2>1, <2>2, <2>3 DEF Replies
    <3>2. /\ Len(reports') = Len(reports) + 1 /\ Len(reports) \in Nat
          /\ reports'[Len(reports) + 1] = Status(wiimote)
      BY <1>1, <3>1, ReportTypes
    <3>3. Len(reports) + 1 \in 1..Len(reports')
      BY <3>2
    <3>4. QED
      BY <3>2, <3>3 DEF Status
  <2>4. CASE writes[1].type # "RequestStatus"
    <3>1. Goal(writes, reports, wiimote.mode, runtime.ext_phase)
      BY <1>2, <2>1
    <3>2. CASE \E i \in 1..Len(writes) : writes[i].type = "RequestStatus"
      <4>1. PICK i \in 1..Len(writes) : writes[i].type = "RequestStatus"
        BY <3>2
      <4>2. i # 1
        BY <2>4, <4>1
      <4>3. i - 1 \in 1..Len(writes') /\ (i - 1) + 1 = i
        BY <2>2, <4>1, <4>2
      <4>4. QED
        BY <2>2, <4>1, <4>3
    <3>3. CASE \E i \in 1..Len(reports) : reports[i].type = "Status"
      <4>1. PICK i \in 1..Len(reports) : reports[i].type = "Status"
        BY <3>3
      <4>2. Replies(wiimote, writes[1]) \in Seq(Report)
        BY <1>1, <2>2, RepliesType DEF LinkTypes
      <4>3. i \in 1..Len(reports') /\ reports'[i] = reports[i]
        BY <1>1, <2>1, <2>2, <4>1, <4>2, ConcatOf
      <4>4. QED
        BY <4>1, <4>3
    <3>4. CASE Becomes(writes, ModeWrites, {SetReportingMode(WantedMode(runtime.ext_phase))},
                       wiimote.mode, WantedMode(runtime.ext_phase))
      <4>1. IF writes[1].type = "SetReportingMode" THEN wiimote'.mode = writes[1].mode
            ELSE wiimote'.mode = wiimote.mode
        BY <1>1, <2>1, <2>2, <2>4 DEF Obeyed, Wiimote
      <4>2. writes[1] \notin ModeWrites => wiimote'.mode = wiimote.mode
        BY <2>2, <4>1 DEF ModeWrites
      <4>3. writes[1] = SetReportingMode(WantedMode(runtime.ext_phase)) =>
              wiimote'.mode = WantedMode(runtime.ext_phase)
        BY <4>1 DEF SetReportingMode
      <4>4. QED
        BY <1>1, <2>1, <3>4, <4>2, <4>3, BecomesTaken
    <3>5. QED
      BY <3>1, <3>2, <3>3, <3>4
  <2>5. QED
    BY <2>3, <2>4
<1>15. CASE ThreadReturns \/ SwitchOff
  BY <1>15 DEF ThreadReturns, SwitchOff
<1>16. CASE SwitchOn \/ Flush \/ UNCHANGED linkVars
  <2>1. wiimote'.mode = wiimote.mode /\ UNCHANGED <<runtime, thread, linked, writes, reports>>
    BY <1>1, <1>16 DEF SwitchOn, Flush, Wiimote, linkVars
  <2>2. QED
    BY <1>2, <2>1
<1>17. CASE SendInput
  <2>1. PICK more \in Seq(Report) : Heard(more)
    <3>1. /\ <<[type |-> "ButtonsAccelExt", ext |-> wiimote.plugged]>> \in Seq(Report)
          /\ <<[type |-> "Buttons"]>> \in Seq(Report)
      <4>1. /\ [type |-> "ButtonsAccelExt", ext |-> wiimote.plugged] \in Report
            /\ [type |-> "Buttons"] \in Report
        BY <1>1 DEF Report, Wiimote
      <4>2. QED BY <4>1, OneOf
    <3>2. QED
      BY <1>17, <3>1 DEF SendInput
  <2>2. reports' = reports \o more /\ UNCHANGED <<runtime, thread, linked, writes, wiimote>>
    BY <1>17, <2>1 DEF SendInput, Heard
  <2>3. writes' = writes \o <<>>
    BY <1>1, <1>6, <2>2
  <2>4. QED
    BY <1>3, <1>5, <2>2, <2>3
<1>18. ASSUME NEW ext \in Extensions \cup {None}, Plug(ext)
       PROVE  Goal(writes', reports', wiimote'.mode, runtime'.ext_phase)
  <2>1. wiimote.on
    BY <1>18 DEF Plug, LinkShape
  <2>2. reports' = reports \o <<Status(wiimote')>>
    BY <1>18, <2>1 DEF Plug, Heard
  <2>3. wiimote' \in Wiimote
    BY <1>1, <1>18 DEF Plug, Wiimote
  <2>4. /\ Len(reports') = Len(reports) + 1 /\ Len(reports) \in Nat
        /\ reports'[Len(reports) + 1] = Status(wiimote')
    BY <1>1, <2>2, <2>3, ReportTypes
  <2>5. Len(reports) + 1 \in 1..Len(reports')
    BY <2>4
  <2>6. QED
    BY <2>4, <2>5 DEF Status
<1>19. QED
  BY <1>7, <1>8, <1>10, <1>11, <1>12, <1>13, <1>14, <1>15, <1>16, <1>17, <1>18, HandledReports
     DEF LinkNext

(* Every Status resets the reporting mode, and every one is answered with  *)
(* the mode that is wanted then (process_extension_fsm).                   *)
THEOREM ModeHolds == LinkSpec => []ModeIsReaffirmed
<1>1. LinkInit => ModeInv
  BY DEF LinkInit, ModeInv, Served
<1>2. LinkTypes /\ ModeInv => ModeIsReaffirmed
  <2> SUFFICES ASSUME LinkTypes, ModeInv, Served, ~Queued("RequestStatus"), ~Announced("Status")
               PROVE  ModeWillBe(WantedMode(runtime.ext_phase))
    BY DEF ModeIsReaffirmed
  <2> DEFINE mode == WantedMode(runtime.ext_phase)
  <2>1. Becomes(writes, ModeWrites, {SetReportingMode(mode)}, wiimote.mode, mode)
    BY DEF ModeInv
  <2>2. \A i \in 1..Len(writes) : writes[i] \notin ModeWrites <=> writes[i].type # "SetReportingMode"
    BY DEF LinkTypes, LinkTypeOK, ModeWrites
  <2>3. \A i \in 1..Len(writes) : \A j \in (i + 1)..Len(writes) : j \in 1..Len(writes)
    BY DEF LinkTypes, LinkTypeOK
  <2> HIDE DEF mode
  <2>4. QED
    BY <2>1, <2>2, <2>3 DEF Becomes, LastIn, NoneIn, ModeWillBe, Queued, mode
<1>3. LinkSpec => []LinkTypes
  BY LinkTypesHold DEF LinkTypes
<1>4. QED
  BY <1>1, <1>2, <1>3, LinkShapeHolds, ModeStep, PTL DEF LinkSpec

-----------------------------------------------------------------------------
(* The identity of the extension.  A queue of reports fits an extension    *)
(* when whatever the daemon will believe at its end, nothing having been   *)
(* unplugged on the way, is that extension: an answer that names it is     *)
(* only heeded after an acknowledged initialisation.                       *)
Unplugs(r) == r.type = "Status" /\ ~r.extension_connected

NoUnplugIn(q, first, last) == \A j \in first..last : ~Unplugs(q[j])
NamedIn(q, first, last, ext) == \A j \in first..last : Names(q[j]) => q[j].id = ext

Fits(phase, q, last, ext) ==
  /\ \A k \in 1..last :
       Acks(q[k]) /\ NoUnplugIn(q, k + 1, last) => NamedIn(q, k + 1, last, ext)
  /\ NoUnplugIn(q, 1, last) /\ Identified(phase) => phase = ext
  /\ NoUnplugIn(q, 1, last) /\ phase = "ReadingId" => NamedIn(q, 1, last, ext)

(* At the end of the queue, an initialisation has been acknowledged.       *)
Acked(phase, q, last) ==
  \/ phase = "ReadingId" /\ NoUnplugIn(q, 1, last)
  \/ \E k \in 1..last : Acks(q[k]) /\ NoUnplugIn(q, k + 1, last)

Listening == thread # "returned" /\ linked

IdentityInv ==
  /\ Listening => /\ Fits(runtime.ext_phase, reports, Len(reports), wiimote.plugged)
                  /\ Acked(runtime.ext_phase, reports, Len(reports)) => wiimote.inited
  /\ \A i \in 1..Len(reports) : reports[i].type = "ButtonsAccelExt" =>
       Fits(runtime.ext_phase, reports, i - 1, reports[i].ext)

LEMMA PhaseNames ==
  /\ \A ext \in Extensions \cup {Unknown} : Identified(ext) /\ ext \notin {None, "InitSent", "ReadingId"}
  /\ \A phase \in {None, "InitSent", "ReadingId"} : ~Identified(phase)
  /\ None # "ReadingId" /\ None # "InitSent" /\ "InitSent" # "ReadingId"
BY RemoteConstants DEF Identified

(* A queue that fits still does once its first report has been handled.    *)
LEMMA FitsAfterFirst ==
  ASSUME NEW q \in Seq(Report), q # <<>>, NEW last \in 1..Len(q), NEW ext
  PROVE  /\ Fits(runtime.ext_phase, q, last, ext) =>
              Fits(PhaseAfter(q[1]), Tail(q), last - 1, ext)
         /\ Acked(PhaseAfter(q[1]), Tail(q), last - 1) => Acked(runtime.ext_phase, q, last)
<1> DEFINE r == q[1]
           rest == Tail(q)
           phase == runtime.ext_phase
<1>1. /\ Len(q) \in Nat /\ last \in Nat /\ r \in Report
      /\ \A j \in 1..(last - 1) : rest[j] = q[j + 1]
  BY TailOf
<1>2. r.type = "ReadResponse" => r.id \in Extensions \cup {Unknown}
  BY <1>1 DEF Report
<1> HIDE DEF r, rest, phase
(* The rest says of j what q says of j + 1. *)
<1>3. ASSUME NEW first \in 1..last, NoUnplugIn(rest, first, last - 1)
      PROVE  NoUnplugIn(q, first + 1, last)
  <2>1. ASSUME NEW j \in (first + 1)..last
        PROVE  ~Unplugs(q[j])
    <3>1. j - 1 \in first..(last - 1) /\ j - 1 \in 1..(last - 1) /\ (j - 1) + 1 = j
      BY <1>1
    <3>2. ~Unplugs(rest[j - 1]) /\ rest[j - 1] = q[j]
      BY <1>1, <1>3, <3>1 DEF NoUnplugIn
    <3>3. QED
      BY <3>2
  <2>2. QED
    BY <2>1 DEF NoUnplugIn
<1>4. ASSUME NEW first \in 1..last, NamedIn(q, first + 1, last, ext)
      PROVE  NamedIn(rest, first, last - 1, ext)
  <2>1. ASSUME NEW j \in first..(last - 1), Names(rest[j])
        PROVE  rest[j].id = ext
    <3>1. j + 1 \in (first + 1)..last /\ j \in 1..(last - 1)
      BY <1>1
    <3>2. QED
      BY <1>1, <1>4, <2>1, <3>1 DEF NamedIn
  <2>2. QED
    BY <2>1 DEF NamedIn
<1>5. ASSUME ~Unplugs(r), NoUnplugIn(q, 2, last)
      PROVE  NoUnplugIn(q, 1, last)
  BY <1>1, <1>5 DEF NoUnplugIn, r
<1>6. NamedIn(q, 1, last, ext) => NamedIn(q, 2, last, ext)
  BY <1>1 DEF NamedIn
<1>7. Unplugs(r) => PhaseAfter(r) = None
  BY DEF Unplugs, PhaseAfter, PhaseAfterStatus, Acks, Names
<1>8. ~Unplugs(r) => \/ PhaseAfter(r) = phase
                     \/ phase = None /\ PhaseAfter(r) = "InitSent"
                     \/ Acks(r) /\ PhaseAfter(r) = "ReadingId"
                     \/ Names(r) /\ phase = "ReadingId" /\ PhaseAfter(r) = r.id
  BY DEF Unplugs, PhaseAfter, PhaseAfterStatus, phase
<1>9. Names(r) => r.id \in Extensions \cup {Unknown}
  BY <1>2 DEF Names
<1>10. 1 \in 1..last
  BY <1>1
<1>11. ASSUME Fits(phase, q, last, ext)
       PROVE  Fits(PhaseAfter(r), rest, last - 1, ext)
  <2>1. ASSUME NEW k \in 1..(last - 1), Acks(rest[k]), NoUnplugIn(rest, k + 1, last - 1)
        PROVE  NamedIn(rest, k + 1, last - 1, ext)
    <3>1. k + 1 \in 1..last /\ Acks(q[k + 1])
      BY <1>1, <2>1
    <3>2. NoUnplugIn(q, (k + 1) + 1, last)
      BY <1>3, <2>1, <3>1
    <3>3. NamedIn(q, (k + 1) + 1, last, ext)
      BY <1>11, <3>1, <3>2 DEF Fits
    <3>4. QED
      BY <1>4, <3>1, <3>3
  <2>2. ASSUME NoUnplugIn(rest, 1, last - 1), Identified(PhaseAfter(r))
        PROVE  PhaseAfter(r) = ext
    <3>1. ~Unplugs(r)
      BY <1>7, <2>2, PhaseNames
    <3>2. NoUnplugIn(q, 1, last)
      BY <1>3, <1>5, <1>10, <2>2, <3>1
    <3>3. CASE PhaseAfter(r) = phase
      BY <1>11, <2>2, <3>2, <3>3 DEF Fits
    <3>4. CASE Names(r) /\ phase = "ReadingId" /\ PhaseAfter(r) = r.id
      BY <1>10, <1>11, <3>2, <3>4 DEF Fits, NamedIn, r
    <3>5. QED
      BY <1>8, <2>2, <3>1, <3>3, <3>4, PhaseNames
  <2>3. ASSUME NoUnplugIn(rest, 1, last - 1), PhaseAfter(r) = "ReadingId"
        PROVE  NamedIn(rest, 1, last - 1, ext)
    <3>1. ~Unplugs(r)
      BY <1>7, <2>3, PhaseNames
    <3>2. NoUnplugIn(q, 2, last) /\ NoUnplugIn(q, 1, last)
      BY <1>3, <1>5, <1>10, <2>3, <3>1
    <3>3. CASE phase = "ReadingId"
      BY <1>4, <1>6, <1>10, <1>11, <3>2, <3>3 DEF Fits
    <3>4. CASE Acks(r)
      <4>1. Acks(q[1]) /\ NoUnplugIn(q, 1 + 1, last)
        BY <3>2, <3>4 DEF r
      <4>2. NamedIn(q, 1 + 1, last, ext)
        BY <1>10, <1>11, <4>1 DEF Fits
      <4>3. QED
        BY <1>4, <1>10, <4>2
    <3>5. QED
      BY <1>8, <1>9, <2>3, <3>1, <3>3, <3>4, PhaseNames
  <2>4. QED
    BY <2>1, <2>2, <2>3 DEF Fits
<1>12. ASSUME Acked(PhaseAfter(r), rest, last - 1)
       PROVE  Acked(phase, q, last)
  <2>1. CASE PhaseAfter(r) = "ReadingId" /\ NoUnplugIn(rest, 1, last - 1)
    <3>1. ~Unplugs(r)
      BY <1>7, <2>1, PhaseNames
    <3>2. NoUnplugIn(q, 1 + 1, last) /\ NoUnplugIn(q, 1, last)
      BY <1>3, <1>5, <1>10, <2>1, <3>1
    <3>3. phase = "ReadingId" \/ Acks(q[1])
      BY <1>8, <1>9, <2>1, <3>1, PhaseNames DEF r
    <3>4. QED
      BY <1>10, <3>2, <3>3 DEF Acked
  <2>2. ASSUME NEW k \in 1..(last - 1), Acks(rest[k]), NoUnplugIn(rest, k + 1, last - 1)
        PROVE  Acked(phase, q, last)
    <3>1. k + 1 \in 1..last /\ Acks(q[k + 1])
      BY <1>1, <2>2
    <3>2. NoUnplugIn(q, (k + 1) + 1, last)
      BY <1>3, <2>2, <3>1
    <3>3. QED
      BY <3>1, <3>2 DEF Acked
  <2>3. QED
    BY <1>12, <2>1, <2>2 DEF Acked
<1>13. QED
  BY <1>11, <1>12 DEF r, rest, phase

(* What follows the end of a queue does not matter to it.                  *)
LEMMA FitsPrefix ==
  ASSUME NEW q, NEW p, NEW last \in Nat, \A j \in 1..last : p[j] = q[j],
         NEW phase, NEW ext, Fits(phase, q, last, ext)
  PROVE  Fits(phase, p, last, ext)
<1>1. ASSUME NEW first \in 1..(last + 1)
      PROVE  /\ NoUnplugIn(p, first, last) => NoUnplugIn(q, first, last)
             /\ NamedIn(q, first, last, ext) => NamedIn(p, first, last, ext)
  <2>1. \A j \in first..last : j \in 1..last
    OBVIOUS
  <2>2. \A j \in first..last : p[j] = q[j]
    BY <2>1
  <2>3. QED
    BY <2>2 DEF NoUnplugIn, NamedIn
<1>2. ASSUME NEW k \in 1..last, Acks(p[k]), NoUnplugIn(p, k + 1, last)
      PROVE  NamedIn(p, k + 1, last, ext)
  <2>1. k + 1 \in 1..(last + 1) /\ Acks(q[k])
    BY <1>2
  <2>2. NoUnplugIn(q, k + 1, last)
    BY <1>1, <1>2, <2>1
  <2>3. NamedIn(q, k + 1, last, ext)
    BY <2>1, <2>2 DEF Fits
  <2>4. QED
    BY <1>1, <2>1, <2>3
<1>3. ASSUME NoUnplugIn(p, 1, last)
      PROVE  /\ Identified(phase) => phase = ext
             /\ phase = "ReadingId" => NamedIn(p, 1, last, ext)
  <2>1. 1 \in 1..(last + 1)
    OBVIOUS
  <2>2. NoUnplugIn(q, 1, last)
    BY <1>1, <1>3, <2>1
  <2>3. /\ Identified(phase) => phase = ext
        /\ phase = "ReadingId" => NamedIn(q, 1, last, ext)
    BY <2>2 DEF Fits
  <2>4. QED
    BY <1>1, <2>1, <2>3
<1>4. QED
  BY <1>2, <1>3 DEF Fits

LEMMA SnocOf ==
  ASSUME NEW S, NEW q \in Seq(S), NEW x \in S
  PROVE  /\ Len(q \o <<x>>) = Len(q) + 1 /\ Len(q) \in Nat
         /\ (q \o <<x>>)[Len(q) + 1] = x
         /\ \A i \in 1..Len(q) : (q \o <<x>>)[i] = q[i]
OBVIOUS

(* One more report: what the Wiimote says while nothing changes ...        *)
LEMMA FitsHeard ==
  ASSUME NEW q \in Seq(Report), NEW m \in Report, NEW phase, NEW ext, NEW inited,
         Fits(phase, q, Len(q), ext),
         Acked(phase, q, Len(q)) => inited,
         Names(m) /\ inited => m.id = ext
  PROVE  /\ Fits(phase, q \o <<m>>, Len(q) + 1, ext)
         /\ Acked(phase, q \o <<m>>, Len(q) + 1) => Acked(phase, q, Len(q)) \/ Acks(m)
<1> DEFINE p == q \o <<m>>
           last == Len(q)
<1>1. last \in Nat /\ p[last + 1] = m /\ \A j \in 1..last : p[j] = q[j]
  BY SnocOf
<1> HIDE DEF p, last
<1>2. ASSUME NEW first \in 1..(last + 1), NoUnplugIn(p, first, last + 1)
      PROVE  NoUnplugIn(q, first, last)
  <2>1. \A j \in first..last : j \in first..(last + 1) /\ j \in 1..last
    BY <1>1
  <2>2. QED
    BY <1>1, <1>2, <2>1 DEF NoUnplugIn
<1>3. ASSUME NEW first \in 1..(last + 1), NamedIn(q, first, last, ext), inited
      PROVE  NamedIn(p, first, last + 1, ext)
  <2>1. ASSUME NEW j \in first..(last + 1), Names(p[j])
        PROVE  p[j].id = ext
    <3>1. CASE j = last + 1
      BY <1>1, <1>3, <2>1, <3>1
    <3>2. CASE j # last + 1
      <4>1. j \in first..last /\ j \in 1..last
        BY <1>1, <3>2
      <4>2. QED
        BY <1>1, <1>3, <2>1, <4>1 DEF NamedIn
    <3>3. QED BY <3>1, <3>2
  <2>2. QED
    BY <2>1 DEF NamedIn
<1>4. ASSUME NEW k \in 1..(last + 1), Acks(p[k]), NoUnplugIn(p, k + 1, last + 1)
      PROVE  /\ NamedIn(p, k + 1, last + 1, ext)
             /\ Acked(phase, q, last) \/ Acks(m)
  <2>1. CASE k = last + 1
    <3>1. (k + 1)..(last + 1) = {}
      BY <1>1, <2>1
    <3>2. QED
      BY <1>1, <1>4, <2>1, <3>1 DEF NamedIn
  <2>2. CASE k # last + 1
    <3>1. k \in 1..last /\ k + 1 \in 1..(last + 1)
      BY <1>1, <2>2
    <3>2. Acks(q[k]) /\ NoUnplugIn(q, k + 1, last)
      BY <1>1, <1>2, <1>4, <3>1
    <3>3. NamedIn(q, k + 1, last, ext) /\ Acked(phase, q, last)
      BY <3>1, <3>2 DEF Fits, Acked, last
    <3>4. QED
      BY <1>3, <3>1, <3>3 DEF last
  <2>3. QED BY <2>1, <2>2
<1>5. 1 \in 1..(last + 1)
  BY <1>1
<1>6. ASSUME NoUnplugIn(p, 1, last + 1)
      PROVE  /\ Identified(phase) => phase = ext
             /\ phase = "ReadingId" => NamedIn(p, 1, last + 1, ext) /\ Acked(phase, q, last)
  <2>1. NoUnplugIn(q, 1, last)
    BY <1>2, <1>5, <1>6
  <2>2. Identified(phase) => phase = ext
    BY <2>1 DEF Fits, last
  <2>3. ASSUME phase = "ReadingId"
        PROVE  NamedIn(p, 1, last + 1, ext) /\ Acked(phase, q, last)
    <3>1. NamedIn(q, 1, last, ext) /\ Acked(phase, q, last)
      BY <2>1, <2>3 DEF Fits, Acked, last
    <3>2. QED
      BY <1>3, <1>5, <3>1 DEF last
  <2>4. QED BY <2>2, <2>3
<1>7. Fits(phase, p, last + 1, ext)
  BY <1>4, <1>6 DEF Fits
<1>8. Acked(phase, p, last + 1) => Acked(phase, q, last) \/ Acks(m)
  <2>1. SUFFICES ASSUME Acked(phase, p, last + 1) PROVE Acked(phase, q, last) \/ Acks(m)
    OBVIOUS
  <2>2. CASE phase = "ReadingId" /\ NoUnplugIn(p, 1, last + 1)
    BY <1>6, <2>2
  <2>3. CASE \E k \in 1..(last + 1) : Acks(p[k]) /\ NoUnplugIn(p, k + 1, last + 1)
    BY <1>4, <2>3
  <2>4. QED
    BY <2>1, <2>2, <2>3 DEF Acked
<1>9. QED
  BY <1>7, <1>8 DEF p, last

(* ... and the Status it sends when something is plugged in or unplugged.  *)
LEMMA FitsChanged ==
  ASSUME NEW q \in Seq(Report), NEW m \in Report, m.type = "Status",
         NEW phase, NEW now, NEW ext,
         Fits(phase, q, Len(q), now),
         Unplugs(m) \/ (now = None /\ ~Acked(phase, q, Len(q)))
  PROVE  /\ Fits(phase, q \o <<m>>, Len(q) + 1, ext)
         /\ ~Acked(phase, q \o <<m>>, Len(q) + 1)
<1> DEFINE p == q \o <<m>>
           last == Len(q)
<1>1. last \in Nat /\ p[last + 1] = m /\ \A j \in 1..last : p[j] = q[j]
  BY SnocOf
<1>2. ~Acks(m)
  BY DEF Acks
<1> HIDE DEF p, last
<1>3. ASSUME NEW first \in 1..(last + 1), NoUnplugIn(p, first, last + 1)
      PROVE  NoUnplugIn(q, first, last) /\ ~Unplugs(m)
  <2>1. /\ \A j \in first..last : j \in first..(last + 1) /\ j \in 1..last
        /\ last + 1 \in first..(last + 1)
    BY <1>1
  <2>2. QED
    BY <1>1, <1>3, <2>1 DEF NoUnplugIn
<1>4. ASSUME NEW k \in 1..(last + 1), Acks(p[k]), NoUnplugIn(p, k + 1, last + 1)
      PROVE  FALSE
  <2>1. k \in 1..last /\ k + 1 \in 1..(last + 1)
    <3>1. k # last + 1
      BY <1>1, <1>2, <1>4
    <3>2. QED BY <1>1, <3>1
  <2>2. Acks(q[k]) /\ NoUnplugIn(q, k + 1, last) /\ ~Unplugs(m)
    BY <1>1, <1>3, <1>4, <2>1
  <2>3. QED
    BY <2>1, <2>2 DEF Acked, last
<1>5. ASSUME NoUnplugIn(p, 1, last + 1)
      PROVE  ~Identified(phase) /\ phase # "ReadingId"
  <2>1. NoUnplugIn(q, 1, last) /\ ~Unplugs(m)
    <3>1. 1 \in 1..(last + 1)
      BY <1>1
    <3>2. QED BY <1>3, <1>5, <3>1
  <2>2. Identified(phase) => phase = None
    BY <2>1 DEF Fits, last
  <2>3. phase # "ReadingId"
    BY <2>1 DEF Acked, last
  <2>4. QED
    BY <2>2, <2>3, PhaseNames
<1>6. QED
  BY <1>4, <1>5 DEF Fits, Acked, p, last

(* What the daemon hears of a step of the thread, the Wiimote or its owner.*)
LEMMA OutsideHeard ==
  ASSUME LinkTypes, LinkShape, OutsideStep
  PROVE  /\ runtime' = runtime
         /\ \/ /\ reports' = reports
               /\ Listening' => /\ Listening
                                /\ wiimote'.plugged = wiimote.plugged
                                /\ wiimote.inited => wiimote'.inited
            \/ \E m \in Report :
                 /\ reports' = reports \o <<m>> /\ Listening
                 /\ wiimote'.plugged = wiimote.plugged
                 /\ wiimote.inited \/ Acks(m) => wiimote'.inited
                 /\ Names(m) /\ wiimote.inited => m.id = wiimote.plugged
                 /\ m.type = "ButtonsAccelExt" => m.ext = wiimote.plugged
            \/ \E m \in Report :
                 /\ reports' = reports \o <<m>> /\ Listening
                 /\ m.type = "Status" /\ (Unplugs(m) \/ wiimote.plugged = None)
            \/ \E m \in Report :
                 reports' = reports \o <<m>> /\ m.type = "lost" /\ ~Listening'
<1>1. /\ wiimote \in Wiimote /\ writes \in Seq(Payload) /\ reports \in Seq(Report)
      /\ wiimote.inited => wiimote.plugged # None
  BY DEF LinkTypes, LinkTypeOK
<1>2. reports \o <<>> = reports
  BY <1>1
<1>3. CASE Deliver
  <2>1. /\ writes # <<>> /\ wiimote' = Obeyed(wiimote, Head(writes))
        /\ reports' = reports \o Replies(wiimote, Head(writes))
        /\ Listening /\ runtime' = runtime
    BY <1>3 DEF Deliver, Heard, Listening
  <2> DEFINE p == Head(writes)
  <2>2. p \in Payload
    BY <1>1, <2>1, TailOf
  <2>3. wiimote' = Obeyed(wiimote, p) /\ reports' = reports \o Replies(wiimote, p)
    BY <2>1
  <2> HIDE DEF p
  <2>4. /\ wiimote'.plugged = wiimote.plugged
        /\ wiimote.inited => wiimote'.inited
        /\ p.type = "WriteRegister" => wiimote'.inited = (wiimote.plugged # None)
    BY <1>1, <2>3 DEF Obeyed, Wiimote
  <2>5. CASE p.type = "RequestStatus"
    <3>1. reports' = reports \o <<Status(wiimote)>> /\ Status(wiimote) \in Report
      BY <1>1, <2>3, <2>5, ReportTypes DEF Replies
    <3>2. ~Acks(Status(wiimote)) /\ ~Names(Status(wiimote)) /\ Status(wiimote).type = "Status"
      BY DEF Status, Acks, Names
    <3>3. QED
      BY <2>1, <2>4, <3>1, <3>2
  <2>6. CASE p.type = "WriteRegister"
    <3> DEFINE m == [type |-> "Ack", ok |-> wiimote.plugged # None]
    <3>1. reports' = reports \o <<m>>
      BY <2>3, <2>6 DEF Replies
    <3>2. m \in Report /\ m.type = "Ack" /\ m.ok = (wiimote.plugged # None)
      BY DEF Report
    <3>3. ~Names(m) /\ (Acks(m) => wiimote.plugged # None)
      BY <3>2 DEF Acks, Names
    <3> HIDE DEF m
    <3>4. QED
      BY <2>1, <2>4, <2>6, <3>1, <3>2, <3>3
  <2>7. CASE p.type = "ReadRegister"
    <3> DEFINE id == IF wiimote.inited THEN wiimote.plugged ELSE Unknown
               m == [type |-> "ReadResponse", ok |-> wiimote.plugged # None, id |-> id]
    <3>1. reports' = reports \o <<m>>
      BY <2>3, <2>7 DEF Replies
    <3>2. id \in Extensions \cup {Unknown}
      BY <1>1 DEF Wiimote
    <3>3. m \in Report /\ m.type = "ReadResponse" /\ (wiimote.inited => m.id = wiimote.plugged)
      BY <3>2 DEF Report
    <3> HIDE DEF m
    <3>4. ~Acks(m)
      BY <3>3 DEF Acks
    <3>5. QED
      BY <2>1, <2>4, <3>1, <3>3, <3>4
  <2>8. CASE p.type \notin {"RequestStatus", "WriteRegister", "ReadRegister"}
    <3>1. reports' = reports
      BY <1>2, <2>3, <2>8 DEF Replies
    <3>2. QED
      BY <2>1, <2>4, <3>1
  <2>9. QED
    BY <2>5, <2>6, <2>7, <2>8
<1>4. CASE ThreadReturns
  <2>1. reports' = reports \o <<Lost>> /\ ~Listening' /\ runtime' = runtime
    BY <1>1, <1>4 DEF ThreadReturns, Listening
  <2>2. Lost \in Report /\ Lost.type = "lost"
    BY ReportTypes DEF Lost
  <2>3. QED
    BY <2>1, <2>2
<1>5. CASE SwitchOn
  <2>1. wiimote'.plugged = wiimote.plugged /\ wiimote'.inited = wiimote.inited
    BY <1>1, <1>5 DEF SwitchOn, Wiimote
  <2>2. QED
    BY <1>5, <2>1 DEF SwitchOn, Listening
<1>6. CASE SwitchOff
  BY <1>6 DEF SwitchOff, Listening
<1>7. CASE SendInput
  <2>1. runtime' = runtime /\ wiimote' = wiimote /\ (Listening' <=> Listening)
    BY <1>7 DEF SendInput, Listening
  <2>2. PICK m \in Report : /\ Heard(<<m>>) /\ ~Acks(m) /\ ~Names(m)
                            /\ m.type = "ButtonsAccelExt" => m.ext = wiimote.plugged
    <3>1. CASE wiimote.mode = 53
      <4> DEFINE m == [type |-> "ButtonsAccelExt", ext |-> wiimote.plugged]
      <4>1. Heard(<<m>>)
        BY <1>7, <3>1 DEF SendInput
      <4>2. m \in Report
        BY <1>1 DEF Report, Wiimote
      <4>3. m.ext = wiimote.plugged /\ ~Acks(m) /\ ~Names(m)
        BY DEF Acks, Names
      <4>4. QED
        BY <4>1, <4>2, <4>3
    <3>2. CASE wiimote.mode # 53
      <4> DEFINE m == [type |-> "Buttons"]
      <4>1. Heard(<<m>>)
        BY <1>7, <3>2 DEF SendInput
      <4>2. m \in Report /\ m.type = "Buttons" /\ ~Acks(m) /\ ~Names(m)
        BY DEF Report, Acks, Names
      <4>3. QED
        BY <4>1, <4>2
    <3>3. QED
      BY <3>1, <3>2
  <2>3. CASE Listening
    <3>1. reports' = reports \o <<m>>
      BY <2>2, <2>3 DEF Heard, Listening
    <3>2. QED
      BY <2>1, <2>2, <2>3, <3>1
  <2>4. CASE ~Listening
    BY <2>1, <2>2, <2>4 DEF Heard, Listening
  <2>5. QED
    BY <2>3, <2>4
<1>8. ASSUME NEW ext \in Extensions \cup {None}, Plug(ext)
      PROVE  /\ runtime' = runtime
             /\ \/ reports' = reports /\ ~Listening'
                \/ \E m \in Report :
                     /\ reports' = reports \o <<m>> /\ Listening
                     /\ m.type = "Status" /\ (Unplugs(m) \/ wiimote.plugged = None)
  <2>1. /\ runtime' = runtime /\ (Listening' <=> Listening)
        /\ wiimote' = [wiimote EXCEPT !.plugged = ext, !.inited = FALSE, !.mode = 48]
        /\ wiimote.plugged = None \/ ext = None
    BY <1>8 DEF Plug, Listening
  <2>2. wiimote' \in Wiimote /\ wiimote'.plugged = ext
    BY <1>1, <1>8, <2>1 DEF Wiimote
  <2>3. CASE Listening
    <3>1. reports' = reports \o <<Status(wiimote')>>
      BY <1>8, <2>3 DEF Plug, Heard, Listening, LinkShape
    <3>2. Status(wiimote') \in Report /\ Status(wiimote').type = "Status"
      BY <2>2, ReportTypes DEF Status
    <3>3. Unplugs(Status(wiimote')) \/ wiimote.plugged = None
      BY <2>1, <2>2 DEF Unplugs, Status
    <3>4. QED
      BY <2>1, <2>3, <3>1, <3>2, <3>3
  <2>4. CASE ~Listening
    BY <1>8, <2>1, <2>4 DEF Plug, Heard, Listening
  <2>5. QED
    BY <2>3, <2>4
<1>9. QED
  BY <1>3, <1>4, <1>5, <1>6, <1>7, <1>8 DEF OutsideStep

(* Every step keeps the handshake in agreement with the Wiimote.           *)
LEMMA IdentityStep ==
  ASSUME LinkTypes, LinkShape, IdentityInv, [LinkNext]_linkVars
  PROVE  IdentityInv'
<1> USE DEF LinkTypes
<1> DEFINE phase == runtime.ext_phase
           now == wiimote.plugged
           Right(q, ph, ext, inited) == /\ Fits(ph, q, Len(q), ext)
                                        /\ Acked(ph, q, Len(q)) => inited
           InputsFit(q, ph) == \A i \in 1..Len(q) : q[i].type = "ButtonsAccelExt" =>
                                 Fits(ph, q, i - 1, q[i].ext)
<1>1. runtime \in Runtime /\ wiimote \in Wiimote /\ reports \in Seq(Report) /\ Len(reports) \in Nat
  BY DEF LinkTypeOK
<1>2. Listening => Right(reports, phase, now, wiimote.inited)
  BY DEF IdentityInv
<1>3. InputsFit(reports, phase)
  BY DEF IdentityInv
<1>4. SUFFICES /\ Listening' => Right(reports', runtime'.ext_phase, wiimote'.plugged, wiimote'.inited)
               /\ InputsFit(reports', runtime'.ext_phase)
  BY DEF IdentityInv
(* An idle handshake believes nothing that could be wrong.                 *)
<1>5. /\ \A q, last, ext : Fits(phase, q, last, ext) => Fits(None, q, last, ext)
      /\ \A q, last : Acked(None, q, last) => Acked(phase, q, last)
  BY PhaseNames DEF Fits, Acked
<1> HIDE DEF phase, now
<1>6. CASE Open
  <2>1. reports = <<>> /\ runtime'.ext_phase = None /\ reports' = reports
    BY <1>1, <1>6 DEF Open, LinkShape, LinkTypeOK, Lost, Report, NewSession
  <2>2. Len(reports') = 0
    BY <2>1
  <2>3. QED
    BY <2>1, <2>2, PhaseNames DEF Fits, Acked
<1>7. CASE \/ OpenAgain \/ HandleDisconnect \/ HandleIdentify \/ TickRumbleOff \/ TickKeepalive
           \/ Flush \/ UNCHANGED linkVars
  <2>1. /\ reports' = reports /\ wiimote' = wiimote
        /\ Listening' => Listening
        /\ runtime'.ext_phase \in {phase, None}
    <3>1. CASE HandleDisconnect
      BY <3>1 DEF HandleDisconnect, CloseHandle, ResetSession, NewSession, Listening
    <3>2. CASE Flush \/ TickKeepalive \/ UNCHANGED linkVars
      BY <3>2 DEF Flush, TickKeepalive, linkVars, Listening, phase
    <3>3. CASE OpenAgain \/ HandleIdentify \/ TickRumbleOff
      <4>1. runtime'.ext_phase = phase
        BY <1>1, <3>3 DEF OpenAgain, HandleIdentify, TickRumbleOff, Runtime, phase
      <4>2. UNCHANGED <<thread, linked, reports, wiimote>>
        BY <3>3 DEF OpenAgain, HandleIdentify, TickRumbleOff
      <4>3. QED
        BY <4>1, <4>2 DEF Listening
    <3>4. QED
      BY <1>7, <3>1, <3>2, <3>3
  <2>2. QED
    BY <1>2, <1>3, <1>5, <2>1 DEF now
<1>8. CASE HandleLost
  <2>1. reports # <<>> /\ reports[1].type = "lost" /\ reports' = Tail(reports)
    BY <1>1, <1>8, TailOf DEF HandleLost, Receive
  <2>2. 1 \in 1..Len(reports)
    BY <1>1, <2>1
  <2>3. Len(reports) = 1 /\ thread = "returned"
    BY <2>1, <2>2 DEF LinkShape
  <2>4. Len(reports') = 0
    BY <1>1, <2>1, <2>3, TailOf
  <2>5. ~Listening'
    BY <1>8, <2>3 DEF HandleLost, CloseHandle, Listening
  <2>6. QED
    BY <2>4, <2>5
<1>9. CASE Handled
  <2>1. PICK promotion \in Promotions, ext \in Extensions \cup {Unknown, None} :
          Answer(promotion, PhaseAfter(reports[1]), ext, OutAfter(reports[1]))
    BY <1>9 DEF Handled
  <2>2. OutAfter(reports[1]) \in Seq(Payload)
    BY OutTypes
  <2>3. /\ runtime'.ext_phase = PhaseAfter(reports[1])
        /\ linked' = linked
        /\ thread' = "returned" => thread = "returned"
        /\ thread = "returned" => thread' = "returned"
    BY <2>1, <2>2, AnswerShape DEF LinkShape
  <2>4. /\ reports # <<>> /\ reports' = Tail(reports) /\ wiimote' = wiimote
    BY <1>9 DEF Handled
  <2>5. /\ Len(reports') = Len(reports) - 1 /\ Len(reports') \in Nat
        /\ \A i \in 1..Len(reports') : reports'[i] = reports[i + 1]
    BY <1>1, <2>4, TailOf
  <2>6. Listening' => Listening
    BY <2>3 DEF Listening
  <2>7. ASSUME Listening'
        PROVE  Right(reports', runtime'.ext_phase, wiimote'.plugged, wiimote'.inited)
    <3>1. Right(reports, phase, now, wiimote.inited)
      BY <1>2, <2>6, <2>7
    <3>2. Len(reports) \in 1..Len(reports)
      BY <1>1, <2>5
    <3>3. QED
      BY <1>1, <2>3, <2>4, <2>5, <3>1, <3>2, FitsAfterFirst DEF phase, now
  <2>8. ASSUME NEW i \in 1..Len(reports'), reports'[i].type = "ButtonsAccelExt"
        PROVE  Fits(runtime'.ext_phase, reports', i - 1, reports'[i].ext)
    <3>1. i + 1 \in 1..Len(reports) /\ i \in 1..Len(reports) /\ (i + 1) - 1 = i
      BY <2>5
    <3>2. reports'[i] = reports[i + 1]
      BY <2>5
    <3>3. Fits(phase, reports, i, reports[i + 1].ext)
      BY <1>3, <2>8, <3>1, <3>2
    <3>4. QED
      BY <1>1, <2>3, <2>4, <3>1, <3>2, <3>3, FitsAfterFirst DEF phase
  <2>9. QED
    BY <2>7, <2>8
<1>10. CASE OutsideStep
  <2>1. runtime'.ext_phase = phase
    BY <1>10, OutsideHeard DEF phase
  <2>2. CASE /\ reports' = reports
             /\ Listening' => /\ Listening
                              /\ wiimote'.plugged = wiimote.plugged
                              /\ wiimote.inited => wiimote'.inited
    BY <1>2, <1>3, <2>1, <2>2 DEF now
  (* An input that is added fits what is plugged in. *)
  <2>3. ASSUME NEW m \in Report, reports' = reports \o <<m>>,
               m.type = "ButtonsAccelExt" => Fits(phase, reports, Len(reports), m.ext)
        PROVE  InputsFit(reports', runtime'.ext_phase)
    <3>1. /\ Len(reports') = Len(reports) + 1 /\ reports'[Len(reports) + 1] = m
          /\ \A i \in 1..Len(reports) : reports'[i] = reports[i]
      BY <1>1, <2>3, SnocOf
    <3>2. ASSUME NEW i \in 1..Len(reports'), reports'[i].type = "ButtonsAccelExt"
          PROVE  Fits(phase, reports', i - 1, reports'[i].ext)
      <4>1. i - 1 \in Nat /\ \A j \in 1..(i - 1) : reports'[j] = reports[j]
        BY <1>1, <3>1
      <4>2. Fits(phase, reports, i - 1, reports'[i].ext)
        <5>1. CASE i = Len(reports) + 1
          <6>1. i - 1 = Len(reports) /\ reports'[i] = m
            BY <1>1, <3>1, <5>1
          <6>2. QED
            BY <2>3, <3>2, <6>1
        <5>2. CASE i # Len(reports) + 1
          <6>1. i \in 1..Len(reports) /\ reports'[i] = reports[i]
            BY <1>1, <3>1, <5>2
          <6>2. QED
            BY <1>3, <3>2, <6>1
        <5>3. QED BY <5>1, <5>2
      <4>3. QED
        BY <4>1, <4>2, FitsPrefix
    <3>3. QED
      BY <2>1, <3>2
  <2>4. ASSUME NEW m \in Report, reports' = reports \o <<m>>, Listening,
               wiimote'.plugged = wiimote.plugged,
               wiimote.inited \/ Acks(m) => wiimote'.inited,
               Names(m) /\ wiimote.inited => m.id = wiimote.plugged,
               m.type = "ButtonsAccelExt" => m.ext = wiimote.plugged
        PROVE  /\ Right(reports', runtime'.ext_phase, wiimote'.plugged, wiimote'.inited)
               /\ InputsFit(reports', runtime'.ext_phase)
    <3>1. Fits(phase, reports, Len(reports), now) /\ (Acked(phase, reports, Len(reports)) => wiimote.inited)
      BY <1>2, <2>4
    <3>2. /\ Fits(phase, reports', Len(reports) + 1, now)
          /\ Acked(phase, reports', Len(reports) + 1) =>
                Acked(phase, reports, Len(reports)) \/ Acks(m)
      BY <1>1, <2>4, <3>1, FitsHeard DEF now
    <3>3. Len(reports') = Len(reports) + 1
      BY <1>1, <2>4, SnocOf
    <3>4. Right(reports', runtime'.ext_phase, wiimote'.plugged, wiimote'.inited)
      BY <2>1, <2>4, <3>1, <3>2, <3>3 DEF now
    <3>5. InputsFit(reports', runtime'.ext_phase)
      BY <2>3, <2>4, <3>1 DEF now
    <3>6. QED BY <3>4, <3>5
  <2>5. ASSUME NEW m \in Report, reports' = reports \o <<m>>, Listening,
               m.type = "Status", Unplugs(m) \/ wiimote.plugged = None
        PROVE  /\ Right(reports', runtime'.ext_phase, wiimote'.plugged, wiimote'.inited)
               /\ InputsFit(reports', runtime'.ext_phase)
    <3>1. /\ Fits(phase, reports, Len(reports), now)
          /\ now = None => ~Acked(phase, reports, Len(reports))
      BY <1>2, <2>5 DEF now
    <3>2. /\ Fits(phase, reports', Len(reports) + 1, wiimote'.plugged)
          /\ ~Acked(phase, reports', Len(reports) + 1)
      BY <1>1, <2>5, <3>1, FitsChanged DEF now
    <3>3. Len(reports') = Len(reports) + 1
      BY <1>1, <2>5, SnocOf
    <3>4. InputsFit(reports', runtime'.ext_phase)
      BY <2>3, <2>5
    <3>5. QED
      BY <2>1, <3>2, <3>3, <3>4
  <2>6. ASSUME NEW m \in Report, reports' = reports \o <<m>>, m.type = "lost"
        PROVE  InputsFit(reports', runtime'.ext_phase)
    BY <2>3, <2>6
  <2>7. QED
    BY <1>10, <2>2, <2>4, <2>5, <2>6, OutsideHeard
<1>11. QED
  BY <1>6, <1>7, <1>8, <1>9, <1>10, StepKinds, HandledReports DEF CommandOrTick, HandleReport

(* The phase of the handshake agrees with the Wiimote across everything    *)
(* that is on its way, at every step of both.                              *)
THEOREM IdentityInvHolds == LinkSpec => []IdentityInv
<1>1. LinkInit => IdentityInv
  BY DEF LinkInit, IdentityInv, Listening
<1>2. LinkSpec => []LinkTypes
  BY LinkTypesHold DEF LinkTypes
<1>3. QED
  BY <1>1, <1>2, LinkShapeHolds, IdentityStep, PTL DEF LinkSpec

(* What was identified is what is plugged in, unless the Status that tells *)
(* of the change is on its way (process_extension_fsm).                    *)
THEOREM IdentityHolds == LinkSpec => []IdentityIsRight
<1>1. LinkTypes /\ IdentityInv => IdentityIsRight
  <2> SUFFICES ASSUME LinkTypes, IdentityInv, Served, Identified(runtime.ext_phase),
                      ~Announced("Status")
               PROVE  runtime.ext_phase = wiimote.plugged
    BY DEF IdentityIsRight
  <2>1. NoUnplugIn(reports, 1, Len(reports))
    BY DEF NoUnplugIn, Unplugs, Announced
  <2>2. Fits(runtime.ext_phase, reports, Len(reports), wiimote.plugged)
    BY DEF IdentityInv, Served, Listening
  <2>3. QED
    BY <2>1, <2>2 DEF Fits
<1>2. LinkSpec => []LinkTypes
  BY LinkTypesHold DEF LinkTypes
<1>3. QED
  BY <1>1, <1>2, IdentityInvHolds, PTL

(* A payload is decoded with the layout of the extension it came from      *)
(* (handle_report and report.rs).                                          *)
THEOREM DecodingHolds == LinkSpec => []InputsDecodedRight
<1>1. LinkTypes /\ IdentityInv => InputsDecodedRight
  <2> SUFFICES ASSUME LinkTypes, IdentityInv, NEW i \in 1..Len(reports),
                      reports[i].type = "ButtonsAccelExt",
                      \A j \in 1..(i - 1) : reports[j].type \notin {"Status", "ReadResponse", "lost"},
                      Identified(runtime.ext_phase)
               PROVE  runtime.ext_phase = reports[i].ext
    BY DEF InputsDecodedRight
  <2>1. NoUnplugIn(reports, 1, i - 1)
    BY DEF NoUnplugIn, Unplugs
  <2>2. Fits(runtime.ext_phase, reports, i - 1, reports[i].ext)
    BY DEF IdentityInv
  <2>3. QED
    BY <2>1, <2>2 DEF Fits
<1>2. LinkSpec => []LinkTypes
  BY LinkTypesHold DEF LinkTypes
<1>3. QED
  BY <1>1, <1>2, IdentityInvHolds, PTL

-----------------------------------------------------------------------------
(* A row of the mapping table that gains or loses its extension is flagged *)
(* for saving (process_extension_fsm); a session that ends keeps it.       *)
THEOREM NewsIsSavedHolds == LinkSpec => NewsIsSaved
<1> DEFINE Saved == runtime'.extension # runtime.extension => persist_dirty'
<1>1. LinkTypes /\ [LinkNext]_linkVars => [Saved]_linkVars
  <2> SUFFICES ASSUME LinkTypes, [LinkNext]_linkVars, runtime'.extension # runtime.extension
               PROVE  persist_dirty'
    OBVIOUS
  <2>1. runtime \in Runtime /\ reports \in Seq(Report)
    BY DEF LinkTypes, LinkTypeOK
  <2>2. ~CommandOrTick
    <3>1. ~(HandleDisconnect \/ Flush \/ TickKeepalive)
      BY DEF HandleDisconnect, Flush, TickKeepalive, ResetSession, NewSession
    <3>2. ~(Open \/ OpenAgain \/ HandleIdentify \/ TickRumbleOff)
      BY <2>1 DEF Open, OpenAgain, HandleIdentify, TickRumbleOff, Runtime
    <3>3. QED
      BY <3>1, <3>2 DEF CommandOrTick
  <2>3. ~OutsideStep /\ ~UNCHANGED linkVars
    BY DEF OutsideStep, Deliver, ThreadReturns, SwitchOn, SwitchOff, SendInput, Plug, linkVars
  <2>4. ~HandleLost
    BY DEF HandleLost, ResetSession, NewSession
  <2>5. ASSUME NEW promotion \in Promotions, NEW phase, NEW ext, NEW out,
               Answer(promotion, phase, ext, out)
        PROVE  runtime'.extension = ext
    BY <2>5, PromotionTypes DEF Answer, Runtime, LinkTypes
  <2>6. ~HandleAck /\ ~HandleInput
    BY <2>5 DEF HandleAck, HandleInput
  <2>7. CASE HandleStatus
    <3>1. runtime'.extension =
            IF Head(reports).extension_connected THEN runtime.extension ELSE None
      BY <2>5, <2>7 DEF HandleStatus
    <3>2. ~Head(reports).extension_connected /\ UnpluggedIsNews
      BY <3>1 DEF UnpluggedIsNews
    <3>3. QED
      BY <2>7, <3>2 DEF HandleStatus
  <2>8. CASE HandleReadResponse
    <3>1. runtime'.extension =
            IF Head(reports).ok /\ AwaitsId THEN Head(reports).id ELSE runtime.extension
      BY <2>5, <2>8 DEF HandleReadResponse
    <3>2. Head(reports).ok /\ AwaitsId
      BY <3>1
    <3>3. QED
      BY <2>8, <3>2 DEF HandleReadResponse
  <2>9. QED
    BY <2>2, <2>3, <2>4, <2>6, <2>7, <2>8, StepKinds DEF HandleReport
<1>2. LinkSpec => []LinkTypes
  BY LinkTypesHold DEF LinkTypes
<1>3. QED
  BY <1>1, <1>2, PTL DEF LinkSpec, NewsIsSaved

=============================================================================
