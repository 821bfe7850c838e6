------------------------------ MODULE RemoteLink ------------------------------
(***************************************************************************)
(* One Wiimote and the daemon's side of its protocol: the handshake that   *)
(* identifies an extension (extension_fsm.rs), the reporting mode, the     *)
(* player LEDs, the Identify pulse and the keepalive (commands.rs,         *)
(* hid_scan.rs, transport.rs, ticks.rs), over the write channel and the    *)
(* event channel of its HID session.                                       *)
(*                                                                         *)
(* The Wiimote itself is external.  It behaves as the code says it does: a *)
(* status report, which it also sends when an extension comes or goes,     *)
(* resets its reporting mode (extension_fsm.rs), and one bit of every      *)
(* output report switches its motor (report.rs).                           *)
(*                                                                         *)
(* Of one Wiimote, at most one I/O thread is alive here: a path is opened  *)
(* again once the old thread is gone and its DeviceLost was handled, which *)
(* takes some 50 ms, while retries are armed for 800 ms or more later.     *)
(***************************************************************************)
EXTENDS Integers, Sequences

CONSTANTS
  None,        \* Rust's None
  Extensions,  \* ExtensionType, without Unknown
  Unknown,     \* ExtensionType::Unknown
  NumSlots,    \* XInput's cap on controllers
  MaxPipe      \* bound: writes and reports on their way when a new one is started

ASSUME RemoteConstants ==
  /\ NumSlots \in Nat \ {0}
  /\ MaxPipe \in Nat \ {0}
  /\ {None, Unknown} \cap Extensions = {}
  /\ None # Unknown
  /\ {"InitSent", "ReadingId"} \cap (Extensions \cup {None, Unknown}) = {}

VARIABLES
  runtime,        \* the DeviceRuntime of this Wiimote
  persist_dirty,
  handle,         \* is its HID handle open
  thread,         \* its I/O thread: serving the handle, closing, or returned
  linked,         \* does the thread's HidDevice still reach the Wiimote
  writes,         \* the write channel
  reports,        \* transport_rx: its reports, and "lost" for DeviceLost
  wiimote         \* the Wiimote's own state

linkVars == <<runtime, persist_dirty, handle, thread, linked, writes, reports, wiimote>>

Slots == 0..(NumSlots - 1)

(* Connected is having a slot; Identified(e) is the phase e.               *)
Phases == {None, "InitSent", "ReadingId", Unknown} \cup Extensions

Runtime ==
  [pending       : BOOLEAN,
   slot          : Slots \cup {None},
   ext_phase     : Phases,
   extension     : Extensions \cup {Unknown, None},
   rumble_off_at : BOOLEAN]

(* LEDs are named by the slot they show; no Wiimote shows more than one.   *)
Wiimote ==
  [on      : BOOLEAN,
   plugged : Extensions \cup {None},
   inited  : BOOLEAN,      \* was 0x55 written since it was plugged in
   mode    : {48, 49, 53},  \* 0x30, 0x31, 0x35
   leds    : Slots \cup {None},
   motor   : BOOLEAN]

Payload ==
  [type : {"SetLeds"}, leds : Slots \cup {None}, rumble : BOOLEAN]
    \cup [type : {"SetReportingMode"}, mode : {49, 53}]
    \cup [type : {"RequestStatus", "WriteRegister", "ReadRegister"}]

(* `ext` of a data report is what the payload of mode 0x35 comes from.     *)
Report ==
  [type : {"Status"}, extension_connected : BOOLEAN]
    \cup [type : {"Ack"}, ok : BOOLEAN]
    \cup [type : {"ReadResponse"}, ok : BOOLEAN, id : Extensions \cup {Unknown}]
    \cup [type : {"Buttons"}]
    \cup [type : {"ButtonsAccelExt"}, ext : Extensions \cup {None}]
    \cup [type : {"lost"}]

(* Every variable holds a value of its type.                               *)
LinkTypeOK ==
  /\ runtime \in Runtime
  /\ {persist_dirty, handle, linked} \subseteq BOOLEAN
  /\ thread \in {"serving", "closing", "returned"}
  /\ writes \in Seq(Payload)
  /\ reports \in Seq(Report)
  /\ wiimote \in Wiimote

SetLeds(leds, rumble) == [type |-> "SetLeds", leds |-> leds, rumble |-> rumble]
SetReportingMode(mode) == [type |-> "SetReportingMode", mode |-> mode]
RequestStatus == [type |-> "RequestStatus"]
WriteRegister == [type |-> "WriteRegister"]  \* 0x55 to 0xa400f0
ReadRegister == [type |-> "ReadRegister"]    \* the 6-byte id at 0xa400fa

Status(w) == [type |-> "Status", extension_connected |-> w.plugged # None]
Lost == [type |-> "lost"]

Connected == runtime.slot # None

NewSession(ext) ==
  [pending |-> FALSE, slot |-> None, ext_phase |-> None, extension |-> ext,
   rumble_off_at |-> FALSE]

PoweredOff(ext) ==
  [on |-> FALSE, plugged |-> ext, inited |-> FALSE, mode |-> 48, leds |-> None,
   motor |-> FALSE]

LinkInit ==
  /\ runtime \in {NewSession(ext) : ext \in Extensions \cup {None}}
  /\ persist_dirty = FALSE
  /\ handle = FALSE
  /\ thread = "returned"
  /\ linked = FALSE
  /\ writes = <<>>
  /\ reports = <<>>
  /\ wiimote = PoweredOff(None)

-----------------------------------------------------------------------------
(* HidTransport, as far as this Wiimote's session needs it.                *)

(* hid.send, to a handle that `open` says is in the map: an error when it  *)
(* is not, or when its thread has returned, is ignored.                    *)
Send(open, payloads) ==
  writes' = IF open /\ thread = "serving" THEN writes \o payloads ELSE writes

CloseHandle ==
  /\ handle' = FALSE
  /\ thread' = IF thread = "serving" THEN "closing" ELSE thread

PipeHasRoom == Len(writes) + Len(reports) < MaxPipe

-----------------------------------------------------------------------------
(* try_connect: a new handle, or one that is open already.  An offline     *)
(* Wiimote can be opened, too.                                             *)

Greeting == <<SetLeds(0, FALSE), SetReportingMode(49), RequestStatus>>

Open ==
  /\ ~handle
  /\ thread = "returned"
  /\ \A i \in 1..Len(reports) : reports[i] # Lost
  /\ handle' = TRUE
  /\ thread' = "serving"
  /\ linked' = wiimote.on
  /\ writes' = Greeting
  /\ runtime' = [runtime EXCEPT !.pending = TRUE]
  /\ UNCHANGED <<persist_dirty, reports, wiimote>>

OpenAgain ==
  /\ handle
  /\ PipeHasRoom
  /\ Send(TRUE, Greeting)
  /\ runtime' = [runtime EXCEPT !.pending = TRUE]
  /\ UNCHANGED <<persist_dirty, handle, thread, linked, reports, wiimote>>

ResetSession(r) == NewSession(r.extension)

HandleDisconnect ==
  /\ Send(handle, <<SetLeds(None, FALSE)>>)
  /\ CloseHandle
  /\ runtime' = ResetSession(runtime)
  /\ UNCHANGED <<persist_dirty, linked, reports, wiimote>>

HandleIdentify ==
  /\ Connected
  /\ PipeHasRoom
  /\ Send(handle, <<SetLeds(runtime.slot, TRUE)>>)
  /\ runtime' = [runtime EXCEPT !.rumble_off_at = TRUE]
  /\ UNCHANGED <<persist_dirty, handle, thread, linked, reports, wiimote>>

TickRumbleOffSilently ==  \* mutant: the deadline passes, nothing is written
  /\ runtime.rumble_off_at
  /\ runtime' = [runtime EXCEPT !.rumble_off_at = FALSE]
  /\ UNCHANGED <<persist_dirty, handle, thread, linked, writes, reports, wiimote>>

TickRumbleOff ==
  /\ runtime.rumble_off_at
  /\ Send(handle, <<SetLeds(runtime.slot, FALSE)>>)
  /\ runtime' = [runtime EXCEPT !.rumble_off_at = FALSE]
  /\ UNCHANGED <<persist_dirty, handle, thread, linked, reports, wiimote>>

TickKeepalive ==
  /\ Connected
  /\ PipeHasRoom
  /\ Send(handle, <<RequestStatus>>)
  /\ UNCHANGED <<runtime, persist_dirty, handle, thread, linked, reports, wiimote>>

Flush ==
  /\ persist_dirty
  /\ persist_dirty' = FALSE
  /\ UNCHANGED <<runtime, handle, thread, linked, writes, reports, wiimote>>

-----------------------------------------------------------------------------
(* handle_report, with promote_to_connected and process_extension_fsm.     *)

(* A first report gives the Wiimote a slot that is free, or finds none.    *)
NotPending == [runtime |-> runtime, open |-> handle, out |-> <<>>]

PromotedSilently(s) ==  \* mutant: the LED stays as try_connect set it
  [runtime |-> [runtime EXCEPT !.pending = FALSE, !.slot = s],
   open    |-> handle,
   out     |-> <<>>]

Promoted(s) ==
  [runtime |-> [runtime EXCEPT !.pending = FALSE, !.slot = s],
   open    |-> handle,
   out     |-> <<SetLeds(s, FALSE)>>]
Refused ==
  [runtime |-> [runtime EXCEPT !.pending = FALSE], open |-> FALSE, out |-> <<>>]

Promotions ==
  IF runtime.pending
    THEN {Promoted(s) : s \in Slots \ {runtime.slot}} \cup {Refused}
    ELSE {NotPending}

(* The report at the head of the queue, the promotion that goes with it,   *)
(* and what the handshake answers.                                         *)
Receive(type) ==
  /\ reports # <<>>
  /\ Head(reports).type = type
  /\ reports' = Tail(reports)
  /\ UNCHANGED wiimote

Answer(promotion, phase, extension, out) ==
  /\ runtime' = [promotion.runtime EXCEPT !.ext_phase = phase, !.extension = extension]
  /\ handle' = promotion.open
  /\ thread' = IF thread = "serving" /\ ~promotion.open THEN "closing" ELSE thread
  /\ Send(promotion.open, promotion.out \o out)
  /\ UNCHANGED linked

Identified(phase) == phase \in Extensions \cup {Unknown}
WantedMode(phase) == IF Identified(phase) THEN 53 ELSE 49

(* Mutant: a phase that survives the unplugging once it is identified.     *)
PhaseAfterStatusKnown(phase, present) ==
  IF present THEN IF phase = None THEN "InitSent" ELSE phase
  ELSE IF Identified(phase) THEN phase ELSE None

PhaseAfterStatus(phase, present) ==
  IF present THEN IF phase = None THEN "InitSent" ELSE phase
  ELSE None

(* Mutant: an extension that is shown already is not initialised again.    *)
HandshakeForNews(present) ==
  IF present /\ runtime.ext_phase = None /\ runtime.extension = None
    THEN <<WriteRegister>> ELSE <<>>
Handshake(present) ==
  IF present /\ runtime.ext_phase = None THEN <<WriteRegister>> ELSE <<>>

ModeUnasked(phase) == <<>>  \* mutant: the mode is not re-affirmed
ModeAfterStatus(phase) == <<SetReportingMode(WantedMode(phase))>>

(* Mutant: a row that loses its extension is not saved.                    *)
UnpluggedUnsaved == FALSE
UnpluggedIsNews == runtime.extension # None

HandleStatus ==
  /\ Receive("Status")
  /\ LET present == Head(reports).extension_connected
         phase == PhaseAfterStatus(runtime.ext_phase, present)
     IN  /\ \E promotion \in Promotions :
              Answer(promotion, phase, IF present THEN runtime.extension ELSE None,
                     Handshake(present) \o ModeAfterStatus(phase))
         /\ persist_dirty' = (persist_dirty \/ (~present /\ UnpluggedIsNews))

HandleAck ==
  /\ Receive("Ack")
  /\ LET awaited == Head(reports).ok /\ runtime.ext_phase = "InitSent"
     IN  \E promotion \in Promotions :
           Answer(promotion, IF awaited THEN "ReadingId" ELSE runtime.ext_phase,
                  runtime.extension, IF awaited THEN <<ReadRegister>> ELSE <<>>)
  /\ UNCHANGED persist_dirty

(* Mutant: the answer to an earlier read is taken for the one awaited.     *)
AwaitsAnyId == runtime.ext_phase # None
AwaitsId == runtime.ext_phase = "ReadingId"

HandleReadResponse ==
  /\ Receive("ReadResponse")
  /\ LET e == Head(reports)
         awaited == e.ok /\ AwaitsId
     IN  /\ \E promotion \in Promotions :
              Answer(promotion, IF awaited THEN e.id ELSE runtime.ext_phase,
                     IF awaited THEN e.id ELSE runtime.extension,
                     IF awaited THEN <<SetReportingMode(53)>> ELSE <<>>)
         /\ persist_dirty' = (persist_dirty \/ awaited)

(* Inputs decide nothing here.                                             *)
HandleInput ==
  /\ Receive("Buttons") \/ Receive("ButtonsAccelExt")
  /\ \E promotion \in Promotions :
       Answer(promotion, runtime.ext_phase, runtime.extension, <<>>)
  /\ UNCHANGED persist_dirty

HandleLost ==
  /\ Receive("lost")
  /\ runtime' = ResetSession(runtime)
  /\ CloseHandle
  /\ UNCHANGED <<persist_dirty, linked, writes>>

-----------------------------------------------------------------------------
(* The I/O thread: HidTransport.tla has it in detail.                      *)

(* What the thread reads; nobody hears the Wiimote when there is none.     *)
Heard(sent) == reports' = IF linked /\ thread # "returned" THEN reports \o sent ELSE reports

(* What the Wiimote makes of a payload and what it answers.  The registers *)
(* of an extension fail only while none is plugged in.                     *)
Obeyed(w, payload) ==
  LET stirred == [w EXCEPT !.motor = payload.type = "SetLeds" /\ payload.rumble]
  IN  CASE payload.type = "SetLeds" -> [stirred EXCEPT !.leds = payload.leds]
        [] payload.type = "SetReportingMode" -> [stirred EXCEPT !.mode = payload.mode]
        [] payload.type = "RequestStatus" -> [stirred EXCEPT !.mode = 48]
        [] payload.type = "WriteRegister" -> [stirred EXCEPT !.inited = w.plugged # None]
        [] OTHER -> stirred

Replies(w, payload) ==
  LET ok == w.plugged # None
      id == IF w.inited THEN w.plugged ELSE Unknown
  IN  CASE payload.type = "RequestStatus" -> <<Status(w)>>
        [] payload.type = "WriteRegister" -> <<[type |-> "Ack", ok |-> ok]>>
        [] payload.type = "ReadRegister" ->
             <<[type |-> "ReadResponse", ok |-> ok, id |-> id]>>
        [] OTHER -> <<>>

Deliver ==
  /\ thread # "returned"
  /\ linked
  /\ writes # <<>>
  /\ Heard(Replies(wiimote, Head(writes)))
  /\ wiimote' = Obeyed(wiimote, Head(writes))
  /\ writes' = Tail(writes)
  /\ UNCHANGED <<runtime, persist_dirty, handle, thread, linked>>

(* Its handle was closed and its channel is empty, or its link is gone.    *)
ThreadReturns ==
  /\ \/ thread = "closing" /\ writes = <<>>
     \/ thread # "returned" /\ ~linked
  /\ thread' = "returned"
  /\ reports' = Append(reports, Lost)
  /\ writes' = <<>>
  /\ UNCHANGED <<runtime, persist_dirty, handle, linked, wiimote>>

-----------------------------------------------------------------------------
(* The Wiimote and its owner.                                              *)

SwitchOn ==
  /\ ~wiimote.on
  /\ wiimote' = [wiimote EXCEPT !.on = TRUE]
  /\ UNCHANGED <<runtime, persist_dirty, handle, thread, linked, writes, reports>>

(* Off, or out of range.                                                   *)
SwitchOff ==
  /\ wiimote.on
  /\ wiimote' = PoweredOff(wiimote.plugged)
  /\ linked' = FALSE
  /\ UNCHANGED <<runtime, persist_dirty, handle, thread, writes, reports>>

Plug(ext) ==
  /\ PipeHasRoom
  /\ (wiimote.plugged = None) # (ext = None)
  /\ wiimote' = [wiimote EXCEPT !.plugged = ext, !.inited = FALSE, !.mode = 48]
  /\ IF wiimote.on THEN Heard(<<Status(wiimote')>>) ELSE UNCHANGED reports
  /\ UNCHANGED <<runtime, persist_dirty, handle, thread, linked, writes>>

SendInput ==
  /\ PipeHasRoom
  /\ wiimote.on
  /\ Heard(IF wiimote.mode = 53
             THEN <<[type |-> "ButtonsAccelExt", ext |-> wiimote.plugged]>>
             ELSE <<[type |-> "Buttons"]>>)
  /\ UNCHANGED <<runtime, persist_dirty, handle, thread, linked, writes, wiimote>>

-----------------------------------------------------------------------------
HandleReport == HandleStatus \/ HandleAck \/ HandleReadResponse \/ HandleInput \/ HandleLost

LinkNext ==
  \/ Open
  \/ OpenAgain
  \/ HandleDisconnect
  \/ HandleIdentify
  \/ TickRumbleOff
  \/ TickKeepalive
  \/ Flush
  \/ HandleStatus
  \/ HandleAck
  \/ HandleReadResponse
  \/ HandleInput
  \/ HandleLost
  \/ Deliver
  \/ ThreadReturns
  \/ SwitchOn
  \/ SwitchOff
  \/ SendInput
  \/ \E ext \in Extensions \cup {None} : Plug(ext)

LinkSpec == LinkInit /\ [][LinkNext]_linkVars

(* The loop handles its events and the I/O thread drains and ends.         *)
LinkFairSpec ==
  /\ LinkSpec
  /\ WF_linkVars(HandleReport)
  /\ WF_linkVars(Deliver)
  /\ WF_linkVars(ThreadReturns)

-----------------------------------------------------------------------------
Served == handle /\ thread = "serving" /\ linked

Queued(type) == \E i \in 1..Len(writes) : writes[i].type = type
Announced(type) == \E i \in 1..Len(reports) : reports[i].type = type

(* The mode the Wiimote will be in once its writes are delivered.          *)
ModeWillBe(mode) ==
  \/ wiimote.mode = mode /\ ~Queued("SetReportingMode")
  \/ \E i \in 1..Len(writes) :
       /\ writes[i] = SetReportingMode(mode)
       /\ \A j \in (i + 1)..Len(writes) : writes[j].type # "SetReportingMode"

(* "every Status response resets the reporting mode": whatever keepalives, *)
(* handshakes and repeated Connects cross on the wire, the Wiimote is in   *)
(* the mode the daemon wants, or will be once the writes and the Status    *)
(* that are on their way have been handled.                                *)
ModeIsReaffirmed ==
  Served => \/ Queued("RequestStatus") \/ Announced("Status")
            \/ ModeWillBe(WantedMode(runtime.ext_phase))

(* What was identified is what is plugged in, unless the Status that tells *)
(* of the change is on its way; a read that was answered before the new    *)
(* extension was initialised cannot name it.                               *)
IdentityIsRight ==
  Served /\ Identified(runtime.ext_phase) /\ ~Announced("Status") =>
    runtime.ext_phase = wiimote.plugged

(* A payload is decoded with the layout of the extension it came from.     *)
InputsDecodedRight ==
  \A i \in 1..Len(reports) :
    reports[i].type = "ButtonsAccelExt"
      /\ (\A j \in 1..(i - 1) : reports[j].type \notin {"Status", "ReadResponse", "lost"})
      /\ Identified(runtime.ext_phase)
    => runtime.ext_phase = reports[i].ext

(* The LED of a connected Wiimote is that of its slot, once the writes     *)
(* have been delivered.                                                    *)
LedsShowSlot ==
  Served /\ Connected /\ ~runtime.pending /\ writes = <<>> => wiimote.leds = runtime.slot

(* No Wiimote in session is left rumbling: while its motor runs, the end   *)
(* of the pulse is scheduled, or a write that stops it on its way.         *)
MotorIsWatched ==
  Served /\ wiimote.motor => runtime.rumble_off_at \/ writes # <<>>

(* DaemonCore's ExtensionFsm is what this handshake does: the extension    *)
(* shown changes only with a flag to save it.                              *)
NewsIsSaved ==
  [][runtime'.extension # runtime.extension => persist_dirty']_linkVars

(* An extension that stays plugged in while its Wiimote is connected is    *)
(* identified.                                                             *)
ExtensionIsIdentified ==
  \A ext \in Extensions :
    <>[](Served /\ wiimote.plugged = ext) => <>[](runtime.ext_phase = ext)

=============================================================================
