---------------------------- MODULE RecoveryProofs ----------------------------
(***************************************************************************)
(* The daemon's watch over attempts to pair agrees with the scanner, for   *)
(* any number of Wiimotes and any length of the channels, however the      *)
(* user, the operating system and the scanner behave.                      *)
(***************************************************************************)
EXTENDS Recovery, SequenceTheorems, TLAPS

-----------------------------------------------------------------------------
(* Types.                                                                  *)

(* A channel of S stays one when one or two of S are sent.                 *)
LEMMA SentTypes ==
  ASSUME NEW S, NEW q \in Seq(S), NEW x \in S, NEW y \in S
  PROVE  q \o <<x>> \in Seq(S) /\ q \o <<x, y>> \in Seq(S) /\ q \o <<>> \in Seq(S)
<1>1. <<x>> \in Seq(S) /\ <<x, y>> \in Seq(S) /\ <<>> \in Seq(S)
  OBVIOUS
<1> QED
  BY <1>1, ConcatProperties

(* What the scanner sends is a ScannerEvent of a Wiimote.                  *)
LEMMA NewsTypes ==
  ASSUME WatchTypeOK, ScannerNews \/ Succeed
  PROVE  scanner_rx' \in Seq(ScannerEvent) /\ attempt' \in Addrs \cup {None}
<1> USE DEF WatchTypeOK, Send
<1>1. ASSUME NEW a \in Addrs, Begin(a)
      PROVE  scanner_rx' \in Seq(ScannerEvent) /\ attempt' \in Addrs \cup {None}
  <2>1. Event("Pairing", a) \in ScannerEvent
    BY DEF Event, ScannerEvent
  <2> QED
    BY <1>1, <2>1, SentTypes DEF Begin
<1>2. ASSUME NEW a \in Addrs, NEW type \in {"HidEnabled", "SdpCacheStale"}, Report(type, a)
      PROVE  scanner_rx' \in Seq(ScannerEvent) /\ attempt' \in Addrs \cup {None}
  <2>1. Event(type, a) \in ScannerEvent
    BY DEF Event, ScannerEvent
  <2> QED
    BY <1>2, <2>1, SentTypes DEF Report
<1>3. ASSUME NEW reason \in Reasons, Fail(reason)
      PROVE  scanner_rx' \in Seq(ScannerEvent) /\ attempt' \in Addrs \cup {None}
  <2>1. /\ attempt \in Addrs
        /\ Event("AuthStuck", attempt) \in ScannerEvent
        /\ PairFailed(attempt, reason) \in ScannerEvent
    BY <1>3 DEF Fail, Event, PairFailed, ScannerEvent
  <2> QED
    BY <1>3, <2>1, SentTypes DEF Fail, Failure
<1>4. CASE Succeed
  <2>1. Event("Paired", attempt) \in ScannerEvent
    BY <1>4 DEF Succeed, Event, ScannerEvent
  <2> QED
    BY <1>4, <2>1, SentTypes DEF Succeed
<1> QED
  BY <1>1, <1>2, <1>3, <1>4 DEF ScannerNews

(* What the daemon tells the UI is a UiEvent.                              *)
LEMMA TellTypes ==
  ASSUME events_rx \in Seq(UiEvent),
         \/ \E key : EmitUserError(key)
         \/ \E keys : ClearPersistentWarnings(keys)
         \/ \E active \in BOOLEAN : TellScanState(active)
         \/ \E a \in Addrs : Tell(<<[type |-> "PairingStuck", addr |-> a]>>)
         \/ UNCHANGED events_rx
  PROVE  events_rx' \in Seq(UiEvent)
<1>1. ASSUME NEW m \in UiEvent, Tell(<<m>>) \/ Tell(<<>>)
      PROVE  events_rx' \in Seq(UiEvent)
  BY <1>1, SentTypes DEF Tell
<1>2. ASSUME NEW key, EmitUserError(key)
      PROVE  events_rx' \in Seq(UiEvent)
  <2>1. CASE key \in Banners
    <3>1. [type |-> "PersistentWarning", key |-> key] \in UiEvent
      BY <2>1 DEF UiEvent
    <3> QED
      BY <1>1, <1>2, <2>1, <3>1 DEF EmitUserError
  <2>2. CASE key \notin Banners
    <3>1. [type |-> "ScanState", active |-> FALSE] \in UiEvent
      BY DEF UiEvent
    <3> QED
      BY <1>1, <1>2, <2>2, <3>1 DEF EmitUserError
  <2> QED
    BY <2>1, <2>2
<1>3. ASSUME NEW keys, ClearPersistentWarnings(keys)
      PROVE  events_rx' \in Seq(UiEvent)
  <2>1. [type |-> "PersistentWarningResolved", keys |-> keys \cap Banners] \in UiEvent
    BY DEF UiEvent
  <2> QED
    BY <1>1, <1>3, <2>1 DEF ClearPersistentWarnings
<1>4. ASSUME NEW active \in BOOLEAN, TellScanState(active)
      PROVE  events_rx' \in Seq(UiEvent)
  <2>1. [type |-> "ScanState", active |-> active] \in UiEvent
    BY DEF UiEvent
  <2> QED
    BY <1>1, <1>4, <2>1 DEF TellScanState
<1>5. ASSUME NEW a \in Addrs, Tell(<<[type |-> "PairingStuck", addr |-> a]>>)
      PROVE  events_rx' \in Seq(UiEvent)
  <2>1. [type |-> "PairingStuck", addr |-> a] \in UiEvent
    BY DEF UiEvent
  <2> QED
    BY <1>1, <1>5, <2>1
<1> QED
  BY <1>2, <1>3, <1>4, <1>5

(* Handling one of the scanner's events keeps the types.                   *)
LEMMA EventHandlingTypes ==
  ASSUME WatchTypeOK, DaemonHandlesEvent
  PROVE  WatchTypeOK'
<1>1. PICK a \in Addrs :
        \/ OnPairing(a) \/ OnPaired(a) \/ OnPairFailed(a) \/ OnHidEnabled(a)
        \/ IgnoreStuck(a)
        \/ \E ok \in BOOLEAN : RecoverStuck(a, ok)
  BY DEF DaemonHandlesEvent
<1>2. /\ scanner_rx' \in Seq(ScannerEvent)
      /\ UNCHANGED <<attempt, manual_scan_until, commands_rx>>
  <2>1. Receive /\ UNCHANGED <<manual_scan_until, commands_rx>>
    BY <1>1 DEF OnPairing, OnPaired, OnPairFailed, OnHidEnabled, IgnoreStuck, RecoverStuck,
       OnStuck, Handle
  <2> QED
    BY <2>1, HeadTailProperties DEF Receive, WatchTypeOK
<1>3. events_rx' \in Seq(UiEvent)
  <2>1. events_rx \in Seq(UiEvent)
    BY DEF WatchTypeOK
  <2>2. \/ \E key : EmitUserError(key)
        \/ \E keys : ClearPersistentWarnings(keys)
        \/ UNCHANGED events_rx
    BY <1>1 DEF OnPairing, OnPaired, OnPairFailed, OnHidEnabled, IgnoreStuck, RecoverStuck
  <2> QED
    BY <2>1, <2>2, TellTypes
<1>4. /\ registry' \subseteq Ids
      /\ pair_started' \subseteq Addrs /\ pair_stuck_signaled' \subseteq Addrs
      /\ sdp_recovery_attempted' \subseteq Addrs
  BY <1>1 DEF OnPairing, OnPaired, OnPairFailed, OnHidEnabled, IgnoreStuck, RecoverStuck,
     OnStuck, WatchTypeOK
<1>5. paired' \subseteq Addrs /\ stale' \subseteq Addrs
  BY <1>1 DEF OnPairing, OnPaired, OnPairFailed, OnHidEnabled, IgnoreStuck, RecoverStuck,
     UnpairAddr, osVars, WatchTypeOK
<1> QED
  BY <1>2, <1>3, <1>4, <1>5 DEF WatchTypeOK

(* So do the commands.                                                     *)
LEMMA CommandHandlingTypes ==
  ASSUME WatchTypeOK, DaemonHandlesCommand
  PROVE  WatchTypeOK'
<1>1. CASE HandleStartScan
  <2>1. events_rx' \in Seq(UiEvent)
    BY <1>1, TellTypes DEF HandleStartScan, WatchTypeOK
  <2>2. commands_rx' \in Seq(UiCommand)
    BY <1>1, HeadTailProperties DEF HandleStartScan, WatchTypeOK
  <2> QED
    BY <1>1, <2>1, <2>2 DEF HandleStartScan, WatchTypeOK, contractVars, osVars
<1>2. ASSUME NEW id \in Ids, NEW ok \in BOOLEAN, HandleForget(id, ok)
      PROVE  WatchTypeOK'
  <2>1. events_rx' \in Seq(UiEvent)
    <3>1. ClearPersistentWarnings({"os_unpair"}) \/ EmitUserError("os_unpair")
      BY <1>2 DEF HandleForget
    <3> QED
      BY <3>1, TellTypes DEF WatchTypeOK
  <2>2. commands_rx' \in Seq(UiCommand)
    BY <1>2, HeadTailProperties DEF HandleForget, WatchTypeOK
  <2>3. paired' \subseteq Addrs /\ stale' \subseteq Addrs
    BY <1>2 DEF HandleForget, UnpairAddr, WatchTypeOK
  <2> QED
    BY <1>2, <2>1, <2>2, <2>3 DEF HandleForget, WatchTypeOK, contractVars
<1> QED
  BY <1>1, <1>2 DEF DaemonHandlesCommand

(* And everything else of the daemon, the scanner and the system.          *)
LEMMA WatchTypes ==
  ASSUME WatchTypeOK, WatchNext
  PROVE  WatchTypeOK'
<1>1. ASSUME NEW a \in Addrs, TickPairStuck(a) \/ Enumerate(a) \/ BecomeStale(a)
      PROVE  WatchTypeOK'
  <2>1. events_rx' \in Seq(UiEvent)
    BY <1>1, TellTypes DEF TickPairStuck, Enumerate, BecomeStale, WatchTypeOK
  <2>2. FormatAddr(a) \in Ids
    BY DEF Ids
  <2> QED
    BY <1>1, <2>1, <2>2 DEF TickPairStuck, Enumerate, BecomeStale, WatchTypeOK, contractVars,
       osVars, watchVars
<1>2. CASE TickManualScanWindow
  <2>1. events_rx' \in Seq(UiEvent)
    BY <1>2, TellTypes DEF TickManualScanWindow, WatchTypeOK
  <2> QED
    BY <1>2, <2>1 DEF TickManualScanWindow, WatchTypeOK, contractVars, osVars
<1>3. CASE ScannerPairs
  <2>1. scanner_rx' \in Seq(ScannerEvent) /\ attempt' \in Addrs \cup {None}
    BY <1>3, NewsTypes DEF ScannerPairs
  <2> QED
    BY <1>3, <2>1 DEF ScannerPairs, Succeed, WatchTypeOK, watchVars
<1>4. CASE ScannerSpeaks
  <2>1. scanner_rx' \in Seq(ScannerEvent) /\ attempt' \in Addrs \cup {None}
    BY <1>4, NewsTypes DEF ScannerSpeaks
  <2> QED
    BY <1>4, <2>1 DEF ScannerSpeaks, WatchTypeOK, watchVars, osVars
<1> QED
  BY <1>1, <1>2, <1>3, <1>4, EventHandlingTypes, CommandHandlingTypes DEF WatchNext

(* The UI and its user keep all types as well.                             *)
LEMMA UiTypes ==
  ASSUME RecoveryTypeOK, UiNext
  PROVE  RecoveryTypeOK'
<1> USE DEF RecoveryTypeOK, UiTypeOK
<1>1. CASE DrainEvents
  <2>1. events_rx \in Seq(UiEvent) /\ events_rx # <<>> /\ DrainEvent
    BY <1>1 DEF DrainEvents, DrainScanState, DrainPairingStuck, DrainWarning, DrainResolved,
       DrainEvent, WatchTypeOK
  <2>2. events_rx' \in Seq(UiEvent) /\ Head(events_rx) \in UiEvent
    BY <2>1, HeadTailProperties DEF DrainEvent
  <2>3. WatchTypeOK' /\ UNCHANGED pending_forget
    BY <2>1, <2>2 DEF DrainEvent, WatchTypeOK, contractVars, watchVars, osVars
  <2>4. UiTypeOK'
    BY <1>1, <2>2, <2>3 DEF DrainEvents, DrainScanState, DrainPairingStuck, DrainWarning,
       DrainResolved, UiEvent, WatchTypeOK
  <2> QED
    BY <2>3, <2>4
<1>2. CASE UserActs
  <2>1. Clicks
    BY <1>2 DEF UserActs, DismissBanner, CloseStuckDialog, CountdownEnds, ClickScan, ClickForget,
       ConfirmForget
  <2>2. commands_rx' \in Seq(UiCommand)
    <3>1. commands_rx \in Seq(UiCommand)
      BY DEF WatchTypeOK
    <3>2. /\ [type |-> "StartScan"] \in UiCommand
          /\ \A id \in Ids : [type |-> "Forget", id |-> id] \in UiCommand
      BY DEF UiCommand
    <3> QED
      BY <1>2, <3>1, <3>2, AppendProperties DEF UserActs, DismissBanner, CloseStuckDialog,
         CountdownEnds, ClickScan, ClickForget, ConfirmForget, SendCommand
  <2>3. WatchTypeOK'
    BY <2>1, <2>2 DEF Clicks, WatchTypeOK, contractVars, watchVars, osVars
  <2>4. UiTypeOK'
    BY <1>2 DEF UserActs, DismissBanner, CloseStuckDialog, CountdownEnds, ClickScan, ClickForget,
       ConfirmForget, uiVars
  <2> QED
    BY <2>3, <2>4
<1> QED
  BY <1>1, <1>2 DEF UiNext

(* Every variable keeps its type.                                          *)
THEOREM RecoveryTypes == RecoverySpec => []RecoveryTypeOK
<1>1. RecoveryInit => RecoveryTypeOK
  <2> SUFFICES ASSUME RecoveryInit PROVE RecoveryTypeOK
    OBVIOUS
  <2>1. paired \in SUBSET Addrs /\ stale \in SUBSET Addrs
    BY DEF RecoveryInit, WatchInit
  <2>2. /\ scanner_rx \in Seq(ScannerEvent)
        /\ commands_rx \in Seq(UiCommand)
        /\ events_rx \in Seq(UiEvent)
    BY DEF RecoveryInit, WatchInit, ContractInit
  <2>3. /\ attempt \in Addrs \cup {None} /\ registry \subseteq Ids
        /\ {pair_started, pair_stuck_signaled, sdp_recovery_attempted} \subseteq SUBSET Addrs
        /\ manual_scan_until \in BOOLEAN
    BY DEF RecoveryInit, WatchInit, ContractInit
  <2> QED
    BY <2>1, <2>2, <2>3 DEF RecoveryInit, UiInit, RecoveryTypeOK, WatchTypeOK, UiTypeOK
<1>2. RecoveryTypeOK /\ [RecoveryNext]_recoveryAll => RecoveryTypeOK'
  <2> SUFFICES ASSUME RecoveryTypeOK, [RecoveryNext]_recoveryAll
               PROVE  RecoveryTypeOK'
    OBVIOUS
  <2>1. CASE UNCHANGED recoveryAll
    BY <2>1 DEF recoveryAll, recoveryVars, contractVars, watchVars, osVars, uiVars,
       RecoveryTypeOK, WatchTypeOK, UiTypeOK
  <2>2. CASE WatchNext /\ UNCHANGED uiVars
    BY <2>2, WatchTypes DEF uiVars, RecoveryTypeOK, UiTypeOK
  <2>3. CASE UiNext
    BY <2>3, UiTypes
  <2> QED
    BY <2>1, <2>2, <2>3 DEF RecoveryNext
<1> QED
  BY <1>1, <1>2, PTL DEF RecoverySpec

-----------------------------------------------------------------------------
(* The watch follows the scanner.  What the daemon will have watched once  *)
(* it has received all of the channel is what the scanner attempts now.    *)

EndsAttempt(e, a) == e.type \in {"Paired", "PairFailed"} /\ e.addr = a

(* Will `a` be watched after the events q, if the set watched now is w?    *)
WillWatch(q, w, a) ==
  \/ \E i \in 1..Len(q) :
       /\ q[i] = Event("Pairing", a)
       /\ \A j \in (i + 1)..Len(q) : ~EndsAttempt(q[j], a)
  \/ a \in w /\ \A j \in 1..Len(q) : ~EndsAttempt(q[j], a)

WatchInv ==
  /\ RecoveryTypeOK
  /\ \A a \in Addrs : WillWatch(scanner_rx, pair_started, a) <=> attempt = a
  /\ pair_stuck_signaled \subseteq pair_started

(* The set watched after one event is handled.                             *)
After(e, w) ==
  CASE e.type = "Pairing" -> w \cup {e.addr}
    [] e.type \in {"Paired", "PairFailed"} -> w \ {e.addr}
    [] OTHER -> w

(* Beginnings and ends of attempts are different events.                   *)
LEMMA BeginIsNoEnd ==
  ASSUME NEW a \in Addrs, NEW e \in ScannerEvent
  PROVE  /\ ~EndsAttempt(Event("Pairing", a), a)
         /\ e.type = "Pairing" => e = Event("Pairing", e.addr)
         /\ e.addr \in Addrs
BY DEF EndsAttempt, Event, ScannerEvent

(* One more event in the channel.                                          *)
LEMMA WatchAfterSend ==
  ASSUME NEW q \in Seq(ScannerEvent), NEW e \in ScannerEvent, NEW w, NEW a \in Addrs
  PROVE  WillWatch(Append(q, e), w, a) <=>
           e = Event("Pairing", a) \/ (WillWatch(q, w, a) /\ ~EndsAttempt(e, a))
<1> DEFINE r == Append(q, e)
           n == Len(q)
<1>1. n \in Nat /\ Len(r) = n + 1 /\ r[n + 1] = e /\ \A i \in 1..n : r[i] = q[i]
  BY AppendProperties
<1> HIDE DEF r, n
<1>2. /\ \A i \in 1..n : i \in 1..Len(r)
      /\ \A i \in 1..Len(r) : i \in 1..n \/ i = n + 1
      /\ n + 1 \in 1..Len(r)
      /\ \A i \in 1..n : \A j \in (i + 1)..Len(r) : j \in (i + 1)..n \/ j = n + 1
      /\ \A i \in 1..n : n + 1 \in (i + 1)..Len(r)
      /\ \A i \in 1..n : \A j \in (i + 1)..n : j \in 1..n /\ j \in (i + 1)..Len(r)
      /\ \A j \in (n + 1 + 1)..Len(r) : FALSE
  BY <1>1
<1>3. CASE e = Event("Pairing", a)
  <2>1. WillWatch(r, w, a)
    BY <1>1, <1>2, <1>3 DEF WillWatch
  <2> QED
    BY <1>3, <2>1 DEF r
<1>4. CASE e # Event("Pairing", a)
  <2>1. ASSUME WillWatch(r, w, a)
        PROVE  WillWatch(q, w, a) /\ ~EndsAttempt(e, a)
    <3>1. CASE a \in w /\ \A j \in 1..Len(r) : ~EndsAttempt(r[j], a)
      BY <1>1, <1>2, <3>1 DEF WillWatch, n
    <3>2. ASSUME NEW i \in 1..Len(r), r[i] = Event("Pairing", a),
                 \A j \in (i + 1)..Len(r) : ~EndsAttempt(r[j], a)
          PROVE  WillWatch(q, w, a) /\ ~EndsAttempt(e, a)
      <4>1. i \in 1..n /\ q[i] = Event("Pairing", a)
        BY <1>1, <1>2, <1>4, <3>2
      <4>2. ~EndsAttempt(e, a) /\ \A j \in (i + 1)..n : ~EndsAttempt(q[j], a)
        BY <1>1, <1>2, <3>2, <4>1
      <4> QED
        BY <4>1, <4>2 DEF WillWatch, n
    <3> QED
      BY <2>1, <3>1, <3>2 DEF WillWatch
  <2>2. ASSUME WillWatch(q, w, a), ~EndsAttempt(e, a)
        PROVE  WillWatch(r, w, a)
    <3>1. CASE a \in w /\ \A j \in 1..n : ~EndsAttempt(q[j], a)
      BY <1>1, <1>2, <2>2, <3>1 DEF WillWatch
    <3>2. ASSUME NEW i \in 1..n, q[i] = Event("Pairing", a),
                 \A j \in (i + 1)..n : ~EndsAttempt(q[j], a)
          PROVE  WillWatch(r, w, a)
      <4>1. i \in 1..Len(r) /\ r[i] = Event("Pairing", a)
        BY <1>1, <1>2, <3>2
      <4>2. \A j \in (i + 1)..Len(r) : ~EndsAttempt(r[j], a)
        BY <1>1, <1>2, <2>2, <3>2
      <4> QED
        BY <4>1, <4>2 DEF WillWatch
    <3> QED
      BY <2>2, <3>1, <3>2 DEF WillWatch, n
  <2> QED
    BY <1>4, <2>1, <2>2 DEF r
<1> QED
  BY <1>3, <1>4

(* Receiving the first event of the channel changes nothing, for what it   *)
(* says is then in the set.                                                *)
LEMMA WatchAfterReceive ==
  ASSUME NEW q \in Seq(ScannerEvent), q # <<>>, NEW w, NEW a \in Addrs
  PROVE  WillWatch(Tail(q), After(Head(q), w), a) <=> WillWatch(q, w, a)
<1> DEFINE t == Tail(q)
           h == Head(q)
           n == Len(t)
<1>1. /\ n \in Nat /\ Len(q) = n + 1 /\ q[1] = h /\ h \in ScannerEvent
      /\ \A i \in 1..n : t[i] = q[i + 1]
  BY HeadTailProperties
<1> HIDE DEF t, h, n
<1>2. /\ 1 \in 1..Len(q)
      /\ \A i \in 1..n : i + 1 \in 1..Len(q) /\ i + 1 \in 2..Len(q)
      /\ \A i \in 1..Len(q) : i = 1 \/ (i - 1 \in 1..n /\ i = (i - 1) + 1)
      /\ \A i \in 1..n : \A j \in (i + 1)..n :
           j \in 1..n /\ j + 1 \in (i + 1 + 1)..Len(q)
      /\ \A i \in 1..n : \A j \in (i + 1 + 1)..Len(q) :
           j - 1 \in (i + 1)..n /\ j - 1 \in 1..n /\ j = (j - 1) + 1
      /\ \A j \in 2..Len(q) : j - 1 \in 1..n /\ j = (j - 1) + 1
  BY <1>1
<1>3. (\A j \in 1..n : ~EndsAttempt(t[j], a)) <=> (\A j \in 2..Len(q) : ~EndsAttempt(q[j], a))
  BY <1>1, <1>2
<1>4. (\A j \in 1..Len(q) : ~EndsAttempt(q[j], a))
        <=> ~EndsAttempt(h, a) /\ (\A j \in 2..Len(q) : ~EndsAttempt(q[j], a))
  BY <1>1, <1>2
<1> DEFINE later(s, i) ==
             /\ s[i] = Event("Pairing", a)
             /\ \A j \in (i + 1)..Len(s) : ~EndsAttempt(s[j], a)
<1>5. \A i \in 1..n : later(t, i) <=> later(q, i + 1)
  BY <1>1, <1>2 DEF n
<1>6. (\E i \in 1..n : later(t, i)) <=> (\E i \in 2..Len(q) : later(q, i))
  BY <1>2, <1>5
<1>7. later(q, 1) <=> h = Event("Pairing", a) /\ (\A j \in 2..Len(q) : ~EndsAttempt(q[j], a))
  BY <1>1
<1>8. (\E i \in 1..Len(q) : later(q, i)) <=> later(q, 1) \/ (\E i \in 2..Len(q) : later(q, i))
  BY <1>1, <1>2
<1>9. a \in After(h, w) <=> h = Event("Pairing", a) \/ (a \in w /\ ~EndsAttempt(h, a))
  BY <1>1, BeginIsNoEnd DEF After, EndsAttempt, Event
<1>10. ~EndsAttempt(h, a) \/ h # Event("Pairing", a)
  BY BeginIsNoEnd DEF EndsAttempt, Event
<1>11. WillWatch(t, After(h, w), a) <=>
         \/ \E i \in 1..n : later(t, i)
         \/ a \in After(h, w) /\ \A j \in 1..n : ~EndsAttempt(t[j], a)
  BY DEF WillWatch, n
<1>12. WillWatch(q, w, a) <=>
         \/ \E i \in 1..Len(q) : later(q, i)
         \/ a \in w /\ \A j \in 1..Len(q) : ~EndsAttempt(q[j], a)
  BY DEF WillWatch
<1> HIDE DEF later
<1>13. WillWatch(t, After(h, w), a) <=> WillWatch(q, w, a)
  BY <1>3, <1>4, <1>6, <1>7, <1>8, <1>9, <1>10, <1>11, <1>12
<1> QED
  BY <1>13 DEF t, h

-----------------------------------------------------------------------------
(* The invariant holds at the start and in every step.                     *)

(* What is sent at once is sent one by one.                                *)
LEMMA SentOneByOne ==
  ASSUME NEW S, NEW q \in Seq(S), NEW x \in S, NEW y \in S
  PROVE  /\ q \o <<x>> = Append(q, x)
         /\ q \o <<x, y>> = Append(Append(q, x), y)
         /\ Append(q, x) \in Seq(S)
OBVIOUS

(* The scanner tells of every attempt it begins and ends.                  *)
LEMMA SendingKeepsWatch ==
  ASSUME WatchInv, ScannerNews \/ Succeed, NEW a \in Addrs
  PROVE  WillWatch(scanner_rx', pair_started, a) <=> attempt' = a
<1> DEFINE q == scanner_rx
           w == pair_started
<1>1. /\ q \in Seq(ScannerEvent) /\ attempt \in Addrs \cup {None} /\ None \notin Addrs
      /\ WillWatch(q, w, a) <=> attempt = a
  BY ContractConstants DEF WatchInv, RecoveryTypeOK, WatchTypeOK
<1> HIDE DEF q, w
<1>2. ASSUME NEW b \in Addrs, Begin(b)
      PROVE  WillWatch(scanner_rx', w, a) <=> attempt' = a
  <2>1. Event("Pairing", b) \in ScannerEvent
    BY DEF Event, ScannerEvent
  <2>2. scanner_rx' = Append(q, Event("Pairing", b)) /\ attempt = None /\ attempt' = b
    BY <1>1, <1>2, <2>1, SentOneByOne DEF Begin, Send, q
  <2>3. WillWatch(scanner_rx', w, a) <=>
          Event("Pairing", b) = Event("Pairing", a) \/ WillWatch(q, w, a)
    <3>1. ~EndsAttempt(Event("Pairing", b), a)
      BY DEF EndsAttempt, Event
    <3> QED
      BY <1>1, <2>1, <2>2, <3>1, WatchAfterSend
  <2>4. Event("Pairing", b) = Event("Pairing", a) <=> b = a
    BY DEF Event
  <2> QED
    BY <1>1, <2>2, <2>3, <2>4
<1>3. ASSUME NEW b \in Addrs, NEW type \in {"HidEnabled", "SdpCacheStale"}, Report(type, b)
      PROVE  WillWatch(scanner_rx', w, a) <=> attempt' = a
  <2>1. Event(type, b) \in ScannerEvent
    BY DEF Event, ScannerEvent
  <2>2. scanner_rx' = Append(q, Event(type, b)) /\ UNCHANGED attempt
    BY <1>1, <1>3, <2>1, SentOneByOne DEF Report, Send, q
  <2>3. Event(type, b) # Event("Pairing", a) /\ ~EndsAttempt(Event(type, b), a)
    BY DEF EndsAttempt, Event
  <2> QED
    BY <1>1, <2>1, <2>2, <2>3, WatchAfterSend
<1>4. CASE Succeed
  <2>1. attempt \in Addrs /\ Event("Paired", attempt) \in ScannerEvent
    BY <1>1, <1>4 DEF Succeed, Event, ScannerEvent
  <2>2. scanner_rx' = Append(q, Event("Paired", attempt)) /\ attempt' = None
    BY <1>1, <1>4, <2>1, SentOneByOne DEF Succeed, Send, q
  <2>3. /\ Event("Paired", attempt) # Event("Pairing", a)
        /\ EndsAttempt(Event("Paired", attempt), a) <=> attempt = a
    BY DEF EndsAttempt, Event
  <2>4. WillWatch(scanner_rx', w, a) <=>
          \/ Event("Paired", attempt) = Event("Pairing", a)
          \/ WillWatch(q, w, a) /\ ~EndsAttempt(Event("Paired", attempt), a)
    BY <1>1, <2>1, <2>2, WatchAfterSend
  <2> QED
    BY <1>1, <2>1, <2>2, <2>3, <2>4 DEF w
<1>5. ASSUME NEW reason \in Reasons, Fail(reason)
      PROVE  WillWatch(scanner_rx', w, a) <=> attempt' = a
  <2> DEFINE stuck == Event("AuthStuck", attempt)
             failed == PairFailed(attempt, reason)
  <2>1. attempt \in Addrs /\ attempt' = None /\ stuck \in ScannerEvent /\ failed \in ScannerEvent
    BY <1>1, <1>5 DEF Fail, Event, PairFailed, ScannerEvent
  <2>2. /\ failed # Event("Pairing", a) /\ stuck # Event("Pairing", a)
        /\ EndsAttempt(failed, a) <=> attempt = a
        /\ ~EndsAttempt(stuck, a)
    BY DEF EndsAttempt, Event, PairFailed
  <2>3. scanner_rx' = Append(q, failed) \/ scanner_rx' = Append(Append(q, stuck), failed)
    <3>1. \/ scanner_rx' = q \o <<failed>>
          \/ scanner_rx' = q \o <<stuck, failed>>
      BY <1>5 DEF Fail, Failure, Send, q
    <3> HIDE DEF stuck, failed
    <3> QED
      BY <1>1, <2>1, <3>1, SentOneByOne
  <2>4. Append(q, stuck) \in Seq(ScannerEvent)
    BY <1>1, <2>1, SentOneByOne
  <2> HIDE DEF stuck, failed
  <2>5. WillWatch(Append(q, stuck), w, a) <=> attempt = a
    BY <1>1, <2>1, <2>2, WatchAfterSend
  <2>6. WillWatch(Append(q, failed), w, a) <=> WillWatch(q, w, a) /\ attempt # a
    BY <1>1, <2>1, <2>2, WatchAfterSend
  <2>7. WillWatch(Append(Append(q, stuck), failed), w, a)
          <=> WillWatch(Append(q, stuck), w, a) /\ attempt # a
    BY <2>1, <2>2, <2>4, WatchAfterSend
  <2> QED
    BY <1>1, <2>1, <2>3, <2>5, <2>6, <2>7
<1> QED
  BY <1>2, <1>3, <1>4, <1>5 DEF ScannerNews, w

(* And the daemon keeps count of what it receives.                         *)
LEMMA ReceivingKeepsWatch ==
  ASSUME WatchInv, DaemonHandlesEvent
  PROVE  /\ \A a \in Addrs : WillWatch(scanner_rx', pair_started', a) <=> attempt' = a
         /\ pair_stuck_signaled' \subseteq pair_started'
<1>1. PICK b \in Addrs :
        \/ OnPairing(b) \/ OnPaired(b) \/ OnPairFailed(b) \/ OnHidEnabled(b)
        \/ IgnoreStuck(b)
        \/ \E ok \in BOOLEAN : RecoverStuck(b, ok)
  BY DEF DaemonHandlesEvent
<1>2. /\ scanner_rx # <<>> /\ scanner_rx' = Tail(scanner_rx)
      /\ UNCHANGED attempt
      /\ Head(scanner_rx).addr = b
  BY <1>1 DEF OnPairing, OnPaired, OnPairFailed, OnHidEnabled, IgnoreStuck, RecoverStuck,
     OnStuck, Handle, Receive
<1>3. pair_started' = After(Head(scanner_rx), pair_started)
  BY <1>1 DEF OnPairing, OnPaired, OnPairFailed, OnHidEnabled, IgnoreStuck, RecoverStuck,
     OnStuck, Handle, After
<1>4. pair_stuck_signaled' \subseteq pair_started'
  BY <1>1 DEF OnPairing, OnPaired, OnPairFailed, OnHidEnabled, IgnoreStuck, RecoverStuck,
     OnStuck, WatchInv
<1>5. scanner_rx \in Seq(ScannerEvent)
  BY DEF WatchInv, RecoveryTypeOK, WatchTypeOK
<1>6. ASSUME NEW a \in Addrs
      PROVE  WillWatch(scanner_rx', pair_started', a) <=> attempt' = a
  <2>1. WillWatch(scanner_rx, pair_started, a) <=> attempt = a
    BY DEF WatchInv
  <2>2. WillWatch(Tail(scanner_rx), After(Head(scanner_rx), pair_started), a)
          <=> WillWatch(scanner_rx, pair_started, a)
    BY <1>2, <1>5, WatchAfterReceive
  <2> QED
    BY <1>2, <1>3, <2>1, <2>2
<1> QED
  BY <1>4, <1>6

(* Steps of others leave the channel and the watch alone.                  *)
LEMMA WatchUntouched ==
  ASSUME WatchInv, UNCHANGED <<scanner_rx, attempt, pair_started>>,
         pair_stuck_signaled' \subseteq pair_started
  PROVE  /\ \A a \in Addrs : WillWatch(scanner_rx', pair_started', a) <=> attempt' = a
         /\ pair_stuck_signaled' \subseteq pair_started'
BY DEF WatchInv

LEMMA WatchInductive ==
  ASSUME WatchInv, [RecoveryNext]_recoveryAll, RecoveryTypeOK'
  PROVE  WatchInv'
<1> DEFINE Kept ==
      /\ \A a \in Addrs : WillWatch(scanner_rx', pair_started', a) <=> attempt' = a
      /\ pair_stuck_signaled' \subseteq pair_started'
<1> SUFFICES Kept
  BY DEF WatchInv
<1>1. pair_stuck_signaled \subseteq pair_started
  BY DEF WatchInv
<1>2. CASE UNCHANGED recoveryAll
  BY <1>1, <1>2, WatchUntouched DEF recoveryAll, recoveryVars, contractVars, watchVars
<1>3. CASE DaemonHandlesEvent
  BY <1>3, ReceivingKeepsWatch
<1>4. CASE DaemonHandlesCommand
  BY <1>1, <1>4, WatchUntouched
  DEF DaemonHandlesCommand, HandleStartScan, HandleForget, contractVars
<1>5. ASSUME NEW a \in Addrs, TickPairStuck(a) \/ Enumerate(a) \/ BecomeStale(a)
      PROVE  Kept
  BY <1>1, <1>5, WatchUntouched
  DEF TickPairStuck, Enumerate, BecomeStale, contractVars, watchVars
<1>6. CASE TickManualScanWindow
  BY <1>1, <1>6, WatchUntouched DEF TickManualScanWindow, contractVars
<1>7. CASE ScannerPairs \/ ScannerSpeaks
  <2>1. (ScannerNews \/ Succeed) /\ UNCHANGED watchVars
    BY <1>7 DEF ScannerPairs, ScannerSpeaks
  <2> QED
    BY <1>1, <2>1, SendingKeepsWatch DEF watchVars
<1>8. CASE UiNext
  <2>1. UNCHANGED <<contractVars, watchVars>>
    BY <1>8 DEF UiNext, DrainEvents, DrainScanState, DrainPairingStuck, DrainWarning,
       DrainResolved, DrainEvent, UserActs, DismissBanner, CloseStuckDialog, CountdownEnds,
       ClickScan, ClickForget, ConfirmForget, Clicks
  <2> QED
    BY <1>1, <2>1, WatchUntouched DEF contractVars, watchVars
<1> QED
  BY <1>2, <1>3, <1>4, <1>5, <1>6, <1>7, <1>8 DEF RecoveryNext, WatchNext

LEMMA WatchInitially ==
  ASSUME RecoveryInit, RecoveryTypeOK
  PROVE  WatchInv
<1>1. /\ scanner_rx = <<>> /\ attempt = None /\ pair_started = {} /\ pair_stuck_signaled = {}
      /\ None \notin Addrs
  BY ContractConstants DEF RecoveryInit, WatchInit, ContractInit
<1>2. \A a \in Addrs : ~WillWatch(scanner_rx, pair_started, a)
  BY <1>1 DEF WillWatch
<1> QED
  BY <1>1, <1>2 DEF WatchInv

(* WatchInv: what the daemon will have watched once the channel is empty   *)
(* is exactly the attempt under way.                                       *)
THEOREM RecoveryInvariant == RecoverySpec => []WatchInv
<1>1. RecoveryInit /\ RecoveryTypeOK => WatchInv
  BY WatchInitially
<1>2. WatchInv /\ [RecoveryNext]_recoveryAll /\ RecoveryTypeOK' => WatchInv'
  BY WatchInductive
<1> QED
  BY <1>1, <1>2, RecoveryTypes, PTL DEF RecoverySpec

(* The daemon watches exactly the attempt that is under way whenever it    *)
(* has received all of the scanner's events (scanner.rs, ticks.rs).        *)
THEOREM WatchIsExact == RecoverySpec => []WatchFollowsScanner
<1>1. WatchInv => WatchFollowsScanner
  <2> SUFFICES ASSUME WatchInv PROVE WatchFollowsScanner
    OBVIOUS
  <2>1. ASSUME scanner_rx = <<>> PROVE pair_started = {attempt} \ {None}
    <3>1. \A a \in Addrs : a \in pair_started <=> attempt = a
      BY <2>1 DEF WatchInv, WillWatch
    <3>2. pair_started \subseteq Addrs /\ attempt \in Addrs \cup {None} /\ None \notin Addrs
      BY ContractConstants DEF WatchInv, RecoveryTypeOK, WatchTypeOK
    <3> QED
      BY <3>1, <3>2
  <2> QED
    BY <2>1 DEF WatchInv, WatchFollowsScanner
<1> QED
  BY <1>1, RecoveryInvariant, PTL

=============================================================================
