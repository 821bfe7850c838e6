----------------------------- MODULE PairingWatch -----------------------------
(***************************************************************************)
(* The daemon's Bluetooth bookkeeping (scanner.rs, ticks.rs, commands.rs): *)
(* the watchdog over attempts to pair, the manual scan window, the         *)
(* recovery of stale pairings, Forget, and the banners they raise, between *)
(* any scanner that keeps its contract and the UI.                         *)
(*                                                                         *)
(* What these handlers do to sessions, slots and the flags of the flush is *)
(* in DaemonCore; the registry is here the set of ids it has entries for.  *)
(***************************************************************************)
EXTENDS ScannerContract, Addresses

CONSTANTS
  Banners,    \* the banners followed, by their dedup_key
  OsRefuses,  \* BOOLEAN: may the OS refuse to unpair a Wiimote it has paired
  MaxUi       \* bound: messages the UI has not yet received when one is sent

ASSUME WatchConstants ==
  /\ OsRefuses \in BOOLEAN
  /\ MaxUi \in Nat \ {0}

VARIABLES
  registry,                \* the ids the daemon has entries for
  pair_started,            \* attempts under way, for all the daemon knows
  pair_stuck_signaled,     \* those the UI was told are stuck
  manual_scan_until,       \* is a manual scan window open
  sdp_recovery_attempted,  \* addresses unpaired in this window
  commands_rx,             \* commands of the UI
  events_rx,               \* messages to the UI
  paired,                  \* the operating system's pairings
  stale                    \* those whose HID service is not to be had

watchVars == <<registry, pair_started, pair_stuck_signaled, manual_scan_until,
               sdp_recovery_attempted>>
osVars == <<paired, stale>>
recoveryVars == <<contractVars, watchVars, commands_rx, events_rx, osVars>>

Ids == {FormatAddr(a) : a \in Addrs}

UiCommand == [type : {"Forget"}, id : Ids] \cup [type : {"StartScan"}]

UiEvent ==
  [type : {"PairingStuck"}, addr : Addrs]
    \cup [type : {"PersistentWarning"}, key : Banners]
    \cup [type : {"PersistentWarningResolved"}, keys : SUBSET Banners]
    \cup [type : {"ScanState"}, active : BOOLEAN]

WatchTypeOK ==
  /\ attempt \in Addrs \cup {None}
  /\ scanner_rx \in Seq(ScannerEvent)
  /\ registry \subseteq Ids
  /\ {pair_started, pair_stuck_signaled, sdp_recovery_attempted} \subseteq SUBSET Addrs
  /\ manual_scan_until \in BOOLEAN
  /\ commands_rx \in Seq(UiCommand)
  /\ events_rx \in Seq(UiEvent)
  /\ {paired, stale} \subseteq SUBSET Addrs

WatchInit ==
  /\ ContractInit
  /\ registry \in SUBSET Ids
  /\ pair_started = {}
  /\ pair_stuck_signaled = {}
  /\ manual_scan_until = FALSE
  /\ sdp_recovery_attempted = {}
  /\ commands_rx = <<>>
  /\ events_rx = <<>>
  /\ paired \in SUBSET Addrs
  /\ stale \in SUBSET paired

-----------------------------------------------------------------------------
(* Messages to the UI.  Its channel is unbounded; MaxUi caps it.  Banners  *)
(* that are not followed are not sent.                                     *)
Tell(messages) ==
  /\ Len(events_rx) < MaxUi
  /\ events_rx' = events_rx \o messages

EmitUserError(key) ==
  Tell(IF key \in Banners THEN <<[type |-> "PersistentWarning", key |-> key]>> ELSE <<>>)

ClearPersistentWarnings(keys) ==
  Tell(<<[type |-> "PersistentWarningResolved", keys |-> keys \cap Banners]>>)

TellScanState(active) == Tell(<<[type |-> "ScanState", active |-> active]>>)

(* The category of a failure; the last is a state that AuthStuck recovers, *)
(* and raises no banner.                                                   *)
PairBanners == {"pair_timeout", "pair_auth", "pair_other"}

BannerOf(reason) ==
  CASE reason = "Page Timeout"   -> "pair_timeout"
    [] reason = "Authentication" -> "pair_auth"
    [] OTHER                     -> "pair_other"

AutoRecovered(reason) == reason = "AuthenticateDeviceEx 0x1f"

(* unpair_addr: the operating system only unpairs what it has paired.      *)
UnpairAddr(a, ok) ==
  /\ ok => a \in paired
  /\ ~ok => a \notin paired \/ OsRefuses
  /\ paired' = IF ok THEN paired \ {a} ELSE paired
  /\ stale' = IF ok THEN stale \ {a} ELSE stale

-----------------------------------------------------------------------------
(* handle_scanner_event.                                                   *)
Handle(type, a) ==
  /\ Receive
  /\ Head(scanner_rx).type = type
  /\ Head(scanner_rx).addr = a
  /\ UNCHANGED <<manual_scan_until, commands_rx>>

(* An end of an attempt, or the beginning of another, re-arms the watch.   *)
OnPairing(a) ==
  /\ Handle("Pairing", a)
  /\ pair_started' = pair_started \cup {a}
  /\ pair_stuck_signaled' = pair_stuck_signaled \ {a}
  /\ UNCHANGED <<registry, sdp_recovery_attempted, events_rx, osVars>>

OnPaired(a) ==
  /\ Handle("Paired", a)
  /\ pair_started' = pair_started \ {a}
  /\ pair_stuck_signaled' = pair_stuck_signaled \ {a}
  /\ ClearPersistentWarnings(PairBanners \cup {"auto_recovery"})
  /\ UNCHANGED <<registry, sdp_recovery_attempted, osVars>>

OnPairFailedRecoverable(a) ==  \* mutant: returns early when AuthStuck recovers it
  /\ Handle("PairFailed", a)
  /\ IF AutoRecovered(Head(scanner_rx).reason)
       THEN UNCHANGED <<pair_started, pair_stuck_signaled, events_rx>>
       ELSE /\ pair_started' = pair_started \ {a}
            /\ pair_stuck_signaled' = pair_stuck_signaled \ {a}
            /\ EmitUserError(BannerOf(Head(scanner_rx).reason))
  /\ UNCHANGED <<registry, sdp_recovery_attempted, osVars>>

OnPairFailed(a) ==
  /\ Handle("PairFailed", a)
  /\ pair_started' = pair_started \ {a}
  /\ pair_stuck_signaled' = pair_stuck_signaled \ {a}
  /\ IF AutoRecovered(Head(scanner_rx).reason)
       THEN UNCHANGED events_rx
       ELSE EmitUserError(BannerOf(Head(scanner_rx).reason))
  /\ UNCHANGED <<registry, sdp_recovery_attempted, osVars>>

(* Only force_rescan is set, which is DaemonCore's.                        *)
OnHidEnabled(a) ==
  /\ Handle("HidEnabled", a)
  /\ UNCHANGED <<registry, pair_started, pair_stuck_signaled, sdp_recovery_attempted,
                 events_rx, osVars>>

(* handle_bt_state_stuck.  Outside a window, and again in the same window, *)
(* the state is only logged.                                               *)
OnStuck(a) ==
  /\ Handle("SdpCacheStale", a) \/ Handle("AuthStuck", a)
  /\ UNCHANGED <<pair_started, pair_stuck_signaled>>

IgnoreStuck(a) ==
  /\ OnStuck(a)
  /\ ~manual_scan_until \/ a \in sdp_recovery_attempted
  /\ UNCHANGED <<registry, sdp_recovery_attempted, events_rx, osVars>>

RecoverStuckSilently(a, ok) ==  \* mutant: a refusal is only logged
  /\ OnStuck(a)
  /\ manual_scan_until
  /\ a \notin sdp_recovery_attempted
  /\ sdp_recovery_attempted' = sdp_recovery_attempted \cup {a}
  /\ UnpairAddr(a, ok)
  /\ registry' = IF ok THEN registry \ {FormatAddr(a)} ELSE registry
  /\ UNCHANGED events_rx

RecoverStuck(a, ok) ==
  /\ OnStuck(a)
  /\ manual_scan_until
  /\ a \notin sdp_recovery_attempted
  /\ sdp_recovery_attempted' = sdp_recovery_attempted \cup {a}
  /\ UnpairAddr(a, ok)
  /\ registry' = IF ok THEN registry \ {FormatAddr(a)} ELSE registry
  /\ IF ok THEN UNCHANGED events_rx ELSE EmitUserError("auto_recovery")

-----------------------------------------------------------------------------
TickPairStuckSilently(a) ==  \* mutant: marked as announced, but not sent
  /\ a \in pair_started \ pair_stuck_signaled
  /\ pair_stuck_signaled' = pair_stuck_signaled \cup {a}
  /\ UNCHANGED <<contractVars, registry, pair_started, manual_scan_until,
                 sdp_recovery_attempted, commands_rx, events_rx, osVars>>

(* The ticks.  Time passes at any rate: an attempt that was announced may  *)
(* reach its threshold, and a window its end, at any later step.           *)
TickPairStuck(a) ==
  /\ a \in pair_started \ pair_stuck_signaled
  /\ pair_stuck_signaled' = pair_stuck_signaled \cup {a}
  /\ Tell(<<[type |-> "PairingStuck", addr |-> a]>>)
  /\ UNCHANGED <<contractVars, registry, pair_started, manual_scan_until,
                 sdp_recovery_attempted, commands_rx, osVars>>

TickManualScanWindow ==
  /\ manual_scan_until
  /\ manual_scan_until' = FALSE
  /\ sdp_recovery_attempted' = {}
  /\ TellScanState(FALSE)
  /\ UNCHANGED <<contractVars, registry, pair_started, pair_stuck_signaled, commands_rx,
                 osVars>>

EnumerateLsbFirst(a) ==  \* mutant: the entry's id has the bytes in the order of the number
  /\ a \in paired
  /\ registry' = registry \cup {a.le}
  /\ UNCHANGED <<contractVars, pair_started, pair_stuck_signaled, manual_scan_until,
                 sdp_recovery_attempted, commands_rx, events_rx, osVars>>

(* Enumeration finds a Wiimote the system has paired and inserts its entry.*)
Enumerate(a) ==
  /\ a \in paired
  /\ registry' = registry \cup {FormatAddr(a)}
  /\ UNCHANGED <<contractVars, pair_started, pair_stuck_signaled, manual_scan_until,
                 sdp_recovery_attempted, commands_rx, events_rx, osVars>>

-----------------------------------------------------------------------------
(* handle_command.                                                         *)
HandleStartScan ==
  /\ commands_rx # <<>>
  /\ Head(commands_rx).type = "StartScan"
  /\ commands_rx' = Tail(commands_rx)
  /\ manual_scan_until' = TRUE
  /\ TellScanState(TRUE)
  /\ UNCHANGED <<contractVars, registry, pair_started, pair_stuck_signaled,
                 sdp_recovery_attempted, osVars>>

(* The entry goes, and the address read from the id is unpaired.           *)
HandleForget(id, ok) ==
  /\ commands_rx # <<>>
  /\ Head(commands_rx) = [type |-> "Forget", id |-> id]
  /\ commands_rx' = Tail(commands_rx)
  /\ registry' = registry \ {id}
  /\ UnpairAddr(MacToU64(id), ok)
  /\ IF ok THEN ClearPersistentWarnings({"os_unpair"}) ELSE EmitUserError("os_unpair")
  /\ UNCHANGED <<contractVars, pair_started, pair_stuck_signaled, manual_scan_until,
                 sdp_recovery_attempted>>

-----------------------------------------------------------------------------
(* The scanner, with what its news means for the operating system.         *)
ScannerPairs ==
  /\ Succeed
  /\ paired' = paired \cup {attempt}
  /\ stale' = stale \ {attempt}
  /\ UNCHANGED <<watchVars, commands_rx, events_rx>>

ScannerSpeaks ==
  /\ ScannerNews
  /\ UNCHANGED <<watchVars, commands_rx, events_rx, osVars>>

(* A Wiimote Plus that was switched off and on shows other SDP records.    *)
BecomeStale(a) ==
  /\ a \in paired
  /\ stale' = stale \cup {a}
  /\ UNCHANGED <<contractVars, watchVars, commands_rx, events_rx, paired>>

DaemonHandlesEvent ==
  \E a \in Addrs :
    \/ OnPairing(a) \/ OnPaired(a) \/ OnPairFailed(a) \/ OnHidEnabled(a)
    \/ IgnoreStuck(a)
    \/ \E ok \in BOOLEAN : RecoverStuck(a, ok)

DaemonHandlesCommand ==
  HandleStartScan \/ \E id \in Ids, ok \in BOOLEAN : HandleForget(id, ok)

WatchNext ==
  \/ DaemonHandlesEvent
  \/ DaemonHandlesCommand
  \/ \E a \in Addrs : TickPairStuck(a) \/ Enumerate(a) \/ BecomeStale(a)
  \/ TickManualScanWindow
  \/ ScannerPairs
  \/ ScannerSpeaks

=============================================================================
