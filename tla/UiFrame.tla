------------------------------- MODULE UiFrame -------------------------------
(***************************************************************************)
(* The desktop UI as far as it keeps state (main.rs, device_card.rs,       *)
(* dialogs.rs, menubar.rs): each frame drains the daemon's messages, then  *)
(* draws, and what the user clicks becomes commands.                       *)
(***************************************************************************)
EXTENDS PairingWatch

CONSTANT MaxCommands  \* bound: commands on their way when the user clicks

ASSUME UiConstants == MaxCommands \in Nat \ {0}

VARIABLES
  persistent_warnings,  \* the keys of the banners shown
  pairing_stuck,        \* the address of the recovery dialog
  pending_forget,       \* the id of the confirmation dialog
  scan_active_until     \* is the countdown of a scan shown

uiVars == <<persistent_warnings, pairing_stuck, pending_forget, scan_active_until>>

UiTypeOK ==
  /\ persistent_warnings \subseteq Banners
  /\ pairing_stuck \in Addrs \cup {None}
  /\ pending_forget \in Ids \cup {None}
  /\ scan_active_until \in BOOLEAN

UiInit ==
  /\ persistent_warnings = {}
  /\ pairing_stuck = None
  /\ pending_forget = None
  /\ scan_active_until = FALSE

-----------------------------------------------------------------------------
(* drain_events.  A banner is shown once per key; the dialog of a stuck    *)
(* pairing has one address, the last.                                      *)
DrainEvent ==
  /\ events_rx # <<>>
  /\ events_rx' = Tail(events_rx)
  /\ UNCHANGED <<contractVars, watchVars, commands_rx, osVars, pending_forget>>

DrainScanState ==
  /\ DrainEvent
  /\ Head(events_rx).type = "ScanState"
  /\ scan_active_until' = Head(events_rx).active
  /\ UNCHANGED <<persistent_warnings, pairing_stuck>>

DrainPairingStuck ==
  /\ DrainEvent
  /\ Head(events_rx).type = "PairingStuck"
  /\ pairing_stuck' = Head(events_rx).addr
  /\ UNCHANGED <<persistent_warnings, scan_active_until>>

DrainWarning ==
  /\ DrainEvent
  /\ Head(events_rx).type = "PersistentWarning"
  /\ persistent_warnings' = persistent_warnings \cup {Head(events_rx).key}
  /\ UNCHANGED <<pairing_stuck, scan_active_until>>

DrainResolved ==
  /\ DrainEvent
  /\ Head(events_rx).type = "PersistentWarningResolved"
  /\ persistent_warnings' = persistent_warnings \ Head(events_rx).keys
  /\ UNCHANGED <<pairing_stuck, scan_active_until>>

-----------------------------------------------------------------------------
(* The user.  A frame is drawn from what the drain before it has left.     *)
Clicks ==
  /\ events_rx = <<>>
  /\ UNCHANGED <<contractVars, watchVars, events_rx, osVars>>

SendCommand(cmd) ==
  /\ Len(commands_rx) < MaxCommands
  /\ commands_rx' = Append(commands_rx, cmd)

DismissBanner(key) ==
  /\ Clicks
  /\ key \in persistent_warnings
  /\ persistent_warnings' = persistent_warnings \ {key}
  /\ UNCHANGED <<commands_rx, pairing_stuck, pending_forget, scan_active_until>>

CloseStuckDialog ==
  /\ Clicks
  /\ pairing_stuck # None
  /\ pairing_stuck' = None
  /\ UNCHANGED <<commands_rx, persistent_warnings, pending_forget, scan_active_until>>

(* The frame's own clock may end a countdown before the daemon says so.    *)
CountdownEnds ==
  /\ Clicks
  /\ scan_active_until
  /\ scan_active_until' = FALSE
  /\ UNCHANGED <<commands_rx, persistent_warnings, pairing_stuck, pending_forget>>

(* The scan buttons are disabled while a countdown is shown.               *)
ClickScan ==
  /\ Clicks
  /\ ~scan_active_until
  /\ SendCommand([type |-> "StartScan"])
  /\ UNCHANGED uiVars

(* Forget on a card opens the confirmation dialog, or turns an open one to *)
(* another device.                                                         *)
ClickForget(id) ==
  /\ Clicks
  /\ id \in registry
  /\ pending_forget' = id
  /\ UNCHANGED <<commands_rx, persistent_warnings, pairing_stuck, scan_active_until>>

ConfirmForget(decision) ==
  /\ Clicks
  /\ pending_forget # None
  /\ IF decision THEN SendCommand([type |-> "Forget", id |-> pending_forget])
                 ELSE UNCHANGED commands_rx
  /\ pending_forget' = None
  /\ UNCHANGED <<persistent_warnings, pairing_stuck, scan_active_until>>

DrainEvents == DrainScanState \/ DrainPairingStuck \/ DrainWarning \/ DrainResolved

UserActs ==
  \/ \E key \in Banners : DismissBanner(key)
  \/ CloseStuckDialog
  \/ CountdownEnds
  \/ ClickScan
  \/ \E id \in Ids : ClickForget(id)
  \/ \E decision \in BOOLEAN : ConfirmForget(decision)

UiNext == DrainEvents \/ UserActs

=============================================================================
