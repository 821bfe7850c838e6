------------------------------- MODULE Recovery -------------------------------
(***************************************************************************)
(* Pairing and recovery from end to end: a scanner that keeps its          *)
(* contract, the daemon's bookkeeping, and the UI with its user.           *)
(***************************************************************************)
EXTENDS UiFrame

recoveryAll == <<recoveryVars, uiVars>>

RecoveryTypeOK == WatchTypeOK /\ UiTypeOK

RecoveryInit == WatchInit /\ UiInit

RecoveryNext == (WatchNext /\ UNCHANGED uiVars) \/ UiNext

RecoverySpec == RecoveryInit /\ [][RecoveryNext]_recoveryAll

(* The daemon's loop and the UI's frames keep coming, and so does time for *)
(* a watched attempt.  A scanner that is not held up in an attempt reports *)
(* a stale Wiimote in every round; attempts, windows and users end when    *)
(* they do.                                                                *)
RecoveryFairSpec ==
  /\ RecoverySpec
  /\ WF_recoveryAll(DaemonHandlesEvent /\ UNCHANGED uiVars)
  /\ WF_recoveryAll(DaemonHandlesCommand /\ UNCHANGED uiVars)
  /\ WF_recoveryAll(DrainEvents)
  /\ \A a \in Addrs :
       /\ SF_recoveryAll(TickPairStuck(a) /\ UNCHANGED uiVars)
       /\ SF_recoveryAll(/\ a \in stale
                         /\ Report("SdpCacheStale", a)
                         /\ ScannerSpeaks
                         /\ UNCHANGED uiVars)

-----------------------------------------------------------------------------
(* The watchdog and the scanner agree whenever the channel between them is *)
(* empty: exactly the attempt that is under way is watched, and none but a *)
(* watched attempt counts as announced, so that the next hang of the same  *)
(* Wiimote is announced again (scanner.rs, ticks.rs).                      *)
WatchFollowsScanner ==
  /\ scanner_rx = <<>> => pair_started = {attempt} \ {None}
  /\ pair_stuck_signaled \subseteq pair_started

(* lib.rs, UiEvent::PairingStuck: an attempt that hangs brings up the      *)
(* recovery dialog with its address; an announcement that belongs to an    *)
(* earlier attempt, when news of this one is still on its way, is not      *)
(* enough.                                                                 *)
HungPairIsAnnounced ==
  \A a \in Addrs :
    (attempt = a /\ (a \notin pair_stuck_signaled \/ scanner_rx # <<>>))
      ~> (attempt # a \/ pairing_stuck = a)

(* lib.rs, sdp_recovery_attempted, and scanner.rs, handle_bt_state_stuck:  *)
(* a stale Wiimote that has had no attempt in an open scan window is       *)
(* unpaired, or the user is told, unless the window ends or an attempt to  *)
(* pair holds the scanner up.                                              *)
StaleIsRecovered ==
  \A a \in Addrs :
    (a \in stale /\ manual_scan_until /\ a \notin sdp_recovery_attempted)
      ~> (\/ a \notin stale \/ "auto_recovery" \in persistent_warnings
          \/ ~manual_scan_until \/ attempt # None)

(* dialogs.rs:277: "This will disconnect, drop the device from the saved   *)
(* list, and unpair it from your OS Bluetooth registry."  README.md:25:    *)
(* "Forget removes the device from WiiPair and unpairs it from the OS."    *)
ForgetUnpairs ==
  [][\A a \in Addrs, ok \in BOOLEAN :
       HandleForget(FormatAddr(a), ok) => a \notin paired']_recoveryAll

=============================================================================
