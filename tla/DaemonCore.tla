------------------------------ MODULE DaemonCore ------------------------------
(***************************************************************************)
(* The worker thread of crates/wiimote-daemon: its registry of Wiimotes    *)
(* and the handlers of UI commands, Bluetooth recovery events and          *)
(* transport events, the periodic scan and the ticks, composed with the    *)
(* HID sessions it opens and closes.                                       *)
(*                                                                         *)
(* One iteration of run() goes through the phases below in order; a phase  *)
(* that drains a channel takes one step per message.  I/O threads and the  *)
(* operating system step between any two of them.  The banners and log     *)
(* lines the handlers send to the UI decide nothing here and are left out; *)
(* so are the writes to the Wiimote (LEDs, rumble, reporting mode).        *)
(***************************************************************************)
EXTENDS DeviceRegistry, HidSessions

CONSTANTS
  NoSerial,      \* the devices for which hidapi shows no serial number
  InitialFiles,  \* what devices.json may hold when the daemon first starts
  Commands,      \* the UI commands an instance exercises
  BtRecovery     \* BOOLEAN: does the scanner report events that reach the registry

ASSUME CoreConstants ==
  /\ NoSerial \subseteq Devices
  /\ InitialFiles \subseteq Files
  /\ Commands \subseteq {"Connect", "Disconnect", "Forget", "StartScan", "SetMappingProfile"}
  /\ BtRecovery \in BOOLEAN

VARIABLES
  phase,                   \* where the thread is in its loop
  registry,                \* DaemonCtx::registry
  manual_scan_until,       \* is a manual scan window open
  sdp_recovery_attempted,  \* devices auto-unpaired in this scan window
  force_rescan,
  dirty,                   \* the UI snapshot is stale
  persist_dirty            \* the config on disk is stale

ctxVars == <<registry, manual_scan_until, sdp_recovery_attempted, force_rescan,
             dirty, persist_dirty>>
vars == <<phase, ctxVars, sessionVars>>

(* "scanner": scanner events were drained in this iteration; the drain of   *)
(* a channel that turns out empty is part of the next step.                *)
Phases == {"commands", "scanner", "transport", "flush"}

(* Every variable holds a value of its type.                               *)
TypeOK ==
  /\ SessionTypeOK
  /\ phase \in Phases
  /\ IsRegistry(registry)
  /\ manual_scan_until \in BOOLEAN
  /\ sdp_recovery_attempted \subseteq Devices
  /\ force_rescan \in BOOLEAN
  /\ dirty \in BOOLEAN
  /\ persist_dirty \in BOOLEAN

-----------------------------------------------------------------------------
(* DaemonCtx::new, and one offline entry per device of the file.           *)

InitFrom(file) ==
  /\ SessionInit
  /\ phase = "commands"
  /\ registry = Hydrated(file)
  /\ manual_scan_until = FALSE
  /\ sdp_recovery_attempted = {}
  /\ force_rescan = FALSE
  /\ dirty = TRUE
  /\ persist_dirty = FALSE

Init == \E file \in InitialFiles : InitFrom(file)

-----------------------------------------------------------------------------
(* 1) UI commands.  The UI composes a command from a list the daemon sent  *)
(* some frames ago, so every command may meet every state, with an id the  *)
(* registry no longer has, too.                                            *)

Command(name) ==
  /\ phase = "commands"
  /\ name \in Commands
  /\ UNCHANGED <<phase, node, events>>

(* handle_connect when try_connect succeeds: the device waits for its      *)
(* first report.                                                           *)
ConnectOpens(id) ==
  /\ Command("Connect")
  /\ id \in DOMAIN registry
  /\ MayOpen(registry[id].path)
  /\ OpenAll({registry[id].path})
  /\ registry' = [registry EXCEPT ![id].user_disabled = FALSE,
                                  ![id].next_retry = FALSE,
                                  ![id].pending = TRUE]
  /\ dirty' = TRUE
  /\ UNCHANGED <<manual_scan_until, sdp_recovery_attempted, force_rescan,
                 persist_dirty>>

(* handle_connect when the device is unknown or cannot be opened: retry    *)
(* later, and open a scan window unless one is open already.               *)
ConnectFails(id) ==
  /\ Command("Connect")
  /\ id \in DOMAIN registry => ~AlreadyOpen(registry[id].path)
  /\ registry' = [k \in DOMAIN registry |->
                    IF k = id
                      THEN [registry[k] EXCEPT !.user_disabled = FALSE,
                                               !.next_retry = TRUE]
                      ELSE registry[k]]
  /\ manual_scan_until' = TRUE
  /\ force_rescan' = (force_rescan \/ ~manual_scan_until)
  /\ dirty' = TRUE
  /\ UNCHANGED <<sdp_recovery_attempted, persist_dirty, handle, io>>

HandleDisconnect(id) ==
  /\ Command("Disconnect")
  /\ IF id \in DOMAIN registry
       THEN /\ Close(registry[id].path)
            /\ registry' = [registry EXCEPT
                 ![id] = [ResetSession(registry[id]) EXCEPT !.user_disabled = TRUE]]
       ELSE UNCHANGED <<registry, handle, io>>
  /\ dirty' = TRUE
  /\ UNCHANGED <<manual_scan_until, sdp_recovery_attempted, force_rescan, persist_dirty>>

(* Unpairing is asked of the OS only for an id that is a MAC.              *)
HandleForget(id) ==
  /\ Command("Forget")
  /\ IF id \in DOMAIN registry
       THEN Close(registry[id].path)
       ELSE UNCHANGED <<handle, io>>
  /\ registry' = Removed(registry, id)
  /\ persist_dirty' = TRUE
  /\ dirty' = TRUE
  /\ UNCHANGED <<manual_scan_until, sdp_recovery_attempted, force_rescan>>

HandleStartScan ==
  /\ Command("StartScan")
  /\ manual_scan_until' = TRUE
  /\ force_rescan' = TRUE
  /\ UNCHANGED <<registry, sdp_recovery_attempted, dirty, persist_dirty, handle, io>>

(* The pad is rebuilt at once when the device is connected; padOk is       *)
(* whether output_for_profile succeeded.                                   *)
HandleSetProfile(id, profile, padOk) ==
  /\ Command("SetMappingProfile")
  /\ id \in DOMAIN registry
  /\ registry[id].mapping_profile # profile
  /\ LET online == registry[id].connected
     IN  registry' = [registry EXCEPT
           ![id].mapping_profile = profile,
           ![id].output = IF online /\ padOk THEN profile ELSE None,
           ![id].output_retry_at = online /\ ~padOk]
  /\ persist_dirty' = TRUE
  /\ dirty' = TRUE
  /\ UNCHANGED <<manual_scan_until, sdp_recovery_attempted, force_rescan, handle, io>>

-----------------------------------------------------------------------------
(* 2a) Scanner events that reach the registry; those of the pairing        *)
(* watchdog touch other state.                                             *)

Scanner ==
  /\ BtRecovery
  /\ phase \in {"commands", "scanner"}
  /\ phase' = "scanner"
  /\ UNCHANGED <<sessionVars, manual_scan_until>>

HandleHidEnabled ==
  /\ Scanner
  /\ force_rescan' = TRUE
  /\ UNCHANGED <<registry, sdp_recovery_attempted, dirty, persist_dirty>>

(* handle_bt_state_stuck, once per device and scan window: unpair, forget  *)
(* the entry, and leave its HID handle as it is.                           *)
HandleBtStateStuck(d, unpaired) ==
  /\ Scanner
  /\ manual_scan_until
  /\ d \notin sdp_recovery_attempted
  /\ sdp_recovery_attempted' = sdp_recovery_attempted \cup {d}
  /\ IF unpaired
       THEN /\ force_rescan' = TRUE
            /\ registry' = Removed(registry, d)
            /\ dirty' = (dirty \/ d \in DOMAIN registry)
            /\ persist_dirty' = (persist_dirty \/ d \in DOMAIN registry)
       ELSE UNCHANGED <<force_rescan, registry, dirty, persist_dirty>>

-----------------------------------------------------------------------------
(* 2b) tick_periodic_scan.                                                 *)

(* What an enumeration returns: the nodes, each under its canonical id.    *)
Found == {p \in Paths : node[p] # None}
CanonicalId(p) == IF node[p] \in NoSerial THEN p ELSE node[p]

(* Mutant: rekey moves an entry over one that exists.                      *)
MigratesOverKnown(p) == CanonicalId(p) # p /\ p \in DOMAIN registry

(* merge_enumerated.  No two entries of one enumeration touch the same id, *)
(* so the order of its loop does not matter.  An entry keyed by a path     *)
(* moves to the MAC that now shows there, unless the MAC is known.         *)
Migrates(p) ==
  /\ CanonicalId(p) # p
  /\ p \in DOMAIN registry
  /\ CanonicalId(p) \notin DOMAIN registry

MergedEntry(p) ==
  IF CanonicalId(p) \in DOMAIN registry
    THEN [registry[CanonicalId(p)] EXCEPT !.path = p]
  ELSE IF Migrates(p) THEN [registry[p] EXCEPT !.path = p]
  ELSE NewRuntime(p, None, DefaultProfile)

Merged ==
  LET foundIds == {CanonicalId(p) : p \in Found}
      migrated == {p \in Found : Migrates(p)}
  IN  [id \in (DOMAIN registry \ migrated) \cup foundIds |->
         IF id \in foundIds
           THEN MergedEntry(CHOOSE p \in Found : CanonicalId(p) = id)
           ELSE registry[id]]

(* Mutants: a retry ignores the sticky flag, or is never due again.        *)
CandidatesIgnoringUser(reg, due) ==
  {k \in DOMAIN reg : ~reg[k].connected /\ ~reg[k].pending
                      /\ (reg[k].next_retry => k \in due)}
CandidatesNeverDue(reg, due) ==
  {k \in DOMAIN reg : ~reg[k].connected /\ ~reg[k].user_disabled
                      /\ ~reg[k].pending /\ ~reg[k].next_retry}

(* The devices the auto-retry looks at, when `due` is the set of ids whose *)
(* next_retry deadline has passed.                                         *)
Candidates(reg, due) ==
  {k \in DOMAIN reg : /\ ~reg[k].connected
                      /\ ~reg[k].user_disabled
                      /\ ~reg[k].pending
                      /\ reg[k].next_retry => k \in due}

EnumerationAllowed == force_rescan \/ ~AnyConnected(registry) \/ manual_scan_until

(* Every arm of merge_enumerated that changes an entry marks both the list *)
(* the UI has and the one on disk as stale.                                *)
ChangesEntries(merged) == merged # registry

(* `merged` is the registry after the enumeration, `opened` the candidates *)
(* whose try_connect succeeds.                                             *)
ScanAndConnect(merged, due, opened) ==
  LET tried == Candidates(merged, due)
  IN  /\ opened \subseteq tried
      /\ \A k \in tried : AlreadyOpen(merged[k].path) => k \in opened
      /\ \A k \in opened : MayOpen(merged[k].path)
      /\ OpenAll({merged[k].path : k \in opened})
      /\ registry' = [k \in DOMAIN merged |->
           IF k \in opened
             THEN [merged[k] EXCEPT !.pending = TRUE, !.next_retry = FALSE]
           ELSE IF k \in tried THEN [merged[k] EXCEPT !.next_retry = TRUE]
           ELSE merged[k]]
      /\ dirty' = (dirty \/ ChangesEntries(merged) \/ opened # {})
      /\ persist_dirty' = (persist_dirty \/ ChangesEntries(merged))

TickPeriodicScan ==
  /\ phase \in {"commands", "scanner"}
  /\ \E merged \in {registry} \cup (IF EnumerationAllowed THEN {Merged} ELSE {}) :
       \E due, opened \in SUBSET DOMAIN merged : ScanAndConnect(merged, due, opened)
  /\ force_rescan' = FALSE
  /\ phase' = "transport"
  /\ UNCHANGED <<manual_scan_until, sdp_recovery_attempted,
                 node, events>>

(* Less than SCAN_INTERVAL since the last scan, and none forced.           *)
SkipScan ==
  /\ phase \in {"commands", "scanner"}
  /\ ~force_rescan
  /\ phase' = "transport"
  /\ UNCHANGED <<ctxVars, sessionVars>>

-----------------------------------------------------------------------------
(* 3) Transport events.                                                    *)

Receive(type) ==
  /\ phase = "transport"
  /\ events # <<>>
  /\ Head(events).type = type
  /\ events' = Tail(events)
  /\ UNCHANGED <<phase, manual_scan_until, sdp_recovery_attempted, node>>

Sender == Head(events).path
Input == Head(events).from

ReportFromUnknownPath ==
  /\ Receive("Report")
  /\ IdsForPath(registry, Sender) = {}
  /\ force_rescan' = TRUE
  /\ UNCHANGED <<registry, dirty, persist_dirty, handle, io>>

(* Mutant: an extension that comes or goes is not saved.                   *)
ExtensionFsmUnsaved(id, ext) == UNCHANGED persist_dirty

(* What process_extension_fsm may do here: keep the extension, identify    *)
(* one, maybe the same again, or see it unplugged.                         *)
ExtensionFsm(id, ext) ==
  \/ ext = registry[id].extension /\ UNCHANGED persist_dirty
  \/ {ext, registry[id].extension} # {None} /\ persist_dirty' = TRUE

(* A report for a device that is not pending updates its inputs and the    *)
(* pad; every report carries buttons, which the UI shows.                  *)
ReportUpdates(id, ext) ==
  /\ Receive("Report")
  /\ id \in IdsForPath(registry, Sender)
  /\ ~registry[id].pending
  /\ ExtensionFsm(id, ext)
  /\ registry' = [registry EXCEPT ![id].extension = ext]
  /\ dirty' = TRUE
  /\ UNCHANGED <<force_rescan, handle, io>>

(* promote_to_connected with a slot free: the pad is plugged, or armed for *)
(* a retry.                                                                *)
ReportPromotes(id, ext, padOk) ==
  /\ Receive("Report")
  /\ id \in IdsForPath(registry, Sender)
  /\ registry[id].pending
  /\ FreeSlots(registry) # {}
  /\ ExtensionFsm(id, ext)
  /\ registry' = [registry EXCEPT
       ![id].extension = ext,
       ![id].pending = FALSE,
       ![id].slot = LowestFreeSlot(registry),
       ![id].connected = TRUE,
       ![id].output = IF padOk THEN registry[id].mapping_profile ELSE @,
       ![id].output_retry_at = IF padOk THEN @ ELSE TRUE]
  /\ dirty' = TRUE
  /\ UNCHANGED <<force_rescan, handle, io>>

(* promote_to_connected with every slot taken: the handle is closed again. *)
ReportRefused(id, ext) ==
  /\ Receive("Report")
  /\ id \in IdsForPath(registry, Sender)
  /\ registry[id].pending
  /\ FreeSlots(registry) = {}
  /\ ExtensionFsm(id, ext)
  /\ registry' = [registry EXCEPT ![id].extension = ext, ![id].pending = FALSE]
  /\ Close(registry[id].path)
  /\ dirty' = TRUE
  /\ UNCHANGED force_rescan

LostUnknownPath ==
  /\ Receive("DeviceLost")
  /\ IdsForPath(registry, Sender) = {}
  /\ Close(Sender)
  /\ UNCHANGED <<registry, force_rescan, dirty, persist_dirty>>

(* Mutant: the UI is not told.                                             *)
LostDeviceUntold(id) ==
  /\ Receive("DeviceLost")
  /\ id \in IdsForPath(registry, Sender)
  /\ registry' = [registry EXCEPT
       ![id] = [ResetSession(registry[id]) EXCEPT !.next_retry = TRUE]]
  /\ Close(Sender)
  /\ UNCHANGED <<force_rescan, dirty, persist_dirty>>

LostDevice(id) ==
  /\ Receive("DeviceLost")
  /\ id \in IdsForPath(registry, Sender)
  /\ registry' = [registry EXCEPT
       ![id] = [ResetSession(registry[id]) EXCEPT !.next_retry = TRUE]]
  /\ Close(Sender)
  /\ dirty' = TRUE
  /\ UNCHANGED <<force_rescan, persist_dirty>>

-----------------------------------------------------------------------------
(* 4) Ticks: `expired` is whether the scan window's deadline has passed,   *)
(* `fixed` the devices that get their pad on this retry.                   *)

LacksPad(k) == registry[k].connected /\ registry[k].output = None
                 /\ registry[k].output_retry_at

(* Mutant: the memo of this window outlives it.                            *)
TickManualScanWindowKeepsMemo(expired) ==
  /\ expired => manual_scan_until
  /\ manual_scan_until' = (manual_scan_until /\ ~expired)
  /\ force_rescan' = (force_rescan \/ expired)
  /\ UNCHANGED sdp_recovery_attempted

TickManualScanWindow(expired) ==
  /\ expired => manual_scan_until
  /\ manual_scan_until' = (manual_scan_until /\ ~expired)
  /\ force_rescan' = (force_rescan \/ expired)
  /\ sdp_recovery_attempted' = IF expired THEN {} ELSE sdp_recovery_attempted

TickOutputRetry(fixed) ==
  /\ fixed \subseteq {k \in DOMAIN registry : LacksPad(k)}
  /\ registry' = [k \in DOMAIN registry |->
       IF k \in fixed
         THEN [registry[k] EXCEPT !.output = registry[k].mapping_profile,
                                  !.output_retry_at = FALSE]
         ELSE registry[k]]
  /\ dirty' = (dirty \/ fixed # {})

Ticks ==
  /\ phase = "transport"
  /\ events = <<>>
  /\ \E expired \in BOOLEAN : TickManualScanWindow(expired)
  /\ \E fixed \in SUBSET DOMAIN registry : TickOutputRetry(fixed)
  /\ phase' = "flush"
  /\ UNCHANGED <<persist_dirty, sessionVars>>

-----------------------------------------------------------------------------
(* 6) Flush.  Saving is gated on the UI flag: a stale config is only       *)
(* written, and its flag only cleared, when the snapshot is stale, too.    *)

FlushKeepsFlag ==  \* mutant: the flag is not cleared by the save
  /\ phase = "flush"
  /\ dirty' = FALSE
  /\ phase' = "commands"
  /\ UNCHANGED <<registry, manual_scan_until, sdp_recovery_attempted, force_rescan,
                 persist_dirty, sessionVars>>

Flush ==
  /\ phase = "flush"
  /\ persist_dirty' = (persist_dirty /\ ~dirty)
  /\ dirty' = FALSE
  /\ phase' = "commands"
  /\ UNCHANGED <<registry, manual_scan_until, sdp_recovery_attempted, force_rescan,
                 sessionVars>>

-----------------------------------------------------------------------------
HandleCommand ==
  \/ HandleStartScan
  \/ \E id \in Ids :
       \/ ConnectOpens(id)
       \/ ConnectFails(id)
       \/ HandleDisconnect(id)
       \/ HandleForget(id)
       \/ \E profile \in Profiles, padOk \in BOOLEAN : HandleSetProfile(id, profile, padOk)

HandleScannerEvent ==
  \/ HandleHidEnabled
  \/ \E d \in Devices, unpaired \in BOOLEAN : HandleBtStateStuck(d, unpaired)

HandleTransportEvent ==
  \/ ReportFromUnknownPath
  \/ LostUnknownPath
  \/ \E id \in DOMAIN registry :
       \/ LostDevice(id)
       \/ \E ext \in Extensions \cup {None} :
            \/ ReportUpdates(id, ext)
            \/ \E padOk \in BOOLEAN : ReportPromotes(id, ext, padOk)
            \/ ReportRefused(id, ext)

(* The steps the thread takes by itself.                                   *)
WorkStep ==
  \/ TickPeriodicScan
  \/ SkipScan
  \/ HandleTransportEvent
  \/ Ticks

LoopStep == WorkStep \/ Flush

EnvironmentNext == (IoNext \/ OsNext) /\ UNCHANGED <<phase, ctxVars>>

Next ==
  \/ HandleCommand
  \/ HandleScannerEvent
  \/ LoopStep
  \/ EnvironmentNext

Spec == Init /\ [][Next]_vars

=============================================================================
