---------------------------- MODULE DaemonProcess ----------------------------
(***************************************************************************)
(* The daemon's worker thread within the life of its process: what each    *)
(* flush tells the UI and writes to devices.json (lib.rs::run, persist.rs) *)
(* and what a quit or a crash loses and the next start restores.           *)
(***************************************************************************)
EXTENDS DaemonProperties

CONSTANTS
  Restarts,    \* BOOLEAN: may the process stop and start again
  SaveMayFail  \* BOOLEAN: may persist::save fail to write or to rename

ASSUME ProcessConstants == {Restarts, SaveMayFail} \subseteq BOOLEAN

VARIABLES
  process,  \* "running", or how it ended
  shown,    \* the last DeviceListChanged the UI got
  disk      \* devices.json

processVars == <<vars, process, shown, disk>>

Lists == UNION {[S -> [connected : BOOLEAN, user_disabled : BOOLEAN,
                       extension : Extensions \cup {None},
                       mapping_profile : Profiles]] : S \in SUBSET Ids}

(* Every variable holds a value of its type.                               *)
ProcessTypeOK ==
  /\ TypeOK
  /\ process \in {"running", "quit", "crashed"}
  /\ shown \in Lists
  /\ disk \in Files

NothingShown == [k \in {} |-> None]

ProcessInit ==
  /\ disk \in InitialFiles
  /\ InitFrom(disk)
  /\ process = "running"
  /\ shown = NothingShown

(* The list goes to the UI when dirty, and to disk when persist_dirty; an  *)
(* error of save is ignored, and its flag cleared all the same.            *)
FlushToUiAndDisk(saved) ==
  /\ Flush
  /\ saved \/ SaveMayFail
  /\ shown' = IF dirty THEN ShownView(registry) ELSE shown
  /\ disk' = IF dirty /\ persist_dirty /\ saved THEN PersistedView(registry) ELSE disk
  /\ UNCHANGED process

(* The end of the process takes its I/O threads and undelivered events     *)
(* with it; the registry is kept here only to be compared with the disk.   *)
Stop(how) ==
  /\ Restarts
  /\ process = "running"
  /\ process' = how
  /\ handle' = [p \in Paths |-> 0]
  /\ io' = [p \in Paths |-> [g \in Gens |-> Ended]]
  /\ events' = <<>>
  /\ UNCHANGED <<phase, ctxVars, node, shown, disk>>

(* run() finds the command channel disconnected: shutdown() turns LEDs off *)
(* and the thread returns from inside the first phase.                     *)
Quit == phase = "commands" /\ Stop("quit")
Crash == Stop("crashed")

(* The next start: DaemonCtx::new, then one offline entry per device of    *)
(* the file.                                                               *)
Restart ==
  /\ process # "running"
  /\ process' = "running"
  /\ phase' = "commands"
  /\ registry' = Hydrated(disk)
  /\ manual_scan_until' = FALSE
  /\ sdp_recovery_attempted' = {}
  /\ force_rescan' = FALSE
  /\ dirty' = TRUE
  /\ persist_dirty' = FALSE
  /\ shown' = NothingShown
  /\ UNCHANGED <<disk, sessionVars>>

DaemonStep ==
  /\ process = "running"
  /\ \/ /\ HandleCommand \/ HandleScannerEvent \/ WorkStep \/ EnvironmentNext
        /\ UNCHANGED <<process, shown, disk>>
     \/ \E saved \in BOOLEAN : FlushToUiAndDisk(saved)

ProcessNext == DaemonStep \/ Quit \/ Crash \/ Restart

ProcessSpec == ProcessInit /\ [][ProcessNext]_processVars

-----------------------------------------------------------------------------
(* No handler changes what the UI shows without flagging it: whenever the  *)
(* snapshot is not flagged stale, the UI has the registry's state.         *)
UiStaleIsFlagged ==
  process = "running" /\ ~dirty => shown = ShownView(registry)

(* "Set when the persisted on-disk config is stale" (DaemonCtx): whenever  *)
(* it is not set, devices.json holds the registry.                         *)
DiskStaleIsFlagged ==
  process = "running" /\ ~persist_dirty => disk = PersistedView(registry)

=============================================================================
