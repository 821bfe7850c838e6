---------------------------- MODULE ProcessProofs ----------------------------
(***************************************************************************)
(* Proofs about the daemon's process: through any number of quits, crashes *)
(* and restarts at any step, what the UI and devices.json hold is the      *)
(* registry, or flagged as stale.                                          *)
(***************************************************************************)
EXTENDS DaemonProcess, DaemonProofs

-----------------------------------------------------------------------------
(* The views of a registry.                                                *)

LEMMA ViewTypes ==
  ASSUME NEW reg, IsRegistry(reg)
  PROVE  ShownView(reg) \in Lists /\ PersistedView(reg) \in Files
<1> DEFINE Row == [connected : BOOLEAN, user_disabled : BOOLEAN,
                   extension : Extensions \cup {None}, mapping_profile : Profiles]
<1>1. DOMAIN reg \in SUBSET Ids /\ \A k \in DOMAIN reg : reg[k] \in Runtime
  BY DEF IsRegistry
<1>2. ShownView(reg) \in [DOMAIN reg -> Row]
  BY <1>1 DEF ShownView, Runtime
<1>3. PersistedView(reg) \in [DOMAIN reg -> PersistedDevice]
  BY <1>1 DEF PersistedView, PersistedDevice, Runtime
<1> QED
  BY <1>1, <1>2, <1>3 DEF Lists, Files

(* What is read back from a file is what the file holds.                   *)
LEMMA HydrationRoundTrip ==
  ASSUME NEW file \in Files
  PROVE  PersistedView(Hydrated(file)) = file
<1>1. PICK S \in SUBSET Ids : file \in [S -> PersistedDevice]
  BY DEF Files
<1>2. \A k \in S : file[k] = [path |-> file[k].path, last_extension |-> file[k].last_extension,
                              mapping_profile |-> file[k].mapping_profile]
  BY <1>1 DEF PersistedDevice
<1>3. DOMAIN Hydrated(file) = S /\ DOMAIN file = S
  BY <1>1 DEF Hydrated
<1>4. \A k \in S : /\ Hydrated(file)[k].path = file[k].path
                   /\ Hydrated(file)[k].extension = file[k].last_extension
                   /\ Hydrated(file)[k].mapping_profile = file[k].mapping_profile
  BY <1>3 DEF Hydrated, NewRuntime
<1>5. PersistedView(Hydrated(file)) = [k \in S |-> file[k]]
  BY <1>2, <1>3, <1>4 DEF PersistedView
<1> QED
  BY <1>1, <1>5

(* Entries that agree on what a view shows give the same view.             *)
SameShown(r, s) ==
  /\ r.connected = s.connected /\ r.user_disabled = s.user_disabled
  /\ r.extension = s.extension /\ r.mapping_profile = s.mapping_profile

SamePersisted(r, s) ==
  r.path = s.path /\ r.extension = s.extension /\ r.mapping_profile = s.mapping_profile

LEMMA SameViews ==
  ASSUME NEW reg, NEW new, DOMAIN new = DOMAIN reg
  PROVE  /\ (\A k \in DOMAIN reg : SameShown(new[k], reg[k])) => ShownView(new) = ShownView(reg)
         /\ (\A k \in DOMAIN reg : SamePersisted(new[k], reg[k]))
              => PersistedView(new) = PersistedView(reg)
BY DEF SameShown, SamePersisted, ShownView, PersistedView

-----------------------------------------------------------------------------
(* Every handler that changes a view raises its flag.                      *)

Flagged ==
  /\ ~dirty' => ~dirty /\ ShownView(registry') = ShownView(registry)
  /\ ~persist_dirty' => ~persist_dirty /\ PersistedView(registry') = PersistedView(registry)

LEMMA CommandsFlag ==
  ASSUME IInv, HandleCommand
  PROVE  Flagged
<1>1. IsRegistry(registry) /\ dirty \in BOOLEAN /\ persist_dirty \in BOOLEAN
  BY DEF IInv, SoundRegistry, FlagsOK
<1>2. CASE HandleStartScan
  BY <1>2 DEF HandleStartScan, Flagged
<1>3. ASSUME NEW id \in Ids, ConnectOpens(id) PROVE Flagged
  <2>1. /\ DOMAIN registry' = DOMAIN registry
        /\ \A k \in DOMAIN registry : SamePersisted(registry'[k], registry[k])
    BY <1>1, <1>3 DEF ConnectOpens, SamePersisted, IsRegistry, Runtime
  <2> QED
    BY <1>3, <2>1, SameViews DEF ConnectOpens, Flagged
<1>4. ASSUME NEW id \in Ids, ConnectFails(id) PROVE Flagged
  <2>1. /\ DOMAIN registry' = DOMAIN registry
        /\ \A k \in DOMAIN registry : SamePersisted(registry'[k], registry[k])
    BY <1>1, <1>4 DEF ConnectFails, SamePersisted, IsRegistry, Runtime
  <2> QED
    BY <1>4, <2>1, SameViews DEF ConnectFails, Flagged
<1>5. ASSUME NEW id \in Ids, HandleDisconnect(id) PROVE Flagged
  <2>1. /\ DOMAIN registry' = DOMAIN registry
        /\ \A k \in DOMAIN registry : SamePersisted(registry'[k], registry[k])
    <3>1. CASE id \in DOMAIN registry
      <4>1. registry' = [registry EXCEPT
              ![id] = [ResetSession(registry[id]) EXCEPT !.user_disabled = TRUE]]
        BY <1>5, <3>1 DEF HandleDisconnect
      <4>2. SamePersisted([ResetSession(registry[id]) EXCEPT !.user_disabled = TRUE],
                          registry[id])
        BY DEF ResetSession, NewRuntime, SamePersisted
      <4> QED
        BY <1>1, <3>1, <4>1, <4>2 DEF IsRegistry, SamePersisted
    <3>2. CASE id \notin DOMAIN registry
      BY <1>5, <3>2 DEF HandleDisconnect, SamePersisted
    <3> QED
      BY <3>1, <3>2
  <2> QED
    BY <1>5, <2>1, SameViews DEF HandleDisconnect, Flagged
<1>6. ASSUME NEW id \in Ids, HandleForget(id) PROVE Flagged
  BY <1>6 DEF HandleForget, Flagged
<1>7. ASSUME NEW id \in Ids, NEW profile \in Profiles, NEW padOk \in BOOLEAN,
             HandleSetProfile(id, profile, padOk)
      PROVE  Flagged
  BY <1>7 DEF HandleSetProfile, Flagged
<1> QED
  BY <1>2, <1>3, <1>4, <1>5, <1>6, <1>7 DEF HandleCommand

LEMMA ScannerFlags ==
  ASSUME IInv, HandleScannerEvent
  PROVE  Flagged
<1>1. IsRegistry(registry) /\ dirty \in BOOLEAN /\ persist_dirty \in BOOLEAN
  BY DEF IInv, SoundRegistry, FlagsOK
<1>2. CASE HandleHidEnabled
  BY <1>2 DEF HandleHidEnabled, Flagged
<1>3. ASSUME NEW d \in Devices, NEW unpaired \in BOOLEAN, HandleBtStateStuck(d, unpaired)
      PROVE  Flagged
  <2>1. d \notin DOMAIN registry => Removed(registry, d) = registry
    BY <1>1 DEF Removed, IsRegistry
  <2> QED
    BY <1>1, <1>3, <2>1 DEF HandleBtStateStuck, Flagged
<1> QED
  BY <1>2, <1>3 DEF HandleScannerEvent

LEMMA TransportFlags ==
  ASSUME IInv, HandleTransportEvent
  PROVE  Flagged
<1>1. IsRegistry(registry) /\ dirty \in BOOLEAN /\ persist_dirty \in BOOLEAN
  BY DEF IInv, SoundRegistry, FlagsOK
<1>2. CASE ReportFromUnknownPath \/ LostUnknownPath
  BY <1>2 DEF ReportFromUnknownPath, LostUnknownPath, Flagged
<1>3. ASSUME NEW id \in DOMAIN registry, LostDevice(id) PROVE Flagged
  <2>1. /\ DOMAIN registry' = DOMAIN registry
        /\ \A k \in DOMAIN registry : SamePersisted(registry'[k], registry[k])
    BY <1>1, <1>3 DEF LostDevice, ResetSession, NewRuntime, SamePersisted, IsRegistry, Runtime
  <2> QED
    BY <1>3, <2>1, SameViews DEF LostDevice, Flagged
<1>4. ASSUME NEW id \in DOMAIN registry, NEW ext \in Extensions \cup {None},
             \/ ReportUpdates(id, ext)
             \/ \E padOk \in BOOLEAN : ReportPromotes(id, ext, padOk)
             \/ ReportRefused(id, ext)
      PROVE  Flagged
  <2>1. dirty' /\ ExtensionFsm(id, ext)
    BY <1>4 DEF ReportUpdates, ReportPromotes, ReportRefused
  <2>2. CASE persist_dirty'
    BY <2>1, <2>2 DEF Flagged
  <2>3. CASE ext = registry[id].extension /\ UNCHANGED persist_dirty
    <3>1. CASE ReportUpdates(id, ext)
      <4>1. /\ DOMAIN registry' = DOMAIN registry
            /\ \A k \in DOMAIN registry : SamePersisted(registry'[k], registry[k])
        BY <1>1, <2>3, <3>1 DEF ReportUpdates, SamePersisted, IsRegistry, Runtime
      <4> QED
        BY <2>1, <2>3, <4>1, SameViews DEF Flagged
    <3>2. ASSUME NEW padOk \in BOOLEAN, ReportPromotes(id, ext, padOk)
          PROVE  Flagged
      <4>1. /\ DOMAIN registry' = DOMAIN registry
            /\ \A k \in DOMAIN registry : SamePersisted(registry'[k], registry[k])
        BY <1>1, <2>3, <3>2 DEF ReportPromotes, SamePersisted, IsRegistry, Runtime
      <4> QED
        BY <2>1, <2>3, <4>1, SameViews DEF Flagged
    <3>3. CASE ReportRefused(id, ext)
      <4>1. /\ DOMAIN registry' = DOMAIN registry
            /\ \A k \in DOMAIN registry : SamePersisted(registry'[k], registry[k])
        BY <1>1, <2>3, <3>3 DEF ReportRefused, SamePersisted, IsRegistry, Runtime
      <4> QED
        BY <2>1, <2>3, <4>1, SameViews DEF Flagged
    <3> QED
      BY <1>4, <3>1, <3>2, <3>3
  <2> QED
    BY <2>1, <2>2, <2>3 DEF ExtensionFsm
<1> QED
  BY <1>2, <1>3, <1>4 DEF HandleTransportEvent

LEMMA LoopFlags ==
  ASSUME IInv, TickPeriodicScan \/ SkipScan \/ Ticks \/ EnvironmentNext
  PROVE  Flagged
<1>1. IsRegistry(registry) /\ dirty \in BOOLEAN /\ persist_dirty \in BOOLEAN
  BY DEF IInv, SoundRegistry, FlagsOK
<1>2. CASE SkipScan \/ EnvironmentNext
  BY <1>2 DEF SkipScan, EnvironmentNext, ctxVars, Flagged
<1>3. CASE Ticks
  <2>1. PICK fixed \in SUBSET DOMAIN registry : TickOutputRetry(fixed)
    BY <1>3 DEF Ticks
  <2>2. /\ DOMAIN registry' = DOMAIN registry
        /\ \A k \in DOMAIN registry : /\ SamePersisted(registry'[k], registry[k])
                                      /\ SameShown(registry'[k], registry[k])
    BY <1>1, <2>1 DEF TickOutputRetry, SamePersisted, SameShown, IsRegistry, Runtime
  <2>3. ~dirty' => ~dirty
    BY <1>1, <2>1 DEF TickOutputRetry
  <2> QED
    BY <1>3, <2>2, <2>3, SameViews DEF Ticks, Flagged
<1>4. CASE TickPeriodicScan
  <2>1. PICK merged \in {registry, Merged} :
          \E due, opened \in SUBSET DOMAIN merged : ScanAndConnect(merged, due, opened)
    BY <1>4 DEF TickPeriodicScan
  <2>2. PICK due \in SUBSET DOMAIN merged, opened \in SUBSET DOMAIN merged :
          ScanAndConnect(merged, due, opened)
    BY <2>1
  <2>3. /\ ~dirty' => ~dirty /\ merged = registry
        /\ ~persist_dirty' => ~persist_dirty /\ merged = registry
    BY <1>1, <2>2 DEF ScanAndConnect, ChangesEntries
  <2>4. SoundRegistry(merged)
    BY <2>1, MergedIsSound DEF IInv
  <2>5. /\ DOMAIN registry' = DOMAIN merged
        /\ \A k \in DOMAIN merged : /\ SamePersisted(registry'[k], merged[k])
                                    /\ SameShown(registry'[k], merged[k])
    BY <2>2, <2>4
    DEF ScanAndConnect, SamePersisted, SameShown, SoundRegistry, IsRegistry, Runtime
  <2> QED
    BY <2>3, <2>5, SameViews DEF Flagged
<1> QED
  BY <1>2, <1>3, <1>4

(* All of them together, with the invariant of the worker thread.          *)
LEMMA StepsFlag ==
  ASSUME IInv, HandleCommand \/ HandleScannerEvent \/ WorkStep \/ EnvironmentNext
  PROVE  IInv' /\ Flagged
<1>1. Flagged
  BY CommandsFlag, ScannerFlags, TransportFlags, LoopFlags DEF WorkStep
<1>2. CASE SkipScan
  BY <1>1, <1>2 DEF SkipScan, SessionTypeOK, IInv, FlagsOK, Phases, MemoOnlyInWindow,
     StaleDiskIsFlushed, ctxVars, sessionVars
<1>3. CASE EnvironmentNext
  BY <1>1, <1>3, EnvironmentTypes DEF EnvironmentNext, IInv, FlagsOK, Phases, MemoOnlyInWindow,
     StaleDiskIsFlushed, ctxVars
<1> QED
  BY <1>1, <1>2, <1>3, CommandsPreserve, ScannerPreserves, ScanPreserves, TransportPreserves,
     TicksPreserve DEF WorkStep

-----------------------------------------------------------------------------
(* The inductive invariant of the process.                                 *)

ProcessInv ==
  /\ IInv
  /\ process \in {"running", "quit", "crashed"}
  /\ shown \in Lists
  /\ disk \in Files
  /\ UiStaleIsFlagged

LEMMA FlushPreserves ==
  ASSUME IInv, Flush
  PROVE  IInv'
BY DEF Flush, SessionTypeOK, IInv, FlagsOK, Phases, MemoOnlyInWindow, StaleDiskIsFlushed,
   sessionVars

(* The end of a process leaves nothing running.                            *)
LEMMA StopPreserves ==
  ASSUME IInv, NEW how, Stop(how)
  PROVE  IInv'
<1>1. SessionTypeOK'
  <2>1. events' \in Seq(Event)
    BY DEF Stop
  <2> QED
    BY <2>1, SessionConstants DEF Stop, IInv, SessionTypeOK
<1> QED
  BY <1>1 DEF Stop, IInv, FlagsOK, MemoOnlyInWindow, StaleDiskIsFlushed, ctxVars

(* The next one starts from a sound registry.                              *)
LEMMA RestartPreserves ==
  ASSUME IInv, disk \in Files, Restart
  PROVE  IInv'
<1>1. SoundRegistry(registry')
  BY HydratedIsSound DEF Restart
<1>2. SessionTypeOK'
  BY DEF Restart, IInv, SessionTypeOK, sessionVars
<1> QED
  BY <1>1, <1>2 DEF Restart, IInv, FlagsOK, Phases, MemoOnlyInWindow, StaleDiskIsFlushed

LEMMA NothingIsAList == NothingShown \in Lists
<1> DEFINE Row == [connected : BOOLEAN, user_disabled : BOOLEAN,
                   extension : Extensions \cup {None}, mapping_profile : Profiles]
<1>1. NothingShown \in [{} -> Row] /\ {} \in SUBSET Ids
  BY DEF NothingShown
<1> QED
  BY <1>1 DEF Lists

LEMMA ProcessInitially ==
  ASSUME ProcessInit
  PROVE  ProcessInv /\ DiskStaleIsFlagged
<1>1. disk \in Files /\ InitFrom(disk)
  BY CoreConstants DEF ProcessInit
<1>2. SoundRegistry(registry) /\ PersistedView(registry) = disk
  BY <1>1, HydratedIsSound, HydrationRoundTrip DEF InitFrom
<1>3. SessionTypeOK
  BY <1>1, SessionConstants DEF InitFrom, SessionInit, SessionTypeOK
<1>4. IInv /\ dirty
  BY <1>1, <1>2, <1>3 DEF IInv, InitFrom, FlagsOK, Phases, MemoOnlyInWindow, StaleDiskIsFlushed
<1> QED
  BY <1>1, <1>2, <1>4, NothingIsAList
  DEF ProcessInit, ProcessInv, UiStaleIsFlagged, DiskStaleIsFlagged

LEMMA ProcessStep ==
  ASSUME ProcessInv, [ProcessNext]_processVars
  PROVE  /\ ProcessInv'
         /\ SaveMayFail = FALSE /\ DiskStaleIsFlagged => DiskStaleIsFlagged'
<1>1. CASE UNCHANGED processVars
  BY <1>1 DEF processVars, vars, ctxVars, sessionVars, ProcessInv, IInv, SessionTypeOK, FlagsOK,
     MemoOnlyInWindow, StaleDiskIsFlushed, UiStaleIsFlagged, DiskStaleIsFlagged
<1>2. CASE /\ process = "running"
           /\ HandleCommand \/ HandleScannerEvent \/ WorkStep \/ EnvironmentNext
           /\ UNCHANGED <<process, shown, disk>>
  <2>1. IInv' /\ Flagged
    BY <1>2, StepsFlag DEF ProcessInv
  <2> QED
    BY <1>2, <2>1 DEF ProcessInv, UiStaleIsFlagged, DiskStaleIsFlagged, Flagged
<1>3. ASSUME process = "running", NEW saved \in BOOLEAN, FlushToUiAndDisk(saved)
      PROVE  /\ ProcessInv'
             /\ SaveMayFail = FALSE /\ DiskStaleIsFlagged => DiskStaleIsFlagged'
  <2>1. /\ IInv' /\ UNCHANGED <<registry, process>>
        /\ dirty \in BOOLEAN /\ persist_dirty \in BOOLEAN /\ (persist_dirty => dirty)
    BY <1>3, FlushPreserves
    DEF FlushToUiAndDisk, Flush, ProcessInv, IInv, FlagsOK, StaleDiskIsFlushed
  <2>2. ShownView(registry) \in Lists /\ PersistedView(registry) \in Files
    BY ViewTypes DEF ProcessInv, IInv, SoundRegistry
  <2>3. shown' = ShownView(registry) /\ shown' \in Lists
    BY <1>3, <2>2 DEF FlushToUiAndDisk, ProcessInv, UiStaleIsFlagged
  <2>4. disk' \in Files
    BY <1>3, <2>2 DEF FlushToUiAndDisk, ProcessInv
  <2>5. SaveMayFail = FALSE /\ DiskStaleIsFlagged => disk' = PersistedView(registry)
    BY <1>3, <2>1 DEF FlushToUiAndDisk, DiskStaleIsFlagged
  <2> QED
    BY <2>1, <2>3, <2>4, <2>5 DEF ProcessInv, UiStaleIsFlagged, DiskStaleIsFlagged
<1>4. CASE Quit \/ Crash
  <2>1. IInv' /\ process' \in {"quit", "crashed"} /\ UNCHANGED <<shown, disk>>
    BY <1>4, StopPreserves DEF Quit, Crash, Stop, ProcessInv
  <2> QED
    BY <2>1 DEF ProcessInv, UiStaleIsFlagged, DiskStaleIsFlagged
<1>5. CASE Restart
  <2>1. IInv' /\ PersistedView(registry') = disk' /\ dirty'
    BY <1>5, RestartPreserves, HydrationRoundTrip DEF Restart, ProcessInv
  <2>2. process' = "running" /\ shown' \in Lists /\ disk' \in Files
    BY <1>5, NothingIsAList DEF Restart, ProcessInv
  <2> QED
    BY <2>1, <2>2 DEF ProcessInv, UiStaleIsFlagged, DiskStaleIsFlagged
<1> QED
  BY <1>1, <1>2, <1>3, <1>4, <1>5 DEF ProcessNext, DaemonStep

(* ProcessInv holds through every restart.                                 *)
THEOREM ProcessInvariant == ProcessSpec => []ProcessInv
<1>1. ProcessInit => ProcessInv
  BY ProcessInitially
<1>2. ProcessInv /\ [ProcessNext]_processVars => ProcessInv'
  BY ProcessStep
<1> QED
  BY <1>1, <1>2, PTL DEF ProcessSpec

-----------------------------------------------------------------------------
(* What it implies.                                                        *)

(* Every variable keeps its type.                                          *)
THEOREM ProcessTypes == ProcessSpec => []ProcessTypeOK
<1>1. ProcessInv => ProcessTypeOK
  BY DEF ProcessInv, IInv, FlagsOK, SoundRegistry, TypeOK, ProcessTypeOK
<1> QED
  BY <1>1, ProcessInvariant, PTL

(* No handler changes what the UI shows without flagging the list (lib.rs, *)
(* dirty).                                                                 *)
THEOREM UiIsNeverStale == ProcessSpec => []UiStaleIsFlagged
<1>1. ProcessInv => UiStaleIsFlagged
  BY DEF ProcessInv
<1> QED
  BY <1>1, ProcessInvariant, PTL

(* No handler changes the config without flagging the file (lib.rs,        *)
(* persist_dirty), provided that no save fails: one that does is forgotten.*)
THEOREM DiskIsNeverStale ==
  ASSUME SaveMayFail = FALSE
  PROVE  ProcessSpec => []DiskStaleIsFlagged
<1> DEFINE Inv == ProcessInv /\ DiskStaleIsFlagged
<1>1. ProcessInit => Inv
  BY ProcessInitially
<1>2. Inv /\ [ProcessNext]_processVars => Inv'
  BY ProcessStep
<1>3. Inv => DiskStaleIsFlagged
  OBVIOUS
<1> QED
  BY <1>1, <1>2, <1>3, PTL DEF ProcessSpec

(* A pad stays right, the memo in its window and a stale config due, in    *)
(* every process there will be.                                            *)
THEOREM RestartsAreSafe ==
  ProcessSpec => [](PadIsRightOrRetried /\ MemoOnlyInWindow /\ StaleDiskIsFlushed)
<1>1. ProcessInv => PadIsRightOrRetried /\ MemoOnlyInWindow /\ StaleDiskIsFlushed
  BY DEF ProcessInv, IInv, SoundRegistry, Sound, PadIsRightOrRetried, Known
<1> QED
  BY <1>1, ProcessInvariant, PTL

=============================================================================
