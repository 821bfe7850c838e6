----------------------------- MODULE DaemonProofs -----------------------------
(***************************************************************************)
(* Proofs about the worker thread, for any number of devices, paths,       *)
(* player slots, I/O threads and queued events.                            *)
(***************************************************************************)
EXTENDS DaemonProperties, WellFoundedInduction, SequenceTheorems, TLAPS

-----------------------------------------------------------------------------
(* The registry: what an update of entries preserves.                      *)

(* What must hold of every entry by itself: slot, pad and session flags    *)
(* agree with each other.                                                  *)
Sound(r) ==
  /\ r.connected <=> r.slot # None
  /\ r.output # None => r.connected /\ r.output = r.mapping_profile
  /\ r.connected /\ r.output = None => r.output_retry_at
  /\ r.user_disabled => ~r.connected /\ ~r.pending

Exclusive(reg) ==
  \A j, k \in DOMAIN reg :
    reg[j].slot # None /\ reg[j].slot = reg[k].slot => j = k

SoundRegistry(reg) ==
  /\ IsRegistry(reg)
  /\ \A k \in DOMAIN reg : Sound(reg[k])
  /\ Exclusive(reg)

(* Every non-empty set of naturals has a least element.                    *)
LEMMA LeastElement ==
  ASSUME NEW T \in SUBSET Nat, T # {}
  PROVE  \E x \in T : \A y \in T : x <= y
<1> DEFINE R == OpToRel(<, Nat)
<1>1. IsWellFoundedOn(R, Nat)
  BY NatLessThanWellFounded
<1>2. \A x, y \in Nat : x < y => <<x, y>> \in R
  BY Zenon DEF OpToRel
<1> HIDE DEF R
<1>3. PICK x \in T : \A y \in T : <<y, x>> \notin R
  BY <1>1, WFMin, Zenon
<1>4. x \in Nat /\ \A y \in T : y \in Nat /\ ~(y < x)
  BY <1>2, <1>3
<1> QED
  BY <1>3, <1>4

(* lowest_free_slot returns a slot in range that no entry holds.           *)
LEMMA LowestFreeSlotIsFree ==
  ASSUME NEW reg, FreeSlots(reg) # {}
  PROVE  /\ LowestFreeSlot(reg) \in FreeSlots(reg)
         /\ LowestFreeSlot(reg) \in Slots
<1>1. FreeSlots(reg) \in SUBSET Nat
  BY RegistryConstants DEF FreeSlots, Slots
<1>2. \E s \in FreeSlots(reg) : \A t \in FreeSlots(reg) : s <= t
  BY <1>1, LeastElement
<1>3. LowestFreeSlot(reg) \in FreeSlots(reg)
  BY <1>2, Zenon DEF LowestFreeSlot
<1> QED
  BY <1>3 DEF FreeSlots

(* A fresh, offline entry is sound.                                        *)
LEMMA NewRuntimeIsSound ==
  ASSUME NEW p \in Paths, NEW ext \in Extensions \cup {None}, NEW profile \in Profiles
  PROVE  /\ NewRuntime(p, ext, profile) \in Runtime
         /\ Sound(NewRuntime(p, ext, profile))
         /\ NewRuntime(p, ext, profile).slot = None
BY RegistryConstants DEF NewRuntime, Runtime, Sound

(* So is an entry whose session was reset, whether it is disabled or not.  *)
LEMMA ResetIsSound ==
  ASSUME NEW r \in Runtime
  PROVE  /\ ResetSession(r) \in Runtime
         /\ Sound(ResetSession(r))
         /\ ResetSession(r).slot = None
         /\ ~ResetSession(r).connected
         /\ ~ResetSession(r).pending
BY DEF ResetSession, NewRuntime, Runtime, Sound

(* One entry changes; its slot stays, is given up, or was free.            *)
LEMMA UpdateIsSound ==
  ASSUME NEW reg, SoundRegistry(reg),
         NEW id \in DOMAIN reg,
         NEW r \in Runtime, Sound(r),
         r.slot \in {reg[id].slot, None} \cup FreeSlots(reg)
  PROVE  SoundRegistry([reg EXCEPT ![id] = r])
<1> DEFINE new == [reg EXCEPT ![id] = r]
<1>1. IsRegistry(new)
  BY DEF SoundRegistry, IsRegistry
<1>2. /\ DOMAIN new = DOMAIN reg
      /\ \A k \in DOMAIN reg : new[k] = IF k = id THEN r ELSE reg[k]
  BY DEF SoundRegistry, IsRegistry
<1>3. \A k \in DOMAIN new : Sound(new[k])
  BY <1>2 DEF SoundRegistry
<1>4. Exclusive(new)
  BY <1>2 DEF SoundRegistry, Exclusive, FreeSlots
<1> QED
  BY <1>1, <1>3, <1>4 DEF SoundRegistry

(* Any entries change, and each keeps its slot.                            *)
LEMMA PointwiseIsSound ==
  ASSUME NEW reg, SoundRegistry(reg),
         NEW new, new = [k \in DOMAIN reg |-> new[k]],
         \A k \in DOMAIN reg :
           new[k] \in Runtime /\ Sound(new[k]) /\ new[k].slot = reg[k].slot
  PROVE  SoundRegistry(new)
<1>1. DOMAIN new = DOMAIN reg
  OBVIOUS
<1>2. IsRegistry(new)
  BY <1>1 DEF SoundRegistry, IsRegistry
<1> QED
  BY <1>1, <1>2 DEF SoundRegistry, Exclusive

(* An entry goes.                                                          *)
LEMMA RemovedIsSound ==
  ASSUME NEW reg, SoundRegistry(reg), NEW id
  PROVE  SoundRegistry(Removed(reg, id))
<1> DEFINE new == Removed(reg, id)
<1>1. /\ DOMAIN new = DOMAIN reg \ {id}
      /\ \A k \in DOMAIN new : new[k] = reg[k]
  BY DEF Removed
<1>2. IsRegistry(new)
  BY <1>1 DEF SoundRegistry, IsRegistry, Removed
<1> HIDE DEF new
<1> QED
  BY <1>1, <1>2 DEF SoundRegistry, Exclusive, new

(* The registry of a daemon that has just read its file.                   *)
LEMMA HydratedIsSound ==
  ASSUME NEW file \in Files
  PROVE  SoundRegistry(Hydrated(file))
<1>1. /\ DOMAIN file \subseteq Ids
      /\ \A k \in DOMAIN file : file[k] \in PersistedDevice
  BY DEF Files
<1>2. DOMAIN Hydrated(file) = DOMAIN file
  BY DEF Hydrated
<1>3. \A k \in DOMAIN file : /\ Hydrated(file)[k] \in Runtime
                             /\ Sound(Hydrated(file)[k])
                             /\ Hydrated(file)[k].slot = None
  BY <1>1, NewRuntimeIsSound DEF Hydrated, PersistedDevice
<1>4. Hydrated(file) \in [DOMAIN file -> Runtime]
  BY <1>2, <1>3 DEF Hydrated
<1> QED
  BY <1>1, <1>2, <1>3, <1>4 DEF SoundRegistry, IsRegistry, Exclusive

-----------------------------------------------------------------------------
(* The worker thread.                                                      *)

FlagsOK ==
  /\ phase \in Phases
  /\ manual_scan_until \in BOOLEAN
  /\ sdp_recovery_attempted \subseteq Devices
  /\ force_rescan \in BOOLEAN
  /\ dirty \in BOOLEAN
  /\ persist_dirty \in BOOLEAN

(* The inductive invariant.                                                *)
IInv ==
  /\ SessionTypeOK
  /\ FlagsOK
  /\ SoundRegistry(registry)
  /\ MemoOnlyInWindow
  /\ StaleDiskIsFlushed

-----------------------------------------------------------------------------
(* The HID sessions.                                                       *)

(* Opening paths that may be opened keeps the types of handles and threads.*)
LEMMA OpenAllTypes ==
  ASSUME SessionTypeOK, NEW ps \in SUBSET Paths,
         \A p \in ps : MayOpen(p),
         OpenAll(ps)
  PROVE  /\ handle' \in [Paths -> 0..MaxThreads]
         /\ io' \in [Paths -> [Gens -> Devices \cup {LinkDown, Ended}]]
<1>1. ASSUME NEW p \in ps, ~AlreadyOpen(p)
      PROVE  OpenedHandles(ps)[p] \in Gens /\ node[p] \in Devices
  <2>1. FreeGens(p) # {} /\ node[p] # None
    BY <1>1 DEF MayOpen
  <2>2. FreeGens(p) \in SUBSET Nat
    BY SessionConstants DEF FreeGens, Gens
  <2>3. \E g \in FreeGens(p) : \A h \in FreeGens(p) : g <= h
    BY <2>1, <2>2, LeastElement
  <2>4. (CHOOSE g \in FreeGens(p) : \A h \in FreeGens(p) : g <= h) \in FreeGens(p)
    BY <2>3, Zenon
  <2>5. OpenedHandles(ps)[p] = CHOOSE g \in FreeGens(p) : \A h \in FreeGens(p) : g <= h
    BY <1>1, Zenon DEF OpenedHandles
  <2> QED
    BY <2>1, <2>4, <2>5 DEF FreeGens, SessionTypeOK
<1>2. \A p \in Paths : OpenedHandles(ps)[p] \in 0..MaxThreads
  <2> SUFFICES ASSUME NEW p \in Paths
               PROVE  OpenedHandles(ps)[p] \in 0..MaxThreads
    OBVIOUS
  <2>1. CASE p \in ps /\ ~AlreadyOpen(p)
    BY <2>1, <1>1, SessionConstants DEF Gens
  <2>2. CASE ~(p \in ps /\ ~AlreadyOpen(p))
    BY <2>2 DEF OpenedHandles, SessionTypeOK
  <2> QED
    BY <2>1, <2>2
<1>3. handle' \in [Paths -> 0..MaxThreads]
  BY <1>2 DEF OpenAll, OpenedHandles
<1>4. \A p \in Paths, g \in Gens :
        OpenedThreads(ps)[p][g] \in Devices \cup {LinkDown, Ended}
  BY <1>1 DEF OpenedThreads, SessionTypeOK
<1>5. io' \in [Paths -> [Gens -> Devices \cup {LinkDown, Ended}]]
  BY <1>4 DEF OpenAll, OpenedThreads
<1> QED
  BY <1>3, <1>5

(* Closing a path does, too.                                               *)
LEMMA CloseTypes ==
  ASSUME SessionTypeOK, NEW p \in Paths, Close(p)
  PROVE  /\ handle' \in [Paths -> 0..MaxThreads]
         /\ io' \in [Paths -> [Gens -> Devices \cup {LinkDown, Ended}]]
BY SessionConstants DEF SessionTypeOK, Close

(* An event that is received came from a path; the rest of the queue stays.*)
LEMMA ReceiveTypes ==
  ASSUME SessionTypeOK, NEW type, Receive(type)
  PROVE  Sender \in Paths /\ events' \in Seq(Event) /\ UNCHANGED node
<1>1. events \in Seq(Event) /\ events # <<>> /\ events' = Tail(events) /\ UNCHANGED node
  BY DEF SessionTypeOK, Receive
<1>2. Head(events) \in Event /\ Tail(events) \in Seq(Event)
  BY <1>1, HeadTailProperties
<1> QED
  BY <1>1, <1>2 DEF Sender, Event

(* The environment keeps the types of the sessions.                        *)
LEMMA EnvironmentTypes ==
  ASSUME SessionTypeOK, EnvironmentNext
  PROVE  SessionTypeOK'
<1> USE DEF SessionTypeOK
<1>1. ASSUME NEW p \in Paths, NEW g \in Gens, IoReport(p, g)
      PROVE  SessionTypeOK'
  <2>1. Report(p, io[p][g]) \in Event
    BY <1>1 DEF IoReport, Report, Event
  <2> QED
    BY <1>1, <2>1, AppendProperties DEF IoReport
<1>2. ASSUME NEW p \in Paths, NEW g \in Gens, IoEnd(p, g)
      PROVE  SessionTypeOK'
  <2>1. DeviceLost(p) \in Event
    BY DEF DeviceLost, Event
  <2> QED
    BY <1>2, <2>1, AppendProperties DEF IoEnd
<1>3. ASSUME NEW d \in Devices, NEW p \in Paths, NodeAppears(d, p)
      PROVE  SessionTypeOK'
  BY <1>3 DEF NodeAppears
<1>4. ASSUME NEW p \in Paths, NodeVanishes(p)
      PROVE  SessionTypeOK'
  BY <1>4 DEF NodeVanishes
<1> QED
  BY <1>1, <1>2, <1>3, <1>4 DEF EnvironmentNext, IoNext, OsNext

-----------------------------------------------------------------------------
(* Enumeration.                                                            *)

(* merge_enumerated keeps the registry sound: an entry that moves to       *)
(* another id keeps its slot, pad and flags, and leaves nothing behind.    *)
LEMMA MergedIsSound ==
  ASSUME SessionTypeOK, SoundRegistry(registry)
  PROVE  SoundRegistry(Merged)
<1> DEFINE foundIds == {CanonicalId(p) : p \in Found}
           migrated == {p \in Found : Migrates(p)}
           at(id) == CHOOSE p \in Found : CanonicalId(p) = id
           \* the entry that lives on under id
           source(id) == IF id \in DOMAIN registry THEN id ELSE at(id)
<1>1. /\ Found \subseteq Paths
      /\ \A p \in Found : /\ node[p] \in Devices
                         /\ CanonicalId(p) \in {p, node[p]}
  BY DEF SessionTypeOK, Found, CanonicalId
<1>2. \A id \in foundIds : at(id) \in Found /\ CanonicalId(at(id)) = id
  OBVIOUS
<1>3. /\ DOMAIN Merged = (DOMAIN registry \ migrated) \cup foundIds
      /\ \A id \in DOMAIN Merged :
           Merged[id] = IF id \in foundIds THEN MergedEntry(at(id)) ELSE registry[id]
  BY Zenon DEF Merged
<1>4. DOMAIN Merged \subseteq Ids
  BY <1>1, <1>3 DEF SoundRegistry, IsRegistry, Ids
<1> HIDE DEF at
<1>5. ASSUME NEW id \in DOMAIN Merged
      PROVE  /\ Merged[id] \in Runtime
             /\ Sound(Merged[id])
             /\ Merged[id].slot # None =>
                  /\ source(id) \in DOMAIN registry
                  /\ Merged[id].slot = registry[source(id)].slot
                  /\ source(id) = id \/ (/\ source(id) \in migrated
                                         /\ id = CanonicalId(source(id)))
  <2>1. CASE id \in foundIds /\ id \in DOMAIN registry
    <3>1. Merged[id] = [registry[id] EXCEPT !.path = at(id)] /\ at(id) \in Paths
      BY <1>1, <1>2, <1>3, <2>1 DEF MergedEntry
    <3>2. registry[id] \in Runtime /\ Sound(registry[id])
      BY <2>1 DEF SoundRegistry, IsRegistry
    <3> QED
      BY <2>1, <3>1, <3>2 DEF Runtime, Sound
  <2>2. CASE id \in foundIds /\ id \notin DOMAIN registry /\ Migrates(at(id))
    <3>1. Merged[id] = [registry[at(id)] EXCEPT !.path = at(id)] /\ at(id) \in Paths
      BY <1>1, <1>2, <1>3, <2>2 DEF MergedEntry
    <3>2. /\ at(id) \in DOMAIN registry
          /\ registry[at(id)] \in Runtime /\ Sound(registry[at(id)])
      BY <2>2 DEF SoundRegistry, IsRegistry, Migrates
    <3> QED
      BY <1>2, <2>2, <3>1, <3>2 DEF Runtime, Sound
  <2>3. CASE id \in foundIds /\ id \notin DOMAIN registry /\ ~Migrates(at(id))
    <3>1. Merged[id] = NewRuntime(at(id), None, DefaultProfile) /\ at(id) \in Paths
      BY <1>1, <1>2, <1>3, <2>3 DEF MergedEntry
    <3> QED
      BY <3>1, NewRuntimeIsSound, RegistryConstants
  <2>4. CASE id \notin foundIds
    <3>1. Merged[id] = registry[id] /\ id \in DOMAIN registry
      BY <1>3, <2>4
    <3> QED
      BY <3>1 DEF SoundRegistry, IsRegistry
  <2> QED
    BY <2>1, <2>2, <2>3, <2>4
<1>6. \A id \in DOMAIN Merged : id \notin migrated
  <2>1. \A p \in migrated, q \in Found : CanonicalId(q) # p
    BY <1>1, DistinctNames DEF Migrates
  <2> QED
    BY <1>3, <2>1
<1>7. IsRegistry(Merged)
  BY <1>4, <1>5 DEF IsRegistry, Merged
<1>8. Exclusive(Merged)
  <2> SUFFICES ASSUME NEW j \in DOMAIN Merged, NEW k \in DOMAIN Merged,
                      Merged[j].slot # None, Merged[j].slot = Merged[k].slot
               PROVE  j = k
    BY DEF Exclusive
  <2>1. source(j) = source(k)
    BY <1>5 DEF SoundRegistry, Exclusive
  <2> HIDE DEF source, migrated
  <2> QED
    BY <1>5, <1>6, <2>1
<1> QED
  BY <1>5, <1>7, <1>8 DEF SoundRegistry

-----------------------------------------------------------------------------
(* Each part of the loop preserves the inductive invariant.                *)

(* UI commands.                                                            *)
LEMMA CommandsPreserve ==
  ASSUME IInv, HandleCommand
  PROVE  IInv'
<1>1. /\ SessionTypeOK /\ FlagsOK /\ SoundRegistry(registry)
      /\ \A k \in DOMAIN registry : registry[k] \in Runtime /\ Sound(registry[k])
  BY DEF IInv, SoundRegistry, IsRegistry
<1>2. CASE HandleStartScan
  <2>1. SessionTypeOK' /\ SoundRegistry(registry)'
    BY <1>1, <1>2 DEF HandleStartScan, Command, SessionTypeOK
  <2>2. FlagsOK' /\ MemoOnlyInWindow' /\ StaleDiskIsFlushed'
    BY <1>2 DEF IInv, FlagsOK, MemoOnlyInWindow, StaleDiskIsFlushed, HandleStartScan,
                Command, Phases
  <2> QED
    BY <2>1, <2>2 DEF IInv
<1>3. ASSUME NEW id \in Ids, ConnectOpens(id)
      PROVE  IInv'
  <2> DEFINE r == [registry[id] EXCEPT !.user_disabled = FALSE, !.next_retry = FALSE,
                                       !.pending = TRUE]
  <2>1. /\ id \in DOMAIN registry
        /\ registry' = [registry EXCEPT ![id] = r]
        /\ registry[id].path \in Paths
    BY <1>1, <1>3 DEF ConnectOpens, Runtime
  <2>2. r \in Runtime /\ Sound(r) /\ r.slot = registry[id].slot
    BY <1>1, <2>1 DEF Runtime, Sound
  <2>3. SoundRegistry(registry')
    BY <1>1, <2>1, <2>2, UpdateIsSound
  <2>4. SessionTypeOK'
    BY <1>1, <1>3, <2>1, OpenAllTypes DEF ConnectOpens, Command, SessionTypeOK
  <2>5. FlagsOK' /\ MemoOnlyInWindow' /\ StaleDiskIsFlushed'
    BY <1>3 DEF IInv, FlagsOK, MemoOnlyInWindow, StaleDiskIsFlushed, ConnectOpens, Command
  <2> QED
    BY <2>3, <2>4, <2>5 DEF IInv
<1>4. ASSUME NEW id \in Ids, ConnectFails(id)
      PROVE  IInv'
  <2>1. /\ registry' = [k \in DOMAIN registry |-> registry'[k]]
        /\ \A k \in DOMAIN registry :
             /\ registry'[k] \in Runtime
             /\ Sound(registry'[k])
             /\ registry'[k].slot = registry[k].slot
    BY <1>1, <1>4 DEF ConnectFails, Runtime, Sound
  <2>2. SoundRegistry(registry')
    BY <1>1, <2>1, PointwiseIsSound
  <2>3. SessionTypeOK'
    BY <1>1, <1>4 DEF ConnectFails, Command, SessionTypeOK
  <2>4. FlagsOK' /\ MemoOnlyInWindow' /\ StaleDiskIsFlushed'
    BY <1>4 DEF IInv, FlagsOK, MemoOnlyInWindow, StaleDiskIsFlushed, ConnectFails, Command
  <2> QED
    BY <2>2, <2>3, <2>4 DEF IInv
<1>5. ASSUME NEW id \in Ids, HandleDisconnect(id)
      PROVE  IInv'
  <2>1. SoundRegistry(registry') /\ SessionTypeOK'
    <3>1. CASE id \in DOMAIN registry
      <4> DEFINE reset == ResetSession(registry[id])
                 r == [reset EXCEPT !.user_disabled = TRUE]
      <4>1. /\ registry' = [registry EXCEPT ![id] = r]
            /\ Close(registry[id].path)
            /\ registry[id].path \in Paths
        BY <1>1, <1>5, <3>1 DEF HandleDisconnect, Runtime
      <4>2. /\ reset \in Runtime /\ Sound(reset) /\ reset.slot = None
            /\ ~reset.connected /\ ~reset.pending
        BY <1>1, <3>1, ResetIsSound
      <4> HIDE DEF reset
      <4>3. r \in Runtime /\ Sound(r) /\ r.slot = None
        BY <4>2 DEF Runtime, Sound
      <4>4. SoundRegistry(registry')
        <5> HIDE DEF r
        <5> QED
          BY <1>1, <3>1, <4>1, <4>3, UpdateIsSound
      <4> QED
        BY <1>1, <1>5, <4>1, <4>4, CloseTypes DEF HandleDisconnect, Command, SessionTypeOK
    <3>2. CASE id \notin DOMAIN registry
      BY <1>1, <1>5, <3>2 DEF HandleDisconnect, Command, SessionTypeOK
    <3> QED
      BY <3>1, <3>2
  <2>2. FlagsOK' /\ MemoOnlyInWindow' /\ StaleDiskIsFlushed'
    BY <1>5 DEF IInv, FlagsOK, MemoOnlyInWindow, StaleDiskIsFlushed, HandleDisconnect, Command
  <2> QED
    BY <2>1, <2>2 DEF IInv
<1>6. ASSUME NEW id \in Ids, HandleForget(id)
      PROVE  IInv'
  <2>1. SoundRegistry(registry')
    BY <1>1, <1>6, RemovedIsSound DEF HandleForget
  <2>2. SessionTypeOK'
    BY <1>1, <1>6, CloseTypes DEF HandleForget, Command, SessionTypeOK, Runtime
  <2>3. FlagsOK' /\ MemoOnlyInWindow' /\ StaleDiskIsFlushed'
    BY <1>6 DEF IInv, FlagsOK, MemoOnlyInWindow, StaleDiskIsFlushed, HandleForget, Command
  <2> QED
    BY <2>1, <2>2, <2>3 DEF IInv
<1>7. ASSUME NEW id \in Ids, NEW profile \in Profiles, NEW padOk \in BOOLEAN,
             HandleSetProfile(id, profile, padOk)
      PROVE  IInv'
  <2> DEFINE online == registry[id].connected
             r == [registry[id] EXCEPT
                     !.mapping_profile = profile,
                     !.output = IF online /\ padOk THEN profile ELSE None,
                     !.output_retry_at = online /\ ~padOk]
  <2>1. id \in DOMAIN registry /\ registry' = [registry EXCEPT ![id] = r]
    BY <1>1, <1>7 DEF HandleSetProfile
  <2>2. r \in Runtime /\ Sound(r) /\ r.slot = registry[id].slot
    BY <1>1, <2>1, RegistryConstants DEF Runtime, Sound
  <2>3. SoundRegistry(registry')
    <3> HIDE DEF r
    <3> QED
      BY <1>1, <2>1, <2>2, UpdateIsSound
  <2>4. SessionTypeOK'
    BY <1>1, <1>7 DEF HandleSetProfile, Command, SessionTypeOK
  <2>5. FlagsOK' /\ MemoOnlyInWindow' /\ StaleDiskIsFlushed'
    BY <1>7 DEF IInv, FlagsOK, MemoOnlyInWindow, StaleDiskIsFlushed, HandleSetProfile, Command
  <2> QED
    BY <2>3, <2>4, <2>5 DEF IInv
<1> QED
  BY <1>2, <1>3, <1>4, <1>5, <1>6, <1>7 DEF HandleCommand

(* Bluetooth recovery.                                                     *)
LEMMA ScannerPreserves ==
  ASSUME IInv, HandleScannerEvent
  PROVE  IInv'
<1>1. SessionTypeOK /\ FlagsOK /\ SoundRegistry(registry)
  BY DEF IInv
<1>2. CASE HandleHidEnabled
  BY <1>1, <1>2 DEF IInv, HandleHidEnabled, Scanner, sessionVars, SessionTypeOK, FlagsOK, Phases,
                    MemoOnlyInWindow, StaleDiskIsFlushed
<1>3. ASSUME NEW d \in Devices, NEW unpaired \in BOOLEAN, HandleBtStateStuck(d, unpaired)
      PROVE  IInv'
  <2>1. SoundRegistry(registry')
    BY <1>1, <1>3, RemovedIsSound DEF HandleBtStateStuck
  <2>2. SessionTypeOK'
    BY <1>1, <1>3 DEF HandleBtStateStuck, Scanner, sessionVars, SessionTypeOK
  <2>3. FlagsOK' /\ MemoOnlyInWindow' /\ StaleDiskIsFlushed'
    BY <1>3 DEF IInv, FlagsOK, Phases, MemoOnlyInWindow, StaleDiskIsFlushed, HandleBtStateStuck,
                Scanner
  <2> QED
    BY <2>1, <2>2, <2>3 DEF IInv
<1> QED
  BY <1>2, <1>3 DEF HandleScannerEvent

(* The periodic scan.                                                      *)
LEMMA ScanPreserves ==
  ASSUME IInv, TickPeriodicScan
  PROVE  IInv'
<1>1. SessionTypeOK /\ FlagsOK /\ SoundRegistry(registry)
  BY DEF IInv
<1>a. PICK merged \in {registry, Merged} :
        \E due, opened \in SUBSET DOMAIN merged : ScanAndConnect(merged, due, opened)
  BY DEF TickPeriodicScan
<1>2. PICK due \in SUBSET DOMAIN merged, opened \in SUBSET DOMAIN merged :
        ScanAndConnect(merged, due, opened)
  BY <1>a
<1>3. SoundRegistry(merged)
  BY <1>1, <1>2, MergedIsSound
<1>4. /\ registry' = [k \in DOMAIN merged |-> registry'[k]]
      /\ \A k \in DOMAIN merged :
           /\ registry'[k] \in Runtime
           /\ Sound(registry'[k])
           /\ registry'[k].slot = merged[k].slot
  <2> SUFFICES ASSUME NEW k \in DOMAIN merged
               PROVE  /\ registry'[k] \in Runtime
                      /\ Sound(registry'[k])
                      /\ registry'[k].slot = merged[k].slot
    BY <1>2 DEF ScanAndConnect
  <2>1. merged[k] \in Runtime /\ Sound(merged[k])
    BY <1>3 DEF SoundRegistry, IsRegistry
  <2>2. CASE k \in opened
    <3>1. registry'[k] = [merged[k] EXCEPT !.pending = TRUE, !.next_retry = FALSE]
      BY <1>2, <2>2 DEF ScanAndConnect
    <3>2. ~merged[k].user_disabled
      BY <1>2, <2>2 DEF ScanAndConnect, Candidates
    <3> QED
      BY <2>1, <3>1, <3>2 DEF Runtime, Sound
  <2>3. CASE k \notin opened
    <3>1. registry'[k] \in {merged[k], [merged[k] EXCEPT !.next_retry = TRUE]}
      BY <1>2, <2>3 DEF ScanAndConnect
    <3> QED
      BY <2>1, <3>1 DEF Runtime, Sound
  <2> QED
    BY <2>2, <2>3
<1>5. SoundRegistry(registry')
  BY <1>3, <1>4, PointwiseIsSound
<1>6. SessionTypeOK'
  <2> DEFINE ps == {merged[k].path : k \in opened}
  <2>1. ps \in SUBSET Paths /\ \A p \in ps : MayOpen(p)
    BY <1>2, <1>3 DEF ScanAndConnect, SoundRegistry, IsRegistry, Runtime
  <2>2. OpenAll(ps)
    BY <1>2 DEF ScanAndConnect
  <2> HIDE DEF ps
  <2> QED
    BY <1>1, <2>1, <2>2, OpenAllTypes DEF TickPeriodicScan, SessionTypeOK
<1>7. FlagsOK' /\ MemoOnlyInWindow' /\ StaleDiskIsFlushed'
  BY <1>1, <1>2 DEF IInv, FlagsOK, Phases, MemoOnlyInWindow, StaleDiskIsFlushed, TickPeriodicScan,
                    ScanAndConnect, ChangesEntries
<1> QED
  BY <1>5, <1>6, <1>7 DEF IInv

(* Transport events.                                                       *)
LEMMA TransportPreserves ==
  ASSUME IInv, HandleTransportEvent
  PROVE  IInv'
<1>1. /\ SessionTypeOK /\ FlagsOK /\ SoundRegistry(registry)
      /\ \A k \in DOMAIN registry : registry[k] \in Runtime /\ Sound(registry[k])
  BY DEF IInv, SoundRegistry, IsRegistry
<1> USE DEF FlagsOK, MemoOnlyInWindow, StaleDiskIsFlushed
<1>2. CASE ReportFromUnknownPath
  <2>1. SessionTypeOK'
    BY <1>1, <1>2, ReceiveTypes DEF ReportFromUnknownPath, SessionTypeOK
  <2> QED
    BY <1>1, <1>2, <2>1 DEF IInv, ReportFromUnknownPath, Receive
<1>3. CASE LostUnknownPath
  <2>1. SessionTypeOK'
    BY <1>1, <1>3, ReceiveTypes, CloseTypes DEF LostUnknownPath, SessionTypeOK
  <2> QED
    BY <1>1, <1>3, <2>1 DEF IInv, LostUnknownPath, Receive
<1>4. ASSUME NEW id \in DOMAIN registry, LostDevice(id)
      PROVE  IInv'
  <2> DEFINE reset == ResetSession(registry[id])
             r == [reset EXCEPT !.next_retry = TRUE]
  <2>1. registry' = [registry EXCEPT ![id] = r]
    BY <1>4 DEF LostDevice
  <2>2. reset \in Runtime /\ Sound(reset) /\ reset.slot = None
    BY <1>1, ResetIsSound
  <2> HIDE DEF reset
  <2>3. r \in Runtime /\ Sound(r) /\ r.slot = None
    BY <2>2 DEF Runtime, Sound
  <2> HIDE DEF r
  <2>4. SoundRegistry(registry')
    BY <1>1, <2>1, <2>3, UpdateIsSound
  <2>5. SessionTypeOK'
    BY <1>1, <1>4, ReceiveTypes, CloseTypes DEF LostDevice, SessionTypeOK
  <2> QED
    BY <1>1, <1>4, <2>4, <2>5 DEF IInv, LostDevice, Receive
<1>5. ASSUME NEW id \in DOMAIN registry, NEW ext \in Extensions \cup {None},
             ReportUpdates(id, ext)
      PROVE  IInv'
  <2> DEFINE r == [registry[id] EXCEPT !.extension = ext]
  <2>1. registry' = [registry EXCEPT ![id] = r]
    BY <1>1, <1>5 DEF ReportUpdates
  <2>2. r \in Runtime /\ Sound(r) /\ r.slot = registry[id].slot
    BY <1>1 DEF Runtime, Sound
  <2> HIDE DEF r
  <2>3. SoundRegistry(registry')
    BY <1>1, <2>1, <2>2, UpdateIsSound
  <2>4. SessionTypeOK'
    BY <1>1, <1>5, ReceiveTypes DEF ReportUpdates, SessionTypeOK
  <2> QED
    BY <1>1, <1>5, <2>3, <2>4 DEF IInv, ReportUpdates, ExtensionFsm, Receive
<1>6. ASSUME NEW id \in DOMAIN registry, NEW ext \in Extensions \cup {None},
             NEW padOk \in BOOLEAN, ReportPromotes(id, ext, padOk)
      PROVE  IInv'
  <2> DEFINE slot == LowestFreeSlot(registry)
             r == [registry[id] EXCEPT
                     !.extension = ext, !.pending = FALSE,
                     !.slot = slot, !.connected = TRUE,
                     !.output = IF padOk THEN registry[id].mapping_profile ELSE @,
                     !.output_retry_at = IF padOk THEN @ ELSE TRUE]
  <2>1. slot \in FreeSlots(registry) /\ slot \in Slots
    BY <1>6, LowestFreeSlotIsFree DEF ReportPromotes
  <2>2. registry' = [registry EXCEPT ![id] = r]
    BY <1>1, <1>6 DEF ReportPromotes
  <2>3. /\ registry[id] \in Runtime /\ Sound(registry[id])
        /\ registry[id].pending
    BY <1>1, <1>6 DEF ReportPromotes
  <2> HIDE DEF slot
  <2>4. slot # None
    <3>1. slot \in Nat
      BY <2>1, RegistryConstants DEF Slots
    <3>2. None \notin Nat
      BY DistinctNames
    <3> QED
      BY <3>1, <3>2
  <2>5. r \in Runtime /\ Sound(r) /\ r.slot = slot
    BY <2>1, <2>3, <2>4, RegistryConstants DEF Runtime, Sound
  <2> HIDE DEF r
  <2>6. SoundRegistry(registry')
    BY <1>1, <2>1, <2>2, <2>5, UpdateIsSound
  <2>7. SessionTypeOK'
    BY <1>1, <1>6, ReceiveTypes DEF ReportPromotes, SessionTypeOK
  <2> QED
    BY <1>1, <1>6, <2>6, <2>7 DEF IInv, ReportPromotes, ExtensionFsm, Receive
<1>7. ASSUME NEW id \in DOMAIN registry, NEW ext \in Extensions \cup {None},
             ReportRefused(id, ext)
      PROVE  IInv'
  <2> DEFINE r == [registry[id] EXCEPT !.extension = ext, !.pending = FALSE]
  <2>1. registry' = [registry EXCEPT ![id] = r] /\ registry[id].path \in Paths
    BY <1>1, <1>7 DEF ReportRefused, Runtime
  <2>2. r \in Runtime /\ Sound(r) /\ r.slot = registry[id].slot
    BY <1>1 DEF Runtime, Sound
  <2> HIDE DEF r
  <2>3. SoundRegistry(registry')
    BY <1>1, <2>1, <2>2, UpdateIsSound
  <2>4. SessionTypeOK'
    BY <1>1, <1>7, <2>1, ReceiveTypes, CloseTypes DEF ReportRefused, SessionTypeOK
  <2> QED
    BY <1>1, <1>7, <2>3, <2>4 DEF IInv, ReportRefused, ExtensionFsm, Receive
<1> QED
  BY <1>2, <1>3, <1>4, <1>5, <1>6, <1>7 DEF HandleTransportEvent

(* The ticks.                                                              *)
LEMMA TicksPreserve ==
  ASSUME IInv, Ticks
  PROVE  IInv'
<1>1. /\ SessionTypeOK /\ FlagsOK /\ SoundRegistry(registry)
      /\ \A k \in DOMAIN registry : registry[k] \in Runtime /\ Sound(registry[k])
  BY DEF IInv, SoundRegistry, IsRegistry
<1>2. PICK expired \in BOOLEAN, fixed \in SUBSET DOMAIN registry :
        TickManualScanWindow(expired) /\ TickOutputRetry(fixed)
  BY DEF Ticks
<1>3. /\ registry' = [k \in DOMAIN registry |-> registry'[k]]
      /\ \A k \in DOMAIN registry :
           /\ registry'[k] \in Runtime
           /\ Sound(registry'[k])
           /\ registry'[k].slot = registry[k].slot
  BY <1>1, <1>2, RegistryConstants DEF TickOutputRetry, LacksPad, Runtime, Sound
<1>4. SoundRegistry(registry')
  BY <1>1, <1>3, PointwiseIsSound
<1>5. SessionTypeOK'
  BY <1>1 DEF Ticks, sessionVars, SessionTypeOK
<1>6. FlagsOK' /\ MemoOnlyInWindow' /\ StaleDiskIsFlushed'
  BY <1>1, <1>2 DEF IInv, FlagsOK, Phases, MemoOnlyInWindow, StaleDiskIsFlushed, Ticks,
                    TickManualScanWindow, TickOutputRetry
<1> QED
  BY <1>4, <1>5, <1>6 DEF IInv

-----------------------------------------------------------------------------
(* The inductive invariant holds of every reachable state.                 *)
THEOREM Inductive == Spec => []IInv
<1>1. Init => IInv
  <2> SUFFICES ASSUME NEW file \in InitialFiles, InitFrom(file)
               PROVE  IInv
    BY DEF Init
  <2>1. SoundRegistry(registry)
    BY HydratedIsSound, CoreConstants DEF InitFrom
  <2>2. SessionTypeOK
    BY SessionConstants DEF InitFrom, SessionInit, SessionTypeOK
  <2> QED
    BY <2>1, <2>2 DEF IInv, InitFrom, FlagsOK, Phases, MemoOnlyInWindow, StaleDiskIsFlushed
<1>2. IInv /\ [Next]_vars => IInv'
  <2> SUFFICES ASSUME IInv, [Next]_vars
               PROVE  IInv'
    OBVIOUS
  <2> USE DEF IInv, FlagsOK, Phases, MemoOnlyInWindow, StaleDiskIsFlushed, ctxVars, sessionVars
  <2>1. CASE SkipScan
    BY <2>1 DEF SkipScan, SessionTypeOK
  <2>2. CASE Flush
    BY <2>2 DEF Flush, SessionTypeOK
  <2>3. CASE EnvironmentNext
    BY <2>3, EnvironmentTypes DEF EnvironmentNext
  <2>4. CASE UNCHANGED vars
    BY <2>4 DEF vars, SessionTypeOK
  <2> QED
    BY <2>1, <2>2, <2>3, <2>4, CommandsPreserve, ScannerPreserves, ScanPreserves,
       TransportPreserves, TicksPreserve DEF Next, LoopStep, WorkStep
<1> QED
  BY <1>1, <1>2, PTL DEF Spec

-----------------------------------------------------------------------------
(* What it implies.                                                        *)

(* Every variable of the worker thread and its sessions has its type.      *)
THEOREM TypeCorrect == Spec => []TypeOK
<1>1. IInv => TypeOK
  BY DEF IInv, FlagsOK, SoundRegistry, TypeOK
<1> QED
  BY <1>1, Inductive, PTL

(* No two Wiimotes ever share a player slot, however many compete for      *)
(* however many slots.                                                     *)
THEOREM SlotsStayExclusive == Spec => []SlotsAreExclusive
<1>1. IInv => SlotsAreExclusive
  BY DEF IInv, SoundRegistry, Exclusive, SlotsAreExclusive, Known
<1> QED
  BY <1>1, Inductive, PTL

(* No path through the handlers leaks a slot or connects a Wiimote without *)
(* one.                                                                    *)
THEOREM SlotsFollowConnections == Spec => []SlotIffConnected
<1>1. IInv => SlotIffConnected
  BY DEF IInv, SoundRegistry, Sound, SlotIffConnected, Known
<1> QED
  BY <1>1, Inductive, PTL

(* No connected Wiimote is left without a pad and without a retry, and     *)
(* none has a pad of another mapping than the one picked for it.           *)
THEOREM PadsStayRight == Spec => []PadIsRightOrRetried
<1>1. IInv => PadIsRightOrRetried
  BY DEF IInv, SoundRegistry, Sound, PadIsRightOrRetried, Known
<1> QED
  BY <1>1, Inductive, PTL

(* No late event and no scan connects a Wiimote that the user disconnected.*)
THEOREM DisconnectIsSticky == Spec => []DisabledStaysDown
<1>1. IInv => DisabledStaysDown
  BY DEF IInv, SoundRegistry, Sound, DisabledStaysDown, Known
<1> QED
  BY <1>1, Inductive, PTL

(* Each scan window starts with an empty memo of automatic unpairings.     *)
THEOREM MemosStayInWindow == Spec => []MemoOnlyInWindow
<1>1. IInv => MemoOnlyInWindow
  BY DEF IInv
<1> QED
  BY <1>1, Inductive, PTL

(* No handler leaves a stale config to a flush that is not due.            *)
THEOREM StaleDisksAreFlushed == Spec => []StaleDiskIsFlushed
<1>1. IInv => StaleDiskIsFlushed
  BY DEF IInv
<1> QED
  BY <1>1, Inductive, PTL

-----------------------------------------------------------------------------
(* A scan keeps the user's settings.  An entry can only move to the MAC    *)
(* that shows at its path if the OS shows a Wiimote at one path at a time. *)

OneNodeEach ==
  \A p, q \in Paths : node[p] # None /\ node[p] = node[q] => p = q

(* Handling a transport event leaves the phase and the OS as they are.     *)
LEMMA TransportEventsStay ==
  ASSUME HandleTransportEvent
  PROVE  UNCHANGED <<phase, node>>
<1>1. CASE ReportFromUnknownPath \/ LostUnknownPath
  BY <1>1 DEF ReportFromUnknownPath, LostUnknownPath, Receive
<1>2. ASSUME NEW id \in DOMAIN registry,
             \/ LostDevice(id)
             \/ \E ext \in Extensions \cup {None} :
                  \/ ReportUpdates(id, ext)
                  \/ \E padOk \in BOOLEAN : ReportPromotes(id, ext, padOk)
                  \/ ReportRefused(id, ext)
      PROVE  UNCHANGED <<phase, node>>
  <2>1. CASE LostDevice(id)
    BY <2>1 DEF LostDevice, Receive
  <2>2. ASSUME NEW ext \in Extensions \cup {None}, ReportUpdates(id, ext) \/ ReportRefused(id, ext)
        PROVE  UNCHANGED <<phase, node>>
    BY <2>2 DEF ReportUpdates, ReportRefused, Receive
  <2>3. ASSUME NEW ext \in Extensions \cup {None}, NEW padOk \in BOOLEAN,
               ReportPromotes(id, ext, padOk)
        PROVE  UNCHANGED <<phase, node>>
    BY <2>3 DEF ReportPromotes, Receive
  <2> QED
    BY <1>2, <2>1, <2>2, <2>3
<1> QED
  BY <1>1, <1>2 DEF HandleTransportEvent

LEMMA NodesInductive ==
  ASSUME SessionTypeOK, OneNodeEach, [Next]_vars
  PROVE  OneNodeEach'
<1>1. CASE UNCHANGED node
  BY <1>1 DEF OneNodeEach
<1>2. ASSUME NEW d \in Devices, NEW p \in Paths, NodeAppears(d, p)
      PROVE  OneNodeEach'
  BY <1>2 DEF NodeAppears, OneNodeEach, SessionTypeOK
<1>3. ASSUME NEW p \in Paths, NodeVanishes(p)
      PROVE  OneNodeEach'
  BY <1>3 DEF NodeVanishes, OneNodeEach, SessionTypeOK
<1>4. CASE EnvironmentNext
  BY <1>1, <1>2, <1>3, <1>4 DEF EnvironmentNext, IoNext, IoReport, IoEnd, OsNext
<1>5. CASE HandleCommand
  BY <1>1, <1>5 DEF HandleCommand, HandleStartScan, ConnectOpens, ConnectFails, HandleDisconnect,
     HandleForget, HandleSetProfile, Command
<1>6. CASE HandleScannerEvent
  BY <1>1, <1>6 DEF HandleScannerEvent, HandleHidEnabled, HandleBtStateStuck, Scanner, sessionVars
<1>7. CASE HandleTransportEvent
  BY <1>1, <1>7, TransportEventsStay
<1>8. CASE TickPeriodicScan \/ SkipScan \/ Ticks \/ Flush \/ UNCHANGED vars
  BY <1>1, <1>8 DEF TickPeriodicScan, SkipScan, Ticks, Flush, vars, sessionVars
<1> QED
  BY <1>4, <1>5, <1>6, <1>7, <1>8 DEF Next, LoopStep, WorkStep

SameSettings(r, s) ==
  /\ r.mapping_profile = s.mapping_profile
  /\ r.extension = s.extension
  /\ r.user_disabled = s.user_disabled

(* The entry of k after an enumeration: its own, or the MAC's at its path. *)
LEMMA MergedKeepsSettings ==
  ASSUME SessionTypeOK, OneNodeEach, IsRegistry(registry), NEW k \in DOMAIN registry
  PROVE  \E j \in DOMAIN Merged : /\ j = k \/ (k \in Paths /\ node[k] = j)
                                  /\ SameSettings(Merged[j], registry[k])
<1> DEFINE foundIds == {CanonicalId(p) : p \in Found}
           migrated == {p \in Found : Migrates(p)}
           at(id) == CHOOSE p \in Found : CanonicalId(p) = id
<1>1. /\ Found \subseteq Paths
      /\ \A p \in Found : node[p] \in Devices /\ CanonicalId(p) \in {p, node[p]}
  BY DEF SessionTypeOK, Found, CanonicalId
<1>2. \A id \in foundIds : at(id) \in Found /\ CanonicalId(at(id)) = id
  OBVIOUS
<1>3. /\ DOMAIN Merged = (DOMAIN registry \ migrated) \cup foundIds
      /\ \A id \in DOMAIN Merged :
           Merged[id] = IF id \in foundIds THEN MergedEntry(at(id)) ELSE registry[id]
  BY Zenon DEF Merged
<1>4. registry[k] \in Runtime
  BY DEF IsRegistry
<1> HIDE DEF at
<1>5. CASE k \in foundIds
  <2>1. k \in DOMAIN Merged /\ Merged[k] = [registry[k] EXCEPT !.path = at(k)]
    BY <1>2, <1>3, <1>5 DEF MergedEntry
  <2> QED
    BY <1>4, <2>1 DEF SameSettings, Runtime
<1>6. CASE k \notin foundIds /\ k \notin migrated
  <2>1. k \in DOMAIN Merged /\ Merged[k] = registry[k]
    BY <1>3, <1>6
  <2> QED
    BY <2>1 DEF SameSettings
<1>7. CASE k \in migrated
  <2> DEFINE j == CanonicalId(k)
  <2>1. k \in Found /\ k \in Paths /\ j = node[k] /\ j \in Devices /\ j \notin DOMAIN registry
    BY <1>1, <1>7 DEF Migrates
  <2>2. j \in foundIds /\ at(j) \in Found /\ CanonicalId(at(j)) = j
    BY <1>2, <2>1
  <2>3. node[at(j)] = j
    BY <1>1, <2>1, <2>2, DistinctNames
  <2>4. at(j) = k
    BY <1>1, <2>1, <2>2, <2>3 DEF OneNodeEach, Found
  <2> HIDE DEF j
  <2>5. Merged[j] = [registry[k] EXCEPT !.path = k] /\ j \in DOMAIN Merged
    BY <1>3, <1>7, <2>1, <2>2, <2>4 DEF MergedEntry
  <2> QED
    BY <1>4, <2>1, <2>5 DEF SameSettings, Runtime
<1> QED
  BY <1>5, <1>6, <1>7

(* A scan loses no row and none of its settings (hid_scan.rs,              *)
(* merge_enumerated): whatever was known stays known under its id, or      *)
(* under the MAC of the Wiimote at its path.                               *)
THEOREM ScansLoseNothing == Spec => ScansKeepSettings
<1> DEFINE Kept ==
      phase # "transport" /\ phase' = "transport" =>
        \A k \in Known : \E j \in DOMAIN registry' :
          /\ j = k \/ (k \in Paths /\ node[k] = j)
          /\ registry'[j].mapping_profile = registry[k].mapping_profile
          /\ registry'[j].extension = registry[k].extension
          /\ registry'[j].user_disabled = registry[k].user_disabled
<1>1. Init => OneNodeEach
  BY DEF Init, InitFrom, SessionInit, OneNodeEach
<1>2. IInv /\ OneNodeEach /\ [Next]_vars => OneNodeEach'
  BY NodesInductive DEF IInv
<1>3. IInv /\ OneNodeEach /\ [Next]_vars => [Kept]_vars
  <2> SUFFICES ASSUME IInv, OneNodeEach, Next PROVE Kept
    OBVIOUS
  <2>1. IsRegistry(registry) /\ SessionTypeOK
    BY DEF IInv, SoundRegistry
  <2>2. CASE TickPeriodicScan
    <3>1. PICK merged \in {registry, Merged} :
            \E due, opened \in SUBSET DOMAIN merged : ScanAndConnect(merged, due, opened)
      BY <2>2 DEF TickPeriodicScan
    <3>2. PICK due \in SUBSET DOMAIN merged, opened \in SUBSET DOMAIN merged :
            ScanAndConnect(merged, due, opened)
      BY <3>1
    <3>3. IsRegistry(merged)
      BY <2>1, <3>1, MergedIsSound DEF IInv, SoundRegistry
    <3>4. /\ DOMAIN registry' = DOMAIN merged
          /\ \A j \in DOMAIN merged : SameSettings(registry'[j], merged[j])
      BY <3>2, <3>3 DEF ScanAndConnect, SameSettings, IsRegistry, Runtime
    <3>5. \A k \in Known : \E j \in DOMAIN merged :
            /\ j = k \/ (k \in Paths /\ node[k] = j)
            /\ SameSettings(merged[j], registry[k])
      <4>1. CASE merged = registry
        BY <4>1 DEF Known, SameSettings
      <4>2. CASE merged = Merged
        BY <2>1, <4>2, MergedKeepsSettings DEF Known
      <4> QED
        BY <3>1, <4>1, <4>2
    <3> QED
      BY <3>4, <3>5 DEF SameSettings
  <2>3. CASE SkipScan
    BY <2>3 DEF SkipScan, ctxVars, Known
  <2>4. CASE HandleCommand
    BY <2>4 DEF HandleCommand, HandleStartScan, ConnectOpens, ConnectFails, HandleDisconnect,
       HandleForget, HandleSetProfile, Command
  <2>5. CASE HandleScannerEvent
    BY <2>5 DEF HandleScannerEvent, HandleHidEnabled, HandleBtStateStuck, Scanner
  <2>6. CASE HandleTransportEvent
    BY <2>6, TransportEventsStay
  <2>7. CASE Ticks \/ Flush \/ EnvironmentNext
    BY <2>7 DEF Ticks, Flush, EnvironmentNext
  <2> QED
    BY <2>2, <2>3, <2>4, <2>5, <2>6, <2>7 DEF Next, LoopStep, WorkStep
<1> QED
  BY <1>1, <1>2, <1>3, Inductive, PTL DEF Spec, ScansKeepSettings

-----------------------------------------------------------------------------
(* Sessions and their I/O threads.  What matters of the registry is which  *)
(* paths have an entry that is connected or waits for its first report.    *)

Live(r) == r.connected \/ r.pending
LivePaths(reg) == {reg[k].path : k \in {j \in DOMAIN reg : Live(reg[j])}}

(* Every open handle has a thread that will end its session.               *)
HandlesWatched == \A p \in Paths : handle[p] # 0 => Watched(p)

Apart(reg) == \A j, k \in DOMAIN reg : reg[j].path = reg[k].path => j = k
Placed(reg) == Apart(reg) /\ \A k \in DOMAIN reg : KnownAt(k, reg[k].path)

NodesAtHome == \A p \in Paths : node[p] # None => p \in Home[node[p]]

(* While every Wiimote keeps its path, an enumeration rebinds no entry,    *)
(* and a row that moves to a MAC takes its session along.                  *)
LEMMA MergedIsPlaced ==
  ASSUME SteadyPaths, SessionTypeOK, IsRegistry(registry), NodesAtHome, Placed(registry)
  PROVE  Placed(Merged) /\ LivePaths(Merged) = LivePaths(registry)
<1> DEFINE foundIds == {CanonicalId(p) : p \in Found}
           migrated == {p \in Found : Migrates(p)}
           at(id) == CHOOSE p \in Found : CanonicalId(p) = id
<1>1. /\ Found \subseteq Paths
      /\ \A p \in Found : node[p] \in Devices /\ p \in Home[node[p]]
  BY DEF SessionTypeOK, Found, NodesAtHome
<1>a. \A p \in Found : \/ node[p] \in NoSerial /\ CanonicalId(p) = p
                       \/ node[p] \notin NoSerial /\ CanonicalId(p) = node[p]
  BY DEF CanonicalId
<1>2. \A id \in foundIds : at(id) \in Found /\ CanonicalId(at(id)) = id
  OBVIOUS
<1>3. /\ DOMAIN Merged = (DOMAIN registry \ migrated) \cup foundIds
      /\ \A id \in DOMAIN Merged :
           Merged[id] = IF id \in foundIds THEN MergedEntry(at(id)) ELSE registry[id]
  BY Zenon DEF Merged
<1>4. /\ \A k \in DOMAIN registry : registry[k] \in Runtime /\ registry[k].path \in Paths
      /\ \A k \in DOMAIN registry : KnownAt(k, registry[k].path)
      /\ Apart(registry)
  BY DEF IsRegistry, Runtime, Placed
<1>5. \A d, e \in Devices : \A p \in Home[d], q \in Home[e] : d = e <=> p = q
  BY DEF SteadyPaths
<1>6. Devices \cap Paths = {}
  BY DistinctNames
<1> HIDE DEF at
(* An entry keyed by its path, or by the MAC that shows there, has that path. *)
<1>7. ASSUME NEW p \in Found, NEW k \in DOMAIN registry,
             k = p \/ (k = node[p] /\ node[p] \notin NoSerial)
      PROVE  registry[k].path = p
  <2>1. CASE k = p
    BY <1>1, <1>4, <1>6, <1>7, <2>1 DEF KnownAt
  <2>2. CASE k = node[p]
    <3>1. k \in Devices /\ p \in Home[k] /\ registry[k].path \in Paths
      BY <1>1, <1>4, <1>7, <2>2
    <3>2. KnownAt(k, registry[k].path)
      BY <1>4
    <3>3. registry[k].path \in Home[k]
      BY <1>6, <3>1, <3>2 DEF KnownAt
    <3> QED
      BY <1>5, <3>1, <3>3
  <2> QED
    BY <1>7, <2>1, <2>2
<1>8. \A r \in Runtime : [r EXCEPT !.path = r.path] = r
  BY DEF Runtime
(* Each entry of Merged is one of the registry, or new at a path that is free. *)
<1> DEFINE From(id, s) == /\ s \in DOMAIN registry
                          /\ Merged[id] = registry[s]
                          /\ \/ s = id /\ s \notin migrated
                             \/ s \in migrated /\ id = CanonicalId(s)
           Fresh(id) == /\ at(id) \in Found
                        /\ id = CanonicalId(at(id))
                        /\ Merged[id].path = at(id)
                        /\ ~Live(Merged[id])
                        /\ \A k \in DOMAIN registry : registry[k].path # at(id)
<1>9. \A p \in migrated, q \in Found : CanonicalId(q) # p
  <2> SUFFICES ASSUME NEW p \in migrated, NEW q \in Found, CanonicalId(q) = p
               PROVE  FALSE
    OBVIOUS
  <2>1. p \in Found /\ CanonicalId(p) # p
    BY DEF Migrates
  <2>2. CanonicalId(q) # node[q]
    BY <1>1, <1>6, <2>1
  <2>3. q = p
    BY <1>a, <2>2
  <2> QED
    BY <2>1, <2>3
<1>10. ASSUME NEW id \in DOMAIN Merged
       PROVE  (\E s \in DOMAIN registry : From(id, s)) \/ Fresh(id)
  <2>1. CASE id \in foundIds /\ id \in DOMAIN registry
    <3>1. Merged[id] = [registry[id] EXCEPT !.path = at(id)]
      BY <1>2, <1>3, <2>1 DEF MergedEntry
    <3>2. registry[id].path = at(id)
      <4>1. at(id) \in Found /\ CanonicalId(at(id)) = id
        BY <1>2, <2>1
      <4>2. id = at(id) \/ (id = node[at(id)] /\ node[at(id)] \notin NoSerial)
        BY <1>a, <4>1
      <4> QED
        BY <1>7, <2>1, <4>1, <4>2
    <3>3. Merged[id] = registry[id]
      BY <1>4, <1>8, <2>1, <3>1, <3>2
    <3>4. id \notin migrated
      BY <1>2, <1>9, <2>1
    <3> QED
      BY <2>1, <3>3, <3>4
  <2>2. CASE id \in foundIds /\ id \notin DOMAIN registry /\ Migrates(at(id))
    <3>1. Merged[id] = [registry[at(id)] EXCEPT !.path = at(id)] /\ at(id) \in DOMAIN registry
      BY <1>2, <1>3, <2>2 DEF MergedEntry, Migrates
    <3>2. at(id) \in Found /\ registry[at(id)].path = at(id)
      BY <1>2, <1>7, <2>2, <3>1
    <3>3. Merged[id] = registry[at(id)]
      BY <1>4, <1>8, <3>1, <3>2
    <3> QED
      BY <1>2, <2>2, <3>1, <3>2, <3>3
  <2>3. CASE id \in foundIds /\ id \notin DOMAIN registry /\ ~Migrates(at(id))
    <3>1. Merged[id] = NewRuntime(at(id), None, DefaultProfile)
      <4>1. id \in DOMAIN Merged /\ Merged[id] = MergedEntry(at(id)) /\ CanonicalId(at(id)) = id
        BY <1>2, <1>3, <2>3
      <4> QED
        BY <2>3, <4>1 DEF MergedEntry
    <3>2. Merged[id].path = at(id) /\ ~Live(Merged[id])
      BY <3>1 DEF NewRuntime, Live
    <3>3. ASSUME NEW k \in DOMAIN registry, registry[k].path = at(id)
          PROVE  FALSE
      <4>1. at(id) \in Found /\ CanonicalId(at(id)) = id
        BY <1>2, <2>3
      <4>2. CASE k = at(id)
        BY <2>3, <3>3, <4>1, <4>2 DEF Migrates
      <4>3. CASE k \in Devices \ NoSerial /\ at(id) \in Home[k]
        <5> DEFINE p == at(id)
        <5>a. /\ node[p] \in Devices /\ p \in Home[node[p]]
              /\ k \in Devices /\ p \in Home[k]
          BY <1>1, <4>1, <4>3
        <5> HIDE DEF p
        <5>b. k = node[p]
          BY <1>5, <5>a
        <5>1. k = node[at(id)]
          BY <5>b DEF p
        <5>2. CanonicalId(at(id)) = k
          BY <4>3, <5>1 DEF CanonicalId
        <5> QED
          BY <2>3, <4>1, <5>2
      <4> QED
        BY <1>4, <3>3, <4>2, <4>3 DEF KnownAt
    <3> QED
      BY <1>2, <2>3, <3>2, <3>3
  <2>4. CASE id \notin foundIds
    BY <1>3, <2>4
  <2> QED
    BY <2>1, <2>2, <2>3, <2>4
<1>11. \A id \in DOMAIN Merged : KnownAt(id, Merged[id].path)
  <2> SUFFICES ASSUME NEW id \in DOMAIN Merged
               PROVE  KnownAt(id, Merged[id].path)
    OBVIOUS
  <2>1. ASSUME NEW p \in Found
        PROVE  KnownAt(CanonicalId(p), p)
    <3>1. node[p] \in Devices /\ p \in Home[node[p]]
      BY <1>1
    <3> QED
      BY <1>a, <3>1 DEF KnownAt
  <2>2. ASSUME NEW s \in DOMAIN registry, From(id, s)
        PROVE  KnownAt(id, Merged[id].path)
    <3>1. CASE s = id
      BY <1>4, <2>2, <3>1
    <3>2. CASE s \in migrated /\ id = CanonicalId(s)
      BY <1>7, <2>1, <2>2, <3>2
    <3> QED
      BY <2>2, <3>1, <3>2
  <2> QED
    BY <1>10, <2>1, <2>2
<1> HIDE DEF migrated
<1>12. Apart(Merged)
  <2> SUFFICES ASSUME NEW j \in DOMAIN Merged, NEW k \in DOMAIN Merged,
                      Merged[j].path = Merged[k].path
               PROVE  j = k
    BY DEF Apart
  <2>1. ASSUME NEW s \in DOMAIN registry, From(j, s), NEW t \in DOMAIN registry, From(k, t)
        PROVE  j = k
    BY <1>4, <2>1 DEF Apart
  <2>2. ASSUME NEW i \in DOMAIN Merged, NEW id \in DOMAIN Merged, Merged[i].path = Merged[id].path,
               NEW s \in DOMAIN registry, From(i, s), Fresh(id)
        PROVE  FALSE
    BY <2>2
  <2>3. ASSUME Fresh(j), Fresh(k)
        PROVE  j = k
    BY <2>3
  <2> HIDE DEF From, Fresh
  <2> QED
    BY <1>10, <2>1, <2>2, <2>3
<1>13. LivePaths(Merged) = LivePaths(registry)
  <2>1. ASSUME NEW id \in DOMAIN Merged, Live(Merged[id])
        PROVE  Merged[id].path \in LivePaths(registry)
    BY <1>10, <2>1 DEF LivePaths
  <2>2. ASSUME NEW k \in DOMAIN registry, Live(registry[k])
        PROVE  registry[k].path \in LivePaths(Merged)
    <3>1. CASE k \in migrated
      <4> DEFINE d == CanonicalId(k)
      <4>1. k \in Found /\ d = node[k] /\ d \in Devices /\ d \notin DOMAIN registry
        <5>1. k \in Found /\ d # k /\ d \notin DOMAIN registry
          BY <3>1 DEF Migrates, migrated
        <5>2. d = node[k] /\ node[k] \in Devices
          BY <1>1, <1>a, <5>1
        <5> QED
          BY <5>1, <5>2
      <4>2. d \in DOMAIN Merged /\ at(d) \in Found /\ CanonicalId(at(d)) = d
        BY <1>2, <1>3, <4>1
      <4>3. at(d) = k
        <5> DEFINE p == at(d)
        <5>1. /\ p \in Found /\ CanonicalId(p) = node[k] /\ p \in Paths
              /\ node[p] \in Devices /\ p \in Home[node[p]]
          BY <1>1, <4>1, <4>2
        <5>2. node[k] \in Devices /\ k \in Home[node[k]]
          BY <1>1, <4>1
        <5> HIDE DEF p, d
        <5>3. CanonicalId(p) # p
          BY <1>6, <5>1, <5>2
        <5>4. node[p] = node[k]
          BY <1>a, <5>1, <5>3
        <5>5. p = k
          BY <1>5, <5>1, <5>2, <5>4
        <5> QED
          BY <5>5 DEF p
      <4> HIDE DEF d
      <4>4. PICK s \in DOMAIN registry : From(d, s)
        BY <1>7, <1>10, <4>1, <4>2, <4>3
      <4>6. registry[k].path = k /\ From(d, s)
        BY <1>7, <4>1, <4>4
      <4>7. s = k
        <5>1. s = d \/ (s \in migrated /\ d = CanonicalId(s))
          BY <4>4
        <5>2. s # d
          BY <4>1, <4>4
        <5>3. s \in Found /\ CanonicalId(s) # s
          BY <5>1, <5>2 DEF migrated, Migrates
        <5>4. node[s] = d /\ s \in Home[node[s]] /\ k \in Home[node[k]]
          BY <1>1, <1>a, <4>1, <5>1, <5>2, <5>3
        <5> QED
          BY <1>5, <4>1, <5>4
      <4> QED
        BY <2>2, <4>2, <4>6, <4>7 DEF LivePaths
    <3>2. CASE k \notin migrated
      <4>1. k \in DOMAIN Merged
        BY <1>3, <3>2
      <4>2. PICK s \in DOMAIN registry : From(k, s)
        <5>1. ASSUME Fresh(k)
              PROVE  FALSE
          <6>1. at(k) \in Found /\ k = CanonicalId(at(k)) /\ registry[k].path # at(k)
            BY <5>1
          <6>2. k = at(k) \/ (k = node[at(k)] /\ node[at(k)] \notin NoSerial)
            BY <1>a, <6>1
          <6> QED
            BY <1>7, <6>1, <6>2
        <5> HIDE DEF From, Fresh
        <5> QED
          BY <1>10, <4>1, <5>1
      <4>3. s = k
        <5>1. s = k \/ (s \in migrated /\ k = CanonicalId(s))
          BY <4>2
        <5> QED
          BY <5>1 DEF migrated, Migrates
      <4> QED
        BY <2>2, <4>1, <4>2, <4>3 DEF LivePaths
    <3> QED
      BY <3>1, <3>2
  <2> QED
    BY <2>1, <2>2 DEF LivePaths
<1> QED
  BY <1>11, <1>12, <1>13 DEF Placed

(* What a step does to the sessions: `opened` are the paths whose open was *)
(* Ok, `closed` those that were closed, `lost` those of the latter whose   *)
(* DeviceLost was taken from the queue.                                    *)
Traffic(opened, closed, lost) ==
  /\ lost \subseteq closed
  /\ \A p \in Paths : handle'[p] # 0 => p \in opened \/ (handle[p] # 0 /\ p \notin closed)
  /\ \A p \in Paths : p \in opened \/ (Watched(p) /\ p \notin lost) => Watched(p)'

(* A loss that waits is not forgotten when the queue grows, nor when       *)
(* another event is taken from it.                                         *)
LEMMA AppendKeepsLosses ==
  ASSUME SessionTypeOK, NEW event, events' = Append(events, event), NEW p \in Paths,
         LossQueued(p)
  PROVE  LossQueued(p)'
<1>1. PICK i \in 1..Len(events) : events[i] = DeviceLost(p)
  BY DEF LossQueued
<1>2. Len(events) \in Nat /\ Len(events') = Len(events) + 1 /\ events'[i] = events[i]
  BY DEF SessionTypeOK
<1>3. i \in 1..Len(events')
  BY <1>2
<1> QED
  BY <1>1, <1>2, <1>3 DEF LossQueued, DeviceLost

LEMMA TailKeepsLosses ==
  ASSUME SessionTypeOK, NEW type, Receive(type), NEW p \in Paths, LossQueued(p),
         type # "DeviceLost" \/ Sender # p
  PROVE  LossQueued(p)'
<1>1. PICK i \in 1..Len(events) : events[i] = DeviceLost(p)
  BY DEF LossQueued
<1>2. /\ events \in Seq(Event) /\ events # <<>> /\ events' = Tail(events)
      /\ Head(events).type = type /\ Head(events) = events[1]
  BY DEF SessionTypeOK, Receive
<1>3. i # 1
  BY <1>1, <1>2 DEF Sender, DeviceLost
<1>4. i - 1 \in 1..Len(Tail(events)) /\ Tail(events)[i - 1] = events[i]
  BY <1>2, <1>3
<1> QED
  BY <1>1, <1>2, <1>4 DEF LossQueued, DeviceLost

(* Opening a path leaves a thread running on it, a new one or the one      *)
(* that watched it already.                                                *)
LEMMA OpenTraffic ==
  ASSUME SessionTypeOK, HandlesWatched, NEW ps \in SUBSET Paths,
         \A p \in ps : MayOpen(p),
         OpenAll(ps), UNCHANGED events
  PROVE  Traffic(ps, {}, {})
<1>1. ASSUME NEW p \in ps, ~AlreadyOpen(p)
      PROVE  OpenedHandles(ps)[p] \in Gens /\ node[p] \in Devices
  <2>1. FreeGens(p) # {} /\ node[p] # None
    BY <1>1 DEF MayOpen
  <2>2. FreeGens(p) \in SUBSET Nat
    BY SessionConstants DEF FreeGens, Gens
  <2>3. \E g \in FreeGens(p) : \A h \in FreeGens(p) : g <= h
    BY <2>1, <2>2, LeastElement
  <2>4. (CHOOSE g \in FreeGens(p) : \A h \in FreeGens(p) : g <= h) \in FreeGens(p)
    BY <2>3, Zenon
  <2>5. OpenedHandles(ps)[p] = CHOOSE g \in FreeGens(p) : \A h \in FreeGens(p) : g <= h
    BY <1>1, Zenon DEF OpenedHandles
  <2> QED
    BY <2>1, <2>4, <2>5 DEF FreeGens, SessionTypeOK
<1>2. \A p \in Paths : p \notin ps \/ AlreadyOpen(p) => handle'[p] = handle[p]
  BY DEF OpenAll, OpenedHandles
<1>3. \A p \in Paths : handle'[p] # 0 => p \in ps \/ handle[p] # 0
  BY <1>2
<1>4. ASSUME NEW p \in Paths, NEW g \in Gens, Running(p, g)
      PROVE  Running(p, g)'
  <2>1. io'[p][g] = io[p][g] \/ (p \in ps /\ ~AlreadyOpen(p) /\ io'[p][g] = node[p])
    BY DEF OpenAll, OpenedThreads
  <2> QED
    BY <1>1, <1>4, <2>1, DistinctNames DEF Running, Ended
<1>5. ASSUME NEW p \in Paths, Watched(p)
      PROVE  Watched(p)'
  BY <1>4, <1>5 DEF Watched, LossQueued
<1>6. ASSUME NEW p \in ps
      PROVE  Watched(p)'
  <2>1. CASE AlreadyOpen(p)
    BY <1>5, <2>1 DEF HandlesWatched, AlreadyOpen
  <2>2. CASE ~AlreadyOpen(p)
    <3>1. PICK g \in Gens : g = OpenedHandles(ps)[p]
      BY <1>1, <2>2
    <3>2. io'[p][g] = node[p] /\ node[p] \in Devices
      BY <1>1, <2>2, <3>1 DEF OpenAll, OpenedThreads
    <3>3. Running(p, g)'
      BY <3>2, DistinctNames DEF Running, Ended
    <3> QED
      BY <3>3 DEF Watched
  <2> QED
    BY <2>1, <2>2
<1> QED
  BY <1>3, <1>5, <1>6 DEF Traffic

(* Closing, by itself or on a report, ends no thread.                      *)
LEMMA CloseTraffic ==
  ASSUME SessionTypeOK, NEW path \in Paths, Close(path),
         UNCHANGED events \/ Receive("Report")
  PROVE  Traffic({}, {path}, {})
<1>1. \A p \in Paths : handle'[p] # 0 => handle[p] # 0 /\ p # path
  BY DEF Close, SessionTypeOK
<1>2. ASSUME NEW p \in Paths, Watched(p)
      PROVE  Watched(p)'
  <2>1. CASE LossQueued(p)
    <3>1. LossQueued(p)'
      BY <2>1, TailKeepsLosses DEF LossQueued
    <3> QED
      BY <3>1 DEF Watched
  <2>2. CASE \E g \in Gens : Running(p, g)
    BY <2>2 DEF Watched, Running, Close
  <2> QED
    BY <1>2, <2>1, <2>2 DEF Watched
<1> QED
  BY <1>1, <1>2 DEF Traffic

(* A DeviceLost closes the path it names, and only that path loses it.     *)
LEMMA LossTraffic ==
  ASSUME SessionTypeOK, Receive("DeviceLost"), Close(Sender)
  PROVE  Sender \in Paths /\ Traffic({}, {Sender}, {Sender})
<1>1. Sender \in Paths
  BY ReceiveTypes
<1>2. \A p \in Paths : handle'[p] # 0 => handle[p] # 0 /\ p # Sender
  BY <1>1 DEF Close, SessionTypeOK
<1>3. ASSUME NEW p \in Paths, Watched(p), p # Sender
      PROVE  Watched(p)'
  <2>1. CASE LossQueued(p)
    <3>1. LossQueued(p)'
      BY <1>3, <2>1, TailKeepsLosses
    <3> QED
      BY <3>1 DEF Watched
  <2>2. CASE \E g \in Gens : Running(p, g)
    BY <2>2 DEF Watched, Running, Close
  <2> QED
    BY <1>3, <2>1, <2>2 DEF Watched
<1> QED
  BY <1>1, <1>2, <1>3 DEF Traffic

(* A step that opens and closes nothing, and takes no loss from the queue. *)
LEMMA NoTraffic ==
  ASSUME SessionTypeOK, UNCHANGED <<handle, io>>, UNCHANGED events \/ Receive("Report")
  PROVE  Traffic({}, {}, {})
<1>1. ASSUME NEW p \in Paths, Watched(p)
      PROVE  Watched(p)'
  <2>1. CASE LossQueued(p)
    <3>1. LossQueued(p)'
      BY <2>1, TailKeepsLosses DEF LossQueued
    <3> QED
      BY <3>1 DEF Watched
  <2>2. CASE \E g \in Gens : Running(p, g)
    BY <2>2 DEF Watched, Running
  <2> QED
    BY <1>1, <2>1, <2>2 DEF Watched
<1> QED
  BY <1>1 DEF Traffic

(* The threads and the OS open and close no handle; a thread that ends     *)
(* leaves its DeviceLost behind.                                           *)
LEMMA EnvironmentTraffic ==
  ASSUME SessionTypeOK, EnvironmentNext
  PROVE  Traffic({}, {}, {})
<1>1. UNCHANGED handle
  BY DEF EnvironmentNext, IoNext, OsNext, IoReport, IoEnd, NodeAppears, NodeVanishes
<1>2. SUFFICES ASSUME NEW p \in Paths, Watched(p)
               PROVE  Watched(p)'
  BY <1>1 DEF Traffic
<1>3. ASSUME NEW q \in Paths, NEW g \in Gens, IoReport(q, g)
      PROVE  Watched(p)'
  <2>1. LossQueued(p) => LossQueued(p)'
    BY <1>3, AppendKeepsLosses DEF IoReport
  <2>2. \A h \in Gens : Running(p, h) => Running(p, h)'
    BY <1>3 DEF IoReport, Running
  <2> QED
    BY <1>2, <2>1, <2>2 DEF Watched
<1>4. ASSUME NEW q \in Paths, NEW g \in Gens, IoEnd(q, g)
      PROVE  Watched(p)'
  <2>1. LossQueued(p) => LossQueued(p)'
    BY <1>4, AppendKeepsLosses DEF IoEnd
  <2>2. CASE p = q
    <3>1. events' = Append(events, DeviceLost(p)) /\ events \in Seq(Event)
      BY <1>4, <2>2 DEF IoEnd, SessionTypeOK
    <3>2. Len(events') \in 1..Len(events') /\ events'[Len(events')] = DeviceLost(p)
      BY <3>1
    <3> QED
      BY <3>2 DEF Watched, LossQueued, DeviceLost
  <2>3. CASE p # q
    <3>1. \A h \in Gens : Running(p, h) => Running(p, h)'
      BY <1>4, <2>3 DEF IoEnd, Running, SessionTypeOK
    <3> QED
      BY <1>2, <2>1, <3>1 DEF Watched
  <2> QED
    BY <2>2, <2>3
<1>5. ASSUME UNCHANGED events, \A h \in Gens : Running(p, h) => Running(p, h)'
      PROVE  Watched(p)'
  BY <1>2, <1>5 DEF Watched, LossQueued
<1>6. ASSUME NEW d \in Devices, NEW q \in Paths, NodeAppears(d, q)
      PROVE  Watched(p)'
  BY <1>5, <1>6 DEF NodeAppears, Running
<1>7. ASSUME NEW q \in Paths, NodeVanishes(q)
      PROVE  Watched(p)'
  <2>1. \A h \in Gens : Running(p, h) => Running(p, h)'
    BY <1>7 DEF NodeVanishes, Running, SessionTypeOK, LinkDown, Ended
  <2> QED
    BY <1>5, <1>7, <2>1 DEF NodeVanishes
<1> QED
  BY <1>3, <1>4, <1>6, <1>7 DEF EnvironmentNext, IoNext, OsNext

(* What it does to the registry, for the same three sets.  Only the        *)
(* recovery of a stuck pairing drops an entry and leaves its handle open.  *)
Accounted(opened, closed, lost) ==
  /\ opened \subseteq LivePaths(registry')
  /\ LivePaths(registry') \subseteq LivePaths(registry) \cup opened
  /\ lost \cap LivePaths(registry') = {}
  /\ ~BtRecovery => LivePaths(registry) \ closed \subseteq LivePaths(registry')

(* One entry changes and keeps its path.                                   *)
LEMMA UpdatedPaths ==
  ASSUME NEW reg, NEW new, NEW id \in DOMAIN reg, NEW r,
         new = [reg EXCEPT ![id] = r], r.path = reg[id].path
  PROVE  /\ Placed(reg) => Placed(new)
         /\ Live(r) => LivePaths(new) = LivePaths(reg) \cup {reg[id].path}
         /\ ~Live(r) => LivePaths(new) \subseteq LivePaths(reg)
         /\ ~Live(r) /\ Apart(reg) => reg[id].path \notin LivePaths(new)
         /\ reg[id].path \in LivePaths(reg) => LivePaths(new) \subseteq LivePaths(reg)
         /\ LivePaths(reg) \ {reg[id].path} \subseteq LivePaths(new)
<1>1. /\ DOMAIN new = DOMAIN reg
      /\ new[id] = r
      /\ \A k \in DOMAIN reg : k # id => new[k] = reg[k]
      /\ \A k \in DOMAIN reg : new[k].path = reg[k].path
  OBVIOUS
<1>2. Placed(reg) => Placed(new)
  BY <1>1 DEF Placed, Apart
<1>3. \A k \in DOMAIN reg : k # id /\ Live(reg[k]) => reg[k].path \in LivePaths(new)
  BY <1>1 DEF LivePaths
<1>4. \A k \in DOMAIN reg : k # id /\ Live(new[k]) => new[k].path \in LivePaths(reg)
  BY <1>1 DEF LivePaths
<1>5. ASSUME Live(r)
      PROVE  LivePaths(new) = LivePaths(reg) \cup {r.path}
  <2>1. r.path \in LivePaths(new)
    BY <1>1, <1>5 DEF LivePaths
  <2>2. LivePaths(reg) \subseteq LivePaths(new)
    BY <1>3, <2>1 DEF LivePaths
  <2>3. LivePaths(new) \subseteq LivePaths(reg) \cup {r.path}
    BY <1>1, <1>4 DEF LivePaths
  <2> QED
    BY <2>1, <2>2, <2>3
<1>6. ASSUME ~Live(r)
      PROVE  /\ LivePaths(reg) \ {r.path} \subseteq LivePaths(new)
             /\ LivePaths(new) \subseteq LivePaths(reg)
             /\ Apart(reg) => r.path \notin LivePaths(new)
  <2>1. LivePaths(reg) \ {r.path} \subseteq LivePaths(new)
    BY <1>3 DEF LivePaths
  <2>2. LivePaths(new) \subseteq LivePaths(reg)
    BY <1>1, <1>4, <1>6 DEF LivePaths
  <2>3. ASSUME Apart(reg), r.path \in LivePaths(new)
        PROVE  FALSE
    <3>1. PICK k \in DOMAIN new : Live(new[k]) /\ new[k].path = r.path
      BY <2>3 DEF LivePaths
    <3> QED
      BY <1>1, <1>6, <2>3, <3>1 DEF Apart
  <2> QED
    BY <2>1, <2>2, <2>3
<1>7. ASSUME reg[id].path \in LivePaths(reg)
      PROVE  LivePaths(new) \subseteq LivePaths(reg)
  BY <1>5, <1>6, <1>7
<1>8. LivePaths(reg) \ {reg[id].path} \subseteq LivePaths(new)
  BY <1>3 DEF LivePaths
<1> QED
  BY <1>2, <1>5, <1>6, <1>7, <1>8

(* One entry goes, if it is there.                                         *)
LEMMA RemovedPaths ==
  ASSUME NEW reg, NEW id, NEW p, id \in DOMAIN reg => reg[id].path = p
  PROVE  /\ Placed(reg) => Placed(Removed(reg, id))
         /\ LivePaths(Removed(reg, id)) \subseteq LivePaths(reg)
         /\ LivePaths(reg) \ {p} \subseteq LivePaths(Removed(reg, id))
         /\ id \notin DOMAIN reg => LivePaths(Removed(reg, id)) = LivePaths(reg)
<1> DEFINE new == Removed(reg, id)
<1>1. /\ DOMAIN new = DOMAIN reg \ {id}
      /\ \A k \in DOMAIN new : new[k] = reg[k]
  BY DEF Removed
<1> HIDE DEF new
<1>2. Placed(reg) => Placed(new)
  BY <1>1 DEF Placed, Apart
<1>3. LivePaths(new) \subseteq LivePaths(reg)
  BY <1>1 DEF LivePaths
<1>4. \A k \in DOMAIN reg : k # id /\ Live(reg[k]) => reg[k].path \in LivePaths(new)
  BY <1>1 DEF LivePaths
<1>5. LivePaths(reg) \ {p} \subseteq LivePaths(new)
  BY <1>4 DEF LivePaths
<1>6. id \notin DOMAIN reg => LivePaths(reg) \subseteq LivePaths(new)
  BY <1>4 DEF LivePaths
<1> QED
  BY <1>2, <1>3, <1>5, <1>6 DEF new

(* Entries change, but not their paths, nor whether they have a session.   *)
LEMMA SamePaths ==
  ASSUME NEW reg, NEW new, DOMAIN new = DOMAIN reg,
         \A k \in DOMAIN reg : new[k].path = reg[k].path /\ (Live(new[k]) <=> Live(reg[k]))
  PROVE  /\ Placed(reg) => Placed(new)
         /\ LivePaths(new) = LivePaths(reg)
<1>1. Placed(reg) => Placed(new)
  BY DEF Placed, Apart
<1>2. \A p : p \in LivePaths(new) <=> p \in LivePaths(reg)
  BY DEF LivePaths
<1> QED
  BY <1>1, <1>2

Effect(opened, closed, lost) ==
  /\ Traffic(opened, closed, lost)
  /\ SteadyPaths /\ NodesAtHome /\ Placed(registry) =>
       Accounted(opened, closed, lost) /\ Placed(registry')

HasEffect == \E opened, closed, lost \in SUBSET Paths : Effect(opened, closed, lost)

(* No session begins or ends.                                              *)
LEMMA NoEffect ==
  ASSUME SessionTypeOK, Traffic({}, {}, {}),
         UNCHANGED registry \/
           (/\ DOMAIN registry' = DOMAIN registry
            /\ \A k \in DOMAIN registry :
                 /\ registry'[k].path = registry[k].path
                 /\ Live(registry'[k]) <=> Live(registry[k]))
  PROVE  HasEffect
<1>1. LivePaths(registry') = LivePaths(registry) /\ (Placed(registry) => Placed(registry'))
  BY SamePaths
<1>2. Effect({}, {}, {})
  BY <1>1 DEF Effect, Accounted
<1> QED
  BY <1>2 DEF HasEffect

(* The user's commands.                                                    *)
LEMMA CommandEffects ==
  ASSUME IInv, HandlesWatched, HandleCommand
  PROVE  HasEffect
<1>1. SessionTypeOK
  BY DEF IInv
<1>2. \A k \in DOMAIN registry : registry[k] \in Runtime /\ registry[k].path \in Paths
  BY DEF IInv, SoundRegistry, IsRegistry, Runtime
<1>3. CASE HandleStartScan
  <2>1. UNCHANGED <<handle, io, events, registry>>
    BY <1>3 DEF HandleStartScan, Command
  <2> QED
    BY <1>1, <2>1, NoTraffic, NoEffect
<1>4. ASSUME NEW id \in Ids, ConnectOpens(id)
      PROVE  HasEffect
  <2> DEFINE p == registry[id].path
             r == [registry[id] EXCEPT !.user_disabled = FALSE, !.next_retry = FALSE,
                                       !.pending = TRUE]
  <2>1. /\ id \in DOMAIN registry
        /\ registry' = [registry EXCEPT ![id] = r]
        /\ p \in Paths
        /\ MayOpen(p) /\ OpenAll({p}) /\ UNCHANGED events
    BY <1>2, <1>4 DEF ConnectOpens, Command
  <2>2. r.path = p /\ Live(r)
    BY <1>2, <2>1 DEF Runtime, Live
  <2> HIDE DEF p, r
  <2>3. Traffic({p}, {}, {})
    BY <1>1, <2>1, OpenTraffic
  <2>4. /\ LivePaths(registry') = LivePaths(registry) \cup {p}
        /\ Placed(registry) => Placed(registry')
    BY <2>1, <2>2, UpdatedPaths DEF p
  <2>5. Effect({p}, {}, {})
    BY <2>3, <2>4 DEF Effect, Accounted
  <2> QED
    BY <2>1, <2>5 DEF HasEffect
<1>5. ASSUME NEW id \in Ids, ConnectFails(id)
      PROVE  HasEffect
  <2>1. UNCHANGED <<handle, io, events>>
    BY <1>5 DEF ConnectFails, Command
  <2>2. /\ DOMAIN registry' = DOMAIN registry
        /\ \A k \in DOMAIN registry :
             /\ registry'[k].path = registry[k].path
             /\ Live(registry'[k]) <=> Live(registry[k])
    BY <1>2, <1>5 DEF ConnectFails, Runtime, Live
  <2> QED
    BY <1>1, <2>1, <2>2, NoTraffic, NoEffect
<1>6. ASSUME NEW id \in Ids, HandleDisconnect(id)
      PROVE  HasEffect
  <2>1. CASE id \in DOMAIN registry
    <3> DEFINE p == registry[id].path
               r == [ResetSession(registry[id]) EXCEPT !.user_disabled = TRUE]
    <3>1. /\ registry' = [registry EXCEPT ![id] = r]
          /\ p \in Paths
          /\ Close(p) /\ UNCHANGED events
      BY <1>2, <1>6, <2>1 DEF HandleDisconnect, Command
    <3>2. r.path = p /\ ~Live(r)
      BY DEF ResetSession, NewRuntime, Live
    <3> HIDE DEF p, r
    <3>3. Traffic({}, {p}, {})
      BY <1>1, <3>1, CloseTraffic
    <3>4. /\ LivePaths(registry) \ {p} \subseteq LivePaths(registry')
          /\ LivePaths(registry') \subseteq LivePaths(registry)
          /\ Placed(registry) => Placed(registry')
      BY <2>1, <3>1, <3>2, UpdatedPaths DEF p
    <3>5. Effect({}, {p}, {})
      BY <3>3, <3>4 DEF Effect, Accounted
    <3> QED
      BY <3>1, <3>5 DEF HasEffect
  <2>2. CASE id \notin DOMAIN registry
    <3>1. UNCHANGED <<handle, io, events, registry>>
      BY <1>6, <2>2 DEF HandleDisconnect, Command
    <3> QED
      BY <1>1, <3>1, NoTraffic, NoEffect
  <2> QED
    BY <2>1, <2>2
<1>7. ASSUME NEW id \in Ids, HandleForget(id)
      PROVE  HasEffect
  <2>1. registry' = Removed(registry, id)
    BY <1>7 DEF HandleForget
  <2>2. CASE id \in DOMAIN registry
    <3> DEFINE p == registry[id].path
    <3>1. p \in Paths /\ Close(p) /\ UNCHANGED events
      BY <1>2, <1>7, <2>2 DEF HandleForget, Command
    <3> HIDE DEF p
    <3>2. Traffic({}, {p}, {})
      BY <1>1, <3>1, CloseTraffic
    <3>3. /\ LivePaths(registry) \ {p} \subseteq LivePaths(registry')
          /\ LivePaths(registry') \subseteq LivePaths(registry)
          /\ Placed(registry) => Placed(registry')
      BY <2>1, <2>2, RemovedPaths DEF p
    <3>4. Effect({}, {p}, {})
      BY <3>2, <3>3 DEF Effect, Accounted
    <3> QED
      BY <3>1, <3>4 DEF HasEffect
  <2>3. CASE id \notin DOMAIN registry
    <3>1. UNCHANGED <<handle, io, events>>
      BY <1>7, <2>3 DEF HandleForget, Command
    <3>2. /\ LivePaths(registry') = LivePaths(registry)
          /\ Placed(registry) => Placed(registry')
      BY <2>1, <2>3, RemovedPaths
    <3>3. Effect({}, {}, {})
      BY <1>1, <3>1, <3>2, NoTraffic DEF Effect, Accounted
    <3> QED
      BY <3>3 DEF HasEffect
  <2> QED
    BY <2>2, <2>3
<1>8. ASSUME NEW id \in Ids, NEW profile \in Profiles, NEW padOk \in BOOLEAN,
             HandleSetProfile(id, profile, padOk)
      PROVE  HasEffect
  <2>1. UNCHANGED <<handle, io, events>>
    BY <1>8 DEF HandleSetProfile, Command
  <2>2. /\ DOMAIN registry' = DOMAIN registry
        /\ \A k \in DOMAIN registry :
             /\ registry'[k].path = registry[k].path
             /\ Live(registry'[k]) <=> Live(registry[k])
    BY <1>2, <1>8 DEF HandleSetProfile, Runtime, Live
  <2> QED
    BY <1>1, <2>1, <2>2, NoTraffic, NoEffect
<1> QED
  BY <1>3, <1>4, <1>5, <1>6, <1>7, <1>8 DEF HandleCommand

(* The scanner.                                                            *)
LEMMA ScannerEffects ==
  ASSUME IInv, HandleScannerEvent
  PROVE  HasEffect
<1>1. SessionTypeOK
  BY DEF IInv
<1>2. CASE HandleHidEnabled
  BY <1>1, <1>2, NoTraffic, NoEffect DEF HandleHidEnabled, Scanner, sessionVars
<1>3. ASSUME NEW d \in Devices, NEW unpaired \in BOOLEAN, HandleBtStateStuck(d, unpaired)
      PROVE  HasEffect
  <2>1. BtRecovery /\ UNCHANGED <<handle, io, events>>
    BY <1>3 DEF HandleBtStateStuck, Scanner, sessionVars
  <2>2. CASE unpaired
    <3>1. registry' = Removed(registry, d)
      BY <1>3, <2>2 DEF HandleBtStateStuck
    <3>2. /\ LivePaths(registry') \subseteq LivePaths(registry)
          /\ Placed(registry) => Placed(registry')
      BY <3>1, RemovedPaths
    <3>3. Effect({}, {}, {})
      BY <1>1, <2>1, <3>2, NoTraffic DEF Effect, Accounted
    <3> QED
      BY <3>3 DEF HasEffect
  <2>3. CASE ~unpaired
    BY <1>1, <1>3, <2>1, <2>3, NoTraffic, NoEffect DEF HandleBtStateStuck
  <2> QED
    BY <2>2, <2>3
<1> QED
  BY <1>2, <1>3 DEF HandleScannerEvent

(* The periodic scan: what it opens is pending afterwards, and what it     *)
(* cannot open had no session.                                             *)
LEMMA ScanEffects ==
  ASSUME IInv, HandlesWatched, TickPeriodicScan
  PROVE  HasEffect
<1>1. SessionTypeOK /\ SoundRegistry(registry) /\ UNCHANGED events
  BY DEF IInv, TickPeriodicScan
<1>2. PICK merged \in {registry, Merged} :
        \E due, opened \in SUBSET DOMAIN merged : ScanAndConnect(merged, due, opened)
  BY DEF TickPeriodicScan
<1>3. PICK due \in SUBSET DOMAIN merged, opened \in SUBSET DOMAIN merged :
        ScanAndConnect(merged, due, opened)
  BY <1>2
<1>4. \A k \in DOMAIN merged : merged[k] \in Runtime /\ merged[k].path \in Paths
  BY <1>1, <1>2, MergedIsSound DEF SoundRegistry, IsRegistry, Runtime
<1> DEFINE ps == {merged[k].path : k \in opened}
<1>5. Traffic(ps, {}, {})
  <2>1. ps \in SUBSET Paths /\ (\A p \in ps : MayOpen(p)) /\ OpenAll(ps)
    BY <1>3, <1>4 DEF ScanAndConnect
  <2> HIDE DEF ps
  <2> QED
    BY <1>1, <2>1, OpenTraffic
<1>6. /\ DOMAIN registry' = DOMAIN merged
      /\ \A k \in DOMAIN merged :
           /\ registry'[k].path = merged[k].path
           /\ Live(registry'[k]) <=> k \in opened \/ Live(merged[k])
  BY <1>3, <1>4 DEF ScanAndConnect, Runtime, Live
<1>7. LivePaths(registry') = LivePaths(merged) \cup ps
  <2>1. \A p : p \in LivePaths(registry') <=> p \in LivePaths(merged) \/ p \in ps
    BY <1>6 DEF LivePaths
  <2> QED
    BY <2>1
<1>8. Placed(merged) => Placed(registry')
  BY <1>6 DEF Placed, Apart
<1>9. SteadyPaths /\ NodesAtHome /\ Placed(registry) =>
        Placed(merged) /\ LivePaths(merged) = LivePaths(registry)
  BY <1>1, <1>2, MergedIsPlaced DEF SoundRegistry
<1>10. ps \in SUBSET Paths
  BY <1>4
<1> HIDE DEF ps
<1>11. Effect(ps, {}, {})
  BY <1>5, <1>7, <1>8, <1>9 DEF Effect, Accounted
<1> QED
  BY <1>10, <1>11 DEF HasEffect

(* The events of the I/O threads.                                          *)
LEMMA TransportEffects ==
  ASSUME IInv, HandleTransportEvent
  PROVE  HasEffect
<1>1. SessionTypeOK
  BY DEF IInv
<1>2. \A k \in DOMAIN registry : registry[k] \in Runtime /\ registry[k].path \in Paths
  BY DEF IInv, SoundRegistry, IsRegistry, Runtime
<1>3. CASE ReportFromUnknownPath
  BY <1>1, <1>3, NoTraffic, NoEffect DEF ReportFromUnknownPath
<1>4. CASE LostUnknownPath
  <2> DEFINE p == Sender
  <2>1. p \in Paths /\ Traffic({}, {p}, {p}) /\ UNCHANGED registry
    BY <1>1, <1>4, LossTraffic DEF LostUnknownPath
  <2>2. p \notin LivePaths(registry)
    BY <1>4 DEF LostUnknownPath, IdsForPath, LivePaths
  <2> HIDE DEF p
  <2>3. Effect({}, {p}, {p})
    BY <2>1, <2>2 DEF Effect, Accounted
  <2> QED
    BY <2>1, <2>3 DEF HasEffect
<1>5. ASSUME NEW id \in DOMAIN registry, LostDevice(id)
      PROVE  HasEffect
  <2> DEFINE p == registry[id].path
             r == [ResetSession(registry[id]) EXCEPT !.next_retry = TRUE]
  <2>1. /\ registry' = [registry EXCEPT ![id] = r]
        /\ p = Sender
        /\ Receive("DeviceLost") /\ Close(p)
    BY <1>5 DEF LostDevice, IdsForPath
  <2>2. r.path = p /\ ~Live(r)
    BY DEF ResetSession, NewRuntime, Live
  <2> HIDE DEF p, r
  <2>3. p \in Paths /\ Traffic({}, {p}, {p})
    BY <1>1, <2>1, LossTraffic
  <2>4. /\ LivePaths(registry) \ {p} \subseteq LivePaths(registry')
        /\ LivePaths(registry') \subseteq LivePaths(registry)
        /\ Apart(registry) => p \notin LivePaths(registry')
        /\ Placed(registry) => Placed(registry')
    BY <2>1, <2>2, UpdatedPaths DEF p
  <2>5. Effect({}, {p}, {p})
    BY <2>3, <2>4 DEF Effect, Accounted, Placed
  <2> QED
    BY <2>3, <2>5 DEF HasEffect
<1>6. ASSUME NEW id \in DOMAIN registry, NEW ext \in Extensions \cup {None},
             ReportUpdates(id, ext)
      PROVE  HasEffect
  <2>1. UNCHANGED <<handle, io>> /\ Receive("Report")
    BY <1>6 DEF ReportUpdates
  <2>2. /\ DOMAIN registry' = DOMAIN registry
        /\ \A k \in DOMAIN registry :
             /\ registry'[k].path = registry[k].path
             /\ Live(registry'[k]) <=> Live(registry[k])
    BY <1>2, <1>6 DEF ReportUpdates, Runtime, Live
  <2> QED
    BY <1>1, <2>1, <2>2, NoTraffic, NoEffect
<1>7. ASSUME NEW id \in DOMAIN registry, NEW ext \in Extensions \cup {None},
             NEW padOk \in BOOLEAN, ReportPromotes(id, ext, padOk)
      PROVE  HasEffect
  <2>1. UNCHANGED <<handle, io>> /\ Receive("Report") /\ registry[id].pending
    BY <1>7 DEF ReportPromotes
  <2>2. /\ DOMAIN registry' = DOMAIN registry
        /\ \A k \in DOMAIN registry :
             /\ registry'[k].path = registry[k].path
             /\ k # id => registry'[k] = registry[k]
        /\ registry'[id].connected
    BY <1>2, <1>7 DEF ReportPromotes, Runtime
  <2>3. \A k \in DOMAIN registry : Live(registry'[k]) <=> Live(registry[k])
    BY <2>1, <2>2 DEF Live
  <2> QED
    BY <1>1, <2>1, <2>2, <2>3, NoTraffic, NoEffect
<1>8. ASSUME NEW id \in DOMAIN registry, NEW ext \in Extensions \cup {None},
             ReportRefused(id, ext)
      PROVE  HasEffect
  <2> DEFINE p == registry[id].path
             r == [registry[id] EXCEPT !.extension = ext, !.pending = FALSE]
  <2>1. /\ registry' = [registry EXCEPT ![id] = r]
        /\ p \in Paths
        /\ Receive("Report") /\ Close(p)
        /\ registry[id].pending
    BY <1>2, <1>8 DEF ReportRefused
  <2>2. r.path = p /\ p \in LivePaths(registry)
    BY <1>2, <2>1 DEF Runtime, LivePaths, Live
  <2> HIDE DEF p, r
  <2>3. Traffic({}, {p}, {})
    BY <1>1, <2>1, CloseTraffic
  <2>4. /\ LivePaths(registry) \ {p} \subseteq LivePaths(registry')
        /\ LivePaths(registry') \subseteq LivePaths(registry)
        /\ Placed(registry) => Placed(registry')
    BY <2>1, <2>2, UpdatedPaths DEF p
  <2>5. Effect({}, {p}, {})
    BY <2>3, <2>4 DEF Effect, Accounted
  <2> QED
    BY <2>1, <2>5 DEF HasEffect
<1> QED
  BY <1>3, <1>4, <1>5, <1>6, <1>7, <1>8 DEF HandleTransportEvent

(* Every step of the daemon and of its surroundings has such an effect.    *)
LEMMA StepEffects ==
  ASSUME IInv, HandlesWatched, [Next]_vars
  PROVE  HasEffect
<1>1. SessionTypeOK
  BY DEF IInv
<1>2. \A k \in DOMAIN registry : registry[k] \in Runtime
  BY DEF IInv, SoundRegistry, IsRegistry
<1>3. CASE Ticks
  <2>1. UNCHANGED <<handle, io, events>>
    BY <1>3 DEF Ticks, sessionVars
  <2>2. /\ DOMAIN registry' = DOMAIN registry
        /\ \A k \in DOMAIN registry :
             /\ registry'[k].path = registry[k].path
             /\ Live(registry'[k]) <=> Live(registry[k])
    <3>1. PICK fixed \in SUBSET DOMAIN registry : TickOutputRetry(fixed)
      BY <1>3 DEF Ticks
    <3> QED
      BY <1>2, <3>1 DEF TickOutputRetry, Runtime, Live
  <2> QED
    BY <1>1, <2>1, <2>2, NoTraffic, NoEffect
<1>4. CASE SkipScan \/ Flush \/ UNCHANGED vars
  <2>1. UNCHANGED <<handle, io, events, registry>>
    BY <1>4 DEF SkipScan, Flush, vars, ctxVars, sessionVars
  <2> QED
    BY <1>1, <2>1, NoTraffic, NoEffect
<1>5. CASE EnvironmentNext
  <2>1. UNCHANGED registry
    BY <1>5 DEF EnvironmentNext, ctxVars
  <2> QED
    BY <1>1, <1>5, <2>1, EnvironmentTraffic, NoEffect
<1> QED
  BY <1>3, <1>4, <1>5, CommandEffects, ScannerEffects, ScanEffects, TransportEffects
     DEF Next, LoopStep, WorkStep

(* Nodes appear where their Wiimotes belong.                               *)
LEMMA NodesStayHome ==
  ASSUME SessionTypeOK, NodesAtHome, [Next]_vars
  PROVE  NodesAtHome'
<1>1. CASE UNCHANGED node
  BY <1>1 DEF NodesAtHome
<1>2. ASSUME NEW d \in Devices, NEW p \in Paths, NodeAppears(d, p)
      PROVE  NodesAtHome'
  BY <1>2 DEF NodeAppears, NodesAtHome, SessionTypeOK
<1>3. ASSUME NEW p \in Paths, NodeVanishes(p)
      PROVE  NodesAtHome'
  BY <1>3 DEF NodeVanishes, NodesAtHome, SessionTypeOK
<1>4. CASE EnvironmentNext
  BY <1>1, <1>2, <1>3, <1>4 DEF EnvironmentNext, IoNext, IoReport, IoEnd, OsNext
<1>5. CASE HandleCommand
  BY <1>1, <1>5 DEF HandleCommand, HandleStartScan, ConnectOpens, ConnectFails, HandleDisconnect,
     HandleForget, HandleSetProfile, Command
<1>6. CASE HandleScannerEvent
  BY <1>1, <1>6 DEF HandleScannerEvent, HandleHidEnabled, HandleBtStateStuck, Scanner, sessionVars
<1>7. CASE HandleTransportEvent
  BY <1>1, <1>7, TransportEventsStay
<1>8. CASE TickPeriodicScan \/ SkipScan \/ Ticks \/ Flush \/ UNCHANGED vars
  BY <1>1, <1>8 DEF TickPeriodicScan, SkipScan, Ticks, Flush, vars, sessionVars
<1> QED
  BY <1>4, <1>5, <1>6, <1>7, <1>8 DEF Next, LoopStep, WorkStep

(* No handle is left in the map by a thread that will not report its end,  *)
(* wherever the OS shows the Wiimotes and whatever the file said.          *)
THEOREM HandlesAreWatched == Spec => []HandlesWatched
<1>1. Init => HandlesWatched
  BY DEF Init, InitFrom, SessionInit, HandlesWatched
<1>2. IInv /\ HandlesWatched /\ [Next]_vars => HandlesWatched'
  <2> SUFFICES ASSUME IInv, HandlesWatched, [Next]_vars, NEW p \in Paths, handle'[p] # 0
               PROVE  Watched(p)'
    BY DEF HandlesWatched
  <2>1. PICK opened \in SUBSET Paths, closed \in SUBSET Paths, lost \in SUBSET Paths :
          Effect(opened, closed, lost)
    BY StepEffects DEF HasEffect
  <2>2. p \in opened \/ (handle[p] # 0 /\ p \notin lost)
    BY <2>1 DEF Effect, Traffic
  <2> QED
    BY <2>1, <2>2 DEF Effect, Traffic, HandlesWatched
<1> QED
  BY <1>1, <1>2, Inductive, PTL DEF Spec

(* Every session has a thread or a DeviceLost to end it, and where each    *)
(* path has one Wiimote, one entry: two would share the loss of one.       *)
SessionsInv ==
  /\ HandlesWatched
  /\ NodesAtHome
  /\ Placed(registry)
  /\ \A p \in LivePaths(registry) : Watched(p)

(* A daemon starts without sessions, from a file that is placed.           *)
LEMMA SessionsStart ==
  ASSUME SteadyPaths, Init
  PROVE  SessionsInv /\ LivePaths(registry) = {} /\ \A p \in Paths : handle[p] = 0
<1>1. PICK file \in InitialFiles : InitFrom(file)
  BY DEF Init
<1>2. /\ registry = Hydrated(file)
      /\ node = [p \in Paths |-> None]
      /\ handle = [p \in Paths |-> 0]
  BY <1>1 DEF InitFrom, SessionInit
<1>3. /\ DOMAIN registry = DOMAIN file
      /\ \A k \in DOMAIN file : registry[k].path = file[k].path /\ ~Live(registry[k])
  BY <1>2 DEF Hydrated, NewRuntime, Live
<1>4. Placed(registry)
  BY <1>3 DEF SteadyPaths, Placed, Apart
<1>5. LivePaths(registry) = {}
  BY <1>3 DEF LivePaths
<1> QED
  BY <1>2, <1>4, <1>5 DEF SessionsInv, HandlesWatched, NodesAtHome

(* What the effect of a step leaves behind is watched again.               *)
LEMMA SessionsStep ==
  ASSUME SteadyPaths, IInv, IInv', SessionsInv, [Next]_vars
  PROVE  SessionsInv' /\ \E opened, closed, lost \in SUBSET Paths :
                           Traffic(opened, closed, lost) /\ Accounted(opened, closed, lost)
<1>1. PICK opened \in SUBSET Paths, closed \in SUBSET Paths, lost \in SUBSET Paths :
        Effect(opened, closed, lost)
  BY StepEffects DEF HasEffect, SessionsInv
<1>2. /\ Traffic(opened, closed, lost)
      /\ Accounted(opened, closed, lost)
      /\ Placed(registry')
  BY <1>1 DEF Effect, SessionsInv
<1>3. LivePaths(registry') \subseteq Paths
  BY DEF IInv, SoundRegistry, IsRegistry, Runtime, LivePaths
<1>4. \A p \in LivePaths(registry') : Watched(p)'
  BY <1>2, <1>3 DEF Traffic, Accounted, SessionsInv
<1>5. \A p \in Paths : handle'[p] # 0 => Watched(p)'
  BY <1>2 DEF Traffic, SessionsInv, HandlesWatched
<1>6. NodesAtHome'
  BY NodesStayHome DEF SessionsInv, IInv
<1> QED
  BY <1>2, <1>4, <1>5, <1>6 DEF SessionsInv, HandlesWatched

(* That invariant holds of every reachable state.                          *)
THEOREM SessionsInductive == ASSUME SteadyPaths PROVE Spec => []SessionsInv
<1>1. Init => SessionsInv
  BY SessionsStart
<1>2. IInv /\ IInv' /\ SessionsInv /\ [Next]_vars => SessionsInv'
  BY SessionsStep
<1> QED
  BY <1>1, <1>2, Inductive, PTL DEF Spec

(* The watchdog covers every session, where each Wiimote keeps a path of   *)
(* its own: no event is handled, no command given and no thread ends in an *)
(* order that leaves a connected or pending entry without one.             *)
THEOREM SessionsStayWatched == ASSUME SteadyPaths PROVE Spec => []SessionIsWatched
<1>1. SessionsInv => SessionIsWatched
  BY DEF SessionsInv, SessionIsWatched, Known, LivePaths, Live
<1> QED
  BY <1>1, SessionsInductive, PTL

(* And no HID handle outlives the session it was opened for, as long as no *)
(* stuck pairing is recovered from under a session.                        *)
THEOREM HandlesStayOwned ==
  ASSUME SteadyPaths, BtRecovery = FALSE
  PROVE  Spec => []HandlesAreOwned
<1> DEFINE Owned == \A p \in Paths : handle[p] # 0 => p \in LivePaths(registry)
<1>1. Init => Owned
  BY SessionsStart
<1>2. IInv /\ IInv' /\ SessionsInv /\ Owned /\ [Next]_vars => Owned'
  <2> SUFFICES ASSUME IInv, IInv', SessionsInv, Owned, [Next]_vars,
                      NEW p \in Paths, handle'[p] # 0
               PROVE  p \in LivePaths(registry')
    OBVIOUS
  <2>1. PICK opened \in SUBSET Paths, closed \in SUBSET Paths, lost \in SUBSET Paths :
          Traffic(opened, closed, lost) /\ Accounted(opened, closed, lost)
    BY SessionsStep
  <2>2. p \in opened \/ (p \in LivePaths(registry) /\ p \notin closed)
    BY <2>1 DEF Traffic
  <2> QED
    BY <2>1, <2>2 DEF Accounted
<1>3. Owned => HandlesAreOwned
  BY DEF HandlesAreOwned, LivePaths, Live, IdsForPath
<1> HIDE DEF Owned
<1> QED
  BY <1>1, <1>2, <1>3, Inductive, SessionsInductive, PTL DEF Spec

=============================================================================
