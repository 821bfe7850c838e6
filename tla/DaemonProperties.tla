--------------------------- MODULE DaemonProperties ---------------------------
(***************************************************************************)
(* What the daemon's registry, its HID sessions and its outputs promise    *)
(* each other, and what a Wiimote and its user can rely on.                *)
(***************************************************************************)
EXTENDS DaemonCore

Known == DOMAIN registry

-----------------------------------------------------------------------------
(* Player slots (hid_scan.rs::promote_to_connected, state.rs::slot).       *)

(* No two Wiimotes hold the same player slot, whatever connects,           *)
(* reconnects or is promoted again in whatever order; so no more than      *)
(* NumSlots of them hold one.                                              *)
SlotsAreExclusive ==
  \A j, k \in Known :
    registry[j].slot # None /\ registry[j].slot = registry[k].slot => j = k

(* A Wiimote holds a slot exactly while it is connected: no way of losing  *)
(* a session leaks its slot, and none is connected without a player LED.   *)
SlotIffConnected ==
  \A k \in Known : registry[k].connected <=> registry[k].slot # None

-----------------------------------------------------------------------------
(* Virtual pads (Output).                                                  *)

(* A virtual pad exists only for a connected Wiimote and has the mapping   *)
(* the user last picked for it, and a connected Wiimote without a pad      *)
(* always has another attempt scheduled, across promotion, profile         *)
(* changes and the retry tick.                                             *)
PadIsRightOrRetried ==
  \A k \in Known :
    /\ registry[k].output # None =>
         registry[k].connected /\ registry[k].output = registry[k].mapping_profile
    /\ registry[k].connected /\ registry[k].output = None => registry[k].output_retry_at

-----------------------------------------------------------------------------
(* Sessions (try_connect, handle_report, handle_device_lost).              *)

(* Disconnect is sticky: until the user connects it, a disabled Wiimote is *)
(* neither connected nor being connected, late events and periodic scans   *)
(* notwithstanding.                                                        *)
DisabledStaysDown ==
  \A k \in Known : registry[k].user_disabled =>
    ~registry[k].connected /\ ~registry[k].pending

(* Where an entry may have been filed, when every Wiimote keeps one HID    *)
(* path of its own and the file the daemon starts from says nothing else.  *)
KnownAt(k, p) == k = p \/ (k \in Devices \ NoSerial /\ p \in Home[k])

SteadyPaths ==
  /\ \A d, e \in Devices : \A p \in Home[d], q \in Home[e] : d = e <=> p = q
  /\ \A file \in InitialFiles : \A j, k \in DOMAIN file :
       /\ KnownAt(k, file[k].path)
       /\ file[j].path = file[k].path => j = k

LossQueued(p) == \E i \in 1..Len(events) : events[i] = DeviceLost(p)
Watched(p) == LossQueued(p) \/ \E g \in Gens : Running(p, g)

(* The watchdog covers every session: for a device that is connected or    *)
(* waiting for its first report, an I/O thread still runs on its path or   *)
(* the DeviceLost that will end the session is on its way.                 *)
SessionIsWatched ==
  \A k \in Known :
    registry[k].connected \/ registry[k].pending => Watched(registry[k].path)

(* No HID handle is leaked: an open one belongs to a device that is        *)
(* connected or waiting for its first report, so that the next DeviceLost  *)
(* or command that ends the session also closes the handle.                *)
HandlesAreOwned ==
  \A p \in Paths : handle[p] # 0 =>
    \E k \in IdsForPath(registry, p) : registry[k].connected \/ registry[k].pending

(* A report is credited to the Wiimote that sent it: none is connected by  *)
(* another one's input.                                                    *)
ReportsAreCreditedRight ==
  [][\A k \in Devices :
       k \in Known /\ ~registry[k].connected /\ k \in DOMAIN registry' /\ registry'[k].connected
         => Input = k]_vars

-----------------------------------------------------------------------------
(* The user's settings and the flags of DaemonCtx.                         *)

(* A periodic scan loses no row and none of its settings: whatever was     *)
(* known stays known under its id, or under the MAC of the Wiimote that    *)
(* now shows at the path it was keyed on, as it was configured.            *)
ScansKeepSettings ==
  [][phase # "transport" /\ phase' = "transport" =>
       \A k \in Known : \E j \in DOMAIN registry' :
         /\ j = k \/ (k \in Paths /\ node[k] = j)
         /\ registry'[j].mapping_profile = registry[k].mapping_profile
         /\ registry'[j].extension = registry[k].extension
         /\ registry'[j].user_disabled = registry[k].user_disabled]_vars

(* The per-window memo of automatic unpairings is empty outside a window,  *)
(* so the next window gives each device a fresh attempt.                   *)
MemoOnlyInWindow ==
  sdp_recovery_attempted # {} => manual_scan_until

(* No change of the config is left behind by a flush: a stale config is    *)
(* written by the next one, because the UI flag that gates it is set too.  *)
StaleDiskIsFlushed == persist_dirty => dirty

-----------------------------------------------------------------------------
(* Liveness, with no fairness for the user, the scanner or the OS: the     *)
(* loop keeps turning, and an I/O thread that cannot go on ends.  A thread *)
(* with a live link either reads a report or runs into its idle deadline.  *)
(* Strong fairness is for the bounded queue, which in the code never       *)
(* refuses an event.                                                       *)

FairSpec ==
  /\ Spec
  /\ WF_vars(LoopStep)
  /\ \A p \in Paths, g \in Gens :
       /\ SF_vars(IoMustEnd(p, g) /\ UNCHANGED <<phase, ctxVars>>)
       /\ SF_vars((IoReport(p, g) \/ IoEnd(p, g)) /\ UNCHANGED <<phase, ctxVars>>)

(* Two things only hold with the help of the outside world.  A scan is not *)
(* for ever too early, or refused by the OS, and a Wiimote that is read    *)
(* from does not stay silent each time.                                    *)
ScanFindsAll ==
  /\ TickPeriodicScan
  /\ EnumerationAllowed => {CanonicalId(p) : p \in Found} \subseteq DOMAIN registry'
  /\ \A k \in Candidates(registry', DOMAIN registry') : ~MayOpen(registry'[k].path)

(* And timing: a retry is armed no earlier than the last close of its path *)
(* and is due 800 ms later or more, when the closed thread has long left   *)
(* its 50 ms read and its DeviceLost has been handled.                     *)
EchoDue(p) == LossQueued(p) \/ \E g \in Gens : Running(p, g) /\ handle[p] # g

RetriesAreUnhurried ==
  phase # "transport" /\ phase' = "transport" =>
    \A k \in Known :
      registry[k].next_retry /\ EchoDue(registry[k].path) => ~registry'[k].pending

OutsideWorldHelps ==
  /\ <>[][RetriesAreUnhurried]_vars
  /\ SF_vars(ScanFindsAll)
  /\ \A p \in Paths, g \in Gens : SF_vars(IoReport(p, g) /\ UNCHANGED <<phase, ctxVars>>)

(* A device that was opened does not wait for its first report for ever:   *)
(* it is promoted, refused or given up.                                    *)
PendingIsResolved ==
  \A k \in Ids : (k \in Known /\ registry[k].pending) ~>
                 ~(k \in Known /\ registry[k].pending)

(* A connected Wiimote that goes away is marked disconnected.              *)
QuietDeviceIsLost ==
  \A k \in Devices :
    (k \in Known /\ registry[k].connected /\ \A p \in Paths : node[p] # k)
      ~> (k \notin Known \/ ~registry[k].connected \/ \E p \in Paths : node[p] = k)

(* "Newly-seen devices are auto-connected", and lost ones are retried: once *)
(* the user leaves the daemon alone, a Wiimote that stays on and is not    *)
(* disabled is connected again and again, whatever late DeviceLost of its  *)
(* earlier sessions the new ones have to survive.                          *)
AutoConnects ==
  \A d \in Devices :
    /\ OutsideWorldHelps
    /\ <>[][~HandleCommand]_vars
    /\ <>[](/\ \E p \in Paths : node[p] = d
            /\ d \in Known => ~registry[d].user_disabled)
    => []<>(d \in Known /\ registry[d].connected)

=============================================================================
