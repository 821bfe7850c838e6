----------------------------- MODULE HidSessions -----------------------------
(***************************************************************************)
(* The HID sessions of crates/wiimote-transport/src/hid.rs as the daemon   *)
(* sees them: the handle map of HidTransport, the I/O threads behind the   *)
(* handles, and the unbounded FIFO channel on which every thread posts     *)
(* TransportEvents.  HidTransport.tla refines this module with the write   *)
(* channels, the idle counter and the read/drain loop.                     *)
(*                                                                         *)
(* Closing a handle only drops its write channel: the thread notices on    *)
(* its next iteration, posts DeviceLost and returns.  In between, the path *)
(* may be opened again, so several threads can exist for one path.         *)
(***************************************************************************)
EXTENDS Identifiers, Sequences

CONSTANTS
  Home,        \* Home[d]: the paths at which device d may appear
  MaxThreads,  \* bound: I/O threads of one path alive at the same time
  MaxQueue     \* bound: undelivered transport events

ASSUME SessionConstants ==
  /\ Home \in [Devices -> SUBSET Paths]
  /\ MaxThreads \in Nat \ {0}
  /\ MaxQueue \in Nat \ {0}

VARIABLES
  node,     \* node[p]: the device whose HID node is at path p (the OS's view)
  handle,   \* handle[p]: the thread of the open handle of p, 0 when closed
  io,       \* io[p][g]: what thread g of path p reads from
  events    \* transport_rx: the events no one has handled yet

sessionVars == <<node, handle, io, events>>

Gens == 1..MaxThreads

(* A thread has returned, or reads a handle whose link is gone, or reads   *)
(* the device that was at the path when it was opened.                     *)
Ended == "ended"
LinkDown == "link down"

Event == [type: {"Report", "DeviceLost"}, path: Paths, from: Devices \cup {None}]

Report(p, d) == [type |-> "Report", path |-> p, from |-> d]
DeviceLost(p) == [type |-> "DeviceLost", path |-> p, from |-> None]

SessionTypeOK ==
  /\ node \in [Paths -> Devices \cup {None}]
  /\ handle \in [Paths -> 0..MaxThreads]
  /\ io \in [Paths -> [Gens -> Devices \cup {LinkDown, Ended}]]
  /\ events \in Seq(Event)

SessionInit ==
  /\ node = [p \in Paths |-> None]
  /\ handle = [p \in Paths |-> 0]
  /\ io = [p \in Paths |-> [g \in Gens |-> Ended]]
  /\ events = <<>>

-----------------------------------------------------------------------------
(* HidTransport::open, ::close and ::enumerate, as the daemon calls them.  *)

Running(p, g) == io[p][g] # Ended

(* The threads that can serve a new handle: returned, and not the dead     *)
(* thread of the handle that is still in the map.                          *)
FreeGens(p) == {g \in Gens : ~Running(p, g) /\ handle[p] # g}

(* `open` is Ok without a system call when the map holds the path, dead    *)
(* thread or not; else the OS must have a node there.                      *)
AlreadyOpen(p) == handle[p] # 0
MayOpen(p) == AlreadyOpen(p) \/ (node[p] # None /\ FreeGens(p) # {})

(* The handle map and the threads after opening every path of ps.          *)
OpenedHandles(ps) ==
  [p \in Paths |->
     IF p \in ps /\ ~AlreadyOpen(p)
       THEN CHOOSE g \in FreeGens(p) : \A h \in FreeGens(p) : g <= h
       ELSE handle[p]]
OpenedThreads(ps) ==
  [p \in Paths |-> [g \in Gens |->
     IF p \in ps /\ ~AlreadyOpen(p) /\ OpenedHandles(ps)[p] = g
       THEN node[p]
       ELSE io[p][g]]]

OpenAll(ps) ==
  /\ handle' = OpenedHandles(ps)
  /\ io' = OpenedThreads(ps)

CloseKeepsHandle(p) == UNCHANGED <<handle, io>>  \* mutant: the entry stays in the map

(* `close` removes the handle; its thread runs on until it looks.          *)
Close(p) ==
  /\ handle' = [handle EXCEPT ![p] = 0]
  /\ UNCHANGED io

-----------------------------------------------------------------------------
(* The I/O threads.                                                        *)

IoReport(p, g) ==
  /\ io[p][g] \in Devices
  /\ Len(events) < MaxQueue
  /\ events' = Append(events, Report(p, io[p][g]))
  /\ UNCHANGED <<node, handle, io>>

(* Mutant: a way out of io_loop that posts nothing.                        *)
IoEndSilent(p, g) ==
  /\ Running(p, g)
  /\ io' = [io EXCEPT ![p][g] = Ended]
  /\ UNCHANGED <<node, handle, events>>

(* The thread returns: its write channel is disconnected, a read failed,   *)
(* or 40 reads in a row timed out.  Each way out posts one DeviceLost.     *)
IoEnd(p, g) ==
  /\ Running(p, g)
  /\ Len(events) < MaxQueue
  /\ events' = Append(events, DeviceLost(p))
  /\ io' = [io EXCEPT ![p][g] = Ended]
  /\ UNCHANGED <<node, handle>>

(* The thread of a closed handle or of a vanished node cannot stay.        *)
MustEnd(p, g) == handle[p] # g \/ io[p][g] = LinkDown
IoMustEnd(p, g) == MustEnd(p, g) /\ IoEnd(p, g)

-----------------------------------------------------------------------------
(* The operating system: a powered-on Wiimote gets a HID node, a node goes *)
(* away and takes the link of every handle opened on it.                   *)

NodeAppears(d, p) ==
  /\ p \in Home[d]
  /\ node[p] = None
  /\ \A q \in Paths : node[q] # d
  /\ node' = [node EXCEPT ![p] = d]
  /\ UNCHANGED <<handle, io, events>>

NodeVanishes(p) ==
  /\ node[p] # None
  /\ node' = [node EXCEPT ![p] = None]
  /\ io' = [io EXCEPT ![p] = [g \in Gens |->
              IF Running(p, g) THEN LinkDown ELSE Ended]]
  /\ UNCHANGED <<handle, events>>

-----------------------------------------------------------------------------
IoNext == \E p \in Paths, g \in Gens : IoReport(p, g) \/ IoEnd(p, g)

OsNext ==
  \/ \E d \in Devices, p \in Paths : NodeAppears(d, p)
  \/ \E p \in Paths : NodeVanishes(p)

(* What any user of the transport may do with it: DaemonCore says when.    *)
UserNext ==
  \/ \E p \in Paths : MayOpen(p) /\ OpenAll({p}) /\ UNCHANGED <<node, events>>
  \/ \E p \in Paths : Close(p) /\ UNCHANGED <<node, events>>
  \/ events # <<>> /\ events' = Tail(events) /\ UNCHANGED <<node, handle, io>>

SessionNext == UserNext \/ IoNext \/ OsNext

SessionSpec == SessionInit /\ [][SessionNext]_sessionVars

=============================================================================
