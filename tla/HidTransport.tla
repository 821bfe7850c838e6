----------------------------- MODULE HidTransport -----------------------------
(***************************************************************************)
(* crates/wiimote-transport/src/hid.rs in detail: the write channel of     *)
(* each handle and io_loop, which drains it, reads for at most 50 ms and   *)
(* counts the reads that time out.  It implements HidSessions, on which    *)
(* the daemon's modules are built.                                         *)
(*                                                                         *)
(* A write may fail; the thread ignores that, so a payload has left the    *)
(* channel once it was tried.  Payloads are all alike here.                *)
(***************************************************************************)
EXTENDS Identifiers, Sequences

CONSTANTS
  Home,          \* Home[d]: the paths at which device d may appear
  IdleDeadline,  \* IDLE_DEADLINE, 40 in the code
  MaxThreads,    \* bound: I/O threads of one path alive at the same time
  MaxQueue,      \* bound: undelivered transport events
  MaxWrites      \* bound: writes a thread has not yet drained

ASSUME TransportConstants ==
  /\ Home \in [Devices -> SUBSET Paths]
  /\ {IdleDeadline, MaxThreads, MaxQueue, MaxWrites} \subseteq Nat \ {0}

VARIABLES
  node,    \* node[p]: the device whose HID node is at path p
  handle,  \* handle[p]: the thread of the open handle of p, 0 when closed
  pc,      \* pc[p][g]: where thread g of path p is in io_loop
  link,    \* link[p][g]: the device that its HidDevice reaches
  idle,    \* idle[p][g]: idle_timeouts
  writes,  \* writes[p][g]: the length of its write channel
  events,  \* transport_rx
  late     \* late[p][g]: history, the reports it posted after its handle was closed

threadVars == <<pc, link, idle, writes, late>>
transportVars == <<node, handle, threadVars, events>>

Gens == 1..MaxThreads

(* A link that is gone: reads fail or, on Windows, just time out.          *)
LinkDown == "link down"

Event == [type: {"Report", "DeviceLost"}, path: Paths, from: Devices \cup {None}]

(* Every variable holds a value of its type; in particular no count of     *)
(* timeouts passes the deadline.                                           *)
TransportTypeOK ==
  /\ node \in [Paths -> Devices \cup {None}]
  /\ handle \in [Paths -> 0..MaxThreads]
  /\ pc \in [Paths -> [Gens -> {"drain", "read", "ended"}]]
  /\ link \in [Paths -> [Gens -> Devices \cup {LinkDown}]]
  /\ idle \in [Paths -> [Gens -> 0..(IdleDeadline - 1)]]
  /\ writes \in [Paths -> [Gens -> 0..MaxWrites]]
  /\ events \in Seq(Event)
  /\ late \in [Paths -> [Gens -> Nat]]

ForAllThreads(value) == [p \in Paths |-> [g \in Gens |-> value]]

TransportInit ==
  /\ node = [p \in Paths |-> None]
  /\ handle = [p \in Paths |-> 0]
  /\ pc = ForAllThreads("ended")
  /\ link = ForAllThreads(LinkDown)
  /\ idle = ForAllThreads(0)
  /\ writes = ForAllThreads(0)
  /\ events = <<>>
  /\ late = ForAllThreads(0)

Running(p, g) == pc[p][g] # "ended"

(* The writer of a closed handle is dropped: its channel is disconnected   *)
(* once it is empty.                                                       *)
Closed(p, g) == handle[p] # g

-----------------------------------------------------------------------------
(* The daemon's calls.                                                     *)

(* Of the threads that have returned, one that no handle names serves the  *)
(* new handle; the lowest, to keep the instances small.                    *)
FreeGens(p) == {g \in Gens : ~Running(p, g) /\ Closed(p, g)}

Open(p) ==
  /\ handle[p] = 0
  /\ node[p] # None
  /\ \E g \in FreeGens(p) :
       /\ \A h \in FreeGens(p) : g <= h
       /\ handle' = [handle EXCEPT ![p] = g]
       /\ pc' = [pc EXCEPT ![p][g] = "drain"]
       /\ link' = [link EXCEPT ![p][g] = node[p]]
       /\ idle' = [idle EXCEPT ![p][g] = 0]
       /\ writes' = [writes EXCEPT ![p][g] = 0]
       /\ late' = [late EXCEPT ![p][g] = 0]
  /\ UNCHANGED <<node, events>>

Close(p) ==
  /\ handle' = [handle EXCEPT ![p] = 0]
  /\ UNCHANGED <<node, events, threadVars>>

(* `send` to a handle whose thread has returned is an error no one sees.   *)
Send(p) ==
  /\ handle[p] # 0
  /\ Running(p, handle[p])
  /\ writes[p][handle[p]] < MaxWrites
  /\ writes' = [writes EXCEPT ![p][handle[p]] = @ + 1]
  /\ UNCHANGED <<node, handle, pc, link, idle, events, late>>

Receive ==
  /\ events # <<>>
  /\ events' = Tail(events)
  /\ UNCHANGED <<node, handle, threadVars>>

-----------------------------------------------------------------------------
(* io_loop.                                                                *)

Post(event) ==
  /\ Len(events) < MaxQueue
  /\ events' = Append(events, event)

(* Mutant: a way out that tells no one.                                    *)
ReturnSilently(p, g) ==
  /\ pc' = [pc EXCEPT ![p][g] = "ended"]
  /\ UNCHANGED <<node, handle, link, idle, writes, events, late>>

(* Every way out posts one DeviceLost; the rest of the channel is dropped. *)
Return(p, g) ==
  /\ Post([type |-> "DeviceLost", path |-> p, from |-> None])
  /\ pc' = [pc EXCEPT ![p][g] = "ended"]
  /\ UNCHANGED <<node, handle, link, idle, writes, late>>

Drain(p, g) ==
  /\ pc[p][g] = "drain"
  /\ writes[p][g] > 0
  /\ writes' = [writes EXCEPT ![p][g] = @ - 1]
  /\ UNCHANGED <<node, handle, pc, link, idle, events, late>>

(* Mutant: a disconnected channel looks like an empty one.                 *)
DrainEmptyIfEver(p, g) ==
  /\ pc[p][g] = "drain"
  /\ writes[p][g] = 0
  /\ pc' = [pc EXCEPT ![p][g] = "read"]
  /\ UNCHANGED <<node, handle, link, idle, writes, events, late>>

DrainEmpty(p, g) ==
  /\ pc[p][g] = "drain"
  /\ writes[p][g] = 0
  /\ ~Closed(p, g)
  /\ pc' = [pc EXCEPT ![p][g] = "read"]
  /\ UNCHANGED <<node, handle, link, idle, writes, events, late>>

DrainDisconnected(p, g) ==
  /\ pc[p][g] = "drain"
  /\ writes[p][g] = 0
  /\ Closed(p, g)
  /\ Return(p, g)

(* Mutants: one read too many; a counter that stops short of the deadline. *)
ReadTimesOutPastDeadline(p, g) ==
  /\ pc[p][g] = "read"
  /\ idle[p][g] < IdleDeadline
  /\ idle' = [idle EXCEPT ![p][g] = @ + 1]
  /\ pc' = [pc EXCEPT ![p][g] = "drain"]
  /\ UNCHANGED <<node, handle, link, writes, events, late>>
ReadTimesOutForEver(p, g) ==
  /\ pc[p][g] = "read"
  /\ idle' = [idle EXCEPT ![p][g] = IF @ + 1 < IdleDeadline THEN @ + 1 ELSE @]
  /\ pc' = [pc EXCEPT ![p][g] = "drain"]
  /\ UNCHANGED <<node, handle, link, writes, events, late>>

ReadTimesOut(p, g) ==
  /\ pc[p][g] = "read"
  /\ idle[p][g] + 1 < IdleDeadline
  /\ idle' = [idle EXCEPT ![p][g] = @ + 1]
  /\ pc' = [pc EXCEPT ![p][g] = "drain"]
  /\ UNCHANGED <<node, handle, link, writes, events, late>>

ReadDeadline(p, g) ==
  /\ pc[p][g] = "read"
  /\ idle[p][g] + 1 >= IdleDeadline
  /\ Return(p, g)

ReadFails(p, g) == pc[p][g] = "read" /\ Return(p, g)

ReadReport(p, g) ==
  /\ pc[p][g] = "read"
  /\ link[p][g] \in Devices
  /\ Post([type |-> "Report", path |-> p, from |-> link[p][g]])
  /\ idle' = [idle EXCEPT ![p][g] = 0]
  /\ pc' = [pc EXCEPT ![p][g] = "drain"]
  /\ late' = [late EXCEPT ![p][g] = IF Closed(p, g) THEN @ + 1 ELSE @]
  /\ UNCHANGED <<node, handle, link, writes>>

(* A report that parse_input rejects shows life, but no one hears of it.   *)
ReadUnparsed(p, g) ==
  /\ pc[p][g] = "read"
  /\ link[p][g] \in Devices
  /\ idle' = [idle EXCEPT ![p][g] = 0]
  /\ pc' = [pc EXCEPT ![p][g] = "drain"]
  /\ UNCHANGED <<node, handle, link, writes, events, late>>

(* The steps a thread always can take, whatever the device does.           *)
ThreadStep(p, g) ==
  \/ Drain(p, g)
  \/ DrainEmpty(p, g)
  \/ DrainDisconnected(p, g)
  \/ ReadTimesOut(p, g)
  \/ ReadDeadline(p, g)

-----------------------------------------------------------------------------
(* The operating system's HID nodes, and the links opened on them.         *)

NodeAppears(d, p) ==
  /\ p \in Home[d]
  /\ node[p] = None
  /\ \A q \in Paths : node[q] # d
  /\ node' = [node EXCEPT ![p] = d]
  /\ UNCHANGED <<handle, threadVars, events>>

NodeVanishes(p) ==
  /\ node[p] # None
  /\ node' = [node EXCEPT ![p] = None]
  /\ link' = [link EXCEPT ![p] = [g \in Gens |-> LinkDown]]
  /\ UNCHANGED <<handle, pc, idle, writes, events, late>>

TransportNext ==
  \/ Receive
  \/ \E p \in Paths :
       \/ Open(p)
       \/ Close(p)
       \/ Send(p)
       \/ NodeVanishes(p)
       \/ \E d \in Devices : NodeAppears(d, p)
       \/ \E g \in Gens :
            \/ ThreadStep(p, g)
            \/ ReadFails(p, g)
            \/ ReadReport(p, g)
            \/ ReadUnparsed(p, g)

TransportSpec == TransportInit /\ [][TransportNext]_transportVars

-----------------------------------------------------------------------------
(* The abstraction: where a thread is in its loop, its count of timeouts   *)
(* and its writes are hidden.                                              *)

IoView == [p \in Paths |-> [g \in Gens |->
             IF Running(p, g) THEN link[p][g] ELSE "ended"]]

Sessions == INSTANCE HidSessions WITH io <- IoView

(* The transport behaves as the daemon's modules assume: a thread posts    *)
(* reports of the device it was opened on while the link is up, then one   *)
(* DeviceLost and nothing more, and a closed path can be opened again      *)
(* while its old thread runs.                                              *)
ImplementsSessions == Sessions!SessionSpec

(* Closing is prompt: a thread posts at most the one report its read was   *)
(* waiting for when the handle was closed, so that no more than that can   *)
(* reach the next session of the path.                                     *)
AtMostOneLateReport == \A p \in Paths, g \in Gens : late[p][g] <= 1

(* The scheduler runs every thread, and the daemon's loop takes events.    *)
(* Threads are strongly fair because the bounded queue, which the code     *)
(* does not have, may refuse an event, and so that one which finds its     *)
(* channel empty again and again gets past it.                             *)
TransportFairSpec ==
  /\ TransportSpec
  /\ WF_transportVars(Receive)
  /\ \A p \in Paths, g \in Gens :
       /\ WF_transportVars(Drain(p, g))
       /\ SF_transportVars(DrainEmpty(p, g))
       /\ SF_transportVars(DrainDisconnected(p, g))
       /\ SF_transportVars(ReadTimesOut(p, g) \/ ReadDeadline(p, g) \/ ReadFails(p, g)
                             \/ ReadReport(p, g) \/ ReadUnparsed(p, g))

(* Nothing bounds the writes the inner loop drains before it reads; but    *)
(* the daemon makes some ten a second, and each takes milliseconds.        *)
DrainsKeepUp(p, g) == []<>(writes[p][g] = 0)

(* "If we go this many consecutive 50 ms read-timeouts without any data,   *)
(* treat the device as offline": a thread whose device is gone returns     *)
(* even if no read ever fails, and so does a thread whose handle was       *)
(* closed, whatever its device still sends.                                *)
UselessThreadsEnd ==
  \A p \in Paths, g \in Gens :
    DrainsKeepUp(p, g) =>
      ((Running(p, g) /\ (link[p][g] = LinkDown \/ Closed(p, g))) ~> ~Running(p, g))

=============================================================================
