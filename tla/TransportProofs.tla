---------------------------- MODULE TransportProofs ----------------------------
(***************************************************************************)
(* The I/O threads of hid.rs implement the sessions the daemon is built    *)
(* on, for any number of Wiimotes, paths and threads and any deadline.     *)
(***************************************************************************)
EXTENDS HidTransport, SequenceTheorems, TLAPS

-----------------------------------------------------------------------------
(* Types.                                                                  *)

(* Appending an event to the channel keeps its type.                       *)
LEMMA PostTypes ==
  ASSUME events \in Seq(Event), NEW event \in Event, Post(event)
  PROVE  events' \in Seq(Event)
BY AppendProperties DEF Post

(* A thread that returns leaves every variable well typed.                 *)
LEMMA ReturnTypes ==
  ASSUME TransportTypeOK, NEW p \in Paths, NEW g \in Gens, Return(p, g)
  PROVE  TransportTypeOK'
<1>1. [type |-> "DeviceLost", path |-> p, from |-> None] \in Event
  BY DEF Event
<1>2. events' \in Seq(Event)
  BY <1>1, PostTypes DEF Return, TransportTypeOK
<1> QED
  BY <1>2 DEF Return, TransportTypeOK

(* The variables of the transport keep their types; idle_timeouts never    *)
(* reaches the deadline while the thread goes on.                          *)
THEOREM TransportTypes == TransportSpec => []TransportTypeOK
<1>1. TransportInit => TransportTypeOK
  BY TransportConstants DEF TransportInit, TransportTypeOK, ForAllThreads, Gens
<1>2. TransportTypeOK /\ [TransportNext]_transportVars => TransportTypeOK'
  <2> SUFFICES ASSUME TransportTypeOK, [TransportNext]_transportVars
               PROVE  TransportTypeOK'
    OBVIOUS
  <2> USE DEF threadVars
  <2>1. CASE UNCHANGED transportVars
    BY <2>1 DEF transportVars, TransportTypeOK
  <2>2. CASE Receive
    BY <2>2, HeadTailProperties DEF Receive, TransportTypeOK
  <2>3. ASSUME NEW p \in Paths, Open(p)
        PROVE  TransportTypeOK'
    <3>1. PICK g \in FreeGens(p) :
            /\ handle' = [handle EXCEPT ![p] = g]
            /\ pc' = [pc EXCEPT ![p][g] = "drain"]
            /\ link' = [link EXCEPT ![p][g] = node[p]]
            /\ idle' = [idle EXCEPT ![p][g] = 0]
            /\ writes' = [writes EXCEPT ![p][g] = 0]
            /\ late' = [late EXCEPT ![p][g] = 0]
      BY <2>3 DEF Open
    <3>2. g \in Gens /\ g \in 0..MaxThreads /\ node[p] \in Devices
      BY <2>3, TransportConstants DEF FreeGens, Gens, Open, TransportTypeOK
    <3> QED
      BY <2>3, <3>1, <3>2, TransportConstants DEF Open, TransportTypeOK
  <2>4. ASSUME NEW p \in Paths, Close(p) \/ Send(p) \/ NodeVanishes(p)
        PROVE  TransportTypeOK'
    <3>1. CASE Close(p)
      BY <3>1, TransportConstants DEF Close, TransportTypeOK
    <3>2. CASE Send(p)
      <4>1. handle[p] \in Gens /\ writes[p][handle[p]] + 1 \in 0..MaxWrites
        BY <3>2, TransportConstants DEF Send, Gens, TransportTypeOK
      <4> QED
        BY <3>2, <4>1 DEF Send, TransportTypeOK
    <3>3. CASE NodeVanishes(p)
      BY <3>3 DEF NodeVanishes, TransportTypeOK
    <3> QED
      BY <2>4, <3>1, <3>2, <3>3
  <2>5. ASSUME NEW p \in Paths, NEW d \in Devices, NodeAppears(d, p)
        PROVE  TransportTypeOK'
    BY <2>5 DEF NodeAppears, TransportTypeOK
  <2>6. ASSUME NEW p \in Paths, NEW g \in Gens,
               ThreadStep(p, g) \/ ReadFails(p, g) \/ ReadUnparsed(p, g)
        PROVE  TransportTypeOK'
    <3>1. CASE Return(p, g)
      BY <3>1, ReturnTypes
    <3>2. CASE Drain(p, g)
      BY <3>2, TransportConstants DEF Drain, TransportTypeOK
    <3>3. CASE DrainEmpty(p, g)
      BY <3>3 DEF DrainEmpty, TransportTypeOK
    <3>4. CASE ReadTimesOut(p, g)
      <4>1. idle[p][g] + 1 \in 0..(IdleDeadline - 1)
        BY <3>4, TransportConstants DEF ReadTimesOut, TransportTypeOK
      <4> QED
        BY <3>4, <4>1 DEF ReadTimesOut, TransportTypeOK
    <3>5. CASE ReadUnparsed(p, g)
      BY <3>5, TransportConstants DEF ReadUnparsed, TransportTypeOK
    <3> QED
      BY <2>6, <3>1, <3>2, <3>3, <3>4, <3>5
      DEF ThreadStep, DrainDisconnected, ReadDeadline, ReadFails
  <2>7. ASSUME NEW p \in Paths, NEW g \in Gens, ReadReport(p, g)
        PROVE  TransportTypeOK'
    <3>1. [type |-> "Report", path |-> p, from |-> link[p][g]] \in Event
      BY <2>7 DEF Event, ReadReport
    <3>2. events' \in Seq(Event)
      BY <2>7, <3>1, PostTypes DEF ReadReport, TransportTypeOK
    <3>3. late[p][g] \in Nat
      BY DEF TransportTypeOK
    <3> QED
      BY <2>7, <3>2, <3>3, TransportConstants DEF ReadReport, TransportTypeOK
  <2> QED
    BY <2>1, <2>2, <2>3, <2>4, <2>5, <2>6, <2>7 DEF TransportNext
<1> QED
  BY <1>1, <1>2, PTL DEF TransportSpec

-----------------------------------------------------------------------------
(* Late reports.                                                           *)

(* The inductive invariant: a thread that has posted a report after its    *)
(* handle was closed is about to drain its channel, finds it disconnected  *)
(* there and never reads again.  Its handle stays closed, because a path   *)
(* is only opened again with a thread that has returned.                   *)
LateInv ==
  \A p \in Paths, g \in Gens :
    /\ late[p][g] <= 1
    /\ late[p][g] # 0 /\ Running(p, g) => Closed(p, g) /\ pc[p][g] = "drain"

(* At most one report of a closed handle is posted, however many threads   *)
(* and paths there are and however the steps interleave.                   *)
THEOREM LateReportsAreBounded == TransportSpec => []AtMostOneLateReport
<1>1. TransportInit => LateInv
  BY DEF TransportInit, LateInv, ForAllThreads, Running
<1>2. TransportTypeOK /\ LateInv /\ [TransportNext]_transportVars => LateInv'
  <2> SUFFICES ASSUME TransportTypeOK, LateInv, [TransportNext]_transportVars,
                      NEW q \in Paths, NEW h \in Gens
               PROVE  /\ late'[q][h] <= 1
                      /\ late'[q][h] # 0 /\ pc'[q][h] # "ended" =>
                           handle'[q] # h /\ pc'[q][h] = "drain"
    BY DEF LateInv, Running, Closed
  <2>0. /\ late[q][h] <= 1
        /\ late[q][h] # 0 /\ pc[q][h] # "ended" => handle[q] # h /\ pc[q][h] = "drain"
    BY DEF LateInv, Running, Closed
  <2> USE DEF threadVars, TransportTypeOK
  <2>1. CASE UNCHANGED transportVars \/ Receive
    BY <2>0, <2>1 DEF transportVars, Receive
  <2>2. ASSUME NEW p \in Paths, Open(p)
        PROVE  /\ late'[q][h] <= 1
               /\ late'[q][h] # 0 /\ pc'[q][h] # "ended" =>
                    handle'[q] # h /\ pc'[q][h] = "drain"
    <3>1. PICK g \in FreeGens(p) :
            /\ handle' = [handle EXCEPT ![p] = g]
            /\ pc' = [pc EXCEPT ![p][g] = "drain"]
            /\ late' = [late EXCEPT ![p][g] = 0]
      BY <2>2 DEF Open
    <3>2. g \in Gens /\ pc[p][g] = "ended"
      BY DEF FreeGens, Running
    <3> QED
      BY <2>0, <3>1, <3>2
  <2>3. ASSUME NEW p \in Paths,
               \/ Close(p) \/ Send(p) \/ NodeVanishes(p)
               \/ \E d \in Devices : NodeAppears(d, p)
        PROVE  late' = late /\ pc' = pc /\ (handle'[q] = h => handle[q] = h)
    BY <2>3 DEF Close, Send, NodeVanishes, NodeAppears, Gens
  <2>4. ASSUME NEW p \in Paths, NEW g \in Gens,
               ThreadStep(p, g) \/ ReadFails(p, g) \/ ReadReport(p, g) \/ ReadUnparsed(p, g)
        PROVE  /\ late'[q][h] <= 1
               /\ late'[q][h] # 0 /\ pc'[q][h] # "ended" =>
                    handle'[q] # h /\ pc'[q][h] = "drain"
    <3>1. handle' = handle
      BY <2>4 DEF ThreadStep, Drain, DrainEmpty, DrainDisconnected, ReadTimesOut,
                  ReadDeadline, ReadFails, ReadReport, ReadUnparsed, Return
    <3>2. CASE Return(p, g)
      BY <2>0, <3>2 DEF Return
    <3>3. CASE Drain(p, g)
      BY <2>0, <3>3 DEF Drain
    <3>4. CASE DrainEmpty(p, g)
      <4>1. late' = late /\ handle[p] = g /\ pc' = [pc EXCEPT ![p][g] = "read"]
        BY <3>4 DEF DrainEmpty, Closed
      <4>2. pc'[q][h] = IF p = q /\ g = h THEN "read" ELSE pc[q][h]
        BY <4>1
      <4> QED
        BY <2>0, <3>1, <3>4, <4>1, <4>2 DEF DrainEmpty
    <3>5. CASE ReadTimesOut(p, g) \/ ReadUnparsed(p, g)
      <4>1. /\ late' = late
            /\ pc[p][g] = "read"
            /\ pc' = [pc EXCEPT ![p][g] = "drain"]
        BY <3>5 DEF ReadTimesOut, ReadUnparsed
      <4>2. pc'[q][h] = IF p = q /\ g = h THEN "drain" ELSE pc[q][h]
        BY <4>1
      <4> QED
        BY <2>0, <3>1, <4>1, <4>2
    <3>6. CASE ReadReport(p, g)
      <4>1. /\ pc[p][g] = "read"
            /\ pc' = [pc EXCEPT ![p][g] = "drain"]
            /\ late' = [late EXCEPT ![p][g] = IF Closed(p, g) THEN @ + 1 ELSE @]
        BY <3>6 DEF ReadReport
      <4>2. late[p][g] = 0
        BY <4>1 DEF LateInv, Running
      <4> QED
        BY <2>0, <3>1, <4>1, <4>2 DEF Closed
    <3> QED
      BY <2>4, <3>2, <3>3, <3>4, <3>5, <3>6
      DEF ThreadStep, DrainDisconnected, ReadDeadline, ReadFails
  <2> QED
    BY <2>0, <2>1, <2>2, <2>3, <2>4 DEF TransportNext
<1>3. LateInv => AtMostOneLateReport
  BY DEF LateInv, AtMostOneLateReport
<1> QED
  BY <1>1, <1>2, <1>3, TransportTypes, PTL DEF TransportSpec

-----------------------------------------------------------------------------
(* The refinement.  IoView hides where a thread is in its loop, its count  *)
(* of timeouts and its writes.                                             *)

(* The view shows which threads have returned.                             *)
LEMMA ViewShowsEnd ==
  ASSUME TransportTypeOK, NEW p \in Paths, NEW g \in Gens
  PROVE  IoView[p][g] # "ended" <=> Running(p, g)
<1>1. "ended" \notin Devices
  BY DistinctNames
<1>2. link[p][g] \in Devices \cup {"link down"}
  BY DEF TransportTypeOK, LinkDown
<1>3. link[p][g] # "ended"
  BY <1>1, <1>2
<1> QED
  BY <1>3 DEF IoView, Running

(* Steps within the loop do not show.                                      *)
LEMMA LoopStepsAreHidden ==
  ASSUME TransportTypeOK, NEW p \in Paths, NEW g \in Gens, NEW at \in {"drain", "read"},
         Running(p, g),
         pc' = [pc EXCEPT ![p][g] = at], link' = link
  PROVE  IoView' = IoView
<1>1. ASSUME NEW q \in Paths, NEW h \in Gens
      PROVE  (pc'[q][h] # "ended") = (pc[q][h] # "ended")
  BY DEF TransportTypeOK, Running
<1> QED
  BY <1>1 DEF IoView, Running

(* A thread that returns is a session's thread that ends.                  *)
LEMMA ReturnEndsThread ==
  ASSUME TransportTypeOK, NEW p \in Paths, NEW g \in Gens, Running(p, g), Return(p, g)
  PROVE  Sessions!IoEnd(p, g)
<1>1. IoView[p][g] # "ended"
  BY ViewShowsEnd
<1>2. \A q \in Paths, h \in Gens :
        pc'[q][h] = IF q = p /\ h = g THEN "ended" ELSE pc[q][h]
  BY DEF Return, TransportTypeOK
<1>3. IoView' = [IoView EXCEPT ![p][g] = "ended"]
  <2>1. \A q \in Paths, h \in Gens :
          IoView'[q][h] = IF q = p /\ h = g THEN "ended" ELSE IoView[q][h]
    BY <1>2 DEF IoView, Running, Return
  <2>2. \A q \in Paths, h \in Gens :
          [IoView EXCEPT ![p][g] = "ended"][q][h] =
            IF q = p /\ h = g THEN "ended" ELSE IoView[q][h]
    BY DEF IoView
  <2>3. \A q \in Paths :
          IoView'[q] = [IoView EXCEPT ![p][g] = "ended"][q]
    BY <2>1, <2>2 DEF IoView
  <2> QED
    BY <2>3 DEF IoView
<1> QED
  BY <1>1, <1>3 DEF Sessions!IoEnd, Sessions!Running, Sessions!Ended, Sessions!DeviceLost,
                    Return, Post

(* A path that is opened gets the least thread that is free.               *)
LEMMA OpenOpensSession ==
  ASSUME TransportTypeOK, NEW p \in Paths, Open(p)
  PROVE  Sessions!MayOpen(p) /\ Sessions!OpenAll({p}) /\ UNCHANGED <<node, events>>
<1>1. PICK g \in FreeGens(p) :
        /\ \A h \in FreeGens(p) : g <= h
        /\ handle' = [handle EXCEPT ![p] = g]
        /\ pc' = [pc EXCEPT ![p][g] = "drain"]
        /\ link' = [link EXCEPT ![p][g] = node[p]]
  BY DEF Open
<1>2. handle[p] = 0 /\ node[p] # None /\ g \in Gens /\ pc[p][g] = "ended"
  BY DEF Open, FreeGens, Running
<1>3. FreeGens(p) = Sessions!FreeGens(p)
  <2>1. \A h \in Gens : Running(p, h) <=> IoView[p][h] # "ended"
    BY ViewShowsEnd
  <2> QED
    BY <2>1 DEF FreeGens, Closed, Sessions!FreeGens, Sessions!Running, Sessions!Ended,
                Sessions!Gens, Gens
<1>4. g = CHOOSE h \in FreeGens(p) : \A k \in FreeGens(p) : h <= k
  <2>1. FreeGens(p) \subseteq Nat
    BY TransportConstants DEF FreeGens, Gens
  <2> QED
    BY <1>1, <2>1
<1>5. Sessions!OpenedHandles({p}) = [handle EXCEPT ![p] = g]
  <2>1. \A q \in Paths :
          q \in {p} /\ ~Sessions!AlreadyOpen(q) <=> q = p
    BY <1>2 DEF Sessions!AlreadyOpen
  <2>2. Sessions!OpenedHandles({p})[p] = g
    BY <1>3, <1>4, <2>1 DEF Sessions!OpenedHandles
  <2>3. \A q \in Paths \ {p} : Sessions!OpenedHandles({p})[q] = handle[q]
    BY DEF Sessions!OpenedHandles
  <2>4. Sessions!OpenedHandles({p}) = [q \in Paths |-> Sessions!OpenedHandles({p})[q]]
    BY DEF Sessions!OpenedHandles
  <2> QED
    BY <2>2, <2>3, <2>4 DEF TransportTypeOK
<1>6. IoView' = Sessions!OpenedThreads({p})
  <2>1. \A q \in Paths, h \in Gens :
          /\ pc'[q][h] = IF q = p /\ h = g THEN "drain" ELSE pc[q][h]
          /\ link'[q][h] = IF q = p /\ h = g THEN node[p] ELSE link[q][h]
    BY <1>1, <1>2 DEF TransportTypeOK
  <2>2. \A q \in Paths, h \in Gens :
          IoView'[q][h] = IF q = p /\ h = g THEN node[p] ELSE IoView[q][h]
    BY <2>1 DEF IoView, Running
  <2>3. \A q \in Paths, h \in Gens :
          (q \in {p} /\ ~Sessions!AlreadyOpen(q) /\ Sessions!OpenedHandles({p})[q] = h)
            <=> (q = p /\ h = g)
    BY <1>2, <1>5 DEF Sessions!AlreadyOpen, TransportTypeOK
  <2> QED
    BY <2>2, <2>3 DEF IoView, Sessions!OpenedThreads, Sessions!Gens, Gens
<1>7. Sessions!MayOpen(p)
  BY <1>1, <1>2, <1>3 DEF Sessions!MayOpen
<1> QED
  BY <1>1, <1>5, <1>6, <1>7 DEF Sessions!OpenAll, Open

(* A node that goes away takes the links of the threads that run on it.    *)
LEMMA VanishingCutsLinks ==
  ASSUME TransportTypeOK, NEW p \in Paths, NodeVanishes(p)
  PROVE  Sessions!NodeVanishes(p)
<1>1. \A q \in Paths, h \in Gens :
        IoView'[q][h] = IF q = p /\ pc[q][h] # "ended" THEN LinkDown ELSE IoView[q][h]
  BY DEF NodeVanishes, IoView, Running, TransportTypeOK
<1>2. \A h \in Gens : IoView[p][h] # "ended" <=> pc[p][h] # "ended"
  BY ViewShowsEnd DEF Running
<1>3. IoView' = [IoView EXCEPT ![p] =
                   [g \in Gens |-> IF IoView[p][g] # "ended" THEN LinkDown ELSE "ended"]]
  <2>1. \A q \in Paths, h \in Gens :
          [IoView EXCEPT ![p] =
             [g \in Gens |-> IF IoView[p][g] # "ended" THEN LinkDown ELSE "ended"]][q][h]
          = IF q = p THEN (IF IoView[p][h] # "ended" THEN LinkDown ELSE "ended")
            ELSE IoView[q][h]
    BY DEF IoView
  <2>2. \A q \in Paths :
          IoView'[q] =
            [IoView EXCEPT ![p] =
               [g \in Gens |-> IF IoView[p][g] # "ended" THEN LinkDown ELSE "ended"]][q]
    <3>1. ASSUME NEW q \in Paths, NEW h \in Gens
          PROVE  IoView'[q][h] =
                   IF q = p THEN (IF IoView[p][h] # "ended" THEN LinkDown ELSE "ended")
                   ELSE IoView[q][h]
      BY <1>1, <1>2
    <3> QED
      BY <2>1, <3>1 DEF IoView
  <2> QED
    BY <2>2 DEF IoView
<1> QED
  BY <1>3 DEF NodeVanishes, Sessions!NodeVanishes, Sessions!Running, Sessions!Ended,
              Sessions!LinkDown, Sessions!Gens, Gens, LinkDown

(* The transport implements the sessions on which the daemon's proofs and  *)
(* runs rest.                                                              *)
THEOREM TransportImplementsSessions == TransportSpec => ImplementsSessions
<1>1. TransportInit => Sessions!SessionInit
  BY DEF TransportInit, ForAllThreads, Running, IoView, Sessions!SessionInit, Sessions!Ended,
         Sessions!Gens, Gens
<1>2. TransportTypeOK /\ [TransportNext]_transportVars
        => [Sessions!SessionNext]_(Sessions!sessionVars)
  <2> SUFFICES ASSUME TransportTypeOK, [TransportNext]_transportVars
               PROVE  Sessions!SessionNext \/ UNCHANGED <<node, handle, IoView, events>>
    BY DEF Sessions!sessionVars
  <2> USE DEF threadVars
  <2>1. CASE UNCHANGED transportVars
    BY <2>1 DEF transportVars, IoView, Running
  <2>2. CASE Receive
    <3>1. IoView' = IoView
      BY <2>2 DEF Receive, IoView, Running
    <3> QED
      BY <2>2, <3>1 DEF Receive, Sessions!SessionNext, Sessions!UserNext
  <2>3. ASSUME NEW p \in Paths, Open(p)
        PROVE  Sessions!SessionNext
    BY <2>3, OpenOpensSession DEF Sessions!SessionNext, Sessions!UserNext
  <2>4. ASSUME NEW p \in Paths, Close(p)
        PROVE  Sessions!SessionNext
    <3>1. IoView' = IoView
      BY <2>4 DEF Close, IoView, Running
    <3> QED
      BY <2>4, <3>1 DEF Close, Sessions!SessionNext, Sessions!UserNext, Sessions!Close
  <2>5. ASSUME NEW p \in Paths, Send(p)
        PROVE  UNCHANGED <<node, handle, IoView, events>>
    BY <2>5 DEF Send, IoView, Running
  <2>6. ASSUME NEW p \in Paths, NodeVanishes(p)
        PROVE  Sessions!SessionNext
    BY <2>6, VanishingCutsLinks DEF Sessions!SessionNext, Sessions!OsNext
  <2>7. ASSUME NEW p \in Paths, NEW d \in Devices, NodeAppears(d, p)
        PROVE  Sessions!SessionNext
    <3>1. IoView' = IoView
      BY <2>7 DEF NodeAppears, IoView, Running
    <3> QED
      BY <2>7, <3>1
      DEF NodeAppears, Sessions!SessionNext, Sessions!OsNext, Sessions!NodeAppears
  <2>8. ASSUME NEW p \in Paths, NEW g \in Gens, ThreadStep(p, g) \/ ReadFails(p, g)
        PROVE  Sessions!SessionNext \/ UNCHANGED <<node, handle, IoView, events>>
    <3>1. CASE Return(p, g) /\ Running(p, g)
      BY <3>1, ReturnEndsThread
      DEF Sessions!SessionNext, Sessions!IoNext, Sessions!Gens, Gens
    <3>2. CASE Drain(p, g)
      BY <3>2 DEF Drain, IoView, Running
    <3>3. CASE DrainEmpty(p, g)
      BY <3>3, LoopStepsAreHidden DEF DrainEmpty, Running
    <3>4. CASE ReadTimesOut(p, g)
      BY <3>4, LoopStepsAreHidden DEF ReadTimesOut, Running
    <3> QED
      BY <2>8, <3>1, <3>2, <3>3, <3>4
      DEF ThreadStep, DrainDisconnected, ReadDeadline, ReadFails, Running
  <2>9. ASSUME NEW p \in Paths, NEW g \in Gens, ReadUnparsed(p, g)
        PROVE  UNCHANGED <<node, handle, IoView, events>>
    BY <2>9, LoopStepsAreHidden DEF ReadUnparsed, Running
  <2>10. ASSUME NEW p \in Paths, NEW g \in Gens, ReadReport(p, g)
         PROVE  Sessions!SessionNext
    <3>1. IoView' = IoView
      BY <2>10, LoopStepsAreHidden DEF ReadReport, Running
    <3>2. IoView[p][g] = link[p][g]
      BY <2>10 DEF ReadReport, IoView, Running
    <3> QED
      BY <2>10, <3>1, <3>2
      DEF ReadReport, Post, Sessions!SessionNext, Sessions!IoNext, Sessions!IoReport,
          Sessions!Report, Sessions!Gens, Gens
  <2> QED
    BY <2>1, <2>2, <2>3, <2>4, <2>5, <2>6, <2>7, <2>8, <2>9, <2>10 DEF TransportNext
<1> QED
  BY <1>1, <1>2, TransportTypes, PTL
  DEF TransportSpec, ImplementsSessions, Sessions!SessionSpec

=============================================================================
