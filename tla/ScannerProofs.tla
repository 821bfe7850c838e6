----------------------------- MODULE ScannerProofs -----------------------------
(***************************************************************************)
(* The scan threads of Linux and Windows are well behaved, and keep the    *)
(* contract of platform/mod.rs, for any number of Wiimotes and platforms.  *)
(***************************************************************************)
EXTENDS Scanners, SequenceTheorems, TLAPS

-----------------------------------------------------------------------------
(* The inductive invariant: types, a Wiimote at hand wherever the thread   *)
(* handles one, the active set of the Linux helper, and the order in which *)
(* a Windows attempt ends.                                                 *)

HandlesSomebody == pc \in {"pairing", "connecting"} => cur \in Records

HookIsHeld ==
  /\ callback # "idle" => hook
  /\ hook => os = "windows" /\ pc = "pairing" /\ context = "active"
  /\ context = "poisoned" => result \in AuthResults

ScannersInv ==
  /\ ScannersTypeOK
  /\ HandlesSomebody
  /\ PinSetIsOwnPair
  /\ HookIsHeld

NewsTypes == {"Pairing", "Paired", "HidEnabled", "SdpCacheStale", "AuthStuck"}

(* The events a scanner sends are the contract's.                          *)
LEMMA EventTypes ==
  ASSUME NEW a \in Wiimotes
  PROVE  /\ \A type \in NewsTypes :
              Contract!Event(type, AddressToU64(a)) \in Contract!ScannerEvent
         /\ \A reason \in AllReasons :
              Contract!PairFailed(AddressToU64(a), reason) \in Contract!ScannerEvent
<1>1. AddressToU64(a) \in U64s
  BY DEF U64s
<1> QED
  BY <1>1 DEF Contract!Event, Contract!PairFailed, Contract!ScannerEvent, NewsTypes

(* A channel of S stays one when one or two of S are sent.                 *)
LEMMA SentTypes ==
  ASSUME NEW S, NEW q \in Seq(S), NEW x \in S, NEW y \in S
  PROVE  q \o <<x>> \in Seq(S) /\ q \o <<x, y>> \in Seq(S)
<1>1. <<x>> \in Seq(S) /\ <<x, y>> \in Seq(S)
  OBVIOUS
<1> QED
  BY <1>1, ConcatProperties

(* So sending the contract's events leaves the channel well typed.         *)
LEMMA SendTypes ==
  ASSUME scanner_rx \in Seq(Contract!ScannerEvent),
         NEW a \in Wiimotes,
         \/ \E type \in NewsTypes : Send(<<Contract!Event(type, AddressToU64(a))>>)
         \/ \E reason \in AllReasons :
              \/ Send(<<Contract!PairFailed(AddressToU64(a), reason)>>)
              \/ Send(Contract!Failure(AddressToU64(a), reason))
  PROVE  scanner_rx' \in Seq(Contract!ScannerEvent)
<1>1. ASSUME NEW type \in NewsTypes, Send(<<Contract!Event(type, AddressToU64(a))>>)
      PROVE  scanner_rx' \in Seq(Contract!ScannerEvent)
  <2>1. Contract!Event(type, AddressToU64(a)) \in Contract!ScannerEvent
    BY EventTypes
  <2> QED
    BY <1>1, <2>1, SentTypes DEF Send, Contract!Send
<1>2. ASSUME NEW reason \in AllReasons,
             \/ Send(<<Contract!PairFailed(AddressToU64(a), reason)>>)
             \/ Send(Contract!Failure(AddressToU64(a), reason))
      PROVE  scanner_rx' \in Seq(Contract!ScannerEvent)
  <2>1. /\ Contract!PairFailed(AddressToU64(a), reason) \in Contract!ScannerEvent
        /\ Contract!Event("AuthStuck", AddressToU64(a)) \in Contract!ScannerEvent
    BY EventTypes DEF NewsTypes
  <2> QED
    BY <1>2, <2>1, SentTypes DEF Send, Contract!Send, Contract!Failure
<1> QED
  BY <1>1, <1>2

(* The scan loop of Linux and its helper preserve the invariant.           *)
LEMMA LinuxPreserves ==
  ASSUME ScannersInv, Linux(LinuxNext)
  PROVE  ScannersInv'
<1> USE DEF ScannersInv, HandlesSomebody, PinSetIsOwnPair, HookIsHeld, ScannersTypeOK,
            ScanTypeOK, LinuxTypeOK, WindowsTypeOK, Linux, windowsVars, BootTypeOK, osVars
<1>0. os = "linux" /\ UNCHANGED <<os, windowsVars>> /\ LinuxNext
  OBVIOUS
<1>a. ~hook /\ WindowsTypeOK' /\ HookIsHeld' /\ os' = os
  BY <1>0
<1>1. CASE Boot
  BY <1>1, <1>0 DEF Boot, EnsureCapNetAdmin, HasCapNetAdmin, GrantAndReexec, ContinueDegraded,
              scanVars, pinVars
<1>2. CASE LinuxLoop
  <2>1. ASSUME NEW helped \in BOOLEAN, LinuxStart(helped)
        PROVE  ScannersInv'
    BY <1>0, <2>1 DEF LinuxStart
  <2>2. CASE BeginRound
    BY <1>0, <2>2 DEF BeginRound, MayInquire, pinVars
  <2>3. CASE EndRound
    BY <1>0, <2>3 DEF EndRound, linuxVars
  <2>4. ASSUME NEW a \in Wiimotes, SkipBlocked(a) \/ StartPair(a) \/ VisitPaired(a)
        PROVE  ScannersInv'
    <3>1. Discover(a)
      BY <2>4 DEF SkipBlocked, StartPair, VisitPaired
    <3>2. pc = "round" /\ pin_active = {}
      BY <3>1 DEF Discover
    <3>3. cur' \in Records /\ cur'.addr = a
      BY <3>1 DEF Discover, ReadRecord, Records
    <3>4. WireFromMsb(a) \in Wires
      BY DEF Wires
    <3>5. CASE SkipBlocked(a) \/ VisitPaired(a)
      BY <1>0, <3>2, <3>3, <3>5 DEF SkipBlocked, VisitPaired, Discover, pinVars
    <3>6. CASE StartPair(a)
      <4>1. scanner_rx' \in Seq(Contract!ScannerEvent)
        BY <3>6, SendTypes DEF StartPair, NewsTypes
      <4> QED
        BY <1>0, <3>2, <3>3, <3>4, <3>6, <4>1 DEF StartPair, Discover, pinVars
    <3> QED
      BY <2>4, <3>5, <3>6
  <2>5. CASE (EndCooldown \/ StopThread) /\ UNCHANGED linuxVars
    BY <1>0, <2>5 DEF EndCooldown, StopThread, linuxVars
  <2> QED
    BY <1>2, <2>1, <2>2, <2>3, <2>4, <2>5 DEF LinuxLoop
<1>3. CASE BlueZAnswers
  <2>1. /\ pc \in {"pairing", "connecting"} /\ cur \in Records /\ cur.addr \in Wiimotes
        /\ UNCHANGED cur
    BY <1>0, <1>3 DEF BlueZAnswers, LinuxPaired, LinuxPairFailed, LinuxConnected,
                LinuxConnectFailed, PairReturns, ConnectReturns, Records
  <2>2. CASE LinuxPaired
    <3>1. scanner_rx' \in Seq(Contract!ScannerEvent)
      BY <2>1, <2>2, SendTypes DEF LinuxPaired, NewsTypes
    <3>2. pc = "pairing" /\ pin_active' = {} /\ pc' \in {"round", "connecting"}
      BY <1>0, <2>2 DEF LinuxPaired, PairReturns
    <3>3. LinuxTypeOK'
      BY <2>1, <2>2, <3>2 DEF LinuxPaired, PairReturns
    <3>4. ScanTypeOK'
      BY <2>1, <2>2, <3>1, <3>2 DEF LinuxPaired, PairReturns
    <3> QED
      BY <1>0, <2>1, <3>2, <3>3, <3>4
  <2>3. ASSUME NEW reason \in {"Page Timeout", "Authentication", "other"}, LinuxPairFailed(reason)
        PROVE  ScannersInv'
    <3>1. scanner_rx' \in Seq(Contract!ScannerEvent)
      BY <2>1, <2>3, SendTypes DEF LinuxPairFailed, AllReasons
    <3>2. /\ paired' \subseteq Wiimotes /\ connected' \subseteq Wiimotes
          /\ session_blocklist' \subseteq Wiimotes
      BY <2>1, <2>3 DEF LinuxPairFailed
    <3>3. pc = "pairing" /\ pin_active' = {} /\ pc' = "round"
      BY <1>0, <2>3 DEF LinuxPairFailed, PairReturns
    <3>4. LinuxTypeOK'
      BY <2>1, <2>3, <3>2, <3>3 DEF LinuxPairFailed, PairReturns
    <3>5. ScanTypeOK'
      BY <2>1, <2>3, <3>1, <3>2, <3>3 DEF LinuxPairFailed, PairReturns
    <3> QED
      BY <1>a, <1>0, <3>3, <3>4, <3>5
  <2>4. CASE LinuxConnected
    <3>1. scanner_rx' \in Seq(Contract!ScannerEvent)
      BY <2>1, <2>4, SendTypes DEF LinuxConnected, NewsTypes
    <3> QED
      BY <1>0, <2>1, <2>4, <3>1 DEF LinuxConnected, ConnectReturns, linuxVars
  <2>5. ASSUME NEW b \in BOOLEAN, LinuxConnectFailed(b)
        PROVE  ScannersInv'
    <3>1. scanner_rx' \in Seq(Contract!ScannerEvent)
      BY <2>1, <2>5, SendTypes DEF LinuxConnectFailed, NewsTypes
    <3> QED
      BY <1>0, <2>1, <2>5, <3>1 DEF LinuxConnectFailed, ConnectReturns, linuxVars
  <2> QED
    BY <1>3, <2>2, <2>3, <2>4, <2>5 DEF BlueZAnswers
<1>4. CASE PinHelper \/ HelperExits \/ Kernel
  <2> USE DEF scanVars, loopVars
  <2>1. CASE HelperReads
    BY <1>0, <2>1 DEF HelperReads
  <2>2. CASE HelperReplies
    <3>1. UNCHANGED scanVars /\ UNCHANGED loopVars
      BY <2>2 DEF HelperReplies
    <3>2. LinuxTypeOK'
      BY <2>2 DEF HelperReplies
    <3> QED
      BY <1>0, <3>1, <3>2
  <2>3. CASE HelperExits
    BY <1>0, <2>3 DEF HelperExits
  <2>4. CASE SomebodyElseAnswers
    BY <1>0, <2>4 DEF SomebodyElseAnswers
  <2>5. ASSUME NEW w \in Wires, KernelAsks(w)
        PROVE  ScannersInv'
    BY <1>0, <2>5 DEF KernelAsks
  <2> QED
    BY <1>4, <2>1, <2>2, <2>3, <2>4, <2>5 DEF PinHelper, Kernel
<1> QED
  BY <1>0, <1>1, <1>2, <1>3, <1>4 DEF LinuxNext

(* The scan loop of Windows and its callback preserve the invariant.       *)
LEMMA WindowsPreserves ==
  ASSUME ScannersInv, Windows(WindowsNext)
  PROVE  ScannersInv'
<1> USE DEF ScannersInv, HandlesSomebody, PinSetIsOwnPair, HookIsHeld, ScannersTypeOK,
            ScanTypeOK, LinuxTypeOK, WindowsTypeOK, Windows, linuxVars, BootTypeOK, osVars
<1>0. os = "windows" /\ UNCHANGED <<os, linuxVars>> /\ WindowsNext
  OBVIOUS
<1>1. CASE WindowsStart
  BY <1>0, <1>1 DEF WindowsStart, windowsVars
<1>2. ASSUME NEW found \in SUBSET Wiimotes, Inquire(found)
      PROVE  ScannersInv'
  <2>1. {ReadRecord(a) : a \in found} \subseteq Records
    <3>1. \A a \in found : ReadRecord(a) \in Records
      BY DEF ReadRecord, Records
    <3> QED
      BY <3>1
  <2> QED
    BY <1>0, <1>2, <2>1 DEF Inquire, MayInquire
<1>3. CASE EndDevices
  BY <1>0, <1>3 DEF EndDevices, windowsVars
<1>4. ASSUME NEW d \in devices, BeginPair(d) \/ VisitDevice(d)
      PROVE  ScannersInv'
  <2>1. d \in Records /\ d.addr \in Wiimotes
    BY DEF Records
  <2>2. ~hook /\ TakeDevice(d)
    BY <1>4 DEF BeginPair, VisitDevice, TakeDevice
  <2>3. CASE BeginPair(d)
    <3>1. scanner_rx' \in Seq(Contract!ScannerEvent)
      BY <2>1, <2>3, SendTypes DEF BeginPair, NewsTypes
    <3> QED
      BY <1>0, <2>1, <2>2, <2>3, <3>1, WindowsConstants DEF BeginPair, TakeDevice
  <2>4. CASE VisitDevice(d)
    BY <1>0, <2>1, <2>2, <2>4 DEF VisitDevice, TakeDevice
  <2> QED
    BY <1>4, <2>3, <2>4
<1>5. CASE RegisterCallback
  BY <1>0, <1>5, WindowsConstants DEF RegisterCallback, scanVars
<1>6. CASE RegisterFails
  <2>1. cur.addr \in Wiimotes
    BY <1>6 DEF RegisterFails, Records
  <2>2. scanner_rx' \in Seq(Contract!ScannerEvent)
    BY <1>6, <2>1, SendTypes DEF RegisterFails, AllReasons
  <2>3. ~hook
    BY <1>6, WindowsConstants DEF RegisterFails
  <2> QED
    BY <1>0, <1>6, <2>2, <2>3 DEF RegisterFails, windowsVars
<1>7. CASE UnregisterReturns
  BY <1>0, <1>7 DEF UnregisterReturns, scanVars
<1>8. CASE PoisonContext
  BY <1>0, <1>8 DEF PoisonContext, scanVars
<1>9. CASE FreeContext
  <2>1. cur \in Records /\ cur.addr \in Wiimotes /\ result \in AuthResults
    BY <1>9 DEF FreeContext, Records
  <2>2. scanner_rx' \in Seq(Contract!ScannerEvent)
    BY <1>9, <2>1, SendTypes DEF FreeContext, AllReasons, AuthResults, NewsTypes
  <2>3. ~hook
    BY <1>9 DEF FreeContext
  <2> QED
    BY <1>0, <1>9, <2>1, <2>2, <2>3 DEF FreeContext
<1>10. ASSUME NEW rc \in {"Ok", "0x57", "other"}, EnableHid(rc)
       PROVE  ScannersInv'
  <2>1. cur.addr \in Wiimotes /\ pc = "connecting"
    BY <1>10 DEF EnableHid, Records
  <2>2. scanner_rx' \in Seq(Contract!ScannerEvent)
    BY <1>10, <2>1, SendTypes DEF EnableHid, NewsTypes
  <2> QED
    BY <1>0, <1>10, <2>1, <2>2 DEF EnableHid, windowsVars
<1>11. CASE (EndCooldown \/ StopThread) /\ UNCHANGED windowsVars
  BY <1>0, <1>11 DEF EndCooldown, StopThread, windowsVars
<1>12. ASSUME NEW r \in AuthResults, AuthenticateReturns(r)
       PROVE  ScannersInv'
  <2>1. cur.addr \in Wiimotes
    BY <1>12 DEF AuthenticateReturns, Records
  <2> QED
    BY <1>0, <1>12, <2>1 DEF AuthenticateReturns
<1>13. CASE StackCalls \/ AuthCallback
  BY <1>0, <1>13 DEF StackCalls, AuthCallback, CallbackChecks, CallbackAnswers, scanVars
<1> QED
  BY <1>0, <1>1, <1>2, <1>3, <1>4, <1>5, <1>6, <1>7, <1>8, <1>9, <1>10, <1>11, <1>12, <1>13
     DEF WindowsNext, WindowsLoop

(* What the daemon and the outside do preserves the invariant.             *)
LEMMA OutsidePreserves ==
  ASSUME ScannersInv, DaemonReceives \/ Outside
  PROVE  ScannersInv'
<1> USE DEF ScannersInv, HandlesSomebody, PinSetIsOwnPair, HookIsHeld, ScannersTypeOK,
            ScanTypeOK, LinuxTypeOK, WindowsTypeOK, linuxVars, windowsVars, BootTypeOK
<1>1. CASE DaemonReceives
  <2>1. scanner_rx' \in Seq(Contract!ScannerEvent)
    BY <1>1, HeadTailProperties DEF DaemonReceives, ReceiveEvent
  <2> QED
    BY <1>1, <2>1 DEF DaemonReceives, ReceiveEvent
<1>2. CASE Outside
  <2>1. CASE StorePause \/ DropScanner
    <3>1. /\ quit' \in BOOLEAN /\ pause' \in BOOLEAN
          /\ UNCHANGED <<pc, cur, scanner_rx, paired, connected>>
      BY <2>1 DEF StorePause, DropScanner
    <3>2. UNCHANGED <<os, linuxVars, windowsVars>>
      BY <1>2 DEF Outside
    <3> QED
      BY <3>1, <3>2
  <2>2. ASSUME NEW a \in Wiimotes, Unpair(a) \/ LoseConnection(a)
        PROVE  ScannersInv'
    <3>1. /\ paired' \in SUBSET Wiimotes /\ connected' \in SUBSET Wiimotes
          /\ UNCHANGED <<quit, pause, pc, cur, scanner_rx>>
      BY <2>2 DEF Unpair, LoseConnection
    <3>2. UNCHANGED <<os, linuxVars, windowsVars>>
      BY <1>2 DEF Outside
    <3> QED
      BY <3>1, <3>2
  <2> QED
    BY <1>2, <2>1, <2>2 DEF Outside
<1> QED
  BY <1>1, <1>2

(* The invariant holds of every platform's scanner, always.                *)
THEOREM ScannersInvariant == ScannersSpec => []ScannersInv
<1>1. ScannersInit => ScannersInv
  <2> SUFFICES ASSUME ScannersInit PROVE ScannersInv
    OBVIOUS
  <2>1. scanner_rx \in Seq(Contract!ScannerEvent)
    BY DEF ScannersInit, ScanInit
  <2> QED
    BY <2>1, WindowsConstants DEF ScannersInit, ScanInit, LinuxInit, WindowsInit, BootInit, ScannersInv,
       HandlesSomebody, PinSetIsOwnPair, HookIsHeld, ScannersTypeOK, ScanTypeOK, LinuxTypeOK,
       WindowsTypeOK, BootTypeOK
<1>2. ScannersInv /\ [ScannersNext]_scannersVars => ScannersInv'
  <2> SUFFICES ASSUME ScannersInv, [ScannersNext]_scannersVars
               PROVE  ScannersInv'
    OBVIOUS
  <2>1. CASE UNCHANGED scannersVars
    BY <2>1 DEF scannersVars, scanVars, linuxVars, windowsVars, ScannersInv, HandlesSomebody,
       PinSetIsOwnPair, HookIsHeld, ScannersTypeOK, ScanTypeOK, LinuxTypeOK, WindowsTypeOK,
       BootTypeOK
  <2> QED
    BY <2>1, LinuxPreserves, WindowsPreserves, OutsidePreserves DEF ScannersNext
<1> QED
  BY <1>1, <1>2, PTL DEF ScannersSpec

(* Every variable of the scanners keeps its type.                          *)
THEOREM ScannerTypes == ScannersSpec => []ScannersTypeOK
<1>1. ScannersInv => ScannersTypeOK
  BY DEF ScannersInv
<1> QED
  BY <1>1, ScannersInvariant, PTL

(* The helper of Linux may answer for an address exactly while this        *)
(* program's own pair() of it is running.                                  *)
THEOREM PinSetStaysOwn == ScannersSpec => []PinSetIsOwnPair
<1>1. ScannersInv => PinSetIsOwnPair
  BY DEF ScannersInv
<1> QED
  BY <1>1, ScannersInvariant, PTL

(* The context of a Windows attempt outlives every callback that uses it.  *)
THEOREM ContextOutlivesCallback == ScannersSpec => []CallbackContextLives
<1>1. ScannersInv => CallbackContextLives
  BY DEF ScannersInv, HookIsHeld, CallbackContextLives, Allocated
<1> QED
  BY <1>1, ScannersInvariant, PTL

-----------------------------------------------------------------------------
(* The contract.  A scanner's attempt is the Wiimote at hand while it      *)
(* pairs, and nothing otherwise.                                           *)

Attempt == IF pc = "pairing" THEN AddressToU64(cur.addr) ELSE None

(* A step that says nothing and leaves the attempt alone is a stutter.     *)
LEMMA SilentStep ==
  ASSUME Attempt' = Attempt, scanner_rx' = scanner_rx
  PROVE  UNCHANGED Contract!contractVars
BY DEF Attempt, Contract!contractVars

(* The number of a Wiimote under way is one of the contract's addresses.   *)
LEMMA AttemptIsAddress ==
  ASSUME ScannersInv, pc = "pairing"
  PROVE  Attempt \in U64s /\ Attempt # None
<1>1. cur.addr \in Wiimotes
  BY DEF ScannersInv, HandlesSomebody, Records
<1> QED
  BY <1>1, NumbersAreNotNone DEF Attempt, U64s

(* The beginning of an attempt.                                            *)
LEMMA BeginStep ==
  ASSUME NEW a \in Wiimotes, pc # "pairing", pc' = "pairing", cur'.addr = a,
         Send(<<Contract!Event("Pairing", AddressToU64(a))>>)
  PROVE  Contract!ContractNext
<1>1. AddressToU64(a) \in U64s
  BY DEF U64s
<1>2. Contract!Begin(AddressToU64(a))
  BY DEF Contract!Begin, Send
<1> QED
  BY <1>1, <1>2 DEF Contract!ContractNext, Contract!ScannerNews

(* Its good end.                                                           *)
LEMMA SucceedStep ==
  ASSUME ScannersInv, pc = "pairing", pc' # "pairing",
         Send(<<Contract!Event("Paired", AddressToU64(cur.addr))>>)
  PROVE  Contract!ContractNext
<1>1. Contract!Succeed
  BY AttemptIsAddress DEF Attempt, Contract!Succeed, Send
<1> QED
  BY <1>1 DEF Contract!ContractNext

(* Its bad end.                                                            *)
LEMMA FailStep ==
  ASSUME ScannersInv, pc = "pairing", pc' # "pairing", NEW reason \in AllReasons,
         Send(Contract!Failure(AddressToU64(cur.addr), reason))
  PROVE  Contract!ContractNext
<1>1. Contract!Fail(reason)
  BY AttemptIsAddress DEF Attempt, Contract!Fail, Send
<1> QED
  BY <1>1 DEF Contract!ContractNext, Contract!ScannerNews

(* News of the HID service.                                                *)
LEMMA ReportStep ==
  ASSUME ScannersInv, pc = "connecting", pc' = "round",
         NEW type \in {"HidEnabled", "SdpCacheStale"},
         Send(<<Contract!Event(type, AddressToU64(cur.addr))>>)
  PROVE  Contract!ContractNext
<1>1. AddressToU64(cur.addr) \in U64s
  BY DEF ScannersInv, HandlesSomebody, Records, U64s
<1>2. Contract!Report(type, AddressToU64(cur.addr))
  BY DEF Contract!Report, Send
<1> QED
  BY <1>1, <1>2 DEF Contract!ContractNext, Contract!ScannerNews

(* The threads of Linux keep the contract.                                 *)
LEMMA LinuxKeepsContract ==
  ASSUME ScannersInv, LinuxNext
  PROVE  Contract!ContractNext \/ UNCHANGED Contract!contractVars
<1>1. CASE Boot \/ PinHelper \/ HelperExits \/ Kernel
  BY <1>1, SilentStep DEF Boot, PinHelper, HelperReads, HelperReplies, HelperExits, Kernel,
     SomebodyElseAnswers, KernelAsks, scanVars, Attempt
<1>2. ASSUME NEW helped \in BOOLEAN, LinuxStart(helped)
      PROVE  UNCHANGED Contract!contractVars
  BY <1>2, SilentStep DEF LinuxStart, Attempt
<1>3. CASE BeginRound \/ EndRound \/ EndCooldown \/ StopThread
  BY <1>3, SilentStep DEF BeginRound, MayInquire, EndRound, EndCooldown, StopThread, Attempt
<1>4. ASSUME NEW a \in Wiimotes, SkipBlocked(a) \/ VisitPaired(a)
      PROVE  UNCHANGED Contract!contractVars
  BY <1>4, SilentStep DEF SkipBlocked, VisitPaired, Discover, Attempt
<1>5. ASSUME NEW a \in Wiimotes, StartPair(a)
      PROVE  Contract!ContractNext
  BY <1>5, BeginStep DEF StartPair, Discover, ReadRecord
<1>6. CASE LinuxPaired
  BY <1>6, SucceedStep DEF LinuxPaired, PairReturns
<1>7. ASSUME NEW reason \in {"Page Timeout", "Authentication", "other"}, LinuxPairFailed(reason)
      PROVE  Contract!ContractNext
  <2>1. Send(Contract!Failure(AddressToU64(cur.addr), reason)) /\ reason \in AllReasons
    BY <1>7 DEF LinuxPairFailed, Contract!Failure, AllReasons
  <2> QED
    BY <1>7, <2>1, FailStep DEF LinuxPairFailed, PairReturns
<1>8. CASE LinuxConnected
  BY <1>8, ReportStep DEF LinuxConnected, ConnectReturns
<1>9. ASSUME NEW b \in BOOLEAN, LinuxConnectFailed(b)
      PROVE  Contract!ContractNext \/ UNCHANGED Contract!contractVars
  BY <1>9, ReportStep, SilentStep DEF LinuxConnectFailed, ConnectReturns, Attempt
<1> QED
  BY <1>1, <1>2, <1>3, <1>4, <1>5, <1>6, <1>7, <1>8, <1>9
     DEF LinuxNext, LinuxLoop, BlueZAnswers

(* The threads of Windows keep the contract.                               *)
LEMMA WindowsKeepsContract ==
  ASSUME ScannersInv, WindowsNext
  PROVE  Contract!ContractNext \/ UNCHANGED Contract!contractVars
<1>1. CASE WindowsStart \/ EndDevices \/ EndCooldown \/ StopThread
  BY <1>1, SilentStep DEF WindowsStart, EndDevices, EndCooldown, StopThread, Attempt
<1>2. ASSUME NEW found \in SUBSET Wiimotes, Inquire(found)
      PROVE  UNCHANGED Contract!contractVars
  BY <1>2, SilentStep DEF Inquire, MayInquire, Attempt
<1>3. ASSUME NEW d \in devices, BeginPair(d)
      PROVE  Contract!ContractNext
  <2>1. d.addr \in Wiimotes
    BY DEF ScannersInv, ScannersTypeOK, WindowsTypeOK, Records
  <2> QED
    BY <1>3, <2>1, BeginStep DEF BeginPair, TakeDevice
<1>4. ASSUME NEW d \in devices, VisitDevice(d)
      PROVE  UNCHANGED Contract!contractVars
  BY <1>4, SilentStep DEF VisitDevice, TakeDevice, Attempt
<1>5. CASE RegisterCallback \/ UnregisterReturns \/ PoisonContext \/ StackCalls \/ AuthCallback
  BY <1>5, SilentStep DEF RegisterCallback, UnregisterReturns, PoisonContext, StackCalls,
     AuthCallback, CallbackChecks, CallbackAnswers, scanVars, Attempt
<1>6. CASE RegisterFails
  BY <1>6, FailStep DEF RegisterFails, AllReasons
<1>7. CASE FreeContext
  <2>1. result \in AuthResults
    BY <1>7 DEF FreeContext, ScannersInv, HookIsHeld
  <2>2. CASE result = "Ok"
    BY <1>7, <2>2, SucceedStep DEF FreeContext
  <2>3. CASE result # "Ok"
    BY <1>7, <2>1, <2>3, FailStep DEF FreeContext, AuthResults, AllReasons
  <2> QED
    BY <2>2, <2>3
<1>8. ASSUME NEW rc \in {"Ok", "0x57", "other"}, EnableHid(rc)
      PROVE  Contract!ContractNext \/ UNCHANGED Contract!contractVars
  BY <1>8, ReportStep, SilentStep DEF EnableHid, Attempt
<1>9. ASSUME NEW r \in AuthResults, AuthenticateReturns(r)
      PROVE  UNCHANGED Contract!contractVars
  BY <1>9, SilentStep DEF AuthenticateReturns, Attempt
<1> QED
  BY <1>1, <1>2, <1>3, <1>4, <1>5, <1>6, <1>7, <1>8, <1>9 DEF WindowsNext, WindowsLoop

(* Both scanners implement the contract: each attempt is announced, ends   *)
(* in one Paired or PairFailed of the same address, and nothing else is    *)
(* said meanwhile.                                                         *)
THEOREM ScannersKeepContract == ScannersSpec => KeepsContract
<1>1. ScannersInit => Contract!ContractInit
  BY DEF ScannersInit, ScanInit, Contract!ContractInit
<1>2. ScannersInv /\ [ScannersNext]_scannersVars
        => [Contract!ContractNext]_(Contract!contractVars)
  <2> SUFFICES ASSUME ScannersInv, [ScannersNext]_scannersVars
               PROVE  Contract!ContractNext \/ UNCHANGED Contract!contractVars
    OBVIOUS
  <2>1. CASE UNCHANGED scannersVars
    BY <2>1, SilentStep DEF scannersVars, scanVars, Attempt
  <2>2. CASE DaemonReceives
    <3>1. Contract!Receive
      BY <2>2 DEF DaemonReceives, ReceiveEvent, Contract!Receive
    <3> QED
      BY <3>1 DEF Contract!ContractNext
  <2>3. CASE Outside
    BY <2>3, SilentStep DEF Outside, StorePause, DropScanner, Unpair, LoseConnection, Attempt
  <2> QED
    BY <2>1, <2>2, <2>3, LinuxKeepsContract, WindowsKeepsContract
       DEF ScannersNext, Linux, Windows
<1> QED
  BY <1>1, <1>2, ScannersInvariant, PTL DEF ScannersSpec, KeepsContract, Contract!ContractSpec

=============================================================================
