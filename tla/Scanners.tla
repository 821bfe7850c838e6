------------------------------- MODULE Scanners -------------------------------
(***************************************************************************)
(* A platform's scanner at work: its threads, the daemon that sets its     *)
(* flags and receives its events, and the operating system.  On macOS      *)
(* start() fails and there is no thread.                                   *)
(***************************************************************************)
EXTENDS LinuxScanner, WindowsScanner

CONSTANT Platforms  \* a subset of {"linux", "windows", "macos"}

ASSUME PlatformConstants == Platforms \subseteq {"linux", "windows", "macos"}

VARIABLE os  \* the platform, chosen once

scannersVars == <<os, scanVars, linuxVars, windowsVars>>

ScannersTypeOK ==
  /\ os \in Platforms
  /\ ScanTypeOK
  /\ LinuxTypeOK
  /\ WindowsTypeOK

ScannersInit ==
  /\ os \in Platforms
  /\ ScanInit
  /\ pc = "stopped" <=> os = "macos"
  /\ LinuxInit
  /\ WindowsInit

Linux(A) == os = "linux" /\ A /\ UNCHANGED <<os, windowsVars>>
Windows(A) == os = "windows" /\ A /\ UNCHANGED <<os, linuxVars>>

(* The daemon's side and what happens outside.                             *)
DaemonReceives == ReceiveEvent /\ UNCHANGED <<os, linuxVars, windowsVars>>

Outside ==
  /\ \/ StorePause
     \/ DropScanner
     \/ \E a \in Wiimotes : Unpair(a) \/ LoseConnection(a)
  /\ UNCHANGED <<os, linuxVars, windowsVars>>

ScannersNext ==
  \/ Linux(LinuxNext)
  \/ Windows(WindowsNext)
  \/ DaemonReceives
  \/ Outside

ScannersSpec == ScannersInit /\ [][ScannersNext]_scannersVars

(* The threads keep running and the daemon keeps receiving; a callback     *)
(* that has begun ends.  connect() and SetServiceState return; whether     *)
(* pair() and AuthenticateDeviceEx do, nobody promises.                    *)
ScannersFairSpec ==
  /\ ScannersSpec
  /\ WF_scannersVars(Linux(Boot))
  /\ WF_scannersVars(Linux(LinuxLoop))
  /\ WF_scannersVars(Linux(EndRound))
  /\ WF_scannersVars(Linux(LinuxConnected \/ \E b \in BOOLEAN : LinuxConnectFailed(b)))
  /\ WF_scannersVars(Linux(PinHelper))
  /\ WF_scannersVars(Windows(WindowsLoop))
  /\ WF_scannersVars(Windows(AuthCallback))
  /\ WF_scannersVars(DaemonReceives)

-----------------------------------------------------------------------------
(* linux_impl.rs, handle_discovered: "a stale entry can't poison unrelated *)
(* future pair attempts": the helper may answer for an address exactly     *)
(* while this program's own pair() of it is running.                       *)
PinSetIsOwnPair ==
  pin_active = IF os = "linux" /\ pc = "pairing" THEN {WireFromMsb(cur.addr)} ELSE {}

(* PairContext's lifetime contract: a callback that runs has a context     *)
(* that is not freed, and one that is past its check has one that is still *)
(* active, whatever the order in which the attempt ends around it.         *)
CallbackContextLives ==
  /\ hook \/ callback # "idle" => Allocated
  /\ callback = "checked" => context = "active"

(* Both scanners keep the contract of platform/mod.rs: each attempt is     *)
(* announced, ends in one Paired or PairFailed of the same address, and    *)
(* nothing else is said meanwhile.                                         *)
KeepsContract == Contract!ContractSpec

(* The kernel's request for the PIN of our own attempt is answered, or the *)
(* attempt ends, as long as the helper has its socket.                     *)
PinIsAnswered ==
  (pc = "pairing" /\ request = WireFromMsb(cur.addr))
    ~> (answered \/ pc # "pairing" \/ helper = "down")

(* The scan loop obeys the daemon's flags (lib.rs, phase 5, and Drop): if  *)
(* pause stays set, inquiry stops for good, and if quit is set, the thread *)
(* ends for the join.  Only an attempt to pair that the system never       *)
(* answers may stay under way.                                             *)
ObeysItsFlags ==
  /\ <>[]pause => <>[](pc \in {"start", "top", "pairing", "stopped"})
  /\ quit ~> (pc \in {"stopped", "pairing"})

=============================================================================
