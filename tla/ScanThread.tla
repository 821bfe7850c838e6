------------------------------ MODULE ScanThread ------------------------------
(***************************************************************************)
(* What the "bt-scan" threads of the platforms have in common: the flags   *)
(* the daemon sets, the channel to it, and the operating system's records  *)
(* of the Wiimotes.  A round of inquiry handles the Wiimotes one by one;   *)
(* `cur` is the one at hand, with paired and connected as they were read   *)
(* before it was handled.                                                  *)
(***************************************************************************)
EXTENDS Addresses

CONSTANTS
  None,      \* Rust's None
  Wiimotes,  \* the MACs of the Wiimotes around
  MaxQueue   \* bound: events not yet received when the thread sends more

ASSUME ScanConstants ==
  /\ None \notin Wiimotes
  /\ MaxQueue \in Nat \ {0}

VARIABLES
  quit,        \* set once, when the daemon drops its PlatformScanner
  pause,       \* pause_inquiry
  pc,          \* where the thread is
  cur,         \* the Wiimote being handled
  scanner_rx,  \* the events the daemon has not yet received
  paired,      \* the operating system's records: is it paired,
  connected    \* is it connected

threadVars == <<pc, cur>>
osVars == <<paired, connected>>
scanVars == <<quit, pause, pc, cur, scanner_rx, paired, connected>>

U64s == {AddressToU64(a) : a \in Wiimotes}

ASSUME NumbersAreNotNone == None \notin U64s

AllReasons == {"Page Timeout", "Authentication", "AuthenticateDeviceEx 0x1f", "other"}

Contract ==
  INSTANCE ScannerContract
  WITH Addrs <- U64s,
       Reasons <- AllReasons,
       attempt <- IF pc = "pairing" THEN AddressToU64(cur.addr) ELSE None

Records == [addr : Wiimotes, paired : BOOLEAN, connected : BOOLEAN]

ScanTypeOK ==
  /\ {quit, pause} \subseteq BOOLEAN
  /\ pc \in {"start", "top", "round", "pairing", "connecting", "cooldown", "stopped"}
  /\ cur \in Records \cup {None}
  /\ scanner_rx \in Seq(Contract!ScannerEvent)
  /\ {paired, connected} \subseteq SUBSET Wiimotes

ScanInit ==
  /\ quit = FALSE
  /\ pause = FALSE
  /\ pc \in {"start", "stopped"}
  /\ cur = None
  /\ scanner_rx = <<>>
  /\ paired \in SUBSET Wiimotes
  /\ connected \in SUBSET Wiimotes

Send(evs) == Contract!Send(evs)

(* The operating system's record of a Wiimote, as a round reads it.        *)
ReadRecord(a) == [addr |-> a, paired |-> a \in paired, connected |-> a \in connected]

MayInquirePaused == pc = "top" /\ ~quit  \* mutant: pause is not read

(* The flags are read at the top of the loop; pause only delays it.        *)
MayInquire == pc = "top" /\ ~quit /\ ~pause

(* The cooldown of 3 s ends early when a flag is set.                      *)
EndCooldown ==
  /\ pc = "cooldown"
  /\ pc' = "top"
  /\ UNCHANGED <<quit, pause, cur, scanner_rx, paired, connected>>

StopThread ==
  /\ pc = "top"
  /\ quit
  /\ pc' = "stopped"
  /\ UNCHANGED <<quit, pause, cur, scanner_rx, paired, connected>>

-----------------------------------------------------------------------------
(* The daemon, as far as a scanner notices.                                *)

StorePause ==
  /\ pause' = ~pause
  /\ UNCHANGED <<quit, pc, cur, scanner_rx, paired, connected>>

(* Drop sets quit and then waits for the thread.                           *)
DropScanner ==
  /\ ~quit
  /\ quit' = TRUE
  /\ UNCHANGED <<pause, pc, cur, scanner_rx, paired, connected>>

ReceiveEvent ==
  /\ scanner_rx # <<>>
  /\ scanner_rx' = Tail(scanner_rx)
  /\ UNCHANGED <<quit, pause, pc, cur, paired, connected>>

(* unpair_addr, from the daemon's thread or by the user elsewhere.         *)
Unpair(a) ==
  /\ a \in paired
  /\ paired' = paired \ {a}
  /\ connected' = connected \ {a}
  /\ UNCHANGED <<quit, pause, pc, cur, scanner_rx>>

LoseConnection(a) ==
  /\ a \in connected
  /\ connected' = connected \ {a}
  /\ UNCHANGED <<quit, pause, pc, cur, scanner_rx, paired>>

=============================================================================
