----------------------------- MODULE LinuxScanner -----------------------------
(***************************************************************************)
(* The scanner of Linux: the scan loop over BlueZ (linux_impl.rs) and the  *)
(* helper thread that answers PIN requests on the kernel's mgmt socket     *)
(* (linux_mgmt.rs).  BlueZ, the kernel and the Wiimotes are external: what *)
(* they answer, and whether pair() ever returns, is any of the outcomes    *)
(* the code tells apart.                                                   *)
(*                                                                         *)
(* The agent is left out: it stalls each PIN request for 30 s and then     *)
(* rejects it, so that only the helper's reply can make pair() succeed.    *)
(***************************************************************************)
EXTENDS ScanThread, CapSelfGrant

CONSTANTS
  Foreign  \* addresses other programs may be pairing

VARIABLES
  seen_in_round,      \* handled in this round
  session_blocklist,  \* not paired again before a restart
  pin_active,         \* the wire addresses the helper may answer for
  helper,             \* the helper: "down", "reading", or "replying"
  wire_addr,          \* the address it replies to
  request,            \* the kernel's PIN_CODE_REQUEST, not answered yet
  answered            \* did the running attempt get its PIN

loopVars == <<boot, seen_in_round, session_blocklist, pin_active>>
pinVars == <<helper, wire_addr, request, answered>>
linuxVars == <<boot, seen_in_round, session_blocklist, pin_active,
               helper, wire_addr, request, answered>>

Wires == {WireFromMsb(a) : a \in Wiimotes \cup Foreign}

LinuxTypeOK ==
  /\ BootTypeOK
  /\ {seen_in_round, session_blocklist} \subseteq SUBSET Wiimotes
  /\ pin_active \subseteq Wires
  /\ helper \in {"down", "reading", "replying"}
  /\ {wire_addr, request} \subseteq Wires \cup {None}
  /\ answered \in BOOLEAN

LinuxInit ==
  /\ BootInit
  /\ seen_in_round = {}
  /\ session_blocklist = {}
  /\ pin_active = {}
  /\ helper = "down"
  /\ wire_addr = None
  /\ request = None
  /\ answered = FALSE

-----------------------------------------------------------------------------
(* Without a D-Bus session or an adapter there is no scan loop; without    *)
(* CAP_NET_ADMIN the helper cannot open its socket.                        *)
LinuxStart(helped) ==
  /\ pc = "start"
  /\ boot \in {"capable", "degraded"}
  /\ boot' = "running"
  /\ \/ pc' = "stopped" /\ ~helped /\ UNCHANGED helper
     \/ /\ pc' = "top"
        /\ helped => boot = "capable"
        /\ helper' = IF helped THEN "reading" ELSE "down"
  /\ UNCHANGED <<quit, pause, cur, scanner_rx, osVars, seen_in_round, session_blocklist,
                 pin_active, wire_addr, request, answered>>

(* inquiry_round: first the Wiimotes BlueZ has in its cache, then those it *)
(* finds within 4 s, each once; an error ends it early.                    *)
BeginRound ==
  /\ MayInquire
  /\ pc' = "round"
  /\ seen_in_round' = {}
  /\ UNCHANGED <<quit, pause, cur, scanner_rx, osVars, boot, session_blocklist, pin_active, pinVars>>

EndRound ==
  /\ pc = "round"
  /\ pc' = "cooldown"
  /\ cur' = None
  /\ UNCHANGED <<quit, pause, scanner_rx, osVars, linuxVars>>

(* A Wiimote comes up in a round.                                          *)
Discover(a) ==
  /\ pc = "round"
  /\ a \notin seen_in_round
  /\ seen_in_round' = seen_in_round \cup {a}
  /\ cur' = ReadRecord(a)
  /\ UNCHANGED <<quit, pause, osVars, boot, session_blocklist, pinVars>>

SkipBlocked(a) ==
  /\ Discover(a)
  /\ a \notin paired
  /\ a \in session_blocklist
  /\ UNCHANGED <<pc, scanner_rx, pin_active>>

StartPairMsbFirst(a) ==  \* mutant: the address goes into the set unreversed
  /\ Discover(a)
  /\ a \notin paired
  /\ a \notin session_blocklist
  /\ Send(<<Contract!Event("Pairing", AddressToU64(a))>>)
  /\ pin_active' = pin_active \cup {[wire |-> a]}
  /\ pc' = "pairing"

StartPair(a) ==
  /\ Discover(a)
  /\ a \notin paired
  /\ a \notin session_blocklist
  /\ Send(<<Contract!Event("Pairing", AddressToU64(a))>>)
  /\ pin_active' = pin_active \cup {WireFromMsb(a)}
  /\ pc' = "pairing"

(* A paired Wiimote is trusted again; when BlueZ was connected to it that  *)
(* is all.                                                                 *)
VisitPaired(a) ==
  /\ Discover(a)
  /\ a \in paired
  /\ pc' = IF a \in connected THEN "round" ELSE "connecting"
  /\ UNCHANGED <<scanner_rx, pin_active>>

PairReturnsStillActive ==  \* mutant: the address stays in the set
  /\ pc = "pairing"
  /\ answered' = FALSE
  /\ request' = IF request = WireFromMsb(cur.addr) THEN None ELSE request
  /\ UNCHANGED <<quit, pause, cur, boot, seen_in_round, helper, wire_addr, pin_active>>

(* pair() returns.  The address leaves the active set either way.          *)
PairReturns ==
  /\ pc = "pairing"
  /\ pin_active' = pin_active \ {WireFromMsb(cur.addr)}
  /\ answered' = FALSE
  /\ request' = IF request = WireFromMsb(cur.addr) THEN None ELSE request
  /\ UNCHANGED <<quit, pause, cur, boot, seen_in_round, helper, wire_addr>>

LinuxPaired ==
  /\ PairReturns
  /\ answered
  /\ paired' = paired \cup {cur.addr}
  /\ Send(<<Contract!Event("Paired", AddressToU64(cur.addr))>>)
  /\ pc' = IF cur.connected THEN "round" ELSE "connecting"
  /\ UNCHANGED <<connected, session_blocklist>>

LinuxPairFailedQuietly(reason) ==  \* mutant: a page timeout is not told
  /\ PairReturns
  /\ reason \in {"Page Timeout", "Authentication", "other"}
  /\ session_blocklist' = IF reason = "other" THEN session_blocklist
                                              ELSE session_blocklist \cup {cur.addr}
  /\ UNCHANGED osVars
  /\ IF reason = "Page Timeout"
       THEN UNCHANGED scanner_rx
       ELSE Send(<<Contract!PairFailed(AddressToU64(cur.addr), reason)>>)
  /\ pc' = "round"

(* A page timeout also makes BlueZ forget the Wiimote.                     *)
LinuxPairFailed(reason) ==
  /\ PairReturns
  /\ reason \in {"Page Timeout", "Authentication", "other"}
  /\ session_blocklist' = IF reason = "other" THEN session_blocklist
                                              ELSE session_blocklist \cup {cur.addr}
  /\ IF reason = "Page Timeout"
       THEN paired' = paired \ {cur.addr} /\ connected' = connected \ {cur.addr}
       ELSE UNCHANGED osVars
  /\ Send(<<Contract!PairFailed(AddressToU64(cur.addr), reason)>>)
  /\ pc' = "round"

(* device.connect() returns; an error is stale news of the SDP cache when  *)
(* the Wiimote was already paired and BlueZ names one of four reasons, and *)
(* only logged otherwise.                                                  *)
ConnectReturns ==
  /\ pc = "connecting"
  /\ pc' = "round"
  /\ UNCHANGED <<quit, pause, cur, paired, linuxVars>>

LinuxConnected ==
  /\ ConnectReturns
  /\ connected' = connected \cup {cur.addr}
  /\ Send(<<Contract!Event("HidEnabled", AddressToU64(cur.addr))>>)

(* Mutant: a failed connection is told as a failed pairing without reason. *)
LinuxConnectFailedAsPair(brConnection) ==
  /\ ConnectReturns
  /\ IF cur.paired /\ brConnection
       THEN Send(<<Contract!Event("PairFailed", AddressToU64(cur.addr))>>)
       ELSE UNCHANGED scanner_rx
  /\ UNCHANGED connected

LinuxConnectFailed(brConnection) ==
  /\ ConnectReturns
  /\ IF cur.paired /\ brConnection
       THEN Send(<<Contract!Event("SdpCacheStale", AddressToU64(cur.addr))>>)
       ELSE UNCHANGED scanner_rx
  /\ UNCHANGED connected

-----------------------------------------------------------------------------
(* The kernel asks for the PIN of a pairing: of ours, or of one that       *)
(* another program runs and that somebody else answers.                    *)
KernelAsks(w) ==
  /\ request = None
  /\ pc # "start"
  /\ ~answered
  /\ request' = w
  /\ UNCHANGED <<scanVars, loopVars, helper, wire_addr, answered>>

SomebodyElseAnswers ==
  /\ request # None
  /\ pc = "pairing" => request # WireFromMsb(cur.addr)
  /\ request' = None
  /\ UNCHANGED <<scanVars, loopVars, helper, wire_addr, answered>>

(* The helper looks the address up under the lock, and answers after it    *)
(* has released it.                                                        *)
HelperReads ==
  /\ helper = "reading"
  /\ request \in pin_active
  /\ helper' = "replying"
  /\ wire_addr' = request
  /\ UNCHANGED <<scanVars, loopVars, request, answered>>

HelperReplies ==
  /\ helper = "replying"
  /\ helper' = "reading"
  /\ wire_addr' = None
  /\ IF request = wire_addr
       THEN /\ request' = None
            /\ answered' = (pc = "pairing" /\ wire_addr = WireFromMsb(cur.addr))
       ELSE UNCHANGED <<request, answered>>
  /\ UNCHANGED <<scanVars, loopVars>>

(* Reading the socket fails: the helper is gone for good.                  *)
HelperExits ==
  /\ helper = "reading"
  /\ helper' = "down"
  /\ UNCHANGED <<scanVars, loopVars, wire_addr, request, answered>>

-----------------------------------------------------------------------------
Boot ==
  /\ EnsureCapNetAdmin
  /\ UNCHANGED <<scanVars, seen_in_round, session_blocklist, pin_active, pinVars>>

LinuxLoop ==
  \/ \E helped \in BOOLEAN : LinuxStart(helped)
  \/ BeginRound
  \/ EndRound
  \/ \E a \in Wiimotes : SkipBlocked(a) \/ StartPair(a) \/ VisitPaired(a)
  \/ (EndCooldown \/ StopThread) /\ UNCHANGED linuxVars

BlueZAnswers ==
  \/ LinuxPaired
  \/ \E reason \in {"Page Timeout", "Authentication", "other"} : LinuxPairFailed(reason)
  \/ LinuxConnected
  \/ \E brConnection \in BOOLEAN : LinuxConnectFailed(brConnection)

PinHelper == HelperReads \/ HelperReplies

Kernel == SomebodyElseAnswers \/ \E w \in Wires : KernelAsks(w)

LinuxNext == Boot \/ LinuxLoop \/ BlueZAnswers \/ PinHelper \/ HelperExits \/ Kernel

=============================================================================
