---------------------------- MODULE WindowsScanner ----------------------------
(***************************************************************************)
(* The scanner of Windows (windows_impl.rs): rounds of inquiry, pairing    *)
(* with a PIN callback that runs on a thread of the Bluetooth stack and is *)
(* given a raw pointer to a PairContext, and the enabling of the HID       *)
(* service.  The stack is external; that BluetoothUnregisterAuthentication *)
(* waits for callbacks in flight is what PairContext's contract says of it.*)
(***************************************************************************)
EXTENDS ScanThread

ASSUME WindowsConstants == None \notin {"active", "poisoned", "freed"}

VARIABLES
  devices,   \* the rest of the inquiry's result
  context,   \* the PairContext: not allocated, "active", "poisoned" or "freed"
  hook,      \* is auth_callback registered
  callback,  \* auth_callback: "idle", "entered", or "checked" its active flag
  result     \* what BluetoothAuthenticateDeviceEx returned

windowsVars == <<devices, context, hook, callback, result>>

AuthResults == {"Ok", "AuthenticateDeviceEx 0x1f", "other"}

WindowsTypeOK ==
  /\ devices \subseteq Records
  /\ context \in {None, "active", "poisoned", "freed"}
  /\ hook \in BOOLEAN
  /\ callback \in {"idle", "entered", "checked"}
  /\ result \in AuthResults \cup {None}

WindowsInit ==
  /\ devices = {}
  /\ context = None
  /\ hook = FALSE
  /\ callback = "idle"
  /\ result = None

Allocated == context \in {"active", "poisoned"}

WindowsStart ==
  /\ pc = "start"
  /\ pc' = "top"
  /\ UNCHANGED <<quit, pause, cur, scanner_rx, osVars, windowsVars>>

(* inquiry() answers with the records of the Wiimotes it has found; they   *)
(* may be out of date when their turn comes.                               *)
Inquire(found) ==
  /\ MayInquire
  /\ devices' = {ReadRecord(a) : a \in found}
  /\ pc' = "round"
  /\ UNCHANGED <<quit, pause, cur, scanner_rx, osVars, context, hook, callback, result>>

EndDevices ==
  /\ pc = "round"
  /\ devices = {}
  /\ pc' = "cooldown"
  /\ cur' = None
  /\ UNCHANGED <<quit, pause, scanner_rx, osVars, windowsVars>>

TakeDevice(d) ==
  /\ pc = "round"
  /\ devices' = devices \ {d}
  /\ cur' = d
  /\ UNCHANGED <<quit, pause, osVars, hook, callback, result>>

(* pair() allocates the context once it has a radio, and registers the     *)
(* callback; without either, the attempt has failed.                       *)
BeginPair(d) ==
  /\ TakeDevice(d)
  /\ ~d.paired
  /\ Send(<<Contract!Event("Pairing", AddressToU64(d.addr))>>)
  /\ pc' = "pairing"
  /\ context' = None

VisitDevice(d) ==
  /\ TakeDevice(d)
  /\ d.paired
  /\ pc' = IF d.connected THEN "round" ELSE "connecting"
  /\ UNCHANGED <<scanner_rx, context>>

RegisterCallback ==
  /\ pc = "pairing"
  /\ context = None
  /\ context' = "active"
  /\ hook' = TRUE
  /\ UNCHANGED <<scanVars, devices, callback, result>>

(* No radio, or no registration: the context, if any, is freed at once.    *)
RegisterFails ==
  /\ pc = "pairing"
  /\ context = None
  /\ Send(Contract!Failure(AddressToU64(cur.addr), "other"))
  /\ pc' = "round"
  /\ UNCHANGED <<quit, pause, cur, osVars, windowsVars>>

(* BluetoothAuthenticateDeviceEx returns, if it does.                      *)
AuthenticateReturns(r) ==
  /\ pc = "pairing"
  /\ hook
  /\ result = None
  /\ result' = r
  /\ paired' = IF r = "Ok" THEN paired \cup {cur.addr} ELSE paired
  /\ UNCHANGED <<quit, pause, pc, cur, scanner_rx, connected, devices, context, hook, callback>>

(* BluetoothUnregisterAuthentication returns after the last callback.      *)
UnregisterReturns ==
  /\ pc = "pairing"
  /\ result # None
  /\ callback = "idle"
  /\ hook' = FALSE
  /\ UNCHANGED <<scanVars, devices, context, callback, result>>

PoisonContextFirst ==  \* mutant: the registration may still be there
  /\ pc = "pairing"
  /\ result # None
  /\ context = "active"
  /\ context' = "poisoned"
  /\ UNCHANGED <<scanVars, devices, hook, callback, result>>

(* The active flag is poisoned before the box is freed.                    *)
PoisonContext ==
  /\ pc = "pairing"
  /\ result # None
  /\ ~hook
  /\ context = "active"
  /\ context' = "poisoned"
  /\ UNCHANGED <<scanVars, devices, hook, callback, result>>

(* pair() frees the context and returns; a registry that holds a           *)
(* half-paired entry is reported first.                                    *)
FreeContext ==
  /\ pc = "pairing"
  /\ context = "poisoned"
  /\ context' = "freed"
  /\ result' = None
  /\ Send(IF result = "Ok" THEN <<Contract!Event("Paired", AddressToU64(cur.addr))>>
                           ELSE Contract!Failure(AddressToU64(cur.addr), result))
  /\ pc' = IF result = "Ok" /\ ~cur.connected THEN "connecting" ELSE "round"
  /\ UNCHANGED <<quit, pause, cur, osVars, devices, hook, callback>>

(* enable_hid_service: an invalid parameter is stale news of the SDP       *)
(* cache, anything else but success is only logged.                        *)
EnableHid(rc) ==
  /\ pc = "connecting"
  /\ pc' = "round"
  /\ connected' = IF rc = "Ok" THEN connected \cup {cur.addr} ELSE connected
  /\ CASE rc = "Ok"   -> Send(<<Contract!Event("HidEnabled", AddressToU64(cur.addr))>>)
       [] rc = "0x57" -> Send(<<Contract!Event("SdpCacheStale", AddressToU64(cur.addr))>>)
       [] OTHER       -> UNCHANGED scanner_rx
  /\ UNCHANGED <<quit, pause, cur, paired, windowsVars>>

-----------------------------------------------------------------------------
(* auth_callback on the stack's thread: it reads the active flag, and uses *)
(* the rest of the context to answer with the PIN.                         *)
StackCalls ==
  /\ hook
  /\ callback = "idle"
  /\ callback' = "entered"
  /\ UNCHANGED <<scanVars, devices, context, hook, result>>

CallbackChecks ==
  /\ callback = "entered"
  /\ callback' = IF context = "active" THEN "checked" ELSE "idle"
  /\ UNCHANGED <<scanVars, devices, context, hook, result>>

CallbackAnswers ==
  /\ callback = "checked"
  /\ callback' = "idle"
  /\ UNCHANGED <<scanVars, devices, context, hook, result>>

-----------------------------------------------------------------------------
WindowsLoop ==
  \/ WindowsStart
  \/ \E found \in SUBSET Wiimotes : Inquire(found)
  \/ EndDevices
  \/ \E d \in devices : BeginPair(d) \/ VisitDevice(d)
  \/ RegisterCallback \/ RegisterFails
  \/ UnregisterReturns \/ PoisonContext \/ FreeContext
  \/ \E rc \in {"Ok", "0x57", "other"} : EnableHid(rc)
  \/ (EndCooldown \/ StopThread) /\ UNCHANGED windowsVars

AuthCallback == CallbackChecks \/ CallbackAnswers

WindowsNext ==
  \/ WindowsLoop
  \/ \E r \in AuthResults : AuthenticateReturns(r)
  \/ StackCalls \/ AuthCallback

=============================================================================
