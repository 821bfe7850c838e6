------------------------------- MODULE MCDaemon -------------------------------
(***************************************************************************)
(* Small instances of the daemon for TLC.                                  *)
(***************************************************************************)
EXTENDS DaemonProperties, TLC

CONSTANTS d1, d2, p1, p2

EmptyFile == {[k \in {} |-> None]}

(* Every Wiimote keeps the HID path it was first seen at.                  *)
OwnPath == [d \in Devices |-> IF d = d1 THEN {p1} ELSE {p2}]

(* These are the instances the theorems on SteadyPaths are about.          *)
ASSUME OwnPathsAreSteady == Home = OwnPath => SteadyPaths

(* With OwnPath, exchanging the two Wiimotes together with their paths     *)
(* changes nothing.                                                        *)
Exchange == {(d1 :> d2) @@ (d2 :> d1) @@ (p1 :> p2) @@ (p2 :> p1)}

(* The OS may hand any path to any Wiimote.                                *)
AnyPath == [d \in Devices |-> Paths]

=============================================================================
