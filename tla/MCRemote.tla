------------------------------- MODULE MCRemote -------------------------------
(***************************************************************************)
(* A small instance of a Wiimote's link for TLC.                           *)
(***************************************************************************)
EXTENDS RemoteLink, TLC

CONSTANTS nunchuk, guitar

Swap == {(nunchuk :> guitar) @@ (guitar :> nunchuk)}

=============================================================================
