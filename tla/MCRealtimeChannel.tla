------------------------- MODULE MCRealtimeChannel -------------------------
(***************************************************************************)
(* Two instances and two clients, each on any of them: both on one, or     *)
(* moving to it while messages of the other instance are on their way.     *)
(***************************************************************************)
EXTENDS RealtimeChannel

CONSTANTS left, right, ann, bob, none
=============================================================================
