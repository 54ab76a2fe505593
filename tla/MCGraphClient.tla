--------------------------- MODULE MCGraphClient ---------------------------
(***************************************************************************)
(* Small instances of GraphClient for TLC.                                 *)
(***************************************************************************)
EXTENDS GraphClient, TLC

\* Three pages of two, no and one items.
MCPageEnd == 0 :> 0 @@ 1 :> 2 @@ 2 :> 2 @@ 3 :> 3
=============================================================================
