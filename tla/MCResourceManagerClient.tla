---------------------- MODULE MCResourceManagerClient ----------------------
(***************************************************************************)
(* Small instances of ResourceManagerClient for TLC.                       *)
(***************************************************************************)
EXTENDS ResourceManagerClient, TLC

\* Three pages of two, no and one resources: Azure may answer an empty page
\* that still has a nextLink.
MCPageEnd == 0 :> 0 @@ 1 :> 2 @@ 2 :> 2 @@ 3 :> 3

\* Two pages of one resource each.
MCTwoPages == 0 :> 0 @@ 1 :> 1 @@ 2 :> 2
=============================================================================
