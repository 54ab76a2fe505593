---------------------------- MODULE PagedListing ----------------------------
(***************************************************************************)
(* What a listing of Azure resources promises to the step that asked for   *)
(* it, whatever client performs it: resources are handed to the callback   *)
(* one by one, each once and in the order of the service; the listing then *)
(* ends, and its outcome tells apart a complete listing, one that an       *)
(* absorbed error cut short, and a failed one.                             *)
(*                                                                         *)
(* The resources of a listing are numbered 1..Total in the service's order.*)
(* A client performs several listings one after another (Restart).         *)
(***************************************************************************)
EXTENDS Naturals, Sequences

CONSTANT Total                  \* how many resources the service would list

VARIABLES delivered,            \* the resources handed to the callback so far
          outcome               \* how the listing ended, "running" before

vars == <<delivered, outcome>>

Outcomes == {"running", "complete", "partial", "failed"}

Init == /\ delivered = <<>>
        /\ outcome = "running"

Deliver ==
    /\ outcome = "running"
    /\ Len(delivered) < Total
    /\ delivered' = Append(delivered, Len(delivered) + 1)
    /\ UNCHANGED outcome

\* Only a listing that handed over everything may call itself complete.
End ==
    /\ outcome = "running"
    /\ outcome' \in Outcomes \ {"running"}
    /\ outcome' = "complete" => Len(delivered) = Total
    /\ UNCHANGED delivered

Restart ==
    /\ outcome # "running"
    /\ delivered' = <<>>
    /\ outcome' = "running"

Next == Deliver \/ End \/ Restart

Spec == Init /\ [][Next]_vars

=============================================================================
