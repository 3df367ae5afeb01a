---------------------------- MODULE Publication ----------------------------
(***************************************************************************)
(* What the server promises of one upload (ARCHITECTURE.md, "Publication   *)
(* is a separate step decided by the router"): one verdict orders the      *)
(* change of the destination against everything that may end the transfer. *)
(***************************************************************************)
VARIABLES
  verdict,      \* "open", then once and for all "accepted" or "refused"
  destination,  \* "old" or "new"
  report        \* what the history says of the transfer

promise == <<verdict, destination, report>>

Init == verdict = "open" /\ destination = "old" /\ report = "active"

Accept ==
  /\ verdict = "open" /\ report = "active"
  /\ verdict' = "accepted"
  /\ UNCHANGED <<destination, report>>

\* A cancel or failure before the verdict; the report may follow later.
Refuse ==
  /\ verdict = "open"
  /\ verdict' = "refused"
  /\ report' \in {"active", "canceled", "errored"}
  /\ UNCHANGED destination

\* Nothing but an accepted upload replaces the destination, even when its
\* transfer was reported lost.
Publish ==
  /\ verdict = "accepted" /\ destination = "old"
  /\ destination' = "new"
  /\ UNCHANGED <<verdict, report>>

\* The transfer ends once, as completed only when the destination changed and
\* as canceled only when it never will.
Report ==
  /\ report = "active"
  /\ \/ report' = "completed" /\ destination = "new"
     \/ report' = "canceled" /\ verdict = "refused"
     \/ report' = "errored" /\ verdict # "open"
  /\ UNCHANGED <<verdict, destination>>

Next == Accept \/ Refuse \/ Publish \/ Report

Spec == Init /\ [][Next]_promise
=============================================================================
