----------------------------- MODULE CopyPromise -----------------------------
(***************************************************************************)
(* What a copy or a move promises, whoever executes it: the row tells the  *)
(* truth about the two paths.  A user may cancel until the publication is  *)
(* admitted, and then no more; a pause leaves the destination alone; only  *)
(* a move removes its source, and only after the destination was           *)
(* published; "completed" means that everything was done.                  *)
(*                                                                         *)
(* A directory that is copied on one agent does not ask before it is       *)
(* published: it is not gated, and a cancel may come too late.             *)
(***************************************************************************)

VARIABLES
  move,       \* the copy deletes its source
  gated,      \* its publication is admitted by the router
  kept,       \* the source is still there
  published,  \* the destination was replaced
  report      \* the row, as the user sees it

promiseVars == <<move, gated, kept, published, report>>
paths       == <<kept, published>>

PromiseInit ==
  /\ move \in BOOLEAN /\ gated \in BOOLEAN
  /\ kept = TRUE /\ published = FALSE /\ report = "none"

Reports(from, to) ==
  /\ report \in from /\ report' = to
  /\ UNCHANGED <<move, gated, paths>>

Begin    == Reports({"none"}, "active")
Admit    == Reports({"active"}, "committed")
Cancel   == Reports({"active"}, "canceling")
Canceled == Reports({"canceling"}, "canceled") /\ (gated => ~published)
Paused   == Reports({"canceling"}, "paused") /\ ~published
Failed   == Reports({"none", "active", "committed", "canceling"}, "errored")
Complete ==
  /\ Reports({"active", "committed", "canceling"}, "completed")
  /\ published /\ (move => ~kept)

MayPublish ==
  IF gated THEN report \in {"committed", "errored"} ELSE report # "none"

Publish ==
  /\ ~published /\ published' = TRUE /\ MayPublish
  /\ report \notin {"completed", "paused"}
  /\ UNCHANGED <<move, gated, kept, report>>

\* A rename publishes and removes at once.
Remove ==
  /\ move /\ kept /\ kept' = FALSE
  /\ \/ published /\ UNCHANGED published
     \/ ~published /\ published' = TRUE /\ MayPublish
  /\ report \notin {"completed", "paused"}
  /\ UNCHANGED <<move, gated, report>>

PromiseNext ==
  Begin \/ Admit \/ Cancel \/ Canceled \/ Paused \/ Failed \/ Complete
  \/ Publish \/ Remove

PromiseSpec == PromiseInit /\ [][PromiseNext]_promiseVars

=============================================================================
