------------------------------ MODULE Document ------------------------------
(***************************************************************************)
(* What the history of a session promises: every change appends one        *)
(* version to the last one, no version is lost or replaced, an edit takes  *)
(* an approval back, and content becomes approved only by an approval of   *)
(* the last version or by restoring a version that was approved.           *)
(***************************************************************************)
EXTENDS Naturals, Sequences

CONSTANTS
  Contents,  \* title and abstract, as one value
  Original   \* the content the document starts with

VARIABLE versions

Last == versions[Len(versions)]

Init == versions = <<[content |-> Original, status |-> "draft"]>>

\* The content changes; what was approved has to be reviewed again.
Edit(c) ==
  versions' = Append(versions,
    [content |-> c, status |-> IF Last.status = "approved" THEN "in_review" ELSE Last.status])

\* The last version is approved, or its approval is taken back.
Judge(s) == versions' = Append(versions, [Last EXCEPT !.status = s])

\* An earlier version becomes the last one, with the status it had.
Restore(n) == versions' = Append(versions, versions[n])

Next ==
  \/ \E c \in Contents : Edit(c)
  \/ \E s \in {"draft", "in_review", "approved"} : Judge(s)
  \/ \E n \in DOMAIN versions : Restore(n)

Spec == Init /\ [][Next]_versions
=============================================================================
