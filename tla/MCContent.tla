----------------------------- MODULE MCContent -----------------------------
(***************************************************************************)
(* The decision of a proposal, the content of its session and the files of *)
(* its speaker.  The modules share no variable, so each behaviour follows  *)
(* one of them, which `side' names.                                        *)
(***************************************************************************)
EXTENDS Decision, Sessions, Files, TLC

VARIABLE side

ContentInit ==
  /\ side \in {"decision", "session", "reviews", "profile"}
  /\ DecisionInit /\ SessionInit /\ FilesInit

ContentNext ==
  /\ UNCHANGED side
  /\ \/ side = "decision" /\ DecisionNext /\ UNCHANGED <<sessionVars, filesVars>>
     \/ side = "session" /\ SessionNext /\ UNCHANGED <<decisionVars, filesVars>>
     \* reviews of files, or edits of the profile: both with every upload, and neither
     \* reads what the other writes
     \/ /\ side \in {"reviews", "profile"} /\ FilesNext /\ UNCHANGED <<decisionVars, sessionVars>>
        /\ \A r \in Requests :
             request'[r].at \notin IF side = "reviews" THEN {"profile", "restore"} ELSE {"review"}

ContentSpec == ContentInit /\ [][ContentNext]_<<decisionVars, sessionVars, filesVars, side>>

\* One set of values serves the interchangeable actors of several modules.
Symmetry ==
  Permutations(Requests) \cup Permutations(Uploads) \cup Permutations(Containers)
=============================================================================
