--------------------------- MODULE RequestLedger ---------------------------
(***************************************************************************)
(* What the API promises of each request: it is saved at most once; it is  *)
(* acknowledged only when it has been saved; a request settled without     *)
(* saving (refused, or a read) is never saved, before or after its answer; *)
(* a request answered with a server error may or may not have been saved.  *)
(***************************************************************************)
CONSTANTS Request

VARIABLES saved, outcome

ledgerVars == <<saved, outcome>>

LInit ==
    /\ saved = {}
    /\ outcome = [r \in Request |-> "open"]

Save(r) ==
    /\ r \notin saved
    /\ outcome[r] \in {"open", "unknown"}
    /\ saved' = saved \cup {r}
    /\ UNCHANGED outcome

Settle(r, o) ==
    /\ outcome[r] = "open"
    /\ o = "acknowledged" => r \in saved
    /\ o = "unsaved" => r \notin saved
    /\ outcome' = [outcome EXCEPT ![r] = o]
    /\ UNCHANGED saved

LNext ==
    \E r \in Request:
        \/ Save(r)
        \/ \E o \in {"acknowledged", "unsaved", "unknown"}: Settle(r, o)

LSpec == LInit /\ [][LNext]_ledgerVars

\* An outcome stays true: what is saved later was not settled as unsaved.
Truthful ==
    \A r \in Request:
        /\ outcome[r] = "acknowledged" => r \in saved
        /\ outcome[r] = "unsaved" => r \notin saved

=============================================================================
