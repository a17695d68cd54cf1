-------------------------- MODULE MCStagingRelease --------------------------
(***************************************************************************)
(* Instances of StagingRelease for TLC.  Runs and commits are              *)
(* interchangeable, so the run takes 1, 2, ... for them and leaves out     *)
(* behaviours that are another one with its runs or commits renamed (a     *)
(* SYMMETRY set is not sound for liveness).  InOrder lets runs begin in    *)
(* order and, until one has begun on a new plane, with commit 1;           *)
(* OldestFirst does the same for the commit deployed at the start.         *)
(***************************************************************************)
EXTENDS StagingRelease

Untouched == \A r \in Run: phase[r] = "new"

OldestFirst == Untouched /\ versions # <<>> => versions[1] = 1

InOrder ==
    /\ \A q, r \in Run: q < r /\ phase[q] = "new" => phase'[r] = "new"
    /\ Untouched /\ versions = <<>> => \A r \in Run: sha'[r] # 2

=============================================================================
