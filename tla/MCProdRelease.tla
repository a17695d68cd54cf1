--------------------------- MODULE MCProdRelease ---------------------------
(***************************************************************************)
(* Instances of ProdRelease for TLC.  Runs and commits are interchangeable.*)
(* A run that checks liveness cannot use Symmetric: it takes 1, 2, ... for *)
(* runs and commits and leaves out behaviours that are another one with    *)
(* its runs or commits renamed.  InOrder lets runs begin in order and,     *)
(* until one has begun on a new plane, with commit 1; OldestFirst does the *)
(* same for the commit that is deployed at the start.  OneDeploys lets a   *)
(* third run take part in what the concurrency group decides: when three   *)
(* have begun, one has had a job, another may be at its gates, and nobody  *)
(* moves the alias.                                                        *)
(***************************************************************************)
EXTENDS ProdRelease, TLC

Symmetric == Permutations(Run) \cup Permutations(Sha)

Untouched == \A r \in Run: phase[r] = "new"

OldestFirst == Untouched /\ versions # <<>> => versions[1] = 1

HadJob(r) ==
    \/ phase[r] \in JobPhases \/ rollback[r] # "none"
    \/ status[r] # "ok" \/ conclusion[r] = "success"

LeftQueue(r) ==
    \/ HadJob(r) \/ phase[r] = "gates" \/ conclusion[r] \in {"failure", "skipped"}
    \/ quality[r] # "waiting" \/ proof[r] # "waiting"

OneDeploys ==
    (\A r \in Run: phase[r] # "new") /\ Cardinality(Run) > 2 =>
        /\ manual = 0
        /\ Cardinality({r \in Run : HadJob(r)}) <= 1
        /\ Cardinality({r \in Run : LeftQueue(r)}) <= 2

InOrder ==
    /\ \A q, r \in Run: q < r /\ phase[q] = "new" => phase'[r] = "new"
    /\ Untouched /\ versions = <<>> => \A r \in Run: sha'[r] # 2

=============================================================================
