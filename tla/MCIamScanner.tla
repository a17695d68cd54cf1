---------------------------- MODULE MCIamScanner ----------------------------
(***************************************************************************)
(* IamScanner over two interchangeable sids, with at most MaxWild          *)
(* wildcards in the source and in the catalogue all told.  Where a garbled *)
(* line has a say, SmallWhenGarbled leaves one wildcard on either side and *)
(* no list: the search for sids does not look at lists.  Undecided stops   *)
(* where an action wildcard was found and refused: neither is taken back.  *)
(***************************************************************************)
EXTENDS IamScanner, TLC

CONSTANTS s1, s2

Symmetric == Permutations(Sid)

Total(f) == f[s1] + f[s2] + f[NoSid]

FewWildcards == Total(truth.wild) <= MaxWild /\ Total(allowed) <= MaxWild

SmallWhenGarbled ==
    truth.lead = "garbled" \/ truth.doubt \/ truth.misled =>
        /\ truth.brackets = 0 /\ truth.base = -1
        /\ Total(truth.wild) <= 1 /\ Total(allowed) <= 1

Undecided == ~(truth.action /\ file.failed)

=============================================================================
