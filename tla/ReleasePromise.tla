--------------------------- MODULE ReleasePromise ---------------------------
(***************************************************************************)
(* What the production workflow promises of the commit its alias serves:   *)
(* it changes only inside a deployment attempt, at most one attempt is open*)
(* at a time, an attempt that ends in success leaves its own commit live,  *)
(* and one that reports a completed rollback leaves the commit that was    *)
(* live when the attempt began.                                            *)
(*                                                                         *)
(*   live      the commit the release alias serves, NoSha before the first *)
(*   attempt   per run: its state, its commit and the commit it replaces   *)
(***************************************************************************)
CONSTANTS Sha, Run, NoSha

VARIABLES live, attempt

promiseVars == <<live, attempt>>

Unopened == [state |-> "unopened", commit |-> NoSha, base |-> NoSha]

PInit ==
    /\ live \in Sha \cup {NoSha}
    /\ attempt = [r \in Run |-> Unopened]

Open == {r \in Run : attempt[r].state = "open"}

Begin(r, s) ==
    /\ Open = {}
    /\ attempt[r] = Unopened
    /\ attempt' = [attempt EXCEPT ![r] = [state |-> "open", commit |-> s, base |-> live]]
    /\ UNCHANGED live

\* Releases change only while an attempt is open.
Change(r) ==
    /\ r \in Open
    /\ live' \in Sha
    /\ UNCHANGED attempt

\* How an attempt may end, given the commit that is live at that moment.
Admissible(r, result) ==
    /\ result = "success" => live = attempt[r].commit
    /\ result = "restored" => live = attempt[r].base

Close(r, result) ==
    /\ r \in Open
    /\ Admissible(r, result)
    /\ attempt' = [attempt EXCEPT ![r].state = result]
    /\ UNCHANGED live

\* The run of the attempt ends in the middle of a change (a runner is lost).
CloseBroken(r) ==
    /\ r \in Open
    /\ attempt' = [attempt EXCEPT ![r].state = "broken"]
    /\ live' \in Sha \cup {live}

PNext ==
    \E r \in Run:
        \/ \E s \in Sha: Begin(r, s)
        \/ Change(r)
        \/ \E result \in {"success", "restored"}: Close(r, result)
        \/ CloseBroken(r)

PSpec == PInit /\ [][PNext]_promiseVars

(***************************************************************************)
(* What the promise is worth: until an attempt ends broken, whatever is    *)
(* served between attempts is the first release or one that succeeded.     *)
(***************************************************************************)
Deliberate(first) ==
    {first} \cup {attempt[r].commit : r \in {q \in Run : attempt[q].state = "success"}}

Accountable(first) ==
    (\A r \in Run: attempt[r].state # "broken") =>
        /\ \A r \in Open: attempt[r].base \in Deliberate(first)
        /\ Open = {} => live \in Deliberate(first)

=============================================================================
