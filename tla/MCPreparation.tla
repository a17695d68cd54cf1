--------------------------- MODULE MCPreparation ---------------------------
(***************************************************************************)
(* Preparation for TLC: two orders in which Terraform may build the stack, *)
(* the function or the API first; releases with at most two deviations, at *)
(* most one live at once, and none while an apply outlives its run: the    *)
(* preflight beside it does not read them.  Staging, which differs in one  *)
(* control, is built in the first order only.                              *)
(***************************************************************************)
EXTENDS Preparation

Data == <<"role", "dynamodb_key", "requests">>
Function == <<"health", "version", "release">>
Api == <<"rest_api", "model", "validator", "get", "post", "api_key">>
Bound ==
    <<"integration_get", "integration_post", "deployment", "settings_get", "settings_post",
      "usage_plan", "usage_plan_key", "permission_get", "permission_post", "dashboard">>

Orders == {Data \o Function \o Api \o Bound, Api \o Data \o Function \o Bound}

AtMostOne(S) == {{}} \cup {{x} : x \in S}

\* Each deviation alone and beside one of every kind.
Typical ==
    {<<"bad", "requests", "pitr">>, <<"misdirected", "integration_get", "uri">>,
     <<"removed", "validator", "itself">>, <<"replaced", "deployment", "itself">>}

Configs == {S \cup T : S \in AtMostOne(Deviation), T \in AtMostOne(Typical)}

FewDeviations ==
    /\ env = "staging" => order[1] = "role"
    /\ Cardinality(live) <= 1
    /\ tf = "on" /\ phase # "apply" => config \cup live = {}

=============================================================================
