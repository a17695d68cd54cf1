----------------------------- MODULE Preflight -----------------------------
(***************************************************************************)
(* The calls of the deployment-role preflight,                             *)
(* scripts/preflight_deployment_role.py, in their order.  A call is made   *)
(* if the resource it "needs" was found by an earlier one; it may find the *)
(* resource in "finds", by asking for it or in a list.  Where there is no  *)
(* such resource it says "nothing".                                        *)
(***************************************************************************)
EXTENDS Naturals, Sequences

Call(read, needs, by, finds) == [read |-> read, needs |-> needs, by |-> by, finds |-> finds]
Get(read, needs, r) == Call(read, needs, "get", r)
List(read, needs, r) == Call(read, needs, "list", r)
Plain(read, needs) == Call(read, needs, "plain", "nothing")

Identity == <<Plain("sts:get-caller-identity", "nothing"), Plain("account-matches", "nothing")>>

RuntimeRole ==
    <<Get("iam:get-role", "nothing", "role"),
      Plain("iam:list-role-policies", "role"), Plain("iam:list-attached-role-policies", "role")>>

Lambda ==
    <<Get("lambda:get-function-configuration", "nothing", "health"),
      List("lambda:list-versions-by-function", "health", "version"),
      Plain("lambda:get-function-configuration-of-version", "version"),
      Get("lambda:get-alias", "health", "release")>>

DynamoDB ==
    <<Get("dynamodb:describe-table", "nothing", "requests"),
      Plain("dynamodb:describe-continuous-backups", "requests"),
      Plain("dynamodb:describe-time-to-live", "requests"),
      Plain("dynamodb:list-tags-of-resource", "requests")>>

Kms ==
    <<List("kms:list-aliases", "nothing", "dynamodb_key"),
      Plain("kms:describe-key", "dynamodb_key"), Plain("kms:get-key-policy", "dynamodb_key"),
      Plain("kms:get-key-rotation-status", "dynamodb_key"),
      Plain("kms:list-resource-tags", "dynamodb_key")>>

ApiGateway ==
    <<List("apigateway:get-rest-apis", "nothing", "rest_api"),
      Plain("apigateway:get-rest-api", "rest_api"), Plain("apigateway:get-resources", "rest_api"),
      Plain("apigateway:get-deployments", "rest_api"), Plain("apigateway:get-stages", "rest_api"),
      Plain("apigateway:get-tags-of-api", "rest_api"),
      List("apigateway:get-api-keys", "nothing", "api_key"),
      Plain("apigateway:get-api-key", "api_key"), Plain("apigateway:get-tags-of-key", "api_key"),
      List("apigateway:get-usage-plans", "nothing", "usage_plan"),
      Plain("apigateway:get-usage-plan", "usage_plan"),
      Plain("apigateway:get-tags-of-plan", "usage_plan")>>

Observability ==
    <<Plain("logs:describe-log-groups", "nothing"), Plain("cloudwatch:describe-alarms", "nothing"),
      Get("cloudwatch:get-dashboard", "nothing", "dashboard")>>

Network ==
    <<Plain("ec2:describe-vpcs", "nothing"), Plain("ec2:describe-subnets", "nothing"),
      Plain("ec2:describe-route-tables", "nothing"), Plain("ec2:describe-security-groups", "nothing"),
      Plain("ec2:describe-vpc-endpoints", "nothing"), Plain("ec2:describe-security-group-rules", "nothing")>>

Script == Identity \o RuntimeRole \o Lambda \o DynamoDB \o Kms \o ApiGateway \o Observability \o Network

\* Variant: a function is taken to have its alias.
AliasExpected ==
    {"iam:get-role", "lambda:get-function-configuration", "dynamodb:describe-table",
     "cloudwatch:get-dashboard"}

\* The calls made with allow_missing.
AllowMissing == AliasExpected \cup {"lambda:get-alias"}

\* Variant: with allow_missing any error is taken to mean that the resource is missing.
AnyErrorIsMissing(call, may, present) ==
    call.read \notin AllowMissing /\ (~may \/ (call.by = "get" /\ call.finds \notin present))

\* AwsCli.json raises: the role may not make the call, or what it asks for is
\* missing and may not be.
Raises(call, may, present) ==
    ~may \/ (call.by = "get" /\ call.finds \notin present /\ call.read \notin AllowMissing)

=============================================================================
