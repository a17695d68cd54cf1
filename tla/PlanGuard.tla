----------------------------- MODULE PlanGuard -----------------------------
(***************************************************************************)
(* The saved-plan guard, scripts/check_terraform_plan.py: what audit finds *)
(* wrong with the plan of one release.  A release is told by where its     *)
(* configuration departs from the required one:                            *)
(*   <<"bad", r, c>>          control c of resource r has another value    *)
(*   <<"dropped", r, a>>      reference a of r is empty                    *)
(*   <<"misdirected", r, a>>  reference a of r names something else        *)
(*   <<"removed", r, "itself">>   r is no longer declared                  *)
(*   <<"replaced", r, "itself">>  a change of r that Terraform makes by    *)
(*                                destroying r and creating it again       *)
(* Resources have the names they have in Terraform, where these tell them  *)
(* apart.                                                                  *)
(***************************************************************************)
EXTENDS FiniteSets

Required ==
    {"requests", "dynamodb_key", "health", "release", "rest_api", "get", "post", "model",
     "validator", "integration_get", "integration_post", "settings_get", "settings_post",
     "api_key", "usage_plan", "usage_plan_key", "permission_get", "permission_post"}

AllowedReplacements == {"deployment"}

\* Managed by Terraform too, and not required by the guard: one resource of each other kind.
Managed == Required \cup AllowedReplacements \cup {"role", "dashboard"}

(***************************************************************************)
(* The values the guard compares, by resource.                             *)
(***************************************************************************)
DataControls ==
    ({"requests"} \X {"name", "billing_mode", "hash_key", "attribute", "sse", "pitr", "ttl",
                      "deletion_protection"})
    \cup {<<"dynamodb_key", "rotation">>}

LambdaControls ==
    ({"health"} \X {"function_name", "concurrency", "vpc_config", "publish"})
    \cup ({"release"} \X {"name", "function_name"})
    \cup ({"permission_get", "permission_post"} \X {"action", "principal", "function_name", "qualifier"})

SchemaControls ==
    {"model"} \X {"type", "additionalProperties", "required", "payload", "payload.type", "minLength",
                  "maxLength", "pattern", "title"}

ApiControls ==
    ({"rest_api"} \X {"name", "security_policy", "endpoint_access_mode"})
    \cup ({"model"} \X {"name", "content_type"})
    \cup ({"get", "post"} \X {"http_method", "api_key_required"})
    \cup {<<"post", "request_models">>, <<"validator", "validate_request_body">>}

UsageControls ==
    ({"settings_get", "settings_post"} \X {"rate", "burst", "metrics"})
    \cup ({"api_key"} \X {"name", "enabled"})
    \cup ({"usage_plan"} \X {"rate", "burst"})
    \cup {<<"usage_plan_key", "key_type">>}

Control == DataControls \cup LambdaControls \cup SchemaControls \cup ApiControls \cup UsageControls

\* Deletion protection is required in production only.
Compared(env) == IF env = "prod" THEN Control ELSE Control \ {<<"requests", "deletion_protection">>}

(***************************************************************************)
(* The values that name another resource, empty, unknown or known in the   *)
(* plan.  For those in Matched a known value is compared as well.          *)
(***************************************************************************)
Matched ==
    {<<"release", "function_version">>, <<"integration_get", "uri">>, <<"integration_post", "uri">>,
     <<"permission_get", "source_arn">>, <<"permission_post", "source_arn">>}

Reference ==
    Matched \cup {<<"requests", "kms_key_arn">>, <<"health", "version">>, <<"post", "request_validator_id">>}

\* The resource whose creation makes the value: the right one, or, for a
\* misdirected uri, the function without its alias.  $LATEST needs none.
Named(kind, ref) ==
    CASE ref[2] = "uri" -> IF kind = "misdirected" THEN "health" ELSE "release"
      [] ref[2] = "source_arn" -> "rest_api"
      [] ref[2] = "kms_key_arn" -> "dynamodb_key"
      [] ref[2] = "request_validator_id" -> "validator"
      [] OTHER -> "health"

Literal(kind, ref) == kind = "misdirected" /\ ref[2] = "function_version"

Deviation ==
    {<<"bad", c[1], c[2]>> : c \in Control}
    \cup {<<k, a[1], a[2]>> : k \in {"dropped", "misdirected"}, a \in Reference}
    \cup {<<k, r, "itself">> : k \in {"removed", "replaced"}, r \in Managed}

(***************************************************************************)
(* The plan of a configuration on the resources that are present, and its  *)
(* audit.                                                                  *)
(***************************************************************************)
Actions(config, present, r) ==
    IF <<"removed", r, "itself">> \in config THEN IF r \in present THEN {"delete"} ELSE {}
    ELSE IF r \notin present THEN {"create"}
    ELSE IF <<"replaced", r, "itself">> \in config THEN {"create", "delete"} ELSE {"update"}

Listed(config, present) == {r \in Managed : Actions(config, present, r) # {}}

\* Variant: any replacement is taken for that of the deployment.
AnyReplacement(config, present) ==
    \E r \in Managed: Actions(config, present, r) = {"delete"}

Destructive(config, present) ==
    \E r \in Managed:
        /\ "delete" \in Actions(config, present, r)
        /\ ~(Actions(config, present, r) = {"create", "delete"} /\ r \in AllowedReplacements)

Value(config, present, ref) ==
    LET kind == IF <<"misdirected", ref[1], ref[2]>> \in config THEN "misdirected" ELSE "right"
    IN IF <<"dropped", ref[1], ref[2]>> \in config THEN "empty"
       ELSE IF Named(kind, ref) \notin present /\ ~Literal(kind, ref) THEN "unknown"
       ELSE kind

\* Variant: a value is compared only if the plan lists nothing missing.
ComparedIfAllPresent(env, config, present) ==
    Required \subseteq present /\ \E c \in Compared(env): <<"bad", c[1], c[2]>> \in config

BadValue(env, config, present) ==
    \E c \in Compared(env): <<"bad", c[1], c[2]>> \in config

\* Variant: a value that is not known yet is refused.
KnownOnly(config, present) ==
    \E ref \in Reference: Value(config, present, ref) \in {"empty", "unknown"}

\* Variant: only whether there is a value is looked at.
PresenceOnly(config, present) ==
    \E ref \in Reference: Value(config, present, ref) = "empty"

BadReference(config, present) ==
    \E ref \in Reference:
        \/ Value(config, present, ref) = "empty"
        \/ ref \in Matched /\ Value(config, present, ref) = "misdirected"

AuditErrs(env, config, present) ==
    \/ Destructive(config, present)
    \/ Required \ Listed(config, present) # {}
    \/ BadValue(env, config, present)
    \/ BadReference(config, present)

=============================================================================
