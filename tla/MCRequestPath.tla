--------------------------- MODULE MCRequestPath ---------------------------
(* Instances of RequestPath for TLC: the kinds of request worth telling     *)
(* apart.                                                                   *)
EXTENDS RequestPath

Post(via, body) ==
    [via |-> via, key |-> TRUE, path |-> "/health", method |-> "POST", body |-> body]

\* Through the gateway: every body class, a read, a bad key and a bad route.
\* Past it (a direct invocation): what only the handler refuses.
AllInputs ==
    {Post("gateway", b) : b \in {"valid", "gap", "invalid"}} \cup
    {Post("direct", "valid"), Post("direct", "invalid"),
     [Post("gateway", "invalid") EXCEPT !.method = "GET"],
     [Post("gateway", "valid") EXCEPT !.key = FALSE],
     [Post("gateway", "valid") EXCEPT !.path = "/other"],
     [Post("direct", "valid") EXCEPT !.path = "/other"],
     [Post("direct", "valid") EXCEPT !.method = "OTHER"]}

=============================================================================
