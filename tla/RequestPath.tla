---------------------------- MODULE RequestPath ----------------------------
(***************************************************************************)
(* One request to the API, from the caller to the DynamoDB table and back: *)
(* API Gateway's key, route and body checks and its integration timeout;   *)
(* the Lambda execution environments and lambda/handler.py; the boto3      *)
(* client's retries of the conditional put; lost, late and duplicated puts;*)
(* timeouts and crashes of an environment; expiry of items.                *)
(*                                                                         *)
(* Data are classes: a body is "valid", "gap" (accepted by the gateway's   *)
(* schema, refused by the handler: a payload of non-ASCII white space) or  *)
(* "invalid" (refused by both).  An id is any member of Id: collisions of  *)
(* uuid4 are possible here.  MaxPuts bounds boto3's attempts per request.  *)
(***************************************************************************)
EXTENDS Naturals, FiniteSets

CONSTANTS Request, Env, Id, NoRequest, NoId, Inputs, MaxPuts

Input == [via: {"gateway", "direct"}, key: BOOLEAN, path: {"/health", "/other"},
          method: {"GET", "POST", "OTHER"}, body: {"valid", "gap", "invalid"}]

ASSUME InputsAssumption == Inputs \subseteq Input
ASSUME NoRequestAssumption == NoRequest \notin Request
ASSUME NoIdAssumption == NoId \notin Id
ASSUME MaxPutsAssumption == MaxPuts \in Nat \ {0}

VARIABLES
    input,     \* what each request carries
    stage,     \* where it is
    reply,     \* status code its caller got, 0 before any
    shownId,   \* X-Request-Id its caller got
    env,       \* request each execution environment is handling
    client,    \* whether the environment holds the cached _table
    id,        \* request_id the handler drew
    puts,      \* attempts of put_item made for the request
    answer,    \* state of the attempt in progress
    late,      \* abandoned attempts still on their way to DynamoDB
    table,     \* request stored under each id
    expired    \* requests whose item the TTL removed (history)

envVars == <<env, client>>
putVars == <<id, puts, answer, late>>
dbVars == <<table, expired>>
vars == <<input, stage, reply, shownId, envVars, putVars, dbVars>>

NoInput == [via |-> "direct", key |-> FALSE, path |-> "/other",
            method |-> "OTHER", body |-> "invalid"]

TypeOK ==
    /\ input \in [Request -> Inputs \cup {NoInput}]
    /\ stage \in [Request -> {"idle", "gateway", "invoked", "running", "saving",
                              "waiting", "finished"}]
    /\ reply \in [Request -> {0, 200, 400, 403, 404, 405, 429, 500, 502, 504}]
    /\ shownId \in [Request -> Id \cup {NoId}]
    /\ env \in [Env -> Request \cup {NoRequest}]
    /\ client \in [Env -> BOOLEAN]
    /\ id \in [Request -> Id \cup {NoId}]
    /\ puts \in [Request -> 0..MaxPuts]
    /\ answer \in [Request -> {"none", "sent", "lost", "ok", "exists"}]
    /\ late \in [Request -> 0..MaxPuts]
    /\ table \in [Id -> Request \cup {NoRequest}]
    /\ expired \subseteq Request

Init ==
    /\ input = [r \in Request |-> NoInput]
    /\ stage = [r \in Request |-> "idle"]
    /\ reply = [r \in Request |-> 0]
    /\ shownId = [r \in Request |-> NoId]
    /\ env = [e \in Env |-> NoRequest]
    /\ client = [e \in Env |-> FALSE]
    /\ id = [r \in Request |-> NoId]
    /\ puts = [r \in Request |-> 0]
    /\ answer = [r \in Request |-> "none"]
    /\ late = [r \in Request |-> 0]
    /\ table = [i \in Id |-> NoRequest]
    /\ expired = {}

GoTo(r, s) == stage' = [stage EXCEPT ![r] = s]

\* The caller keeps the first answer it gets; a later one finds nobody waiting.
Reply(r, code) == reply' = [reply EXCEPT ![r] = IF @ = 0 THEN code ELSE @]

(***************************************************************************)
(* Callers and API Gateway.                                                *)
(***************************************************************************)
Send(r, x) ==
    /\ stage[r] = "idle"
    /\ input' = [input EXCEPT ![r] = x]
    /\ GoTo(r, IF x.via = "gateway" THEN "gateway" ELSE "invoked")
    /\ UNCHANGED <<reply, shownId, envVars, putVars, dbVars>>

\* Key, route, and for POST the $default request model.
GatewayAdmits(x) ==
    /\ x.key /\ x.path = "/health" /\ x.method \in {"GET", "POST"}
    /\ x.method = "POST" => x.body # "invalid"

\* Without a key or a route the answer is 403, else an unfit body is a 400;
\* throttling may refuse any request.
GatewayRefuses(r, code) ==
    /\ stage[r] = "gateway"
    /\ \/ code = 429
       \/ /\ ~GatewayAdmits(input[r])
          /\ code = IF /\ input[r].key /\ input[r].path = "/health"
                       /\ input[r].method = "POST"
                    THEN 400 ELSE 403
    /\ GoTo(r, "finished")
    /\ Reply(r, code)
    /\ UNCHANGED <<input, shownId, envVars, putVars, dbVars>>

GatewayForwards(r) ==
    /\ stage[r] = "gateway"
    /\ GatewayAdmits(input[r])
    /\ GoTo(r, "invoked")
    /\ UNCHANGED <<input, reply, shownId, envVars, putVars, dbVars>>

\* The integration timeout: the caller is answered, the function goes on.
GatewayTimesOut(r) ==
    /\ stage[r] \in {"invoked", "running", "saving", "waiting"}
    /\ input[r].via = "gateway"
    /\ reply[r] = 0
    /\ Reply(r, 504)
    /\ UNCHANGED <<input, stage, shownId, envVars, putVars, dbVars>>

\* Lambda refuses the invocation: no capacity within the reserved concurrency.
InvocationRefused(r) ==
    /\ stage[r] = "invoked"
    /\ GoTo(r, "finished")
    /\ Reply(r, 500)
    /\ UNCHANGED <<input, shownId, envVars, putVars, dbVars>>

(***************************************************************************)
(* The handler, in one of the execution environments.                      *)
(***************************************************************************)
Start(r, e) ==
    /\ stage[r] = "invoked"
    /\ env[e] = NoRequest
    /\ env' = [env EXCEPT ![e] = r]
    /\ GoTo(r, "running")
    /\ UNCHANGED <<input, reply, shownId, client, putVars, dbVars>>

Return(r, e, code) ==
    /\ env' = [env EXCEPT ![e] = NoRequest]
    /\ GoTo(r, "finished")
    /\ Reply(r, code)
    /\ UNCHANGED input

\* Variant: the handler relies on the gateway's validation of the body.
EarlyAnswerTrusting(x) ==
    IF x.path # "/health" THEN 404
    ELSE IF x.method = "GET" THEN 200
    ELSE IF x.method # "POST" THEN 405
    ELSE 0

\* The answer the handler gives before it touches the table; 0 when it goes on.
EarlyAnswer(x) ==
    IF x.path # "/health" THEN 404
    ELSE IF x.method = "GET" THEN 200
    ELSE IF x.method # "POST" THEN 405
    ELSE IF x.body # "valid" THEN 400
    ELSE 0

AnswerEarly(r, e) ==
    /\ env[e] = r /\ stage[r] = "running"
    /\ EarlyAnswer(input[r]) # 0
    /\ Return(r, e, EarlyAnswer(input[r]))
    /\ UNCHANGED <<shownId, client, putVars, dbVars>>

\* The item is built once, with one id for all attempts to store it.
BuildItem(r, e, i) ==
    /\ env[e] = r /\ stage[r] = "running"
    /\ EarlyAnswer(input[r]) = 0
    /\ id' = [id EXCEPT ![r] = i]
    /\ GoTo(r, "saving")
    /\ UNCHANGED <<input, reply, shownId, envVars, puts, answer, late, dbVars>>

\* _get_table caches the resource; a failure leaves the cache empty.
GetTable(r, e) ==
    /\ env[e] = r /\ stage[r] = "saving" /\ ~client[e]
    /\ \/ /\ client' = [client EXCEPT ![e] = TRUE]
          /\ UNCHANGED <<input, stage, reply, env>>
       \/ /\ Return(r, e, 500)
          /\ UNCHANGED client
    /\ UNCHANGED <<shownId, putVars, dbVars>>

SendPut(r, e) ==
    /\ env[e] = r /\ stage[r] = "saving" /\ client[e]
    /\ GoTo(r, "waiting")
    /\ puts' = [puts EXCEPT ![r] = 1]
    /\ answer' = [answer EXCEPT ![r] = "sent"]
    /\ UNCHANGED <<input, reply, shownId, envVars, id, late, dbVars>>

(***************************************************************************)
(* DynamoDB: the conditional put, its answer and its loss.                 *)
(***************************************************************************)
\* Variant: put_item without its condition.
PutUnconditionally(r) ==
    table' = [table EXCEPT ![id[r]] = r]

\* attribute_not_exists(request_id)
Put(r) ==
    table' = IF table[id[r]] = NoRequest THEN [table EXCEPT ![id[r]] = r] ELSE table

PutAnswer(r) == IF table[id[r]] = NoRequest THEN "ok" ELSE "exists"

\* The put is applied; the answer to it may be lost.
PutApplied(r) ==
    /\ answer[r] = "sent"
    /\ Put(r)
    /\ \E a \in {PutAnswer(r), "lost"}: answer' = [answer EXCEPT ![r] = a]
    /\ UNCHANGED <<input, stage, reply, shownId, envVars, id, puts, late, expired>>

\* The put is refused or never arrives.
PutDropped(r) ==
    /\ answer[r] = "sent"
    /\ answer' = [answer EXCEPT ![r] = "lost"]
    /\ UNCHANGED <<input, stage, reply, shownId, envVars, id, puts, late, dbVars>>

\* An abandoned attempt arrives after all, or is dropped on its way.
LatePut(r) ==
    /\ late[r] > 0
    /\ late' = [late EXCEPT ![r] = @ - 1]
    /\ Put(r) \/ UNCHANGED table
    /\ UNCHANGED <<input, stage, reply, shownId, envVars, id, puts, answer, expired>>

\* An attempt given up before DynamoDB took it is still under way.
Abandon(r) ==
    late' = [late EXCEPT ![r] = IF answer[r] = "sent" THEN @ + 1 ELSE @]

\* Variant: the handler draws a new id for every attempt.
RetryWithNewId(r) ==
    /\ stage[r] = "waiting" /\ answer[r] \in {"sent", "lost"}
    /\ puts[r] < MaxPuts
    /\ puts' = [puts EXCEPT ![r] = @ + 1]
    /\ \E i \in Id: id' = [id EXCEPT ![r] = i]
    /\ answer' = [answer EXCEPT ![r] = "sent"]
    /\ UNCHANGED <<input, stage, reply, shownId, envVars, late, dbVars>>

\* Variant: the client retries without counting its attempts.
RetryForever(r) ==
    /\ stage[r] = "waiting" /\ answer[r] \in {"sent", "lost"}
    /\ answer' = [answer EXCEPT ![r] = "sent"]
    /\ UNCHANGED <<input, stage, reply, shownId, envVars, id, puts, late, dbVars>>

\* Variant: one attempt more than the client is configured for.
RetryOnceMore(r) ==
    /\ stage[r] = "waiting" /\ answer[r] \in {"sent", "lost"}
    /\ puts[r] <= MaxPuts
    /\ puts' = [puts EXCEPT ![r] = @ + 1]
    /\ Abandon(r)
    /\ answer' = [answer EXCEPT ![r] = "sent"]
    /\ UNCHANGED <<input, stage, reply, shownId, envVars, id, dbVars>>

\* boto3 sends the same put again after a timeout or a retryable error.
Retry(r) ==
    /\ stage[r] = "waiting" /\ answer[r] \in {"sent", "lost"}
    /\ puts[r] < MaxPuts
    /\ puts' = [puts EXCEPT ![r] = @ + 1]
    /\ Abandon(r)
    /\ answer' = [answer EXCEPT ![r] = "sent"]
    /\ UNCHANGED <<input, stage, reply, shownId, envVars, id, dbVars>>

\* The last attempt failed: any exception of put_item is answered with 500.
GiveUp(r, e) ==
    /\ env[e] = r /\ stage[r] = "waiting" /\ answer[r] \in {"sent", "lost"}
    /\ puts[r] = MaxPuts
    /\ Abandon(r)
    /\ answer' = [answer EXCEPT ![r] = "none"]
    /\ Return(r, e, 500)
    /\ UNCHANGED <<shownId, client, id, puts, dbVars>>

\* Variant: a failed condition is reported as the caller's mistake.
ExistsIsCallersFault(a) == IF a = "ok" THEN 200 ELSE 400

\* Variant: an item that exists already is taken for the request's own.
ExistsIsSuccess(a) == 200

CodeFor(a) == IF a = "ok" THEN 200 ELSE 500

AnswerPut(r, e) ==
    /\ env[e] = r /\ stage[r] = "waiting" /\ answer[r] \in {"ok", "exists"}
    /\ Return(r, e, CodeFor(answer[r]))
    /\ shownId' = IF CodeFor(answer[r]) = 200 /\ reply[r] = 0
                     THEN [shownId EXCEPT ![r] = id[r]] ELSE shownId
    /\ answer' = [answer EXCEPT ![r] = "none"]
    /\ UNCHANGED <<client, id, puts, late, dbVars>>

\* The function's timeout or a crash: the environment starts over.
EnvironmentDies(r, e) ==
    /\ env[e] = r
    /\ client' = [client EXCEPT ![e] = FALSE]
    /\ Abandon(r)
    /\ answer' = [answer EXCEPT ![r] = "none"]
    /\ Return(r, e, 502)
    /\ UNCHANGED <<shownId, id, puts, dbVars>>

\* Lambda takes an idle environment away; the next one starts cold.
EnvironmentRecycled(e) ==
    /\ env[e] = NoRequest /\ client[e]
    /\ client' = [client EXCEPT ![e] = FALSE]
    /\ UNCHANGED <<input, stage, reply, shownId, env, putVars, dbVars>>

\* The TTL removes an item long after every attempt to write it has ended.
Expire(i) ==
    /\ table[i] # NoRequest
    /\ stage[table[i]] = "finished" /\ late[table[i]] = 0
    /\ table' = [table EXCEPT ![i] = NoRequest]
    /\ expired' = expired \cup {table[i]}
    /\ UNCHANGED <<input, stage, reply, shownId, envVars, putVars>>

(***************************************************************************)
(* The specification.                                                      *)
(***************************************************************************)
Gateway(r) ==
    \/ \E code \in {400, 403, 429}: GatewayRefuses(r, code)
    \/ GatewayForwards(r) \/ GatewayTimesOut(r)

Handler(r, e) ==
    \/ AnswerEarly(r, e) \/ (\E i \in Id: BuildItem(r, e, i))
    \/ GetTable(r, e) \/ SendPut(r, e) \/ GiveUp(r, e) \/ AnswerPut(r, e)

Next ==
    \/ \E r \in Request:
        \/ \E x \in Inputs: Send(r, x)
        \/ Gateway(r) \/ InvocationRefused(r)
        \/ PutApplied(r) \/ PutDropped(r) \/ LatePut(r) \/ Retry(r)
        \/ \E e \in Env: Start(r, e) \/ Handler(r, e) \/ EnvironmentDies(r, e)
    \/ \E e \in Env: EnvironmentRecycled(e)
    \/ \E i \in Id: Expire(i)

Spec == Init /\ [][Next]_vars

\* The gateway, the handler and boto3's timeouts go on; nothing else has to:
\* in particular DynamoDB may never answer and no environment has to die.
Fairness ==
    /\ \A r \in Request: WF_vars(Gateway(r)) /\ WF_vars(Retry(r))
    /\ \A r \in Request: WF_vars(\E e \in Env: Start(r, e) \/ Handler(r, e))

FairSpec == Spec /\ Fairness

(***************************************************************************)
(* Safety.                                                                 *)
(***************************************************************************)
Stored == {table[i] : i \in Id} \ {NoRequest}
Saved == Stored \cup expired

\* A POST answered with 200 has an item under the id it was shown, and it is
\* its own item, not one that already stood there: until the TTL removes it.
Acknowledged(r) == reply[r] = 200 /\ input[r].method = "POST"
AcknowledgedItemIsStored ==
    \A r \in Request:
        Acknowledged(r) =>
            shownId[r] # NoId /\ (table[shownId[r]] = r \/ r \in expired)

\* However often the put is retried, lost or late, a request has one item.
OneItemPerRequest ==
    \A i, j \in Id: table[i] # NoRequest /\ table[i] = table[j] => i = j

\* Whatever the gateway lets through, only bodies the handler accepts are stored.
OnlyValidBodiesStored ==
    \A r \in Saved: input[r].method = "POST" /\ input[r].body = "valid"

\* A stored item is never replaced by another, not even after an id collision.
ItemsAreNeverReplaced ==
    [][\A i \in Id: table[i] # NoRequest /\ table'[i] # table[i] =>
          table'[i] = NoRequest]_vars

(***************************************************************************)
(* The ledger this path implements: a read or a refusal settles a request  *)
(* unsaved, an acknowledged POST saved, a server error leaves it unknown.  *)
(***************************************************************************)
Outcome ==
    [r \in Request |->
        IF reply[r] = 0 THEN "open"
        ELSE IF Acknowledged(r) THEN "acknowledged"
        ELSE IF reply[r] < 500 THEN "unsaved"
        ELSE "unknown"]

Ledger == INSTANCE RequestLedger WITH saved <- Saved, outcome <- Outcome

\* Every step of the path is a step of the ledger or leaves it alone.
KeepsLedger == Ledger!LSpec

(***************************************************************************)
(* Liveness.                                                               *)
(***************************************************************************)
\* The handler frees its environment again even if DynamoDB never answers.
HandlerEnds ==
    \A e \in Env: env[e] # NoRequest ~> env[e] = NoRequest

=============================================================================
