------------------------ MODULE RequestPath_proofs ------------------------
(***************************************************************************)
(* Proofs about RequestPath, for any number of requests, environments,     *)
(* ids and attempts: also when ids collide, answers are lost, and attempts *)
(* arrive after they were given up.                                        *)
(*                                                                         *)
(* An attempt that was given up can reach the table when its request has   *)
(* long been answered, so the properties are about the past of a request.  *)
(* IndInv ties an id to the stage a request got to, an item to the id of   *)
(* its request, and an answer to what can still reach the table after it.  *)
(***************************************************************************)
EXTENDS RequestPath, TLAPS

\* Attempts still under way are among the attempts made.
PutsCounted ==
    \A r \in Request: late[r] + (IF answer[r] = "sent" THEN 1 ELSE 0) <= puts[r]

\* Only a request the handler accepted has an id, and only one with an id has
\* attempts.
PutsFollowId ==
    \A r \in Request:
        /\ answer[r] # "none" => stage[r] = "waiting"
        /\ stage[r] \in {"idle", "gateway", "invoked", "running"} => id[r] = NoId
        /\ stage[r] \in {"saving", "waiting"} => id[r] # NoId
        /\ stage[r] = "saving" \/ id[r] = NoId => late[r] = 0
        /\ stage[r] = "idle" => reply[r] = 0
        /\ id[r] # NoId => EarlyAnswer(input[r]) = 0

\* An item stands under the id its request drew.
ItemsUnderOwnId ==
    /\ \A i \in Id: table[i] # NoRequest => id[table[i]] = i
    /\ \A r \in expired: id[r] # NoId

\* An attempt that was told it stored its item did.
OkIsStored == \A r \in Request: answer[r] = "ok" => table[id[r]] = r

\* A request is told 200 for a POST when its item has been stored, and refused
\* only when nothing of it can reach the table any more.
RepliesAreTrue ==
    \A r \in Request:
        /\ Acknowledged(r) => id[r] # NoId /\ shownId[r] = id[r] /\ r \in Saved
        /\ reply[r] \in {200, 400, 403, 404, 405, 429} /\ ~Acknowledged(r) =>
              stage[r] = "finished" /\ id[r] = NoId

IndInv ==
    /\ TypeOK
    /\ PutsCounted
    /\ PutsFollowId
    /\ ItemsUnderOwnId
    /\ OkIsStored
    /\ RepliesAreTrue

(***************************************************************************)
(* The operators of the model.                                             *)
(***************************************************************************)
\* What the handler answers early, and what it goes on with.
LEMMA EarlyAnswers ==
    ASSUME NEW x
    PROVE  /\ EarlyAnswer(x) \in {0, 200, 400, 404, 405}
           /\ EarlyAnswer(x) = 0 => x.method = "POST" /\ x.body = "valid"
           /\ EarlyAnswer(x) = 200 => x.method # "POST"
BY DEF EarlyAnswer

\* A conditional put stores the item when its id is free, and else nothing.
LEMMA PutStores ==
    ASSUME TypeOK, NEW r \in Request, id[r] \in Id, Put(r)
    PROVE  /\ table' \in [Id -> Request \cup {NoRequest}]
           /\ \A i \in Id: table'[i] = table[i] \/ (i = id[r] /\ table[i] = NoRequest /\ table'[i] = r)
           /\ table[id[r]] = NoRequest => table'[id[r]] = r /\ Stored' = Stored \cup {r}
           /\ table[id[r]] # NoRequest => table' = table /\ Stored' = Stored
<1>1. CASE table[id[r]] # NoRequest
  BY <1>1 DEF Put, TypeOK, Stored
<1>2. CASE table[id[r]] = NoRequest
  <2>1. /\ table' = [table EXCEPT ![id[r]] = r] /\ table \in [Id -> Request \cup {NoRequest}]
        /\ r # NoRequest
    BY <1>2, NoRequestAssumption DEF Put, TypeOK
  <2>2. \A i \in Id: table'[i] = IF i = id[r] THEN r ELSE table[i]
    BY <2>1
  <2>3. Stored' = Stored \cup {r}
    <3>1. ASSUME NEW q \in Stored' PROVE q \in Stored \cup {r}
      BY <2>2, <3>1 DEF Stored
    <3>2. ASSUME NEW q \in Stored PROVE q \in Stored'
      BY <1>2, <2>2, <3>2 DEF Stored
    <3>3. r \in Stored'
      BY <2>1, <2>2 DEF Stored
    <3> QED BY <3>1, <3>2, <3>3
  <2> QED BY <1>2, <2>1, <2>2, <2>3
<1> QED BY <1>1, <1>2

\* What it takes to leave the attempts and the items as they are.
LEMMA StoreUntouched ==
    ASSUME IndInv, UNCHANGED <<id, puts, answer, late, table, expired>>
    PROVE  PutsCounted' /\ ItemsUnderOwnId' /\ OkIsStored' /\ Saved' = Saved
BY DEF IndInv, PutsCounted, ItemsUnderOwnId, OkIsStored, Saved, Stored

\* The cached client comes and goes.
LEMMA ClientTyped ==
    ASSUME NEW c \in [Env -> BOOLEAN], NEW e \in Env, NEW b \in BOOLEAN
    PROVE  [c EXCEPT ![e] = b] \in [Env -> BOOLEAN]
OBVIOUS

(***************************************************************************)
(* The inductive invariant, action by action.                              *)
(***************************************************************************)
LEMMA SendStep == ASSUME IndInv, NEW r \in Request, NEW x \in Inputs, Send(r, x) PROVE IndInv'
<1>0. /\ TypeOK /\ PutsFollowId /\ RepliesAreTrue
      /\ stage[r] = "idle" /\ input' = [input EXCEPT ![r] = x]
      /\ stage' = [stage EXCEPT ![r] = IF x.via = "gateway" THEN "gateway" ELSE "invoked"]
      /\ UNCHANGED <<reply, shownId, env, client, id, puts, answer, late, table, expired>>
  BY DEF IndInv, Send, GoTo, envVars, putVars, dbVars
<1>1. TypeOK'
  BY <1>0 DEF TypeOK
<1>2. PutsFollowId'
  BY <1>0 DEF PutsFollowId, TypeOK
<1>3. RepliesAreTrue'
  BY <1>0, StoreUntouched DEF RepliesAreTrue, Acknowledged, PutsFollowId, TypeOK
<1> QED BY <1>0, <1>1, <1>2, <1>3, StoreUntouched DEF IndInv

LEMMA RefusalStep ==
    ASSUME IndInv, NEW r \in Request, NEW code \in {400, 403, 429, 500},
           IF code = 500 THEN InvocationRefused(r) ELSE GatewayRefuses(r, code)
    PROVE  IndInv'
<1>0. /\ TypeOK /\ PutsFollowId /\ RepliesAreTrue
      /\ stage[r] \in {"gateway", "invoked"} /\ stage' = [stage EXCEPT ![r] = "finished"]
      /\ reply' = [reply EXCEPT ![r] = IF @ = 0 THEN code ELSE @]
      /\ UNCHANGED <<input, shownId, env, client, id, puts, answer, late, table, expired>>
  BY DEF IndInv, InvocationRefused, GatewayRefuses, GoTo, Reply, envVars, putVars, dbVars
<1>1. TypeOK'
  BY <1>0 DEF TypeOK
<1>2. PutsFollowId'
  BY <1>0 DEF PutsFollowId, TypeOK
<1>3. RepliesAreTrue'
  BY <1>0, StoreUntouched DEF RepliesAreTrue, Acknowledged, PutsFollowId, TypeOK
<1> QED BY <1>0, <1>1, <1>2, <1>3, StoreUntouched DEF IndInv

LEMMA ForwardStep == ASSUME IndInv, NEW r \in Request, GatewayForwards(r) PROVE IndInv'
<1>0. /\ TypeOK /\ PutsFollowId /\ RepliesAreTrue
      /\ stage[r] = "gateway" /\ stage' = [stage EXCEPT ![r] = "invoked"]
      /\ UNCHANGED <<input, reply, shownId, env, client, id, puts, answer, late, table, expired>>
  BY DEF IndInv, GatewayForwards, GoTo, envVars, putVars, dbVars
<1>1. TypeOK'
  BY <1>0 DEF TypeOK
<1>2. PutsFollowId'
  BY <1>0 DEF PutsFollowId, TypeOK
<1>3. RepliesAreTrue'
  BY <1>0, StoreUntouched DEF RepliesAreTrue, Acknowledged, TypeOK
<1> QED BY <1>0, <1>1, <1>2, <1>3, StoreUntouched DEF IndInv

LEMMA TimeoutStep == ASSUME IndInv, NEW r \in Request, GatewayTimesOut(r) PROVE IndInv'
<1>0. /\ TypeOK /\ PutsFollowId /\ RepliesAreTrue
      /\ stage[r] \in {"invoked", "running", "saving", "waiting"}
      /\ reply[r] = 0 /\ reply' = [reply EXCEPT ![r] = 504]
      /\ UNCHANGED <<input, stage, shownId, env, client, id, puts, answer, late, table, expired>>
  BY DEF IndInv, GatewayTimesOut, Reply, envVars, putVars, dbVars
<1>1. TypeOK'
  BY <1>0 DEF TypeOK
<1>2. PutsFollowId'
  BY <1>0 DEF PutsFollowId, TypeOK
<1>3. RepliesAreTrue'
  BY <1>0, StoreUntouched DEF RepliesAreTrue, Acknowledged, TypeOK
<1> QED BY <1>0, <1>1, <1>2, <1>3, StoreUntouched DEF IndInv

LEMMA StartStep ==
    ASSUME IndInv, NEW r \in Request, NEW e \in Env, Start(r, e)
    PROVE  IndInv'
<1>0. /\ TypeOK /\ PutsFollowId /\ RepliesAreTrue
      /\ stage[r] = "invoked" /\ stage' = [stage EXCEPT ![r] = "running"]
      /\ env' = [env EXCEPT ![e] = r]
      /\ UNCHANGED <<input, reply, shownId, client, id, puts, answer, late, table, expired>>
  BY DEF IndInv, Start, GoTo, putVars, dbVars
<1>1. TypeOK'
  BY <1>0 DEF TypeOK
<1>2. PutsFollowId'
  BY <1>0 DEF PutsFollowId, TypeOK
<1>3. RepliesAreTrue'
  BY <1>0, StoreUntouched DEF RepliesAreTrue, Acknowledged, TypeOK
<1> QED BY <1>0, <1>1, <1>2, <1>3, StoreUntouched DEF IndInv

LEMMA AnswerEarlyStep ==
    ASSUME IndInv, NEW r \in Request, NEW e \in Env, AnswerEarly(r, e)
    PROVE  IndInv'
<1>0. /\ TypeOK /\ PutsFollowId /\ RepliesAreTrue
      /\ stage[r] = "running" /\ stage' = [stage EXCEPT ![r] = "finished"]
      /\ EarlyAnswer(input[r]) # 0
      /\ reply' = [reply EXCEPT ![r] = IF @ = 0 THEN EarlyAnswer(input[r]) ELSE @]
      /\ env' = [env EXCEPT ![e] = NoRequest]
      /\ UNCHANGED <<input, shownId, client, id, puts, answer, late, table, expired>>
  BY DEF IndInv, AnswerEarly, Return, GoTo, Reply, putVars, dbVars
<1>1. EarlyAnswer(input[r]) \in {200, 400, 404, 405}
      /\ (EarlyAnswer(input[r]) = 200 => input[r].method # "POST")
  BY <1>0, EarlyAnswers
<1>2. TypeOK'
  BY <1>0, <1>1 DEF TypeOK
<1>3. PutsFollowId'
  BY <1>0 DEF PutsFollowId, TypeOK
<1>4. RepliesAreTrue'
  BY <1>0, <1>1, StoreUntouched DEF RepliesAreTrue, Acknowledged, PutsFollowId, TypeOK
<1> QED BY <1>0, <1>2, <1>3, <1>4, StoreUntouched DEF IndInv

LEMMA BuildItemStep ==
    ASSUME IndInv, NEW r \in Request, NEW e \in Env, NEW i \in Id, BuildItem(r, e, i)
    PROVE  IndInv'
<1>0. /\ TypeOK /\ PutsCounted /\ PutsFollowId /\ ItemsUnderOwnId /\ OkIsStored /\ RepliesAreTrue
      /\ stage[r] = "running" /\ stage' = [stage EXCEPT ![r] = "saving"]
      /\ EarlyAnswer(input[r]) = 0 /\ id' = [id EXCEPT ![r] = i] /\ id[r] = NoId
      /\ UNCHANGED <<input, reply, shownId, env, client, puts, answer, late, table, expired>>
  BY DEF IndInv, BuildItem, GoTo, envVars, dbVars, PutsFollowId
<1>1. i # NoId
  BY NoIdAssumption
<1>2. TypeOK'
  BY <1>0 DEF TypeOK
<1>3. PutsCounted'
  BY <1>0 DEF PutsCounted
<1>4. PutsFollowId'
  BY <1>0, <1>1 DEF PutsFollowId, TypeOK
<1>5. ItemsUnderOwnId' /\ OkIsStored'
  <2>1. \A j \in Id: table[j] # NoRequest => table[j] # r /\ table[j] \in Request
    BY <1>0, NoIdAssumption DEF ItemsUnderOwnId, TypeOK
  <2>2. answer[r] = "none" /\ \A q \in expired: q # r /\ q \in Request
    BY <1>0 DEF ItemsUnderOwnId, PutsFollowId, TypeOK
  <2>3. \A q \in Request: q # r => id'[q] = id[q]
    BY <1>0 DEF TypeOK
  <2> QED BY <1>0, <2>1, <2>2, <2>3 DEF ItemsUnderOwnId, OkIsStored
<1>6. RepliesAreTrue'
  <2>1. Saved' = Saved
    BY <1>0 DEF Saved, Stored
  <2> QED BY <1>0, <1>1, <2>1 DEF RepliesAreTrue, Acknowledged, TypeOK
<1> QED BY <1>2, <1>3, <1>4, <1>5, <1>6 DEF IndInv

LEMMA GetTableStep ==
    ASSUME IndInv, NEW r \in Request, NEW e \in Env, GetTable(r, e)
    PROVE  IndInv'
<1>0. /\ TypeOK /\ PutsFollowId /\ RepliesAreTrue /\ stage[r] = "saving"
      /\ UNCHANGED <<input, shownId, id, puts, answer, late, table, expired>>
      /\ \/ client' = [client EXCEPT ![e] = TRUE] /\ UNCHANGED <<stage, reply, env>>
         \/ /\ env' = [env EXCEPT ![e] = NoRequest]
            /\ stage' = [stage EXCEPT ![r] = "finished"]
            /\ reply' = [reply EXCEPT ![r] = IF @ = 0 THEN 500 ELSE @]
            /\ UNCHANGED client
  BY DEF IndInv, GetTable, Return, GoTo, Reply, putVars, dbVars
<1>1. TypeOK'
  <2>0. client \in [Env -> BOOLEAN]
    BY <1>0 DEF TypeOK
  <2>1. CASE client' = [client EXCEPT ![e] = TRUE] /\ UNCHANGED <<stage, reply, env>>
    <3>1. client' \in [Env -> BOOLEAN]
      BY <2>0, <2>1, ClientTyped
    <3> QED BY <1>0, <2>1, <3>1 DEF TypeOK
  <2>2. CASE UNCHANGED client
    BY <1>0, <2>2 DEF TypeOK
  <2> QED BY <1>0, <2>1, <2>2
<1>2. PutsFollowId'
  BY <1>0 DEF PutsFollowId, TypeOK
<1>3. RepliesAreTrue'
  BY <1>0, StoreUntouched DEF RepliesAreTrue, Acknowledged, TypeOK
<1> QED BY <1>0, <1>1, <1>2, <1>3, StoreUntouched DEF IndInv

\* The last steps of an attempt leave the items alone.
LEMMA ItemsUntouched ==
    ASSUME IndInv, UNCHANGED <<id, table, expired>>
    PROVE  ItemsUnderOwnId' /\ Saved' = Saved
BY DEF IndInv, ItemsUnderOwnId, Saved, Stored

LEMMA SendPutStep ==
    ASSUME IndInv, NEW r \in Request, NEW e \in Env, SendPut(r, e)
    PROVE  IndInv'
<1>0. /\ TypeOK /\ PutsCounted /\ PutsFollowId /\ OkIsStored /\ RepliesAreTrue
      /\ stage[r] = "saving" /\ stage' = [stage EXCEPT ![r] = "waiting"]
      /\ puts' = [puts EXCEPT ![r] = 1] /\ answer' = [answer EXCEPT ![r] = "sent"]
      /\ UNCHANGED <<input, reply, shownId, env, client, id, late, table, expired>>
  BY DEF IndInv, SendPut, GoTo, envVars, dbVars
<1>1. late[r] = 0
  BY <1>0 DEF PutsFollowId
<1>2. TypeOK'
  BY <1>0, MaxPutsAssumption DEF TypeOK
<1>3. PutsCounted'
  BY <1>0, <1>1 DEF PutsCounted, TypeOK
<1>4. PutsFollowId'
  BY <1>0 DEF PutsFollowId, TypeOK
<1>5. OkIsStored'
  BY <1>0 DEF OkIsStored, TypeOK
<1>6. RepliesAreTrue'
  BY <1>0, ItemsUntouched DEF RepliesAreTrue, Acknowledged, TypeOK
<1> QED BY <1>0, <1>2, <1>3, <1>4, <1>5, <1>6, ItemsUntouched DEF IndInv

\* An item that is put keeps the items that are there and is under its own id.
LEMMA ItemPut ==
    ASSUME IndInv, NEW r \in Request, id[r] # NoId, Put(r), UNCHANGED <<id, expired>>
    PROVE  /\ table' \in [Id -> Request \cup {NoRequest}]
           /\ ItemsUnderOwnId' /\ Saved \subseteq Saved' /\ Saved' \subseteq Saved \cup {r}
           /\ \A q \in Request: id[q] # NoId /\ table[id[q]] = q => table'[id[q]] = q
           /\ table[id[r]] = NoRequest => table'[id[r]] = r
<1>1. TypeOK /\ ItemsUnderOwnId /\ id[r] \in Id /\ r # NoRequest
  BY NoRequestAssumption DEF IndInv, TypeOK
<1>2. /\ table' \in [Id -> Request \cup {NoRequest}]
      /\ \A i \in Id: table'[i] = table[i] \/ (i = id[r] /\ table[i] = NoRequest /\ table'[i] = r)
      /\ table[id[r]] = NoRequest => table'[id[r]] = r /\ Stored' = Stored \cup {r}
      /\ table[id[r]] # NoRequest => table' = table /\ Stored' = Stored
  BY <1>1, PutStores
<1>3. ItemsUnderOwnId'
  BY <1>1, <1>2 DEF ItemsUnderOwnId
<1>4. Saved \subseteq Saved' /\ Saved' \subseteq Saved \cup {r}
  BY <1>2 DEF Saved
<1>5. ASSUME NEW q \in Request, id[q] # NoId, table[id[q]] = q PROVE table'[id[q]] = q
  BY <1>1, <1>2, <1>5, NoRequestAssumption DEF TypeOK
<1> QED BY <1>2, <1>3, <1>4, <1>5

LEMMA PutAppliedStep == ASSUME IndInv, NEW r \in Request, PutApplied(r) PROVE IndInv'
<1>0. /\ TypeOK /\ PutsCounted /\ PutsFollowId /\ OkIsStored /\ RepliesAreTrue
      /\ answer[r] = "sent" /\ Put(r)
      /\ UNCHANGED <<input, stage, reply, shownId, env, client, id, puts, late, expired>>
  BY DEF IndInv, PutApplied, envVars
<1>1. PICK a \in {PutAnswer(r), "lost"}: answer' = [answer EXCEPT ![r] = a]
  BY DEF PutApplied
<1>2. a \in {"ok", "exists", "lost"} /\ (a = "ok" => table[id[r]] = NoRequest)
  BY <1>1 DEF PutAnswer
<1>3. stage[r] = "waiting" /\ id[r] # NoId
  BY <1>0 DEF PutsFollowId
<1>4. /\ table' \in [Id -> Request \cup {NoRequest}]
      /\ ItemsUnderOwnId' /\ Saved \subseteq Saved'
      /\ \A q \in Request: id[q] # NoId /\ table[id[q]] = q => table'[id[q]] = q
      /\ table[id[r]] = NoRequest => table'[id[r]] = r
  BY <1>0, <1>3, ItemPut
<1>5. TypeOK'
  BY <1>0, <1>1, <1>2, <1>4 DEF TypeOK
<1>6. PutsCounted'
  BY <1>0, <1>1, <1>2 DEF PutsCounted, TypeOK
<1>7. PutsFollowId'
  BY <1>0, <1>1, <1>3 DEF PutsFollowId, TypeOK
<1>8. OkIsStored'
  <2> SUFFICES ASSUME NEW q \in Request, answer'[q] = "ok" PROVE table'[id[q]] = q
    BY <1>0 DEF OkIsStored
  <2>1. CASE q = r
    BY <1>0, <1>1, <1>2, <1>4, <2>1 DEF TypeOK
  <2>2. CASE q # r
    <3>1. answer[q] = "ok"
      BY <1>1, <2>2 DEF TypeOK
    <3>2. id[q] # NoId /\ table[id[q]] = q
      BY <1>0, <3>1 DEF PutsFollowId, OkIsStored
    <3> QED BY <1>4, <3>2
  <2> QED BY <2>1, <2>2
<1>9. RepliesAreTrue'
  BY <1>0, <1>4 DEF RepliesAreTrue, Acknowledged
<1> QED BY <1>4, <1>5, <1>6, <1>7, <1>8, <1>9 DEF IndInv

LEMMA PutDroppedStep == ASSUME IndInv, NEW r \in Request, PutDropped(r) PROVE IndInv'
<1>0. /\ TypeOK /\ PutsCounted /\ PutsFollowId /\ OkIsStored /\ RepliesAreTrue
      /\ answer[r] = "sent" /\ answer' = [answer EXCEPT ![r] = "lost"]
      /\ UNCHANGED <<input, stage, reply, shownId, env, client, id, puts, late, table, expired>>
  BY DEF IndInv, PutDropped, envVars, dbVars
<1>1. TypeOK'
  BY <1>0 DEF TypeOK
<1>2. PutsCounted'
  BY <1>0 DEF PutsCounted, TypeOK
<1>3. PutsFollowId'
  BY <1>0 DEF PutsFollowId, TypeOK
<1>4. OkIsStored'
  BY <1>0 DEF OkIsStored, TypeOK
<1>5. RepliesAreTrue'
  BY <1>0, ItemsUntouched DEF RepliesAreTrue, Acknowledged
<1> QED BY <1>0, <1>1, <1>2, <1>3, <1>4, <1>5, ItemsUntouched DEF IndInv

LEMMA LatePutStep == ASSUME IndInv, NEW r \in Request, LatePut(r) PROVE IndInv'
<1>0. /\ TypeOK /\ PutsCounted /\ PutsFollowId /\ OkIsStored /\ RepliesAreTrue
      /\ late[r] > 0 /\ late' = [late EXCEPT ![r] = @ - 1]
      /\ Put(r) \/ UNCHANGED table
      /\ UNCHANGED <<input, stage, reply, shownId, env, client, id, puts, answer, expired>>
  BY DEF IndInv, LatePut, envVars
<1>1. id[r] # NoId /\ stage[r] # "saving"
  BY <1>0 DEF PutsFollowId
<1>2. /\ table' \in [Id -> Request \cup {NoRequest}]
      /\ ItemsUnderOwnId' /\ Saved \subseteq Saved'
      /\ \A q \in Request: id[q] # NoId /\ table[id[q]] = q => table'[id[q]] = q
  <2>1. CASE Put(r)
    BY <1>0, <1>1, <2>1, ItemPut
  <2>2. CASE UNCHANGED table
    BY <1>0, <2>2, ItemsUntouched DEF TypeOK
  <2> QED BY <1>0, <2>1, <2>2
<1>3. TypeOK'
  <2>1. late[r] - 1 \in 0..MaxPuts
    BY <1>0, MaxPutsAssumption DEF TypeOK
  <2> QED BY <1>0, <1>2, <2>1 DEF TypeOK
<1>4. PutsCounted'
  BY <1>0, MaxPutsAssumption DEF PutsCounted, TypeOK
<1>5. PutsFollowId'
  BY <1>0, <1>1 DEF PutsFollowId, TypeOK
<1>6. OkIsStored'
  BY <1>0, <1>2 DEF OkIsStored, PutsFollowId
<1>7. RepliesAreTrue'
  BY <1>0, <1>2 DEF RepliesAreTrue, Acknowledged
<1> QED BY <1>2, <1>3, <1>4, <1>5, <1>6, <1>7 DEF IndInv

\* Giving an attempt up keeps it among those made.
LEMMA AttemptAbandoned ==
    ASSUME TypeOK, PutsCounted, NEW r \in Request, Abandon(r)
    PROVE  /\ late' \in [Request -> 0..MaxPuts]
           /\ late'[r] = (IF answer[r] = "sent" THEN late[r] + 1 ELSE late[r])
           /\ late'[r] <= puts[r]
           /\ \A q \in Request: q # r => late'[q] = late[q]
<1>1. late[r] \in 0..MaxPuts /\ puts[r] \in 0..MaxPuts /\ late \in [Request -> 0..MaxPuts]
  BY DEF TypeOK
<1>2. late[r] + (IF answer[r] = "sent" THEN 1 ELSE 0) <= puts[r]
  BY DEF PutsCounted
<1>3. late' = [late EXCEPT ![r] = IF answer[r] = "sent" THEN late[r] + 1 ELSE late[r]]
  BY DEF Abandon
<1>4. (IF answer[r] = "sent" THEN late[r] + 1 ELSE late[r]) \in 0..MaxPuts
  BY <1>1, <1>2, MaxPutsAssumption
<1> QED BY <1>1, <1>2, <1>3, <1>4, MaxPutsAssumption

LEMMA RetryStep == ASSUME IndInv, NEW r \in Request, Retry(r) PROVE IndInv'
<1>0. /\ TypeOK /\ PutsCounted /\ PutsFollowId /\ OkIsStored /\ RepliesAreTrue
      /\ stage[r] = "waiting" /\ puts[r] < MaxPuts
      /\ puts' = [puts EXCEPT ![r] = @ + 1] /\ Abandon(r)
      /\ answer' = [answer EXCEPT ![r] = "sent"]
      /\ UNCHANGED <<input, stage, reply, shownId, env, client, id, table, expired>>
  BY DEF IndInv, Retry, envVars, dbVars
<1>1. /\ late' \in [Request -> 0..MaxPuts] /\ late'[r] <= puts[r]
      /\ \A q \in Request: q # r => late'[q] = late[q]
  BY <1>0, AttemptAbandoned
<1>2. TypeOK'
  <2>1. puts[r] + 1 \in 0..MaxPuts
    BY <1>0, MaxPutsAssumption DEF TypeOK
  <2>2. puts' \in [Request -> 0..MaxPuts]
    BY <1>0, <2>1 DEF TypeOK
  <2>3. answer' \in [Request -> {"none", "sent", "lost", "ok", "exists"}]
    BY <1>0 DEF TypeOK
  <2>4. /\ input' = input /\ stage' = stage /\ reply' = reply /\ shownId' = shownId
        /\ env' = env /\ client' = client /\ id' = id /\ table' = table /\ expired' = expired
    BY <1>0
  <2> QED BY <1>0, <1>1, <2>2, <2>3, <2>4 DEF TypeOK
<1>3. PutsCounted'
  <2>1. late'[r] + 1 <= puts[r] + 1
    <3>1. late'[r] \in 0..MaxPuts /\ puts[r] \in 0..MaxPuts
      BY <1>0, <1>1 DEF TypeOK
    <3> QED BY <1>1, <3>1, MaxPutsAssumption
  <2> QED BY <1>0, <1>1, <2>1 DEF PutsCounted, TypeOK
<1>4. PutsFollowId'
  BY <1>0, <1>1 DEF PutsFollowId, TypeOK
<1>5. OkIsStored'
  BY <1>0 DEF OkIsStored, TypeOK
<1>6. RepliesAreTrue'
  BY <1>0, ItemsUntouched DEF RepliesAreTrue, Acknowledged
<1> QED BY <1>0, <1>2, <1>3, <1>4, <1>5, <1>6, ItemsUntouched DEF IndInv

LEMMA GiveUpStep ==
    ASSUME IndInv, NEW r \in Request, NEW e \in Env, GiveUp(r, e) \/ EnvironmentDies(r, e)
    PROVE  IndInv'
<1>0. /\ TypeOK /\ PutsCounted /\ PutsFollowId /\ OkIsStored /\ RepliesAreTrue
      /\ Abandon(r) /\ answer' = [answer EXCEPT ![r] = "none"]
      /\ env' = [env EXCEPT ![e] = NoRequest] 
      /\ client' = client \/ client' = [client EXCEPT ![e] = FALSE]
      /\ stage' = [stage EXCEPT ![r] = "finished"]
      /\ UNCHANGED <<input, shownId, id, puts, table, expired>>
  BY DEF IndInv, GiveUp, EnvironmentDies, Return, GoTo, dbVars
<1>1. PICK code \in {500, 502}: reply' = [reply EXCEPT ![r] = IF @ = 0 THEN code ELSE @]
  BY DEF GiveUp, EnvironmentDies, Return, Reply
<1>2. /\ late' \in [Request -> 0..MaxPuts] /\ late'[r] <= puts[r]
      /\ late'[r] = (IF answer[r] = "sent" THEN late[r] + 1 ELSE late[r])
      /\ \A q \in Request: q # r => late'[q] = late[q]
  BY <1>0, AttemptAbandoned
<1>3. TypeOK'
  <2>0. client \in [Env -> BOOLEAN]
    BY <1>0 DEF TypeOK
  <2>1. client' \in [Env -> BOOLEAN]
    <3>1. CASE client' = client
      BY <2>0, <3>1
    <3>2. CASE client' = [client EXCEPT ![e] = FALSE]
      BY <2>0, <3>2, ClientTyped
    <3> QED BY <1>0, <3>1, <3>2
  <2>2. env' \in [Env -> Request \cup {NoRequest}]
    BY <1>0 DEF TypeOK
  <2>3. reply' \in [Request -> {0, 200, 400, 403, 404, 405, 429, 500, 502, 504}]
    BY <1>0, <1>1 DEF TypeOK
  <2>4. /\ stage' \in [Request -> {"idle", "gateway", "invoked", "running", "saving",
                                   "waiting", "finished"}]
        /\ answer' \in [Request -> {"none", "sent", "lost", "ok", "exists"}]
    BY <1>0 DEF TypeOK
  <2>5. /\ input' = input /\ shownId' = shownId /\ id' = id /\ puts' = puts
        /\ table' = table /\ expired' = expired
    BY <1>0
  <2> QED BY <1>0, <1>2, <2>1, <2>2, <2>3, <2>4, <2>5 DEF TypeOK
<1>4. PutsCounted'
  <2>1. late'[r] + 0 <= puts[r]
    BY <1>0, <1>2, MaxPutsAssumption DEF TypeOK
  <2> QED BY <1>0, <1>2, <2>1 DEF PutsCounted, TypeOK
<1>5. PutsFollowId'
  BY <1>0, <1>1, <1>2 DEF PutsFollowId, TypeOK
<1>6. OkIsStored'
  BY <1>0 DEF OkIsStored, TypeOK
<1>7. RepliesAreTrue'
  BY <1>0, <1>1, ItemsUntouched DEF RepliesAreTrue, Acknowledged, TypeOK
<1> QED BY <1>0, <1>3, <1>4, <1>5, <1>6, <1>7, ItemsUntouched DEF IndInv

LEMMA AnswerPutStep ==
    ASSUME IndInv, NEW r \in Request, NEW e \in Env, AnswerPut(r, e)
    PROVE  IndInv'
<1>0. /\ TypeOK /\ PutsCounted /\ PutsFollowId /\ OkIsStored /\ RepliesAreTrue
      /\ stage[r] = "waiting" /\ answer[r] \in {"ok", "exists"}
      /\ env' = [env EXCEPT ![e] = NoRequest] /\ stage' = [stage EXCEPT ![r] = "finished"]
      /\ reply' = [reply EXCEPT ![r] = IF @ = 0 THEN CodeFor(answer[r]) ELSE @]
      /\ shownId' = IF CodeFor(answer[r]) = 200 /\ reply[r] = 0
                       THEN [shownId EXCEPT ![r] = id[r]] ELSE shownId
      /\ answer' = [answer EXCEPT ![r] = "none"]
      /\ UNCHANGED <<input, client, id, puts, late, table, expired>>
  BY DEF IndInv, AnswerPut, Return, GoTo, Reply, dbVars
<1>1. /\ CodeFor(answer[r]) \in {200, 500}
      /\ CodeFor(answer[r]) = 200 => answer[r] = "ok"
      /\ id[r] # NoId /\ EarlyAnswer(input[r]) = 0
  BY <1>0 DEF CodeFor, PutsFollowId
<1>2. TypeOK'
  BY <1>0, <1>1 DEF TypeOK
<1>3. PutsCounted'
  BY <1>0 DEF PutsCounted, TypeOK
<1>4. PutsFollowId'
  BY <1>0 DEF PutsFollowId, TypeOK
<1>5. OkIsStored'
  BY <1>0 DEF OkIsStored, TypeOK
<1>6. RepliesAreTrue'
  <2> SUFFICES ASSUME NEW q \in Request
               PROVE  /\ Acknowledged(q)' => id[q] # NoId /\ shownId'[q] = id[q] /\ q \in Saved
                      /\ reply'[q] \in {200, 400, 403, 404, 405, 429} /\ ~Acknowledged(q)' =>
                            stage'[q] = "finished" /\ id[q] = NoId
    BY <1>0, ItemsUntouched DEF RepliesAreTrue
  <2>1. CASE q # r \/ reply[r] # 0
    BY <1>0, <2>1 DEF RepliesAreTrue, Acknowledged, TypeOK
  <2>2. CASE q = r /\ reply[r] = 0 /\ answer[r] = "ok"
    <3>1. id[r] \in Id /\ table[id[r]] = r /\ r # NoRequest
      BY <1>0, <1>1, <2>2, NoRequestAssumption DEF OkIsStored, TypeOK
    <3>2. r \in Saved
      BY <3>1 DEF Saved, Stored
    <3>3. input[r].method = "POST"
      BY <1>1, EarlyAnswers
    <3> QED BY <1>0, <1>1, <2>2, <3>2, <3>3 DEF Acknowledged, TypeOK, CodeFor
  <2>3. CASE q = r /\ reply[r] = 0 /\ answer[r] # "ok"
    BY <1>0, <1>1, <2>3 DEF Acknowledged, TypeOK
  <2> QED BY <2>1, <2>2, <2>3
<1> QED BY <1>0, <1>2, <1>3, <1>4, <1>5, <1>6, ItemsUntouched DEF IndInv

LEMMA RecycledStep ==
    ASSUME IndInv, NEW e \in Env, EnvironmentRecycled(e)
    PROVE  IndInv'
<1>0. /\ TypeOK /\ client' \in {client, [client EXCEPT ![e] = FALSE]}
      /\ UNCHANGED <<input, stage, reply, shownId, env, id, puts, answer, late, table, expired>>
  BY DEF IndInv, EnvironmentRecycled, vars, envVars, putVars, dbVars
<1>1. TypeOK'
  <2>0. client \in [Env -> BOOLEAN]
    BY <1>0 DEF TypeOK
  <2>1. client' \in [Env -> BOOLEAN]
    BY <1>0, <2>0, ClientTyped
  <2> QED BY <1>0, <2>1 DEF TypeOK
<1> QED BY <1>0, <1>1, StoreUntouched DEF IndInv, PutsFollowId, RepliesAreTrue, Acknowledged

LEMMA ExpireStep == ASSUME IndInv, NEW i \in Id, Expire(i) PROVE IndInv'
<1>0. /\ TypeOK /\ PutsCounted /\ PutsFollowId /\ ItemsUnderOwnId /\ OkIsStored /\ RepliesAreTrue
      /\ table[i] # NoRequest /\ stage[table[i]] = "finished"
      /\ table' = [table EXCEPT ![i] = NoRequest] /\ expired' = expired \cup {table[i]}
      /\ UNCHANGED <<input, stage, reply, shownId, env, client, id, puts, answer, late>>
  BY DEF IndInv, Expire, envVars, putVars
<1>1. table[i] \in Request /\ id[table[i]] = i
  BY <1>0 DEF TypeOK, ItemsUnderOwnId
<1>2. TypeOK' /\ PutsCounted' /\ PutsFollowId'
  BY <1>0, <1>1 DEF TypeOK, PutsCounted, PutsFollowId
<1>3. ItemsUnderOwnId'
  BY <1>0, <1>1, NoIdAssumption DEF ItemsUnderOwnId, TypeOK
<1>4. OkIsStored'
  <2> SUFFICES ASSUME NEW q \in Request, answer[q] = "ok" PROVE table'[id[q]] = q
    BY <1>0 DEF OkIsStored
  <2>1. stage[q] = "waiting" /\ table[id[q]] = q /\ id[q] \in Id
    BY <1>0 DEF PutsFollowId, OkIsStored, TypeOK
  <2>2. id[q] # i
    BY <1>0, <2>1
  <2> QED BY <1>0, <2>1, <2>2 DEF TypeOK
<1>5. Saved \subseteq Saved'
  <2> SUFFICES ASSUME NEW q \in Saved PROVE q \in Saved'
    OBVIOUS
  <2>1. CASE q \in expired \/ q = table[i]
    BY <1>0, <2>1 DEF Saved
  <2>2. CASE q \notin expired /\ q # table[i]
    <3>1. PICK j \in Id: table[j] = q /\ q # NoRequest /\ j # i
      BY <2>2 DEF Saved, Stored
    <3>2. table'[j] = q
      BY <1>0, <3>1 DEF TypeOK
    <3> QED BY <3>1, <3>2 DEF Saved, Stored
  <2> QED BY <2>1, <2>2
<1>6. RepliesAreTrue'
  BY <1>0, <1>5 DEF RepliesAreTrue, Acknowledged
<1> QED BY <1>2, <1>3, <1>4, <1>6 DEF IndInv

LEMMA InitEstablishes == Init => IndInv
<1> SUFFICES ASSUME Init PROVE IndInv
  OBVIOUS
<1>1. TypeOK
  BY MaxPutsAssumption DEF Init, TypeOK
<1>2. PutsCounted
  BY DEF Init, PutsCounted
<1>3. PutsFollowId /\ ItemsUnderOwnId /\ OkIsStored
  BY DEF Init, PutsFollowId, ItemsUnderOwnId, OkIsStored
<1>4. RepliesAreTrue
  BY DEF Init, RepliesAreTrue, Acknowledged
<1> QED BY <1>1, <1>2, <1>3, <1>4 DEF IndInv

(***************************************************************************)
(* The theorems.                                                           *)
(***************************************************************************)
LEMMA StepKeeps == IndInv /\ [Next]_vars => IndInv'
<1> SUFFICES ASSUME IndInv, [Next]_vars PROVE IndInv'
  OBVIOUS
<1>1. ASSUME NEW r \in Request, NEW x \in Inputs, Send(r, x) PROVE IndInv'
  BY <1>1, SendStep
<1>2. ASSUME NEW r \in Request, Gateway(r) \/ InvocationRefused(r) PROVE IndInv'
  <2>1. ASSUME NEW code \in {400, 403, 429}, GatewayRefuses(r, code) PROVE IndInv'
    BY <2>1, RefusalStep
  <2>2. CASE InvocationRefused(r)
    BY <2>2, RefusalStep
  <2> QED BY <1>2, <2>1, <2>2, ForwardStep, TimeoutStep DEF Gateway
<1>3. ASSUME NEW r \in Request,
             PutApplied(r) \/ PutDropped(r) \/ LatePut(r) \/ Retry(r)
      PROVE  IndInv'
  BY <1>3, PutAppliedStep, PutDroppedStep, LatePutStep, RetryStep
<1>4. ASSUME NEW r \in Request, NEW e \in Env, Start(r, e) \/ Handler(r, e) \/ EnvironmentDies(r, e)
      PROVE  IndInv'
  <2>1. ASSUME NEW i \in Id, BuildItem(r, e, i) PROVE IndInv'
    BY <2>1, BuildItemStep
  <2> QED BY <1>4, <2>1, StartStep, AnswerEarlyStep, GetTableStep, SendPutStep, GiveUpStep,
             AnswerPutStep DEF Handler
<1>5. ASSUME NEW e \in Env, EnvironmentRecycled(e) PROVE IndInv'
  BY <1>5, RecycledStep
<1>6. ASSUME NEW i \in Id, Expire(i) PROVE IndInv'
  BY <1>6, ExpireStep
<1>7. CASE UNCHANGED vars
  <2>1. UNCHANGED <<input, stage, reply, shownId, env, client, id, puts, answer, late, table, expired>>
    BY <1>7 DEF vars, envVars, putVars, dbVars
  <2>2. TypeOK'
    BY <2>1 DEF IndInv, TypeOK
  <2> QED BY <2>1, <2>2, StoreUntouched DEF IndInv, PutsFollowId, RepliesAreTrue, Acknowledged
<1> QED BY <1>1, <1>2, <1>3, <1>4, <1>5, <1>6, <1>7 DEF Next

\* In every reachable state ids, attempts, items and answers hang together as
\* IndInv says (lambda/handler.py, lines 254-293).
THEOREM Invariance == Spec => []IndInv
BY InitEstablishes, StepKeeps, PTL DEF Spec

\* Every variable keeps its type; attempts under way never exceed MaxPuts.
THEOREM TypeCorrect == Spec => []TypeOK
<1>1. IndInv => TypeOK
  BY DEF IndInv
<1> QED BY Invariance, <1>1, PTL

\* A POST that was told 200 was told the id of its own stored item, although
\* answers get lost and another request may have drawn the same id.
THEOREM AcknowledgedWasStored == Spec => []AcknowledgedItemIsStored
<1>1. IndInv => AcknowledgedItemIsStored
  <2> SUFFICES ASSUME IndInv, NEW r \in Request, Acknowledged(r)
               PROVE  shownId[r] # NoId /\ (table[shownId[r]] = r \/ r \in expired)
    BY DEF AcknowledgedItemIsStored
  <2>1. id[r] # NoId /\ shownId[r] = id[r] /\ r \in Saved
    BY DEF IndInv, RepliesAreTrue
  <2>2. CASE r \in Stored
    <3>1. PICK i \in Id: table[i] = r /\ r # NoRequest
      BY <2>2 DEF Stored
    <3> QED BY <2>1, <3>1 DEF IndInv, ItemsUnderOwnId
  <2> QED BY <2>1, <2>2 DEF Saved
<1> QED BY Invariance, <1>1, PTL

\* A request has one item, however many of its attempts reach the table.
THEOREM OneItem == Spec => []OneItemPerRequest
<1>1. IndInv => OneItemPerRequest
  BY DEF IndInv, ItemsUnderOwnId, OneItemPerRequest
<1> QED BY Invariance, <1>1, PTL

\* Only bodies the handler accepts are stored: an attempt that arrives late is
\* of a request that was accepted, whichever way it came.
THEOREM StoredBodiesAreValid == Spec => []OnlyValidBodiesStored
<1>1. IndInv => OnlyValidBodiesStored
  <2> SUFFICES ASSUME IndInv, NEW r \in Saved
               PROVE  input[r].method = "POST" /\ input[r].body = "valid"
    BY DEF OnlyValidBodiesStored
  <2>1. r \in Request /\ id[r] # NoId
    <3>1. CASE r \in expired
      BY <3>1 DEF IndInv, TypeOK, ItemsUnderOwnId
    <3>2. CASE r \in Stored
      <4>1. PICK i \in Id: table[i] = r /\ r # NoRequest
        BY <3>2 DEF Stored
      <4> QED BY <4>1, NoIdAssumption DEF IndInv, TypeOK, ItemsUnderOwnId
    <3> QED BY <3>1, <3>2 DEF Saved
  <2>2. EarlyAnswer(input[r]) = 0
    BY <2>1 DEF IndInv, PutsFollowId
  <2> QED BY <2>2, EarlyAnswers
<1> QED BY Invariance, <1>1, PTL

\* A stored item stays until it expires: the condition of the put protects it
\* from attempts of its own request and of others that drew its id.
THEOREM ItemsStay == Spec => ItemsAreNeverReplaced
<1>1. IndInv /\ [Next]_vars =>
        [\A i \in Id: table[i] # NoRequest /\ table'[i] # table[i] => table'[i] = NoRequest]_vars
  <2> SUFFICES ASSUME IndInv, Next, NEW i \in Id, table[i] # NoRequest, table'[i] # table[i]
               PROVE  table'[i] = NoRequest
    OBVIOUS
  <2>1. ASSUME NEW r \in Request, PutApplied(r) \/ LatePut(r) PROVE FALSE
    <3>1. Put(r)
      BY <2>1 DEF PutApplied, LatePut
    <3>2. id[r] \in Id
      BY <2>1 DEF IndInv, TypeOK, PutsFollowId, PutApplied, LatePut
    <3> QED BY <3>1, <3>2, PutStores DEF IndInv
  <2>2. ASSUME NEW j \in Id, Expire(j) PROVE table'[i] = NoRequest
    BY <2>2 DEF IndInv, TypeOK, Expire
  <2>3. ASSUME NEW r \in Request, NEW x \in Inputs, Send(r, x) PROVE FALSE
    BY <2>3 DEF Send, dbVars
  <2>4. ASSUME NEW r \in Request, Gateway(r) \/ InvocationRefused(r) \/ PutDropped(r) \/ Retry(r)
        PROVE  FALSE
    BY <2>4 DEF Gateway, GatewayRefuses, GatewayForwards, GatewayTimesOut, InvocationRefused,
       PutDropped, Retry, dbVars
  <2>5. ASSUME NEW r \in Request, NEW e \in Env, Start(r, e) \/ Handler(r, e) \/ EnvironmentDies(r, e)
        PROVE  FALSE
    BY <2>5 DEF Start, Handler, AnswerEarly, BuildItem, GetTable, SendPut, GiveUp, AnswerPut,
       EnvironmentDies, dbVars
  <2>6. ASSUME NEW e \in Env, EnvironmentRecycled(e) PROVE FALSE
    BY <2>6 DEF EnvironmentRecycled, dbVars
  <2> QED BY <2>1, <2>2, <2>3, <2>4, <2>5, <2>6 DEF Next
<1> QED BY Invariance, <1>1, PTL DEF Spec, ItemsAreNeverReplaced

(***************************************************************************)
(* The ledger.                                                             *)
(***************************************************************************)
\* What an answer settles.
OutcomeOf(r, code) ==
    IF code = 200 /\ input[r].method = "POST" THEN "acknowledged"
    ELSE IF code < 500 THEN "unsaved" ELSE "unknown"

\* The first answer settles a request, a later one changes nothing.
LEMMA FirstAnswerSettles ==
    ASSUME TypeOK, NEW r \in Request, NEW code \in {200, 400, 403, 404, 405, 429, 500, 502, 504},
           Reply(r, code), UNCHANGED input
    PROVE  /\ reply[r] # 0 => Outcome' = Outcome
           /\ reply[r] = 0 => /\ Outcome[r] = "open"
                              /\ Outcome' = [Outcome EXCEPT ![r] = OutcomeOf(r, code)]
<1>1. CASE reply[r] # 0
  <2>1. reply' = reply
    BY <1>1 DEF TypeOK, Reply
  <2> QED BY <1>1, <2>1 DEF Outcome, Acknowledged
<1>2. CASE reply[r] = 0
  <2>1. Outcome[r] = "open"
    BY <1>2 DEF Outcome
  <2>2. reply' \in [Request -> {0, 200, 400, 403, 404, 405, 429, 500, 502, 504}]
        /\ \A q \in Request: reply'[q] = IF q = r THEN code ELSE reply[q]
    BY <1>2 DEF TypeOK, Reply
  <2>3. \A q \in Request: Outcome'[q] = IF q = r THEN OutcomeOf(r, code) ELSE Outcome[q]
    BY <2>2 DEF Outcome, Acknowledged, OutcomeOf
  <2>4. Outcome' = [q \in Request |-> Outcome'[q]] /\ Outcome = [q \in Request |-> Outcome[q]]
    BY DEF Outcome
  <2>5. Outcome' = [Outcome EXCEPT ![r] = OutcomeOf(r, code)]
    BY <2>3, <2>4
  <2> QED BY <1>2, <2>1, <2>5
<1> QED BY <1>1, <1>2

\* An answer is a step of the ledger when it is true of the request.
LEMMA AnswerSettles ==
    ASSUME TypeOK, NEW r \in Request, NEW code \in {200, 400, 403, 404, 405, 429, 500, 502, 504},
           Reply(r, code), UNCHANGED input,
           Saved' = Saved,
           OutcomeOf(r, code) = "acknowledged" => r \in Saved,
           OutcomeOf(r, code) = "unsaved" => r \notin Saved
    PROVE  Ledger!LNext \/ UNCHANGED <<Saved, Outcome>>
<1>1. CASE reply[r] # 0
  BY <1>1, FirstAnswerSettles
<1>2. CASE reply[r] = 0
  <2>1. OutcomeOf(r, code) \in {"acknowledged", "unsaved", "unknown"}
    BY DEF OutcomeOf
  <2>2. Ledger!Settle(r, OutcomeOf(r, code))
    BY <1>2, FirstAnswerSettles DEF Ledger!Settle
  <2> QED BY <2>1, <2>2 DEF Ledger!LNext
<1> QED BY <1>1, <1>2

\* A request without an id is not saved, and an attempt that reaches the table
\* is of a request that is open or whose outcome is unknown.
LEMMA SavedHaveIds ==
    ASSUME IndInv
    PROVE  \A r \in Request: r \in Saved => id[r] # NoId
<1> SUFFICES ASSUME NEW r \in Request, r \in Saved PROVE id[r] # NoId
  OBVIOUS
<1>1. CASE r \in expired
  BY <1>1 DEF IndInv, ItemsUnderOwnId
<1>2. CASE r \in Stored
  <2>1. PICK i \in Id: table[i] = r /\ r # NoRequest
    BY <1>2 DEF Stored
  <2> QED BY <2>1, NoIdAssumption DEF IndInv, ItemsUnderOwnId
<1> QED BY <1>1, <1>2 DEF Saved

\* A put saves its request, if it stores anything.
LEMMA PutSaves ==
    ASSUME IndInv, NEW r \in Request, Put(r), id[r] # NoId,
           UNCHANGED <<id, expired, input, reply>>
    PROVE  Ledger!LNext \/ UNCHANGED <<Saved, Outcome>>
<1>1. Outcome' = Outcome
  BY DEF Outcome, Acknowledged
<1>2. Saved \subseteq Saved' /\ Saved' \subseteq Saved \cup {r}
  BY ItemPut
<1>3. CASE r \in Saved
  BY <1>1, <1>2, <1>3
<1>4. CASE r \notin Saved
  <2>1. Outcome[r] \in {"open", "unknown"}
    BY <1>4 DEF IndInv, TypeOK, RepliesAreTrue, Outcome, Acknowledged
  <2>2. Saved' = Saved \/ Saved' = Saved \cup {r}
    BY <1>2
  <2>3. CASE Saved' = Saved \cup {r}
    <3>1. Ledger!Save(r)
      BY <1>1, <1>4, <2>1, <2>3 DEF Ledger!Save
    <3> QED BY <3>1 DEF Ledger!LNext
  <2> QED BY <1>1, <2>2, <2>3
<1> QED BY <1>3, <1>4

LEMMA StepsAreSettled ==
    IndInv /\ [Next]_vars => [Ledger!LNext]_<<Saved, Outcome>>
<1> SUFFICES ASSUME IndInv, [Next]_vars PROVE Ledger!LNext \/ UNCHANGED <<Saved, Outcome>>
  OBVIOUS
<1>0. TypeOK /\ PutsFollowId /\ OkIsStored
  BY DEF IndInv
<1> DEFINE Settled == Ledger!LNext \/ UNCHANGED <<Saved, Outcome>>
<1>1. ASSUME UNCHANGED <<input, reply, table, expired>> PROVE Settled
  BY <1>1 DEF Saved, Stored, Outcome, Acknowledged
<1>2. ASSUME NEW r \in Request, NEW x \in Inputs, Send(r, x) PROVE Settled
  <2>1. UNCHANGED <<reply, table, expired>> /\ reply[r] = 0
        /\ input' = [input EXCEPT ![r] = x]
    BY <1>0, <1>2 DEF Send, dbVars, PutsFollowId
  <2>2. \A q \in Request: Outcome'[q] = Outcome[q]
    BY <1>0, <2>1 DEF TypeOK, Outcome, Acknowledged
  <2>3. Outcome' = Outcome
    BY <2>2 DEF Outcome
  <2> QED BY <2>1, <2>3 DEF Saved, Stored
<1>3. ASSUME NEW r \in Request, NEW code \in {400, 403, 429}, GatewayRefuses(r, code) PROVE Settled
  <2>1. /\ Reply(r, code)
        /\ UNCHANGED <<input, table, expired>> /\ id[r] = NoId
    BY <1>0, <1>3 DEF GatewayRefuses, dbVars, PutsFollowId
  <2>2. Saved' = Saved /\ r \notin Saved
    BY <2>1, SavedHaveIds DEF Saved, Stored
  <2>3. OutcomeOf(r, code) = "unsaved"
    BY DEF OutcomeOf
  <2> QED BY <1>0, <2>1, <2>2, <2>3, AnswerSettles
<1>4. ASSUME NEW r \in Request, NEW code \in {500, 502, 504}, UNCHANGED <<input, table, expired>>,
             Reply(r, code)
      PROVE  Settled
  <2>1. Saved' = Saved
    BY <1>4 DEF Saved, Stored
  <2>2. OutcomeOf(r, code) = "unknown"
    BY DEF OutcomeOf
  <2> QED BY <1>0, <1>4, <2>1, <2>2, AnswerSettles
<1>5. ASSUME NEW r \in Request, NEW e \in Env, AnswerEarly(r, e) PROVE Settled
  <2>1. /\ Reply(r, EarlyAnswer(input[r]))
        /\ UNCHANGED <<input, table, expired>> /\ id[r] = NoId /\ EarlyAnswer(input[r]) # 0
    BY <1>0, <1>5 DEF AnswerEarly, Return, dbVars, PutsFollowId
  <2>2. Saved' = Saved /\ r \notin Saved
    BY <2>1, SavedHaveIds DEF Saved, Stored
  <2>3. EarlyAnswer(input[r]) \in {200, 400, 404, 405}
        /\ OutcomeOf(r, EarlyAnswer(input[r])) = "unsaved"
    BY <2>1, EarlyAnswers DEF OutcomeOf
  <2> QED BY <1>0, <2>1, <2>2, <2>3, AnswerSettles
<1>6. ASSUME NEW r \in Request, NEW e \in Env, AnswerPut(r, e) PROVE Settled
  <2>1. /\ Reply(r, CodeFor(answer[r]))
        /\ UNCHANGED <<input, table, expired>> /\ id[r] # NoId
        /\ CodeFor(answer[r]) \in {200, 500} /\ EarlyAnswer(input[r]) = 0
        /\ CodeFor(answer[r]) = 200 => answer[r] = "ok"
    BY <1>0, <1>6 DEF AnswerPut, Return, dbVars, PutsFollowId, CodeFor
  <2>2. Saved' = Saved
    BY <2>1 DEF Saved, Stored
  <2>3. answer[r] = "ok" => r \in Saved
    <3>1. id[r] \in Id /\ r # NoRequest
      BY <1>0, <2>1, NoRequestAssumption DEF TypeOK
    <3> QED BY <1>0, <3>1 DEF OkIsStored, Saved, Stored
  <2>4. input[r].method = "POST"
    BY <2>1, EarlyAnswers
  <2>5. OutcomeOf(r, CodeFor(answer[r])) = IF CodeFor(answer[r]) = 200 THEN "acknowledged" ELSE "unknown"
    BY <2>1, <2>4 DEF OutcomeOf
  <2> QED BY <1>0, <2>1, <2>2, <2>3, <2>5, AnswerSettles
<1>7. ASSUME NEW r \in Request, PutApplied(r) \/ LatePut(r) PROVE Settled
  <2>1. /\ Put(r) \/ UNCHANGED table
        /\ UNCHANGED <<input, reply, id, expired>> /\ id[r] # NoId
    BY <1>0, <1>7 DEF PutApplied, LatePut, PutsFollowId, TypeOK
  <2> QED BY <1>1, <2>1, PutSaves
<1>8. ASSUME NEW i \in Id, Expire(i) PROVE Settled
  <2>1. /\ table[i] # NoRequest /\ table \in [Id -> Request \cup {NoRequest}]
        /\ table' = [table EXCEPT ![i] = NoRequest] /\ expired' = expired \cup {table[i]}
        /\ UNCHANGED <<input, reply>>
    BY <1>0, <1>8 DEF Expire, TypeOK
  <2>2. \A j \in Id: table'[j] = IF j = i THEN NoRequest ELSE table[j]
    BY <2>1
  <2>3. Saved' = Saved
    <3>1. ASSUME NEW q \in Saved PROVE q \in Saved'
      BY <2>1, <2>2, <3>1 DEF Saved, Stored
    <3>2. ASSUME NEW q \in Saved' PROVE q \in Saved
      BY <2>1, <2>2, <3>2 DEF Saved, Stored
    <3> QED BY <3>1, <3>2
  <2> QED BY <2>1, <2>3 DEF Outcome, Acknowledged
<1>9. ASSUME NEW r \in Request,
             GatewayForwards(r) \/ PutDropped(r) \/ Retry(r)
             \/ (\E e \in Env: Start(r, e) \/ SendPut(r, e) \/ \E i \in Id: BuildItem(r, e, i))
      PROVE  Settled
  BY <1>1, <1>9 DEF GatewayForwards, PutDropped, Retry, Start, SendPut, BuildItem, dbVars
<1>10. ASSUME NEW r \in Request,
              GatewayTimesOut(r) \/ InvocationRefused(r)
              \/ (\E e \in Env: GiveUp(r, e) \/ EnvironmentDies(r, e) \/ GetTable(r, e))
       PROVE  Settled
  BY <1>1, <1>4, <1>10 DEF GatewayTimesOut, InvocationRefused, GiveUp, EnvironmentDies, GetTable,
     Return, dbVars
<1>11. ASSUME NEW e \in Env, EnvironmentRecycled(e) PROVE Settled
  BY <1>1, <1>11 DEF EnvironmentRecycled, dbVars
<1>12. CASE UNCHANGED vars
  BY <1>1, <1>12 DEF vars, dbVars
<1>13. CASE Next
  BY <1>2, <1>3, <1>5, <1>6, <1>7, <1>8, <1>9, <1>10, <1>11, <1>13 DEF Next, Gateway, Handler
<1> QED BY <1>12, <1>13

\* The path keeps the ledger: every step from gateway, handler, client, table
\* or caller saves one unsettled request, settles one truly, or leaves both.
THEOREM LedgerIsKept == Spec => KeepsLedger
<1>1. Init => Ledger!LInit
  <2> SUFFICES ASSUME Init PROVE Saved = {} /\ Outcome = [r \in Request |-> "open"]
    BY DEF Ledger!LInit
  <2>1. Saved = {}
    BY DEF Init, Saved, Stored
  <2> QED BY <2>1 DEF Init, Outcome
<1>2. IndInv /\ [Next]_vars => [Ledger!LNext]_(Ledger!ledgerVars)
  BY StepsAreSettled DEF Ledger!ledgerVars
<1> QED BY Invariance, <1>1, <1>2, PTL DEF Spec, KeepsLedger, Ledger!LSpec

\* A client that is told 4xx, or that only reads, has nothing stored, now or by
\* an attempt that arrives later; one that is told 200 for a POST has.
OutcomeIsTold ==
    \A r \in Request:
        /\ reply[r] \in 400..499 => r \notin Saved
        /\ reply[r] = 200 => (r \in Saved <=> input[r].method = "POST")

\* A ledger is truthful whoever keeps it, and the path keeps one: of a request's
\* fate only a 500, 502 or 504 leaves its client in doubt.
THEOREM DoubtIsFrom500On == Spec => []OutcomeIsTold
<1>1. Ledger!LInit => Ledger!Truthful
  BY DEF Ledger!LInit, Ledger!Truthful
<1>2. Ledger!Truthful /\ [Ledger!LNext]_(Ledger!ledgerVars) => Ledger!Truthful'
  <2>1. DOMAIN Outcome = Request
    BY DEF Outcome
  <2> QED BY <2>1 DEF Ledger!Truthful, Ledger!LNext, Ledger!Save, Ledger!Settle, Ledger!ledgerVars
<1>3. Spec => []Ledger!Truthful
  BY LedgerIsKept, <1>1, <1>2, PTL DEF KeepsLedger, Ledger!LSpec
<1>4. IndInv /\ Ledger!Truthful => OutcomeIsTold
  <2> SUFFICES ASSUME Ledger!Truthful, NEW r \in Request
               PROVE  /\ reply[r] \in 400..499 => r \notin Saved
                      /\ reply[r] = 200 => (r \in Saved <=> input[r].method = "POST")
    BY DEF OutcomeIsTold
  <2> QED BY DEF Ledger!Truthful, Outcome, Acknowledged
<1> QED BY <1>3, <1>4, Invariance, PTL

=============================================================================
