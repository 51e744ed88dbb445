------------------------------ MODULE Handshake ------------------------------
(***************************************************************************)
(* The handshakes of concurrent connections, from the Subscribe frame to    *)
(* the authorized buckets: JwtValidator (auth.rs) with its JWKS cache and   *)
(* refresh lock, and BucketAssigner::assign (assigner.rs) with its cache.   *)
(* Between two awaits of a handshake the other tasks run, the users table   *)
(* changes, keys are rotated and time passes.                               *)
(***************************************************************************)
EXTENDS SyncRules, TLC

CONSTANTS
  Tasks,        \* connections in handshake, each once
  Tokens,       \* JWTs: [kid, sub, exp, signed]
  Kids,         \* key ids
  Subs,         \* JWT subjects
  Params,       \* parameter names of the rules
  Values,       \* what a parameter query may yield: [type, text]
  Docs,         \* the sync-rules.toml files the operator may deploy
  Rows,         \* changed rows: the values of their columns, and of the columns of
                \* the rows of other tables they refer to: [columns, refers]
  UsersAtStart, \* bound: the contents of the users table to start from
  NoRow,        \* a parameter query that yields no row
  None,         \* no entry, no holder, no key id
  JwksTtl,      \* JWKS_CACHE_TTL
  CacheTtl,     \* BucketAssigner.cache_ttl
  MaxTime,      \* bound: ticks of the clock
  MaxChanges    \* bound: changes of the users table and of the key set

ASSUME HandshakeAssumption ==
  /\ UsersAtStart \subseteq [Subs -> [Params -> Values \cup {NoRow}]]
  /\ \A token \in Tokens : token.sub \in Subs /\ token.kid \in Kids \cup {None}
  /\ \A doc \in Docs : \A id \in DOMAIN doc : Field(doc[id], "parameters", <<>>) \in Seq(Params)
  /\ \A row \in Rows : \A c \in DOMAIN row.columns :
       row.columns[c] \in [type : {"text", "int8"}, text : {row.columns[c].text}]
  /\ None \notin BucketIds /\ \A n \in 0..MaxTime : n # None
  /\ JwksTtl \in Nat \ {0} /\ CacheTtl \in Nat \ {0}
  /\ MaxTime \in Nat /\ MaxChanges \in Nat

VARIABLES
  mode,       \* JwtValidationConfig: "hmac" or "jwks"
  rules,      \* BucketAssigner.rule_set; None if it was rejected
  task,       \* the handshake of each connection
  published,  \* the keys the JWKS endpoint serves
  keys,       \* jwks_cache: when the key was fetched, or None
  holder,     \* who holds refresh_lock
  cache,      \* the assignment cache: an entry of each subject, or None
  users,      \* what the parameter queries of each subject yield
  now, changes,
  served,     \* history: when the endpoint last served each key, or None
  heldAt      \* history: when each query last yielded each value, or None

keyVars == <<published, keys, holder, served>>
dbVars == <<users, heldAt>>
vars == <<mode, rules, task, keyVars, cache, dbVars, now, changes>>

\* A task waits for its Subscribe ("new"), for the lock, for the endpoint, or
\* for a parameter query; or it has ended with assignments or with an error.
Waiting == {"lock", "fetch", "resolve"}
Ended == {"done", "failed"}
New == [pc |-> "new"]
Failed(err) == [pc |-> "failed", error |-> err]
Errors == {"AuthError", "Database", "BucketAssignmentFailed", "Misconfigured"}

TypeOK ==
  /\ mode \in {"hmac", "jwks"}
  /\ \A t \in Tasks : task[t].pc \in {"new"} \cup Waiting \cup Ended
  /\ \A t \in Tasks : task[t].pc = "failed" => task[t].error \in Errors
  /\ published \subseteq Kids
  /\ keys \in [Kids -> 0..MaxTime \cup {None}] /\ served \in [Kids -> 0..MaxTime \cup {None}]
  /\ holder \in Tasks \cup {None}
  /\ \A s \in Subs : cache[s] # None => cache[s].from <= cache[s].at /\ cache[s].at \in 0..now
  /\ users \in [Subs -> [Params -> Values \cup {NoRow}]]
  /\ now \in 0..MaxTime /\ changes \in 0..MaxChanges

\* BucketAssigner::new() refuses a rule set that does not validate, and the
\* process does not start.
Init ==
  /\ mode \in {"hmac", "jwks"}
  /\ \E doc \in Docs : rules = IF Validate(ParseSyncRules(doc)) THEN ParseSyncRules(doc) ELSE None
  /\ task = [t \in Tasks |-> New]
  /\ published = Kids
  /\ keys = [k \in Kids |-> None] /\ served = [k \in Kids |-> None] /\ holder = None
  /\ cache = [s \in Subs |-> None]
  /\ users \in UsersAtStart
  /\ heldAt = [s \in Subs |-> [p \in Params |-> [v \in Values |->
                 IF users[s][p] = v THEN 0 ELSE None]]]
  /\ now = 0 /\ changes = 0

-----------------------------------------------------------------------------
(* Faulty variants of definitions below, named Bad...: each one is what an *)
(* easy mistake in the code would make of it, and breaks a property.       *)

\* cache_lookup without the age of the entry.
BadCacheLookup(s) == cache[s] # None

\* No second look at the cache once the lock is granted.
BadAcquireRefreshLock(t) ==
  /\ task[t].pc = "lock" /\ holder = None
  /\ task' = [task EXCEPT ![t].pc = "fetch"]
  /\ holder' = t
  /\ UNCHANGED <<mode, rules, published, keys, served, cache, dbVars, now, changes>>

\* A failed fetch returns without giving up the lock.
BadFetchFails(t) ==
  /\ task[t].pc = "fetch"
  /\ task' = [task EXCEPT ![t] = Failed("AuthError")]
  /\ UNCHANGED <<mode, rules, keyVars, cache, dbVars, now, changes>>

-----------------------------------------------------------------------------
(* BucketAssigner::assign.                                                 *)

CacheLookup(s) == cache[s] # None /\ now - cache[s].at < CacheTtl

\* The claims of a valid token: the expiry is checked, then the cache, then
\* the rules are resolved one after the other.
Assign(token) ==
  IF token.exp <= now THEN Failed("AuthError")
  ELSE IF CacheLookup(token.sub)
  THEN [pc |-> "done", sub |-> token.sub, at |-> now, entry |-> cache[token.sub]]
  ELSE [pc |-> "resolve", sub |-> token.sub, from |-> now, todo |-> DOMAIN rules,
        rule |-> None, i |-> 1, parameters |-> <<>>, found |-> {}]

\* The rule the task is at: the one it has begun, or one of those still to do
\* (the loop is in HashMap order).
Current(t) == IF task[t].rule # None THEN {task[t].rule} ELSE task[t].todo
RuleDone(resolving, id) ==
  [resolving EXCEPT !.rule = None, !.todo = @ \ {id}, !.i = 1, !.parameters = <<>>]

\* What a parameter query leads to: a value that is of a supported type and
\* safe; no row, and the subject is not authorized for the bucket; or an error.
\* Misconfigured is the BucketAssignmentFailed of a rule that no query can
\* satisfy.
ParameterResolved(resolving, id, p, v) ==
  IF p \notin DOMAIN rules[id].parameter_queries THEN Failed("Misconfigured")
  ELSE IF v = NoRow THEN RuleDone(resolving, id)
  ELSE IF v.type \in {"text", "int8"} /\ ValidateSafeValue(v.text)
  THEN [resolving EXCEPT !.rule = id, !.i = @ + 1, !.parameters = WithParameter(@, p, v.text)]
  ELSE Failed("BucketAssignmentFailed")

\* One parameter query, for the next parameter of the rule.
QueryParameter(t, id) ==
  /\ task[t].pc = "resolve" /\ id \in Current(t) /\ task[t].i <= Len(rules[id].parameters)
  /\ LET p == rules[id].parameters[task[t].i]
         v == users[task[t].sub][p]
     IN task' = [task EXCEPT ![t] = ParameterResolved(@, id, p, v)]
  /\ UNCHANGED <<mode, rules, keyVars, cache, dbVars, now, changes>>

QueryFails(t) ==
  /\ task[t].pc = "resolve"
  /\ \E id \in Current(t) : task[t].i <= Len(rules[id].parameters)
  /\ task' = [task EXCEPT ![t] = Failed("Database")]
  /\ UNCHANGED <<mode, rules, keyVars, cache, dbVars, now, changes>>

\* The data queries are rendered, or one of them cannot be.
RuleResolved(resolving, id) ==
  IF \A q \in DOMAIN rules[id].data_queries :
       CanSubstitute(rules[id].data_queries[q], resolving.parameters)
  THEN [RuleDone(resolving, id) EXCEPT
          !.found = @ \cup {BucketAssignment(rules[id], resolving.parameters)}]
  ELSE Failed("Misconfigured")

\* All parameters of the rule are known, and the assignment is complete.
CompleteRule(t, id) ==
  /\ task[t].pc = "resolve" /\ id \in Current(t) /\ task[t].i > Len(rules[id].parameters)
  /\ task' = [task EXCEPT ![t] = RuleResolved(@, id)]
  /\ UNCHANGED <<mode, rules, keyVars, cache, dbVars, now, changes>>

\* All rules are resolved: the result is cached and returned.
CacheInsert(t) ==
  /\ task[t].pc = "resolve" /\ task[t].todo = {}
  /\ LET entry == [at |-> now, from |-> task[t].from, assignments |-> task[t].found] IN
     /\ cache' = [cache EXCEPT ![task[t].sub] = entry]
     /\ task' = [task EXCEPT ![t] = [pc |-> "done", sub |-> task[t].sub, at |-> now, entry |-> entry]]
  /\ UNCHANGED <<mode, rules, keyVars, dbVars, now, changes>>

\* The sweeper task, which the library offers and the server does not start.
SweepExpiredEntries ==
  /\ \E s \in Subs : cache[s] # None /\ ~CacheLookup(s)
  /\ cache' = [s \in Subs |-> IF CacheLookup(s) THEN cache[s] ELSE None]
  /\ UNCHANGED <<mode, rules, task, keyVars, dbVars, now, changes>>

\* find_affected_buckets: the buckets of unexpired entries a changed row is
\* routed to.
FindAffectedBuckets(table, row) ==
  {a.bucket_id : a \in {a \in UNION {cache[s].assignments : s \in {s \in Subs : CacheLookup(s)}} :
                          table \in DOMAIN a.data_queries /\ RowMatches(row.columns, a)}}

-----------------------------------------------------------------------------
(* JwtValidator.                                                           *)

\* decode(): the signature and the claims.
Decoded(token) == IF token.signed THEN Assign(token) ELSE Failed("AuthError")

FreshKey(kid) == keys[kid] # None /\ now - keys[kid] < JwksTtl

\* A Subscribe frame: validate() with the shared secret, or with the key of
\* the token, cached or to be fetched.
ValidateToken(t, token) ==
  /\ rules # None /\ task[t] = New
  /\ task' = [task EXCEPT ![t] =
       IF mode = "hmac" THEN Decoded(token)
       ELSE IF token.kid = None THEN Failed("AuthError")
       ELSE IF FreshKey(token.kid) THEN Decoded(token)
       ELSE [pc |-> "lock", token |-> token]]
  /\ UNCHANGED <<mode, rules, keyVars, cache, dbVars, now, changes>>

\* The write lock is granted; the cache is checked again before a fetch.
AcquireRefreshLock(t) ==
  /\ task[t].pc = "lock" /\ holder = None
  /\ \/ /\ FreshKey(task[t].token.kid)
        /\ task' = [task EXCEPT ![t] = Decoded(@.token)]
        /\ UNCHANGED holder
     \/ /\ ~FreshKey(task[t].token.kid)
        /\ task' = [task EXCEPT ![t].pc = "fetch"]
        /\ holder' = t
  /\ UNCHANGED <<mode, rules, published, keys, served, cache, dbVars, now, changes>>

\* The endpoint answers: every key is cached, and the token's key is looked up
\* without regard to its age.
FetchKeys(t) ==
  /\ task[t].pc = "fetch"
  /\ keys' = [k \in Kids |-> IF k \in published THEN now ELSE keys[k]]
  /\ served' = [k \in Kids |-> IF k \in published THEN now ELSE served[k]]
  /\ task' = [task EXCEPT ![t] =
       IF keys'[@.token.kid] # None THEN Decoded(@.token) ELSE Failed("AuthError")]
  /\ holder' = None
  /\ UNCHANGED <<mode, rules, published, cache, dbVars, now, changes>>

\* The request or its decoding fails, or one of the keys is malformed: those
\* before it in the answer are cached.
FetchFails(t) ==
  /\ task[t].pc = "fetch"
  /\ \E before \in SUBSET published :
       /\ keys' = [k \in Kids |-> IF k \in before THEN now ELSE keys[k]]
       /\ served' = [k \in Kids |-> IF k \in before THEN now ELSE served[k]]
  /\ task' = [task EXCEPT ![t] = Failed("AuthError")]
  /\ holder' = None
  /\ UNCHANGED <<mode, rules, published, cache, dbVars, now, changes>>

-----------------------------------------------------------------------------
(* The rest of the world.                                                  *)

ChangeUser(s, p) ==
  /\ changes < MaxChanges /\ changes' = changes + 1
  /\ \E v \in (Values \cup {NoRow}) \ {users[s][p]} :
       /\ users' = [users EXCEPT ![s][p] = v]
       /\ heldAt' = [heldAt EXCEPT ![s][p] = [w \in Values |-> IF w = v THEN now ELSE @[w]]]
  /\ UNCHANGED <<mode, rules, task, keyVars, cache, now>>

RotateKeys(k) ==
  /\ mode = "jwks" /\ changes < MaxChanges /\ changes' = changes + 1
  /\ published' = IF k \in published THEN published \ {k} ELSE published \cup {k}
  /\ UNCHANGED <<mode, rules, task, keys, holder, served, cache, dbVars, now>>

Tick ==
  /\ now < MaxTime /\ now' = now + 1
  /\ heldAt' = [s \in Subs |-> [p \in Params |-> [v \in Values |->
                  IF users[s][p] = v THEN now' ELSE heldAt[s][p][v]]]]
  /\ UNCHANGED <<mode, rules, task, keyVars, cache, users, changes>>

Step(t) ==
  \/ AcquireRefreshLock(t) \/ FetchKeys(t) \/ FetchFails(t)
  \/ \E id \in BucketIds : QueryParameter(t, id) \/ CompleteRule(t, id)
  \/ QueryFails(t) \/ CacheInsert(t)

Next ==
  \/ \E t \in Tasks, token \in Tokens : ValidateToken(t, token)
  \/ \E t \in Tasks : Step(t)
  \/ SweepExpiredEntries
  \/ \E s \in Subs, p \in Params : ChangeUser(s, p)
  \/ \E k \in Kids : RotateKeys(k)
  \/ Tick

Spec == Init /\ [][Next]_vars

\* Some task that can go on does: the lock is granted, the endpoint and the
\* database answer.
Fairness == WF_vars(\E t \in Tasks : Step(t))
FairSpec == Spec /\ Fairness

-----------------------------------------------------------------------------
(* Properties.                                                             *)

Assignments == UNION ({task[t].entry.assignments : t \in {t \in Tasks : task[t].pc = "done"}}
                 \cup {cache[s].assignments : s \in {s \in Subs : cache[s] # None}})

\* assigner.rs:52 says that only validated rules reach the assigner: no
\* handshake meets a parameter without a query or a reference it cannot
\* substitute, whatever file was deployed and whatever the queries yield.
ValidRulesResolve ==
  \A t \in Tasks : task[t].pc = "failed" => task[t].error # "Misconfigured"

\* assigner.rs:271: a bucket_id is unique per rule and resolved parameter
\* values.  Two assignments of any subjects, resolved at any time, that share
\* a partition of the op log have the same parameters and the same queries.
PartitionPerParameters ==
  \A a, b \in Assignments : a.bucket_id = b.bucket_id => a = b

\* What a handshake is authorized for is never older than cache_ttl: it uses
\* an entry resolved less than cache_ttl ago, each value of which a parameter
\* query of the subject yielded since that resolution began.
AssignmentsCurrent ==
  \A t \in Tasks : task[t].pc = "done" =>
    /\ task[t].at - task[t].entry.at < CacheTtl
    /\ \A a \in task[t].entry.assignments : \A p \in DOMAIN a.parameters :
         \E v \in Values :
           /\ v.text = a.parameters[p] /\ heldAt[task[t].sub][p][v] # None
           /\ heldAt[task[t].sub][p][v] >= task[t].entry.from

\* auth.rs:49: a burst of connections fires no redundant fetches: a fetch for
\* a key id starts only when the endpoint has not served that key during the
\* last JWKS_CACHE_TTL.
NoRedundantFetch ==
  [][\A t \in Tasks : task[t].pc # "fetch" /\ task'[t].pc = "fetch" =>
       LET at == served[task[t].token.kid] IN at = None \/ now - at >= JwksTtl]_vars

\* A row that a data query selects by equality of its own columns with the
\* parameters is routed to the bucket while the assignment is cached, numeric
\* columns included (assigner.rs:325).
OwnedRowsRouted ==
  \A s \in Subs : CacheLookup(s) => \A a \in cache[s].assignments :
    \A q \in DOMAIN a.data_queries, row \in Rows :
      a.data_queries[q] # {} /\ QuerySelects(a.data_queries[q], row.columns)
        => a.bucket_id \in FindAffectedBuckets(q, row)

\* No handshake is stuck for ever at the refresh lock, at the endpoint or in
\* the resolution of the rules, whichever handshakes fail before it.
HandshakesEnd == <>[](\A t \in Tasks : task[t].pc \notin Waiting)

-----------------------------------------------------------------------------
(* Statements of docs and comments that the code does not meet: TLC        *)
(* refutes each of them on the instance README.md gives for it.            *)

\* auth.rs:21 says "Keys are cached for JWKS_CACHE_TTL": a token is accepted
\* only with a key that the endpoint served less than JWKS_CACHE_TTL ago.
KeysExpire ==
  [][\A t \in Tasks : task[t].pc = "fetch" /\ task'[t].pc \in {"resolve", "done"} =>
       now - served'[task[t].token.kid] < JwksTtl]_vars

\* assigner.rs:176 says the matching of rows "covers every example in the
\* reference docs": one of them (docs/sync-rules-reference.md:53) selects the
\* tags of the entities of an owner, by a column of the entity.
ExamplesRouted ==
  \A s \in Subs : CacheLookup(s) => \A a \in cache[s].assignments :
    \A q \in DOMAIN a.data_queries, row \in Rows :
      a.data_queries[q] # {} /\ QuerySelects(a.data_queries[q], row.columns @@ row.refers)
        => a.bucket_id \in FindAffectedBuckets(q, row)
=============================================================================
