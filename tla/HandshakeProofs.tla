--------------------------- MODULE HandshakeProofs ---------------------------
(***************************************************************************)
(* The handshakes of any number of connections: a rule set that validates  *)
(* always resolves, a partition belongs to one rule and one choice of      *)
(* parameters, what a session is granted is current, the rows its queries  *)
(* select by their own columns are routed to it, and no key is fetched     *)
(* twice within its time to live.                                          *)
(***************************************************************************)
EXTENDS Handshake, TLAPS

\* A leaf that names no prover is tried with these.
USE SMTT(30), ZenonT(30)

-----------------------------------------------------------------------------
(* The inductive invariant.                                                *)

\* Time: a history value is a moment that has passed.
Moments == 0..now

\* The rules are those of a file that was parsed and validated.
RulesInv ==
  rules # None =>
    /\ Validate(rules)
    /\ \A id \in DOMAIN rules : rules[id].id = id /\ rules[id].parameters \in Seq(Params)

\* The cache of keys has what the endpoint served, and when.
KeyInv == keys = served /\ keys \in [Kids -> Moments \cup {None}]

\* A parameter query yields the value that the table holds now.
WorldInv ==
  /\ now \in 0..MaxTime
  /\ users \in [Subs -> [Params -> Values \cup {NoRow}]]
  /\ heldAt \in [Subs -> [Params -> [Values -> Moments \cup {None}]]]
  /\ \A s \in Subs, p \in Params : users[s][p] \in Values => heldAt[s][p][users[s][p]] = now

\* A parameter query of the subject yielded the text at the time or later.
Held(s, p, text, from) ==
  \E v \in Values : v.text = text /\ heldAt[s][p][v] # None /\ heldAt[s][p][v] >= from

IsFcn(f) == f = [p \in DOMAIN f |-> f[p]]

\* Parameters whose values are safe and were yielded since the time.
Yielded(f, s, from) ==
  IsFcn(f) /\ \A p \in DOMAIN f : p \in Params /\ f[p] \in SafeTexts /\ Held(s, p, f[p], from)

\* An assignment as resolve_rule makes it.
Resolved(a, s, from) ==
  \E id \in DOMAIN rules :
    /\ DOMAIN a.parameters = Declared(rules[id])
    /\ a = BucketAssignment(rules[id], a.parameters)
    /\ Yielded(a.parameters, s, from)

EntryInv(entry, s) ==
  /\ entry.at \in Moments /\ entry.from \in Moments /\ rules # None
  /\ \A a \in entry.assignments : Resolved(a, s, entry.from)

CacheInv == DOMAIN cache = Subs /\ \A s \in Subs : cache[s] # None => EntryInv(cache[s], s)

Authenticating(r) ==
  rules # None /\ r \in [pc : {"lock", "fetch"}, token : {x \in Tokens : x.kid \in Kids}]

\* The names of the first n parameters of a rule.
First(id, n) == {rules[id].parameters[j] : j \in 1..n}

\* A task in the loop over the rules: it has a value for each parameter of the
\* rule before the i-th.
Resolving(r) ==
  /\ DOMAIN r = {"pc", "sub", "from", "todo", "rule", "i", "parameters", "found"}
  /\ r.sub \in Subs /\ r.from \in Moments /\ rules # None
  /\ r.todo \subseteq DOMAIN rules
  /\ r.rule = None => r.i = 1 /\ DOMAIN r.parameters = {}
  /\ r.rule # None =>
       /\ r.rule \in r.todo /\ r.i \in 1..(Len(rules[r.rule].parameters) + 1)
       /\ DOMAIN r.parameters = First(r.rule, r.i - 1)
  /\ Yielded(r.parameters, r.sub, r.from)
  /\ \A a \in r.found : Resolved(a, r.sub, r.from)

Finished(r) ==
  /\ r.sub \in Subs /\ r.at \in Moments /\ EntryInv(r.entry, r.sub)
  /\ r.at - r.entry.at < CacheTtl

TaskInv(r) ==
  /\ r.pc \in {"new"} \cup Waiting \cup Ended
  /\ r.pc \in {"lock", "fetch"} => Authenticating(r)
  /\ r.pc = "resolve" => Resolving(r)
  /\ r.pc = "done" => Finished(r)
  /\ r.pc = "failed" => r.error # "Misconfigured"

TasksInv == DOMAIN task = Tasks /\ \A t \in Tasks : TaskInv(task[t])

Inv == RulesInv /\ KeyInv /\ WorldInv /\ CacheInv /\ TasksInv

\* The clock and the time limits are numbers.
LEMMA Limits ==
  /\ MaxTime \in Nat /\ CacheTtl \in Nat /\ CacheTtl > 0
  /\ \A n \in 0..MaxTime : n # None
<1>1. CacheTtl \in Nat \ {0} /\ MaxTime \in Nat /\ \A n \in 0..MaxTime : n # None
  BY HandshakeAssumption, ZenonT(30) DEF HandshakeAssumption
<1>. QED BY <1>1

-----------------------------------------------------------------------------
(* What was once yielded stays so: the clock and the history only advance. *)

\* What every step does to the rules, the clock and the history.
Persist ==
  /\ rules' = rules
  /\ now \in Nat /\ now' \in Nat /\ now <= now'
  /\ \A s \in Subs, p \in Params, v \in Values : heldAt[s][p][v] # None =>
       /\ heldAt[s][p][v] \in Nat /\ heldAt'[s][p][v] \in Nat
       /\ heldAt'[s][p][v] # None /\ heldAt'[s][p][v] >= heldAt[s][p][v]

\* A value that a parameter query yielded since a time was still yielded since.
LEMMA HeldPersists ==
  ASSUME NEW s \in Subs, NEW p \in Params, NEW text, NEW from \in Nat,
         Persist, Held(s, p, text, from)
  PROVE  Held(s, p, text, from)'
<1>1. PICK v \in Values : v.text = text /\ heldAt[s][p][v] # None /\ heldAt[s][p][v] >= from
  BY DEF Held
<1>2. heldAt'[s][p][v] # None /\ heldAt'[s][p][v] >= from
  BY <1>1 DEF Persist
<1>. QED BY <1>1, <1>2 DEF Held

\* So were all the values of a choice of parameters.
LEMMA YieldedPersists ==
  ASSUME NEW f, NEW s \in Subs, NEW from \in Nat, Persist, Yielded(f, s, from)
  PROVE  Yielded(f, s, from)'
<1>1. SUFFICES ASSUME NEW p \in DOMAIN f
               PROVE  p \in Params /\ f[p] \in SafeTexts /\ Held(s, p, f[p], from)'
  BY DEF Yielded, IsFcn
<1>2. p \in Params /\ f[p] \in SafeTexts /\ Held(s, p, f[p], from)
  BY DEF Yielded
<1>3. PICK text : text = f[p]
  OBVIOUS
<1>4. Held(s, p, text, from)'
  BY <1>2, <1>3, HeldPersists
<1>. QED BY <1>2, <1>3, <1>4

\* An assignment stays one that resolve_rule makes.
LEMMA ResolvedPersists ==
  ASSUME NEW a, NEW s \in Subs, NEW from \in Nat, Persist, Resolved(a, s, from)
  PROVE  Resolved(a, s, from)'
<1>1. PICK id \in DOMAIN rules :
        /\ DOMAIN a.parameters = Declared(rules[id])
        /\ a = BucketAssignment(rules[id], a.parameters)
        /\ Yielded(a.parameters, s, from)
  BY DEF Resolved
<1>2. PICK f : f = a.parameters
  OBVIOUS
<1>3. Yielded(f, s, from)'
  BY <1>1, <1>2, YieldedPersists
<1>4. rules' = rules
  BY DEF Persist
<1>5. id \in DOMAIN rules' /\ rules'[id] = rules[id]
  BY <1>4
<1>6. Yielded(a.parameters, s, from)'
  BY <1>2, <1>3
<1>7. DOMAIN a.parameters = Declared(rules'[id]) /\ a = BucketAssignment(rules'[id], a.parameters)
  BY <1>1, <1>5
<1>. QED BY <1>5, <1>6, <1>7, Zenon DEF Resolved

\* An entry of the assignment cache stays good for its subject.
LEMMA EntryPersists ==
  ASSUME NEW entry, NEW s \in Subs, Persist, EntryInv(entry, s)
  PROVE  EntryInv(entry, s)'
<1>1. entry.at \in 0..now' /\ entry.from \in 0..now' /\ rules' # None /\ entry.from \in Nat
  BY DEF EntryInv, Moments, Persist
<1>2. SUFFICES ASSUME NEW a \in entry.assignments PROVE Resolved(a, s, entry.from)'
  BY <1>1 DEF EntryInv, Moments
<1>3. PICK from \in Nat : from = entry.from
  BY <1>1
<1>4. Resolved(a, s, from)
  BY <1>3 DEF EntryInv
<1>5. Resolved(a, s, from)'
  BY <1>4, ResolvedPersists
<1>. QED BY <1>3, <1>5

\* A task that does not move keeps its part of the invariant.
LEMMA TaskPersists ==
  ASSUME NEW r, Persist, TaskInv(r)
  PROVE  TaskInv(r)'
<1>1. ASSUME r.pc = "resolve" PROVE Resolving(r)'
  <2>1. Resolving(r)
    BY <1>1 DEF TaskInv
  <2>2. r.sub \in Subs /\ r.from \in Nat /\ r.from \in 0..now'
    BY <2>1 DEF Resolving, Moments, Persist
  <2>3. PICK s \in Subs, from \in Nat : s = r.sub /\ from = r.from
    BY <2>2
  <2>4. PICK f : f = r.parameters
    OBVIOUS
  <2>5. Yielded(f, s, from)'
    BY <2>1, <2>3, <2>4, YieldedPersists DEF Resolving
  <2>6. Yielded(r.parameters, r.sub, r.from)'
    BY <2>3, <2>4, <2>5
  <2>7. \A a \in r.found : Resolved(a, r.sub, r.from)'
    <3>1. SUFFICES ASSUME NEW a \in r.found PROVE Resolved(a, r.sub, r.from)'
      OBVIOUS
    <3>2. Resolved(a, s, from)
      BY <2>1, <2>3 DEF Resolving
    <3>3. Resolved(a, s, from)'
      BY <3>2, ResolvedPersists
    <3>. QED BY <2>3, <3>3
  <2>8. rules' = rules
    BY DEF Persist
  <2>. QED BY <2>1, <2>2, <2>6, <2>7, <2>8 DEF Resolving, First, Moments
<1>2. ASSUME r.pc = "done" PROVE Finished(r)'
  <2>1. Finished(r)
    BY <1>2 DEF TaskInv
  <2>2. PICK s, entry : s = r.sub /\ entry = r.entry
    OBVIOUS
  <2>3. s \in Subs /\ EntryInv(entry, s)'
    BY <2>1, <2>2, EntryPersists DEF Finished
  <2>4. r.at \in 0..now'
    BY <2>1 DEF Finished, Moments, Persist
  <2>. QED BY <2>1, <2>2, <2>3, <2>4 DEF Finished, Moments
<1>. QED BY <1>1, <1>2 DEF TaskInv, Authenticating, Waiting, Ended, Persist

\* The entries of the cache that are left alone stay good.
LEMMA CachePersists ==
  ASSUME CacheInv, Persist, cache' = cache
  PROVE  CacheInv'
<1>1. SUFFICES ASSUME NEW s \in Subs, cache[s] # None PROVE EntryInv(cache[s], s)'
  BY DEF CacheInv
<1>2. PICK entry : entry = cache[s]
  OBVIOUS
<1>3. EntryInv(entry, s)'
  BY <1>1, <1>2, EntryPersists DEF CacheInv
<1>. QED BY <1>2, <1>3

-----------------------------------------------------------------------------
(* The rest of the world.                                                  *)

\* What a step of a task or of the sweeper leaves alone.
Quiet == UNCHANGED <<rules, users, heldAt, now>>

\* A step that changes neither the table nor the clock keeps what was yielded.
LEMMA QuietPersists ==
  ASSUME WorldInv, Quiet
  PROVE  Persist /\ WorldInv'
<1>1. WorldInv'
  BY DEF WorldInv, Quiet, Moments
<1>2. ASSUME NEW s \in Subs, NEW p \in Params, NEW v \in Values, heldAt[s][p][v] # None
      PROVE  heldAt[s][p][v] \in Nat
  BY <1>2 DEF WorldInv, Moments
<1>3. now \in Nat
  BY DEF WorldInv
<1>4. \A s \in Subs, p \in Params, v \in Values : heldAt[s][p][v] # None =>
        /\ heldAt[s][p][v] \in Nat /\ heldAt'[s][p][v] \in Nat
        /\ heldAt'[s][p][v] # None /\ heldAt'[s][p][v] >= heldAt[s][p][v]
  BY <1>2 DEF Quiet
<1>. QED BY <1>1, <1>3, <1>4 DEF Quiet, Persist

\* Nor does a change of the users table: the new value is yielded from now on.
LEMMA ChangePersists ==
  ASSUME WorldInv, NEW s \in Subs, NEW p \in Params, ChangeUser(s, p)
  PROVE  Persist /\ WorldInv'
<1>1. PICK v \in Values \cup {NoRow} :
        /\ users' = [users EXCEPT ![s][p] = v]
        /\ heldAt' = [heldAt EXCEPT ![s][p] = [w \in Values |-> IF w = v THEN now ELSE heldAt[s][p][w]]]
  BY ZenonT(30) DEF ChangeUser
<1>2. rules' = rules /\ now' = now /\ now \in 0..MaxTime /\ now \in Nat
  BY DEF ChangeUser, WorldInv, keyVars
<1>3. users' \in [Subs -> [Params -> Values \cup {NoRow}]]
  BY <1>1 DEF WorldInv
<1>4. \A a \in Subs, q \in Params, w \in Values :
        heldAt'[a][q][w] = IF a = s /\ q = p /\ w = v THEN now ELSE heldAt[a][q][w]
  BY <1>1 DEF WorldInv
<1>5. [w \in Values |-> IF w = v THEN now ELSE heldAt[s][p][w]] \in [Values -> Moments \cup {None}]
  BY <1>2 DEF WorldInv, Moments
<1>6. heldAt' \in [Subs -> [Params -> [Values -> Moments \cup {None}]]]
  BY <1>1, <1>5 DEF WorldInv
<1>7. \A a \in Subs, q \in Params : users'[a][q] = IF a = s /\ q = p THEN v ELSE users[a][q]
  BY <1>1 DEF WorldInv
<1>8. \A a \in Subs, q \in Params : users'[a][q] \in Values => heldAt'[a][q][users'[a][q]] = now
  BY <1>4, <1>7 DEF WorldInv
<1>9. \A a \in Subs, q \in Params, w \in Values : heldAt[a][q][w] # None =>
        heldAt[a][q][w] \in Nat /\ heldAt[a][q][w] <= now
  BY <1>2 DEF WorldInv, Moments
<1>10. now # None
  BY <1>2, HandshakeAssumption DEF HandshakeAssumption
<1>11. \A a \in Subs, q \in Params, w \in Values : heldAt[a][q][w] # None =>
         /\ heldAt[a][q][w] \in Nat /\ heldAt'[a][q][w] \in Nat
         /\ heldAt'[a][q][w] # None /\ heldAt'[a][q][w] >= heldAt[a][q][w]
  BY <1>2, <1>4, <1>9, <1>10
<1>12. Persist
  BY <1>2, <1>11 DEF Persist
<1>. QED BY <1>2, <1>3, <1>6, <1>8, <1>12 DEF WorldInv, Moments

\* Time passes: what the table holds is yielded at the new time.
LEMMA TickPersists ==
  ASSUME WorldInv, Tick
  PROVE  Persist /\ WorldInv'
<1>1. rules' = rules /\ users' = users /\ now \in Nat /\ now' = now + 1 /\ now' \in 0..MaxTime
  BY HandshakeAssumption DEF Tick, WorldInv, keyVars, HandshakeAssumption
<1>2. heldAt' = [s \in Subs |-> [p \in Params |-> [v \in Values |->
                   IF users[s][p] = v THEN now' ELSE heldAt[s][p][v]]]]
  BY DEF Tick
<1>3. \A s \in Subs, p \in Params, v \in Values :
        heldAt'[s][p][v] = IF users[s][p] = v THEN now' ELSE heldAt[s][p][v]
  BY <1>2
<1>4. \A s \in Subs, p \in Params, v \in Values :
        heldAt[s][p][v] # None => heldAt[s][p][v] \in Nat /\ heldAt[s][p][v] <= now
  BY <1>1 DEF WorldInv, Moments
<1>5. \A s \in Subs, p \in Params, v \in Values : heldAt'[s][p][v] \in 0..now' \cup {None}
  BY <1>1, <1>3, <1>4
<1>6. heldAt' \in [Subs -> [Params -> [Values -> 0..now' \cup {None}]]]
  BY <1>2, <1>3, <1>5
<1>7. now' # None
  BY <1>1, HandshakeAssumption DEF HandshakeAssumption
<1>8. \A s \in Subs, p \in Params, v \in Values : heldAt[s][p][v] # None =>
        /\ heldAt[s][p][v] \in Nat /\ heldAt'[s][p][v] \in Nat
        /\ heldAt'[s][p][v] # None /\ heldAt'[s][p][v] >= heldAt[s][p][v]
  BY <1>1, <1>3, <1>4, <1>7
<1>9. Persist
  BY <1>1, <1>8 DEF Persist
<1>10. \A s \in Subs, p \in Params : users'[s][p] \in Values => heldAt'[s][p][users'[s][p]] = now'
  BY <1>1, <1>3
<1>. QED BY <1>1, <1>6, <1>9, <1>10 DEF WorldInv, Moments

-----------------------------------------------------------------------------
(* The steps of a task.                                                    *)

\* One task moves to a record.
MovesTo(t, r) == task' = [task EXCEPT ![t] = r]

\* Tasks that stay where they are keep the invariant.
LEMMA TasksStay ==
  ASSUME TasksInv, Persist, task' = task
  PROVE  TasksInv'
<1>1. SUFFICES ASSUME NEW t \in Tasks PROVE TaskInv(task[t])'
  BY DEF TasksInv
<1>2. PICK r : r = task[t]
  OBVIOUS
<1>3. TaskInv(r)'
  BY <1>2, TaskPersists DEF TasksInv
<1>. QED BY <1>2, <1>3

\* So do they when one of them moves to a record that meets it.
LEMMA TaskMoves ==
  ASSUME TasksInv, Persist, NEW t \in Tasks, NEW x, TaskInv(x), MovesTo(t, x)
  PROVE  TasksInv'
<1>1. SUFFICES ASSUME NEW u \in Tasks PROVE TaskInv(task[u])'
  BY DEF TasksInv, MovesTo
<1>2. PICK r : r = task'[u]
  OBVIOUS
<1>3. TaskInv(r)
  BY <1>2 DEF TasksInv, MovesTo
<1>4. TaskInv(r)'
  BY <1>3, TaskPersists
<1>. QED BY <1>2, <1>4

\* An error other than Misconfigured meets the invariant.
LEMMA FailedMeets ==
  ASSUME NEW err, err # "Misconfigured"
  PROVE  TaskInv(Failed(err))
BY DEF TaskInv, Failed, Ended

\* What decode() and the look at the assignment cache make of a token.
LEMMA DecodedMeets ==
  ASSUME WorldInv, CacheInv, rules # None, NEW token \in Tokens
  PROVE  TaskInv(Decoded(token))
<1>1. token.sub \in Subs /\ now \in Moments
  BY HandshakeAssumption DEF HandshakeAssumption, WorldInv, Moments
<1>2. TaskInv(Failed("AuthError"))
  BY FailedMeets
<1>3. PICK s \in Subs : s = token.sub
  BY <1>1
<1>4. ASSUME CacheLookup(s)
      PROVE  TaskInv([pc |-> "done", sub |-> s, at |-> now, entry |-> cache[s]])
  <2>1. cache[s] # None /\ now - cache[s].at < CacheTtl
    BY <1>4 DEF CacheLookup
  <2>2. EntryInv(cache[s], s)
    BY <2>1 DEF CacheInv
  <2>3. Finished([pc |-> "done", sub |-> s, at |-> now, entry |-> cache[s]])
    BY <1>1, <2>1, <2>2 DEF Finished
  <2>. QED BY <2>3 DEF TaskInv, Ended
<1>5. TaskInv([pc |-> "resolve", sub |-> s, from |-> now, todo |-> DOMAIN rules,
               rule |-> None, i |-> 1, parameters |-> <<>>, found |-> {}])
  <2>. DEFINE r == [pc |-> "resolve", sub |-> s, from |-> now, todo |-> DOMAIN rules,
                    rule |-> None, i |-> 1, parameters |-> <<>>, found |-> {}]
  <2>1. Yielded(<<>>, s, now)
    BY DEF Yielded, IsFcn
  <2>2. /\ DOMAIN r = {"pc", "sub", "from", "todo", "rule", "i", "parameters", "found"}
        /\ r.pc = "resolve" /\ r.sub = s /\ r.from = now /\ r.todo = DOMAIN rules
        /\ r.rule = None /\ r.i = 1 /\ r.parameters = <<>> /\ r.found = {}
    OBVIOUS
  <2>. HIDE DEF r
  <2>3. Yielded(r.parameters, r.sub, r.from) /\ DOMAIN r.parameters = {}
    BY <2>1, <2>2
  <2>4. Resolving(r)
    BY <1>1, <2>2, <2>3, ZenonT(30) DEF Resolving
  <2>5. TaskInv(r)
    BY <2>2, <2>4, ZenonT(30) DEF TaskInv, Waiting
  <2>. QED BY <2>5 DEF r
<1>. QED BY <1>2, <1>3, <1>4, <1>5 DEF Decoded, Assign

\* A Subscribe frame.
LEMMA ValidateMeets ==
  ASSUME WorldInv, CacheInv, TasksInv, NEW t \in Tasks, NEW token \in Tokens, ValidateToken(t, token)
  PROVE  Quiet /\ \E r : TaskInv(r) /\ MovesTo(t, r)
<1>1. Quiet
  BY DEF ValidateToken, Quiet, dbVars
<1>2. rules # None
  BY DEF ValidateToken
<1>. DEFINE x == IF mode = "hmac" THEN Decoded(token)
                 ELSE IF token.kid = None THEN Failed("AuthError")
                 ELSE IF FreshKey(token.kid) THEN Decoded(token)
                 ELSE [pc |-> "lock", token |-> token]
<1>3. MovesTo(t, x)
  BY DEF ValidateToken, MovesTo
<1>4. TaskInv(Decoded(token)) /\ TaskInv(Failed("AuthError"))
  BY <1>2, DecodedMeets, FailedMeets
<1>5. ASSUME token.kid # None PROVE TaskInv([pc |-> "lock", token |-> token])
  <2>1. Authenticating([pc |-> "lock", token |-> token])
    BY <1>2, <1>5, HandshakeAssumption DEF HandshakeAssumption, Authenticating
  <2>. QED BY <2>1 DEF TaskInv, Waiting
<1>6. TaskInv(x)
  BY <1>4, <1>5
<1>. HIDE DEF x
<1>. QED BY <1>1, <1>3, <1>6

\* The refresh lock is granted.
LEMMA AcquireMeets ==
  ASSUME WorldInv, CacheInv, TasksInv, NEW t \in Tasks, AcquireRefreshLock(t)
  PROVE  Quiet /\ \E r : TaskInv(r) /\ MovesTo(t, r)
<1>1. Quiet
  BY DEF AcquireRefreshLock, Quiet, dbVars
<1>2. Authenticating(task[t])
  BY DEF AcquireRefreshLock, TasksInv, TaskInv
<1>3. rules # None /\ task[t].token \in Tokens
  BY <1>2 DEF Authenticating
<1>4. TaskInv(Decoded(task[t].token))
  <2>1. PICK token \in Tokens : token = task[t].token
    BY <1>3
  <2>2. TaskInv(Decoded(token))
    BY <1>3, DecodedMeets
  <2>. QED BY <2>1, <2>2
<1>5. TaskInv([task[t] EXCEPT !.pc = "fetch"])
  <2>1. Authenticating([task[t] EXCEPT !.pc = "fetch"]) /\ [task[t] EXCEPT !.pc = "fetch"].pc = "fetch"
    BY <1>2 DEF Authenticating
  <2>. QED BY <2>1 DEF TaskInv, Waiting
<1>6. MovesTo(t, Decoded(task[t].token)) \/ MovesTo(t, [task[t] EXCEPT !.pc = "fetch"])
  BY DEF AcquireRefreshLock, MovesTo, TasksInv
<1>. QED BY <1>1, <1>4, <1>5, <1>6

\* The endpoint answers, or fails to.
LEMMA FetchMeets ==
  ASSUME WorldInv, CacheInv, TasksInv, NEW t \in Tasks, FetchKeys(t) \/ FetchFails(t)
  PROVE  Quiet /\ \E r : TaskInv(r) /\ MovesTo(t, r)
<1>1. Quiet
  BY DEF FetchKeys, FetchFails, Quiet, dbVars
<1>2. Authenticating(task[t])
  BY ZenonT(30) DEF FetchKeys, FetchFails, TasksInv, TaskInv
<1>3. rules # None /\ task[t].token \in Tokens
  BY <1>2 DEF Authenticating
<1>4. PICK token \in Tokens : token = task[t].token
  BY <1>3
<1>5. TaskInv(Decoded(token)) /\ TaskInv(Failed("AuthError"))
  BY <1>3, DecodedMeets, FailedMeets
<1>6. MovesTo(t, Decoded(token)) \/ MovesTo(t, Failed("AuthError"))
  BY <1>4, ZenonT(30) DEF FetchKeys, FetchFails, MovesTo
<1>. QED BY <1>1, <1>5, <1>6

-----------------------------------------------------------------------------
(* The loop over the rules.                                                *)

\* The rule a task is at is one of those to do, and it has the values of the
\* parameters before the i-th.
LEMMA CurrentRule ==
  ASSUME RulesInv, NEW t, Resolving(task[t]), NEW id \in Current(t)
  PROVE  /\ id \in task[t].todo /\ id \in DOMAIN rules /\ id # None
         /\ rules[id].id = id /\ rules[id].parameters \in Seq(Params)
         /\ ValidParametersHaveQueries(rules[id]) /\ ValidDataReferences(rules[id])
         /\ task[t].i \in 1..(Len(rules[id].parameters) + 1)
         /\ DOMAIN task[t].parameters = First(id, task[t].i - 1)
<1>1. id \in task[t].todo /\ id \in DOMAIN rules /\ rules # None
  BY DEF Current, Resolving
<1>2. Validate(rules) /\ rules[id].id = id /\ rules[id].parameters \in Seq(Params)
  BY <1>1 DEF RulesInv
<1>3. id \in BucketIds /\ ValidParametersHaveQueries(rules[id]) /\ ValidDataReferences(rules[id])
  BY <1>1, <1>2 DEF Validate
<1>4. id # None
  BY <1>3, HandshakeAssumption DEF HandshakeAssumption
<1>5. Len(rules[id].parameters) \in Nat
  BY <1>2
<1>7. /\ task[t].i \in 1..(Len(rules[id].parameters) + 1)
      /\ DOMAIN task[t].parameters = First(id, task[t].i - 1)
  <2>1. CASE task[t].rule = None
    <3>1. task[t].i = 1 /\ DOMAIN task[t].parameters = {}
      BY <2>1 DEF Resolving
    <3>2. First(id, task[t].i - 1) = {}
      BY <3>1 DEF First
    <3>. QED BY <1>5, <3>1, <3>2
  <2>2. CASE task[t].rule # None
    BY <2>2, ZenonT(30) DEF Resolving, Current
  <2>. QED BY <2>1, <2>2
<1>. QED BY <1>1, <1>2, <1>3, <1>4, <1>7

\* No parameters, as every rule starts.
LEMMA NothingYielded ==
  ASSUME NEW s, NEW from
  PROVE  Yielded(<<>>, s, from) /\ DOMAIN <<>> = {}
BY DEF Yielded, IsFcn

\* A task that is done with a rule, with more found or not, is in the loop.
LEMMA RuleDoneMeets ==
  ASSUME NEW r, Resolving(r), r.pc = "resolve", NEW id, NEW x,
         DOMAIN x = DOMAIN r, x.pc = r.pc, x.sub = r.sub, x.from = r.from,
         x.todo = r.todo \ {id}, x.rule = None, x.i = 1, x.parameters = <<>>,
         \A a \in x.found : Resolved(a, r.sub, r.from)
  PROVE  TaskInv(x)
<1>1. Yielded(x.parameters, x.sub, x.from) /\ DOMAIN x.parameters = {}
  BY NothingYielded
<1>2. Resolving(x)
  BY <1>1 DEF Resolving
<1>. QED BY <1>2, ZenonT(30) DEF TaskInv, Waiting

\* Another parameter: the values known are those of one more name.
LEMMA ParameterYielded ==
  ASSUME NEW f, NEW s, NEW from, Yielded(f, s, from),
         NEW p \in Params, NEW text \in SafeTexts, Held(s, p, text, from)
  PROVE  Yielded(WithParameter(f, p, text), s, from)
<1>. DEFINE g == WithParameter(f, p, text)
<1>1. DOMAIN g = {p} \cup DOMAIN f /\ IsFcn(g)
  BY DEF WithParameter, IsFcn
<1>2. g[p] = text /\ \A q \in DOMAIN f : q # p => g[q] = f[q]
  BY DEF WithParameter
<1>3. SUFFICES ASSUME NEW q \in DOMAIN g
               PROVE  q \in Params /\ g[q] \in SafeTexts /\ Held(s, q, g[q], from)
  BY <1>1 DEF Yielded
<1>. HIDE DEF g
<1>4. CASE q = p
  BY <1>2, <1>4
<1>5. CASE q # p
  BY <1>1, <1>2, <1>5 DEF Yielded
<1>. QED BY <1>4, <1>5

\* The names of the first n + 1 parameters.
LEMMA FirstNext ==
  ASSUME NEW id, NEW n \in Nat
  PROVE  First(id, n + 1) = {rules[id].parameters[n + 1]} \cup First(id, n)
<1>1. \A j : j \in 1..(n + 1) <=> j = n + 1 \/ j \in 1..n
  OBVIOUS
<1>. QED BY <1>1 DEF First

\* A parameter query that yields a value: the task goes on with the rule.
LEMMA ValueMeets ==
  ASSUME RulesInv, NEW t, Resolving(task[t]), task[t].pc = "resolve",
         NEW id \in Current(t), task[t].i <= Len(rules[id].parameters),
         NEW text \in SafeTexts,
         Held(task[t].sub, rules[id].parameters[task[t].i], text, task[t].from)
  PROVE  TaskInv([task[t] EXCEPT !.rule = id, !.i = @ + 1,
                    !.parameters = WithParameter(@, rules[id].parameters[task[t].i], text)])
<1>. DEFINE r == task[t]
            p == rules[id].parameters[task[t].i]
            x == [task[t] EXCEPT !.rule = id, !.i = @ + 1, !.parameters = WithParameter(@, p, text)]
<1>1. /\ id \in r.todo /\ id # None /\ rules[id].parameters \in Seq(Params)
      /\ r.i \in 1..(Len(rules[id].parameters) + 1)
      /\ DOMAIN r.parameters = First(id, r.i - 1)
  BY CurrentRule, ZenonT(30)
<1>2. r.i - 1 \in Nat /\ r.i \in 1..Len(rules[id].parameters) /\ p \in Params
  BY <1>1
<1>3. /\ DOMAIN x = DOMAIN r /\ x.pc = r.pc /\ x.sub = r.sub /\ x.from = r.from
      /\ x.todo = r.todo /\ x.rule = id /\ x.i = r.i + 1 /\ x.found = r.found
      /\ x.parameters = WithParameter(r.parameters, p, text)
  BY DEF Resolving
<1>4. Yielded(x.parameters, x.sub, x.from)
  BY <1>2, <1>3, ParameterYielded DEF Resolving
<1>5. DOMAIN x.parameters = {p} \cup First(id, r.i - 1)
  BY <1>1, <1>3 DEF WithParameter
<1>6. (r.i - 1) + 1 = r.i /\ x.i - 1 = r.i
  BY <1>2, <1>3
<1>7. DOMAIN x.parameters = First(id, x.i - 1)
  BY <1>2, <1>5, <1>6, FirstNext, ZenonT(30)
<1>. HIDE DEF x, p
<1>8. x.i \in 1..(Len(rules[id].parameters) + 1)
  <2>1. PICK i : i = r.i
    OBVIOUS
  <2>2. PICK n : n = Len(rules[id].parameters)
    OBVIOUS
  <2>3. i \in 1..n /\ x.i = i + 1
    BY <1>2, <1>3, <2>1, <2>2, ZenonT(30)
  <2>4. n \in Nat
    BY <1>1, <2>2
  <2>. QED BY <2>2, <2>3, <2>4
<1>9. Resolving(x)
  BY <1>1, <1>3, <1>4, <1>7, <1>8, ZenonT(30) DEF Resolving
<1>10. TaskInv(x)
  BY <1>3, <1>9, ZenonT(30) DEF TaskInv, Waiting
<1>. QED BY <1>10 DEF x, p

\* A parameter query.
LEMMA QueryMeets ==
  ASSUME RulesInv, WorldInv, TasksInv, NEW t \in Tasks, NEW id, QueryParameter(t, id)
  PROVE  Quiet /\ \E r : TaskInv(r) /\ MovesTo(t, r)
<1>. DEFINE p == rules[id].parameters[task[t].i]
            v == users[task[t].sub][p]
            more == [task[t] EXCEPT !.rule = id, !.i = @ + 1, !.parameters = WithParameter(@, p, v.text)]
<1>1. Quiet
  BY ZenonT(30) DEF QueryParameter, Quiet, dbVars
<1>2. task[t].pc = "resolve" /\ id \in Current(t) /\ task[t].i <= Len(rules[id].parameters)
  BY ZenonT(30) DEF QueryParameter
<1>3. Resolving(task[t])
  BY <1>2 DEF TasksInv, TaskInv
<1>4. /\ task[t].i \in 1..(Len(rules[id].parameters) + 1) /\ rules[id].parameters \in Seq(Params)
      /\ ValidParametersHaveQueries(rules[id])
  BY <1>2, <1>3, CurrentRule, ZenonT(30)
<1>5. task[t].i \in DOMAIN rules[id].parameters /\ p \in Params
  BY <1>2, <1>4
<1>6. p \in DOMAIN rules[id].parameter_queries
  BY <1>4, <1>5, ZenonT(30) DEF ValidParametersHaveQueries, Declared
<1>7. TaskInv(RuleDone(task[t], id))
  BY <1>2, <1>3, RuleDoneMeets, ZenonT(30) DEF RuleDone, Resolving
<1>8. ASSUME v # NoRow, v.text \in SafeTexts PROVE TaskInv(more)
  <2>1. task[t].sub \in Subs /\ task[t].from \in 0..now
    BY <1>3, ZenonT(30) DEF Resolving, Moments
  <2>2. v \in Values /\ heldAt[task[t].sub][p][v] = now
    <3>. HIDE DEF p
    <3>1. PICK s \in Subs : s = task[t].sub
      BY <2>1
    <3>2. users[s][p] \in Values \cup {NoRow}
      BY <1>5 DEF WorldInv
    <3>3. users[s][p] \in Values => heldAt[s][p][users[s][p]] = now
      BY <1>5 DEF WorldInv
    <3>. QED BY <1>8, <3>1, <3>2, <3>3, ZenonT(30)
  <2>3. now # None /\ now >= task[t].from
    BY <2>1, Limits DEF WorldInv
  <2>4. Held(task[t].sub, p, v.text, task[t].from)
    BY <2>2, <2>3, ZenonT(30) DEF Held
  <2>. QED BY <1>2, <1>3, <1>8, <2>4, ValueMeets, ZenonT(30)
<1>9. TaskInv(Failed("BucketAssignmentFailed"))
  BY FailedMeets
<1>. HIDE DEF p, v
<1>10. TaskInv(ParameterResolved(task[t], id, p, v))
  BY <1>6, <1>7, <1>8, <1>9 DEF ParameterResolved, ValidateSafeValue
<1>11. MovesTo(t, ParameterResolved(task[t], id, p, v))
  BY ZenonT(30) DEF QueryParameter, MovesTo, p, v
<1>. QED BY <1>1, <1>10, <1>11

\* A rule all of whose parameters are known: every reference of its data
\* queries is to one of them, and what is found is an assignment of the rule.
LEMMA CompleteMeets ==
  ASSUME RulesInv, TasksInv, NEW t \in Tasks, NEW id, CompleteRule(t, id)
  PROVE  Quiet /\ \E r : TaskInv(r) /\ MovesTo(t, r)
<1>1. Quiet
  BY DEF CompleteRule, Quiet, dbVars
<1>2. task[t].pc = "resolve" /\ id \in Current(t) /\ task[t].i > Len(rules[id].parameters)
  BY DEF CompleteRule
<1>3. Resolving(task[t])
  BY <1>2 DEF TasksInv, TaskInv
<1>4. /\ id \in DOMAIN rules /\ rules[id].parameters \in Seq(Params)
      /\ ValidDataReferences(rules[id])
      /\ task[t].i \in 1..(Len(rules[id].parameters) + 1)
      /\ DOMAIN task[t].parameters = First(id, task[t].i - 1)
  BY <1>2, <1>3, CurrentRule, ZenonT(30)
<1>5. task[t].i - 1 = Len(rules[id].parameters)
  BY <1>2, <1>4
<1>6. DOMAIN task[t].parameters = Declared(rules[id])
  BY <1>4, <1>5 DEF First, Declared
<1>7. Yielded(task[t].parameters, task[t].sub, task[t].from)
  BY <1>3, ZenonT(30) DEF Resolving
<1>8. \A q \in DOMAIN rules[id].data_queries :
        CanSubstitute(rules[id].data_queries[q], task[t].parameters)
  BY <1>4, <1>6, <1>7, ZenonT(30) DEF ValidDataReferences, CanSubstitute, ValidateSafeValue, Yielded
<1>. DEFINE a == BucketAssignment(rules[id], task[t].parameters)
            x == [RuleDone(task[t], id) EXCEPT !.found = @ \cup {a}]
<1>9. a.parameters = task[t].parameters
  BY DEF BucketAssignment
<1>10. Resolved(a, task[t].sub, task[t].from)
  <2>1. a = BucketAssignment(rules[id], a.parameters)
    BY <1>9
  <2>. HIDE DEF a
  <2>2. DOMAIN a.parameters = Declared(rules[id]) /\ Yielded(a.parameters, task[t].sub, task[t].from)
    BY <1>6, <1>7, <1>9
  <2>. QED BY <1>4, <2>1, <2>2, ZenonT(30) DEF Resolved
<1>. HIDE DEF a
<1>11. /\ DOMAIN x = DOMAIN task[t] /\ x.pc = task[t].pc /\ x.sub = task[t].sub
       /\ x.from = task[t].from /\ x.todo = task[t].todo \ {id} /\ x.rule = None
       /\ x.i = 1 /\ x.parameters = <<>> /\ x.found = task[t].found \cup {a}
  BY <1>3 DEF RuleDone, Resolving
<1>12. \A b \in x.found : Resolved(b, task[t].sub, task[t].from)
  BY <1>3, <1>10, <1>11 DEF Resolving
<1>13. RuleResolved(task[t], id) = x
  BY <1>8 DEF RuleResolved, a
<1>. HIDE DEF x
<1>14. TaskInv(x)
  BY <1>2, <1>3, <1>11, <1>12, RuleDoneMeets, ZenonT(30)
<1>15. MovesTo(t, RuleResolved(task[t], id))
  BY DEF CompleteRule, MovesTo
<1>. QED BY <1>1, <1>13, <1>14, <1>15

\* A parameter query that fails.
LEMMA QueryFailsMeets ==
  ASSUME NEW t \in Tasks, QueryFails(t)
  PROVE  Quiet /\ \E r : TaskInv(r) /\ MovesTo(t, r)
<1>1. Quiet /\ MovesTo(t, Failed("Database"))
  BY DEF QueryFails, Quiet, dbVars, MovesTo
<1>. QED BY <1>1, FailedMeets

\* All rules are resolved: what was found is good for the subject.
LEMMA InsertMeets ==
  ASSUME WorldInv, CacheInv, TasksInv, NEW t \in Tasks, CacheInsert(t)
  PROVE  /\ Quiet /\ CacheInv'
         /\ \E r : TaskInv(r) /\ MovesTo(t, r)
<1>1. Quiet
  BY DEF CacheInsert, Quiet, dbVars
<1>2. Resolving(task[t])
  BY DEF CacheInsert, TasksInv, TaskInv
<1>3. PICK s \in Subs : s = task[t].sub
  BY <1>2, ZenonT(30) DEF Resolving
<1>4. PICK entry : entry = [at |-> now, from |-> task[t].from, assignments |-> task[t].found]
  BY ZenonT(30)
<1>5. cache' = [cache EXCEPT ![s] = entry]
  BY <1>3, <1>4 DEF CacheInsert
<1>6. MovesTo(t, [pc |-> "done", sub |-> s, at |-> now, entry |-> entry])
  BY <1>3, <1>4 DEF CacheInsert, MovesTo
<1>7. now \in Nat /\ now \in Moments
  BY DEF WorldInv, Moments
<1>8. EntryInv(entry, s)
  BY <1>2, <1>3, <1>4, <1>7, ZenonT(30) DEF EntryInv, Resolving
<1>9. entry.at = now /\ CacheTtl > 0 /\ CacheTtl \in Nat
  BY <1>4, Limits
<1>10. Finished([pc |-> "done", sub |-> s, at |-> now, entry |-> entry])
  BY <1>7, <1>8, <1>9 DEF Finished
<1>11. TaskInv([pc |-> "done", sub |-> s, at |-> now, entry |-> entry])
  BY <1>10 DEF TaskInv, Ended
<1>12. Persist
  BY <1>1, QuietPersists
<1>13. CacheInv'
  <2>1. DOMAIN cache' = Subs
    BY <1>5 DEF CacheInv
  <2>2. ASSUME NEW u \in Subs, cache'[u] # None PROVE EntryInv(cache[u], u)'
    <3>1. PICK e : e = cache'[u]
      OBVIOUS
    <3>2. EntryInv(e, u)
      BY <1>5, <1>8, <2>2, <3>1 DEF CacheInv
    <3>3. EntryInv(e, u)'
      BY <1>12, <3>2, EntryPersists
    <3>. QED BY <3>1, <3>3
  <2>. QED BY <2>1, <2>2 DEF CacheInv
<1>. QED BY <1>1, <1>6, <1>11, <1>13

\* The sweeper only drops entries.
LEMMA SweepMeets ==
  ASSUME WorldInv, CacheInv, SweepExpiredEntries
  PROVE  Quiet /\ CacheInv' /\ task' = task
<1>1. Quiet /\ task' = task
  BY DEF SweepExpiredEntries, Quiet, dbVars
<1>2. Persist
  BY <1>1, QuietPersists
<1>3. DOMAIN cache' = Subs /\ \A s \in Subs : cache'[s] = cache[s] \/ cache'[s] = None
  BY DEF SweepExpiredEntries
<1>4. ASSUME NEW s \in Subs, cache'[s] # None PROVE EntryInv(cache[s], s)'
  <2>1. PICK e : e = cache'[s]
    OBVIOUS
  <2>2. EntryInv(e, s)
    BY <1>3, <1>4, <2>1 DEF CacheInv
  <2>3. EntryInv(e, s)'
    BY <1>2, <2>2, EntryPersists
  <2>. QED BY <2>1, <2>3
<1>. QED BY <1>1, <1>3, <1>4 DEF CacheInv

-----------------------------------------------------------------------------
(* The invariant.                                                          *)

\* Before any handshake.
LEMMA InitInv ==
  Init => Inv
<1>1. SUFFICES ASSUME Init PROVE Inv
  OBVIOUS
<1>2. PICK doc \in Docs :
        rules = IF Validate(ParseSyncRules(doc)) THEN ParseSyncRules(doc) ELSE None
  BY <1>1 DEF Init
<1>3. RulesInv
  <2>1. SUFFICES ASSUME rules # None
                 PROVE  /\ Validate(rules)
                        /\ \A id \in DOMAIN rules : rules[id].id = id /\ rules[id].parameters \in Seq(Params)
    BY DEF RulesInv
  <2>2. rules = ParseSyncRules(doc) /\ Validate(rules)
    BY <1>2, <2>1
  <2>3. \A id \in DOMAIN doc : Field(doc[id], "parameters", <<>>) \in Seq(Params)
    BY HandshakeAssumption DEF HandshakeAssumption
  <2>4. \A id \in DOMAIN ParseSyncRules(doc) :
          /\ ParseSyncRules(doc)[id].id = id
          /\ ParseSyncRules(doc)[id].parameters \in Seq(Params)
    BY <2>3, ZenonT(30) DEF ParseSyncRules
  <2>. QED BY <2>2, <2>4, ZenonT(30)
<1>4. KeyInv
  BY <1>1 DEF Init, KeyInv
<1>5. now = 0 /\ MaxTime \in Nat /\ users \in [Subs -> [Params -> Values \cup {NoRow}]]
  BY <1>1, HandshakeAssumption, ZenonT(30) DEF Init, HandshakeAssumption
<1>6. heldAt = [s \in Subs |-> [p \in Params |-> [v \in Values |->
                  IF users[s][p] = v THEN 0 ELSE None]]]
  BY <1>1 DEF Init
<1>7. heldAt \in [Subs -> [Params -> [Values -> Moments \cup {None}]]]
  BY <1>5, <1>6 DEF Moments
<1>8. \A s \in Subs, p \in Params : users[s][p] \in Values => heldAt[s][p][users[s][p]] = now
  BY <1>5, <1>6
<1>9. WorldInv
  BY <1>5, <1>7, <1>8 DEF WorldInv
<1>10. CacheInv
  BY <1>1 DEF Init, CacheInv
<1>11. TasksInv
  BY <1>1, ZenonT(30) DEF Init, TasksInv, TaskInv, New
<1>. QED BY <1>3, <1>4, <1>9, <1>10, <1>11 DEF Inv

\* The cache of keys and the history of what was served move together.
LEMMA KeysStep ==
  ASSUME KeyInv, Persist,
         \/ keys' = keys /\ served' = served
         \/ \E ks :
              /\ keys' = [k \in Kids |-> IF k \in ks THEN now ELSE keys[k]]
              /\ served' = [k \in Kids |-> IF k \in ks THEN now ELSE served[k]]
  PROVE  KeyInv'
<1>1. \A k \in Kids : keys[k] \in 0..now' \cup {None}
  BY DEF KeyInv, Moments, Persist
<1>2. now \in 0..now'
  BY DEF Persist
<1>3. CASE keys' = keys /\ served' = served
  BY <1>1, <1>3 DEF KeyInv, Moments
<1>4. ASSUME NEW ks,
             keys' = [k \in Kids |-> IF k \in ks THEN now ELSE keys[k]],
             served' = [k \in Kids |-> IF k \in ks THEN now ELSE served[k]]
      PROVE  KeyInv'
  <2>1. keys' = served'
    BY <1>4 DEF KeyInv
  <2>2. keys' \in [Kids -> 0..now' \cup {None}]
    BY <1>1, <1>2, <1>4
  <2>. QED BY <2>1, <2>2 DEF KeyInv, Moments
<1>. QED BY <1>3, <1>4

\* The rules are those the process started with.
LEMMA RulesStep ==
  ASSUME RulesInv, Persist
  PROVE  RulesInv'
BY DEF RulesInv, Persist

\* A step of a task that changes neither keys nor cache.
LEMMA MoveStep ==
  ASSUME Inv, Quiet, cache' = cache, keys' = keys, served' = served,
         NEW t \in Tasks, \E r : TaskInv(r) /\ MovesTo(t, r)
  PROVE  Inv'
<1>1. RulesInv /\ KeyInv /\ WorldInv /\ CacheInv /\ TasksInv
  BY DEF Inv
<1>2. Persist /\ WorldInv'
  BY <1>1, QuietPersists
<1>3. PICK r : TaskInv(r) /\ MovesTo(t, r)
  OBVIOUS
<1>4. TasksInv'
  BY <1>1, <1>2, <1>3, TaskMoves
<1>5. RulesInv' /\ KeyInv' /\ CacheInv'
  BY <1>1, <1>2, RulesStep, KeysStep, CachePersists
<1>. QED BY <1>2, <1>4, <1>5 DEF Inv

\* An answer of the endpoint, or its failure.
LEMMA FetchStep ==
  ASSUME Inv, NEW t \in Tasks, FetchKeys(t) \/ FetchFails(t)
  PROVE  Inv'
<1>1. RulesInv /\ KeyInv /\ WorldInv /\ CacheInv /\ TasksInv
  BY DEF Inv
<1>2. Quiet /\ \E r : TaskInv(r) /\ MovesTo(t, r)
  BY <1>1, FetchMeets
<1>3. Persist /\ WorldInv'
  BY <1>1, <1>2, QuietPersists
<1>4. PICK r : TaskInv(r) /\ MovesTo(t, r)
  BY <1>2
<1>5. TasksInv'
  BY <1>1, <1>3, <1>4, TaskMoves
<1>6. \E ks :
        /\ keys' = [k \in Kids |-> IF k \in ks THEN now ELSE keys[k]]
        /\ served' = [k \in Kids |-> IF k \in ks THEN now ELSE served[k]]
  BY ZenonT(30) DEF FetchKeys, FetchFails
<1>7. cache' = cache
  BY ZenonT(30) DEF FetchKeys, FetchFails
<1>8. RulesInv' /\ KeyInv' /\ CacheInv'
  BY <1>1, <1>3, <1>6, <1>7, RulesStep, KeysStep, CachePersists
<1>. QED BY <1>3, <1>5, <1>8 DEF Inv

\* A step of a task, whichever it is.
LEMMA StepInv ==
  ASSUME Inv, NEW t \in Tasks, Step(t)
  PROVE  Inv'
<1>1. RulesInv /\ KeyInv /\ WorldInv /\ CacheInv /\ TasksInv
  BY DEF Inv
<1>2. CASE AcquireRefreshLock(t)
  <2>1. cache' = cache /\ keys' = keys /\ served' = served
    BY <1>2 DEF AcquireRefreshLock
  <2>. QED BY <1>1, <1>2, <2>1, AcquireMeets, MoveStep
<1>3. CASE FetchKeys(t) \/ FetchFails(t)
  BY <1>3, FetchStep
<1>4. ASSUME NEW id \in BucketIds, QueryParameter(t, id) PROVE Inv'
  <2>1. cache' = cache /\ keys' = keys /\ served' = served
    BY <1>4, ZenonT(30) DEF QueryParameter, keyVars
  <2>. QED BY <1>1, <1>4, <2>1, QueryMeets, MoveStep
<1>5. ASSUME NEW id \in BucketIds, CompleteRule(t, id) PROVE Inv'
  <2>1. cache' = cache /\ keys' = keys /\ served' = served
    BY <1>5 DEF CompleteRule, keyVars
  <2>. QED BY <1>1, <1>5, <2>1, CompleteMeets, MoveStep
<1>6. CASE QueryFails(t)
  <2>1. cache' = cache /\ keys' = keys /\ served' = served
    BY <1>6 DEF QueryFails, keyVars
  <2>. QED BY <1>6, <2>1, QueryFailsMeets, MoveStep
<1>7. CASE CacheInsert(t)
  <2>1. Quiet /\ CacheInv' /\ \E r : TaskInv(r) /\ MovesTo(t, r)
    BY <1>1, <1>7, InsertMeets
  <2>2. Persist /\ WorldInv'
    BY <1>1, <2>1, QuietPersists
  <2>3. PICK r : TaskInv(r) /\ MovesTo(t, r)
    BY <2>1
  <2>4. TasksInv'
    BY <1>1, <2>2, <2>3, TaskMoves
  <2>5. keys' = keys /\ served' = served
    BY <1>7 DEF CacheInsert, keyVars
  <2>6. RulesInv' /\ KeyInv'
    BY <1>1, <2>2, <2>5, RulesStep, KeysStep
  <2>. QED BY <2>1, <2>2, <2>4, <2>6 DEF Inv
<1>. QED BY <1>2, <1>3, <1>4, <1>5, <1>6, <1>7 DEF Step

\* A step that moves no task and caches nothing: the sweeper, the users table,
\* the key set, the clock, or none.
LEMMA RestStep ==
  ASSUME Inv, Persist, WorldInv', CacheInv', task' = task, keys' = keys, served' = served
  PROVE  Inv'
<1>1. RulesInv' /\ KeyInv' /\ TasksInv'
  BY RulesStep, KeysStep, TasksStay DEF Inv
<1>. QED BY <1>1 DEF Inv

\* Every step keeps the invariant.
LEMMA NextInv ==
  Inv /\ [Next]_vars => Inv'
<1>1. SUFFICES ASSUME Inv, [Next]_vars PROVE Inv'
  OBVIOUS
<1>2. RulesInv /\ KeyInv /\ WorldInv /\ CacheInv /\ TasksInv
  BY <1>1 DEF Inv
<1>3. ASSUME NEW t \in Tasks, NEW token \in Tokens, ValidateToken(t, token) PROVE Inv'
  <2>1. cache' = cache /\ keys' = keys /\ served' = served
    BY <1>3 DEF ValidateToken, keyVars
  <2>. QED BY <1>1, <1>2, <1>3, <2>1, ValidateMeets, MoveStep
<1>4. ASSUME NEW t \in Tasks, Step(t) PROVE Inv'
  BY <1>1, <1>4, StepInv
<1>5. CASE SweepExpiredEntries
  <2>1. Quiet /\ CacheInv' /\ task' = task
    BY <1>2, <1>5, SweepMeets
  <2>2. keys' = keys /\ served' = served
    BY <1>5 DEF SweepExpiredEntries, keyVars
  <2>. QED BY <1>1, <1>2, <2>1, <2>2, QuietPersists, RestStep
<1>6. ASSUME NEW s \in Subs, NEW p \in Params, ChangeUser(s, p) PROVE Inv'
  <2>1. task' = task /\ cache' = cache /\ keys' = keys /\ served' = served
    BY <1>6 DEF ChangeUser, keyVars
  <2>2. Persist /\ WorldInv'
    BY <1>2, <1>6, ChangePersists
  <2>. QED BY <1>1, <1>2, <2>1, <2>2, CachePersists, RestStep
<1>7. ASSUME NEW k \in Kids, RotateKeys(k) PROVE Inv'
  <2>1. Quiet /\ task' = task /\ cache' = cache /\ keys' = keys /\ served' = served
    BY <1>7 DEF RotateKeys, Quiet, dbVars
  <2>. QED BY <1>1, <1>2, <2>1, QuietPersists, CachePersists, RestStep
<1>8. CASE Tick
  <2>1. task' = task /\ cache' = cache /\ keys' = keys /\ served' = served
    BY <1>8 DEF Tick, keyVars
  <2>2. Persist /\ WorldInv'
    BY <1>2, <1>8, TickPersists
  <2>. QED BY <1>1, <1>2, <2>1, <2>2, CachePersists, RestStep
<1>9. CASE UNCHANGED vars
  <2>1. Quiet /\ task' = task /\ cache' = cache /\ keys' = keys /\ served' = served
    BY <1>9 DEF vars, keyVars, dbVars, Quiet
  <2>. QED BY <1>1, <1>2, <2>1, QuietPersists, CachePersists, RestStep
<1>. QED BY <1>1, <1>3, <1>4, <1>5, <1>6, <1>7, <1>8, <1>9 DEF Next

\* The invariant of the handshakes (auth.rs, assigner.rs).
THEOREM Invariance == Spec => []Inv
BY InitInv, NextInv, PTL DEF Spec

-----------------------------------------------------------------------------
(* The properties.                                                         *)

\* assigner.rs:52: no rule set that validates meets a parameter without a query
\* or a reference it cannot substitute, for any file and any answers.
THEOREM ValidRulesResolveCorrect == Spec => []ValidRulesResolve
<1>1. Inv => ValidRulesResolve
  BY DEF Inv, TasksInv, TaskInv, ValidRulesResolve
<1>. QED BY <1>1, Invariance, PTL

\* What a handshake is authorized for was resolved less than cache_ttl before,
\* from values the subject's queries yielded since that resolution began.
THEOREM AssignmentsCurrentCorrect == Spec => []AssignmentsCurrent
<1>1. Inv => AssignmentsCurrent
  <2>1. SUFFICES ASSUME Inv, NEW t \in Tasks, task[t].pc = "done"
                 PROVE  /\ task[t].at - task[t].entry.at < CacheTtl
                        /\ \A a \in task[t].entry.assignments : \A p \in DOMAIN a.parameters :
                             Held(task[t].sub, p, a.parameters[p], task[t].entry.from)
    BY ZenonT(30) DEF AssignmentsCurrent, Held
  <2>2. Finished(task[t])
    BY <2>1, ZenonT(30) DEF Inv, TasksInv, TaskInv
  <2>3. ASSUME NEW a \in task[t].entry.assignments, NEW p \in DOMAIN a.parameters
        PROVE  Held(task[t].sub, p, a.parameters[p], task[t].entry.from)
    <3>1. Resolved(a, task[t].sub, task[t].entry.from)
      BY <2>2, ZenonT(30) DEF Finished, EntryInv
    <3>2. Yielded(a.parameters, task[t].sub, task[t].entry.from)
      BY <3>1, ZenonT(30) DEF Resolved
    <3>. QED BY <3>2, ZenonT(30) DEF Yielded
  <2>. QED BY <2>2, <2>3, ZenonT(30) DEF Finished
<1>. QED BY <1>1, Invariance, PTL

\* The key of a partition determines the parameters.
LEMMA KeyDetermines ==
  ASSUME NEW f, NEW g, IsFcn(f), IsFcn(g), ParameterKey(f) = ParameterKey(g)
  PROVE  f = g
<1>1. \A p \in DOMAIN f : <<p, f[p]>> \in ParameterKey(g)
  BY ZenonT(30) DEF ParameterKey
<1>2. \A p \in DOMAIN g : <<p, g[p]>> \in ParameterKey(f)
  BY ZenonT(30) DEF ParameterKey
<1>3. \A p \in DOMAIN f : p \in DOMAIN g /\ f[p] = g[p]
  BY <1>1, ZenonT(30) DEF ParameterKey
<1>4. \A p \in DOMAIN g : p \in DOMAIN f
  BY <1>2 DEF ParameterKey
<1>5. DOMAIN f = DOMAIN g
  BY <1>3, <1>4
<1>. QED BY <1>3, <1>5 DEF IsFcn

\* assigner.rs:271: a partition of the op log belongs to one rule and one
\* choice of its parameters, whoever resolved it and when.
THEOREM PartitionPerParametersCorrect == Spec => []PartitionPerParameters
<1>1. Inv => PartitionPerParameters
  <2>1. SUFFICES ASSUME Inv, NEW a \in Assignments, NEW b \in Assignments, a.bucket_id = b.bucket_id
                 PROVE  a = b
    BY DEF PartitionPerParameters
  <2>2. ASSUME NEW c \in Assignments
        PROVE  \E s \in Subs : \E from : rules # None /\ Resolved(c, s, from)
    <3>1. CASE \E t \in Tasks : task[t].pc = "done" /\ c \in task[t].entry.assignments
      <4>1. PICK t \in Tasks : task[t].pc = "done" /\ c \in task[t].entry.assignments
        BY <3>1
      <4>2. Finished(task[t])
        BY <2>1, <4>1, ZenonT(30) DEF Inv, TasksInv, TaskInv
      <4>. QED BY <4>1, <4>2, ZenonT(30) DEF Finished, EntryInv
    <3>2. CASE \E s \in Subs : cache[s] # None /\ c \in cache[s].assignments
      BY <2>1, <3>2, ZenonT(30) DEF Inv, CacheInv, EntryInv
    <3>. QED BY <3>1, <3>2, ZenonT(30) DEF Assignments
  <2>3. rules # None
    BY <2>2
  <2>4. \A id \in DOMAIN rules : rules[id].id = id
    BY <2>1, <2>3, ZenonT(30) DEF Inv, RulesInv
  <2>5. PICK i \in DOMAIN rules : a = BucketAssignment(rules[i], a.parameters) /\ IsFcn(a.parameters)
    BY <2>2 DEF Resolved, Yielded
  <2>6. PICK j \in DOMAIN rules : b = BucketAssignment(rules[j], b.parameters) /\ IsFcn(b.parameters)
    BY <2>2 DEF Resolved, Yielded
  <2>7. a.bucket_id = <<i, ParameterKey(a.parameters)>>
    BY <2>4, <2>5 DEF BucketAssignment
  <2>8. b.bucket_id = <<j, ParameterKey(b.parameters)>>
    BY <2>4, <2>6 DEF BucketAssignment
  <2>9. i = j /\ ParameterKey(a.parameters) = ParameterKey(b.parameters)
    <3>1. PICK ka, kb : ka = ParameterKey(a.parameters) /\ kb = ParameterKey(b.parameters)
      OBVIOUS
    <3>2. <<i, ka>> = <<j, kb>>
      BY <2>1, <2>7, <2>8, <3>1, ZenonT(30)
    <3>3. i = j /\ ka = kb
      BY ONLY <3>2, SMTT(30)
    <3>. QED BY <3>1, <3>3
  <2>10. a.parameters = b.parameters
    BY <2>5, <2>6, <2>9, KeyDetermines
  <2>. QED BY <2>5, <2>6, <2>9, <2>10
<1>. QED BY <1>1, Invariance, PTL

\* A value of a column equals the parameter with the same text, a number too.
LEMMA SameTextEqual ==
  ASSUME NEW row \in Rows, NEW c \in DOMAIN row.columns, NEW text, row.columns[c].text = text
  PROVE  ScalarsEqual([type |-> "text", text |-> text], row.columns[c])
<1>1. PICK v : v = row.columns[c]
  OBVIOUS
<1>2. v \in [type : {"text", "int8"}, text : {text}]
  BY <1>1, HandshakeAssumption, ZenonT(30) DEF HandshakeAssumption
<1>3. ScalarsEqual([type |-> "text", text |-> text], v)
  <2>1. v.text = text /\ (v.type = "text" \/ v.type = "int8")
    BY <1>2
  <2>2. CASE v.type = "text"
    <3>1. v = [type |-> "text", text |-> text]
      BY <1>2, <2>1, <2>2
    <3>. QED BY <3>1 DEF ScalarsEqual
  <2>3. CASE v.type = "int8"
    BY <2>1, <2>3 DEF ScalarsEqual
  <2>. QED BY <2>1, <2>2, <2>3
<1>. QED BY <1>1, <1>3

\* A row that a data query selects by its own columns is routed to the bucket
\* while the assignment is cached (find_affected_buckets).
THEOREM OwnedRowsRoutedCorrect == Spec => []OwnedRowsRouted
<1>1. Inv => OwnedRowsRouted
  <2>1. SUFFICES ASSUME Inv, NEW s \in Subs, CacheLookup(s), NEW a \in cache[s].assignments,
                        NEW q \in DOMAIN a.data_queries, NEW row \in Rows,
                        a.data_queries[q] # {}, QuerySelects(a.data_queries[q], row.columns)
                 PROVE  a.bucket_id \in FindAffectedBuckets(q, row)
    BY ZenonT(30) DEF OwnedRowsRouted
  <2>2. rules # None /\ \E from : Resolved(a, s, from)
    BY <2>1, ZenonT(30) DEF Inv, CacheInv, EntryInv, CacheLookup
  <2>3. PICK id \in DOMAIN rules : /\ DOMAIN a.parameters = Declared(rules[id])
                                   /\ a = BucketAssignment(rules[id], a.parameters)
    BY <2>2, ZenonT(30) DEF Resolved
  <2>4. ValidDataReferences(rules[id])
    BY <2>1, <2>2, ZenonT(30) DEF Inv, RulesInv, Validate
  <2>5. a.data_queries = [x \in DOMAIN rules[id].data_queries |->
                            Substitute(rules[id].data_queries[x], a.parameters)]
    BY <2>3 DEF BucketAssignment
  <2>6. /\ q \in DOMAIN rules[id].data_queries
        /\ a.data_queries[q] = Substitute(rules[id].data_queries[q], a.parameters)
    BY <2>5
  <2>7. PICK test \in rules[id].data_queries[q] :
          <<test[1], a.parameters[test[2]]>> \in a.data_queries[q]
    BY <2>1, <2>6 DEF Substitute
  <2>8. test[2] \in DOMAIN a.parameters
    BY <2>3, <2>4, <2>6, ZenonT(30) DEF ValidDataReferences, References
  <2>9. PICK c, text : c = test[1] /\ text = a.parameters[test[2]]
    OBVIOUS
  <2>10. <<c, text>> \in a.data_queries[q]
    BY <2>7, <2>9
  <2>11. c \in DOMAIN row.columns /\ row.columns[c].text = text
    BY <2>1, <2>10, ZenonT(30) DEF QuerySelects
  <2>12. RowMatches(row.columns, a)
    BY <2>8, <2>9, <2>11, SameTextEqual, ZenonT(30) DEF RowMatches
  <2>. QED BY <2>1, <2>12 DEF FindAffectedBuckets
<1>. QED BY <1>1, Invariance, PTL

\* Decoding a token starts no fetch.
LEMMA DecodedNoFetch ==
  ASSUME NEW token
  PROVE  Decoded(token).pc # "fetch"
BY ZenonT(30) DEF Decoded, Assign, Failed

\* A task that starts no fetch leaves the others as they are.
LEMMA MovesNoFetch ==
  ASSUME TasksInv, NEW u \in Tasks, NEW x, MovesTo(u, x), x.pc # "fetch",
         NEW t \in Tasks, task[t].pc # "fetch"
  PROVE  task'[t].pc # "fetch"
BY DEF TasksInv, MovesTo

\* Only the task that is granted the refresh lock starts a fetch, and only
\* when its second look at the cache of keys fails.
LEMMA FetchStarts ==
  ASSUME Inv, Next, NEW t \in Tasks, task[t].pc # "fetch", task'[t].pc = "fetch"
  PROVE  task[t].pc = "lock" /\ ~FreshKey(task[t].token.kid)
<1>1. TasksInv
  BY DEF Inv
<1>2. Failed("AuthError").pc # "fetch" /\ Failed("Database").pc # "fetch"
  BY DEF Failed
<1>3. ASSUME NEW u \in Tasks, NEW token \in Tokens, ValidateToken(u, token) PROVE FALSE
  <2>. DEFINE x == IF mode = "hmac" THEN Decoded(token)
                   ELSE IF token.kid = None THEN Failed("AuthError")
                   ELSE IF FreshKey(token.kid) THEN Decoded(token)
                   ELSE [pc |-> "lock", token |-> token]
  <2>1. MovesTo(u, x)
    BY <1>3 DEF ValidateToken, MovesTo
  <2>2. x.pc # "fetch"
    BY <1>2, DecodedNoFetch
  <2>. HIDE DEF x
  <2>. QED BY <1>1, <2>1, <2>2, MovesNoFetch, ZenonT(30)
<1>4. ASSUME NEW u \in Tasks, AcquireRefreshLock(u)
      PROVE  task[t].pc = "lock" /\ ~FreshKey(task[t].token.kid)
  <2>1. CASE MovesTo(u, Decoded(task[u].token))
    BY <1>1, <2>1, DecodedNoFetch, MovesNoFetch, ZenonT(30)
  <2>2. CASE task' = [task EXCEPT ![u].pc = "fetch"] /\ ~FreshKey(task[u].token.kid)
    <3>1. task[u].pc = "lock"
      BY <1>4 DEF AcquireRefreshLock
    <3>2. t # u => task'[t] = task[t]
      BY <1>1, <2>2 DEF TasksInv
    <3>. QED BY <2>2, <3>1, <3>2
  <2>. QED BY <1>4, <2>1, <2>2 DEF AcquireRefreshLock, MovesTo
<1>5. ASSUME NEW u \in Tasks, FetchKeys(u) \/ FetchFails(u) PROVE FALSE
  <2>1. MovesTo(u, Decoded(task[u].token)) \/ MovesTo(u, Failed("AuthError"))
    BY <1>5, ZenonT(30) DEF FetchKeys, FetchFails, MovesTo
  <2>. QED BY <1>1, <1>2, <2>1, DecodedNoFetch, MovesNoFetch, ZenonT(30)
<1>6. ASSUME NEW u \in Tasks, NEW id, QueryParameter(u, id) PROVE FALSE
  <2>1. task[u].pc = "resolve"
    BY <1>6, ZenonT(30) DEF QueryParameter
  <2>2. "pc" \in DOMAIN task[u]
    BY <1>1, <2>1, ZenonT(30) DEF TasksInv, TaskInv, Resolving
  <2>3. PICK p, v : MovesTo(u, ParameterResolved(task[u], id, p, v))
    BY <1>6, ZenonT(30) DEF QueryParameter, MovesTo
  <2>4. ParameterResolved(task[u], id, p, v).pc # "fetch"
    BY <2>1, <2>2 DEF ParameterResolved, RuleDone, Failed
  <2>. QED BY <1>1, <2>3, <2>4, MovesNoFetch, ZenonT(30)
<1>7. ASSUME NEW u \in Tasks, NEW id, CompleteRule(u, id) PROVE FALSE
  <2>1. task[u].pc = "resolve"
    BY <1>7 DEF CompleteRule
  <2>2. "pc" \in DOMAIN task[u]
    BY <1>1, <2>1, ZenonT(30) DEF TasksInv, TaskInv, Resolving
  <2>3. MovesTo(u, RuleResolved(task[u], id))
    BY <1>7 DEF CompleteRule, MovesTo
  <2>4. RuleResolved(task[u], id).pc # "fetch"
    BY <2>1, <2>2 DEF RuleResolved, RuleDone, Failed
  <2>. QED BY <1>1, <2>3, <2>4, MovesNoFetch, ZenonT(30)
<1>8. ASSUME NEW u \in Tasks, QueryFails(u) PROVE FALSE
  <2>1. MovesTo(u, Failed("Database"))
    BY <1>8 DEF QueryFails, MovesTo
  <2>. QED BY <1>1, <1>2, <2>1, MovesNoFetch, ZenonT(30)
<1>9. ASSUME NEW u \in Tasks, CacheInsert(u) PROVE FALSE
  <2>1. PICK entry : MovesTo(u, [pc |-> "done", sub |-> task[u].sub, at |-> now, entry |-> entry])
    BY <1>9, ZenonT(30) DEF CacheInsert, MovesTo
  <2>. QED BY <1>1, <2>1, MovesNoFetch, ZenonT(30)
<1>10. ASSUME task' = task PROVE FALSE
  BY <1>10
<1>11. ASSUME SweepExpiredEntries \/ Tick \/ (\E s \in Subs, p \in Params : ChangeUser(s, p))
                \/ \E k \in Kids : RotateKeys(k)
       PROVE  task' = task
  BY <1>11, ZenonT(30) DEF SweepExpiredEntries, Tick, ChangeUser, RotateKeys
<1>. QED BY <1>3, <1>4, <1>5, <1>6, <1>7, <1>8, <1>9, <1>10, <1>11, ZenonT(30) DEF Next, Step

\* auth.rs:49: a fetch for a key starts only when the endpoint has not served
\* it within JWKS_CACHE_TTL, however many connections ask for it at once.
THEOREM NoRedundantFetchCorrect == Spec => NoRedundantFetch
<1>. DEFINE Due(t) == served[task[t].token.kid] = None \/ now - served[task[t].token.kid] >= JwksTtl
<1>1. ASSUME Inv, Next, NEW t \in Tasks, task[t].pc # "fetch", task'[t].pc = "fetch"
      PROVE  Due(t)
  <2>1. task[t].pc = "lock" /\ ~FreshKey(task[t].token.kid)
    BY <1>1, FetchStarts
  <2>2. Authenticating(task[t])
    BY <1>1, <2>1, ZenonT(30) DEF Inv, TasksInv, TaskInv
  <2>3. PICK k \in Kids : k = task[t].token.kid
    BY <2>2 DEF Authenticating
  <2>4. keys = served /\ keys[k] \in Moments \cup {None} /\ now \in 0..MaxTime
    BY <1>1, ZenonT(30) DEF Inv, KeyInv, WorldInv
  <2>5. JwksTtl \in Nat
    BY HandshakeAssumption DEF HandshakeAssumption
  <2>6. served[k] = None \/ now - served[k] >= JwksTtl
    BY <2>1, <2>3, <2>4, <2>5 DEF FreshKey, Moments
  <2>. QED BY <2>3, <2>6, ZenonT(30)
<1>2. Inv /\ [Next]_vars =>
        [\A t \in Tasks : task[t].pc # "fetch" /\ task'[t].pc = "fetch" =>
           LET at == served[task[t].token.kid] IN at = None \/ now - at >= JwksTtl]_vars
  BY <1>1, ZenonT(30)
<1>. QED BY <1>2, Invariance, PTL DEF Spec, NoRedundantFetch
=============================================================================
