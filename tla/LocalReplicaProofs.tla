-------------------------- MODULE LocalReplicaProofs --------------------------
(***************************************************************************)
(* Proofs about the local database: the table is a replay of whole deltas, *)
(* subscribers are told the truth, and list() misses no row.               *)
(***************************************************************************)
EXTENDS LocalReplica, FiniteSetTheorems, TLAPS

USE SMTT(30), ZenonT(30)

-----------------------------------------------------------------------------
(* Induction and recursion up to a bound, stated with sets.                *)

\* Induction: a set that holds 0, and each number up to N whose predecessor it
\* holds, holds all numbers up to N.
LEMMA InductionUpTo ==
  ASSUME NEW N \in Nat, NEW S, 0 \in S, \A k \in 1..N : k - 1 \in S => k \in S
  PROVE  0..N \subseteq S
<1> DEFINE R == OpToRel(<, Nat)
           Missing == {k \in 0..N : k \notin S}
<1> SUFFICES ASSUME Missing # {} PROVE FALSE
  BY ZenonT(30)
<1>1. IsWellFoundedOn(R, Nat)
  BY ZenonT(30), NatLessThanWellFounded
<1>2. \A a, b \in Nat : a < b => <<a, b>> \in R
  BY ZenonT(30) DEF OpToRel
<1>3. Missing \subseteq Nat
  OBVIOUS
<1>4. PICK m \in Missing : \A k \in Missing : ~(<<k, m>> \in R)
  <2> HIDE DEF R, Missing
  <2> QED
    BY ZenonT(30), <1>1, <1>3, WFMin
<1> HIDE DEF R
<1>5. m \in 1..N /\ m - 1 \in 0..N /\ m - 1 \in Nat /\ m \in Nat /\ m - 1 < m
  BY <1>4
<1>6. m - 1 \in S
  BY ZenonT(30), <1>2, <1>4, <1>5
<1> QED
  BY ZenonT(30), <1>4, <1>5, <1>6

IsRecursion(f, N, x, g) == f[0] = x /\ \A k \in 1..N : f[k] = g[<<k, f[k - 1]>>]

\* Recursion: a function that is defined at 0, and at k from its value at k - 1,
\* exists.
LEMMA RecursionUpTo ==
  ASSUME NEW N \in Nat, NEW S, NEW x \in S, NEW g \in [(1..N) \X S -> S]
  PROVE  \E f \in [0..N -> S] : IsRecursion(f, N, x, g)
<1> DEFINE Path(n, h) == h[0] = x /\ \A k \in 1..n : h[k] = g[<<k, h[k - 1]>>]
           Defined == {n \in 0..N : \E h \in [0..n -> S] : Path(n, h)}
<1>1. 0 \in Defined
  <2>1. [k \in 0..0 |-> x] \in [0..0 -> S] /\ Path(0, [k \in 0..0 |-> x])
    OBVIOUS
  <2>2. 0 \in 0..N
    OBVIOUS
  <2> HIDE DEF Path
  <2> QED
    BY ZenonT(30), <2>1, <2>2
<1>2. ASSUME NEW n \in 1..N, n - 1 \in Defined PROVE n \in Defined
  <2>1. PICK h \in [0..(n - 1) -> S] : Path(n - 1, h)
    BY ZenonT(30), <1>2
  <2> DEFINE k == [i \in 0..n |-> IF i = n THEN g[<<n, h[n - 1]>>] ELSE h[i]]
  <2>2. k \in [0..n -> S] /\ k[0] = x
    <3>1. n - 1 \in 0..(n - 1) /\ 0 \in 0..(n - 1) /\ 0 # n
      OBVIOUS
    <3>2. <<n, h[n - 1]>> \in (1..N) \X S
      BY <3>1
    <3>3. g[<<n, h[n - 1]>>] \in S
      BY ZenonT(30), <3>2
    <3>4. \A i \in 0..n : i # n => i \in 0..(n - 1)
      OBVIOUS
    <3>5. \A i \in 0..n : i # n => h[i] \in S
      BY ZenonT(30), <3>4
    <3>6. 0 \in 0..n
      OBVIOUS
    <3> QED
      BY ZenonT(30), <2>1, <3>1, <3>3, <3>5, <3>6
  <2>3. ASSUME NEW i \in 1..n PROVE k[i] = g[<<i, k[i - 1]>>]
    <3>1. CASE i = n
      <4>1. n - 1 \in 0..n /\ n - 1 # n /\ n \in 0..n
        OBVIOUS
      <4>2. k[n - 1] = h[n - 1] /\ k[n] = g[<<n, h[n - 1]>>]
        BY ZenonT(30), <4>1
      <4> QED
        BY ZenonT(30), <3>1, <4>2
    <3>2. CASE i # n
      <4>1. i \in 1..(n - 1) /\ i \in 0..n /\ i - 1 \in 0..n /\ i - 1 # n
        BY ONLY <3>2, i \in 1..n, n \in 1..N, N \in Nat, SMTT(30)
      <4>2. k[i - 1] = h[i - 1] /\ k[i] = h[i]
        BY ZenonT(30), <3>2, <4>1
      <4> QED
        BY ZenonT(30), <2>1, <4>1, <4>2
    <3> QED
      BY ZenonT(30), <3>1, <3>2
  <2>4. Path(n, k)
    BY ZenonT(30), <2>2, <2>3
  <2>5. n \in 0..N
    OBVIOUS
  <2> HIDE DEF Path, k
  <2> QED
    BY ZenonT(30), <2>2, <2>4, <2>5
<1>3. 0..N \subseteq Defined
  <2> HIDE DEF Defined
  <2> QED
    BY ZenonT(30), <1>1, <1>2, InductionUpTo
<1>4. N \in 0..N
  OBVIOUS
<1>5. \E h \in [0..N -> S] : Path(N, h)
  BY ZenonT(30), <1>3, <1>4
<1> QED
  BY ZenonT(30), <1>5 DEF IsRecursion

-----------------------------------------------------------------------------
(* Sequences.                                                              *)

\* A sequence with one element more.
LEMMA Appended ==
  ASSUME NEW S, NEW a \in Seq(S), NEW x \in S
  PROVE  /\ Append(a, x) \in Seq(S) /\ Len(Append(a, x)) = Len(a) + 1 /\ Len(a) \in Nat
         /\ DOMAIN a = 1..Len(a) /\ DOMAIN Append(a, x) = 1..(Len(a) + 1)
         /\ \A k \in DOMAIN a : k \in DOMAIN Append(a, x) /\ Append(a, x)[k] = a[k]
         /\ Append(a, x)[Len(a) + 1] = x
OBVIOUS

\* Two sequences in a row.
LEMMA Joined ==
  ASSUME NEW S, NEW a \in Seq(S), NEW b \in Seq(S)
  PROVE  /\ a \o b \in Seq(S) /\ Len(a) \in Nat /\ Len(b) \in Nat
         /\ DOMAIN a = 1..Len(a) /\ DOMAIN b = 1..Len(b) /\ DOMAIN (a \o b) = 1..(Len(a) + Len(b))
         /\ \A k \in DOMAIN a : k \in DOMAIN (a \o b) /\ (a \o b)[k] = a[k]
         /\ \A k \in DOMAIN b : Len(a) + k \in DOMAIN (a \o b) /\ (a \o b)[Len(a) + k] = b[k]
         /\ \A k \in DOMAIN (a \o b) : k \in DOMAIN a \/ (k - Len(a) \in DOMAIN b /\ (a \o b)[k] = b[k - Len(a)])
OBVIOUS

\* The places of a sequence are numbers.
LEMMA SeqDomain ==
  ASSUME NEW S, NEW a \in Seq(S)
  PROVE  /\ Len(a) \in Nat /\ DOMAIN a \subseteq Nat /\ DOMAIN a = 1..Len(a)
         /\ \A k \in DOMAIN a : a[k] \in S
OBVIOUS

\* A queue and what is left of it after its head.
LEMMA HeadAndTail ==
  ASSUME NEW S, NEW a \in Seq(S), a # <<>>
  PROVE  /\ 1 \in DOMAIN a /\ Head(a) = a[1] /\ Head(a) \in S /\ Tail(a) \in Seq(S)
         /\ DOMAIN a = 1..Len(a) /\ Len(a) \in Nat /\ Len(Tail(a)) = Len(a) - 1
         /\ DOMAIN Tail(a) = 1..(Len(a) - 1)
         /\ \A k \in DOMAIN Tail(a) : k + 1 \in DOMAIN a /\ Tail(a)[k] = a[k + 1]
         /\ \A k \in DOMAIN a : k # 1 => k - 1 \in DOMAIN Tail(a) /\ Tail(a)[k - 1] = a[k]
OBVIOUS

-----------------------------------------------------------------------------
(* What a batch does to the table.                                         *)

\* The tables PGlite can hold: the key of a row is its id.
Tables == {t \in [Ids -> LocalRow \cup {Absent}] : \A i \in Ids : t[i] # Absent => t[i].id = i}

Column(r, c) == IF r = Absent THEN Null ELSE r[c]

\* An op that concerns row i, and the row that it leaves.
Touches(op, i) == op.table = LocalTable /\ op.id = i
RowAfter(r, op) ==
  IF op.kind = "Delete" THEN Absent
  ELSE [id |-> op.id,
        payload |-> IF op.kind = "Upsert" THEN op.value ELSE Column(r, "payload"),
        crdt_state |-> IF op.kind = "CrdtPatch" THEN op.value ELSE Column(r, "crdt_state")]

\* The row an op leaves is a row, or none.
LEMMA RowAfterType ==
  ASSUME NEW r \in LocalRow \cup {Absent}, NEW op \in Op
  PROVE  /\ RowAfter(r, op) \in LocalRow \cup {Absent}
         /\ RowAfter(r, op) # Absent => RowAfter(r, op).id = op.id
         /\ op.kind # "Delete" => RowAfter(r, op) # Absent
<1>1. Column(r, "payload") \in Value \cup {Null} /\ Column(r, "crdt_state") \in Value \cup {Null}
  BY ZenonT(30) DEF Column, LocalRow
<1>2. op.id \in Ids /\ op.value \in Value
  BY ZenonT(30) DEF Op
<1>3. CASE op.kind = "Delete"
  BY ZenonT(30), <1>3 DEF RowAfter
<1>4. CASE op.kind # "Delete"
  <2> DEFINE p == IF op.kind = "Upsert" THEN op.value ELSE Column(r, "payload")
             c == IF op.kind = "CrdtPatch" THEN op.value ELSE Column(r, "crdt_state")
  <2>1. p \in Value \cup {Null} /\ c \in Value \cup {Null}
    BY ZenonT(30), <1>1, <1>2
  <2>2. RowAfter(r, op) = [id |-> op.id, payload |-> p, crdt_state |-> c]
    BY ZenonT(30), <1>4 DEF RowAfter
  <2> HIDE DEF p, c
  <2>3. RowAfter(r, op) \in LocalRow /\ RowAfter(r, op).id = op.id
    BY <1>2, <2>1, <2>2 DEF LocalRow
  <2> QED
    BY ZenonT(30), <2>3, ReplicaAssumption
<1> QED
  BY ZenonT(30), <1>3, <1>4

\* applyOne writes the row of its id, if the op is of the table, and no other.
LEMMA ApplyOneAt ==
  ASSUME NEW rows \in Tables, NEW op \in Op, NEW i \in Ids
  PROVE  /\ Touches(op, i) => ApplyOne(rows, op)[i] = RowAfter(rows[i], op)
         /\ ~Touches(op, i) => ApplyOne(rows, op)[i] = rows[i]
<1> DEFINE row == IF rows[op.id] = Absent
                  THEN [id |-> op.id, payload |-> Null, crdt_state |-> Null] ELSE rows[op.id]
<1>1. op.id \in Ids /\ op.kind \in Kinds /\ rows \in [Ids -> LocalRow \cup {Absent}]
      /\ (rows[op.id] # Absent => rows[op.id].id = op.id)
  BY ZenonT(30) DEF Op, Tables
<1>2. /\ row \in LocalRow /\ row.id = op.id
      /\ row.payload = Column(rows[op.id], "payload")
      /\ row.crdt_state = Column(rows[op.id], "crdt_state")
  <2>1. CASE rows[op.id] = Absent
    BY <1>1, <2>1 DEF LocalRow, Column
  <2>2. CASE rows[op.id] # Absent
    BY ZenonT(30), <1>1, <2>2 DEF Column
  <2> QED
    BY ZenonT(30), <2>1, <2>2
<1> HIDE DEF row
<1>3. CASE op.table # LocalTable
  BY <1>3 DEF ApplyOne, Touches
<1>4. CASE op.table = LocalTable /\ op.kind = "Delete"
  <2>1. ApplyOne(rows, op) = [rows EXCEPT ![op.id] = Absent]
    BY <1>4 DEF ApplyOne
  <2> QED
    BY ZenonT(30), <1>1, <1>4, <2>1 DEF RowAfter, Touches
<1>5. CASE op.table = LocalTable /\ op.kind = "Upsert"
  <2>1. ApplyOne(rows, op) = [rows EXCEPT ![op.id] = [row EXCEPT !.payload = op.value]]
    BY <1>5 DEF ApplyOne, row
  <2>2. [row EXCEPT !.payload = op.value]
          = [id |-> op.id, payload |-> op.value, crdt_state |-> Column(rows[op.id], "crdt_state")]
    BY <1>2 DEF LocalRow
  <2>3. RowAfter(rows[op.id], op)
          = [id |-> op.id, payload |-> op.value, crdt_state |-> Column(rows[op.id], "crdt_state")]
    BY <1>5 DEF RowAfter
  <2> QED
    BY ZenonT(30), <1>1, <1>5, <2>1, <2>2, <2>3 DEF Touches
<1>6. CASE op.table = LocalTable /\ op.kind = "CrdtPatch"
  <2>1. ApplyOne(rows, op) = [rows EXCEPT ![op.id] = [row EXCEPT !.crdt_state = op.value]]
    BY <1>6 DEF ApplyOne, row
  <2>2. [row EXCEPT !.crdt_state = op.value]
          = [id |-> op.id, payload |-> Column(rows[op.id], "payload"), crdt_state |-> op.value]
    BY <1>2 DEF LocalRow
  <2>3. RowAfter(rows[op.id], op)
          = [id |-> op.id, payload |-> Column(rows[op.id], "payload"), crdt_state |-> op.value]
    BY <1>6 DEF RowAfter
  <2> QED
    BY ZenonT(30), <1>1, <1>6, <2>1, <2>2, <2>3 DEF Touches
<1> QED
  BY ZenonT(30), <1>1, <1>3, <1>4, <1>5, <1>6 DEF Kinds

\* applyOne keeps the table a table.
LEMMA ApplyOneType ==
  ASSUME NEW rows \in Tables, NEW op \in Op
  PROVE  ApplyOne(rows, op) \in Tables
<1>1. rows \in [Ids -> LocalRow \cup {Absent}]
  BY ZenonT(30) DEF Tables
<1>2. DOMAIN ApplyOne(rows, op) = Ids /\ ApplyOne(rows, op) = [i \in Ids |-> ApplyOne(rows, op)[i]]
  <2> DEFINE row == IF rows[op.id] = Absent
                    THEN [id |-> op.id, payload |-> Null, crdt_state |-> Null] ELSE rows[op.id]
  <2>1. op.kind \in Kinds
    BY ZenonT(30) DEF Op
  <2>2. \/ ApplyOne(rows, op) = rows
        \/ ApplyOne(rows, op) = [rows EXCEPT ![op.id] = Absent]
        \/ ApplyOne(rows, op) = [rows EXCEPT ![op.id] = [row EXCEPT !.payload = op.value]]
        \/ ApplyOne(rows, op) = [rows EXCEPT ![op.id] = [row EXCEPT !.crdt_state = op.value]]
    BY <2>1 DEF ApplyOne, Kinds
  <2> HIDE DEF row
  <2> QED
    BY ZenonT(30), <1>1, <2>2
<1>3. ASSUME NEW i \in Ids
      PROVE  /\ ApplyOne(rows, op)[i] \in LocalRow \cup {Absent}
             /\ ApplyOne(rows, op)[i] # Absent => ApplyOne(rows, op)[i].id = i
  <2>1. rows[i] \in LocalRow \cup {Absent} /\ (rows[i] # Absent => rows[i].id = i)
    BY ZenonT(30) DEF Tables
  <2>2. CASE Touches(op, i)
    <3>1. ApplyOne(rows, op)[i] = RowAfter(rows[i], op) /\ op.id = i
      BY ZenonT(30), <2>2, ApplyOneAt DEF Touches
    <3> QED
      BY ZenonT(30), <2>1, <3>1, RowAfterType
  <2>3. CASE ~Touches(op, i)
    BY ZenonT(30), <2>1, <2>3, ApplyOneAt
  <2> QED
    BY ZenonT(30), <2>2, <2>3
<1> DEFINE t == ApplyOne(rows, op)
<1> HIDE DEF t
<1>4. t \in [Ids -> LocalRow \cup {Absent}]
  BY ZenonT(30), <1>2, <1>3 DEF t
<1> QED
  BY ZenonT(30), <1>3, <1>4 DEF t, Tables

\* The equations of applyOps.
LEMMA ApplyOpsEquations ==
  ASSUME NEW rows \in Tables, NEW ops \in Seq(Op)
  PROVE  /\ Len(ops) \in Nat
         /\ ApplyOps(rows, ops)[0] = rows
         /\ \A k \in 1..Len(ops) :
              /\ ops[k] \in Op
              /\ ApplyOps(rows, ops)[k] = ApplyOne(ApplyOps(rows, ops)[k - 1], ops[k])
         /\ \A k \in 0..Len(ops) : ApplyOps(rows, ops)[k] \in Tables
         /\ ApplyAll(rows, ops) \in Tables
<1>1. PICK N \in Nat : N = Len(ops)
  OBVIOUS
<1>2. \A k \in 1..N : ops[k] \in Op
  BY <1>1
<1> DEFINE g == [p \in (1..N) \X Tables |-> ApplyOne(p[2], ops[p[1]])]
<1>3. g \in [(1..N) \X Tables -> Tables]
  <2>1. \A p \in (1..N) \X Tables : p[1] \in 1..N /\ p[2] \in Tables
    OBVIOUS
  <2>2. \A p \in (1..N) \X Tables : ApplyOne(p[2], ops[p[1]]) \in Tables
    BY ZenonT(30), <1>2, <2>1, ApplyOneType
  <2> QED
    BY ZenonT(30), <2>2
<1>4. ASSUME NEW k \in 1..N, NEW t \in Tables PROVE g[<<k, t>>] = ApplyOne(t, ops[k])
  <2>1. <<k, t>> \in (1..N) \X Tables /\ <<k, t>>[1] = k /\ <<k, t>>[2] = t
    OBVIOUS
  <2>2. g[<<k, t>>] = ApplyOne(<<k, t>>[2], ops[<<k, t>>[1]])
    BY ZenonT(30), <2>1
  <2> QED
    BY ZenonT(30), <2>1, <2>2
<1> HIDE DEF g
<1>5. PICK f \in [0..N -> Tables] : f[0] = rows /\ \A k \in 1..N : f[k] = g[<<k, f[k - 1]>>]
  <2>1. \E f \in [0..N -> Tables] : IsRecursion(f, N, rows, g)
    BY ZenonT(30), <1>3, RecursionUpTo
  <2> QED
    BY ZenonT(30), <2>1 DEF IsRecursion
<1> DEFINE Step(F) == [k \in 0..N |-> IF k = 0 THEN rows ELSE ApplyOne(F[k - 1], ops[k])]
<1>6. \A k \in 0..N : k # 0 => k \in 1..N /\ k - 1 \in 0..N
  OBVIOUS
<1>7. f = Step(f)
  <2>1. \A k \in 0..N : f[k] = IF k = 0 THEN rows ELSE ApplyOne(f[k - 1], ops[k])
    BY ZenonT(30), <1>4, <1>5, <1>6
  <2>2. f = [k \in 0..N |-> f[k]]
    BY ZenonT(30), <1>5
  <2> QED
    BY ZenonT(30), <2>1, <2>2
<1> DEFINE a == ApplyOps(rows, ops)
<1>8. a = CHOOSE F : F = Step(F)
  BY ZenonT(30), <1>1 DEF ApplyOps
<1>9. a = Step(a)
  <2> HIDE DEF Step, a
  <2> QED
    BY ZenonT(30), <1>7, <1>8
<1> HIDE DEF a
<1>10. a[0] = rows /\ \A k \in 1..N : a[k] = ApplyOne(a[k - 1], ops[k])
  <2>1. 0 \in 0..N /\ \A k \in 1..N : k \in 0..N /\ k # 0
    OBVIOUS
  <2>2. \A k \in 0..N : a[k] = IF k = 0 THEN rows ELSE ApplyOne(a[k - 1], ops[k])
    BY ZenonT(30), <1>9
  <2> QED
    BY ZenonT(30), <2>1, <2>2
<1> DEFINE Good == {k \in 0..N : a[k] \in Tables}
<1>11. 0..N \subseteq Good
  <2>1. 0 \in Good
    <3>1. 0 \in 0..N
      OBVIOUS
    <3> QED
      BY ZenonT(30), <3>1, <1>10
  <2>2. ASSUME NEW k \in 1..N, k - 1 \in Good PROVE k \in Good
    <3>1. k \in 0..N
      OBVIOUS
    <3> QED
      BY ZenonT(30), <1>2, <1>10, <2>2, <3>1, ApplyOneType
  <2> HIDE DEF Good
  <2> QED
    BY ZenonT(30), <2>1, <2>2, InductionUpTo
<1>12. \A k \in 0..N : a[k] \in Tables
  BY ZenonT(30), <1>11
<1>13. N \in 0..N
  OBVIOUS
<1> QED
  BY ZenonT(30), <1>1, <1>2, <1>10, <1>12, <1>13 DEF a, ApplyAll

\* One step of applyOps, row by row.
LEMMA ApplyOpsAt ==
  ASSUME NEW rows \in Tables, NEW ops \in Seq(Op), NEW k \in 1..Len(ops), NEW i \in Ids
  PROVE  LET a == ApplyOps(rows, ops) IN
         /\ ops[k] \in Op
         /\ a[k - 1][i] \in LocalRow \cup {Absent}
         /\ Touches(ops[k], i) => a[k][i] = RowAfter(a[k - 1][i], ops[k])
         /\ ~Touches(ops[k], i) => a[k][i] = a[k - 1][i]
<1> DEFINE t == ApplyOps(rows, ops)[k - 1]
<1>1. k - 1 \in 0..Len(ops)
  OBVIOUS
<1>2. t \in Tables /\ ops[k] \in Op /\ ApplyOps(rows, ops)[k] = ApplyOne(t, ops[k])
  BY ZenonT(30), <1>1, ApplyOpsEquations
<1> HIDE DEF t
<1>3. t[i] \in LocalRow \cup {Absent}
  BY ZenonT(30), <1>2 DEF Tables
<1>4. /\ Touches(ops[k], i) => ApplyOne(t, ops[k])[i] = RowAfter(t[i], ops[k])
      /\ ~Touches(ops[k], i) => ApplyOne(t, ops[k])[i] = t[i]
  BY ZenonT(30), <1>2, ApplyOneAt
<1> QED
  BY ZenonT(30), <1>2, <1>3, <1>4 DEF t

\* Each column of b, and whether there is a row, is as in a or as in c.
Between(a, b, c) ==
  /\ a = Absent /\ c = Absent => b = Absent
  /\ a # Absent /\ c # Absent => b # Absent
  /\ \A x \in {"payload", "crdt_state"} : Column(b, x) \in {Column(a, x), Column(c, x)}

\* An op writes the same columns, with the same values, whatever the row.
LEMMA BetweenKept ==
  ASSUME NEW a \in LocalRow \cup {Absent}, NEW b \in LocalRow \cup {Absent}, NEW c,
         NEW op \in Op, Between(a, b, c)
  PROVE  Between(RowAfter(a, op), RowAfter(b, op), c)
<1>1. CASE op.kind = "Delete"
  BY ZenonT(30), <1>1 DEF RowAfter, Between
<1>2. CASE op.kind # "Delete"
  <2>1. ASSUME NEW r \in {a, b}
        PROVE  /\ RowAfter(r, op) # Absent
               /\ Column(RowAfter(r, op), "payload") =
                    IF op.kind = "Upsert" THEN op.value ELSE Column(r, "payload")
               /\ Column(RowAfter(r, op), "crdt_state") =
                    IF op.kind = "CrdtPatch" THEN op.value ELSE Column(r, "crdt_state")
    <3>1. RowAfter(r, op) # Absent
      BY ZenonT(30), <1>2, <2>1, RowAfterType
    <3>2. /\ Column(RowAfter(r, op), "payload") = RowAfter(r, op).payload
          /\ Column(RowAfter(r, op), "crdt_state") = RowAfter(r, op).crdt_state
      BY ZenonT(30), <3>1 DEF Column
    <3>3. /\ RowAfter(r, op).payload = IF op.kind = "Upsert" THEN op.value ELSE Column(r, "payload")
          /\ RowAfter(r, op).crdt_state = IF op.kind = "CrdtPatch" THEN op.value ELSE Column(r, "crdt_state")
      BY <1>2 DEF RowAfter
    <3> QED
      BY ZenonT(30), <3>1, <3>2, <3>3
  <2> QED
    BY ZenonT(30), <2>1 DEF Between
<1> QED
  BY ZenonT(30), <1>1, <1>2

\* A batch that is applied twice is applied once: several subscribers of the
\* transport write the same rows.
LEMMA ApplyTwice ==
  ASSUME NEW rows \in Tables, NEW ops \in Seq(Op)
  PROVE  ApplyAll(ApplyAll(rows, ops), ops) = ApplyAll(rows, ops)
<1> DEFINE last == ApplyAll(rows, ops)
           a == ApplyOps(rows, ops)
           b == ApplyOps(last, ops)
           N == Len(ops)
<1>1. last \in Tables /\ N \in Nat /\ last = a[N]
  BY ZenonT(30), ApplyOpsEquations DEF ApplyAll
<1>2. a[0] = rows /\ b[0] = last /\ \A k \in 0..N : a[k] \in Tables /\ b[k] \in Tables
  BY ZenonT(30), <1>1, ApplyOpsEquations
<1>9. ASSUME NEW k \in 1..N, NEW i \in Ids
      PROVE  /\ ops[k] \in Op
             /\ a[k - 1][i] \in LocalRow \cup {Absent} /\ b[k - 1][i] \in LocalRow \cup {Absent}
             /\ Touches(ops[k], i) => /\ a[k][i] = RowAfter(a[k - 1][i], ops[k])
                                     /\ b[k][i] = RowAfter(b[k - 1][i], ops[k])
             /\ ~Touches(ops[k], i) => a[k][i] = a[k - 1][i] /\ b[k][i] = b[k - 1][i]
  <2> HIDE DEF last
  <2> QED
    BY ZenonT(30), <1>1, ApplyOpsAt
<1>3. ApplyAll(last, ops) = b[N]
  BY ZenonT(30) DEF ApplyAll
<1> HIDE DEF last, a, b, N
<1> DEFINE Good == {k \in 0..N : \A i \in Ids : Between(a[k][i], b[k][i], last[i])}
<1>4. 0..N \subseteq Good
  <2>1. 0 \in Good
    <3>1. 0 \in 0..N
      BY <1>1
    <3>2. \A i \in Ids : Between(a[0][i], b[0][i], last[i])
      BY ZenonT(30), <1>2 DEF Between
    <3> QED
      BY ZenonT(30), <3>1, <3>2
  <2>2. ASSUME NEW k \in 1..N, k - 1 \in Good PROVE k \in Good
    <3>1. k \in 0..N /\ k - 1 \in 0..N
      BY <1>1
    <3>2. ASSUME NEW i \in Ids PROVE Between(a[k][i], b[k][i], last[i])
      <4>1. Between(a[k - 1][i], b[k - 1][i], last[i])
        BY ZenonT(30), <2>2
      <4>3. CASE Touches(ops[k], i)
        BY ZenonT(30), <1>9, <4>1, <4>3, BetweenKept
      <4>4. CASE ~Touches(ops[k], i)
        BY ZenonT(30), <1>9, <4>1, <4>4
      <4> QED
        BY ZenonT(30), <4>3, <4>4
    <3> QED
      BY ZenonT(30), <3>1, <3>2
  <2> HIDE DEF Good
  <2> QED
    BY ZenonT(30), <1>1, <2>1, <2>2, InductionUpTo
<1>5. N \in 0..N
  BY <1>1
<1>6. b[N] \in Tables /\ last \in Tables
  BY ZenonT(30), <1>1, <1>2, <1>5
<1>7. ASSUME NEW i \in Ids PROVE b[N][i] = last[i]
  <2>1. Between(last[i], b[N][i], last[i])
    BY ZenonT(30), <1>1, <1>4, <1>5
  <2>2. /\ b[N][i] \in LocalRow \cup {Absent} /\ last[i] \in LocalRow \cup {Absent}
        /\ b[N][i] # Absent => b[N][i].id = i
        /\ last[i] # Absent => last[i].id = i
    BY ZenonT(30), <1>6 DEF Tables
  <2>3. CASE last[i] = Absent
    BY ZenonT(30), <2>1, <2>3 DEF Between
  <2>4. CASE last[i] # Absent
    <3>1. b[N][i] # Absent
      BY ZenonT(30), <2>1, <2>4 DEF Between
    <3>2. b[N][i].payload = last[i].payload /\ b[N][i].crdt_state = last[i].crdt_state
      BY ZenonT(30), <2>1, <2>4, <3>1 DEF Between, Column
    <3>3. b[N][i] \in LocalRow /\ last[i] \in LocalRow /\ b[N][i].id = last[i].id
      BY ZenonT(30), <2>2, <2>4, <3>1
    <3> QED
      BY <3>2, <3>3 DEF LocalRow
  <2> QED
    BY ZenonT(30), <2>3, <2>4
<1>8. b[N] = last
  <2>1. b[N] \in [Ids -> LocalRow \cup {Absent}] /\ last \in [Ids -> LocalRow \cup {Absent}]
    BY ZenonT(30), <1>6 DEF Tables
  <2> HIDE DEF last
  <2> QED
    BY <1>7, <2>1
<1> QED
  BY ZenonT(30), <1>3, <1>8 DEF last

\* A batch leaves a row alone that none of its ops concerns.
LEMMA ApplyAllUntouched ==
  ASSUME NEW rows \in Tables, NEW ops \in Seq(Op), NEW i \in Ids,
         \A k \in 1..Len(ops) : ~Touches(ops[k], i)
  PROVE  ApplyAll(rows, ops)[i] = rows[i]
<1> DEFINE a == ApplyOps(rows, ops)
           N == Len(ops)
           Good == {k \in 0..N : a[k][i] = rows[i]}
<1>1. N \in Nat /\ a[0] = rows
  BY ZenonT(30), ApplyOpsEquations
<1>2. ApplyAll(rows, ops) = a[N]
  BY ZenonT(30) DEF ApplyAll
<1>3. \A k \in 1..N : ~Touches(ops[k], i)
  OBVIOUS
<1> HIDE DEF a, N
<1>4. 0 \in Good
  <2>1. 0 \in 0..N
    BY <1>1
  <2> QED
    BY ZenonT(30), <1>1, <2>1
<1>5. ASSUME NEW k \in 1..N, k - 1 \in Good PROVE k \in Good
  <2>1. k \in 0..N /\ k - 1 \in 0..N
    BY <1>1
  <2>2. a[k][i] = a[k - 1][i]
    BY ZenonT(30), <1>3, ApplyOpsAt DEF a, N
  <2> QED
    BY ZenonT(30), <1>5, <2>1, <2>2
<1>6. 0..N \subseteq Good
  <2> HIDE DEF Good
  <2> QED
    BY ZenonT(30), <1>1, <1>4, <1>5, InductionUpTo
<1>7. N \in 0..N
  BY <1>1
<1> QED
  BY ZenonT(30), <1>2, <1>6, <1>7

\* A row that a batch writes and never deletes is there after it.
LEMMA ApplyAllPresent ==
  ASSUME NEW rows \in Tables, NEW ops \in Seq(Op), NEW i \in Ids,
         \E k \in 1..Len(ops) : Touches(ops[k], i),
         \A k \in 1..Len(ops) : Touches(ops[k], i) => ops[k].kind # "Delete"
  PROVE  ApplyAll(rows, ops)[i] # Absent
<1> DEFINE a == ApplyOps(rows, ops)
           N == Len(ops)
<1>1. N \in Nat /\ a[0] = rows
  BY ZenonT(30), ApplyOpsEquations
<1>2. ApplyAll(rows, ops) = a[N]
  BY ZenonT(30) DEF ApplyAll
<1>3. \A k \in 1..N : Touches(ops[k], i) => ops[k].kind # "Delete"
  OBVIOUS
<1>4. PICK d \in 1..N : Touches(ops[d], i)
  OBVIOUS
<1> HIDE DEF a, N
<1> DEFINE Good == {k \in 0..N : k >= d => a[k][i] # Absent}
<1>5. 0 \in Good
  BY <1>1, <1>4
<1>6. ASSUME NEW k \in 1..N, k - 1 \in Good PROVE k \in Good
  <2>1. k \in 0..N /\ k - 1 \in 0..N
    BY <1>1
  <2>2. /\ ops[k] \in Op
        /\ a[k - 1][i] \in LocalRow \cup {Absent}
        /\ Touches(ops[k], i) => a[k][i] = RowAfter(a[k - 1][i], ops[k])
        /\ ~Touches(ops[k], i) => a[k][i] = a[k - 1][i]
    BY ZenonT(30), ApplyOpsAt DEF a, N
  <2>3. CASE Touches(ops[k], i)
    <3>1. ops[k].kind # "Delete" /\ a[k][i] = RowAfter(a[k - 1][i], ops[k])
      BY ZenonT(30), <1>3, <2>2, <2>3
    <3>2. RowAfter(a[k - 1][i], ops[k]) # Absent
      BY ZenonT(30), <2>2, <3>1, RowAfterType
    <3>3. a[k][i] # Absent
      BY ZenonT(30), <3>1, <3>2
    <3> QED
      BY ZenonT(30), <2>1, <3>3
  <2>4. CASE ~Touches(ops[k], i)
    <3>1. a[k][i] = a[k - 1][i]
      BY ZenonT(30), <2>2, <2>4
    <3>2. k # d
      BY ZenonT(30), <1>4, <2>4
    <3>3. k \in Int /\ d \in Int
      BY <1>1
    <3>4. k >= d => k - 1 >= d
      BY ONLY <3>2, <3>3, SMTT(30)
    <3> QED
      BY ZenonT(30), <1>6, <2>1, <3>1, <3>4
  <2> QED
    BY ZenonT(30), <2>3, <2>4
<1>7. 0..N \subseteq Good
  <2> HIDE DEF Good
  <2> QED
    BY ZenonT(30), <1>1, <1>5, <1>6, InductionUpTo
<1>8. N \in 0..N /\ N >= d
  BY <1>1
<1> QED
  BY ZenonT(30), <1>2, <1>7, <1>8

-----------------------------------------------------------------------------
(* What the deltas make of the table.                                      *)

IsReplay(a, ds, D) ==
  /\ Len(ds) \in Nat
  /\ a[0] = [i \in Ids |-> Absent]
  /\ \A n \in 1..Len(ds) : /\ ds[n] \in Seq(Op)
                           /\ n \in D => a[n] = ApplyAll(a[n - 1], ds[n])
                           /\ n \notin D => a[n] = a[n - 1]
  /\ \A n \in 0..Len(ds) : a[n] \in Tables

\* The equations of the replay of deltas.
LEMMA ReplaysEquations ==
  ASSUME NEW ds \in Seq(Seq(Op)), NEW D
  PROVE  IsReplay(Replays(ds, D), ds, D)
<1> DEFINE blank == [i \in Ids |-> Absent]
<1>1. PICK N \in Nat : N = Len(ds)
  OBVIOUS
<1>2. \A n \in 1..N : ds[n] \in Seq(Op)
  BY <1>1
<1>3. blank \in Tables
  BY ZenonT(30) DEF Tables
<1> HIDE DEF blank
<1> DEFINE After(t, n) == IF n \in D THEN ApplyAll(t, ds[n]) ELSE t
           g == [p \in (1..N) \X Tables |-> After(p[2], p[1])]
<1>4. \A n \in 1..N, t \in Tables : After(t, n) \in Tables
  BY ZenonT(30), <1>2, ApplyOpsEquations
<1> HIDE DEF After
<1>5. g \in [(1..N) \X Tables -> Tables] /\ \A n \in 1..N, t \in Tables : g[<<n, t>>] = After(t, n)
  <2>1. \A p \in (1..N) \X Tables : p[1] \in 1..N /\ p[2] \in Tables
    OBVIOUS
  <2>2. \A p \in (1..N) \X Tables : After(p[2], p[1]) \in Tables
    BY ZenonT(30), <1>4, <2>1
  <2>3. ASSUME NEW n \in 1..N, NEW t \in Tables PROVE g[<<n, t>>] = After(t, n)
    <3>1. <<n, t>> \in (1..N) \X Tables /\ <<n, t>>[1] = n /\ <<n, t>>[2] = t
      OBVIOUS
    <3>2. g[<<n, t>>] = After(<<n, t>>[2], <<n, t>>[1])
      BY ZenonT(30), <3>1
    <3> QED
      BY ZenonT(30), <3>1, <3>2
  <2> QED
    BY ZenonT(30), <2>2, <2>3
<1> HIDE DEF g
<1>6. PICK f \in [0..N -> Tables] : f[0] = blank /\ \A n \in 1..N : f[n] = g[<<n, f[n - 1]>>]
  <2>1. \E f \in [0..N -> Tables] : IsRecursion(f, N, blank, g)
    BY ZenonT(30), <1>3, <1>5, RecursionUpTo
  <2> QED
    BY ZenonT(30), <2>1 DEF IsRecursion
<1> DEFINE Step(F) == [n \in 0..N |-> IF n = 0 THEN blank ELSE After(F[n - 1], n)]
<1>7. \A n \in 0..N : n # 0 => n \in 1..N /\ n - 1 \in 0..N
  OBVIOUS
<1>8. f = Step(f)
  <2>1. \A n \in 0..N : f[n] = IF n = 0 THEN blank ELSE After(f[n - 1], n)
    BY ZenonT(30), <1>5, <1>6, <1>7
  <2>2. f = [n \in 0..N |-> f[n]]
    BY ZenonT(30), <1>6
  <2> QED
    BY ZenonT(30), <2>1, <2>2
<1> DEFINE a == Replays(ds, D)
<1>9. a = CHOOSE F : F = Step(F)
  BY ZenonT(30), <1>1 DEF Replays, After, blank
<1>10. a = Step(a)
  <2> HIDE DEF Step, a
  <2> QED
    BY ZenonT(30), <1>8, <1>9
<1> HIDE DEF a
<1>11. a[0] = blank /\ \A n \in 1..N : a[n] = After(a[n - 1], n)
  <2>1. 0 \in 0..N /\ \A n \in 1..N : n \in 0..N /\ n # 0
    OBVIOUS
  <2>2. \A n \in 0..N : a[n] = IF n = 0 THEN blank ELSE After(a[n - 1], n)
    BY ZenonT(30), <1>10
  <2> QED
    BY ZenonT(30), <2>1, <2>2
<1> DEFINE Good == {n \in 0..N : a[n] \in Tables}
<1>12. 0..N \subseteq Good
  <2>1. 0 \in Good
    <3>1. 0 \in 0..N
      OBVIOUS
    <3> QED
      BY ZenonT(30), <1>3, <1>11, <3>1
  <2>2. ASSUME NEW n \in 1..N, n - 1 \in Good PROVE n \in Good
    <3>1. n \in 0..N
      OBVIOUS
    <3> QED
      BY ZenonT(30), <1>4, <1>11, <2>2, <3>1
  <2> HIDE DEF Good
  <2> QED
    BY ZenonT(30), <2>1, <2>2, InductionUpTo
<1>13. \A n \in 0..N : a[n] \in Tables
  BY ZenonT(30), <1>12
<1>14. \A n \in 1..N : /\ n \in D => a[n] = ApplyAll(a[n - 1], ds[n])
                       /\ n \notin D => a[n] = a[n - 1]
  BY ZenonT(30), <1>11 DEF After
<1> QED
  BY ZenonT(30), <1>1, <1>2, <1>11, <1>13, <1>14 DEF a, blank, IsReplay

\* The same deltas, and the same of them applied.
SameUpTo(ds, es, D, E, N) == \A n \in 1..N : ds[n] = es[n] /\ (n \in D <=> n \in E)

\* A replay depends on the deltas it has met so far only.
LEMMA ReplaysAgree ==
  ASSUME NEW ds \in Seq(Seq(Op)), NEW es \in Seq(Seq(Op)), NEW D, NEW E, NEW N \in Nat,
         N <= Len(ds), N <= Len(es),
         SameUpTo(ds, es, D, E, N)
  PROVE  Replays(ds, D)[N] = Replays(es, E)[N]
<1> DEFINE a == Replays(ds, D)
           b == Replays(es, E)
           Good == {n \in 0..N : a[n] = b[n]}
<1>1. \A n \in 1..N : n \in 1..Len(ds) /\ n \in 1..Len(es) /\ n \in 0..N
  OBVIOUS
<1>0. IsReplay(a, ds, D) /\ IsReplay(b, es, E)
  BY ZenonT(30), ReplaysEquations
<1> HIDE DEF a, b
<1>2. a[0] = b[0]
  BY ZenonT(30), <1>0 DEF IsReplay
<1>3. ASSUME NEW n \in 1..N
      PROVE  /\ n \in D => a[n] = ApplyAll(a[n - 1], ds[n])
             /\ n \notin D => a[n] = a[n - 1]
             /\ n \in E => b[n] = ApplyAll(b[n - 1], es[n])
             /\ n \notin E => b[n] = b[n - 1]
  BY ZenonT(30), <1>0, <1>1 DEF IsReplay
<1>4. 0 \in Good
  <2>1. 0 \in 0..N
    OBVIOUS
  <2> QED
    BY ZenonT(30), <1>2, <2>1
<1>5. ASSUME NEW n \in 1..N, n - 1 \in Good PROVE n \in Good
  <2>1. a[n - 1] = b[n - 1] /\ ds[n] = es[n] /\ (n \in D <=> n \in E)
    BY ZenonT(30), <1>5 DEF SameUpTo
  <2>2. a[n] = b[n]
    BY ZenonT(30), <1>3, <2>1
  <2> QED
    BY ZenonT(30), <1>1, <2>2
<1>6. 0..N \subseteq Good
  <2> HIDE DEF Good
  <2> QED
    BY ZenonT(30), <1>4, <1>5, InductionUpTo
<1>7. N \in 0..N
  OBVIOUS
<1> QED
  BY ZenonT(30), <1>6, <1>7 DEF a, b

\* Deltas that are not applied change nothing.
LEMMA ReplaysBeyond ==
  ASSUME NEW ds \in Seq(Seq(Op)), NEW D, NEW m \in 0..Len(ds),
         \A n \in 1..Len(ds) : n \in D => n <= m
  PROVE  Replays(ds, D)[Len(ds)] = Replays(ds, D)[m]
<1> DEFINE a == Replays(ds, D)
           N == Len(ds)
           Good == {n \in 0..N : n >= m => a[n] = a[m]}
<1>1. N \in Nat /\ \A n \in 1..N : n \notin D => a[n] = a[n - 1]
  <2>1. IsReplay(a, ds, D)
    BY ZenonT(30), ReplaysEquations
  <2> HIDE DEF a
  <2> QED
    BY ZenonT(30), <2>1 DEF IsReplay
<1>2. m \in 0..N /\ \A n \in 1..N : n \in D => n <= m
  OBVIOUS
<1> HIDE DEF a, N
<1>3. 0 \in Good
  <2>1. 0 \in 0..N /\ (0 >= m => 0 = m)
    BY ONLY <1>1, <1>2, SMTT(30)
  <2> QED
    BY ZenonT(30), <2>1
<1>4. ASSUME NEW n \in 1..N, n - 1 \in Good PROVE n \in Good
  <2>1. n \in 0..N /\ n \in Int /\ m \in Int
    BY <1>1, <1>2
  <2>2. SUFFICES ASSUME n >= m, n # m PROVE a[n] = a[m]
    BY ZenonT(30), <2>1
  <2>3. ~(n <= m) /\ n - 1 >= m
    BY ONLY <2>1, <2>2, SMTT(30)
  <2> QED
    BY ZenonT(30), <1>1, <1>2, <1>4, <2>3
<1>5. 0..N \subseteq Good
  <2> HIDE DEF Good
  <2> QED
    BY ZenonT(30), <1>1, <1>3, <1>4, InductionUpTo
<1>6. N \in 0..N /\ N >= m
  BY ONLY <1>1, <1>2, SMTT(30)
<1> QED
  BY ZenonT(30), <1>5, <1>6 DEF a, N

\* Applying a delta that no applied one follows is replaying it as well; if it
\* was applied before, nothing changes.
LEMMA ReplayOneMore ==
  ASSUME NEW ds \in Seq(Seq(Op)), NEW D, NEW m \in 1..Len(ds),
         \A n \in 1..Len(ds) : n \in D => n <= m
  PROVE  /\ Replays(ds, D)[Len(ds)] \in Tables
         /\ Replays(ds, D \cup {m})[Len(ds)] = ApplyAll(Replays(ds, D)[Len(ds)], ds[m])
         /\ m \in D => ApplyAll(Replays(ds, D)[Len(ds)], ds[m]) = Replays(ds, D)[Len(ds)]
<1> DEFINE a == Replays(ds, D)
           b == Replays(ds, D \cup {m})
           N == Len(ds)
<1>1. /\ N \in Nat /\ N \in 0..N /\ m \in 0..N /\ m - 1 \in 0..N /\ m - 1 \in Nat /\ m \in Int
      /\ m - 1 <= N /\ m <= m
  OBVIOUS
<1>2. \A n \in 1..N : n \in D \cup {m} => n <= m
  BY ZenonT(30), <1>1
<1>3. a[N] = a[m] /\ b[N] = b[m]
  BY ZenonT(30), <1>1, <1>2, ReplaysBeyond
<1>4. b[m - 1] = a[m - 1]
  <2>1. \A n \in 1..(m - 1) : n # m
    OBVIOUS
  <2>2. SameUpTo(ds, ds, D \cup {m}, D, m - 1)
    BY ZenonT(30), <2>1 DEF SameUpTo
  <2> QED
    BY <1>1, <2>2, ReplaysAgree
<1>0. IsReplay(a, ds, D) /\ IsReplay(b, ds, D \cup {m})
  BY ZenonT(30), ReplaysEquations
<1> HIDE DEF a, b
<1>5. b[m] = ApplyAll(b[m - 1], ds[m])
  BY ZenonT(30), <1>0 DEF IsReplay
<1>6. /\ ds[m] \in Seq(Op) /\ a[N] \in Tables /\ a[m - 1] \in Tables
      /\ m \in D => a[m] = ApplyAll(a[m - 1], ds[m])
      /\ m \notin D => a[m] = a[m - 1]
  BY ZenonT(30), <1>0, <1>1 DEF IsReplay
<1>7. m \in D => ApplyAll(a[N], ds[m]) = a[N]
  BY ZenonT(30), <1>3, <1>6, ApplyTwice
<1>8. b[N] = ApplyAll(a[N], ds[m])
  <2>1. CASE m \in D
    BY ZenonT(30), <1>3, <1>4, <1>5, <1>6, <1>7, <2>1
  <2>2. CASE m \notin D
    BY ZenonT(30), <1>3, <1>4, <1>5, <1>6, <2>2
  <2> QED
    BY ZenonT(30), <2>1, <2>2
<1> QED
  BY ZenonT(30), <1>6, <1>7, <1>8 DEF a, b

\* A delta that arrives changes nothing before it is applied.
LEMMA ReplayArrived ==
  ASSUME NEW ds \in Seq(Seq(Op)), NEW D \in SUBSET (1..Len(ds)), NEW ops \in Seq(Op)
  PROVE  Replays(Append(ds, ops), D)[Len(Append(ds, ops))] = Replays(ds, D)[Len(ds)]
<1> DEFINE N == Len(ds)
<1>1. PICK es \in Seq(Seq(Op)) : es = Append(ds, ops)
  BY ZenonT(30), Appended
<1>2. /\ N \in Nat /\ N <= Len(ds) /\ N <= Len(es) /\ N \in 0..Len(es)
      /\ \A n \in 1..N : es[n] = ds[n]
      /\ \A n \in 1..Len(es) : n \in D => n <= N
  <2>1. N \in Nat /\ Len(es) = N + 1 /\ \A n \in 1..N : es[n] = ds[n]
    BY <1>1, Appended
  <2>2. N <= N /\ N <= N + 1 /\ N \in 0..(N + 1)
    BY ONLY <2>1, SMTT(30)
  <2>3. \A n \in D : n <= N
    BY ONLY <2>1, D \in SUBSET (1..N), SMTT(30)
  <2> QED
    BY ZenonT(30), <2>1, <2>2, <2>3
<1>3. Replays(es, D)[Len(es)] = Replays(es, D)[N]
  BY ZenonT(30), <1>2, ReplaysBeyond
<1>4. Replays(es, D)[N] = Replays(ds, D)[N]
  <2>1. SameUpTo(es, ds, D, D, N)
    BY ZenonT(30), <1>2 DEF SameUpTo
  <2> QED
    BY <1>2, <2>1, ReplaysAgree
<1> QED
  BY ZenonT(30), <1>1, <1>3, <1>4

-----------------------------------------------------------------------------
(* The inductive invariant.                                                *)

SetOf(s) == {s[k] : k \in DOMAIN s}
Queued == SetOf(queue)
ApplyJob(h, n) == [kind |-> "apply", h |-> h, n |-> n]

\* The transactions of a queue are in the order of their deltas.
InOrder(q) ==
  \A j, k \in DOMAIN q : j <= k /\ q[j].kind = "apply" /\ q[k].kind = "apply" => q[j].n <= q[k].n

\* PGlite runs what it is given in order, so no transaction that waits is
\* older than one that has run.
QueueInv ==
  /\ InOrder(queue)
  /\ \A job \in Queued : job.n \in 1..Len(arrived)
  /\ \A h \in Handlers : \A n \in applied[h] :
       /\ n \in 1..Len(arrived)
       /\ \A job \in Queued : job.kind = "apply" => n <= job.n

\* A row is read back for an op that its subscriber has applied, and a
\* subscriber that was told something has applied something.
ReadInv ==
  /\ \A job \in Queued : job.kind = "read" =>
       /\ job.n \in applied[job.h]
       /\ job.i \in Relevant(job.n)
       /\ arrived[job.n][job.i].kind # "Delete"
  /\ \A h \in Subscribers : told[h] \subseteq applied[h]
  /\ \A h \in Subscribers : \A i \in Ids : view[h][i] # Null => applied[h] # {}

\* Who has not called subscribe() has no handler and has been given no delta.
CalledInv ==
  /\ \A h \in Registered \cap Subscribers : wiring = "transport" /\ h \in called
  /\ \A h \in Subscribers \ called : applied[h] = {} /\ \A job \in Queued : job.h # h

\* The deltas whose transaction h has run or has in the queue.
Started(h) == {n \in 1..Len(arrived) : n \in applied[h] \/ ApplyJob(h, n) \in Queued}

\* A subscriber that was given one delta was given every later one that
\* concerns the table.
HeardInv ==
  failures = 0 =>
    \A h \in Registered \cap Subscribers : \A n \in Started(h) : \A m \in n..Len(arrived) :
      Relevant(m) # {} => m \in Started(h)

\* h has yet to hear of an op on i: of a deletion, if the row is gone.
Pending(h, i) ==
  \E job \in Queued :
    /\ job.h = h
    /\ \E d \in Relevant(job.n) :
         /\ job.kind = "read" => d >= job.i
         /\ arrived[job.n][d].id = i
         /\ table[i] = Absent => arrived[job.n][d].kind = "Delete"

\* A row that a subscriber was told of is the row of the table, or an event
\* that corrects it is due.
ViewInv ==
  failures = 0 =>
    \A h \in Registered \cap Subscribers : \A i \in Ids :
      view[h][i] \notin {Absent, Null} /\ view[h][i] # table[i] => Pending(h, i)

Inv == TypeOK /\ QueueInv /\ ReadInv /\ CalledInv /\ HeardInv /\ ViewInv /\ LocalIsReplay

-----------------------------------------------------------------------------
(* The queue.                                                              *)

\* The head of the queue is run.
LEMMA QueueTail ==
  ASSUME NEW q \in Seq(Jobs), q # <<>>, InOrder(q)
  PROVE  /\ Tail(q) \in Seq(Jobs) /\ InOrder(Tail(q))
         /\ Head(q) \in SetOf(q) /\ Head(q) \in Jobs
         /\ SetOf(Tail(q)) \subseteq SetOf(q)
         /\ \A job \in SetOf(q) : job = Head(q) \/ job \in SetOf(Tail(q))
         /\ \A job \in SetOf(q) : Head(q).kind = "apply" /\ job.kind = "apply" => Head(q).n <= job.n
<1>1. /\ 1 \in DOMAIN q /\ Head(q) = q[1] /\ Head(q) \in Jobs /\ Tail(q) \in Seq(Jobs)
      /\ \A k \in DOMAIN Tail(q) : k + 1 \in DOMAIN q /\ Tail(q)[k] = q[k + 1]
      /\ \A k \in DOMAIN q : k # 1 => k - 1 \in DOMAIN Tail(q) /\ Tail(q)[k - 1] = q[k]
  BY ZenonT(30), HeadAndTail
<1>2. DOMAIN q \subseteq Nat /\ DOMAIN Tail(q) \subseteq Nat /\ \A k \in DOMAIN q : 1 <= k
  BY HeadAndTail
<1>3. \A j, k \in DOMAIN Tail(q) : j <= k => j + 1 <= k + 1
  BY <1>2
<1>4. InOrder(Tail(q))
  BY <1>1, <1>3 DEF InOrder
<1>5. SetOf(Tail(q)) \subseteq SetOf(q) /\ Head(q) \in SetOf(q)
  BY <1>1 DEF SetOf
<1>6. \A job \in SetOf(q) : job = Head(q) \/ job \in SetOf(Tail(q))
  <2>1. ASSUME NEW k \in DOMAIN q, k # 1 PROVE q[k] \in SetOf(Tail(q))
    <3>1. PICK l \in DOMAIN Tail(q) : Tail(q)[l] = q[k]
      BY ZenonT(30), <1>1, <2>1
    <3> QED
      BY ZenonT(30), <3>1 DEF SetOf
  <2>2. \A job \in SetOf(q) : \E k \in DOMAIN q : job = q[k]
    BY ZenonT(30) DEF SetOf
  <2> QED
    BY ZenonT(30), <1>1, <2>1, <2>2
<1>7. \A job \in SetOf(q) : Head(q).kind = "apply" /\ job.kind = "apply" => Head(q).n <= job.n
  <2>1. \A k \in DOMAIN q : q[1].kind = "apply" /\ q[k].kind = "apply" => q[1].n <= q[k].n
    BY ZenonT(30), <1>1, <1>2 DEF InOrder
  <2>2. \A k \in DOMAIN q : Head(q).kind = "apply" /\ q[k].kind = "apply" => Head(q).n <= q[k].n
    BY ZenonT(30), <1>1, <2>1
  <2> QED
    BY ZenonT(30), <2>2 DEF SetOf
<1> QED
  BY ZenonT(30), <1>1, <1>4, <1>5, <1>6, <1>7

\* A query is queued.
LEMMA QueueRead ==
  ASSUME NEW q \in Seq(Jobs), InOrder(q), NEW job \in Jobs, job.kind = "read"
  PROVE  /\ Append(q, job) \in Seq(Jobs) /\ InOrder(Append(q, job))
         /\ SetOf(Append(q, job)) = SetOf(q) \cup {job}
<1> DEFINE r == Append(q, job)
<1>1. /\ r \in Seq(Jobs) /\ Len(q) \in Nat
      /\ DOMAIN q = 1..Len(q) /\ DOMAIN r = 1..(Len(q) + 1)
      /\ \A k \in DOMAIN q : k \in DOMAIN r /\ r[k] = q[k]
      /\ r[Len(q) + 1] = job
  BY Appended
<1>2. \A k \in DOMAIN r : k \in DOMAIN q \/ k = Len(q) + 1
  BY <1>1
<1>3. Len(q) + 1 \in DOMAIN r
  BY <1>1
<1>4. job.kind # "apply"
  OBVIOUS
<1> HIDE DEF r
<1>5. InOrder(r)
  BY ZenonT(30), <1>1, <1>2, <1>4 DEF InOrder
<1>6. SetOf(r) = SetOf(q) \cup {job}
  BY ZenonT(30), <1>1, <1>2, <1>3 DEF SetOf
<1> QED
  BY ZenonT(30), <1>1, <1>5, <1>6 DEF r

\* The handlers' transactions of a delta are queued, after those of the deltas
\* before it.
LEMMA QueueApplies ==
  ASSUME NEW q \in Seq(Jobs), InOrder(q), NEW hs \in Seq(Handlers), NEW n \in 1..MaxDeltas,
         \A job \in SetOf(q) : job.n <= n
  PROVE  LET r == q \o [k \in DOMAIN hs |-> ApplyJob(hs[k], n)] IN
         /\ r \in Seq(Jobs) /\ InOrder(r)
         /\ SetOf(r) = SetOf(q) \cup {ApplyJob(h, n) : h \in SetOf(hs)}
<1> DEFINE b == [k \in DOMAIN hs |-> ApplyJob(hs[k], n)]
           r == q \o b
<1>1. /\ DOMAIN b = DOMAIN hs /\ DOMAIN b = 1..Len(hs) /\ Len(hs) \in Nat
      /\ \A k \in DOMAIN b : hs[k] \in Handlers /\ b[k] = ApplyJob(hs[k], n)
  OBVIOUS
<1>2. \A h \in Handlers : ApplyJob(h, n) \in Jobs /\ ApplyJob(h, n).n = n
  BY DEF ApplyJob, Jobs
<1>3. b \in Seq(Jobs)
  <2> DEFINE m == Len(hs)
  <2>1. m \in Nat /\ b = [k \in 1..m |-> b[k]] /\ \A k \in 1..m : b[k] \in Jobs
    BY ZenonT(30), <1>1, <1>2
  <2> HIDE DEF m, b
  <2> QED
    BY <2>1
<1> HIDE DEF b
<1>4. /\ r \in Seq(Jobs) /\ Len(q) \in Nat
      /\ DOMAIN q = 1..Len(q)
      /\ \A k \in DOMAIN q : k \in DOMAIN r /\ r[k] = q[k]
      /\ \A k \in DOMAIN b : Len(q) + k \in DOMAIN r /\ r[Len(q) + k] = b[k]
      /\ \A k \in DOMAIN r : k \in DOMAIN q \/ (k - Len(q) \in DOMAIN b /\ r[k] = b[k - Len(q)])
  BY <1>3, Joined
<1> HIDE DEF r
<1>5. InOrder(r)
  <2> SUFFICES ASSUME NEW j \in DOMAIN r, NEW k \in DOMAIN r,
                      j <= k, r[j].kind = "apply", r[k].kind = "apply"
               PROVE  r[j].n <= r[k].n
    BY ZenonT(30) DEF InOrder
  <2>1. n <= n
    OBVIOUS
  <2>2. \A l \in DOMAIN r : l \notin DOMAIN q => r[l].n = n
    <3>1. \A k1 \in DOMAIN b : b[k1].n = n
      BY ZenonT(30), <1>1, <1>2
    <3>2. \A l \in DOMAIN r : l \notin DOMAIN q => \E k1 \in DOMAIN b : r[l] = b[k1]
      BY ZenonT(30), <1>4
    <3> QED
      BY ZenonT(30), <3>1, <3>2
  <2>3. \A l \in DOMAIN r : r[l].n <= n
    BY ZenonT(30), <1>4, <2>1, <2>2 DEF SetOf
  <2>4. CASE k \in DOMAIN q /\ j \in DOMAIN q
    BY ZenonT(30), <1>4, <2>4 DEF InOrder
  <2>5. CASE k \notin DOMAIN q
    BY ZenonT(30), <2>2, <2>3, <2>5
  <2>6. CASE k \in DOMAIN q /\ j \notin DOMAIN q
    <3>1. j - Len(q) \in 1..Len(hs) /\ k \in 1..Len(q) /\ Len(q) \in Nat /\ Len(hs) \in Nat
      BY ZenonT(30), <1>1, <1>4, <2>6
    <3>2. DOMAIN r \subseteq Nat
      BY ZenonT(30), <1>4, SeqDomain
    <3>3. j \in Nat
      BY ZenonT(30), <3>2
    <3> QED
      BY ONLY <3>1, <3>3, j <= k, SMTT(30)
  <2> QED
    BY ZenonT(30), <2>4, <2>5, <2>6
<1>6. SetOf(r) = SetOf(q) \cup SetOf(b)
  BY <1>4 DEF SetOf
<1>7. SetOf(b) = {ApplyJob(h, n) : h \in SetOf(hs)}
  BY ZenonT(30), <1>1 DEF SetOf
<1> QED
  BY ZenonT(30), <1>4, <1>5, <1>6, <1>7 DEF r, b

-----------------------------------------------------------------------------
(* What Inv says, in the form in which the actions use it.                 *)

\* The types of the variables one by one, and the set the table is of.
LEMMA InvTypes ==
  ASSUME Inv
  PROVE  /\ arrived \in Seq(Seq(Op)) /\ Len(arrived) \in Nat /\ Len(arrived) <= MaxDeltas
         /\ \A n \in 1..Len(arrived) : arrived[n] \in Seq(Op) /\ n \in 1..MaxDeltas
         /\ queue \in Seq(Jobs) /\ InOrder(queue)
         /\ table \in Tables
         /\ view \in [Subscribers -> [Ids -> LocalRow \cup {Absent, Null}]]
         /\ applied \in [Handlers -> SUBSET (1..MaxDeltas)]
         /\ told \in [Subscribers -> SUBSET (1..MaxDeltas)]
         /\ handlers \in Seq(Handlers) /\ failures \in 0..MaxFailures
<1>1. TypeOK
  BY ZenonT(30) DEF Inv
<1>2. arrived \in Seq(Seq(Op)) /\ Len(arrived) \in Nat /\ Len(arrived) <= MaxDeltas
  BY <1>1 DEF TypeOK
<1>3. \A n \in 1..Len(arrived) : arrived[n] \in Seq(Op) /\ n \in 1..MaxDeltas
  BY <1>2, ReplicaAssumption
<1>4. table \in Tables
  <2> DEFINE D == UNION {applied[h] : h \in Handlers}
  <2>1. table = Replays(arrived, D)[Len(arrived)]
    BY ZenonT(30) DEF Inv, LocalIsReplay, Replay
  <2>2. IsReplay(Replays(arrived, D), arrived, D)
    BY ZenonT(30), <1>2, ReplaysEquations
  <2>3. Len(arrived) \in 0..Len(arrived)
    BY <1>2
  <2> HIDE DEF D
  <2> QED
    BY ZenonT(30), <2>1, <2>2, <2>3 DEF IsReplay
<1> QED
  BY ZenonT(30), <1>1, <1>2, <1>3, <1>4 DEF Inv, TypeOK, QueueInv

\* The ops of a delta.
LEMMA RelevantOps ==
  ASSUME Inv, NEW n \in 1..Len(arrived)
  PROVE  /\ DOMAIN arrived[n] = 1..Len(arrived[n])
         /\ Relevant(n) \subseteq Nat
         /\ \A d \in Relevant(n) : arrived[n][d] \in Op /\ arrived[n][d].id \in Ids /\ d \in 1..Len(arrived[n])
         /\ \A d \in 1..Len(arrived[n]), i \in Ids :
              Touches(arrived[n][d], i) <=> d \in Relevant(n) /\ arrived[n][d].id = i
<1>1. arrived[n] \in Seq(Op)
  BY ZenonT(30), InvTypes
<1>2. DOMAIN arrived[n] = 1..Len(arrived[n]) /\ DOMAIN arrived[n] \subseteq Nat
      /\ \A d \in DOMAIN arrived[n] : arrived[n][d] \in Op
  BY <1>1
<1>3. \A op \in Op : op.id \in Ids
  BY ZenonT(30) DEF Op
<1> QED
  BY ZenonT(30), <1>2, <1>3 DEF Relevant, Touches

ReadJob(h, n, d) == [kind |-> "read", h |-> h, n |-> n, i |-> d]

\* handleOps goes on: the queue loses its head, and has the next query if an op
\* needs one; every op from i on has had its event, or its query is due.
Notified(h, n, i, updated) ==
  /\ queue' \in Seq(Jobs) /\ InOrder(queue')
  /\ SetOf(Tail(queue)) \subseteq SetOf(queue')
  /\ \A job \in SetOf(queue') : job \in SetOf(Tail(queue)) \/
       \E d \in Relevant(n) : job = ReadJob(h, n, d) /\ arrived[n][d].kind # "Delete"
  /\ \A d \in Relevant(n) : d >= i =>
       view'[h][arrived[n][d].id] = Absent \/
       \E e \in Relevant(n) : d >= e /\ ReadJob(h, n, e) \in SetOf(queue')
  /\ view' \in [Subscribers -> [Ids -> LocalRow \cup {Absent, Null}]]
  /\ \A g \in Subscribers : g # h => view'[g] = view[g]
  /\ \A x \in Ids : \/ view'[h][x] = Absent
                    \/ x \in updated /\ view'[h][x] = table[x]
                    \/ x \notin updated /\ view'[h][x] = view[h][x]
  /\ told' \in [Subscribers -> SUBSET (1..MaxDeltas)]
  /\ \A g \in Subscribers : g # h => told'[g] = told[g]
  /\ told'[h] \subseteq told[h] \cup {n}

\* Notify is a step of that kind.
LEMMA NotifyStep ==
  ASSUME Inv, queue # <<>>, NEW h \in Subscribers, NEW n \in 1..Len(arrived), NEW i,
         NEW updated \in SUBSET Ids, Notify(h, n, i, updated)
  PROVE  Notified(h, n, i, updated)
<1> DEFINE rest == {k \in Relevant(n) : k >= i}
           reads == {k \in rest : arrived[n][k].kind # "Delete"}
           deleted == {arrived[n][k].id : k \in {d \in rest : \A r \in reads : d < r}}
           seen == [x \in Ids |-> IF x \in deleted THEN Absent
                                  ELSE IF x \in updated THEN table[x] ELSE view[h][x]]
           heard == IF deleted \cup updated # {} THEN told[h] \cup {n} ELSE told[h]
<1>1. /\ queue \in Seq(Jobs) /\ InOrder(queue) /\ table \in Tables /\ n \in 1..MaxDeltas
      /\ view \in [Subscribers -> [Ids -> LocalRow \cup {Absent, Null}]]
      /\ told \in [Subscribers -> SUBSET (1..MaxDeltas)]
  BY ZenonT(30), InvTypes
<1>2. /\ view' = [view EXCEPT ![h] = seen] /\ told' = [told EXCEPT ![h] = heard]
  BY ZenonT(30), <1>1 DEF Notify
<1>3. \/ reads = {} /\ queue' = Tail(queue)
      \/ \E next \in reads : (\A r \in reads : next <= r) /\ queue' = Append(Tail(queue), ReadJob(h, n, next))
  BY ZenonT(30) DEF Notify, ReadJob
<1>4. Tail(queue) \in Seq(Jobs) /\ InOrder(Tail(queue))
  BY ZenonT(30), <1>1, QueueTail
<1>5. Relevant(n) \subseteq Nat
  BY ZenonT(30), RelevantOps
<1>6. ASSUME NEW d \in Relevant(n) PROVE ReadJob(h, n, d) \in Jobs /\ ReadJob(h, n, d).kind = "read"
  BY <1>1, <1>5 DEF ReadJob, Jobs
<1>7. /\ queue' \in Seq(Jobs) /\ InOrder(queue')
      /\ SetOf(Tail(queue)) \subseteq SetOf(queue')
      /\ \A job \in SetOf(queue') : job \in SetOf(Tail(queue)) \/
           \E d \in Relevant(n) : job = ReadJob(h, n, d) /\ arrived[n][d].kind # "Delete"
  <2>1. CASE queue' = Tail(queue)
    BY ZenonT(30), <1>4, <2>1
  <2>2. ASSUME NEW next \in reads, queue' = Append(Tail(queue), ReadJob(h, n, next))
        PROVE  /\ queue' \in Seq(Jobs) /\ InOrder(queue')
               /\ SetOf(Tail(queue)) \subseteq SetOf(queue')
               /\ \A job \in SetOf(queue') : job \in SetOf(Tail(queue)) \/
                    \E d \in Relevant(n) : job = ReadJob(h, n, d) /\ arrived[n][d].kind # "Delete"
    <3>1. next \in Relevant(n) /\ arrived[n][next].kind # "Delete"
      BY ZenonT(30)
    <3>2. /\ queue' \in Seq(Jobs) /\ InOrder(queue')
          /\ SetOf(queue') = SetOf(Tail(queue)) \cup {ReadJob(h, n, next)}
      BY ZenonT(30), <1>4, <1>6, <2>2, <3>1, QueueRead
    <3> QED
      BY ZenonT(30), <3>1, <3>2
  <2> QED
    BY ZenonT(30), <1>3, <2>1, <2>2
<1>8. ASSUME NEW d \in Relevant(n), d >= i
      PROVE  view'[h][arrived[n][d].id] = Absent \/
             \E e \in Relevant(n) : d >= e /\ ReadJob(h, n, e) \in SetOf(queue')
  <2>1. d \in rest
    BY ZenonT(30), <1>8
  <2>2. CASE \A r \in reads : d < r
    <3>1. arrived[n][d].id \in deleted
      BY ZenonT(30), <2>1, <2>2
    <3>2. arrived[n][d].id \in Ids
      BY ZenonT(30), RelevantOps
    <3>3. view'[h] = seen
      BY ZenonT(30), <1>1, <1>2
    <3> QED
      BY ZenonT(30), <3>1, <3>2, <3>3
  <2>3. CASE \E r \in reads : ~(d < r)
    <3>1. PICK r \in reads : ~(d < r)
      BY ZenonT(30), <2>3
    <3>2. PICK next \in reads : (\A l \in reads : next <= l) /\ queue' = Append(Tail(queue), ReadJob(h, n, next))
      BY ZenonT(30), <1>3, <3>1
    <3>3. next \in Nat /\ r \in Nat /\ d \in Nat /\ next \in Relevant(n)
      BY ZenonT(30), <1>5
    <3>4. next <= r
      BY ZenonT(30), <3>2
    <3>5. d >= next
      BY ONLY <3>1, <3>3, <3>4, SMTT(30)
    <3>6. ReadJob(h, n, next) \in SetOf(queue')
      <4>1. SetOf(Append(Tail(queue), ReadJob(h, n, next))) = SetOf(Tail(queue)) \cup {ReadJob(h, n, next)}
        BY ZenonT(30), <1>4, <1>6, <3>3, QueueRead
      <4> QED
        BY ZenonT(30), <3>2, <4>1
    <3> QED
      BY ZenonT(30), <3>3, <3>5, <3>6
  <2> QED
    BY ZenonT(30), <2>2, <2>3
<1>9. \A x \in Ids : table[x] \in LocalRow \cup {Absent} /\ view[h][x] \in LocalRow \cup {Absent, Null}
  BY ZenonT(30), <1>1 DEF Tables
<1> HIDE DEF deleted
<1>10. seen \in [Ids -> LocalRow \cup {Absent, Null}]
  BY ZenonT(30), <1>9
<1>11. \A x \in Ids : \/ seen[x] = Absent
                      \/ x \in updated /\ seen[x] = table[x]
                      \/ x \notin updated /\ seen[x] = view[h][x]
  BY ZenonT(30)
<1>12. heard \in SUBSET (1..MaxDeltas) /\ heard \subseteq told[h] \cup {n}
  BY ZenonT(30), <1>1
<1> HIDE DEF seen, heard
<1>13. /\ view' \in [Subscribers -> [Ids -> LocalRow \cup {Absent, Null}]]
       /\ view'[h] = seen
       /\ \A g \in Subscribers : g # h => view'[g] = view[g]
  BY ZenonT(30), <1>1, <1>2, <1>10
<1>14. /\ told' \in [Subscribers -> SUBSET (1..MaxDeltas)]
       /\ told'[h] = heard
       /\ \A g \in Subscribers : g # h => told'[g] = told[g]
  BY ZenonT(30), <1>1, <1>2, <1>12
<1> QED
  BY ZenonT(30), <1>7, <1>8, <1>11, <1>12, <1>13, <1>14 DEF Notified

-----------------------------------------------------------------------------
(* The invariant is kept: calls of the application.                        *)

\* A step that leaves deltas, queue, table and events alone, and registers
\* only who has not called before.
LEMMA QuietStep ==
  ASSUME Inv, TypeOK', UNCHANGED <<arrived, queue, table, view, applied, told, failures>>,
         called \subseteq called',
         \A h \in Registered' \cap Subscribers :
           wiring' = "transport" /\ h \in called' /\ (h \in Registered \/ h \notin called)
  PROVE  Inv'
<1>1. /\ Queued' = Queued
      /\ \A n : Relevant(n)' = Relevant(n)
      /\ \A h : Started(h)' = Started(h)
  BY ZenonT(30) DEF Queued, Relevant, Started
<1>2. \A h, i : Pending(h, i)' = Pending(h, i)
  BY ZenonT(30), <1>1 DEF Pending
<1>3. QueueInv' /\ ReadInv' /\ LocalIsReplay'
  <2>1. QueueInv'
    BY ZenonT(30), <1>1 DEF Inv, QueueInv
  <2>2. ReadInv'
    BY ZenonT(30), <1>1 DEF Inv, ReadInv
  <2>3. LocalIsReplay'
    BY ZenonT(30) DEF Inv, LocalIsReplay, Replay
  <2> QED
    BY ZenonT(30), <2>1, <2>2, <2>3
<1>4. CalledInv'
  BY ZenonT(30), <1>1 DEF Inv, CalledInv
<1>5. ASSUME NEW h \in Subscribers \ called
      PROVE  Started(h) = {} /\ \A i \in Ids : view[h][i] = Null
  <2>1. applied[h] = {} /\ \A job \in Queued : job.h # h
    BY ZenonT(30) DEF Inv, CalledInv
  <2>2. \A n : ApplyJob(h, n) \notin Queued
    <3>1. \A n : ApplyJob(h, n).h = h
      BY DEF ApplyJob
    <3> QED
      BY ZenonT(30), <2>1, <3>1
  <2>3. \A i \in Ids : view[h][i] = Null
    BY ZenonT(30), <2>1 DEF Inv, ReadInv
  <2> QED
    BY ZenonT(30), <2>1, <2>2, <2>3 DEF Started
<1>6. HeardInv'
  <2> SUFFICES ASSUME failures = 0, NEW h \in Registered' \cap Subscribers, NEW n \in Started(h),
                      NEW m \in n..Len(arrived), Relevant(m) # {}
               PROVE  m \in Started(h)
    BY ZenonT(30), <1>1 DEF HeardInv
  <2>1. h \in Registered
    BY ZenonT(30), <1>5
  <2> QED
    BY ZenonT(30), <2>1 DEF Inv, HeardInv
<1>7. ViewInv'
  <2> SUFFICES ASSUME failures = 0, NEW h \in Registered' \cap Subscribers, NEW i \in Ids,
                      view[h][i] \notin {Absent, Null}, view[h][i] # table[i]
               PROVE  Pending(h, i)
    BY ZenonT(30), <1>2 DEF ViewInv
  <2>1. h \in Registered
    BY ZenonT(30), <1>5
  <2> QED
    BY ZenonT(30), <2>1 DEF Inv, ViewInv
<1> QED
  BY ZenonT(30), <1>3, <1>4, <1>6, <1>7 DEF Inv

\* subscribe().
LEMMA SubscribeInv ==
  ASSUME Inv, NEW h \in Subscribers, Subscribe(h)
  PROVE  Inv'
<1>1. /\ wiring = "transport" /\ h \notin called /\ called' = called \cup {h}
      /\ handlers' = Append(handlers, h)
      /\ UNCHANGED <<wiring, paused, arrived, queue, table, view, applied, told, failures>>
  BY ZenonT(30) DEF Subscribe
<1>2. handlers \in Seq(Handlers) /\ h \in Handlers
  BY ZenonT(30), InvTypes DEF Handlers
<1>3. /\ handlers' \in Seq(Handlers)
      /\ \A g \in Registered' : g \in Registered \/ g = h
  <2>1. /\ handlers' \in Seq(Handlers) /\ Len(handlers) \in Nat
        /\ DOMAIN handlers = 1..Len(handlers) /\ DOMAIN handlers' = 1..(Len(handlers) + 1)
        /\ \A k \in DOMAIN handlers : handlers'[k] = handlers[k]
        /\ handlers'[Len(handlers) + 1] = h
    BY <1>1, <1>2, Appended
  <2>2. \A k \in DOMAIN handlers' : k \in DOMAIN handlers \/ k = Len(handlers) + 1
    BY <2>1
  <2> QED
    BY ZenonT(30), <2>1, <2>2 DEF Registered
<1>4. TypeOK'
  BY ZenonT(30), <1>1, <1>2, <1>3 DEF Inv, TypeOK
<1>5. \A g \in Registered \cap Subscribers : wiring = "transport" /\ g \in called
  BY ZenonT(30) DEF Inv, CalledInv
<1> QED
  BY ZenonT(30), <1>1, <1>3, <1>4, <1>5, QuietStep

\* The function that subscribe() returned is called.
LEMMA UnsubscribeInv ==
  ASSUME Inv, NEW h \in Subscribers, Unsubscribe(h)
  PROVE  Inv'
<1>1. PICK p \in DOMAIN handlers :
        handlers' = [k \in 1..(Len(handlers) - 1) |-> IF k < p THEN handlers[k] ELSE handlers[k + 1]]
  BY ZenonT(30) DEF Unsubscribe
<1>2. UNCHANGED <<wiring, called, paused, arrived, queue, table, view, applied, told, failures>>
  BY ZenonT(30) DEF Unsubscribe
<1>3. handlers \in Seq(Handlers)
  BY ZenonT(30), InvTypes
<1>4. /\ handlers' \in Seq(Handlers)
      /\ \A k \in DOMAIN handlers' : \E l \in DOMAIN handlers : handlers'[k] = handlers[l]
  <2> DEFINE m == Len(handlers) - 1
  <2>1. /\ m \in Nat /\ DOMAIN handlers = 1..(m + 1) /\ DOMAIN handlers' = 1..m
        /\ \A k \in 1..m : handlers'[k] = IF k < p THEN handlers[k] ELSE handlers[k + 1]
    BY <1>1, <1>3
  <2>2. \A k \in 1..m : k \in 1..(m + 1) /\ k + 1 \in 1..(m + 1)
    BY <2>1
  <2>3. \A k \in DOMAIN handlers' : \E l \in DOMAIN handlers : handlers'[k] = handlers[l]
    BY ZenonT(30), <2>1, <2>2
  <2>4. \A l \in DOMAIN handlers : handlers[l] \in Handlers
    BY ZenonT(30), <1>3, SeqDomain
  <2>5. handlers' = [k \in 1..m |-> handlers'[k]] /\ \A k \in 1..m : handlers'[k] \in Handlers
    BY ZenonT(30), <1>1, <2>1, <2>3, <2>4
  <2> HIDE DEF m
  <2>6. handlers' \in Seq(Handlers)
    BY ONLY <2>1, <2>5, SMTT(30)
  <2> QED
    BY ZenonT(30), <2>3, <2>6
<1>5. Registered' \subseteq Registered
  BY ZenonT(30), <1>4 DEF Registered
<1>6. TypeOK'
  BY ZenonT(30), <1>2, <1>4 DEF Inv, TypeOK
<1>7. \A g \in Registered \cap Subscribers : wiring = "transport" /\ g \in called
  BY ZenonT(30) DEF Inv, CalledInv
<1> QED
  BY ZenonT(30), <1>2, <1>5, <1>6, <1>7, QuietStep

\* subscribeBucket(), pause(), resume(), list() and get(), and steps of others.
LEMMA OtherCallsInv ==
  ASSUME Inv, SubscribeBucket \/ PauseResume \/ ListOrGet \/ UNCHANGED vars
  PROVE  Inv'
<1>1. \A g \in Registered \cap Subscribers : wiring = "transport" /\ g \in called
  BY ZenonT(30) DEF Inv, CalledInv
<1>2. /\ UNCHANGED <<wiring, handlers, arrived, queue, table, view, applied, told, failures>>
      /\ called \subseteq called'
  BY ZenonT(30) DEF SubscribeBucket, PauseResume, ListOrGet, vars
<1>3. TypeOK'
  <2>1. TypeOK
    BY ZenonT(30) DEF Inv
  <2>2. CASE SubscribeBucket
    BY ZenonT(30), <2>1, <2>2 DEF TypeOK, SubscribeBucket, Handlers
  <2>3. CASE PauseResume
    BY ZenonT(30), <2>1, <2>3 DEF TypeOK, PauseResume
  <2>4. CASE ListOrGet
    BY ZenonT(30), <2>1, <2>4 DEF TypeOK, ListOrGet
  <2>5. CASE UNCHANGED vars
    BY ZenonT(30), <2>1, <2>5 DEF TypeOK, vars
  <2> QED
    BY ZenonT(30), <2>2, <2>3, <2>4, <2>5
<1>4. Registered' = Registered
  BY ZenonT(30), <1>2 DEF Registered
<1> QED
  BY ZenonT(30), <1>1, <1>2, <1>3, <1>4, QuietStep

-----------------------------------------------------------------------------
(* The invariant is kept: a delta arrives.                                 *)

\* The client hands a delta to the handlers.
LEMMA DeltaInv ==
  ASSUME Inv, NEW batch \in Batches, Delta(batch)
  PROVE  Inv'
<1> DEFINE n == Len(arrived) + 1
           stamped == [i \in DOMAIN batch |-> [table |-> batch[i].table, id |-> batch[i].id,
                                               kind |-> batch[i].kind, value |-> <<n, i>>]]
           starts == IF wiring = "extension" THEN ~paused
                     ELSE \E i \in DOMAIN batch : batch[i].table = LocalTable
           active == IF starts THEN handlers ELSE <<>>
<1>1. /\ n <= MaxDeltas /\ arrived' = Append(arrived, stamped)
      /\ queue' = queue \o [k \in DOMAIN active |-> ApplyJob(active[k], n)]
      /\ UNCHANGED <<wiring, called, handlers, paused, table, view, applied, told, failures>>
  BY ZenonT(30) DEF Delta, ApplyJob
<1>2. /\ arrived \in Seq(Seq(Op)) /\ Len(arrived) \in Nat /\ queue \in Seq(Jobs) /\ InOrder(queue)
      /\ handlers \in Seq(Handlers)
  BY ZenonT(30), InvTypes
<1>3. n \in Nat /\ n \in 1..MaxDeltas
  BY <1>1, <1>2, ReplicaAssumption
<1>4. stamped \in Seq(Op) /\ DOMAIN stamped = DOMAIN batch
      /\ \A i \in DOMAIN batch : stamped[i].table = batch[i].table
  <2> DEFINE B == [table : STRING, id : Ids, kind : Kinds]
             l == Len(batch)
  <2>1. batch \in Seq(B)
    BY ZenonT(30), ReplicaAssumption
  <2>2. l \in Nat /\ DOMAIN batch = 1..l /\ \A i \in 1..l : batch[i] \in B
    BY ZenonT(30), <2>1, SeqDomain
  <2>3. ASSUME NEW i \in 1..l
        PROVE  stamped[i] \in Op /\ stamped[i].table = batch[i].table
    <3>1. batch[i].table \in STRING /\ batch[i].id \in Ids /\ batch[i].kind \in Kinds
      BY <2>2
    <3>2. <<n, i>> \in Value
      BY <1>3, <2>2 DEF Value
    <3>3. stamped[i] = [table |-> batch[i].table, id |-> batch[i].id,
                        kind |-> batch[i].kind, value |-> <<n, i>>]
      BY ZenonT(30), <2>2
    <3> HIDE DEF n, stamped
    <3> QED
      BY <3>1, <3>2, <3>3 DEF Op
  <2>4. DOMAIN stamped = 1..l /\ stamped = [i \in 1..l |-> stamped[i]]
    BY ZenonT(30), <2>2
  <2> HIDE DEF stamped, l, B
  <2>5. stamped \in Seq(Op)
    BY ONLY <2>2, <2>3, <2>4, SMTT(30)
  <2> QED
    BY ZenonT(30), <2>2, <2>3, <2>4, <2>5
<1> HIDE DEF stamped
<1>5. /\ arrived' \in Seq(Seq(Op)) /\ Len(arrived') = n
      /\ \A m \in 1..Len(arrived) : arrived'[m] = arrived[m]
      /\ arrived'[n] = stamped
  <2>1. /\ Append(arrived, stamped) \in Seq(Seq(Op)) /\ Len(Append(arrived, stamped)) = n
        /\ DOMAIN arrived = 1..Len(arrived)
        /\ \A m \in DOMAIN arrived : Append(arrived, stamped)[m] = arrived[m]
        /\ Append(arrived, stamped)[n] = stamped
    BY <1>2, <1>4, Appended
  <2> HIDE DEF n
  <2> QED
    BY ZenonT(30), <1>1, <2>1
<1>6. \A m \in 1..Len(arrived) : m \in 1..n /\ m <= n /\ m # n
  BY <1>2
<1>7. \A m \in 1..n : m \in 1..Len(arrived) \/ m = n
  BY <1>2
<1>8. \A job \in Queued : job.n \in 1..Len(arrived)
  BY ZenonT(30) DEF Inv, QueueInv
<1>9. active \in Seq(Handlers) /\ SetOf(active) \subseteq Registered
  <2>1. CASE starts
    BY ZenonT(30), <1>2, <2>1 DEF Registered, SetOf
  <2>2. CASE ~starts
    <3>1. active = <<>> /\ <<>> \in Seq(Handlers) /\ DOMAIN <<>> = {}
      BY <2>2
    <3> QED
      BY ZenonT(30), <3>1 DEF SetOf
  <2> QED
    BY ZenonT(30), <2>1, <2>2
<1>10. starts => SetOf(active) = Registered
  BY ZenonT(30) DEF Registered, SetOf
<1> HIDE DEF active, starts
<1>11. /\ queue' \in Seq(Jobs) /\ InOrder(queue')
       /\ SetOf(queue') = SetOf(queue) \cup {ApplyJob(h, n) : h \in SetOf(active)}
  <2>1. \A job \in SetOf(queue) : job.n <= n
    BY ZenonT(30), <1>6, <1>8 DEF Queued
  <2> HIDE DEF n
  <2> QED
    BY ZenonT(30), <1>1, <1>2, <1>3, <1>9, <2>1, QueueApplies
<1>12. \A h : ApplyJob(h, n).kind = "apply" /\ ApplyJob(h, n).h = h /\ ApplyJob(h, n).n = n
  BY DEF ApplyJob
<1>13. Queued \subseteq Queued' /\ \A job \in Queued' : job \in Queued \/
         \E h \in SetOf(active) : job = ApplyJob(h, n)
  BY ZenonT(30), <1>11 DEF Queued
<1>14. \A m \in 1..Len(arrived) : Relevant(m)' = Relevant(m) /\ arrived'[m] = arrived[m]
  BY ZenonT(30), <1>5 DEF Relevant
<1>15. Registered' = Registered
  BY ZenonT(30), <1>1 DEF Registered
<1>16. TypeOK'
  <2>1. Len(arrived)' <= MaxDeltas
    BY ZenonT(30), <1>1, <1>5
  <2> QED
    BY ZenonT(30), <1>1, <1>5, <1>11, <2>1 DEF Inv, TypeOK
<1>17. QueueInv'
  <2>1. n \in 1..n
    BY <1>3
  <2> HIDE DEF n
  <2>2. \A job \in Queued' : job \in Queued \/ job.n = n
    BY ZenonT(30), <1>12, <1>13
  <2>3. \A job \in Queued' : job.n \in 1..n
    BY ZenonT(30), <1>6, <1>8, <2>1, <2>2
  <2>4. ASSUME NEW h \in Handlers, NEW m \in applied'[h]
        PROVE  /\ m \in 1..Len(arrived')
               /\ \A job \in Queued' : job.kind = "apply" => m <= job.n
    <3>1. m \in 1..Len(arrived) /\ \A job \in Queued : job.kind = "apply" => m <= job.n
      BY ZenonT(30), <1>1 DEF Inv, QueueInv
    <3> QED
      BY ZenonT(30), <1>5, <1>6, <2>2, <3>1
  <2> QED
    BY ZenonT(30), <1>5, <1>11, <2>3, <2>4 DEF QueueInv
<1>18. ReadInv'
  <2>1. ASSUME NEW job \in Queued', job.kind = "read"
        PROVE  /\ job.n \in applied[job.h]
               /\ job.i \in Relevant(job.n)'
               /\ arrived'[job.n][job.i].kind # "Delete"
    <3>1. job \in Queued
      BY ZenonT(30), <1>12, <1>13, <2>1
    <3> QED
      BY ZenonT(30), <1>8, <1>14, <2>1, <3>1 DEF Inv, ReadInv
  <2> QED
    BY ZenonT(30), <1>1, <2>1 DEF Inv, ReadInv
<1>19. CalledInv'
  <2>1. \A h \in Registered \cap Subscribers : wiring = "transport" /\ h \in called
    BY ZenonT(30) DEF Inv, CalledInv
  <2>2. ASSUME NEW h \in Subscribers \ called, NEW job \in Queued' PROVE job.h # h
    <3>1. CASE job \in Queued
      BY ZenonT(30), <3>1 DEF Inv, CalledInv
    <3>2. CASE \E g \in SetOf(active) : job = ApplyJob(g, n)
      BY ZenonT(30), <1>9, <1>12, <2>1, <3>2
    <3> QED
      BY ZenonT(30), <1>13, <3>1, <3>2
  <2>3. \A h \in Subscribers \ called : applied[h] = {}
    BY ZenonT(30) DEF Inv, CalledInv
  <2> QED
    BY ZenonT(30), <1>1, <1>15, <2>1, <2>2, <2>3 DEF CalledInv
<1>20. LocalIsReplay'
  <2> DEFINE D == UNION {applied[h] : h \in Handlers}
  <2>1. D \in SUBSET (1..Len(arrived))
    BY ZenonT(30) DEF Inv, QueueInv
  <2>2. table = Replays(arrived, D)[Len(arrived)]
    BY ZenonT(30) DEF Inv, LocalIsReplay, Replay
  <2>3. D' = D
    BY ZenonT(30), <1>1
  <2> HIDE DEF D
  <2>4. Replays(arrived', D)[Len(arrived')] = Replays(arrived, D)[Len(arrived)]
    BY ZenonT(30), <1>1, <1>2, <1>4, <2>1, ReplayArrived
  <2>5. table' = Replays(arrived', D')[Len(arrived')]
    BY ZenonT(30), <1>1, <2>2, <2>3, <2>4
  <2> QED
    BY ZenonT(30), <2>5 DEF D, LocalIsReplay, Replay
<1>21. HeardInv'
  <2> SUFFICES ASSUME failures = 0, NEW h \in Registered \cap Subscribers, NEW a \in Started(h)',
                      NEW m \in a..n, Relevant(m)' # {}
               PROVE  m \in Started(h)'
    BY ZenonT(30), <1>1, <1>5, <1>15 DEF HeardInv
  <2>1. Started(h) \subseteq Started(h)'
    BY ZenonT(30), <1>1, <1>5, <1>6, <1>13 DEF Started
  <2>2. a \in 1..n
    BY ZenonT(30), <1>5 DEF Started
  <2>3. CASE m = n
    <3>1. \E i \in DOMAIN batch : batch[i].table = LocalTable
      <4>1. PICK i \in DOMAIN arrived'[n] : arrived'[n][i].table = LocalTable
        BY ZenonT(30), <2>3 DEF Relevant
      <4> QED
        BY ZenonT(30), <1>4, <1>5, <4>1
    <3>2. wiring = "transport"
      BY ZenonT(30) DEF Inv, CalledInv
    <3>3. starts
      BY ZenonT(30), <3>1, <3>2 DEF starts
    <3>4. ApplyJob(h, n) \in Queued'
      BY ZenonT(30), <1>10, <1>11, <3>3 DEF Queued
    <3>5. n \in 1..Len(arrived')
      BY <1>3, <1>5
    <3> QED
      BY ZenonT(30), <2>3, <3>4, <3>5 DEF Started
  <2>4. CASE m # n
    <3>1. m \in 1..Len(arrived) /\ a \in 1..Len(arrived) /\ m \in a..Len(arrived) /\ a # n
      BY <1>2, <2>2, <2>4
    <3>2. a \in Started(h)
      <4>1. ApplyJob(h, a) \in Queued' => ApplyJob(h, a) \in Queued
        <5>1. ApplyJob(h, a).n = a
          BY DEF ApplyJob
        <5> QED
          BY ZenonT(30), <1>12, <1>13, <3>1, <5>1
      <4> QED
        BY ZenonT(30), <1>1, <3>1, <4>1 DEF Started
    <3>3. Relevant(m) # {}
      BY ZenonT(30), <1>14, <3>1
    <3> QED
      BY ZenonT(30), <2>1, <3>1, <3>2, <3>3 DEF Inv, HeardInv
  <2> QED
    BY ZenonT(30), <2>3, <2>4
<1>22. ViewInv'
  <2> SUFFICES ASSUME failures = 0, NEW h \in Registered \cap Subscribers, NEW i \in Ids,
                      view[h][i] \notin {Absent, Null}, view[h][i] # table[i]
               PROVE  Pending(h, i)'
    BY ZenonT(30), <1>1, <1>15 DEF ViewInv
  <2>1. PICK job \in Queued :
          /\ job.h = h
          /\ \E d \in Relevant(job.n) :
               /\ job.kind = "read" => d >= job.i
               /\ arrived[job.n][d].id = i
               /\ table[i] = Absent => arrived[job.n][d].kind = "Delete"
    <3>1. Pending(h, i)
      BY ZenonT(30) DEF Inv, ViewInv
    <3> QED
      BY ZenonT(30), <3>1 DEF Pending
  <2>2. job \in Queued' /\ Relevant(job.n)' = Relevant(job.n) /\ arrived'[job.n] = arrived[job.n]
    BY ZenonT(30), <1>8, <1>13, <1>14
  <2> QED
    BY ZenonT(30), <1>1, <2>1, <2>2 DEF Pending
<1> QED
  BY ZenonT(30), <1>16, <1>17, <1>18, <1>19, <1>20, <1>21, <1>22 DEF Inv

-----------------------------------------------------------------------------
(* The invariant is kept: the database runs the head of its queue.         *)

\* What is known of the head of the queue.
LEMMA HeadJob ==
  ASSUME Inv, queue # <<>>
  PROVE  LET job == Head(queue) IN
         /\ job \in Queued /\ job.n \in 1..Len(arrived) /\ job.h \in Handlers
         /\ SetOf(Tail(queue)) \subseteq Queued
         /\ \A j \in Queued : j = job \/ j \in SetOf(Tail(queue))
         /\ Tail(queue) \in Seq(Jobs) /\ InOrder(Tail(queue))
         /\ job.kind \in {"apply", "read"}
         /\ job.kind = "apply" =>
              /\ job = ApplyJob(job.h, job.n)
              /\ \A j \in Queued : j.kind = "apply" => job.n <= j.n
              /\ \A h \in Handlers : \A n \in applied[h] : n <= job.n
         /\ job.kind = "read" =>
              /\ job.h \in Subscribers /\ job.n \in applied[job.h] /\ job.i \in Relevant(job.n)
              /\ arrived[job.n][job.i].kind # "Delete"
<1> DEFINE job == Head(queue)
<1>1. queue \in Seq(Jobs) /\ InOrder(queue)
  BY ZenonT(30), InvTypes
<1>2. /\ job \in Queued /\ job \in Jobs
      /\ SetOf(Tail(queue)) \subseteq Queued
      /\ \A j \in Queued : j = job \/ j \in SetOf(Tail(queue))
      /\ Tail(queue) \in Seq(Jobs) /\ InOrder(Tail(queue))
      /\ \A j \in Queued : job.kind = "apply" /\ j.kind = "apply" => job.n <= j.n
  BY ZenonT(30), <1>1, QueueTail DEF Queued
<1> HIDE DEF job
<1>3. /\ job.n \in 1..Len(arrived)
      /\ job.kind = "apply" => \A h \in Handlers : \A n \in applied[h] : n <= job.n
  BY ZenonT(30), <1>2 DEF Inv, QueueInv
<1>4. /\ job.kind \in {"apply", "read"} /\ job.h \in Handlers
      /\ job.kind = "apply" => job = ApplyJob(job.h, job.n)
      /\ job.kind = "read" => job.h \in Subscribers
  <2>1. CASE job \in [kind : {"apply"}, h : Handlers, n : 1..MaxDeltas]
    BY <2>1 DEF ApplyJob
  <2>2. CASE job \in [kind : {"read"}, h : Subscribers, n : 1..MaxDeltas, i : Nat]
    BY <2>2 DEF Handlers
  <2> QED
    BY ZenonT(30), <1>2, <2>1, <2>2 DEF Jobs
<1>5. job.kind = "read" =>
        /\ job.n \in applied[job.h] /\ job.i \in Relevant(job.n)
        /\ arrived[job.n][job.i].kind # "Delete"
  BY ZenonT(30), <1>2 DEF Inv, ReadInv
<1> QED
  BY ZenonT(30), <1>2, <1>3, <1>4, <1>5 DEF job

\* The parts of the invariant that any step of the database keeps: it may queue
\* a query for an op of the delta of the head, once that is applied.
LEMMA PopStep ==
  ASSUME Inv, queue # <<>>, UNCHANGED <<wiring, called, handlers, arrived>>,
         InOrder(queue'),
         \A job \in SetOf(queue') : job \in SetOf(Tail(queue)) \/
           \E d \in Relevant(Head(queue).n) :
             /\ job = ReadJob(Head(queue).h, Head(queue).n, d)
             /\ arrived[Head(queue).n][d].kind # "Delete"
             /\ Head(queue).n \in applied'[Head(queue).h],
         \A h \in Handlers : applied[h] \subseteq applied'[h],
         \A h \in Handlers : \A n \in applied'[h] :
           n \in applied[h] \/ (h = Head(queue).h /\ n = Head(queue).n /\ Head(queue).kind = "apply"),
         \A h \in Subscribers : told'[h] \subseteq applied'[h],
         \A h \in Subscribers : \A i \in Ids : view'[h][i] # Null => applied'[h] # {}
  PROVE  QueueInv' /\ ReadInv' /\ CalledInv'
<1> DEFINE head == Head(queue)
<1>1. /\ head \in Queued /\ head.n \in 1..Len(arrived) /\ head.h \in Handlers
      /\ SetOf(Tail(queue)) \subseteq Queued
      /\ head.kind = "apply" => \A j \in Queued : j.kind = "apply" => head.n <= j.n
  BY ZenonT(30), HeadJob
<1>2. /\ Queued' = SetOf(queue') /\ Registered' = Registered
      /\ \A n : Relevant(n)' = Relevant(n)
  BY ZenonT(30) DEF Queued, Registered, Relevant
<1>3. \A d : /\ ReadJob(head.h, head.n, d).kind = "read" /\ ReadJob(head.h, head.n, d).h = head.h
             /\ ReadJob(head.h, head.n, d).n = head.n /\ ReadJob(head.h, head.n, d).i = d
  BY DEF ReadJob
<1>4. "read" # "apply"
  OBVIOUS
<1>5. ASSUME NEW job \in Queued'
      PROVE  \/ job \in Queued
             \/ /\ job.kind = "read" /\ job.h = head.h /\ job.n = head.n /\ job.i \in Relevant(job.n)
                /\ arrived[job.n][job.i].kind # "Delete" /\ job.n \in applied'[job.h]
  <2>1. CASE job \in SetOf(Tail(queue))
    BY ZenonT(30), <1>1, <2>1
  <2>2. CASE job \notin SetOf(Tail(queue))
    <3>1. job \in SetOf(queue')
      BY ZenonT(30), <1>2
    <3>2. PICK d \in Relevant(head.n) :
            /\ job = ReadJob(head.h, head.n, d)
            /\ arrived[head.n][d].kind # "Delete"
            /\ head.n \in applied'[head.h]
      BY ZenonT(30), <2>2, <3>1
    <3>3. job.kind = "read" /\ job.h = head.h /\ job.n = head.n /\ job.i = d
      BY ONLY <3>2, SMTT(30) DEF ReadJob
    <3>4. /\ job.i \in Relevant(job.n) /\ arrived[job.n][job.i].kind # "Delete"
          /\ job.n \in applied'[job.h]
      BY ONLY <3>2, <3>3, SMTT(30)
    <3> QED
      BY ZenonT(30), <3>3, <3>4
  <2> QED
    BY ZenonT(30), <2>1, <2>2
<1> HIDE DEF head
<1>6. QueueInv'
  <2>1. \A job \in Queued' : job.n \in 1..Len(arrived)
    BY ZenonT(30), <1>1, <1>5 DEF Inv, QueueInv
  <2>2. ASSUME NEW h \in Handlers, NEW n \in applied'[h]
        PROVE  /\ n \in 1..Len(arrived)
               /\ \A job \in Queued' : job.kind = "apply" => n <= job.n
    <3>1. CASE n \in applied[h]
      BY ZenonT(30), <1>4, <1>5, <3>1 DEF Inv, QueueInv
    <3>2. CASE n = head.n /\ head.kind = "apply"
      BY ZenonT(30), <1>1, <1>4, <1>5, <3>2
    <3> QED
      BY ZenonT(30), <3>1, <3>2 DEF head
  <2> QED
    BY ZenonT(30), <2>1, <2>2 DEF QueueInv
<1>7. ReadInv'
  <2>1. ASSUME NEW job \in Queued', job.kind = "read"
        PROVE  /\ job.n \in applied'[job.h]
               /\ job.i \in Relevant(job.n)
               /\ arrived[job.n][job.i].kind # "Delete"
    <3>1. CASE job \in Queued
      <4>1. job.h \in Handlers
        <5>1. job \in Jobs
          <6>1. queue \in Seq(Jobs)
            BY ZenonT(30), InvTypes
          <6>2. \A k \in DOMAIN queue : queue[k] \in Jobs
            BY ZenonT(30), <6>1, SeqDomain
          <6> QED
            BY ZenonT(30), <3>1, <6>2 DEF Queued, SetOf
        <5> QED
          BY <5>1 DEF Jobs, Handlers
      <4> QED
        BY ZenonT(30), <2>1, <3>1, <4>1 DEF Inv, ReadInv
    <3> QED
      BY ZenonT(30), <1>5, <3>1
  <2> QED
    BY ZenonT(30), <1>2, <2>1 DEF ReadInv
<1>8. CalledInv'
  <2>1. ASSUME NEW h \in Subscribers \ called
        PROVE  applied'[h] = {} /\ \A job \in Queued' : job.h # h
    <3>1. applied[h] = {} /\ \A job \in Queued : job.h # h
      BY ZenonT(30) DEF Inv, CalledInv
    <3>2. head.h # h /\ h \in Handlers
      BY ZenonT(30), <1>1, <3>1 DEF Handlers
    <3> QED
      BY ZenonT(30), <1>5, <3>1, <3>2 DEF head
  <2>2. \A h \in Registered \cap Subscribers : wiring = "transport" /\ h \in called
    BY ZenonT(30) DEF Inv, CalledInv
  <2> QED
    BY ZenonT(30), <1>2, <2>1, <2>2 DEF CalledInv
<1> QED
  BY ZenonT(30), <1>6, <1>7, <1>8

\* A batch fails and is rolled back.
LEMMA ApplyFailsInv ==
  ASSUME Inv, ApplyFails
  PROVE  Inv'
<1> DEFINE head == Head(queue)
<1>1. /\ queue # <<>> /\ head.kind = "apply" /\ queue' = Tail(queue)
      /\ (Fails(head.h, head.n) /\ failures' = failures)
           \/ (failures < MaxFailures /\ failures' = failures + 1)
      /\ UNCHANGED <<wiring, called, handlers, paused, arrived, table, view, applied, told>>
  BY ZenonT(30) DEF ApplyFails
<1>2. /\ head \in Queued
      /\ SetOf(Tail(queue)) \subseteq Queued
      /\ \A j \in Queued : j = head \/ j \in SetOf(Tail(queue))
      /\ Tail(queue) \in Seq(Jobs) /\ InOrder(Tail(queue))
  BY ZenonT(30), <1>1, HeadJob
<1>3. failures \in 0..MaxFailures /\ failures' \in 0..MaxFailures
      /\ (failures' = 0 => failures = 0 /\ head.h = Extension)
  <2>1. failures \in 0..MaxFailures
    BY ZenonT(30), InvTypes
  <2>2. CASE failures < MaxFailures /\ failures' = failures + 1
    BY <2>1, <2>2, ReplicaAssumption
  <2> QED
    BY ZenonT(30), <1>1, <2>1, <2>2 DEF Fails
<1> HIDE DEF head
<1>4. TypeOK'
  BY ZenonT(30), <1>1, <1>2, <1>3 DEF Inv, TypeOK
<1>5. QueueInv' /\ ReadInv' /\ CalledInv'
  <2>1. /\ \A h \in Subscribers : told[h] \subseteq applied[h]
        /\ \A h \in Subscribers : \A i \in Ids : view[h][i] # Null => applied[h] # {}
    BY ZenonT(30) DEF Inv, ReadInv
  <2> QED
    BY ZenonT(30), <1>1, <1>2, <2>1, PopStep
<1>6. LocalIsReplay'
  BY ZenonT(30), <1>1 DEF Inv, LocalIsReplay, Replay
<1>7. /\ Queued' \subseteq Queued /\ Registered' = Registered
      /\ \A n : Relevant(n)' = Relevant(n)
      /\ \A j \in Queued : j # head => j \in Queued'
  BY ZenonT(30), <1>1, <1>2 DEF Queued, Registered, Relevant
<1>8. Extension \notin Subscribers
  BY ZenonT(30), ReplicaAssumption
<1>9. ASSUME failures' = 0, NEW h \in Subscribers PROVE Started(h)' = Started(h)
  <2>1. \A n : ApplyJob(h, n) # head
    <3>1. \A n : ApplyJob(h, n).h = h
      BY DEF ApplyJob
    <3> QED
      BY ZenonT(30), <1>3, <1>8, <1>9, <3>1
  <2> QED
    BY ZenonT(30), <1>1, <1>7, <2>1 DEF Started
<1>10. HeardInv'
  BY ZenonT(30), <1>1, <1>3, <1>7, <1>9 DEF Inv, HeardInv
<1>11. ViewInv'
  <2> SUFFICES ASSUME failures' = 0, NEW h \in Registered \cap Subscribers, NEW i \in Ids,
                      view[h][i] \notin {Absent, Null}, view[h][i] # table[i]
               PROVE  Pending(h, i)'
    BY ZenonT(30), <1>1, <1>7 DEF ViewInv
  <2>1. PICK job \in Queued :
          /\ job.h = h
          /\ \E d \in Relevant(job.n) :
               /\ job.kind = "read" => d >= job.i
               /\ arrived[job.n][d].id = i
               /\ table[i] = Absent => arrived[job.n][d].kind = "Delete"
    <3>1. Pending(h, i)
      BY ZenonT(30), <1>3 DEF Inv, ViewInv
    <3> QED
      BY ZenonT(30), <3>1 DEF Pending
  <2>2. job \in Queued'
    BY ZenonT(30), <1>3, <1>7, <1>8, <2>1
  <2> QED
    BY ZenonT(30), <1>1, <1>7, <2>1, <2>2 DEF Pending
<1> QED
  BY ZenonT(30), <1>4, <1>5, <1>6, <1>10, <1>11 DEF Inv

\* A batch is applied, and its first events are sent.
LEMMA ApplyInv ==
  ASSUME Inv, Apply
  PROVE  Inv'
<1> DEFINE head == Head(queue)
           h0 == head.h
           n0 == head.n
           D == UNION {applied[h] : h \in Handlers}
<1>1. /\ queue # <<>> /\ head.kind = "apply" /\ ~Fails(h0, n0)
      /\ table' = ApplyAll(table, arrived[n0])
      /\ applied' = [applied EXCEPT ![h0] = @ \cup {n0}]
      /\ IF h0 = Extension THEN queue' = Tail(queue) /\ UNCHANGED <<view, told>>
                           ELSE Notify(h0, n0, 1, {})
      /\ UNCHANGED <<wiring, called, handlers, paused, arrived, failures>>
  BY ZenonT(30) DEF Apply
<1>2. /\ head \in Queued /\ n0 \in 1..Len(arrived) /\ h0 \in Handlers
      /\ SetOf(Tail(queue)) \subseteq Queued
      /\ \A j \in Queued : j = head \/ j \in SetOf(Tail(queue))
      /\ Tail(queue) \in Seq(Jobs) /\ InOrder(Tail(queue))
      /\ head = ApplyJob(h0, n0)
      /\ \A h \in Handlers : \A n \in applied[h] : n <= n0
  BY ZenonT(30), <1>1, HeadJob
<1>3. /\ arrived \in Seq(Seq(Op)) /\ Len(arrived) \in Nat /\ n0 \in 1..MaxDeltas
      /\ arrived[n0] \in Seq(Op) /\ table \in Tables
      /\ view \in [Subscribers -> [Ids -> LocalRow \cup {Absent, Null}]]
      /\ applied \in [Handlers -> SUBSET (1..MaxDeltas)]
      /\ told \in [Subscribers -> SUBSET (1..MaxDeltas)]
  BY ZenonT(30), <1>2, InvTypes
<1>4. h0 # Extension => h0 \in Subscribers
  BY ZenonT(30), <1>2 DEF Handlers
<1>5. /\ Extension \notin Subscribers
      /\ \A h \in Subscribers : h \in Handlers
  BY ZenonT(30), ReplicaAssumption DEF Handlers
<1> HIDE DEF head, h0, n0
<1>6. /\ queue' \in Seq(Jobs) /\ InOrder(queue')
      /\ SetOf(Tail(queue)) \subseteq SetOf(queue')
      /\ \A job \in SetOf(queue') : job \in SetOf(Tail(queue)) \/
           \E d \in Relevant(n0) : job = ReadJob(h0, n0, d) /\ arrived[n0][d].kind # "Delete"
      /\ view' \in [Subscribers -> [Ids -> LocalRow \cup {Absent, Null}]]
      /\ told' \in [Subscribers -> SUBSET (1..MaxDeltas)]
      /\ \A g \in Subscribers : g # h0 => view'[g] = view[g] /\ told'[g] = told[g]
      /\ h0 \in Subscribers =>
           /\ told'[h0] \subseteq told[h0] \cup {n0}
           /\ \A x \in Ids : view'[h0][x] = Absent \/ view'[h0][x] = view[h0][x]
           /\ \A d \in Relevant(n0) :
                view'[h0][arrived[n0][d].id] = Absent \/
                \E e \in Relevant(n0) : d >= e /\ ReadJob(h0, n0, e) \in SetOf(queue')
  <2>1. CASE h0 = Extension
    BY ZenonT(30), <1>1, <1>2, <1>3, <1>5, <2>1
  <2>2. CASE h0 # Extension
    <3>1. Notify(h0, n0, 1, {}) /\ h0 \in Subscribers
      BY ZenonT(30), <1>1, <1>4, <2>2
    <3>2. {} \in SUBSET Ids /\ \A x : x \notin {}
      BY ZenonT(30)
    <3>3. \A d \in Relevant(n0) : d >= 1
      <4>1. \A d \in Relevant(n0) : d \in 1..Len(arrived[n0])
        BY ZenonT(30), <1>2, RelevantOps
      <4>2. Len(arrived[n0]) \in Nat
        BY ZenonT(30), <1>3, SeqDomain
      <4> QED
        BY <4>1, <4>2
    <3>4. Notified(h0, n0, 1, {})
      BY ZenonT(30), <1>1, <1>2, <3>1, <3>2, NotifyStep
    <3> QED
      BY ZenonT(30), <3>1, <3>2, <3>3, <3>4 DEF Notified
  <2> QED
    BY ZenonT(30), <2>1, <2>2
<1>7. /\ applied' \in [Handlers -> SUBSET (1..MaxDeltas)]
      /\ applied'[h0] = applied[h0] \cup {n0}
      /\ \A h \in Handlers : h # h0 => applied'[h] = applied[h]
  BY ZenonT(30), <1>1, <1>2, <1>3
<1>8. \A h \in Handlers : applied[h] \subseteq applied'[h]
  BY ZenonT(30), <1>7
<1>9. /\ Queued' = SetOf(queue') /\ Registered' = Registered
      /\ \A n : Relevant(n)' = Relevant(n)
  BY ZenonT(30), <1>1 DEF Queued, Registered, Relevant
<1>10. \A j \in Queued : j # head => j \in Queued'
  BY ZenonT(30), <1>2, <1>6, <1>9
<1>11. QueueInv' /\ ReadInv' /\ CalledInv'
  <2>1. \A job \in SetOf(queue') : job \in SetOf(Tail(queue)) \/
          \E d \in Relevant(n0) : /\ job = ReadJob(h0, n0, d) /\ arrived[n0][d].kind # "Delete"
                                  /\ n0 \in applied'[h0]
    BY ZenonT(30), <1>6, <1>7
  <2>2. \A h \in Handlers : \A n \in applied'[h] :
          n \in applied[h] \/ (h = h0 /\ n = n0 /\ head.kind = "apply")
    BY ZenonT(30), <1>1, <1>7
  <2>3. ASSUME NEW h \in Subscribers
        PROVE  /\ told'[h] \subseteq applied'[h]
               /\ \A i \in Ids : view'[h][i] # Null => applied'[h] # {}
    <3>1. /\ told[h] \subseteq applied[h]
          /\ \A i \in Ids : view[h][i] # Null => applied[h] # {}
      BY ZenonT(30) DEF Inv, ReadInv
    <3>2. CASE h = h0
      BY ZenonT(30), <1>6, <1>7, <3>1, <3>2
    <3>3. CASE h # h0
      BY ZenonT(30), <1>5, <1>6, <1>7, <3>1, <3>3
    <3> QED
      BY ZenonT(30), <3>2, <3>3
  <2> QED
    BY ZenonT(30), <1>1, <1>6, <1>8, <2>1, <2>2, <2>3, PopStep DEF head, h0, n0
<1>12. /\ table = Replays(arrived, D)[Len(arrived)]
       /\ Replays(arrived, D \cup {n0})[Len(arrived)] = table'
       /\ n0 \in D => table' = table
  <2>1. table = Replays(arrived, D)[Len(arrived)]
    BY ZenonT(30) DEF Inv, LocalIsReplay, Replay
  <2>2. \A n \in 1..Len(arrived) : n \in D => n <= n0
    BY ZenonT(30), <1>2
  <2> HIDE DEF D
  <2>3. /\ Replays(arrived, D \cup {n0})[Len(arrived)]
             = ApplyAll(Replays(arrived, D)[Len(arrived)], arrived[n0])
        /\ n0 \in D => ApplyAll(Replays(arrived, D)[Len(arrived)], arrived[n0])
                         = Replays(arrived, D)[Len(arrived)]
    BY ZenonT(30), <1>2, <1>3, <2>2, ReplayOneMore
  <2> QED
    BY ZenonT(30), <1>1, <2>1, <2>3
<1>13. LocalIsReplay'
  <2>1. D' = D \cup {n0}
    BY ZenonT(30), <1>2, <1>7
  <2>2. table' = Replays(arrived', D')[Len(arrived')]
    BY ZenonT(30), <1>1, <1>12, <2>1
  <2> QED
    BY ZenonT(30), <2>2 DEF D, LocalIsReplay, Replay
<1>14. table' \in Tables
  <2>1. \A n \in 1..Len(arrived) : n \in D \cup {n0} => n <= n0
    BY <1>2, <1>3
  <2>2. Replays(arrived, D \cup {n0})[Len(arrived)] \in Tables
    BY ZenonT(30), <1>2, <1>3, <2>1, ReplayOneMore
  <2> QED
    BY ZenonT(30), <1>12, <2>2
<1>15. TypeOK'
  <2>1. table' \in [Ids -> LocalRow \cup {Absent}]
    BY ZenonT(30), <1>14 DEF Tables
  <2> QED
    BY ZenonT(30), <1>1, <1>6, <1>7, <2>1 DEF Inv, TypeOK
<1>16. ASSUME NEW h \in Subscribers PROVE Started(h)' = Started(h)
  <2>1. h \in Handlers /\ head = ApplyJob(h0, n0)
    BY ZenonT(30), <1>2, <1>5
  <2>2. ASSUME NEW n \in 1..Len(arrived)
        PROVE  n \in applied'[h] \/ ApplyJob(h, n) \in Queued' <=>
               n \in applied[h] \/ ApplyJob(h, n) \in Queued
    <3>1. ApplyJob(h, n) \in Queued' => ApplyJob(h, n) \in Queued
      <4>1. \A d : ApplyJob(h, n) # ReadJob(h0, n0, d)
        <5>1. ApplyJob(h, n).kind = "apply" /\ "apply" # "read"
          BY DEF ApplyJob
        <5> QED
          BY ONLY <5>1, SMTT(30) DEF ReadJob
      <4> QED
        BY ZenonT(30), <1>2, <1>6, <1>9, <4>1
    <3>2. ApplyJob(h, n) = head => h = h0 /\ n = n0
      BY ONLY <2>1, SMTT(30) DEF ApplyJob
    <3>3. ApplyJob(h, n) \in Queued => n \in applied'[h] \/ ApplyJob(h, n) \in Queued'
      BY ZenonT(30), <1>7, <1>10, <3>2
    <3>4. n \in applied'[h] => n \in applied[h] \/ ApplyJob(h, n) \in Queued
      <4>1. CASE h = h0 /\ n = n0
        BY ZenonT(30), <1>2, <4>1
      <4>2. CASE ~(h = h0 /\ n = n0)
        BY ZenonT(30), <1>7, <2>1, <4>2
      <4> QED
        BY ZenonT(30), <4>1, <4>2
    <3>5. n \in applied[h] => n \in applied'[h]
      BY ZenonT(30), <1>8, <2>1
    <3> QED
      BY ZenonT(30), <3>1, <3>3, <3>4, <3>5
  <2> QED
    BY ZenonT(30), <1>1, <2>2 DEF Started
<1>17. HeardInv'
  BY ZenonT(30), <1>1, <1>9, <1>16 DEF Inv, HeardInv
<1>18. ViewInv'
  <2> SUFFICES ASSUME failures = 0, NEW h \in Registered \cap Subscribers, NEW i \in Ids,
                      view'[h][i] \notin {Absent, Null}, view'[h][i] # table'[i]
               PROVE  Pending(h, i)'
    BY ZenonT(30), <1>1, <1>9 DEF ViewInv
  <2>1. /\ h \in Subscribers /\ h \in Handlers
        /\ view'[h][i] = view[h][i]
    BY ZenonT(30), <1>5, <1>6
  <2>2. ASSUME NEW job \in Queued', job.h = h, NEW d \in Relevant(job.n),
               job.kind = "read" => d >= job.i, arrived[job.n][d].id = i,
               table'[i] = Absent => arrived[job.n][d].kind = "Delete"
        PROVE  Pending(h, i)'
    BY ZenonT(30), <1>1, <1>9, <2>2 DEF Pending
  <2>3. ASSUME table'[i] = table[i],
               h # h0 \/ \A d \in Relevant(n0) : arrived[n0][d].id # i
        PROVE  Pending(h, i)'
    <3>1. Pending(h, i)
      BY ZenonT(30), <2>1, <2>3 DEF Inv, ViewInv
    <3>2. PICK job \in Queued :
            /\ job.h = h
            /\ \E d \in Relevant(job.n) :
                 /\ job.kind = "read" => d >= job.i
                 /\ arrived[job.n][d].id = i
                 /\ table[i] = Absent => arrived[job.n][d].kind = "Delete"
      BY ZenonT(30), <3>1 DEF Pending
    <3>3. job \in Queued'
      BY ZenonT(30), <1>10, <2>3, <3>2 DEF h0, n0
    <3> QED
      BY ZenonT(30), <2>2, <2>3, <3>2, <3>3
  <2>4. /\ DOMAIN arrived[n0] = 1..Len(arrived[n0])
        /\ \A d \in Relevant(n0) : d \in 1..Len(arrived[n0])
        /\ \A d \in 1..Len(arrived[n0]) :
             Touches(arrived[n0][d], i) <=> d \in Relevant(n0) /\ arrived[n0][d].id = i
    BY ZenonT(30), <1>2, RelevantOps
  <2>5. CASE \A d \in Relevant(n0) : arrived[n0][d].id # i
    <3>1. table'[i] = table[i]
      <4>1. \A d \in 1..Len(arrived[n0]) : ~Touches(arrived[n0][d], i)
        BY ZenonT(30), <2>4, <2>5
      <4> QED
        BY ZenonT(30), <1>1, <1>3, <4>1, ApplyAllUntouched
    <3> QED
      BY ZenonT(30), <2>3, <2>5, <3>1
  <2>6. CASE \E d \in Relevant(n0) : arrived[n0][d].id = i
    <3>1. PICK d \in Relevant(n0) :
            /\ arrived[n0][d].id = i
            /\ table'[i] = Absent => arrived[n0][d].kind = "Delete"
      <4>1. CASE table'[i] = Absent
        <5>1. \E k \in 1..Len(arrived[n0]) : Touches(arrived[n0][k], i)
          BY ZenonT(30), <2>4, <2>6
        <5>2. ~ \A k \in 1..Len(arrived[n0]) : Touches(arrived[n0][k], i) => arrived[n0][k].kind # "Delete"
          BY ZenonT(30), <1>1, <1>3, <4>1, <5>1, ApplyAllPresent
        <5> QED
          BY ZenonT(30), <2>4, <5>2
      <4> QED
        BY ZenonT(30), <2>6, <4>1
    <3>2. CASE h = h0
      <4>1. PICK e \in Relevant(n0) : d >= e /\ ReadJob(h0, n0, e) \in SetOf(queue')
        BY ZenonT(30), <1>6, <3>1, <3>2
      <4>2. PICK job \in Queued' : job = ReadJob(h0, n0, e)
        BY ZenonT(30), <1>9, <4>1
      <4>3. job.h = h /\ job.n = n0 /\ job.i = e
        BY ONLY <3>2, <4>2, SMTT(30) DEF ReadJob
      <4> QED
        BY ZenonT(30), <2>2, <3>1, <4>1, <4>3
    <3>3. CASE h # h0 /\ table'[i] = table[i]
      BY ZenonT(30), <2>3, <3>3
    <3>4. CASE h # h0 /\ table'[i] # table[i]
      <4>1. n0 \notin D
        BY ZenonT(30), <1>12, <3>4
      <4>2. PICK n \in applied[h] : n \in 1..Len(arrived) /\ n <= n0
        <5>1. applied[h] # {}
          BY ZenonT(30), <2>1 DEF Inv, ReadInv
        <5> QED
          BY ZenonT(30), <1>2, <2>1, <5>1 DEF Inv, QueueInv
      <4>3. n \in Started(h)
        BY ZenonT(30), <4>2 DEF Started
      <4>4. n0 \in n..Len(arrived)
        BY ONLY <1>2, <1>3, <4>2, SMTT(30)
      <4>5. n0 \in Started(h)
        BY ZenonT(30), <2>6, <4>3, <4>4 DEF Inv, HeardInv
      <4>6. ApplyJob(h, n0) \in Queued
        BY ZenonT(30), <2>1, <4>1, <4>5 DEF Started
      <4>7. PICK job : job = ApplyJob(h, n0)
        BY ZenonT(30)
      <4>8. job.h = h /\ job.n = n0 /\ job.kind = "apply"
        BY ONLY <4>7, SMTT(30) DEF ApplyJob
      <4>9. job \in Queued'
        BY ZenonT(30), <1>10, <3>4, <4>6, <4>7, <4>8 DEF h0
      <4>10. job.kind # "read"
        BY <4>8
      <4> QED
        BY ZenonT(30), <2>2, <3>1, <4>8, <4>9, <4>10
    <3> QED
      BY ZenonT(30), <3>1, <3>2, <3>3, <3>4 DEF Notified
  <2> QED
    BY ZenonT(30), <2>5, <2>6
<1> QED
  BY ZenonT(30), <1>11, <1>13, <1>15, <1>17, <1>18 DEF Inv

\* The parts of the invariant that notifyOne keeps, whether or not its query
\* fails.
LEMMA ReadStep ==
  ASSUME Inv, queue # <<>>, Head(queue).kind = "read", NEW updated \in SUBSET Ids,
         Notify(Head(queue).h, Head(queue).n, Head(queue).i + 1, updated),
         UNCHANGED <<wiring, called, handlers, paused, arrived, table, applied>>,
         failures' \in 0..MaxFailures
  PROVE  /\ Notified(Head(queue).h, Head(queue).n, Head(queue).i + 1, updated)
         /\ TypeOK' /\ QueueInv' /\ ReadInv' /\ CalledInv' /\ LocalIsReplay'
<1> DEFINE head == Head(queue)
           h0 == head.h
           n0 == head.n
<1>1. /\ n0 \in 1..Len(arrived) /\ h0 \in Subscribers /\ n0 \in applied[h0]
  BY ZenonT(30), HeadJob
<1>2. Notified(h0, n0, head.i + 1, updated)
  BY ZenonT(30), <1>1, NotifyStep
<1> HIDE DEF head, h0, n0
<1>3. /\ queue' \in Seq(Jobs) /\ InOrder(queue')
      /\ \A job \in SetOf(queue') : job \in SetOf(Tail(queue)) \/
           \E d \in Relevant(n0) : job = ReadJob(h0, n0, d) /\ arrived[n0][d].kind # "Delete"
      /\ view' \in [Subscribers -> [Ids -> LocalRow \cup {Absent, Null}]]
      /\ \A g \in Subscribers : g # h0 => view'[g] = view[g]
      /\ told' \in [Subscribers -> SUBSET (1..MaxDeltas)]
      /\ \A g \in Subscribers : g # h0 => told'[g] = told[g]
      /\ told'[h0] \subseteq told[h0] \cup {n0}
  BY ZenonT(30), <1>2 DEF Notified
<1>4. TypeOK'
  BY ZenonT(30), <1>3 DEF Inv, TypeOK
<1>5. LocalIsReplay'
  BY ZenonT(30) DEF Inv, LocalIsReplay, Replay
<1>6. QueueInv' /\ ReadInv' /\ CalledInv'
  <2>1. \A job \in SetOf(queue') : job \in SetOf(Tail(queue)) \/
          \E d \in Relevant(n0) : /\ job = ReadJob(h0, n0, d) /\ arrived[n0][d].kind # "Delete"
                                  /\ n0 \in applied'[h0]
    BY ZenonT(30), <1>1, <1>3
  <2>2. ASSUME NEW h \in Subscribers
        PROVE  /\ told'[h] \subseteq applied'[h]
               /\ \A i \in Ids : view'[h][i] # Null => applied'[h] # {}
    <3>1. /\ told[h] \subseteq applied[h]
          /\ \A i \in Ids : view[h][i] # Null => applied[h] # {}
      BY ZenonT(30) DEF Inv, ReadInv
    <3>2. CASE h = h0
      BY ZenonT(30), <1>1, <1>3, <3>1, <3>2
    <3>3. CASE h # h0
      BY ZenonT(30), <1>3, <3>1, <3>3
    <3> QED
      BY ZenonT(30), <3>2, <3>3
  <2> QED
    BY ZenonT(30), <1>3, <2>1, <2>2, PopStep DEF head, h0, n0
<1> QED
  BY ZenonT(30), <1>2, <1>4, <1>5, <1>6 DEF head, h0, n0

\* A query fails.
LEMMA ReadBackFailsInv ==
  ASSUME Inv, ReadBackFails
  PROVE  Inv'
<1>1. /\ queue # <<>> /\ Head(queue).kind = "read"
      /\ failures < MaxFailures /\ failures' = failures + 1
      /\ Notify(Head(queue).h, Head(queue).n, Head(queue).i + 1, {})
      /\ UNCHANGED <<wiring, called, handlers, paused, arrived, table, applied>>
  BY ZenonT(30) DEF ReadBackFails
<1>2. failures \in 0..MaxFailures
  BY ZenonT(30), InvTypes
<1>3. failures' \in 0..MaxFailures /\ failures' # 0
  BY ONLY <1>1, <1>2, ReplicaAssumption, SMTT(30)
<1>4. {} \in SUBSET Ids
  BY ZenonT(30)
<1>5. TypeOK' /\ QueueInv' /\ ReadInv' /\ CalledInv' /\ LocalIsReplay'
  BY ZenonT(30), <1>1, <1>3, <1>4, ReadStep
<1>6. HeardInv' /\ ViewInv'
  BY ZenonT(30), <1>3 DEF HeardInv, ViewInv
<1> QED
  BY ZenonT(30), <1>5, <1>6 DEF Inv

\* A row is read back and reported.
LEMMA ReadBackInv ==
  ASSUME Inv, ReadBack
  PROVE  Inv'
<1> DEFINE head == Head(queue)
           h0 == head.h
           n0 == head.n
           id == arrived[n0][head.i].id
           updated == {id} \ {x \in Ids : table[x] = Absent}
<1>1. /\ queue # <<>> /\ head.kind = "read"
      /\ Notify(h0, n0, head.i + 1, updated)
      /\ UNCHANGED <<wiring, called, handlers, paused, arrived, table, applied, failures>>
  BY ZenonT(30) DEF ReadBack
<1>2. /\ head \in Queued /\ n0 \in 1..Len(arrived) /\ h0 \in Subscribers
      /\ head.i \in Relevant(n0) /\ arrived[n0][head.i].kind # "Delete"
      /\ \A j \in Queued : j = head \/ j \in SetOf(Tail(queue))
      /\ SetOf(Tail(queue)) \subseteq Queued
  BY ZenonT(30), <1>1, HeadJob
<1>3. id \in Ids /\ Relevant(n0) \subseteq Nat
  BY ZenonT(30), <1>2, RelevantOps
<1>4. updated \in SUBSET Ids
  BY ZenonT(30), <1>3
<1>5. failures' \in 0..MaxFailures
  BY ZenonT(30), <1>1, InvTypes
<1>6. /\ Notified(h0, n0, head.i + 1, updated)
      /\ TypeOK' /\ QueueInv' /\ ReadInv' /\ CalledInv' /\ LocalIsReplay'
  BY ZenonT(30), <1>1, <1>4, <1>5, ReadStep
<1>7. id \notin updated => table[id] = Absent
  BY ZenonT(30)
<1> HIDE DEF head, h0, n0, id, updated
<1>8. /\ SetOf(Tail(queue)) \subseteq SetOf(queue')
      /\ \A job \in SetOf(queue') : job \in SetOf(Tail(queue)) \/
           \E d \in Relevant(n0) : job = ReadJob(h0, n0, d) /\ arrived[n0][d].kind # "Delete"
      /\ \A d \in Relevant(n0) : d >= head.i + 1 =>
           view'[h0][arrived[n0][d].id] = Absent \/
           \E e \in Relevant(n0) : d >= e /\ ReadJob(h0, n0, e) \in SetOf(queue')
      /\ \A g \in Subscribers : g # h0 => view'[g] = view[g]
      /\ \A x \in Ids : \/ view'[h0][x] = Absent
                        \/ x \in updated /\ view'[h0][x] = table[x]
                        \/ x \notin updated /\ view'[h0][x] = view[h0][x]
  BY ZenonT(30), <1>6 DEF Notified
<1>9. /\ Queued' = SetOf(queue') /\ Registered' = Registered
      /\ \A n : Relevant(n)' = Relevant(n)
  BY ZenonT(30), <1>1 DEF Queued, Registered, Relevant
<1>10. \A j \in Queued : j # head => j \in Queued'
  BY ZenonT(30), <1>2, <1>8, <1>9
<1>11. ASSUME NEW h PROVE Started(h)' = Started(h)
  <2>1. "apply" # "read"
    OBVIOUS
  <2>2. ASSUME NEW n PROVE ApplyJob(h, n) \in Queued' <=> ApplyJob(h, n) \in Queued
    <3>1. ApplyJob(h, n).kind = "apply" /\ \A d : ApplyJob(h, n) # ReadJob(h0, n0, d)
      BY DEF ApplyJob, ReadJob
    <3>2. ApplyJob(h, n) # head
      BY ZenonT(30), <1>1, <2>1, <3>1
    <3> QED
      BY ZenonT(30), <1>2, <1>8, <1>9, <1>10, <3>1, <3>2
  <2> QED
    BY ZenonT(30), <1>1, <2>2 DEF Started
<1>12. HeardInv'
  BY ZenonT(30), <1>1, <1>9, <1>11 DEF Inv, HeardInv
<1>13. ViewInv'
  <2> SUFFICES ASSUME failures = 0, NEW h \in Registered \cap Subscribers, NEW i \in Ids,
                      view'[h][i] \notin {Absent, Null}, view'[h][i] # table[i]
               PROVE  Pending(h, i)'
    BY ZenonT(30), <1>1, <1>9 DEF ViewInv
  <2>1. /\ h \in Subscribers /\ view'[h][i] = view[h][i]
        /\ h = h0 => i \notin updated
    BY ZenonT(30), <1>8
  <2>2. ASSUME NEW job \in Queued', job.h = h, NEW d \in Relevant(job.n),
               job.kind = "read" => d >= job.i, arrived[job.n][d].id = i,
               table[i] = Absent => arrived[job.n][d].kind = "Delete"
        PROVE  Pending(h, i)'
    BY ZenonT(30), <1>1, <1>9, <2>2 DEF Pending
  <2>3. Pending(h, i)
    BY ZenonT(30), <2>1 DEF Inv, ViewInv
  <2>4. PICK job \in Queued :
          /\ job.h = h
          /\ \E d \in Relevant(job.n) :
               /\ job.kind = "read" => d >= job.i
               /\ arrived[job.n][d].id = i
               /\ table[i] = Absent => arrived[job.n][d].kind = "Delete"
    BY ZenonT(30), <2>3 DEF Pending
  <2>5. CASE job # head
    <3>1. job \in Queued'
      BY ZenonT(30), <1>10, <2>5
    <3> QED
      BY ZenonT(30), <2>2, <2>4, <3>1
  <2>6. CASE job = head
    <3>1. h = h0 /\ i \notin updated
      BY ZenonT(30), <2>1, <2>4, <2>6 DEF h0
    <3>2. PICK d \in Relevant(n0) :
            /\ d >= head.i
            /\ arrived[n0][d].id = i
            /\ table[i] = Absent => arrived[n0][d].kind = "Delete"
      BY ZenonT(30), <1>1, <2>4, <2>6 DEF n0
    <3>3. d # head.i
      BY ZenonT(30), <1>2, <1>7, <3>1, <3>2 DEF id
    <3>4. d >= head.i + 1
      <4>1. d \in Nat /\ head.i \in Nat
        BY ZenonT(30), <1>2, <1>3
      <4> QED
        BY ONLY <3>2, <3>3, <4>1, SMTT(30)
    <3>5. PICK e \in Relevant(n0) : d >= e /\ ReadJob(h0, n0, e) \in SetOf(queue')
      BY ZenonT(30), <1>8, <3>1, <3>2, <3>4
    <3>6. PICK next \in Queued' : next = ReadJob(h0, n0, e)
      BY ZenonT(30), <1>9, <3>5
    <3>7. next.h = h /\ next.n = n0 /\ next.i = e
      BY ONLY <3>1, <3>6, SMTT(30) DEF ReadJob
    <3> QED
      BY ZenonT(30), <2>2, <3>2, <3>5, <3>7
  <2> QED
    BY ZenonT(30), <2>5, <2>6
<1> QED
  BY ZenonT(30), <1>6, <1>12, <1>13 DEF Inv

-----------------------------------------------------------------------------
(* The results.                                                            *)

\* At the start the database is empty and nothing waits for it.
LEMMA InitInv ==
  ASSUME Init
  PROVE  Inv
<1> DEFINE D == UNION {applied[h] : h \in Handlers}
           none == [i \in Ids |-> Absent]
<1>1. /\ wiring \in {"extension", "transport"} /\ called = {}
      /\ handlers = IF wiring = "extension" THEN <<Extension>> ELSE <<>>
      /\ paused = FALSE /\ arrived = <<>> /\ queue = <<>> /\ failures = 0
      /\ table = none
      /\ view = [h \in Subscribers |-> [i \in Ids |-> Null]]
      /\ applied = [h \in Handlers |-> {}] /\ told = [h \in Subscribers |-> {}]
  BY ZenonT(30) DEF Init
<1>2. /\ <<>> \in Seq(Seq(Op)) /\ <<>> \in Seq(Jobs) /\ Len(<<>>) = 0 /\ DOMAIN <<>> = {}
      /\ \A h \in Handlers : <<h>> \in Seq(Handlers) /\ DOMAIN <<h>> = {1} /\ <<h>>[1] = h
      /\ <<>> \in Seq(Handlers)
  OBVIOUS
<1>3. 0 <= MaxDeltas /\ 0 \in 0..MaxFailures
  BY ReplicaAssumption
<1>4. Extension \in Handlers /\ Extension \notin Subscribers
  BY ZenonT(30), ReplicaAssumption DEF Handlers
<1>5. handlers \in Seq(Handlers) /\ \A h \in Registered : h = Extension
  <2>1. CASE wiring = "extension"
    <3>1. handlers = <<Extension>>
      BY ZenonT(30), <1>1, <2>1
    <3> QED
      BY ZenonT(30), <1>2, <1>4, <3>1 DEF Registered
  <2>2. CASE wiring # "extension"
    <3>1. handlers = <<>>
      BY ZenonT(30), <1>1, <2>2
    <3> QED
      BY ZenonT(30), <1>2, <3>1 DEF Registered
  <2> QED
    BY ZenonT(30), <2>1, <2>2
<1>6. TypeOK
  <2>1. paused \in BOOLEAN /\ called \subseteq Handlers \cup {Reader} /\ Len(arrived) <= MaxDeltas
    BY ZenonT(30), <1>1, <1>2, <1>3
  <2>2. /\ table \in [Ids -> LocalRow \cup {Absent}]
        /\ view \in [Subscribers -> [Ids -> LocalRow \cup {Absent, Null}]]
        /\ applied \in [Handlers -> SUBSET (1..MaxDeltas)]
        /\ told \in [Subscribers -> SUBSET (1..MaxDeltas)]
    BY ZenonT(30), <1>1
  <2> QED
    BY ZenonT(30), <1>1, <1>2, <1>3, <1>5, <2>1, <2>2 DEF TypeOK
<1>7. Queued = {}
  BY ZenonT(30), <1>1, <1>2 DEF Queued, SetOf
<1>8. QueueInv
  BY ZenonT(30), <1>1, <1>2, <1>7 DEF QueueInv, InOrder
<1>9. ReadInv /\ CalledInv
  <2>1. /\ \A h \in Handlers : applied[h] = {}
        /\ \A h \in Subscribers : told[h] = {} /\ \A i \in Ids : view[h][i] = Null
    BY ZenonT(30), <1>1
  <2>2. \A h \in Subscribers : h \in Handlers /\ h # Extension
    BY ZenonT(30), <1>4 DEF Handlers
  <2>3. ReadInv
    BY ZenonT(30), <1>7, <2>1 DEF ReadInv
  <2>4. CalledInv
    BY ZenonT(30), <1>5, <1>7, <2>1, <2>2 DEF CalledInv
  <2> QED
    BY ZenonT(30), <2>3, <2>4
<1>10. HeardInv /\ ViewInv
  BY ZenonT(30), <1>4, <1>5 DEF HeardInv, ViewInv
<1>11. LocalIsReplay
  <2>1. arrived \in Seq(Seq(Op)) /\ Len(arrived) = 0
    BY ZenonT(30), <1>1, <1>2
  <2> HIDE DEF D
  <2>2. Replays(arrived, D)[0] = none
    BY ZenonT(30), <2>1, ReplaysEquations DEF IsReplay
  <2>3. table = Replays(arrived, D)[Len(arrived)]
    BY ZenonT(30), <1>1, <2>1, <2>2
  <2> QED
    BY ZenonT(30), <2>3 DEF D, LocalIsReplay, Replay
<1> QED
  BY ZenonT(30), <1>6, <1>8, <1>9, <1>10, <1>11 DEF Inv

\* Every step keeps the invariant.
LEMMA NextInv ==
  ASSUME Inv, [Next]_vars
  PROVE  Inv'
<1>1. ASSUME NEW batch \in Batches, Delta(batch) PROVE Inv'
  BY ZenonT(30), <1>1, DeltaInv
<1>2. ASSUME NEW h \in Subscribers, Subscribe(h) PROVE Inv'
  BY ZenonT(30), <1>2, SubscribeInv
<1>3. ASSUME NEW h \in Subscribers, Unsubscribe(h) PROVE Inv'
  BY ZenonT(30), <1>3, UnsubscribeInv
<1>4. CASE SubscribeBucket \/ PauseResume \/ ListOrGet \/ UNCHANGED vars
  BY ZenonT(30), <1>4, OtherCallsInv
<1>5. CASE Apply
  BY ZenonT(30), <1>5, ApplyInv
<1>6. CASE ApplyFails
  BY ZenonT(30), <1>6, ApplyFailsInv
<1>7. CASE ReadBack
  BY ZenonT(30), <1>7, ReadBackInv
<1>8. CASE ReadBackFails
  BY ZenonT(30), <1>8, ReadBackFailsInv
<1> QED
  BY ZenonT(30), <1>1, <1>2, <1>3, <1>4, <1>5, <1>6, <1>7, <1>8 DEF Next

\* prometheusSync, as extension and as transport: the invariant holds in every
\* reachable state.
LEMMA InvCorrect == Spec => []Inv
  BY PTL, InitInv, NextInv DEF Spec

\* The variables keep their types, whatever batches arrive and whatever the
\* application calls.
THEOREM ReplicaTypes == Spec => []TypeOK
<1>1. Inv => TypeOK
  BY ZenonT(30) DEF Inv
<1> QED
  BY PTL, <1>1, InvCorrect

\* applyOps: however many subscribers apply a batch, whichever transactions fail
\* and whoever comes and goes, the local table is what the batches that some
\* handler applied make of it, each once and in order of arrival.
THEOREM LocalIsReplayCorrect == Spec => []LocalIsReplay
<1>1. Inv => LocalIsReplay
  BY ZenonT(30) DEF Inv
<1> QED
  BY PTL, <1>1, InvCorrect

\* handleOps and notifyOne: a subscriber is sent events of the deltas it has
\* applied only, and once the database is idle and no statement has failed, no
\* row that it was told of differs from the row of the table.
THEOREM EventsHonestCorrect == Spec => []EventsHonest
<1>1. ASSUME Inv PROVE EventsHonest
  <2>1. \A h \in Subscribers : told[h] \subseteq applied[h]
    BY ZenonT(30), <1>1 DEF Inv, ReadInv
  <2>2. ASSUME queue = <<>>, failures = 0, NEW h \in Registered \cap Subscribers, NEW i \in Ids,
               view[h][i] \notin {Absent, Null}
        PROVE  view[h][i] = table[i]
    <3>1. DOMAIN <<>> = {}
      OBVIOUS
    <3>2. ~Pending(h, i)
      BY ZenonT(30), <2>2, <3>1 DEF Pending, Queued, SetOf
    <3> QED
      BY ZenonT(30), <1>1, <2>2, <3>2 DEF Inv, ViewInv
  <2> QED
    BY ZenonT(30), <2>1, <2>2 DEF EventsHonest
<1> QED
  BY PTL, <1>1, InvCorrect

-----------------------------------------------------------------------------
(* list().                                                                 *)

\* The WHERE clause that compileFilter builds means what the filter means, if
\* every clause can be translated and an "or" has a clause.
LEMMA FilterCompiled ==
  ASSUME NEW f, NEW row, \A c \in f.clauses : Translatable(c),
         f.logic = "or" => f.clauses # {}
  PROVE  Selects(CompileFilter(f), row) <=> Satisfies(f, row)
<1> DEFINE where == CompileFilter(f)
<1>1. /\ where.clauses = {c \in f.clauses : Translatable(c)}
      /\ where.logic = IF f.logic = "or" /\ {c \in f.clauses : Translatable(c)} # {}
                       THEN "or" ELSE "and"
  BY DEF CompileFilter
<1> HIDE DEF where
<1>2. where.clauses = f.clauses
  BY ZenonT(30), <1>1
<1>3. where.logic = "or" <=> f.logic = "or"
  <2>1. "and" # "or"
    OBVIOUS
  <2> QED
    BY ZenonT(30), <1>1, <1>2, <2>1
<1>4. \A c \in f.clauses : ~IsGroup(c)
  BY ZenonT(30) DEF Translatable
<1>5. CASE f.logic = "or"
  <2>1. Selects(where, row) <=> \E c \in f.clauses : ClauseHolds(c, row)
    BY ZenonT(30), <1>2, <1>3, <1>5 DEF Selects
  <2>2. Satisfies(f, row) <=> \E c \in f.clauses : ClauseHolds(c, row)
    BY ZenonT(30), <1>4, <1>5 DEF Satisfies
  <2> QED
    BY ZenonT(30), <2>1, <2>2 DEF where
<1>6. CASE f.logic # "or"
  <2>1. Selects(where, row) <=> \A c \in f.clauses : ClauseHolds(c, row)
    BY ZenonT(30), <1>2, <1>3, <1>6 DEF Selects
  <2>2. Satisfies(f, row) <=> \A c \in f.clauses : ClauseHolds(c, row)
    BY ZenonT(30), <1>4, <1>6 DEF Satisfies
  <2> QED
    BY ZenonT(30), <2>1, <2>2 DEF where
<1> QED
  BY ZenonT(30), <1>5, <1>6

Rank(K, k) == Cardinality({j \in K : j < k})

\* Counting the smaller keys puts them in order: every rank is taken, and once.
LEMMA Ranking ==
  ASSUME NEW K \in SUBSET Nat, IsFiniteSet(K)
  PROVE  /\ Cardinality(K) \in Nat
         /\ \A i \in 1..Cardinality(K) : \E k \in K : Rank(K, k) = i - 1
         /\ \A k \in K : Rank(K, k) \in Nat /\ Rank(K, k) + 1 \in 1..Cardinality(K)
         /\ \A j, k \in K : Rank(K, j) = Rank(K, k) => j = k
<1>1. PICK n \in Nat : n = Cardinality(K)
  BY ZenonT(30), FS_CardinalityType
<1> DEFINE Low(k) == {j \in K : j < k}
<1>2. ASSUME NEW k \in K
      PROVE  IsFiniteSet(Low(k)) /\ Cardinality(Low(k)) \in Nat /\ Cardinality(Low(k)) < n
  <2>1. Low(k) \in SUBSET K /\ k \notin Low(k)
    OBVIOUS
  <2>2. Low(k) # K
    BY ZenonT(30), <2>1
  <2> HIDE DEF Low
  <2>3. IsFiniteSet(Low(k)) /\ Cardinality(Low(k)) <= Cardinality(K) /\ Cardinality(K) # Cardinality(Low(k))
    BY ZenonT(30), <2>1, <2>2, FS_Subset
  <2>4. Cardinality(Low(k)) \in Nat
    BY ZenonT(30), <2>3, FS_CardinalityType
  <2> QED
    BY <1>1, <2>3, <2>4
<1>3. ASSUME NEW j \in K, NEW k \in K, j < k
      PROVE  Cardinality(Low(j)) < Cardinality(Low(k))
  <2>1. Low(j) \in SUBSET Low(k)
    <3>1. \A x \in K : x < j => x < k
      BY ONLY K \in SUBSET Nat, j \in K, k \in K, j < k, SMTT(30)
    <3> QED
      BY ZenonT(30), <1>3, <3>1
  <2>2. j \in Low(k) /\ j \notin Low(j)
    BY <1>3
  <2> HIDE DEF Low
  <2>3. Cardinality(Low(j)) <= Cardinality(Low(k)) /\ Cardinality(Low(k)) # Cardinality(Low(j))
    BY ZenonT(30), <1>2, <2>1, <2>2, FS_Subset
  <2> QED
    BY <1>2, <2>3
<1>4. \A k \in K : Rank(K, k) = Cardinality(Low(k))
  BY ZenonT(30) DEF Rank
<1> HIDE DEF Low
<1>5. \A j, k \in K : Rank(K, j) = Rank(K, k) => j = k
  <2> SUFFICES ASSUME NEW j \in K, NEW k \in K, Rank(K, j) = Rank(K, k) PROVE j = k
    BY ZenonT(30)
  <2>1. ~(j < k) /\ ~(k < j)
    BY <1>2, <1>3, <1>4
  <2> QED
    BY <2>1
<1> DEFINE f == [k \in K |-> Rank(K, k)]
<1>6. f \in [K -> 0..(n - 1)] /\ \A a, b \in K : f[a] = f[b] => a = b
  BY <1>1, <1>2, <1>4, <1>5
<1>7. \A r \in 0..(n - 1) : \E k \in K : f[k] = r
  <2> HIDE DEF f
  <2>1. f \in Injection(K, 0..(n - 1))
    BY ZenonT(30), <1>6 DEF Injection, IsInjective
  <2>2. IsFiniteSet(0..(n - 1)) /\ Cardinality(0..(n - 1)) = n
    <3>1. PICK m \in Int : m = n - 1
      OBVIOUS
    <3>2. IsFiniteSet(0..m) /\ Cardinality(0..m) = IF 0 > m THEN 0 ELSE m - 0 + 1
      BY FS_Interval
    <3> QED
      BY <3>1, <3>2
  <2>3. f \in Surjection(K, 0..(n - 1))
    BY ZenonT(30), <1>1, <2>1, <2>2, FS_Injection
  <2> QED
    BY ZenonT(30), <2>3 DEF Surjection
<1>8. ASSUME NEW i \in 1..n PROVE \E k \in K : Rank(K, k) = i - 1
  <2>1. i - 1 \in 0..(n - 1)
    OBVIOUS
  <2> QED
    BY ZenonT(30), <1>7, <2>1
<1>9. \A k \in K : Rank(K, k) \in Nat /\ Rank(K, k) + 1 \in 1..n
  BY <1>1, <1>2, <1>4
<1> QED
  BY ZenonT(30), <1>1, <1>5, <1>8, <1>9

\* s lists the elements of K, each once.
Enumerates(s, K) ==
  /\ s \in Seq(K)
  /\ \A j, k \in DOMAIN s : s[j] = s[k] => j = k
  /\ {s[k] : k \in DOMAIN s} = K

\* compileSort: either order lists the keys, each once.
LEMMA OrdersEnumerate ==
  ASSUME NEW K \in SUBSET Nat, IsFiniteSet(K), NEW sort, NEW order \in Orders(sort, K)
  PROVE  Enumerates(order, K)
<1>1. PICK n \in Nat : n = Cardinality(K)
  BY ZenonT(30), Ranking
<1> DEFINE asc == [k \in 1..n |-> CHOOSE i \in K : Rank(K, i) = k - 1]
           desc == [k \in 1..n |-> asc[n + 1 - k]]
<1>2. order = asc \/ order = desc
  BY ZenonT(30), <1>1 DEF Orders, Rank
<1>3. ASSUME NEW k \in 1..n PROVE asc[k] \in K /\ Rank(K, asc[k]) = k - 1
  <2>1. \E i \in K : Rank(K, i) = k - 1
    BY ZenonT(30), <1>1, Ranking
  <2> QED
    BY ZenonT(30), <2>1
<1>4. ASSUME NEW i \in K PROVE \E k \in 1..n : asc[k] = i
  <2>1. Rank(K, i) \in Nat /\ Rank(K, i) + 1 \in 1..n
    BY ZenonT(30), <1>1, Ranking
  <2>2. PICK k \in 1..n : k - 1 = Rank(K, i)
    BY <2>1
  <2>3. asc[k] \in K /\ Rank(K, asc[k]) = Rank(K, i)
    BY ZenonT(30), <1>3, <2>2
  <2>4. asc[k] = i
    BY ZenonT(30), <2>3, Ranking
  <2> QED
    BY ZenonT(30), <2>4
<1>5. DOMAIN asc = 1..n /\ DOMAIN desc = 1..n /\ \A k \in 1..n : desc[k] = asc[n + 1 - k]
  BY ZenonT(30)
<1> HIDE DEF asc, desc
<1>6. \A k \in 1..n : n + 1 - k \in 1..n /\ n + 1 - (n + 1 - k) = k
  OBVIOUS
<1>7. asc \in Seq(K) /\ desc \in Seq(K)
  <2>1. \A k \in 1..n : asc[k] \in K /\ desc[k] \in K
    BY ZenonT(30), <1>3, <1>5, <1>6
  <2>2. asc \in [1..n -> K] /\ desc \in [1..n -> K]
    BY ZenonT(30), <2>1 DEF asc, desc
  <2>3. \A s \in [1..n -> K] : s \in Seq(K)
    BY ONLY n \in Nat, SMTT(30)
  <2> QED
    BY ZenonT(30), <2>2, <2>3
<1>8. ASSUME NEW j \in 1..n, NEW k \in 1..n, asc[j] = asc[k] PROVE j = k
  <2>1. j - 1 = k - 1
    BY ZenonT(30), <1>3, <1>8
  <2> QED
    BY <2>1
<1>9. ASSUME NEW j \in 1..n, NEW k \in 1..n, desc[j] = desc[k] PROVE j = k
  <2>1. n + 1 - j = n + 1 - k
    <3>1. asc[n + 1 - j] = asc[n + 1 - k]
      BY ZenonT(30), <1>5, <1>9
    <3> QED
      BY ZenonT(30), <1>6, <1>8, <3>1
  <2> QED
    BY <2>1
<1>10. Enumerates(asc, K)
  <2>1. {asc[k] : k \in 1..n} = K
    BY ZenonT(30), <1>3, <1>4
  <2> QED
    BY ZenonT(30), <1>5, <1>7, <1>8, <2>1 DEF Enumerates
<1>11. Enumerates(desc, K)
  <2>1. ASSUME NEW i \in K PROVE \E k \in 1..n : desc[k] = i
    <3>1. PICK k \in 1..n : asc[k] = i
      BY ZenonT(30), <1>4
    <3>2. PICK l \in 1..n : n + 1 - l = k
      BY <1>6
    <3> QED
      BY ZenonT(30), <1>5, <3>1, <3>2
  <2>2. \A k \in 1..n : desc[k] \in K
    BY ZenonT(30), <1>3, <1>5, <1>6
  <2>3. {desc[k] : k \in 1..n} = K
    BY ZenonT(30), <2>1, <2>2
  <2> QED
    BY ZenonT(30), <1>5, <1>7, <1>9, <2>3 DEF Enumerates
<1> QED
  BY ZenonT(30), <1>2, <1>10, <1>11

\* What a caller has after some pages: the first rows in order, up to the
\* cursor; all of them, when the cursor is null.
Reached(order) ==
  {r \in [rows : {SubSeq(order, 1, m) : m \in 0..Len(order)}, cursor : (0..Len(order)) \cup {Null}] :
     IF r.cursor = Null THEN r.rows = order ELSE r.rows = SubSeq(order, 1, r.cursor)}

\* Prefixes of a sequence.
LEMMA Prefixes ==
  ASSUME NEW S, NEW s \in Seq(S)
  PROVE  /\ SubSeq(s, 1, 0) = <<>> /\ SubSeq(s, 1, Len(s)) = s
         /\ \A a \in 0..Len(s) : \A b \in a..Len(s) :
              /\ SubSeq(s, 1, a) \o SubSeq(s, a + 1, b) = SubSeq(s, 1, b)
              /\ Len(SubSeq(s, a + 1, b)) = b - a
<1>1. PICK n \in Nat : n = Len(s)
  OBVIOUS
<1>2. SubSeq(s, 1, 0) = <<>> /\ SubSeq(s, 1, Len(s)) = s
  OBVIOUS
<1>3. ASSUME NEW a \in 0..n, NEW b \in a..n
      PROVE  /\ SubSeq(s, 1, a) \o SubSeq(s, a + 1, b) = SubSeq(s, 1, b)
             /\ Len(SubSeq(s, a + 1, b)) = b - a
  <2>1. a \in Nat /\ b \in Nat /\ a <= b /\ b <= n
    OBVIOUS
  <2> QED
    BY <1>1, <2>1
<1> QED
  BY ZenonT(30), <1>1, <1>2, <1>3

Read(q, order, r) ==
  LET rows == Page(order, q.limit, r.cursor) IN
  IF r.cursor = Null THEN r
  ELSE [rows |-> r.rows \o rows, cursor |-> NextCursor(rows, q.limit, r.cursor)]

\* What list() returns.
LEMMA PageRecord ==
  ASSUME NEW A, NEW B, NEW x \in A, NEW y \in B
  PROVE  LET t == [rows |-> x, cursor |-> y] IN
         t.rows = x /\ t.cursor = y /\ t \in [rows : A, cursor : B]
OBVIOUS

\* One more page: the next rows, with the cursor behind them.
LEMMA OneMorePage ==
  ASSUME NEW S, NEW order \in Seq(S), NEW q, q.limit \in Nat \ {0}, NEW r \in Reached(order)
  PROVE  /\ Read(q, order, r) \in Reached(order)
         /\ r.cursor = Null => Read(q, order, r).cursor = Null
         /\ r.cursor \in Nat /\ Read(q, order, r).cursor # Null =>
              Read(q, order, r).cursor \in Nat /\ r.cursor + 1 <= Read(q, order, r).cursor
<1>1. PICK n \in Nat : n = Len(order)
  OBVIOUS
<1>2. PICK l \in Nat \ {0} : l = q.limit
  OBVIOUS
<1>3. Null \notin Nat
  BY ZenonT(30), ReplicaAssumption
<1>4. CASE r.cursor = Null
  <2>1. Read(q, order, r) = r
    BY ZenonT(30), <1>4 DEF Read
  <2> QED
    BY ZenonT(30), <1>3, <1>4, <2>1
<1>5. CASE r.cursor # Null
  <2>1. PICK c \in 0..n : c = r.cursor /\ r.rows = SubSeq(order, 1, c)
    BY <1>1, <1>5 DEF Reached
  <2> DEFINE e == IF c + l < n THEN c + l ELSE n
             page == SubSeq(order, c + 1, e)
             t == Read(q, order, r)
  <2>2. /\ e \in 0..n /\ e \in c..n /\ e \in Nat /\ c \in Nat
        /\ e - c = l => c + l = e /\ c + 1 <= c + l
        /\ e - c # l => e = n
    OBVIOUS
  <2>3. page = Page(order, q.limit, r.cursor)
    BY ZenonT(30), <1>1, <1>2, <2>1 DEF Page
  <2> HIDE DEF e
  <2>4. SubSeq(order, 1, c) \o page = SubSeq(order, 1, e) /\ Len(page) = e - c
    BY ZenonT(30), <1>1, <2>2, Prefixes
  <2>5. t = [rows |-> SubSeq(order, 1, e), cursor |-> IF e - c = l THEN c + l ELSE Null]
    BY ZenonT(30), <1>2, <1>5, <2>1, <2>3, <2>4 DEF Read, NextCursor
  <2> HIDE DEF page, t
  <2> DEFINE Prefix == {SubSeq(order, 1, m) : m \in 0..Len(order)}
             Cursor == (0..Len(order)) \cup {Null}
  <2>6. PICK x \in Prefix : x = SubSeq(order, 1, e)
    BY ZenonT(30), <1>1, <2>2
  <2>7. CASE e - c = l
    <3>1. PICK y \in Cursor : y = e /\ y = c + l
      BY ZenonT(30), <1>1, <2>2, <2>7
    <3>2. t = [rows |-> x, cursor |-> y]
      BY ZenonT(30), <2>5, <2>6, <2>7, <3>1
    <3> HIDE DEF Prefix, Cursor
    <3>3. t.rows = x /\ t.cursor = y /\ t \in [rows : Prefix, cursor : Cursor]
      BY ZenonT(30), <3>2, PageRecord
    <3>4. t.cursor # Null /\ t.cursor \in Nat /\ t.rows = SubSeq(order, 1, t.cursor)
          /\ r.cursor + 1 <= t.cursor
      BY ZenonT(30), <1>3, <2>1, <2>2, <2>6, <2>7, <3>1, <3>3
    <3>5. t \in Reached(order)
      BY ZenonT(30), <3>3, <3>4 DEF Reached, Prefix, Cursor
    <3> QED
      BY ZenonT(30), <1>5, <3>4, <3>5 DEF t
  <2>8. CASE e - c # l
    <3>1. SubSeq(order, 1, Len(order)) = order
      BY ZenonT(30), Prefixes
    <3>2. x = order
      BY ZenonT(30), <1>1, <2>2, <2>6, <2>8, <3>1
    <3>3. t = [rows |-> x, cursor |-> Null] /\ Null \in Cursor
      BY ZenonT(30), <2>5, <2>6, <2>8
    <3> HIDE DEF Prefix, Cursor
    <3>4. t.rows = x /\ t.cursor = Null /\ t \in [rows : Prefix, cursor : Cursor]
      BY ZenonT(30), <3>3, PageRecord
    <3>5. t \in Reached(order)
      BY ZenonT(30), <3>2, <3>4 DEF Reached, Prefix, Cursor
    <3> QED
      BY ZenonT(30), <1>5, <3>4, <3>5 DEF t
  <2> QED
    BY ZenonT(30), <2>7, <2>8
<1> QED
  BY ZenonT(30), <1>4, <1>5

\* Following the cursors to the end yields the whole list: each page but the
\* last moves the cursor on.
LEMMA ListedAll ==
  ASSUME NEW S, NEW order \in Seq(S), NEW q, q.limit \in Nat \ {0}
  PROVE  Listed(q, order) = order
<1> DEFINE R == Reached(order)
           first == [rows |-> <<>>, cursor |-> 0]
           After(r) == Read(q, order, r)
<1>1. PICK n \in Nat : n = Len(order)
  OBVIOUS
<1>2. PICK N \in Nat : N = n + 1
  OBVIOUS
<1>3. Null \notin Nat
  BY ZenonT(30), ReplicaAssumption
<1>4. first \in R /\ first.cursor = 0
  <2>1. 0 \in 0..Len(order) /\ SubSeq(order, 1, 0) = <<>>
    BY <1>1, Prefixes
  <2> DEFINE Prefix == {SubSeq(order, 1, m) : m \in 0..Len(order)}
             Cursor == (0..Len(order)) \cup {Null}
  <2>2. <<>> \in Prefix /\ 0 \in Cursor
    BY ZenonT(30), <2>1
  <2> HIDE DEF Prefix, Cursor
  <2>3. first.rows = <<>> /\ first.cursor = 0 /\ first \in [rows : Prefix, cursor : Cursor]
    BY ZenonT(30), <2>2, PageRecord
  <2> HIDE DEF first
  <2>4. 0 # Null
    BY <1>3
  <2> QED
    BY ZenonT(30), <2>1, <2>3, <2>4 DEF Reached, Prefix, Cursor
<1>5. ASSUME NEW r \in R
      PROVE  /\ After(r) \in R
             /\ r.cursor = Null => After(r).cursor = Null
             /\ r.cursor \in Nat /\ After(r).cursor # Null =>
                  After(r).cursor \in Nat /\ r.cursor + 1 <= After(r).cursor
  BY ZenonT(30), OneMorePage
<1>6. \A r \in R : r.cursor \in (0..n) \cup {Null} /\ (r.cursor = Null => r.rows = order)
  BY ZenonT(30), <1>1 DEF Reached
<1> HIDE DEF R, first, After
<1> DEFINE g == [p \in (1..N) \X R |-> After(p[2])]
<1>7. g \in [(1..N) \X R -> R] /\ \A k \in 1..N, r \in R : g[<<k, r>>] = After(r)
  <2>1. \A p \in (1..N) \X R : p[2] \in R
    OBVIOUS
  <2>2. \A k \in 1..N, r \in R : <<k, r>> \in (1..N) \X R /\ <<k, r>>[2] = r
    OBVIOUS
  <2>3. \A p \in (1..N) \X R : After(p[2]) \in R
    BY ZenonT(30), <1>5, <2>1
  <2>4. ASSUME NEW k \in 1..N, NEW r \in R PROVE g[<<k, r>>] = After(r)
    <3>1. g[<<k, r>>] = After(<<k, r>>[2])
      BY ZenonT(30), <2>2
    <3> QED
      BY ZenonT(30), <2>2, <3>1
  <2> QED
    BY ZenonT(30), <2>3, <2>4
<1> HIDE DEF g
<1>8. PICK f \in [0..N -> R] : f[0] = first /\ \A k \in 1..N : f[k] = g[<<k, f[k - 1]>>]
  <2>1. \E f \in [0..N -> R] : IsRecursion(f, N, first, g)
    BY ZenonT(30), <1>4, <1>7, RecursionUpTo
  <2> QED
    BY ZenonT(30), <2>1 DEF IsRecursion
<1> DEFINE Step(F) == [k \in 0..N |-> IF k = 0 THEN first ELSE After(F[k - 1])]
<1>9. \A k \in 0..N : k # 0 => k \in 1..N /\ k - 1 \in 0..N
  OBVIOUS
<1>10. f = Step(f)
  <2>1. \A k \in 0..N : f[k] = IF k = 0 THEN first ELSE After(f[k - 1])
    BY ZenonT(30), <1>7, <1>8, <1>9
  <2>2. f = [k \in 0..N |-> f[k]]
    BY ZenonT(30), <1>8
  <2> QED
    BY ZenonT(30), <2>1, <2>2
<1> DEFINE a == Pages(q, order)
<1>11. a = CHOOSE F : F = Step(F)
  BY ZenonT(30), <1>1, <1>2 DEF Pages, After, Read, first
<1>12. a = Step(a)
  <2> HIDE DEF Step, a
  <2> QED
    BY ZenonT(30), <1>10, <1>11
<1> HIDE DEF a
<1>13. a[0] = first /\ \A k \in 1..N : a[k] = After(a[k - 1])
  <2>1. 0 \in 0..N /\ \A k \in 1..N : k \in 0..N /\ k # 0
    OBVIOUS
  <2>2. \A k \in 0..N : a[k] = IF k = 0 THEN first ELSE After(a[k - 1])
    BY ZenonT(30), <1>12
  <2> QED
    BY ZenonT(30), <2>1, <2>2
<1> DEFINE Good == {k \in 0..N : a[k] \in R /\ (a[k].cursor # Null => a[k].cursor \in Nat /\ k <= a[k].cursor)}
<1>14. 0..N \subseteq Good
  <2>1. 0 \in Good
    <3>1. 0 \in 0..N /\ 0 \in Nat /\ 0 <= 0
      OBVIOUS
    <3> QED
      BY ZenonT(30), <1>4, <1>13, <3>1
  <2>2. ASSUME NEW k \in 1..N, k - 1 \in Good PROVE k \in Good
    <3>1. PICK r \in R : r = a[k - 1] /\ (r.cursor # Null => r.cursor \in Nat /\ k - 1 <= r.cursor)
      BY ZenonT(30), <2>2
    <3>2. a[k] = After(r)
      BY ZenonT(30), <1>13, <3>1
    <3>3. /\ a[k] \in R
          /\ r.cursor = Null => a[k].cursor = Null
          /\ r.cursor \in Nat /\ a[k].cursor # Null => a[k].cursor \in Nat /\ r.cursor + 1 <= a[k].cursor
      BY ZenonT(30), <1>5, <3>2
    <3>4. ASSUME a[k].cursor # Null PROVE a[k].cursor \in Nat /\ k <= a[k].cursor
      <4>1. r.cursor \in Nat /\ k - 1 <= r.cursor /\ a[k].cursor \in Nat /\ r.cursor + 1 <= a[k].cursor
        BY ZenonT(30), <3>1, <3>3, <3>4
      <4> QED
        BY ONLY <4>1, k \in 1..N, N \in Nat, SMTT(30)
    <3>5. k \in 0..N
      BY ONLY k \in 1..N, N \in Nat, SMTT(30)
    <3> QED
      BY ZenonT(30), <3>3, <3>4, <3>5
  <2> HIDE DEF Good
  <2> QED
    BY ZenonT(30), <2>1, <2>2, InductionUpTo
<1>15. a[N] \in R /\ (a[N].cursor # Null => a[N].cursor \in Nat /\ N <= a[N].cursor)
  <2>1. N \in 0..N
    OBVIOUS
  <2> QED
    BY ZenonT(30), <1>14, <2>1
<1>16. a[N].cursor = Null
  <2>1. a[N].cursor \in 0..n \/ a[N].cursor = Null
    BY ZenonT(30), <1>6, <1>15
  <2>2. \A c \in 0..n : ~(N <= c)
    BY ONLY n \in Nat, N \in Nat, <1>2, SMTT(30)
  <2> QED
    BY ZenonT(30), <1>15, <2>1, <2>2
<1>17. a[N].rows = order
  BY ZenonT(30), <1>6, <1>15, <1>16
<1>18. Listed(q, order) = a[N].rows
  BY ZenonT(30), <1>1, <1>2 DEF Listed, a
<1> QED
  BY ZenonT(30), <1>17, <1>18

\* list(): a caller that follows the cursors to the end, while the table does
\* not change, has each row that satisfies the filter once: for every page size,
\* every set of rows and every filter of plain clauses.
THEOREM ListCompleteCorrect == Spec => []ListComplete
<1>1. ListComplete
  <2> SUFFICES ASSUME NEW q \in Queries, NEW order \in Orders(q.sort, Matching(q)),
                      \A c \in q.filter.clauses : Translatable(c),
                      q.filter.logic = "or" => q.filter.clauses # {}
               PROVE  LET rows == Listed(q, order) IN
                      /\ \A j, k \in DOMAIN rows : rows[j] = rows[k] => j = k
                      /\ {rows[k] : k \in DOMAIN rows} =
                           {i \in Ids : table[i] # Absent /\ Satisfies(q.filter, table[i])}
    BY ZenonT(30) DEF ListComplete
  <2> DEFINE K == Matching(q)
  <2>1. K \in SUBSET Ids
    BY ZenonT(30) DEF Matching
  <2>2. K = {i \in Ids : table[i] # Absent /\ Satisfies(q.filter, table[i])}
    <3>1. ASSUME NEW row PROVE Selects(CompileFilter(q.filter), row) <=> Satisfies(q.filter, row)
      BY ZenonT(30), FilterCompiled
    <3> QED
      BY ZenonT(30), <3>1 DEF Matching
  <2> HIDE DEF K
  <2>3. IsFiniteSet(K) /\ K \in SUBSET Nat
    BY ZenonT(30), <2>1, ReplicaAssumption, FS_Subset
  <2>4. Enumerates(order, K)
    BY ZenonT(30), <2>3, OrdersEnumerate DEF K
  <2>5. order \in Seq(K) /\ q.limit \in Nat \ {0}
    BY ZenonT(30), <2>4, ReplicaAssumption DEF Enumerates
  <2>6. Listed(q, order) = order
    BY ZenonT(30), <2>5, ListedAll
  <2> QED
    BY ZenonT(30), <2>2, <2>4, <2>6 DEF Enumerates
<1> QED
  BY PTL, <1>1
=============================================================================
