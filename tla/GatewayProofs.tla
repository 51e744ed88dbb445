---------------------------- MODULE GatewayProofs ----------------------------
(***************************************************************************)
(* The two parts of the server around a session.  connection_count is      *)
(* exact, for any number of connections, and with it a clean shutdown cuts *)
(* off no client that had got past its first step.  Keyset pagination is   *)
(* right for any tables, any batch size and any concurrent changes: the    *)
(* proofs of StableRowsDelivered and NoRowTwice.                           *)
(***************************************************************************)
EXTENDS ServerProcess, SnapshotStream, FiniteSetTheorems, TLAPS

\* A leaf that names no prover is tried with these.
USE SMTT(30), ZenonT(30)

-----------------------------------------------------------------------------
(* The server process *)

\* main() reports its verdict only as it exits.
VerdictInv == (verdict # "none") => main = "exited"

Inv == TypeOK /\ VerdictInv /\ CountIsExact /\ CleanExit

\* The connections that are counted are finitely many.
LEMMA CountedFinite ==
  ASSUME TypeOK
  PROVE  IsFiniteSet(InPhase(Counted)) /\ Cardinality(InPhase(Counted)) \in Nat
<1>1. IsFiniteSet(InPhase(Counted))
  BY ProcessAssumption, FS_Subset DEF InPhase
<1> QED
  BY <1>1, FS_CardinalityType

\* A step of one connection adds it to the counted tasks, removes it from
\* them, or leaves them alone.
LEMMA MoveCounted ==
  ASSUME TypeOK, NEW c \in Conns, NEW to \in Phases, phase' = [phase EXCEPT ![c] = to]
  PROVE  InPhase(Counted)' = IF to \in Counted THEN InPhase(Counted) \cup {c}
                             ELSE InPhase(Counted) \ {c}
BY DEF TypeOK, InPhase

\* The invariant holds when the process starts.
LEMMA InvInit == Init => Inv
<1> SUFFICES ASSUME Init PROVE Inv
  OBVIOUS
<1>1. InPhase(Counted) = {}
  BY DEF Init, InPhase, Counted
<1>2. TypeOK
  BY ZenonT(30) DEF Init, TypeOK, Phases
<1> QED
  BY <1>1, <1>2, FS_EmptySet DEF Init, Inv, VerdictInv, CountIsExact, CleanExit

\* The steps that change the phase of a connection.
LEMMA TaskStep ==
  ASSUME Inv, NEW c \in Conns, NEW from \in Phases, NEW to \in Phases,
         main # "exited", phase[c] = from, phase' = [phase EXCEPT ![c] = to],
         UNCHANGED <<mainVars, accepting>>,
         \/ from \notin Counted /\ to \in Counted /\ count' = count + 1
         \/ from \in Counted /\ to \notin Counted /\ count' = count - 1
         \/ (from \in Counted <=> to \in Counted) /\ count' = count
  PROVE  Inv'
<1> USE DEF Inv
<1> DEFINE S == InPhase(Counted)
<1>1. IsFiniteSet(S) /\ Cardinality(S) \in Nat /\ (c \in S <=> from \in Counted)
  BY CountedFinite DEF InPhase
<1>2. count' = Cardinality(S')
  <2>1. CASE from \notin Counted /\ to \in Counted /\ count' = count + 1
    <3>1. S' = S \cup {c} /\ c \notin S
      BY ZenonT(30), <1>1, <2>1, MoveCounted
    <3> QED
      BY ZenonT(30), <1>1, <2>1, <3>1, FS_AddElement DEF CountIsExact
  <2>2. CASE from \in Counted /\ to \notin Counted /\ count' = count - 1
    <3>1. S' = S \ {c} /\ c \in S
      BY ZenonT(30), <1>1, <2>2, MoveCounted
    <3> QED
      BY ZenonT(30), <1>1, <2>2, <3>1, FS_RemoveElement DEF CountIsExact
  <2>3. CASE (from \in Counted <=> to \in Counted) /\ count' = count
    <3>1. S' = S
      BY ZenonT(30), <1>1, <2>3, MoveCounted
    <3> QED
      BY <2>3, <3>1 DEF CountIsExact
  <2> QED
    BY <2>1, <2>2, <2>3
<1>3. TypeOK'
  <2>1. phase' \in [Conns -> Phases]
    BY DEF TypeOK
  <2>2. count' \in Nat
    <3>1. IsFiniteSet(S')
      BY <2>1, ProcessAssumption, FS_Subset DEF InPhase
    <3> QED
      BY <1>2, <3>1, FS_CardinalityType
  <2> QED
    BY <2>1, <2>2 DEF TypeOK, mainVars
<1>4. verdict' = "none"
  BY DEF VerdictInv, mainVars
<1> QED
  BY <1>2, <1>3, <1>4 DEF VerdictInv, CountIsExact, CleanExit

\* Every step of main(), of the accept loop and of a connection task keeps the
\* invariant.
LEMMA InvNext == Inv /\ [Next]_vars => Inv'
<1> SUFFICES ASSUME Inv, [Next]_vars PROVE Inv'
  OBVIOUS
<1> USE DEF Inv
<1>1. CASE \/ StartGateway \/ PipelineStarts \/ PipelineStops \/ Sigterm \/ Drained \/ Deadline
           \/ StopAccepting \/ AcceptFails \/ UNCHANGED vars
  <2>1. UNCHANGED <<phase, count, verdict>>
    BY <1>1 DEF StartGateway, PipelineStarts, PipelineStops, Sigterm, Drained, Deadline,
                StopAccepting, AcceptFails, mainVars, vars
  <2>2. InPhase(Counted)' = InPhase(Counted)
    BY <2>1 DEF InPhase
  <2>3. VerdictInv'
    BY <1>1, <2>1 DEF VerdictInv, StartGateway, PipelineStarts, PipelineStops, Sigterm, Drained,
                Deadline, StopAccepting, AcceptFails, mainVars, vars
  <2>4. TypeOK'
    BY ZenonT(30), <1>1 DEF TypeOK, StartGateway, PipelineStarts, PipelineStops, Sigterm, Drained,
                Deadline, StopAccepting, AcceptFails, mainVars, vars
  <2> QED
    BY <2>1, <2>2, <2>3, <2>4 DEF CountIsExact, CleanExit
<1>2. CASE Exit
  <2>1. InPhase(Counted)' = InPhase(Counted)
    BY <1>2 DEF Exit, InPhase
  <2>2. count = 0 => InPhase(Counted) = {}
    BY ZenonT(30), CountedFinite, FS_EmptySet DEF CountIsExact
  <2>3. TypeOK' /\ VerdictInv'
    BY <1>2 DEF Exit, TypeOK, VerdictInv
  <2>4. CleanExit'
    BY <1>2, <2>1, <2>2 DEF Exit, CleanExit
  <2> QED
    BY <1>2, <2>1, <2>3, <2>4 DEF Exit, CountIsExact
<1>3. ASSUME NEW c \in Conns, Accept(c) PROVE Inv'
  <2>1. PICK to \in {"rejected", "spawned"} : phase' = [phase EXCEPT ![c] = to]
    BY ZenonT(30), <1>3 DEF Accept
  <2>2. main # "exited" /\ phase[c] = "new" /\ UNCHANGED <<mainVars, accepting>> /\ UNCHANGED count
    BY <1>3 DEF Accept
  <2>3. to \in Phases /\ "new" \in Phases /\ "new" \notin Counted /\ to \notin Counted
    BY DEF Phases, Counted
  <2> QED
    BY ZenonT(30), <2>1, <2>2, <2>3, TaskStep
<1>4. ASSUME NEW c \in Conns, Count(c) PROVE Inv'
  BY ZenonT(30), <1>4, TaskStep DEF Count, Move, Phases, Counted
<1>5. ASSUME NEW c \in Conns, UpgradeFails(c) PROVE Inv'
  BY ZenonT(30), <1>5, TaskStep DEF UpgradeFails, Move, Phases, Counted
<1>6. ASSUME NEW c \in Conns, Uncount(c) PROVE Inv'
  BY ZenonT(30), <1>6, TaskStep DEF Uncount, Move, Phases, Counted
<1>7. ASSUME NEW c \in Conns, Upgrade(c) PROVE Inv'
  BY ZenonT(30), <1>7, TaskStep DEF Upgrade, Move, Phases, Counted
<1>8. ASSUME NEW c \in Conns, Subscribe(c) PROVE Inv'
  BY ZenonT(30), <1>8, TaskStep DEF Subscribe, Move, Phases, Counted
<1>9. ASSUME NEW c \in Conns, SnapshotDone(c) PROVE Inv'
  BY ZenonT(30), <1>9, TaskStep DEF SnapshotDone, Move, Phases, Counted
<1>10. ASSUME NEW c \in Conns, End(c) \/ Notify(c) PROVE Inv'
  <2>1. PICK p \in Open : Move(c, p, "ended") /\ count' = count
    BY <1>10 DEF End, Notify, Open
  <2>2. p \in Counted /\ "ended" \in Counted /\ Counted \subseteq Phases
    BY DEF Open, Counted, Phases
  <2> QED
    BY ZenonT(30), <2>1, <2>2, TaskStep DEF Move
<1> QED
  BY <1>1, <1>2, <1>3, <1>4, <1>5, <1>6, <1>7, <1>8, <1>9, <1>10 DEF Next

\* connection_count counts the tasks between fetch_add and fetch_sub.
THEOREM CountIsExactCorrect == Spec => []CountIsExact
<1>1. Inv => CountIsExact
  BY DEF Inv
<1> QED
  BY <1>1, InvInit, InvNext, PTL DEF Spec

\* When main.rs reports a clean exit, no counted task is cut off.
THEOREM CleanExitCorrect == Spec => []CleanExit
<1>1. Inv => CleanExit
  BY DEF Inv
<1> QED
  BY <1>1, InvInit, InvNext, PTL DEF Spec

-----------------------------------------------------------------------------
(* The snapshot of a bucket *)

USE StreamAssumption, NoQueryAssumption DEF None, NoQuery

\* A query not yet started has yielded nothing.
TodoInv == \A q \in todo : sent[q] = {} /\ stable[q] = {}

\* The query being paged.  A wrong cast was chosen on an empty result set, so
\* no row can have been there all along; with the right one the cursor splits
\* the rows into those yielded and those to come.
CursorInv ==
  current # NoQuery =>
    /\ stable[current] \subseteq rows[current]
    /\ ~RightCast(current) => stable[current] = {}
    /\ RightCast(current) => \A i \in sent[current] : cursor # None /\ i <= cursor
    /\ \A i \in stable[current] : cursor # None /\ i <= cursor => i \in sent[current]

StreamInv == StreamTypeOK /\ TodoInv /\ CursorInv /\ StableRowsDelivered

\* The invariant holds before the first query is paged.
LEMMA StreamInvInit == StreamInit => StreamInv
BY DEF StreamInit, StreamInv, StreamTypeOK, TodoInv, CursorInv, StableRowsDelivered, Done, Started

\* What a page leaves behind: rows up to its last one are yielded.
LEMMA PageCovers ==
  ASSUME StreamTypeOK, CursorInv, current # NoQuery,
         NEW page \in SUBSET {i \in rows[current] : After(current, i)},
         IsPage(page, {i \in rows[current] : After(current, i)})
  PROVE  /\ IsLast(page) => stable[current] \subseteq sent[current] \cup page
         /\ \A last \in page : \A i \in stable[current] :
              i <= last => i \in sent[current] \cup page
<1> DEFINE above == {i \in rows[current] : After(current, i)}
<1> SUFFICES ASSUME NEW i \in stable[current], i \notin sent[current]
             PROVE  /\ IsLast(page) => i \in page
                    /\ \A last \in page : i <= last => i \in page
  OBVIOUS
<1>1. i \in rows[current] /\ RightCast(current) /\ ~(cursor # None /\ i <= cursor)
  BY DEF CursorInv
<1>2. i \in Nat /\ (cursor = None \/ cursor \in Nat) /\ page \subseteq Nat
  BY <1>1 DEF StreamTypeOK
<1>3. After(current, i)
  BY <1>1, <1>2 DEF After, RightCast
<1>4. i \in above
  BY <1>1, <1>3
<1>5. IsLast(page) => page = above
  BY DEF IsPage, IsLast
<1>6. i \in page \/ \A j \in page : j < i
  BY <1>4 DEF IsPage
<1> QED
  BY <1>2, <1>4, <1>5, <1>6

\* With the right cast a page lies above everything yielded before.
LEMMA PageAbove ==
  ASSUME StreamTypeOK, CursorInv, current # NoQuery, RightCast(current),
         NEW page \in SUBSET {i \in rows[current] : After(current, i)}
  PROVE  \A i \in page, j \in sent[current] : j < i
<1> SUFFICES ASSUME NEW i \in page, NEW j \in sent[current] PROVE j < i
  OBVIOUS
<1>1. cursor # None /\ j <= cursor
  BY DEF CursorInv
<1>2. cursor < i
  BY ZenonT(30), <1>1 DEF After, RightCast
<1>3. i \in Nat /\ j \in Nat /\ cursor \in Nat
  BY <1>1 DEF StreamTypeOK
<1> QED
  BY <1>1, <1>2, <1>3

\* Every page that stream() yields, and every change of the table between two
\* pages, keeps the invariant.
LEMMA StreamInvNext == StreamInv /\ [StreamNext]_streamVars => StreamInv'
<1> SUFFICES ASSUME StreamInv, [StreamNext]_streamVars PROVE StreamInv'
  OBVIOUS
<1> USE DEF StreamInv
<1>1. CASE StartQuery
  <2>1. PICK q \in todo : /\ todo' = todo \ {q} /\ current' = q
                          /\ cast' = [cast EXCEPT ![q] = DetectIdCast(q)]
                          /\ stable' = [stable EXCEPT ![q] = rows[q]]
    BY ZenonT(30), <1>1 DEF StartQuery
  <2>2. cursor' = None /\ UNCHANGED <<rows, batch, sent, outcome>> /\ current = NoQuery
    BY <1>1 DEF StartQuery
  <2>3. StreamTypeOK'
    BY <2>1, <2>2 DEF StreamTypeOK, DetectIdCast
  <2>4. TodoInv'
    BY <2>1, <2>2 DEF TodoInv, StreamTypeOK
  <2>5. CursorInv'
    BY <2>1, <2>2 DEF CursorInv, StreamTypeOK, TodoInv, RightCast, DetectIdCast
  <2>6. StableRowsDelivered'
    BY <2>1, <2>2 DEF StableRowsDelivered, Done, Started, StreamTypeOK
  <2> QED
    BY <2>3, <2>4, <2>5, <2>6
<1>2. CASE FetchPage
  <2> DEFINE above == {i \in rows[current] : After(current, i)}
  <2>1. current # NoQuery /\ current \in Queries /\ current \notin todo
    BY <1>2 DEF FetchPage, StreamTypeOK
  <2>2. PICK page \in SUBSET above :
          /\ IsPage(page, above) /\ batch' = page
          /\ sent' = [sent EXCEPT ![current] = @ \cup page]
          /\ \/ /\ IsLast(page) /\ current' = NoQuery
                /\ outcome' \in {"complete", "streaming"} /\ UNCHANGED cursor
             \/ /\ ~IsLast(page)
                /\ cursor' \in {i \in page : IsLastRow(i, page)}
                /\ UNCHANGED <<current, outcome>>
    BY ZenonT(30), <1>2 DEF FetchPage
  <2>3. UNCHANGED <<rows, todo, cast, stable>>
    BY <1>2 DEF FetchPage
  <2>4. page \subseteq Ids /\ sent'[current] = sent[current] \cup page
    BY <2>1, <2>2 DEF StreamTypeOK
  <2>5. StreamTypeOK'
    BY ZenonT(30), <2>1, <2>2, <2>3, <2>4 DEF StreamTypeOK
  <2>6. TodoInv'
    BY <2>1, <2>2, <2>3 DEF TodoInv, StreamTypeOK
  <2>7. CASE IsLast(page)
    <3>1. stable[current] \subseteq sent[current] \cup page
      BY <2>1, <2>2, <2>7, PageCovers
    <3>2. current' = NoQuery
      BY <2>2, <2>7
    <3>3. StableRowsDelivered'
      BY <2>1, <2>2, <2>3, <2>4, <3>1, <3>2 DEF StableRowsDelivered, Done, Started, StreamTypeOK
    <3>4. CursorInv'
      BY <3>2 DEF CursorInv
    <3> QED
      BY <2>5, <2>6, <3>3, <3>4
  <2>8. CASE ~IsLast(page)
    <3>1. current' = current /\ cursor' \in page /\ \A j \in page : j <= cursor'
      BY <2>2, <2>8 DEF IsLastRow
    <3>2. \A i \in stable[current] : i <= cursor' => i \in sent[current] \cup page
      BY <2>1, <2>2, <3>1, PageCovers
    <3>3. RightCast(current) => \A j \in sent[current] : j <= cursor'
      <4> SUFFICES ASSUME RightCast(current), NEW j \in sent[current] PROVE j <= cursor'
        OBVIOUS
      <4>1. j < cursor'
        BY <2>1, <2>2, <3>1, PageAbove
      <4>2. j \in Nat /\ cursor' \in Nat
        BY <2>1, <2>4, <3>1 DEF StreamTypeOK
      <4> QED
        BY <4>1, <4>2
    <3>4. CursorInv'
      <4>1. cursor' # None
        BY <2>4, <3>1
      <4>2. RightCast(current)' = RightCast(current)
        BY <2>3, <3>1 DEF RightCast
      <4>3. RightCast(current) => \A i \in sent'[current] : cursor' # None /\ i <= cursor'
        BY ZenonT(30), <2>4, <3>1, <3>3, <4>1
      <4>4. \A i \in stable[current] : cursor' # None /\ i <= cursor' => i \in sent'[current]
        BY <2>4, <3>2
      <4> QED
        BY <2>1, <2>3, <3>1, <4>2, <4>3, <4>4 DEF CursorInv
    <3>5. StableRowsDelivered'
      BY <2>1, <2>2, <2>3, <3>1 DEF StableRowsDelivered, Done, Started, StreamTypeOK
    <3> QED
      BY <2>5, <2>6, <3>4, <3>5
  <2> QED
    BY <2>7, <2>8
<1>3. CASE Fail
  BY <1>3 DEF Fail, StreamTypeOK, TodoInv, CursorInv, StableRowsDelivered, RightCast, Done, Started
<1>4. CASE Insert
  <2>1. PICK q \in Queries, i \in Ids : rows' = [rows EXCEPT ![q] = @ \cup {i}]
    BY ZenonT(30), <1>4 DEF Insert
  <2>2. UNCHANGED <<todo, current, cast, cursor, batch, sent, outcome, stable>>
    BY <1>4 DEF Insert
  <2>3. StreamTypeOK'
    BY <2>1, <2>2 DEF StreamTypeOK
  <2>4. CursorInv'
    BY <2>1, <2>2 DEF CursorInv, StreamTypeOK, RightCast
  <2> QED
    BY <2>2, <2>3, <2>4 DEF TodoInv, StableRowsDelivered, Done, Started
<1>5. CASE Delete
  <2>1. PICK q \in Queries, i \in Ids :
          /\ rows' = [rows EXCEPT ![q] = @ \ {i}]
          /\ stable' = IF q = current THEN [stable EXCEPT ![q] = @ \ {i}] ELSE stable
    BY ZenonT(30), <1>5 DEF Delete
  <2>2. UNCHANGED <<todo, current, cast, cursor, batch, sent, outcome>>
    BY <1>5 DEF Delete
  <2>3. StreamTypeOK'
    BY <2>1, <2>2 DEF StreamTypeOK
  <2>4. CursorInv'
    BY <2>1, <2>2 DEF CursorInv, StreamTypeOK, RightCast
  <2>5. TodoInv'
    BY <2>1, <2>2 DEF TodoInv, StreamTypeOK
  <2>6. StableRowsDelivered'
    BY <2>1, <2>2 DEF StableRowsDelivered, Done, Started, StreamTypeOK
  <2> QED
    BY <2>3, <2>4, <2>5, <2>6
<1>6. CASE UNCHANGED streamVars
  BY <1>6 DEF streamVars, StreamTypeOK, TodoInv, CursorInv, StableRowsDelivered, RightCast, Done,
              Started
<1> QED
  BY <1>1, <1>2, <1>3, <1>4, <1>5, <1>6 DEF StreamNext

\* Every row that stays in the result set while stream() pages through a query
\* is in the snapshot, for every table, batch size and interleaving of changes.
THEOREM StableRowsDeliveredCorrect == StreamSpec => []StableRowsDelivered
<1>1. StreamInv => StableRowsDelivered
  BY DEF StreamInv
<1> QED
  BY <1>1, StreamInvInit, StreamInvNext, PTL DEF StreamSpec

\* With the cast of its id column, stream() yields no row of a query twice.
THEOREM NoRowTwiceCorrect == StreamSpec => NoRowTwice
<1>1. StreamInv /\ [StreamNext]_streamVars => [FetchPage /\ RightCast(current) => OnlyLaterRows]_streamVars
  <2> SUFFICES ASSUME StreamInv, FetchPage, RightCast(current) PROVE OnlyLaterRows
    OBVIOUS
  <2>1. PICK page \in SUBSET {i \in rows[current] : After(current, i)} : batch' = page
    BY DEF FetchPage
  <2>2. current # NoQuery
    BY DEF FetchPage
  <2> QED
    BY <2>1, <2>2, PageAbove DEF StreamInv, OnlyLaterRows
<1> QED
  BY <1>1, StreamInvInit, StreamInvNext, PTL DEF StreamSpec, NoRowTwice
=============================================================================
