--------------------------- MODULE WalRouterProofs ---------------------------
(***************************************************************************)
(* The WAL pipeline keeps the order of the WAL, buffers a bounded number   *)
(* of envelopes, routes every event to every cached assignment, and        *)
(* implements OpLogFeed, for channels of any size and any number of        *)
(* subjects, buckets, events, failures and processes.                      *)
(***************************************************************************)
EXTENDS WalRouter, FiniteSetTheorems, TLAPS

\* A leaf that names no prover is tried with these.
USE SMTT(30), ZenonT(30)

\* The slot, the consumer and the writer task advance within the WAL, and the
\* last append was at the offset of the first unsettled event, or before it.
PositionInv ==
  /\ base <= confirmed /\ confirmed <= cursor - Len(publishing)
  /\ base <= settled /\ frontier <= settled - base

ChannelInv == Len(brokerQ) <= ChannelBuffer /\ Len(routerQ) <= BackpressureCapacity

\* Append tasks run for the event being written only.
TaskInv == writing = <<>> => pending = NoTasks

\* The operation of event e is in bucket b, or its append failed.
Done(b, e) == <<b, e>> \in failed \/ log[b][e - 1 - base] = [epoch |-> epoch, ev |-> e]

\* An assignment that was cached when the event being written was routed has
\* an append task for each of its buckets, or has had it.
RoutingInv ==
  /\ \A s \in live : liveFrom[s] > base
  /\ writing # <<>> =>
       \A s \in live : liveFrom[s] <= settled + 1 =>
         \A b \in BucketsOf[s] \cap wal[settled + 1] : pending[b] > 0 \/ Done(b, settled + 1)

Inv ==
  /\ TypeOK /\ PipelineFifo /\ PositionInv /\ ChannelInv
  /\ TaskInv /\ RoutingInv /\ RoutedCompletely

-----------------------------------------------------------------------------
(* Sequences.                                                              *)

\* Concatenation: its type, its length, its first elements, and the empty sequence.
LEMMA CatProperties ==
  ASSUME NEW S, NEW a \in Seq(S), NEW b \in Seq(S)
  PROVE  /\ a \o b \in Seq(S) /\ Len(a \o b) = Len(a) + Len(b)
         /\ \A i \in 1..Len(a) : (a \o b)[i] = a[i]
         /\ a \o <<>> = a /\ <<>> \o a = a
OBVIOUS

\* Concatenation is associative.
LEMMA CatAssociative ==
  ASSUME NEW S, NEW a \in Seq(S), NEW b \in Seq(S), NEW c \in Seq(S)
  PROVE  (a \o b) \o c = a \o (b \o c)
OBVIOUS

\* A sequence that is not empty is its head followed by its tail.
LEMMA HeadAndTail ==
  ASSUME NEW S, NEW a \in Seq(S), a # <<>>
  PROVE  /\ <<Head(a)>> \o Tail(a) = a /\ <<Head(a)>> \in Seq(S) /\ Tail(a) \in Seq(S)
         /\ Head(a) = a[1] /\ Head(a) \in S /\ Len(Tail(a)) = Len(a) - 1 /\ Len(a) > 0
         /\ \A i \in 1..Len(Tail(a)) : Tail(a)[i] = a[i + 1]
OBVIOUS

\* The tail of a concatenation is taken from the first sequence.
LEMMA TailOfCat ==
  ASSUME NEW S, NEW a \in Seq(S), NEW b \in Seq(S), a # <<>>
  PROVE  Tail(a \o b) = Tail(a) \o b
OBVIOUS

\* A concatenation starts with the first sequence.
LEMMA FrontOfCat ==
  ASSUME NEW S, NEW a \in Seq(S), NEW b \in Seq(S), a # <<>>
  PROVE  a \o b # <<>> /\ (a \o b)[1] = a[1]
<1>1. Len(a) > 0 /\ Len(a \o b) > 0 /\ (a \o b)[1] = a[1]
  OBVIOUS
<1> QED BY <1>1

\* A sequence of at most one element that is not empty has just that one.
LEMMA OneElement ==
  ASSUME NEW S, NEW a \in Seq(S), a # <<>>, Len(a) <= 1
  PROVE  a[1] \in S /\ Len(a) = 1 /\ Tail(a) = <<>>
<1>1. Len(a) > 0 /\ a[1] \in S
  BY ZenonT(30), HeadAndTail
<1>2. Len(a) = 1
  <2> DEFINE n == Len(a)
  <2>1. n \in Nat /\ n > 0 /\ n <= 1
    BY <1>1
  <2> HIDE DEF n
  <2>2. n = 1
    BY ONLY <2>1
  <2> QED BY ZenonT(30), <2>2 DEF n
<1>3. Len(Tail(a)) = 0 /\ Tail(a) \in Seq(S)
  BY <1>2
<1>4. Tail(a) = <<>>
  <2> SUFFICES ASSUME Tail(a) # <<>> PROVE FALSE
    BY ZenonT(30)
  <2> DEFINE t == Tail(a)
  <2>1. t \in Seq(S) /\ t # <<>> /\ Len(t) = 0
    BY ZenonT(30), <1>3
  <2> HIDE DEF t
  <2> QED BY <2>1, HeadAndTail
<1> QED BY ZenonT(30), <1>1, <1>2, <1>4

\* A sequence with one more element at its end.
LEMMA Appended ==
  ASSUME NEW S, NEW a \in Seq(S), NEW x \in S
  PROVE  /\ a \o <<x>> \in Seq(S) /\ Len(a \o <<x>>) = Len(a) + 1
         /\ \A i \in 1..Len(a) : (a \o <<x>>)[i] = a[i]
         /\ (a \o <<x>>)[Len(a) + 1] = x
OBVIOUS

-----------------------------------------------------------------------------
(* The pipeline as one sequence.                                           *)

\* Every stage of the pipeline holds envelopes, a hand-over point at most one.
LEMMA StageTypes ==
  ASSUME TypeOK
  PROVE  /\ writing \in Seq(Envelopes) /\ routerQ \in Seq(Envelopes) /\ held \in Seq(Envelopes)
         /\ brokerQ \in Seq(Envelopes) /\ publishing \in Seq(Envelopes)
         /\ Len(writing) <= 1 /\ Len(held) <= 1 /\ Len(publishing) <= 1
BY ZenonT(30) DEF TypeOK

\* What is in flight is the sum of the stages, and starts with what is being
\* written or, if nothing is, with the head of the router's channel.
LEMMA PipelineType ==
  ASSUME TypeOK
  PROVE  /\ Pipeline \in Seq(Envelopes)
         /\ Len(Pipeline) = Len(writing) + Len(routerQ) + Len(held) + Len(brokerQ) + Len(publishing)
         /\ writing # <<>> => Pipeline # <<>> /\ Pipeline[1] = writing[1]
         /\ writing = <<>> /\ routerQ # <<>> => Pipeline # <<>> /\ Pipeline[1] = Head(routerQ)
<1>0. /\ writing \in Seq(Envelopes) /\ routerQ \in Seq(Envelopes) /\ held \in Seq(Envelopes)
      /\ brokerQ \in Seq(Envelopes) /\ publishing \in Seq(Envelopes)
  BY ZenonT(30), StageTypes
<1> DEFINE P2 == writing \o routerQ
           P3 == P2 \o held
           P4 == P3 \o brokerQ
           P5 == P4 \o publishing
<1>1. /\ P2 \in Seq(Envelopes) /\ Len(P2) = Len(writing) + Len(routerQ)
      /\ writing = <<>> => P2 = routerQ
      /\ writing # <<>> => P2 # <<>> /\ P2[1] = writing[1]
  BY <1>0, CatProperties, FrontOfCat, ZenonT(30)
<1>2. routerQ # <<>> => Head(routerQ) = routerQ[1]
  BY ZenonT(30), <1>0, HeadAndTail
<1> HIDE DEF P2
<1>3. /\ P3 \in Seq(Envelopes) /\ Len(P3) = Len(P2) + Len(held)
      /\ P2 # <<>> => P3 # <<>> /\ P3[1] = P2[1]
  BY <1>0, <1>1, CatProperties, FrontOfCat, ZenonT(30)
<1> HIDE DEF P3
<1>4. /\ P4 \in Seq(Envelopes) /\ Len(P4) = Len(P3) + Len(brokerQ)
      /\ P3 # <<>> => P4 # <<>> /\ P4[1] = P3[1]
  BY <1>0, <1>3, CatProperties, FrontOfCat, ZenonT(30)
<1> HIDE DEF P4
<1>5. /\ P5 \in Seq(Envelopes) /\ Len(P5) = Len(P4) + Len(publishing)
      /\ P4 # <<>> => P5 # <<>> /\ P5[1] = P4[1]
  BY <1>0, <1>4, CatProperties, FrontOfCat, ZenonT(30)
<1> HIDE DEF P5
<1>6. Pipeline = P5
  BY ZenonT(30) DEF Pipeline, P5, P4, P3, P2
<1>7. Len(P5) = Len(writing) + Len(routerQ) + Len(held) + Len(brokerQ) + Len(publishing)
  BY ZenonT(30), <1>0, <1>1, <1>3, <1>4, <1>5
<1> QED BY ZenonT(30), <1>1, <1>2, <1>3, <1>4, <1>5, <1>6, <1>7

\* The envelope at the front is that of the first unsettled event.
LEMMA Front ==
  ASSUME TypeOK, PipelineFifo
  PROVE  /\ writing # <<>> =>
              writing[1].ev = settled + 1 /\ writing[1].offset = settled - base /\ settled < cursor
         /\ writing = <<>> /\ routerQ # <<>> =>
              /\ Head(routerQ).ev = settled + 1 /\ Head(routerQ).offset = settled - base
              /\ settled < cursor
<1>1. Pipeline # <<>> => /\ Pipeline[1] = [ev |-> settled + 1, offset |-> settled + 1 - 1 - base]
                         /\ cursor - settled > 0
  BY PipelineType DEF PipelineFifo
<1>2. settled \in Int /\ base \in Int /\ cursor \in Int
  BY DEF TypeOK
<1> QED BY <1>1, <1>2, PipelineType

\* The pipeline after a hand-over from one stage to the next is the same.
LEMMA HandOver ==
  ASSUME TypeOK
  PROVE  /\ writing \o routerQ \o held \o (brokerQ \o publishing) \o <<>> = Pipeline
         /\ writing \o (routerQ \o held) \o <<>> \o brokerQ \o publishing = Pipeline
         /\ held = <<>> /\ brokerQ # <<>> =>
              writing \o routerQ \o <<Head(brokerQ)>> \o Tail(brokerQ) \o publishing = Pipeline
         /\ writing = <<>> /\ routerQ # <<>> =>
              <<Head(routerQ)>> \o Tail(routerQ) \o held \o brokerQ \o publishing = Pipeline
<1>0. /\ writing \in Seq(Envelopes) /\ routerQ \in Seq(Envelopes) /\ held \in Seq(Envelopes)
      /\ brokerQ \in Seq(Envelopes) /\ publishing \in Seq(Envelopes)
  BY ZenonT(30), StageTypes
<1> DEFINE P2 == writing \o routerQ
           P3 == P2 \o held
<1>1. P2 \in Seq(Envelopes) /\ P3 \in Seq(Envelopes)
  BY ZenonT(30), <1>0, CatProperties
<1>2. writing \o routerQ \o held \o (brokerQ \o publishing) \o <<>> = Pipeline
  <2> HIDE DEF P3
  <2>1. P3 \o (brokerQ \o publishing) \in Seq(Envelopes)
    BY ZenonT(30), <1>0, <1>1, CatProperties
  <2>2. P3 \o (brokerQ \o publishing) \o <<>> = P3 \o (brokerQ \o publishing)
    BY ZenonT(30), <2>1, CatProperties
  <2>3. (P3 \o brokerQ) \o publishing = P3 \o (brokerQ \o publishing)
    <3>1. P3 \in Seq(Envelopes) /\ brokerQ \in Seq(Envelopes) /\ publishing \in Seq(Envelopes)
      BY ZenonT(30), <1>0, <1>1
    <3> QED BY ONLY <3>1, CatAssociative, SMTT(30)
  <2> QED BY ZenonT(30), <2>2, <2>3 DEF Pipeline, P3
<1>3. writing \o (routerQ \o held) \o <<>> \o brokerQ \o publishing = Pipeline
  <2>1. writing \o (routerQ \o held) = P3
    <3>1. writing \in Seq(Envelopes) /\ routerQ \in Seq(Envelopes) /\ held \in Seq(Envelopes)
      BY ZenonT(30), <1>0
    <3> QED BY ONLY <3>1, CatAssociative, SMTT(30)
  <2>2. P3 \o <<>> = P3
    BY ZenonT(30), <1>1, CatProperties
  <2> QED BY ZenonT(30), <2>1, <2>2 DEF Pipeline
<1>4. ASSUME held = <<>>, brokerQ # <<>>
      PROVE  writing \o routerQ \o <<Head(brokerQ)>> \o Tail(brokerQ) \o publishing = Pipeline
  <2>0. P3 = P2
    BY ZenonT(30), <1>1, <1>4, CatProperties
  <2> HIDE DEF P2
  <2>1. /\ <<Head(brokerQ)>> \o Tail(brokerQ) = brokerQ
        /\ <<Head(brokerQ)>> \in Seq(Envelopes) /\ Tail(brokerQ) \in Seq(Envelopes)
    BY ZenonT(30), <1>0, <1>4, HeadAndTail
  <2>2. P2 \o <<Head(brokerQ)>> \o Tail(brokerQ) = P2 \o brokerQ
    <3>1. P2 \in Seq(Envelopes) /\ <<Head(brokerQ)>> \in Seq(Envelopes) /\ Tail(brokerQ) \in Seq(Envelopes)
      BY ZenonT(30), <1>1, <2>1
    <3>2. (P2 \o <<Head(brokerQ)>>) \o Tail(brokerQ) = P2 \o (<<Head(brokerQ)>> \o Tail(brokerQ))
      BY ONLY <3>1, CatAssociative, SMTT(30)
    <3> QED BY <2>1, <3>2, ZenonT(30)
  <2> QED BY <2>0, <2>2, ZenonT(30) DEF Pipeline, P2
<1>5. ASSUME writing = <<>>, routerQ # <<>>
      PROVE  <<Head(routerQ)>> \o Tail(routerQ) \o held \o brokerQ \o publishing = Pipeline
  <2>1. <<Head(routerQ)>> \o Tail(routerQ) = routerQ
    BY ZenonT(30), <1>0, <1>5, HeadAndTail
  <2>2. P2 = routerQ
    BY ZenonT(30), <1>0, <1>5, CatProperties
  <2> QED BY <2>1, <2>2, ZenonT(30) DEF Pipeline
<1> QED BY <1>2, <1>3, <1>4, <1>5, ZenonT(30)

\* What is left of the pipeline when the event at its front is settled.
LEMMA WithoutFront ==
  ASSUME TypeOK
  PROVE  /\ writing = <<>> /\ routerQ # <<>> =>
              <<>> \o Tail(routerQ) \o held \o brokerQ \o publishing = Tail(Pipeline)
         /\ writing # <<>> =>
              <<>> \o routerQ \o held \o brokerQ \o publishing = Tail(Pipeline)
<1>0. /\ writing \in Seq(Envelopes) /\ routerQ \in Seq(Envelopes) /\ held \in Seq(Envelopes)
      /\ brokerQ \in Seq(Envelopes) /\ publishing \in Seq(Envelopes) /\ Len(writing) <= 1
  BY ZenonT(30), StageTypes
<1>1. ASSUME NEW a \in Seq(Envelopes), a # <<>>
      PROVE  Tail(a \o held \o brokerQ \o publishing) = Tail(a) \o held \o brokerQ \o publishing
  <2>1. a \o held \in Seq(Envelopes) /\ a \o held # <<>> /\ Tail(a \o held) = Tail(a) \o held
    BY ZenonT(30), <1>0, <1>1, CatProperties, FrontOfCat, TailOfCat
  <2> DEFINE c == a \o held
  <2> HIDE DEF c
  <2>2. c \in Seq(Envelopes) /\ c # <<>> /\ Tail(c) = Tail(a) \o held
    BY ZenonT(30), <2>1 DEF c
  <2>3. c \o brokerQ \in Seq(Envelopes) /\ c \o brokerQ # <<>> /\ Tail(c \o brokerQ) = Tail(c) \o brokerQ
    BY <1>0, <2>2, CatProperties, FrontOfCat, TailOfCat, ZenonT(30)
  <2>4. Tail(c \o brokerQ \o publishing) = Tail(c \o brokerQ) \o publishing
    BY <1>0, <2>3, TailOfCat, ZenonT(30)
  <2> QED BY <2>2, <2>3, <2>4, ZenonT(30) DEF c
<1>2. ASSUME writing = <<>>, routerQ # <<>>
      PROVE  <<>> \o Tail(routerQ) \o held \o brokerQ \o publishing = Tail(Pipeline)
  <2>1. writing \o routerQ = routerQ /\ <<>> \o Tail(routerQ) = Tail(routerQ)
    BY ZenonT(30), <1>0, <1>2, CatProperties, HeadAndTail
  <2> QED BY <1>0, <1>1, <1>2, <2>1, ZenonT(30) DEF Pipeline
<1>3. ASSUME writing # <<>>
      PROVE  <<>> \o routerQ \o held \o brokerQ \o publishing = Tail(Pipeline)
  <2>1. /\ writing \o routerQ \in Seq(Envelopes) /\ writing \o routerQ # <<>>
        /\ Tail(writing \o routerQ) = Tail(writing) \o routerQ
    BY ZenonT(30), <1>0, <1>3, CatProperties, FrontOfCat, TailOfCat
  <2>2. Tail(writing) = <<>>
    BY ZenonT(30), <1>0, <1>3, OneElement
  <2> QED BY <1>0, <1>1, <2>1, <2>2, ZenonT(30) DEF Pipeline
<1> QED BY <1>2, <1>3, ZenonT(30)

-----------------------------------------------------------------------------
(* The order is kept: what each step makes of the pipeline.                *)

\* A step that leaves the pipeline and the positions as they are keeps the order.
LEMMA FifoSame ==
  ASSUME PipelineFifo, Pipeline' = Pipeline, UNCHANGED <<cursor, settled, base, nextOffset>>
  PROVE  PipelineFifo'
BY ZenonT(30) DEF PipelineFifo

\* publish() adds the next event at the end, with the next offset.
LEMMA FifoPublish ==
  ASSUME TypeOK, PipelineFifo, cursor < Len(wal),
         Pipeline' = Pipeline \o <<[ev |-> cursor + 1, offset |-> nextOffset]>>,
         cursor' = cursor + 1, nextOffset' = nextOffset + 1, UNCHANGED <<settled, base>>
  PROVE  PipelineFifo'
<1> DEFINE x == [ev |-> cursor + 1, offset |-> nextOffset]
           P == Pipeline
           Q == Pipeline'
<1>1. cursor \in Int /\ settled \in Int /\ base \in Int /\ nextOffset \in Int
  BY DEF TypeOK
<1>2. /\ P \in Seq(Envelopes \cup {x}) /\ Q = P \o <<x>> /\ x \in Envelopes \cup {x}
  BY PipelineType
<1>3. /\ Len(P) = cursor - settled /\ nextOffset = cursor - base
      /\ \A i \in 1..Len(P) : P[i] = [ev |-> settled + i, offset |-> settled + i - 1 - base]
  BY ZenonT(30) DEF PipelineFifo
<1> HIDE DEF x, P, Q
<1>4. /\ Len(Q) = Len(P) + 1 /\ Q[Len(P) + 1] = x /\ Len(P) \in Nat
      /\ \A i \in 1..Len(P) : Q[i] = P[i]
  BY <1>2, Appended
<1>5. x = [ev |-> settled + (Len(P) + 1), offset |-> settled + (Len(P) + 1) - 1 - base]
  BY <1>1, <1>3 DEF x
<1>6. \A i \in 1..Len(Q) : Q[i] = [ev |-> settled + i, offset |-> settled + i - 1 - base]
  <2> SUFFICES ASSUME NEW i \in 1..Len(Q)
               PROVE  Q[i] = [ev |-> settled + i, offset |-> settled + i - 1 - base]
    BY ZenonT(30)
  <2>1. i \in 1..Len(P) \/ i = Len(P) + 1
    BY <1>4
  <2>2. CASE i \in 1..Len(P)
    BY ZenonT(30), <1>3, <1>4, <2>2
  <2>3. CASE i = Len(P) + 1
    BY ZenonT(30), <1>4, <1>5, <2>3
  <2> QED BY ZenonT(30), <2>1, <2>2, <2>3
<1>7. Len(Q) = cursor' - settled' /\ nextOffset' = cursor' - base'
  BY <1>1, <1>3, <1>4
<1> QED BY ZenonT(30), <1>6, <1>7 DEF PipelineFifo, Q

\* The event at the front is settled.
LEMMA FifoSettle ==
  ASSUME TypeOK, PipelineFifo, Pipeline # <<>>, Pipeline' = Tail(Pipeline),
         settled' = settled + 1, UNCHANGED <<cursor, base, nextOffset>>
  PROVE  PipelineFifo'
<1> DEFINE P == Pipeline
           Q == Pipeline'
<1>1. cursor \in Int /\ settled \in Int /\ base \in Int /\ nextOffset \in Int
  BY DEF TypeOK
<1>2. P \in Seq(Envelopes) /\ P # <<>> /\ Q = Tail(P)
  BY ZenonT(30), PipelineType
<1>3. /\ Len(P) = cursor - settled /\ nextOffset = cursor - base
      /\ \A i \in 1..Len(P) : P[i] = [ev |-> settled + i, offset |-> settled + i - 1 - base]
  BY ZenonT(30) DEF PipelineFifo
<1> HIDE DEF P, Q
<1>4. /\ Len(Q) = Len(P) - 1 /\ Len(P) \in Nat /\ Len(P) > 0
      /\ \A i \in 1..Len(Q) : Q[i] = P[i + 1]
  BY <1>2, HeadAndTail
<1>5. ASSUME NEW i \in 1..Len(Q)
      PROVE  Q[i] = [ev |-> settled' + i, offset |-> settled' + i - 1 - base]
  <2>1. i + 1 \in 1..Len(P)
    BY <1>4
  <2>2. Q[i] = [ev |-> settled + (i + 1), offset |-> settled + (i + 1) - 1 - base]
    BY ZenonT(30), <1>3, <1>4, <2>1
  <2>3. /\ settled + (i + 1) = settled' + i
        /\ settled + (i + 1) - 1 - base = settled' + i - 1 - base
    BY <1>1
  <2> QED BY ZenonT(30), <2>2, <2>3
<1>6. Len(Q) = cursor' - settled' /\ nextOffset' = cursor' - base'
  BY <1>1, <1>3, <1>4
<1> QED BY ZenonT(30), <1>5, <1>6 DEF PipelineFifo, Q

-----------------------------------------------------------------------------
(* The assignments.                                                        *)

\* find_affected_buckets() counts a bucket of a cached assignment that the row
\* matches at least once.
LEMMA AffectedCounts ==
  ASSUME live \subseteq Subs, NEW e
  PROVE  /\ Affected(e) \in [Buckets -> Nat]
         /\ \A s \in live : \A b \in BucketsOf[s] \cap wal[e] : b \in Buckets => Affected(e)[b] > 0
<1>1. ASSUME NEW b \in Buckets
      PROVE  /\ Cardinality({s \in live : b \in BucketsOf[s]}) \in Nat
             /\ \A s \in live : b \in BucketsOf[s] => Cardinality({u \in live : b \in BucketsOf[u]}) > 0
  <2> DEFINE T == {u \in live : b \in BucketsOf[u]}
  <2>1. IsFiniteSet(T)
    BY ZenonT(30), RouterAssumption, FS_Subset
  <2>2. Cardinality(T) \in Nat /\ (Cardinality(T) = 0 => T = {})
    BY ZenonT(30), <2>1, FS_CardinalityType, FS_EmptySet
  <2>3. \A s \in live : b \in BucketsOf[s] => T # {}
    BY ZenonT(30)
  <2> HIDE DEF T
  <2>4. \A s \in live : b \in BucketsOf[s] => Cardinality(T) > 0
    BY <2>2, <2>3
  <2> QED BY ZenonT(30), <2>2, <2>4 DEF T
<1>2. \A b \in Buckets : Affected(e)[b] =
        IF b \in wal[e] THEN Cardinality({s \in live : b \in BucketsOf[s]}) ELSE 0
  BY ZenonT(30) DEF Affected
<1>3. Affected(e) \in [Buckets -> Nat]
  BY ZenonT(30), <1>1 DEF Affected
<1> QED BY <1>1, <1>2, <1>3, ZenonT(30)

\* The positions in the WAL, in their order.
LEMMA Positions ==
  ASSUME Inv
  PROVE  /\ base \in Nat /\ confirmed \in Nat /\ settled \in Nat /\ cursor \in Nat /\ Len(wal) \in Nat
         /\ base <= settled /\ settled <= cursor /\ cursor <= Len(wal) /\ Len(wal) <= MaxEvents
         /\ base <= confirmed /\ confirmed <= cursor /\ MaxEvents \in Nat
         /\ nextOffset = cursor - base /\ frontier \in Int /\ frontier <= settled - base
<1>0. TypeOK /\ PipelineFifo /\ PositionInv
  BY ZenonT(30) DEF Inv
<1>1. Len(Pipeline) \in Nat
  BY <1>0, PipelineType
<1>2. /\ base \in Nat /\ confirmed \in Nat /\ settled \in Nat /\ cursor \in Nat /\ Len(wal) \in Nat
      /\ cursor <= Len(wal) /\ Len(wal) <= MaxEvents /\ MaxEvents \in Nat /\ frontier \in Int
  BY <1>0, RouterAssumption DEF TypeOK, Lsn
<1>3. Len(Pipeline) = cursor - settled /\ nextOffset = cursor - base
  BY ZenonT(30), <1>0 DEF PipelineFifo
<1>4. Len(publishing) \in Nat
  BY <1>0, StageTypes
<1> QED BY <1>0, <1>1, <1>2, <1>3, <1>4 DEF PositionInv

\* RoutedCompletely of the next state, from what is done there.
LEMMA RoutedNext ==
  ASSUME \A s \in live' : \A e \in liveFrom'[s]..settled' :
           \A b \in BucketsOf[s] \cap wal'[e] : Done(b, e)'
  PROVE  RoutedCompletely'
BY ZenonT(30) DEF RoutedCompletely, Done

\* RoutedCompletely speaks of these variables only.
LEMMA RoutedSame ==
  ASSUME RoutedCompletely, UNCHANGED <<wal, live, liveFrom, settled, log, failed, epoch, base>>
  PROVE  RoutedCompletely'
<1>1. \A b, e : Done(b, e)' <=> Done(b, e)
  BY ZenonT(30) DEF Done
<1>2. \A s \in live : \A e \in liveFrom[s]..settled : \A b \in BucketsOf[s] \cap wal[e] : Done(b, e)
  BY ZenonT(30) DEF RoutedCompletely, Done
<1>3. \A s \in live' : \A e \in liveFrom'[s]..settled' : \A b \in BucketsOf[s] \cap wal'[e] : Done(b, e)'
  BY ZenonT(30), <1>1, <1>2
<1> QED BY ZenonT(30), <1>3, RoutedNext

\* What the invariant says of the routing holds in the next state, if no
\* append task ends and nothing that is done is undone.
LEMMA RoutingSame ==
  ASSUME Inv, UNCHANGED <<writing, pending, settled, log, failed, liveFrom, epoch, base>>,
         live' \subseteq live, \A e \in 1..cursor : wal'[e] = wal[e]
  PROVE  RoutingInv' /\ RoutedCompletely'
<1>0. TypeOK /\ PipelineFifo /\ PositionInv /\ RoutingInv /\ RoutedCompletely
  BY ZenonT(30) DEF Inv
<1>1. settled \in Nat /\ base \in Nat /\ cursor \in Nat /\ settled <= cursor /\ base <= settled
  BY ZenonT(30), Positions
<1>2. writing # <<>> => settled < cursor
  BY ZenonT(30), <1>0, Front
<1>3. liveFrom \in [Subs -> Nat] /\ live \subseteq Subs
  BY <1>0, ZenonT(30) DEF TypeOK
<1>4. \A b, e : Done(b, e)' <=> Done(b, e)
  BY ZenonT(30) DEF Done
<1>5. RoutingInv'
  <2>1. writing # <<>> => settled + 1 \in 1..cursor
    BY <1>1, <1>2
  <2> QED BY ZenonT(30), <1>0, <1>4, <2>1 DEF RoutingInv
<1>6. RoutedCompletely'
  <2> SUFFICES ASSUME NEW s \in live, NEW e \in liveFrom[s]..settled, NEW b \in BucketsOf[s] \cap wal'[e]
               PROVE  Done(b, e)'
    BY ZenonT(30) DEF RoutedCompletely, Done
  <2>1. liveFrom[s] \in Nat /\ liveFrom[s] > base
    BY ZenonT(30), <1>0, <1>3 DEF RoutingInv
  <2>2. e \in 1..cursor
    BY <1>1, <2>1
  <2>3. Done(b, e)
    BY <1>0, <2>2 DEF RoutedCompletely, Done
  <2> QED BY ZenonT(30), <1>4, <2>3
<1> QED BY ZenonT(30), <1>5, <1>6

-----------------------------------------------------------------------------
(* One lemma per action, or per group of similar ones.                     *)

\* A transaction commits: the WAL grows at its end.
LEMMA CommitInv ==
  ASSUME Inv, Commit
  PROVE  Inv'
<1>0. TypeOK /\ PipelineFifo /\ PositionInv /\ ChannelInv /\ TaskInv
  BY ZenonT(30) DEF Inv
<1>1. PICK row \in Rows : wal' = Append(wal, row)
  BY ZenonT(30) DEF Commit
<1>2. /\ Len(wal) < MaxEvents /\ row \subseteq Buckets /\ wal \in Seq(SUBSET Buckets)
  BY ZenonT(30), <1>0, RouterAssumption DEF Commit, TypeOK
<1>3. /\ wal' \in Seq(SUBSET Buckets) /\ Len(wal') = Len(wal) + 1
      /\ \A e \in 1..Len(wal) : wal'[e] = wal[e]
  BY <1>1, <1>2
<1>4. /\ UNCHANGED <<confirmed, cursor, publishing, nextOffset, brokerQ>>
      /\ UNCHANGED <<held, routerQ, writing, pending, settled>>
      /\ UNCHANGED <<log, folds, frontier, live, open, liveFrom, epoch, base, failed>>
  BY ZenonT(30) DEF Commit, cdcVars, routerVars, storeVars, assignVars, procVars
<1>5. TypeOK'
  <2>1. /\ Len(wal') <= MaxEvents /\ confirmed \in 0..Len(wal') /\ cursor \in 0..Len(wal')
        /\ base \in 0..Len(wal') /\ settled \in 0..Len(wal')
    BY <1>2, <1>3, Positions
  <2> QED BY <1>0, <1>3, <1>4, <2>1, ZenonT(30) DEF TypeOK
<1>6. Pipeline' = Pipeline
  BY ZenonT(30), <1>4 DEF Pipeline
<1>7. PipelineFifo'
  BY ZenonT(30), <1>0, <1>4, <1>6, FifoSame
<1>8. PositionInv' /\ ChannelInv' /\ TaskInv'
  BY ZenonT(30), <1>0, <1>4 DEF PositionInv, ChannelInv, TaskInv
<1>9. RoutingInv' /\ RoutedCompletely'
  <2>1. \A e \in 1..cursor : wal'[e] = wal[e]
    BY <1>3, Positions
  <2> QED BY ZenonT(30), <1>4, <2>1, RoutingSame
<1> QED BY ZenonT(30), <1>5, <1>7, <1>8, <1>9 DEF Inv

\* The slot's position advances behind the consumer's.
LEMMA ConfirmInv ==
  ASSUME Inv, Confirm
  PROVE  Inv'
<1>0. TypeOK /\ PipelineFifo /\ PositionInv /\ ChannelInv /\ TaskInv
  BY ZenonT(30) DEF Inv
<1>1. confirmed < cursor - Len(publishing) /\ confirmed' = confirmed + 1
  BY ZenonT(30) DEF Confirm
<1>2. /\ UNCHANGED <<wal, cursor, publishing, nextOffset, brokerQ>>
      /\ UNCHANGED <<held, routerQ, writing, pending, settled>>
      /\ UNCHANGED <<log, folds, frontier, live, open, liveFrom, epoch, base, failed>>
  BY ZenonT(30) DEF Confirm, cdcVars, routerVars, storeVars, assignVars, procVars
<1>3. Len(publishing) \in Nat
  BY <1>0, StageTypes
<1>4. TypeOK'
  <2>1. confirmed' \in 0..Len(wal)
    BY <1>1, <1>3, Positions
  <2> QED BY <1>0, <1>2, <2>1, ZenonT(30) DEF TypeOK
<1>5. Pipeline' = Pipeline
  BY ZenonT(30), <1>2 DEF Pipeline
<1>6. PipelineFifo'
  BY ZenonT(30), <1>0, <1>2, <1>5, FifoSame
<1>7. PositionInv'
  BY <1>0, <1>1, <1>2, <1>3, Positions DEF PositionInv
<1>8. ChannelInv' /\ TaskInv'
  BY ZenonT(30), <1>0, <1>2 DEF ChannelInv, TaskInv
<1>9. RoutingInv' /\ RoutedCompletely'
  BY ZenonT(30), <1>2, RoutingSame
<1> QED BY ZenonT(30), <1>4, <1>6, <1>7, <1>8, <1>9 DEF Inv

\* publish() takes the next event and the next offset.
LEMMA PublishInv ==
  ASSUME Inv, Publish
  PROVE  Inv'
<1> DEFINE x == [ev |-> cursor + 1, offset |-> nextOffset]
<1>0. TypeOK /\ PipelineFifo /\ PositionInv /\ ChannelInv /\ TaskInv
  BY ZenonT(30) DEF Inv
<1>1. /\ publishing = <<>> /\ cursor < Len(wal) /\ publishing' = <<x>>
      /\ nextOffset' = nextOffset + 1 /\ cursor' = cursor + 1
  BY ZenonT(30) DEF Publish
<1>2. /\ UNCHANGED <<wal, confirmed, brokerQ>>
      /\ UNCHANGED <<held, routerQ, writing, pending, settled>>
      /\ UNCHANGED <<log, folds, frontier, live, open, liveFrom, epoch, base, failed>>
  BY ZenonT(30) DEF Publish, routerVars, storeVars, assignVars, procVars
<1>3. /\ nextOffset \in Lsn /\ nextOffset' \in 0..MaxEvents
      /\ cursor + 1 \in Event /\ cursor' \in 0..Len(wal)
  BY <1>1, Positions DEF Lsn, Event
<1>4. x \in Envelopes
  BY ZenonT(30), <1>3 DEF Envelopes
<1> HIDE DEF x
<1>5. publishing' \in Seq(Envelopes) /\ Len(publishing') = 1
  BY <1>1, <1>4
<1>6. TypeOK'
  <2>1. Len(publishing') <= 1
    BY <1>5
  <2> QED BY <1>0, <1>2, <1>3, <1>5, <2>1, ZenonT(30) DEF TypeOK
<1>7. PipelineFifo'
  <2> DEFINE P4 == writing \o routerQ \o held \o brokerQ
  <2>1. P4 \in Seq(Envelopes)
    BY ZenonT(30), <1>0, StageTypes, CatProperties
  <2>2. Pipeline' = P4 \o <<x>>
    BY ZenonT(30), <1>1, <1>2 DEF Pipeline
  <2>3. Pipeline = P4 \o <<>>
    BY ZenonT(30), <1>1 DEF Pipeline
  <2> HIDE DEF P4
  <2>4. P4 \o <<>> = P4
    BY ZenonT(30), <2>1, CatProperties
  <2>5. Pipeline' = Pipeline \o <<x>>
    BY ZenonT(30), <2>2, <2>3, <2>4
  <2> QED BY ZenonT(30), <1>0, <1>1, <1>2, <2>5, FifoPublish DEF x
<1>8. PositionInv'
  <2>1. Len(publishing) = 0
    BY ZenonT(30), <1>1
  <2> QED BY <1>0, <1>1, <1>2, <1>5, <2>1, Positions DEF PositionInv
<1>9. ChannelInv' /\ TaskInv'
  BY ZenonT(30), <1>0, <1>2 DEF ChannelInv, TaskInv
<1>10. RoutingInv' /\ RoutedCompletely'
  BY ZenonT(30), <1>2, RoutingSame
<1> QED BY ZenonT(30), <1>6, <1>7, <1>8, <1>9, <1>10 DEF Inv

\* A step that hands an envelope on before the writer task.
HandsOver ==
  /\ TypeOK' /\ ChannelInv' /\ Pipeline' = Pipeline /\ Len(publishing') <= Len(publishing)
  /\ UNCHANGED <<wal, confirmed, cursor, nextOffset, writing, pending, settled>>
  /\ UNCHANGED <<log, frontier, live, liveFrom, epoch, base, failed>>

\* Such a step keeps the invariant.
LEMMA HandOverInv ==
  ASSUME Inv, HandsOver
  PROVE  Inv'
<1>0. TypeOK /\ PipelineFifo /\ PositionInv /\ TaskInv
  BY ZenonT(30) DEF Inv
<1>1. /\ TypeOK' /\ ChannelInv' /\ Pipeline' = Pipeline
      /\ UNCHANGED <<wal, confirmed, cursor, nextOffset, writing, pending, settled>>
      /\ UNCHANGED <<log, frontier, live, liveFrom, epoch, base, failed>>
  BY ZenonT(30) DEF HandsOver
<1>2. PipelineFifo'
  BY ZenonT(30), <1>0, <1>1, FifoSame
<1>3. PositionInv'
  <2>1. publishing \in Seq(Envelopes) /\ publishing' \in Seq(Envelopes)
    BY <1>0, <1>1, ZenonT(30) DEF TypeOK
  <2>2. Len(publishing') <= Len(publishing)
    BY ZenonT(30) DEF HandsOver
  <2>3. Len(publishing) \in Nat /\ Len(publishing') \in Nat
    BY <2>1
  <2> QED BY <1>0, <1>1, <2>2, <2>3, Positions DEF PositionInv
<1>4. TaskInv'
  BY ZenonT(30), <1>0, <1>1 DEF TaskInv
<1>5. RoutingInv' /\ RoutedCompletely'
  BY ZenonT(30), <1>1, RoutingSame
<1> QED BY ZenonT(30), <1>1, <1>2, <1>3, <1>4, <1>5 DEF Inv

\* send() in publish(), the stream of the broker, and tx.send() in run().
LEMMA SendInv ==
  ASSUME Inv, PublishSend \/ Receive \/ Forward
  PROVE  Inv'
<1>0. TypeOK /\ ChannelInv
  BY ZenonT(30) DEF Inv
<1>1. /\ UNCHANGED <<wal, confirmed, cursor, nextOffset, writing, pending, settled>>
      /\ UNCHANGED <<log, folds, frontier, live, open, liveFrom, epoch, base, failed>>
  BY ZenonT(30) DEF PublishSend, Receive, Forward, cdcVars, routerVars, storeVars, assignVars, procVars
<1>2. /\ routerQ \in Seq(Envelopes) /\ held \in Seq(Envelopes) /\ Len(held) <= 1
      /\ brokerQ \in Seq(Envelopes) /\ publishing \in Seq(Envelopes) /\ Len(publishing) <= 1
  BY ZenonT(30), <1>0, StageTypes
<1>3. CASE PublishSend
  <2>1. /\ brokerQ' = brokerQ \o publishing /\ publishing' = <<>> /\ Len(brokerQ) < ChannelBuffer
        /\ UNCHANGED <<held, routerQ>>
    BY ZenonT(30), <1>3 DEF PublishSend, routerVars
  <2>2. /\ brokerQ' \in Seq(Envelopes) /\ Len(brokerQ') = Len(brokerQ) + Len(publishing)
        /\ publishing' \in Seq(Envelopes) /\ Len(publishing') = 0
    BY <1>2, <2>1, CatProperties
  <2>3. Len(publishing') <= 1 /\ Len(publishing') <= Len(publishing) /\ Len(brokerQ') <= ChannelBuffer
    BY <1>2, <2>1, <2>2, RouterAssumption
  <2>4. TypeOK'
    BY <1>0, <1>1, <2>1, <2>2, <2>3, ZenonT(30) DEF TypeOK
  <2>5. Pipeline' = Pipeline
    BY <1>0, <1>1, <2>1, HandOver, ZenonT(30) DEF Pipeline
  <2>6. ChannelInv'
    BY ZenonT(30), <1>0, <2>1, <2>3 DEF ChannelInv
  <2> QED BY ZenonT(30), <1>1, <2>3, <2>4, <2>5, <2>6, HandOverInv DEF HandsOver
<1>4. CASE Receive
  <2>1. /\ held = <<>> /\ brokerQ # <<>> /\ held' = <<Head(brokerQ)>> /\ brokerQ' = Tail(brokerQ)
        /\ UNCHANGED <<publishing, routerQ>>
    BY ZenonT(30), <1>4 DEF Receive
  <2>2. /\ brokerQ' \in Seq(Envelopes) /\ Len(brokerQ') = Len(brokerQ) - 1
        /\ held' \in Seq(Envelopes) /\ Len(held') = 1
    BY ZenonT(30), <1>2, <2>1, HeadAndTail
  <2>3. Len(held') <= 1 /\ Len(publishing') <= Len(publishing) /\ Len(brokerQ') <= ChannelBuffer
    BY <1>0, <1>2, <2>1, <2>2, RouterAssumption DEF ChannelInv
  <2>4. TypeOK'
    BY <1>0, <1>1, <2>1, <2>2, <2>3, ZenonT(30) DEF TypeOK
  <2>5. Pipeline' = Pipeline
    BY <1>0, <1>1, <2>1, HandOver, ZenonT(30) DEF Pipeline
  <2>6. ChannelInv'
    BY ZenonT(30), <1>0, <2>1, <2>3 DEF ChannelInv
  <2> QED BY ZenonT(30), <1>1, <2>3, <2>4, <2>5, <2>6, HandOverInv DEF HandsOver
<1>5. CASE Forward
  <2>1. /\ routerQ' = routerQ \o held /\ held' = <<>> /\ Len(routerQ) < BackpressureCapacity
        /\ UNCHANGED <<publishing, brokerQ>>
    BY ZenonT(30), <1>5 DEF Forward, cdcVars
  <2>2. /\ routerQ' \in Seq(Envelopes) /\ Len(routerQ') = Len(routerQ) + Len(held)
        /\ held' \in Seq(Envelopes) /\ Len(held') = 0
    BY <1>2, <2>1, CatProperties
  <2>3. /\ Len(held') <= 1 /\ Len(publishing') <= Len(publishing)
        /\ Len(routerQ') <= BackpressureCapacity
    BY <1>2, <2>1, <2>2, RouterAssumption
  <2>4. TypeOK'
    BY <1>0, <1>1, <2>1, <2>2, <2>3, ZenonT(30) DEF TypeOK
  <2>5. Pipeline' = Pipeline
    BY <1>0, <1>1, <2>1, HandOver, ZenonT(30) DEF Pipeline
  <2>6. ChannelInv'
    BY ZenonT(30), <1>0, <2>1, <2>3 DEF ChannelInv
  <2> QED BY ZenonT(30), <1>1, <2>3, <2>4, <2>5, <2>6, HandOverInv DEF HandsOver
<1> QED BY ZenonT(30), <1>3, <1>4, <1>5

\* A step with which the writer task is done with the event at the front, all
\* of whose operations are in their buckets or failed.
Settles ==
  /\ Pipeline # <<>> /\ Pipeline' = Tail(Pipeline) /\ settled' = settled + 1
  /\ writing' = <<>> /\ pending' = NoTasks
  /\ routerQ' \in Seq(Envelopes) /\ Len(routerQ') <= BackpressureCapacity
  /\ \A s \in live : liveFrom[s] <= settled + 1 =>
       \A b \in BucketsOf[s] \cap wal[settled + 1] : Done(b, settled + 1)
  /\ UNCHANGED <<wal, confirmed, cursor, publishing, nextOffset, brokerQ, held>>
  /\ UNCHANGED <<log, folds, frontier, live, open, liveFrom, epoch, base, failed>>

\* Such a step keeps the invariant.
LEMMA SettlesInv ==
  ASSUME Inv, Settles
  PROVE  Inv'
<1>0. TypeOK /\ PipelineFifo /\ PositionInv /\ ChannelInv /\ RoutingInv /\ RoutedCompletely
  BY ZenonT(30) DEF Inv
<1>1. /\ Pipeline # <<>> /\ Pipeline' = Tail(Pipeline) /\ settled' = settled + 1
      /\ writing' = <<>> /\ pending' = NoTasks
      /\ routerQ' \in Seq(Envelopes) /\ Len(routerQ') <= BackpressureCapacity
      /\ UNCHANGED <<wal, confirmed, cursor, publishing, nextOffset, brokerQ, held>>
      /\ UNCHANGED <<log, folds, frontier, live, open, liveFrom, epoch, base, failed>>
  BY ZenonT(30) DEF Settles
<1>2. PipelineFifo'
  BY ZenonT(30), <1>0, <1>1, FifoSettle
<1>3. settled < cursor
  <2>1. Len(Pipeline) > 0
    BY ZenonT(30), <1>0, <1>1, PipelineType, HeadAndTail
  <2> QED BY <1>0, <2>1, Positions DEF PipelineFifo
<1>4. TypeOK'
  <2>1. settled' \in 0..Len(wal)
    BY <1>1, <1>3, Positions
  <2>2. pending' \in [Buckets -> Nat]
    BY ZenonT(30), <1>1 DEF NoTasks
  <2>3. writing' \in Seq(Envelopes) /\ Len(writing') <= 1
    BY <1>1
  <2> QED BY <1>0, <1>1, <2>1, <2>2, <2>3, ZenonT(30) DEF TypeOK
<1>5. PositionInv' /\ ChannelInv' /\ TaskInv'
  <2>1. settled \in Nat /\ base \in Nat /\ frontier \in Int
    BY ZenonT(30), Positions
  <2>2. PositionInv'
    BY <1>0, <1>1, <2>1 DEF PositionInv
  <2>3. ChannelInv' /\ TaskInv'
    BY <1>0, <1>1, ZenonT(30) DEF ChannelInv, TaskInv
  <2> QED BY ZenonT(30), <2>2, <2>3
<1>6. RoutingInv'
  BY ZenonT(30), <1>0, <1>1 DEF RoutingInv
<1>7. RoutedCompletely'
  <2>0. /\ settled' = settled + 1 /\ wal' = wal /\ live' = live /\ liveFrom' = liveFrom
        /\ log' = log /\ failed' = failed /\ base' = base /\ epoch' = epoch
    BY <1>1, ZenonT(30)
  <2>1. ASSUME NEW s \in live, NEW e \in liveFrom[s]..(settled + 1), NEW b \in BucketsOf[s] \cap wal[e]
        PROVE  Done(b, e)'
    <3>1. liveFrom[s] \in Nat
      BY ZenonT(30), <1>0 DEF TypeOK
    <3>2. CASE e = settled + 1
      <4>1. liveFrom[s] <= settled + 1
        BY <3>1, Positions
      <4>2. Done(b, e)
        BY <3>2, <4>1, ZenonT(30) DEF Settles
      <4> QED BY <2>0, <4>2, ZenonT(30) DEF Done
    <3>3. CASE e # settled + 1
      <4>1. e \in liveFrom[s]..settled
        BY <3>1, <3>3, Positions
      <4> QED BY ZenonT(30), <1>0, <2>0, <4>1 DEF RoutedCompletely, Done
    <3> QED BY ZenonT(30), <3>2, <3>3
  <2>2. \A s \in live' : \A e \in liveFrom'[s]..settled' : \A b \in BucketsOf[s] \cap wal'[e] : Done(b, e)'
    BY ZenonT(30), <2>0, <2>1
  <2> QED BY ZenonT(30), <2>2, RoutedNext
<1> QED BY ZenonT(30), <1>2, <1>4, <1>5, <1>6, <1>7 DEF Inv

\* route_one_event() starts the append tasks, or finds no bucket affected.
LEMMA RouteOneEventInv ==
  ASSUME Inv, RouteOneEvent
  PROVE  Inv'
<1> DEFINE e == Head(routerQ).ev
<1>0. TypeOK /\ PipelineFifo /\ PositionInv /\ ChannelInv /\ TaskInv /\ RoutingInv /\ RoutedCompletely
  BY ZenonT(30) DEF Inv
<1>1. /\ writing = <<>> /\ routerQ # <<>> /\ routerQ' = Tail(routerQ)
      /\ UNCHANGED <<wal, confirmed, cursor, publishing, nextOffset, brokerQ, held>>
      /\ UNCHANGED <<log, folds, frontier, live, open, liveFrom, epoch, base, failed>>
  BY ZenonT(30) DEF RouteOneEvent, cdcVars, storeVars, assignVars, procVars
<1>2. e = settled + 1 /\ settled < cursor
  BY ZenonT(30), <1>0, <1>1, Front
<1>3. /\ routerQ' \in Seq(Envelopes) /\ Len(routerQ') = Len(routerQ) - 1
      /\ Head(routerQ) \in Envelopes /\ Len(routerQ) \in Nat
  BY <1>0, <1>1, StageTypes, HeadAndTail
<1>4. Len(routerQ') <= BackpressureCapacity
  BY <1>0, <1>3, RouterAssumption DEF ChannelInv
<1>5. /\ Affected(e) \in [Buckets -> Nat]
      /\ \A s \in live : \A b \in BucketsOf[s] \cap wal[e] : Affected(e)[b] > 0
  <2>1. live \subseteq Subs
    BY <1>0, ZenonT(30) DEF TypeOK
  <2>2. \A s \in live : BucketsOf[s] \subseteq Buckets
    BY ZenonT(30), <2>1, RouterAssumption
  <2> QED BY ZenonT(30), <2>1, <2>2, AffectedCounts
<1> HIDE DEF e
<1>6. CASE Affected(e) = NoTasks /\ settled' = e /\ UNCHANGED <<writing, pending>>
  <2>1. Pipeline # <<>>
    BY ZenonT(30), <1>0, <1>1, PipelineType
  <2>2. Pipeline' = Tail(Pipeline)
    BY <1>0, <1>1, <1>6, WithoutFront, ZenonT(30) DEF Pipeline
  <2>3. \A s \in live : \A b \in BucketsOf[s] \cap wal[e] : FALSE
    <3>1. \A b \in Buckets : ~(NoTasks[b] > 0)
      BY DEF NoTasks
    <3>2. \A s \in live : BucketsOf[s] \subseteq Buckets
      BY ZenonT(30), <1>0, RouterAssumption DEF TypeOK
    <3> QED BY ZenonT(30), <1>5, <1>6, <3>1, <3>2
  <2>4. writing' = <<>> /\ pending' = NoTasks
    BY ZenonT(30), <1>0, <1>1, <1>6 DEF TaskInv
  <2>5. settled' = settled + 1
    BY ZenonT(30), <1>2, <1>6
  <2>6. \A s \in live : \A b \in BucketsOf[s] \cap wal[settled + 1] : Done(b, settled + 1)
    BY ZenonT(30), <1>2, <2>3
  <2>7. Settles
    BY ZenonT(30), <1>1, <1>3, <1>4, <2>1, <2>2, <2>4, <2>5, <2>6 DEF Settles
  <2> QED BY ZenonT(30), <2>7, SettlesInv
<1>7. CASE /\ writing' = <<Head(routerQ)>> /\ pending' = Affected(e) /\ UNCHANGED settled
  <2>1. Pipeline' = Pipeline
    BY <1>0, <1>1, <1>7, HandOver, ZenonT(30) DEF Pipeline
  <2>2. writing' \in Seq(Envelopes) /\ Len(writing') <= 1 /\ writing' # <<>>
    BY <1>3, <1>7
  <2>3. TypeOK'
    BY <1>0, <1>1, <1>3, <1>5, <1>7, <2>2, ZenonT(30) DEF TypeOK
  <2>4. PipelineFifo'
    BY ZenonT(30), <1>0, <1>1, <1>7, <2>1, FifoSame
  <2>5. PositionInv' /\ ChannelInv' /\ TaskInv'
    BY ZenonT(30), <1>0, <1>1, <1>4, <1>7, <2>2 DEF PositionInv, ChannelInv, TaskInv
  <2>6. RoutingInv'
    BY ZenonT(30), <1>0, <1>1, <1>2, <1>5, <1>7 DEF RoutingInv
  <2>7. RoutedCompletely'
    <3>1. /\ settled' = settled /\ wal' = wal /\ live' = live /\ liveFrom' = liveFrom
          /\ log' = log /\ failed' = failed /\ base' = base /\ epoch' = epoch
      BY <1>1, <1>7, ZenonT(30)
    <3> QED BY ZenonT(30), <1>0, <3>1, RoutedSame
  <2> QED BY ZenonT(30), <2>3, <2>4, <2>5, <2>6, <2>7 DEF Inv
<1> QED BY ZenonT(30), <1>6, <1>7 DEF RouteOneEvent, e

\* join_all() returns: every append task of the event has ended.
LEMMA JoinAllInv ==
  ASSUME Inv, JoinAll
  PROVE  Inv'
<1>0. TypeOK /\ PipelineFifo /\ ChannelInv /\ RoutingInv
  BY ZenonT(30) DEF Inv
<1>1. /\ writing # <<>> /\ pending = NoTasks /\ settled' = writing[1].ev /\ writing' = <<>>
      /\ UNCHANGED <<wal, confirmed, cursor, publishing, nextOffset, brokerQ, held>>
      /\ UNCHANGED <<routerQ, pending>>
      /\ UNCHANGED <<log, folds, frontier, live, open, liveFrom, epoch, base, failed>>
  BY ZenonT(30) DEF JoinAll, cdcVars, storeVars, assignVars, procVars
<1>2. settled' = settled + 1 /\ Pipeline # <<>>
  BY ZenonT(30), <1>0, <1>1, Front, PipelineType
<1>3. Pipeline' = Tail(Pipeline)
  BY <1>0, <1>1, WithoutFront, ZenonT(30) DEF Pipeline
<1>4. \A s \in live : liveFrom[s] <= settled + 1 =>
        \A b \in BucketsOf[s] \cap wal[settled + 1] : Done(b, settled + 1)
  <2>1. \A b \in Buckets : ~(NoTasks[b] > 0)
    BY DEF NoTasks
  <2>2. \A s \in live : BucketsOf[s] \subseteq Buckets
    BY ZenonT(30), <1>0, RouterAssumption DEF TypeOK
  <2> QED BY ZenonT(30), <1>0, <1>1, <2>1, <2>2 DEF RoutingInv
<1>5. routerQ' \in Seq(Envelopes) /\ Len(routerQ') <= BackpressureCapacity
  BY ZenonT(30), <1>0, <1>1, StageTypes DEF ChannelInv
<1>6. Settles
  BY ZenonT(30), <1>1, <1>2, <1>3, <1>4, <1>5 DEF Settles
<1> QED BY ZenonT(30), <1>6, SettlesInv

\* An append task of bucket b ends, with its operation in the bucket or failed;
\* what was done for this and for earlier events is as before.
EndsTask(b) ==
  /\ b \in Buckets /\ writing # <<>>
  /\ pending' \in [Buckets -> Nat] /\ \A c \in Buckets : c # b => pending'[c] = pending[c]
  /\ \A e : e = settled + 1 => Done(b, e)'
  /\ \A c \in Buckets : \A e \in (base + 1)..(settled + 1) : Done(c, e) => Done(c, e)'
  /\ log' \in [Buckets -> [Lsn -> Entries \cup {NoEntry}]] /\ folds' \in [Buckets -> Seq(Entries)]
  /\ failed' \subseteq Buckets \X Event
  /\ frontier' \in Lsn \cup {-1} /\ frontier' <= settled - base
  /\ UNCHANGED <<wal, confirmed, cursor, publishing, nextOffset, brokerQ, held, routerQ, writing>>
  /\ UNCHANGED <<settled, live, open, liveFrom, epoch, base>>

\* The end of an append task keeps the invariant.
LEMMA EndsTaskInv ==
  ASSUME Inv, NEW b, EndsTask(b)
  PROVE  Inv'
<1>0. TypeOK /\ PipelineFifo /\ PositionInv /\ ChannelInv /\ TaskInv /\ RoutingInv /\ RoutedCompletely
  BY ZenonT(30) DEF Inv
<1>1. /\ writing # <<>> /\ pending' \in [Buckets -> Nat]
      /\ log' \in [Buckets -> [Lsn -> Entries \cup {NoEntry}]] /\ folds' \in [Buckets -> Seq(Entries)]
      /\ failed' \subseteq Buckets \X Event
      /\ frontier' \in Lsn \cup {-1} /\ frontier' <= settled - base
      /\ UNCHANGED <<wal, confirmed, cursor, publishing, nextOffset, brokerQ, held, routerQ, writing>>
      /\ UNCHANGED <<settled, live, open, liveFrom, epoch, base>>
  BY ZenonT(30) DEF EndsTask
<1>2. \A c \in Buckets : \A e \in (base + 1)..(settled + 1) : Done(c, e) => Done(c, e)'
  BY ZenonT(30) DEF EndsTask
<1>3. /\ liveFrom \in [Subs -> Nat] /\ live \subseteq Subs
      /\ \A s \in live : BucketsOf[s] \subseteq Buckets
  BY ZenonT(30), <1>0, RouterAssumption DEF TypeOK
<1>4. TypeOK'
  BY <1>0, <1>1, ZenonT(30) DEF TypeOK
<1>5. PipelineFifo'
  <2>1. Pipeline' = Pipeline
    BY ZenonT(30), <1>1 DEF Pipeline
  <2> QED BY ZenonT(30), <1>0, <1>1, <2>1, FifoSame
<1>6. PositionInv' /\ ChannelInv' /\ TaskInv'
  BY ZenonT(30), <1>0, <1>1 DEF PositionInv, ChannelInv, TaskInv
<1>7. RoutingInv'
  <2>0. PICK f : f = settled + 1 /\ f = settled' + 1 /\ f \in (base + 1)..(settled + 1)
    BY <1>1, Positions
  <2>1. ASSUME NEW s \in live, liveFrom[s] <= f, NEW c \in BucketsOf[s] \cap wal[f]
        PROVE  pending'[c] > 0 \/ Done(c, f)'
    <3>1. c \in Buckets
      BY ZenonT(30), <1>3
    <3>2. pending[c] > 0 \/ Done(c, f)
      BY <1>0, <1>1, <2>0, <2>1, ZenonT(30) DEF RoutingInv
    <3>3. CASE c = b
      BY <2>0, <3>3, ZenonT(30) DEF EndsTask
    <3>4. CASE c # b /\ pending[c] > 0
      BY <3>1, <3>4, ZenonT(30) DEF EndsTask
    <3>5. CASE Done(c, f)
      BY ZenonT(30), <1>2, <2>0, <3>1, <3>5
    <3> QED BY ZenonT(30), <3>2, <3>3, <3>4, <3>5
  <2>2. \A s \in live : liveFrom[s] > base
    BY ZenonT(30), <1>0 DEF RoutingInv
  <2>3. \A c : Done(c, f)' => Done(c, settled + 1)'
    BY ZenonT(30), <2>0
  <2> QED BY <1>1, <2>0, <2>1, <2>2, <2>3, ZenonT(30) DEF RoutingInv
<1>8. RoutedCompletely'
  <2>1. ASSUME NEW s \in live, NEW e \in liveFrom[s]..settled, NEW c \in BucketsOf[s] \cap wal[e]
        PROVE  Done(c, e)'
    <3>1. liveFrom[s] \in Nat /\ liveFrom[s] > base
      BY ZenonT(30), <1>0, <1>3 DEF RoutingInv
    <3>2. e \in (base + 1)..(settled + 1)
      BY <3>1, Positions
    <3>3. c \in Buckets
      BY ZenonT(30), <1>3
    <3>4. Done(c, e)
      BY <1>0, ZenonT(30) DEF RoutedCompletely, Done
    <3> QED BY ZenonT(30), <1>2, <3>2, <3>3, <3>4
  <2>2. \A s \in live' : \A e \in liveFrom'[s]..settled' : \A c \in BucketsOf[s] \cap wal'[e] : Done(c, e)'
    BY <1>1, <2>1, ZenonT(30)
  <2> QED BY ZenonT(30), <2>2, RoutedNext
<1> QED BY ZenonT(30), <1>4, <1>5, <1>6, <1>7, <1>8 DEF Inv

\* A bucket with an append task running: the task is of the event at the front.
LEMMA TaskOfFront ==
  ASSUME Inv, NEW b \in Buckets, pending[b] > 0
  PROVE  /\ writing # <<>> /\ writing[1].ev = settled + 1 /\ writing[1].offset = settled - base
         /\ settled + 1 \in Event /\ settled - base \in Lsn /\ settled < cursor
<1>0. TypeOK /\ PipelineFifo /\ TaskInv
  BY ZenonT(30) DEF Inv
<1>1. NoTasks[b] = 0
  BY ZenonT(30) DEF NoTasks
<1>2. writing # <<>>
  BY <1>0, <1>1 DEF TaskInv
<1>3. writing[1].ev = settled + 1 /\ writing[1].offset = settled - base /\ settled < cursor
  BY ZenonT(30), <1>0, <1>2, Front
<1>4. settled + 1 \in Event /\ settled - base \in Lsn
  BY <1>3, Positions DEF Event, Lsn
<1> QED BY ZenonT(30), <1>2, <1>3, <1>4

\* An append task commits: it writes at the offset of the event at the front,
\* above those of the events before it.
LEMMA AppendOpInv ==
  ASSUME Inv, NEW b \in Buckets, AppendOp(b)
  PROVE  Inv'
<1> DEFINE l == settled - base
           entry == [epoch |-> epoch, ev |-> settled + 1]
<1>0. TypeOK
  BY ZenonT(30) DEF Inv
<1>1. pending[b] > 0
  BY ZenonT(30) DEF AppendOp
<1>2. /\ writing # <<>> /\ writing[1].ev = settled + 1 /\ writing[1].offset = l
      /\ settled + 1 \in Event /\ l \in Lsn /\ settled < cursor
  BY ZenonT(30), <1>1, TaskOfFront
<1>3. /\ log' = [log EXCEPT ![b][l] = entry] /\ folds' = [folds EXCEPT ![b] = Append(@, entry)]
      /\ frontier' = l /\ pending' = [pending EXCEPT ![b] = @ - 1]
  BY ZenonT(30), <1>2 DEF AppendOp
<1>4. /\ UNCHANGED <<wal, confirmed, cursor, publishing, nextOffset, brokerQ, held, routerQ, writing>>
      /\ UNCHANGED <<settled, live, open, liveFrom, epoch, base, failed>>
  BY ZenonT(30) DEF AppendOp, cdcVars, assignVars, procVars
<1>5. /\ log \in [Buckets -> [Lsn -> Entries \cup {NoEntry}]] /\ folds \in [Buckets -> Seq(Entries)]
      /\ pending \in [Buckets -> Nat] /\ epoch \in Epoch /\ failed \subseteq Buckets \X Event
  BY <1>0, ZenonT(30) DEF TypeOK
<1>6. entry \in Entries
  BY <1>2, <1>5, ZenonT(30) DEF Entries
<1>7. /\ pending' \in [Buckets -> Nat] /\ \A c \in Buckets : c # b => pending'[c] = pending[c]
  BY <1>1, <1>3, <1>5
<1>8. folds' \in [Buckets -> Seq(Entries)]
  <2>1. Append(folds[b], entry) \in Seq(Entries)
    BY <1>5, <1>6
  <2> QED BY ZenonT(30), <1>3, <1>5, <2>1
<1>9. log' \in [Buckets -> [Lsn -> Entries \cup {NoEntry}]]
  BY <1>3, <1>5, <1>6, ZenonT(30)
<1>10. /\ log'[b][l] = entry
       /\ \A c \in Buckets, k \in Lsn : k # l => log'[c][k] = log[c][k]
  BY <1>2, <1>3, <1>5, ZenonT(30)
<1>11. \A e : e = settled + 1 => Done(b, e)'
  <2> TAKE e
  <2> HAVE e = settled + 1
  <2>1. entry = [epoch |-> epoch, ev |-> e] /\ epoch' = epoch /\ base' = base /\ e - 1 - base = l
    BY <1>4, Positions
  <2> HIDE DEF l, entry
  <2> QED BY <1>10, <2>1, ZenonT(30) DEF Done
<1>12. ASSUME NEW c \in Buckets, NEW e \in (base + 1)..(settled + 1), Done(c, e)
       PROVE  Done(c, e)'
  <2>1. e - 1 - base \in Lsn /\ (e - 1 - base = l => e = settled + 1)
    <3>1. settled \in Nat /\ base \in Nat /\ MaxEvents \in Nat /\ settled - base \in 0..(MaxEvents - 1)
      BY ZenonT(30), <1>2, Positions DEF Lsn
    <3> QED BY <3>1 DEF Lsn
  <2>2. CASE e # settled + 1
    BY <1>4, <1>10, <1>12, <2>1, <2>2, ZenonT(30) DEF Done
  <2>3. CASE e = settled + 1
    <3>1. log'[c][e - 1 - base] = entry \/ log'[c][e - 1 - base] = log[c][e - 1 - base]
      BY <1>2, <1>3, <1>5, <2>1, ZenonT(30)
    <3>2. entry = [epoch |-> epoch, ev |-> e] /\ epoch' = epoch /\ base' = base /\ failed' = failed
      BY ZenonT(30), <1>4, <2>3
    <3> HIDE DEF l, entry
    <3> QED BY <1>12, <3>1, <3>2, ZenonT(30) DEF Done
  <2> QED BY ZenonT(30), <2>2, <2>3
<1>13. frontier' \in Lsn \cup {-1} /\ frontier' <= settled - base
  BY <1>2, <1>3, Positions DEF Lsn
<1>14. EndsTask(b)
  <2> HIDE DEF l, entry
  <2> QED BY <1>2, <1>4, <1>5, <1>7, <1>8, <1>9, <1>11, <1>12, <1>13, ZenonT(30) DEF EndsTask
<1> QED BY ZenonT(30), <1>14, EndsTaskInv

\* An append task fails: the failure is on record.
LEMMA AppendFailsInv ==
  ASSUME Inv, NEW b \in Buckets, AppendFails(b)
  PROVE  Inv'
<1>0. TypeOK
  BY ZenonT(30) DEF Inv
<1>1. pending[b] > 0
  BY ZenonT(30) DEF AppendFails
<1>2. /\ writing # <<>> /\ writing[1].ev = settled + 1 /\ settled + 1 \in Event
  BY ZenonT(30), <1>1, TaskOfFront
<1>3. failed' = failed \cup {<<b, settled + 1>>} /\ pending' = [pending EXCEPT ![b] = @ - 1]
  BY ZenonT(30), <1>2 DEF AppendFails
<1>4. /\ UNCHANGED <<wal, confirmed, cursor, publishing, nextOffset, brokerQ, held, routerQ, writing>>
      /\ UNCHANGED <<settled, live, open, liveFrom, epoch, base, log, folds, frontier>>
  BY ZenonT(30) DEF AppendFails, cdcVars, assignVars, procVars, storeVars
<1>5. /\ log \in [Buckets -> [Lsn -> Entries \cup {NoEntry}]] /\ folds \in [Buckets -> Seq(Entries)]
      /\ pending \in [Buckets -> Nat] /\ frontier \in Lsn \cup {-1} /\ failed \subseteq Buckets \X Event
  BY <1>0, ZenonT(30) DEF TypeOK
<1>6. /\ pending' \in [Buckets -> Nat] /\ \A c \in Buckets : c # b => pending'[c] = pending[c]
  BY <1>1, <1>3, <1>5
<1>7. failed' \subseteq Buckets \X Event
  BY <1>2, <1>3, <1>5
<1>8. \A e : e = settled + 1 => Done(b, e)'
  BY ZenonT(30), <1>3 DEF Done
<1>9. \A c \in Buckets : \A e \in (base + 1)..(settled + 1) : Done(c, e) => Done(c, e)'
  BY <1>3, <1>4, ZenonT(30) DEF Done
<1>10. frontier' \in Lsn \cup {-1} /\ frontier' <= settled - base
  BY ZenonT(30), <1>4, <1>5, Positions
<1>11. EndsTask(b)
  BY <1>2, <1>4, <1>5, <1>6, <1>7, <1>8, <1>9, <1>10, ZenonT(30) DEF EndsTask
<1> QED BY ZenonT(30), <1>11, EndsTaskInv

\* A handshake caches an assignment: it is routed to from the next event on.
LEMMA SubscribeInv ==
  ASSUME Inv, NEW s \in Subs, Subscribe(s)
  PROVE  Inv'
<1>0. TypeOK /\ PipelineFifo /\ PositionInv /\ ChannelInv /\ TaskInv /\ RoutingInv /\ RoutedCompletely
  BY ZenonT(30) DEF Inv
<1>1. /\ live' = live \cup {s} /\ open' = open \cup {s}
      /\ liveFrom' = IF s \in live THEN liveFrom ELSE [liveFrom EXCEPT ![s] = NextRouted]
  BY ZenonT(30) DEF Subscribe
<1>2. /\ UNCHANGED <<wal, confirmed, cursor, publishing, nextOffset, brokerQ>>
      /\ UNCHANGED <<held, routerQ, writing, pending, settled, log, folds, frontier, epoch, base, failed>>
  BY ZenonT(30) DEF Subscribe, cdcVars, routerVars, storeVars, procVars
<1>3. liveFrom \in [Subs -> Nat] /\ live \subseteq Subs /\ open \subseteq Subs
  BY <1>0, ZenonT(30) DEF TypeOK
<1>4. /\ NextRouted \in Nat /\ NextRouted > settled /\ NextRouted > base
      /\ writing # <<>> => NextRouted > settled + 1
  <2>1. settled \in Nat /\ base \in Nat /\ base <= settled
    BY ZenonT(30), Positions
  <2>2. writing # <<>> => writing[1].ev = settled + 1
    BY <1>0, Front, ZenonT(30)
  <2> QED BY <2>1, <2>2 DEF NextRouted
<1>5. liveFrom' \in [Subs -> Nat] /\ live' \subseteq Subs /\ open' \subseteq Subs
  BY ZenonT(30), <1>1, <1>3, <1>4
<1>6. ASSUME NEW u \in live'
      PROVE  (u \in live /\ liveFrom'[u] = liveFrom[u]) \/ liveFrom'[u] = NextRouted
  BY ZenonT(30), <1>1, <1>3, <1>6
<1>7. TypeOK'
  BY <1>0, <1>2, <1>5, ZenonT(30) DEF TypeOK
<1>8. PipelineFifo' /\ PositionInv' /\ ChannelInv' /\ TaskInv'
  <2>1. Pipeline' = Pipeline
    BY ZenonT(30), <1>2 DEF Pipeline
  <2>2. PipelineFifo'
    BY ZenonT(30), <1>0, <1>2, <2>1, FifoSame
  <2> QED BY ZenonT(30), <1>0, <1>2, <2>2 DEF PositionInv, ChannelInv, TaskInv
<1>9. \A b, e : Done(b, e) => Done(b, e)'
  BY ZenonT(30), <1>2 DEF Done
<1>10. RoutingInv'
  <2>0. PICK f : f = settled + 1 /\ f = settled' + 1 /\ f \in Nat
    BY <1>2, Positions
  <2>1. \A u \in live' : liveFrom'[u] > base
    BY <1>0, <1>4, <1>6, ZenonT(30) DEF RoutingInv
  <2>2. ASSUME writing # <<>>, NEW u \in live', liveFrom'[u] <= f, NEW b \in BucketsOf[u] \cap wal[f]
        PROVE  pending[b] > 0 \/ Done(b, f)
    <3>1. u \in live /\ liveFrom'[u] = liveFrom[u]
      <4>1. settled \in Nat
        BY ZenonT(30), Positions
      <4>2. liveFrom'[u] # NextRouted
        BY <1>4, <2>0, <2>2, <4>1
      <4> QED BY <1>6, <4>2, ZenonT(30)
    <3> QED BY ZenonT(30), <1>0, <2>0, <2>2, <3>1 DEF RoutingInv
  <2>3. \A b : Done(b, f) => Done(b, settled + 1)'
    BY ZenonT(30), <1>9, <2>0
  <2> QED BY ZenonT(30), <1>2, <2>0, <2>1, <2>2, <2>3 DEF RoutingInv
<1>11. RoutedCompletely'
  <2>1. ASSUME NEW u \in live', NEW e \in liveFrom'[u]..settled, NEW b \in BucketsOf[u] \cap wal[e]
        PROVE  Done(b, e)'
    <3>1. u \in live /\ liveFrom'[u] = liveFrom[u]
      <4>1. settled \in Nat
        BY ZenonT(30), Positions
      <4>2. liveFrom'[u] # NextRouted
        BY <1>4, <4>1
      <4> QED BY <1>6, <4>2, ZenonT(30)
    <3>2. Done(b, e)
      BY <1>0, <3>1, ZenonT(30) DEF RoutedCompletely, Done
    <3> QED BY ZenonT(30), <1>9, <3>2
  <2>2. \A u \in live' : \A e \in liveFrom'[u]..settled' : \A b \in BucketsOf[u] \cap wal'[e] : Done(b, e)'
    BY <1>2, <2>1, ZenonT(30)
  <2> QED BY ZenonT(30), <2>2, RoutedNext
<1> QED BY ZenonT(30), <1>7, <1>8, <1>10, <1>11 DEF Inv

\* A session ends, or an assignment leaves the cache: fewer are routed to.
LEMMA LeaveInv ==
  ASSUME Inv, NEW s \in Subs, Disconnect(s) \/ Expire(s)
  PROVE  Inv'
<1>0. TypeOK /\ PipelineFifo /\ PositionInv /\ ChannelInv /\ TaskInv
  BY ZenonT(30) DEF Inv
<1>1. /\ UNCHANGED <<wal, confirmed, cursor, publishing, nextOffset, brokerQ>>
      /\ UNCHANGED <<held, routerQ, writing, pending, settled, log, folds, frontier, epoch, base, failed>>
      /\ UNCHANGED liveFrom
  BY ZenonT(30) DEF Disconnect, Expire, cdcVars, routerVars, storeVars, procVars
<1>2. live' \subseteq live /\ open' \subseteq open
  BY ZenonT(30) DEF Disconnect, Expire
<1>3. TypeOK'
  <2>1. live' \subseteq Subs /\ open' \subseteq Subs
    BY <1>0, <1>2, ZenonT(30) DEF TypeOK
  <2> QED BY <1>0, <1>1, <2>1, ZenonT(30) DEF TypeOK
<1>4. PipelineFifo' /\ PositionInv' /\ ChannelInv' /\ TaskInv'
  <2>1. Pipeline' = Pipeline
    BY ZenonT(30), <1>1 DEF Pipeline
  <2>2. PipelineFifo'
    BY ZenonT(30), <1>0, <1>1, <2>1, FifoSame
  <2> QED BY ZenonT(30), <1>0, <1>1, <2>2 DEF PositionInv, ChannelInv, TaskInv
<1>5. RoutingInv' /\ RoutedCompletely'
  BY ZenonT(30), <1>1, <1>2, RoutingSame
<1> QED BY ZenonT(30), <1>3, <1>4, <1>5 DEF Inv

\* A process that has just started: nothing is in flight and nobody is cached.
Fresh ==
  /\ TypeOK
  /\ cursor = confirmed /\ settled = confirmed /\ base = confirmed /\ nextOffset = 0
  /\ publishing = <<>> /\ brokerQ = <<>> /\ held = <<>> /\ routerQ = <<>> /\ writing = <<>>
  /\ pending = NoTasks /\ live = {} /\ frontier = -1

\* The invariant holds when a process starts.
LEMMA FreshInv ==
  ASSUME Fresh
  PROVE  Inv
<1>0. TypeOK /\ confirmed \in Nat
  BY DEF Fresh, TypeOK
<1>1. /\ Len(publishing) = 0 /\ Len(brokerQ) = 0 /\ Len(held) = 0 /\ Len(routerQ) = 0 /\ Len(writing) = 0
  BY ZenonT(30) DEF Fresh
<1>2. Len(Pipeline) = 0
  BY <1>0, <1>1, PipelineType
<1>3. PipelineFifo
  BY <1>0, <1>2 DEF Fresh, PipelineFifo
<1>4. PositionInv /\ ChannelInv /\ TaskInv
  BY <1>0, <1>1, RouterAssumption DEF Fresh, PositionInv, ChannelInv, TaskInv
<1>5. RoutingInv /\ RoutedCompletely
  BY ZenonT(30) DEF Fresh, RoutingInv, RoutedCompletely
<1> QED BY ZenonT(30), <1>0, <1>3, <1>4, <1>5 DEF Inv

\* The first process starts with an empty log.
LEMMA InitInv ==
  ASSUME Init
  PROVE  Inv
<1>1. TypeOK
  <2>1. /\ wal \in Seq(SUBSET Buckets) /\ Len(wal) = 0 /\ Len(wal) <= MaxEvents
    BY RouterAssumption DEF Init
  <2>2. /\ confirmed \in 0..Len(wal) /\ cursor \in 0..Len(wal) /\ base \in 0..Len(wal)
        /\ settled \in 0..Len(wal) /\ nextOffset \in 0..MaxEvents /\ epoch \in Epoch
    BY <2>1, RouterAssumption DEF Init, FirstOffset, Epoch
  <2>3. /\ publishing \in Seq(Envelopes) /\ Len(publishing) <= 1 /\ brokerQ \in Seq(Envelopes)
        /\ held \in Seq(Envelopes) /\ Len(held) <= 1 /\ routerQ \in Seq(Envelopes)
        /\ writing \in Seq(Envelopes) /\ Len(writing) <= 1
    BY DEF Init
  <2>4. /\ log \in [Buckets -> [Lsn -> Entries \cup {NoEntry}]] /\ pending \in [Buckets -> Nat]
        /\ liveFrom \in [Subs -> Nat]
    BY ZenonT(30) DEF Init, NoTasks
  <2>5. folds \in [Buckets -> Seq(Entries)]
    BY DEF Init
  <2>6. /\ live \subseteq Subs /\ open \subseteq Subs /\ frontier \in Lsn \cup {-1}
        /\ failed \subseteq Buckets \X Event
    BY ZenonT(30) DEF Init
  <2> QED BY <2>1, <2>2, <2>3, <2>4, <2>5, <2>6, ZenonT(30) DEF TypeOK
<1>2. Fresh
  BY ZenonT(30), <1>1 DEF Init, Fresh, FirstOffset
<1> QED BY ZenonT(30), <1>2, FreshInv

\* The next process starts at the slot's position, over the log as it is.
LEMMA RestartInv ==
  ASSUME Inv, Restart
  PROVE  Inv'
<1>0. TypeOK
  BY ZenonT(30) DEF Inv
<1>1. TypeOK'
  <2>1. /\ UNCHANGED <<wal, confirmed, log, folds>>
    BY ZenonT(30) DEF Restart
  <2>2. /\ confirmed' \in 0..Len(wal') /\ cursor' \in 0..Len(wal') /\ base' \in 0..Len(wal')
        /\ settled' \in 0..Len(wal')
    BY ZenonT(30), <1>0, <2>1 DEF Restart, TypeOK
  <2>3. nextOffset' \in 0..MaxEvents /\ epoch' \in Epoch
    BY <1>0, RouterAssumption DEF Restart, TypeOK, FirstOffset, Epoch
  <2>4. /\ publishing' \in Seq(Envelopes) /\ Len(publishing') <= 1 /\ brokerQ' \in Seq(Envelopes)
        /\ held' \in Seq(Envelopes) /\ Len(held') <= 1 /\ routerQ' \in Seq(Envelopes)
        /\ writing' \in Seq(Envelopes) /\ Len(writing') <= 1
    BY DEF Restart
  <2>5. pending' \in [Buckets -> Nat] /\ liveFrom' \in [Subs -> Nat]
    BY ZenonT(30) DEF Restart, NoTasks
  <2>6. /\ live' \subseteq Subs /\ open' \subseteq Subs /\ frontier' \in Lsn \cup {-1}
        /\ failed' \subseteq Buckets \X Event
    BY ZenonT(30) DEF Restart
  <2> QED BY <1>0, <2>1, <2>2, <2>3, <2>4, <2>5, <2>6, ZenonT(30) DEF TypeOK
<1>2. Fresh'
  BY ZenonT(30), <1>1 DEF Restart, Fresh, FirstOffset, NoTasks
<1> QED BY <1>2, FreshInv, PTL

\* Every step keeps the invariant.
LEMMA NextInv ==
  ASSUME Inv, [Next]_vars
  PROVE  Inv'
<1>1. CASE Commit
  BY ZenonT(30), <1>1, CommitInv
<1>2. CASE Confirm
  BY ZenonT(30), <1>2, ConfirmInv
<1>3. CASE Publish
  BY ZenonT(30), <1>3, PublishInv
<1>4. CASE PublishSend \/ Receive \/ Forward
  BY ZenonT(30), <1>4, SendInv
<1>5. CASE RouteOneEvent
  BY ZenonT(30), <1>5, RouteOneEventInv
<1>6. CASE JoinAll
  BY ZenonT(30), <1>6, JoinAllInv
<1>7. CASE Restart
  BY ZenonT(30), <1>7, RestartInv
<1>8. CASE \E b \in Buckets : AppendOp(b)
  BY ZenonT(30), <1>8, AppendOpInv
<1>9. CASE \E b \in Buckets : AppendFails(b)
  BY ZenonT(30), <1>9, AppendFailsInv
<1>10. CASE \E s \in Subs : Subscribe(s)
  BY ZenonT(30), <1>10, SubscribeInv
<1>11. CASE \E s \in Subs : Disconnect(s)
  BY ZenonT(30), <1>11, LeaveInv
<1>12. CASE \E s \in Subs : Expire(s)
  BY ZenonT(30), <1>12, LeaveInv
<1>13. CASE UNCHANGED vars
  <2>0. TypeOK /\ PipelineFifo /\ PositionInv /\ ChannelInv /\ TaskInv
    BY ZenonT(30) DEF Inv
  <2>1. /\ UNCHANGED <<wal, confirmed, cursor, publishing, nextOffset, brokerQ>>
        /\ UNCHANGED <<held, routerQ, writing, pending, settled, log, folds, frontier>>
        /\ UNCHANGED <<live, open, liveFrom, epoch, base, failed>>
    BY ZenonT(30), <1>13 DEF vars, cdcVars, routerVars, storeVars, assignVars, procVars
  <2>2. TypeOK'
    BY <2>0, <2>1, ZenonT(30) DEF TypeOK
  <2>3. Pipeline' = Pipeline
    BY ZenonT(30), <2>1 DEF Pipeline
  <2>4. PipelineFifo'
    BY ZenonT(30), <2>0, <2>1, <2>3, FifoSame
  <2>5. PositionInv' /\ ChannelInv' /\ TaskInv'
    BY ZenonT(30), <2>0, <2>1 DEF PositionInv, ChannelInv, TaskInv
  <2>6. RoutingInv' /\ RoutedCompletely'
    BY ZenonT(30), <2>1, RoutingSame
  <2> QED BY ZenonT(30), <2>2, <2>4, <2>5, <2>6 DEF Inv
<1> QED BY ZenonT(30), <1>1, <1>2, <1>3, <1>4, <1>5, <1>6, <1>7, <1>8, <1>9, <1>10, <1>11, <1>12, <1>13 DEF Next

\* The inductive invariant holds in every reachable state.
THEOREM Invariance == Spec => []Inv
<1>1. Init => Inv
  BY ZenonT(30), InitInv
<1>2. Inv /\ [Next]_vars => Inv'
  BY ZenonT(30), NextInv
<1> QED BY <1>1, <1>2, PTL DEF Spec

-----------------------------------------------------------------------------
(* What the pipeline promises.                                             *)

\* Two full channels and three envelopes between them are the most a process
\* holds.
LEMMA InvBounds ==
  ASSUME Inv
  PROVE  BoundedBuffering
<1> DEFINE w == Len(writing)
           q == Len(routerQ)
           h == Len(held)
           k == Len(brokerQ)
           p == Len(publishing)
<1>0. TypeOK /\ PipelineFifo /\ ChannelInv
  BY ZenonT(30) DEF Inv
<1>1. /\ w \in Nat /\ q \in Nat /\ h \in Nat /\ k \in Nat /\ p \in Nat
      /\ w <= 1 /\ h <= 1 /\ p <= 1
  BY <1>0, StageTypes
<1>2. q <= BackpressureCapacity /\ k <= ChannelBuffer
  BY ZenonT(30), <1>0 DEF ChannelInv
<1>3. cursor - settled = w + q + h + k + p
  BY ZenonT(30), <1>0, PipelineType DEF PipelineFifo
<1> HIDE DEF w, q, h, k, p
<1> QED BY <1>1, <1>2, <1>3, RouterAssumption DEF BoundedBuffering

\* InProcessBroker and WalToBucketRouter hand every event on in the order of
\* the WAL, with the offset publish() gave it, for channels of any size.
THEOREM PipelineFifoCorrect == Spec => []PipelineFifo
<1>1. Inv => PipelineFifo
  BY ZenonT(30) DEF Inv
<1> QED BY <1>1, Invariance, PTL

\* publish() and run() wait for room: a process never holds more envelopes
\* than its two channels and the three places between them.
THEOREM BoundedBufferingCorrect == Spec => []BoundedBuffering
<1>1. Inv => BoundedBuffering
  BY ZenonT(30), InvBounds
<1> QED BY <1>1, Invariance, PTL

\* route_one_event() has put every event it is done with into every bucket of
\* every cached assignment the row matches, except where an append failed.
THEOREM RoutedCompletelyCorrect == Spec => []RoutedCompletely
<1>1. Inv => RoutedCompletely
  BY ZenonT(30) DEF Inv
<1> QED BY <1>1, Invariance, PTL

-----------------------------------------------------------------------------
(* What is folded into a bucket's checksum.                                *)

\* At most one subject's rules resolve to the bucket.
Unshared(b) == \A s, t \in Subs : b \in BucketsOf[s] /\ b \in BucketsOf[t] => s = t

\* The event of this process has been appended to the bucket and nothing will
\* append it again: it is done, or at the front with no task left for b.
NotAgain(b, e) == e <= settled \/ (e = settled + 1 /\ writing # <<>> /\ pending[b] = 0)

\* A bucket of one subject has at most one append task, and what is folded
\* into its checksum stems from an earlier process or will not come again.
OnceInv(b) ==
  /\ pending[b] <= 1
  /\ \A i \in 1..Len(folds[b]) :
       \/ folds[b][i].epoch < epoch
       \/ folds[b][i].epoch = epoch /\ NotAgain(b, folds[b][i].ev)
  /\ \A i, j \in 1..Len(folds[b]) : i # j => folds[b][i] # folds[b][j]

\* ... which holds of each such bucket.
FoldInv == \A b \in Buckets : Unshared(b) => OnceInv(b)

\* find_affected_buckets() lists a bucket of one subject at most once.
LEMMA AffectedOnce ==
  ASSUME live \subseteq Subs, NEW e, NEW b \in Buckets, Unshared(b)
  PROVE  Affected(e)[b] <= 1
<1> DEFINE T == {s \in live : b \in BucketsOf[s]}
<1>1. Cardinality(T) <= 1
  <2>1. CASE T = {}
    BY <2>1, FS_EmptySet
  <2>2. CASE T # {}
    <3>1. PICK s : s \in T
      BY ZenonT(30), <2>2
    <3>2. T = {s}
      BY ZenonT(30), <3>1 DEF Unshared
    <3>3. Cardinality({s}) = 1
      BY ZenonT(30), FS_Singleton
    <3> QED BY <3>2, <3>3
  <2> QED BY ZenonT(30), <2>1, <2>2
<1>2. Affected(e)[b] = IF b \in wal[e] THEN Cardinality(T) ELSE 0
  BY ZenonT(30) DEF Affected
<1> HIDE DEF T
<1> QED BY <1>1, <1>2

\* FoldInv of the next state, when a step folds nothing in.
LEMMA FoldsKept ==
  ASSUME FoldInv, folds' = folds,
         \A b \in Buckets : Unshared(b) => pending'[b] <= 1,
         \A b \in Buckets : \A i \in 1..Len(folds[b]) :
           Unshared(b) => \/ folds[b][i].epoch < epoch'
                          \/ folds[b][i].epoch = epoch' /\ NotAgain(b, folds[b][i].ev)'
  PROVE  FoldInv'
<1>1. ASSUME NEW b \in Buckets, Unshared(b)
      PROVE  OnceInv(b)'
  <2>1. OnceInv(b)
    BY ZenonT(30), <1>1 DEF FoldInv
  <2>2. \A i \in 1..Len(folds'[b]) :
          \/ folds'[b][i].epoch < epoch'
          \/ folds'[b][i].epoch = epoch' /\ NotAgain(b, folds[b][i].ev)'
    BY ZenonT(30), <1>1
  <2> QED BY ZenonT(30), <1>1, <2>1, <2>2 DEF OnceInv
<1> QED BY ZenonT(30), <1>1 DEF FoldInv, Unshared

\* The entries of a bucket's checksum have an event and a process.
LEMMA FoldTypes ==
  ASSUME TypeOK, NEW b \in Buckets
  PROVE  /\ folds[b] \in Seq(Entries) /\ Len(folds[b]) \in Nat /\ pending[b] \in Nat /\ epoch \in Nat
         /\ \A i \in 1..Len(folds[b]) : folds[b][i].epoch \in Nat /\ folds[b][i].ev \in Nat
<1>1. folds[b] \in Seq(Entries) /\ pending[b] \in Nat /\ epoch \in Epoch
  BY ZenonT(30) DEF TypeOK
<1>2. Len(folds[b]) \in Nat /\ \A i \in 1..Len(folds[b]) : folds[b][i] \in Entries
  BY <1>1
<1>3. Epoch \subseteq Nat /\ Event \subseteq Nat
  BY RouterAssumption DEF Epoch, Event
<1> QED BY ZenonT(30), <1>1, <1>2, <1>3 DEF Entries

\* A step of the same process that folds nothing in, takes no position of the
\* writer task back, and starts no task on an event folded in already.
LEMMA FoldsAsBefore ==
  ASSUME Inv, FoldInv, UNCHANGED <<folds, epoch>>,
         \A b \in Buckets : Unshared(b) => pending'[b] <= 1,
         \A b \in Buckets, e \in Nat : NotAgain(b, e) => NotAgain(b, e)'
  PROVE  FoldInv'
<1>1. ASSUME NEW b \in Buckets, NEW i \in 1..Len(folds[b]), Unshared(b)
      PROVE  \/ folds[b][i].epoch < epoch'
             \/ folds[b][i].epoch = epoch' /\ NotAgain(b, folds[b][i].ev)'
  <2>1. folds[b][i].ev \in Nat
    BY ZenonT(30), FoldTypes DEF Inv
  <2>2. \/ folds[b][i].epoch < epoch
        \/ folds[b][i].epoch = epoch /\ NotAgain(b, folds[b][i].ev)
    BY <1>1, ZenonT(30) DEF FoldInv, OnceInv
  <2>3. NotAgain(b, folds[b][i].ev) => NotAgain(b, folds[b][i].ev)'
    BY ZenonT(30), <2>1
  <2> QED BY ZenonT(30), <2>2, <2>3
<1> QED BY ZenonT(30), <1>1, FoldsKept

\* The writer task takes the next event up, or is done with one.
LEMMA WriterFolds ==
  ASSUME Inv, FoldInv, RouteOneEvent \/ JoinAll
  PROVE  FoldInv'
<1>0. TypeOK /\ PipelineFifo /\ live \subseteq Subs /\ pending \in [Buckets -> Nat]
  BY ZenonT(30) DEF Inv, TypeOK
<1>1. UNCHANGED <<folds, epoch>>
  BY ZenonT(30) DEF RouteOneEvent, JoinAll, storeVars, procVars
<1>2. settled \in Nat
  BY ZenonT(30), Positions
<1>3. CASE RouteOneEvent
  <2>1. writing = <<>> /\ Head(routerQ).ev = settled + 1
    <3>1. writing = <<>> /\ routerQ # <<>>
      BY <1>3, ZenonT(30) DEF RouteOneEvent
    <3> QED BY ZenonT(30), <1>0, <3>1, Front
  <2>2. \/ settled' = settled + 1 /\ UNCHANGED <<writing, pending>>
        \/ settled' = settled /\ pending' = Affected(settled + 1)
    BY <1>3, <2>1, ZenonT(30) DEF RouteOneEvent
  <2>3. \A b \in Buckets : Unshared(b) => pending'[b] <= 1
    BY <1>0, <2>2, AffectedOnce, ZenonT(30) DEF FoldInv, OnceInv
  <2>4. \A b \in Buckets, e \in Nat : NotAgain(b, e) => NotAgain(b, e)'
    BY <1>2, <2>1, <2>2 DEF NotAgain
  <2> QED BY ZenonT(30), <1>1, <2>3, <2>4, FoldsAsBefore
<1>4. CASE JoinAll
  <2>1. writing # <<>> /\ settled' = writing[1].ev /\ writing' = <<>> /\ pending' = pending
    BY <1>4, ZenonT(30) DEF JoinAll
  <2>2. settled' = settled + 1
    BY ZenonT(30), <1>0, <2>1, Front
  <2>3. \A b \in Buckets : Unshared(b) => pending'[b] <= 1
    BY <2>1, ZenonT(30) DEF FoldInv, OnceInv
  <2>4. \A b \in Buckets, e \in Nat : NotAgain(b, e) => NotAgain(b, e)'
    BY <1>2, <2>2 DEF NotAgain
  <2> QED BY ZenonT(30), <1>1, <2>3, <2>4, FoldsAsBefore
<1> QED BY ZenonT(30), <1>3, <1>4

\* An append task fails: the bucket has no task left for the event.
LEMMA FailureFolds ==
  ASSUME Inv, FoldInv, NEW b \in Buckets, AppendFails(b)
  PROVE  FoldInv'
<1>0. pending \in [Buckets -> Nat] /\ settled \in Nat
  BY ZenonT(30), Positions DEF Inv, TypeOK
<1>1. /\ UNCHANGED <<folds, epoch, settled, writing>> /\ pending[b] > 0
      /\ pending' = [pending EXCEPT ![b] = @ - 1]
  BY ZenonT(30) DEF AppendFails, storeVars, procVars
<1>2. \A c \in Buckets : pending'[c] = IF c = b THEN pending[c] - 1 ELSE pending[c]
  BY ZenonT(30), <1>0, <1>1
<1>3. \A c \in Buckets : Unshared(c) => pending[c] <= 1
  BY ZenonT(30) DEF FoldInv, OnceInv
<1>4. \A c \in Buckets : Unshared(c) => pending'[c] <= 1
  BY <1>0, <1>2, <1>3
<1>5. \A c \in Buckets, e \in Nat : NotAgain(c, e) => NotAgain(c, e)'
  BY <1>0, <1>1, <1>2 DEF NotAgain
<1> QED BY ZenonT(30), <1>1, <1>4, <1>5, FoldsAsBefore

\* An append task commits: the event was not in the bucket's checksum yet, as
\* the task was the only one.
LEMMA AppendFolds ==
  ASSUME Inv, FoldInv, NEW b \in Buckets, AppendOp(b)
  PROVE  FoldInv'
<1> DEFINE entry == [epoch |-> epoch, ev |-> settled + 1]
<1>0. TypeOK /\ pending \in [Buckets -> Nat] /\ settled \in Nat /\ folds \in [Buckets -> Seq(Entries)]
  BY ZenonT(30), Positions DEF Inv, TypeOK
<1>1. /\ UNCHANGED <<epoch, settled, writing>> /\ pending[b] > 0
      /\ pending' = [pending EXCEPT ![b] = @ - 1]
  BY ZenonT(30) DEF AppendOp, procVars
<1>2. writing # <<>> /\ writing[1].ev = settled + 1
  BY ZenonT(30), <1>1, TaskOfFront
<1>3. folds' = [folds EXCEPT ![b] = Append(@, entry)]
  BY ZenonT(30), <1>2 DEF AppendOp
<1>4. \A c \in Buckets : pending'[c] = IF c = b THEN pending[c] - 1 ELSE pending[c]
  BY ZenonT(30), <1>0, <1>1
<1>5. ASSUME NEW c \in Buckets, Unshared(c), c # b
      PROVE  OnceInv(c)'
  <2>1. folds'[c] = folds[c] /\ pending'[c] = pending[c]
    BY ZenonT(30), <1>0, <1>3, <1>4, <1>5
  <2>2. OnceInv(c)
    BY ZenonT(30), <1>5 DEF FoldInv
  <2> HIDE DEF entry
  <2> QED BY <1>1, <2>1, <2>2, ZenonT(30) DEF OnceInv, NotAgain
<1>6. ASSUME Unshared(b)
      PROVE  OnceInv(b)'
  <2>0. OnceInv(b)
    BY ZenonT(30), <1>6 DEF FoldInv
  <2>1. pending[b] = 1 /\ pending'[b] = 0
    <3>1. pending[b] <= 1
      BY ZenonT(30), <2>0 DEF OnceInv
    <3> QED BY <1>0, <1>1, <1>4, <3>1
  <2>2. \A i \in 1..Len(folds[b]) :
          \/ folds[b][i].epoch < epoch
          \/ folds[b][i].epoch = epoch /\ folds[b][i].ev <= settled
    <3>1. \A i \in 1..Len(folds[b]) :
            \/ folds[b][i].epoch < epoch
            \/ folds[b][i].epoch = epoch /\ NotAgain(b, folds[b][i].ev)
      BY ZenonT(30), <2>0 DEF OnceInv
    <3> QED BY <2>1, <3>1 DEF NotAgain
  <2>3. /\ folds[b] \in Seq(Entries) /\ Len(folds[b]) \in Nat /\ epoch \in Nat
        /\ \A i \in 1..Len(folds[b]) : folds[b][i].epoch \in Nat /\ folds[b][i].ev \in Nat
    BY ZenonT(30), <1>0, FoldTypes
  <2>4. folds'[b] = Append(folds[b], entry)
    BY ZenonT(30), <1>0, <1>3
  <2>5. entry.epoch = epoch /\ entry.ev = settled + 1
    BY ZenonT(30)
  <2>6. \A i, j \in 1..Len(folds[b]) : i # j => folds[b][i] # folds[b][j]
    BY ZenonT(30), <2>0 DEF OnceInv
  <2> HIDE DEF entry
  <2>7. /\ Len(folds'[b]) = Len(folds[b]) + 1 /\ folds'[b][Len(folds[b]) + 1] = entry
        /\ \A i \in 1..Len(folds[b]) : folds'[b][i] = folds[b][i]
    BY <2>3, <2>4
  <2>8. \A i \in 1..Len(folds[b]) : folds[b][i] # entry
    BY <1>0, <2>2, <2>3, <2>5
  <2>9. ASSUME NEW i \in 1..Len(folds'[b])
         PROVE  \/ folds'[b][i].epoch < epoch'
                \/ folds'[b][i].epoch = epoch' /\ NotAgain(b, folds[b][i].ev)'
    <3>1. CASE i = Len(folds[b]) + 1
      <4>1. folds'[b][i] = entry
        BY ZenonT(30), <2>7, <3>1
      <4>2. folds'[b][i].epoch = epoch /\ folds'[b][i].ev = settled + 1
        BY ZenonT(30), <2>5, <4>1
      <4> QED BY ZenonT(30), <1>1, <1>2, <2>1, <4>2 DEF NotAgain
    <3>2. CASE i # Len(folds[b]) + 1
      <4>1. i \in 1..Len(folds[b])
        BY <2>3, <2>7, <3>2
      <4>2. folds'[b][i] = folds[b][i]
        BY ZenonT(30), <2>7, <4>1
      <4> QED BY ZenonT(30), <1>1, <2>2, <4>1, <4>2 DEF NotAgain
    <3> QED BY ZenonT(30), <3>1, <3>2
  <2>10. ASSUME NEW i \in 1..Len(folds'[b]), NEW j \in 1..Len(folds'[b]), i # j
         PROVE  folds'[b][i] # folds'[b][j]
    <3>1. \A k \in 1..Len(folds'[b]) : k = Len(folds[b]) + 1 \/ k \in 1..Len(folds[b])
      BY <2>3, <2>7
    <3> QED BY ZenonT(30), <2>6, <2>7, <2>8, <2>10, <3>1
  <2>11. pending'[b] <= 1
    BY <2>1
  <2> QED BY ZenonT(30), <2>9, <2>10, <2>11 DEF OnceInv
<1> HIDE DEF entry
<1> QED BY ZenonT(30), <1>5, <1>6 DEF FoldInv, Unshared

\* The next process has appended nothing yet.
LEMMA RestartFolds ==
  ASSUME Inv, FoldInv, Restart
  PROVE  FoldInv'
<1>1. folds' = folds /\ epoch' = epoch + 1 /\ pending' = NoTasks
  BY ZenonT(30) DEF Restart
<1>2. \A b \in Buckets : pending'[b] <= 1
  BY <1>1 DEF NoTasks
<1>3. ASSUME NEW b \in Buckets, NEW i \in 1..Len(folds[b]), Unshared(b)
      PROVE  folds[b][i].epoch < epoch'
  <2>1. folds[b][i].epoch \in Nat /\ epoch \in Nat
    BY ZenonT(30), FoldTypes DEF Inv
  <2>2. folds[b][i].epoch < epoch \/ folds[b][i].epoch = epoch
    BY <1>3, ZenonT(30) DEF FoldInv, OnceInv
  <2> QED BY <1>1, <2>1, <2>2
<1> QED BY ZenonT(30), <1>1, <1>2, <1>3, FoldsKept

\* Every step keeps FoldInv.
LEMMA FoldNext ==
  ASSUME Inv, FoldInv, [Next]_vars
  PROVE  FoldInv'
<1>1. CASE RouteOneEvent \/ JoinAll
  BY ZenonT(30), <1>1, WriterFolds
<1>2. CASE Restart
  BY ZenonT(30), <1>2, RestartFolds
<1>3. CASE \E b \in Buckets : AppendOp(b)
  BY ZenonT(30), <1>3, AppendFolds
<1>4. CASE \E b \in Buckets : AppendFails(b)
  BY ZenonT(30), <1>4, FailureFolds
<1>5. CASE UNCHANGED <<folds, epoch, settled, writing, pending>>
  <2>1. \A b \in Buckets : Unshared(b) => pending'[b] <= 1
    BY <1>5, ZenonT(30) DEF FoldInv, OnceInv
  <2>2. \A b \in Buckets, e \in Nat : NotAgain(b, e) => NotAgain(b, e)'
    BY ZenonT(30), <1>5 DEF NotAgain
  <2> QED BY ZenonT(30), <1>5, <2>1, <2>2, FoldsAsBefore
<1>6. Commit \/ Confirm \/ Publish \/ PublishSend \/ Receive \/ Forward
        => UNCHANGED <<folds, epoch, settled, writing, pending>>
  BY ZenonT(30) DEF Commit, Confirm, Publish, PublishSend, Receive, Forward, storeVars, procVars, routerVars
<1>7. ASSUME NEW s \in Subs, Subscribe(s) \/ Disconnect(s) \/ Expire(s)
      PROVE  UNCHANGED <<folds, epoch, settled, writing, pending>>
  BY ZenonT(30), <1>7 DEF Subscribe, Disconnect, Expire, storeVars, procVars, routerVars
<1>8. UNCHANGED vars => UNCHANGED <<folds, epoch, settled, writing, pending>>
  BY ZenonT(30) DEF vars, storeVars, procVars, routerVars
<1> QED BY ZenonT(30), <1>1, <1>2, <1>3, <1>4, <1>5, <1>6, <1>7, <1>8 DEF Next

\* A bucket that at most one subject resolves to has every event of a process
\* folded into its checksum at most once, whatever the other buckets are.
THEOREM UnsharedOnce ==
  Spec => [](\A b \in Buckets : Unshared(b) =>
               \A i, j \in 1..Len(folds[b]) : i # j => folds[b][i] # folds[b][j])
<1>1. Init => FoldInv
  <2>1. Init => \A b \in Buckets : pending[b] = 0 /\ folds[b] = <<>>
    BY ZenonT(30) DEF Init, NoTasks
  <2> QED BY <2>1 DEF FoldInv, OnceInv
<1>2. Inv /\ FoldInv /\ [Next]_vars => FoldInv'
  BY ZenonT(30), FoldNext
<1>3. FoldInv => \A b \in Buckets : Unshared(b) =>
                   \A i, j \in 1..Len(folds[b]) : i # j => folds[b][i] # folds[b][j]
  BY ZenonT(30) DEF FoldInv, OnceInv
<1> QED BY <1>1, <1>2, <1>3, Invariance, PTL DEF Spec

\* Where no two subjects resolve to the same bucket, the router appends each
\* changed row at most once to the partition of a bucket, as the comment in
\* assigner.rs has it; where two share one, find_affected_buckets() lists it
\* twice and TLC shows the second append.
THEOREM AppendedOnceCorrect ==
  ASSUME \A b \in Buckets : Unshared(b)
  PROVE  Spec => []AppendedOnce
<1>1. (\A b \in Buckets : Unshared(b) =>
         \A i, j \in 1..Len(folds[b]) : i # j => folds[b][i] # folds[b][j]) => AppendedOnce
  BY ZenonT(30) DEF AppendedOnce
<1> QED BY <1>1, UnsharedOnce, PTL

-----------------------------------------------------------------------------
(* The pipeline implements OpLogFeed.                                      *)

\* The op log as its readers see it.
View == [b \in Buckets |-> [l \in Lsn |-> log[b][l].epoch]]

\* OpLogFeed's LSNs are those of the pipeline.
LEMMA FeedNames ==
  Feed!Lsn = Lsn /\ Feed!None = -1 /\ Feed!Absent = 0
BY ZenonT(30) DEF Feed!Lsn, Feed!None, Feed!Absent, Lsn

\* A committed append is one of OpLogFeed: it is at or above the last one.
LEMMA AppendOpMaps ==
  ASSUME Inv, NEW b \in Buckets, AppendOp(b)
  PROVE  \E l \in Lsn : l >= frontier /\ View' = [View EXCEPT ![b][l] = epoch]
                        /\ frontier' = l /\ UNCHANGED epoch
<1> DEFINE l == settled - base
           entry == [epoch |-> epoch, ev |-> settled + 1]
<1>1. /\ writing[1].ev = settled + 1 /\ writing[1].offset = l /\ l \in Lsn
  BY TaskOfFront, ZenonT(30) DEF AppendOp
<1>2. /\ log' = [log EXCEPT ![b][l] = entry] /\ frontier' = l /\ UNCHANGED epoch
  BY ZenonT(30), <1>1 DEF AppendOp, procVars
<1>3. log \in [Buckets -> [Lsn -> Entries \cup {NoEntry}]]
  BY ZenonT(30) DEF Inv, TypeOK
<1>4. \A c \in Buckets, k \in Lsn :
        log'[c][k] = IF c = b /\ k = l THEN entry ELSE log[c][k]
  BY <1>1, <1>2, <1>3, ZenonT(30)
<1>5. View' = [View EXCEPT ![b][l] = epoch]
  <2>1. View' = [c \in Buckets |-> [k \in Lsn |-> IF c = b /\ k = l THEN epoch ELSE log[c][k].epoch]]
    <3>1. entry.epoch = epoch
      BY ZenonT(30)
    <3> HIDE DEF l, entry
    <3> QED BY ZenonT(30), <1>4, <3>1 DEF View
  <2> HIDE DEF l, entry
  <2>2. [View EXCEPT ![b][l] = epoch]
          = [c \in Buckets |-> [k \in Lsn |-> IF c = b /\ k = l THEN epoch ELSE log[c][k].epoch]]
    BY <1>1, ZenonT(30) DEF View
  <2> QED BY ZenonT(30), <2>1, <2>2
<1>6. l >= frontier
  BY ZenonT(30), Positions
<1> QED BY <1>1, <1>2, <1>5, <1>6, ZenonT(30)

\* Every step of the pipeline is a step of OpLogFeed, or leaves what it
\* speaks of as it is.
LEMMA StepMaps ==
  ASSUME Inv, [Next]_vars
  PROVE  [Feed!FeedNext]_(Feed!feedVars)
<1>1. CASE \E b \in Buckets : AppendOp(b)
  <2>1. PICK b \in Buckets : AppendOp(b)
    BY ZenonT(30), <1>1
  <2>2. PICK l \in Lsn : l >= frontier /\ View' = [View EXCEPT ![b][l] = epoch]
                         /\ frontier' = l /\ UNCHANGED epoch
    BY ZenonT(30), <2>1, AppendOpMaps
  <2>3. Feed!AppendOp(b, l)
    BY <2>2, ZenonT(30) DEF Feed!AppendOp, View
  <2> QED BY ZenonT(30), <2>3, FeedNames DEF Feed!FeedNext
<1>2. CASE Restart
  <2>1. Feed!Restart
    BY ZenonT(30), <1>2 DEF Restart, Feed!Restart, Feed!None
  <2> QED BY ZenonT(30), <2>1 DEF Feed!FeedNext
<1>3. CASE UNCHANGED <<log, epoch, frontier>>
  BY ZenonT(30), <1>3 DEF Feed!feedVars
<1>4. Commit \/ Confirm \/ Publish \/ PublishSend \/ Receive \/ Forward \/ RouteOneEvent \/ JoinAll
        => UNCHANGED <<log, epoch, frontier>>
  BY ZenonT(30) DEF Commit, Confirm, Publish, PublishSend, Receive, Forward, RouteOneEvent, JoinAll, storeVars, procVars
<1>5. ASSUME NEW b \in Buckets, AppendFails(b) PROVE UNCHANGED <<log, epoch, frontier>>
  BY ZenonT(30), <1>5 DEF AppendFails, storeVars, procVars
<1>6. ASSUME NEW s \in Subs, Subscribe(s) \/ Disconnect(s) \/ Expire(s)
      PROVE  UNCHANGED <<log, epoch, frontier>>
  BY ZenonT(30), <1>6 DEF Subscribe, Disconnect, Expire, storeVars, procVars
<1>7. UNCHANGED vars => UNCHANGED <<log, epoch, frontier>>
  BY ZenonT(30) DEF vars, storeVars, procVars
<1> QED BY ZenonT(30), <1>1, <1>2, <1>3, <1>4, <1>5, <1>6, <1>7 DEF Next

\* The broker, the router and the op log together keep the promise the
\* readers of the op log rely on: within one process no append is below the
\* last one, and a restart keeps the entries.
THEOREM ImplementsFeedCorrect == Spec => ImplementsFeed
<1>1. Init => Feed!FeedInit
  BY FeedNames DEF Init, Feed!FeedInit, NoEntry
<1>2. Inv /\ [Next]_vars => [Feed!FeedNext]_(Feed!feedVars)
  BY ZenonT(30), StepMaps
<1> QED BY <1>1, <1>2, Invariance, PTL DEF Spec, ImplementsFeed, Feed!FeedSpec
=============================================================================
