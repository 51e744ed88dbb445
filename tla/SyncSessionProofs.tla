-------------------------- MODULE SyncSessionProofs --------------------------
(***************************************************************************)
(* Proofs about SyncSession, for any buckets, assignments, requests and    *)
(* bounds.                                                                 *)
(***************************************************************************)
EXTENDS SyncSession, TLAPS

\* A leaf that names no prover is tried with these.
USE SMTT(30), ZenonT(30)

(* Facts about sequences.                                                  *)

\* A queue of frames has a natural length.
LEMMA LenProperties ==
  \A S : \A q \in Seq(S) : Len(q) \in Nat
OBVIOUS

\* What a queue of frames holds are frames.
LEMMA ElementOfSeq ==
  \A S : \A q \in Seq(S) : \A i \in 1..Len(q) : q[i] \in S
OBVIOUS

\* A queue is empty exactly when its length is zero.
LEMMA EmptySeq ==
  \A S : \A q \in Seq(S) : q = <<>> <=> Len(q) = 0
OBVIOUS

\* Receiving from a queue of frames takes the first and leaves the others in order.
LEMMA HeadTailProperties ==
  \A S : \A q \in Seq(S) : q # <<>> =>
    /\ Head(q) \in S /\ Head(q) = q[1]
    /\ Tail(q) \in Seq(S) /\ Len(Tail(q)) = Len(q) - 1
    /\ \A i \in 1..Len(Tail(q)) : Tail(q)[i] = q[i + 1]
OBVIOUS

\* Sending on a queue of frames adds one at the end and moves no other.
LEMMA AppendProperties ==
  \A S : \A q \in Seq(S), e \in S :
    /\ Append(q, e) \in Seq(S) /\ Append(q, e) # <<>>
    /\ Len(Append(q, e)) = Len(q) + 1
    /\ \A i \in 1..Len(q) : Append(q, e)[i] = q[i]
    /\ Append(q, e)[Len(q) + 1] = e
OBVIOUS

\* A queue after sending: its last frame is the one sent, the others are the
\* frames it held.
LEMMA SendProperties ==
  ASSUME NEW S, NEW q \in Seq(S), NEW e \in S, NEW r, r = Append(q, e)
  PROVE  /\ r \in Seq(S) /\ Len(q) \in Nat /\ Len(r) = Len(q) + 1 /\ Len(q) <= Len(r)
         /\ r[Len(q) + 1] = e
         /\ \A i \in 1..Len(q) : r[i] = q[i]
         /\ \A i \in 1..Len(r) : i = Len(q) + 1 \/ i \in 1..Len(q)
         /\ \A i \in (Len(q) + 1)..Len(r) : i = Len(q) + 1
<1>1. /\ r \in Seq(S) /\ Len(q) \in Nat /\ Len(r) = Len(q) + 1 /\ r[Len(q) + 1] = e
      /\ \A i \in 1..Len(q) : r[i] = q[i]
  BY LenProperties, AppendProperties
<1>2. Len(q) <= Len(r)
  BY <1>1
<1>3. \A i \in 1..Len(r) : i = Len(q) + 1 \/ i \in 1..Len(q)
  BY <1>1
<1>4. \A i \in (Len(q) + 1)..Len(r) : i = Len(q) + 1
  BY <1>1
<1> QED
  BY <1>1, <1>2, <1>3, <1>4

\* Sending on a nonempty queue leaves the frame that is received next.
LEMMA HeadAppend ==
  \A S : \A q \in Seq(S), e \in S : q # <<>> => Head(Append(q, e)) = Head(q)
OBVIOUS

-----------------------------------------------------------------------------
(* Types.                                                                  *)

\* What the fields of a received frame are, and which frames the senders build.
LEMMA FrameTypes ==
  /\ \A m \in ServerFrames : m.type = "Delta" =>
       m.bucket \in Buckets /\ m.ops \in SUBSET Ops /\ m.lsn \in Lsn
  /\ \A m \in ServerFrames : m.type = "Snapshot" => m.bucket \in Buckets
  /\ \A m \in ClientFrames : m.type = "Ack" => m.lsn \in Lsn
  /\ \A m \in ClientFrames : m.type = "Subscribe" =>
       m.buckets \in SUBSET Buckets /\ m.resume \in Lsn \cup {None}
  /\ \A b \in Buckets, o \in SUBSET Ops, l \in Lsn : DeltaFrame(b, o, l) \in ServerFrames
  /\ \A b \in Buckets : SnapshotFrame(b) \in ServerFrames
  /\ ErrorFrame \in ServerFrames
  /\ \A r \in SUBSET Buckets, l \in Lsn \cup {None} : SubscribeFrame(r, l) \in ClientFrames
  /\ \A l \in Lsn : AckFrame(l) \in ClientFrames
BY ZenonT(30) DEF ServerFrames, ClientFrames, DeltaFrame, SnapshotFrame, ErrorFrame, SubscribeFrame, AckFrame

\* The frame a handshake reads is the Subscribe its connection opened with.
HandshakeReadsSubscribe ==
  conn = "handshake" => c2s # <<>> /\ Head(c2s).type = "Subscribe"

\* drain_since() yields operations of the log, each with its LSN.
LEMMA DrainedType ==
  ASSUME TypeOK, NEW b \in Buckets
  PROVE  /\ Drained(b) \in SUBSET Lsn
         /\ {<<ops[b][l], l>> : l \in Drained(b)} \in SUBSET Ops
<1>1. Drained(b) \in SUBSET Lsn
  BY ZenonT(30) DEF Drained, Stored
<1>2. \A l \in Drained(b) : <<ops[b][l], l>> \in Ops
  BY DEF Drained, Stored, Ops, TypeOK, FeedTypeOK
<1> QED
  BY ZenonT(30), <1>1, <1>2

\* What poll_deltas() does for a bucket that has something new.
LEMMA PollSendsDelta ==
  ASSUME TypeOK, NEW b \in Buckets, PollBucket(b), Drained(b) # {}
  PROVE  \E h \in Lsn, m \in ServerFrames :
           /\ h \in Drained(b) /\ \A l \in Drained(b) : l <= h
           /\ m = DeltaFrame(b, {<<ops[b][l], l>> : l \in Drained(b)}, h)
           /\ s2c' = Append(s2c, m) /\ s2c' \in Seq(ServerFrames)
           /\ Len(s2c') = Len(s2c) + 1
           /\ \A i \in 1..Len(s2c) : s2c'[i] = s2c[i]
           /\ s2c'[Len(s2c) + 1] = m
           /\ lastSeen' = [lastSeen EXCEPT ![b] = h]
           /\ sent' = [sent EXCEPT ![b] = @ \cup Drained(b)]
<1>1. PICK h \in Highest(Drained(b)) :
        /\ s2c' = Append(s2c, DeltaFrame(b, {<<ops[b][l], l>> : l \in Drained(b)}, h))
        /\ lastSeen' = [lastSeen EXCEPT ![b] = h]
        /\ sent' = [sent EXCEPT ![b] = @ \cup Drained(b)]
  BY ZenonT(30) DEF PollBucket
<1>2. h \in Drained(b) /\ h \in Lsn /\ \A l \in Drained(b) : l <= h
  BY ZenonT(30), DrainedType DEF Highest
<1>3. PICK m \in ServerFrames : m = DeltaFrame(b, {<<ops[b][l], l>> : l \in Drained(b)}, h)
  BY ZenonT(30), <1>2, DrainedType, FrameTypes
<1>4. s2c \in Seq(ServerFrames) /\ s2c' = Append(s2c, m)
  BY ZenonT(30), <1>1, <1>3 DEF TypeOK
<1>5. /\ s2c' \in Seq(ServerFrames)
      /\ Len(s2c') = Len(s2c) + 1
      /\ \A i \in 1..Len(s2c) : s2c'[i] = s2c[i]
      /\ s2c'[Len(s2c) + 1] = m
  BY <1>4, AppendProperties
<1> QED
  BY ZenonT(30), <1>1, <1>2, <1>3, <1>4, <1>5

\* The end of a connection resets its state to values of the right type.
LEMMA CloseConnectionType ==
  ASSUME TypeOK, CloseConnection
  PROVE  /\ conn' \in {"down", "handshake", "snapshot", "serve"}
         /\ authorized' \subseteq Buckets
         /\ lastSeen' \in [Buckets -> Lsn \cup {None}]
         /\ fresh' \subseteq Buckets
         /\ toPoll' \subseteq Buckets
         /\ s2c' \in Seq(ServerFrames)
         /\ c2s' \in Seq(ClientFrames)
         /\ sent' \in [Buckets -> SUBSET Lsn]
BY DEF CloseConnection

TypeInv == TypeOK /\ HandshakeReadsSubscribe

\* The types hold before the first connection.
LEMMA TypeInvInit == Init => TypeInv
BY FeedAssumption, SessionAssumption
   DEF Init, TypeInv, TypeOK, HandshakeReadsSubscribe, FeedInit, FeedTypeOK, Epoch, Absent, Lsn, None

\* Every step of the router, the gateway and the client keeps the types.
LEMMA TypeInvNext == TypeInv /\ [Next]_vars => TypeInv'
<1> SUFFICES ASSUME TypeInv, [Next]_vars PROVE TypeInv'
  BY ZenonT(30)
<1> USE DEF TypeInv
<1>1. CASE Connect
  <2>1. SubscribeFrame(requested, lastLsn) \in ClientFrames
    BY ZenonT(30), FrameTypes DEF TypeOK
  <2>2. SubscribeFrame(requested, lastLsn).type = "Subscribe"
    BY ZenonT(30) DEF SubscribeFrame
  <2>3. c2s' \in Seq(ClientFrames) /\ c2s' # <<>> /\ Head(c2s') = SubscribeFrame(requested, lastLsn)
    BY <1>1, <2>1 DEF Connect
  <2> QED
    BY <1>1, <2>2, <2>3
       DEF Connect, TypeOK, FeedTypeOK, HandshakeReadsSubscribe, feedVars, clientVars, bounds
<1>2. CASE Handshake
  <2> DEFINE sub == Head(c2s)
  <2>1. sub \in ClientFrames /\ Tail(c2s) \in Seq(ClientFrames)
    BY ZenonT(30), <1>2, HeadTailProperties DEF Handshake, TypeOK
  <2>2. sub.resume \in Lsn \cup {None}
    BY ZenonT(30), <1>2, <2>1, FrameTypes DEF Handshake, HandshakeReadsSubscribe
  <2>3. PICK assigned \in Assignments :
          /\ authorized' = assigned \cap sub.buckets
          /\ lastSeen' = [b \in Buckets |-> IF b \in assigned \cap sub.buckets THEN sub.resume ELSE None]
          /\ fresh' = IF sub.resume = None THEN assigned \cap sub.buckets ELSE {}
          /\ conn' = IF fresh' = {} THEN "serve" ELSE "snapshot"
    BY ZenonT(30), <1>2 DEF Handshake, ToSnapshot
  <2>4. assigned \subseteq Buckets
    BY ZenonT(30), SessionAssumption
  <2>5. lastSeen' \in [Buckets -> Lsn \cup {None}]
    BY ZenonT(30), <2>2, <2>3
  <2> QED
    BY ZenonT(30), <1>2, <2>1, <2>3, <2>4, <2>5
       DEF Handshake, ToSnapshot, TypeOK, FeedTypeOK, HandshakeReadsSubscribe, feedVars, clientVars, bounds
<1>3. CASE PollTick
  BY ZenonT(30), <1>3 DEF PollTick, TypeOK, FeedTypeOK, HandshakeReadsSubscribe, feedVars, clientVars, bounds
<1>4. CASE HandleAck
  <2>1. Head(c2s) \in ClientFrames /\ Tail(c2s) \in Seq(ClientFrames)
    BY ZenonT(30), <1>4, HeadTailProperties DEF HandleAck, TypeOK
  <2>2. Head(c2s).lsn \in Lsn
    BY ZenonT(30), <1>4, <2>1, FrameTypes DEF HandleAck
  <2>3. lastSeen' \in [Buckets -> Lsn \cup {None}]
    BY ZenonT(30), <1>4, <2>2 DEF HandleAck, RaiseAll, TypeOK
  <2> QED
    BY ZenonT(30), <1>4, <2>1, <2>3
       DEF HandleAck, TypeOK, FeedTypeOK, HandshakeReadsSubscribe, feedVars, clientVars, bounds
<1>5. CASE RefuseSubscribe
  <2>1. Tail(c2s) \in Seq(ClientFrames)
    BY ZenonT(30), <1>5, HeadTailProperties DEF RefuseSubscribe, TypeOK
  <2>2. s2c' \in Seq(ServerFrames)
    BY ZenonT(30), <1>5, FrameTypes, AppendProperties DEF RefuseSubscribe, TypeOK
  <2> QED
    BY ZenonT(30), <1>5, <2>1, <2>2
       DEF RefuseSubscribe, TypeOK, FeedTypeOK, HandshakeReadsSubscribe, feedVars, serverVars, clientVars, bounds
<1>6. ASSUME NEW b \in Buckets, DeliverSnapshot(b) PROVE TypeInv'
  <2>1. s2c' \in Seq(ServerFrames)
    BY ZenonT(30), <1>6, FrameTypes, AppendProperties DEF DeliverSnapshot, TypeOK
  <2> QED
    BY ZenonT(30), <1>6, <2>1 DEF DeliverSnapshot, TypeOK, FeedTypeOK, HandshakeReadsSubscribe, feedVars, clientVars, bounds
<1>7. ASSUME NEW b \in Buckets, PollBucket(b) PROVE TypeInv'
  <2>1. CASE Drained(b) = {}
    BY ZenonT(30), <1>7, <2>1 DEF PollBucket, TypeOK, FeedTypeOK, HandshakeReadsSubscribe, feedVars, clientVars, bounds
  <2>2. CASE Drained(b) # {}
    <3>1. PICK h \in Lsn :
            /\ s2c' \in Seq(ServerFrames)
            /\ lastSeen' = [lastSeen EXCEPT ![b] = h]
            /\ sent' = [sent EXCEPT ![b] = @ \cup Drained(b)]
      BY ZenonT(30), <1>7, <2>2, PollSendsDelta
    <3>2. lastSeen' \in [Buckets -> Lsn \cup {None}] /\ sent' \in [Buckets -> SUBSET Lsn]
      BY ZenonT(30), <3>1, DrainedType DEF TypeOK
    <3> QED
      BY ZenonT(30), <1>7, <3>1, <3>2 DEF PollBucket, TypeOK, FeedTypeOK, HandshakeReadsSubscribe, feedVars, clientVars, bounds
  <2> QED
    BY ZenonT(30), <2>1, <2>2
<1>8. CASE ReceiveDelta
  <2> DEFINE m == Head(s2c)
  <2>1. m \in ServerFrames /\ Tail(s2c) \in Seq(ServerFrames)
    BY ZenonT(30), <1>8, HeadTailProperties DEF ReceiveDelta, TypeOK
  <2>2. m.bucket \in Buckets /\ m.ops \in SUBSET Ops /\ m.lsn \in Lsn
    BY ZenonT(30), <1>8, <2>1, FrameTypes DEF ReceiveDelta
  <2>3. /\ c2s' \in Seq(ClientFrames)
        /\ Head(c2s') = IF c2s = <<>> THEN AckFrame(m.lsn) ELSE Head(c2s)
        /\ c2s' # <<>>
    BY <1>8, <2>2, FrameTypes, AppendProperties, HeadAppend DEF ReceiveDelta, TypeOK
  <2>4. received' \in [Buckets -> SUBSET Ops] /\ lastLsn' \in Lsn \cup {None}
    BY ZenonT(30), <1>8, <2>2 DEF ReceiveDelta, TypeOK
  <2> QED
    BY ZenonT(30), <1>8, <2>1, <2>3, <2>4
       DEF ReceiveDelta, TypeOK, FeedTypeOK, HandshakeReadsSubscribe, feedVars, serverVars, bounds
<1>9. CASE ReceiveSnapshot
  <2>1. Head(s2c) \in ServerFrames /\ Tail(s2c) \in Seq(ServerFrames)
    BY ZenonT(30), <1>9, HeadTailProperties DEF ReceiveSnapshot, TypeOK
  <2>2. Head(s2c).bucket \in Buckets
    BY ZenonT(30), <1>9, <2>1, FrameTypes DEF ReceiveSnapshot
  <2> QED
    BY ZenonT(30), <1>9, <2>1, <2>2 DEF ReceiveSnapshot, TypeOK, FeedTypeOK, HandshakeReadsSubscribe, feedVars, serverVars, bounds
<1>10. CASE ReceiveError
  <2>1. Tail(s2c) \in Seq(ServerFrames)
    BY ZenonT(30), <1>10, HeadTailProperties DEF ReceiveError, TypeOK
  <2> QED
    BY ZenonT(30), <1>10, <2>1 DEF ReceiveError, TypeOK, FeedTypeOK, HandshakeReadsSubscribe, feedVars, serverVars, clientVars, bounds
<1>11. CASE Subscribe
  <2>1. requested' \in SUBSET Buckets
    BY ZenonT(30), <1>11, SessionAssumption DEF Subscribe
  <2>2. SubscribeFrame(requested', lastLsn) \in ClientFrames
    BY ZenonT(30), <2>1, FrameTypes DEF TypeOK
  <2>3. /\ c2s' \in Seq(ClientFrames)
        /\ conn # "down" => c2s' # <<>> /\ (c2s # <<>> => Head(c2s') = Head(c2s))
    <3>1. c2s \in Seq(ClientFrames)
      BY ZenonT(30) DEF TypeOK
    <3>2. c2s' = IF conn = "down" THEN c2s ELSE Append(c2s, SubscribeFrame(requested', lastLsn))
      BY ZenonT(30), <1>11 DEF Subscribe
    <3> HIDE DEF SubscribeFrame, ClientFrames
    <3> QED
      BY <2>2, <3>1, <3>2, AppendProperties, HeadAppend
  <2> QED
    BY <1>11, <2>1, <2>3 DEF Subscribe, TypeOK, FeedTypeOK, HandshakeReadsSubscribe, feedVars, serverVars
<1>12. CASE Drop
  BY <1>12, CloseConnectionType
     DEF Drop, TypeOK, FeedTypeOK, HandshakeReadsSubscribe, CloseConnection, feedVars, clientVars
<1>13. CASE ServerRestart
  <2>1. FeedTypeOK'
    BY <1>13, FeedAssumption DEF ServerRestart, Restart, TypeOK, FeedTypeOK, Epoch
  <2> QED
    BY ZenonT(30), <1>13, <2>1, CloseConnectionType
       DEF ServerRestart, TypeOK, HandshakeReadsSubscribe, CloseConnection, clientVars, bounds
<1>14. CASE RouteOp
  <2>1. PICK b \in Buckets, l \in Lsn : AppendOp(b, l)
    BY ZenonT(30), <1>14 DEF RouteOp
  <2>2. FeedTypeOK'
    BY ZenonT(30), <2>1 DEF AppendOp, TypeOK, FeedTypeOK
  <2> QED
    BY ZenonT(30), <1>14, <2>2 DEF RouteOp, TypeOK, HandshakeReadsSubscribe, serverVars, clientVars, bounds
<1>15. CASE UNCHANGED vars
  BY ZenonT(30), <1>15 DEF vars, TypeOK, FeedTypeOK, HandshakeReadsSubscribe, feedVars, serverVars, clientVars, bounds
<1> QED
  BY ZenonT(30), <1>1, <1>2, <1>3, <1>4, <1>5, <1>6, <1>7, <1>8, <1>9, <1>10, <1>11, <1>12, <1>13, <1>14, <1>15 DEF Next

\* Every variable keeps its type, and a handshake always finds the Subscribe
\* frame it waits for at the head of the socket.
THEOREM TypeCorrect == Spec => [](TypeOK /\ HandshakeReadsSubscribe)
BY TypeInvInit, TypeInvNext, PTL DEF Spec, TypeInv

-----------------------------------------------------------------------------
(* No operation is sent twice on a connection.                             *)

\* The gateway's position is never below what the connection has sent.
SentInv ==
  \A b \in Buckets :
    /\ \A l \in sent[b] : l <= lastSeen[b]
    /\ conn # "serve" => sent[b] = {}

\* Before the first connection nothing has been sent.
LEMMA SentInvInit == Init => SentInv
BY ZenonT(30) DEF Init, SentInv

\* poll_deltas() drains from last_seen_lsn + 1: nothing at or below the cursor.
LEMMA DrainedAboveCursor ==
  ASSUME TypeOK, NEW b \in Buckets, NEW l \in Drained(b)
  PROVE  lastSeen[b] < l
BY DEF TypeOK, Drained, Stored, ScanFrom, Lsn, None

\* What a connection has sent of a bucket stays at or below its cursor.
LEMMA SentInvNext == TypeInv /\ SentInv /\ [Next]_vars => SentInv'
<1> SUFFICES ASSUME TypeInv, SentInv, [Next]_vars PROVE SentInv'
  BY ZenonT(30)
<1> USE DEF TypeInv
<1>1. CASE Connect
  BY ZenonT(30), <1>1 DEF Connect, SentInv
<1>2. CASE Handshake
  BY ZenonT(30), <1>2 DEF Handshake, SentInv
<1>3. CASE PollTick
  BY ZenonT(30), <1>3 DEF PollTick, SentInv
<1>4. CASE HandleAck
  <2>1. Head(c2s).lsn \in Lsn
    BY ZenonT(30), <1>4, HeadTailProperties, FrameTypes DEF HandleAck, TypeOK
  <2>2. \A b \in Buckets : lastSeen[b] <= lastSeen'[b] /\ lastSeen'[b] \in Lsn \cup {None}
    BY <1>4, <2>1 DEF HandleAck, RaiseAll, TypeOK, Lsn, None
  <2>3. sent' = sent /\ conn' = conn
    BY ZenonT(30), <1>4 DEF HandleAck
  <2> QED
    BY <2>2, <2>3 DEF SentInv, TypeOK, Lsn, None
<1>5. CASE RefuseSubscribe
  BY ZenonT(30), <1>5 DEF RefuseSubscribe, SentInv, serverVars
<1>6. ASSUME NEW b \in Buckets, DeliverSnapshot(b) PROVE SentInv'
  BY ZenonT(30), <1>6 DEF DeliverSnapshot, SentInv
<1>7. ASSUME NEW b \in Buckets, PollBucket(b) PROVE SentInv'
  <2>1. CASE Drained(b) = {}
    BY ZenonT(30), <1>7, <2>1 DEF PollBucket, SentInv
  <2>2. CASE Drained(b) # {}
    <3>1. PICK h \in Lsn :
            /\ h \in Drained(b) /\ \A l \in Drained(b) : l <= h
            /\ lastSeen' = [lastSeen EXCEPT ![b] = h]
            /\ sent' = [sent EXCEPT ![b] = @ \cup Drained(b)]
      BY ZenonT(30), <1>7, <2>2, PollSendsDelta
    <3>2. conn = "serve" /\ conn' = conn
      BY ZenonT(30), <1>7 DEF PollBucket
    <3>3. lastSeen[b] < h
      BY ZenonT(30), <3>1, DrainedAboveCursor
    <3> HIDE DEF Drained
    <3> QED
      BY <3>1, <3>2, <3>3 DEF SentInv, TypeOK, Lsn, None
  <2> QED
    BY ZenonT(30), <2>1, <2>2
<1>8. CASE ReceiveDelta
  BY ZenonT(30), <1>8 DEF ReceiveDelta, SentInv, serverVars
<1>9. CASE ReceiveSnapshot
  BY ZenonT(30), <1>9 DEF ReceiveSnapshot, SentInv, serverVars
<1>10. CASE ReceiveError
  BY ZenonT(30), <1>10 DEF ReceiveError, SentInv, serverVars
<1>11. CASE Subscribe
  BY ZenonT(30), <1>11 DEF Subscribe, SentInv, serverVars
<1>12. CASE Drop
  BY ZenonT(30), <1>12 DEF Drop, CloseConnection, SentInv
<1>13. CASE ServerRestart
  BY ZenonT(30), <1>13 DEF ServerRestart, CloseConnection, SentInv
<1>14. CASE RouteOp
  BY ZenonT(30), <1>14 DEF RouteOp, SentInv, serverVars
<1>15. CASE UNCHANGED vars
  BY ZenonT(30), <1>15 DEF vars, SentInv, serverVars
<1> QED
  BY ZenonT(30), <1>1, <1>2, <1>3, <1>4, <1>5, <1>6, <1>7, <1>8, <1>9, <1>10, <1>11, <1>12, <1>13, <1>14, <1>15 DEF Next

\* A step that sends a Delta is a poll, and all it carries is newer than what
\* the connection sent of that bucket before.
LEMMA OnlyPollSendsDeltas ==
  ASSUME TypeInv, SentInv, Next, Len(s2c') = Len(s2c) + 1, s2c'[Len(s2c')].type = "Delta"
  PROVE  \A o \in s2c'[Len(s2c')].ops, l \in sent[s2c'[Len(s2c')].bucket] : l < o[2]
<1> USE DEF TypeInv
<1>1. s2c \in Seq(ServerFrames) /\ Len(s2c) \in Nat
  BY ZenonT(30), LenProperties DEF TypeOK
<1>2. ASSUME s2c' = s2c \/ s2c' = <<>> \/ (s2c # <<>> /\ s2c' = Tail(s2c)) PROVE FALSE
  BY <1>1, <1>2, HeadTailProperties, EmptySeq
<1>3. ASSUME NEW m \in ServerFrames, s2c' = Append(s2c, m), m.type # "Delta" PROVE FALSE
  BY <1>1, <1>3, AppendProperties
<1>4. PICK b \in Buckets : PollBucket(b)
  <2>1. CASE RefuseSubscribe
    BY ZenonT(30), <2>1, <1>3, FrameTypes DEF RefuseSubscribe, ErrorFrame
  <2>2. ASSUME NEW b \in Buckets, DeliverSnapshot(b) PROVE FALSE
    BY <2>2, <1>3, FrameTypes, ZenonT(30) DEF DeliverSnapshot, SnapshotFrame
  <2>3. Drop \/ ServerRestart \/ Connect => s2c' = <<>>
    BY ZenonT(30) DEF Drop, ServerRestart, CloseConnection, Connect
  <2>4. Handshake \/ PollTick \/ HandleAck \/ Subscribe \/ RouteOp => s2c' = s2c
    BY ZenonT(30) DEF Handshake, PollTick, HandleAck, Subscribe, RouteOp
  <2>5. ReceiveDelta \/ ReceiveSnapshot \/ ReceiveError => s2c # <<>> /\ s2c' = Tail(s2c)
    BY ZenonT(30) DEF ReceiveDelta, ReceiveSnapshot, ReceiveError
  <2> QED
    BY ZenonT(30), <1>2, <2>1, <2>2, <2>3, <2>4, <2>5 DEF Next
<1>5. Drained(b) # {}
  BY ZenonT(30), <1>2, <1>4 DEF PollBucket
<1>6. PICK h \in Lsn : s2c'[Len(s2c')] = DeltaFrame(b, {<<ops[b][l], l>> : l \in Drained(b)}, h)
  BY ZenonT(30), <1>4, <1>5, PollSendsDelta
<1>7. \A l \in Drained(b), k \in sent[b] : k < l
  <2> SUFFICES ASSUME NEW l \in Drained(b), NEW k \in sent[b] PROVE k < l
    BY ZenonT(30)
  <2>1. lastSeen[b] < l /\ k <= lastSeen[b]
    BY ZenonT(30), DrainedAboveCursor DEF SentInv
  <2>2. l \in Lsn /\ k \in Lsn /\ lastSeen[b] \in Lsn \cup {None}
    BY ZenonT(30), DrainedType DEF TypeOK
  <2> QED
    BY <2>1, <2>2 DEF Lsn, None
<1> HIDE DEF Drained
<1> QED
  BY <1>6, <1>7 DEF DeltaFrame

\* poll_deltas() never sends a client, on one connection, an operation at or
\* below one it already sent for the same bucket.
THEOREM NoResendCorrect == Spec => NoResend
<1>1. TypeInv /\ SentInv /\ [Next]_vars => [SendsOnlyNewOps]_vars
  BY ZenonT(30), OnlyPollSendsDeltas DEF SendsOnlyNewOps
<1> QED
  BY <1>1, TypeInvInit, TypeInvNext, SentInvInit, SentInvNext, PTL DEF Spec, NoResend

-----------------------------------------------------------------------------
(* Snapshots come before operations.                                       *)

\* The buckets some handshake grants ...
Granted == UNION {r \cap a : r \in Requests, a \in Assignments}

\* ... which are the same ones for every handshake.
SteadyGrant == \A r \in Requests, a \in Assignments : r \cap a = Granted

\* The client has the bucket's snapshot, or it is among the first n frames in
\* flight.
Bootstraps(b, n) == b \in bootstrapped \/ \E j \in 1..n : s2c[j] = SnapshotFrame(b)

\* A Subscribe frame asks for buckets the client may ask for, and a position
\* in it is proof that the client has every snapshot.
ResumeInv(m) ==
  m.type = "Subscribe" =>
    m.buckets \in Requests /\ (m.resume # None => Granted \subseteq bootstrapped)

\* So is a position of the client.
ClientInv ==
  /\ requested \in Requests
  /\ \A i \in 1..Len(c2s) : ResumeInv(c2s[i])
  /\ lastLsn # None => Granted \subseteq bootstrapped

\* deliver_snapshots() has sent the snapshots that are not left to send.
GatewayInv ==
  /\ authorized \subseteq Granted /\ toPoll \subseteq Granted
  /\ conn = "serve" => \A b \in Granted : Bootstraps(b, Len(s2c))
  /\ conn = "snapshot" => \A b \in Granted : b \in fresh \/ Bootstraps(b, Len(s2c))

\* The snapshots of a connection are ahead of every Delta in flight.
FlightInv ==
  \A i \in 1..Len(s2c) : s2c[i].type = "Delta" =>
    s2c[i].bucket \in Granted /\ \A b \in Granted : Bootstraps(b, i)

\* Why the client has a bucket's snapshot before its operations.
SnapshotInv == ClientInv /\ GatewayInv /\ FlightInv /\ SnapshotBeforeDeltas

\* Snapshots are not lost by what is sent after them.
LEMMA BootstrapsKept ==
  ASSUME s2c \in Seq(ServerFrames), NEW b, NEW n \in 0..Len(s2c), NEW m \in Nat, n <= m,
         \A i \in 1..Len(s2c) : s2c'[i] = s2c[i], bootstrapped' = bootstrapped, Bootstraps(b, n)
  PROVE  Bootstraps(b, m)'
<1>1. Len(s2c) \in Nat
  BY ZenonT(30), LenProperties
<1>2. CASE b \in bootstrapped
  BY ZenonT(30), <1>2 DEF Bootstraps
<1>3. CASE b \notin bootstrapped
  <2>1. PICK j \in 1..n : s2c[j] = SnapshotFrame(b)
    BY <1>3 DEF Bootstraps
  <2>2. j \in 1..m /\ j \in 1..Len(s2c)
    BY <1>1
  <2>3. s2c'[j] = SnapshotFrame(b)
    BY ZenonT(30), <2>1, <2>2
  <2> QED BY ZenonT(30), <2>2, <2>3 DEF Bootstraps, SnapshotFrame
<1> QED BY ZenonT(30), <1>2, <1>3

\* The client takes the first frame in flight and keeps a snapshot in it.
LEMMA BootstrapsShift ==
  ASSUME s2c \in Seq(ServerFrames), s2c # <<>>, s2c' = Tail(s2c), NEW b, NEW n \in 1..Len(s2c),
         bootstrapped \subseteq bootstrapped',
         s2c[1] = SnapshotFrame(b) => b \in bootstrapped', Bootstraps(b, n)
  PROVE  Bootstraps(b, n - 1)'
<1>1. Len(s2c) \in Nat /\ Len(s2c') = Len(s2c) - 1 /\ \A i \in 1..Len(s2c') : s2c'[i] = s2c[i + 1]
  BY ZenonT(30), LenProperties, HeadTailProperties
<1>2. CASE b \in bootstrapped
  BY ZenonT(30), <1>2 DEF Bootstraps
<1>3. CASE b \notin bootstrapped
  <2>1. PICK j \in 1..n : s2c[j] = SnapshotFrame(b)
    BY ZenonT(30), <1>3 DEF Bootstraps
  <2>2. CASE j = 1
    BY ZenonT(30), <2>1, <2>2 DEF Bootstraps
  <2>3. CASE j # 1
    <3>1. j - 1 \in 1..(n - 1) /\ j - 1 \in 1..Len(s2c') /\ (j - 1) + 1 = j
      BY <1>1, <2>3
    <3>2. s2c'[j - 1] = SnapshotFrame(b)
      BY ZenonT(30), <1>1, <2>1, <3>1
    <3> QED BY ZenonT(30), <3>1, <3>2 DEF Bootstraps, SnapshotFrame
  <2> QED BY ZenonT(30), <2>2, <2>3
<1> QED BY ZenonT(30), <1>2, <1>3

\* The client's side, when no snapshot is lost.
LEMMA ClientKept ==
  ASSUME ClientInv, bootstrapped \subseteq bootstrapped', requested' \in Requests,
         lastLsn' # None => lastLsn # None \/ Granted \subseteq bootstrapped',
         \A i \in 1..Len(c2s') : ResumeInv(c2s[i])' \/ \E j \in 1..Len(c2s) : c2s'[i] = c2s[j]
  PROVE  ClientInv'
<1>1. ASSUME NEW i \in 1..Len(c2s')
      PROVE  ResumeInv(c2s[i])'
  <2>1. CASE \E j \in 1..Len(c2s) : c2s'[i] = c2s[j]
    BY ZenonT(30), <2>1 DEF ClientInv, ResumeInv
  <2> QED BY ZenonT(30), <2>1
<1>2. lastLsn' # None => Granted \subseteq bootstrapped'
  BY ZenonT(30) DEF ClientInv
<1> QED BY ZenonT(30), <1>1, <1>2 DEF ClientInv

\* Reading a frame of the client leaves the others.
LEMMA ReadsFrame ==
  ASSUME TypeOK, c2s # <<>>, c2s' = Tail(c2s)
  PROVE  \A i \in 1..Len(c2s') : \E j \in 1..Len(c2s) : c2s'[i] = c2s[j]
<1>1. c2s \in Seq(ClientFrames)
  BY DEF TypeOK
<1>2. Len(c2s) \in Nat /\ Len(c2s') = Len(c2s) - 1 /\ \A i \in 1..Len(c2s') : c2s'[i] = c2s[i + 1]
  BY ZenonT(30), <1>1, LenProperties, HeadTailProperties
<1> QED BY <1>2

\* The gateway's side and the frames in flight, when frames are only added and
\* a Delta among those added is of a granted bucket, with all snapshots ahead.
LEMMA FramesAdded ==
  ASSUME TypeOK, GatewayInv, FlightInv, s2c' \in Seq(ServerFrames), Len(s2c) <= Len(s2c'),
         \A i \in 1..Len(s2c) : s2c'[i] = s2c[i], bootstrapped' = bootstrapped,
         \A i \in (Len(s2c) + 1)..Len(s2c') : s2c'[i].type = "Delta" =>
           s2c'[i].bucket \in Granted /\ conn = "serve"
  PROVE  /\ FlightInv'
         /\ \A b : Bootstraps(b, Len(s2c)) => Bootstraps(b, Len(s2c))'
<1>0. s2c \in Seq(ServerFrames) /\ Len(s2c) \in Nat /\ Len(s2c') \in Nat
  BY ZenonT(30), LenProperties DEF TypeOK
<1>1. ASSUME NEW b, Bootstraps(b, Len(s2c))
      PROVE  Bootstraps(b, Len(s2c))'
  BY <1>0, <1>1, BootstrapsKept DEF Bootstraps
<1>2. ASSUME NEW i \in 1..Len(s2c'), s2c'[i].type = "Delta"
      PROVE  s2c'[i].bucket \in Granted /\ \A b \in Granted : Bootstraps(b, i)'
  <2>1. CASE i \in 1..Len(s2c)
    <3>1. s2c[i].bucket \in Granted /\ \A b \in Granted : Bootstraps(b, i)
      BY ZenonT(30), <1>2, <2>1 DEF FlightInv
    <3>2. ASSUME NEW b \in Granted PROVE Bootstraps(b, i)'
      <4>1. i \in 0..Len(s2c) /\ i \in Nat /\ i <= i
        BY <1>0, <2>1
      <4> QED BY ZenonT(30), <1>0, <3>1, <4>1, BootstrapsKept
    <3> QED BY ZenonT(30), <2>1, <3>1, <3>2
  <2>2. CASE i \notin 1..Len(s2c)
    <3>1. i \in (Len(s2c) + 1)..Len(s2c') /\ i \in Nat /\ Len(s2c) <= i /\ Len(s2c) \in 0..Len(s2c)
      BY <1>0, <2>2
    <3>2. s2c'[i].bucket \in Granted /\ conn = "serve"
      BY ZenonT(30), <1>2, <3>1
    <3>3. ASSUME NEW b \in Granted PROVE Bootstraps(b, i)'
      <4>1. Bootstraps(b, Len(s2c))
        BY ZenonT(30), <3>2 DEF GatewayInv
      <4> QED BY ZenonT(30), <1>0, <3>1, <4>1, BootstrapsKept
    <3> QED BY ZenonT(30), <3>2, <3>3
  <2> QED BY ZenonT(30), <2>1, <2>2
<1>3. FlightInv'
  BY ZenonT(30), <1>2 DEF FlightInv
<1> QED BY ZenonT(30), <1>1, <1>3

\* The gateway's side and the frames in flight, when the client takes the
\* first of them and keeps a snapshot in it.
LEMMA FrameTaken ==
  ASSUME TypeOK, GatewayInv, FlightInv, s2c # <<>>, s2c' = Tail(s2c),
         UNCHANGED <<conn, authorized, toPoll, fresh>>, bootstrapped \subseteq bootstrapped',
         \A b \in Granted : s2c[1] = SnapshotFrame(b) => b \in bootstrapped'
  PROVE  GatewayInv' /\ FlightInv'
<1>0. s2c \in Seq(ServerFrames)
  BY ZenonT(30) DEF TypeOK
<1>1. /\ Len(s2c) \in Nat /\ Len(s2c) # 0 /\ Len(s2c') = Len(s2c) - 1
      /\ \A i \in 1..Len(s2c') : s2c'[i] = s2c[i + 1]
  BY <1>0, LenProperties, EmptySeq, HeadTailProperties
<1>2. \A b \in Granted, n \in 1..Len(s2c) : Bootstraps(b, n) => Bootstraps(b, n - 1)'
  BY ZenonT(30), <1>0, BootstrapsShift
<1>3. \A b \in Granted : Bootstraps(b, Len(s2c)) => Bootstraps(b, Len(s2c))'
  BY <1>1, <1>2 DEF Bootstraps
<1>4. GatewayInv'
  BY ZenonT(30), <1>3 DEF GatewayInv
<1>5. ASSUME NEW i \in 1..Len(s2c'), s2c'[i].type = "Delta"
      PROVE  s2c'[i].bucket \in Granted /\ \A b \in Granted : Bootstraps(b, i)'
  <2>1. i + 1 \in 1..Len(s2c) /\ (i + 1) - 1 = i /\ s2c'[i] = s2c[i + 1]
    BY <1>1
  <2>2. s2c[i + 1].bucket \in Granted /\ \A b \in Granted : Bootstraps(b, i + 1)
    BY ZenonT(30), <1>5, <2>1 DEF FlightInv
  <2> QED BY ZenonT(30), <1>2, <2>1, <2>2
<1>6. FlightInv'
  BY ZenonT(30), <1>5 DEF FlightInv
<1> QED BY ZenonT(30), <1>4, <1>6

\* connect() sends the client's position on the new socket.
LEMMA ConnectSnapshots ==
  ASSUME TypeOK, SnapshotInv, Connect
  PROVE  SnapshotInv'
<1>0. ClientInv /\ GatewayInv /\ SnapshotBeforeDeltas /\ None = -1
  BY ZenonT(30) DEF SnapshotInv, None
<1>1. /\ conn' = "handshake" /\ c2s' = <<SubscribeFrame(requested, lastLsn)>> /\ s2c' = <<>>
      /\ UNCHANGED <<authorized, toPoll, requested, lastLsn, received, bootstrapped>>
  BY ZenonT(30) DEF Connect, clientVars
<1>2. ClientInv'
  <2>1. \A i \in 1..Len(c2s') : i = 1 /\ c2s'[i] = SubscribeFrame(requested, lastLsn)
    BY <1>1
  <2>2. \A i \in 1..Len(c2s') : ResumeInv(c2s[i])'
    BY <1>0, <1>1, <2>1 DEF ResumeInv, SubscribeFrame, ClientInv
  <2> QED BY ZenonT(30), <1>0, <1>1, <2>2 DEF ClientInv
<1>3. GatewayInv'
  BY ZenonT(30), <1>0, <1>1 DEF GatewayInv
<1>4. FlightInv'
  BY <1>1 DEF FlightInv
<1>5. SnapshotBeforeDeltas'
  BY ZenonT(30), <1>0, <1>1 DEF SnapshotBeforeDeltas
<1> QED BY ZenonT(30), <1>2, <1>3, <1>4, <1>5 DEF SnapshotInv

\* A handshake without a position has every granted bucket streamed.
LEMMA HandshakeSnapshots ==
  ASSUME SteadyGrant, TypeInv, SnapshotInv, Handshake
  PROVE  SnapshotInv'
<1>0. TypeOK /\ ClientInv /\ GatewayInv /\ FlightInv /\ SnapshotBeforeDeltas
  BY ZenonT(30) DEF SnapshotInv, TypeInv
<1>1. /\ conn = "handshake" /\ c2s # <<>> /\ toPoll' = {} /\ c2s' = Tail(c2s)
      /\ UNCHANGED <<s2c, requested, lastLsn, received, bootstrapped>>
  BY ZenonT(30) DEF Handshake, clientVars
<1>2. PICK assigned \in Assignments :
        /\ authorized' = assigned \cap Head(c2s).buckets
        /\ fresh' = ToSnapshot(Head(c2s).resume, assigned \cap Head(c2s).buckets)
        /\ conn' = IF fresh' = {} THEN "serve" ELSE "snapshot"
  BY ZenonT(30) DEF Handshake
<1>3. Head(c2s).type = "Subscribe" /\ Head(c2s) = c2s[1] /\ 1 \in 1..Len(c2s)
  <2>1. c2s \in Seq(ClientFrames)
    BY ZenonT(30), <1>0 DEF TypeOK
  <2>2. Head(c2s) = c2s[1] /\ Len(c2s) \in Nat /\ Len(c2s) # 0
    BY ZenonT(30), <1>1, <2>1, HeadTailProperties, LenProperties, EmptySeq
  <2> QED BY <1>1, <2>2 DEF TypeInv, HandshakeReadsSubscribe
<1>4. /\ Head(c2s).buckets \in Requests
      /\ Head(c2s).resume # None => Granted \subseteq bootstrapped
  BY ZenonT(30), <1>0, <1>3 DEF ClientInv, ResumeInv
<1>5. authorized' = Granted /\ fresh' = ToSnapshot(Head(c2s).resume, Granted)
  <2>1. Head(c2s).buckets \cap assigned = Granted
    BY ZenonT(30), <1>4 DEF SteadyGrant
  <2>2. assigned \cap Head(c2s).buckets = Granted
    BY ZenonT(30), <2>1
  <2> QED BY <1>2, <2>2, ZenonT(30)
<1>6. \A b \in Granted : b \in fresh' \/ b \in bootstrapped'
  BY ZenonT(30), <1>1, <1>4, <1>5 DEF ToSnapshot
<1>7. GatewayInv'
  <2>1. conn' = "serve" => fresh' = {}
    BY <1>2, ZenonT(30)
  <2>2. \A b \in Granted : b \in fresh' \/ Bootstraps(b, Len(s2c))'
    BY ZenonT(30), <1>6 DEF Bootstraps
  <2> QED BY ZenonT(30), <1>1, <1>5, <2>1, <2>2 DEF GatewayInv
<1>8. ClientInv'
  <2>1. requested' \in Requests
    BY <1>0, <1>1 DEF ClientInv
  <2> QED BY <1>0, <1>1, <2>1, ReadsFrame, ClientKept
<1>9. FlightInv' /\ SnapshotBeforeDeltas'
  BY ZenonT(30), <1>0, <1>1 DEF FlightInv, SnapshotBeforeDeltas, Bootstraps
<1> QED BY ZenonT(30), <1>7, <1>8, <1>9 DEF SnapshotInv

\* deliver_snapshots() sends a snapshot and then has one less to send.
LEMMA DeliverSnapshots ==
  ASSUME TypeOK, TypeOK', SnapshotInv, NEW b \in Buckets, DeliverSnapshot(b)
  PROVE  SnapshotInv'
<1>0. ClientInv /\ GatewayInv /\ FlightInv /\ SnapshotBeforeDeltas
  BY ZenonT(30) DEF SnapshotInv
<1>1. /\ conn = "snapshot" /\ s2c' = Append(s2c, SnapshotFrame(b)) /\ fresh' = fresh \ {b}
      /\ conn' = IF fresh' = {} THEN "serve" ELSE "snapshot"
      /\ UNCHANGED <<authorized, toPoll, c2s, requested, lastLsn, received, bootstrapped>>
  BY ZenonT(30) DEF DeliverSnapshot, clientVars
<1>2. /\ s2c \in Seq(ServerFrames) /\ s2c' \in Seq(ServerFrames) /\ Len(s2c) \in Nat
      /\ Len(s2c') = Len(s2c) + 1 /\ \A i \in 1..Len(s2c) : s2c'[i] = s2c[i]
      /\ s2c'[Len(s2c) + 1] = SnapshotFrame(b)
      /\ Len(s2c) <= Len(s2c') /\ \A i \in (Len(s2c) + 1)..Len(s2c') : i = Len(s2c) + 1
  <2>1. s2c \in Seq(ServerFrames) /\ SnapshotFrame(b) \in ServerFrames
    BY ZenonT(30), FrameTypes DEF TypeOK
  <2> QED BY <1>1, <2>1, SendProperties
<1>3. \A i \in (Len(s2c) + 1)..Len(s2c') : s2c'[i].type # "Delta"
  BY <1>2 DEF SnapshotFrame
<1>4. FlightInv' /\ \A c : Bootstraps(c, Len(s2c)) => Bootstraps(c, Len(s2c))'
  BY ZenonT(30), <1>0, <1>1, <1>2, <1>3, FramesAdded
<1>5. Bootstraps(b, Len(s2c))'
  BY <1>2 DEF Bootstraps, SnapshotFrame
<1>6. GatewayInv'
  <2>1. \A c \in Granted : c \in fresh' \/ Bootstraps(c, Len(s2c))'
    BY <1>0, <1>1, <1>4, <1>5 DEF GatewayInv
  <2> QED BY ZenonT(30), <1>0, <1>1, <2>1 DEF GatewayInv
<1>7. ClientInv' /\ SnapshotBeforeDeltas'
  BY ZenonT(30), <1>0, <1>1 DEF ClientInv, ResumeInv, SnapshotBeforeDeltas
<1> QED BY ZenonT(30), <1>4, <1>6, <1>7 DEF SnapshotInv

\* poll_deltas() sends operations only once every snapshot is sent.
LEMMA PollSnapshots ==
  ASSUME TypeOK, SnapshotInv, NEW b \in Buckets, PollBucket(b)
  PROVE  SnapshotInv'
<1>0. ClientInv /\ GatewayInv /\ FlightInv /\ SnapshotBeforeDeltas /\ s2c \in Seq(ServerFrames)
  BY ZenonT(30) DEF SnapshotInv, TypeOK
<1>1. /\ conn = "serve" /\ b \in toPoll /\ toPoll' = toPoll \ {b}
      /\ UNCHANGED <<conn, authorized, fresh, c2s, requested, lastLsn, received, bootstrapped>>
  BY ZenonT(30) DEF PollBucket, clientVars
<1>2. b \in Granted
  BY ZenonT(30), <1>0, <1>1 DEF GatewayInv
<1>3. FlightInv' /\ \A c : Bootstraps(c, Len(s2c)) => Bootstraps(c, Len(s2c))'
  <2>1. CASE Drained(b) = {}
    <3>1. s2c' = s2c
      BY ZenonT(30), <2>1 DEF PollBucket
    <3> QED BY ZenonT(30), <1>0, <1>1, <3>1 DEF FlightInv, Bootstraps
  <2>2. CASE Drained(b) # {}
    <3>1. PICK h \in Lsn, m \in ServerFrames :
            /\ m = DeltaFrame(b, {<<ops[b][l], l>> : l \in Drained(b)}, h)
            /\ s2c' \in Seq(ServerFrames) /\ Len(s2c') = Len(s2c) + 1
            /\ \A i \in 1..Len(s2c) : s2c'[i] = s2c[i]
            /\ s2c'[Len(s2c) + 1] = m
      BY <2>2, PollSendsDelta, ZenonT(30)
    <3>2. m.bucket = b
      BY <3>1 DEF DeltaFrame
    <3>3. Len(s2c) \in Nat
      BY ZenonT(30), <1>0, LenProperties
    <3>4. \A i \in (Len(s2c) + 1)..Len(s2c') : s2c'[i].bucket \in Granted /\ conn = "serve"
      <4>1. \A i \in (Len(s2c) + 1)..Len(s2c') : i = Len(s2c) + 1
        BY <3>1, <3>3
      <4> QED BY ZenonT(30), <1>1, <1>2, <3>1, <3>2, <4>1
    <3>5. Len(s2c) <= Len(s2c')
      BY <3>1, <3>3
    <3> QED BY ZenonT(30), <1>0, <1>1, <3>1, <3>4, <3>5, FramesAdded
  <2> QED BY ZenonT(30), <2>1, <2>2
<1>4. GatewayInv'
  BY ZenonT(30), <1>0, <1>1, <1>3 DEF GatewayInv
<1>5. ClientInv' /\ SnapshotBeforeDeltas'
  BY ZenonT(30), <1>0, <1>1 DEF ClientInv, ResumeInv, SnapshotBeforeDeltas
<1> QED BY ZenonT(30), <1>3, <1>4, <1>5 DEF SnapshotInv

\* A refused Subscribe is answered behind the frames in flight.
LEMMA RefuseSnapshots ==
  ASSUME TypeOK, SnapshotInv, RefuseSubscribe
  PROVE  SnapshotInv'
<1>0. ClientInv /\ GatewayInv /\ FlightInv /\ SnapshotBeforeDeltas
  BY ZenonT(30) DEF SnapshotInv
<1>1. /\ c2s # <<>> /\ c2s' = Tail(c2s) /\ s2c' = Append(s2c, ErrorFrame)
      /\ UNCHANGED <<conn, authorized, fresh, toPoll, requested, lastLsn, received, bootstrapped>>
  BY ZenonT(30) DEF RefuseSubscribe, serverVars, clientVars
<1>2. /\ s2c \in Seq(ServerFrames) /\ s2c' \in Seq(ServerFrames) /\ Len(s2c) \in Nat
      /\ Len(s2c') = Len(s2c) + 1 /\ \A i \in 1..Len(s2c) : s2c'[i] = s2c[i]
      /\ s2c'[Len(s2c) + 1] = ErrorFrame
      /\ Len(s2c) <= Len(s2c') /\ \A i \in (Len(s2c) + 1)..Len(s2c') : i = Len(s2c) + 1
  <2>1. s2c \in Seq(ServerFrames) /\ ErrorFrame \in ServerFrames
    BY ZenonT(30), FrameTypes DEF TypeOK
  <2> QED BY <1>1, <2>1, SendProperties
<1>3. \A i \in (Len(s2c) + 1)..Len(s2c') : s2c'[i].type # "Delta"
  BY <1>2 DEF ErrorFrame
<1>4. FlightInv' /\ \A c : Bootstraps(c, Len(s2c)) => Bootstraps(c, Len(s2c))'
  BY ZenonT(30), <1>0, <1>1, <1>2, <1>3, FramesAdded
<1>5. GatewayInv'
  BY ZenonT(30), <1>0, <1>1, <1>4 DEF GatewayInv
<1>6. ClientInv'
  <2>1. requested' \in Requests
    BY ZenonT(30), <1>0, <1>1 DEF ClientInv
  <2> QED BY ZenonT(30), <1>0, <1>1, <2>1, ReadsFrame, ClientKept
<1>7. SnapshotBeforeDeltas'
  BY ZenonT(30), <1>0, <1>1 DEF SnapshotBeforeDeltas
<1> QED BY ZenonT(30), <1>4, <1>5, <1>6, <1>7 DEF SnapshotInv

\* The client receives a Delta: every snapshot came before it.
LEMMA ReceiveDeltaSnapshots ==
  ASSUME TypeOK, SnapshotInv, ReceiveDelta
  PROVE  SnapshotInv'
<1> DEFINE m == Head(s2c)
<1>0. ClientInv /\ GatewayInv /\ FlightInv /\ SnapshotBeforeDeltas
  BY ZenonT(30) DEF SnapshotInv
<1>1. /\ s2c # <<>> /\ m.type = "Delta" /\ s2c' = Tail(s2c) /\ c2s' = Append(c2s, AckFrame(m.lsn))
      /\ received' = [received EXCEPT ![m.bucket] = @ \cup m.ops]
      /\ UNCHANGED <<conn, authorized, fresh, toPoll, requested, bootstrapped>>
  BY ZenonT(30) DEF ReceiveDelta, serverVars
<1>2. /\ s2c \in Seq(ServerFrames) /\ c2s \in Seq(ClientFrames) /\ received \in [Buckets -> SUBSET Ops]
      /\ m \in ServerFrames /\ m = s2c[1] /\ 1 \in 1..Len(s2c)
  <2>1. s2c \in Seq(ServerFrames) /\ c2s \in Seq(ClientFrames) /\ received \in [Buckets -> SUBSET Ops]
    BY ZenonT(30) DEF TypeOK
  <2>2. m \in ServerFrames /\ m = s2c[1] /\ Len(s2c) \in Nat /\ Len(s2c) # 0
    BY ZenonT(30), <1>1, <2>1, HeadTailProperties, LenProperties, EmptySeq
  <2> QED BY <2>1, <2>2
<1>3. m.bucket \in Granted /\ Granted \subseteq bootstrapped
  <2>1. m.bucket \in Granted /\ \A b \in Granted : Bootstraps(b, 1)
    BY <1>0, <1>1, <1>2 DEF FlightInv
  <2>2. \A b : s2c[1] # SnapshotFrame(b)
    BY <1>1, <1>2 DEF SnapshotFrame
  <2> QED BY <2>1, <2>2 DEF Bootstraps
<1>4. GatewayInv' /\ FlightInv'
  BY ZenonT(30), <1>0, <1>1, <1>3, FrameTaken
<1>5. ClientInv'
  <2>1. AckFrame(m.lsn) \in ClientFrames /\ AckFrame(m.lsn).type # "Subscribe"
    BY ZenonT(30), <1>1, <1>2, FrameTypes DEF AckFrame
  <2>2. /\ Len(c2s) \in Nat /\ Len(c2s') = Len(c2s) + 1 /\ c2s'[Len(c2s) + 1] = AckFrame(m.lsn)
        /\ \A i \in 1..Len(c2s) : c2s'[i] = c2s[i]
    BY <1>1, <1>2, <2>1, SendProperties
  <2>3. \A i \in 1..Len(c2s') : i = Len(c2s) + 1 \/ i \in 1..Len(c2s)
    BY <1>1, <1>2, <2>1, SendProperties
  <2>4. \A i \in 1..Len(c2s') : ResumeInv(c2s[i])' \/ \E j \in 1..Len(c2s) : c2s'[i] = c2s[j]
    BY ZenonT(30), <2>1, <2>2, <2>3 DEF ResumeInv
  <2>5. requested' \in Requests
    BY ZenonT(30), <1>0, <1>1 DEF ClientInv
  <2> QED BY ZenonT(30), <1>0, <1>1, <1>3, <2>4, <2>5, ClientKept
<1>6. SnapshotBeforeDeltas'
  <2>1. \A b \in Buckets : b # m.bucket => received'[b] = received[b]
    BY ZenonT(30), <1>1, <1>2
  <2> QED BY ZenonT(30), <1>0, <1>1, <1>3, <2>1 DEF SnapshotBeforeDeltas
<1> QED BY ZenonT(30), <1>4, <1>5, <1>6 DEF SnapshotInv

\* The client receives a snapshot or an Error frame.
LEMMA ReceiveOtherSnapshots ==
  ASSUME TypeOK, SnapshotInv, ReceiveSnapshot \/ ReceiveError
  PROVE  SnapshotInv'
<1>0. ClientInv /\ GatewayInv /\ FlightInv /\ SnapshotBeforeDeltas
  BY ZenonT(30) DEF SnapshotInv
<1>1. /\ s2c # <<>> /\ s2c' = Tail(s2c)
      /\ UNCHANGED <<conn, authorized, fresh, toPoll, c2s, requested, lastLsn, received>>
  BY ZenonT(30) DEF ReceiveSnapshot, ReceiveError, serverVars, clientVars
<1>2. Head(s2c) = s2c[1]
  <2>1. s2c \in Seq(ServerFrames)
    BY ZenonT(30) DEF TypeOK
  <2> QED BY ZenonT(30), <1>1, <2>1, HeadTailProperties
<1>3. bootstrapped \subseteq bootstrapped'
  BY ZenonT(30) DEF ReceiveSnapshot, ReceiveError, clientVars
<1>4. \A b \in Granted : s2c[1] = SnapshotFrame(b) => b \in bootstrapped'
  <2>1. CASE ReceiveSnapshot
    <3>1. bootstrapped' = bootstrapped \cup {Head(s2c).bucket}
      BY ZenonT(30), <2>1 DEF ReceiveSnapshot
    <3> QED BY <1>2, <3>1 DEF SnapshotFrame
  <2>2. CASE ReceiveError
    <3>1. Head(s2c).type = "Error"
      BY ZenonT(30), <2>2 DEF ReceiveError
    <3> QED BY <1>2, <3>1 DEF SnapshotFrame
  <2> QED BY ZenonT(30), <2>1, <2>2
<1>5. GatewayInv' /\ FlightInv'
  BY ZenonT(30), <1>0, <1>1, <1>3, <1>4, FrameTaken
<1>6. ClientInv' /\ SnapshotBeforeDeltas'
  BY <1>0, <1>1, <1>3 DEF ClientInv, ResumeInv, SnapshotBeforeDeltas
<1> QED BY ZenonT(30), <1>5, <1>6 DEF SnapshotInv

\* subscribe() sends the client's position once more.
LEMMA SubscribeSnapshots ==
  ASSUME TypeOK, SnapshotInv, Subscribe
  PROVE  SnapshotInv'
<1> DEFINE m == SubscribeFrame(requested', lastLsn)
<1>0. ClientInv /\ GatewayInv /\ FlightInv /\ SnapshotBeforeDeltas
  BY ZenonT(30) DEF SnapshotInv
<1>1. /\ requested' \in Requests /\ c2s' = IF conn = "down" THEN c2s ELSE Append(c2s, m)
      /\ UNCHANGED <<conn, authorized, fresh, toPoll, s2c, lastLsn, received, bootstrapped>>
  BY ZenonT(30) DEF Subscribe, serverVars
<1>2. \A i \in 1..Len(c2s') : ResumeInv(c2s[i])' \/ \E j \in 1..Len(c2s) : c2s'[i] = c2s[j]
  <2>1. CASE c2s' = c2s
    BY ZenonT(30), <2>1
  <2>2. CASE c2s' = Append(c2s, m)
    <3>1. c2s \in Seq(ClientFrames) /\ m \in ClientFrames
      BY ZenonT(30), <1>1, FrameTypes, SessionAssumption DEF TypeOK
    <3>2. /\ Len(c2s) \in Nat /\ Len(c2s') = Len(c2s) + 1 /\ c2s'[Len(c2s) + 1] = m
          /\ \A i \in 1..Len(c2s) : c2s'[i] = c2s[i]
      <4> HIDE DEF m
      <4> QED BY <2>2, <3>1, SendProperties
    <3>3. \A i \in 1..Len(c2s') : i = Len(c2s) + 1 \/ i \in 1..Len(c2s)
      BY <3>2
    <3>4. m.buckets = requested' /\ m.resume = lastLsn
      BY ZenonT(30) DEF SubscribeFrame
    <3> HIDE DEF m
    <3>5. ASSUME NEW i \in 1..Len(c2s'), i = Len(c2s) + 1 PROVE ResumeInv(c2s[i])'
      BY ZenonT(30), <1>0, <1>1, <3>2, <3>4, <3>5 DEF ResumeInv, ClientInv
    <3> QED BY ZenonT(30), <3>2, <3>3, <3>5
  <2> QED BY ZenonT(30), <1>1, <2>1, <2>2
<1> HIDE DEF m
<1>3. ClientInv'
  BY ZenonT(30), <1>0, <1>1, <1>2, ClientKept
<1>4. GatewayInv' /\ FlightInv' /\ SnapshotBeforeDeltas'
  BY <1>0, <1>1 DEF GatewayInv, FlightInv, SnapshotBeforeDeltas, Bootstraps
<1> QED BY <1>3, <1>4 DEF SnapshotInv

\* A connection ends; the client keeps its snapshots with its position.
LEMMA CloseSnapshots ==
  ASSUME SnapshotInv, CloseConnection, UNCHANGED clientVars
  PROVE  SnapshotInv'
<1>0. ClientInv /\ SnapshotBeforeDeltas
  BY ZenonT(30) DEF SnapshotInv
<1>1. /\ conn' = "down" /\ authorized' = {} /\ toPoll' = {} /\ s2c' = <<>> /\ c2s' = <<>>
      /\ UNCHANGED <<requested, lastLsn, received, bootstrapped>>
  BY ZenonT(30) DEF CloseConnection, clientVars
<1>2. ClientInv' /\ GatewayInv' /\ FlightInv' /\ SnapshotBeforeDeltas'
  BY <1>0, <1>1 DEF ClientInv, GatewayInv, FlightInv, SnapshotBeforeDeltas
<1> QED BY ZenonT(30), <1>2 DEF SnapshotInv

\* Every step keeps SnapshotInv.
LEMMA SnapshotInvNext ==
  ASSUME SteadyGrant, TypeInv, TypeOK', SnapshotInv, [Next]_vars
  PROVE  SnapshotInv'
<1>0. TypeOK /\ ClientInv /\ GatewayInv /\ FlightInv /\ SnapshotBeforeDeltas
  BY ZenonT(30) DEF SnapshotInv, TypeInv
<1>1. CASE Connect
  BY <1>0, <1>1, ConnectSnapshots
<1>2. CASE Handshake
  BY ZenonT(30), <1>2, HandshakeSnapshots
<1>3. CASE \E b \in Buckets : DeliverSnapshot(b)
  BY ZenonT(30), <1>0, <1>3, DeliverSnapshots
<1>4. CASE \E b \in Buckets : PollBucket(b)
  BY ZenonT(30), <1>0, <1>4, PollSnapshots
<1>5. CASE RefuseSubscribe
  BY ZenonT(30), <1>0, <1>5, RefuseSnapshots
<1>6. CASE ReceiveDelta
  BY ZenonT(30), <1>0, <1>6, ReceiveDeltaSnapshots
<1>7. CASE ReceiveSnapshot \/ ReceiveError
  BY ZenonT(30), <1>0, <1>7, ReceiveOtherSnapshots
<1>8. CASE Subscribe
  BY ZenonT(30), <1>0, <1>8, SubscribeSnapshots
<1>9. CASE Drop \/ ServerRestart
  BY ZenonT(30), <1>9, CloseSnapshots DEF Drop, ServerRestart
<1>10. CASE HandleAck
  <2>1. /\ c2s # <<>> /\ c2s' = Tail(c2s)
        /\ UNCHANGED <<conn, authorized, fresh, toPoll, s2c, requested, lastLsn, received, bootstrapped>>
    BY <1>10, ZenonT(30) DEF HandleAck, clientVars
  <2>2. requested' \in Requests
    BY ZenonT(30), <1>0, <2>1 DEF ClientInv
  <2>3. ClientInv'
    BY ZenonT(30), <1>0, <2>1, <2>2, ReadsFrame, ClientKept
  <2>4. GatewayInv' /\ FlightInv' /\ SnapshotBeforeDeltas'
    BY <1>0, <2>1 DEF GatewayInv, FlightInv, SnapshotBeforeDeltas, Bootstraps
  <2> QED BY ZenonT(30), <2>3, <2>4 DEF SnapshotInv
<1>11. CASE PollTick \/ RouteOp \/ UNCHANGED vars
  <2>1. /\ UNCHANGED <<conn, authorized, fresh, s2c, c2s, requested, lastLsn, received, bootstrapped>>
        /\ toPoll' = toPoll \/ toPoll' = authorized
    BY <1>11, ZenonT(30) DEF PollTick, RouteOp, vars, serverVars, clientVars
  <2>2. ClientInv' /\ GatewayInv' /\ FlightInv' /\ SnapshotBeforeDeltas'
    BY <1>0, <2>1 DEF ClientInv, ResumeInv, GatewayInv, FlightInv, SnapshotBeforeDeltas, Bootstraps
  <2> QED BY ZenonT(30), <2>2 DEF SnapshotInv
<1> QED
  BY ZenonT(30), <1>1, <1>2, <1>3, <1>4, <1>5, <1>6, <1>7, <1>8, <1>9, <1>10, <1>11 DEF Next

\* deliver_snapshots() precedes serve(), and a client holds a position only
\* after it: across drops, restarts and repeated subscribe() calls a bucket's
\* snapshot reaches the client before its operations, for any number of
\* buckets, as long as every handshake grants the same ones.
THEOREM SnapshotBeforeDeltasCorrect ==
  ASSUME SteadyGrant
  PROVE  Spec => []SnapshotBeforeDeltas
<1>1. Init => SnapshotInv
  <2> SUFFICES ASSUME Init PROVE ClientInv /\ GatewayInv /\ FlightInv /\ SnapshotBeforeDeltas
    BY ZenonT(30) DEF SnapshotInv
  <2> QED BY DEF Init, ClientInv, GatewayInv, FlightInv, SnapshotBeforeDeltas
<1>2. TypeInv /\ SnapshotInv /\ [Next]_vars => (TypeInv /\ SnapshotInv)'
  <2> SUFFICES ASSUME TypeInv, SnapshotInv, [Next]_vars PROVE TypeInv' /\ SnapshotInv'
    BY ZenonT(30)
  <2>1. TypeInv'
    BY ZenonT(30), TypeInvNext
  <2>2. TypeOK'
    BY ZenonT(30), <2>1 DEF TypeInv
  <2> QED BY ZenonT(30), <2>1, <2>2, SnapshotInvNext
<1>3. SnapshotInv => SnapshotBeforeDeltas
  BY ZenonT(30) DEF SnapshotInv
<1> QED BY <1>1, <1>2, <1>3, TypeInvInit, PTL DEF Spec

-----------------------------------------------------------------------------
(* What a sync session never skips, from DeliveryInv.  The results are     *)
(* about one server process (MaxEpoch = 1): across a restart they do not   *)
(* hold, because the LSNs start again.                                     *)

\* Within one process an entry of the op log never changes.
LEMMA OneEpoch ==
  ASSUME MaxEpoch = 1, TypeOK
  PROVE  /\ epoch = 1
         /\ \A b \in Buckets : \A l \in Stored(b) : l \in Lsn /\ ops[b][l] = 1
         /\ ~ Restart
BY DEF TypeOK, FeedTypeOK, Epoch, Stored, Absent, Restart

\* Nothing stored, nothing in flight: the delivery invariant holds initially.
LEMMA DeliveryInit ==
  ASSUME Init PROVE DeliveryInv
<1>1. \A b \in Buckets : Stored(b) = {}
  BY ZenonT(30) DEF Init, FeedInit, Stored
<1>2. Len(s2c) = 0 /\ Len(c2s) = 0
  BY ZenonT(30) DEF Init
<1> QED
  BY <1>1, <1>2 DEF Init, DeliveryInv, SafePosition

-----------------------------------------------------------------------------
(* Steps that leave the op log alone.                                      *)

\* A step that leaves the log alone leaves what is stored in it alone.
LEMMA StoredSame ==
  ASSUME UNCHANGED ops
  PROVE  \A b \in Buckets : Stored(b)' = Stored(b)
BY ZenonT(30) DEF Stored

\* What the client has, it keeps.
LEMMA HasStable ==
  ASSUME UNCHANGED ops,
         \A c \in Buckets : received[c] \subseteq received'[c]
  PROVE  /\ \A b \in Buckets, l \in Lsn : Has(b, l) => Has(b, l)'
         /\ \A p \in Lsn \cup {None} : SafePosition(p) => SafePosition(p)'
<1>1. \A b \in Buckets, l \in Lsn : Has(b, l) => Has(b, l)'
  BY ZenonT(30) DEF Has
<1>2. ASSUME NEW p \in Lsn \cup {None}, SafePosition(p) PROVE SafePosition(p)'
  <2>1. CASE p = None
    BY ZenonT(30), <2>1 DEF SafePosition
  <2>2. CASE p # None
    <3>1. \E c \in Buckets : p \in Stored(c)' /\ <<ops'[c][p], p>> \in received'[c]
      BY ZenonT(30), <1>2, <2>2, StoredSame DEF SafePosition
    <3>2. \A b \in Buckets : \A l \in Stored(b)' : l <= p => Has(b, l)'
      BY ZenonT(30), <1>1, <1>2, <2>2, StoredSame DEF SafePosition, Stored
    <3> QED
      BY ZenonT(30), <3>1, <3>2 DEF SafePosition
  <2> QED
    BY ZenonT(30), <2>1, <2>2
<1> QED
  BY ZenonT(30), <1>1, <1>2

\* Frames keep their place when one is added behind them.
LEMMA CarriedStable ==
  ASSUME UNCHANGED ops, NEW n \in Nat, \A i \in 1..n : s2c'[i] = s2c[i]
  PROVE  \A b \in Buckets, l \in Lsn : Carried(b, l, n) => Carried(b, l, n)'
BY ZenonT(30) DEF Carried

\* A Delta in flight stays complete while the frames up to it stay in place.
LEMMA DeltaStable ==
  ASSUME UNCHANGED ops,
         \A c \in Buckets : received[c] \subseteq received'[c],
         NEW n \in Nat, n <= Len(s2c), s2c \in Seq(ServerFrames),
         \A i \in 1..n : s2c'[i] = s2c[i],
         NEW i \in 1..n, s2c[i].type = "Delta", DeltaComplete(i)
  PROVE  DeltaComplete(i)'
<1>1. PICK m \in ServerFrames : m = s2c[i] /\ m = s2c'[i]
  BY ElementOfSeq
<1>2. PICK b \in Buckets : b = m.bucket
  BY ZenonT(30), <1>1, FrameTypes
<1>3. \A l \in Stored(b) : l \in Lsn
  BY ZenonT(30) DEF Stored
<1>4. \A l \in Stored(b) : l <= m.lsn => Has(b, l) \/ Carried(b, l, i)
  BY ZenonT(30), <1>1, <1>2 DEF DeltaComplete
<1>5. \A l \in Stored(b) : l <= m.lsn => Has(b, l)' \/ Carried(b, l, i)'
  <2>1. \A l \in Lsn : Has(b, l) => Has(b, l)'
    BY ZenonT(30), HasStable
  <2>2. i \in Nat /\ \A j \in 1..i : s2c'[j] = s2c[j]
    OBVIOUS
  <2>3. \A l \in Lsn : Carried(b, l, i) => Carried(b, l, i)'
    BY ZenonT(30), <2>2, CarriedStable
  <2> QED
    BY ZenonT(30), <1>3, <1>4, <2>1, <2>3
<1> QED
  BY ZenonT(30), <1>1, <1>2, <1>5, StoredSame DEF DeltaComplete

\* A bucket's cursor stays complete while no frame in flight is taken away.
LEMMA CursorStable ==
  ASSUME UNCHANGED ops,
         \A c \in Buckets : received[c] \subseteq received'[c],
         Len(s2c) \in Nat, Len(s2c') \in Nat, Len(s2c) <= Len(s2c'),
         \A i \in 1..Len(s2c) : s2c'[i] = s2c[i],
         NEW b \in Buckets, lastSeen'[b] = lastSeen[b], CursorComplete(b)
  PROVE  CursorComplete(b)'
<1>1. PICK n \in Nat : n = Len(s2c)
  BY ZenonT(30)
<1>2. PICK k \in Nat : k = Len(s2c')
  BY ZenonT(30)
<1>3. \A l \in Stored(b) : l \in Lsn
  BY ZenonT(30) DEF Stored
<1>4. \A l \in Lsn : Carried(b, l, n) => Carried(b, l, n)'
  BY ZenonT(30), <1>1, CarriedStable
<1>5. \A l \in Lsn : Carried(b, l, n)' => Carried(b, l, k)'
  BY <1>1, <1>2 DEF Carried
<1>6. \A l \in Lsn : Has(b, l) => Has(b, l)'
  BY ZenonT(30), HasStable
<1>7. \A l \in Stored(b) : l <= lastSeen[b] => Has(b, l)' \/ Carried(b, l, k)'
  BY ZenonT(30), <1>1, <1>3, <1>4, <1>5, <1>6 DEF CursorComplete
<1> QED
  BY ZenonT(30), <1>2, <1>7, StoredSame DEF CursorComplete

\* Nothing leaves the socket and no new Delta is put on it.
LEMMA QuietStep ==
  ASSUME DeliveryInv, TypeOK, UNCHANGED <<feedVars, received, lastLsn>>,
         s2c' = s2c \/ \E m \in ServerFrames : m.type # "Delta" /\ s2c' = Append(s2c, m),
         Len(c2s') \in Nat,
         \A i \in 1..Len(c2s') : Position(c2s'[i]) \in Lsn \cup {None} /\ SafePosition(Position(c2s'[i])),
         \A b \in Buckets : lastSeen'[b] = None \/ lastSeen'[b] = lastSeen[b]
                              \/ (lastSeen'[b] \in Lsn /\ SafePosition(lastSeen'[b])),
         TypeOK'
  PROVE  DeliveryInv'
<1>1. UNCHANGED ops /\ UNCHANGED frontier /\ \A c \in Buckets : received[c] \subseteq received'[c]
  BY ZenonT(30) DEF feedVars
<1>2. Len(s2c) \in Nat /\ s2c \in Seq(ServerFrames)
  BY ZenonT(30), LenProperties DEF TypeOK
<1>3. /\ Len(s2c') \in Nat /\ Len(s2c) <= Len(s2c')
      /\ \A i \in 1..Len(s2c) : s2c'[i] = s2c[i]
      /\ \A i \in 1..Len(s2c') : s2c'[i].type = "Delta" => i \in 1..Len(s2c)
  BY <1>2, AppendProperties
<1>4. \A b \in Buckets : \A l \in Stored(b)' : l <= frontier'
  BY ZenonT(30), <1>1, StoredSame DEF DeliveryInv
<1>5. \A b \in Buckets : \A o \in received'[b] : o[2] \in Stored(b)'
  BY ZenonT(30), <1>1, StoredSame DEF DeliveryInv
<1>6. SafePosition(lastLsn)'
  <2>1. PICK p \in Lsn \cup {None} : p = lastLsn
    BY ZenonT(30) DEF TypeOK
  <2>2. SafePosition(p)'
    BY ZenonT(30), <1>1, <2>1, HasStable DEF DeliveryInv
  <2> QED
    BY ZenonT(30), <2>1, <2>2
<1>7. \A i \in 1..Len(c2s') : SafePosition(Position(c2s[i]))'
  <2> SUFFICES ASSUME NEW i \in 1..Len(c2s') PROVE SafePosition(Position(c2s[i]))'
    BY ZenonT(30)
  <2>1. PICK p \in Lsn \cup {None} : p = Position(c2s'[i]) /\ SafePosition(p)
    BY ZenonT(30)
  <2>2. SafePosition(p)'
    BY ZenonT(30), <1>1, <2>1, HasStable
  <2> QED
    BY ZenonT(30), <2>1, <2>2
<1>8. \A i \in 1..Len(s2c') : s2c'[i].type = "Delta" => DeltaComplete(i)'
  <2> SUFFICES ASSUME NEW i \in 1..Len(s2c'), s2c'[i].type = "Delta" PROVE DeltaComplete(i)'
    BY ZenonT(30)
  <2>1. i \in 1..Len(s2c) /\ s2c[i].type = "Delta" /\ DeltaComplete(i)
    BY ZenonT(30), <1>3 DEF DeliveryInv
  <2>2. PICK n \in Nat : n = Len(s2c)
    BY ZenonT(30), <1>2
  <2> QED
    BY <1>1, <1>2, <1>3, <2>1, <2>2, DeltaStable
<1>9. \A b \in Buckets : lastSeen'[b] # None => CursorComplete(b)'
  <2> SUFFICES ASSUME NEW b \in Buckets, lastSeen'[b] # None PROVE CursorComplete(b)'
    BY ZenonT(30)
  <2>1. CASE lastSeen'[b] = lastSeen[b]
    <3>1. CursorComplete(b)
      BY ZenonT(30), <2>1 DEF DeliveryInv
    <3> QED
      BY ZenonT(30), <1>1, <1>2, <1>3, <2>1, <3>1, CursorStable
  <2>2. CASE lastSeen'[b] \in Lsn /\ SafePosition(lastSeen'[b])
    <3>1. PICK p \in Lsn : p = lastSeen'[b] /\ SafePosition(p)
      BY ZenonT(30), <2>2
    <3>2. SafePosition(p)'
      BY ZenonT(30), <1>1, <3>1, HasStable
    <3>3. PICK c \in Buckets : p \in Stored(c)' /\ <<ops'[c][p], p>> \in received'[c]
      BY ZenonT(30), <2>2, <3>1, <3>2 DEF SafePosition
    <3>4. <<ops'[c][p], p>>[2] = p /\ p <= p
      BY DEF Lsn
    <3>5. p \in Stored(b)' \/ \E d \in Buckets \ {b} : \E o \in received'[d] : p <= o[2]
      BY ZenonT(30), <3>3, <3>4
    <3>6. \A l \in Stored(b)' : l <= p => Has(b, l)'
      BY ZenonT(30), <3>1, <3>2 DEF SafePosition
    <3> QED
      BY ZenonT(30), <3>1, <3>5, <3>6 DEF CursorComplete
  <2> QED
    BY ZenonT(30), <2>1, <2>2
<1> QED
  BY ZenonT(30), <1>4, <1>5, <1>6, <1>7, <1>8, <1>9 DEF DeliveryInv

-----------------------------------------------------------------------------
(* The client takes a frame off the socket.                                *)

\* The frame that is received next is the first in the queue.
LEMMA HeadIsFirst ==
  ASSUME NEW S, NEW q \in Seq(S), q # <<>>
  PROVE  Head(q) = q[1] /\ q[1] \in S /\ Len(q) \in Nat /\ Len(q) >= 1
BY EmptySeq, ElementOfSeq, LenProperties

\* Receiving a frame leaves one fewer in the queue.
LEMMA TailLength ==
  \A S : \A q \in Seq(S) : q # <<>> => \E n \in Nat : n = Len(Tail(q)) /\ n + 1 = Len(q)
<1> SUFFICES ASSUME NEW S, NEW q \in Seq(S), q # <<>>
             PROVE  \E n \in Nat : n = Len(Tail(q)) /\ n + 1 = Len(q)
  BY ZenonT(30)
<1>1. Len(Tail(q)) \in Nat /\ Len(Tail(q)) + 1 = Len(q)
  BY HeadTailProperties, LenProperties
<1> QED
  BY ZenonT(30), <1>1

\* What the frames in flight carry is, once the first is received, with the
\* client or carried by the others.
LEMMA PopCarried ==
  ASSUME UNCHANGED ops, s2c \in Seq(ServerFrames), s2c # <<>>, s2c' = Tail(s2c),
         s2c[1].type = "Delta" => s2c[1].ops \subseteq received'[s2c[1].bucket],
         NEW n \in Nat, n < Len(s2c), NEW b \in Buckets, NEW l \in Lsn,
         Carried(b, l, n + 1)
  PROVE  Has(b, l)' \/ Carried(b, l, n)'
<1>1. PICK i \in 1..(n + 1) :
        s2c[i].type = "Delta" /\ s2c[i].bucket = b /\ <<ops[b][l], l>> \in s2c[i].ops
  BY ZenonT(30) DEF Carried
<1>2. CASE i = 1
  BY ZenonT(30), <1>1, <1>2 DEF Has
<1>3. CASE i # 1
  <2>1. i - 1 \in 1..n /\ i - 1 \in 1..Len(Tail(s2c)) /\ s2c'[i - 1] = s2c[i]
    BY <1>3, HeadTailProperties, HeadIsFirst
  <2> QED
    BY ZenonT(30), <1>1, <2>1 DEF Carried
<1> QED
  BY ZenonT(30), <1>2, <1>3

\* Receiving a frame keeps the other Deltas and the cursors complete.
LEMMA PopStep ==
  ASSUME DeliveryInv, TypeOK, TypeOK', UNCHANGED <<feedVars, lastSeen>>,
         s2c # <<>>, s2c' = Tail(s2c),
         \A c \in Buckets : received[c] \subseteq received'[c],
         s2c[1].type = "Delta" => s2c[1].ops \subseteq received'[s2c[1].bucket]
  PROVE  /\ \A i \in 1..Len(s2c') : s2c'[i].type = "Delta" => DeltaComplete(i)'
         /\ \A b \in Buckets : lastSeen'[b] # None => CursorComplete(b)'
<1>1. UNCHANGED ops
  BY ZenonT(30) DEF feedVars
<1>2. s2c \in Seq(ServerFrames)
  BY ZenonT(30) DEF TypeOK
<1>3. Len(s2c) \in Nat /\ Len(s2c) >= 1 /\ Len(s2c') = Len(s2c) - 1
  BY ZenonT(30), <1>2, HeadTailProperties, HeadIsFirst
<1>4. \A i \in 1..Len(s2c') : s2c'[i] = s2c[i + 1] /\ i + 1 \in 1..Len(s2c)
  BY <1>2, <1>3, HeadTailProperties
<1>5. \A i \in 1..Len(s2c') : s2c'[i].type = "Delta" => DeltaComplete(i)'
  <2> SUFFICES ASSUME NEW i \in 1..Len(s2c'), s2c'[i].type = "Delta" PROVE DeltaComplete(i)'
    BY ZenonT(30)
  <2>1. PICK m \in ServerFrames : m = s2c[i + 1] /\ m = s2c'[i]
    BY ZenonT(30), <1>2, <1>4, ElementOfSeq
  <2>2. PICK b \in Buckets : b = m.bucket
    BY ZenonT(30), <2>1, FrameTypes
  <2>3. DeltaComplete(i + 1)
    BY ZenonT(30), <1>4, <2>1 DEF DeliveryInv
  <2>4. \A l \in Stored(b) : l \in Lsn /\ (l <= m.lsn => Has(b, l) \/ Carried(b, l, i + 1))
    BY ZenonT(30), <2>1, <2>2, <2>3 DEF DeltaComplete, Stored
  <2>5. i \in Nat /\ i < Len(s2c)
    BY <1>3
  <2>6. ASSUME NEW l \in Stored(b), l <= m.lsn PROVE Has(b, l)' \/ Carried(b, l, i)'
    <3>1. Has(b, l) => Has(b, l)'
      BY ZenonT(30), <1>1, <2>4, HasStable
    <3>2. Carried(b, l, i + 1) => Has(b, l)' \/ Carried(b, l, i)'
      BY ZenonT(30), <1>1, <1>2, <2>4, <2>5, PopCarried
    <3> QED
      BY ZenonT(30), <2>4, <2>6, <3>1, <3>2
  <2>7. /\ m.lsn \in Stored(b)
        /\ <<ops[b][m.lsn], m.lsn>> \in m.ops
        /\ \A o \in m.ops : o[2] \in Stored(b) /\ o[2] <= m.lsn
    BY ZenonT(30), <2>1, <2>2, <2>3 DEF DeltaComplete
  <2>8. Stored(b)' = Stored(b)
    BY ZenonT(30), <1>1, StoredSame
  <2> QED
    BY ZenonT(30), <1>1, <2>1, <2>2, <2>6, <2>7, <2>8 DEF DeltaComplete
<1>6. \A b \in Buckets : lastSeen'[b] # None => CursorComplete(b)'
  <2> SUFFICES ASSUME NEW b \in Buckets, lastSeen[b] # None PROVE CursorComplete(b)'
    BY ZenonT(30)
  <2>1. PICK n \in Nat : n = Len(s2c') /\ n + 1 = Len(s2c)
    BY ZenonT(30), TailLength DEF TypeOK
  <2>2. CursorComplete(b)
    BY ZenonT(30) DEF DeliveryInv
  <2>3. \A l \in Stored(b) : l \in Lsn /\ (l <= lastSeen[b] => Has(b, l) \/ Carried(b, l, n + 1))
    BY ZenonT(30), <2>1, <2>2 DEF CursorComplete, Stored
  <2>4. \A l \in Stored(b) : l <= lastSeen[b] => Has(b, l)' \/ Carried(b, l, n)'
    BY <1>1, <1>2, <2>1, <2>3, PopCarried, HasStable
  <2>5. lastSeen'[b] \in Stored(b)'
          \/ \E c \in Buckets \ {b} : \E o \in received'[c] : lastSeen'[b] <= o[2]
    BY ZenonT(30), <1>1, <2>2, StoredSame DEF CursorComplete
  <2> QED
    BY ZenonT(30), <1>1, <2>1, <2>4, <2>5, StoredSame DEF CursorComplete
<1> QED
  BY ZenonT(30), <1>5, <1>6

\* handleMessage() on a Delta: the client's new lastLsn and its Ack are safe.
LEMMA ReceiveDeltaStep ==
  ASSUME DeliveryInv, TypeOK, TypeOK', ReceiveDelta
  PROVE  DeliveryInv'
<1>1. PICK m \in ServerFrames : m = s2c[1] /\ m = Head(s2c)
  BY HeadIsFirst DEF ReceiveDelta, TypeOK
<1>2. PICK b \in Buckets : b = m.bucket
  BY ZenonT(30), <1>1, FrameTypes DEF ReceiveDelta
<1>3. m.type = "Delta" /\ m.ops \in SUBSET Ops /\ m.lsn \in Lsn
  BY ZenonT(30), <1>1, FrameTypes DEF ReceiveDelta
<1>4. /\ UNCHANGED <<feedVars, lastSeen>> /\ UNCHANGED ops /\ UNCHANGED frontier
      /\ lastLsn' = m.lsn
      /\ received' = [received EXCEPT ![b] = @ \cup m.ops]
      /\ c2s' = Append(c2s, AckFrame(m.lsn))
      /\ s2c # <<>> /\ s2c' = Tail(s2c)
  BY ZenonT(30), <1>1, <1>2 DEF ReceiveDelta, feedVars, serverVars
<1>5. \A c \in Buckets : received[c] \subseteq received'[c]
  BY ZenonT(30), <1>4 DEF TypeOK
<1>6. m.ops \subseteq received'[b]
  BY ZenonT(30), <1>4 DEF TypeOK
<1>7. Len(s2c) \in Nat /\ 1 \in 1..Len(s2c)
  BY <1>4, HeadIsFirst DEF TypeOK
<1>8. DeltaComplete(1)
  BY ZenonT(30), <1>1, <1>3, <1>7 DEF DeliveryInv
<1>9. m.lsn \in Stored(b) /\ <<ops[b][m.lsn], m.lsn>> \in m.ops
  BY ZenonT(30), <1>1, <1>2, <1>8 DEF DeltaComplete
<1>10. SafePosition(m.lsn)'
  <2>1. m.lsn \in Stored(b)' /\ <<ops'[b][m.lsn], m.lsn>> \in received'[b]
    BY ZenonT(30), <1>4, <1>6, <1>9, StoredSame
  <2>2. ASSUME NEW c \in Buckets, NEW l \in Stored(c), l <= m.lsn PROVE Has(c, l)'
    <3>1. CASE c # b
      <4>1. <<ops'[b][m.lsn], m.lsn>>[2] = m.lsn
        BY ZenonT(30)
      <4> QED
        BY ZenonT(30), <2>1, <2>2, <3>1, <4>1 DEF Has
    <3>2. CASE c = b
      <4>1. Has(b, l) \/ Carried(b, l, 1)
        BY ZenonT(30), <1>1, <1>2, <1>8, <2>2, <3>2 DEF DeltaComplete
      <4>2. Carried(b, l, 1) => <<ops[b][l], l>> \in m.ops
        BY <1>1 DEF Carried
      <4>3. l \in Lsn
        BY ZenonT(30) DEF Stored
      <4>4. Has(b, l) => Has(b, l)'
        BY ZenonT(30), <1>4, <1>5, <4>3, HasStable
      <4>5. <<ops[b][l], l>> \in m.ops => Has(b, l)'
        BY ZenonT(30), <1>4, <1>6 DEF Has
      <4> QED
        BY ZenonT(30), <3>2, <4>1, <4>2, <4>4, <4>5
    <3> QED
      BY ZenonT(30), <3>1, <3>2
  <2> QED
    BY ZenonT(30), <1>4, <2>1, <2>2, StoredSame DEF SafePosition
<1>11. SafePosition(lastLsn)'
  BY ZenonT(30), <1>4, <1>10
<1>12. \A i \in 1..Len(c2s') : SafePosition(Position(c2s[i]))'
  <2> SUFFICES ASSUME NEW i \in 1..Len(c2s') PROVE SafePosition(Position(c2s[i]))'
    BY ZenonT(30)
  <2>1. c2s \in Seq(ClientFrames) /\ AckFrame(m.lsn) \in ClientFrames /\ Len(c2s) \in Nat
    BY ZenonT(30), <1>3, FrameTypes, LenProperties DEF TypeOK
  <2>2. CASE i \in 1..Len(c2s)
    <3>1. c2s'[i] = c2s[i] /\ c2s[i] \in ClientFrames
      BY <1>4, <2>1, <2>2, AppendProperties, ElementOfSeq
    <3>2. Position(c2s[i]) \in Lsn \cup {None}
      BY ZenonT(30), <3>1, FrameTypes DEF Position, ClientFrames
    <3>3. PICK p \in Lsn \cup {None} : p = Position(c2s[i]) /\ p = Position(c2s'[i])
      BY ZenonT(30), <3>1, <3>2
    <3>4. SafePosition(p)'
      BY ZenonT(30), <1>4, <1>5, <2>2, <3>3, HasStable DEF DeliveryInv
    <3> QED
      BY ZenonT(30), <3>3, <3>4
  <2>3. CASE i = Len(c2s) + 1
    <3>1. c2s'[i] = AckFrame(m.lsn)
      BY <1>4, <2>1, <2>3, AppendProperties
    <3>2. Position(c2s'[i]) = m.lsn
      BY <3>1 DEF Position, AckFrame
    <3> QED
      BY ZenonT(30), <1>10, <3>2
  <2> QED
    BY <1>4, <2>1, <2>2, <2>3, AppendProperties
<1>13. \A c \in Buckets : \A l \in Stored(c)' : l <= frontier'
  BY ZenonT(30), <1>4, StoredSame DEF DeliveryInv
<1>14. \A c \in Buckets : \A o \in received'[c] : o[2] \in Stored(c)'
  <2>1. \A o \in m.ops : o[2] \in Stored(b)
    BY ZenonT(30), <1>1, <1>2, <1>8 DEF DeltaComplete
  <2>2. \A c \in Buckets : \A o \in received[c] : o[2] \in Stored(c)
    BY ZenonT(30) DEF DeliveryInv
  <2> QED
    BY <1>4, <2>1, <2>2, StoredSame DEF TypeOK
<1>15. /\ \A i \in 1..Len(s2c') : s2c'[i].type = "Delta" => DeltaComplete(i)'
       /\ \A c \in Buckets : lastSeen'[c] # None => CursorComplete(c)'
  BY ZenonT(30), <1>1, <1>2, <1>4, <1>5, <1>6, PopStep
<1> QED
  BY ZenonT(30), <1>11, <1>12, <1>13, <1>14, <1>15 DEF DeliveryInv

-----------------------------------------------------------------------------
(* The gateway sends a Delta.                                              *)

\* poll_deltas() on a bucket with news: the Delta and the raised cursor are
\* complete.
LEMMA PollStep ==
  ASSUME DeliveryInv, TypeOK, TypeOK', NEW b \in Buckets, PollBucket(b), Drained(b) # {}
  PROVE  DeliveryInv'
<1>1. PICK H \in Lsn, M \in ServerFrames :
        /\ H \in Drained(b) /\ \A l \in Drained(b) : l <= H
        /\ M = DeltaFrame(b, {<<ops[b][l], l>> : l \in Drained(b)}, H)
        /\ s2c' = Append(s2c, M)
        /\ Len(s2c') = Len(s2c) + 1
        /\ \A i \in 1..Len(s2c) : s2c'[i] = s2c[i]
        /\ s2c'[Len(s2c) + 1] = M
        /\ lastSeen' = [lastSeen EXCEPT ![b] = H]
  BY ZenonT(30), PollSendsDelta
<1>2. H \in Drained(b) /\ \A l \in Drained(b) : l <= H
  BY ZenonT(30), <1>1
<1>3. PICK n \in Nat : n = Len(s2c)
  BY ZenonT(30), LenProperties DEF TypeOK
<1>4. PICK m \in ServerFrames :
        /\ m = DeltaFrame(b, {<<ops[b][l], l>> : l \in Drained(b)}, H)
        /\ s2c' = Append(s2c, m)
        /\ Len(s2c') = n + 1
        /\ \A i \in 1..n : s2c'[i] = s2c[i]
        /\ s2c'[n + 1] = m
        /\ lastSeen' = [lastSeen EXCEPT ![b] = H]
  BY ZenonT(30), <1>1, <1>3
<1>5. m.type = "Delta" /\ m.bucket = b /\ m.lsn = H /\ m.ops = {<<ops[b][l], l>> : l \in Drained(b)}
  BY ZenonT(30), <1>4 DEF DeltaFrame
<1>6. /\ UNCHANGED ops /\ UNCHANGED frontier /\ UNCHANGED received /\ UNCHANGED lastLsn /\ UNCHANGED c2s
      /\ \A c \in Buckets : received[c] \subseteq received'[c]
  BY ZenonT(30) DEF PollBucket, feedVars, clientVars
<1>7. Drained(b) \subseteq Stored(b) /\ \A l \in Stored(b) : l \in Lsn
  BY ZenonT(30) DEF Drained, Stored
<1>8. ASSUME NEW l \in Stored(b), l <= H PROVE Has(b, l)' \/ Carried(b, l, n + 1)'
  <2>1. CASE l \in Drained(b)
    <3>1. <<ops'[b][l], l>> \in m.ops
      BY ZenonT(30), <1>5, <1>6, <2>1
    <3>2. n + 1 \in 1..(n + 1)
      OBVIOUS
    <3> QED
      BY ZenonT(30), <1>4, <1>5, <3>1, <3>2 DEF Carried
  <2>2. CASE l \notin Drained(b)
    <3>1. lastSeen[b] # None /\ l <= lastSeen[b]
      <4>1. lastSeen[b] \in Lsn \cup {None} /\ l \in Lsn
        BY ZenonT(30), <1>7 DEF TypeOK
      <4> QED
        BY <4>1, <2>2 DEF Drained, ScanFrom, Lsn, None
    <3>2. Has(b, l) \/ Carried(b, l, n)
      BY ZenonT(30), <1>3, <3>1 DEF DeliveryInv, CursorComplete
    <3>3. Has(b, l) => Has(b, l)'
      BY <1>6, <1>7, HasStable, ZenonT(30)
    <3>4. Carried(b, l, n) => Carried(b, l, n)'
      BY ZenonT(30), <1>4, <1>6, <1>7, CarriedStable
    <3>5. Carried(b, l, n)' => Carried(b, l, n + 1)'
      BY DEF Carried
    <3> QED
      BY ZenonT(30), <3>2, <3>3, <3>4, <3>5
  <2> QED
    BY ZenonT(30), <2>1, <2>2
<1>9. Stored(b)' = Stored(b)
  BY ZenonT(30), <1>6, StoredSame
<1>10. \A i \in 1..Len(s2c') : s2c'[i].type = "Delta" => DeltaComplete(i)'
  <2> SUFFICES ASSUME NEW i \in 1..(n + 1), s2c'[i].type = "Delta" PROVE DeltaComplete(i)'
    BY <1>4
  <2>1. CASE i \in 1..n
    <3>1. s2c[i].type = "Delta" /\ DeltaComplete(i)
      BY ZenonT(30), <1>3, <1>4, <2>1 DEF DeliveryInv
    <3>2. s2c \in Seq(ServerFrames)
      BY ZenonT(30) DEF TypeOK
    <3>3. n \in Nat /\ n <= Len(s2c) /\ i \in 1..n /\ \A k \in 1..n : s2c'[k] = s2c[k]
      BY <1>3, <1>4, <2>1
    <3>4. UNCHANGED ops /\ \A c \in Buckets : received[c] \subseteq received'[c]
      BY ZenonT(30), <1>6
    <3> QED
      BY ZenonT(30), <3>1, <3>2, <3>3, <3>4, DeltaStable
  <2>2. CASE i = n + 1
    <3>1. m.lsn \in Stored(b) /\ <<ops[b][m.lsn], m.lsn>> \in m.ops
      BY ZenonT(30), <1>2, <1>5, <1>7
    <3>2. \A o \in m.ops : o[2] \in Stored(b) /\ o[2] <= m.lsn
      BY <1>2, <1>5, <1>7
    <3>3. s2c'[i] = m /\ i = n + 1
      BY ZenonT(30), <1>4, <2>2
    <3> QED
      BY ZenonT(30), <1>5, <1>6, <1>8, <1>9, <3>1, <3>2, <3>3 DEF DeltaComplete
  <2> QED
    BY <2>1, <2>2
<1>11. \A c \in Buckets : lastSeen'[c] # None => CursorComplete(c)'
  <2> SUFFICES ASSUME NEW c \in Buckets, lastSeen'[c] # None PROVE CursorComplete(c)'
    BY ZenonT(30)
  <2>1. CASE c = b
    <3>1. lastSeen'[b] = H
      BY ZenonT(30), <1>4 DEF TypeOK
    <3> QED
      BY ZenonT(30), <1>2, <1>4, <1>7, <1>8, <1>9, <2>1, <3>1 DEF CursorComplete
  <2>2. CASE c # b
    <3>1. lastSeen'[c] = lastSeen[c] /\ CursorComplete(c)
      BY ZenonT(30), <1>4, <2>2 DEF DeliveryInv, TypeOK
    <3>2. Len(s2c) \in Nat /\ Len(s2c') \in Nat /\ Len(s2c) <= Len(s2c')
      BY <1>3, <1>4
    <3>3. \A i \in 1..Len(s2c) : s2c'[i] = s2c[i]
      BY ZenonT(30), <1>3, <1>4
    <3>4. UNCHANGED ops /\ \A d \in Buckets : received[d] \subseteq received'[d]
      BY ZenonT(30), <1>6
    <3> QED
      BY ZenonT(30), <3>1, <3>2, <3>3, <3>4, CursorStable
  <2> QED
    BY ZenonT(30), <2>1, <2>2
<1>12. \A c \in Buckets : Stored(c)' = Stored(c)
  BY ZenonT(30), <1>6, StoredSame
<1>13. SafePosition(lastLsn)'
  <2>1. PICK p \in Lsn \cup {None} : p = lastLsn
    BY ZenonT(30) DEF TypeOK
  <2> QED
    BY ZenonT(30), <1>6, <2>1, HasStable DEF DeliveryInv
<1>14. \A i \in 1..Len(c2s') : SafePosition(Position(c2s[i]))'
  <2> SUFFICES ASSUME NEW i \in 1..Len(c2s) PROVE SafePosition(Position(c2s[i]))'
    BY ZenonT(30), <1>6
  <2>1. c2s[i] \in ClientFrames
    BY ZenonT(30), ElementOfSeq DEF TypeOK
  <2>2. Position(c2s[i]) \in Lsn \cup {None}
    BY ZenonT(30), <2>1, FrameTypes DEF Position, ClientFrames
  <2>3. PICK p \in Lsn \cup {None} : p = Position(c2s[i]) /\ p = Position(c2s'[i])
    BY ZenonT(30), <1>6, <2>2
  <2> QED
    BY ZenonT(30), <1>6, <2>3, HasStable DEF DeliveryInv
<1> QED
  BY <1>6, <1>10, <1>11, <1>12, <1>13, <1>14 DEF DeliveryInv

-----------------------------------------------------------------------------
(* The pipeline appends an operation, at the frontier or above it.         *)

\* The router appends above every stored LSN, so no position becomes unsafe.
LEMMA RouteStep ==
  ASSUME MaxEpoch = 1, DeliveryInv, TypeOK, RouteOp
  PROVE  DeliveryInv'
<1>1. PICK d \in Buckets, k \in Lsn : AppendOp(d, k)
  BY ZenonT(30) DEF RouteOp
<1>2. /\ UNCHANGED received /\ UNCHANGED lastLsn /\ UNCHANGED s2c /\ UNCHANGED c2s /\ UNCHANGED lastSeen
  BY ZenonT(30) DEF RouteOp, serverVars, clientVars
<1>3. \A b \in Buckets : \A l \in Stored(b) : l \in Lsn /\ ops[b][l] = 1
  BY ZenonT(30), OneEpoch
<1>4. /\ frontier' = k /\ k >= frontier
      /\ ops' = [ops EXCEPT ![d][k] = 1]
  BY ZenonT(30), <1>1, OneEpoch DEF AppendOp
<1>5. \A b \in Buckets : \A l \in Stored(b) : ops'[b][l] = ops[b][l]
  BY ZenonT(30), <1>3, <1>4 DEF TypeOK, FeedTypeOK
<1>6. \A b \in Buckets : /\ Stored(b) \subseteq Stored(b)'
                         /\ \A l \in Stored(b)' : l \in Stored(b) \/ (b = d /\ l = k)
  BY <1>4 DEF TypeOK, FeedTypeOK, Stored, Absent
<1>7. \A b \in Buckets : \A l \in Stored(b) : l <= frontier /\ l <= k
  BY <1>3, <1>4 DEF DeliveryInv, TypeOK, FeedTypeOK, Lsn, None
<1>8. \A b \in Buckets : \A l \in Stored(b) : Has(b, l) => Has(b, l)'
  BY ZenonT(30), <1>2, <1>5 DEF Has
<1>9. \A b \in Buckets, n \in Nat : \A l \in Stored(b) : Carried(b, l, n) => Carried(b, l, n)'
  BY <1>2, <1>5 DEF Carried
<1>10. ASSUME NEW p \in Lsn \cup {None}, SafePosition(p) PROVE SafePosition(p)'
  <2>1. CASE p = None
    BY ZenonT(30), <2>1 DEF SafePosition
  <2>2. CASE p # None
    <3>1. PICK c \in Buckets : p \in Stored(c) /\ <<ops[c][p], p>> \in received[c]
      BY ZenonT(30), <1>10, <2>2 DEF SafePosition
    <3>2. p \in Stored(c)' /\ <<ops'[c][p], p>> \in received'[c]
      BY ZenonT(30), <1>2, <1>5, <1>6, <3>1
    <3>3. ASSUME NEW b \in Buckets, NEW l \in Stored(b)', l <= p PROVE Has(b, l)'
      <4>1. CASE l \in Stored(b)
        BY ZenonT(30), <1>8, <1>10, <2>2, <3>3, <4>1 DEF SafePosition
      <4>2. CASE l \notin Stored(b)
        <5>1. b = d /\ l = k /\ p = k
          BY <1>6, <1>7, <3>1, <3>3, <4>2 DEF Lsn
        <5>2. c # b
          BY ZenonT(30), <3>1, <4>2, <5>1
        <5>3. <<ops'[c][p], p>>[2] = p
          BY ZenonT(30)
        <5> QED
          BY <3>2, <3>3, <5>2, <5>3 DEF Has
      <4> QED
        BY ZenonT(30), <4>1, <4>2
    <3> QED
      BY ZenonT(30), <3>2, <3>3 DEF SafePosition
  <2> QED
    BY ZenonT(30), <2>1, <2>2
<1>11. \A b \in Buckets : \A l \in Stored(b)' : l <= frontier'
  BY <1>4, <1>6, <1>7 DEF Lsn
<1>12. \A b \in Buckets : \A o \in received'[b] : o[2] \in Stored(b)'
  BY ZenonT(30), <1>2, <1>6 DEF DeliveryInv
<1>13. SafePosition(lastLsn)'
  <2>1. PICK p \in Lsn \cup {None} : p = lastLsn
    BY ZenonT(30) DEF TypeOK
  <2> QED
    BY ZenonT(30), <1>2, <1>10, <2>1 DEF DeliveryInv
<1>14. \A i \in 1..Len(c2s') : SafePosition(Position(c2s[i]))'
  <2> SUFFICES ASSUME NEW i \in 1..Len(c2s) PROVE SafePosition(Position(c2s[i]))'
    BY ZenonT(30), <1>2
  <2>1. PICK p \in Lsn \cup {None} : p = Position(c2s[i]) /\ p = Position(c2s'[i])
    BY <1>2, ElementOfSeq, FrameTypes DEF TypeOK, Position, ClientFrames
  <2> QED
    BY ZenonT(30), <1>10, <2>1 DEF DeliveryInv
<1>15. \A i \in 1..Len(s2c') : s2c'[i].type = "Delta" => DeltaComplete(i)'
  <2> SUFFICES ASSUME NEW i \in 1..Len(s2c), s2c[i].type = "Delta" PROVE DeltaComplete(i)'
    BY ZenonT(30), <1>2
  <2>1. PICK m \in ServerFrames : m = s2c[i] /\ m = s2c'[i]
    BY ZenonT(30), <1>2, ElementOfSeq DEF TypeOK
  <2>2. PICK b \in Buckets : b = m.bucket
    BY ZenonT(30), <2>1, FrameTypes
  <2>3. DeltaComplete(i)
    BY ZenonT(30) DEF DeliveryInv
  <2>4. /\ m.lsn \in Stored(b)
        /\ <<ops[b][m.lsn], m.lsn>> \in m.ops
        /\ \A o \in m.ops : o[2] \in Stored(b) /\ o[2] <= m.lsn
        /\ \A l \in Stored(b) : l <= m.lsn => Has(b, l) \/ Carried(b, l, i)
    BY ZenonT(30), <2>1, <2>2, <2>3 DEF DeltaComplete
  <2>5. i \in Nat
    BY LenProperties DEF TypeOK
  <2>6. ASSUME NEW l \in Stored(b)', l <= m.lsn PROVE Has(b, l)' \/ Carried(b, l, i)'
    <3>1. l \in Stored(b)
      BY <1>6, <1>7, <2>4, <2>6, <1>3 DEF Lsn
    <3> QED
      BY ZenonT(30), <1>8, <1>9, <2>4, <2>5, <2>6, <3>1
  <2> QED
    BY ZenonT(30), <1>5, <1>6, <2>1, <2>2, <2>4, <2>6 DEF DeltaComplete
<1>16. \A b \in Buckets : lastSeen'[b] # None => CursorComplete(b)'
  <2> SUFFICES ASSUME NEW b \in Buckets, lastSeen[b] # None PROVE CursorComplete(b)'
    BY ZenonT(30), <1>2
  <2>1. CursorComplete(b) /\ lastSeen[b] \in Lsn
    BY ZenonT(30) DEF DeliveryInv, TypeOK
  <2>2. PICK n \in Nat : n = Len(s2c) /\ n = Len(s2c')
    BY ZenonT(30), <1>2, LenProperties DEF TypeOK
  <2>3. lastSeen'[b] \in Stored(b)'
          \/ \E c \in Buckets \ {b} : \E o \in received'[c] : lastSeen'[b] <= o[2]
    BY ZenonT(30), <1>2, <1>6, <2>1 DEF CursorComplete
  <2>4. ASSUME NEW l \in Stored(b)', l <= lastSeen[b] PROVE Has(b, l)' \/ Carried(b, l, n)'
    <3>1. CASE l \in Stored(b)
      BY ZenonT(30), <1>8, <1>9, <2>1, <2>2, <2>4, <3>1 DEF CursorComplete
    <3>2. CASE l \notin Stored(b)
      <4>1. l = k /\ lastSeen[b] \notin Stored(b)
        BY <1>6, <1>7, <2>1, <2>4, <3>2 DEF Lsn
      <4> PICK c \in Buckets \ {b} : \E o \in received[c] : lastSeen[b] <= o[2]
        BY ZenonT(30), <2>1, <4>1 DEF CursorComplete
      <4>2. PICK o \in received[c] : lastSeen[b] <= o[2]
        BY ZenonT(30)
      <4>3. o[2] \in Lsn
        BY ZenonT(30), <1>3, <4>2 DEF DeliveryInv
      <4>4. l <= o[2]
        BY <2>1, <2>4, <4>1, <4>2, <4>3 DEF Lsn
      <4> QED
        BY ZenonT(30), <1>2, <4>2, <4>4 DEF Has
    <3> QED
      BY ZenonT(30), <3>1, <3>2
  <2> QED
    BY ZenonT(30), <1>2, <2>2, <2>3, <2>4 DEF CursorComplete
<1> QED
  BY ZenonT(30), <1>11, <1>12, <1>13, <1>14, <1>15, <1>16 DEF DeliveryInv

-----------------------------------------------------------------------------
(* The invariant is inductive.                                             *)

\* Without a connection there is no session and nothing is in flight.
IdleInv == conn = "down" => s2c = <<>> /\ \A b \in Buckets : lastSeen[b] = None

\* Before the first connection nothing is in flight.
LEMMA IdleInit == Init => IdleInv
BY ZenonT(30) DEF Init, IdleInv

\* The end of a connection discards its frames and its cursors.
LEMMA IdleNext == IdleInv /\ [Next]_vars => IdleInv'
<1> SUFFICES ASSUME IdleInv, [Next]_vars PROVE IdleInv'
  BY ZenonT(30)
<1>1. CASE Connect \/ Handshake \/ PollTick \/ HandleAck \/ RefuseSubscribe
  BY ZenonT(30), <1>1 DEF Connect, Handshake, PollTick, HandleAck, RefuseSubscribe, IdleInv, serverVars
<1>2. ASSUME NEW b \in Buckets, DeliverSnapshot(b) \/ PollBucket(b) PROVE IdleInv'
  BY ZenonT(30), <1>2 DEF DeliverSnapshot, PollBucket, IdleInv
<1>3. CASE ReceiveDelta \/ ReceiveSnapshot \/ ReceiveError \/ Subscribe \/ RouteOp \/ UNCHANGED vars
  BY ZenonT(30), <1>3 DEF ReceiveDelta, ReceiveSnapshot, ReceiveError, Subscribe, RouteOp, IdleInv, serverVars, vars
<1>4. CASE Drop \/ ServerRestart
  BY ZenonT(30), <1>4 DEF Drop, ServerRestart, CloseConnection, IdleInv
<1> QED
  BY ZenonT(30), <1>1, <1>2, <1>3, <1>4 DEF Next

\* The end of a connection keeps the delivery invariant.
LEMMA CloseStep ==
  ASSUME DeliveryInv, TypeOK, UNCHANGED <<feedVars, clientVars>>, CloseConnection
  PROVE  DeliveryInv'
<1>1. UNCHANGED ops /\ UNCHANGED frontier /\ UNCHANGED received /\ UNCHANGED lastLsn
  BY ZenonT(30) DEF feedVars, clientVars
<1>2. Len(s2c') = 0 /\ Len(c2s') = 0 /\ \A b \in Buckets : lastSeen'[b] = None
  BY ZenonT(30) DEF CloseConnection
<1>3. \A b \in Buckets : Stored(b)' = Stored(b)
  BY ZenonT(30), <1>1, StoredSame
<1>4. SafePosition(lastLsn)'
  <2>1. PICK p \in Lsn \cup {None} : p = lastLsn
    BY ZenonT(30) DEF TypeOK
  <2> QED
    BY ZenonT(30), <1>1, <2>1, HasStable DEF DeliveryInv
<1>5. /\ \A b \in Buckets : \A l \in Stored(b) : l <= frontier
      /\ \A b \in Buckets : \A o \in received[b] : o[2] \in Stored(b)
  BY ZenonT(30) DEF DeliveryInv
<1>6. /\ \A b \in Buckets : \A l \in Stored(b)' : l <= frontier'
      /\ \A b \in Buckets : \A o \in received'[b] : o[2] \in Stored(b)'
  BY ZenonT(30), <1>1, <1>3, <1>5
<1>7. \A i \in 1..Len(s2c') : FALSE
  BY <1>2
<1>8. \A i \in 1..Len(c2s') : FALSE
  BY <1>2
<1> QED
  BY ZenonT(30), <1>2, <1>4, <1>6, <1>7, <1>8 DEF DeliveryInv

\* The positions in flight to the gateway are well typed and safe.
LEMMA PositionsInFlight ==
  ASSUME DeliveryInv, TypeOK
  PROVE  /\ Len(c2s) \in Nat
         /\ \A i \in 1..Len(c2s) :
              Position(c2s[i]) \in Lsn \cup {None} /\ SafePosition(Position(c2s[i]))
         /\ c2s # <<>> => /\ Len(Tail(c2s)) \in Nat
                          /\ \A i \in 1..Len(Tail(c2s)) : /\ Position(Tail(c2s)[i]) \in Lsn \cup {None}
                                                          /\ SafePosition(Position(Tail(c2s)[i]))
                          /\ Head(c2s) = c2s[1] /\ 1 \in 1..Len(c2s)
<1>1. Len(c2s) \in Nat /\ c2s \in Seq(ClientFrames)
  BY ZenonT(30), LenProperties DEF TypeOK
<1>2. ASSUME NEW i \in 1..Len(c2s)
      PROVE Position(c2s[i]) \in Lsn \cup {None} /\ SafePosition(Position(c2s[i]))
  <2>1. c2s[i] \in ClientFrames
    BY ZenonT(30), <1>1, ElementOfSeq
  <2> QED
    BY ZenonT(30), <2>1, FrameTypes DEF DeliveryInv, Position, ClientFrames
<1>3. ASSUME c2s # <<>>
      PROVE  /\ Len(Tail(c2s)) \in Nat /\ Head(c2s) = c2s[1] /\ 1 \in 1..Len(c2s)
             /\ \A i \in 1..Len(Tail(c2s)) : Tail(c2s)[i] = c2s[i + 1] /\ i + 1 \in 1..Len(c2s)
  BY <1>1, <1>3, HeadTailProperties, HeadIsFirst
<1> QED
  BY ZenonT(30), <1>1, <1>2, <1>3

\* Every step of one server process and its client keeps the delivery invariant.
LEMMA DeliveryNext ==
  ASSUME MaxEpoch = 1, TypeInv, TypeOK', IdleInv, DeliveryInv, [Next]_vars
  PROVE  DeliveryInv'
<1> USE DEF TypeInv
<1>1. CASE Connect
  <2>1. UNCHANGED <<feedVars, received, lastLsn>> /\ s2c' = s2c /\ UNCHANGED lastSeen
    BY ZenonT(30), <1>1 DEF Connect, IdleInv, clientVars
  <2>2. Len(c2s') = 1 /\ Position(c2s'[1]) = lastLsn
    BY ZenonT(30), <1>1 DEF Connect, SubscribeFrame, Position
  <2>3. \A i \in 1..Len(c2s') : Position(c2s'[i]) \in Lsn \cup {None} /\ SafePosition(Position(c2s'[i]))
    <3>1. lastLsn \in Lsn \cup {None} /\ SafePosition(lastLsn)
      BY ZenonT(30) DEF DeliveryInv, TypeOK
    <3>2. \A i \in 1..Len(c2s') : i = 1
      BY <2>2
    <3> QED
      BY ZenonT(30), <2>2, <3>1, <3>2
  <2> QED
    BY <2>1, <2>2, <2>3, QuietStep
<1>2. CASE Handshake
  <2>1. Head(c2s).type = "Subscribe" /\ c2s # <<>>
    BY ZenonT(30), <1>2 DEF Handshake, HandshakeReadsSubscribe
  <2>2. Head(c2s).resume \in Lsn \cup {None} /\ SafePosition(Head(c2s).resume)
    BY ZenonT(30), <2>1, PositionsInFlight DEF Position
  <2>3. \A b \in Buckets : lastSeen'[b] = None \/ lastSeen'[b] = Head(c2s).resume
    BY ZenonT(30), <1>2 DEF Handshake
  <2>4. /\ UNCHANGED <<feedVars, received, lastLsn>> /\ s2c' = s2c /\ c2s' = Tail(c2s)
    BY ZenonT(30), <1>2 DEF Handshake, clientVars
  <2>5. \A b \in Buckets : lastSeen'[b] = None \/ (lastSeen'[b] \in Lsn /\ SafePosition(lastSeen'[b]))
    BY ZenonT(30), <2>2, <2>3
  <2> QED
    BY ZenonT(30), <2>1, <2>4, <2>5, PositionsInFlight, QuietStep
<1>3. CASE PollTick
  <2>1. UNCHANGED <<feedVars, received, lastLsn>> /\ UNCHANGED <<s2c, c2s, lastSeen>>
    BY <1>3 DEF PollTick, clientVars
  <2> QED
    BY ZenonT(30), <2>1, PositionsInFlight, QuietStep
<1>4. CASE HandleAck
  <2>1. Head(c2s).type = "Ack" /\ c2s # <<>>
    BY ZenonT(30), <1>4 DEF HandleAck
  <2>2. Head(c2s).lsn \in Lsn /\ SafePosition(Head(c2s).lsn)
    <3>1. Head(c2s) \in ClientFrames
      BY ZenonT(30), <2>1, HeadTailProperties DEF TypeOK
    <3> QED
      BY ZenonT(30), <2>1, <3>1, FrameTypes, PositionsInFlight DEF Position
  <2>3. \A b \in Buckets : lastSeen'[b] = lastSeen[b] \/ lastSeen'[b] = Head(c2s).lsn
    BY ZenonT(30), <1>4 DEF HandleAck, RaiseAll
  <2>4. UNCHANGED <<feedVars, received, lastLsn>> /\ s2c' = s2c /\ c2s' = Tail(c2s)
    BY ZenonT(30), <1>4 DEF HandleAck, clientVars
  <2>5. \A b \in Buckets : lastSeen'[b] = lastSeen[b] \/ (lastSeen'[b] \in Lsn /\ SafePosition(lastSeen'[b]))
    BY ZenonT(30), <2>2, <2>3
  <2> QED
    BY <2>1, <2>4, <2>5, PositionsInFlight, QuietStep
<1>5. CASE RefuseSubscribe
  <2>1. /\ UNCHANGED <<feedVars, received, lastLsn>> /\ UNCHANGED lastSeen
        /\ s2c' = Append(s2c, ErrorFrame) /\ c2s # <<>> /\ c2s' = Tail(c2s)
    BY ZenonT(30), <1>5 DEF RefuseSubscribe, clientVars, serverVars
  <2>2. ErrorFrame \in ServerFrames /\ ErrorFrame.type # "Delta"
    BY ZenonT(30), FrameTypes DEF ErrorFrame
  <2> QED
    BY ZenonT(30), <2>1, <2>2, PositionsInFlight, QuietStep
<1>6. ASSUME NEW b \in Buckets, DeliverSnapshot(b) PROVE DeliveryInv'
  <2>1. /\ UNCHANGED <<feedVars, received, lastLsn>> /\ UNCHANGED <<lastSeen, c2s>>
        /\ s2c' = Append(s2c, SnapshotFrame(b))
    BY ZenonT(30), <1>6 DEF DeliverSnapshot, clientVars
  <2>2. SnapshotFrame(b) \in ServerFrames /\ SnapshotFrame(b).type # "Delta"
    BY ZenonT(30), FrameTypes DEF SnapshotFrame
  <2> QED
    BY ZenonT(30), <2>1, <2>2, PositionsInFlight, QuietStep
<1>7. ASSUME NEW b \in Buckets, PollBucket(b) PROVE DeliveryInv'
  <2>1. CASE Drained(b) = {}
    <3>1. UNCHANGED <<feedVars, received, lastLsn>> /\ UNCHANGED <<s2c, c2s, lastSeen>>
      BY ZenonT(30), <1>7, <2>1 DEF PollBucket, clientVars
    <3> QED
      BY ZenonT(30), <3>1, PositionsInFlight, QuietStep
  <2>2. CASE Drained(b) # {}
    BY ZenonT(30), <1>7, <2>2, PollStep
  <2> QED
    BY <2>1, <2>2
<1>8. CASE ReceiveDelta
  BY ZenonT(30), <1>8, ReceiveDeltaStep
<1>9. CASE ReceiveSnapshot \/ ReceiveError
  <2>1. /\ UNCHANGED <<feedVars, lastSeen>> /\ UNCHANGED <<c2s, received, lastLsn>>
        /\ s2c # <<>> /\ s2c' = Tail(s2c) /\ Head(s2c).type # "Delta"
    BY ZenonT(30), <1>9 DEF ReceiveSnapshot, ReceiveError, serverVars, clientVars
  <2>2. s2c[1].type # "Delta"
    BY ZenonT(30), <2>1, HeadIsFirst DEF TypeOK
  <2>3. /\ \A i \in 1..Len(s2c') : s2c'[i].type = "Delta" => DeltaComplete(i)'
        /\ \A b \in Buckets : lastSeen'[b] # None => CursorComplete(b)'
    BY ZenonT(30), <2>1, <2>2, PopStep
  <2>4. UNCHANGED ops /\ UNCHANGED frontier /\ \A b \in Buckets : Stored(b)' = Stored(b)
    BY ZenonT(30), <2>1, StoredSame DEF feedVars
  <2>5. \A p \in Lsn \cup {None} : SafePosition(p) => SafePosition(p)'
    BY ZenonT(30), <2>1, <2>4, HasStable
  <2>6. SafePosition(lastLsn)'
    <3>1. PICK p \in Lsn \cup {None} : p = lastLsn
      BY ZenonT(30) DEF TypeOK
    <3> QED
      BY ZenonT(30), <2>1, <2>5, <3>1 DEF DeliveryInv
  <2>7. \A i \in 1..Len(c2s') : SafePosition(Position(c2s[i]))'
    <3> SUFFICES ASSUME NEW i \in 1..Len(c2s) PROVE SafePosition(Position(c2s[i]))'
      BY ZenonT(30), <2>1
    <3>1. PICK p \in Lsn \cup {None} : p = Position(c2s[i]) /\ p = Position(c2s'[i]) /\ SafePosition(p)
      BY ZenonT(30), <2>1, PositionsInFlight
    <3> QED
      BY ZenonT(30), <2>5, <3>1
  <2> QED
    BY ZenonT(30), <2>1, <2>3, <2>4, <2>6, <2>7 DEF DeliveryInv
<1>10. CASE Subscribe
  <2>1. UNCHANGED <<feedVars, received, lastLsn>> /\ UNCHANGED <<lastSeen, s2c>>
    BY ZenonT(30), <1>10 DEF Subscribe, serverVars
  <2>2. CASE conn = "down"
    <3>1. c2s' = c2s
      BY ZenonT(30), <1>10, <2>2 DEF Subscribe
    <3> QED
      BY ZenonT(30), <2>1, <3>1, PositionsInFlight, QuietStep
  <2>3. CASE conn # "down"
    <3>1. c2s' = Append(c2s, SubscribeFrame(requested', lastLsn))
      BY ZenonT(30), <1>10, <2>3 DEF Subscribe
    <3>2. requested' \in SUBSET Buckets
      BY ZenonT(30) DEF TypeOK
    <3>3. SubscribeFrame(requested', lastLsn) \in ClientFrames
      BY ZenonT(30), <3>2, FrameTypes DEF TypeOK
    <3>4. Position(SubscribeFrame(requested', lastLsn)) = lastLsn
      BY DEF Position, SubscribeFrame
    <3>5. c2s \in Seq(ClientFrames) /\ Len(c2s) \in Nat
      BY ZenonT(30), PositionsInFlight DEF TypeOK
    <3>6. /\ Len(c2s') = Len(c2s) + 1
          /\ \A i \in 1..Len(c2s) : c2s'[i] = c2s[i]
          /\ c2s'[Len(c2s) + 1] = SubscribeFrame(requested', lastLsn)
      BY <3>1, <3>3, <3>5, AppendProperties
    <3>7. \A i \in 1..Len(c2s') : Position(c2s'[i]) \in Lsn \cup {None} /\ SafePosition(Position(c2s'[i]))
      <4> SUFFICES ASSUME NEW i \in 1..Len(c2s')
                   PROVE  Position(c2s'[i]) \in Lsn \cup {None} /\ SafePosition(Position(c2s'[i]))
        BY ZenonT(30)
      <4>1. CASE i \in 1..Len(c2s)
        BY ZenonT(30), <3>6, <4>1, PositionsInFlight
      <4>2. CASE i = Len(c2s) + 1
        BY ZenonT(30), <3>4, <3>6, <4>2 DEF DeliveryInv, TypeOK
      <4> QED
        BY <3>5, <3>6, <4>1, <4>2
    <3> QED
      BY <2>1, <3>5, <3>6, <3>7, QuietStep
  <2> QED
    BY ZenonT(30), <2>2, <2>3
<1>11. CASE Drop
  BY ZenonT(30), <1>11, CloseStep DEF Drop
<1>12. CASE ServerRestart
  BY ZenonT(30), <1>12, OneEpoch DEF ServerRestart
<1>13. CASE RouteOp
  BY <1>13, RouteStep
<1>14. CASE UNCHANGED vars
  <2>1. UNCHANGED <<feedVars, received, lastLsn>> /\ UNCHANGED <<s2c, c2s, lastSeen>>
    BY ZenonT(30), <1>14 DEF vars, clientVars, serverVars
  <2> QED
    BY ZenonT(30), <2>1, PositionsInFlight, QuietStep
<1> QED
  BY ZenonT(30), <1>1, <1>2, <1>3, <1>4, <1>5, <1>6, <1>7, <1>8, <1>9, <1>10, <1>11, <1>12, <1>13, <1>14 DEF Next

-----------------------------------------------------------------------------
(* The results.                                                            *)

\* The delivery invariant implies the property: an operation below a cursor
\* is on its way, with the client, or passed over for another bucket.
LEMMA DeliveryGivesSkipped ==
  ASSUME TypeOK, DeliveryInv
  PROVE  SkippedOnlyByAnotherBucket
<1> SUFFICES ASSUME NEW b \in authorized, NEW l \in Stored(b), l <= lastSeen[b]
             PROVE  \/ Delivered(b, l)
                    \/ \E c \in Buckets \ {b} : \E o \in received[c] : l <= o[2]
  BY ZenonT(30) DEF SkippedOnlyByAnotherBucket
<1>1. b \in Buckets /\ lastSeen[b] # None
  BY DEF TypeOK, Stored, Lsn, None
<1>2. Has(b, l) \/ Carried(b, l, Len(s2c))
  BY ZenonT(30), <1>1 DEF DeliveryInv, CursorComplete
<1>3. Carried(b, l, Len(s2c)) => <<ops[b][l], l>> \in InFlight(b)
  BY ZenonT(30) DEF Carried, InFlight, Frames
<1> QED
  BY ZenonT(30), <1>2, <1>3 DEF Has, Delivered

\* Within one server process, for any number of buckets: poll_deltas() passes
\* over an undelivered operation of a bucket only if the client acknowledged
\* another bucket at that LSN or above.
THEOREM SkippedOnlyByAnotherBucketCorrect ==
  ASSUME MaxEpoch = 1
  PROVE  Spec => []SkippedOnlyByAnotherBucket
<1>1. Init => TypeInv /\ IdleInv /\ DeliveryInv
  BY ZenonT(30), TypeInvInit, IdleInit, DeliveryInit
<1>2. TypeInv /\ IdleInv /\ DeliveryInv /\ [Next]_vars => (TypeInv /\ IdleInv /\ DeliveryInv)'
  <2> SUFFICES ASSUME TypeInv, IdleInv, DeliveryInv, [Next]_vars
               PROVE  TypeInv' /\ IdleInv' /\ DeliveryInv'
    BY ZenonT(30)
  <2>1. TypeInv' /\ IdleInv'
    BY ZenonT(30), TypeInvNext, IdleNext
  <2>2. TypeOK'
    BY ZenonT(30), <2>1 DEF TypeInv
  <2> QED
    BY ZenonT(30), <2>1, <2>2, DeliveryNext
<1>3. TypeInv /\ IdleInv /\ DeliveryInv => SkippedOnlyByAnotherBucket
  BY ZenonT(30), DeliveryGivesSkipped DEF TypeInv
<1> QED
  BY <1>1, <1>2, <1>3, PTL DEF Spec

\* With a single bucket, last_seen_lsn of poll_deltas() is
\* what its comment says: everything stored up to it has been delivered.
THEOREM NoSkippedOpsOneBucket ==
  ASSUME MaxEpoch = 1, \A b, c \in Buckets : b = c
  PROVE  Spec => []NoSkippedOps
<1>1. TypeInv /\ SkippedOnlyByAnotherBucket => NoSkippedOps
  BY DEF TypeInv, TypeOK, SkippedOnlyByAnotherBucket, NoSkippedOps
<1>2. Spec => []SkippedOnlyByAnotherBucket
  BY ZenonT(30), SkippedOnlyByAnotherBucketCorrect
<1> QED
  BY <1>1, <1>2, TypeInvInit, TypeInvNext, PTL DEF Spec
=============================================================================
