-------------------------- MODULE SyncClientProofs ---------------------------
(***************************************************************************)
(* The client keeps one line of work per subscribe() call, for any number  *)
(* of sockets, calls and failures: an invariant over the promises, timers  *)
(* and sockets of client.ts and reconnect.ts.                              *)
(***************************************************************************)
EXTENDS SyncClient, FiniteSetTheorems, TLAPS

\* A leaf that names no prover is tried with these.
USE SMTT(30), ZenonT(30)

One(b) == IF b THEN 1 ELSE 0

\* A client of one call has one line of work (a promise, a timer or a socket),
\* so its only socket is the one in this.ws;
\* nothing but disconnect() sets explicitlyDisconnected.
OneLine ==
  /\ disconnects = 0 => ~explicitlyDisconnected
  /\ OneCall => Live \subseteq {ws}

Inv == TypeOK /\ ConnectionPerCall /\ NeverStranded /\ OneLine /\ SubscribedAndHonest

-----------------------------------------------------------------------------
(* Lemmas.                                                                 *)

\* The live sockets are finitely many.
LEMMA LiveFinite ==
  /\ IsFiniteSet(Live) /\ Cardinality(Live) \in Nat
  /\ Cardinality(Live) = 0 <=> Live = {}
<1>1. IsFiniteSet(Live)
  BY ClientAssumption, FS_Subset DEF Live
<1> QED BY <1>1, FS_CardinalityType, FS_EmptySet

\* The same of the next state.
LEMMA LiveFiniteNext ==
  /\ IsFiniteSet(Live') /\ Cardinality(Live') \in Nat
  /\ Cardinality(Live') = 0 <=> Live' = {}
<1>1. IsFiniteSet(Live')
  BY ClientAssumption, FS_Subset DEF Live
<1> QED BY <1>1, FS_CardinalityType, FS_EmptySet

\* A socket that is created is one more.
LEMMA LiveAdded ==
  ASSUME NEW s, s \notin Live, Live' = Live \cup {s}
  PROVE  Cardinality(Live') = Cardinality(Live) + 1
BY LiveFinite, FS_AddElement

\* A socket that is closed is one less.
LEMMA LiveRemoved ==
  ASSUME NEW s \in Live, Live' = Live \ {s}
  PROVE  Cardinality(Live') = Cardinality(Live) - 1
BY LiveFinite, FS_RemoveElement

\* The free identity that connect() gives a new socket.
LEMMA NewSocketFree ==
  ASSUME \E s \in Sockets \ {ws} : sock[s] = "closed"
  PROVE  NewSocket \in Sockets /\ NewSocket # ws /\ sock[NewSocket] = "closed"
BY DEF NewSocket

\* With one call, a line of work that is no socket is the only one.
LEMMA OnlyLine ==
  ASSUME Inv, OneCall, pending["connect"] > 0 \/ timer \/ lost > 0
  PROVE  Live = {}
<1>1. /\ pending["connect"] \in Nat /\ lost \in Nat /\ timer \in BOOLEAN
      /\ pending["connect"] + (IF timer THEN 1 ELSE 0) + lost + Cardinality(Live) <= 1
  BY DEF Inv, TypeOK, Awaiting, ConnectionPerCall, OneCall
<1> QED BY <1>1, LiveFinite

-----------------------------------------------------------------------------
(* Type correctness.                                                       *)

\* The awaited promises stay counted when one is added or settles.
LEMMA PendingType ==
  ASSUME TypeOK, NEW a \in Awaiting, Await(a) \/ Settled(a)
  PROVE  /\ pending' \in [Awaiting -> Nat]
         /\ \A c \in Awaiting \ {a} : pending'[c] = pending[c]
         /\ Await(a) => pending'[a] = pending[a] + 1
         /\ Settled(a) => pending[a] > 0 /\ pending'[a] = pending[a] - 1
BY DEF TypeOK, Await, Settled

\* A timeout that is scheduled is one more, whether or not another is lost.
LEMMA ScheduleType ==
  ASSUME TypeOK, Schedule
  PROVE  /\ attempt' \in 0..AttemptCap /\ lost' \in Nat /\ timer' \in BOOLEAN
         /\ timer' /\ lost' = lost + One(timer)
BY DEF TypeOK, Schedule, AttemptCap, One

\* Every step keeps the types of the client's fields.
LEMMA TypeStep ==
  ASSUME TypeOK, [Next]_vars
  PROVE  TypeOK'
<1> USE DEF TypeOK, timers, calls
<1>1. CASE Subscribe
  <2>1. subscribes' \in 0..MaxSubscribes
    BY <1>1, ClientAssumption DEF Subscribe
  <2>2. /\ pending' \in [Awaiting -> Nat]
        /\ explicitlyDisconnected' \in BOOLEAN
        /\ status' \in {"connecting", "syncing", "live", "error", "disconnected"}
    BY <1>1, PendingType, ZenonT(30) DEF Subscribe, Connect, Awaiting
  <2> QED BY <1>1, <2>1, <2>2, ZenonT(30) DEF Subscribe
<1>2. CASE Disconnect
  <2>1. /\ sock' \in [Sockets -> {"connecting", "open", "closing", "closed"}]
        /\ disconnects' \in 0..MaxDisconnects
    BY <1>2, ClientAssumption DEF Disconnect
  <2> QED BY <1>2, <2>1, ZenonT(30) DEF Disconnect
<1>3. CASE ConnectToken
  <2>1. NewSocket \in Sockets
    BY <1>3, NewSocketFree DEF ConnectToken
  <2>2. pending' \in [Awaiting -> Nat]
    BY <1>3, PendingType DEF ConnectToken, Awaiting
  <2> QED BY <1>3, <2>1, <2>2 DEF ConnectToken
<1>4. CASE ConnectTokenFails
  <2>1. pending' \in [Awaiting -> Nat]
    BY <1>4, PendingType DEF ConnectTokenFails, Awaiting
  <2> QED BY <1>4, <2>1, ScheduleType, ZenonT(30) DEF ConnectTokenFails
<1>5. CASE RefreshToken
  <2>1. pending' \in [Awaiting -> Nat]
    BY <1>5, PendingType DEF RefreshToken, Awaiting
  <2> QED BY <1>5, <2>1 DEF RefreshToken, SendSubscribe, ScheduleTokenRefresh
<1>6. CASE RefreshTokenFails
  <2>1. pending' \in [Awaiting -> Nat]
    BY <1>6, PendingType DEF RefreshTokenFails, Awaiting
  <2> QED BY <1>6, <2>1, ZenonT(30) DEF RefreshTokenFails
<1>7. CASE SubscribeToken
  <2>1. pending' \in [Awaiting -> Nat]
    BY <1>7, PendingType DEF SubscribeToken, Awaiting
  <2> QED BY <1>7, <2>1 DEF SubscribeToken, SendSubscribe
<1>8. CASE SubscribeTokenFails
  <2>1. pending' \in [Awaiting -> Nat]
    BY <1>8, PendingType DEF SubscribeTokenFails, Awaiting
  <2> QED BY <1>8, <2>1, ZenonT(30) DEF SubscribeTokenFails
<1>9. ASSUME NEW s \in Sockets, Open(s) PROVE TypeOK'
  BY <1>9 DEF Open, SendSubscribe, ScheduleTokenRefresh
<1>10. ASSUME NEW s \in Sockets, HandleMessage(s) PROVE TypeOK'
  BY <1>10, ZenonT(30) DEF HandleMessage
<1>11. ASSUME NEW s \in Sockets, SocketError(s) PROVE TypeOK'
  BY <1>11 DEF SocketError
<1>12. ASSUME NEW s \in Sockets, Close(s) PROVE TypeOK'
  <2>1. /\ sock' \in [Sockets -> {"connecting", "open", "closing", "closed"}]
        /\ tok' \in [Sockets -> Tokens] /\ subs' \subseteq Sockets
    BY <1>12 DEF Close, Tokens
  <2>2. /\ attempt' \in 0..AttemptCap /\ lost' \in Nat /\ timer' \in BOOLEAN
        /\ refreshTimer' \in BOOLEAN
        /\ status' \in {"connecting", "syncing", "live", "error", "disconnected"}
    BY <1>12, ScheduleType, ZenonT(30) DEF Close, OnClose
  <2> QED BY <1>12, <2>1, <2>2, ZenonT(30) DEF Close
<1>13. CASE ReconnectFires
  <2>1. pending' \in [Awaiting -> Nat]
    BY <1>13, PendingType DEF ReconnectFires, Connect, Awaiting
  <2> QED BY <1>13, <2>1, ZenonT(30) DEF ReconnectFires, Connect
<1>14. CASE LostTimerFires
  <2>1. pending' \in [Awaiting -> Nat] /\ lost' \in Nat
    BY <1>14, PendingType DEF LostTimerFires, Connect, Awaiting
  <2> QED BY <1>14, <2>1, ZenonT(30) DEF LostTimerFires, Connect
<1>15. CASE RefreshFires
  <2>1. pending' \in [Awaiting -> Nat]
    BY <1>15, PendingType DEF RefreshFires, Awaiting
  <2> QED BY <1>15, <2>1, ZenonT(30) DEF RefreshFires
<1>16. CASE UNCHANGED vars
  BY <1>16, ZenonT(30) DEF vars
<1> QED BY <1>1, <1>2, <1>3, <1>4, <1>5, <1>6, <1>7, <1>8, <1>9, <1>10, <1>11, <1>12,
           <1>13, <1>14, <1>15, <1>16 DEF Next

-----------------------------------------------------------------------------
(* The lines of work.                                                      *)

\* What the invariant says of the lines of work depends on nothing else.
LEMMA SameLines ==
  ASSUME Inv, Live' = Live, pending'["connect"] = pending["connect"],
         UNCHANGED <<ws, timer, lost, explicitlyDisconnected, subscribes, disconnects>>
  PROVE  ConnectionPerCall' /\ NeverStranded' /\ OneLine'
BY DEF Inv, ConnectionPerCall, NeverStranded, OneLine, OneCall

\* The steps that start, end or move no line of work.
LEMMA QuietStep ==
  ASSUME Inv,
         \/ RefreshToken \/ RefreshTokenFails \/ SubscribeToken \/ SubscribeTokenFails
         \/ RefreshFires \/ UNCHANGED vars
         \/ \E s \in Sockets : Open(s) \/ HandleMessage(s) \/ SocketError(s)
  PROVE  ConnectionPerCall' /\ NeverStranded' /\ OneLine'
<1>0. TypeOK
  BY DEF Inv
<1>1. UNCHANGED <<ws, timer, lost, explicitlyDisconnected, subscribes, disconnects>>
  BY DEF RefreshToken, RefreshTokenFails, SubscribeToken, SubscribeTokenFails, RefreshFires,
         vars, Open, HandleMessage, SocketError, timers, calls
<1>2. pending'["connect"] = pending["connect"]
  <2>1. CASE RefreshToken \/ RefreshTokenFails \/ RefreshFires
    BY <1>0, <2>1, PendingType DEF RefreshToken, RefreshTokenFails, RefreshFires, Awaiting
  <2>2. CASE SubscribeToken \/ SubscribeTokenFails
    BY <1>0, <2>2, PendingType DEF SubscribeToken, SubscribeTokenFails, Awaiting
  <2>3. CASE UNCHANGED pending
    BY <2>3
  <2> QED BY <2>1, <2>2, <2>3 DEF vars, Open, HandleMessage, SocketError
<1>3. Live' = Live
  <2>1. CASE UNCHANGED sock
    BY <2>1 DEF Live
  <2>2. ASSUME NEW s \in Sockets, Open(s) PROVE Live' = Live
    BY <1>0, <2>2 DEF Open, Live, TypeOK
  <2>3. ASSUME NEW s \in Sockets, SocketError(s) PROVE Live' = Live
    BY <1>0, <2>3 DEF SocketError, Live, TypeOK
  <2> QED BY <2>1, <2>2, <2>3 DEF RefreshToken, RefreshTokenFails, SubscribeToken,
             SubscribeTokenFails, RefreshFires, vars, HandleMessage
<1> QED BY <1>1, <1>2, <1>3, SameLines

\* The counts that the invariant adds up, before and after a step.
LEMMA Counts ==
  ASSUME Inv, TypeOK'
  PROVE  /\ pending["connect"] \in Nat /\ lost \in Nat /\ One(timer) \in {0, 1}
         /\ pending'["connect"] \in Nat /\ lost' \in Nat /\ One(timer') \in {0, 1}
         /\ subscribes \in Nat /\ subscribes' \in Nat
         /\ disconnects \in Nat /\ disconnects' \in Nat
         /\ timer <=> One(timer) = 1
         /\ timer' <=> One(timer') = 1
         /\ Cardinality(Live) \in Nat /\ Cardinality(Live') \in Nat
         /\ pending["connect"] + One(timer) + lost + Cardinality(Live) <= subscribes
<1>1. TypeOK /\ ConnectionPerCall
  BY DEF Inv
<1>2. /\ pending["connect"] \in Nat /\ lost \in Nat /\ subscribes \in Nat /\ disconnects \in Nat
  BY <1>1, ClientAssumption DEF TypeOK, Awaiting
<1>3. /\ pending'["connect"] \in Nat /\ lost' \in Nat /\ subscribes' \in Nat /\ disconnects' \in Nat
  BY ClientAssumption DEF TypeOK, Awaiting
<1>4. /\ One(timer) \in {0, 1} /\ (timer <=> One(timer) = 1)
      /\ One(timer') \in {0, 1} /\ (timer' <=> One(timer') = 1)
  BY DEF One
<1>5. pending["connect"] + One(timer) + lost + Cardinality(Live) <= subscribes
  BY <1>1 DEF ConnectionPerCall, One
<1> QED BY <1>2, <1>3, <1>4, <1>5, LiveFinite, LiveFiniteNext

\* The invariant of the lines of work in the next state, from its counts.
LEMMA CountsNext ==
  ASSUME pending'["connect"] + One(timer') + lost' + Cardinality(Live') <= subscribes'
  PROVE  ConnectionPerCall'
BY DEF ConnectionPerCall, One

\* subscribe() starts a line of work only when this.ws is not open.
LEMMA SubscribeLines ==
  ASSUME Inv, TypeOK', Subscribe
  PROVE  ConnectionPerCall' /\ NeverStranded' /\ OneLine'
<1>0. TypeOK /\ NeverStranded /\ OneLine
  BY DEF Inv
<1>1. /\ subscribes' = subscribes + 1
      /\ UNCHANGED <<ws, sock, timer, lost, disconnects>>
  BY DEF Subscribe, timers
<1>2. Live' = Live
  BY <1>1 DEF Live
<1>3. /\ pending'["connect"] \in {pending["connect"], pending["connect"] + 1}
      /\ IsOpen(ws) \/ (pending'["connect"] = pending["connect"] + 1)
      /\ explicitlyDisconnected' => explicitlyDisconnected
  BY <1>0, PendingType DEF Subscribe, Connect, Awaiting
<1>4. ConnectionPerCall'
  BY <1>1, <1>2, <1>3, Counts, CountsNext
<1>5. NeverStranded'
  <2>1. IsOpen(ws) => Live # {}
    BY <1>0 DEF IsOpen, Live, TypeOK
  <2> QED BY <1>1, <1>2, <1>3, <2>1, Counts DEF NeverStranded
<1>6. OneLine'
  <2>1. OneCall' => Live = {}
    BY <1>1, Counts, LiveFinite DEF OneCall
  <2> QED BY <1>0, <1>1, <1>2, <1>3, <2>1 DEF OneLine
<1> QED BY <1>4, <1>5, <1>6

\* disconnect() ends the line that waits for the reconnect timer.
LEMMA DisconnectLines ==
  ASSUME Inv, TypeOK', Disconnect
  PROVE  ConnectionPerCall' /\ NeverStranded' /\ OneLine'
<1>0. TypeOK
  BY DEF Inv
<1>1. /\ disconnects' = disconnects + 1 /\ explicitlyDisconnected' /\ ~timer'
      /\ UNCHANGED <<pending, lost, subscribes>>
  BY DEF Disconnect
<1>2. Live' = Live
  BY <1>0 DEF Disconnect, Live, TypeOK
<1>3. ConnectionPerCall'
  BY <1>1, <1>2, Counts, CountsNext
<1>4. NeverStranded' /\ OneLine'
  BY <1>1, Counts DEF NeverStranded, OneLine, OneCall
<1> QED BY <1>3, <1>4

\* A token in connect() turns the promise into a socket.
LEMMA ConnectTokenLines ==
  ASSUME Inv, TypeOK', ConnectToken
  PROVE  ConnectionPerCall' /\ NeverStranded' /\ OneLine'
<1>0. TypeOK /\ OneLine
  BY DEF Inv
<1>1. NewSocket \in Sockets /\ sock[NewSocket] = "closed"
  BY NewSocketFree DEF ConnectToken
<1>2. /\ sock' = [sock EXCEPT ![NewSocket] = "connecting"] /\ ws' = NewSocket
      /\ UNCHANGED <<timer, lost, explicitlyDisconnected, subscribes, disconnects>>
  BY DEF ConnectToken, timers, calls
<1>3. pending["connect"] > 0 /\ pending'["connect"] = pending["connect"] - 1
  BY <1>0, PendingType DEF ConnectToken, Awaiting
<1>4. NewSocket \notin Live /\ Live' = Live \cup {NewSocket}
  BY <1>0, <1>1, <1>2 DEF Live, TypeOK
<1>5. Cardinality(Live') = Cardinality(Live) + 1
  BY <1>4, LiveAdded
<1>6. ConnectionPerCall'
  BY <1>2, <1>3, <1>5, Counts, CountsNext
<1>7. NeverStranded'
  BY <1>4 DEF NeverStranded
<1>8. OneLine'
  <2>1. OneCall' => OneCall
    BY <1>2 DEF OneCall
  <2>2. OneCall => Live = {}
    BY <1>3, OnlyLine
  <2> QED BY <1>0, <1>2, <1>4, <2>1, <2>2 DEF OneLine
<1> QED BY <1>6, <1>7, <1>8

\* A rejected token in connect() turns the promise into a timer.
LEMMA ConnectTokenFailsLines ==
  ASSUME Inv, TypeOK', ConnectTokenFails
  PROVE  ConnectionPerCall' /\ NeverStranded' /\ OneLine'
<1>0. TypeOK /\ OneLine
  BY DEF Inv
<1>1. UNCHANGED <<ws, sock, explicitlyDisconnected, subscribes, disconnects>>
  BY DEF ConnectTokenFails, calls
<1>2. Live' = Live
  BY <1>1 DEF Live
<1>3. pending["connect"] > 0 /\ pending'["connect"] = pending["connect"] - 1
  BY <1>0, PendingType DEF ConnectTokenFails, Awaiting
<1>4. timer' /\ One(timer') = 1 /\ lost' = lost + One(timer)
  BY <1>0, ScheduleType DEF ConnectTokenFails, One
<1>5. ConnectionPerCall'
  <2>1. lost' = lost + One(timer) /\ One(timer') = 1 /\ Cardinality(Live') = Cardinality(Live)
    BY <1>2, <1>4, ZenonT(30)
  <2>2. pending'["connect"] + One(timer') + lost' + Cardinality(Live')
          = pending["connect"] + One(timer) + lost + Cardinality(Live)
    BY <1>3, <2>1, Counts
  <2> QED BY <1>1, <2>2, Counts, CountsNext
<1>6. NeverStranded' /\ OneLine'
  BY <1>0, <1>1, <1>2, <1>4 DEF NeverStranded, OneLine, OneCall
<1> QED BY <1>5, <1>6

\* A socket that closes becomes a timer, or nothing after disconnect().
LEMMA CloseLines ==
  ASSUME Inv, TypeOK', NEW s \in Sockets, Close(s)
  PROVE  ConnectionPerCall' /\ NeverStranded' /\ OneLine'
<1>0. TypeOK /\ OneLine
  BY DEF Inv
<1>1. /\ sock[s] \in {"open", "closing"} /\ sock' = [sock EXCEPT ![s] = "closed"]
      /\ UNCHANGED <<ws, pending, explicitlyDisconnected, subscribes, disconnects>>
  BY DEF Close, calls
<1>2. s \in Live /\ Live' = Live \ {s}
  BY <1>0, <1>1 DEF Live, TypeOK
<1>3. Cardinality(Live') = Cardinality(Live) - 1
  BY <1>2, LiveRemoved
<1>4. CASE explicitlyDisconnected
  <2>1. timer' = timer /\ lost' = lost
    BY <1>4 DEF Close, OnClose, timers
  <2>2. ConnectionPerCall'
    BY <1>1, <1>3, <2>1, Counts, CountsNext
  <2> QED BY <1>0, <1>1, <1>2, <1>4, <2>2 DEF NeverStranded, OneLine, OneCall
<1>5. CASE ~explicitlyDisconnected
  <2>1. timer' /\ One(timer') = 1 /\ lost' = lost + One(timer)
    BY <1>0, <1>5, ScheduleType DEF Close, OnClose, One
  <2>2. ConnectionPerCall'
    <3>1. lost' = lost + One(timer) /\ One(timer') = 1
      BY <2>1, ZenonT(30)
    <3>2. pending'["connect"] + One(timer') + lost' + Cardinality(Live')
            = pending["connect"] + One(timer) + lost + Cardinality(Live)
      BY <1>1, <1>3, <3>1, Counts
    <3> QED BY <1>1, <3>2, Counts, CountsNext
  <2> QED BY <1>0, <1>1, <1>2, <2>1, <2>2 DEF NeverStranded, OneLine, OneCall
<1> QED BY <1>4, <1>5

\* A timer that fires, lost or not, becomes a promise again.
LEMMA TimerLines ==
  ASSUME Inv, TypeOK', ReconnectFires \/ LostTimerFires
  PROVE  ConnectionPerCall' /\ NeverStranded' /\ OneLine'
<1>0. TypeOK /\ OneLine
  BY DEF Inv
<1>1. /\ UNCHANGED <<ws, sock, subscribes, disconnects>>
      /\ Connect /\ ~explicitlyDisconnected'
  BY DEF ReconnectFires, LostTimerFires, Connect, calls
<1>2. Live' = Live
  BY <1>1 DEF Live
<1>3. pending'["connect"] = pending["connect"] + 1
  BY <1>0, <1>1, PendingType DEF Connect, Awaiting
<1>4. \/ timer /\ ~timer' /\ lost' = lost
      \/ timer' = timer /\ lost > 0 /\ lost' = lost - 1
  BY DEF ReconnectFires, LostTimerFires
<1>5. ConnectionPerCall'
  BY <1>1, <1>2, <1>3, <1>4, Counts, CountsNext
<1>6. NeverStranded'
  BY <1>3, Counts DEF NeverStranded
<1>7. OneLine'
  BY <1>0, <1>1, <1>2 DEF OneLine, OneCall
<1> QED BY <1>5, <1>6, <1>7

-----------------------------------------------------------------------------
(* The client of one call.                                                 *)

\* Each step keeps the open sockets subscribed and the status honest.
LEMMA HonestStep ==
  ASSUME Inv, TypeOK', [Next]_vars
  PROVE  SubscribedAndHonest'
<1> SUFFICES ASSUME OneCall'
             PROVE  /\ \A s \in Sockets : sock'[s] = "open" => s \in subs'
                    /\ status' \in {"syncing", "live"} => ws' # None /\ sock'[ws'] = "open"
  BY DEF SubscribedAndHonest, IsOpen
<1>0. TypeOK /\ OneLine /\ SubscribedAndHonest
  BY DEF Inv
<1>1. CASE Subscribe
  <2>1. subscribes = 0
    <3>1. subscribes' = subscribes + 1 /\ subscribes' = 1
      BY <1>1 DEF Subscribe, OneCall
    <3>2. subscribes \in Nat
      BY Counts
    <3> QED BY <3>1, <3>2
  <2>2. Live = {}
    <3>1. Cardinality(Live) = 0
      BY <2>1, Counts
    <3> QED BY <3>1, LiveFinite
  <2>3. ~IsOpen(ws)
    BY <1>0, <2>2 DEF IsOpen, Live, TypeOK
  <2> QED BY <1>1, <2>2, <2>3 DEF Subscribe, Connect, Live
<1>2. CASE Disconnect
  BY <1>2, Counts DEF Disconnect, OneCall
<1> SUFFICES ASSUME UNCHANGED <<subscribes, disconnects>>, ~Subscribe, ~Disconnect
             PROVE  /\ \A s \in Sockets : sock'[s] = "open" => s \in subs'
                    /\ status' \in {"syncing", "live"} => ws' # None /\ sock'[ws'] = "open"
  BY <1>1, <1>2, ZenonT(30) DEF Next, ConnectToken, ConnectTokenFails, RefreshToken, RefreshTokenFails,
     SubscribeToken, SubscribeTokenFails, Open, HandleMessage, SocketError, Close,
     ReconnectFires, LostTimerFires, RefreshFires, vars, calls
<1>3. OneCall /\ ~explicitlyDisconnected /\ Live \subseteq {ws}
  BY <1>0 DEF OneCall, OneLine
<1>4. /\ \A s \in Sockets : sock[s] = "open" => s \in subs
      /\ status \in {"syncing", "live"} => ws # None /\ sock[ws] = "open"
  BY <1>0, <1>3 DEF SubscribedAndHonest, IsOpen
<1>5. \A s \in Sockets : sock[s] \in {"connecting", "open", "closing"} => s = ws
  BY <1>3 DEF Live
<1>6. CASE ConnectToken
  <2>1. Live = {}
    <3>1. pending["connect"] > 0
      BY <1>6 DEF ConnectToken, Settled
    <3> QED BY <1>3, <3>1, OnlyLine
  <2>2. NewSocket \in Sockets
    BY <1>6, NewSocketFree DEF ConnectToken
  <2>3. status \notin {"syncing", "live"}
    BY <1>0, <1>4, <2>1 DEF Live, TypeOK
  <2> QED BY <1>0, <1>6, <2>1, <2>2, <2>3 DEF ConnectToken, Live, TypeOK
<1>7. CASE ConnectTokenFails \/ RefreshTokenFails \/ ReconnectFires \/ LostTimerFires
  BY <1>4, <1>7 DEF ConnectTokenFails, RefreshTokenFails, ReconnectFires, LostTimerFires, Connect
<1>8. CASE RefreshToken \/ SubscribeToken
  BY <1>4, <1>8 DEF RefreshToken, SubscribeToken, SendSubscribe
<1>9. CASE SubscribeTokenFails \/ RefreshFires \/ UNCHANGED vars
  BY <1>4, <1>9 DEF SubscribeTokenFails, RefreshFires, vars
<1>10. ASSUME NEW s \in Sockets, Open(s)
       PROVE  /\ \A u \in Sockets : sock'[u] = "open" => u \in subs'
              /\ status' \in {"syncing", "live"} => ws' # None /\ sock'[ws'] = "open"
  <2>1. s = ws /\ ws # None /\ sock'[ws] = "open" /\ ws' = ws
    BY <1>0, <1>5, <1>10, ClientAssumption DEF Open, TypeOK
  <2>2. subs' = subs \cup {ws}
    BY <1>10, <2>1 DEF Open, SendSubscribe
  <2> QED BY <1>0, <1>4, <1>10, <2>1, <2>2 DEF Open, TypeOK
<1>11. ASSUME NEW s \in Sockets, HandleMessage(s)
       PROVE  /\ \A u \in Sockets : sock'[u] = "open" => u \in subs'
              /\ status' \in {"syncing", "live"} => ws' # None /\ sock'[ws'] = "open"
  BY <1>4, <1>5, <1>11 DEF HandleMessage, IsOpen
<1>12. ASSUME NEW s \in Sockets, SocketError(s)
       PROVE  /\ \A u \in Sockets : sock'[u] = "open" => u \in subs'
              /\ status' \in {"syncing", "live"} => ws' # None /\ sock'[ws'] = "open"
  BY <1>0, <1>4, <1>12 DEF SocketError, TypeOK
<1>13. ASSUME NEW s \in Sockets, Close(s)
       PROVE  /\ \A u \in Sockets : sock'[u] = "open" => u \in subs'
              /\ status' \in {"syncing", "live"} => ws' # None /\ sock'[ws'] = "open"
  BY <1>0, <1>3, <1>4, <1>13 DEF Close, OnClose, TypeOK
<1> QED BY <1>6, <1>7, <1>8, <1>9, <1>10, <1>11, <1>12, <1>13 DEF Next

-----------------------------------------------------------------------------
(* The theorems.                                                           *)

\* A client that has just been made has no line of work.
LEMMA InitInv == Init => Inv
<1> SUFFICES ASSUME Init PROVE Inv
  OBVIOUS
<1>1. TypeOK
  <2>1. /\ attempt \in 0..AttemptCap /\ lost \in Nat
        /\ subscribes \in 0..MaxSubscribes /\ disconnects \in 0..MaxDisconnects
    BY ClientAssumption DEF Init, AttemptCap
  <2>2. pending \in [Awaiting -> Nat]
    BY DEF Init
  <2> QED BY <2>1, <2>2, ZenonT(30) DEF Init, TypeOK, Tokens
<1>2. Live = {}
  BY DEF Init, Live
<1>3. ConnectionPerCall
  <2>1. Cardinality(Live) = 0
    BY <1>2, LiveFinite
  <2>2. pending["connect"] = 0 /\ ~timer /\ lost = 0 /\ subscribes = 0
    BY DEF Init, Awaiting
  <2> QED BY <2>1, <2>2 DEF ConnectionPerCall
<1> QED BY <1>1, <1>2, <1>3 DEF Init, Inv, NeverStranded, OneLine, OneCall, SubscribedAndHonest

\* Every step keeps the invariant.
LEMMA NextInv == Inv /\ [Next]_vars => Inv'
<1> SUFFICES ASSUME Inv, [Next]_vars PROVE Inv'
  OBVIOUS
<1>1. TypeOK'
  BY TypeStep DEF Inv
<1>2. SubscribedAndHonest'
  BY <1>1, HonestStep
<1>3. ConnectionPerCall' /\ NeverStranded' /\ OneLine'
  BY <1>1, SubscribeLines, DisconnectLines, ConnectTokenLines, ConnectTokenFailsLines,
     CloseLines, TimerLines, QuietStep DEF Next
<1> QED BY <1>1, <1>2, <1>3 DEF Inv

\* The inductive invariant holds in every reachable state.
THEOREM Invariance == Spec => []Inv
BY InitInv, NextInv, PTL DEF Spec

\* However many sockets fail, tokens are refused and timers fire, a client has
\* no more promises, timers and sockets than its application has made calls of
\* subscribe().
THEOREM ConnectionPerCallCorrect == Spec => []ConnectionPerCall
<1>1. Inv => ConnectionPerCall
  BY DEF Inv
<1> QED BY <1>1, Invariance, PTL

\* Until disconnect(), a client that was told to subscribe() always has a
\* promise, a timer or a socket that leads to its next connection.
THEOREM NeverStrandedCorrect == Spec => []NeverStranded
<1>1. Inv => NeverStranded
  BY DEF Inv
<1> QED BY <1>1, Invariance, PTL

\* After a single call of subscribe() the client's status and its Subscribe
\* frames are those of its only socket.
THEOREM SubscribedAndHonestCorrect == Spec => []SubscribedAndHonest
<1>1. Inv => SubscribedAndHonest
  BY DEF Inv
<1> QED BY <1>1, Invariance, PTL
=============================================================================
