----------------------------- MODULE SyncClient ------------------------------
(***************************************************************************)
(* The connection lifecycle of the client (client.ts, reconnect.ts,        *)
(* jwt.ts): subscribe() and disconnect() calls, the getToken() promises    *)
(* that are still to settle, the WebSockets with their events, and the     *)
(* reconnect and token refresh timers.  JavaScript runs one callback at a  *)
(* time, up to its next await: each action is one such run.                *)
(*                                                                         *)
(* What the messages carry is the subject of SyncSession; here a message   *)
(* only changes the status.                                                *)
(***************************************************************************)
EXTENDS Integers, FiniteSets

CONSTANTS
  Sockets,         \* identities of WebSockets, used again once closed
  None,            \* no socket
  MaxSubscribes,   \* bound: subscribe() calls
  MaxDisconnects,  \* bound: disconnect() calls
  MaxRefreshes     \* bound: token refreshes awaited at a time

ASSUME ClientAssumption ==
  /\ None \notin Sockets /\ IsFiniteSet(Sockets)
  /\ MaxSubscribes \in Nat /\ MaxDisconnects \in Nat /\ MaxRefreshes \in Nat

VARIABLES
  ws,             \* this.ws
  sock,           \* readyState of each socket; an identity is free when "closed"
  tok,            \* the token in use on each socket
  subs,           \* the sockets that a Subscribe frame was sent on
  pending,        \* getToken() promises awaited, by who awaits them
  timer,          \* this.timer of the scheduler is a timeout yet to fire
  lost,           \* timeouts yet to fire that this.timer no longer holds
  attempt,        \* the scheduler's attempt counter
  refreshTimer,   \* this.refreshTimer is a timeout yet to fire
  explicitlyDisconnected,
  status,
  subscribes, disconnects

timers == <<timer, lost, attempt>>
calls == <<subscribes, disconnects>>
vars == <<ws, sock, tok, subs, pending, timers, refreshTimer,
          explicitlyDisconnected, status, calls>>

\* A token's exp claim: absent, within a minute of now, or later than that.
Tokens == {"noExp", "expiring", "fresh"}
Awaiting == {"connect", "refresh", "subscribe"}

-----------------------------------------------------------------------------
(* backoffDelayMs().                                                       *)

INITIAL_DELAY_MS == 1000
MAX_DELAY_MS == 30000

\* From this attempt on the delay is capped: higher counts are told apart by
\* nothing.
AttemptCap == 6

\* The delays the jitter of 20 percent either way can give: from a fifth
\* below the capped delay to a fifth above it.
backoffDelayMs(n) ==
  LET exponential == INITIAL_DELAY_MS * 2 ^ (IF n < 1 THEN 0 ELSE n - 1)
      capped == IF exponential < MAX_DELAY_MS THEN exponential ELSE MAX_DELAY_MS
  IN (capped - capped \div 5)..(capped + capped \div 5)

-----------------------------------------------------------------------------
TypeOK ==
  /\ ws \in Sockets \cup {None}
  /\ sock \in [Sockets -> {"connecting", "open", "closing", "closed"}]
  /\ tok \in [Sockets -> Tokens]
  /\ subs \subseteq Sockets
  /\ pending \in [Awaiting -> Nat]
  /\ timer \in BOOLEAN /\ lost \in Nat /\ attempt \in 0..AttemptCap
  /\ refreshTimer \in BOOLEAN
  /\ explicitlyDisconnected \in BOOLEAN
  /\ status \in {"connecting", "syncing", "live", "error", "disconnected"}
  /\ subscribes \in 0..MaxSubscribes /\ disconnects \in 0..MaxDisconnects

Init ==
  /\ ws = None
  /\ sock = [s \in Sockets |-> "closed"]
  /\ tok = [s \in Sockets |-> "noExp"]
  /\ subs = {}
  /\ pending = [a \in Awaiting |-> 0]
  /\ timer = FALSE /\ lost = 0 /\ attempt = 0
  /\ refreshTimer = FALSE
  /\ explicitlyDisconnected = FALSE
  /\ status = "disconnected"
  /\ subscribes = 0 /\ disconnects = 0

IsOpen(s) == s # None /\ sock[s] = "open"
Await(a) == pending' = [pending EXCEPT ![a] = @ + 1]

-----------------------------------------------------------------------------
(* Faulty variants of definitions below, named Bad...: each one is what an *)
(* easy mistake in the code would make of it, and breaks a property.       *)

\* A rejected getToken() only reports the error.
BadConnectTokenFails ==
  /\ pending["connect"] > 0
  /\ pending' = [pending EXCEPT !["connect"] = @ - 1]
  /\ status' = "error"
  /\ UNCHANGED <<ws, sock, tok, subs, timers, refreshTimer, explicitlyDisconnected, calls>>

\* The close listener schedules the reconnect without telling the status.
BadOnClose ==
  /\ refreshTimer' = FALSE
  /\ IF explicitlyDisconnected THEN UNCHANGED timers
     ELSE /\ attempt' = (IF attempt < AttemptCap THEN attempt + 1 ELSE attempt)
          /\ lost' = lost + (IF timer THEN 1 ELSE 0)
          /\ timer' = TRUE
  /\ UNCHANGED status

\* The error listener schedules a reconnect too.
BadSocketError(s) ==
  /\ sock[s] \in {"connecting", "open"}
  /\ sock' = [sock EXCEPT ![s] = "closing"]
  /\ status' = "error"
  /\ attempt' = (IF attempt < AttemptCap THEN attempt + 1 ELSE attempt)
  /\ lost' = lost + (IF timer THEN 1 ELSE 0)
  /\ timer' = TRUE
  /\ UNCHANGED <<ws, tok, subs, pending, refreshTimer, explicitlyDisconnected, calls>>

\* The callback of the reconnect timer schedules another one and does not
\* connect.
BadReconnectFires ==
  /\ timer
  /\ attempt' = (IF attempt < AttemptCap THEN attempt + 1 ELSE attempt)
  /\ UNCHANGED <<ws, sock, tok, subs, pending, timer, lost, refreshTimer,
                 explicitlyDisconnected, status, calls>>

-----------------------------------------------------------------------------
(* Helpers of the class, each a conjunct of the actions that call it.      *)

\* ReconnectScheduler.schedule(): a timeout already pending is forgotten, not
\* cleared.
Schedule ==
  /\ attempt' = (IF attempt < AttemptCap THEN attempt + 1 ELSE attempt)
  /\ lost' = lost + (IF timer THEN 1 ELSE 0)
  /\ timer' = TRUE

Settled(a) == pending[a] > 0 /\ pending' = [pending EXCEPT ![a] = @ - 1]

\* sendSubscribe() with a token at hand: send() goes to this.ws if it is open
\* and does nothing otherwise.
SendSubscribe(token) ==
  IF ws # None /\ sock'[ws] = "open"
  THEN subs' = subs \cup {ws} /\ tok' = [tok EXCEPT ![ws] = token]
  ELSE UNCHANGED <<subs, tok>>

\* scheduleJwtRefresh() sets no timeout for a token that does not expire, nor
\* for one about to.
ScheduleTokenRefresh(token) == refreshTimer' = (token = "fresh")

\* connect(), up to its await.
Connect ==
  /\ explicitlyDisconnected' = FALSE
  /\ status' = "connecting"
  /\ Await("connect")

\* The close listener: the refresh timer it clears may be another socket's.
OnClose ==
  /\ refreshTimer' = FALSE
  /\ IF explicitlyDisconnected
     THEN UNCHANGED <<status, timers>>
     ELSE status' = "disconnected" /\ Schedule

-----------------------------------------------------------------------------
(* Calls of the application.                                               *)

Subscribe ==
  /\ subscribes < MaxSubscribes
  /\ subscribes' = subscribes + 1
  /\ IF IsOpen(ws)
     THEN Await("subscribe") /\ UNCHANGED <<explicitlyDisconnected, status>>
     ELSE Connect
  /\ UNCHANGED <<ws, sock, tok, subs, timers, refreshTimer, disconnects>>

Disconnect ==
  /\ disconnects < MaxDisconnects
  /\ disconnects' = disconnects + 1
  /\ explicitlyDisconnected' = TRUE
  /\ timer' = FALSE
  /\ refreshTimer' = FALSE
  /\ sock' = [s \in Sockets |-> IF s = ws /\ sock[s] \in {"connecting", "open"}
                                THEN "closing" ELSE sock[s]]
  /\ ws' = None
  /\ status' = "disconnected"
  /\ UNCHANGED <<tok, subs, pending, lost, attempt, subscribes>>

-----------------------------------------------------------------------------
(* getToken() settles.                                                     *)

\* A new socket replaces the one in this.ws, whatever that one is doing.
NewSocket == CHOOSE s \in Sockets \ {ws} : sock[s] = "closed"

ConnectToken ==
  /\ Settled("connect")
  /\ \E s \in Sockets \ {ws} : sock[s] = "closed"
  /\ sock' = [sock EXCEPT ![NewSocket] = "connecting"]
  /\ \E token \in Tokens : tok' = [tok EXCEPT ![NewSocket] = token]
  /\ ws' = NewSocket
  /\ UNCHANGED <<subs, timers, refreshTimer, explicitlyDisconnected, status, calls>>

ConnectTokenFails ==
  /\ Settled("connect")
  /\ status' = "error"
  /\ Schedule
  /\ UNCHANGED <<ws, sock, tok, subs, refreshTimer, explicitlyDisconnected, calls>>

RefreshToken ==
  /\ Settled("refresh")
  /\ UNCHANGED <<ws, sock, timers, explicitlyDisconnected, status, calls>>
  /\ \E token \in Tokens : SendSubscribe(token) /\ ScheduleTokenRefresh(token)

RefreshTokenFails ==
  /\ Settled("refresh")
  /\ status' = "error"
  /\ UNCHANGED <<ws, sock, tok, subs, timers, refreshTimer, explicitlyDisconnected, calls>>

SubscribeToken ==
  /\ Settled("subscribe")
  /\ UNCHANGED <<ws, sock, timers, refreshTimer, explicitlyDisconnected, status, calls>>
  /\ \E token \in Tokens : SendSubscribe(token)

\* The rejection is dropped by the void in subscribe().
SubscribeTokenFails ==
  /\ Settled("subscribe")
  /\ UNCHANGED <<ws, sock, tok, subs, timers, refreshTimer, explicitlyDisconnected, status, calls>>

-----------------------------------------------------------------------------
(* Events of the sockets.                                                  *)

\* The Subscribe goes to this.ws, which may be another socket by now.
Open(s) ==
  /\ sock[s] = "connecting"
  /\ sock' = [sock EXCEPT ![s] = "open"]
  /\ SendSubscribe(tok[s])
  /\ ScheduleTokenRefresh(tok[s])
  /\ UNCHANGED <<ws, pending, timers, explicitlyDisconnected, status, calls>>

\* The gateway sends nothing before it has read a Subscribe.  SnapshotBegin,
\* SnapshotComplete and Delta, and Error set the status.
HandleMessage(s) ==
  /\ IsOpen(s) /\ s \in subs
  /\ status' \in {"syncing", "live", "error"}
  /\ UNCHANGED <<ws, sock, tok, subs, pending, timers, refreshTimer,
                 explicitlyDisconnected, calls>>

\* A close follows.
SocketError(s) ==
  /\ sock[s] \in {"connecting", "open"}
  /\ sock' = [sock EXCEPT ![s] = "closing"]
  /\ status' = "error"
  /\ UNCHANGED <<ws, tok, subs, pending, timers, refreshTimer, explicitlyDisconnected, calls>>

\* After close(), an error, or because the server went away.
Close(s) ==
  /\ sock[s] \in {"open", "closing"}
  /\ sock' = [sock EXCEPT ![s] = "closed"]
  /\ tok' = [tok EXCEPT ![s] = "noExp"] /\ subs' = subs \ {s}
  /\ OnClose
  /\ UNCHANGED <<ws, pending, explicitlyDisconnected, calls>>

-----------------------------------------------------------------------------
(* Timers.                                                                 *)

ReconnectFires ==
  /\ timer
  /\ timer' = FALSE
  /\ Connect
  /\ UNCHANGED <<ws, sock, tok, subs, lost, attempt, refreshTimer, calls>>

LostTimerFires ==
  /\ lost > 0
  /\ lost' = lost - 1
  /\ Connect
  /\ UNCHANGED <<ws, sock, tok, subs, timer, attempt, refreshTimer, calls>>

RefreshFires ==
  /\ refreshTimer /\ pending["refresh"] < MaxRefreshes
  /\ refreshTimer' = FALSE
  /\ Await("refresh")
  /\ UNCHANGED <<ws, sock, tok, subs, timers, explicitlyDisconnected, status, calls>>

Next ==
  \/ Subscribe \/ Disconnect
  \/ ConnectToken \/ ConnectTokenFails \/ RefreshToken \/ RefreshTokenFails
  \/ SubscribeToken \/ SubscribeTokenFails
  \/ \E s \in Sockets : Open(s)
  \/ \E s \in Sockets : HandleMessage(s)
  \/ \E s \in Sockets : SocketError(s)
  \/ \E s \in Sockets : Close(s)
  \/ ReconnectFires \/ LostTimerFires \/ RefreshFires

Spec == Init /\ [][Next]_vars

\* Promises settle and timers fire; a getToken() that is tried again and again
\* is fulfilled at some time, and so does one of the sockets open.
Fairness ==
  /\ WF_vars(ReconnectFires) /\ WF_vars(LostTimerFires)
  /\ SF_vars(ConnectToken)
  /\ WF_vars(ConnectToken \/ ConnectTokenFails)
  /\ \A s \in Sockets : SF_vars(Open(s)) /\ WF_vars(sock[s] = "closing" /\ Close(s))

FairSpec == Spec /\ Fairness

-----------------------------------------------------------------------------
(* Properties.                                                             *)

Live == {s \in Sockets : sock[s] \in {"connecting", "open", "closing"}}

\* Every subscribe() call starts at most one connection: what it began is one
\* promise, one reconnect timer or one socket, however many sockets fail,
\* tokens are refused and timers fire afterwards.
ConnectionPerCall ==
  pending["connect"] + (IF timer THEN 1 ELSE 0) + lost + Cardinality(Live) <= subscribes

\* A client that has subscribed and was not told to disconnect always has a
\* connection, or something under way that leads to one: no failure path
\* forgets to schedule the next attempt.
NeverStranded ==
  subscribes > 0 /\ ~explicitlyDisconnected =>
    pending["connect"] > 0 \/ timer \/ lost > 0 \/ Live # {}

\* The application has called subscribe() once and not disconnect(): with more
\* calls there may be two sockets, and the listeners of one act on the other.
OneCall == subscribes = 1 /\ disconnects = 0

\* Such a client of one call is connected and subscribed again and again,
\* through refused tokens and failing sockets.
Reconnects == OneCall ~> ~OneCall \/ (IsOpen(ws) /\ ws \in subs)

\* The gateway waits for a Subscribe as the first frame (connection.rs:96): a
\* socket of such a client is never open without having been sent one, and the
\* status says syncing or live only while this.ws is open.
SubscribedAndHonest ==
  OneCall => /\ \A s \in Sockets : sock[s] = "open" => s \in subs
             /\ status \in {"syncing", "live"} => IsOpen(ws)

-----------------------------------------------------------------------------
(* Statements of docs and comments that the code does not meet: TLC        *)
(* refutes each of them on the instance README.md gives for it.            *)

\* client.ts:46 says the class drives one session "over a WebSocket
\* connection": it never has two.
OneConnection == Cardinality({s \in Sockets : sock[s] \in {"connecting", "open"}}) <= 1

\* client.ts:101 says disconnect() tears down the connection and stops "all
\* reconnect/refresh scheduling": after it, until the next subscribe(), no
\* socket is connecting or open and no timer is pending.
DisconnectStops ==
  explicitlyDisconnected =>
    /\ ~timer /\ lost = 0 /\ ~refreshTimer
    /\ \A s \in Sockets : sock[s] \notin {"connecting", "open"}

\* reconnect.ts:47 says to reset the attempt counter "after a successful
\* reconnect": the first retry after an open connection is a quick one.
BackoffRestarts ==
  [][\A s \in Sockets : sock[s] = "open" /\ sock'[s] = "closed" /\ ~timer /\ timer'
       => backoffDelayMs(attempt') = backoffDelayMs(1)]_vars

\* jwt.ts:47 says that a caller "should refresh immediately" when the token is
\* about to expire: an open connection with a token that expires has its
\* refresh scheduled or under way.
RefreshKept ==
  IsOpen(ws) /\ tok[ws] # "noExp" => refreshTimer \/ pending["refresh"] > 0
=============================================================================
