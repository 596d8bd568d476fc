------------------------------- MODULE Blotter -------------------------------
(***************************************************************************)
(* The trade blotter, from the connection to the screen: connection.js and *)
(* the session that expires, the stream operation of blotterService.js and *)
(* its retries, the topic it opens for itself, the end of the server that  *)
(* looks that topic up and streams to it (BlotterServiceHost.cs,           *)
(* Broker.cs), and the model that shows the trades and empties itself when *)
(* the service goes away (blotterModel.js).                                *)
(*                                                                         *)
(* The router delivers what it sends to one session in order.  One         *)
(* instance of the service runs at a time; a new one succeeds a crashed    *)
(* one.  Time is left out: a timer may fire whenever it is set.            *)
(***************************************************************************)
EXTENDS Naturals, Sequences, FiniteSets

CONSTANTS
  MaxTrades,   \* bound on the trades executed
  MaxSotw,     \* MaxSotwTrades: trades in a state of the world
  Topics,      \* topics of the stream operation (bounds those in use at once)
  NoTopic,
  MaxQueue,    \* bound on the messages of a topic in flight
  Finals,      \* the final statuses of a trade: Done, Rejected
  Fickle,      \* trades whose pair may be disabled and enabled
  MaxCrashes,  \* bound on the crashes of the service
  MaxFaults    \* bound on crashes, late heartbeats, lost and expired sessions

ASSUME BlotterAssumption ==
  /\ NoTopic \notin Topics /\ "Pending" \notin Finals /\ MaxSotw \in Nat \ {0}
  /\ Fickle \subseteq 1..MaxTrades
  /\ {MaxTrades, MaxQueue, MaxCrashes, MaxFaults} \subseteq Nat

VARIABLES
  link,           \* the transport: "closed", "opening", "open", "closing"
  connectCalled,  \* _connectCalled
  status,         \* the connection status
  instance,       \* the instance of the service that runs
  seen,           \* the instances the client takes for connected
  topics,         \* of each topic, its two ends
  op,             \* the stream operation: status, topic and instance asked
  book,           \* the trades of the server, in the order of their ids
  unknown,        \* trades whose pair the client has not in its cache
  rows,           \* trades of the model, as shown
  connected,      \* isConnected of the model
  notified,       \* how often the end of a trade was notified
  synced,         \* a state of the world came since rows was last emptied
  drops, late     \* counters for the bounds

linkVars == <<link, connectCalled, status, drops>>
viewVars == <<rows, connected, notified, synced>>
vars == <<linkVars, viewVars, instance, seen, topics, op, book, unknown, late>>

Ids == 1..MaxTrades

MoreFaults == drops + late + (instance - 1) < MaxFaults

-----------------------------------------------------------------------------
(* A topic: the subscription of the client (`asked' until the router's     *)
(* acknowledgement came), what the server does for it, the messages in     *)
(* flight, and whether the router is telling the server that it ended.     *)

Unused == [sub |-> "none", serve |-> "none", chan |-> <<>>, torn |-> FALSE]

Serving == {"called", "looked", "late", "streaming", "orphan"}

\* A topic neither end uses: its name may stand for a new one.
Settled(t) ==
  IF t.sub = "left" /\ t.serve \notin Serving /\ ~t.torn THEN Unused ELSE t

\* Mutant: the server is not told of a subscription that ends before its
\* session does.
LeftUntold(t) == Settled([t EXCEPT !.sub = "left", !.chan = <<>>])

Left(t) ==
  Settled([t EXCEPT !.sub = "left", !.chan = <<>>, !.torn = t.serve \in Serving])

\* dispose: without an acknowledgement there is nothing to unsubscribe.
Disposed(t) == IF t.sub = "acked" THEN Left(t) ELSE t

\* What is published to a topic without subscriber goes nowhere.
Publish(t, m) ==
  IF t.sub \in {"asked", "acked"} THEN [t EXCEPT !.chan = Append(@, m)] ELSE t

HasRoom(t) == Len(t.chan) < MaxQueue

Message(sotw, ids, b) == [sotw |-> sotw, trades |-> [id \in ids |-> b[id]]]

LastTrades == {id \in DOMAIN book : id + MaxSotw > Len(book)}

-----------------------------------------------------------------------------
(* The rows.                                                               *)

Row(m, id, isNew) == [id |-> id, status |-> m.trades[id], isNew |-> isNew]

NewestFirst(ids) ==
  CHOOSE s \in [1..Cardinality(ids) -> ids] :
    /\ {s[n] : n \in DOMAIN s} = ids
    /\ \A n, k \in DOMAIN s : n < k => s[n] > s[k]

\* sortBy tradeId, reversed.
Reloaded(m) ==
  LET ids == NewestFirst(DOMAIN m.trades)
  IN [n \in DOMAIN ids |-> Row(m, ids[n], FALSE)]

\* Mutant: a trade already shown is shown again.
UpdatedTwice(r, m) ==
  LET id == CHOOSE i \in DOMAIN m.trades : TRUE IN <<Row(m, id, TRUE)>> \o r

\* A row that is there is replaced in its place, and new no more.
Updated(r, m) ==
  LET id == CHOOSE i \in DOMAIN m.trades : TRUE
  IN IF \E n \in DOMAIN r : r[n].id = id
     THEN [n \in DOMAIN r |-> IF r[n].id = id THEN Row(m, id, FALSE) ELSE r[n]]
     ELSE <<Row(m, id, TRUE)>> \o r

Ended(m) == {id \in DOMAIN m.trades : m.trades[id] \in Finals}

\* Mutant: the trades of a state of the world are notified as well.
NotifiedAll(m) == [id \in Ids |-> notified[id] + IF id \in Ended(m) THEN 1 ELSE 0]

Notified(m) ==
  IF m.sotw THEN notified
  ELSE [id \in Ids |-> notified[id] + IF id \in Ended(m) THEN 1 ELSE 0]

\* Mutant: the service is never taken for gone.
OnStatusLatched(isConnected) ==
  /\ connected' = (connected \/ isConnected)
  /\ UNCHANGED <<rows, synced, notified>>

\* The handler of the service status.
OnStatus(isConnected) ==
  /\ connected' = isConnected
  /\ IF isConnected THEN UNCHANGED <<rows, synced>>
     ELSE rows' = <<>> /\ synced' = FALSE
  /\ UNCHANGED notified

-----------------------------------------------------------------------------
(* The stream operation.                                                   *)

NotAsking(s) == [status |-> s, topic |-> NoTopic, instance |-> 0]

\* Subscribes to a new topic, then calls the instance with its name.
Ask(i) ==
  LET t == CHOOSE u \in Topics : topics[u] = Unused
  IN
    /\ \E u \in Topics : topics[u] = Unused
    /\ op' = [status |-> "asked", topic |-> t, instance |-> i]
    /\ topics' = [topics EXCEPT ![t] =
                    [@ EXCEPT !.sub = "asked",
                              !.serve = IF i = instance /\ link = "open"
                                        THEN "called" ELSE "none"]]

\* getServiceWithMinLoad waits for an instance.
LookUp ==
  IF seen = {} THEN op' = NotAsking("waiting") /\ UNCHANGED topics
  ELSE \E i \in seen : Ask(i)

\* The operation ends with an error, or its mapper throws.
Fail(s) ==
  /\ op' = NotAsking(s)
  /\ topics' = [topics EXCEPT ![op.topic] = Disposed(@)]

Init ==
  /\ link = "closed" /\ connectCalled = FALSE /\ status = "idle"
  /\ instance = 1 /\ seen = {}
  /\ topics = [t \in Topics |-> Unused]
  /\ op = NotAsking("off")
  /\ book = <<>> /\ unknown = {}
  /\ rows = <<>> /\ connected = FALSE /\ synced = FALSE
  /\ notified = [id \in Ids |-> 0]
  /\ drops = 0 /\ late = 0

-----------------------------------------------------------------------------
(* The connection.                                                         *)

\* At the start, and for the Reconnect button of the expired session.
Connect ==
  /\ status \in {"idle", "sessionExpired"}
  /\ ~connectCalled
  /\ connectCalled' = TRUE
  /\ link' = "opening"
  /\ UNCHANGED <<status, drops, viewVars, instance, seen, topics, op, book,
                 unknown, late>>

OnOpen ==
  /\ link = "opening"
  /\ link' = "open"
  /\ status' = "connected"
  /\ UNCHANGED <<connectCalled, drops, viewVars, instance, seen, topics, op,
                 book, unknown, late>>

\* autobahn retries without limit.
Unreachable ==
  /\ link = "opening" /\ status # "disconnected"
  /\ status' = "disconnected"
  /\ UNCHANGED <<link, connectCalled, drops, viewVars, instance, seen, topics,
                 op, book, unknown, late>>

\* Mutant: the connection is still taken for opened.
DisconnectStillCalled ==
  /\ link' = "closing"
  /\ UNCHANGED <<connectCalled, status>>

\* disconnect, called by the timer of the session.
Disconnect ==
  /\ connectCalled' = FALSE
  /\ link' = "closing"
  /\ UNCHANGED status

Expire ==
  /\ link = "open" /\ MoreFaults
  /\ drops' = drops + 1
  /\ Disconnect
  /\ UNCHANGED <<viewVars, instance, seen, topics, op, book, unknown, late>>

\* onclose: every status stream ends with an error, the stream operation
\* with them, and the dictionary is empty; the router ends the session.
OnClose(s) ==
  /\ status' = s
  /\ seen' = {}
  /\ OnStatus(FALSE)
  /\ op' = IF op.status = "asked" THEN NotAsking("failed") ELSE op
  /\ topics' = [t \in Topics |->
                  IF topics[t].sub \in {"asked", "acked"} THEN Left(topics[t])
                  ELSE topics[t]]
  /\ UNCHANGED <<connectCalled, instance, book, unknown, late>>

\* A session lost while it closes is not opened again.
Lost ==
  /\ link \in {"open", "closing"}
  /\ IF connectCalled THEN MoreFaults /\ drops' = drops + 1
     ELSE UNCHANGED drops
  /\ link' = IF connectCalled THEN "opening" ELSE "closed"
  /\ OnClose("disconnected")

Closed ==
  /\ link = "closing"
  /\ link' = "closed"
  /\ OnClose("sessionExpired")
  /\ UNCHANGED drops

-----------------------------------------------------------------------------
(* Heartbeats.                                                             *)

\* Mutant: an operation that waits does not hear of a new instance.
HearNothing == UNCHANGED <<op, topics>>

Hear ==
  IF op.status = "waiting" THEN Ask(instance) ELSE UNCHANGED <<op, topics>>

Heartbeat ==
  /\ link = "open" /\ instance \notin seen
  /\ seen' = seen \cup {instance}
  /\ OnStatus(TRUE)
  /\ Hear
  /\ UNCHANGED <<linkVars, instance, book, unknown, late>>

MissHeartbeats(i) ==
  /\ i \in seen
  /\ IF i = instance THEN MoreFaults /\ late' = late + 1 ELSE UNCHANGED late
  /\ seen' = seen \ {i}
  /\ OnStatus(seen' # {})
  /\ UNCHANGED <<linkVars, instance, topics, op, book, unknown>>

\* The timer of the operation itself, set after that of the dictionary.
OpMissesHeartbeats ==
  /\ op.status = "asked" /\ op.instance \notin seen
  /\ Fail("failed")
  /\ UNCHANGED <<linkVars, viewVars, instance, seen, book, unknown, late>>

\* No callee: the answer follows the acknowledgement of the topic.
RpcFails ==
  /\ op.status = "asked" /\ op.instance # instance
  /\ topics[op.topic].serve = "none" /\ topics[op.topic].sub = "acked"
  /\ Fail("failed")
  /\ UNCHANGED <<linkVars, viewVars, instance, seen, book, unknown, late>>

-----------------------------------------------------------------------------
(* The model and its operation.                                            *)

\* Reference data are loaded: the blotter subscribes to its trades.
Subscribe ==
  /\ op.status = "off"
  /\ LookUp
  /\ UNCHANGED <<linkVars, viewVars, instance, seen, book, unknown, late>>

\* Both policies in use retry for ever.
Retry ==
  /\ op.status = "failed"
  /\ LookUp
  /\ UNCHANGED <<linkVars, viewVars, instance, seen, book, unknown, late>>

Ack(t) ==
  /\ link = "open" /\ topics[t].sub = "asked"
  /\ topics' = [topics EXCEPT ![t].sub = "acked"]
  /\ UNCHANGED <<linkVars, viewVars, instance, seen, op, book, unknown, late>>

Pop(t) == [topics EXCEPT ![t].chan = Tail(@)]

\* The mapper throws for a pair the client does not know, after the retries:
\* the stream ends for good.
Receive(t) ==
  /\ topics[t].sub = "acked" /\ topics[t].chan # <<>>
  /\ LET m == Head(topics[t].chan)
     IN IF t # op.topic
        THEN topics' = Pop(t) /\ UNCHANGED <<op, viewVars>>
        ELSE IF DOMAIN m.trades \cap unknown # {}
        THEN Fail("dead") /\ UNCHANGED viewVars
        ELSE /\ topics' = Pop(t)
             /\ rows' = IF m.sotw THEN Reloaded(m) ELSE Updated(rows, m)
             /\ synced' = (m.sotw \/ synced)
             /\ notified' = Notified(m)
             /\ UNCHANGED <<op, connected>>
  /\ UNCHANGED <<linkVars, instance, seen, book, unknown, late>>

\* The pair of a trade is disabled, or enabled again.
PairChanges(id) ==
  /\ id \in DOMAIN book
  /\ unknown' = IF id \in unknown THEN unknown \ {id} ELSE unknown \cup {id}
  /\ UNCHANGED <<linkVars, viewVars, instance, seen, topics, op, book, late>>

-----------------------------------------------------------------------------
(* The server.                                                             *)

\* A trade is created, done or rejected: each stream carries it.
BookChanges(id, st) ==
  /\ IF id \in DOMAIN book THEN book[id] = "Pending" /\ st # "Pending"
     ELSE id = Len(book) + 1 /\ st = "Pending"
  /\ book' = IF id \in DOMAIN book THEN [book EXCEPT ![id] = st] ELSE Append(book, st)
  /\ \A t \in Topics : HasRoom(topics[t])
  /\ topics' = [t \in Topics |->
                  IF topics[t].serve \in {"streaming", "orphan"}
                  THEN Publish(topics[t], Message(FALSE, {id}, book'))
                  ELSE topics[t]]
  /\ UNCHANGED <<linkVars, viewVars, instance, seen, op, unknown, late>>

OnTopic(t, r) ==
  /\ topics' = [topics EXCEPT ![t] = Settled(r)]
  /\ UNCHANGED <<linkVars, viewVars, instance, seen, op, book, unknown, late>>

\* GetPrivateEndPoint: the subscription and its session, or an exception
\* that is logged and nothing else.
GetPrivateEndPoint(t) ==
  /\ topics[t].serve = "called"
  /\ OnTopic(t, [topics[t] EXCEPT
       !.serve = IF topics[t].sub \in {"asked", "acked"} THEN "looked" ELSE "ended"])

\* TakeUntil subscribes to the end of the subscription only now.
StreamTrades(t) ==
  /\ topics[t].serve \in {"looked", "late"}
  /\ HasRoom(topics[t])
  /\ OnTopic(t, [Publish(topics[t], Message(TRUE, LastTrades, book)) EXCEPT
       !.serve = IF topics[t].serve = "looked" THEN "streaming" ELSE "orphan"])

\* The trade cache sends its state of the world again, stale or fresh, as
\* its own connection comes and goes.
Resend(t) ==
  /\ topics[t].serve \in {"streaming", "orphan"}
  /\ topics[t].sub \in {"asked", "acked"} /\ topics[t].chan = <<>>
  /\ HasRoom(topics[t])
  /\ OnTopic(t, Publish(topics[t], Message(TRUE, LastTrades, book)))

\* The notice that a subscription, or its session, has ended.
TearDown(t) ==
  /\ topics[t].torn
  /\ OnTopic(t, [topics[t] EXCEPT !.torn = FALSE,
       !.serve = CASE @ = "streaming" -> "ended" [] @ = "looked" -> "late" [] OTHER -> @])

Crash ==
  /\ instance <= MaxCrashes /\ MoreFaults
  /\ instance' = instance + 1
  /\ topics' = [t \in Topics |->
       Settled([topics[t] EXCEPT !.torn = FALSE,
         !.serve = IF @ \in Serving \ {"called"} THEN "ended" ELSE "none"])]
  /\ UNCHANGED <<linkVars, viewVars, seen, op, book, unknown, late>>

-----------------------------------------------------------------------------

Next ==
  \/ Connect
  \/ OnOpen
  \/ Unreachable
  \/ Expire
  \/ Lost
  \/ Closed
  \/ Heartbeat
  \/ \E i \in seen : MissHeartbeats(i)
  \/ OpMissesHeartbeats
  \/ RpcFails
  \/ Subscribe
  \/ Retry
  \/ \E t \in Topics : Ack(t)
  \/ \E t \in Topics : Receive(t)
  \/ \E id \in Fickle : PairChanges(id)
  \/ \E id \in Ids, st \in {"Pending"} \cup Finals : BookChanges(id, st)
  \/ \E t \in Topics : GetPrivateEndPoint(t)
  \/ \E t \in Topics : StreamTrades(t)
  \/ \E t \in Topics : Resend(t)
  \/ \E t \in Topics : TearDown(t)
  \/ Crash

\* The router and the server answer, timers fire, a live instance sends a
\* heartbeat a second, a pair unknown need not become known, and nobody has
\* to press Reconnect.
Fairness ==
  /\ WF_vars(OnOpen) /\ WF_vars(Heartbeat)
  /\ WF_vars(OpMissesHeartbeats) /\ WF_vars(Retry)
  /\ \A i \in 1..MaxCrashes : WF_vars(i < instance /\ MissHeartbeats(i))
  /\ \A t \in Topics :
       /\ WF_vars(Ack(t)) /\ WF_vars(Receive(t)) /\ WF_vars(TearDown(t))
       /\ WF_vars(GetPrivateEndPoint(t)) /\ WF_vars(StreamTrades(t))

Spec == Init /\ [][Next]_vars /\ Fairness

-----------------------------------------------------------------------------
(* Properties.                                                             *)

Current == topics[op.topic]

\* Messages in order on a topic the server streams to, all received.
Drained == op.status = "asked" /\ Current.serve = "streaming" /\ Current.chan = <<>>

\* Types, and what an operation holds: a topic while it has asked an
\* instance, over a connection that is up.
BlotterTypeOK ==
  /\ link \in {"closed", "opening", "open", "closing"} /\ connectCalled \in BOOLEAN
  /\ status \in {"idle", "connected", "disconnected", "sessionExpired"}
  /\ instance \in 1..(MaxCrashes + 1) /\ seen \subseteq 1..instance
  /\ \A t \in Topics : /\ topics[t].sub \in {"none", "asked", "acked", "left"}
                       /\ topics[t].serve \in Serving \cup {"none", "ended"}
  /\ op.status \in {"off", "waiting", "asked", "failed", "dead"}
  /\ (op.status = "asked") <=> op.topic # NoTopic
  /\ op.topic # NoTopic => Current.sub \in {"asked", "acked"}
  /\ (seen # {} \/ op.status = "asked") => link \in {"open", "closing"}
  /\ connected = (seen # {})
  /\ unknown \subseteq Ids /\ notified \in [Ids -> Nat]
  /\ \A n \in DOMAIN rows : rows[n].id \in DOMAIN book

\* The Reconnect button works whenever it is shown: the session it is shown
\* for is closed and connect() may be called (shellModel.js:55,
\* connection.js:90, 126).
ExpiredReconnects ==
  status = "sessionExpired" => link = (IF connectCalled THEN "opening" ELSE "closed")

\* Once a state of the world came and all messages were received, the rows
\* show the trades of the server, each once and as it is, and the last
\* MaxSotw of them at least (blotterModel.js:109-122, BlotterServiceHost.cs:40).
\* A blotter that takes itself for connected lacks the state of the world only
\* after late heartbeats: the service status emptied it, and a heartbeat came
\* before the timer of the operation fired (blotterModel.js:143-146).
ShownIsBook ==
  Drained /\ (synced \/ (connected /\ late = 0)) =>
    /\ \A n \in DOMAIN rows : rows[n].status = book[rows[n].id]
    /\ \A n, k \in DOMAIN rows : rows[n].id = rows[k].id => n = k
    /\ LastTrades \subseteq {rows[n].id : n \in DOMAIN rows}

\* The end of a trade is notified once at most, whatever is sent again
\* (blotterModel.js:125).
NotifiedOnce == \A id \in Ids : notified[id] <= 1

\* A server goes on streaming to a topic without subscriber only until the
\* router's notice arrives, save the stream whose subscriber left between
\* the lookups and the subscription to those notices (Broker.cs:117-140).
StreamsEndWithTopics ==
  \A t \in Topics :
    topics[t].serve = "streaming" /\ topics[t].sub = "left" => topics[t].torn

\* While the connection stays, the blotter ends up fed by a stream of the
\* server, unless a trade of an unknown pair has ended its own.
BlotterRecovers ==
  <>[](link = "open") =>
    <>[](\/ op.status \in {"off", "dead"}
         \/ op.status = "asked" /\ Current.serve = "streaming")

=============================================================================
