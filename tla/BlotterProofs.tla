----------------------------- MODULE BlotterProofs -----------------------------
(***************************************************************************)
(* For any number of trades, topics, crashes and faults: the types and     *)
(* what an operation holds, the Reconnect button, the streams that end     *)
(* with their topics, the end of a trade that is notified once, and the    *)
(* rows, which are the trades of the server when nothing is on its way.    *)
(***************************************************************************)
EXTENDS Blotter, FiniteSetTheorems, TLAPS

-----------------------------------------------------------------------------
(* The session.                                                            *)

\* The session is wanted exactly while it is opened or open, and its status
\* is that of a connection until it has closed.
LinkInv ==
  /\ link \in {"closed", "opening", "open", "closing"}
  /\ connectCalled \in BOOLEAN
  /\ connectCalled <=> link \in {"opening", "open"}
  /\ link \in {"open", "closing"} => status = "connected"

LEMMA LinkInvStep == LinkInv /\ [Next]_vars => LinkInv'
<1> SUFFICES ASSUME LinkInv, [Next]_vars PROVE LinkInv'
  OBVIOUS
<1> USE DEF LinkInv
<1>1. CASE Connect \/ OnOpen \/ Unreachable \/ Expire
  BY <1>1 DEF Connect, OnOpen, Unreachable, Expire, Disconnect
<1>2. CASE Lost
  <2>1. link' = (IF connectCalled THEN "opening" ELSE "closed") /\ connectCalled' = connectCalled
    BY <1>2 DEF Lost, OnClose
  <2> QED
    BY <2>1
<1>6. CASE Closed
  BY <1>6 DEF Closed, OnClose
<1>3. CASE UNCHANGED <<link, connectCalled, status>>
  BY <1>3
<1>4. CASE Heartbeat \/ (\E i \in seen : MissHeartbeats(i)) \/ OpMissesHeartbeats
           \/ RpcFails \/ Subscribe \/ Retry \/ Crash \/ UNCHANGED vars
  <2>1. UNCHANGED <<link, connectCalled, status>>
    BY <1>4 DEF Heartbeat, MissHeartbeats, OpMissesHeartbeats, RpcFails,
                Subscribe, Retry, Crash, linkVars, vars
  <2> QED
    BY <1>3, <2>1
<1>5. CASE \/ \E t \in Topics : \/ Ack(t) \/ Receive(t) \/ GetPrivateEndPoint(t)
                                \/ StreamTrades(t) \/ Resend(t) \/ TearDown(t)
           \/ \E id \in Fickle : PairChanges(id)
           \/ \E id \in Ids, st \in {"Pending"} \cup Finals : BookChanges(id, st)
  <2>1. UNCHANGED <<link, connectCalled, status>>
    BY <1>5 DEF Ack, Receive, GetPrivateEndPoint, StreamTrades, Resend, TearDown,
                OnTopic, PairChanges, BookChanges, linkVars
  <2> QED
    BY <1>3, <2>1
<1> QED
  BY <1>1, <1>2, <1>4, <1>5, <1>6 DEF Next

\* The Reconnect button works whenever it is shown, however sessions are
\* lost and expire (shellModel.js:55, connection.js:90, 126).
THEOREM ReconnectWorks == Spec => []ExpiredReconnects
<1>1. Init => LinkInv
  BY DEF Init, LinkInv
<1>2. LinkInv => ExpiredReconnects
  BY DEF LinkInv, ExpiredReconnects
<1> QED
  BY <1>1, <1>2, LinkInvStep, PTL DEF Spec

-----------------------------------------------------------------------------
(* Types.                                                                  *)

TradeStatuses == {"Pending"} \cup Finals

Contents == UNION {[S -> TradeStatuses] : S \in SUBSET Ids}

Topic ==
  [sub   : {"none", "asked", "acked", "left"},
   serve : Serving \cup {"none", "ended"},
   chan  : Seq([sotw : BOOLEAN, trades : Contents]),
   torn  : BOOLEAN]

Typed ==
  /\ topics \in [Topics -> Topic]
  /\ op.topic \in Topics \cup {NoTopic}
  /\ op.status = "asked" => op.topic # NoTopic
  /\ book \in Seq(TradeStatuses) /\ Len(book) <= MaxTrades
  /\ notified \in [Ids -> Nat]

\* A topic the host is about to stream to, or streams to, will be told of the
\* end of its subscription.
WillBeTold(t) ==
  t.serve \in {"looked", "streaming"} /\ t.sub = "left" => t.torn

\* What a step may do to a topic: what it does to the topic itself, and
\* leaving its messages or dropping them.
Moved(t, u) == u \in Topic /\ WillBeTold(u) /\ u.chan \in {t.chan, <<>>}

LEMMA UnusedIs ==
  /\ Unused \in Topic /\ WillBeTold(Unused) /\ Unused.chan = <<>>
BY DEF Unused, Topic, WillBeTold

LEMMA SettledMoves ==
  ASSUME NEW t \in Topic, WillBeTold(t)
  PROVE  Moved(t, Settled(t))
BY UnusedIs DEF Settled, Moved

LEMMA LeftMoves ==
  ASSUME NEW t \in Topic
  PROVE  Moved(t, Left(t))
<1> DEFINE u == [t EXCEPT !.sub = "left", !.chan = <<>>, !.torn = t.serve \in Serving]
<1>1. u \in Topic
  <2>1. <<>> \in Seq([sotw : BOOLEAN, trades : Contents])
    OBVIOUS
  <2>2. (t.serve \in Serving) \in BOOLEAN
    OBVIOUS
  <2> HIDE DEF Contents
  <2> QED
    BY <2>1, <2>2, Zenon DEF Topic
<1>2. u.chan = <<>> /\ u.serve = t.serve /\ u.torn = (t.serve \in Serving)
  BY DEF Topic
<1>3. WillBeTold(u)
  BY <1>2 DEF WillBeTold, Serving
<1>4. Left(t) = Settled(u)
  BY DEF Left
<1> HIDE DEF u
<1> QED
  BY <1>1, <1>2, <1>3, <1>4, SettledMoves DEF Moved

LEMMA DisposedMoves ==
  ASSUME NEW t \in Topic, WillBeTold(t)
  PROVE  Moved(t, Disposed(t))
BY LeftMoves DEF Disposed, Moved

-----------------------------------------------------------------------------
(* Notices of the end of a trade.                                          *)

Tells(m, id) == ~m.sotw /\ id \in DOMAIN m.trades /\ m.trades[id] \in Finals

HasEnded(id) == id \in DOMAIN book /\ book[id] \in Finals

\* The end of a trade is told only once it is in the book, at most once on a
\* topic, and not on the topic of the operation when it was notified already.
NoticeInv ==
  /\ \A id \in Ids : notified[id] \in {0, 1} /\ (notified[id] = 1 => HasEnded(id))
  /\ \A t \in Topics, id \in Ids : \A n \in DOMAIN topics[t].chan :
       Tells(topics[t].chan[n], id) =>
         /\ HasEnded(id)
         /\ t = op.topic => notified[id] = 0
         /\ \A k \in DOMAIN topics[t].chan : Tells(topics[t].chan[k], id) => k = n

BlotterInv ==
  Typed /\ NoticeInv /\ \A t \in Topics : WillBeTold(topics[t])

\* Messages are kept, dropped, or taken from the front; a state of the world
\* may be added.
Quiet(c, d) ==
  \E off \in {0, 1} : \A n \in DOMAIN d :
    d[n].sotw \/ (n + off \in DOMAIN c /\ d[n] = c[n + off])

LEMMA MovedIsQuiet ==
  ASSUME NEW t \in Topic, NEW u, Moved(t, u)
  PROVE  u \in Topic /\ WillBeTold(u) /\ Quiet(t.chan, u.chan)
<1>1. CASE u.chan = t.chan
  <2>1. \A n \in DOMAIN u.chan : n + 0 = n
    BY <1>1 DEF Topic
  <2> QED
    BY <1>1, <2>1 DEF Moved, Quiet
<1>2. CASE u.chan = <<>>
  BY <1>2 DEF Moved, Quiet
<1> QED
  BY <1>1, <1>2 DEF Moved

LEMMA PublishIsQuiet ==
  ASSUME NEW t \in Topic, WillBeTold(t), NEW ids \in SUBSET DOMAIN book, Typed,
         NEW sotw \in BOOLEAN
  PROVE  LET m == Message(sotw, ids, book)
             u == Publish(t, m)
         IN /\ m \in [sotw : BOOLEAN, trades : Contents]
            /\ u \in Topic /\ WillBeTold(u) /\ u.serve = t.serve /\ u.sub = t.sub
            /\ u.torn = t.torn
            /\ u.chan \in {t.chan, Append(t.chan, m)}
            /\ sotw => Quiet(t.chan, u.chan)
<1> DEFINE m == Message(sotw, ids, book)
           u == Publish(t, m)
           Messages == [sotw : BOOLEAN, trades : Contents]
<1>1. m.trades \in Contents
  <2>1. DOMAIN book \subseteq Ids /\ \A id \in DOMAIN book : book[id] \in TradeStatuses
    BY BlotterAssumption DEF Typed, Ids
  <2>2. [id \in ids |-> book[id]] \in [ids -> TradeStatuses] /\ ids \in SUBSET Ids
    BY <2>1
  <2> QED
    BY <2>2 DEF Contents, Message
<1>2. m \in Messages /\ m.sotw = sotw
  BY <1>1 DEF Message
<1> HIDE DEF m
<1>3. t.chan \in Seq(Messages)
  BY DEF Topic
<1>4. Append(t.chan, m) \in Seq(Messages)
  BY <1>2, <1>3
<1>5. /\ u \in Topic /\ u.serve = t.serve /\ u.sub = t.sub /\ u.torn = t.torn
      /\ u.chan \in {t.chan, Append(t.chan, m)}
  BY <1>4 DEF Publish, Topic
<1>6. WillBeTold(u)
  BY <1>5 DEF WillBeTold
<1>7. ASSUME sotw PROVE Quiet(t.chan, u.chan)
  <2>1. CASE u.chan = t.chan
    BY <1>5, <1>6, <2>1, MovedIsQuiet DEF Moved
  <2>2. CASE u.chan = Append(t.chan, m)
    <3>1. \A n \in DOMAIN u.chan : \/ n \in DOMAIN t.chan /\ u.chan[n] = t.chan[n]
                                   \/ u.chan[n] = m
      BY <1>2, <1>3, <2>2
    <3>2. \A n \in DOMAIN u.chan : n + 0 = n
      BY <1>4, <2>2
    <3> QED
      BY <1>2, <1>7, <3>1, <3>2 DEF Quiet
  <2> QED
    BY <1>5, <2>1, <2>2
<1> QED
  BY <1>2, <1>5, <1>6, <1>7 DEF m

\* The invariant through a step that adds no notice of an end.
LEMMA QuietKeepsInv ==
  ASSUME BlotterInv,
         topics' \in [Topics -> Topic],
         \A t \in Topics : /\ WillBeTold(topics'[t])
                           /\ Quiet(topics[t].chan, topics'[t].chan),
         op'.topic \in Topics \cup {NoTopic},
         op'.status = "asked" => op'.topic # NoTopic,
         op'.topic \in Topics =>
           op'.topic = op.topic \/ topics'[op'.topic].chan = <<>>,
         book' = book, notified' = notified
  PROVE  BlotterInv'
<1>1. Typed'
  BY DEF BlotterInv, Typed
<1>2. ASSUME NEW t \in Topics, NEW id \in Ids, NEW n \in DOMAIN topics'[t].chan,
             Tells(topics'[t].chan[n], id)
      PROVE  /\ HasEnded(id)
             /\ t = op'.topic => notified[id] = 0
             /\ \A k \in DOMAIN topics'[t].chan : Tells(topics'[t].chan[k], id) => k = n
  <2>1. PICK off \in {0, 1} : \A k \in DOMAIN topics'[t].chan :
          \/ topics'[t].chan[k].sotw
          \/ k + off \in DOMAIN topics[t].chan
             /\ topics'[t].chan[k] = topics[t].chan[k + off]
    BY DEF Quiet
  <2>2. \A k \in DOMAIN topics'[t].chan : Tells(topics'[t].chan[k], id) =>
          /\ k + off \in DOMAIN topics[t].chan
          /\ Tells(topics[t].chan[k + off], id)
    BY <2>1 DEF Tells
  <2>3. \A k \in DOMAIN topics'[t].chan : k \in Nat
    BY DEF Topic
  <2>4. /\ HasEnded(id)
        /\ t = op.topic => notified[id] = 0
        /\ \A k \in DOMAIN topics[t].chan : Tells(topics[t].chan[k], id) => k = n + off
    BY <1>2, <2>2 DEF BlotterInv, NoticeInv
  <2>5. \A k \in DOMAIN topics'[t].chan :
          Tells(topics'[t].chan[k], id) => k + off = n + off
    BY <2>2, <2>4
  <2>6. t = op'.topic => t = op.topic
    BY <1>2
  <2> QED
    BY <2>3, <2>4, <2>5, <2>6
<1>3. NoticeInv'
  BY <1>2 DEF BlotterInv, NoticeInv, HasEnded
<1> QED
  BY <1>1, <1>3 DEF BlotterInv

-----------------------------------------------------------------------------
(* The steps.                                                              *)

LEMMA BlotterInvInit == Init => BlotterInv
<1> SUFFICES ASSUME Init PROVE BlotterInv
  OBVIOUS
<1>1. Typed
  BY UnusedIs, BlotterAssumption DEF Init, Typed, NotAsking
<1>2. NoticeInv
  BY UnusedIs DEF Init, NoticeInv
<1>3. \A t \in Topics : WillBeTold(topics[t])
  BY UnusedIs DEF Init
<1> QED
  BY <1>1, <1>2, <1>3 DEF BlotterInv

\* Every topic moves, or only some of them.
LEMMA MovesKeepInv ==
  ASSUME BlotterInv,
         topics' \in [Topics -> Topic],
         \A t \in Topics : Moved(topics[t], topics'[t]) \/ topics'[t] = topics[t],
         op'.topic \in {op.topic, NoTopic},
         op'.status = "asked" => op'.topic # NoTopic,
         book' = book, notified' = notified
  PROVE  BlotterInv'
<1>1. \A t \in Topics : topics[t] \in Topic /\ WillBeTold(topics[t])
  BY DEF BlotterInv, Typed
<1>2. \A t \in Topics : Moved(topics[t], topics'[t])
  BY <1>1 DEF Moved
<1>3. \A t \in Topics : WillBeTold(topics'[t]) /\ Quiet(topics[t].chan, topics'[t].chan)
  BY <1>1, <1>2, MovedIsQuiet
<1> QED
  BY <1>3, QuietKeepsInv, BlotterAssumption DEF BlotterInv, Typed

LEMMA AskKeepsInv ==
  ASSUME BlotterInv, NEW i, Ask(i), book' = book, notified' = notified
  PROVE  BlotterInv'
<1> DEFINE t == CHOOSE u \in Topics : topics[u] = Unused
           u == [topics[t] EXCEPT !.sub = "asked",
                                  !.serve = IF i = instance /\ link = "open"
                                            THEN "called" ELSE "none"]
<1>1. t \in Topics /\ topics[t] = Unused
  BY DEF Ask
<1>2. op' = [status |-> "asked", topic |-> t, instance |-> i]
      /\ topics' = [topics EXCEPT ![t] = u]
  BY DEF Ask
<1>3. u \in Topic /\ WillBeTold(u) /\ u.chan = <<>>
  BY <1>1, UnusedIs DEF Topic, WillBeTold, Serving
<1> HIDE DEF u, t
<1>4. topics \in [Topics -> Topic] /\ \A v \in Topics : WillBeTold(topics[v])
  BY DEF BlotterInv, Typed
<1>5. \A v \in Topics : WillBeTold(topics'[v]) /\ Quiet(topics[v].chan, topics'[v].chan)
  <2> TAKE v \in Topics
  <2>1. CASE v = t
    BY <1>2, <1>3, <1>4, <2>1 DEF Quiet
  <2>2. CASE v # t
    BY <1>2, <1>4, <2>2, MovedIsQuiet DEF Moved
  <2> QED
    BY <2>1, <2>2
<1>6. topics' \in [Topics -> Topic] /\ topics'[t].chan = <<>> /\ op'.topic = t
  BY <1>1, <1>2, <1>3, <1>4
<1> QED
  BY <1>1, <1>5, <1>6, QuietKeepsInv, BlotterAssumption

LEMMA LookUpKeepsInv ==
  ASSUME BlotterInv, LookUp, book' = book, notified' = notified
  PROVE  BlotterInv'
<1>1. CASE op' = NotAsking("waiting") /\ UNCHANGED topics
  <2>1. op'.topic = NoTopic /\ op'.status # "asked"
    BY <1>1 DEF NotAsking
  <2> QED
    BY <1>1, <2>1, MovesKeepInv DEF BlotterInv, Typed
<1> QED
  BY <1>1, AskKeepsInv DEF LookUp

LEMMA FailKeepsInv ==
  ASSUME BlotterInv, op.topic \in Topics, NEW s \in {"failed", "dead"}, Fail(s),
         book' = book, notified' = notified
  PROVE  BlotterInv'
<1>1. op'.topic = NoTopic /\ op'.status # "asked"
  BY DEF Fail, NotAsking
<1>2. topics' = [topics EXCEPT ![op.topic] = Disposed(topics[op.topic])]
  BY DEF Fail
<1>3. topics \in [Topics -> Topic] /\ Moved(topics[op.topic], Disposed(topics[op.topic]))
  BY DisposedMoves DEF BlotterInv, Typed
<1>4. topics' \in [Topics -> Topic]
      /\ \A t \in Topics : Moved(topics[t], topics'[t]) \/ topics'[t] = topics[t]
  BY <1>2, <1>3 DEF Moved
<1> QED
  BY <1>1, <1>4, MovesKeepInv

LEMMA OnCloseKeepsInv ==
  ASSUME BlotterInv, NEW s, OnClose(s)
  PROVE  BlotterInv'
<1>1. /\ op' = IF op.status = "asked" THEN NotAsking("failed") ELSE op
      /\ book' = book /\ notified' = notified
  BY DEF OnClose, OnStatus
<1>2. op'.topic \in {op.topic, NoTopic} /\ (op'.status = "asked" => op'.topic # NoTopic)
  BY <1>1 DEF NotAsking
<1>3. \A t \in Topics : /\ topics'[t] = topics[t] \/ topics'[t] = Left(topics[t])
                        /\ Moved(topics[t], Left(topics[t]))
  BY LeftMoves DEF OnClose, BlotterInv, Typed
<1>4. topics' \in [Topics -> Topic]
      /\ \A t \in Topics : Moved(topics[t], topics'[t]) \/ topics'[t] = topics[t]
  <2>1. \A t \in Topics : topics'[t] \in Topic
    BY <1>3 DEF Moved, BlotterInv, Typed
  <2> QED
    BY <1>3, <2>1 DEF OnClose
<1> QED
  BY <1>1, <1>2, <1>4, MovesKeepInv

\* Steps of one topic that change neither its messages nor the operation.
LEMMA OnTopicKeepsInv ==
  ASSUME BlotterInv, NEW t \in Topics, NEW r \in Topic, WillBeTold(r),
         Quiet(topics[t].chan, r.chan),
         topics' = [topics EXCEPT ![t] = r], op' = op, book' = book, notified' = notified
  PROVE  BlotterInv'
<1>1. topics \in [Topics -> Topic] /\ \A v \in Topics : WillBeTold(topics[v])
  BY DEF BlotterInv, Typed
<1>2. topics' \in [Topics -> Topic]
  BY <1>1
<1>3. \A v \in Topics : WillBeTold(topics'[v]) /\ Quiet(topics[v].chan, topics'[v].chan)
  <2> TAKE v \in Topics
  <2>1. CASE v = t
    BY <1>1, <2>1
  <2>2. CASE v # t
    BY <1>1, <2>2, MovedIsQuiet DEF Moved
  <2> QED
    BY <2>1, <2>2
<1> QED
  BY <1>2, <1>3, QuietKeepsInv DEF BlotterInv, Typed

LEMMA SettledIsQuiet ==
  ASSUME NEW c, NEW r \in Topic, WillBeTold(r), Quiet(c, r.chan)
  PROVE  Settled(r) \in Topic /\ WillBeTold(Settled(r)) /\ Quiet(c, Settled(r).chan)
<1>1. Settled(r) = r \/ Settled(r) = Unused
  BY DEF Settled
<1>2. Quiet(c, <<>>)
  BY DEF Quiet
<1> QED
  BY <1>1, <1>2, UnusedIs

\* The first message of a topic is taken from it.
LEMMA PopIs ==
  ASSUME Typed, NEW t \in Topics, topics[t].chan # <<>>, WillBeTold(topics[t])
  PROVE  LET r == [topics[t] EXCEPT !.chan = Tail(@)]
         IN /\ Pop(t) = [topics EXCEPT ![t] = r]
            /\ r \in Topic /\ WillBeTold(r) /\ r.chan = Tail(topics[t].chan)
            /\ Quiet(topics[t].chan, r.chan)
<1> DEFINE r == [topics[t] EXCEPT !.chan = Tail(@)]
           c == topics[t].chan
<1>1. topics[t] \in Topic /\ c \in Seq([sotw : BOOLEAN, trades : Contents])
  BY DEF Typed, Topic
<1>2. Tail(c) \in Seq([sotw : BOOLEAN, trades : Contents])
  BY <1>1
<1>3. r \in Topic /\ r.chan = Tail(c) /\ r.serve = topics[t].serve
      /\ r.sub = topics[t].sub /\ r.torn = topics[t].torn
  BY <1>1, <1>2 DEF Topic
<1>4. \A n \in DOMAIN Tail(c) : n + 1 \in DOMAIN c /\ Tail(c)[n] = c[n + 1]
  BY <1>1
<1>5. Quiet(c, r.chan)
  BY <1>3, <1>4 DEF Quiet
<1> QED
  BY <1>3, <1>5 DEF Pop, WillBeTold

\* The notices of a message are the first of their trades, and the last.
LEMMA NotifyKeepsInv ==
  ASSUME BlotterInv, NEW t \in Topics, t = op.topic, topics[t].chan # <<>>,
         topics' = Pop(t), notified' = Notified(Head(topics[t].chan)),
         op' = op, book' = book
  PROVE  BlotterInv'
<1> DEFINE m == Head(topics[t].chan)
           c == topics[t].chan
           r == [topics[t] EXCEPT !.chan = Tail(@)]
<1>1. /\ Typed /\ topics \in [Topics -> Topic] /\ notified \in [Ids -> Nat]
      /\ \A v \in Topics : WillBeTold(topics[v])
  BY DEF BlotterInv, Typed
<1>2. topics' = [topics EXCEPT ![t] = r] /\ r \in Topic /\ WillBeTold(r)
      /\ r.chan = Tail(c)
  BY <1>1, PopIs
<1>3. c \in Seq([sotw : BOOLEAN, trades : Contents]) /\ 1 \in DOMAIN c /\ m = c[1]
  <2>1. topics[t].chan \in Seq([sotw : BOOLEAN, trades : Contents])
    BY <1>1 DEF Topic
  <2> QED
    BY <2>1
<1>4. \A n \in DOMAIN Tail(c) : n + 1 \in DOMAIN c /\ Tail(c)[n] = c[n + 1] /\ n + 1 # 1
                                /\ n \in Nat
  BY <1>3
<1>5. \A id \in Ids : notified'[id] = notified[id] + IF Tells(m, id) THEN 1 ELSE 0
  <2>1. CASE m.sotw
    BY <1>1, <2>1 DEF Notified, Tells
  <2>2. CASE ~m.sotw
    <3>1. notified' = [id \in Ids |-> notified[id] + IF id \in Ended(m) THEN 1 ELSE 0]
      BY <2>2 DEF Notified
    <3>2. \A id \in Ids : id \in Ended(m) <=> Tells(m, id)
      BY <2>2 DEF Ended, Tells
    <3> QED
      BY <3>1, <3>2
  <2> QED
    BY <2>1, <2>2
<1> HIDE DEF r
<1>6. Typed'
  <2>1. notified' \in [Ids -> Nat]
    BY <1>1 DEF Notified
  <2> QED
    BY <1>1, <1>2, <2>1 DEF Typed
<1>7. \A v \in Topics : topics'[v] = IF v = t THEN r ELSE topics[v]
  BY <1>1, <1>2
<1>8. ASSUME NEW id \in Ids, Tells(m, id)
      PROVE  /\ HasEnded(id) /\ notified[id] = 0
             /\ \A k \in DOMAIN c : Tells(c[k], id) => k = 1
  BY <1>3, <1>8 DEF BlotterInv, NoticeInv
<1>9. \A id \in Ids : notified'[id] \in {0, 1} /\ (notified'[id] = 1 => HasEnded(id)')
  <2> TAKE id \in Ids
  <2>1. notified[id] \in {0, 1} /\ (notified[id] = 1 => HasEnded(id))
    BY DEF BlotterInv, NoticeInv
  <2>2. HasEnded(id)' = HasEnded(id)
    BY DEF HasEnded
  <2> QED
    BY <1>5, <1>8, <2>1, <2>2
<1>10. ASSUME NEW v \in Topics, NEW id \in Ids, NEW n \in DOMAIN topics'[v].chan,
              Tells(topics'[v].chan[n], id)
       PROVE  /\ HasEnded(id)'
              /\ v = op'.topic => notified'[id] = 0
              /\ \A k \in DOMAIN topics'[v].chan : Tells(topics'[v].chan[k], id) => k = n
  <2>1. HasEnded(id)' = HasEnded(id)
    BY DEF HasEnded
  <2>2. CASE v # t
    BY <1>7, <1>10, <2>1, <2>2 DEF BlotterInv, NoticeInv
  <2>3. CASE v = t
    <3>1. topics'[v].chan = Tail(c)
      BY <1>2, <1>7, <2>3
    <3>2. n + 1 \in DOMAIN c /\ Tells(c[n + 1], id)
      BY <1>4, <1>10, <3>1
    <3>3. /\ HasEnded(id) /\ notified[id] = 0
          /\ \A k \in DOMAIN c : Tells(c[k], id) => k = n + 1
      BY <3>2 DEF BlotterInv, NoticeInv
    <3>4. ~Tells(m, id)
      BY <1>3, <1>4, <1>10, <3>1, <3>3
    <3>5. \A k \in DOMAIN Tail(c) : Tells(Tail(c)[k], id) => k + 1 = n + 1
      BY <1>4, <3>3
    <3>6. \A k \in DOMAIN Tail(c) : Tells(Tail(c)[k], id) => k = n
      <4>1. n \in Nat /\ \A k \in DOMAIN Tail(c) : k \in Nat
        BY <1>4, <1>10, <3>1
      <4> QED
        BY <3>5, <4>1
    <3> QED
      BY <1>5, <2>1, <3>1, <3>3, <3>4, <3>6
  <2> QED
    BY <2>2, <2>3
<1>11. NoticeInv'
  BY <1>9, <1>10 DEF NoticeInv
<1> QED
  BY <1>1, <1>2, <1>6, <1>7, <1>11 DEF BlotterInv

LEMMA ReceiveKeepsInv ==
  ASSUME BlotterInv, NEW t \in Topics, Receive(t)
  PROVE  BlotterInv'
<1> DEFINE m == Head(topics[t].chan)
<1>1. topics[t].chan # <<>> /\ book' = book /\ Typed /\ WillBeTold(topics[t])
  BY DEF Receive, BlotterInv
<1>2. CASE t # op.topic /\ topics' = Pop(t) /\ UNCHANGED <<op, viewVars>>
  <2> DEFINE r == [topics[t] EXCEPT !.chan = Tail(@)]
  <2>1. /\ topics' = [topics EXCEPT ![t] = r] /\ r \in Topic /\ WillBeTold(r)
        /\ Quiet(topics[t].chan, r.chan)
    BY <1>1, <1>2, PopIs
  <2> HIDE DEF r
  <2> QED
    BY <1>1, <1>2, <2>1, OnTopicKeepsInv DEF viewVars
<1>3. CASE t = op.topic /\ Fail("dead") /\ UNCHANGED viewVars
  BY <1>1, <1>3, FailKeepsInv DEF viewVars
<1>4. CASE t = op.topic /\ topics' = Pop(t) /\ notified' = Notified(m) /\ op' = op
  BY <1>1, <1>4, NotifyKeepsInv
<1> QED
  BY <1>2, <1>3, <1>4 DEF Receive

\* A trade that ends was pending: nothing has told of its end before.
LEMMA BookChangesKeepsInv ==
  ASSUME BlotterInv, NEW id \in Ids, NEW st \in TradeStatuses, BookChanges(id, st)
  PROVE  BlotterInv'
<1> DEFINE b == IF id \in DOMAIN book THEN [book EXCEPT ![id] = st] ELSE Append(book, st)
           m == Message(FALSE, {id}, b)
           Messages == [sotw : BOOLEAN, trades : Contents]
           streams(t) == topics[t].serve \in {"streaming", "orphan"}
<1>1. /\ Typed /\ topics \in [Topics -> Topic]
      /\ \A t \in Topics : WillBeTold(topics[t])
      /\ book \in Seq(TradeStatuses) /\ Len(book) <= MaxTrades
      /\ MaxTrades \in Nat /\ id \in Nat /\ id <= MaxTrades /\ id >= 1
  BY BlotterAssumption DEF BlotterInv, Typed, Ids
<1>2. /\ op' = op /\ notified' = notified /\ book' = b
      /\ topics' = [t \in Topics |-> IF streams(t) THEN Publish(topics[t], m) ELSE topics[t]]
      /\ IF id \in DOMAIN book THEN book[id] = "Pending" /\ st # "Pending"
         ELSE id = Len(book) + 1 /\ st = "Pending"
  BY DEF BookChanges, viewVars
<1>3. /\ b \in Seq(TradeStatuses) /\ Len(b) <= MaxTrades /\ id \in DOMAIN b /\ b[id] = st
      /\ \A q \in DOMAIN book : q \in DOMAIN b /\ (q # id => b[q] = book[q])
  <2>1. CASE id \in DOMAIN book
    BY <1>1, <2>1
  <2>2. CASE id \notin DOMAIN book
    BY <1>1, <1>2, <2>2
  <2> QED
    BY <2>1, <2>2
<1>4. id \in DOMAIN book => ~HasEnded(id)
  BY <1>2, BlotterAssumption DEF HasEnded
<1>5. \A q \in Ids : HasEnded(q) => q # id /\ HasEnded(q)'
  BY <1>2, <1>3, <1>4 DEF HasEnded
<1>6. m \in Messages /\ ~m.sotw /\ DOMAIN m.trades = {id} /\ m.trades[id] = st
  <2> DEFINE f == [q \in {id} |-> b[q]]
  <2>1. f \in [{id} -> TradeStatuses] /\ DOMAIN f = {id} /\ f[id] = st
    BY <1>3
  <2>2. m = [sotw |-> FALSE, trades |-> f]
    BY DEF Message
  <2> HIDE DEF b, f, m
  <2>3. f \in Contents
    BY <2>1 DEF Contents
  <2> QED
    BY <2>1, <2>2, <2>3
<1> HIDE DEF b, m
<1>7. \A q : Tells(m, q) <=> q = id /\ st \in Finals
  BY <1>6 DEF Tells
<1>8. st \in Finals => HasEnded(id)' /\ notified[id] = 0
  <2>1. notified[id] \in {0, 1} /\ (notified[id] = 1 => HasEnded(id))
    BY DEF BlotterInv, NoticeInv
  <2> QED
    BY <1>2, <1>3, <1>5, <2>1 DEF HasEnded
<1>9. ASSUME NEW t \in Topics
      PROVE  LET c == topics[t].chan d == topics'[t].chan IN
             /\ topics'[t] \in Topic /\ WillBeTold(topics'[t])
             /\ d \in {c, Append(c, m)} /\ c \in Seq(Messages)
  <2>1. topics[t] \in Topic /\ WillBeTold(topics[t]) /\ topics[t].chan \in Seq(Messages)
    BY <1>1 DEF Topic
  <2>2. Append(topics[t].chan, m) \in Seq(Messages)
    BY <1>6, <2>1
  <2>3. LET u == Publish(topics[t], m) IN
        /\ u \in Topic /\ u.serve = topics[t].serve /\ u.sub = topics[t].sub
        /\ u.torn = topics[t].torn /\ u.chan \in {topics[t].chan, Append(topics[t].chan, m)}
    BY <2>1, <2>2 DEF Publish, Topic
  <2>4. WillBeTold(Publish(topics[t], m))
    BY <2>1, <2>3 DEF WillBeTold
  <2>5. topics'[t] = topics[t] \/ topics'[t] = Publish(topics[t], m)
    BY <1>2
  <2> QED
    BY <2>1, <2>3, <2>4, <2>5
<1>10. ASSUME NEW t \in Topics, NEW q \in Ids, NEW n \in DOMAIN topics'[t].chan,
              Tells(topics'[t].chan[n], q)
       PROVE  /\ HasEnded(q)'
              /\ t = op'.topic => notified'[q] = 0
              /\ \A k \in DOMAIN topics'[t].chan : Tells(topics'[t].chan[k], q) => k = n
  <2> DEFINE c == topics[t].chan
             d == topics'[t].chan
  <2>1. c \in Seq(Messages) /\ d \in {c, Append(c, m)}
    BY <1>9
  <2>2. \A k \in DOMAIN d : \/ k \in DOMAIN c /\ d[k] = c[k]
                            \/ k = Len(c) + 1 /\ d[k] = m
    <3>1. CASE d = c
      BY <3>1
    <3>2. CASE d = Append(c, m)
      <4>1. c \in Seq(Messages) /\ m \in Messages
        BY <1>6, <2>1
      <4> HIDE DEF c, Messages
      <4> QED
        BY <3>2, <4>1
    <3> QED
      BY <2>1, <3>1, <3>2
  <2>3. \A k \in DOMAIN c : Tells(c[k], q) =>
          /\ HasEnded(q)
          /\ t = op.topic => notified[q] = 0
          /\ \A j \in DOMAIN c : Tells(c[j], q) => j = k
    BY DEF BlotterInv, NoticeInv
  <2> HIDE DEF c, d
  <2>4. CASE q = id
    <3>1. \A k \in DOMAIN c : ~Tells(c[k], q)
      BY <1>5, <2>3, <2>4
    <3>2. \A k \in DOMAIN d : Tells(d[k], q) => k = Len(c) + 1 /\ Tells(m, q)
      BY <2>2, <3>1
    <3>3. HasEnded(q)' /\ notified'[q] = 0
      BY <1>2, <1>7, <1>8, <1>10, <2>4, <3>2 DEF d
    <3> QED
      BY <1>10, <3>2, <3>3 DEF d
  <2>5. CASE q # id
    <3>1. \A k \in DOMAIN d : Tells(d[k], q) => k \in DOMAIN c /\ Tells(c[k], q)
      BY <1>7, <2>2, <2>5
    <3>2. n \in DOMAIN c /\ Tells(c[n], q)
      BY <1>10, <3>1 DEF d
    <3>3. HasEnded(q)' /\ (t = op'.topic => notified'[q] = 0)
      BY <1>2, <1>5, <2>3, <3>2
    <3>4. \A k \in DOMAIN d : Tells(d[k], q) => k = n
      BY <2>3, <3>1, <3>2
    <3> QED
      BY <3>3, <3>4 DEF d
  <2> QED
    BY <2>4, <2>5
<1>11. NoticeInv'
  <2>1. \A q \in Ids : notified'[q] \in {0, 1} /\ (notified'[q] = 1 => HasEnded(q)')
    BY <1>2, <1>5 DEF BlotterInv, NoticeInv
  <2> QED
    BY <1>10, <2>1 DEF NoticeInv
<1>12. Typed'
  <2>1. topics' \in [Topics -> Topic]
    BY <1>2, <1>9
  <2> QED
    BY <1>1, <1>2, <1>3, <2>1 DEF Typed
<1> QED
  BY <1>9, <1>11, <1>12 DEF BlotterInv

LEMMA ServerKeepsInv ==
  ASSUME BlotterInv, NEW t \in Topics,
         GetPrivateEndPoint(t) \/ StreamTrades(t) \/ Resend(t) \/ TearDown(t)
  PROVE  BlotterInv'
<1> DEFINE r == topics[t]
           m == Message(TRUE, LastTrades, book)
<1>1. r \in Topic /\ WillBeTold(r) /\ Typed
  BY DEF BlotterInv, Typed
<1>2. LastTrades \in SUBSET DOMAIN book
  BY DEF LastTrades
<1>3. /\ Publish(r, m) \in Topic /\ WillBeTold(Publish(r, m))
      /\ Publish(r, m).serve = r.serve /\ Publish(r, m).sub = r.sub
      /\ Publish(r, m).torn = r.torn /\ Quiet(r.chan, Publish(r, m).chan)
  BY <1>1, <1>2, PublishIsQuiet
<1> HIDE DEF m
<1>4. ASSUME NEW u \in Topic, WillBeTold(u), Quiet(r.chan, u.chan), OnTopic(t, u)
      PROVE  BlotterInv'
  BY <1>4, SettledIsQuiet, OnTopicKeepsInv DEF OnTopic, viewVars
<1>5. Quiet(r.chan, r.chan)
  BY <1>1, MovedIsQuiet DEF Moved
<1>6. CASE GetPrivateEndPoint(t)
  <2> DEFINE s == IF r.sub \in {"asked", "acked"} THEN "looked" ELSE "ended"
             u == [r EXCEPT !.serve = s]
  <2>1. u \in Topic /\ u.sub = r.sub /\ u.chan = r.chan /\ u.serve = s
    BY <1>1 DEF Topic, Serving
  <2>2. OnTopic(t, u)
    BY <1>6 DEF GetPrivateEndPoint
  <2>3. WillBeTold(u)
    BY <2>1 DEF WillBeTold
  <2> HIDE DEF u
  <2> QED
    BY <1>4, <1>5, <2>1, <2>2, <2>3
<1>7. CASE StreamTrades(t)
  <2> DEFINE s == IF r.serve = "looked" THEN "streaming" ELSE "orphan"
             p == Publish(r, m)
             u == [p EXCEPT !.serve = s]
  <2>1. u \in Topic /\ u.sub = p.sub /\ u.chan = p.chan /\ u.serve = s /\ u.torn = p.torn
    BY <1>3 DEF Topic, Serving
  <2>2. OnTopic(t, u)
    BY <1>7 DEF StreamTrades, m
  <2>3. WillBeTold(u)
    BY <1>1, <1>3, <2>1 DEF WillBeTold
  <2> HIDE DEF u, p
  <2> QED
    BY <1>3, <1>4, <2>1, <2>2, <2>3 DEF p
<1>8. CASE Resend(t)
  BY <1>3, <1>4, <1>8 DEF Resend, m
<1>9. CASE TearDown(t)
  <2> DEFINE s == CASE r.serve = "streaming" -> "ended" [] r.serve = "looked" -> "late"
                    [] OTHER -> r.serve
             u == [r EXCEPT !.torn = FALSE, !.serve = s]
  <2>1. s \notin {"looked", "streaming"} /\ s \in Serving \cup {"none", "ended"}
    BY <1>1 DEF Topic, Serving
  <2>2. OnTopic(t, u)
    BY <1>9 DEF TearDown
  <2> HIDE DEF s
  <2>3. u \in Topic /\ u.sub = r.sub /\ u.chan = r.chan /\ u.serve = s
    BY <1>1, <2>1 DEF Topic
  <2>4. WillBeTold(u)
    BY <2>1, <2>3 DEF WillBeTold
  <2> HIDE DEF u
  <2> QED
    BY <1>4, <1>5, <2>2, <2>3, <2>4
<1> QED
  BY <1>6, <1>7, <1>8, <1>9

LEMMA CrashKeepsInv ==
  ASSUME BlotterInv, Crash
  PROVE  BlotterInv'
<1> DEFINE end(t) == [topics[t] EXCEPT !.torn = FALSE,
                        !.serve = IF @ \in Serving \ {"called"} THEN "ended" ELSE "none"]
<1>1. ASSUME NEW t \in Topics
      PROVE  Moved(topics[t], Settled(end(t)))
  <2>1. topics[t] \in Topic
    BY DEF BlotterInv, Typed
  <2>2. /\ end(t) \in Topic /\ end(t).chan = topics[t].chan
        /\ end(t).serve \in {"ended", "none"}
    BY <2>1 DEF Topic
  <2>3. WillBeTold(end(t))
    BY <2>2 DEF WillBeTold
  <2> HIDE DEF end
  <2> QED
    BY <2>2, <2>3, SettledMoves DEF Moved
<1>2. topics' = [t \in Topics |-> Settled(end(t))]
      /\ UNCHANGED <<op, book, notified>>
  BY DEF Crash, viewVars
<1> HIDE DEF end
<1>3. topics' \in [Topics -> Topic]
  BY <1>1, <1>2 DEF Moved
<1> QED
  BY <1>1, <1>2, <1>3, MovesKeepInv DEF BlotterInv, Typed

LEMMA AckKeepsInv ==
  ASSUME BlotterInv, NEW t \in Topics, Ack(t)
  PROVE  BlotterInv'
<1> DEFINE u == [topics[t] EXCEPT !.sub = "acked"]
<1>1. topics[t] \in Topic
  BY DEF BlotterInv, Typed
<1>2. u \in Topic /\ u.chan = topics[t].chan /\ u.sub = "acked"
  BY <1>1 DEF Topic
<1>3. WillBeTold(u) /\ Quiet(topics[t].chan, topics[t].chan)
  BY <1>1, <1>2, MovedIsQuiet DEF WillBeTold, Moved, BlotterInv
<1>4. topics' = [topics EXCEPT ![t] = u] /\ UNCHANGED <<op, book, notified>>
  BY DEF Ack, viewVars
<1> HIDE DEF u
<1> QED
  BY <1>2, <1>3, <1>4, OnTopicKeepsInv

LEMMA BlotterInvStep == BlotterInv /\ [Next]_vars => BlotterInv'
<1> SUFFICES ASSUME BlotterInv, [Next]_vars PROVE BlotterInv'
  OBVIOUS
<1>1. ASSUME UNCHANGED <<topics, op, book, notified>> PROVE BlotterInv'
  BY <1>1 DEF BlotterInv, Typed, NoticeInv, HasEnded
<1>2. CASE Connect \/ OnOpen \/ Unreachable \/ Expire \/ UNCHANGED vars
  BY <1>1, <1>2 DEF Connect, OnOpen, Unreachable, Expire, viewVars, vars
<1>3. CASE Lost \/ Closed
  BY <1>3, OnCloseKeepsInv DEF Lost, Closed
<1>4. CASE Heartbeat
  <2>1. book' = book /\ notified' = notified /\ (Ask(instance) \/ UNCHANGED <<op, topics>>)
    BY <1>4 DEF Heartbeat, OnStatus, Hear
  <2> QED
    BY <1>1, <2>1, AskKeepsInv
<1>5. CASE \E i \in seen : MissHeartbeats(i)
  BY <1>1, <1>5 DEF MissHeartbeats, OnStatus
<1>6. CASE OpMissesHeartbeats \/ RpcFails
  <2>1. op.topic \in Topics /\ Fail("failed") /\ UNCHANGED <<book, notified>>
    BY <1>6 DEF OpMissesHeartbeats, RpcFails, viewVars, BlotterInv, Typed
  <2> QED
    BY <2>1, FailKeepsInv
<1>7. CASE Subscribe \/ Retry
  BY <1>7, LookUpKeepsInv DEF Subscribe, Retry, viewVars
<1>8. ASSUME NEW t \in Topics, Ack(t) \/ Receive(t) PROVE BlotterInv'
  BY <1>8, AckKeepsInv, ReceiveKeepsInv
<1>9. CASE \E id \in Fickle : PairChanges(id)
  BY <1>1, <1>9 DEF PairChanges, viewVars
<1>10. CASE \E id \in Ids, st \in {"Pending"} \cup Finals : BookChanges(id, st)
  BY <1>10, BookChangesKeepsInv DEF TradeStatuses
<1>11. CASE \E t \in Topics : \/ GetPrivateEndPoint(t) \/ StreamTrades(t)
                              \/ Resend(t) \/ TearDown(t)
  BY <1>11, ServerKeepsInv
<1>12. CASE Crash
  BY <1>12, CrashKeepsInv
<1> QED
  BY <1>2, <1>3, <1>4, <1>5, <1>6, <1>7, <1>8, <1>9, <1>10, <1>11, <1>12 DEF Next

LEMMA BlotterInvariant == Spec => []BlotterInv
BY BlotterInvInit, BlotterInvStep, PTL DEF Spec

\* A stream of the server whose topic has lost its subscriber will be told,
\* for any number of topics, crashes and lost sessions (Broker.cs:117-140).
THEOREM StreamsAreEnded == Spec => []StreamsEndWithTopics
<1>1. BlotterInv => StreamsEndWithTopics
  BY DEF BlotterInv, WillBeTold, StreamsEndWithTopics
<1> QED
  BY <1>1, BlotterInvariant, PTL

\* The end of a trade is notified once at most, for any number of trades and
\* whatever is sent again (blotterModel.js:125).
THEOREM EndsAreNotifiedOnce == Spec => []NotifiedOnce
<1>1. BlotterInv => NotifiedOnce
  BY DEF BlotterInv, NoticeInv, NotifiedOnce
<1> QED
  BY <1>1, BlotterInvariant, PTL

-----------------------------------------------------------------------------
(* What the client holds of the session.                                    *)

Subscribed == {"asked", "acked"}

\* An operation that has asked has a topic, over a connection; what serves it
\* is the instance it asked, and unless heartbeats were late the client takes
\* that one for connected.
OpInv ==
  /\ op.status \in {"off", "waiting", "asked", "failed", "dead"}
  /\ (op.status = "asked") <=> op.topic # NoTopic
  /\ op.status = "asked" =>
       /\ Current.sub \in Subscribed
       /\ link \in {"open", "closing"}
       /\ op.instance \in 1..instance
       /\ Current.serve \in Serving => op.instance = instance
       /\ late = 0 /\ op.instance = instance => instance \in seen

SessionInv ==
  /\ LinkInv
  /\ status \in {"idle", "connected", "disconnected", "sessionExpired"}
  /\ instance \in 1..(MaxCrashes + 1) /\ seen \subseteq 1..instance
  /\ seen # {} => link \in {"open", "closing"}
  /\ connected = (seen # {})
  /\ unknown \subseteq Ids /\ late \in Nat
  /\ OpInv

LEMMA SessionInvInit == Init => SessionInv
<1> SUFFICES ASSUME Init PROVE SessionInv
  OBVIOUS
<1>1. LinkInv
  BY DEF Init, LinkInv
<1>2. OpInv
  BY DEF Init, OpInv, NotAsking
<1>3. instance \in 1..(MaxCrashes + 1)
  BY BlotterAssumption DEF Init
<1>4. connected = (seen # {})
  BY DEF Init
<1> QED
  BY <1>1, <1>2, <1>3, <1>4 DEF Init, SessionInv

\* The operation and its topic through a step that does not end it.
LEMMA OpGoesOn ==
  ASSUME OpInv, UNCHANGED <<op, instance, link>>, late \in Nat, late' \in Nat,
         late' >= late,
         late' = 0 /\ instance \in seen => instance \in seen',
         op.status = "asked" =>
           /\ Current'.sub \in Subscribed
           /\ Current'.serve \in Serving => Current.serve \in Serving
  PROVE  OpInv'
BY DEF OpInv

LEMMA AskIsOpInv ==
  ASSUME Typed, NEW i \in 1..instance, Ask(i), link' = link, instance' = instance,
         link \in {"open", "closing"}, i \in seen', late' = late
  PROVE  OpInv'
<1> DEFINE t == CHOOSE u \in Topics : topics[u] = Unused
           u == [topics[t] EXCEPT !.sub = "asked",
                                  !.serve = IF i = instance /\ link = "open"
                                            THEN "called" ELSE "none"]
<1>1. t \in Topics /\ topics[t] = Unused
  BY DEF Ask
<1>2. op' = [status |-> "asked", topic |-> t, instance |-> i]
      /\ topics' = [topics EXCEPT ![t] = u]
  BY DEF Ask
<1>3. u.sub = "asked" /\ (u.serve \in Serving => i = instance)
  BY <1>1, UnusedIs DEF Topic, Serving
<1>4. topics \in [Topics -> Topic] /\ t # NoTopic
  BY <1>1, BlotterAssumption DEF Typed
<1> HIDE DEF u, t
<1>5. Current' = u /\ op'.instance = i /\ op'.topic = t /\ op'.status = "asked"
  BY <1>1, <1>2, <1>4 DEF Current
<1> QED
  BY <1>3, <1>4, <1>5 DEF OpInv, Subscribed

\* What the server's steps do to a topic.
LEMMA ServerServes ==
  ASSUME Typed, NEW t \in Topics, WillBeTold(topics[t]),
         GetPrivateEndPoint(t) \/ StreamTrades(t) \/ Resend(t) \/ TearDown(t)
  PROVE  \E r \in Topic : /\ OnTopic(t, r) /\ r.sub = topics[t].sub
                          /\ r.serve \in Serving => topics[t].serve \in Serving
<1> DEFINE r == topics[t]
           m == Message(TRUE, LastTrades, book)
<1>1. r \in Topic
  BY DEF Typed
<1>2. Publish(r, m) \in Topic /\ Publish(r, m).serve = r.serve /\ Publish(r, m).sub = r.sub
  BY <1>1, PublishIsQuiet DEF LastTrades
<1> HIDE DEF m
<1>3. CASE GetPrivateEndPoint(t)
  <2> DEFINE s == IF r.sub \in {"asked", "acked"} THEN "looked" ELSE "ended"
             u == [r EXCEPT !.serve = s]
  <2>1. u \in Topic /\ u.sub = r.sub /\ r.serve \in Serving
    BY <1>1, <1>3 DEF GetPrivateEndPoint, Topic, Serving
  <2>2. OnTopic(t, u)
    BY <1>3 DEF GetPrivateEndPoint
  <2> HIDE DEF u
  <2> QED
    BY <2>1, <2>2
<1>4. CASE StreamTrades(t)
  <2> DEFINE s == IF r.serve = "looked" THEN "streaming" ELSE "orphan"
             p == Publish(r, m)
             u == [p EXCEPT !.serve = s]
  <2>1. u \in Topic /\ u.sub = r.sub /\ r.serve \in Serving
    BY <1>2, <1>4 DEF StreamTrades, Topic, Serving
  <2>2. OnTopic(t, u)
    BY <1>4 DEF StreamTrades, m
  <2> HIDE DEF u
  <2> QED
    BY <2>1, <2>2
<1>5. CASE Resend(t)
  BY <1>2, <1>5 DEF Resend, m
<1>6. CASE TearDown(t)
  <2> DEFINE s == CASE r.serve = "streaming" -> "ended" [] r.serve = "looked" -> "late"
                    [] OTHER -> r.serve
             u == [r EXCEPT !.torn = FALSE, !.serve = s]
  <2>1. s \in Serving \union {"none", "ended"} /\ (s \in Serving => r.serve \in Serving)
    BY <1>1 DEF Topic, Serving
  <2>2. OnTopic(t, u)
    BY <1>6 DEF TearDown
  <2> HIDE DEF s
  <2>3. u \in Topic /\ u.sub = r.sub /\ u.serve = s
    BY <1>1, <2>1 DEF Topic
  <2> HIDE DEF u
  <2> QED
    BY <2>1, <2>2, <2>3
<1> QED
  BY <1>3, <1>4, <1>5, <1>6

LEMMA SessionInvStep == BlotterInv /\ SessionInv /\ [Next]_vars => SessionInv'
<1> SUFFICES ASSUME BlotterInv, SessionInv, [Next]_vars PROVE SessionInv'
  OBVIOUS
<1>a. Typed /\ OpInv /\ topics \in [Topics -> Topic]
      /\ (op.status = "asked" => op.topic \in Topics)
  BY DEF BlotterInv, Typed, SessionInv
<1>1. LinkInv'
  BY LinkInvStep DEF SessionInv
<1>2. ASSUME UNCHANGED <<link, connectCalled, status, instance, seen, connected, late>>,
             unknown' \subseteq Ids, OpInv'
      PROVE  SessionInv'
  BY <1>1, <1>2 DEF SessionInv
<1>3. ASSUME UNCHANGED <<link, op, instance, seen, late>>,
             op.status = "asked" =>
               /\ topics'[op.topic].sub \in Subscribed
               /\ topics'[op.topic].serve \in Serving => topics[op.topic].serve \in Serving
      PROVE  OpInv'
  <2>1. op.status = "asked" =>
          /\ Current'.sub \in Subscribed
          /\ Current'.serve \in Serving => Current.serve \in Serving
    BY <1>3 DEF Current
  <2> QED
    BY <1>a, <1>3, <2>1, OpGoesOn DEF SessionInv
<1>4. op.status = "asked" => topics[op.topic].sub \in Subscribed
  BY <1>a DEF OpInv, Current
<1>5. CASE Connect
  BY <1>1, <1>5 DEF Connect, SessionInv, LinkInv, OpInv, viewVars
<1>6. CASE OnOpen \/ Unreachable
  BY <1>1, <1>6 DEF OnOpen, Unreachable, SessionInv, LinkInv, OpInv, viewVars
<1>7. CASE Expire
  <2>1. UNCHANGED <<op, instance, seen, late, topics, status, connected, unknown>>
        /\ link = "open" /\ link' = "closing"
    BY <1>7 DEF Expire, Disconnect, viewVars
  <2>2. Current' = Current
    BY <2>1 DEF Current
  <2> QED
    BY <1>1, <2>1, <2>2 DEF SessionInv, OpInv
<1>8. CASE Lost \/ Closed
  <2>1. /\ seen' = {} /\ connected' = FALSE /\ UNCHANGED <<instance, unknown, late>>
        /\ op' = IF op.status = "asked" THEN NotAsking("failed") ELSE op
        /\ status' \in {"disconnected", "sessionExpired"}
    BY <1>8 DEF Lost, Closed, OnClose, OnStatus
  <2>2. OpInv'
    BY <1>a, <2>1 DEF OpInv, NotAsking
  <2> QED
    BY <1>1, <2>1, <2>2 DEF SessionInv
<1>9. CASE Heartbeat
  <2>1. /\ link = "open" /\ seen' = seen \union {instance} /\ connected' = TRUE
        /\ UNCHANGED <<link, connectCalled, status, instance, unknown, late>>
    BY <1>9 DEF Heartbeat, OnStatus, linkVars
  <2>2. instance \in 1..instance
    BY BlotterAssumption DEF SessionInv
  <2>3. CASE Ask(instance)
    <3>1. OpInv'
      BY <1>a, <2>1, <2>2, <2>3, AskIsOpInv
    <3> QED
      BY <1>1, <2>1, <2>2, <3>1 DEF SessionInv
  <2>4. CASE UNCHANGED <<op, topics>>
    <3>1. Current' = Current
      BY <2>4 DEF Current
    <3>2. OpInv'
      BY <1>a, <2>1, <2>4, <3>1 DEF OpInv
    <3> QED
      BY <1>1, <2>1, <2>2, <3>2 DEF SessionInv
  <2> QED
    BY <1>9, <2>3, <2>4 DEF Heartbeat, Hear
<1>10. ASSUME NEW i \in seen, MissHeartbeats(i) PROVE SessionInv'
  <2>1. /\ seen' = seen \ {i} /\ connected' = (seen' # {})
        /\ UNCHANGED <<link, connectCalled, status, instance, unknown, op, topics>>
        /\ IF i = instance THEN late' = late + 1 ELSE late' = late
    BY <1>10 DEF MissHeartbeats, OnStatus, linkVars
  <2>2. late' \in Nat /\ late' >= late /\ late \in Nat
        /\ (late' = 0 /\ instance \in seen => instance \in seen')
    BY <2>1 DEF SessionInv
  <2>3. Current' = Current
    BY <2>1 DEF Current
  <2>4. OpInv'
    BY <1>a, <2>1, <2>2, <2>3 DEF OpInv
  <2> QED
    BY <1>1, <2>1, <2>2, <2>4 DEF SessionInv
<1>11. ASSUME NEW s \in {"failed", "dead"}, Fail(s) PROVE OpInv'
  BY <1>11 DEF Fail, NotAsking, OpInv
<1>12. CASE OpMissesHeartbeats \/ RpcFails
  <2>1. Fail("failed")
        /\ UNCHANGED <<link, connectCalled, status, instance, seen, connected, late, unknown>>
    BY <1>12 DEF OpMissesHeartbeats, RpcFails, linkVars, viewVars
  <2>2. OpInv'
    BY <1>11, <2>1
  <2> QED
    BY <1>2, <2>1, <2>2 DEF SessionInv
<1>13. CASE Subscribe \/ Retry
  <2>1. LookUp
        /\ UNCHANGED <<link, connectCalled, status, instance, seen, connected, late, unknown>>
    BY <1>13 DEF Subscribe, Retry, linkVars, viewVars
  <2>2. CASE op' = NotAsking("waiting")
    BY <1>2, <2>1, <2>2 DEF NotAsking, OpInv, SessionInv
  <2>3. ASSUME NEW i \in seen, Ask(i) PROVE SessionInv'
    <3>1. i \in 1..instance /\ link \in {"open", "closing"}
      BY <2>3 DEF SessionInv
    <3>2. OpInv'
      BY <1>a, <2>1, <2>3, <3>1, AskIsOpInv
    <3> QED
      BY <1>2, <2>1, <3>2 DEF SessionInv
  <2> QED
    BY <2>1, <2>2, <2>3 DEF LookUp
<1>14. ASSUME NEW t \in Topics, NEW r, topics' = [topics EXCEPT ![t] = r],
              UNCHANGED <<linkVars, connected, instance, seen, op, unknown, late>>,
              topics[t].sub \in Subscribed =>
                /\ r.sub \in Subscribed
                /\ r.serve \in Serving => topics[t].serve \in Serving
       PROVE  SessionInv'
  <2>1. op.status = "asked" =>
          /\ topics'[op.topic].sub \in Subscribed
          /\ topics'[op.topic].serve \in Serving => topics[op.topic].serve \in Serving
    BY <1>a, <1>4, <1>14
  <2>2. OpInv'
    BY <1>3, <1>14, <2>1 DEF linkVars
  <2> QED
    BY <1>2, <1>14, <2>2 DEF linkVars, SessionInv
<1>15. ASSUME NEW t \in Topics, Ack(t) PROVE SessionInv'
  <2> DEFINE r == [topics[t] EXCEPT !.sub = "acked"]
  <2>1. topics' = [topics EXCEPT ![t] = r] /\ r.sub = "acked" /\ r.serve = topics[t].serve
    BY <1>a, <1>15 DEF Ack, Topic
  <2> HIDE DEF r
  <2> QED
    BY <1>14, <1>15, <2>1 DEF Ack, viewVars, Subscribed
<1>16. ASSUME NEW t \in Topics, Receive(t) PROVE SessionInv'
  <2>1. UNCHANGED <<linkVars, instance, seen, unknown, late, connected>>
    BY <1>16 DEF Receive, viewVars
  <2>2. CASE topics' = Pop(t) /\ op' = op
    <3> DEFINE r == [topics[t] EXCEPT !.chan = Tail(@)]
    <3>1. topics' = [topics EXCEPT ![t] = r] /\ r.sub = topics[t].sub
          /\ r.serve = topics[t].serve
      BY <1>a, <2>2 DEF Pop, Topic
    <3> HIDE DEF r
    <3> QED
      BY <1>14, <2>1, <2>2, <3>1
  <2>3. CASE Fail("dead")
    <3>1. OpInv'
      BY <1>11, <2>3
    <3> QED
      BY <1>2, <2>1, <3>1 DEF linkVars, SessionInv
  <2> QED
    BY <1>16, <2>2, <2>3 DEF Receive
<1>17. CASE \E id \in Fickle : PairChanges(id)
  <2>1. UNCHANGED <<linkVars, connected, instance, seen, topics, op, late>>
        /\ unknown' \subseteq Ids
    BY <1>17, BlotterAssumption DEF PairChanges, viewVars, SessionInv, Ids
  <2>2. OpInv'
    BY <1>3, <1>4, <2>1 DEF linkVars
  <2> QED
    BY <1>2, <2>1, <2>2 DEF linkVars
<1>18. CASE \E id \in Ids, st \in {"Pending"} \cup Finals : BookChanges(id, st)
  <2>1. PICK id \in Ids, st \in {"Pending"} \cup Finals : BookChanges(id, st)
    BY <1>18
  <2>2. UNCHANGED <<linkVars, connected, instance, seen, op, unknown, late>>
    BY <2>1 DEF BookChanges, viewVars
  <2>3. \A t \in Topics : topics'[t].sub = topics[t].sub /\ topics'[t].serve = topics[t].serve
    <3> TAKE t \in Topics
    <3> DEFINE m == Message(FALSE, {id}, book')
    <3>1. topics[t] \in Topic
      BY <1>a
    <3>2. Publish(topics[t], m).sub = topics[t].sub
          /\ Publish(topics[t], m).serve = topics[t].serve
      BY <3>1 DEF Publish, Topic
    <3>3. topics'[t] \in {topics[t], Publish(topics[t], m)}
      BY <2>1 DEF BookChanges
    <3> QED
      BY <3>2, <3>3
  <2>4. OpInv'
    BY <1>a, <1>3, <1>4, <2>2, <2>3 DEF linkVars
  <2> QED
    BY <1>2, <2>2, <2>4 DEF linkVars, SessionInv
<1>19. ASSUME NEW t \in Topics,
              GetPrivateEndPoint(t) \/ StreamTrades(t) \/ Resend(t) \/ TearDown(t)
       PROVE  SessionInv'
  <2>1. PICK r \in Topic : OnTopic(t, r) /\ r.sub = topics[t].sub
                   /\ (r.serve \in Serving => topics[t].serve \in Serving)
    BY <1>a, <1>19, ServerServes DEF BlotterInv
  <2>2. r.sub \in Subscribed => Settled(r) = r
    BY DEF Settled, Subscribed
  <2> QED
    BY <1>14, <2>1, <2>2 DEF OnTopic, viewVars
<1>20. CASE Crash
  <2>1. /\ UNCHANGED <<linkVars, connected, seen, op, unknown, late>>
        /\ instance <= MaxCrashes /\ instance' = instance + 1
    BY <1>20 DEF Crash, viewVars
  <2>2. instance' \in 1..(MaxCrashes + 1) /\ seen \subseteq 1..instance'
        /\ 1..instance \subseteq 1..instance' /\ instance' \notin 1..instance
    BY <2>1, BlotterAssumption DEF SessionInv
  <2>3. op.status = "asked" => Current'.sub \in Subscribed /\ Current'.serve \notin Serving
    <3> SUFFICES ASSUME op.status = "asked"
                 PROVE  Current'.sub \in Subscribed /\ Current'.serve \notin Serving
      OBVIOUS
    <3> DEFINE t == topics[op.topic]
               u == [t EXCEPT !.torn = FALSE,
                       !.serve = IF @ \in Serving \ {"called"} THEN "ended" ELSE "none"]
    <3>1. t \in Topic /\ t.sub \in Subscribed
      BY <1>a, <1>4
    <3>2. u.sub = t.sub /\ u.serve \notin Serving
      BY <3>1 DEF Topic, Serving
    <3>3. topics'[op.topic] = Settled(u)
      BY <1>a, <1>20 DEF Crash
    <3> HIDE DEF t, u
    <3>4. Settled(u) = u
      BY <3>1, <3>2 DEF Settled, Subscribed
    <3> QED
      BY <2>1, <3>1, <3>2, <3>3, <3>4 DEF Current
  <2>4. OpInv'
    BY <1>a, <2>1, <2>2, <2>3 DEF OpInv, linkVars
  <2> QED
    BY <1>1, <2>1, <2>2, <2>4 DEF SessionInv, linkVars
<1>21. CASE UNCHANGED vars
  <2>1. UNCHANGED <<linkVars, connected, instance, seen, topics, op, unknown, late>>
    BY <1>21 DEF vars, viewVars
  <2>2. OpInv'
    BY <1>3, <1>4, <2>1 DEF linkVars
  <2> QED
    BY <1>2, <2>1, <2>2 DEF linkVars, SessionInv
<1> QED
  BY <1>5, <1>6, <1>7, <1>8, <1>9, <1>10, <1>12, <1>13, <1>15, <1>16, <1>17, <1>18,
     <1>19, <1>20, <1>21 DEF Next

-----------------------------------------------------------------------------
(* The rows a message makes.                                                *)

RowRecord == [id : Ids, status : TradeStatuses, isNew : BOOLEAN]

Messages == [sotw : BOOLEAN, trades : Contents]

Distinct(r) == \A n, k \in DOMAIN r : r[n].id = r[k].id => n = k

LEMMA RowIs ==
  ASSUME NEW m \in Messages, NEW id \in DOMAIN m.trades, NEW isNew \in BOOLEAN
  PROVE  /\ Row(m, id, isNew) \in RowRecord
         /\ Row(m, id, isNew).id = id /\ Row(m, id, isNew).status = m.trades[id]
<1>1. PICK S \in SUBSET Ids : m.trades \in [S -> TradeStatuses]
  BY DEF Messages, Contents
<1>2. id \in Ids /\ m.trades[id] \in TradeStatuses
  BY <1>1
<1> QED
  BY <1>2, Zenon DEF Row, RowRecord

\* The ids of an interval have an order from the newest down.
LEMMA NewestFirstIs ==
  ASSUME NEW a \in Nat, NEW b \in Nat
  PROVE  LET s == NewestFirst(a..b) IN
         /\ \E len \in Nat : DOMAIN s = 1..len
         /\ {s[n] : n \in DOMAIN s} = a..b
         /\ \A n, k \in DOMAIN s : n < k => s[n] > s[k]
<1> DEFINE size == Cardinality(a..b)
           down == [n \in 1..size |-> b + 1 - n]
           Sorted(s) == /\ {s[n] : n \in DOMAIN s} = a..b
                        /\ \A n, k \in DOMAIN s : n < k => s[n] > s[k]
<1>1. size \in Nat /\ size = IF a > b THEN 0 ELSE b - a + 1
  <2>1. a \in Int /\ b \in Int
    OBVIOUS
  <2>2. size = IF a > b THEN 0 ELSE b - a + 1
    BY <2>1, FS_Interval
  <2> HIDE DEF size
  <2> QED
    BY <2>2
<1> HIDE DEF size
<1>2. down \in [1..size -> a..b]
  BY <1>1
<1>3. {down[n] : n \in DOMAIN down} = a..b
  <2>1. \A q \in a..b : b + 1 - q \in 1..size /\ down[b + 1 - q] = q
    BY <1>1
  <2>2. \A n \in DOMAIN down : down[n] \in a..b
    BY <1>2
  <2> QED
    BY <2>1, <2>2
<1>4. \A n, k \in DOMAIN down : n < k => down[n] > down[k]
  BY <1>1
<1>5. Sorted(down)
  BY <1>3, <1>4
<1>6. NewestFirst(a..b) = CHOOSE s \in [1..size -> a..b] : Sorted(s)
  BY DEF NewestFirst, size
<1> HIDE DEF Sorted, down
<1>7. NewestFirst(a..b) \in [1..size -> a..b] /\ Sorted(NewestFirst(a..b))
  BY <1>2, <1>5, <1>6
<1> QED
  BY <1>1, <1>7 DEF Sorted

LEMMA ReloadedIs ==
  ASSUME NEW m \in Messages, NEW a \in Nat, NEW b \in Nat, DOMAIN m.trades = a..b
  PROVE  LET r == Reloaded(m) IN
         /\ r \in Seq(RowRecord) /\ Distinct(r)
         /\ \A id \in DOMAIN m.trades : \E n \in DOMAIN r : r[n].id = id
         /\ \A n \in DOMAIN r : /\ r[n].id \in DOMAIN m.trades
                                /\ r[n].status = m.trades[r[n].id]
<1> DEFINE s == NewestFirst(a..b)
           r == Reloaded(m)
<1>1. PICK len \in Nat : DOMAIN s = 1..len
  BY NewestFirstIs
<1>2. /\ {s[n] : n \in DOMAIN s} = DOMAIN m.trades
      /\ \A n, k \in DOMAIN s : n < k => s[n] > s[k]
  BY NewestFirstIs
<1>3. r = [n \in DOMAIN s |-> Row(m, s[n], FALSE)]
  BY DEF Reloaded
<1>4. \A n \in DOMAIN s : s[n] \in a..b /\ s[n] \in DOMAIN m.trades
  BY <1>2
<1> HIDE DEF s, r
<1>5. \A n \in DOMAIN s : /\ r[n] \in RowRecord /\ r[n].id = s[n]
                          /\ r[n].status = m.trades[s[n]]
  BY <1>3, <1>4, RowIs
<1>6. r \in Seq(RowRecord) /\ DOMAIN r = 1..len
  <2>1. r \in [1..len -> RowRecord]
    BY <1>1, <1>3, <1>5
  <2> QED
    BY <2>1
<1>7. Distinct(r)
  <2> SUFFICES ASSUME NEW n \in 1..len, NEW k \in 1..len, s[n] = s[k] PROVE n = k
    BY <1>1, <1>5, <1>6 DEF Distinct
  <2>1. ~(n < k) /\ ~(k < n)
    BY <1>1, <1>2, <1>4
  <2> QED
    BY <2>1
<1> QED
  BY <1>1, <1>2, <1>4, <1>5, <1>6, <1>7 DEF r

LEMMA UpdatedIs ==
  ASSUME NEW m \in Messages, NEW id \in Ids, DOMAIN m.trades = {id},
         NEW r \in Seq(RowRecord), Distinct(r)
  PROVE  LET u == Updated(r, m) IN
         /\ u \in Seq(RowRecord) /\ Distinct(u)
         /\ \A n \in DOMAIN u :
              \/ u[n].id = id /\ u[n].status = m.trades[id]
              \/ \E k \in DOMAIN r : /\ u[n].id = r[k].id /\ u[n].id # id
                                     /\ u[n].status = r[k].status
         /\ \A k \in DOMAIN r : \E n \in DOMAIN u : u[n].id = r[k].id
         /\ \E n \in DOMAIN u : u[n].id = id
<1> DEFINE u == Updated(r, m)
           known == \E n \in DOMAIN r : r[n].id = id
           old == Row(m, id, FALSE)
           new == Row(m, id, TRUE)
<1>1. (CHOOSE i \in DOMAIN m.trades : TRUE) = id
  OBVIOUS
<1>2. u = IF known THEN [n \in DOMAIN r |-> IF r[n].id = id THEN old ELSE r[n]]
          ELSE <<new>> \o r
  BY <1>1 DEF Updated
<1>3. /\ old \in RowRecord /\ old.id = id /\ old.status = m.trades[id]
      /\ new \in RowRecord /\ new.id = id /\ new.status = m.trades[id]
  BY RowIs
<1> HIDE DEF u, old, new
<1>4. CASE known
  <2>1. /\ DOMAIN u = DOMAIN r
        /\ \A n \in DOMAIN r : u[n] = IF r[n].id = id THEN old ELSE r[n]
    BY <1>2, <1>4
  <2>2. u \in Seq(RowRecord)
    <3>1. u \in [1..Len(r) -> RowRecord] /\ Len(r) \in Nat
      BY <1>2, <1>3, <1>4
    <3> QED
      BY <3>1
  <2>3. \A n \in DOMAIN r : u[n].id = r[n].id
    BY <1>3, <2>1
  <2>4. Distinct(u)
    BY <2>1, <2>3 DEF Distinct
  <2> QED
    BY <1>3, <1>4, <2>1, <2>2, <2>3, <2>4 DEF u
<1>5. CASE ~known
  <2>1. u \in Seq(RowRecord) /\ Len(u) = Len(r) + 1 /\ Len(r) \in Nat
    <3>1. u = <<new>> \o r /\ <<new>> \in Seq(RowRecord) /\ Len(<<new>>) = 1
      BY <1>2, <1>3, <1>5
    <3> QED
      BY <3>1
  <2>2. u[1] = new /\ \A n \in DOMAIN u : n = 1 \/ (n - 1 \in DOMAIN r /\ u[n] = r[n - 1])
    BY <1>2, <1>3, <1>5, <2>1
  <2>3. \A k \in DOMAIN r : k + 1 \in DOMAIN u /\ u[k + 1] = r[k]
    BY <1>2, <1>3, <1>5, <2>1
  <2>4. Distinct(u)
    <3> SUFFICES ASSUME NEW n \in DOMAIN u, NEW k \in DOMAIN u, u[n].id = u[k].id
                 PROVE  n = k
      BY DEF Distinct
    <3>1. n \in Nat /\ k \in Nat
      BY <2>1
    <3>2. CASE n = 1 \/ k = 1
      BY <1>3, <1>5, <2>2, <3>2
    <3>3. CASE n # 1 /\ k # 1
      <4>1. n - 1 = k - 1
        BY <2>2, <3>3 DEF Distinct
      <4> QED
        BY <3>1, <4>1
    <3> QED
      BY <3>2, <3>3
  <2>5. 1 \in DOMAIN u
    BY <2>1
  <2>6. \A n \in DOMAIN u :
          \/ u[n].id = id /\ u[n].status = m.trades[id]
          \/ \E k \in DOMAIN r : /\ u[n].id = r[k].id /\ u[n].id # id
                                 /\ u[n].status = r[k].status
    BY <1>3, <1>5, <2>2
  <2> QED
    BY <1>3, <2>1, <2>2, <2>3, <2>4, <2>5, <2>6 DEF u
<1> QED
  BY <1>4, <1>5

-----------------------------------------------------------------------------
(* The rows and the messages on their way.                                  *)

\* A message tells of trades in the book: a state of the world those of an
\* interval of ids, an update one.
WellFormed(m) ==
  /\ DOMAIN m.trades \subseteq DOMAIN book
  /\ IF m.sotw THEN \E a \in Nat, b \in Nat : DOMAIN m.trades = a..b
     ELSE \E id \in Ids : DOMAIN m.trades = {id}

RowsInv ==
  /\ rows \in Seq(RowRecord) /\ Distinct(rows)
  /\ \A n \in DOMAIN rows : rows[n].id \in DOMAIN book
  /\ \A t \in Topics : \A n \in DOMAIN topics[t].chan : WellFormed(topics[t].chan[n])

\* A message of queue c that is n-th or later tells of a trade.
Mentioned(c, n, id) == \E k \in DOMAIN c : k >= n /\ id \in DOMAIN c[k].trades

\* The last message to tell of a trade tells what the book says.
LastWord(c) ==
  \A n \in DOMAIN c : \A id \in DOMAIN c[n].trades :
    c[n].trades[id] = book[id] \/ Mentioned(c, n + 1, id)

\* A state of the world has the last trades, or what follows it tells of them.
Complete(c) ==
  \A n \in DOMAIN c : c[n].sotw => \A id \in LastTrades : Mentioned(c, n, id)

Reloads(c) == \E n \in DOMAIN c : c[n].sotw

\* The rows are as the book says but for what c is going to tell.
Follows(c) ==
  /\ synced \/ late > 0
  /\ \A n \in DOMAIN rows :
       rows[n].status = book[rows[n].id] \/ Mentioned(c, 1, rows[n].id)
  /\ synced => \A id \in LastTrades :
       (\E n \in DOMAIN rows : rows[n].id = id) \/ Mentioned(c, 1, id)

Fed(c) == LastWord(c) /\ Complete(c) /\ (Reloads(c) \/ Follows(c))

\* The topic of the operation is empty until it is served, and feeds the rows
\* from then on.
FeedInv ==
  op.status = "asked" =>
    /\ Current.serve \in {"called", "looked"} => Current.chan = <<>>
    /\ Current.serve = "streaming" => Fed(Current.chan)

LEMMA UpdatedRows ==
  ASSUME RowsInv, NEW m \in Messages, NEW id \in Ids, DOMAIN m.trades = {id},
         rows' = Updated(rows, m)
  PROVE  /\ \A n \in DOMAIN rows' :
              \/ rows'[n].id = id /\ rows'[n].status = m.trades[id]
              \/ \E k \in DOMAIN rows : /\ rows'[n].id = rows[k].id /\ rows'[n].id # id
                                        /\ rows'[n].status = rows[k].status
         /\ \A k \in DOMAIN rows : \E n \in DOMAIN rows' : rows'[n].id = rows[k].id
         /\ \E n \in DOMAIN rows' : rows'[n].id = id
BY UpdatedIs DEF RowsInv

\* The first message of a queue is received.
LEMMA ReceivedIsFed ==
  ASSUME RowsInv, NEW c \in Seq(Messages), c # <<>>, Fed(c),
         \A n \in DOMAIN c : WellFormed(c[n]),
         NEW m, m = Head(c),
         rows' = IF m.sotw THEN Reloaded(m) ELSE Updated(rows, m),
         synced' = (m.sotw \/ synced), late' = late, book' = book,
         NEW d, d = Tail(c)
  PROVE  Fed(d)'
<1>1. /\ DOMAIN d = 1..(Len(c) - 1) /\ DOMAIN c = 1..Len(c) /\ Len(c) \in Nat
      /\ \A n \in DOMAIN d : n \in Nat /\ n + 1 \in DOMAIN c /\ d[n] = c[n + 1]
      /\ 1 \in DOMAIN c /\ m = c[1] /\ m \in Messages
  OBVIOUS
<1>2. ASSUME NEW n \in Nat, NEW id, Mentioned(c, n + 1, id), n >= 1
      PROVE  Mentioned(d, n, id)
  <2>1. PICK k \in DOMAIN c : k >= n + 1 /\ id \in DOMAIN c[k].trades
    BY <1>2 DEF Mentioned
  <2>2. k - 1 \in DOMAIN d /\ k - 1 >= n /\ d[k - 1] = c[k]
    BY <1>1, <1>2, <2>1
  <2> QED
    BY <2>1, <2>2 DEF Mentioned
<1>3. ASSUME NEW id, Mentioned(c, 1, id)
      PROVE  id \in DOMAIN m.trades \/ Mentioned(d, 1, id)
  <2>1. PICK k \in DOMAIN c : id \in DOMAIN c[k].trades
    BY <1>3 DEF Mentioned
  <2>2. CASE k = 1
    BY <1>1, <2>1, <2>2
  <2>3. CASE k # 1
    <3>1. k >= 1 + 1
      BY <1>1, <2>3
    <3> QED
      BY <1>2, <2>1, <3>1 DEF Mentioned
  <2> QED
    BY <2>2, <2>3
<1>4. ASSUME NEW id \in DOMAIN m.trades
      PROVE  m.trades[id] = book[id] \/ Mentioned(d, 1, id)
  <2>1. c[1].trades[id] = book[id] \/ Mentioned(c, 1 + 1, id)
    BY <1>1, <1>4 DEF Fed, LastWord
  <2> QED
    BY <1>1, <1>2, <2>1
<1>5. LastTrades' = LastTrades
  BY DEF LastTrades
<1>6. \A n \in DOMAIN d : \A id \in DOMAIN d[n].trades :
        d[n].trades[id] = book'[id] \/ Mentioned(d, n + 1, id)
  <2> SUFFICES ASSUME NEW n \in DOMAIN d, NEW id \in DOMAIN d[n].trades,
                      d[n].trades[id] # book[id]
               PROVE  Mentioned(d, n + 1, id)
    OBVIOUS
  <2>1. Mentioned(c, (n + 1) + 1, id)
    BY <1>1 DEF Fed, LastWord
  <2> QED
    BY <1>1, <1>2, <2>1
<1>7. \A n \in DOMAIN d : d[n].sotw => \A id \in LastTrades' : Mentioned(d, n, id)
  BY <1>1, <1>2, <1>5 DEF Fed, Complete
<1>8. CASE m.sotw
  <2>1. PICK a \in Nat, b \in Nat : DOMAIN m.trades = a..b
    BY <1>1, <1>8 DEF WellFormed
  <2>2. /\ \A id \in DOMAIN m.trades : \E n \in DOMAIN rows' : rows'[n].id = id
        /\ \A n \in DOMAIN rows' : /\ rows'[n].id \in DOMAIN m.trades
                                   /\ rows'[n].status = m.trades[rows'[n].id]
    <3>1. rows' = Reloaded(m) /\ m \in Messages
      BY <1>1, <1>8
    <3> DEFINE r == Reloaded(m)
    <3>2. /\ \A id \in DOMAIN m.trades : \E n \in DOMAIN r : r[n].id = id
          /\ \A n \in DOMAIN r : /\ r[n].id \in DOMAIN m.trades
                                 /\ r[n].status = m.trades[r[n].id]
      BY <2>1, <3>1, ReloadedIs
    <3> HIDE DEF r
    <3>3. rows' = r
      BY <3>1 DEF r
    <3> QED
      BY <3>2, <3>3
  <2>3. \A n \in DOMAIN rows' :
          rows'[n].status = book'[rows'[n].id] \/ Mentioned(d, 1, rows'[n].id)
    BY <1>4, <2>2
  <2>4. \A id \in LastTrades' :
          (\E n \in DOMAIN rows' : rows'[n].id = id) \/ Mentioned(d, 1, id)
    BY <1>1, <1>3, <1>5, <1>8, <2>2 DEF Fed, Complete
  <2>5. Follows(d)'
    BY <1>8, <2>3, <2>4 DEF Follows, Mentioned
  <2> QED
    BY <1>6, <1>7, <2>5 DEF Fed, LastWord, Complete, Mentioned
<1>9. CASE ~m.sotw /\ Reloads(c)
  <2>1. PICK k \in DOMAIN c : c[k].sotw
    BY <1>9 DEF Reloads
  <2>2. k - 1 \in DOMAIN d /\ d[k - 1] = c[k]
    BY <1>1, <1>9, <2>1
  <2>3. Reloads(d)'
    BY <2>1, <2>2 DEF Reloads
  <2> QED
    BY <1>6, <1>7, <2>3 DEF Fed, LastWord, Complete, Mentioned
<1>10. CASE ~m.sotw /\ ~Reloads(c)
  <2>1. PICK id \in Ids : DOMAIN m.trades = {id}
    BY <1>1, <1>10 DEF WellFormed
  <2>2. Follows(c)
    BY <1>10 DEF Fed
  <2>3. /\ \A n \in DOMAIN rows' :
             \/ rows'[n].id = id /\ rows'[n].status = m.trades[id]
             \/ \E k \in DOMAIN rows : /\ rows'[n].id = rows[k].id /\ rows'[n].id # id
                                       /\ rows'[n].status = rows[k].status
        /\ \A k \in DOMAIN rows : \E n \in DOMAIN rows' : rows'[n].id = rows[k].id
        /\ \E n \in DOMAIN rows' : rows'[n].id = id
    <3>1. m \in Messages /\ rows' = Updated(rows, m)
      BY <1>1, <1>10
    <3> QED
      BY <2>1, <3>1, UpdatedRows
  <2>4. \A n \in DOMAIN rows' :
          rows'[n].status = book'[rows'[n].id] \/ Mentioned(d, 1, rows'[n].id)
    <3> TAKE n \in DOMAIN rows'
    <3>1. CASE rows'[n].id = id /\ rows'[n].status = m.trades[id]
      BY <1>4, <2>1, <3>1
    <3>2. ASSUME NEW k \in DOMAIN rows, rows'[n].id = rows[k].id, rows'[n].id # id,
                 rows'[n].status = rows[k].status
          PROVE  rows'[n].status = book'[rows'[n].id] \/ Mentioned(d, 1, rows'[n].id)
      BY <1>3, <2>1, <2>2, <3>2 DEF Follows
    <3> QED
      BY <2>3, <3>1, <3>2
  <2>5. synced' => \A q \in LastTrades' :
          (\E n \in DOMAIN rows' : rows'[n].id = q) \/ Mentioned(d, 1, q)
    <3> SUFFICES ASSUME synced', NEW q \in LastTrades, ~Mentioned(d, 1, q)
                 PROVE  \E n \in DOMAIN rows' : rows'[n].id = q
      BY <1>5
    <3>1. (\E k \in DOMAIN rows : rows[k].id = q) \/ Mentioned(c, 1, q)
      BY <1>10, <2>2 DEF Follows
    <3> QED
      BY <1>3, <2>1, <2>3, <3>1
  <2>6. Follows(d)'
    BY <1>10, <2>2, <2>4, <2>5 DEF Follows, Mentioned
  <2> QED
    BY <1>6, <1>7, <2>6 DEF Fed, LastWord, Complete, Mentioned
<1> QED
  BY <1>8, <1>9, <1>10

\* A trade changes, and the queue tells of it.
LEMMA ToldIsFed ==
  ASSUME RowsInv, Typed, NEW c \in Seq(Messages), Fed(c),
         \A n \in DOMAIN c : WellFormed(c[n]),
         NEW id \in Ids, NEW m \in Messages, ~m.sotw, DOMAIN m.trades = {id},
         m.trades[id] = book'[id],
         \A q \in DOMAIN book : q # id => book'[q] = book[q],
         LastTrades' \subseteq LastTrades \union {id},
         UNCHANGED <<rows, synced, late>>, NEW d, d = Append(c, m)
  PROVE  Fed(d)'
<1>1. /\ DOMAIN c = 1..Len(c) /\ Len(c) \in Nat /\ DOMAIN d = 1..(Len(c) + 1)
      /\ \A n \in DOMAIN c : n \in Nat /\ n \in DOMAIN d /\ d[n] = c[n]
      /\ d[Len(c) + 1] = m
  OBVIOUS
<1>2. \A n, q : Mentioned(c, n, q) => Mentioned(d, n, q)
  BY <1>1 DEF Mentioned
<1>3. \A n \in 1..(Len(c) + 1) : Mentioned(d, n, id)
  BY <1>1 DEF Mentioned
<1>4. \A n \in DOMAIN d : n \in DOMAIN c \/ (n = Len(c) + 1 /\ d[n] = m)
  BY <1>1
<1>5. \A n \in DOMAIN d : \A q \in DOMAIN d[n].trades :
        d[n].trades[q] = book'[q] \/ Mentioned(d, n + 1, q)
  <2> TAKE n \in DOMAIN d
  <2> TAKE q \in DOMAIN d[n].trades
  <2>1. CASE n \in DOMAIN c /\ q = id
    BY <1>1, <1>3, <2>1
  <2>2. CASE n \in DOMAIN c /\ q # id
    <3>1. c[n].trades[q] = book[q] \/ Mentioned(c, n + 1, q)
      BY <1>1, <2>2 DEF Fed, LastWord
    <3>2. q \in DOMAIN book
      BY <1>1, <2>2 DEF WellFormed
    <3> QED
      BY <1>1, <1>2, <2>2, <3>1, <3>2
  <2> QED
    BY <1>4, <2>1, <2>2
<1>6. \A n \in DOMAIN d : d[n].sotw => \A q \in LastTrades' : Mentioned(d, n, q)
  <2> SUFFICES ASSUME NEW n \in DOMAIN d, d[n].sotw, NEW q \in LastTrades'
               PROVE  Mentioned(d, n, q)
    OBVIOUS
  <2>1. CASE q = id
    BY <1>1, <1>3, <2>1
  <2>2. CASE q # id
    BY <1>1, <1>2, <1>4, <2>2 DEF Fed, Complete
  <2> QED
    BY <2>1, <2>2
<1>7. CASE Reloads(c)
  <2>1. Reloads(d)'
    BY <1>1, <1>7 DEF Reloads
  <2> QED
    BY <1>5, <1>6, <2>1 DEF Fed, LastWord, Complete, Mentioned
<1>8. CASE Follows(c)
  <2>1. Mentioned(d, 1, id)
    BY <1>1, <1>3
  <2>2. \A n \in DOMAIN rows :
          rows[n].status = book'[rows[n].id] \/ Mentioned(d, 1, rows[n].id)
    BY <1>2, <1>8, <2>1 DEF Follows, RowsInv
  <2>3. synced => \A q \in LastTrades' :
          (\E n \in DOMAIN rows : rows[n].id = q) \/ Mentioned(d, 1, q)
    BY <1>2, <1>8, <2>1 DEF Follows
  <2>4. Follows(d)'
    BY <1>8, <2>2, <2>3 DEF Follows, Mentioned
  <2> QED
    BY <1>5, <1>6, <2>4 DEF Fed, LastWord, Complete, Mentioned
<1> QED
  BY <1>7, <1>8 DEF Fed

\* A state of the world is all there is.
LEMMA SentIsFed ==
  ASSUME book' = book, NEW d, d = <<Message(TRUE, LastTrades, book)>>
  PROVE  Fed(d)'
<1>1. /\ DOMAIN d = {1} /\ d[1].sotw /\ DOMAIN d[1].trades = LastTrades
      /\ \A id \in LastTrades : d[1].trades[id] = book[id]
  BY DEF Message
<1>2. LastTrades' = LastTrades
  BY DEF LastTrades
<1>3. LastWord(d)'
  BY <1>1 DEF LastWord
<1>4. Complete(d)'
  <2>1. \A n \in DOMAIN d : \A id \in LastTrades :
          \E k \in DOMAIN d : k >= n /\ id \in DOMAIN d[k].trades
    <3> TAKE n \in DOMAIN d
    <3> TAKE id \in LastTrades
    <3>1. n = 1 /\ 1 \in DOMAIN d /\ 1 >= n
      BY <1>1
    <3> WITNESS 1 \in DOMAIN d
    <3> QED
      BY <1>1, <3>1
  <2> QED
    BY <1>2, <2>1 DEF Complete, Mentioned
<1>5. Reloads(d)'
  BY <1>1 DEF Reloads
<1> QED
  BY <1>3, <1>4, <1>5 DEF Fed

-----------------------------------------------------------------------------
(* Rows and messages through every step.                                    *)

LEMMA RowsInvInit == Init => RowsInv /\ FeedInv
<1> SUFFICES ASSUME Init PROVE RowsInv /\ FeedInv
  OBVIOUS
<1>1. RowsInv
  BY UnusedIs DEF Init, RowsInv, Distinct
<1>2. FeedInv
  BY DEF Init, NotAsking, FeedInv
<1> QED
  BY <1>1, <1>2

LEMMA MessageIsWellFormed ==
  ASSUME Typed
  PROVE  WellFormed(Message(TRUE, LastTrades, book))
<1> DEFINE m == Message(TRUE, LastTrades, book)
           len == Len(book)
           a == IF len >= MaxSotw THEN (len - MaxSotw) + 1 ELSE 1
<1>1. m.sotw /\ DOMAIN m.trades = LastTrades
  BY DEF Message
<1>2. len \in Nat /\ MaxSotw \in Nat /\ MaxSotw # 0 /\ DOMAIN book = 1..len
  BY BlotterAssumption DEF Typed
<1>3. LastTrades = {id \in 1..len : id + MaxSotw > len}
  BY <1>2 DEF LastTrades
<1> HIDE DEF len
<1>4. a \in Nat /\ LastTrades = a..len
  BY <1>2, <1>3
<1> HIDE DEF a, m
<1>5. LastTrades \subseteq DOMAIN book
  BY DEF LastTrades
<1> QED
  BY <1>1, <1>2, <1>4, <1>5 DEF WellFormed, m

\* A step that leaves the book alone and sends no update.
LEMMA RowsKept ==
  ASSUME BlotterInv, RowsInv, book' = book, rows' \in {rows, <<>>},
         \A t \in Topics : \A n \in DOMAIN topics'[t].chan :
           \/ \E k \in DOMAIN topics[t].chan : topics'[t].chan[n] = topics[t].chan[k]
           \/ topics'[t].chan[n] = Message(TRUE, LastTrades, book)
  PROVE  RowsInv'
<1>1. rows' \in Seq(RowRecord) /\ Distinct(rows)'
  <2>1. CASE rows' = <<>>
    <3>1. <<>> \in Seq(RowRecord) /\ \A n \in DOMAIN <<>> : FALSE
      OBVIOUS
    <3> QED
      BY <2>1, <3>1 DEF Distinct
  <2> QED
    BY <2>1 DEF RowsInv, Distinct
<1>2. \A n \in DOMAIN rows' : rows'[n].id \in DOMAIN book'
  BY DEF RowsInv
<1>3. \A t \in Topics : \A n \in DOMAIN topics'[t].chan : WellFormed(topics'[t].chan[n])
  BY MessageIsWellFormed DEF RowsInv, BlotterInv
<1>4. (\A t \in Topics : \A n \in DOMAIN topics[t].chan : WellFormed(topics[t].chan[n]))'
  BY <1>3 DEF WellFormed
<1> QED
  BY <1>1, <1>2, <1>4 DEF RowsInv

LEMMA MovesKeepRows ==
  ASSUME BlotterInv, RowsInv, book' = book, rows' \in {rows, <<>>},
         \A t \in Topics : Moved(topics[t], topics'[t]) \/ topics'[t] = topics[t]
  PROVE  RowsInv'
<1>1. \A t \in Topics : topics'[t].chan = topics[t].chan \/ topics'[t].chan = <<>>
  BY DEF Moved
<1>2. ASSUME NEW t \in Topics, NEW n \in DOMAIN topics'[t].chan
      PROVE  \E k \in DOMAIN topics[t].chan : topics'[t].chan[n] = topics[t].chan[k]
  BY <1>1
<1> QED
  BY <1>2, RowsKept

\* One topic changes, and the others stay.
LEMMA TopicKeepsRows ==
  ASSUME BlotterInv, RowsInv, book' = book, rows' \in {rows, <<>>},
         NEW t \in Topics, NEW r, topics' = [topics EXCEPT ![t] = r],
         \/ r.chan = topics[t].chan
         \/ r.chan = <<>>
         \/ topics[t].chan # <<>> /\ r.chan = Tail(topics[t].chan)
         \/ r.chan = Append(topics[t].chan, Message(TRUE, LastTrades, book))
  PROVE  RowsInv'
<1> DEFINE c == topics[t].chan
           m == Message(TRUE, LastTrades, book)
<1>1. topics \in [Topics -> Topic] /\ c \in Seq(Messages)
  BY DEF BlotterInv, Typed, Topic, Messages
<1> HIDE DEF m
<1>2. \A n \in DOMAIN r.chan :
        (\E k \in DOMAIN c : r.chan[n] = c[k]) \/ r.chan[n] = m
  <2> HIDE DEF c
  <2>1. CASE r.chan = c \/ r.chan = <<>>
    BY <2>1
  <2>2. CASE c # <<>> /\ r.chan = Tail(c)
    <3>1. \A n \in DOMAIN Tail(c) : n + 1 \in DOMAIN c /\ Tail(c)[n] = c[n + 1]
      BY <1>1, <2>2
    <3> QED
      BY <2>2, <3>1
  <2>3. CASE r.chan = Append(c, m)
    <3>1. \A n \in DOMAIN Append(c, m) :
            (n \in DOMAIN c /\ Append(c, m)[n] = c[n]) \/ Append(c, m)[n] = m
      BY <1>1
    <3> QED
      BY <2>3, <3>1
  <2> QED
    BY <2>1, <2>2, <2>3 DEF c, m
<1>3. \A v \in Topics : v # t => topics'[v] = topics[v]
  BY <1>1
<1>4. topics'[t] = r
  BY <1>1
<1>5. ASSUME NEW v \in Topics, NEW n \in DOMAIN topics'[v].chan
      PROVE  \/ \E k \in DOMAIN topics[v].chan : topics'[v].chan[n] = topics[v].chan[k]
             \/ topics'[v].chan[n] = Message(TRUE, LastTrades, book)
  <2>1. CASE v = t
    BY <1>2, <1>4, <2>1 DEF c, m
  <2>2. CASE v # t
    BY <1>3, <2>2
  <2> QED
    BY <2>1, <2>2
<1> QED
  BY <1>5, RowsKept

\* The topic of the operation, with the queue c after the step.
LEMMA FeedOf ==
  ASSUME NEW c, op'.status = "asked" =>
           /\ Current'.chan = c
           /\ Current'.serve \in {"called", "looked"} => c = <<>>
           /\ Current'.serve = "streaming" => Fed(c)'
  PROVE  FeedInv'
BY DEF FeedInv, Fed, LastWord, Complete, Reloads, Follows, Mentioned

LEMMA FeedKept ==
  ASSUME FeedInv, UNCHANGED <<op, book, rows, synced, late>>,
         op.status = "asked" =>
           /\ Current'.chan = Current.chan
           /\ Current'.serve \in {"called", "looked"} => Current.serve \in {"called", "looked"}
           /\ Current'.serve = "streaming" => Current.serve = "streaming"
  PROVE  FeedInv'
<1>1. PICK c : c = Current.chan
  OBVIOUS
<1>2. LastTrades' = LastTrades
  BY DEF LastTrades
<1>3. Fed(c) => Fed(c)'
  BY <1>2 DEF Fed, LastWord, Complete, Reloads, Follows, Mentioned
<1> QED
  BY <1>1, <1>3, FeedOf DEF FeedInv

LEMMA AskKeepsRows ==
  ASSUME BlotterInv, RowsInv, NEW i, Ask(i), book' = book, rows' = rows
  PROVE  RowsInv' /\ FeedInv'
<1> DEFINE t == CHOOSE u \in Topics : topics[u] = Unused
           u == [topics[t] EXCEPT !.sub = "asked",
                                  !.serve = IF i = instance /\ link = "open"
                                            THEN "called" ELSE "none"]
<1>1. t \in Topics /\ topics[t] = Unused
  BY DEF Ask
<1>2. op' = [status |-> "asked", topic |-> t, instance |-> i]
      /\ topics' = [topics EXCEPT ![t] = u]
  BY DEF Ask
<1>3. u.chan = <<>> /\ u.serve # "streaming"
  BY <1>1, UnusedIs DEF Topic
<1>4. topics \in [Topics -> Topic]
  BY DEF BlotterInv, Typed
<1> HIDE DEF u, t
<1>5. RowsInv'
  BY <1>1, <1>2, <1>3, TopicKeepsRows
<1>6. Current' = u
  BY <1>1, <1>2, <1>4 DEF Current
<1>7. FeedInv'
  BY <1>3, <1>6, FeedOf
<1> QED
  BY <1>5, <1>7

LEMMA FailKeepsRows ==
  ASSUME BlotterInv, RowsInv, op.topic \in Topics, NEW s \in {"failed", "dead"}, Fail(s),
         book' = book, rows' = rows
  PROVE  RowsInv' /\ FeedInv'
<1>1. op'.status # "asked"
      /\ topics' = [topics EXCEPT ![op.topic] = Disposed(topics[op.topic])]
  BY DEF Fail, NotAsking
<1>2. topics \in [Topics -> Topic] /\ Moved(topics[op.topic], Disposed(topics[op.topic]))
  BY DisposedMoves DEF BlotterInv, Typed
<1>3. \A t \in Topics : Moved(topics[t], topics'[t]) \/ topics'[t] = topics[t]
  BY <1>1, <1>2
<1>4. RowsInv'
  BY <1>3, MovesKeepRows
<1> QED
  BY <1>1, <1>4 DEF FeedInv

LEMMA OnCloseKeepsRows ==
  ASSUME BlotterInv, RowsInv, NEW s, OnClose(s)
  PROVE  RowsInv' /\ FeedInv'
<1>1. /\ op'.status # "asked" /\ book' = book /\ rows' = <<>>
  BY DEF OnClose, OnStatus, NotAsking
<1>2. \A t \in Topics : Moved(topics[t], topics'[t]) \/ topics'[t] = topics[t]
  BY LeftMoves DEF OnClose, BlotterInv, Typed
<1>3. RowsInv'
  BY <1>1, <1>2, MovesKeepRows
<1> QED
  BY <1>1, <1>3 DEF FeedInv

LEMMA LookUpKeepsRows ==
  ASSUME BlotterInv, RowsInv, LookUp, book' = book, rows' = rows
  PROVE  RowsInv' /\ FeedInv'
<1>1. CASE op' = NotAsking("waiting") /\ UNCHANGED topics
  <2>1. RowsInv'
    BY <1>1, MovesKeepRows
  <2>2. op'.status # "asked"
    BY <1>1 DEF NotAsking
  <2> QED
    BY <2>1, <2>2 DEF FeedInv
<1> QED
  BY <1>1, AskKeepsRows DEF LookUp

\* A client that misses the heartbeats of the instance that streams to it has
\* met a late one; it empties its rows when that was the last instance.
LEMMA MissKeepsRows ==
  ASSUME BlotterInv, SessionInv, RowsInv, FeedInv, NEW i \in seen, MissHeartbeats(i)
  PROVE  RowsInv' /\ FeedInv'
<1>1. /\ UNCHANGED <<instance, topics, op, book>> /\ seen' = seen \ {i}
      /\ (i = instance /\ late' = late + 1) \/ (i # instance /\ late' = late)
      /\ \/ seen' # {} /\ rows' = rows /\ synced' = synced
         \/ seen' = {} /\ rows' = <<>> /\ synced' = FALSE
  BY DEF MissHeartbeats, OnStatus
<1>2. RowsInv'
  BY <1>1, MovesKeepRows
<1>3. PICK c : c = Current.chan
  OBVIOUS
<1>4. LastTrades' = LastTrades /\ Current' = Current
  BY <1>1 DEF LastTrades, Current
<1>5. late \in Nat /\ late' \in Nat /\ late' >= late
  BY <1>1 DEF SessionInv
<1>6. ASSUME op.status = "asked", Current.serve = "streaming", Fed(c)
      PROVE  Fed(c)'
  <2>1. LastWord(c)' /\ Complete(c)' /\ (Reloads(c) => Reloads(c)')
    BY <1>1, <1>4, <1>6 DEF Fed, LastWord, Complete, Reloads, Mentioned
  <2>2. CASE Follows(c)
    <3>1. CASE seen' # {}
      <4>1. rows' = rows /\ synced' = synced /\ (late > 0 => late' > 0)
        BY <1>1, <1>5, <3>1
      <4>2. Follows(c)'
        BY <1>1, <1>4, <2>2, <4>1 DEF Follows, Mentioned
      <4> QED
        BY <2>1, <4>2 DEF Fed
    <3>2. CASE seen' = {}
      <4>1. late' > 0
        <5>1. CASE i = instance
          BY <1>1, <1>5, <5>1 DEF SessionInv
        <5>2. CASE i # instance
          <6>1. instance \notin seen
            BY <1>1, <3>2, <5>2
          <6>2. op.instance = instance
            BY <1>6 DEF SessionInv, OpInv, Serving
          <6>3. late # 0
            BY <1>6, <6>1, <6>2 DEF SessionInv, OpInv
          <6> QED
            BY <1>5, <6>3
        <5> QED
          BY <5>1, <5>2
      <4>2. rows' = <<>> /\ ~synced'
        BY <1>1, <3>2
      <4>3. Follows(c)'
        BY <4>1, <4>2 DEF Follows, Mentioned
      <4> QED
        BY <2>1, <4>3 DEF Fed
    <3> QED
      BY <3>1, <3>2
  <2> QED
    BY <1>6, <2>1, <2>2 DEF Fed
<1>7. FeedInv'
  BY <1>1, <1>3, <1>4, <1>6, FeedOf DEF FeedInv
<1> QED
  BY <1>2, <1>7

LEMMA HeartbeatKeepsRows ==
  ASSUME BlotterInv, RowsInv, FeedInv, Heartbeat
  PROVE  RowsInv' /\ FeedInv'
<1>1. UNCHANGED <<rows, synced, book, late>>
  BY DEF Heartbeat, OnStatus
<1>2. CASE Ask(instance)
  BY <1>1, <1>2, AskKeepsRows
<1>3. CASE UNCHANGED <<op, topics>>
  <2>1. RowsInv'
    BY <1>1, <1>3, MovesKeepRows
  <2>2. Current' = Current
    BY <1>3 DEF Current
  <2> QED
    BY <1>1, <1>3, <2>1, <2>2, FeedKept
<1> QED
  BY <1>2, <1>3 DEF Heartbeat, Hear

\* A step of one topic, when it feeds the rows as before or the operation has
\* another.
LEMMA TopicKeepsFeed ==
  ASSUME BlotterInv, RowsInv, FeedInv, UNCHANGED <<op, book, rows, synced, late>>,
         NEW t \in Topics, NEW r, topics' = [topics EXCEPT ![t] = r],
         \/ r.chan = topics[t].chan
         \/ r.chan = <<>>
         \/ topics[t].chan # <<>> /\ r.chan = Tail(topics[t].chan)
         \/ r.chan = Append(topics[t].chan, Message(TRUE, LastTrades, book)),
         t = op.topic =>
           \/ /\ r.chan = topics[t].chan
              /\ r.serve \in {"called", "looked"} => topics[t].serve \in {"called", "looked"}
              /\ r.serve = "streaming" => topics[t].serve = "streaming"
           \/ /\ r.chan = <<Message(TRUE, LastTrades, book)>>
              /\ r.serve \notin {"called", "looked"}
           \/ r.serve \notin {"called", "looked", "streaming"}
  PROVE  RowsInv' /\ FeedInv'
<1>1. RowsInv'
  BY TopicKeepsRows
<1>2. topics \in [Topics -> Topic]
      /\ (op.status = "asked" => op.topic \in Topics)
  BY DEF BlotterInv, Typed
<1>3. CASE t # op.topic
  <2>1. op.status = "asked" => Current' = Current
    BY <1>2, <1>3 DEF Current
  <2> QED
    BY <1>1, <2>1, FeedKept
<1>4. CASE t = op.topic
  <2>1. Current = topics[t] /\ Current' = r
    BY <1>2, <1>4 DEF Current
  <2>2. CASE /\ r.chan = topics[t].chan
             /\ r.serve \in {"called", "looked"} => topics[t].serve \in {"called", "looked"}
             /\ r.serve = "streaming" => topics[t].serve = "streaming"
    BY <1>1, <2>1, <2>2, FeedKept
  <2>3. CASE /\ r.chan = <<Message(TRUE, LastTrades, book)>>
             /\ r.serve \notin {"called", "looked"}
    <3>1. PICK c : c = <<Message(TRUE, LastTrades, book)>>
      OBVIOUS
    <3>2. Fed(c)'
      BY <3>1, SentIsFed
    <3>3. FeedInv'
      BY <2>1, <2>3, <3>1, <3>2, FeedOf
    <3> QED
      BY <1>1, <3>3
  <2>4. CASE r.serve \notin {"called", "looked", "streaming"}
    BY <1>1, <2>1, <2>4 DEF FeedInv
  <2> QED
    BY <1>4, <2>2, <2>3, <2>4
<1> QED
  BY <1>3, <1>4

LEMMA AckKeepsRows ==
  ASSUME BlotterInv, RowsInv, FeedInv, NEW t \in Topics, Ack(t)
  PROVE  RowsInv' /\ FeedInv'
<1> DEFINE r == [topics[t] EXCEPT !.sub = "acked"]
<1>1. topics[t] \in Topic
  BY DEF BlotterInv, Typed
<1>2. r.chan = topics[t].chan /\ r.serve = topics[t].serve
  BY <1>1 DEF Topic
<1>3. topics' = [topics EXCEPT ![t] = r] /\ UNCHANGED <<op, book, rows, synced, late>>
  BY DEF Ack, viewVars
<1> HIDE DEF r
<1> QED
  BY <1>2, <1>3, TopicKeepsFeed

LEMMA ReceiveKeepsRows ==
  ASSUME BlotterInv, SessionInv, RowsInv, FeedInv, NEW t \in Topics, Receive(t)
  PROVE  RowsInv' /\ FeedInv'
<1> DEFINE m == Head(topics[t].chan)
           c == topics[t].chan
           r == [topics[t] EXCEPT !.chan = Tail(@)]
<1>1. /\ Typed /\ WillBeTold(topics[t]) /\ c # <<>> /\ late' = late /\ book' = book
      /\ topics \in [Topics -> Topic]
  BY DEF BlotterInv, Typed, Receive
<1>2. Pop(t) = [topics EXCEPT ![t] = r] /\ r.chan = Tail(c)
  BY <1>1, PopIs
<1>3. r.serve = topics[t].serve
  BY <1>1 DEF Topic
<1> HIDE DEF r
<1>4. CASE t # op.topic /\ topics' = Pop(t) /\ UNCHANGED <<op, viewVars>>
  BY <1>1, <1>2, <1>4, TopicKeepsFeed DEF viewVars
<1>5. CASE t = op.topic /\ Fail("dead") /\ UNCHANGED viewVars
  BY <1>1, <1>5, FailKeepsRows DEF viewVars
<1>6. CASE /\ t = op.topic /\ topics' = Pop(t) /\ op' = op
           /\ rows' = IF m.sotw THEN Reloaded(m) ELSE Updated(rows, m)
           /\ synced' = (m.sotw \/ synced)
  <2>1. c \in Seq(Messages) /\ \A n \in DOMAIN c : WellFormed(c[n])
    BY <1>1 DEF Topic, Messages, RowsInv
  <2>2. m \in Messages /\ 1 \in DOMAIN c /\ m = c[1]
    <3> HIDE DEF Messages
    <3> QED
      BY <1>1, <2>1
  <2> HIDE DEF c
  <2>3. WellFormed(m)
    BY <2>1, <2>2
  <2> HIDE DEF m
  <2>4. rows' \in Seq(RowRecord) /\ Distinct(rows')
        /\ \A n \in DOMAIN rows' : rows'[n].id \in DOMAIN book
    <3>1. CASE m.sotw
      <4>1. PICK a \in Nat, b \in Nat : DOMAIN m.trades = a..b
        BY <2>3, <3>1 DEF WellFormed
      <4> DEFINE u == Reloaded(m)
      <4>2. u \in Seq(RowRecord) /\ Distinct(u)
            /\ \A n \in DOMAIN u : u[n].id \in DOMAIN m.trades
        BY <2>2, <4>1, ReloadedIs
      <4> HIDE DEF u
      <4>3. rows' = u
        BY <1>6, <3>1 DEF u
      <4> QED
        BY <2>3, <4>2, <4>3 DEF WellFormed
    <3>2. CASE ~m.sotw
      <4>1. PICK id \in Ids : DOMAIN m.trades = {id}
        BY <2>3, <3>2 DEF WellFormed
      <4>2. rows \in Seq(RowRecord) /\ Distinct(rows)
            /\ \A n \in DOMAIN rows : rows[n].id \in DOMAIN book
        BY DEF RowsInv
      <4> DEFINE u == Updated(rows, m)
      <4>3. u \in Seq(RowRecord) /\ Distinct(u)
            /\ \A n \in DOMAIN u : \/ u[n].id = id
                                   \/ \E k \in DOMAIN rows : u[n].id = rows[k].id
        BY <2>2, <4>1, <4>2, UpdatedIs
      <4> HIDE DEF u
      <4>4. rows' = u
        BY <1>6, <3>2 DEF u
      <4>5. id \in DOMAIN book
        BY <2>3, <4>1 DEF WellFormed
      <4> QED
        BY <4>2, <4>3, <4>4, <4>5
    <3> QED
      BY <3>1, <3>2
  <2>5. topics' = [topics EXCEPT ![t] = r]
    BY <1>2, <1>6
  <2>6. \A v \in Topics : \A n \in DOMAIN topics'[v].chan : WellFormed(topics'[v].chan[n])
    <3>1. \A n \in DOMAIN Tail(c) : n + 1 \in DOMAIN c /\ Tail(c)[n] = c[n + 1]
      BY <1>1, <2>1 DEF c
    <3>2. \A n \in DOMAIN r.chan : WellFormed(r.chan[n])
      BY <1>2, <2>1, <3>1 DEF c
    <3>3. \A v \in Topics : topics'[v] = IF v = t THEN r ELSE topics[v]
      BY <1>1, <2>5
    <3> QED
      BY <3>2, <3>3 DEF RowsInv
  <2>7. RowsInv'
    <3>1. (\A v \in Topics : \A n \in DOMAIN topics[v].chan : WellFormed(topics[v].chan[n]))'
      BY <1>1, <2>6 DEF WellFormed
    <3>2. Distinct(rows)'
      BY <2>4 DEF Distinct
    <3> QED
      BY <1>1, <2>4, <3>1, <3>2 DEF RowsInv
  <2>8. Current = topics[t] /\ Current' = r /\ op.status = "asked"
    <3>1. op.topic # NoTopic
      BY <1>6, BlotterAssumption
    <3> QED
      BY <1>1, <1>6, <2>5, <3>1 DEF Current, SessionInv, OpInv
  <2>9. PICK d : d = Tail(c)
    OBVIOUS
  <2>10. r.serve = "streaming" => Fed(d)'
    <3>1. c # <<>> /\ m = Head(c)
      BY <1>1 DEF m, c
    <3>2. r.serve = "streaming" => Fed(c)
      BY <1>3, <2>8 DEF FeedInv, c
    <3>3. PICK e : e = c
      OBVIOUS
    <3> QED
      BY <1>1, <1>6, <2>1, <2>9, <3>1, <3>2, <3>3, ReceivedIsFed
  <2>11. r.serve \notin {"called", "looked"}
    BY <1>1, <1>3, <2>8 DEF FeedInv, c
  <2>12. FeedInv'
    BY <1>2, <2>8, <2>9, <2>10, <2>11, FeedOf DEF c
  <2> QED
    BY <2>7, <2>12
<1> QED
  BY <1>4, <1>5, <1>6 DEF Receive

LEMMA BookChangesKeepsRows ==
  ASSUME BlotterInv, SessionInv, RowsInv, FeedInv, NEW id \in Ids, NEW st \in TradeStatuses,
         BookChanges(id, st)
  PROVE  RowsInv' /\ FeedInv'
<1> DEFINE b == IF id \in DOMAIN book THEN [book EXCEPT ![id] = st] ELSE Append(book, st)
           told == Message(FALSE, {id}, b)
           streams(t) == topics[t].serve \in {"streaming", "orphan"}
<1>1. /\ Typed /\ topics \in [Topics -> Topic]
      /\ book \in Seq(TradeStatuses) /\ Len(book) \in Nat /\ id \in Nat /\ MaxSotw \in Nat
      /\ MaxSotw # 0
  BY BlotterAssumption DEF BlotterInv, Typed, Ids
<1>2. /\ UNCHANGED <<op, rows, synced, late>> /\ book' = b
      /\ topics' = [t \in Topics |-> IF streams(t) THEN Publish(topics[t], told) ELSE topics[t]]
      /\ IF id \in DOMAIN book THEN book[id] = "Pending" /\ st # "Pending"
         ELSE id = Len(book) + 1 /\ st = "Pending"
  BY DEF BookChanges, viewVars
<1>3. /\ b \in Seq(TradeStatuses) /\ id \in DOMAIN b /\ b[id] = st
      /\ \A q \in DOMAIN book : q \in DOMAIN b /\ (q # id => b[q] = book[q])
      /\ \A q \in DOMAIN b : q \in DOMAIN book \/ q = id
      /\ Len(b) \in Nat /\ Len(b) >= Len(book)
  <2>1. CASE id \in DOMAIN book
    BY <1>1, <2>1
  <2>2. CASE id \notin DOMAIN book
    BY <1>1, <1>2, <2>2
  <2> QED
    BY <2>1, <2>2
<1>4. PICK m \in Messages : m = told /\ ~m.sotw /\ DOMAIN m.trades = {id} /\ m.trades[id] = b[id]
  <2> DEFINE f == [q \in {id} |-> b[q]]
  <2>1. f \in [{id} -> TradeStatuses] /\ DOMAIN f = {id} /\ f[id] = b[id]
    BY <1>3
  <2>2. told = [sotw |-> FALSE, trades |-> f]
    BY DEF Message
  <2> HIDE DEF b, f, told
  <2>3. f \in Contents
    BY <2>1 DEF Contents
  <2> QED
    <3>1. told \in Messages /\ ~told.sotw /\ told.trades = f
      BY <2>2, <2>3 DEF Messages
    <3> QED
      BY <2>1, <3>1
<1> DEFINE Good(w) == /\ DOMAIN w.trades \subseteq DOMAIN b
                      /\ IF w.sotw THEN \E x \in Nat, y \in Nat : DOMAIN w.trades = x..y
                         ELSE \E q \in Ids : DOMAIN w.trades = {q}
<1> HIDE DEF b, told
<1>5. LastTrades' \subseteq LastTrades \union {id}
  <2> SUFFICES ASSUME NEW q \in DOMAIN b, q + MaxSotw > Len(b), q # id
               PROVE  q \in DOMAIN book /\ q + MaxSotw > Len(book)
    BY <1>2 DEF LastTrades
  <2>1. q \in Nat
    BY <1>3
  <2> QED
    BY <1>1, <1>3, <2>1
<1>6. ASSUME NEW t \in Topics
      PROVE  /\ topics[t].chan \in Seq(Messages) /\ topics'[t].serve = topics[t].serve
             /\ topics'[t].chan \in {topics[t].chan, Append(topics[t].chan, m)}
             /\ ~streams(t) => topics'[t].chan = topics[t].chan
             /\ streams(t) /\ topics[t].sub \in Subscribed =>
                  topics'[t].chan = Append(topics[t].chan, m)
  <2>1. topics[t] \in Topic /\ topics[t].chan \in Seq(Messages)
    BY <1>1 DEF Topic, Messages
  <2>2. LET u == Publish(topics[t], m) IN
        /\ u.serve = topics[t].serve /\ u.chan \in {topics[t].chan, Append(topics[t].chan, m)}
        /\ topics[t].sub \in Subscribed => u.chan = Append(topics[t].chan, m)
    BY <2>1 DEF Publish, Topic, Subscribed
  <2>3. topics'[t] = IF streams(t) THEN Publish(topics[t], m) ELSE topics[t]
    BY <1>2, <1>4
  <2> QED
    BY <2>1, <2>2, <2>3
<1>7. \A w : WellFormed(w) => Good(w)
  BY <1>3 DEF WellFormed
<1>8. Good(m)
  BY <1>3, <1>4
<1> HIDE DEF Good
<1>9. ASSUME NEW t \in Topics, NEW n \in DOMAIN topics'[t].chan
      PROVE  Good(topics'[t].chan[n])
  <2> DEFINE c == topics[t].chan
             d == topics'[t].chan
  <2>1. c \in Seq(Messages) /\ d \in {c, Append(c, m)}
    BY <1>6
  <2>2. \A k \in DOMAIN c : WellFormed(c[k])
    BY DEF RowsInv
  <2> HIDE DEF c
  <2>3. CASE d = c
    BY <1>7, <1>9, <2>2, <2>3
  <2>4. CASE d = Append(c, m)
    <3>1. (n \in DOMAIN c /\ d[n] = c[n]) \/ d[n] = m
      <4>1. c \in Seq(Messages) /\ m \in Messages
        BY <1>4, <2>1
      <4> HIDE DEF Messages
      <4> QED
        BY <1>9, <2>4, <4>1
    <3> QED
      BY <1>7, <1>8, <2>2, <3>1
  <2> QED
    BY <2>1, <2>3, <2>4
<1>10. RowsInv'
  <2>1. rows' \in Seq(RowRecord) /\ Distinct(rows)'
    BY <1>2 DEF RowsInv, Distinct
  <2>2. \A n \in DOMAIN rows' : rows'[n].id \in DOMAIN book'
    BY <1>2, <1>3 DEF RowsInv
  <2> QED
    BY <1>2, <1>9, <2>1, <2>2 DEF RowsInv, WellFormed, Good
<1>11. CASE op.status = "asked"
  <2> DEFINE t == op.topic
  <2>1. t \in Topics /\ topics[t].sub \in Subscribed
    BY <1>1, <1>11 DEF Typed, SessionInv, OpInv, Current
  <2>2. Current = topics[t] /\ Current' = topics'[t]
    BY <1>2 DEF Current
  <2> HIDE DEF t
  <2>3. CASE topics[t].serve = "streaming"
    <3>1. PICK c : c = topics[t].chan
      OBVIOUS
    <3>2. PICK d : d = Append(c, m)
      OBVIOUS
    <3>3. c \in Seq(Messages) /\ topics'[t].chan = d /\ topics'[t].serve = "streaming"
      BY <1>6, <2>1, <2>3, <3>1, <3>2
    <3>4. Fed(c) /\ \A n \in DOMAIN c : WellFormed(c[n])
      BY <1>11, <2>1, <2>2, <2>3, <3>1 DEF FeedInv, RowsInv
    <3>5. m.trades[id] = book'[id] /\ \A q \in DOMAIN book : q # id => book'[q] = book[q]
      BY <1>2, <1>3, <1>4
    <3>6. Fed(d)'
      BY <1>1, <1>2, <1>4, <1>5, <3>2, <3>3, <3>4, <3>5, ToldIsFed
    <3>7. Current'.chan = d
      BY <2>2, <3>3
    <3> QED
      BY <1>10, <2>2, <3>3, <3>6, <3>7, FeedOf
  <2>4. CASE topics[t].serve # "streaming"
    <3>1. Current'.serve # "streaming"
          /\ (Current'.serve \in {"called", "looked"} => Current'.chan = <<>>)
      BY <1>6, <1>11, <2>1, <2>2, <2>4 DEF FeedInv
    <3> QED
      BY <1>10, <3>1 DEF FeedInv
  <2> QED
    BY <2>3, <2>4
<1>12. FeedInv'
  BY <1>2, <1>11 DEF FeedInv
<1> QED
  BY <1>10, <1>12

LEMMA ServerKeepsRows ==
  ASSUME BlotterInv, SessionInv, RowsInv, FeedInv, NEW t \in Topics,
         GetPrivateEndPoint(t) \/ StreamTrades(t) \/ Resend(t) \/ TearDown(t)
  PROVE  RowsInv' /\ FeedInv'
<1> DEFINE r == topics[t]
           m == Message(TRUE, LastTrades, book)
           p == Publish(r, m)
<1>1. r \in Topic /\ Typed
  BY DEF BlotterInv, Typed
<1>2. p \in Topic /\ p.serve = r.serve /\ p.sub = r.sub
      /\ p.chan = IF r.sub \in Subscribed THEN Append(r.chan, m) ELSE r.chan
  <2>1. p \in Topic /\ p.serve = r.serve /\ p.sub = r.sub
    BY <1>1, PublishIsQuiet DEF LastTrades, BlotterInv
  <2>2. p.chan = IF r.sub \in Subscribed THEN Append(r.chan, m) ELSE r.chan
    BY <1>1 DEF Publish, Topic, Subscribed
  <2> QED
    BY <2>1, <2>2
<1>3. t = op.topic => /\ op.status = "asked" /\ r.sub \in Subscribed
                      /\ r.serve \in {"called", "looked"} => r.chan = <<>>
  BY BlotterAssumption DEF SessionInv, OpInv, FeedInv, Current
<1> DEFINE Feeds(u) ==
      \/ /\ u.chan = r.chan
         /\ u.serve \in {"called", "looked"} => r.serve \in {"called", "looked"}
         /\ u.serve = "streaming" => r.serve = "streaming"
      \/ u.chan = <<m>> /\ u.serve \notin {"called", "looked"}
      \/ u.serve \notin {"called", "looked", "streaming"}
<1> HIDE DEF m
<1>4. ASSUME NEW u \in Topic, OnTopic(t, u), u.sub = r.sub,
             u.chan = r.chan \/ u.chan = Append(r.chan, m),
             t = op.topic => Feeds(u)
      PROVE  RowsInv' /\ FeedInv'
  <2> DEFINE v == Settled(u)
  <2>1. topics' = [topics EXCEPT ![t] = v] /\ UNCHANGED <<op, book, rows, synced, late>>
    BY <1>4 DEF OnTopic, viewVars
  <2>2. v = u \/ v.chan = <<>>
    BY UnusedIs DEF Settled
  <2>3. t = op.topic => v = u
    BY <1>3, <1>4 DEF Settled, Subscribed
  <2>4. t = op.topic => Feeds(v)
    BY <1>4, <2>3
  <2> HIDE DEF v
  <2> QED
    BY <1>4, <2>1, <2>2, <2>4, TopicKeepsFeed DEF m
<1>5. CASE GetPrivateEndPoint(t)
  <2> DEFINE s == IF r.sub \in {"asked", "acked"} THEN "looked" ELSE "ended"
             u == [r EXCEPT !.serve = s]
  <2>1. /\ u \in Topic /\ u.sub = r.sub /\ u.chan = r.chan /\ u.serve \in {"looked", "ended"}
        /\ r.serve = "called"
    BY <1>1, <1>5 DEF GetPrivateEndPoint, Topic, Serving
  <2>2. OnTopic(t, u)
    BY <1>5 DEF GetPrivateEndPoint
  <2> HIDE DEF u
  <2>3. Feeds(u)
    BY <2>1
  <2> QED
    BY <1>4, <2>1, <2>2, <2>3
<1>6. CASE StreamTrades(t)
  <2> DEFINE s == IF r.serve = "looked" THEN "streaming" ELSE "orphan"
             u == [p EXCEPT !.serve = s]
  <2>1. u \in Topic /\ u.sub = r.sub /\ u.chan = p.chan /\ u.serve = s
        /\ r.serve \in {"looked", "late"}
    BY <1>2, <1>6 DEF StreamTrades, Topic, Serving
  <2>2. OnTopic(t, u)
    BY <1>6 DEF StreamTrades, m
  <2> HIDE DEF u, p
  <2>3. t = op.topic => Feeds(u)
    <3>1. CASE r.serve = "late"
      BY <2>1, <3>1
    <3>2. CASE r.serve = "looked" /\ t = op.topic
      <4>1. r.chan = <<>> /\ r.sub \in Subscribed
        BY <1>3, <3>2
      <4>2. u.chan = Append(<<>>, m)
        BY <1>2, <2>1, <4>1
      <4>3. Append(<<>>, m) = <<m>>
        OBVIOUS
      <4> QED
        BY <2>1, <3>2, <4>2, <4>3
    <3> QED
      BY <2>1, <3>1, <3>2
  <2> QED
    BY <1>2, <1>4, <2>1, <2>2, <2>3
<1>7. CASE Resend(t)
  <2>1. OnTopic(t, p) /\ r.serve \in {"streaming", "orphan"} /\ r.chan = <<>>
        /\ r.sub \in Subscribed
    BY <1>7 DEF Resend, m, Subscribed
  <2> HIDE DEF p
  <2>2. p.chan = <<m>>
    BY <1>2, <2>1
  <2>3. Feeds(p)
    BY <1>2, <2>1, <2>2
  <2> QED
    BY <1>2, <1>4, <2>1, <2>3
<1>8. CASE TearDown(t)
  <2> DEFINE s == CASE r.serve = "streaming" -> "ended" [] r.serve = "looked" -> "late"
                    [] OTHER -> r.serve
             u == [r EXCEPT !.torn = FALSE, !.serve = s]
  <2>1. s \in Serving \union {"none", "ended"} /\ s \in {r.serve, "ended", "late"}
    BY <1>1 DEF Topic, Serving
  <2>2. OnTopic(t, u)
    BY <1>8 DEF TearDown
  <2> HIDE DEF s
  <2>3. u \in Topic /\ u.sub = r.sub /\ u.serve = s /\ u.chan = r.chan
    BY <1>1, <2>1 DEF Topic
  <2> HIDE DEF u
  <2>4. Feeds(u)
    BY <2>1, <2>3
  <2> QED
    BY <1>4, <2>2, <2>3, <2>4
<1> QED
  BY <1>5, <1>6, <1>7, <1>8

LEMMA CrashKeepsRows ==
  ASSUME BlotterInv, RowsInv, Crash
  PROVE  RowsInv' /\ FeedInv'
<1> DEFINE end(t) == [topics[t] EXCEPT !.torn = FALSE,
                        !.serve = IF @ \in Serving \ {"called"} THEN "ended" ELSE "none"]
<1>1. ASSUME NEW t \in Topics
      PROVE  /\ Moved(topics[t], Settled(end(t)))
             /\ Settled(end(t)).serve \in {"ended", "none"}
  <2>1. topics[t] \in Topic
    BY DEF BlotterInv, Typed
  <2>2. /\ end(t) \in Topic /\ end(t).chan = topics[t].chan
        /\ end(t).serve \in {"ended", "none"}
    BY <2>1 DEF Topic
  <2>3. WillBeTold(end(t))
    BY <2>2 DEF WillBeTold
  <2> HIDE DEF end
  <2>4. Settled(end(t)).serve \in {"ended", "none"}
    BY <2>2 DEF Settled, Unused
  <2> QED
    BY <2>2, <2>3, <2>4, SettledMoves DEF Moved
<1>2. topics' = [t \in Topics |-> Settled(end(t))]
      /\ UNCHANGED <<op, book, rows, synced, late>>
  BY DEF Crash, viewVars
<1> HIDE DEF end
<1>3. \A t \in Topics : Moved(topics[t], topics'[t]) /\ topics'[t].serve \in {"ended", "none"}
  BY <1>1, <1>2
<1>4. RowsInv'
  BY <1>2, <1>3, MovesKeepRows
<1>5. op.status = "asked" => Current'.serve \in {"ended", "none"}
  BY <1>2, <1>3 DEF BlotterInv, Typed, Current
<1> QED
  BY <1>2, <1>4, <1>5 DEF FeedInv

LEMMA RowsInvStep ==
  BlotterInv /\ SessionInv /\ RowsInv /\ FeedInv /\ [Next]_vars => RowsInv' /\ FeedInv'
<1> SUFFICES ASSUME BlotterInv, SessionInv, RowsInv, FeedInv, [Next]_vars
             PROVE  RowsInv' /\ FeedInv'
  OBVIOUS
<1>1. ASSUME UNCHANGED <<topics, op, book, rows, synced, late>>
      PROVE  RowsInv' /\ FeedInv'
  <2>1. RowsInv'
    BY <1>1, MovesKeepRows
  <2>2. Current' = Current
    BY <1>1 DEF Current
  <2> QED
    BY <1>1, <2>1, <2>2, FeedKept
<1>2. CASE Connect \/ OnOpen \/ Unreachable \/ Expire \/ UNCHANGED vars
  BY <1>1, <1>2 DEF Connect, OnOpen, Unreachable, Expire, viewVars, vars
<1>3. CASE Lost \/ Closed
  BY <1>3, OnCloseKeepsRows DEF Lost, Closed
<1>4. CASE Heartbeat
  BY <1>4, HeartbeatKeepsRows
<1>5. CASE \E i \in seen : MissHeartbeats(i)
  BY <1>5, MissKeepsRows
<1>6. CASE OpMissesHeartbeats \/ RpcFails
  <2>1. op.topic \in Topics /\ Fail("failed") /\ UNCHANGED <<book, rows>>
    BY <1>6 DEF OpMissesHeartbeats, RpcFails, viewVars, BlotterInv, Typed
  <2> QED
    BY <2>1, FailKeepsRows
<1>7. CASE Subscribe \/ Retry
  BY <1>7, LookUpKeepsRows DEF Subscribe, Retry, viewVars
<1>8. ASSUME NEW t \in Topics, Ack(t) \/ Receive(t) PROVE RowsInv' /\ FeedInv'
  BY <1>8, AckKeepsRows, ReceiveKeepsRows
<1>9. CASE \E id \in Fickle : PairChanges(id)
  BY <1>1, <1>9 DEF PairChanges, viewVars
<1>10. CASE \E id \in Ids, st \in {"Pending"} \cup Finals : BookChanges(id, st)
  BY <1>10, BookChangesKeepsRows DEF TradeStatuses
<1>11. CASE \E t \in Topics : \/ GetPrivateEndPoint(t) \/ StreamTrades(t)
                              \/ Resend(t) \/ TearDown(t)
  BY <1>11, ServerKeepsRows
<1>12. CASE Crash
  BY <1>12, CrashKeepsRows
<1> QED
  BY <1>2, <1>3, <1>4, <1>5, <1>6, <1>7, <1>8, <1>9, <1>10, <1>11, <1>12 DEF Next

LEMMA RowsInvariant == Spec => [](BlotterInv /\ SessionInv /\ RowsInv /\ FeedInv)
BY BlotterInvInit, SessionInvInit, RowsInvInit, BlotterInvStep, SessionInvStep,
   RowsInvStep, PTL DEF Spec

\* Every variable keeps its type, an operation that has asked has a topic on a
\* connection that is up, the blotter is connected exactly while it takes an
\* instance for alive, and it shows trades of the server only, through any
\* number of crashes and lost sessions (blotterModel.js:105-146).
THEOREM BlotterTypeCorrect == Spec => []BlotterTypeOK
<1>1. BlotterInv /\ SessionInv /\ RowsInv => BlotterTypeOK
  <2> SUFFICES ASSUME BlotterInv, SessionInv, RowsInv PROVE BlotterTypeOK
    OBVIOUS
  <2>1. \A t \in Topics : /\ topics[t].sub \in {"none", "asked", "acked", "left"}
                          /\ topics[t].serve \in Serving \cup {"none", "ended"}
    BY DEF BlotterInv, Typed, Topic
  <2>2. /\ link \in {"closed", "opening", "open", "closing"} /\ connectCalled \in BOOLEAN
        /\ (seen # {} \/ op.status = "asked") => link \in {"open", "closing"}
    BY DEF SessionInv, LinkInv, OpInv
  <2>3. /\ op.status \in {"off", "waiting", "asked", "failed", "dead"}
        /\ (op.status = "asked") <=> op.topic # NoTopic
        /\ op.topic # NoTopic => Current.sub \in {"asked", "acked"}
    BY DEF SessionInv, OpInv, Subscribed
  <2>4. unknown \subseteq Ids /\ notified \in [Ids -> Nat]
        /\ \A n \in DOMAIN rows : rows[n].id \in DOMAIN book
    BY DEF BlotterInv, Typed, SessionInv, RowsInv
  <2> QED
    BY <2>1, <2>2, <2>3, <2>4 DEF BlotterTypeOK, SessionInv
<1> QED
  BY <1>1, RowsInvariant, PTL

\* The rows of a blotter that a stream feeds, all its messages received, are
\* the trades of the server as they are, each once, the last ones among them,
\* for any number of trades, of messages on their way, crashes and lost
\* sessions (blotterModel.js:109-122, 143-146, BlotterServiceHost.cs:40).
THEOREM RowsAreTheBook == Spec => []ShownIsBook
<1>1. BlotterInv /\ SessionInv /\ RowsInv /\ FeedInv => ShownIsBook
  <2> SUFFICES ASSUME BlotterInv, SessionInv, RowsInv, FeedInv,
                      Drained, synced \/ (connected /\ late = 0)
               PROVE  /\ \A n \in DOMAIN rows : rows[n].status = book[rows[n].id]
                      /\ \A n, k \in DOMAIN rows : rows[n].id = rows[k].id => n = k
                      /\ LastTrades \subseteq {rows[n].id : n \in DOMAIN rows}
    BY DEF ShownIsBook
  <2>1. PICK c : c = Current.chan
    OBVIOUS
  <2>2. c = <<>> /\ Fed(c)
    BY <2>1 DEF Drained, FeedInv
  <2>3. \A id : ~Mentioned(c, 1, id)
    BY <2>2 DEF Mentioned
  <2>4. Follows(c)
    BY <2>2 DEF Fed, Reloads
  <2>5. synced
    BY <2>4 DEF Follows
  <2> QED
    BY <2>3, <2>4, <2>5 DEF Follows, RowsInv, Distinct
<1> QED
  BY <1>1, RowsInvariant, PTL

=============================================================================
