---------------------------- MODULE ServiceClient ----------------------------
(***************************************************************************)
(* serviceClient.js: the browser's view of the instances of one service,   *)
(* and the operations it runs against them.  Instances broadcast           *)
(* heartbeats with their load; the client keeps a dictionary of them, an   *)
(* instance silent for three seconds being marked disconnected.  An        *)
(* operation takes the instance with the least load, watches the           *)
(* heartbeats of that instance with a timer of its own, and ends with an   *)
(* error when they stop or when the connection is lost.                    *)
(*                                                                         *)
(* Time is left out: a timer may fire whenever its cause is there.  A      *)
(* crashed instance never returns: a restarted one has a new id.           *)
(***************************************************************************)
EXTENDS Naturals, FiniteSets

CONSTANTS
  Instances,              \* service instances
  StreamOps,              \* stream operations: wait for a service, retried
  RequestOps,             \* request-response operations: neither
  Loads,                  \* loads an instance may report
  None,                   \* no instance, or never heard of
  Lost,                   \* in the dictionary: disconnected
  MaxCrashes, MaxLate, MaxDrops  \* bounds on failures

ASSUME ClientAssumption ==
  /\ Loads \subseteq Nat /\ None \notin Loads /\ Lost \notin Loads
  /\ None # Lost /\ None \notin Instances
  /\ StreamOps \cap RequestOps = {}
  /\ {MaxCrashes, MaxLate, MaxDrops} \subseteq Nat

VARIABLES
  up,          \* whether the connection to the broker is up
  listening,   \* whether the status topic is subscribed to
  alive,       \* the instances that send heartbeats and answer
  dict,        \* the dictionary of the last status of each instance
  op,          \* the operations
  late, drops  \* counters for the bounds

vars == <<up, listening, alive, dict, op, late, drops>>

Ops == StreamOps \cup RequestOps

Connected(d) == {i \in Instances : d[i] \in Loads}
LeastLoad(d) == {i \in Connected(d) : \A j \in Connected(d) : d[i] <= d[j]}

(***************************************************************************)
(* An operation: the instance it asked, those whose status it watches, and *)
(* whether its subscription to the dictionary is still looking for one.    *)
(***************************************************************************)
Idle == [status |-> "idle", target |-> None, watch |-> {}, looking |-> FALSE]

Ended(status) == [Idle EXCEPT !.status = status]

\* Mutant: an operation that ends leaves its subscriptions behind.
EndLeaking(p, status) == [p EXCEPT !.status = status]

End(p, status) == Ended(status)

Asked(p) == p.status \in {"asked", "streaming"}

\* The first instance found is asked (hasSubscribed), any is watched.
Found(p, i) ==
  [status  |-> IF p.status = "waiting" THEN "asked" ELSE p.status,
   target  |-> IF p.status = "waiting" THEN i ELSE p.target,
   watch   |-> p.watch \cup {i},
   looking |-> FALSE]

Waiting == [Ended("waiting") EXCEPT !.looking = TRUE]

NoneAvailable(o, p) == IF o \in RequestOps THEN End(p, "failed") ELSE p

\* The dictionary is emitted: every operation still looking reacts.
Emit(d) ==
  /\ dict' = d
  /\ \/ /\ Connected(d) = {}
        /\ op' = [o \in Ops |-> IF op[o].looking THEN NoneAvailable(o, op[o])
                                ELSE op[o]]
     \/ \E i \in LeastLoad(d) :
          op' = [o \in Ops |-> IF op[o].looking THEN Found(op[o], i)
                               ELSE op[o]]

Init ==
  /\ up = FALSE
  /\ listening = FALSE
  /\ alive = Instances
  /\ dict = [i \in Instances |-> None]
  /\ op = [o \in Ops |-> Idle]
  /\ late = 0
  /\ drops = 0

-----------------------------------------------------------------------------
(* The connection.                                                         *)

\* Mutant: the dictionary stream is not repeated after a disconnect.
ConnectOnce ==
  /\ ~up
  /\ up' = TRUE
  /\ listening' = (drops = 0)
  /\ UNCHANGED <<alive, dict, op, late, drops>>

Connect ==
  /\ ~up
  /\ up' = TRUE
  /\ listening' = TRUE
  /\ UNCHANGED <<alive, dict, op, late, drops>>

\* Mutant: a disconnect does not error the grouped status streams.
DisconnectQuietly ==
  /\ up /\ drops < MaxDrops
  /\ drops' = drops + 1
  /\ up' = FALSE
  /\ listening' = FALSE
  /\ Emit([i \in Instances |-> None])
  /\ UNCHANGED <<alive, late>>

\* Every status stream errors and so does what watches one; the dictionary
\* stream goes on with an empty dictionary.
Disconnect ==
  /\ up /\ drops < MaxDrops
  /\ drops' = drops + 1
  /\ up' = FALSE
  /\ listening' = FALSE
  /\ dict' = [i \in Instances |-> None]
  /\ op' = [o \in Ops |->
              IF op[o].watch # {} THEN End(op[o], "failed")
              ELSE IF op[o].looking THEN NoneAvailable(o, op[o]) ELSE op[o]]
  /\ UNCHANGED <<alive, late>>

-----------------------------------------------------------------------------
(* Heartbeats and their timers.                                            *)

\* A status that changes nothing is filtered out (distinctUntilChangedGroup).
Heartbeat(i, load) ==
  /\ listening /\ i \in alive
  /\ dict[i] # load
  /\ Emit([dict EXCEPT ![i] = load])
  /\ UNCHANGED <<up, listening, alive, late, drops>>

MissHeartbeats(i) ==
  /\ dict[i] \in Loads
  /\ \/ i \notin alive /\ late' = late
     \/ i \in alive /\ late < MaxLate /\ late' = late + 1
  /\ Emit([dict EXCEPT ![i] = Lost])
  /\ UNCHANGED <<up, listening, alive, drops>>

\* Mutant: only an operation that awaits its answer watches the instance.
OpMissesHeartbeatsAsked(o, i) ==
  /\ i \in op[o].watch
  /\ op[o].status = "asked"
  /\ dict[i] = Lost
  /\ op' = [op EXCEPT ![o] = End(@, "failed")]
  /\ UNCHANGED <<up, listening, alive, dict, late, drops>>

\* The operation subscribed to the heartbeats after the dictionary did, so
\* its timer never fires before that of the dictionary.
OpMissesHeartbeats(o, i) ==
  /\ i \in op[o].watch
  /\ dict[i] = Lost
  /\ op' = [op EXCEPT ![o] = End(@, "failed")]
  /\ UNCHANGED <<up, listening, alive, dict, late, drops>>

Crash(i) ==
  /\ i \in alive
  /\ Cardinality(Instances \ alive) < MaxCrashes
  /\ alive' = alive \ {i}
  /\ UNCHANGED <<up, listening, dict, op, late, drops>>

-----------------------------------------------------------------------------
(* Operations.                                                             *)

Begin(o, p) ==
  /\ op' = [op EXCEPT ![o] = p]
  /\ UNCHANGED <<up, listening, alive, dict, late, drops>>

\* Mutant: the dictionary is shared by a plain Subject, which has no last
\* value for a new subscriber.
LookUpNext(o) == Begin(o, Waiting)

\* getServiceWithMinLoad: the last dictionary comes at once, while the
\* variable findServiceInstanceDisposable still holds the placeholder that
\* is disposed in place of the subscription: it goes on looking.
LookUp(o) ==
  \/ /\ Connected(dict) = {}
     /\ Begin(o, NoneAvailable(o, Waiting))
  \/ \E i \in LeastLoad(dict) :
       Begin(o, [Found(Waiting, i) EXCEPT !.looking = TRUE])

Subscribe(o) ==
  /\ op[o].status = "idle"
  /\ LookUp(o)

\* retryWithPolicy: both policies in use retry for ever.
Retry(o) ==
  /\ o \in StreamOps
  /\ op[o].status = "failed"
  /\ LookUp(o)

\* The acknowledgement of a stream operation, the result of a request.
Respond(o) ==
  /\ op[o].status = "asked"
  /\ op[o].target \in alive
  /\ Begin(o, IF o \in RequestOps THEN End(op[o], "done")
              ELSE [op[o] EXCEPT !.status = "streaming"])

RpcFails(o) ==
  /\ op[o].status = "asked"
  /\ op[o].target \notin alive
  /\ Begin(o, End(op[o], "failed"))

\* The user interface disposes of its subscription.
Dispose(o) ==
  /\ op[o].status \notin {"idle", "done"}
  /\ Begin(o, End(op[o], "done"))

-----------------------------------------------------------------------------

Next ==
  \/ Connect
  \/ Disconnect
  \/ \E i \in Instances, load \in Loads : Heartbeat(i, load)
  \/ \E i \in Instances : MissHeartbeats(i)
  \/ \E o \in Ops, i \in Instances : OpMissesHeartbeats(o, i)
  \/ \E i \in Instances : Crash(i)
  \/ \E o \in Ops : Subscribe(o)
  \/ \E o \in Ops : Retry(o)
  \/ \E o \in Ops : Respond(o)
  \/ \E o \in Ops : RpcFails(o)
  \/ \E o \in Ops : Dispose(o)

\* Timers fire, retries are scheduled, a live instance sends a heartbeat a
\* second and answers.  Nothing promises that the connection comes back.
Fairness ==
  /\ \A i \in Instances :
       /\ WF_vars(dict[i] \notin Loads /\ \E load \in Loads : Heartbeat(i, load))
       /\ WF_vars(i \notin alive /\ MissHeartbeats(i))
  /\ \A o \in Ops :
       /\ WF_vars(\E i \in Instances : OpMissesHeartbeats(o, i))
       /\ WF_vars(Retry(o))
       /\ WF_vars(Respond(o))

Spec == Init /\ [][Next]_vars /\ Fairness

-----------------------------------------------------------------------------
(* Properties.                                                             *)

Operation ==
  [status  : {"idle", "waiting", "asked", "streaming", "done", "failed"},
   target  : Instances \cup {None},
   watch   : SUBSET Instances,
   looking : BOOLEAN]

\* Types, and the parts of an operation that go together: it has asked an
\* instance and watches some exactly while it is asked or streaming, and
\* looks for one for certain while it waits (serviceClient.js, the
\* composite disposable of an operation).
ClientTypeOK ==
  /\ up \in BOOLEAN /\ listening \in BOOLEAN
  /\ alive \subseteq Instances
  /\ dict \in [Instances -> Loads \cup {None, Lost}]
  /\ late \in 0..MaxLate /\ drops \in 0..MaxDrops
  /\ op \in [Ops -> Operation]
  /\ \A o \in Ops :
       /\ Asked(op[o]) <=> op[o].target # None
       /\ Asked(op[o]) <=> op[o].watch # {}
       /\ op[o].status = "waiting" => op[o].looking
       /\ op[o].looking => op[o].status = "waiting" \/ Asked(op[o])

\* Whatever an operation has asked, it has asked over the connection that
\* is up and watches the heartbeats of, so that neither the loss of the
\* connection nor the end of that instance can leave it without an answer
\* (serviceClient.js:89-91, serviceObservableExtensions.js:92-96).
AskedIsWatched ==
  \A o \in Ops : Asked(op[o]) =>
    /\ up
    /\ op[o].target \in op[o].watch
    /\ \A i \in op[o].watch : dict[i] # None

\* A stream operation waits only while no instance is connected, a request
\* never waits: an operation cannot miss the status that came just before
\* it (serviceClient.js:41, the last dictionary is replayed).
WaitsOnlyWhenNone ==
  \A o \in Ops : op[o].status = "waiting" =>
    o \in StreamOps /\ Connected(dict) = {}

\* No operation stays for ever with an instance that is gone, whether it
\* still awaits an answer or is already streaming (serviceClient.js:130,
\* docs/server.md:19).
NoneHangsOnDeadInstance ==
  \A o \in Ops, i \in Instances :
    ~<>[](op[o].target = i /\ i \notin alive)

\* Once the connection stays up, and some instance with it, every stream
\* that is still wanted ends up streaming from a live instance, whatever
\* crashed, was lost or was late before (serviceClient.js:104-106 and
\* retryWithPolicy).
StreamsRecover ==
  (/\ <>[]up
   /\ \E i \in Instances : [](i \in alive))
  => \A o \in StreamOps :
       <>[](\/ op[o].status \in {"idle", "done"}
            \/ op[o].status = "streaming" /\ op[o].target \in alive)

=============================================================================
