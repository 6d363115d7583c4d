------------------------------- MODULE Ingestion -------------------------------
(***************************************************************************)
(* packages/event-ingestion-worker: competing worker processes take events *)
(* off one RabbitMQ queue and record each one in the MongoDB `inbox`       *)
(* collection, acknowledging a message once its upsert is confirmed.       *)
(*                                                                         *)
(* The broker (ready messages, per-channel delivery tags), the reconnecting *)
(* AMQP client and MongoDB's upsert are external: they are modelled from   *)
(* the calls RabbitMqBrokerConsumerAdapter and InboxMongoRepository make.  *)
(* Everything between a delivery and the first await of its handler runs   *)
(* in one turn of the event loop, hence in one action.                     *)
(***************************************************************************)
EXTENDS Naturals

CONSTANTS
  Messages,      \* the messages publishers put on the queue, one per publish
  Keys,          \* dedup keys
  Rejected,      \* what KeyOf holds for a message the worker cannot accept
  KeyOf,         \* the dedup key each message resolves to (module Envelope)
  Workers,       \* the worker processes (replicas)
  Durable,       \* the messages published as persistent
  IndexAtStart,  \* whether the unique index on dedupKey already exists
  FaultsOn,      \* the kinds of faults that may happen
  MaxFaults      \* how many of them may happen in a behaviour

FaultKinds == {"crash", "stop", "drop", "persist", "brokerRestart"}

ASSUME MessagesAssumption == /\ Rejected \notin Keys
                             /\ KeyOf \in [Messages -> Keys \cup {Rejected}]
                             /\ Durable \subseteq Messages
ASSUME IndexAssumption == IndexAtStart \in BOOLEAN
ASSUME FaultsAssumption == FaultsOn \subseteq FaultKinds /\ MaxFaults \in Nat

VARIABLES
  published, \* messages the broker has accepted
  ready,     \* messages waiting in the queue
  proc,      \* life cycle of each worker process
  link,      \* state of each worker's AMQP channel
  inc,       \* how many channels each worker has opened
  nextTag,   \* delivery tag the broker gives next on the worker's channel
  unacked,   \* deliveries outstanding on the worker's channel
  handlers,  \* running invocations of handleMessage
  ops,       \* upserts MongoDB is executing
  inbox,     \* documents of the inbox collection
  indexed,   \* whether the unique index on dedupKey is built
  settled,   \* history: every message taken off the broker, by whom and why
  lost,      \* history: transient messages a broker restart lost
  faults     \* how many faults have happened

brokerVars == <<published, ready, settled, lost>>
workerVars == <<proc, link, inc, nextTag, unacked, handlers>>
mongoVars  == <<ops, inbox, indexed>>
vars == <<brokerVars, workerVars, mongoVars, faults>>

Delivery == [w: Workers, inc: Nat, tag: Nat]
Step     == {"await", "inserted", "existing", "duplicateKey", "failed"}
Document == [key: Keys, msg: Messages, by: Delivery]

\* What parsing, dedup-key resolution and the value objects decide of a message.
AcceptedWithoutValidation(m) == TRUE
Accepted(m) == KeyOf[m] # Rejected

Recorded(k) == \E d \in inbox : d.key = k
RecordedMessage(m) == Recorded(KeyOf[m])
OnBroker(m) == m \in ready \/ \E w \in Workers : \E u \in unacked[w] : u.msg = m

Fault(kind) ==
  /\ kind \in FaultsOn
  /\ faults < MaxFaults
  /\ faults' = faults + 1

Init ==
  /\ published = {} /\ ready = {} /\ settled = {} /\ lost = {}
  /\ proc = [w \in Workers |-> "down"]
  /\ link = [w \in Workers |-> "down"]
  /\ inc = [w \in Workers |-> 0]
  /\ nextTag = [w \in Workers |-> 1]
  /\ unacked = [w \in Workers |-> {}]
  /\ handlers = {} /\ ops = {} /\ inbox = {}
  /\ indexed = IndexAtStart
  /\ faults = 0

-----------------------------------------------------------------------------
(* The broker.                                                              *)

Publish(m) ==
  /\ m \notin published
  /\ published' = published \cup {m}
  /\ ready' = ready \cup {m}
  /\ UNCHANGED <<settled, lost, workerVars, mongoVars, faults>>

\* Mutant: what was outstanding is dropped, as with a consumer that sets noAck.
CloseChannelWithoutRequeue(w, state) ==
  /\ link' = [link EXCEPT ![w] = state]
  /\ unacked' = [unacked EXCEPT ![w] = {}]
  /\ UNCHANGED ready

\* The channel of w is gone: what it had outstanding goes back to the queue.
CloseChannel(w, state) ==
  /\ link' = [link EXCEPT ![w] = state]
  /\ unacked' = [unacked EXCEPT ![w] = {}]
  /\ ready' = ready \cup {u.msg : u \in unacked[w]}

\* A durable queue survives a broker restart, a transient message in it does not.
BrokerRestart ==
  /\ Fault("brokerRestart")
  /\ ready' = {m \in Durable : OnBroker(m)}
  /\ lost' = lost \cup {m \in published \ Durable : OnBroker(m)}
  /\ unacked' = [w \in Workers |-> {}]
  /\ link' = [w \in Workers |-> "down"]
  /\ UNCHANGED <<published, settled, proc, inc, nextTag, handlers, mongoVars>>

-----------------------------------------------------------------------------
(* The worker process: start, consume, settle.                              *)

Start(w) ==
  /\ proc[w] = "down"
  /\ proc' = [proc EXCEPT ![w] = "up"]
  /\ UNCHANGED <<brokerVars, link, inc, nextTag, unacked, handlers, mongoVars,
                 faults>>

\* Mutant: a new channel is taken for the one before it.
ConnectOnSameChannel(w) ==
  /\ proc[w] = "up" /\ link[w] = "down"
  /\ link' = [link EXCEPT ![w] = "open"]
  /\ nextTag' = [nextTag EXCEPT ![w] = 1]
  /\ UNCHANGED <<brokerVars, proc, inc, unacked, handlers, mongoVars, faults>>

\* The client (re)connects, asserts the queue and consumes again. Delivery
\* tags start over: they belong to the channel.
Connect(w) ==
  /\ proc[w] = "up" /\ link[w] = "down"
  /\ link' = [link EXCEPT ![w] = "open"]
  /\ inc' = [inc EXCEPT ![w] = @ + 1]
  /\ nextTag' = [nextTag EXCEPT ![w] = 1]
  /\ UNCHANGED <<brokerVars, proc, unacked, handlers, mongoVars, faults>>

CanDeliver(w, m) == proc[w] = "up" /\ link[w] = "open" /\ m \in ready

\* JSON, envelope, dedup key or value objects reject the message: the error is
\* caught in the turn that received it, and the message is nacked, not requeued.
DeliverRejected(w, m) ==
  /\ CanDeliver(w, m)
  /\ ~Accepted(m)
  /\ ready' = ready \ {m}
  /\ nextTag' = [nextTag EXCEPT ![w] = @ + 1]
  /\ settled' = settled \cup
       {[msg |-> m, by |-> m, how |-> "rejected", stale |-> FALSE]}
  /\ UNCHANGED <<published, lost, proc, link, inc, unacked, handlers, mongoVars,
                 faults>>

\* The message is accepted: its handler runs up to the upsert and awaits it.
\* No prefetch is set, so nothing bounds the handlers of a worker.
DeliverEvent(w, m) ==
  /\ CanDeliver(w, m)
  /\ Accepted(m)
  /\ LET d == [w |-> w, inc |-> inc[w], tag |-> nextTag[w]] IN
       /\ handlers' = handlers \cup {[d |-> d, msg |-> m, step |-> "await"]}
       /\ ops' = ops \cup {[d |-> d, msg |-> m, at |-> "lookup"]}
  /\ unacked' = [unacked EXCEPT ![w] = @ \cup {[tag |-> nextTag[w], msg |-> m]}]
  /\ ready' = ready \ {m}
  /\ nextTag' = [nextTag EXCEPT ![w] = @ + 1]
  /\ UNCHANGED <<published, settled, lost, proc, link, inc, inbox, indexed, faults>>

\* this.channel.ack(msg) / nack(msg, false, false) act on the channel of the
\* moment, with the tag of the channel that delivered msg.
Settled(w, h, u) ==
  [msg |-> u.msg, by |-> h.msg, how |-> h.step, stale |-> h.d.inc # inc[w]]

\* Mutant: ack(msg, allUpTo = true).
SettleAllUpTo(w, h) ==
  /\ proc[w] = "up" /\ link[w] = "open"
  /\ LET upTo == {u \in unacked[w] : u.tag <= h.d.tag} IN
       /\ upTo # {}
       /\ unacked' = [unacked EXCEPT ![w] = @ \ upTo]
       /\ settled' = settled \cup {Settled(w, h, u) : u \in upTo}
  /\ UNCHANGED <<ready, link, proc>>

\* Mutant: a duplicate returns early, without the ack.
SettleUnlessDuplicate(w, h) ==
  /\ proc[w] = "up" /\ link[w] = "open"
  /\ \E u \in unacked[w] :
       /\ u.tag = h.d.tag
       /\ IF h.step = "existing"
            THEN UNCHANGED <<unacked, settled>>
            ELSE /\ unacked' = [unacked EXCEPT ![w] = @ \ {u}]
                 /\ settled' = settled \cup {Settled(w, h, u)}
  /\ UNCHANGED <<ready, link, proc>>

SettleOnChannel(w, h) ==
  /\ proc[w] = "up" /\ link[w] = "open"
  /\ \E u \in unacked[w] :
       /\ u.tag = h.d.tag
       /\ unacked' = [unacked EXCEPT ![w] = @ \ {u}]
       /\ settled' = settled \cup {Settled(w, h, u)}
  /\ UNCHANGED <<ready, link, proc>>

\* An unknown delivery tag is a channel error: the broker closes the channel, and
\* the wrapper has none until the connection itself is next re-established.
SettleUnknownTag(w, h) ==
  /\ proc[w] = "up" /\ link[w] = "open"
  /\ \A u \in unacked[w] : u.tag # h.d.tag
  /\ CloseChannel(w, "stalled")
  /\ UNCHANGED <<settled, proc>>

\* The wrapper has no channel, or has let go of the one it closes: ack and nack
\* do nothing.
SettleWithoutChannel(w) ==
  /\ link[w] # "open" \/ proc[w] = "closing"
  /\ UNCHANGED <<ready, unacked, settled, link, proc>>

Settle(w, h) ==
  /\ h.d.w = w
  /\ h.step # "await"
  /\ \/ SettleOnChannel(w, h)
     \/ SettleUnknownTag(w, h)
     \/ SettleWithoutChannel(w)
  /\ handlers' = handlers \ {h}
  /\ UNCHANGED <<published, lost, inc, nextTag, mongoVars, faults>>

-----------------------------------------------------------------------------
(* Losing the connection, stopping and dying.                               *)

\* The connection drops; handlers of the old channel keep running.
ConnectionLost(w) ==
  /\ proc[w] = "up" /\ link[w] \in {"open", "stalled"}
  /\ Fault("drop")
  /\ CloseChannel(w, "down")
  /\ UNCHANGED <<published, settled, lost, proc, inc, nextTag, handlers, mongoVars>>

\* SIGTERM or SIGINT: shutdown() calls runtime.stop(), which closes the channel.
Stop(w) ==
  /\ proc[w] = "up"
  /\ Fault("stop")
  /\ proc' = [proc EXCEPT ![w] = IF link[w] = "open" THEN "closing" ELSE "closed"]
  /\ UNCHANGED <<brokerVars, link, inc, nextTag, unacked, handlers, mongoVars>>

\* The broker confirms the close. disconnect() awaits this and nothing else.
Closed(w) ==
  /\ proc[w] = "closing"
  /\ proc' = [proc EXCEPT ![w] = "closed"]
  /\ CloseChannel(w, "down")
  /\ UNCHANGED <<published, settled, lost, inc, nextTag, handlers, mongoVars,
                 faults>>

\* The process is gone with every handler it ran; MongoDB keeps the upserts it
\* was sent.
ProcessEnds(w) ==
  /\ proc' = [proc EXCEPT ![w] = "down"]
  /\ handlers' = {h \in handlers : h.d.w # w}
  /\ CloseChannel(w, "down")
  /\ UNCHANGED <<published, settled, lost, inc, nextTag, mongoVars>>

\* app.close() and process.exit(0), the last two statements of shutdown().
Exit(w) ==
  /\ proc[w] = "closed"
  /\ ProcessEnds(w)
  /\ UNCHANGED faults

Crash(w) ==
  /\ proc[w] \in {"up", "closing"}
  /\ Fault("crash")
  /\ ProcessEnds(w)

-----------------------------------------------------------------------------
(* MongoDB: findOneAndUpdate({dedupKey}, {$setOnInsert: doc}, {upsert}) is a *)
(* lookup and, when it matches nothing, an insert.                          *)

\* The answer reaches the handler if it still waits for it.
Reply(o, step) ==
  handlers' = {IF h.d = o.d /\ h.step = "await" THEN [h EXCEPT !.step = step]
                                                ELSE h : h \in handlers}

UpsertMatches(o) ==
  /\ o.at = "lookup" /\ RecordedMessage(o.msg)
  /\ ops' = ops \ {o}
  /\ Reply(o, "existing")
  /\ UNCHANGED <<inbox, indexed>>

\* Mutant: write concern 0, the upsert answers before the insert.
UpsertUnconfirmed(o) ==
  /\ o.at = "lookup" /\ ~RecordedMessage(o.msg)
  /\ ops' = (ops \ {o}) \cup {[o EXCEPT !.at = "insert"]}
  /\ Reply(o, "inserted")
  /\ UNCHANGED <<inbox, indexed>>

UpsertMisses(o) ==
  /\ o.at = "lookup" /\ ~RecordedMessage(o.msg)
  /\ ops' = (ops \ {o}) \cup {[o EXCEPT !.at = "insert"]}
  /\ UNCHANGED <<handlers, inbox, indexed>>

\* Mutant: the schema declares the index on dedupKey without `unique`.
UpsertInsertsAnyway(o) ==
  /\ o.at = "insert"
  /\ inbox' = inbox \cup {[key |-> KeyOf[o.msg], msg |-> o.msg, by |-> o.d]}
  /\ ops' = ops \ {o}
  /\ Reply(o, "inserted")
  /\ UNCHANGED indexed

UpsertInserts(o) ==
  /\ o.at = "insert"
  /\ ~(indexed /\ RecordedMessage(o.msg))
  /\ inbox' = inbox \cup {[key |-> KeyOf[o.msg], msg |-> o.msg, by |-> o.d]}
  /\ ops' = ops \ {o}
  /\ Reply(o, "inserted")
  /\ UNCHANGED indexed

\* The unique index refuses the insert: E11000, or the server retries the upsert.
UpsertCollides(o) ==
  /\ o.at = "insert"
  /\ indexed /\ RecordedMessage(o.msg)
  /\ \/ /\ ops' = ops \ {o}
        /\ Reply(o, "duplicateKey")
     \/ /\ ops' = (ops \ {o}) \cup {[o EXCEPT !.at = "lookup"]}
        /\ UNCHANGED handlers
  /\ UNCHANGED <<inbox, indexed>>

Upsert(o) ==
  /\ \/ UpsertMatches(o)
     \/ UpsertMisses(o)
     \/ UpsertInserts(o)
     \/ UpsertCollides(o)
  /\ UNCHANGED <<brokerVars, proc, link, inc, nextTag, unacked, faults>>

\* The await rejects: the upsert never reached the server, or it did and the
\* answer is lost.
PersistFails(h) ==
  /\ h.step = "await"
  /\ Fault("persist")
  /\ handlers' = (handlers \ {h}) \cup {[h EXCEPT !.step = "failed"]}
  /\ \/ ops' = {o \in ops : o.d # h.d}
     \/ UNCHANGED ops
  /\ UNCHANGED <<brokerVars, proc, link, inc, nextTag, unacked, inbox, indexed>>

UniqueKeys == \A d, e \in inbox : d.key = e.key => d = e

\* Mongoose builds the schema's indexes in the background once a process runs;
\* the build of a unique index fails on a collection that holds duplicates.
BuildIndex ==
  /\ ~indexed
  /\ \E w \in Workers : proc[w] = "up"
  /\ UniqueKeys
  /\ indexed' = TRUE
  /\ UNCHANGED <<brokerVars, workerVars, ops, inbox, faults>>

-----------------------------------------------------------------------------
WorkerStep(w) ==
  \/ Start(w) \/ Connect(w)
  \/ \E m \in Messages : DeliverRejected(w, m) \/ DeliverEvent(w, m)
  \/ \E h \in handlers : Settle(w, h)
  \/ Closed(w) \/ Exit(w)

FaultStep ==
  \/ BrokerRestart
  \/ \E w \in Workers : ConnectionLost(w) \/ Stop(w) \/ Crash(w)
  \/ \E h \in handlers : PersistFails(h)

Next ==
  \/ \E m \in Messages : Publish(m)
  \/ \E w \in Workers : WorkerStep(w)
  \/ \E o \in ops : Upsert(o)
  \/ BuildIndex
  \/ FaultStep

Spec == Init /\ [][Next]_vars

(* The process supervisor restarts workers, the client library reconnects,  *)
(* the broker pushes what is ready to the consumers it has, MongoDB answers *)
(* and the event loop runs the continuations.                               *)
Fairness ==
  /\ \A w \in Workers :
       /\ WF_vars(Start(w)) /\ WF_vars(Connect(w))
       /\ WF_vars(Closed(w)) /\ WF_vars(Exit(w))
       /\ WF_vars(\E h \in handlers : Settle(w, h))
       /\ WF_vars(\E m \in Messages : DeliverRejected(w, m) \/ DeliverEvent(w, m))
  /\ WF_vars(\E o \in ops : Upsert(o))

FairSpec == Spec /\ Fairness

-----------------------------------------------------------------------------
(* Properties.                                                              *)

TypeOK ==
  /\ published \subseteq Messages /\ ready \subseteq published
  /\ proc \in [Workers -> {"down", "up", "closing", "closed"}]
  /\ link \in [Workers -> {"down", "open", "stalled"}]
  /\ inc \in [Workers -> Nat]
  /\ nextTag \in [Workers -> Nat \ {0}]
  /\ unacked \in [Workers -> SUBSET [tag: Nat \ {0}, msg: published]]
  /\ handlers \subseteq [d: Delivery, msg: published, step: Step]
  /\ ops \subseteq [d: Delivery, msg: published, at: {"lookup", "insert"}]
  /\ inbox \subseteq Document
  /\ indexed \in BOOLEAN
  /\ settled \subseteq [msg: published, by: published, how: Step \cup {"rejected"},
                        stale: BOOLEAN]
  /\ lost \subseteq published
  /\ faults \in Nat

(* What makes the losses known. Each part is stated for every interleaving  *)
(* of replies, reconnections and process ends.                              *)

\* A handler that was told its event is in the inbox was told the truth.
Truthful == \A h \in handlers :
  h.step \in {"inserted", "existing", "duplicateKey"} => RecordedMessage(h.msg)

\* Deliveries are never reused: those in use lie before the worker's next one.
Past(d) == /\ d.inc <= inc[d.w]
           /\ d.inc = inc[d.w] => d.tag < nextTag[d.w]
DeliveriesPast == /\ \A h \in handlers : Past(h.d)
                  /\ \A o \in ops : Past(o.d) /\ Accepted(o.msg)
                  /\ \A w \in Workers : \A u \in unacked[w] : u.tag < nextTag[w]

\* An upsert, and a tag of the current channel, belong to the handler that has
\* the same delivery.
OpsOwned == \A o \in ops, h \in handlers : o.d = h.d => o.msg = h.msg
TagsOwned == \A h \in handlers : \A u \in unacked[h.d.w] :
  h.d.inc = inc[h.d.w] /\ u.tag = h.d.tag => u.msg = h.msg

HeldOnlyWhenOpen == \A w \in Workers : link[w] # "open" => unacked[w] = {}

(* Tags, deliveries and answers stay consistent across reconnections: this  *)
(* is what OnlyKnownLosses and OwnMessageSettled rest on.                   *)
Bookkeeping == Truthful /\ DeliveriesPast /\ OpsOwned /\ TagsOwned /\ HeldOnlyWhenOpen

(* An accepted event the broker no longer holds is recorded, except in      *)
(* exactly three cases: its upsert failed and it was nacked without requeue, *)
(* a settlement sent with another channel's tag removed it, or the broker   *)
(* restarted and it was not persistent. Crashes, stops, redeliveries and    *)
(* upsert collisions lose nothing (adapter, handleMessage; README, "Ack     *)
(* after persist, not before").                                             *)
Excused(m) ==
  \/ \E s \in settled : s.msg = m /\ (s.stale \/ s.how = "failed")
  \/ m \in lost \ Durable

OnlyKnownLosses ==
  \A m \in published :
    Accepted(m) => RecordedMessage(m) \/ OnBroker(m) \/ Excused(m)

(* A handler that settles on the channel that delivered to it settles its   *)
(* own message and no other (this.channel.ack(msg), adapter line 65).       *)
OwnMessageSettled == \A s \in settled : s.stale \/ s.msg = s.by

(* Once the unique index exists no two documents share a dedup key, however  *)
(* workers, orphaned upserts and redeliveries interleave (README, "must not *)
(* create two Inbox records").                                              *)
UniqueOnceIndexed == indexed => UniqueKeys

(* A document is never replaced or removed: a redelivery leaves the original *)
(* _id and receivedAt untouched (upsertByDedupKey's $setOnInsert comment).  *)
RecordsImmutable == [][inbox \subseteq inbox']_vars

(* The worker implements the promise, with published, the messages gone from *)
(* the broker and the documents' contents for its three variables.          *)
Promise == INSTANCE ReliableInbox WITH
  offered <- published,
  discharged <- {m \in published : ~OnBroker(m)},
  records <- {[key |-> d.key, msg |-> d.msg] : d \in inbox}

ImplementsPromise == Promise!Spec

(* With the fairness above every published message leaves the broker for    *)
(* good, recorded, rejected or lost, unless every worker ends up connected   *)
(* but without a channel. Connections may be lost, acks may come late       *)
(* (adapter, constructor and handleMessage).                                *)
AllStalled == \A w \in Workers : link[w] = "stalled"

EventuallyDischarged ==
  \A m \in Messages : (m \in published) ~> (~OnBroker(m) \/ []AllStalled)

-----------------------------------------------------------------------------
(* Claims of the repository the code does not keep.                         *)

(* README, "Ack after persist": a message is acked only once the upsert of   *)
(* that message has been confirmed. True while no connection is replaced.   *)
AckedOnlyAfterPersist ==
  \A s \in settled : s.how \in {"inserted", "existing"} => RecordedMessage(s.msg)

(* main.ts, "draining in-flight work before exit": the process does not exit *)
(* while a handler still waits for its upsert.                              *)
DrainsBeforeExit ==
  [][\A w \in Workers :
       proc[w] = "closed" /\ proc'[w] = "down"
         => ~ \E h \in handlers : h.d.w = w /\ h.step = "await"]_vars


=============================================================================
