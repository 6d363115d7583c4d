---------------------------- MODULE SandboxPublisher ----------------------------
(***************************************************************************)
(* packages/idp: POST /sandbox publishes one event and answers once the    *)
(* broker has confirmed it. The confirm channel of amqp-connection-manager *)
(* (external) buffers messages while it has no connection and sends again, *)
(* on reconnection, those whose confirmation it has not seen. The Event    *)
(* Ingestion Worker is reduced to what it makes of each message: module    *)
(* Ingestion has its own failures.                                         *)
(***************************************************************************)
EXTENDS Envelope, Naturals

CONSTANTS
  Posts,      \* HTTP requests
  Bodies,     \* the envelopes clients ask for
  EventIds,   \* what `${applicationName}-${randomUUID()}` returns
  FreshUuid,  \* what the interceptor's randomUUID() returns
  WorkerUuid, \* what the worker's randomUUID() returns
  NoMessage,  \* what a request that publishes nothing has for a message
  MaxFaults

ASSUME PublisherAssumption ==
  /\ Bodies \subseteq Envelopes /\ EventIds \subseteq Names /\ FreshUuid \in Uuids
  /\ WorkerUuid \in Uuids \ {FreshUuid}
  /\ NoMessage \notin Envelopes
  /\ MaxFaults \in Nat

VARIABLES
  answer,      \* what each request was answered, if it was
  message,     \* the envelope each request publishes
  outbox,      \* requests whose message waits in the channel wrapper
  unconfirmed, \* those whose message was sent and not confirmed
  link,        \* the process and its connection
  wire,        \* messages on their way to the broker
  confirms,    \* confirmations on their way back
  nacks,       \* and refusals
  queue,       \* messages in the queue, with the copy's number
  copies,      \* how often each message was sent
  inbox,       \* records, each with the request it is of
  discarded,   \* messages the worker refused
  faults

clientVars == <<answer, message, outbox, unconfirmed, link, copies>>
brokerVars == <<wire, confirms, nacks, queue>>
workerVars == <<inbox, discarded>>
vars == <<clientVars, brokerVars, workerVars, faults>>

Message == [post: Posts, copy: Nat \ {0}, envelope: Envelopes]
Pending == outbox \cup unconfirmed
Used == {message[p].eventId : p \in {q \in Posts : message[q] # NoMessage}}

Init ==
  /\ answer = [p \in Posts |-> "idle"]
  /\ message = [p \in Posts |-> NoMessage]
  /\ outbox = {} /\ unconfirmed = {}
  /\ link = "down"
  /\ wire = {} /\ confirms = {} /\ nacks = {} /\ queue = {}
  /\ copies = [p \in Posts |-> 0]
  /\ inbox = {} /\ discarded = {}
  /\ faults = 0

-----------------------------------------------------------------------------
(* The sandbox.                                                             *)

PostRefused(p) ==
  /\ link # "stopped" /\ answer[p] = "idle"
  /\ \E e \in Bodies : ~SandboxAccepts(e, FreshUuid)
  /\ answer' = [answer EXCEPT ![p] = "400"]
  /\ UNCHANGED <<message, outbox, unconfirmed, link, copies, brokerVars, workerVars, faults>>

\* The handler awaits sendToQueue, with or without a connection.
PostAccepted(p) ==
  /\ link # "stopped" /\ answer[p] = "idle"
  /\ \E e \in Bodies, id \in EventIds \ Used :
       /\ SandboxAccepts(e, FreshUuid)
       /\ message' = [message EXCEPT ![p] = Published(e, FreshUuid, id)]
  /\ answer' = [answer EXCEPT ![p] = "awaiting"]
  /\ outbox' = outbox \cup {p}
  /\ UNCHANGED <<unconfirmed, link, copies, brokerVars, workerVars, faults>>

\* Mutant: the eventId is made for each attempt to send.
SendMinting(p) ==
  /\ link = "up" /\ p \in outbox
  /\ outbox' = outbox \ {p}
  /\ unconfirmed' = unconfirmed \cup {p}
  /\ copies' = [copies EXCEPT ![p] = @ + 1]
  /\ \E id \in EventIds \ Used :
       message' = [message EXCEPT ![p].eventId = id]
  /\ wire' = wire \cup {[post |-> p, copy |-> copies[p] + 1, envelope |-> message'[p]]}
  /\ UNCHANGED <<answer, link, confirms, nacks, queue, workerVars, faults>>

\* Mutant: sendToQueue is not awaited.
SendAnswering(p) ==
  /\ link = "up" /\ p \in outbox
  /\ outbox' = outbox \ {p}
  /\ unconfirmed' = unconfirmed \cup {p}
  /\ copies' = [copies EXCEPT ![p] = @ + 1]
  /\ wire' = wire \cup {[post |-> p, copy |-> copies[p] + 1, envelope |-> message[p]]}
  /\ answer' = [answer EXCEPT ![p] = "201"]
  /\ UNCHANGED <<message, link, confirms, nacks, queue, workerVars, faults>>

Send(p) ==
  /\ link = "up" /\ p \in outbox
  /\ outbox' = outbox \ {p}
  /\ unconfirmed' = unconfirmed \cup {p}
  /\ copies' = [copies EXCEPT ![p] = @ + 1]
  /\ wire' = wire \cup {[post |-> p, copy |-> copies[p] + 1, envelope |-> message[p]]}
  /\ UNCHANGED <<answer, message, link, confirms, nacks, queue, workerVars, faults>>

Confirmed(p) ==
  /\ link = "up" /\ p \in confirms \cap unconfirmed
  /\ unconfirmed' = unconfirmed \ {p}
  /\ confirms' = confirms \ {p}
  /\ answer' = [answer EXCEPT ![p] = "201"]
  /\ UNCHANGED <<message, outbox, link, copies, wire, nacks, queue, workerVars, faults>>

\* Mutant: the handler catches what sendToQueue rejects with.
RefusalCaught(p) ==
  /\ link = "up" /\ p \in nacks \cap unconfirmed
  /\ unconfirmed' = unconfirmed \ {p}
  /\ nacks' = nacks \ {p}
  /\ answer' = [answer EXCEPT ![p] = "201"]
  /\ UNCHANGED <<message, outbox, link, copies, wire, confirms, queue, workerVars, faults>>

\* sendToQueue rejects, and nothing handles it but Nest.
Refused(p) ==
  /\ link = "up" /\ p \in nacks \cap unconfirmed
  /\ unconfirmed' = unconfirmed \ {p}
  /\ nacks' = nacks \ {p}
  /\ answer' = [answer EXCEPT ![p] = "500"]
  /\ UNCHANGED <<message, outbox, link, copies, wire, confirms, queue, workerVars, faults>>

\* Mutant: what was sent is taken for delivered.
ConnectForgetting ==
  /\ link = "down"
  /\ link' = "up"
  /\ unconfirmed' = {}
  /\ UNCHANGED <<answer, message, outbox, copies, brokerVars, workerVars, faults>>

\* Mutant: what is sent again is still taken for sent.
ConnectResending ==
  /\ link = "down"
  /\ link' = "up"
  /\ outbox' = Pending
  /\ UNCHANGED <<answer, message, unconfirmed, copies, brokerVars, workerVars, faults>>

Connect ==
  /\ link = "down"
  /\ link' = "up"
  /\ outbox' = Pending
  /\ unconfirmed' = {}
  /\ UNCHANGED <<answer, message, copies, brokerVars, workerVars, faults>>

Restart ==
  /\ link = "stopped"
  /\ link' = "down"
  /\ UNCHANGED <<answer, message, outbox, unconfirmed, copies, brokerVars, workerVars, faults>>

-----------------------------------------------------------------------------
(* Failures.                                                                *)

Fault == faults < MaxFaults /\ faults' = faults + 1

\* What was on the wire, in either direction, is lost.
Disconnect ==
  /\ Fault
  /\ link = "up"
  /\ link' = "down"
  /\ wire' = {} /\ confirms' = {} /\ nacks' = {}
  /\ UNCHANGED <<answer, message, outbox, unconfirmed, copies, queue, workerVars>>

\* idp registers no shutdown hook: on SIGTERM the process ends, and what it had
\* buffered and the requests it had open end with it.
Stop ==
  /\ Fault
  /\ link # "stopped"
  /\ link' = "stopped"
  /\ answer' = [p \in Posts |-> IF answer[p] = "awaiting" THEN "reset" ELSE answer[p]]
  /\ outbox' = {} /\ unconfirmed' = {} /\ confirms' = {} /\ nacks' = {}
  /\ UNCHANGED <<message, copies, wire, queue, workerVars>>

\* The broker nacks a message it could not take over.
BrokerRefuses(m) ==
  /\ Fault
  /\ m \in wire
  /\ wire' = wire \ {m}
  /\ nacks' = nacks \cup {m.post}
  /\ UNCHANGED <<clientVars, confirms, queue, workerVars>>

-----------------------------------------------------------------------------
(* The broker and the worker.                                               *)

BrokerAccepts(m) ==
  /\ m \in wire
  /\ wire' = wire \ {m}
  /\ queue' = queue \cup {m}
  /\ confirms' = confirms \cup {m.post}
  /\ UNCHANGED <<clientVars, nacks, workerVars, faults>>

KeyFor(m) == DedupKeyOf("object", m.envelope, Missing)

WorkerIngests(m) ==
  /\ m \in queue
  /\ KeyFor(m) # Rejected
  /\ queue' = queue \ {m}
  /\ inbox' = IF \E d \in inbox : d.record.dedupKey = KeyFor(m)
              THEN inbox
              ELSE inbox \cup {[record |-> Ingested(m.envelope, KeyFor(m), WorkerUuid),
                                post |-> m.post]}
  /\ UNCHANGED <<clientVars, wire, confirms, nacks, discarded, faults>>

WorkerDiscards(m) ==
  /\ m \in queue
  /\ KeyFor(m) = Rejected
  /\ queue' = queue \ {m}
  /\ discarded' = discarded \cup {m.post}
  /\ UNCHANGED <<clientVars, wire, confirms, nacks, inbox, faults>>

Worker(m) == WorkerIngests(m) \/ WorkerDiscards(m)
Request(p) == PostRefused(p) \/ PostAccepted(p)

Next ==
  \/ \E p \in Posts : Request(p) \/ Send(p) \/ Confirmed(p) \/ Refused(p)
  \/ \E m \in wire : BrokerAccepts(m) \/ BrokerRefuses(m)
  \/ \E m \in queue : Worker(m)
  \/ Connect \/ Restart \/ Disconnect \/ Stop

Spec == Init /\ [][Next]_vars

(* The client library reconnects, the supervisor restarts the process, the  *)
(* broker and the worker take what they are given.                          *)
FairSpec ==
  /\ Spec
  /\ WF_vars(Connect) /\ WF_vars(Restart)
  /\ WF_vars(\E m \in wire : BrokerAccepts(m)) /\ WF_vars(\E m \in queue : Worker(m))
  /\ \A p \in Posts : WF_vars(Send(p)) /\ WF_vars(Confirmed(p)) /\ WF_vars(Refused(p))

-----------------------------------------------------------------------------
(* Properties.                                                              *)

TypeOK ==
  /\ answer \in [Posts -> {"idle", "awaiting", "201", "400", "500", "reset"}]
  /\ message \in [Posts -> Envelopes \cup {NoMessage}]
  /\ outbox \subseteq Posts /\ unconfirmed \subseteq Posts \ outbox
  /\ link \in {"up", "down", "stopped"}
  /\ wire \subseteq Message /\ queue \subseteq Message
  /\ confirms \subseteq Posts /\ nacks \subseteq Posts
  /\ copies \in [Posts -> Nat]
  /\ \A d \in inbox : d.record.dedupKey \in Names \cup Uuids /\ d.post \in Posts
  /\ discarded \subseteq Posts
  /\ faults \in Nat

Arrived(p) == \/ \E m \in queue : m.post = p
              \/ \E d \in inbox : d.post = p
              \/ p \in discarded

(* However often its message is sent again, a request makes one record: the *)
(* eventId is made once, before the first attempt (adapter, publish).       *)
OneRecordPerPost == \A d, e \in inbox : d.post = e.post \/ d.record.dedupKey = e.record.dedupKey => d = e

(* A request is answered 201 only after its message reached the queue, and   *)
(* one that still awaits its answer has a message that still may; one whose   *)
(* message the broker refused is not (`await this.channel.sendToQueue`).     *)
CreatedMeansPublished ==
  \A p \in Posts : /\ answer[p] = "201" => Arrived(p)
                   /\ answer[p] = "awaiting" => p \in Pending

(* Whatever the sandbox lets through, a record has the fields the README of   *)
(* the worker requires, its correlation id is the one the sandbox sent (the   *)
(* worker's own is a fallback no event of the sandbox needs), its key the     *)
(* eventId the sandbox made.                                                *)
RecordsComplete ==
  \A d \in inbox :
    /\ d.record.dedupKey = message[d.post].eventId
    /\ d.record.correlationId = message[d.post].correlationId
    /\ ValueObject(d.record.tenantId) /\ ValueObject(d.record.eventType)

(* The two ends of the envelope disagree in one way: what the sandbox         *)
(* publishes, and answers 201, and the worker then discards without a record, *)
(* has an empty or blank tenantId or eventType (CreateEventDto checks types   *)
(* only, EventEnvelopeDto too, the worker's value objects check the rest).    *)
DiscardedForBlanks ==
  \A p \in discarded : ~ (ValueObject(message[p].tenantId) /\ ValueObject(message[p].eventType))

(* An accepted request is answered or its process dies, and what was         *)
(* answered 201 is ingested or discarded.                                   *)
EveryPostSettles ==
  \A p \in Posts :
    /\ answer[p] = "awaiting" ~> answer[p] \in {"201", "500", "reset"}
    /\ answer[p] = "201" ~> (p \in discarded \/ \E d \in inbox : d.post = p)

=============================================================================
