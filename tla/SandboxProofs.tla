----------------------------- MODULE SandboxProofs -----------------------------
(***************************************************************************)
(* What TLAPS proves of module SandboxPublisher for any requests, bodies,  *)
(* eventIds and number of failures.                                        *)
(***************************************************************************)
EXTENDS SandboxPublisher, TLAPS

-----------------------------------------------------------------------------
(* Envelopes.                                                               *)

\* What the sandbox publishes.
Publishable(e) ==
  /\ e \in Envelopes /\ e.eventId \in EventIds /\ e.correlationId \in Uuids
  /\ e.tenantId \in Strings /\ e.eventType \in Strings /\ e.payload = "object"

LEMMA PublishedIsPublishable ==
  ASSUME NEW e \in Bodies, NEW id \in EventIds, SandboxAccepts(e, FreshUuid)
  PROVE  Publishable(Published(e, FreshUuid, id))
<1> DEFINE c == Backfilled(e.correlationId, FreshUuid)
           sent == [e EXCEPT !.correlationId = c]
           new == Published(e, FreshUuid, id)
<1>1. e \in Envelopes /\ FreshUuid \in Uuids /\ id \in Names
  BY PublisherAssumption
<1>2. /\ sent.correlationId = c /\ sent.tenantId = e.tenantId
      /\ sent.eventType = e.eventType /\ sent.payload = e.payload
  BY <1>1 DEF Envelopes
<1>3. CreateEventDto(sent)
  BY DEF SandboxAccepts
<1>4. c \in Uuids
  <2>1. c \in {Missing, Null} \cup Uuids
    BY <1>2, <1>3 DEF CreateEventDto, Optional
  <2>2. QED
    BY <1>1, <2>1, EnvelopeAssumption DEF Backfilled
<1>5. new = [e EXCEPT !.correlationId = c, !.eventId = id]
  BY DEF Published
<1>6. /\ new \in Envelopes /\ new.eventId = id /\ new.correlationId = c
      /\ new.tenantId = e.tenantId /\ new.eventType = e.eventType /\ new.payload = e.payload
  BY <1>1, <1>4, <1>5 DEF Envelopes, Values, Strings
<1>7. /\ e.tenantId \in Strings /\ e.eventType \in Strings /\ e.payload = "object"
  BY <1>2, <1>3 DEF CreateEventDto
<1>8. QED
  BY <1>4, <1>6, <1>7 DEF Publishable

\* What the worker makes of it: the key is the sender's eventId.
LEMMA KeyIsTheEventId ==
  ASSUME NEW m, Publishable(m.envelope), KeyFor(m) # Rejected
  PROVE  /\ KeyFor(m) = m.envelope.eventId
         /\ ValueObject(m.envelope.tenantId) /\ ValueObject(m.envelope.eventType)
<1>1. m.envelope.eventId \in Names
  BY PublisherAssumption DEF Publishable
<1>2. ResolveDedupKey(m.envelope.eventId, Missing) = m.envelope.eventId
  BY <1>1 DEF ResolveDedupKey, Truthy
<1>3. QED
  BY <1>2 DEF KeyFor, DedupKeyOf

LEMMA RejectedForBlanks ==
  ASSUME NEW m, Publishable(m.envelope), KeyFor(m) = Rejected
  PROVE  ~ (ValueObject(m.envelope.tenantId) /\ ValueObject(m.envelope.eventType))
<1>1. m.envelope.eventId \in Names /\ m.envelope.eventId \in Strings
  BY PublisherAssumption DEF Publishable, Strings
<1>2. ResolveDedupKey(m.envelope.eventId, Missing) = m.envelope.eventId
  BY <1>1 DEF ResolveDedupKey, Truthy
<1>3. EventEnvelopeDto(m.envelope) /\ ValueObject(m.envelope.eventId)
  BY <1>1 DEF EventEnvelopeDto, Publishable, ValueObject
<1>4. m.envelope.eventId # Rejected
  BY <1>1, EnvelopeAssumption
<1>5. QED
  BY <1>2, <1>3, <1>4 DEF KeyFor, DedupKeyOf

LEMMA CorrelationIsTheSenders ==
  ASSUME NEW e, Publishable(e)
  PROVE  ResolveCorrelationId(e.correlationId, WorkerUuid) = e.correlationId
BY DEF Publishable, ResolveCorrelationId, Truthy

-----------------------------------------------------------------------------
(* The inductive invariant.                                                 *)

Messaged == {p \in Posts : message[p] # NoMessage}

\* A request publishes one message, with an eventId no other one has.
OwnMessage ==
  /\ \A p \in Posts : answer[p] \in {"idle", "400"} <=> message[p] = NoMessage
  /\ \A p \in Messaged : Publishable(message[p])
  /\ \A p, q \in Messaged : message[p].eventId = message[q].eventId => p = q

\* Every copy of a message is of the request it names.
TrueCopies ==
  /\ Pending \subseteq Messaged
  /\ \A m \in wire \cup queue : m.post \in Messaged /\ m.envelope = message[m.post]

\* What was confirmed is in the queue or has left it through the worker.
ConfirmsAreTrue == \A p \in confirms : Arrived(p)

RecordsOwned == \A d \in inbox : d.post \in Messaged

Invariant ==
  /\ TypeOK /\ OwnMessage /\ TrueCopies /\ ConfirmsAreTrue /\ RecordsOwned
  /\ OneRecordPerPost /\ CreatedMeansPublished /\ RecordsComplete

LEMMA InitInvariant == Init => Invariant
BY PublisherAssumption
DEF Init, Invariant, TypeOK, OwnMessage, TrueCopies, ConfirmsAreTrue, RecordsOwned,
    OneRecordPerPost, CreatedMeansPublished, RecordsComplete, Messaged, Pending, Message

\* A step that leaves queue, inbox and messages alone.
LEMMA SenderStep ==
  ASSUME Invariant, TypeOK', UNCHANGED <<message, queue, workerVars>>,
         Pending' \subseteq Pending, confirms' \subseteq confirms,
         \A m \in wire' : m \in wire \/ (m.post \in Messaged /\ m.envelope = message[m.post]),
         \A p \in Posts :
           /\ answer'[p] = answer[p] \/ answer'[p] \in {"201", "500", "reset"}
           /\ answer'[p] # answer[p] => p \in Messaged
           /\ answer'[p] = "201" => answer[p] = "201" \/ p \in confirms
           /\ answer'[p] = "awaiting" => p \in Pending'
  PROVE  Invariant'
<1> USE DEF Invariant, workerVars
<1>1. Messaged' = Messaged /\ \A p : Arrived(p)' = Arrived(p)
  BY DEF Messaged, Arrived
<1>2. OwnMessage'
  BY <1>1 DEF OwnMessage, Messaged
<1>3. TrueCopies' /\ ConfirmsAreTrue' /\ RecordsOwned'
  BY <1>1 DEF TrueCopies, ConfirmsAreTrue, RecordsOwned
<1>4. OneRecordPerPost' /\ RecordsComplete'
  BY DEF OneRecordPerPost, RecordsComplete
<1>5. CreatedMeansPublished'
  BY <1>1 DEF CreatedMeansPublished, ConfirmsAreTrue
<1>6. QED
  BY <1>2, <1>3, <1>4, <1>5

LEMMA SendInvariant ==
  ASSUME Invariant, NEW p \in Posts, Send(p)
  PROVE  Invariant'
<1> DEFINE new == [post |-> p, copy |-> copies[p] + 1, envelope |-> message[p]]
<1>1. p \in Messaged /\ message[p] \in Envelopes /\ copies[p] \in Nat
  BY DEF Send, Invariant, TrueCopies, Pending, OwnMessage, Publishable, TypeOK
<1>2. new \in Message
  BY <1>1 DEF Message
<1>3. TypeOK'
  BY <1>1, <1>2 DEF Send, Invariant, TypeOK, workerVars
<1>4. Pending' = Pending
  BY DEF Send, Pending
<1>5. \A m \in wire' : m \in wire \/ (m.post \in Messaged /\ m.envelope = message[m.post])
  BY <1>1 DEF Send
<1>6. \A q \in Posts : answer'[q] = "awaiting" => q \in Pending'
  BY <1>4 DEF Send, Invariant, CreatedMeansPublished
<1>7. QED
  BY <1>3, <1>4, <1>5, <1>6, SenderStep DEF Send

LEMMA ConfirmedInvariant ==
  ASSUME Invariant, NEW p \in Posts, Confirmed(p)
  PROVE  Invariant'
<1>1. p \in confirms /\ p \in Messaged
  BY DEF Confirmed, Invariant, TrueCopies, Pending
<1>2. TypeOK'
  BY DEF Confirmed, Invariant, TypeOK, workerVars
<1>3. /\ answer'[p] = "201" /\ \A q \in Posts \ {p} : answer'[q] = answer[q]
      /\ Pending' \subseteq Pending /\ \A q \in Pending \ {p} : q \in Pending'
  BY DEF Confirmed, Invariant, TypeOK, Pending
<1>4. \A q \in Posts : answer'[q] = "awaiting" => q \in Pending'
  BY <1>3 DEF Invariant, CreatedMeansPublished
<1>5. QED
  BY <1>1, <1>2, <1>3, <1>4, SenderStep DEF Confirmed

LEMMA RefusedInvariant ==
  ASSUME Invariant, NEW p \in Posts, Refused(p)
  PROVE  Invariant'
<1>1. p \in Messaged
  BY DEF Refused, Invariant, TrueCopies, Pending
<1>2. TypeOK'
  BY DEF Refused, Invariant, TypeOK, workerVars
<1>3. /\ answer'[p] = "500" /\ \A q \in Posts \ {p} : answer'[q] = answer[q]
      /\ Pending' \subseteq Pending /\ \A q \in Pending \ {p} : q \in Pending'
  BY DEF Refused, Invariant, TypeOK, Pending
<1>4. \A q \in Posts : answer'[q] = "awaiting" => q \in Pending'
  BY <1>3 DEF Invariant, CreatedMeansPublished
<1>5. QED
  BY <1>1, <1>2, <1>3, <1>4, SenderStep DEF Refused

\* The connection comes and goes, the process starts again, the broker refuses.
LEMMA LinkInvariant ==
  ASSUME Invariant, Connect \/ Restart \/ Disconnect \/ \E m \in wire : BrokerRefuses(m)
  PROVE  Invariant'
<1>1. TypeOK'
  <2>1. CASE Connect \/ Restart \/ Disconnect
    BY <2>1 DEF Connect, Restart, Disconnect, Fault, Invariant, TypeOK, brokerVars, workerVars,
                Pending
  <2>2. ASSUME NEW m \in wire, BrokerRefuses(m)
        PROVE  TypeOK'
    <3>1. m.post \in Posts
      BY DEF Invariant, TypeOK, Message
    <3>2. QED
      BY <2>2, <3>1 DEF BrokerRefuses, Fault, Invariant, TypeOK, clientVars, workerVars
  <2>3. QED
    BY <2>1, <2>2
<1>2. /\ UNCHANGED <<answer, message, queue, workerVars>> /\ Pending' = Pending
      /\ confirms' \subseteq confirms /\ wire' \subseteq wire
  BY DEF Connect, Restart, Disconnect, BrokerRefuses, clientVars, brokerVars, Pending
<1>3. \A p \in Posts : answer'[p] = "awaiting" => p \in Pending'
  BY <1>2 DEF Invariant, CreatedMeansPublished
<1>4. QED
  BY <1>1, <1>2, <1>3, SenderStep

LEMMA StopInvariant ==
  ASSUME Invariant, Stop
  PROVE  Invariant'
<1>1. TypeOK'
  BY DEF Stop, Fault, Invariant, TypeOK, workerVars
<1>2. Pending' = {} /\ confirms' = {} /\ UNCHANGED <<message, wire, queue, workerVars>>
  BY DEF Stop, Pending
<1>3. ASSUME NEW p \in Posts
      PROVE  /\ answer'[p] = answer[p] \/ (answer'[p] = "reset" /\ answer[p] = "awaiting")
             /\ answer'[p] # "awaiting"
  BY <1>3 DEF Stop
<1>4. \A p \in Posts : answer[p] = "awaiting" => p \in Messaged
  BY DEF Invariant, OwnMessage, Messaged
<1>5. QED
  BY <1>1, <1>2, <1>3, <1>4, SenderStep

LEMMA PostRefusedInvariant ==
  ASSUME Invariant, NEW p \in Posts, PostRefused(p)
  PROVE  Invariant'
<1> USE DEF Invariant
<1>1. /\ answer[p] = "idle" /\ answer'[p] = "400" /\ \A q \in Posts \ {p} : answer'[q] = answer[q]
      /\ UNCHANGED <<message, outbox, unconfirmed, wire, confirms, nacks, queue, inbox, discarded>>
  BY DEF PostRefused, TypeOK, brokerVars, workerVars
<1>2. TypeOK'
  BY DEF PostRefused, TypeOK, brokerVars, workerVars
<1>3. Messaged' = Messaged /\ \A q : Arrived(q)' = Arrived(q)
  BY <1>1 DEF Messaged, Arrived
<1>4. OwnMessage'
  BY <1>1, <1>3 DEF OwnMessage
<1>5. TrueCopies' /\ ConfirmsAreTrue' /\ RecordsOwned' /\ OneRecordPerPost' /\ RecordsComplete'
  BY <1>1, <1>3
  DEF TrueCopies, Pending, ConfirmsAreTrue, RecordsOwned, OneRecordPerPost, RecordsComplete
<1>6. CreatedMeansPublished'
  BY <1>1, <1>3 DEF CreatedMeansPublished, Pending
<1>7. QED
  BY <1>2, <1>4, <1>5, <1>6

LEMMA PostAcceptedInvariant ==
  ASSUME Invariant, NEW p \in Posts, PostAccepted(p)
  PROVE  Invariant'
<1> USE DEF Invariant
<1>1. PICK e \in Bodies, id \in EventIds \ Used :
        /\ SandboxAccepts(e, FreshUuid)
        /\ message' = [message EXCEPT ![p] = Published(e, FreshUuid, id)]
  BY DEF PostAccepted
<1> DEFINE new == Published(e, FreshUuid, id)
<1>2. /\ Publishable(new) /\ new.eventId = id /\ new # NoMessage
  <2>1. Publishable(new)
    BY <1>1, PublishedIsPublishable
  <2>2. new.eventId = id
    BY <1>1, PublisherAssumption DEF Published, Envelopes
  <2>3. QED
    BY <2>1, <2>2, PublisherAssumption DEF Publishable
<1> HIDE DEF new
<1>3. /\ answer[p] = "idle" /\ answer'[p] = "awaiting" /\ message'[p] = new
      /\ \A q \in Posts \ {p} : answer'[q] = answer[q] /\ message'[q] = message[q]
      /\ outbox' = outbox \cup {p}
      /\ UNCHANGED <<unconfirmed, wire, confirms, nacks, queue, inbox, discarded>>
  BY <1>1 DEF PostAccepted, TypeOK, brokerVars, workerVars, new
<1>4. p \notin Messaged /\ Messaged' = Messaged \cup {p}
  BY <1>2, <1>3 DEF OwnMessage, Messaged
<1>5. TypeOK'
  <2>1. p \notin unconfirmed
    BY <1>4 DEF TrueCopies, Pending
  <2>2. message' \in [Posts -> Envelopes \cup {NoMessage}]
    BY <1>1, <1>2 DEF TypeOK, Publishable, new
  <2>3. QED
    BY <2>1, <2>2 DEF PostAccepted, TypeOK, brokerVars, workerVars
<1>6. OwnMessage'
  <2>1. \A q \in Messaged : message[q].eventId # id
    BY <1>1 DEF Used, Messaged
  <2>2. \A q \in Posts : (answer[q] \in {"idle", "400"} <=> message[q] = NoMessage)'
    BY <1>2, <1>3 DEF OwnMessage
  <2>3. \A q \in Messaged' : Publishable(message'[q])
    BY <1>2, <1>3, <1>4 DEF OwnMessage, Messaged
  <2>4. \A q, r \in Messaged' : message'[q].eventId = message'[r].eventId => q = r
    BY <1>2, <1>3, <1>4, <2>1 DEF OwnMessage, Messaged
  <2>5. QED
    BY <2>2, <2>3, <2>4 DEF OwnMessage
<1>7. TrueCopies' /\ ConfirmsAreTrue' /\ RecordsOwned'
  BY <1>3, <1>4 DEF TrueCopies, Pending, ConfirmsAreTrue, Arrived, RecordsOwned, Messaged
<1>8. OneRecordPerPost' /\ RecordsComplete'
  BY <1>3, <1>4 DEF OneRecordPerPost, RecordsComplete, RecordsOwned, Messaged
<1>9. CreatedMeansPublished'
  BY <1>3 DEF CreatedMeansPublished, Pending, Arrived
<1>10. QED
  BY <1>5, <1>6, <1>7, <1>8, <1>9

LEMMA BrokerInvariant ==
  ASSUME Invariant, NEW m \in wire, BrokerAccepts(m)
  PROVE  Invariant'
<1> USE DEF Invariant
<1>1. /\ wire' = wire \ {m} /\ queue' = queue \cup {m} /\ confirms' = confirms \cup {m.post}
      /\ UNCHANGED <<answer, message, outbox, unconfirmed, link, copies, nacks, inbox, discarded, faults>>
  BY DEF BrokerAccepts, clientVars, workerVars
<1>2. TypeOK'
  BY <1>1 DEF TypeOK, Message
<1>3. Messaged' = Messaged /\ \A p : Arrived(p) \/ p = m.post => Arrived(p)'
  BY <1>1 DEF Messaged, Arrived
<1>4. OwnMessage' /\ TrueCopies' /\ RecordsOwned'
  BY <1>1, <1>3 DEF OwnMessage, TrueCopies, Pending, RecordsOwned
<1>5. ConfirmsAreTrue' /\ CreatedMeansPublished'
  BY <1>1, <1>3 DEF ConfirmsAreTrue, CreatedMeansPublished, Pending
<1>6. OneRecordPerPost' /\ RecordsComplete'
  BY <1>1 DEF OneRecordPerPost, RecordsComplete
<1>7. QED
  BY <1>2, <1>4, <1>5, <1>6

LEMMA WorkerInvariant ==
  ASSUME Invariant, NEW m \in queue, Worker(m)
  PROVE  Invariant'
<1> USE DEF Invariant
<1> DEFINE new == [record |-> Ingested(m.envelope, KeyFor(m), WorkerUuid), post |-> m.post]
<1>1. /\ queue' = queue \ {m}
      /\ UNCHANGED <<answer, message, outbox, unconfirmed, link, copies, wire, confirms, nacks, faults>>
  BY DEF Worker, WorkerIngests, WorkerDiscards, clientVars
<1>2. m \in Message /\ m.post \in Messaged /\ m.envelope = message[m.post]
      /\ Publishable(m.envelope)
  BY DEF TypeOK, TrueCopies, OwnMessage
<1>3. CASE WorkerDiscards(m)
  <2>1. inbox' = inbox /\ discarded' = discarded \cup {m.post}
    BY <1>3 DEF WorkerDiscards
  <2>2. Messaged' = Messaged /\ \A p : Arrived(p) => Arrived(p)'
    BY <1>1, <2>1 DEF Messaged, Arrived
  <2>3. TypeOK'
    BY <1>1, <1>2, <2>1 DEF TypeOK, Message
  <2>4. OwnMessage' /\ TrueCopies' /\ RecordsOwned' /\ OneRecordPerPost' /\ RecordsComplete'
    BY <1>1, <2>1, <2>2
    DEF OwnMessage, TrueCopies, Pending, RecordsOwned, OneRecordPerPost, RecordsComplete
  <2>5. ConfirmsAreTrue' /\ CreatedMeansPublished'
    BY <1>1, <2>2 DEF ConfirmsAreTrue, CreatedMeansPublished, Pending
  <2>6. QED
    BY <2>3, <2>4, <2>5
<1>4. CASE WorkerIngests(m)
  <2>1. /\ KeyFor(m) = m.envelope.eventId
        /\ ValueObject(m.envelope.tenantId) /\ ValueObject(m.envelope.eventType)
    BY <1>2, <1>4, KeyIsTheEventId DEF WorkerIngests
  <2>2. /\ new.post = m.post /\ new.record.dedupKey = m.envelope.eventId
        /\ new.record.correlationId = m.envelope.correlationId
        /\ new.record.tenantId = m.envelope.tenantId
        /\ new.record.eventType = m.envelope.eventType
    BY <1>2, <2>1, CorrelationIsTheSenders DEF Ingested
  <2>3. /\ discarded' = discarded
        /\ \/ inbox' = inbox /\ \E d \in inbox : d.record.dedupKey = m.envelope.eventId
           \/ /\ inbox' = inbox \cup {new}
              /\ \A d \in inbox : d.record.dedupKey # m.envelope.eventId
    BY <1>4, <2>1 DEF WorkerIngests
  <2> HIDE DEF new
  \* A record with the same key is of the same request.
  <2>4. \A d \in inbox : d.record.dedupKey = m.envelope.eventId <=> d.post = m.post
    BY <1>2 DEF RecordsComplete, RecordsOwned, OwnMessage
  <2>5. Messaged' = Messaged /\ \A p : Arrived(p) => Arrived(p)'
    <3>1. \E d \in inbox' : d.post = m.post
      BY <2>2, <2>3, <2>4
    <3>2. QED
      BY <1>1, <2>3, <3>1 DEF Messaged, Arrived
  <2>6. TypeOK'
    <3>1. new.record.dedupKey \in Names /\ new.post \in Posts
      BY <1>2, <2>2, PublisherAssumption DEF Publishable, Messaged
    <3>2. \A d \in inbox' : d.record.dedupKey \in Names \cup Uuids /\ d.post \in Posts
      BY <2>3, <3>1 DEF TypeOK
    <3>3. QED
      BY <1>1, <2>3, <3>2 DEF TypeOK
  <2>7. OwnMessage' /\ TrueCopies'
    BY <1>1, <2>5 DEF OwnMessage, TrueCopies, Pending
  <2>8. RecordsOwned' /\ RecordsComplete'
    BY <1>1, <1>2, <2>1, <2>2, <2>3, <2>5 DEF RecordsOwned, RecordsComplete
  <2>9. OneRecordPerPost'
    BY <2>2, <2>3, <2>4 DEF OneRecordPerPost
  <2>10. ConfirmsAreTrue' /\ CreatedMeansPublished'
    BY <1>1, <2>5 DEF ConfirmsAreTrue, CreatedMeansPublished, Pending
  <2>11. QED
    BY <2>6, <2>7, <2>8, <2>9, <2>10
<1>5. QED
  BY <1>3, <1>4 DEF Worker

LEMMA InvariantHolds == Spec => []Invariant
<1>1. Invariant /\ [Next]_vars => Invariant'
  <2> SUFFICES ASSUME Invariant, [Next]_vars
               PROVE  Invariant'
    OBVIOUS
  <2>1. CASE UNCHANGED vars
    <3>1. UNCHANGED <<answer, message, queue, workerVars, wire, confirms, nacks, outbox, unconfirmed,
                      link, copies, faults>>
      BY <2>1 DEF vars, clientVars, brokerVars
    <3>2. TypeOK' /\ Pending' = Pending
      BY <3>1 DEF Invariant, TypeOK, Pending, workerVars
    <3>3. \A p \in Posts : answer'[p] = "awaiting" => p \in Pending'
      BY <3>1, <3>2 DEF Invariant, CreatedMeansPublished
    <3>4. QED
      BY <3>1, <3>2, <3>3, SenderStep
  <2>2. CASE Connect \/ Restart \/ Disconnect \/ \E m \in wire : BrokerRefuses(m)
    BY <2>2, LinkInvariant
  <2>3. ASSUME NEW p \in Posts,
               Request(p) \/ Send(p) \/ Confirmed(p) \/ Refused(p)
        PROVE  Invariant'
    BY <2>3, PostRefusedInvariant, PostAcceptedInvariant, SendInvariant, ConfirmedInvariant,
       RefusedInvariant DEF Request
  <2>4. QED
    BY <2>1, <2>2, <2>3, BrokerInvariant, WorkerInvariant, StopInvariant DEF Next
<1>2. QED
  BY <1>1, InitInvariant, PTL DEF Spec

-----------------------------------------------------------------------------
(* The theorems.                                                            *)

(* Every variable of the sandbox, the broker and the worker keeps its type.  *)
THEOREM TypeCorrect == Spec => []TypeOK
BY InvariantHolds, PTL DEF Invariant

(* However often its message is sent, a request makes one record at most.    *)
THEOREM SentAgainRecordedOnce == Spec => []OneRecordPerPost
BY InvariantHolds, PTL DEF Invariant

(* A 201 stands for a message that reached the queue; a request waits only    *)
(* while its message may still.                                              *)
THEOREM AnswersAreTrue == Spec => []CreatedMeansPublished
BY InvariantHolds, PTL DEF Invariant

(* Whatever body is posted, its record has the sender's eventId for key, the  *)
(* sender's correlation id, and a tenant and an event type.                   *)
THEOREM RecordsAreComplete == Spec => []RecordsComplete
BY InvariantHolds, PTL DEF Invariant

(* What the worker discards of the sandbox's messages has no tenant or no      *)
(* event type, for any body.                                                  *)
THEOREM DiscardsAreExplained == Spec => []DiscardedForBlanks
<1> DEFINE Blanks == discarded \subseteq Messaged /\ DiscardedForBlanks
<1>1. Init => Blanks
  BY DEF Init, DiscardedForBlanks
<1>2. Invariant /\ Blanks /\ [Next]_vars => Blanks'
  <2> SUFFICES ASSUME Invariant, Blanks, [Next]_vars
               PROVE  Blanks'
    OBVIOUS
  <2>1. CASE discarded' = discarded /\ message' = message
    BY <2>1 DEF DiscardedForBlanks, Messaged
  <2>2. ASSUME NEW p \in Posts, PostAccepted(p)
        PROVE  Blanks'
    <3>1. PICK new : message' = [message EXCEPT ![p] = new] /\ new # NoMessage
      <4>1. PICK e \in Bodies, id \in EventIds \ Used :
              /\ SandboxAccepts(e, FreshUuid)
              /\ message' = [message EXCEPT ![p] = Published(e, FreshUuid, id)]
        BY <2>2 DEF PostAccepted
      <4>2. Published(e, FreshUuid, id) # NoMessage
        BY <4>1, PublishedIsPublishable, PublisherAssumption DEF Publishable
      <4>3. QED
        BY <4>1, <4>2
    <3>2. discarded' = discarded /\ p \notin Messaged /\ message \in [Posts -> Envelopes \cup {NoMessage}]
      BY <2>2 DEF PostAccepted, Invariant, OwnMessage, Messaged, TypeOK, workerVars
    <3>3. /\ Messaged \subseteq Messaged'
          /\ \A q \in discarded : message'[q] = message[q]
      BY <3>1, <3>2 DEF Messaged
    <3>4. QED
      BY <3>2, <3>3 DEF DiscardedForBlanks
  <2>3. ASSUME NEW m \in queue, WorkerDiscards(m)
        PROVE  Blanks'
    <3>1. m.post \in Messaged /\ m.envelope = message[m.post] /\ Publishable(m.envelope)
      BY DEF Invariant, TrueCopies, OwnMessage
    <3>2. KeyFor(m) = Rejected
      BY <2>3 DEF WorkerDiscards
    <3>3. ~ (ValueObject(m.envelope.tenantId) /\ ValueObject(m.envelope.eventType))
      BY <3>1, <3>2, RejectedForBlanks
    <3>4. discarded' = discarded \cup {m.post} /\ message' = message
      BY <2>3 DEF WorkerDiscards, clientVars
    <3>5. QED
      BY <3>1, <3>3, <3>4 DEF DiscardedForBlanks, Messaged
  <2>4. QED
    <3>1. CASE UNCHANGED vars
      BY <2>1, <3>1 DEF vars, clientVars, workerVars
    <3>2. ASSUME NEW p \in Posts, PostRefused(p) \/ Send(p) \/ Confirmed(p) \/ Refused(p)
          PROVE  Blanks'
      BY <2>1, <3>2 DEF PostRefused, Send, Confirmed, Refused, workerVars
    <3>3. ASSUME NEW m \in wire, BrokerAccepts(m) \/ BrokerRefuses(m)
          PROVE  Blanks'
      BY <2>1, <3>3 DEF BrokerAccepts, BrokerRefuses, clientVars, workerVars
    <3>4. ASSUME NEW m \in queue, WorkerIngests(m)
          PROVE  Blanks'
      BY <2>1, <3>4 DEF WorkerIngests, clientVars
    <3>5. CASE Connect \/ Restart \/ Disconnect \/ Stop
      BY <2>1, <3>5 DEF Connect, Restart, Disconnect, Stop, workerVars
    <3>6. QED
      BY <2>2, <2>3, <3>1, <3>2, <3>3, <3>4, <3>5 DEF Next, Request, Worker
<1>3. Blanks => DiscardedForBlanks
  OBVIOUS
<1>4. QED
  <2> HIDE DEF Blanks
  <2>1. QED
    BY <1>1, <1>2, <1>3, InvariantHolds, PTL DEF Spec
=============================================================================
