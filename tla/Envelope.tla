-------------------------------- MODULE Envelope --------------------------------
(***************************************************************************)
(* The event envelope at its two ends: what the idp sandbox accepts from a *)
(* POST and puts on the queue, and what the Event Ingestion Worker makes of *)
(* a message body. A field holds one of the markers below, or a non-blank  *)
(* string.                                                                 *)
(***************************************************************************)
EXTENDS Sequences

CONSTANTS
  Names,    \* non-blank strings that are no UUID
  Uuids,    \* strings that are
  Rejected  \* what a refused message has for a dedup key

Missing   == "missing"   \* left out
Null      == "null"
NotString == "notString" \* any other JSON value
Empty     == ""
Blank     == " "         \* white space only

Strings == Names \cup Uuids \cup {Empty, Blank}
Values  == Strings \cup {Missing, Null, NotString}
Payloads == {"object", "array", "other"}
Envelopes == [eventId: Values, correlationId: Values, tenantId: Values,
              eventType: Values, payload: Payloads]

ASSUME EnvelopeAssumption ==
  /\ Names \cap (Uuids \cup {Missing, Null, NotString, Empty, Blank}) = {}
  /\ Uuids \cap {Missing, Null, NotString, Empty, Blank} = {}
  /\ Rejected \notin Strings

Truthy(v) == v \in Names \cup Uuids \cup {Blank}
Optional(v) == v \in {Missing, Null}            \* @IsOptional()

\* EventEnvelopeDto: shapes only. Empty and blank strings are strings.
EventEnvelopeDto(e) ==
  /\ Optional(e.eventId) \/ e.eventId \in Strings
  /\ Optional(e.correlationId) \/ e.correlationId \in Uuids
  /\ e.tenantId \in Strings /\ e.eventType \in Strings
  /\ e.payload = "object"

\* TenantId, EventType, CorrelationId and DedupKey: a non-blank string.
ValueObject(v) == v \in Names \cup Uuids

\* The eventId, else the broker's message id, else none.
ResolveDedupKey(eventId, brokerMessageId) ==
  IF Truthy(eventId) THEN eventId
  ELSE IF Truthy(brokerMessageId) THEN brokerMessageId
  ELSE Missing

\* Mutant: the worker trusts the DTO.
DedupKeyByDto(body, e, brokerMessageId) ==
  IF body = "object" /\ EventEnvelopeDto(e)
     /\ ValueObject(ResolveDedupKey(e.eventId, brokerMessageId))
  THEN ResolveDedupKey(e.eventId, brokerMessageId)
  ELSE Rejected

\* handleMessage, handle and execute up to the upsert: the dedup key of an accepted
\* message.
DedupKeyOf(body, e, brokerMessageId) ==
  IF /\ body = "object"                         \* JSON.parse and parseEnvelope
     /\ EventEnvelopeDto(e)
     /\ ValueObject(ResolveDedupKey(e.eventId, brokerMessageId))
     /\ ValueObject(e.tenantId) /\ ValueObject(e.eventType)
  THEN ResolveDedupKey(e.eventId, brokerMessageId)
  ELSE Rejected

\* Unlike the key, a missing correlationId is made up.
ResolveCorrelationId(v, generated) == IF Truthy(v) THEN v ELSE generated

\* InboxRecord.ingest of an accepted message: what is stored for it.
Ingested(e, key, generated) ==
  [dedupKey |-> key, correlationId |-> ResolveCorrelationId(e.correlationId, generated),
   tenantId |-> e.tenantId, eventType |-> e.eventType, payload |-> e.payload]

-----------------------------------------------------------------------------
(* The idp sandbox. Its body has no eventId: the field is excluded.         *)

\* CorrelationIdInterceptor: a falsy correlationId is replaced by a new UUID.
Backfilled(v, fresh) == IF v \in {Missing, Null, Empty} THEN fresh ELSE v

\* CreateEventDto, after the interceptor.
CreateEventDto(e) ==
  /\ Optional(e.correlationId) \/ e.correlationId \in Uuids
  /\ e.tenantId \in Strings /\ e.eventType \in Strings
  /\ e.payload = "object"

SandboxAccepts(e, fresh) ==
  CreateEventDto([e EXCEPT !.correlationId = Backfilled(@, fresh)])

\* Mutant: the interceptor's UUID does not get beyond the DTO's check.
PublishedAsSent(e, fresh, eventId) == [e EXCEPT !.eventId = eventId]

\* What RabbitMqBrokerPublisherAdapter.publish serialises.
Published(e, fresh, eventId) ==
  [e EXCEPT !.correlationId = Backfilled(@, fresh), !.eventId = eventId]
=============================================================================
