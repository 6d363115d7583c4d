------------------------------ MODULE MCIngestion ------------------------------
EXTENDS Ingestion, TLC

CONSTANTS e1, e1again, e2, bad, w1, w2

LOCAL Wire == INSTANCE Envelope WITH
  Names <- {"order-1", "order-2", "acme", "order.created"}, Uuids <- {"uuid"}

Body(eventId, tenantId) ==
  [eventId |-> eventId, correlationId |-> Wire!Missing, tenantId |-> tenantId,
   eventType |-> "order.created", payload |-> "object"]

\* e1again is e1 published a second time, bad an envelope with a blank tenant.
BodyOf(m) == CASE m \in {e1, e1again} -> Body("order-1", "acme")
               [] m = e2 -> Body("order-2", "acme")
               [] m = bad -> Body("order-2", Wire!Blank)

MCKeyOf == [m \in Messages |-> Wire!DedupKeyOf("object", BodyOf(m), Wire!Missing)]

WorkersAlike == Permutations(Workers)
=============================================================================
