-------------------------- MODULE MCSandboxPublisher --------------------------
EXTENDS SandboxPublisher, TLC

CONSTANTS p1, p2, p3, tenant, event, uuid, i1, i2, i3, i4

Body(correlationId, tenantId, eventType, payload) ==
  [eventId |-> Missing, correlationId |-> correlationId, tenantId |-> tenantId,
   eventType |-> eventType, payload |-> payload]

\* One body of each kind the two ends may judge differently.
MCBodies ==
  { Body(Missing, tenant, event, "object"), Body(Empty, tenant, event, "object"),
    Body(Blank, tenant, event, "object"), Body(uuid, Blank, event, "object"),
    Body(Null, tenant, event, "array"), Body(uuid, tenant, NotString, "object") }

PostsAlike == Permutations(Posts)
=============================================================================
