--------------------------- MODULE MCSubscriptionApi ---------------------------
EXTENDS SubscriptionApi, TLC

CONSTANTS r1, r2, r3, r4, t1, t2, u1, u2, long, a, b

Ask(op, tenant, id, url, types, status) ==
  [op |-> op, tenant |-> tenant, id |-> id, url |-> url, types |-> types, status |-> status]

Post(tenant, url, types) == Ask("create", tenant, Omitted, url, types, Omitted)
Patch(id, url, types, status) == Ask("update", t1, id, url, types, status)
GetBy(tenant, id) == Ask("get", tenant, id, Omitted, Omitted, Omitted)
DeleteBy(tenant, id) == Ask("delete", tenant, id, Omitted, Omitted, Omitted)

\* What concurrent requests can disturb of each other.
Racing ==
  {Post(t1, url, a) : url \in {u1, u2}} \cup
  UNION {{Patch(id, u2, Omitted, Omitted), Patch(id, Omitted, b, Omitted),
          Patch(id, Omitted, Omitted, "PAUSED"), Patch(id, Omitted, Omitted, "ACTIVE"),
          Patch(id, u2, b, "PAUSED"), Patch(id, Null, Omitted, Omitted),
          DeleteBy(t1, id), DeleteBy(t2, id)} : id \in Requests}

\* Every way to ask and to be refused.
Everything ==
  Racing \cup
  {Post(Absent, u1, a), Post(t2, u1, a), Post(t1, long, a), Post(t1, Invalid, a),
   Post(t1, u1, Invalid), Post(t1, u1, Malformed), Post(t1, Null, a), GetBy(t1, Invalid)} \cup
  UNION {{Patch(id, Omitted, Null, Omitted),
          Patch(id, Invalid, Omitted, Omitted), Patch(id, Omitted, Invalid, Omitted),
          Patch(id, Omitted, Omitted, "DELETED"),
          Patch(id, Omitted, Omitted, Omitted),
          GetBy(t1, id)} : id \in Requests}

RequestsAlike == Permutations(Requests)
=============================================================================
