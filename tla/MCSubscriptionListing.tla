------------------------- MODULE MCSubscriptionListing -------------------------
EXTENDS SubscriptionListing, TLC

CONSTANTS r1, r2, r3, r4, t1, t2, u1, u2, u3, long, a

Write(op, tenant, id, url, types, status) ==
  [op |-> op, tenant |-> tenant, id |-> id, url |-> url, types |-> types, status |-> status]

\* What changes which subscriptions match, and in which order.
Writes ==
  {Write("create", tenant, Omitted, url, a, Omitted) :
     tenant \in {t1, t2}, url \in {u2, u3, long}} \cup
  {Write("update", t1, id, u1, Omitted, Omitted) : id \in Requests} \cup
  {Write("update", t1, id, Omitted, Omitted, "PAUSED") : id \in Requests} \cup
  {Write("delete", t1, id, Omitted, Omitted, Omitted) : id \in Requests}

List(tenant, status, types, pageSize) ==
  [tenant |-> tenant, status |-> status, types |-> types, pageSize |-> pageSize]

\* Every way to ask and to be refused, with pages of one.
Lists ==
  {List(t1, Omitted, Omitted, 1), List(t1, "ACTIVE", Omitted, 1), List(t1, Omitted, a, Omitted),
   List(Absent, Omitted, Omitted, 1), List(t1, Omitted, Omitted, 0),
   List(t1, Malformed, Omitted, 1), List(t1, Omitted, Invalid, 1)}

Alphabetical == [u \in Urls |-> CASE u = u1 -> 1 [] u = u2 -> 2 [] u = u3 -> 3
                                [] u = long -> 4]

RequestsAlike == Permutations(Requests)
=============================================================================
