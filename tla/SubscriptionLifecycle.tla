------------------------- MODULE SubscriptionLifecycle -------------------------
(***************************************************************************)
(* The subscription the webhook-api README describes: the state diagram of *)
(* its domain model, one record per (tenant, target URL), a tenant's       *)
(* records changed for nobody else. No requests, no database.              *)
(***************************************************************************)
CONSTANTS Ids, Tenants, Urls, EventTypes, Absent

VARIABLE records

Statuses == {"ACTIVE", "PAUSED", "DELETED"}
Subscription == [tenant: Tenants, url: Urls, types: EventTypes, status: Statuses]

\* pause, resume, delete, and an update that leaves the status alone.
Successors(status) ==
  CASE status = "ACTIVE"  -> {"ACTIVE", "PAUSED", "DELETED"}
    [] status = "PAUSED"  -> {"PAUSED", "ACTIVE", "DELETED"}
    [] status = "DELETED" -> {}

Taken(id, tenant, url) ==
  \E other \in Ids \ {id} : /\ records[other] # Absent
                            /\ records[other].tenant = tenant
                            /\ records[other].url = url

Init == records = [id \in Ids |-> Absent]

Create(id, new) ==
  /\ records[id] = Absent
  /\ new.status = "ACTIVE"
  /\ ~Taken(id, new.tenant, new.url)
  /\ records' = [records EXCEPT ![id] = new]

Change(id, new) ==
  /\ records[id] # Absent
  /\ new.tenant = records[id].tenant
  /\ new.status \in Successors(records[id].status)
  /\ ~Taken(id, new.tenant, new.url)
  /\ records' = [records EXCEPT ![id] = new]

Next == \E id \in Ids, new \in Subscription : Create(id, new) \/ Change(id, new)

Spec == Init /\ [][Next]_records
=============================================================================
