---------------------------- MODULE SubscriptionApi ----------------------------
(***************************************************************************)
(* packages/webhook-api: POST, GET, PATCH and DELETE of subscriptions by   *)
(* concurrent requests. A request is one find, the aggregate's methods on  *)
(* what was found, one whole-document save and the domain events; other    *)
(* requests run between its awaits, in this process or another replica.    *)
(* MongoDB, which executes a save and enforces the unique index, is        *)
(* external.                                                               *)
(***************************************************************************)
EXTENDS Naturals, Sequences, FiniteSets, FiniteSetsExt

CONSTANTS
  Requests,   \* HTTP requests; also the ids of the subscriptions they create
  Tenants,
  Urls,       \* target URLs, as TargetUrl normalizes them
  Unreadable, \* those whose normalized form is longer than TargetUrl accepts
  EventTypes, \* non-empty lists of event types
  Calls,      \* what the clients may ask for
  Absent, Omitted, Null, Invalid, Malformed,
  Serial,     \* whether clients wait for each other and for the database
  IndexAtStart, \* whether the unique index on (tenantId, targetUrl) already exists
  MaxFaults

Ops == {"create", "get", "update", "delete"}
Statuses == {"ACTIVE", "PAUSED", "DELETED"}
Marks == {Omitted, Null, Invalid, Malformed}

\* Omitted: left out of the body. Null: null. Invalid: a value object refuses it.
\* Malformed: the DTO refuses it. No value object judges a status. An Absent tenant is a missing identity header.
AnyCall ==
  [op: Ops, tenant: Tenants \cup {Absent}, id: Requests \cup {Invalid, Omitted},
   url: Urls \cup Marks, types: EventTypes \cup Marks,
   status: Statuses \cup (Marks \ {Invalid})]

ASSUME CallsAssumption == /\ Calls \subseteq AnyCall
                          /\ Unreadable \subseteq Urls
                          /\ Absent \notin Tenants
                          /\ Marks \cap (Urls \cup EventTypes \cup Statuses) = {}
                          /\ Invalid \notin Requests /\ Omitted \notin Requests
                          /\ \A c \in Calls : c.op # "create" => c.id # Omitted
ASSUME LimitsAssumption == Serial \in BOOLEAN /\ IndexAtStart \in BOOLEAN /\ MaxFaults \in Nat

VARIABLES
  call,      \* what each request asks
  at,        \* where it is, then the status code of its answer
  aggregate, \* the subscription it holds in memory, with the event recorded
  subs,      \* the subscriptions collection
  indexed,   \* whether its unique index is built
  inflight,  \* requests whose save MongoDB has yet to execute
  applied,   \* history: requests whose save was executed
  failed,    \* history: requests that met an infrastructure failure
  emitted,   \* domain events handed to the event emitter
  faults

vars == <<call, at, aggregate, subs, indexed, inflight, applied, failed, emitted, faults>>

Codes == {"200", "201", "400", "401", "404", "409", "500"}
\* "dropped": the process died, the client saw no answer.
Places == {"idle", "finding", "saving", "saved", "dropped"} \cup Codes
InProgress == {"finding", "saving", "saved"}
Events == {"Created", "Paused", "Resumed", "Deleted", "none"}

\* by, the request whose save wrote the document, stands for its version.
Document == [tenant: Tenants, url: Urls, types: EventTypes, status: Statuses,
             by: Requests]

\* Nor what is left of a document without its version.
ASSUME AbsentAssumption ==
  /\ Absent \notin Document
  /\ Absent \notin [tenant: Tenants, url: Urls, types: EventTypes, status: Statuses]

Init ==
  /\ call = [r \in Requests |-> Absent]
  /\ at = [r \in Requests |-> "idle"]
  /\ aggregate = [r \in Requests |-> Absent]
  /\ subs = [r \in Requests |-> Absent]
  /\ indexed = IndexAtStart
  /\ inflight = {} /\ applied = {} /\ failed = {} /\ emitted = {}
  /\ faults = 0

-----------------------------------------------------------------------------
(* What a request is refused for. The checks of a handler run in order and  *)
(* the first that fails is the answer.                                      *)

FirstFailure(checks, otherwise) ==
  LET failing == {i \in DOMAIN checks : checks[i].fails}
  IN  IF failing = {} THEN otherwise ELSE checks[Min(failing)].code

\* What the exception filter makes of an error: Nest's own exceptions keep their
\* status, and what it does not know, as a TypeError or E11000, is a 500.
StatusOf(error) ==
  CASE error = "Unauthorized" -> "401"
    [] error \in {"BadRequest", "InvalidTargetUrl", "InvalidEventType",
                  "InvalidIdentifier"} -> "400"
    [] error = "SubscriptionNotFound" -> "404"
    [] error \in {"DuplicateSubscription", "InvalidStatusTransition"} -> "409"
    [] OTHER -> "500"

Fails(condition, error) == [fails |-> condition, code |-> StatusOf(error)]

Anonymous(c) == c.tenant = Absent

\* Both fields of a POST are required, all those of a PATCH are optional.
DtoRefuses(c) ==
  \/ Malformed \in {c.url, c.types, c.status}
  \/ c.op = "create" /\ {c.url, c.types} \cap {Null, Omitted} # {}

NotAUuid(c) == c.id = Invalid
NotEventTypes(c) == c.types = Invalid

\* IdentityGuard, ValidationPipe, and the value objects built before the find.
OnArrival(c) ==
  FirstFailure(
    << Fails(Anonymous(c), "Unauthorized"), Fails(DtoRefuses(c), "BadRequest"),
       Fails(c.op = "create" /\ c.url = Invalid, "InvalidTargetUrl"),
       Fails(NotAUuid(c), "InvalidIdentifier") >>,
    "finding")

\* findByTenantAndTargetUrl and findByIdAndTenant.
SameTarget(tenant, url) ==
  {id \in Requests : /\ subs[id] # Absent
                     /\ subs[id].tenant = tenant /\ subs[id].url = url}

\* Mutant: the query skips soft-deleted documents.
FoundAlive(c) == /\ c.id \in Requests /\ subs[c.id] # Absent
                 /\ subs[c.id].tenant = c.tenant /\ subs[c.id].status # "DELETED"

Found(c) == c.id \in Requests /\ subs[c.id] # Absent /\ subs[c.id].tenant = c.tenant

\* toAggregate runs TargetUrl.fromString on the stored, normalized URL again.
Readable(url) == url \notin Unreadable

CreateCheck(c) ==
  FirstFailure(
    << Fails(SameTarget(c.tenant, c.url) # {} /\ ~Readable(c.url), "InvalidTargetUrl"),
       Fails(SameTarget(c.tenant, c.url) # {}, "DuplicateSubscription"),
       Fails(NotEventTypes(c), "InvalidEventType") >>,
    "saving")

\* assertMutable.
Immutable(status) == status = "DELETED"

\* Mutant: the aggregate's methods check nothing.
UpdateUnchecked(c, status) == "saving"

\* PATCH: null passes the DTO, whose fields are optional, and then is not
\* `undefined`: TargetUrl.fromString and map throw a TypeError.
UpdateCheck(c, status) ==
  FirstFailure(
    << Fails(c.url = Null, "TypeError"),
       Fails(c.url = Invalid, "InvalidTargetUrl"),
       Fails(c.url # Omitted /\ Immutable(status), "InvalidStatusTransition"),
       Fails(c.types = Null, "TypeError"),
       Fails(NotEventTypes(c), "InvalidEventType"),
       Fails(c.types # Omitted /\ Immutable(status), "InvalidStatusTransition"),
       Fails(c.status = "ACTIVE" /\ status # "PAUSED", "InvalidStatusTransition"),
       Fails(c.status = "PAUSED" /\ status # "ACTIVE", "InvalidStatusTransition"),
       Fails(c.status \in {"DELETED", Null}, "InvalidStatusTransition") >>,
    "saving")

-----------------------------------------------------------------------------
(* The aggregate: create, and the methods PATCH and DELETE call.            *)

\* Mutant: a field left out of the body is stored as such.
GivenOrNot(value, current) == value

Given(value, current) == IF value = Omitted THEN current ELSE value

Created(r, c) ==
  [tenant |-> c.tenant, url |-> c.url, types |-> c.types, status |-> "ACTIVE", by |-> r]

Updated(r, c, d) ==
  [d EXCEPT !.url = Given(c.url, @), !.types = Given(c.types, @),
            !.status = Given(c.status, @), !.by = r]

Deleted(r, d) == [d EXCEPT !.status = "DELETED", !.by = r]

\* The domain event the change from d records, if it records one.
Event(c, d) ==
  CASE c.op = "delete" -> IF d.status = "DELETED" THEN "none" ELSE "Deleted"
    [] c.op = "update" -> CASE c.status = "PAUSED" -> "Paused"
                            [] c.status = "ACTIVE" -> "Resumed"
                            [] OTHER -> "none"

\* base: the version the aggregate was restored from.
Loaded(id, doc, base, event) == [id |-> id, doc |-> doc, base |-> base, event |-> event]

-----------------------------------------------------------------------------
(* The requests.                                                            *)

Goto(r, place) == at' = [at EXCEPT ![r] = place]

\* A client knows the ids of stored subscriptions only.
Submit(r) ==
  /\ at[r] = "idle"
  /\ Serial => inflight = {} /\ \A q \in Requests : at[q] \notin InProgress
  /\ \E c \in Calls :
       /\ c.id \in Requests => subs[c.id] # Absent
       /\ call' = [call EXCEPT ![r] = c]
       /\ Goto(r, OnArrival(c))
  /\ UNCHANGED <<aggregate, subs, indexed, inflight, applied, failed, emitted, faults>>

\* The aggregate goes to findOneAndUpdate({_id}, document, {upsert}).
SendSave(r, loaded) ==
  /\ aggregate' = [aggregate EXCEPT ![r] = loaded]
  /\ inflight' = inflight \cup {r}

Refuse == UNCHANGED <<aggregate, inflight>>

FindForCreate(r) ==
  LET c == call[r] IN
  /\ at[r] = "finding" /\ c.op = "create"
  /\ Goto(r, CreateCheck(c))
  /\ IF CreateCheck(c) = "saving" THEN SendSave(r, Loaded(r, Created(r, c), Absent, "Created"))
                                  ELSE Refuse
  /\ UNCHANGED <<call, subs, indexed, applied, failed, emitted, faults>>

\* What the request names in its path is found, and can be restored.
Finds(r, op) ==
  /\ at[r] = "finding" /\ call[r].op = op
  /\ Found(call[r]) /\ Readable(subs[call[r].id].url)

FindMisses(r) ==
  /\ at[r] = "finding" /\ call[r].op # "create"
  /\ ~Found(call[r])
  /\ Goto(r, StatusOf("SubscriptionNotFound"))
  /\ Refuse
  /\ UNCHANGED <<call, subs, indexed, applied, failed, emitted, faults>>

\* Restoring the aggregate throws InvalidTargetUrlError.
FindUnreadable(r) ==
  /\ at[r] = "finding" /\ call[r].op # "create"
  /\ Found(call[r]) /\ ~Readable(subs[call[r].id].url)
  /\ Goto(r, StatusOf("InvalidTargetUrl"))
  /\ Refuse
  /\ UNCHANGED <<call, subs, indexed, applied, failed, emitted, faults>>

FindForGet(r) ==
  /\ Finds(r, "get")
  /\ Goto(r, "200")
  /\ Refuse
  /\ UNCHANGED <<call, subs, indexed, applied, failed, emitted, faults>>

\* Mutant: the save is sent before the checks.
SaveThenCheck(r) ==
  LET c == call[r]
      d == subs[c.id]
  IN
  /\ Finds(r, "update")
  /\ Goto(r, UpdateCheck(c, d.status))
  /\ SendSave(r, Loaded(c.id, Updated(r, c, d), d.by, Event(c, d)))
  /\ UNCHANGED <<call, subs, indexed, applied, failed, emitted, faults>>

FindForUpdate(r) ==
  LET c == call[r]
      d == subs[c.id]
      next == UpdateCheck(c, d.status)
  IN
  /\ Finds(r, "update")
  /\ Goto(r, next)
  /\ IF next = "saving" THEN SendSave(r, Loaded(c.id, Updated(r, c, d), d.by, Event(c, d)))
                        ELSE Refuse
  /\ UNCHANGED <<call, subs, indexed, applied, failed, emitted, faults>>

\* A subscription that is deleted already is saved again, without an event.
FindForDelete(r) ==
  LET c == call[r]
      d == subs[c.id]
  IN
  /\ Finds(r, "delete")
  /\ Goto(r, "saving")
  /\ SendSave(r, Loaded(c.id, Deleted(r, d), d.by, Event(c, d)))
  /\ UNCHANGED <<call, subs, indexed, applied, failed, emitted, faults>>

\* Mutant: the index is not declared unique.
NeverCollides(r) == FALSE

\* Mutant: the save inserts, so that a document's own earlier version collides too.
CollidesWithItself(r) ==
  LET new == aggregate[r] IN indexed /\ SameTarget(new.doc.tenant, new.doc.url) # {}

\* The unique index on (tenantId, targetUrl), once it is built.
Collides(r) ==
  LET new == aggregate[r] IN
  indexed /\ SameTarget(new.doc.tenant, new.doc.url) \ {new.id} # {}

\* The whole document is replaced, whatever it has become since the find.
SaveApplies(r) ==
  /\ r \in inflight /\ ~Collides(r)
  /\ subs' = [subs EXCEPT ![aggregate[r].id] = aggregate[r].doc]
  /\ inflight' = inflight \ {r}
  /\ applied' = applied \cup {r}
  /\ IF at[r] = "saving" THEN Goto(r, "saved") ELSE UNCHANGED at
  /\ UNCHANGED <<call, aggregate, indexed, failed, emitted, faults>>

\* Mutants: the repository swallows E11000 as done; the error is never rethrown.
CollisionTakenForDone(r) ==
  /\ r \in inflight /\ Collides(r)
  /\ inflight' = inflight \ {r}
  /\ IF at[r] = "saving" THEN Goto(r, "saved") ELSE UNCHANGED at
  /\ UNCHANGED <<call, aggregate, subs, indexed, applied, failed, emitted, faults>>

CollisionUnanswered(r) ==
  /\ r \in inflight /\ Collides(r)
  /\ inflight' = inflight \ {r}
  /\ UNCHANGED <<call, at, aggregate, subs, indexed, applied, failed, emitted, faults>>

\* E11000 is no DomainError: the filter answers 500.
SaveCollides(r) ==
  /\ r \in inflight /\ Collides(r)
  /\ inflight' = inflight \ {r}
  /\ IF at[r] = "saving" THEN Goto(r, StatusOf("E11000")) ELSE UNCHANGED at
  /\ UNCHANGED <<call, aggregate, subs, indexed, applied, failed, emitted, faults>>

\* publishAll, and the answer.
Answer(r) ==
  /\ at[r] = "saved"
  /\ emitted' = emitted \cup {<<r, e>> : e \in {aggregate[r].event} \ {"none"}}
  /\ Goto(r, IF call[r].op = "create" THEN "201" ELSE "200")
  /\ UNCHANGED <<call, aggregate, subs, indexed, inflight, applied, failed, faults>>

-----------------------------------------------------------------------------
(* Failures.                                                                *)

Fault == faults < MaxFaults /\ faults' = faults + 1

\* The find or the save rejects; a save may have reached the server all the same.
DatabaseFails(r) ==
  /\ Fault
  /\ at[r] \in {"finding", "saving"}
  /\ Goto(r, "500")
  /\ failed' = failed \cup {r}
  /\ inflight' \in {inflight, inflight \ {r}}
  /\ UNCHANGED <<call, aggregate, subs, indexed, applied, emitted>>

\* The process dies with every request in it; a save that was sent may still be
\* executed.
Crash ==
  /\ Fault
  /\ \E down \in SUBSET {r \in Requests : at[r] \in InProgress} :
       /\ down # {}
       /\ at' = [r \in Requests |-> IF r \in down THEN "dropped" ELSE at[r]]
       /\ inflight' \in {inflight, inflight \ down}
  /\ UNCHANGED <<call, aggregate, subs, indexed, applied, failed, emitted>>

-----------------------------------------------------------------------------
(* The index.                                                               *)

Stored(id) == subs[id] # Absent

OnePerTarget ==
  \A i, j \in Requests :
    /\ Stored(i) /\ Stored(j)
    /\ subs[i].tenant = subs[j].tenant /\ subs[i].url = subs[j].url
    => i = j

\* Mongoose builds the schema's indexes in the background, while requests are
\* served; the build of a unique index fails on a collection with duplicates.
BuildIndex ==
  /\ ~indexed /\ OnePerTarget
  /\ indexed' = TRUE
  /\ UNCHANGED <<call, at, aggregate, subs, inflight, applied, failed, emitted, faults>>

Find(r) == \/ FindForCreate(r) \/ FindMisses(r) \/ FindUnreadable(r)
           \/ FindForGet(r) \/ FindForUpdate(r) \/ FindForDelete(r)
Save(r) == SaveApplies(r) \/ SaveCollides(r)

Next ==
  \/ \E r \in Requests : Submit(r) \/ Find(r) \/ Save(r) \/ Answer(r) \/ DatabaseFails(r)
  \/ Crash \/ BuildIndex

Spec == Init /\ [][Next]_vars

\* MongoDB answers and the event loop runs the continuations.
FairSpec == Spec /\ \A r \in Requests : WF_vars(Find(r) \/ Save(r) \/ Answer(r))

-----------------------------------------------------------------------------
(* Properties.                                                              *)

TypeOK ==
  /\ call \in [Requests -> Calls \cup {Absent}]
  /\ at \in [Requests -> Places]
  /\ aggregate \in [Requests -> {Absent} \cup
       [id: Requests, doc: Document, base: Requests \cup {Absent}, event: Events]]
  /\ subs \in [Requests -> Document \cup {Absent}]
  /\ indexed \in BOOLEAN
  /\ inflight \subseteq Requests /\ applied \subseteq Requests
  /\ failed \subseteq Requests
  /\ emitted \subseteq Requests \X Events
  /\ faults \in Nat

(* Once the unique index is built no two subscriptions of a tenant have the  *)
(* same target URL, deleted ones included, however creates and URL changes   *)
(* interleave: the duplicate check alone does not see to it, and PATCH makes *)
(* none (subscription.schema.ts, index on tenantId and targetUrl).           *)
TargetsUnique == indexed => OnePerTarget

(* A request answered 4xx changes nothing, then or later: its checks all     *)
(* precede its save (the use cases).                                        *)
RefusedChangesNothing ==
  \A r \in Requests : at[r] \in {"400", "401", "404", "409"} =>
    r \notin inflight \cup applied /\ \A e \in Events : <<r, e>> \notin emitted

(* A request answered 2xx had its save executed and its event handed out,    *)
(* and no event goes out for a save that was not (save, then publishAll).   *)
ConfirmedIsDone ==
  /\ \A r \in Requests :
       at[r] \in {"200", "201"} /\ call[r].op # "get" =>
         r \in applied /\ (aggregate[r].event = "none" \/ <<r, aggregate[r].event>> \in emitted)
  /\ \A p \in emitted : p[1] \in applied /\ aggregate[p[1]].event = p[2]

(* DELETE of a tenant's own subscription is never answered 404 or 409, so    *)
(* that it can be retried (README, "Idempotent delete").                    *)
DeleteFindsItsOwn ==
  \A r \in Requests :
    at[r] \in {"404", "409"} /\ call[r].op = "delete" =>
      subs[call[r].id].tenant # call[r].tenant

(* A stored subscription stays (soft delete only), stays its tenant's, and is *)
(* changed by that tenant's requests only (identity.md, README "ownership").  *)
StaysItsTenants ==
  [][\A id \in Requests : Stored(id) =>
       /\ subs'[id] # Absent
       /\ subs'[id].tenant = subs[id].tenant
       /\ call[subs'[id].by].tenant = subs[id].tenant]_vars

(* A save of a request that had read the current version moves the status    *)
(* along the README's state diagram and changes no field its body left out:  *)
(* what goes wrong between requests goes wrong through stale saves only.     *)
Lifecycle == INSTANCE SubscriptionLifecycle WITH
  Ids <- Requests,
  records <- [id \in Requests |-> IF Stored(id)
                THEN [tenant |-> subs[id].tenant, url |-> subs[id].url,
                      types |-> subs[id].types, status |-> subs[id].status]
                ELSE Absent]

Stale(w, id) == aggregate[w].base # subs[id].by

FreshSaveIsLegal ==
  [][\A id \in Requests : Stored(id) /\ subs'[id] # subs[id] =>
       LET w == subs'[id].by IN
       \/ Stale(w, id)
       \/ /\ \/ subs'[id].status \in Lifecycle!Successors(subs[id].status)
             \/ subs'[id].status = subs[id].status
          /\ subs'[id].url = subs[id].url \/ call[w].url # Omitted
          /\ subs'[id].types = subs[id].types \/ call[w].types # Omitted
    ]_vars

(* An internal error without a failure of the database has one of three      *)
(* causes: a PATCH has null in a field, another subscription of the tenant    *)
(* holds the URL asked for, or the request would put back, over a newer       *)
(* version, a URL which meanwhile became another subscription's. Even a       *)
(* DELETE meets the last (E11000 is no DomainError; domain-exception.filter). *)
InternalErrorsExplained ==
  [][\A r \in Requests : at[r] # "500" /\ at'[r] = "500" /\ r \notin failed' =>
       \/ call[r].op = "update" /\ Null \in {call[r].url, call[r].types}
       \/ SameTarget(call[r].tenant, call[r].url) \ {aggregate[r].id} # {}
       \/ aggregate[r].base # Absent /\ Stale(r, aggregate[r].id)]_vars

(* Clients that take turns see exactly the documented lifecycle, whatever    *)
(* fails on the way.                                                        *)
ImplementsLifecycle == Lifecycle!Spec

(* Every request is answered, or its process died.                          *)
EveryRequestAnswered ==
  \A r \in Requests : (at[r] = "finding") ~> (at[r] \in Codes \cup {"dropped"})

-----------------------------------------------------------------------------
(* Claims of the repository which requests at once break, and turns keep.   *)

(* README and architecture.md: DELETED is terminal.                         *)
DeletedIsTerminal ==
  [][\A id \in Requests :
       Stored(id) /\ subs[id].status = "DELETED" => subs'[id].status = "DELETED"]_vars

(* README, endpoints: POST answers 201, 400 or 409 (and 401); a duplicate is *)
(* answered 409, if nobody saves the same URL after its check.              *)
PostAnswersAsDocumented ==
  \A r \in Requests \ failed : at[r] \in Codes /\ call[r].op = "create" =>
    at[r] \in {"201", "400", "401", "409"}

=============================================================================
