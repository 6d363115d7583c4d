-------------------------- MODULE SubscriptionListing --------------------------
(***************************************************************************)
(* GET /subscriptions beside the requests of SubscriptionApi: a client      *)
(* walks the pages of its tenant's subscriptions while others create,       *)
(* retarget, pause and delete them. A page is two reads that run at once,   *)
(* the find and the count, and the find names no order: the index MongoDB   *)
(* runs it on (external) gives one, and may be another on the next page.    *)
(***************************************************************************)
EXTENDS SubscriptionApi

CONSTANTS
  Queries,         \* what the client may ask
  DefaultPageSize, \* DEFAULT_PAGE_SIZE
  UrlRank          \* Urls in the order of strings

\* A list of event types is here as good as its only member.
Wanted == [tenant: Tenants \cup {Absent},
           status: Statuses \cup {Omitted, Malformed},
           types: EventTypes \cup {Omitted, Invalid, Malformed},
           pageSize: Nat \cup {Omitted, Malformed}]

ASSUME QueriesAssumption == /\ \A q \in Queries : q \in Wanted
                            /\ DefaultPageSize \in Nat \ {0}
                            /\ UrlRank \in [Urls -> Nat]
                            /\ \A u, v \in Urls : UrlRank[u] = UrlRank[v] => u = v

VARIABLES
  query,  \* what the client asks for
  page,   \* the page it is at
  stage,  \* of its request, then the answer
  items,  \* the documents the find returned
  total,  \* what the count returned
  order,  \* the index the find runs on
  born,   \* position of each document in the order of insertion
  seen,   \* ids on the pages answered so far
  again,  \* those that were on two of them
  steady, \* history: ids that matched throughout the walk, in the same place
  events  \* history: what else happened during the walk

walkVars == <<query, page, stage, items, total, seen, again, steady, events>>
listVars == <<vars, walkVars, order, born>>

Orders == {"insertion", "url", "status"}

\* The unique index gives an order once it is built.
Plans == {o \in Orders : o = "url" => indexed}

Walking == {"reading", "200"}
Over == {"done", "400", "401", "500", "dropped"}

ListInit ==
  /\ Init
  /\ query = Absent /\ page = 1 /\ stage = "idle" /\ items = Absent /\ total = Absent
  /\ order \in Plans /\ born = [id \in Requests |-> 0]
  /\ seen = {} /\ again = {} /\ steady = {} /\ events = {}

-----------------------------------------------------------------------------
(* What is asked of the collection.                                         *)

\* IdentityGuard, PaginationInterceptor, ValidationPipe, EventType.fromString.
ListOnArrival(q) ==
  FirstFailure(
    << Fails(Anonymous(q), "Unauthorized"),
       Fails(q.pageSize \in {Malformed, 0}, "BadRequest"),
       Fails(Malformed \in {q.status, q.types}, "BadRequest"),
       Fails(NotEventTypes(q), "InvalidEventType") >>,
    "reading")

PageSize(q) == IF q.pageSize = Omitted THEN DefaultPageSize ELSE q.pageSize

MatchesFilters(d, q) == /\ q.status \in {Omitted, d.status}
                        /\ q.types \in {Omitted, d.types}

\* Mutants: the tenant, or the filters, are left out.
MatchesAnyTenant(d, q) == MatchesFilters(d, q)
MatchesTenantOnly(d, q) == d.tenant = q.tenant

Matches(d, q) == d.tenant = q.tenant /\ MatchesFilters(d, q)

\* Mutant: the count is of the tenant's subscriptions.
CountedOfTenant(q) == {id \in Requests : subs[id] # Absent /\ subs[id].tenant = q.tenant}

Matching(q) == {id \in Requests : subs[id] # Absent /\ Matches(subs[id], q)}
Counted(q) == Matching(q)

StatusRank == [s \in Statuses |-> CASE s = "ACTIVE" -> 1 [] s = "DELETED" -> 2
                                     [] s = "PAUSED" -> 3]

Before(i, j) ==
  LET d == subs[i]
      e == subs[j]
  IN CASE order = "insertion" -> born[i] < born[j]
       [] order = "url" -> UrlRank[d.url] < UrlRank[e.url]
       [] order = "status" ->
            \/ StatusRank[d.status] < StatusRank[e.status]
            \/ d.status = e.status /\ born[i] < born[j]

\* How many matching documents come before this one.
Rank(q, id) == Cardinality({j \in Matching(q) : Before(j, id)})

Skipped(q, p) == (p - 1) * PageSize(q)

\* Mutant: one document more than a page.
PageAndOneMore(q, p) ==
  {id \in Matching(q) : /\ Skipped(q, p) <= Rank(q, id)
                        /\ Rank(q, id) <= Skipped(q, p) + PageSize(q)}

PageOf(q, p) ==
  {id \in Matching(q) : /\ Skipped(q, p) <= Rank(q, id)
                        /\ Rank(q, id) < Skipped(q, p) + PageSize(q)}

-----------------------------------------------------------------------------
(* The client's requests.                                                   *)

Elsewhere == UNCHANGED <<vars, order, born>>

Ask(q) ==
  /\ stage = "idle"
  /\ query' = q
  /\ stage' = ListOnArrival(q)
  /\ steady' = IF stage' = "reading" THEN Matching(q) ELSE {}
  /\ UNCHANGED <<page, items, total, seen, again, events>>
  /\ Elsewhere

\* After each page the client asks for the next one.
AskNext ==
  /\ stage = "200"
  /\ page' = page + 1 /\ stage' = "reading" /\ items' = Absent /\ total' = Absent
  /\ UNCHANGED <<query, seen, again, steady, events>>
  /\ Elsewhere

FindPage ==
  /\ stage = "reading" /\ items = Absent
  /\ items' = [id \in PageOf(query, page) |-> subs[id]]
  /\ UNCHANGED <<query, page, stage, total, seen, again, steady, events>>
  /\ Elsewhere

CountAll ==
  /\ stage = "reading" /\ total = Absent
  /\ total' = Cardinality(Counted(query))
  /\ UNCHANGED <<query, page, stage, items, seen, again, steady, events>>
  /\ Elsewhere

BothRead == stage = "reading" /\ items # Absent /\ total # Absent
Restorable == \A id \in DOMAIN items : Readable(items[id].url)

\* toAggregate of one document throws, and with it the whole page.
PageUnreadable ==
  /\ BothRead /\ ~Restorable
  /\ stage' = StatusOf("InvalidTargetUrl")
  /\ UNCHANGED <<query, page, items, total, seen, again, steady, events>>
  /\ Elsewhere

\* The last page is the one that reaches Total.
PageAnswered ==
  /\ BothRead /\ Restorable
  /\ seen' = seen \cup DOMAIN items
  /\ again' = again \cup (seen \cap DOMAIN items)
  /\ stage' = IF page * PageSize(query) >= total THEN "done" ELSE "200"
  /\ UNCHANGED <<query, page, items, total, steady, events>>
  /\ Elsewhere

\* Either read rejects, or the process dies.
ListFails ==
  /\ stage = "reading"
  /\ stage' \in {"500", "dropped"}
  /\ UNCHANGED <<query, page, items, total, seen, again, steady, events>>
  /\ Elsewhere

-----------------------------------------------------------------------------
(* The collection changes under the walk.                                   *)

InPlace(id) == subs[id].url = subs'[id].url /\ subs[id].status = subs'[id].status

\* A step of SubscriptionApi, and the history it leaves. (A bound: nobody looks at
\* the collection after the walk, so nothing is written then.)
Elsewhen ==
  /\ stage \notin Over
  /\ Next
  /\ UNCHANGED <<query, page, stage, items, total, seen, again, order>>
  /\ born' = [id \in Requests |->
                IF subs[id] = Absent /\ subs'[id] # Absent
                  THEN Cardinality({j \in Requests : subs[j] # Absent}) + 1
                  ELSE born[id]]
  /\ IF stage \notin Walking THEN UNCHANGED <<steady, events>> ELSE
       LET old == Matching(query)
           new == Matching(query)'
           happened == [arrived  |-> new \ old # {},
                        departed |-> old \ new # {},
                        moved    |-> \E id \in old \cap new : ~InPlace(id),
                        torn     |-> old # new /\ stage = "reading"
                                       /\ (items = Absent) # (total = Absent)]
       IN  /\ steady' = {id \in steady \cap new : InPlace(id)}
           /\ events' = events \cup {e \in DOMAIN happened : happened[e]}

\* MongoDB plans the query anew.
Replan ==
  /\ stage \in Walking
  /\ order' \in Plans \ {order}
  /\ events' = events \cup {"replanned"}
  /\ UNCHANGED <<query, page, stage, items, total, seen, again, steady, vars, born>>

ListNext == \/ \E q \in Queries : Ask(q)
            \/ AskNext \/ FindPage \/ CountAll
            \/ PageUnreadable \/ PageAnswered \/ ListFails
            \/ Elsewhen \/ Replan

ListSpec == ListInit /\ [][ListNext]_listVars

-----------------------------------------------------------------------------
(* Properties.                                                              *)

(* Other tenants are not there: what a page holds is the tenant's own and     *)
(* matched the filters, and a page is refused for a document of its own only  *)
(* (list of the repository; README, "scoped to the caller's tenant").        *)
OtherTenantsInvisible ==
  /\ items # Absent => \A id \in DOMAIN items : items[id].tenant = query.tenant
  /\ stage = "400" /\ items # Absent =>
       \E id \in DOMAIN items : items[id].tenant = query.tenant /\ ~Readable(items[id].url)

(* Page and total belong together unless a write came between the two reads:  *)
(* the page is full, or ends where the total does (Promise.all in list).     *)
PageFitsTotal ==
  stage \in {"200", "done"} /\ "torn" \notin events =>
    LET left == total - (page - 1) * PageSize(query)
    IN  Cardinality(DOMAIN items) = IF left < 0 THEN 0 ELSE Min({left, PageSize(query)})

(* A walk nothing disturbed lists every matching subscription, once.          *)
QuietWalkIsExact ==
  stage = "done" /\ events = {} => seen = steady /\ again = {}

(* What a disturbed walk may do to a subscription that matched and stayed     *)
(* where it was: miss it when another one left, was moved, the order changed  *)
(* or the total was of another moment than the page; repeat it when another   *)
(* one arrived, was moved or the order changed. Nothing else does: a create    *)
(* between two pages alone hides nothing, a delete alone repeats nothing.    *)
MissesAndRepeats ==
  stage = "done" =>
    /\ steady \subseteq seen \/ events \cap {"departed", "moved", "replanned", "torn"} # {}
    /\ steady \cap again = {} \/ events \cap {"arrived", "moved", "replanned"} # {}

=============================================================================
