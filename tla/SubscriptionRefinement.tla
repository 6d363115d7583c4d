------------------------- MODULE SubscriptionRefinement -------------------------
(***************************************************************************)
(* When clients take turns, the requests implement SubscriptionLifecycle   *)
(* (once the unique index is built), and POST answers as documented: for   *)
(* any calls and any number of database failures and process ends.         *)
(***************************************************************************)
EXTENDS SubscriptionProofs

-----------------------------------------------------------------------------
(* One request at a time, failed ones whose save may still be executed       *)
(* included: its save finds what its find found.                            *)

Busy == {r \in Requests : at[r] \in InProgress} \cup inflight

Alone == \A q, r \in Busy : q = r

\* The two changes SubscriptionLifecycle allows of a stored record, and none.
Successor(new, d) ==
  \/ new.status \in Lifecycle!Successors(d.status)
  \/ new.url = d.url /\ new.types = d.types /\ new.status = d.status

Follows(r) ==
  \/ Making(r) /\ aggregate[r].doc.status = "ACTIVE"
  \/ Stored(aggregate[r].id) /\ Successor(aggregate[r].doc, subs[aggregate[r].id])

Turns == Alone /\ \A r \in inflight : Follows(r)

LEMMA InitTurns == Init => Turns
BY DEF Init, Turns, Alone, Busy, InProgress

\* A step that lets no request in.
LEMMA AloneShrinks ==
  ASSUME Alone, Busy' \subseteq Busy
  PROVE  Alone'
BY DEF Alone

\* A step that writes nothing and sends no save.
LEMMA QuietFollows ==
  ASSUME \A r \in inflight : Follows(r), subs' = subs, inflight' \subseteq inflight,
         \A r \in inflight : call'[r] = call[r] /\ aggregate'[r] = aggregate[r]
  PROVE  \A r \in inflight' : Follows(r)'
BY DEF Follows, Making, Stored

LEMMA UpdatedFollows ==
  ASSUME NEW r, NEW c, Arrived(c), NEW d \in Document, UpdateCheck(c, d.status) = "saving"
  PROVE  Successor(Updated(r, c, d), d)
<1>1. /\ Updated(r, c, d).status = Given(c.status, d.status)
      /\ Updated(r, c, d).url = Given(c.url, d.url)
      /\ Updated(r, c, d).types = Given(c.types, d.types)
  BY DEF Updated, Document
<1>2. c.status \in {"ACTIVE", "PAUSED", Omitted} /\ d.status \in {"ACTIVE", "PAUSED", "DELETED"}
  BY UpdatePasses, CallsAssumption DEF Arrived, AnyCall, Marks, Statuses, Document
<1>3. /\ {"ACTIVE", "PAUSED"} \subseteq Lifecycle!Successors("ACTIVE")
      /\ {"ACTIVE", "PAUSED"} \subseteq Lifecycle!Successors("PAUSED")
  BY DEF Lifecycle!Successors
<1>4. CASE d.status = "DELETED"
  <2>1. c.url = Omitted /\ c.types = Omitted
    BY <1>4, UpdatePasses DEF Immutable
  <2>2. c.status \notin {"ACTIVE", "PAUSED"}
    BY <1>4, UpdatePasses
  <2>3. QED
    BY <1>1, <1>2, <2>1, <2>2 DEF Successor, Given
<1>5. CASE d.status # "DELETED"
  <2>1. Given(c.status, d.status) \in {"ACTIVE", "PAUSED"}
    BY <1>2, <1>5 DEF Given
  <2>2. QED
    BY <1>1, <1>2, <1>3, <1>5, <2>1 DEF Successor
<1>6. QED
  BY <1>4, <1>5

LEMMA DeletedFollows ==
  ASSUME NEW r, NEW d \in Document
  PROVE  Successor(Deleted(r, d), d)
<1>1. /\ Deleted(r, d).status = "DELETED"
      /\ Deleted(r, d).url = d.url /\ Deleted(r, d).types = d.types
  BY DEF Deleted, Document
<1>2. "DELETED" \in Lifecycle!Successors("ACTIVE") /\ "DELETED" \in Lifecycle!Successors("PAUSED")
  BY DEF Lifecycle!Successors
<1>3. QED
  BY <1>1, <1>2 DEF Successor, Document, Statuses

LEMMA FindTurns ==
  ASSUME Invariant, Turns, NEW r \in Requests, Find(r)
  PROVE  Turns'
<1> DEFINE c == call[r]
           d == subs[c.id]
<1>1. at[r] = "finding" /\ UNCHANGED <<call, subs>>
  BY FindAlike DEF FindForCreate, FindMisses, FindUnreadable, FindForChange
<1>2. inflight = {} /\ inflight' \subseteq {r}
  <2>1. r \in Busy /\ r \notin inflight
    BY <1>1 DEF Busy, InProgress, Invariant, Progress, SavePlaces
  <2>2. inflight = {}
    BY <2>1 DEF Turns, Alone, Busy
  <2>3. QED
    BY <2>2, FindAlike DEF FindForCreate, FindMisses, FindUnreadable, FindForChange, Refuse, SendSave
<1>3. Alone'
  <2>1. \A q \in Requests \ {r} : at'[q] = at[q]
    BY FindAlike DEF FindForCreate, FindMisses, FindUnreadable, FindForChange, Goto, Invariant,
           Progress
  <2>2. Busy' \subseteq Busy
    BY <1>1, <1>2, <2>1 DEF Busy, InProgress
  <2>3. QED
    BY <2>2, AloneShrinks DEF Turns
<1>4. CASE Refuse
  BY <1>2, <1>3, <1>4 DEF Refuse, Turns
<1>5. ASSUME NEW loaded, SendSave(r, loaded),
             \/ c.op = "create" /\ loaded.id = r /\ ~Stored(r) /\ loaded.doc.status = "ACTIVE"
             \/ Stored(loaded.id) /\ Successor(loaded.doc, subs[loaded.id])
      PROVE  Turns'
  <2>1. aggregate'[r] = loaded
    BY <1>5 DEF SendSave, Invariant, Typed, TypeOK
  <2>2. Follows(r)'
    BY <1>1, <1>5, <2>1 DEF Follows, Making, Successor, Stored
  <2>3. QED
    BY <1>2, <1>3, <2>2 DEF Turns
<1>6. CASE FindForCreate(r)
  <2> DEFINE loaded == Loaded(r, Created(r, c), Absent, "Created")
  <2>1. c.op = "create" /\ ~Stored(r)
    BY <1>1, <1>6 DEF FindForCreate, Invariant, Owned, Progress, DonePlaces
  <2>2. SendSave(r, loaded) \/ Refuse
    BY <1>6 DEF FindForCreate
  <2>3. loaded.id = r /\ loaded.doc.status = "ACTIVE"
    BY DEF Loaded, Created
  <2> HIDE DEF loaded
  <2>4. QED
    BY <1>4, <1>5, <2>1, <2>2, <2>3
<1>7. CASE FindMisses(r) \/ FindUnreadable(r)
  BY <1>4, <1>7 DEF FindMisses, FindUnreadable
<1>8. CASE FindForChange(r)
  <2> DEFINE new == IF c.op = "update" THEN Updated(r, c, d) ELSE Deleted(r, d)
             loaded == Loaded(c.id, new, d.by, Event(c, d))
  <2>1. d \in Document /\ Stored(c.id) /\ Arrived(c)
    BY <1>8 DEF FindForChange, Found, Stored, Invariant, Typed, TypeOK
  <2>2. CASE Checked(c, d) = "saving"
    <3>1. SendSave(r, loaded)
      BY <1>8, <2>2 DEF FindForChange
    <3>2. Successor(new, d)
      <4>1. CASE c.op = "update"
        <5>1. UpdateCheck(c, d.status) = "saving"
          BY <2>2, <4>1 DEF Checked
        <5>2. QED
          BY <2>1, <4>1, <5>1, UpdatedFollows
      <4>2. CASE c.op # "update"
        BY <2>1, <4>2, DeletedFollows
      <4>3. QED
        BY <4>1, <4>2
    <3>3. loaded.id = c.id /\ loaded.doc = new
      BY DEF Loaded
    <3> HIDE DEF loaded, new
    <3>4. QED
      BY <1>5, <2>1, <3>1, <3>2, <3>3
  <2>3. QED
    BY <1>4, <1>8, <2>2 DEF FindForChange
<1>9. QED
  BY <1>6, <1>7, <1>8, FindAlike

LEMMA NextTurns ==
  ASSUME Serial, Invariant, Turns, [Next]_vars
  PROVE  Turns'
<1>1. \A r \in inflight : r \in Requests /\ at[r] \notin {"idle", "finding"}
  BY DEF Invariant, Progress, SavePlaces
<1>2. ASSUME NEW r \in Requests, Submit(r)
      PROVE  Turns'
  <2>1. inflight' = {} /\ \A q \in Requests \ {r} : at'[q] \notin InProgress
    BY <1>2 DEF Submit, Goto, Invariant, Progress
  <2>2. QED
    BY <2>1 DEF Turns, Alone, Busy
<1>3. ASSUME NEW r \in Requests, SaveApplies(r)
      PROVE  Turns'
  <2>1. r \in Busy /\ inflight \subseteq Busy
    BY <1>3 DEF Busy, SaveApplies
  <2>2. inflight' = {}
    BY <1>3, <2>1 DEF SaveApplies, Turns, Alone
  <2>3. Busy' \subseteq Busy
    BY <1>3, <2>2 DEF SaveApplies, Goto, Busy, Invariant, Progress
  <2>4. QED
    BY <2>2, <2>3, AloneShrinks DEF Turns
<1>4. ASSUME NEW r \in Requests, SaveCollides(r) \/ Answer(r) \/ DatabaseFails(r)
      PROVE  Turns'
  <2>1. Busy' \subseteq Busy
    BY <1>4 DEF SaveCollides, Answer, DatabaseFails, Goto, Busy, InProgress, Invariant, Progress
  <2>2. \A q \in inflight' : Follows(q)'
    BY <1>4, QuietFollows DEF SaveCollides, Answer, DatabaseFails, Turns
  <2>3. QED
    BY <2>1, <2>2, AloneShrinks DEF Turns
<1>5. CASE Crash \/ BuildIndex \/ UNCHANGED vars
  <2>1. Busy' \subseteq Busy
    BY <1>5 DEF Crash, BuildIndex, vars, Busy, InProgress, Invariant, Progress
  <2>2. \A q \in inflight' : Follows(q)'
    BY <1>5, QuietFollows DEF Crash, BuildIndex, vars, Turns
  <2>3. QED
    BY <2>1, <2>2, AloneShrinks DEF Turns
<1>6. QED
  BY <1>2, <1>3, <1>4, <1>5, FindTurns DEF Next, Save

-----------------------------------------------------------------------------
(* Steps map to steps.                                                      *)

\* What of a document SubscriptionLifecycle speaks of.
Content(d) == [tenant |-> d.tenant, url |-> d.url, types |-> d.types, status |-> d.status]

Records == [id \in Requests |-> IF Stored(id)
              THEN [tenant |-> subs[id].tenant, url |-> subs[id].url,
                    types |-> subs[id].types, status |-> subs[id].status]
              ELSE Absent]

LEMMA SaveIsStep ==
  ASSUME Invariant, Turns, indexed, NEW r \in Requests, SaveApplies(r)
  PROVE  Lifecycle!Next \/ UNCHANGED Records
<1> DEFINE doc == aggregate[r].doc
<1>1. PICK id \in Requests :
        /\ id = aggregate[r].id /\ r \in inflight /\ doc \in Document /\ doc # Absent
        /\ doc.tenant = call[r].tenant /\ (Making(r) \/ Changing(r)) /\ Follows(r)
  BY AbsentAssumption DEF SaveApplies, Invariant, Typed, Owned, Loading, Turns
<1>2. /\ subs'[id] = doc /\ DOMAIN subs' = Requests
      /\ \A i \in Requests \ {id} : subs'[i] = subs[i]
  BY <1>1 DEF SaveApplies, Invariant, Typed, TypeOK
<1>3. PICK new \in Lifecycle!Subscription :
        /\ new = Content(doc)
        /\ new.tenant = doc.tenant /\ new.url = doc.url /\ new.status = doc.status
  <2>1. /\ Content(doc) \in Lifecycle!Subscription
        /\ Content(doc).tenant = doc.tenant /\ Content(doc).url = doc.url
        /\ Content(doc).status = doc.status
    BY <1>1 DEF Content, Document, Lifecycle!Subscription, Statuses, Lifecycle!Statuses
  <2>2. QED
    BY <2>1
<1>4. Records' = [Records EXCEPT ![id] = new]
  <2>1. \A i \in Requests : Records'[i] = IF i = id THEN new ELSE Records[i]
    BY <1>1, <1>2, <1>3 DEF Records, Stored, Content
  <2>2. QED
    BY <2>1 DEF Records
<1>5. ~Lifecycle!Taken(id, new.tenant, new.url)
  <2>1. \A i \in Requests \ {id} :
          Stored(i) => ~(subs[i].tenant = doc.tenant /\ subs[i].url = doc.url)
    BY <1>1 DEF SaveApplies, Collides, SameTarget, Stored
  <2>2. QED
    BY <1>3, <2>1 DEF Lifecycle!Taken, Stored
<1>6. CASE Making(r)
  <2>1. id = r /\ ~Stored(id)
    BY <1>1, <1>6 DEF Making
  <2>2. doc.status = "ACTIVE"
    BY <1>1, <2>1 DEF Follows
  <2>3. Lifecycle!Create(id, new)
    BY <1>1, <1>3, <1>4, <1>5, <2>1, <2>2 DEF Lifecycle!Create, Records, Stored
  <2>4. QED
    BY <2>3 DEF Lifecycle!Next
<1>7. CASE Changing(r)
  <2>1. Stored(id) /\ subs[id].tenant = doc.tenant /\ subs[id] \in Document
    BY <1>1, <1>7 DEF Changing, Stored, Invariant, Typed, TypeOK
  <2>2. CASE doc.status \in Lifecycle!Successors(subs[id].status)
    <3>1. /\ Records[id] = Content(subs[id]) /\ Records[id] # Absent
          /\ Records[id].tenant = subs[id].tenant /\ Records[id].status = subs[id].status
      BY <1>1, <2>1, AbsentAssumption DEF Records, Content, Document
    <3>2. Lifecycle!Change(id, new)
      BY <1>3, <1>4, <1>5, <2>1, <2>2, <3>1 DEF Lifecycle!Change, Records
    <3>3. QED
      BY <3>2 DEF Lifecycle!Next
  <2>3. CASE doc.status \notin Lifecycle!Successors(subs[id].status)
    <3>1. new = Records[id]
      BY <1>1, <1>3, <2>1, <2>3 DEF Follows, Successor, Making, Records, Content
    <3>2. QED
      BY <1>4, <3>1 DEF Records
  <2>4. QED
    BY <2>2, <2>3
<1>8. QED
  BY <1>1, <1>6, <1>7

(* Clients that take turns get the documented lifecycle once the index is     *)
(* built: one subscription per tenant and URL, created ACTIVE, moved along   *)
(* the diagram, never out of DELETED; failed and unanswered requests change   *)
(* nothing of that.                                                         *)
THEOREM TurnsKeepTheLifecycle ==
  ASSUME Serial, IndexAtStart
  PROVE  Spec => ImplementsLifecycle
<1>1. Init => Turns
  BY InitTurns
<1>2. Invariant /\ Turns /\ [Next]_vars => Turns'
  BY NextTurns
<1>3. Init => Lifecycle!Init
  BY DEF Init, Lifecycle!Init, Stored
<1>4. Invariant /\ Turns /\ indexed /\ [Next]_vars => [Lifecycle!Next]_Records
  <2> SUFFICES ASSUME Invariant, Turns, indexed, [Next]_vars
               PROVE  Lifecycle!Next \/ UNCHANGED Records
    OBVIOUS
  <2>1. CASE subs' = subs
    BY <2>1 DEF Records, Stored
  <2>2. QED
    BY <2>1, SaveIsStep, OnlySavesWrite
<1>5. Spec => []indexed
  BY IndexStays
<1>6. QED
  BY <1>1, <1>2, <1>3, <1>4, <1>5, InvariantHolds, PTL
  DEF Spec, ImplementsLifecycle, Lifecycle!Spec, Records

-----------------------------------------------------------------------------
(* What the documentation claims of requests, and concurrent ones break.     *)

\* Other subscriptions with the target a request is saving, indexed or not.
Rivals(r) == SameTarget(aggregate[r].doc.tenant, aggregate[r].doc.url) \ {aggregate[r].id}

\* A POST whose save is under way found its URL free, and it still is.
Unrivalled ==
  /\ \A r \in inflight : call[r].op = "create" => Rivals(r) = {}
  /\ \A r \in Requests \ failed : at[r] \in {"200", "404", "500"} => call[r].op # "create"

LEMMA CreateFindsRoom ==
  ASSUME NEW c, CreateCheck(c) = "saving"
  PROVE  SameTarget(c.tenant, c.url) = {}
<1> DEFINE checks ==
      << Fails(SameTarget(c.tenant, c.url) # {} /\ ~Readable(c.url), "InvalidTargetUrl"),
         Fails(SameTarget(c.tenant, c.url) # {}, "DuplicateSubscription"),
         Fails(NotEventTypes(c), "InvalidEventType") >>
<1>1. /\ DOMAIN checks = 1..3
      /\ \A i \in 1..3 : checks[i].code # "saving"
  BY DEF Fails, StatusOf
<1>2. \A i \in 1..3 : ~checks[i].fails
  <2>1. FirstFailure(checks, "saving") = "saving"
    BY DEF CreateCheck
  <2> HIDE DEF checks
  <2>2. QED
    BY <1>1, <2>1, PassesAll
<1>3. ~Fails(SameTarget(c.tenant, c.url) # {}, "DuplicateSubscription").fails
  BY <1>2
<1>4. QED
  BY <1>3, Zenon DEF Fails

LEMMA FindUnrivalled ==
  ASSUME Invariant, Turns, Unrivalled, NEW r \in Requests, Find(r)
  PROVE  Unrivalled'
<1> DEFINE c == call[r]
<1>1. at[r] = "finding" /\ UNCHANGED <<call, subs, failed>>
  BY FindAlike DEF FindForCreate, FindMisses, FindUnreadable, FindForChange
<1>2. inflight' \subseteq {r}
  <2>1. r \in Busy /\ r \notin inflight
    BY <1>1 DEF Busy, InProgress, Invariant, Progress, SavePlaces
  <2>2. QED
    BY <2>1, FindAlike DEF Turns, Alone, Busy, FindForCreate, FindMisses, FindUnreadable,
                FindForChange, Refuse, SendSave
<1>3. \A q \in Requests \ {r} : at'[q] = at[q]
  BY FindAlike DEF FindForCreate, FindMisses, FindUnreadable, FindForChange, Goto, Invariant,
         Progress
<1>4. CASE c.op # "create"
  BY <1>1, <1>2, <1>3, <1>4 DEF Unrivalled
<1>5. CASE c.op = "create"
  <2>1. FindForCreate(r) /\ at'[r] = CreateCheck(c)
    BY <1>5, FindAlike DEF FindForCreate, FindMisses, FindUnreadable, FindForChange, Goto,
                Invariant, Progress
  <2>2. at'[r] \in {"saving", "400", "409"}
    BY <2>1, CreateCodes
  <2>3. CASE CreateCheck(c) = "saving"
    <3> DEFINE loaded == Loaded(r, Created(r, c), Absent, "Created")
    <3>1. aggregate'[r] = loaded
      BY <2>1, <2>3 DEF FindForCreate, SendSave, Invariant, Typed, TypeOK
    <3>2. loaded.id = r /\ loaded.doc.tenant = c.tenant /\ loaded.doc.url = c.url
      BY DEF Loaded, Created
    <3>3. \A id \in Requests : subs'[id] # Absent =>
            ~(subs'[id].tenant = c.tenant /\ subs'[id].url = c.url)
      BY <1>1, <2>3, CreateFindsRoom DEF SameTarget
    <3> HIDE DEF loaded, c
    <3>4. (Rivals(r) = {})'
      BY <3>1, <3>2, <3>3 DEF Rivals, SameTarget
    <3>5. QED
      BY <1>1, <1>2, <1>3, <2>2, <3>4 DEF Unrivalled
  <2>4. CASE CreateCheck(c) # "saving"
    <3>1. inflight' = {}
      BY <1>1, <1>2, <2>1, <2>4
      DEF FindForCreate, Refuse, Invariant, Progress, SavePlaces
    <3>2. QED
      BY <1>1, <1>3, <2>2, <3>1 DEF Unrivalled
  <2>5. QED
    BY <2>3, <2>4
<1>6. QED
  BY <1>4, <1>5

LEMMA NextUnrivalled ==
  ASSUME Serial, Invariant, Turns, Unrivalled, [Next]_vars
  PROVE  Unrivalled'
<1>1. ASSUME NEW r \in Requests, Submit(r)
      PROVE  Unrivalled'
  <2>1. inflight' = {} /\ UNCHANGED failed
    BY <1>1 DEF Submit
  <2>2. at'[r] \in {"finding", "400", "401"}
    BY <1>1, ArrivalCodes DEF Submit, Goto, Invariant, Progress
  <2>3. \A q \in Requests \ {r} : at'[q] = at[q] /\ call'[q] = call[q]
    BY <1>1 DEF Submit, Goto, Invariant, Progress, Asked
  <2>4. QED
    BY <2>1, <2>2, <2>3 DEF Unrivalled
<1>2. ASSUME NEW r \in Requests, SaveApplies(r)
      PROVE  Unrivalled'
  <2>1. inflight' = {}
    BY <1>2 DEF SaveApplies, Turns, Alone, Busy
  <2>2. \A q \in Requests : at'[q] = at[q] \/ at'[q] = "saved"
    BY <1>2 DEF SaveApplies, Goto, Invariant, Progress
  <2>3. QED
    BY <1>2, <2>1, <2>2 DEF SaveApplies, Unrivalled
<1>3. ASSUME NEW r \in Requests, SaveCollides(r) \/ Answer(r) \/ DatabaseFails(r)
      PROVE  Unrivalled'
  <2>1. UNCHANGED <<call, subs, aggregate>> /\ inflight' \subseteq inflight /\ failed \subseteq failed'
    BY <1>3 DEF SaveCollides, Answer, DatabaseFails
  <2>2. \A q \in inflight' : Rivals(q)' = Rivals(q)
    BY <2>1 DEF Rivals, SameTarget
  <2>3. \A q \in Requests \ {r} : at'[q] = at[q]
    BY <1>3 DEF SaveCollides, Answer, DatabaseFails, Goto, Invariant, Progress
  <2>4. r \notin failed' /\ at'[r] \in {"200", "404", "500"} => call[r].op # "create"
    BY <1>3 DEF SaveCollides, Collides, Rivals, Answer, DatabaseFails, Goto, Invariant, Progress,
                Unrivalled
  <2>5. QED
    BY <2>1, <2>2, <2>3, <2>4 DEF Unrivalled
<1>4. CASE Crash \/ BuildIndex \/ UNCHANGED vars
  <2>1. UNCHANGED <<call, subs, aggregate, failed>> /\ inflight' \subseteq inflight
    BY <1>4 DEF Crash, BuildIndex, vars
  <2>2. \A q \in inflight' : Rivals(q)' = Rivals(q)
    BY <2>1 DEF Rivals, SameTarget
  <2>3. \A q \in Requests : at'[q] \in {at[q], "dropped"}
    BY <1>4 DEF Crash, BuildIndex, vars
  <2>4. QED
    BY <2>1, <2>2, <2>3 DEF Unrivalled
<1>5. QED
  BY <1>1, <1>2, <1>3, <1>4, FindUnrivalled DEF Next, Save

(* When clients take turns a POST is answered as documented, 409 for a        *)
(* duplicate included, unless the database fails: the 500 of a collision is   *)
(* for concurrent POSTs only (run subscription_duplicate_post).              *)
THEOREM TurnsAnswerPosts ==
  ASSUME Serial
  PROVE  Spec => []PostAnswersAsDocumented
<1>1. Init => Turns /\ Unrivalled
  BY InitTurns DEF Init, Unrivalled
<1>2. Invariant /\ Turns /\ Unrivalled /\ [Next]_vars => (Turns /\ Unrivalled)'
  BY NextTurns, NextUnrivalled
<1>3. Unrivalled => PostAnswersAsDocumented
  BY DEF Unrivalled, PostAnswersAsDocumented, Codes
<1>4. QED
  BY <1>1, <1>2, <1>3, InvariantHolds, PTL DEF Spec
=============================================================================
