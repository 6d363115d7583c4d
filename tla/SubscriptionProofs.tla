--------------------------- MODULE SubscriptionProofs ---------------------------
(***************************************************************************)
(* What TLAPS proves of module SubscriptionApi for any requests, tenants,  *)
(* calls and number of failures, however they interleave.                  *)
(***************************************************************************)
EXTENDS SubscriptionApi, LeastLemmas, TLAPS

-----------------------------------------------------------------------------
(* GET, PATCH and DELETE of a subscription that was found differ in what     *)
(* they make of it; the proofs treat them alike.                            *)

Checked(c, d) == CASE c.op = "get"    -> "200"
                   [] c.op = "update" -> UpdateCheck(c, d.status)
                   [] c.op = "delete" -> "saving"

FindForChange(r) ==
  LET c == call[r]
      d == subs[c.id]
      new == IF c.op = "update" THEN Updated(r, c, d) ELSE Deleted(r, d)
  IN
  /\ at[r] = "finding" /\ c.op # "create"
  /\ Found(c) /\ Readable(d.url)
  /\ Goto(r, Checked(c, d))
  /\ IF Checked(c, d) = "saving" THEN SendSave(r, Loaded(c.id, new, d.by, Event(c, d)))
                                 ELSE Refuse
  /\ UNCHANGED <<call, subs, indexed, applied, failed, emitted, faults>>

LEMMA FindAlike ==
  ASSUME NEW r, Find(r)
  PROVE  \/ FindForCreate(r) \/ FindMisses(r) \/ FindUnreadable(r) \/ FindForChange(r)
<1>1. CASE FindForGet(r)
  BY <1>1 DEF FindForGet, Finds, FindForChange, Checked
<1>2. CASE FindForUpdate(r)
  BY <1>2 DEF FindForUpdate, Finds, FindForChange, Checked
<1>3. CASE FindForDelete(r)
  BY <1>3 DEF FindForDelete, Finds, FindForChange, Checked
<1>4. QED
  BY <1>1, <1>2, <1>3 DEF Find

-----------------------------------------------------------------------------
(* The unique index.                                                        *)

\* Only an executed save writes the collection, only the build touches the index.
LEMMA OnlySavesWrite ==
  ASSUME [Next]_vars
  PROVE  /\ subs' = subs \/ \E r \in Requests : SaveApplies(r)
         /\ indexed' = indexed \/ BuildIndex
<1>1. ASSUME NEW r \in Requests, Submit(r) \/ Find(r) \/ SaveCollides(r) \/ Answer(r)
      PROVE  UNCHANGED <<subs, indexed>>
  BY <1>1, FindAlike DEF Submit, FindForCreate, FindMisses, FindUnreadable, FindForChange,
              SaveCollides, Answer
<1>2. ASSUME NEW r \in Requests, DatabaseFails(r)
      PROVE  UNCHANGED <<subs, indexed>>
  BY <1>2 DEF DatabaseFails
<1>3. CASE Crash \/ BuildIndex
  BY <1>3 DEF Crash, BuildIndex
<1>4. ASSUME NEW r \in Requests, SaveApplies(r)
      PROVE  indexed' = indexed
  BY <1>4 DEF SaveApplies
<1>5. QED
  BY <1>1, <1>2, <1>3, <1>4 DEF Next, Save, vars

(* An index that is built stays.                                            *)
LEMMA IndexStays == IndexAtStart /\ Spec => []indexed
<1>1. IndexAtStart /\ Init => indexed
  BY DEF Init
<1>2. indexed /\ [Next]_vars => indexed'
  BY OnlySavesWrite DEF BuildIndex
<1>3. QED
  BY <1>1, <1>2, PTL DEF Spec

(* Once the index is built nothing makes two subscriptions of a tenant share *)
(* a target URL: neither creates that all passed the duplicate check, nor    *)
(* URL changes, nor saves executed after their process died.                *)
THEOREM TargetsStayUnique == Spec => []TargetsUnique
<1> DEFINE Unique == TargetsUnique /\ DOMAIN subs = Requests
<1>1. Init => Unique
  BY DEF Init, TargetsUnique, OnePerTarget, Stored
<1>2. Unique /\ [Next]_vars => Unique'
  <2> SUFFICES ASSUME Unique, [Next]_vars
               PROVE  Unique'
    OBVIOUS
  <2>1. CASE subs' = subs
    <3>1. OnePerTarget => OnePerTarget'
      BY <2>1 DEF OnePerTarget, Stored
    <3>2. indexed' = indexed \/ OnePerTarget
      BY OnlySavesWrite DEF BuildIndex
    <3>3. TargetsUnique'
      BY <3>1, <3>2, Zenon DEF TargetsUnique
    <3>4. QED
      BY <2>1, <3>3
  <2>2. ASSUME NEW r \in Requests, SaveApplies(r)
        PROVE  Unique'
    <3> DEFINE new == aggregate[r]
    <3>1. /\ DOMAIN subs' = Requests /\ indexed' = indexed
          /\ \A i \in Requests : subs'[i] = IF i = new.id THEN new.doc ELSE subs[i]
      BY <2>2 DEF SaveApplies
    <3>2. ASSUME indexed, NEW i \in Requests \ {new.id}, Stored(i)
          PROVE  ~(subs[i].tenant = new.doc.tenant /\ subs[i].url = new.doc.url)
      BY <2>2, <3>2 DEF SaveApplies, Collides, SameTarget, Stored
    <3> HIDE DEF new
    <3>3. TargetsUnique'
      BY <3>1, <3>2 DEF TargetsUnique, OnePerTarget, Stored
    <3>4. QED
      BY <3>1, <3>3
  <2>3. QED
    BY <2>1, <2>2, OnlySavesWrite
<1>3. QED
  BY <1>1, <1>2, PTL DEF Spec

-----------------------------------------------------------------------------
(* Where a request is, and how far its save has come.                       *)

SavePlaces == {"saving", "500", "dropped"}
DonePlaces == {"saved", "200", "201", "500", "dropped"}

\* A save is under way from `saving` on, or its request failed meanwhile; nothing is
\* emitted that was not saved.
Progress ==
  /\ DOMAIN at = Requests
  /\ inflight \subseteq Requests /\ applied \subseteq Requests
  /\ \A r \in inflight : at[r] \in SavePlaces
  /\ \A r \in applied : at[r] \in DonePlaces
  /\ \A r \in Requests : at[r] = "saved" => r \in applied
  /\ \A p \in emitted : p[1] \in applied

LEMMA GotoMoves ==
  ASSUME DOMAIN at = Requests, NEW r \in Requests, NEW place, Goto(r, place)
  PROVE  /\ DOMAIN at' = Requests /\ at'[r] = place
         /\ \A q \in Requests \ {r} : at'[q] = at[q]
BY DEF Goto

-----------------------------------------------------------------------------
(* The code of the first check that fails is the code of one of the checks. *)

LEMMA FirstFailureIsOne ==
  ASSUME NEW checks, NEW otherwise, DOMAIN checks \subseteq Nat
  PROVE  \/ FirstFailure(checks, otherwise) = otherwise
         \/ \E i \in DOMAIN checks : FirstFailure(checks, otherwise) = checks[i].code
<1> DEFINE failing == {i \in DOMAIN checks : checks[i].fails}
<1>1. CASE failing = {}
  BY <1>1 DEF FirstFailure
<1>2. CASE failing # {}
  <2>1. Min(failing) \in failing
    BY <1>2, MinIsMember
  <2>2. FirstFailure(checks, otherwise) = checks[Min(failing)].code
    BY <1>2 DEF FirstFailure
  <2>3. QED
    BY <2>1, <2>2
<1>3. QED
  BY <1>1, <1>2

LEMMA ArrivalCodes ==
  ASSUME NEW c
  PROVE  OnArrival(c) \in {"finding", "400", "401"}
BY FirstFailureIsOne DEF OnArrival, Fails, StatusOf

LEMMA CreateCodes ==
  ASSUME NEW c
  PROVE  CreateCheck(c) \in {"saving", "400", "409"}
BY FirstFailureIsOne DEF CreateCheck, Fails, StatusOf

LEMMA UpdateCodes ==
  ASSUME NEW c, NEW status
  PROVE  UpdateCheck(c, status) \in {"saving", "400", "409", "500"}
BY FirstFailureIsOne DEF UpdateCheck, Fails, StatusOf

-----------------------------------------------------------------------------
(* A request that arrived asks what clients may ask.                        *)

Asked == /\ DOMAIN call = Requests /\ DOMAIN at = Requests
         /\ \A r \in Requests : at[r] # "idle" => call[r] \in Calls

LEMMA InitAsked == Init => Asked
BY DEF Init, Asked

LEMMA NextAsked ==
  ASSUME Asked, [Next]_vars
  PROVE  Asked'
<1>1. ASSUME NEW r \in Requests, Submit(r)
      PROVE  Asked'
  <2>1. PICK c \in Calls : call' = [call EXCEPT ![r] = c] /\ Goto(r, OnArrival(c))
    BY <1>1 DEF Submit
  <2>2. QED
    BY <2>1, GotoMoves DEF Asked
<1>2. ASSUME NEW r \in Requests, Find(r) \/ Save(r) \/ Answer(r) \/ DatabaseFails(r)
      PROVE  Asked'
  <2>1. call' = call
    BY <1>2, FindAlike DEF FindForCreate, FindMisses, FindUnreadable, FindForChange, Save,
                SaveApplies, SaveCollides, Answer, DatabaseFails
  <2>2. at' = at \/ (at[r] # "idle" /\ \E place : Goto(r, place))
    BY <1>2, FindAlike DEF FindForCreate, FindMisses, FindUnreadable, FindForChange, Save,
                SaveApplies, SaveCollides, Answer, DatabaseFails
  <2>3. QED
    BY <2>1, <2>2, GotoMoves DEF Asked
<1>3. CASE Crash
  BY <1>3 DEF Crash, Asked, InProgress
<1>4. CASE UNCHANGED vars \/ BuildIndex
  BY <1>4 DEF vars, BuildIndex, Asked
<1>5. QED
  BY <1>1, <1>2, <1>3, <1>4 DEF Next

LEMMA ChangeCodes ==
  ASSUME Asked, NEW r \in Requests, at[r] # "idle", call[r].op # "create", NEW d
  PROVE  /\ call[r].op = "get" => Checked(call[r], d) = "200"
         /\ call[r].op # "get" => Checked(call[r], d) \in {"saving", "400", "409", "500"}
<1>1. call[r].op \in Ops
  BY CallsAssumption DEF Asked, AnyCall
<1>2. QED
  BY <1>1, UpdateCodes DEF Checked, Ops

-----------------------------------------------------------------------------
(* Progress is inductive.                                                   *)

LEMMA InitProgress == Init => Progress
BY DEF Init, Progress

\* A step that moves a request whose save was not sent, and sends it perhaps.
LEMMA MoveKeepsProgress ==
  ASSUME Progress, NEW r \in Requests, at[r] \in {"idle", "finding"},
         NEW place, Goto(r, place), place # "saved",
         inflight' = inflight \/ (place = "saving" /\ inflight' = inflight \cup {r}),
         UNCHANGED <<applied, emitted>>
  PROVE  Progress'
<1>1. r \notin inflight /\ r \notin applied
  BY DEF Progress, SavePlaces, DonePlaces
<1>2. /\ DOMAIN at' = Requests /\ at'[r] = place
      /\ \A q \in Requests \ {r} : at'[q] = at[q]
  BY GotoMoves DEF Progress
<1>3. QED
  BY <1>1, <1>2 DEF Progress, SavePlaces

LEMMA SubmitProgress ==
  ASSUME Progress, NEW r \in Requests, Submit(r)
  PROVE  Progress'
<1>1. PICK c \in Calls : Goto(r, OnArrival(c))
  BY DEF Submit
<1>2. OnArrival(c) # "saved"
  BY ArrivalCodes
<1>3. QED
  BY <1>1, <1>2, MoveKeepsProgress DEF Submit

\* What a find leads to: an answer, or the save.
LEMMA FindProgress ==
  ASSUME Progress, Asked, NEW r \in Requests, Find(r)
  PROVE  Progress'
<1>1. CASE FindForCreate(r)
  <2>1. CreateCheck(call[r]) # "saved"
    BY CreateCodes
  <2>2. QED
    BY <1>1, <2>1, MoveKeepsProgress DEF FindForCreate, SendSave, Refuse
<1>2. CASE FindMisses(r) \/ FindUnreadable(r)
  BY <1>2, MoveKeepsProgress DEF FindMisses, FindUnreadable, Refuse, StatusOf
<1>3. CASE FindForChange(r)
  <2>1. Checked(call[r], subs[call[r].id]) # "saved"
    BY <1>3, ChangeCodes DEF FindForChange
  <2>2. QED
    BY <1>3, <2>1, MoveKeepsProgress DEF FindForChange, SendSave, Refuse
<1>4. QED
  BY <1>1, <1>2, <1>3, FindAlike

LEMMA SaveProgress ==
  ASSUME Progress, NEW r \in Requests, Save(r)
  PROVE  Progress'
<1>1. r \in inflight
  BY DEF Save, SaveApplies, SaveCollides
<1>2. CASE at[r] = "saving"
  <2>1. PICK place \in {"saved", "500"} :
          Goto(r, place) /\ (place = "saved" => applied' = applied \cup {r})
    BY <1>2 DEF Save, SaveApplies, SaveCollides, StatusOf
  <2>2. /\ DOMAIN at' = Requests /\ at'[r] = place
        /\ \A q \in Requests \ {r} : at'[q] = at[q]
    BY <2>1, GotoMoves DEF Progress
  <2>3. /\ inflight' = inflight \ {r} /\ emitted' = emitted
        /\ applied' = applied \/ applied' = applied \cup {r}
    BY DEF Save, SaveApplies, SaveCollides
  <2>4. QED
    BY <2>1, <2>2, <2>3 DEF Progress, DonePlaces
<1>3. CASE at[r] # "saving"
  <2>1. /\ at' = at /\ inflight' = inflight \ {r} /\ emitted' = emitted
        /\ applied' = applied \/ applied' = applied \cup {r}
    BY <1>3 DEF Save, SaveApplies, SaveCollides
  <2>2. at[r] \in DonePlaces
    BY <1>1, <1>3 DEF Progress, SavePlaces, DonePlaces
  <2>3. QED
    BY <2>1, <2>2 DEF Progress
<1>4. QED
  BY <1>2, <1>3

LEMMA AnswerProgress ==
  ASSUME Progress, NEW r \in Requests, Answer(r)
  PROVE  Progress'
<1>1. PICK place \in {"200", "201"} : Goto(r, place)
  BY DEF Answer
<1>2. /\ DOMAIN at' = Requests /\ at'[r] = place
      /\ \A q \in Requests \ {r} : at'[q] = at[q]
  BY <1>1, GotoMoves DEF Progress
<1>3. r \in applied /\ r \notin inflight
  BY DEF Answer, Progress, SavePlaces
<1>4. QED
  BY <1>2, <1>3 DEF Answer, Progress, DonePlaces

LEMMA FailureProgress ==
  ASSUME Progress, Crash \/ \E r \in Requests : DatabaseFails(r)
  PROVE  Progress'
<1>1. ASSUME NEW r \in Requests, DatabaseFails(r)
      PROVE  Progress'
  <2>1. /\ DOMAIN at' = Requests /\ at'[r] = "500"
        /\ \A q \in Requests \ {r} : at'[q] = at[q]
    BY <1>1, GotoMoves DEF DatabaseFails, Progress
  <2>2. QED
    BY <1>1, <2>1 DEF DatabaseFails, Progress, SavePlaces, DonePlaces
<1>2. CASE Crash
  <2>1. /\ DOMAIN at' = Requests
        /\ \A q \in Requests : at'[q] = at[q] \/ at'[q] = "dropped"
    BY <1>2 DEF Crash
  <2>2. inflight' \subseteq inflight /\ UNCHANGED <<applied, emitted>>
    BY <1>2 DEF Crash
  <2>3. QED
    BY <2>1, <2>2 DEF Progress, SavePlaces, DonePlaces
<1>3. QED
  BY <1>1, <1>2

LEMMA NextProgress ==
  ASSUME Progress, Asked, [Next]_vars
  PROVE  Progress'
<1>1. CASE UNCHANGED vars \/ BuildIndex
  BY <1>1 DEF vars, BuildIndex, Progress
<1>2. QED
  BY <1>1, SubmitProgress, FindProgress, SaveProgress, AnswerProgress, FailureProgress
  DEF Next

(* A request answered 4xx has changed nothing and never will: not through a  *)
(* check that comes too late, not through a save on its way.                *)
THEOREM RefusalsChangeNothing == Spec => []RefusedChangesNothing
<1>1. Init => Progress /\ Asked
  BY InitProgress, InitAsked
<1>2. Progress /\ Asked /\ [Next]_vars => (Progress /\ Asked)'
  BY NextProgress, NextAsked
<1>3. Progress => RefusedChangesNothing
  BY DEF Progress, RefusedChangesNothing, SavePlaces, DonePlaces
<1>4. QED
  BY <1>1, <1>2, <1>3, PTL DEF Spec

-----------------------------------------------------------------------------
(* What a 2xx answer stands for.                                            *)

\* The event a request recorded is fixed before its save.
Faithful == /\ DOMAIN aggregate = Requests
            /\ ConfirmedIsDone

LEMMA NextFaithful ==
  ASSUME Progress, Asked, Faithful, [Next]_vars
  PROVE  Faithful'
<1> USE DEF Faithful, ConfirmedIsDone
<1>1. CASE UNCHANGED vars \/ BuildIndex
  BY <1>1 DEF vars, BuildIndex
<1>2. ASSUME NEW r \in Requests, Submit(r)
      PROVE  Faithful'
  <2>1. PICK c \in Calls : call' = [call EXCEPT ![r] = c] /\ Goto(r, OnArrival(c))
    BY <1>2 DEF Submit
  <2>2. at'[r] \notin {"200", "201"} /\ \A q \in Requests \ {r} :
          at'[q] = at[q] /\ call'[q] = call[q]
    BY <2>1, ArrivalCodes, GotoMoves DEF Asked
  <2>3. QED
    BY <1>2, <2>2 DEF Submit
<1>3. ASSUME NEW r \in Requests, Find(r)
      PROVE  Faithful'
  <2>1. PICK place : Goto(r, place)
    BY <1>3, FindAlike DEF FindForCreate, FindMisses, FindUnreadable, FindForChange
  <2>2. call[r].op = "get" \/ at'[r] \notin {"200", "201"}
    <3>1. CASE FindForCreate(r)
      BY <3>1, CreateCodes, GotoMoves DEF FindForCreate, Asked
    <3>2. CASE FindMisses(r) \/ FindUnreadable(r)
      BY <3>2, GotoMoves DEF FindMisses, FindUnreadable, Asked, StatusOf
    <3>3. CASE FindForChange(r)
      <4>1. /\ at[r] # "idle" /\ call[r].op # "create"
            /\ Goto(r, Checked(call[r], subs[call[r].id]))
        BY <3>3 DEF FindForChange
      <4>2. QED
        BY <4>1, ChangeCodes, GotoMoves DEF Asked
    <3>4. QED
      BY <1>3, <3>1, <3>2, <3>3, FindAlike
  <2>3. /\ at[r] = "finding" /\ UNCHANGED <<call, applied, emitted>>
        /\ DOMAIN aggregate' = Requests
        /\ \A q \in Requests \ {r} : aggregate'[q] = aggregate[q]
    BY <1>3, FindAlike DEF FindForCreate, FindMisses, FindUnreadable, FindForChange, SendSave,
                Refuse
  <2>4. r \notin applied /\ \A q \in Requests \ {r} : at'[q] = at[q]
    BY <2>1, <2>3, GotoMoves DEF Progress, DonePlaces
  <2>5. QED
    BY <2>2, <2>3, <2>4 DEF Progress
<1>4. ASSUME NEW r \in Requests, Save(r)
      PROVE  Faithful'
  <2>1. /\ at' = at \/ (at[r] = "saving" /\ \E place \in {"saved", "500"} : Goto(r, place))
        /\ applied \subseteq applied' /\ UNCHANGED <<call, aggregate, emitted>>
    BY <1>4 DEF Save, SaveApplies, SaveCollides, StatusOf
  <2>2. QED
    BY <2>1, GotoMoves DEF Progress
<1>5. ASSUME NEW r \in Requests, Answer(r)
      PROVE  Faithful'
  <2>1. /\ UNCHANGED <<call, aggregate, applied>> /\ at[r] = "saved"
        /\ emitted' = emitted \cup {<<r, e>> : e \in {aggregate[r].event} \ {"none"}}
        /\ \A q \in Requests \ {r} : at'[q] = at[q]
    BY <1>5, GotoMoves DEF Answer, Progress
  <2>2. r \in applied
    BY <2>1 DEF Progress
  <2>3. QED
    BY <2>1, <2>2
<1>6. ASSUME NEW r \in Requests, DatabaseFails(r)
      PROVE  Faithful'
  BY <1>6, GotoMoves DEF DatabaseFails, Progress
<1>7. CASE Crash
  BY <1>7 DEF Crash, Progress
<1>8. QED
  BY <1>1, <1>2, <1>3, <1>4, <1>5, <1>6, <1>7 DEF Next

(* A 2xx answer is true whatever failed or raced meanwhile, and an event is  *)
(* handed out for an executed save only.                                    *)
THEOREM ConfirmationsAreTrue == Spec => []ConfirmedIsDone
<1>1. Init => Progress /\ Asked /\ Faithful
  BY InitProgress, InitAsked DEF Init, Faithful, ConfirmedIsDone
<1>2. Progress /\ Asked /\ Faithful /\ [Next]_vars => (Progress /\ Asked /\ Faithful)'
  BY NextProgress, NextAsked, NextFaithful
<1>3. Faithful => ConfirmedIsDone
  BY DEF Faithful
<1>4. QED
  BY <1>1, <1>2, <1>3, PTL DEF Spec
-----------------------------------------------------------------------------
(* Types. A request gets past a list of checks only if it fails none.       *)

LEMMA PassesAll ==
  ASSUME NEW checks, NEW otherwise, DOMAIN checks \subseteq Nat,
         FirstFailure(checks, otherwise) = otherwise,
         \A i \in DOMAIN checks : checks[i].code # otherwise
  PROVE  \A i \in DOMAIN checks : ~checks[i].fails
<1> DEFINE failing == {i \in DOMAIN checks : checks[i].fails}
<1>1. SUFFICES ASSUME failing # {}
               PROVE  FALSE
  OBVIOUS
<1>2. Min(failing) \in failing
  BY <1>1, MinIsMember
<1>3. FirstFailure(checks, otherwise) = checks[Min(failing)].code
  BY <1>1 DEF FirstFailure
<1>4. QED
  BY <1>2, <1>3

\* What guard, DTO and the first value objects let through.
Arrived(c) ==
  /\ c \in Calls /\ c.tenant \in Tenants /\ c.id # Invalid
  /\ Malformed \notin {c.url, c.types, c.status}
  /\ c.op = "create" => c.url \in Urls /\ c.types \in EventTypes \cup {Invalid}

LEMMA ArrivedCalls ==
  ASSUME NEW c \in Calls, OnArrival(c) = "finding"
  PROVE  Arrived(c)
<1> DEFINE checks == << Fails(Anonymous(c), "Unauthorized"), Fails(DtoRefuses(c), "BadRequest"),
                        Fails(c.op = "create" /\ c.url = Invalid, "InvalidTargetUrl"),
                        Fails(NotAUuid(c), "InvalidIdentifier") >>
<1>1. /\ DOMAIN checks = 1..4
      /\ \A i \in 1..4 : checks[i].code # "finding"
  BY DEF Fails, StatusOf
<1>2. \A i \in 1..4 : ~checks[i].fails
  <2>1. FirstFailure(checks, "finding") = "finding"
    BY DEF OnArrival
  <2> HIDE DEF checks
  <2>2. QED
    BY <1>1, <2>1, PassesAll
<1>3. /\ ~Anonymous(c) /\ ~DtoRefuses(c)
      /\ ~(c.op = "create" /\ c.url = Invalid) /\ ~NotAUuid(c)
  <2>1. ~Fails(Anonymous(c), "Unauthorized").fails
    BY <1>2
  <2>2. ~Fails(DtoRefuses(c), "BadRequest").fails
    BY <1>2
  <2>3. ~Fails(c.op = "create" /\ c.url = Invalid, "InvalidTargetUrl").fails
    BY <1>2
  <2>4. ~Fails(NotAUuid(c), "InvalidIdentifier").fails
    BY <1>2
  <2>5. QED
    BY <2>1, <2>2, <2>3, <2>4, Zenon DEF Fails
<1>4. QED
  BY <1>3, CallsAssumption DEF Arrived, Anonymous, DtoRefuses, NotAUuid, AnyCall, Marks

LEMMA CreatePasses ==
  ASSUME NEW c, CreateCheck(c) = "saving"
  PROVE  ~NotEventTypes(c)
<1> DEFINE checks ==
      << Fails(SameTarget(c.tenant, c.url) # {} /\ ~Readable(c.url), "InvalidTargetUrl"),
         Fails(SameTarget(c.tenant, c.url) # {}, "DuplicateSubscription"),
         Fails(NotEventTypes(c), "InvalidEventType") >>
<1>1. /\ DOMAIN checks = 1..3
      /\ \A i \in 1..3 : checks[i].code # "saving"
  BY DEF Fails, StatusOf
<1>2. \A i \in 1..3 : ~checks[i].fails
  <2>1. FirstFailure(checks, "saving") = "saving"
    BY DEF CreateCheck
  <2> HIDE DEF checks
  <2>2. QED
    BY <1>1, <2>1, PassesAll
<1>3. ~Fails(NotEventTypes(c), "InvalidEventType").fails
  BY <1>2
<1>4. QED
  BY <1>3, Zenon DEF Fails

LEMMA UpdatePasses ==
  ASSUME NEW c, NEW status, UpdateCheck(c, status) = "saving"
  PROVE  /\ c.url \notin {Null, Invalid} /\ c.types \notin {Null, Invalid}
         /\ c.status \notin {"DELETED", Null}
         /\ c.status = "ACTIVE" => status = "PAUSED"
         /\ c.status = "PAUSED" => status = "ACTIVE"
         /\ Immutable(status) => c.url = Omitted /\ c.types = Omitted
<1> DEFINE checks ==
      << Fails(c.url = Null, "TypeError"),
         Fails(c.url = Invalid, "InvalidTargetUrl"),
         Fails(c.url # Omitted /\ Immutable(status), "InvalidStatusTransition"),
         Fails(c.types = Null, "TypeError"),
         Fails(NotEventTypes(c), "InvalidEventType"),
         Fails(c.types # Omitted /\ Immutable(status), "InvalidStatusTransition"),
         Fails(c.status = "ACTIVE" /\ status # "PAUSED", "InvalidStatusTransition"),
         Fails(c.status = "PAUSED" /\ status # "ACTIVE", "InvalidStatusTransition"),
         Fails(c.status \in {"DELETED", Null}, "InvalidStatusTransition") >>
<1>1. /\ DOMAIN checks = 1..9
      /\ \A i \in 1..9 : checks[i].code # "saving"
  BY DEF Fails, StatusOf
<1>2. \A i \in 1..9 : ~checks[i].fails
  <2>1. FirstFailure(checks, "saving") = "saving"
    BY DEF UpdateCheck
  <2> HIDE DEF checks
  <2>2. QED
    BY <1>1, <2>1, PassesAll
<1>3. /\ ~Fails(c.url = Null, "TypeError").fails
      /\ ~Fails(c.url = Invalid, "InvalidTargetUrl").fails
  BY <1>2
<1>4. /\ ~Fails(c.types = Null, "TypeError").fails
      /\ ~Fails(NotEventTypes(c), "InvalidEventType").fails
  BY <1>2
<1>5. /\ ~Fails(c.status = "ACTIVE" /\ status # "PAUSED", "InvalidStatusTransition").fails
      /\ ~Fails(c.status = "PAUSED" /\ status # "ACTIVE", "InvalidStatusTransition").fails
      /\ ~Fails(c.status \in {"DELETED", Null}, "InvalidStatusTransition").fails
  BY <1>2
<1>6. /\ ~Fails(c.url # Omitted /\ Immutable(status), "InvalidStatusTransition").fails
      /\ ~Fails(c.types # Omitted /\ Immutable(status), "InvalidStatusTransition").fails
  BY <1>2
<1>7. QED
  BY <1>3, <1>4, <1>5, <1>6, Zenon DEF Fails, NotEventTypes

-----------------------------------------------------------------------------
(* Type correctness: what is in memory and in the collection is always a     *)
(* whole document, with no omitted, null or refused field in it.            *)

Loading == [id: Requests, doc: Document, base: Requests \cup {Absent}, event: Events]

Typed ==
  /\ TypeOK
  /\ \A r \in Requests : at[r] = "finding" => Arrived(call[r])
  /\ \A r \in inflight \cup applied : aggregate[r] \in Loading

LEMMA InitTyped == Init => Typed
BY LimitsAssumption DEF Init, Typed, TypeOK, Places

LEMMA CreatedTyped ==
  ASSUME NEW r \in Requests, NEW c, Arrived(c), c.op = "create", CreateCheck(c) = "saving"
  PROVE  Loaded(r, Created(r, c), Absent, "Created") \in Loading
<1>1. c.types \in EventTypes
  BY CreatePasses DEF Arrived, NotEventTypes
<1>2. Created(r, c) \in Document
  BY <1>1 DEF Created, Document, Arrived, Statuses
<1>3. QED
  BY <1>2 DEF Loaded, Loading, Events

LEMMA UpdatedTyped ==
  ASSUME NEW r \in Requests, NEW c, Arrived(c), NEW d \in Document,
         UpdateCheck(c, d.status) = "saving"
  PROVE  Updated(r, c, d) \in Document
<1>1. /\ c.url \in Urls \cup {Omitted} /\ c.types \in EventTypes \cup {Omitted}
      /\ c.status \in Statuses \cup {Omitted}
  BY UpdatePasses, CallsAssumption DEF Arrived, AnyCall, Marks
<1>2. /\ Given(c.url, d.url) \in Urls /\ Given(c.types, d.types) \in EventTypes
      /\ Given(c.status, d.status) \in Statuses
  BY <1>1 DEF Given, Document
<1> HIDE DEF Given
<1>3. QED
  BY <1>2 DEF Updated, Document

LEMMA ChangedTyped ==
  ASSUME Typed, NEW r \in Requests, FindForChange(r),
         Checked(call[r], subs[call[r].id]) = "saving"
  PROVE  aggregate'[r] \in Loading
<1> DEFINE c == call[r]
           d == subs[c.id]
           new == IF c.op = "update" THEN Updated(r, c, d) ELSE Deleted(r, d)
<1>1. /\ Arrived(c) /\ c.op \in {"update", "delete"}
      /\ c.id \in Requests /\ d \in Document
  <2>1. Arrived(c) /\ c.op # "create" /\ c.id \in Requests /\ d # Absent
    BY DEF FindForChange, Typed, Found
  <2>2. c.op # "get"
    BY DEF Checked
  <2>3. c.op \in Ops
    BY <2>1, CallsAssumption DEF Arrived, AnyCall
  <2>4. QED
    BY <2>1, <2>2, <2>3 DEF Typed, TypeOK, Ops
<1>2. new \in Document
  <2>1. CASE c.op = "update"
    BY <1>1, <2>1, UpdatedTyped DEF Checked
  <2>2. CASE c.op = "delete"
    BY <1>1, <2>2 DEF Deleted, Document, Statuses
  <2>3. QED
    BY <1>1, <2>1, <2>2
<1>3. Event(c, d) \in Events
  BY <1>1 DEF Event, Events
<1>4. aggregate'[r] = Loaded(c.id, new, d.by, Event(c, d))
  BY DEF FindForChange, SendSave, Typed, TypeOK
<1>5. d.by \in Requests
  BY <1>1 DEF Document
<1> HIDE DEF new, d, c
<1>6. QED
  BY <1>1, <1>2, <1>3, <1>4, <1>5 DEF Loaded, Loading

LEMMA FindTyped ==
  ASSUME Typed, Asked, NEW r \in Requests, Find(r)
  PROVE  Typed'
<1> USE DEF Typed, TypeOK
<1>1. ASSUME aggregate' = aggregate, inflight' = inflight,
             NEW place \in Codes, Goto(r, place)
      PROVE  Typed'
  BY <1>1, FindAlike DEF FindForCreate, FindMisses, FindUnreadable, FindForChange, Goto, Places,
              Codes
<1>2. ASSUME aggregate'[r] \in Loading, inflight' = inflight \cup {r},
             aggregate' = [aggregate EXCEPT ![r] = aggregate'[r]], Goto(r, "saving")
      PROVE  Typed'
  BY <1>2, FindAlike DEF FindForCreate, FindMisses, FindUnreadable, FindForChange, Goto, Places,
              Loading
<1>3. CASE FindForCreate(r)
  <2>1. CASE CreateCheck(call[r]) = "saving"
    BY <1>2, <1>3, <2>1, CreatedTyped DEF FindForCreate, SendSave
  <2>2. CASE CreateCheck(call[r]) # "saving"
    BY <1>1, <1>3, <2>2, CreateCodes DEF FindForCreate, Refuse, Codes
  <2>3. QED
    BY <2>1, <2>2
<1>4. CASE FindMisses(r) \/ FindUnreadable(r)
  BY <1>1, <1>4 DEF FindMisses, FindUnreadable, Refuse, Codes, StatusOf
<1>5. CASE FindForChange(r)
  <2> DEFINE place == Checked(call[r], subs[call[r].id])
  <2>1. CASE place = "saving"
    <3>1. aggregate'[r] \in Loading
      BY <1>5, <2>1, ChangedTyped
    <3>2. QED
      BY <1>2, <1>5, <2>1, <3>1 DEF FindForChange, SendSave
  <2>2. CASE place # "saving"
    <3>1. place \in Codes
      BY <1>5, <2>2, ChangeCodes DEF FindForChange, Codes
    <3>2. QED
      BY <1>1, <1>5, <2>2, <3>1 DEF FindForChange, Refuse
  <2>3. QED
    BY <2>1, <2>2
<1>6. QED
  BY <1>3, <1>4, <1>5, FindAlike

LEMMA NextTyped ==
  ASSUME Typed, Asked, Progress, [Next]_vars
  PROVE  Typed'
<1> USE DEF Typed, TypeOK
<1>1. CASE UNCHANGED vars \/ BuildIndex
  BY <1>1 DEF vars, BuildIndex, Arrived
<1>2. ASSUME NEW r \in Requests, Submit(r)
      PROVE  Typed'
  <2>1. PICK c \in Calls : call' = [call EXCEPT ![r] = c] /\ Goto(r, OnArrival(c))
    BY <1>2 DEF Submit
  <2>2. OnArrival(c) \in Places
    BY ArrivalCodes DEF Places, Codes
  <2>3. OnArrival(c) = "finding" => Arrived(c)
    BY ArrivedCalls
  <2>4. QED
    BY <1>2, <2>1, <2>2, <2>3 DEF Submit, Goto
<1>3. ASSUME NEW r \in Requests, Find(r)
      PROVE  Typed'
  BY <1>3, FindTyped
<1>4. ASSUME NEW r \in Requests, Save(r)
      PROVE  Typed'
  <2>1. r \in inflight /\ aggregate[r] \in Loading
    BY <1>4 DEF Save, SaveApplies, SaveCollides, StatusOf
  <2>2. subs' \in [Requests -> Document \cup {Absent}]
    BY <1>4, <2>1 DEF Save, SaveApplies, SaveCollides, Loading, StatusOf
  <2>3. at' = at \/ \E place \in {"saved", "500"} : Goto(r, place)
    BY <1>4 DEF Save, SaveApplies, SaveCollides, StatusOf
  <2>4. /\ at' \in [Requests -> Places]
        /\ \A q \in Requests : at'[q] = "finding" => at[q] = "finding"
    BY <2>3 DEF Goto, Places, Codes
  <2>5. QED
    BY <1>4, <2>1, <2>2, <2>4 DEF Save, SaveApplies, SaveCollides
<1>5. ASSUME NEW r \in Requests, Answer(r)
      PROVE  Typed'
  <2>1. {<<r, e>> : e \in {aggregate[r].event} \ {"none"}} \subseteq Requests \X Events
    <3>1. aggregate[r] \in Loading
      BY <1>5 DEF Answer, Progress
    <3>2. QED
      BY <3>1 DEF Loading
  <2>2. /\ at' \in [Requests -> Places]
        /\ \A q \in Requests : at'[q] = "finding" => at[q] = "finding"
    BY <1>5 DEF Answer, Goto, Places, Codes
  <2>3. QED
    BY <1>5, <2>1, <2>2 DEF Answer
<1>6. ASSUME NEW r \in Requests, DatabaseFails(r)
      PROVE  Typed'
  BY <1>6 DEF DatabaseFails, Fault, Goto, Places, Codes
<1>7. CASE Crash
  <2>1. /\ at' \in [Requests -> Places]
        /\ \A q \in Requests : at'[q] = "finding" => at[q] = "finding"
    BY <1>7 DEF Crash, Places
  <2>2. inflight' \subseteq inflight
    BY <1>7 DEF Crash
  <2>3. QED
    BY <1>7, <2>1, <2>2 DEF Crash, Fault
<1>8. QED
  BY <1>1, <1>2, <1>3, <1>4, <1>5, <1>6, <1>7 DEF Next

(* Every variable keeps its type, for any calls: no refused, null or omitted *)
(* field reaches an aggregate or the collection.                            *)
THEOREM TypeCorrect == Spec => []TypeOK
<1>1. Init => Progress /\ Asked /\ Typed
  BY InitProgress, InitAsked, InitTyped
<1>2. Progress /\ Asked /\ Typed /\ [Next]_vars => (Progress /\ Asked /\ Typed)'
  BY NextProgress, NextAsked, NextTyped
<1>3. Typed => TypeOK
  BY DEF Typed
<1>4. QED
  BY <1>1, <1>2, <1>3, PTL DEF Spec

-----------------------------------------------------------------------------
(* Whose a subscription is. A save under way is of its caller's tenant, and  *)
(* of a subscription that is new or that tenant's.                          *)

\* `create` and the other requests, before their save is executed.
Making(r) == call[r].op = "create" /\ aggregate[r].id = r /\ ~Stored(r)
Changing(r) == Stored(aggregate[r].id) /\ subs[aggregate[r].id].tenant = call[r].tenant

Owned ==
  /\ \A r \in inflight : /\ aggregate[r].doc.tenant = call[r].tenant
                         /\ aggregate[r].doc.by = r
                         /\ Making(r) \/ Changing(r)
  /\ \A id \in Requests : Stored(id) => /\ id \in applied /\ subs[id].by \in applied
                                       /\ call[subs[id].by].tenant = subs[id].tenant

Invariant == Progress /\ Asked /\ Typed /\ Owned

LEMMA NextInvariantTyped ==
  ASSUME Invariant, [Next]_vars
  PROVE  (Progress /\ Asked /\ Typed)'
BY NextProgress, NextAsked, NextTyped DEF Invariant

\* A step that writes nothing and sends no save.
LEMMA QuietOwned ==
  ASSUME Invariant, UNCHANGED <<subs, applied>>, inflight' \subseteq inflight,
         \A r \in inflight \cup applied : call'[r] = call[r] /\ aggregate'[r] = aggregate[r]
  PROVE  Owned'
BY DEF Invariant, Owned, Making, Changing, Stored

LEMMA FindOwned ==
  ASSUME Invariant, NEW r \in Requests, Find(r)
  PROVE  Owned'
<1> DEFINE c == call[r]
           d == subs[c.id]
<1>1. /\ at[r] = "finding" /\ UNCHANGED <<call, subs, applied>>
      /\ r \notin inflight /\ r \notin applied
  BY FindAlike DEF FindForCreate, FindMisses, FindUnreadable, FindForChange, Invariant,
         Progress, SavePlaces, DonePlaces
<1>2. CASE Refuse
  BY <1>1, <1>2, QuietOwned DEF Refuse
<1>3. ASSUME NEW loaded, SendSave(r, loaded), loaded.doc.tenant = c.tenant,
             loaded.doc.by = r,
             \/ c.op = "create" /\ loaded.id = r /\ ~Stored(r)
             \/ Stored(loaded.id) /\ subs[loaded.id].tenant = c.tenant
      PROVE  Owned'
  <2>1. /\ inflight' = inflight \cup {r} /\ aggregate'[r] = loaded
        /\ \A q \in Requests \ {r} : aggregate'[q] = aggregate[q]
    BY <1>3 DEF SendSave, Invariant, Typed, TypeOK
  <2>2. inflight \subseteq Requests
    BY DEF Invariant, Progress
  <2>3. QED
    BY <1>1, <1>3, <2>1, <2>2 DEF Invariant, Owned, Making, Changing, Stored
<1>4. CASE FindForCreate(r)
  <2>1. c.op = "create" /\ ~Stored(r)
    BY <1>1, <1>4 DEF FindForCreate, Invariant, Owned
  <2>2. CASE CreateCheck(c) = "saving"
    <3> DEFINE loaded == Loaded(r, Created(r, c), Absent, "Created")
    <3>1. SendSave(r, loaded)
      BY <1>4, <2>2 DEF FindForCreate
    <3>2. loaded.id = r /\ loaded.doc.tenant = c.tenant /\ loaded.doc.by = r
      BY DEF Loaded, Created
    <3> HIDE DEF loaded
    <3>3. QED
      BY <1>3, <2>1, <3>1, <3>2
  <2>3. QED
    BY <1>2, <1>4, <2>2 DEF FindForCreate
<1>5. CASE FindMisses(r) \/ FindUnreadable(r)
  BY <1>2, <1>5 DEF FindMisses, FindUnreadable
<1>6. CASE FindForChange(r)
  <2> DEFINE new == IF c.op = "update" THEN Updated(r, c, d) ELSE Deleted(r, d)
             loaded == Loaded(c.id, new, d.by, Event(c, d))
  <2>1. d \in Document /\ Stored(c.id) /\ d.tenant = c.tenant
    BY <1>6 DEF FindForChange, Found, Stored, Invariant, Typed, TypeOK
  <2>2. new.tenant = d.tenant /\ new.by = r
    BY <2>1 DEF Updated, Deleted, Document
  <2>3. CASE Checked(c, d) = "saving"
    <3>1. SendSave(r, loaded)
      BY <1>6, <2>3 DEF FindForChange
    <3>2. loaded.id = c.id /\ loaded.doc.tenant = c.tenant /\ loaded.doc.by = r
      BY <2>1, <2>2 DEF Loaded
    <3> HIDE DEF loaded
    <3>3. QED
      BY <1>3, <2>1, <3>1, <3>2
  <2>4. QED
    BY <1>2, <1>6, <2>3 DEF FindForChange
<1>7. QED
  BY <1>4, <1>5, <1>6, FindAlike

LEMMA SaveOwned ==
  ASSUME Invariant, NEW r \in Requests, SaveApplies(r)
  PROVE  Owned'
<1> DEFINE id == aggregate[r].id
           doc == aggregate[r].doc
<1>1. /\ id \in Requests /\ doc \in Document /\ doc # Absent
      /\ doc.tenant = call[r].tenant /\ doc.by = r /\ (Making(r) \/ Changing(r))
  BY AbsentAssumption DEF SaveApplies, Invariant, Typed, Owned, Loading
<1>2. /\ DOMAIN subs' = Requests /\ subs'[id] = doc
      /\ \A i \in Requests \ {id} : subs'[i] = subs[i]
      /\ inflight' = inflight \ {r} /\ applied' = applied \cup {r}
      /\ UNCHANGED <<call, aggregate>>
  BY <1>1 DEF SaveApplies, Invariant, Typed, TypeOK
<1>3. ASSUME NEW q \in inflight'
      PROVE  (Making(q) \/ Changing(q))'
  <2>1. q # r /\ aggregate[q].id \in Requests /\ (Making(q) \/ Changing(q))
    BY <1>2, <1>3 DEF Invariant, Typed, Owned, Loading
  <2>2. CASE Making(q)
    BY <1>1, <1>2, <2>1, <2>2 DEF Making, Changing, Stored
  <2>3. CASE Changing(q)
    BY <1>1, <1>2, <2>1, <2>3 DEF Making, Changing, Stored
  <2>4. QED
    BY <2>1, <2>2, <2>3
<1>4. ASSUME NEW i \in Requests, Stored(i)'
      PROVE  /\ i \in applied' /\ subs'[i].by \in applied'
             /\ call'[subs'[i].by].tenant = subs'[i].tenant
  <2>1. CASE i = id
    BY <1>1, <1>2, <2>1 DEF Making, Changing, Invariant, Owned
  <2>2. CASE i # id
    BY <1>2, <1>4, <2>2 DEF Invariant, Owned, Stored
  <2>3. QED
    BY <2>1, <2>2
<1>5. QED
  BY <1>2, <1>3, <1>4 DEF Invariant, Owned

LEMMA NextOwned ==
  ASSUME Invariant, [Next]_vars
  PROVE  Owned'
<1>1. \A r \in inflight \cup applied : r \in Requests /\ at[r] \notin {"idle", "finding"}
  BY DEF Invariant, Progress, SavePlaces, DonePlaces
<1>2. ASSUME NEW r \in Requests, Submit(r)
      PROVE  Owned'
  <2>1. \A q \in Requests \ {r} : call'[q] = call[q]
    BY <1>2 DEF Submit, Invariant, Asked
  <2>2. QED
    BY <1>1, <1>2, <2>1, QuietOwned DEF Submit
<1>3. ASSUME NEW r \in Requests, Find(r)
      PROVE  Owned'
  BY <1>3, FindOwned
<1>4. ASSUME NEW r \in Requests, SaveApplies(r)
      PROVE  Owned'
  BY <1>4, SaveOwned
<1>5. ASSUME NEW r \in Requests, SaveCollides(r) \/ Answer(r) \/ DatabaseFails(r)
      PROVE  Owned'
  BY <1>5, QuietOwned DEF SaveCollides, Answer, DatabaseFails
<1>6. CASE Crash
  BY <1>6, QuietOwned DEF Crash
<1>7. CASE UNCHANGED vars \/ BuildIndex
  BY <1>7, QuietOwned DEF vars, BuildIndex
<1>8. QED
  BY <1>2, <1>3, <1>4, <1>5, <1>6, <1>7 DEF Next, Save

LEMMA InvariantHolds == Spec => []Invariant
<1>1. Init => Invariant
  BY InitProgress, InitAsked, InitTyped DEF Init, Invariant, Owned, Stored
<1>2. Invariant /\ [Next]_vars => Invariant'
  BY NextInvariantTyped, NextOwned DEF Invariant
<1>3. QED
  BY <1>1, <1>2, PTL DEF Spec

\* The state part of the theorem below.
LEMMA StaysOwned ==
  ASSUME Invariant, [Next]_vars, NEW id \in Requests, Stored(id)
  PROVE  /\ subs'[id] # Absent
         /\ subs'[id].tenant = subs[id].tenant
         /\ call[subs'[id].by].tenant = subs[id].tenant
<1>1. CASE subs' = subs
  BY <1>1 DEF Invariant, Owned, Stored
<1>2. ASSUME NEW r \in Requests, SaveApplies(r)
      PROVE  /\ subs'[id] # Absent
             /\ subs'[id].tenant = subs[id].tenant
             /\ call[subs'[id].by].tenant = subs[id].tenant
  <2>1. CASE id = aggregate[r].id
    <3>1. /\ aggregate[r].doc # Absent /\ aggregate[r].doc.tenant = call[r].tenant
          /\ aggregate[r].doc.by = r /\ Changing(r)
      BY <1>2, <2>1, AbsentAssumption
      DEF SaveApplies, Invariant, Typed, Owned, Loading, Making
    <3>2. subs'[id] = aggregate[r].doc
      BY <1>2, <2>1 DEF SaveApplies, Invariant, Typed, TypeOK
    <3>3. QED
      BY <2>1, <3>1, <3>2 DEF Changing
  <2>2. CASE id # aggregate[r].id
    <3>1. subs'[id] = subs[id]
      BY <1>2, <2>2 DEF SaveApplies, Invariant, Typed, TypeOK
    <3>2. QED
      BY <3>1 DEF Invariant, Owned, Stored
  <2>3. QED
    BY <2>1, <2>2
<1>3. QED
  BY <1>1, <1>2, OnlySavesWrite

(* Tenants are isolated: whatever races, a stored subscription stays, stays  *)
(* its tenant's, and holds what a request of that tenant wrote.             *)
THEOREM TenantsAreIsolated == Spec => StaysItsTenants
<1>1. Invariant /\ [Next]_vars =>
        [\A id \in Requests : Stored(id) =>
           /\ subs'[id] # Absent
           /\ subs'[id].tenant = subs[id].tenant
           /\ call[subs'[id].by].tenant = subs[id].tenant]_vars
  BY StaysOwned
<1>2. QED
  BY <1>1, InvariantHolds, PTL DEF Spec, StaysItsTenants

-----------------------------------------------------------------------------
(* DELETE.                                                                  *)

\* A client names subscriptions that are stored; a DELETE refused for not finding its
\* subscription named another tenant's.
Located ==
  \A r \in Requests :
    /\ at[r] # "idle" /\ call[r].id \in Requests => Stored(call[r].id)
    /\ at[r] \in {"404", "409"} /\ call[r].op = "delete" =>
         call[r].id \in Requests /\ subs[call[r].id].tenant # call[r].tenant

LEMMA NextLocated ==
  ASSUME Invariant, Located, [Next]_vars
  PROVE  Located'
<1>1. \A id \in Requests : Stored(id) => Stored(id)' /\ subs'[id].tenant = subs[id].tenant
  BY StaysOwned DEF Stored
<1>2. ASSUME NEW r \in Requests, Submit(r)
      PROVE  Located'
  <2>1. PICK c \in Calls : /\ c.id \in Requests => Stored(c.id)
                           /\ call' = [call EXCEPT ![r] = c] /\ Goto(r, OnArrival(c))
    BY <1>2 DEF Submit, Stored
  <2>2. QED
    BY <1>1, <2>1, ArrivalCodes, GotoMoves DEF Invariant, Asked, Located
<1>3. ASSUME NEW r \in Requests, Find(r)
      PROVE  Located'
  <2>1. \A q \in Requests : at'[q] # "idle" => at[q] # "idle"
    BY <1>3, GotoMoves, FindAlike DEF FindForCreate, FindMisses, FindUnreadable, FindForChange,
       Invariant, Asked
  <2>2. ASSUME at'[r] \in {"404", "409"}, call[r].op = "delete"
        PROVE  call[r].id \in Requests /\ subs[call[r].id].tenant # call[r].tenant
    <3>1. Arrived(call[r]) /\ at[r] = "finding"
      BY <1>3, FindAlike DEF FindForCreate, FindMisses, FindUnreadable, FindForChange, Invariant,
                  Typed
    <3>2. call[r].id \in Requests
      BY <2>2, <3>1, CallsAssumption DEF Arrived, AnyCall
    <3>3. Stored(call[r].id)
      BY <3>1, <3>2 DEF Located
    <3>4. ~FindUnreadable(r)
      BY <2>2, GotoMoves DEF FindUnreadable, Invariant, Asked, StatusOf
    <3>5. ~FindForChange(r)
      BY <2>2, GotoMoves DEF FindForChange, Checked, Invariant, Asked
    <3>6. FindMisses(r)
      BY <1>3, <2>2, <3>4, <3>5, FindAlike DEF FindForCreate
    <3>7. QED
      BY <3>2, <3>3, <3>6 DEF FindMisses, Found, Stored
  <2>3. /\ call' = call /\ subs' = subs
        /\ \A q \in Requests \ {r} : at'[q] = at[q]
    BY <1>3, GotoMoves, FindAlike DEF FindForCreate, FindMisses, FindUnreadable, FindForChange,
       Invariant, Asked
  <2>4. QED
    BY <2>1, <2>2, <2>3 DEF Located, Stored
<1>4. ASSUME UNCHANGED call, \A q \in Requests :
               at'[q] = at[q] \/ (at[q] # "idle" /\ at'[q] \notin {"404", "409"})
      PROVE  Located'
  BY <1>1, <1>4 DEF Located
<1>5. ASSUME NEW r \in Requests, Save(r) \/ Answer(r) \/ DatabaseFails(r)
      PROVE  Located'
  BY <1>4, <1>5, GotoMoves DEF Save, SaveApplies, SaveCollides, Answer, DatabaseFails, StatusOf,
     Invariant, Asked
<1>6. CASE Crash
  BY <1>4, <1>6 DEF Crash, InProgress
<1>7. CASE UNCHANGED vars \/ BuildIndex
  BY <1>4, <1>7 DEF vars, BuildIndex
<1>8. QED
  BY <1>2, <1>3, <1>5, <1>6, <1>7 DEF Next

(* DELETE can be repeated: a tenant's own subscription is found by it however *)
(* often it was deleted before, and whatever races; a DELETE answered 404    *)
(* named a subscription of another tenant.                                   *)
THEOREM DeleteIsRepeatable == Spec => []DeleteFindsItsOwn
<1>1. Init => Located
  BY DEF Init, Located
<1>2. Invariant /\ Located /\ [Next]_vars => Located'
  BY NextLocated
<1>3. Located => DeleteFindsItsOwn
  BY DEF Located, DeleteFindsItsOwn
<1>4. QED
  BY <1>1, <1>2, <1>3, InvariantHolds, PTL DEF Spec

-----------------------------------------------------------------------------
(* Saves of what was read. A version is the request that wrote it, so that a *)
(* document with the version a save started from is the document it read.   *)

Legal(r, new, d) ==
  /\ new.status \in Lifecycle!Successors(d.status) \/ new.status = d.status
  /\ new.url = d.url \/ call[r].url # Omitted
  /\ new.types = d.types \/ call[r].types # Omitted

Current(r) == Stored(aggregate[r].id) /\ subs[aggregate[r].id].by = aggregate[r].base

Fresh ==
  /\ inflight \cap applied = {}
  /\ \A r \in inflight :
       /\ aggregate[r].base \in applied \/ Making(r)
       /\ Current(r) => Legal(r, aggregate[r].doc, subs[aggregate[r].id])

LEMMA UpdatedLegal ==
  ASSUME NEW r \in Requests, Arrived(call[r]), NEW d \in Document,
         UpdateCheck(call[r], d.status) = "saving"
  PROVE  Legal(r, Updated(r, call[r], d), d)
<1> DEFINE c == call[r]
<1>1. Updated(r, c, d).status = Given(c.status, d.status)
  BY DEF Updated, Document
<1>2. Updated(r, c, d).url = Given(c.url, d.url)
      /\ Updated(r, c, d).types = Given(c.types, d.types)
  BY DEF Updated, Document
<1>3. c.status \in {"ACTIVE", "PAUSED", Omitted}
  BY UpdatePasses, CallsAssumption DEF Arrived, AnyCall, Marks, Statuses
<1>4. \/ Given(c.status, d.status) \in Lifecycle!Successors(d.status)
      \/ Given(c.status, d.status) = d.status
  <2>1. "ACTIVE" \in Lifecycle!Successors("PAUSED") /\ "PAUSED" \in Lifecycle!Successors("ACTIVE")
    BY DEF Lifecycle!Successors
  <2>2. QED
    BY <1>3, <2>1, UpdatePasses DEF Given
<1>5. QED
  BY <1>1, <1>2, <1>4 DEF Legal, Given

LEMMA DeletedLegal ==
  ASSUME NEW r \in Requests, NEW d \in Document
  PROVE  Legal(r, Deleted(r, d), d)
<1>1. /\ Deleted(r, d).status = "DELETED"
      /\ Deleted(r, d).url = d.url /\ Deleted(r, d).types = d.types
  BY DEF Deleted, Document
<1>2. "DELETED" \in Lifecycle!Successors("ACTIVE") /\ "DELETED" \in Lifecycle!Successors("PAUSED")
  BY DEF Lifecycle!Successors
<1>3. d.status \in {"ACTIVE", "PAUSED", "DELETED"}
  BY DEF Document, Statuses
<1>4. QED
  BY <1>1, <1>2, <1>3 DEF Legal

\* A step that writes nothing and sends no save.
LEMMA QuietFresh ==
  ASSUME Fresh, UNCHANGED <<subs, applied>>, inflight' \subseteq inflight,
         \A r \in inflight : call'[r] = call[r] /\ aggregate'[r] = aggregate[r]
  PROVE  Fresh'
BY DEF Fresh, Making, Current, Legal, Stored

LEMMA FindFresh ==
  ASSUME Invariant, Fresh, NEW r \in Requests, Find(r)
  PROVE  Fresh'
<1> DEFINE c == call[r]
           d == subs[c.id]
<1>1. /\ at[r] = "finding" /\ UNCHANGED <<call, subs, applied>>
      /\ r \notin inflight /\ r \notin applied
  BY FindAlike DEF FindForCreate, FindMisses, FindUnreadable, FindForChange, Invariant,
         Progress, SavePlaces, DonePlaces
<1>2. CASE Refuse
  BY <1>1, <1>2, QuietFresh DEF Refuse
<1>3. ASSUME NEW loaded, SendSave(r, loaded),
             \/ c.op = "create" /\ loaded.id = r /\ ~Stored(r)
             \/ loaded.base \in applied /\ Legal(r, loaded.doc, subs[loaded.id])
      PROVE  Fresh'
  <2>1. /\ inflight' = inflight \cup {r} /\ aggregate'[r] = loaded
        /\ \A q \in Requests \ {r} : aggregate'[q] = aggregate[q]
    BY <1>3 DEF SendSave, Invariant, Typed, TypeOK
  <2>2. inflight \subseteq Requests
    BY DEF Invariant, Progress
  <2>3. ASSUME NEW q \in inflight
        PROVE  /\ (aggregate[q].base \in applied \/ Making(q))'
               /\ (Current(q) => Legal(q, aggregate[q].doc, subs[aggregate[q].id]))'
    <3>1. aggregate'[q] = aggregate[q]
      BY <1>1, <2>1, <2>2, <2>3
    <3>2. QED
      BY <1>1, <3>1 DEF Fresh, Making, Current, Legal, Stored
  <2>4. (aggregate[r].base \in applied \/ Making(r))'
    BY <1>1, <1>3, <2>1 DEF Making, Stored
  <2>5. (Current(r) => Legal(r, aggregate[r].doc, subs[aggregate[r].id]))'
    BY <1>1, <1>3, <2>1 DEF Current, Legal, Stored
  <2>6. QED
    BY <1>1, <2>1, <2>3, <2>4, <2>5 DEF Fresh
<1>4. CASE FindForCreate(r)
  <2> DEFINE loaded == Loaded(r, Created(r, c), Absent, "Created")
  <2>1. c.op = "create" /\ ~Stored(r)
    BY <1>1, <1>4 DEF FindForCreate, Invariant, Owned
  <2>2. SendSave(r, loaded) \/ Refuse
    BY <1>4 DEF FindForCreate
  <2>3. loaded.id = r
    BY DEF Loaded
  <2> HIDE DEF loaded
  <2>4. QED
    BY <1>2, <1>3, <2>1, <2>2, <2>3
<1>5. CASE FindMisses(r) \/ FindUnreadable(r)
  BY <1>2, <1>5 DEF FindMisses, FindUnreadable
<1>6. CASE FindForChange(r)
  <2> DEFINE new == IF c.op = "update" THEN Updated(r, c, d) ELSE Deleted(r, d)
             loaded == Loaded(c.id, new, d.by, Event(c, d))
  <2>1. d \in Document /\ Stored(c.id) /\ c.id \in Requests /\ Arrived(c)
    BY <1>6 DEF FindForChange, Found, Stored, Invariant, Typed, TypeOK
  <2>2. CASE Checked(c, d) = "saving"
    <3>1. SendSave(r, loaded)
      BY <1>6, <2>2 DEF FindForChange
    <3>2. d.by \in applied
      BY <2>1 DEF Invariant, Owned
    <3>3. Legal(r, new, d)
      <4>1. CASE c.op = "update"
        <5>1. UpdateCheck(c, d.status) = "saving"
          BY <2>2, <4>1 DEF Checked
        <5>2. QED
          BY <2>1, <4>1, <5>1, UpdatedLegal
      <4>2. CASE c.op # "update"
        BY <2>1, <4>2, DeletedLegal
      <4>3. QED
        BY <4>1, <4>2
    <3>4. loaded.id = c.id /\ loaded.base = d.by /\ loaded.doc = new
      BY DEF Loaded
    <3> HIDE DEF loaded, new
    <3>5. QED
      BY <1>3, <3>1, <3>2, <3>3, <3>4
  <2>3. QED
    BY <1>2, <1>6, <2>2 DEF FindForChange
<1>7. QED
  BY <1>4, <1>5, <1>6, FindAlike

LEMMA SaveFresh ==
  ASSUME Invariant, Fresh, NEW r \in Requests, SaveApplies(r)
  PROVE  Fresh'
<1> DEFINE id == aggregate[r].id
           doc == aggregate[r].doc
<1>1. /\ r \in inflight /\ id \in Requests /\ doc.by = r
      /\ Making(r) \/ Changing(r)
  BY DEF SaveApplies, Invariant, Typed, Owned, Loading
<1>2. /\ DOMAIN subs' = Requests /\ subs'[id] = doc
      /\ \A i \in Requests \ {id} : subs'[i] = subs[i]
      /\ inflight' = inflight \ {r} /\ applied' = applied \cup {r}
      /\ UNCHANGED <<call, aggregate>>
  BY <1>1 DEF SaveApplies, Invariant, Typed, TypeOK
<1>3. ASSUME NEW q \in inflight'
      PROVE  /\ (aggregate[q].base \in applied \/ Making(q))'
             /\ (Current(q) => Legal(q, aggregate[q].doc, subs[aggregate[q].id]))'
  <2>1. /\ q # r /\ q \in inflight /\ aggregate[q].id \in Requests
        /\ aggregate[q].base \in applied \/ Making(q)
    BY <1>2, <1>3 DEF Invariant, Typed, Loading, Fresh
  <2>2. CASE Making(q)
    <3>1. id # aggregate[q].id
      BY <1>1, <2>1, <2>2 DEF Making, Changing
    <3>2. Making(q)'
      BY <1>2, <2>1, <2>2, <3>1 DEF Making, Stored
    <3>3. ~Current(q)'
      BY <3>2 DEF Making, Current
    <3>4. QED
      BY <3>2, <3>3
  <2>3. CASE aggregate[q].base \in applied
    <3>1. aggregate[q].base # r
      BY <1>1, <2>3 DEF Fresh
    <3>2. CASE aggregate[q].id = id
      BY <1>1, <1>2, <2>3, <3>1, <3>2 DEF Current
    <3>3. CASE aggregate[q].id # id
      BY <1>2, <2>1, <2>3, <3>3 DEF Fresh, Current, Legal, Stored
    <3>4. QED
      BY <3>2, <3>3
  <2>4. QED
    BY <2>1, <2>2, <2>3
<1>4. QED
  BY <1>1, <1>2, <1>3 DEF Fresh

LEMMA NextFresh ==
  ASSUME Invariant, Fresh, [Next]_vars
  PROVE  Fresh'
<1>1. \A r \in inflight : r \in Requests /\ at[r] \notin {"idle", "finding"}
  BY DEF Invariant, Progress, SavePlaces
<1>2. ASSUME NEW r \in Requests, Submit(r)
      PROVE  Fresh'
  <2>1. \A q \in Requests \ {r} : call'[q] = call[q]
    BY <1>2 DEF Submit, Invariant, Asked
  <2>2. QED
    BY <1>1, <1>2, <2>1, QuietFresh DEF Submit
<1>3. ASSUME NEW r \in Requests, SaveCollides(r) \/ Answer(r) \/ DatabaseFails(r)
      PROVE  Fresh'
  BY <1>3, QuietFresh DEF SaveCollides, Answer, DatabaseFails
<1>4. CASE Crash \/ BuildIndex \/ UNCHANGED vars
  BY <1>4, QuietFresh DEF Crash, BuildIndex, vars
<1>5. QED
  BY <1>2, <1>3, <1>4, FindFresh, SaveFresh DEF Next, Save

LEMMA FreshSave ==
  ASSUME Invariant, Fresh, [Next]_vars, NEW id \in Requests, Stored(id), subs'[id] # subs[id]
  PROVE  Stale(subs'[id].by, id) \/ Legal(subs'[id].by, subs'[id], subs[id])
<1>1. PICK r \in Requests : SaveApplies(r)
  BY OnlySavesWrite
<1>2. id = aggregate[r].id /\ subs'[id] = aggregate[r].doc
  BY <1>1 DEF SaveApplies, Invariant, Typed, TypeOK
<1>3. r \in inflight /\ subs'[id].by = r
  BY <1>1, <1>2 DEF SaveApplies, Invariant, Owned
<1>4. QED
  BY <1>2, <1>3 DEF Fresh, Current, Stale

(* Between requests, things go wrong through stale saves only: one that finds *)
(* the version it read moves the status along the documented diagram and     *)
(* changes no field its body left out.                                       *)
THEOREM FreshSavesAreLegal == Spec => FreshSaveIsLegal
<1>1. Init => Fresh
  BY DEF Init, Fresh
<1>2. Invariant /\ Fresh /\ [Next]_vars => Fresh'
  BY NextFresh
<1>3. Invariant /\ Fresh /\ [Next]_vars =>
        [\A id \in Requests : Stored(id) /\ subs'[id] # subs[id] =>
           LET w == subs'[id].by IN
           \/ Stale(w, id)
           \/ /\ \/ subs'[id].status \in Lifecycle!Successors(subs[id].status)
                 \/ subs'[id].status = subs[id].status
              /\ subs'[id].url = subs[id].url \/ call[w].url # Omitted
              /\ subs'[id].types = subs[id].types \/ call[w].types # Omitted]_vars
  BY FreshSave DEF Legal
<1>4. QED
  BY <1>1, <1>2, <1>3, InvariantHolds, PTL DEF Spec, FreshSaveIsLegal
=============================================================================
