---------------------------- MODULE IngestionProofs ----------------------------
(***************************************************************************)
(* What TLAPS proves of module Ingestion for every set of messages and     *)
(* workers and every number of faults.                                     *)
(***************************************************************************)
EXTENDS Ingestion, TLAPS

USE MessagesAssumption, IndexAssumption, FaultsAssumption DEF Accepted

(* Every variable keeps its type; in particular only accepted events get an *)
(* upsert or a document, and the broker holds published messages only.      *)
Typed == TypeOK /\ \A o \in ops : KeyOf[o.msg] # Rejected

LEMMA CloseChannelType ==
  ASSUME TypeOK, NEW w \in Workers, NEW state \in {"down", "open", "stalled"},
         CloseChannel(w, state)
  PROVE  /\ link' \in [Workers -> {"down", "open", "stalled"}]
         /\ unacked' \in [Workers -> SUBSET [tag: Nat \ {0}, msg: published]]
         /\ ready' \subseteq published
BY DEF TypeOK, CloseChannel

LEMMA InitTyped == Init => Typed
BY DEF Init, Typed, TypeOK, FaultKinds

LEMMA DeliverEventTyped ==
  ASSUME Typed, NEW w \in Workers, NEW m \in Messages, DeliverEvent(w, m)
  PROVE  Typed'
<1> DEFINE d == [w |-> w, inc |-> inc[w], tag |-> nextTag[w]]
<1>1. d \in Delivery
  BY DEF Typed, TypeOK, Delivery
<1>2. m \in published
  BY DEF Typed, TypeOK, DeliverEvent, CanDeliver
<1>3. handlers' \subseteq [d: Delivery, msg: published', step: Step]
  BY <1>1, <1>2 DEF Typed, TypeOK, DeliverEvent, Step
<1>4. ops' \subseteq [d: Delivery, msg: published', at: {"lookup", "insert"}]
  BY <1>1, <1>2 DEF Typed, TypeOK, DeliverEvent
<1>5. unacked' \in [Workers -> SUBSET [tag: Nat \ {0}, msg: published']]
  BY <1>2 DEF Typed, TypeOK, DeliverEvent
<1>6. \A o \in ops' : KeyOf[o.msg] # Rejected
  BY DEF Typed, DeliverEvent
<1>7. /\ nextTag' \in [Workers -> Nat \ {0}]
      /\ ready' \subseteq published'
  BY DEF Typed, TypeOK, DeliverEvent
<1> HIDE DEF d
<1> QED
  BY <1>3, <1>4, <1>5, <1>6, <1>7 DEF Typed, TypeOK, DeliverEvent

LEMMA UpsertTyped ==
  ASSUME Typed, NEW o \in ops, Upsert(o)
  PROVE  Typed'
<1> USE DEF Typed, TypeOK
<1>1. /\ o \in [d: Delivery, msg: published, at: {"lookup", "insert"}]
      /\ KeyOf[o.msg] \in Keys
      /\ o.msg \in Messages
  OBVIOUS
<1>2. ASSUME NEW step \in Step, Reply(o, step)
      PROVE  handlers' \subseteq [d: Delivery, msg: published, step: Step]
  BY <1>2 DEF Reply
<1>3. CASE UpsertMatches(o)
  BY <1>2, <1>3 DEF Upsert, UpsertMatches, brokerVars, Step
<1>4. CASE UpsertMisses(o)
  BY <1>1, <1>4 DEF Upsert, UpsertMisses, brokerVars
<1>5. CASE UpsertInserts(o)
  BY <1>1, <1>2, <1>5 DEF Upsert, UpsertInserts, brokerVars, Step, Document
<1>6. CASE UpsertCollides(o)
  <2>1. handlers' \subseteq [d: Delivery, msg: published, step: Step]
    BY <1>2, <1>6 DEF UpsertCollides, Step
  <2>2. QED
    BY <1>1, <1>6, <2>1 DEF Upsert, UpsertCollides, brokerVars
<1>7. QED
  BY <1>3, <1>4, <1>5, <1>6 DEF Upsert

LEMMA SettleTyped ==
  ASSUME Typed, NEW w \in Workers, NEW h \in handlers, Settle(w, h)
  PROVE  Typed'
<1> USE DEF Typed, TypeOK
<1>1. handlers' \subseteq handlers /\ UNCHANGED <<published, lost, inc, nextTag, mongoVars, faults>>
  BY DEF Settle
<1>2. CASE SettleOnChannel(w, h)
  <2>1. PICK u \in unacked[w] : /\ unacked' = [unacked EXCEPT ![w] = @ \ {u}]
                                /\ settled' = settled \cup {Settled(w, h, u)}
    BY <1>2 DEF SettleOnChannel
  <2>2. Settled(w, h, u) \in [msg: published, by: published,
                             how: Step \cup {"rejected"}, stale: BOOLEAN]
    BY DEF Settled
  <2>3. QED
    BY <1>1, <1>2, <2>1, <2>2 DEF SettleOnChannel, mongoVars
<1>3. CASE SettleUnknownTag(w, h)
  BY <1>1, <1>3, CloseChannelType DEF SettleUnknownTag, mongoVars
<1>4. CASE SettleWithoutChannel(w)
  BY <1>1, <1>4 DEF SettleWithoutChannel, mongoVars
<1>5. QED
  BY <1>2, <1>3, <1>4 DEF Settle

LEMMA ProcessEndsTyped ==
  ASSUME Typed, NEW w \in Workers, ProcessEnds(w), faults' \in Nat
  PROVE  Typed'
BY CloseChannelType DEF Typed, TypeOK, ProcessEnds, mongoVars

LEMMA FaultTyped == ASSUME Typed, NEW k, Fault(k) PROVE faults' \in Nat
BY DEF Typed, TypeOK, Fault

LEMMA WorkerStepTyped ==
  ASSUME Typed, NEW w \in Workers, WorkerStep(w)
  PROVE  Typed'
<1>1. CASE Start(w)
  BY <1>1 DEF Start, Typed, TypeOK, brokerVars, mongoVars
<1>2. CASE Connect(w)
  BY <1>2 DEF Connect, Typed, TypeOK, brokerVars, mongoVars
<1>3. ASSUME NEW m \in Messages, DeliverRejected(w, m)
      PROVE  Typed'
  <2>1. m \in published
    BY <1>3 DEF DeliverRejected, CanDeliver, Typed, TypeOK
  <2>2. [msg |-> m, by |-> m, how |-> "rejected", stale |-> FALSE]
          \in [msg: published, by: published, how: Step \cup {"rejected"},
              stale: BOOLEAN]
    BY <2>1
  <2>3. nextTag' \in [Workers -> Nat \ {0}]
    BY <1>3 DEF DeliverRejected, Typed, TypeOK
  <2>4. QED
    BY <1>3, <2>2, <2>3 DEF DeliverRejected, Typed, TypeOK, mongoVars
<1>4. CASE Closed(w)
  BY <1>4, CloseChannelType DEF Closed, Typed, TypeOK, mongoVars
<1>5. CASE Exit(w)
  BY <1>5, ProcessEndsTyped DEF Exit, Typed, TypeOK
<1>6. QED
  BY <1>1, <1>2, <1>3, <1>4, <1>5, DeliverEventTyped, SettleTyped
  DEF WorkerStep

LEMMA FaultStepTyped ==
  ASSUME Typed, FaultStep
  PROVE  Typed'
<1>1. CASE BrokerRestart
  <2>1. \A m : OnBroker(m) => m \in published
    BY DEF Typed, TypeOK, OnBroker
  <2>2. ready' \subseteq published /\ lost' \subseteq published
    BY <1>1, <2>1 DEF BrokerRestart, Typed, TypeOK
  <2>3. QED
    BY <1>1, <2>2, FaultTyped DEF BrokerRestart, Typed, TypeOK, mongoVars
<1>2. ASSUME NEW w \in Workers, ConnectionLost(w)
      PROVE  Typed'
  BY <1>2, FaultTyped, CloseChannelType DEF ConnectionLost, Typed, TypeOK, mongoVars
<1>3. ASSUME NEW w \in Workers, Stop(w)
      PROVE  Typed'
  BY <1>3, FaultTyped DEF Stop, Typed, TypeOK, brokerVars, mongoVars
<1>4. ASSUME NEW w \in Workers, Crash(w)
      PROVE  Typed'
  BY <1>4, FaultTyped, ProcessEndsTyped DEF Crash
<1>5. ASSUME NEW h \in handlers, PersistFails(h)
      PROVE  Typed'
  <2>1. handlers' \subseteq [d: Delivery, msg: published, step: Step]
    BY <1>5 DEF PersistFails, Typed, TypeOK, Step
  <2>2. ops' \subseteq ops
    BY <1>5 DEF PersistFails
  <2>3. QED
    BY <1>5, <2>1, <2>2, FaultTyped DEF PersistFails, Typed, TypeOK, brokerVars
<1>6. QED
  BY <1>1, <1>2, <1>3, <1>4, <1>5 DEF FaultStep

LEMMA NextTyped == Typed /\ [Next]_vars => Typed'
<1> SUFFICES ASSUME Typed, [Next]_vars
             PROVE  Typed'
  OBVIOUS
<1>1. ASSUME NEW m \in Messages, Publish(m)
      PROVE  Typed'
  BY <1>1 DEF Publish, Typed, TypeOK, workerVars, mongoVars, Document
<1>2. CASE BuildIndex
  BY <1>2 DEF BuildIndex, Typed, TypeOK, brokerVars, workerVars
<1>3. CASE UNCHANGED vars
  BY <1>3 DEF Typed, TypeOK, vars, brokerVars, workerVars, mongoVars
<1>4. QED
  BY <1>1, <1>2, <1>3, WorkerStepTyped, UpsertTyped, FaultStepTyped DEF Next

THEOREM TypeCorrect == Spec => []TypeOK
<1>1. Typed => TypeOK
  BY DEF Typed
<1>2. QED
  BY <1>1, InitTyped, NextTyped, PTL DEF Spec

-----------------------------------------------------------------------------
(* Most steps only end handlers, upserts and deliveries, and documents are  *)
(* never removed: they cannot disturb the bookkeeping.                      *)
Ends ==
  /\ handlers' \subseteq handlers /\ ops' \subseteq ops
  /\ \A w \in Workers : unacked'[w] \subseteq unacked[w]
  /\ inbox \subseteq inbox'
  /\ UNCHANGED <<inc, nextTag>>
  /\ HeldOnlyWhenOpen'

LEMMA EndsKeepsBookkeeping ==
  ASSUME Typed, Bookkeeping, Ends
  PROVE  Bookkeeping'
<1> USE DEF Bookkeeping, Ends
<1>1. Truthful'
  BY DEF Truthful, RecordedMessage, Recorded
<1>2. DeliveriesPast'
  BY DEF DeliveriesPast, Past
<1>3. OpsOwned'
  BY DEF OpsOwned
<1>4. TagsOwned'
  <2>1. \A h \in handlers : h.d.w \in Workers
    BY DEF Typed, TypeOK, Delivery
  <2>2. QED
    BY <2>1 DEF TagsOwned
<1>5. QED
  BY <1>1, <1>2, <1>3, <1>4

LEMMA CloseChannelEnds ==
  ASSUME Typed, Bookkeeping, NEW w \in Workers, NEW state \in {"down", "stalled"},
         CloseChannel(w, state)
  PROVE  /\ HeldOnlyWhenOpen'
         /\ \A v \in Workers : unacked'[v] \subseteq unacked[v]
BY DEF Typed, TypeOK, Bookkeeping, CloseChannel, HeldOnlyWhenOpen

LEMMA ProcessEndsEnds ==
  ASSUME Typed, Bookkeeping, NEW w \in Workers, ProcessEnds(w)
  PROVE  Ends
BY CloseChannelEnds DEF ProcessEnds, Ends, mongoVars

LEMMA SettleEnds ==
  ASSUME Typed, Bookkeeping, NEW w \in Workers, NEW h \in handlers, Settle(w, h)
  PROVE  Ends
<1>1. handlers' \subseteq handlers /\ UNCHANGED <<ops, inbox, inc, nextTag>>
  BY DEF Settle, mongoVars
<1>2. CASE SettleOnChannel(w, h)
  <2>1. \A v \in Workers : unacked'[v] \subseteq unacked[v]
    BY <1>2 DEF SettleOnChannel, Typed, TypeOK
  <2>2. HeldOnlyWhenOpen'
    BY <1>2, <2>1 DEF SettleOnChannel, Bookkeeping, HeldOnlyWhenOpen
  <2>3. QED
    BY <1>1, <2>1, <2>2 DEF Ends
<1>3. CASE SettleUnknownTag(w, h)
  BY <1>1, <1>3, CloseChannelEnds DEF SettleUnknownTag, Ends
<1>4. CASE SettleWithoutChannel(w)
  BY <1>1, <1>4 DEF SettleWithoutChannel, Ends, Bookkeeping, HeldOnlyWhenOpen
<1>5. QED
  BY <1>2, <1>3, <1>4 DEF Settle

\* A reconnection starts tags over: the handlers of the old channel are past,
\* for their channel number is below the new one.
LEMMA ConnectBookkeeping ==
  ASSUME Typed, Bookkeeping, NEW w \in Workers, Connect(w)
  PROVE  Bookkeeping'
<1> USE DEF Connect, Bookkeeping
<1>1. UNCHANGED <<handlers, ops, inbox, unacked>> /\ unacked[w] = {}
  BY DEF mongoVars, HeldOnlyWhenOpen
<1>2. \A v \in Workers : /\ inc[v] \in Nat
                         /\ inc'[v] = IF v = w THEN inc[v] + 1 ELSE inc[v]
                         /\ v # w => nextTag'[v] = nextTag[v]
  BY DEF Typed, TypeOK
<1>3. \A h \in handlers : h.d \in Delivery
  BY DEF Typed, TypeOK
<1>4. \A o \in ops : o.d \in Delivery
  BY DEF Typed, TypeOK
<1>5. ASSUME NEW d \in Delivery, Past(d)
      PROVE  Past(d)' /\ (d.inc = inc'[d.w] => d.w # w)
  BY <1>2, <1>5 DEF Past, Delivery
<1>6. DeliveriesPast'
  <2>1. \A v \in Workers : \A u \in unacked'[v] : u.tag < nextTag'[v]
    BY <1>1, <1>2 DEF DeliveriesPast
  <2>2. QED
    BY <1>1, <1>3, <1>4, <1>5, <2>1 DEF DeliveriesPast
<1>7. TagsOwned'
  <2> SUFFICES ASSUME NEW h \in handlers, NEW u \in unacked[h.d.w],
                      h.d.inc = inc'[h.d.w], u.tag = h.d.tag
               PROVE  u.msg = h.msg
    BY <1>1 DEF TagsOwned
  <2>1. h.d.w \in Workers /\ h.d.w # w
    BY <1>3, <1>5 DEF DeliveriesPast, Delivery
  <2>2. QED
    BY <1>2, <2>1 DEF TagsOwned
<1>8. QED
  BY <1>1, <1>6, <1>7 DEF Truthful, RecordedMessage, Recorded, OpsOwned,
                          HeldOnlyWhenOpen, Typed, TypeOK

\* The delivery is new: its tag is above those in use on the channel.
LEMMA DeliverRejectedBookkeeping ==
  ASSUME Typed, Bookkeeping, NEW w \in Workers, NEW m, DeliverRejected(w, m)
  PROVE  Bookkeeping'
<1> USE DEF DeliverRejected, Bookkeeping
<1>1. UNCHANGED <<handlers, ops, inbox, unacked, inc, link>>
  BY DEF mongoVars
<1>2. \A v \in Workers : /\ nextTag[v] \in Nat
                         /\ nextTag'[v] = IF v = w THEN nextTag[v] + 1 ELSE nextTag[v]
  BY DEF Typed, TypeOK
<1>3. ASSUME NEW d \in Delivery, Past(d)
      PROVE  Past(d)'
  BY <1>1, <1>2, <1>3 DEF Past, Delivery
<1>4. \A v \in Workers : \A u \in unacked[v] : u.tag \in Nat
  BY DEF Typed, TypeOK
<1>5. DeliveriesPast'
  <2>1. \A h \in handlers : h.d \in Delivery
    BY DEF Typed, TypeOK
  <2>2. \A o \in ops : o.d \in Delivery
    BY DEF Typed, TypeOK
  <2>3. \A v \in Workers : \A u \in unacked'[v] : u.tag < nextTag'[v]
    BY <1>1, <1>2, <1>4 DEF DeliveriesPast
  <2>4. QED
    BY <1>1, <1>3, <2>1, <2>2, <2>3 DEF DeliveriesPast
<1>6. QED
  BY <1>1, <1>5 DEF Truthful, RecordedMessage, Recorded, OpsOwned, TagsOwned,
                    HeldOnlyWhenOpen

LEMMA DeliverEventBookkeeping ==
  ASSUME Typed, Bookkeeping, NEW w \in Workers, NEW m \in Messages,
         DeliverEvent(w, m)
  PROVE  Bookkeeping'
<1> USE DEF Bookkeeping
<1>a. PICK d \in Delivery : d.w = w /\ d.inc = inc[w] /\ d.tag = nextTag[w]
                           /\ d = [w |-> w, inc |-> inc[w], tag |-> nextTag[w]]
  BY DEF Delivery, Typed, TypeOK
<1>b. PICK new : new = [d |-> d, msg |-> m, step |-> "await"]
  OBVIOUS
<1>c. PICK op : op = [d |-> d, msg |-> m, at |-> "lookup"]
  OBVIOUS
<1>d. PICK held : held = [tag |-> nextTag[w], msg |-> m]
  OBVIOUS
<1>1. /\ handlers' = handlers \cup {new} /\ ops' = ops \cup {op}
      /\ KeyOf[m] # Rejected /\ link[w] = "open"
      /\ UNCHANGED <<inbox, inc, link>>
  BY <1>a, <1>b, <1>c DEF DeliverEvent, CanDeliver
<1>2. \A v \in Workers : unacked'[v] = IF v = w THEN unacked[v] \cup {held}
                                                ELSE unacked[v]
  BY <1>d DEF DeliverEvent, Typed, TypeOK
<1>n. \A v \in Workers : /\ nextTag[v] \in Nat
                         /\ nextTag'[v] = IF v = w THEN nextTag[v] + 1 ELSE nextTag[v]
  BY DEF DeliverEvent, Typed, TypeOK
<1>3. /\ \A h \in handlers : h.d \in Delivery /\ h.d.w \in Workers
      /\ \A o \in ops : o.d \in Delivery
      /\ \A v \in Workers : \A u \in unacked[v] : u.tag \in Nat
  BY DEF Typed, TypeOK, Delivery
<1>4. /\ d.w = w /\ d.inc = inc[w] /\ d.tag = nextTag[w]
      /\ new.d = d /\ new.msg = m /\ new.step = "await"
      /\ op.d = d /\ op.msg = m
      /\ held.tag = nextTag[w] /\ held.msg = m
  BY <1>a, <1>b, <1>c, <1>d
<1>5. ASSUME NEW e \in Delivery, Past(e)
      PROVE  Past(e)' /\ e # d
  <2>1. e.w \in Workers /\ e.inc \in Nat /\ e.tag \in Nat
    BY DEF Delivery
  <2>2. Past(e)'
    BY <1>1, <1>n, <1>5, <2>1 DEF Past
  <2>3. e # d
    BY <1>n, <1>4, <1>5, <2>1 DEF Past
  <2>4. QED
    BY <2>2, <2>3
<1>6. Past(d)'
  <2>1. inc[w] \in Nat
    BY DEF Typed, TypeOK
  <2>2. QED
    BY <1>1, <1>n, <1>4, <2>1 DEF Past
<1>7. Truthful'
  BY <1>1, <1>4 DEF Truthful, RecordedMessage, Recorded
<1>8. DeliveriesPast'
  <2>1. \A v \in Workers : \A u \in unacked'[v] : u.tag < nextTag'[v]
    <3> SUFFICES ASSUME NEW v \in Workers, NEW u \in unacked'[v]
                 PROVE  u.tag < nextTag'[v]
      OBVIOUS
    <3>1. CASE u \in unacked[v]
      BY <1>n, <1>3, <3>1 DEF DeliveriesPast
    <3>2. CASE v = w /\ u = held
      BY <1>n, <1>4, <3>2
    <3>3. QED
      BY <1>2, <3>1, <3>2
  <2>2. \A h \in handlers' : Past(h.d)'
    BY <1>1, <1>3, <1>4, <1>5, <1>6 DEF DeliveriesPast
  <2>3. \A o \in ops' : Past(o.d)' /\ KeyOf[o.msg] # Rejected
    BY <1>1, <1>3, <1>4, <1>5, <1>6 DEF DeliveriesPast
  <2>4. QED
    BY <2>1, <2>2, <2>3 DEF DeliveriesPast
<1>9. OpsOwned'
  <2>1. /\ \A h \in handlers : h.d # d
        /\ \A o \in ops : o.d # d
    BY <1>3, <1>5 DEF DeliveriesPast
  <2>2. QED
    BY <1>1, <1>4, <2>1 DEF OpsOwned
<1>10. TagsOwned'
  <2> SUFFICES ASSUME NEW h \in handlers', NEW u \in unacked'[h.d.w],
                      h.d.inc = inc[h.d.w], u.tag = h.d.tag
               PROVE  u.msg = h.msg
    BY <1>1 DEF TagsOwned
  <2>1. CASE h = new /\ u = held
    BY <1>4, <2>1
  <2>2. CASE h \in handlers /\ u \in unacked[h.d.w]
    BY <2>2 DEF TagsOwned
  <2>3. CASE h = new /\ u \in unacked[w]
    <3>1. u.tag < nextTag[w] /\ u.tag \in Nat
      BY <1>3, <2>3 DEF DeliveriesPast
    <3>2. u.tag = nextTag[w]
      BY <1>4, <2>3
    <3>3. QED
      BY <1>n, <3>1, <3>2
  <2>4. CASE h \in handlers /\ h.d.w = w /\ u = held
    <3>1. Past(h.d) /\ h.d.tag \in Nat
      BY <1>3, <2>4 DEF DeliveriesPast, Delivery
    <3>2. h.d.tag < nextTag[w] /\ h.d.tag = nextTag[w]
      BY <1>4, <2>4, <3>1 DEF Past
    <3>3. QED
      BY <1>n, <3>1, <3>2
  <2>5. h \in handlers \/ h = new
    BY <1>1
  <2>6. h.d.w \in Workers /\ (h = new => h.d.w = w)
    BY <1>3, <1>4, <2>5
  <2>7. u \in unacked[h.d.w] \/ (h.d.w = w /\ u = held)
    BY <1>2, <2>6
  <2>8. QED
    BY <2>1, <2>2, <2>3, <2>4, <2>5, <2>6, <2>7
<1>11. HeldOnlyWhenOpen'
  BY <1>1, <1>2 DEF HeldOnlyWhenOpen
<1>12. QED
  BY <1>7, <1>8, <1>9, <1>10, <1>11

\* An answer changes the step of handlers that share the upsert's delivery.
LEMMA ReplyKeeps ==
  ASSUME Typed, Bookkeeping, NEW o \in ops, NEW step \in Step, Reply(o, step)
  PROVE  \A g \in handlers' : \E h \in handlers :
           /\ g.d = h.d /\ g.msg = h.msg
           /\ g.step = h.step \/ (g.step = step /\ g.msg = o.msg)
BY DEF Reply, Bookkeeping, OpsOwned, Typed, TypeOK

LEMMA UpsertBookkeeping ==
  ASSUME Typed, Bookkeeping, NEW o \in ops, Upsert(o)
  PROVE  Bookkeeping'
<1> USE DEF Bookkeeping
<1>1. UNCHANGED <<unacked, inc, nextTag, link>>
  BY DEF Upsert
<1>2. inbox \subseteq inbox'
  BY DEF Upsert, UpsertMatches, UpsertMisses, UpsertInserts, UpsertCollides
<1>3. \A p \in ops' : \E q \in ops : p.d = q.d /\ p.msg = q.msg
  BY DEF Upsert, UpsertMatches, UpsertMisses, UpsertInserts, UpsertCollides,
         Typed, TypeOK
<1>4. \A g \in handlers' : \E h \in handlers :
        /\ g.d = h.d /\ g.msg = h.msg
        /\ g.step = h.step \/ (g.msg = o.msg /\ RecordedMessage(o.msg)')
  <2>1. CASE UpsertMatches(o)
    BY <1>2, <2>1, ReplyKeeps DEF UpsertMatches, Step, RecordedMessage, Recorded
  <2>2. CASE UpsertMisses(o)
    BY <2>2 DEF UpsertMisses
  <2>3. CASE UpsertInserts(o)
    <3>1. [key |-> KeyOf[o.msg], msg |-> o.msg, by |-> o.d] \in inbox'
      BY <2>3 DEF UpsertInserts
    <3>2. RecordedMessage(o.msg)'
      BY <3>1 DEF RecordedMessage, Recorded
    <3>3. QED
      BY <2>3, <3>2, ReplyKeeps DEF UpsertInserts, Step
  <2>4. CASE UpsertCollides(o)
    BY <1>2, <2>4, ReplyKeeps DEF UpsertCollides, Step, RecordedMessage, Recorded
  <2>5. QED
    BY <2>1, <2>2, <2>3, <2>4 DEF Upsert
<1>5. Truthful'
  BY <1>2, <1>4 DEF Truthful, RecordedMessage, Recorded
<1>6. DeliveriesPast'
  BY <1>1, <1>3, <1>4 DEF DeliveriesPast, Past
<1>7. OpsOwned'
  BY <1>3, <1>4 DEF OpsOwned
<1>8. TagsOwned'
  BY <1>1, <1>4 DEF TagsOwned
<1>9. QED
  BY <1>1, <1>5, <1>6, <1>7, <1>8 DEF HeldOnlyWhenOpen

LEMMA PersistFailsBookkeeping ==
  ASSUME Typed, Bookkeeping, NEW h \in handlers, PersistFails(h)
  PROVE  Bookkeeping'
<1> USE DEF Bookkeeping
<1>1. ops' \subseteq ops /\ UNCHANGED <<inbox, unacked, inc, nextTag, link>>
  BY DEF PersistFails
<1>2. \A g \in handlers' : \E k \in handlers :
        g.d = k.d /\ g.msg = k.msg /\ (g.step = k.step \/ g.step = "failed")
  BY DEF PersistFails, Typed, TypeOK
<1>3. Truthful'
  BY <1>1, <1>2 DEF Truthful, RecordedMessage, Recorded
<1>4. QED
  BY <1>1, <1>2, <1>3 DEF DeliveriesPast, Past, OpsOwned, TagsOwned, HeldOnlyWhenOpen

LEMMA InitBookkeeping == Init => Bookkeeping
BY DEF Init, Bookkeeping, Truthful, DeliveriesPast, OpsOwned, TagsOwned,
       HeldOnlyWhenOpen

LEMMA NextBookkeeping == Typed /\ Bookkeeping /\ [Next]_vars => Bookkeeping'
<1> SUFFICES ASSUME Typed, Bookkeeping, [Next]_vars
             PROVE  Bookkeeping'
  OBVIOUS
<1> USE EndsKeepsBookkeeping
<1>1. ASSUME NEW m \in Messages, Publish(m)
      PROVE  Ends
  BY <1>1 DEF Publish, Ends, workerVars, mongoVars, Bookkeeping, HeldOnlyWhenOpen
<1>2. ASSUME NEW w \in Workers, WorkerStep(w)
      PROVE  Bookkeeping'
  <2>1. CASE Start(w)
    BY <2>1 DEF Start, Ends, mongoVars, Bookkeeping, HeldOnlyWhenOpen
  <2>2. CASE Closed(w)
    BY <2>2, CloseChannelEnds DEF Closed, Ends, mongoVars
  <2>3. CASE Exit(w)
    BY <2>3, ProcessEndsEnds DEF Exit
  <2>4. QED
    BY <1>2, <2>1, <2>2, <2>3, SettleEnds, ConnectBookkeeping,
       DeliverRejectedBookkeeping, DeliverEventBookkeeping DEF WorkerStep
<1>3. CASE BuildIndex
  BY <1>3 DEF BuildIndex, Ends, workerVars, Bookkeeping, HeldOnlyWhenOpen
<1>4. CASE FaultStep
  <2>1. CASE BrokerRestart
    BY <2>1 DEF BrokerRestart, Ends, mongoVars, HeldOnlyWhenOpen
  <2>2. ASSUME NEW w \in Workers, ConnectionLost(w)
        PROVE  Bookkeeping'
    BY <2>2, CloseChannelEnds DEF ConnectionLost, Ends, mongoVars
  <2>3. ASSUME NEW w \in Workers, Stop(w)
        PROVE  Bookkeeping'
    BY <2>3 DEF Stop, Ends, mongoVars, Bookkeeping, HeldOnlyWhenOpen
  <2>4. ASSUME NEW w \in Workers, Crash(w)
        PROVE  Bookkeeping'
    BY <2>4, ProcessEndsEnds DEF Crash
  <2>5. QED
    BY <1>4, <2>1, <2>2, <2>3, <2>4, PersistFailsBookkeeping DEF FaultStep
<1>5. CASE UNCHANGED vars
  BY <1>5 DEF vars, brokerVars, workerVars, mongoVars, Ends, Bookkeeping,
              HeldOnlyWhenOpen
<1>6. QED
  BY <1>1, <1>2, <1>3, <1>4, <1>5, UpsertBookkeeping DEF Next

(* What the code knows about a delivery stays right across every            *)
(* reconnection, crash and late answer.                                     *)
THEOREM BookkeepingHolds == Spec => []Bookkeeping
<1>1. Init => Typed /\ Bookkeeping
  BY InitTyped, InitBookkeeping
<1>2. Typed /\ Bookkeeping /\ [Next]_vars => (Typed /\ Bookkeeping)'
  BY NextTyped, NextBookkeeping
<1>3. QED
  BY <1>1, <1>2, PTL DEF Spec

-----------------------------------------------------------------------------
(* A step that keeps every unrecorded, unexcused event on the broker keeps  *)
(* OnlyKnownLosses.                                                         *)
Keeps(m) == OnBroker(m) => OnBroker(m)' \/ RecordedMessage(m)' \/ Excused(m)'

Grows == /\ inbox \subseteq inbox' /\ settled \subseteq settled' /\ lost \subseteq lost'

LEMMA KeepsLosses ==
  ASSUME OnlyKnownLosses, Grows, UNCHANGED published,
         \A m \in published : KeyOf[m] # Rejected => Keeps(m)
  PROVE  OnlyKnownLosses'
<1>1. \A m : RecordedMessage(m) => RecordedMessage(m)'
  BY DEF Grows, RecordedMessage, Recorded
<1>2. \A m : Excused(m) => Excused(m)'
  BY DEF Grows, Excused
<1>3. QED
  BY <1>1, <1>2 DEF OnlyKnownLosses, Keeps

LEMMA CloseChannelKeeps ==
  ASSUME Typed, NEW w \in Workers, NEW state, CloseChannel(w, state)
  PROVE  \A m : OnBroker(m) => OnBroker(m)'
BY DEF Typed, TypeOK, CloseChannel, OnBroker

LEMMA ProcessEndsKeeps ==
  ASSUME Typed, OnlyKnownLosses, NEW w \in Workers, ProcessEnds(w)
  PROVE  OnlyKnownLosses' /\ UNCHANGED settled
<1>1. Grows /\ UNCHANGED <<published, settled>>
  BY DEF ProcessEnds, Grows, mongoVars
<1>2. QED
  BY <1>1, CloseChannelKeeps, KeepsLosses DEF ProcessEnds, Keeps

\* The only step that takes an accepted event off the broker on purpose.
LEMMA SettleOnChannelKeeps ==
  ASSUME Typed, Bookkeeping, NEW w \in Workers, NEW h \in handlers,
         Settle(w, h), SettleOnChannel(w, h), OwnMessageSettled
  PROVE  OwnMessageSettled' /\ \A m \in published : Keeps(m)
<1>1. PICK u \in unacked[w] : /\ u.tag = h.d.tag
                              /\ unacked' = [unacked EXCEPT ![w] = @ \ {u}]
                              /\ settled' = settled \cup {Settled(w, h, u)}
  BY DEF SettleOnChannel
<1>2. /\ h.d.w = w /\ h.step # "await" /\ h.step \in Step
      /\ UNCHANGED <<ready, inbox>>
  BY DEF Settle, SettleOnChannel, mongoVars, Typed, TypeOK
<1>3. PICK s \in settled' : s = Settled(w, h, u)
  BY <1>1
<1>4. /\ s.msg = u.msg /\ s.by = h.msg /\ s.how = h.step
      /\ s.stale <=> h.d.inc # inc[w]
  BY <1>3 DEF Settled
<1>5. ~s.stale => u.msg = h.msg
  BY <1>1, <1>2, <1>4 DEF Bookkeeping, TagsOwned
<1>6. OwnMessageSettled'
  <2>1. \A t \in settled' : t \in settled \/ t = s
    BY <1>1, <1>3
  <2>2. QED
    BY <1>4, <1>5, <2>1 DEF OwnMessageSettled
<1>7. Excused(u.msg)' \/ RecordedMessage(u.msg)'
  <2>1. CASE s.stale \/ s.how = "failed"
    BY <1>4, <2>1 DEF Excused
  <2>2. CASE ~s.stale /\ s.how # "failed"
    <3>1. h.step \in {"inserted", "existing", "duplicateKey"} /\ u.msg = h.msg
      BY <1>2, <1>4, <1>5, <2>2 DEF Step
    <3>2. RecordedMessage(u.msg)
      BY <3>1 DEF Bookkeeping, Truthful
    <3>3. QED
      BY <1>2, <3>2 DEF RecordedMessage, Recorded
  <2>3. QED
    BY <2>1, <2>2
<1>8. ASSUME NEW m \in published, OnBroker(m), m # u.msg
      PROVE  OnBroker(m)'
  <2>1. CASE m \in ready
    BY <1>2, <2>1 DEF OnBroker
  <2>2. ASSUME NEW v \in Workers, NEW t \in unacked[v], t.msg = m
        PROVE  OnBroker(m)'
    <3>1. t \in unacked'[v]
      BY <1>1, <1>8, <2>2 DEF Typed, TypeOK
    <3>2. QED
      BY <2>2, <3>1 DEF OnBroker
  <2>3. QED
    BY <1>8, <2>1, <2>2 DEF OnBroker
<1>9. QED
  BY <1>6, <1>7, <1>8 DEF Keeps

Safe == OnlyKnownLosses /\ OwnMessageSettled

LEMMA SettleSafe ==
  ASSUME Typed, Bookkeeping, Safe, NEW w \in Workers, NEW h \in handlers,
         Settle(w, h)
  PROVE  Safe'
<1>1. UNCHANGED <<published, inbox, lost>>
  BY DEF Settle, mongoVars
<1>2. CASE SettleOnChannel(w, h)
  <2>1. Grows
    BY <1>1, <1>2 DEF SettleOnChannel, Grows
  <2>2. QED
    BY <1>1, <1>2, <2>1, SettleOnChannelKeeps, KeepsLosses DEF Safe
<1>3. CASE SettleUnknownTag(w, h)
  <2>1. Grows /\ UNCHANGED settled
    BY <1>1, <1>3 DEF SettleUnknownTag, Grows
  <2>2. \A m : Keeps(m)
    BY <1>3, CloseChannelKeeps DEF SettleUnknownTag, Keeps
  <2>3. QED
    BY <1>1, <2>1, <2>2, KeepsLosses DEF Safe, OwnMessageSettled
<1>4. CASE SettleWithoutChannel(w)
  <2>1. Grows /\ UNCHANGED <<settled, ready, unacked>>
    BY <1>1, <1>4 DEF SettleWithoutChannel, Grows
  <2>2. \A m : Keeps(m)
    BY <2>1 DEF Keeps, OnBroker
  <2>3. QED
    BY <1>1, <2>1, <2>2, KeepsLosses DEF Safe, OwnMessageSettled
<1>5. QED
  BY <1>2, <1>3, <1>4 DEF Settle

LEMMA DeliverSafe ==
  ASSUME Typed, Safe, NEW w \in Workers, NEW m \in Messages,
         DeliverRejected(w, m) \/ DeliverEvent(w, m)
  PROVE  Safe'
<1>1. Grows /\ UNCHANGED published
  BY DEF DeliverRejected, DeliverEvent, Grows, mongoVars
<1>2. CASE DeliverRejected(w, m)
  <2>1. \A k \in published : KeyOf[k] # Rejected => Keeps(k)
    BY <1>2 DEF DeliverRejected, Keeps, OnBroker
  <2>2. OwnMessageSettled'
    BY <1>2 DEF DeliverRejected, Safe, OwnMessageSettled
  <2>3. QED
    BY <1>1, <2>1, <2>2, KeepsLosses DEF Safe
<1>3. CASE DeliverEvent(w, m)
  <2>1. ASSUME NEW k, OnBroker(k)
        PROVE  OnBroker(k)'
    <3>1. CASE k = m
      <4>1. [tag |-> nextTag[w], msg |-> m] \in unacked'[w]
        BY <1>3 DEF DeliverEvent, Typed, TypeOK
      <4>2. QED
        BY <3>1, <4>1 DEF OnBroker
    <3>2. CASE k # m /\ k \in ready
      BY <1>3, <3>2 DEF DeliverEvent, OnBroker
    <3>3. ASSUME NEW v \in Workers, NEW u \in unacked[v], u.msg = k
          PROVE  OnBroker(k)'
      <4>1. u \in unacked'[v]
        BY <1>3, <3>3 DEF DeliverEvent, Typed, TypeOK
      <4>2. QED
        BY <3>3, <4>1 DEF OnBroker
    <3>4. QED
      BY <2>1, <3>1, <3>2, <3>3 DEF OnBroker
  <2>2. UNCHANGED settled
    BY <1>3 DEF DeliverEvent
  <2>3. QED
    BY <1>1, <2>1, <2>2, KeepsLosses DEF Safe, OwnMessageSettled, Keeps
<1>4. QED
  BY <1>2, <1>3

\* Everything else leaves the queue alone or only moves messages back to it.
LEMMA QuietSafe ==
  ASSUME Safe, Grows, UNCHANGED <<published, settled>>,
         \A m : OnBroker(m) => OnBroker(m)'
  PROVE  Safe'
BY KeepsLosses DEF Safe, OwnMessageSettled, Keeps

LEMMA WorkerStepSafe ==
  ASSUME Typed, Bookkeeping, Safe, NEW w \in Workers, WorkerStep(w)
  PROVE  Safe'
<1>1. CASE Start(w)
  BY <1>1, QuietSafe DEF Start, Grows, brokerVars, mongoVars, OnBroker
<1>2. CASE Connect(w)
  BY <1>2, QuietSafe DEF Connect, Grows, brokerVars, mongoVars, OnBroker
<1>3. CASE Closed(w)
  BY <1>3, CloseChannelKeeps, QuietSafe DEF Closed, Grows, mongoVars
<1>4. CASE Exit(w)
  BY <1>4, ProcessEndsKeeps DEF Exit, Safe, OwnMessageSettled
<1>5. QED
  BY <1>1, <1>2, <1>3, <1>4, DeliverSafe, SettleSafe DEF WorkerStep

LEMMA UpsertSafe ==
  ASSUME Safe, NEW o \in ops, Upsert(o)
  PROVE  Safe'
<1>1. inbox \subseteq inbox'
  BY DEF Upsert, UpsertMatches, UpsertMisses, UpsertInserts, UpsertCollides
<1>2. QED
  BY <1>1, QuietSafe DEF Upsert, Grows, brokerVars, OnBroker

LEMMA FaultStepSafe ==
  ASSUME Typed, Safe, FaultStep
  PROVE  Safe'
<1>1. CASE BrokerRestart
  <2>1. Grows /\ UNCHANGED <<published, settled>>
    BY <1>1 DEF BrokerRestart, Grows, mongoVars
  <2>2. \A m \in published : Keeps(m)
    <3> SUFFICES ASSUME NEW m \in published, OnBroker(m)
                 PROVE  OnBroker(m)' \/ Excused(m)'
      BY DEF Keeps
    <3>1. CASE m \in Durable
      BY <1>1, <3>1 DEF BrokerRestart, OnBroker
    <3>2. CASE m \notin Durable
      BY <1>1, <3>2 DEF BrokerRestart, Excused
    <3>3. QED
      BY <3>1, <3>2
  <2>3. QED
    BY <2>1, <2>2, KeepsLosses DEF Safe, OwnMessageSettled
<1>2. ASSUME NEW w \in Workers, ConnectionLost(w)
      PROVE  Safe'
  BY <1>2, CloseChannelKeeps, QuietSafe DEF ConnectionLost, Grows, mongoVars
<1>3. ASSUME NEW w \in Workers, Stop(w)
      PROVE  Safe'
  BY <1>3, QuietSafe DEF Stop, Grows, brokerVars, mongoVars, OnBroker
<1>4. ASSUME NEW w \in Workers, Crash(w)
      PROVE  Safe'
  BY <1>4, ProcessEndsKeeps DEF Crash, Safe, OwnMessageSettled
<1>5. ASSUME NEW h \in handlers, PersistFails(h)
      PROVE  Safe'
  BY <1>5, QuietSafe DEF PersistFails, Grows, brokerVars, OnBroker
<1>6. QED
  BY <1>1, <1>2, <1>3, <1>4, <1>5 DEF FaultStep

LEMMA NextSafe == Typed /\ Bookkeeping /\ Safe /\ [Next]_vars => Safe'
<1> SUFFICES ASSUME Typed, Bookkeeping, Safe, [Next]_vars
             PROVE  Safe'
  OBVIOUS
<1>1. ASSUME NEW m \in Messages, Publish(m)
      PROVE  Safe'
  <2>1. \A k : RecordedMessage(k) => RecordedMessage(k)'
    BY <1>1 DEF Publish, mongoVars, RecordedMessage, Recorded
  <2>2. \A k : OnBroker(k) \/ k = m => OnBroker(k)'
    BY <1>1 DEF Publish, workerVars, OnBroker
  <2>3. \A k : Excused(k) => Excused(k)'
    BY <1>1 DEF Publish, Excused
  <2>4. published' = published \cup {m} /\ UNCHANGED settled
    BY <1>1 DEF Publish
  <2>5. QED
    BY <2>1, <2>2, <2>3, <2>4 DEF Safe, OnlyKnownLosses, OwnMessageSettled
<1>2. CASE BuildIndex
  BY <1>2, QuietSafe DEF BuildIndex, Grows, brokerVars, workerVars, OnBroker
<1>3. CASE UNCHANGED vars
  BY <1>3, QuietSafe DEF vars, Grows, brokerVars, workerVars, mongoVars, OnBroker
<1>4. QED
  BY <1>1, <1>2, <1>3, WorkerStepSafe, UpsertSafe, FaultStepSafe DEF Next

LEMMA SafeHolds == Spec => [](OnlyKnownLosses /\ OwnMessageSettled)
<1>1. Init => Typed /\ Bookkeeping /\ Safe
  BY InitTyped, InitBookkeeping
  DEF Init, Safe, OnlyKnownLosses, OwnMessageSettled
<1>2. Typed /\ Bookkeeping /\ Safe /\ [Next]_vars
        => (Typed /\ Bookkeeping /\ Safe)'
  BY NextTyped, NextBookkeeping, NextSafe
<1>3. Safe => OnlyKnownLosses /\ OwnMessageSettled
  BY DEF Safe
<1>4. QED
  BY <1>1, <1>2, <1>3, PTL DEF Spec

(* Whatever the workers, the faults and the interleaving, an accepted event *)
(* leaves the broker unrecorded only by a failed upsert nacked without      *)
(* requeue, by a settlement that carries another channel's tag, or by a     *)
(* broker restart that drops a transient message.                           *)
THEOREM NoUnknownLoss == Spec => []OnlyKnownLosses
BY SafeHolds, PTL

(* On the channel that delivered its message, a handler settles that        *)
(* message.                                                                 *)
THEOREM SettlesItsOwn == Spec => []OwnMessageSettled
BY SafeHolds, PTL

-----------------------------------------------------------------------------
(* The inbox.                                                               *)

\* Only an upsert writes, and it adds at most the one document of its event.
LEMMA InboxSteps ==
  ASSUME [Next]_vars
  PROVE  \/ UNCHANGED <<inbox, indexed>>
         \/ BuildIndex
         \/ \E o \in ops : UpsertInserts(o)
<1>1. ASSUME NEW o \in ops, Upsert(o)
      PROVE  UNCHANGED <<inbox, indexed>> \/ UpsertInserts(o)
  BY <1>1 DEF Upsert, UpsertMatches, UpsertMisses, UpsertCollides
<1>2. ASSUME NEW w \in Workers, WorkerStep(w)
      PROVE  UNCHANGED <<inbox, indexed>>
  BY <1>2 DEF WorkerStep, Start, Connect, DeliverRejected, DeliverEvent, Settle,
              Closed, Exit, ProcessEnds, mongoVars
<1>3. ASSUME FaultStep
      PROVE  UNCHANGED <<inbox, indexed>>
  BY <1>3 DEF FaultStep, BrokerRestart, ConnectionLost, Stop, Crash, ProcessEnds,
              PersistFails, mongoVars
<1>4. ASSUME NEW m \in Messages, Publish(m)
      PROVE  UNCHANGED <<inbox, indexed>>
  BY <1>4 DEF Publish, mongoVars
<1>5. QED
  BY <1>1, <1>2, <1>3, <1>4 DEF Next, vars, mongoVars

(* Once the unique index is built no interleaving of workers, orphaned      *)
(* upserts and redeliveries leaves two documents with one dedup key.        *)
THEOREM OneRecordPerKey == Spec => []UniqueOnceIndexed
<1>1. Init => UniqueOnceIndexed
  BY DEF Init, UniqueOnceIndexed, UniqueKeys
<1>2. UniqueOnceIndexed /\ [Next]_vars => UniqueOnceIndexed'
  <2> SUFFICES ASSUME UniqueOnceIndexed, [Next]_vars
               PROVE  UniqueOnceIndexed'
    OBVIOUS
  <2>1. CASE BuildIndex
    BY <2>1 DEF BuildIndex, UniqueOnceIndexed, UniqueKeys
  <2>2. ASSUME NEW o \in ops, UpsertInserts(o), indexed
        PROVE  UniqueKeys'
    <3>1. \A d \in inbox : d.key # KeyOf[o.msg]
      BY <2>2 DEF UpsertInserts, RecordedMessage, Recorded
    <3>2. PICK new : /\ new.key = KeyOf[o.msg]
                     /\ inbox' = inbox \cup {new}
      BY <2>2 DEF UpsertInserts
    <3>3. QED
      BY <2>2, <3>1, <3>2 DEF UniqueOnceIndexed, UniqueKeys
  <2>3. CASE UNCHANGED <<inbox, indexed>>
    BY <2>3 DEF UniqueOnceIndexed, UniqueKeys
  <2>4. QED
    BY <2>1, <2>2, <2>3, InboxSteps DEF UniqueOnceIndexed, UpsertInserts
<1>3. QED
  BY <1>1, <1>2, PTL DEF Spec

(* A document survives every step unchanged: a redelivery is a no-op.       *)
THEOREM DocumentsStay == Spec => RecordsImmutable
<1>1. [Next]_vars => [inbox \subseteq inbox']_vars
  BY InboxSteps DEF BuildIndex, UpsertInserts
<1>2. QED
  BY <1>1, PTL DEF Spec, RecordsImmutable

-----------------------------------------------------------------------------
(* What keeps acks honest: connections that stay up. A handler that a running *)
(* process still has came from the channel the process still uses.            *)

Connected == {"drop", "brokerRestart"} \cap FaultsOn = {}

SameChannel == \A h \in handlers :
  /\ proc[h.d.w] \in {"up", "closing", "closed"}
  /\ proc[h.d.w] # "closed" => h.d.inc = inc[h.d.w] /\ link[h.d.w] # "down"

LEMMA SettleHonest ==
  ASSUME Typed, Bookkeeping, SameChannel, AckedOnlyAfterPersist,
         NEW w \in Workers, NEW h \in handlers, Settle(w, h)
  PROVE  SameChannel' /\ AckedOnlyAfterPersist'
<1>1. /\ handlers' = handlers \ {h} /\ h.d.w = w /\ UNCHANGED <<inc, inbox>>
      /\ h.step \in Step \ {"await"}
  BY DEF Settle, mongoVars, Typed, TypeOK
<1>2. CASE SettleOnChannel(w, h)
  <2>1. PICK u \in unacked[w] : u.tag = h.d.tag /\ settled' = settled \cup {Settled(w, h, u)}
    BY <1>2 DEF SettleOnChannel
  <2>2. proc[w] = "up" /\ UNCHANGED <<link, proc>>
    BY <1>2 DEF SettleOnChannel
  <2>3. u.msg = h.msg
    BY <1>1, <2>1, <2>2 DEF SameChannel, Bookkeeping, TagsOwned
  <2>4. PICK new \in settled' : new = Settled(w, h, u)
    BY <2>1
  <2>5. new.msg = h.msg /\ new.how = h.step
    BY <2>3, <2>4 DEF Settled
  <2>6. new.how \in {"inserted", "existing"} => RecordedMessage(new.msg)
    BY <2>5 DEF Bookkeeping, Truthful
  <2>7. AckedOnlyAfterPersist'
    BY <1>1, <2>1, <2>4, <2>6 DEF AckedOnlyAfterPersist, RecordedMessage, Recorded
  <2>8. QED
    BY <1>1, <2>2, <2>7 DEF SameChannel
<1>3. CASE SettleUnknownTag(w, h)
  <2>1. /\ UNCHANGED <<settled, proc>> /\ link'[w] = "stalled"
        /\ \A v \in Workers \ {w} : link'[v] = link[v]
    BY <1>3 DEF SettleUnknownTag, CloseChannel, Typed, TypeOK
  <2>2. \A g \in handlers : g.d.w \in Workers
    BY DEF Typed, TypeOK, Delivery
  <2>3. QED
    BY <1>1, <2>1, <2>2 DEF SameChannel, AckedOnlyAfterPersist, RecordedMessage, Recorded
<1>4. CASE SettleWithoutChannel(w)
  BY <1>1, <1>4 DEF SettleWithoutChannel, SameChannel, AckedOnlyAfterPersist, RecordedMessage,
                    Recorded
<1>5. QED
  BY <1>2, <1>3, <1>4 DEF Settle

LEMMA WorkerStepHonest ==
  ASSUME Typed, Bookkeeping, SameChannel, AckedOnlyAfterPersist, NEW w \in Workers,
         WorkerStep(w) \/ Stop(w) \/ Crash(w)
  PROVE  SameChannel' /\ AckedOnlyAfterPersist'
<1> USE DEF AckedOnlyAfterPersist, RecordedMessage, Recorded
<1>1. \A h \in handlers : h.d.w \in Workers
  BY DEF Typed, TypeOK, Delivery
<1>2. CASE Start(w) \/ Connect(w)
  <2>1. \A h \in handlers : h.d.w # w
    BY <1>2 DEF Start, Connect, SameChannel
  <2>2. /\ UNCHANGED <<handlers, settled, inbox>>
        /\ \A v \in Workers \ {w} : proc'[v] = proc[v] /\ link'[v] = link[v] /\ inc'[v] = inc[v]
    BY <1>2 DEF Start, Connect, brokerVars, mongoVars, Typed, TypeOK
  <2>3. QED
    BY <1>1, <2>1, <2>2 DEF SameChannel
<1>3. ASSUME NEW m \in Messages, DeliverRejected(w, m)
      PROVE  SameChannel' /\ AckedOnlyAfterPersist'
  BY <1>3 DEF DeliverRejected, mongoVars, SameChannel
<1>4. ASSUME NEW m \in Messages, DeliverEvent(w, m)
      PROVE  SameChannel' /\ AckedOnlyAfterPersist'
  <2> DEFINE d == [w |-> w, inc |-> inc[w], tag |-> nextTag[w]]
             new == [d |-> d, msg |-> m, step |-> "await"]
  <2>1. /\ handlers' = handlers \cup {new} /\ UNCHANGED <<proc, link, inc, settled, inbox>>
        /\ proc[w] = "up" /\ link[w] = "open"
    BY <1>4 DEF DeliverEvent, CanDeliver
  <2>2. new.d.w = w /\ new.d.inc = inc[w]
    OBVIOUS
  <2> HIDE DEF new
  <2>3. QED
    BY <2>1, <2>2 DEF SameChannel
<1>5. CASE Stop(w) \/ Closed(w)
  <2>1. /\ UNCHANGED <<handlers, settled, inbox, inc>>
        /\ \A v \in Workers \ {w} : proc'[v] = proc[v] /\ link'[v] = link[v]
        /\ \/ proc'[w] = "closed"
           \/ proc'[w] = "closing" /\ proc[w] = "up" /\ link' = link
    BY <1>5 DEF Stop, Closed, CloseChannel, brokerVars, mongoVars, Typed, TypeOK
  <2>2. QED
    BY <1>1, <2>1 DEF SameChannel
<1>6. CASE Exit(w) \/ Crash(w)
  <2>1. /\ handlers' = {h \in handlers : h.d.w # w} /\ UNCHANGED <<settled, inbox, inc>>
        /\ \A v \in Workers \ {w} : proc'[v] = proc[v] /\ link'[v] = link[v]
    BY <1>6 DEF Exit, Crash, ProcessEnds, CloseChannel, mongoVars, Typed, TypeOK
  <2>2. QED
    BY <1>1, <2>1 DEF SameChannel
<1>7. QED
  BY <1>2, <1>3, <1>4, <1>5, <1>6, SettleHonest DEF WorkerStep

LEMMA NextHonest ==
  ASSUME Connected, Typed, Bookkeeping, SameChannel, AckedOnlyAfterPersist, [Next]_vars
  PROVE  SameChannel' /\ AckedOnlyAfterPersist'
<1>1. inbox \subseteq inbox'
  BY InboxSteps DEF BuildIndex, UpsertInserts
<1>2. \A m : RecordedMessage(m) => RecordedMessage(m)'
  BY <1>1 DEF RecordedMessage, Recorded
<1>3. CASE UNCHANGED <<proc, link, inc, settled>> /\ \A h \in handlers' : \E g \in handlers : h.d = g.d
  BY <1>2, <1>3 DEF SameChannel, AckedOnlyAfterPersist
<1>4. CASE BuildIndex \/ UNCHANGED vars \/ \E m \in Messages : Publish(m)
  BY <1>3, <1>4 DEF BuildIndex, Publish, vars, brokerVars, workerVars
<1>5. ASSUME NEW o \in ops, Upsert(o)
      PROVE  SameChannel' /\ AckedOnlyAfterPersist'
  <2>1. UNCHANGED <<proc, link, inc, settled>>
    BY <1>5 DEF Upsert, brokerVars
  <2>2. handlers' = handlers
        \/ \E step \in {"existing", "inserted", "duplicateKey"} : Reply(o, step)
    BY <1>5 DEF Upsert, UpsertMatches, UpsertMisses, UpsertInserts, UpsertCollides
  <2>3. \A h \in handlers' : \E g \in handlers : h.d = g.d
    BY <2>2 DEF Reply, Typed, TypeOK
  <2>4. QED
    BY <1>3, <2>1, <2>3
<1>6. ASSUME NEW h \in handlers, PersistFails(h)
      PROVE  SameChannel' /\ AckedOnlyAfterPersist'
  <2>1. UNCHANGED <<proc, link, inc, settled>>
    BY <1>6 DEF PersistFails, brokerVars
  <2>2. \A g \in handlers' : g \in handlers \/ g.d = h.d
    BY <1>6 DEF PersistFails, Typed, TypeOK
  <2>3. QED
    BY <1>3, <2>1, <2>2
<1>7. ~BrokerRestart /\ \A w : ~ConnectionLost(w)
  BY DEF BrokerRestart, ConnectionLost, Fault, Connected
<1>8. QED
  BY <1>4, <1>5, <1>6, <1>7, WorkerStepHonest DEF Next, FaultStep

(* The README's "ack after persist" is true of every deployment whose         *)
(* connections never drop: failed upserts, crashes, stops and an index not   *)
(* yet built do not break it. (Run ingestion_stale_ack drops one.)            *)
THEOREM AcksFollowPersists ==
  ASSUME {"drop", "brokerRestart"} \cap FaultsOn = {}
  PROVE  Spec => []AckedOnlyAfterPersist
<1> DEFINE Inv == Typed /\ Bookkeeping /\ SameChannel /\ AckedOnlyAfterPersist
<1>1. Connected
  BY DEF Connected
<1>2. Init => Inv
  BY InitTyped, InitBookkeeping DEF Init, SameChannel, AckedOnlyAfterPersist
<1>3. Inv /\ [Next]_vars => Inv'
  BY <1>1, NextTyped, NextBookkeeping, NextHonest
<1>4. QED
  BY <1>2, <1>3, PTL DEF Spec

-----------------------------------------------------------------------------
(* With its unique index built, and when processes may crash and stop but  *)
(* connections, upserts and the broker do not fail, the worker implements  *)
(* ReliableInbox.                                                          *)

Assumed == IndexAtStart = TRUE /\ FaultsOn \subseteq {"crash", "stop"}

-----------------------------------------------------------------------------
(* A worker keeps its channel as long as it settles: each handler of a       *)
(* running process has its message outstanding, under its own tag.           *)

Steady ==
  /\ indexed
  /\ \A h \in handlers : h.step # "failed" /\ proc[h.d.w] \in {"up", "closing", "closed"}
  /\ \A g, h \in handlers : g.d = h.d => g = h
  /\ \A h \in handlers : proc[h.d.w] \in {"up", "closing"} =>
       /\ link[h.d.w] = "open" /\ h.d.inc = inc[h.d.w]
       /\ \E u \in unacked[h.d.w] : u.tag = h.d.tag

LEMMA InitSteady == Assumed /\ Init => Steady
BY DEF Assumed, Init, Steady

\* What a step that ends nothing but perhaps worker w leaves of the others.
LEMMA EndsSteady ==
  ASSUME Typed, Steady, NEW w \in Workers, ProcessEnds(w), UNCHANGED indexed
  PROVE  Steady'
<1>1. /\ \A v \in Workers \ {w} : /\ proc'[v] = proc[v] /\ link'[v] = link[v]
                                  /\ unacked'[v] = unacked[v] /\ inc'[v] = inc[v]
      /\ handlers' = {h \in handlers : h.d.w # w}
  BY DEF ProcessEnds, CloseChannel, Typed, TypeOK
<1>2. \A h \in handlers' : h \in handlers /\ h.d.w \in Workers \ {w}
  BY <1>1 DEF Typed, TypeOK, Delivery
<1>3. QED
  BY <1>1, <1>2 DEF Steady

LEMMA SettleSteady ==
  ASSUME Typed, Bookkeeping, Steady, NEW w \in Workers, NEW h \in handlers, Settle(w, h)
  PROVE  Steady'
<1> USE DEF Settle
<1>1. handlers' = handlers \ {h} /\ UNCHANGED <<indexed, inc>>
  BY DEF mongoVars
<1>2. ~SettleUnknownTag(w, h)
  BY DEF SettleUnknownTag, Steady
<1>3. CASE SettleWithoutChannel(w)
  BY <1>1, <1>3 DEF SettleWithoutChannel, Steady
<1>4. CASE SettleOnChannel(w, h)
  <2>1. PICK u \in unacked[w] : /\ u.tag = h.d.tag
                                /\ unacked' = [unacked EXCEPT ![w] = @ \ {u}]
                                /\ proc[w] = "up" /\ UNCHANGED <<link, proc>>
    BY <1>4 DEF SettleOnChannel
  <2>2. ASSUME NEW g \in handlers', proc'[g.d.w] \in {"up", "closing"}
        PROVE  \E v \in unacked'[g.d.w] : v.tag = g.d.tag
    <3>1. g \in handlers /\ g.d \in Delivery /\ h.d \in Delivery /\ g.d # h.d
      BY <1>1, <2>2 DEF Typed, TypeOK, Steady
    <3>2. PICK v \in unacked[g.d.w] : v.tag = g.d.tag
      BY <2>1, <2>2, <3>1 DEF Steady
    <3>3. CASE g.d.w # w
      BY <2>1, <3>1, <3>2, <3>3 DEF Typed, TypeOK, Delivery
    <3>4. CASE g.d.w = w
      <4>1. g.d.inc = h.d.inc
        BY <2>1, <3>1, <3>4 DEF Steady
      <4>2. g.d.tag # h.d.tag
        BY <3>1, <3>4, <4>1 DEF Delivery
      <4>3. v # u
        BY <2>1, <3>2, <4>2
      <4>4. QED
        BY <2>1, <3>2, <3>4, <4>3 DEF Typed, TypeOK
    <3>5. QED
      BY <3>3, <3>4
  <2>3. QED
    BY <1>1, <2>1, <2>2 DEF Steady
<1>5. QED
  BY <1>2, <1>3, <1>4

LEMMA DeliverEventSteady ==
  ASSUME Typed, Bookkeeping, Steady, NEW w \in Workers, NEW m \in Messages, DeliverEvent(w, m)
  PROVE  Steady'
<1> DEFINE d == [w |-> w, inc |-> inc[w], tag |-> nextTag[w]]
           new == [d |-> d, msg |-> m, step |-> "await"]
<1>1. /\ handlers' = handlers \cup {new} /\ UNCHANGED <<proc, link, inc, indexed>>
      /\ unacked' = [unacked EXCEPT ![w] = @ \cup {[tag |-> nextTag[w], msg |-> m]}]
      /\ proc[w] = "up" /\ link[w] = "open"
  BY DEF DeliverEvent, CanDeliver
<1>2. new.d = d /\ new.step = "await" /\ d.w = w /\ d.inc = inc[w] /\ d.tag = nextTag[w]
  OBVIOUS
<1>3. \A h \in handlers : h.d # d
  BY <1>2 DEF Bookkeeping, DeliveriesPast, Past, Typed, TypeOK
<1>4. /\ \A v \in Workers : unacked[v] \subseteq unacked'[v]
      /\ \E u \in unacked'[w] : u.tag = nextTag[w]
  <2> DEFINE held == [tag |-> nextTag[w], msg |-> m]
  <2>1. /\ unacked'[w] = unacked[w] \cup {held}
        /\ \A v \in Workers \ {w} : unacked'[v] = unacked[v]
    BY <1>1 DEF Typed, TypeOK
  <2>2. held.tag = nextTag[w]
    OBVIOUS
  <2> HIDE DEF held
  <2>3. QED
    BY <2>1, <2>2
<1>5. \A h \in handlers : h.d.w \in Workers
  BY DEF Typed, TypeOK, Delivery
<1> HIDE DEF d, new
<1>6. ASSUME NEW h \in handlers'
      PROVE  /\ h.step # "failed" /\ proc'[h.d.w] \in {"up", "closing", "closed"}
             /\ proc'[h.d.w] \in {"up", "closing"} =>
                  /\ link'[h.d.w] = "open" /\ h.d.inc = inc'[h.d.w]
                  /\ \E u \in unacked'[h.d.w] : u.tag = h.d.tag
  <2>1. CASE h \in handlers
    BY <1>1, <1>4, <1>5, <2>1 DEF Steady
  <2>2. CASE h = new
    BY <1>1, <1>2, <1>4, <2>2
  <2>3. QED
    BY <1>1, <2>1, <2>2
<1>7. \A g, h \in handlers' : g.d = h.d => g = h
  BY <1>1, <1>2, <1>3 DEF Steady
<1>8. QED
  BY <1>1, <1>6, <1>7 DEF Steady

LEMMA UpsertSteady ==
  ASSUME Typed, Steady, NEW o \in ops, Upsert(o)
  PROVE  Steady'
<1>1. UNCHANGED <<proc, link, inc, unacked, indexed>>
  BY DEF Upsert, UpsertMatches, UpsertMisses, UpsertInserts, UpsertCollides
<1>2. handlers' = handlers
      \/ \E step \in {"existing", "inserted", "duplicateKey"} : Reply(o, step)
  BY DEF Upsert, UpsertMatches, UpsertMisses, UpsertInserts, UpsertCollides
<1>3. CASE handlers' = handlers
  BY <1>1, <1>3 DEF Steady
<1>4. ASSUME NEW step \in {"existing", "inserted", "duplicateKey"}, Reply(o, step)
      PROVE  Steady'
  <2> DEFINE After(h) == IF h.d = o.d /\ h.step = "await" THEN [h EXCEPT !.step = step] ELSE h
  <2>1. handlers' = {After(h) : h \in handlers}
    BY <1>4 DEF Reply
  <2>2. \A h \in handlers : After(h).d = h.d /\ After(h).step \in {h.step, step}
    BY DEF Typed, TypeOK
  <2>3. \A g, h \in handlers : g.d = h.d => After(g) = After(h)
    BY DEF Steady
  <2> HIDE DEF After
  <2>4. \A h \in handlers' : \E g \in handlers : h = After(g)
    BY <2>1
  <2>5. \A g, h \in handlers' : g.d = h.d => g = h
    BY <2>2, <2>3, <2>4
  <2>6. \A h \in handlers' : \E g \in handlers : h.d = g.d /\ h.step \in {g.step, step}
    BY <2>2, <2>4
  <2>7. QED
    BY <1>1, <2>5, <2>6 DEF Steady
<1>5. QED
  BY <1>2, <1>3, <1>4

LEMMA NextSteady ==
  ASSUME Assumed, Typed, Bookkeeping, Steady, [Next]_vars
  PROVE  Steady'
<1>1. ASSUME NEW w \in Workers, Start(w) \/ Connect(w)
      PROVE  Steady'
  <2>1. \A h \in handlers : h.d.w # w
    BY <1>1 DEF Start, Connect, Steady
  <2>2. /\ UNCHANGED <<handlers, indexed, unacked>>
        /\ \A v \in Workers \ {w} : proc'[v] = proc[v] /\ link'[v] = link[v] /\ inc'[v] = inc[v]
    BY <1>1 DEF Start, Connect, mongoVars, Typed, TypeOK
  <2>3. \A h \in handlers : h.d.w \in Workers
    BY DEF Typed, TypeOK, Delivery
  <2>4. QED
    BY <2>1, <2>2, <2>3 DEF Steady
<1>2. ASSUME NEW w \in Workers, NEW m \in Messages, DeliverRejected(w, m)
      PROVE  Steady'
  BY <1>2 DEF DeliverRejected, mongoVars, Steady
<1>3. ASSUME NEW w \in Workers, Stop(w) \/ Closed(w)
      PROVE  Steady'
  <2>1. /\ UNCHANGED <<handlers, indexed, inc>>
        /\ \A v \in Workers \ {w} : /\ proc'[v] = proc[v] /\ link'[v] = link[v]
                                    /\ unacked'[v] = unacked[v]
        /\ \/ proc'[w] = "closed"
           \/ proc'[w] = "closing" /\ proc[w] = "up" /\ UNCHANGED <<link, unacked>>
    BY <1>3 DEF Stop, Closed, CloseChannel, mongoVars, Typed, TypeOK
  <2>2. \A h \in handlers : h.d.w \in Workers
    BY DEF Typed, TypeOK, Delivery
  <2>3. QED
    BY <2>1, <2>2 DEF Steady
<1>4. ASSUME NEW w \in Workers, Exit(w) \/ Crash(w)
      PROVE  Steady'
  <2>1. ProcessEnds(w) /\ UNCHANGED indexed
    BY <1>4 DEF Exit, Crash, ProcessEnds, mongoVars
  <2>2. QED
    BY <2>1, EndsSteady
<1>5. CASE BuildIndex \/ \E m \in Messages : Publish(m)
  BY <1>5 DEF BuildIndex, Publish, Steady, workerVars, mongoVars
<1>6. CASE UNCHANGED vars
  BY <1>6 DEF vars, workerVars, mongoVars, Steady
<1>7. ASSUME NEW w \in Workers, WorkerStep(w)
      PROVE  Steady'
  BY <1>1, <1>2, <1>3, <1>4, <1>7, SettleSteady, DeliverEventSteady DEF WorkerStep
<1>8. CASE FaultStep
  <2>1. /\ ~BrokerRestart /\ \A w : ~ConnectionLost(w)
        /\ \A h : ~PersistFails(h)
    BY DEF BrokerRestart, ConnectionLost, PersistFails, Fault, Assumed
  <2>2. QED
    BY <1>3, <1>4, <1>8, <2>1 DEF FaultStep
<1>9. QED
  BY <1>5, <1>6, <1>7, <1>8, UpsertSteady DEF Next

-----------------------------------------------------------------------------
(* Steps map to steps.                                                      *)

\* A step that neither records nor takes off the broker.
LEMMA QuietStep ==
  ASSUME UNCHANGED <<published, inbox>>, \A m \in published : OnBroker(m)' <=> OnBroker(m)
  PROVE  UNCHANGED Promise!vars
BY DEF Promise!vars

\* A step that takes at most one message off the broker, which need not be recorded
\* or is.
LEMMA DischargeStep ==
  ASSUME Typed, UNCHANGED <<published, inbox>>, NEW m \in published, OnBroker(m),
         \A q \in published \ {m} : OnBroker(q)' <=> OnBroker(q),
         KeyOf[m] = Rejected \/ RecordedMessage(m)
  PROVE  Promise!Discharge(m) \/ UNCHANGED Promise!vars
<1> DEFINE gone == {q \in published : ~OnBroker(q)}
<1>1. CASE OnBroker(m)'
  BY <1>1, QuietStep
<1>2. CASE ~OnBroker(m)'
  <2>1. gone' = gone \cup {m} /\ m \notin gone
    BY <1>2
  <2>2. KeyOf[m] \in Promise!RecordedKeys \cup {Rejected}
    <3>1. CASE KeyOf[m] = Rejected
      BY <3>1
    <3>2. CASE RecordedMessage(m)
      <4>1. PICK d \in inbox : d.key = KeyOf[m]
        BY <3>2 DEF RecordedMessage, Recorded
      <4> DEFINE record == [key |-> d.key, msg |-> d.msg]
      <4>2. record.key = KeyOf[m]
        BY <4>1
      <4>3. record \in {[key |-> e.key, msg |-> e.msg] : e \in inbox}
        BY <4>1
      <4> HIDE DEF record
      <4>4. QED
        BY <4>2, <4>3 DEF Promise!RecordedKeys
    <3>3. QED
      BY <3>1, <3>2
  <2>3. QED
    BY <2>1, <2>2 DEF Promise!Discharge
<1>3. QED
  BY <1>1, <1>2

LEMMA CloseChannelOnBroker ==
  ASSUME Typed, NEW w \in Workers, NEW state, CloseChannel(w, state), NEW m
  PROVE  OnBroker(m)' <=> OnBroker(m)
<1>1. /\ unacked'[w] = {} /\ \A v \in Workers \ {w} : unacked'[v] = unacked[v]
      /\ ready' = ready \cup {u.msg : u \in unacked[w]}
  BY DEF CloseChannel, Typed, TypeOK
<1>2. QED
  BY <1>1 DEF OnBroker

LEMMA DeliverStep ==
  ASSUME Typed, NEW w \in Workers, NEW m \in Messages, DeliverRejected(w, m) \/ DeliverEvent(w, m)
  PROVE  Promise!Discharge(m) \/ UNCHANGED Promise!vars
<1>1. CASE DeliverRejected(w, m)
  <2>1. /\ UNCHANGED <<published, inbox, unacked>> /\ ready' = ready \ {m}
        /\ m \in ready /\ KeyOf[m] = Rejected
    BY <1>1 DEF DeliverRejected, CanDeliver, Accepted, mongoVars
  <2>2. m \in published /\ OnBroker(m) /\ \A q \in published \ {m} : OnBroker(q)' <=> OnBroker(q)
    BY <2>1 DEF OnBroker, Typed, TypeOK
  <2>3. QED
    BY <2>1, <2>2, DischargeStep
<1>2. CASE DeliverEvent(w, m)
  <2> DEFINE held == [tag |-> nextTag[w], msg |-> m]
  <2>1. /\ UNCHANGED <<published, inbox>> /\ ready' = ready \ {m} /\ m \in ready
        /\ unacked'[w] = unacked[w] \cup {held}
        /\ \A v \in Workers \ {w} : unacked'[v] = unacked[v]
    BY <1>2 DEF DeliverEvent, CanDeliver, Typed, TypeOK
  <2>2. held.msg = m
    OBVIOUS
  <2> HIDE DEF held
  <2>3. \A q \in published : OnBroker(q)' <=> OnBroker(q)
    BY <2>1, <2>2 DEF OnBroker
  <2>4. QED
    BY <2>1, <2>3, QuietStep
<1>3. QED
  BY <1>1, <1>2

LEMMA SettleStep ==
  ASSUME Typed, Bookkeeping, Steady, NEW w \in Workers, NEW h \in handlers, Settle(w, h)
  PROVE  (\E m \in Messages : Promise!Discharge(m)) \/ UNCHANGED Promise!vars
<1>1. UNCHANGED <<published, inbox>> /\ h.d.w = w
  BY DEF Settle, mongoVars
<1>2. CASE SettleOnChannel(w, h)
  <2>1. PICK u \in unacked[w] :
          u.tag = h.d.tag /\ unacked' = [unacked EXCEPT ![w] = @ \ {u}]
    BY <1>2 DEF SettleOnChannel
  <2>2. ready' = ready /\ proc[w] = "up"
    BY <1>2 DEF SettleOnChannel
  <2>3. u.msg = h.msg
    BY <1>1, <2>1, <2>2 DEF Steady, Bookkeeping, TagsOwned
  <2>4. RecordedMessage(h.msg)
    BY DEF Settle, Steady, Bookkeeping, Truthful, Typed, TypeOK, Step
  <2>5. /\ unacked'[w] = unacked[w] \ {u}
        /\ \A v \in Workers \ {w} : unacked'[v] = unacked[v]
    BY <2>1 DEF Typed, TypeOK
  <2>6. /\ u.msg \in published /\ OnBroker(u.msg) /\ u.msg \in Messages
        /\ \A q \in published \ {u.msg} : OnBroker(q)' <=> OnBroker(q)
    BY <2>1, <2>2, <2>5 DEF OnBroker, Typed, TypeOK
  <2>7. QED
    BY <1>1, <2>3, <2>4, <2>6, DischargeStep
<1>3. CASE SettleUnknownTag(w, h)
  <2>1. \A m : OnBroker(m)' <=> OnBroker(m)
    BY <1>3, CloseChannelOnBroker DEF SettleUnknownTag
  <2>2. QED
    BY <1>1, <2>1, QuietStep
<1>4. CASE SettleWithoutChannel(w)
  BY <1>1, <1>4, QuietStep DEF SettleWithoutChannel, OnBroker
<1>5. QED
  BY <1>2, <1>3, <1>4 DEF Settle

LEMMA UpsertStep ==
  ASSUME Typed, Steady, NEW o \in ops, Upsert(o)
  PROVE  Promise!Record(o.msg) \/ UNCHANGED Promise!vars
<1>1. UNCHANGED <<published, ready, unacked>>
  BY DEF Upsert, brokerVars
<1>2. \A m : OnBroker(m)' <=> OnBroker(m)
  BY <1>1 DEF OnBroker
<1>3. CASE UpsertInserts(o)
  <2> DEFINE new == [key |-> KeyOf[o.msg], msg |-> o.msg, by |-> o.d]
             records == {[key |-> d.key, msg |-> d.msg] : d \in inbox}
  <2>1. inbox' = inbox \cup {new} /\ ~RecordedMessage(o.msg)
    BY <1>3 DEF UpsertInserts, Steady
  <2>2. new.key = KeyOf[o.msg] /\ new.msg = o.msg
    OBVIOUS
  <2>3. o.msg \in published /\ KeyOf[o.msg] \in Keys
    BY MessagesAssumption DEF Typed, TypeOK
  <2> HIDE DEF new
  <2>4. records' = records \cup {[key |-> KeyOf[o.msg], msg |-> o.msg]}
    BY <2>1, <2>2
  <2>5. KeyOf[o.msg] \notin Promise!RecordedKeys
    BY <2>1 DEF Promise!RecordedKeys, RecordedMessage, Recorded
  <2>6. QED
    BY <1>1, <1>2, <2>3, <2>4, <2>5 DEF Promise!Record
<1>4. CASE ~UpsertInserts(o)
  BY <1>1, <1>2, <1>4, QuietStep DEF Upsert, UpsertMatches, UpsertMisses, UpsertCollides
<1>5. QED
  BY <1>3, <1>4

LEMMA NextStep ==
  ASSUME Assumed, Typed, Bookkeeping, Steady, [Next]_vars
  PROVE  [Promise!Next]_(Promise!vars)
<1>1. ASSUME NEW m \in Messages, Publish(m)
      PROVE  Promise!Offer(m)
  <2>1. /\ published' = published \cup {m} /\ m \notin published
        /\ ready' = ready \cup {m} /\ UNCHANGED <<inbox, unacked>>
    BY <1>1 DEF Publish, workerVars, mongoVars
  <2>2. OnBroker(m)' /\ \A q \in published : OnBroker(q)' <=> OnBroker(q)
    BY <2>1 DEF OnBroker
  <2>3. QED
    BY <2>1, <2>2 DEF Promise!Offer
<1>2. ASSUME NEW w \in Workers, Start(w) \/ Connect(w) \/ Stop(w)
      PROVE  UNCHANGED Promise!vars
  BY <1>2, QuietStep DEF Start, Connect, Stop, brokerVars, mongoVars, OnBroker
<1>3. ASSUME NEW w \in Workers, Closed(w) \/ Exit(w) \/ Crash(w)
      PROVE  UNCHANGED Promise!vars
  <2>1. /\ UNCHANGED <<published, inbox>>
        /\ CloseChannel(w, "down")
    BY <1>3 DEF Closed, Exit, Crash, ProcessEnds, mongoVars
  <2>2. \A m : OnBroker(m)' <=> OnBroker(m)
    BY <2>1, CloseChannelOnBroker
  <2>3. QED
    BY <2>1, <2>2, QuietStep
<1>4. CASE BuildIndex \/ UNCHANGED vars
  BY <1>4, QuietStep DEF BuildIndex, vars, brokerVars, workerVars, mongoVars, OnBroker
<1>5. /\ ~BrokerRestart /\ \A w : ~ConnectionLost(w)
      /\ \A h : ~PersistFails(h)
  BY DEF BrokerRestart, ConnectionLost, PersistFails, Fault, Assumed
<1>6. \A o \in ops : o.msg \in Messages
  BY DEF Typed, TypeOK
<1>7. QED
  BY <1>1, <1>2, <1>3, <1>4, <1>5, <1>6, DeliverStep, SettleStep, UpsertStep
  DEF Next, WorkerStep, FaultStep, Promise!Next

(* Crashes and stops cost nothing: with the index built, and connections,     *)
(* upserts and broker that do not fail, the workers implement the README's    *)
(* promise, however many they are.                                           *)
THEOREM WorkersKeepThePromise ==
  ASSUME IndexAtStart = TRUE, FaultsOn \subseteq {"crash", "stop"}
  PROVE  Spec => ImplementsPromise
<1> DEFINE Inv == Typed /\ Bookkeeping /\ Steady
<1>1. Assumed
  BY DEF Assumed
<1>2. Init => Inv
  BY <1>1, InitTyped, InitBookkeeping, InitSteady
<1>3. Inv /\ [Next]_vars => Inv'
  BY <1>1, NextTyped, NextBookkeeping, NextSteady
<1>4. Init => Promise!Init
  BY DEF Init, Promise!Init
<1>5. Inv /\ [Next]_vars => [Promise!Next]_(Promise!vars)
  BY <1>1, NextStep
<1> HIDE DEF Inv
<1>6. QED
  BY <1>2, <1>3, <1>4, <1>5, PTL DEF Spec, ImplementsPromise, Promise!Spec
=============================================================================
