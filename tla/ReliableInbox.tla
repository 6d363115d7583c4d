----------------------------- MODULE ReliableInbox -----------------------------
(***************************************************************************)
(* What the Event Ingestion Worker's README promises, without workers,     *)
(* channels or MongoDB: an event taken off the broker is in the inbox,     *)
(* once, and a record, once made, is never changed.                        *)
(***************************************************************************)
CONSTANTS Messages, Keys, Rejected, KeyOf

VARIABLES
  offered,    \* messages the broker has accepted
  discharged, \* messages it no longer holds
  records     \* for each recorded key, the message whose content is recorded

vars == <<offered, discharged, records>>

Init == offered = {} /\ discharged = {} /\ records = {}

RecordedKeys == {r.key : r \in records}

Offer(m) ==
  /\ m \notin offered
  /\ offered' = offered \cup {m}
  /\ UNCHANGED <<discharged, records>>

Record(m) ==
  /\ m \in offered
  /\ KeyOf[m] \in Keys \ RecordedKeys
  /\ records' = records \cup {[key |-> KeyOf[m], msg |-> m]}
  /\ UNCHANGED <<offered, discharged>>

\* Ack after persist; a message nobody can accept is discharged unrecorded.
Discharge(m) ==
  /\ m \in offered \ discharged
  /\ KeyOf[m] \in RecordedKeys \cup {Rejected}
  /\ discharged' = discharged \cup {m}
  /\ UNCHANGED <<offered, records>>

Next == \E m \in Messages : Offer(m) \/ Record(m) \/ Discharge(m)

Spec == Init /\ [][Next]_vars

(* Every event the broker accepts is eventually discharged for good.        *)
Delivered == \A m \in Messages : (m \in offered) ~> (m \in discharged)

=============================================================================
