------------------------ MODULE DevOrchestratorProofs ------------------------
(***************************************************************************)
(* What TLAPS proves of module DevOrchestrator for any number of apps, any *)
(* of which listen on a port.                                              *)
(***************************************************************************)
EXTENDS DevOrchestrator, LeastLemmas, TLAPS

-----------------------------------------------------------------------------
(* The watch loop always has a next app, or goes to sleep.                  *)

LEMMA NextWatched ==
  ASSUME NEW i \in 1..Asleep
  PROVE  /\ WatchedFrom(i) \in 1..Asleep
         /\ WatchedFrom(i) = Asleep
            \/ (WatchedFrom(i) \in Http /\ child[WatchedFrom(i)])
<1> DEFINE Stop(j) == j = Asleep \/ (j \in Http /\ child[j])
           S == {j \in i..Asleep : Stop(j)}
<1>1. Asleep \in Nat /\ i \in Nat /\ i =< Asleep
  BY AppsAssumption DEF Asleep
<1>2. PICK m \in S : \A k \in S : m =< k
  <2>1. Asleep \in S
    BY <1>1
  <2>2. S \in SUBSET Nat
    BY <1>1
  <2>3. QED
    BY <2>1, <2>2, NatHasLeast
<1>3. \A k \in i..(m - 1) : ~(k \in Http /\ child[k])
  BY <1>1, <1>2
<1>4. \E j \in i..Asleep :
        /\ j = Asleep \/ (j \in Http /\ child[j])
        /\ \A k \in i..(j - 1) : ~(k \in Http /\ child[k])
  BY <1>2, <1>3
<1>5. /\ WatchedFrom(i) \in i..Asleep
      /\ WatchedFrom(i) = Asleep
         \/ (WatchedFrom(i) \in Http /\ child[WatchedFrom(i)])
  BY <1>4 DEF WatchedFrom
<1>6. QED
  BY <1>1, <1>5

-----------------------------------------------------------------------------
(* The inductive invariant.                                                 *)

\* The apps the start-up loop has not reached are untouched; a probe is of an app
\* with a port, which the watch loop probes only while it has a child.
CursorTells ==
  /\ probe # "none" => cursor \in Http
  /\ orch = "starting" =>
       \A a \in Apps : a >= cursor => state[a] = "pending" /\ ~child[a] /\ leader[a] = "none"
  /\ orch \in {"running", "stopping"} /\ cursor \in Http /\ state[cursor] = "ready" =>
       child[cursor]

\* A process that lives has not been reported to have exited.
LiveHasChild == \A a \in Apps : leader[a] = "alive" => child[a]

\* The script ends by itself only when it has no child left.
EndsWithoutChildren ==
  orch \in {"nothing started", "all exited", "stopped"} => \A a \in Apps : ~child[a]

\* The kill timer belongs to the stopping, and leaves no leader alive.
ForceIsLast ==
  /\ force # "off" => orch \notin {"starting", "running"}
  /\ force = "fired" => \A a \in Apps : leader[a] # "alive"

Invariant ==
  /\ TypeOK /\ CursorTells /\ LiveHasChild /\ EndsWithoutChildren /\ ForceIsLast
  /\ OnlyReadyIsStale /\ KillReachesTheGroup

LEMMA InitInvariant == Init => Invariant
<1> SUFFICES ASSUME Init
             PROVE  Invariant
  OBVIOUS
<1>1. TypeOK
  <2>1. child \in [Apps -> BOOLEAN] /\ service \in [Apps -> BOOLEAN]
    BY Zenon DEF Init
  <2>2. /\ state \in [Apps -> {"pending", "skipped", "starting", "running", "ready",
                               "exited", "stopped"}]
        /\ leader \in [Apps -> {"none", "alive", "dead", "failed"}]
    BY DEF Init
  <2>3. cursor \in 1..Asleep
    BY AppsAssumption DEF Init, Asleep
  <2>4. QED
    BY <2>1, <2>2, <2>3 DEF Init, TypeOK, Running
<1>2. \A a \in Apps : state[a] = "pending" /\ ~child[a] /\ leader[a] = "none"
  BY Zenon DEF Init
<1>3. CursorTells
  BY <1>2 DEF Init, CursorTells
<1>4. LiveHasChild /\ EndsWithoutChildren /\ ForceIsLast
  BY <1>2 DEF Init, LiveHasChild, EndsWithoutChildren, ForceIsLast
<1>5. OnlyReadyIsStale /\ KillReachesTheGroup
  BY <1>2 DEF Init, OnlyReadyIsStale, KillReachesTheGroup
<1>6. QED
  BY <1>1, <1>3, <1>4, <1>5 DEF Invariant

LEMMA StartInvariant ==
  ASSUME Invariant, StartWorker \/ StartHttp
  PROVE  Invariant'
<1> USE DEF Invariant
<1>1. /\ orch = "starting" /\ orch' = orch /\ cursor \in Apps /\ cursor' = cursor + 1
      /\ probe' = "none" /\ force' = force /\ taken' = taken /\ service' = service
      /\ UNCHANGED reportVars
  BY AppsAssumption DEF StartWorker, StartHttp, Start, CursorTells, Apps, processVars
<1>2. /\ \A a \in Apps \ {cursor} : /\ child'[a] = child[a] /\ state'[a] = state[a]
                                    /\ leader'[a] = leader[a]
      /\ \/ /\ child'[cursor] = TRUE /\ state'[cursor] \in {"starting", "running"}
            /\ leader'[cursor] \in {"alive", "failed"}
         \/ /\ child'[cursor] = child[cursor] /\ leader'[cursor] = leader[cursor]
            /\ state'[cursor] = "skipped"
      /\ child' \in [Apps -> BOOLEAN]
      /\ state' \in [Apps -> {"pending", "skipped", "starting", "running", "ready",
                              "exited", "stopped"}]
      /\ leader' \in [Apps -> {"none", "alive", "dead", "failed"}]
  BY <1>1 DEF StartWorker, StartHttp, Start, TypeOK, processVars
<1>3. TypeOK'
  BY <1>1, <1>2, AppsAssumption DEF TypeOK, reportVars, Apps, Asleep
<1>4. \A a \in Apps : a >= cursor' => a >= cursor /\ a # cursor
  BY <1>1, AppsAssumption DEF Apps
<1>5. QED
  BY <1>1, <1>2, <1>3, <1>4
  DEF CursorTells, LiveHasChild, EndsWithoutChildren, ForceIsLast, OnlyReadyIsStale,
      KillReachesTheGroup, Apps

LEMMA WatchInvariant ==
  ASSUME Invariant, StartupEnds \/ Probe \/ Watch \/ WatchAgain \/ Deadline
  PROVE  Invariant'
<1> USE DEF Invariant
<1> USE AppsAssumption
<1>1. CASE StartupEnds
  <2>1. 1 \in 1..Asleep
    BY DEF Asleep
  <2>2. /\ UNCHANGED <<taken, probe, state, child, force, processVars>>
        /\ late' = late /\ reported' \in BOOLEAN
        /\ \/ /\ orch' = "nothing started" /\ cursor' = cursor
              /\ \A a \in Apps : ~child[a]
           \/ orch' = "running" /\ cursor' = WatchedFrom(1)
    BY <1>1 DEF StartupEnds, RoundEnds, reportVars, TypeOK, Children
  <2>3. cursor' \in 1..Asleep /\ force = "off"
    BY <1>1, <2>1, <2>2, NextWatched DEF StartupEnds, TypeOK, ForceIsLast
  <2>4. cursor \notin Http /\ probe = "none"
    <3>1. cursor = N + 1
      BY <1>1 DEF StartupEnds
    <3>2. QED
      BY <3>1 DEF CursorTells, TypeOK
  <2>5. TypeOK'
    BY <2>2, <2>3 DEF TypeOK, processVars, Running, Ended
  <2>6. EndsWithoutChildren' /\ ForceIsLast'
    BY <2>2, <2>3 DEF EndsWithoutChildren, ForceIsLast
  <2>7. CursorTells'
    <3>1. WatchedFrom(1) \in Http => child[WatchedFrom(1)]
      BY <2>1, NextWatched DEF Asleep
    <3>2. UNCHANGED <<child, state, probe>> /\ orch' \in {"nothing started", "running"}
      BY <2>2
    <3>3. orch' = "running" => cursor' = WatchedFrom(1)
      BY <2>2
    <3>4. QED
      BY <2>4, <3>1, <3>2, <3>3 DEF CursorTells
  <2>8. QED
    BY <2>2, <2>5, <2>6, <2>7
    DEF LiveHasChild, OnlyReadyIsStale, KillReachesTheGroup, processVars
<1>2. CASE Probe \/ Deadline
  BY <1>2
  DEF Probe, Deadline, reportVars, processVars, TypeOK, CursorTells, LiveHasChild,
      EndsWithoutChildren, ForceIsLast, OnlyReadyIsStale, KillReachesTheGroup
<1>3. CASE WatchAgain
  <2>1. 1 \in 1..Asleep
    BY DEF Asleep
  <2>2. QED
    BY <1>3, <2>1, NextWatched
    DEF WatchAgain, RoundEnds, reportVars, processVars, TypeOK, CursorTells, LiveHasChild,
        EndsWithoutChildren, ForceIsLast, OnlyReadyIsStale, KillReachesTheGroup, Apps, Asleep
<1>4. CASE Watch
  <2>1. cursor \in Http /\ cursor \in Apps /\ cursor + 1 \in 1..Asleep
    BY <1>4 DEF Watch, CursorTells, Apps, Asleep
  <2>2. /\ \A a \in Apps \ {cursor} : state'[a] = state[a]
        /\ \/ state'[cursor] = "ready"
           \/ state[cursor] = "ready" /\ state'[cursor] = "starting"
           \/ state'[cursor] = state[cursor]
        /\ state' \in [Apps -> {"pending", "skipped", "starting", "running", "ready",
                                "exited", "stopped"}]
    <3> DEFINE new == CASE probe = "up" -> "ready"
                        [] probe = "down" /\ state[cursor] = "ready" -> "starting"
                        [] OTHER -> state[cursor]
    <3>1. \/ new = "ready" \/ (state[cursor] = "ready" /\ new = "starting")
          \/ new = state[cursor]
      OBVIOUS
    <3>2. state' = [state EXCEPT ![cursor] = new]
      BY <1>4 DEF Watch
    <3> HIDE DEF new
    <3>3. QED
      BY <2>1, <3>1, <3>2 DEF TypeOK
  <2>3. OnlyReadyIsStale'
    BY <1>4, <2>1, <2>2 DEF Watch, CursorTells, OnlyReadyIsStale
  <2>4. TypeOK' /\ CursorTells'
    BY <1>4, <2>1, <2>2, NextWatched
    DEF Watch, RoundEnds, processVars, TypeOK, CursorTells, Apps, Asleep
  <2>5. QED
    BY <1>4, <2>3, <2>4
    DEF Watch, processVars, LiveHasChild, EndsWithoutChildren, ForceIsLast,
        KillReachesTheGroup
<1>5. QED
  BY <1>1, <1>2, <1>3, <1>4

LEMMA ExitInvariant ==
  ASSUME Invariant, NEW a \in Apps, Exit(a)
  PROVE  Invariant'
<1> USE DEF Invariant
<1>1. /\ child[a] /\ leader[a] = "dead" /\ ~child'[a] /\ state'[a] \in {"exited", "stopped"}
      /\ \A b \in Apps \ {a} : child'[b] = child[b] /\ state'[b] = state[b]
      /\ child' \in [Apps -> BOOLEAN]
      /\ state' \in [Apps -> {"pending", "skipped", "starting", "running", "ready",
                              "exited", "stopped"}]
      /\ UNCHANGED <<taken, reportVars, cursor, probe, force, processVars>>
  BY DEF Exit, TypeOK
<1>2. /\ orch \in Running
      /\ \/ orch' = orch
         \/ orch # "stopping" /\ orch' = "all exited" /\ \A b \in Apps \ {a} : ~child[b]
  BY DEF Exit, Children
<1>3. TypeOK'
  BY <1>1, <1>2 DEF TypeOK, Running, Ended, reportVars, processVars
<1>4. CursorTells'
  <2>1. orch' = "starting" => \A b \in Apps : b >= cursor => b # a
    BY <1>1, <1>2 DEF CursorTells
  <2>2. QED
    BY <1>1, <1>2, <2>1, AppsAssumption DEF CursorTells, Apps, processVars
<1>5. LiveHasChild' /\ EndsWithoutChildren' /\ ForceIsLast'
  BY <1>1, <1>2
  DEF LiveHasChild, EndsWithoutChildren, ForceIsLast, Running, processVars
<1>6. OnlyReadyIsStale' /\ KillReachesTheGroup'
  BY <1>1 DEF OnlyReadyIsStale, KillReachesTheGroup, processVars
<1>7. QED
  BY <1>3, <1>4, <1>5, <1>6

LEMMA StopInvariant ==
  ASSUME Invariant, StopAll \/ KillLeft \/ StopEnds \/ Signalled \/ SpawnError
  PROVE  Invariant'
<1> USE DEF Invariant
<1>1. CASE KillLeft
  <2> USE <1>1 DEF KillLeft
  <2>1. /\ force' = "fired" /\ orch = "stopping"
        /\ UNCHANGED <<taken, orch, cursor, probe, state, child, late, reported>>
    BY DEF reportVars
  <2>2. \A a \in Apps : leader'[a] # "alive" /\ (service'[a] => ~child[a])
    BY DEF LiveHasChild
  <2>3. TypeOK'
    <3>1. leader' \in [Apps -> {"none", "alive", "dead", "failed"}]
      BY DEF TypeOK
    <3>2. service' \in [Apps -> BOOLEAN]
      BY Zenon
    <3>3. QED
      BY <2>1, <3>1, <3>2 DEF TypeOK
  <2>4. CursorTells' /\ EndsWithoutChildren' /\ OnlyReadyIsStale'
    BY <2>1 DEF CursorTells, EndsWithoutChildren, OnlyReadyIsStale
  <2>5. LiveHasChild' /\ ForceIsLast' /\ KillReachesTheGroup'
    BY <2>1, <2>2 DEF LiveHasChild, ForceIsLast, KillReachesTheGroup
  <2>6. QED
    BY <2>3, <2>4, <2>5
<1>2. CASE StopAll \/ StopEnds \/ Signalled \/ SpawnError
  <2>1. /\ UNCHANGED <<taken, reportVars, cursor, probe, state, child, processVars>>
        /\ \/ orch = "running" /\ orch' = "stopping" /\ force' = "armed"
           \/ /\ orch' = "stopped" /\ force' = "off" /\ orch = "stopping"
              /\ \A a \in Apps : ~child[a]
           \/ orch' \in {"signalled", "spawn error"} /\ force' = force
    BY <1>2 DEF StopAll, StopEnds, Signalled, SpawnError, Children
  <2>2. TypeOK' /\ CursorTells'
    BY <2>1 DEF TypeOK, CursorTells, reportVars, processVars, Running, Ended
  <2>3. LiveHasChild' /\ EndsWithoutChildren' /\ ForceIsLast'
    BY <2>1 DEF LiveHasChild, EndsWithoutChildren, ForceIsLast, processVars
  <2>4. OnlyReadyIsStale' /\ KillReachesTheGroup'
    BY <2>1 DEF OnlyReadyIsStale, KillReachesTheGroup, processVars
  <2>5. QED
    BY <2>2, <2>3, <2>4
<1>3. QED
  BY <1>1, <1>2

LEMMA ProcessInvariant ==
  ASSUME Invariant, NEW a \in Apps, LeaderEnds(a) \/ ServiceStarts(a) \/ ServiceEnds(a)
  PROVE  Invariant'
<1> USE DEF Invariant
<1>1. UNCHANGED <<taken, orch, cursor, probe, state, child, force, late, reported>>
  BY DEF LeaderEnds, ServiceStarts, ServiceEnds, scriptVars, reportVars
<1>2. /\ leader' \in [Apps -> {"none", "alive", "dead", "failed"}]
      /\ leader' = leader \/ (leader[a] = "alive" /\ leader' = [leader EXCEPT ![a] = "dead"])
  BY DEF LeaderEnds, ServiceStarts, ServiceEnds, TypeOK
<1>3. /\ service' \in [Apps -> BOOLEAN]
      /\ \A b \in Apps : service'[b] => service[b] \/ leader[b] = "alive"
  <2>1. \/ service' = service \/ service' = [service EXCEPT ![a] = FALSE]
        \/ leader[a] = "alive" /\ service' = [service EXCEPT ![a] = TRUE]
    BY DEF LeaderEnds, ServiceStarts, ServiceEnds
  <2>2. QED
    BY <2>1 DEF TypeOK
<1>4. TypeOK'
  BY <1>1, <1>2, <1>3 DEF TypeOK
<1>5. CursorTells'
  <2>1. ASSUME NEW b \in Apps, leader[b] = "none"
        PROVE  leader'[b] = "none"
    BY <1>2, <2>1
  <2>2. QED
    BY <1>1, <2>1 DEF CursorTells
<1>6. LiveHasChild' /\ ForceIsLast' /\ KillReachesTheGroup'
  <2>1. \A b \in Apps : leader'[b] = "alive" => leader[b] = "alive"
    BY <1>2 DEF TypeOK
  <2>2. QED
    BY <1>1, <1>3, <2>1 DEF LiveHasChild, ForceIsLast, KillReachesTheGroup
<1>7. EndsWithoutChildren' /\ OnlyReadyIsStale'
  BY <1>1 DEF EndsWithoutChildren, OnlyReadyIsStale
<1>8. QED
  BY <1>4, <1>5, <1>6, <1>7

LEMMA InvariantHolds == Spec => []Invariant
<1>1. Invariant /\ [Next]_vars => Invariant'
  <2> SUFFICES ASSUME Invariant, [Next]_vars
               PROVE  Invariant'
    OBVIOUS
  <2>1. CASE UNCHANGED vars
    BY <2>1
    DEF vars, scriptVars, processVars, reportVars, Invariant, TypeOK, CursorTells,
        LiveHasChild, EndsWithoutChildren, ForceIsLast, OnlyReadyIsStale,
        KillReachesTheGroup
  <2>2. QED
    BY <2>1, StartInvariant, WatchInvariant, ExitInvariant, StopInvariant, ProcessInvariant
    DEF Next, Script
<1>2. QED
  BY <1>1, InitInvariant, PTL DEF Spec

-----------------------------------------------------------------------------
(* The theorems.                                                            *)

(* Every variable of the script and of its processes keeps its type; the      *)
(* cursor of the watch loop never leaves the list of apps.                    *)
THEOREM TypeCorrect == Spec => []TypeOK
BY InvariantHolds, PTL DEF Invariant

(* A script that ends by itself leaves no app it started alive, however many   *)
(* there are and whatever exits while it probes, waits or stops.              *)
THEOREM NoOrphans == Spec => []NoneLeftBehind
<1>1. Invariant => NoneLeftBehind
  BY DEF Invariant, NoneLeftBehind, LiveHasChild, EndsWithoutChildren
<1>2. QED
  BY <1>1, InvariantHolds, PTL

(* The status table tells whether an app has a child, but for the stale `ready`. *)
THEOREM TableIsTrue == Spec => []OnlyReadyIsStale
BY InvariantHolds, PTL DEF Invariant

(* Once SIGKILL was sent no service runs in the group of a child that is left.  *)
THEOREM KillIsComplete == Spec => []KillReachesTheGroup
BY InvariantHolds, PTL DEF Invariant
=============================================================================
