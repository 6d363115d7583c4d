---------------------------- MODULE DevOrchestrator ----------------------------
(***************************************************************************)
(* scripts/dev.mjs, `yarn dev`: starts every app in a process group of its *)
(* own (yarn, which runs nest, which runs the service), watches the HTTP   *)
(* ports and stops everything on q or Ctrl+C. The script is one event loop: *)
(* an action is what runs between two awaits or in one callback. Layout and *)
(* logging are left out; what the script does before is DevDiscovery's.     *)
(***************************************************************************)
EXTENDS Naturals

CONSTANTS
  N,     \* how many apps there are; an app is its position in `apps`
  Http   \* the apps that listen on a port

ASSUME AppsAssumption == N \in Nat \ {0} /\ Http \subseteq 1..N

Apps == 1..N

VARIABLES
  taken,   \* ports some other program listens on
  orch,    \* what the script is doing, or why it ended
  cursor,  \* where the start-up loop, then the watch loop, is
  probe,   \* outcome of the canConnect being awaited
  state,   \* app.state
  child,   \* whether app.child is set
  force,   \* the SIGKILL timer of stopAll
  late,    \* whether READY_TIMEOUT_MS has passed
  reported,\* whether the first status report was printed
  leader,  \* the yarn process of each app, leader of its group
  service  \* whether the service below it runs

reportVars == <<late, reported>>
scriptVars == <<orch, cursor, probe, state, child, force, reportVars>>
processVars == <<leader, service>>
vars == <<taken, scriptVars, processVars>>

Running == {"starting", "running", "stopping"}
Ended   == {"nothing started", "all exited", "stopped", "signalled", "spawn error"}
Asleep  == N + 1

Children == {a \in Apps : child[a]}
Listening(a) == a \in taken \/ service[a]

\* Callbacks run while the main module awaits, which the start-up loop does at HTTP
\* apps only. The 'error' event of a failed spawn comes before any other.
Turn == /\ orch = "starting" => cursor \in Http
        /\ \A a \in Apps : leader[a] # "failed"

Init ==
  /\ taken \in SUBSET Http
  /\ orch = "starting" /\ cursor = 1 /\ probe = "none" /\ force = "off"
  /\ late = FALSE /\ reported = FALSE
  /\ state = [a \in Apps |-> "pending"]
  /\ child = [a \in Apps |-> FALSE]
  /\ leader = [a \in Apps |-> "none"]
  /\ service = [a \in Apps |-> FALSE]

-----------------------------------------------------------------------------
(* Starting.                                                                *)

\* spawn either makes a process or reports an 'error' event later; the child object
\* exists at once in both cases.
Start(a) ==
  /\ child' = [child EXCEPT ![a] = TRUE]
  /\ state' = [state EXCEPT ![a] = IF a \in Http THEN "starting" ELSE "running"]
  /\ \E outcome \in {"alive", "failed"} : leader' = [leader EXCEPT ![a] = outcome]
  /\ UNCHANGED service

StartWorker ==
  /\ orch = "starting" /\ cursor \in Apps \ Http
  /\ Start(cursor)
  /\ cursor' = cursor + 1
  /\ UNCHANGED <<taken, reportVars, orch, probe, force>>

\* An app whose port already answers is skipped; one that answers too late is not.
StartHttp ==
  /\ orch = "starting" /\ cursor \in Http /\ probe # "none" /\ Turn
  /\ \/ probe = "down" /\ Start(cursor)
     \/ /\ probe = "up"
        /\ state' = [state EXCEPT ![cursor] = "skipped"]
        /\ UNCHANGED <<child, processVars>>
  /\ cursor' = cursor + 1
  /\ probe' = "none"
  /\ UNCHANGED <<taken, reportVars, orch, force>>

\* An 'error' event nobody listens to ends the script.
SpawnError ==
  /\ orch \in Running
  /\ orch = "starting" => cursor \in Http
  /\ \E a \in Apps : leader[a] = "failed"
  /\ orch' = "spawn error"
  /\ UNCHANGED <<taken, reportVars, cursor, probe, state, child, force, processVars>>

\* Mutant: the loop starts one app late.
WatchedAfter(i) == CHOOSE j \in (i + 1)..(Asleep + 1) :
  /\ j > Asleep \/ (j \in Http /\ child[j])
  /\ \A k \in (i + 1)..(j - 1) : ~(k \in Http /\ child[k])

\* The next app the watch loop probes, from position i on.
WatchedFrom(i) == CHOOSE j \in i..Asleep :
  /\ j = Asleep \/ (j \in Http /\ child[j])
  /\ \A k \in i..(j - 1) : ~(k \in Http /\ child[k])

AllReady == \A a \in Http : child[a] => state[a] = "ready"

\* Mutant: no deadline.
RoundEndsInTime ==
  /\ reported' = (reported \/ (cursor' = Asleep /\ AllReady'))
  /\ UNCHANGED late

\* Once a round of probes is over: the first report, when every app is ready or the
\* deadline has passed.
RoundEnds ==
  /\ reported' = (reported \/ (cursor' = Asleep /\ (late \/ AllReady')))
  /\ UNCHANGED late

\* The end of the main module: signal handlers are set and the watch loop begins.
StartupEnds ==
  /\ orch = "starting" /\ cursor = N + 1
  /\ UNCHANGED <<taken, probe, state, child, force, processVars>>
  /\ IF Children = {}
       THEN orch' = "nothing started" /\ UNCHANGED <<cursor, reportVars>>
       ELSE orch' = "running" /\ cursor' = WatchedFrom(1) /\ RoundEnds

-----------------------------------------------------------------------------
(* Watching.                                                                *)

\* canConnect: the port answers, or it refuses or takes longer than the timeout.
Probe ==
  /\ orch \in Running /\ cursor \in Http /\ probe = "none" /\ Turn
  /\ \/ Listening(cursor) /\ probe' = "up"
     \/ probe' = "down"
  /\ UNCHANGED <<taken, reportVars, orch, cursor, state, child, force, processVars>>

\* Mutant: any app that does not answer is `starting`.
WatchForgetful ==
  /\ orch \in {"running", "stopping"} /\ probe # "none" /\ Turn
  /\ state' = [state EXCEPT ![cursor] = IF probe = "up" THEN "ready" ELSE "starting"]
  /\ cursor' = WatchedFrom(cursor + 1)
  /\ probe' = "none"
  /\ UNCHANGED <<taken, orch, child, force, processVars>>
  /\ RoundEnds

\* The probe's answer: the app may have exited during the await.
Watch ==
  /\ orch \in {"running", "stopping"} /\ probe # "none" /\ Turn
  /\ state' = [state EXCEPT ![cursor] =
                 CASE probe = "up" -> "ready"
                   [] probe = "down" /\ state[cursor] = "ready" -> "starting"
                   [] OTHER -> state[cursor]]
  /\ cursor' = WatchedFrom(cursor + 1)
  /\ probe' = "none"
  /\ UNCHANGED <<taken, orch, child, force, processVars>>
  /\ RoundEnds

\* Another round after the pause. `if (stopping) return` ends the loop for good.
WatchAgain ==
  /\ orch = "running" /\ cursor = Asleep /\ Turn
  /\ cursor' = WatchedFrom(1)
  /\ UNCHANGED <<taken, orch, probe, state, child, force, processVars>>
  /\ RoundEnds

\* Ninety seconds after the watch loop began.
Deadline ==
  /\ orch \in {"running", "stopping"} /\ ~late
  /\ late' = TRUE
  /\ UNCHANGED <<taken, orch, cursor, probe, state, child, force, reported, processVars>>

-----------------------------------------------------------------------------
(* Exits and stopping.                                                      *)

\* Mutant: the check for the last exit is left to stopAll.
ExitWithoutCheck(a) ==
  /\ orch \in Running /\ Turn
  /\ child[a] /\ leader[a] = "dead"
  /\ child' = [child EXCEPT ![a] = FALSE]
  /\ state' = [state EXCEPT ![a] = IF orch = "stopping" THEN "stopped" ELSE "exited"]
  /\ UNCHANGED <<taken, reportVars, orch, cursor, probe, force, processVars>>

\* The 'exit' event of a child; without children left the script ends with code 1.
Exit(a) ==
  /\ orch \in Running /\ Turn
  /\ child[a] /\ leader[a] = "dead"
  /\ child' = [child EXCEPT ![a] = FALSE]
  /\ state' = [state EXCEPT ![a] = IF orch = "stopping" THEN "stopped" ELSE "exited"]
  /\ orch' = IF orch # "stopping" /\ Children = {a} THEN "all exited" ELSE orch
  /\ UNCHANGED <<taken, reportVars, cursor, probe, force, processVars>>

\* Mutant: the script ends once it has sent SIGINT.
StopWithoutWaiting ==
  /\ orch = "running" /\ Turn
  /\ orch' = "stopped"
  /\ UNCHANGED <<taken, reportVars, cursor, probe, state, child, force, processVars>>

\* q, Ctrl+C or SIGTERM: SIGINT goes to every group. How processes answer it is
\* up to them (LeaderEnds, ServiceEnds): it needs no state here.
StopAll ==
  /\ orch = "running" /\ Turn
  /\ orch' = "stopping"
  /\ force' = "armed"
  /\ UNCHANGED <<taken, reportVars, cursor, probe, state, child, processVars>>

\* Mutant: the timer sends SIGINT once more.
ForceGently ==
  /\ orch = "stopping" /\ force = "armed" /\ Turn
  /\ force' = "fired"
  /\ UNCHANGED <<taken, reportVars, orch, cursor, probe, state, child, processVars>>

\* Mutant: SIGKILL to yarn only, not to its group.
ForceLeader ==
  /\ orch = "stopping" /\ force = "armed" /\ Turn
  /\ force' = "fired"
  /\ leader' = [a \in Apps |-> IF child[a] THEN "dead" ELSE leader[a]]
  /\ UNCHANGED <<taken, reportVars, orch, cursor, probe, state, child, service>>

\* After STOP_GRACE_MS, SIGKILL to the groups of the children that are left.
KillLeft ==
  /\ orch = "stopping" /\ force = "armed" /\ Turn
  /\ force' = "fired"
  /\ leader' = [a \in Apps |-> IF child[a] THEN "dead" ELSE leader[a]]
  /\ service' = [a \in Apps |-> service[a] /\ ~child[a]]
  /\ UNCHANGED <<taken, reportVars, orch, cursor, probe, state, child>>

\* The interval that waits for the last child.
StopEnds ==
  /\ orch = "stopping" /\ Children = {} /\ Turn
  /\ orch' = "stopped" /\ force' = "off"
  /\ UNCHANGED <<taken, reportVars, cursor, probe, state, child, processVars>>

\* SIGINT and SIGTERM before their handlers are set, SIGHUP at any time: the
\* script dies and signals nobody.
Signalled ==
  /\ orch \in Running
  /\ orch' = "signalled"
  /\ UNCHANGED <<taken, reportVars, cursor, probe, state, child, force, processVars>>

-----------------------------------------------------------------------------
(* The processes. Nest's watch mode stops and starts the service at will.    *)

LeaderEnds(a) ==
  /\ leader[a] = "alive"
  /\ leader' = [leader EXCEPT ![a] = "dead"]
  /\ \/ UNCHANGED service
     \/ service' = [service EXCEPT ![a] = FALSE]
  /\ UNCHANGED <<taken, scriptVars>>

ServiceStarts(a) ==
  /\ leader[a] = "alive" /\ ~service[a]
  /\ a \notin taken
  /\ service' = [service EXCEPT ![a] = TRUE]
  /\ UNCHANGED <<taken, scriptVars, leader>>

ServiceEnds(a) ==
  /\ service[a]
  /\ service' = [service EXCEPT ![a] = FALSE]
  /\ UNCHANGED <<taken, scriptVars, leader>>

-----------------------------------------------------------------------------
Script ==
  \/ StartWorker \/ StartHttp \/ SpawnError \/ StartupEnds
  \/ Probe \/ Watch \/ WatchAgain \/ Deadline
  \/ \E a \in Apps : Exit(a)
  \/ KillLeft \/ StopEnds

Next ==
  \/ Script \/ StopAll \/ Signalled
  \/ \E a \in Apps : LeaderEnds(a) \/ ServiceStarts(a) \/ ServiceEnds(a)

Spec == Init /\ [][Next]_vars

-----------------------------------------------------------------------------
(* Properties.                                                              *)

TypeOK ==
  /\ taken \subseteq Http
  /\ orch \in Running \cup Ended
  /\ cursor \in 1..Asleep
  /\ probe \in {"none", "up", "down"}
  /\ state \in [Apps -> {"pending", "skipped", "starting", "running", "ready",
                         "exited", "stopped"}]
  /\ child \in [Apps -> BOOLEAN]
  /\ force \in {"off", "armed", "fired"}
  /\ late \in BOOLEAN /\ reported \in BOOLEAN
  /\ leader \in [Apps -> {"none", "alive", "dead", "failed"}]
  /\ service \in [Apps -> BOOLEAN]

(* When the script ends of its own accord, after q, Ctrl+C or the last exit, no  *)
(* yarn process it started is alive, whatever exits, signals and probes came in *)
(* between (README.md: "q + Enter or Ctrl+C to stop every app"). A signal without *)
(* a handler and a failed spawn are the two ways to leave some behind.          *)
NoneLeftBehind ==
  orch \in {"nothing started", "all exited", "stopped"} =>
    \A a \in Apps : leader[a] # "alive"

(* The status table is wrong in one way only: an app may be `ready` that has     *)
(* exited, when the exit came while its port was being probed (watchHttpApps    *)
(* reads app.child before the await and sets the state after it).               *)
OnlyReadyIsStale ==
  \A a \in Apps : state[a] # "ready" =>
    (child[a] <=> state[a] \in {"starting", "running"})

(* SIGKILL ends whole process groups: a service that outlives it belongs to an   *)
(* app whose yarn had ended, and been reported, before (comment of spawn:       *)
(* "stopping reaches the whole yarn -> nest -> node chain, not just yarn").     *)
KillReachesTheGroup ==
  force = "fired" => \A a \in Apps : service[a] => ~child[a]

(* Once asked to stop, the script does end, even if the apps ignore SIGINT:      *)
(* the timer kills them, or a signal gets there first.                          *)
StopIsFinite == orch = "stopping" ~> orch \in Ended

(* The script does not outlive its apps: when the last one is gone it ends,      *)
(* whether that happens before the watch loop begins, during it or in a stop.     *)
EndsWithTheLast ==
  orch \in {"running", "stopping"} /\ (\A a \in Apps : leader[a] # "alive")
    ~> orch \in Ended

(* The status report comes, even if an app never gets ready, unless the script   *)
(* is stopped or ends first (README.md: "once the apps are up it prints a status  *)
(* report"; READY_TIMEOUT_MS, 90 s).                                            *)
ReportComes == orch = "running" ~> reported \/ orch # "running"

=============================================================================
