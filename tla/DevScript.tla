-------------------------------- MODULE DevScript --------------------------------
(***************************************************************************)
(* `yarn dev` from end to end: DevDiscovery chooses the apps, DevOrchestrator *)
(* runs those that it leaves to start. Nothing the orchestrator does depends *)
(* on what the files said beyond how many apps there are and which of them   *)
(* listen on a port.                                                        *)
(***************************************************************************)
EXTENDS DevDiscovery, DevOrchestrator

CONSTANT Order \* the packages, as discovered

ASSUME OrderAssumption == \A p \in Packages : \E i \in DOMAIN Order : Order[i] = p

allVars == <<discoveryVars, vars>>

ScriptInit == DiscoveryInit /\ Init

\* The positions in `apps` of some of them.
Positions(some) ==
  {Cardinality({j \in 1..i : Order[j] \in apps}) : i \in {k \in DOMAIN Order : Order[k] \in some}}

\* The dependencies have been listed and the start-up loop begins. What was read is
\* not read again and is forgotten.
Launch ==
  /\ stage = "starting"
  /\ N = Cardinality(apps) /\ Http = Positions(HttpApps)
  /\ stage' = "launched"
  /\ files' = <<>> /\ shell' = <<>> /\ args' = {} /\ apps' = {} /\ deps' = {} /\ reachable' = <<>>
  /\ UNCHANGED vars

Launched(A) == stage = "launched" /\ A /\ UNCHANGED discoveryVars

ScriptNext ==
  \/ Discovers /\ UNCHANGED vars
  \/ Launch
  \/ Launched(Next)

\* Node runs what is due: callbacks of the children, timers, continuations. Nothing
\* is assumed of users or of the apps.
Fairness ==
  /\ WF_allVars(Launched(StartWorker \/ StartHttp \/ SpawnError \/ StartupEnds))
  /\ WF_allVars(Launched(Probe \/ Watch \/ WatchAgain))
  /\ \A a \in Apps : WF_allVars(Launched(Exit(a)))
  /\ WF_allVars(Launched(KillLeft)) /\ WF_allVars(Launched(StopEnds))
  /\ WF_allVars(Launched(Deadline))

ScriptSpec == ScriptInit /\ [][ScriptNext]_allVars /\ Fairness
=============================================================================
