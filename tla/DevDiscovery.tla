------------------------------ MODULE DevDiscovery ------------------------------
(***************************************************************************)
(* scripts/dev.mjs before it starts an app: which packages are apps, what   *)
(* their files say of ports and dependencies, what it refuses, and the      *)
(* probes of the dependencies. DevOrchestrator goes on from there, and      *)
(* presumes that an app listens on the port the script knows of and on no   *)
(* other app's; DevScript puts the two together. The apps read their        *)
(* configuration themselves, through Nest's ConfigModule (external): the    *)
(* shell first, then `.env`.                                                *)
(***************************************************************************)
EXTENDS Naturals, Sequences, FiniteSets, FiniteSetsExt

CONSTANTS
  Packages,   \* the workspace packages, by name
  Others,     \* other names that may be asked for
  Texts,      \* values of environment variables, which are not empty
  Number,     \* what Number makes of those that are ports
  Parsed,     \* what new URL makes of those that are connection strings
  Workspaces, \* what the files of the packages may say
  Shells,     \* what the shell may set
  Unset

Services == {"MONGODB_URI", "RABBIT_MQ_CONN"}
Keys == Services \cup {"PORT"}

\* A line sets a key; comments and other lines are left out. Unset: no such file.
File == Seq([key: Keys, value: Texts]) \cup {Unset}

\* script: it has start:dev. http: its main.ts calls .listen(. uses: the connection
\* strings its app.configuration.ts reads.
Package == [script: BOOLEAN, http: BOOLEAN, uses: SUBSET Services, env: File, example: File]

\* host: the text between scheme and port, a comma-separated list of that many
\* members. inner: a member that is not the last has a port.
ConnectionString == [srv: BOOLEAN, host: STRING, members: Nat \ {0}, inner: BOOLEAN,
                     port: Nat \cup {Unset}]

ASSUME FilesAssumption ==
  /\ \A files \in Workspaces : DOMAIN files = Packages /\ \A p \in Packages : files[p] \in Package
  /\ \A shell \in Shells : shell \in [Keys -> Texts \cup {Unset}]
  /\ \A t \in DOMAIN Parsed : Parsed[t] \in ConnectionString
ASSUME NamesAssumption == Packages \cap Others = {} /\ Unset \notin Texts

VARIABLES
  files,    \* package.json, main.ts, .env and .env.example of every package
  shell,    \* the environment of `yarn dev`
  args,     \* the apps it names
  stage,    \* where the script is, or why it refused
  apps,     \* the apps it is to start
  deps,     \* the dependencies it lists
  reachable \* what it knows of each

discoveryVars == <<files, shell, args, stage, apps, deps, reachable>>

DiscoveryInit ==
  /\ files \in Workspaces /\ shell \in Shells /\ args \in SUBSET (Packages \cup Others)
  /\ stage = "reading" /\ apps = {} /\ deps = {} /\ reachable = [d \in {} |-> Unset]

-----------------------------------------------------------------------------
(* Reading the files.                                                       *)

\* A later line replaces an earlier one, as it does for ConfigModule.
parseEnvFile(file, key) ==
  LET settings == IF file = Unset THEN {} ELSE {i \in DOMAIN file : file[i].key = key}
  IN  IF settings = {} THEN Unset ELSE file[Max(settings)].value


\* .env, or .env.example in its place.
EnvOf(p, key) ==
  parseEnvFile(IF files[p].env # Unset THEN files[p].env ELSE files[p].example, key)

PortOr3000(text) == IF text = Unset THEN 3000 ELSE Number[text]

\* Every text set for PORT is taken to be a port.
PortOf(p) == PortOr3000(EnvOf(p, "PORT"))

Discovered == {p \in Packages : files[p].script}
Chosen == IF args = {} THEN Discovered ELSE Discovered \cap args

\* Mutant: a clash takes more than two apps.
ClashOfThree(chosen) ==
  \E port \in {PortOf(p) : p \in chosen} :
    Cardinality({p \in chosen : files[p].http /\ PortOf(p) = port}) > 2

Clash(chosen) ==
  \E p, q \in {r \in chosen : files[r].http} : p # q /\ PortOf(p) = PortOf(q)

-----------------------------------------------------------------------------
(* The dependencies.                                                        *)

DefaultPort == [MONGODB_URI |-> 27017, RABBIT_MQ_CONN |-> 5672]

\* new URL refuses a list of hosts for the port of an inner one only: commas are
\* legal in a host that is not of a web scheme.
Endpoint(key, text) ==
  LET c == Parsed[text] IN
  IF c.srv \/ c.inner
    THEN [label |-> key, probed |-> FALSE, target |-> <<text>>]
    ELSE [label |-> key, probed |-> TRUE,
          target |-> <<c.host, IF c.port = Unset THEN DefaultPort[key] ELSE c.port>>]

Endpoints(p) == {Endpoint(key, EnvOf(p, key)) : key \in {k \in Services : EnvOf(p, k) # Unset}}

\* Mutant: an endpoint already listed is not shown as used by the next app.
UsedByTheFirst(chosen) ==
  {[at |-> e, usedBy |-> {CHOOSE p \in chosen : e \in Endpoints(p)}] :
     e \in UNION {Endpoints(p) : p \in chosen}}

collectDependencies(chosen) ==
  {[at |-> e, usedBy |-> {p \in chosen : e \in Endpoints(p)}] :
     e \in UNION {Endpoints(p) : p \in chosen}}

-----------------------------------------------------------------------------
(* The script.                                                              *)

Refuse(reason) ==
  /\ stage = "reading"
  /\ stage' = reason
  /\ UNCHANGED <<files, shell, args, apps, deps, reachable>>

RefuseUnknown == Refuse("unknown apps") /\ ~(args \subseteq Discovered)
RefuseNone == Refuse("no apps") /\ args \subseteq Discovered /\ Chosen = {}
RefuseClash == Refuse("port clash") /\ args \subseteq Discovered /\ Clash(Chosen)

\* All in one turn, up to the probes, which run side by side.
Collect ==
  /\ stage = "reading"
  /\ args \subseteq Discovered /\ Chosen # {} /\ ~Clash(Chosen)
  /\ stage' = "probing"
  /\ apps' = Chosen
  /\ deps' = collectDependencies(Chosen)
  /\ reachable' = [d \in deps' |-> Unset]
  /\ UNCHANGED <<files, shell, args>>

\* canConnect: a connection, or an error or the timeout.
ProbeEnds(d) ==
  /\ stage = "probing" /\ d.at.probed /\ reachable[d] = Unset
  /\ \E answer \in BOOLEAN : reachable' = [reachable EXCEPT ![d] = answer]
  /\ UNCHANGED <<files, shell, args, stage, apps, deps>>

\* Mutant: the probes are not awaited.
StartAtOnce ==
  /\ stage = "probing"
  /\ stage' = "starting"
  /\ UNCHANGED <<files, shell, args, apps, deps, reachable>>

StartApps ==
  /\ stage = "probing"
  /\ \A d \in deps : d.at.probed => reachable[d] # Unset
  /\ stage' = "starting"
  /\ UNCHANGED <<files, shell, args, apps, deps, reachable>>

Discovers ==
  \/ RefuseUnknown \/ RefuseNone \/ RefuseClash \/ Collect \/ StartApps
  \/ \E d \in deps : ProbeEnds(d)

-----------------------------------------------------------------------------
(* What the apps make of the same files. An app never reads .env.example.   *)

Setting(p, key) ==
  IF shell[key] # Unset THEN shell[key] ELSE parseEnvFile(files[p].env, key)

ListensOn(p) == PortOr3000(Setting(p, "PORT"))
HttpApps == {p \in apps : files[p].http}
OwnFile(p, key) == files[p].env # Unset /\ shell[key] = Unset

-----------------------------------------------------------------------------
(* Properties.                                                              *)


(* Two apps that are started share a port only if one of them has no .env or *)
(* the shell sets PORT: the check for clashes sees every other case.         *)
SharedPortsHaveACause ==
  \A p, q \in HttpApps :
    p # q /\ ListensOn(p) = ListensOn(q) => ~OwnFile(p, "PORT") \/ ~OwnFile(q, "PORT")

(* When the apps are started, each connection string an app's .env sets is    *)
(* listed as used by it, with an answer if it was to be probed (header of     *)
(* dev.mjs: "a missing dependency shows up front").                         *)
ListsWhatItUses ==
  stage = "starting" =>
    \A p \in apps : \A key \in files[p].uses :
      OwnFile(p, key) /\ Setting(p, key) # Unset =>
        \E d \in deps : /\ p \in d.usedBy /\ d.at = Endpoint(key, Setting(p, key))
                        /\ d.at.probed => reachable[d] \in BOOLEAN

=============================================================================
