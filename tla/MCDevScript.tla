----------------------------- MODULE MCDevScript --------------------------------
(* The repository's three apps and a package without start:dev, with .env files  *)
(* that leave keys out, set one twice, or are missing.                           *)
EXTENDS DevScript, TLC

String(host, members, inner, port) ==
  [srv |-> FALSE, host |-> host, members |-> members, inner |-> inner, port |-> port]

MCNumber == "3000" :> 3000 @@ "4321" :> 4321 @@ "4322" :> 4322

MCParsed ==
  "local" :> String("localhost", 1, FALSE, Unset)
  @@ "local with port" :> String("localhost", 1, FALSE, 27017)
  @@ "cloud" :> [String("cluster", 1, FALSE, Unset) EXCEPT !.srv = TRUE]
  @@ "two hosts" :> String("h1,h2", 2, FALSE, Unset)
  @@ "two hosts with ports" :> String("h1,h2", 2, TRUE, 27017)

MCTexts == DOMAIN MCNumber \cup DOMAIN MCParsed

Port(text) == [key |-> "PORT", value |-> text]
Mongo(text) == [key |-> "MONGODB_URI", value |-> text]
Rabbit(text) == [key |-> "RABBIT_MQ_CONN", value |-> text]

ApiFiles == {Unset, <<>>, <<Mongo("local"), Port("4321")>>, <<Port("4321"), Port("4322")>>,
             <<Mongo("two hosts"), Port("3000")>>}
IdpFiles == {Unset, <<Rabbit("local")>>, <<Port("4322"), Rabbit("local")>>}
WorkerFiles == {<<Mongo(text), Rabbit("local")>> :
                  text \in {"local with port", "cloud", "two hosts with ports"}}

Described(script, http, uses, env, example) ==
  [script |-> script, http |-> http, uses |-> uses, env |-> env, example |-> example]

MCWorkspaces ==
  {"api" :> Described(TRUE, TRUE, {"MONGODB_URI"}, a, <<Mongo("local"), Port("4321")>>)
   @@ "idp" :> Described(TRUE, TRUE, {"RABBIT_MQ_CONN"}, i, <<Port("4322"), Rabbit("local")>>)
   @@ "worker" :> Described(scripted, FALSE, Services, w, Unset)
   @@ "library" :> Described(FALSE, FALSE, {}, Unset, Unset) :
     a \in ApiFiles, i \in IdpFiles, w \in WorkerFiles, scripted \in BOOLEAN}
  \cup {[p \in {"api", "idp", "worker", "library"} |->
           Described(FALSE, FALSE, {}, Unset, Unset)]}

MCOrder == <<"worker", "idp", "library", "api">>

MCShells == {[key \in Keys |-> Unset], [key \in Keys |-> IF key = "PORT" THEN "3000" ELSE Unset]}
=============================================================================
