------------------------------- MODULE Router -------------------------------
(***************************************************************************)
(* The LLM router (pkg/llm/router.go): requests try the providers of one   *)
(* configuration in the order of their priority until one answers, while   *)
(* UpdateProviders may put another configuration in its place.  A request  *)
(* copies the list of providers under the lock, and reads the              *)
(* configurations, for a provider's model and timeout, without it.         *)
(***************************************************************************)
EXTENDS Integers, FiniteSets, SequencesExt

CONSTANTS
  Callers,        (* requests                                                *)
  Configurations, (* lists of provider configurations, by name               *)
  MaxUpdates      (* bound: calls of UpdateProviders                         *)

ProviderConfig ==
  [name : STRING, model : STRING, priority : Int, timeout : BOOLEAN]

ASSUME ConfigurationsAssumption == Configurations \subseteq Seq(ProviderConfig)

VARIABLES
  configs,    (* r.configs                                                   *)
  providers,  (* r.providers; a provider keeps the configuration it is of    *)
  updates,    (* updates still to come                                       *)
  asking,     (* of each request: its kind and where it is                   *)
  list,       (* of each request: its copy of the providers                  *)
  tried,      (* of each request: what it has asked, as [of, model]          *)
  inForce,    (* history: the configurations when the request began          *)
  cancelled   (* the requests whose caller has given up                      *)

routerVars ==
  <<configs, providers, updates, asking, list, tried, inForce, cancelled>>

NoConfig == [name |-> "", model |-> "", priority |-> 0, timeout |-> FALSE]

(* Providers are sorted by a map from names to priorities: among several of   *)
(* one name the last gives the priority.  The sort is stable.                 *)
PriorityMap(cfgs, name) ==
  cfgs[Max({i \in DOMAIN cfgs : cfgs[i].name = name})].priority

Before(cfgs, i) ==
  {j \in DOMAIN cfgs :
     LET mine   == PriorityMap(cfgs, cfgs[i].name)
         theirs == PriorityMap(cfgs, cfgs[j].name)
     IN  theirs < mine \/ (theirs = mine /\ j < i)}

SortProviders(cfgs) ==
  [k \in DOMAIN cfgs |->
     cfgs[CHOOSE i \in DOMAIN cfgs : Cardinality(Before(cfgs, i)) = k - 1]]

RouterInit ==
  /\ configs \in Configurations /\ providers = SortProviders(configs)
  /\ updates = MaxUpdates /\ cancelled = {}
  /\ asking = [c \in Callers |-> [kind |-> "none", at |-> "idle"]]
  /\ list = [c \in Callers |-> <<>>] /\ tried = [c \in Callers |-> <<>>]
  /\ inForce = [c \in Callers |-> <<>>]

UpdateProviders ==
  /\ updates > 0 /\ updates' = updates - 1
  /\ configs' \in Configurations /\ providers' = SortProviders(configs')
  /\ UNCHANGED <<asking, list, tried, inForce, cancelled>>

-----------------------------------------------------------------------------
(* Complete, Stream and HealthCheck.                                          *)

At(c, place) == asking' = [asking EXCEPT ![c].at = place]

GetProviders(c, kind) ==
  /\ asking[c].at = "idle"
  /\ list' = [list EXCEPT ![c] = providers] /\ inForce' = [inForce EXCEPT ![c] = configs]
  /\ asking' = [asking EXCEPT ![c] =
       [kind |-> kind,
        at |-> IF providers # <<>> THEN "trying"
               ELSE IF kind = "health" THEN "reported" ELSE "failed"]]
  /\ UNCHANGED <<configs, providers, updates, tried, cancelled>>

(* Mutant: no copy, the loop runs over whatever r.providers has become.       *)
LiveProvider(c) == (providers \o list[c])[Len(tried[c]) + 1]

NextProvider(c) == list[c][Len(tried[c]) + 1]

(* The first configuration of the provider's name, in r.configs as it is now. *)
FindConfig(name) ==
  LET i == SelectInSeq(configs, LAMBDA cfg : cfg.name = name)
  IN  IF i = 0 THEN NoConfig ELSE configs[i]

Ask(c) ==
  /\ asking[c].at = "trying"
  /\ tried' = [tried EXCEPT ![c] =
       Append(@, [of |-> NextProvider(c), model |-> FindConfig(NextProvider(c).name).model])]
  /\ UNCHANGED <<configs, providers, updates, list, inForce, cancelled>>

IsLast(c) == Len(tried[c]) + 1 = Len(list[c])

(* A stream is handed over after its context with the timeout is cancelled.   *)
Succeeds(c) ==
  /\ asking[c].kind # "health" /\ Ask(c)
  /\ At(c, IF asking[c].kind = "stream" /\ FindConfig(NextProvider(c).name).timeout
           THEN "cut off" ELSE "answered")

Fails(c) ==
  /\ asking[c].kind # "health" /\ Ask(c)
  /\ At(c, IF c \in cancelled THEN "cancelled" ELSE IF IsLast(c) THEN "failed" ELSE "trying")

Reports(c) ==
  /\ asking[c].kind = "health" /\ Ask(c)
  /\ At(c, IF IsLast(c) THEN "reported" ELSE "trying")

Cancel(c) ==
  /\ asking[c].at = "trying" /\ c \notin cancelled /\ cancelled' = cancelled \cup {c}
  /\ UNCHANGED <<configs, providers, updates, asking, list, tried, inForce>>

RouterNext ==
  \/ UpdateProviders
  \/ \E c \in Callers :
       \/ \E kind \in {"complete", "stream", "health"} : GetProviders(c, kind)
       \/ Succeeds(c) \/ Fails(c) \/ Reports(c) \/ Cancel(c)

RouterSpec == RouterInit /\ [][RouterNext]_routerVars

-----------------------------------------------------------------------------
(* "Automatic failover" (README.md:161), whatever updates come in between: a  *)
(* request asks providers of the configurations in force when it began, each  *)
(* once and none before one of a better priority, and it fails only when it   *)
(* has asked them all or its caller has given up (router.go:80-101, 104-122,  *)
(* 256-276).  Said of configurations in which no name comes twice.            *)
FailoverInOrder ==
  \A c \in Callers :
    LET asked == [i \in DOMAIN tried[c] |-> tried[c][i].of]
    IN  (\A i, j \in DOMAIN inForce[c] : inForce[c][i].name = inForce[c][j].name => i = j) =>
          /\ ToSet(asked) \subseteq ToSet(inForce[c])
          /\ \A i, j \in DOMAIN asked :
               i < j => asked[i].priority <= asked[j].priority /\ asked[i] # asked[j]
          /\ \A i \in DOMAIN asked : \A cfg \in ToSet(inForce[c]) \ ToSet(asked) :
               asked[i].priority <= cfg.priority
          /\ asking[c].at \in {"failed", "reported"} => ToSet(asked) = ToSet(inForce[c])
=============================================================================
