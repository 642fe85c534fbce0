------------------------------ MODULE MCServices ------------------------------
(***************************************************************************)
(* Instances of the modules about webhooks, rate limits, the request log,  *)
(* the worker's metrics, the configuration, and the scripts that validate  *)
(* the images and run the load test.  They share no variable, so a         *)
(* behaviour follows one of them while the others rest in an initial       *)
(* state.                                                                  *)
(***************************************************************************)
EXTENDS WebhookFanout, MCWebhookDelivery, RateLimiter, RequestLog, WorkerMetrics,
        ProductionValidation, LoadTest, Configuration, TLC

CONSTANTS ev1, ev2, env1, env2

VARIABLE following    \* the module the behaviour follows

Symmetric == Permutations({env1, env2}) \cup Permutations({ev1, ev2})

Tight == [of \in RouteClasses \X Scopes |-> IF of[2] = "ip" THEN 1 ELSE 2]

OneProject == [key \in ApiKeys |-> "p"]

TwoProjects == [endpoint \in Backlogged |-> IF endpoint = 3 THEN "q" ELSE "p"]

ShortCatalog ==
    <<Scenario("s2-payments-write"), Scenario("s3-payments-read"),
      Settle("settle-before-s5"), Scenario("s6-unmatched-404"), Settle("settle-final")>>

AnySelection == {{}, {"s3-payments-read"}, {"s3-payments-read", "s6-unmatched-404"}, {"s0"}}

servicesVars == <<fanVars, vars, limiterVars, httpVars, metricsVars,
                  validationVars, loadVars, configurationVars, following>>

(* A reachable state of LoadSpec: the stack is up and seeded.  A behaviour *)
(* may begin there too, which adds no state and keeps counterexamples of   *)
(* the catalog short.                                                      *)
PreparedInit ==
    /\ asked \in [scenarios : Selections \ {{"s0"}}, noReset : BOOLEAN, keepStack : BOOLEAN,
                  key : {TRUE}]
    /\ point = "quiet" /\ volumes = "seeded" /\ backlog = 0
    /\ up = {"postgres", "redis", "api", "web", "receiver", "worker"}
    /\ todo = {} /\ currentPhase = "preflight"
    /\ sampler = FALSE /\ shots = 0 /\ aloft = {} /\ awaited = 0 /\ samples = <<>>
    /\ report = [scenarios |-> <<>>, settles |-> <<>>, baseline |-> NONE]
    /\ manifest = NONE /\ status = NONE

(* Likewise for the validation: before the negative run against the        *)
(* database, and before the checklist.                                     *)
PreparedValidation ==
    /\ wishes \in [keepStack : BOOLEAN, noBuild : BOOLEAN]
    /\ \/ stage = "unmigrated" /\ containers = Backing /\ schema \in {"none", "kept"}
       \/ stage = "assert" /\ containers = Services /\ schema = "applied"
    /\ stackTouched = TRUE /\ secretsFile = TRUE /\ exposed = FALSE
    /\ verdicts = <<[id |-> "M5-2", passed |-> TRUE]>> /\ exitCode = NONE

ServicesInit ==
    /\ following \in {"events", "deliveries", "limits", "requests", "metrics",
                     "validation", "load", "configuration"}
    /\ LimiterInit
    /\ following # "limits" => failMode = "open"
    /\ RequestLogInit
    /\ following # "requests" => membersOf = {}
    /\ MetricsInit
    /\ following # "metrics" => \A endpoint \in Backlogged : ~Backed(endpoint)
    /\ \/ ValidationInit
       \/ following = "validation" /\ PreparedValidation
    /\ following # "validation" => ~wishes.keepStack /\ ~wishes.noBuild /\ schema = "none" /\ containers = {}
    /\ \/ LoadInit
       \/ following = "load" /\ PreparedInit
    /\ following # "load" => /\ asked = [scenarios |-> {}, noReset |-> FALSE, keepStack |-> FALSE, key |-> TRUE]
                            /\ volumes = "empty"
    /\ ConfigurationInit
    /\ following # "configuration" => concern = "proxies"
    /\ FanInit /\ Init

ServicesNext ==
    \/ /\ following = "events" /\ FanNext
       /\ UNCHANGED <<vars, limiterVars, httpVars, metricsVars, validationVars, loadVars, configurationVars, following>>
    \/ /\ following = "deliveries" /\ Next
       /\ UNCHANGED <<fanVars, limiterVars, httpVars, metricsVars, validationVars, loadVars, configurationVars, following>>
    \/ /\ following = "limits" /\ LimiterNext
       /\ UNCHANGED <<fanVars, vars, httpVars, metricsVars, validationVars, loadVars, configurationVars, following>>
    \/ /\ following = "requests" /\ RequestLogNext
       /\ UNCHANGED <<fanVars, vars, limiterVars, metricsVars, validationVars, loadVars, configurationVars, following>>
    \/ /\ following = "metrics" /\ MetricsNext
       /\ UNCHANGED <<fanVars, vars, limiterVars, httpVars, validationVars, loadVars, configurationVars, following>>
    \/ /\ following = "validation" /\ ValidationNext
       /\ UNCHANGED <<fanVars, vars, limiterVars, httpVars, metricsVars, loadVars, configurationVars, following>>
    \/ /\ following = "load" /\ LoadNext
       /\ UNCHANGED <<fanVars, vars, limiterVars, httpVars, metricsVars, validationVars, configurationVars, following>>
    \/ /\ following = "configuration" /\ ConfigurationNext
       /\ UNCHANGED <<fanVars, vars, limiterVars, httpVars, metricsVars, validationVars, loadVars, following>>

ServicesSpec == ServicesInit /\ [][ServicesNext]_servicesVars
===============================================================================
