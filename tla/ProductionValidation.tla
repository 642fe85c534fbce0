-------------------------- MODULE ProductionValidation --------------------------
(***************************************************************************)
(* The validation of the production images (docker/production/validate.mjs) *)
(* one process that builds the images, brings a throwaway stack up in the  *)
(* order a deployment has to follow, runs its checklist against it and     *)
(* answers with an exit code.                                              *)
(*                                                                         *)
(* Every docker call can fail, every wait can time out, and the process    *)
(* has three ways out that treat the stack and the file with the run's     *)
(* secrets differently: the end of main(), fail(), and an exception that   *)
(* reaches the catch of main().  A signal is the fourth.                   *)
(***************************************************************************)
EXTENDS Integers, Sequences, SequencesExt, Absence

VARIABLES
    wishes,         \* opts: --keep-stack and --no-build
    stage,          \* what main() does next
    stackTouched,
    secretsFile,    \* ENV_FILE is on disk
    containers,     \* the services of the compose project that run
    schema,         \* whether its database is migrated, and by whom
    exposed,        \* the API runs with METRICS_ENABLED
    verdicts,       \* results
    exitCode        \* NONE while the process runs

validationVars == <<wishes, stage, stackTouched, secretsFile, containers,
                    schema, exposed, verdicts, exitCode>>

Backing == {"postgres", "redis"}
Services == Backing \cup {"api", "worker", "web"}

(* The checks in the order main() reaches them.                            *)
Checklist == <<"M5-2", "M5-1", "M5-3", "M5-4", "M5-5", "M5-6", "M5-6b",
               "M5-7", "M5-8", "M5-9">>

(* What the shell sees of a process that SIGINT ended.                     *)
Signalled == 130

ASSUME NoneIsNoExitCode == NONE \notin {0, 1, Signalled}

ValidationTypeOK ==
    /\ wishes \in [keepStack : BOOLEAN, noBuild : BOOLEAN]
    /\ stage \in {"preflight", "environment", "build", "refusals", "dependencies", "healthy",
                  "unmigrated", "refused", "migrate", "start", "ready", "assert", "recreated", "ended"}
    /\ {stackTouched, secretsFile, exposed} \subseteq BOOLEAN
    /\ containers \subseteq Services /\ schema \in {"none", "kept", "applied"}
    /\ verdicts \in Seq([id : ToSet(Checklist), passed : BOOLEAN])
    /\ exitCode \in {NONE, 0, 1, Signalled}

(* A run before this one may have kept its stack, or left a part of it     *)
(* when it was killed or could not bring it up.                            *)
ValidationInit ==
    /\ wishes \in [keepStack : BOOLEAN, noBuild : BOOLEAN]
    /\ stage = "preflight"
    /\ stackTouched = FALSE /\ secretsFile = FALSE /\ exposed = FALSE
    /\ \/ schema = "none" /\ containers \in SUBSET (Backing \cup {"api"})
       \/ schema = "kept" /\ containers \in {Backing \cup started : started \in SUBSET Services}
    /\ verdicts = <<>> /\ exitCode = NONE

--------------------------------------------------------------------------------
(* The ways out *)

(* Whoever ends in order removes the secrets.                              *)
Ends(code) == stage' = "ended" /\ exitCode' = code /\ secretsFile' = FALSE

(* `down -v`; nobody looks at its status.                                  *)
TornDown(up) ==
    \/ containers' = {} /\ schema' = "none"
    \/ containers' = up /\ UNCHANGED schema

(* The stack goes only if the process knows that it exists.                *)
fail(up) ==
    /\ Ends(1)
    /\ IF stackTouched /\ ~ wishes.keepStack
       THEN TornDown(up)
       ELSE containers' = up /\ UNCHANGED schema
    /\ UNCHANGED <<wishes, stackTouched, exposed, verdicts>>

(* An exception no check() holds back: main().catch, which leaves the      *)
(* stack as it is.                                                         *)
Throws == Ends(1) /\ UNCHANGED <<wishes, stackTouched, containers, schema, exposed, verdicts>>

Killed ==
    /\ stage # "ended"
    /\ stage' = "ended" /\ exitCode' = Signalled
    /\ UNCHANGED <<wishes, stackTouched, secretsFile, containers, schema, exposed, verdicts>>

--------------------------------------------------------------------------------
(* The phases *)

To(next) == stage' = next /\ UNCHANGED <<wishes, exitCode, exposed, verdicts>>

preflight ==
    /\ stage = "preflight"
    /\ \/ fail(containers)
       \/ /\ To("environment")
          /\ UNCHANGED <<stackTouched, secretsFile, containers, schema>>

writeEnvFile ==
    /\ stage = "environment"
    /\ \/ Throws
       \/ /\ To("build")
          /\ secretsFile' = TRUE
          /\ UNCHANGED <<stackTouched, containers, schema>>

buildImages ==
    /\ stage = "build"
    /\ \/ ~ wishes.noBuild /\ fail(containers)
       \/ /\ To("refusals")
          /\ UNCHANGED <<stackTouched, secretsFile, containers, schema>>

(* `up -d postgres redis` can leave one of the two behind.                 *)
startDependencies ==
    /\ stage = "dependencies"
    /\ \/ \E started \in SUBSET Backing : fail(containers \cup started)
       \/ /\ To("healthy")
          /\ stackTouched' = TRUE
          /\ containers' = containers \cup Backing
          /\ UNCHANGED <<secretsFile, schema>>

DependenciesHealthy ==
    /\ stage = "healthy"
    /\ \/ fail(containers)
       \/ /\ To("unmigrated")
          /\ UNCHANGED <<stackTouched, secretsFile, containers, schema>>

(* Mutant: nobody looks at the answer of the domain call.                  *)
RefusesAnyhow == TRUE

(* A database that an earlier run migrated answers the domain call.        *)
Refuses == schema = "none"

(* The API comes up, answers ready, and must refuse the domain call.       *)
preMigrationNegativeRun ==
    \/ /\ stage = "unmigrated"
       /\ \/ fail(containers) \/ fail(containers \cup {"api"})
          \/ /\ To("refused")
             /\ containers' = containers \cup {"api"}
             /\ UNCHANGED <<stackTouched, secretsFile, schema>>
    \/ /\ stage = "refused"
       /\ \/ Throws
          \/ Refuses /\ fail(containers)
          \/ /\ Refuses /\ To("migrate")
             /\ containers' = containers \ {"api"}
             /\ UNCHANGED <<stackTouched, secretsFile, schema>>

(* `migrate deploy` leaves a migrated database as it is.                   *)
Migrated == IF schema = "none" THEN "applied" ELSE schema

(* A secret in the output throws although the migrations are applied.      *)
applyMigrations ==
    /\ stage = "migrate"
    /\ \/ Throws
       \/ Ends(1) /\ schema' = Migrated
          /\ UNCHANGED <<wishes, stackTouched, containers, exposed, verdicts>>
       \/ /\ To("start")
          /\ schema' = Migrated
          /\ UNCHANGED <<stackTouched, secretsFile, containers>>

startStack ==
    \/ /\ stage = "start"
       /\ \/ \E started \in SUBSET Services : fail(containers \cup started)
          \/ /\ To("ready")
             /\ containers' = Services
             /\ UNCHANGED <<stackTouched, secretsFile, schema>>
    \/ /\ stage = "ready"
       /\ \/ fail(containers)
          \/ /\ To("assert")
             /\ UNCHANGED <<stackTouched, secretsFile, containers, schema>>

--------------------------------------------------------------------------------
(* The checklist *)

(* What a check talks to.                                                  *)
Needs ==
    [id \in ToSet(Checklist) |->
        CASE id \in {"M5-1", "M5-3"} -> Backing \cup {"api"}
          [] id \in {"M5-4", "M5-6"} -> {"api", "worker"}
          [] id = "M5-6b" -> {"api"}
          [] id = "M5-5" -> {"web"}
          [] id = "M5-8" -> Backing \cup {"api", "web"}
          [] OTHER -> {}]

(* A check can pass only against what it needs: its services, the schema   *)
(* where it registers a user, and the exposition switched off or on.       *)
CanPass(id) ==
    /\ Needs[id] \subseteq containers
    /\ id \in {"M5-3", "M5-8"} => schema # "none"
    /\ id = "M5-6" => ~ exposed
    /\ id = "M5-6b" => exposed

(* check(): whatever the assertion throws is a verdict.                    *)
Verdict(id, passed) ==
    /\ passed => CanPass(id)
    /\ verdicts' = Append(verdicts, [id |-> id, passed |-> passed])

negativeSecretRuns ==
    /\ stage = "refusals"
    /\ stage' = "dependencies"
    /\ \E passed \in BOOLEAN : Verdict("M5-2", passed)
    /\ UNCHANGED <<wishes, stackTouched, secretsFile, containers, schema, exposed, exitCode>>

(* The check after the last one; M5-6b first makes a new API container.    *)
runAssertions ==
    /\ stage = "assert"
    /\ Len(verdicts) < Len(Checklist)
    /\ LET id == Checklist[Len(verdicts) + 1] IN
       IF id = "M5-6b" /\ ~ exposed
       THEN \/ /\ stage' = "recreated" /\ exposed' = TRUE
               /\ UNCHANGED <<containers, verdicts>>
            \/ /\ Verdict(id, FALSE)
               /\ containers' \in {containers, containers \ {"api"}}
               /\ UNCHANGED <<stage, exposed>>
       ELSE /\ \E passed \in BOOLEAN : Verdict(id, passed)
            /\ UNCHANGED <<stage, containers, exposed>>
    /\ UNCHANGED <<wishes, stackTouched, secretsFile, schema, exitCode>>

(* The wait inside M5-6b does not throw when it times out: it ends the     *)
(* process in the middle of the checklist.                                 *)
RecreatedApi ==
    /\ stage = "recreated"
    /\ \/ fail(containers)
       \/ /\ stage' = "assert"
          /\ \E passed \in BOOLEAN : Verdict("M5-6b", passed)
          /\ UNCHANGED <<wishes, stackTouched, secretsFile, containers, schema, exposed, exitCode>>

Failed(all) == {i \in DOMAIN all : ~ all[i].passed}

(* Mutant: the verdict of the last check decides.                          *)
ExitCodeOfLast(all) == IF Len(all) \in Failed(all) THEN 1 ELSE 0

ExitCodeOf(all) == IF Failed(all) # {} THEN 1 ELSE 0

teardown ==
    /\ stage = "assert"
    /\ Len(verdicts) = Len(Checklist)
    /\ Ends(ExitCodeOf(verdicts))
    /\ IF wishes.keepStack THEN UNCHANGED <<containers, schema>> ELSE TornDown(containers)
    /\ UNCHANGED <<wishes, stackTouched, exposed, verdicts>>

ValidationNext ==
    \/ preflight \/ writeEnvFile \/ buildImages \/ negativeSecretRuns
    \/ startDependencies \/ DependenciesHealthy \/ preMigrationNegativeRun
    \/ applyMigrations \/ startStack \/ runAssertions \/ RecreatedApi
    \/ teardown \/ Killed

ValidationSpec == ValidationInit /\ [][ValidationNext]_validationVars

--------------------------------------------------------------------------------
(* The exit code is earned: 0 only if every check of the list ran, in      *)
(* order, and passed; and every check but M5-2, which tries the images     *)
(* alone before anything is up, is judged on a database that this very run *)
(* has found unmigrated and then migrated, never on one that an earlier    *)
(* run left, with the whole stack up.  Only the API can be missing, once   *)
(* M5-6b could not make it anew, and then a failed check says so.          *)
VerdictEarned ==
    /\ exitCode = 0 =>
           /\ [i \in DOMAIN verdicts |-> verdicts[i].id] = Checklist
           /\ Failed(verdicts) = {}
    /\ Len(verdicts) > 1 /\ stage # "ended" =>
           /\ schema = "applied"
           /\ Services \ {"api"} \subseteq containers
           /\ "api" \in containers \/ Failed(verdicts) # {}
================================================================================
