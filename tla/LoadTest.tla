-------------------------------- MODULE LoadTest --------------------------------
(***************************************************************************)
(* The load-test runner (loadtest/scripts/run.mjs): one Node process that  *)
(* builds a dedicated stack, seeds it, drives the catalog of scenarios     *)
(* through k6 and writes a manifest of what it measured.                   *)
(*                                                                         *)
(* Its docker and psql calls are synchronous, so a turn of the event loop  *)
(* is atomic but for its awaits: the k6 container, the timers, and the     *)
(* receiver's statistics, which every sample fetches after its database    *)
(* snapshot.  The sampler's ticks do not wait for one another, nor main()  *)
(* for them: samples land in any order.                                    *)
(***************************************************************************)
EXTENDS Integers, Sequences, SequencesExt, FiniteSetsExt, Absence

CONSTANTS CATALOG,        \* the steps in their order: scenarios, and settles between them
          Paying,         \* the scenarios that create payments
          Selections,     \* what --scenario can name; {} stands for no such option
          MaxSnapshots    \* bound of the model: no tick and no further poll beyond it

Labels == {CATALOG[i].id : i \in DOMAIN CATALOG}

(* A step is known by its id or label.                                     *)
ASSUME CatalogAssumption ==
    /\ CATALOG \in Seq([phase : {"scenario", "settle"}, id : Labels])
    /\ \A i, j \in DOMAIN CATALOG : CATALOG[i].id = CATALOG[j].id => i = j
    /\ "baseline" \notin Labels /\ MaxSnapshots \in Nat

VARIABLES
    asked,         \* opts, and whether WEBHOOK_ENCRYPTION_KEY is found
    point,         \* where main() waits, or what it runs next
    volumes,       \* what the database holds: "empty", "schema" or "seeded"
    up,            \* the containers that run
    backlog,       \* open payments, 0 or 1
    todo,          \* the steps not finished
    currentPhase,
    sampler,       \* its interval is set
    shots,         \* snapshots taken: the time of the model
    aloft,         \* samples whose fetch is under way
    awaited,       \* number of the sample main() awaits, or 0
    samples,
    report,        \* scenarioResults, settleResults and baselineSample
    manifest,      \* NONE until it is written
    status         \* exit code, or NONE

loadVars == <<asked, point, volumes, up, backlog, todo, currentPhase, sampler, shots,
              aloft, awaited, samples, report, manifest, status>>

Scenario(id) == [phase |-> "scenario", id |-> id]
Settle(label) == [phase |-> "settle", id |-> label]

IsScenario(s) == s.phase = "scenario"
IsSettle(s) == s.phase = "settle"

(* A filtered catalog is the set of the positions it keeps: --scenario     *)
(* runs the scenarios it names and no settle.                              *)
steps == {i \in DOMAIN CATALOG :
             asked.scenarios = {} \/ (IsScenario(CATALOG[i]) /\ CATALOG[i].id \in asked.scenarios)}

(* The step that the loop is at.                                           *)
step == CATALOG[Min(todo)]
StepDone == todo' = todo \ {Min(todo)}

(* The volumes and the containers may be those of an earlier run.          *)
LoadInit ==
    /\ asked \in [scenarios : Selections, noReset : BOOLEAN, keepStack : BOOLEAN,
                  key : BOOLEAN]
    /\ point = "preflight"
    /\ volumes \in {"empty", "seeded"}
    /\ up = {} /\ backlog = 0 /\ todo = {} /\ currentPhase = "preflight"
    /\ sampler = FALSE /\ shots = 0 /\ aloft = {} /\ awaited = 0 /\ samples = <<>>
    /\ report = [scenarios |-> <<>>, settles |-> <<>>, baseline |-> NONE]
    /\ manifest = NONE /\ status = NONE

--------------------------------------------------------------------------------
(* Before the catalog *)

samplingVars == <<todo, currentPhase, sampler, shots, aloft, awaited, samples, report, manifest>>

(* process.exit(1): the stack stays, and what is in flight is lost.        *)
failRun ==
    /\ point' = "ended" /\ status' = 1
    /\ UNCHANGED <<asked, volumes, up, backlog, samplingVars>>

(* main() goes on after a step that succeeded; every one of them may fail. *)
Onward(from, to) ==
    /\ point = from
    /\ point' = to
    /\ UNCHANGED <<asked, status, samplingVars>>

ensurePreflight ==
    /\ steps # {}
    /\ Onward("preflight", "reset")
    /\ UNCHANGED <<volumes, up, backlog>>

(* down -v, whose status nobody reads; composeEnv needs the key first.     *)
composeDown ==
    /\ Onward("reset", "up")
    /\ asked.key \/ asked.noReset
    /\ IF asked.noReset THEN UNCHANGED volumes ELSE volumes' \in {"empty", volumes}
    /\ UNCHANGED <<up, backlog>>

composeUp ==
    /\ Onward("up", "receiver")
    /\ asked.key
    /\ up' = {"postgres", "redis", "api", "web"}
    /\ UNCHANGED <<volumes, backlog>>

startReceiver ==
    /\ Onward("receiver", "migrate")
    /\ up' = up \cup {"receiver"}
    /\ UNCHANGED <<volumes, backlog>>

(* After waitForApiReady, which looks at reachability only.                *)
migrate ==
    /\ Onward("migrate", "worker")
    /\ volumes' = IF volumes = "empty" THEN "schema" ELSE volumes
    /\ UNCHANGED <<up, backlog>>

composeUpWorker ==
    /\ Onward("worker", "seed")
    /\ up' = up \cup {"worker"}
    /\ UNCHANGED <<volumes, backlog>>

seed ==
    /\ Onward("seed", "quiet")
    /\ volumes' = "seeded"
    /\ backlog' \in 0 .. 1
    /\ UNCHANGED up

(* fail() at any of these steps, the waits for the API and for the quiet   *)
(* sweep included.                                                         *)
PreparationFails ==
    /\ point \in {"preflight", "up", "receiver", "migrate", "worker", "seed", "quiet"}
    /\ failRun

KeyMissing == point = "reset" /\ ~ asked.key /\ ~ asked.noReset /\ failRun

--------------------------------------------------------------------------------
(* Samples *)

(* dbSnapshot answers null when psql fails, which matters to a settle.     *)
Snapshot(no) ==
    \E open \in (IF no = awaited' THEN {backlog, NONE} ELSE {backlog}) :
        aloft' = aloft \cup {[no |-> no, phase |-> currentPhase', open |-> open]}

(* takeSample up to its await.                                             *)
takeSample(mine) ==
    /\ shots' = shots + 1
    /\ awaited' = IF mine THEN shots + 1 ELSE awaited
    /\ Snapshot(shots + 1)

(* Only where main() waits does the timer get a turn.                      *)
AtAnAwait == point \in {"k6", "polling", "pause", "last"}

SamplerTick ==
    /\ sampler /\ AtAnAwait
    /\ shots < MaxSnapshots
    /\ UNCHANGED currentPhase
    /\ takeSample(FALSE)
    /\ UNCHANGED <<asked, point, volumes, up, backlog, todo, sampler, samples,
                   report, manifest, status>>

Pushed(s) ==
    /\ s \in aloft
    /\ samples' = Append(samples, s)
    /\ aloft' = aloft \ {s}

(* Mutant: whichever sample lands first wakes main().                      *)
AnyLands(s) == Pushed(s)

AwaitedLands(s) == s.no = awaited /\ Pushed(s)

TickLands ==
    /\ point # "ended"
    /\ \E s \in aloft : s.no # awaited /\ Pushed(s)
    /\ UNCHANGED <<asked, point, volumes, up, backlog, todo, currentPhase, sampler,
                   shots, awaited, report, manifest, status>>

--------------------------------------------------------------------------------
(* The catalog *)

worldVars == <<asked, volumes, up>>

(* waitForQuietSweep saw no open payment; the sample of the baseline.      *)
Baseline ==
    /\ point = "quiet" /\ backlog = 0
    /\ point' = "baseline"
    /\ currentPhase' = "baseline"
    /\ takeSample(TRUE)
    /\ UNCHANGED <<worldVars, backlog, todo, sampler, samples, report, manifest, status>>

BaselineLands ==
    /\ point = "baseline"
    /\ \E s \in aloft :
           /\ AwaitedLands(s)
           /\ report' = [report EXCEPT !.baseline = s]
    /\ awaited' = 0 /\ sampler' = TRUE
    /\ todo' = steps /\ point' = "next"
    /\ UNCHANGED <<worldVars, backlog, currentPhase, shots, manifest, status>>

(* runScenario, up to the await of its container.                          *)
runScenario ==
    /\ point = "next" /\ todo # {} /\ IsScenario(step)
    /\ point' = "k6"
    /\ currentPhase' = step.id
    /\ UNCHANGED <<worldVars, backlog, todo, sampler, shots, aloft, awaited, samples,
                   report, manifest, status>>

(* Whatever exit code k6 has: a breached threshold is evidence.            *)
ScenarioEnds ==
    /\ point = "k6"
    /\ report' = [report EXCEPT !.scenarios = Append(@, [id |-> currentPhase])]
    /\ point' = "next"
    /\ StepDone
    /\ UNCHANGED <<worldVars, backlog, currentPhase, sampler, shots, aloft, awaited,
                   samples, manifest, status>>

(* settle: a sample, and another one after every pause.                    *)
settle ==
    /\ \/ point = "next" /\ todo # {} /\ IsSettle(step)
       \/ point = "pause" /\ shots < MaxSnapshots
    /\ point' = "polling"
    /\ currentPhase' = step.id
    /\ takeSample(TRUE)
    /\ UNCHANGED <<worldVars, backlog, todo, sampler, samples, report, manifest, status>>

(* The push and what main() does with the newest entry of samples are one  *)
(* turn.                                                                   *)
SettleLands ==
    /\ point = "polling"
    /\ \E s \in aloft :
           /\ AwaitedLands(s)
           /\ \/ /\ Last(samples').open = 0
                 /\ report' = [report EXCEPT !.settles =
                                  Append(@, [id |-> currentPhase, by |-> Last(samples')])]
                 /\ point' = "next" /\ StepDone
              \/ /\ Last(samples').open # 0
                 /\ point' = "pause" /\ UNCHANGED <<todo, report>>
    /\ awaited' = 0
    /\ UNCHANGED <<worldVars, backlog, currentPhase, sampler, shots, manifest, status>>

SettleTimesOut == point = "pause" /\ failRun

(* The sampler stops; ticks it has begun do not.                           *)
FinalSample ==
    /\ point = "next" /\ todo = {}
    /\ point' = "last"
    /\ sampler' = FALSE
    /\ UNCHANGED currentPhase
    /\ takeSample(TRUE)
    /\ UNCHANGED <<worldVars, backlog, todo, samples, report, manifest, status>>

(* The artifacts and the teardown follow in the same turn.                 *)
writeArtifacts ==
    /\ point = "last"
    /\ \E s \in aloft : AwaitedLands(s)
    /\ manifest' = [scenarios |-> report.scenarios, settles |-> report.settles,
                    baseline |-> report.baseline, final |-> Last(samples')]
    /\ point' = "ended" /\ status' = 0
    /\ awaited' = 0
    /\ IF asked.keepStack THEN UNCHANGED <<up, volumes>>
       ELSE \/ up' = {} /\ volumes' = "empty"
            \/ up' = up \ {"receiver"} /\ UNCHANGED volumes
    /\ UNCHANGED <<asked, backlog, todo, currentPhase, sampler, shots, report>>

(* Scenarios that write leave payments open; the worker's sweep closes     *)
(* them.                                                                   *)
Traffic ==
    /\ point = "k6" /\ backlog = 0
    /\ currentPhase \in Paying
    /\ backlog' = 1
    /\ UNCHANGED <<worldVars, point, samplingVars, status>>

Sweep ==
    /\ "worker" \in up /\ backlog = 1 /\ point # "ended"
    /\ backlog' = 0
    /\ UNCHANGED <<worldVars, point, samplingVars, status>>

LoadNext ==
    \/ ensurePreflight \/ composeDown \/ composeUp \/ startReceiver \/ migrate
    \/ composeUpWorker \/ seed \/ PreparationFails \/ KeyMissing
    \/ SamplerTick \/ TickLands \/ Baseline \/ BaselineLands
    \/ runScenario \/ ScenarioEnds \/ settle \/ SettleLands \/ SettleTimesOut
    \/ FinalSample \/ writeArtifacts \/ Traffic \/ Sweep

LoadSpec == LoadInit /\ [][LoadNext]_loadVars

--------------------------------------------------------------------------------
(* Where a label stands in the order of the run.                           *)
Place(label) ==
    IF label = "baseline" THEN 0
    ELSE CHOOSE i \in DOMAIN CATALOG : CATALOG[i].id = label

(* These steps and no others, each once, in the order of the catalog.      *)
InOrder(results, positions) ==
    /\ {Place(results[i].id) : i \in DOMAIN results} = positions
    /\ \A i, j \in DOMAIN results : i < j => Place(results[i].id) < Place(results[j].id)

(* A manifest tells of one whole run, however late samples land: every     *)
(* selected step in its order, each settle closed by a sample of its own   *)
(* that saw no open payment, a final sample newer than any other, and no   *)
(* sample under the label of a step that began after it was taken.         *)
ManifestOfOneRun ==
    manifest # NONE =>
        /\ InOrder(manifest.scenarios, {i \in steps : IsScenario(CATALOG[i])})
        /\ InOrder(manifest.settles, {i \in steps : IsSettle(CATALOG[i])})
        /\ \A i \in DOMAIN manifest.settles :
               LET s == manifest.settles[i] IN s.by.phase = s.id /\ s.by.open = 0
        /\ manifest.final.no = shots
        /\ \A i, j \in DOMAIN samples :
               samples[i].no < samples[j].no => Place(samples[i].phase) <= Place(samples[j].phase)
================================================================================
