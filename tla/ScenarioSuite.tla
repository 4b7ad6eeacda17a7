----------------------------- MODULE ScenarioSuite -----------------------------
(***************************************************************************)
(* A run of the scenario suite, from the command line to the exit status:  *)
(* scenarios/__main__.py, runner.py, expectations.py and what spec.py        *)
(* refuses.  Every scenario is flown with every seed against the swarm      *)
(* under test, and in a mutation check once more against broken swarms.     *)
(*                                                                          *)
(* How a flight ends is fixed beforehand by fate: a run is reproducible      *)
(* from its seed, and what the suite concludes is compared with it.  What   *)
(* a verdict is made of is ScenarioVerdicts.                                *)
(***************************************************************************)
EXTENDS Retention, SequencesExt

CONSTANTS
    Jobs,     \* the command lines given
    Seeds,    \* how many seeds each scenario is flown with
    Mutants   \* the broken swarms of the mutation check

Real == "real"                         \* the swarm under test
Swarms == {Real} \cup Mutants
NotChecked == {"not checked"}          \* killed_by is None

(* A job is a record of                                                    *)
(*   usable    the swarm, expectations and mutants named could be loaded   *)
(*   sut       "reference" or "other" (--sut)                              *)
(*   mutation  "off", "reference" (--mutants) or "given" (--mutants-from)  *)
(*   exist     the paths given exist                                       *)
(*   files     the documents found there, in order                         *)
(*   expect    <<>>, or <<names>>: the scenarios --expect names            *)
(* and a document of                                                       *)
(*   kind      "scenario", or "expectations" for the file given            *)
(*   name, expect, reason                                                  *)
(*   drones, uses   the fleet's size, and the largest number of a drone or  *)
(*                  drones that an event or assertion speaks of            *)
(*   after, events  the kinds of event travel_after names, and those there *)
IsJob(j) ==
    /\ {j.usable, j.exist} \subseteq BOOLEAN /\ j.sut \in {"reference", "other"}
    /\ j.files \in Seq(ToSet(j.files))
    \* The schema knows no other expectation (scenario.v1.schema.json).
    /\ \A doc \in ToSet(j.files) : doc.expect \in {"pass", "fail"}

ASSUME SuiteAssumption ==
    /\ Seeds \in Nat \ {0}
    /\ IsFiniteSet(Mutants) /\ Mutants \cap {Real, "not checked"} = {}
    /\ \A j \in Jobs : IsJob(j)

VARIABLES
    job,      \* the command line
    fate,     \* [file, swarm, seed]: whether that flight meets its assertions
    stage,    \* what is being done
    files,    \* the documents left to load, with their place in the job
    errors,   \* how many were reported
    specs,    \* the scenarios loaded: [file, name, expect]
    reports,  \* their reports: [spec, verdicts, killed_by]
    traces,   \* the trace files written: [<<name, seed>> -> file]
    exit      \* the exit status; NotYet until then

suiteVars == <<job, fate, stage, files, errors, specs, reports, traces, exit>>
NotYet == -1

SuiteInit ==
    /\ job \in Jobs
    /\ fate \in [DOMAIN job.files -> [Swarms -> [1 .. Seeds -> BOOLEAN]]]
    \* Mutants are flown in a mutation check only, and with the first seed.
    /\ \A f \in DOMAIN fate : \A m \in Mutants : \A s \in 1 .. Seeds :
          s > 1 \/ job.mutation = "off" => fate[f][m][s]
    /\ stage = "start" /\ files = <<>> /\ errors = 0
    /\ specs = <<>> /\ reports = <<>> /\ traces = [key \in {} |-> 0] /\ exit = NotYet

-----------------------------------------------------------------------------
(* Starting, and finding the files. *)

\* The options are read before anything is flown; what they name must be usable,
\* and this repository's mutants say nothing of another swarm.
StartSuite ==
    /\ stage = "start"
    /\ IF ~job.usable \/ (job.mutation = "reference" /\ job.sut = "other")
       THEN stage' = "done" /\ exit' = 2
       ELSE stage' = "discover" /\ UNCHANGED exit
    /\ UNCHANGED <<job, fate, files, errors, specs, reports, traces>>

\* An expectations file kept among the scenarios is not one of them, if it is
\* the one given.
IsScenario(doc) == ~(job.expect # <<>> /\ doc.kind = "expectations")

Discover ==
    LET all == [i \in DOMAIN job.files |-> [file |-> i, doc |-> job.files[i]]]
        found == Without(all, {f \in ToSet(all) : ~IsScenario(f.doc)})
    IN  /\ stage = "discover"
        /\ IF ~job.exist
           THEN stage' = "report" /\ errors' = 1 /\ UNCHANGED files
           ELSE stage' = "load" /\ files' = found /\ errors' = IF found = <<>> THEN 1 ELSE 0
        /\ UNCHANGED <<job, fate, specs, reports, traces, exit>>

-----------------------------------------------------------------------------
(* Loading. *)

\* What parse_scenario accepts of a document.
Accepted(doc) ==
    /\ doc.kind = "scenario"
    /\ doc.uses <= doc.drones
    /\ doc.after \subseteq doc.events
    /\ doc.expect = "fail" => doc.reason

\* With expectations, what the file itself expects is ignored.
Apply(doc) ==
    IF job.expect = <<>> THEN doc.expect
    ELSE IF doc.name \in job.expect[1] THEN "fail" ELSE "pass"

Load ==
    /\ stage = "load"
    /\ files # <<>>
    /\ LET f == Head(files)
       IN  IF Accepted(f.doc)
           THEN /\ specs' = Append(specs, [file |-> f.file, name |-> f.doc.name,
                                           expect |-> Apply(f.doc)])
                /\ UNCHANGED errors
           ELSE errors' = errors + 1 /\ UNCHANGED specs
    /\ files' = Tail(files)
    /\ UNCHANGED <<job, fate, stage, reports, traces, exit>>

UsedTwice == {n \in {specs[i].name : i \in DOMAIN specs} :
                 Cardinality({i \in DOMAIN specs : specs[i].name = n}) > 1}

\* A name used twice is an error; the scenarios are flown all the same.
CheckNames ==
    /\ stage = "load"
    /\ files = <<>>
    /\ errors' = errors + Cardinality(UsedTwice)
    /\ stage' = "fly"
    /\ UNCHANGED <<job, fate, files, specs, reports, traces, exit>>

-----------------------------------------------------------------------------
(* Flying. *)

run_scenario(spec, swarm, seed) == fate[spec.file][swarm][seed]

\* Mutant of KeepsTrace: only what fails unexpectedly is kept.
KeepsTraceUnexpected(spec, passed) == ~passed /\ spec.expect = "pass"

KeepsTrace(spec, passed) == ~passed \/ spec.expect = "fail"

\* One scenario, one seed after the other; its report comes when all are flown.
Fly ==
    /\ stage = "fly"
    /\ Len(reports) < Len(specs)
    /\ LET spec == specs[Len(reports) + 1]
           verdicts == [seed \in 1 .. Seeds |-> run_scenario(spec, Real, seed)]
           kept == {<<spec.name, seed>> : seed \in {s \in 1 .. Seeds :
                                                      KeepsTrace(spec, verdicts[s])}}
       IN  /\ reports' = Append(reports, [spec |-> spec, verdicts |-> verdicts,
                                          killed_by |-> NotChecked])
           /\ traces' = [key \in DOMAIN traces \cup kept |->
                            IF key \in kept THEN spec.file ELSE traces[key]]
    /\ UNCHANGED <<job, fate, stage, files, errors, specs, exit>>

AllPassed(r) == \A seed \in DOMAIN r.verdicts : r.verdicts[seed]

OutcomeOf(r) ==
    IF r.spec.expect = "fail" THEN IF AllPassed(r) THEN "xpass" ELSE "xfail"
    ELSE IF AllPassed(r) THEN "passed" ELSE "failed"

\* Mutant of Killers: a scenario the real swarm fails kills mutants too.
KillersOfAny(r) == {m \in Mutants : ~run_scenario(r.spec, m, 1)}

\* Only a scenario the real swarm passes says anything by failing a mutant.
Killers(r) ==
    IF OutcomeOf(r) # "passed" THEN NotChecked
    ELSE {m \in Mutants : ~run_scenario(r.spec, m, 1)}

Mutate ==
    /\ stage = "fly"
    /\ Len(reports) = Len(specs)
    /\ reports' = IF job.mutation = "off" THEN reports
                  ELSE [i \in DOMAIN reports |->
                           [reports[i] EXCEPT !.killed_by = Killers(reports[i])]]
    /\ stage' = "report"
    /\ UNCHANGED <<job, fate, files, errors, specs, traces, exit>>

-----------------------------------------------------------------------------
(* The verdict on the suite. *)

Checked(r) == r.killed_by # NotChecked
Toothless(r) == Checked(r) /\ r.killed_by = {} /\ r.spec.expect = "pass"

SuiteReports == ToSet(reports)
MutationRun == stage \in {"report", "done"} /\ job.mutation # "off" /\ job.exist
Survivors ==
    IF ~MutationRun THEN {} ELSE Mutants \ UNION {r.killed_by : r \in SuiteReports}

Ok ==
    /\ errors = 0
    /\ \A r \in SuiteReports : OutcomeOf(r) \in {"passed", "xfail"}
    /\ ~\E r \in SuiteReports : Toothless(r)
    /\ Survivors = {}

\* The reports are written, then the exit status follows from the same facts.
Report ==
    /\ stage = "report"
    /\ exit' = IF errors > 0 /\ reports = <<>> THEN 2 ELSE IF Ok THEN 0 ELSE 1
    /\ stage' = "done"
    /\ UNCHANGED <<job, fate, files, errors, specs, reports, traces>>

SuiteNext == StartSuite \/ Discover \/ Load \/ CheckNames \/ Fly \/ Mutate \/ Report
SuiteSpec == SuiteInit /\ [][SuiteNext]_suiteVars

-----------------------------------------------------------------------------
(* The JUnit report: one case for each error, flight, mutation check and      *)
(* survivor, and what it shows.                                             *)

FlightCase(spec, passed) ==
    IF spec.expect = "fail" THEN IF passed THEN "failure" ELSE "skipped"
    ELSE IF passed THEN "passed" ELSE "failure"

FlightsShown(shown) ==
    {flight \in (DOMAIN reports) \X (1 .. Seeds) :
        LET r == reports[flight[1]]
        IN  FlightCase(r.spec, r.verdicts[flight[2]]) = shown}

junit ==
    [errors |-> errors,
     failures |-> Cardinality(FlightsShown("failure"))
                  + Cardinality({i \in DOMAIN reports : Toothless(reports[i])})
                  + Cardinality(Survivors)]

-----------------------------------------------------------------------------
(* Properties. *)

Done == stage = "done"
Passes(i) == \A seed \in 1 .. Seeds : fate[i][Real][seed]

\* Exit status 0 is earned, and refused only for a reason (scenarios/README.md,
\* expectations.py:11, ADR 0008): every file given was a scenario of its own name,
\* every scenario expected to pass was passed by the swarm with every seed,
\* every other failed with some seed, and in a mutation check every mutant fails
\* a scenario the swarm passes and every such scenario is failed by a mutant.
OkIsEarned ==
    LET loaded == {i \in DOMAIN job.files : ~(job.expect # <<>> /\ job.files[i].kind = "expectations")}
        named(i) == job.files[i].name
        mayFail == {i \in loaded : IF job.expect = <<>> THEN job.files[i].expect = "fail"
                                   ELSE named(i) \in job.expect[1]}
        mutantsFail(i) == {m \in Mutants : ~fate[i][m][1]}
    IN  Done => (exit = 0 <=>
            /\ job.usable /\ job.exist
            /\ job.mutation = "reference" => job.sut = "reference"
            /\ loaded # {}
            /\ \A i \in loaded : Accepted(job.files[i])
            /\ \A i, j \in loaded : named(i) = named(j) => i = j
            /\ \A i \in loaded \ mayFail : Passes(i)
            /\ \A i \in mayFail : ~Passes(i)
            /\ job.mutation # "off" =>
                  /\ \A i \in loaded \ mayFail : mutantsFail(i) # {}
                  /\ UNION {mutantsFail(i) : i \in loaded \ mayFail} = Mutants)

\* "The report above and $JUNIT say which and why" (action.yml:176): a run that
\* fails after its options were read shows an error or a failure in the JUnit
\* report, and the trace of every flight that failed is there, under its own
\* name, unless names were used twice.
FailuresAreExplained ==
    Done /\ errors + Len(reports) > 0 =>
        /\ exit # 0 => junit.errors + junit.failures > 0
        /\ UsedTwice = {} =>
              \A r \in SuiteReports : \A seed \in 1 .. Seeds :
                 ~r.verdicts[seed] => /\ <<r.spec.name, seed>> \in DOMAIN traces
                                      /\ traces[<<r.spec.name, seed>>] = r.spec.file
=============================================================================
