------------------------ MODULE ScenarioHarness_proofs ------------------------
(***************************************************************************)
(* Theorems about the scenario harness, and their proofs.  The first part   *)
(* is about a run of the suite (ScenarioSuite): what its exit status says    *)
(* of the swarms flown, and that a run that fails shows why.  The second is *)
(* about a flight (SwarmFlight), for any swarm, routes, events and           *)
(* time-outs.                                                                *)
(***************************************************************************)
EXTENDS ScenarioSuite, SwarmFlight, MissionSupervisor_proofs, Retention_proofs,
        SequenceTheorems, TLAPS

\* The scenarios among the files of the job, and what is made of each: the entry
\* it has in the list, and the scenario it is when it is accepted.
Loaded == {i \in DOMAIN job.files : IsScenario(job.files[i])}
Parsed == {i \in Loaded : Accepted(job.files[i])}
EntryOf(i) == [file |-> i, doc |-> job.files[i]]
SpecOf(i) == [file |-> i, name |-> job.files[i].name, expect |-> Apply(job.files[i])]
Entries == {EntryOf(i) : i \in Loaded}
Scenarios == {SpecOf(i) : i \in Parsed}

Waiting == {files[k].file : k \in DOMAIN files}
SpecFiles == {specs[k].file : k \in DOMAIN specs}

Refused == ~job.usable \/ (job.mutation = "reference" /\ job.sut = "other")

SuiteTyped ==
    /\ job \in Jobs
    /\ fate \in [DOMAIN job.files -> [Swarms -> [1 .. Seeds -> BOOLEAN]]]
    /\ files \in Seq(Entries)
    /\ specs \in Seq(Scenarios)
    /\ errors \in Nat

\* No file is read twice.
OncePerFile ==
    /\ \A j, k \in DOMAIN files : files[j].file = files[k].file => j = k
    /\ \A j, k \in DOMAIN specs : specs[j].file = specs[k].file => j = k
    /\ Waiting \cap SpecFiles = {}

\* The verdicts on a scenario, and its report before and after the mutants fly.
VerdictsOn(spec) == [seed \in 1 .. Seeds |-> run_scenario(spec, Real, seed)]
FlownReport(spec) == [spec |-> spec, verdicts |-> VerdictsOn(spec), killed_by |-> NotChecked]
FinalReport(spec) ==
    IF job.mutation = "off" THEN FlownReport(spec)
    ELSE [FlownReport(spec) EXCEPT !.killed_by = Killers(FlownReport(spec))]

\* Every trace worth keeping is there, if no name was used twice.
TracesKept ==
    UsedTwice = {} =>
        \A k \in DOMAIN reports : \A seed \in 1 .. Seeds :
            KeepsTrace(specs[k], VerdictsOn(specs[k])[seed]) =>
                /\ <<specs[k].name, seed>> \in DOMAIN traces
                /\ traces[<<specs[k].name, seed>>] = specs[k].file

Untouched == files = <<>> /\ specs = <<>> /\ reports = <<>>

Loading ==
    /\ ~Refused /\ job.exist /\ reports = <<>>
    /\ Parsed \subseteq Waiting \cup SpecFiles
    /\ errors = 0 <=> Loaded # {} /\ \A i \in Loaded \ Waiting : i \in Parsed

AllLoaded ==
    /\ ~Refused /\ job.exist
    /\ SpecFiles = Parsed
    /\ errors = 0 <=> Loaded # {} /\ Loaded = Parsed /\ UsedTwice = {}

Flying ==
    /\ AllLoaded /\ TracesKept
    /\ Len(reports) <= Len(specs)
    /\ reports \in Seq({FlownReport(specs[k]) : k \in DOMAIN specs})
    /\ \A k \in DOMAIN reports : reports[k] = FlownReport(specs[k])

AllFlown ==
    /\ AllLoaded /\ TracesKept
    /\ reports = [k \in DOMAIN specs |-> FinalReport(specs[k])]

NothingFound == ~Refused /\ ~job.exist /\ Untouched /\ errors = 1

Status == IF errors > 0 /\ reports = <<>> THEN 2 ELSE IF Ok THEN 0 ELSE 1

StageOK ==
    \/ stage = "start" /\ Untouched /\ errors = 0
    \/ stage = "discover" /\ Untouched /\ errors = 0 /\ ~Refused
    \/ stage = "load" /\ Loading
    \/ stage = "fly" /\ Flying
    \/ stage = "report" /\ (AllFlown \/ NothingFound)
    \/ stage = "done" /\ exit = Status /\ (AllFlown \/ NothingFound)
    \/ stage = "done" /\ exit = 2 /\ Refused /\ Untouched /\ errors = 0

SuiteInv == SuiteTyped /\ OncePerFile /\ StageOK

-----------------------------------------------------------------------------
\* The job is a command line with a list of documents.
LEMMA JobIsTyped ==
  ASSUME job \in Jobs
  PROVE  /\ IsJob(job) /\ job.files \in Seq(ToSet(job.files))
         /\ Len(job.files) \in Nat /\ DOMAIN job.files = 1 .. Len(job.files)
<1>1. IsJob(job)
  BY SuiteAssumption
<1>2. job.files \in Seq(ToSet(job.files))
  BY <1>1 DEF IsJob
<1>3. QED
  BY <1>1, <1>2

\* Every scenario is flown.
LEMMA SeedsAreMany == Seeds \in Int /\ 1 \in 1 .. Seeds
<1>1. Seeds \in Nat \ {0}
  BY SuiteAssumption, Zenon
<1>2. QED
  BY <1>1

\* What is made of the files depends on the job alone.
LEMMA SameFiles ==
  ASSUME UNCHANGED job
  PROVE  /\ Loaded' = Loaded /\ Parsed' = Parsed
         /\ Entries' = Entries /\ Scenarios' = Scenarios /\ Refused' = Refused
<1>1. Loaded' = Loaded
  BY DEF Loaded, IsScenario
<1>2. Parsed' = Parsed
  BY <1>1 DEF Parsed, Accepted
<1>3. Entries' = Entries
  BY <1>1 DEF Entries, EntryOf
<1>4. Scenarios' = Scenarios
  BY <1>2 DEF Scenarios, SpecOf, Apply
<1>5. QED
  BY <1>1, <1>2, <1>3, <1>4 DEF Refused

\* The places of a list are numbers, and what stands there are its members.
LEMMA ListsAreTyped ==
  ASSUME SuiteTyped
  PROVE  /\ Len(files) \in Nat /\ DOMAIN files = 1 .. Len(files)
         /\ Len(specs) \in Nat /\ DOMAIN specs = 1 .. Len(specs)
         /\ \A k \in DOMAIN files : files[k].file \in Loaded /\ files[k] = EntryOf(files[k].file)
         /\ \A k \in DOMAIN specs : specs[k].file \in Parsed /\ specs[k] = SpecOf(specs[k].file)
<1>1. files \in Seq(Entries) /\ specs \in Seq(Scenarios)
  BY DEF SuiteTyped
<1>2. ASSUME NEW k \in DOMAIN files
      PROVE  files[k].file \in Loaded /\ files[k] = EntryOf(files[k].file)
  <2>1. files[k] \in Entries
    BY <1>1, <1>2
  <2>2. PICK i \in Loaded : files[k] = EntryOf(i)
    BY <2>1 DEF Entries
  <2>3. QED
    BY <2>2 DEF EntryOf
<1>3. ASSUME NEW k \in DOMAIN specs
      PROVE  specs[k].file \in Parsed /\ specs[k] = SpecOf(specs[k].file)
  <2>1. specs[k] \in Scenarios
    BY <1>1, <1>3
  <2>2. PICK i \in Parsed : specs[k] = SpecOf(i)
    BY <2>1 DEF Scenarios
  <2>3. QED
    BY <2>2 DEF SpecOf
<1>4. QED
  BY <1>1, <1>2, <1>3

\* That no name is used twice is what the count says.
LEMMA NamesUsedTwice ==
  ASSUME SuiteTyped
  PROVE  /\ IsFiniteSet(UsedTwice)
         /\ UsedTwice = {} <=>
               \A j, k \in DOMAIN specs : specs[j].name = specs[k].name => j = k
<1> DEFINE Bearing(n) == {i \in DOMAIN specs : specs[i].name = n}
           names == {specs[i].name : i \in DOMAIN specs}
<1>1. IsFiniteSet(DOMAIN specs)
  BY ListsAreTyped, FS_Interval
<1>2. ASSUME NEW n PROVE IsFiniteSet(Bearing(n)) /\ Cardinality(Bearing(n)) \in Nat
  BY <1>1, FS_Subset, FS_CardinalityType
<1>3. IsFiniteSet(names)
  <2> DEFINE name == [i \in DOMAIN specs |-> specs[i].name]
  <2>1. name \in Surjection(DOMAIN specs, names)
    BY DEF Surjection
  <2> HIDE DEF name, names
  <2>2. QED
    BY <1>1, <2>1, FS_Surjection
<1>4. UsedTwice \subseteq names /\ \A n \in names : n \in UsedTwice <=> Cardinality(Bearing(n)) > 1
  BY DEF UsedTwice
<1>5. ASSUME UsedTwice = {}, NEW j \in DOMAIN specs, NEW k \in DOMAIN specs,
             specs[j].name = specs[k].name
      PROVE  j = k
  <2> DEFINE n == specs[j].name
  <2>1. {j, k} \subseteq Bearing(n)
    BY <1>5
  <2>2. Cardinality({j, k}) <= Cardinality(Bearing(n))
    BY <1>2, <2>1, FS_Subset
  <2>3. ~(Cardinality(Bearing(n)) > 1)
    BY <1>4, <1>5
  <2>4. j # k => Cardinality({j, k}) = 2
    <3>1. IsFiniteSet({j}) /\ Cardinality({j}) = 1
      BY FS_Singleton
    <3> DEFINE one == {j}
    <3>2. {j, k} = one \cup {k} /\ (j # k => k \notin one) /\ Cardinality(one) = 1
      BY <3>1
    <3> HIDE DEF one
    <3>3. IsFiniteSet(one) => Cardinality(one \cup {k}) = IF k \in one THEN Cardinality(one)
                                                         ELSE Cardinality(one) + 1
      BY FS_AddElement
    <3>4. QED
      BY <3>1, <3>2, <3>3 DEF one
  <2> HIDE DEF Bearing
  <2>5. QED
    BY <1>2, <2>2, <2>3, <2>4
<1>6. ASSUME \A j, k \in DOMAIN specs : specs[j].name = specs[k].name => j = k, UsedTwice # {}
      PROVE  FALSE
  <2>1. PICK n \in names : n \in UsedTwice
    BY <1>4, <1>6
  <2>2. PICK j \in DOMAIN specs : specs[j].name = n
    BY <2>1
  <2>3. Bearing(n) = {j}
    BY <1>6, <2>2
  <2>4. Cardinality(Bearing(n)) = 1
    BY <2>3, FS_Singleton
  <2> HIDE DEF Bearing
  <2>5. QED
    BY <1>4, <2>1, <2>4
<1>7. IsFiniteSet(UsedTwice)
  BY <1>3, <1>4, FS_Subset
<1>8. QED
  BY <1>5, <1>6, <1>7

LEMMA SuiteInitInv == SuiteInit => SuiteInv
<1>1. SUFFICES ASSUME SuiteInit PROVE SuiteInv
  OBVIOUS
<1>2. files = <<>> /\ specs = <<>> /\ reports = <<>> /\ errors = 0 /\ stage = "start"
  BY <1>1 DEF SuiteInit
<1>3. SuiteTyped
  BY <1>1 DEF SuiteInit, SuiteTyped
<1>4. OncePerFile
  BY <1>2 DEF OncePerFile, Waiting, SpecFiles
<1>5. QED
  BY <1>2, <1>3, <1>4 DEF SuiteInv, StageOK, Untouched

LEMMA StartSuiteInv == SuiteInv /\ StartSuite => SuiteInv'
<1>1. SUFFICES ASSUME SuiteInv, StartSuite PROVE SuiteInv'
  OBVIOUS
<1>2. UNCHANGED <<job, fate, files, errors, specs, reports, traces>> /\ stage = "start"
  BY <1>1 DEF StartSuite
<1>3. SuiteTyped'
  BY <1>1, <1>2, SameFiles DEF SuiteInv, SuiteTyped
<1>4. OncePerFile'
  BY <1>1, <1>2 DEF SuiteInv, OncePerFile, Waiting, SpecFiles
<1>5. Untouched' /\ errors' = 0
  BY <1>1, <1>2 DEF SuiteInv, StageOK, Untouched
<1>6. Refused' = Refused
  BY <1>2, SameFiles
<1>7. IF Refused THEN stage' = "done" /\ exit' = 2 ELSE stage' = "discover"
  BY <1>1 DEF StartSuite, Refused
<1>8. QED
  BY <1>3, <1>4, <1>5, <1>6, <1>7 DEF SuiteInv, StageOK

\* The documents found are the scenarios among the files, each once.
LEMMA DiscoverInv == SuiteInv /\ Discover => SuiteInv'
<1>1. SUFFICES ASSUME SuiteInv, Discover PROVE SuiteInv'
  OBVIOUS
<1> DEFINE all == [i \in DOMAIN job.files |-> [file |-> i, doc |-> job.files[i]]]
           goes == {f \in ToSet(all) : ~IsScenario(f.doc)}
           found == Without(all, goes)
           Shown == {EntryOf(i) : i \in DOMAIN job.files}
<1>2. /\ UNCHANGED <<job, fate, specs, reports, traces, exit>> /\ stage = "discover"
      /\ IF ~job.exist
         THEN stage' = "report" /\ errors' = 1 /\ UNCHANGED files
         ELSE stage' = "load" /\ files' = found /\ errors' = IF found = <<>> THEN 1 ELSE 0
  BY <1>1 DEF Discover
<1>3. Untouched /\ errors = 0 /\ ~Refused /\ SuiteTyped /\ OncePerFile
  BY <1>1, <1>2 DEF SuiteInv, StageOK
<1>4. /\ Loaded' = Loaded /\ Parsed' = Parsed
      /\ Entries' = Entries /\ Scenarios' = Scenarios /\ Refused' = Refused
  BY <1>2, SameFiles
<1>5. job \in Jobs /\ fate \in [DOMAIN job.files -> [Swarms -> [1 .. Seeds -> BOOLEAN]]]
      /\ specs \in Seq(Scenarios)
  BY <1>3 DEF SuiteTyped
<1>6. CASE ~job.exist
  <2>1. SuiteTyped'
    BY <1>2, <1>3, <1>4, <1>6 DEF SuiteTyped
  <2>2. OncePerFile'
    BY <1>2, <1>3, <1>6 DEF OncePerFile, Waiting, SpecFiles
  <2>3. NothingFound' /\ stage' = "report"
    BY <1>2, <1>3, <1>4, <1>6 DEF NothingFound, Untouched
  <2>4. QED
    BY <2>1, <2>2, <2>3 DEF SuiteInv, StageOK
<1>7. CASE job.exist
  <2>1. all \in Seq(Shown) /\ Len(all) = Len(job.files) /\ DOMAIN all = DOMAIN job.files
    <3>1. DOMAIN job.files = 1 .. Len(job.files) /\ Len(job.files) \in Nat
      BY <1>5, JobIsTyped
    <3>2. \A i \in DOMAIN job.files : all[i] \in Shown
      BY DEF EntryOf
    <3>3. QED
      BY <3>1, <3>2
  <2>2. \A i \in DOMAIN job.files :
           all[i] = EntryOf(i) /\ all[i].file = i /\ (all[i] \notin goes <=> i \in Loaded)
    <3>1. \A i \in DOMAIN job.files : all[i] \in ToSet(all)
      BY DEF ToSet
    <3>2. \A i \in DOMAIN job.files :
             all[i] = EntryOf(i) /\ all[i].file = i /\ all[i].doc = job.files[i]
      BY DEF EntryOf
    <3> HIDE DEF all
    <3>3. QED
      BY <3>1, <3>2 DEF Loaded
  <2>3. DOMAIN all = 1 .. Len(all) /\ \A i, j \in 1 .. Len(all) : all[i] = all[j] => i = j
    BY <2>1, <2>2
  <2> HIDE DEF all, goes, Shown
  <2>4. /\ found \in Seq(Shown)
        /\ \A k \in 1 .. Len(found) : found[k] \notin goes /\ \E i \in 1 .. Len(all) : all[i] = found[k]
        /\ \A i \in 1 .. Len(all) : all[i] \notin goes => \E k \in 1 .. Len(found) : found[k] = all[i]
        /\ \A i, j \in 1 .. Len(found) : found[i] = found[j] => i = j
    BY <2>1, <2>3, WithoutContents
  <2> HIDE DEF found
  <2>5. \A k \in 1 .. Len(found) : found[k].file \in Loaded /\ found[k] = EntryOf(found[k].file)
    BY SMTT(30), <2>1, <2>2, <2>3, <2>4
  <2>6. found \in Seq(Entries) /\ Len(found) \in Nat /\ DOMAIN found = 1 .. Len(found)
    <3>1. Len(found) \in Nat /\ DOMAIN found = 1 .. Len(found) /\ found = [k \in 1 .. Len(found) |-> found[k]]
      BY <2>4
    <3>2. \A k \in 1 .. Len(found) : found[k] \in Entries
      BY <2>5 DEF Entries
    <3>3. QED
      BY <3>1, <3>2
  <2>7. \A i \in Loaded : \E k \in 1 .. Len(found) : found[k].file = i
    <3>1. ASSUME NEW i \in Loaded PROVE \E k \in 1 .. Len(found) : found[k].file = i
      <4>1. i \in DOMAIN all /\ all[i] \notin goes /\ all[i].file = i
        BY <2>1, <2>2 DEF Loaded
      <4>2. PICK k \in 1 .. Len(found) : found[k] = all[i]
        BY <2>3, <2>4, <4>1
      <4>3. QED
        BY <4>1, <4>2
    <3>2. QED
      BY <3>1
  <2>8. files' = found /\ errors' = (IF found = <<>> THEN 1 ELSE 0) /\ stage' = "load"
    BY <1>2, <1>7 DEF found
  <2>9. SuiteTyped'
    BY <1>2, <1>4, <1>5, <2>6, <2>8 DEF SuiteTyped
  <2>10. Waiting' = Loaded
    BY <2>5, <2>6, <2>7, <2>8 DEF Waiting
  <2>11. SpecFiles' = {} /\ specs' = <<>> /\ reports' = <<>>
    BY <1>2, <1>3 DEF SpecFiles, Untouched
  <2>12. OncePerFile'
    <3>1. \A j, k \in DOMAIN files' : files'[j].file = files'[k].file => j = k
      BY <2>4, <2>5, <2>6, <2>8
    <3>2. QED
      BY <3>1, <2>11 DEF OncePerFile
  <2>13. errors' = 0 <=> Loaded # {}
    <3>1. found = <<>> <=> Loaded = {}
      BY <2>5, <2>6, <2>7
    <3>2. QED
      BY <2>8, <3>1
  <2>14. Loading'
    <3>1. Parsed \subseteq Loaded
      BY DEF Parsed
    <3>2. job'.exist
      BY <1>2, <1>7
    <3>3. QED
      BY <1>3, <1>4, <2>10, <2>11, <2>13, <3>1, <3>2 DEF Loading
  <2>15. QED
    BY <2>8, <2>9, <2>12, <2>14 DEF SuiteInv, StageOK
<1>8. job.exist \in BOOLEAN
  BY <1>5, JobIsTyped DEF IsJob
<1>9. QED
  BY <1>6, <1>7

\* A document read is a scenario more, or an error more.
LEMMA LoadInv == SuiteInv /\ Load => SuiteInv'
<1>1. SUFFICES ASSUME SuiteInv, Load PROVE SuiteInv'
  OBVIOUS
<1> DEFINE f == files[1]
           i == f.file
<1>2. /\ UNCHANGED <<job, fate, stage, reports, traces, exit>> /\ stage = "load" /\ files # <<>>
      /\ IF Accepted(f.doc)
         THEN /\ specs' = Append(specs, [file |-> f.file, name |-> f.doc.name,
                                        expect |-> Apply(f.doc)])
              /\ UNCHANGED errors
         ELSE errors' = errors + 1 /\ UNCHANGED specs
      /\ files' = Tail(files)
  BY <1>1 DEF Load, SuiteInv, SuiteTyped
<1>3. SuiteTyped /\ OncePerFile /\ Loading
  BY <1>1, <1>2 DEF SuiteInv, StageOK
<1>4. /\ Loaded' = Loaded /\ Parsed' = Parsed
      /\ Entries' = Entries /\ Scenarios' = Scenarios /\ Refused' = Refused
  BY <1>2, SameFiles
<1>5. /\ files \in Seq(Entries) /\ specs \in Seq(Scenarios) /\ errors \in Nat
      /\ job \in Jobs /\ fate \in [DOMAIN job.files -> [Swarms -> [1 .. Seeds -> BOOLEAN]]]
  BY <1>3 DEF SuiteTyped
<1>6. /\ Len(files) \in Nat /\ DOMAIN files = 1 .. Len(files) /\ 1 \in DOMAIN files
      /\ Len(specs) \in Nat /\ DOMAIN specs = 1 .. Len(specs)
      /\ i \in Loaded /\ f = EntryOf(i) /\ f.doc = job.files[i]
  BY <1>2, <1>3, <1>5, ListsAreTyped DEF EntryOf
<1>7. /\ files' \in Seq(Entries) /\ Len(files') = Len(files) - 1
      /\ DOMAIN files' = 1 .. Len(files) - 1
      /\ \A k \in 1 .. Len(files) - 1 : files'[k] = files[k + 1] /\ k + 1 \in DOMAIN files
  BY <1>2, <1>5, <1>6
<1> HIDE DEF f
<1>8. Waiting' = Waiting \ {i} /\ i \in Waiting
  <2>1. i \in Waiting /\ i = files[1].file
    BY <1>6 DEF Waiting, f
  <2>2. ASSUME NEW j \in Waiting', j = i PROVE FALSE
    <3>1. PICK k \in DOMAIN files' : j = files'[k].file
      BY <2>2 DEF Waiting
    <3>2. files[k + 1].file = files[1].file /\ k + 1 \in DOMAIN files /\ k \in Nat /\ k # 0
      BY <1>7, <2>1, <2>2, <3>1
    <3>3. k + 1 = 1
      BY <1>3, <1>6, <3>2 DEF OncePerFile
    <3>4. QED
      BY <3>2, <3>3
  <2>3. ASSUME NEW j \in Waiting' PROVE j \in Waiting
    <3>1. PICK k \in DOMAIN files' : j = files'[k].file
      BY <2>3 DEF Waiting
    <3>2. QED
      BY <1>7, <3>1 DEF Waiting
  <2>4. ASSUME NEW j \in Waiting, j # i PROVE j \in Waiting'
    <3>1. PICK k \in DOMAIN files : j = files[k].file
      BY <2>4 DEF Waiting
    <3>2. k # 1 /\ k - 1 \in 1 .. Len(files) - 1 /\ (k - 1) + 1 = k
      BY <1>6, <2>1, <2>4, <3>1
    <3>3. files'[k - 1].file = j /\ k - 1 \in DOMAIN files'
      BY <1>7, <3>1, <3>2
    <3>4. QED
      BY <3>3 DEF Waiting
  <2>5. QED
    BY <2>1, <2>2, <2>3, <2>4
<1>9. \A j, k \in DOMAIN files' : files'[j].file = files'[k].file => j = k
  <2>1. ASSUME NEW j \in DOMAIN files', NEW k \in DOMAIN files', files'[j].file = files'[k].file
        PROVE  j = k
    <3>1. j + 1 = k + 1 /\ j \in Int /\ k \in Int
      BY SMTT(30), <1>3, <1>7, <2>1 DEF OncePerFile
    <3>2. QED
      BY <3>1
  <2>2. QED
    BY <2>1
<1>10. ~Refused' /\ job'.exist /\ reports' = <<>>
  BY <1>2, <1>3, <1>4 DEF Loading
<1>11. /\ Parsed \subseteq Waiting \cup SpecFiles
       /\ (errors = 0 <=> Loaded # {} /\ \A j \in Loaded \ Waiting : j \in Parsed)
       /\ i \notin SpecFiles
  BY <1>3, <1>8 DEF Loading, OncePerFile
<1>12. i \in Parsed <=> Accepted(f.doc)
  BY <1>6 DEF Parsed
<1>13. CASE Accepted(f.doc)
  <2>1. specs' = Append(specs, SpecOf(i)) /\ errors' = errors /\ SpecOf(i) \in Scenarios
    BY <1>2, <1>6, <1>12, <1>13 DEF SpecOf, Scenarios
  <2>2. /\ specs' \in Seq(Scenarios) /\ DOMAIN specs' = 1 .. Len(specs) + 1
        /\ specs'[Len(specs) + 1] = SpecOf(i) /\ \A k \in 1 .. Len(specs) : specs'[k] = specs[k]
    BY <1>5, <1>6, <2>1
  <2>3. SpecOf(i).file = i
    BY DEF SpecOf
  <2>4. SpecFiles' = SpecFiles \cup {i}
    <3>1. \A k \in 1 .. Len(specs) + 1 : k \in 1 .. Len(specs) \/ k = Len(specs) + 1
      BY <1>6
    <3>2. 1 .. Len(specs) \subseteq 1 .. Len(specs) + 1 /\ Len(specs) + 1 \in 1 .. Len(specs) + 1
      BY <1>6
    <3>3. QED
      BY <1>6, <2>2, <2>3, <3>1, <3>2 DEF SpecFiles
  <2>5. \A j, k \in DOMAIN specs' : specs'[j].file = specs'[k].file => j = k
    <3>1. \A k \in 1 .. Len(specs) : specs[k].file # i
      BY <1>6, <1>11 DEF SpecFiles
    <3>2. \A k \in DOMAIN specs' : k \in 1 .. Len(specs) \/ k = Len(specs) + 1
      BY <1>6, <2>2
    <3>3. \A j, k \in 1 .. Len(specs) : specs[j].file = specs[k].file => j = k
      BY <1>3, <1>6 DEF OncePerFile
    <3>4. QED
      BY <2>2, <2>3, <3>1, <3>2, <3>3
  <2>6. OncePerFile'
    BY <1>3, <1>8, <1>9, <2>4, <2>5 DEF OncePerFile
  <2>7. SuiteTyped'
    BY <1>2, <1>4, <1>5, <1>7, <2>1, <2>2 DEF SuiteTyped
  <2>8. Loading'
    <3>1. Parsed' \subseteq Waiting' \cup SpecFiles'
      BY <1>4, <1>8, <1>11, <2>4
    <3>2. errors' = 0 <=> Loaded' # {} /\ \A j \in Loaded' \ Waiting' : j \in Parsed'
      BY <1>4, <1>8, <1>11, <1>12, <1>13, <2>1
    <3>3. QED
      BY <1>10, <3>1, <3>2 DEF Loading
  <2>9. QED
    BY <1>2, <2>6, <2>7, <2>8 DEF SuiteInv, StageOK
<1>14. CASE ~Accepted(f.doc)
  <2>1. errors' = errors + 1 /\ specs' = specs
    BY <1>2, <1>14
  <2>2. SpecFiles' = SpecFiles
    BY <2>1 DEF SpecFiles
  <2>3. OncePerFile'
    BY <1>3, <1>8, <1>9, <2>1, <2>2 DEF OncePerFile
  <2>4. SuiteTyped'
    BY <1>2, <1>4, <1>5, <1>7, <2>1 DEF SuiteTyped
  <2>5. Loading'
    <3>1. Parsed' \subseteq Waiting' \cup SpecFiles'
      BY <1>4, <1>8, <1>11, <1>12, <1>14, <2>2
    <3>2. errors' # 0 /\ i \in Loaded' \ Waiting' /\ i \notin Parsed'
      BY <1>4, <1>5, <1>6, <1>8, <1>12, <1>14, <2>1
    <3>3. QED
      BY <1>10, <3>1, <3>2 DEF Loading
  <2>6. QED
    BY <1>2, <2>3, <2>4, <2>5 DEF SuiteInv, StageOK
<1>15. QED
  BY <1>13, <1>14

\* With every document read the scenarios are those accepted, and there is no error
\* only if all were and none bears another's name.
LEMMA CheckNamesInv == SuiteInv /\ CheckNames => SuiteInv'
<1>1. SUFFICES ASSUME SuiteInv, CheckNames PROVE SuiteInv'
  OBVIOUS
<1>2. /\ UNCHANGED <<job, fate, files, specs, reports, traces, exit>> /\ stage = "load"
      /\ files = <<>> /\ errors' = errors + Cardinality(UsedTwice) /\ stage' = "fly"
  BY <1>1 DEF CheckNames
<1>3. SuiteTyped /\ OncePerFile /\ Loading
  BY <1>1, <1>2 DEF SuiteInv, StageOK
<1>4. /\ Loaded' = Loaded /\ Parsed' = Parsed
      /\ Entries' = Entries /\ Scenarios' = Scenarios /\ Refused' = Refused
  BY <1>2, SameFiles
<1>5. Cardinality(UsedTwice) \in Nat /\ (Cardinality(UsedTwice) = 0 <=> UsedTwice = {})
  BY <1>3, NamesUsedTwice, FS_CardinalityType, FS_EmptySet
<1>6. SuiteTyped'
  BY <1>2, <1>3, <1>4, <1>5 DEF SuiteTyped
<1>7. UsedTwice' = UsedTwice /\ SpecFiles' = SpecFiles /\ Waiting' = {}
  BY <1>2 DEF UsedTwice, SpecFiles, Waiting
<1>8. OncePerFile'
  BY <1>2, <1>3, <1>7 DEF OncePerFile
<1>9. SpecFiles = Parsed
  <2>1. Waiting = {}
    BY <1>2 DEF Waiting
  <2>2. SpecFiles \subseteq Parsed
    BY <1>3, ListsAreTyped DEF SpecFiles
  <2>3. QED
    BY <1>3, <2>1, <2>2 DEF Loading
<1>10. errors = 0 <=> Loaded # {} /\ Loaded = Parsed
  <2>1. Waiting = {} /\ Parsed \subseteq Loaded
    BY <1>2 DEF Waiting, Parsed
  <2>2. QED
    BY <1>3, <2>1 DEF Loading
<1>11. AllLoaded'
  <2>1. errors' = 0 <=> errors = 0 /\ UsedTwice = {}
    BY <1>2, <1>3, <1>5 DEF SuiteTyped
  <2>2. ~Refused' /\ job'.exist
    BY <1>2, <1>3, <1>4 DEF Loading
  <2>3. QED
    BY <1>4, <1>7, <1>9, <1>10, <2>1, <2>2 DEF AllLoaded
<1>12. reports' = <<>>
  BY <1>2, <1>3 DEF Loading
<1>13. Flying'
  <2>1. TracesKept'
    BY <1>12 DEF TracesKept
  <2>2. Len(reports') <= Len(specs')
    BY <1>6, <1>12, ListsAreTyped, <1>2, <1>3
  <2>3. QED
    BY <1>11, <1>12, <2>1, <2>2 DEF Flying
<1>14. QED
  BY <1>2, <1>6, <1>8, <1>13 DEF SuiteInv, StageOK

\* What a step leaves that touches neither the job nor what was loaded.
LEMMA SameLoaded ==
  ASSUME UNCHANGED <<job, fate, files, errors, specs>>, SuiteTyped, OncePerFile
  PROVE  /\ SuiteTyped' /\ OncePerFile' /\ UsedTwice' = UsedTwice
         /\ AllLoaded => AllLoaded'
         /\ \A spec : VerdictsOn(spec)' = VerdictsOn(spec)
<1>1. /\ Loaded' = Loaded /\ Parsed' = Parsed
      /\ Entries' = Entries /\ Scenarios' = Scenarios /\ Refused' = Refused
  BY SameFiles
<1>2. UsedTwice' = UsedTwice /\ SpecFiles' = SpecFiles /\ Waiting' = Waiting
  BY DEF UsedTwice, SpecFiles, Waiting
<1>3. SuiteTyped'
  BY <1>1 DEF SuiteTyped
<1>4. OncePerFile'
  BY <1>2 DEF OncePerFile
<1>5. \A spec : VerdictsOn(spec)' = VerdictsOn(spec)
  BY DEF VerdictsOn, run_scenario
<1>6. QED
  BY <1>1, <1>2, <1>3, <1>4, <1>5 DEF AllLoaded

LEMMA FlyInv == SuiteInv /\ Fly => SuiteInv'
<1>1. SUFFICES ASSUME SuiteInv, Fly PROVE SuiteInv'
  OBVIOUS
<1> DEFINE last == Len(reports) + 1
           spec == specs[last]
           verdicts == [seed \in 1 .. Seeds |-> run_scenario(spec, Real, seed)]
           kept == {<<spec.name, seed>> : seed \in {s \in 1 .. Seeds :
                                                      KeepsTrace(spec, verdicts[s])}}
           report == [spec |-> spec, verdicts |-> verdicts, killed_by |-> NotChecked]
<1>2. /\ UNCHANGED <<job, fate, stage, files, errors, specs, exit>> /\ stage = "fly"
      /\ Len(reports) < Len(specs)
      /\ reports' = Append(reports, report)
      /\ traces' = [key \in DOMAIN traces \cup kept |->
                        IF key \in kept THEN spec.file ELSE traces[key]]
  BY <1>1 DEF Fly
<1>3. SuiteTyped /\ OncePerFile /\ Flying
  BY <1>1, <1>2 DEF SuiteInv, StageOK
<1>4. /\ SuiteTyped' /\ OncePerFile' /\ UsedTwice' = UsedTwice /\ AllLoaded'
      /\ \A sp : VerdictsOn(sp)' = VerdictsOn(sp)
  BY <1>2, <1>3, SameLoaded DEF Flying
<1>5. report = FlownReport(spec) /\ verdicts = VerdictsOn(spec)
  BY DEF FlownReport, VerdictsOn
<1>6. \A k \in DOMAIN specs : FlownReport(specs[k])' = FlownReport(specs[k])
  BY <1>2, <1>4 DEF FlownReport
<1> DEFINE Made == {FlownReport(specs[k]) : k \in DOMAIN specs}
<1>7. /\ reports \in Seq(Made) /\ Len(reports) \in Nat /\ DOMAIN reports = 1 .. Len(reports)
      /\ Len(specs) \in Nat /\ DOMAIN specs = 1 .. Len(specs)
      /\ \A k \in DOMAIN reports : reports[k] = FlownReport(specs[k])
  BY <1>3, ListsAreTyped DEF Flying
<1>8. Made' = Made
  BY <1>2, <1>6
<1>9. last \in DOMAIN specs /\ FlownReport(spec) \in Made
  BY <1>2, <1>7
<1> HIDE DEF Made, report, verdicts, kept
<1>10. /\ reports' \in Seq(Made) /\ Len(reports') = last /\ DOMAIN reports' = 1 .. last
       /\ reports'[last] = FlownReport(spec) /\ \A k \in DOMAIN reports : reports'[k] = reports[k]
       /\ \A k \in 1 .. last : k = last \/ k \in DOMAIN reports
  BY <1>2, <1>5, <1>7, <1>9
<1>11. \A k \in DOMAIN reports' : reports'[k] = FlownReport(specs[k])
  BY <1>7, <1>10
<1>12. TracesKept'
  <2>1. SUFFICES ASSUME UsedTwice = {}, NEW k \in DOMAIN reports', NEW seed \in 1 .. Seeds,
                        KeepsTrace(specs[k], VerdictsOn(specs[k])[seed])
                 PROVE  /\ <<specs[k].name, seed>> \in DOMAIN traces'
                        /\ traces'[<<specs[k].name, seed>>] = specs[k].file
    BY <1>2, <1>4 DEF TracesKept, KeepsTrace
  <2> DEFINE key == <<specs[k].name, seed>>
  <2>2. CASE k = last
    <3>1. key \in kept
      BY <1>5, <2>1, <2>2 DEF kept
    <3> HIDE DEF key
    <3>2. key \in DOMAIN traces' /\ traces'[key] = spec.file
      BY <1>2, <3>1
    <3>3. QED
      BY <2>2, <3>2 DEF key
  <2>3. CASE k # last
    <3>1. k \in DOMAIN reports /\ k \in DOMAIN specs
      BY <1>2, <1>7, <1>10, <2>3
    <3>2. key \in DOMAIN traces /\ traces[key] = specs[k].file
      BY <1>3, <2>1, <3>1 DEF Flying, TracesKept
    <3>3. specs[k].name # spec.name
      BY <1>3, <1>9, <2>1, <2>3, <3>1, NamesUsedTwice
    <3>4. key \notin kept
      BY <3>3 DEF kept
    <3> HIDE DEF key
    <3>5. key \in DOMAIN traces' /\ traces'[key] = traces[key]
      BY <1>2, <3>2, <3>4
    <3>6. QED
      BY <3>2, <3>5 DEF key
  <2>4. QED
    BY <2>2, <2>3
<1>13. Flying'
  <2>1. Len(reports') <= Len(specs')
    BY <1>2, <1>7, <1>10
  <2>2. \A k \in DOMAIN reports' : reports'[k] = FlownReport(specs[k])'
    BY <1>2, <1>6, <1>7, <1>10, <1>11
  <2>3. reports' \in Seq(Made')
    BY <1>8, <1>10
  <2>4. QED
    BY <1>4, <1>12, <2>1, <2>2, <2>3 DEF Flying, Made
<1>14. QED
  BY <1>2, <1>4, <1>13 DEF SuiteInv, StageOK

\* The mutants' flights add to the reports who failed the scenario, and no more.
LEMMA MutateInv == SuiteInv /\ Mutate => SuiteInv'
<1>1. SUFFICES ASSUME SuiteInv, Mutate PROVE SuiteInv'
  OBVIOUS
<1>2. /\ UNCHANGED <<job, fate, files, errors, specs, traces, exit>> /\ stage = "fly"
      /\ Len(reports) = Len(specs)
      /\ reports' = IF job.mutation = "off" THEN reports
                    ELSE [i \in DOMAIN reports |->
                             [reports[i] EXCEPT !.killed_by = Killers(reports[i])]]
      /\ stage' = "report"
  BY <1>1 DEF Mutate
<1>3. SuiteTyped /\ OncePerFile /\ Flying
  BY <1>1, <1>2 DEF SuiteInv, StageOK
<1>4. /\ SuiteTyped' /\ OncePerFile' /\ UsedTwice' = UsedTwice /\ AllLoaded'
      /\ \A sp : VerdictsOn(sp)' = VerdictsOn(sp)
  BY <1>2, <1>3, SameLoaded DEF Flying
<1>5. /\ DOMAIN reports = DOMAIN specs /\ reports = [k \in DOMAIN reports |-> reports[k]]
      /\ \A k \in DOMAIN reports : reports[k] = FlownReport(specs[k])
  <2>1. /\ DOMAIN reports = 1 .. Len(reports) /\ reports = [k \in DOMAIN reports |-> reports[k]]
        /\ \A k \in DOMAIN reports : reports[k] = FlownReport(specs[k])
    BY <1>3 DEF Flying
  <2>2. DOMAIN specs = 1 .. Len(specs)
    BY <1>3, ListsAreTyped
  <2>3. QED
    BY <1>2, <2>1, <2>2
<1>6. reports' = [k \in DOMAIN specs |-> FinalReport(specs[k])]
  <2>1. CASE job.mutation = "off"
    BY <1>2, <1>5, <2>1 DEF FinalReport
  <2>2. CASE job.mutation # "off"
    BY <1>2, <1>5, <2>2 DEF FinalReport
  <2>3. QED
    BY <2>1, <2>2
<1>7. \A k \in DOMAIN specs : FinalReport(specs[k])' = FinalReport(specs[k])
  <2>1. \A k \in DOMAIN specs : FlownReport(specs[k])' = FlownReport(specs[k])
    BY <1>2, <1>4 DEF FlownReport
  <2>2. \A r : Killers(r)' = Killers(r)
    BY <1>2 DEF Killers, run_scenario, OutcomeOf, AllPassed
  <2>3. QED
    BY <1>2, <2>1, <2>2 DEF FinalReport
<1>8. reports' = [k \in DOMAIN specs' |-> FinalReport(specs[k])']
  BY <1>2, <1>6, <1>7
<1>9. TracesKept'
  <2>1. DOMAIN reports' = DOMAIN reports
    BY <1>5, <1>6
  <2>2. QED
    BY <1>2, <1>3, <1>4, <2>1 DEF Flying, TracesKept, KeepsTrace
<1>10. AllFlown'
  BY <1>4, <1>8, <1>9 DEF AllFlown
<1>11. QED
  BY <1>2, <1>4, <1>10 DEF SuiteInv, StageOK

LEMMA ReportInv == SuiteInv /\ Report => SuiteInv'
<1>1. SUFFICES ASSUME SuiteInv, Report PROVE SuiteInv'
  OBVIOUS
<1>2. /\ UNCHANGED <<job, fate, files, errors, specs, reports, traces>> /\ stage = "report"
      /\ exit' = Status /\ stage' = "done"
  BY <1>1 DEF Report, Status
<1>3. SuiteTyped /\ OncePerFile /\ (AllFlown \/ NothingFound)
  BY <1>1, <1>2 DEF SuiteInv, StageOK
<1>4. /\ SuiteTyped' /\ OncePerFile' /\ UsedTwice' = UsedTwice /\ (AllLoaded => AllLoaded')
      /\ \A sp : VerdictsOn(sp)' = VerdictsOn(sp)
  BY <1>2, <1>3, SameLoaded
<1>5. Status' = Status
  <2>1. SuiteReports' = SuiteReports
    BY <1>2 DEF SuiteReports
  <2>2. MutationRun' = MutationRun
    BY <1>2 DEF MutationRun
  <2>3. Survivors' = Survivors
    BY <2>1, <2>2 DEF Survivors
  <2>4. Ok' = Ok
    BY <1>2, <2>1, <2>3 DEF Ok, OutcomeOf, AllPassed, Toothless, Checked
  <2>5. QED
    BY <1>2, <2>4 DEF Status
<1>6. AllFlown => AllFlown'
  <2>1. \A k \in DOMAIN specs : FlownReport(specs[k])' = FlownReport(specs[k])
    BY <1>2, <1>4 DEF FlownReport
  <2>2. \A r : Killers(r)' = Killers(r)
    BY <1>2 DEF Killers, run_scenario, OutcomeOf, AllPassed
  <2>3. \A k \in DOMAIN specs : FinalReport(specs[k])' = FinalReport(specs[k])
    BY <1>2, <2>1, <2>2 DEF FinalReport
  <2>4. TracesKept => TracesKept'
    BY <1>2, <1>4 DEF TracesKept, KeepsTrace
  <2>5. QED
    BY <1>2, <1>4, <2>3, <2>4 DEF AllFlown
<1>7. NothingFound => NothingFound'
  BY <1>2, SameFiles DEF NothingFound, Untouched
<1>8. exit' = Status'
  BY <1>2, <1>5
<1>9. QED
  BY <1>2, <1>3, <1>4, <1>6, <1>7, <1>8 DEF SuiteInv, StageOK

\* The inductive invariant of a run of the suite (run_suite, main).
THEOREM SuiteInvariance == SuiteSpec => []SuiteInv
<1>1. SuiteInv /\ [SuiteNext]_suiteVars => SuiteInv'
  <2>1. SUFFICES ASSUME SuiteInv, [SuiteNext]_suiteVars PROVE SuiteInv'
    OBVIOUS
  <2>2. CASE UNCHANGED suiteVars
    <3>1. UNCHANGED <<job, fate, stage, files, errors, specs, reports, traces, exit>>
      BY <2>2 DEF suiteVars
    <3>2. SuiteInv' <=> SuiteInv
      BY <3>1 DEF SuiteInv, SuiteTyped, OncePerFile, StageOK, Untouched, Loading, Flying, AllFlown,
          AllLoaded, NothingFound, Status, Ok, SuiteReports, Survivors, MutationRun, Toothless,
          Checked, OutcomeOf, AllPassed, TracesKept, KeepsTrace, VerdictsOn, run_scenario,
          FlownReport, FinalReport, Killers, UsedTwice, Refused, Loaded, Parsed, Entries,
          Scenarios, EntryOf, SpecOf, Apply, Accepted, IsScenario, Waiting, SpecFiles
    <3>3. QED
      BY <2>1, <3>2
  <2>3. QED
    BY <2>1, <2>2, StartSuiteInv, DiscoverInv, LoadInv, CheckNamesInv, FlyInv, MutateInv,
       ReportInv DEF SuiteNext
<1>2. QED
  BY <1>1, SuiteInitInv, PTL DEF SuiteSpec

-----------------------------------------------------------------------------
\* The final report on file i, whether its scenario may fail, and who fails it.
Final(i) == FinalReport(SpecOf(i))
MayFail(i) == IF job.expect = <<>> THEN job.files[i].expect = "fail"
              ELSE job.files[i].name \in job.expect[1]
MutantsFail(i) == {m \in Mutants : ~fate[i][m][1]}

\* The reports are those on the scenarios accepted.
LEMMA ReportsOnAll ==
  ASSUME SuiteTyped, AllFlown
  PROVE  /\ SuiteReports = {Final(i) : i \in Parsed}
         /\ DOMAIN reports = DOMAIN specs
         /\ \A k \in DOMAIN reports : reports[k] = Final(specs[k].file)
<1>1. DOMAIN reports = DOMAIN specs /\ \A k \in DOMAIN reports : reports[k] = FinalReport(specs[k])
  BY DEF AllFlown
<1>2. \A k \in DOMAIN specs : specs[k].file \in Parsed /\ specs[k] = SpecOf(specs[k].file)
  BY ListsAreTyped
<1>3. \A k \in DOMAIN reports : reports[k] = Final(specs[k].file)
  BY <1>1, <1>2 DEF Final
<1>4. \A i \in Parsed : \E k \in DOMAIN reports : specs[k].file = i
  BY <1>1 DEF AllFlown, AllLoaded, SpecFiles
<1>5. SuiteReports = {reports[k] : k \in DOMAIN reports}
  BY DEF SuiteReports, ToSet
<1>6. QED
  BY <1>1, <1>2, <1>3, <1>4, <1>5

\* What the report on an accepted scenario shows.
LEMMA ReportOnOne ==
  ASSUME SuiteTyped, NEW i \in Parsed
  PROVE  /\ Final(i).spec = SpecOf(i) /\ Final(i).verdicts = VerdictsOn(SpecOf(i))
         /\ AllPassed(Final(i)) <=> Passes(i)
         /\ Final(i).spec.expect = IF MayFail(i) THEN "fail" ELSE "pass"
         /\ OutcomeOf(Final(i)) = IF MayFail(i) THEN IF Passes(i) THEN "xpass" ELSE "xfail"
                                  ELSE IF Passes(i) THEN "passed" ELSE "failed"
         /\ Final(i).killed_by = IF job.mutation = "off" \/ OutcomeOf(Final(i)) # "passed"
                                 THEN NotChecked ELSE MutantsFail(i)
<1> DEFINE first == FlownReport(SpecOf(i))
<1>1. first.spec = SpecOf(i) /\ first.verdicts = VerdictsOn(SpecOf(i)) /\ first.killed_by = NotChecked
  BY DEF FlownReport
<1>2. /\ Final(i).spec = SpecOf(i) /\ Final(i).verdicts = VerdictsOn(SpecOf(i))
      /\ Final(i).killed_by = IF job.mutation = "off" THEN NotChecked ELSE Killers(first)
  BY DEF Final, FinalReport, FlownReport
<1>3. VerdictsOn(SpecOf(i)) = [seed \in 1 .. Seeds |-> fate[i][Real][seed]]
  BY DEF VerdictsOn, run_scenario, SpecOf
<1>4. AllPassed(Final(i)) <=> Passes(i)
  BY <1>2, <1>3 DEF AllPassed, Passes
<1>5. Final(i).spec.expect = IF MayFail(i) THEN "fail" ELSE "pass"
  <2>1. SpecOf(i).expect = Apply(job.files[i])
    BY DEF SpecOf
  <2>2. job.files[i].expect \in {"pass", "fail"}
    <3>1. IsJob(job)
      BY JobIsTyped DEF SuiteTyped
    <3>2. i \in DOMAIN job.files
      BY DEF Parsed, Loaded
    <3>3. job.files[i] \in ToSet(job.files)
      BY <3>2 DEF ToSet
    <3>4. QED
      BY <3>1, <3>3 DEF IsJob
  <2>3. QED
    BY <1>2, <2>1, <2>2 DEF Apply, MayFail
<1>6. OutcomeOf(first) = OutcomeOf(Final(i))
  BY <1>1, <1>2 DEF OutcomeOf, AllPassed
<1>7. OutcomeOf(Final(i)) = IF MayFail(i) THEN IF Passes(i) THEN "xpass" ELSE "xfail"
                           ELSE IF Passes(i) THEN "passed" ELSE "failed"
  BY <1>4, <1>5 DEF OutcomeOf
<1>8. Killers(first) = IF OutcomeOf(Final(i)) # "passed" THEN NotChecked ELSE MutantsFail(i)
  <2>1. {m \in Mutants : ~run_scenario(first.spec, m, 1)} = MutantsFail(i)
    <3>1. first.spec.file = i
      BY <1>1 DEF SpecOf
    <3> HIDE DEF first
    <3>2. \A m \in Mutants : run_scenario(first.spec, m, 1) = fate[i][m][1]
      BY <3>1 DEF run_scenario
    <3>3. QED
      BY <3>2 DEF MutantsFail
  <2> HIDE DEF first
  <2>2. QED
    BY <1>6, <2>1 DEF Killers
<1>9. QED
  BY <1>2, <1>4, <1>5, <1>7, <1>8

\* There is no error just when every scenario was accepted and has its own name.
LEMMA ErrorsAreReal ==
  ASSUME SuiteTyped, OncePerFile, AllLoaded
  PROVE  errors = 0 <=>
            /\ Loaded # {} /\ \A i \in Loaded : Accepted(job.files[i])
            /\ \A i, j \in Loaded : job.files[i].name = job.files[j].name => i = j
<1>1. Loaded = Parsed <=> \A i \in Loaded : Accepted(job.files[i])
  BY DEF Parsed
<1>2. ASSUME Loaded = Parsed
      PROVE  UsedTwice = {} <=>
                \A i, j \in Loaded : job.files[i].name = job.files[j].name => i = j
  <2>1. \A k \in DOMAIN specs : /\ specs[k].file \in Parsed
                               /\ specs[k].name = job.files[specs[k].file].name
    BY ListsAreTyped DEF SpecOf
  <2>2. \A i \in Loaded : \E k \in DOMAIN specs : specs[k].file = i
    BY <1>2 DEF AllLoaded, SpecFiles
  <2>3. \A j, k \in DOMAIN specs : specs[j].file = specs[k].file => j = k
    BY DEF OncePerFile
  <2>4. ASSUME \A j, k \in DOMAIN specs : specs[j].name = specs[k].name => j = k,
               NEW i \in Loaded, NEW j \in Loaded, job.files[i].name = job.files[j].name
        PROVE  i = j
    <3>1. PICK k \in DOMAIN specs : specs[k].file = i
      BY <2>2
    <3>2. PICK l \in DOMAIN specs : specs[l].file = j
      BY <2>2
    <3>3. k = l
      BY <2>1, <2>4, <3>1, <3>2
    <3>4. QED
      BY <3>1, <3>2, <3>3
  <2>5. ASSUME \A i, j \in Loaded : job.files[i].name = job.files[j].name => i = j,
               NEW j \in DOMAIN specs, NEW k \in DOMAIN specs, specs[j].name = specs[k].name
        PROVE  j = k
    <3>1. specs[j].file = specs[k].file
      BY <1>2, <2>1, <2>5
    <3>2. QED
      BY <2>3, <3>1
  <2>6. QED
    BY <2>4, <2>5, NamesUsedTwice
<1>3. QED
  BY <1>1, <1>2 DEF AllLoaded

\* What the mutation check finds missing.
LEMMA MutationVerdict ==
  ASSUME SuiteTyped, AllFlown, stage = "done"
  PROVE  /\ \A i \in Parsed : Toothless(Final(i)) <=>
               job.mutation # "off" /\ ~MayFail(i) /\ Passes(i) /\ MutantsFail(i) = {}
         /\ Survivors = IF job.mutation = "off" THEN {}
                        ELSE Mutants \ UNION {MutantsFail(i) :
                                                  i \in {j \in Parsed : ~MayFail(j) /\ Passes(j)}}
<1>1. ASSUME NEW i \in Parsed
      PROVE  /\ Final(i).killed_by = IF job.mutation = "off" \/ MayFail(i) \/ ~Passes(i)
                                     THEN NotChecked ELSE MutantsFail(i)
             /\ Final(i).spec.expect = IF MayFail(i) THEN "fail" ELSE "pass"
  BY ReportOnOne
<1>2. \A i : MutantsFail(i) \subseteq Mutants /\ MutantsFail(i) # NotChecked
  <2>1. "not checked" \notin Mutants
    BY SuiteAssumption
  <2>2. QED
    BY <2>1 DEF MutantsFail, NotChecked
<1>3. NotChecked \cap Mutants = {} /\ NotChecked # {}
  BY SuiteAssumption DEF NotChecked
<1>4. \A i \in Parsed : Toothless(Final(i)) <=>
         job.mutation # "off" /\ ~MayFail(i) /\ Passes(i) /\ MutantsFail(i) = {}
  BY <1>1, <1>2, <1>3 DEF Toothless, Checked
<1>5. SuiteReports = {Final(i) : i \in Parsed}
  BY ReportsOnAll
<1>6. MutationRun <=> job.mutation # "off"
  BY DEF MutationRun, AllFlown, AllLoaded
<1>7. UNION {r.killed_by : r \in SuiteReports} = UNION {Final(i).killed_by : i \in Parsed}
  BY <1>5
<1>8. CASE job.mutation # "off"
  <2> DEFINE passed == {j \in Parsed : ~MayFail(j) /\ Passes(j)}
  <2>1. \A i \in passed : Final(i).killed_by = MutantsFail(i)
    BY <1>1, <1>8
  <2>2. \A i \in Parsed \ passed : Final(i).killed_by = NotChecked
    BY <1>1
  <2>3. passed \subseteq Parsed
    OBVIOUS
  <2> HIDE DEF passed
  <2>4. ASSUME NEW m \in Mutants
        PROVE  m \in UNION {Final(i).killed_by : i \in Parsed} <=>
               m \in UNION {MutantsFail(i) : i \in passed}
    <3>1. m \notin NotChecked
      BY <1>3
    <3>2. ASSUME NEW i \in Parsed, m \in Final(i).killed_by PROVE i \in passed /\ m \in MutantsFail(i)
      BY <2>1, <2>2, <3>1, <3>2
    <3>3. ASSUME NEW i \in passed, m \in MutantsFail(i) PROVE i \in Parsed /\ m \in Final(i).killed_by
      BY <2>1, <2>3, <3>3
    <3>4. QED
      BY <3>2, <3>3
  <2>5. Survivors = Mutants \ UNION {MutantsFail(i) : i \in passed}
    BY <1>6, <1>7, <1>8, <2>4 DEF Survivors
  <2>6. QED
    BY <1>4, <1>8, <2>5 DEF passed
<1>9. CASE job.mutation = "off"
  BY <1>4, <1>6, <1>9 DEF Survivors
<1>10. QED
  BY <1>8, <1>9

\* In a run that flew its scenarios, Ok says what it should.
LEMMA OkIsTrue ==
  ASSUME SuiteTyped, OncePerFile, AllFlown, stage = "done"
  PROVE  Ok <=>
            /\ Loaded # {} /\ \A i \in Loaded : Accepted(job.files[i])
            /\ \A i, j \in Loaded : job.files[i].name = job.files[j].name => i = j
            /\ \A i \in Loaded : IF MayFail(i) THEN ~Passes(i) ELSE Passes(i)
            /\ job.mutation # "off" =>
                  /\ \A i \in Loaded : ~MayFail(i) => MutantsFail(i) # {}
                  /\ UNION {MutantsFail(i) : i \in {j \in Loaded : ~MayFail(j)}} = Mutants
<1> DEFINE noErrors == /\ Loaded # {} /\ \A i \in Loaded : Accepted(job.files[i])
                       /\ \A i, j \in Loaded : job.files[i].name = job.files[j].name => i = j
           asExpected == \A i \in Parsed : IF MayFail(i) THEN ~Passes(i) ELSE Passes(i)
           strict == {j \in Parsed : ~MayFail(j)}
           passed == {j \in Parsed : ~MayFail(j) /\ Passes(j)}
           caught(S) == UNION {MutantsFail(i) : i \in S}
<1>1. errors = 0 <=> noErrors
  BY ErrorsAreReal DEF AllFlown
<1>2. SuiteReports = {Final(i) : i \in Parsed}
  BY ReportsOnAll
<1>3. (\A r \in SuiteReports : OutcomeOf(r) \in {"passed", "xfail"}) <=> asExpected
  <2>1. ASSUME NEW i \in Parsed
        PROVE  OutcomeOf(Final(i)) \in {"passed", "xfail"} <=>
                  IF MayFail(i) THEN ~Passes(i) ELSE Passes(i)
    <3>1. OutcomeOf(Final(i)) = IF MayFail(i) THEN IF Passes(i) THEN "xpass" ELSE "xfail"
                               ELSE IF Passes(i) THEN "passed" ELSE "failed"
      BY ReportOnOne
    <3>2. QED
      BY <3>1
  <2>2. QED
    BY <1>2, <2>1
<1>4. asExpected => passed = strict
  OBVIOUS
<1>5. (\E r \in SuiteReports : Toothless(r)) <=>
         job.mutation # "off" /\ \E i \in passed : MutantsFail(i) = {}
  <2>1. \A i \in Parsed : Toothless(Final(i)) <=>
           job.mutation # "off" /\ ~MayFail(i) /\ Passes(i) /\ MutantsFail(i) = {}
    BY MutationVerdict
  <2>2. QED
    BY <1>2, <2>1
<1>6. Survivors = {} <=> (job.mutation # "off" => caught(passed) = Mutants)
  <2>1. Survivors = IF job.mutation = "off" THEN {} ELSE Mutants \ caught(passed)
    BY MutationVerdict
  <2>2. caught(passed) \subseteq Mutants
    BY DEF MutantsFail
  <2> HIDE DEF caught, passed
  <2>3. QED
    BY <2>1, <2>2
<1>7. noErrors => Loaded = Parsed
  BY DEF Parsed
<1> HIDE DEF strict, passed, caught, noErrors, asExpected
<1>8. Ok <=>
         /\ noErrors /\ asExpected
         /\ job.mutation # "off" =>
               /\ \A i \in strict : MutantsFail(i) # {}
               /\ caught(strict) = Mutants
  <2>1. Ok <=>
           /\ errors = 0
           /\ \A r \in SuiteReports : OutcomeOf(r) \in {"passed", "xfail"}
           /\ ~\E r \in SuiteReports : Toothless(r)
           /\ Survivors = {}
    BY DEF Ok
  <2>2. QED
    BY <1>1, <1>3, <1>4, <1>5, <1>6, <2>1
<1>9. QED
  BY <1>7, <1>8 DEF strict, passed, caught, noErrors, asExpected

LEMMA EarnedWhenDone == SuiteInv => OkIsEarned
<1>1. SUFFICES ASSUME SuiteInv, Done PROVE OkIsEarned
  BY DEF OkIsEarned
<1>2. SuiteTyped /\ OncePerFile /\ stage = "done"
  BY <1>1 DEF SuiteInv, Done
<1> DEFINE mayFail == {i \in Loaded : MayFail(i)}
           earned == /\ job.usable /\ job.exist
                     /\ job.mutation = "reference" => job.sut = "reference"
                     /\ Loaded # {}
                     /\ \A i \in Loaded : Accepted(job.files[i])
                     /\ \A i, j \in Loaded : job.files[i].name = job.files[j].name => i = j
                     /\ \A i \in Loaded \ mayFail : Passes(i)
                     /\ \A i \in mayFail : ~Passes(i)
                     /\ job.mutation # "off" =>
                           /\ \A i \in Loaded \ mayFail : MutantsFail(i) # {}
                           /\ UNION {MutantsFail(i) : i \in Loaded \ mayFail} = Mutants
<1>3. OkIsEarned <=> (exit = 0 <=> earned)
  <2>1. Loaded = {i \in DOMAIN job.files :
                     ~(job.expect # <<>> /\ job.files[i].kind = "expectations")}
    BY DEF Loaded, IsScenario
  <2>2. mayFail = {i \in Loaded : IF job.expect = <<>> THEN job.files[i].expect = "fail"
                                  ELSE job.files[i].name \in job.expect[1]}
    BY DEF MayFail
  <2>3. QED
    BY <1>1, <2>1, <2>2 DEF OkIsEarned, MutantsFail
<1>4. IsJob(job)
  BY <1>2, JobIsTyped DEF SuiteTyped
<1>5. CASE AllFlown /\ exit = Status
  <2>1. exit = 0 <=> Ok
    <3>1. Ok => errors = 0
      BY DEF Ok
    <3>2. QED
      BY <1>5, <3>1 DEF Status
  <2>2. /\ job.usable /\ job.exist
        /\ job.mutation = "reference" => job.sut = "reference"
    BY <1>4, <1>5 DEF AllFlown, AllLoaded, Refused, IsJob
  <2>3. Ok <=> earned
    <3>1. /\ Loaded \ mayFail = {j \in Loaded : ~MayFail(j)}
          /\ \A i \in Loaded : i \in mayFail <=> MayFail(i)
      OBVIOUS
    <3>2. /\ (\A i \in Loaded : IF MayFail(i) THEN ~Passes(i) ELSE Passes(i)) <=>
               /\ \A i \in Loaded \ mayFail : Passes(i)
               /\ \A i \in mayFail : ~Passes(i)
          /\ (\A i \in Loaded : ~MayFail(i) => MutantsFail(i) # {}) <=>
               \A i \in Loaded \ mayFail : MutantsFail(i) # {}
          /\ {MutantsFail(i) : i \in {j \in Loaded : ~MayFail(j)}} =
               {MutantsFail(i) : i \in Loaded \ mayFail}
      BY <3>1
    <3> HIDE DEF mayFail
    <3>3. QED
      BY <1>2, <1>5, <2>2, <3>2, OkIsTrue
  <2> HIDE DEF earned
  <2>4. QED
    BY <1>3, <2>1, <2>3
<1>6. CASE NothingFound /\ exit = Status
  <2>1. exit = 2 /\ ~job.exist
    BY <1>6 DEF NothingFound, Untouched, Status
  <2>2. QED
    BY <1>3, <2>1
<1>7. CASE Refused /\ exit = 2
  BY <1>3, <1>7 DEF Refused
<1>8. QED
  BY <1>1, <1>2, <1>5, <1>6, <1>7 DEF SuiteInv, StageOK

\* Exit status 0 is earned (run_suite, SuiteReport.ok, main): whatever documents,
\* expectations, seeds, mutants and outcomes of the flights, a run ends with 0 just
\* when every scenario was accepted under its own name and did as expected, and
\* the mutation check left no mutant and no scenario out.
THEOREM SpecOkIsEarned == SuiteSpec => []OkIsEarned
<1>1. QED
  BY SuiteInvariance, EarnedWhenDone, PTL

-----------------------------------------------------------------------------
\* The counts of the JUnit report are numbers, and none is zero that shows something.
LEMMA JunitCounts ==
  ASSUME SuiteTyped, AllFlown \/ NothingFound
  PROVE  /\ junit.errors = errors /\ junit.failures \in Nat
         /\ (\/ FlightsShown("failure") # {}
             \/ \E i \in DOMAIN reports : Toothless(reports[i])
             \/ Survivors # {}) => junit.failures > 0
<1> DEFINE flights == FlightsShown("failure")
           toothless == {i \in DOMAIN reports : Toothless(reports[i])}
<1>1. IsFiniteSet(DOMAIN reports)
  <2>1. CASE AllFlown
    <3>1. DOMAIN reports = 1 .. Len(specs) /\ Len(specs) \in Nat
      BY <2>1, ListsAreTyped DEF AllFlown
    <3>2. QED
      BY <3>1, FS_Interval
  <2>2. CASE NothingFound
    <3>1. DOMAIN reports = {}
      BY <2>2 DEF NothingFound, Untouched
    <3>2. QED
      BY <3>1, FS_EmptySet
  <2>3. QED
    BY <2>1, <2>2
<1>2. IsFiniteSet(flights)
  <2>1. IsFiniteSet(1 .. Seeds)
    <3>1. 1 \in Int
      OBVIOUS
    <3>2. QED
      BY <3>1, SeedsAreMany, FS_Interval
  <2>2. IsFiniteSet((DOMAIN reports) \X (1 .. Seeds))
    BY <1>1, <2>1, FS_Product
  <2>3. flights \subseteq (DOMAIN reports) \X (1 .. Seeds)
    BY DEF FlightsShown
  <2> HIDE DEF flights
  <2>4. QED
    BY <2>2, <2>3, FS_Subset
<1>3. IsFiniteSet(toothless)
  BY <1>1, FS_Subset
<1>4. IsFiniteSet(Survivors)
  <2>1. Survivors \subseteq Mutants
    BY DEF Survivors
  <2>2. QED
    BY <2>1, SuiteAssumption, FS_Subset
<1>5. junit.errors = errors /\ junit.failures = Cardinality(flights) + Cardinality(toothless)
                                               + Cardinality(Survivors)
  BY DEF junit
<1>6. (\E i \in DOMAIN reports : Toothless(reports[i])) => toothless # {}
  OBVIOUS
<1> HIDE DEF toothless, flights
<1>7. /\ Cardinality(flights) \in Nat /\ (Cardinality(flights) = 0 <=> flights = {})
      /\ Cardinality(toothless) \in Nat /\ (Cardinality(toothless) = 0 <=> toothless = {})
      /\ Cardinality(Survivors) \in Nat /\ (Cardinality(Survivors) = 0 <=> Survivors = {})
  BY <1>2, <1>3, <1>4, FS_CardinalityType, FS_EmptySet
<1>8. QED
  BY <1>5, <1>6, <1>7 DEF flights

\* A report with an outcome nobody wants has a flight that failed the report.
LEMMA BadOutcomeShows ==
  ASSUME SuiteTyped, AllFlown, NEW k \in DOMAIN reports,
         OutcomeOf(reports[k]) \notin {"passed", "xfail"}
  PROVE  FlightsShown("failure") # {}
<1> DEFINE i == specs[k].file
           r == reports[k]
<1>1. r = Final(i) /\ i \in Parsed
  BY ReportsOnAll, ListsAreTyped
<1>2. /\ r.verdicts = VerdictsOn(SpecOf(i)) /\ DOMAIN r.verdicts = 1 .. Seeds
      /\ 1 \in 1 .. Seeds
  <2>1. r.verdicts = VerdictsOn(SpecOf(i))
    BY <1>1, ReportOnOne
  <2>2. DOMAIN VerdictsOn(SpecOf(i)) = 1 .. Seeds
    BY DEF VerdictsOn
  <2>3. QED
    BY <2>1, <2>2, SeedsAreMany
<1> HIDE DEF r
<1>3. PICK seed \in 1 .. Seeds : FlightCase(r.spec, r.verdicts[seed]) = "failure"
  <2>1. CASE r.spec.expect = "fail"
    <3>1. AllPassed(r)
      BY <2>1 DEF OutcomeOf, r
    <3>2. r.verdicts[1]
      BY <1>2, <3>1 DEF AllPassed
    <3>3. FlightCase(r.spec, r.verdicts[1]) = "failure"
      BY <2>1, <3>2 DEF FlightCase
    <3>4. QED
      BY <1>2, <3>3
  <2>2. CASE r.spec.expect # "fail"
    <3>1. ~AllPassed(r)
      BY <2>2 DEF OutcomeOf, r
    <3>2. PICK seed \in 1 .. Seeds : ~r.verdicts[seed]
      BY <1>2, <3>1 DEF AllPassed
    <3>3. FlightCase(r.spec, r.verdicts[seed]) = "failure"
      BY <2>2, <3>2 DEF FlightCase
    <3>4. QED
      BY <3>3
  <2>3. QED
    BY <2>1, <2>2
<1>4. <<k, seed>> \in FlightsShown("failure")
  BY <1>3 DEF FlightsShown, r
<1>5. QED
  BY <1>4

LEMMA ExplainedWhenDone == SuiteInv => FailuresAreExplained
<1>1. SUFFICES ASSUME SuiteInv, Done, errors + Len(reports) > 0 PROVE FailuresAreExplained
  BY DEF FailuresAreExplained
<1>2. SuiteTyped /\ OncePerFile /\ stage = "done"
  BY <1>1 DEF SuiteInv, Done
<1>3. exit = Status /\ (AllFlown \/ NothingFound)
  <2>1. Untouched /\ errors = 0 => FALSE
    BY <1>1 DEF Untouched
  <2>2. QED
    BY <1>1, <1>2, <2>1 DEF SuiteInv, StageOK
<1>4. ASSUME exit # 0 PROVE junit.errors + junit.failures > 0
  <2>1. ~Ok
    <3>1. Ok => errors = 0
      BY DEF Ok
    <3>2. QED
      BY <1>3, <1>4, <3>1 DEF Status
  <2>2. /\ junit.errors = errors /\ junit.failures \in Nat /\ errors \in Nat
        /\ (\/ FlightsShown("failure") # {}
            \/ \E i \in DOMAIN reports : Toothless(reports[i])
            \/ Survivors # {}) => junit.failures > 0
    BY <1>2, <1>3, JunitCounts DEF SuiteTyped
  <2>3. CASE errors # 0
    BY <2>2, <2>3
  <2>4. CASE errors = 0
    <3>1. AllFlown
      BY <1>3, <2>4 DEF NothingFound
    <3>2. SuiteReports = {reports[k] : k \in DOMAIN reports}
      BY DEF SuiteReports, ToSet
    <3>3. \/ \E k \in DOMAIN reports : OutcomeOf(reports[k]) \notin {"passed", "xfail"}
          \/ \E k \in DOMAIN reports : Toothless(reports[k])
          \/ Survivors # {}
      BY <2>1, <2>4, <3>2 DEF Ok
    <3>4. QED
      BY <1>2, <2>2, <2>4, <3>1, <3>3, BadOutcomeShows
  <2>5. QED
    BY <2>3, <2>4
<1>5. ASSUME UsedTwice = {}, NEW r \in SuiteReports, NEW seed \in 1 .. Seeds, ~r.verdicts[seed]
      PROVE  /\ <<r.spec.name, seed>> \in DOMAIN traces
             /\ traces[<<r.spec.name, seed>>] = r.spec.file
  <2>1. PICK k \in DOMAIN reports : r = reports[k]
    BY <1>5 DEF SuiteReports, ToSet
  <2>2. AllFlown
    BY <1>3, <2>1 DEF NothingFound, Untouched
  <2>3. r.spec = specs[k] /\ r.verdicts = VerdictsOn(specs[k])
    BY <2>1, <2>2 DEF AllFlown, FinalReport, FlownReport
  <2>4. KeepsTrace(specs[k], VerdictsOn(specs[k])[seed])
    BY <1>5, <2>3 DEF KeepsTrace
  <2>5. QED
    BY <1>5, <2>1, <2>2, <2>3, <2>4 DEF AllFlown, TracesKept
<1>6. \A r \in SuiteReports : DOMAIN r.verdicts = 1 .. Seeds
  <2>1. CASE AllFlown
    <3>1. \A k \in DOMAIN reports : reports[k].verdicts = VerdictsOn(specs[k])
      BY <2>1 DEF AllFlown, FinalReport, FlownReport
    <3>2. QED
      BY <3>1 DEF SuiteReports, ToSet, VerdictsOn
  <2>2. CASE NothingFound
    BY <2>2 DEF NothingFound, Untouched, SuiteReports, ToSet
  <2>3. QED
    BY <1>3, <2>1, <2>2
<1>7. QED
  BY <1>4, <1>5, <1>6 DEF FailuresAreExplained

\* A run that fails shows why (to_junit, run_suite's traces): for any documents,
\* seeds, mutants and flights the JUnit report of a run that does not exit with 0
\* has an error or a failure, and while no name is used twice the trace of every
\* failing flight is kept under the scenario's own name.
THEOREM SpecFailuresAreExplained == SuiteSpec => []FailuresAreExplained
<1>1. QED
  BY SuiteInvariance, ExplainedWhenDone, PTL

-----------------------------------------------------------------------------
(* A flight: the inductive invariant, part by part. *)

\* What the swarm is made of.
Messages == Orders \ {NoOrder}
Softwares ==
    [ctl : DC!Controllers, leader : Drones \cup {NoLeader},
     leaderUp : {"unknown", "up", "down"}, heard : Nat]
Setpoints == [at : DC!Places, up : BOOLEAN] \cup {NoSetpoint}
Vehicles ==
    [armed : BOOLEAN, mode : DC!Modes, up : BOOLEAN, place : DC!Places, leg : Nat,
     setpoint : Setpoints, age : Nat, climbing : BOOLEAN, tookOff : BOOLEAN,
     armedFor : Nat, grounded : Int, charge : Charges]
Said ==
    [up : BOOLEAN, armed : BOOLEAN, charge : Charges, mission : MissionIds \cup {DC!None},
     index : 0 .. NumWaypoints, complete : BOOLEAN]
Heard == [mission : MissionIds \cup {DC!None}, complete : BOOLEAN, disarmed : BOOLEAN]

FlightTypes ==
    /\ turn \in {"events", "ground", "drones"}
    /\ used \subseteq MissionIds
    /\ pending \in [Drones -> Seq(Messages)]
    /\ inbox \in [Drones -> Seq(Messages)]
    /\ spoken \in [Drones -> Said]
    /\ lost \subseteq Drones
    /\ readings \in [Drones -> Heard]
    /\ software \in [Drones -> Softwares]
    /\ vehicles \in [Drones -> Vehicles]
    /\ flown \in [Drones -> 0 .. NumWaypoints]
    /\ lowFor \in [Drones -> 0 .. 3]
    /\ missed \subseteq Drones

\* Passes are made in the ground station's turn, of a mission.
Turns ==
    /\ scanning => turn = "ground"
    /\ turn = "ground" => mission # NoMission

\* A part that is complete was flown to its end and is being handed over.
Sane(c) ==
    /\ c.index <= Len(c.route) /\ Len(c.route) <= NumWaypoints
    /\ c.complete => c.handover # DC!None
    /\ c.complete /\ c.task = "path" => c.index = Len(c.route)
SoftwareIsSane == \A d \in Drones : Sane(software[d].ctl)

\* What names a mission names one that was dispatched.
NamesAreUsed ==
    /\ mission # NoMission => mission \in used
    /\ \A d \in Drones :
          /\ software[d].ctl.mission \in used \cup {DC!None}
          /\ readings[d].mission \in used \cup {DC!None}
          /\ \A o \in Range(pending[d]) \cup Range(inbox[d]) : IsTask(o) => o.mission \in used

\* A task of the present mission that is on its way is the one its drone has in the
\* plan, unless the drone was replaced since.
Present(id) == mission # NoMission /\ id = mission
OfMission(o) == IsTask(o) /\ Present(o.mission)
Suits(d, o) ==
    \/ d \in retired
    \/ o.kind = "assign" /\ d \in DOMAIN paths /\ o.route = paths[d]
    \/ o.kind = "slot" /\ d \in DOMAIN followers
MessagesSuit ==
    \A d \in Drones : \A o \in Range(pending[d]) \cup Range(inbox[d]) :
        OfMission(o) => Suits(d, o)

\* So is the one a drone flies, and what it counted of its route was flown.
Covered(route, index) == flown[route.lane] >= NumWaypoints - route.left + index
Flies(d, c) ==
    \/ d \in retired
    \/ /\ c.task = "path" /\ d \in DOMAIN paths
       /\ c.route = RouteOf(paths[d]) /\ Covered(paths[d], c.index)
    \/ c.task = "slot" /\ d \in DOMAIN followers
SoftwareSuits ==
    \A d \in Drones : Present(software[d].ctl.mission) => Flies(d, software[d].ctl)

\* What the supervisor was told of a route was flown, and it was told nothing of a
\* drone that has no part in the mission.
ProgressIsCovered ==
    mission # NoMission =>
        /\ \A d \in DOMAIN paths :
              /\ Covered(paths[d], progress[d].index)
              /\ progress[d].complete => flown[paths[d].lane] = NumWaypoints
        /\ \A d \in Drones \ (MissionDrones \cup retired) : progress[d] = NoProgress

\* A drone's last report is of the software as it is, the aggregator heard what the
\* supervisor heard, and both of what was just said.
ReportsAgree ==
    \A d \in Drones :
        /\ spoken[d].mission = software[d].ctl.mission
        /\ spoken[d].index = software[d].ctl.index
        /\ spoken[d].complete = software[d].ctl.complete
        /\ Present(readings[d].mission) /\ readings[d].complete => Finished(d)
        /\ turn # "events" /\ d \notin lost => readings[d] = Seen(d)

\* The drones the aggregator waits for are those of the mission, or one of them is
\* not done: only such a drone's part is handed over.
ActiveIsBehind ==
    /\ active.mission = mission
    /\ mission = NoMission => active.drones = {}
    /\ MissionDrones \subseteq active.drones \/ \E d \in active.drones : ~Finished(d)

\* Tasks arrive in the order of their missions: after one of the present mission
\* there are no others, and who was heard of it knows it.
AllPresent(orders) == \A o \in Range(orders) : IsTask(o) => Present(o.mission)
PresentLast(orders) ==
    \A i, j \in DOMAIN orders :
        i < j /\ OfMission(orders[i]) /\ IsTask(orders[j]) => Present(orders[j].mission)
MissionsInOrder ==
    \A d \in Drones :
        /\ PresentLast(pending[d]) /\ PresentLast(inbox[d])
        /\ (\E o \in Range(inbox[d]) : OfMission(o)) => AllPresent(pending[d])
        /\ Present(software[d].ctl.mission) => AllPresent(pending[d]) /\ AllPresent(inbox[d])
        /\ mission # NoMission /\ Finished(d) => software[d].ctl.mission = mission

\* The last order to a drone that missed none is still to be sent, has arrived or
\* was carried out.
LastIs(orders, o) == orders # <<>> /\ orders[Len(orders)] = o
CarriedOut(o, c) ==
    /\ o.kind = "command" => c.handover # DC!None
    /\ o.kind = "none" => c.task = DC!None
LastOrders ==
    \A d \in Drones :
        /\ pending[d] # <<>> => LastIs(pending[d], order[d])
        /\ pending[d] = <<>> /\ d \notin missed =>
              IF inbox[d] # <<>> THEN LastIs(inbox[d], order[d])
              ELSE CarriedOut(order[d], software[d].ctl)

\* A vehicle flies as its software has it: not for a drone that hands over, and not
\* for one that never had a task.  One that was disarmed and done stays so.
ModeAsTold(v, c) ==
    /\ ~v.armed => ~v.up
    /\ c.handover # DC!None => ~v.armed \/ v.mode # DC!OFFBOARD
    /\ v.mode = DC!OFFBOARD => c.task # DC!None
VehiclesObey ==
    \A d \in Drones :
        /\ ModeAsTold(vehicles[d], software[d].ctl)
        /\ spoken[d].complete /\ ~spoken[d].armed => ~vehicles[d].armed

\* From a low battery to the command that is about to be carried out.
OnItsWayHome(d) == inbox[d] # <<>> /\ inbox[d][Len(inbox[d])].kind = "command"
LowDronesAreTold ==
    \A d \in Drones : lowFor[d] >= 1 =>
        /\ lowFor[d] <= 2
        /\ d \notin lost /\ d \notin missed
        /\ spoken[d].charge # "ok"
        /\ vehicles[d].armed /\ vehicles[d].mode = DC!OFFBOARD
        /\ lowFor[d] = 2 => OnItsWayHome(d)
        /\ turn = "ground" => Low(d) /\ ~Finished(d)
        /\ turn = "drones" => ~IsTask(order[d]) \/ d \in dropped

FlightInv ==
    /\ SupervisorInv /\ FlightTypes /\ Turns
    /\ SoftwareIsSane /\ NamesAreUsed
    /\ MessagesSuit /\ SoftwareSuits /\ ProgressIsCovered
    /\ ReportsAgree /\ ActiveIsBehind /\ MissionsInOrder /\ LastOrders
    /\ VehiclesObey /\ LowDronesAreTold

-----------------------------------------------------------------------------
(* What a tick of a drone's software does. *)

\* A controller with the same task and the same count of it.
SameTask(c, d) ==
    /\ d \in DC!Controllers
    /\ d.task = c.task /\ d.mission = c.mission /\ d.route = c.route
SameState(c, d) ==
    /\ SameTask(c, d)
    /\ d.index = c.index /\ d.complete = c.complete /\ d.handover = c.handover

\* What is asked of the autopilot by a drone that hands over: the mode it hands
\* over to, unless it is in that mode or disarmed.
AsksFor(m, out, armed, mode) ==
    /\ ~out.request_arm
    /\ \/ out.request_mode = m
       \/ out.request_mode = DC!None /\ (mode = m \/ armed = "no")
IsOutput(out) ==
    /\ out.setpoint \in DC!Places \cup {DC!None}
    /\ out.request_mode \in DC!Modes \cup {DC!None}
    /\ out.request_arm \in BOOLEAN

LEMMA HandingOver ==
  ASSUME NEW c \in DC!Controllers, NEW armed, NEW mode
  PROVE  /\ SameState(c, DC!KeepHandingOver(c, armed, mode, TRUE).ctl)
         /\ IsOutput(DC!KeepHandingOver(c, armed, mode, TRUE).out)
         /\ AsksFor(c.handover, DC!KeepHandingOver(c, armed, mode, TRUE).out, armed, mode)
<1> DEFINE r == DC!KeepHandingOver(c, armed, mode, TRUE)
           asking == [c EXCEPT !.handoverAsked = TRUE]
<1>1. SameState(c, asking) /\ SameState(c, c)
  BY DEF DC!Controllers, SameState, SameTask
<1>2. c.handover \in DC!Modes \cup {DC!None}
  BY DEF DC!Controllers
<1>3. r = IF mode = c.handover \/ armed = "no" THEN DC!Result(c, DC!Quiet)
          ELSE DC!Result(asking, DC!Output(DC!None, c.handover, FALSE))
  BY DEF DC!KeepHandingOver
<1> SUFFICES SameState(c, r.ctl) /\ IsOutput(r.out) /\ AsksFor(c.handover, r.out, armed, mode)
  OBVIOUS
<1> HIDE DEF r, asking
<1>4. CASE mode = c.handover \/ armed = "no"
  <2>1. r = DC!Result(c, DC!Quiet)
    BY <1>3, <1>4
  <2>2. r.ctl = c /\ r.out = [setpoint |-> DC!None, request_mode |-> DC!None, request_arm |-> FALSE]
    BY <2>1 DEF DC!Result, DC!Quiet, DC!Output
  <2>3. QED
    BY <1>1, <1>4, <2>2 DEF IsOutput, AsksFor
<1>5. CASE ~(mode = c.handover \/ armed = "no")
  <2>1. r = DC!Result(asking, DC!Output(DC!None, c.handover, FALSE))
    BY <1>3, <1>5
  <2>2. /\ r.ctl = asking
        /\ r.out = [setpoint |-> DC!None, request_mode |-> c.handover, request_arm |-> FALSE]
    BY <2>1 DEF DC!Result, DC!Output
  <2>3. QED
    BY <1>1, <1>2, <2>2 DEF IsOutput, AsksFor
<1>6. QED
  BY <1>4, <1>5

LEMMA Resequencing ==
  ASSUME NEW c \in DC!Controllers, NEW p \in DC!Phases, NEW n \in Nat, NEW b \in BOOLEAN
  PROVE  /\ SameState(c, c)
         /\ SameState(c, [c EXCEPT !.phase = p])
         /\ SameState(c, [c EXCEPT !.asked = b])
         /\ SameState(c, [c EXCEPT !.phase = p, !.asked = b])
         /\ SameState(c, [c EXCEPT !.streamed = n, !.phase = p])
  BY DEF SameState, SameTask, DC!Controllers

LEMMA Stepping ==
  ASSUME NEW c \in DC!Controllers, NEW armed, NEW mode, NEW target \in DC!Places \cup {DC!None}
  PROVE  /\ SameState(c, DC!StepOffboard(c, armed, mode, TRUE, target).ctl)
         /\ IsOutput(DC!StepOffboard(c, armed, mode, TRUE, target).out)
<1> DEFINE r == DC!StepOffboard(c, armed, mode, TRUE, target)
           stream == DC!Output(target, DC!None, FALSE)
           seen == IF c.phase = "request_mode" /\ mode = DC!OFFBOARD
                   THEN [c EXCEPT !.phase = "request_arm", !.asked = FALSE] ELSE c
           due == ~seen.asked \/ TRUE
           warm == [c EXCEPT !.streamed = c.streamed + 1,
                             !.phase = IF c.streamed + 1 >= WarmupTicks
                                       THEN "request_mode" ELSE "warmup"]
           asksMode == [seen EXCEPT !.phase = "request_mode", !.asked = TRUE]
           asksArm == [seen EXCEPT !.asked = TRUE]
           letsGo == [seen EXCEPT !.phase = "released"]
           inControl == [seen EXCEPT !.phase = "active"]
           quietly == DC!Result(c, DC!Quiet)
           warming == DC!Result(warm, stream)
           askingMode == DC!Result(asksMode, DC!Output(target, IF due THEN DC!OFFBOARD ELSE DC!None, FALSE))
           askingArm == DC!Result(asksArm, DC!Output(target, DC!None, due))
           lettingGo == DC!Result(letsGo, DC!Quiet)
           controlling == DC!Result(inControl, stream)
<1>1. SameState(c, seen)
  <2>1. CASE c.phase = "request_mode" /\ mode = DC!OFFBOARD
    BY <2>1, Resequencing DEF DC!Phases
  <2>2. CASE ~(c.phase = "request_mode" /\ mode = DC!OFFBOARD)
    BY <2>2 DEF SameState, SameTask
  <2>3. QED
    BY <2>1, <2>2
<1>2. r \in {quietly, warming, askingMode, askingArm, lettingGo, controlling}
  <2>1. r = CASE c.phase \in {"idle", "released"} -> quietly
              [] c.phase = "warmup" -> warming
              [] seen.phase \in {"request_mode", "request_arm"} /\ mode # DC!OFFBOARD -> askingMode
              [] seen.phase = "request_arm" /\ armed # "yes" -> askingArm
              [] seen.phase = "active" /\ mode \notin {DC!OFFBOARD, DC!None} -> lettingGo
              [] OTHER -> controlling
    BY DEF DC!StepOffboard
  <2> HIDE DEF r, seen, quietly, warming, askingMode, askingArm, lettingGo, controlling
  <2>2. QED
    BY <2>1
<1> SUFFICES SameState(c, r.ctl) /\ IsOutput(r.out)
  OBVIOUS
<1> HIDE DEF seen
<1>3. /\ SameState(c, warm) /\ SameState(seen, asksMode) /\ SameState(seen, asksArm)
      /\ SameState(seen, letsGo) /\ SameState(seen, inControl)
  <2>1. c.streamed + 1 \in Nat /\ seen \in DC!Controllers
    BY <1>1 DEF DC!Controllers, SameState, SameTask
  <2>2. QED
    BY <2>1, Resequencing DEF DC!Phases
<1> HIDE DEF warm, asksMode, asksArm, letsGo, inControl, r
<1>4. /\ SameState(c, c) /\ SameState(c, warm) /\ SameState(c, asksMode) /\ SameState(c, asksArm)
      /\ SameState(c, letsGo) /\ SameState(c, inControl)
  BY <1>1, <1>3 DEF SameState, SameTask
<1>5. \E d, t, m, a :
         /\ SameState(c, d)
         /\ t \in DC!Places \cup {DC!None} /\ m \in DC!Modes \cup {DC!None} /\ a \in BOOLEAN
         /\ r = DC!Result(d, DC!Output(t, m, a))
  <2>1. DC!OFFBOARD \in DC!Modes
    BY DEF DC!Modes
  <2>2. CASE r \in {quietly, lettingGo}
    BY <1>4, <2>2 DEF DC!Quiet
  <2>3. CASE r \in {warming, controlling}
    BY <1>4, <2>3
  <2>4. CASE r = askingMode
    BY <1>4, <2>1, <2>4
  <2>5. CASE r = askingArm
    BY <1>4, <2>5
  <2>6. QED
    BY <1>2, <2>2, <2>3, <2>4, <2>5
<1>6. PICK d, t, m, a :
         /\ SameState(c, d)
         /\ t \in DC!Places \cup {DC!None} /\ m \in DC!Modes \cup {DC!None} /\ a \in BOOLEAN
         /\ r = DC!Result(d, DC!Output(t, m, a))
  BY <1>5
<1>7. r.ctl = d /\ r.out = [setpoint |-> t, request_mode |-> m, request_arm |-> a]
  BY <1>6 DEF DC!Result, DC!Output
<1>8. QED
  BY <1>6, <1>7 DEF IsOutput

\* A waypoint that the drone is at is left behind.
Advanced(c, d, place) ==
    /\ SameTask(c, d)
    /\ d.complete = c.complete /\ d.handover = c.handover
    /\ \/ d.index = c.index
       \/ /\ c.task = "path" /\ c.index < Len(c.route)
          /\ c.route[c.index + 1] = place /\ d.index = c.index + 1

\* A drone hands over once it is complete, and only then is it complete.
TickIs(c, r, place, armed, mode) ==
    /\ SameTask(c, r.ctl) /\ Sane(r.ctl) /\ IsOutput(r.out)
    /\ \/ r.ctl.index = c.index
       \/ /\ c.task = "path" /\ c.index < Len(c.route)
          /\ c.route[c.index + 1] = place /\ r.ctl.index = c.index + 1
    /\ c.handover # DC!None => SameState(c, r.ctl)
    /\ r.ctl.handover # DC!None => AsksFor(r.ctl.handover, r.out, armed, mode)
    /\ r.out.request_mode = DC!OFFBOARD => c.task # DC!None

LEMMA Advancing ==
  ASSUME NEW c \in DC!Controllers, Sane(c), NEW place
  PROVE  LET d == IF c.task = "path" THEN DC!Advance(c, place) ELSE c
         IN  Advanced(c, d, place) /\ d.index <= Len(d.route)
<1> DEFINE next == [c EXCEPT !.index = c.index + 1]
           d == IF c.task = "path" THEN DC!Advance(c, place) ELSE c
<1>1. c.index \in Nat /\ c.index <= Len(c.route)
  BY DEF DC!Controllers, Sane
<1>2. CASE c.task = "path" /\ c.index < Len(c.route) /\ c.route[c.index + 1] = place
  <2>1. d = next
    BY <1>2 DEF DC!Advance
  <2>2. next \in DC!Controllers /\ next.index = c.index + 1
    BY <1>1 DEF DC!Controllers
  <2>3. SameTask(c, next) /\ next.complete = c.complete /\ next.handover = c.handover
    BY <2>2 DEF SameTask, DC!Controllers
  <2>4. next.index <= Len(next.route)
    BY <1>1, <1>2, <2>2, <2>3 DEF SameTask, DC!Controllers
  <2>5. QED
    BY <1>2, <2>1, <2>2, <2>3, <2>4 DEF Advanced
<1>3. CASE ~(c.task = "path" /\ c.index < Len(c.route) /\ c.route[c.index + 1] = place)
  <2>1. d = c
    BY <1>3 DEF DC!Advance
  <2>2. QED
    BY <1>1, <2>1 DEF Advanced, SameTask
<1>4. QED
  BY <1>2, <1>3

LEMMA Released ==
  ASSUME NEW c \in DC!Controllers, NEW m \in DC!Modes \ {DC!OFFBOARD}
  PROVE  /\ SameTask(c, DC!Handover(c, m))
         /\ DC!Handover(c, m).index = c.index
         /\ DC!Handover(c, m).complete = c.complete
         /\ DC!Handover(c, m).handover = m
  BY DEF DC!Handover, DC!Controllers, SameTask, DC!Phases

LEMMA Completed ==
  ASSUME NEW c \in DC!Controllers
  PROVE  LET d == [c EXCEPT !.complete = TRUE]
         IN  SameTask(c, d) /\ d.index = c.index /\ d.complete /\ d.handover = c.handover
  BY DEF DC!Controllers, SameTask

\* A tick goes on with the task, or hands over: at its end, after a leader's silence
\* or because it did before.
LEMMA Ticking ==
  ASSUME NEW c \in DC!Controllers, Sane(c), NEW place \in DC!Places,
         NEW armed, NEW mode, NEW leaderSeen, NEW silent
  PROVE  TickIs(c, DC!Tick(c, place, armed, mode, leaderSeen, silent, TRUE), place, armed, mode)
<1> DEFINE moved == IF c.task = "path" THEN DC!Advance(c, place) ELSE c
           target == IF c.task = "slot" THEN DC!Elsewhere
                     ELSE IF DC!PathDone(moved) THEN place ELSE c.route[moved.index + 1]
           ended == [moved EXCEPT !.complete = TRUE]
           r == DC!Tick(c, place, armed, mode, leaderSeen, silent, TRUE)
           keeping == DC!KeepHandingOver(c, armed, mode, TRUE)
           quiet == DC!Result(c, DC!Quiet)
           goingHome == DC!KeepHandingOver(DC!Handover(c, DC!RTL), armed, mode, TRUE)
           landing == DC!KeepHandingOver(DC!Handover(ended, DC!LAND), armed, mode, TRUE)
           flying == DC!StepOffboard(moved, armed, mode, TRUE, target)
<1> SUFFICES TickIs(c, r, place, armed, mode)
  OBVIOUS
<1>1. Advanced(c, moved, place) /\ moved.index <= Len(moved.route)
  BY Advancing
<1>2. r = IF c.handover # DC!None THEN keeping
          ELSE IF place = DC!None \/ c.task = DC!None THEN quiet
          ELSE IF c.task = "slot" /\ silent THEN goingHome
          ELSE IF c.task = "slot" /\ ~leaderSeen THEN quiet
          ELSE IF DC!TaskDone(moved) THEN landing ELSE flying
  BY DEF DC!Tick
<1>3. c.handover \in (DC!Modes \ {DC!OFFBOARD}) \cup {DC!None} /\ DC!OFFBOARD # DC!None
  BY DEF DC!Controllers, DC!OFFBOARD, DC!None
<1>4. DC!RTL \in DC!Modes \ {DC!OFFBOARD} /\ DC!LAND \in DC!Modes \ {DC!OFFBOARD}
      /\ DC!RTL # DC!None /\ DC!LAND # DC!None
  BY DEF DC!Modes, DC!RTL, DC!LAND, DC!OFFBOARD, DC!None
<1>5. CASE c.handover # DC!None
  <2>1. r = keeping
    BY <1>2, <1>5
  <2>2. SameState(c, r.ctl) /\ IsOutput(r.out) /\ AsksFor(c.handover, r.out, armed, mode)
    BY <2>1, HandingOver
  <2> HIDE DEF r
  <2>3. Sane(r.ctl) /\ r.ctl.handover = c.handover /\ r.out.request_mode # DC!OFFBOARD
    BY <1>3, <2>2 DEF SameState, SameTask, Sane, AsksFor
  <2>4. QED
    BY <2>2, <2>3 DEF TickIs, SameState
<1>6. CASE r = quiet /\ c.handover = DC!None
  <2> HIDE DEF r
  <2>1. r.ctl = c /\ r.out = [setpoint |-> DC!None, request_mode |-> DC!None, request_arm |-> FALSE]
    BY <1>6 DEF DC!Result, DC!Quiet, DC!Output
  <2>2. SameTask(c, c) /\ IsOutput(r.out) /\ r.out.request_mode # DC!OFFBOARD
    BY <1>3, <2>1 DEF SameTask, IsOutput
  <2>3. QED
    BY <1>6, <2>1, <2>2 DEF TickIs
<1>7. CASE r = goingHome /\ c.handover = DC!None
  <2> DEFINE h == DC!Handover(c, DC!RTL)
  <2>1. SameTask(c, h) /\ h.index = c.index /\ h.complete = c.complete /\ h.handover = DC!RTL
    BY <1>4, Released
  <2>2. SameState(h, r.ctl) /\ IsOutput(r.out) /\ AsksFor(h.handover, r.out, armed, mode)
    <3>1. h \in DC!Controllers
      BY <2>1 DEF SameTask
    <3> HIDE DEF h
    <3>2. SameState(h, DC!KeepHandingOver(h, armed, mode, TRUE).ctl)
          /\ IsOutput(DC!KeepHandingOver(h, armed, mode, TRUE).out)
          /\ AsksFor(h.handover, DC!KeepHandingOver(h, armed, mode, TRUE).out, armed, mode)
      BY <3>1, HandingOver
    <3>3. QED
      BY <1>7, <3>2 DEF h
  <2> HIDE DEF h, r
  <2>3. /\ SameTask(c, r.ctl) /\ r.ctl.index = c.index /\ r.ctl.complete = c.complete
        /\ r.ctl.handover = DC!RTL
    BY <2>1, <2>2 DEF SameState, SameTask
  <2>4. Sane(r.ctl) /\ r.out.request_mode # DC!OFFBOARD
    BY <1>3, <1>4, <1>7, <2>1, <2>2, <2>3 DEF Sane, AsksFor, SameTask
  <2>5. QED
    BY <1>7, <2>1, <2>2, <2>3, <2>4 DEF TickIs
<1>8. CASE r = landing /\ c.handover = DC!None /\ DC!TaskDone(moved)
  <2> DEFINE h == DC!Handover(ended, DC!LAND)
  <2> HIDE DEF moved
  <2>1. /\ ended \in DC!Controllers /\ SameTask(moved, ended) /\ ended.index = moved.index
        /\ ended.complete
    <3>1. moved \in DC!Controllers
      BY <1>1 DEF Advanced, SameTask
    <3>2. QED
      BY <3>1, Completed DEF SameTask
  <2> HIDE DEF ended
  <2>2. SameTask(ended, h) /\ h.index = ended.index /\ h.complete /\ h.handover = DC!LAND
    BY <1>4, <2>1, Released
  <2>3. SameState(h, r.ctl) /\ IsOutput(r.out) /\ AsksFor(h.handover, r.out, armed, mode)
    <3>1. h \in DC!Controllers
      BY <2>2 DEF SameTask
    <3> HIDE DEF h
    <3>2. SameState(h, DC!KeepHandingOver(h, armed, mode, TRUE).ctl)
          /\ IsOutput(DC!KeepHandingOver(h, armed, mode, TRUE).out)
          /\ AsksFor(h.handover, DC!KeepHandingOver(h, armed, mode, TRUE).out, armed, mode)
      BY <3>1, HandingOver
    <3>3. QED
      BY <1>8, <3>2 DEF h
  <2> HIDE DEF h, r
  <2>4. /\ SameTask(moved, r.ctl) /\ r.ctl.index = moved.index /\ r.ctl.handover = DC!LAND
        /\ SameTask(c, r.ctl)
    BY <1>1, <2>1, <2>2, <2>3 DEF SameState, SameTask, Advanced
  <2>5. moved.task = "path" => moved.index = Len(moved.route)
    BY <1>8 DEF DC!TaskDone, DC!PathDone
  <2>6. Sane(r.ctl)
    BY <1>1, <1>4, <2>4, <2>5 DEF Sane, SameTask, Advanced
  <2>7. r.out.request_mode # DC!OFFBOARD
    BY <1>4, <1>3, <2>2, <2>3 DEF AsksFor
  <2>8. QED
    BY <1>1, <1>8, <2>2, <2>3, <2>4, <2>6, <2>7 DEF TickIs, Advanced
<1>9. CASE r = flying /\ c.handover = DC!None /\ ~DC!TaskDone(moved) /\ c.task # DC!None
  <2>1. target \in DC!Places \cup {DC!None}
    <3>1. CASE c.task = "slot" \/ DC!PathDone(moved)
      BY <3>1 DEF DC!Places
    <3>2. CASE c.task # "slot" /\ ~DC!PathDone(moved)
      <4> HIDE DEF moved
      <4>1. moved.index \in Nat /\ moved.index < Len(c.route) /\ c.route \in Seq(AllWaypoints)
        BY <1>1, <3>2 DEF DC!PathDone, Advanced, SameTask, DC!Controllers
      <4>2. c.route[moved.index + 1] \in AllWaypoints
        BY <4>1
      <4>3. QED
        BY <3>2, <4>2 DEF DC!Places
    <3>3. QED
      BY <3>1, <3>2
  <2>2. moved \in DC!Controllers
    BY <1>1 DEF Advanced, SameTask
  <2> HIDE DEF moved, target
  <2>3. SameState(moved, r.ctl) /\ IsOutput(r.out)
    BY <1>9, <2>1, <2>2, Stepping
  <2> HIDE DEF r
  <2>4. /\ SameTask(c, r.ctl) /\ r.ctl.index = moved.index /\ r.ctl.complete = c.complete
        /\ r.ctl.handover = DC!None /\ r.ctl.route = moved.route
    BY <1>1, <1>9, <2>3 DEF Advanced, SameState, SameTask
  <2>5. Sane(r.ctl)
    BY <1>1, <1>9, <2>4 DEF Sane, SameTask, Advanced
  <2>6. QED
    BY <1>1, <1>9, <2>3, <2>4, <2>5 DEF TickIs, Advanced
<1>10. QED
  <2> HIDE DEF r, keeping, quiet, goingHome, landing, flying, moved, target
  <2>1. QED
    BY <1>2, <1>5, <1>6, <1>7, <1>8, <1>9

-----------------------------------------------------------------------------
(* What an order does to a drone's software. *)

\* The routes of the orders: as long as they say, over the waypoints of a lane.
LEMMA RoutesToFly ==
  ASSUME NEW r \in Routes
  PROVE  /\ RouteOf(r) \in Seq(AllWaypoints)
         /\ Len(RouteOf(r)) = r.left /\ r.left \in 0 .. NumWaypoints
         /\ \A i \in 1 .. r.left : RouteOf(r)[i] = Place[r.lane][NumWaypoints - r.left + i]
<1>1. r.lane \in Drones /\ r.left \in 0 .. NumWaypoints /\ NumWaypoints \in Nat
  BY SupervisorAssumption DEF Routes, SupervisorAssumption
<1>2. DOMAIN Place[r.lane] = 1 .. NumWaypoints
  BY <1>1, FlightAssumption DEF FlightAssumption
<1>3. ASSUME NEW i \in 1 .. r.left
      PROVE  Place[r.lane][NumWaypoints - r.left + i] \in AllWaypoints
  <2>1. NumWaypoints - r.left + i \in DOMAIN Place[r.lane]
    BY <1>1, <1>2
  <2>2. QED
    BY <1>1, <2>1 DEF Range, AllWaypoints
<1>4. r.left \in Nat /\ RouteOf(r) = [i \in 1 .. r.left |-> Place[r.lane][NumWaypoints - r.left + i]]
  BY <1>1 DEF RouteOf
<1> DEFINE f == RouteOf(r)
           n == r.left
<1>5. f \in Seq(AllWaypoints) /\ Len(f) = n
  <2>1. f \in [1 .. n -> AllWaypoints]
    BY <1>3, <1>4
  <2> HIDE DEF f, n
  <2>2. QED
    BY <1>4, <2>1 DEF n
<1>6. QED
  BY <1>1, <1>4, <1>5

\* The controller was given task o, and counted nothing of it yet.
Given(o, c) ==
    /\ c.mission = o.mission /\ c.index = 0
    /\ o.kind = "assign" => c.task = "path" /\ c.route = RouteOf(o.route)
    /\ o.kind = "slot" => c.task = "slot"

\* What order o makes of software s.
Obeyed(s, o, r) ==
    /\ r \in Softwares /\ Sane(r.ctl) /\ ~r.ctl.complete
    /\ IsTask(o) => Given(o, r.ctl)
    /\ ~IsTask(o) => /\ SameTask(s.ctl, r.ctl) /\ r.ctl.index = s.ctl.index
                     /\ r.ctl.handover # DC!None

LEMMA Following ==
  ASSUME NEW s, NEW c \in DC!Controllers, NEW leader \in Drones \cup {NoLeader}, s \in Softwares
  PROVE  /\ Follow([s EXCEPT !.ctl = c], leader) \in Softwares
         /\ Follow([s EXCEPT !.ctl = c], leader).ctl = c
<1>1. [s EXCEPT !.ctl = c] \in Softwares /\ [s EXCEPT !.ctl = c].ctl = c
  BY DEF Softwares
<1>2. QED
  BY <1>1 DEF Follow, Softwares

LEMMA Beginning ==
  ASSUME NEW c \in DC!Controllers, NEW id \in MissionIds
  PROVE  LET b == DC!Begin(c, id)
         IN  /\ b \in DC!Controllers /\ b.mission = id /\ b.index = 0
             /\ ~b.complete /\ b.route = <<>>
<1>1. ASSUME NEW empty \in Seq(AllWaypoints)
      PROVE  LET d == [c EXCEPT !.mission = id, !.task = DC!None, !.route = empty, !.index = 0,
                                !.leader = DC!None, !.leaderDone = FALSE,
                                !.handover = DC!None, !.complete = FALSE,
                                !.phase = "warmup", !.streamed = 0, !.asked = FALSE]
             IN  /\ d \in DC!Controllers /\ d.mission = id /\ d.index = 0
                 /\ ~d.complete /\ d.route = empty
  BY DEF DC!Controllers, DC!Phases
<1>2. <<>> \in Seq(AllWaypoints)
  OBVIOUS
<1>3. QED
  BY <1>1, <1>2 DEF DC!Begin

LEMMA AssigningPath ==
  ASSUME NEW c \in DC!Controllers, NEW id \in MissionIds, NEW route \in Seq(AllWaypoints)
  PROVE  LET d == DC!AssignPath(c, id, route)
         IN  /\ d \in DC!Controllers /\ d.mission = id /\ d.task = "path" /\ d.route = route
             /\ d.index = 0 /\ ~d.complete
<1> DEFINE b == DC!Begin(c, id)
<1>1. b \in DC!Controllers /\ b.mission = id /\ b.index = 0 /\ ~b.complete
  BY Beginning
<1> HIDE DEF b
<1>2. LET d == [b EXCEPT !.task = "path", !.route = route]
      IN  /\ d \in DC!Controllers /\ d.mission = id /\ d.task = "path" /\ d.route = route
          /\ d.index = 0 /\ ~d.complete
  BY <1>1 DEF DC!Controllers
<1>3. QED
  BY <1>2 DEF DC!AssignPath, b

LEMMA AssigningSlot ==
  ASSUME NEW c \in DC!Controllers, NEW id \in MissionIds, NEW leader \in Drones
  PROVE  LET d == DC!AssignSlot(c, id, leader)
         IN  /\ d \in DC!Controllers /\ d.mission = id /\ d.task = "slot" /\ d.route = <<>>
             /\ d.index = 0 /\ ~d.complete
<1> DEFINE b == DC!Begin(c, id)
<1>1. b \in DC!Controllers /\ b.mission = id /\ b.index = 0 /\ ~b.complete /\ b.route = <<>>
  BY Beginning
<1> HIDE DEF b
<1>2. LET d == [b EXCEPT !.task = "slot", !.leader = leader]
      IN  /\ d \in DC!Controllers /\ d.mission = id /\ d.task = "slot" /\ d.route = <<>>
          /\ d.index = 0 /\ ~d.complete
  BY <1>1 DEF DC!Controllers
<1>3. QED
  BY <1>2 DEF DC!AssignSlot, b

LEMMA Obeying ==
  ASSUME NEW s \in Softwares, Sane(s.ctl), NEW o \in Messages
  PROVE  Obeyed(s, o, Obey(s, o))
<1> DEFINE r == Obey(s, o)
<1> SUFFICES Obeyed(s, o, r)
  OBVIOUS
<1>1. s.ctl \in DC!Controllers
  BY DEF Softwares
<1>2. NoLeader \in Drones \cup {NoLeader}
  OBVIOUS
<1>3. CASE \E m \in MissionIds, route \in Routes : o = Assign(m, route)
  <2>1. PICK m \in MissionIds, route \in Routes : o = Assign(m, route)
    BY <1>3
  <2>2. o.kind = "assign" /\ o.mission = m /\ o.route = route
    BY <2>1 DEF Assign
  <2> DEFINE c == DC!AssignPath(s.ctl, m, RouteOf(route))
  <2>3. r = Follow([s EXCEPT !.ctl = c], NoLeader)
    BY <2>2 DEF Obey
  <2>4. /\ c \in DC!Controllers /\ c.mission = m /\ c.index = 0 /\ c.task = "path"
        /\ c.route = RouteOf(route) /\ ~c.complete
    <3>1. RouteOf(route) \in Seq(AllWaypoints)
      BY RoutesToFly
    <3>2. QED
      BY <1>1, <3>1, AssigningPath
  <2> HIDE DEF c
  <2>5. r \in Softwares /\ r.ctl = c
    BY <1>2, <2>3, <2>4, Following
  <2>6. Sane(c)
    <3>1. Len(RouteOf(route)) \in 0 .. NumWaypoints
      BY RoutesToFly
    <3>2. QED
      BY <2>4, <3>1 DEF Sane
  <2>7. QED
    BY <2>2, <2>4, <2>5, <2>6 DEF Obeyed, Given, IsTask
<1>4. CASE \E m \in MissionIds, slot \in Slots : o = Slot(m, slot)
  <2>1. PICK m \in MissionIds, slot \in Slots : o = Slot(m, slot)
    BY <1>4
  <2>2. o.kind = "slot" /\ o.mission = m /\ o.slot = slot /\ slot.leader \in Drones
    BY <2>1 DEF Slot, Slots
  <2> DEFINE c == DC!AssignSlot(s.ctl, m, slot.leader)
  <2>3. r = Follow([s EXCEPT !.ctl = c], slot.leader)
    BY <2>2 DEF Obey
  <2>4. /\ c \in DC!Controllers /\ c.mission = m /\ c.index = 0 /\ c.task = "slot"
        /\ c.route = <<>> /\ ~c.complete
    BY <1>1, <2>2, AssigningSlot
  <2> HIDE DEF c
  <2>5. r \in Softwares /\ r.ctl = c
    BY <2>2, <2>3, <2>4, Following
  <2>6. Sane(c)
    BY <2>4, SupervisorAssumption DEF Sane, SupervisorAssumption
  <2>7. QED
    BY <2>2, <2>4, <2>5, <2>6 DEF Obeyed, Given, IsTask
<1>5. CASE \E x \in COMMANDS : o = Command(x)
  <2>1. PICK x \in COMMANDS : o = Command(x)
    BY <1>5
  <2>2. o.kind = "command" /\ o.command = x
    BY <2>1 DEF Command
  <2> DEFINE c == DC!Command(s.ctl, x)
  <2>3. r = Follow([s EXCEPT !.ctl = c], NoLeader)
    BY <2>2 DEF Obey
  <2>4. PICK m \in DC!Modes \ {DC!OFFBOARD} : m # DC!None /\ DC!mode_for_command[x] = m
    BY <2>1 DEF COMMANDS, DC!mode_for_command, DC!Modes, DC!RTL, DC!LAND, DC!LOITER,
                DC!OFFBOARD, DC!None
  <2>5. /\ SameTask(s.ctl, c) /\ c.index = s.ctl.index /\ ~c.complete /\ c.handover # DC!None
    <3> DEFINE h == DC!Handover(s.ctl, m)
    <3>1. c = [h EXCEPT !.complete = FALSE]
      BY <2>4 DEF DC!Command
    <3>2. SameTask(s.ctl, h) /\ h.index = s.ctl.index /\ h.handover = m
      BY <1>1, Released
    <3> HIDE DEF h, c
    <3>3. QED
      BY <2>4, <3>1, <3>2 DEF SameTask, DC!Controllers
  <2> HIDE DEF c
  <2>6. r \in Softwares /\ r.ctl = c
    BY <1>2, <2>3, <2>5, Following DEF SameTask
  <2>7. Sane(c)
    BY <2>5 DEF Sane, SameTask
  <2>8. QED
    BY <2>2, <2>5, <2>6, <2>7 DEF Obeyed, IsTask
<1>6. QED
  BY <1>3, <1>4, <1>5 DEF Messages, Orders

\* What the first n of the orders make of software s: the task is that of the last
\* order that gives one.
ReadSoFar(s, orders, n, r) ==
    /\ r \in Softwares /\ Sane(r.ctl)
    /\ n = 0 => r = s
    /\ n > 0 => ~r.ctl.complete /\ (IsTask(orders[n]) \/ r.ctl.handover # DC!None)
    /\ \/ /\ \A i \in 1 .. n : ~IsTask(orders[i])
          /\ SameTask(s.ctl, r.ctl) /\ r.ctl.index = s.ctl.index
       \/ \E k \in 1 .. n :
             /\ IsTask(orders[k]) /\ Given(orders[k], r.ctl)
             /\ \A i \in k + 1 .. n : ~IsTask(orders[i])

LEMMA ReadingOn ==
  ASSUME NEW s \in Softwares, NEW orders \in Seq(Messages), NEW n \in 1 .. Len(orders), NEW r,
         ReadSoFar(s, orders, n - 1, r)
  PROVE  ReadSoFar(s, orders, n, Obey(r, orders[n]))
<1> DEFINE q == Obey(r, orders[n])
<1>1. orders[n] \in Messages /\ r \in Softwares /\ Sane(r.ctl)
  BY DEF ReadSoFar
<1>2. Obeyed(r, orders[n], q)
  BY <1>1, Obeying
<1> HIDE DEF q
<1>3. n \in Nat /\ n > 0 /\ n # 0 /\ 1 .. n = (1 .. n - 1) \cup {n}
  OBVIOUS
<1>4. q \in Softwares /\ Sane(q.ctl) /\ ~q.ctl.complete
      /\ (IsTask(orders[n]) \/ q.ctl.handover # DC!None)
  BY <1>2 DEF Obeyed
<1>5. CASE IsTask(orders[n])
  <2>1. Given(orders[n], q.ctl) /\ n \in 1 .. n /\ n + 1 .. n = {}
    BY <1>2, <1>3, <1>5 DEF Obeyed
  <2>2. QED
    BY <1>3, <1>4, <1>5, <2>1 DEF ReadSoFar, q
<1>6. CASE ~IsTask(orders[n])
  <2>1. SameTask(r.ctl, q.ctl) /\ q.ctl.index = r.ctl.index
    BY <1>2, <1>6 DEF Obeyed
  <2>2. CASE /\ \A i \in 1 .. n - 1 : ~IsTask(orders[i])
             /\ SameTask(s.ctl, r.ctl) /\ r.ctl.index = s.ctl.index
    <3>1. /\ \A i \in 1 .. n : ~IsTask(orders[i])
          /\ SameTask(s.ctl, q.ctl) /\ q.ctl.index = s.ctl.index
      BY <1>3, <1>6, <2>1, <2>2 DEF SameTask
    <3>2. QED
      BY <1>3, <1>4, <3>1 DEF ReadSoFar, q
  <2>3. CASE \E k \in 1 .. n - 1 :
                /\ IsTask(orders[k]) /\ Given(orders[k], r.ctl)
                /\ \A i \in k + 1 .. n - 1 : ~IsTask(orders[i])
    <3>1. PICK k \in 1 .. n - 1 :
                /\ IsTask(orders[k]) /\ Given(orders[k], r.ctl)
                /\ \A i \in k + 1 .. n - 1 : ~IsTask(orders[i])
      BY <2>3
    <3>2. k \in 1 .. n /\ \A i \in k + 1 .. n : ~IsTask(orders[i])
      BY <1>3, <1>6, <3>1
    <3>3. Given(orders[k], q.ctl)
      BY <2>1, <3>1 DEF Given, SameTask
    <3>4. QED
      BY <1>3, <1>4, <3>1, <3>2, <3>3 DEF ReadSoFar, q
  <2>4. QED
    BY <2>2, <2>3 DEF ReadSoFar
<1>7. QED
  BY <1>5, <1>6

\* So Read is what the code's loop over the arrived messages makes of the software.
LEMMA ReadingAll ==
  ASSUME NEW s \in Softwares, Sane(s.ctl), NEW orders \in Seq(Messages)
  PROVE  ReadSoFar(s, orders, Len(orders), Read(s, orders))
<1> DEFINE Saner == {x \in Softwares : Sane(x.ctl)}
           step == [n \in 1 .. Len(orders) |-> [x \in Saner |-> Obey(x, orders[n])]]
           Walk(f) == [n \in 0 .. Len(orders) |-> IF n = 0 THEN s ELSE Obey(f[n - 1], orders[n])]
           N == Len(orders)
<1>1. step \in Steps(N, Saner) /\ s \in Saner /\ N \in Nat
  <2>1. ASSUME NEW n \in 1 .. Len(orders) PROVE step[n] \in [Saner -> Saner]
    <3>1. ASSUME NEW x \in Saner PROVE Obey(x, orders[n]) \in Saner
      <4>1. orders[n] \in Messages /\ x \in Softwares /\ Sane(x.ctl)
        OBVIOUS
      <4>2. Obeyed(x, orders[n], Obey(x, orders[n]))
        BY <4>1, Obeying
      <4>3. QED
        BY <4>2 DEF Obeyed
    <3> HIDE DEF Saner
    <3>2. QED
      BY <3>1
  <2> HIDE DEF Saner
  <2>2. step = [n \in 1 .. N |-> step[n]]
    OBVIOUS
  <2> HIDE DEF step
  <2>3. step \in Steps(N, Saner)
    BY <2>1, <2>2 DEF Steps
  <2>4. QED
    BY <2>3 DEF Saner
<1> HIDE DEF step, N, Saner
<1>2. PICK f : f \in Iterations(N, Saner, s, step)
  BY <1>1, RecursionUpTo
<1>3. /\ f \in [0 .. Len(orders) -> Saner] /\ f[0] = s
      /\ \A n \in 1 .. Len(orders) : f[n] = Obey(f[n - 1], orders[n])
  <2>1. /\ f \in [0 .. N -> Saner] /\ f[0] = s
        /\ \A n \in 1 .. N : f[n] = step[n][f[n - 1]]
    BY <1>2 DEF Iterations
  <2>2. ASSUME NEW n \in 1 .. Len(orders) PROVE f[n] = Obey(f[n - 1], orders[n])
    <3>1. f[n - 1] \in Saner /\ f[n] = step[n][f[n - 1]]
      BY <2>1, <1>1 DEF N
    <3>2. QED
      BY <3>1 DEF step
  <2>3. QED
    BY <2>1, <2>2 DEF N
<1>4. f = Walk(f)
  <2>1. ASSUME NEW n \in 0 .. Len(orders) PROVE f[n] = Walk(f)[n]
    <3>1. n = 0 \/ (n \in 1 .. Len(orders) /\ n # 0)
      BY <1>1
    <3>2. QED
      BY <3>1, <1>3
  <2>2. DOMAIN f = 0 .. Len(orders) /\ f = [n \in 0 .. Len(orders) |-> f[n]]
    BY <1>3
  <2>3. QED
    BY <2>1, <2>2
<1> DEFINE g == CHOOSE h : h = Walk(h)
<1>5. g = Walk(g)
  <2> HIDE DEF Walk
  <2>1. QED
    BY <1>4
<1>6. g[0] = s /\ \A n \in 1 .. Len(orders) : g[n] = Obey(g[n - 1], orders[n])
  <2> HIDE DEF g
  <2>1. 0 \in 0 .. Len(orders) /\ \A n \in 1 .. Len(orders) : n \in 0 .. Len(orders) /\ n # 0
    OBVIOUS
  <2>2. QED
    BY <1>5, <2>1
<1>7. Read(s, orders) = g[Len(orders)]
  BY DEF Read
<1> HIDE DEF g, Walk
<1> DEFINE P == {n \in 0 .. Len(orders) : ReadSoFar(s, orders, n, g[n])}
<1>8. 0 \in P
  <2>1. SameTask(s.ctl, s.ctl)
    BY DEF SameTask, Softwares
  <2>2. ReadSoFar(s, orders, 0, s)
    BY <2>1 DEF ReadSoFar
  <2>3. QED
    BY <1>6, <2>2
<1>9. ASSUME NEW n \in 1 .. Len(orders), n - 1 \in P PROVE n \in P
  <2>1. ReadSoFar(s, orders, n - 1, g[n - 1]) /\ n \in 0 .. Len(orders)
    BY <1>9
  <2>2. ReadSoFar(s, orders, n, Obey(g[n - 1], orders[n]))
    BY <2>1, ReadingOn
  <2>3. QED
    BY <1>6, <2>1, <2>2
<1>10. Len(orders) \in P
  <2> HIDE DEF P
  <2>1. Len(orders) \in Nat /\ Len(orders) \in 0 .. Len(orders)
    OBVIOUS
  <2>2. QED
    BY <1>8, <1>9, <2>1, InductionUpTo
<1>11. QED
  BY <1>7, <1>10

\* News of the leader changes nothing of the task.
LEMMA Hearing ==
  ASSUME NEW d, NEW s \in Softwares
  PROVE  HearLeader(d, s) \in Softwares /\ SameState(s.ctl, HearLeader(d, s).ctl)
<1>1. s.ctl \in DC!Controllers /\ s.heard \in Nat /\ SameState(s.ctl, s.ctl)
  BY DEF Softwares, SameState, SameTask
<1>2. ASSUME NEW n \in Nat
      PROVE  LET r == [s EXCEPT !.heard = n] IN r \in Softwares /\ r.ctl = s.ctl
  BY DEF Softwares
<1>3. ASSUME NEW c \in DC!Controllers, NEW up \in {"up", "down"}
      PROVE  LET r == [s EXCEPT !.heard = 0, !.leaderUp = up, !.ctl = c]
             IN  r \in Softwares /\ r.ctl = c
  BY DEF Softwares
<1> DEFINE said == spoken[s.leader]
           done == [s.ctl EXCEPT !.leaderDone = TRUE]
           news == NewsOf(s.ctl, said)
           waited == IF s.leaderUp = "unknown" \/ s.heard > CommsTimeout THEN s.heard ELSE s.heard + 1
           up == IF said.up THEN "up" ELSE "down"
           waiting == [s EXCEPT !.heard = waited]
           hearing == [s EXCEPT !.heard = 0, !.leaderUp = up, !.ctl = news]
<1>4. SameState(s.ctl, done)
  BY <1>1 DEF SameState, SameTask, DC!Controllers
<1>5. news \in {s.ctl, done}
  BY DEF NewsOf, DC!LeaderFinished
<1>6. HearLeader(d, s) \in {s, waiting, hearing}
  BY DEF HearLeader
<1>7. waited \in Nat /\ up \in {"up", "down"}
  BY <1>1
<1> HIDE DEF news, done, waited, up, said
<1>8. SameState(s.ctl, news) /\ news \in DC!Controllers
  BY <1>1, <1>4, <1>5 DEF SameState, SameTask
<1>9. waiting \in Softwares /\ waiting.ctl = s.ctl
  BY <1>2, <1>7
<1>10. hearing \in Softwares /\ hearing.ctl = news
  BY <1>3, <1>7, <1>8
<1> HIDE DEF waiting, hearing
<1>11. QED
  BY <1>1, <1>6, <1>8, <1>9, <1>10

-----------------------------------------------------------------------------
(* What a vehicle does. *)

\* The vehicle is where it was, as charged as it was and, at the least, armed.
SameVehicle(v, w) ==
    w \in Vehicles /\ w.up = v.up /\ w.charge = v.charge /\ w.armed = v.armed

LEMMA Streaming ==
  ASSUME NEW v \in Vehicles, NEW s, NEW out, IsOutput(out)
  PROVE  SameVehicle(v, Streamed(v, s, out)) /\ Streamed(v, s, out).mode = v.mode
<1> DEFINE aged == IF Fresh(v) THEN v.age + 1 ELSE v.age
           up == s.ctl.task = "path" \/ s.leaderUp = "up"
           sp == [at |-> out.setpoint, up |-> up]
           older == [v EXCEPT !.age = aged]
           newer == [v EXCEPT !.setpoint = sp, !.age = 0]
<1>1. aged \in Nat /\ up \in BOOLEAN
  BY DEF Vehicles
<1>2. Streamed(v, s, out) = IF out.setpoint = DC!None THEN older ELSE newer
  BY DEF Streamed
<1>3. out.setpoint # DC!None => sp \in Setpoints
  BY <1>1 DEF IsOutput, Setpoints
<1> HIDE DEF aged, up, sp
<1>4. SameVehicle(v, older) /\ older.mode = v.mode
  BY <1>1 DEF Vehicles, SameVehicle
<1>5. sp \in Setpoints => SameVehicle(v, newer) /\ newer.mode = v.mode
  BY DEF Vehicles, SameVehicle
<1>6. QED
  BY <1>2, <1>3, <1>4, <1>5

LEMMA Entering ==
  ASSUME NEW v \in Vehicles, NEW m \in DC!Modes
  PROVE  SameVehicle(v, Enter(v, m)) /\ Enter(v, m).mode = m
  BY DEF Vehicles, Enter, SameVehicle

\* What the autopilot makes of what the software asks for.
Acted(v, w, out) ==
    /\ w \in Vehicles /\ w.up = v.up /\ w.charge = v.charge
    /\ w.armed => v.armed \/ out.request_arm
    /\ v.armed => w.armed
    /\ w.mode \in {v.mode, out.request_mode}
    /\ out.request_mode \notin {DC!None, DC!OFFBOARD} => w.mode = out.request_mode

LEMMA Actuating ==
  ASSUME NEW v \in Vehicles, NEW s, NEW out, IsOutput(out)
  PROVE  Acted(v, Actuate(v, s, out), out)
<1> DEFINE x == Streamed(v, s, out)
           y == ModeServed(x, out.request_mode)
           z == ArmServed(y, out.request_arm)
<1>1. SameVehicle(v, x) /\ x.mode = v.mode
  BY Streaming
<1>2. Actuate(v, s, out) = z
  BY DEF Actuate
<1> HIDE DEF x
<1>3. /\ SameVehicle(v, y) /\ y.mode \in {v.mode, out.request_mode}
      /\ out.request_mode \notin {DC!None, DC!OFFBOARD} => y.mode = out.request_mode
  <2>1. x \in Vehicles
    BY <1>1 DEF SameVehicle
  <2>2. CASE y = x
    <3> HIDE DEF y
    <3>1. SameVehicle(v, y) /\ y.mode = v.mode
      BY <1>1, <2>2
    <3>2. out.request_mode \in {DC!None, DC!OFFBOARD, x.mode} \/ y = Enter(x, out.request_mode)
      BY DEF y, ModeServed
    <3>3. CASE out.request_mode \in {DC!None, DC!OFFBOARD, x.mode}
      BY <1>1, <3>1, <3>3
    <3>4. CASE out.request_mode \notin {DC!None, DC!OFFBOARD, x.mode}
      <4>1. out.request_mode \in DC!Modes /\ y = Enter(x, out.request_mode)
        BY <3>2, <3>4 DEF IsOutput
      <4>2. y.mode = out.request_mode
        BY <2>1, <4>1, Entering
      <4>3. QED
        BY <3>1, <4>2
    <3>5. QED
      BY <3>3, <3>4
  <2>3. CASE out.request_mode \in DC!Modes /\ y = Enter(x, out.request_mode)
    <3> HIDE DEF y
    <3>1. SameVehicle(x, y) /\ y.mode = out.request_mode
      BY <2>1, <2>3, Entering
    <3>2. QED
      BY <1>1, <3>1 DEF SameVehicle
  <2>4. y = x \/ (out.request_mode \in DC!Modes /\ y = Enter(x, out.request_mode))
    BY DEF ModeServed, IsOutput
  <2>5. QED
    BY <2>2, <2>3, <2>4
<1> HIDE DEF y
<1>4. y \in Vehicles
  BY <1>3 DEF SameVehicle
<1> DEFINE up == [y EXCEPT !.armed = TRUE, !.tookOff = FALSE, !.armedFor = 0,
                           !.grounded = NotGrounded]
<1>5. /\ up \in Vehicles /\ up.up = y.up /\ up.charge = y.charge /\ up.mode = y.mode
      /\ up.armed
  <2>1. ASSUME NEW g \in Int
        PROVE  LET u == [y EXCEPT !.armed = TRUE, !.tookOff = FALSE, !.armedFor = 0,
                                  !.grounded = g]
               IN  /\ u \in Vehicles /\ u.up = y.up /\ u.charge = y.charge /\ u.mode = y.mode
                   /\ u.armed
    BY <1>4 DEF Vehicles
  <2>2. NotGrounded \in Int
    BY DEF NotGrounded
  <2>3. QED
    BY <2>1, <2>2
<1>6. z = y \/ (z = up /\ out.request_arm)
  BY DEF ArmServed
<1> HIDE DEF z, up
<1>7. Acted(v, z, out)
  <2>1. CASE z = y
    BY <1>3, <1>4, <2>1 DEF Acted, SameVehicle
  <2>2. CASE z = up /\ out.request_arm
    BY <1>3, <1>5, <2>2 DEF Acted, SameVehicle
  <2>3. QED
    BY <1>6, <2>1, <2>2
<1>8. QED
  BY <1>2, <1>7

\* What a step of the simulation makes of a vehicle that is armed.
Moves(v, w) ==
    /\ w \in Vehicles /\ w.charge = v.charge
    /\ w.armed = v.armed
    /\ w.mode = DC!OFFBOARD => v.mode = DC!OFFBOARD

LEMMA Failing ==
  ASSUME NEW v \in Vehicles
  PROVE  Moves(v, Failsafe(v))
<1> DEFINE landing == IF v.up /\ v.charge = "flat" /\ v.mode # DC!LAND
                      THEN Enter(v, DC!LAND) ELSE v
<1>1. DC!LAND \in DC!Modes /\ DC!LOITER \in DC!Modes /\ DC!LAND # DC!OFFBOARD
      /\ DC!LOITER # DC!OFFBOARD
  BY DEF DC!Modes, DC!LAND, DC!LOITER, DC!OFFBOARD
<1>2. landing = v \/ landing = Enter(v, DC!LAND)
  OBVIOUS
<1>3. Failsafe(v) = landing \/ Failsafe(v) = Enter(landing, DC!LOITER)
  BY DEF Failsafe
<1> HIDE DEF landing
<1>4. Moves(v, landing) /\ landing \in Vehicles
  <2>1. CASE landing = v
    BY <2>1 DEF Moves
  <2>2. CASE landing = Enter(v, DC!LAND)
    BY <1>1, <2>2, Entering DEF Moves, SameVehicle
  <2>3. QED
    BY <1>2, <2>1, <2>2
<1>5. SameVehicle(landing, Enter(landing, DC!LOITER)) /\ Enter(landing, DC!LOITER).mode = DC!LOITER
  BY <1>1, <1>4, Entering
<1>6. QED
  BY <1>1, <1>3, <1>4, <1>5 DEF Moves, SameVehicle

LEMMA Moving ==
  ASSUME NEW d, NEW v \in Vehicles
  PROVE  Moves(v, Moved(d, v))
<1>1. ASSUME NEW up \in BOOLEAN, NEW place \in DC!Places, NEW leg \in Nat, NEW climbing \in BOOLEAN
      PROVE  /\ Moves(v, [v EXCEPT !.up = up, !.place = place])
             /\ Moves(v, [v EXCEPT !.up = up, !.place = place, !.leg = leg])
             /\ Moves(v, [[v EXCEPT !.up = up, !.place = place] EXCEPT !.leg = leg])
             /\ Moves(v, [[v EXCEPT !.up = up, !.place = place] EXCEPT !.climbing = climbing])
  BY DEF Moves, Vehicles
<1>2. /\ Moves(v, v) /\ v.leg \in Nat /\ v.climbing \in BOOLEAN
      /\ v.setpoint \in Setpoints
  BY DEF Moves, Vehicles
<1>3. DC!Elsewhere \in DC!Places
  BY DEF DC!Places
<1>4. ASSUME NEW up \in BOOLEAN PROVE Moves(v, Elsewhere(v, up))
  BY <1>1, <1>2, <1>3 DEF Elsewhere
<1>5. v.setpoint # NoSetpoint => Moves(v, FlyTo(d, v))
  <2>1. SUFFICES ASSUME v.setpoint # NoSetpoint PROVE Moves(v, FlyTo(d, v))
    OBVIOUS
  <2>2. v.setpoint.at \in DC!Places
    BY <1>2, <2>1 DEF Setpoints
  <2> DEFINE far == [Elsewhere(v, TRUE) EXCEPT !.leg = @ + 1]
             there == [v EXCEPT !.up = TRUE, !.place = v.setpoint.at, !.leg = 0]
  <2>3. FlyTo(d, v) \in {Elsewhere(v, FALSE), Elsewhere(v, TRUE), v, far, there}
    BY DEF FlyTo
  <2>4. Moves(v, there)
    BY <1>1, <2>2
  <2>5. Moves(v, far)
    <3> DEFINE w == [v EXCEPT !.up = TRUE, !.place = DC!Elsewhere]
    <3>1. far = [w EXCEPT !.leg = w.leg + 1] /\ w.leg = v.leg
      BY DEF Elsewhere, Vehicles
    <3>2. w.leg + 1 \in Nat
      BY <1>2, <3>1
    <3>3. Moves(v, [w EXCEPT !.leg = w.leg + 1])
      BY <1>1, <1>3, <3>2
    <3>4. QED
      BY <3>1, <3>3
  <2> HIDE DEF far, there
  <2>6. QED
    BY <1>2, <1>4, <2>3, <2>4, <2>5
<1> DEFINE down == Elsewhere(v, FALSE)
           home == [Elsewhere(v, v.climbing) EXCEPT !.climbing = FALSE]
           on == FlyTo(d, v)
<1>6. Moves(v, home)
  BY <1>1, <1>2, <1>3 DEF Elsewhere
<1>7. Moved(d, v) \in {down, home, v} \/ (v.setpoint # NoSetpoint /\ Moved(d, v) = on)
  <2>1. Moved(d, v) = CASE v.mode = DC!OFFBOARD /\ v.setpoint # NoSetpoint -> on
                        [] v.mode = DC!LAND -> down
                        [] v.mode = DC!RTL -> home
                        [] OTHER -> v
    BY DEF Moved
  <2> HIDE DEF down, home, on
  <2>2. QED
    BY <2>1
<1>8. QED
  BY <1>2, <1>4, <1>5, <1>6, <1>7

\* A vehicle that is disarmed is on the ground, and does not move.
Flew(v, w) ==
    /\ w \in Vehicles /\ w.charge = v.charge
    /\ w.armed => v.armed
    /\ w.mode = DC!OFFBOARD => v.mode = DC!OFFBOARD
    /\ ~w.armed => ~w.up

LEMMA Disarming ==
  ASSUME NEW v \in Vehicles, v.armed
  PROVE  Flew(v, AutoDisarm(v))
<1> DEFINE w == [v EXCEPT !.tookOff = @ \/ v.up]
           up == [w EXCEPT !.grounded = NotGrounded]
           waiting == [w EXCEPT !.armedFor = @ + 1]
           landed == [w EXCEPT !.grounded = @ + 1]
<1>1. AutoDisarm(v) = IF w.up THEN up
                      ELSE IF ~w.tookOff
                           THEN IF w.armedFor >= PreflightDisarm THEN Disarmed(w) ELSE waiting
                           ELSE IF w.grounded >= LandDisarm THEN Disarmed(w) ELSE landed
  BY DEF AutoDisarm
<1>2. w \in Vehicles /\ w.charge = v.charge /\ w.armed /\ w.mode = v.mode
  <2>1. ASSUME NEW b \in BOOLEAN
        PROVE  LET x == [v EXCEPT !.tookOff = b]
               IN  x \in Vehicles /\ x.charge = v.charge /\ x.armed /\ x.mode = v.mode
    BY DEF Vehicles
  <2>2. QED
    BY <2>1
<1> HIDE DEF w
<1>3. ASSUME NEW g \in Int, NEW n \in Nat
      PROVE  /\ Flew(w, [w EXCEPT !.grounded = g])
             /\ Flew(w, [w EXCEPT !.armedFor = n])
  BY <1>2 DEF Flew, Vehicles
<1>4. NotGrounded \in Int /\ w.grounded + 1 \in Int /\ w.armedFor + 1 \in Nat
  BY <1>2 DEF NotGrounded, Vehicles
<1>5. Flew(w, up) /\ Flew(w, waiting) /\ Flew(w, landed)
  BY <1>3, <1>4
<1>6. ~w.up => Flew(w, Disarmed(w))
  <2>1. ASSUME NEW g \in Int, NEW n \in Nat, NEW sp \in Setpoints, ~w.up
        PROVE  Flew(w, [w EXCEPT !.armed = FALSE, !.armedFor = 0, !.grounded = g,
                                 !.setpoint = sp, !.age = n])
    BY <1>2, <2>1 DEF Flew, Vehicles
  <2>2. OffboardTimeout + 1 \in Nat /\ NoSetpoint \in Setpoints
    BY FlightAssumption DEF FlightAssumption, Setpoints
  <2>3. QED
    BY <1>4, <2>1, <2>2 DEF Disarmed
<1> HIDE DEF up, waiting, landed
<1>7. Flew(w, AutoDisarm(v))
  BY <1>1, <1>5, <1>6
<1>8. QED
  BY <1>2, <1>7 DEF Flew

LEMMA VehicleStepping ==
  ASSUME NEW d, NEW v \in Vehicles, ~v.armed => ~v.up
  PROVE  Flew(v, VehicleStep(d, v))
<1>1. CASE v.armed
  <2> DEFINE x == Failsafe(v)
             y == Moved(d, x)
             z == AutoDisarm(y)
  <2>1. VehicleStep(d, v) = z
    BY <1>1 DEF VehicleStep
  <2>2. Moves(v, x)
    BY Failing
  <2> HIDE DEF x
  <2>3. x \in Vehicles
    BY <2>2 DEF Moves
  <2>4. Moves(x, y)
    BY <2>3, Moving
  <2> HIDE DEF y
  <2>5. y \in Vehicles /\ y.armed
    BY <1>1, <2>2, <2>4 DEF Moves
  <2>6. Flew(y, z)
    BY <2>5, Disarming
  <2> HIDE DEF z
  <2>7. QED
    BY <1>1, <2>1, <2>2, <2>4, <2>6 DEF Flew, Moves
<1>2. CASE ~v.armed
  BY <1>2 DEF VehicleStep, Flew
<1>3. QED
  BY <1>1, <1>2

-----------------------------------------------------------------------------
(* What a drone's turn comes to. *)

\* What a drone makes of its inbox: the software r from the software s.
Received(s, orders, r) ==
    /\ r \in Softwares /\ Sane(r.ctl)
    /\ orders = <<>> => SameState(s.ctl, r.ctl)
    /\ orders # <<>> => IsTask(orders[Len(orders)]) \/ r.ctl.handover # DC!None
    /\ \/ /\ \A i \in DOMAIN orders : ~IsTask(orders[i])
          /\ SameTask(s.ctl, r.ctl) /\ r.ctl.index = s.ctl.index
       \/ \E k \in DOMAIN orders :
             /\ IsTask(orders[k]) /\ Given(orders[k], r.ctl)
             /\ \A i \in DOMAIN orders : i > k => ~IsTask(orders[i])

LEMMA Receiving ==
  ASSUME FlightTypes, SoftwareIsSane, NEW d \in Drones
  PROVE  Received(software[d], inbox[d], Receive(d))
<1> DEFINE s == software[d]
           orders == inbox[d]
           q == Read(s, orders)
           r == Receive(d)
<1>1. s \in Softwares /\ Sane(s.ctl) /\ orders \in Seq(Messages)
  BY DEF FlightTypes, SoftwareIsSane
<1>2. r = HearLeader(d, q)
  BY DEF Receive
<1> HIDE DEF s, orders
<1>3. ReadSoFar(s, orders, Len(orders), q)
  BY <1>1, ReadingAll
<1> HIDE DEF q, r
<1>4. q \in Softwares /\ Sane(q.ctl)
  BY <1>3 DEF ReadSoFar
<1>5. r \in Softwares /\ SameState(q.ctl, r.ctl)
  BY <1>2, <1>4, Hearing
<1>6. Sane(r.ctl)
  BY <1>4, <1>5 DEF Sane, SameState, SameTask
<1>7. Len(orders) \in Nat /\ DOMAIN orders = 1 .. Len(orders)
      /\ (orders = <<>> => Len(orders) = 0) /\ (orders # <<>> => Len(orders) > 0)
  BY <1>1
<1>8. orders = <<>> => SameState(s.ctl, r.ctl)
  BY <1>3, <1>5, <1>7 DEF ReadSoFar
<1>9. orders # <<>> => IsTask(orders[Len(orders)]) \/ r.ctl.handover # DC!None
  BY <1>3, <1>5, <1>7 DEF ReadSoFar, SameState
<1>10. CASE /\ \A i \in 1 .. Len(orders) : ~IsTask(orders[i])
            /\ SameTask(s.ctl, q.ctl) /\ q.ctl.index = s.ctl.index
  <2>1. /\ \A i \in DOMAIN orders : ~IsTask(orders[i])
        /\ SameTask(s.ctl, r.ctl) /\ r.ctl.index = s.ctl.index
    BY <1>5, <1>7, <1>10 DEF SameState, SameTask
  <2>2. QED
    BY <1>5, <1>6, <1>8, <1>9, <2>1 DEF Received, s, orders, r
<1>11. CASE \E k \in 1 .. Len(orders) :
               /\ IsTask(orders[k]) /\ Given(orders[k], q.ctl)
               /\ \A i \in k + 1 .. Len(orders) : ~IsTask(orders[i])
  <2>1. PICK k \in 1 .. Len(orders) :
               /\ IsTask(orders[k]) /\ Given(orders[k], q.ctl)
               /\ \A i \in k + 1 .. Len(orders) : ~IsTask(orders[i])
    BY <1>11
  <2>2. k \in DOMAIN orders /\ \A i \in DOMAIN orders : i > k => ~IsTask(orders[i])
    BY <1>7, <2>1
  <2>3. Given(orders[k], r.ctl)
    BY <1>5, <2>1 DEF SameState, SameTask, Given
  <2>4. QED
    BY <1>5, <1>6, <1>8, <1>9, <2>1, <2>2, <2>3 DEF Received, s, orders, r
<1>12. QED
  BY <1>3, <1>10, <1>11 DEF ReadSoFar

\* What a drone's software and vehicle become in the drones' turn.
Tick(d) == Ticked(vehicles[d], Receive(d))
Software(d) == [Receive(d) EXCEPT !.ctl = Tick(d).ctl]
Vehicle(d) == VehicleStep(d, Actuate(vehicles[d], Receive(d), Tick(d).out))
Armed(d) == IF vehicles[d].armed THEN "yes" ELSE "no"

LEMMA TickFlown ==
  ASSUME FlightTypes, SoftwareIsSane, VehiclesObey, NEW d \in Drones
  PROVE  /\ TickIs(Receive(d).ctl, Tick(d), vehicles[d].place, Armed(d), vehicles[d].mode)
         /\ Software(d) \in Softwares /\ Software(d).ctl = Tick(d).ctl
         /\ Vehicle(d) \in Vehicles /\ Vehicle(d).charge = vehicles[d].charge
         /\ ModeAsTold(Vehicle(d), Tick(d).ctl)
         /\ Tick(d).ctl.complete /\ ~vehicles[d].armed => ~Vehicle(d).armed
<1> DEFINE s == software[d]
           r == Receive(d)
           t == Tick(d)
           v == vehicles[d]
           w == Actuate(v, r, t.out)
           x == VehicleStep(d, w)
<1>1. Received(s, inbox[d], r)
  BY Receiving
<1>2. v \in Vehicles /\ v.place \in DC!Places /\ v.mode \in DC!Modes /\ v.armed \in BOOLEAN
  BY DEF FlightTypes, Vehicles
<1>3. r \in Softwares /\ r.ctl \in DC!Controllers /\ Sane(r.ctl)
  BY <1>1 DEF Received, Softwares
<1>4. TickIs(r.ctl, t, v.place, Armed(d), v.mode)
  <2>1. t = DC!Tick(r.ctl, v.place, Armed(d), v.mode, r.leaderUp # "unknown",
                    r.heard > CommsTimeout, TRUE)
    BY DEF Tick, Ticked, Armed
  <2> HIDE DEF r, t, v
  <2>2. QED
    BY <1>2, <1>3, <2>1, Ticking
<1>5. Software(d) = [r EXCEPT !.ctl = t.ctl] /\ Vehicle(d) = x
  BY DEF Software, Vehicle
<1>6. ModeAsTold(v, s.ctl)
  BY DEF VehiclesObey
<1>7. Armed(d) = IF v.armed THEN "yes" ELSE "no"
  BY DEF Armed
<1> HIDE DEF r, t, v, s
<1>8. IsOutput(t.out) /\ SameTask(r.ctl, t.ctl) /\ Sane(t.ctl) /\ t.ctl \in DC!Controllers
  BY <1>4 DEF TickIs, SameTask
<1>9. Acted(v, w, t.out)
  BY <1>2, <1>8, Actuating
<1> HIDE DEF w
<1>10. w \in Vehicles
  BY <1>9 DEF Acted
<1>11. ~w.armed => ~w.up
  BY <1>6, <1>9 DEF Acted, ModeAsTold
<1>12. Flew(w, x)
  BY <1>10, <1>11, VehicleStepping
<1> HIDE DEF x
<1>13. x \in Vehicles /\ x.charge = v.charge
  BY <1>9, <1>12 DEF Acted, Flew
<1>14. Software(d) \in Softwares /\ Software(d).ctl = t.ctl
  BY <1>3, <1>5, <1>8 DEF Softwares
<1>15. DC!OFFBOARD # DC!None /\ DC!None \notin DC!Modes
  BY DEF DC!OFFBOARD, DC!None, DC!Modes, DC!LAND, DC!RTL, DC!LOITER
<1>16. t.ctl.handover # DC!None => ~x.armed \/ x.mode # DC!OFFBOARD
  <2>1. SUFFICES ASSUME t.ctl.handover # DC!None PROVE ~x.armed \/ x.mode # DC!OFFBOARD
    OBVIOUS
  <2>2. AsksFor(t.ctl.handover, t.out, Armed(d), v.mode)
    BY <1>4, <2>1 DEF TickIs
  <2>3. t.ctl.handover # DC!OFFBOARD
    BY <1>8, <1>15 DEF DC!Controllers
  <2>4. CASE t.out.request_mode = t.ctl.handover
    BY <1>9, <1>12, <2>1, <2>3, <2>4 DEF Acted, Flew
  <2>5. CASE t.out.request_mode = DC!None /\ v.mode = t.ctl.handover
    BY <1>9, <1>12, <1>15, <2>3, <2>5 DEF Acted, Flew
  <2>6. CASE Armed(d) = "no"
    BY <1>7, <1>9, <1>12, <2>2, <2>6 DEF Acted, Flew, AsksFor
  <2>7. QED
    BY <2>2, <2>4, <2>5, <2>6 DEF AsksFor
<1>17. x.mode = DC!OFFBOARD => t.ctl.task # DC!None
  <2>1. SUFFICES ASSUME x.mode = DC!OFFBOARD PROVE r.ctl.task # DC!None
    BY <1>8 DEF SameTask
  <2>2. CASE t.out.request_mode = DC!OFFBOARD
    BY <1>4, <2>2 DEF TickIs
  <2>3. CASE v.mode = DC!OFFBOARD
    <3>1. s.ctl.task # DC!None
      BY <1>6, <2>3 DEF ModeAsTold
    <3>2. CASE SameTask(s.ctl, r.ctl)
      BY <3>1, <3>2 DEF SameTask
    <3>3. CASE \E k \in DOMAIN inbox[d] : IsTask(inbox[d][k]) /\ Given(inbox[d][k], r.ctl)
      BY <3>3 DEF IsTask, Given, DC!None
    <3>4. QED
      BY <1>1, <3>2, <3>3 DEF Received
  <2>4. QED
    BY <1>9, <1>12, <2>1, <2>2, <2>3 DEF Acted, Flew
<1>18. ~x.armed => ~x.up
  BY <1>12 DEF Flew
<1>19. t.ctl.complete /\ ~v.armed => ~x.armed
  <2>1. t.ctl.complete => ~t.out.request_arm
    BY <1>4, <1>8 DEF TickIs, Sane, AsksFor
  <2>2. QED
    BY <1>9, <1>12, <2>1 DEF Acted, Flew
<1>20. QED
  BY <1>4, <1>5, <1>13, <1>14, <1>16, <1>17, <1>18, <1>19 DEF ModeAsTold, r, t, v

-----------------------------------------------------------------------------
(* What the ground station sends. *)

\* A message joins the end of what is to be sent.
LEMMA Appending ==
  ASSUME NEW s \in Seq(Messages), NEW o \in Messages
  PROVE  LET q == Append(s, o)
         IN  /\ q \in Seq(Messages) /\ q # <<>> /\ LastIs(q, o)
             /\ Len(q) = Len(s) + 1 /\ q[Len(s) + 1] = o
             /\ DOMAIN q = 1 .. Len(s) + 1 /\ DOMAIN s = 1 .. Len(s) /\ Len(s) \in Nat
             /\ \A i \in 1 .. Len(s) : q[i] = s[i]
             /\ Range(q) = Range(s) \cup {o}
<1> DEFINE q == Append(s, o)
<1>1. /\ q \in Seq(Messages) /\ Len(q) = Len(s) + 1 /\ q[Len(s) + 1] = o /\ Len(s) \in Nat
      /\ \A i \in 1 .. Len(s) : q[i] = s[i]
      /\ DOMAIN q = 1 .. Len(s) + 1 /\ DOMAIN s = 1 .. Len(s)
  OBVIOUS
<1> HIDE DEF q
<1>2. q # <<>> /\ LastIs(q, o)
  BY <1>1 DEF LastIs
<1>3. 1 .. Len(s) + 1 = (1 .. Len(s)) \cup {Len(s) + 1}
  BY <1>1
<1>4. Range(q) = Range(s) \cup {o}
  <2>1. ASSUME NEW x \in Range(q) PROVE x \in Range(s) \cup {o}
    BY <1>1, <1>3 DEF Range
  <2>2. ASSUME NEW x \in Range(s) PROVE x \in Range(q)
    BY <1>1, <1>3 DEF Range
  <2>3. o \in Range(q)
    BY <1>1, <1>3 DEF Range
  <2>4. QED
    BY <2>1, <2>2, <2>3
<1>5. QED
  BY <1>1, <1>2, <1>4 DEF q

\* Every drone is told nothing, or what its last order now is.
Told1(d, o) == pending'[d] = Append(pending[d], o) /\ order'[d] = o
Sent(d) ==
    \/ pending'[d] = pending[d] /\ order'[d] = order[d]
    \/ \E o \in Messages : Told1(d, o)

LEMMA Queueing ==
  ASSUME FlightTypes, NEW D, Queue(D),
         \A d \in Drones : IF d \in D THEN order'[d] \in Messages ELSE order'[d] = order[d]
  PROVE  /\ \A d \in Drones : Sent(d)
         /\ \A d \in Drones \ D : pending'[d] = pending[d] /\ order'[d] = order[d]
         /\ \A d \in Drones : d \in D => Told1(d, order'[d])
         /\ pending' = [d \in Drones |-> pending'[d]]
  BY DEF Queue, Sent, Told1

LEMMA SendingKeepsTypes ==
  ASSUME FlightTypes, \A d \in Drones : Sent(d), pending' = [d \in Drones |-> pending'[d]]
  PROVE  pending' \in [Drones -> Seq(Messages)]
<1>1. ASSUME NEW d \in Drones PROVE pending'[d] \in Seq(Messages)
  <2>1. pending[d] \in Seq(Messages)
    BY DEF FlightTypes
  <2>2. CASE pending'[d] = pending[d]
    BY <2>1, <2>2
  <2>3. CASE \E o \in Messages : Told1(d, o)
    BY <2>1, <2>3, Appending DEF Told1
  <2>4. QED
    BY <2>2, <2>3 DEF Sent
<1>2. QED
  BY <1>1

LEMMA SendingKeepsLastOrders ==
  ASSUME FlightTypes, LastOrders, \A d \in Drones : Sent(d), UNCHANGED <<inbox, missed, software>>
  PROVE  LastOrders'
<1>1. ASSUME NEW d \in Drones
      PROVE  /\ pending'[d] # <<>> => LastIs(pending'[d], order'[d])
             /\ pending'[d] = <<>> /\ d \notin missed =>
                   IF inbox[d] # <<>> THEN LastIs(inbox[d], order'[d])
                   ELSE CarriedOut(order'[d], software[d].ctl)
  <2>1. pending[d] \in Seq(Messages)
    BY DEF FlightTypes
  <2>2. CASE pending'[d] = pending[d] /\ order'[d] = order[d]
    BY <2>2 DEF LastOrders
  <2>3. CASE \E o \in Messages : Told1(d, o)
    <3>1. PICK o \in Messages : Told1(d, o)
      BY <2>3
    <3>2. pending'[d] # <<>> /\ LastIs(pending'[d], order'[d])
      BY <2>1, <3>1, Appending DEF Told1
    <3>3. QED
      BY <3>2
  <2>4. QED
    BY <2>2, <2>3 DEF Sent
<1>2. QED
  BY <1>1 DEF LastOrders

\* A step of a pass that tells somebody something.
LEMMA PassTells ==
  ASSUME FlightInv, SupervisorInv', turn = "ground",
         UNCHANGED <<battery, mission, progress, scanning, active, turn, used, inbox, spoken,
                     lost, readings, software, vehicles, flown, lowFor, missed>>,
         NEW D, Queue(D),
         \A d \in Drones \ D : order'[d] = order[d],
         \A d \in Drones : d \in D =>
            \E o \in Messages : order'[d] = o /\ (IsTask(o) => o.mission = mission /\ Suits(d, o)'),
         retired \subseteq retired',
         \A d \in DOMAIN paths : d \in retired' \/ (d \in DOMAIN paths' /\ paths'[d] = paths[d]),
         \A d \in DOMAIN followers : d \in retired' \/ d \in DOMAIN followers',
         \A d \in DOMAIN paths' : \/ d \in DOMAIN paths /\ paths'[d] = paths[d]
                                  \/ Covered(paths[d], 0)' /\ progress[d] = NoProgress,
         MissionDrones \subseteq MissionDrones' \cup retired',
         MissionDrones' \subseteq active.drones \/ \E e \in active.drones : ~Finished(e)
  PROVE  FlightInv'
<1>1. mission # NoMission
  BY DEF FlightInv, Turns
<1>2. \A d \in Drones : IF d \in D THEN order'[d] \in Messages ELSE order'[d] = order[d]
  OBVIOUS
<1>3. /\ \A d \in Drones : Sent(d)
      /\ \A d \in Drones \ D : pending'[d] = pending[d] /\ order'[d] = order[d]
      /\ \A d \in Drones : d \in D => Told1(d, order'[d])
      /\ pending' = [d \in Drones |-> pending'[d]]
  BY <1>2, Queueing DEF FlightInv
<1>4. FlightTypes'
  BY <1>3, SendingKeepsTypes DEF FlightInv, FlightTypes
<1>5. LastOrders'
  BY <1>3, SendingKeepsLastOrders DEF FlightInv
<1>6. ASSUME NEW d \in Drones, NEW o \in Range(pending'[d]), IsTask(o)
      PROVE  o \in Range(pending[d]) \/ (o.mission = mission /\ Suits(d, o)')
  <2>1. CASE d \in D
    <3>1. PICK m \in Messages : order'[d] = m /\ (IsTask(m) => m.mission = mission /\ Suits(d, m)')
      BY <2>1
    <3>2. pending[d] \in Seq(Messages) /\ pending'[d] = Append(pending[d], m)
      BY <1>3, <2>1, <3>1 DEF FlightInv, FlightTypes, Told1
    <3>3. Range(pending'[d]) = Range(pending[d]) \cup {m}
      BY <3>2, Appending
    <3>4. QED
      BY <1>6, <3>1, <3>3
  <2>2. CASE d \notin D
    BY <1>3, <2>2
  <2>3. QED
    BY <2>1, <2>2
<1>7. Turns' /\ SoftwareIsSane' /\ VehiclesObey'
  BY DEF FlightInv, Turns, SoftwareIsSane, VehiclesObey
<1>8. NamesAreUsed'
  <2>1. mission \in used
    BY <1>1 DEF FlightInv, NamesAreUsed
  <2>2. ASSUME NEW d \in Drones, NEW o \in Range(pending'[d]) \cup Range(inbox[d]), IsTask(o)
        PROVE  o.mission \in used
    BY <1>6, <2>1, <2>2 DEF FlightInv, NamesAreUsed
  <2>3. QED
    BY <2>1, <2>2 DEF FlightInv, NamesAreUsed
<1>9. ASSUME NEW d \in Drones, NEW o, Suits(d, o) PROVE Suits(d, o)'
  BY <1>9 DEF Suits
<1>10. MessagesSuit'
  <2>1. ASSUME NEW d \in Drones, NEW o \in Range(pending'[d]) \cup Range(inbox[d]), OfMission(o)
        PROVE  Suits(d, o)'
    <3>1. CASE o \in Range(pending[d]) \cup Range(inbox[d])
      BY <1>9, <2>1, <3>1 DEF FlightInv, MessagesSuit
    <3>2. CASE o \notin Range(pending[d]) \cup Range(inbox[d])
      BY <1>6, <2>1, <3>2 DEF OfMission
    <3>3. QED
      BY <3>1, <3>2
  <2>2. \A o : OfMission(o)' <=> OfMission(o)
    BY DEF OfMission, Present
  <2>3. QED
    BY <2>1, <2>2 DEF MessagesSuit
<1>11. SoftwareSuits'
  <2>1. ASSUME NEW d \in Drones, Present(software[d].ctl.mission)
        PROVE  Flies(d, software[d].ctl)'
    <3>1. Flies(d, software[d].ctl)
      BY <2>1 DEF FlightInv, SoftwareSuits
    <3>2. QED
      BY <3>1 DEF Flies, Covered
  <2>2. QED
    BY <2>1 DEF SoftwareSuits, Present
<1>12. ProgressIsCovered'
  <2>1. ASSUME NEW d \in DOMAIN paths'
        PROVE  /\ Covered(paths[d], progress[d].index)'
               /\ progress[d].complete => flown[paths'[d].lane] = NumWaypoints
    <3>1. CASE d \in DOMAIN paths /\ paths'[d] = paths[d]
      BY <1>1, <3>1 DEF FlightInv, ProgressIsCovered, Covered
    <3>2. CASE Covered(paths[d], 0)' /\ progress[d] = NoProgress
      BY <3>2 DEF Covered, NoProgress
    <3>3. QED
      BY <3>1, <3>2
  <2>2. ASSUME NEW d \in Drones \ (MissionDrones' \cup retired') PROVE progress[d] = NoProgress
    BY <1>1 DEF FlightInv, ProgressIsCovered
  <2>3. QED
    BY <2>1, <2>2 DEF ProgressIsCovered
<1>13. ReportsAgree'
  BY DEF FlightInv, ReportsAgree, Present, Finished, Seen
<1>14. ActiveIsBehind'
  BY <1>1 DEF FlightInv, ActiveIsBehind, Finished
<1>15. MissionsInOrder'
  <2>1. ASSUME NEW d \in Drones, AllPresent(pending[d]) PROVE AllPresent(pending[d])'
    BY <1>1, <1>6, <2>1 DEF AllPresent, Present
  <2>2. ASSUME NEW d \in Drones PROVE PresentLast(pending[d])'
    <3>1. pending[d] \in Seq(Messages) /\ PresentLast(pending[d])
      BY DEF FlightInv, FlightTypes, MissionsInOrder
    <3>2. CASE d \in D
      <4>1. PICK m \in Messages : order'[d] = m /\ (IsTask(m) => m.mission = mission /\ Suits(d, m)')
        BY <3>2
      <4>2. pending'[d] = Append(pending[d], m)
        BY <1>3, <3>2, <4>1 DEF Told1
      <4> DEFINE s == pending[d]
                 q == pending'[d]
      <4>3. /\ DOMAIN q = 1 .. Len(s) + 1 /\ DOMAIN s = 1 .. Len(s) /\ Len(s) \in Nat
            /\ q[Len(s) + 1] = m /\ \A i \in 1 .. Len(s) : q[i] = s[i]
        BY <3>1, <4>2, Appending
      <4>4. ASSUME NEW i \in DOMAIN q, NEW j \in DOMAIN q, i < j, OfMission(q[i]), IsTask(q[j])
            PROVE  Present(q[j].mission)
        <5>1. CASE j = Len(s) + 1
          BY <1>1, <4>1, <4>3, <4>4, <5>1 DEF Present
        <5>2. CASE j # Len(s) + 1
          <6>1. i \in 1 .. Len(s) /\ j \in 1 .. Len(s) /\ q[i] = s[i] /\ q[j] = s[j]
            BY <4>3, <4>4, <5>2
          <6>2. QED
            BY <3>1, <4>3, <4>4, <6>1 DEF PresentLast
        <5>3. QED
          BY <5>1, <5>2
      <4>5. QED
        BY <4>4 DEF PresentLast, OfMission, Present
    <3>3. CASE d \notin D
      <4>1. pending'[d] = pending[d]
        BY <1>3, <3>3
      <4>2. QED
        BY <3>1, <4>1 DEF PresentLast, OfMission, Present
    <3>4. QED
      BY <3>2, <3>3
  <2>3. ASSUME NEW d \in Drones
        PROVE  /\ PresentLast(inbox[d])'
               /\ AllPresent(inbox[d]) => AllPresent(inbox[d])'
               /\ \A o : OfMission(o)' => OfMission(o)
               /\ (\E o \in Range(inbox[d]) : OfMission(o)) => AllPresent(pending[d])
               /\ Present(software[d].ctl.mission) => AllPresent(pending[d]) /\ AllPresent(inbox[d])
               /\ Finished(d) => software[d].ctl.mission = mission
    BY <1>1 DEF FlightInv, MissionsInOrder, PresentLast, AllPresent, OfMission, Present
  <2>4. QED
    BY <2>1, <2>2, <2>3 DEF MissionsInOrder, Present, Finished
<1>16. LowDronesAreTold'
  BY DEF FlightInv, LowDronesAreTold, OnItsWayHome, Low, Finished
<1>17. QED
  BY <1>4, <1>5, <1>7, <1>8, <1>10, <1>11, <1>12, <1>13, <1>14, <1>15, <1>16 DEF FlightInv

-----------------------------------------------------------------------------
(* The inductive invariant, step by step: the ground station's turn. *)

LEMMA FlightInitInv == FlightInit => FlightInv
<1> SUFFICES ASSUME FlightInit PROVE FlightInv
  OBVIOUS
<1>1. SupervisorInv
  BY InitInv DEF FlightInit
<1>2. Range(<<>>) = {}
  BY DEF Range
<1>3. DC!NewController \in DC!Controllers
  <2>1. <<>> \in Seq(AllWaypoints)
    OBVIOUS
  <2>2. QED
    BY <2>1 DEF DC!NewController, DC!Controllers, DC!Phases
<1>4. NewSoftware \in Softwares
  BY <1>3 DEF NewSoftware, Softwares, NoLeader
<1>5. NewVehicle \in Vehicles
  BY FlightAssumption DEF NewVehicle, Vehicles, FlightAssumption, DC!Modes, DC!Places, Setpoints,
     NotGrounded, Charges
<1>6. Silence \in Said /\ Unheard \in Heard
  BY SupervisorAssumption DEF Silence, Said, Unheard, Heard, Charges, SupervisorAssumption
<1>7. <<>> \in Seq(Messages) /\ 0 \in 0 .. NumWaypoints
  BY SupervisorAssumption DEF SupervisorAssumption
<1>8. FlightTypes
  BY <1>4, <1>5, <1>6, <1>7 DEF FlightInit, FlightTypes
<1>9. mission = NoMission /\ ~scanning
      /\ \A d \in Drones : progress[d] = NoProgress /\ order[d] = NoOrder
  BY DEF FlightInit, Init
<1>10. Turns
  BY <1>9 DEF FlightInit, Turns
<1>11. /\ NewSoftware.ctl.index = 0 /\ ~NewSoftware.ctl.complete
       /\ NewSoftware.ctl.route = <<>> /\ NewSoftware.ctl.mission = DC!None
       /\ NewSoftware.ctl.task = DC!None /\ NewSoftware.ctl.handover = DC!None
  BY DEF NewSoftware, DC!NewController
<1>12. SoftwareIsSane
  BY <1>11, SupervisorAssumption DEF FlightInit, SoftwareIsSane, Sane, SupervisorAssumption
<1>13. NamesAreUsed
  BY <1>2, <1>9, <1>11 DEF FlightInit, NamesAreUsed, Unheard
<1>14. MessagesSuit /\ SoftwareSuits /\ ProgressIsCovered
  BY <1>2, <1>9 DEF FlightInit, MessagesSuit, SoftwareSuits, ProgressIsCovered, OfMission, Present
<1>15. ReportsAgree
  <2>1. \A d \in Drones : software[d] = NewSoftware /\ spoken[d] = Silence /\ readings[d] = Unheard
    BY DEF FlightInit
  <2>2. /\ Silence.mission = DC!None /\ Silence.index = 0 /\ Silence.complete = FALSE
        /\ ~Unheard.complete /\ NewSoftware.ctl.complete = FALSE
    BY DEF Silence, Unheard, NewSoftware, DC!NewController
  <2>3. turn = "events"
    BY DEF FlightInit
  <2>4. QED
    BY <1>11, <2>1, <2>2, <2>3 DEF ReportsAgree
<1>16. ActiveIsBehind
  BY <1>9 DEF FlightInit, Init, ActiveIsBehind, MissionDrones, Empty
<1>17. MissionsInOrder
  BY <1>2, <1>9 DEF FlightInit, MissionsInOrder, PresentLast, AllPresent, OfMission, Present
<1>18. LastOrders
  BY <1>9, <1>11 DEF FlightInit, LastOrders, CarriedOut, NoOrder
<1>19. VehiclesObey
  BY <1>11 DEF FlightInit, VehiclesObey, ModeAsTold, NewVehicle, Silence, DC!LOITER, DC!OFFBOARD
<1>20. LowDronesAreTold
  BY DEF FlightInit, LowDronesAreTold
<1>21. QED
  BY <1>1, <1>8, <1>10, <1>12, <1>13, <1>14, <1>15, <1>16, <1>17, <1>18, <1>19, <1>20 DEF FlightInv

\* What the steps of a pass leave as it is.
Elsewise == UNCHANGED <<turn, used, inbox, spoken, lost, readings, software, vehicles, flown,
                        lowFor, missed>>

LEMMA DropFlightInv ==
  ASSUME FlightInv, turn = "ground", Elsewise, NEW d \in Drones, Drop(d), Queue(Told(d))
  PROVE  FlightInv'
<1>1. SupervisorInv'
  BY DropInv DEF FlightInv
<1>2. /\ MustGoHome(d) /\ Idle = {} /\ Visiting(d)
      /\ UNCHANGED <<battery, mission, paths, followers, progress, retired, scanning, active>>
      /\ order' = With(order, Entry(d, GoHome))
  BY DEF Drop, Tell
<1>3. Told(d) = {d}
  BY <1>2 DEF Told
<1>4. DOMAIN order = Drones
  BY DEF FlightInv, SupervisorInv, TypeOK
<1>5. order'[d] = GoHome /\ \A x \in Drones \ {d} : order'[x] = order[x]
  BY <1>2, <1>4 DEF With, Entry
<1>6. GoHome \in Messages /\ ~IsTask(GoHome)
  BY DEF GoHome, Command, COMMANDS, Messages, Orders, NoOrder, IsTask
<1>7. Queue({d})
  BY <1>3
<1>8. MissionDrones' = MissionDrones
  BY <1>2 DEF MissionDrones
<1>9. MissionDrones' \subseteq active.drones \/ \E e \in active.drones : ~Finished(e)
  BY <1>8 DEF FlightInv, ActiveIsBehind
<1>10. \A x \in Drones : x \in {d} =>
          \E o \in Messages : order'[x] = o /\ (IsTask(o) => o.mission = mission /\ Suits(x, o)')
  BY <1>5, <1>6
<1>11. UNCHANGED <<battery, mission, progress, scanning, active, turn, used, inbox, spoken,
                   lost, readings, software, vehicles, flown, lowFor, missed>>
  BY <1>2 DEF Elsewise
<1>12. QED
  BY <1>1, <1>2, <1>5, <1>7, <1>8, <1>9, <1>10, <1>11, PassTells

\* Who takes over had no part in the mission, and what is left of a route was flown.
LEMMA IdleIsNew ==
  ASSUME FlightInv, mission # NoMission, NEW r \in Idle
  PROVE  /\ r \in Drones /\ r \notin MissionDrones /\ r \notin retired
         /\ progress[r] = NoProgress
  BY DEF FlightInv, ProgressIsCovered, Idle

LEMMA HandOverPathFlightInv ==
  ASSUME FlightInv, turn = "ground", Elsewise, NEW d \in Drones, HandOverPath(d), Queue(Told(d))
  PROVE  FlightInv'
<1>1. SupervisorInv /\ SupervisorInv' /\ mission # NoMission
  BY HandOverPathInv DEF FlightInv, Turns
<1>2. /\ MustGoHome(d) /\ Idle # {} /\ d \in DOMAIN paths
      /\ UNCHANGED <<battery, mission, progress, dropped, scanning, active>>
      /\ retired' = retired \cup {d}
  BY DEF HandOverPath
<1>3. PICK r \in Idle :
         /\ r = First(Idle) /\ r # d
         /\ DOMAIN paths' = (DOMAIN paths \ {d}) \cup {r}
         /\ paths'[r] = Rest(d)
         /\ \A x \in DOMAIN paths \ {d} : x # r /\ paths'[x] = paths[x]
         /\ DOMAIN followers' = DOMAIN followers
         /\ \A f \in DOMAIN followers : followers'[f] \in Slots
         /\ DOMAIN order' = Drones
         /\ order'[d] = GoHome
         /\ order'[r] = Assign(mission, Rest(d))
         /\ \A f \in DOMAIN followers : followers[f].leader = d =>
               order'[f] = Slot(mission, followers'[f])
         /\ \A x \in Drones \ {d, r} : x \notin FollowersOf(d) => order'[x] = order[x]
  BY <1>1, HandOverPathEffect
<1>4. Told(d) = {d, r} \cup FollowersOf(d)
  BY <1>2, <1>3 DEF Told
<1>5. r \in Drones /\ r \notin MissionDrones /\ r \notin retired /\ progress[r] = NoProgress
  BY <1>1, IdleIsNew
<1>6. /\ Rest(d) \in Routes /\ Rest(d).lane = paths[d].lane
      /\ Rest(d).left \in Int /\ paths[d].left \in Int /\ progress[d].index \in Int
      /\ Rest(d).left >= paths[d].left - progress[d].index
  <2>1. paths[d] \in Routes /\ progress[d].index \in 0 .. NumWaypoints
    BY <1>1, <1>2, PartialFunction DEF SupervisorInv, TypeOK
  <2>2. QED
    BY <1>1, <1>2, <2>1, RestOfRoute DEF SupervisorInv, Routes
<1>7. mission \in MissionIds
  BY <1>1 DEF SupervisorInv, TypeOK
<1>8. GoHome \in Messages /\ ~IsTask(GoHome)
  BY DEF GoHome, Command, COMMANDS, Messages, Orders, NoOrder, IsTask
<1>9. Assign(mission, Rest(d)) \in Messages
      /\ Assign(mission, Rest(d)).kind = "assign" /\ Assign(mission, Rest(d)).route = Rest(d)
      /\ Assign(mission, Rest(d)).mission = mission
  BY <1>6, <1>7 DEF Assign, Messages, Orders, NoOrder
<1>10. ASSUME NEW f \in DOMAIN followers
       PROVE  /\ Slot(mission, followers'[f]) \in Messages
              /\ Slot(mission, followers'[f]).kind = "slot"
              /\ Slot(mission, followers'[f]).mission = mission
  BY <1>3, <1>7 DEF Slot, Messages, Orders, NoOrder
<1>11. ASSUME NEW x \in Drones, x \in Told(d)
       PROVE  \E o \in Messages : order'[x] = o /\ (IsTask(o) => o.mission = mission /\ Suits(x, o)')
  <2>1. CASE x = d
    BY <1>3, <1>8, <2>1
  <2>2. CASE x = r
    BY <1>3, <1>9, <2>2 DEF Suits
  <2>3. CASE x \in FollowersOf(d)
    BY <1>3, <1>10, <2>3 DEF Suits, FollowersOf
  <2>4. QED
    BY <1>4, <1>11, <2>1, <2>2, <2>3
<1>12. \A x \in Drones \ Told(d) : order'[x] = order[x]
  BY <1>3, <1>4
<1>13. Covered(paths[r], 0)'
  <2>1. flown[paths[d].lane] >= NumWaypoints - paths[d].left + progress[d].index
    BY <1>1, <1>2 DEF FlightInv, ProgressIsCovered, Covered
  <2>2. flown[paths[d].lane] \in Int /\ NumWaypoints \in Int
    <3>1. paths[d].lane \in Drones
      BY <1>6 DEF Routes
    <3>2. QED
      BY <3>1, SupervisorAssumption DEF FlightInv, FlightTypes, SupervisorAssumption
  <2>3. flown[Rest(d).lane] >= NumWaypoints - Rest(d).left + 0
    BY <1>6, <2>1, <2>2
  <2>4. flown' = flown
    BY DEF Elsewise
  <2>5. QED
    BY <1>3, <2>3, <2>4 DEF Covered
<1>14. \A x \in DOMAIN paths : x \in retired' \/ (x \in DOMAIN paths' /\ paths'[x] = paths[x])
  BY <1>2, <1>3
<1>15. \A x \in DOMAIN followers : x \in retired' \/ x \in DOMAIN followers'
  BY <1>3
<1>16. \A x \in DOMAIN paths' : \/ x \in DOMAIN paths /\ paths'[x] = paths[x]
                                \/ Covered(paths[x], 0)' /\ progress[x] = NoProgress
  BY <1>3, <1>5, <1>13
<1>17. MissionDrones \subseteq MissionDrones' \cup retired' /\ retired \subseteq retired'
  BY <1>2, <1>3 DEF MissionDrones
<1>18. \E e \in active.drones : ~Finished(e)
  <2>1. d \in MissionDrones /\ ~Finished(d)
    BY <1>2 DEF MustGoHome, MissionDrones
  <2>2. QED
    BY <2>1 DEF FlightInv, ActiveIsBehind
<1>19. UNCHANGED <<battery, mission, progress, scanning, active, turn, used, inbox, spoken,
                   lost, readings, software, vehicles, flown, lowFor, missed>>
  BY <1>2 DEF Elsewise
<1>20. QED
  BY <1>1, <1>11, <1>12, <1>14, <1>15, <1>16, <1>17, <1>18, <1>19, PassTells

LEMMA HandOverSlotFlightInv ==
  ASSUME FlightInv, turn = "ground", Elsewise, NEW d \in Drones, HandOverSlot(d), Queue(Told(d))
  PROVE  FlightInv'
<1>1. SupervisorInv /\ SupervisorInv' /\ mission # NoMission
  BY HandOverSlotInv DEF FlightInv, Turns
<1>2. /\ MustGoHome(d) /\ Idle # {} /\ d \in DOMAIN followers
      /\ UNCHANGED <<battery, mission, paths, progress, dropped, scanning, active>>
      /\ retired' = retired \cup {d}
  BY DEF HandOverSlot
<1>3. PICK r \in Idle :
         /\ r = First(Idle) /\ r # d
         /\ DOMAIN followers' = (DOMAIN followers \ {d}) \cup {r}
         /\ followers'[r] = followers[d]
         /\ DOMAIN order' = Drones
         /\ order'[d] = GoHome
         /\ order'[r] = Slot(mission, followers[d])
         /\ \A x \in Drones \ {d, r} : order'[x] = order[x]
  BY <1>1, HandOverSlotEffect
<1>4. d \notin DOMAIN paths
  BY <1>1, <1>2 DEF SupervisorInv, PlanSound, SoundPlan
<1>5. Told(d) = {d, r}
  BY <1>2, <1>3, <1>4 DEF Told
<1>6. r \in Drones
  BY <1>1, IdleIsNew
<1>7. mission \in MissionIds /\ followers[d] \in Slots
  BY <1>1, <1>2, PartialFunction DEF SupervisorInv, TypeOK
<1>8. GoHome \in Messages /\ ~IsTask(GoHome)
  BY DEF GoHome, Command, COMMANDS, Messages, Orders, NoOrder, IsTask
<1>9. /\ Slot(mission, followers[d]) \in Messages
      /\ Slot(mission, followers[d]).kind = "slot"
      /\ Slot(mission, followers[d]).mission = mission
  BY <1>7 DEF Slot, Messages, Orders, NoOrder
<1>10. ASSUME NEW x \in Drones, x \in Told(d)
       PROVE  \E o \in Messages : order'[x] = o /\ (IsTask(o) => o.mission = mission /\ Suits(x, o)')
  <2>1. CASE x = d
    BY <1>3, <1>8, <2>1
  <2>2. CASE x = r
    BY <1>3, <1>9, <2>2 DEF Suits
  <2>3. QED
    BY <1>5, <1>10, <2>1, <2>2
<1>11. \A x \in Drones \ Told(d) : order'[x] = order[x]
  BY <1>3, <1>5
<1>12. /\ \A x \in DOMAIN paths : x \in DOMAIN paths' /\ paths'[x] = paths[x]
       /\ \A x \in DOMAIN paths' : x \in DOMAIN paths /\ paths'[x] = paths[x]
       /\ \A x \in DOMAIN followers : x \in retired' \/ x \in DOMAIN followers'
       /\ MissionDrones \subseteq MissionDrones' \cup retired' /\ retired \subseteq retired'
  BY <1>2, <1>3 DEF MissionDrones
<1>13. \E e \in active.drones : ~Finished(e)
  <2>1. d \in MissionDrones /\ ~Finished(d)
    BY <1>2 DEF MustGoHome, MissionDrones
  <2>2. QED
    BY <2>1 DEF FlightInv, ActiveIsBehind
<1>14. UNCHANGED <<battery, mission, progress, scanning, active, turn, used, inbox, spoken,
                   lost, readings, software, vehicles, flown, lowFor, missed>>
  BY <1>2 DEF Elsewise
<1>15. QED
  BY <1>1, <1>10, <1>11, <1>12, <1>13, <1>14, PassTells

\* The steps of a pass that tell nobody anything.
LEMMA QuietPassFlightInv ==
  ASSUME FlightInv, UNCHANGED <<used, inbox, spoken, lost, readings, software, vehicles, flown,
                                lowFor, missed, pending>>,
         \/ BeginPass /\ turn = "ground" /\ UNCHANGED turn
         \/ EndPass /\ turn = "ground" /\ turn' = "drones"
         \/ UNCHANGED turn /\ turn = "ground" /\ \E d \in Drones : LeaveAlone(d)
  PROVE  FlightInv'
<1>1. SupervisorInv /\ SupervisorInv'
  BY QuietPassInv DEF FlightInv
<1>2. /\ turn = "ground" /\ turn' \in {"ground", "drones"}
      /\ UNCHANGED <<battery, mission, paths, followers, progress, retired, dropped, order>>
      /\ mission # NoMission
  BY DEF BeginPass, EndPass, LeaveAlone, FlightInv, Turns
<1>3. FlightTypes'
  BY <1>2 DEF FlightInv, FlightTypes
<1>4. Turns'
  BY <1>2 DEF FlightInv, Turns, BeginPass, EndPass, LeaveAlone
<1>5. SoftwareIsSane' /\ VehiclesObey'
  BY DEF FlightInv, SoftwareIsSane, VehiclesObey
<1>6. NamesAreUsed'
  BY <1>2 DEF FlightInv, NamesAreUsed
<1>7. MessagesSuit'
  BY <1>2 DEF FlightInv, MessagesSuit, OfMission, Present, Suits
<1>8. SoftwareSuits'
  BY <1>2 DEF FlightInv, SoftwareSuits, Present, Flies, Covered
<1>9. ProgressIsCovered'
  BY <1>2 DEF FlightInv, ProgressIsCovered, MissionDrones, Covered
<1>10. ReportsAgree'
  BY <1>2 DEF FlightInv, ReportsAgree, Present, Finished, Seen
<1>11. ActiveIsBehind'
  <2>1. MissionDrones' = MissionDrones /\ \A d : Finished(d)' = Finished(d)
    BY <1>2 DEF MissionDrones, Finished
  <2>2. active' = active \/ active' = [mission |-> mission, drones |-> MissionDrones]
    BY DEF BeginPass, EndPass, LeaveAlone
  <2>3. QED
    BY <1>2, <2>1, <2>2 DEF FlightInv, ActiveIsBehind
<1>12. MissionsInOrder'
  BY <1>2 DEF FlightInv, MissionsInOrder, PresentLast, AllPresent, OfMission, Present, Finished
<1>13. LastOrders'
  BY <1>2 DEF FlightInv, LastOrders
<1>14. LowDronesAreTold'
  <2>1. \A d : OnItsWayHome(d)' = OnItsWayHome(d) /\ Low(d)' = Low(d) /\ Finished(d)' = Finished(d)
    BY <1>2 DEF OnItsWayHome, Low, Finished
  <2>2. ASSUME NEW d \in Drones, lowFor[d] >= 1, turn' = "drones"
        PROVE  ~IsTask(order[d]) \/ d \in dropped
    <3>1. scanning /\ scan = {}
      BY <1>2, <2>2 DEF BeginPass, EndPass, LeaveAlone
    <3>2. Low(d) /\ ~Finished(d)
      BY <1>2, <2>2 DEF FlightInv, LowDronesAreTold
    <3>3. IsTask(order[d]) => d \in MissionDrones
      BY <1>1 DEF SupervisorInv, OrdersMatchPlan
    <3>4. QED
      BY <1>1, <3>1, <3>2, <3>3 DEF SupervisorInv, PassLeavesNobodyBehind
  <2>3. QED
    BY <1>2, <2>1, <2>2 DEF FlightInv, LowDronesAreTold
<1>15. QED
  BY <1>1, <1>3, <1>4, <1>5, <1>6, <1>7, <1>8, <1>9, <1>10, <1>11, <1>12, <1>13, <1>14 DEF FlightInv

LEMMA GroundDecidesInv ==
  ASSUME FlightInv, GroundDecides
  PROVE  FlightInv'
<1>1. turn = "ground"
      /\ UNCHANGED <<used, inbox, spoken, lost, readings, software, vehicles, flown, lowFor, missed>>
  BY DEF GroundDecides, history
<1>2. CASE BeginPass /\ UNCHANGED <<turn, pending>>
  BY <1>1, <1>2, QuietPassFlightInv
<1>3. CASE EndPass /\ turn' = "drones" /\ UNCHANGED pending
  BY <1>1, <1>3, QuietPassFlightInv
<1>4. ASSUME NEW d \in scan, Visit(d), Queue(Told(d)), UNCHANGED turn
      PROVE  FlightInv'
  <2>1. d \in Drones
    BY <1>4 DEF FlightInv, SupervisorInv, TypeOK
  <2>2. Elsewise
    BY <1>1, <1>4 DEF Elsewise
  <2>3. CASE LeaveAlone(d)
    <3>1. ~MustGoHome(d)
      BY <2>3 DEF LeaveAlone
    <3>2. Told(d) = {}
      BY <3>1 DEF Told
    <3>3. pending' = [x \in Drones |-> pending[x]]
      BY <1>4, <3>2 DEF Queue
    <3>4. pending' = pending
      BY <3>3 DEF FlightInv, FlightTypes
    <3>5. QED
      BY <1>1, <1>4, <2>1, <2>3, <3>4, QuietPassFlightInv
  <2>4. CASE Drop(d)
    BY <1>1, <1>4, <2>1, <2>2, <2>4, DropFlightInv
  <2>5. CASE HandOverPath(d)
    BY <1>1, <1>4, <2>1, <2>2, <2>5, HandOverPathFlightInv
  <2>6. CASE HandOverSlot(d)
    BY <1>1, <1>4, <2>1, <2>2, <2>6, HandOverSlotFlightInv
  <2>7. QED
    BY <1>4, <2>3, <2>4, <2>5, <2>6 DEF Visit
<1>5. QED
  BY <1>2, <1>3, <1>4 DEF GroundDecides

\* The reports of the last step are heard.
LEMMA GroundHearsInv ==
  ASSUME FlightInv, GroundHears
  PROVE  FlightInv'
<1>1. /\ turn = "events" /\ turn' = IF mission = NoMission THEN "drones" ELSE "ground"
      /\ UNCHANGED <<mission, paths, followers, retired, dropped, scanning, scan, acted, active,
                     order, used, pending, inbox, spoken, lost, software, vehicles, flown,
                     lowFor, missed>>
  BY DEF GroundHears, pass, radio, history
<1>2. \A d \in Drones :
         /\ battery'[d] = IF d \in lost THEN battery[d]
                          ELSE IF spoken[d].charge = "ok" THEN "ok" ELSE "low"
         /\ progress'[d] = IF d \in lost \/ ~Counts(d) THEN progress[d] ELSE Reported(d)
         /\ readings'[d] = IF d \in lost THEN readings[d] ELSE Seen(d)
  BY DEF GroundHears
<1>3. \A d \in Drones : spoken[d] \in Said
  BY DEF FlightInv, FlightTypes
<1>4. \A d \in Drones : /\ Reported(d) \in [index : 0 .. NumWaypoints, complete : BOOLEAN]
                        /\ Reported(d).index = spoken[d].index
                        /\ Reported(d).complete <=> spoken[d].complete
                        /\ Seen(d) \in Heard /\ Seen(d).mission = spoken[d].mission
                        /\ Seen(d).complete <=> spoken[d].complete
  <2>1. ASSUME NEW d \in Drones
        PROVE  /\ Reported(d) \in [index : 0 .. NumWaypoints, complete : BOOLEAN]
               /\ Reported(d).index = spoken[d].index
               /\ Reported(d).complete <=> spoken[d].complete
    BY <1>3 DEF Reported, Said
  <2>2. ASSUME NEW d \in Drones
        PROVE  /\ Seen(d).mission = spoken[d].mission
               /\ Seen(d).complete <=> spoken[d].complete
    BY DEF Seen
  <2>3. ASSUME NEW d \in Drones PROVE Seen(d) \in Heard
    <3>1. spoken[d] \in Said
      BY <1>3
    <3>2. /\ spoken[d].mission \in MissionIds \cup {DC!None}
          /\ spoken[d].complete \in BOOLEAN /\ (~spoken[d].armed) \in BOOLEAN
      BY <3>1 DEF Said
    <3>3. QED
      BY <3>2, Zenon DEF Seen, Heard
  <2>4. QED
    BY <2>1, <2>2, <2>3
<1>5. ~scanning
  BY <1>1 DEF FlightInv, Turns
<1>6. /\ battery' \in [Drones -> Batteries]
      /\ progress' \in [Drones -> [index : 0 .. NumWaypoints, complete : BOOLEAN]]
  <2>1. /\ battery \in [Drones -> Batteries]
        /\ progress \in [Drones -> [index : 0 .. NumWaypoints, complete : BOOLEAN]]
    BY DEF FlightInv, SupervisorInv, TypeOK
  <2>2. \A d \in Drones : battery'[d] \in Batteries
    BY <1>2, <2>1 DEF Batteries
  <2>3. \A d \in Drones : progress'[d] \in [index : 0 .. NumWaypoints, complete : BOOLEAN]
    BY <1>2, <1>4, <2>1
  <2>4. battery' = [d \in Drones |-> battery'[d]] /\ progress' = [d \in Drones |-> progress'[d]]
    BY DEF GroundHears
  <2>5. QED
    BY <2>2, <2>3, <2>4
<1>7. SupervisorInv'
  <2>1. TypeOK'
    BY <1>1, <1>6 DEF FlightInv, SupervisorInv, TypeOK
  <2>2. PlanSound'
    BY <1>1 DEF FlightInv, SupervisorInv, PlanSound, MissionDrones
  <2>3. OrdersMatchPlan'
    BY <1>1 DEF FlightInv, SupervisorInv, OrdersMatchPlan, MissionDrones, TaskOf
  <2>4. PassBookkeeping'
    BY <1>1 DEF FlightInv, SupervisorInv, PassBookkeeping, MissionDrones
  <2>5. PassLeavesNobodyBehind'
    BY <1>1, <1>5 DEF PassLeavesNobodyBehind
  <2>6. QED
    BY <2>1, <2>2, <2>3, <2>4, <2>5 DEF SupervisorInv
<1>8. FlightTypes'
  <2>1. \A d \in Drones : readings'[d] \in Heard
    <3>1. ASSUME NEW d \in Drones PROVE readings'[d] \in Heard
      <4>1. readings[d] \in Heard
        BY DEF FlightInv, FlightTypes
      <4>2. QED
        BY <1>2, <1>4, <4>1
    <3>2. QED
      BY <3>1
  <2>2. readings' = [d \in Drones |-> readings'[d]]
    BY DEF GroundHears
  <2>3. readings' \in [Drones -> Heard]
    BY <2>1, <2>2
  <2>4. turn' \in {"events", "ground", "drones"}
    BY <1>1
  <2>5. QED
    BY <1>1, <2>3, <2>4 DEF FlightInv, FlightTypes
<1>9. Turns' /\ SoftwareIsSane' /\ VehiclesObey'
  BY <1>1, <1>5 DEF FlightInv, Turns, SoftwareIsSane, VehiclesObey
<1>10. \A d \in Drones :
          /\ spoken[d].mission = software[d].ctl.mission
          /\ spoken[d].index = software[d].ctl.index
          /\ spoken[d].complete = software[d].ctl.complete
  BY DEF FlightInv, ReportsAgree
<1>11. NamesAreUsed'
  <2>1. \A d \in Drones : readings'[d].mission \in {readings[d].mission, software[d].ctl.mission}
    BY <1>2, <1>4, <1>10
  <2>2. QED
    BY <1>1, <2>1 DEF FlightInv, NamesAreUsed
<1>12. MessagesSuit' /\ SoftwareSuits'
  BY <1>1 DEF FlightInv, MessagesSuit, SoftwareSuits, OfMission, Present, Suits, Flies, Covered
<1>13. ASSUME NEW d \in Drones
       PROVE  \/ progress'[d] = progress[d] /\ (d \in lost \/ ~Counts(d))
              \/ /\ d \notin lost /\ Counts(d) /\ progress'[d] = Reported(d)
                 /\ Present(software[d].ctl.mission)
                 /\ Flies(d, software[d].ctl)
                 /\ progress'[d].index = software[d].ctl.index
                 /\ progress'[d].complete <=> software[d].ctl.complete
  <2>1. CASE d \in lost \/ ~Counts(d)
    BY <1>2, <2>1
  <2>2. CASE d \notin lost /\ Counts(d)
    <3>1. progress'[d] = Reported(d)
      BY <1>2, <2>2
    <3>2. Present(software[d].ctl.mission)
      BY <1>10, <2>2 DEF Counts, Present
    <3>3. Flies(d, software[d].ctl)
      BY <3>2 DEF FlightInv, SoftwareSuits
    <3>4. QED
      BY <1>4, <1>10, <2>2, <3>1, <3>2, <3>3
  <2>3. QED
    BY <2>1, <2>2
<1>14. ProgressIsCovered'
  <2>1. SUFFICES ASSUME mission # NoMission
                 PROVE  /\ \A d \in DOMAIN paths :
                              /\ flown[paths[d].lane] >= NumWaypoints - paths[d].left + progress'[d].index
                              /\ progress'[d].complete => flown[paths[d].lane] = NumWaypoints
                        /\ \A d \in Drones \ (MissionDrones \cup retired) : progress'[d] = NoProgress
    BY <1>1 DEF ProgressIsCovered, Covered, MissionDrones
  <2>2. ASSUME NEW d \in DOMAIN paths
        PROVE  /\ flown[paths[d].lane] >= NumWaypoints - paths[d].left + progress'[d].index
               /\ progress'[d].complete => flown[paths[d].lane] = NumWaypoints
    <3>1. d \in Drones /\ paths[d] \in Routes
      BY PartialFunction DEF FlightInv, SupervisorInv, TypeOK
    <3>2. CASE progress'[d] = progress[d]
      BY <2>1, <3>2 DEF FlightInv, ProgressIsCovered, Covered
    <3>3. CASE /\ Flies(d, software[d].ctl)
               /\ progress'[d].index = software[d].ctl.index
               /\ progress'[d].complete <=> software[d].ctl.complete
      <4>1. d \notin retired /\ d \notin DOMAIN followers
        BY DEF FlightInv, SupervisorInv, PlanSound, SoundPlan, MissionDrones
      <4>2. /\ software[d].ctl.task = "path" /\ software[d].ctl.route = RouteOf(paths[d])
            /\ flown[paths[d].lane] >= NumWaypoints - paths[d].left + software[d].ctl.index
        BY <3>3, <4>1 DEF Flies, Covered
      <4>3. Len(RouteOf(paths[d])) = paths[d].left /\ paths[d].left \in 0 .. NumWaypoints
        BY <3>1, RoutesToFly
      <4>4. software[d].ctl.complete => software[d].ctl.index = paths[d].left
        BY <3>1, <4>2, <4>3 DEF FlightInv, SoftwareIsSane, Sane
      <4>5. flown[paths[d].lane] \in 0 .. NumWaypoints
        BY <3>1 DEF FlightInv, FlightTypes, Routes
      <4>6. NumWaypoints \in Nat
        BY SupervisorAssumption DEF SupervisorAssumption
      <4>7. software[d].ctl.complete => flown[paths[d].lane] = NumWaypoints
        BY <4>2, <4>3, <4>4, <4>5, <4>6
      <4>8. QED
        BY <3>3, <4>2, <4>7
    <3>4. QED
      BY <1>13, <3>1, <3>2, <3>3
  <2>3. ASSUME NEW d \in Drones \ (MissionDrones \cup retired) PROVE progress'[d] = NoProgress
    <3>1. ~Flies(d, software[d].ctl)
      BY DEF Flies, MissionDrones
    <3>2. progress'[d] = progress[d]
      BY <1>13, <3>1
    <3>3. QED
      BY <2>1, <3>2 DEF FlightInv, ProgressIsCovered
  <2>4. QED
    BY <2>2, <2>3
<1>15. ReportsAgree'
  <2>1. ASSUME NEW d \in Drones, Present(readings'[d].mission), readings'[d].complete
        PROVE  progress'[d].complete
    <3>1. CASE d \in lost
      <4>1. readings'[d] = readings[d] /\ progress'[d] = progress[d]
        BY <1>2, <3>1
      <4>2. QED
        BY <2>1, <4>1 DEF FlightInv, ReportsAgree, Finished
    <3>2. CASE d \notin lost
      <4>1. readings'[d] = Seen(d)
        BY <1>2, <3>2
      <4>2. Counts(d) /\ spoken[d].complete
        BY <1>4, <2>1, <4>1 DEF Counts, Present
      <4>3. progress'[d] = Reported(d)
        BY <1>2, <3>2, <4>2
      <4>4. QED
        BY <1>4, <4>2, <4>3
    <3>3. QED
      BY <3>1, <3>2
  <2>2. \A d \in Drones : d \notin lost => readings'[d] = Seen(d)
    BY <1>2
  <2>3. \A d \in Drones : Seen(d)' = Seen(d)
    BY <1>1 DEF Seen
  <2>4. QED
    BY <1>1, <1>10, <2>1, <2>2, <2>3 DEF ReportsAgree, Present, Finished
<1>16. ActiveIsBehind'
  <2>1. active = [mission |-> mission, drones |-> MissionDrones]
    BY <1>5 DEF FlightInv, SupervisorInv, PassBookkeeping
  <2>2. mission = NoMission => MissionDrones = {}
    BY DEF FlightInv, SupervisorInv, PassBookkeeping
  <2>3. QED
    BY <1>1, <2>1, <2>2 DEF ActiveIsBehind, MissionDrones
<1>17. MissionsInOrder'
  <2>1. ASSUME NEW d \in Drones, mission # NoMission, progress'[d].complete
        PROVE  software[d].ctl.mission = mission
    <3>1. CASE progress'[d] = progress[d]
      BY <2>1, <3>1 DEF FlightInv, MissionsInOrder, Finished
    <3>2. CASE Present(software[d].ctl.mission)
      BY <3>2 DEF Present
    <3>3. QED
      BY <1>13, <3>1, <3>2
  <2>2. QED
    BY <1>1, <2>1 DEF FlightInv, MissionsInOrder, PresentLast, AllPresent, OfMission, Present, Finished
<1>18. LastOrders'
  BY <1>1 DEF FlightInv, LastOrders
<1>19. LowDronesAreTold'
  <2>1. ASSUME NEW d \in Drones, lowFor[d] >= 1
        PROVE  /\ turn' = "ground" => battery'[d] = "low" /\ ~progress'[d].complete
               /\ turn' = "drones" => ~IsTask(order[d]) \/ d \in dropped
    <3>1. d \notin lost /\ spoken[d].charge # "ok" /\ vehicles[d].armed
          /\ vehicles[d].mode = DC!OFFBOARD
      BY <2>1 DEF FlightInv, LowDronesAreTold
    <3>2. battery'[d] = "low"
      BY <1>2, <3>1
    <3>3. software[d].ctl.handover = DC!None
      BY <3>1 DEF FlightInv, VehiclesObey, ModeAsTold
    <3>4. ~software[d].ctl.complete
      BY <3>3 DEF FlightInv, SoftwareIsSane, Sane
    <3>5. mission # NoMission => ~progress'[d].complete
      <4>1. SUFFICES ASSUME mission # NoMission, progress'[d].complete PROVE FALSE
        OBVIOUS
      <4>2. progress'[d] = progress[d] /\ ~Counts(d)
        BY <1>13, <3>1, <3>4, <4>1
      <4>3. software[d].ctl.mission = mission
        BY <4>1, <4>2 DEF FlightInv, MissionsInOrder, Finished
      <4>4. QED
        BY <1>10, <4>1, <4>2, <4>3 DEF Counts
    <3>6. mission = NoMission => ~IsTask(order[d])
      BY DEF FlightInv, SupervisorInv, OrdersMatchPlan, PassBookkeeping
    <3>7. QED
      BY <1>1, <3>2, <3>5, <3>6
  <2>2. QED
    BY <1>1, <2>1 DEF FlightInv, LowDronesAreTold, OnItsWayHome, Low, Finished
<1>20. QED
  BY <1>7, <1>8, <1>9, <1>11, <1>12, <1>14, <1>15, <1>16, <1>17, <1>18, <1>19 DEF FlightInv

-----------------------------------------------------------------------------
(* The inductive invariant, step by step: the scenario's events. *)

\* A mission that nothing was said of yet takes the place of the present one, or none
\* does.
LEMMA NewMission ==
  ASSUME FlightInv, SupervisorInv', turn = "events",
         UNCHANGED <<scanning, turn, inbox, spoken, lost, readings, software, vehicles, lowFor,
                     missed>>,
         used \subseteq used', used' \subseteq MissionIds,
         mission' # NoMission => mission' \in used',
         \A id \in used \cup {DC!None} : mission' # NoMission => mission' # id,
         progress' = [d \in Drones |-> NoProgress],
         flown' \in [Drones -> 0 .. NumWaypoints],
         mission' # NoMission => \A d \in DOMAIN paths' : Covered(paths[d], 0)',
         active' = [mission |-> mission', drones |-> MissionDrones'],
         NEW D, Queue(D),
         \A d \in Drones \ D : order'[d] = order[d],
         \A d \in Drones : d \in D =>
            \E o \in Messages : order'[d] = o /\ (IsTask(o) => o.mission = mission' /\ Suits(d, o)'
                                                              /\ mission' # NoMission)
  PROVE  FlightInv'
<1>1. \A d \in Drones : IF d \in D THEN order'[d] \in Messages ELSE order'[d] = order[d]
  OBVIOUS
<1>2. /\ \A d \in Drones : Sent(d)
      /\ \A d \in Drones \ D : pending'[d] = pending[d] /\ order'[d] = order[d]
      /\ \A d \in Drones : d \in D => Told1(d, order'[d])
      /\ pending' = [d \in Drones |-> pending'[d]]
  BY <1>1, Queueing DEF FlightInv
<1>3. FlightTypes'
  BY <1>2, SendingKeepsTypes DEF FlightInv, FlightTypes
<1>4. LastOrders'
  BY <1>2, SendingKeepsLastOrders DEF FlightInv
<1>5. Turns'
  BY DEF FlightInv, Turns
<1>6. SoftwareIsSane' /\ VehiclesObey'
  BY DEF FlightInv, SoftwareIsSane, VehiclesObey
<1>7. ASSUME NEW d \in Drones, NEW o \in Range(pending'[d]), IsTask(o)
      PROVE  \/ o \in Range(pending[d])
             \/ o.mission = mission' /\ Suits(d, o)' /\ mission' # NoMission
  <2>1. CASE d \in D
    <3>1. PICK m \in Messages : order'[d] = m /\ (IsTask(m) => m.mission = mission' /\ Suits(d, m)'
                                                               /\ mission' # NoMission)
      BY <2>1
    <3>2. pending[d] \in Seq(Messages) /\ pending'[d] = Append(pending[d], m)
      BY <1>2, <2>1, <3>1 DEF FlightInv, FlightTypes, Told1
    <3>3. Range(pending'[d]) = Range(pending[d]) \cup {m}
      BY <3>2, Appending
    <3>4. QED
      BY <1>7, <3>1, <3>3
  <2>2. CASE d \notin D
    BY <1>2, <2>2
  <2>3. QED
    BY <2>1, <2>2
<1>8. \A d \in Drones : \A o \in Range(pending[d]) \cup Range(inbox[d]) : ~OfMission(o)'
  BY DEF FlightInv, NamesAreUsed, OfMission, Present
<1>9. \A d \in Drones : /\ ~Present(software[d].ctl.mission)'
                        /\ ~Present(readings[d].mission)'
  BY DEF FlightInv, NamesAreUsed, Present
<1>10. \A d \in Drones : progress'[d] = NoProgress /\ ~Finished(d)'
  BY DEF Finished, NoProgress
<1>11. NamesAreUsed'
  <2>1. ASSUME NEW d \in Drones, NEW o \in Range(pending'[d]) \cup Range(inbox[d]), IsTask(o)
        PROVE  o.mission \in used'
    <3>1. CASE o \in Range(pending[d]) \cup Range(inbox[d])
      BY <2>1, <3>1 DEF FlightInv, NamesAreUsed
    <3>2. CASE o \notin Range(pending[d]) \cup Range(inbox[d])
      BY <1>7, <2>1, <3>2
    <3>3. QED
      BY <3>1, <3>2
  <2>2. \A d \in Drones : /\ software[d].ctl.mission \in used' \cup {DC!None}
                          /\ readings[d].mission \in used' \cup {DC!None}
    BY DEF FlightInv, NamesAreUsed
  <2>3. QED
    BY <2>1, <2>2 DEF NamesAreUsed
<1>12. MessagesSuit'
  <2>1. ASSUME NEW d \in Drones, NEW o \in Range(pending'[d]) \cup Range(inbox[d]), OfMission(o)'
        PROVE  Suits(d, o)'
    <3>1. o \notin Range(pending[d]) \cup Range(inbox[d])
      BY <1>8, <2>1
    <3>2. IsTask(o)
      BY <2>1 DEF OfMission
    <3>3. QED
      BY <1>7, <2>1, <3>1, <3>2
  <2>2. QED
    BY <2>1 DEF MessagesSuit
<1>13. SoftwareSuits'
  BY <1>9 DEF SoftwareSuits
<1>14. ProgressIsCovered'
  <2>1. NoProgress.index = 0 /\ ~NoProgress.complete
    BY DEF NoProgress
  <2>2. mission' # NoMission => \A d \in DOMAIN paths' : d \in Drones
    BY PartialFunction DEF SupervisorInv, TypeOK
  <2>3. QED
    BY <1>10, <2>1, <2>2 DEF ProgressIsCovered, Covered
<1>15. ReportsAgree'
  <2>1. \A d \in Drones : /\ spoken[d].mission = software[d].ctl.mission
                          /\ spoken[d].index = software[d].ctl.index
                          /\ spoken[d].complete = software[d].ctl.complete
    BY DEF FlightInv, ReportsAgree
  <2>2. QED
    BY <1>9, <2>1 DEF ReportsAgree
<1>16. ActiveIsBehind'
  <2>1. mission' = NoMission => MissionDrones' = {}
    BY DEF SupervisorInv, PassBookkeeping
  <2>2. QED
    BY <2>1 DEF ActiveIsBehind
<1>17. MissionsInOrder'
  <2>1. ASSUME NEW d \in Drones PROVE PresentLast(pending[d])'
    <3>1. pending[d] \in Seq(Messages)
      BY DEF FlightInv, FlightTypes
    <3> DEFINE New(o) == IsTask(o) /\ mission' # NoMission /\ o.mission = mission'
    <3>2. ASSUME NEW i \in DOMAIN pending[d] PROVE ~New(pending[d][i])
      <4>1. pending[d][i] \in Range(pending[d])
        BY DEF Range
      <4>2. QED
        BY <1>8, <4>1 DEF OfMission, Present
    <3>3. CASE d \in D
      <4>1. PICK m \in Messages : order'[d] = m
        BY <3>3
      <4>2. pending'[d] = Append(pending[d], m)
        BY <1>2, <3>3, <4>1 DEF Told1
      <4> DEFINE s == pending[d]
                 q == pending'[d]
      <4>3. /\ DOMAIN q = 1 .. Len(s) + 1 /\ DOMAIN s = 1 .. Len(s) /\ Len(s) \in Nat
            /\ q[Len(s) + 1] = m /\ \A i \in 1 .. Len(s) : q[i] = s[i]
        BY <3>1, <4>2, Appending
      <4>4. ASSUME NEW i \in DOMAIN q, NEW j \in DOMAIN q, i < j PROVE ~New(q[i])
        <5>1. i \in DOMAIN s /\ q[i] = s[i]
          BY <4>3, <4>4
        <5>2. QED
          BY <3>2, <5>1
      <4>5. QED
        BY <4>4 DEF PresentLast, OfMission, Present
    <3>4. CASE d \notin D
      <4>1. pending'[d] = pending[d]
        BY <1>2, <3>4
      <4>2. QED
        BY <3>2, <4>1 DEF PresentLast, OfMission, Present
    <3>5. QED
      BY <3>3, <3>4
  <2>2. ASSUME NEW d \in Drones PROVE PresentLast(inbox[d])'
    <3>1. ASSUME NEW i \in DOMAIN inbox[d]
          PROVE  ~(IsTask(inbox[d][i]) /\ mission' # NoMission /\ inbox[d][i].mission = mission')
      <4>1. inbox[d][i] \in Range(inbox[d])
        BY DEF Range
      <4>2. QED
        BY <1>8, <4>1 DEF OfMission, Present
    <3>2. QED
      BY <3>1 DEF PresentLast, OfMission, Present
  <2>3. QED
    BY <1>8, <1>9, <1>10, <2>1, <2>2 DEF MissionsInOrder
<1>18. LowDronesAreTold'
  BY DEF FlightInv, LowDronesAreTold, OnItsWayHome
<1>19. QED
  BY <1>3, <1>4, <1>5, <1>6, <1>11, <1>12, <1>13, <1>14, <1>15, <1>16, <1>17, <1>18 DEF FlightInv

\* A mission starts with nothing flown of whole lanes.
LEMMA WholeLanes ==
  ASSUME NEW m \in Missions, NEW p \in FlyablePlans(m), NEW d \in DOMAIN p.paths
  PROVE  p.paths[d].left = NumWaypoints
<1>1. CASE p = PlanMission(m)
  BY <1>1 DEF PlanMission
<1>2. CASE p \in PlannerPlans /\ Usable(p, m)
  <2>1. p.paths[d].left > 0 /\ p.paths[d].left \in {0, NumWaypoints}
    BY <1>2, FlightAssumption DEF Usable, FlightAssumption
  <2>2. QED
    BY <2>1
<1>3. QED
  BY <1>1, <1>2 DEF FlyablePlans

LEMMA MissionStarts ==
  ASSUME FlightInv, turn = "events", NEW m \in Missions, m.id \notin used,
         used' = used \cup {m.id}, Start(m), Queue(MissionDrones \cup MissionDrones'),
         flown' = [lane \in Drones |-> 0],
         UNCHANGED <<turn, inbox, spoken, lost, readings, software, vehicles, lowFor, missed>>
  PROVE  FlightInv'
<1>1. SupervisorInv /\ SupervisorInv'
  BY StartInv DEF FlightInv
<1>2. m.id \in MissionIds /\ m.id # NoMission /\ m.id # DC!None
  BY SupervisorAssumption, FlightAssumption DEF SupervisorAssumption, FlightAssumption
<1>3. PICK p \in FlyablePlans(m) :
        /\ order' = With(order, StartMessages(m, p))
        /\ mission' = m.id /\ paths' = p.paths /\ followers' = p.followers
        /\ progress' = [d \in Drones |-> NoProgress]
        /\ active' = [mission |-> m.id, drones |-> DOMAIN p.paths \cup DOMAIN p.followers]
        /\ UNCHANGED scanning
  BY DEF Start, Tell, pass
<1> DEFINE D == MissionDrones \cup MissionDrones'
<1>4. MissionDrones' = DOMAIN p.paths \cup DOMAIN p.followers
  BY <1>3 DEF MissionDrones
<1>5. DOMAIN StartMessages(m, p) = D
  BY <1>4 DEF StartMessages
<1>6. DOMAIN order = Drones
  BY <1>1 DEF SupervisorInv, TypeOK
<1>7. /\ DOMAIN p.paths \subseteq Drones /\ p.paths \in [DOMAIN p.paths -> Routes]
      /\ DOMAIN p.followers \subseteq Drones /\ p.followers \in [DOMAIN p.followers -> Slots]
  BY <1>1, <1>3, PartialFunction DEF SupervisorInv, TypeOK
<1> HIDE DEF D
<1>8. \A d \in Drones \ D : order'[d] = order[d]
  BY <1>3, <1>5, <1>6 DEF With
<1>9. ASSUME NEW d \in Drones, d \in D
      PROVE  \E o \in Messages : order'[d] = o /\ (IsTask(o) => o.mission = mission' /\ Suits(d, o)'
                                                                /\ mission' # NoMission)
  <2>1. order'[d] = StartMessages(m, p)[d]
    BY <1>3, <1>5, <1>6, <1>9 DEF With
  <2>2. order'[d] = IF d \in DOMAIN p.paths THEN Assign(m.id, p.paths[d])
                    ELSE IF d \in DOMAIN p.followers THEN Slot(m.id, p.followers[d])
                    ELSE GoHome
    BY <1>4, <1>9, <2>1 DEF StartMessages, D
  <2>3. CASE d \in DOMAIN p.paths
    <3>1. order'[d] = Assign(m.id, p.paths[d])
      BY <2>2, <2>3
    <3>2. Assign(m.id, p.paths[d]) \in Messages
      BY <1>2, <1>7, <2>3 DEF Assign, Messages, Orders, NoOrder
    <3>3. /\ Assign(m.id, p.paths[d]).mission = m.id /\ Assign(m.id, p.paths[d]).kind = "assign"
          /\ Assign(m.id, p.paths[d]).route = p.paths[d]
      BY DEF Assign
    <3>4. QED
      BY <1>2, <1>3, <2>3, <3>1, <3>2, <3>3 DEF Suits
  <2>4. CASE d \notin DOMAIN p.paths /\ d \in DOMAIN p.followers
    <3>1. order'[d] = Slot(m.id, p.followers[d])
      BY <2>2, <2>4
    <3>2. Slot(m.id, p.followers[d]) \in Messages
      BY <1>2, <1>7, <2>4 DEF Slot, Messages, Orders, NoOrder
    <3>3. Slot(m.id, p.followers[d]).mission = m.id /\ Slot(m.id, p.followers[d]).kind = "slot"
      BY DEF Slot
    <3>4. QED
      BY <1>2, <1>3, <2>4, <3>1, <3>2, <3>3 DEF Suits
  <2>5. CASE d \notin DOMAIN p.paths /\ d \notin DOMAIN p.followers
    <3>1. order'[d] = GoHome
      BY <2>2, <2>5
    <3>2. GoHome \in Messages /\ ~IsTask(GoHome)
      BY DEF GoHome, Command, COMMANDS, Messages, Orders, NoOrder, IsTask
    <3>3. QED
      BY <3>1, <3>2
  <2>6. QED
    BY <2>3, <2>4, <2>5
<1>10. \A d \in DOMAIN paths' : Covered(paths[d], 0)'
  <2>1. SUFFICES ASSUME NEW d \in DOMAIN p.paths PROVE Covered(p.paths[d], 0)'
    BY <1>3 DEF Covered
  <2>2. p.paths[d].left = NumWaypoints /\ p.paths[d].lane \in Drones
    BY <1>7, WholeLanes DEF Routes
  <2>3. QED
    BY <2>2, SupervisorAssumption DEF Covered, SupervisorAssumption
<1>11. flown' \in [Drones -> 0 .. NumWaypoints]
  BY SupervisorAssumption DEF SupervisorAssumption
<1>12. \A id \in used \cup {DC!None} : mission' # NoMission => mission' # id
  BY <1>2, <1>3
<1>13. used \subseteq used' /\ used' \subseteq MissionIds /\ mission' \in used'
  BY <1>2, <1>3 DEF FlightInv, FlightTypes
<1>14. active' = [mission |-> mission', drones |-> MissionDrones']
  BY <1>3, <1>4
<1>15. Queue(D)
  BY DEF D
<1>16. QED
  BY <1>1, <1>3, <1>8, <1>9, <1>10, <1>11, <1>12, <1>13, <1>14, <1>15, NewMission

LEMMA CommandEnds ==
  ASSUME FlightInv, turn = "events", NEW c \in COMMANDS, SwarmCommand(c), Queue(Drones),
         UNCHANGED <<turn, used, inbox, spoken, lost, readings, software, vehicles, flown, lowFor,
                     missed>>
  PROVE  FlightInv'
<1>1. SupervisorInv /\ SupervisorInv'
  BY SwarmCommandInv DEF FlightInv
<1>2. /\ order' = With(order, [d \in Drones |-> Command(c)])
      /\ mission' = NoMission /\ paths' = Empty /\ followers' = Empty
      /\ progress' = [d \in Drones |-> NoProgress]
      /\ active' = [mission |-> NoMission, drones |-> {}]
      /\ UNCHANGED scanning
  BY DEF SwarmCommand, Tell, pass
<1>3. MissionDrones' = {}
  BY <1>2 DEF MissionDrones, Empty
<1>4. Command(c) \in Messages /\ ~IsTask(Command(c))
  BY DEF Command, Messages, Orders, NoOrder, IsTask
<1>5. ASSUME NEW d \in Drones PROVE order'[d] = Command(c)
  BY <1>2 DEF With
<1>6. \A d \in Drones : d \in Drones =>
         \E o \in Messages : order'[d] = o /\ (IsTask(o) => o.mission = mission' /\ Suits(d, o)'
                                                           /\ mission' # NoMission)
  BY <1>4, <1>5
<1>7. /\ used \subseteq used' /\ used' \subseteq MissionIds
      /\ flown' \in [Drones -> 0 .. NumWaypoints]
  BY DEF FlightInv, FlightTypes
<1>8. active' = [mission |-> mission', drones |-> MissionDrones']
  BY <1>2, <1>3
<1>9. \A d \in Drones \ Drones : order'[d] = order[d]
  OBVIOUS
<1>10. mission' = NoMission
  BY <1>2
<1>11. QED
  BY <1>1, <1>2, <1>6, <1>7, <1>8, <1>9, <1>10, NewMission

\* A mission that is rejected, a battery that reads otherwise and a link that is cut
\* change nothing that was said.
LEMMA QuietEvents ==
  ASSUME FlightInv, turn = "events", used \subseteq used', used' \subseteq MissionIds,
         vehicles' \in [Drones -> Vehicles],
         \A d \in Drones : /\ vehicles'[d].armed = vehicles[d].armed
                           /\ vehicles'[d].mode = vehicles[d].mode
                           /\ vehicles'[d].up = vehicles[d].up,
         UNCHANGED <<supervisorVars, pending, turn, inbox, spoken, lost, readings, software, flown,
                     lowFor, missed>>
  PROVE  FlightInv'
<1>1. UNCHANGED <<battery, mission, paths, followers, progress, retired, dropped, scanning, scan,
                  acted, active, order>>
  BY DEF supervisorVars, vars
<1>2. SupervisorInv'
  BY NextInv DEF FlightInv, supervisorVars
<1>3. FlightTypes' /\ Turns' /\ SoftwareIsSane'
  BY <1>1 DEF FlightInv, FlightTypes, Turns, SoftwareIsSane
<1>4. NamesAreUsed'
  BY <1>1 DEF FlightInv, NamesAreUsed
<1>5. MessagesSuit' /\ SoftwareSuits' /\ ProgressIsCovered'
  BY <1>1 DEF FlightInv, MessagesSuit, SoftwareSuits, ProgressIsCovered, OfMission, Present, Suits,
              Flies, Covered, MissionDrones
<1>6. ReportsAgree'
  BY <1>1 DEF FlightInv, ReportsAgree, Present, Finished, Seen
<1>7. ActiveIsBehind'
  BY <1>1 DEF FlightInv, ActiveIsBehind, MissionDrones, Finished
<1>8. MissionsInOrder' /\ LastOrders'
  BY <1>1 DEF FlightInv, MissionsInOrder, PresentLast, AllPresent, OfMission, Present, Finished,
              LastOrders
<1>9. VehiclesObey'
  BY <1>1 DEF FlightInv, VehiclesObey, ModeAsTold
<1>10. LowDronesAreTold'
  BY <1>1 DEF FlightInv, LowDronesAreTold, OnItsWayHome, Low, Finished
<1>11. QED
  BY <1>2, <1>3, <1>4, <1>5, <1>6, <1>7, <1>8, <1>9, <1>10 DEF FlightInv

LEMMA HappensInv ==
  ASSUME FlightInv, NEW e \in Happenings, Happens(e)
  PROVE  FlightInv'
<1>1. /\ turn = "events"
      /\ UNCHANGED <<turn, inbox, spoken, lost, readings, software, lowFor, missed>>
  BY DEF Happens
<1>2. e \in ScenarioEvents
  BY FlightAssumption DEF FlightAssumption
<1>3. vehicles \in [Drones -> Vehicles] /\ used \subseteq MissionIds
  BY DEF FlightInv, FlightTypes
<1>4. CASE SubmitMission(e)
  <2>1. e.mission \in Missions /\ e.mission.id \notin used /\ used' = used \cup {e.mission.id}
        /\ UNCHANGED vehicles
    BY <1>2, <1>4 DEF SubmitMission, ScenarioEvents
  <2>2. e.mission.id \in MissionIds
    BY <2>1, SupervisorAssumption DEF SupervisorAssumption
  <2>3. CASE /\ Start(e.mission) /\ Queue(MissionDrones \cup MissionDrones')
             /\ flown' = [lane \in Drones |-> 0]
    BY <1>1, <2>1, <2>3, MissionStarts
  <2>4. CASE UNCHANGED <<supervisorVars, pending, flown>>
    BY <1>1, <1>3, <2>1, <2>2, <2>4, QuietEvents
  <2>5. QED
    BY <1>4, <2>3, <2>4 DEF SubmitMission
<1>5. CASE SubmitCommand(e)
  <2>1. e.command \in COMMANDS /\ SwarmCommand(e.command) /\ Queue(Drones)
        /\ UNCHANGED <<used, flown, vehicles>>
    BY <1>2, <1>5 DEF SubmitCommand, ScenarioEvents
  <2>2. QED
    BY <1>1, <2>1, CommandEnds
<1>6. CASE BatteryReads(e)
  <2>1. e.drone \in Drones /\ e.charge \in Charges
    BY <1>2, <1>6 DEF BatteryReads, ScenarioEvents
  <2>2. /\ vehicles' = [vehicles EXCEPT ![e.drone].charge = e.charge]
        /\ UNCHANGED <<supervisorVars, used, pending, flown>>
    BY <1>6 DEF BatteryReads
  <2>3. ASSUME NEW v \in Vehicles, NEW charge \in Charges
        PROVE  LET w == [v EXCEPT !.charge = charge]
               IN  w \in Vehicles /\ w.armed = v.armed /\ w.mode = v.mode /\ w.up = v.up
    BY DEF Vehicles
  <2>4. ASSUME NEW d \in Drones
        PROVE  /\ vehicles'[d] \in Vehicles /\ vehicles'[d].armed = vehicles[d].armed
               /\ vehicles'[d].mode = vehicles[d].mode /\ vehicles'[d].up = vehicles[d].up
    <3>1. vehicles[d] \in Vehicles
      BY <1>3
    <3>2. vehicles'[d] = IF d = e.drone THEN [vehicles[d] EXCEPT !.charge = e.charge]
                         ELSE vehicles[d]
      BY <1>3, <2>2
    <3>3. QED
      BY <2>1, <2>3, <3>1, <3>2
  <2>5. vehicles' \in [Drones -> Vehicles]
    BY <1>3, <2>2, <2>4
  <2>6. QED
    BY <1>1, <1>3, <2>2, <2>4, <2>5, QuietEvents
<1>7. CASE CommsLost(e)
  BY <1>1, <1>3, <1>7, QuietEvents DEF CommsLost
<1>8. QED
  BY <1>4, <1>5, <1>6, <1>7 DEF Happens

-----------------------------------------------------------------------------
(* The inductive invariant, step by step: the drones' turn. *)

\* What the drones' turn makes of every part of the state.
LEMMA TurnOver ==
  ASSUME DronesFly
  PROVE  /\ turn = "drones" /\ turn' = "events"
         /\ UNCHANGED <<supervisorVars, used, readings>>
         /\ software' = [d \in Drones |-> Software(d)]
         /\ vehicles' = [d \in Drones |-> Vehicle(d)]
         /\ spoken' = [d \in Drones |->
                          [up |-> vehicles[d].up, armed |-> vehicles[d].armed,
                           charge |-> vehicles[d].charge, mission |-> Tick(d).ctl.mission,
                           index |-> Tick(d).ctl.index, complete |-> Tick(d).ctl.complete]]
         /\ inbox' = [d \in Drones |-> IF d \in CutOff THEN <<>> ELSE pending[d]]
         /\ pending' = [d \in Drones |-> <<>>]
         /\ lost' = CutOff
         /\ Remember
<1> DEFINE R == [d \in Drones |-> Receive(d)]
           T(r) == [d \in Drones |-> Ticked(vehicles[d], r[d])]
           O(r, t) == [d \in Drones |-> Actuate(vehicles[d], r[d], t[d].out)]
           Says(t) == [d \in Drones |->
                          [up |-> vehicles[d].up, armed |-> vehicles[d].armed,
                           charge |-> vehicles[d].charge, mission |-> t[d].ctl.mission,
                           index |-> t[d].ctl.index, complete |-> t[d].ctl.complete]]
<1>1. /\ software' = [d \in Drones |-> [R[d] EXCEPT !.ctl = T(R)[d].ctl]]
      /\ vehicles' = [d \in Drones |-> VehicleStep(d, O(R, T(R))[d])]
      /\ spoken' = Says(T(R))
  BY DEF DronesFly
<1>2. \A d \in Drones : R[d] = Receive(d) /\ T(R)[d] = Tick(d)
                        /\ O(R, T(R))[d] = Actuate(vehicles[d], Receive(d), Tick(d).out)
  BY DEF Tick
<1>3. software' = [d \in Drones |-> Software(d)]
  <2> HIDE DEF R, T
  <2>1. QED
    BY <1>1, <1>2 DEF Software
<1>4. vehicles' = [d \in Drones |-> Vehicle(d)]
  <2> HIDE DEF R, T, O
  <2>1. QED
    BY <1>1, <1>2 DEF Vehicle
<1>5. spoken' = [d \in Drones |->
                    [up |-> vehicles[d].up, armed |-> vehicles[d].armed,
                     charge |-> vehicles[d].charge, mission |-> Tick(d).ctl.mission,
                     index |-> Tick(d).ctl.index, complete |-> Tick(d).ctl.complete]]
  <2> HIDE DEF R, T
  <2>1. QED
    BY <1>1, <1>2
<1>6. QED
  BY <1>3, <1>4, <1>5 DEF DronesFly

\* One turn of a drone: the controller b after the controller a, with what came.
Counted(c, from, place) ==
    \/ c.index = from
    \/ /\ c.task = "path" /\ from < Len(c.route)
       /\ c.route[from + 1] = place /\ c.index = from + 1
GivenTask(o, c) ==
    /\ c.mission = o.mission
    /\ o.kind = "assign" => c.task = "path" /\ c.route = RouteOf(o.route)
    /\ o.kind = "slot" => c.task = "slot"
Turned(a, orders, b, place) ==
    /\ b \in DC!Controllers /\ Sane(b)
    /\ orders = <<>> => b.task = a.task /\ (a.handover # DC!None => b.handover # DC!None)
    /\ orders # <<>> => IsTask(orders[Len(orders)]) \/ b.handover # DC!None
    /\ \/ SameTask(a, b) /\ Counted(b, a.index, place)
       \/ \E k \in DOMAIN orders :
             IsTask(orders[k]) /\ GivenTask(orders[k], b) /\ Counted(b, 0, place)

LEMMA Turning ==
  ASSUME FlightTypes, SoftwareIsSane, VehiclesObey, NEW d \in Drones
  PROVE  Turned(software[d].ctl, inbox[d], Tick(d).ctl, vehicles[d].place)
<1> DEFINE a == software[d].ctl
           orders == inbox[d]
           r == Receive(d)
           t == Tick(d)
           place == vehicles[d].place
<1>1. Received(software[d], orders, r)
  BY Receiving
<1>2. TickIs(r.ctl, t, place, Armed(d), vehicles[d].mode)
  BY TickFlown
<1> SUFFICES Turned(a, orders, t.ctl, place)
  OBVIOUS
<1>3. /\ r.ctl \in DC!Controllers /\ Sane(r.ctl)
      /\ orders = <<>> => SameState(a, r.ctl)
      /\ orders # <<>> => IsTask(orders[Len(orders)]) \/ r.ctl.handover # DC!None
      /\ \/ SameTask(a, r.ctl) /\ r.ctl.index = a.index
         \/ \E k \in DOMAIN orders : IsTask(orders[k]) /\ Given(orders[k], r.ctl)
  BY <1>1 DEF Received, Softwares
<1> HIDE DEF a, orders, r, t, place
<1> DEFINE c == r.ctl
           b == t.ctl
<1>4. /\ SameTask(c, b) /\ Sane(b) /\ Counted(b, c.index, place)
      /\ c.handover # DC!None => b.handover # DC!None
  BY <1>2 DEF TickIs, SameTask, SameState, Counted
<1> HIDE DEF c, b
<1>5. b \in DC!Controllers
  BY <1>4 DEF SameTask
<1>6. orders = <<>> => b.task = a.task /\ (a.handover # DC!None => b.handover # DC!None)
  BY <1>3, <1>4 DEF SameState, SameTask, c
<1>7. orders # <<>> => IsTask(orders[Len(orders)]) \/ b.handover # DC!None
  BY <1>3, <1>4 DEF c
<1>8. CASE SameTask(a, c) /\ c.index = a.index
  <2>1. SameTask(a, b) /\ Counted(b, a.index, place)
    BY <1>4, <1>8 DEF SameTask
  <2>2. QED
    BY <1>4, <1>5, <1>6, <1>7, <2>1 DEF Turned, b
<1>9. CASE \E k \in DOMAIN orders : IsTask(orders[k]) /\ Given(orders[k], c)
  <2>1. PICK k \in DOMAIN orders : IsTask(orders[k]) /\ Given(orders[k], c)
    BY <1>9
  <2>2. GivenTask(orders[k], b) /\ Counted(b, 0, place)
    BY <1>4, <2>1 DEF Given, GivenTask, SameTask
  <2>3. QED
    BY <1>4, <1>5, <1>6, <1>7, <2>1, <2>2 DEF Turned, b
<1>10. QED
  BY <1>3, <1>8, <1>9 DEF c

\* A lane is flown no less in the drones' turn.
LEMMA FlownOn ==
  ASSUME FlightTypes, Remember
  PROVE  /\ flown' \in [Drones -> 0 .. NumWaypoints]
         /\ \A lane \in Drones : flown'[lane] >= flown[lane]
         /\ \A lane \in Drones : FlownFurther(lane) => flown'[lane] = flown[lane] + 1
<1>1. flown' = [lane \in Drones |-> IF FlownFurther(lane) THEN flown[lane] + 1 ELSE flown[lane]]
  BY DEF Remember
<1>2. NumWaypoints \in Nat
  BY SupervisorAssumption DEF SupervisorAssumption
<1>3. ASSUME NEW lane \in Drones
      PROVE  /\ flown'[lane] \in 0 .. NumWaypoints /\ flown'[lane] >= flown[lane]
             /\ FlownFurther(lane) => flown'[lane] = flown[lane] + 1
  <2>1. flown[lane] \in 0 .. NumWaypoints
    BY DEF FlightTypes
  <2>2. FlownFurther(lane) => flown[lane] < NumWaypoints
    BY DEF FlownFurther
  <2>3. flown'[lane] = IF FlownFurther(lane) THEN flown[lane] + 1 ELSE flown[lane]
    BY <1>1
  <2> HIDE DEF FlownFurther
  <2>4. QED
    BY <1>2, <2>1, <2>2, <2>3
<1>4. QED
  BY <1>1, <1>3

\* A drone that counts a waypoint of its route flies its lane further.
LEMMA CountingIsFlying ==
  ASSUME FlightInv, DronesFly, NEW d \in DOMAIN paths, mission # NoMission,
         NEW b, b.mission = mission, software'[d].ctl = b, b.route = RouteOf(paths[d]),
         NEW from \in Nat, Covered(paths[d], from), Counted(b, from, vehicles[d].place)
  PROVE  flown'[paths[d].lane] >= NumWaypoints - paths[d].left + b.index
<1> DEFINE lane == paths[d].lane
           left == paths[d].left
           N == NumWaypoints
<1>1. d \in Drones /\ paths[d] \in Routes
  BY PartialFunction DEF FlightInv, SupervisorInv, TypeOK
<1>2. lane \in Drones /\ left \in 0 .. N /\ N \in Nat
  BY <1>1, SupervisorAssumption DEF Routes, SupervisorAssumption
<1>3. Remember /\ FlightTypes
  BY TurnOver DEF FlightInv
<1>4. /\ flown[lane] \in 0 .. N /\ flown'[lane] \in 0 .. N /\ flown'[lane] >= flown[lane]
      /\ FlownFurther(lane) => flown'[lane] = flown[lane] + 1
  BY <1>2, <1>3, FlownOn DEF FlightTypes
<1>5. flown[lane] >= N - left + from
  BY DEF Covered
<1>6. CASE b.index = from
  BY <1>2, <1>4, <1>5, <1>6
<1>7. CASE /\ from < Len(b.route) /\ b.route[from + 1] = vehicles[d].place
           /\ b.index = from + 1
  <2>1. Len(b.route) = left /\ \A i \in 1 .. left : b.route[i] = Place[lane][N - left + i]
    BY <1>1, RoutesToFly
  <2>2. from < left /\ vehicles[d].place = Place[lane][N - left + (from + 1)]
    BY <1>2, <1>7, <2>1
  <2>3. CASE flown[lane] > N - left + from
    BY <1>2, <1>4, <1>7, <2>3
  <2>4. CASE flown[lane] = N - left + from
    <3>1. N - left + (from + 1) = flown[lane] + 1 /\ flown[lane] < N
      BY <1>2, <2>2, <2>4
    <3>2. FlownFurther(lane)
      <4>1. software'[d].ctl.mission = mission
        OBVIOUS
      <4>2. vehicles[d].place = Place[lane][flown[lane] + 1]
        BY <2>2, <3>1
      <4> HIDE DEF lane, left
      <4>3. QED
        BY <1>1, <3>1, <4>1, <4>2 DEF FlownFurther
    <3>3. QED
      BY <1>2, <1>4, <1>7, <2>4, <3>2
  <2>5. QED
    BY <1>2, <1>4, <1>5, <2>3, <2>4
<1>8. QED
  BY <1>6, <1>7 DEF Counted

\* What a drone flies after its turn is still what the plan has for it.
LEMMA FlyingOn ==
  ASSUME FlightInv, DronesFly, NEW d \in Drones, Present(Tick(d).ctl.mission), d \notin retired
  PROVE  LET b == Tick(d).ctl
         IN  \/ /\ b.task = "path" /\ d \in DOMAIN paths /\ b.route = RouteOf(paths[d])
                /\ flown'[paths[d].lane] >= NumWaypoints - paths[d].left + b.index
             \/ b.task = "slot" /\ d \in DOMAIN followers
<1> DEFINE a == software[d].ctl
           b == Tick(d).ctl
           orders == inbox[d]
           place == vehicles[d].place
<1>1. Turned(a, orders, b, place)
  BY Turning DEF FlightInv
<1>2. software'[d].ctl = b
  BY TurnOver, TickFlown DEF FlightInv
<1>3. mission # NoMission /\ b.mission = mission
  BY DEF Present
<1>4. a.index \in Nat
  BY DEF FlightInv, FlightTypes, Softwares, DC!Controllers
<1>5. CASE SameTask(a, b) /\ Counted(b, a.index, place)
  <2>1. Present(a.mission) /\ b.task = a.task /\ b.route = a.route
    BY <1>5 DEF SameTask
  <2>2. Flies(d, a)
    BY <2>1 DEF FlightInv, SoftwareSuits
  <2>3. CASE a.task = "slot" /\ d \in DOMAIN followers
    BY <2>1, <2>3
  <2>4. CASE /\ a.task = "path" /\ d \in DOMAIN paths
             /\ a.route = RouteOf(paths[d]) /\ Covered(paths[d], a.index)
    <3>1. flown'[paths[d].lane] >= NumWaypoints - paths[d].left + b.index
      <4>1. b.route = RouteOf(paths[d])
        BY <2>1, <2>4
      <4> HIDE DEF a, b, place
      <4>2. QED
        BY <1>2, <1>3, <1>4, <1>5, <2>4, <4>1, CountingIsFlying DEF place
    <3>2. QED
      BY <2>1, <2>4, <3>1
  <2>5. QED
    BY <2>2, <2>3, <2>4 DEF Flies
<1>6. CASE \E k \in DOMAIN orders :
              IsTask(orders[k]) /\ GivenTask(orders[k], b) /\ Counted(b, 0, place)
  <2>1. PICK k \in DOMAIN orders :
              IsTask(orders[k]) /\ GivenTask(orders[k], b) /\ Counted(b, 0, place)
    BY <1>6
  <2> DEFINE o == orders[k]
  <2>2. OfMission(o) /\ o \in Range(inbox[d])
    BY <1>3, <2>1 DEF OfMission, Present, GivenTask, Range
  <2>3. Suits(d, o)
    BY <2>2 DEF FlightInv, MessagesSuit
  <2>4. CASE o.kind = "slot" /\ d \in DOMAIN followers
    BY <2>1, <2>4 DEF GivenTask
  <2>5. CASE o.kind = "assign" /\ d \in DOMAIN paths /\ o.route = paths[d]
    <3>1. b.task = "path" /\ b.route = RouteOf(paths[d])
      BY <2>1, <2>5 DEF GivenTask
    <3>2. Covered(paths[d], 0)
      <4>1. paths[d] \in Routes /\ Covered(paths[d], progress[d].index)
            /\ progress[d].index \in 0 .. NumWaypoints
        BY <1>3, <2>5, PartialFunction DEF FlightInv, SupervisorInv, TypeOK, ProgressIsCovered
      <4>2. /\ paths[d].left \in 0 .. NumWaypoints /\ paths[d].lane \in Drones
            /\ NumWaypoints \in Nat
        BY <4>1, SupervisorAssumption DEF Routes, SupervisorAssumption
      <4>3. flown[paths[d].lane] \in 0 .. NumWaypoints
        BY <4>2 DEF FlightInv, FlightTypes
      <4>4. QED
        BY <4>1, <4>2, <4>3 DEF Covered
    <3>3. flown'[paths[d].lane] >= NumWaypoints - paths[d].left + b.index
      <4> HIDE DEF b, place, o
      <4>1. 0 \in Nat
        OBVIOUS
      <4>2. QED
        BY <1>2, <1>3, <2>1, <2>5, <3>1, <3>2, <4>1, CountingIsFlying DEF place
    <3>4. QED
      BY <2>5, <3>1, <3>3
  <2>6. QED
    BY <2>3, <2>4, <2>5 DEF Suits
<1>7. QED
  BY <1>1, <1>5, <1>6 DEF Turned

\* A drone with a battery that is low for one step more was told to go home.
LEMMA LowForAnotherStep ==
  ASSUME FlightInv, DronesFly, NEW d \in Drones, lowFor'[d] >= 1
  PROVE  /\ lowFor'[d] \in 1 .. 2
         /\ d \notin lost' /\ d \notin missed'
         /\ spoken'[d].charge # "ok"
         /\ vehicles'[d].armed /\ vehicles'[d].mode = DC!OFFBOARD
         /\ lowFor'[d] = 2 => inbox'[d] # <<>> /\ inbox'[d][Len(inbox'[d])].kind = "command"
<1> DEFINE a == software[d].ctl
           b == Tick(d).ctl
           orders == inbox[d]
<1>1. Turned(a, orders, b, vehicles[d].place)
  BY Turning DEF FlightInv
<1>2. /\ vehicles'[d] = Vehicle(d) /\ spoken'[d].charge = vehicles[d].charge /\ lost' = CutOff
      /\ inbox'[d] = IF d \in CutOff THEN <<>> ELSE pending[d]
      /\ turn = "drones" /\ Remember /\ UNCHANGED <<order, dropped>>
  BY TurnOver DEF supervisorVars, vars
<1>3. Vehicle(d).charge = vehicles[d].charge /\ ModeAsTold(Vehicle(d), b)
  BY TickFlown DEF FlightInv
<1> HIDE DEF a, b, orders
<1>4. lowFor[d] \in 0 .. 3 /\ (lowFor[d] >= 1 => lowFor[d] <= 2)
  BY DEF FlightInv, FlightTypes, LowDronesAreTold
<1>5. /\ lowFor'[d] = IF ~OnLowTask(vehicles'[d]) \/ d \in CutOff \/ Astray(d) THEN 0
                      ELSE IF lowFor[d] > 2 THEN lowFor[d] ELSE lowFor[d] + 1
      /\ missed' = {e \in Drones : IF pending[e] = <<>> THEN e \in missed ELSE e \in CutOff}
  BY <1>2 DEF Remember
<1>6. OnLowTask(Vehicle(d)) /\ d \notin CutOff /\ ~Astray(d) /\ lowFor'[d] = lowFor[d] + 1
  BY <1>2, <1>4, <1>5
<1>7. /\ Vehicle(d).armed /\ Vehicle(d).mode = DC!OFFBOARD /\ vehicles[d].charge # "ok"
      /\ d \notin missed' /\ (d \in dropped => ~IsTask(order[d]))
  BY <1>3, <1>6 DEF OnLowTask, Astray
<1>8. b.handover = DC!None /\ b.task # DC!None
  BY <1>3, <1>7 DEF ModeAsTold
<1>9. orders # <<>> => IsTask(orders[Len(orders)])
  BY <1>1, <1>8 DEF Turned
<1>10. lowFor[d] # 2
  BY <1>9 DEF FlightInv, LowDronesAreTold, OnItsWayHome, IsTask, orders
<1>11. lowFor'[d] \in 1 .. 2
  BY <1>4, <1>6, <1>10
<1>12. ASSUME lowFor'[d] = 2
       PROVE  inbox'[d] # <<>> /\ inbox'[d][Len(inbox'[d])].kind = "command"
  <2>1. lowFor[d] >= 1
    BY <1>4, <1>6, <1>12
  <2>2. ~IsTask(order[d])
    BY <1>2, <1>7, <2>1 DEF FlightInv, LowDronesAreTold
  <2>3. order[d] \in Orders
    BY DEF FlightInv, SupervisorInv, TypeOK
  <2>4. order[d].kind \in {"none", "command"}
    BY <2>2, <2>3 DEF Orders, NoOrder, Command, Assign, Slot, IsTask
  <2>5. pending[d] # <<>>
    <3>1. SUFFICES ASSUME pending[d] = <<>> PROVE FALSE
      OBVIOUS
    <3>2. d \notin missed
      BY <1>5, <1>7, <3>1
    <3>3. IF orders # <<>> THEN LastIs(orders, order[d]) ELSE CarriedOut(order[d], a)
      BY <3>1, <3>2 DEF FlightInv, LastOrders, orders, a
    <3>4. CASE orders # <<>>
      BY <1>9, <2>2, <3>3, <3>4 DEF LastIs
    <3>5. CASE orders = <<>>
      BY <1>1, <1>8, <2>4, <3>3, <3>5 DEF CarriedOut, Turned
    <3>6. QED
      BY <3>4, <3>5
  <2>6. LastIs(pending[d], order[d])
    BY <2>5 DEF FlightInv, LastOrders
  <2>7. inbox'[d] = pending[d]
    BY <1>2, <1>6
  <2>8. pending[d][Len(pending[d])] \in Messages
    <3>1. pending[d] \in Seq(Messages)
      BY DEF FlightInv, FlightTypes
    <3>2. QED
      BY <2>5, <3>1
  <2>9. order[d].kind = "command"
    BY <2>2, <2>3, <2>6, <2>8 DEF LastIs, Messages, Orders, NoOrder, Command, Assign, Slot, IsTask
  <2>10. QED
    BY <2>5, <2>6, <2>7, <2>9 DEF LastIs
<1>13. QED
  BY <1>2, <1>6, <1>7, <1>11, <1>12

LEMMA DronesFlyInv ==
  ASSUME FlightInv, DronesFly
  PROVE  FlightInv'
<1>1. /\ turn = "drones" /\ turn' = "events"
      /\ UNCHANGED <<supervisorVars, used, readings>>
      /\ lost' = CutOff /\ Remember
      /\ software' = [d \in Drones |-> Software(d)]
      /\ vehicles' = [d \in Drones |-> Vehicle(d)]
      /\ inbox' = [d \in Drones |-> IF d \in CutOff THEN <<>> ELSE pending[d]]
      /\ pending' = [d \in Drones |-> <<>>]
  BY TurnOver
<1>2. UNCHANGED <<battery, mission, paths, followers, progress, retired, dropped, scanning, scan,
                  acted, active, order>>
  BY <1>1 DEF supervisorVars, vars
<1>3. SupervisorInv'
  BY <1>1, NextInv DEF FlightInv, supervisorVars
<1>4. ASSUME NEW d \in Drones
      PROVE  /\ Software(d) \in Softwares /\ software'[d] \in Softwares
             /\ software'[d].ctl = Tick(d).ctl
             /\ Vehicle(d) \in Vehicles /\ vehicles'[d] = Vehicle(d)
             /\ ModeAsTold(Vehicle(d), Tick(d).ctl)
             /\ Tick(d).ctl.complete /\ ~vehicles[d].armed => ~Vehicle(d).armed
             /\ Turned(software[d].ctl, inbox[d], Tick(d).ctl, vehicles[d].place)
             /\ pending'[d] = <<>> /\ inbox'[d] \in {<<>>, pending[d]}
  BY <1>1, TickFlown, Turning DEF FlightInv
<1>5. ASSUME NEW d \in Drones
      PROVE  /\ spoken'[d].mission = Tick(d).ctl.mission
             /\ spoken'[d].index = Tick(d).ctl.index
             /\ spoken'[d].complete = Tick(d).ctl.complete
             /\ spoken'[d].armed = vehicles[d].armed
             /\ spoken'[d].charge = vehicles[d].charge
  BY TurnOver
<1>6. /\ flown' \in [Drones -> 0 .. NumWaypoints]
      /\ \A lane \in Drones : flown'[lane] >= flown[lane]
  BY <1>1, FlownOn DEF FlightInv
<1>7. Range(<<>>) = {} /\ <<>> \in Seq(Messages)
  BY DEF Range
<1>8. FlightTypes'
  <2>1. pending' \in [Drones -> Seq(Messages)] /\ inbox' \in [Drones -> Seq(Messages)]
    BY <1>1, <1>7 DEF FlightInv, FlightTypes
  <2>2. software' \in [Drones -> Softwares] /\ vehicles' \in [Drones -> Vehicles]
    BY <1>1, <1>4
  <2>3. spoken' \in [Drones -> Said]
    <3>1. ASSUME NEW d \in Drones
          PROVE  [up |-> vehicles[d].up, armed |-> vehicles[d].armed,
                  charge |-> vehicles[d].charge, mission |-> Tick(d).ctl.mission,
                  index |-> Tick(d).ctl.index, complete |-> Tick(d).ctl.complete] \in Said
      <4>1. Tick(d).ctl \in DC!Controllers /\ Sane(Tick(d).ctl) /\ vehicles[d] \in Vehicles
        BY <1>4 DEF Turned, FlightInv, FlightTypes
      <4> DEFINE c == Tick(d).ctl
                 v == vehicles[d]
      <4> HIDE DEF c, v
      <4>2. /\ v.up \in BOOLEAN /\ v.armed \in BOOLEAN /\ v.charge \in Charges
            /\ c.mission \in MissionIds \cup {DC!None} /\ c.complete \in BOOLEAN
        BY <4>1 DEF Vehicles, DC!Controllers, c, v
      <4>3. c.index \in 0 .. NumWaypoints
        <5>1. c.index \in Nat /\ Len(c.route) \in Nat
          BY <4>1 DEF DC!Controllers, c
        <5>2. c.index <= Len(c.route) /\ Len(c.route) <= NumWaypoints
          BY <4>1 DEF Sane, c
        <5>3. QED
          BY <5>1, <5>2, SupervisorAssumption DEF SupervisorAssumption
      <4>4. [up |-> v.up, armed |-> v.armed, charge |-> v.charge, mission |-> c.mission,
             index |-> c.index, complete |-> c.complete] \in Said
        BY <4>2, <4>3, Zenon DEF Said
      <4>5. QED
        BY <4>4 DEF c, v
    <3>2. QED
      BY <3>1, TurnOver
  <2>4. lowFor' \in [Drones -> 0 .. 3]
    <3>1. ASSUME NEW d \in Drones
          PROVE  (IF ~OnLowTask(vehicles'[d]) \/ d \in CutOff \/ Astray(d) THEN 0
                  ELSE IF lowFor[d] > 2 THEN lowFor[d] ELSE lowFor[d] + 1) \in 0 .. 3
      <4>1. lowFor[d] \in 0 .. 3
        BY DEF FlightInv, FlightTypes
      <4>2. QED
        BY <4>1
    <3>2. QED
      BY <1>1, <3>1 DEF Remember
  <2>5. lost' \subseteq Drones /\ missed' \subseteq Drones
    BY <1>1 DEF Remember, CutOff
  <2>6. used' \subseteq MissionIds /\ readings' \in [Drones -> Heard]
    BY <1>1 DEF FlightInv, FlightTypes
  <2>7. QED
    BY <1>1, <1>6, <2>1, <2>2, <2>3, <2>4, <2>5, <2>6 DEF FlightTypes
<1>9. Turns'
  BY <1>1, <1>2 DEF FlightInv, Turns
<1>10. SoftwareIsSane'
  BY <1>4 DEF SoftwareIsSane, Turned
<1>11. ASSUME NEW d \in Drones
       PROVE  \/ Tick(d).ctl.mission = software[d].ctl.mission
              \/ \E o \in Range(inbox[d]) : IsTask(o) /\ Tick(d).ctl.mission = o.mission
  BY <1>4 DEF Turned, SameTask, GivenTask, Range
<1>12. ASSUME NEW d \in Drones
       PROVE  Range(inbox'[d]) \subseteq Range(pending[d]) /\ Range(pending'[d]) = {}
  BY <1>4, <1>7
<1>13. NamesAreUsed'
  <2>1. \A d \in Drones : software'[d].ctl.mission \in used \cup {DC!None}
    BY <1>4, <1>11 DEF FlightInv, NamesAreUsed
  <2>2. QED
    BY <1>1, <1>2, <1>12, <2>1 DEF FlightInv, NamesAreUsed
<1>14. MessagesSuit'
  BY <1>2, <1>12 DEF FlightInv, MessagesSuit, OfMission, Present, Suits
<1>15. SoftwareSuits'
  <2>1. ASSUME NEW d \in Drones, Present(Tick(d).ctl.mission), d \notin retired
        PROVE  \/ /\ Tick(d).ctl.task = "path" /\ d \in DOMAIN paths
                  /\ Tick(d).ctl.route = RouteOf(paths[d])
                  /\ flown'[paths[d].lane] >= NumWaypoints - paths[d].left + Tick(d).ctl.index
               \/ Tick(d).ctl.task = "slot" /\ d \in DOMAIN followers
    BY <2>1, FlyingOn
  <2>2. \A r : RouteOf(r)' = RouteOf(r')
    BY DEF RouteOf
  <2>3. QED
    BY <1>2, <1>4, <2>1, <2>2 DEF SoftwareSuits, Flies, Covered, Present, RouteOf
<1>16. ProgressIsCovered'
  <2>1. SUFFICES ASSUME mission # NoMission
                 PROVE  \A d \in DOMAIN paths :
                           /\ flown'[paths[d].lane] >= NumWaypoints - paths[d].left + progress[d].index
                           /\ progress[d].complete => flown'[paths[d].lane] = NumWaypoints
    BY <1>2 DEF FlightInv, ProgressIsCovered, Covered, MissionDrones
  <2>2. ASSUME NEW d \in DOMAIN paths
        PROVE  /\ flown'[paths[d].lane] >= NumWaypoints - paths[d].left + progress[d].index
               /\ progress[d].complete => flown'[paths[d].lane] = NumWaypoints
    <3>1. d \in Drones /\ paths[d] \in Routes /\ progress[d].index \in 0 .. NumWaypoints
      BY PartialFunction DEF FlightInv, SupervisorInv, TypeOK
    <3>2. paths[d].lane \in Drones /\ paths[d].left \in 0 .. NumWaypoints /\ NumWaypoints \in Nat
      BY <3>1, SupervisorAssumption DEF Routes, SupervisorAssumption
    <3>3. /\ flown[paths[d].lane] \in 0 .. NumWaypoints /\ flown'[paths[d].lane] \in 0 .. NumWaypoints
          /\ flown'[paths[d].lane] >= flown[paths[d].lane]
      BY <1>6, <3>2 DEF FlightInv, FlightTypes
    <3>4. /\ flown[paths[d].lane] >= NumWaypoints - paths[d].left + progress[d].index
          /\ progress[d].complete => flown[paths[d].lane] = NumWaypoints
      BY <2>1 DEF FlightInv, ProgressIsCovered, Covered
    <3> DEFINE before == flown[paths[d].lane]
               after == flown'[paths[d].lane]
    <3>5. before = NumWaypoints => after = NumWaypoints
      BY <3>2, <3>3
    <3>6. after >= NumWaypoints - paths[d].left + progress[d].index
      BY <3>1, <3>2, <3>3, <3>4
    <3>7. QED
      BY <3>4, <3>5, <3>6
  <2>3. QED
    BY <2>2
<1>17. ReportsAgree'
  <2>1. \A d \in Drones : Present(readings[d].mission) /\ readings[d].complete => Finished(d)
    BY DEF FlightInv, ReportsAgree
  <2>2. QED
    BY <1>1, <1>2, <1>4, <1>5, <2>1 DEF ReportsAgree, Present, Finished
<1>18. ActiveIsBehind'
  BY <1>2 DEF FlightInv, ActiveIsBehind, MissionDrones, Finished
<1>19. MissionsInOrder'
  <2>1. ASSUME NEW d \in Drones
        PROVE  PresentLast(pending[d]) /\ PresentLast(<<>>) /\ AllPresent(<<>>)
    BY <1>7 DEF FlightInv, MissionsInOrder, PresentLast, AllPresent
  <2>2. ASSUME NEW d \in Drones, Present(Tick(d).ctl.mission) PROVE AllPresent(pending[d])
    <3>1. CASE Tick(d).ctl.mission = software[d].ctl.mission
      BY <2>2, <3>1 DEF FlightInv, MissionsInOrder
    <3>2. CASE \E o \in Range(inbox[d]) : IsTask(o) /\ Tick(d).ctl.mission = o.mission
      <4>1. \E o \in Range(inbox[d]) : OfMission(o)
        BY <2>2, <3>2 DEF OfMission
      <4>2. QED
        BY <4>1 DEF FlightInv, MissionsInOrder
    <3>3. QED
      BY <1>11, <3>1, <3>2
  <2>3. ASSUME NEW d \in Drones, mission # NoMission, Finished(d)
        PROVE  Tick(d).ctl.mission = mission
    <3>1. Present(software[d].ctl.mission)
      BY <2>3 DEF FlightInv, MissionsInOrder, Present
    <3>2. AllPresent(inbox[d])
      BY <3>1 DEF FlightInv, MissionsInOrder
    <3>3. QED
      BY <1>11, <3>1, <3>2 DEF AllPresent, Present
  <2>4. ASSUME NEW d \in Drones
        PROVE  /\ PresentLast(pending'[d]) /\ PresentLast(inbox'[d])
               /\ AllPresent(pending'[d])
               /\ Present(software'[d].ctl.mission) => AllPresent(inbox'[d])
               /\ mission # NoMission /\ Finished(d) => software'[d].ctl.mission = mission
    BY <1>4, <2>1, <2>2, <2>3
  <2>5. QED
    BY <1>2, <2>4 DEF MissionsInOrder, PresentLast, AllPresent, OfMission, Present, Finished
<1>20. LastOrders'
  <2>1. ASSUME NEW d \in Drones, d \notin missed'
        PROVE  IF inbox'[d] # <<>> THEN LastIs(inbox'[d], order[d])
               ELSE CarriedOut(order[d], Tick(d).ctl)
    <3>1. IF pending[d] = <<>> THEN d \notin missed ELSE d \notin CutOff
      BY <1>1, <2>1 DEF Remember
    <3>2. CASE pending[d] # <<>>
      <4>1. inbox'[d] = pending[d]
        BY <1>1, <3>1, <3>2
      <4>2. QED
        BY <3>2, <4>1 DEF FlightInv, LastOrders
    <3>3. CASE pending[d] = <<>>
      <4>1. inbox'[d] = <<>>
        BY <1>1, <3>3
      <4>2. IF inbox[d] # <<>> THEN LastIs(inbox[d], order[d])
            ELSE CarriedOut(order[d], software[d].ctl)
        BY <3>1, <3>3 DEF FlightInv, LastOrders
      <4>3. CASE inbox[d] # <<>>
        <5>1. inbox[d][Len(inbox[d])] = order[d] /\ order[d] \in Messages
          <6>1. inbox[d] \in Seq(Messages)
            BY DEF FlightInv, FlightTypes
          <6>2. QED
            BY <4>2, <4>3, <6>1 DEF LastIs
        <5>2. IsTask(order[d]) \/ Tick(d).ctl.handover # DC!None
          BY <1>4, <4>3, <5>1 DEF Turned
        <5>3. order[d].kind # "none"
          BY <5>1 DEF Messages, Orders, NoOrder, Command, Assign, Slot
        <5>4. QED
          BY <4>1, <5>2, <5>3 DEF CarriedOut, IsTask
      <4>4. CASE inbox[d] = <<>>
        BY <1>4, <4>1, <4>2, <4>4 DEF CarriedOut, Turned
      <4>5. QED
        BY <4>3, <4>4
    <3>4. QED
      BY <3>2, <3>3
  <2>2. QED
    BY <1>2, <1>4, <2>1 DEF LastOrders, LastIs, CarriedOut
<1>21. VehiclesObey'
  <2>1. ASSUME NEW d \in Drones
        PROVE  /\ ModeAsTold(vehicles'[d], software'[d].ctl)
               /\ spoken'[d].complete /\ ~spoken'[d].armed => ~vehicles'[d].armed
    BY <1>4, <1>5
  <2>2. QED
    BY <2>1 DEF VehiclesObey, ModeAsTold
<1>22. LowDronesAreTold'
  BY <1>1, LowForAnotherStep DEF LowDronesAreTold, OnItsWayHome
<1>23. QED
  BY <1>3, <1>8, <1>9, <1>10, <1>13, <1>14, <1>15, <1>16, <1>17, <1>18, <1>19, <1>20, <1>21, <1>22
     DEF FlightInv

-----------------------------------------------------------------------------
(* The inductive invariant holds in every flight, and what follows from it. *)

LEMMA FlightNextInv == FlightInv /\ [FlightNext]_flightVars => FlightInv'
<1> SUFFICES ASSUME FlightInv, [FlightNext]_flightVars PROVE FlightInv'
  OBVIOUS
<1>1. CASE \E e \in Happenings : Happens(e)
  BY <1>1, HappensInv
<1>2. CASE GroundHears
  BY <1>2, GroundHearsInv
<1>3. CASE GroundDecides
  BY <1>3, GroundDecidesInv
<1>4. CASE DronesFly
  BY <1>4, DronesFlyInv
<1>5. CASE UNCHANGED flightVars
  <2>1. UNCHANGED <<battery, mission, paths, followers, progress, retired, dropped, scanning,
                    scan, acted, active, order, turn, used, pending, inbox, spoken, lost,
                    readings, software, vehicles, flown, lowFor, missed>>
    BY <1>5 DEF flightVars, supervisorVars, vars, radio, history
  <2>2. SupervisorInv'
    BY <1>5, NextInv DEF FlightInv, flightVars, supervisorVars
  <2>3. FlightTypes' /\ Turns' /\ SoftwareIsSane' /\ NamesAreUsed'
    BY <2>1 DEF FlightInv, FlightTypes, Turns, SoftwareIsSane, NamesAreUsed
  <2>4. MessagesSuit' /\ SoftwareSuits' /\ ProgressIsCovered'
    BY <2>1 DEF FlightInv, MessagesSuit, SoftwareSuits, ProgressIsCovered, OfMission, Present,
                Suits, Flies, Covered, MissionDrones
  <2>5. ReportsAgree' /\ ActiveIsBehind'
    BY <2>1 DEF FlightInv, ReportsAgree, ActiveIsBehind, MissionDrones, Present, Finished, Seen
  <2>6. MissionsInOrder' /\ LastOrders'
    BY <2>1 DEF FlightInv, MissionsInOrder, PresentLast, AllPresent, OfMission, Present, Finished,
                LastOrders
  <2>7. VehiclesObey' /\ LowDronesAreTold'
    BY <2>1 DEF FlightInv, VehiclesObey, LowDronesAreTold, OnItsWayHome, Low, Finished
  <2>8. QED
    BY <2>2, <2>3, <2>4, <2>5, <2>6, <2>7 DEF FlightInv
<1>6. QED
  BY <1>1, <1>2, <1>3, <1>4, <1>5 DEF FlightNext, Loop

\* Whatever events a scenario has and whoever is cut off when, the supervisor
\* (supervisor.py), every drone's controller (drone_controller.py), every vehicle
\* (sim.py) and every message between them (sut.py) stay in step: each part's state
\* keeps its type, and what is under way is what the plan has for its drone.
THEOREM FlightKeepsInv == FlightSpec => []FlightInv
<1>1. FlightInit => FlightInv
  BY FlightInitInv
<1>2. FlightInv /\ [FlightNext]_flightVars => FlightInv'
  BY FlightNextInv
<1>3. QED
  BY <1>1, <1>2, PTL DEF FlightSpec

\* "complete must not lie" (supervisor.py:19), for any swarm, routes and scenario:
\* a mission the aggregator reports complete (swarm_state.py) was flown lane by lane
\* to the end, and those of its drones just heard stand disarmed on the ground.
THEOREM FlightCompleteIsTrue == FlightSpec => []CompleteIsTrue
<1>1. FlightInv => CompleteIsTrue
  <2> SUFFICES ASSUME FlightInv, MissionComplete
               PROVE  /\ \A d \in DOMAIN paths : flown[paths[d].lane] = NumWaypoints
                      /\ turn # "events" =>
                             \A d \in active.drones \ lost : ~vehicles[d].armed /\ ~vehicles[d].up
    BY DEF CompleteIsTrue
  <2>1. active.drones \subseteq Drones /\ active.mission = mission /\ mission # NoMission
    <3>1. active.drones \subseteq Drones
      BY DEF FlightInv, SupervisorInv, TypeOK
    <3>2. QED
      BY <3>1 DEF FlightInv, ActiveIsBehind, MissionComplete
  <2>2. ASSUME NEW d \in active.drones
        PROVE  readings[d].mission = mission /\ readings[d].complete /\ readings[d].disarmed
    BY <2>1 DEF MissionComplete
  <2>3. ASSUME NEW d \in active.drones PROVE Finished(d)
    BY <2>1, <2>2 DEF FlightInv, ReportsAgree, Present
  <2>4. MissionDrones \subseteq active.drones
    BY <2>3 DEF FlightInv, ActiveIsBehind
  <2>5. ASSUME NEW d \in DOMAIN paths PROVE flown[paths[d].lane] = NumWaypoints
    <3>1. progress[d].complete
      BY <2>3, <2>4 DEF MissionDrones, Finished
    <3>2. QED
      BY <2>1, <3>1 DEF FlightInv, ProgressIsCovered
  <2>6. ASSUME turn # "events", NEW d \in active.drones \ lost
        PROVE  ~vehicles[d].armed /\ ~vehicles[d].up
    <3>1. d \in Drones /\ readings[d] = Seen(d)
      BY <2>1, <2>6 DEF FlightInv, ReportsAgree
    <3>2. /\ Seen(d).complete <=> spoken[d].complete
          /\ Seen(d).disarmed <=> ~spoken[d].armed
      BY DEF Seen
    <3>3. Seen(d).complete /\ Seen(d).disarmed
      BY <2>2, <3>1
    <3>4. QED
      BY <3>1, <3>2, <3>3 DEF FlightInv, VehiclesObey, ModeAsTold
  <2>7. QED
    BY <2>5, <2>6
<1>2. QED
  BY <1>1, FlightKeepsInv, PTL

\* A drone that can be heard is never seen on its task with a low battery for a third
\* step (low_battery_handover.yaml:25), in a swarm of any size and however its task
\* was handed over, unless an order to it is astray.
THEOREM FlightLowDronesLeaveTheirTask == FlightSpec => []LowDronesLeaveTheirTask
<1>1. FlightInv => LowDronesLeaveTheirTask
  <2> SUFFICES ASSUME FlightInv, NEW d \in Drones PROVE lowFor[d] <= 2
    BY DEF LowDronesLeaveTheirTask
  <2>1. lowFor[d] \in 0 .. 3 /\ (lowFor[d] >= 1 => lowFor[d] <= 2)
    BY DEF FlightInv, FlightTypes, LowDronesAreTold
  <2>2. QED
    BY <2>1
<1>2. QED
  BY <1>1, FlightKeepsInv, PTL
=============================================================================
