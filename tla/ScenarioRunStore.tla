--------------------------- MODULE ScenarioRunStore ---------------------------
(***************************************************************************)
(* The store of scenario runs: ScenarioRunStores.cs, as ScenarioRuns.cs    *)
(* uses it.  With a directory a run is written beside its place, moved     *)
(* there, indexed and only then acknowledged; above MaxRuns the index      *)
(* drops its last entry under the lock, and the file goes afterwards.      *)
(* Without one, runs are kept in memory.  Several runs may be stored at    *)
(* the same time and the process may end between any two steps.            *)
(*                                                                          *)
(* Runs are numbered in the order they were received, which is the order   *)
(* of their file names.  What is in a run, and its comparison with another,*)
(* is left out.                                                            *)
(***************************************************************************)
EXTENDS ApiParameters

CONSTANT MaxRuns \* how many runs are kept

ASSUME StoreAssumption == MaxRuns \in Nat \ {0}

VARIABLES
    storeMode,    \* "File" or "InMemory", fixed by the configuration
    received,     \* how many runs were received
    temporary,    \* the runs whose .tmp file is in the directory
    disk,         \* the runs whose file is
    index,        \* _index, or _runs in memory: newest first
    storing,      \* of each caller: where its AddAsync stands
    acknowledged, \* history: the runs that were answered with a 201
    forgot        \* history: has the process ended and lost what it held?

storeVars == <<storeMode, received, temporary, disk, index, storing, acknowledged, forgot>>

NotStoring == [at |-> "idle", run |-> 0, evicted |-> {}]

StoreInit(mode) ==
    /\ storeMode = mode
    /\ received = 0
    /\ temporary = {}
    /\ disk = {}
    /\ index = <<>>
    /\ storing = [c \in Callers |-> NotStoring]
    /\ acknowledged = {}
    /\ forgot = FALSE

Indexed == {index[i] : i \in DOMAIN index}

AtMostMaxRuns(n) == IF n < MaxRuns THEN n ELSE MaxRuns

\* The newest entries, the oldest dropped while they are too many.
Kept(runs) == SubSeq(runs, 1, AtMostMaxRuns(Len(runs)))

-----------------------------------------------------------------------------

\* IngestAsync: the report is valid, the run gets its id and time.
Ingest(c) ==
    /\ storing[c] = NotStoring
    /\ received' = received + 1
    /\ storing' = [storing EXCEPT ![c] = [at |-> "add", run |-> received', evicted |-> {}]]
    /\ UNCHANGED <<storeMode, temporary, disk, index, acknowledged, forgot>>

\* InMemoryScenarioRunStore.AddAsync.
AddInMemory(c) ==
    /\ storing[c].at = "add" /\ storeMode = "InMemory"
    /\ index' = Kept(<<storing[c].run>> \o index)
    /\ storing' = [storing EXCEPT ![c].at = "stored"]
    /\ UNCHANGED <<storeMode, received, temporary, disk, acknowledged, forgot>>

WriteTemporary(c) ==
    /\ storing[c].at = "add" /\ storeMode = "File"
    /\ temporary' = temporary \cup {storing[c].run}
    /\ storing' = [storing EXCEPT ![c].at = "written"]
    /\ UNCHANGED <<storeMode, received, disk, index, acknowledged, forgot>>

\* The write fails or is cancelled, or the move fails: what is there of the
\* temporary file stays.
WriteFails(c) ==
    /\ storing[c].at \in {"add", "written"} /\ storeMode = "File"
    /\ temporary' \in {temporary, temporary \cup {storing[c].run}}
    /\ storing' = [storing EXCEPT ![c] = NotStoring]
    /\ UNCHANGED <<storeMode, received, disk, index, acknowledged, forgot>>

Move(c) ==
    /\ storing[c].at = "written"
    /\ temporary' = temporary \ {storing[c].run}
    /\ disk' = disk \cup {storing[c].run}
    /\ storing' = [storing EXCEPT ![c].at = "moved"]
    /\ UNCHANGED <<storeMode, received, index, acknowledged, forgot>>

\* Mutant of AddToIndex: one more entry is evicted than is too many.
AddToIndexKeepsEntry(c) ==
    LET all == <<storing[c].run>> \o index
    IN  /\ storing[c].at = "moved"
        /\ index' = Kept(all)
        /\ storing' = [storing EXCEPT
                ![c].at = "evicting",
                ![c].evicted = {all[i] : i \in {j \in DOMAIN all : j >= MaxRuns}}]
        /\ UNCHANGED <<storeMode, received, temporary, disk, acknowledged, forgot>>

AddToIndex(c) ==
    LET all == <<storing[c].run>> \o index
    IN  /\ storing[c].at = "moved"
        /\ index' = Kept(all)
        /\ storing' = [storing EXCEPT
                ![c].at = "evicting",
                ![c].evicted = {all[i] : i \in {j \in DOMAIN all : j > MaxRuns}}]
        /\ UNCHANGED <<storeMode, received, temporary, disk, acknowledged, forgot>>

DeleteEvicted(c) ==
    /\ storing[c].at = "evicting"
    /\ \E run \in storing[c].evicted :
        /\ disk' = disk \ {run}
        /\ storing' = [storing EXCEPT ![c].evicted = @ \ {run}]
    /\ UNCHANGED <<storeMode, received, temporary, index, acknowledged, forgot>>

\* A file cannot be deleted: the request fails although its run is stored, and the
\* files it was to delete stay.
DeleteFails(c) ==
    /\ storing[c].at = "evicting" /\ storing[c].evicted # {}
    /\ storing' = [storing EXCEPT ![c] = NotStoring]
    /\ UNCHANGED <<storeMode, received, temporary, disk, index, acknowledged, forgot>>

\* Mutant of Acknowledge: a run is acknowledged before it is in its place.
AcknowledgeWritten(c) ==
    /\ storing[c].at = "written"
    /\ acknowledged' = acknowledged \cup {storing[c].run}
    /\ storing' = [storing EXCEPT ![c] = NotStoring]
    /\ UNCHANGED <<storeMode, received, temporary, disk, index, forgot>>

\* The run is answered with a 201.
Acknowledge(c) ==
    /\ \/ storing[c].at = "stored"
       \/ storing[c].at = "evicting" /\ storing[c].evicted = {}
    /\ acknowledged' = acknowledged \cup {storing[c].run}
    /\ storing' = [storing EXCEPT ![c] = NotStoring]
    /\ UNCHANGED <<storeMode, received, temporary, disk, index, forgot>>

\* The process ends and starts again: the index is what the directory holds, by
\* name, newest first, up to MaxRuns.
StoreRestarts ==
    /\ \E newest \in [1 .. AtMostMaxRuns(Cardinality(disk)) -> disk] :
        /\ \A i, j \in DOMAIN newest : i < j => newest[i] > newest[j]
        /\ \A run \in disk, i \in DOMAIN newest :
                run > newest[i] => \E j \in DOMAIN newest : newest[j] = run
        /\ index' = newest
    /\ storing' = [c \in Callers |-> NotStoring]
    /\ forgot' = TRUE
    /\ UNCHANGED <<storeMode, received, temporary, disk, acknowledged>>

StoreStep(c) ==
    \/ AddInMemory(c)
    \/ WriteTemporary(c)
    \/ WriteFails(c)
    \/ Move(c)
    \/ AddToIndex(c)
    \/ DeleteEvicted(c)
    \/ DeleteFails(c)
    \/ Acknowledge(c)

StoreNext ==
    \/ \E c \in Callers : Ingest(c) \/ StoreStep(c)
    \/ StoreRestarts

StoreSpec ==
    /\ \E mode \in {"File", "InMemory"} : StoreInit(mode)
    /\ [][StoreNext]_storeVars

-----------------------------------------------------------------------------

StoreTypeOK ==
    /\ storeMode \in {"File", "InMemory"}
    /\ received \in Nat
    /\ temporary \subseteq 1 .. received
    /\ disk \subseteq 1 .. received
    /\ index \in Seq(1 .. received)
    /\ storing \in [Callers -> [at : {"idle", "add", "written", "moved", "evicting", "stored"},
                                run : 0 .. received,
                                evicted : SUBSET (1 .. received)]]
    /\ acknowledged \subseteq 1 .. received
    /\ forgot \in BOOLEAN

\* A run that the index lists has its file, whole and in its place, whatever
\* other runs are being stored or pushed out and wherever the process was
\* stopped (GetAsync finds the path in the index and opens it).
IndexedRunsAreOnDisk ==
    storeMode = "File" => Indexed \subseteq disk

\* "A 201 means it is on disk": an acknowledged run is there, across restarts,
\* unless the store holds as many others as it is to keep.  In memory that is
\* so until the process ends.
AcknowledgedRunsAreKept ==
    \A run \in acknowledged :
        IF storeMode = "File" THEN run \in disk \/ Cardinality(disk) >= MaxRuns
        ELSE run \in Indexed \/ Len(index) = MaxRuns \/ forgot

=============================================================================
