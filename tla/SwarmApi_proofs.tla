--------------------------- MODULE SwarmApi_proofs ---------------------------
(***************************************************************************)
(* The API process: first its parts, each for itself - the rosbridge       *)
(* connection, the store of scenario runs and the mission service with its *)
(* log -, then the process and the swarm together.                         *)
(***************************************************************************)
EXTENDS SwarmApi, Retention_proofs, SequenceTheorems, TLAPS

-----------------------------------------------------------------------------
(***************************************************************************)
(* Every message to the swarm leaves on a socket in service, for any number*)
(* of requests, sockets and failures.                                       *)
(*                                                                          *)
(* PublishesOnLiveSocket is not inductive: a publish checks the socket once*)
(* and then sends for as long as it takes.  ConnectionInv adds what keeps  *)
(* the loop from its socket meanwhile: the send lock is the publisher's    *)
(* until it is done, and the loop's while it disposes; and there is never  *)
(* more than one socket, the loop's own.                                    *)
(***************************************************************************)

OneSocket ==
    /\ place = "connecting" <=> socket = "none"
    /\ \A s \in Sockets : s # socket => wire[s] = "gone"
    /\ socket # "none" => wire[socket] # "gone"

InstalledIsGreeted ==
    installed # "none" =>
        installed = socket /\ socket \in greeted /\ place \in {"receiving", "releasing"}

LockIsTheLoops == place = "disposing" <=> sendLock = "run"

SenderHasLock ==
    \A c \in Callers : publish[c] = "sending" =>
        /\ sendLock = c
        /\ using = socket
        /\ socket \in greeted
        /\ place \in {"receiving", "releasing"}

ConnectionInv ==
    /\ ConnectionTypeOK
    /\ OneSocket
    /\ InstalledIsGreeted
    /\ LockIsTheLoops
    /\ SenderHasLock

-----------------------------------------------------------------------------

LEMMA NoReportIsReport == NoReport \in MissionReports
BY ApiAssumption DEF NoReport, MissionReports, NoMission

LEMMA ConnectionInitInv == ConnectionInit => ConnectionInv
<1>1. SUFFICES ASSUME ConnectionInit PROVE ConnectionInv
  OBVIOUS
<1>2. ConnectionTypeOK
  BY <1>1, NoReportIsReport DEF ConnectionInit, ConnectionTypeOK
<1>3. QED
  BY <1>1, <1>2, ConnectionAssumption, ApiAssumption
  DEF ConnectionInit, ConnectionInv, OneSocket, InstalledIsGreeted, LockIsTheLoops, SenderHasLock

LEMMA LoopKeepsInv ==
    ASSUME ConnectionInv, RunLoop
    PROVE ConnectionInv'
<1> USE DEF ConnectionInv, ConnectionTypeOK, OneSocket, InstalledIsGreeted, LockIsTheLoops,
            SenderHasLock
<1>1. ASSUME NEW s \in Sockets, Connect(s) PROVE ConnectionInv'
  BY <1>1, ConnectionAssumption DEF Connect
<1>2. CASE Install
  BY <1>2, ConnectionAssumption DEF Install, IsOpen
<1>3. CASE GreetingFails
  BY <1>3, ConnectionAssumption DEF GreetingFails
<1>4. ASSUME NEW report \in MissionReports, ReceiveState(report) PROVE ConnectionInv'
  BY <1>4 DEF ReceiveState
<1>5. CASE ReceiveEnds
  BY <1>5, ConnectionAssumption DEF ReceiveEnds
<1>6. CASE TakeOutOfService
  BY <1>6, ConnectionAssumption, ApiAssumption DEF TakeOutOfService
<1>7. CASE Dispose
  BY <1>7, ConnectionAssumption, ApiAssumption DEF Dispose
<1>8. QED
  BY <1>1, <1>2, <1>3, <1>4, <1>5, <1>6, <1>7 DEF RunLoop

LEMMA PublishingKeepsInv ==
    ASSUME ConnectionInv, NEW c \in Callers, Publishing(c)
    PROVE ConnectionInv'
<1> USE DEF ConnectionInv, ConnectionTypeOK, OneSocket, InstalledIsGreeted, LockIsTheLoops,
            SenderHasLock
<1>1. CASE Publish(c) \/ Cancel(c) \/ Refuse(c) \/ Return(c)
  BY <1>1 DEF Publish, Cancel, Refuse, Return
<1>2. CASE StartSend(c)
  BY <1>2, ConnectionAssumption, ApiAssumption DEF StartSend, IsOpen
<1>3. CASE SendSucceeds(c)
  BY <1>3, ConnectionAssumption, ApiAssumption DEF SendSucceeds
<1>4. CASE SendFails(c)
  BY <1>4, ConnectionAssumption, ApiAssumption DEF SendFails
<1>5. QED
  BY <1>1, <1>2, <1>3, <1>4 DEF Publishing

LEMMA ConnectionStepInv ==
    ASSUME ConnectionInv, [ConnectionNext]_connectionVars
    PROVE ConnectionInv'
<1>1. CASE RunLoop
  BY <1>1, LoopKeepsInv
<1>2. ASSUME NEW c \in Callers, Publishing(c) PROVE ConnectionInv'
  BY <1>2, PublishingKeepsInv
<1>3. CASE PeerGoesAway
  BY <1>3 DEF PeerGoesAway, ConnectionInv, ConnectionTypeOK, OneSocket, InstalledIsGreeted,
              LockIsTheLoops, SenderHasLock
<1>4. CASE ConnectionRestarts
  BY <1>4, NoReportIsReport, ConnectionAssumption, ApiAssumption
  DEF ConnectionRestarts, ConnectionInv, ConnectionTypeOK, OneSocket, InstalledIsGreeted,
      LockIsTheLoops, SenderHasLock
<1>5. CASE UNCHANGED connectionVars
  BY <1>5 DEF connectionVars, ConnectionInv, ConnectionTypeOK, OneSocket, InstalledIsGreeted,
              LockIsTheLoops, SenderHasLock
<1>6. QED
  BY <1>1, <1>2, <1>3, <1>4, <1>5 DEF ConnectionNext

LEMMA ConnectionInvIsLive == ConnectionInv => PublishesOnLiveSocket
BY ConnectionAssumption DEF ConnectionInv, ConnectionTypeOK, OneSocket, SenderHasLock,
                            PublishesOnLiveSocket

-----------------------------------------------------------------------------

\* Whatever the loop, the requests and the peer do, and wherever the process ends,
\* the bridge's fields and the send lock keep to the invariant above.
THEOREM ConnectionInvariance == ConnectionSpec => []ConnectionInv
BY ConnectionInitInv, ConnectionStepInv, PTL DEF ConnectionSpec

\* Of PublishAsync, RunAsync and ReleaseSocketAsync alone: a message leaves on a
\* socket that is announced and not disposed of.
THEOREM ConnectionIsLive == ConnectionSpec => []PublishesOnLiveSocket
BY ConnectionInvariance, ConnectionInvIsLive, PTL

-----------------------------------------------------------------------------
(***************************************************************************)
(* The store of scenario runs keeps what it acknowledged and what it lists,*)
(* for any number of requests and runs, any capacity and any number of     *)
(* restarts.                                                                *)
(*                                                                          *)
(* Neither property is inductive.  StoreInv adds what makes them so: no run*)
(* is indexed twice; a run on its way into the index is on disk and nobody *)
(* is about to delete it; what is about to be deleted is not indexed; and  *)
(* whoever deletes leaves an index that is full, each entry of it on disk. *)
(***************************************************************************)

Full == Len(index) = MaxRuns

IndexIsSound ==
    /\ \A i, j \in DOMAIN index : index[i] = index[j] => i = j
    /\ Len(index) <= MaxRuns
    /\ IndexedRunsAreOnDisk

\* Runs not yet in the index, and who brings them.
OnTheWay(c) == storing[c].at \in {"add", "written", "moved"}

OwnRuns ==
    /\ \A c \in Callers : storing[c].at # "idle" => storing[c].run \in 1 .. received
    /\ \A c \in Callers : OnTheWay(c) => storing[c].run \notin Indexed
    /\ \A c, d \in Callers :
        OnTheWay(c) /\ OnTheWay(d) /\ storing[c].run = storing[d].run => c = d

MovedAreOnDisk ==
    \A c \in Callers :
        /\ storing[c].at \in {"written", "moved", "evicting"} => storeMode = "File"
        /\ storing[c].at = "moved" => storing[c].run \in disk

EvictionsAreSafe ==
    \A c \in Callers :
        /\ storing[c].evicted # {} => Full /\ storeMode = "File"
        /\ \A run \in storing[c].evicted :
            /\ run \notin Indexed
            /\ \A d \in Callers : OnTheWay(d) => run # storing[d].run

\* A run that is stored stays so.
Stored(run) ==
    IF storeMode = "File" THEN run \in disk \/ Full ELSE run \in Indexed \/ Full \/ forgot

StoredStay ==
    /\ \A run \in acknowledged : Stored(run)
    /\ \A c \in Callers : storing[c].at \in {"stored", "evicting"} => Stored(storing[c].run)

StoreInv ==
    /\ StoreTypeOK
    /\ IndexIsSound
    /\ OwnRuns
    /\ MovedAreOnDisk
    /\ EvictionsAreSafe
    /\ StoredStay

-----------------------------------------------------------------------------
(* What becomes of the index. *)

\* A run put first leaves the others in order behind it, as far as there is room.
LEMMA KeptRuns ==
    ASSUME NEW S, NEW run \in S, NEW runs \in Seq(S), Len(runs) <= MaxRuns
    PROVE  LET kept == Kept(<<run>> \o runs) IN
           /\ kept \in Seq(S)
           /\ Len(kept) = AtMostMaxRuns(Len(runs) + 1)
           /\ kept[1] = run
           /\ \A i \in 2 .. Len(kept) : kept[i] = runs[i - 1]
<1> DEFINE all == <<run>> \o runs
           kept == Kept(all)
<1>1. all \in Seq(S) /\ Len(all) = Len(runs) + 1 /\ all[1] = run
      /\ \A i \in 2 .. Len(all) : all[i] = runs[i - 1]
  OBVIOUS
<1>2. AtMostMaxRuns(Len(all)) \in 1 .. Len(all)
  BY <1>1, StoreAssumption DEF AtMostMaxRuns
<1>3. kept \in Seq(S) /\ Len(kept) = AtMostMaxRuns(Len(all))
      /\ \A i \in 1 .. Len(kept) : kept[i] = all[i]
  BY <1>1, <1>2 DEF Kept
<1>4. QED
  BY SMTT(30), <1>1, <1>2, <1>3

\* What no longer fits is the last entry of an index that was full.
LEMMA EvictedRun ==
    ASSUME NEW S, NEW run \in S, NEW runs \in Seq(S), Len(runs) <= MaxRuns,
           NEW i \in DOMAIN (<<run>> \o runs), i > MaxRuns
    PROVE  Len(runs) = MaxRuns /\ (<<run>> \o runs)[i] = runs[MaxRuns]
BY StoreAssumption

\* An index of distinct runs on disk is no longer than there are files.
LEMMA AsManyFiles ==
    ASSUME StoreTypeOK, IndexIsSound
    PROVE  /\ Cardinality(disk) \in Nat
           /\ storeMode = "File" => Len(index) <= Cardinality(disk)
<1>1. IsFiniteSet(disk)
  <2>1. 1 \in Int /\ received \in Int /\ disk \in SUBSET (1 .. received)
    BY DEF StoreTypeOK
  <2>2. IsFiniteSet(1 .. received)
    BY <2>1, FS_Interval
  <2>3. QED
    BY <2>1, <2>2, FS_Subset
<1>2. IsFiniteSet(1 .. Len(index)) /\ Cardinality(1 .. Len(index)) = Len(index)
  <2>1. Len(index) \in Nat
    BY DEF StoreTypeOK
  <2>2. \A n \in Nat : IsFiniteSet(1 .. n) /\ Cardinality(1 .. n) = n
    <3> SUFFICES ASSUME NEW n \in Nat PROVE IsFiniteSet(1 .. n) /\ Cardinality(1 .. n) = n
      OBVIOUS
    <3>1. 1 \in Int /\ n \in Int /\ (IF 1 > n THEN 0 ELSE n - 1 + 1) = n
      OBVIOUS
    <3>2. QED
      BY <3>1, FS_Interval
  <2>3. QED
    BY <2>1, <2>2
<1>3. CASE storeMode = "File"
  <2>1. [i \in 1 .. Len(index) |-> index[i]] \in Injection(1 .. Len(index), disk)
    BY <1>3 DEF StoreTypeOK, IndexIsSound, IndexedRunsAreOnDisk, Indexed, Injection, IsInjective
  <2>2. QED
    BY <1>1, <1>2, <2>1, FS_Injection, FS_CardinalityType
<1>4. QED
  BY <1>1, <1>3, FS_CardinalityType

-----------------------------------------------------------------------------
(* StoreInv holds at first and after every step. *)

LEMMA StoreInitInv ==
    ASSUME NEW mode \in {"File", "InMemory"}, StoreInit(mode)
    PROVE  StoreInv
<1> USE DEF StoreInit, NotStoring
<1>1. StoreTypeOK
  <2>1. index \in Seq(1 .. received)
    OBVIOUS
  <2>2. storing \in [Callers -> [at : {"idle", "add", "written", "moved", "evicting", "stored"},
                                run : 0 .. received, evicted : SUBSET (1 .. received)]]
    OBVIOUS
  <2>3. QED
    BY <2>1, <2>2 DEF StoreTypeOK
<1>2. IndexIsSound /\ Indexed = {}
  BY StoreAssumption DEF IndexIsSound, IndexedRunsAreOnDisk, Indexed
<1>3. OwnRuns /\ MovedAreOnDisk /\ EvictionsAreSafe /\ StoredStay
  BY DEF OwnRuns, OnTheWay, MovedAreOnDisk, EvictionsAreSafe, StoredStay
<1>4. QED
  BY <1>1, <1>2, <1>3 DEF StoreInv

\* A step that leaves the index and the files alone leaves what is stored alone.
LEMMA SameIndexSameRuns ==
    ASSUME UNCHANGED <<storeMode, disk, index>>, IndexIsSound
    PROVE  IndexIsSound' /\ Indexed' = Indexed /\ (Full <=> Full')
BY DEF IndexIsSound, IndexedRunsAreOnDisk, Indexed, Full

LEMMA IngestInv ==
    ASSUME StoreInv, NEW c \in Callers, Ingest(c)
    PROVE  StoreInv'
<1> USE DEF StoreInv, Ingest
<1>1. StoreTypeOK'
  BY DEF StoreTypeOK
<1>2. IndexIsSound' /\ Indexed' = Indexed /\ (Full <=> Full')
  BY SameIndexSameRuns
<1>3. Indexed \subseteq 1 .. received
  BY DEF StoreTypeOK, Indexed
<1>4. OwnRuns'
  BY <1>2, <1>3 DEF OwnRuns, OnTheWay, StoreTypeOK
<1>5. MovedAreOnDisk'
  BY DEF MovedAreOnDisk, StoreTypeOK
<1>6. EvictionsAreSafe'
  BY <1>2 DEF EvictionsAreSafe, OnTheWay, StoreTypeOK
<1>7. StoredStay'
  BY <1>2 DEF StoredStay, Stored, StoreTypeOK
<1>8. QED
  BY <1>1, <1>2, <1>4, <1>5, <1>6, <1>7

\* To write, to move, to acknowledge and to fail leave the index alone and
\* take no file away.
LEMMA QuietStepInv ==
    ASSUME StoreInv, NEW c \in Callers,
           WriteTemporary(c) \/ WriteFails(c) \/ Move(c) \/ DeleteFails(c) \/ Acknowledge(c)
    PROVE  StoreInv'
<1> USE DEF StoreInv
<1> DEFINE Quiet(d) ==
      /\ storing'[d] \in [at : {"idle", "add", "written", "moved", "evicting", "stored"},
                           run : 0 .. received, evicted : SUBSET (1 .. received)]
      /\ storing'[d].at # "idle" =>
            storing[d].at # "idle" /\ storing'[d].run = storing[d].run
      /\ OnTheWay(d)' => OnTheWay(d)
      /\ storing'[d].evicted \subseteq storing[d].evicted
      /\ storing'[d].at \in {"written", "moved", "evicting"} => storeMode = "File"
      /\ storing'[d].at = "moved" => storing'[d].run \in disk'
      /\ storing'[d].at \in {"stored", "evicting"} => storing'[d].at = storing[d].at
<1>1. /\ UNCHANGED <<storeMode, received, index, forgot>>
      /\ disk \subseteq disk' /\ disk' \subseteq 1 .. received
      /\ temporary' \subseteq 1 .. received
      /\ acknowledged' \subseteq 1 .. received
      /\ \A run \in acknowledged' : run \in acknowledged \/ Stored(run)
      /\ storing' = [storing EXCEPT ![c] = storing'[c]]
      /\ Quiet(c)
  <2> USE DEF StoreTypeOK, OwnRuns, MovedAreOnDisk, OnTheWay
  <2>1. CASE WriteTemporary(c)
    BY <2>1 DEF WriteTemporary
  <2>2. CASE WriteFails(c)
    BY <2>2 DEF WriteFails, NotStoring
  <2>3. CASE Move(c)
    BY <2>3 DEF Move
  <2>4. CASE Acknowledge(c)
    <3> USE DEF Acknowledge, NotStoring
    <3>1. storing[c].at \in {"stored", "evicting"} /\ Stored(storing[c].run)
      BY <2>4 DEF StoredStay
    <3>2. storing[c].run \in 1 .. received /\ acknowledged' = acknowledged \cup {storing[c].run}
      BY <2>4, <3>1
    <3>3. storing'[c] = NotStoring /\ storing' = [storing EXCEPT ![c] = NotStoring]
      BY <2>4
    <3>4. Quiet(c)
      BY <3>3
    <3>5. UNCHANGED <<storeMode, received, temporary, disk, index, forgot>>
      BY <2>4
    <3>6. \A run \in acknowledged' : run \in acknowledged \/ Stored(run)
      BY <3>1, <3>2
    <3>7. storing' = [storing EXCEPT ![c] = storing'[c]]
      BY <3>3
    <3>8. QED
      BY <3>2, <3>4, <3>5, <3>6, <3>7
  <2>5. CASE DeleteFails(c)
    BY <2>5 DEF DeleteFails, NotStoring
  <2>6. QED
    BY <2>1, <2>2, <2>3, <2>4, <2>5
<1>2. \A d \in Callers : Quiet(d)
  <2> SUFFICES ASSUME NEW d \in Callers, d # c PROVE Quiet(d)
    BY <1>1
  <2>1. storing'[d] = storing[d]
    BY <1>1 DEF StoreTypeOK
  <2>2. QED
    BY <1>1, <2>1 DEF StoreTypeOK, MovedAreOnDisk, OnTheWay
<1>3. Indexed' = Indexed /\ (Full <=> Full')
  BY <1>1 DEF Indexed, Full
<1>4. StoreTypeOK'
  <2>1. storing' \in [Callers -> [at : {"idle", "add", "written", "moved", "evicting", "stored"},
                                 run : 0 .. received, evicted : SUBSET (1 .. received)]]
    BY <1>1, <1>2 DEF StoreTypeOK
  <2>2. QED
    BY <1>1, <2>1 DEF StoreTypeOK
<1>5. IndexIsSound'
  BY <1>1, <1>3 DEF IndexIsSound, IndexedRunsAreOnDisk
<1>6. OwnRuns'
  BY <1>1, <1>2, <1>3 DEF OwnRuns, OnTheWay
<1>7. MovedAreOnDisk'
  BY <1>1, <1>2 DEF MovedAreOnDisk
<1>8. EvictionsAreSafe'
  BY <1>1, <1>2, <1>3 DEF EvictionsAreSafe, OnTheWay
<1>9. StoredStay'
  BY <1>1, <1>2, <1>3 DEF StoredStay, Stored
<1>10. QED
  BY <1>4, <1>5, <1>6, <1>7, <1>8, <1>9

\* What the two stores have in common when they put a run first.
LEMMA AddedRun ==
    ASSUME StoreInv, NEW run \in 1 .. received, run \notin Indexed,
           storeMode = "File" => run \in disk,
           index' = Kept(<<run>> \o index),
           UNCHANGED <<storeMode, received, disk>>
    PROVE  /\ index' \in Seq(1 .. received)
           /\ IndexIsSound'
           /\ run \in Indexed'
           /\ Indexed' \subseteq Indexed \cup {run}
           /\ Full => Full' /\ index[MaxRuns] \notin Indexed'
           /\ ~Full' => Indexed \subseteq Indexed'
<1> USE DEF StoreInv
<1>1. index \in Seq(1 .. received) /\ Len(index) \in Nat /\ Len(index) <= MaxRuns
  BY DEF StoreTypeOK, IndexIsSound
<1>2. /\ index' \in Seq(1 .. received)
      /\ Len(index') = AtMostMaxRuns(Len(index) + 1)
      /\ index'[1] = run
      /\ \A i \in 2 .. Len(index') : index'[i] = index[i - 1]
  <2> DEFINE S == 1 .. received
  <2>1. run \in S /\ index \in Seq(S) /\ Len(index) <= MaxRuns
    BY <1>1
  <2> HIDE DEF S
  <2>2. LET kept == Kept(<<run>> \o index) IN
        /\ kept \in Seq(S)
        /\ Len(kept) = AtMostMaxRuns(Len(index) + 1)
        /\ kept[1] = run
        /\ \A i \in 2 .. Len(kept) : kept[i] = index[i - 1]
    BY <2>1, KeptRuns
  <2>3. QED
    BY <2>2 DEF S
<1>3. /\ Len(index') \in 1 .. MaxRuns
      /\ Len(index') <= Len(index) + 1
      /\ Full => Len(index') = MaxRuns
      /\ ~Full => Len(index') = Len(index) + 1
  BY <1>1, <1>2, StoreAssumption DEF AtMostMaxRuns, Full
<1>4. \A i \in DOMAIN index' : i = 1 \/ (i \in 2 .. Len(index') /\ i - 1 \in DOMAIN index)
  BY <1>1, <1>2, <1>3
<1>5. run \in Indexed' /\ Indexed' \subseteq Indexed \cup {run}
  <2>1. 1 \in DOMAIN index' /\ index'[1] = run
    BY <1>2, <1>3
  <2>2. \A i \in DOMAIN index' : index'[i] = run \/ \E j \in DOMAIN index : index'[i] = index[j]
    BY <1>2, <1>4
  <2>3. QED
    BY <2>1, <2>2 DEF Indexed
<1>6. \A i, j \in DOMAIN index' : index'[i] = index'[j] => i = j
  <2> SUFFICES ASSUME NEW i \in DOMAIN index', NEW j \in DOMAIN index', index'[i] = index'[j]
               PROVE  i = j
    OBVIOUS
  <2>1. \A k \in DOMAIN index : index[k] # run
    BY DEF Indexed
  <2>2. i \in Int /\ j \in Int
    BY <1>2
  <2>3. CASE i = 1
    BY <1>2, <1>4, <2>1, <2>3
  <2>4. CASE j = 1
    BY <1>2, <1>4, <2>1, <2>4
  <2>5. CASE i # 1 /\ j # 1
    <3>1. index[i - 1] = index[j - 1] /\ i - 1 \in DOMAIN index /\ j - 1 \in DOMAIN index
      BY <1>2, <1>4, <2>5
    <3>2. i - 1 = j - 1
      BY <3>1 DEF IndexIsSound
    <3>3. QED
      BY <2>2, <3>2
  <2>6. QED
    BY <2>3, <2>4, <2>5
<1>7. IndexIsSound'
  BY <1>3, <1>5, <1>6 DEF IndexIsSound, IndexedRunsAreOnDisk
<1>8. Full => Full' /\ index[MaxRuns] \notin Indexed'
  <2> SUFFICES ASSUME Full PROVE Full' /\ index[MaxRuns] \notin Indexed'
    OBVIOUS
  <2>1. MaxRuns \in DOMAIN index
    BY <1>1, StoreAssumption DEF Full
  <2>2. index[MaxRuns] # run
    BY <2>1 DEF Indexed
  <2>3. \A i \in 2 .. Len(index') : i - 1 # MaxRuns
    BY <1>3, StoreAssumption
  <2>4. \A i \in DOMAIN index' : index'[i] # index[MaxRuns]
    BY <1>2, <1>4, <2>1, <2>2, <2>3 DEF IndexIsSound
  <2>5. QED
    BY <1>3, <2>4 DEF Indexed, Full
<1>9. ~Full' => Indexed \subseteq Indexed'
  <2> SUFFICES ASSUME ~Full', NEW k \in DOMAIN index PROVE index[k] \in Indexed'
    BY DEF Indexed
  <2>1. Len(index') = Len(index) + 1
    BY <1>3 DEF Full
  <2>2. k + 1 \in 2 .. Len(index') /\ (k + 1) - 1 = k
    BY <1>1, <2>1
  <2>3. index'[k + 1] = index[k] /\ k + 1 \in DOMAIN index'
    BY <1>2, <2>2
  <2>4. QED
    BY <2>3 DEF Indexed
<1>10. QED
  BY <1>2, <1>5, <1>7, <1>8, <1>9

LEMMA AddInMemoryInv ==
    ASSUME StoreInv, NEW c \in Callers, AddInMemory(c)
    PROVE  StoreInv'
<1> USE DEF StoreInv, AddInMemory
<1> DEFINE run == storing[c].run
<1>1. run \in 1 .. received /\ run \notin Indexed
  BY DEF OwnRuns, OnTheWay
<1>2. /\ index' \in Seq(1 .. received)
      /\ IndexIsSound'
      /\ run \in Indexed'
      /\ Indexed' \subseteq Indexed \cup {run}
      /\ Full => Full'
      /\ ~Full' => Indexed \subseteq Indexed'
  BY <1>1, AddedRun
<1>3. StoreTypeOK'
  BY <1>2 DEF StoreTypeOK
<1>4. OwnRuns'
  BY <1>2 DEF OwnRuns, OnTheWay, StoreTypeOK
<1>5. MovedAreOnDisk'
  BY DEF MovedAreOnDisk, StoreTypeOK
<1>6. EvictionsAreSafe'
  BY DEF EvictionsAreSafe, StoreTypeOK
<1>7. StoredStay'
  BY <1>2 DEF StoredStay, Stored, StoreTypeOK
<1>8. QED
  BY <1>2, <1>3, <1>4, <1>5, <1>6, <1>7

LEMMA AddToIndexInv ==
    ASSUME StoreInv, NEW c \in Callers, AddToIndex(c)
    PROVE  StoreInv'
<1> USE DEF StoreInv
<1> DEFINE run == storing[c].run
           all == <<run>> \o index
           out == {all[i] : i \in {j \in DOMAIN all : j > MaxRuns}}
<1>1. /\ storing[c].at = "moved"
      /\ index' = Kept(all)
      /\ storing' = [storing EXCEPT ![c].at = "evicting", ![c].evicted = out]
      /\ UNCHANGED <<storeMode, received, temporary, disk, acknowledged, forgot>>
  BY DEF AddToIndex
<1>2. run \in 1 .. received /\ run \notin Indexed /\ run \in disk /\ storeMode = "File"
  BY <1>1 DEF OwnRuns, OnTheWay, MovedAreOnDisk
<1>3. /\ index' \in Seq(1 .. received)
      /\ IndexIsSound'
      /\ Indexed' \subseteq Indexed \cup {run}
      /\ Full => Full' /\ index[MaxRuns] \notin Indexed'
  BY <1>1, <1>2, AddedRun
<1>4. \A old \in out : Full /\ old = index[MaxRuns] /\ old \in Indexed /\ old \in 1 .. received
  <2> SUFFICES ASSUME NEW i \in DOMAIN all, i > MaxRuns
               PROVE  Full /\ all[i] = index[MaxRuns] /\ all[i] \in Indexed /\ all[i] \in 1 .. received
    OBVIOUS
  <2>1. index \in Seq(1 .. received) /\ Len(index) <= MaxRuns
    BY DEF StoreTypeOK, IndexIsSound
  <2>2. Full /\ all[i] = index[MaxRuns]
    BY <1>2, <2>1, EvictedRun DEF Full
  <2>3. MaxRuns \in DOMAIN index
    BY <2>1, <2>2, StoreAssumption DEF Full
  <2>4. index[MaxRuns] \in Indexed /\ index[MaxRuns] \in 1 .. received
    <3>1. index[MaxRuns] \in 1 .. received
      BY <2>1, <2>3, LenProperties
    <3>2. QED
      BY <2>3, <3>1 DEF Indexed
  <2>5. QED
    BY <2>2, <2>4
<1> HIDE DEF out, all
<1>5. StoreTypeOK'
  <2>1. out \in SUBSET (1 .. received)
    BY <1>4
  <2>2. storing' \in [Callers -> [at : {"idle", "add", "written", "moved", "evicting", "stored"},
                                  run : 0 .. received,
                                  evicted : SUBSET (1 .. received)]]
    <3> DEFINE next == [storing[c] EXCEPT !.at = "evicting", !.evicted = out]
    <3>1. storing' = [storing EXCEPT ![c] = next]
      BY <1>1, Zenon DEF StoreTypeOK
    <3>2. next \in [at : {"idle", "add", "written", "moved", "evicting", "stored"},
                    run : 0 .. received,
                    evicted : SUBSET (1 .. received)]
      BY <2>1 DEF StoreTypeOK
    <3> HIDE DEF next
    <3>3. QED
      BY <3>1, <3>2 DEF StoreTypeOK
  <2>3. QED
    BY <1>1, <1>3, <2>2 DEF StoreTypeOK
<1>6. OwnRuns'
  BY <1>1, <1>3 DEF OwnRuns, OnTheWay, StoreTypeOK
<1>7. MovedAreOnDisk'
  BY <1>1, <1>2 DEF MovedAreOnDisk, StoreTypeOK
<1>8. EvictionsAreSafe'
  <2> SUFFICES ASSUME NEW d \in Callers
               PROVE  (/\ storing[d].evicted # {} => Full /\ storeMode = "File"
                       /\ \A old \in storing[d].evicted :
                           /\ old \notin Indexed
                           /\ \A e \in Callers : OnTheWay(e) => old # storing[e].run)'
    BY DEF EvictionsAreSafe
  <2>1. \A e \in Callers : OnTheWay(e)' => OnTheWay(e) /\ storing'[e] = storing[e]
    BY <1>1 DEF OnTheWay, StoreTypeOK
  <2>2. CASE d = c
    <3>1. storing'[d].evicted = out
      BY <1>1, <2>2 DEF StoreTypeOK
    <3>2. QED
      BY ZenonT(40), <1>1, <1>2, <1>3, <1>4, <2>1, <3>1 DEF OwnRuns
  <2>3. CASE d # c
    <3>1. storing'[d] = storing[d] /\ OnTheWay(c)
      BY <1>1, <2>3 DEF StoreTypeOK, OnTheWay
    <3>2. \A old \in storing[d].evicted : old \notin Indexed /\ old # run /\ Full /\ storeMode = "File"
      BY <3>1 DEF EvictionsAreSafe
    <3>3. \A old \in storing[d].evicted : \A e \in Callers : OnTheWay(e) => old # storing[e].run
      BY DEF EvictionsAreSafe
    <3>4. \A old \in storing[d].evicted : old \notin Indexed' /\ Full' /\ storeMode' = "File"
      BY <1>1, <1>3, <3>2
    <3>5. QED
      BY <2>1, <3>1, <3>3, <3>4
  <2>4. QED
    BY <2>2, <2>3
<1>9. StoredStay'
  BY <1>1, <1>2, <1>3 DEF StoredStay, Stored, StoreTypeOK
<1>10. QED
  BY <1>3, <1>5, <1>6, <1>7, <1>8, <1>9

LEMMA DeleteEvictedInv ==
    ASSUME StoreInv, NEW c \in Callers, DeleteEvicted(c)
    PROVE  StoreInv'
<1> USE DEF StoreInv
<1>1. PICK old \in storing[c].evicted :
        disk' = disk \ {old} /\ storing' = [storing EXCEPT ![c].evicted = @ \ {old}]
  BY DEF DeleteEvicted
<1>2. UNCHANGED <<storeMode, received, temporary, index, acknowledged, forgot>>
  BY DEF DeleteEvicted
<1>3. /\ Full /\ storeMode = "File" /\ old \notin Indexed
      /\ \A d \in Callers : OnTheWay(d) => old # storing[d].run
  BY DEF EvictionsAreSafe
<1>4. \A d \in Callers : /\ storing'[d].at = storing[d].at /\ storing'[d].run = storing[d].run
                         /\ storing'[d].evicted \subseteq storing[d].evicted
  BY <1>1 DEF StoreTypeOK
<1>5. Indexed' = Indexed /\ Full'
  BY <1>2, <1>3 DEF Indexed, Full
<1>6. StoreTypeOK'
  BY <1>1, <1>2 DEF StoreTypeOK
<1>7. IndexIsSound'
  BY <1>1, <1>2, <1>3, <1>5 DEF IndexIsSound, IndexedRunsAreOnDisk
<1>8. OwnRuns'
  BY <1>2, <1>4, <1>5 DEF OwnRuns, OnTheWay
<1>9. MovedAreOnDisk'
  BY <1>1, <1>2, <1>3, <1>4 DEF MovedAreOnDisk, OnTheWay
<1>10. EvictionsAreSafe'
  BY <1>2, <1>3, <1>4, <1>5 DEF EvictionsAreSafe, OnTheWay
<1>11. StoredStay'
  BY <1>2, <1>3, <1>5 DEF StoredStay, Stored
<1>12. QED
  BY <1>6, <1>7, <1>8, <1>9, <1>10, <1>11

LEMMA StoreRestartsInv ==
    ASSUME StoreInv, StoreRestarts
    PROVE  StoreInv'
<1> USE DEF StoreInv
<1>1. /\ index' \in [1 .. AtMostMaxRuns(Cardinality(disk)) -> disk]
      /\ \A i, j \in DOMAIN index' : i < j => index'[i] > index'[j]
  BY DEF StoreRestarts
<1>2. /\ storing' = [c \in Callers |-> NotStoring]
      /\ forgot' = TRUE
      /\ UNCHANGED <<storeMode, received, temporary, disk, acknowledged>>
  BY DEF StoreRestarts
<1>3. /\ AtMostMaxRuns(Cardinality(disk)) \in 0 .. MaxRuns
      /\ Full /\ storeMode = "File" => AtMostMaxRuns(Cardinality(disk)) = MaxRuns
  BY AsManyFiles, StoreAssumption DEF AtMostMaxRuns, Full
<1>4. disk \subseteq 1 .. received /\ disk \subseteq Nat
  BY DEF StoreTypeOK
<1>5. /\ index' \in Seq(1 .. received)
      /\ Len(index') = AtMostMaxRuns(Cardinality(disk))
      /\ DOMAIN index' = 1 .. Len(index')
  <2>1. \A n \in Nat : \A f \in [1 .. n -> disk] :
            f \in Seq(1 .. received) /\ Len(f) = n /\ DOMAIN f = 1 .. Len(f)
    <3> SUFFICES ASSUME NEW n \in Nat, NEW f \in [1 .. n -> disk]
                 PROVE  f \in Seq(1 .. received) /\ Len(f) = n /\ DOMAIN f = 1 .. Len(f)
      OBVIOUS
    <3>1. f \in [1 .. n -> 1 .. received]
      BY <1>4
    <3>2. f \in Seq(1 .. received) /\ DOMAIN f = 1 .. n
      BY <3>1, SeqDef
    <3>3. Len(f) = n
      BY <3>2, LenProperties
    <3>4. QED
      BY <3>2, <3>3
  <2>2. AtMostMaxRuns(Cardinality(disk)) \in Nat
    BY <1>3, StoreAssumption
  <2>3. QED
    BY <1>1, <2>1, <2>2
<1>6. Indexed' \subseteq disk
  BY <1>1 DEF Indexed
<1>7. StoreTypeOK'
  BY <1>2, <1>5 DEF StoreTypeOK, NotStoring
<1>8. \A i, j \in DOMAIN index' : index'[i] = index'[j] => i = j
  <2> SUFFICES ASSUME NEW i \in DOMAIN index', NEW j \in DOMAIN index', index'[i] = index'[j]
               PROVE  i = j
    OBVIOUS
  <2>1. index'[i] \in Nat /\ i \in Nat /\ j \in Nat
    <3>1. index'[i] \in disk
      BY <1>1
    <3>2. index'[i] \in Nat
      BY <1>4, <3>1
    <3>3. QED
      BY <1>3, <1>5, <3>2
  <2>2. ~(index'[i] > index'[j]) /\ ~(index'[j] > index'[i])
    BY <2>1
  <2>3. ~(i < j) /\ ~(j < i)
    BY <1>1, <2>2
  <2>4. QED
    BY <2>1, <2>3
<1>9. IndexIsSound'
  BY <1>2, <1>3, <1>5, <1>6, <1>8 DEF IndexIsSound, IndexedRunsAreOnDisk
<1>10. OwnRuns' /\ MovedAreOnDisk' /\ EvictionsAreSafe'
  BY <1>2 DEF OwnRuns, OnTheWay, MovedAreOnDisk, EvictionsAreSafe, NotStoring
<1>11. StoredStay'
  BY <1>2, <1>3, <1>5 DEF StoredStay, Stored, Full, NotStoring
<1>12. QED
  BY <1>7, <1>9, <1>10, <1>11

LEMMA StoreNextInv ==
    ASSUME StoreInv, [StoreNext]_storeVars
    PROVE  StoreInv'
<1>1. ASSUME NEW c \in Callers, Ingest(c) PROVE StoreInv'
  BY <1>1, IngestInv
<1>2. ASSUME NEW c \in Callers, StoreStep(c) PROVE StoreInv'
  BY <1>2, AddInMemoryInv, QuietStepInv, AddToIndexInv, DeleteEvictedInv DEF StoreStep
<1>3. CASE StoreRestarts
  BY <1>3, StoreRestartsInv
<1>4. CASE UNCHANGED storeVars
  BY <1>4 DEF storeVars, StoreInv, StoreTypeOK, IndexIsSound, IndexedRunsAreOnDisk, Indexed, Full,
      OwnRuns, OnTheWay, MovedAreOnDisk, EvictionsAreSafe, StoredStay, Stored
<1>5. QED
  BY <1>1, <1>2, <1>3, <1>4 DEF StoreNext

LEMMA StoreInvKeepsRuns ==
    ASSUME StoreInv
    PROVE  StoreTypeOK /\ IndexedRunsAreOnDisk /\ AcknowledgedRunsAreKept
<1>1. Full /\ storeMode = "File" => Cardinality(disk) >= MaxRuns
  BY AsManyFiles, StoreAssumption DEF StoreInv, Full
<1>2. QED
  BY <1>1 DEF StoreInv, IndexIsSound, StoredStay, Stored, AcknowledgedRunsAreKept, Full

-----------------------------------------------------------------------------

\* The strengthened invariant, for any number of requests, runs and restarts.
THEOREM StoreInvariance == StoreSpec => []StoreInv
<1>1. (\E mode \in {"File", "InMemory"} : StoreInit(mode)) => StoreInv
  BY StoreInitInv
<1>2. StoreInv /\ [StoreNext]_storeVars => StoreInv'
  BY StoreNextInv
<1>3. QED
  BY <1>1, <1>2, PTL DEF StoreSpec

\* What the index lists is in the directory, and a run that was acknowledged is
\* pushed out only by as many others as are kept (GetAsync, AddAsync, DeleteEvicted
\* and the directory read again at start, ScenarioRunStores.cs).
THEOREM StoreKeepsRuns == StoreSpec => [](StoreTypeOK /\ IndexedRunsAreOnDisk /\ AcknowledgedRunsAreKept)
<1>1. StoreInv => StoreTypeOK /\ IndexedRunsAreOnDisk /\ AcknowledgedRunsAreKept
  BY StoreInvKeepsRuns
<1>2. QED
  BY <1>1, StoreInvariance, PTL


-----------------------------------------------------------------------------
(***************************************************************************)
(* The log is bounded, for any number of requests and missions and any     *)
(* capacity.                                                                *)
(*                                                                          *)
(* LogIsBounded is not inductive: an active mission is never forgotten, so *)
(* the bound is one on active missions.  ServiceInv counts them together   *)
(* with the requests that are about to add one: between EndPrevious and    *)
(* Add a request has a place, and its mission takes it over.  Of the log it*)
(* says that nothing is in it twice; for that, that a mission on its way   *)
(* into it is not in it yet, and on its way in one request only.            *)
(***************************************************************************)

\* The service's type, but for the order that the log keeps.
ServiceOK ==
    /\ status \in [Missions -> Statuses]
    /\ request \in [Callers -> [op : {"none", "dispatch", "abort", "land"},
                                mission : Missions \cup {NoMission},
                                at : {"none", "bridge", "log", "add"}]]
    /\ \A c \in Callers :
        /\ request[c].op = "dispatch" => request[c].mission \in Missions
        /\ request[c].at # "none" => request[c].op # "none"

Logged == {"Active", "Completed", "Aborted"}

LogIsSound ==
    /\ order \in Seq(Missions)
    /\ \A i, j \in 1 .. Len(order) : order[i] = order[j] => i = j
    /\ \A i \in 1 .. Len(order) : status[order[i]] \in Logged

OneRequestPerMission ==
    \A c \in Callers : request[c].op = "dispatch" =>
        /\ status[request[c].mission] = "sent"
        /\ \A d \in Callers : request[d].op = "dispatch" /\ request[d].mission = request[c].mission
                                => d = c

Adding == {c \in Callers : request[c].at = "add"}

PlacesAreTaken == Cardinality(ActiveMissions) + Cardinality(Adding) <= Cardinality(Callers)

ServiceInv ==
    /\ ServiceOK
    /\ LogIsSound
    /\ OneRequestPerMission
    /\ PlacesAreTaken
    /\ LogIsBounded

-----------------------------------------------------------------------------

NoneCompletes == \A m \in Missions : status'[m] = "Completed" => status[m] = "Completed"

OnlyCompletes(report) ==
    \A m \in Missions : status'[m] = "Completed" =>
        status[m] = "Completed" \/ (report.complete /\ m = report.mission)

LEMMA MissionIsNotNone == NoMission \notin Missions /\ Missions \subseteq Nat
BY ApiAssumption DEF NoMission, Missions

\* Only a report that says so completes a mission.
LEMMA WriteStep ==
    ASSUME ServiceOK, NEW c \in Callers,
           \/ \E m \in Missions : BeginDispatch(c, m)
           \/ BeginLandAll(c)
           \/ BridgeAccepts(c)
           \/ BridgeRefuses(c)
           \/ EndPrevious(c)
           \/ AddToLog(c)
           \/ EndAborted(c)
           \/ EndLanded(c)
    PROVE  ServiceOK' /\ NoneCompletes
<1> USE DEF ServiceOK, NoneCompletes, Statuses
<1>1. ASSUME NEW m \in Missions, BeginDispatch(c, m) PROVE ServiceOK' /\ NoneCompletes
  BY <1>1 DEF BeginDispatch
<1>2. CASE BeginLandAll(c)
  BY <1>2 DEF BeginLandAll
<1>3. CASE BridgeAccepts(c)
  BY <1>3 DEF BridgeAccepts
<1>4. CASE BridgeRefuses(c)
  BY <1>4 DEF BridgeRefuses, Idle, NoMission
<1>5. CASE EndPrevious(c)
  BY <1>5 DEF EndPrevious, AllAborted
<1>6. CASE AddToLog(c)
  <2> DEFINE m == request[c].mission
             goes == Excess(Append(order, m), [status EXCEPT ![m] = "Active"])
  <2>1. /\ status' = [k \in Missions |-> IF k \in goes THEN "forgotten"
                                         ELSE [status EXCEPT ![m] = "Active"][k]]
        /\ request' = [request EXCEPT ![c] = Idle]
    BY <1>6 DEF AddToLog
  <2> HIDE DEF goes
  <2>2. QED
    BY <2>1 DEF Idle, NoMission
<1>7. CASE EndAborted(c)
  BY <1>7 DEF EndAborted, TryEnd, Idle, NoMission
<1>8. CASE EndLanded(c)
  BY <1>8 DEF EndLanded, AllAborted, Idle, NoMission
<1>9. QED
  BY <1>1, <1>2, <1>3, <1>4, <1>5, <1>6, <1>7, <1>8

LEMMA ReadStep ==
    ASSUME ServiceOK, NEW report,
           ReadState(report) \/ \E c \in Callers, m \in Missions : BeginAbort(c, m, report)
    PROVE  ServiceOK' /\ OnlyCompletes(report)
<1> USE DEF ServiceOK, OnlyCompletes, Statuses
<1>1. CASE ReadState(report)
  BY <1>1 DEF ReadState, Refreshed, TryEnd
<1>2. ASSUME NEW c \in Callers, NEW m \in Missions, BeginAbort(c, m, report)
      PROVE  ServiceOK' /\ OnlyCompletes(report)
  <2>1. status' = Refreshed(status, report)
    BY <1>2 DEF BeginAbort
  <2>2. status' \in [Missions -> Statuses] /\ OnlyCompletes(report)
    BY <2>1 DEF Refreshed, TryEnd
  <2>3. \/ request' = request
        \/ request' = [request EXCEPT ![c] = [op |-> "abort", mission |-> m, at |-> "bridge"]]
    BY <1>2 DEF BeginAbort
  <2>4. QED
    BY <2>2, <2>3
<1>3. QED
  BY <1>1, <1>2

LEMMA RestartStep ==
    ASSUME ServiceOK, ServiceRestarts
    PROVE  ServiceOK' /\ NoneCompletes
BY DEF ServiceOK, ServiceRestarts, NoneCompletes, Statuses, Idle, NoMission

-----------------------------------------------------------------------------
(* The log. *)

\* Trim: what stays is no more than the capacity, or all Active.
LEMMA TrimmedLog ==
    ASSUME NEW s \in Seq(Missions), NEW st
    PROVE  \/ Len(Without(s, Excess(s, st))) <= LogCapacity
           \/ \A i \in 1 .. Len(s) : s[i] \notin Excess(s, st) => st[s[i]] = "Active"
<1> DEFINE n == Len(s)
           S == {j \in 1 .. n : st[s[j]] # "Active"}
           e == n - LogCapacity
           low == Oldest(S, e)
           goes == Excess(s, st)
           stay == {i \in 1 .. n : s[i] \notin goes}
<1>1. n \in Nat /\ e \in Int /\ S \in SUBSET (1 .. n) /\ LogCapacity \in Nat
  BY MissionServiceAssumption
<1>2. \A i \in low : s[i] \in goes /\ i \in S
  <2>1. ASSUME NEW i \in S PROVE {j \in S : j <= i} = {j \in 1 .. i : st[s[j]] # "Active"}
    OBVIOUS
  <2>2. \A i \in low : i \in S /\ Cardinality({j \in S : j <= i}) <= e
    BY DEF Oldest
  <2>3. \A i \in low : i \in S /\ Cardinality({j \in 1 .. i : st[s[j]] # "Active"}) <= e
    BY <2>1, <2>2
  <2>4. DOMAIN s = 1 .. n
    OBVIOUS
  <2> HIDE DEF low
  <2>5. QED
    BY <2>3, <2>4 DEF Excess
<1>3. Len(Without(s, goes)) = Cardinality(stay)
  <2> HIDE DEF goes
  <2>1. QED
    BY WithoutLength
<1>4. CASE low = S
  <2>1. ASSUME NEW i \in 1 .. Len(s), s[i] \notin goes PROVE st[s[i]] = "Active"
    <3>1. i \notin S
      BY <1>2, <1>4, <2>1
    <3> HIDE DEF goes, low
    <3>2. QED
      BY <3>1
  <2>2. QED
    BY <2>1
<1>5. CASE Cardinality(low) >= e
  <2>1. IsFiniteSet(1 .. n) /\ Cardinality(1 .. n) = n
    BY SMTT(30), <1>1, FS_Interval
  <2>2. low \subseteq 1 .. n /\ \A i \in low : i \notin stay
    BY <1>1, <1>2
  <2>3. stay \subseteq (1 .. n) \ low
    BY <2>2
  <2> HIDE DEF low, stay, goes, n, S
  <2>4. IsFiniteSet(low) /\ Cardinality(low) \in Nat
    BY <2>1, <2>2, FS_Subset, FS_CardinalityType
  <2>5. /\ IsFiniteSet((1 .. n) \ low)
        /\ Cardinality((1 .. n) \ low) = n - Cardinality(low)
    <3> DEFINE all == 1 .. n
    <3>1. all \cap low = low /\ IsFiniteSet(all) /\ Cardinality(all) = n
      BY <2>1, <2>2
    <3> HIDE DEF all
    <3>2. IsFiniteSet(all \ low) /\ Cardinality(all \ low) = n - Cardinality(low)
      BY ZenonT(40), <3>1, FS_Difference
    <3>3. QED
      BY <3>2 DEF all
  <2>6. Cardinality(stay) <= Cardinality((1 .. n) \ low)
    BY <2>3, <2>5, FS_Subset
  <2>7. IsFiniteSet(stay) /\ Cardinality(stay) \in Nat
    BY <2>3, <2>5, FS_Subset, FS_CardinalityType
  <2>8. Cardinality(stay) <= LogCapacity
    BY <1>1, <1>5, <2>4, <2>5, <2>6, <2>7
  <2>9. QED
    BY <1>3, <2>8 DEF goes
<1>6. low = S \/ Cardinality(low) >= e
  <2> HIDE DEF n, S, e
  <2>1. QED
    BY <1>1, OldestOnes
<1>7. QED
  BY <1>4, <1>5, <1>6

LEMMA ServiceSetsAreFinite ==
    /\ IsFiniteSet(Missions) /\ IsFiniteSet(Callers)
    /\ \A S \in SUBSET Missions : IsFiniteSet(S) /\ Cardinality(S) \in Nat
    /\ \A S \in SUBSET Callers : IsFiniteSet(S) /\ Cardinality(S) \in Nat
    /\ ActiveMissions \subseteq Missions /\ Adding \subseteq Callers
    /\ ActiveMissions' \subseteq Missions /\ Adding' \subseteq Callers
<1>1. IsFiniteSet(Missions)
  BY ApiAssumption, FS_Interval DEF Missions
<1>2. IsFiniteSet(Callers)
  BY ApiAssumption
<1>3. QED
  BY <1>1, <1>2, FS_Subset, FS_CardinalityType DEF ActiveMissions, Adding

\* No place is taken by fewer active missions, or by none.
LEMMA PlacesStayTaken ==
    ASSUME PlacesAreTaken, ActiveMissions' \subseteq ActiveMissions,
           Adding' \subseteq Adding \/ ActiveMissions' = {}
    PROVE  PlacesAreTaken'
<1> DEFINE a == Cardinality(ActiveMissions)
           b == Cardinality(Adding)
           x == Cardinality(ActiveMissions')
           y == Cardinality(Adding')
           z == Cardinality(Callers)
<1>1. /\ a \in Nat /\ b \in Nat /\ x \in Nat /\ y \in Nat /\ z \in Nat
      /\ x <= a /\ y <= z
      /\ Adding' \subseteq Adding => y <= b
  BY ServiceSetsAreFinite, FS_Subset
<1>2. a + b <= z
  BY DEF PlacesAreTaken
<1>3. ActiveMissions' = {} => x = 0
  BY FS_EmptySet
<1> HIDE DEF a, b, x, y, z
<1>4. x + y <= z
  BY <1>1, <1>2, <1>3
<1>5. QED
  BY <1>4 DEF PlacesAreTaken, x, y, z

\* Steps that add nothing to the log: what was Active may have ended, and requests
\* to dispatch go on or end.
LEMMA LogStays ==
    ASSUME ServiceInv, ServiceOK', UNCHANGED order,
           \A m \in Missions :
               status'[m] = status[m]
               \/ (status[m] = "Active" /\ status'[m] \in {"Completed", "Aborted"}),
           \A c \in Callers : request'[c].op = "dispatch" =>
               request[c].op = "dispatch" /\ request'[c].mission = request[c].mission,
           Adding' \subseteq Adding \/ ActiveMissions' = {}
    PROVE  ServiceInv'
<1> USE DEF ServiceInv
<1>1. LogIsSound'
  <2>1. \A i \in 1 .. Len(order) : order[i] \in Missions
    BY DEF LogIsSound
  <2>2. \A i \in 1 .. Len(order) : status'[order[i]] \in Logged
    BY <2>1 DEF LogIsSound, Logged
  <2>3. QED
    BY <2>2 DEF LogIsSound, Logged
<1>2. OneRequestPerMission'
  <2>1. \A c \in Callers : request[c].op = "dispatch" => request[c].mission \in Missions
    BY DEF ServiceOK
  <2>2. \A c \in Callers : request'[c].op = "dispatch" => status'[request'[c].mission] = "sent"
    BY <2>1 DEF OneRequestPerMission
  <2>3. QED
    BY <2>2 DEF OneRequestPerMission
<1>3. ActiveMissions' \subseteq ActiveMissions
  BY DEF ActiveMissions
<1>4. PlacesAreTaken'
  BY <1>3, PlacesStayTaken
<1>5. LogIsBounded'
  BY DEF LogIsBounded
<1>6. QED
  BY <1>1, <1>2, <1>4, <1>5

LEMMA ServiceInitInv == ServiceInit => ServiceInv
<1>1. SUFFICES ASSUME ServiceInit PROVE ServiceInv
  OBVIOUS
<1>2. ServiceOK
  BY <1>1 DEF ServiceInit, ServiceOK, Statuses, Idle, NoMission
<1>3. Cardinality(ActiveMissions) = 0 /\ Cardinality(Adding) = 0
  <2>1. ActiveMissions = {} /\ Adding = {}
    BY <1>1 DEF ServiceInit, ActiveMissions, Adding, Idle
  <2>2. QED
    BY <2>1, FS_EmptySet
<1>4. Cardinality(Callers) \in Nat
  BY ServiceSetsAreFinite
<1>5. PlacesAreTaken /\ LogIsBounded
  BY <1>1, <1>3, <1>4, MissionServiceAssumption DEF PlacesAreTaken, LogIsBounded, ServiceInit
<1>6. QED
  BY <1>1, <1>2, <1>5 DEF ServiceInit, ServiceInv, LogIsSound, OneRequestPerMission, Idle

LEMMA ServiceRestartsInv ==
    ASSUME ServiceOK', ServiceRestarts
    PROVE  ServiceInv'
<1>1. Cardinality(ActiveMissions') = 0 /\ Cardinality(Adding') = 0
  <2>1. ActiveMissions' = {} /\ Adding' = {}
    BY DEF ServiceRestarts, ActiveMissions, Adding, Idle
  <2>2. QED
    BY <2>1, FS_EmptySet
<1>2. Cardinality(Callers) \in Nat
  BY ServiceSetsAreFinite
<1>3. PlacesAreTaken' /\ LogIsBounded'
  BY <1>1, <1>2, MissionServiceAssumption DEF PlacesAreTaken, LogIsBounded, ServiceRestarts
<1>4. QED
  BY <1>3 DEF ServiceRestarts, ServiceInv, LogIsSound, OneRequestPerMission, Idle
LEMMA BeginDispatchInv ==
    ASSUME ServiceInv, ServiceOK', NEW c \in Callers, NEW m \in Missions, BeginDispatch(c, m)
    PROVE  ServiceInv'
<1> USE DEF ServiceInv
<1>1. /\ UNCHANGED order
      /\ status' = [status EXCEPT ![m] = "sent"] /\ status[m] \in {"new", "sent"}
      /\ status[m] = "sent" => \A d \in Callers : request[d].mission # m
      /\ request' = [request EXCEPT ![c] = [op |-> "dispatch", mission |-> m, at |-> "bridge"]]
  BY DEF BeginDispatch
<1>2. status \in [Missions -> Statuses] /\ DOMAIN request = Callers
  BY DEF ServiceOK
<1>3. LogIsSound'
  <2>1. \A i \in 1 .. Len(order) : order[i] \in Missions /\ order[i] # m
    BY <1>1 DEF LogIsSound, Logged
  <2>2. \A i \in 1 .. Len(order) : status'[order[i]] \in Logged
    BY <1>1, <1>2, <2>1 DEF LogIsSound
  <2>3. QED
    BY <1>1, <2>2 DEF LogIsSound
<1>4. OneRequestPerMission'
  <2>1. ASSUME NEW d \in Callers, d # c, request'[d].op = "dispatch"
        PROVE  /\ request'[d] = request[d] /\ request[d].mission # m
               /\ status'[request[d].mission] = "sent"
    <3>1. request'[d] = request[d]
      BY <1>1, <1>2, <2>1
    <3>2. status[request[d].mission] = "sent" /\ request[d].mission \in Missions
      BY <2>1, <3>1 DEF OneRequestPerMission, ServiceOK
    <3>3. request[d].mission # m
      BY <1>1, <3>2
    <3>4. QED
      BY <1>1, <1>2, <3>1, <3>2, <3>3
  <2>2. /\ request'[c].op = "dispatch" /\ request'[c].mission = m /\ status'[m] = "sent"
    BY <1>1, <1>2
  <2>3. QED
    BY <2>1, <2>2 DEF OneRequestPerMission
<1>5. ActiveMissions' \subseteq ActiveMissions
  BY <1>1, <1>2 DEF ActiveMissions
<1>6. Adding' \subseteq Adding
  BY <1>1, <1>2 DEF Adding
<1>7. PlacesAreTaken' /\ LogIsBounded'
  BY <1>1, <1>5, <1>6, PlacesStayTaken DEF LogIsBounded
<1>8. QED
  BY <1>3, <1>4, <1>7

\* Add: the mission takes the place of its request, and the log is trimmed.
LEMMA AddToLogInv ==
    ASSUME ServiceInv, ServiceOK', NEW c \in Callers, AddToLog(c)
    PROVE  ServiceInv'
<1> USE DEF ServiceInv
<1> DEFINE m == request[c].mission
           added == [status EXCEPT ![m] = "Active"]
           all == Append(order, m)
           goes == Excess(all, added)
<1>1. /\ request[c].op = "dispatch" /\ request[c].at = "add"
      /\ status' = [k \in Missions |-> IF k \in goes THEN "forgotten" ELSE added[k]]
      /\ order' = Without(all, goes)
      /\ request' = [request EXCEPT ![c] = Idle]
  BY DEF AddToLog
<1>2. /\ status \in [Missions -> Statuses] /\ DOMAIN request = Callers
      /\ m \in Missions /\ status[m] = "sent"
  BY <1>1 DEF ServiceOK, OneRequestPerMission
<1>3. /\ order \in Seq(Missions)
      /\ \A i, j \in 1 .. Len(order) : order[i] = order[j] => i = j
      /\ \A i \in 1 .. Len(order) : status[order[i]] \in Logged /\ order[i] # m
  BY <1>2 DEF LogIsSound, Logged
<1>4. /\ all \in Seq(Missions) /\ Len(all) = Len(order) + 1 /\ Len(order) \in Nat
      /\ all[Len(all)] = m /\ \A i \in 1 .. Len(order) : all[i] = order[i]
  BY <1>2, <1>3
<1>5. added \in [Missions -> Statuses] /\ added[m] = "Active"
      /\ \A k \in Missions : k # m => added[k] = status[k]
  BY <1>2 DEF Statuses
<1>6. \A k \in goes : \E i \in 1 .. Len(all) : all[i] = k
  <2>1. DOMAIN all = 1 .. Len(all)
    BY <1>4
  <2> HIDE DEF all, added
  <2>2. QED
    BY <2>1 DEF Excess
<1> HIDE DEF m, added, all, goes
<1>7. \A i \in 1 .. Len(all) : i = Len(all) \/ i \in 1 .. Len(order)
  BY <1>4
<1>8. /\ \A i, j \in 1 .. Len(all) : all[i] = all[j] => i = j
      /\ \A i \in 1 .. Len(all) : all[i] \in Missions /\ added[all[i]] \in Logged
  BY <1>3, <1>4, <1>5, <1>7 DEF Logged
<1>9. /\ order' \in Seq(Missions)
      /\ \A k \in 1 .. Len(order') :
            order'[k] \notin goes /\ \E i \in 1 .. Len(all) : all[i] = order'[k]
      /\ \A i, j \in 1 .. Len(order') : order'[i] = order'[j] => i = j
  <2> DEFINE left == Without(all, goes)
  <2>1. /\ left \in Seq(Missions)
        /\ \A k \in 1 .. Len(left) :
              left[k] \notin goes /\ \E i \in 1 .. Len(all) : all[i] = left[k]
        /\ \A i, j \in 1 .. Len(left) : left[i] = left[j] => i = j
    BY <1>4, <1>8, WithoutContents
  <2>2. order' = left
    BY <1>1
  <2> HIDE DEF left
  <2>3. QED
    BY <2>1, <2>2
<1>10. \A k \in 1 .. Len(order') :
          /\ order'[k] \in Missions /\ status'[order'[k]] = added[order'[k]]
          /\ status'[order'[k]] \in Logged
  BY <1>1, <1>8, <1>9
<1>11. LogIsSound'
  BY <1>9, <1>10 DEF LogIsSound
<1>12. OneRequestPerMission'
  <2>1. ASSUME NEW d \in Callers, request'[d].op = "dispatch"
        PROVE  /\ d # c /\ request'[d] = request[d]
               /\ status'[request[d].mission] = "sent"
    <3>1. d # c /\ request'[d] = request[d]
      BY <1>1, <1>2, <2>1 DEF Idle
    <3>2. /\ request[d].mission \in Missions /\ request[d].mission # m
          /\ status[request[d].mission] = "sent"
      BY <1>1, <2>1, <3>1 DEF OneRequestPerMission, ServiceOK, m
    <3>3. added[request[d].mission] = "sent"
      BY <1>5, <3>2
    <3>4. request[d].mission \notin goes
      BY <1>6, <1>8, <3>3 DEF Logged
    <3>5. QED
      BY <1>1, <3>1, <3>2, <3>3, <3>4
  <2>2. QED
    BY <2>1 DEF OneRequestPerMission
<1>13. PlacesAreTaken'
  <2>1. ActiveMissions' \subseteq ActiveMissions \cup {m}
    BY <1>1, <1>5 DEF ActiveMissions
  <2>2. Adding' = Adding \ {c} /\ c \in Adding
    BY <1>1, <1>2 DEF Adding, Idle
  <2> DEFINE a == Cardinality(ActiveMissions)
             b == Cardinality(Adding)
             x == Cardinality(ActiveMissions')
             y == Cardinality(Adding')
             z == Cardinality(Callers)
  <2>3. a \in Nat /\ b \in Nat /\ x \in Nat /\ y \in Nat /\ z \in Nat /\ a + b <= z
    BY ServiceSetsAreFinite DEF PlacesAreTaken
  <2>4. y = b - 1
    BY <2>2, ServiceSetsAreFinite, FS_RemoveElement
  <2>5. x <= a + 1
    <3> DEFINE more == ActiveMissions \cup {m}
               now == ActiveMissions'
    <3>1. IsFiniteSet(more) /\ Cardinality(more) <= a + 1 /\ Cardinality(more) \in Nat
      BY <2>3, ServiceSetsAreFinite, FS_AddElement, FS_CardinalityType
    <3>2. now \in SUBSET more
      BY <2>1
    <3> HIDE DEF more, now, a
    <3>3. Cardinality(now) <= Cardinality(more) /\ Cardinality(now) \in Nat
      BY <3>1, <3>2, FS_Subset, FS_CardinalityType
    <3>4. Cardinality(now) <= a + 1
      BY <2>3, <3>1, <3>3
    <3>5. QED
      BY <3>4 DEF now
  <2> HIDE DEF a, b, x, y, z
  <2>6. x + y <= z
    BY <2>3, <2>4, <2>5
  <2>7. QED
    BY <2>6 DEF PlacesAreTaken, x, y, z
<1>14. LogIsBounded'
  <2>1. CASE Len(order') <= LogCapacity
    <3>1. Cardinality(Callers) \in Nat /\ LogCapacity \in Nat /\ Len(order') \in Nat
      BY <1>9, ServiceSetsAreFinite, MissionServiceAssumption
    <3>2. QED
      BY <2>1, <3>1 DEF LogIsBounded
  <2>2. CASE \A i \in 1 .. Len(all) : all[i] \notin goes => added[all[i]] = "Active"
    <3> DEFINE w == order'
               actives == ActiveMissions'
    <3>1. \A k \in 1 .. Len(w) : w[k] \in actives
      BY <1>9, <1>10, <2>2 DEF ActiveMissions
    <3>2. Len(w) \in Nat /\ w \in Seq(Missions) /\ IsFiniteSet(actives)
          /\ Cardinality(actives) \in Nat
      BY <1>9, ServiceSetsAreFinite
    <3>3. \A i, j \in 1 .. Len(w) : w[i] = w[j] => i = j
      BY <1>9
    <3> HIDE DEF w, actives
    <3>4. w \in [1 .. Len(w) -> actives]
      BY <3>1, <3>2
    <3>5. w \in Injection(1 .. Len(w), actives)
      BY <3>3, <3>4, Fun_IsInj
    <3> DEFINE places == 1 .. Len(w)
    <3>6. Cardinality(places) = Len(w)
      <4> DEFINE n == Len(w)
      <4>1. n \in Nat
        BY <3>2
      <4> HIDE DEF n
      <4>2. Cardinality(1 .. n) = n
        BY <4>1, FS_Interval
      <4>3. QED
        BY <4>2 DEF n
    <3>7. Cardinality(places) <= Cardinality(actives)
      <4> HIDE DEF places
      <4>1. w \in Injection(places, actives)
        BY <3>5 DEF places
      <4>2. QED
        BY <3>2, <4>1, FS_Injection
    <3>8. Cardinality(actives) <= Cardinality(Callers)
      <4>1. Cardinality(Adding') \in Nat /\ Cardinality(Callers) \in Nat
        BY ServiceSetsAreFinite
      <4>2. QED
        BY <1>13, <3>2, <4>1 DEF PlacesAreTaken, actives
    <3>9. Cardinality(Callers) \in Nat /\ LogCapacity \in Nat
      BY ServiceSetsAreFinite, MissionServiceAssumption
    <3> HIDE DEF places
    <3>10. Len(w) <= Cardinality(Callers)
      BY <3>2, <3>6, <3>7, <3>8, <3>9
    <3>11. QED
      BY <3>2, <3>9, <3>10 DEF LogIsBounded, w
  <2>3. Len(order') <= LogCapacity
        \/ \A i \in 1 .. Len(all) : all[i] \notin goes => added[all[i]] = "Active"
    BY <1>1, <1>4, TrimmedLog DEF goes
  <2>4. QED
    BY <2>1, <2>2, <2>3
<1>15. QED
  BY <1>11, <1>12, <1>13, <1>14

LEMMA ServiceStepInv ==
    ASSUME ServiceInv, [ServiceNext]_serviceVars
    PROVE  ServiceInv'
<1>1. ServiceOK
  BY DEF ServiceInv
<1>2. ASSUME NEW c \in Callers, NEW m \in Missions, BeginDispatch(c, m) PROVE ServiceInv'
  BY <1>1, <1>2, WriteStep, BeginDispatchInv
<1>3. ASSUME NEW report,
             ReadState(report) \/ \E c \in Callers, m \in Missions : BeginAbort(c, m, report)
      PROVE  ServiceInv'
  <2>1. ServiceOK' /\ UNCHANGED order /\ status' = Refreshed(status, report)
    BY <1>1, <1>3, ReadStep DEF ReadState, BeginAbort
  <2>2. \A m \in Missions :
            status'[m] = status[m] \/ (status[m] = "Active" /\ status'[m] = "Completed")
    BY <1>1, <2>1 DEF Refreshed, TryEnd, ServiceOK
  <2>3. \A c \in Callers : \/ request'[c] = request[c]
                           \/ request'[c].op = "abort" /\ request'[c].at = "bridge"
    BY <1>1, <1>3 DEF ReadState, BeginAbort, ServiceOK
  <2>4. Adding' \subseteq Adding
    BY <2>3 DEF Adding
  <2>5. QED
    BY <2>1, <2>2, <2>3, <2>4, LogStays
<1>4. ASSUME NEW c \in Callers, BeginLandAll(c) \/ BridgeAccepts(c) \/ BridgeRefuses(c)
      PROVE  ServiceInv'
  <2>1. ServiceOK' /\ UNCHANGED <<order, status>>
    BY <1>1, <1>4, WriteStep DEF BeginLandAll, BridgeAccepts, BridgeRefuses
  <2>2. \A d \in Callers :
            \/ request'[d].op \in {"none", "land"} /\ request'[d].at # "add"
            \/ /\ request'[d].op = request[d].op /\ request'[d].mission = request[d].mission
               /\ request'[d].at = "add" => request[d].at = "add"
    BY <1>1, <1>4 DEF BeginLandAll, BridgeAccepts, BridgeRefuses, ServiceOK, Idle
  <2>3. Adding' \subseteq Adding
    BY <2>2 DEF Adding
  <2>4. QED
    BY <2>1, <2>2, <2>3, LogStays
<1>5. ASSUME NEW c \in Callers, EndPrevious(c) PROVE ServiceInv'
  <2>1. /\ ServiceOK' /\ UNCHANGED order /\ status' = AllAborted(status)
        /\ request' = [request EXCEPT ![c].at = "add"]
    BY <1>1, <1>5, WriteStep DEF EndPrevious
  <2>2. /\ \A m \in Missions :
              status'[m] = status[m] \/ (status[m] = "Active" /\ status'[m] = "Aborted")
        /\ ActiveMissions' = {}
    BY <1>1, <2>1 DEF AllAborted, ServiceOK, ActiveMissions
  <2>3. \A d \in Callers :
            request'[d].op = request[d].op /\ request'[d].mission = request[d].mission
    BY <1>1, <2>1 DEF ServiceOK
  <2>4. QED
    BY <2>1, <2>2, <2>3, LogStays
<1>6. ASSUME NEW c \in Callers, AddToLog(c) PROVE ServiceInv'
  BY <1>1, <1>6, WriteStep, AddToLogInv
<1>7. ASSUME NEW c \in Callers, EndAborted(c) \/ EndLanded(c) PROVE ServiceInv'
  <2>1. ServiceOK' /\ UNCHANGED order /\ request' = [request EXCEPT ![c] = Idle]
    BY <1>1, <1>7, WriteStep DEF EndAborted, EndLanded
  <2>2. \A m \in Missions :
            status'[m] = status[m] \/ (status[m] = "Active" /\ status'[m] = "Aborted")
    BY <1>1, <1>7 DEF EndAborted, EndLanded, TryEnd, AllAborted, ServiceOK
  <2>3. \A d \in Callers : request'[d] = request[d] \/ request'[d] = Idle
    BY <1>1, <2>1 DEF ServiceOK
  <2>4. Adding' \subseteq Adding
    BY <2>3 DEF Adding, Idle
  <2>5. QED
    BY <2>1, <2>2, <2>3, <2>4, LogStays DEF Idle
<1>8. CASE ServiceRestarts
  BY <1>1, <1>8, RestartStep, ServiceRestartsInv
<1>9. CASE UNCHANGED serviceVars
  BY <1>9 DEF serviceVars, ServiceInv, ServiceOK, LogIsSound, OneRequestPerMission,
              PlacesAreTaken, LogIsBounded, ActiveMissions, Adding
<1>10. QED
  BY <1>2, <1>3, <1>4, <1>5, <1>6, <1>7, <1>8, <1>9 DEF ServiceNext

\* Whichever answers the bridge gives, and whenever the process ends, the log and the
\* requests keep to the invariant above (MissionService.cs and MissionLog.cs).
THEOREM ServiceInvariance == ServiceSpec => []ServiceInv
BY ServiceInitInv, ServiceStepInv, PTL DEF ServiceSpec

\* Of Add and Trim in MissionLog.cs, with the writes of MissionService.cs in any order:
\* the log holds no more than its capacity or than requests run at the same time.
THEOREM ServiceLogIsBounded == ServiceSpec => []LogIsBounded
<1>1. ServiceInv => LogIsBounded
  BY DEF ServiceInv
<1>2. QED
  BY <1>1, ServiceInvariance, PTL

-----------------------------------------------------------------------------
(***************************************************************************)
(* The API process and the swarm together, for any number of requests,     *)
(* missions, drones, sockets and runs, any capacities and any number of    *)
(* failures: the connection and the store do here what their own           *)
(* specifications say, a mission that reads as Completed was flown, and    *)
(* between writes the log agrees with the swarm.                           *)
(*                                                                          *)
(* CompletedWasFlown is about two ends of a chain.  The invariant follows  *)
(* the news from one to the other: what a drone's phase says of its part   *)
(* (PhasesAreTrue), what the aggregator kept of its progress               *)
(* (ReadingsAreTrue), what the last state message says of the mission      *)
(* (ReportIsTrue); and of the simulated swarm, that no drone that flies the*)
(* waypoints comes down before the last of them (LandsAtTheEnd).           *)
(*                                                                          *)
(* SettledLogAgrees is about the time between writes.  SettledInv says what*)
(* holds during one: where the mission the swarm is bound for, the request *)
(* that ordered it and the log stand to each other from the message's      *)
(* leaving to the log's last change.                                       *)
(***************************************************************************)

ConfigurationOK ==
    /\ deployment \in Deployments
    /\ begun \in 0 .. deployment.writes
    /\ restarts \in 0 .. deployment.restarts
    /\ doubt \in BOOLEAN

PhasesAreTrue ==
    \A d \in Drones :
        /\ flight[d].phase \in {"flying", "done", "landed"} => flight[d].mission \in Missions
        /\ flight[d].phase \in {"done", "landed"} => d \in finished[flight[d].mission]

ReadingsAreTrue ==
    \A d \in Drones : readings[d].complete =>
        readings[d].mission \in Missions /\ d \in finished[readings[d].mission]

IsTrue(report) ==
    report.complete =>
        report.mission \in Missions /\ crew[report.mission] \subseteq finished[report.mission]

ReportIsTrue == IsTrue(lastState)

AtTheEnd(drone) == drone.status \in {"Landing", "Landed"} => drone.index = Waypoints

LandsAtTheEnd ==
    simActive # NoMission => override = "none" /\ \A d \in Leading : AtTheEnd(sim[d])

\* What is invariant of each part, and of the parts together.
SwarmInv == SwarmTypeOK /\ PhasesAreTrue /\ ReadingsAreTrue
SimInv == SimTypeOK /\ LandsAtTheEnd
ApiInv ==
    /\ ConfigurationOK
    /\ ConnectionInv
    /\ ServiceOK
    /\ SwarmInv
    /\ SimInv
    /\ StoreInv
    /\ ReportIsTrue
    /\ CompletedWasFlown

-----------------------------------------------------------------------------
(* The simulated swarm. *)

DroneRecords == [status : SimStatuses, index : 0 .. Waypoints]

LEMMA DescendedDrone ==
    ASSUME NEW drone \in DroneRecords, NEW after \in Descended(drone)
    PROVE  after \in DroneRecords /\ after.index = drone.index
BY DEF DroneRecords, Descended, SimStatuses

LEMMA FlownDrone ==
    ASSUME NEW drone \in DroneRecords, NEW after \in FlownWaypoints(drone)
    PROVE  after \in DroneRecords /\ (AtTheEnd(drone) => AtTheEnd(after))
<1>1. CASE drone.status = "Landed"
  BY <1>1 DEF FlownWaypoints
<1>2. CASE drone.status # "Landed" /\ drone.index >= Waypoints
  <2>1. after \in Descended(drone)
    BY <1>2 DEF FlownWaypoints
  <2>2. drone.index = Waypoints
    BY <1>2, SimulatedAssumption DEF DroneRecords
  <2>3. QED
    BY <2>1, <2>2, DescendedDrone DEF AtTheEnd
<1>3. CASE drone.status # "Landed" /\ ~(drone.index >= Waypoints)
  <2>1. PICK arrived \in {0, 1} :
            LET on == [drone EXCEPT !.index = drone.index + arrived] IN
            after \in IF on.index >= Waypoints THEN Descended(on)
                      ELSE {[on EXCEPT !.status = s] :
                              s \in IF on.index = 0 THEN {"TakingOff", "InFlight"} ELSE {"InFlight"}}
    BY <1>3 DEF FlownWaypoints
  <2> DEFINE on == [drone EXCEPT !.index = drone.index + arrived]
  <2>2. on \in DroneRecords /\ on.index \in 0 .. Waypoints
    BY <1>3, SimulatedAssumption DEF DroneRecords
  <2>3. CASE on.index >= Waypoints
    <3>1. after \in Descended(on)
      BY <2>1, <2>3
    <3>2. on.index = Waypoints
      <4> HIDE DEF on
      <4>1. QED
        BY <2>2, <2>3, SimulatedAssumption
    <3> HIDE DEF on
    <3>3. QED
      BY <2>2, <3>1, <3>2, DescendedDrone DEF AtTheEnd
  <2>4. CASE ~(on.index >= Waypoints)
    <3>1. PICK s \in {"TakingOff", "InFlight"} : after = [on EXCEPT !.status = s]
      BY <2>1, <2>4
    <3>2. QED
      BY <2>2, <3>1 DEF AtTheEnd, DroneRecords, SimStatuses
  <2>5. QED
    BY <2>3, <2>4
<1>4. QED
  BY <1>1, <1>2, <1>3

LEMMA OrderedDrone ==
    ASSUME override \in Commands, NEW drone \in DroneRecords, NEW after \in ExecutedCommand(drone)
    PROVE  after \in DroneRecords
BY DescendedDrone DEF ExecutedCommand, Commands, DroneRecords, SimStatuses

LEMMA FollowingDrone ==
    ASSUME NEW drone \in DroneRecords, NEW leader, NEW after \in FollowedLeader(drone, leader)
    PROVE  after \in DroneRecords
BY DescendedDrone DEF FollowedLeader, DroneRecords, SimStatuses

\* Each drone makes a step of its own or none.
LEMMA AdvancedDrones ==
    ASSUME NEW after \in Advanced
    PROVE  after = sim \/ (/\ after = [d \in SimCrew |-> after[d]]
                           /\ \A d \in SimCrew : \E leader : after[d] \in Stepped(d, leader))
<1>1. CASE after = sim
  BY <1>1
<1>2. CASE after # sim
  <2>1. PICK leader \in Stepped(1, sim[1]) :
            LET steps == [d \in SimCrew |-> IF d = 1 THEN {leader} ELSE Stepped(d, leader)] IN
            after \in {f \in [SimCrew -> UNION {steps[d] : d \in SimCrew}] :
                         \A d \in SimCrew : f[d] \in steps[d]}
    BY <1>2 DEF Advanced
  <2>2. \A d \in SimCrew : after[d] \in IF d = 1 THEN {leader} ELSE Stepped(d, leader)
    BY <2>1
  <2>3. QED
    BY <2>1, <2>2
<1>3. QED
  BY <1>1, <1>2

LEMMA AdvanceInv ==
    ASSUME SimInv, Advance
    PROVE  /\ sim' \in [SimCrew -> DroneRecords]
           /\ simFlown' \subseteq Missions
           /\ simActive # NoMission => \A d \in Leading : AtTheEnd(sim'[d])
<1> USE DEF SimInv
<1>1. /\ sim \in [SimCrew -> DroneRecords]
      /\ override \in Commands \cup {"none"}
      /\ simActive \in Missions \cup {NoMission}
      /\ simFlown \subseteq Missions
  BY DEF SimTypeOK, DroneRecords
<1>2. simFlown' \subseteq Missions
  BY <1>1 DEF Advance
<1>3. CASE sim' = sim
  BY <1>1, <1>2, <1>3 DEF LandsAtTheEnd
<1>4. CASE sim' # sim
  <2>1. /\ sim' = [d \in SimCrew |-> sim'[d]]
        /\ \A d \in SimCrew : \E leader : sim'[d] \in Stepped(d, leader)
    BY <1>4, AdvancedDrones DEF Advance
  <2>2. ASSUME NEW d \in SimCrew, NEW leader, sim'[d] \in Stepped(d, leader)
        PROVE  sim'[d] \in DroneRecords
    <3>1. CASE override # "none"
      BY <1>1, <2>2, <3>1, OrderedDrone DEF Stepped
    <3>2. CASE override = "none"
      BY <1>1, <2>2, <3>2, FollowingDrone, FlownDrone DEF Stepped
    <3>3. QED
      BY <3>1, <3>2
  <2>3. \A d \in SimCrew : sim'[d] \in DroneRecords
    BY <2>1, <2>2
  <2>4. sim' \in [SimCrew -> DroneRecords]
    BY <2>1, <2>3
  <2>5. ASSUME simActive # NoMission, NEW d \in Leading PROVE AtTheEnd(sim'[d])
    <3>1. override = "none" /\ AtTheEnd(sim[d]) /\ d \in SimCrew
      BY <2>5, SimulatedAssumption DEF LandsAtTheEnd, Leading, SimCrew
    <3>2. PICK leader : sim'[d] \in Stepped(d, leader)
      BY <2>1, <3>1
    <3>3. sim'[d] \in FlownWaypoints(sim[d])
      BY <2>5, <3>1, <3>2 DEF Stepped, Leading
    <3>4. QED
      BY <1>1, <3>1, <3>3, FlownDrone
  <2>6. QED
    BY <1>2, <2>4, <2>5
<1>5. QED
  BY <1>3, <1>4

LEMMA SimStepInv ==
    ASSUME SimInv, [SimNext]_simVars
    PROVE  SimInv'
<1> USE DEF SimInv
<1>1. ASSUME NEW m \in Missions, SimDispatch(m) PROVE SimInv'
  <2>1. sim' = [d \in SimCrew |-> [status |-> "TakingOff", index |-> 0]] /\ 0 \in 0 .. Waypoints
    BY <1>1, SimulatedAssumption DEF SimDispatch
  <2>2. sim' \in [SimCrew -> [status : SimStatuses, index : 0 .. Waypoints]]
    BY <2>1 DEF SimStatuses
  <2>3. SimTypeOK'
    BY <1>1, <2>2 DEF SimDispatch, SimTypeOK
  <2>4. \A d \in Leading' : d \in SimCrew
    BY SimulatedAssumption DEF Leading, SimCrew
  <2>5. \A d \in Leading' : AtTheEnd(sim'[d])
    BY <2>1, <2>4 DEF AtTheEnd
  <2>6. QED
    BY <1>1, <2>3, <2>5 DEF SimDispatch, LandsAtTheEnd
<1>2. ASSUME NEW command \in Commands, SimCommand(command) PROVE SimInv'
  <2>1. Advance /\ override' = command /\ simActive' = 0 /\ UNCHANGED simFormation
    BY <1>2 DEF SimCommand
  <2>2. QED
    BY <2>1, AdvanceInv DEF SimTypeOK, DroneRecords, LandsAtTheEnd, NoMission
<1>3. CASE SimRead
  <2>1. Advance /\ UNCHANGED <<override, simActive, simFormation>>
    BY <1>3 DEF SimRead
  <2>2. QED
    BY <2>1, AdvanceInv DEF SimTypeOK, DroneRecords, LandsAtTheEnd, Leading
<1>4. CASE SimRestarts
  <2>1. sim' = NoDrones /\ 0 \in 0 .. Waypoints /\ simActive' = 0
    BY <1>4, SimulatedAssumption DEF SimRestarts
  <2>2. sim' \in [SimCrew -> [status : SimStatuses, index : 0 .. Waypoints]]
    BY <2>1 DEF NoDrones, SimStatuses
  <2>3. QED
    BY <1>4, <2>1, <2>2 DEF SimRestarts, SimTypeOK, LandsAtTheEnd, NoMission
<1>5. CASE UNCHANGED simVars
  BY <1>5 DEF simVars, SimTypeOK, LandsAtTheEnd, Leading
<1>6. QED
  BY <1>1, <1>2, <1>3, <1>4, <1>5 DEF SimNext

\* A read that finds the mission complete finds it flown.
LEMMA SimReportIsTrue ==
    ASSUME SimInv, SimRead, SimReport(sim').complete
    PROVE  SimReport(sim').mission \in simFlown'
<1>1. Advance
  BY DEF SimRead
<1>2. simActive # NoMission /\ \A d \in SimCrew : sim'[d].status = "Landed"
  <2>1. simActive # 0 /\ \A d \in SimCrew : sim'[d].status = "Landed"
    BY DEF SimReport
  <2>2. QED
    BY <2>1 DEF NoMission
<1>3. \A d \in Leading : d \in SimCrew
  BY SimulatedAssumption DEF Leading, SimCrew
<1>4. \A d \in Leading : sim'[d].index = Waypoints
  BY <1>1, <1>2, <1>3, AdvanceInv DEF AtTheEnd
<1>5. simActive \in simFlown'
  BY <1>1, <1>2, <1>4 DEF Advance
<1>6. QED
  BY <1>5 DEF SimReport

-----------------------------------------------------------------------------
(* The swarm and its aggregator. *)

\* Beside its own steps, messages are put on its topics.
SwarmStep ==
    \/ SwarmNext
    \/ /\ missionTopic' \in Seq(Missions) /\ commandTopic' \in Nat
       /\ UNCHANGED <<crew, active, flight, readings, heard, finished>>

LEMMA SwarmStepInv ==
    ASSUME SwarmInv, [SwarmStep]_swarmVars
    PROVE  SwarmInv' /\ crew' = crew /\ \A m \in Missions : finished[m] \subseteq finished'[m]
<1> USE DEF SwarmInv
<1> DEFINE Goal == SwarmInv' /\ crew' = crew /\ \A m \in Missions : finished[m] \subseteq finished'[m]
<1>1. CASE OnMission
  <2> DEFINE m == Head(missionTopic)
  <2>1. /\ m \in Missions /\ Tail(missionTopic) \in Seq(Missions)
        /\ missionTopic' = Tail(missionTopic) /\ active' = m
        /\ UNCHANGED <<crew, commandTopic, readings, heard, finished>>
        /\ flight' = [d \in Drones |->
              CASE d \in crew[m] -> [mission |-> m, phase |-> "flying"]
                [] active # 0 /\ d \in crew[active] \ crew[m] -> [flight[d] EXCEPT !.phase = "stopped"]
                [] OTHER -> flight[d]]
    BY <1>1 DEF OnMission, SwarmTypeOK
  <2> HIDE DEF m
  <2>2. \A d \in Drones :
            \/ flight'[d] = [mission |-> m, phase |-> "flying"]
            \/ flight'[d] = [flight[d] EXCEPT !.phase = "stopped"]
            \/ flight'[d] = flight[d]
    BY <2>1
  <2>3. SwarmTypeOK'
    <3>1. flight' \in [Drones -> [mission : Missions \cup {NoMission},
                                 phase : {"idle", "flying", "done", "landed", "stopped"}]]
      BY <2>1, <2>2 DEF SwarmTypeOK
    <3>2. QED
      BY <2>1, <3>1 DEF SwarmTypeOK
  <2>4. PhasesAreTrue' /\ ReadingsAreTrue'
    BY <2>1, <2>2 DEF SwarmTypeOK, PhasesAreTrue, ReadingsAreTrue
  <2>5. QED
    BY <2>1, <2>3, <2>4
<1>2. CASE OnMissionRejected
  BY <1>2 DEF OnMissionRejected, SwarmTypeOK, PhasesAreTrue, ReadingsAreTrue
<1>3. CASE OnCommand
  <2>1. SwarmTypeOK'
    BY <1>3 DEF OnCommand, SwarmTypeOK, NoMission, NoTask
  <2>2. PhasesAreTrue' /\ ReadingsAreTrue'
    BY <1>3 DEF OnCommand, SwarmTypeOK, PhasesAreTrue, ReadingsAreTrue, NoTask
  <2>3. QED
    BY <1>3, <2>1, <2>2 DEF OnCommand
<1>4. CASE OnActiveMission
  BY <1>4 DEF OnActiveMission, SwarmTypeOK, PhasesAreTrue, ReadingsAreTrue
<1>5. ASSUME NEW d \in Drones, FinishPart(d) PROVE Goal
  <2>1. flight[d].mission \in Missions
    BY <1>5 DEF FinishPart, PhasesAreTrue
  <2>2. SwarmTypeOK'
    BY <1>5, <2>1 DEF FinishPart, SwarmTypeOK
  <2>3. \A m \in Missions : finished[m] \subseteq finished'[m]
    BY <1>5, <2>1 DEF FinishPart, SwarmTypeOK
  <2>4. d \in finished'[flight[d].mission]
    BY <1>5, <2>1 DEF FinishPart, SwarmTypeOK
  <2>5. PhasesAreTrue'
    BY <1>5, <2>1, <2>3, <2>4 DEF FinishPart, SwarmTypeOK, PhasesAreTrue
  <2>6. ReadingsAreTrue'
    BY <1>5, <2>3 DEF FinishPart, ReadingsAreTrue
  <2>7. QED
    BY <1>5, <2>2, <2>3, <2>5, <2>6 DEF FinishPart
<1>6. ASSUME NEW d \in Drones, TouchDown(d) PROVE Goal
  BY <1>6 DEF TouchDown, SwarmTypeOK, PhasesAreTrue, ReadingsAreTrue
<1>7. ASSUME NEW d \in Drones, OnProgress(d) PROVE Goal
  <2> DEFINE done == flight[d].phase \in {"done", "landed"}
  <2>1. /\ flight[d].mission # 0
        /\ readings' = [readings EXCEPT ![d].mission = flight[d].mission, ![d].complete = done]
        /\ UNCHANGED <<crew, missionTopic, commandTopic, active, flight, heard, finished>>
    BY <1>7 DEF OnProgress
  <2>2. /\ done \in BOOLEAN /\ flight[d].mission \in Missions
        /\ done => d \in finished[flight[d].mission]
    BY <2>1 DEF SwarmTypeOK, PhasesAreTrue, NoMission
  <2> HIDE DEF done
  <2>3. SwarmTypeOK'
    BY <2>1, <2>2 DEF SwarmTypeOK
  <2>4. PhasesAreTrue' /\ ReadingsAreTrue'
    BY <2>1, <2>2 DEF SwarmTypeOK, PhasesAreTrue, ReadingsAreTrue
  <2>5. QED
    BY <2>1, <2>3, <2>4
<1>8. ASSUME NEW d \in Drones, OnState(d) PROVE Goal
  <2>1. PICK disarmed \in BOOLEAN : readings' = [readings EXCEPT ![d].onGround = disarmed]
    BY <1>8 DEF OnState
  <2>2. UNCHANGED <<crew, missionTopic, commandTopic, active, flight, heard, finished>>
    BY <1>8 DEF OnState
  <2>3. QED
    BY <2>1, <2>2 DEF SwarmTypeOK, PhasesAreTrue, ReadingsAreTrue
<1>9. CASE /\ missionTopic' \in Seq(Missions) /\ commandTopic' \in Nat
           /\ UNCHANGED <<crew, active, flight, readings, heard, finished>>
  BY <1>9 DEF SwarmTypeOK, PhasesAreTrue, ReadingsAreTrue
<1>10. CASE UNCHANGED swarmVars
  BY <1>10 DEF swarmVars, SwarmTypeOK, PhasesAreTrue, ReadingsAreTrue
<1>11. QED
  BY <1>1, <1>2, <1>3, <1>4, <1>5, <1>6, <1>7, <1>8, <1>9, <1>10 DEF SwarmStep, SwarmNext

\* A state message that calls the mission complete is right about it.
LEMMA StateMessageIsTrue ==
    ASSUME SwarmInv
    PROVE  StateMessage \in MissionReports /\ IsTrue(StateMessage)
<1>1. heard \in Missions \cup {NoMission} /\ crew \in [Missions -> SUBSET Drones]
  BY DEF SwarmInv, SwarmTypeOK
<1>2. StateMessage \in MissionReports
  BY <1>1 DEF StateMessage, MissionReports, MissionComplete
<1>3. ASSUME StateMessage.complete PROVE heard \in Missions /\ crew[heard] \subseteq finished[heard]
  <2>1. heard # 0 /\ MissionComplete
    BY <1>3 DEF StateMessage
  <2>2. heard \in Missions
    BY <1>1, <2>1 DEF NoMission
  <2>3. QED
    BY <1>1, <2>1, <2>2 DEF MissionComplete, SwarmInv, ReadingsAreTrue
<1>4. QED
  BY <1>2, <1>3 DEF IsTrue, StateMessage

-----------------------------------------------------------------------------
(* A step of the whole is one of each part, or leaves it as it is. *)

Completions ==
    \/ NoneCompletes
    \/ ByRosBridge /\ OnlyCompletes(lastState)
    \/ ~ByRosBridge /\ SimRead /\ OnlyCompletes(SimReport(sim'))

PartsStep ==
    /\ ConfigurationOK' /\ deployment' = deployment
    /\ [ConnectionNext]_connectionVars /\ lastState' \in {lastState, NoReport, StateMessage}
    /\ ServiceOK' /\ Completions
    /\ [SwarmStep]_swarmVars
    /\ [SimNext]_simVars
    /\ [StoreNext]_storeVars

LEMMA LeftAlone ==
    /\ UNCHANGED connectionVars => UNCHANGED lastState
    /\ ServiceOK /\ UNCHANGED serviceVars => ServiceOK' /\ NoneCompletes
    /\ ConfigurationOK /\ UNCHANGED apiVars => ConfigurationOK' /\ deployment' = deployment
BY DEF connectionVars, serviceVars, apiVars, ServiceOK, NoneCompletes, ConfigurationOK

LEMMA BoundsAreNumbers ==
    ASSUME ConfigurationOK
    PROVE  /\ deployment.writes \in Nat /\ deployment.restarts \in Nat
           /\ begun \in Nat /\ restarts \in Nat
BY DeploymentAssumption DEF ConfigurationOK

LEMMA BeginWriteStep ==
    ASSUME ApiInv, NEW c \in Callers, BeginWrite(c)
    PROVE  ConfigurationOK' /\ deployment' = deployment
<1>1. begun < deployment.writes /\ begun' = begun + 1 /\ UNCHANGED <<deployment, restarts>>
  BY DEF BeginWrite
<1>2. doubt' \in BOOLEAN
  BY DEF BeginWrite, ApiInv, ConfigurationOK, Busy
<1>3. QED
  BY <1>1, <1>2, BoundsAreNumbers DEF ApiInv, ConfigurationOK

LEMMA PublishIfAskedStep ==
    ASSUME NEW c \in Callers, PublishIfAsked(c)
    PROVE  [ConnectionNext]_connectionVars /\ lastState' = lastState
BY DEF PublishIfAsked, Publish, ConnectionNext, Publishing, connectionVars

LEMMA RequestStep ==
    ASSUME ApiInv, NEW c \in Callers,
           CreateMission(c) \/ AbortMission(c) \/ LandAll(c) \/ IngestRun(c)
    PROVE  PartsStep
<1> USE DEF ApiInv, PartsStep, Completions
<1>1. CASE CreateMission(c)
  <2>1. BeginWrite(c) /\ PublishIfAsked(c) /\ UNCHANGED simVars /\ UNCHANGED <<swarmVars, storeVars>>
    BY <1>1 DEF CreateMission, BeginWrite
  <2>2. ServiceOK' /\ NoneCompletes
    BY <1>1, WriteStep DEF CreateMission
  <2>3. QED
    BY <2>1, <2>2, BeginWriteStep, PublishIfAskedStep
<1>2. CASE AbortMission(c)
  <2>1. BeginWrite(c) /\ PublishIfAsked(c) /\ UNCHANGED <<swarmVars, storeVars>>
    BY <1>2 DEF AbortMission, BeginWrite
  <2>2. CASE ByRosBridge
    <3>1. UNCHANGED simVars /\ \E m \in Missions : BeginAbort(c, m, lastState)
      BY <1>2, <2>2 DEF AbortMission
    <3>2. ServiceOK' /\ OnlyCompletes(lastState)
      BY <3>1, ReadStep
    <3>3. QED
      BY <2>1, <2>2, <3>1, <3>2, BeginWriteStep, PublishIfAskedStep
  <2>3. CASE ~ByRosBridge
    <3>1. SimRead /\ \E m \in Missions : BeginAbort(c, m, SimReport(sim'))
      BY <1>2, <2>3 DEF AbortMission
    <3>2. ServiceOK' /\ OnlyCompletes(SimReport(sim'))
      BY <3>1, ReadStep
    <3>3. QED
      BY <2>1, <2>3, <3>1, <3>2, BeginWriteStep, PublishIfAskedStep DEF SimNext
  <2>4. QED
    BY <2>2, <2>3
<1>3. CASE LandAll(c)
  <2>1. BeginWrite(c) /\ PublishIfAsked(c) /\ UNCHANGED simVars /\ UNCHANGED <<swarmVars, storeVars>>
    BY <1>3 DEF LandAll, BeginWrite
  <2>2. ServiceOK' /\ NoneCompletes
    BY <1>3, WriteStep DEF LandAll
  <2>3. QED
    BY <2>1, <2>2, BeginWriteStep, PublishIfAskedStep
<1>4. CASE IngestRun(c)
  BY <1>4, LeftAlone DEF IngestRun, StoreNext
<1>5. QED
  BY <1>1, <1>2, <1>3, <1>4

LEMMA GetStateStep ==
    ASSUME ApiInv, GetState
    PROVE  PartsStep
<1> USE DEF ApiInv, PartsStep, Completions
<1>1. UNCHANGED <<connectionVars, swarmVars, storeVars, apiVars>>
  BY DEF GetState
<1>2. CASE ByRosBridge
  <2>1. UNCHANGED simVars /\ ReadState(lastState)
    BY <1>2 DEF GetState
  <2>2. QED
    BY <1>1, <1>2, <2>1, ReadStep, LeftAlone
<1>3. CASE ~ByRosBridge
  <2>1. SimRead /\ ReadState(SimReport(sim'))
    BY <1>3 DEF GetState
  <2>2. QED
    BY <1>1, <1>3, <2>1, ReadStep, LeftAlone DEF SimNext
<1>4. QED
  BY <1>2, <1>3

\* A message of a dispatch names a mission.
LEMMA DeliveredStep ==
    ASSUME ApiInv, NEW c \in Callers, Delivered(c)
    PROVE  SwarmStep
<1>1. missionTopic \in Seq(Missions) /\ commandTopic \in Nat
  BY DEF ApiInv, SwarmInv, SwarmTypeOK
<1>2. missionTopic' \in Seq(Missions) /\ commandTopic' \in Nat
  <2>1. CASE request[c].op = "dispatch"
    <3>1. request[c].mission \in Missions
      BY <2>1 DEF ApiInv, ServiceOK
    <3>2. missionTopic' = Append(missionTopic, request[c].mission) /\ commandTopic' = commandTopic
      BY <2>1 DEF Delivered
    <3>3. QED
      BY <1>1, <3>1, <3>2
  <2>2. CASE request[c].op # "dispatch"
    BY <1>1, <2>2 DEF Delivered
  <2>3. QED
    BY <2>1, <2>2
<1>3. QED
  BY <1>2 DEF Delivered, SwarmStep

LEMMA SendingStep ==
    ASSUME ApiInv, NEW c \in Callers, Sending(c)
    PROVE  PartsStep
<1> USE DEF ApiInv, PartsStep, Completions
<1>1. CASE ByConnection(Refuse(c) \/ StartSend(c))
  <2>1. ConnectionNext /\ lastState' = lastState
    BY <1>1 DEF ByConnection, Refuse, StartSend, ConnectionNext, Publishing
  <2>2. QED
    BY <1>1, <2>1, LeftAlone DEF ByConnection
<1>2. CASE SendDelivers(c)
  <2>1. ConnectionNext /\ lastState' = lastState
    BY <1>2 DEF SendDelivers, SendSucceeds, ConnectionNext, Publishing
  <2>2. QED
    BY <1>2, <2>1, LeftAlone, DeliveredStep DEF SendDelivers
<1>3. CASE SendIsLost(c)
  <2>1. ConnectionNext /\ lastState' = lastState
    BY <1>3 DEF SendIsLost, SendSucceeds, ConnectionNext, Publishing
  <2>2. QED
    BY <1>3, <2>1, LeftAlone DEF SendIsLost, ConfigurationOK
<1>4. CASE SendFailsInDoubt(c)
  <2>1. ConnectionNext /\ lastState' = lastState
    BY <1>4 DEF SendFailsInDoubt, SendFails, ConnectionNext, Publishing
  <2>2. [SwarmStep]_swarmVars
    BY <1>4, DeliveredStep DEF SendFailsInDoubt
  <2>3. QED
    BY <1>4, <2>1, <2>2, LeftAlone DEF SendFailsInDoubt, ConfigurationOK
<1>5. QED
  BY <1>1, <1>2, <1>3, <1>4 DEF Sending

LEMMA AnswerStep ==
    ASSUME ApiInv, NEW c \in Callers, Answered(c) \/ Simulated(c) \/ Logging(c) \/ Storing(c)
    PROVE  PartsStep
<1> USE DEF ApiInv, PartsStep, Completions
<1>1. CASE Answered(c)
  <2>1. ConnectionNext /\ lastState' = lastState
    BY <1>1 DEF Answered, Return, ConnectionNext, Publishing
  <2>2. ServiceOK' /\ NoneCompletes
    BY <1>1, WriteStep DEF Answered
  <2>3. QED
    BY <1>1, <2>1, <2>2, LeftAlone DEF Answered
<1>2. CASE Simulated(c)
  <2>1. UNCHANGED <<connectionVars, swarmVars, storeVars, apiVars>> /\ BridgeAccepts(c)
    BY <1>2 DEF Simulated
  <2>2. ServiceOK' /\ NoneCompletes
    BY <2>1, WriteStep
  <2>3. request[c].op \in {"dispatch", "abort", "land"}
    BY <2>1 DEF BridgeAccepts, ServiceOK
  <2>4. SimNext
    <3>1. CASE request[c].op = "dispatch"
      BY <1>2, <3>1 DEF Simulated, ServiceOK, SimNext
    <3>2. CASE request[c].op = "abort"
      BY <1>2, <3>2 DEF Simulated, SimNext
    <3>3. CASE request[c].op = "land"
      BY <1>2, <3>3 DEF Simulated, SimNext, Commands
    <3>4. QED
      BY <2>3, <3>1, <3>2, <3>3
  <2>5. QED
    BY <2>1, <2>2, <2>4, LeftAlone
<1>3. CASE Logging(c)
  <2>1. ServiceOK' /\ NoneCompletes
    BY <1>3, WriteStep DEF Logging
  <2>2. QED
    BY <1>3, <2>1, LeftAlone DEF Logging
<1>4. CASE Storing(c)
  BY <1>4, LeftAlone DEF Storing, StoreNext
<1>5. QED
  BY <1>1, <1>2, <1>3, <1>4

\* What happens without a request.
LEMMA BackgroundStep ==
    ASSUME ApiInv,
           \/ \E c \in Callers : ByConnection(Cancel(c))
           \/ LoopGoesOn \/ InService \/ ConnectionFails \/ PublishState
    PROVE  PartsStep
<1> USE DEF ApiInv, PartsStep, Completions
<1>1. ConnectionNext /\ lastState' \in {lastState, StateMessage}
  <2>1. ASSUME NEW c \in Callers, ByConnection(Cancel(c))
        PROVE  ConnectionNext /\ lastState' = lastState
    BY <2>1 DEF ByConnection, Cancel, ConnectionNext, Publishing
  <2>2. CASE LoopGoesOn
    BY <2>2 DEF LoopGoesOn, ByConnection, Connect, ReceiveEnds, TakeOutOfService, Dispose,
                ConnectionNext, RunLoop
  <2>3. CASE InService
    BY <2>3 DEF InService, ByConnection, Install, ConnectionNext, RunLoop
  <2>4. CASE ConnectionFails
    BY <2>4 DEF ConnectionFails, ByConnection, GreetingFails, PeerGoesAway, ConnectionNext, RunLoop
  <2>5. CASE PublishState
    <3>1. ReceiveState(StateMessage)
      BY <2>5 DEF PublishState, ByConnection
    <3>2. RunLoop
      BY <3>1, StateMessageIsTrue DEF RunLoop
    <3>3. QED
      BY <3>1, <3>2 DEF ReceiveState, ConnectionNext
  <2>6. QED
    BY <2>1, <2>2, <2>3, <2>4, <2>5
<1>2. UNCHANGED <<serviceVars, swarmVars, simVars, storeVars, apiVars>>
  BY DEF LoopGoesOn, InService, ConnectionFails, PublishState, ByConnection
<1>3. QED
  BY <1>1, <1>2, LeftAlone

LEMMA SwarmSideStep ==
    ASSUME ApiInv, SwarmFlies \/ Hears \/ SwarmRejects
    PROVE  PartsStep
<1> USE DEF ApiInv, PartsStep, Completions
<1>1. SwarmStep
  BY DEF SwarmFlies, Hears, SwarmRejects, BySwarm, SwarmStep, SwarmNext
<1>2. UNCHANGED <<connectionVars, serviceVars, simVars, storeVars, deployment, begun, restarts>>
      /\ doubt' \in BOOLEAN
  BY DEF SwarmFlies, Hears, SwarmRejects, BySwarm, apiVars, ConfigurationOK
<1>3. QED
  BY <1>1, <1>2, LeftAlone DEF ConfigurationOK

LEMMA WholeRestartStep ==
    ASSUME ApiInv, Restart
    PROVE  PartsStep
<1> USE DEF ApiInv, PartsStep, Completions
<1>1. ConnectionNext /\ lastState' = NoReport
  BY DEF Restart, ConnectionRestarts, ConnectionNext
<1>2. SimNext /\ StoreNext /\ UNCHANGED swarmVars
  BY DEF Restart, SimNext, StoreNext
<1>3. ServiceOK' /\ NoneCompletes
  BY RestartStep DEF Restart
<1>4. ConfigurationOK' /\ deployment' = deployment
  BY BoundsAreNumbers DEF Restart, ConfigurationOK
<1>5. QED
  BY <1>1, <1>2, <1>3, <1>4

LEMMA NextIsPartsStep ==
    ASSUME ApiInv, [Next]_vars
    PROVE  PartsStep
<1>1. ASSUME NEW c \in Callers,
             CreateMission(c) \/ AbortMission(c) \/ LandAll(c) \/ IngestRun(c) \/ CallerStep(c)
      PROVE  PartsStep
  BY <1>1, RequestStep, SendingStep, AnswerStep DEF CallerStep
<1>2. CASE UNCHANGED vars
  BY <1>2, LeftAlone DEF vars, ApiInv, PartsStep, Completions
<1>3. QED
  BY <1>1, <1>2, GetStateStep, BackgroundStep, SwarmSideStep, WholeRestartStep DEF Next

\* Of the service's own steps, those that read get a report of the bridge at hand.
LEMMA ServiceStep ==
    ASSUME ApiInv, [Next]_vars
    PROVE  [ServiceNext]_serviceVars
<1>1. lastState \in MissionReports
  BY DEF ApiInv, ConnectionInv, ConnectionTypeOK
<1>2. SimReport(sim') \in MissionReports
  BY DEF SimReport, MissionReports, ApiInv, SimInv, SimTypeOK, NoMission
<1>3. ASSUME NEW c \in Callers,
             CreateMission(c) \/ AbortMission(c) \/ LandAll(c) \/ IngestRun(c)
      PROVE  [ServiceNext]_serviceVars
  BY <1>1, <1>2, <1>3 DEF CreateMission, AbortMission, LandAll, IngestRun, ServiceNext
<1>4. ASSUME NEW c \in Callers, Sending(c) \/ Storing(c) PROVE [ServiceNext]_serviceVars
  BY <1>4 DEF Sending, ByConnection, SendDelivers, SendIsLost, SendFailsInDoubt, Storing
<1>5. ASSUME NEW c \in Callers, Answered(c) \/ Simulated(c) \/ Logging(c)
      PROVE  [ServiceNext]_serviceVars
  BY <1>5 DEF Answered, Simulated, Logging, ServiceNext
<1>6. CASE GetState
  BY <1>1, <1>2, <1>6 DEF GetState, ServiceNext
<1>7. CASE (\E c \in Callers : ByConnection(Cancel(c)))
           \/ LoopGoesOn \/ InService \/ ConnectionFails \/ PublishState
  BY <1>7 DEF LoopGoesOn, InService, ConnectionFails, PublishState, ByConnection
<1>8. CASE SwarmFlies \/ Hears \/ SwarmRejects
  BY <1>8 DEF SwarmFlies, Hears, SwarmRejects, BySwarm
<1>9. CASE Restart
  BY <1>9 DEF Restart, ServiceNext
<1>10. CASE UNCHANGED vars
  BY <1>10 DEF vars
<1>11. QED
  BY <1>3, <1>4, <1>5, <1>6, <1>7, <1>8, <1>9, <1>10 DEF Next, CallerStep

-----------------------------------------------------------------------------
(* The invariant. *)

LEMMA ApiInitInv ==
    ASSUME Init
    PROVE  ApiInv
<1>1. ConfigurationOK
  <2>1. deployment \in Deployments /\ begun = 0 /\ restarts = 0 /\ doubt = FALSE
    BY DEF Init
  <2>2. deployment.writes \in Nat /\ deployment.restarts \in Nat
    BY <2>1, DeploymentAssumption
  <2>3. 0 \in 0 .. deployment.writes /\ 0 \in 0 .. deployment.restarts
    BY <2>2
  <2>4. QED
    BY <2>1, <2>3 DEF ConfigurationOK
<1>2. ConnectionInv /\ StoreInv
  <2>1. deployment.store \in {"File", "InMemory"} /\ StoreInit(deployment.store)
    BY DeploymentAssumption DEF Init
  <2>2. QED
    BY <2>1, ConnectionInitInv, StoreInitInv DEF Init
<1>3. ServiceOK
  BY DEF Init, ServiceInit, ServiceOK, Statuses, Idle, NoMission
<1>4. SwarmInv
  <2>1. deployment.crew \in [Missions -> SUBSET Drones] /\ SwarmInit(deployment.crew)
    BY DeploymentAssumption DEF Init
  <2>2. QED
    BY <2>1 DEF SwarmInit, SwarmInv, SwarmTypeOK, PhasesAreTrue, ReadingsAreTrue, NoTask, Unheard,
                NoMission
<1>5. SimInv
  <2>1. sim = NoDrones /\ 0 \in 0 .. Waypoints
    BY SimulatedAssumption DEF Init, SimInit
  <2>2. sim \in [SimCrew -> [status : SimStatuses, index : 0 .. Waypoints]]
    BY <2>1 DEF NoDrones, SimStatuses
  <2>3. QED
    BY <2>2 DEF Init, SimInit, SimInv, SimTypeOK, LandsAtTheEnd, NoMission
<1>6. ReportIsTrue
  BY DEF Init, ConnectionInit, NoReport, ReportIsTrue, IsTrue
<1>7. CompletedWasFlown
  BY DEF Init, ServiceInit, CompletedWasFlown
<1>8. QED
  BY <1>1, <1>2, <1>3, <1>4, <1>5, <1>6, <1>7 DEF ApiInv

LEMMA FlownStaysFlown ==
    ASSUME [SimNext]_simVars
    PROVE  simFlown \subseteq simFlown'
BY DEF SimNext, SimDispatch, SimCommand, SimRead, SimRestarts, Advance, simVars

LEMMA ApiStepInv ==
    ASSUME ApiInv, [Next]_vars
    PROVE  ApiInv'
<1>1. PartsStep
  BY NextIsPartsStep
<1>2. ConnectionInv' /\ StoreInv' /\ SimInv' /\ ServiceOK' /\ ConfigurationOK'
  BY <1>1, ConnectionStepInv, StoreNextInv, SimStepInv DEF ApiInv, PartsStep
<1>3. SwarmInv' /\ crew' = crew /\ \A m \in Missions : finished[m] \subseteq finished'[m]
  BY <1>1, SwarmStepInv DEF ApiInv, PartsStep
<1>4. ReportIsTrue'
  <2>1. IsTrue(lastState) /\ IsTrue(NoReport) /\ IsTrue(StateMessage)
    BY StateMessageIsTrue DEF ApiInv, ReportIsTrue, IsTrue, NoReport
  <2>2. \A report : IsTrue(report) =>
            (report.complete => report.mission \in Missions
                                /\ crew'[report.mission] \subseteq finished'[report.mission])
    BY <1>3 DEF IsTrue
  <2>3. lastState' \in {lastState, NoReport, StateMessage}
    BY <1>1 DEF PartsStep
  <2>4. QED
    BY <2>1, <2>2, <2>3 DEF ReportIsTrue, IsTrue
<1>5. CompletedWasFlown'
  <2> SUFFICES ASSUME NEW m \in Missions, status'[m] = "Completed"
               PROVE  (IF ByRosBridge THEN crew[m] \subseteq finished[m] ELSE m \in simFlown)'
    BY DEF CompletedWasFlown
  <2>1. ByRosBridge' <=> ByRosBridge
    BY <1>1 DEF PartsStep, ByRosBridge
  <2>2. CASE status[m] = "Completed"
    <3>1. simFlown \subseteq simFlown'
      BY <1>1, FlownStaysFlown DEF PartsStep
    <3>2. IF ByRosBridge THEN crew[m] \subseteq finished[m] ELSE m \in simFlown
      BY <2>2 DEF ApiInv, CompletedWasFlown
    <3>3. QED
      BY <1>3, <2>1, <3>1, <3>2
  <2>3. CASE status[m] # "Completed" /\ ByRosBridge
    <3>1. lastState.complete /\ m = lastState.mission
      BY <1>1, <2>3 DEF PartsStep, Completions, NoneCompletes, OnlyCompletes
    <3>2. crew[m] \subseteq finished[m]
      BY <3>1 DEF ApiInv, ReportIsTrue, IsTrue
    <3>3. QED
      BY <1>3, <2>1, <2>3, <3>2
  <2>4. CASE status[m] # "Completed" /\ ~ByRosBridge
    <3>1. SimRead /\ SimReport(sim').complete /\ m = SimReport(sim').mission
      BY <1>1, <2>4 DEF PartsStep, Completions, NoneCompletes, OnlyCompletes
    <3>2. m \in simFlown'
      BY <3>1, SimReportIsTrue DEF ApiInv
    <3>3. QED
      BY <2>1, <2>4, <3>2
  <2>5. QED
    BY <2>2, <2>3, <2>4
<1>6. QED
  BY <1>2, <1>3, <1>4, <1>5 DEF ApiInv

-----------------------------------------------------------------------------
(* The log and the swarm, between writes.  While one write after the other is *)
(* made and answered, the log agrees with the mission the swarm is bound for, *)
(* except for the time from the message's leaving to the log's last change.   *)

\* The mission the swarm is on once it has got what is on its way to it.
BoundFor ==
    IF commandTopic > 0 THEN NoMission
    ELSE IF missionTopic # <<>> THEN Head(missionTopic)
    ELSE SwarmMission

NothingOnTheWay == missionTopic = <<>> /\ commandTopic = 0

\* The swarm has or will get what the request c asks for.
IsOrdered(c) == request[c].at \in {"log", "add"} \/ publish[c] = "sent"

LogAgrees ==
    /\ ActiveMissions \subseteq {BoundFor}
    /\ BoundFor # NoMission => status[BoundFor] \in {"Active", "Completed"}

\* A request waits for rosbridge as long as its publish has not been answered, and
\* nothing is on a topic without rosbridge.
PublishesItsRequest ==
    /\ \A c \in Callers : publish[c] # "idle" <=> ByRosBridge /\ request[c].at = "bridge"
    /\ ~ByRosBridge => NothingOnTheWay

OneAtATime ==
    /\ \A c, d \in Callers : request[c] # Idle /\ request[d] # Idle => c = d
    /\ \/ missionTopic = <<>> /\ commandTopic \in {0, 1}
       \/ missionTopic = <<Head(missionTopic)>> /\ commandTopic = 0
    /\ \A c \in Callers : request[c] # Idle /\ ~IsOrdered(c) => NothingOnTheWay

\* Where the log stands against what a request has ordered.
LogFollows(c) ==
    /\ request[c].op = "dispatch" => BoundFor = request[c].mission
    /\ request[c].at = "add" => request[c].op = "dispatch" /\ ActiveMissions = {}
    /\ request[c].op \in {"abort", "land"} => BoundFor = NoMission

SettledInv ==
    ~doubt =>
        /\ OneAtATime
        /\ (\A c \in Callers : ~IsOrdered(c)) => LogAgrees
        /\ \A c \in Callers : IsOrdered(c) => LogFollows(c)
        /\ \A c \in Callers : request[c].op = "abort" => ActiveMissions \subseteq {request[c].mission}

\* A report that is read makes an active mission a completed one, and nothing else.
OnlyRead ==
    \A m \in Missions :
        status'[m] = status[m] \/ (status[m] = "Active" /\ status'[m] = "Completed")

\* Neither a request nor the swarm's orders move; publishing may.
Quiet ==
    /\ UNCHANGED <<request, doubt, missionTopic, commandTopic, SwarmMission>>
    /\ ByRosBridge' = ByRosBridge
    /\ \A c \in Callers : /\ publish'[c] = "idle" <=> publish[c] = "idle"
                          /\ publish'[c] = "sent" <=> publish[c] = "sent"
    /\ OnlyRead

LEMMA BoundForType ==
    ASSUME SwarmTypeOK, SimTypeOK
    PROVE  BoundFor \in Missions \cup {NoMission}
<1>1. SwarmMission \in Missions \cup {NoMission}
  BY DEF SwarmMission, SwarmTypeOK, SimTypeOK
<1>2. missionTopic # <<>> => Head(missionTopic) \in Missions
  BY DEF SwarmTypeOK
<1>3. QED
  BY <1>1, <1>2 DEF BoundFor

\* Nobody without a request has ordered anything.
LEMMA OrderedIsBusy ==
    ASSUME PublishesItsRequest, NEW c \in Callers, IsOrdered(c)
    PROVE  request[c] # Idle
BY DEF PublishesItsRequest, IsOrdered, Idle

\* What a read does to the log changes nothing of this.
LEMMA ReadKeepsAgreement ==
    ASSUME SwarmTypeOK, SimTypeOK, OnlyRead, BoundFor' = BoundFor
    PROVE  /\ ActiveMissions' \subseteq ActiveMissions
           /\ LogAgrees => LogAgrees'
<1>1. ActiveMissions' \subseteq ActiveMissions
  BY DEF OnlyRead, ActiveMissions
<1>2. ASSUME LogAgrees, BoundFor # NoMission PROVE status'[BoundFor] \in {"Active", "Completed"}
  <2>1. BoundFor \in Missions
    BY <1>2, BoundForType
  <2>2. status'[BoundFor] = status[BoundFor] \/ status'[BoundFor] = "Completed"
    BY <2>1 DEF OnlyRead
  <2>3. QED
    BY <1>2, <2>2 DEF LogAgrees
<1>3. LogAgrees => LogAgrees'
  BY <1>1, <1>2 DEF LogAgrees
<1>4. QED
  BY <1>1, <1>3

LEMMA QuietKeepsLog ==
    ASSUME SwarmTypeOK, SimTypeOK, PublishesItsRequest, SettledInv, Quiet
    PROVE  PublishesItsRequest' /\ SettledInv'
<1>1. PublishesItsRequest'
  BY DEF Quiet, PublishesItsRequest, NothingOnTheWay
<1>2. BoundFor' = BoundFor /\ (NothingOnTheWay' <=> NothingOnTheWay)
  BY DEF Quiet, BoundFor, NothingOnTheWay
<1>3. \A c \in Callers : IsOrdered(c)' <=> IsOrdered(c)
  BY DEF Quiet, IsOrdered
<1>4. ActiveMissions' \subseteq ActiveMissions /\ (LogAgrees => LogAgrees')
  BY <1>2, ReadKeepsAgreement DEF Quiet
<1>5. ASSUME ~doubt' PROVE SettledInv'
  <2>1. ~doubt /\ request' = request /\ missionTopic' = missionTopic /\ commandTopic' = commandTopic
    BY <1>5 DEF Quiet
  <2>2. OneAtATime'
    BY <1>2, <1>3, <2>1 DEF SettledInv, OneAtATime
  <2>3. \A c \in Callers : IsOrdered(c)' => LogFollows(c)'
    BY <1>2, <1>3, <1>4, <2>1 DEF SettledInv, LogFollows
  <2>4. \A c \in Callers : request'[c].op = "abort" => ActiveMissions' \subseteq {request'[c].mission}
    BY <1>4, <2>1 DEF SettledInv
  <2>5. QED
    BY <1>3, <1>4, <2>1, <2>2, <2>3, <2>4 DEF SettledInv
<1>6. QED
  BY <1>1, <1>5 DEF SettledInv

\* Where a message is taken off its topic, the swarm goes where it was bound for.
LEMMA TakingKeepsLog ==
    ASSUME SwarmTypeOK, SimTypeOK, PublishesItsRequest, SettledInv,
           BySwarm(OnMission \/ OnCommand)
    PROVE  PublishesItsRequest' /\ SettledInv'
<1>1. /\ UNCHANGED <<request, status, publish, doubt>>
      /\ ByRosBridge /\ ByRosBridge' = ByRosBridge
      /\ SwarmMission = active /\ SwarmMission' = active'
      /\ OnMission \/ OnCommand
  BY DEF BySwarm, connectionVars, serviceVars, apiVars, ByRosBridge, SwarmMission
<1>2. PublishesItsRequest'
  BY <1>1 DEF PublishesItsRequest
<1>3. ASSUME ~doubt' PROVE SettledInv'
  <2>1. SettledInv /\ ~doubt /\ OneAtATime
    BY <1>1, <1>3 DEF SettledInv
  <2>2. NothingOnTheWay' /\ ~NothingOnTheWay
    <3>1. CASE OnMission
      <4>1. missionTopic = <<Head(missionTopic)>> /\ commandTopic = 0
        BY <2>1, <3>1 DEF OneAtATime, OnMission
      <4>2. missionTopic' = Tail(missionTopic) /\ commandTopic' = commandTopic
        BY <3>1 DEF OnMission
      <4>3. missionTopic' = <<>>
        BY <4>1, <4>2
      <4>4. QED
        BY <3>1, <4>1, <4>2, <4>3 DEF OnMission, NothingOnTheWay
    <3>2. CASE OnCommand
      BY <2>1, <3>2 DEF OneAtATime, OnCommand, NothingOnTheWay
    <3>3. QED
      BY <1>1, <3>1, <3>2
  <2>3. BoundFor' = BoundFor
    <3>1. CASE OnMission
      BY <1>1, <2>1, <2>2, <3>1
         DEF OneAtATime, OnMission, BoundFor, NothingOnTheWay
    <3>2. CASE OnCommand
      BY <1>1, <2>1, <2>2, <3>2
         DEF OneAtATime, OnCommand, BoundFor, NothingOnTheWay, NoMission
    <3>3. QED
      BY <1>1, <3>1, <3>2
  <2>4. ActiveMissions' = ActiveMissions /\ \A c \in Callers : IsOrdered(c)' <=> IsOrdered(c)
    BY <1>1 DEF ActiveMissions, IsOrdered
  <2>5. OneAtATime'
    BY <1>1, <2>1, <2>2, <2>4 DEF OneAtATime, NothingOnTheWay
  <2>6. LogAgrees' <=> LogAgrees
    BY <1>1, <2>3, <2>4 DEF LogAgrees
  <2>7. \A c \in Callers : LogFollows(c)' <=> LogFollows(c)
    BY <1>1, <2>3, <2>4 DEF LogFollows
  <2>8. QED
    BY <1>1, <2>1, <2>4, <2>5, <2>6, <2>7 DEF SettledInv
<1>4. QED
  BY <1>2, <1>3 DEF SettledInv

\* What is done in doubt need not be followed.
LEMMA DoubtKeepsLog ==
    ASSUME ApiInv, PublishesItsRequest, doubt',
           \/ \E c \in Callers : SendIsLost(c) \/ SendFailsInDoubt(c)
           \/ SwarmRejects \/ Restart
    PROVE  PublishesItsRequest' /\ SettledInv'
<1>1. SettledInv'
  BY DEF SettledInv
<1>2. ASSUME NEW c \in Callers, SendIsLost(c) \/ SendFailsInDoubt(c)
      PROVE  PublishesItsRequest'
  <2>1. /\ publish[c] = "sending" /\ ByRosBridge /\ ByRosBridge' = ByRosBridge /\ request' = request
        /\ publish' \in {[publish EXCEPT ![c] = "sent"], [publish EXCEPT ![c] = "failed"]}
    BY <1>2 DEF SendIsLost, SendFailsInDoubt, SendSucceeds, SendFails, PublishesItsRequest, serviceVars,
                ByRosBridge
  <2>2. publish \in [Callers -> {"idle", "waiting", "sending", "sent", "failed"}]
    BY DEF ApiInv, ConnectionInv, ConnectionTypeOK
  <2>3. QED
    BY <2>1, <2>2 DEF PublishesItsRequest
<1>3. CASE SwarmRejects
  BY <1>1, <1>3 DEF SwarmRejects, OnMissionRejected, PublishesItsRequest, connectionVars,
                    serviceVars, ByRosBridge
<1>4. CASE Restart
  <2>1. publish' = [c \in Callers |-> "idle"] /\ request' = [c \in Callers |-> Idle]
    BY <1>4 DEF Restart, ConnectionRestarts, ServiceRestarts
  <2>2. UNCHANGED <<missionTopic, commandTopic>> /\ ByRosBridge' = ByRosBridge
    BY <1>4 DEF Restart, swarmVars, ByRosBridge
  <2>3. QED
    BY <1>1, <2>1, <2>2 DEF PublishesItsRequest, NothingOnTheWay, Idle
<1>5. QED
  BY <1>1, <1>2, <1>3, <1>4

\* Where nothing is under way, the log agrees.
LEMMA NotBusyAgrees ==
    ASSUME PublishesItsRequest, SettledInv, ~doubt, ~Busy
    PROVE  /\ \A c \in Callers : request[c] = Idle /\ ~IsOrdered(c)
           /\ NothingOnTheWay /\ LogAgrees /\ BoundFor = SwarmMission
<1>1. \A c \in Callers : request[c] = Idle
  BY DEF Busy
<1>2. \A c \in Callers : ~IsOrdered(c)
  BY <1>1, OrderedIsBusy
<1>3. OneAtATime
  BY DEF SettledInv
<1>4. NothingOnTheWay
  BY <1>3 DEF Busy, OneAtATime, NothingOnTheWay
<1>5. QED
  BY <1>1, <1>2, <1>4 DEF SettledInv, BoundFor, NothingOnTheWay

\* A write begins: it has not ordered anything yet.
LEMMA WriteBegins ==
    ASSUME ApiInv, PublishesItsRequest, SettledInv, NEW c \in Callers, NEW r,
           BeginWrite(c), PublishIfAsked(c), UNCHANGED SwarmMission,
           request[c] = Idle, r.at = "bridge",
           request' = request \/ request' = [request EXCEPT ![c] = r],
           ~doubt /\ ~Busy =>
              /\ LogAgrees'
              /\ request' # request /\ r.op = "abort" => ActiveMissions' \subseteq {r.mission}
    PROVE  PublishesItsRequest' /\ SettledInv'
<1>1. /\ publish \in [Callers -> {"idle", "waiting", "sending", "sent", "failed"}]
      /\ DOMAIN request = Callers
  BY DEF ApiInv, ConnectionInv, ConnectionTypeOK, ServiceOK
<1>2. /\ doubt' = (doubt \/ Busy)
      /\ UNCHANGED <<missionTopic, commandTopic>> /\ ByRosBridge' = ByRosBridge
  BY DEF BeginWrite, swarmVars, ByRosBridge
<1>3. r # Idle /\ publish[c] = "idle"
  BY DEF Idle, PublishesItsRequest
<1>4. /\ request'[c] = Idle \/ request'[c] = r
      /\ \A d \in Callers \ {c} : request'[d] = request[d]
      /\ request' = request \/ request'[c] = r
  BY <1>1
<1>5. publish' = IF ByRosBridge /\ request'[c] # Idle THEN [publish EXCEPT ![c] = "waiting"]
                 ELSE publish
  BY DEF PublishIfAsked, Publish, connectionVars
<1>6. PublishesItsRequest'
  <2>1. \A d \in Callers : publish'[d] # "idle" <=> ByRosBridge /\ request'[d].at = "bridge"
    BY <1>1, <1>3, <1>4, <1>5 DEF PublishesItsRequest, Idle
  <2>2. QED
    BY <1>2, <2>1 DEF PublishesItsRequest, NothingOnTheWay
<1>7. ASSUME ~doubt' PROVE SettledInv'
  <2>1. ~doubt /\ ~Busy /\ LogAgrees'
    BY <1>2, <1>7
  <2>2. NothingOnTheWay /\ \A d \in Callers : request[d] = Idle
    BY <2>1, NotBusyAgrees
  <2>3. NothingOnTheWay' /\ \A d \in Callers : request'[d] # Idle => d = c
    BY <1>2, <1>4, <2>2 DEF NothingOnTheWay
  <2>4. \A d \in Callers : ~IsOrdered(d)'
    <3>1. \A d \in Callers : request'[d].at \in {"none", "bridge"} /\ publish'[d] # "sent"
      BY <1>1, <1>4, <1>5, <2>2 DEF PublishesItsRequest, Idle
    <3>2. QED
      BY <3>1 DEF IsOrdered
  <2>5. OneAtATime'
    BY <2>3 DEF OneAtATime, NothingOnTheWay
  <2>6. \A d \in Callers : request'[d].op = "abort" => ActiveMissions' \subseteq {request'[d].mission}
    BY <1>4, <2>1, <2>2 DEF Idle
  <2>7. QED
    BY <2>1, <2>4, <2>5, <2>6 DEF SettledInv
<1>8. QED
  BY <1>6, <1>7 DEF SettledInv

LEMMA ReportOnlyReads ==
    ASSUME ServiceOK, NEW report, status' = Refreshed(status, report)
    PROVE  OnlyRead
BY DEF ServiceOK, Refreshed, TryEnd, OnlyRead

LEMMA BeginsKeepLog ==
    ASSUME ApiInv, PublishesItsRequest, SettledInv, NEW c \in Callers,
           CreateMission(c) \/ AbortMission(c) \/ LandAll(c)
    PROVE  PublishesItsRequest' /\ SettledInv'
<1>0. SwarmTypeOK /\ SimTypeOK /\ ServiceOK
  BY DEF ApiInv, SwarmInv, SimInv
<1>1. /\ BeginWrite(c) /\ PublishIfAsked(c)
      /\ UNCHANGED <<missionTopic, commandTopic, active>> /\ ByRosBridge' = ByRosBridge
  BY DEF CreateMission, AbortMission, LandAll, BeginWrite, swarmVars, ByRosBridge
<1>2. UNCHANGED <<SwarmMission, BoundFor>>
  <2>1. simActive' = simActive
    BY DEF CreateMission, AbortMission, LandAll, SimRead, simVars
  <2>2. QED
    BY <1>1, <2>1 DEF SwarmMission, BoundFor
<1>3. BoundFor \in Missions \cup {NoMission}
  BY <1>0, BoundForType
<1>4. ASSUME NEW m \in Missions, BeginDispatch(c, m) PROVE PublishesItsRequest' /\ SettledInv'
  <2>1. /\ request[c] = Idle /\ status[m] \in {"new", "sent"}
        /\ status' = [status EXCEPT ![m] = "sent"]
        /\ request' = [request EXCEPT ![c] = [op |-> "dispatch", mission |-> m, at |-> "bridge"]]
    BY <1>4 DEF BeginDispatch
  <2>2. LogAgrees => LogAgrees'
    BY <1>0, <1>2, <1>3, <2>1 DEF LogAgrees, ActiveMissions, ServiceOK
  <2>3. ~doubt /\ ~Busy => LogAgrees'
    BY <2>2, NotBusyAgrees
  <2> DEFINE r == [op |-> "dispatch", mission |-> m, at |-> "bridge"]
  <2>4. /\ request[c] = Idle /\ r.at = "bridge" /\ r.op # "abort"
        /\ request' = request \/ request' = [request EXCEPT ![c] = r]
    BY <2>1
  <2> HIDE DEF r
  <2>5. ~doubt /\ ~Busy =>
           /\ LogAgrees'
           /\ request' # request /\ r.op = "abort" => ActiveMissions' \subseteq {r.mission}
    BY <2>3, <2>4
  <2>6. QED
    BY <1>1, <1>2, <2>4, <2>5, WriteBegins
<1>5. ASSUME NEW m \in Missions, NEW report, BeginAbort(c, m, report)
      PROVE  PublishesItsRequest' /\ SettledInv'
  <2>1. /\ request[c] = Idle /\ status[m] = "Active" /\ status' = Refreshed(status, report)
        /\ \/ request' = [request EXCEPT ![c] = [op |-> "abort", mission |-> m, at |-> "bridge"]]
           \/ request' = request
    BY <1>5 DEF BeginAbort
  <2>2. ActiveMissions' \subseteq ActiveMissions /\ (LogAgrees => LogAgrees')
    BY <1>0, <1>2, <2>1, ReportOnlyReads, ReadKeepsAgreement
  <2>3. ~doubt /\ ~Busy => LogAgrees' /\ ActiveMissions' \subseteq {m}
    <3>1. m \in ActiveMissions
      BY <2>1 DEF ActiveMissions
    <3>2. QED
      BY <2>2, <3>1, NotBusyAgrees DEF LogAgrees
  <2> DEFINE r == [op |-> "abort", mission |-> m, at |-> "bridge"]
  <2>4. /\ request[c] = Idle /\ r.at = "bridge" /\ (r.op = "abort" => r.mission = m)
        /\ request' = request \/ request' = [request EXCEPT ![c] = r]
    BY <2>1
  <2> HIDE DEF r
  <2>5. ~doubt /\ ~Busy =>
           /\ LogAgrees'
           /\ request' # request /\ r.op = "abort" => ActiveMissions' \subseteq {r.mission}
    BY <2>3, <2>4
  <2>6. QED
    BY <1>1, <1>2, <2>4, <2>5, WriteBegins
<1>6. CASE BeginLandAll(c)
  <2>1. /\ request[c] = Idle /\ status' = status
        /\ request' = [request EXCEPT ![c] = [op |-> "land", mission |-> NoMission, at |-> "bridge"]]
    BY <1>6 DEF BeginLandAll
  <2>2. LogAgrees => LogAgrees'
    BY <1>2, <2>1 DEF LogAgrees, ActiveMissions
  <2>3. ~doubt /\ ~Busy => LogAgrees'
    BY <2>2, NotBusyAgrees
  <2> DEFINE r == [op |-> "land", mission |-> NoMission, at |-> "bridge"]
  <2>4. /\ request[c] = Idle /\ r.at = "bridge" /\ r.op # "abort"
        /\ request' = request \/ request' = [request EXCEPT ![c] = r]
    BY <2>1
  <2> HIDE DEF r
  <2>5. ~doubt /\ ~Busy =>
           /\ LogAgrees'
           /\ request' # request /\ r.op = "abort" => ActiveMissions' \subseteq {r.mission}
    BY <2>3, <2>4
  <2>6. QED
    BY <1>1, <1>2, <2>4, <2>5, WriteBegins
<1>7. QED
  BY <1>4, <1>5, <1>6 DEF CreateMission, AbortMission, LandAll

\* The message of the only request that is under way leaves.
LEMMA DeliveryKeepsLog ==
    ASSUME ApiInv, PublishesItsRequest, SettledInv, NEW c \in Callers, SendDelivers(c)
    PROVE  PublishesItsRequest' /\ SettledInv'
<1> USE DEF ApiInv
<1>1. /\ publish[c] = "sending" /\ publish' = [publish EXCEPT ![c] = "sent"]
      /\ UNCHANGED <<request, status, doubt, active>> /\ ByRosBridge' = ByRosBridge
      /\ Delivered(c)
  BY DEF SendDelivers, SendSucceeds, Delivered, serviceVars, apiVars, ByRosBridge
<1>2. publish \in [Callers -> {"idle", "waiting", "sending", "sent", "failed"}]
  BY DEF ConnectionInv, ConnectionTypeOK
<1>3. ByRosBridge /\ request[c].at = "bridge" /\ request[c] # Idle
  BY <1>1 DEF PublishesItsRequest, Idle
<1>4. PublishesItsRequest'
  BY <1>1, <1>2, <1>3 DEF PublishesItsRequest
<1>5. ASSUME ~doubt' PROVE SettledInv'
  <2>1. ~doubt /\ OneAtATime
    BY <1>1, <1>5 DEF SettledInv
  <2>2. NothingOnTheWay
    BY <1>1, <1>3, <2>1 DEF OneAtATime, IsOrdered
  <2>3. \A d \in Callers \ {c} : request[d] = Idle
    BY <1>3, <2>1 DEF OneAtATime
  <2>4. \A d \in Callers : IsOrdered(d)' <=> d = c
    <3>1. \A d \in Callers \ {c} : request'[d].at = "none" /\ publish'[d] = "idle"
      BY <1>1, <1>2, <2>3 DEF PublishesItsRequest, Idle
    <3>2. publish'[c] = "sent"
      BY <1>1, <1>2
    <3>3. QED
      BY <3>1, <3>2 DEF IsOrdered
  <2>5. CASE request[c].op = "dispatch"
    <3>1. missionTopic' = <<request[c].mission>> /\ commandTopic' = 0
      BY <1>1, <2>2, <2>5 DEF Delivered, NothingOnTheWay
    <3>2. missionTopic' = <<Head(missionTopic')>> /\ BoundFor' = request[c].mission
      BY <3>1 DEF BoundFor
    <3>3. OneAtATime'
      BY <1>1, <2>1, <2>3, <2>4, <3>1, <3>2 DEF OneAtATime, Idle
    <3>4. LogFollows(c)'
      BY <1>1, <1>3, <2>5, <3>2 DEF LogFollows
    <3>5. QED
      BY <1>1, <2>1, <2>4, <3>3, <3>4 DEF SettledInv, ActiveMissions
  <2>6. CASE request[c].op # "dispatch"
    <3>1. missionTopic' = <<>> /\ commandTopic' = 1
      BY <1>1, <2>2, <2>6 DEF Delivered, NothingOnTheWay
    <3>2. BoundFor' = NoMission
      BY <3>1 DEF BoundFor
    <3>3. OneAtATime'
      BY <1>1, <2>1, <2>3, <2>4, <3>1 DEF OneAtATime
    <3>4. LogFollows(c)'
      BY <1>1, <1>3, <2>6, <3>2 DEF LogFollows
    <3>5. QED
      BY <1>1, <2>1, <2>4, <3>3, <3>4 DEF SettledInv, ActiveMissions
  <2>7. QED
    BY <2>5, <2>6
<1>6. QED
  BY <1>4, <1>5 DEF SettledInv

\* The bridge's answer: what was sent is ordered still, what was not leaves nothing.
LEMMA AnswerKeepsLog ==
    ASSUME ApiInv, PublishesItsRequest, SettledInv, NEW c \in Callers, Answered(c)
    PROVE  PublishesItsRequest' /\ SettledInv'
<1>1. /\ publish \in [Callers -> {"idle", "waiting", "sending", "sent", "failed"}]
      /\ DOMAIN request = Callers
  BY DEF ApiInv, ConnectionInv, ConnectionTypeOK, ServiceOK
<1>2. /\ publish[c] \in {"sent", "failed"} /\ publish' = [publish EXCEPT ![c] = "idle"]
      /\ UNCHANGED <<status, doubt, missionTopic, commandTopic, SwarmMission>>
      /\ ByRosBridge /\ ByRosBridge' = ByRosBridge
  BY DEF Answered, Return, BridgeAccepts, BridgeRefuses, swarmVars, simVars, apiVars, ByRosBridge,
         SwarmMission
<1>3. request[c].at = "bridge" /\ request[c] # Idle
  BY <1>2 DEF PublishesItsRequest, Idle
<1>4. request' = IF publish[c] = "sent" THEN [request EXCEPT ![c].at = "log"]
                 ELSE [request EXCEPT ![c] = Idle]
  BY DEF Answered, BridgeAccepts, BridgeRefuses
<1>5. /\ request'[c].at \in {"log", "none"} /\ publish'[c] = "idle"
      /\ \A d \in Callers \ {c} : request'[d] = request[d] /\ publish'[d] = publish[d]
  BY <1>1, <1>2, <1>4 DEF Idle
<1>6. PublishesItsRequest'
  <2>1. \A d \in Callers : publish'[d] # "idle" <=> ByRosBridge /\ request'[d].at = "bridge"
    BY <1>5 DEF PublishesItsRequest
  <2>2. QED
    BY <1>2, <2>1 DEF PublishesItsRequest
<1>7. BoundFor' = BoundFor /\ (NothingOnTheWay' <=> NothingOnTheWay) /\ ActiveMissions' = ActiveMissions
  BY <1>2 DEF BoundFor, NothingOnTheWay, ActiveMissions
<1>8. ASSUME ~doubt' PROVE SettledInv'
  <2>1. ~doubt /\ OneAtATime
    BY <1>2, <1>8 DEF SettledInv
  <2>2. \A d \in Callers \ {c} : request[d] = Idle /\ request'[d] = Idle /\ ~IsOrdered(d)
    BY <1>3, <1>5, <2>1, OrderedIsBusy DEF OneAtATime
  <2>3. CASE publish[c] = "sent"
    <3>1. /\ request'[c].op = request[c].op /\ request'[c].mission = request[c].mission
          /\ request'[c].at = "log"
      BY <1>1, <1>4, <2>3 DEF ApiInv, ServiceOK
    <3>2. IsOrdered(c) /\ IsOrdered(c)'
      BY <2>3, <3>1 DEF IsOrdered
    <3>3. \A d \in Callers : IsOrdered(d)' <=> d = c
      BY <1>5, <2>2, <3>2 DEF IsOrdered
    <3>4. OneAtATime'
      BY <1>2, <2>1, <2>2, <3>2 DEF OneAtATime
    <3>5. LogFollows(c)'
      BY <1>7, <2>1, <3>1, <3>2 DEF SettledInv, LogFollows
    <3>6. \A d \in Callers : request'[d].op = "abort" => ActiveMissions' \subseteq {request'[d].mission}
      BY <1>7, <2>1, <2>2, <3>1 DEF SettledInv, Idle
    <3>7. QED
      BY <3>2, <3>3, <3>4, <3>5, <3>6 DEF SettledInv
  <2>4. CASE publish[c] # "sent"
    <3>1. ~IsOrdered(c) /\ \A d \in Callers : request'[d] = Idle
      BY <1>1, <1>3, <1>4, <2>2, <2>4 DEF IsOrdered
    <3>2. LogAgrees /\ LogAgrees'
      BY <1>2, <1>7, <2>1, <2>2, <3>1 DEF SettledInv, LogAgrees
    <3>3. \A d \in Callers : ~IsOrdered(d)'
      BY <1>2, <1>5, <2>2, <3>1 DEF IsOrdered, Idle
    <3>4. OneAtATime'
      BY <1>2, <2>1, <3>1 DEF OneAtATime
    <3>5. QED
      BY <3>1, <3>2, <3>3, <3>4 DEF SettledInv, Idle
  <2>5. QED
    BY <2>3, <2>4
<1>9. QED
  BY <1>6, <1>8 DEF SettledInv

\* The simulated bridge obeys before it answers.
LEMMA SimulatedKeepsLog ==
    ASSUME ApiInv, PublishesItsRequest, SettledInv, NEW c \in Callers, Simulated(c)
    PROVE  PublishesItsRequest' /\ SettledInv'
<1>1. /\ ~ByRosBridge /\ ByRosBridge' = ByRosBridge
      /\ UNCHANGED <<publish, status, doubt, missionTopic, commandTopic>>
      /\ request[c].at = "bridge" /\ request' = [request EXCEPT ![c].at = "log"]
  BY DEF Simulated, BridgeAccepts, connectionVars, swarmVars, apiVars, ByRosBridge
<1>2. DOMAIN request = Callers /\ request[c].op \in {"dispatch", "abort", "land"}
      /\ request[c] # Idle
  BY <1>1 DEF ApiInv, ServiceOK, Idle
<1>3. /\ request'[c].op = request[c].op /\ request'[c].mission = request[c].mission
      /\ request'[c].at = "log"
      /\ \A d \in Callers \ {c} : request'[d] = request[d]
  BY <1>1 DEF ApiInv, ServiceOK
<1>4. NothingOnTheWay /\ NothingOnTheWay'
  BY <1>1 DEF PublishesItsRequest, NothingOnTheWay
<1>5. PublishesItsRequest'
  BY <1>1, <1>3, <1>4 DEF PublishesItsRequest
<1>6. BoundFor' = IF request[c].op = "dispatch" THEN request[c].mission ELSE NoMission
  <2>1. BoundFor' = simActive'
    BY <1>1, <1>4 DEF BoundFor, NothingOnTheWay, SwarmMission
  <2>2. simActive' = IF request[c].op = "dispatch" THEN request[c].mission ELSE NoMission
    BY <1>2 DEF Simulated, SimDispatch, SimCommand, NoMission
  <2>3. QED
    BY <2>1, <2>2
<1>7. ASSUME ~doubt' PROVE SettledInv'
  <2>1. ~doubt /\ OneAtATime
    BY <1>1, <1>7 DEF SettledInv
  <2>2. \A d \in Callers \ {c} : request[d] = Idle /\ request'[d] = Idle /\ ~IsOrdered(d)
    BY <1>2, <1>3, <2>1, OrderedIsBusy DEF OneAtATime
  <2>3. \A d \in Callers : IsOrdered(d)' <=> d = c
    BY <1>1, <1>3, <2>2 DEF IsOrdered
  <2>4. OneAtATime'
    BY <1>1, <2>1, <2>2, <2>3 DEF OneAtATime
  <2>5. LogFollows(c)'
    BY <1>3, <1>6 DEF LogFollows
  <2>6. ActiveMissions' = ActiveMissions
    BY <1>1 DEF ActiveMissions
  <2>7. \A d \in Callers : request'[d].op = "abort" => ActiveMissions' \subseteq {request'[d].mission}
    BY <1>3, <2>1, <2>2, <2>6 DEF SettledInv, Idle
  <2>8. QED
    BY <2>3, <2>4, <2>5, <2>7 DEF SettledInv
<1>8. QED
  BY <1>5, <1>7 DEF SettledInv

\* The log's own steps: with the last of them it agrees again.
LEMMA LoggingKeepsLog ==
    ASSUME ApiInv, PublishesItsRequest, SettledInv, NEW c \in Callers, Logging(c)
    PROVE  PublishesItsRequest' /\ SettledInv'
<1>1. /\ UNCHANGED <<publish, doubt, missionTopic, commandTopic, SwarmMission>>
      /\ ByRosBridge' = ByRosBridge
  BY DEF Logging, connectionVars, swarmVars, simVars, apiVars, ByRosBridge, SwarmMission
<1>2. /\ status \in [Missions -> Statuses] /\ DOMAIN request = Callers
      /\ request[c].op = "dispatch" => request[c].mission \in Missions
  BY DEF ApiInv, ServiceOK
<1>3. /\ request[c].at \in {"log", "add"} /\ request[c] # Idle /\ IsOrdered(c)
      /\ request' = [request EXCEPT ![c] = Idle] \/ request' = [request EXCEPT ![c].at = "add"]
  BY DEF Logging, EndPrevious, AddToLog, EndAborted, EndLanded, Idle, IsOrdered
<1>4. /\ request'[c].at \in {"none", "add"}
      /\ \A d \in Callers \ {c} : request'[d] = request[d]
  BY <1>2, <1>3 DEF ApiInv, ServiceOK, Idle
<1>5. PublishesItsRequest'
  <2>1. \A d \in Callers : publish'[d] # "idle" <=> ByRosBridge /\ request'[d].at = "bridge"
    BY <1>1, <1>3, <1>4 DEF PublishesItsRequest
  <2>2. QED
    BY <1>1, <2>1 DEF PublishesItsRequest, NothingOnTheWay
<1>6. BoundFor' = BoundFor
  BY <1>1 DEF BoundFor
<1>7. ASSUME ~doubt' PROVE SettledInv'
  <2>1. ~doubt /\ OneAtATime /\ LogFollows(c)
    BY <1>1, <1>3, <1>7 DEF SettledInv
  <2>2. \A d \in Callers \ {c} : request[d] = Idle /\ request'[d] = Idle /\ ~IsOrdered(d)
    BY <1>3, <1>4, <2>1, OrderedIsBusy DEF OneAtATime
  <2>3. publish[c] = "idle" /\ \A d \in Callers \ {c} : ~IsOrdered(d)'
    BY <1>1, <1>3, <2>2 DEF PublishesItsRequest, IsOrdered, Idle
  <2>4. CASE EndPrevious(c)
    <3>1. /\ request'[c].op = "dispatch" /\ request'[c].mission = request[c].mission
          /\ request'[c].at = "add" /\ request[c].op = "dispatch"
      BY <2>4 DEF EndPrevious, ApiInv, ServiceOK
    <3>2. ActiveMissions' = {}
      BY <1>2, <2>4 DEF EndPrevious, AllAborted, ActiveMissions
    <3>3. IsOrdered(c)' /\ LogFollows(c)'
      BY <1>6, <2>1, <3>1, <3>2 DEF LogFollows, IsOrdered
    <3>4. OneAtATime'
      BY <1>1, <2>1, <2>2, <3>3 DEF OneAtATime
    <3>5. QED
      BY <2>2, <2>3, <3>1, <3>2, <3>3, <3>4 DEF SettledInv
  <2>5. CASE ~EndPrevious(c)
    <3>1. request'[c] = Idle
      BY <1>2, <2>5 DEF Logging, AddToLog, EndAborted, EndLanded
    <3>2. \A d \in Callers : request'[d] = Idle /\ ~IsOrdered(d)'
      BY <1>1, <2>2, <2>3, <3>1 DEF IsOrdered, Idle
    <3>3. OneAtATime'
      BY <1>1, <2>1, <3>2 DEF OneAtATime
    <3>4. LogAgrees'
      <4>1. CASE AddToLog(c)
        <5> DEFINE m == request[c].mission
                   added == [status EXCEPT ![m] = "Active"]
                   goes == Excess(Append(order, m), added)
        <5>1. /\ request[c].op = "dispatch" /\ request[c].at = "add" /\ m \in Missions
              /\ status' = [k \in Missions |-> IF k \in goes THEN "forgotten" ELSE added[k]]
          BY <1>2, <4>1 DEF AddToLog
        <5>2. BoundFor = m /\ ActiveMissions = {}
          BY <2>1, <5>1 DEF LogFollows
        <5>3. m \notin goes
          BY <1>2, <5>1 DEF Excess
        <5>4. status'[m] = "Active"
          BY <1>2, <5>1, <5>3
        <5>5. \A k \in Missions \ {m} : status'[k] # "Active"
          BY <1>2, <5>1, <5>2 DEF ActiveMissions
        <5>6. QED
          BY <1>6, <5>2, <5>4, <5>5 DEF LogAgrees, ActiveMissions
      <4>2. CASE EndAborted(c)
        <5>1. ActiveMissions \subseteq {request[c].mission} /\ BoundFor = NoMission
          BY <2>1, <4>2 DEF EndAborted, SettledInv, LogFollows
        <5>2. ActiveMissions' = {}
          BY <1>2, <4>2, <5>1 DEF EndAborted, TryEnd, ActiveMissions
        <5>3. QED
          BY <1>6, <5>1, <5>2 DEF LogAgrees
      <4>3. CASE EndLanded(c)
        <5>1. ActiveMissions' = {} /\ BoundFor = NoMission
          BY <1>2, <2>1, <4>3 DEF EndLanded, AllAborted, ActiveMissions, LogFollows
        <5>2. QED
          BY <1>6, <5>1 DEF LogAgrees
      <4>4. QED
        BY <2>5, <4>1, <4>2, <4>3 DEF Logging
    <3>5. QED
      BY <3>2, <3>3, <3>4 DEF SettledInv, Idle
  <2>6. QED
    BY <2>4, <2>5
<1>8. QED
  BY <1>5, <1>7 DEF SettledInv

\* What neither writes nor takes an order.
LEMMA OthersAreQuiet ==
    ASSUME ApiInv,
           \/ \E c \in Callers : \/ ByConnection(Cancel(c) \/ Refuse(c) \/ StartSend(c))
                                 \/ IngestRun(c) \/ Storing(c)
           \/ GetState \/ LoopGoesOn \/ InService \/ ConnectionFails \/ PublishState \/ Hears
           \/ BySwarm(\E d \in Drones : FinishPart(d) \/ TouchDown(d))
           \/ UNCHANGED vars
    PROVE  Quiet
<1>1. CASE \E c \in Callers : ByConnection(Cancel(c) \/ Refuse(c) \/ StartSend(c))
  <2>1. PICK c \in Callers : ByConnection(Cancel(c) \/ Refuse(c) \/ StartSend(c))
    BY <1>1
  <2>2. publish \in [Callers -> {"idle", "waiting", "sending", "sent", "failed"}]
    BY DEF ApiInv, ConnectionInv, ConnectionTypeOK
  <2>3. /\ publish[c] = "waiting"
        /\ publish' \in {[publish EXCEPT ![c] = "failed"], [publish EXCEPT ![c] = "sending"]}
    BY <2>1 DEF ByConnection, Cancel, Refuse, StartSend
  <2>4. \A d \in Callers : /\ publish'[d] = "idle" <=> publish[d] = "idle"
                           /\ publish'[d] = "sent" <=> publish[d] = "sent"
    BY <2>2, <2>3
  <2>5. QED
    BY <2>1, <2>4 DEF ByConnection, serviceVars, swarmVars, simVars, apiVars, Quiet, OnlyRead,
                      ByRosBridge, SwarmMission
<1>2. CASE \E c \in Callers : IngestRun(c) \/ Storing(c)
  BY <1>2 DEF IngestRun, Storing, connectionVars, serviceVars, swarmVars, simVars, apiVars, Quiet,
              OnlyRead, ByRosBridge, SwarmMission
<1>3. CASE GetState
  <2>1. OnlyRead /\ request' = request
    BY <1>3, ReportOnlyReads DEF GetState, ReadState, ApiInv
  <2>2. UNCHANGED <<publish, doubt, missionTopic, commandTopic, active, simActive, deployment>>
    BY <1>3 DEF GetState, SimRead, connectionVars, swarmVars, simVars, apiVars
  <2>3. QED
    BY <2>1, <2>2 DEF Quiet, ByRosBridge, SwarmMission
<1>4. CASE LoopGoesOn \/ InService \/ ConnectionFails \/ PublishState
  <2>1. UNCHANGED publish
    BY <1>4 DEF LoopGoesOn, InService, ConnectionFails, PublishState, ByConnection, Connect,
                ReceiveEnds, TakeOutOfService, Dispose, Install, GreetingFails, PeerGoesAway,
                ReceiveState
  <2>2. UNCHANGED <<serviceVars, swarmVars, simVars, apiVars>>
    BY <1>4 DEF LoopGoesOn, InService, ConnectionFails, PublishState, ByConnection
  <2>3. QED
    BY <2>1, <2>2 DEF serviceVars, swarmVars, simVars, apiVars, Quiet, OnlyRead, ByRosBridge,
                      SwarmMission
<1>5. CASE Hears \/ BySwarm(\E d \in Drones : FinishPart(d) \/ TouchDown(d))
  <2>1. UNCHANGED <<missionTopic, commandTopic, active>>
    BY <1>5 DEF Hears, BySwarm, OnActiveMission, OnProgress, OnState, FinishPart, TouchDown
  <2>2. UNCHANGED <<connectionVars, serviceVars, simVars, apiVars>>
    BY <1>5 DEF Hears, BySwarm
  <2>3. QED
    BY <2>1, <2>2 DEF connectionVars, serviceVars, simVars, apiVars, Quiet, OnlyRead, ByRosBridge,
                      SwarmMission
<1>6. CASE UNCHANGED vars
  BY <1>6 DEF vars, connectionVars, serviceVars, swarmVars, simVars, apiVars, Quiet, OnlyRead,
              ByRosBridge, SwarmMission
<1>7. QED
  BY <1>1, <1>2, <1>3, <1>4, <1>5, <1>6

LEMMA SettledInit ==
    ASSUME Init
    PROVE  PublishesItsRequest /\ SettledInv
<1>1. /\ \A c \in Callers : publish[c] = "idle" /\ request[c] = Idle
      /\ status = [m \in Missions |-> "new"]
      /\ NothingOnTheWay /\ SwarmMission = NoMission
  BY DEF Init, ConnectionInit, ServiceInit, SwarmInit, SimInit, NothingOnTheWay, SwarmMission,
         NoMission
<1>2. ActiveMissions = {} /\ BoundFor = NoMission
  BY <1>1 DEF ActiveMissions, BoundFor, NothingOnTheWay
<1>3. QED
  BY <1>1, <1>2 DEF PublishesItsRequest, SettledInv, OneAtATime, LogAgrees, IsOrdered,
                    NothingOnTheWay, Idle

LEMMA SettledStep ==
    ASSUME ApiInv, PublishesItsRequest, SettledInv, [Next]_vars
    PROVE  PublishesItsRequest' /\ SettledInv'
<1>1. SwarmTypeOK /\ SimTypeOK
  BY DEF ApiInv, SwarmInv, SimInv
<1>2. ASSUME Quiet PROVE PublishesItsRequest' /\ SettledInv'
  BY <1>1, <1>2, QuietKeepsLog
<1>3. ASSUME NEW c \in Callers,
             \/ CreateMission(c) \/ AbortMission(c) \/ LandAll(c) \/ IngestRun(c)
             \/ ByConnection(Cancel(c)) \/ CallerStep(c)
      PROVE  PublishesItsRequest' /\ SettledInv'
  <2>1. CASE CreateMission(c) \/ AbortMission(c) \/ LandAll(c)
    BY <2>1, BeginsKeepLog
  <2>2. CASE IngestRun(c) \/ Storing(c)
    BY <1>2, <2>2, OthersAreQuiet
  <2>3. CASE ByConnection(Cancel(c)) \/ ByConnection(Refuse(c) \/ StartSend(c))
    <3>1. ByConnection(Cancel(c) \/ Refuse(c) \/ StartSend(c))
      BY <2>3 DEF ByConnection
    <3>2. QED
      BY <1>2, <3>1, OthersAreQuiet
  <2>4. CASE SendDelivers(c)
    BY <2>4, DeliveryKeepsLog
  <2>5. CASE SendIsLost(c) \/ SendFailsInDoubt(c)
    BY <2>5, DoubtKeepsLog DEF SendIsLost, SendFailsInDoubt
  <2>6. CASE Answered(c)
    BY <2>6, AnswerKeepsLog
  <2>7. CASE Simulated(c)
    BY <2>7, SimulatedKeepsLog
  <2>8. CASE Logging(c)
    BY <2>8, LoggingKeepsLog
  <2>9. QED
    BY <1>3, <2>1, <2>2, <2>3, <2>4, <2>5, <2>6, <2>7, <2>8 DEF CallerStep, Sending
<1>4. CASE GetState \/ LoopGoesOn \/ InService \/ ConnectionFails \/ PublishState \/ Hears
           \/ UNCHANGED vars
  BY <1>2, <1>4, OthersAreQuiet
<1>5. CASE SwarmFlies
  <2>1. BySwarm(OnMission \/ OnCommand)
        \/ BySwarm(\E d \in Drones : FinishPart(d) \/ TouchDown(d))
    BY <1>5 DEF SwarmFlies, BySwarm
  <2>2. QED
    BY <1>1, <1>2, <2>1, TakingKeepsLog, OthersAreQuiet
<1>6. CASE SwarmRejects \/ Restart
  BY <1>6, DoubtKeepsLog DEF SwarmRejects, Restart
<1>7. QED
  BY <1>3, <1>4, <1>5, <1>6 DEF Next

-----------------------------------------------------------------------------

\* The strengthened invariant of the whole.
THEOREM ApiInvariance == Spec => []ApiInv
<1>1. Init => ApiInv
  BY ApiInitInv
<1>2. ApiInv /\ [Next]_vars => ApiInv'
  BY ApiStepInv
<1>3. QED
  BY <1>1, <1>2, PTL DEF Spec

\* Composed with the rest, the connection does what its specification says
\* (RosBridgeSwarmBridge.cs under MissionService.cs and the swarm).
THEOREM ConnectionIsImplemented == Spec => ConnectionSpec
<1>1. Init => ConnectionInit
  BY DEF Init
<1>2. ApiInv /\ [Next]_vars => [ConnectionNext]_connectionVars
  BY NextIsPartsStep DEF PartsStep
<1>3. QED
  BY <1>1, <1>2, ApiInvariance, PTL DEF Spec, ConnectionSpec

\* So does the store (ScenarioRunStores.cs under ScenarioRuns.cs).
THEOREM StoreIsImplemented == Spec => StoreSpec
<1>1. Init => \E mode \in {"File", "InMemory"} : StoreInit(mode)
  BY DeploymentAssumption DEF Init
<1>2. ApiInv /\ [Next]_vars => [StoreNext]_storeVars
  BY NextIsPartsStep DEF PartsStep
<1>3. QED
  BY <1>1, <1>2, ApiInvariance, PTL DEF Spec, StoreSpec

\* And so does the mission service, whose bridge is one of the two, with what lies
\* behind it (MissionService.cs over RosBridgeSwarmBridge.cs or SimulatedSwarmBridge.cs).
THEOREM ServiceIsImplemented == Spec => ServiceSpec
<1>1. Init => ServiceInit
  BY DEF Init
<1>2. ApiInv /\ [Next]_vars => [ServiceNext]_serviceVars
  BY ServiceStep
<1>3. QED
  BY <1>1, <1>2, ApiInvariance, PTL DEF Spec, ServiceSpec

\* The log of missions stays bounded though an active mission is never forgotten
\* (Add and Trim of MissionLog.cs under every order of the writes).
THEOREM LogStaysBounded == Spec => []LogIsBounded
BY ServiceIsImplemented, ServiceLogIsBounded, PTL

\* A message to the swarm leaves on a socket whose topics are announced, and which
\* is not disposed of while it does (PublishAsync against RunAsync).
THEOREM PublishesLive == Spec => []PublishesOnLiveSocket
BY ConnectionIsImplemented, ConnectionIsLive, PTL

\* A mission that the log calls Completed was flown, each part of it (mission_complete,
\* SimulatedSwarmBridge.Advance, and GetSwarmStateAsync that believes them).
THEOREM CompletedMeansFlown == Spec => []CompletedWasFlown
<1>1. ApiInv => CompletedWasFlown
  BY DEF ApiInv
<1>2. QED
  BY <1>1, ApiInvariance, PTL

\* Between writes that came one after the other, whose answers were not lost, the log
\* has the swarm's mission as Active or Completed and no other as Active, whatever was
\* refused, cancelled or read meanwhile (DispatchAsync, AbortMissionAsync and
\* LandAllAsync, by way of rosbridge or SimulatedSwarmBridge).
THEOREM SettledMeansAgreed == Spec => []SettledLogAgrees
<1>1. Init => PublishesItsRequest /\ SettledInv
  BY SettledInit
<1>2. ApiInv /\ PublishesItsRequest /\ SettledInv /\ [Next]_vars => PublishesItsRequest' /\ SettledInv'
  BY SettledStep
<1>3. PublishesItsRequest /\ SettledInv => SettledLogAgrees
  BY NotBusyAgrees DEF SettledLogAgrees, LogAgrees
<1>4. QED
  BY <1>1, <1>2, <1>3, ApiInvariance, PTL DEF Spec

\* What the run index lists is on disk, whole (GetAsync, AddAsync and DeleteEvicted).
THEOREM IndexedAreOnDisk == Spec => []IndexedRunsAreOnDisk
BY StoreIsImplemented, StoreKeepsRuns, PTL

\* A run that was answered with a 201 is kept, across restarts, until enough others
\* are (ScenarioRunStores.cs).
THEOREM AcknowledgedAreKept == Spec => []AcknowledgedRunsAreKept
BY StoreIsImplemented, StoreKeepsRuns, PTL

=============================================================================
