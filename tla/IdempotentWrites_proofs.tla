------------------------ MODULE IdempotentWrites_proofs ------------------------
(***************************************************************************)
(* Proofs about IdempotentWrites: whatever the calls, keys, retries,       *)
(* restarts and the size of the store, requests with one key do not run    *)
(* side by side, a write is repeated only in doubt, and what callers are   *)
(* told agrees and is true, as long as the store did not forget the key.   *)
(***************************************************************************)
EXTENDS IdempotentWrites, TLAPS

\* The types of what the invariant speaks of.
WriteTypes ==
    /\ body \in [Calls -> Bodies]
    /\ tried \in [Calls -> Nat]
    /\ reply \in [Calls -> Answers \cup {Nothing}]
    /\ result \in [Calls -> Results \cup {Nothing}]
    /\ stage \in [Attempts -> {"unsent", "wire", "running", "acted", "over"}]
    /\ print \in [Keys -> Bodies \cup {"none"}]
    /\ response \in [Keys -> Definite \cup {Nothing}]
    /\ done \subseteq Attempts

\* Where there is no entry there is no answer.
NoEntryNoAnswer == \A k \in Keys : print[k] = "none" => response[k] = Nothing

\* While it runs, a request's key has the entry it made, unless that was forgotten.
RunHoldsKey ==
    \A r \in Attempts :
        stage[r] \in Running /\ KeyOf(r) \notin forgotten =>
            /\ print[KeyOf(r)] = BodyOf(r)
            /\ response[KeyOf(r)] = Nothing
            /\ KeyOf(r) \notin old

\* An attempt takes effect before it ends and not before it has.
EffectIsActed ==
    \A r \in Attempts :
        /\ stage[r] = "acted" => r \in done
        /\ r \in done => stage[r] \in {"acted", "over"}

\* What took effect is still running or is what the store will answer.
DoneIsKnown ==
    \A r \in done :
        KeyOf(r) \notin unsettled \cup forgotten =>
            stage[r] = "acted" \/ response[KeyOf(r)] = [kind |-> "ok", by |-> r]

\* What a caller is told is what the store will answer to the same request.
AnswerIsKept ==
    \A c \in Calls : \A a \in {reply[c], result[c]} :
        a \in Definite /\ Key[c] \notin forgotten =>
            print[Key[c]] = body[c] /\ response[Key[c]] = a

\* A stored success is one of an attempt for that key and what its entry is for.
ResponseIsTrue ==
    \A k \in Keys \ forgotten :
        response[k].kind = "ok" =>
            /\ response[k].by \in done
            /\ KeyOf(response[k].by) = k
            /\ BodyOf(response[k].by) = print[k]

\* Attempts not made yet are not anywhere.
LaterUnsent ==
    \A r \in Attempts : r[2] > tried[r[1]] => stage[r] = "unsent"

WriteInv ==
    /\ WriteTypes
    /\ LaterUnsent
    /\ NoEntryNoAnswer
    /\ UnansweredIsRunning
    /\ RunHoldsKey
    /\ OneRunAtATime
    /\ EffectIsActed
    /\ DoneIsKnown
    /\ AnswerIsKept
    /\ ResponseIsTrue

-----------------------------------------------------------------------------
(* What attempts, answers and runs are. *)

LEMMA AttemptHasKey ==
  ASSUME NEW r \in Attempts
  PROVE  /\ r[1] \in Calls /\ r[2] \in Nat
         /\ KeyOf(r) \in Keys
         /\ body \in [Calls -> Bodies] => BodyOf(r) \in Bodies /\ BodyOf(r) # "none"
  BY WriteAssumption DEF Attempts, KeyOf, BodyOf

LEMMA JustIsNotDefinite ==
  ASSUME NEW kind \in {"none", "failed", "busy", "reused", "unreachable", "unknown"}
  PROVE  Just(kind) \notin Definite
  BY DEF Just, Definite

\* Runs are told by where the attempts are.
LEMMA SameStageSameRuns ==
  ASSUME \A r \in Attempts : stage'[r] \in Running <=> stage[r] \in Running, NEW k
  PROVE  Runs(k)' = Runs(k)
  BY DEF Runs, KeyOf

LEMMA InitWriteInv == Init => WriteInv
<1> SUFFICES ASSUME Init PROVE WriteInv
  OBVIOUS
<1>1. WriteTypes
  BY WriteAssumption DEF Init, WriteTypes, Nothing
<1>2. LaterUnsent /\ NoEntryNoAnswer /\ UnansweredIsRunning
  BY DEF Init, LaterUnsent, NoEntryNoAnswer, UnansweredIsRunning, Held
<1>3. RunHoldsKey /\ OneRunAtATime
  BY DEF Init, RunHoldsKey, OneRunAtATime, Runs, Running
<1>4. EffectIsActed /\ DoneIsKnown
  BY DEF Init, EffectIsActed, DoneIsKnown
<1>5. AnswerIsKept
  BY JustIsNotDefinite DEF Init, AnswerIsKept, Nothing
<1>6. ResponseIsTrue
  BY DEF Init, ResponseIsTrue, Nothing, Just
<1> QED
  BY <1>1, <1>2, <1>3, <1>4, <1>5, <1>6 DEF WriteInv

-----------------------------------------------------------------------------
(* The client's steps. *)

\* Where the store and the runs stay as they are, the invariant rests on what the
\* caller is told.
LEMMA ClientStepKeepsInv ==
  ASSUME WriteInv,
         UNCHANGED <<body, entries, history>>,
         tried' \in [Calls -> Nat],
         stage' \in [Attempts -> {"unsent", "wire", "running", "acted", "over"}],
         \A r \in Attempts : stage'[r] = stage[r] \/ (stage[r] = "unsent" /\ stage'[r] = "wire"),
         LaterUnsent',
         reply' \in [Calls -> Answers \cup {Nothing}],
         result' \in [Calls -> Results \cup {Nothing}],
         \A c \in Calls : {reply'[c], result'[c]} \cap Definite \subseteq {reply[c], result[c]}
  PROVE  WriteInv'
<1> USE DEF entries, history
<1>1. WriteTypes'
  BY DEF WriteInv, WriteTypes
<1>2. \A r \in Attempts : /\ stage'[r] \in Running <=> stage[r] \in Running
                          /\ stage[r] = "acted" => stage'[r] = "acted"
  BY DEF Running
<1>3. \A k : Runs(k)' = Runs(k)
  BY <1>2, SameStageSameRuns
<1>4. NoEntryNoAnswer' /\ UnansweredIsRunning' /\ OneRunAtATime'
  BY <1>3 DEF WriteInv, NoEntryNoAnswer, UnansweredIsRunning, OneRunAtATime, Held
<1>5. RunHoldsKey'
  BY <1>2 DEF WriteInv, RunHoldsKey, KeyOf, BodyOf
<1>6. EffectIsActed' /\ DoneIsKnown'
  BY <1>2 DEF WriteInv, EffectIsActed, DoneIsKnown, KeyOf, WriteTypes
<1>7. AnswerIsKept'
  BY DEF WriteInv, AnswerIsKept
<1>8. ResponseIsTrue'
  BY DEF WriteInv, ResponseIsTrue, KeyOf, BodyOf
<1> QED
  BY <1>1, <1>4, <1>5, <1>6, <1>7, <1>8 DEF WriteInv

LEMMA ClientKeepsInv ==
  ASSUME WriteInv, NEW c \in Calls, Client(c)
  PROVE  WriteInv'
<1> USE DEF WriteInv, WriteTypes
<1>1. CASE Attempt(c)
  <2>1. UNCHANGED <<reply, result, body, entries, history>>
    BY <1>1 DEF Attempt
  <2>2. tried' = [tried EXCEPT ![c] = @ + 1] /\ tried[c] + 1 \in Nat
    BY <1>1 DEF Attempt
  <2>3. stage' = [stage EXCEPT ![<<c, tried[c] + 1>>] = "wire"]
    BY <1>1 DEF Attempt
  <2>4. ASSUME NEW r \in Attempts
        PROVE  /\ stage'[r] = stage[r] \/ (stage[r] = "unsent" /\ stage'[r] = "wire")
               /\ (r[2] > tried[r[1]])' => stage'[r] = "unsent"
    <3>1. r[1] \in Calls /\ r[2] \in Nat /\ r = <<r[1], r[2]>>
      BY WriteAssumption DEF Attempts
    <3>2. CASE r = <<c, tried[c] + 1>>
      BY <2>2, <2>3, <3>1, <3>2 DEF LaterUnsent
    <3>3. CASE r # <<c, tried[c] + 1>>
      BY <2>2, <2>3, <3>1, <3>3 DEF LaterUnsent
    <3> QED
      BY <3>2, <3>3
  <2>5. LaterUnsent'
    BY <2>4 DEF LaterUnsent
  <2>6. /\ tried' \in [Calls -> Nat]
        /\ stage' \in [Attempts -> {"unsent", "wire", "running", "acted", "over"}]
    BY <2>2, <2>3
  <2> QED
    BY <2>1, <2>4, <2>5, <2>6, ClientStepKeepsInv
<1>2. CASE ~Attempt(c)
  <2>1. /\ UNCHANGED <<tried, stage, body, entries, history>>
        /\ LaterUnsent'
    BY <1>2 DEF Client, Unreachable, TimesOut, Receive, LaterUnsent
  <2>2. /\ reply' \in [Calls -> Answers \cup {Nothing}]
        /\ result' \in [Calls -> Results \cup {Nothing}]
    BY <1>2 DEF Client, Unreachable, TimesOut, Receive, TryAgain, Return, Answers, Results
  <2>3. ASSUME NEW d \in Calls
        PROVE  {reply'[d], result'[d]} \cap Definite \subseteq {reply[d], result[d]}
    BY <1>2, JustIsNotDefinite
       DEF Client, Unreachable, TimesOut, Receive, TryAgain, Return, Nothing
  <2> QED
    BY <2>1, <2>2, <2>3, ClientStepKeepsInv
<1> QED
  BY <1>1, <1>2

-----------------------------------------------------------------------------
(* The server's steps. *)

\* An answer reaches no call but that of the attempt.
LEMMA AnswerReachesOne ==
  ASSUME NEW r \in Attempts, NEW answer, Answer(r, answer), NEW c \in Calls
  PROVE  reply'[c] = reply[c] \/ (c = r[1] /\ reply'[c] = answer)
  BY DEF Answer

LEMMA AnswerTyped ==
  ASSUME WriteTypes, NEW r \in Attempts, NEW answer \in Answers \cup {Nothing}, Answer(r, answer)
  PROVE  reply' \in [Calls -> Answers \cup {Nothing}]
  BY DEF WriteTypes, Answer

\* Moving one attempt leaves the runs of other keys alone.
LEMMA GoesElsewhere ==
  ASSUME WriteTypes, NEW r \in Attempts, NEW to, Goes(r, to), NEW k, k # KeyOf(r)
  PROVE  Runs(k)' = Runs(k)
  BY DEF WriteTypes, Goes, Runs, KeyOf

LEMMA GoesTyped ==
  ASSUME WriteTypes, LaterUnsent, NEW r \in Attempts, stage[r] # "unsent",
         NEW to \in {"running", "acted", "over"}, Goes(r, to), UNCHANGED tried
  PROVE  /\ stage' \in [Attempts -> {"unsent", "wire", "running", "acted", "over"}]
         /\ LaterUnsent'
         /\ stage'[r] = to
         /\ \A s \in Attempts \ {r} : stage'[s] = stage[s]
  BY DEF WriteTypes, LaterUnsent, Goes

LEMMA ActKeepsInv ==
  ASSUME WriteInv, NEW r \in Attempts, Act(r)
  PROVE  WriteInv'
<1> USE DEF entries, client
<1>1. /\ stage[r] = "running" /\ Goes(r, "acted") /\ done' = done \cup {r}
      /\ UNCHANGED <<body, tried, reply, result, print, response, old, unsettled, forgotten>>
  BY DEF Act
<1>2. /\ stage' \in [Attempts -> {"unsent", "wire", "running", "acted", "over"}]
      /\ LaterUnsent'
      /\ stage'[r] = "acted"
      /\ \A s \in Attempts \ {r} : stage'[s] = stage[s]
  BY <1>1, GoesTyped DEF WriteInv
<1>3. WriteTypes'
  BY <1>1, <1>2 DEF WriteInv, WriteTypes
<1>4. \A s \in Attempts : stage'[s] \in Running <=> stage[s] \in Running
  BY <1>1, <1>2 DEF Running
<1>5. \A k : Runs(k)' = Runs(k)
  BY <1>4, SameStageSameRuns
<1>6. NoEntryNoAnswer' /\ UnansweredIsRunning' /\ OneRunAtATime'
  BY <1>1, <1>5 DEF WriteInv, NoEntryNoAnswer, UnansweredIsRunning, OneRunAtATime, Held
<1>7. RunHoldsKey'
  BY <1>1, <1>4 DEF WriteInv, RunHoldsKey, KeyOf, BodyOf
<1>8. EffectIsActed'
  BY <1>1, <1>2 DEF WriteInv, EffectIsActed
<1>9. DoneIsKnown'
  BY <1>1, <1>2 DEF WriteInv, WriteTypes, DoneIsKnown, KeyOf
<1>10. AnswerIsKept'
  BY <1>1 DEF WriteInv, AnswerIsKept
<1>11. ResponseIsTrue'
  BY <1>1 DEF WriteInv, ResponseIsTrue, KeyOf, BodyOf
<1> QED
  BY <1>2, <1>3, <1>6, <1>7, <1>8, <1>9, <1>10, <1>11 DEF WriteInv

\* Nobody else runs for the key of a run that still has its entry, nobody was
\* told anything under that key, and nothing done under it is settled.
LEMMA SoleRun ==
  ASSUME WriteInv, NEW r \in Attempts, stage[r] \in Running, KeyOf(r) \notin forgotten
  PROVE  /\ KeyOf(r) \in Held
         /\ print[KeyOf(r)] = body[r[1]]
         /\ response[KeyOf(r)] = Nothing
         /\ Runs(KeyOf(r)) = {r}
         /\ \A s \in done : KeyOf(s) = KeyOf(r) /\ KeyOf(r) \notin unsettled => s = r
         /\ \A c \in Calls : Key[c] = KeyOf(r) =>
                reply[c] \notin Definite /\ result[c] \notin Definite
<1>1. KeyOf(r) \in Keys /\ BodyOf(r) # "none"
  BY AttemptHasKey DEF WriteInv, WriteTypes
<1>2. print[KeyOf(r)] = BodyOf(r) /\ response[KeyOf(r)] = Nothing
  BY DEF WriteInv, RunHoldsKey
<1>3. Runs(KeyOf(r)) = {r}
  BY <1>1 DEF WriteInv, OneRunAtATime, Runs
<1>4. ASSUME NEW s \in done, KeyOf(s) = KeyOf(r), KeyOf(r) \notin unsettled
      PROVE  s = r
  <2>0. [kind |-> "ok", by |-> s] # Nothing
    BY DEF Nothing, Just
  <2>1. s \in Attempts /\ stage[s] = "acted"
    <3>1. s \in Attempts /\ KeyOf(s) \notin unsettled \cup forgotten
      BY <1>4 DEF WriteInv, WriteTypes
    <3> QED
      BY <1>2, <1>4, <2>0, <3>1 DEF WriteInv, DoneIsKnown
  <2> QED
    BY <1>3, <1>4, <2>1 DEF Runs, Running
<1>5. ASSUME NEW c \in Calls, Key[c] = KeyOf(r)
      PROVE  reply[c] \notin Definite /\ result[c] \notin Definite
  BY <1>2, <1>5, JustIsNotDefinite DEF WriteInv, AnswerIsKept, Nothing
<1> QED
  BY <1>1, <1>2, <1>3, <1>4, <1>5 DEF Held, BodyOf

\* A run ends with a definite answer.
LEMMA SettlingKeepsInv ==
  ASSUME WriteInv, NEW r \in Attempts, NEW kind \in {"ok", "refused"},
         stage[r] = IF kind = "ok" THEN "acted" ELSE "running",
         Goes(r, "over"),
         Complete(KeyOf(r), [kind |-> kind, by |-> r]),
         Answer(r, [kind |-> kind, by |-> r]),
         UNCHANGED <<body, tried, result, history>>
  PROVE  WriteInv'
<1> DEFINE k == KeyOf(r)
           a == [kind |-> kind, by |-> r]
<1> USE DEF history
<1>1. k \in Keys /\ r[1] \in Calls /\ Key[r[1]] = k
  BY AttemptHasKey DEF KeyOf
<1>2. a \in Definite /\ a # Nothing
  BY DEF Definite, Nothing, Just
<1>3. stage[r] \in Running
  BY DEF Running
<1>4. /\ stage' \in [Attempts -> {"unsent", "wire", "running", "acted", "over"}]
      /\ LaterUnsent'
      /\ stage'[r] = "over"
      /\ \A s \in Attempts \ {r} : stage'[s] = stage[s]
  BY <1>3, GoesTyped DEF WriteInv, Running
<1>5. /\ response' \in [Keys -> Definite \cup {Nothing}]
      /\ response'[k] = IF k \in Held THEN a ELSE response[k]
      /\ \A j \in Keys \ {k} : response'[j] = response[j]
      /\ UNCHANGED <<print, old>>
  BY <1>1, <1>2 DEF WriteInv, WriteTypes, Complete
<1>6. k \notin forgotten =>
         /\ k \in Held
         /\ print[k] = body[r[1]]
         /\ response[k] = Nothing
         /\ Runs(k) = {r}
         /\ \A s \in done : KeyOf(s) = k /\ k \notin unsettled => s = r
         /\ \A c \in Calls : Key[c] = k => reply[c] \notin Definite /\ result[c] \notin Definite
  BY <1>3, SoleRun
<1>7. \A j : j # k => Runs(j)' = Runs(j)
  BY GoesElsewhere DEF WriteInv
<1>8. WriteTypes'
  BY <1>2, <1>4, <1>5, AnswerTyped DEF WriteInv, WriteTypes, Answers
<1>9. NoEntryNoAnswer'
  BY <1>1, <1>5 DEF WriteInv, NoEntryNoAnswer, Held
<1>10. UnansweredIsRunning'
  BY <1>1, <1>2, <1>5, <1>7 DEF WriteInv, UnansweredIsRunning, Held
<1>11. RunHoldsKey'
  <2>1. ASSUME NEW s \in Attempts, stage'[s] \in Running, KeyOf(s) \notin forgotten
        PROVE  KeyOf(s) # k /\ stage[s] \in Running
    BY <1>4, <1>6, <2>1 DEF Runs, Running
  <2> QED
    BY <1>5, <2>1, AttemptHasKey DEF WriteInv, RunHoldsKey, KeyOf, BodyOf
<1>12. OneRunAtATime'
  <2>1. k \notin forgotten => Runs(k)' = {}
    BY <1>4, <1>6 DEF Runs, Running, KeyOf
  <2> QED
    BY <1>7, <2>1 DEF WriteInv, OneRunAtATime
<1>13. EffectIsActed'
  BY <1>4 DEF WriteInv, EffectIsActed
<1>14. DoneIsKnown'
  <2> SUFFICES ASSUME NEW s \in done, KeyOf(s) \notin unsettled \cup forgotten
               PROVE  stage'[s] = "acted" \/ response'[KeyOf(s)] = [kind |-> "ok", by |-> s]
    BY DEF DoneIsKnown, KeyOf
  <2>1. s \in Attempts /\ KeyOf(s) \in Keys
    BY AttemptHasKey DEF WriteInv, WriteTypes
  <2>2. CASE KeyOf(s) = k
    BY <1>5, <1>6, <2>1, <2>2 DEF WriteInv, EffectIsActed
  <2>3. CASE KeyOf(s) # k
    BY <1>4, <1>5, <2>1, <2>3 DEF WriteInv, DoneIsKnown
  <2> QED
    BY <2>2, <2>3
<1>15. AnswerIsKept'
  <2> SUFFICES ASSUME NEW c \in Calls, NEW b \in {reply'[c], result'[c]},
                      b \in Definite, Key[c] \notin forgotten
               PROVE  print[Key[c]] = body[c] /\ response'[Key[c]] = b
    BY <1>5 DEF AnswerIsKept
  <2>1. b = reply[c] \/ b = result[c] \/ (c = r[1] /\ b = a)
    BY AnswerReachesOne
  <2>2. Key[c] \in Keys
    BY WriteAssumption
  <2> QED
    BY <1>1, <1>5, <1>6, <2>1, <2>2 DEF WriteInv, AnswerIsKept
<1>16. ResponseIsTrue'
  <2> SUFFICES ASSUME NEW j \in Keys \ forgotten, response'[j].kind = "ok"
               PROVE  /\ response'[j].by \in done
                      /\ KeyOf(response'[j].by) = j
                      /\ BodyOf(response'[j].by) = print[j]
    BY <1>5 DEF ResponseIsTrue, KeyOf, BodyOf
  <2>1. CASE j = k
    BY <1>5, <1>6, <2>1 DEF WriteInv, EffectIsActed, BodyOf
  <2>2. CASE j # k
    BY <1>5, <2>2 DEF WriteInv, ResponseIsTrue
  <2> QED
    BY <2>1, <2>2
<1> QED
  BY <1>4, <1>8, <1>9, <1>10, <1>11, <1>12, <1>13, <1>14, <1>15, <1>16 DEF WriteInv

LEMMA FailKeepsInv ==
  ASSUME WriteInv, NEW r \in Attempts, Fail(r)
  PROVE  WriteInv'
<1> DEFINE k == KeyOf(r)
<1>0. /\ stage[r] \in Running /\ Goes(r, "over") /\ Abandon(k) /\ Answer(r, Just("failed"))
      /\ unsettled' = IF stage[r] = "acted" THEN unsettled \cup {k} ELSE unsettled
      /\ UNCHANGED <<body, tried, result, done, forgotten>>
  BY DEF Fail
<1>1. k \in Keys /\ r[1] \in Calls /\ Key[r[1]] = k
  BY AttemptHasKey DEF KeyOf
<1>2. Just("failed") \in Answers /\ Just("failed") \notin Definite
  BY JustIsNotDefinite DEF Answers
<1>4. /\ stage' \in [Attempts -> {"unsent", "wire", "running", "acted", "over"}]
      /\ LaterUnsent'
      /\ stage'[r] = "over"
      /\ \A s \in Attempts \ {r} : stage'[s] = stage[s]
  BY <1>0, GoesTyped DEF WriteInv, Running
<1>5. /\ response' \in [Keys -> Definite \cup {Nothing}]
      /\ print' \in [Keys -> Bodies \cup {"none"}]
      /\ print'[k] = "none" /\ response'[k] = Nothing
      /\ \A j \in Keys \ {k} : response'[j] = response[j] /\ print'[j] = print[j]
      /\ old' = old \ {k}
  BY <1>0, <1>1 DEF WriteInv, WriteTypes, Abandon
<1>6. k \notin forgotten =>
         /\ Runs(k) = {r}
         /\ \A s \in done : KeyOf(s) = k /\ k \notin unsettled => s = r
         /\ \A c \in Calls : Key[c] = k => reply[c] \notin Definite /\ result[c] \notin Definite
  BY <1>0, SoleRun
<1>7. \A j : j # k => Runs(j)' = Runs(j)
  BY <1>0, GoesElsewhere DEF WriteInv
<1>8. WriteTypes'
  BY <1>0, <1>2, <1>4, <1>5, AnswerTyped DEF WriteInv, WriteTypes
<1>9. NoEntryNoAnswer'
  BY <1>1, <1>5 DEF WriteInv, NoEntryNoAnswer
<1>10. UnansweredIsRunning'
  BY <1>1, <1>5, <1>7 DEF WriteInv, UnansweredIsRunning, Held
<1>11. RunHoldsKey'
  <2>1. ASSUME NEW s \in Attempts, stage'[s] \in Running, KeyOf(s) \notin forgotten
        PROVE  KeyOf(s) # k /\ stage[s] \in Running
    BY <1>4, <1>6, <2>1 DEF Runs, Running
  <2> QED
    BY <1>0, <1>5, <2>1, AttemptHasKey DEF WriteInv, RunHoldsKey, KeyOf, BodyOf
<1>12. OneRunAtATime'
  <2>1. k \notin forgotten => Runs(k)' = {}
    BY <1>4, <1>6 DEF Runs, Running, KeyOf
  <2> QED
    BY <1>0, <1>7, <2>1 DEF WriteInv, OneRunAtATime
<1>13. EffectIsActed'
  BY <1>0, <1>4 DEF WriteInv, EffectIsActed
<1>14. DoneIsKnown'
  <2> SUFFICES ASSUME NEW s \in done, KeyOf(s) \notin unsettled' \cup forgotten
               PROVE  stage'[s] = "acted" \/ response'[KeyOf(s)] = [kind |-> "ok", by |-> s]
    BY <1>0 DEF DoneIsKnown, KeyOf
  <2>1. s \in Attempts /\ KeyOf(s) \in Keys
    BY AttemptHasKey DEF WriteInv, WriteTypes
  <2>2. CASE KeyOf(s) = k
    BY <1>0, <1>6, <2>1, <2>2 DEF WriteInv, EffectIsActed, Running
  <2>3. CASE KeyOf(s) # k
    BY <1>0, <1>4, <1>5, <2>1, <2>3 DEF WriteInv, DoneIsKnown
  <2> QED
    BY <2>2, <2>3
<1>15. AnswerIsKept'
  <2> SUFFICES ASSUME NEW c \in Calls, NEW b \in {reply'[c], result'[c]},
                      b \in Definite, Key[c] \notin forgotten
               PROVE  print'[Key[c]] = body[c] /\ response'[Key[c]] = b
    BY <1>0 DEF AnswerIsKept
  <2>1. b = reply[c] \/ b = result[c]
    BY <1>0, <1>2, AnswerReachesOne
  <2>2. Key[c] \in Keys
    BY WriteAssumption
  <2> QED
    BY <1>5, <1>6, <2>1, <2>2 DEF WriteInv, AnswerIsKept
<1>16. ResponseIsTrue'
  <2> SUFFICES ASSUME NEW j \in Keys \ forgotten, response'[j].kind = "ok"
               PROVE  /\ response'[j].by \in done
                      /\ KeyOf(response'[j].by) = j
                      /\ BodyOf(response'[j].by) = print'[j]
    BY <1>0 DEF ResponseIsTrue, KeyOf, BodyOf
  <2>1. j # k
    BY <1>5 DEF Nothing, Just
  <2> QED
    BY <1>5, <2>1 DEF WriteInv, ResponseIsTrue
<1> QED
  BY <1>4, <1>8, <1>9, <1>10, <1>11, <1>12, <1>13, <1>14, <1>15, <1>16 DEF WriteInv

\* A request the store has seen before is answered in the endpoint's place.
LEMMA AnsweringKeepsInv ==
  ASSUME WriteInv, NEW r \in Attempts, Arrive(r), Outcome(KeyOf(r), BodyOf(r)) # "Started"
  PROVE  WriteInv'
<1> DEFINE k == KeyOf(r)
           a == CASE Outcome(k, BodyOf(r)) = "Replay" -> response[k]
                  [] Outcome(k, BodyOf(r)) = "InFlight" -> Just("busy")
                  [] Outcome(k, BodyOf(r)) = "Mismatch" -> Just("reused")
<1>0. /\ stage[r] = "wire" /\ Goes(r, "over") /\ Answer(r, a)
      /\ UNCHANGED <<body, tried, result, print, response, old, done, unsettled, forgotten>>
  BY DEF Arrive, entries
<1>1. k \in Keys /\ r[1] \in Calls /\ Key[r[1]] = k
  BY AttemptHasKey DEF KeyOf
<1>2. a \in Answers \cup {Nothing} /\ (a \in Definite => a = response[k] /\ print[k] = body[r[1]])
  <2>1. CASE Outcome(k, BodyOf(r)) = "Replay"
    BY <1>1, <2>1 DEF WriteInv, WriteTypes, Outcome, BodyOf, Answers
  <2>2. CASE Outcome(k, BodyOf(r)) = "InFlight"
    BY <2>2, JustIsNotDefinite DEF Answers
  <2>3. CASE Outcome(k, BodyOf(r)) = "Mismatch"
    BY <2>3, JustIsNotDefinite DEF Answers
  <2> QED
    BY <2>1, <2>2, <2>3 DEF Outcome
<1>4. /\ stage' \in [Attempts -> {"unsent", "wire", "running", "acted", "over"}]
      /\ LaterUnsent'
      /\ stage'[r] = "over"
      /\ \A s \in Attempts \ {r} : stage'[s] = stage[s]
  BY <1>0, GoesTyped DEF WriteInv
<1>5. /\ \A s \in Attempts : stage'[s] \in Running <=> stage[s] \in Running
      /\ \A s \in Attempts : stage'[s] = "acted" <=> stage[s] = "acted"
      /\ \A s \in Attempts : stage[s] = "over" => stage'[s] = "over"
  BY <1>0, <1>4 DEF Running
<1>6. \A j : Runs(j)' = Runs(j)
  BY <1>5, SameStageSameRuns
<1>7. WriteTypes'
  BY <1>0, <1>2, <1>4, AnswerTyped DEF WriteInv, WriteTypes
<1>8. NoEntryNoAnswer' /\ UnansweredIsRunning' /\ OneRunAtATime'
  BY <1>0, <1>6 DEF WriteInv, NoEntryNoAnswer, UnansweredIsRunning, OneRunAtATime, Held
<1>9. RunHoldsKey'
  BY <1>0, <1>5 DEF WriteInv, RunHoldsKey, KeyOf, BodyOf
<1>10. EffectIsActed' /\ DoneIsKnown'
  BY <1>0, <1>5 DEF WriteInv, WriteTypes, EffectIsActed, DoneIsKnown, KeyOf
<1>11. AnswerIsKept'
  <2> SUFFICES ASSUME NEW c \in Calls, NEW b \in {reply'[c], result'[c]},
                      b \in Definite, Key[c] \notin forgotten
               PROVE  print[Key[c]] = body[c] /\ response[Key[c]] = b
    BY <1>0 DEF AnswerIsKept
  <2>1. b = reply[c] \/ b = result[c] \/ (c = r[1] /\ b = a)
    BY <1>0, AnswerReachesOne
  <2> QED
    BY <1>1, <1>2, <2>1 DEF WriteInv, AnswerIsKept
<1>12. ResponseIsTrue'
  BY <1>0 DEF WriteInv, ResponseIsTrue, KeyOf, BodyOf
<1> QED
  BY <1>4, <1>7, <1>8, <1>9, <1>10, <1>11, <1>12 DEF WriteInv

\* A request the store does not know runs.
LEMMA StartingKeepsInv ==
  ASSUME WriteInv, NEW r \in Attempts, Arrive(r), Outcome(KeyOf(r), BodyOf(r)) = "Started"
  PROVE  WriteInv'
<1> DEFINE k == KeyOf(r)
           keys == Append(Without(order, k), k)
           dropped == {keys[i] : i \in 1 .. Excess(keys)}
<1>0. /\ stage[r] = "wire" /\ Goes(r, "running") /\ Start(k, BodyOf(r))
      /\ UNCHANGED <<body, tried, reply, result, done, unsettled>>
  BY DEF Arrive
<1>1. /\ k \in Keys /\ BodyOf(r) \in Bodies /\ BodyOf(r) # "none"
      /\ print[k] = "none" \/ k \in old
  BY AttemptHasKey DEF WriteInv, WriteTypes, Outcome
<1>2. PICK D : /\ print' = [j \in Keys |->
                      IF j \in D THEN "none" ELSE IF j = k THEN BodyOf(r) ELSE print[j]]
               /\ response' = [j \in Keys |-> IF j \in D \cup {k} THEN Nothing ELSE response[j]]
               /\ old' = old \ (D \cup {k})
               /\ forgotten' = forgotten \cup D \cup (old \cap {k})
  <2> WITNESS dropped
  <2> QED
    BY <1>0 DEF Start
<1>3. /\ stage' \in [Attempts -> {"unsent", "wire", "running", "acted", "over"}]
      /\ LaterUnsent'
      /\ stage'[r] = "running"
      /\ \A s \in Attempts \ {r} : stage'[s] = stage[s]
  BY <1>0, GoesTyped DEF WriteInv
<1>4. \A j : j # k => Runs(j)' = Runs(j)
  BY <1>0, GoesElsewhere DEF WriteInv
\* Unless it is forgotten, the key was not known at all.
<1>5. k \notin forgotten' =>
         /\ k \notin forgotten /\ print[k] = "none" /\ response[k] = Nothing
         /\ print'[k] = BodyOf(r)
         /\ Runs(k) = {}
  <2> SUFFICES ASSUME k \notin forgotten'
               PROVE  /\ k \notin forgotten /\ print[k] = "none" /\ response[k] = Nothing
                      /\ print'[k] = BodyOf(r)
                      /\ Runs(k) = {}
    OBVIOUS
  <2>1. k \notin forgotten /\ print[k] = "none" /\ response[k] = Nothing /\ print'[k] = BodyOf(r)
    BY <1>1, <1>2 DEF WriteInv, NoEntryNoAnswer
  <2>2. Runs(k) = {}
    BY <2>1, AttemptHasKey DEF WriteInv, WriteTypes, RunHoldsKey, Runs
  <2> QED
    BY <2>1, <2>2
<1>6. \A j \in Keys : j \notin forgotten' /\ j # k =>
         /\ j \notin forgotten
         /\ print'[j] = print[j] /\ response'[j] = response[j]
         /\ j \in old' <=> j \in old
  BY <1>2
<1>7. WriteTypes'
  BY <1>0, <1>1, <1>2, <1>3 DEF WriteInv, WriteTypes
<1>8. NoEntryNoAnswer'
  BY <1>1, <1>2 DEF WriteInv, NoEntryNoAnswer
<1>9. UnansweredIsRunning'
  <2>1. r \in Runs(k)'
    BY <1>3 DEF Runs, Running, KeyOf
  <2>2. ASSUME NEW j \in Keys, print'[j] # "none", response'[j] = Nothing, j # k
        PROVE  Runs(j)' # {}
    BY <1>2, <1>4, <2>2 DEF WriteInv, UnansweredIsRunning, Held
  <2> QED
    BY <2>1, <2>2 DEF UnansweredIsRunning, Held
<1>10. RunHoldsKey'
  <2> SUFFICES ASSUME NEW s \in Attempts, stage'[s] \in Running, KeyOf(s) \notin forgotten'
               PROVE  /\ print'[KeyOf(s)] = BodyOf(s)
                      /\ response'[KeyOf(s)] = Nothing
                      /\ KeyOf(s) \notin old'
    BY <1>0 DEF RunHoldsKey, KeyOf, BodyOf
  <2>1. CASE KeyOf(s) = k
    <3>1. s = r
      BY <1>3, <1>5, <2>1 DEF Runs, Running
    <3> QED
      BY <1>1, <1>2, <1>5, <3>1
  <2>2. CASE KeyOf(s) # k
    BY <1>3, <1>6, <2>2, AttemptHasKey DEF WriteInv, RunHoldsKey
  <2> QED
    BY <2>1, <2>2
<1>11. OneRunAtATime'
  <2>1. k \notin forgotten' => Runs(k)' = {r}
    BY <1>3, <1>5 DEF Runs, Running, KeyOf
  <2> QED
    BY <1>4, <1>6, <2>1 DEF WriteInv, OneRunAtATime
<1>12. EffectIsActed'
  BY <1>0, <1>3 DEF WriteInv, EffectIsActed
<1>13. DoneIsKnown'
  <2> SUFFICES ASSUME NEW s \in done, KeyOf(s) \notin unsettled \cup forgotten'
               PROVE  stage'[s] = "acted" \/ response'[KeyOf(s)] = [kind |-> "ok", by |-> s]
    BY <1>0 DEF DoneIsKnown, KeyOf
  <2>1. s \in Attempts /\ KeyOf(s) \in Keys /\ [kind |-> "ok", by |-> s] # Nothing
    BY AttemptHasKey DEF WriteInv, WriteTypes, Nothing, Just
  <2>2. CASE KeyOf(s) = k
    BY <1>5, <2>1, <2>2 DEF WriteInv, DoneIsKnown, Runs, Running
  <2>3. CASE KeyOf(s) # k
    BY <1>3, <1>6, <2>1, <2>3 DEF WriteInv, DoneIsKnown
  <2> QED
    BY <2>2, <2>3
<1>14. AnswerIsKept'
  <2> SUFFICES ASSUME NEW c \in Calls, NEW b \in {reply[c], result[c]},
                      b \in Definite, Key[c] \notin forgotten'
               PROVE  print'[Key[c]] = body[c] /\ response'[Key[c]] = b
    BY <1>0 DEF AnswerIsKept
  <2>1. Key[c] \in Keys /\ b # Nothing
    BY WriteAssumption, JustIsNotDefinite DEF Nothing
  <2> QED
    BY <1>5, <1>6, <2>1 DEF WriteInv, AnswerIsKept
<1>15. ResponseIsTrue'
  <2> SUFFICES ASSUME NEW j \in Keys \ forgotten', response'[j].kind = "ok"
               PROVE  /\ response'[j].by \in done
                      /\ KeyOf(response'[j].by) = j
                      /\ BodyOf(response'[j].by) = print'[j]
    BY <1>0 DEF ResponseIsTrue, KeyOf, BodyOf
  <2>1. j # k
    BY <1>1, <1>2 DEF Nothing, Just
  <2> QED
    BY <1>6, <2>1 DEF WriteInv, ResponseIsTrue
<1> QED
  BY <1>3, <1>7, <1>8, <1>9, <1>10, <1>11, <1>12, <1>13, <1>14, <1>15 DEF WriteInv

-----------------------------------------------------------------------------
(* Time and restarts. *)

LEMMA RetentionKeepsInv ==
  ASSUME WriteInv, NEW k \in Keys, RetentionPasses(k)
  PROVE  WriteInv'
<1>0. /\ Runs(k) = {} /\ old' = old \cup {k}
      /\ stage' = [r \in Attempts |-> IF KeyOf(r) = k /\ stage[r] = "wire" THEN "over" ELSE stage[r]]
      /\ UNCHANGED <<body, tried, reply, result, print, response, done, unsettled, forgotten>>
  BY DEF RetentionPasses, client, history
<1>1. \A s \in Attempts : /\ stage'[s] \in {"unsent", "wire", "running", "acted", "over"}
                          /\ stage'[s] \in Running <=> stage[s] \in Running
                          /\ stage'[s] = "acted" <=> stage[s] = "acted"
                          /\ stage[s] \in {"unsent", "over"} => stage'[s] = stage[s]
  BY <1>0 DEF WriteInv, WriteTypes, Running
<1>2. \A j : Runs(j)' = Runs(j)
  BY <1>1, SameStageSameRuns
<1>3. WriteTypes' /\ LaterUnsent'
  BY <1>0, <1>1 DEF WriteInv, WriteTypes, LaterUnsent
<1>4. NoEntryNoAnswer' /\ UnansweredIsRunning' /\ OneRunAtATime'
  BY <1>0, <1>2 DEF WriteInv, NoEntryNoAnswer, UnansweredIsRunning, OneRunAtATime, Held
<1>5. RunHoldsKey'
  <2>1. ASSUME NEW s \in Attempts, stage'[s] \in Running PROVE KeyOf(s) # k
    BY <1>0, <1>1, <2>1 DEF Runs
  <2> QED
    BY <1>0, <1>1, <2>1 DEF WriteInv, RunHoldsKey, KeyOf, BodyOf
<1>6. EffectIsActed' /\ DoneIsKnown'
  BY <1>0, <1>1 DEF WriteInv, WriteTypes, EffectIsActed, DoneIsKnown, KeyOf
<1>7. AnswerIsKept' /\ ResponseIsTrue'
  BY <1>0 DEF WriteInv, AnswerIsKept, ResponseIsTrue, KeyOf, BodyOf
<1> QED
  BY <1>3, <1>4, <1>5, <1>6, <1>7 DEF WriteInv

LEMMA RestartKeepsInv ==
  ASSUME WriteInv, Restart
  PROVE  WriteInv'
<1>0. /\ print' = [k \in Keys |-> "none"] /\ response' = [k \in Keys |-> Nothing]
      /\ old' = {} /\ forgotten' = forgotten \cup Held
      /\ stage' = [r \in Attempts |-> IF stage[r] = "unsent" THEN "unsent" ELSE "over"]
      /\ UNCHANGED <<body, tried, reply, result, done, unsettled>>
  BY DEF Restart, client
\* Of a key that is not forgotten the store knew nothing.
<1>1. \A k \in Keys \ forgotten' : k \notin forgotten /\ print[k] = "none" /\ response[k] = Nothing
  BY <1>0 DEF WriteInv, NoEntryNoAnswer, Held
<1>2. WriteTypes' /\ LaterUnsent'
  BY <1>0 DEF WriteInv, WriteTypes, LaterUnsent
<1>3. \A r \in Attempts : stage'[r] \notin Running
  BY <1>0 DEF Running
<1>4. NoEntryNoAnswer' /\ UnansweredIsRunning' /\ OneRunAtATime' /\ RunHoldsKey'
  BY <1>0, <1>3 DEF NoEntryNoAnswer, UnansweredIsRunning, OneRunAtATime, RunHoldsKey, Held, Runs
<1>5. EffectIsActed'
  BY <1>0 DEF WriteInv, EffectIsActed
<1>6. DoneIsKnown'
  <2> SUFFICES ASSUME NEW s \in done, KeyOf(s) \notin unsettled \cup forgotten'
               PROVE  FALSE
    BY <1>0 DEF DoneIsKnown, KeyOf
  <2>1. /\ s \in Attempts /\ KeyOf(s) \in Keys /\ BodyOf(s) # "none"
        /\ [kind |-> "ok", by |-> s] # Nothing
    BY AttemptHasKey DEF WriteInv, WriteTypes, Nothing, Just
  <2>2. stage[s] = "acted"
    BY <1>1, <2>1 DEF WriteInv, DoneIsKnown
  <2> QED
    BY <1>1, <2>1, <2>2 DEF WriteInv, RunHoldsKey, Running
<1>7. AnswerIsKept'
  <2> SUFFICES ASSUME NEW c \in Calls, NEW a \in {reply[c], result[c]},
                      a \in Definite, Key[c] \notin forgotten'
               PROVE  FALSE
    BY <1>0 DEF AnswerIsKept
  <2>1. Key[c] \in Keys /\ a # Nothing
    BY WriteAssumption, JustIsNotDefinite DEF Nothing
  <2> QED
    BY <1>1, <2>1 DEF WriteInv, AnswerIsKept
<1>8. ResponseIsTrue'
  BY <1>0 DEF ResponseIsTrue, Nothing, Just
<1> QED
  BY <1>2, <1>4, <1>5, <1>6, <1>7, <1>8 DEF WriteInv

-----------------------------------------------------------------------------
(* The theorems. *)

LEMMA NextKeepsInv ==
  ASSUME WriteInv, [Next]_vars
  PROVE  WriteInv'
<1>1. CASE UNCHANGED vars
  <2>1. \A c \in Calls : reply'[c] = reply[c] /\ result'[c] = result[c]
    BY <1>1 DEF vars, client
  <2>2. LaterUnsent'
    BY <1>1 DEF vars, client, WriteInv, LaterUnsent
  <2>3. UNCHANGED <<body, entries, history, tried, stage, reply, result>>
    BY <1>1 DEF vars, client
  <2> QED
    BY <2>1, <2>2, <2>3, ClientStepKeepsInv DEF WriteInv, WriteTypes
<1>2. ASSUME NEW c \in Calls, Client(c) PROVE WriteInv'
  BY <1>2, ClientKeepsInv
<1>3. ASSUME NEW r \in Attempts, Server(r) PROVE WriteInv'
  <2>1. CASE Arrive(r)
    BY <2>1, AnsweringKeepsInv, StartingKeepsInv
  <2>2. CASE Act(r)
    BY <2>2, ActKeepsInv
  <2>3. CASE Succeed(r)
    BY <2>3, SettlingKeepsInv DEF Succeed
  <2>4. CASE Refuse(r)
    BY <2>4, SettlingKeepsInv DEF Refuse
  <2>5. CASE Fail(r)
    BY <2>5, FailKeepsInv
  <2> QED
    BY <1>3, <2>1, <2>2, <2>3, <2>4, <2>5 DEF Server
<1>4. ASSUME NEW k \in Keys, RetentionPasses(k) PROVE WriteInv'
  BY <1>4, RetentionKeepsInv
<1>5. CASE Restart
  BY <1>5, RestartKeepsInv
<1> QED
  BY <1>1, <1>2, <1>3, <1>4, <1>5 DEF Next

\* The invariant of the filter, its store and its clients (IdempotencyFilter.cs,
\* IdempotencyStore.cs, swarm_client.py).
THEOREM SpecWriteInv == Spec => []WriteInv
  BY InitWriteInv, NextKeepsInv, PTL DEF Spec

\* A key without an answer has a run that will give it one or free it, also when
\* the entry is no longer the run's own (IdempotencyFilter.cs:61).
THEOREM SpecUnansweredIsRunning == Spec => []UnansweredIsRunning
<1>1. WriteInv => UnansweredIsRunning
  BY DEF WriteInv
<1> QED
  BY <1>1, SpecWriteInv, PTL

\* Unless the store forgot the key, its requests run one at a time
\* (IdempotencyStore.cs, InFlight).
THEOREM SpecOneRunAtATime == Spec => []OneRunAtATime
<1>1. WriteInv => OneRunAtATime
  BY DEF WriteInv
<1> QED
  BY <1>1, SpecWriteInv, PTL

\* A second effect under one key takes a forgotten key or an attempt that failed
\* after it took effect (swarm_client.py:13).
THEOREM SpecActsAgainOnlyInDoubt == Spec => []ActsAgainOnlyInDoubt
<1>1. ASSUME WriteInv PROVE ActsAgainOnlyInDoubt
  <2> SUFFICES ASSUME NEW r \in done, NEW s \in done, KeyOf(r) = KeyOf(s), r # s,
                      KeyOf(r) \notin unsettled \cup forgotten
               PROVE  FALSE
    BY DEF ActsAgainOnlyInDoubt
  <2>1. r \in Attempts /\ s \in Attempts /\ KeyOf(r) \in Keys
    BY <1>1, AttemptHasKey DEF WriteInv, WriteTypes
  <2>2. stage[r] \in Running => s = r
    BY <1>1, <2>1, SoleRun
  <2>3. stage[s] \in Running => s = r
    BY <1>1, <2>1, SoleRun
  <2>4. response[KeyOf(r)] = [kind |-> "ok", by |-> r] /\ response[KeyOf(r)] = [kind |-> "ok", by |-> s]
    BY <1>1, <2>1, <2>2, <2>3 DEF WriteInv, DoneIsKnown, Running
  <2> QED
    BY <2>4
<1> QED
  BY <1>1, SpecWriteInv, PTL

\* All who are told something definite under a key asked for the same and are told
\* the same, unless the store forgot it (IdempotencyFilter.cs:46).
THEOREM SpecAnswersAgree == Spec => []AnswersAgree
<1>1. WriteInv => AnswersAgree
  BY DEF WriteInv, AnswersAgree, AnswerIsKept
<1> QED
  BY <1>1, SpecWriteInv, PTL

\* What a caller is told of its write is so, short of doubt (swarm_client.py:7).
THEOREM SpecResultIsTrue == Spec => []ResultIsTrue
<1>1. ASSUME WriteInv PROVE ResultIsTrue
  <2> SUFFICES ASSUME NEW c \in Calls
               PROVE  LET mine == {r \in done : KeyOf(r) = Key[c] /\ BodyOf(r) = body[c]}
                      IN  /\ result[c].kind = "ok" /\ Key[c] \notin forgotten => result[c].by \in mine
                          /\ result[c].kind = "refused" /\ mine # {} =>
                                 Key[c] \in unsettled \cup forgotten
    BY DEF ResultIsTrue
  <2>0. result[c].kind \in {"ok", "refused"} => result[c] \in Definite
    BY <1>1 DEF WriteInv, WriteTypes, Results, Just, Nothing
  <2>1. Key[c] \in Keys
    BY WriteAssumption
  <2>2. ASSUME result[c].kind = "ok", Key[c] \notin forgotten
        PROVE  /\ result[c].by \in done
               /\ KeyOf(result[c].by) = Key[c]
               /\ BodyOf(result[c].by) = body[c]
    BY <1>1, <2>0, <2>1, <2>2 DEF WriteInv, AnswerIsKept, ResponseIsTrue
  <2>3. ASSUME result[c].kind = "refused", Key[c] \notin unsettled \cup forgotten,
               NEW r \in done, KeyOf(r) = Key[c]
        PROVE  FALSE
    <3>1. response[Key[c]] = result[c] /\ result[c] # [kind |-> "ok", by |-> r]
      BY <1>1, <2>0, <2>3 DEF WriteInv, AnswerIsKept
    <3>2. r \in Attempts /\ stage[r] = "acted"
      BY <1>1, <2>3, <3>1 DEF WriteInv, WriteTypes, DoneIsKnown
    <3> QED
      BY <1>1, <2>0, <2>3, <3>2, SoleRun DEF Running
  <2> QED
    BY <2>2, <2>3
<1> QED
  BY <1>1, SpecWriteInv, PTL
=============================================================================
