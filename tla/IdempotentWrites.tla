---------------------------- MODULE IdempotentWrites ----------------------------
(***************************************************************************)
(* Writes that are safe to repeat: the retrying client (swarm_client.py,   *)
(* _write), the network, the filter in front of every write endpoint       *)
(* (IdempotencyFilter.cs), the store of answers it consults                *)
(* (IdempotencyStore.cs) and an endpoint that acts on the world.           *)
(*                                                                          *)
(* An attempt may never arrive, arrive after the client gave up on it, run  *)
(* while the next one arrives, act and then fail, or be answered too late;  *)
(* the store forgets what is too old or too much, and all of it when the    *)
(* API restarts.  A call is one use of the client, or one request by hand.  *)
(***************************************************************************)
EXTENDS Integers, FiniteSets, Sequences

CONSTANTS
    Calls,       \* the writes clients make
    Keys,        \* scopes: caller, method, path and Idempotency-Key
    Bodies,      \* what a request asks for: its fingerprint
    Key,         \* of each call
    Asks,        \* what the calls may ask for
    Tries,       \* of each call: WRITE_ATTEMPTS, or 1 for a request made by hand
    Capacity,    \* the store's capacity
    MaxRestarts  \* bound: restarts of the API

ASSUME WriteAssumption ==
    /\ Key \in [Calls -> Keys]
    /\ Asks \subseteq [Calls -> Bodies]
    /\ Tries \in [Calls -> Nat \ {0}]
    /\ Capacity \in Nat \ {0}
    /\ MaxRestarts \in Nat
    /\ "none" \notin Bodies

VARIABLES
    body,      \* of each call: what it asks for
    at,        \* of each call: idle, waiting for an answer, about to try again, back
    tried,     \* of each call: attempts made
    reply,     \* of each call: the answer to its current attempt on its way, or Nothing
    result,    \* of each call: what the caller was told, or Nothing
    stage,     \* of each attempt: where its request is
    print,     \* store: the fingerprint of each key's entry, "none" without one
    response,  \* store: the answer of each key's entry, or Nothing
    order,     \* store: the keys, oldest entry first
    old,       \* store: the keys whose entry is past its retention
    restarts,  \* restarts so far
    done,      \* history: the attempts that took effect
    unsettled, \* history: keys of attempts that took effect and got no definite answer
    forgotten  \* history: keys whose entry was dropped for room, age or a restart

client == <<at, tried, reply, result>>
entries == <<print, response, order, old>>
history == <<done, unsettled, forgotten>>
vars == <<body, client, stage, entries, restarts, history>>

\* An attempt: a call and the number of the try.
Attempts == UNION {{c} \X (1 .. Tries[c]) : c \in Calls}
KeyOf(r) == Key[r[1]]
BodyOf(r) == body[r[1]]

\* Answers: of an endpoint that did the work or refused to (definite, and by
\* which attempt), of one that failed (5xx or an exception), of the filter for a
\* key in use (409) or used for something else (422); and what the client makes of
\* no answer.
Definite == [kind : {"ok", "refused"}, by : Attempts]
Just(kind) == [kind |-> kind, by |-> <<>>]
Nothing == Just("none")
Answers == Definite \cup {Just("failed"), Just("busy"), Just("reused")}
Results == Definite \cup {Just("failed"), Just("reused"), Just("unreachable"), Just("unknown")}

Running == {"running", "acted"}
Runs(k) == {r \in Attempts : KeyOf(r) = k /\ stage[r] \in Running}

Held == {k \in Keys : print[k] # "none"}

Init ==
    /\ body \in Asks
    /\ at = [c \in Calls |-> "idle"]
    /\ tried = [c \in Calls |-> 0]
    /\ reply = [c \in Calls |-> Nothing]
    /\ result = [c \in Calls |-> Nothing]
    /\ stage = [r \in Attempts |-> "unsent"]
    /\ print = [k \in Keys |-> "none"]
    /\ response = [k \in Keys |-> Nothing]
    /\ order = <<>> /\ old = {}
    /\ restarts = 0
    /\ done = {} /\ unsettled = {} /\ forgotten = {}

-----------------------------------------------------------------------------
(* The client. *)

Return(c, what) ==
    /\ at' = [at EXCEPT ![c] = "back"]
    /\ result' = [result EXCEPT ![c] = what]

Attempt(c) ==
    /\ at[c] \in {"idle", "again"}
    /\ at' = [at EXCEPT ![c] = "waiting"]
    /\ tried' = [tried EXCEPT ![c] = @ + 1]
    /\ stage' = [stage EXCEPT ![<<c, tried[c] + 1>>] = "wire"]
    /\ UNCHANGED <<body, reply, result, entries, restarts, history>>

\* The connection is refused or the name not resolved; whatever came before, the
\* caller hears that nothing was sent.
Unreachable(c) ==
    /\ at[c] \in {"idle", "again"}
    /\ Return(c, Just("unreachable"))
    /\ UNCHANGED <<body, tried, reply, stage, entries, restarts, history>>

\* The loop's next round, or its end.
TryAgain(c) ==
    IF tried[c] < Tries[c]
    THEN at' = [at EXCEPT ![c] = "again"] /\ UNCHANGED result
    ELSE Return(c, Just("unknown"))

\* No answer in time, or the connection is gone; an answer under way is lost.
TimesOut(c) ==
    /\ at[c] = "waiting"
    /\ TryAgain(c)
    /\ reply' = [reply EXCEPT ![c] = Nothing]
    /\ UNCHANGED <<body, tried, stage, entries, restarts, history>>

\* An answer: only "still in progress" is a reason to try again.
Receive(c) ==
    /\ at[c] = "waiting" /\ reply[c] # Nothing
    /\ IF reply[c] = Just("busy") THEN TryAgain(c) ELSE Return(c, reply[c])
    /\ reply' = [reply EXCEPT ![c] = Nothing]
    /\ UNCHANGED <<body, tried, stage, entries, restarts, history>>

\* The answer to r is sent; it finds the client only if that still waits for it.
Answer(r, answer) ==
    reply' = [c \in Calls |->
        IF r = <<c, tried[c]>> /\ at[c] = "waiting" THEN answer ELSE reply[c]]

-----------------------------------------------------------------------------
(* The store. *)

\* Mutant of Outcome: an entry without an answer is taken over.
OutcomeRunsTwice(k, b) ==
    IF print[k] = "none" \/ k \in old \/ response[k] = Nothing THEN "Started"
    ELSE IF print[k] # b THEN "Mismatch" ELSE "Replay"

\* Mutant of Outcome: the fingerprint is not compared.
OutcomeAnyBody(k, b) ==
    IF print[k] = "none" \/ k \in old THEN "Started"
    ELSE IF response[k] = Nothing THEN "InFlight" ELSE "Replay"

\* Mutant of Outcome: an answered key runs again.
OutcomeNoReplay(k, b) ==
    IF print[k] = "none" \/ k \in old \/ response[k] # Nothing THEN "Started"
    ELSE IF print[k] # b THEN "Mismatch" ELSE "InFlight"

\* What Begin finds.
Outcome(k, b) ==
    IF print[k] = "none" \/ k \in old THEN "Started"
    ELSE IF print[k] # b THEN "Mismatch"
    ELSE IF response[k] = Nothing THEN "InFlight" ELSE "Replay"

Without(keys, k) == SelectSeq(keys, LAMBDA other : other # k)

\* How many entries are too many when the keys are these.
Excess(keys) == IF Len(keys) > Capacity THEN Len(keys) - Capacity ELSE 0

\* A new entry for k, in place of one past its retention; the oldest entries go
\* when there are too many, answered or not.
Start(k, b) ==
    LET keys == Append(Without(order, k), k)
        dropped == {keys[i] : i \in 1 .. Excess(keys)}
    IN  /\ order' = SubSeq(keys, Excess(keys) + 1, Len(keys))
        /\ print' = [j \in Keys |->
               IF j \in dropped THEN "none" ELSE IF j = k THEN b ELSE print[j]]
        /\ response' = [j \in Keys |-> IF j \in dropped \cup {k} THEN Nothing ELSE response[j]]
        /\ old' = old \ (dropped \cup {k})
        /\ forgotten' = forgotten \cup dropped \cup (old \cap {k})

\* Whichever entry the key has now gets the answer.
Complete(k, answer) ==
    /\ response' = IF k \in Held THEN [response EXCEPT ![k] = answer] ELSE response
    /\ UNCHANGED <<print, order, old>>

\* Mutant of Abandon: a failed request leaves its entry.
AbandonNothing(k) == UNCHANGED entries

\* Whichever entry the key has now goes.
Abandon(k) ==
    /\ print' = [print EXCEPT ![k] = "none"]
    /\ response' = [response EXCEPT ![k] = Nothing]
    /\ old' = old \ {k}
    /\ order' = Without(order, k)

\* An entry's retention of a day passes; no request runs for so long, and one
\* still on its way is lost.
RetentionPasses(k) ==
    /\ k \in Held \ old
    /\ Runs(k) = {}
    /\ old' = old \cup {k}
    /\ stage' = [r \in Attempts |->
           IF KeyOf(r) = k /\ stage[r] = "wire" THEN "over" ELSE stage[r]]
    /\ UNCHANGED <<body, client, print, response, order, restarts, history>>

-----------------------------------------------------------------------------
(* The filter and the endpoint behind it. *)

Goes(r, to) == stage' = [stage EXCEPT ![r] = to]

\* A request comes in; the filter runs it or answers in its place.
Arrive(r) ==
    LET k == KeyOf(r)
        outcome == Outcome(k, BodyOf(r))
    IN  /\ stage[r] = "wire"
        /\ IF outcome = "Started"
           THEN /\ Goes(r, "running")
                /\ Start(k, BodyOf(r))
                /\ UNCHANGED reply
           ELSE /\ Goes(r, "over")
                /\ Answer(r, CASE outcome = "Replay" -> response[k]
                               [] outcome = "InFlight" -> Just("busy")
                               [] outcome = "Mismatch" -> Just("reused"))
                /\ UNCHANGED <<entries, forgotten>>
        /\ UNCHANGED <<body, at, tried, result, restarts, done, unsettled>>

\* The endpoint does what it was asked for.
Act(r) ==
    /\ stage[r] = "running"
    /\ Goes(r, "acted")
    /\ done' = done \cup {r}
    /\ UNCHANGED <<body, client, entries, restarts, unsettled, forgotten>>

Succeed(r) ==
    LET answer == [kind |-> "ok", by |-> r]
    IN  /\ stage[r] = "acted"
        /\ Goes(r, "over")
        /\ Complete(KeyOf(r), answer)
        /\ Answer(r, answer)
        /\ UNCHANGED <<body, at, tried, result, restarts, history>>

\* A 4xx: the endpoint did nothing.
Refuse(r) ==
    LET answer == [kind |-> "refused", by |-> r]
    IN  /\ stage[r] = "running"
        /\ Goes(r, "over")
        /\ Complete(KeyOf(r), answer)
        /\ Answer(r, answer)
        /\ UNCHANGED <<body, at, tried, result, restarts, history>>

\* A 5xx or an exception, a cancellation by a client that is gone included: the
\* send may have been cut short before or after the message left.
Fail(r) ==
    /\ stage[r] \in Running
    /\ Goes(r, "over")
    /\ Abandon(KeyOf(r))
    /\ Answer(r, Just("failed"))
    /\ unsettled' = IF stage[r] = "acted" THEN unsettled \cup {KeyOf(r)} ELSE unsettled
    /\ UNCHANGED <<body, at, tried, result, restarts, done, forgotten>>

\* The store is in memory and what runs is cut short.
Restart ==
    /\ restarts < MaxRestarts
    /\ restarts' = restarts + 1
    /\ print' = [k \in Keys |-> "none"]
    /\ response' = [k \in Keys |-> Nothing]
    /\ order' = <<>> /\ old' = {}
    /\ forgotten' = forgotten \cup Held
    /\ stage' = [r \in Attempts |-> IF stage[r] = "unsent" THEN "unsent" ELSE "over"]
    /\ UNCHANGED <<body, client, done, unsettled>>

-----------------------------------------------------------------------------
Client(c) == Attempt(c) \/ Unreachable(c) \/ TimesOut(c) \/ Receive(c)

Server(r) == Arrive(r) \/ Act(r) \/ Succeed(r) \/ Refuse(r) \/ Fail(r)

Next ==
    \/ \E c \in Calls : Client(c)
    \/ \E r \in Attempts : Server(r)
    \/ \E k \in Keys : RetentionPasses(k)
    \/ Restart

Spec == Init /\ [][Next]_vars

-----------------------------------------------------------------------------
(* Properties. *)

\* A key without an answer has a run that will give it one or free it: nobody is
\* told for ever that the request is still being processed, not even when the
\* entry is not the run's own (IdempotencyFilter.cs:61).
UnansweredIsRunning ==
    \A k \in Held : response[k] = Nothing => Runs(k) # {}

\* Requests with the same key never run at the same time unless the store forgot
\* the key (IdempotencyStore.cs, InFlight).
OneRunAtATime ==
    \A k \in Keys \ forgotten : \A r, s \in Runs(k) : r = s

\* A write takes effect a second time under its key only if the store forgot the
\* key or an earlier attempt took effect and then failed (swarm_client.py:13).
ActsAgainOnlyInDoubt ==
    \A r, s \in done :
        KeyOf(r) = KeyOf(s) /\ r # s => KeyOf(r) \in unsettled \cup forgotten

\* Whatever was lost or late, all who are given a definite answer under a key
\* asked for the same and are given the same, unless the store forgot it.
AnswersAgree ==
    \A c, d \in Calls :
        /\ Key[c] = Key[d] /\ Key[c] \notin forgotten
        /\ {result[c], result[d]} \subseteq Definite
        => body[c] = body[d] /\ result[c] = result[d]

\* A caller told that its write was done has had it done, by an attempt that
\* asked for the same; one told that it was refused has not, short of doubt.
ResultIsTrue ==
    \A c \in Calls :
        LET mine == {r \in done : KeyOf(r) = Key[c] /\ BodyOf(r) = body[c]}
        IN  /\ result[c].kind = "ok" /\ Key[c] \notin forgotten => result[c].by \in mine
            /\ result[c].kind = "refused" /\ mine # {} => Key[c] \in unsettled \cup forgotten

\* "Nothing was received by the API, so nothing was done" (swarm_client.py:57):
\* a call that raises SwarmUnreachable has had no effect.
UnreachableMeansNothingDone ==
    \A c \in Calls :
        result[c].kind = "unreachable" => \A r \in done : r[1] # c
=============================================================================
