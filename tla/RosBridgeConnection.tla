-------------------------- MODULE RosBridgeConnection --------------------------
(***************************************************************************)
(* The API's connection to rosbridge: RosBridgeSwarmBridge.cs.             *)
(*                                                                          *)
(* One background loop connects, introduces itself, puts the socket in     *)
(* service, receives until the connection ends, releases the socket and    *)
(* waits before it tries again.  Requests publish on the socket in service,*)
(* one at a time, under the send lock; the loop takes the same lock to     *)
(* dispose of a socket.  The peer may go away at any time, which neither   *)
(* side of the socket sees at once, and the process may end.               *)
(*                                                                          *)
(* An attempt that fails leaves nothing behind, so that waiting, trying and *)
(* failing to connect are one place here and the length of the wait is left*)
(* out, as are the texts and the parts of a state report that no mission's *)
(* status depends on.                                                       *)
(***************************************************************************)
EXTENDS ApiParameters

CONSTANT Sockets \* sockets, taken again once disposed

ASSUME ConnectionAssumption == "none" \notin Sockets

VARIABLES
    place,     \* where RunAsync stands
    socket,    \* its local socket
    installed, \* _socket: the one in service
    wire,      \* of each socket: "gone", "open", "dead" (peer gone, nobody noticed), "closed"
    greeted,   \* the sockets whose peer was sent advertise, advertise and subscribe
    sendLock,  \* _sendLock: who holds it
    using,     \* the socket the publish in progress has read
    publish,   \* of each request: where its publish stands
    lastState, \* _lastState
    drops      \* how many connections in use were ended by the peer or a send

connectionVars ==
    <<place, socket, installed, wire, greeted, sendLock, using, publish, lastState, drops>>

ConnectionInit ==
    /\ place = "connecting"
    /\ socket = "none"
    /\ installed = "none"
    /\ wire = [s \in Sockets |-> "gone"]
    /\ greeted = {}
    /\ sendLock = "nobody"
    /\ using = "none"
    /\ publish = [c \in Callers |-> "idle"]
    /\ lastState = NoReport
    /\ drops = 0

\* WebSocketState.Open, as this side sees it.
IsOpen(s) == s # "none" /\ wire[s] \in {"open", "dead"}

-----------------------------------------------------------------------------
(* The loop. *)

Connect(s) ==
    /\ place = "connecting"
    /\ wire[s] = "gone"
    /\ place' = "greeting"
    /\ socket' = s
    /\ wire' = [wire EXCEPT ![s] = "open"]
    /\ greeted' = greeted \ {s}
    /\ UNCHANGED <<installed, sendLock, using, publish, lastState, drops>>

\* The third of the introductory messages is sent: the socket goes in service.
Install ==
    /\ place = "greeting"
    /\ IsOpen(socket)
    /\ place' = "receiving"
    /\ greeted' = greeted \cup {socket}
    /\ installed' = socket
    /\ UNCHANGED <<socket, wire, sendLock, using, publish, lastState, drops>>

\* A send failed or the attempt ran out of time.
GreetingFails ==
    /\ place = "greeting"
    /\ place' = "releasing"
    /\ wire' = [wire EXCEPT ![socket] = "closed"]
    /\ UNCHANGED <<socket, installed, greeted, sendLock, using, publish, lastState, drops>>

ReceiveState(report) ==
    /\ place = "receiving"
    /\ wire[socket] = "open"
    /\ lastState' = report
    /\ UNCHANGED <<place, socket, installed, wire, greeted, sendLock, using, publish, drops>>

\* Mutant of ReceiveEnds: nothing comes after the loop.
ReceiveEndsForGood ==
    /\ place = "receiving"
    /\ wire[socket] # "open"
    /\ place' = "ended"
    /\ wire' = [wire EXCEPT ![socket] = "closed"]
    /\ UNCHANGED <<socket, installed, greeted, sendLock, using, publish, lastState, drops>>

\* The loop finds the connection ended: by the peer, or by a send that failed.
ReceiveEnds ==
    /\ place = "receiving"
    /\ wire[socket] # "open"
    /\ place' = "releasing"
    /\ wire' = [wire EXCEPT ![socket] = "closed"]
    /\ UNCHANGED <<socket, installed, greeted, sendLock, using, publish, lastState, drops>>

\* Mutant of TakeOutOfService: the lock is not waited for.
TakeOutAtOnce ==
    /\ place = "releasing"
    /\ sendLock' = "run"
    /\ installed' = IF installed = socket THEN "none" ELSE installed
    /\ place' = "disposing"
    /\ UNCHANGED <<socket, wire, greeted, using, publish, lastState, drops>>

TakeOutOfService ==
    /\ place = "releasing"
    /\ sendLock = "nobody"
    /\ sendLock' = "run"
    /\ installed' = IF installed = socket THEN "none" ELSE installed
    /\ place' = "disposing"
    /\ UNCHANGED <<socket, wire, greeted, using, publish, lastState, drops>>

Dispose ==
    /\ place = "disposing"
    /\ place' = "connecting"
    /\ wire' = [wire EXCEPT ![socket] = "gone"]
    /\ socket' = "none"
    /\ sendLock' = "nobody"
    /\ UNCHANGED <<installed, greeted, using, publish, lastState, drops>>

-----------------------------------------------------------------------------
(* A publish, by the request c. *)

Publish(c) ==
    /\ publish[c] = "idle"
    /\ publish' = [publish EXCEPT ![c] = "waiting"]
    /\ UNCHANGED <<place, socket, installed, wire, greeted, sendLock, using, lastState, drops>>

\* The request is cancelled while it waits for the lock.
Cancel(c) ==
    /\ publish[c] = "waiting"
    /\ publish' = [publish EXCEPT ![c] = "failed"]
    /\ UNCHANGED <<place, socket, installed, wire, greeted, sendLock, using, lastState, drops>>

\* With the lock taken, no socket is open: the lock is given back at once.
Refuse(c) ==
    /\ publish[c] = "waiting"
    /\ sendLock = "nobody"
    /\ ~IsOpen(installed)
    /\ publish' = [publish EXCEPT ![c] = "failed"]
    /\ UNCHANGED <<place, socket, installed, wire, greeted, sendLock, using, lastState, drops>>

StartSend(c) ==
    /\ publish[c] = "waiting"
    /\ sendLock = "nobody"
    /\ IsOpen(installed)
    /\ sendLock' = c
    /\ using' = installed
    /\ publish' = [publish EXCEPT ![c] = "sending"]
    /\ UNCHANGED <<place, socket, installed, wire, greeted, lastState, drops>>

\* The message is handed over; a dead connection takes it too.
SendSucceeds(c) ==
    /\ publish[c] = "sending"
    /\ IsOpen(using)
    /\ publish' = [publish EXCEPT ![c] = "sent"]
    /\ sendLock' = "nobody"
    /\ using' = "none"
    /\ UNCHANGED <<place, socket, installed, wire, greeted, lastState, drops>>

\* Mutant of SendFails: the lock is given back only after a success.
SendFailsLocked(c) ==
    /\ publish[c] = "sending"
    /\ publish' = [publish EXCEPT ![c] = "failed"]
    /\ wire' = [wire EXCEPT ![using] = "closed"]
    /\ drops' = IF wire[using] = "open" THEN drops + 1 ELSE drops
    /\ using' = "none"
    /\ UNCHANGED <<place, socket, installed, greeted, sendLock, lastState>>

\* The send throws, or the request is cancelled in it: either ends the connection.
SendFails(c) ==
    /\ publish[c] = "sending"
    /\ publish' = [publish EXCEPT ![c] = "failed"]
    /\ wire' = [wire EXCEPT ![using] = "closed"]
    /\ drops' = IF wire[using] = "open" THEN drops + 1 ELSE drops
    /\ sendLock' = "nobody"
    /\ using' = "none"
    /\ UNCHANGED <<place, socket, installed, greeted, lastState>>

\* The awaiting request takes the outcome.
Return(c) ==
    /\ publish[c] \in {"sent", "failed"}
    /\ publish' = [publish EXCEPT ![c] = "idle"]
    /\ UNCHANGED <<place, socket, installed, wire, greeted, sendLock, using, lastState, drops>>

-----------------------------------------------------------------------------

PeerGoesAway ==
    /\ drops' = drops + 1
    /\ \E s \in Sockets : wire[s] = "open" /\ wire' = [wire EXCEPT ![s] = "dead"]
    /\ UNCHANGED <<place, socket, installed, greeted, sendLock, using, publish, lastState>>

\* The process ends and starts again: a new bridge object.
ConnectionRestarts ==
    /\ place' = "connecting"
    /\ socket' = "none"
    /\ installed' = "none"
    /\ wire' = [s \in Sockets |-> "gone"]
    /\ greeted' = {}
    /\ sendLock' = "nobody"
    /\ using' = "none"
    /\ publish' = [c \in Callers |-> "idle"]
    /\ lastState' = NoReport
    /\ UNCHANGED drops

RunLoop ==
    \/ \E s \in Sockets : Connect(s)
    \/ Install
    \/ GreetingFails
    \/ \E report \in MissionReports : ReceiveState(report)
    \/ ReceiveEnds
    \/ TakeOutOfService
    \/ Dispose

Publishing(c) ==
    \/ Publish(c)
    \/ Cancel(c)
    \/ Refuse(c)
    \/ StartSend(c)
    \/ SendSucceeds(c)
    \/ SendFails(c)
    \/ Return(c)

ConnectionNext ==
    \/ RunLoop
    \/ \E c \in Callers : Publishing(c)
    \/ PeerGoesAway
    \/ ConnectionRestarts

ConnectionSpec == ConnectionInit /\ [][ConnectionNext]_connectionVars

-----------------------------------------------------------------------------

ConnectionTypeOK ==
    /\ place \in {"connecting", "greeting", "receiving", "releasing", "disposing"}
    /\ socket \in Sockets \cup {"none"}
    /\ installed \in Sockets \cup {"none"}
    /\ wire \in [Sockets -> {"gone", "open", "dead", "closed"}]
    /\ greeted \subseteq Sockets
    /\ sendLock \in Callers \cup {"nobody", "run"}
    /\ using \in Sockets \cup {"none"}
    /\ publish \in [Callers -> {"idle", "waiting", "sending", "sent", "failed"}]
    /\ lastState \in MissionReports
    /\ drops \in Nat

\* A message to the swarm leaves on a socket on which the topics were announced
\* and which nobody has disposed of, and by the one request that holds the send
\* lock (PublishAsync against ReleaseSocketAsync and RunAsync: an announcement
\* missing or late loses the message without a word, a disposed socket throws).
PublishesOnLiveSocket ==
    \A c \in Callers : publish[c] = "sending" =>
        /\ sendLock = c
        /\ using \in greeted
        /\ wire[using] # "gone"

=============================================================================
