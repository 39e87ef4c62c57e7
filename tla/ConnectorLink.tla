---------------------------- MODULE ConnectorLink ----------------------------
(***************************************************************************)
(* The realtime link between the server and its connectors: the            *)
(* ConnectionManager (which websocket is registered for a device), the     *)
(* /connector/v1/ws handler of each websocket, and the CommandBroker       *)
(* (which command waits for which answer).                                 *)
(*                                                                         *)
(* Everything runs on one asyncio loop, so a step here is what runs        *)
(* between two suspensions: the two locks are never held across one, and   *)
(* a coroutine suspends only to close another socket, to write presence in *)
(* a thread, to receive, to send and to wait for an answer.  Sockets are   *)
(* numbered in the order the connectors open them.                         *)
(***************************************************************************)
EXTENDS Naturals

CONSTANTS
  Device,       \* registered devices
  Command,      \* calls of send_command
  MaxSockets,   \* bound: websockets ever opened
  MaxDbFaults,  \* bound: transactions that fail (a locked database)
  MaxCrashes    \* bound: process stops

NoCommand == "no command"

ASSUME LinkAssumption ==
  /\ MaxSockets \in Nat
  /\ MaxDbFaults \in Nat
  /\ MaxCrashes \in Nat
  /\ NoCommand \notin Command

Socket == 1 .. MaxSockets
NoSocket == 0
NoDevice == "no device"

VARIABLES
  registered,  \* [Device -> Socket or NoSocket]: _connections
  handler,     \* [Socket -> where its handler is]
  owner,       \* [Socket -> Device or NoDevice]: who authenticated
  client,      \* [Socket -> Starlette's client_state]
  app,         \* [Socket -> Starlette's application_state]
  peer,        \* [Socket -> "open" or "gone"]: the connector's end
  inHand,      \* [Socket -> Command or NoCommand]: the answer being handled
  pending,     \* SUBSET Command: the keys of _pending
  future,      \* [Command -> "none", "waiting", "resolved" or "cancelled"]
  call,        \* [Command -> where its send_command is, or its outcome]
  via,         \* [Command -> Socket or NoSocket]: the socket it was sent on
  delivered,   \* SUBSET Command: those that reached the connector
  answers,     \* SUBSET (Command \X Socket): answers on their way
  answered,    \* SUBSET (Command \X Socket): answers ever sent
  faults, crashes

sockets == <<registered, handler, owner, client, app, peer, inHand>>
broker == <<pending, future, call, via>>
wire == <<delivered, answers, answered>>
bounds == <<faults, crashes>>
vars == <<sockets, broker, wire, bounds>>

\* A handler runs from Connect until it is "finished" (through its finally)
\* or "dead" (an exception before the try: nothing is undone).
Handler == {"new", "closing", "presence", "serving", "recording",
            "finished", "dead"}
SocketState == {"connecting", "connected", "disconnected"}

\* A call in progress when the process stops is "lost".
Returned == {"answered", "timeout", "not_connected", "not_sent", "lost"}
InCall == {"sending", "waiting", "timing_out"}

\* get_connection: the registered socket, unless it is on its way in or out.
Connected(d) ==
  /\ registered[d] # NoSocket
  /\ client[registered[d]] = "connected"
  /\ app[registered[d]] = "connected"
-----------------------------------------------------------------------------
Init ==
  /\ registered = [d \in Device |-> NoSocket]
  /\ handler = [s \in Socket |-> "new"]
  /\ owner = [s \in Socket |-> NoDevice]
  /\ client = [s \in Socket |-> "connecting"]
  /\ app = [s \in Socket |-> "connecting"]
  /\ peer = [s \in Socket |-> "open"]
  /\ inHand = [s \in Socket |-> NoCommand]
  /\ pending = {}
  /\ future = [c \in Command |-> "none"]
  /\ call = [c \in Command |-> "idle"]
  /\ via = [c \in Command |-> NoSocket]
  /\ delivered = {}
  /\ answers = {}
  /\ answered = {}
  /\ faults = 0
  /\ crashes = 0

(***************************************************************************)
(* A socket authenticates and takes the place of the device's previous     *)
(* one, which it then closes.  Closing moves the old socket to             *)
(* DISCONNECTED and tells its connector (a no-op on a lost link).  It      *)
(* raises when the application side is closed already (Starlette), and may *)
(* raise when the old handler is dead (the websocket server); nothing      *)
(* catches that: the new handler dies, and its socket stays registered.    *)
(***************************************************************************)
CloseRaises(old) == app[old] = "disconnected"

CloseMayRaise(old) == handler[old] = "dead"

Connect(s, d) ==
  LET old == registered[d] IN
  /\ handler[s] = "new"
  /\ \A t \in Socket : t < s => handler[t] # "new"
  /\ owner' = [owner EXCEPT ![s] = d]
  /\ registered' = [registered EXCEPT ![d] = s]
  /\ \/ /\ old = NoSocket
        /\ handler' = [handler EXCEPT ![s] = "presence"]
        /\ UNCHANGED <<app, peer>>
     \/ /\ old # NoSocket
        /\ ~CloseRaises(old)
        /\ handler' = [handler EXCEPT ![s] = "closing"]
        /\ app' = [app EXCEPT ![old] = "disconnected"]
        /\ UNCHANGED peer
     \/ /\ old # NoSocket
        /\ CloseRaises(old) \/ CloseMayRaise(old)
        /\ handler' = [handler EXCEPT ![s] = "dead"]
        /\ app' = [app EXCEPT ![old] = "disconnected"]
        /\ peer' = [peer EXCEPT ![s] = "gone"]
  /\ UNCHANGED <<client, inHand, broker, wire, bounds>>

\* The closing handshake with the old connector is over (or timed out).
OldClosed(s) ==
  /\ handler[s] = "closing"
  /\ handler' = [handler EXCEPT ![s] = "presence"]
  /\ UNCHANGED <<registered, owner, client, app, peer, inHand, broker, wire,
                 bounds>>

(***************************************************************************)
(* Presence is written (connected_at, last_seen_at), then the socket is    *)
(* accepted, unless a later socket of the device closed it meanwhile.      *)
(***************************************************************************)
Accept(s) ==
  /\ handler[s] = "presence"
  /\ app[s] = "connecting"
  /\ handler' = [handler EXCEPT ![s] = "serving"]
  /\ client' = [client EXCEPT ![s] = "connected"]
  /\ app' = [app EXCEPT ![s] = "connected"]
  /\ UNCHANGED <<registered, owner, peer, inHand, broker, wire, bounds>>

\* The presence write fails, or accept raises on a socket already closed.
HandlerDies(s) ==
  /\ handler[s] = "presence"
  /\ handler' = [handler EXCEPT ![s] = "dead"]
  /\ peer' = [peer EXCEPT ![s] = "gone"]
  /\ \/ /\ app[s] = "disconnected"
        /\ client' = [client EXCEPT ![s] = "connected"]
        /\ UNCHANGED faults
     \/ /\ faults < MaxDbFaults
        /\ faults' = faults + 1
        /\ UNCHANGED client
  /\ UNCHANGED <<registered, owner, app, inHand, broker, wire, crashes>>

\* Faulty variant: whoever leaves clears the device's entry.
LeaveRegardless(s) ==
  /\ handler' = [handler EXCEPT ![s] = "finished"]
  /\ peer' = [peer EXCEPT ![s] = "gone"]
  /\ inHand' = [inHand EXCEPT ![s] = NoCommand]
  /\ registered' = [registered EXCEPT ![owner[s]] = NoSocket]
  /\ UNCHANGED owner

\* Faulty variant: the entry stays.
LeaveRegistered(s) ==
  /\ handler' = [handler EXCEPT ![s] = "finished"]
  /\ peer' = [peer EXCEPT ![s] = "gone"]
  /\ inHand' = [inHand EXCEPT ![s] = NoCommand]
  /\ UNCHANGED <<owner, registered>>

\* The finally of the handler: unregister, if still the registered socket.
Leave(s) ==
  /\ handler' = [handler EXCEPT ![s] = "finished"]
  /\ peer' = [peer EXCEPT ![s] = "gone"]
  /\ inHand' = [inHand EXCEPT ![s] = NoCommand]
  /\ registered' = [d \in Device |->
       IF d = owner[s] /\ registered[d] = s THEN NoSocket ELSE registered[d]]
  /\ UNCHANGED owner

\* Faulty variant: a socket closed by its successor waits for its connector.
ReceiveEndsOnLoss(s) ==
  /\ handler[s] = "serving"
  /\ peer[s] = "gone"
  /\ client' = [client EXCEPT ![s] = "disconnected"]
  /\ Leave(s)
  /\ answers' = {a \in answers : a[2] # s}
  /\ UNCHANGED <<app, broker, delivered, answered, bounds>>

(***************************************************************************)
(* A "serving" handler waits in receive_json.  It is told that its         *)
(* connector is lost or that its own side was closed; a message that is    *)
(* not JSON raises; an answer is taken in hand, even while the handshake   *)
(* that closes the socket goes on.  Heartbeats and other messages carry no *)
(* answer and only refresh presence.                                       *)
(***************************************************************************)
ReceiveEnds(s) ==
  /\ handler[s] = "serving"
  /\ app[s] # "connected" \/ peer[s] = "gone"
  /\ client' = [client EXCEPT ![s] = "disconnected"]
  /\ Leave(s)
  /\ answers' = {a \in answers : a[2] # s}
  /\ UNCHANGED <<app, broker, delivered, answered, bounds>>

ReceiveFails(s) ==
  /\ handler[s] = "serving"
  /\ peer[s] = "open"
  /\ Leave(s)
  /\ answers' = {a \in answers : a[2] # s}
  /\ UNCHANGED <<client, app, broker, delivered, answered, bounds>>

ReceiveAnswer(s, c) ==
  /\ handler[s] = "serving"
  /\ <<c, s>> \in answers
  /\ answers' = answers \ {<<c, s>>}
  /\ handler' = [handler EXCEPT ![s] = "recording"]
  /\ inHand' = [inHand EXCEPT ![s] = c]
  /\ UNCHANGED <<registered, owner, client, app, peer, broker, delivered,
                 answered, bounds>>

ReceiveOther(s) ==
  /\ handler[s] = "serving"
  /\ peer[s] = "open"
  /\ handler' = [handler EXCEPT ![s] = "recording"]
  /\ UNCHANGED <<registered, owner, client, app, peer, inHand, broker, wire,
                 bounds>>

(***************************************************************************)
(* Presence is written; then resolve_response pops the waiting future and  *)
(* completes it, unless it is gone or already done.  On a socket that was  *)
(* closed meanwhile the next receive_json raises at once.                  *)
(***************************************************************************)
\* Faulty variants: set_result without asking whether the future is done; the
\* future is only registered after the send.
ResolvesBlindly(c) == c \in pending

ResolvesOnceSent(c) == c \in pending /\ future[c] = "waiting" /\ call[c] # "sending"

Resolves(c) == c \in pending /\ future[c] = "waiting"

\* set_result raises InvalidStateError on a future that is done.
ResolveRaises(c) == Resolves(c) /\ future[c] # "waiting"

\* Faulty variant: an answer completes whatever waits, not its own request.
ResolveWhateverWaits(s) ==
  /\ handler[s] = "recording"
  /\ pending' = {}
  /\ future' = [c \in Command |-> IF Resolves(c) THEN "resolved"
                                  ELSE future[c]]
  /\ handler' = [handler EXCEPT ![s] = "serving"]
  /\ inHand' = [inHand EXCEPT ![s] = NoCommand]
  /\ UNCHANGED <<registered, owner, peer, client, app, call, via, wire, bounds>>

Resolve(s) ==
  LET c == inHand[s] IN
  /\ handler[s] = "recording"
  /\ pending' = pending \ {c}
  /\ future' = [future EXCEPT ![c] = IF Resolves(c) THEN "resolved" ELSE @]
  /\ IF ResolveRaises(c) \/ app[s] # "connected"
       THEN /\ Leave(s)
            /\ answers' = {a \in answers : a[2] # s}
       ELSE /\ handler' = [handler EXCEPT ![s] = "serving"]
            /\ inHand' = [inHand EXCEPT ![s] = NoCommand]
            /\ UNCHANGED <<registered, owner, peer, answers>>
  /\ UNCHANGED <<client, app, call, via, delivered, answered, bounds>>

\* The presence write fails: the answer in hand is lost with the socket.
RecordFails(s) ==
  /\ handler[s] = "recording"
  /\ faults < MaxDbFaults
  /\ faults' = faults + 1
  /\ Leave(s)
  /\ answers' = {a \in answers : a[2] # s}
  /\ UNCHANGED <<client, app, broker, delivered, answered, crashes>>
-----------------------------------------------------------------------------
(***************************************************************************)
(* send_command: no connection, no call; else the future is registered and *)
(* the request goes out.  It reaches the connector unless that is gone.    *)
(***************************************************************************)
NotConnected(c, d) ==
  /\ call[c] = "idle"
  /\ ~Connected(d)
  /\ call' = [call EXCEPT ![c] = "not_connected"]
  /\ UNCHANGED <<sockets, pending, future, via, wire, bounds>>

Dispatch(c, d) ==
  LET s == registered[d] IN
  /\ call[c] = "idle"
  /\ Connected(d)
  /\ call' = [call EXCEPT ![c] = "sending"]
  /\ via' = [via EXCEPT ![c] = s]
  /\ pending' = pending \cup {c}
  /\ future' = [future EXCEPT ![c] = "waiting"]
  /\ delivered' = IF peer[s] = "open" THEN delivered \cup {c} ELSE delivered
  /\ UNCHANGED <<sockets, answers, answered, bounds>>

Sent(c) ==
  /\ call[c] = "sending"
  /\ call' = [call EXCEPT ![c] = "waiting"]
  /\ UNCHANGED <<sockets, pending, future, via, wire, bounds>>

\* The send raises: Starlette marks the socket, the broker forgets the call.
SendRaises(c) ==
  /\ call[c] = "sending"
  /\ peer[via[c]] = "gone"
  /\ app' = [app EXCEPT ![via[c]] = "disconnected"]
  /\ call' = [call EXCEPT ![c] = "not_sent"]
  /\ pending' = pending \ {c}
  /\ UNCHANGED <<registered, handler, owner, client, peer, inHand, future,
                 via, wire, bounds>>

\* Faulty variant: no timer, only a lost connector ends the wait.
TimerFiresOnLoss(c) ==
  /\ call[c] = "waiting"
  /\ peer[via[c]] = "gone"
  /\ call' = [call EXCEPT ![c] = "timing_out"]
  /\ future' = [future EXCEPT ![c] = IF @ = "waiting" THEN "cancelled" ELSE @]
  /\ UNCHANGED <<sockets, pending, via, wire, bounds>>

\* The timer of wait_for cancels the wait, even of a future just resolved.
TimerFires(c) ==
  /\ call[c] = "waiting"
  /\ call' = [call EXCEPT ![c] = "timing_out"]
  /\ future' = [future EXCEPT ![c] = IF @ = "waiting" THEN "cancelled" ELSE @]
  /\ UNCHANGED <<sockets, pending, via, wire, bounds>>

\* Faulty variant: no finally around the wait.
ReturnsLeavingPending(c) ==
  /\ \/ /\ call[c] = "timing_out"
        /\ call' = [call EXCEPT ![c] = "timeout"]
     \/ /\ call[c] = "waiting"
        /\ future[c] = "resolved"
        /\ call' = [call EXCEPT ![c] = "answered"]
  /\ UNCHANGED <<sockets, pending, future, via, wire, bounds>>

\* The waiting coroutine wakes: the finally forgets the call either way.
Returns(c) ==
  /\ \/ /\ call[c] = "timing_out"
        /\ call' = [call EXCEPT ![c] = "timeout"]
     \/ /\ call[c] = "waiting"
        /\ future[c] = "resolved"
        /\ call' = [call EXCEPT ![c] = "answered"]
  /\ pending' = pending \ {c}
  /\ UNCHANGED <<sockets, future, via, wire, bounds>>
-----------------------------------------------------------------------------
(***************************************************************************)
(* The connectors: they answer what reached them, on any open socket of    *)
(* theirs (a new one after a reconnection), late or never, and lose links. *)
(***************************************************************************)
Answers(c, s) ==
  /\ c \in delivered
  /\ peer[s] = "open"
  /\ handler[s] \in {"serving", "recording"}
  /\ owner[s] = owner[via[c]]
  /\ <<c, s>> \notin answered
  /\ answers' = answers \cup {<<c, s>>}
  /\ answered' = answered \cup {<<c, s>>}
  /\ UNCHANGED <<sockets, broker, delivered, bounds>>

LinkLost(s) ==
  /\ handler[s] \notin {"new", "finished"}
  /\ peer[s] = "open"
  /\ peer' = [peer EXCEPT ![s] = "gone"]
  /\ UNCHANGED <<registered, handler, owner, client, app, inHand, broker, wire,
                 bounds>>

(***************************************************************************)
(* The process stops and starts again: every connection, pending future    *)
(* and call is gone; what reached a connector may still be answered later. *)
(***************************************************************************)
Crash ==
  /\ crashes < MaxCrashes
  /\ crashes' = crashes + 1
  /\ registered' = [d \in Device |-> NoSocket]
  /\ handler' = [s \in Socket |-> IF handler[s] = "new" THEN "new"
                                                       ELSE "finished"]
  /\ peer' = [s \in Socket |-> IF handler[s] = "new" THEN peer[s] ELSE "gone"]
  /\ inHand' = [s \in Socket |-> NoCommand]
  /\ pending' = {}
  /\ future' = [c \in Command |-> "none"]
  /\ call' = [c \in Command |-> IF call[c] \in InCall THEN "lost" ELSE call[c]]
  /\ answers' = {}
  /\ UNCHANGED <<owner, client, app, via, delivered, answered, faults>>

HandlerStep(s) ==
  \/ \E d \in Device : Connect(s, d)
  \/ OldClosed(s)
  \/ Accept(s)
  \/ HandlerDies(s)
  \/ ReceiveEnds(s)
  \/ ReceiveFails(s)
  \/ \E c \in Command : ReceiveAnswer(s, c)
  \/ ReceiveOther(s)
  \/ Resolve(s)
  \/ RecordFails(s)

WaitStep(c) == Sent(c) \/ SendRaises(c) \/ TimerFires(c) \/ Returns(c)

ConnectorStep ==
  \E s \in Socket : LinkLost(s) \/ \E c \in Command : Answers(c, s)

Next ==
  \/ \E s \in Socket : HandlerStep(s)
  \/ \E c \in Command, d \in Device : NotConnected(c, d) \/ Dispatch(c, d)
  \/ \E c \in Command : WaitStep(c)
  \/ ConnectorStep
  \/ Crash

(***************************************************************************)
(* The loop runs what is ready: a closing handshake and a send are bounded *)
(* by the websocket server, a wait by its timer.  Connectors owe nothing.  *)
(***************************************************************************)
Fairness ==
  /\ \A s \in Socket :
       /\ WF_vars(OldClosed(s))
       /\ WF_vars(Accept(s) \/ HandlerDies(s))
       /\ WF_vars(ReceiveEnds(s) \/ \E c \in Command : ReceiveAnswer(s, c))
       /\ WF_vars(Resolve(s) \/ RecordFails(s))
  /\ \A c \in Command : WF_vars(WaitStep(c))

Spec == Init /\ [][Next]_vars
FairSpec == Spec /\ Fairness
-----------------------------------------------------------------------------
TypeOK ==
  /\ registered \in [Device -> Socket \cup {NoSocket}]
  /\ handler \in [Socket -> Handler]
  /\ owner \in [Socket -> Device \cup {NoDevice}]
  /\ client \in [Socket -> SocketState]
  /\ app \in [Socket -> SocketState]
  /\ peer \in [Socket -> {"open", "gone"}]
  /\ inHand \in [Socket -> Command \cup {NoCommand}]
  /\ pending \in SUBSET Command
  /\ future \in [Command -> {"none", "waiting", "resolved", "cancelled"}]
  /\ call \in [Command -> {"idle"} \cup InCall \cup Returned]
  /\ via \in [Command -> Socket \cup {NoSocket}]
  /\ delivered \in SUBSET Command
  /\ answers \in SUBSET (Command \X Socket)
  /\ answered \in SUBSET (Command \X Socket)
  /\ faults \in Nat
  /\ crashes \in Nat

(***************************************************************************)
(* What get_connection hands to a command has a handler that reads its     *)
(* answers: no finished, dead or half-open entry is ever used.             *)
(***************************************************************************)
ConnectedIsServed ==
  \A d \in Device :
    Connected(d) => /\ handler[registered[d]] \in {"serving", "recording"}
                    /\ owner[registered[d]] = d

(***************************************************************************)
(* However reconnections race, a socket that still serves and could still  *)
(* send is the registered one: no device is served by two sockets, and     *)
(* none is served without being reachable by commands.                     *)
(***************************************************************************)
ServingIsRegistered ==
  \A s \in Socket :
    handler[s] \in {"serving", "recording"} /\ app[s] = "connected" =>
      registered[owner[s]] = s

(***************************************************************************)
(* A command that has returned leaves nothing behind in the broker, and    *)
(* only a command whose future is not forgotten can still be answered.     *)
(***************************************************************************)
NoPendingLeak ==
  \A c \in Command : c \in pending => call[c] \in InCall

(***************************************************************************)
(* An answer that comes late, twice, or for a command that just timed out  *)
(* never costs the connector its connection: only a failed presence write, *)
(* or the end of the process, drops a socket that has an answer in hand    *)
(* and that was not closed from within.                                    *)
(***************************************************************************)
AnswersNeverKill ==
  [][\A s \in Socket :
       /\ handler[s] = "recording" /\ handler'[s] = "finished"
       /\ app[s] = "connected"
       => faults' > faults \/ crashes' > crashes]_vars

(***************************************************************************)
(* A call returns once, and returns an answer only if the device it was    *)
(* sent to has answered this very call, however late, twice or crosswise   *)
(* answers come and however often the device reconnects.                   *)
(***************************************************************************)
Replied == {c \in Command : \E s \in Socket : /\ <<c, s>> \in answered
                                               /\ owner[s] = owner[via[c]]}

Stand(x) == IF x = "idle" THEN "none" ELSE IF x \in InCall THEN "open" ELSE x

Calls == INSTANCE RequestPromise WITH
           outcome <- [c \in Command |-> Stand(call[c])], replied <- Replied,
           Ending <- Returned, Success <- "answered"

KeepsCallPromise == Calls!Spec

\* An answer that leaves its handler's hand is set as the result, if its call is
\* awaited; a result stays until its call ends, with it or for a reason named.
Awaited(c) == call[c] \in {"sending", "waiting"}

SetsResult(c) ==
  (\E s \in Socket : inHand[s] = c /\ inHand'[s] # c) /\ Awaited(c) =>
    future'[c] = "resolved" \/ faults' > faults \/ crashes' > crashes

KeepsResult(c) ==
  future[c] = "resolved" /\ Awaited(c) =>
    \/ future'[c] = "resolved" /\ Awaited(c)'
    \/ call'[c] \in {"answered", "timing_out"}
    \/ call'[c] = "not_sent" /\ peer[via[c]] = "gone"
    \/ crashes' > crashes

(***************************************************************************)
(* What comes in time is not taken for a late answer, however answers,     *)
(* timers, reconnections and other calls interleave: an answer in hand     *)
(* whose call still waits, its timer not yet fired, becomes the result of  *)
(* that call, unless its presence write fails or the process ends.  That   *)
(* result is not taken back, and the call returns it, unless before it     *)
(* wakes its timer fires (wait_for then drops the result), its own send    *)
(* fails for a connector that is gone, or the process ends.                *)
(***************************************************************************)
TimelyAnswersCount ==
  [][\A c \in Command : SetsResult(c) /\ KeepsResult(c)]_vars

\* Every call of send_command returns.
CallsReturn ==
  \A c \in Command : call[c] \in InCall ~> call[c] \in Returned

(***************************************************************************)
(* A socket that was accepted and has been superseded or has lost its      *)
(* connector is let go.                                                    *)
(***************************************************************************)
SupersededLeave ==
  \A s \in Socket :
    handler[s] \in {"serving", "recording"} /\ app[s] = "disconnected"
      ~> handler[s] = "finished"

(***************************************************************************)
(* A connection with a valid token is registered and served               *)
(* (tests/test_ws_and_blobs.py:98): its handler dies only of a failed      *)
(* presence write of its own or because a later socket took its place.     *)
(***************************************************************************)
DiesOnlyOfItsOwn ==
  [][\A s \in Socket :
       handler[s] # "dead" /\ handler'[s] = "dead" =>
         \/ faults' > faults
         \/ \E t \in Socket : t > s /\ owner'[t] = owner'[s]]_vars
=============================================================================
