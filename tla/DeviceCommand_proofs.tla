------------------------- MODULE DeviceCommand_proofs -------------------------
(***************************************************************************)
(* Theorems about the realtime link, for any devices and commands, any     *)
(* number of sockets opened in any order and any number of faults, and     *)
(* about the device commands over it.  The rows only observe the link, so  *)
(* every invariant proved of the link holds under them; what is proved of  *)
(* them relates the rows to the calls they record.                         *)
(***************************************************************************)
EXTENDS DeviceCommand, TLAPS

\* What is registered is the device's own socket, and not one that has left;
\* a live socket that has not been closed from within is registered; and
\* only an accepted socket is connected on both sides.
RouteInv ==
  /\ \A s \in Socket : handler[s] # "new" => owner[s] \in Device
  /\ \A d \in Device : registered[d] # NoSocket =>
       /\ owner[registered[d]] = d
       /\ handler[registered[d]] \notin {"new", "finished"}
  /\ \A s \in Socket :
       /\ handler[s] \in {"closing", "presence", "serving", "recording"}
       /\ app[s] # "disconnected"
       => registered[owner[s]] = s
  /\ \A s \in Socket :
       handler[s] \in {"new", "closing", "presence"} => client[s] = "connecting"
  /\ \A s \in Socket :
       handler[s] = "dead" => ~(client[s] = "connected" /\ app[s] = "connected")

\* An answer exists only of a command that was sent, and comes from a socket
\* of the device it was sent to; a resolved future was answered.
AnswerInv ==
  /\ \A c \in delivered : via[c] \in Socket /\ handler[via[c]] # "new"
  /\ \A a \in answered : /\ a[1] \in delivered
                         /\ handler[a[2]] # "new"
                         /\ owner[a[2]] = owner[via[a[1]]]
  /\ answers \subseteq answered
  /\ \A s \in Socket : inHand[s] # NoCommand =>
       handler[s] = "recording" /\ <<inHand[s], s>> \in answered
  /\ \A c \in Command : future[c] = "resolved" =>
       \E s \in Socket : <<c, s>> \in answered
  /\ \A c \in Command : call[c] = "answered" =>
       \E s \in Socket : <<c, s>> \in answered
  /\ \A c \in Command : call[c] = "idle" => c \notin delivered

\* The table of the broker is exact: it holds the calls in progress, and a call
\* that still waits is in it until its future is resolved.
PendingInv ==
  \A c \in Command :
    /\ c \in pending => call[c] \in InCall
    /\ call[c] \in {"sending", "waiting"} =>
         \/ c \in pending /\ future[c] = "waiting"
         \/ c \notin pending /\ future[c] = "resolved"

IInv == TypeOK /\ RouteInv /\ AnswerInv /\ PendingInv
-----------------------------------------------------------------------------
USE LinkAssumption DEF Socket, NoSocket

LEMMA TypeStep == TypeOK /\ [Next]_vars => TypeOK'
<1> SUFFICES ASSUME TypeOK, [Next]_vars PROVE TypeOK'
  OBVIOUS
<1>1. ASSUME NEW s \in Socket, NEW d \in Device, Connect(s, d) PROVE TypeOK'
  BY <1>1 DEF Connect, bounds, TypeOK, broker, wire, SocketState, Handler
<1>2. ASSUME NEW s \in Socket, OldClosed(s) PROVE TypeOK'
  BY <1>2 DEF OldClosed, bounds, TypeOK, broker, wire, Handler
<1>3. ASSUME NEW s \in Socket, Accept(s) PROVE TypeOK'
  BY <1>3 DEF Accept, bounds, TypeOK, broker, wire, SocketState, Handler
<1>4. ASSUME NEW s \in Socket, HandlerDies(s) PROVE TypeOK'
  BY <1>4 DEF HandlerDies, TypeOK, broker, wire, SocketState, Handler
<1>5. ASSUME NEW s \in Socket, ReceiveEnds(s) PROVE TypeOK'
  BY <1>5 DEF ReceiveEnds, bounds, TypeOK, Leave, broker, Handler, SocketState
<1>6. ASSUME NEW s \in Socket, NEW c \in Command, ReceiveAnswer(s, c)
      PROVE  TypeOK'
  BY <1>6 DEF ReceiveAnswer, bounds, TypeOK, broker, Handler
<1>7. ASSUME NEW s \in Socket, Resolve(s) PROVE TypeOK'
  <2>1. /\ pending' \in SUBSET Command
        /\ future' \in [Command -> {"none", "waiting", "resolved", "cancelled"}]
        /\ UNCHANGED <<client, app, call, via, delivered, answered, bounds>>
    BY <1>7 DEF Resolve, Resolves, TypeOK
  <2>2. CASE Leave(s) /\ answers' = {a \in answers : a[2] # s}
    BY <2>1, <2>2 DEF Leave, bounds, TypeOK, Handler
  <2>3. CASE /\ handler' = [handler EXCEPT ![s] = "serving"]
             /\ inHand' = [inHand EXCEPT ![s] = NoCommand]
             /\ UNCHANGED <<registered, owner, peer, answers>>
    BY <2>1, <2>3 DEF bounds, TypeOK, Handler
  <2>4. QED
    BY <1>7, <2>2, <2>3 DEF Resolve
<1>8. ASSUME NEW s \in Socket, RecordFails(s) PROVE TypeOK'
  BY <1>8 DEF RecordFails, TypeOK, Leave, broker, Handler
<1>9. ASSUME NEW c \in Command, NEW d \in Device, NotConnected(c, d)
      PROVE  TypeOK'
  BY <1>9 DEF NotConnected, bounds, TypeOK, sockets, wire, Returned
<1>10. ASSUME NEW c \in Command, NEW d \in Device, Dispatch(c, d)
       PROVE  TypeOK'
  BY <1>10 DEF Dispatch, bounds, TypeOK, sockets, Connected, InCall
<1>11. ASSUME NEW c \in Command, Sent(c) PROVE TypeOK'
  BY <1>11 DEF Sent, bounds, TypeOK, sockets, wire, InCall
<1>12. ASSUME NEW c \in Command, SendRaises(c) PROVE TypeOK'
  BY <1>12 DEF SendRaises, bounds, TypeOK, SocketState, wire, Returned
<1>13. ASSUME NEW c \in Command, TimerFires(c) PROVE TypeOK'
  BY <1>13 DEF TimerFires, bounds, TypeOK, sockets, wire, InCall
<1>14. ASSUME NEW c \in Command, Returns(c) PROVE TypeOK'
  BY <1>14 DEF Returns, bounds, TypeOK, sockets, wire, Returned
<1>15. ASSUME NEW c \in Command, NEW s \in Socket, Answers(c, s) PROVE TypeOK'
  BY <1>15 DEF Answers, bounds, TypeOK, sockets, broker
<1>16. ASSUME NEW s \in Socket, LinkLost(s) PROVE TypeOK'
  BY <1>16 DEF LinkLost, bounds, TypeOK, broker, wire
<1>17. CASE Crash
  BY <1>17 DEF Crash, TypeOK, Handler, InCall, Returned
<1>18. ASSUME NEW s \in Socket, ReceiveOther(s) PROVE TypeOK'
  BY <1>18 DEF ReceiveOther, TypeOK, broker, wire, bounds, Handler
<1>19. CASE UNCHANGED vars
  BY <1>19 DEF vars, sockets, broker, wire, bounds, TypeOK
<1>20. ASSUME NEW s \in Socket, ReceiveFails(s) PROVE TypeOK'
  BY <1>20 DEF ReceiveFails, bounds, TypeOK, Leave, broker, Handler
<1>21. QED
  BY <1>1, <1>2, <1>3, <1>4, <1>5, <1>6, <1>7, <1>8, <1>9, <1>10, <1>11,
     <1>12, <1>13, <1>14, <1>15, <1>16, <1>17, <1>18, <1>19, <1>20
     DEF Next,
     HandlerStep, WaitStep, ConnectorStep

(***************************************************************************)
(* Type correctness of the link.                                           *)
(***************************************************************************)
THEOREM TypeCorrect == Spec => []TypeOK
<1>1. Init => TypeOK
  BY DEF Init, TypeOK, SocketState, Handler
<1>2. QED
  BY <1>1, TypeStep, PTL DEF Spec
-----------------------------------------------------------------------------
\* A handler that goes through its finally keeps the routes.
LEMMA LeaveKeepsRoute ==
  ASSUME TypeOK, RouteInv, NEW s \in Socket, Leave(s),
         handler[s] \in {"serving", "recording"}, app' = app,
         \A t \in Socket \ {s} : client'[t] = client[t]
  PROVE  RouteInv'
<1>1. /\ \A t \in Socket \ {s} : handler'[t] = handler[t]
      /\ handler'[s] = "finished"
      /\ owner' = owner
  BY DEF TypeOK, Leave
<1>2. \A d \in Device :
        registered'[d] = IF d = owner[s] /\ registered[d] = s
                           THEN NoSocket ELSE registered[d]
  BY DEF Leave
<1>3. \A d \in Device : registered'[d] # s
  BY <1>2 DEF RouteInv
<1>4. \A d \in Device : registered'[d] # NoSocket =>
        registered'[d] = registered[d] /\ registered[d] \in Socket \ {s}
  BY <1>2, <1>3 DEF TypeOK
<1>5. \A t \in Socket :
        /\ handler'[t] \in {"closing", "presence", "serving", "recording"}
        /\ app'[t] # "disconnected"
        => registered'[owner'[t]] = t
  <2> SUFFICES ASSUME NEW t \in Socket \ {s},
                      handler[t] \in {"closing", "presence",
                                      "serving", "recording"},
                      app[t] # "disconnected"
               PROVE  registered'[owner[t]] = t
    BY <1>1
  <2>1. owner[t] \in Device /\ registered[owner[t]] = t
    BY DEF RouteInv
  <2>2. QED
    BY <1>2, <2>1
<1>6. \A d \in Device : registered'[d] # NoSocket =>
        /\ owner'[registered'[d]] = d
        /\ handler'[registered'[d]] \notin {"new", "finished"}
  BY <1>1, <1>4 DEF RouteInv
<1>7. \A t \in Socket : handler'[t] # "new" => owner'[t] \in Device
  BY <1>1 DEF RouteInv
<1>8. /\ \A t \in Socket : handler'[t] \in {"new", "closing", "presence"}
                           => client'[t] = "connecting"
      /\ \A t \in Socket : handler'[t] = "dead" =>
            ~(client'[t] = "connected" /\ app'[t] = "connected")
  BY <1>1 DEF RouteInv
<1>9. QED
  BY <1>5, <1>6, <1>7, <1>8 DEF RouteInv

LEMMA RouteStep == TypeOK /\ RouteInv /\ [Next]_vars => RouteInv'
<1> SUFFICES ASSUME TypeOK, RouteInv, [Next]_vars PROVE RouteInv'
  OBVIOUS
<1>1. ASSUME NEW s \in Socket, NEW d \in Device, Connect(s, d) PROVE RouteInv'
  <2> DEFINE old == registered[d]
  <2>1. /\ handler[s] = "new" /\ UNCHANGED client
        /\ owner' = [owner EXCEPT ![s] = d]
        /\ registered' = [registered EXCEPT ![d] = s]
        /\ \E h \in {"presence", "closing", "dead"} :
             handler' = [handler EXCEPT ![s] = h]
    BY <1>1 DEF Connect
  <2>2. app' = IF old = NoSocket THEN app
                                 ELSE [app EXCEPT ![old] = "disconnected"]
    BY <1>1 DEF Connect
  <2>3. old \in Socket \cup {NoSocket} /\ old # s
    BY <2>1 DEF TypeOK, RouteInv
  <2>4. \A t \in Socket \ {s} : handler'[t] = handler[t] /\ owner'[t] = owner[t]
    BY <2>1 DEF TypeOK
  <2>5. /\ owner'[s] = d /\ registered'[d] = s
        /\ handler'[s] \in {"presence", "closing", "dead"}
        /\ client'[s] = "connecting"
    BY <2>1 DEF TypeOK, RouteInv
  <2>6. \A e \in Device \ {d} : registered'[e] = registered[e]
    BY <2>1 DEF TypeOK
  <2>7. \A t \in Socket :
          app'[t] # "disconnected" => app'[t] = app[t] /\ t # old
    BY <2>2 DEF TypeOK
  <2>8. \A t \in Socket :
          /\ handler'[t] \in {"closing", "presence", "serving", "recording"}
          /\ app'[t] # "disconnected"
          => registered'[owner'[t]] = t
    <3> SUFFICES ASSUME NEW t \in Socket \ {s},
                        handler[t] \in {"closing", "presence",
                                        "serving", "recording"},
                        app[t] # "disconnected", t # old
                 PROVE  registered'[owner[t]] = t
      BY <2>4, <2>5, <2>7
    <3>1. owner[t] \in Device /\ registered[owner[t]] = t
      BY DEF RouteInv
    <3>2. QED
      BY <2>6, <3>1
  <2>9. \A e \in Device : registered'[e] # NoSocket =>
          /\ owner'[registered'[e]] = e
          /\ handler'[registered'[e]] \notin {"new", "finished"}
    <3> SUFFICES ASSUME NEW e \in Device \ {d}, registered[e] # NoSocket
                 PROVE  /\ owner'[registered[e]] = e
                        /\ handler'[registered[e]] \notin {"new", "finished"}
      BY <2>5, <2>6
    <3>1. registered[e] \in Socket \ {s}
      BY <2>1 DEF TypeOK, RouteInv
    <3>2. QED
      BY <2>4, <3>1 DEF RouteInv
  <2>10. \A t \in Socket : handler'[t] # "new" => owner'[t] \in Device
    BY <2>4, <2>5 DEF RouteInv
  <2>11. \A t \in Socket : handler'[t] \in {"new", "closing", "presence"} =>
           client'[t] = "connecting"
    BY <2>1, <2>4 DEF RouteInv
  <2>12. \A t \in Socket : handler'[t] = "dead" =>
           ~(client'[t] = "connected" /\ app'[t] = "connected")
    BY <2>1, <2>4, <2>5, <2>7 DEF RouteInv
  <2>13. QED
    BY <2>8, <2>9, <2>10, <2>11, <2>12 DEF RouteInv
<1>2. ASSUME NEW s \in Socket, OldClosed(s) PROVE RouteInv'
  BY <1>2 DEF OldClosed, bounds, TypeOK, RouteInv, broker, wire
<1>3. ASSUME NEW s \in Socket, Accept(s) PROVE RouteInv'
  BY <1>3 DEF Accept, bounds, TypeOK, RouteInv, broker, wire
<1>4. ASSUME NEW s \in Socket, HandlerDies(s) PROVE RouteInv'
  BY <1>4 DEF HandlerDies, TypeOK, RouteInv, broker, wire
<1>5. ASSUME NEW s \in Socket, ReceiveEnds(s) PROVE RouteInv'
  BY <1>5, LeaveKeepsRoute DEF ReceiveEnds, TypeOK
<1>6. ASSUME NEW s \in Socket, NEW c \in Command, ReceiveAnswer(s, c)
      PROVE  RouteInv'
  BY <1>6 DEF ReceiveAnswer, bounds, TypeOK, RouteInv, broker
<1>7. ASSUME NEW s \in Socket, Resolve(s) PROVE RouteInv'
  <2>1. CASE Leave(s)
    BY <1>7, <2>1, LeaveKeepsRoute DEF Resolve
  <2>2. CASE /\ handler' = [handler EXCEPT ![s] = "serving"]
             /\ UNCHANGED <<registered, owner, peer>>
    BY <1>7, <2>2 DEF Resolve, TypeOK, RouteInv
  <2>3. QED
    BY <1>7, <2>1, <2>2 DEF Resolve
<1>8. ASSUME NEW s \in Socket, RecordFails(s) PROVE RouteInv'
  BY <1>8, LeaveKeepsRoute DEF RecordFails
<1>9. ASSUME NEW c \in Command, NEW d \in Device, NotConnected(c, d)
      PROVE  RouteInv'
  BY <1>9 DEF NotConnected, bounds, TypeOK, RouteInv, sockets, wire
<1>10. ASSUME NEW c \in Command, NEW d \in Device, Dispatch(c, d)
       PROVE  RouteInv'
  BY <1>10 DEF Dispatch, bounds, TypeOK, RouteInv, sockets, Connected
<1>11. ASSUME NEW c \in Command, Sent(c) PROVE RouteInv'
  BY <1>11 DEF Sent, bounds, TypeOK, RouteInv, sockets, wire
<1>12. ASSUME NEW c \in Command, SendRaises(c) PROVE RouteInv'
  BY <1>12 DEF SendRaises, bounds, TypeOK, RouteInv, wire
<1>13. ASSUME NEW c \in Command, TimerFires(c) PROVE RouteInv'
  BY <1>13 DEF TimerFires, bounds, TypeOK, RouteInv, sockets, wire
<1>14. ASSUME NEW c \in Command, Returns(c) PROVE RouteInv'
  BY <1>14 DEF Returns, bounds, TypeOK, RouteInv, sockets, wire
<1>15. ASSUME NEW c \in Command, NEW s \in Socket, Answers(c, s)
       PROVE  RouteInv'
  BY <1>15 DEF Answers, bounds, TypeOK, RouteInv, sockets, broker
<1>16. ASSUME NEW s \in Socket, LinkLost(s) PROVE RouteInv'
  BY <1>16 DEF LinkLost, bounds, TypeOK, RouteInv, broker, wire
<1>17. CASE Crash
  BY <1>17 DEF Crash, TypeOK, RouteInv
<1>18. ASSUME NEW s \in Socket, ReceiveOther(s) PROVE RouteInv'
  BY <1>18 DEF ReceiveOther, TypeOK, RouteInv, broker, wire, bounds
<1>19. CASE UNCHANGED vars
  BY <1>19 DEF vars, sockets, broker, wire, bounds, TypeOK, RouteInv
<1>20. ASSUME NEW s \in Socket, ReceiveFails(s) PROVE RouteInv'
  BY <1>20, LeaveKeepsRoute DEF ReceiveFails
<1>21. QED
  BY <1>1, <1>2, <1>3, <1>4, <1>5, <1>6, <1>7, <1>8, <1>9, <1>10, <1>11,
     <1>12, <1>13, <1>14, <1>15, <1>16, <1>17, <1>18, <1>19, <1>20
     DEF Next,
     HandlerStep, WaitStep, ConnectorStep

LEMMA AnswerStep ==
  TypeOK /\ RouteInv /\ AnswerInv /\ [Next]_vars => AnswerInv'
<1> SUFFICES ASSUME TypeOK, RouteInv, AnswerInv, [Next]_vars PROVE AnswerInv'
  OBVIOUS
<1>1. ASSUME NEW s \in Socket, NEW d \in Device, Connect(s, d)
      PROVE  AnswerInv'
  <2>1. /\ handler[s] = "new" /\ handler'[s] # "new"
        /\ \A t \in Socket \ {s} : handler'[t] = handler[t] /\ owner'[t] = owner[t]
        /\ UNCHANGED <<inHand, future, call, via, delivered, answers, answered>>
    BY <1>1 DEF Connect, TypeOK, broker, wire
  <2>2. \A a \in answered : a[2] \in Socket \ {s} /\ via[a[1]] \in Socket \ {s}
    BY <2>1 DEF TypeOK, AnswerInv
  <2>3. \A t \in Socket : inHand[t] # NoCommand => t # s
    BY <2>1 DEF AnswerInv
  <2>4. \A a \in answered' : handler'[a[2]] # "new" /\ owner'[a[2]] = owner'[via'[a[1]]]
    BY <2>1, <2>2 DEF AnswerInv
  <2>5. \A c \in delivered' : via'[c] \in Socket /\ handler'[via'[c]] # "new"
    BY <2>1 DEF AnswerInv
  <2>6. QED
    BY <2>1, <2>3, <2>4, <2>5 DEF AnswerInv
<1>2. ASSUME NEW s \in Socket, OldClosed(s) PROVE AnswerInv'
  BY <1>2 DEF OldClosed, bounds, TypeOK, AnswerInv, broker, wire
<1>3. ASSUME NEW s \in Socket, Accept(s) PROVE AnswerInv'
  BY <1>3 DEF Accept, bounds, TypeOK, AnswerInv, broker, wire
<1>4. ASSUME NEW s \in Socket, HandlerDies(s) PROVE AnswerInv'
  BY <1>4 DEF HandlerDies, TypeOK, AnswerInv, broker, wire
<1>5. ASSUME NEW s \in Socket, ReceiveEnds(s) PROVE AnswerInv'
  BY <1>5 DEF ReceiveEnds, bounds, TypeOK, AnswerInv, Leave, broker
<1>6. ASSUME NEW s \in Socket, NEW c \in Command, ReceiveAnswer(s, c)
      PROVE  AnswerInv'
  BY <1>6 DEF ReceiveAnswer, bounds, TypeOK, AnswerInv, broker
<1>7. ASSUME NEW s \in Socket, Resolve(s) PROVE AnswerInv'
  <2>1. /\ handler[s] = "recording"
        /\ \E h \in {"serving", "finished"} :
             handler' = [handler EXCEPT ![s] = h]
        /\ inHand' = [inHand EXCEPT ![s] = NoCommand]
        /\ future' = [future EXCEPT ![inHand[s]] =
                         IF Resolves(inHand[s]) THEN "resolved" ELSE @]
        /\ answers' \subseteq answers
        /\ UNCHANGED <<owner, call, via, delivered, answered>>
    BY <1>7 DEF Resolve, Leave
  <2>2. Resolves(inHand[s]) => <<inHand[s], s>> \in answered
    BY DEF Resolves, AnswerInv, TypeOK
  <2>3. \A b \in Command : future'[b] = "resolved" =>
          \E t \in Socket : <<b, t>> \in answered'
    BY <2>1, <2>2 DEF TypeOK, AnswerInv
  <2>4. QED
    BY <2>1, <2>3 DEF TypeOK, AnswerInv
<1>8. ASSUME NEW s \in Socket, RecordFails(s) PROVE AnswerInv'
  BY <1>8 DEF RecordFails, TypeOK, AnswerInv, Leave, broker
<1>9. ASSUME NEW c \in Command, NEW d \in Device, NotConnected(c, d)
      PROVE  AnswerInv'
  BY <1>9 DEF NotConnected, bounds, TypeOK, AnswerInv, sockets, wire
<1>10. ASSUME NEW c \in Command, NEW d \in Device, Dispatch(c, d)
       PROVE  AnswerInv'
  <2> DEFINE s == registered[d]
  <2>1. s \in Socket /\ handler[s] # "new"
    BY <1>10 DEF Dispatch, bounds, Connected, TypeOK, RouteInv
  <2>2. \A a \in answered : a[1] # c
    BY <1>10 DEF Dispatch, bounds, AnswerInv
  <2>3. via' = [via EXCEPT ![c] = s] /\ UNCHANGED <<handler, owner, inHand>>
    BY <1>10 DEF Dispatch, bounds, sockets
  <2>4. \A a \in answered' : /\ a[1] \in delivered'
                            /\ handler'[a[2]] # "new"
                            /\ owner'[a[2]] = owner'[via'[a[1]]]
    BY <1>10, <2>2, <2>3 DEF Dispatch, AnswerInv, TypeOK
  <2>5. \A b \in delivered' : via'[b] \in Socket /\ handler'[via'[b]] # "new"
    BY <1>10, <2>1, <2>3 DEF Dispatch, AnswerInv, TypeOK
  <2>6. \A b \in Command : future'[b] = "resolved" =>
          \E t \in Socket : <<b, t>> \in answered'
    BY <1>10 DEF Dispatch, bounds, AnswerInv, TypeOK
  <2>7. /\ \A b \in Command : call'[b] = "answered" =>
             \E t \in Socket : <<b, t>> \in answered'
        /\ \A b \in Command : call'[b] = "idle" => b \notin delivered'
    BY <1>10 DEF Dispatch, bounds, AnswerInv, TypeOK
  <2>8. QED
    BY <1>10, <2>3, <2>4, <2>5, <2>6, <2>7 DEF Dispatch, AnswerInv
<1>11. ASSUME NEW c \in Command, Sent(c) PROVE AnswerInv'
  BY <1>11 DEF Sent, bounds, TypeOK, AnswerInv, sockets, wire
<1>12. ASSUME NEW c \in Command, SendRaises(c) PROVE AnswerInv'
  BY <1>12 DEF SendRaises, bounds, TypeOK, AnswerInv, wire
<1>13. ASSUME NEW c \in Command, TimerFires(c) PROVE AnswerInv'
  BY <1>13 DEF TimerFires, bounds, TypeOK, AnswerInv, sockets, wire
<1>14. ASSUME NEW c \in Command, Returns(c) PROVE AnswerInv'
  BY <1>14 DEF Returns, bounds, TypeOK, AnswerInv, sockets, wire
<1>15. ASSUME NEW c \in Command, NEW s \in Socket, Answers(c, s)
       PROVE  AnswerInv'
  BY <1>15 DEF Answers, bounds, TypeOK, AnswerInv, sockets, broker
<1>16. ASSUME NEW s \in Socket, LinkLost(s) PROVE AnswerInv'
  BY <1>16 DEF LinkLost, bounds, TypeOK, AnswerInv, broker, wire
<1>17. CASE Crash
  BY <1>17 DEF Crash, TypeOK, AnswerInv, InCall
<1>18. ASSUME NEW s \in Socket, ReceiveOther(s) PROVE AnswerInv'
  BY <1>18 DEF ReceiveOther, TypeOK, AnswerInv, broker, wire, bounds
<1>19. CASE UNCHANGED vars
  BY <1>19 DEF vars, sockets, broker, wire, bounds, TypeOK, AnswerInv
<1>20. ASSUME NEW s \in Socket, ReceiveFails(s) PROVE AnswerInv'
  BY <1>20 DEF ReceiveFails, bounds, TypeOK, AnswerInv, Leave, broker
<1>21. QED
  BY <1>1, <1>2, <1>3, <1>4, <1>5, <1>6, <1>7, <1>8, <1>9, <1>10, <1>11,
     <1>12, <1>13, <1>14, <1>15, <1>16, <1>17, <1>18, <1>19, <1>20
     DEF Next,
     HandlerStep, WaitStep, ConnectorStep

LEMMA PendingStep == TypeOK /\ PendingInv /\ [Next]_vars => PendingInv'
<1> SUFFICES ASSUME TypeOK, PendingInv, [Next]_vars PROVE PendingInv'
  OBVIOUS
<1>1. ASSUME NEW s \in Socket, NEW d \in Device, Connect(s, d)
      PROVE  PendingInv'
  BY <1>1 DEF Connect, bounds, TypeOK, PendingInv, InCall, broker, wire
<1>2. ASSUME NEW s \in Socket, OldClosed(s) PROVE PendingInv'
  BY <1>2 DEF OldClosed, bounds, TypeOK, PendingInv, InCall, broker, wire
<1>3. ASSUME NEW s \in Socket, Accept(s) PROVE PendingInv'
  BY <1>3 DEF Accept, bounds, TypeOK, PendingInv, InCall, broker, wire
<1>4. ASSUME NEW s \in Socket, HandlerDies(s) PROVE PendingInv'
  BY <1>4 DEF HandlerDies, TypeOK, PendingInv, InCall, broker, wire
<1>5. ASSUME NEW s \in Socket, ReceiveEnds(s) PROVE PendingInv'
  BY <1>5 DEF ReceiveEnds, bounds, TypeOK, PendingInv, InCall, Leave, broker
<1>6. ASSUME NEW s \in Socket, NEW c \in Command, ReceiveAnswer(s, c)
      PROVE  PendingInv'
  BY <1>6 DEF ReceiveAnswer, bounds, TypeOK, PendingInv, InCall, broker
<1>7. ASSUME NEW s \in Socket, Resolve(s) PROVE PendingInv'
  BY <1>7 DEF Resolve, bounds, ResolveRaises, Resolves, TypeOK, PendingInv,
              InCall, wire
<1>8. ASSUME NEW s \in Socket, RecordFails(s) PROVE PendingInv'
  BY <1>8 DEF RecordFails, TypeOK, PendingInv, InCall, Leave, broker
<1>9. ASSUME NEW c \in Command, NEW d \in Device, NotConnected(c, d)
      PROVE  PendingInv'
  BY <1>9 DEF NotConnected, bounds, TypeOK, PendingInv, InCall, sockets, wire
<1>10. ASSUME NEW c \in Command, NEW d \in Device, Dispatch(c, d)
       PROVE  PendingInv'
  BY <1>10 DEF Dispatch, bounds, TypeOK, PendingInv, InCall, sockets,
               Connected
<1>11. ASSUME NEW c \in Command, Sent(c) PROVE PendingInv'
  BY <1>11 DEF Sent, bounds, TypeOK, PendingInv, InCall, sockets, wire
<1>12. ASSUME NEW c \in Command, SendRaises(c) PROVE PendingInv'
  BY <1>12 DEF SendRaises, bounds, TypeOK, PendingInv, InCall, wire
<1>13. ASSUME NEW c \in Command, TimerFires(c) PROVE PendingInv'
  BY <1>13 DEF TimerFires, bounds, TypeOK, PendingInv, InCall, sockets, wire
<1>14. ASSUME NEW c \in Command, Returns(c) PROVE PendingInv'
  BY <1>14 DEF Returns, bounds, TypeOK, PendingInv, InCall, sockets, wire
<1>15. ASSUME NEW c \in Command, NEW s \in Socket, Answers(c, s)
       PROVE  PendingInv'
  BY <1>15 DEF Answers, bounds, TypeOK, PendingInv, InCall, sockets, broker
<1>16. ASSUME NEW s \in Socket, LinkLost(s) PROVE PendingInv'
  BY <1>16 DEF LinkLost, bounds, TypeOK, PendingInv, InCall, broker, wire
<1>17. CASE Crash
  BY <1>17 DEF Crash, TypeOK, PendingInv, InCall
<1>18. ASSUME NEW s \in Socket, ReceiveOther(s) PROVE PendingInv'
  BY <1>18 DEF ReceiveOther, TypeOK, PendingInv, broker, wire, bounds
<1>19. CASE UNCHANGED vars
  BY <1>19 DEF vars, sockets, broker, wire, bounds, TypeOK, PendingInv
<1>20. ASSUME NEW s \in Socket, ReceiveFails(s) PROVE PendingInv'
  BY <1>20 DEF ReceiveFails, bounds, TypeOK, PendingInv, InCall, Leave, broker
<1>21. QED
  BY <1>1, <1>2, <1>3, <1>4, <1>5, <1>6, <1>7, <1>8, <1>9, <1>10, <1>11,
     <1>12, <1>13, <1>14, <1>15, <1>16, <1>17, <1>18, <1>19, <1>20
     DEF Next,
     HandlerStep, WaitStep, ConnectorStep

\* The inductive invariant.
THEOREM Invariance == Spec => []IInv
<1>1. Init => IInv
  BY DEF Init, IInv, TypeOK, RouteInv, AnswerInv, PendingInv, InCall, SocketState,
         Handler
<1>2. IInv /\ [Next]_vars => IInv'
  BY TypeStep, RouteStep, AnswerStep, PendingStep DEF IInv
<1>3. QED
  BY <1>1, <1>2, PTL DEF Spec

(***************************************************************************)
(* A registered socket that commands may use is served by its handler.     *)
(***************************************************************************)
THEOREM RegisteredIsServed == Spec => []ConnectedIsServed
<1>1. IInv => ConnectedIsServed
  <2> SUFFICES ASSUME IInv, NEW d \in Device, Connected(d)
               PROVE  /\ handler[registered[d]] \in {"serving", "recording"}
                      /\ owner[registered[d]] = d
    BY DEF ConnectedIsServed
  <2>1. registered[d] \in Socket /\ handler[registered[d]] \in Handler
    BY DEF IInv, TypeOK, Connected
  <2>2. QED
    BY <2>1 DEF IInv, RouteInv, Connected, Handler
<1>2. QED
  BY <1>1, Invariance, PTL

(***************************************************************************)
(* A socket that serves and was not superseded is the registered one.      *)
(***************************************************************************)
THEOREM ServedIsRegistered == Spec => []ServingIsRegistered
<1>1. IInv => ServingIsRegistered
  BY DEF IInv, RouteInv, ServingIsRegistered
<1>2. QED
  BY <1>1, Invariance, PTL

(***************************************************************************)
(* The broker remembers only calls that have not returned.                 *)
(***************************************************************************)
THEOREM BrokerForgets == Spec => []NoPendingLeak
<1>1. IInv => NoPendingLeak
  BY DEF IInv, PendingInv, NoPendingLeak
<1>2. QED
  BY <1>1, Invariance, PTL

-----------------------------------------------------------------------------
\* Every answer there is, is one of the device that was asked.
Heard == {c \in Command : \E s \in Socket : <<c, s>> \in answered}

LEMMA RepliedIsHeard ==
  (IInv => Replied = Heard) /\ (IInv' => Replied' = Heard')
BY DEF IInv, TypeOK, AnswerInv, Replied, Heard

\* How the calls move: each begins, goes on or returns, and none returns an
\* answer that was not sent.
CallsMove ==
  /\ answered' = answered
  /\ \A c \in Command :
       \/ call'[c] = call[c]
       \/ call[c] = "idle" /\ call'[c] \in {"sending", "not_connected"}
       \/ call[c] \in InCall /\ call'[c] \in InCall
       \/ call[c] \in InCall /\ call'[c] \in {"timeout", "not_sent", "lost"}
       \/ /\ call[c] \in InCall /\ call'[c] = "answered"
          /\ \E s \in Socket : <<c, s>> \in answered

AnswerSent ==
  /\ call' = call
  /\ \E c \in Command, s \in Socket :
       /\ call[c] # "idle"
       /\ answered' = answered \cup {<<c, s>>}

LEMMA CallSteps == IInv /\ [Next]_vars => CallsMove \/ AnswerSent
<1> SUFFICES ASSUME IInv, [Next]_vars PROVE CallsMove \/ AnswerSent
  OBVIOUS
<1> USE DEF IInv
<1>1. ASSUME NEW s \in Socket, HandlerStep(s) PROVE CallsMove
  BY <1>1 DEF HandlerStep, Connect, OldClosed, Accept, HandlerDies, ReceiveEnds,
              ReceiveFails, ReceiveAnswer, ReceiveOther, Resolve, RecordFails,
              Leave, broker, wire, CallsMove
<1>2. ASSUME NEW c \in Command, NEW d \in Device, NotConnected(c, d)
      PROVE  CallsMove
  BY <1>2 DEF NotConnected, TypeOK, wire, CallsMove
<1>3. ASSUME NEW c \in Command, NEW d \in Device, Dispatch(c, d)
      PROVE  CallsMove
  BY <1>3 DEF Dispatch, TypeOK, CallsMove
<1>4. ASSUME NEW c \in Command, Sent(c) \/ SendRaises(c) \/ TimerFires(c)
      PROVE  CallsMove
  BY <1>4 DEF Sent, SendRaises, TimerFires, TypeOK, InCall, wire, CallsMove
<1>5. ASSUME NEW c \in Command, Returns(c) PROVE CallsMove
  <2>1. CASE call[c] = "timing_out" /\ call' = [call EXCEPT ![c] = "timeout"]
    BY <1>5, <2>1 DEF Returns, TypeOK, InCall, wire, CallsMove
  <2>2. CASE /\ call[c] = "waiting" /\ future[c] = "resolved"
             /\ call' = [call EXCEPT ![c] = "answered"]
    <3>1. \E s \in Socket : <<c, s>> \in answered
      BY <2>2 DEF AnswerInv
    <3>2. QED
      BY <1>5, <2>2, <3>1 DEF Returns, TypeOK, InCall, wire, CallsMove
  <2>3. QED
    BY <1>5, <2>1, <2>2 DEF Returns
<1>6. ASSUME NEW c \in Command, NEW s \in Socket, Answers(c, s)
      PROVE  AnswerSent
  BY <1>6 DEF Answers, AnswerInv, broker, AnswerSent
<1>7. ASSUME NEW s \in Socket, LinkLost(s) PROVE CallsMove
  BY <1>7 DEF LinkLost, broker, wire, CallsMove
<1>8. CASE Crash
  BY <1>8 DEF Crash, TypeOK, InCall, CallsMove
<1>9. CASE UNCHANGED vars
  BY <1>9 DEF vars, broker, wire, CallsMove
<1>10. QED
  BY <1>1, <1>2, <1>3, <1>4, <1>5, <1>6, <1>7, <1>8, <1>9
     DEF Next, WaitStep, ConnectorStep

(***************************************************************************)
(* The link implements the promise of a request, call by call: a call      *)
(* opens, goes on, and returns once, with an answer only if its device     *)
(* has sent one for it; an answer that arrives is a reply or a stutter.    *)
(***************************************************************************)
THEOREM CallsKeepPromise == Spec => KeepsCallPromise
<1> DEFINE out == [c \in Command |-> Stand(call[c])]
<1>1. Init => Calls!Init
  BY DEF Init, Calls!Init, Stand, Replied
<1>2. IInv /\ IInv' /\ [Next]_vars => [Calls!Next]_<<out, Replied>>
  <2> SUFFICES ASSUME IInv, IInv', [Next]_vars
               PROVE  Calls!Next \/ UNCHANGED <<out, Replied>>
    OBVIOUS
  <2>1. Replied = Heard /\ Replied' = Heard'
    BY RepliedIsHeard
  <2>2. CASE CallsMove
    <3>1. out' \in [Command -> {"none", "open"} \cup Returned]
      BY DEF IInv, TypeOK, Stand
    <3>2. ASSUME NEW c \in Command
          PROVE  out'[c] = out[c] \/ Calls!Opens(c) \/ Calls!Ends(c)
      BY <2>1, <2>2
         DEF CallsMove, Heard, Stand, InCall, Returned, Calls!Opens, Calls!Ends
    <3>3. UNCHANGED Replied
      BY <2>1, <2>2 DEF CallsMove, Heard
    <3>4. QED
      BY <3>1, <3>2, <3>3 DEF Calls!Next, Calls!Advance
  <2>3. CASE AnswerSent
    <3>1. PICK c \in Command, s \in Socket :
            call[c] # "idle" /\ answered' = answered \cup {<<c, s>>}
      BY <2>3 DEF AnswerSent
    <3>2. Replied' = Replied \cup {c} /\ UNCHANGED out
      BY <2>1, <2>3, <3>1 DEF AnswerSent, Heard
    <3>3. out[c] # "none"
      BY <3>1 DEF Stand, IInv, TypeOK, InCall, Returned
    <3>4. QED
      BY <3>2, <3>3 DEF Calls!Next, Calls!Reply
  <2>4. QED
    BY <2>2, <2>3, CallSteps
<1>3. QED
  BY <1>1, <1>2, Invariance, PTL DEF Spec, KeepsCallPromise, Calls!Spec

\* The table of the broker is exact, so no step that takes an answer in hand
\* finds its waiting call gone.
LEMMA InHandIsResolved ==
  ASSUME IInv, [Next]_vars, NEW s \in Socket, NEW c \in Command,
         inHand[s] = c, inHand'[s] # c, Awaited(c)
  PROVE  future'[c] = "resolved" \/ faults' > faults \/ crashes' > crashes
<1> USE DEF IInv, TypeOK, Awaited
<1>1. ASSUME Resolve(s) PROVE future'[c] = "resolved"
  <2>1. future' = [future EXCEPT ![c] = IF Resolves(c) THEN "resolved" ELSE @]
    BY <1>1 DEF Resolve
  <2>2. Resolves(c) \/ future[c] = "resolved"
    BY DEF PendingInv, Resolves
  <2>3. QED
    BY <2>1, <2>2
<1>2. ASSUME NEW t \in Socket, ReceiveEnds(t) \/ ReceiveFails(t) PROVE FALSE
  BY <1>2 DEF ReceiveEnds, ReceiveFails, Leave, AnswerInv
<1>3. ASSUME NEW t \in Socket, NEW b \in Command, ReceiveAnswer(t, b)
      PROVE  FALSE
  BY <1>3 DEF ReceiveAnswer, AnswerInv
<1>4. ASSUME NEW t \in Socket, Resolve(t), t # s PROVE FALSE
  BY <1>4 DEF Resolve, Leave
<1>5. ASSUME NEW t \in Socket, RecordFails(t) PROVE faults' > faults
  BY <1>5 DEF RecordFails
<1>6. CASE Crash
  BY <1>6 DEF Crash
<1>7. CASE UNCHANGED inHand
  BY <1>7
<1>8. QED
  BY <1>1, <1>2, <1>3, <1>4, <1>5, <1>6, <1>7
     DEF Next, HandlerStep, WaitStep, ConnectorStep, Connect, OldClosed,
         Accept, HandlerDies, ReceiveOther, NotConnected, Dispatch, Sent,
         SendRaises, TimerFires, Returns, Answers, LinkLost, sockets, vars

\* A result that is set stays set while its call waits, and the call ends with
\* it but for the reasons named.
LEMMA ResultIsKept ==
  ASSUME TypeOK, [Next]_vars, NEW c \in Command,
         future[c] = "resolved", Awaited(c)
  PROVE  \/ future'[c] = "resolved" /\ Awaited(c)'
         \/ call'[c] \in {"answered", "timing_out"}
         \/ call'[c] = "not_sent" /\ peer[via[c]] = "gone"
         \/ crashes' > crashes
<1> USE DEF TypeOK, Awaited
<1>1. ASSUME NEW s \in Socket, HandlerStep(s)
      PROVE  future'[c] = "resolved" /\ Awaited(c)'
  <2>1. UNCHANGED call
    BY <1>1 DEF HandlerStep, Connect, OldClosed, Accept, HandlerDies,
                ReceiveEnds, ReceiveFails, ReceiveAnswer, ReceiveOther, Resolve,
                RecordFails, broker
  <2>2. \/ UNCHANGED future
        \/ \E b : future' = [future EXCEPT ![b] =
                               IF Resolves(b) THEN "resolved" ELSE @]
    BY <1>1 DEF HandlerStep, Connect, OldClosed, Accept, HandlerDies,
                ReceiveEnds, ReceiveFails, ReceiveAnswer, ReceiveOther, Resolve,
                RecordFails, broker
  <2>3. future'[c] = "resolved"
    BY <2>2
  <2>4. QED
    BY <2>1, <2>3
<1>2. ASSUME NEW b \in Command, NEW d \in Device,
             NotConnected(b, d) \/ Dispatch(b, d)
      PROVE  future'[c] = "resolved" /\ Awaited(c)'
  BY <1>2 DEF NotConnected, Dispatch
<1>3. ASSUME NEW b \in Command, WaitStep(b), b # c
      PROVE  future'[c] = "resolved" /\ Awaited(c)'
  BY <1>3 DEF WaitStep, Sent, SendRaises, TimerFires, Returns
<1>4. CASE Sent(c)
  BY <1>4 DEF Sent
<1>5. CASE SendRaises(c)
  BY <1>5 DEF SendRaises
<1>6. CASE TimerFires(c)
  BY <1>6 DEF TimerFires
<1>7. CASE Returns(c)
  BY <1>7 DEF Returns
<1>8. CASE ConnectorStep
  BY <1>8 DEF ConnectorStep, LinkLost, Answers, broker
<1>9. CASE Crash
  BY <1>9 DEF Crash
<1>10. CASE UNCHANGED vars
  BY <1>10 DEF vars, broker
<1>11. QED
  BY <1>1, <1>2, <1>3, <1>4, <1>5, <1>6, <1>7, <1>8, <1>9, <1>10
     DEF Next, WaitStep

(***************************************************************************)
(* An answer in hand while its call waits is set as the result of that     *)
(* call, or lost with a failed presence write or the process; and the      *)
(* result set is what the call returns, unless its timer fires before it   *)
(* wakes, its own send fails, or the process ends.                         *)
(***************************************************************************)
THEOREM TimelyAnswersAreHeard == Spec => TimelyAnswersCount
<1>1. IInv /\ [Next]_vars =>
        \A c \in Command : SetsResult(c) /\ KeepsResult(c)
  BY InHandIsResolved, ResultIsKept DEF IInv, SetsResult, KeepsResult
<1>2. QED
  BY <1>1, Invariance, PTL DEF Spec, TimelyAnswersCount

(***************************************************************************)
(* Only a failed write or the end of the process ends a handler that has   *)
(* an answer, or any message, in hand, on a socket not closed from within. *)
(***************************************************************************)
THEOREM AnswersAreHarmless == Spec => AnswersNeverKill
<1>1. TypeOK /\ [Next]_vars =>
        \A s \in Socket :
          /\ handler[s] = "recording" /\ handler'[s] = "finished"
          /\ app[s] = "connected"
          => faults' > faults \/ crashes' > crashes
  <2> SUFFICES ASSUME TypeOK, [Next]_vars, NEW r \in Socket,
                      handler[r] = "recording", handler'[r] = "finished",
                      app[r] = "connected"
               PROVE  faults' > faults \/ crashes' > crashes
    OBVIOUS
  <2> USE DEF TypeOK
  <2>1. ASSUME NEW s \in Socket, NEW d \in Device, Connect(s, d) PROVE FALSE
    BY <2>1 DEF Connect
  <2>2. ASSUME NEW s \in Socket, OldClosed(s) \/ Accept(s) \/ HandlerDies(s)
        PROVE  FALSE
    BY <2>2 DEF OldClosed, Accept, HandlerDies
  <2>3. ASSUME NEW s \in Socket,
               ReceiveEnds(s) \/ ReceiveFails(s) \/ ReceiveOther(s)
        PROVE  FALSE
    BY <2>3 DEF ReceiveEnds, ReceiveFails, ReceiveOther, Leave
  <2>4. ASSUME NEW s \in Socket, NEW c \in Command, ReceiveAnswer(s, c)
        PROVE  FALSE
    BY <2>4 DEF ReceiveAnswer
  <2>5. ASSUME NEW s \in Socket, Resolve(s) PROVE FALSE
    <3>1. ~ResolveRaises(inHand[s])
      BY DEF ResolveRaises, Resolves
    <3>2. \/ handler' = [handler EXCEPT ![s] = "serving"]
          \/ app[s] # "connected" /\ handler' = [handler EXCEPT ![s] = "finished"]
      BY <2>5, <3>1 DEF Resolve, Leave
    <3>3. QED
      BY <3>2
  <2>6. ASSUME NEW s \in Socket, RecordFails(s) PROVE faults' > faults
    BY <2>6 DEF RecordFails
  <2>7. ASSUME NEW c \in Command, NEW d \in Device,
               NotConnected(c, d) \/ Dispatch(c, d)
        PROVE  FALSE
    BY <2>7 DEF NotConnected, Dispatch, sockets
  <2>8. ASSUME NEW c \in Command, WaitStep(c) PROVE FALSE
    BY <2>8 DEF WaitStep, Sent, SendRaises, TimerFires, Returns, sockets
  <2>9. CASE ConnectorStep
    BY <2>9 DEF ConnectorStep, LinkLost, Answers, sockets
  <2>10. CASE Crash
    BY <2>10 DEF Crash
  <2>11. CASE UNCHANGED vars
    BY <2>11 DEF vars, sockets
  <2>12. QED
    BY <2>1, <2>2, <2>3, <2>4, <2>5, <2>6, <2>7, <2>8, <2>9, <2>10, <2>11
       DEF Next, HandlerStep
<1>2. QED
  BY <1>1, TypeCorrect, PTL DEF Spec, AnswersNeverKill
-----------------------------------------------------------------------------
RowType ==
  /\ row \in [Command -> Row]
  /\ rowFaults \in Nat
  /\ obstacle \in [Command -> Obstacle]

\* What the row and the call of one command have to do with each other.
RowInv ==
  \A c \in Command :
    /\ row[c] = "none" => call[c] = "idle"
    /\ call[c] \in InCall => row[c] = "sent"
    /\ call[c] \in InCall => obstacle[c] = "none"
    /\ call[c] \notin InCall =>
         (row[c] \in {"queued", "sent"} <=>
            obstacle[c] # "none" \/ call[c] = "lost")
    /\ obstacle[c] = "answer" => call[c] = "answered"
    /\ row[c] = "succeeded" => \E s \in Socket : <<c, s>> \in answered

\* What is behind an obstacle or a lost call.
CauseInv ==
  \A c \in Command :
    /\ obstacle[c] = "write" => rowFaults > 0
    /\ obstacle[c] = "stop" \/ call[c] = "lost" => crashes > 0

CommandInv == IInv /\ RowType /\ RowInv /\ CauseInv
-----------------------------------------------------------------------------
USE CommandAssumption

\* Every step is a step of the link, or leaves the link alone.
LEMMA LinkSteps == [CommandNext]_commandVars => [Next]_vars
BY DEF CommandNext, Submit, SubmitOffline, MarkSentFails, CrashInSubmit,
       CommandWait, Finishes, LinkStep, Next, WaitStep, commandVars

(***************************************************************************)
(* The commands implement the link: whatever the requests and their        *)
(* database do, the link behaves as it does on its own.                    *)
(***************************************************************************)
THEOREM CommandsKeepTheLink == CommandSpec => Spec
<1>1. CommandInit => Init
  BY DEF CommandInit
<1>2. QED
  BY <1>1, LinkSteps, PTL DEF CommandSpec, Spec
-----------------------------------------------------------------------------
\* What a write leaves in a row.
LEMMA WriteType ==
  \A c \in Command, status \in Row :
    RowType /\ Write(c, status) => RowType'
BY DEF Write, RowType, Row, Obstacle

LEMMA RowTypeStep == RowType /\ [CommandNext]_commandVars => RowType'
<1> SUFFICES ASSUME RowType, [CommandNext]_commandVars PROVE RowType'
  OBVIOUS
<1>1. ASSUME NEW c \in Command, NEW d \in Device, Submit(c, d) PROVE RowType'
  BY <1>1 DEF Submit, RowType, Row, Obstacle
<1>2. ASSUME NEW c \in Command, NEW d \in Device, SubmitOffline(c, d)
      PROVE  RowType'
  BY <1>2, WriteType DEF SubmitOffline, Row
<1>3. ASSUME NEW c \in Command, MarkSentFails(c) PROVE RowType'
  BY <1>3 DEF MarkSentFails, RowType, Row, Obstacle
<1>4. ASSUME NEW c \in Command, CrashInSubmit(c) PROVE RowType'
  BY <1>4 DEF CrashInSubmit, RowType, Row, Obstacle
<1>5. ASSUME NEW c \in Command, Finishes(c) PROVE RowType'
  BY <1>5, WriteType DEF Finishes, RefusesAnswer, RowType, Row, Obstacle
<1>6. CASE UNCHANGED table
  BY <1>6 DEF table, RowType
<1>7. QED
  BY <1>1, <1>2, <1>3, <1>4, <1>5, <1>6
     DEF CommandNext, CommandWait, LinkStep, commandVars

\* No step of the link takes an answer back, and none but Dispatch,
\* NotConnected, Sent, SendRaises, TimerFires, Returns and Crash moves a call.
LEMMA AnswersStay == [CommandNext]_commandVars => answered \subseteq answered'
<1>1. [Next]_vars => answered \subseteq answered'
  BY DEF Next, HandlerStep, WaitStep, ConnectorStep, Connect, OldClosed,
         Accept, HandlerDies, ReceiveEnds, ReceiveFails, ReceiveAnswer,
         ReceiveOther, Resolve, RecordFails, NotConnected, Dispatch, Sent, SendRaises,
         TimerFires, Returns, Answers, LinkLost, Crash, Leave, vars, wire
<1>2. QED
  BY <1>1, LinkSteps

LEMMA QuietCalls ==
  (\E s \in Socket : HandlerStep(s)) \/ ConnectorStep => call' = call
BY DEF HandlerStep, ConnectorStep, Connect, OldClosed, Accept, HandlerDies,
       ReceiveEnds, ReceiveFails, ReceiveAnswer, ReceiveOther, Resolve,
       RecordFails, Answers, LinkLost, Leave, broker

\* A row is finished, or left open by an obstacle.
Ended(c, x) ==
  \/ row'[c] \in Final /\ obstacle'[c] = "none"
  \/ row'[c] = "sent" /\ obstacle'[c] = "write"
  \/ row'[c] = "sent" /\ obstacle'[c] = "answer" /\ x = "answered"

OthersKeep(c) ==
  \A b \in Command \ {c} : row'[b] = row[b] /\ obstacle'[b] = obstacle[b]

\* A request ends: its call returns x, and its row is written, or left open.
LEMMA EndOfRequest ==
  ASSUME TypeOK, RowType, RowInv, answered \subseteq answered',
         NEW c \in Command, NEW x \in {"answered", "timeout", "not_sent"},
         call' = [call EXCEPT ![c] = x], Ended(c, x), OthersKeep(c),
         row'[c] = "succeeded" => \E s \in Socket : <<c, s>> \in answered'
  PROVE  RowInv'
<1> SUFFICES ASSUME NEW b \in Command
             PROVE  /\ row'[b] = "none" => call'[b] = "idle"
                    /\ call'[b] \in InCall => row'[b] = "sent"
                    /\ call'[b] \in InCall => obstacle'[b] = "none"
                    /\ call'[b] \notin InCall =>
                         (row'[b] \in {"queued", "sent"} <=>
                            obstacle'[b] # "none" \/ call'[b] = "lost")
                    /\ obstacle'[b] = "answer" => call'[b] = "answered"
                    /\ row'[b] = "succeeded" =>
                         \E s \in Socket : <<b, s>> \in answered'
  BY DEF RowInv
<1>1. CASE b = c
  <2>1. call'[b] = x
    BY <1>1 DEF TypeOK
  <2>2. QED
    BY <1>1, <2>1 DEF InCall, Final, Ended
<1>2. CASE b # c
  <2>1. call'[b] = call[b] /\ row'[b] = row[b] /\ obstacle'[b] = obstacle[b]
    BY <1>2 DEF TypeOK, OthersKeep
  <2>2. QED
    BY <2>1 DEF RowInv
<1>3. QED
  BY <1>1, <1>2

\* What a write does to the rows.
LEMMA WriteEffect ==
  ASSUME RowType, NEW c \in Command, NEW status \in Final, Write(c, status),
         obstacle[c] = "none", NEW x
  PROVE  Ended(c, x) /\ OthersKeep(c) /\ row'[c] \in {status, "sent"}
<1>1. CASE row' = [row EXCEPT ![c] = status] /\ obstacle' = obstacle
  BY <1>1 DEF RowType, Ended, OthersKeep
<1>2. CASE /\ row' = [row EXCEPT ![c] = "sent"]
           /\ obstacle' = [obstacle EXCEPT ![c] = "write"]
  BY <1>2 DEF RowType, Ended, OthersKeep
<1>3. QED
  BY <1>1, <1>2 DEF Write

LEMMA RowStep ==
  IInv /\ RowType /\ RowInv /\ [CommandNext]_commandVars => RowInv'
<1> SUFFICES ASSUME IInv, RowType, RowInv, [CommandNext]_commandVars
             PROVE  RowInv'
  OBVIOUS
<1> USE DEF InCall
<1>0. answered \subseteq answered' /\ TypeOK
  BY AnswersStay DEF IInv
<1>1. ASSUME NEW c \in Command, NEW d \in Device, Submit(c, d) PROVE RowInv'
  BY <1>0, <1>1 DEF Submit, Dispatch, RowType, RowInv, TypeOK
<1>2. ASSUME NEW c \in Command, NEW d \in Device, SubmitOffline(c, d)
      PROVE  RowInv'
  BY <1>0, <1>2 DEF SubmitOffline, NotConnected, Write, RowType, RowInv, TypeOK
<1>3. ASSUME NEW c \in Command, MarkSentFails(c) PROVE RowInv'
  BY <1>0, <1>3 DEF MarkSentFails, vars, broker, RowType, RowInv, TypeOK
<1>4. ASSUME NEW c \in Command, CrashInSubmit(c) PROVE RowInv'
  BY <1>0, <1>4 DEF CrashInSubmit, Crash, RowType, RowInv, TypeOK
<1>5. ASSUME NEW c \in Command, Finishes(c) PROVE RowInv'
  <2>0. call[c] \in InCall /\ obstacle[c] = "none" /\ row[c] = "sent"
    BY <1>5 DEF Finishes, SendRaises, Returns, RowInv
  <2>1. CASE SendRaises(c) /\ Write(c, "failed")
    <3>1. call' = [call EXCEPT ![c] = "not_sent"]
      BY <2>1 DEF SendRaises
    <3>2. /\ Ended(c, "not_sent") /\ OthersKeep(c)
          /\ row'[c] \in {"failed", "sent"}
      BY <2>0, <2>1, WriteEffect DEF Final
    <3>3. QED
      BY <1>0, <3>1, <3>2, EndOfRequest
  <2>2. CASE Returns(c) /\ call'[c] = "timeout" /\ Write(c, "running")
    <3>1. call' = [call EXCEPT ![c] = "timeout"]
      BY <1>0, <2>2 DEF Returns, TypeOK
    <3>2. /\ Ended(c, "timeout") /\ OthersKeep(c)
          /\ row'[c] \in {"running", "sent"}
      BY <2>0, <2>2, WriteEffect DEF Final
    <3>3. QED
      BY <1>0, <3>1, <3>2, EndOfRequest
  <2>3. ASSUME Returns(c), call'[c] = "answered",
               \/ \E status \in {"succeeded", "failed"} : Write(c, status)
               \/ RefusesAnswer(c)
        PROVE  RowInv'
    <3>1. /\ future[c] = "resolved" /\ call[c] = "waiting"
          /\ call' = [call EXCEPT ![c] = "answered"]
      BY <2>3, <1>0 DEF Returns, TypeOK
    <3>2. \E s \in Socket : <<c, s>> \in answered'
      BY <3>1, <1>0 DEF IInv, AnswerInv
    <3>3. ASSUME NEW status \in {"succeeded", "failed"}, Write(c, status)
          PROVE  Ended(c, "answered") /\ OthersKeep(c)
      BY <2>0, <3>3, WriteEffect DEF Final
    <3>4. ASSUME RefusesAnswer(c)
          PROVE  Ended(c, "answered") /\ OthersKeep(c)
      BY <2>0, <3>4 DEF RefusesAnswer, RowType, Ended, OthersKeep
    <3>5. QED
      BY <1>0, <2>3, <3>1, <3>2, <3>3, <3>4, EndOfRequest
  <2>4. QED
    BY <1>5, <2>1, <2>2, <2>3 DEF Finishes
<1>6. ASSUME NEW c \in Command, Sent(c) \/ TimerFires(c), UNCHANGED table
      PROVE  RowInv'
  BY <1>0, <1>6 DEF Sent, TimerFires, table, RowType, RowInv, TypeOK
<1>7. CASE LinkStep
  <2>1. CASE Crash /\ UNCHANGED table
    BY <1>0, <2>1 DEF Crash, table, RowType, RowInv, TypeOK
  <2>2. CASE call' = call /\ UNCHANGED table
    BY <1>0, <2>2 DEF table, RowType, RowInv, TypeOK
  <2>3. QED
    BY <1>7, <2>1, <2>2, QuietCalls DEF LinkStep
<1>8. CASE UNCHANGED commandVars
  BY <1>0, <1>8 DEF commandVars, vars, broker, table, RowInv
<1>9. QED
  BY <1>1, <1>2, <1>3, <1>4, <1>5, <1>6, <1>7, <1>8
     DEF CommandNext, CommandWait

LEMMA CauseStep ==
  IInv /\ RowType /\ CauseInv /\ [CommandNext]_commandVars => CauseInv'
<1> SUFFICES ASSUME IInv, RowType, CauseInv, [CommandNext]_commandVars
             PROVE  CauseInv'
  OBVIOUS
<1> USE DEF IInv, TypeOK, RowType
<1>1. ASSUME NEW c \in Command, NEW d \in Device, Submit(c, d) PROVE CauseInv'
  BY <1>1 DEF Submit, Dispatch, bounds, CauseInv
<1>2. ASSUME NEW c \in Command, NEW d \in Device, SubmitOffline(c, d)
      PROVE  CauseInv'
  BY <1>2 DEF SubmitOffline, NotConnected, Write, bounds, CauseInv
<1>3. ASSUME NEW c \in Command, MarkSentFails(c) PROVE CauseInv'
  BY <1>3 DEF MarkSentFails, vars, broker, bounds, CauseInv
<1>4. ASSUME NEW c \in Command, CrashInSubmit(c) PROVE CauseInv'
  BY <1>4 DEF CrashInSubmit, Crash, CauseInv
<1>5. ASSUME NEW c \in Command, Finishes(c) PROVE CauseInv'
  <2>1. UNCHANGED crashes /\ \A b \in Command : call'[b] = "lost" => call[b] = "lost"
    BY <1>5 DEF Finishes, SendRaises, Returns, bounds
  <2>2. \/ UNCHANGED <<rowFaults, obstacle>>
        \/ /\ rowFaults' = rowFaults + 1
           /\ obstacle' = [obstacle EXCEPT ![c] = "write"]
        \/ /\ UNCHANGED rowFaults
           /\ obstacle' = [obstacle EXCEPT ![c] = "answer"]
    BY <1>5 DEF Finishes, Write, RefusesAnswer
  <2>3. QED
    BY <2>1, <2>2 DEF CauseInv
<1>6. ASSUME NEW c \in Command, Sent(c) \/ TimerFires(c), UNCHANGED table
      PROVE  CauseInv'
  BY <1>6 DEF Sent, TimerFires, table, bounds, CauseInv
<1>7. CASE LinkStep
  <2>1. CASE Crash /\ UNCHANGED table
    BY <2>1 DEF Crash, table, CauseInv
  <2>2. CASE /\ (\E s \in Socket : HandlerStep(s)) \/ ConnectorStep
             /\ UNCHANGED table
    <3>1. UNCHANGED <<call, crashes>>
      BY <2>2, QuietCalls
         DEF HandlerStep, ConnectorStep, Connect, OldClosed, Accept, HandlerDies,
             ReceiveEnds, ReceiveFails, ReceiveAnswer, ReceiveOther, Resolve,
             RecordFails, Answers, LinkLost, bounds
    <3>2. QED
      BY <2>2, <3>1 DEF table, CauseInv
  <2>3. QED
    BY <1>7, <2>1, <2>2 DEF LinkStep
<1>8. CASE UNCHANGED commandVars
  BY <1>8 DEF commandVars, vars, broker, bounds, table, CauseInv
<1>9. QED
  BY <1>1, <1>2, <1>3, <1>4, <1>5, <1>6, <1>7, <1>8
     DEF CommandNext, CommandWait

\* The inductive invariant.
THEOREM CommandInvariance == CommandSpec => []CommandInv
<1>1. CommandInit => RowType /\ RowInv /\ CauseInv
  BY DEF CommandInit, Init, RowType, RowInv, CauseInv, Row, Obstacle, InCall
<1>2. CommandSpec => []IInv
  BY CommandsKeepTheLink, Invariance, PTL
<1>3. RowType /\ [CommandNext]_commandVars => RowType'
  BY RowTypeStep
<1>4. IInv /\ RowType /\ RowInv /\ [CommandNext]_commandVars => RowInv'
  BY RowStep
<1>5. IInv /\ RowType /\ CauseInv /\ [CommandNext]_commandVars => CauseInv'
  BY CauseStep
<1>6. QED
  BY <1>1, <1>2, <1>3, <1>4, <1>5, PTL DEF CommandSpec, CommandInv

(***************************************************************************)
(* Type correctness of the commands and their link.                        *)
(***************************************************************************)
THEOREM CommandTypeCorrect == CommandSpec => []CommandTypeOK
<1>1. CommandInv => CommandTypeOK
  BY DEF CommandInv, IInv, RowType, CommandTypeOK
<1>2. QED
  BY <1>1, CommandInvariance, PTL

(***************************************************************************)
(* A row is open behind a request that is over exactly if a write of its   *)
(* own failed, its answer could not be stored, or the process ended.       *)
(***************************************************************************)
THEOREM OpenRowsExplained == CommandSpec => []OpenRowsAreExplained
<1>1. CommandInv => OpenRowsAreExplained
  BY DEF CommandInv, RowInv, CauseInv, OpenRowsAreExplained
<1>2. QED
  BY <1>1, CommandInvariance, PTL

-----------------------------------------------------------------------------
\* How the rows move, while no answer is taken back.
RowsMove ==
  \A c \in Command :
    \/ row'[c] = row[c]
    \/ row[c] = "none" /\ row'[c] \in {"queued", "sent", "failed"}
    \/ /\ row[c] = "sent" /\ row'[c] \in Final
       /\ row'[c] = "succeeded" => \E s \in Socket : <<c, s>> \in answered

\* Nothing moves a row but a write of its own request, and an answer arrives
\* in a step of its own.
LEMMA RowSteps ==
  CommandInv /\ [CommandNext]_commandVars =>
    \/ RowsMove /\ answered' = answered
    \/ row' = row /\ AnswerSent
<1> SUFFICES ASSUME CommandInv, [CommandNext]_commandVars
             PROVE  \/ RowsMove /\ answered' = answered
                    \/ row' = row /\ AnswerSent
  OBVIOUS
<1> USE DEF CommandInv, RowType
<1>1. ASSUME NEW c \in Command, NEW d \in Device, Submit(c, d)
      PROVE  RowsMove /\ answered' = answered
  BY <1>1 DEF Submit, Dispatch, RowsMove
<1>2. ASSUME NEW c \in Command, NEW d \in Device, SubmitOffline(c, d)
      PROVE  RowsMove /\ answered' = answered
  BY <1>2 DEF SubmitOffline, NotConnected, Write, wire, RowsMove
<1>3. ASSUME NEW c \in Command, MarkSentFails(c)
      PROVE  RowsMove /\ answered' = answered
  BY <1>3 DEF MarkSentFails, vars, wire, RowsMove
<1>4. ASSUME NEW c \in Command, CrashInSubmit(c)
      PROVE  RowsMove /\ answered' = answered
  BY <1>4 DEF CrashInSubmit, Crash, RowsMove
<1>5. ASSUME NEW c \in Command, Finishes(c)
      PROVE  RowsMove /\ answered' = answered
  <2>1. call[c] \in InCall /\ answered' = answered
    BY <1>5 DEF Finishes, SendRaises, Returns, InCall, wire
  <2>2. row[c] = "sent"
    BY <2>1 DEF RowInv
  <2>3. CASE Returns(c) /\ call'[c] = "answered"
    <3>1. future[c] = "resolved"
      BY <2>3 DEF Returns, IInv, TypeOK
    <3>2. \E s \in Socket : <<c, s>> \in answered
      BY <3>1 DEF IInv, AnswerInv
    <3>3. QED
      BY <1>5, <2>1, <2>2, <3>2
         DEF Finishes, Write, RefusesAnswer, RowsMove, Final
  <2>4. CASE ~(Returns(c) /\ call'[c] = "answered")
    <3>1. Write(c, "failed") \/ Write(c, "running")
      BY <1>5, <2>4 DEF Finishes
    <3>2. QED
      BY <2>1, <2>2, <3>1 DEF Write, RowsMove, Final
  <2>5. QED
    BY <2>3, <2>4
<1>6. CASE UNCHANGED row
  <2>1. CallsMove \/ AnswerSent
    BY CallSteps, LinkSteps
  <2>2. RowsMove
    BY <1>6 DEF RowsMove
  <2>3. QED
    BY <1>6, <2>1, <2>2 DEF CallsMove
<1>7. QED
  BY <1>1, <1>2, <1>3, <1>4, <1>5, <1>6
     DEF CommandNext, CommandWait, LinkStep, table, commandVars

(***************************************************************************)
(* The rows implement the promise of a request, too: whatever writes fail, *)
(* whenever the process ends and however answers, timers and reconnections *)
(* interleave, what a user is shown of a command is true and final.        *)
(***************************************************************************)
THEOREM CommandsKeepPromise == CommandSpec => KeepsCommandPromise
<1> DEFINE out == [c \in Command |-> RowStand(row[c])]
<1>1. CommandInit => Rows!Init
  BY DEF CommandInit, Init, Rows!Init, RowStand, Replied
<1>2. CommandInv /\ CommandInv' /\ [CommandNext]_commandVars
        => [Rows!Next]_<<out, Replied>>
  <2> SUFFICES ASSUME CommandInv, CommandInv', [CommandNext]_commandVars
               PROVE  Rows!Next \/ UNCHANGED <<out, Replied>>
    OBVIOUS
  <2>1. Replied = Heard /\ Replied' = Heard'
    <3>1. IInv /\ IInv'
      BY DEF CommandInv
    <3>2. QED
      BY <3>1, RepliedIsHeard
  <2>2. CASE RowsMove /\ answered' = answered
    <3>1. out' \in [Command -> {"none", "open"} \cup Final]
      BY DEF CommandInv, RowType, Row, Final, RowStand
    <3>2. ASSUME NEW c \in Command
          PROVE  out'[c] = out[c] \/ Rows!Opens(c) \/ Rows!Ends(c)
      BY <2>1, <2>2 DEF RowsMove, Heard, RowStand, Final, Rows!Opens, Rows!Ends
    <3>3. UNCHANGED Replied
      BY <2>1, <2>2 DEF Heard
    <3>4. QED
      BY <3>1, <3>2, <3>3 DEF Rows!Next, Rows!Advance
  <2>3. CASE row' = row /\ AnswerSent
    <3>1. PICK c \in Command, s \in Socket :
            call[c] # "idle" /\ answered' = answered \cup {<<c, s>>}
      BY <2>3 DEF AnswerSent
    <3>2. Replied' = Replied \cup {c} /\ UNCHANGED out
      BY <2>1, <2>3, <3>1 DEF Heard
    <3>3. out[c] # "none"
      BY <3>1 DEF RowStand, CommandInv, RowInv, RowType, Row
    <3>4. QED
      BY <3>2, <3>3 DEF Rows!Next, Rows!Reply
  <2>4. QED
    BY <2>2, <2>3, RowSteps
<1>3. QED
  BY <1>1, <1>2, CommandInvariance, PTL
     DEF CommandSpec, KeepsCommandPromise, Rows!Spec
=============================================================================
