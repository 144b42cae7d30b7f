-------------------------- MODULE LifecycleProofs --------------------------
(***************************************************************************)
(* The transport's goroutines for any number of callers of Stop,           *)
(* connections, policy versions and frames on the wire.                    *)
(***************************************************************************)
EXTENDS Lifecycle, SequenceTheorems, TLAPS

-----------------------------------------------------------------------------
(* The inductive invariant.                                                *)

\* t.conn and t.recv are set and cleared together.  Between the states, in a
\* backoff and after Run there is no connection; a teardown has closed the
\* stream and ends in one of those places.
ConnPlaces ==
    /\ conn = session /\ streams \subseteq {conn}
    /\ main.pc \in {"connect", "backoff", "returned"} => conn = 0
    /\ main.pc = "top" /\ main.st \in {"Connecting", "Shutdown"} => conn = 0
    /\ main.pc \in {"connect", "backoff"} => main.st = "Connecting"
    /\ main.pc = "join" => streams = {}
    /\ main.pc = "join" =>
          \/ main.then = "returned"
          \/ main.then = "backoff" /\ main.st = "Connecting"
          \/ main.then = "top" /\ main.st \in {"Connecting", "Shutdown"}

\* Run is over, or about to be without another dial.
Ending == RunDone \/ (main.pc = "top" /\ main.st = "Shutdown")

\* A Stop is answered, and its caller released, only when Run is ending.
StopsAnswered ==
    /\ main.pc = "join" /\ main.serves # {} =>
          main.then = "returned" \/ (main.then = "top" /\ main.st = "Shutdown")
    /\ done # {} => Ending
    /\ (\E s \in Stoppers : stop[s] = "returned") => Ending

\* The channels hold frames of the connection only, and a goroutine that
\* offers a frame has one.
ChannelsOwned ==
    /\ conn = 0 => eventCh = << >> /\ wire = << >>
    /\ \A i \in Dials : recv[i] = "offer" => wire # << >>

\* f carries a policy version.
IsPush(f) == f.kind = "push"

\* Pushes are in transit in the order of their versions, those of eventCh
\* before those of the wire, and all of them are newer than what the client has.
Ascending(q) ==
    \A i, j \in 1..Len(q) : i < j /\ IsPush(q[i]) /\ IsPush(q[j]) => q[i].version < q[j].version

Ahead(q) ==
    \A i \in 1..Len(q) : IsPush(q[i]) =>
        installed < q[i].version /\ swallowed < q[i].version /\ q[i].version =< bound

PushesOrdered ==
    /\ Ascending(eventCh) /\ Ascending(wire)
    /\ \A i \in 1..Len(eventCh), j \in 1..Len(wire) :
          IsPush(eventCh[i]) /\ IsPush(wire[j]) => eventCh[i].version < wire[j].version
    /\ Ahead(eventCh) /\ Ahead(wire)
    /\ installed =< bound /\ swallowed =< bound

Carries(q) == \E i \in 1..Len(q) : IsPush(q[i]) /\ q[i].version = bound

\* The version bound last has arrived or is on its way, while there is a stream
\* and a goroutine that reads it.
NewestOnItsWay ==
    conn \in streams /\ recv[session] # "done" =>
        installed = bound \/ swallowed = bound \/ Carries(eventCh) \/ Carries(wire)

IInv ==
    /\ TypeOK
    /\ ConnPlaces /\ RecvOwnsConn
    /\ StopsAnswered
    /\ ChannelsOwned /\ PushesOrdered /\ NewestOnItsWay

-----------------------------------------------------------------------------
(* Run and the connection.                                                 *)

\* The part of the invariant that Run's own steps have to keep.
RunInv == ConnPlaces /\ RecvOwnsConn /\ StopsAnswered

\* Run goes on to another place and leaves the connection alone.
Moves(pc, st) ==
    /\ main' \in MainType /\ main'.pc = pc /\ main'.st = st
    /\ UNCHANGED <<conn, streams, session, dials, recv, cancelled, done>>

\* Run closes what it has and goes, at once or after the join, to pc.
Tears(pc, st, who) ==
    /\ main' \in MainType /\ main'.st = st
    /\ UNCHANGED <<conn, session, dials, recv>> /\ streams' = streams \ {conn}
    /\ \/ conn = 0 /\ main'.pc = pc /\ done' = done \cup who /\ cancelled' = cancelled
       \/ /\ conn # 0 /\ main'.pc = "join" /\ main'.then = pc /\ main'.serves = who
          /\ done' = done /\ cancelled' = cancelled \cup {session}

LEMMA TeardownTears ==
  ASSUME TypeOK, ConnPlaces, NEW pc \in MainPcs, NEW st \in States, NEW who \in SUBSET Stoppers,
         Teardown(pc, st, who), UNCHANGED <<dials, recv>>
  PROVE  Tears(pc, st, who)
<1>1. main \in MainType /\ streams \subseteq Dials
  BY DEF TypeOK
<1>2. CASE conn = 0
  <2>1. /\ main' = [main EXCEPT !.pc = pc, !.st = st, !.serves = Nobody]
        /\ done' = done \cup who /\ UNCHANGED <<conn, streams, session, cancelled>>
    BY <1>2 DEF Teardown
  <2>2. main' \in MainType /\ main'.pc = pc /\ main'.st = st
    BY <1>1, <2>1 DEF MainType, Nobody
  <2>3. streams' = streams \ {conn}
    BY <1>1, <1>2, <2>1, LifecycleConstants DEF Dials
  <2> QED BY <1>2, <2>1, <2>2, <2>3 DEF Tears
<1>3. CASE conn # 0
  <2>1. /\ main' = [pc |-> "join", then |-> pc, st |-> st, serves |-> who]
        /\ streams' = streams \ {conn} /\ cancelled' = cancelled \cup {session}
        /\ UNCHANGED <<conn, session, done>>
    BY <1>3 DEF Teardown
  <2>2. /\ main' \in MainType /\ main'.pc = "join" /\ main'.then = pc /\ main'.st = st
        /\ main'.serves = who
    BY <2>1 DEF MainType, MainPcs
  <2> QED BY <1>3, <2>1, <2>2 DEF Tears
<1> QED BY <1>2, <1>3

LEMMA GotoMoves ==
  ASSUME main \in MainType, NEW pc \in MainPcs, Goto(pc),
         UNCHANGED <<conn, streams, session, dials, recv, cancelled, done>>
  PROVE  Moves(pc, main.st)
BY DEF Goto, Moves, MainType

LEMMA EnterMoves ==
  ASSUME main \in MainType, NEW pc \in MainPcs, NEW st \in States, Enter(pc, st),
         UNCHANGED <<conn, streams, session, dials, recv, cancelled, done>>
  PROVE  Moves(pc, st)
BY DEF Enter, Moves, MainType

\* Where the steps of Run lead, but for Join and Accept.
MainMoves ==
    \/ main.pc = "backoff" /\ Moves("top", main.st)
    \/ /\ main.pc = "top"
       /\ \/ main.st = "Connecting" /\ Moves("connect", main.st)
          \/ main.st = "Replaying" /\ Moves("replay", main.st)
          \/ main.st = "Replaying" /\ Moves("top", "Live")
          \/ main.st = "Live" /\ Moves("liveSend", main.st)
          \/ main.st = "Shutdown" /\ Moves("returned", main.st)
    \/ main.pc = "connect" /\ (Moves("backoff", main.st) \/ Moves("returned", main.st))
    \/ main.pc = "replay" /\ Moves("send", main.st)
    \/ main.pc = "send" /\ (Moves("replay", main.st) \/ Moves("top", "Live"))
    \/ main.pc = "liveSend" /\ Moves("live", main.st)
    \/ main.pc = "live" /\ (Moves("liveSend", main.st) \/ Moves("live", main.st)
                             \/ Moves("drain", main.st))

MainTears ==
    \/ main.pc \in {"top", "backoff"} /\ \E who \in SUBSET Stoppers : Tears("returned", main.st, who)
    \/ main.pc = "top" /\ main.st \in {"Replaying", "Live"} /\ Tears("top", "Connecting", {})
    \/ main.pc \in {"replay", "live", "send", "liveSend"} /\ Tears("backoff", "Connecting", {})
    \/ /\ main.pc \in {"replay", "drain"}
       /\ \E who \in SUBSET Stoppers : Tears("top", "Shutdown", who)
    \/ main.pc = "live" /\ Tears("returned", "Shutdown", {})

LEMMA MainClasses ==
  ASSUME TypeOK, ConnPlaces, MainStep
  PROVE  Join \/ Accept \/ MainMoves \/ MainTears
<1> USE DEF Nobody
<1>0. /\ main \in MainType /\ main.st \in States /\ main.serves \in SUBSET Stoppers
      /\ stopCh \in Seq(Stoppers) /\ (stopCh # << >> => Head(stopCh) \in Stoppers)
  BY DEF TypeOK, MainType
<1>1. /\ {"returned", "top", "backoff", "connect", "replay", "send", "live", "liveSend", "drain"}
            \subseteq MainPcs
      /\ States = {"Connecting", "Replaying", "Live", "Shutdown"}
  BY DEF MainPcs, States
<1>2. CASE Cancelled
  BY <1>0, <1>1, <1>2, TeardownTears DEF Cancelled, Watching, MainTears
<1>3. CASE OuterStop
  <2>1. {Head(stopCh)} \in SUBSET Stoppers /\ Teardown("returned", main.st, {Head(stopCh)})
    BY <1>0, <1>3 DEF OuterStop
  <2>2. Tears("returned", main.st, {Head(stopCh)})
    BY <1>0, <1>1, <1>3, <2>1, TeardownTears DEF OuterStop
  <2> QED BY <1>3, <2>1, <2>2 DEF OuterStop, Watching, MainTears
<1>4. CASE RecvError
  <2>1. Tears("backoff", "Connecting", {})
    BY <1>1, <1>4, TeardownTears DEF RecvError
  <2> QED BY <1>4, <2>1 DEF RecvError, MainTears
<1>5. CASE ReplayStop
  <2>1. {Head(stopCh)} \in SUBSET Stoppers /\ Teardown("top", "Shutdown", {Head(stopCh)})
    BY <1>0, <1>5 DEF ReplayStop
  <2>2. Tears("top", "Shutdown", {Head(stopCh)})
    BY <1>1, <1>5, <2>1, TeardownTears DEF ReplayStop
  <2> QED BY <1>5, <2>1, <2>2 DEF ReplayStop, MainTears
<1>6. CASE SendFails
  <2>1. Tears("backoff", "Connecting", {})
    BY <1>1, <1>6, TeardownTears DEF SendFails
  <2> QED BY <1>6, <2>1 DEF SendFails, MainTears
<1>7. CASE LiveCancelled
  <2>1. Tears("returned", "Shutdown", {})
    BY <1>1, <1>7, TeardownTears DEF LiveCancelled
  <2> QED BY <1>7, <2>1 DEF LiveCancelled, MainTears
<1>8. CASE Drained
  <2>1. Tears("top", "Shutdown", main.serves)
    BY <1>0, <1>1, <1>8, TeardownTears DEF Drained
  <2> QED BY <1>0, <1>8, <2>1 DEF Drained, MainTears
<1>9. CASE Dispatch
  <2>1. main.pc = "top" /\ UNCHANGED <<dials, recv>>
    BY <1>9 DEF Dispatch
  <2>2. CASE Teardown("top", "Connecting", Nobody) /\ main.st \in {"Replaying", "Live"}
    <3>1. Tears("top", "Connecting", {})
      BY <1>1, <2>1, <2>2, TeardownTears
    <3> QED BY <2>1, <2>2, <3>1 DEF MainTears
  <2>3. CASE main.st = "Replaying" /\ Enter("top", "Live")
             /\ UNCHANGED <<conn, streams, session, cancelled, done>>
    <3>1. Moves("top", "Live")
      BY <1>0, <1>1, <2>1, <2>3, EnterMoves
    <3> QED BY <2>1, <2>3, <3>1 DEF MainMoves
  <2>4. CASE /\ Goto(CASE main.st = "Connecting" -> "connect"
                    [] main.st = "Replaying"  -> "replay"
                    [] main.st = "Live"       -> "liveSend"
                    [] OTHER                  -> "returned")
             /\ UNCHANGED <<conn, streams, session, cancelled, done>>
    <3>1. CASE main.st = "Connecting"
      BY <1>0, <1>1, <2>1, <2>4, <3>1, GotoMoves DEF MainMoves
    <3>2. CASE main.st = "Replaying"
      BY <1>0, <1>1, <2>1, <2>4, <3>2, GotoMoves DEF MainMoves
    <3>3. CASE main.st = "Live"
      BY <1>0, <1>1, <2>1, <2>4, <3>3, GotoMoves DEF MainMoves
    <3>4. CASE main.st = "Shutdown"
      BY <1>0, <1>1, <2>1, <2>4, <3>4, GotoMoves DEF MainMoves
    <3> QED BY <1>0, <1>1, <3>1, <3>2, <3>3, <3>4
  <2> QED BY <1>9, <2>2, <2>3, <2>4 DEF Dispatch
<1>10. CASE BackoffElapsed
  BY <1>0, <1>1, <1>10, GotoMoves DEF BackoffElapsed, MainMoves, recvVars, stopVars
<1>11. CASE ConnectFails
  BY <1>0, <1>1, <1>11, GotoMoves DEF ConnectFails, MainMoves, recvVars, stopVars
<1>12. CASE Rejected
  BY <1>0, <1>1, <1>12, GotoMoves DEF Rejected, MainMoves, recvVars, stopVars
<1>13. CASE ReplayEvent
  BY <1>0, <1>1, <1>13, GotoMoves DEF ReplayEvent, MainMoves, stopVars
<1>14. CASE ReplayIdle
  BY <1>0, <1>1, <1>14, GotoMoves DEF ReplayIdle, MainMoves, recvVars, stopVars
<1>15. CASE ReplaySent
  <2>1. Goto("replay") \/ Enter("top", "Live")
    BY <1>15 DEF ReplaySent, Goto, Enter
  <2> QED BY <1>0, <1>1, <1>15, <2>1, GotoMoves, EnterMoves
          DEF ReplaySent, MainMoves, recvVars, stopVars
<1>16. CASE LiveSent
  BY <1>0, <1>1, <1>16, GotoMoves DEF LiveSent, MainMoves, recvVars, stopVars
<1>17. CASE LiveWake
  BY <1>0, <1>1, <1>17, GotoMoves DEF LiveWake, MainMoves, recvVars, stopVars
<1>18. CASE LiveEvent
  <2>1. main.pc = "live" /\ UNCHANGED <<conn, streams, session, dials, recv, cancelled, done>>
    BY <1>18 DEF LiveEvent, stopVars
  <2>2. UNCHANGED main \/ Goto("liveSend")
    BY <1>18 DEF LiveEvent
  <2>3. CASE UNCHANGED main
    BY <1>0, <2>1, <2>3 DEF Moves, MainMoves
  <2> QED BY <1>0, <1>1, <2>1, <2>2, <2>3, GotoMoves DEF MainMoves
<1>19. CASE LiveStop
  <2>1. main' = [main EXCEPT !.pc = "drain", !.serves = {Head(stopCh)}] /\ stopCh # << >>
    BY <1>19 DEF LiveStop
  <2>2. main' \in MainType /\ main'.pc = "drain" /\ main'.st = main.st
    BY <1>0, <1>1, <2>1 DEF MainType
  <2> QED BY <1>19, <2>2 DEF LiveStop, Moves, MainMoves, recvVars
<1> QED
  BY <1>2, <1>3, <1>4, <1>5, <1>6, <1>7, <1>8, <1>9, <1>10, <1>11, <1>12, <1>13, <1>14, <1>15,
     <1>16, <1>17, <1>18, <1>19 DEF MainStep, RunStep, CallEnds

\* Run leaves a place where it is ending only for its return.
LEMMA MovesKeepRun ==
  ASSUME TypeOK, RunInv, MainMoves, UNCHANGED stop
  PROVE  RunInv'
<1> USE DEF RunInv
<1>1. /\ conn' = conn /\ session' = session /\ streams' = streams /\ recv' = recv /\ done' = done
      /\ stop' = stop /\ main'.pc # "join"
  BY DEF MainMoves, Moves
<1>2. RecvOwnsConn'
  BY <1>1 DEF RecvOwnsConn
<1>3. ConnPlaces'
  BY <1>1 DEF ConnPlaces, MainMoves, Moves
<1>4. Ending => Ending'
  BY DEF Ending, RunDone, MainMoves, Moves
<1>5. StopsAnswered'
  BY <1>1, <1>4 DEF StopsAnswered
<1> QED BY <1>2, <1>3, <1>5

LEMMA TearsKeepRun ==
  ASSUME TypeOK, RunInv, MainTears, UNCHANGED stop
  PROVE  RunInv'
<1> USE DEF RunInv
<1>1. /\ conn' = conn /\ session' = session /\ streams' = streams \ {conn} /\ recv' = recv
      /\ stop' = stop
  BY DEF MainTears, Tears
<1>2. RecvOwnsConn'
  BY <1>1 DEF RecvOwnsConn
<1>3. ConnPlaces'
  BY <1>1 DEF ConnPlaces, MainTears, Tears
<1>4. Ending => Ending'
  BY DEF ConnPlaces, Ending, RunDone, MainTears, Tears
<1>5. done' # {} => Ending'
  BY <1>4 DEF StopsAnswered, Ending, RunDone, MainTears, Tears
<1>6. main'.pc = "join" /\ main'.serves # {} =>
          main'.then = "returned" \/ (main'.then = "top" /\ main'.st = "Shutdown")
  BY DEF MainTears, Tears
<1>7. StopsAnswered'
  BY <1>1, <1>4, <1>5, <1>6 DEF StopsAnswered
<1> QED BY <1>2, <1>3, <1>7

LEMMA JoinKeepsRun ==
  ASSUME TypeOK, RunInv, Join
  PROVE  RunInv' /\ main' \in MainType
<1> USE DEF RunInv
<1>1. main \in MainType /\ main.pc = "join" /\ main.then \in MainPcs
  BY DEF TypeOK, MainType, Join
<1>2. main' \in MainType /\ main'.pc = main.then /\ main'.st = main.st
  BY <1>1 DEF MainType, MainPcs, Join, Nobody
<1>3. /\ conn' = 0 /\ session' = 0 /\ streams' = streams /\ recv' = recv /\ stop' = stop
      /\ done' = done \cup main.serves
  BY DEF Join
<1>4. streams' = {}
  BY <1>1, <1>3 DEF ConnPlaces
<1>5. ConnPlaces'
  BY <1>1, <1>2, <1>3, <1>4 DEF ConnPlaces
<1>6. \A i \in Dials : recv'[i] \in {"none", "done"}
  BY <1>3 DEF RecvOwnsConn, Join, TypeOK, Dials
<1>7. RecvOwnsConn'
  BY <1>6 DEF RecvOwnsConn
<1>8. Ending => Ending'
  BY <1>1 DEF Ending, RunDone
<1>9. main.serves # {} => Ending'
  BY <1>1, <1>2 DEF StopsAnswered, Ending, RunDone
<1>10. main'.pc # "join"
  BY <1>1, <1>2 DEF ConnPlaces
<1>11. StopsAnswered'
  BY <1>3, <1>8, <1>9, <1>10 DEF StopsAnswered
<1> QED BY <1>2, <1>5, <1>7, <1>11

\* A connection is accepted only when there is none, and no goroutine reads.
LEMMA AcceptKeepsRun ==
  ASSUME TypeOK, RunInv, Accept
  PROVE  RunInv' /\ main' \in MainType
<1> USE DEF RunInv
<1>1. main \in MainType /\ main.pc = "connect" /\ dials + 1 \in Dials /\ conn = 0 /\ streams = {}
  <2>1. main \in MainType /\ main.pc = "connect" /\ conn = 0
    BY DEF TypeOK, Accept, ConnPlaces
  <2>2. dials + 1 \in Dials /\ 0 \notin Dials
    BY LifecycleConstants DEF TypeOK, Accept, Dials
  <2> QED BY <2>1, <2>2 DEF TypeOK, ConnPlaces
<1>2. main' \in MainType /\ main'.pc = "top" /\ main'.st = "Replaying"
  BY <1>1 DEF Accept, Enter, MainType, MainPcs, States
<1>3. /\ conn' = dials + 1 /\ session' = dials + 1 /\ streams' = {dials + 1} /\ stop' = stop
      /\ done' = done
  BY <1>1 DEF Accept, stopVars
<1>4. recv \in [Dials -> {"none", "loop", "recv", "offer", "done"}]
      /\ recv' = [recv EXCEPT ![dials + 1] = "loop"]
  BY DEF TypeOK, Accept
<1>5. \A i \in Dials : i # dials + 1 => recv'[i] \in {"none", "done"}
  BY <1>1, <1>4, LifecycleConstants DEF RecvOwnsConn, Dials
<1>6. RecvOwnsConn'
  BY <1>3, <1>5 DEF RecvOwnsConn
<1>7. ConnPlaces'
  BY <1>2, <1>3 DEF ConnPlaces
<1>8. ~Ending
  BY <1>1 DEF Ending, RunDone
<1>9. StopsAnswered'
  BY <1>2, <1>3, <1>8 DEF StopsAnswered
<1> QED BY <1>2, <1>6, <1>7, <1>9

LEMMA MainKeepsRun ==
  ASSUME TypeOK, RunInv, MainStep
  PROVE  RunInv' /\ main' \in MainType
<1>1. UNCHANGED stop
  BY DEF MainStep, RunStep, CallEnds, Join, Cancelled, OuterStop, BackoffElapsed, Dispatch, Accept, ConnectFails,
     Rejected, ReplayEvent, ReplayIdle, RecvError, ReplayStop, ReplaySent, LiveSent, SendFails,
     LiveEvent, LiveCancelled, LiveStop, LiveWake, Drained, stopVars
<1>2. CASE MainMoves
  BY <1>1, <1>2, MovesKeepRun DEF MainMoves, Moves
<1>3. CASE MainTears
  BY <1>1, <1>3, TearsKeepRun DEF MainTears, Tears
<1> QED BY <1>2, <1>3, MainClasses, JoinKeepsRun, AcceptKeepsRun DEF RunInv

-----------------------------------------------------------------------------
(* Frames in transit.                                                      *)

TransitInv == ChannelsOwned /\ PushesOrdered /\ NewestOnItsWay

LEMMA TailFrames ==
  ASSUME NEW q \in Seq(Frames), q # << >>
  PROVE  /\ Tail(q) \in Seq(Frames) /\ Len(Tail(q)) = Len(q) - 1
         /\ Len(q) \in Nat \ {0} /\ Head(q) = q[1] /\ Head(q) \in Frames
         /\ \A i \in 1..Len(Tail(q)) : i + 1 \in 1..Len(q) /\ Tail(q)[i] = q[i + 1]
OBVIOUS

LEMMA AppendFrames ==
  ASSUME NEW q \in Seq(Frames), NEW f \in Frames
  PROVE  /\ Append(q, f) \in Seq(Frames) /\ Len(Append(q, f)) = Len(q) + 1 /\ Len(q) \in Nat
         /\ \A i \in 1..Len(q) : Append(q, f)[i] = q[i]
         /\ Append(q, f)[Len(q) + 1] = f
OBVIOUS

LEMMA FrameVersions ==
  ASSUME NEW q \in Seq(Frames), NEW i \in 1..Len(q)
  PROVE  q[i] \in Frames /\ q[i].version \in 0..MaxPolicy /\ q[i].version \in Int
<1>1. q[i] \in Frames
  OBVIOUS
<1> QED BY <1>1, LifecycleConstants DEF Frames

\* A step that touches no queue, and closes streams at most.
LEMMA IdleTransit ==
  ASSUME TransitInv, UNCHANGED <<conn, session, recv, eventCh, wire, policyVars>>,
         streams' \subseteq streams
  PROVE  TransitInv'
<1>1. ChannelsOwned'
  BY DEF TransitInv, ChannelsOwned
<1>2. PushesOrdered'
  BY DEF TransitInv, PushesOrdered, Ascending, Ahead, policyVars
<1>3. NewestOnItsWay'
  BY DEF TransitInv, NewestOnItsWay, Carries, policyVars
<1> QED BY <1>1, <1>2, <1>3 DEF TransitInv

\* Run takes the first event: a push is installed or swallowed.
Consumes ==
    /\ eventCh # << >> /\ eventCh' = Tail(eventCh)
    /\ UNCHANGED <<conn, session, streams, recv, wire, bound>>
    /\ \/ ~IsPush(Head(eventCh)) /\ UNCHANGED <<installed, swallowed>>
       \/ IsPush(Head(eventCh)) /\ installed' = Head(eventCh).version /\ UNCHANGED swallowed
       \/ IsPush(Head(eventCh)) /\ swallowed' = Head(eventCh).version /\ UNCHANGED installed

LEMMA ConsumeTransit ==
  ASSUME TypeOK, TransitInv, Consumes
  PROVE  TransitInv' /\ installed' \in 0..MaxPolicy /\ swallowed' \in 0..MaxPolicy
<1> USE DEF TransitInv
<1>1. /\ eventCh \in Seq(Frames) /\ wire \in Seq(Frames) /\ bound \in 0..MaxPolicy
      /\ installed \in 0..MaxPolicy /\ swallowed \in 0..MaxPolicy
  BY DEF TypeOK
<1>2. /\ eventCh # << >> /\ eventCh' = Tail(eventCh) /\ wire' = wire /\ bound' = bound
      /\ conn' = conn /\ session' = session /\ streams' = streams /\ recv' = recv
  BY DEF Consumes
<1>3. /\ Len(eventCh') = Len(eventCh) - 1 /\ Len(eventCh) \in Nat \ {0} /\ 1 \in 1..Len(eventCh)
      /\ Head(eventCh) = eventCh[1]
      /\ \A i \in 1..Len(eventCh') : i + 1 \in 1..Len(eventCh) /\ eventCh'[i] = eventCh[i + 1]
  BY <1>1, <1>2, TailFrames
<1>4. eventCh[1].version \in 0..MaxPolicy
  BY <1>1, <1>3, FrameVersions
<1>5. \/ ~IsPush(eventCh[1]) /\ installed' = installed /\ swallowed' = swallowed
      \/ IsPush(eventCh[1]) /\ installed' = eventCh[1].version /\ swallowed' = swallowed
      \/ IsPush(eventCh[1]) /\ swallowed' = eventCh[1].version /\ installed' = installed
  BY <1>3 DEF Consumes
<1>6. installed' \in 0..MaxPolicy /\ swallowed' \in 0..MaxPolicy
  BY <1>1, <1>4, <1>5
<1>7. ChannelsOwned'
  BY <1>2, <1>3 DEF ChannelsOwned
<1>8. Ascending(eventCh') /\ Ascending(wire')
  <2>1. ASSUME NEW i \in 1..Len(eventCh'), NEW j \in 1..Len(eventCh'), i < j,
               IsPush(eventCh'[i]), IsPush(eventCh'[j])
        PROVE  eventCh'[i].version < eventCh'[j].version
    <3>1. /\ i + 1 \in 1..Len(eventCh) /\ j + 1 \in 1..Len(eventCh) /\ i + 1 < j + 1
          /\ eventCh'[i] = eventCh[i + 1] /\ eventCh'[j] = eventCh[j + 1]
      BY <1>3, <2>1
    <3> QED BY <2>1, <3>1 DEF PushesOrdered, Ascending
  <2> QED BY <1>2, <2>1 DEF PushesOrdered, Ascending
<1>9. \A i \in 1..Len(eventCh'), j \in 1..Len(wire') :
          IsPush(eventCh'[i]) /\ IsPush(wire'[j]) => eventCh'[i].version < wire'[j].version
  BY <1>2, <1>3 DEF PushesOrdered
<1>10. Ahead(eventCh)' /\ Ahead(wire)'
  <2>1. ASSUME NEW f \in Frames, installed < f.version, swallowed < f.version, f.version =< bound,
               IsPush(eventCh[1]) => eventCh[1].version < f.version
        PROVE  installed' < f.version /\ swallowed' < f.version /\ f.version =< bound'
    BY <1>2, <1>5, <2>1
  <2>2. \A i \in 1..Len(eventCh') : IsPush(eventCh'[i]) =>
            /\ eventCh'[i] \in Frames
            /\ installed < eventCh'[i].version /\ swallowed < eventCh'[i].version
            /\ eventCh'[i].version =< bound
            /\ (IsPush(eventCh[1]) => eventCh[1].version < eventCh'[i].version)
    <3> TAKE i \in 1..Len(eventCh')
    <3>1. eventCh'[i] = eventCh[i + 1] /\ i + 1 \in 1..Len(eventCh) /\ 1 < i + 1
      BY <1>3
    <3> QED BY <1>1, <1>3, <3>1, FrameVersions DEF PushesOrdered, Ascending, Ahead
  <2>3. \A i \in 1..Len(wire) : IsPush(wire[i]) =>
            /\ wire[i] \in Frames
            /\ installed < wire[i].version /\ swallowed < wire[i].version
            /\ wire[i].version =< bound
            /\ (IsPush(eventCh[1]) => eventCh[1].version < wire[i].version)
    BY <1>1, <1>3, FrameVersions DEF PushesOrdered, Ahead
  <2>4. Ahead(eventCh)'
    BY <2>1, <2>2 DEF Ahead
  <2>5. Ahead(wire)'
    BY <1>2, <2>1, <2>3 DEF Ahead
  <2> QED BY <2>4, <2>5
<1>11. installed' =< bound' /\ swallowed' =< bound'
  BY <1>2, <1>3, <1>5 DEF PushesOrdered, Ahead
<1>12. PushesOrdered'
  BY <1>8, <1>9, <1>10, <1>11 DEF PushesOrdered, Ascending
<1>13. NewestOnItsWay'
  <2> SUFFICES ASSUME conn \in streams, recv[session] # "done"
               PROVE  installed' = bound \/ swallowed' = bound \/ Carries(eventCh)' \/ Carries(wire)'
    BY <1>2 DEF NewestOnItsWay
  <2>1. CASE Carries(wire)
    BY <1>2, <2>1 DEF Carries
  <2>2. CASE Carries(eventCh)
    <3>1. PICK i \in 1..Len(eventCh) : IsPush(eventCh[i]) /\ eventCh[i].version = bound
      BY <2>2 DEF Carries
    <3>2. CASE i = 1
      BY <1>5, <3>1, <3>2
    <3>3. CASE i # 1
      <4>1. i - 1 \in 1..Len(eventCh') /\ eventCh'[i - 1] = eventCh[i]
        BY <1>3, <3>1, <3>3
      <4> QED BY <1>2, <3>1, <4>1 DEF Carries
    <3> QED BY <3>2, <3>3
  <2>3. CASE installed = bound \/ swallowed = bound
    <3>1. \/ installed' = bound \/ swallowed' = bound
      BY <1>1, <1>3, <1>4, <1>5, <2>3 DEF PushesOrdered, Ahead
    <3> QED BY <3>1
  <2> QED BY <2>1, <2>2, <2>3 DEF NewestOnItsWay
<1> QED BY <1>6, <1>7, <1>12, <1>13

\* The frames that are on the wire, in the order they came.
LEMMA WireTail ==
  ASSUME TypeOK, PushesOrdered, wire # << >>, wire' = Tail(wire), UNCHANGED eventCh,
         UNCHANGED policyVars
  PROVE  PushesOrdered' /\ wire' \in Seq(Frames)
<1>1. wire \in Seq(Frames)
  BY DEF TypeOK
<1>2. /\ wire' \in Seq(Frames) /\ Len(wire) \in Nat /\ Len(wire') = Len(wire) - 1
      /\ \A i \in 1..Len(wire') : i + 1 \in 1..Len(wire) /\ wire'[i] = wire[i + 1]
  BY <1>1, TailFrames
<1>3. eventCh' = eventCh /\ bound' = bound /\ installed' = installed /\ swallowed' = swallowed
  BY DEF policyVars
<1>4. Ascending(wire')
  <2>1. ASSUME NEW i \in 1..Len(wire'), NEW j \in 1..Len(wire'), i < j,
               IsPush(wire'[i]), IsPush(wire'[j])
        PROVE  wire'[i].version < wire'[j].version
    <3>1. /\ i + 1 \in 1..Len(wire) /\ j + 1 \in 1..Len(wire) /\ i + 1 < j + 1
          /\ wire'[i] = wire[i + 1] /\ wire'[j] = wire[j + 1]
      BY <1>2, <2>1
    <3> QED BY <2>1, <3>1 DEF PushesOrdered, Ascending
  <2> QED BY <2>1 DEF Ascending
<1>5. \A i \in 1..Len(eventCh'), j \in 1..Len(wire') :
          IsPush(eventCh'[i]) /\ IsPush(wire'[j]) => eventCh'[i].version < wire'[j].version
  BY <1>2, <1>3 DEF PushesOrdered
<1>6. Ahead(wire)' /\ Ahead(eventCh)'
  BY <1>2, <1>3 DEF PushesOrdered, Ahead
<1>7. Ascending(eventCh')
  BY <1>3 DEF PushesOrdered, Ascending
<1> QED BY <1>2, <1>3, <1>4, <1>5, <1>6, <1>7 DEF PushesOrdered, Ascending

\* The server's frame goes behind the others: an ack, a bad one, or a push of a
\* version later than any before it.
LEMMA WireAppend ==
  ASSUME TypeOK, PushesOrdered, NEW f \in Frames, wire' = Append(wire, f),
         UNCHANGED <<eventCh, installed, swallowed>>, bound' \in Int,
         IsPush(f) => bound < f.version /\ f.version = bound', bound =< bound'
  PROVE  PushesOrdered' /\ wire' \in Seq(Frames)
<1>1. /\ wire \in Seq(Frames) /\ eventCh \in Seq(Frames) /\ bound \in Int
      /\ installed \in Int /\ swallowed \in Int
  BY LifecycleConstants DEF TypeOK
<1>2. /\ wire' \in Seq(Frames) /\ Len(wire) \in Nat /\ Len(wire') = Len(wire) + 1
      /\ \A i \in 1..Len(wire) : wire'[i] = wire[i]
      /\ wire'[Len(wire) + 1] = f
  BY <1>1, AppendFrames
<1>3. eventCh' = eventCh /\ installed' = installed /\ swallowed' = swallowed
  OBVIOUS
<1>4. \A i \in 1..Len(wire) : wire[i].version \in Int
  BY <1>1, FrameVersions
<1>5. \A i \in 1..Len(eventCh) : eventCh[i].version \in Int
  BY <1>1, FrameVersions
<1>6. f.version \in Int
  BY LifecycleConstants DEF Frames
<1>7. \A i \in 1..Len(wire') : (i \in 1..Len(wire) /\ wire'[i] = wire[i])
                                \/ (i = Len(wire) + 1 /\ wire'[i] = f)
  BY <1>2
<1>8. Ascending(wire')
  <2>1. ASSUME NEW i \in 1..Len(wire'), NEW j \in 1..Len(wire'), i < j,
               IsPush(wire'[i]), IsPush(wire'[j])
        PROVE  wire'[i].version < wire'[j].version
    <3>1. i \in 1..Len(wire) /\ wire'[i] = wire[i]
      BY <1>2, <1>7, <2>1
    <3>2. CASE j \in 1..Len(wire) /\ wire'[j] = wire[j]
      BY <2>1, <3>1, <3>2 DEF PushesOrdered, Ascending
    <3>3. CASE wire'[j] = f
      <4>1. wire[i].version =< bound
        BY <2>1, <3>1 DEF PushesOrdered, Ahead
      <4> QED BY <1>1, <1>4, <1>6, <2>1, <3>1, <3>3, <4>1
    <3> QED BY <1>7, <3>2, <3>3
  <2> QED BY <2>1 DEF Ascending
<1>9. ASSUME NEW i \in 1..Len(eventCh), NEW j \in 1..Len(wire'),
             IsPush(eventCh[i]), IsPush(wire'[j])
      PROVE  eventCh[i].version < wire'[j].version
  <2>1. eventCh[i].version =< bound
    BY <1>9 DEF PushesOrdered, Ahead
  <2>2. CASE wire'[j] = f
    BY <1>1, <1>5, <1>6, <1>9, <2>1, <2>2
  <2> QED BY <1>7, <1>9, <2>2 DEF PushesOrdered
<1>10. installed' =< bound' /\ swallowed' =< bound'
  BY <1>1, <1>3 DEF PushesOrdered
<1>11. Ahead(eventCh)'
  BY <1>1, <1>3, <1>5 DEF PushesOrdered, Ahead
<1>12. ASSUME NEW i \in 1..Len(wire'), IsPush(wire'[i])
       PROVE  installed' < wire'[i].version /\ swallowed' < wire'[i].version
              /\ wire'[i].version =< bound'
  <2>1. CASE wire'[i] = f
    BY <1>1, <1>3, <1>6, <1>12, <2>1 DEF PushesOrdered
  <2>2. CASE i \in 1..Len(wire) /\ wire'[i] = wire[i]
    BY <1>1, <1>3, <1>4, <1>12, <2>2 DEF PushesOrdered, Ahead
  <2> QED BY <1>7, <2>1, <2>2
<1>13. Ahead(wire)' /\ Ascending(eventCh')
  BY <1>3, <1>12 DEF PushesOrdered, Ascending, Ahead
<1> QED BY <1>2, <1>3, <1>8, <1>9, <1>10, <1>11, <1>13 DEF PushesOrdered, Ascending

\* The recv goroutine moves the first frame of the wire into eventCh.
LEMMA OfferMoves ==
  ASSUME TypeOK, PushesOrdered, wire # << >>, wire' = Tail(wire),
         eventCh' = Append(eventCh, Head(wire)), UNCHANGED policyVars
  PROVE  /\ PushesOrdered' /\ wire' \in Seq(Frames) /\ eventCh' \in Seq(Frames)
         /\ Len(eventCh') = Len(eventCh) + 1
         /\ (Carries(eventCh) \/ Carries(wire) => (Carries(eventCh) \/ Carries(wire))')
<1>1. wire \in Seq(Frames) /\ eventCh \in Seq(Frames)
  BY DEF TypeOK
<1>2. /\ wire' \in Seq(Frames) /\ Len(wire) \in Nat \ {0} /\ Len(wire') = Len(wire) - 1
      /\ Head(wire) = wire[1] /\ Head(wire) \in Frames /\ 1 \in 1..Len(wire)
      /\ \A i \in 1..Len(wire') : i + 1 \in 1..Len(wire) /\ wire'[i] = wire[i + 1]
  BY <1>1, TailFrames
<1>3. /\ eventCh' \in Seq(Frames) /\ Len(eventCh) \in Nat /\ Len(eventCh') = Len(eventCh) + 1
      /\ \A i \in 1..Len(eventCh) : eventCh'[i] = eventCh[i]
      /\ eventCh'[Len(eventCh) + 1] = wire[1]
  BY <1>1, <1>2, AppendFrames
<1>4. bound' = bound /\ installed' = installed /\ swallowed' = swallowed
  BY DEF policyVars
<1>5. \A i \in 1..Len(eventCh') : (i \in 1..Len(eventCh) /\ eventCh'[i] = eventCh[i])
                                   \/ (i = Len(eventCh) + 1 /\ eventCh'[i] = wire[1])
  BY <1>3
<1>6. Ascending(eventCh')
  <2>1. ASSUME NEW i \in 1..Len(eventCh'), NEW j \in 1..Len(eventCh'), i < j,
               IsPush(eventCh'[i]), IsPush(eventCh'[j])
        PROVE  eventCh'[i].version < eventCh'[j].version
    <3>1. i \in 1..Len(eventCh) /\ eventCh'[i] = eventCh[i]
      BY <1>3, <1>5, <2>1
    <3>2. CASE j \in 1..Len(eventCh) /\ eventCh'[j] = eventCh[j]
      BY <2>1, <3>1, <3>2 DEF PushesOrdered, Ascending
    <3>3. CASE eventCh'[j] = wire[1]
      BY <1>2, <2>1, <3>1, <3>3 DEF PushesOrdered
    <3> QED BY <1>5, <3>2, <3>3
  <2> QED BY <2>1 DEF Ascending
<1>7. Ascending(wire')
  <2>1. ASSUME NEW i \in 1..Len(wire'), NEW j \in 1..Len(wire'), i < j,
               IsPush(wire'[i]), IsPush(wire'[j])
        PROVE  wire'[i].version < wire'[j].version
    <3>1. /\ i + 1 \in 1..Len(wire) /\ j + 1 \in 1..Len(wire) /\ i + 1 < j + 1
          /\ wire'[i] = wire[i + 1] /\ wire'[j] = wire[j + 1]
      BY <1>2, <2>1
    <3> QED BY <2>1, <3>1 DEF PushesOrdered, Ascending
  <2> QED BY <2>1 DEF Ascending
<1>8. ASSUME NEW i \in 1..Len(eventCh'), NEW j \in 1..Len(wire'),
             IsPush(eventCh'[i]), IsPush(wire'[j])
      PROVE  eventCh'[i].version < wire'[j].version
  <2>1. j + 1 \in 1..Len(wire) /\ wire'[j] = wire[j + 1] /\ 1 < j + 1
    BY <1>2
  <2>2. CASE eventCh'[i] = wire[1]
    BY <1>2, <1>8, <2>1, <2>2 DEF PushesOrdered, Ascending
  <2>3. CASE i \in 1..Len(eventCh) /\ eventCh'[i] = eventCh[i]
    BY <1>8, <2>1, <2>3 DEF PushesOrdered
  <2> QED BY <1>5, <2>2, <2>3
<1>9. Ahead(wire)'
  BY <1>2, <1>4 DEF PushesOrdered, Ahead
<1>10. Ahead(eventCh)'
  BY <1>2, <1>4, <1>5 DEF PushesOrdered, Ahead
<1>11. PushesOrdered'
  BY <1>4, <1>6, <1>7, <1>8, <1>9, <1>10 DEF PushesOrdered, Ascending
<1>12. CASE Carries(eventCh)
  <2>1. PICK i \in 1..Len(eventCh) : IsPush(eventCh[i]) /\ eventCh[i].version = bound
    BY <1>12 DEF Carries
  <2>2. i \in 1..Len(eventCh') /\ eventCh'[i] = eventCh[i]
    BY <1>3, <2>1
  <2>3. Carries(eventCh)'
    BY <1>4, <2>1, <2>2 DEF Carries
  <2> QED BY <1>2, <1>3, <1>11, <2>3
<1>13. CASE Carries(wire)
  <2>1. PICK i \in 1..Len(wire) : IsPush(wire[i]) /\ wire[i].version = bound
    BY <1>13 DEF Carries
  <2>2. CASE i = 1
    <3>1. Len(eventCh) + 1 \in 1..Len(eventCh')
      BY <1>3
    <3>2. Carries(eventCh)'
      BY <1>3, <1>4, <2>1, <2>2, <3>1 DEF Carries
    <3> QED BY <1>2, <1>3, <1>11, <3>2
  <2>3. CASE i # 1
    <3>1. i - 1 \in 1..Len(wire') /\ wire'[i - 1] = wire[i]
      BY <1>2, <2>1, <2>3
    <3>2. Carries(wire)'
      BY <1>4, <2>1, <3>1 DEF Carries
    <3> QED BY <1>2, <1>3, <1>11, <3>2
  <2> QED BY <2>2, <2>3
<1> QED BY <1>2, <1>3, <1>11, <1>12, <1>13

-----------------------------------------------------------------------------
(* The steps of Run.                                                       *)

LEMMA MainTypes ==
  ASSUME TypeOK, RunInv, MainStep
  PROVE  /\ conn' \in 0..MaxDials /\ session' \in 0..MaxDials /\ dials' \in 0..MaxDials
         /\ streams' \subseteq Dials /\ cancelled' \subseteq Dials /\ done' \subseteq Stoppers
         /\ recv' \in [Dials -> {"none", "loop", "recv", "offer", "done"}]
<1>0. /\ conn \in 0..MaxDials /\ session \in 0..MaxDials /\ dials \in 0..MaxDials
      /\ streams \subseteq Dials /\ cancelled \subseteq Dials /\ done \subseteq Stoppers
      /\ recv \in [Dials -> {"none", "loop", "recv", "offer", "done"}] /\ conn = session
      /\ main.serves \in SUBSET Stoppers
  BY DEF TypeOK, RunInv, ConnPlaces, MainType
<1>1. CASE MainMoves
  BY <1>0, <1>1 DEF MainMoves, Moves
<1>2. CASE MainTears
  <2>1. session # 0 => session \in Dials
    BY <1>0 DEF Dials
  <2>2. /\ conn' = conn /\ session' = session /\ dials' = dials /\ recv' = recv
        /\ streams' = streams \ {conn}
        /\ cancelled' = cancelled \/ (conn # 0 /\ cancelled' = cancelled \cup {session})
    BY <1>2 DEF MainTears, Tears
  <2>3. \E who \in SUBSET Stoppers : done' \in {done, done \cup who}
    BY <1>2 DEF MainTears, Tears
  <2> QED BY <1>0, <2>1, <2>2, <2>3
<1>3. CASE Join
  BY <1>0, <1>3, LifecycleConstants DEF Join
<1>4. CASE Accept
  <2>1. dials + 1 \in 0..MaxDials /\ dials + 1 \in Dials
    BY <1>0, <1>4, LifecycleConstants DEF Accept, Dials
  <2>2. conn' = dials + 1 /\ session' = dials + 1 /\ dials' = dials + 1
        /\ streams' = streams \cup {dials + 1} /\ cancelled' = cancelled /\ done' = done
        /\ recv' = [recv EXCEPT ![dials + 1] = "loop"]
    BY <1>4 DEF Accept, stopVars
  <2> QED BY <1>0, <2>1, <2>2
<1> QED BY <1>1, <1>2, <1>3, <1>4, MainClasses DEF RunInv

\* Run takes from the channels, and Join drops them.
MainTakes ==
    \/ eventCh' = eventCh /\ wire' = wire /\ UNCHANGED policyVars
    \/ Consumes
    \/ Join
    \/ Accept

LEMMA MainTakesFrames ==
  ASSUME TypeOK, MainStep
  PROVE  MainTakes
<1> USE DEF MainTakes
<1>1. CASE ReplayEvent
  BY <1>1 DEF ReplayEvent, Consumes, IsPush
<1>2. CASE LiveEvent
  BY <1>2 DEF LiveEvent, Consumes, IsPush
<1> QED
  BY <1>1, <1>2 DEF MainStep, RunStep, CallEnds, Cancelled, OuterStop, BackoffElapsed, Dispatch, ConnectFails,
     Rejected, ReplayIdle, RecvError, ReplayStop, ReplaySent, LiveSent, SendFails,
     LiveCancelled, LiveStop, LiveWake, Drained, recvVars

LEMMA MainTransit ==
  ASSUME TypeOK, RunInv, TransitInv, MainStep
  PROVE  /\ TransitInv'
         /\ eventCh' \in Seq(Frames) /\ Len(eventCh') =< EventCap /\ wire' \in Seq(Frames)
         /\ bound' \in 0..MaxPolicy /\ installed' \in 0..MaxPolicy /\ swallowed' \in 0..MaxPolicy
<1>0. /\ eventCh \in Seq(Frames) /\ Len(eventCh) =< EventCap /\ wire \in Seq(Frames)
      /\ bound \in 0..MaxPolicy /\ installed \in 0..MaxPolicy /\ swallowed \in 0..MaxPolicy
  BY DEF TypeOK
<1>1. CASE Join
  <2>1. /\ conn' = 0 /\ streams' = {} /\ eventCh' = << >> /\ wire' = << >> /\ UNCHANGED policyVars
        /\ recv' = recv
    BY <1>1 DEF Join, RunInv, ConnPlaces
  <2>2. \A i \in Dials : recv'[i] # "offer"
    BY <1>1, JoinKeepsRun, <2>1, LifecycleConstants DEF RunInv, RecvOwnsConn, Dials
  <2>3. ChannelsOwned' /\ NewestOnItsWay'
    BY <2>1, <2>2 DEF ChannelsOwned, NewestOnItsWay
  <2>4. PushesOrdered'
    <3>1. Len(eventCh') = 0 /\ Len(wire') = 0 /\ 1..0 = {}
      BY <2>1
    <3> QED BY <2>1, <3>1 DEF TransitInv, PushesOrdered, Ascending, Ahead, policyVars
  <2>5. eventCh' \in Seq(Frames) /\ Len(eventCh') =< EventCap /\ wire' \in Seq(Frames)
    BY <2>1, LifecycleConstants
  <2> QED BY <1>0, <2>1, <2>3, <2>4, <2>5 DEF TransitInv, policyVars
<1>2. CASE Accept
  <2>1. conn = 0 /\ conn' = dials' /\ conn' # 0
    BY <1>2, LifecycleConstants DEF Accept, RunInv, ConnPlaces, TypeOK
  <2>2. eventCh' = << >> /\ wire' = << >> /\ installed' = bound /\ swallowed' = 0 /\ bound' = bound
    BY <1>2, <2>1 DEF Accept, TransitInv, ChannelsOwned
  <2>3. \A i \in Dials : recv'[i] # "offer"
    <3>1. \A i \in Dials : recv[i] # "offer"
      BY <2>1, LifecycleConstants DEF RunInv, RecvOwnsConn, Dials
    <3> QED BY <1>2, <3>1 DEF TypeOK, Accept
  <2>4. ChannelsOwned' /\ NewestOnItsWay'
    BY <2>1, <2>2, <2>3 DEF ChannelsOwned, NewestOnItsWay
  <2>5. PushesOrdered'
    <3>1. Len(eventCh') = 0 /\ Len(wire') = 0 /\ 1..0 = {} /\ installed' =< bound' /\ swallowed' =< bound'
      BY <1>0, <2>2, LifecycleConstants
    <3> QED BY <2>2, <3>1 DEF PushesOrdered, Ascending, Ahead
  <2>6. eventCh' \in Seq(Frames) /\ Len(eventCh') =< EventCap /\ wire' \in Seq(Frames)
        /\ 0 \in 0..MaxPolicy
    BY <2>2, LifecycleConstants
  <2> QED BY <1>0, <2>2, <2>4, <2>5, <2>6 DEF TransitInv
<1>3. CASE Consumes
  <2>1. eventCh # << >> /\ eventCh' = Tail(eventCh) /\ wire' = wire /\ bound' = bound
    BY <1>3 DEF Consumes
  <2>2. eventCh' \in Seq(Frames) /\ Len(eventCh') =< EventCap
    BY <1>0, <2>1, TailFrames, LifecycleConstants
  <2> QED BY <1>0, <1>3, <2>1, <2>2, ConsumeTransit
<1>4. CASE eventCh' = eventCh /\ wire' = wire /\ UNCHANGED policyVars /\ ~Join /\ ~Accept
  <2>1. UNCHANGED <<conn, session, recv>> /\ streams' \subseteq streams
    BY <1>4, MainClasses DEF MainMoves, MainTears, Moves, Tears, RunInv
  <2>2. TransitInv'
    BY <1>4, <2>1, IdleTransit DEF policyVars
  <2> QED BY <1>0, <1>4, <2>2 DEF policyVars
<1> QED BY <1>1, <1>2, <1>3, <1>4, MainTakesFrames DEF MainTakes

\* A Stop request leaves stopCh when Run takes it; nothing else of the callers
\* or of the context changes.
LEMMA MainStops ==
  ASSUME TypeOK, MainStep
  PROVE  /\ errCh' \in BOOLEAN /\ runCtx' \in BOOLEAN
         /\ stopCh' \in Seq(Stoppers) /\ Len(stopCh') =< 1 /\ UNCHANGED stop
<1>0. stopCh \in Seq(Stoppers) /\ Len(stopCh) =< 1
  BY DEF TypeOK
<1>1. runCtx' = runCtx /\ stop' = stop
  BY DEF MainStep, RunStep, CallEnds, Join, Cancelled, OuterStop, BackoffElapsed, Dispatch, Accept, ConnectFails,
     Rejected, ReplayEvent, ReplayIdle, RecvError, ReplayStop, ReplaySent, LiveSent, SendFails,
     LiveEvent, LiveCancelled, LiveStop, LiveWake, Drained, stopVars
<1>2. errCh' = errCh \/ errCh' = FALSE
  BY DEF MainStep, RunStep, CallEnds, Join, Cancelled, OuterStop, BackoffElapsed, Dispatch, Accept, ConnectFails,
     Rejected, ReplayEvent, ReplayIdle, RecvError, ReplayStop, ReplaySent, LiveSent, SendFails,
     LiveEvent, LiveCancelled, LiveStop, LiveWake, Drained, recvVars
<1>3. stopCh' = stopCh \/ (stopCh # << >> /\ stopCh' = Tail(stopCh))
  BY DEF MainStep, RunStep, CallEnds, Join, Cancelled, OuterStop, BackoffElapsed, Dispatch, Accept, ConnectFails,
     Rejected, ReplayEvent, ReplayIdle, RecvError, ReplayStop, ReplaySent, LiveSent, SendFails,
     LiveEvent, LiveCancelled, LiveStop, LiveWake, Drained, stopVars
<1>4. stopCh' \in Seq(Stoppers) /\ Len(stopCh') =< 1
  BY <1>0, <1>3
<1>5. errCh' \in BOOLEAN /\ runCtx' \in BOOLEAN
  BY <1>1, <1>2, Zenon DEF TypeOK
<1> QED BY <1>1, <1>4, <1>5

LEMMA MainInv ==
  ASSUME IInv, MainStep
  PROVE  IInv'
<1>1. RunInv /\ TransitInv /\ TypeOK
  BY DEF IInv, RunInv, TransitInv
<1>2. RunInv' /\ main' \in MainType
  BY <1>1, MainKeepsRun
<1>3. TransitInv'
  BY <1>1, MainTransit
<1>4. UNCHANGED stop
  BY <1>1, MainStops
<1>5. TypeOK'
  BY <1>1, <1>2, <1>4, MainTypes, MainTransit, MainStops DEF TypeOK
<1> QED BY <1>2, <1>3, <1>5 DEF IInv, RunInv, TransitInv

-----------------------------------------------------------------------------
(* The steps of a recv goroutine.                                          *)

\* The goroutine that takes a step is the one of the connection, so every
\* other one has ended or never began.
LEMMA OneReader ==
  ASSUME TypeOK, RecvOwnsConn, NEW i \in Dials, recv[i] \in {"loop", "recv", "offer"}
  PROVE  /\ conn = i /\ session = i /\ conn # 0
         /\ \A j \in Dials \ {i} : recv[j] \in {"none", "done"}
<1>1. conn = i /\ session = i
  BY DEF RecvOwnsConn
<1>2. i # 0
  BY LifecycleConstants DEF Dials
<1>3. ASSUME NEW j \in Dials \ {i}
      PROVE  recv[j] \in {"none", "done"}
  BY <1>1 DEF RecvOwnsConn
<1> QED BY <1>1, <1>2, <1>3

\* What a step of goroutine i changes of the goroutines.
RecvMoves(i, at) ==
    /\ recv' = [recv EXCEPT ![i] = at] /\ at \in {"loop", "recv", "offer", "done"}
    /\ UNCHANGED <<mainVars, cancelled, stopVars, policyVars>>

LEMMA RecvMovesInv ==
  ASSUME TypeOK, RunInv, NEW i \in Dials, NEW at, recv[i] \in {"loop", "recv", "offer"},
         RecvMoves(i, at)
  PROVE  /\ RunInv'
         /\ recv' \in [Dials -> {"none", "loop", "recv", "offer", "done"}]
         /\ recv'[session'] = at /\ conn # 0
         /\ \A j \in Dials : recv'[j] = "offer" => at = "offer"
<1>0. recv \in [Dials -> {"none", "loop", "recv", "offer", "done"}]
  BY DEF TypeOK
<1>1. /\ conn = i /\ session = i /\ conn # 0
      /\ \A j \in Dials \ {i} : recv[j] \in {"none", "done"}
  BY OneReader DEF RunInv
<1>2. /\ recv' = [recv EXCEPT ![i] = at] /\ at \in {"loop", "recv", "offer", "done"}
      /\ main' = main /\ conn' = conn /\ streams' = streams /\ session' = session
      /\ done' = done /\ stop' = stop
  BY DEF RecvMoves, mainVars, stopVars
<1>3. /\ recv' \in [Dials -> {"none", "loop", "recv", "offer", "done"}] /\ recv'[i] = at
      /\ \A j \in Dials \ {i} : recv'[j] = recv[j]
  BY <1>0, <1>2
<1>4. RecvOwnsConn'
  BY <1>1, <1>2, <1>3 DEF RecvOwnsConn
<1>5. ConnPlaces' /\ StopsAnswered'
  BY <1>2 DEF RunInv, ConnPlaces, StopsAnswered, Ending, RunDone
<1> QED BY <1>1, <1>2, <1>3, <1>4, <1>5 DEF RunInv

LEMMA RecvTypes ==
  ASSUME TypeOK, NEW i \in Dials, NEW at, RecvMoves(i, at),
         errCh' \in BOOLEAN,
         recv' \in [Dials -> {"none", "loop", "recv", "offer", "done"}],
         eventCh' \in Seq(Frames), Len(eventCh') =< EventCap, wire' \in Seq(Frames)
  PROVE  TypeOK'
<1>1. /\ main' = main /\ conn' = conn /\ session' = session /\ dials' = dials
      /\ streams' = streams /\ cancelled' = cancelled
      /\ runCtx' = runCtx /\ stopCh' = stopCh /\ done' = done /\ stop' = stop
      /\ bound' = bound /\ installed' = installed /\ swallowed' = swallowed
  BY DEF RecvMoves, mainVars, stopVars, policyVars
<1>2. runCtx' \in BOOLEAN
  BY <1>1, Zenon DEF TypeOK
<1> QED BY <1>1, <1>2 DEF TypeOK

LEMMA RecvInv ==
  ASSUME IInv, NEW i \in Dials, RecvStep(i)
  PROVE  IInv'
<1>0. /\ TypeOK /\ RunInv /\ TransitInv /\ recv \in [Dials -> {"none", "loop", "recv", "offer", "done"}]
      /\ eventCh \in Seq(Frames) /\ Len(eventCh) =< EventCap /\ wire \in Seq(Frames)
      /\ EventCap \in Nat
  BY LifecycleConstants DEF IInv, RunInv, TransitInv, TypeOK
<1>a. errCh \in BOOLEAN
  BY Zenon DEF IInv, TypeOK
<1> SUFFICES TypeOK' /\ RunInv' /\ TransitInv'
  BY DEF IInv, RunInv, TransitInv
<1>1. CASE RecvLoop(i)
  <2>1. PICK at \in {"recv", "done"} : recv' = [recv EXCEPT ![i] = at]
    BY <1>1 DEF RecvLoop
  <2>2. RecvMoves(i, at) /\ recv[i] = "loop" /\ eventCh' = eventCh /\ wire' = wire
    BY <1>1, <2>1 DEF RecvLoop, RecvMoves
  <2>3. /\ RunInv' /\ recv' \in [Dials -> {"none", "loop", "recv", "offer", "done"}]
        /\ recv'[session'] = at /\ conn # 0 /\ \A j \in Dials : recv'[j] # "offer"
    BY <1>0, <2>1, <2>2, RecvMovesInv
  <2>e. errCh' \in BOOLEAN
    BY <1>a, <1>1, Zenon DEF RecvLoop
  <2>4. TypeOK'
    BY <1>0, <2>e, <2>2, <2>3, RecvTypes
  <2>5. /\ conn' = conn /\ session' = session /\ streams' = streams
        /\ bound' = bound /\ installed' = installed /\ swallowed' = swallowed
    BY <2>2 DEF RecvMoves, mainVars, policyVars
  <2>6. ChannelsOwned'
    BY <2>3, <2>5 DEF ChannelsOwned
  <2>7. PushesOrdered'
    BY <1>0, <2>2, <2>5 DEF TransitInv, PushesOrdered, Ascending, Ahead
  <2>8. recv[session] # "done"
    BY <1>0, <2>2, OneReader DEF RunInv
  <2>9. NewestOnItsWay'
    BY <1>0, <2>2, <2>5, <2>8 DEF TransitInv, NewestOnItsWay, Carries
  <2> QED BY <2>3, <2>4, <2>6, <2>7, <2>9 DEF TransitInv
<1>2. CASE RecvFails(i)
  <2>1. recv[i] = "recv" /\ RecvMoves(i, "done") /\ eventCh' = eventCh
        /\ (wire' = wire \/ (wire # << >> /\ wire' = Tail(wire)))
    BY <1>2 DEF RecvFails, RecvMoves
  <2>2. /\ RunInv' /\ recv' \in [Dials -> {"none", "loop", "recv", "offer", "done"}]
        /\ recv'[session'] = "done" /\ conn # 0 /\ \A j \in Dials : recv'[j] # "offer"
    BY <1>0, <2>1, RecvMovesInv
  <2>3. conn' = conn /\ UNCHANGED policyVars
    BY <2>1 DEF RecvMoves, mainVars
  <2>4. PushesOrdered' /\ wire' \in Seq(Frames)
    <3>1. CASE wire' = wire
      BY <1>0, <2>1, <2>3, <3>1 DEF TransitInv, PushesOrdered, Ascending, Ahead, policyVars
    <3>2. CASE wire # << >> /\ wire' = Tail(wire)
      BY <1>0, <2>1, <2>3, <3>2, WireTail DEF TransitInv
    <3> QED BY <2>1, <3>1, <3>2
  <2>e. errCh' \in BOOLEAN
    BY <1>2, Zenon DEF RecvFails
  <2>5. TypeOK'
    BY <1>0, <2>e, <2>1, <2>2, <2>4, RecvTypes
  <2>6. ChannelsOwned' /\ NewestOnItsWay'
    BY <2>2, <2>3 DEF ChannelsOwned, NewestOnItsWay
  <2> QED BY <2>2, <2>4, <2>5, <2>6 DEF TransitInv
<1>3. CASE RecvFrame(i)
  <2>1. recv[i] = "recv" /\ RecvMoves(i, "offer") /\ eventCh' = eventCh /\ wire' = wire /\ wire # << >>
    BY <1>3 DEF RecvFrame, RecvMoves
  <2>2. /\ RunInv' /\ recv' \in [Dials -> {"none", "loop", "recv", "offer", "done"}] /\ conn # 0
    BY <1>0, <2>1, RecvMovesInv
  <2>e. errCh' \in BOOLEAN
    BY <1>a, <1>3, Zenon DEF RecvFrame
  <2>3. TypeOK'
    BY <1>0, <2>e, <2>1, <2>2, RecvTypes
  <2>4. /\ conn' = conn /\ session' = session /\ streams' = streams
        /\ bound' = bound /\ installed' = installed /\ swallowed' = swallowed
    BY <2>1 DEF RecvMoves, mainVars, policyVars
  <2>5. ChannelsOwned'
    BY <2>1, <2>2, <2>4 DEF ChannelsOwned
  <2>6. PushesOrdered'
    BY <1>0, <2>1, <2>4 DEF TransitInv, PushesOrdered, Ascending, Ahead
  <2>7. recv[session] # "done"
    BY <1>0, <2>1, OneReader DEF RunInv
  <2>8. NewestOnItsWay'
    BY <1>0, <2>1, <2>4, <2>7 DEF TransitInv, NewestOnItsWay, Carries
  <2> QED BY <2>2, <2>3, <2>5, <2>6, <2>8 DEF TransitInv
<1>4. CASE RecvOffer(i)
  <2>1. recv[i] = "offer" /\ wire' = Tail(wire) /\ wire # << >>
    BY <1>0, <1>4 DEF RecvOffer, TransitInv, ChannelsOwned
  <2>e. errCh' \in BOOLEAN
    BY <1>a, <1>4, Zenon DEF RecvOffer
  <2>s. recv[session] # "done"
    BY <1>0, <2>1, OneReader DEF RunInv
  <2>2. CASE /\ Len(eventCh) < EventCap /\ eventCh' = Append(eventCh, Head(wire))
             /\ recv' = [recv EXCEPT ![i] = "loop"]
    <3>1. RecvMoves(i, "loop")
      BY <1>4, <2>2 DEF RecvOffer, RecvMoves
    <3>2. /\ RunInv' /\ recv' \in [Dials -> {"none", "loop", "recv", "offer", "done"}]
          /\ conn # 0 /\ \A j \in Dials : recv'[j] # "offer"
      BY <1>0, <2>1, <3>1, RecvMovesInv
    <3>3. conn' = conn /\ session' = session /\ streams' = streams /\ UNCHANGED policyVars
      BY <3>1 DEF RecvMoves, mainVars
    <3>4. /\ PushesOrdered' /\ wire' \in Seq(Frames) /\ eventCh' \in Seq(Frames)
          /\ Len(eventCh') = Len(eventCh) + 1
          /\ (Carries(eventCh) \/ Carries(wire) => (Carries(eventCh) \/ Carries(wire))')
      BY <1>0, <2>1, <2>2, <3>3, OfferMoves DEF TransitInv
    <3>5. Len(eventCh') =< EventCap
      BY <1>0, <2>2, <3>4
    <3>6. TypeOK'
      BY <2>e, <1>0, <3>1, <3>2, <3>4, <3>5, RecvTypes
    <3>7. ChannelsOwned'
      BY <3>2, <3>3 DEF ChannelsOwned
    <3>8. NewestOnItsWay'
      BY <1>0, <2>s, <3>3, <3>4 DEF TransitInv, NewestOnItsWay, policyVars
    <3> QED BY <3>2, <3>4, <3>6, <3>7, <3>8 DEF TransitInv
  <2>3. CASE recv' = [recv EXCEPT ![i] = "done"] /\ UNCHANGED eventCh
    <3>1. RecvMoves(i, "done")
      BY <1>4, <2>3 DEF RecvOffer, RecvMoves
    <3>2. /\ RunInv' /\ recv' \in [Dials -> {"none", "loop", "recv", "offer", "done"}]
          /\ recv'[session'] = "done" /\ conn # 0 /\ \A j \in Dials : recv'[j] # "offer"
      BY <1>0, <2>1, <3>1, RecvMovesInv
    <3>3. conn' = conn /\ UNCHANGED policyVars
      BY <3>1 DEF RecvMoves, mainVars
    <3>4. PushesOrdered' /\ wire' \in Seq(Frames)
      BY <1>0, <2>1, <2>3, <3>3, WireTail DEF TransitInv
    <3>5. TypeOK'
      BY <2>e, <1>0, <2>3, <3>1, <3>2, <3>4, RecvTypes
    <3>6. ChannelsOwned' /\ NewestOnItsWay'
      BY <3>2, <3>3 DEF ChannelsOwned, NewestOnItsWay
    <3> QED BY <3>2, <3>4, <3>5, <3>6 DEF TransitInv
  <2> QED BY <1>4, <2>2, <2>3 DEF RecvOffer
<1> QED BY <1>1, <1>2, <1>3, <1>4 DEF RecvStep

-----------------------------------------------------------------------------
(* The callers of Stop, and the environment.                               *)

\* A caller moves on, and returns only when Run is ending.
LEMMA StopMovesInv ==
  ASSUME IInv, NEW s \in Stoppers, NEW at \in {"check", "enqueue", "wait", "returned"},
         stop' = [stop EXCEPT ![s] = at], at = "returned" => Ending,
         stopCh' = stopCh \/ (stopCh' = << s >>),
         UNCHANGED <<mainVars, recvVars, runCtx, done, policyVars>>
  PROVE  IInv'
<1>0. /\ TypeOK /\ RunInv /\ TransitInv
      /\ stop \in [Stoppers -> {"idle", "check", "enqueue", "wait", "returned"}]
      /\ stopCh \in Seq(Stoppers) /\ Len(stopCh) =< 1
  BY DEF IInv, RunInv, TransitInv, TypeOK
<1>1. /\ main' = main /\ conn' = conn /\ session' = session /\ dials' = dials
      /\ streams' = streams /\ cancelled' = cancelled /\ recv' = recv
      /\ eventCh' = eventCh /\ wire' = wire /\ done' = done /\ UNCHANGED policyVars
      /\ bound' = bound /\ installed' = installed /\ swallowed' = swallowed
      /\ errCh' = errCh /\ runCtx' = runCtx
  BY DEF mainVars, recvVars, policyVars
<1>2. errCh' \in BOOLEAN /\ runCtx' \in BOOLEAN
  BY <1>0, <1>1, Zenon DEF TypeOK
<1>3. stopCh' \in Seq(Stoppers) /\ Len(stopCh') =< 1
  <2>1. << s >> \in Seq(Stoppers) /\ Len(<< s >>) = 1
    OBVIOUS
  <2>2. CASE stopCh' = stopCh
    BY <1>0, <2>2
  <2>3. CASE stopCh' = << s >>
    BY <2>1, <2>3
  <2> QED BY <2>2, <2>3
<1>4. stop' \in [Stoppers -> {"idle", "check", "enqueue", "wait", "returned"}]
  BY <1>0
<1>5. TypeOK'
  BY <1>0, <1>1, <1>2, <1>3, <1>4 DEF TypeOK
<1>6. TransitInv'
  BY <1>0, <1>1, IdleTransit
<1>7. ConnPlaces' /\ RecvOwnsConn'
  BY <1>0, <1>1 DEF RunInv, ConnPlaces, RecvOwnsConn
<1>8. Ending' = Ending
  BY <1>1 DEF Ending, RunDone
<1>9. (\E t \in Stoppers : stop'[t] = "returned") => Ending
  BY <1>0 DEF RunInv, StopsAnswered
<1>10. StopsAnswered'
  BY <1>0, <1>1, <1>8, <1>9 DEF RunInv, StopsAnswered
<1> QED BY <1>5, <1>6, <1>7, <1>10 DEF IInv, TransitInv

LEMMA StopInv ==
  ASSUME IInv, NEW s \in Stoppers, StopCalled(s) \/ StopStep(s)
  PROVE  IInv'
<1>1. CASE StopCalled(s)
  BY <1>1, StopMovesInv DEF StopCalled
<1>2. CASE StopCheck(s)
  <2>1. CASE RunDone
    BY <1>2, <2>1, StopMovesInv DEF StopCheck, Ending
  <2>2. CASE ~RunDone
    BY <1>2, <2>2, StopMovesInv DEF StopCheck
  <2> QED BY <2>1, <2>2
<1>3. CASE StopEnqueue(s)
  <2>1. CASE stopCh' = << s >> /\ stop' = [stop EXCEPT ![s] = "wait"]
    BY <1>3, <2>1, StopMovesInv DEF StopEnqueue
  <2>2. CASE RunDone /\ stop' = [stop EXCEPT ![s] = "returned"] /\ UNCHANGED stopCh
    BY <1>3, <2>2, StopMovesInv DEF StopEnqueue, Ending
  <2> QED BY <1>3, <2>1, <2>2 DEF StopEnqueue
<1>4. CASE StopWait(s)
  <2>1. Ending
    BY <1>4 DEF StopWait, IInv, StopsAnswered, Ending
  <2> QED BY <1>4, <2>1, StopMovesInv DEF StopWait
<1> QED BY <1>1, <1>2, <1>3, <1>4 DEF StopStep

\* The context, the stream and the server change neither Run nor a goroutine.
LEMMA EnvironmentRun ==
  ASSUME IInv, UNCHANGED <<main, conn, session, dials, recv, cancelled, eventCh, errCh>>,
         UNCHANGED <<stopCh, done, stop>>, streams' \subseteq streams,
         runCtx' \in BOOLEAN, wire' \in Seq(Frames), bound' \in 0..MaxPolicy,
         UNCHANGED <<installed, swallowed>>
  PROVE  TypeOK' /\ RunInv'
<1>1. errCh' \in BOOLEAN
  BY Zenon DEF IInv, TypeOK
<1>2. TypeOK'
  BY <1>1 DEF IInv, TypeOK
<1>3. ConnPlaces' /\ RecvOwnsConn'
  BY DEF IInv, ConnPlaces, RecvOwnsConn
<1>4. StopsAnswered'
  BY DEF IInv, StopsAnswered, Ending, RunDone
<1> QED BY <1>2, <1>3, <1>4 DEF RunInv

LEMMA ServerInv ==
  ASSUME IInv, ServerSends \/ ServerBinds
  PROVE  IInv'
<1>0. /\ TypeOK /\ PushesOrdered /\ wire \in Seq(Frames) /\ bound \in 0..MaxPolicy
      /\ installed \in 0..MaxPolicy /\ swallowed \in 0..MaxPolicy
  BY DEF IInv, TypeOK
<1>1. /\ UNCHANGED <<main, conn, session, dials, recv, cancelled, eventCh, errCh>>
      /\ UNCHANGED <<stopCh, done, stop>> /\ streams' = streams /\ runCtx' = runCtx
      /\ UNCHANGED <<installed, swallowed>>
  BY DEF ServerSends, ServerBinds, mainVars, stopVars, policyVars
<1>2. runCtx' \in BOOLEAN
  BY <1>0, <1>1, Zenon DEF TypeOK
<1>3. ~(0 \in streams)
  BY <1>0, LifecycleConstants DEF TypeOK, Dials
<1>4. ASSUME conn \in streams, NEW f \in Frames, wire' = Append(wire, f),
             \/ bound' = bound /\ ~IsPush(f)
             \/ bound' = bound + 1 /\ bound' \in 0..MaxPolicy /\ f = Push(bound')
      PROVE  IInv'
  <2>1. /\ wire' = Append(wire, f)
        /\ \/ bound' = bound /\ ~IsPush(f)
           \/ bound' = bound + 1 /\ bound' \in 0..MaxPolicy /\ f = Push(bound')
    BY <1>4
  <2>2. /\ bound' \in 0..MaxPolicy /\ bound =< bound' /\ bound' \in Int
        /\ (IsPush(f) => bound < f.version /\ f.version = bound')
    BY <1>0, <2>1, LifecycleConstants DEF IsPush, Push
  <2>3. PushesOrdered' /\ wire' \in Seq(Frames)
    BY <1>0, <1>1, <2>1, <2>2, WireAppend
  <2>4. TypeOK' /\ RunInv'
    BY <1>1, <1>2, <2>2, <2>3, EnvironmentRun
  <2>5. /\ Len(wire') = Len(wire) + 1 /\ Len(wire) \in Nat
        /\ \A i \in 1..Len(wire) : wire'[i] = wire[i]
        /\ wire'[Len(wire) + 1] = f
    BY <1>0, <2>1, AppendFrames
  <2>6. conn # 0 /\ wire' # << >>
    BY <1>3, <1>4, <2>5
  <2>7. ChannelsOwned'
    BY <1>1, <2>6 DEF ChannelsOwned
  <2>8. NewestOnItsWay'
    <3>1. CASE bound' = bound
      <4>1. Carries(wire) => Carries(wire)'
        <5> SUFFICES ASSUME NEW i \in 1..Len(wire), IsPush(wire[i]), wire[i].version = bound
                     PROVE  Carries(wire)'
          BY DEF Carries
        <5>1. i \in 1..Len(wire') /\ wire'[i] = wire[i]
          BY <2>5
        <5> QED BY <3>1, <5>1 DEF Carries
      <4> QED BY <1>1, <3>1, <4>1 DEF IInv, NewestOnItsWay, Carries
    <3>2. CASE f = Push(bound')
      <4>1. Len(wire) + 1 \in 1..Len(wire') /\ IsPush(f) /\ f.version = bound'
        BY <2>5, <3>2 DEF IsPush, Push
      <4>2. Carries(wire)'
        BY <2>5, <4>1 DEF Carries
      <4> QED BY <4>2 DEF NewestOnItsWay
    <3> QED BY <2>1, <3>1, <3>2
  <2> QED BY <2>3, <2>4, <2>7, <2>8 DEF IInv, RunInv
<1>5. CASE conn \notin streams /\ wire' = wire /\ bound' = bound + 1 /\ bound' \in 0..MaxPolicy
  <2>1. TypeOK' /\ RunInv'
    BY <1>0, <1>1, <1>2, <1>5, EnvironmentRun
  <2>2. PushesOrdered'
    <3>1. installed' =< bound' /\ swallowed' =< bound'
      BY <1>0, <1>1, <1>5 DEF PushesOrdered
    <3>2. \A i \in 1..Len(wire) : wire[i].version \in Int
      BY <1>0, FrameVersions
    <3>3. \A i \in 1..Len(eventCh) : eventCh[i].version \in Int
      BY <1>0, FrameVersions DEF TypeOK
    <3>4. Ahead(wire)'
      BY <1>0, <1>1, <1>5, <3>2 DEF PushesOrdered, Ahead
    <3>5. Ahead(eventCh)'
      BY <1>0, <1>1, <1>5, <3>3 DEF PushesOrdered, Ahead
    <3> QED BY <1>0, <1>1, <1>5, <3>1, <3>4, <3>5 DEF PushesOrdered, Ascending
  <2>3. ChannelsOwned' /\ NewestOnItsWay'
    BY <1>1, <1>5 DEF IInv, ChannelsOwned, NewestOnItsWay
  <2> QED BY <2>1, <2>2, <2>3 DEF IInv, RunInv
<1>6. CASE ServerSends
  <2>1. Ack \in Frames /\ Bad \in Frames /\ ~IsPush(Ack) /\ ~IsPush(Bad)
    BY LifecycleConstants DEF Ack, Bad, Frames, IsPush
  <2>2. conn \in streams /\ bound' = bound /\ (wire' = Append(wire, Ack) \/ wire' = Append(wire, Bad))
    BY <1>6 DEF ServerSends, policyVars
  <2> QED BY <1>4, <2>1, <2>2
<1>7. CASE ServerBinds
  <2>1. bound' = bound + 1 /\ bound' \in 0..MaxPolicy
    BY <1>0, <1>7, LifecycleConstants DEF ServerBinds
  <2>2. Push(bound') \in Frames
    BY <2>1 DEF Push, Frames
  <2> QED BY <1>4, <1>5, <1>7, <2>1, <2>2 DEF ServerBinds
<1> QED BY <1>6, <1>7

LEMMA EnvironmentInv ==
  ASSUME IInv, CancelRun \/ Break
  PROVE  IInv'
<1>1. /\ UNCHANGED <<main, conn, session, dials, recv, cancelled, eventCh, errCh, wire>>
      /\ UNCHANGED <<stopCh, done, stop>> /\ streams' \subseteq streams
      /\ UNCHANGED policyVars
  BY DEF CancelRun, Break, mainVars, recvVars, stopVars
<1>2. runCtx' \in BOOLEAN
  <2>1. runCtx' = runCtx \/ runCtx' = TRUE
    BY DEF CancelRun, Break, stopVars
  <2> QED BY <2>1, Zenon DEF IInv, TypeOK
<1>3. wire' \in Seq(Frames) /\ bound' \in 0..MaxPolicy /\ UNCHANGED <<installed, swallowed>>
  BY <1>1 DEF IInv, TypeOK, policyVars
<1>4. TypeOK' /\ RunInv'
  BY <1>1, <1>2, <1>3, EnvironmentRun
<1>5. TransitInv'
  BY <1>1, IdleTransit DEF IInv, TransitInv
<1> QED BY <1>4, <1>5 DEF IInv, RunInv, TransitInv

-----------------------------------------------------------------------------
(* Every step.                                                             *)

LEMMA InitInv == Init => IInv
<1> SUFFICES ASSUME Init PROVE IInv
  OBVIOUS
<1>1. main \in MainType
  BY DEF Init, MainType, MainPcs, States, Nobody
<1>2. errCh \in BOOLEAN /\ runCtx \in BOOLEAN
  BY Zenon DEF Init
<1>3. TypeOK
  BY <1>1, <1>2, LifecycleConstants DEF Init, TypeOK, Dials
<1>4. ConnPlaces /\ RecvOwnsConn
  BY DEF Init, ConnPlaces, RecvOwnsConn, Nobody
<1>5. StopsAnswered
  BY DEF Init, StopsAnswered, Ending, RunDone, Nobody
<1>6. ChannelsOwned /\ NewestOnItsWay
  BY DEF Init, ChannelsOwned, NewestOnItsWay
<1>7. PushesOrdered
  <2>1. eventCh = << >> /\ wire = << >> /\ installed =< bound /\ swallowed =< bound
    BY DEF Init
  <2> QED BY <2>1 DEF PushesOrdered, Ascending, Ahead
<1> QED BY <1>3, <1>4, <1>5, <1>6, <1>7 DEF IInv

LEMMA StepInv == IInv /\ [Next]_vars => IInv'
<1> SUFFICES ASSUME IInv, [Next]_vars PROVE IInv'
  OBVIOUS
<1>1. CASE UNCHANGED vars
  <2>1. /\ UNCHANGED <<main, conn, session, dials, recv, cancelled, eventCh, errCh, wire>>
        /\ UNCHANGED <<stopCh, done, stop>> /\ streams' \subseteq streams /\ runCtx' = runCtx
        /\ UNCHANGED policyVars
    BY <1>1 DEF vars, mainVars, recvVars, stopVars
  <2>2. runCtx' \in BOOLEAN
    BY <2>1, Zenon DEF IInv, TypeOK
  <2>3. wire' \in Seq(Frames) /\ bound' \in 0..MaxPolicy /\ UNCHANGED <<installed, swallowed>>
    BY <2>1 DEF IInv, TypeOK, policyVars
  <2>4. TypeOK' /\ RunInv'
    BY <2>1, <2>2, <2>3, EnvironmentRun
  <2>5. TransitInv'
    BY <2>1, IdleTransit DEF IInv, TransitInv
  <2> QED BY <2>4, <2>5 DEF IInv, RunInv, TransitInv
<1>2. CASE Next
  BY <1>2, MainInv, RecvInv, StopInv, ServerInv, EnvironmentInv DEF Next
<1> QED BY <1>1, <1>2

LEMMA Inductive == Spec => []IInv
BY InitInv, StepInv, PTL DEF Spec

-----------------------------------------------------------------------------
(* The theorems.                                                           *)

\* t.conn is neither cleared nor replaced while a recv goroutine reads it, on
\* every path through runConnecting, the states and the teardown, so there is
\* never a second reader and none on a stream that is not its own.
THEOREM OneReaderOwnConnection == Spec => []RecvOwnsConn
<1>1. IInv => RecvOwnsConn
  BY DEF IInv
<1> QED BY <1>1, Inductive, PTL

\* Run never returns, and never drops t.conn, with a stream open or a recv
\* goroutine running, however it comes to its end.
THEOREM NothingLeft == Spec => []NothingLeaks
<1>1. IInv => NothingLeaks
  <2> SUFFICES ASSUME IInv PROVE NothingLeaks
    OBVIOUS
  <2>1. streams \subseteq {conn} /\ (RunDone => conn = 0)
    BY DEF IInv, ConnPlaces, RunDone
  <2>2. conn = 0 => \A i \in Dials : recv[i] \in {"none", "done"}
    BY LifecycleConstants DEF IInv, RecvOwnsConn, Dials
  <2> QED BY <2>1, <2>2 DEF NothingLeaks
<1> QED BY <1>1, Inductive, PTL

\* When any caller of Stop has returned, through its done channel or because
\* runDone is closed, the connection is gone and Run dials no other one.
THEOREM StopIsFinal == Spec => []StopQuiesces
<1>1. IInv => StopQuiesces
  <2> SUFFICES ASSUME IInv, \E s \in Stoppers : stop[s] = "returned" PROVE
          conn = 0 /\ streams = {} /\ (RunDone \/ (main.pc = "top" /\ main.st = "Shutdown"))
    BY DEF StopQuiesces
  <2>1. RunDone \/ (main.pc = "top" /\ main.st = "Shutdown")
    BY DEF IInv, StopsAnswered, Ending
  <2>2. conn = 0 /\ streams \subseteq {conn} /\ streams \subseteq Dials
    BY <2>1 DEF IInv, ConnPlaces, RunDone, TypeOK
  <2>3. streams = {}
    BY <2>2, LifecycleConstants DEF Dials
  <2> QED BY <2>1, <2>2, <2>3
<1> QED BY <1>1, Inductive, PTL

\* No push is lost or overtaken between the server and runLive: a Live client
\* with nothing in transit has the version bound last, unless runReplaying
\* dropped exactly that one.
THEOREM NoPushLost == Spec => []PolicyCurrent
<1>1. IInv => PolicyCurrent
  <2> SUFFICES ASSUME IInv, conn \in streams, recv[session] # "done", wire = << >>, eventCh = << >>
               PROVE  installed = bound \/ swallowed = bound
    BY DEF PolicyCurrent
  <2>1. ~Carries(eventCh) /\ ~Carries(wire)
    BY DEF Carries
  <2> QED BY <2>1 DEF IInv, NewestOnItsWay
<1> QED BY <1>1, Inductive, PTL

\* Every channel keeps its capacity and every variable its type.
THEOREM TypeCorrect == Spec => []TypeOK
<1>1. IInv => TypeOK
  BY DEF IInv
<1> QED BY <1>1, Inductive, PTL
=============================================================================
