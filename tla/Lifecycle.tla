----------------------------- MODULE Lifecycle -----------------------------
(***************************************************************************)
(* The goroutines of the WTP transport and how they start, hand over and   *)
(* stop: AEP-CAW/internal/store/watchtower/transport (transport.go,        *)
(* recv_multiplexer.go, state_*.go, policy_install.go).                    *)
(*                                                                         *)
(* Run is one goroutine; every accepted connection has a recv goroutine    *)
(* that reads t.conn and feeds eventCh and errCh; callers of Stop queue a  *)
(* request in stopCh and wait.  The context may be cancelled at any time,  *)
(* the stream may break at any time, and the server may send acks, policy  *)
(* pushes and frames that fail closed.                                     *)
(*                                                                         *)
(* Abstractions: what is sent, and what an ack does to the cursors, is in  *)
(* module Transport.  A policy is its version; the server puts the version *)
(* bound to the agent in every SessionAck and pushes each new one.  A     *)
(* connection and its recv session have the number of the dial.            *)
(***************************************************************************)
EXTENDS Integers, Sequences, FiniteSets

CONSTANTS
    Stoppers,   \* goroutines that call Stop, once each
    EventCap,   \* capacity of recvSession.eventCh
    MaxDials,   \* bound: accepted connections
    MaxPolicy,  \* bound: policy versions the server binds
    MaxWire     \* bound: frames on their way to the client

ASSUME LifecycleConstants ==
    /\ EventCap \in Nat \ {0}
    /\ MaxDials \in Nat /\ MaxPolicy \in Nat /\ MaxWire \in Nat

VARIABLES
    main,       \* Run: where it is, the state it goes to next, the Stop it serves
    conn,       \* t.conn, 0 for nil
    streams,    \* connections dialled, not closed and not broken
    dials,      \* bound counter
    session,    \* t.recv, 0 for nil
    recv,       \* the recv goroutines
    cancelled,  \* recv sessions whose cancelFn was called
    eventCh,    \* recvSession.eventCh of the current session
    errCh,      \* there is an error in its errCh
    wire,       \* frames of the current connection on their way to the client
    runCtx,     \* the context given to Run is cancelled
    stopCh,     \* the requests in stopCh
    done,       \* callers whose stopReq.done is closed
    stop,       \* the callers of Stop
    bound,      \* server: the policy version bound to this agent
    installed,  \* the version last handed to OnPolicyPushed
    swallowed   \* history: the last version read from eventCh and dropped

mainVars   == <<main, conn, streams, dials, session>>
recvVars   == <<recv, cancelled, eventCh, errCh, wire>>
stopVars   == <<runCtx, stopCh, done, stop>>
policyVars == <<bound, installed, swallowed>>
vars       == <<mainVars, recvVars, stopVars, policyVars>>

Dials   == 1..MaxDials
Ack     == [kind |-> "ack", version |-> 0]
Push(v) == [kind |-> "push", version |-> v]
Bad     == [kind |-> "bad", version |-> 0]   \* Goaway, ServerUpdate, invalid, unknown
Nobody  == {}

\* t.runDone is closed.
RunDone == main.pc = "returned"
Goto(pc) == main' = [main EXCEPT !.pc = pc]
Enter(pc, st) == main' = [main EXCEPT !.pc = pc, !.st = st]

-----------------------------------------------------------------------------
(* Teardown: Close the connection, cancel the recv session, wait for it.   *)

\* Slip: the connection is closed, but the recv goroutine is left to itself.
TeardownNoJoin(pc, st, who) ==
    /\ main' = [main EXCEPT !.pc = pc, !.st = st, !.serves = Nobody]
    /\ streams' = streams \ {conn}
    /\ conn' = 0 /\ session' = 0
    /\ done' = done \cup who
    /\ UNCHANGED cancelled

\* conn.Close and teardownRecv up to <-rs.done, then on to pc in state st with
\* the request of who answered.  Without a connection there is nothing to do.
Teardown(pc, st, who) ==
    IF conn = 0
    THEN /\ main' = [main EXCEPT !.pc = pc, !.st = st, !.serves = Nobody]
         /\ done' = done \cup who
         /\ UNCHANGED <<conn, streams, session, cancelled>>
    ELSE /\ main' = [pc |-> "join", then |-> pc, st |-> st, serves |-> who]
         /\ streams' = streams \ {conn}
         /\ cancelled' = cancelled \cup {session}
         /\ UNCHANGED <<conn, session, done>>

\* <-rs.done returned: the session goes with its channels, t.conn = nil,
\* close(sr.done).
Join ==
    /\ main.pc = "join" /\ (session # 0 => recv[session] = "done")
    /\ main' = [main EXCEPT !.pc = main.then, !.then = "top", !.serves = Nobody]
    /\ conn' = 0 /\ session' = 0
    /\ eventCh' = << >> /\ errCh' = FALSE /\ wire' = << >>
    /\ done' = done \cup main.serves
    /\ UNCHANGED <<streams, dials, recv, cancelled, runCtx, stopCh, stop, policyVars>>

-----------------------------------------------------------------------------
(* Run, outside the states.                                                *)

\* The arms of the select at the top of the loop, and of the backoff sleeps.
Watching == main.pc \in {"top", "backoff"}

Cancelled ==
    /\ Watching /\ runCtx
    /\ Teardown("returned", main.st, Nobody)
    /\ UNCHANGED <<dials, recv, eventCh, errCh, wire, runCtx, stopCh, stop, policyVars>>

\* handleOuterStop.
OuterStop ==
    /\ Watching /\ stopCh # << >>
    /\ stopCh' = Tail(stopCh)
    /\ Teardown("returned", main.st, {Head(stopCh)})
    /\ UNCHANGED <<dials, recv, eventCh, errCh, wire, runCtx, stop, policyVars>>

BackoffElapsed ==
    /\ main.pc = "backoff"
    /\ Goto("top")
    /\ UNCHANGED <<conn, streams, dials, session, recvVars, stopVars, policyVars>>

\* The default arm: on to the state.  A replay plan without stages is over at
\* once; computeReplayPlan, or the reader of the Live state, may fail.
Dispatch ==
    /\ main.pc = "top" /\ ~runCtx /\ stopCh = << >>
    /\ \/ /\ Goto(CASE main.st = "Connecting" -> "connect"
                    [] main.st = "Replaying"  -> "replay"
                    [] main.st = "Live"       -> "liveSend"
                    [] OTHER                  -> "returned")
          /\ UNCHANGED <<conn, streams, session, cancelled, done>>
       \/ /\ main.st = "Replaying"
          /\ Enter("top", "Live")
          /\ UNCHANGED <<conn, streams, session, cancelled, done>>
       \/ /\ main.st \in {"Replaying", "Live"}
          /\ Teardown("top", "Connecting", Nobody)
    /\ UNCHANGED <<dials, recv, eventCh, errCh, wire, runCtx, stopCh, stop, policyVars>>

-----------------------------------------------------------------------------
(* runConnecting.                                                          *)

\* SessionAck accepted: its policy is handed to OnPolicyPushed, and Run starts
\* the recv goroutine.
Accept ==
    /\ main.pc = "connect" /\ dials < MaxDials
    /\ dials' = dials + 1 /\ conn' = dials' /\ session' = dials'
    /\ streams' = streams \cup {dials'}
    /\ recv' = [recv EXCEPT ![dials'] = "loop"]
    /\ installed' = bound /\ swallowed' = 0
    /\ Enter("top", "Replaying")
    /\ UNCHANGED <<cancelled, eventCh, errCh, wire, stopVars, bound>>

\* Dial, Send or Recv failed, or the answer was no SessionAck.
ConnectFails ==
    /\ main.pc = "connect"
    /\ Goto("backoff")
    /\ UNCHANGED <<conn, streams, dials, session, recvVars, stopVars, policyVars>>

\* The server refused the session: terminal.
Rejected ==
    /\ main.pc = "connect"
    /\ Goto("returned")
    /\ UNCHANGED <<conn, streams, dials, session, recvVars, stopVars, policyVars>>

-----------------------------------------------------------------------------
(* runReplaying and runLive.                                               *)

Quiet == eventCh = << >> /\ ~errCh /\ stopCh = << >>

\* Any event is consumed; a policy push is no case of this switch.
ReplayEvent ==
    /\ main.pc = "replay" /\ eventCh # << >>
    /\ eventCh' = Tail(eventCh)
    /\ swallowed' = IF Head(eventCh).kind = "push"
                    THEN Head(eventCh).version ELSE swallowed
    /\ Goto("send")
    /\ UNCHANGED <<conn, streams, dials, session, recv, cancelled, errCh, wire, stopVars,
                   bound, installed>>

ReplayIdle ==
    /\ main.pc = "replay" /\ Quiet
    /\ Goto("send")
    /\ UNCHANGED <<conn, streams, dials, session, recvVars, stopVars, policyVars>>

\* The error arm of both states.
RecvError ==
    /\ main.pc \in {"replay", "live"} /\ errCh
    /\ errCh' = FALSE
    /\ Teardown("backoff", "Connecting", Nobody)
    /\ UNCHANGED <<dials, recv, eventCh, wire, runCtx, stopCh, stop, policyVars>>

ReplayStop ==
    /\ main.pc = "replay" /\ stopCh # << >>
    /\ stopCh' = Tail(stopCh)
    /\ Teardown("top", "Shutdown", {Head(stopCh)})
    /\ UNCHANGED <<dials, recv, eventCh, errCh, wire, runCtx, stop, policyVars>>

\* NextBatch and Send of one batch: more to come, or the last one.  An empty
\* batch is not sent, and a Send into a broken stream may still succeed.
ReplaySent ==
    /\ main.pc = "send"
    /\ main' \in {[main EXCEPT !.pc = "replay"], [main EXCEPT !.pc = "top", !.st = "Live"]}
    /\ UNCHANGED <<conn, streams, dials, session, recvVars, stopVars, policyVars>>

\* drainAvailable or the tick's flush: everything sent, or nothing to send.
LiveSent ==
    /\ main.pc = "liveSend"
    /\ Goto("live")
    /\ UNCHANGED <<conn, streams, dials, session, recvVars, stopVars, policyVars>>

SendFails ==
    /\ main.pc \in {"send", "liveSend"}
    /\ Teardown("backoff", "Connecting", Nobody)
    /\ UNCHANGED <<dials, recv, eventCh, errCh, wire, runCtx, stopCh, stop, policyVars>>

\* Slip: the push arm of runLive is missing, as in runReplaying.
LiveEventDropsPush ==
    /\ main.pc = "live" /\ eventCh # << >>
    /\ eventCh' = Tail(eventCh)
    /\ Goto("liveSend")
    /\ UNCHANGED <<conn, streams, dials, session, recv, cancelled, errCh, wire, stopVars,
                   policyVars>>

\* An ack may open the window; a push is applied.
LiveEvent ==
    /\ main.pc = "live" /\ eventCh # << >>
    /\ eventCh' = Tail(eventCh)
    /\ IF Head(eventCh).kind = "push"
       THEN installed' = Head(eventCh).version /\ UNCHANGED main
       ELSE Goto("liveSend") /\ UNCHANGED installed
    /\ UNCHANGED <<conn, streams, dials, session, recv, cancelled, errCh, wire, stopVars,
                   bound, swallowed>>

\* Notify or the ticker.
LiveWake ==
    /\ main.pc = "live"
    /\ Goto("liveSend")
    /\ UNCHANGED <<conn, streams, dials, session, recvVars, stopVars, policyVars>>

\* Slip: the arm returns without closing the connection.
LiveCancelledLeaks ==
    /\ main.pc = "live" /\ runCtx
    /\ Enter("returned", "Shutdown")
    /\ UNCHANGED <<conn, streams, dials, session, recvVars, stopVars, policyVars>>

LiveCancelled ==
    /\ main.pc = "live" /\ runCtx
    /\ Teardown("returned", "Shutdown", Nobody)
    /\ UNCHANGED <<dials, recv, eventCh, errCh, wire, runCtx, stopCh, stop, policyVars>>

\* The stop arm: runShutdown drains under its deadline, then the teardown.
LiveStop ==
    /\ main.pc = "live" /\ stopCh # << >>
    /\ stopCh' = Tail(stopCh)
    /\ main' = [main EXCEPT !.pc = "drain", !.serves = {Head(stopCh)}]
    /\ UNCHANGED <<conn, streams, dials, session, recvVars, runCtx, done, stop, policyVars>>

\* Slip: close(sr.done) before the teardown.
DrainedEarly ==
    /\ main.pc = "drain"
    /\ main' = [pc |-> "join", then |-> "top", st |-> "Shutdown", serves |-> Nobody]
    /\ streams' = streams \ {conn}
    /\ cancelled' = cancelled \cup {session}
    /\ done' = done \cup main.serves
    /\ UNCHANGED <<conn, session, dials, recv, eventCh, errCh, wire, runCtx, stopCh, stop, policyVars>>

Drained ==
    /\ main.pc = "drain"
    /\ Teardown("top", "Shutdown", main.serves)
    /\ UNCHANGED <<dials, recv, eventCh, errCh, wire, runCtx, stopCh, stop, policyVars>>

-----------------------------------------------------------------------------
(* The recv goroutine.                                                     *)

\* rs.ctx is done: its own cancelFn, or the context given to Run.
CtxDone(i) == i \in cancelled \/ runCtx

RecvLoop(i) ==
    /\ recv[i] = "loop"
    /\ recv' = [recv EXCEPT ![i] = IF CtxDone(i) THEN "done" ELSE "recv"]
    /\ UNCHANGED <<mainVars, cancelled, eventCh, errCh, wire, stopVars, policyVars>>

\* t.conn.Recv fails, or a frame that fails closed arrives: errCh, unless full.
RecvFails(i) ==
    /\ recv[i] = "recv"
    /\ \/ conn \notin streams /\ UNCHANGED wire
       \/ conn \in streams /\ wire # << >> /\ Head(wire) = Bad /\ wire' = Tail(wire)
    /\ errCh' = TRUE
    /\ recv' = [recv EXCEPT ![i] = "done"]
    /\ UNCHANGED <<mainVars, cancelled, eventCh, stopVars, policyVars>>

\* A frame is read; the goroutine holds it until eventCh takes it.
RecvFrame(i) ==
    /\ recv[i] = "recv" /\ conn \in streams
    /\ wire # << >> /\ Head(wire) # Bad
    /\ recv' = [recv EXCEPT ![i] = "offer"]
    /\ UNCHANGED <<mainVars, cancelled, eventCh, errCh, wire, stopVars, policyVars>>

\* The select around the send on eventCh.
RecvOffer(i) ==
    /\ recv[i] = "offer"
    /\ \/ /\ Len(eventCh) < EventCap
          /\ eventCh' = Append(eventCh, Head(wire))
          /\ recv' = [recv EXCEPT ![i] = "loop"]
       \/ /\ CtxDone(i)
          /\ recv' = [recv EXCEPT ![i] = "done"]
          /\ UNCHANGED eventCh
    /\ wire' = Tail(wire)
    /\ UNCHANGED <<mainVars, cancelled, errCh, stopVars, policyVars>>

-----------------------------------------------------------------------------
(* Stop.                                                                   *)

StopCalled(s) ==
    /\ stop[s] = "idle"
    /\ stop' = [stop EXCEPT ![s] = "check"]
    /\ UNCHANGED <<mainVars, recvVars, runCtx, stopCh, done, policyVars>>

\* The fast path, when Run has already returned.
StopCheck(s) ==
    /\ stop[s] = "check"
    /\ stop' = [stop EXCEPT ![s] = IF RunDone THEN "returned" ELSE "enqueue"]
    /\ UNCHANGED <<mainVars, recvVars, runCtx, stopCh, done, policyVars>>

\* stopCh has room for one request; with runDone closed either arm may win.
StopEnqueue(s) ==
    /\ stop[s] = "enqueue"
    /\ \/ /\ stopCh = << >>
          /\ stopCh' = << s >>
          /\ stop' = [stop EXCEPT ![s] = "wait"]
       \/ /\ RunDone
          /\ stop' = [stop EXCEPT ![s] = "returned"]
          /\ UNCHANGED stopCh
    /\ UNCHANGED <<mainVars, recvVars, runCtx, done, policyVars>>

\* Slip: only sr.done is waited for.
StopWaitOnDone(s) ==
    /\ stop[s] = "wait" /\ s \in done
    /\ stop' = [stop EXCEPT ![s] = "returned"]
    /\ UNCHANGED <<mainVars, recvVars, runCtx, stopCh, done, policyVars>>

StopWait(s) ==
    /\ stop[s] = "wait" /\ (s \in done \/ RunDone)
    /\ stop' = [stop EXCEPT ![s] = "returned"]
    /\ UNCHANGED <<mainVars, recvVars, runCtx, stopCh, done, policyVars>>

-----------------------------------------------------------------------------
(* The environment.                                                        *)

CancelRun ==
    /\ ~runCtx /\ runCtx' = TRUE
    /\ UNCHANGED <<mainVars, recvVars, stopCh, done, stop, policyVars>>

\* The stream breaks.
Break ==
    /\ conn \in streams
    /\ streams' = streams \ {conn}
    /\ UNCHANGED <<main, conn, dials, session, recvVars, stopVars, policyVars>>

\* The server sends an ack, or a frame the client fails closed on.
ServerSends ==
    /\ conn \in streams /\ Len(wire) < MaxWire
    /\ \E f \in {Ack, Bad} : wire' = Append(wire, f)
    /\ UNCHANGED <<mainVars, recv, cancelled, eventCh, errCh, stopVars, policyVars>>

\* A new version is bound to the agent, and pushed if the agent is connected.
ServerBinds ==
    /\ bound < MaxPolicy /\ bound' = bound + 1
    /\ IF conn \in streams THEN wire' = Append(wire, Push(bound')) ELSE UNCHANGED wire
    /\ UNCHANGED <<mainVars, recv, cancelled, eventCh, errCh, stopVars, installed, swallowed>>

-----------------------------------------------------------------------------
Init ==
    /\ main = [pc |-> "top", then |-> "top", st |-> "Connecting", serves |-> Nobody]
    /\ conn = 0 /\ streams = {} /\ dials = 0 /\ session = 0
    /\ recv = [i \in Dials |-> "none"] /\ cancelled = {}
    /\ eventCh = << >> /\ errCh = FALSE /\ wire = << >>
    /\ runCtx = FALSE /\ stopCh = << >> /\ done = {}
    /\ stop = [s \in Stoppers |-> "idle"]
    /\ bound = 0 /\ installed = 0 /\ swallowed = 0

\* Run is in a call that nothing interrupts: Dial, Send and Recv of the
\* SessionAck in runConnecting; NextBatch and Send in the other states and in
\* runShutdown.
InCall == main.pc \in {"connect", "send", "liveSend", "drain"}

\* Such a call ends.
CallEnds ==
    \/ Accept \/ ConnectFails \/ Rejected
    \/ ReplaySent \/ LiveSent \/ SendFails \/ Drained

\* Run goes on from one of its selects, or from the wait for the recv goroutine.
RunStep ==
    \/ Join \/ Cancelled \/ OuterStop \/ BackoffElapsed \/ Dispatch
    \/ ReplayEvent \/ ReplayIdle \/ RecvError \/ ReplayStop
    \/ LiveEvent \/ LiveCancelled \/ LiveStop \/ LiveWake

MainStep == RunStep \/ CallEnds

RecvStep(i) == RecvLoop(i) \/ RecvFails(i) \/ RecvFrame(i) \/ RecvOffer(i)
StopStep(s) == StopCheck(s) \/ StopEnqueue(s) \/ StopWait(s)

Next ==
    \/ MainStep
    \/ \E i \in Dials : RecvStep(i)
    \/ \E s \in Stoppers : StopCalled(s) \/ StopStep(s)
    \/ CancelRun \/ Break \/ ServerSends \/ ServerBinds

Spec == Init /\ [][Next]_vars

\* The scheduler runs every goroutine that can run, select picks at random among
\* the ready arms, so an arm that is ready again and again is taken, and the Recv
\* of a closed connection fails.  Nothing is assumed of CallEnds: the dialer
\* sets no deadline.
FairSpec ==
    /\ Spec
    /\ WF_vars(RunStep)
    /\ SF_vars(ReplayStop) /\ SF_vars(LiveStop)
    /\ \A i \in Dials : WF_vars(RecvStep(i))
    /\ \A s \in Stoppers : WF_vars(StopStep(s))

-----------------------------------------------------------------------------
(* What the goroutines promise each other.                                 *)

Frames  == [kind : {"ack", "push", "bad"}, version : 0..MaxPolicy]
MainPcs == {"top", "connect", "backoff", "replay", "send", "live", "liveSend", "drain",
            "join", "returned"}
States  == {"Connecting", "Replaying", "Live", "Shutdown"}
MainType == [pc : MainPcs, then : MainPcs, st : States, serves : SUBSET Stoppers]

\* Every variable has the type, and every channel the capacity, that the structs
\* Transport and recvSession give it.
TypeOK ==
    /\ main \in MainType
    /\ conn \in 0..MaxDials /\ session \in 0..MaxDials /\ dials \in 0..MaxDials
    /\ streams \subseteq Dials /\ cancelled \subseteq Dials /\ errCh \in BOOLEAN
    /\ recv \in [Dials -> {"none", "loop", "recv", "offer", "done"}]
    /\ eventCh \in Seq(Frames) /\ Len(eventCh) =< EventCap /\ wire \in Seq(Frames)
    /\ runCtx \in BOOLEAN /\ stopCh \in Seq(Stoppers) /\ Len(stopCh) =< 1 /\ done \subseteq Stoppers
    /\ stop \in [Stoppers -> {"idle", "check", "enqueue", "wait", "returned"}]
    /\ bound \in 0..MaxPolicy /\ installed \in 0..MaxPolicy /\ swallowed \in 0..MaxPolicy

\* A running recv goroutine belongs to the connection t.conn points to: t.conn
\* is neither cleared nor replaced under it, so it never reads another stream
\* and there is never a second one.
RecvOwnsConn == \A i \in Dials : recv[i] \notin {"none", "done"} => conn = i /\ session = i

\* No stream is open but the one t.conn holds, and once Run has returned, on
\* whichever path, neither a stream nor a recv goroutine is left behind.
NothingLeaks ==
    /\ streams \subseteq {conn}
    /\ RunDone => conn = 0 /\ \A i \in Dials : recv[i] \in {"none", "done"}

\* When Stop returns the connection is gone and Run dials no other one.
StopQuiesces ==
    (\E s \in Stoppers : stop[s] = "returned") =>
        /\ conn = 0 /\ streams = {}
        /\ RunDone \/ (main.pc = "top" /\ main.st = "Shutdown")

\* With nothing in transit and its recv goroutine running, a Live client has
\* the policy the server bound last, unless that push arrived while it was
\* replaying.
PolicyCurrent ==
    /\ main.pc = "live" /\ conn \in streams /\ recv[session] # "done"
    /\ wire = << >> /\ eventCh = << >>
    => installed = bound \/ swallowed = bound

\* Every call of Stop returns, whatever Run is doing and however it ends, and
\* also when several callers share the one place in stopCh; unless Run stays for
\* ever in a call that Stop cannot interrupt.
StopReturns == \A s \in Stoppers : (stop[s] = "check") ~> (stop[s] = "returned" \/ []InCall)
=============================================================================
