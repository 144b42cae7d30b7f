----------------------------- MODULE Approvals -----------------------------
(***************************************************************************)
(* The approvals manager of the CAW daemon (internal/approvals/manager.go) *)
(* and the goroutines that wait in it: execInSessionCore, which checks a   *)
(* command with the policy engine and then with the package checker, each  *)
(* of which may leave the decision to an operator, and the network, file   *)
(* and skill monitors, which ask once.  execInSessionCore holds its        *)
(* session's execMu all the way, the waits for the operator included, so   *)
(* the other calls of the session queue behind it; the monitors work for   *)
(* the command that runs and take no lock. A caller of RequestApproval     *)
(* takes one of its session's slots, enters its request in the pending map *)
(* and then waits for an answer, for the end of its context or for the     *)
(* timer. Operators answer through Resolve: from the HTTP API, from a      *)
(* WebAuthn assertion or from the goroutine that prompts on the terminal.  *)
(*                                                                         *)
(* m.mu guards the pending map and m.rateMu the slot counts, so taking the *)
(* slot, entering the request, withdrawing it and giving the slot back are *)
(* four steps between which the other goroutines run.                      *)
(***************************************************************************)
EXTENDS Integers, FiniteSets

CONSTANTS
    Cmds,           \* the calls that are checked
    Monitors,       \* those of them that a monitor makes, without execMu
    Ids,            \* session ids, the keys of sessionCounts
    SessionOf,      \* the session of each call
    MaxPerSession,  \* m.maxPerSession, 10 in the code
    None

ASSUME CmdsAssumption == IsFiniteSet(Cmds)
ASSUME MonitorsAssumption == Monitors \subseteq Cmds
ASSUME SessionOfAssumption == SessionOf \in [Cmds -> Ids]
ASSUME MaxPerSessionAssumption == MaxPerSession \in Nat \ {0}
ASSUME NoneAssumption == None \notin BOOLEAN

(* A call asks at most once for its command and once for its packages,     *)
(* each time under a fresh id.                                             *)
Kinds == {"command", "package"}
Requests == Cmds \X Kinds

VARIABLES
    pending,    \* keys of m.pending
    answer,     \* p.ch, a channel of capacity one, per request
    counts,     \* m.sessionCounts; an absent key is 0
    req,        \* where the goroutine of each request stands
    approved,   \* res.Approved of the requests that are about to return
    call,       \* where each call stands
    needed,     \* history: requests that a check asked for
    granted     \* history: requests that a Resolve(id, true) took out of the map

managerVars == <<pending, answer, counts, req, approved, granted>>
vars == <<managerVars, call, needed>>

(* A request moves idle, counted, waiting, (withdraw,) return, done.       *)
InFlight == {"counted", "waiting", "withdraw", "return"}

TypeOK ==
    /\ pending \subseteq Requests
    /\ answer \in [Requests -> BOOLEAN \cup {None}]
    /\ counts \in [Ids -> 0..MaxPerSession]
    /\ req \in [Requests -> InFlight \cup {"idle", "done"}]
    /\ approved \subseteq Requests
    /\ call \in [Cmds -> {"queued", "check", "ask command", "package", "ask package",
                         "start", "running", "done"}]
    /\ needed \subseteq Requests
    /\ granted \subseteq Requests

(* A call of execInSessionCore that is not refused before the lock (no     *)
(* such session, not its owner, an empty command, a silent dock) queues    *)
(* for execMu.                                                             *)
Init ==
    /\ pending = {}
    /\ answer = [r \in Requests |-> None]
    /\ counts = [s \in Ids |-> 0]
    /\ req = [r \in Requests |-> "idle"]
    /\ approved = {}
    /\ call = [c \in Cmds |-> IF c \in Monitors THEN "check" ELSE "queued"]
    /\ needed = {}
    /\ granted = {}

(* The session whose slot a request takes.                                 *)
Sid(r) == SessionOf[r[1]]

Step(r, from, to) == req[r] = from /\ req' = [req EXCEPT ![r] = to]

\* Slip: count > m.maxPerSession refuses.
TakeSlotOneMore(r) ==
    /\ Step(r, "idle", "counted")
    /\ counts[Sid(r)] <= MaxPerSession
    /\ counts' = [counts EXCEPT ![Sid(r)] = @ + 1]
    /\ UNCHANGED <<pending, answer, approved, granted>>

(* The rate check under rateMu, and the slot it takes.                     *)
TakeSlot(r) ==
    /\ Step(r, "idle", "counted")
    /\ counts[Sid(r)] < MaxPerSession
    /\ counts' = [counts EXCEPT ![Sid(r)] = @ + 1]
    /\ UNCHANGED <<pending, answer, approved, granted>>

(* Every slot of the session is taken: an error and a denial, at once.     *)
RefuseSlot(r) ==
    /\ Step(r, "idle", "done")
    /\ counts[Sid(r)] >= MaxPerSession
    /\ UNCHANGED <<pending, answer, counts, approved, granted>>

(* m.pending[req.ID] = p, with a fresh channel.                            *)
Register(r) ==
    /\ Step(r, "counted", "waiting")
    /\ pending' = pending \cup {r}
    /\ UNCHANGED <<answer, counts, approved, granted>>

(* Manager.Resolve: whoever deletes the entry is the one whose answer is   *)
(* sent; a second call finds nothing and returns false.  The channel has   *)
(* room for that one answer, so deleting and sending are one step.         *)
Settle(r, ok) ==
    /\ pending' = pending \ {r}
    /\ answer' = IF r \in pending THEN [answer EXCEPT ![r] = ok] ELSE answer
    /\ granted' = IF r \in pending /\ ok THEN granted \cup {r} ELSE granted

(* An operator answers: resolveApproval, ResolveWithWebAuthn or the prompt *)
(* goroutine, which may come late, when the request is not pending.        *)
Resolve(r, ok) ==
    /\ req[r] \notin {"idle", "counted"}
    /\ Settle(r, ok)
    /\ UNCHANGED <<counts, req, approved, call, needed>>

\* Slip: an answer is taken for a consent.
AnsweredIsConsent(r) ==
    /\ Step(r, "waiting", "return")
    /\ answer[r] # None
    /\ answer' = [answer EXCEPT ![r] = None]
    /\ approved' = approved \cup {r}
    /\ UNCHANGED <<pending, counts, granted>>

(* case res := <-p.ch                                                      *)
Answered(r) ==
    /\ Step(r, "waiting", "return")
    /\ answer[r] # None
    /\ answer' = [answer EXCEPT ![r] = None]
    /\ approved' = IF answer[r] = TRUE THEN approved \cup {r} ELSE approved
    /\ UNCHANGED <<pending, counts, granted>>

\* Slip: the select has no arm but the answer's.
StopWaitingNoTimer(r) == FALSE

(* case <-timer.C or case <-ctx.Done(), each at any time: Go may pick it   *)
(* although an answer is already in the channel.                           *)
StopWaiting(r) ==
    /\ Step(r, "waiting", "withdraw")
    /\ UNCHANGED <<pending, answer, counts, approved, granted>>

\* Slip: the entry is left in the map.
WithdrawNoDelete(r) ==
    /\ Step(r, "withdraw", "return")
    /\ UNCHANGED <<pending, answer, counts, approved, granted>>

(* m.Resolve(req.ID, false, ...) by the requester itself.                  *)
Withdraw(r) ==
    /\ Step(r, "withdraw", "return")
    /\ Settle(r, FALSE)
    /\ UNCHANGED <<counts, approved>>

\* Slip: the slot is given back on the approved path only.
ReturnKeepsDenied(r) ==
    /\ Step(r, "return", "done")
    /\ counts' = IF r \in approved THEN [counts EXCEPT ![Sid(r)] = @ - 1] ELSE counts
    /\ answer' = [answer EXCEPT ![r] = None]
    /\ approved' = approved \ {r}
    /\ UNCHANGED <<pending, granted>>

(* The deferred decrementRate, then the return to the caller; the channel, *)
(* with an answer that nobody took, is dropped.                            *)
Return(r) ==
    /\ Step(r, "return", "done")
    /\ counts' = [counts EXCEPT ![Sid(r)] = @ - 1]
    /\ answer' = [answer EXCEPT ![r] = None]
    /\ approved' = approved \ {r}
    /\ UNCHANGED <<pending, granted>>

----------------------------------------------------------------------------
(* The calls *)

Goto(c, pc) == call' = [call EXCEPT ![c] = pc]

(* The calls that contend for the execMu of c's session.                   *)
Rivals(c) == {d \in Cmds \ Monitors : d # c /\ SessionOf[d] = SessionOf[c]}

(* s.LockExec(); the deferred unlock is part of each way to "done".        *)
LockExec(c) ==
    /\ call[c] = "queued"
    /\ \A d \in Rivals(c) : call[d] \in {"queued", "done"}
    /\ Goto(c, "check")
    /\ UNCHANGED <<managerVars, needed>>

(* A check: of the command by the policy engine, then of the packages it   *)
(* installs; a monitor has only the first.  It lets the call through,      *)
(* denies it or leaves it to an approval.                                  *)
Check(c, kind, next) ==
    /\ \/ (Goto(c, next) \/ Goto(c, "done")) /\ UNCHANGED needed
       \/ /\ Goto(c, IF kind = "command" THEN "ask command" ELSE "ask package")
          /\ needed' = needed \cup {<<c, kind>>}
    /\ UNCHANGED managerVars

AfterCommand(c) == IF c \in Monitors THEN "start" ELSE "package"

CheckCommand(c) == call[c] = "check" /\ Check(c, "command", AfterCommand(c))
CheckPackage(c) == call[c] = "package" /\ Check(c, "package", "start")

(* RequestApproval: the rate check, the wait and the way out of it; then   *)
(* err != nil || !res.Approved denies.                                     *)
RequestApproval(c, kind, next) ==
    LET r == <<c, kind>> IN
    /\ \/ /\ \/ TakeSlot(r) \/ Register(r) \/ Answered(r) \/ StopWaiting(r) \/ Withdraw(r)
          /\ UNCHANGED call
       \/ RefuseSlot(r) /\ Goto(c, "done")
       \/ Return(r) /\ Goto(c, IF r \in approved THEN next ELSE "done")
    /\ UNCHANGED needed

AskCommand(c) == call[c] = "ask command" /\ RequestApproval(c, "command", AfterCommand(c))
AskPackage(c) == call[c] = "ask package" /\ RequestApproval(c, "package", "start")

(* runCommandWithResources: a context that has ended, a builtin or a       *)
(* failing start leaves no process.  (For a monitor, the access that it    *)
(* lets through.)                                                          *)
StartProcess(c) ==
    /\ call[c] = "start"
    /\ Goto(c, "done") \/ Goto(c, "running")
    /\ UNCHANGED <<managerVars, needed>>

(* cmd.Wait returns.  It waits for every holder of the output pipes, with  *)
(* no WaitDelay, and the process group is killed only after it, so neither *)
(* the command timeout nor the end of the context makes it return.         *)
Finish(c) ==
    /\ call[c] = "running"
    /\ Goto(c, "done")
    /\ UNCHANGED <<managerVars, needed>>

(* What the goroutine of a call does by itself.                            *)
Advance(c) ==
    \/ LockExec(c) \/ CheckCommand(c) \/ AskCommand(c) \/ CheckPackage(c) \/ AskPackage(c)
    \/ StartProcess(c)

Exec(c) == Advance(c) \/ Finish(c)

Next ==
    \/ \E c \in Cmds : Exec(c)
    \/ \E r \in Requests, ok \in BOOLEAN : Resolve(r, ok)

Spec == Init /\ [][Next]_vars

(* The goroutine of a call runs and its timer fires.  Operators need never *)
(* answer, and a command that was started need never end.                  *)
FairSpec == Spec /\ \A c \in Cmds : WF_vars(Advance(c))

----------------------------------------------------------------------------
(* Properties *)

(***************************************************************************)
(* The slot count of a session is the number of its requests that are      *)
(* inside RequestApproval, whichever way they leave it: a slot that is not *)
(* given back would in time refuse every approval of the session.          *)
(***************************************************************************)
RateExact ==
    \A s \in Ids : counts[s] = Cardinality({r \in Requests : req[r] \in InFlight /\ Sid(r) = s})

(***************************************************************************)
(* An entry of the pending map belongs to a goroutine that is still in the *)
(* select, and has no answer yet: nothing is listed to the operators whose *)
(* request has returned, and nobody waits whose entry was taken unanswered.*)
(***************************************************************************)
PendingLive ==
    /\ \A r \in pending : req[r] \in {"waiting", "withdraw"} /\ answer[r] = None
    /\ \A r \in Requests : req[r] = "waiting" => r \in pending \/ answer[r] # None

(***************************************************************************)
(* A process runs only if every approval that a check of its command asked *)
(* for was given by an operator, to that very request, while it was        *)
(* pending: not by an answer to another request, nor by one that came      *)
(* after the timeout or the end of the context.                            *)
(***************************************************************************)
RunsOnlyApproved == \A r \in needed : call[r[1]] = "running" => r \in granted

(***************************************************************************)
(* Every call returns, whether or not an operator ever answers, unless its *)
(* own command never ends or it queues on execMu behind one that never     *)
(* ends: neither the approvals manager nor the queue wedges a session.     *)
(***************************************************************************)
CallReturns ==
    \A c \in Cmds :
        \/ <>(call[c] = "done")
        \/ \E d \in {c} \cup (IF c \in Monitors THEN {} ELSE Rivals(c)) : <>[](call[d] = "running")
============================================================================
