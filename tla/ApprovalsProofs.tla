-------------------------- MODULE ApprovalsProofs --------------------------
(***************************************************************************)
(* Approvals for any number of calls, sessions and slots: the counts are   *)
(* exact, the pending map lists live requests only, and nothing runs that  *)
(* an operator did not approve.                                            *)
(***************************************************************************)
EXTENDS Approvals, FiniteSetTheorems, TLAPS

Places == InFlight \cup {"idle", "done"}

-----------------------------------------------------------------------------
(* The inductive invariant.                                                *)

\* A consent on its way to the caller, in the channel or out of it, was given
\* by an operator; a channel is empty until its request is in the map.
AnswersGranted ==
    /\ approved \subseteq granted
    /\ \A r \in Requests : answer[r] = TRUE => r \in granted
    /\ \A r \in Requests : req[r] \in {"idle", "counted"} => answer[r] = None

\* A call that is past a check either did not need its approval or has it.
ChecksPassed ==
    \A c \in Cmds :
        /\ call[c] \in {"queued", "check"} => <<c, "command">> \notin needed
        /\ call[c] \in {"queued", "check", "ask command", "package"} => <<c, "package">> \notin needed
        /\ call[c] \in {"package", "ask package", "start", "running"} =>
              (<<c, "command">> \in needed => <<c, "command">> \in granted)
        /\ call[c] \in {"start", "running"} =>
              (<<c, "package">> \in needed => <<c, "package">> \in granted)

IInv == TypeOK /\ RateExact /\ PendingLive /\ AnswersGranted /\ ChecksPassed

-----------------------------------------------------------------------------
(* Slots.                                                                  *)

\* The requests of session s that hold a slot when the goroutines stand at q.
Holders(q, s) == {r \in Requests : q[r] \in InFlight /\ Sid(r) = s}

\* There are finitely many requests, so the holders can be counted.
LEMMA HoldersFinite ==
  ASSUME NEW q, NEW s PROVE IsFiniteSet(Holders(q, s))
<1>1. IsFiniteSet(Kinds)
  <2>1. IsFiniteSet({} \cup {"command"})
    BY FS_EmptySet, FS_AddElement
  <2>2. IsFiniteSet(({} \cup {"command"}) \cup {"package"})
    BY <2>1, FS_AddElement
  <2>3. Kinds = ({} \cup {"command"}) \cup {"package"}
    BY DEF Kinds
  <2> QED BY <2>2, <2>3
<1>2. IsFiniteSet(Requests)
  BY <1>1, CmdsAssumption, FS_Product DEF Requests
<1>3. Holders(q, s) \in SUBSET Requests
  BY DEF Holders
<1> QED BY <1>2, <1>3, FS_Subset

\* RequestApproval is entered: its session has one holder more.
LEMMA HolderComes ==
  ASSUME NEW q \in [Requests -> Places], NEW r \in Requests, NEW pc \in InFlight,
         q[r] \notin InFlight, NEW s
  PROVE  Cardinality(Holders([q EXCEPT ![r] = pc], s)) =
            IF s = Sid(r) THEN Cardinality(Holders(q, s)) + 1 ELSE Cardinality(Holders(q, s))
<1> DEFINE p == [q EXCEPT ![r] = pc]
<1>1. CASE s = Sid(r)
  <2>1. Holders(p, s) = Holders(q, s) \cup {r} /\ r \notin Holders(q, s)
    BY <1>1 DEF Holders
  <2> QED BY <1>1, <2>1, HoldersFinite, FS_AddElement
<1>2. CASE s # Sid(r)
  <2>1. Holders(p, s) = Holders(q, s)
    BY <1>2 DEF Holders
  <2> QED BY <1>2, <2>1
<1> QED BY <1>1, <1>2

\* RequestApproval is left: its session has one holder less, and had one.
LEMMA HolderGoes ==
  ASSUME NEW q, NEW p, NEW r \in Requests, \A x \in Requests : x # r => p[x] = q[x],
         q[r] \in InFlight, p[r] \notin InFlight, NEW s
  PROVE  /\ s # Sid(r) => Holders(p, s) = Holders(q, s)
         /\ s = Sid(r) => /\ Cardinality(Holders(q, s)) \in Nat \ {0}
                          /\ Cardinality(Holders(p, s)) = Cardinality(Holders(q, s)) - 1
<1>1. CASE s = Sid(r)
  <2>1. Holders(p, s) = Holders(q, s) \ {r} /\ r \in Holders(q, s)
    BY <1>1 DEF Holders
  <2>2. Cardinality(Holders(p, s)) = Cardinality(Holders(q, s)) - 1
    BY <2>1, HoldersFinite, FS_RemoveElement
  <2>3. Cardinality(Holders(q, s)) \in Nat
    BY HoldersFinite, FS_CardinalityType
  <2>4. Cardinality(Holders(q, s)) # 0
    BY <2>1, HoldersFinite, FS_EmptySet
  <2> QED BY <1>1, <2>2, <2>3, <2>4
<1>2. CASE s # Sid(r)
  <2>1. Holders(p, s) = Holders(q, s)
    BY <1>2 DEF Holders
  <2> QED BY <1>2, <2>1
<1> QED BY <1>1, <1>2

\* A step inside RequestApproval, or outside of it, changes no count.
LEMMA HolderStays ==
  ASSUME NEW q \in [Requests -> Places], NEW r \in Requests, NEW pc \in Places,
         q[r] \in InFlight <=> pc \in InFlight, NEW s
  PROVE  Holders([q EXCEPT ![r] = pc], s) = Holders(q, s)
BY DEF Holders

LEMMA RateByHolders == RateExact <=> \A s \in Ids : counts[s] = Cardinality(Holders(req, s))
BY DEF RateExact, Holders

-----------------------------------------------------------------------------
\* The initial state satisfies the invariant.
LEMMA InitInv == Init => IInv
<1> SUFFICES ASSUME Init PROVE IInv
  OBVIOUS
<1>1. TypeOK
  BY MaxPerSessionAssumption DEF Init, TypeOK
<1>2. RateExact
  <2>1. \A s \in Ids : Holders(req, s) = {}
    BY DEF Init, Holders, InFlight
  <2>2. \A s \in Ids : counts[s] = 0
    BY DEF Init
  <2> QED BY <2>1, <2>2, FS_EmptySet, RateByHolders
<1>3. PendingLive
  BY DEF Init, PendingLive
<1>4. AnswersGranted
  <2>1. approved \subseteq granted /\ \A r \in Requests : answer[r] = None
    BY DEF Init
  <2>2. None # TRUE
    BY NoneAssumption
  <2> QED BY <2>1, <2>2, Zenon DEF AnswersGranted
<1>5. ChecksPassed
  BY DEF Init, ChecksPassed
<1> QED BY <1>1, <1>2, <1>3, <1>4, <1>5 DEF IInv

-----------------------------------------------------------------------------
(* The manager.  Its variables are moved by the goroutine of one request   *)
(* or by an operator.                                                      *)

Own(r) ==
    \/ TakeSlot(r) \/ RefuseSlot(r) \/ Register(r) \/ Answered(r)
    \/ StopWaiting(r) \/ Withdraw(r) \/ Return(r)

LEMMA ManagerSteps ==
  ASSUME Next
  PROVE  \/ UNCHANGED managerVars
         \/ \E r \in Requests : Own(r)
         \/ \E r \in Requests, ok \in BOOLEAN : Resolve(r, ok)
<1>1. ASSUME NEW c \in Cmds, Exec(c)
      PROVE  UNCHANGED managerVars \/ \E r \in Requests : Own(r)
  <2>1. <<c, "command">> \in Requests /\ <<c, "package">> \in Requests
    BY DEF Requests, Kinds
  <2>2. CASE CheckCommand(c) \/ CheckPackage(c)
    BY <2>2, Zenon DEF CheckCommand, CheckPackage, Check
  <2>3. CASE AskCommand(c)
    <3>1. Own(<<c, "command">>)
      BY <2>3, Zenon DEF AskCommand, RequestApproval, Own
    <3> QED BY <2>1, <3>1, Zenon
  <2>4. CASE AskPackage(c)
    <3>1. Own(<<c, "package">>)
      BY <2>4, Zenon DEF AskPackage, RequestApproval, Own
    <3> QED BY <2>1, <3>1, Zenon
  <2>5. CASE LockExec(c) \/ StartProcess(c) \/ Finish(c)
    BY <2>5, Zenon DEF LockExec, StartProcess, Finish
  <2> QED BY <1>1, <2>2, <2>3, <2>4, <2>5, Zenon DEF Exec, Advance
<1> QED BY <1>1, Zenon DEF Next

\* The slot counts stay exact and within the limit.
LEMMA OwnRate ==
  ASSUME IInv, NEW r \in Requests, Own(r)
  PROVE  RateExact' /\ counts' \in [Ids -> 0..MaxPerSession] /\ req' \in [Requests -> Places]
<1> USE DEF Step
<1>1. /\ req \in [Requests -> Places] /\ counts \in [Ids -> 0..MaxPerSession]
      /\ \A s \in Ids : counts[s] = Cardinality(Holders(req, s))
  BY RateByHolders DEF IInv, TypeOK, Places
<1>2. Sid(r) \in Ids
  BY SessionOfAssumption DEF Sid, Requests
<1>3. SUFFICES /\ counts' \in [Ids -> 0..MaxPerSession] /\ req' \in [Requests -> Places]
               /\ \A s \in Ids : counts'[s] = Cardinality(Holders(req', s))
  BY DEF RateExact, Holders
<1>4. CASE TakeSlot(r)
  <2>1. req' = [req EXCEPT ![r] = "counted"] /\ req[r] \notin InFlight /\ "counted" \in InFlight
    BY <1>4 DEF TakeSlot, InFlight
  <2>2. counts' = [counts EXCEPT ![Sid(r)] = @ + 1] /\ counts[Sid(r)] < MaxPerSession
    BY <1>4 DEF TakeSlot
  <2>3. counts' \in [Ids -> 0..MaxPerSession]
    BY <1>1, <1>2, <2>2, MaxPerSessionAssumption
  <2>4. req' \in [Requests -> Places]
    BY <1>1, <2>1 DEF Places
  <2>5. ASSUME NEW s \in Ids PROVE counts'[s] = Cardinality(Holders(req', s))
    <3>1. Cardinality(Holders(req', s)) =
             IF s = Sid(r) THEN Cardinality(Holders(req, s)) + 1 ELSE Cardinality(Holders(req, s))
      BY <1>1, <2>1, HolderComes
    <3> QED BY <1>1, <1>2, <2>2, <3>1
  <2> QED BY <2>3, <2>4, <2>5
<1>5. CASE Return(r)
  <2>0. req' = [req EXCEPT ![r] = "done"] /\ req[r] = "return"
    BY <1>5 DEF Return
  <2>1. /\ req[r] \in InFlight /\ req'[r] \notin InFlight
        /\ \A x \in Requests : x # r => req'[x] = req[x]
    BY <1>1, <2>0 DEF InFlight
  <2>2. counts' = [counts EXCEPT ![Sid(r)] = @ - 1]
    BY <1>5 DEF Return
  <2>3. /\ Cardinality(Holders(req', Sid(r))) = Cardinality(Holders(req, Sid(r))) - 1
        /\ Cardinality(Holders(req, Sid(r))) \in Nat \ {0}
    BY <2>1, HolderGoes
  <2>4. counts' \in [Ids -> 0..MaxPerSession]
    <3>1. counts[Sid(r)] \in 1..MaxPerSession
      BY <1>1, <1>2, <2>3, MaxPerSessionAssumption
    <3> QED BY <1>1, <1>2, <2>2, <3>1, MaxPerSessionAssumption
  <2>5. req' \in [Requests -> Places]
    BY <1>1, <2>0 DEF Places
  <2>6. ASSUME NEW s \in Ids PROVE counts'[s] = Cardinality(Holders(req', s))
    <3>1. CASE s # Sid(r)
      <4>1. Holders(req', s) = Holders(req, s)
        BY <2>1, <3>1, HolderGoes
      <4> QED BY <1>1, <1>2, <2>2, <3>1, <4>1
    <3>2. CASE s = Sid(r)
      BY <1>1, <1>2, <2>2, <2>3, <3>2
    <3> QED BY <3>1, <3>2
  <2> QED BY <2>4, <2>5, <2>6
<1>6. CASE RefuseSlot(r) \/ Register(r) \/ Answered(r) \/ StopWaiting(r) \/ Withdraw(r)
  <2>1. PICK pc \in Places : /\ req' = [req EXCEPT ![r] = pc]
                             /\ req[r] \in InFlight <=> pc \in InFlight
    BY <1>6 DEF RefuseSlot, Register, Answered, StopWaiting, Withdraw, Places, InFlight
  <2>2. counts' = counts
    BY <1>6 DEF RefuseSlot, Register, Answered, StopWaiting, Withdraw
  <2>3. req' \in [Requests -> Places]
    BY <1>1, <2>1
  <2>4. \A s \in Ids : Holders(req', s) = Holders(req, s)
    BY <1>1, <2>1, HolderStays
  <2> QED BY <1>1, <2>2, <2>3, <2>4
<1> QED BY <1>4, <1>5, <1>6 DEF Own

\* Delivering an answer keeps the map live and leaves a trace of a consent.
\* The entry is gone, and its channel, empty until then, holds the answer.
LEMMA SettleStep ==
  ASSUME TypeOK, AnswersGranted, NEW r \in Requests, NEW ok \in BOOLEAN, Settle(r, ok)
  PROVE  /\ pending' = pending \ {r}
         /\ answer' \in [Requests -> BOOLEAN \cup {None}]
         /\ granted' \subseteq Requests /\ granted \subseteq granted'
         /\ \A q \in Requests : answer'[q] = TRUE => q \in granted'
         /\ \A q \in Requests : q # r => answer'[q] = answer[q]
         /\ r \in pending => answer'[r] # None
         /\ r \notin pending => answer'[r] = answer[r]
<1>1. CASE r \notin pending
  <2>1. answer' = answer /\ granted' = granted /\ pending' = pending \ {r}
    BY <1>1, Zenon DEF Settle
  <2> QED BY <1>1, <2>1, Zenon DEF TypeOK, AnswersGranted
<1>2. CASE r \in pending
  <2>1. answer' = [answer EXCEPT ![r] = ok] /\ pending' = pending \ {r}
    BY <1>2, Zenon DEF Settle
  <2>2. granted' = IF ok THEN granted \cup {r} ELSE granted
    BY <1>2, Zenon DEF Settle
  <2>3. answer \in [Requests -> BOOLEAN \cup {None}]
    BY Zenon DEF TypeOK
  <2>4. answer'[r] = ok /\ \A q \in Requests : q # r => answer'[q] = answer[q]
    BY <2>1, <2>3, Zenon
  <2>5. answer' \in [Requests -> BOOLEAN \cup {None}]
    BY <2>1, <2>3, Zenon
  <2>6. granted' \subseteq Requests /\ granted \subseteq granted' /\ (ok = TRUE => r \in granted')
    BY <2>2, Zenon DEF TypeOK
  <2>7. \A q \in Requests : answer'[q] = TRUE => q \in granted'
    BY <2>4, <2>6, Zenon DEF AnswersGranted
  <2>8. ok # None
    BY NoneAssumption
  <2> QED BY <1>2, <2>1, <2>4, <2>5, <2>6, <2>7, <2>8, Zenon
<1> QED BY <1>1, <1>2

\* The map lists live requests, and what an operator granted is what is used.
LEMMA OwnAnswers ==
  ASSUME IInv, NEW r \in Requests, Own(r)
  PROVE  /\ pending' \subseteq Requests /\ answer' \in [Requests -> BOOLEAN \cup {None}]
         /\ approved' \subseteq Requests /\ granted' \subseteq Requests
         /\ granted \subseteq granted'
         /\ PendingLive' /\ AnswersGranted'
<1> USE DEF Step
<1>1. TypeOK /\ PendingLive /\ AnswersGranted
  BY Zenon DEF IInv
<1>2. req \in [Requests -> Places] /\ answer \in [Requests -> BOOLEAN \cup {None}]
  BY <1>1, Zenon DEF TypeOK, Places
<1>3. CASE TakeSlot(r) \/ RefuseSlot(r)
  <2>1. /\ UNCHANGED <<pending, answer, approved, granted>>
        /\ req[r] = "idle" /\ \E pc \in {"counted", "done"} : req' = [req EXCEPT ![r] = pc]
    BY <1>3, Zenon DEF TakeSlot, RefuseSlot
  <2>2. PendingLive' /\ AnswersGranted'
    BY <1>1, <1>2, <2>1 DEF PendingLive, AnswersGranted, TypeOK
  <2> QED BY <1>1, <2>1, <2>2, Zenon DEF TypeOK
<1>4. CASE Register(r)
  <2>1. /\ UNCHANGED <<answer, approved, granted>> /\ pending' = pending \cup {r}
        /\ req[r] = "counted" /\ req' = [req EXCEPT ![r] = "waiting"]
    BY <1>4, Zenon DEF Register
  <2>2. PendingLive' /\ AnswersGranted'
    BY <1>1, <1>2, <2>1 DEF PendingLive, AnswersGranted, TypeOK
  <2> QED BY <1>1, <2>1, <2>2, Zenon DEF TypeOK
<1>5. CASE Answered(r)
  <2>1. /\ UNCHANGED <<pending, granted>> /\ answer[r] # None
        /\ answer' = [answer EXCEPT ![r] = None]
        /\ approved' = IF answer[r] = TRUE THEN approved \cup {r} ELSE approved
        /\ req[r] = "waiting" /\ req' = [req EXCEPT ![r] = "return"]
    BY <1>5, Zenon DEF Answered
  <2>2. answer' \in [Requests -> BOOLEAN \cup {None}]
    BY <1>2, <2>1, Zenon
  <2>3. r \notin pending
    BY <1>1, <2>1, Zenon DEF PendingLive
  <2>4. PendingLive'
    BY <1>1, <1>2, <2>1, <2>3 DEF PendingLive, TypeOK
  <2>5. approved' \subseteq granted' /\ approved' \subseteq Requests
    BY <1>1, <2>1, Zenon DEF AnswersGranted, TypeOK
  <2>6. answer'[r] = None /\ \A q \in Requests : q # r => answer'[q] = answer[q]
    BY <1>2, <2>1, Zenon
  <2>7. \A q \in Requests : answer'[q] = TRUE => q \in granted'
    BY <1>1, <2>1, <2>6, NoneAssumption, Zenon DEF AnswersGranted
  <2>8. \A q \in Requests : req'[q] \in {"idle", "counted"} => answer'[q] = None
    BY <1>1, <1>2, <2>1, <2>6 DEF AnswersGranted
  <2> QED BY <1>1, <2>1, <2>2, <2>4, <2>5, <2>7, <2>8, Zenon DEF AnswersGranted, TypeOK
<1>6. CASE StopWaiting(r)
  <2>1. /\ UNCHANGED <<pending, answer, approved, granted>>
        /\ req[r] = "waiting" /\ req' = [req EXCEPT ![r] = "withdraw"]
    BY <1>6, Zenon DEF StopWaiting
  <2>2. PendingLive' /\ AnswersGranted'
    BY <1>1, <1>2, <2>1 DEF PendingLive, AnswersGranted, TypeOK
  <2> QED BY <1>1, <2>1, <2>2, Zenon DEF TypeOK
<1>7. CASE Withdraw(r)
  <2>1. /\ Settle(r, FALSE) /\ approved' = approved
        /\ req[r] = "withdraw" /\ req' = [req EXCEPT ![r] = "return"]
    BY <1>7, Zenon DEF Withdraw
  <2>2. /\ pending' = pending \ {r} /\ answer' \in [Requests -> BOOLEAN \cup {None}]
        /\ granted' \subseteq Requests /\ granted \subseteq granted'
        /\ \A q \in Requests : answer'[q] = TRUE => q \in granted'
        /\ \A q \in Requests : q # r => answer'[q] = answer[q]
    BY <1>1, <2>1, SettleStep, Zenon
  <2>3. PendingLive'
    BY <1>1, <1>2, <2>1, <2>2 DEF PendingLive, TypeOK
  <2>4. \A q \in Requests : req'[q] \in {"idle", "counted"} => answer'[q] = None
    BY <1>1, <1>2, <2>1, <2>2 DEF AnswersGranted
  <2> QED BY <1>1, <2>1, <2>2, <2>3, <2>4, Zenon DEF AnswersGranted, TypeOK
<1>8. CASE Return(r)
  <2>1. /\ UNCHANGED <<pending, granted>> /\ approved' = approved \ {r}
        /\ answer' = [answer EXCEPT ![r] = None]
        /\ req[r] = "return" /\ req' = [req EXCEPT ![r] = "done"]
    BY <1>8, Zenon DEF Return
  <2>2. answer' \in [Requests -> BOOLEAN \cup {None}]
    BY <1>2, <2>1, Zenon
  <2>3. answer'[r] = None /\ \A q \in Requests : q # r => answer'[q] = answer[q]
    BY <1>2, <2>1, Zenon
  <2>4. PendingLive'
    BY <1>1, <1>2, <2>1, <2>3 DEF PendingLive, TypeOK
  <2>5. approved' \subseteq granted' /\ approved' \subseteq Requests
    BY <1>1, <2>1, Zenon DEF AnswersGranted, TypeOK
  <2>6. \A q \in Requests : answer'[q] = TRUE => q \in granted'
    BY <1>1, <2>1, <2>3, NoneAssumption, Zenon DEF AnswersGranted
  <2>7. \A q \in Requests : req'[q] \in {"idle", "counted"} => answer'[q] = None
    BY <1>1, <1>2, <2>1, <2>3 DEF AnswersGranted
  <2> QED BY <1>1, <2>1, <2>2, <2>4, <2>5, <2>6, <2>7, Zenon DEF AnswersGranted, TypeOK
<1> QED BY <1>3, <1>4, <1>5, <1>6, <1>7, <1>8, Zenon DEF Own

\* So does an operator's answer.
LEMMA ResolveAnswers ==
  ASSUME IInv, NEW r \in Requests, NEW ok \in BOOLEAN, Resolve(r, ok)
  PROVE  /\ pending' \subseteq Requests /\ answer' \in [Requests -> BOOLEAN \cup {None}]
         /\ granted' \subseteq Requests /\ granted \subseteq granted'
         /\ PendingLive' /\ AnswersGranted'
<1>1. TypeOK /\ PendingLive /\ AnswersGranted
  BY Zenon DEF IInv
<1>2. /\ Settle(r, ok) /\ UNCHANGED <<counts, req, approved>>
      /\ req[r] \notin {"idle", "counted"}
  BY Zenon DEF Resolve
<1>3. /\ pending' = pending \ {r} /\ answer' \in [Requests -> BOOLEAN \cup {None}]
      /\ granted' \subseteq Requests /\ granted \subseteq granted'
      /\ \A q \in Requests : answer'[q] = TRUE => q \in granted'
      /\ \A q \in Requests : q # r => answer'[q] = answer[q]
      /\ r \in pending => answer'[r] # None
      /\ r \notin pending => answer'[r] = answer[r]
  BY <1>1, <1>2, SettleStep, Zenon
<1>4. PendingLive'
  BY <1>1, <1>2, <1>3 DEF PendingLive, TypeOK
<1>5. AnswersGranted'
  BY <1>1, <1>2, <1>3, Zenon DEF AnswersGranted
<1> QED BY <1>1, <1>3, <1>4, <1>5, Zenon DEF TypeOK

-----------------------------------------------------------------------------
(* The calls.                                                              *)

CallPlaces == {"queued", "check", "ask command", "package", "ask package", "start", "running", "done"}

\* What a call has to have behind it to stand at pc, for ChecksPassed.
Passed(c, pc, ne, gr) ==
    /\ pc \in {"queued", "check"} => <<c, "command">> \notin ne
    /\ pc \in {"queued", "check", "ask command", "package"} => <<c, "package">> \notin ne
    /\ pc \in {"package", "ask package", "start", "running"} =>
          (<<c, "command">> \in ne => <<c, "command">> \in gr)
    /\ pc \in {"start", "running"} => (<<c, "package">> \in ne => <<c, "package">> \in gr)

LEMMA PassedAll == ChecksPassed <=> \A c \in Cmds : Passed(c, call[c], needed, granted)
BY DEF ChecksPassed, Passed

\* A call moves alone, to a place it has earned, and only its own requests
\* are asked for.
LEMMA ExecStep ==
  ASSUME IInv, NEW c \in Cmds, Exec(c)
  PROVE  /\ \E pc \in CallPlaces : /\ call' = [call EXCEPT ![c] = pc]
                                   /\ Passed(c, pc, needed', granted)
         /\ needed' \subseteq Requests
         /\ \A d \in Cmds, k \in Kinds : d # c => (<<d, k>> \in needed' <=> <<d, k>> \in needed)
<1>1. /\ call \in [Cmds -> CallPlaces] /\ needed \subseteq Requests /\ approved \subseteq granted
      /\ Passed(c, call[c], needed, granted)
  BY PassedAll DEF IInv, TypeOK, AnswersGranted, CallPlaces
<1>2. <<c, "command">> \in Requests /\ <<c, "package">> \in Requests
  BY DEF Requests, Kinds
<1>3. call = [call EXCEPT ![c] = call[c]] /\ call[c] \in CallPlaces
  BY <1>1
<1>4. CASE CheckCommand(c)
  <2>1. PICK pc \in CallPlaces : /\ call[c] = "check" /\ call' = [call EXCEPT ![c] = pc]
                                /\ \/ needed' = needed /\ pc \in {"package", "start", "done"}
                                   \/ needed' = needed \cup {<<c, "command">>} /\ pc = "ask command"
    BY <1>4 DEF CheckCommand, Check, AfterCommand, Goto, CallPlaces
  <2>2. Passed(c, pc, needed', granted)
    BY <1>1, <2>1 DEF Passed
  <2> QED BY <1>1, <1>2, <2>1, <2>2
<1>5. CASE CheckPackage(c)
  <2>1. PICK pc \in CallPlaces : /\ call[c] = "package" /\ call' = [call EXCEPT ![c] = pc]
                                /\ \/ needed' = needed /\ pc \in {"start", "done"}
                                   \/ needed' = needed \cup {<<c, "package">>} /\ pc = "ask package"
    BY <1>5 DEF CheckPackage, Check, Goto, CallPlaces
  <2>2. Passed(c, pc, needed', granted)
    BY <1>1, <2>1 DEF Passed
  <2> QED BY <1>1, <1>2, <2>1, <2>2
<1>6. CASE AskCommand(c)
  <2>1. /\ call[c] = "ask command" /\ needed' = needed
        /\ \/ call' = call
           \/ call' = [call EXCEPT ![c] = "done"]
           \/ /\ call' = [call EXCEPT ![c] = AfterCommand(c)]
              /\ <<c, "command">> \in approved
    BY <1>6 DEF AskCommand, RequestApproval, Goto
  <2>2. PICK pc \in CallPlaces : /\ call' = [call EXCEPT ![c] = pc]
                                /\ \/ pc \in {call[c], "done"}
                                   \/ pc \in {"package", "start"} /\ <<c, "command">> \in granted
    BY <1>1, <1>3, <2>1 DEF CallPlaces, AfterCommand
  <2>3. Passed(c, pc, needed', granted)
    BY <1>1, <2>1, <2>2 DEF Passed
  <2> QED BY <1>1, <2>1, <2>2, <2>3
<1>7. CASE AskPackage(c)
  <2>1. /\ call[c] = "ask package" /\ needed' = needed
        /\ \/ call' = call
           \/ call' = [call EXCEPT ![c] = "done"]
           \/ call' = [call EXCEPT ![c] = "start"] /\ <<c, "package">> \in approved
    BY <1>7 DEF AskPackage, RequestApproval, Goto
  <2>2. PICK pc \in CallPlaces : /\ call' = [call EXCEPT ![c] = pc]
                                /\ \/ pc \in {call[c], "done"}
                                   \/ pc = "start" /\ <<c, "package">> \in granted
    BY <1>1, <1>3, <2>1 DEF CallPlaces
  <2>3. Passed(c, pc, needed', granted)
    BY <1>1, <2>1, <2>2 DEF Passed
  <2> QED BY <1>1, <2>1, <2>2, <2>3
<1>8. CASE LockExec(c) \/ StartProcess(c) \/ Finish(c)
  <2>1. PICK pc \in CallPlaces : /\ call' = [call EXCEPT ![c] = pc] /\ needed' = needed
                                /\ \/ pc = "done"
                                   \/ pc = "running" /\ call[c] = "start"
                                   \/ pc = "check" /\ call[c] = "queued"
    BY <1>8 DEF LockExec, StartProcess, Finish, Goto, CallPlaces
  <2>2. Passed(c, pc, needed', granted)
    BY <1>1, <2>1 DEF Passed
  <2> QED BY <1>1, <2>1, <2>2
<1> QED BY <1>4, <1>5, <1>6, <1>7, <1>8 DEF Exec, Advance

\* Approvals that were given are never taken back.
LEMMA GrantedGrows ==
  ASSUME IInv, [Next]_vars PROVE granted \subseteq granted'
<1>1. CASE UNCHANGED vars
  BY <1>1 DEF vars, managerVars
<1>2. CASE Next
  <2>1. CASE UNCHANGED managerVars
    BY <2>1 DEF managerVars
  <2> QED BY <1>2, <2>1, ManagerSteps, OwnAnswers, ResolveAnswers, Zenon
<1> QED BY <1>1, <1>2

\* No call passes a check without the consent the check asked for.
LEMMA CallsInv ==
  ASSUME IInv, [Next]_vars
  PROVE  ChecksPassed' /\ call' \in [Cmds -> CallPlaces] /\ needed' \subseteq Requests
<1>1. /\ call \in [Cmds -> CallPlaces] /\ needed \subseteq Requests
      /\ \A d \in Cmds : Passed(d, call[d], needed, granted)
  BY PassedAll DEF IInv, TypeOK, CallPlaces
<1>2. granted \subseteq granted'
  BY GrantedGrows
<1>3. SUFFICES /\ call' \in [Cmds -> CallPlaces] /\ needed' \subseteq Requests
               /\ \A d \in Cmds : Passed(d, call'[d], needed', granted')
  BY DEF ChecksPassed, Passed
<1>4. CASE UNCHANGED <<call, needed>>
  BY <1>1, <1>2, <1>4 DEF Passed
<1>5. ASSUME NEW c \in Cmds, Exec(c)
      PROVE  /\ call' \in [Cmds -> CallPlaces] /\ needed' \subseteq Requests
             /\ \A d \in Cmds : Passed(d, call'[d], needed', granted')
  <2>1. PICK pc \in CallPlaces : call' = [call EXCEPT ![c] = pc] /\ Passed(c, pc, needed', granted)
    BY <1>5, ExecStep
  <2>2. /\ needed' \subseteq Requests
        /\ \A d \in Cmds, k \in Kinds : d # c => (<<d, k>> \in needed' <=> <<d, k>> \in needed)
    BY <1>5, ExecStep
  <2>3. ASSUME NEW d \in Cmds PROVE Passed(d, call'[d], needed', granted')
    <3>1. CASE d = c
      BY <1>1, <1>2, <2>1, <3>1 DEF Passed
    <3>2. CASE d # c
      <4>1. call'[d] = call[d] /\ Passed(d, call[d], needed, granted)
        BY <1>1, <2>1, <3>2
      <4>2. \A k \in Kinds : <<d, k>> \in needed' <=> <<d, k>> \in needed
        BY <2>2, <3>2
      <4>3. "command" \in Kinds /\ "package" \in Kinds
        BY DEF Kinds
      <4> QED BY <1>2, <4>1, <4>2, <4>3 DEF Passed
    <3> QED BY <3>1, <3>2
  <2> QED BY <1>1, <2>1, <2>2, <2>3
<1>6. CASE \E r \in Requests, ok \in BOOLEAN : Resolve(r, ok)
  <2>1. UNCHANGED <<call, needed>>
    BY <1>6 DEF Resolve
  <2> QED BY <1>4, <2>1
<1>7. CASE UNCHANGED vars
  <2>1. UNCHANGED <<call, needed>>
    BY <1>7 DEF vars
  <2> QED BY <1>4, <2>1
<1> QED BY <1>5, <1>6, <1>7 DEF Next

-----------------------------------------------------------------------------
\* Every step preserves the invariant.
LEMMA StepInv == IInv /\ [Next]_vars => IInv'
<1> SUFFICES ASSUME IInv, [Next]_vars PROVE IInv'
  OBVIOUS
<1>1. ChecksPassed' /\ call' \in [Cmds -> CallPlaces] /\ needed' \subseteq Requests
  BY CallsInv
<1>2. TypeOK /\ RateExact /\ PendingLive /\ AnswersGranted
  BY DEF IInv
<1> DEFINE Types == /\ pending' \subseteq Requests /\ answer' \in [Requests -> BOOLEAN \cup {None}]
                    /\ approved' \subseteq Requests /\ granted' \subseteq Requests
                    /\ counts' \in [Ids -> 0..MaxPerSession] /\ req' \in [Requests -> Places]
<1>3. CASE UNCHANGED managerVars
  <2>1. UNCHANGED <<pending, answer, counts, req, approved, granted>>
    BY <1>3 DEF managerVars
  <2>2. Types
    BY <1>2, <2>1, Zenon DEF TypeOK, Places
  <2>3. RateExact' /\ PendingLive' /\ AnswersGranted'
    BY <1>2, <2>1, Zenon DEF RateExact, PendingLive, AnswersGranted
  <2> QED BY <1>1, <2>2, <2>3, Zenon DEF IInv, TypeOK, CallPlaces, Places
<1>4. ASSUME NEW r \in Requests, Own(r) PROVE IInv'
  <2>1. Types
    BY <1>4, OwnRate, OwnAnswers, Zenon
  <2>2. RateExact' /\ PendingLive' /\ AnswersGranted'
    BY <1>4, OwnRate, OwnAnswers, Zenon
  <2> QED BY <1>1, <2>1, <2>2, Zenon DEF IInv, TypeOK, CallPlaces, Places
<1>5. ASSUME NEW r \in Requests, NEW ok \in BOOLEAN, Resolve(r, ok) PROVE IInv'
  <2>1. UNCHANGED <<counts, req, approved>>
    BY <1>5 DEF Resolve
  <2>2. RateExact'
    BY <1>2, <2>1, Zenon DEF RateExact
  <2>3. Types /\ PendingLive' /\ AnswersGranted'
    BY <1>2, <1>5, <2>1, ResolveAnswers, Zenon DEF TypeOK, Places
  <2> QED BY <1>1, <2>2, <2>3, Zenon DEF IInv, TypeOK, CallPlaces, Places
<1>6. CASE UNCHANGED vars
  <2>1. UNCHANGED managerVars
    BY <1>6 DEF vars
  <2> QED BY <1>3, <2>1
<1> QED BY <1>3, <1>4, <1>5, <1>6, ManagerSteps, Zenon

LEMMA Inductive == Spec => []IInv
BY InitInv, StepInv, PTL DEF Spec

\* Every variable of the manager and of its callers has its type.
THEOREM TypeCorrect == Spec => []TypeOK
<1>1. IInv => TypeOK
  BY DEF IInv
<1> QED BY <1>1, Inductive, PTL

\* The slot count of every session is the number of its requests that are
\* inside RequestApproval: the deferred decrement misses no way out of it.
THEOREM SlotsExact == Spec => []RateExact
<1>1. IInv => RateExact
  BY DEF IInv
<1> QED BY <1>1, Inductive, PTL

\* m.pending lists only requests whose goroutine is still in the select and
\* unanswered, and nobody waits whose entry was taken unanswered.
THEOREM MapLive == Spec => []PendingLive
<1>1. IInv => PendingLive
  BY DEF IInv
<1> QED BY <1>1, Inductive, PTL

\* A process runs only with the consents that the checks of its call asked
\* for, given to those very requests while they were pending.
THEOREM NothingUnapproved == Spec => []RunsOnlyApproved
<1>1. IInv => RunsOnlyApproved
  <2> SUFFICES ASSUME IInv, NEW r \in needed, call[r[1]] = "running" PROVE r \in granted
    BY DEF RunsOnlyApproved
  <2>0. r \in Cmds \X Kinds
    BY Zenon DEF IInv, TypeOK, Requests
  <2>1. PICK c \in Cmds, k \in Kinds : r = <<c, k>>
    BY <2>0
  <2>2. Passed(c, "running", needed, granted)
    <3>1. call[c] = "running"
      BY <2>1
    <3>2. Passed(c, call[c], needed, granted)
      BY <2>1, PassedAll, Zenon DEF IInv
    <3> QED BY <3>1, <3>2
  <2>3. k = "command" \/ k = "package"
    BY <2>1 DEF Kinds
  <2> QED BY <2>1, <2>2, <2>3 DEF Passed
<1> QED BY <1>1, Inductive, PTL
=============================================================================
