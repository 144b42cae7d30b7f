--------------------------- MODULE SessionsProofs ---------------------------
(***************************************************************************)
(* Sessions for any number of ids, commands, handlers and Session objects, *)
(* and whatever of the resources the daemon is configured to give.         *)
(***************************************************************************)
EXTENDS Sessions, SequenceTheorems, TLAPS

-----------------------------------------------------------------------------
(* The inductive invariant.                                                *)

\* An object has its id from the moment it is entered in the map, and what it
\* starts and holds is configured.
ObjectsMade ==
    \A o \in Objects :
        /\ IF o =< made THEN obj[o].id \in Ids /\ obj[o].stage # "none" ELSE obj[o] = NoSession
        /\ obj[o].todo \in Seq(Configured) /\ obj[o].held \subseteq Configured

\* Nobody refers to an object that was never created; a handler that closes one
\* knows it by its id, and the reaper has deleted that id before it closes.
RefsMade ==
    /\ \A s \in Ids : table[s] =< made
    /\ \A k \in Closers :
          /\ closer[k].pc = "expired" => closer[k].sid \in Ids
          /\ closer[k].pc = "close" =>
                /\ closer[k].obj \in 1..made /\ closer[k].sid = obj[closer[k].obj].id
                /\ closer[k].route = "reap" => table[closer[k].sid] # closer[k].obj

\* A call works on an object that was created, and between the lock and the
\* unlock it holds the execMu of that object.
CallsMade == \A c \in Cmds : cmd[c].pc \in {"queued", "mount", "mounting", "run"} => cmd[c].obj \in 1..made

LockHeld == \A c \in Cmds : cmd[c].pc \in {"mount", "mounting", "run"} => obj[cmd[c].obj].lock = c

Occurs(r, q) == \E i \in 1..Len(q) : q[i] = r

\* What every route out of a session has to close.
MustClose == {"net", "ws"} \cap Configured

\* Whoever ends a session has closed each of these or will.
Pending(o, q) == \A r \in MustClose : r \in obj[o].closed \/ Occurs(r, q)

ClosersThorough ==
    /\ \A k \in Closers : closer[k].pc = "close" => Pending(closer[k].obj, closer[k].todo)
    /\ \A o \in Objects : obj[o].stage = "undo" => Pending(o, obj[o].todo)

\* And so has whoever ended one that is gone.
ClosedBy(k, o, r) == closer[k].pc = "close" /\ closer[k].obj = o /\ Occurs(r, closer[k].todo)

RemovedClosed ==
    \A o \in Objects : Removed(o) /\ o \notin strayed =>
        \A r \in MustClose : r \in obj[o].closed \/ \E k \in Closers : ClosedBy(k, o, r)

\* What was started is held until it is closed, and with a deferred mount the
\* creation of a session leaves the workspace alone.
Kept ==
    \A o \in Objects :
        /\ obj[o].started \subseteq obj[o].held \cup obj[o].closed
        /\ obj[o].stage = "build" /\ mountAt = "exec" => ~Occurs("ws", obj[o].todo)

\* Of a session in the map that nobody is closing, nothing was closed but what
\* had exited.
LiveClosed ==
    \A o \in Objects :
        /\ obj[o].stage = "build" /\ ~Removed(o)
        /\ \A k \in Closers : closer[k].pc = "close" => closer[k].obj # o
        => obj[o].closed \subseteq obj[o].lost

MountsDeferred ==
    \A c \in Cmds : cmd[c].pc = "mounting" => mountAt = "exec" /\ "ws" \in Configured

LockInv == CallsMade /\ LockHeld /\ MountOnce /\ MountsDeferred
EndInv  == ObjectsMade /\ RefsMade /\ Kept /\ LiveClosed /\ ClosersThorough /\ RemovedClosed
IInv    == TypeOK /\ LockInv /\ EndInv

-----------------------------------------------------------------------------
(* What is started and closed.                                             *)

LEMMA OccursConcat ==
  ASSUME NEW S, NEW p \in Seq(S), NEW q \in Seq(S), NEW r, Occurs(r, p) \/ Occurs(r, q)
  PROVE  Occurs(r, p \o q)
<1>1. /\ Len(p \o q) = Len(p) + Len(q) /\ Len(p) \in Nat /\ Len(q) \in Nat
      /\ \A i \in 1..Len(p \o q) : (p \o q)[i] = IF i =< Len(p) THEN p[i] ELSE q[i - Len(p)]
  BY ConcatProperties
<1>2. CASE Occurs(r, p)
  <2>1. PICK i \in 1..Len(p) : p[i] = r
    BY <1>2 DEF Occurs
  <2>2. i \in 1..Len(p \o q) /\ (p \o q)[i] = r
    BY <1>1, <2>1
  <2> QED BY <2>2 DEF Occurs
<1>3. CASE Occurs(r, q)
  <2>1. PICK i \in 1..Len(q) : q[i] = r
    BY <1>3 DEF Occurs
  <2>2. i + Len(p) \in 1..Len(p \o q) /\ (p \o q)[i + Len(p)] = r
    BY <1>1, <2>1
  <2> QED BY <2>2 DEF Occurs
<1> QED BY <1>2, <1>3

LEMMA ConcatOccurs ==
  ASSUME NEW S, NEW p \in Seq(S), NEW q \in Seq(S), NEW r, Occurs(r, p \o q)
  PROVE  Occurs(r, p) \/ Occurs(r, q)
<1>1. /\ Len(p \o q) = Len(p) + Len(q) /\ Len(p) \in Nat /\ Len(q) \in Nat
      /\ \A i \in 1..Len(p \o q) : (p \o q)[i] = IF i =< Len(p) THEN p[i] ELSE q[i - Len(p)]
  BY ConcatProperties
<1>2. PICK i \in 1..Len(p \o q) : (p \o q)[i] = r
  BY DEF Occurs
<1>3. CASE i =< Len(p)
  BY <1>1, <1>2, <1>3 DEF Occurs
<1>4. CASE ~(i =< Len(p))
  <2>1. i - Len(p) \in 1..Len(q) /\ q[i - Len(p)] = r
    BY <1>1, <1>2, <1>4
  <2> QED BY <2>1 DEF Occurs
<1> QED BY <1>3, <1>4

LEMMA IfConfigured ==
  ASSUME NEW r
  PROVE  If(r) \in Seq(Configured) /\ (r \in Configured => Occurs(r, If(r)))
<1>1. CASE r \in Configured
  <2>1. If(r) = << r >> /\ Len(<< r >>) = 1 /\ << r >>[1] = r /\ 1 \in 1..1
    BY <1>1 DEF If
  <2>2. << r >> \in Seq(Configured)
    BY <1>1
  <2> QED BY <2>1, <2>2 DEF Occurs
<1>2. CASE r \notin Configured
  BY <1>2 DEF If
<1> QED BY <1>1, <1>2

\* Each order names what is configured only, and the two orders that end a
\* session name the network interception and the mount.
LEMMA Orders ==
  /\ Plan \in Seq(Configured) /\ Unwind \in Seq(Configured)
  /\ \A route : Closes(route) \in Seq(Configured)
  /\ \A r \in MustClose : Occurs(r, Unwind) /\ \A route : Occurs(r, Closes(route))
<1>1. << >> \in Seq(Configured)
  OBVIOUS
<1>2. \A p, q \in Seq(Configured) : p \o q \in Seq(Configured)
  BY ConcatProperties
<1>3. \A r : If(r) \in Seq(Configured)
  BY IfConfigured
<1>4. Plan \in Seq(Configured)
  <2>1. (IF mountAt = "exec" THEN << >> ELSE If("ws")) \in Seq(Configured)
    BY <1>1, <1>3
  <2> QED BY <1>2, <1>3, <2>1 DEF Plan
<1>5. Unwind \in Seq(Configured)
  BY <1>2, <1>3 DEF Unwind
<1>6. ASSUME NEW route
      PROVE  (IF route = "grpc" THEN << >> ELSE If("db")) \in Seq(Configured)
  BY <1>1, <1>3
<1>7. ASSUME NEW route
      PROVE  Closes(route) \in Seq(Configured)
  BY <1>2, <1>3, <1>6 DEF Closes
<1>8. \A r \in MustClose : Occurs(r, If(r)) /\ r \in {"net", "ws"}
  BY IfConfigured DEF MustClose
<1>9. \A p, q \in Seq(Configured) : \A r : Occurs(r, p) \/ Occurs(r, q) => Occurs(r, p \o q)
  BY OccursConcat
<1>10. ASSUME NEW r \in MustClose
       PROVE  Occurs(r, Unwind)
  <2> DEFINE A == If("db") \o If("net")
             B == A \o If("llm")
  <2>1. A \in Seq(Configured) /\ B \in Seq(Configured)
    BY <1>2, <1>3
  <2>2. CASE r = "net"
    <3>1. Occurs(r, A)
      BY <1>3, <1>8, <1>9, <2>2
    <3>2. Occurs(r, B)
      BY <1>3, <1>9, <2>1, <3>1
    <3> QED BY <1>3, <1>9, <2>1, <3>2 DEF Unwind
  <2>3. CASE r = "ws"
    BY <1>3, <1>8, <1>9, <2>1, <2>3 DEF Unwind
  <2> QED BY <1>8, <2>2, <2>3
<1>11. ASSUME NEW r \in MustClose, NEW route
       PROVE  Occurs(r, Closes(route))
  <2> DEFINE D == IF route = "grpc" THEN << >> ELSE If("db")
             E == D \o If("net")
  <2>1. D \in Seq(Configured)
    BY <1>6
  <2>2. E \in Seq(Configured)
    BY <1>2, <1>3, <2>1
  <2> HIDE DEF D
  <2>3. CASE r = "net"
    <3>1. Occurs(r, E)
      BY <1>3, <1>8, <1>9, <2>1, <2>3
    <3>2. Occurs(r, E \o If("ws"))
      BY <1>3, <1>9, <2>2, <3>1
    <3> QED BY <3>2 DEF Closes, D
  <2>4. CASE r = "ws"
    <3>1. Occurs(r, E \o If("ws"))
      BY <1>3, <1>8, <1>9, <2>2, <2>4
    <3> QED BY <3>1 DEF Closes, D
  <2> QED BY <1>8, <2>3, <2>4
<1> QED BY <1>4, <1>5, <1>7, <1>10, <1>11

\* With a deferred mount, the workspace is not in the plan.
LEMMA PlanNoMount == mountAt = "exec" => ~Occurs("ws", Plan)
<1> SUFFICES ASSUME mountAt = "exec", Occurs("ws", Plan) PROVE FALSE
  OBVIOUS
<1> DEFINE A == If("db") \o << >>
           B == A \o If("net")
<1>1. \A q : If(q) \in Seq(Configured)
  BY IfConfigured
<1>2. \A p, q \in Seq(Configured) :
        p \o q \in Seq(Configured) /\ (Occurs("ws", p \o q) => Occurs("ws", p) \/ Occurs("ws", q))
  BY ConcatProperties, ConcatOccurs
<1>3. << >> \in Seq(Configured)
  OBVIOUS
<1>4. A \in Seq(Configured)
  BY <1>1, <1>2, <1>3
<1>5. B \in Seq(Configured)
  BY <1>1, <1>2, <1>4
<1>6. Occurs("ws", B \o If("llm"))
  BY DEF Plan
<1>7. Occurs("ws", A) \/ Occurs("ws", If("net")) \/ Occurs("ws", If("llm"))
  <2> HIDE DEF A
  <2>1. Occurs("ws", B) \/ Occurs("ws", If("llm"))
    <3> HIDE DEF B
    <3> QED BY <1>1, <1>2, <1>5, <1>6
  <2> QED BY <1>1, <1>2, <1>4, <2>1
<1>8. Occurs("ws", If("db")) \/ Occurs("ws", << >>) \/ Occurs("ws", If("net")) \/ Occurs("ws", If("llm"))
  BY <1>1, <1>2, <1>3, <1>7
<1>9. ASSUME NEW q, Occurs("ws", If(q)) PROVE q = "ws"
  BY <1>9 DEF If, Occurs
<1> QED BY <1>8, <1>9 DEF Occurs

\* What is left of an order once its first is done.
LEMMA OccursTail ==
  ASSUME NEW S, NEW q \in Seq(S), q # << >>
  PROVE  /\ Tail(q) \in Seq(S) /\ Head(q) \in S
         /\ \A r : Occurs(r, q) <=> r = Head(q) \/ Occurs(r, Tail(q))
<1>1. /\ Tail(q) \in Seq(S) /\ Head(q) \in S /\ Head(q) = q[1] /\ Len(q) \in Nat
      /\ Len(Tail(q)) = Len(q) - 1
      /\ \A i \in 1..Len(Tail(q)) : Tail(q)[i] = q[i + 1]
  OBVIOUS
<1>2. ASSUME NEW r, Occurs(r, q), r # Head(q)
      PROVE  Occurs(r, Tail(q))
  <2>1. PICK i \in 1..Len(q) : q[i] = r
    BY <1>2 DEF Occurs
  <2>2. i - 1 \in 1..Len(Tail(q)) /\ Tail(q)[i - 1] = r
    BY <1>1, <1>2, <2>1
  <2> QED BY <2>2 DEF Occurs
<1>3. ASSUME NEW r, Occurs(r, Tail(q))
      PROVE  Occurs(r, q)
  <2>1. PICK i \in 1..Len(Tail(q)) : Tail(q)[i] = r
    BY <1>3 DEF Occurs
  <2>2. i + 1 \in 1..Len(q) /\ q[i + 1] = r
    BY <1>1, <2>1
  <2> QED BY <2>2 DEF Occurs
<1>4. Occurs(Head(q), q)
  <2>1. 1 \in 1..Len(q)
    OBVIOUS
  <2> QED BY <1>1, <2>1 DEF Occurs
<1> QED BY <1>1, <1>2, <1>3, <1>4

-----------------------------------------------------------------------------
(* The map, the objects and who ends them.                                 *)

\* No execMu changes hands, and no deferred mount is made.
LocksKept ==
    \A p \in Objects : /\ obj'[p].lock = obj[p].lock
                       /\ "ws" \in obj'[p].started => "ws" \in obj[p].started \/ mountAt # "exec"

LEMMA Numbers == MaxObjects \in Nat /\ Objects = 1..MaxObjects /\ 0 \notin Objects
BY MaxObjectsAssumption DEF Objects

LEMMA ConfiguredSeqs == Seq(Configured) \subseteq Seq(Resources)
BY ConfiguredAssumption

\* An object does a step of its own: it neither changes its id nor has anything
\* closed, and it is not taken up again once it is being undone.
LEMMA SessionStep ==
  ASSUME TypeOK, EndInv, NEW o \in Objects, o =< made, NEW n \in SessionType,
         obj' = [obj EXCEPT ![o] = n], n.id = obj[o].id, n.closed = obj[o].closed,
         n.lost = obj[o].lost, n.todo \in Seq(Configured), n.held \subseteq Configured,
         n.started \subseteq n.held \cup n.closed,
         n.stage = "build" /\ mountAt = "exec" => ~Occurs("ws", n.todo),
         \/ n.stage = obj[o].stage /\ (n.todo = obj[o].todo \/ n.stage # "undo")
         \/ n.stage = "undo" /\ n.todo = Unwind,
         cmd' \in [Cmds -> CallType], UNCHANGED <<table, made, closer, mountAt, strayed>>
  PROVE  TypeOK' /\ EndInv'
<1>1. /\ obj \in [Objects -> SessionType] /\ obj' \in [Objects -> SessionType]
      /\ obj'[o] = n /\ \A p \in Objects \ {o} : obj'[p] = obj[p]
  BY DEF TypeOK
<1>2. \A p \in Objects : /\ obj'[p].id = obj[p].id /\ obj'[p].closed = obj[p].closed
                         /\ obj'[p].lost = obj[p].lost
  BY <1>1
<1>3. \A p \in Objects : /\ obj'[p].stage = "build" => obj[p].stage = "build"
                         /\ obj'[p].stage = "none" <=> obj[p].stage = "none"
  BY <1>1 DEF EndInv, ObjectsMade
<1>4. \A p \in Objects : Removed(p)' <=> Removed(p)
  BY <1>2, <1>3 DEF Removed
<1>5. mountAt' \in {"create", "exec"}
  BY Zenon DEF TypeOK
<1>6. TypeOK'
  <2>1. \A s \in Ids : table'[s] # 0 => obj'[table'[s]].id = s
    BY <1>2, Numbers DEF TypeOK
  <2> QED BY <1>1, <1>5, <2>1 DEF TypeOK
<1>7. ObjectsMade'
  BY <1>1, <1>3 DEF EndInv, ObjectsMade
<1>8. RefsMade'
  <2>1. \A k \in Closers : closer[k].pc = "close" => closer[k].obj \in Objects
    BY Numbers DEF EndInv, RefsMade, TypeOK
  <2> QED BY <1>2, <2>1 DEF EndInv, RefsMade
<1>9. LiveClosed'
  BY <1>2, <1>3, <1>4 DEF EndInv, LiveClosed
<1>10. ClosersThorough'
  <2>1. \A k \in Closers : closer[k].pc = "close" => closer[k].obj \in Objects
    BY Numbers DEF EndInv, RefsMade, TypeOK
  <2>2. \A k \in Closers : closer'[k].pc = "close" => Pending(closer[k].obj, closer[k].todo)'
    BY <1>2, <2>1 DEF EndInv, ClosersThorough, Pending
  <2>3. ASSUME NEW p \in Objects, obj'[p].stage = "undo"
        PROVE  \A r \in MustClose : r \in obj'[p].closed \/ Occurs(r, obj'[p].todo)
    <3>1. CASE obj'[p].stage = obj[p].stage /\ obj'[p].todo = obj[p].todo
      BY <1>2, <2>3, <3>1 DEF EndInv, ClosersThorough, Pending
    <3>2. CASE obj'[p].todo = Unwind
      BY <3>2, Orders
    <3> QED BY <1>1, <2>3, <3>1, <3>2
  <2> QED BY <2>2, <2>3 DEF ClosersThorough, Pending
<1>11. RemovedClosed'
  BY <1>2, <1>4 DEF EndInv, RemovedClosed, ClosedBy
<1>12. Kept'
  BY <1>1 DEF EndInv, Kept
<1> QED BY <1>6, <1>7, <1>8, <1>9, <1>10, <1>11, <1>12 DEF EndInv

\* cleanupCreatedSession closes the next thing.
LEMMA UndoCloses ==
  ASSUME TypeOK, EndInv, NEW o \in Objects, obj[o].stage = "undo", obj[o].todo # << >>,
         obj' = [obj EXCEPT ![o] = [Closed(@, Head(@.todo)) EXCEPT !.todo = Tail(obj[o].todo)]],
         UNCHANGED <<table, made, cmd, closer, mountAt, strayed>>
  PROVE  TypeOK' /\ EndInv' /\ LocksKept
<1> DEFINE r == Head(obj[o].todo)
           x == Closed(obj[o], r)
           n == [x EXCEPT !.todo = Tail(obj[o].todo)]
<1>0. obj[o] \in SessionType /\ obj[o].todo \in Seq(Configured) /\ o =< made
  <2>1. obj[o].stage # "none"
    OBVIOUS
  <2> QED BY <2>1 DEF TypeOK, EndInv, ObjectsMade, NoSession
<1>1. /\ Tail(obj[o].todo) \in Seq(Configured) /\ r \in Configured
      /\ \A q : Occurs(q, obj[o].todo) => q = r \/ Occurs(q, Tail(obj[o].todo))
  BY <1>0, OccursTail
<1>2. obj' = [obj EXCEPT ![o] = n]
  OBVIOUS
<1>a. /\ x \in SessionType /\ x.id = obj[o].id /\ x.stage = "undo" /\ x.lock = obj[o].lock
      /\ x.todo = obj[o].todo /\ x.held = obj[o].held \ {r} /\ x.closed = obj[o].closed \cup {r}
      /\ x.started = obj[o].started
  BY <1>0, <1>1, ConfiguredAssumption DEF Closed, SessionType
<1>b. Tail(obj[o].todo) \in Seq(Resources)
  BY <1>1, ConfiguredSeqs
<1> HIDE DEF x
<1>3. /\ n \in SessionType /\ n.id = obj[o].id /\ n.stage = "undo" /\ n.lock = obj[o].lock
      /\ n.todo = Tail(obj[o].todo) /\ n.held = obj[o].held \ {r} /\ n.closed = obj[o].closed \cup {r}
      /\ n.started = obj[o].started
  BY <1>a, <1>b DEF SessionType
<1> HIDE DEF n
<1>4. /\ obj \in [Objects -> SessionType] /\ obj' \in [Objects -> SessionType]
      /\ obj'[o] = n /\ \A p \in Objects \ {o} : obj'[p] = obj[p]
  BY <1>2, <1>3 DEF TypeOK
<1>5. \A p \in Objects : /\ obj'[p].id = obj[p].id /\ obj[p].closed \subseteq obj'[p].closed
                         /\ obj'[p].stage = obj[p].stage /\ obj'[p].lock = obj[p].lock
                         /\ obj'[p].started = obj[p].started
  BY <1>3, <1>4
<1>6. \A p \in Objects : Removed(p)' <=> Removed(p)
  BY <1>5 DEF Removed
<1>7. mountAt' \in {"create", "exec"}
  BY Zenon DEF TypeOK
<1>8. TypeOK'
  <2>1. \A s \in Ids : table'[s] # 0 => obj'[table'[s]].id = s
    BY <1>5, Numbers DEF TypeOK
  <2> QED BY <1>4, <1>7, <2>1 DEF TypeOK
<1>9. ObjectsMade'
  <2>1. obj'[o].todo \in Seq(Configured) /\ obj'[o].held \subseteq Configured /\ obj'[o].id \in Ids
        /\ obj'[o].stage # "none"
    BY <1>0, <1>1, <1>3, <1>4 DEF EndInv, ObjectsMade
  <2> QED BY <1>0, <1>4, <2>1 DEF EndInv, ObjectsMade
<1>10. \A k \in Closers : closer[k].pc = "close" => closer[k].obj \in Objects
  BY Numbers DEF EndInv, RefsMade, TypeOK
<1>11. RefsMade'
  BY <1>5, <1>10 DEF EndInv, RefsMade
<1>12. LiveClosed'
  BY <1>3, <1>4, <1>6 DEF EndInv, LiveClosed
<1>13. ClosersThorough'
  <2>1. \A k \in Closers : closer'[k].pc = "close" => Pending(closer[k].obj, closer[k].todo)'
    BY <1>5, <1>10 DEF EndInv, ClosersThorough, Pending
  <2>2. ASSUME NEW p \in Objects, obj'[p].stage = "undo"
        PROVE  \A q \in MustClose : q \in obj'[p].closed \/ Occurs(q, obj'[p].todo)
    <3>1. Pending(p, obj[p].todo)
      BY <1>5, <2>2 DEF EndInv, ClosersThorough
    <3>2. CASE p = o
      BY <1>1, <1>3, <1>4, <3>1, <3>2 DEF Pending
    <3>3. CASE p # o
      BY <1>4, <3>1, <3>3 DEF Pending
    <3> QED BY <3>2, <3>3
  <2> QED BY <2>1, <2>2 DEF ClosersThorough, Pending
<1>14. RemovedClosed'
  BY <1>5, <1>6 DEF EndInv, RemovedClosed, ClosedBy
<1>15. Kept'
  <2>1. obj[o].started \subseteq obj[o].held \cup obj[o].closed
    BY DEF EndInv, Kept
  <2>2. obj'[o].started \subseteq obj'[o].held \cup obj'[o].closed /\ obj'[o].stage # "build"
    BY <1>3, <1>4, <2>1
  <2> QED BY <1>4, <2>2 DEF EndInv, Kept
<1>16. LocksKept
  BY <1>5 DEF LocksKept
<1> QED BY <1>8, <1>9, <1>11, <1>12, <1>13, <1>14, <1>15, <1>16 DEF EndInv

\* The monitor of a DB proxy closes it when it has exited.
LEMMA ExitEnds ==
  ASSUME TypeOK, EndInv, NEW o \in Objects, DBProxyExits(o)
  PROVE  TypeOK' /\ EndInv' /\ LocksKept
<1> DEFINE x == Closed(obj[o], "db")
           n == [x EXCEPT !.lost = obj[o].lost \cup {"db"}]
<1>0. /\ obj[o] \in SessionType /\ "db" \in obj[o].held /\ o =< made
      /\ UNCHANGED <<table, made, cmd, closer, mountAt, strayed>> /\ "db" \in Resources
  <2>1. "db" \in obj[o].held /\ obj[o] # NoSession
    BY DEF DBProxyExits, NoSession
  <2> QED BY <2>1 DEF DBProxyExits, TypeOK, EndInv, ObjectsMade, Resources
<1>2. obj' = [obj EXCEPT ![o] = n]
  BY DEF DBProxyExits
<1>a. /\ x \in SessionType /\ x.id = obj[o].id /\ x.stage = obj[o].stage /\ x.lock = obj[o].lock
      /\ x.todo = obj[o].todo /\ x.held = obj[o].held \ {"db"} /\ x.lost = obj[o].lost
      /\ x.closed = obj[o].closed \cup {"db"} /\ x.started = obj[o].started
  BY <1>0 DEF Closed, SessionType
<1> HIDE DEF x
<1>3. /\ n \in SessionType /\ n.id = obj[o].id /\ n.stage = obj[o].stage /\ n.lock = obj[o].lock
      /\ n.todo = obj[o].todo /\ n.held = obj[o].held \ {"db"} /\ n.lost = obj[o].lost \cup {"db"}
      /\ n.closed = obj[o].closed \cup {"db"} /\ n.started = obj[o].started
  BY <1>0, <1>a DEF SessionType
<1> HIDE DEF n
<1>4. /\ obj \in [Objects -> SessionType] /\ obj' \in [Objects -> SessionType]
      /\ obj'[o] = n /\ \A p \in Objects \ {o} : obj'[p] = obj[p]
  BY <1>2, <1>3 DEF TypeOK
<1>5. \A p \in Objects : /\ obj'[p].id = obj[p].id /\ obj[p].closed \subseteq obj'[p].closed
                         /\ obj'[p].stage = obj[p].stage /\ obj'[p].lock = obj[p].lock
                         /\ obj'[p].started = obj[p].started /\ obj'[p].todo = obj[p].todo
                         /\ obj'[p].held \subseteq obj[p].held
  BY <1>3, <1>4
<1>6. \A p \in Objects : Removed(p)' <=> Removed(p)
  BY <1>0, <1>5 DEF Removed
<1>7. mountAt' \in {"create", "exec"}
  BY <1>0 DEF TypeOK
<1>8. TypeOK'
  <2>1. \A s \in Ids : table'[s] # 0 => obj'[table'[s]].id = s
    BY <1>0, <1>5, Numbers DEF TypeOK
  <2> QED BY <1>0, <1>4, <1>7, <2>1 DEF TypeOK
<1>9. ObjectsMade'
  BY <1>0, <1>4, <1>5 DEF EndInv, ObjectsMade
<1>10. \A k \in Closers : closer[k].pc = "close" => closer[k].obj \in Objects
  BY Numbers DEF EndInv, RefsMade, TypeOK
<1>11. RefsMade'
  BY <1>0, <1>5, <1>10 DEF EndInv, RefsMade
<1>12. LiveClosed'
  <2> SUFFICES ASSUME NEW p \in Objects, obj'[p].stage = "build", ~Removed(p)',
                      \A k \in Closers : closer'[k].pc = "close" => closer'[k].obj # p
               PROVE  obj'[p].closed \subseteq obj'[p].lost
    BY DEF LiveClosed
  <2>1. obj[p].closed \subseteq obj[p].lost
    BY <1>0, <1>5, <1>6 DEF EndInv, LiveClosed
  <2> QED BY <1>3, <1>4, <2>1
<1>13. ClosersThorough'
  BY <1>0, <1>5, <1>10 DEF EndInv, ClosersThorough, Pending
<1>14. RemovedClosed'
  BY <1>0, <1>5, <1>6 DEF EndInv, RemovedClosed, ClosedBy
<1>15. Kept'
  <2>1. obj[o].started \subseteq obj[o].held \cup obj[o].closed
    BY DEF EndInv, Kept
  <2>2. obj'[o].started \subseteq obj'[o].held \cup obj'[o].closed
    BY <1>3, <1>4, <2>1
  <2> QED BY <1>0, <1>4, <1>5, <2>2 DEF EndInv, Kept
<1>16. LocksKept
  BY <1>5 DEF LocksKept
<1> QED BY <1>8, <1>9, <1>11, <1>12, <1>13, <1>14, <1>15, <1>16 DEF EndInv

\* A handler closes the next thing of the object it holds.
LEMMA CloseNextEnds ==
  ASSUME TypeOK, EndInv, NEW k \in Closers, CloseNext(k)
  PROVE  TypeOK' /\ EndInv' /\ LocksKept
<1> DEFINE o == closer[k].obj
           r == Head(closer[k].todo)
           n == Closed(obj[o], r)
           m == [closer[k] EXCEPT !.todo = Tail(closer[k].todo)]
<1>0. /\ closer[k] \in CloserType /\ closer[k].pc = "close" /\ closer[k].todo # << >>
      /\ o \in Objects /\ o =< made /\ obj[o] \in SessionType /\ closer[k].todo \in Seq(Resources)
  BY Numbers DEF CloseNext, TypeOK, CloserType, EndInv, RefsMade
<1>1. /\ Tail(closer[k].todo) \in Seq(Resources) /\ r \in Resources
      /\ \A q : Occurs(q, closer[k].todo) => q = r \/ Occurs(q, Tail(closer[k].todo))
  BY <1>0, OccursTail
<1>2. obj' = [obj EXCEPT ![o] = n] /\ closer' = [closer EXCEPT ![k] = m]
  BY DEF CloseNext
<1>3. /\ n \in SessionType /\ n.id = obj[o].id /\ n.stage = obj[o].stage /\ n.lock = obj[o].lock
      /\ n.todo = obj[o].todo /\ n.held = obj[o].held \ {r} /\ n.closed = obj[o].closed \cup {r}
      /\ n.started = obj[o].started
  BY <1>0, <1>1 DEF Closed, SessionType
<1>4. /\ m \in CloserType /\ m.pc = "close" /\ m.route = closer[k].route /\ m.sid = closer[k].sid
      /\ m.obj = o /\ m.todo = Tail(closer[k].todo)
  BY <1>0, <1>1 DEF CloserType
<1> HIDE DEF n, m
<1>5. /\ obj \in [Objects -> SessionType] /\ obj' \in [Objects -> SessionType]
      /\ obj'[o] = n /\ \A p \in Objects \ {o} : obj'[p] = obj[p]
  BY <1>0, <1>2, <1>3 DEF TypeOK
<1>6. /\ closer' \in [Closers -> CloserType] /\ closer'[k] = m
      /\ \A j \in Closers \ {k} : closer'[j] = closer[j]
  BY <1>2, <1>4 DEF TypeOK
<1>7. \A p \in Objects : /\ obj'[p].id = obj[p].id /\ obj[p].closed \subseteq obj'[p].closed
                         /\ obj'[p].stage = obj[p].stage /\ obj'[p].lock = obj[p].lock
                         /\ obj'[p].todo = obj[p].todo /\ obj'[p].held \subseteq obj[p].held
                         /\ obj'[p].started = obj[p].started
  BY <1>3, <1>5
<1>8. table' = table /\ made' = made /\ strayed' = strayed /\ cmd' = cmd /\ mountAt' = mountAt
  BY DEF CloseNext
<1>9. \A p \in Objects : Removed(p)' <=> Removed(p)
  BY <1>7, <1>8 DEF Removed
<1>10. mountAt' \in {"create", "exec"}
  BY <1>8, Zenon DEF TypeOK
<1>11. TypeOK'
  <2>1. \A s \in Ids : table'[s] # 0 => obj'[table'[s]].id = s
    BY <1>7, <1>8, Numbers DEF TypeOK
  <2> QED BY <1>5, <1>6, <1>8, <1>10, <2>1 DEF TypeOK
<1>12. ObjectsMade'
  BY <1>0, <1>5, <1>7, <1>8 DEF EndInv, ObjectsMade
<1>13. \A j \in Closers : /\ closer'[j].pc = closer[j].pc /\ closer'[j].obj = closer[j].obj
                          /\ closer'[j].sid = closer[j].sid /\ closer'[j].route = closer[j].route
  BY <1>0, <1>4, <1>6
<1>14. \A j \in Closers : closer[j].pc = "close" => closer[j].obj \in Objects
  BY Numbers DEF EndInv, RefsMade, TypeOK
<1>15. RefsMade'
  BY <1>7, <1>8, <1>13, <1>14 DEF EndInv, RefsMade
<1>16. LiveClosed'
  <2>1. closer'[k].pc = "close" /\ closer'[k].obj = o
    BY <1>4, <1>6
  <2> QED BY <1>5, <1>9, <1>13, <2>1 DEF EndInv, LiveClosed
<1>17. \A j \in Closers, q \in MustClose :
          closer[j].pc = "close" /\ Occurs(q, closer[j].todo) =>
             Occurs(q, closer'[j].todo) \/ q \in obj'[closer[j].obj].closed
  <2> TAKE j \in Closers, q \in MustClose
  <2>1. CASE j = k
    BY <1>1, <1>3, <1>4, <1>5, <1>6, <2>1
  <2>2. CASE j # k
    BY <1>6, <2>2
  <2> QED BY <2>1, <2>2
<1>18. ClosersThorough'
  <2>1. ASSUME NEW j \in Closers, closer'[j].pc = "close", NEW q \in MustClose
        PROVE  q \in obj'[closer'[j].obj].closed \/ Occurs(q, closer'[j].todo)
    <3>1. closer[j].pc = "close" /\ closer[j].obj \in Objects /\ closer'[j].obj = closer[j].obj
      BY <1>13, <1>14, <2>1
    <3>2. q \in obj[closer[j].obj].closed \/ Occurs(q, closer[j].todo)
      BY <3>1 DEF EndInv, ClosersThorough, Pending
    <3> QED BY <1>7, <1>17, <3>1, <3>2
  <2>2. ASSUME NEW p \in Objects, obj'[p].stage = "undo", NEW q \in MustClose
        PROVE  q \in obj'[p].closed \/ Occurs(q, obj'[p].todo)
    BY <1>7, <2>2 DEF EndInv, ClosersThorough, Pending
  <2> QED BY <2>1, <2>2 DEF ClosersThorough, Pending
<1>19. RemovedClosed'
  <2> SUFFICES ASSUME NEW p \in Objects, Removed(p), p \notin strayed, NEW q \in MustClose,
                      q \notin obj'[p].closed
               PROVE  \E j \in Closers : ClosedBy(j, p, q)'
    BY <1>8, <1>9 DEF RemovedClosed
  <2>1. PICK j \in Closers : ClosedBy(j, p, q)
    BY <1>7 DEF EndInv, RemovedClosed
  <2>2. closer[j].pc = "close" /\ closer[j].obj = p /\ Occurs(q, closer'[j].todo)
    BY <1>17, <2>1 DEF ClosedBy
  <2> QED BY <1>13, <2>2 DEF ClosedBy
<1>20. Kept'
  <2>1. obj[o].started \subseteq obj[o].held \cup obj[o].closed
    BY <1>0 DEF EndInv, Kept
  <2>2. obj'[o].started \subseteq obj'[o].held \cup obj'[o].closed
    BY <1>3, <1>5, <2>1
  <2> QED BY <1>5, <1>7, <1>8, <2>2 DEF EndInv, Kept
<1>21. LocksKept
  BY <1>7 DEF LocksKept
<1> QED BY <1>11, <1>12, <1>15, <1>16, <1>18, <1>19, <1>20, <1>21 DEF EndInv

\* An id is deleted: of the objects, only the one that had it is gone by that.
LEMMA DeleteRemoves ==
  ASSUME TypeOK, EndInv, NEW s \in Ids, table' = [table EXCEPT ![s] = 0],
         \A p \in Objects : /\ obj'[p].id = obj[p].id
                            /\ (obj'[p].stage = "none" <=> obj[p].stage = "none")
  PROVE  /\ table' \in [Ids -> 0..MaxObjects] /\ \A t \in Ids : table'[t] \in {0, table[t]}
         /\ \A p \in Objects : Removed(p)' <=> Removed(p) \/ p = table[s]
<1>1. /\ table \in [Ids -> 0..MaxObjects] /\ table'[s] = 0 /\ \A t \in Ids \ {s} : table'[t] = table[t]
      /\ table' \in [Ids -> 0..MaxObjects]
  BY Numbers DEF TypeOK
<1>2. ASSUME NEW p \in Objects
      PROVE  Removed(p)' <=> Removed(p) \/ p = table[s]
  <2>1. CASE p > made
    <3>1. obj[p].stage = "none" /\ p # table[s]
      BY <1>1, <2>1, Numbers DEF EndInv, ObjectsMade, RefsMade, NoSession, TypeOK
    <3> QED BY <3>1 DEF Removed
  <2>2. CASE p =< made
    <3>1. obj[p].stage # "none" /\ obj[p].id \in Ids
      BY <2>2, Numbers DEF EndInv, ObjectsMade
    <3>2. p = table[s] => obj[p].id = s
      BY Numbers DEF TypeOK
    <3>3. p # 0
      BY Numbers
    <3>4. CASE obj[p].id = s
      BY <1>1, <3>1, <3>3, <3>4 DEF Removed
    <3>5. CASE obj[p].id # s
      BY <1>1, <3>1, <3>2, <3>5 DEF Removed
    <3> QED BY <3>4, <3>5
  <2> QED BY <2>1, <2>2, Numbers DEF TypeOK
<1> QED BY <1>1, <1>2

\* A handler moves to another place, where it closes an object it did not close
\* before or none; what it held it must have closed.
LEMMA HandlerMoves ==
  ASSUME TypeOK, EndInv, NEW k \in Closers, NEW m \in CloserType, closer' = [closer EXCEPT ![k] = m],
         UNCHANGED <<made, obj, cmd, mountAt>>, strayed \subseteq strayed', strayed' \subseteq Objects,
         table' \in [Ids -> 0..MaxObjects], \A t \in Ids : table'[t] \in {0, table[t]},
         \A p \in Objects : Removed(p) => Removed(p)',
         m.pc = "expired" => m.sid \in Ids,
         m.pc = "close" => /\ m.obj \in 1..made /\ m.sid = obj[m.obj].id
                           /\ (m.route = "reap" => table'[m.sid] # m.obj)
                           /\ \A r \in MustClose : Occurs(r, m.todo),
         closer[k].pc = "close" =>
            /\ m.pc # "close" /\ \A r \in MustClose : r \in obj[closer[k].obj].closed
            /\ \A p \in Objects : p = closer[k].obj => Removed(p)',
         \A p \in Objects : Removed(p)' /\ ~Removed(p) /\ p \notin strayed' =>
            \/ m.pc = "close" /\ m.obj = p
            \/ closer[k].pc = "close" /\ closer[k].obj = p
  PROVE  TypeOK' /\ EndInv'
<1>1. /\ closer' \in [Closers -> CloserType] /\ closer'[k] = m
      /\ \A j \in Closers \ {k} : closer'[j] = closer[j]
  BY DEF TypeOK
<1>2. mountAt' \in {"create", "exec"}
  BY Zenon DEF TypeOK
<1>3. TypeOK'
  <2>1. \A t \in Ids : table'[t] # 0 => obj'[table'[t]].id = t
    BY DEF TypeOK
  <2> QED BY <1>1, <1>2, <2>1 DEF TypeOK
<1>4. ObjectsMade'
  BY DEF EndInv, ObjectsMade
<1>5. RefsMade'
  <2>1. \A t \in Ids : table'[t] =< made'
    BY Numbers DEF EndInv, RefsMade, TypeOK
  <2>2. ASSUME NEW j \in Closers
        PROVE  /\ closer'[j].pc = "expired" => closer'[j].sid \in Ids
               /\ closer'[j].pc = "close" =>
                     /\ closer'[j].obj \in 1..made' /\ closer'[j].sid = obj'[closer'[j].obj].id
                     /\ closer'[j].route = "reap" => table'[closer'[j].sid] # closer'[j].obj
    <3>1. CASE j = k
      BY <1>1, <3>1
    <3>2. CASE j # k
      <4>1. closer'[j] = closer[j]
        BY <1>1, <3>2
      <4>2. closer[j].pc = "close" => closer[j].obj \in 1..made /\ closer[j].sid = obj[closer[j].obj].id
        BY DEF EndInv, RefsMade
      <4>3. closer[j].pc = "close" => closer[j].obj \in Objects /\ closer[j].sid \in Ids
        BY <4>2, Numbers DEF EndInv, ObjectsMade, TypeOK
      <4>4. closer[j].pc = "close" /\ closer[j].route = "reap" => table'[closer[j].sid] # closer[j].obj
        BY <4>3, Numbers DEF EndInv, RefsMade
      <4> QED BY <4>1, <4>2, <4>4 DEF EndInv, RefsMade
    <3> QED BY <3>1, <3>2
  <2> QED BY <2>1, <2>2 DEF RefsMade
<1>6. LiveClosed'
  <2> SUFFICES ASSUME NEW p \in Objects, obj[p].stage = "build", ~Removed(p)',
                      \A j \in Closers : closer'[j].pc = "close" => closer'[j].obj # p
               PROVE  obj[p].closed \subseteq obj[p].lost
    BY DEF LiveClosed
  <2>1. ~Removed(p)
    OBVIOUS
  <2>2. ASSUME NEW j \in Closers, closer[j].pc = "close"
        PROVE  closer[j].obj # p
    <3>1. CASE j = k
      BY <2>2, <3>1
    <3>2. CASE j # k
      BY <1>1, <2>2, <3>2
    <3> QED BY <3>1, <3>2
  <2> QED BY <2>1, <2>2 DEF EndInv, LiveClosed
<1>7. ClosersThorough'
  <2>1. ASSUME NEW j \in Closers, closer'[j].pc = "close", NEW r \in MustClose
        PROVE  r \in obj'[closer'[j].obj].closed \/ Occurs(r, closer'[j].todo)
    <3>1. CASE j = k
      BY <1>1, <2>1, <3>1
    <3>2. CASE j # k
      BY <1>1, <2>1, <3>2 DEF EndInv, ClosersThorough, Pending
    <3> QED BY <3>1, <3>2
  <2>2. ASSUME NEW p \in Objects, obj'[p].stage = "undo", NEW r \in MustClose
        PROVE  r \in obj'[p].closed \/ Occurs(r, obj'[p].todo)
    BY <2>2 DEF EndInv, ClosersThorough, Pending
  <2> QED BY <2>1, <2>2 DEF ClosersThorough, Pending
<1>8. RemovedClosed'
  <2> SUFFICES ASSUME NEW p \in Objects, Removed(p)', p \notin strayed', NEW r \in MustClose,
                      r \notin obj[p].closed
               PROVE  \E j \in Closers : ClosedBy(j, p, r)'
    BY DEF RemovedClosed
  <2>1. CASE Removed(p)
    <3>1. PICK j \in Closers : ClosedBy(j, p, r)
      BY <2>1 DEF EndInv, RemovedClosed
    <3>2. j # k
      BY <3>1 DEF ClosedBy
    <3> QED BY <1>1, <3>1, <3>2 DEF ClosedBy
  <2>2. CASE ~Removed(p)
    <3>1. m.pc = "close" /\ m.obj = p /\ Occurs(r, m.todo)
      BY <2>2
    <3> QED BY <1>1, <3>1 DEF ClosedBy
  <2> QED BY <2>1, <2>2
<1>9. Kept'
  BY DEF EndInv, Kept
<1> QED BY <1>3, <1>4, <1>5, <1>6, <1>7, <1>8, <1>9 DEF EndInv

LEMMA ClosingFields ==
  ASSUME NEW pc \in {"idle", "expired", "close", "done"}, NEW s \in Ids \cup {None},
         NEW o \in 0..MaxObjects
  PROVE  /\ Closing(pc, s, o) \in CloserType /\ Closing(pc, s, o).pc = pc
         /\ Closing(pc, s, o).sid = s /\ Closing(pc, s, o).obj = o /\ Closing(pc, s, o).route = "reap"
         /\ Closing(pc, s, o).todo = << >>
BY DEF Closing, CloserType

LEMMA DestroySessionEnds ==
  ASSUME TypeOK, EndInv, NEW k \in Closers, NEW s \in Ids, DestroySession(k, s)
  PROVE  TypeOK' /\ EndInv'
<1>1. /\ closer[k].pc = "idle" /\ table[s] \in 1..MaxObjects /\ table[s] =< made
      /\ obj[table[s]].id = s /\ UNCHANGED <<table, made, obj, cmd, mountAt, strayed>>
  BY Numbers DEF DestroySession, TypeOK, EndInv, RefsMade
<1> DEFINE c == Closing("close", s, table[s])
<1>2. PICK route \in {"http", "grpc"} :
        closer' = [closer EXCEPT ![k] = [c EXCEPT !.route = route, !.todo = Closes(route)]]
  BY DEF DestroySession
<1> DEFINE m == [c EXCEPT !.route = route, !.todo = Closes(route)]
<1>3. /\ c \in CloserType /\ c.pc = "close" /\ c.sid = s /\ c.obj = table[s]
  BY <1>1, Numbers, ClosingFields
<1>4. Closes(route) \in Seq(Resources) /\ \A r \in MustClose : Occurs(r, Closes(route))
  BY Orders, ConfiguredSeqs
<1> HIDE DEF c
<1>5. /\ m \in CloserType /\ m.pc = "close" /\ m.sid = s /\ m.obj = table[s]
      /\ m.route = route /\ m.todo = Closes(route)
  BY <1>3, <1>4 DEF CloserType
<1>6. m.obj \in 1..made /\ m.sid = obj[m.obj].id /\ m.route # "reap"
      /\ \A r \in MustClose : Occurs(r, m.todo)
  BY <1>1, <1>4, <1>5, Numbers DEF TypeOK
<1>7. closer' = [closer EXCEPT ![k] = m]
  BY <1>2
<1> HIDE DEF m
<1>8. \A p \in Objects : Removed(p)' <=> Removed(p)
  BY <1>1 DEF Removed
<1>9. /\ strayed' \subseteq Objects /\ table' \in [Ids -> 0..MaxObjects]
      /\ strayed \subseteq strayed' /\ \A t \in Ids : table'[t] \in {0, table[t]}
  BY <1>1 DEF TypeOK
<1> QED BY <1>1, <1>5, <1>6, <1>7, <1>8, <1>9, HandlerMoves

LEMMA ExpireEnds ==
  ASSUME TypeOK, EndInv, NEW k \in Closers, NEW s \in Ids, Expire(k, s)
  PROVE  TypeOK' /\ EndInv'
<1>1. closer[k].pc = "idle" /\ UNCHANGED <<table, made, obj, cmd, mountAt, strayed>>
  BY DEF Expire
<1> DEFINE m == Closing("expired", s, 0)
<1>2. closer' = [closer EXCEPT ![k] = m]
  BY DEF Expire
<1>3. m \in CloserType /\ m.pc = "expired" /\ m.sid = s
  BY Numbers, ClosingFields
<1> HIDE DEF m
<1>4. \A p \in Objects : Removed(p)' <=> Removed(p)
  BY <1>1 DEF Removed
<1>5. /\ strayed' \subseteq Objects /\ table' \in [Ids -> 0..MaxObjects]
      /\ strayed \subseteq strayed' /\ \A t \in Ids : table'[t] \in {0, table[t]}
  BY <1>1 DEF TypeOK
<1> QED BY <1>1, <1>2, <1>3, <1>4, <1>5, HandlerMoves

LEMMA ReapEnds ==
  ASSUME TypeOK, EndInv, NEW k \in Closers, Reap(k)
  PROVE  TypeOK' /\ EndInv'
<1> DEFINE s == closer[k].sid
           o == table[s]
           c == Closing("close", s, o)
           m == IF o = 0 THEN Closing("done", None, 0) ELSE [c EXCEPT !.todo = Closes("reap")]
<1>1. /\ closer[k].pc = "expired" /\ UNCHANGED <<made, obj, cmd, mountAt, strayed>>
      /\ table' = [table EXCEPT ![s] = 0] /\ closer' = [closer EXCEPT ![k] = m]
  BY DEF Reap
<1>2. s \in Ids /\ o \in 0..MaxObjects /\ o =< made /\ made \in 0..MaxObjects
  BY <1>1 DEF TypeOK, EndInv, RefsMade
<1>3. /\ table' \in [Ids -> 0..MaxObjects] /\ \A t \in Ids : table'[t] \in {0, table[t]}
      /\ \A p \in Objects : Removed(p)' <=> Removed(p) \/ p = o
  BY <1>1, <1>2, DeleteRemoves
<1>4. Closes("reap") \in Seq(Resources) /\ \A r \in MustClose : Occurs(r, Closes("reap"))
  BY Orders, ConfiguredSeqs
<1>5. CASE o = 0
  <2>1. m = Closing("done", None, 0)
    BY <1>5
  <2>a. Closing("done", None, 0) \in CloserType /\ Closing("done", None, 0).pc = "done"
    BY ClosingFields, Numbers
  <2> HIDE DEF m
  <2>2. m \in CloserType /\ m.pc = "done"
    BY <2>1, <2>a
  <2>3. \A p \in Objects : Removed(p)' <=> Removed(p)
    BY <1>3, <1>5, Numbers
  <2>4. strayed' \subseteq Objects /\ strayed \subseteq strayed'
    BY <1>1 DEF TypeOK
  <2> QED BY <1>1, <1>3, <2>2, <2>3, <2>4, HandlerMoves
<1>6. CASE o # 0
  <2>1. c \in CloserType /\ c.pc = "close" /\ c.sid = s /\ c.obj = o
    BY <1>2, ClosingFields
  <2>2. m = [c EXCEPT !.todo = Closes("reap")]
    BY <1>6
  <2> HIDE DEF c, m
  <2>3. m \in CloserType /\ m.pc = "close" /\ m.sid = s /\ m.obj = o /\ m.todo = Closes("reap")
    BY <1>4, <2>1, <2>2 DEF CloserType
  <2>4. o \in 1..made /\ obj[o].id = s
    BY <1>2, <1>6 DEF TypeOK
  <2>5. table'[s] = 0
    BY <1>1, <1>2 DEF TypeOK
  <2>6. /\ m.obj \in 1..made /\ m.sid = obj[m.obj].id /\ table'[m.sid] # m.obj
        /\ \A r \in MustClose : Occurs(r, m.todo)
    BY <1>4, <1>6, <2>3, <2>4, <2>5
  <2>7. strayed' \subseteq Objects /\ strayed \subseteq strayed'
    BY <1>1 DEF TypeOK
  <2> QED BY <1>1, <1>3, <2>3, <2>6, <2>7, HandlerMoves
<1> QED BY <1>5, <1>6

LEMMA CloseDoneEnds ==
  ASSUME TypeOK, EndInv, NEW k \in Closers, CloseDone(k)
  PROVE  TypeOK' /\ EndInv'
<1> DEFINE s == closer[k].sid
           o == closer[k].obj
           m == Closing("done", None, 0)
<1>1. /\ closer[k].pc = "close" /\ closer[k].todo = << >> /\ UNCHANGED <<made, obj, cmd, mountAt>>
      /\ closer' = [closer EXCEPT ![k] = m]
  BY DEF CloseDone
<1>2. o \in 1..made /\ o \in Objects /\ s = obj[o].id /\ s \in Ids /\ obj[o].stage # "none"
  BY <1>1, Numbers DEF TypeOK, EndInv, RefsMade, ObjectsMade
<1>3. \A r \in MustClose : r \in obj[o].closed
  BY <1>1 DEF EndInv, ClosersThorough, Pending, Occurs
<1>4. m \in CloserType /\ m.pc = "done"
  BY ClosingFields, Numbers
<1> HIDE DEF m
<1>5. CASE closer[k].route = "reap"
  <2>1. table' = table /\ strayed' = strayed
    BY <1>5 DEF CloseDone
  <2>2. \A p \in Objects : Removed(p)' <=> Removed(p)
    BY <1>1, <2>1 DEF Removed
  <2>3. Removed(o)
    BY <1>1, <1>2, <1>5 DEF EndInv, RefsMade, Removed
  <2>4. /\ strayed' \subseteq Objects /\ table' \in [Ids -> 0..MaxObjects]
        /\ strayed \subseteq strayed' /\ \A t \in Ids : table'[t] \in {0, table[t]}
    BY <2>1 DEF TypeOK
  <2>5. \A p \in Objects : p = o => Removed(p)'
    BY <2>2, <2>3
  <2> QED BY <1>1, <1>3, <1>4, <2>2, <2>4, <2>5, HandlerMoves
<1>6. CASE closer[k].route # "reap"
  <2>1. table' = [table EXCEPT ![s] = 0] /\ strayed' = strayed \cup ({table[s]} \ {0, o})
    BY <1>6 DEF CloseDone, Destroy
  <2>2. /\ table' \in [Ids -> 0..MaxObjects] /\ \A t \in Ids : table'[t] \in {0, table[t]}
        /\ \A p \in Objects : Removed(p)' <=> Removed(p) \/ p = table[s]
    BY <1>1, <1>2, <2>1, DeleteRemoves
  <2>3. strayed' \subseteq Objects /\ strayed \subseteq strayed'
    <3>1. {table[s]} \ {0, o} \subseteq Objects
      BY <1>2, Numbers DEF TypeOK
    <3>2. strayed \subseteq Objects
      BY DEF TypeOK
    <3> QED BY <2>1, <3>1, <3>2
  <2>4. table'[s] = 0
    BY <1>2, <2>1 DEF TypeOK
  <2>5. ASSUME NEW p \in Objects, p = o PROVE Removed(p)'
    BY <1>1, <1>2, <2>4, <2>5, Numbers DEF Removed
  <2>6. \A p \in Objects : Removed(p)' /\ ~Removed(p) /\ p \notin strayed' => p = o
    BY <2>1, <2>2, Numbers
  <2> QED BY <1>1, <1>3, <1>4, <2>2, <2>3, <2>5, <2>6, HandlerMoves
<1> QED BY <1>5, <1>6

\* cleanupCreatedSession has closed everything and deletes the id.
LEMMA UndoEnds ==
  ASSUME TypeOK, EndInv, NEW o \in Objects, obj[o].stage = "undo", obj[o].todo = << >>,
         Destroy(obj[o].id, o), obj' = [obj EXCEPT ![o].stage = "failed"],
         UNCHANGED <<made, cmd, closer, mountAt>>
  PROVE  TypeOK' /\ EndInv' /\ LocksKept
<1> DEFINE s == obj[o].id
           n == [obj[o] EXCEPT !.stage = "failed"]
<1>0. obj[o] \in SessionType /\ o =< made /\ s \in Ids
  <2>1. obj[o].stage # "none"
    OBVIOUS
  <2> QED BY <2>1 DEF TypeOK, EndInv, ObjectsMade, NoSession
<1>1. /\ n \in SessionType /\ n.id = s /\ n.stage = "failed" /\ n.lock = obj[o].lock
      /\ n.todo = obj[o].todo /\ n.held = obj[o].held /\ n.closed = obj[o].closed
      /\ n.started = obj[o].started /\ n.lost = obj[o].lost
  BY <1>0 DEF SessionType
<1>2. obj' = [obj EXCEPT ![o] = n]
  OBVIOUS
<1> HIDE DEF n
<1>3. /\ obj \in [Objects -> SessionType] /\ obj' \in [Objects -> SessionType]
      /\ obj'[o] = n /\ \A p \in Objects \ {o} : obj'[p] = obj[p]
  BY <1>1, <1>2 DEF TypeOK
<1>4. \A p \in Objects : /\ obj'[p].id = obj[p].id /\ obj'[p].closed = obj[p].closed
                         /\ obj'[p].lock = obj[p].lock /\ obj'[p].todo = obj[p].todo
                         /\ obj'[p].held = obj[p].held /\ obj'[p].lost = obj[p].lost
                         /\ obj'[p].started = obj[p].started
                         /\ (obj'[p].stage = "none" <=> obj[p].stage = "none")
                         /\ (obj'[p].stage = "build" => obj[p].stage = "build")
                         /\ (obj'[p].stage = "undo" => obj[p].stage = "undo")
  BY <1>1, <1>3
<1>5. table' = [table EXCEPT ![s] = 0] /\ strayed' = strayed \cup ({table[s]} \ {0, o})
  BY DEF Destroy
<1>a. \A p \in Objects : /\ obj'[p].id = obj[p].id
                         /\ (obj'[p].stage = "none" <=> obj[p].stage = "none")
  BY <1>4
<1>6. /\ table' \in [Ids -> 0..MaxObjects] /\ \A t \in Ids : table'[t] \in {0, table[t]}
      /\ \A p \in Objects : Removed(p)' <=> Removed(p) \/ p = table[s]
  <2> HIDE DEF s
  <2>1. s \in Ids /\ table' = [table EXCEPT ![s] = 0]
    BY <1>0, <1>5
  <2> QED BY <1>a, <2>1, DeleteRemoves
<1>7. mountAt' \in {"create", "exec"}
  BY Zenon DEF TypeOK
<1>8. TypeOK'
  <2>1. \A t \in Ids : table'[t] # 0 => obj'[table'[t]].id = t
    BY <1>4, <1>6, Numbers DEF TypeOK
  <2>2. strayed' \subseteq Objects
    <3>1. {table[s]} \ {0, o} \subseteq Objects
      BY <1>0, Numbers DEF TypeOK
    <3>2. strayed \subseteq Objects
      BY DEF TypeOK
    <3> QED BY <1>5, <3>1, <3>2
  <2> QED BY <1>3, <1>6, <1>7, <2>1, <2>2 DEF TypeOK
<1>9. ObjectsMade'
  BY <1>0, <1>3, <1>4 DEF EndInv, ObjectsMade
<1>10. \A k \in Closers : closer[k].pc = "close" => closer[k].obj \in Objects /\ closer[k].sid \in Ids
  BY Numbers DEF EndInv, RefsMade, ObjectsMade, TypeOK
<1>11. RefsMade'
  <2>1. \A t \in Ids : table'[t] =< made
    <3>1. made \in Nat /\ \A t \in Ids : table[t] =< made
      BY Numbers DEF EndInv, RefsMade, TypeOK
    <3> QED BY <1>6, <3>1
  <2>2. \A k \in Closers : closer[k].pc = "close" /\ closer[k].route = "reap" =>
          table'[closer[k].sid] # closer[k].obj
    BY <1>6, <1>10, Numbers DEF EndInv, RefsMade
  <2> QED BY <1>4, <1>10, <2>1, <2>2 DEF EndInv, RefsMade
<1>12. LiveClosed'
  BY <1>4, <1>6 DEF EndInv, LiveClosed
<1>13. ClosersThorough'
  <2>1. ASSUME NEW k \in Closers, closer[k].pc = "close", NEW r \in MustClose
        PROVE  r \in obj'[closer[k].obj].closed \/ Occurs(r, closer[k].todo)
    BY <1>4, <1>10, <2>1 DEF EndInv, ClosersThorough, Pending
  <2>2. ASSUME NEW p \in Objects, obj'[p].stage = "undo", NEW r \in MustClose
        PROVE  r \in obj'[p].closed \/ Occurs(r, obj'[p].todo)
    BY <1>4, <2>2 DEF EndInv, ClosersThorough, Pending
  <2> QED BY <2>1, <2>2 DEF ClosersThorough, Pending
<1>14. RemovedClosed'
  <2> SUFFICES ASSUME NEW p \in Objects, Removed(p)', p \notin strayed', NEW r \in MustClose,
                      r \notin obj[p].closed
               PROVE  \E k \in Closers : ClosedBy(k, p, r)'
    BY <1>4 DEF RemovedClosed
  <2>1. r \in obj[o].closed
    BY DEF EndInv, ClosersThorough, Pending, Occurs
  <2>2. p # o /\ p \notin strayed /\ p # 0
    BY <1>5, <2>1, Numbers
  <2>3. Removed(p)
    BY <1>5, <1>6, <2>2
  <2>4. PICK k \in Closers : ClosedBy(k, p, r)
    BY <2>2, <2>3 DEF EndInv, RemovedClosed
  <2> QED BY <2>4 DEF ClosedBy
<1>15. Kept'
  BY <1>4 DEF EndInv, Kept
<1>16. LocksKept
  BY <1>4 DEF LocksKept
<1> QED BY <1>8, <1>9, <1>11, <1>12, <1>13, <1>14, <1>15, <1>16 DEF EndInv

\* A new object: nobody knows it yet, and the objects that had its id are gone.
LEMMA CreateEnds ==
  ASSUME TypeOK, EndInv, NEW s \in Ids, CreateWithID(s)
  PROVE  TypeOK' /\ EndInv' /\ LocksKept
<1> DEFINE o == made + 1
           n == [NoSession EXCEPT !.id = s, !.stage = "build", !.todo = Plan]
<1>0. /\ o \in Objects /\ made \in Nat /\ o \in 0..MaxObjects /\ made' = o /\ table[s] = 0
      /\ table' = [table EXCEPT ![s] = o] /\ UNCHANGED <<cmd, closer, mountAt, strayed>>
      /\ obj[o] = NoSession
  <2>1. o \in Objects /\ made \in Nat /\ o \in 0..MaxObjects
    BY Numbers DEF CreateWithID, TypeOK
  <2>2. ~(o =< made)
    BY <2>1
  <2>3. obj[o] = NoSession
    BY <2>1, <2>2 DEF EndInv, ObjectsMade
  <2> QED BY <2>1, <2>3 DEF CreateWithID
<1>1. obj' = [obj EXCEPT ![o] = n]
  BY <1>0 DEF CreateWithID
<1>2. Plan \in Seq(Configured) /\ Plan \in Seq(Resources)
  BY Orders, ConfiguredSeqs
<1>3. /\ NoSession.closed = {} /\ NoSession.lock = None /\ NoSession.held = {}
      /\ NoSession.stage = "none" /\ NoSession.id = None /\ NoSession.started = {}
  BY DEF NoSession
<1>4. /\ n.id = s /\ n.stage = "build" /\ n.lock = None
      /\ n.todo = Plan /\ n.held = {} /\ n.closed = {} /\ n.started = {}
  BY DEF NoSession
<1>5. n \in SessionType
  <2>1. NoSession \in SessionType
    BY <1>0 DEF TypeOK
  <2> QED BY <1>2, <2>1 DEF SessionType
<1> HIDE DEF n
<1>6. /\ obj \in [Objects -> SessionType] /\ obj' \in [Objects -> SessionType]
      /\ obj'[o] = n /\ \A p \in Objects \ {o} : obj'[p] = obj[p]
  BY <1>0, <1>1, <1>5 DEF TypeOK
<1>7. \A p \in Objects : /\ obj'[p].lock = obj[p].lock /\ obj'[p].closed = obj[p].closed
                         /\ obj'[p].started = obj[p].started
  BY <1>0, <1>3, <1>4, <1>6
<1>8. /\ table \in [Ids -> 0..MaxObjects] /\ table' \in [Ids -> 0..MaxObjects] /\ table'[s] = o
      /\ \A t \in Ids \ {s} : table'[t] = table[t]
  BY <1>0 DEF TypeOK
<1>9. \A t \in Ids : table[t] =< made /\ table[t] # o
  BY <1>0, <1>8, Numbers DEF EndInv, RefsMade
<1>10. mountAt' \in {"create", "exec"}
  BY <1>0, Zenon DEF TypeOK
<1>11. TypeOK'
  <2>1. ASSUME NEW t \in Ids, table'[t] # 0
        PROVE  obj'[table'[t]].id = t
    <3>1. CASE t = s
      BY <1>4, <1>6, <1>8, <3>1
    <3>2. CASE t # s
      BY <1>6, <1>8, <1>9, <2>1, <3>2, Numbers DEF TypeOK
    <3> QED BY <3>1, <3>2
  <2> QED BY <1>0, <1>6, <1>8, <1>10, <2>1 DEF TypeOK
<1>12. ObjectsMade'
  <2>1. ASSUME NEW p \in Objects
        PROVE  /\ IF p =< made' THEN obj'[p].id \in Ids /\ obj'[p].stage # "none" ELSE obj'[p] = NoSession
               /\ obj'[p].todo \in Seq(Configured) /\ obj'[p].held \subseteq Configured
    <3>1. CASE p = o
      BY <1>0, <1>2, <1>4, <1>6, <3>1
    <3>2. CASE p # o
      <4>1. p =< made' <=> p =< made
        BY <1>0, <3>2, Numbers
      <4> QED BY <1>6, <3>2, <4>1 DEF EndInv, ObjectsMade
    <3> QED BY <3>1, <3>2
  <2> QED BY <2>1 DEF ObjectsMade
<1>13. \A k \in Closers : closer[k].pc = "close" =>
          /\ closer[k].obj \in 1..made /\ closer[k].obj \in 1..made' /\ closer[k].obj \in Objects \ {o}
          /\ closer[k].sid \in Ids
  BY <1>0, Numbers DEF EndInv, RefsMade, ObjectsMade, TypeOK
<1>14. RefsMade'
  <2>1. \A t \in Ids : table'[t] =< made'
    BY <1>0, <1>8, <1>9
  <2>2. \A k \in Closers : closer[k].pc = "close" /\ closer[k].route = "reap" =>
          table'[closer[k].sid] # closer[k].obj
    BY <1>8, <1>13 DEF EndInv, RefsMade
  <2>3. \A k \in Closers : closer[k].pc = "close" => closer[k].sid = obj'[closer[k].obj].id
    BY <1>6, <1>13 DEF EndInv, RefsMade
  <2> QED BY <1>0, <1>13, <2>1, <2>2, <2>3 DEF EndInv, RefsMade
<1>15. \A p \in Objects : Removed(p)' <=> Removed(p) /\ p # o
  <2> SUFFICES ASSUME NEW p \in Objects
               PROVE  Removed(p)' <=> Removed(p) /\ p # o
    OBVIOUS
  <2>1. CASE p = o
    BY <1>4, <1>6, <1>8, <2>1 DEF Removed
  <2>2. CASE p # o /\ p =< made
    <3>1. obj'[p] = obj[p] /\ obj[p].id \in Ids /\ obj[p].stage # "none" /\ p # 0
      BY <1>6, <2>2, Numbers DEF EndInv, ObjectsMade
    <3>2. CASE obj[p].id = s
      BY <1>0, <1>8, <2>2, <3>1, <3>2 DEF Removed
    <3>3. CASE obj[p].id # s
      BY <1>8, <2>2, <3>1, <3>3 DEF Removed
    <3> QED BY <3>2, <3>3
  <2>3. CASE p # o /\ ~(p =< made)
    <3>1. obj[p] = NoSession /\ obj'[p] = NoSession
      BY <1>6, <2>3 DEF EndInv, ObjectsMade
    <3> QED BY <1>3, <3>1 DEF Removed
  <2> QED BY <2>1, <2>2, <2>3
<1>16. LiveClosed'
  <2> SUFFICES ASSUME NEW p \in Objects, obj'[p].stage = "build", ~Removed(p)',
                      \A k \in Closers : closer[k].pc = "close" => closer[k].obj # p
               PROVE  obj'[p].closed \subseteq obj'[p].lost
    BY <1>0 DEF LiveClosed
  <2>1. CASE p = o
    BY <1>4, <1>6, <2>1
  <2>2. CASE p # o
    BY <1>6, <1>15, <2>2 DEF EndInv, LiveClosed
  <2> QED BY <2>1, <2>2
<1>17. ClosersThorough'
  <2>1. ASSUME NEW k \in Closers, closer'[k].pc = "close", NEW r \in MustClose
        PROVE  r \in obj'[closer'[k].obj].closed \/ Occurs(r, closer'[k].todo)
    BY <1>0, <1>7, <1>13, <2>1 DEF EndInv, ClosersThorough, Pending
  <2>2. ASSUME NEW p \in Objects, obj'[p].stage = "undo", NEW r \in MustClose
        PROVE  r \in obj'[p].closed \/ Occurs(r, obj'[p].todo)
    <3>1. p # o
      BY <1>4, <1>6, <2>2
    <3> QED BY <1>6, <2>2, <3>1 DEF EndInv, ClosersThorough, Pending
  <2> QED BY <2>1, <2>2 DEF ClosersThorough, Pending
<1>18. RemovedClosed'
  <2> SUFFICES ASSUME NEW p \in Objects, Removed(p), p \notin strayed, NEW r \in MustClose,
                      r \notin obj[p].closed
               PROVE  \E k \in Closers : ClosedBy(k, p, r)'
    BY <1>0, <1>7, <1>15 DEF RemovedClosed
  <2>1. PICK k \in Closers : ClosedBy(k, p, r)
    BY DEF EndInv, RemovedClosed
  <2> QED BY <1>0, <2>1 DEF ClosedBy
<1>19. Kept'
  <2>1. mountAt' = "exec" => ~Occurs("ws", n.todo)
    BY <1>0, <1>4, PlanNoMount
  <2>2. n.started \subseteq n.held \cup n.closed
    BY <1>4
  <2> QED BY <1>0, <1>6, <2>1, <2>2 DEF EndInv, Kept
<1>20. LocksKept
  BY <1>7 DEF LocksKept
<1> QED BY <1>11, <1>12, <1>14, <1>16, <1>17, <1>18, <1>19, <1>20 DEF EndInv

-----------------------------------------------------------------------------
(* The calls and their mutex.                                              *)

\* A step that leaves the calls and every execMu alone.
LEMMA LocksIdle ==
  ASSUME TypeOK, LockInv, UNCHANGED <<cmd, mountAt>>, made' \in Nat, made =< made', LocksKept
  PROVE  LockInv'
<1>1. \A c \in Cmds : cmd[c].pc \in {"queued", "mount", "mounting", "run"} =>
          cmd[c].obj \in Objects /\ cmd[c].obj \in 1..made'
  BY Numbers DEF LockInv, CallsMade, TypeOK
<1>2. CallsMade' /\ LockHeld'
  BY <1>1 DEF LockInv, CallsMade, LockHeld, LocksKept
<1>3. MountOnce' /\ MountsDeferred'
  BY <1>1 DEF LockInv, MountOnce, MountsDeferred, LocksKept
<1> QED BY <1>2, <1>3 DEF LockInv

LEMMA SameEnds ==
  ASSUME TypeOK, EndInv, UNCHANGED <<table, made, obj, closer, mountAt, strayed>>,
         cmd' \in [Cmds -> CallType]
  PROVE  TypeOK' /\ EndInv'
<1>1. mountAt' \in {"create", "exec"}
  BY Zenon DEF TypeOK
<1>2. TypeOK'
  BY <1>1 DEF TypeOK
<1>3. \A p \in Objects : Removed(p)' <=> Removed(p)
  BY DEF Removed
<1>4. ObjectsMade' /\ RefsMade'
  BY DEF EndInv, ObjectsMade, RefsMade
<1>5. LiveClosed'
  BY <1>3 DEF EndInv, LiveClosed
<1>6. ClosersThorough'
  BY DEF EndInv, ClosersThorough, Pending
<1>7. RemovedClosed'
  BY <1>3 DEF EndInv, RemovedClosed, ClosedBy
<1>8. Kept'
  BY DEF EndInv, Kept
<1> QED BY <1>2, <1>4, <1>5, <1>6, <1>7, <1>8 DEF EndInv

LEMMA CallFields ==
  ASSUME NEW c \in Cmds, TypeOK
  PROVE  /\ cmd[c] \in CallType /\ cmd[c].obj \in 0..MaxObjects
         /\ \A pc \in {"idle", "queued", "mount", "mounting", "run", "done"}, o \in 0..MaxObjects :
               Call(pc, o) \in CallType /\ Call(pc, o).pc = pc /\ Call(pc, o).obj = o
BY DEF TypeOK, CallType, Call

LEMMA GetInv ==
  ASSUME IInv, NEW c \in Cmds, NEW s \in Ids, Get(c, s)
  PROVE  IInv'
<1>1. PICK pc \in {"done", "queued"} :
        cmd' = [cmd EXCEPT ![c] = Call(pc, table[s])] /\ (pc = "queued" => table[s] # 0)
  BY DEF Get
<1>2. /\ TypeOK /\ LockInv /\ EndInv /\ cmd[c].pc = "idle"
      /\ UNCHANGED <<table, made, obj, closer, mountAt, strayed>>
      /\ table[s] \in 0..MaxObjects /\ table[s] =< made /\ made \in Nat
  BY Numbers DEF IInv, Get, TypeOK, EndInv, RefsMade
<1>3. /\ Call(pc, table[s]) \in CallType /\ Call(pc, table[s]).pc = pc
      /\ Call(pc, table[s]).obj = table[s]
  BY <1>2, CallFields
<1>4. /\ cmd' \in [Cmds -> CallType] /\ cmd'[c].pc = pc /\ cmd'[c].obj = table[s]
      /\ \A d \in Cmds \ {c} : cmd'[d] = cmd[d]
  BY <1>1, <1>2, <1>3 DEF TypeOK
<1>5. CallsMade'
  BY <1>1, <1>2, <1>4 DEF LockInv, CallsMade
<1>6. LockHeld'
  BY <1>2, <1>4 DEF LockInv, LockHeld
<1>7. MountOnce' /\ MountsDeferred'
  BY <1>1, <1>2, <1>4 DEF LockInv, MountOnce, MountsDeferred
<1>8. TypeOK' /\ EndInv'
  BY <1>2, <1>4, SameEnds
<1> QED BY <1>5, <1>6, <1>7, <1>8 DEF IInv, LockInv

\* The object a call works on, with another holder of its execMu or a mount.
LEMMA CallObject ==
  ASSUME IInv, NEW c \in Cmds, cmd[c].pc \in {"queued", "mount", "mounting", "run"}
  PROVE  /\ cmd[c].obj \in Objects /\ cmd[c].obj =< made /\ obj[cmd[c].obj] \in SessionType
         /\ obj[cmd[c].obj].todo \in Seq(Configured) /\ obj[cmd[c].obj].held \subseteq Configured
         /\ obj[cmd[c].obj].started \subseteq obj[cmd[c].obj].held \cup obj[cmd[c].obj].closed
         /\ (obj[cmd[c].obj].stage = "build" /\ mountAt = "exec" =>
                ~Occurs("ws", obj[cmd[c].obj].todo))
<1>1. cmd[c].obj \in 1..made /\ made \in 0..MaxObjects
  BY DEF IInv, LockInv, CallsMade, TypeOK
<1>2. cmd[c].obj \in Objects /\ cmd[c].obj =< made
  BY <1>1, Numbers
<1> QED BY <1>2 DEF IInv, TypeOK, EndInv, ObjectsMade, Kept

LEMMA LockUpdate ==
  ASSUME NEW x \in SessionType, NEW l \in Cmds \cup {None}
  PROVE  LET n == [x EXCEPT !.lock = l] IN
         /\ n \in SessionType /\ n.id = x.id /\ n.closed = x.closed /\ n.todo = x.todo
         /\ n.held = x.held /\ n.stage = x.stage /\ n.lock = l
         /\ n.started = x.started /\ n.lost = x.lost
BY DEF SessionType

LEMMA LockExecInv ==
  ASSUME IInv, NEW c \in Cmds, LockExec(c)
  PROVE  IInv'
<1> DEFINE o == cmd[c].obj
           n == [obj[o] EXCEPT !.lock = c]
           d == [cmd[c] EXCEPT !.pc = "mount"]
<1>1. /\ TypeOK /\ LockInv /\ EndInv /\ cmd[c].pc = "queued" /\ obj[o].lock = None
      /\ UNCHANGED <<table, made, closer, mountAt, strayed>>
      /\ obj' = [obj EXCEPT ![o] = n] /\ cmd' = [cmd EXCEPT ![c] = d]
  BY DEF IInv, LockExec
<1>2. /\ o \in Objects /\ o =< made /\ obj[o] \in SessionType
      /\ obj[o].todo \in Seq(Configured) /\ obj[o].held \subseteq Configured
      /\ obj[o].started \subseteq obj[o].held \cup obj[o].closed
      /\ (obj[o].stage = "build" /\ mountAt = "exec" => ~Occurs("ws", obj[o].todo))
  BY <1>1, CallObject
<1>3. d \in CallType /\ d.pc = "mount" /\ d.obj = o
  BY <1>1 DEF TypeOK, CallType
<1>4. /\ n \in SessionType /\ n.id = obj[o].id /\ n.closed = obj[o].closed /\ n.todo = obj[o].todo
      /\ n.held = obj[o].held /\ n.stage = obj[o].stage /\ n.lock = c
      /\ n.started = obj[o].started /\ n.lost = obj[o].lost
  BY <1>2, LockUpdate
<1> HIDE DEF n, d
<1>5. cmd' \in [Cmds -> CallType] /\ cmd'[c] = d /\ \A e \in Cmds \ {c} : cmd'[e] = cmd[e]
  BY <1>1, <1>3 DEF TypeOK
<1>6. TypeOK' /\ EndInv'
  BY <1>1, <1>2, <1>4, <1>5, SessionStep
<1>7. obj'[o] = n /\ \A p \in Objects \ {o} : obj'[p] = obj[p]
  BY <1>1, <1>2 DEF TypeOK
<1>8. CallsMade'
  BY <1>1, <1>3, <1>5 DEF LockInv, CallsMade
<1>9. LockHeld'
  <2>1. ASSUME NEW e \in Cmds, cmd'[e].pc \in {"mount", "mounting", "run"}
        PROVE  obj'[cmd'[e].obj].lock = e
    <3>1. CASE e = c
      BY <1>3, <1>4, <1>5, <1>7, <3>1
    <3>2. CASE e # c
      <4>1. cmd[e].pc \in {"mount", "mounting", "run"} /\ obj[cmd[e].obj].lock = e /\ cmd'[e].obj = cmd[e].obj
        BY <1>1, <1>5, <2>1, <3>2 DEF LockInv, LockHeld
      <4>2. cmd[e].obj \in Objects
        BY <4>1, CallObject
      <4>3. cmd[e].obj # o
        BY <1>1, <4>1, NoneAssumption
      <4> QED BY <1>7, <4>1, <4>2, <4>3
    <3> QED BY <3>1, <3>2
  <2> QED BY <2>1 DEF LockHeld
<1>10. MountOnce' /\ MountsDeferred'
  <2>1. \A p \in Objects : obj'[p].started = obj[p].started
    BY <1>4, <1>7
  <2>2. \A e \in Cmds : cmd'[e].pc = "mounting" => cmd[e].pc = "mounting" /\ cmd'[e].obj = cmd[e].obj
    BY <1>3, <1>5
  <2>3. \A e \in Cmds : cmd[e].pc = "mounting" => cmd[e].obj \in Objects
    BY CallObject
  <2> QED BY <1>1, <2>1, <2>2, <2>3 DEF LockInv, MountOnce, MountsDeferred
<1> QED BY <1>6, <1>8, <1>9, <1>10 DEF IInv, LockInv

LEMMA FinishInv ==
  ASSUME IInv, NEW c \in Cmds, Finish(c)
  PROVE  IInv'
<1> DEFINE o == cmd[c].obj
           n == [obj[o] EXCEPT !.lock = None]
<1>1. /\ TypeOK /\ LockInv /\ EndInv /\ cmd[c].pc = "run"
      /\ UNCHANGED <<table, made, closer, mountAt, strayed>>
      /\ obj' = [obj EXCEPT ![o] = n] /\ cmd' = [cmd EXCEPT ![c] = Call("done", 0)]
  BY DEF IInv, Finish
<1>2. /\ o \in Objects /\ o =< made /\ obj[o] \in SessionType
      /\ obj[o].todo \in Seq(Configured) /\ obj[o].held \subseteq Configured
      /\ obj[o].started \subseteq obj[o].held \cup obj[o].closed
      /\ (obj[o].stage = "build" /\ mountAt = "exec" => ~Occurs("ws", obj[o].todo))
  BY <1>1, CallObject
<1>3. Call("done", 0) \in CallType /\ Call("done", 0).pc = "done"
  BY <1>1, CallFields, Numbers
<1>4. /\ n \in SessionType /\ n.id = obj[o].id /\ n.closed = obj[o].closed /\ n.todo = obj[o].todo
      /\ n.held = obj[o].held /\ n.stage = obj[o].stage /\ n.lock = None
      /\ n.started = obj[o].started /\ n.lost = obj[o].lost
  BY <1>2, LockUpdate
<1> HIDE DEF n
<1>5. cmd' \in [Cmds -> CallType] /\ cmd'[c].pc = "done" /\ \A e \in Cmds \ {c} : cmd'[e] = cmd[e]
  BY <1>1, <1>3 DEF TypeOK
<1>6. TypeOK' /\ EndInv'
  BY <1>1, <1>2, <1>4, <1>5, SessionStep
<1>7. obj'[o] = n /\ \A p \in Objects \ {o} : obj'[p] = obj[p]
  BY <1>1, <1>2 DEF TypeOK
<1>8. CallsMade'
  BY <1>1, <1>5 DEF LockInv, CallsMade
<1>9. LockHeld'
  <2>1. ASSUME NEW e \in Cmds, cmd'[e].pc \in {"mount", "mounting", "run"}
        PROVE  obj'[cmd'[e].obj].lock = e
    <3>1. e # c
      BY <1>5, <2>1
    <3>2. cmd[e].pc \in {"mount", "mounting", "run"} /\ obj[cmd[e].obj].lock = e /\ cmd'[e].obj = cmd[e].obj
      BY <1>1, <1>5, <2>1, <3>1 DEF LockInv, LockHeld
    <3>3. cmd[e].obj \in Objects
      BY <3>2, CallObject
    <3>4. obj[o].lock = c
      BY <1>1 DEF LockInv, LockHeld
    <3> QED BY <1>7, <3>1, <3>2, <3>3, <3>4
  <2> QED BY <2>1 DEF LockHeld
<1>10. MountOnce' /\ MountsDeferred'
  <2>1. \A p \in Objects : obj'[p].started = obj[p].started
    BY <1>4, <1>7
  <2>2. \A e \in Cmds : cmd'[e].pc = "mounting" => cmd[e].pc = "mounting" /\ cmd'[e].obj = cmd[e].obj
    BY <1>5
  <2>3. \A e \in Cmds : cmd[e].pc = "mounting" => cmd[e].obj \in Objects
    BY CallObject
  <2> QED BY <1>1, <2>1, <2>2, <2>3 DEF LockInv, MountOnce, MountsDeferred
<1> QED BY <1>6, <1>8, <1>9, <1>10 DEF IInv, LockInv

LEMMA MountUpdate ==
  ASSUME NEW x \in SessionType
  PROVE  LET n == [x EXCEPT !.held = x.held \cup {"ws"}, !.started = x.started \cup {"ws"}] IN
         /\ n \in SessionType /\ n.id = x.id /\ n.closed = x.closed /\ n.todo = x.todo
         /\ n.held = x.held \cup {"ws"} /\ n.stage = x.stage /\ n.lock = x.lock
         /\ n.started = x.started \cup {"ws"} /\ n.lost = x.lost
BY DEF SessionType, Resources

\* A command looks whether it has to mount; it goes on to do so only where
\* nothing is mounted.
LEMMA EnsureInv ==
  ASSUME IInv, NEW c \in Cmds, EnsureFUSEMount(c)
  PROVE  IInv'
<1>1. /\ TypeOK /\ LockInv /\ EndInv /\ cmd[c].pc = "mount"
      /\ UNCHANGED <<table, made, obj, closer, mountAt, strayed>>
  BY DEF IInv, EnsureFUSEMount
<1>2. PICK pc \in {"mounting", "run"} :
        /\ cmd' = [cmd EXCEPT ![c] = [cmd[c] EXCEPT !.pc = pc]]
        /\ pc = "mounting" => /\ mountAt = "exec" /\ "ws" \in Configured
                              /\ "ws" \notin obj[cmd[c].obj].started
  BY DEF EnsureFUSEMount
<1> DEFINE d == [cmd[c] EXCEPT !.pc = pc]
<1>3. d \in CallType /\ d.pc = pc /\ d.obj = cmd[c].obj
  BY <1>1 DEF TypeOK, CallType
<1>4. cmd' = [cmd EXCEPT ![c] = d]
  BY <1>2
<1> HIDE DEF d
<1>5. cmd' \in [Cmds -> CallType] /\ cmd'[c] = d /\ \A e \in Cmds \ {c} : cmd'[e] = cmd[e]
  BY <1>1, <1>3, <1>4 DEF TypeOK
<1>6. TypeOK' /\ EndInv'
  BY <1>1, <1>5, SameEnds
<1>7. CallsMade' /\ LockHeld'
  BY <1>1, <1>3, <1>5 DEF LockInv, CallsMade, LockHeld
<1>8. MountOnce' /\ MountsDeferred'
  BY <1>1, <1>2, <1>3, <1>5 DEF LockInv, MountOnce, MountsDeferred
<1> QED BY <1>6, <1>7, <1>8 DEF IInv, LockInv

\* While it mounts it holds execMu, so no other command of that session is
\* about to mount.
LEMMA MountInv ==
  ASSUME IInv, NEW c \in Cmds, MountFUSE(c)
  PROVE  IInv'
<1> DEFINE o == cmd[c].obj
           n == [obj[o] EXCEPT !.held = obj[o].held \cup {"ws"}, !.started = obj[o].started \cup {"ws"}]
           d == [cmd[c] EXCEPT !.pc = "run"]
<1>1. /\ TypeOK /\ LockInv /\ EndInv /\ cmd[c].pc = "mounting"
      /\ UNCHANGED <<table, made, closer, mountAt, strayed>> /\ cmd' = [cmd EXCEPT ![c] = d]
      /\ obj' = obj \/ obj' = [obj EXCEPT ![o] = n]
  BY DEF IInv, MountFUSE
<1>2. /\ o \in Objects /\ o =< made /\ obj[o] \in SessionType
      /\ obj[o].todo \in Seq(Configured) /\ obj[o].held \subseteq Configured
      /\ obj[o].started \subseteq obj[o].held \cup obj[o].closed
      /\ (obj[o].stage = "build" /\ mountAt = "exec" => ~Occurs("ws", obj[o].todo))
  BY <1>1, CallObject
<1>a. "ws" \in Configured
  BY <1>1 DEF LockInv, MountsDeferred
<1>3. d \in CallType /\ d.pc = "run" /\ d.obj = o
  BY <1>1 DEF TypeOK, CallType
<1>4. /\ n \in SessionType /\ n.id = obj[o].id /\ n.closed = obj[o].closed /\ n.todo = obj[o].todo
      /\ n.held = obj[o].held \cup {"ws"} /\ n.stage = obj[o].stage /\ n.lock = obj[o].lock
      /\ n.started = obj[o].started \cup {"ws"} /\ n.lost = obj[o].lost
  BY <1>2, MountUpdate
<1> HIDE DEF n, d
<1>5. cmd' \in [Cmds -> CallType] /\ cmd'[c] = d /\ \A e \in Cmds \ {c} : cmd'[e] = cmd[e]
  BY <1>1, <1>3 DEF TypeOK
<1>6. TypeOK' /\ EndInv'
  <2>1. CASE obj' = obj
    BY <1>1, <1>5, <2>1, SameEnds
  <2>2. CASE obj' = [obj EXCEPT ![o] = n]
    <3>1. n.todo \in Seq(Configured) /\ n.held \subseteq Configured
          /\ n.started \subseteq n.held \cup n.closed
      BY <1>2, <1>4, <1>a
    <3> QED BY <1>1, <1>2, <1>4, <1>5, <2>2, <3>1, SessionStep
  <2> QED BY <1>1, <2>1, <2>2
<1>7. \A p \in Objects : obj'[p].lock = obj[p].lock /\ (p # o => obj'[p].started = obj[p].started)
  <2>1. CASE obj' = obj
    BY <2>1
  <2>2. CASE obj' = [obj EXCEPT ![o] = n]
    BY <1>1, <1>2, <1>4, <2>2 DEF TypeOK
  <2> QED BY <1>1, <2>1, <2>2
<1>8. \A e \in Cmds : cmd[e].pc \in {"mount", "mounting", "run"} => cmd[e].obj \in Objects
  BY CallObject
<1>9. CallsMade' /\ LockHeld'
  BY <1>1, <1>3, <1>5, <1>7, <1>8 DEF LockInv, CallsMade, LockHeld
<1>10. MountOnce' /\ MountsDeferred'
  <2>1. ASSUME NEW e \in Cmds, cmd'[e].pc = "mounting"
        PROVE  /\ "ws" \notin obj'[cmd'[e].obj].started
               /\ mountAt' = "exec" /\ "ws" \in Configured
    <3>1. e # c /\ cmd'[e] = cmd[e]
      BY <1>3, <1>5, <2>1
    <3>2. obj[cmd[e].obj].lock = e /\ obj[o].lock = c
      BY <1>1, <2>1, <3>1 DEF LockInv, LockHeld
    <3>3. cmd[e].obj # o /\ cmd[e].obj \in Objects
      BY <1>8, <2>1, <3>1, <3>2
    <3> QED BY <1>1, <1>7, <2>1, <3>1, <3>3 DEF LockInv, MountOnce, MountsDeferred
  <2> QED BY <2>1 DEF MountOnce, MountsDeferred
<1> QED BY <1>6, <1>9, <1>10 DEF IInv, LockInv

-----------------------------------------------------------------------------
(* Building and undoing a session.                                         *)

LEMMA BuildInv ==
  ASSUME IInv, NEW o \in Objects, Start(o) \/ StartFails(o)
  PROVE  IInv'
<1>1. /\ TypeOK /\ LockInv /\ EndInv /\ obj[o].stage = "build" /\ obj[o].todo # << >>
      /\ UNCHANGED <<table, made, cmd, closer, mountAt, strayed>> /\ cmd' \in [Cmds -> CallType]
  BY DEF IInv, Start, StartFails, TypeOK
<1>2. /\ o =< made /\ obj[o] \in SessionType /\ made \in Nat
      /\ obj[o].todo \in Seq(Configured) /\ obj[o].held \subseteq Configured
      /\ obj[o].started \subseteq obj[o].held \cup obj[o].closed
      /\ (mountAt = "exec" => ~Occurs("ws", obj[o].todo))
  <2>1. obj[o] # NoSession
    BY <1>1 DEF NoSession
  <2> QED BY <1>1, <2>1, Numbers DEF TypeOK, EndInv, ObjectsMade, Kept
<1>3. ASSUME NEW n \in SessionType, obj' = [obj EXCEPT ![o] = n], n.id = obj[o].id,
             n.closed = obj[o].closed, n.lock = obj[o].lock, n.lost = obj[o].lost,
             n.todo \in Seq(Configured), n.held \subseteq Configured,
             n.started \subseteq n.held \cup n.closed,
             n.stage = "build" /\ mountAt = "exec" => ~Occurs("ws", n.todo),
             "ws" \in n.started => "ws" \in obj[o].started \/ mountAt # "exec",
             n.stage = "build" \/ (n.stage = "undo" /\ n.todo = Unwind)
      PROVE  IInv'
  <2>1. TypeOK' /\ EndInv'
    BY <1>1, <1>2, <1>3, SessionStep
  <2>a. obj'[o] = n /\ \A p \in Objects \ {o} : obj'[p] = obj[p]
    BY <1>1, <1>3 DEF TypeOK
  <2>2. LocksKept
    BY <1>3, <2>a DEF LocksKept
  <2>3. LockInv'
    BY <1>1, <1>2, <2>2, LocksIdle
  <2> QED BY <2>1, <2>3 DEF IInv
<1>4. CASE Start(o)
  <2> DEFINE r == Head(obj[o].todo)
  <2>1. PICK up \in BOOLEAN :
          obj' = [obj EXCEPT ![o] =
                     [obj[o] EXCEPT !.todo = Tail(obj[o].todo),
                                    !.held = IF up THEN obj[o].held \cup {r} ELSE obj[o].held,
                                    !.started = IF up THEN obj[o].started \cup {r} ELSE obj[o].started]]
    BY <1>4 DEF Start
  <2>2. /\ Tail(obj[o].todo) \in Seq(Configured) /\ r \in Configured
        /\ \A q : Occurs(q, obj[o].todo) <=> q = r \/ Occurs(q, Tail(obj[o].todo))
    BY <1>1, <1>2, OccursTail
  <2>3. PICK u \in {{}, {r}} :
          obj' = [obj EXCEPT ![o] = [obj[o] EXCEPT !.todo = Tail(obj[o].todo),
                                                   !.held = obj[o].held \cup u,
                                                   !.started = obj[o].started \cup u]]
    <3>1. CASE up
      BY <2>1, <3>1
    <3>2. CASE ~up
      <4>1. obj[o].held = obj[o].held \cup {} /\ obj[o].started = obj[o].started \cup {}
        OBVIOUS
      <4> QED BY <2>1, <3>2, <4>1
    <3> QED BY <3>1, <3>2
  <2> DEFINE n == [obj[o] EXCEPT !.todo = Tail(obj[o].todo), !.held = obj[o].held \cup u,
                                 !.started = obj[o].started \cup u]
  <2>4. Tail(obj[o].todo) \in Seq(Resources) /\ u \subseteq Configured /\ u \subseteq Resources
    BY <2>2, ConfiguredSeqs, ConfiguredAssumption
  <2>5. obj' = [obj EXCEPT ![o] = n]
    BY <2>3
  <2>6. /\ n \in SessionType /\ n.id = obj[o].id /\ n.closed = obj[o].closed
        /\ n.todo = Tail(obj[o].todo) /\ n.held = obj[o].held \cup u /\ n.stage = obj[o].stage
        /\ n.lock = obj[o].lock /\ n.started = obj[o].started \cup u /\ n.lost = obj[o].lost
    BY <1>2, <2>4 DEF SessionType
  <2> HIDE DEF n
  <2>7. n.started \subseteq n.held \cup n.closed /\ n.held \subseteq Configured
    BY <1>2, <2>4, <2>6
  <2>8. mountAt = "exec" => ~Occurs("ws", n.todo) /\ "ws" # r
    BY <1>2, <2>2, <2>6
  <2>9. "ws" \in n.started => "ws" \in obj[o].started \/ mountAt # "exec"
    BY <2>3, <2>6, <2>8
  <2> QED BY <1>1, <1>3, <2>2, <2>5, <2>6, <2>7, <2>8, <2>9
<1>5. CASE StartFails(o)
  <2> DEFINE n == [obj[o] EXCEPT !.stage = "undo", !.todo = Unwind]
  <2>1. obj' = [obj EXCEPT ![o] = n]
    BY <1>5 DEF StartFails
  <2>2. Unwind \in Seq(Configured) /\ Unwind \in Seq(Resources)
    BY Orders, ConfiguredSeqs
  <2>3. /\ n \in SessionType /\ n.id = obj[o].id /\ n.closed = obj[o].closed
        /\ n.todo = Unwind /\ n.held = obj[o].held /\ n.stage = "undo" /\ n.lock = obj[o].lock
        /\ n.started = obj[o].started /\ n.lost = obj[o].lost
    BY <1>2, <2>2 DEF SessionType
  <2> HIDE DEF n
  <2> QED BY <1>2, <1>3, <2>1, <2>2, <2>3
<1> QED BY <1>4, <1>5

LEMMA UndoInv ==
  ASSUME IInv, NEW o \in Objects, Undo(o)
  PROVE  IInv'
<1>1. /\ TypeOK /\ LockInv /\ EndInv /\ obj[o].stage = "undo" /\ made \in Nat
      /\ UNCHANGED <<made, cmd, closer, mountAt>>
  BY Numbers DEF IInv, Undo, TypeOK
<1>2. TypeOK' /\ EndInv' /\ LocksKept
  <2>1. CASE obj[o].todo # << >>
    BY <1>1, <2>1, UndoCloses DEF Undo
  <2>2. CASE obj[o].todo = << >>
    BY <1>1, <2>2, UndoEnds DEF Undo
  <2> QED BY <2>1, <2>2
<1> QED BY <1>1, <1>2, LocksIdle DEF IInv

LEMMA ExitInv ==
  ASSUME IInv, NEW o \in Objects, DBProxyExits(o)
  PROVE  IInv'
<1>1. TypeOK /\ LockInv /\ EndInv /\ made \in Nat /\ made' = made /\ UNCHANGED <<cmd, mountAt>>
  BY Numbers DEF IInv, TypeOK, DBProxyExits
<1> QED BY <1>1, ExitEnds, LocksIdle DEF IInv

LEMMA EndingInv ==
  ASSUME IInv, NEW k \in Closers,
         \/ \E s \in Ids : DestroySession(k, s) \/ Expire(k, s)
         \/ Reap(k) \/ CloseNext(k) \/ CloseDone(k)
  PROVE  IInv'
<1>1. TypeOK /\ LockInv /\ EndInv /\ made \in Nat
  BY Numbers DEF IInv, TypeOK
<1>2. cmd' = cmd /\ made' = made /\ mountAt' = mountAt
  BY DEF DestroySession, Expire, Reap, CloseNext, CloseDone
<1>3. TypeOK' /\ EndInv'
  BY <1>1, DestroySessionEnds, ExpireEnds, ReapEnds, CloseNextEnds, CloseDoneEnds
<1>4. LocksKept
  <2>1. CASE CloseNext(k)
    BY <1>1, <2>1, CloseNextEnds
  <2> QED BY <2>1 DEF LocksKept, DestroySession, Expire, Reap, CloseDone
<1> QED BY <1>1, <1>2, <1>3, <1>4, LocksIdle DEF IInv

LEMMA CreateInv ==
  ASSUME IInv, NEW s \in Ids, CreateWithID(s)
  PROVE  IInv'
<1>1. TypeOK /\ LockInv /\ EndInv /\ made \in Nat /\ made' = made + 1 /\ UNCHANGED <<cmd, mountAt>>
  BY Numbers DEF IInv, TypeOK, CreateWithID
<1>2. TypeOK' /\ EndInv' /\ LocksKept
  BY <1>1, CreateEnds
<1>3. made' \in Nat /\ made =< made'
  BY <1>1
<1> QED BY <1>1, <1>2, <1>3, LocksIdle DEF IInv

-----------------------------------------------------------------------------
(* Every step.                                                             *)

LEMMA InitInv == Init => IInv
<1> SUFFICES ASSUME Init PROVE IInv
  OBVIOUS
<1>1. /\ NoSession.id = None /\ NoSession.stage = "none" /\ NoSession.todo = << >>
      /\ NoSession.held = {} /\ NoSession.closed = {} /\ NoSession.lock = None
      /\ NoSession.started = {}
  BY DEF NoSession
<1>2. NoSession \in SessionType
  BY DEF NoSession, SessionType
<1>3. Call("idle", 0) \in CallType /\ Call("idle", 0).pc = "idle"
  BY Numbers DEF Call, CallType
<1>4. Closing("idle", None, 0) \in CloserType /\ Closing("idle", None, 0).pc = "idle"
  BY Numbers, ClosingFields
<1>5. /\ \A o \in Objects : obj[o] = NoSession
      /\ \A c \in Cmds : cmd[c].pc = "idle"
      /\ \A k \in Closers : closer[k].pc = "idle"
      /\ \A s \in Ids : table[s] = 0
      /\ made = 0
  BY <1>3, <1>4 DEF Init
<1>6. mountAt \in {"create", "exec"}
  BY Zenon DEF Init
<1>7. TypeOK
  <2>1. /\ obj \in [Objects -> SessionType] /\ cmd \in [Cmds -> CallType]
        /\ closer \in [Closers -> CloserType]
    BY <1>2, <1>3, <1>4 DEF Init
  <2> QED BY <1>5, <1>6, <2>1, Numbers DEF Init, TypeOK
<1>8. LockInv
  BY <1>1, <1>5 DEF LockInv, CallsMade, LockHeld, MountOnce, MountsDeferred
<1>9. ObjectsMade /\ RefsMade
  <2>1. \A o \in Objects : ~(o =< made)
    BY <1>5, Numbers
  <2>2. << >> \in Seq(Configured)
    OBVIOUS
  <2>a. ObjectsMade
    BY <1>1, <1>5, <2>1, <2>2 DEF ObjectsMade
  <2>3. RefsMade
    BY <1>5 DEF RefsMade
  <2> QED BY <2>a, <2>3
<1>10. Kept /\ LiveClosed /\ ClosersThorough /\ RemovedClosed
  BY <1>1, <1>5 DEF Kept, LiveClosed, ClosersThorough, RemovedClosed, Removed
<1> QED BY <1>7, <1>8, <1>9, <1>10 DEF IInv, EndInv

LEMMA StepInv == IInv /\ [Next]_vars => IInv'
<1> SUFFICES ASSUME IInv, [Next]_vars PROVE IInv'
  OBVIOUS
<1>1. CASE UNCHANGED vars
  <2>1. UNCHANGED <<table, made, obj, cmd, closer, mountAt, strayed>>
    BY <1>1 DEF vars
  <2>2. TypeOK /\ LockInv /\ EndInv /\ made \in Nat /\ cmd \in [Cmds -> CallType]
    BY Numbers DEF IInv, TypeOK
  <2>3. LocksKept
    BY <2>1 DEF LocksKept
  <2> QED BY <2>1, <2>2, <2>3, SameEnds, LocksIdle DEF IInv
<1>2. CASE Next
  BY <1>2, CreateInv, EndingInv, GetInv, BuildInv, UndoInv, ExitInv, LockExecInv,
     EnsureInv, MountInv, FinishInv DEF Next
<1> QED BY <1>1, <1>2

LEMMA Inductive == Spec => []IInv
BY InitInv, StepInv, PTL DEF Spec

-----------------------------------------------------------------------------
(* The theorems.                                                           *)

\* A workspace is mounted at most once: between ensureFUSEMount's look at
\* WorkspaceMount and its mount no other command of the session mounts.
THEOREM MountedOnce == Spec => []MountOnce
<1>1. IInv => MountOnce
  BY DEF IInv, LockInv
<1> QED BY <1>1, Inductive, PTL

\* No route out of a session takes from it what was started and leaves it in
\* the map, although none of them takes execMu and ids are used again; only a
\* DB proxy that exits by itself goes missing.
THEOREM NoneHalfClosed == Spec => []LiveIntact
<1>1. IInv => LiveIntact
  <2> SUFFICES ASSUME IInv, NEW o \in Objects, obj[o].stage = "build", ~Removed(o),
                      \A k \in Closers : closer[k].pc = "close" => closer[k].obj # o
               PROVE  obj[o].started \ obj[o].held \subseteq obj[o].lost
    BY DEF LiveIntact
  <2>1. obj[o].closed \subseteq obj[o].lost
    BY DEF IInv, EndInv, LiveClosed
  <2>2. obj[o].started \subseteq obj[o].held \cup obj[o].closed
    BY DEF IInv, EndInv, Kept
  <2> QED BY <2>1, <2>2
<1> QED BY <1>1, Inductive, PTL

\* However creation, undoing, the two destroy handlers and the reaper overlap,
\* of what a session that is gone still holds, the network interception and the
\* mount had been closed by one of them before they were started, unless the
\* handler that deleted the session held another object.
THEOREM EndedIsClosed == Spec => []LeaksOnlyRaced
<1>1. IInv => LeaksOnlyRaced
  <2> SUFFICES ASSUME IInv, NEW o \in Objects, Removed(o), Quiet(o), o \notin strayed,
                      NEW r \in obj[o].held \cap {"net", "ws"}
               PROVE  r \in obj[o].closed
    BY DEF LeaksOnlyRaced
  <2>1. r \in MustClose
    BY DEF IInv, EndInv, ObjectsMade, MustClose
  <2>2. \A k \in Closers : ~ClosedBy(k, o, r)
    BY DEF Quiet, ClosedBy
  <2> QED BY <2>1, <2>2 DEF IInv, EndInv, RemovedClosed
<1> QED BY <1>1, Inductive, PTL
=============================================================================
