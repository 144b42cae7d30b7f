------------------------------ MODULE Sessions ------------------------------
(***************************************************************************)
(* Sessions of the CAW daemon and the commands that run in them.           *)
(*                                                                         *)
(* The session manager (internal/session/manager.go) is a map from ids to  *)
(* Session objects.  A handler looks an object up once and keeps it: a     *)
(* session that was destroyed or reaped in the meantime is still worked on *)
(* by the handlers that hold it, and its id may be given to a new object.  *)
(*   - createSessionCore enters the object in the map first and then       *)
(*     starts, one after the other, what the session needs;                *)
(*   - execInSessionCore takes the object's execMu, checks the command,    *)
(*     waits for the approvals it needs and runs the process, all under    *)
(*     that mutex (Approvals describes what happens inside);               *)
(*   - destroySession, the gRPC DestroySession and the reaper close what   *)
(*     was started and delete the id, each in an order of its own;         *)
(*   - a goroutine per DB proxy closes it when it exits by itself.         *)
(* Of these, only execInSessionCore takes execMu.                          *)
(***************************************************************************)
EXTENDS Integers, Sequences

CONSTANTS
    Ids,        \* session ids
    Cmds,       \* execInSessionCore calls, one command each
    Closers,    \* calls of a destroy handler, and rounds of the reaper
    Configured, \* what a session of this daemon is given, of Resources
    MaxObjects, \* bound: Session objects that are ever created
    None

(* What a session holds: the DB proxy, the FUSE mount of its workspace,    *)
(* its network interception (a namespace, or the proxy it falls back to)   *)
(* and the LLM proxy with the table of its credentials.                    *)
Resources == {"db", "ws", "net", "llm"}

ASSUME MaxObjectsAssumption == MaxObjects \in Nat
ASSUME ConfiguredAssumption == Configured \subseteq Resources
ASSUME NoneAssumption == None \notin Ids /\ None \notin Cmds

Objects == 1..MaxObjects

VARIABLES
    table,      \* m.sessions: the object of each id, 0 when there is none
    made,       \* objects created so far
    obj,        \* the Session objects
    cmd,        \* where each exec call stands
    closer,     \* where each destroy call or reaper round stands
    mountAt,    \* when a workspace is mounted: cfg.Sandbox.FUSE.Deferred
    strayed     \* history: objects deleted by a handler that holds another one

vars == <<table, made, obj, cmd, closer, mountAt, strayed>>

(* Of what a session was given it holds what has not been closed.  Of its  *)
(* workspace, started is the field WorkspaceMount, which nothing resets;   *)
(* the rest of started, closed and lost are history: what was started,     *)
(* what was closed, and what was closed because it had exited.             *)
SessionType ==
    [id : Ids \cup {None}, stage : {"none", "build", "undo", "failed"}, todo : Seq(Resources),
     held : SUBSET Resources, started : SUBSET Resources, closed : SUBSET Resources,
     lost : SUBSET Resources, lock : Cmds \cup {None}]
CallType == [pc : {"idle", "queued", "mount", "mounting", "run", "done"}, obj : 0..MaxObjects]
CloserType ==
    [pc : {"idle", "expired", "close", "done"}, route : {"http", "grpc", "reap"},
     sid : Ids \cup {None}, obj : 0..MaxObjects, todo : Seq(Resources)]

TypeOK ==
    /\ table \in [Ids -> 0..MaxObjects]
    /\ made \in 0..MaxObjects
    /\ obj \in [Objects -> SessionType]
    /\ cmd \in [Cmds -> CallType]
    /\ closer \in [Closers -> CloserType]
    /\ mountAt \in {"create", "exec"}
    /\ strayed \subseteq Objects
    /\ \A s \in Ids : table[s] # 0 => obj[table[s]].id = s

Call(pc, o) == [pc |-> pc, obj |-> o]
Closing(pc, s, o) == [pc |-> pc, route |-> "reap", sid |-> s, obj |-> o, todo |-> <<>>]
NoSession == [id |-> None, stage |-> "none", todo |-> <<>>, held |-> {},
              started |-> {}, closed |-> {}, lost |-> {}, lock |-> None]

Init ==
    /\ table = [s \in Ids |-> 0]
    /\ made = 0
    /\ obj = [o \in Objects |-> NoSession]
    /\ cmd = [c \in Cmds |-> Call("idle", 0)]
    /\ closer = [k \in Closers |-> Closing("idle", None, 0)]
    /\ mountAt \in {"create", "exec"}
    /\ strayed = {}

----------------------------------------------------------------------------
(* Creating a session *)

(* Starting or closing what is not configured does nothing.                *)
If(r) == IF r \in Configured THEN <<r>> ELSE <<>>

(* What createSessionCore starts, in its order.                            *)
Plan == If("db") \o (IF mountAt = "exec" THEN <<>> ELSE If("ws")) \o If("net") \o If("llm")

(* What cleanupCreatedSession closes, in its order.                        *)
Unwind == If("db") \o If("net") \o If("llm") \o If("ws")

(* CreateWithID: the object is in the map before anything is started.      *)
CreateWithID(s) ==
    /\ table[s] = 0
    /\ made < MaxObjects
    /\ made' = made + 1
    /\ table' = [table EXCEPT ![s] = made']
    /\ obj' = [obj EXCEPT ![made'] = [@ EXCEPT !.id = s, !.stage = "build", !.todo = Plan]]
    /\ UNCHANGED <<cmd, closer, mountAt, strayed>>

(* The next thing is started and its closer is stored in the object, or it *)
(* is not there and createSessionCore goes on without it.                  *)
Start(o) ==
    /\ obj[o].stage = "build"
    /\ obj[o].todo # <<>>
    /\ LET r == Head(obj[o].todo) IN
       \E up \in BOOLEAN :
          obj' = [obj EXCEPT ![o] =
                     [obj[o] EXCEPT !.todo = Tail(@),
                                    !.held = IF up THEN @ \cup {r} ELSE @,
                                    !.started = IF up THEN @ \cup {r} ELSE @]]
    /\ UNCHANGED <<table, made, cmd, closer, mountAt, strayed>>

(* compileDBPolicyForSession or startSessionDBProxy fails, before anything *)
(* was started: the handler turns to cleanupCreatedSession.                *)
StartFails(o) ==
    /\ obj[o].stage = "build"
    /\ obj[o].todo # <<>>
    /\ obj[o].todo = Plan
    /\ obj' = [obj EXCEPT ![o] = [@ EXCEPT !.stage = "undo", !.todo = Unwind]]
    /\ UNCHANGED <<table, made, cmd, closer, mountAt, strayed>>

(* CloseDBProxy, CloseNetNS with CloseProxy, CloseLLMProxy and             *)
(* UnmountWorkspace each take the stored function out under s.mu.          *)
Closed(s, r) == [s EXCEPT !.held = @ \ {r}, !.closed = @ \cup {r}]

(* monitorSessionDBProxyStart: the DB proxy's serve loop has returned      *)
(* although nobody closed the proxy.  It is closed; the session stays.     *)
DBProxyExits(o) ==
    /\ "db" \in obj[o].held
    /\ obj' = [obj EXCEPT ![o] = [Closed(obj[o], "db") EXCEPT !.lost = obj[o].lost \cup {"db"}]]
    /\ UNCHANGED <<table, made, cmd, closer, mountAt, strayed>>

(* Manager.Destroy takes an id: it deletes whatever object has it now.     *)
Destroy(s, o) ==
    /\ table' = [table EXCEPT ![s] = 0]
    /\ strayed' = strayed \cup ({table[s]} \ {0, o})

(* cleanupCreatedSession.                                                  *)
Undo(o) ==
    /\ obj[o].stage = "undo"
    /\ \/ /\ obj[o].todo # <<>>
          /\ obj' = [obj EXCEPT ![o] = [Closed(@, Head(@.todo)) EXCEPT !.todo = Tail(obj[o].todo)]]
          /\ UNCHANGED <<table, strayed>>
       \/ /\ obj[o].todo = <<>>
          /\ Destroy(obj[o].id, o)
          /\ obj' = [obj EXCEPT ![o].stage = "failed"]
    /\ UNCHANGED <<made, cmd, closer, mountAt>>

----------------------------------------------------------------------------
(* Ending a session *)

\* Slip: the reaper leaves the workspace mounted.
ClosesNoMount(route) ==
    (IF route = "grpc" THEN <<>> ELSE If("db")) \o If("net")
        \o (IF route = "reap" THEN <<>> ELSE If("ws"))

(* What each route closes, in its order.  Only cleanupCreatedSession calls *)
(* CloseLLMProxy, and the gRPC handler leaves the DB proxy out.            *)
Closes(route) == (IF route = "grpc" THEN <<>> ELSE If("db")) \o If("net") \o If("ws")

(* destroySession and the gRPC handler look the object up.                 *)
DestroySession(k, s) ==
    /\ closer[k].pc = "idle"
    /\ table[s] # 0
    /\ \E route \in {"http", "grpc"} :
          closer' = [closer EXCEPT ![k] = [Closing("close", s, table[s]) EXCEPT
                                              !.route = route, !.todo = Closes(route)]]
    /\ UNCHANGED <<table, made, obj, cmd, mountAt, strayed>>

(* ReapExpired, first pass: an id whose object is over its timeout, busy   *)
(* or not.                                                                 *)
Expire(k, s) ==
    /\ closer[k].pc = "idle"
    /\ table[s] # 0
    /\ closer' = [closer EXCEPT ![k] = Closing("expired", s, 0)]
    /\ UNCHANGED <<table, made, obj, cmd, mountAt, strayed>>

(* Second pass: whatever object has the id now is deleted and returned for *)
(* reapOnce to close.                                                      *)
Reap(k) ==
    /\ closer[k].pc = "expired"
    /\ LET s == closer[k].sid
           o == table[s] IN
       /\ table' = [table EXCEPT ![s] = 0]
       /\ closer' = [closer EXCEPT ![k] =
                        IF o = 0 THEN Closing("done", None, 0)
                        ELSE [Closing("close", s, o) EXCEPT !.todo = Closes("reap")]]
    /\ UNCHANGED <<made, obj, cmd, mountAt, strayed>>

CloseNext(k) ==
    /\ closer[k].pc = "close"
    /\ closer[k].todo # <<>>
    /\ obj' = [obj EXCEPT ![closer[k].obj] = Closed(@, Head(closer[k].todo))]
    /\ closer' = [closer EXCEPT ![k].todo = Tail(@)]
    /\ UNCHANGED <<table, made, cmd, mountAt, strayed>>

\* Slip: the gRPC handler closes without deleting.
CloseDoneNoDelete(k) ==
    /\ closer[k].pc = "close"
    /\ closer[k].todo = <<>>
    /\ IF closer[k].route = "http" THEN Destroy(closer[k].sid, closer[k].obj)
                                   ELSE UNCHANGED <<table, strayed>>
    /\ closer' = [closer EXCEPT ![k] = Closing("done", None, 0)]
    /\ UNCHANGED <<made, obj, cmd, mountAt>>

(* The destroy handlers delete the id last.                                *)
CloseDone(k) ==
    /\ closer[k].pc = "close"
    /\ closer[k].todo = <<>>
    /\ IF closer[k].route = "reap" THEN UNCHANGED <<table, strayed>>
                                   ELSE Destroy(closer[k].sid, closer[k].obj)
    /\ closer' = [closer EXCEPT ![k] = Closing("done", None, 0)]
    /\ UNCHANGED <<made, obj, cmd, mountAt>>

----------------------------------------------------------------------------
(* Running a command *)

(* a.sessions.Get: the object is looked up once, before the wait for its   *)
(* execMu.                                                                 *)
Get(c, s) ==
    /\ cmd[c].pc = "idle"
    /\ cmd' = [cmd EXCEPT ![c] = Call(IF table[s] = 0 THEN "done" ELSE "queued", table[s])]
    /\ UNCHANGED <<table, made, obj, closer, mountAt, strayed>>

\* Slip: the command does not wait for the one before it.
LockExecNoWait(c) ==
    /\ cmd[c].pc = "queued"
    /\ obj' = [obj EXCEPT ![cmd[c].obj].lock = c]
    /\ cmd' = [cmd EXCEPT ![c].pc = "mount"]
    /\ UNCHANGED <<table, made, closer, mountAt, strayed>>

LockExec(c) ==
    /\ cmd[c].pc = "queued"
    /\ obj[cmd[c].obj].lock = None
    /\ obj' = [obj EXCEPT ![cmd[c].obj].lock = c]
    /\ cmd' = [cmd EXCEPT ![c].pc = "mount"]
    /\ UNCHANGED <<table, made, closer, mountAt, strayed>>

(* ensureFUSEMount: with a deferred mount, a command that finds            *)
(* WorkspaceMount unset, and FUSE and the policy in order, goes on to      *)
(* mount the workspace.  It reads the field without s.mu.                  *)
EnsureFUSEMount(c) ==
    /\ cmd[c].pc = "mount"
    /\ \/ cmd' = [cmd EXCEPT ![c].pc = "run"]
       \/ /\ mountAt = "exec" /\ "ws" \in Configured
          /\ "ws" \notin obj[cmd[c].obj].started
          /\ cmd' = [cmd EXCEPT ![c].pc = "mounting"]
    /\ UNCHANGED <<table, made, obj, closer, mountAt, strayed>>

(* mountFUSEForSession: the mount, SetWorkspaceMount and                   *)
(* SetWorkspaceUnmount, or a mount that fails.                             *)
MountFUSE(c) ==
    /\ cmd[c].pc = "mounting"
    /\ \/ UNCHANGED obj
       \/ obj' = [obj EXCEPT ![cmd[c].obj] =
                     [obj[cmd[c].obj] EXCEPT !.held = @ \cup {"ws"}, !.started = @ \cup {"ws"}]]
    /\ cmd' = [cmd EXCEPT ![c].pc = "run"]
    /\ UNCHANGED <<table, made, closer, mountAt, strayed>>

(* The checks, the approvals and the process are over, whatever came of    *)
(* them, and the deferred unlock runs.                                     *)
Finish(c) ==
    /\ cmd[c].pc = "run"
    /\ obj' = [obj EXCEPT ![cmd[c].obj].lock = None]
    /\ cmd' = [cmd EXCEPT ![c] = Call("done", 0)]
    /\ UNCHANGED <<table, made, closer, mountAt, strayed>>

Next ==
    \/ \E s \in Ids :
          \/ CreateWithID(s)
          \/ \E k \in Closers : DestroySession(k, s) \/ Expire(k, s)
          \/ \E c \in Cmds : Get(c, s)
    \/ \E o \in Objects : Start(o) \/ StartFails(o) \/ Undo(o) \/ DBProxyExits(o)
    \/ \E k \in Closers : Reap(k) \/ CloseNext(k) \/ CloseDone(k)
    \/ \E c \in Cmds : LockExec(c) \/ EnsureFUSEMount(c) \/ MountFUSE(c) \/ Finish(c)

Spec == Init /\ [][Next]_vars

----------------------------------------------------------------------------
(* Properties *)

Removed(o) == obj[o].stage # "none" /\ table[obj[o].id] # o

(* Nobody creates, undoes or closes o, or mounts its workspace, any more.  *)
Quiet(o) ==
    /\ obj[o].stage # "undo"
    /\ obj[o].todo = <<>>
    /\ \A k \in Closers : closer[k].pc = "close" => closer[k].obj # o
    /\ \A c \in Cmds : cmd[c].pc \in {"queued", "mount", "mounting"} => cmd[c].obj # o

(***************************************************************************)
(* When a session is gone and nobody works on it any more, what it still   *)
(* holds of its network interception and its workspace mount was started   *)
(* after a handler had closed it already (the object is in the map before  *)
(* it is built, and a deferred mount is made by a queued command), or its  *)
(* id was deleted by a handler that held another object.  Every other      *)
(* order of creation, destruction, reaping and commands releases both.     *)
(***************************************************************************)
LeaksOnlyRaced ==
    \A o \in Objects :
        Removed(o) /\ Quiet(o) /\ o \notin strayed =>
            obj[o].held \cap {"net", "ws"} \subseteq obj[o].closed

(***************************************************************************)
(* A session that can still be looked up, and that nobody is closing,      *)
(* holds everything that was started for it, but for a DB proxy that       *)
(* exited by itself: no handler tears down the network interception or the *)
(* mount of a session and leaves it in the map for the next command,       *)
(* whichever object its id stands for by then.                             *)
(***************************************************************************)
LiveIntact ==
    \A o \in Objects :
        /\ obj[o].stage = "build" /\ ~Removed(o)
        /\ \A k \in Closers : closer[k].pc = "close" => closer[k].obj # o
        => obj[o].started \ obj[o].held \subseteq obj[o].lost

(***************************************************************************)
(* A workspace is mounted at most once, whichever commands, destroys and   *)
(* creations meet: ensureFUSEMount looks at WorkspaceMount and mounts in   *)
(* two steps, and a second mount would overwrite the function that undoes  *)
(* the first one.                                                          *)
(***************************************************************************)
MountOnce ==
    \A c \in Cmds : cmd[c].pc = "mounting" => "ws" \notin obj[cmd[c].obj].started

(***************************************************************************)
(* What credsub/doc.go, credsub/table.go and session/manager.go say of the *)
(* credential table: it is zeroed when the session is closed.              *)
(***************************************************************************)
CredsZeroed == \A o \in Objects : Removed(o) /\ Quiet(o) => "llm" \notin obj[o].held
============================================================================
