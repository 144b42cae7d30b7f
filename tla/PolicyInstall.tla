--------------------------- MODULE PolicyInstall ---------------------------
(***************************************************************************)
(* How a policy the Watchtower server pushes becomes the policy the daemon *)
(* enforces: makePolicyInstallHook and atomicWrite of                      *)
(* AEP-CAW/internal/server/wtp.go, Manager of internal/policy/manager.go,  *)
(* the start of internal/server/server.go, SwapPolicy and the creation of  *)
(* a session in internal/api (session_policy.go, core.go).                 *)
(*                                                                         *)
(* The hook runs on the transport's goroutine, one push at a time; API     *)
(* goroutines create sessions meanwhile; the operator may edit a policy    *)
(* file; a write may fail and the daemon may die between any two steps.    *)
(*                                                                         *)
(* Abstractions: a policy's bytes are a number and a .sig file holds the   *)
(* number of the bytes it signs.  Factory is what the operator installed,  *)
(* Edited what he left unsigned, the others the contents the server may    *)
(* bind, all signed by a trusted key.  Contents in Broken do not parse or  *)
(* do not compile.  A push that fails the trust store, the signature or    *)
(* the hash is not genuine.  The tmp file of atomicWrite is left out.      *)
(***************************************************************************)
EXTENDS Integers, FiniteSets

CONSTANTS
    Ids,        \* policy names
    Selected,   \* Manager.selectedName
    Pushed,     \* contents the server may bind
    Broken,     \* contents that do not load
    Sessions,   \* session identifiers
    MaxBinds,   \* bound: bindings by the server
    MaxFaults   \* bound: failed writes and deaths of the daemon

ASSUME PolicyConstants ==
    /\ Selected \in Ids
    /\ Pushed \subseteq Nat \ {0} /\ Broken \subseteq Pushed
    /\ MaxBinds \in Nat /\ MaxFaults \in Nat

Factory == 0
Edited  == -1
Nothing == -2
Contents == Pushed \cup {Factory, Edited}

VARIABLES
    mode,     \* Signing.SigningMode(): "enforce" or "warn"
    yaml,     \* the bytes of {dir}/{id}.yaml
    sig,      \* the bytes {dir}/{id}.yaml.sig signs
    daemon,   \* server.New: "down", "loaded" (WTP runs, App not published), "up"
    engine,   \* App.policy: its content, and whether feeds and Tor are attached
    hook,     \* the install callback: where it is, the push, what Reload returned
    last,     \* lastID, lastHash and engineSwapped of the callback's closure
    sess,     \* sessions: step of createSessionCore, name, bytes read, engine
    bound,    \* server: the policy bound to this agent
    binds,    \* bound counter
    faults,   \* bound counter
    edited,   \* history: the operator edited the selected file
    cut       \* history: names whose install ended between the two renames

vars == <<mode, yaml, sig, daemon, engine, hook, last, sess, bound, binds, faults,
          edited, cut>>

NoEngine  == [content |-> Nothing, wired |-> FALSE]
NoSession == [pc |-> "none", name |-> Selected, content |-> Nothing]
IdleHook  == [pc |-> "idle", id |-> Selected, content |-> Nothing, loaded |-> Nothing]
NotYet    == [id |-> Selected, content |-> Nothing, swapped |-> FALSE]

-----------------------------------------------------------------------------
(* Loading.                                                                *)

\* VerifyPolicyBytes over bytes read earlier, with the .sig file of now.
SigMatches(c, id) == c # Edited /\ sig[id] = c

\* loadLocked, and the loading in createSessionCore: the signature decides in
\* enforce mode only; then parse, validate, compile.
Loads(c, id) == (mode = "enforce" => SigMatches(c, id)) /\ c \notin Broken

\* server.New up to the Watchtower store: Manager.Get, NewEngine, the feeds and
\* the Tor coordinator attached.  On an error the daemon does not start.
Start ==
    /\ daemon = "down" /\ Loads(yaml[Selected], Selected)
    /\ daemon' = "loaded"
    /\ engine' = [content |-> yaml[Selected], wired |-> TRUE]
    /\ UNCHANGED <<mode, yaml, sig, hook, last, sess, bound, binds, faults, edited, cut>>

\* appHolder.Store(app).
Publish ==
    /\ daemon = "loaded"
    /\ daemon' = "up"
    /\ UNCHANGED <<mode, yaml, sig, engine, hook, last, sess, bound, binds, faults, edited,
                   cut>>

-----------------------------------------------------------------------------
(* The hook.                                                               *)

Return == hook' = IdleHook
At(pc) == hook.pc = pc

\* Slip: the dedup looks at the identity only.
KnownById(id, c) == last.swapped /\ id = last.id

\* The idempotency fast path.
Known(id, c) == last.swapped /\ id = last.id /\ c = last.content

\* The callback is invoked: by a SessionAck or a PolicyPush, both carry what is
\* bound.  A push that is not genuine is refused before anything is written.
Deliver(genuine) ==
    /\ daemon # "down" /\ At("idle")
    /\ hook' = IF Known(bound.id, bound.content) \/ ~genuine THEN IdleHook
               ELSE [IdleHook EXCEPT !.pc = "yaml", !.id = bound.id,
                                     !.content = bound.content]
    /\ UNCHANGED <<mode, yaml, sig, daemon, engine, last, sess, bound, binds, faults, edited,
                   cut>>

WriteYaml ==
    /\ At("yaml")
    /\ yaml' = [yaml EXCEPT ![hook.id] = hook.content]
    /\ hook' = [hook EXCEPT !.pc = "sig"]
    /\ UNCHANGED <<mode, sig, daemon, engine, last, sess, bound, binds, faults, edited, cut>>

\* Slip: a .sig file is written only when signatures are enforced.
WriteSigIfEnforced ==
    /\ At("sig")
    /\ sig' = IF mode = "enforce" THEN [sig EXCEPT ![hook.id] = hook.content] ELSE sig
    /\ hook' = [hook EXCEPT !.pc = "reload"]
    /\ cut' = cut \ {hook.id}
    /\ UNCHANGED <<mode, yaml, daemon, engine, last, sess, bound, binds, faults, edited>>

WriteSig ==
    /\ At("sig")
    /\ sig' = [sig EXCEPT ![hook.id] = hook.content]
    /\ hook' = [hook EXCEPT !.pc = "reload"]
    /\ cut' = cut \ {hook.id}
    /\ UNCHANGED <<mode, yaml, daemon, engine, last, sess, bound, binds, faults, edited>>

\* atomicWrite of either file fails: the hook gives up.
WriteFails ==
    /\ hook.pc \in {"yaml", "sig"} /\ faults < MaxFaults
    /\ faults' = faults + 1
    /\ cut' = IF At("sig") THEN cut \cup {hook.id} ELSE cut
    /\ Return
    /\ UNCHANGED <<mode, yaml, sig, daemon, engine, last, sess, bound, binds, edited>>

\* Slip: the identity is recorded as soon as the files are there.
ReloadRecords ==
    /\ At("reload")
    /\ hook' = IF Loads(yaml[Selected], Selected)
               THEN [hook EXCEPT !.pc = "swap", !.loaded = yaml[Selected]] ELSE IdleHook
    /\ last' = [id |-> hook.id, content |-> hook.content, swapped |-> TRUE]
    /\ UNCHANGED <<mode, yaml, sig, daemon, engine, sess, bound, binds, faults, edited, cut>>

\* Slip: Reload verifies nothing, the hook has verified the push.
ReloadUnverified ==
    /\ At("reload")
    /\ hook' = IF yaml[Selected] \notin Broken
               THEN [hook EXCEPT !.pc = "swap", !.loaded = yaml[Selected]] ELSE IdleHook
    /\ UNCHANGED <<mode, yaml, sig, daemon, engine, last, sess, bound, binds, faults, edited,
                   cut>>

\* Slip: Manager.Get instead of Reload, which has the policy of the start.
ReloadCached ==
    /\ At("reload")
    /\ hook' = [hook EXCEPT !.pc = "swap", !.loaded = engine.content]
    /\ UNCHANGED <<mode, yaml, sig, daemon, engine, last, sess, bound, binds, faults, edited,
                   cut>>

\* Manager.Reload and NewEngine: of the selected policy, whichever was pushed.
\* What the Manager caches is left out: only server.New calls Get.
Reload ==
    /\ At("reload")
    /\ hook' = IF Loads(yaml[Selected], Selected)
               THEN [hook EXCEPT !.pc = "swap", !.loaded = yaml[Selected]] ELSE IdleHook
    /\ UNCHANGED <<mode, yaml, sig, daemon, engine, last, sess, bound, binds, faults, edited,
                   cut>>

\* appHolder.Load, SwapPolicy and the record; without an App nothing is recorded.
Swap ==
    /\ At("swap") /\ Return
    /\ IF daemon = "up"
       THEN /\ engine' = [content |-> hook.loaded, wired |-> FALSE]
            /\ last' = [id |-> hook.id, content |-> hook.content, swapped |-> TRUE]
       ELSE UNCHANGED <<engine, last>>
    /\ UNCHANGED <<mode, yaml, sig, daemon, sess, bound, binds, faults, edited, cut>>

-----------------------------------------------------------------------------
(* createSessionCore.                                                      *)

\* os.ReadFile of the policy the request names.
SessionRead(s, id) ==
    /\ daemon = "up" /\ sess[s].pc = "none"
    /\ sess' = [sess EXCEPT ![s] = [pc |-> "read", name |-> id, content |-> yaml[id]]]
    /\ UNCHANGED <<mode, yaml, sig, daemon, engine, hook, last, bound, binds, faults, edited,
                   cut>>

\* Verification of the bytes read against the .sig file of now, then the
\* session's own engine; or the request is refused.
SessionCompile(s) ==
    /\ sess[s].pc = "read"
    /\ sess' = [sess EXCEPT ![s] = IF Loads(@.content, @.name)
                                   THEN [@ EXCEPT !.pc = "active"] ELSE NoSession]
    /\ UNCHANGED <<mode, yaml, sig, daemon, engine, hook, last, bound, binds, faults, edited,
                   cut>>

SessionEnds(s) ==
    /\ sess[s].pc = "active"
    /\ sess' = [sess EXCEPT ![s] = NoSession]
    /\ UNCHANGED <<mode, yaml, sig, daemon, engine, hook, last, bound, binds, faults, edited,
                   cut>>

-----------------------------------------------------------------------------
(* The environment.                                                        *)

ServerBinds ==
    /\ binds < MaxBinds /\ binds' = binds + 1
    /\ bound' \in [id : Ids, content : Pushed]
    /\ UNCHANGED <<mode, yaml, sig, daemon, engine, hook, last, sess, faults, edited, cut>>

\* The operator edits the selected file by hand, once.
Edit ==
    /\ ~edited /\ edited' = TRUE
    /\ yaml' = [yaml EXCEPT ![Selected] = Edited]
    /\ UNCHANGED <<mode, sig, daemon, engine, hook, last, sess, bound, binds, faults, cut>>

\* The daemon dies; the files stay.
Die ==
    /\ daemon # "down" /\ faults < MaxFaults
    /\ faults' = faults + 1
    /\ daemon' = "down" /\ engine' = NoEngine /\ last' = NotYet /\ Return
    /\ sess' = [s \in Sessions |-> NoSession]
    /\ cut' = IF At("sig") THEN cut \cup {hook.id} ELSE cut
    /\ UNCHANGED <<mode, yaml, sig, bound, binds, edited>>

-----------------------------------------------------------------------------
Init ==
    /\ mode \in {"enforce", "warn"}
    /\ yaml = [id \in Ids |-> Factory] /\ sig = yaml
    /\ daemon = "down" /\ engine = NoEngine /\ hook = IdleHook /\ last = NotYet
    /\ sess = [s \in Sessions |-> NoSession]
    /\ bound \in [id : Ids, content : Pushed]
    /\ binds = 0 /\ faults = 0 /\ edited = FALSE /\ cut = {}

HookStep == WriteYaml \/ WriteSig \/ WriteFails \/ Reload \/ Swap

Next ==
    \/ Start \/ Publish \/ HookStep
    \/ \E genuine \in BOOLEAN : Deliver(genuine)
    \/ \E s \in Sessions :
          SessionCompile(s) \/ SessionEnds(s) \/ \E id \in Ids : SessionRead(s, id)
    \/ ServerBinds \/ Edit \/ Die

Spec == Init /\ [][Next]_vars

\* server.New and the hook run on: neither waits for anyone.  That anything is
\* delivered at all is not assumed.
FairSpec ==
    /\ Spec
    /\ WF_vars(Start) /\ WF_vars(Publish) /\ WF_vars(HookStep)

\* The client keeps reconnecting: while the hook has not recorded what is bound,
\* a SessionAck brings it again.  On a connection that stays nothing is repeated.
KeepsReconnecting == SF_vars(Deliver(TRUE))

-----------------------------------------------------------------------------
(* What an installed policy means.                                         *)

EngineType  == [content : Contents \cup {Nothing}, wired : BOOLEAN]
HookType    == [pc : {"idle", "yaml", "sig", "reload", "swap"}, id : Ids,
                content : Pushed \cup {Nothing}, loaded : Contents \cup {Nothing}]
LastType    == [id : Ids, content : Pushed \cup {Nothing}, swapped : BOOLEAN]
SessionType == [pc : {"none", "read", "active"}, name : Ids, content : Contents \cup {Nothing}]

\* Every variable has the type the code gives it; an App always has an engine.
TypeOK ==
    /\ mode \in {"enforce", "warn"}
    /\ yaml \in [Ids -> Contents] /\ sig \in [Ids -> Contents]
    /\ daemon \in {"down", "loaded", "up"} /\ engine \in EngineType
    /\ daemon # "down" => engine.content # Nothing
    /\ hook \in HookType /\ last \in LastType /\ sess \in [Sessions -> SessionType]
    /\ bound \in [id : Ids, content : Pushed]
    /\ binds \in 0..MaxBinds /\ faults \in 0..MaxFaults
    /\ edited \in BOOLEAN /\ cut \subseteq Ids

\* In enforce mode no decision is taken by unsigned rules: neither the global
\* engine nor a session's was built from an edited file, although the hook, the
\* manager and the sessions read the two files at different times.
EnforcedSigned ==
    mode = "enforce" =>
        /\ engine.content # Edited
        /\ \A s \in Sessions : sess[s].pc = "active" => sess[s].content # Edited

\* What the callback remembers is what is in force: once it has recorded a push
\* of the selected policy, the global engine was built from those very bytes,
\* whatever failed since.  In warn mode an edit between the write and Reload
\* may be loaded instead.
RecordedInForce ==
    last.swapped /\ last.id = Selected /\ (mode = "enforce" \/ ~edited)
        => engine.content = last.content

\* A policy and its signature belong together except while the hook is between
\* its two renames, or after a failure cut it there; a later install repairs it.
WholeUnlessCut ==
    \A id \in Ids :
        \/ yaml[id] = sig[id] \/ yaml[id] = Edited
        \/ At("sig") /\ hook.id = id
        \/ id \in cut

\* Being told once is enough: when the hook of a running daemon is done with a
\* push of the selected policy, that is in force, whatever the server bound and
\* the sessions read meanwhile; unless a write failed, the daemon died or the
\* file was edited under it.
PushTakesEffect ==
    [][/\ ~At("idle") /\ hook'.pc = "idle"
       /\ hook.id = Selected /\ hook.content \notin Broken
       /\ daemon = "up" /\ faults' = faults /\ yaml[Selected] # Edited
       => engine'.content = hook.content]_vars

\* A failed install is made up for when the client reconnects: after failed
\* writes, deaths of the daemon and a push that came before the App existed, a
\* policy that stays bound reaches the global engine; the dedup never hides it.
PolicyConverges ==
    KeepsReconnecting =>
        <>[](/\ daemon = "up" /\ bound.id = Selected /\ bound.content \notin Broken
             /\ (mode = "enforce" \/ ~edited)
             => engine.content = bound.content)

\* The process-global engine carries the Tor coordinator, as attachSessionTor
\* takes for granted.
GlobalCarriesTor == daemon = "up" => engine.wired
=============================================================================
