------------------------ MODULE PolicyInstallProofs ------------------------
(***************************************************************************)
(* The policy path for any policies, pushes, sessions and faults: what is  *)
(* enforced is signed, what is recorded is in force, and the files belong  *)
(* together unless a failure cut an install between its two renames.       *)
(***************************************************************************)
EXTENDS PolicyInstall, TLAPS

-----------------------------------------------------------------------------
(* The inductive invariant.                                                *)

\* Before the daemon runs nothing is recorded and the callback is not running.
DownIsIdle == daemon = "down" => At("idle") /\ ~last.swapped

\* A callback that writes, writes what the server bound.
HookWrites == hook.pc \in {"yaml", "sig", "reload", "swap"} => hook.content \in Pushed

\* The files between the steps of the callback: the bytes it wrote are there,
\* or the operator's edit of the selected file, and so is their signature.
HookFiles ==
    /\ hook.pc \in {"sig", "reload"} =>
          yaml[hook.id] = hook.content \/ (yaml[hook.id] = Edited /\ edited)
    /\ At("reload") => sig[hook.id] = hook.content

\* What Reload returned is signed if signatures are enforced, and it is the
\* push if the selected policy was pushed and nobody edited it unseen.
HookLoaded ==
    At("swap") =>
        /\ hook.loaded # Nothing
        /\ mode = "enforce" => hook.loaded # Edited
        /\ hook.id = Selected /\ (mode = "enforce" \/ ~edited) => hook.loaded = hook.content

IInv ==
    /\ TypeOK
    /\ EnforcedSigned /\ RecordedInForce /\ WholeUnlessCut
    /\ DownIsIdle /\ HookWrites /\ HookFiles /\ HookLoaded

-----------------------------------------------------------------------------

\* The contents are told apart by their numbers.
LEMMA Distinct ==
  /\ Edited \in Contents /\ Factory \in Contents /\ Nothing \notin Contents
  /\ Edited # Factory /\ Edited # Nothing /\ Edited \notin Pushed /\ Nothing \notin Pushed
BY PolicyConstants DEF Edited, Factory, Nothing, Contents

\* The initial state satisfies the invariant.
LEMMA InitInv == Init => IInv
<1> SUFFICES ASSUME Init PROVE IInv
  OBVIOUS
<1>1. TypeOK
  <2>1. yaml \in [Ids -> Contents] /\ sig \in [Ids -> Contents]
    BY Distinct DEF Init
  <2>2. engine \in EngineType /\ daemon \in {"down", "loaded", "up"} /\ ~(daemon # "down")
    BY DEF Init, NoEngine, EngineType
  <2>3. hook \in HookType /\ last \in LastType
    BY PolicyConstants DEF Init, IdleHook, NotYet, HookType, LastType
  <2>4. sess \in [Sessions -> SessionType]
    BY PolicyConstants DEF Init, NoSession, SessionType
  <2>5. mode \in {"enforce", "warn"} /\ bound \in [id : Ids, content : Pushed]
    BY DEF Init
  <2>6. binds \in 0..MaxBinds /\ faults \in 0..MaxFaults /\ cut \subseteq Ids
    BY PolicyConstants DEF Init
  <2>7. edited \in BOOLEAN
    BY Zenon DEF Init
  <2> QED BY <2>1, <2>2, <2>3, <2>4, <2>5, <2>6, <2>7, Zenon DEF TypeOK
<1>2. EnforcedSigned /\ RecordedInForce /\ WholeUnlessCut
  BY Distinct DEF Init, EnforcedSigned, RecordedInForce, WholeUnlessCut, NoEngine, NotYet, NoSession
<1>3. DownIsIdle /\ HookWrites /\ HookFiles /\ HookLoaded
  BY DEF Init, DownIsIdle, HookWrites, HookFiles, HookLoaded, At, IdleHook, NotYet
<1> QED BY <1>1, <1>2, <1>3 DEF IInv

\* Whatever passes the checks of loadLocked in enforce mode is signed.
LEMMA LoadsSigned ==
  ASSUME NEW c, NEW id, Loads(c, id)
  PROVE  mode = "enforce" => c # Edited /\ sig[id] = c
BY DEF Loads, SigMatches

-----------------------------------------------------------------------------
(* The steps, one lemma per component.                                     *)

\* server.New and the publication of the App.
LEMMA StartInv ==
  ASSUME IInv, Start \/ Publish PROVE IInv'
<1> USE DEF IInv
<1>1. CASE Start
  <2>1. UNCHANGED <<mode, yaml, sig, hook, last, sess, bound, binds, faults, edited, cut>>
    BY <1>1 DEF Start
  <2>2. /\ daemon = "down" /\ daemon' = "loaded" /\ Loads(yaml[Selected], Selected)
        /\ engine' = [content |-> yaml[Selected], wired |-> TRUE]
    BY <1>1 DEF Start
  <2>3. yaml[Selected] \in Contents /\ yaml[Selected] # Nothing
    BY PolicyConstants, Distinct DEF TypeOK
  <2>4. engine' \in EngineType /\ engine'.content # Nothing
    BY <2>2, <2>3 DEF EngineType
  <2>5. TypeOK'
    BY <2>1, <2>2, <2>4 DEF TypeOK
  <2>6. EnforcedSigned'
    BY <2>1, <2>2, LoadsSigned DEF EnforcedSigned
  <2>7. ~last.swapped /\ At("idle")
    BY <2>2 DEF DownIsIdle
  <2>8. RecordedInForce' /\ DownIsIdle'
    BY <2>1, <2>2, <2>7 DEF RecordedInForce, DownIsIdle
  <2>9. WholeUnlessCut' /\ HookWrites' /\ HookFiles' /\ HookLoaded'
    BY <2>1 DEF WholeUnlessCut, HookWrites, HookFiles, HookLoaded, At
  <2> QED BY <2>5, <2>6, <2>8, <2>9
<1>2. CASE Publish
  <2>1. UNCHANGED <<mode, yaml, sig, engine, hook, last, sess, bound, binds, faults, edited, cut>>
    BY <1>2 DEF Publish
  <2>2. daemon = "loaded" /\ daemon' = "up"
    BY <1>2 DEF Publish
  <2>3. TypeOK' /\ EnforcedSigned'
    BY <2>1, <2>2 DEF TypeOK, EnforcedSigned
  <2>4. RecordedInForce' /\ DownIsIdle'
    BY <2>1, <2>2 DEF RecordedInForce, DownIsIdle
  <2>5. WholeUnlessCut' /\ HookWrites' /\ HookFiles' /\ HookLoaded'
    BY <2>1 DEF WholeUnlessCut, HookWrites, HookFiles, HookLoaded, At
  <2> QED BY <2>3, <2>4, <2>5
<1> QED BY <1>1, <1>2

\* The callback: a push is taken up and its two files are written.
LEMMA WriteInv ==
  ASSUME IInv, (\E genuine \in BOOLEAN : Deliver(genuine)) \/ WriteYaml \/ WriteSig \/ WriteFails
  PROVE  IInv'
<1> USE DEF IInv
<1>0. hook \in HookType /\ hook.id \in Ids /\ IdleHook \in HookType /\ IdleHook.pc = "idle"
  BY PolicyConstants DEF TypeOK, HookType, IdleHook
<1>1. CASE \E genuine \in BOOLEAN : Deliver(genuine)
  <2>1. /\ UNCHANGED <<mode, yaml, sig, daemon, engine, last, sess, bound, binds, faults, edited, cut>>
        /\ daemon # "down" /\ hook.pc = "idle"
    BY <1>1 DEF Deliver, At
  <2>2. \/ hook' = IdleHook
        \/ hook' = [IdleHook EXCEPT !.pc = "yaml", !.id = bound.id, !.content = bound.content]
    BY <1>1 DEF Deliver
  <2>3. /\ hook' \in HookType /\ hook'.pc \in {"idle", "yaml"}
        /\ hook'.pc = "yaml" => hook'.content \in Pushed
    BY <1>0, <2>2 DEF TypeOK, HookType
  <2>4. TypeOK'
    BY <2>1, <2>3 DEF TypeOK
  <2>5. EnforcedSigned' /\ RecordedInForce' /\ DownIsIdle'
    BY <2>1 DEF EnforcedSigned, RecordedInForce, DownIsIdle
  <2>6. WholeUnlessCut' /\ HookWrites' /\ HookFiles' /\ HookLoaded'
    BY <2>1, <2>3 DEF WholeUnlessCut, HookWrites, HookFiles, HookLoaded, At
  <2> QED BY <2>4, <2>5, <2>6
<1>2. CASE WriteYaml
  <2>1. UNCHANGED <<mode, sig, daemon, engine, last, sess, bound, binds, faults, edited, cut>>
    BY <1>2 DEF WriteYaml
  <2>2. /\ hook.pc = "yaml" /\ hook' = [hook EXCEPT !.pc = "sig"]
        /\ yaml' = [yaml EXCEPT ![hook.id] = hook.content]
    BY <1>2 DEF WriteYaml, At
  <2>3. /\ hook' \in HookType /\ hook'.pc = "sig" /\ hook'.id = hook.id
        /\ hook'.content = hook.content
    BY <1>0, <2>2 DEF HookType
  <2>4. hook.content \in Contents
    BY <2>2 DEF HookWrites, Contents
  <2>5. yaml' \in [Ids -> Contents] /\ yaml'[hook.id] = hook.content
    BY <1>0, <2>2, <2>4 DEF TypeOK
  <2>6. TypeOK' /\ HookWrites'
    BY <2>1, <2>2, <2>3, <2>5 DEF TypeOK, HookWrites
  <2>7. EnforcedSigned' /\ RecordedInForce' /\ DownIsIdle'
    BY <2>1, <2>2 DEF EnforcedSigned, RecordedInForce, DownIsIdle, At
  <2>8. WholeUnlessCut' /\ HookFiles' /\ HookLoaded'
    BY <1>0, <2>1, <2>2, <2>3, <2>5 DEF WholeUnlessCut, HookFiles, HookLoaded, At, TypeOK
  <2> QED BY <2>6, <2>7, <2>8
<1>3. CASE WriteSig
  <2>1. UNCHANGED <<mode, yaml, daemon, engine, last, sess, bound, binds, faults, edited>>
    BY <1>3 DEF WriteSig
  <2>2. /\ hook.pc = "sig" /\ hook' = [hook EXCEPT !.pc = "reload"]
        /\ sig' = [sig EXCEPT ![hook.id] = hook.content] /\ cut' = cut \ {hook.id}
    BY <1>3 DEF WriteSig, At
  <2>3. /\ hook' \in HookType /\ hook'.pc = "reload" /\ hook'.id = hook.id
        /\ hook'.content = hook.content
    BY <1>0, <2>2 DEF HookType
  <2>4. hook.content \in Contents
    BY <2>2 DEF HookWrites, Contents
  <2>5. sig' \in [Ids -> Contents] /\ sig'[hook.id] = hook.content
    BY <1>0, <2>2, <2>4 DEF TypeOK
  <2>6. TypeOK' /\ HookWrites'
    BY <2>1, <2>2, <2>3, <2>5 DEF TypeOK, HookWrites
  <2>7. EnforcedSigned' /\ RecordedInForce' /\ DownIsIdle'
    BY <2>1, <2>2 DEF EnforcedSigned, RecordedInForce, DownIsIdle, At
  <2>8. HookFiles' /\ HookLoaded'
    BY <1>0, <2>1, <2>2, <2>3, <2>5 DEF HookFiles, HookLoaded, At, TypeOK
  <2>9. WholeUnlessCut'
    BY <1>0, <2>1, <2>2, <2>3, <2>5 DEF WholeUnlessCut, HookFiles, At, TypeOK
  <2> QED BY <2>6, <2>7, <2>8, <2>9
<1>4. CASE WriteFails
  <2>1. UNCHANGED <<mode, yaml, sig, daemon, engine, last, sess, bound, binds, edited>>
    BY <1>4 DEF WriteFails
  <2>2. /\ hook.pc \in {"yaml", "sig"} /\ hook' = IdleHook
        /\ faults' = faults + 1 /\ faults < MaxFaults
        /\ cut' = IF hook.pc = "sig" THEN cut \cup {hook.id} ELSE cut
    BY <1>4 DEF WriteFails, At, Return
  <2>3. faults' \in 0..MaxFaults /\ cut' \subseteq Ids
    BY <1>0, <2>2, PolicyConstants DEF TypeOK
  <2>4. TypeOK'
    BY <1>0, <2>1, <2>2, <2>3 DEF TypeOK
  <2>5. EnforcedSigned' /\ RecordedInForce' /\ DownIsIdle'
    BY <1>0, <2>1, <2>2 DEF EnforcedSigned, RecordedInForce, DownIsIdle, At
  <2>6. HookWrites' /\ HookFiles' /\ HookLoaded'
    BY <1>0, <2>2 DEF HookWrites, HookFiles, HookLoaded, At
  <2>7. WholeUnlessCut'
    BY <1>0, <2>1, <2>2 DEF WholeUnlessCut, At
  <2> QED BY <2>4, <2>5, <2>6, <2>7
<1> QED BY <1>1, <1>2, <1>3, <1>4

\* The callback: the selected policy is loaded again and swapped in.  What was
\* pushed is what is loaded, because the signature on disk is the push's.
LEMMA SwapInv ==
  ASSUME IInv, Reload \/ Swap PROVE IInv'
<1> USE DEF IInv
<1>0. hook \in HookType /\ hook.id \in Ids /\ IdleHook \in HookType /\ IdleHook.pc = "idle"
  BY PolicyConstants DEF TypeOK, HookType, IdleHook
<1>1. CASE Reload
  <2>1. UNCHANGED <<mode, yaml, sig, daemon, engine, last, sess, bound, binds, faults, edited, cut>>
    BY <1>1 DEF Reload
  <2>2. /\ hook.pc = "reload"
        /\ \/ hook' = IdleHook
           \/ /\ hook' = [hook EXCEPT !.pc = "swap", !.loaded = yaml[Selected]]
              /\ Loads(yaml[Selected], Selected)
    BY <1>1 DEF Reload, At
  <2>3. yaml[Selected] \in Contents /\ yaml[Selected] # Nothing
    BY PolicyConstants, Distinct DEF TypeOK
  <2>4. /\ hook' \in HookType /\ hook'.pc \in {"idle", "swap"}
        /\ hook'.pc = "swap" => /\ hook'.id = hook.id /\ hook'.content = hook.content
                                /\ hook'.loaded = yaml[Selected]
                                /\ Loads(yaml[Selected], Selected)
    BY <1>0, <2>2, <2>3 DEF HookType
  <2>5. TypeOK' /\ HookWrites' /\ HookFiles'
    BY <2>1, <2>2, <2>4 DEF TypeOK, HookWrites, HookFiles, At
  <2>6. EnforcedSigned' /\ RecordedInForce' /\ DownIsIdle'
    BY <2>1, <2>2 DEF EnforcedSigned, RecordedInForce, DownIsIdle, At
  <2>7. WholeUnlessCut'
    BY <2>1, <2>2, <2>4 DEF WholeUnlessCut, At
  <2>8. ASSUME hook'.pc = "swap" PROVE HookLoaded'
    <3>1. mode = "enforce" => yaml[Selected] # Edited /\ sig[Selected] = yaml[Selected]
      BY <2>4, <2>8, LoadsSigned
    <3>2. /\ yaml[hook.id] = hook.content \/ (yaml[hook.id] = Edited /\ edited)
          /\ sig[hook.id] = hook.content
      BY <2>2 DEF HookFiles, At
    <3>3. hook.id = Selected /\ (mode = "enforce" \/ ~edited) => yaml[Selected] = hook.content
      BY <3>1, <3>2
    <3> QED BY <2>1, <2>3, <2>4, <2>8, <3>1, <3>3 DEF HookLoaded
  <2>9. ASSUME hook'.pc = "idle" PROVE HookLoaded'
    BY <2>9 DEF HookLoaded, At
  <2> QED BY <2>4, <2>5, <2>6, <2>7, <2>8, <2>9
<1>2. CASE Swap
  <2>1. UNCHANGED <<mode, yaml, sig, daemon, sess, bound, binds, faults, edited, cut>>
    BY <1>2 DEF Swap
  <2>2. hook.pc = "swap" /\ hook' = IdleHook
    BY <1>2 DEF Swap, At, Return
  <2>3. \/ UNCHANGED <<engine, last>>
        \/ /\ engine' = [content |-> hook.loaded, wired |-> FALSE]
           /\ last' = [id |-> hook.id, content |-> hook.content, swapped |-> TRUE]
           /\ daemon = "up"
    BY <1>2 DEF Swap
  <2>4. WholeUnlessCut' /\ HookWrites' /\ HookFiles' /\ HookLoaded'
    BY <1>0, <2>1, <2>2 DEF WholeUnlessCut, HookWrites, HookFiles, HookLoaded, At
  <2>5. CASE UNCHANGED <<engine, last>>
    <3>1. TypeOK' /\ EnforcedSigned' /\ RecordedInForce' /\ DownIsIdle'
      BY <1>0, <2>1, <2>2, <2>5 DEF TypeOK, EnforcedSigned, RecordedInForce, DownIsIdle, At
    <3> QED BY <2>4, <3>1
  <2>6. CASE /\ engine' = [content |-> hook.loaded, wired |-> FALSE]
             /\ last' = [id |-> hook.id, content |-> hook.content, swapped |-> TRUE]
             /\ daemon = "up"
    <3>1. /\ hook.loaded # Nothing
          /\ mode = "enforce" => hook.loaded # Edited
          /\ hook.id = Selected /\ (mode = "enforce" \/ ~edited) => hook.loaded = hook.content
      BY <2>2 DEF HookLoaded, At
    <3>2. engine' \in EngineType /\ last' \in LastType /\ engine'.content = hook.loaded
      BY <1>0, <2>6 DEF EngineType, LastType, HookType
    <3>3. last'.id = hook.id /\ last'.content = hook.content
      BY <2>6
    <3>4. TypeOK'
      BY <1>0, <2>1, <2>2, <3>1, <3>2 DEF TypeOK
    <3>5. EnforcedSigned' /\ RecordedInForce' /\ DownIsIdle'
      BY <2>1, <2>6, <3>1, <3>2, <3>3 DEF EnforcedSigned, RecordedInForce, DownIsIdle
    <3> QED BY <2>4, <3>4, <3>5
  <2> QED BY <2>3, <2>5, <2>6
<1> QED BY <1>1, <1>2

\* A session is compiled from bytes that were read before; the signature is
\* looked up for those bytes.
LEMMA SessionInv ==
  ASSUME IInv, NEW s \in Sessions,
         SessionCompile(s) \/ SessionEnds(s) \/ \E id \in Ids : SessionRead(s, id)
  PROVE  IInv'
<1> USE DEF IInv
<1>1. UNCHANGED <<mode, yaml, sig, daemon, engine, hook, last, bound, binds, faults, edited, cut>>
  BY DEF SessionCompile, SessionEnds, SessionRead
<1>2. PICK x \in SessionType : /\ sess' = [sess EXCEPT ![s] = x]
                               /\ mode = "enforce" /\ x.pc = "active" => x.content # Edited
  <2>1. NoSession \in SessionType /\ NoSession.pc = "none"
    BY PolicyConstants DEF NoSession, SessionType
  <2>2. CASE SessionCompile(s)
    <3>1. CASE Loads(sess[s].content, sess[s].name)
      <4> DEFINE x == [sess[s] EXCEPT !.pc = "active"]
      <4>1. x \in SessionType /\ x.content = sess[s].content
        BY DEF TypeOK, SessionType
      <4>2. sess' = [sess EXCEPT ![s] = x]
        BY <2>2, <3>1 DEF SessionCompile
      <4> QED BY <3>1, <4>1, <4>2, LoadsSigned
    <3>2. CASE ~Loads(sess[s].content, sess[s].name)
      <4>1. sess' = [sess EXCEPT ![s] = NoSession]
        BY <2>2, <3>2 DEF SessionCompile
      <4> QED BY <2>1, <4>1
    <3> QED BY <3>1, <3>2
  <2>3. CASE SessionEnds(s)
    BY <2>1, <2>3 DEF SessionEnds
  <2>4. ASSUME NEW id \in Ids, SessionRead(s, id)
        PROVE  \E x \in SessionType : /\ sess' = [sess EXCEPT ![s] = x]
                                      /\ mode = "enforce" /\ x.pc = "active" => x.content # Edited
    <3> DEFINE x == [pc |-> "read", name |-> id, content |-> yaml[id]]
    <3>1. x \in SessionType /\ x.pc # "active"
      BY DEF TypeOK, SessionType
    <3>2. sess' = [sess EXCEPT ![s] = x]
      BY <2>4 DEF SessionRead
    <3> QED BY <3>1, <3>2
  <2> QED BY <2>2, <2>3, <2>4
<1>3. TypeOK'
  <2>1. sess' \in [Sessions -> SessionType]
    BY <1>2 DEF TypeOK
  <2> QED BY <1>1, <2>1 DEF TypeOK
<1>4. EnforcedSigned'
  <2>1. \A t \in Sessions : sess'[t] = IF t = s THEN x ELSE sess[t]
    BY <1>2 DEF TypeOK
  <2> QED BY <1>1, <1>2, <2>1 DEF EnforcedSigned
<1>5. RecordedInForce' /\ DownIsIdle'
  BY <1>1 DEF RecordedInForce, DownIsIdle, At
<1>6. WholeUnlessCut' /\ HookWrites' /\ HookFiles' /\ HookLoaded'
  BY <1>1 DEF WholeUnlessCut, HookWrites, HookFiles, HookLoaded, At
<1> QED BY <1>3, <1>4, <1>5, <1>6

\* The server binds, the operator edits, the daemon dies.
LEMMA EnvironmentInv ==
  ASSUME IInv, ServerBinds \/ Edit \/ Die PROVE IInv'
<1> USE DEF IInv
<1>1. CASE ServerBinds
  <2>1. /\ UNCHANGED <<mode, yaml, sig, daemon, engine, hook, last, sess, faults, edited, cut>>
        /\ binds' = binds + 1 /\ binds < MaxBinds /\ bound' \in [id : Ids, content : Pushed]
    BY <1>1 DEF ServerBinds
  <2>2. TypeOK'
    BY <2>1, PolicyConstants DEF TypeOK
  <2>3. EnforcedSigned' /\ RecordedInForce' /\ DownIsIdle'
    BY <2>1 DEF EnforcedSigned, RecordedInForce, DownIsIdle, At
  <2>4. WholeUnlessCut' /\ HookWrites' /\ HookFiles' /\ HookLoaded'
    BY <2>1 DEF WholeUnlessCut, HookWrites, HookFiles, HookLoaded, At
  <2> QED BY <2>2, <2>3, <2>4
<1>2. CASE Edit
  <2>1. /\ UNCHANGED <<mode, sig, daemon, engine, hook, last, sess, bound, binds, faults, cut>>
        /\ yaml' = [yaml EXCEPT ![Selected] = Edited]
    BY <1>2 DEF Edit
  <2>2. edited' /\ edited' \in BOOLEAN
    BY <1>2, Zenon DEF Edit
  <2>3. yaml' \in [Ids -> Contents]
    BY <2>1, Distinct DEF TypeOK
  <2>4. TypeOK'
    BY <2>1, <2>2, <2>3 DEF TypeOK
  <2>5. EnforcedSigned' /\ RecordedInForce' /\ DownIsIdle'
    BY <2>1, <2>2 DEF EnforcedSigned, RecordedInForce, DownIsIdle, At
  <2>6. WholeUnlessCut' /\ HookWrites'
    BY <2>1 DEF WholeUnlessCut, HookWrites, At, TypeOK
  <2>7. HookFiles' /\ HookLoaded'
    BY <2>1, <2>2 DEF HookFiles, HookLoaded, At, TypeOK
  <2> QED BY <2>4, <2>5, <2>6, <2>7
<1>3. CASE Die
  <2>1. UNCHANGED <<mode, yaml, sig, bound, binds, edited>>
    BY <1>3 DEF Die
  <2>2. /\ daemon' = "down" /\ engine' = NoEngine /\ last' = NotYet /\ hook' = IdleHook
        /\ sess' = [s \in Sessions |-> NoSession]
    BY <1>3 DEF Die, Return
  <2>3. /\ faults' = faults + 1 /\ faults < MaxFaults
        /\ cut' = IF hook.pc = "sig" THEN cut \cup {hook.id} ELSE cut
    BY <1>3 DEF Die, At
  <2>4. /\ IdleHook \in HookType /\ IdleHook.pc = "idle" /\ NoEngine \in EngineType
        /\ NoSession \in SessionType /\ NoSession.pc = "none" /\ NoEngine.content = Nothing
        /\ NotYet \in LastType
    BY PolicyConstants DEF IdleHook, HookType, NoEngine, EngineType, NoSession, SessionType,
                           NotYet, LastType
  <2>5. ~NotYet.swapped
    BY DEF NotYet
  <2>6. faults' \in 0..MaxFaults /\ cut' \subseteq Ids
    BY <2>3, PolicyConstants DEF TypeOK, HookType
  <2>7. TypeOK'
    BY <2>1, <2>2, <2>4, <2>6 DEF TypeOK
  <2>8. EnforcedSigned' /\ RecordedInForce' /\ DownIsIdle'
    BY <2>2, <2>4, <2>5, Distinct DEF EnforcedSigned, RecordedInForce, DownIsIdle, At
  <2>9. WholeUnlessCut'
    BY <2>1, <2>3 DEF WholeUnlessCut, At
  <2>10. HookWrites' /\ HookFiles' /\ HookLoaded'
    BY <2>2, <2>4 DEF HookWrites, HookFiles, HookLoaded, At
  <2> QED BY <2>7, <2>8, <2>9, <2>10
<1> QED BY <1>1, <1>2, <1>3

-----------------------------------------------------------------------------
LEMMA StepInv == IInv /\ [Next]_vars => IInv'
<1> SUFFICES ASSUME IInv, [Next]_vars PROVE IInv'
  OBVIOUS
<1>1. CASE UNCHANGED vars
  BY <1>1 DEF vars, IInv, TypeOK, EnforcedSigned, RecordedInForce, WholeUnlessCut, DownIsIdle,
              HookWrites, HookFiles, HookLoaded, At
<1>2. CASE Next
  BY <1>2, StartInv, WriteInv, SwapInv, SessionInv, EnvironmentInv DEF Next, HookStep
<1> QED BY <1>1, <1>2

LEMMA Inductive == Spec => []IInv
BY InitInv, StepInv, PTL DEF Spec

\* Files, engines, callback and sessions keep their types, and a running
\* daemon always has an engine.
THEOREM TypeCorrect == Spec => []TypeOK
<1>1. IInv => TypeOK
  BY DEF IInv
<1> QED BY <1>1, Inductive, PTL

\* In enforce mode neither the global engine nor a session's is ever built from
\* an unsigned file, at whatever moment the files are read and replaced.
THEOREM NothingUnsigned == Spec => []EnforcedSigned
<1>1. IInv => EnforcedSigned
  BY DEF IInv
<1> QED BY <1>1, Inductive, PTL

\* A push of the selected policy that the callback has recorded, and will not
\* install again, is the one the global engine was built from; in warn mode, if
\* the operator did not edit the file.
THEOREM RecordTrue == Spec => []RecordedInForce
<1>1. IInv => RecordedInForce
  BY DEF IInv
<1> QED BY <1>1, Inductive, PTL

\* A policy file and its signature belong together, but for an install that
\* is, or was cut off, between the two renames, and for the operator's edit.
THEOREM FilesWhole == Spec => []WholeUnlessCut
<1>1. IInv => WholeUnlessCut
  BY DEF IInv
<1> QED BY <1>1, Inductive, PTL

\* What is about to be swapped in is the push, or the operator's edit.
LoadedIsPush ==
    At("swap") /\ hook.id = Selected => hook.loaded = hook.content \/ yaml[Selected] = Edited

LEMMA LoadedStep == IInv /\ LoadedIsPush /\ [Next]_vars => LoadedIsPush'
<1> SUFFICES ASSUME IInv, LoadedIsPush, [Next]_vars, At("swap")', hook'.id = Selected
             PROVE  hook'.loaded = hook'.content \/ yaml'[Selected] = Edited
  BY DEF LoadedIsPush
<1>t. hook \in HookType /\ yaml \in [Ids -> Contents]
  BY DEF IInv, TypeOK
<1>i. IdleHook.pc = "idle"
  BY DEF IdleHook
<1>1. CASE Reload
  <2>1. hook' = [hook EXCEPT !.pc = "swap", !.loaded = yaml[Selected]] /\ yaml' = yaml
    BY <1>1, <1>i DEF Reload, At
  <2>2. hook'.loaded = yaml[Selected] /\ hook'.content = hook.content /\ hook'.id = hook.id
    BY <2>1, <1>t DEF HookType
  <2>3. yaml[hook.id] = hook.content \/ yaml[hook.id] = Edited
    BY <1>1 DEF IInv, HookFiles, Reload, At
  <2> QED BY <2>1, <2>2, <2>3
<1>2. CASE Edit
  <2>1. yaml' = [yaml EXCEPT ![Selected] = Edited]
    BY <1>2 DEF Edit
  <2> QED BY <2>1, <1>t, PolicyConstants
<1>3. CASE UNCHANGED <<hook, yaml>>
  BY <1>3 DEF LoadedIsPush, At
<1>4. CASE WriteFails \/ Swap \/ Die
  BY <1>4, <1>i DEF WriteFails, Swap, Die, Return, At
<1>5. CASE \E genuine \in BOOLEAN : Deliver(genuine)
  <2>1. hook' = IdleHook \/ hook' = [IdleHook EXCEPT !.pc = "yaml", !.id = bound.id,
                                                     !.content = bound.content]
    BY <1>5 DEF Deliver
  <2>2. IdleHook \in [pc : {"idle"}, id : {Selected}, content : {Nothing}, loaded : {Nothing}]
    BY DEF IdleHook
  <2>3. CASE hook' = IdleHook
    BY <1>i, <2>3 DEF At
  <2>4. CASE hook' = [IdleHook EXCEPT !.pc = "yaml", !.id = bound.id, !.content = bound.content]
    <3>1. hook'.pc = "yaml"
      BY <2>2, <2>4
    <3> QED BY <3>1 DEF At
  <2> QED BY <2>1, <2>3, <2>4
<1>6. CASE WriteYaml \/ WriteSig
  <2>1. hook' = [hook EXCEPT !.pc = "sig"] \/ hook' = [hook EXCEPT !.pc = "reload"]
    BY <1>6 DEF WriteYaml, WriteSig
  <2>2. hook'.pc \in {"sig", "reload"}
    BY <1>t, <2>1 DEF HookType
  <2> QED BY <2>2 DEF At
<1>7. CASE \E s \in Sessions :
              SessionCompile(s) \/ SessionEnds(s) \/ \E id \in Ids : SessionRead(s, id)
  BY <1>7, <1>3 DEF SessionCompile, SessionEnds, SessionRead
<1>8. CASE Start \/ Publish \/ ServerBinds \/ UNCHANGED vars
  BY <1>8, <1>3 DEF Start, Publish, ServerBinds, vars
<1> QED BY <1>1, <1>2, <1>4, <1>5, <1>6, <1>7, <1>8 DEF Next, HookStep

LEMMA LoadedInvariance == Spec => []LoadedIsPush
<1>1. Init => LoadedIsPush
  BY DEF Init, IdleHook, LoadedIsPush, At
<1> QED BY <1>1, LoadedStep, Inductive, PTL DEF Spec

\* When the callback of a running daemon is done with a push of the selected
\* policy, that is in force, unless a write failed, the daemon died or the file
\* was edited under it.
THEOREM ToldOnce == Spec => PushTakesEffect
<1>1. ASSUME IInv, LoadedIsPush, [Next]_vars
      PROVE  [/\ ~At("idle") /\ hook'.pc = "idle"
              /\ hook.id = Selected /\ hook.content \notin Broken
              /\ daemon = "up" /\ faults' = faults /\ yaml[Selected] # Edited
              => engine'.content = hook.content]_vars
  <2> SUFFICES ASSUME Next, ~At("idle"), hook'.pc = "idle", hook.id = Selected,
                      hook.content \notin Broken, daemon = "up", faults' = faults,
                      yaml[Selected] # Edited
               PROVE  engine'.content = hook.content
    BY <1>1
  <2>t. hook \in HookType /\ faults \in 0..MaxFaults
    BY <1>1 DEF IInv, TypeOK
  <2>1. CASE Swap
    <3>1. engine' = [content |-> hook.loaded, wired |-> FALSE] /\ At("swap")
      BY <2>1 DEF Swap
    <3> QED BY <1>1, <3>1 DEF LoadedIsPush
  \* The file is the push and its signature that of the push, so it loads.
  <2>2. CASE Reload
    <3>1. yaml[Selected] = hook.content /\ sig[Selected] = hook.content
      BY <1>1, <2>2 DEF IInv, HookFiles, Reload, At
    <3>2. Loads(yaml[Selected], Selected)
      BY <3>1 DEF Loads, SigMatches
    <3>3. hook' = [hook EXCEPT !.pc = "swap", !.loaded = yaml[Selected]]
      BY <2>2, <3>2 DEF Reload
    <3>4. hook'.pc = "swap"
      BY <3>3, <2>t DEF HookType
    <3> QED BY <3>4
  <2>3. CASE WriteYaml \/ WriteSig
    <3>1. hook'.pc \in {"sig", "reload"}
      BY <2>3, <2>t DEF WriteYaml, WriteSig, HookType
    <3> QED BY <3>1
  <2>4. CASE WriteFails \/ Die
    BY <2>4, <2>t, PolicyConstants DEF WriteFails, Die
  <2>5. CASE \E genuine \in BOOLEAN : Deliver(genuine)
    BY <2>5 DEF Deliver, At
  <2>6. CASE hook' = hook
    BY <2>6 DEF At
  <2>7. CASE \E s \in Sessions :
                SessionCompile(s) \/ SessionEnds(s) \/ \E id \in Ids : SessionRead(s, id)
    BY <2>6, <2>7 DEF SessionCompile, SessionEnds, SessionRead
  <2>8. CASE Start \/ Publish \/ ServerBinds \/ Edit
    BY <2>6, <2>8 DEF Start, Publish, ServerBinds, Edit
  <2> QED BY <2>1, <2>2, <2>3, <2>4, <2>5, <2>7, <2>8 DEF Next, HookStep
<1> QED BY <1>1, Inductive, LoadedInvariance, PTL DEF Spec, PushTakesEffect
=============================================================================
