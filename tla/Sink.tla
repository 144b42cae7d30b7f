-------------------------------- MODULE Sink --------------------------------
(***************************************************************************)
(* From an event to a WAL record, and back down: the composite store       *)
(* (AEP-CAW/internal/store/composite) stamps an event with the next tuple  *)
(* of the sequence allocator and fans it out; the watchtower store         *)
(* (AEP-CAW/internal/store/watchtower) links it into two chains, the HMAC  *)
(* chain of audit.SinkChain and the wire chain, and appends it to the WAL; *)
(* Close stops all of it; a new process rebuilds the chains from the WAL.  *)
(*                                                                         *)
(* Abstractions: an event is its number.  A hash is what was hashed: the   *)
(* event hash is the event's number, 0 for the empty string, and the entry *)
(* hash of the HMAC chain is the sequence of the events it stands for.     *)
(* `wal` is every data record ever appended, the positions `gone` of them  *)
(* no longer on disk.  The other sinks of the fan-out are left out, as are *)
(* the loss markers, which advance neither chain.                          *)
(***************************************************************************)
EXTENDS Integers, Sequences, FiniteSets, SequencesExt, FiniteSetsExt, Ranks

CONSTANTS
    Writers,           \* goroutines that call composite.AppendEvent
    Gens,              \* generations
    RestoreAllocator,  \* the owner carries the allocator over a restart
    MaxEvents,         \* bound: events in a behaviour
    MaxFaults          \* bound: crashes, restarts and ambiguous failures

ASSUME SinkConstants ==
    /\ Gens \subseteq Nat /\ 0 \in Gens
    /\ RestoreAllocator \in BOOLEAN
    /\ MaxEvents \in Nat /\ MaxFaults \in Nat

VARIABLES
    alloc,     \* SequenceAllocator: the last (generation, sequence) returned
    writer,    \* what each AppendEvent has at hand, and where it is
    chain,     \* SinkChain: generation, prevHash, fatal
    anchor,    \* Store: lastEventGen, lastEventHash
    fatal,     \* Store.fatalLatched
    wal,       \* the WAL: data records, oldest first
    gone,      \* the WAL: the positions that have left the disk
    bare,      \* the WAL: the file of the last record is sealed
    walOpen,   \* the WAL: Close was not called
    closer,    \* where Close is
    drained,   \* Store.appendDrained
    run,       \* the goroutine of Transport.Run: "running" or "exited"
    lost,      \* history: gone when this process opened the WAL
    cuts,      \* history: where a process came without the record before
    broken,    \* history: this process met an ambiguous failure
    events,    \* bound counter, and the name of the next event
    faults     \* bound counter

chainVars == <<chain, anchor, fatal>>
walVars   == <<wal, gone, bare, walOpen>>
closeVars == <<closer, drained, run>>
bounds    == <<events, faults>>
opened    == <<lost, cuts>>
vars == <<alloc, writer, chainVars, walVars, closeVars, opened, broken, bounds>>

Fault == faults < MaxFaults /\ faults' = faults + 1

-----------------------------------------------------------------------------
(* The composite store.                                                    *)

\* prev is the wire link of the event's record, link the HMAC link.
Outside == [pc |-> "idle", ev |-> 0, gen |-> 0, seq |-> 0, prev |-> 0, link |-> << >>]
Goto(w, pc) == writer' = [writer EXCEPT ![w].pc = pc]
Leave(w)    == writer' = [writer EXCEPT ![w] = Outside]

\* composite.AppendEvent takes the read lock, and allocator.Next.
Stamp(w) ==
    /\ writer[w].pc = "idle"
    /\ events < MaxEvents /\ events' = events + 1
    /\ alloc' = <<alloc[1], alloc[2] + 1>>
    /\ writer' = [writer EXCEPT ![w] = [Outside EXCEPT
                     !.pc = "fanout", !.ev = events', !.gen = alloc[1], !.seq = alloc[2] + 1]]
    /\ UNCHANGED <<chainVars, walVars, closeVars, opened, broken, faults>>

\* Slip: the roll does not wait for the fan-outs that hold the read lock.
NextGenerationUnlocked ==
    /\ alloc[1] + 1 \in Gens
    /\ alloc' = <<alloc[1] + 1, -1>>
    /\ UNCHANGED <<writer, chainVars, walVars, closeVars, opened, broken, bounds>>

\* composite.NextGeneration takes the write lock.
NextGeneration ==
    /\ \A w \in Writers : writer[w].pc = "idle"
    /\ alloc[1] + 1 \in Gens
    /\ alloc' = <<alloc[1] + 1, -1>>
    /\ UNCHANGED <<writer, chainVars, walVars, closeVars, opened, broken, bounds>>

-----------------------------------------------------------------------------
(* AppendEvent of the watchtower store, under appendMu.                    *)

Holding   == {w \in Writers : writer[w].pc \in {"append", "commit"}}
Entering(w) == writer[w].pc = "fanout" /\ Holding = {}
closing   == closer # "open"

\* The Store is closing or latched fatal: AppendEvent returns an error.
Refuse(w) ==
    /\ Entering(w)
    /\ closing \/ fatal
    /\ Leave(w)
    /\ UNCHANGED <<alloc, chainVars, walVars, closeVars, opened, broken, bounds>>

\* The event cannot be encoded.  Its loss marker, if one is written at all,
\* may meet an ambiguous failure of AppendLoss.
Reject(w) ==
    /\ Entering(w) /\ ~closing /\ ~fatal
    /\ Leave(w)
    /\ \/ UNCHANGED <<chain, fatal, broken, faults>>
       \/ /\ Fault
          /\ chain' = [chain EXCEPT !.fatal = TRUE]
          /\ fatal' = TRUE /\ broken' = TRUE
    /\ UNCHANGED <<alloc, anchor, walVars, closeVars, opened, events>>

\* Slip: the closing check comes before the lock, with the stamp.
ComputeUnlessFatal(w) ==
    /\ Entering(w) /\ ~fatal /\ ~chain.fatal
    /\ LET g == writer[w].gen IN
       writer' = [writer EXCEPT ![w].pc = "append",
                     ![w].prev = IF g = anchor.gen THEN anchor.hash ELSE 0,
                     ![w].link = IF g = chain.gen THEN chain.prev ELSE << >>]
    /\ UNCHANGED <<alloc, chainVars, walVars, closeVars, opened, broken, bounds>>

\* The integrity record is built and SinkChain.Compute called.
Compute(w) ==
    /\ Entering(w) /\ ~closing /\ ~fatal /\ ~chain.fatal
    /\ LET g == writer[w].gen IN
       writer' = [writer EXCEPT ![w].pc = "append",
                     ![w].prev = IF g = anchor.gen THEN anchor.hash ELSE 0,
                     ![w].link = IF g = chain.gen THEN chain.prev ELSE << >>]
    /\ UNCHANGED <<alloc, chainVars, walVars, closeVars, opened, broken, bounds>>

RecordOf(w) == [ev   |-> writer[w].ev, gen |-> writer[w].gen, seq |-> writer[w].seq,
                prev |-> writer[w].prev]

WalAppend(w) ==
    /\ writer[w].pc = "append" /\ walOpen
    /\ wal' = Append(wal, RecordOf(w)) /\ bare' = FALSE
    /\ Goto(w, "commit")
    /\ UNCHANGED <<alloc, chainVars, gone, walOpen, closeVars, opened, broken, bounds>>

\* wal.Append refused: the record is larger than a segment, or the WAL closed.
\* It is a clean error, the chains do not move.
WalAppendClean(w) ==
    /\ writer[w].pc = "append"
    /\ Leave(w)
    /\ UNCHANGED <<alloc, chainVars, walVars, closeVars, opened, broken, bounds>>

\* wal.Append failed after the record may have reached the disk, or after the
\* roll had sealed the live file and before the new one had a record.
WalAppendAmbiguous(w) ==
    /\ writer[w].pc = "append" /\ walOpen
    /\ Fault
    /\ \/ wal' = Append(wal, RecordOf(w)) /\ bare' = FALSE
       \/ wal' = wal /\ bare' \in {bare, TRUE}
    /\ chain' = [chain EXCEPT !.fatal = TRUE]
    /\ fatal' = TRUE /\ broken' = TRUE
    /\ Leave(w)
    /\ UNCHANGED <<alloc, anchor, gone, walOpen, closeVars, opened, events>>

\* SinkChain.Commit accepts the result: no older generation, no stale link.
Committable(w) ==
    /\ ~chain.fatal
    /\ writer[w].gen >= chain.gen
    /\ writer[w].link = IF writer[w].gen = chain.gen THEN chain.prev ELSE << >>

\* Slip: the wire anchor moves only when the generation does.
CommitAnchorOnRoll(w) ==
    /\ writer[w].pc = "commit"
    /\ chain' = [gen |-> writer[w].gen, prev |-> Append(writer[w].link, writer[w].ev),
                 fatal |-> FALSE]
    /\ anchor' = IF anchor.gen = writer[w].gen /\ anchor.hash # 0 THEN anchor
                 ELSE [gen |-> writer[w].gen, hash |-> writer[w].ev]
    /\ Leave(w)
    /\ UNCHANGED <<alloc, fatal, walVars, closeVars, opened, broken, bounds>>

Commit(w) ==
    /\ writer[w].pc = "commit"
    /\ IF Committable(w)
       THEN /\ chain' = [gen |-> writer[w].gen, prev |-> Append(writer[w].link, writer[w].ev),
                         fatal |-> FALSE]
            /\ anchor' = [gen |-> writer[w].gen, hash |-> writer[w].ev]
            /\ UNCHANGED fatal
       ELSE /\ chain' = [chain EXCEPT !.fatal = TRUE]
            /\ fatal' = TRUE
            /\ UNCHANGED anchor
    /\ Leave(w)
    /\ UNCHANGED <<alloc, walVars, closeVars, opened, broken, bounds>>

\* Files leave the disk, acked or dropped; the sweep of MarkAcked passes over
\* one it cannot remove.  The live file stays, and with it the last record,
\* unless a roll was cut short behind that.
Disk == DOMAIN wal \ gone
Reclaim ==
    /\ \E j, k \in DOMAIN wal :
          /\ j <= k /\ j..k \subseteq Disk
          /\ k < Len(wal) \/ bare
          /\ gone' = gone \cup (j..k)
    /\ UNCHANGED <<alloc, writer, chainVars, wal, bare, walOpen, closeVars, opened, broken, bounds>>

-----------------------------------------------------------------------------
(* Close.                                                                  *)

CloseStart ==
    /\ closer = "open"
    /\ closer' = "draining"
    /\ UNCHANGED <<alloc, writer, chainVars, walVars, drained, run, opened, broken, bounds>>

\* Slip: no deadline beside the wait for appendMu.
DrainedUntimed ==
    /\ closer = "draining" /\ Holding = {}
    /\ drained' = TRUE
    /\ closer' = "stopping"
    /\ UNCHANGED <<alloc, writer, chainVars, walVars, run, opened, broken, bounds>>

\* waitAppendDrain got appendMu, or its deadline passed.
Drained ==
    /\ closer = "draining"
    /\ \/ Holding = {} /\ drained' = TRUE
       \/ drained' = FALSE
    /\ closer' = "stopping"
    /\ UNCHANGED <<alloc, writer, chainVars, walVars, run, opened, broken, bounds>>

\* Run returns: served Stop, cancelled, or on its own.
RunExit ==
    /\ run = "running"
    /\ run' = "exited"
    /\ UNCHANGED <<alloc, writer, chainVars, walVars, closer, drained, opened, broken, bounds>>

\* shutdown sees runDone: before Stop, in its wait, or in the grace period.
RunDone ==
    /\ closer \in {"stopping", "grace"} /\ run = "exited"
    /\ closer' = "walclose"
    /\ UNCHANGED <<alloc, writer, chainVars, walVars, drained, run, opened, broken, bounds>>

\* DrainDeadline: runCancel, and wait once more.
DrainDeadline ==
    /\ closer = "stopping" /\ run = "running"
    /\ closer' = "grace"
    /\ UNCHANGED <<alloc, writer, chainVars, walVars, drained, run, opened, broken, bounds>>

\* Slip: the WAL is closed although Run is wedged.
SafetyNetClosesWal ==
    /\ closer = "grace" /\ run = "running"
    /\ closer' = "walclose"
    /\ UNCHANGED <<alloc, writer, chainVars, walVars, drained, run, opened, broken, bounds>>

\* closeRunCancelGrace: Run is wedged, and the WAL is left open on purpose.
SafetyNet ==
    /\ closer = "grace" /\ run = "running"
    /\ closer' = "closed"
    /\ UNCHANGED <<alloc, writer, chainVars, walVars, drained, run, opened, broken, bounds>>

\* combineWALCloseErr: wal.Close waits for w.mu, which wal.Append holds.
WalClose ==
    /\ closer = "walclose"
    /\ IF drained THEN (\A w \in Writers : writer[w].pc # "append") /\ walOpen' = FALSE
       ELSE UNCHANGED walOpen
    /\ closer' = "closed"
    /\ UNCHANGED <<alloc, writer, chainVars, wal, gone, bare, drained, run, opened, broken, bounds>>

-----------------------------------------------------------------------------
(* A new process.                                                          *)

\* The records of a generation but for those at the positions G, and the events
\* of the records at the positions P, in WAL order.
Own(G, g)   == {i \in DOMAIN wal \ G : wal[i].gen = g}
EventsAt(P) == [n \in 1..Cardinality(P) |-> wal[Nth(P, n)].ev]

\* Slip: only the last record is replayed.
RestoredLastRecord ==
    IF Disk = {} THEN [gen |-> 0, prev |-> << >>]
    ELSE [gen |-> Last(wal).gen, prev |-> <<Last(wal).ev>>]

\* restoreChainFromWAL: the highest generation with data on disk is replayed
\* from an empty link.
Restored ==
    IF Disk = {} THEN [gen |-> 0, prev |-> << >>]
    ELSE LET g == Max({wal[i].gen : i \in Disk})
         IN  [gen |-> g, prev |-> EventsAt(Own(gone, g))]

\* The process ends at any point, in the middle of a roll too, and a new one
\* opens the WAL.
Restart ==
    /\ Fault
    /\ chain' = [gen |-> Restored.gen, prev |-> Restored.prev, fatal |-> FALSE]
    /\ anchor' = [gen  |-> Restored.gen,
                  hash |-> IF Restored.prev = << >> THEN 0 ELSE Last(Restored.prev)]
    /\ alloc' = IF RestoreAllocator THEN alloc ELSE <<0, -1>>
    /\ writer' = [w \in Writers |-> Outside]
    /\ fatal' = FALSE /\ broken' = FALSE
    /\ walOpen' = TRUE /\ closer' = "open" /\ drained' = FALSE /\ run' = "running"
    /\ bare' \in IF \E w \in Writers : writer[w].pc = "append" THEN {bare, TRUE} ELSE {bare}
    /\ lost' = gone
    /\ cuts' = IF Len(wal) \in gone THEN cuts \cup {Len(wal) + 1} ELSE cuts
    /\ UNCHANGED <<wal, gone, events>>

-----------------------------------------------------------------------------
Init ==
    /\ alloc = <<0, -1>>
    /\ writer = [w \in Writers |-> Outside]
    /\ chain = [gen |-> 0, prev |-> << >>, fatal |-> FALSE]
    /\ anchor = [gen |-> 0, hash |-> 0]
    /\ fatal = FALSE /\ broken = FALSE
    /\ wal = << >> /\ gone = {} /\ bare = FALSE /\ walOpen = TRUE
    /\ lost = {} /\ cuts = {}
    /\ closer = "open" /\ drained = FALSE /\ run = "running"
    /\ events = 0 /\ faults = 0

AppendEvent(w) ==
    \/ Stamp(w) \/ Refuse(w) \/ Reject(w) \/ Compute(w)
    \/ WalAppend(w) \/ WalAppendClean(w) \/ WalAppendAmbiguous(w) \/ Commit(w)

\* The steps of Close that no other goroutine can hold up for ever: each waits
\* for a channel with a timer beside it.
CloseStep == Drained \/ RunDone \/ DrainDeadline \/ SafetyNet \/ WalClose

Next ==
    \/ \E w \in Writers : AppendEvent(w)
    \/ NextGeneration \/ Reclaim
    \/ CloseStart \/ CloseStep \/ RunExit \/ Restart

Spec == Init /\ [][Next]_vars

\* Only the goroutine in Close is sure to run on: a writer may be stuck in a
\* write, and Run in a send.
FairSpec == Spec /\ WF_vars(CloseStep)

-----------------------------------------------------------------------------
(* What the sink promises.                                                 *)

Events == 1..MaxEvents

\* Every variable has the type the code gives it.
TypeOK ==
    /\ alloc \in Gens \X (Nat \cup {-1})
    /\ writer \in [Writers -> [pc : {"idle", "fanout", "append", "commit"},
                               ev : Events \cup {0}, gen : Gens, seq : Nat,
                               prev : Events \cup {0}, link : Seq(Events)]]
    /\ chain \in [gen : Gens, prev : Seq(Events), fatal : BOOLEAN]
    /\ anchor \in [gen : Gens, hash : Events \cup {0}]
    /\ wal \in Seq([ev : Events, gen : Gens, seq : Nat, prev : Events \cup {0}])
    /\ gone \subseteq DOMAIN wal /\ lost \subseteq gone
    /\ bare \in BOOLEAN /\ cuts \subseteq Nat
    /\ fatal \in BOOLEAN /\ broken \in BOOLEAN /\ walOpen \in BOOLEAN /\ drained \in BOOLEAN
    /\ closer \in {"open", "draining", "stopping", "grace", "walclose", "closed"}
    /\ run \in {"running", "exited"}
    /\ events \in 0..MaxEvents /\ faults \in 0..MaxFaults

\* The wire chain the server verifies: the record after one of its own
\* generation carries that one's event hash, the first of a generation the
\* empty hash; through concurrent writers, a record that reached the disk in a
\* failed Append, reclamation, crashes and restarts.  The exception is the first
\* record of a process that did not find the last record before it on disk: a
\* crash or an error cut a roll short, and the sealed file was reclaimed.
WireChain ==
    \A i \in DOMAIN wal \ cuts :
        LET own == {j \in 1..(i - 1) : wal[j].gen = wal[i].gen}
        IN  wal[i].prev = IF own = {} THEN 0 ELSE wal[Max(own)].ev

\* Between two transactions the HMAC chain stands for exactly the records of
\* its generation that this process found on disk or wrote, in WAL order: no
\* event is in the chain without being durable, or the other way round.
ChainFollowsWal ==
    Holding = {} /\ ~fatal =>
        chain.prev = EventsAt(Own(lost, chain.gen))

\* Concurrent appends and generation rolls never latch the Store fatal by
\* themselves: only an ambiguous failure does.
NoSpuriousFatal == fatal => broken

\* Once the Store is latched fatal, or Close has seen the last append out, the
\* log does not grow until a new process opens it.
Quiesced == [][fatal \/ (closer \notin {"open", "draining"} /\ drained) => wal' = wal]_vars

\* wal.Close never runs under a reader of Run or in the middle of an append.
CloseSafe == ~walOpen => run = "exited" /\ Holding = {}

\* Close returns, with writers stuck in a write and Run wedged in a send.
CloseReturns == (closer # "open") ~> (closer \in {"open", "closed"})
=============================================================================
