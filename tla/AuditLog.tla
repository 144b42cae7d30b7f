------------------------------ MODULE AuditLog ------------------------------
(***************************************************************************)
(* What a bounded audit log promises its two users, with no files in it.   *)
(*                                                                         *)
(* Entries are (generation, sequence) tuples.  The log holds a set of      *)
(* entries; the only ones it may take out are those the receiver has       *)
(* acknowledged, and the oldest ones when there is no room.  A batch taken *)
(* out for room is owed a notice, at most one such debt is open at a time, *)
(* and no further entry is stored while it is.  Entries that arrive in     *)
(* their order are named by the notice of their batch, and by no notice    *)
(* while they are held.  An entry that arrives late may spoil the notice   *)
(* of its batch, whose entries are then known as missed.  A failure may    *)
(* cancel the open debt, and the entries it covered are known as cut off.  *)
(***************************************************************************)
EXTENDS Watermark

CONSTANT Entries

VARIABLES
    held,     \* entries in the log
    top,      \* the highest tuple offered to the log
    late,     \* tuples that were not above those offered before them
    acked,    \* the highest tuple the receiver acknowledged
    owed,     \* tuples the next notice has to name
    noticed,  \* tuples a notice has named
    cutOff,   \* tuples whose notice a failure prevented
    missed    \* tuples of batches with a late entry

logVars == <<held, top, late, acked, owed, noticed, cutOff, missed>>

LogInit ==
    /\ held = {} /\ top = NoAck /\ late = {} /\ acked = NoAck
    /\ owed = {} /\ noticed = {} /\ cutOff = {} /\ missed = {}

\* S are the oldest entries held, but for late ones.
Oldest(S) == S \subseteq held /\ \A t \in S, u \in held \ S : u \in late \/ TupleLess(t, u)

\* An entry is offered.
Offer ==
    /\ \E t \in Entries :
          IF TupleLess(top, t) THEN top' = t /\ UNCHANGED late
          ELSE late' = late \cup {t} /\ UNCHANGED top
    /\ UNCHANGED <<held, acked, owed, noticed, cutOff, missed>>

\* The offered entry is stored, with no debt left open by the removals made for
\* it: it is the newest, or late.  A failure may leave it stored too.
Store ==
    /\ owed = {}
    /\ \E t \in late \cup {top} : held' = held \cup {t}
    /\ UNCHANGED <<top, late, acked, owed, noticed, cutOff, missed>>

Acknowledge ==
    /\ acked' \in Entries /\ TupleLeq(acked, acked')
    /\ UNCHANGED <<held, top, late, owed, noticed, cutOff, missed>>

\* Acknowledged entries are taken out, in any order.
Reclaim ==
    /\ held' \subseteq held
    /\ \A t \in held \ held' : TupleLeq(t, acked)
    /\ UNCHANGED <<top, late, acked, owed, noticed, cutOff, missed>>

\* The oldest batch is taken out and becomes a debt; of an entry that was
\* stored twice, which is a late one, a copy may stay.
DropForRoom ==
    /\ owed = {}
    /\ \E S \in SUBSET held :
          /\ Oldest(S)
          /\ held \ S \subseteq held' /\ held' \subseteq held /\ held' \cap S \subseteq late
          /\ S \cap late = {} => S \subseteq owed'
          /\ owed' \cap held' \subseteq late
          /\ missed' = IF S \cap late = {} THEN missed ELSE missed \cup S
    /\ UNCHANGED <<top, late, acked, noticed, cutOff>>

Notify ==
    /\ noticed' = noticed \cup owed /\ owed' = {}
    /\ UNCHANGED <<held, top, late, acked, cutOff, missed>>

\* A failure between a removal and its notice.
CutOff ==
    /\ owed' = {}
    /\ held' \subseteq held /\ Oldest(held \ held')
    /\ cutOff' = cutOff \cup owed \cup (held \ held')
    /\ UNCHANGED <<top, late, acked, noticed, missed>>

LogNext ==
    \/ Offer \/ Store \/ Acknowledge \/ Reclaim \/ DropForRoom \/ Notify \/ CutOff

LogSpec == LogInit /\ [][LogNext]_logVars
=============================================================================
