----------------------------- MODULE FrameFusion -----------------------------
(***************************************************************************)
(* The fusion tracker (ingest/fusion.py) of one instance: every incoming   *)
(* frame may be observed on the wire and by the probe, in either order; an *)
(* observation waits for its partner until the watermark passes.  A mutex  *)
(* makes every method one step, and every method sweeps first.             *)
(*                                                                         *)
(* The clock is a number.  The clock offsets of matched pairs and the      *)
(* labels of snapshot are left out.                                        *)
(***************************************************************************)
EXTENDS Integers, SequencesExt

CONSTANTS
    Senders,           \* short addresses
    Modulus,           \* of the transaction sequence: 256
    Watermark, Window, \* WATERMARK_SECONDS, WINDOW_SECONDS
    AlignWindow,       \* _EXPIRED_ALIGN_WINDOW_SECONDS
    MaxPending, SendersCap, ExpiredRing,  \* MAX_PENDING, _UNMATCHED_SENDERS_CAP,
                                          \* _EXPIRED_RING
    MaxTime, MaxSeen   \* bounds of the model: clock, observations of a side

FusionAssumption ==
    /\ IsFiniteSet(Senders) /\ Modulus \in Nat \ {0}
    /\ {Watermark, Window, AlignWindow, MaxPending, SendersCap, ExpiredRing} \subseteq Nat
    /\ MaxTime \in Nat

Sides == {"wire", "probe"}
Other(side) == IF side = "wire" THEN "probe" ELSE "wire"
Keys == Senders \X (0..Modulus - 1)

VARIABLES
    clock,
    pending,    \* side -> the dictionary, in order: [key, times]
    outcomes,   \* [at, kind], the oldest first
    unmatched,  \* unmatched_by_nwk: sender -> side -> count
    matched,    \* matched_by_nwk
    expired,    \* side -> the ring of unmatched entries: [at, key]
    histogram,  \* seq_delta_histogram
    drops,      \* overflow_drops
    seen,       \* ghost: side -> observations
    dropped,    \* ghost: side -> observations dropped
    uncounted   \* ghost: side -> expiries of senders beyond the cap

vars == <<clock, pending, outcomes, unmatched, matched, expired, histogram, drops,
          seen, dropped, uncounted>>

Init ==
    /\ clock = 0
    /\ pending = [s \in Sides |-> <<>>] /\ outcomes = <<>>
    /\ unmatched = [n \in Senders |-> [s \in Sides |-> 0]]
    /\ matched = [n \in Senders |-> 0]
    /\ expired = [s \in Sides |-> <<>>]
    /\ histogram = [d \in 0..Modulus - 1 |-> 0] /\ drops = 0
    /\ seen = [s \in Sides |-> 0] /\ dropped = seen /\ uncounted = seen

-----------------------------------------------------------------------------

Distance(a, b) == IF a > b THEN a - b ELSE b - a

\* _record_seq_delta: the nearest in time of the other side's ring, from the
\* same sender, is used up; with none, the entry joins its own ring.
Near(ring, e) ==
    {i \in DOMAIN ring : ring[i].key[1] = e.key[1]
                         /\ Distance(ring[i].at, e.at) <= AlignWindow}
V_NearestKept(ring, i) == ring
UsedUp(ring, i) == RemoveAt(ring, i)
Aligned(side, st, e) ==
    LET other == st.expired[Other(side)]
        nearest == {i \in Near(other, e) : \A j \in Near(other, e) :
                        LET di == Distance(other[i].at, e.at)
                            dj == Distance(other[j].at, e.at)
                        IN di < dj \/ (di = dj /\ i <= j)}
        own == Append(st.expired[side], e)
    IN IF nearest = {}
       THEN [st EXCEPT !.expired[side] =
                IF Len(own) > ExpiredRing THEN Tail(own) ELSE own]
       ELSE LET i == CHOOSE i \in nearest : TRUE
                probe == IF side = "wire" THEN other[i].key[2] ELSE e.key[2]
                wire == IF side = "wire" THEN e.key[2] ELSE other[i].key[2]
            IN [st EXCEPT !.expired[Other(side)] = UsedUp(@, i),
                          !.histogram[(probe - wire) % Modulus] = @ + 1]

\* unmatched_by_nwk takes a new sender only below its cap.
Known(st) == {n \in Senders : \E s \in Sides : st.unmatched[n][s] > 0}
CountExpiry(side, st, e) ==
    IF e.key[1] \in Known(st) \/ Cardinality(Known(st)) < SendersCap
    THEN [st EXCEPT !.unmatched[e.key[1]][side] = @ + 1]
    ELSE [st EXCEPT !.uncounted[side] = @ + 1]

Expiry(side, st, e) ==
    Aligned(side,
            [CountExpiry(side, st, e) EXCEPT
                !.outcomes = Append(@, [at |-> clock, kind |-> side])],
            e)

\* How many stand at the head of a queue that are older than that.
Leading(ats, age) ==
    Max({k \in 0..Len(ats) : \A j \in 1..k : clock - ats[j] > age})

\* _sweep, of one entry of a dictionary: from the oldest on, while they are late.
Late(p) == Leading(p.times, Watermark)
Lapsed(side, st, p) ==
    LET f[k \in 0..Late(p)] ==
          IF k = 0 THEN st
          ELSE Expiry(side, f[k - 1], [at |-> p.times[k], key |-> p.key])
    IN f[Late(p)]
OnTime(p) == [p EXCEPT !.times = SubSeq(@, Late(p) + 1, Len(@))]

\* ... of a side: an entry with no time left goes.
SweptSide(side, st) ==
    LET f[i \in 0..Len(pending[side])] ==
          IF i = 0 THEN [st EXCEPT !.pending[side] = << >>]
          ELSE LET p == pending[side][i]
                   done == Lapsed(side, f[i - 1], p)
               IN IF OnTime(p).times = << >> THEN done
                  ELSE [done EXCEPT !.pending[side] = Append(@, OnTime(p))]
    IN f[Len(pending[side])]

Tracker == [pending |-> pending, outcomes |-> outcomes, unmatched |-> unmatched,
            expired |-> expired, histogram |-> histogram, uncounted |-> uncounted]
Trimmed(outs) ==
    SubSeq(outs, Leading([j \in DOMAIN outs |-> outs[j].at], Window) + 1, Len(outs))

\* The wire's dictionary first.
Swept == [SweptSide("probe", SweptSide("wire", Tracker)) EXCEPT !.outcomes = Trimmed(@)]

Has(dict, key) == {i \in DOMAIN dict : dict[i].key = key}
PopFirst(dict, i) ==
    IF Len(dict[i].times) = 1 THEN RemoveAt(dict, i)
    ELSE [dict EXCEPT ![i].times = Tail(@)]
Push(dict, key) ==
    IF Has(dict, key) = {} THEN Append(dict, [key |-> key, times |-> <<clock>>])
    ELSE [dict EXCEPT ![CHOOSE i \in Has(dict, key) : TRUE].times = Append(@, clock)]

Waiting(dict) ==
    SumFunctionOnSet([i \in DOMAIN dict |-> Len(dict[i].times)], DOMAIN dict)

\* _enqueue: over the bound the oldest head goes, whose ever it is.
Oldest(dict) ==
    LET first == Min({dict[i].times[1] : i \in DOMAIN dict})
    IN Min({i \in DOMAIN dict : dict[i].times[1] = first})
Enqueued(dict, key) ==
    LET mine == Push(dict, key)
    IN IF Waiting(mine) > MaxPending THEN PopFirst(mine, Oldest(mine)) ELSE mine
Overflows(dict, key) == Waiting(Push(dict, key)) > MaxPending

\* on_wire and on_probe.
Observe(side, key) ==
    LET swept == Swept
        mine == swept.pending[side]
        theirs == swept.pending[Other(side)]
        partners == Has(theirs, key)
    IN /\ seen[side] < MaxSeen
       /\ seen' = [seen EXCEPT ![side] = @ + 1]
       /\ unmatched' = swept.unmatched /\ uncounted' = swept.uncounted
       /\ expired' = swept.expired /\ histogram' = swept.histogram
       /\ \/ /\ partners # {}
             /\ pending' = [swept.pending EXCEPT
                              ![Other(side)] = PopFirst(@, CHOOSE i \in partners : TRUE)]
             /\ outcomes' = Append(swept.outcomes, [at |-> clock, kind |-> "matched"])
             /\ matched' = [matched EXCEPT ![key[1]] = @ + 1]
             /\ UNCHANGED <<drops, dropped>>
          \/ /\ partners = {}
             /\ pending' = [swept.pending EXCEPT ![side] = Enqueued(@, key)]
             /\ LET lost == IF Overflows(mine, key) THEN 1 ELSE 0
                IN drops' = drops + lost /\ dropped' = [dropped EXCEPT ![side] = @ + lost]
             /\ UNCHANGED matched
             /\ outcomes' = swept.outcomes
       /\ UNCHANGED clock

OnWire(key) == Observe("wire", key)
OnProbe(key) == Observe("probe", key)

\* snapshot sweeps too.
Snapshot ==
    /\ LET swept == Swept
       IN /\ pending' = swept.pending /\ outcomes' = swept.outcomes
          /\ unmatched' = swept.unmatched /\ uncounted' = swept.uncounted
          /\ expired' = swept.expired /\ histogram' = swept.histogram
    /\ UNCHANGED <<clock, matched, drops, seen, dropped>>

Tick ==
    /\ clock < MaxTime /\ clock' = clock + 1
    /\ UNCHANGED <<pending, outcomes, unmatched, matched, expired, histogram, drops,
                   seen, dropped, uncounted>>

Next == Snapshot \/ Tick \/ \E key \in Keys : OnWire(key) \/ OnProbe(key)

Spec == Init /\ [][Next]_vars

-----------------------------------------------------------------------------

TypeOK ==
    /\ clock \in 0..MaxTime /\ drops \in Nat
    /\ \A s \in Sides : \A i \in DOMAIN pending[s] :
         pending[s][i].key \in Keys /\ pending[s][i].times # <<>>
    /\ \A s \in Sides : Len(expired[s]) <= ExpiredRing /\ Waiting(pending[s]) <= MaxPending
    /\ histogram \in [0..Modulus - 1 -> Nat]

\* The expiries of a side that found no partner, and the pairs among them.
Alone(s) == SumFunctionOnSet([n \in Senders |-> unmatched[n][s]], Senders) + uncounted[s]
Pairs == SumFunctionOnSet(histogram, 0..Modulus - 1)

\* Every observation of a side is in one place: matched, expired alone, dropped
\* at the bound, or waiting.  Both sides count the same matches, and no frame
\* waits on both sides, as the second would have found the first.
EveryObservationPlaced ==
    /\ \A s \in Sides :
         seen[s] = SumFunctionOnSet(matched, Senders) + Alone(s) + dropped[s] + Waiting(pending[s])
    /\ \A p \in Range(pending["wire"]), q \in Range(pending["probe"]) : p.key # q.key

\* An expired entry explains at most one entry of the other side: what is in
\* the histogram has been taken from both, so it counts pairs of expiries.
PairedOnce == \A s \in Sides : Pairs + Len(expired[s]) <= Alone(s)

=============================================================================
