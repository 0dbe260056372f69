---------------------------- MODULE RollupWindows ----------------------------
(***************************************************************************)
(* Windows between the loop, which records, and the flush worker, which    *)
(* drains and stores them (flush_rollups, INSERT OR REPLACE).  Two kinds:  *)
(* the counters of ingest/rates.py and AirtimeTracker of ingest/tap.py,    *)
(* under a mutex and drained by a watermark, and WireLatency of            *)
(* ingest/tap.py, without either.  One instance and one bucket of each;    *)
(* of a window, how many observations it has.                              *)
(***************************************************************************)
EXTENDS Integers, FiniteSets, FiniteSetsExt

CONSTANTS
    None,
    Rollup,    \* seconds in a window: ROLLUP_SECONDS
    Keep,      \* seconds that buckets are kept: WINDOW_SECONDS
    MaxTime, MaxEvents, MaxFailures, MaxBack  \* bounds of the model

Seconds == 0..MaxTime
Adds == [now : Seconds, has : {"nothing", "list", "taken"}]

\* The clock is not set back by more than is kept, a window less.
RollupAssumption ==
    /\ Rollup \in Nat \ {0} /\ Keep \in Nat /\ MaxTime \in Nat /\ MaxBack \in Nat
    /\ (MaxBack + 1) * Rollup <= Keep
    /\ None \notin Nat /\ None \notin Adds

Window(second) == second - (second % Rollup)
Windows == {Window(s) : s \in Seconds}

VARIABLES
    kind,      \* "counters" or "latency"
    clock,     \* the wall clock; it may be set back
    buckets,   \* counters: second -> count
    watermark, \* counters: _drained
    open,      \* latency: window -> count of its list, or None
    adding,    \* the loop inside record or add, or None
    pass,      \* where the worker is
    drawn,     \* its rows: window -> count or None
    table,     \* the stored rows: window -> count
    happened,  \* ghost: window -> observations
    excused,   \* ghost: windows that met a failed transaction, a clock set back,
               \* a stalled worker or an observation that came after the drain
    failures, back

vars == <<kind, clock, buckets, watermark, open, adding, pass, drawn, table,
          happened, excused, failures, back>>

Nothing == [w \in Windows |-> None]
Idle == [at |-> "idle", now |-> 0, todo |-> {}, grown |-> FALSE]

Init ==
    /\ kind \in {"counters", "latency"}
    /\ clock = 0 /\ watermark = 0
    /\ buckets = [s \in Seconds |-> 0] /\ open = Nothing
    /\ adding = None /\ pass = Idle /\ drawn = Nothing
    /\ table = [w \in Windows |-> 0] /\ happened = table
    /\ excused = {} /\ failures = 0 /\ back = 0

-----------------------------------------------------------------------------
(* The loop *)

\* record and add begin by reading the clock.
Begin ==
    /\ adding = None
    /\ SumFunction(happened) < MaxEvents
    /\ adding' = [now |-> clock, has |-> "nothing"]
    /\ happened' = [happened EXCEPT ![Window(clock)] = @ + 1]
    /\ UNCHANGED <<kind, clock, buckets, watermark, open, pass, drawn, table,
                   excused, failures, back>>

\* record under the mutex: the bucket, and the buckets that are too old.
Stale(now) == {s \in Seconds : s < now - Keep /\ buckets[s] > 0}
Record ==
    /\ kind = "counters" /\ adding # None
    /\ buckets' = [s \in Seconds |->
          IF s \in Stale(adding.now) THEN 0
          ELSE IF s = adding.now THEN buckets[s] + 1 ELSE buckets[s]]
    /\ excused' = excused
          \cup {Window(s) : s \in {s \in Stale(adding.now) : s >= watermark \/ back > 0}}
          \cup {Window(s) : s \in {adding.now} \cap 0..watermark - 1}
    /\ adding' = None
    /\ UNCHANGED <<kind, clock, watermark, open, pass, drawn, table, happened,
                   failures, back>>

\* add: the window's list, made if it is not there,
OpenList ==
    /\ kind = "latency" /\ adding # None /\ adding.has = "nothing"
    /\ LET w == Window(adding.now)
       IN /\ open' = [open EXCEPT ![w] = IF @ = None THEN 0 ELSE @]
          /\ pass' = IF open[w] = None THEN [pass EXCEPT !.grown = TRUE] ELSE pass
          /\ excused' = IF table[w] > 0 \/ drawn[w] # None THEN excused \cup {w} ELSE excused
    /\ adding' = [adding EXCEPT !.has = "list"]
    /\ UNCHANGED <<kind, clock, buckets, watermark, drawn, table, happened,
                   failures, back>>

\* ... and the sample into it, which the worker may have taken meanwhile.
AppendSample ==
    /\ kind = "latency" /\ adding # None /\ adding.has # "nothing"
    /\ LET w == Window(adding.now)
       IN IF adding.has = "list"
          THEN open' = [open EXCEPT ![w] = @ + 1] /\ UNCHANGED excused
          ELSE excused' = excused \cup {w} /\ UNCHANGED open
    /\ adding' = None
    /\ UNCHANGED <<kind, clock, buckets, watermark, pass, drawn, table, happened,
                   failures, back>>

-----------------------------------------------------------------------------
(* The worker *)

StartPass ==
    /\ pass.at = "idle"
    /\ pass' = [Idle EXCEPT !.at = "drain", !.now = Window(clock)]
    /\ UNCHANGED <<kind, clock, buckets, watermark, open, adding, drawn, table,
                   happened, excused, failures, back>>

\* drain_completed_windows of the counters, under the mutex.
InWindow(w) == {s \in Seconds : Window(s) = w}
Count(w) == SumFunctionOnSet(buckets, InWindow(w))
Completed(now) == {w \in Windows : watermark <= w /\ w < now}
DrainCounters ==
    /\ kind = "counters" /\ pass.at = "drain"
    /\ drawn' = [w \in Windows |->
          IF w \in Completed(pass.now) /\ Count(w) > 0 THEN Count(w) ELSE None]
    /\ watermark' = pass.now
    /\ pass' = [pass EXCEPT !.at = "store"]
    /\ UNCHANGED <<kind, clock, buckets, open, adding, table, happened, excused,
                   failures, back>>

\* ... and of the latencies: the keys are sorted while the loop may add one,
ListWindows ==
    /\ kind = "latency" /\ pass.at = "drain"
    /\ pass' = [pass EXCEPT !.at = "listing", !.grown = FALSE]
    /\ UNCHANGED <<kind, clock, buckets, watermark, open, adding, drawn, table,
                   happened, excused, failures, back>>

Listed ==
    /\ pass.at = "listing" /\ ~pass.grown
    /\ pass' = [pass EXCEPT !.at = "pop",
                            !.todo = {w \in Windows : open[w] # None /\ w < pass.now}]
    /\ UNCHANGED <<kind, clock, buckets, watermark, open, adding, drawn, table,
                   happened, excused, failures, back>>

\* The iteration raises: the pass is over, and the next one lists again.
ListRaises ==
    /\ pass.at = "listing" /\ pass.grown
    /\ pass' = Idle
    /\ UNCHANGED <<kind, clock, buckets, watermark, open, adding, drawn, table,
                   happened, excused, failures, back>>

PopWindow(w) ==
    /\ pass.at = "pop" /\ w \in pass.todo /\ open[w] > 0
    /\ drawn' = [drawn EXCEPT ![w] = open[w]]
    /\ open' = [open EXCEPT ![w] = None]
    /\ adding' = IF adding # None /\ Window(adding.now) = w /\ adding.has = "list"
                 THEN [adding EXCEPT !.has = "taken"] ELSE adding
    /\ pass' = [pass EXCEPT !.todo = @ \ {w}]
    /\ UNCHANGED <<kind, clock, buckets, watermark, table, happened, excused,
                   failures, back>>

\* A list that add has made and not yet filled has no median: the pass is over,
\* and the rows it had drawn are gone.
EmptyRaises(w) ==
    /\ pass.at = "pop" /\ w \in pass.todo /\ open[w] = 0
    /\ open' = [open EXCEPT ![w] = None]
    /\ adding' = [adding EXCEPT !.has = "taken"]
    /\ excused' = excused \cup {v \in Windows : drawn[v] # None}
    /\ drawn' = Nothing /\ pass' = Idle
    /\ UNCHANGED <<kind, clock, buckets, watermark, table, happened, failures, back>>

Popped ==
    /\ pass.at = "pop" /\ pass.todo = {}
    /\ pass' = [pass EXCEPT !.at = "store"]
    /\ UNCHANGED <<kind, clock, buckets, watermark, open, adding, drawn, table,
                   happened, excused, failures, back>>

V_StoreOnce(w) == IF table[w] = 0 THEN drawn[w] ELSE table[w]
Stored(w) == drawn[w]
Store ==
    /\ pass.at = "store"
    /\ table' = [w \in Windows |-> IF drawn[w] = None THEN table[w] ELSE Stored(w)]
    /\ drawn' = Nothing /\ pass' = Idle
    /\ UNCHANGED <<kind, clock, buckets, watermark, open, adding, happened, excused,
                   failures, back>>

\* The transaction fails: what was drawn is gone.
StoreFails ==
    /\ pass.at = "store" /\ failures < MaxFailures /\ failures' = failures + 1
    /\ excused' = excused \cup {w \in Windows : drawn[w] # None}
    /\ drawn' = Nothing /\ pass' = Idle
    /\ UNCHANGED <<kind, clock, buckets, watermark, open, adding, table, happened, back>>

Tick ==
    /\ clock < MaxTime /\ clock' = clock + 1
    /\ UNCHANGED <<kind, buckets, watermark, open, adding, pass, drawn, table,
                   happened, excused, failures, back>>

\* The wall clock is set back into the window before.  The latencies keep no
\* more of a window than its row.
SetBack ==
    /\ back < MaxBack /\ back' = back + 1
    /\ clock >= Rollup /\ clock' = clock - Rollup
    /\ excused' = IF kind = "latency" THEN excused \cup {Window(clock')} ELSE excused
    /\ UNCHANGED <<kind, buckets, watermark, open, adding, pass, drawn, table,
                   happened, failures>>

Worker ==
    \/ StartPass \/ DrainCounters \/ ListWindows \/ Listed \/ ListRaises
    \/ Popped \/ Store \/ StoreFails \/ \E w \in Windows : PopWindow(w) \/ EmptyRaises(w)

Next ==
    \/ Begin \/ Record \/ OpenList \/ AppendSample \/ Worker \/ Tick \/ SetBack

Spec == Init /\ [][Next]_vars

-----------------------------------------------------------------------------

TypeOK ==
    /\ clock \in Seconds /\ watermark \in Windows
    /\ buckets \in [Seconds -> Nat] /\ open \in [Windows -> Nat \cup {None}]
    /\ drawn \in [Windows -> Nat \cup {None}] /\ table \in [Windows -> Nat]
    /\ pass.at \in {"idle", "drain", "listing", "pop", "store"}

\* A window that is behind the watermark (or has a row and no list) and met no
\* failure has its whole count stored, also when the clock was set back and its
\* seconds ran twice: the rows of a second drain replace those of the first by
\* what the buckets then hold (rates.py:67-85, tap.py:131-149).  And no row
\* ever counts an observation twice.
Behind(w) ==
    IF kind = "counters" THEN w < watermark
    ELSE table[w] > 0 /\ open[w] = None
InHand(w) == drawn[w] # None \/ (adding # None /\ Window(adding.now) = w)
RollupsWhole ==
    \A w \in Windows :
        /\ table[w] <= happened[w]
        /\ Behind(w) /\ ~InHand(w) /\ w \notin excused => table[w] = happened[w]

=============================================================================
