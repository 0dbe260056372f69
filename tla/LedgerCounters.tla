---------------------------- MODULE LedgerCounters ----------------------------
(***************************************************************************)
(* The engine's counts of what no chain prices: the commands it publishes  *)
(* itself (_ledger_self) and the reports devices send of their own         *)
(* (_ledger_autonomous), and the part of _flush_ledger that books them.    *)
(*                                                                         *)
(* The event loop counts with `d[key] = d.get(key, 0) + 1`, the flush      *)
(* worker takes the whole dictionary and leaves an empty one.  No lock     *)
(* guards either, and the interpreter may switch threads after the call of *)
(* get, before the dictionary is looked up again to store the sum.  One    *)
(* key stands for each dictionary's.                                       *)
(***************************************************************************)
EXTENDS Integers

CONSTANTS
    None,         \* the loop is not counting
    MaxCounted,   \* bound of the model: events counted per book
    MaxFailures,  \* bound of the model: transactions that fail
    MaxRestarts   \* bound of the model: restarts of the collector

Books == {"self", "autonomous"}

VARIABLES
    pending,   \* _ledger_self and _ledger_autonomous: book -> count
    counting,  \* the book and the count the loop has just read, or None
    pass,      \* where _flush_ledger is
    drawn,     \* its locals self_pending and auto_pending
    booked,    \* ledger_daily and ledger_device_daily: book -> count
    counted,   \* ghost: book -> events that happened
    spilled,   \* ghost: book -> events a failure or a restart dropped
    failures, restarts  \* so far

vars == <<pending, counting, pass, drawn, booked, counted, spilled, failures,
          restarts>>

Zero == [b \in Books |-> 0]

Init ==
    /\ pending = Zero /\ counting = None
    /\ pass = "idle" /\ drawn = Zero
    /\ booked = Zero
    /\ counted = Zero /\ spilled = Zero
    /\ failures = 0 /\ restarts = 0

\* The loop: a command of our own is published, a device's own report comes.
Reads(book) ==
    /\ counting = None
    /\ counted[book] < MaxCounted
    /\ counted' = [counted EXCEPT ![book] = @ + 1]
    /\ counting' = [book |-> book, count |-> pending[book]]
    /\ UNCHANGED <<pending, pass, drawn, booked, spilled, failures, restarts>>
PublishesOwn == Reads("self")
OwnReport == Reads("autonomous")

Stores ==
    /\ counting # None
    /\ pending' = [pending EXCEPT ![counting.book] = counting.count + 1]
    /\ counting' = None
    /\ UNCHANGED <<pass, drawn, booked, counted, spilled, failures, restarts>>

\* The worker: one dictionary is swapped before the commanders' rows are
\* written, the other after.
Draw(book) ==
    /\ drawn' = [drawn EXCEPT ![book] = pending[book]]
    /\ pending' = [pending EXCEPT ![book] = 0]
    /\ UNCHANGED <<counting, booked, counted, spilled, failures, restarts>>
DrawSelf == pass = "idle" /\ Draw("self") /\ pass' = "commanders"
DrawAutonomous == pass = "commanders" /\ Draw("autonomous") /\ pass' = "devices"

Commits ==
    /\ pass = "devices" /\ pass' = "idle"
    /\ booked' = [b \in Books |-> booked[b] + drawn[b]]
    /\ drawn' = Zero
    /\ UNCHANGED <<pending, counting, counted, spilled, failures, restarts>>

\* The transaction rolls back; what was drawn is not put back.
Fails ==
    /\ pass # "idle" /\ pass' = "idle"
    /\ failures < MaxFailures /\ failures' = failures + 1
    /\ spilled' = [b \in Books |-> spilled[b] + drawn[b]]
    /\ drawn' = Zero
    /\ UNCHANGED <<pending, counting, booked, counted, restarts>>

Restart ==
    /\ restarts < MaxRestarts /\ restarts' = restarts + 1
    /\ spilled' = [b \in Books |-> counted[b] - booked[b]]
    /\ pending' = Zero /\ counting' = None
    /\ pass' = "idle" /\ drawn' = Zero
    /\ UNCHANGED <<booked, counted, failures>>

Next ==
    \/ PublishesOwn \/ OwnReport \/ Stores
    \/ DrawSelf \/ DrawAutonomous \/ Commits \/ Fails
    \/ Restart

Spec == Init /\ [][Next]_vars

-----------------------------------------------------------------------------

\* "Self spend stays on the books", and is not on them twice: what the ledger
\* has booked and is about to book has happened.  It does not hold: the loop
\* may store one more than a count that the worker has drawn in the meantime.
BookedOnce ==
    \A b \in Books : booked[b] + drawn[b] + pending[b] <= counted[b]

=============================================================================
