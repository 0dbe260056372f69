----------------------------- MODULE RawEventLog -----------------------------
(***************************************************************************)
(* The raw event store (store/events.py): record() appends to a bounded    *)
(* buffer on the event loop, flush() runs on the flush worker, moves the   *)
(* buffer to the hot DuckDB table and, when the hour has changed, exports  *)
(* the closed hours to one Parquet segment each, deletes them from the hot *)
(* table and enforces the retention.                                       *)
(*                                                                         *)
(* The two locks of the code make flush() one of a kind but not atomic:    *)
(* the loop records and the clock moves between any two of its statements, *)
(* a statement may fail, the process may stop.  DuckDB statements commit   *)
(* on their own; a COPY replaces the segment's file.                       *)
(*                                                                         *)
(* A row is a pair <<number, hour of its timestamp>>.  A wire event has    *)
(* the capture host's timestamp, so its hour may be an earlier one than    *)
(* the hour in which it is recorded.                                       *)
(***************************************************************************)
EXTENDS Integers, FiniteSets

CONSTANTS
    BufferMax,    \* BUFFER_MAX_EVENTS
    Horizon,      \* horizon_hours
    Quota,        \* quota_mb, in rows
    MaxLateness,  \* hours by which a timestamp may trail the clock
    MaxRows,      \* bound of the model: rows recorded
    MaxHour,      \* bound of the model: the clock
    MaxFailures,  \* bound of the model: statements that fail
    MaxRestarts   \* bound of the model: restarts of the process

ASSUME BoundsAssumption ==
    /\ BufferMax \in Nat /\ Horizon \in Nat /\ Quota \in Nat
    /\ MaxLateness \in Nat /\ MaxRows \in Nat /\ MaxHour \in Nat
    /\ MaxFailures \in Nat /\ MaxRestarts \in Nat

Hours == 0..MaxHour
Rows == (1..MaxRows) \X Hours

VARIABLES
    hour,          \* int(self._clock() // 3600)
    recorded,      \* calls of record() so far
    dropped,       \* self.dropped
    buffer,        \* self._buffer
    flight,        \* flush's local `rows`
    step,          \* where flush is
    closing,       \* flush's local `hour`
    copied,        \* the hours this export has copied
    exportedHour,  \* self._exported_hour
    hot,           \* the events table
    segments,      \* hour -> rows of its segment; {} when there is no file
    failures, restarts  \* so far

flushVars == <<flight, step, closing, copied>>
store == <<exportedHour, hot, segments>>
vars == <<hour, recorded, dropped, buffer, flushVars, store, failures,
          restarts>>

OfHour(rows, h) == {r \in rows : r[2] = h}
Before(rows, h) == {r \in rows : r[2] < h}

Init ==
    /\ hour = 0
    /\ recorded = 0 /\ dropped = 0
    /\ buffer = {} /\ flight = {}
    /\ step = "idle" /\ closing = 0 /\ copied = {}
    /\ exportedHour = 0
    /\ hot = {}
    /\ segments = [h \in Hours |-> {}]
    /\ failures = 0 /\ restarts = 0

-----------------------------------------------------------------------------
(* The event loop and the clock *)

Full == Cardinality(buffer) >= BufferMax

Record(h) ==
    /\ recorded < MaxRows
    /\ h \in (hour - MaxLateness)..hour /\ h >= 0
    /\ recorded' = recorded + 1
    /\ IF Full
       THEN dropped' = dropped + 1 /\ buffer' = buffer
       ELSE dropped' = dropped /\ buffer' = buffer \cup {<<recorded + 1, h>>}
    /\ UNCHANGED <<hour, flushVars, store, failures, restarts>>

HourPasses ==
    /\ hour < MaxHour
    /\ hour' = hour + 1
    /\ UNCHANGED <<recorded, dropped, buffer, flushVars, store, failures,
                   restarts>>

-----------------------------------------------------------------------------
(* flush, one action per statement *)

V_TakesCopy == flight' = buffer /\ UNCHANGED buffer
Takes == flight' = buffer /\ buffer' = {}

Swap ==
    /\ step = "idle"
    /\ step' = "inserting"
    /\ Takes
    /\ UNCHANGED <<hour, recorded, dropped, closing, copied, store, failures,
                   restarts>>

Insert ==
    /\ step = "inserting"
    /\ step' = "checking"
    /\ hot' = hot \cup flight /\ flight' = {}
    /\ UNCHANGED <<hour, recorded, dropped, buffer, closing, copied,
                   exportedHour, segments, failures, restarts>>

\* The transaction is rolled back and flush raises: its rows are gone.
InsertFails ==
    /\ step = "inserting" /\ flight # {}
    /\ failures < MaxFailures /\ failures' = failures + 1
    /\ step' = "idle" /\ flight' = {}
    /\ UNCHANGED <<hour, recorded, dropped, buffer, closing, copied, store,
                   restarts>>

V_ExportDueLate == hour > exportedHour + 1
ExportDue == hour > exportedHour

CheckHour ==
    /\ step = "checking"
    /\ IF ExportDue
       THEN step' = "copying" /\ closing' = hour /\ copied' = {}
       ELSE step' = "idle" /\ UNCHANGED <<closing, copied>>
    /\ UNCHANGED <<hour, recorded, dropped, buffer, flight, store, failures,
                   restarts>>

\* _export_closed_hours: the closed hours of the hot table, oldest first.
ToCopy == {h \in Hours : h < closing /\ OfHour(hot, h) # {}} \ copied

\* COPY replaces the file.
V_SegmentOfBoth(h) == segments[h] \cup OfHour(hot, h)
SegmentOf(h) == OfHour(hot, h)

CopyHour(h) ==
    /\ step = "copying" /\ h \in ToCopy /\ \A k \in ToCopy : h <= k
    /\ segments' = [segments EXCEPT ![h] = SegmentOf(h)]
    /\ copied' = copied \cup {h}
    /\ UNCHANGED <<hour, recorded, dropped, buffer, flight, step, closing,
                   exportedHour, hot, failures, restarts>>

\* A COPY or the DELETE after them raises, before the hour is noted as
\* exported: the next flush retries.
CopyFails ==
    /\ step = "copying"
    /\ failures < MaxFailures /\ failures' = failures + 1
    /\ step' = "idle"
    /\ UNCHANGED <<hour, recorded, dropped, buffer, flight, closing, copied,
                   store, restarts>>

\* The DELETE goes by the hour the export was started with.
V_ClosedNow == Before(hot, hour)
Closed == Before(hot, closing)

DeleteClosed ==
    /\ step = "copying" /\ ToCopy = {}
    /\ step' = "retiring"
    /\ hot' = hot \ Closed
    /\ exportedHour' = closing
    /\ UNCHANGED <<hour, recorded, dropped, buffer, flight, closing, copied,
                   segments, failures, restarts>>

\* _enforce_retention: the horizon, by the clock of now; then the oldest
\* segments until the directory fits the quota.
Recent == {h \in Hours : h >= hour - Horizon}
V_RetainedNewestGo ==
    {h \in Recent :
       Cardinality(UNION {segments[k] : k \in {j \in Recent : j <= h}}) <= Quota}
Retained ==
    {h \in Recent :
       Cardinality(UNION {segments[k] : k \in {j \in Recent : j >= h}}) <= Quota}
EnforceRetention ==
    /\ step = "retiring"
    /\ step' = "idle"
    /\ segments' =
         [h \in Hours |-> IF h \in Retained THEN segments[h] ELSE {}]
    /\ UNCHANGED <<hour, recorded, dropped, buffer, flight, closing, copied,
                   exportedHour, hot, failures, restarts>>

-----------------------------------------------------------------------------

\* Memory is lost, the table and the segments stay; the new process takes the
\* present hour for the last one exported.
Restart ==
    /\ restarts < MaxRestarts /\ restarts' = restarts + 1
    /\ buffer' = {} /\ flight' = {} /\ dropped' = 0
    /\ step' = "idle" /\ closing' = 0 /\ copied' = {}
    /\ exportedHour' = hour
    /\ UNCHANGED <<hour, recorded, hot, segments, failures>>

Flush ==
    \/ Swap \/ Insert \/ InsertFails \/ CheckHour
    \/ (\E h \in Hours : CopyHour(h))
    \/ CopyFails \/ DeleteClosed \/ EnforceRetention

Next ==
    \/ \E h \in Hours : Record(h)
    \/ HourPasses
    \/ Flush
    \/ Restart

Spec == Init /\ [][Next]_vars

\* The engine's flush loop calls flush every ten seconds for ever.
FairSpec == Spec /\ WF_vars(Flush)

-----------------------------------------------------------------------------
(* What the raw event store promises. *)

Stored == hot \cup UNION {segments[h] : h \in Hours}

\* Every variable keeps its type; the buffer stays within its bound, and
\* numbers are given to rows at most once.
TypeOK ==
    /\ hour \in Hours
    /\ recorded \in 0..MaxRows /\ dropped \in 0..recorded
    /\ buffer \subseteq Rows /\ flight \subseteq Rows /\ hot \subseteq Rows
    /\ Cardinality(buffer) <= BufferMax
    /\ step \in {"idle", "inserting", "checking", "copying", "retiring"}
    /\ closing \in Hours /\ copied \subseteq Hours /\ exportedHour \in Hours
    /\ segments \in [Hours -> SUBSET Rows]
    /\ failures \in 0..MaxFailures /\ restarts \in 0..MaxRestarts

\* The DELETE after an export removes from the hot table only what a segment
\* holds, whatever the clock and the loop do since flush read the hour.
DeletedOnlyIfCopied ==
    [][\A r \in hot \ hot' : r \in segments'[r[2]]]_vars

\* A row is on one side of every hand-over: it is never inserted twice, and no
\* row of the buffer or in flight is already stored.
NotTwice ==
    /\ buffer \cap flight = {}
    /\ (buffer \cup flight) \cap Stored = {}

\* A failed or interrupted export can be repeated: a segment beside hot rows
\* of its hour is either a copy of some of them, which the next COPY contains,
\* or shares none with them, which are then late rows.
RetryCoversSegment ==
    \A h \in Hours :
        \/ segments[h] \subseteq hot
        \/ segments[h] \cap hot = {}

\* A query's union of table and segments counts a row twice only between a
\* COPY and its DELETE: with flush at rest, only after one that did not finish.
CountedOnce ==
    step = "idle" /\ failures = 0 /\ restarts = 0 =>
        \A h \in Hours : segments[h] \cap hot = {}

\* A row is somewhere once, for the worker and, at rest, for a query.
RowsOnce == TypeOK /\ NotTwice /\ CountedOnce

\* The retention removes oldest first and leaves the directory within quota.
OldestGoFirst ==
    [][step = "retiring" /\ step' = "idle" /\ restarts' = restarts =>
         /\ Cardinality(UNION {segments'[h] : h \in Hours}) <= Quota
         /\ \A h, k \in Hours :
              segments[h] # {} /\ segments'[h] = {} /\ segments'[k] # {} => h < k
      ]_vars

\* An export that failed is retried until the closed hours have left the table.
ExportRetried ==
    \A h \in Hours :
        OfHour(hot, h) # {} /\ h < hour /\ exportedHour < hour
          /\ restarts = MaxRestarts
            ~> OfHour(hot, h) = {}

\* events.py names two ways in which a stored row goes: past the horizon, and
\* oldest first over the quota, both in _enforce_retention.  The COPY of an
\* hour that has a segment already, made for rows that came after its export,
\* replaces the segment and with it every row exported before.
KeptUntilRetention ==
    [][step # "retiring" => Stored \subseteq Stored']_vars

=============================================================================
