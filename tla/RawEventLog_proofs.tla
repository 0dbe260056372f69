------------------------- MODULE RawEventLog_proofs -------------------------
(***************************************************************************)
(* Proofs about the raw event store, for every value of the bounds.  The   *)
(* inductive invariant IInv adds to the properties what makes them hold:   *)
(* every row's number has been given out, a segment holds only rows of its *)
(* hour, and while an export runs, the segments it has written equal what  *)
(* the table holds of their hours.                                         *)
(***************************************************************************)
EXTENDS RawEventLog, OrderLemmas

\* No row bears a number that record() has yet to give out.
Numbered ==
    \A r \in buffer \cup flight \cup hot : r[1] <= recorded

\* A segment holds rows of its own hour, numbered as well.
Filed ==
    \A h \in Hours : \A r \in segments[h] : r[2] = h /\ r[1] <= recorded

\* What an export has copied so far is what the table still holds.
Exporting ==
    step = "copying" =>
        \A h \in copied : h < closing /\ segments[h] = OfHour(hot, h)

\* Without failures and restarts, table and segments overlap only in the
\* hours the running export has copied.
Disjoint ==
    failures = 0 /\ restarts = 0 =>
        \A h \in Hours :
            \/ step = "copying" /\ h \in copied
            \/ segments[h] \cap hot = {}

IInv ==
    /\ TypeOK
    /\ NotTwice
    /\ Numbered
    /\ Filed
    /\ Exporting
    /\ RetryCoversSegment
    /\ Disjoint

\* There are finitely many rows, so every buffer has a cardinality.
LEMMA RowsFinite == IsFiniteSet(Rows)
<1>1. IsFiniteSet(1..MaxRows) /\ IsFiniteSet(0..MaxHour)
  BY FS_Interval, BoundsAssumption
<1>2. QED
  BY <1>1, FS_Product DEF Rows, Hours

\* The initial state satisfies the inductive invariant.
LEMMA InitIInv == Init => IInv
<1> SUFFICES ASSUME Init PROVE IInv
  OBVIOUS
<1> USE BoundsAssumption DEF Init
<1>1. TypeOK
  <2>1. Cardinality({}) = 0
    BY FS_EmptySet
  <2>2. QED
    BY <2>1 DEF TypeOK, Hours
<1>2. NotTwice
  BY DEF NotTwice, Stored
<1>3. Numbered /\ Filed /\ Exporting /\ RetryCoversSegment /\ Disjoint
  BY DEF Numbered, Filed, Exporting, RetryCoversSegment, Disjoint
<1>4. QED
  BY <1>1, <1>2, <1>3 DEF IInv

\* Every step keeps the types, and the buffer within its bound.
LEMMA TypeStep == TypeOK /\ [Next]_vars => TypeOK'
<1> SUFFICES ASSUME TypeOK, [Next]_vars PROVE TypeOK'
  OBVIOUS
<1> USE BoundsAssumption DEF TypeOK, Hours
<1>e. Cardinality({}) = 0
  BY FS_EmptySet
<1>1. ASSUME NEW h \in Hours, Record(h) PROVE TypeOK'
  <2>1. CASE Cardinality(buffer) >= BufferMax
    BY <1>1, <2>1 DEF Record, Full, flushVars, store
  <2>2. CASE ~(Cardinality(buffer) >= BufferMax)
    <3> DEFINE grown == buffer \cup {<<recorded + 1, h>>}
    <3>1. IsFiniteSet(buffer)
      BY RowsFinite, FS_Subset
    <3>2. Cardinality(buffer) \in Nat
      BY <3>1, FS_CardinalityType
    <3>3. \/ Cardinality(grown) = Cardinality(buffer)
          \/ Cardinality(grown) = Cardinality(buffer) + 1
      BY <3>1, FS_AddElement
    <3>4. Cardinality(grown) <= BufferMax
      BY <2>2, <3>2, <3>3
    <3>5. recorded + 1 \in 1..MaxRows
      BY <1>1 DEF Record, Full
    <3>6. grown \subseteq Rows
      BY <3>5 DEF Rows
    <3>7. buffer' = grown
      BY <1>1, <2>2 DEF Record, Full
    <3> HIDE DEF grown
    <3>8. buffer' \subseteq Rows /\ Cardinality(buffer') <= BufferMax
      BY <3>4, <3>6, <3>7
    <3>9. recorded' \in 0..MaxRows /\ dropped' \in 0..recorded'
      BY <1>1, <2>2, <3>5 DEF Record, Full
    <3>10. QED
      BY <1>1, <3>8, <3>9 DEF Record, Full, flushVars, store
  <2>3. QED
    BY <2>1, <2>2
<1>2. CASE HourPasses
  BY <1>2 DEF HourPasses, flushVars, store
<1>3. CASE Swap
  BY <1>3, <1>e DEF Swap, Takes, store
<1>4. CASE Insert
  BY <1>4 DEF Insert
<1>5. CASE InsertFails
  BY <1>5 DEF InsertFails, store
<1>6. CASE CheckHour
  BY <1>6 DEF CheckHour, ExportDue, store
<1>7. ASSUME NEW h \in Hours, CopyHour(h) PROVE TypeOK'
  BY <1>7 DEF CopyHour, SegmentOf, OfHour
<1>8. CASE CopyFails
  BY <1>8 DEF CopyFails, store
<1>9. CASE DeleteClosed
  BY <1>9 DEF DeleteClosed, Closed
<1>10. CASE EnforceRetention
  BY <1>10 DEF EnforceRetention
<1>11. CASE Restart
  BY <1>11, <1>e DEF Restart
<1>12. CASE UNCHANGED vars
  BY <1>12 DEF vars, flushVars, store
<1>13. QED
  BY <1>1, <1>2, <1>3, <1>4, <1>5, <1>6, <1>7, <1>8, <1>9, <1>10, <1>11,
     <1>12 DEF Next, Flush

\* Every step keeps each row on one side of every hand-over.
LEMMA HandOverStep == IInv /\ [Next]_vars => NotTwice' /\ Numbered' /\ Filed'
<1> SUFFICES ASSUME IInv, [Next]_vars PROVE NotTwice' /\ Numbered' /\ Filed'
  OBVIOUS
<1> USE DEF IInv, NotTwice, Stored, Numbered, Filed
<1>t. /\ recorded \in Nat /\ segments \in [Hours -> SUBSET Rows]
      /\ buffer \subseteq Rows /\ flight \subseteq Rows /\ hot \subseteq Rows
      /\ \A r \in Rows : r[1] \in Nat
  BY BoundsAssumption DEF TypeOK, Rows
<1>1. ASSUME NEW h \in Hours, Record(h)
      PROVE NotTwice' /\ Numbered' /\ Filed'
  <2> DEFINE new == <<recorded + 1, h>>
  <2>1. new[1] = recorded + 1
    OBVIOUS
  <2>2. new \notin flight \cup Stored
    BY <1>t, <2>1
  <2>3. buffer' \subseteq buffer \cup {new} /\ recorded' = recorded + 1
        /\ UNCHANGED <<flight, hot, segments>>
    BY <1>1 DEF Record, Full, flushVars, store
  <2> HIDE DEF new
  <2>4. NotTwice'
    BY <2>2, <2>3
  <2>5. Numbered'
    BY <1>t, <2>1, <2>3
  <2>6. Filed'
    <3> SUFFICES ASSUME NEW k \in Hours, NEW r \in segments[k]
                 PROVE r[2] = k /\ r[1] <= recorded + 1
      BY <2>3
    <3>1. r \in Rows
      BY <1>t
    <3>2. QED
      BY <3>1, <1>t
  <2>7. QED
    BY <2>4, <2>5, <2>6
<1>2. CASE HourPasses
  BY <1>2 DEF HourPasses, flushVars, store
<1>3. CASE Swap
  BY <1>3 DEF Swap, Takes, store
<1>4. CASE Insert
  BY <1>4 DEF Insert
<1>5. CASE InsertFails
  BY <1>5 DEF InsertFails, store
<1>6. CASE CheckHour
  BY <1>6 DEF CheckHour, ExportDue, store
<1>7. ASSUME NEW h \in Hours, CopyHour(h)
      PROVE NotTwice' /\ Numbered' /\ Filed'
  <2>1. /\ \A k \in Hours : segments'[k] = IF k = h THEN OfHour(hot, h)
                                           ELSE segments[k]
        /\ UNCHANGED <<buffer, flight, hot, recorded>>
    BY <1>7, <1>t DEF CopyHour, SegmentOf
  <2>2. \A r \in OfHour(hot, h) : r \in hot /\ r[2] = h
    BY DEF OfHour
  <2>3. Stored' \subseteq Stored
    <3> SUFFICES ASSUME NEW r \in Stored' PROVE r \in Stored
      OBVIOUS
    <3>1. CASE r \in hot'
      BY <3>1, <2>1
    <3>2. CASE r \notin hot'
      <4>1. PICK k \in Hours : r \in segments'[k]
        BY <3>2
      <4>2. QED
        BY <4>1, <2>1, <2>2
    <3>3. QED
      BY <3>1, <3>2
  <2>4. NotTwice'
    BY <2>1, <2>3
  <2>5. Numbered'
    BY <2>1
  <2>6. Filed'
    BY <2>1, <2>2
  <2>7. QED
    BY <2>4, <2>5, <2>6
<1>8. CASE CopyFails
  BY <1>8 DEF CopyFails, store
<1>9. CASE DeleteClosed
  BY <1>9 DEF DeleteClosed, Closed, Before
<1>10. CASE EnforceRetention
  <2>1. /\ \A k \in Hours : segments'[k] \subseteq segments[k]
        /\ UNCHANGED <<buffer, flight, hot, recorded>>
    BY <1>10 DEF EnforceRetention
  <2>2. QED
    BY <2>1
<1>11. CASE Restart
  BY <1>11 DEF Restart
<1>12. CASE UNCHANGED vars
  BY <1>12 DEF vars, flushVars, store
<1>13. QED
  BY <1>1, <1>2, <1>3, <1>4, <1>5, <1>6, <1>7, <1>8, <1>9, <1>10, <1>11,
     <1>12 DEF Next, Flush

\* Every step keeps the relation between table, segments and running export.
LEMMA ExportStep ==
    IInv /\ [Next]_vars => Exporting' /\ RetryCoversSegment' /\ Disjoint'
<1> DEFINE Goal == Exporting /\ RetryCoversSegment /\ Disjoint
<1> SUFFICES ASSUME IInv, [Next]_vars PROVE Goal'
  OBVIOUS
<1> USE DEF Exporting, RetryCoversSegment, Disjoint
<1>i. TypeOK /\ NotTwice /\ Filed /\ Goal
  BY DEF IInv
<1>t. /\ segments \in [Hours -> SUBSET Rows] /\ copied \subseteq Hours
      /\ hot \subseteq Rows /\ closing \in Hours
      /\ failures \in Nat /\ restarts \in Nat
      /\ \A h \in Hours : h \in Int
      /\ \A r \in Rows : r[2] \in Hours
  BY <1>i, BoundsAssumption DEF TypeOK, Rows, Hours
<1>1. ASSUME NEW h \in Hours, Record(h) PROVE Goal'
  BY <1>1, <1>i DEF Record, Full, flushVars, store
<1>2. CASE HourPasses
  BY <1>2, <1>i DEF HourPasses, flushVars, store
<1>3. CASE Swap
  BY <1>3, <1>i DEF Swap, Takes, store
<1>4. CASE Insert
  <2>1. \A h \in Hours : segments[h] \cap flight = {}
    BY <1>i DEF NotTwice, Stored
  <2>2. hot' = hot \cup flight /\ segments' = segments /\ step = "inserting"
        /\ step' = "checking" /\ UNCHANGED <<failures, restarts>>
    BY <1>4 DEF Insert
  <2>3. QED
    BY <2>1, <2>2, <1>i
<1>5. CASE InsertFails
  BY <1>5, <1>i, <1>t DEF InsertFails, store
<1>6. CASE CheckHour
  BY <1>6, <1>i DEF CheckHour, ExportDue, store
<1>7. ASSUME NEW h \in Hours, CopyHour(h) PROVE Goal'
  <2>1. /\ \A k \in Hours : segments'[k] = IF k = h THEN OfHour(hot, h)
                                           ELSE segments[k]
        /\ copied' = copied \cup {h} /\ h < closing
        /\ step = "copying" /\ step' = "copying"
        /\ UNCHANGED <<hot, closing, failures, restarts>>
    BY <1>7, <1>t DEF CopyHour, SegmentOf, ToCopy
  <2>2. Exporting'
    BY <2>1, <1>i, <1>t
  <2>3. RetryCoversSegment'
    BY <2>1, <1>i DEF OfHour
  <2>4. Disjoint'
    BY <2>1, <1>i
  <2>5. QED
    BY <2>2, <2>3, <2>4
<1>8. CASE CopyFails
  BY <1>8, <1>i, <1>t DEF CopyFails, store
<1>9. CASE DeleteClosed
  <2>1. /\ hot' = hot \ Before(hot, closing) /\ segments' = segments
        /\ step = "copying" /\ step' = "retiring"
        /\ UNCHANGED <<failures, restarts>>
    BY <1>9 DEF DeleteClosed, Closed
  <2>2. ASSUME NEW h \in Hours, h < closing PROVE segments'[h] \cap hot' = {}
    BY <2>1, <2>2, <1>i DEF Before, Filed
  <2>3. ASSUME NEW h \in Hours, ~(h < closing)
        PROVE segments'[h] \cap hot' = segments[h] \cap hot
    BY <2>1, <2>3, <1>i DEF Before, Filed
  <2>4. RetryCoversSegment'
    <3> SUFFICES ASSUME NEW h \in Hours
                 PROVE segments'[h] \subseteq hot' \/ segments'[h] \cap hot' = {}
      OBVIOUS
    <3>1. CASE h < closing
      BY <3>1, <2>2
    <3>2. CASE ~(h < closing)
      BY <3>2, <2>1, <2>3, <1>i
    <3>3. QED
      BY <3>1, <3>2
  <2>5. Disjoint'
    <3> SUFFICES ASSUME failures = 0, restarts = 0, NEW h \in Hours
                 PROVE segments'[h] \cap hot' = {}
      BY <2>1
    <3>1. CASE h < closing
      BY <3>1, <2>2
    <3>2. CASE ~(h < closing)
      <4>1. h \notin copied
        BY <3>2, <2>1, <1>i
      <4>2. QED
        BY <4>1, <3>2, <2>3, <1>i
    <3>3. QED
      BY <3>1, <3>2
  <2>6. QED
    BY <2>1, <2>4, <2>5
<1>10. CASE EnforceRetention
  <2>1. /\ \A k \in Hours : segments'[k] \subseteq segments[k]
        /\ step' = "idle" /\ step = "retiring"
        /\ UNCHANGED <<hot, failures, restarts>>
    BY <1>10 DEF EnforceRetention
  <2>2. QED
    BY <2>1, <1>i
<1>11. CASE Restart
  BY <1>11, <1>i, <1>t DEF Restart
<1>12. CASE UNCHANGED vars
  BY <1>12, <1>i DEF vars, flushVars, store
<1>13. QED
  BY <1>1, <1>2, <1>3, <1>4, <1>5, <1>6, <1>7, <1>8, <1>9, <1>10, <1>11,
     <1>12 DEF Next, Flush

\* IInv is an invariant of the event store.
THEOREM Invariance == Spec => []IInv
<1>1. IInv /\ [Next]_vars => IInv'
  BY TypeStep, HandOverStep, ExportStep DEF IInv
<1>2. QED
  BY InitIInv, <1>1, PTL DEF Spec

\* Types are kept, and the buffer never outgrows BUFFER_MAX_EVENTS.
THEOREM TypeCorrect == Spec => []TypeOK
<1>1. IInv => TypeOK
  BY DEF IInv
<1>2. QED
  BY Invariance, <1>1, PTL

\* No row is inserted twice.
THEOREM NoRowTwice == Spec => []NotTwice
<1>1. IInv => NotTwice
  BY DEF IInv
<1>2. QED
  BY Invariance, <1>1, PTL

\* Repeating an export that failed or was interrupted loses no exported row.
THEOREM RetrySafe == Spec => []RetryCoversSegment
<1>1. IInv => RetryCoversSegment
  BY DEF IInv
<1>2. QED
  BY Invariance, <1>1, PTL

\* Without failures and restarts, queries between flushes count a row once.
THEOREM Counted == Spec => []CountedOnce
<1>1. IInv => CountedOnce
  BY DEF IInv, Disjoint, CountedOnce
<1>2. QED
  BY Invariance, <1>1, PTL

\* A row is in one place for the worker, and counted once by a query at rest:
\* what the run events checks of every state, for all values of the constants.
THEOREM StoredOnce == Spec => []RowsOnce
<1>1. QED
  BY TypeCorrect, NoRowTwice, Counted, PTL DEF RowsOnce

\* The DELETE removes only rows a segment holds.
THEOREM DeleteSafe == Spec => DeletedOnlyIfCopied
<1> DEFINE Safe == \A r \in hot \ hot' : r \in segments'[r[2]]
<1>1. IInv /\ [Next]_vars => [Safe]_vars
  <2> SUFFICES ASSUME IInv, [Next]_vars PROVE Safe
    OBVIOUS
  <2>1. CASE DeleteClosed
    <3>1. /\ hot' = hot \ Before(hot, closing) /\ segments' = segments
          /\ step = "copying" /\ ToCopy = {}
      BY <2>1 DEF DeleteClosed, Closed
    <3> SUFFICES ASSUME NEW r \in hot \ hot' PROVE r \in segments'[r[2]]
      OBVIOUS
    <3>2. r \in hot /\ r[2] < closing /\ r[2] \in Hours
      BY <3>1 DEF Before, IInv, TypeOK, Rows
    <3>3. r \in OfHour(hot, r[2])
      BY <3>2 DEF OfHour
    <3>4. r[2] \in copied
      BY <3>1, <3>2, <3>3 DEF ToCopy
    <3>5. QED
      BY <3>1, <3>3, <3>4 DEF IInv, Exporting
  <2>2. CASE ~DeleteClosed
    <3>1. hot \subseteq hot'
      BY <2>2 DEF Next, Flush, Record, Full, HourPasses, Swap, Takes, Insert, InsertFails,
         CheckHour, ExportDue, CopyHour, SegmentOf, CopyFails, EnforceRetention, Restart, vars, store
    <3>2. QED
      BY <3>1
  <2>3. QED
    BY <2>1, <2>2
<1>2. QED
  BY Invariance, <1>1, PTL DEF Spec, DeletedOnlyIfCopied


\* The rows of the recent segments from an hour on: the retention keeps a
\* segment while these are within the quota, so it keeps every later one too.
RowsFrom(h) == UNION {segments[k] : k \in {j \in Recent : j >= h}}

\* What the retention keeps is an end of the recent hours.
LEMMA LaterAreKept ==
    ASSUME TypeOK
    PROVE  /\ \A h \in Hours : /\ IsFiniteSet(RowsFrom(h))
                               /\ h \in Retained <=> h \in Recent /\ Cardinality(RowsFrom(h)) <= Quota
           /\ \A h, k \in Hours : h \in Retained /\ h <= k => k \in Retained
<1>1. Quota \in Nat /\ hour \in Nat /\ Horizon \in Nat /\ \A h \in Hours : h \in Nat
  BY BoundsAssumption DEF TypeOK, Hours
<1>2. \A h \in Hours : RowsFrom(h) \in SUBSET Rows
  BY DEF RowsFrom, Recent, TypeOK
<1>3. \A h \in Hours : IsFiniteSet(RowsFrom(h)) /\ Cardinality(RowsFrom(h)) \in Nat
  BY <1>2, RowsFinite, FS_Subset, FS_CardinalityType
<1>4. \A h \in Hours : h \in Retained <=> h \in Recent /\ Cardinality(RowsFrom(h)) <= Quota
  BY DEF Retained, RowsFrom, Recent
<1>5. ASSUME NEW h \in Hours, NEW k \in Hours, h \in Retained, h <= k
      PROVE  k \in Retained
  <2>1. k \in Recent
    BY <1>1, <1>4, <1>5 DEF Recent
  <2>2. RowsFrom(k) \in SUBSET RowsFrom(h)
    <3>1. \A j \in Hours : j >= k => j >= h
      BY <1>1, <1>5
    <3>2. QED
      BY <3>1 DEF RowsFrom, Recent
  <2>3. Cardinality(RowsFrom(k)) <= Cardinality(RowsFrom(h))
    BY <1>3, <2>2, FS_Subset
  <2>4. QED
    BY <1>1, <1>3, <1>4, <1>5, <2>1, <2>3
<1>6. QED
  BY <1>3, <1>4, <1>5

\* The retention removes oldest first and leaves the directory within quota.
THEOREM RetentionInOrder == Spec => OldestGoFirst
<1> DEFINE Ordered ==
        /\ Cardinality(UNION {segments'[h] : h \in Hours}) <= Quota
        /\ \A h, k \in Hours :
             segments[h] # {} /\ segments'[h] = {} /\ segments'[k] # {} => h < k
           Retires == step = "retiring" /\ step' = "idle" /\ restarts' = restarts => Ordered
<1>1. TypeOK /\ [Next]_vars => [Retires]_vars
  <2> SUFFICES ASSUME TypeOK, [Next]_vars, step = "retiring", step' = "idle", restarts' = restarts
               PROVE  Ordered
    OBVIOUS
  <2>1. EnforceRetention
    BY BoundsAssumption
       DEF Next, Flush, Record, Full, HourPasses, Swap, Takes, Insert, InsertFails, CheckHour,
           ExportDue, CopyHour, SegmentOf, CopyFails, DeleteClosed, Restart, vars, flushVars, TypeOK
  <2>2. segments' = [h \in Hours |-> IF h \in Retained THEN segments[h] ELSE {}]
    BY <2>1 DEF EnforceRetention
  <2>3. \A h \in Hours : h \in Nat
    BY BoundsAssumption DEF Hours
  <2>4. ASSUME NEW h \in Hours, NEW k \in Hours,
               segments[h] # {}, segments'[h] = {}, segments'[k] # {}
        PROVE  h < k
    <3>1. h \notin Retained /\ k \in Retained
      BY <2>2, <2>4
    <3>2. ~(k <= h)
      BY <3>1, LaterAreKept
    <3>3. QED
      BY <2>3, <3>2
  <2>5. Cardinality(UNION {segments'[h] : h \in Hours}) <= Quota
    <3>1. CASE Retained = {}
      <4>1. UNION {segments'[h] : h \in Hours} = {}
        BY <2>2, <3>1
      <4>2. QED
        BY <4>1, FS_EmptySet, BoundsAssumption
    <3>2. CASE Retained # {}
      <4>1. Retained \in SUBSET Nat
        BY <2>3 DEF Retained, Recent
      <4>2. PICK h \in Retained : \A k \in Retained : h <= k
        BY <3>2, <4>1, MinOf
      <4>3. h \in Hours /\ \A k \in Retained : k \in Recent
        BY DEF Retained, Recent
      <4>4. UNION {segments'[k] : k \in Hours} \in SUBSET RowsFrom(h)
        <5>1. \A k \in Hours : segments'[k] # {} => k \in Retained /\ segments'[k] = segments[k]
          BY <2>2
        <5>2. \A k \in Retained : k >= h
          BY <2>3, <4>1, <4>2
        <5>3. QED
          BY <4>3, <5>1, <5>2 DEF RowsFrom
      <4>5. IsFiniteSet(RowsFrom(h)) /\ Cardinality(RowsFrom(h)) <= Quota
        BY <4>2, <4>3, LaterAreKept
      <4> DEFINE kept == UNION {segments'[k] : k \in Hours}
      <4>6. Cardinality(kept) <= Cardinality(RowsFrom(h)) /\ IsFiniteSet(kept)
        <5> HIDE DEF kept
        <5>1. kept \in SUBSET RowsFrom(h)
          BY <4>4 DEF kept
        <5>2. QED
          BY <4>5, <5>1, FS_Subset
      <4>7. Cardinality(kept) \in Nat /\ Cardinality(RowsFrom(h)) \in Nat
        BY <4>5, <4>6, FS_CardinalityType
      <4> HIDE DEF kept
      <4>8. Cardinality(kept) <= Quota
        BY <4>5, <4>6, <4>7, BoundsAssumption
      <4>9. QED
        BY <4>8 DEF kept
    <3>3. QED
      BY <3>1, <3>2
  <2>6. QED
    BY <2>4, <2>5
<1>2. QED
  BY TypeCorrect, <1>1, PTL DEF Spec, OldestGoFirst

=============================================================================
