---------------------------- MODULE Verification ----------------------------
(***************************************************************************)
(* How an applied recommendation gets its verdict (recommend/verify.py)    *)
(* from what the ledger and the recordings hold (ingest/engine.py,         *)
(* capacity/ledger.py).  Time is in UTC days.  A ledger row sums the       *)
(* prices of one commander's chains of one day; the build that prices them *)
(* may be replaced by one with another cost model in the middle of a day,  *)
(* and the row then says that it is mixed.                                 *)
(*                                                                         *)
(* One recommendation of one instance; the receipts are their verdict and  *)
(* the day of the check.  A behaviour has the traffic its detector reads.  *)
(***************************************************************************)
EXTENDS Integers, FiniteSets, FiniteSetsExt

CONSTANTS
    None,
    Commanders,
    BASELINE_DAYS, MIN_SPEND_DAYS, HORIZON,
    Limit, Before,            \* the finding's numbers: the limit or target, and its peak
    MaxDay, MaxModel, MaxUs, MaxPeak    \* bounds of the model

\* None is no row, no verdict and no day.
VerificationAssumption ==
    /\ {MaxDay, MaxModel, MaxUs, MaxPeak} \subseteq Nat /\ 1 <= MaxModel
    /\ {BASELINE_DAYS, MIN_SPEND_DAYS, HORIZON, Limit, Before} \subseteq Nat
    /\ None \notin [us : 1..MaxUs, version : 0..MaxModel]
    /\ None \notin 0..MaxDay
    /\ None \notin {"pending", "improved", "regressed", "no_material_change"}

MIXED_PRICING_VERSION == 0
Days == 0..MaxDay

VARIABLES
    today,
    model,    \* PRICING_MODEL_VERSION of the running build
    row,      \* ledger_daily, by day and commander: [us, version], or None
    peak,     \* the worst burst of commands of each day
    rec,      \* the recommendation and its receipts
    used      \* ghost: the models whose prices each row has

vars == <<today, model, row, peak, rec, used>>

SpendDetectors == {"redundancy", "groupcast_economics"}
BurstDetectors == {"rebalancing", "pacing"}

Init ==
    /\ today = 0 /\ model = 1
    /\ row = [d \in Days |-> [c \in Commanders |-> None]]
    /\ used = [d \in Days |-> [c \in Commanders |-> {}]]
    /\ peak = [d \in Days |-> 0]
    /\ \E detector \in SpendDetectors \cup BurstDetectors, subject \in Commanders :
         rec = [detector |-> detector, subject |-> subject, state |-> "open",
                boundary |-> None, receipts |-> None, checked |-> None, finalized |-> FALSE]

-----------------------------------------------------------------------------
(* The ledger *)

\* _flush_ledger's upsert: a row priced by two models belongs to neither.
V_LastWriter(old, us) == [us |-> old.us + us, version |-> model]
Merged(old, us) ==
    [us |-> old.us + us,
     version |-> IF old.version = model THEN model ELSE MIXED_PRICING_VERSION]

\* A pass prices a commander's chains of today, or late ones of yesterday: a
\* groupcast the same under every model, a unicast by the model's hops.
Flush(c) ==
    /\ rec.detector \in SpendDetectors
    /\ \E d \in Days \cap {today - 1, today}, us \in {1, model} :
         /\ (IF row[d][c] = None THEN 0 ELSE row[d][c].us) + us <= MaxUs
         /\ row' = [row EXCEPT ![d][c] =
               IF @ = None THEN [us |-> us, version |-> model] ELSE Merged(@, us)]
         /\ used' = [used EXCEPT ![d][c] = @ \cup {model}]
    /\ UNCHANGED <<today, model, peak, rec>>

\* The process comes back as a build with the next cost model.
Upgrade ==
    /\ model < MaxModel /\ model' = model + 1
    /\ UNCHANGED <<today, row, peak, rec, used>>

Burst(p) ==
    /\ rec.detector \in BurstDetectors
    /\ p > peak[today] /\ peak' = [peak EXCEPT ![today] = p]
    /\ UNCHANGED <<today, model, row, rec, used>>

NextDay ==
    /\ today < MaxDay /\ today' = today + 1
    /\ UNCHANGED <<model, row, peak, rec, used>>

-----------------------------------------------------------------------------
(* The verdict *)

\* _spend_metric: the commanders whose rows the detector sums.
Summed == IF rec.detector = "redundancy" THEN {rec.subject} ELSE Commanders

RowsOf(d) == {c \in Summed : row[d][c] # None}
DayUs(d) == MapThenSumSet(LAMBDA c : row[d][c].us, RowsOf(d))

\* _day_pricing_version
DayVersion(d) ==
    LET versions == {row[d][c].version : c \in RowsOf(d)}
    IN IF Cardinality(versions) = 1 THEN CHOOSE v \in versions : TRUE
       ELSE MIXED_PRICING_VERSION

\* _completed_days: neither the day of the change nor today, and no day without rows.
BeforeDays == {d \in Days : /\ rec.boundary - BASELINE_DAYS <= d /\ d < rec.boundary
                            /\ RowsOf(d) # {}}
AfterDays == {d \in Days : rec.boundary < d /\ d < today /\ RowsOf(d) # {}}

\* _verdict_from_ratio, with the means: at most 0.8 of before, at least 1.25 of it.
SpendVerdict ==
    LET before == MapThenSumSet(DayUs, BeforeDays) * Cardinality(AfterDays)
        after == MapThenSumSet(DayUs, AfterDays) * Cardinality(BeforeDays)
    IN CASE 5 * after <= 4 * before -> "improved"
         [] 4 * after >= 5 * before -> "regressed"
         [] OTHER -> "no_material_change"

\* _burst_after_peak reaches a day back; _pacing_after_peak, to the change.
PeakDays ==
    IF rec.detector = "pacing" THEN {rec.boundary..today}
    ELSE {{today}, {today - 1, today} \cap Days}

\* The bands of _verify_burst: for a pacing, up to 1.1 times its target.
BurstVerdict(after) ==
    CASE \/ rec.detector = "rebalancing" /\ after < Limit
         \/ rec.detector = "pacing" /\ 10 * after <= 11 * Limit -> "improved"
      [] 100 * after >= 95 * Before -> "regressed"
      [] OTHER -> "no_material_change"

\* The horizon is measured from the moment of the change, not from its day.
PastHorizon == {today - rec.boundary > HORIZON, today - rec.boundary >= HORIZON}

\* _apply_verdict
Give(verdict) ==
    \E past \in PastHorizon :
      rec' = [rec EXCEPT !.receipts = verdict, !.checked = today,
                !.state = CASE verdict = "improved" -> "verified"
                            [] verdict = "regressed" -> "regressed"
                            [] OTHER -> @,
                !.finalized = verdict = "no_material_change" /\ past]

Wait == rec' = [rec EXCEPT !.receipts = "pending", !.checked = today]

\* _verify_spend
SamePricing ==
    LET versions == {DayVersion(d) : d \in BeforeDays \cup AfterDays}
    IN Cardinality(versions) <= 1 /\ MIXED_PRICING_VERSION \notin versions

EnoughDays ==
    Cardinality(BeforeDays) >= MIN_SPEND_DAYS /\ Cardinality(AfterDays) >= MIN_SPEND_DAYS

VerifySpend == IF SamePricing /\ EnoughDays THEN Give(SpendVerdict) ELSE Wait

\* _verify_burst: a full day of recordings first.
VerifyBurst ==
    \/ today - rec.boundary <= 1 /\ Wait
    \/ /\ today - rec.boundary >= 1
       /\ \E days \in PeakDays : Give(BurstVerdict(Max({peak[d] : d \in days})))

\* run, for this row: those with a final verdict are left alone.
Verify ==
    /\ rec.state = "applied" /\ ~rec.finalized
    /\ IF rec.detector \in BurstDetectors THEN VerifyBurst ELSE VerifySpend
    /\ UNCHANGED <<today, model, row, peak, used>>

\* set_state or mark_applied_auto
Apply ==
    /\ rec.state = "open"
    /\ rec' = [rec EXCEPT !.state = "applied", !.boundary = today]
    /\ UNCHANGED <<today, model, row, peak, used>>

Next ==
    \/ \E c \in Commanders : Flush(c)
    \/ \E p \in 1..MaxPeak : Burst(p)
    \/ Upgrade \/ NextDay \/ Apply \/ Verify

Spec == Init /\ [][Next]_vars

-----------------------------------------------------------------------------

TypeOK ==
    /\ today \in Days /\ model \in 1..MaxModel
    /\ \A d \in Days, c \in Commanders :
         row[d][c] # None => row[d][c].us \in 1..MaxUs /\ row[d][c].version \in 0..MaxModel
    /\ rec.state \in {"open", "applied", "verified", "regressed"}

\* A verdict on spend compares days that one cost model priced
\* (verify.py:209-215): a row that two models wrote is in no comparison.
OneCurrency ==
    [][(rec.receipts \in {None, "pending"} /\ rec'.receipts \notin {None, "pending"}
          /\ rec.detector \in SpendDetectors)
         => Cardinality(UNION {used[d][c] : d \in BeforeDays \cup AfterDays, c \in Summed})
              <= 1]_vars

\* A pacing is verified only if no burst since the change was over its target
\* (verify.py:149-162), however long ago.
VerifiedByEveryBurst ==
    rec.detector = "pacing" /\ rec.state = "verified" =>
      \A d \in rec.boundary..rec.checked - 1 : 10 * peak[d] <= 11 * Limit

\* "no material change (stays applied with the receipts attached; the check
\* stops at a horizon)" (verify.py:16-17): it does not when the receipts say
\* pending, for want of days with rows or of one cost model.
CheckStops ==
    rec.checked # None /\ rec.checked - rec.boundary > HORIZON => rec.finalized
      \/ rec.state # "applied"

=============================================================================
