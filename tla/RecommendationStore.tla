------------------------- MODULE RecommendationStore -------------------------
(***************************************************************************)
(* One recommendation (recommend/store.py): the detector pass on a worker  *)
(* thread, which run_lock makes one at a time (runner.py), the             *)
(* verification that rides it (verify.py), and the user's changes of state *)
(* on an API thread.  The row is in the database; a method's read and its  *)
(* write are two steps, each write a transaction of its own.               *)
(*                                                                         *)
(* The fingerprint is one number.  A boundary is the number of the         *)
(* application: 0 stands for the time the journal gives.  The texts, the   *)
(* evidence and what the measured windows contain are left out: a verdict  *)
(* is any of those there are (Verification says which, for which data).    *)
(***************************************************************************)
EXTENDS Integers

CONSTANTS
    Fingerprints,   \* the magnitudes a detector may report
    None,
    MaxApplications, MaxMoves, MaxCrashes  \* bounds of the model

StoreAssumption == Fingerprints \subseteq Nat /\ MaxApplications \in Nat

VARIABLES
    row,          \* the row of recommendations, or None
    emits,        \* what the detector would report now: a fingerprint or None
    journaled,    \* every staged move is in the change journal
    pass,         \* where the pass is, what it found and the row it read
    user,         \* the change of state under way, or None
    applications, \* ghost: how often the row was marked applied by the user
    dismissal,    \* ghost: the dismissal that stands, or None: the magnitude it was
                  \* of, and whether a pass that had read the row open was to write
    moves, crashes

world == <<emits, journaled, moves>>
vars == <<row, emits, journaled, pass, user, applications, dismissal, moves, crashes>>

-----------------------------------------------------------------------------

States == {"open", "dismissed", "applied", "verified", "regressed"}
Settable == {"open", "dismissed", "applied"}
AllowedTransitions ==
    {<<"open", "dismissed">>, <<"open", "applied">>, <<"dismissed", "open">>,
     <<"applied", "open">>, <<"regressed", "open">>,
     <<"regressed", "dismissed">>, <<"verified", "open">>}

NoReceipts == [of |-> None, finalized |-> FALSE]
Idle == [at |-> "idle", found |-> None, saw |-> None]

\* materially_changed for one number that has no sign: by half or more.
V_MaterialAny(old, new) == old # new
Material(old, new) ==
    old # new /\ (old = 0 \/ new = 0 \/ 2 * new >= 3 * old \/ 2 * old >= 3 * new)

Init ==
    /\ row = None /\ emits = None /\ journaled = FALSE
    /\ pass = Idle /\ user = None
    /\ applications = 0 /\ dismissal = None /\ moves = 0 /\ crashes = 0

-----------------------------------------------------------------------------
(* The detector pass *)

\* run: the detector returns; one that raises leaves its rows as they are.
\* sync reads the rows of the detector before its first statement opens the
\* transaction.
Detect ==
    /\ pass.at = "idle"
    /\ pass' = [at |-> "sync", found |-> emits, saw |-> row]
    /\ UNCHANGED <<row, world, user, applications, dismissal, crashes>>

Crashes(at, next) ==
    /\ pass.at = at /\ crashes < MaxCrashes
    /\ crashes' = crashes + 1
    /\ pass' = [pass EXCEPT !.at = next, !.saw = None]
    /\ UNCHANGED <<row, world, user, applications, dismissal>>

DetectorRaises == Crashes("idle", "moves")
PassRaises == Crashes("sync", "idle")
VerificationRaises == Crashes("judge", "idle")

Opened(fp) == [state |-> "open", fp |-> fp, boundary |-> None,
               receipts |-> NoReceipts]

\* What sync's statements make of the row, given the row it read.  An UPDATE
\* or DELETE names the id alone and finds the row as it is now.
Withdrawn(saw, found) == saw # None /\ saw.state = "open" /\ found = None
Synced(saw, found) ==
    IF Withdrawn(saw, found) THEN None
    ELSE IF found = None THEN row
    ELSE IF saw = None THEN Opened(found)
    ELSE IF row = None THEN None
    ELSE IF saw.state = "open" THEN [row EXCEPT !.fp = found]
    ELSE IF saw.state = "dismissed" /\ Material(saw.fp, found)
         THEN [row EXCEPT !.fp = found, !.state = "open"]
    ELSE row

Sync ==
    /\ pass.at = "sync"
    /\ row' = Synced(pass.saw, pass.found)
    /\ dismissal' = IF row' # None /\ row'.state = "open" THEN None ELSE dismissal
    /\ pass' = [pass EXCEPT !.at = "moves", !.saw = None]
    /\ UNCHANGED <<world, user, applications, crashes>>

\* _detect_applied_moves, of an open row whose moves are all journaled; the
\* statement asks again that it be open.
ReadOpen ==
    /\ pass.at = "moves"
    /\ pass' = [pass EXCEPT !.at =
         IF row # None /\ row.state = "open" /\ journaled THEN "mark" ELSE "applied"]
    /\ UNCHANGED <<row, world, user, applications, dismissal, crashes>>

MarkAppliedAuto ==
    /\ pass.at = "mark"
    /\ row' = IF row # None /\ row.state = "open"
              THEN [row EXCEPT !.state = "applied", !.boundary = 0] ELSE row
    /\ pass' = [pass EXCEPT !.at = "applied"]
    /\ UNCHANGED <<world, user, applications, dismissal, crashes>>

\* applied_rows; a finalized row is passed over.
ReadApplied ==
    /\ pass.at = "applied"
    /\ pass' = IF row # None /\ row.state = "applied" /\ ~row.receipts.finalized
               THEN [pass EXCEPT !.at = "judge", !.saw = row] ELSE Idle
    /\ UNCHANGED <<row, world, user, applications, dismissal, crashes>>

\* set_verdict asks that the row be applied, record_verification asks nothing.
Judge ==
    /\ pass.at = "judge"
    /\ \/ /\ row # None
          /\ \E final \in BOOLEAN :
               row' = [row EXCEPT !.receipts =
                         [of |-> pass.saw.boundary, finalized |-> final]]
       \/ /\ row # None /\ row.state = "applied"
          /\ \E verdict \in {"verified", "regressed"} :
               row' = [row EXCEPT !.state = verdict, !.receipts =
                         [of |-> pass.saw.boundary, finalized |-> FALSE]]
       \/ UNCHANGED row      \* unsupported, or no row to update
    /\ pass' = Idle
    /\ UNCHANGED <<world, user, applications, dismissal, crashes>>

-----------------------------------------------------------------------------
(* set_state, on an API thread *)

\* A pass has read the row open and has not written yet.
ReadItOpen == pass.at = "sync" /\ pass.saw # None /\ pass.saw.state = "open"

MayMove(from, to) == <<from, to>> \in AllowedTransitions

ReadState(to) ==
    /\ user = None /\ row # None /\ MayMove(row.state, to)
    /\ to = "applied" => applications < MaxApplications
    /\ user' = to
    /\ UNCHANGED <<row, world, pass, applications, dismissal, crashes>>

\* The receipts stay attached.
WriteState ==
    /\ user # None
    /\ user' = None
    /\ applications' = IF user = "applied" THEN applications + 1 ELSE applications
    /\ row' = IF row = None THEN None
              ELSE [row EXCEPT !.state = user, !.boundary = applications']
    /\ dismissal' = IF row = None THEN dismissal
                    ELSE IF user = "dismissed" THEN [of |-> row.fp, raced |-> ReadItOpen]
                    ELSE None
    /\ UNCHANGED <<world, pass, crashes>>

-----------------------------------------------------------------------------
(* What the detector reads *)

Change ==
    /\ moves < MaxMoves /\ moves' = moves + 1
    /\ \/ emits' \in (Fingerprints \cup {None}) \ {emits} /\ UNCHANGED journaled
       \/ journaled' = TRUE /\ UNCHANGED emits
    /\ UNCHANGED <<row, pass, user, applications, dismissal, crashes>>

Pass ==
    \/ Detect \/ Sync \/ ReadOpen \/ MarkAppliedAuto \/ ReadApplied \/ Judge

Next ==
    \/ Pass \/ DetectorRaises \/ PassRaises \/ VerificationRaises
    \/ (\E to \in Settable : ReadState(to)) \/ WriteState \/ Change

Spec == Init /\ [][Next]_vars

\* The flush loop starts a pass an hour after the last one.
FairSpec == Spec /\ WF_vars(Pass)

-----------------------------------------------------------------------------
(* What the recommendation store promises. *)

Boundaries == 0..MaxApplications
Rows == [state : States, fp : Fingerprints, boundary : Boundaries \cup {None},
         receipts : [of : Boundaries \cup {None}, finalized : BOOLEAN]]

\* A row is not taken for the absence of one.
RowAssumption == None \notin Rows

TypeOK ==
    /\ row \in Rows \cup {None}
    /\ emits \in Fingerprints \cup {None}
    /\ pass \in [at : {"idle", "sync", "moves", "mark", "applied", "judge"},
                 found : Fingerprints \cup {None}, saw : Rows \cup {None}]
    /\ user \in Settable \cup {None}
    /\ applications \in Boundaries
    /\ dismissal \in [of : Fingerprints, raced : BOOLEAN] \cup {None}

\* A step shows the user again what he had dismissed, be it that the row is
\* opened or that it was deleted and is made anew.
ShownAgain ==
    /\ dismissal # None
    /\ row = None \/ row.state = "dismissed"
    /\ row' # None /\ row'.state = "open"
Reopened == user = "open" /\ user' = None
HalfAgain(a, b) == a * 2 >= b * 3 \/ b * 2 >= a * 3

\* "Stays dismissed until its input fingerprint changes materially"
\* (store.py:13-16), over the lives of the row.  What the user dismissed is
\* shown again only when he opens it, or when a magnitude is reported that is
\* half as large again as the one he dismissed or less than two thirds of it;
\* but a dismissal that came between the read and the write of a pass that had
\* found the row open may be lost: that pass deletes the row, or gives it
\* another magnitude, by which it is then judged.
DismissalHolds ==
    [][ShownAgain =>
         \/ Reopened \/ HalfAgain(dismissal.of, row'.fp)
         \/ (dismissal.raced /\ (row = None \/ HalfAgain(row.fp, row'.fp)))]_vars

\* The promise without the exception, which the code does not keep.
DismissalDurable ==
    [][ShownAgain => Reopened \/ HalfAgain(dismissal.of, row'.fp)]_vars

\* A row nobody supports any more leaves the queue (store.py:10-12): an open
\* row whose detector reports nothing is deleted, moved or reported again.
WithdrawnLeaves ==
    (row # None /\ row.state = "open" /\ emits = None)
        ~> (row = None \/ row.state # "open" \/ emits # None)

\* "Each applied row gets before/after windows around its boundary and a
\* verdict" (verify.py:14-15): what ends the verification of an applied row is
\* about this application of it and not about an earlier one.
FinalOfThisApplication ==
    (row # None /\ row.state = "applied" /\ row.receipts.finalized)
        => row.receipts.of = row.boundary

=============================================================================
