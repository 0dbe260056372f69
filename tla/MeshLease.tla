------------------------------ MODULE MeshLease ------------------------------
(***************************************************************************)
(* What the benchmark promises the owner of a mesh, without a word on how: *)
(* transmitting takes a lease, there is one lease, a lease costs one unit  *)
(* of the credit a user granted, and after each lease the mesh rests for a *)
(* whole cool-down.  CalibrationLifecycle implements it.                   *)
(***************************************************************************)
EXTENDS Integers

CONSTANTS Holders, MaxCredit, Rest

VARIABLES
    holders,  \* who holds the lease
    credit,   \* Holder -> leases the user still allows it
    quiet     \* time since the last lease ended, saturating at Rest

vars == <<holders, credit, quiet>>

Init ==
    /\ holders = {}
    /\ credit = [h \in Holders |-> 0]
    /\ quiet = Rest

\* The user grants h a fresh credit.
Authorize(h) ==
    /\ h \notin holders
    /\ \E n \in 1 .. MaxCredit : credit' = [credit EXCEPT ![h] = n]
    /\ UNCHANGED <<holders, quiet>>

\* h gives up some of its credit, or loses all of it.
Forfeit(h) ==
    /\ \E n \in 0 .. MaxCredit :
         n < credit[h] /\ credit' = [credit EXCEPT ![h] = n]
    /\ UNCHANGED <<holders, quiet>>

Acquire(h) ==
    /\ holders = {} /\ quiet = Rest /\ credit[h] > 0
    /\ holders' = {h}
    /\ credit' = [credit EXCEPT ![h] = @ - 1]
    /\ UNCHANGED quiet

\* The lease ends, possibly with what is left of the holder's credit.
Release(h) ==
    /\ h \in holders
    /\ holders' = holders \ {h}
    /\ quiet' = 0
    /\ \/ UNCHANGED credit
       \/ credit' = [credit EXCEPT ![h] = 0]

\* Time passes, and some of the credit lapses with it.
Tick ==
    /\ quiet' = IF quiet < Rest THEN quiet + 1 ELSE quiet
    /\ \E lapsed \in SUBSET Holders :
         credit' = [h \in Holders |-> IF h \in lapsed THEN 0 ELSE credit[h]]
    /\ UNCHANGED holders

\* A new process knows of no lease and of no credit.
Forget ==
    /\ holders' = {}
    /\ credit' = [h \in Holders |-> 0]
    /\ quiet' = Rest

Next ==
    \/ \E h \in Holders : Authorize(h) \/ Forfeit(h) \/ Acquire(h) \/ Release(h)
    \/ Tick \/ Forget

Spec == Init /\ [][Next]_vars

=============================================================================
