----------------------------- MODULE CommandChains -----------------------------
(***************************************************************************)
(* From a command on the broker to its rows in the store: the chain        *)
(* tracker (attribution/chains.py) and the storage pass that drains it     *)
(* into the chains table and prices it into the daily ledger               *)
(* (engine.flush_rollups).  The event loop and the flush worker are two    *)
(* threads; a mutex makes each method of the tracker one step.             *)
(*                                                                         *)
(* A chain is the number of its command.  Time is a chain's age, counted   *)
(* up to the age at which every chain has expired.                         *)
(*                                                                         *)
(* Definitions named V_... change the definition that follows the way a    *)
(* slip in the code would; no action uses them.                            *)
(***************************************************************************)
EXTENDS Integers, Sequences, FiniteSetsExt

CONSTANTS
    Devices, Groups,  \* the targets
    Payloads,         \* fingerprints of /set payloads
    None,             \* no entry
    SetWindow, GetWindow,  \* CHAIN_WINDOWS
    Lateness,         \* FINALIZE_LATENESS
    RedundantWindow,  \* REDUNDANT_WINDOW
    ForgetAfter,      \* REDUNDANT_WINDOW * 4
    Doubts,           \* values of the loop lag that widens a gap
    Members,          \* group -> its devices
    MaxCommands,      \* bound of the model: chains opened
    MaxEchoes,        \* bound of the model: echoes counted per chain
    MaxFailures,      \* bound of the model: transactions that fail
    MaxRestarts       \* bound of the model: restarts of the collector

ASSUME WindowsAssumption ==
    /\ SetWindow \in Nat /\ GetWindow \in Nat /\ Lateness \in Nat \ {0}
    /\ RedundantWindow \in Nat /\ ForgetAfter \in Nat
    /\ RedundantWindow <= ForgetAfter
ASSUME MembersAssumption == Members \in [Groups -> SUBSET Devices]
ASSUME BoundsAssumption ==
    MaxCommands \in Nat /\ MaxEchoes \in Nat /\ MaxFailures \in Nat /\ MaxRestarts \in Nat
ASSUME NoneAssumption ==  \* no entry is not a row
    None \notin [echoes : 0 .. MaxEchoes, named : BOOLEAN, redundant : BOOLEAN]

VARIABLES
    chains,    \* every chain opened, by number
    open,      \* _open: target -> chains, oldest first
    claims,    \* _claims: device -> chains of groups it is a member of
    recent,    \* _recent_payloads: target -> [payload, age] or None
    settled,   \* _finalized
    pass,      \* where the storage pass is
    batch,     \* its local `finalized`
    rows,      \* the chains table: chain -> what was stored, or None
    priced,    \* the ledger: chain -> what was priced, or None
    lost,      \* ghost: chains no longer in memory and not to be stored
    failures, restarts  \* so far

trackerVars == <<chains, open, claims, recent, settled>>
passVars == <<pass, batch>>
storeVars == <<rows, priced>>
vars == <<trackerVars, passVars, storeVars, lost, failures, restarts>>

Targets == Devices \cup Groups
Verbs == {"set", "get"}
Ids == 1 .. MaxCommands
Opened == DOMAIN chains

Window(verb) == IF verb = "set" THEN SetWindow ELSE GetWindow
LongestWindow == Max({SetWindow, GetWindow})

\* window() and expires_at()
InWindow(c) == chains[c].age <= Window(chains[c].verb)
Expired(c) == chains[c].age >= Window(chains[c].verb) + Lateness

Init ==
    /\ chains = << >>
    /\ open = [t \in Targets |-> << >>]
    /\ claims = [d \in Devices |-> << >>]
    /\ recent = [t \in Targets |-> None]
    /\ settled = {}
    /\ pass = "idle" /\ batch = {}
    /\ rows = [c \in Ids |-> None] /\ priced = [c \in Ids |-> None]
    /\ lost = {}
    /\ failures = 0 /\ restarts = 0

-----------------------------------------------------------------------------
(* The tracker *)

\* _expire pops a queue's head while it is expired: a chain behind one with
\* a longer window waits for it.
Unexpired(queue) == {i \in DOMAIN queue : ~Expired(queue[i])}
V_FirstKeepsOne(queue) ==
    IF Unexpired(queue) = {} THEN Max({Len(queue), 1}) ELSE Min(Unexpired(queue))
First(queue) == IF Unexpired(queue) = {} THEN Len(queue) + 1
                ELSE Min(Unexpired(queue))
V_KeptWhole(queue) == queue
Kept(queue) == SubSeq(queue, First(queue), Len(queue))
Popped(queue) == {queue[i] : i \in 1 .. First(queue) - 1}
PoppedNow == UNION {Popped(open[t]) : t \in Targets}

KeptClaims == [d \in Devices |-> Kept(claims[d])]
Remembered(t) == IF recent[t] # None /\ recent[t].age > ForgetAfter THEN None
                 ELSE recent[t]

Finalize(ids) ==
    [c \in Opened |-> [chains[c] EXCEPT !.finalized = @ \/ c \in ids]]

ExpireQueues ==
    /\ open' = [t \in Targets |-> Kept(open[t])]
    /\ claims' = KeptClaims
    /\ recent' = [t \in Targets |-> Remembered(t)]

\* A set that repeats the target's last payload within the window, even if
\* the gap was longer by the loop's lag, is redundant.
Repeats(t, payload, doubt) ==
    /\ recent[t] # None
    /\ recent[t].payload = payload
    /\ recent[t].age + doubt <= RedundantWindow

Redundant(t, verb, payload, doubt) ==
    verb = "set" /\ Repeats(t, payload, doubt)

\* on_command; the client may already be known.
Command(t, verb, payload, named, doubt) ==
    LET id == Len(chains) + 1
        chain == [target |-> t, verb |-> verb, payload |-> payload, age |-> 0,
                  named |-> named, echoes |-> 0, finalized |-> FALSE,
                  redundant |-> Redundant(t, verb, payload, doubt)]
    IN  /\ id <= MaxCommands
        /\ chains' = Append(Finalize(PoppedNow), chain)
        /\ open' = [u \in Targets |->
                      IF u = t THEN Append(Kept(open[u]), id) ELSE Kept(open[u])]
        /\ claims' = IF t \in Groups
                     THEN [d \in Devices |-> IF d \in Members[t]
                                             THEN Append(Kept(claims[d]), id)
                                             ELSE Kept(claims[d])]
                     ELSE KeptClaims
        /\ recent' = [u \in Targets |->
                        IF u = t /\ verb = "set"
                        THEN [payload |-> payload, age |-> 0] ELSE Remembered(u)]
        /\ settled' = settled \cup PoppedNow
        /\ UNCHANGED <<passVars, storeVars, lost, failures, restarts>>

\* The chains on_state offers an echo of this target, once _expire has run:
\* its own commands first, then those of its groups, newest first.
Echoable(queue) == {i \in DOMAIN queue :
                      /\ ~chains[queue[i]].finalized
                      /\ queue[i] \notin PoppedNow
                      /\ InWindow(queue[i])}
Newest(queue) == queue[Max(Echoable(queue))]
ClaimsOf(t) == IF t \in Devices THEN Kept(claims[t]) ELSE << >>
Provoked(t) == Echoable(Kept(open[t])) # {} \/ Echoable(ClaimsOf(t)) # {}
Claimant(t) == IF Echoable(Kept(open[t])) # {} THEN Newest(Kept(open[t]))
               ELSE Newest(ClaimsOf(t))

\* A state report that an open chain claims.
Echo(t) ==
    /\ Provoked(t)
    /\ ExpireQueues
    /\ settled' = settled \cup PoppedNow
    /\ chains' = [Finalize(PoppedNow) EXCEPT ![Claimant(t)].echoes =
                                          Min({@ + 1, MaxEchoes})]
    /\ UNCHANGED <<passVars, storeVars, lost, failures, restarts>>

\* A report no chain claims.
OwnReport(t) ==
    /\ ~Provoked(t)
    /\ ExpireQueues
    /\ chains' = Finalize(PoppedNow)
    /\ settled' = settled \cup PoppedNow
    /\ UNCHANGED <<passVars, storeVars, lost, failures, restarts>>

\* The chains a client name can still go to.
Unnamed(t) == {i \in DOMAIN open[t] : ~chains[open[t][i]].named}
OfPayload(t, payload) ==
    {i \in Unnamed(t) : chains[open[t][i]].payload = payload}
Sets(t) == {i \in Unnamed(t) : chains[open[t][i]].verb = "set"}

\* attribute_client by fingerprint names the oldest match, without one the
\* newest; attribute_entity_call the newest set that fits; attribute_cause
\* every chain its message caused, on any target.
Name(ids) ==
    /\ chains' = [c \in Opened |-> [chains[c] EXCEPT !.named = @ \/ c \in ids]]
    /\ UNCHANGED <<open, claims, recent, settled, passVars, storeVars, lost,
                   failures, restarts>>
NameByPayload(t, payload) ==
    OfPayload(t, payload) # {} /\ Name({open[t][Min(OfPayload(t, payload))]})
NameNewest(t) == Unnamed(t) # {} /\ Name({open[t][Max(Unnamed(t))]})
NameEntityCall(t) == \E i \in Sets(t) : Name({open[t][i]})
NameCause ==
    \E ids \in SUBSET UNION {{open[t][i] : i \in Unnamed(t)} : t \in Targets} :
      ids # {} /\ Name(ids)

-----------------------------------------------------------------------------
(* The storage pass: flush_rollups, _flush_ledger *)

V_TakesCopy == batch' = settled \cup PoppedNow /\ settled' = batch'
Takes == batch' = settled \cup PoppedNow /\ settled' = {}

\* drain_finalized
Drain ==
    /\ pass = "idle"
    /\ ExpireQueues
    /\ chains' = Finalize(PoppedNow)
    /\ Takes
    /\ pass' = IF batch' = {} THEN "ledger" ELSE "rows"
    /\ UNCHANGED <<storeVars, lost, failures, restarts>>

\* What is written of a chain.
Row(c) == [echoes |-> chains[c].echoes, named |-> chains[c].named,
           redundant |-> chains[c].redundant]

StoreRows ==
    /\ pass = "rows"
    /\ rows' = [c \in Ids |-> IF c \in batch THEN Row(c) ELSE rows[c]]
    /\ pass' = "ledger"
    /\ UNCHANGED <<trackerVars, batch, priced, lost, failures, restarts>>

PassOver == pass' = "idle" /\ batch' = {}

Price ==
    /\ pass = "ledger"
    /\ priced' = [c \in Ids |-> IF c \in batch THEN Row(c) ELSE priced[c]]
    /\ PassOver
    /\ UNCHANGED <<trackerVars, rows, lost, failures, restarts>>

V_GoesOnAfterFailure ==
    IF pass = "rows" THEN pass' = "ledger" /\ UNCHANGED batch ELSE PassOver
EndsByFailure == PassOver

\* A transaction fails: the pass is over, and what it had drained is gone.
TransactionFails ==
    /\ pass # "idle"
    /\ failures < MaxFailures /\ failures' = failures + 1
    /\ EndsByFailure
    /\ lost' = IF pass = "rows" THEN lost \cup batch ELSE lost
    /\ UNCHANGED <<trackerVars, storeVars, restarts>>

-----------------------------------------------------------------------------

Older(age, bound) == Min({age + 1, bound})
Tick ==
    /\ chains' = [c \in Opened |->
         [chains[c] EXCEPT !.age = Older(@, LongestWindow + Lateness)]]
    /\ recent' = [t \in Targets |->
         IF recent[t] = None THEN None
         ELSE [recent[t] EXCEPT !.age = Older(@, ForgetAfter + 1)]]
    /\ UNCHANGED <<open, claims, settled, passVars, storeVars, lost, failures,
                   restarts>>

\* The collector restarts: only the database is left.
Restart ==
    /\ restarts < MaxRestarts /\ restarts' = restarts + 1
    /\ lost' = Opened \ {c \in Opened : rows[c] # None}
    /\ open' = [t \in Targets |-> << >>]
    /\ claims' = [d \in Devices |-> << >>]
    /\ recent' = [t \in Targets |-> None]
    /\ settled' = {}
    /\ PassOver
    /\ UNCHANGED <<chains, storeVars, failures>>

Worker == Drain \/ StoreRows \/ Price \/ TransactionFails

Next ==
    \/ \E t \in Targets, payload \in Payloads, named \in BOOLEAN,
          doubt \in Doubts : Command(t, "set", payload, named, doubt)
    \/ \E t \in Targets, named \in BOOLEAN : Command(t, "get", None, named, 0)
    \/ \E t \in Targets : Echo(t) \/ OwnReport(t)
    \/ \E t \in Targets, payload \in Payloads : NameByPayload(t, payload)
    \/ \E t \in Targets : NameNewest(t) \/ NameEntityCall(t)
    \/ NameCause
    \/ Worker
    \/ Tick
    \/ Restart

Spec == Init /\ [][Next]_vars

\* The flush loop makes a pass every ten seconds, and time passes.
FairSpec == Spec /\ WF_vars(Worker) /\ WF_vars(Tick)

-----------------------------------------------------------------------------
(* What chain tracking and its storage pass owe the reader of the chains
   table and of the ledger. *)

Stored == {c \in Opened : rows[c] # None}
Queued == {c \in Opened : \E t \in Targets : \E i \in DOMAIN open[t] : open[t][i] = c}
InHand == IF pass = "rows" THEN batch ELSE {}

\* Every variable has its type.
TypeOK ==
    /\ chains \in Seq([target : Targets, verb : Verbs,
                       payload : Payloads \cup {None},
                       age : 0 .. LongestWindow + Lateness, named : BOOLEAN,
                       echoes : 0 .. MaxEchoes, finalized : BOOLEAN,
                       redundant : BOOLEAN])
    /\ Opened \subseteq Ids
    /\ open \in [Targets -> Seq(Opened)] /\ claims \in [Devices -> Seq(Opened)]
    /\ \A t \in Targets :
         recent[t] # None => recent[t] \in [payload : Payloads, age : 0 .. ForgetAfter + 1]
    /\ settled \subseteq Opened /\ batch \subseteq Opened /\ lost \subseteq Opened
    /\ pass \in {"idle", "rows", "ledger"}
    /\ batch # {} => pass # "idle"
    /\ \A c \in Ids \ Opened : rows[c] = None /\ priced[c] = None
    /\ failures \in 0 .. MaxFailures /\ restarts \in 0 .. MaxRestarts

\* What the worker has drained, stored or priced does not change afterwards:
\* no echo and no name reaches a chain that has left the tracker, although a
\* group's chain may stay in its members' claim queues behind one with a
\* longer window.
Left == settled \cup batch \cup Stored
SettledIsFinal == [][\A c \in Left : Row(c)' = Row(c)]_vars

\* No chain stands twice in the queues, whatever their targets.
OnePosition ==
    \A t, u \in Targets : \A i \in DOMAIN open[t], j \in DOMAIN open[u] :
         open[t][i] = open[u][j] => <<t, i>> = <<u, j>>

\* At any moment a chain is in one place: one queue, the finalized list, the
\* worker's hands, the chains table, or lost to a failure or a restart.
EveryChainPlaced ==
    /\ Opened = Queued \cup settled \cup InHand \cup Stored \cup lost
    /\ Cardinality(Opened) = Cardinality(Queued) + Cardinality(settled)
         + Cardinality(InHand) + Cardinality(Stored) + Cardinality(lost)
    /\ OnePosition

\* A chain is stored only after its echo window and the lateness are over:
\* an echo within the window is never missed by the row.
StoredAfterItsWindow ==
    \A c \in Stored \cup InHand : chains[c].age >= Window(chains[c].verb) + Lateness

\* The ledger charges a commander only for commands the chains table shows,
\* and with the echoes and the client it shows, in spite of the two
\* transactions they are written in.
LedgerBacked == \A c \in Opened : priced[c] # None => priced[c] = rows[c]

\* Each chain is in its one place, at its time, and at one price.
ChainsSound == TypeOK /\ EveryChainPlaced /\ StoredAfterItsWindow /\ LedgerBacked

\* Every command ends in the chains table, or is lost to a failure or a
\* restart; it does not wait for traffic.
CommandsSettle ==
    \A c \in Ids : c \in Opened ~> c \in Stored \cup lost

=============================================================================
