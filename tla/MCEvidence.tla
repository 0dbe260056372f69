------------------------------ MODULE MCEvidence ------------------------------
(***************************************************************************)
(* What the collector gathers, side by side: one of the probe's and the    *)
(* wire's observations, the rollups, the latencies taken from the wire,    *)
(* the mesh graph, who sent a command and whether it changed anything, the *)
(* days that tell whether an applied recommendation worked, and the        *)
(* journal of what changed in the networks.  As in MCServices they share   *)
(* no variable, and `part` says which of them moves.                       *)
(***************************************************************************)
EXTENDS Integers

CONSTANTS
    None,
    MaxFailures, MaxRepeats,
    \* FrameFusion
    Senders, Sequences, Watermark, MatchWindow, AlignWindow, MaxPending, SendersCap, ExpiredRing,
    FusionTime, MaxSeen,
    \* RollupWindows
    Rollup, Keep, RollupTime, MaxEvents, MaxBack,
    \* WireTap
    Tags, PENDING_MAX, PENDING_TTL, MaxMessages, MaxConnections, TapTime,
    \* MeshGraph
    Nodes, Links, Registries, Coordinator, Name, Qualities, WEAK_LINK_LQI, MaxRows,
    \* CommandAttribution
    Ambiguous, Unresolved, Automations, Payloads, CORRELATION_TOLERANCE_SECONDS,
    CONTEXT_TTL_SECONDS, CAUSE_TTL_SECONDS, CHAIN_SECONDS, AttributionTime, MaxActs, MaxReconnects,
    \* Verification
    Spenders, BASELINE_DAYS, MIN_SPEND_DAYS, HORIZON, Limit, Before, MaxDay, MaxModel, MaxUs, MaxPeak,
    \* NoopVerdicts
    Lamps, Group, Commanded, Settings, MAX_TRACKED_DEVICES, MAX_TRACKED_KEYS, MaxCommands,
    MaxDisturbances,
    \* ChangeJournal
    Instances, Devices, Identities, MaxChanges, JournalTime, MaxSetbacks, MOVE_MATCH_SECONDS

VARIABLES
    part,
    clock, pending, outcomes, unmatched, matched, expired, histogram, drops, seen, dropped,
    uncounted,
    kind, wall, buckets, watermark, open, adding, pass, drawn, windows, happened, excused,
    lapses, back,
    instant, link, message, next, flow, samples, crossed, resent,
    rows, edges, degree, routesVia, tableDegree, registry, depths, queue,
    moment, acts, broker, events, contexts, recent, entities, causes, chains, late, reconnects,
    today, model, row, peak, rec, used,
    actual, inbox, roster, spoken, named, members, tracked, values, inflight, asked, unseen, sent,
    disturbed,
    hour, world, groupLists, channel, listed, grouped, removals, hand, loaded, unsaved, batch,
    journaled, book, baseline, changed, failures, restarts

Fusion == INSTANCE FrameFusion WITH
    Modulus <- Sequences, Window <- MatchWindow, MaxTime <- FusionTime

Rollups == INSTANCE RollupWindows WITH
    MaxTime <- RollupTime, clock <- wall, table <- windows, failures <- lapses

Tap == INSTANCE WireTap WITH MaxTime <- TapTime, now <- instant, repeats <- resent

Graph == INSTANCE MeshGraph
\* Two lamps of one name, a ring of links with a chord, a link of a node to
\* itself, and one from a node the map does not have.
MCNodes == {"c", "a", "b", "d", "e"}
MCName == [n \in MCNodes |-> IF n \in {"a", "b"} THEN "lamp" ELSE n]
MCLinks ==
    {[source |-> p[1], target |-> p[2], hop |-> p[3]] :
       p \in {<<"c", "a", "none">>, <<"a", "c", "a">>, <<"a", "b", "none">>, <<"b", "d", "a">>,
              <<"d", "c", "none">>, <<"e", "d", "none">>, <<"b", "b", "none">>, <<"x", "a", "x">>}}
MCRegistries == {None, "b", "x"}

Attribution == INSTANCE CommandAttribution WITH
    Commanders <- Automations, MaxTime <- AttributionTime, now <- moment, wire <- broker

Receipts == INSTANCE Verification WITH Commanders <- Spenders

Noops == INSTANCE NoopVerdicts WITH
    Devices <- Lamps, channel <- spoken, pending <- inflight, lost <- unseen
\* Two values of one colour key, and one of the other.
MCSettings ==
    {[key |-> "color_temp", value |-> 0], [key |-> "color_temp", value |-> 1],
     [key |-> "color", value |-> 0]}

Journal == INSTANCE ChangeJournal WITH
    now <- hour, groups <- groupLists, pending <- unsaved, table <- journaled, changes <- changed,
    MaxTime <- JournalTime
\* A device that is renamed, or comes back under another address.
MCIdentities ==
    {[name |-> "x", nwk |-> 0], [name |-> "y", nwk |-> 0], [name |-> "x", nwk |-> 1]}

ASSUME AttributionAssumption == Attribution!AttributionAssumption
ASSUME FusionAssumption == Fusion!FusionAssumption
ASSUME RollupAssumption == Rollups!RollupAssumption
ASSUME TapAssumption == Tap!TapAssumption
ASSUME GraphAssumption == Graph!GraphAssumption
ASSUME VerificationAssumption == Receipts!VerificationAssumption
ASSUME NoopAssumption == Noops!NoopAssumption
ASSUME JournalAssumption == Journal!JournalAssumption

fusion == <<clock, pending, outcomes, unmatched, matched, expired, histogram, drops, seen,
            dropped, uncounted>>
rollups == <<kind, wall, buckets, watermark, open, adding, pass, drawn, windows, happened,
             excused, lapses, back>>
tap == <<instant, link, message, next, flow, samples, crossed, resent>>
graph == <<rows, edges, degree, routesVia, tableDegree, registry, depths, queue>>
attribution == <<moment, acts, broker, events, contexts, recent, entities, causes, chains, late,
                 reconnects>>
receipts == <<today, model, row, peak, rec, used>>
noops == <<actual, inbox, roster, spoken, named, members, tracked, values, inflight, asked, unseen,
           sent, disturbed>>
journal == <<hour, world, groupLists, channel, listed, grouped, removals, hand, loaded, unsaved,
             batch, journaled, book, baseline, changed, failures, restarts>>
vars == <<part, fusion, rollups, tap, graph, attribution, receipts, noops, journal>>

\* A part that does not move has one of its initial states.
Init ==
    /\ part \in {"fusion", "rollups", "tap", "graph", "attribution", "receipts", "noops",
                "journal"}
    /\ Fusion!Init
    /\ Rollups!Init /\ (part # "rollups" => kind = "counters")
    /\ Tap!Init /\ Graph!Init /\ Attribution!Init
    /\ Receipts!Init
    /\ part # "receipts" =>
         /\ rec.detector = CHOOSE d \in Receipts!SpendDetectors : TRUE
         /\ rec.subject = CHOOSE s \in Spenders : TRUE
    /\ Noops!Init /\ (part # "noops" => spoken = << >>)
    /\ Journal!Init

FusionMoves ==
    /\ part = "fusion" /\ Fusion!Next
    /\ UNCHANGED <<part, rollups, tap, graph, attribution, receipts, noops, journal>>
RollupsMove ==
    /\ part = "rollups" /\ Rollups!Next
    /\ UNCHANGED <<part, fusion, tap, graph, attribution, receipts, noops, journal>>
TapMoves ==
    /\ part = "tap" /\ Tap!Next
    /\ UNCHANGED <<part, fusion, rollups, graph, attribution, receipts, noops, journal>>
GraphMoves ==
    /\ part = "graph" /\ Graph!Next
    /\ UNCHANGED <<part, fusion, rollups, tap, attribution, receipts, noops, journal>>
AttributionMoves ==
    /\ part = "attribution" /\ Attribution!Next
    /\ UNCHANGED <<part, fusion, rollups, tap, graph, receipts, noops, journal>>
ReceiptsMove ==
    /\ part = "receipts" /\ Receipts!Next
    /\ UNCHANGED <<part, fusion, rollups, tap, graph, attribution, noops, journal>>
JournalMoves ==
    /\ part = "journal" /\ Journal!Next
    /\ UNCHANGED <<part, fusion, rollups, tap, graph, attribution, receipts, noops>>
NoopsMove ==
    /\ part = "noops" /\ Noops!Next
    /\ UNCHANGED <<part, fusion, rollups, tap, graph, attribution, receipts, journal>>

Next ==
    \/ FusionMoves \/ RollupsMove \/ TapMoves \/ GraphMoves \/ AttributionMoves
    \/ ReceiptsMove \/ NoopsMove \/ JournalMoves

Spec == Init /\ [][Next]_vars

-----------------------------------------------------------------------------

\* Every observation of a frame is pending, matched, dropped or expired, and
\* none is matched twice (fusion.py).
ObservationsPaired ==
    part = "fusion" => Fusion!TypeOK /\ Fusion!EveryObservationPlaced /\ Fusion!PairedOnce

\* A stored rollup is its whole window's, but for a window whose transaction
\* failed, whose clock was set back, or that was drained before its last event
\* came (rates.py, latency.py).
RollupsWhole == part = "rollups" => Rollups!TypeOK /\ Rollups!RollupsWhole

\* A latency is that of one send and of its own confirmation, also where tags
\* come round, and the totals survive a change of the connection (tap.py).
TapTellsTruth ==
    /\ [](part = "tap" => Tap!TypeOK /\ Tap!LatencyOwn)
    /\ Tap!TotalsNeverFall

\* The graph is the rows' and a depth is a shortest way (topology.py).
GraphSound == part = "graph" => Graph!TypeOK /\ Graph!GraphOfRows /\ Graph!DepthsShortest

\* A command is named after one who sent it, and one whose event came in time
\* is not left nameless (hacontrol.py, chains.py).
CreditedToASender ==
    part = "attribution" =>
        /\ Attribution!TypeOK
        /\ Attribution!CreditedToASender /\ Attribution!NobodyNameless

\* A command called a no-op asked for what the device had or was about to
\* have, unless a report was lost or the device was used by hand (noop.py).
NoopIsTrue == part = "noops" => Noops!TypeOK /\ Noops!NoopIsTrue

\* A burst finding is verified by every burst since the change, and receipts
\* compare days of one pricing model (verify.py, engine.py:1628).
ReceiptsSound ==
    /\ [](part = "receipts" => Receipts!TypeOK /\ Receipts!VerifiedByEveryBurst)
    /\ Receipts!OneCurrency

\* The journal's rows, replayed, give the newest list; a move was a removal, and
\* a row is stored once (registry.py, engine.py).
JournalSound ==
    part = "journal" =>
        /\ Journal!TypeOK
        /\ Journal!JournalReplays /\ Journal!MovesWereRemovals /\ Journal!StoredOnce
=============================================================================
