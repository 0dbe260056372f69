----------------------------- MODULE MCServices -----------------------------
(***************************************************************************)
(* Seven services of the collector, side by side: the alert evaluator, the *)
(* recommendation store, Home Assistant's discovery topics, the extension  *)
(* tile, topology pulls, the loop's activity log and the broker's task.    *)
(* They share no variable, so each behaviour of all is, seen from one of   *)
(* them, a behaviour of that one with steps that leave it alone: `part`    *)
(* says which of them moves, and the others stay as they start.            *)
(***************************************************************************)
EXTENDS Integers, FiniteSets

CONSTANTS
    None,
    Instances, All, NoState, Attached, Sustain, ClearSustain, MaxTotal, MaxEdits, MaxEvents,
    Fingerprints, MaxApplications, MaxMoves, MaxCrashes,
    Configs, Sensors, Prefixes, MaxGrants, MaxOutages, MaxRenames,
    Calls, NoCall, MaxLost,
    Bases, MaxAnswers,
    LoopThread, WorkerThread, ACTIVITY_ENTRIES_KEPT, MaxNotes, MaxSamples,
    MaxFailures, MaxRestarts,
    Requests, MaxTasks, MaxDrops, MaxErrors

VARIABLES
    part,
    kind, rule, open, states, total, baseline, tick, held, edit, grown, edits, events,
    failures, restarts,
    row, emits, journaled, pass, user, applications, dismissal, moves, crashes,
    granted, registered, prefix, recorded, published, retained, online, loop, request, raced,
    grants, outages, renames, starts,
    tile, action, pc, verdict, answer, byTx, byAction, requests, responses, installed, buffered,
    worker, lost, boots,
    call, pending, scanning, recent, mesh,
    stack, owner, totals, window, ring, relabel, drained, holding, notes, samples,
    config, link, current, awaits, drops, errors, overlapped, kept

Alerts == INSTANCE AlertEvaluator WITH pass <- tick
Store == INSTANCE RecommendationStore
Discovery == INSTANCE DiscoveryPublisher WITH restarts <- starts
Tile == INSTANCE ExtensionTile WITH row <- tile, restarts <- boots
Pulls == INSTANCE TopologyPull
Activity == INSTANCE LoopActivity WITH
    Loop <- LoopThread, Worker <- WorkerThread, held <- holding,
    LabelsOf <- [t \in {LoopThread, WorkerThread} |-> IF t = LoopThread THEN {"tile"} ELSE {"flush"}]
Link == INSTANCE BrokerLink

ASSUME AlertAssumption == Alerts!AlertAssumption
ASSUME PairAssumption == Alerts!PairAssumption
ASSUME StoreAssumption == Store!StoreAssumption
ASSUME RowAssumption == Store!RowAssumption
ASSUME TileAssumption == Tile!TileAssumption
ASSUME PrefixAssumption == Discovery!PrefixAssumption
ASSUME PullAssumption == Pulls!PullAssumption
ASSUME ActivityAssumption == Activity!ActivityAssumption
ASSUME LinkAssumption == Link!LinkAssumption

alerts == <<kind, rule, open, states, total, baseline, tick, held, edit, grown, edits, events,
            failures, restarts>>
store == <<row, emits, journaled, pass, user, applications, dismissal, moves, crashes>>
discovery == <<granted, registered, prefix, recorded, published, retained, online, loop, request,
               raced, grants, outages, renames, starts>>
tiles == <<tile, action, pc, verdict, answer, byTx, byAction, requests, responses, installed,
           buffered, worker, lost, boots>>
pulls == <<call, pending, scanning, recent, mesh>>
activity == <<stack, owner, totals, window, ring, relabel, drained, holding, notes, samples>>
broker == <<config, link, current, awaits, drops, errors, overlapped, kept>>
vars == <<part, alerts, store, discovery, tiles, pulls, activity, broker>>

Init ==
    /\ part \in {"alerts", "store", "discovery", "tile", "pulls", "activity", "link"}
    /\ Alerts!Init /\ (part # "alerts" => kind = "gauge")
    /\ Store!Init
    /\ Discovery!Init /\ (part # "discovery" => prefix = CHOOSE p \in Prefixes : TRUE)
    /\ Tile!Init /\ (part # "tile" => ~installed)
    /\ Pulls!Init /\ Activity!Init /\ Link!Init

AlertsMove ==
    /\ part = "alerts" /\ Alerts!Next
    /\ UNCHANGED <<part, store, discovery, tiles, pulls, activity, broker>>
StoreMoves ==
    /\ part = "store" /\ Store!Next
    /\ UNCHANGED <<part, alerts, discovery, tiles, pulls, activity, broker>>
DiscoveryMoves ==
    /\ part = "discovery" /\ Discovery!Next
    /\ UNCHANGED <<part, alerts, store, tiles, pulls, activity, broker>>
TileMoves ==
    /\ part = "tile" /\ Tile!Next
    /\ UNCHANGED <<part, alerts, store, discovery, pulls, activity, broker>>
PullsMove ==
    /\ part = "pulls" /\ Pulls!Next
    /\ UNCHANGED <<part, alerts, store, discovery, tiles, activity, broker>>
ActivityMoves ==
    /\ part = "activity" /\ Activity!Next
    /\ UNCHANGED <<part, alerts, store, discovery, tiles, pulls, broker>>
LinkMoves ==
    /\ part = "link" /\ Link!Next
    /\ UNCHANGED <<part, alerts, store, discovery, tiles, pulls, activity>>

Next ==
    \/ AlertsMove \/ StoreMoves \/ DiscoveryMoves \/ TileMoves
    \/ PullsMove \/ ActivityMoves \/ LinkMoves

\* The fairness of each part, as its module states it.
Fairness ==
    /\ WF_alerts(part = "alerts" /\ Alerts!Worker)
    /\ WF_alerts(part = "alerts" /\ (Alerts!CloseRows \/ Alerts!ResetStates \/ Alerts!ResetRaises))
    /\ WF_store(part = "store" /\ Store!Pass)
    /\ WF_discovery(part = "discovery" /\ Discovery!Loop)
    /\ WF_discovery(part = "discovery" /\ Discovery!Request)
    /\ WF_discovery(part = "discovery" /\ Discovery!Reconnect)
    /\ WF_discovery(part = "discovery" /\ Discovery!Register)
    /\ \A c \in Calls : WF_tiles(part = "tile" /\ Tile!CallStep(c))
    /\ WF_tiles(part = "tile" /\ Tile!Beat)
    /\ WF_tiles(part = "tile" /\ Tile!Worker)
    /\ \A t \in {LoopThread, WorkerThread} : WF_activity(part = "activity" /\ Activity!Step(t))
    /\ \A t \in Link!Tasks : WF_broker(part = "link" /\ Link!Run(t))
    /\ \A r \in Requests : WF_broker(part = "link" /\ Link!Replace(r))

Spec == Init /\ [][Next]_vars /\ Fairness

-----------------------------------------------------------------------------

\* The types of the parts; the tile's are in CallsApart.
TypeOK ==
    /\ Alerts!TypeOK /\ Store!TypeOK /\ Discovery!TypeOK /\ Pulls!TypeOK /\ Activity!TypeOK
    /\ Link!TypeOK

\* Only an edit of a rule, or a restart, leaves an open alert event that no
\* pass of the worker will close, and the event of a rule that is disabled or
\* gone is closed (alerts.py:601-612).
EventsClose == Alerts!StrandedOnlyByEdits /\ (part = "alerts" => Alerts!SweepCloses)

\* A dismissed recommendation is not shown again, unless a pass had read it
\* before it was dismissed, and one its detector no longer makes leaves the queue
\* (recommend/store.py:10-16).
QueueHonest == Store!DismissalHolds /\ (part = "store" => Store!WithdrawnLeaves)

\* What the discovery tile has retained on the broker is on record
\* (ha_discovery.py:246-251).
Remembered == Discovery!Remembered

\* A revoke is finished, through outages and restarts, and an instance that
\* stays granted gets its configurations (ha_discovery.py:18-20).
RequestsFinish == part = "discovery" => Discovery!RevokeFinished /\ Discovery!GrantPublishes

\* The table of pending requests serves each deploy and revoke (tiles.py:140-173).
CallsApart == part = "tile" => Tile!CallsApart

\* Of all heartbeats only the one that was read before the revoke and is written
\* after it brings a revoked tile back (tiles.py:285); deploys and revokes end,
\* and a running probe's row heals (tiles.py:200).
TileSettles == Tile!StaysRevoked /\ (part = "tile" => Tile!TileSettles)

\* One scan at a time, and its gate opens however it ends (topology.py:6-7).
GateMatchesCalls == Pulls!GateMatchesCalls

\* The work that held the loop is told once (engine.py:268-326), and each label
\* keeps its newest slow entries (engine.py:290-311).
HeldOnceWithEvidence == Activity!HeldOnce /\ Activity!EvidenceKept

\* Every note ends, whatever collections its thread runs into (engine.py:203).
NotesEnd == part = "activity" => Activity!NotesEnd

\* Unless two requests overlap, the only task that runs is the one the engine
\* can cancel, and the collector comes to be connected with its last settings,
\* through lost connections and handlers that raise (mqtt.py:1-11).
LinkSound == part = "link" => []Link!NoneAstray /\ Link!LinkRecovers
=============================================================================
