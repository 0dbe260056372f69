---------------------------- MODULE ChangeJournal ----------------------------
(***************************************************************************)
(* The change journal: Zigbee2MQTT's retained device and group lists come  *)
(* in, the registry compares each with the one before (ingest/registry.py, *)
(* _diff_devices, _diff_groups), the engine marks a device that left one   *)
(* instance and joined another as moved, and the flush worker takes the    *)
(* rows to the database (engine.py:682-705, 1492-1504).                    *)
(*                                                                         *)
(* An append to the list of rows is two steps, for the arguments are made  *)
(* after the list is looked up and the worker swaps it from its thread.    *)
(***************************************************************************)
EXTENDS Integers, Sequences, FiniteSets, Functions

CONSTANTS
    None,
    Instances, Devices,
    Identities,      \* names and addresses a device may have: [name, nwk]
    MaxChanges, MaxTime,
    MaxSetbacks,     \* bounds of the model; failed inserts and restarts
    MOVE_MATCH_SECONDS

Names == {e.name : e \in Identities}
Addresses == {e.nwk : e \in Identities}
Lists == UNION {[D -> Identities] : D \in SUBSET Devices}
Memberships == (SUBSET Devices) \cup {None}

\* The rows of the journal.
RowsOf(kinds, subjects, details) ==
    [on : Instances, kind : kinds, subject : subjects, detail : details]
AddedRows == RowsOf({"device_added"}, Devices, [name : Names, from : Instances \cup {None}])
RemovedRows == RowsOf({"device_removed"}, Devices, {None})
RenamedRows == RowsOf({"device_renamed"}, Devices, Names)
RejoinedRows == RowsOf({"device_rejoined"}, Devices, Addresses)
GroupKinds == {"group_added", "group_removed", "group_membership_changed"}
RowsOfGroups == RowsOf(GroupKinds, Instances, 0..Cardinality(Devices) \cup {None})
Rows == AddedRows \cup RemovedRows \cup RenamedRows \cup RejoinedRows \cup RowsOfGroups

\* None is no list, no members, no instance and no sequence of rows.
JournalAssumption ==
    /\ IsFiniteSet(Devices) /\ MaxTime \in Nat
    /\ \A e \in Identities : e = [name |-> e.name, nwk |-> e.nwk]
    /\ None \notin Lists \cup Instances \cup {"pending", "batch", "gone"}
    /\ \A D \in SUBSET Devices : None # D
    /\ None \notin Seq(Rows)

VARIABLES
    now,
    world,      \* instance -> the devices it has: device -> [name, nwk]
    groups,     \* instance -> the members of its group, or None
    channel,    \* instance -> its lists on their way
    listed,     \* _devices: instance -> its newest list, or None
    grouped,    \* _groups: instance -> [of, members], of None before the first
    removals,   \* _recent_removals: device -> [at, from]
    hand,       \* rows of the message being handled
    loaded,     \* the list the next row goes to: "pending", "batch", "gone" or None
    pending,    \* _journal_pending
    batch,      \* the worker's rows, or None
    table,      \* the journal table
    book,       \* ghost: the rows written since the start, of each instance
    baseline,   \* ghost: the first list of each instance since the start
    changes, failures, restarts

registry == <<listed, grouped, removals>>
flush == <<pending, batch, table>>
ghosts == <<book, baseline>>
vars == <<now, world, groups, channel, registry, hand, loaded, flush, ghosts,
          changes, failures, restarts>>

Empty == [d \in {} |-> None]
With(list, d, entry) == [e \in DOMAIN list \cup {d} |-> IF e = d THEN entry ELSE list[e]]

Init ==
    /\ now = 0
    /\ world = [i \in Instances |-> Empty] /\ groups = [i \in Instances |-> None]
    /\ channel = [i \in Instances |-> << >>]
    /\ listed = [i \in Instances |-> None] /\ grouped = [i \in Instances |-> None]
    /\ removals = Empty /\ hand = << >> /\ loaded = None
    /\ pending = << >> /\ batch = None /\ table = << >>
    /\ book = [i \in Instances |-> << >>] /\ baseline = [i \in Instances |-> None]
    /\ changes = 0 /\ failures = 0 /\ restarts = 0

-----------------------------------------------------------------------------
(* The networks *)

Change(i) ==
    /\ changes < MaxChanges /\ changes' = changes + 1
    /\ UNCHANGED <<now, registry, hand, loaded, flush, ghosts, failures, restarts>>

\* A device joins, leaves, is renamed or comes back under another address.
DevicesOf(i) ==
    LET free == {d \in Devices : \A j \in Instances \ {i} : d \notin DOMAIN world[j]}
    IN (UNION {{With(world[i], d, e) : e \in Identities} : d \in free})
       \cup {[e \in DOMAIN world[i] \ {d} |-> world[i][e]] : d \in DOMAIN world[i]}

ChangeDevices(i) ==
    /\ \E after \in DevicesOf(i) :
         /\ after # world[i]
         /\ world' = [world EXCEPT ![i] = after]
         /\ channel' = [channel EXCEPT ![i] = Append(@, [list |-> "devices", content |-> after])]
    /\ Change(i) /\ UNCHANGED groups

ChangeGroup(i) ==
    /\ \E after \in (SUBSET DOMAIN world[i]) \cup {None} :
         /\ after # groups[i]
         /\ groups' = [groups EXCEPT ![i] = after]
         /\ channel' = [channel EXCEPT ![i] = Append(@, [list |-> "groups", content |-> after])]
    /\ Change(i) /\ UNCHANGED world

Tick ==
    /\ now < MaxTime /\ now' = now + 1
    /\ UNCHANGED <<world, groups, channel, registry, hand, loaded, flush, ghosts,
                   changes, failures, restarts>>

-----------------------------------------------------------------------------
(* The registry *)

Row(i, kind, subject, detail) == [on |-> i, kind |-> kind, subject |-> subject, detail |-> detail]

\* _on_registry_change: a device that left another instance lately has moved.
MovedFrom(d, i) ==
    IF /\ d \in DOMAIN removals /\ now - removals[d].at <= MOVE_MATCH_SECONDS
       /\ removals[d].from # i
    THEN removals[d].from ELSE None

\* _diff_devices
V_NotRenamed(old, new) == {}
Renamed(old, new) == {d \in DOMAIN old \cap DOMAIN new : old[d].name # new[d].name}
Rejoined(old, new) == {d \in DOMAIN old \cap DOMAIN new : old[d].nwk # new[d].nwk}
Added(old, new) == DOMAIN new \ DOMAIN old
Removed(old, new) == DOMAIN old \ DOMAIN new

\* The rows of a set of devices, in the order Python's sets have.
InSomeOrder(S) == CHOOSE q \in Injection(1..Cardinality(S), S) : TRUE

DeviceRows(i, old, new) ==
    InSomeOrder({Row(i, "device_added", d, [name |-> new[d].name, from |-> MovedFrom(d, i)]) : d \in Added(old, new)})
    \o InSomeOrder({Row(i, "device_removed", d, None) : d \in Removed(old, new)})
    \o InSomeOrder({Row(i, "device_renamed", d, new[d].name) : d \in Renamed(old, new)})
    \o InSomeOrder({Row(i, "device_rejoined", d, new[d].nwk) : d \in Rejoined(old, new)})

Removals(i, old, new) ==
    LET kept == {d \in DOMAIN removals \ Added(old, new) : now - removals[d].at <= MOVE_MATCH_SECONDS}
    IN [d \in kept \cup Removed(old, new) |->
          IF d \in Removed(old, new) THEN [at |-> now, from |-> i] ELSE removals[d]]

\* _diff_groups, for the one group of an instance.
GroupRows(i, old, new) ==
    CASE old = None /\ new # None -> <<Row(i, "group_added", i, Cardinality(new))>>
      [] old # None /\ new = None -> <<Row(i, "group_removed", i, None)>>
      [] old # None /\ new # None /\ old # new ->
           <<Row(i, "group_membership_changed", i, Cardinality(new))>>
      [] OTHER -> << >>

\* Each row that is made lets the removals go that are too long ago.
Emit(i, rows, old, new) ==
    /\ hand' = rows
    /\ book' = [book EXCEPT ![i] = @ \o rows]
    /\ removals' = IF rows = << >> THEN removals ELSE Removals(i, old, new)

\* The first list since the start is a baseline.
OnDevices(i, new) ==
    /\ listed' = [listed EXCEPT ![i] = new]
    /\ IF listed[i] = None
       THEN /\ baseline' = [baseline EXCEPT ![i] = new]
            /\ UNCHANGED <<removals, hand, book>>
       ELSE Emit(i, DeviceRows(i, listed[i], new), listed[i], new) /\ UNCHANGED baseline
    /\ UNCHANGED grouped

OnGroups(i, new) ==
    /\ grouped' = [grouped EXCEPT ![i] = [members |-> new]]
    /\ IF grouped[i] = None THEN UNCHANGED <<removals, hand, book>>
       ELSE Emit(i, GroupRows(i, grouped[i].members, new), Empty, Empty)
    /\ UNCHANGED <<listed, baseline>>

Handle(i) ==
    /\ hand = << >> /\ channel[i] # << >>
    /\ channel' = [channel EXCEPT ![i] = Tail(@)]
    /\ LET m == Head(channel[i])
       IN \/ m.list = "devices" /\ OnDevices(i, m.content)
          \/ m.list = "groups" /\ OnGroups(i, m.content)
    /\ UNCHANGED <<now, world, groups, loaded, flush, changes, failures, restarts>>

Load ==
    /\ hand # << >> /\ loaded = None /\ loaded' = "pending"
    /\ UNCHANGED <<now, world, groups, channel, registry, hand, flush, ghosts,
                   changes, failures, restarts>>

AppendRow ==
    /\ loaded # None /\ loaded' = None /\ hand' = Tail(hand)
    /\ pending' = IF loaded = "pending" THEN Append(pending, Head(hand)) ELSE pending
    /\ batch' = IF loaded = "batch" THEN Append(batch, Head(hand)) ELSE batch
    /\ UNCHANGED <<now, world, groups, channel, registry, table, ghosts, changes, failures, restarts>>

-----------------------------------------------------------------------------
(* The worker *)

\* An empty list is not looked at again.
Swap ==
    /\ batch = None
    /\ batch' = IF pending = << >> THEN None ELSE pending
    /\ pending' = << >>
    /\ loaded' = IF loaded # "pending" THEN loaded
                 ELSE IF pending = << >> THEN "gone" ELSE "batch"
    /\ UNCHANGED <<now, world, groups, channel, registry, hand, table, ghosts,
                   changes, failures, restarts>>

Insert ==
    /\ batch # None
    /\ \/ table' = table \o batch /\ UNCHANGED failures
       \/ failures + restarts < MaxSetbacks /\ failures' = failures + 1 /\ UNCHANGED table
    /\ batch' = None
    /\ loaded' = IF loaded = "batch" THEN "gone" ELSE loaded
    /\ UNCHANGED <<now, world, groups, channel, registry, hand, pending, ghosts, changes, restarts>>

\* The collector starts again, and is sent the lists that are retained.
Restart ==
    /\ failures + restarts < MaxSetbacks /\ restarts' = restarts + 1
    /\ listed' = [i \in Instances |-> None] /\ grouped' = [i \in Instances |-> None]
    /\ removals' = Empty /\ hand' = << >> /\ loaded' = None /\ pending' = << >> /\ batch' = None
    /\ book' = [i \in Instances |-> << >>] /\ baseline' = [i \in Instances |-> None]
    /\ channel' = [i \in Instances |-> <<[list |-> "devices", content |-> world[i]],
                                         [list |-> "groups", content |-> groups[i]]>>]
    /\ UNCHANGED <<now, world, groups, table, changes, failures>>

Next ==
    \/ \E i \in Instances : ChangeDevices(i) \/ ChangeGroup(i) \/ Handle(i)
    \/ Tick \/ Load \/ AppendRow \/ Swap \/ Insert \/ Restart

Spec == Init /\ [][Next]_vars

-----------------------------------------------------------------------------

TypeOK ==
    /\ DOMAIN removals \subseteq Devices
    /\ pending \in Seq(Rows) /\ table \in Seq(Rows) /\ \A i \in Instances : book[i] \in Seq(Rows)
    /\ loaded \in {None, "pending", "batch", "gone"} /\ (loaded # None => hand # << >>)
    /\ \A i \in Instances : listed[i] = None <=> baseline[i] = None

\* What a row says of a list.  The row of a new device has no address.
Replayed(list, row) ==
    CASE row.kind = "device_added" ->
           With(list, row.subject, [name |-> row.detail.name, nwk |-> None])
      [] row.kind = "device_removed" -> [d \in DOMAIN list \ {row.subject} |-> list[d]]
      [] row.kind = "device_renamed" -> [list EXCEPT ![row.subject].name = row.detail]
      [] row.kind = "device_rejoined" -> [list EXCEPT ![row.subject].nwk = row.detail]
      [] OTHER -> list
Replay(list, written) ==
    LET f[k \in 0..Len(written)] == IF k = 0 THEN list ELSE Replayed(f[k - 1], written[k])
    IN f[Len(written)]

\* The rows written since the start turn the first list of an instance into the
\* newest: no change of a device or of a name is missed, none is told twice, and
\* an address that is told is the device's.
Tells(told, list) ==
    /\ DOMAIN told = DOMAIN list
    /\ \A d \in DOMAIN list : told[d].name = list[d].name /\ told[d].nwk \in {None, list[d].nwk}
JournalReplays ==
    \A i \in Instances : listed[i] # None => Tells(Replay(baseline[i], book[i]), listed[i])

\* A device is marked as moved from an instance it did leave, for another, and
\* not longer ago than the window (engine.py:678-680).
Left(d, i) == \E k \in DOMAIN book[i] : book[i][k].kind = "device_removed" /\ book[i][k].subject = d
MovesWereRemovals ==
    \A i \in Instances : \A k \in DOMAIN book[i] :
      LET r == book[i][k]
      IN r.kind = "device_added" /\ r.detail.from # None =>
           r.detail.from \in Instances \ {i} /\ Left(r.subject, r.detail.from)

\* A row gets to the table once.
Times(q, r) == Cardinality({k \in DOMAIN q : q[k] = r})
StoredOnce ==
    restarts = 0 =>
      \A i \in Instances : \A k \in DOMAIN book[i] :
        Times(table, book[i][k]) <= Times(book[i], book[i][k])
=============================================================================
