---------------------------- MODULE NoopVerdicts ----------------------------
(***************************************************************************)
(* The verdict a command gets (attribution/noop.py): does it ask a device  *)
(* for what the device already holds?  It is given when the command is     *)
(* seen, against what was last reported, what is still in flight, and the  *)
(* group lists the registry has (ingest/registry.py).  Around it: devices  *)
(* that carry out commands later and report later still, a switch bound to *)
(* the group, and groups that change.                                      *)
(*                                                                         *)
(* The lamps have two colour keys; a command of one of them also puts the  *)
(* lamp in that colour mode.  A command has one key.                       *)
(***************************************************************************)
EXTENDS Integers, Sequences, SequencesExt, FiniteSets, Functions

CONSTANTS
    None,
    Devices, Group,     \* the names; the group's members are devices
    Settings,           \* the commands there are: [key, value]
    MAX_TRACKED_DEVICES, MAX_TRACKED_KEYS,
    Commanded,          \* the names commands are sent to
    MaxCommands, MaxDisturbances   \* bounds of the model

Names == Devices \cup {Group}
ColorKeys == {"color_temp", "color"}
Keys == ColorKeys \cup {"color_mode"}

NoopAssumption ==
    /\ IsFiniteSet(Devices) /\ Group \notin Devices /\ Commanded \subseteq Names
    /\ Settings \subseteq [key : ColorKeys, value : Nat]
    /\ {MAX_TRACKED_DEVICES, MAX_TRACKED_KEYS, MaxCommands, MaxDisturbances} \subseteq Nat
    /\ None \notin ColorKeys \cup {"noop", "changing", "unknown"}
    /\ \A devices \in SUBSET Devices : None # devices

VARIABLES
    \* the mesh
    actual,    \* what each device holds
    inbox,     \* the commands it has not carried out
    roster,    \* the members of the group
    channel,   \* Zigbee2MQTT's messages on their way to the collector
    \* the collector
    named,     \* the devices of the newest device list
    members,   \* the members of the newest group list, or None
    tracked,   \* EchoState._tracked
    values,    \* EchoState._values
    pending,   \* EchoState._pending
    \* ghosts
    asked,     \* the latest verdict and what was true of it
    lost,      \* devices of which not what is in flight is held as such
    sent,      \* commands
    disturbed  \* reports unasked for, presses, regroupings and deadlines passed

mesh == <<actual, inbox, roster>>
echoes == <<tracked, values, pending>>
vars == <<mesh, channel, named, members, echoes, asked, lost, sent, disturbed>>

Nothing == [k \in {} |-> None]
Disturb == disturbed < MaxDisturbances /\ disturbed' = disturbed + 1
Message(kind, about, content, answers) ==
    [kind |-> kind, about |-> about, content |-> content, answers |-> answers]

Start == [k \in Keys |-> IF k = "color_mode" THEN "color_temp" ELSE 0]

\* The collector starts, and the retained lists come in either order; or it has
\* the lists, and has seen the devices commanded (there was room) and heard them.
Init ==
    /\ actual = [d \in Devices |-> Start] /\ roster = Devices
    /\ inbox = [d \in Devices |-> << >>]
    /\ \/ LET devices == Message("devices", Group, Devices, None)
              groups == Message("groups", Group, Devices, None)
          IN /\ channel \in {<<devices, groups>>, <<groups, devices>>}
             /\ named = {} /\ members = None
             /\ tracked = Nothing /\ values = [n \in Names |-> Nothing]
       \/ /\ Cardinality(Devices) <= MAX_TRACKED_DEVICES /\ Cardinality(Keys) <= MAX_TRACKED_KEYS
          /\ channel = << >>
          /\ named = Devices /\ members = Devices
          /\ tracked = [d \in Devices |-> Keys]
          /\ values = [n \in Names |-> IF n \in Devices THEN Start ELSE Nothing]
    /\ pending = [n \in Names |-> Nothing]
    /\ asked = [verdict |-> None, holds |-> TRUE, blind |-> FALSE, crossing |-> FALSE]
    /\ lost = {} /\ sent = 0 /\ disturbed = 0

-----------------------------------------------------------------------------
(* The mesh *)

Carried(state, c) == [state EXCEPT ![c.key] = c.value, !.color_mode = c.key]

\* What d holds when it has carried out the commands it was sent is what c asks
\* for: each of them sets the mode, so that the last one decides.
WillHold(d, c) ==
    IF inbox[d] = << >> THEN actual[d][c.key] = c.value /\ actual[d].color_mode = c.key
    ELSE Last(inbox[d]) = c

\* A device carries out its oldest command, and reports.
Execute(d) ==
    /\ inbox[d] # << >>
    /\ LET c == Head(inbox[d])
       IN /\ actual' = [actual EXCEPT ![d] = Carried(@, c)]
          /\ channel' = Append(channel, Message("state", d, Carried(actual[d], c), c.key))
    /\ inbox' = [inbox EXCEPT ![d] = Tail(@)]
    /\ UNCHANGED <<roster, named, members, echoes, asked, lost, sent, disturbed>>

Report(d) ==
    /\ Disturb
    /\ channel' = Append(channel, Message("state", d, actual[d], None))
    /\ UNCHANGED <<mesh, named, members, echoes, asked, lost, sent>>

\* A paddle moves the group over its binding, and reports its action.
Press(c) ==
    /\ Disturb
    /\ actual' = [d \in Devices |-> IF d \in roster THEN Carried(actual[d], c) ELSE actual[d]]
    /\ channel' = Append(channel, Message("action", Group, {}, None))
    /\ UNCHANGED <<inbox, roster, named, members, echoes, asked, lost, sent>>

Regroup(devices) ==
    /\ Disturb
    /\ roster' = devices /\ roster' # roster
    /\ channel' = Append(channel, Message("groups", Group, devices, None))
    /\ UNCHANGED <<actual, inbox, named, members, echoes, asked, lost, sent>>

-----------------------------------------------------------------------------
(* The verdict *)

\* group_members_strict: the members that have names, and whether that is all
\* of them; a target no list knows as a group stands for itself.
IsGroup(target) == target = Group /\ members # None
Roster(target) == IF IsGroup(target) THEN members \cap named ELSE {}
Complete(target) == IsGroup(target) => Roster(target) = members /\ members # {}
Judged(target) == IF Roster(target) = {} THEN {target} ELSE Roster(target)

Known(n, k) == k \in DOMAIN values[n]
InFlight(n, k) == k \in DOMAIN pending[n]

\* The reported state has the value, under the mode the key implies.
Reported(who, c) ==
    /\ \A n \in who : Known(n, c.key) /\ values[n][c.key] = c.value
    /\ \A n \in who : Known(n, "color_mode") /\ values[n]["color_mode"] = c.key

\* One thing known to differ is enough, whatever else is unknown, but a mode
\* is looked at when every value agrees.
V_ReportedDiffers(who, c) ==
    /\ \A n \in who : Known(n, c.key)
    /\ \/ \E n \in who : values[n][c.key] # c.value
       \/ \E n \in who : Known(n, "color_mode") /\ values[n]["color_mode"] # c.key
Differs(who, c) ==
    /\ \A n \in who : Known(n, c.key)
    /\ \/ \E n \in who : values[n][c.key] # c.value
       \/ \E n \in who : Known(n, "color_mode") /\ values[n]["color_mode"] # c.key
       \/ /\ Reported(who, c)
          /\ \E n \in who : InFlight(n, c.key) /\ pending[n][c.key] # c.value

Assess(target, c) ==
    CASE ~Complete(target) -> "unknown"
      [] Complete(target) /\ Differs(Judged(target), c) -> "changing"
      [] Complete(target) /\ ~Differs(Judged(target), c) ->
           IF Reported(Judged(target), c) THEN "noop" ELSE "unknown"

\* EchoState.track, of one device; a colour key brings the mode with it.
TrackedKeys(n, k) ==
    LET had == IF n \in DOMAIN tracked THEN tracked[n] ELSE {}
        room(keys) == Cardinality(keys) < MAX_TRACKED_KEYS
        own == IF room(had) THEN had \cup {k} ELSE had
    IN IF own \cap ColorKeys # {} /\ room(own) THEN own \cup {"color_mode"} ELSE own

\* Of several devices, in the order of the group: as many are new as fit.
Track(who, k) ==
    LET fresh == who \ DOMAIN tracked
    IN \E new \in SUBSET fresh :
         LET all == DOMAIN tracked \cup new
         IN /\ Cardinality(all) <= MAX_TRACKED_DEVICES
            /\ new = fresh \/ Cardinality(all) = MAX_TRACKED_DEVICES
            /\ tracked' = [n \in all |-> IF n \in who THEN TrackedKeys(n, k) ELSE tracked[n]]

Targets(target) == IF target = Group THEN roster ELSE {target}

\* Ghost: the keys of the commands to a device whose report has not been heard.
Unheard(d) ==
    {inbox[d][i].key : i \in DOMAIN inbox[d]} \cup
    {channel[i].answers : i \in {j \in DOMAIN channel : channel[j].about = d /\ channel[j].answers # None}}

\* Ghost: what the detector does not see: a command in flight that it does not
\* hold as such, or holds for a device that is not in the group any more; a
\* paddle's action or a list of the group that has not come in.
Blind(target) ==
    \/ Targets(target) \cap lost # {}
    \/ \E i \in 1..Len(channel) : channel[i].kind = "action"
    \/ target = Group /\ \E i \in 1..Len(channel) : channel[i].kind \in {"groups", "devices"}

\* classify, and what Zigbee2MQTT makes of the command: one for each member,
\* and a state of the group's own.
Command(target, c) ==
    /\ sent < MaxCommands /\ sent' = sent + 1
    /\ asked' = [verdict |-> Assess(target, c),
                 holds |-> \A d \in Targets(target) : WillHold(d, c),
                 blind |-> Blind(target),
                 crossing |-> \E d \in Targets(target) : \E k \in Unheard(d) : k # c.key]
    /\ IF Complete(target)
       THEN /\ Track(Judged(target), c.key)
            /\ pending' = [n \in Names |->
                 IF n \in Judged(target) \cap DOMAIN tracked' /\ c.key \in tracked'[n]
                 THEN [k \in DOMAIN pending[n] \cup {c.key} |->
                         IF k = c.key THEN c.value ELSE pending[n][k]]
                 ELSE pending[n]]
       ELSE UNCHANGED <<tracked, pending>>
    /\ inbox' = [d \in Devices |-> IF d \in Targets(target) THEN Append(inbox[d], c) ELSE inbox[d]]
    /\ channel' = IF target # Group THEN channel
                  ELSE Append(channel, Message("state", Group,
                         [k \in {c.key, "color_mode"} |-> IF k = c.key THEN c.value ELSE c.key], None))
    /\ LET held == IF Complete(target) THEN Judged(target) ELSE {}
       IN lost' = lost \cup (Targets(target) \ held)
                       \cup {d \in Devices : d \in held \ Targets(target) /\ Unheard(d) # {}}
    /\ UNCHANGED <<actual, roster, named, members, values, disturbed>>

\* The deadline of a value in flight passes (EchoState.inflight).
Lapse(n, k) ==
    /\ InFlight(n, k)
    /\ Disturb
    /\ pending' = [pending EXCEPT ![n] = Restrict(@, DOMAIN @ \ {k})]
    /\ lost' = lost \cup {d \in Devices : d = n /\ Unheard(d) # {}}
    /\ UNCHANGED <<mesh, channel, named, members, tracked, values, asked, sent>>

-----------------------------------------------------------------------------
(* What comes in *)

\* EchoState.note_state: the tracked keys of the report, each confirming the
\* value in flight if it is the one.
Heard(m) ==
    /\ m.kind = "state"
    /\ LET n == m.about
           wanted == IF n \in DOMAIN tracked THEN tracked[n] \cap DOMAIN m.content ELSE {}
           confirmed == {k \in wanted \cap DOMAIN pending[n] : pending[n][k] = m.content[k]}
       IN /\ values' = [values EXCEPT ![n] =
               [k \in DOMAIN @ \cup wanted |-> IF k \in wanted THEN m.content[k] ELSE @[k]]]
          /\ pending' = [pending EXCEPT ![n] = Restrict(@, DOMAIN @ \ confirmed)]
    /\ UNCHANGED <<named, members, tracked>>

\* _forget_bound_state
Forgotten(m) ==
    /\ m.kind = "action"
    /\ LET bound == IF members = None THEN {} ELSE members \cap named
       IN /\ values' = [n \in Names |-> IF n \in bound THEN Nothing ELSE values[n]]
          /\ pending' = [n \in Names |-> IF n \in bound THEN Nothing ELSE pending[n]]
    /\ UNCHANGED <<named, members, tracked>>

Listed(m) ==
    /\ \/ m.kind = "devices" /\ named' = m.content /\ UNCHANGED members
       \/ m.kind = "groups" /\ members' = m.content /\ UNCHANGED named
    /\ UNCHANGED echoes

Receive ==
    /\ channel # << >> /\ channel' = Tail(channel)
    /\ LET m == Head(channel) IN Heard(m) \/ Forgotten(m) \/ Listed(m)
    /\ UNCHANGED <<mesh, asked, sent, disturbed>>
    /\ lost' = {d \in Devices : \/ d \in lost /\ Unheard(d)' # {}
                               \/ Unheard(d)' \cap (DOMAIN pending[d] \ DOMAIN pending'[d]) # {}}

Next ==
    \/ \E target \in Commanded, c \in Settings : Command(target, c)
    \/ \E d \in Devices : Execute(d) \/ Report(d)
    \/ \E c \in Settings : Press(c)
    \/ \E devices \in SUBSET Devices : Regroup(devices)
    \/ \E n \in Names, k \in ColorKeys : Lapse(n, k)
    \/ Receive

Spec == Init /\ [][Next]_vars

-----------------------------------------------------------------------------

\* The values are where the code keeps them: for tracked names and keys, and
\* within the caps.
TypeOK ==
    /\ DOMAIN tracked \subseteq Names /\ Cardinality(DOMAIN tracked) <= MAX_TRACKED_DEVICES
    /\ \A n \in DOMAIN tracked : tracked[n] \subseteq Keys /\ Cardinality(tracked[n]) <= MAX_TRACKED_KEYS
    /\ \A n \in Names : \/ DOMAIN values[n] = {} /\ DOMAIN pending[n] = {}
                        \/ n \in DOMAIN tracked /\ DOMAIN values[n] \cup DOMAIN pending[n] \subseteq tracked[n]
    /\ asked.verdict \in {None, "noop", "changing", "unknown"}

\* A command called a no-op asks every device it goes to for what that device
\* will hold when the commands before it are carried out (noop.py:28-33,
\* 38-52), but for what no collector could see, and but for a command of the
\* other colour key that is still in flight: the overlay is of the same key,
\* and the mode that command brings is not in it.
NoopIsTrue ==
    asked.verdict = "noop" => asked.holds \/ asked.blind \/ asked.crossing

\* noop.py:38-42: a command that takes back one not yet confirmed is changing,
\* never a no-op, with one command on its way and nothing hidden.
ReversalsAreSeen ==
    asked.verdict = "noop" => asked.holds \/ asked.blind
=============================================================================
