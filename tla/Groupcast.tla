----------------------------- MODULE Groupcast -----------------------------
(***************************************************************************)
(* The groupcast detector (recommend/groupcast.py) on the recorded         *)
(* commands of BurstEnvelope: unicasts that one group command could        *)
(* replace or already rides along with, groups that cost more than their   *)
(* members one by one, and groups whose commands another repeats.  Two     *)
(* commands are identical when their streams' digests are.  The floors     *)
(* below which a saving is not worth telling are left out.                 *)
(***************************************************************************)
EXTENDS BurstEnvelope

CONSTANTS
    Devices, Groups,
    MembersOf,              \* the devices of each group
    HopCost,                \* a unicast to each device, by its depth
    AmplifiedCost,          \* a groupcast on each mesh, by its routers
    FANOUT_SPAN, COFIRE_WINDOW,
    COFIRE_TENTHS,          \* COFIRE_FRACTION
    MIN_FANOUT_TARGETS, MIN_OCCURRENCES

ToGroups(cmds, on) == {e \in cmds : e.stream.on = on /\ e.stream.to \in Groups}
ToDevices(cmds, on) == {e \in cmds : e.stream.on = on /\ e.stream.to \notin Groups}

MemberCost(devices) == MapThenSumSet(LAMBDA d : HopCost[d], devices)
Airtime(cmds) ==
    MapThenSumSet(LAMBDA e : IF e.stream.to \in Groups THEN AmplifiedCost[e.stream.on]
                             ELSE HopCost[e.stream.to], cmds)

Times(cmds) == {e.at : e \in cmds}
Near(t, u) == t - u <= COFIRE_WINDOW /\ u - t <= COFIRE_WINDOW

\* _label: who sent three fifths of them, if someone did.
Label(cmds) ==
    LET by(who) == {e \in cmds : e.stream.by = who}
        most == {who \in Commanders : 10 * Cardinality(by(who)) >= 6 * Cardinality(cmds)}
    IN IF most = {} THEN "(multiple commanders)" ELSE CHOOSE who \in most : TRUE

-----------------------------------------------------------------------------
(* Fan-outs *)

\* The first time of the cluster that a command at t is in: a cluster ends with
\* the first command that is later than its first by more than the span.
FirstOf(rows) ==
    LET first[t \in 0..MaxTime] ==
            LET before == {u \in Times(rows) : u < t}
            IN IF before = {} \/ t - first[Max(before)] > FANOUT_SPAN THEN t
               ELSE first[Max(before)]
    IN first

V_EachStarts(rows) ==
    {{e \in rows : t <= e.at /\ e.at <= t + FANOUT_SPAN} : t \in Times(rows)}
Clusters(rows) == {{e \in rows : FirstOf(rows)[e.at] = t} : t \in Range(FirstOf(rows))} \ {{}}

TargetsOf(cluster) == {e.stream.to : e \in cluster}

FanoutsOn(cmds, on) ==
    {cluster \in UNION {Clusters({e \in ToDevices(cmds, on) : e.stream.digest = digest}) :
                          digest \in {e.stream.digest : e \in cmds}} :
       Cardinality(TargetsOf(cluster)) >= MIN_FANOUT_TARGETS}

\* A group command with the digest, whatever the group, near the cluster.
Riding(cmds, on, cluster) ==
    {g \in ToGroups(cmds, on) :
       /\ \A e \in cluster : e.stream.digest = g.stream.digest
       /\ Min(Times(cluster)) - COFIRE_WINDOW <= g.at
       /\ g.at <= Max(Times(cluster)) + COFIRE_WINDOW}

\* What a detector says: commands that should not be sent, those that should
\* in their place, and the airtime it claims for that.
Advice(kind, of, drop, add, saving) ==
    [kind |-> kind, of |-> of, drop |-> drop, add |-> add, saving |-> saving]

\* Fan-outs by commander and targets, often enough.
Occasions(cmds, on) ==
    LET fanouts == FanoutsOn(cmds, on)
        alike(c) == {d \in fanouts : Label(d) = Label(c) /\ TargetsOf(d) = TargetsOf(c)}
    IN {o \in {alike(c) : c \in fanouts} : Cardinality(o) >= MIN_OCCURRENCES}

DoubleDelivery(cmds, on, o) ==
    10 * Cardinality({c \in o : Riding(cmds, on, c) # {}}) >= COFIRE_TENTHS * Cardinality(o)

Dedupes(cmds, on) ==
    {LET targets == TargetsOf(CHOOSE c \in o : TRUE)
     IN Advice("dedupe", targets, UNION o, {}, Cardinality(o) * MemberCost(targets)) :
       o \in {o \in Occasions(cmds, on) : DoubleDelivery(cmds, on, o)}}

\* One command to a group of exactly the targets, each time, or to a new group.
Collapses(cmds, on) ==
    LET worthIt(o) == AmplifiedCost[on] < MemberCost(TargetsOf(CHOOSE c \in o : TRUE))
        advice(o) ==
            LET targets == TargetsOf(CHOOSE c \in o : TRUE)
                any == CHOOSE e \in UNION o : TRUE
                exact == {g \in Groups : MembersOf[g] = targets}
                sent(g) == {[at |-> Min(Times(c)), stream |-> [any.stream EXCEPT !.to = g]] : c \in o}
                saving == Cardinality(o) * (MemberCost(targets) - AmplifiedCost[on])
            IN IF exact = {} THEN {Advice("regroup", targets, UNION o, {}, saving)}
               ELSE {Advice("retarget", g, UNION o, sent(g), saving) : g \in exact}
    IN UNION {advice(o) : o \in {o \in Occasions(cmds, on) :
                                   ~DoubleDelivery(cmds, on, o) /\ worthIt(o)}}

-----------------------------------------------------------------------------
(* Groups *)

CommandsTo(cmds, on, g) == {e \in ToGroups(cmds, on) : e.stream.to = g}
Commanded(cmds, on) == {g \in Groups : CommandsTo(cmds, on, g) # {} /\ MembersOf[g] # {}}
Frequent(cmds, on) ==
    {g \in Commanded(cmds, on) : Cardinality(CommandsTo(cmds, on, g)) >= MIN_OCCURRENCES}

\* _amplification_losers: the members one by one cost less, by three tenths.
Losers(cmds, on) ==
    {LET rows == CommandsTo(cmds, on, g)
         alone == {[e EXCEPT !.stream.to = d] : e \in rows, d \in MembersOf[g]}
     IN Advice("members", g, rows, alone,
               Cardinality(rows) * (AmplifiedCost[on] - MemberCost(MembersOf[g]))) :
       g \in {g \in Frequent(cmds, on) : 10 * MemberCost(MembersOf[g]) < 7 * AmplifiedCost[on]}}

\* _cofired_groups: the commands to a group come, most of them, with identical
\* ones to a group that has all of its members; all of them are to be dropped.
Matched(cmds, on, inner, outer) ==
    {e \in CommandsTo(cmds, on, inner) :
       \E f \in CommandsTo(cmds, on, outer) :
         Near(e.at, f.at) /\ e.stream.digest = f.stream.digest}
V_Meets(inner, outer) == MembersOf[inner] \cap MembersOf[outer] # {}
Within(inner, outer) == MembersOf[inner] \subseteq MembersOf[outer]
Cofired(cmds, on) ==
    {LET matched == Matched(cmds, on, p[1], p[2])
     IN Advice("cofired", p, CommandsTo(cmds, on, p[1]), {},
               Cardinality(matched) * AmplifiedCost[on]) :
       p \in {p \in Frequent(cmds, on) \X Commanded(cmds, on) :
                /\ p[1] # p[2] /\ Within(p[1], p[2])
                /\ 10 * Cardinality(Matched(cmds, on, p[1], p[2]))
                     >= COFIRE_TENTHS * Cardinality(CommandsTo(cmds, on, p[1]))}}

-----------------------------------------------------------------------------

Advised(cmds, on) ==
    Dedupes(cmds, on) \cup Collapses(cmds, on) \cup Losers(cmds, on) \cup Cofired(cmds, on)

\* No saving is claimed that the recorded commands did not cost ("recorded
\* chains priced in the ledger's currency", groupcast.py:3-6): doing as a
\* finding says would have saved at least what it claims.
SavingsBacked ==
    \A on \in Instances : \A f \in Advised(commands, on) :
      f.saving > 0 /\ f.saving <= Airtime(f.drop) - Airtime(f.add)

\* Doing as the detector says does not make it say the reverse: commands that
\* were collapsed to a group are not sent back to its members, nor the other
\* way round (groupcast.py:8-21).
NoSeesaw ==
    \A on \in Instances : \A f \in Collapses(commands, on) \cup Losers(commands, on) :
      LET then == (commands \ f.drop) \cup f.add
      IN ~\E g \in Collapses(then, on) \cup Losers(then, on) : g.of = f.of /\ g.kind # f.kind

\* Groups that lie in each other can all be silenced at once, each for the
\* next.  Of the commands that count as redundant, all devices are still reached
\* ("whose members include all", groupcast.py:522-525): by an identical command,
\* at most a window further off for each other group, that is kept, or that is
\* silenced although no finding counts it.  Of those there are at most as many
\* as COFIRE_FRACTION allows, and nothing need reach their devices.  Twins are
\* told to yield to each other: findings about groups with the same members are
\* not among these.
SilencedStillServed ==
    \A on \in Instances :
      LET nested == {f \in Cofired(commands, on) : MembersOf[f.of[1]] # MembersOf[f.of[2]]}
          counted == UNION {Matched(commands, on, f.of[1], f.of[2]) : f \in nested}
          silenced == UNION {f.drop : f \in nested}
          reach == (Cardinality(Groups) - 1) * COFIRE_WINDOW
          others == {g \in ToGroups(commands, on) : g \in silenced => g \notin counted}
      IN \A e \in counted : \A d \in MembersOf[e.stream.to] :
           \E g \in others :
             /\ d \in MembersOf[g.stream.to] /\ g.stream.digest = e.stream.digest
             /\ g.at - e.at <= reach /\ e.at - g.at <= reach

=============================================================================
