---------------------------- MODULE ExtensionTile ----------------------------
(***************************************************************************)
(* The tile of one Zigbee2MQTT extension probe (tiles.py): deploy_extension*)
(* and revoke_extension as requests to Zigbee2MQTT over MQTT, the pairing  *)
(* of its responses with the waiting calls, and the probe's heartbeats,    *)
(* which the engine buffers and its flush worker applies to the same row.  *)
(*                                                                         *)
(* The calls are tasks of the event loop.  The flush worker is another     *)
(* thread: on_heartbeat reads the row in one transaction and writes it in  *)
(* another, and the loop may run in between.  The broker keeps the order   *)
(* of the requests; it may lose any message (QoS 0), and a response may    *)
(* come after its call has given up.  A call's transaction is the call.    *)
(***************************************************************************)
EXTENDS Integers, Sequences

CONSTANTS
    Calls,       \* deploys and revokes of this tile
    NoCall,      \* no future under this key of _pending
    MaxLost,     \* bound of the model: messages the broker loses
    MaxRestarts  \* bound of the model: restarts of the collector

TileAssumption == NoCall \notin Calls /\ MaxLost \in Nat /\ MaxRestarts \in Nat

VARIABLES
    row,        \* tiles.status of the z2m_extension tile
    action,     \* call -> "save" (deploy), "remove" (revoke); "none" before
    pc,         \* call -> "new", "waiting", "answered", "over"
    verdict,    \* call -> what Zigbee2MQTT answered to its request
    answer,     \* call -> the call whose response its future holds
    byTx,       \* _pending's transaction keys: the calls that have one
    byAction,   \* _pending's "base:action" keys: action -> call or NoCall
    requests,   \* requests on their way to Zigbee2MQTT, in order
    responses,  \* calls whose response is on its way back
    installed,  \* the extension runs in Zigbee2MQTT
    buffered,   \* _pending_heartbeats holds one for this instance
    worker,     \* "idle", or the status on_heartbeat has just read
    lost,       \* messages lost so far
    restarts    \* restarts so far

callVars == <<action, pc, answer, byTx, byAction>>
remoteVars == <<verdict, requests, responses, installed>>
beatVars == <<buffered, worker>>
vars == <<row, callVars, remoteVars, beatVars, lost, restarts>>

Actions == {"save", "remove"}
Statuses == {"available", "deploying", "deployed", "error", "revoked"}

\* The statuses on_heartbeat applies to.
Deployable == {"deployed", "error", "deploying"}

Init ==
    /\ row = "available"
    /\ action = [c \in Calls |-> "none"]
    /\ pc = [c \in Calls |-> "new"]
    /\ verdict = [c \in Calls |-> "none"]
    /\ answer = [c \in Calls |-> NoCall]
    /\ byTx = {}
    /\ byAction = [a \in Actions |-> NoCall]
    /\ requests = << >>
    /\ responses = {}
    /\ installed \in BOOLEAN  \* an earlier deployment may have left one
    /\ buffered = FALSE
    /\ worker = "idle"
    /\ lost = 0
    /\ restarts = 0

-----------------------------------------------------------------------------
(* The calls *)

\* _request registers the future under both keys and publishes.
Request(c, a) ==
    /\ pc[c] = "new"
    /\ action' = [action EXCEPT ![c] = a]
    /\ pc' = [pc EXCEPT ![c] = "waiting"]
    /\ byTx' = byTx \cup {c}
    /\ byAction' = [byAction EXCEPT ![a] = c]
    /\ requests' = Append(requests, c)
    /\ UNCHANGED <<answer, verdict, responses, installed, beatVars, lost,
                   restarts>>

Deploy(c) == Request(c, "save") /\ row' = "deploying"
Revoke(c) == Request(c, "remove") /\ row' = row

\* _request's finally pops both keys, the second whoever it belongs to.
V_ForgetKeepsTx(c, a) ==
    /\ pc' = [pc EXCEPT ![c] = "over"]
    /\ byTx' = byTx
    /\ byAction' = [byAction EXCEPT ![a] = NoCall]
Forget(c, a) ==
    /\ pc' = [pc EXCEPT ![c] = "over"]
    /\ byTx' = byTx \ {c}
    /\ byAction' = [byAction EXCEPT ![a] = NoCall]

\* The broker is not connected: publish raises, and the exception leaves the
\* row as the call had set it.
Refused(c, a) ==
    /\ pc[c] = "new"
    /\ Forget(c, a)
    /\ row' = IF a = "save" THEN "deploying" ELSE row
    /\ UNCHANGED <<action, answer, remoteVars, beatVars, lost, restarts>>

Unanswered(c) == pc[c] = "waiting"

\* No response within RESPONSE_TIMEOUT_SECONDS.
TimesOut(c) ==
    /\ Unanswered(c)
    /\ Forget(c, action[c])
    /\ row' = "error"
    /\ UNCHANGED <<action, answer, remoteVars, beatVars, lost, restarts>>

\* The status a response leads to: a revoke also accepts "does not exist".
Outcome(a, status) ==
    CASE a = "save" /\ status = "ok"                 -> "deployed"
      [] a = "remove" /\ status \in {"ok", "absent"} -> "revoked"
      [] OTHER                                       -> "error"

\* The loop resumes the call with the response its future holds.
Resumes(c) ==
    /\ pc[c] = "answered"
    /\ Forget(c, action[c])
    /\ row' = Outcome(action[c], verdict[answer[c]])
    /\ UNCHANGED <<action, answer, remoteVars, beatVars, lost, restarts>>

\* on_bridge_response: the future under the response's transaction, else the
\* one under its base and action, which then loses that key.
Addressee(tx) == IF tx \in byTx THEN tx ELSE byAction[action[tx]]
OnBridgeResponse(tx) ==
    /\ tx \in responses
    /\ responses' = responses \ {tx}
    /\ byTx' = byTx \ {tx}
    /\ byAction' = IF tx \in byTx THEN byAction
                   ELSE [byAction EXCEPT ![action[tx]] = NoCall]
    /\ LET c == Addressee(tx) IN
         IF c # NoCall /\ pc[c] = "waiting"
         THEN /\ pc' = [pc EXCEPT ![c] = "answered"]
              /\ answer' = [answer EXCEPT ![c] = tx]
         ELSE UNCHANGED <<pc, answer>>
    /\ UNCHANGED <<row, action, verdict, requests, installed, beatVars, lost,
                   restarts>>

-----------------------------------------------------------------------------
(* Heartbeats: _on_probe_heartbeat on the loop, on_heartbeat on the worker *)

\* A running probe beats; only the newest beat is kept.
Beat ==
    /\ installed /\ ~buffered
    /\ buffered' = TRUE
    /\ UNCHANGED <<row, callVars, remoteVars, worker, lost, restarts>>

\* _flush_heartbeats takes the buffer, on_heartbeat reads the row.
WorkerReads ==
    /\ worker = "idle" /\ buffered
    /\ buffered' = FALSE
    /\ worker' = IF row \in Deployable THEN row ELSE "idle"
    /\ UNCHANGED <<row, callVars, remoteVars, lost, restarts>>

\* It promotes a row it did not find deployed, whatever the row is by now.
V_PromotedNever == row
Promoted == IF worker = "deployed" THEN row ELSE "deployed"
WorkerWrites ==
    /\ worker # "idle"
    /\ worker' = "idle"
    /\ row' = Promoted
    /\ UNCHANGED <<callVars, remoteVars, buffered, lost, restarts>>

-----------------------------------------------------------------------------
(* Zigbee2MQTT, the broker, the process *)

\* Zigbee2MQTT carries out the oldest request, or fails to, and answers.
Answers(c, status, runs) ==
    /\ requests # << >> /\ c = Head(requests)
    /\ requests' = Tail(requests)
    /\ verdict' = [verdict EXCEPT ![c] = status]
    /\ responses' = responses \cup {c}
    /\ installed' = runs
    /\ UNCHANGED <<row, callVars, beatVars, lost, restarts>>

Saves(c) == action[c] = "save" /\ Answers(c, "ok", TRUE)
Removes(c) == action[c] = "remove" /\ installed /\ Answers(c, "ok", FALSE)
FindsNothing(c) ==
    action[c] = "remove" /\ ~installed /\ Answers(c, "absent", FALSE)
Fails(c) == Answers(c, "error", installed)

LosesRequest ==
    /\ lost < MaxLost /\ requests # << >>
    /\ requests' = Tail(requests)
    /\ lost' = lost + 1
    /\ UNCHANGED <<row, callVars, verdict, responses, installed, beatVars,
                   restarts>>

LosesResponse(tx) ==
    /\ lost < MaxLost /\ tx \in responses
    /\ responses' = responses \ {tx}
    /\ lost' = lost + 1
    /\ UNCHANGED <<row, callVars, verdict, requests, installed, beatVars,
                   restarts>>

\* The collector restarts: the row is stored, the rest is memory.
Restart ==
    /\ restarts < MaxRestarts
    /\ restarts' = restarts + 1
    /\ pc' = [c \in Calls |-> IF pc[c] = "new" THEN "new" ELSE "over"]
    /\ byTx' = {}
    /\ byAction' = [a \in Actions |-> NoCall]
    /\ buffered' = FALSE
    /\ worker' = "idle"
    /\ UNCHANGED <<row, action, answer, remoteVars, lost>>

CallStep(c) == TimesOut(c) \/ Resumes(c)
Worker == WorkerReads \/ WorkerWrites

Next ==
    \/ \E c \in Calls : Deploy(c) \/ Revoke(c)
    \/ \E c \in Calls, a \in Actions : Refused(c, a)
    \/ \E c \in Calls : CallStep(c)
    \/ \E tx \in Calls : OnBridgeResponse(tx) \/ LosesResponse(tx)
    \/ \E c \in Calls : Saves(c) \/ Removes(c) \/ FindsNothing(c) \/ Fails(c)
    \/ LosesRequest
    \/ Beat \/ Worker
    \/ Restart

\* A call's timeout fires or its response resumes it; a running probe beats
\* and the flush worker makes its pass.
Fairness ==
    /\ \A c \in Calls : WF_vars(CallStep(c))
    /\ WF_vars(Beat) /\ WF_vars(Worker)

Spec == Init /\ [][Next]_vars
FairSpec == Spec /\ Fairness

-----------------------------------------------------------------------------
(* What the tile promises. *)

\* Every variable keeps its type.
TypeOK ==
    /\ row \in Statuses
    /\ action \in [Calls -> Actions \cup {"none"}]
    /\ pc \in [Calls -> {"new", "waiting", "answered", "over"}]
    /\ verdict \in [Calls -> {"none", "ok", "absent", "error"}]
    /\ answer \in [Calls -> Calls \cup {NoCall}]
    /\ byTx \subseteq Calls
    /\ byAction \in [Actions -> Calls \cup {NoCall}]
    /\ requests \in Seq(Calls)
    /\ responses \subseteq Calls
    /\ installed \in BOOLEAN /\ buffered \in BOOLEAN
    /\ worker \in {"idle"} \cup Deployable
    /\ lost \in 0..MaxLost /\ restarts \in 0..MaxRestarts

\* _pending holds no future of a finished call, and whatever other calls pop
\* in their finally, a waiting call stays reachable by its transaction.
PendingSound ==
    /\ \A c \in Calls : pc[c] = "waiting" => c \in byTx
    /\ \A c \in byTx : pc[c] \in {"waiting", "answered"}
    /\ \A a \in Actions : byAction[a] # NoCall =>
         /\ pc[byAction[a]] \in {"waiting", "answered"}
         /\ action[byAction[a]] = a

\* on_bridge_response may give a call the response to another's request
\* through the "base:action" key, but only of the same action, and only once
\* that other call has given up: two live calls never swap their responses.
StrangersHaveGivenUp ==
    \A c \in Calls : pc[c] = "answered" /\ answer[c] # c =>
        /\ action[answer[c]] = action[c]
        /\ pc[answer[c]] = "over"

\* The table of pending requests serves each call, and strangers only where
\* nobody waits for the answer any more.
CallsApart == TypeOK /\ PendingSound /\ StrangersHaveGivenUp

\* A revoked tile comes back as deployed only when a deploy ends, or by the one
\* heartbeat whose write is under way, on_heartbeat having read the row before
\* the revoke was confirmed: it lets no heartbeat through while the row is revoked.
StaysRevoked ==
    [][row = "revoked" =>
         /\ row' = "deployed" =>
              \/ \E c \in Calls : action[c] = "save" /\ pc[c] # pc'[c]
              \/ worker \in {"error", "deploying"}
         /\ worker = "idle" => worker' = "idle"]_vars

\* Every deploy and every revoke ends, whatever is lost (_request's timeout).
CallsFinish ==
    \A c \in Calls : pc[c] \in {"waiting", "answered"} ~> pc[c] = "over"

\* A live heartbeat repairs what the handshake concluded: a probe that goes on
\* running does not leave its tile in "error" or "deploying" for ever.
HeartbeatHeals ==
    row \in {"error", "deploying"} /\ installed
        ~> row \in {"deployed", "revoked"} \/ ~installed

\* Whatever is lost, the calls end and the row comes to agree with the probe.
TileSettles == CallsFinish /\ HeartbeatHeals

\* tiles.py calls the responses transaction-correlated: a call then ends with
\* the response to its own request.  The "base:action" fallback of
\* on_bridge_response gives a late response to the next call instead.
AnswersAreOwn ==
    \A c \in Calls : pc[c] = "answered" => answer[c] = c

=============================================================================
