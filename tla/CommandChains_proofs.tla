------------------------- MODULE CommandChains_proofs -------------------------
(***************************************************************************)
(* Proofs about chain tracking and its storage pass, for any number of     *)
(* targets, commands, failures and restarts and any windows.               *)
(*                                                                         *)
(* The counts of EveryChainPlaced say little to a prover; the inductive    *)
(* invariant IInv says the same of sets (Apart), adds that what has left   *)
(* the tracker is finalized and expired (LeftClosed) and that the table    *)
(* and the ledger hold the chain's own values (Books).  The steps are      *)
(* proved in two halves: what a step makes of the chains (Evolution,       *)
(* ChainsStep) and where it leaves them (SettlingStep, PlacesStep).        *)
(***************************************************************************)
EXTENDS CommandChains, OrderLemmas, SequenceTheorems, TLAPS

\* A chain's record, as TypeOK spells it out.
Chain == [target : Targets, verb : Verbs, payload : Payloads \cup {None},
          age : 0 .. LongestWindow + Lateness, named : BOOLEAN,
          echoes : 0 .. MaxEchoes, finalized : BOOLEAN, redundant : BOOLEAN]

\* No chain is in two of the five places, and each is in one.
Apart ==
    /\ Opened = Queued \cup settled \cup InHand \cup Stored \cup lost
    /\ Queued \cap (settled \cup InHand \cup Stored \cup lost) = {}
    /\ settled \cap (InHand \cup Stored \cup lost) = {}
    /\ InHand \cap (Stored \cup lost) = {}
    /\ Stored \cap lost = {}

\* What the worker has drained or stored is finalized and past its window.
LeftClosed == \A c \in Left : chains[c].finalized /\ Expired(c)

\* The table and the ledger hold each chain's own echoes and client, and the
\* worker prices only what it has stored.
Books ==
    /\ \A c \in Stored : rows[c] = Row(c)
    /\ \A c \in Opened : priced[c] # None => c \in Stored /\ priced[c] = Row(c)
    /\ pass = "ledger" => batch \subseteq Stored

\* The inductive invariant.
IInv == TypeOK /\ Apart /\ OnePosition /\ LeftClosed /\ Books

\* The chains _expire leaves in the queues.
StillQueued ==
    {c \in Opened : \E t \in Targets :
        \E i \in DOMAIN Kept(open[t]) : Kept(open[t])[i] = c}

\* _expire cuts a queue in two: what it pops has expired, and what it keeps
\* is the rest in its order.
LEMMA QueueSplit ==
    ASSUME NEW S, NEW queue \in Seq(S)
    PROVE  /\ First(queue) \in 1 .. Len(queue) + 1
           /\ \A i \in 1 .. First(queue) - 1 :
                i \in DOMAIN queue /\ Expired(queue[i])
           /\ Kept(queue) \in Seq(S)
           /\ DOMAIN Kept(queue) = 1 .. Len(queue) - First(queue) + 1
           /\ \A j \in DOMAIN Kept(queue) :
                /\ First(queue) + j - 1 \in DOMAIN queue
                /\ Kept(queue)[j] = queue[First(queue) + j - 1]
<1> DEFINE first == First(queue)
<1>1. Len(queue) \in Nat /\ DOMAIN queue = 1 .. Len(queue)
  BY LenProperties
<1>2. /\ first \in 1 .. Len(queue) + 1
      /\ \A i \in 1 .. first - 1 : i \in DOMAIN queue /\ Expired(queue[i])
  <2>1. CASE Unexpired(queue) = {}
    BY <1>1, <2>1 DEF First, Unexpired
  <2>2. CASE Unexpired(queue) # {}
    <3>1. Unexpired(queue) \in SUBSET Nat
      BY <1>1 DEF Unexpired
    <3>2. /\ Min(Unexpired(queue)) \in Unexpired(queue)
          /\ \A y \in Unexpired(queue) : Min(Unexpired(queue)) <= y
      BY <2>2, <3>1, MinOf
    <3>3. first = Min(Unexpired(queue))
      BY <2>2 DEF First
    <3>4. first \in 1 .. Len(queue)
      BY <1>1, <3>2, <3>3 DEF Unexpired
    <3>5. \A i \in 1 .. first - 1 : i \in DOMAIN queue /\ i \notin Unexpired(queue)
      BY <1>1, <3>2, <3>3, <3>4
    <3>6. QED
      BY <1>1, <3>4, <3>5 DEF Unexpired
  <2>3. QED
    BY <2>1, <2>2
<1> HIDE DEF first
<1>3. Kept(queue) = SubSeq(queue, first, Len(queue))
  BY DEF Kept, first
<1>4. \A i \in first .. Len(queue) : queue[i] \in S
  BY <1>1, <1>2, ElementOfSeq
<1>5. /\ Kept(queue) \in Seq(S)
      /\ Len(Kept(queue)) = Len(queue) - first + 1
      /\ \A j \in 1 .. Len(queue) - first + 1 :
           Kept(queue)[j] = queue[first + j - 1]
  BY <1>1, <1>2, <1>3, <1>4, SubSeqProperties
<1>6. DOMAIN Kept(queue) = 1 .. Len(queue) - first + 1
  BY <1>5, LenProperties
<1>7. \A j \in DOMAIN Kept(queue) : first + j - 1 \in DOMAIN queue
  BY <1>1, <1>2, <1>6
<1>8. QED
  BY <1>2, <1>5, <1>6, <1>7 DEF first

\* _expire over all targets: each queued chain is popped once or kept at one
\* place, and only expired chains are popped.
LEMMA ExpirySplit ==
    ASSUME TypeOK, OnePosition
    PROVE  /\ Queued = StillQueued \cup PoppedNow
           /\ StillQueued \cap PoppedNow = {}
           /\ PoppedNow \subseteq Opened
           /\ \A c \in PoppedNow : Expired(c)
           /\ \A t \in Targets : Kept(open[t]) \in Seq(Opened)
           /\ KeptClaims \in [Devices -> Seq(Opened)]
           /\ \A t, u \in Targets :
                \A i \in DOMAIN Kept(open[t]), j \in DOMAIN Kept(open[u]) :
                  Kept(open[t])[i] = Kept(open[u])[j] => <<t, i>> = <<u, j>>
<1>1. \A t \in Targets : open[t] \in Seq(Opened)
  BY DEF TypeOK
<1>2. \A d \in Devices : Kept(claims[d]) \in Seq(Opened)
  <2>1. \A d \in Devices : claims[d] \in Seq(Opened)
    BY DEF TypeOK
  <2>2. QED
    BY <2>1, QueueSplit
<1>3. KeptClaims \in [Devices -> Seq(Opened)]
  BY <1>2 DEF KeptClaims
<1> DEFINE f(t) == First(open[t])
<1>4. \A t \in Targets :
        /\ Len(open[t]) \in Nat /\ DOMAIN open[t] = 1 .. Len(open[t])
        /\ f(t) \in 1 .. Len(open[t]) + 1
        /\ \A i \in 1 .. f(t) - 1 : i \in DOMAIN open[t] /\ Expired(open[t][i])
        /\ Kept(open[t]) \in Seq(Opened)
        /\ DOMAIN Kept(open[t]) = 1 .. Len(open[t]) - f(t) + 1
        /\ \A j \in DOMAIN Kept(open[t]) :
             /\ f(t) + j - 1 \in DOMAIN open[t]
             /\ Kept(open[t])[j] = open[t][f(t) + j - 1]
  <2> TAKE t \in Targets
  <2>1. open[t] \in Seq(Opened)
    BY <1>1
  <2>2. Len(open[t]) \in Nat /\ DOMAIN open[t] = 1 .. Len(open[t])
    BY <2>1, LenProperties
  <2> QED
    BY <2>1, <2>2, QueueSplit
<1>5. \A t \in Targets : \A i \in DOMAIN open[t] : open[t][i] \in Opened
  BY <1>1, <1>4, ElementOfSeq
<1>6. \A c : c \in PoppedNow <=>
        \E t \in Targets : \E i \in 1 .. f(t) - 1 : c = open[t][i]
  BY DEF PoppedNow, Popped
<1>7. \A c : c \in StillQueued <=>
        \E t \in Targets : \E i \in f(t) .. Len(open[t]) : c = open[t][i]
  <2>1. ASSUME NEW c \in StillQueued
        PROVE  \E t \in Targets : \E i \in f(t) .. Len(open[t]) : c = open[t][i]
    <3>a. PICK t \in Targets :
            \E j \in DOMAIN Kept(open[t]) : Kept(open[t])[j] = c
      BY DEF StillQueued
    <3>1. PICK j \in DOMAIN Kept(open[t]) : Kept(open[t])[j] = c
      BY <3>a
    <3>2. f(t) + j - 1 \in f(t) .. Len(open[t]) /\ c = open[t][f(t) + j - 1]
      BY <1>4, <3>1
    <3>3. QED
      BY <3>2
  <2>2. ASSUME NEW t \in Targets, NEW i \in f(t) .. Len(open[t])
        PROVE  open[t][i] \in StillQueued
    <3> DEFINE j == i - f(t) + 1
    <3>1. j \in DOMAIN Kept(open[t]) /\ f(t) + j - 1 = i
      BY <1>4
    <3>2. Kept(open[t])[j] = open[t][i]
      BY <1>4, <3>1
    <3>3. open[t][i] \in Opened
      BY <1>4, <1>5
    <3>4. QED
      BY <3>1, <3>2, <3>3 DEF StillQueued
  <2>3. QED
    BY <2>1, <2>2
<1>8. \A c : c \in Queued <=>
        \E t \in Targets : \E i \in 1 .. Len(open[t]) : c = open[t][i]
  BY <1>4, <1>5 DEF Queued
<1>9. \A t \in Targets : \A i : i \in 1 .. Len(open[t]) <=>
        i \in 1 .. f(t) - 1 \/ i \in f(t) .. Len(open[t])
  BY <1>4
<1>10. Queued = StillQueued \cup PoppedNow
  <2> HIDE DEF f
  <2> QED
    BY <1>6, <1>7, <1>8, <1>9
<1>11. StillQueued \cap PoppedNow = {}
  <2> SUFFICES ASSUME NEW c \in StillQueued, c \in PoppedNow PROVE FALSE
    OBVIOUS
  <2>a. PICK t \in Targets : \E i \in f(t) .. Len(open[t]) : c = open[t][i]
    BY <1>7
  <2>1. PICK i \in f(t) .. Len(open[t]) : c = open[t][i]
    BY <2>a
  <2>b. PICK u \in Targets : \E j \in 1 .. f(u) - 1 : c = open[u][j]
    BY <1>6
  <2>2. PICK j \in 1 .. f(u) - 1 : c = open[u][j]
    BY <2>b
  <2>3. i \in DOMAIN open[t] /\ j \in DOMAIN open[u]
    BY <1>4
  <2>4. open[t][i] = open[u][j]
    BY <2>1, <2>2
  <2>5. <<t, i>> = <<u, j>>
    BY <2>3, <2>4, Zenon DEF OnePosition
  <2>6. QED
    BY <2>5, <1>4
<1>12. PoppedNow \subseteq Opened /\ \A c \in PoppedNow : Expired(c)
  BY <1>4, <1>5, <1>6
<1>13. ASSUME NEW t \in Targets, NEW u \in Targets,
              NEW i \in DOMAIN Kept(open[t]), NEW j \in DOMAIN Kept(open[u]),
              Kept(open[t])[i] = Kept(open[u])[j]
       PROVE  <<t, i>> = <<u, j>>
  <2>1. open[t][f(t) + i - 1] = open[u][f(u) + j - 1]
    BY <1>4, <1>13
  <2>2. <<t, f(t) + i - 1>> = <<u, f(u) + j - 1>>
    <3>1. f(t) + i - 1 \in DOMAIN open[t] /\ f(u) + j - 1 \in DOMAIN open[u]
      BY <1>4
    <3> HIDE DEF f
    <3>2. QED
      BY <2>1, <3>1 DEF OnePosition
  <2>3. t = u /\ f(t) + i - 1 = f(u) + j - 1
    BY <2>2
  <2>4. i \in Int /\ j \in Int /\ f(t) \in Int
    BY <1>4
  <2>5. QED
    BY <2>3, <2>4
<1>14. QED
  BY <1>3, <1>4, <1>10, <1>11, <1>12, <1>13

\* What a step may make of the chains there are: they get no younger, stay
\* finalized, and those that have left the tracker keep what is stored of them.
Evolved(after) ==
    /\ after \in Seq(Chain) /\ DOMAIN after = Opened
    /\ \A c \in Opened :
         /\ after[c].verb = chains[c].verb
         /\ after[c].age >= chains[c].age
         /\ chains[c].finalized => after[c].finalized
         /\ c \in Left => /\ after[c].echoes = chains[c].echoes
                          /\ after[c].named = chains[c].named
                          /\ after[c].redundant = chains[c].redundant

\* A function over a sequence's indices is a sequence of the same length.
LEMMA SameShape ==
    ASSUME NEW S, NEW seq \in Seq(S), NEW T, NEW f \in [DOMAIN seq -> T]
    PROVE  f \in Seq(T) /\ Len(f) = Len(seq) /\ DOMAIN f = DOMAIN seq
OBVIOUS

\* A chain's fields have their types.
LEMMA ChainOf ==
    ASSUME TypeOK, NEW c \in Opened
    PROVE  /\ chains[c] \in Chain
           /\ chains[c].age \in 0 .. LongestWindow + Lateness
           /\ chains[c].verb \in Verbs
           /\ chains[c].echoes \in 0 .. MaxEchoes
           /\ chains[c].named \in BOOLEAN /\ chains[c].redundant \in BOOLEAN
           /\ chains[c].finalized \in BOOLEAN
<1>1. chains \in Seq(Chain)
  BY DEF TypeOK, Chain
<1>2. chains[c] \in Chain
  BY <1>1 DEF Opened
<1>3. QED
  BY <1>2 DEF Chain

\* _finalize sets the flag of the chains it is given and changes nothing else.
LEMMA FinalizeFacts ==
    ASSUME TypeOK, NEW ids
    PROVE  /\ Evolved(Finalize(ids))
           /\ Len(Finalize(ids)) = Len(chains)
           /\ \A c \in Opened :
                /\ Finalize(ids)[c].finalized <=> chains[c].finalized \/ c \in ids
                /\ Finalize(ids)[c].echoes = chains[c].echoes
<1>1. chains \in Seq(Chain)
  BY DEF TypeOK, Chain
<1>2. ASSUME NEW c \in Opened
      PROVE  [chains[c] EXCEPT !.finalized = @ \/ c \in ids] \in Chain
  <2>1. chains[c] \in Chain
    BY ChainOf
  <2>2. (chains[c].finalized \/ c \in ids) \in BOOLEAN
    OBVIOUS
  <2>3. QED
    BY <2>1, <2>2 DEF Chain
<1>3. Finalize(ids) \in [Opened -> Chain]
  BY <1>2 DEF Finalize
<1>4. /\ Finalize(ids) \in Seq(Chain) /\ DOMAIN Finalize(ids) = Opened
      /\ Len(Finalize(ids)) = Len(chains)
  BY <1>1, <1>3, SameShape DEF Opened
<1>5. ASSUME NEW c \in Opened
      PROVE  /\ Finalize(ids)[c].verb = chains[c].verb
             /\ Finalize(ids)[c].age = chains[c].age
             /\ Finalize(ids)[c].finalized <=> chains[c].finalized \/ c \in ids
             /\ Finalize(ids)[c].echoes = chains[c].echoes
             /\ Finalize(ids)[c].named = chains[c].named
             /\ Finalize(ids)[c].redundant = chains[c].redundant
  <2>1. chains[c] \in Chain
    BY ChainOf
  <2>2. Finalize(ids)[c] = [chains[c] EXCEPT !.finalized = @ \/ c \in ids]
    BY DEF Finalize
  <2>3. QED
    BY <2>1, <2>2 DEF Chain
<1>6. \A c \in Opened : chains[c].age >= chains[c].age
  <2> TAKE c \in Opened
  <2>1. chains[c].age \in Int
    BY ChainOf
  <2> QED
    BY <2>1
<1>7. QED
  BY <1>4, <1>5, <1>6 DEF Evolved

\* No window is longer than the longest.
LEMMA WindowFacts ==
    /\ LongestWindow \in Nat
    /\ \A verb \in Verbs : Window(verb) \in Nat /\ Window(verb) <= LongestWindow
BY WindowsAssumption, MinOfTwo DEF LongestWindow, Window, Verbs

\* A chain in a queue is neither drained, nor in the worker's hands, nor stored.
LEMMA QueuedHaveNotLeft == IInv => Queued \cap Left = {}
<1> SUFFICES ASSUME IInv PROVE Queued \cap Left = {}
  OBVIOUS
<1>1. pass = "idle" => batch = {}
  BY DEF IInv, TypeOK
<1>2. batch \subseteq InHand \cup Stored
  BY <1>1 DEF IInv, TypeOK, Books, InHand
<1>3. QED
  BY <1>2 DEF IInv, Apart, Left

\* A name given to queued chains leaves those the worker has drained alone.
LEMMA NameFacts ==
    ASSUME IInv, NEW ids \in SUBSET Queued, Name(ids)
    PROVE  Evolved(chains')
<1>0. TypeOK
  BY DEF IInv
<1>1. chains \in Seq(Chain)
  BY <1>0 DEF TypeOK, Chain
<1>2. ASSUME NEW c \in Opened
      PROVE  [chains[c] EXCEPT !.named = @ \/ c \in ids] \in Chain
  <2>1. chains[c] \in Chain
    BY <1>0, ChainOf
  <2>2. (chains[c].named \/ c \in ids) \in BOOLEAN
    OBVIOUS
  <2>3. QED
    BY <2>1, <2>2 DEF Chain
<1>3. chains' = [c \in Opened |-> [chains[c] EXCEPT !.named = @ \/ c \in ids]]
  BY DEF Name
<1>4. chains' \in [Opened -> Chain]
  BY <1>2, <1>3
<1>5. chains' \in Seq(Chain) /\ DOMAIN chains' = Opened
  BY <1>1, <1>4, SameShape DEF Opened
<1>6. ASSUME NEW c \in Opened
      PROVE  /\ chains'[c].verb = chains[c].verb
             /\ chains'[c].age >= chains[c].age
             /\ chains[c].finalized => chains'[c].finalized
             /\ chains'[c].echoes = chains[c].echoes
             /\ chains'[c].redundant = chains[c].redundant
             /\ c \notin ids => chains'[c].named = chains[c].named
  <2>1. chains[c] \in Chain /\ chains[c].age \in Int /\ chains[c].named \in BOOLEAN
    BY <1>0, ChainOf
  <2>2. chains'[c] = [chains[c] EXCEPT !.named = @ \/ c \in ids]
    BY <1>3
  <2>3. QED
    BY <2>1, <2>2 DEF Chain
<1>7. \A c \in Opened : c \in Left => c \notin ids
  BY QueuedHaveNotLeft
<1>8. QED
  BY <1>5, <1>6, <1>7 DEF Evolved

\* attribute_client, attribute_entity_call and attribute_cause name only
\* chains that are still in a queue.
LEMMA NamesReachQueued ==
    ASSUME IInv,
           \/ \E t \in Targets, payload \in Payloads : NameByPayload(t, payload)
           \/ \E t \in Targets : NameNewest(t) \/ NameEntityCall(t)
           \/ NameCause
    PROVE  \E ids \in SUBSET Queued : Name(ids)
<1>1. ASSUME NEW t \in Targets, NEW i \in DOMAIN open[t]
      PROVE  open[t][i] \in Queued
  <2>1. open[t] \in Seq(Opened)
    BY DEF IInv, TypeOK
  <2>2. open[t][i] \in Opened
    BY <2>1
  <2>3. QED
    BY <2>2 DEF Queued
<1>2. ASSUME NEW t \in Targets
      PROVE  /\ Unnamed(t) \in SUBSET DOMAIN open[t]
             /\ Unnamed(t) \in SUBSET (0 .. Len(open[t]))
             /\ Len(open[t]) \in Nat
  <2>1. open[t] \in Seq(Opened)
    BY DEF IInv, TypeOK
  <2>2. DOMAIN open[t] = 1 .. Len(open[t]) /\ Len(open[t]) \in Nat
    BY <2>1, LenProperties
  <2>3. QED
    BY <2>2 DEF Unnamed
<1>3. ASSUME NEW t \in Targets, NEW payload \in Payloads,
             NameByPayload(t, payload)
      PROVE  \E ids \in SUBSET Queued : Name(ids)
  <2>1. OfPayload(t, payload) \in SUBSET Unnamed(t)
    BY DEF OfPayload
  <2>2. OfPayload(t, payload) \in SUBSET Nat /\ OfPayload(t, payload) # {}
    BY <1>2, <1>3, <2>1 DEF NameByPayload
  <2>3. Min(OfPayload(t, payload)) \in DOMAIN open[t]
    BY <1>2, <2>1, <2>2, MinOf
  <2>4. {open[t][Min(OfPayload(t, payload))]} \in SUBSET Queued
    BY <1>1, <2>3
  <2>5. QED
    BY <1>3, <2>4 DEF NameByPayload
<1>4. ASSUME NEW t \in Targets, NameNewest(t)
      PROVE  \E ids \in SUBSET Queued : Name(ids)
  <2>1. Max(Unnamed(t)) \in DOMAIN open[t]
    BY <1>2, <1>4, MaxOf DEF NameNewest
  <2>2. {open[t][Max(Unnamed(t))]} \in SUBSET Queued
    BY <1>1, <2>1
  <2>3. QED
    BY <1>4, <2>2 DEF NameNewest
<1>5. ASSUME NEW t \in Targets, NameEntityCall(t)
      PROVE  \E ids \in SUBSET Queued : Name(ids)
  <2>1. PICK i \in Sets(t) : Name({open[t][i]})
    BY <1>5 DEF NameEntityCall
  <2>2. i \in DOMAIN open[t]
    BY <1>2 DEF Sets
  <2>3. {open[t][i]} \in SUBSET Queued
    BY <1>1, <2>2
  <2>4. QED
    BY <2>1, <2>3
<1>6. CASE NameCause
  <2>1. UNION {{open[t][i] : i \in Unnamed(t)} : t \in Targets} \subseteq Queued
    BY <1>1, <1>2
  <2>2. QED
    BY <1>6, <2>1 DEF NameCause
<1>7. QED
  BY <1>3, <1>4, <1>5, <1>6

\* Time only makes chains older, up to the cap.
LEMMA TickFacts == ASSUME TypeOK, Tick PROVE Evolved(chains')
<1>1. chains \in Seq(Chain)
  BY DEF TypeOK, Chain
<1> DEFINE oldest == LongestWindow + Lateness
           older(c) == Older(chains[c].age, oldest)
<1>2. chains' = [c \in Opened |-> [chains[c] EXCEPT !.age = older(c)]]
  BY DEF Tick
<1>3. ASSUME NEW c \in Opened
      PROVE  older(c) \in 0 .. oldest /\ older(c) >= chains[c].age
  <2>1. chains[c].age \in 0 .. oldest /\ oldest \in Nat
    BY ChainOf, WindowFacts, WindowsAssumption
  <2>2. older(c) = IF chains[c].age + 1 <= oldest THEN chains[c].age + 1 ELSE oldest
    BY <2>1, MinOfTwo DEF Older
  <2>3. QED
    BY <2>1, <2>2
<1> HIDE DEF older
<1>4. ASSUME NEW c \in Opened
      PROVE  /\ chains'[c] \in Chain
             /\ chains'[c].age = older(c)
             /\ chains'[c].verb = chains[c].verb
             /\ chains'[c].finalized = chains[c].finalized
             /\ chains'[c].echoes = chains[c].echoes
             /\ chains'[c].named = chains[c].named
             /\ chains'[c].redundant = chains[c].redundant
  <2>1. chains[c] \in Chain
    BY ChainOf
  <2>2. chains'[c] = [chains[c] EXCEPT !.age = older(c)]
    BY <1>2
  <2>3. QED
    BY <1>3, <2>1, <2>2 DEF Chain
<1>5. chains' \in Seq(Chain) /\ DOMAIN chains' = Opened
  <2>1. chains' \in [Opened -> Chain]
    BY <1>2, <1>4
  <2>2. QED
    BY <1>1, <2>1, SameShape DEF Opened
<1>6. QED
  BY <1>3, <1>4, <1>5 DEF Evolved

\* The chain on_state gives an echo to is not finalized: a claim queue may
\* hold finalized chains, and they are passed over.
LEMMA ClaimantOpen ==
    ASSUME TypeOK, NEW t \in Targets, Provoked(t)
    PROVE  Claimant(t) \in Opened /\ ~chains[Claimant(t)].finalized
<1>1. ASSUME NEW queue \in Seq(Opened), Echoable(queue) # {}
      PROVE  Newest(queue) \in Opened /\ ~chains[Newest(queue)].finalized
  <2>1. Len(queue) \in Nat /\ DOMAIN queue = 1 .. Len(queue)
    BY LenProperties
  <2>2. Echoable(queue) \in SUBSET (0 .. Len(queue))
    BY <2>1 DEF Echoable
  <2>3. Max(Echoable(queue)) \in Echoable(queue)
    BY <1>1, <2>1, <2>2, MaxOf
  <2>4. QED
    BY <2>3 DEF Newest, Echoable
<1>2. Kept(open[t]) \in Seq(Opened)
  <2>1. open[t] \in Seq(Opened)
    BY DEF TypeOK
  <2>2. QED
    BY <2>1, QueueSplit
<1>3. ClaimsOf(t) \in Seq(Opened)
  <2>1. CASE t \in Devices
    <3>1. claims[t] \in Seq(Opened)
      BY <2>1 DEF TypeOK
    <3>2. QED
      BY <2>1, <3>1, QueueSplit DEF ClaimsOf
  <2>2. CASE t \notin Devices
    BY <2>2, EmptySeq DEF ClaimsOf
  <2>3. QED
    BY <2>1, <2>2
<1>4. QED
  BY <1>1, <1>2, <1>3 DEF Provoked, Claimant


\* An echo changes the count of a chain that has not been drained.
LEMMA EchoFacts ==
    ASSUME IInv, NEW t \in Targets, Echo(t)
    PROVE  Evolved(chains')
<1> DEFINE c0 == Claimant(t)
           base == Finalize(PoppedNow)
           counted == Min({base[c0].echoes + 1, MaxEchoes})
<1>0. TypeOK
  BY DEF IInv
<1>1. c0 \in Opened /\ ~chains[c0].finalized
  BY <1>0, ClaimantOpen DEF Echo
<1>2. Evolved(base) /\ base[c0].echoes = chains[c0].echoes
  BY <1>0, <1>1, FinalizeFacts
<1>3. counted \in 0 .. MaxEchoes
  <2>1. chains[c0].echoes \in 0 .. MaxEchoes
    BY <1>0, <1>1, ChainOf
  <2>2. base[c0].echoes + 1 \in Nat /\ MaxEchoes \in Nat
    BY <1>2, <2>1, BoundsAssumption
  <2>3. counted = IF base[c0].echoes + 1 <= MaxEchoes THEN base[c0].echoes + 1
                  ELSE MaxEchoes
    BY <2>2, MinOfTwo
  <2>4. QED
    BY <2>2, <2>3
<1>4. chains' = [base EXCEPT ![c0].echoes = counted]
  BY DEF Echo
<1>5. c0 \notin Left
  BY <1>1 DEF IInv, LeftClosed
<1> HIDE DEF c0, base, counted
<1>6. base \in Seq(Chain) /\ DOMAIN base = Opened
  BY <1>2 DEF Evolved
<1>7. base \in [Opened -> Chain]
  BY <1>6
<1>8. chains' = [base EXCEPT ![c0] = [base[c0] EXCEPT !.echoes = counted]]
  BY <1>4
<1>9. base[c0] \in Chain
  BY <1>1, <1>7
<1> DEFINE grown == [base[c0] EXCEPT !.echoes = counted]
<1>10. /\ grown \in Chain
       /\ grown.verb = base[c0].verb
       /\ grown.age = base[c0].age
       /\ grown.finalized = base[c0].finalized
  BY <1>3, <1>9 DEF Chain
<1> HIDE DEF grown
<1>11. /\ chains' \in [Opened -> Chain]
       /\ chains'[c0] = grown
       /\ \A c \in Opened \ {c0} : chains'[c] = base[c]
  BY <1>1, <1>7, <1>8, <1>10 DEF grown
<1>12. chains' \in Seq(Chain) /\ DOMAIN chains' = Opened
  BY <1>6, <1>11, SameShape
<1>13. ASSUME NEW c \in Opened
       PROVE  /\ chains'[c].verb = chains[c].verb
              /\ chains'[c].age >= chains[c].age
              /\ chains[c].finalized => chains'[c].finalized
              /\ c \in Left => /\ chains'[c].echoes = chains[c].echoes
                               /\ chains'[c].named = chains[c].named
                               /\ chains'[c].redundant = chains[c].redundant
  <2>1. CASE c = c0
    BY <1>2, <1>5, <1>10, <1>11, <2>1 DEF Evolved
  <2>2. CASE c # c0
    BY <1>2, <1>11, <2>2 DEF Evolved
  <2>3. QED
    BY <2>1, <2>2
<1>14. QED
  BY <1>12, <1>13 DEF Evolved

\* A command opens one chain, of age 0, after _expire has finalized the old.
LEMMA CommandFacts ==
    ASSUME IInv, NEW t \in Targets, NEW verb \in Verbs,
           NEW payload \in Payloads \cup {None}, NEW named \in BOOLEAN,
           NEW doubt, Command(t, verb, payload, named, doubt)
    PROVE  \E chain \in Chain :
             /\ chain.age = 0
             /\ chains' = Append(Finalize(PoppedNow), chain)
<1> DEFINE redundant == Redundant(t, verb, payload, doubt)
           chain == [target |-> t, verb |-> verb, payload |-> payload,
                     age |-> 0, named |-> named, echoes |-> 0,
                     finalized |-> FALSE, redundant |-> redundant]
<1>1. redundant \in BOOLEAN
  BY DEF Redundant
<1>2. 0 \in 0 .. LongestWindow + Lateness /\ 0 \in 0 .. MaxEchoes
  BY WindowFacts, WindowsAssumption, BoundsAssumption
<1>3. chains' = Append(Finalize(PoppedNow), chain)
  BY DEF Command
<1> HIDE DEF redundant
<1>4. chain \in Chain /\ chain.age = 0
  BY <1>1, <1>2 DEF Chain
<1> HIDE DEF chain
<1>5. QED
  BY <1>3, <1>4

\* Every step only lets the chains evolve, and opens at most one.
LEMMA Evolution ==
    ASSUME IInv, [Next]_vars
    PROVE  \/ Evolved(chains')
           \/ \E after : \E chain \in Chain :
                /\ Evolved(after) /\ chains' = Append(after, chain)
                /\ Len(chains) + 1 \in Ids
<1>0. TypeOK
  BY DEF IInv
<1>1. ASSUME NEW t \in Targets, NEW verb \in Verbs,
             NEW payload \in Payloads \cup {None}, NEW named \in BOOLEAN,
             NEW doubt, Command(t, verb, payload, named, doubt)
      PROVE  \E after : \E chain \in Chain :
               /\ Evolved(after) /\ chains' = Append(after, chain)
               /\ Len(chains) + 1 \in Ids
  <2>1. Evolved(Finalize(PoppedNow))
    BY <1>0, FinalizeFacts
  <2>2. PICK chain \in Chain : chains' = Append(Finalize(PoppedNow), chain)
    BY <1>1, CommandFacts
  <2>3. Len(chains) + 1 \in Ids
    BY <1>0, <1>1, BoundsAssumption DEF TypeOK, Command, Ids
  <2>4. QED
    BY <2>1, <2>2, <2>3
<1>2. Evolved(chains)
  <2>1. chains \in Seq(Chain) /\ DOMAIN chains = Opened
    BY <1>0 DEF TypeOK, Chain, Opened
  <2>2. \A c \in Opened : chains[c].age >= chains[c].age
    <3> TAKE c \in Opened
    <3>1. chains[c].age \in Int
      BY <1>0, ChainOf
    <3> QED
      BY <3>1
  <2>3. QED
    BY <2>1, <2>2 DEF Evolved
<1>3. ASSUME chains' = Finalize(PoppedNow) PROVE Evolved(chains')
  BY <1>0, <1>3, FinalizeFacts
<1>4. CASE \E t \in Targets, payload \in Payloads, named \in BOOLEAN,
             doubt \in Doubts : Command(t, "set", payload, named, doubt)
  BY <1>1, <1>4 DEF Verbs
<1>5. CASE \E t \in Targets, named \in BOOLEAN : Command(t, "get", None, named, 0)
  BY <1>1, <1>5 DEF Verbs
<1>6. CASE \E t \in Targets : Echo(t) \/ OwnReport(t)
  BY <1>3, <1>6, EchoFacts DEF OwnReport
<1>7. CASE \/ \E t \in Targets, payload \in Payloads : NameByPayload(t, payload)
           \/ \E t \in Targets : NameNewest(t) \/ NameEntityCall(t)
           \/ NameCause
  BY <1>7, NamesReachQueued, NameFacts
<1>8. CASE Drain
  BY <1>3, <1>8 DEF Drain
<1>9. CASE StoreRows \/ Price \/ TransactionFails \/ Restart \/ UNCHANGED vars
  <2>1. chains' = chains
    BY <1>9 DEF StoreRows, Price, TransactionFails, Restart, vars, trackerVars
  <2>2. QED
    BY <1>2, <2>1
<1>10. CASE Tick
  BY <1>0, <1>10, TickFacts
<1>11. QED
  BY <1>4, <1>5, <1>6, <1>7, <1>8, <1>9, <1>10 DEF Next, Worker

\* The same by chain: no chain disappears, and what has expired, is finalized
\* or has left the tracker stays so.
LEMMA ChainsStep ==
    ASSUME IInv, [Next]_vars
    PROVE  /\ chains' \in Seq(Chain)
           /\ Opened \subseteq Opened' /\ Opened' \subseteq Ids
           /\ Opened' \subseteq Opened \cup {Len(chains) + 1}
           /\ \A c \in Opened :
                /\ Expired(c) => Expired(c)'
                /\ chains[c].finalized => chains'[c].finalized
                /\ c \in Left => Row(c)' = Row(c)
<1>0. TypeOK /\ Opened \subseteq Ids /\ DOMAIN chains = Opened
  BY DEF IInv, TypeOK, Opened
<1>1. ASSUME NEW after, Evolved(after), NEW c \in Opened,
             chains'[c] = after[c]
      PROVE  /\ Expired(c) => Expired(c)'
             /\ chains[c].finalized => chains'[c].finalized
             /\ c \in Left => Row(c)' = Row(c)
  <2>1. /\ chains[c].age \in Nat /\ chains[c].verb \in Verbs
        /\ Window(chains[c].verb) + Lateness \in Nat
    BY <1>0, ChainOf, WindowFacts, WindowsAssumption
  <2>2. after[c] \in Chain
    BY <1>1 DEF Evolved
  <2>3. after[c].age \in Int
    BY <2>2 DEF Chain
  <2>4. /\ chains'[c].verb = chains[c].verb
        /\ chains'[c].age \in Int /\ chains'[c].age >= chains[c].age
    BY <1>1, <2>3 DEF Evolved
  <2>5. Expired(c) => Expired(c)'
    BY <2>1, <2>4 DEF Expired, Window
  <2>6. c \in Left => Row(c)' = Row(c)
    BY <1>1 DEF Evolved, Row
  <2>7. QED
    BY <1>1, <2>5, <2>6 DEF Evolved
<1>2. CASE Evolved(chains')
  <2>1. chains' \in Seq(Chain) /\ Opened' = Opened
    BY <1>2 DEF Evolved, Opened
  <2>2. QED
    BY <1>0, <1>1, <1>2, <2>1
<1>3. CASE \E after : \E chain \in Chain :
              /\ Evolved(after) /\ chains' = Append(after, chain)
              /\ Len(chains) + 1 \in Ids
  <2>1. PICK after : \E chain \in Chain :
              /\ Evolved(after) /\ chains' = Append(after, chain)
              /\ Len(chains) + 1 \in Ids
    BY <1>3
  <2>2. PICK chain \in Chain :
              /\ Evolved(after) /\ chains' = Append(after, chain)
              /\ Len(chains) + 1 \in Ids
    BY <2>1
  <2>3. after \in Seq(Chain) /\ DOMAIN after = Opened
    BY <2>2 DEF Evolved
  <2>4. chains \in Seq(Chain) /\ DOMAIN chains = 1 .. Len(chains)
        /\ Len(chains) \in Nat
    BY <1>0, LenProperties DEF TypeOK, Chain
  <2>5. Len(after) = Len(chains)
    BY <1>0, <2>3, <2>4, LenProperties
  <2>6. /\ chains' \in Seq(Chain)
        /\ Len(chains') = Len(chains) + 1
        /\ \A i \in 1 .. Len(chains) : chains'[i] = after[i]
    BY <2>2, <2>3, <2>5, AppendProperties
  <2>7. DOMAIN chains' = 1 .. Len(chains) + 1
    BY <2>6, LenProperties
  <2>8. /\ Opened \subseteq Opened' /\ Opened' \subseteq Ids
        /\ Opened' \subseteq Opened \cup {Len(chains) + 1}
    BY <1>0, <2>2, <2>4, <2>7 DEF Opened
  <2>9. \A c \in Opened : chains'[c] = after[c]
    BY <1>0, <2>4, <2>6
  <2>10. QED
    BY <1>1, <2>2, <2>6, <2>8, <2>9
<1>4. QED
  BY <1>2, <1>3, Evolution

\* The remembered payloads keep their type.
LEMMA RecentStep ==
    ASSUME TypeOK, [Next]_vars
    PROVE  \A t \in Targets :
             recent'[t] # None =>
               recent'[t] \in [payload : Payloads, age : 0 .. ForgetAfter + 1]
<1> DEFINE Typed(r) ==
             r # None => r \in [payload : Payloads, age : 0 .. ForgetAfter + 1]
<1>1. \A t \in Targets : Typed(recent[t]) /\ Typed(Remembered(t))
  BY DEF TypeOK, Remembered
<1>2. ASSUME NEW t \in Targets, NEW verb \in Verbs, NEW payload,
             verb = "set" => payload \in Payloads, NEW named, NEW doubt,
             Command(t, verb, payload, named, doubt), NEW u \in Targets
      PROVE  Typed(recent'[u])
  <2>1. recent'[u] = IF u = t /\ verb = "set" THEN [payload |-> payload, age |-> 0]
                     ELSE Remembered(u)
    BY <1>2 DEF Command
  <2>2. CASE u = t /\ verb = "set"
    BY <1>2, <2>1, <2>2, WindowsAssumption
  <2>3. CASE ~(u = t /\ verb = "set")
    BY <1>1, <2>1, <2>3
  <2>4. QED
    BY <2>2, <2>3
<1>3. CASE \E t \in Targets, payload \in Payloads, named \in BOOLEAN,
             doubt \in Doubts : Command(t, "set", payload, named, doubt)
  BY <1>2, <1>3 DEF Verbs
<1>4. CASE \E t \in Targets, named \in BOOLEAN : Command(t, "get", None, named, 0)
  BY <1>2, <1>4 DEF Verbs
<1>5. CASE (\E t \in Targets : Echo(t) \/ OwnReport(t)) \/ Drain
  <2>1. recent' = [t \in Targets |-> Remembered(t)]
    BY <1>5 DEF Echo, OwnReport, Drain, ExpireQueues
  <2>2. QED
    BY <1>1, <2>1
<1>6. CASE Tick
  <2> SUFFICES ASSUME NEW t \in Targets, recent[t] # None
               PROVE  Typed(recent'[t])
    BY <1>6 DEF Tick
  <2>1. recent'[t] = [recent[t] EXCEPT !.age = Older(@, ForgetAfter + 1)]
    BY <1>6 DEF Tick
  <2>2. recent[t] \in [payload : Payloads, age : 0 .. ForgetAfter + 1]
    BY <1>1
  <2>3. Older(recent[t].age, ForgetAfter + 1) \in 0 .. ForgetAfter + 1
    <3>1. recent[t].age + 1 \in Nat /\ ForgetAfter + 1 \in Nat
      BY <2>2, WindowsAssumption
    <3>2. Older(recent[t].age, ForgetAfter + 1)
            = IF recent[t].age + 1 <= ForgetAfter + 1 THEN recent[t].age + 1
              ELSE ForgetAfter + 1
      BY <3>1, MinOfTwo DEF Older
    <3>3. QED
      BY <3>1, <3>2
  <2>4. QED
    BY <2>1, <2>2, <2>3
<1>7. CASE Restart
  BY <1>7 DEF Restart
<1>8. CASE \/ \E t \in Targets, payload \in Payloads : NameByPayload(t, payload)
           \/ \E t \in Targets : NameNewest(t) \/ NameEntityCall(t)
           \/ NameCause
           \/ StoreRows \/ Price \/ TransactionFails
           \/ UNCHANGED vars
  <2>1. recent' = recent
    BY <1>8 DEF NameByPayload, NameNewest, NameEntityCall, NameCause, Name,
                StoreRows, Price, TransactionFails, vars, trackerVars
  <2>2. QED
    BY <1>1, <2>1
<1>9. QED
  BY <1>3, <1>4, <1>5, <1>6, <1>7, <1>8 DEF Next, Worker

\* After _expire alone the queues hold what it kept.
LEMMA ExpiryStep ==
    ASSUME IInv, Opened' = Opened,
           open' = [t \in Targets |-> Kept(open[t])], claims' = KeptClaims
    PROVE  /\ open' \in [Targets -> Seq(Opened')]
           /\ claims' \in [Devices -> Seq(Opened')]
           /\ Queued' = StillQueued /\ OnePosition'
<1>1. TypeOK /\ OnePosition
  BY DEF IInv
<1>2. open' \in [Targets -> Seq(Opened')] /\ claims' \in [Devices -> Seq(Opened')]
  BY <1>1, ExpirySplit
<1>3. Queued' = StillQueued
  BY DEF Queued, StillQueued
<1>4. OnePosition'
  <2>1. \A t, u \in Targets :
          \A i \in DOMAIN Kept(open[t]), j \in DOMAIN Kept(open[u]) :
            Kept(open[t])[i] = Kept(open[u])[j] => <<t, i>> = <<u, j>>
    BY <1>1, ExpirySplit
  <2>2. \A t \in Targets : open'[t] = Kept(open[t])
    OBVIOUS
  <2>3. QED
    BY <2>1, <2>2 DEF OnePosition
<1>5. QED
  BY <1>2, <1>3, <1>4

\* A command adds one number, new to every queue, to its target's queue.
LEMMA CommandQueues ==
    ASSUME IInv, [Next]_vars, NEW t \in Targets, NEW verb, NEW payload,
           NEW named, NEW doubt, Command(t, verb, payload, named, doubt)
    PROVE  /\ open' \in [Targets -> Seq(Opened')]
           /\ claims' \in [Devices -> Seq(Opened')]
           /\ Opened' = Opened \cup {Len(chains) + 1}
           /\ Len(chains) + 1 \notin Opened
           /\ Queued' = StillQueued \cup {Len(chains) + 1}
           /\ OnePosition'
<1> DEFINE id == Len(chains) + 1
           kept(u) == Kept(open[u])
<1>0. TypeOK /\ OnePosition
  BY DEF IInv
<1>1. Len(chains) \in Nat /\ Opened = 1 .. Len(chains)
  BY <1>0, LenProperties DEF TypeOK, Opened
<1>2. id \notin Opened
  BY <1>1
<1>3. Opened' = Opened \cup {id}
  <2>1. Finalize(PoppedNow) \in Seq(Chain) /\ Len(Finalize(PoppedNow)) = Len(chains)
    BY <1>0, FinalizeFacts DEF Evolved
  <2>2. \E chain : chains' = Append(Finalize(PoppedNow), chain)
    BY DEF Command
  <2>3. DOMAIN chains' = 1 .. Len(chains) + 1
    BY <2>1, <2>2
  <2>4. QED
    BY <1>1, <2>3 DEF Opened
<1>4. /\ \A u \in Targets : kept(u) \in Seq(Opened)
      /\ KeptClaims \in [Devices -> Seq(Opened)]
  BY <1>0, ExpirySplit
<1>p. \A v, u \in Targets : \A i \in DOMAIN kept(v), j \in DOMAIN kept(u) :
        kept(v)[i] = kept(u)[j] => <<v, i>> = <<u, j>>
  BY <1>0, ExpirySplit
<1> HIDE DEF id
<1>5. \A S : \A s \in Seq(S) : s \in Seq(S \cup {id})
  BY SeqMonotonic
<1>6. \A s \in Seq(Opened) :
        /\ Append(s, id) \in Seq(Opened')
        /\ DOMAIN Append(s, id) = 1 .. Len(s) + 1
        /\ DOMAIN s = 1 .. Len(s) /\ Len(s) \in Nat
        /\ \A i \in DOMAIN s : Append(s, id)[i] = s[i] /\ s[i] \in Opened
        /\ Append(s, id)[Len(s) + 1] = id
  <2> TAKE s \in Seq(Opened)
  <2>1. s \in Seq(Opened') /\ id \in Opened'
    BY <1>3, <1>5
  <2>2. DOMAIN s = 1 .. Len(s) /\ Len(s) \in Nat
    BY LenProperties
  <2>3. /\ Append(s, id) \in Seq(Opened') /\ Len(Append(s, id)) = Len(s) + 1
        /\ \A i \in 1 .. Len(s) : Append(s, id)[i] = s[i]
        /\ Append(s, id)[Len(s) + 1] = id
    BY <2>1, AppendProperties
  <2>4. DOMAIN Append(s, id) = 1 .. Len(s) + 1
    BY <2>3, LenProperties
  <2>5. \A i \in DOMAIN s : s[i] \in Opened
    BY <2>2, ElementOfSeq
  <2> QED
    BY <2>2, <2>3, <2>4, <2>5
<1>7. open' = [u \in Targets |->
                 IF u = t THEN Append(kept(u), id) ELSE kept(u)]
  BY DEF Command, id
<1>8. open' \in [Targets -> Seq(Opened')]
  <2>1. \A u \in Targets : /\ kept(u) \in Seq(Opened')
                           /\ Append(kept(u), id) \in Seq(Opened')
    BY <1>3, <1>4, <1>5, <1>6
  <2> HIDE DEF kept
  <2>2. QED
    BY <1>7, <2>1
<1>9. claims' \in [Devices -> Seq(Opened')]
  <2>1. \A d \in Devices : /\ KeptClaims[d] = Kept(claims[d])
                           /\ Kept(claims[d]) \in Seq(Opened)
    BY <1>4 DEF KeptClaims
  <2>2. \A d \in Devices : /\ Kept(claims[d]) \in Seq(Opened')
                           /\ Append(Kept(claims[d]), id) \in Seq(Opened')
    BY <1>3, <1>5, <1>6, <2>1
  <2>3. KeptClaims \in [Devices -> Seq(Opened')]
    BY <2>2 DEF KeptClaims
  <2>4. \/ claims' = KeptClaims
        \/ claims' = [d \in Devices |-> IF d \in Members[t]
                                        THEN Append(Kept(claims[d]), id)
                                        ELSE Kept(claims[d])]
    BY DEF Command, id
  <2>5. QED
    BY <2>2, <2>3, <2>4
<1>10. \A u \in Targets :
         /\ DOMAIN open'[u] = IF u = t THEN 1 .. Len(kept(u)) + 1
                              ELSE 1 .. Len(kept(u))
         /\ Len(kept(u)) \in Nat /\ DOMAIN kept(u) = 1 .. Len(kept(u))
         /\ \A i \in DOMAIN kept(u) : open'[u][i] = kept(u)[i] /\ kept(u)[i] \in Opened
         /\ open'[t][Len(kept(t)) + 1] = id
  BY <1>4, <1>6, <1>7
<1>11. Queued' = StillQueued \cup {id}
  <2>1. ASSUME NEW c \in Queued' PROVE c \in StillQueued \cup {id}
    <3>1. PICK u \in Targets : \E i \in DOMAIN open'[u] : open'[u][i] = c
      BY <2>1 DEF Queued
    <3>2. PICK i \in DOMAIN open'[u] : open'[u][i] = c
      BY <3>1
    <3>3. CASE i \in DOMAIN kept(u)
      BY <1>10, <3>2, <3>3 DEF StillQueued
    <3>4. CASE i \notin DOMAIN kept(u)
      BY <1>10, <3>2, <3>4
    <3>5. QED
      BY <3>3, <3>4
  <2>2. ASSUME NEW c \in StillQueued PROVE c \in Queued'
    <3>1. PICK u \in Targets : \E i \in DOMAIN kept(u) : kept(u)[i] = c
      BY <2>2 DEF StillQueued
    <3>2. PICK i \in DOMAIN kept(u) : kept(u)[i] = c
      BY <3>1
    <3>3. i \in DOMAIN open'[u] /\ open'[u][i] = c /\ c \in Opened'
      BY <1>3, <1>10, <3>2
    <3>4. QED
      BY <3>3 DEF Queued
  <2>3. id \in Queued'
    <3>1. Len(kept(t)) + 1 \in DOMAIN open'[t]
      BY <1>10
    <3>2. QED
      BY <1>3, <1>10, <3>1 DEF Queued
  <2>4. QED
    BY <2>1, <2>2, <2>3
<1>12. OnePosition'
  <2> SUFFICES ASSUME NEW v \in Targets, NEW u \in Targets,
                      NEW i \in DOMAIN open'[v], NEW j \in DOMAIN open'[u],
                      open'[v][i] = open'[u][j]
               PROVE  <<v, i>> = <<u, j>>
    BY DEF OnePosition
  <2>1. CASE i \in DOMAIN kept(v) /\ j \in DOMAIN kept(u)
    <3>1. kept(v)[i] = kept(u)[j]
      BY <1>10, <2>1
    <3>2. QED
      <4> HIDE DEF kept
      <4>1. i \in DOMAIN kept(v) /\ j \in DOMAIN kept(u)
        BY <2>1
      <4> QED
        BY <1>p, <4>1, <3>1
  <2>2. CASE i \notin DOMAIN kept(v) /\ j \notin DOMAIN kept(u)
    BY <1>10, <2>2
  <2>3. CASE i \in DOMAIN kept(v) /\ j \notin DOMAIN kept(u)
    <3>1. open'[v][i] \in Opened /\ open'[u][j] = id
      BY <1>10, <2>3
    <3>2. QED
      BY <1>2, <3>1 DEF id
  <2>4. CASE i \notin DOMAIN kept(v) /\ j \in DOMAIN kept(u)
    <3>1. open'[u][j] \in Opened /\ open'[v][i] = id
      BY <1>10, <2>4
    <3>2. QED
      BY <1>2, <3>1 DEF id
  <2>5. QED
    BY <2>1, <2>2, <2>3, <2>4
<1>13. QED
  BY <1>2, <1>3, <1>8, <1>9, <1>11, <1>12 DEF id

\* Every step keeps the types.
LEMMA TypeStep == IInv /\ [Next]_vars => TypeOK'
<1> SUFFICES ASSUME IInv, [Next]_vars PROVE TypeOK'
  OBVIOUS
<1> DEFINE Rest ==
      /\ settled \subseteq Opened /\ batch \subseteq Opened /\ lost \subseteq Opened
      /\ pass \in {"idle", "rows", "ledger"}
      /\ batch # {} => pass # "idle"
      /\ \A c \in Ids \ Opened : rows[c] = None /\ priced[c] = None
      /\ failures \in 0 .. MaxFailures /\ restarts \in 0 .. MaxRestarts
    Queues == open \in [Targets -> Seq(Opened)] /\ claims \in [Devices -> Seq(Opened)]
<1>0. TypeOK /\ OnePosition
  BY DEF IInv
<1>1. /\ chains' \in Seq(Chain) /\ Opened \subseteq Opened' /\ Opened' \subseteq Ids
  BY ChainsStep
<1>2. PoppedNow \subseteq Opened
  BY <1>0, ExpirySplit
<1>3. Rest /\ Queues
  BY <1>0 DEF TypeOK
<1>4. \A s \in Seq(Opened) : s \in Seq(Opened')
  BY <1>1, SeqMonotonic
<1>5. open' = open /\ claims' = claims => Queues'
  BY <1>3, <1>4
<1>6. ASSUME NEW t \in Targets, NEW verb, NEW payload, NEW named, NEW doubt,
             Command(t, verb, payload, named, doubt)
      PROVE  Rest' /\ Queues'
  <2>1. Queues'
    BY <1>6, CommandQueues
  <2>2. Rest'
    BY <1>1, <1>2, <1>3, <1>6 DEF Command, passVars, storeVars
  <2>3. QED
    BY <2>1, <2>2
<1>7. CASE \/ \E t \in Targets : Echo(t) \/ OwnReport(t)
           \/ Drain
  <2>1. open' = [t \in Targets |-> Kept(open[t])] /\ claims' = KeptClaims
    BY <1>7 DEF Echo, OwnReport, Drain, ExpireQueues
  <2>2. Opened' = Opened
    <3>1. DOMAIN Finalize(PoppedNow) = Opened
      BY DEF Finalize
    <3>2. QED
      BY <1>7, <3>1 DEF Echo, OwnReport, Drain, Opened
  <2>3. Queues'
    BY <2>1, <2>2, ExpiryStep
  <2>4. ASSUME \E t \in Targets : Echo(t) \/ OwnReport(t) PROVE Rest' /\ Queues'
    <3>1. settled' = settled \cup PoppedNow
          /\ UNCHANGED <<pass, batch, rows, priced, lost, failures, restarts>>
      BY <2>4 DEF Echo, OwnReport, passVars, storeVars
    <3>2. QED
      BY <1>2, <1>3, <2>2, <2>3, <3>1
  <2>5. ASSUME Drain PROVE Rest' /\ Queues'
    <3>1. /\ batch' = settled \cup PoppedNow /\ settled' = {}
          /\ pass' \in {"ledger", "rows"}
          /\ UNCHANGED <<rows, priced, lost, failures, restarts>>
      BY <2>5 DEF Drain, Takes, storeVars
    <3>2. QED
      BY <1>2, <1>3, <2>2, <2>3, <3>1
  <2>6. Rest' /\ Queues'
    BY <1>7, <2>4, <2>5
  <2>7. QED
    BY <1>0, <1>1, <2>6, RecentStep DEF TypeOK, Chain
<1>8. CASE \/ \E t \in Targets, payload \in Payloads : NameByPayload(t, payload)
           \/ \E t \in Targets : NameNewest(t) \/ NameEntityCall(t)
           \/ NameCause \/ Tick \/ UNCHANGED vars
  <2>1. UNCHANGED <<open, claims, settled, pass, batch, rows, priced, lost,
                    failures, restarts>>
    BY <1>8 DEF NameByPayload, NameNewest, NameEntityCall, NameCause, Name, Tick,
                vars, trackerVars, passVars, storeVars
  <2>2. QED
    BY <1>0, <1>1, <1>3, <1>5, <2>1, RecentStep DEF TypeOK, Chain
<1>9. CASE StoreRows \/ Price \/ TransactionFails
  <2>1. chains' = chains /\ open' = open /\ claims' = claims /\ settled' = settled
    BY <1>9 DEF StoreRows, Price, TransactionFails, trackerVars
  <2>2. Opened' = Opened
    BY <2>1 DEF Opened
  <2>3. Rest'
    <3>1. CASE StoreRows
      BY <1>3, <2>1, <2>2, <3>1 DEF StoreRows
    <3>2. CASE Price
      BY <1>3, <2>1, <2>2, <3>2 DEF Price, PassOver
    <3>3. CASE TransactionFails
      BY <1>3, <2>1, <2>2, <3>3, BoundsAssumption
         DEF TransactionFails, EndsByFailure, PassOver, storeVars
    <3>4. QED
      BY <1>9, <3>1, <3>2, <3>3
  <2>4. QED
    BY <1>0, <1>1, <1>5, <2>1, <2>3, RecentStep DEF TypeOK, Chain
<1>10. CASE Restart
  <2>1. Opened' = Opened
    BY <1>10 DEF Restart, Opened
  <2>2. Queues'
    BY <1>10, EmptySeq DEF Restart
  <2>3. Rest'
    BY <1>3, <1>10, <2>1, BoundsAssumption DEF Restart, PassOver, storeVars
  <2>4. QED
    BY <1>0, <1>1, <2>2, <2>3, RecentStep DEF TypeOK, Chain
<1>11. CASE \E t \in Targets : \E verb, payload, named, doubt :
               Command(t, verb, payload, named, doubt)
  BY <1>0, <1>1, <1>6, <1>11, RecentStep DEF TypeOK, Chain
<1>12. QED
  BY <1>7, <1>8, <1>9, <1>10, <1>11 DEF Next, Worker


\* A row that is stored can be told from no row.
LEMMA RowIsEntry == TypeOK => \A c \in Opened : Row(c) # None
<1> SUFFICES ASSUME TypeOK, NEW c \in Opened PROVE Row(c) # None
  OBVIOUS
<1>1. Row(c) \in [echoes : 0 .. MaxEchoes, named : BOOLEAN, redundant : BOOLEAN]
  BY ChainOf DEF Row
<1>2. QED
  BY <1>1, NoneAssumption

\* What _expire pops is finalized in the same step.
LEMMA PoppedFinalized ==
    ASSUME IInv,
           \/ \E t \in Targets : Echo(t) \/ OwnReport(t)
           \/ Drain
           \/ \E t \in Targets : \E verb, payload, named, doubt :
                Command(t, verb, payload, named, doubt)
    PROVE  \A c \in PoppedNow : chains'[c].finalized
<1> DEFINE base == Finalize(PoppedNow)
<1>0. TypeOK /\ PoppedNow \subseteq Opened
  BY ExpirySplit DEF IInv
<1>1. \A c \in PoppedNow : base[c].finalized
  BY <1>0, FinalizeFacts
<1>2. base \in Seq(Chain) /\ DOMAIN base = Opened /\ Len(base) = Len(chains)
  BY <1>0, FinalizeFacts DEF Evolved
<1> HIDE DEF base
<1>3. CASE (\E t \in Targets : OwnReport(t)) \/ Drain
  BY <1>1, <1>3 DEF OwnReport, Drain, base
<1>4. ASSUME NEW t \in Targets, Echo(t), NEW c \in PoppedNow
      PROVE  chains'[c].finalized
  <2>1. chains' = [base EXCEPT ![Claimant(t)].echoes = Min({@ + 1, MaxEchoes})]
    BY <1>4 DEF Echo, base
  <2>2. base \in [Opened -> Chain] /\ base[c] \in Chain
    BY <1>0, <1>2
  <2>3. CASE c = Claimant(t)
    <3>1. chains'[c] = [base[c] EXCEPT !.echoes = Min({@ + 1, MaxEchoes})]
      BY <1>0, <2>1, <2>2, <2>3
    <3>2. chains'[c].finalized = base[c].finalized
      BY <2>2, <3>1 DEF Chain
    <3>3. QED
      BY <1>1, <3>2
  <2>4. CASE c # Claimant(t)
    BY <1>0, <1>1, <2>1, <2>2, <2>4
  <2>5. QED
    BY <2>3, <2>4
<1>5. ASSUME NEW t \in Targets, NEW verb, NEW payload, NEW named, NEW doubt,
             Command(t, verb, payload, named, doubt), NEW c \in PoppedNow
      PROVE  chains'[c].finalized
  <2>1. PICK chain : chains' = Append(base, chain)
    BY <1>5 DEF Command, base
  <2>2. chains'[c] = base[c]
    <3>1. c \in 1 .. Len(base)
      BY <1>0, <1>2, LenProperties
    <3>2. QED
      BY <1>2, <2>1, <3>1
  <2>3. QED
    BY <1>1, <2>2
<1>6. QED
  BY <1>3, <1>4, <1>5

\* Where a step that runs _expire leaves the chains: what it pops goes to the
\* finalized list, or with the list into the worker's hands.
LEMMA SettlingStep ==
    ASSUME IInv, [Next]_vars, NEW fresh \in SUBSET Ids, fresh \cap Opened = {},
           Opened' = Opened \cup fresh, Queued' = StillQueued \cup fresh,
           rows' = rows, priced' = priced, lost' = lost,
           \A c \in PoppedNow : chains'[c].finalized,
           \/ settled' = settled \cup PoppedNow /\ pass' = pass /\ batch' = batch
           \/ /\ pass = "idle" /\ settled' = {}
              /\ batch' = settled \cup PoppedNow
              /\ pass' = IF batch' = {} THEN "ledger" ELSE "rows"
    PROVE  Apart' /\ LeftClosed' /\ Books'
<1>0. TypeOK /\ OnePosition /\ Apart /\ LeftClosed /\ Books
  BY DEF IInv
<1>1. /\ Queued = StillQueued \cup PoppedNow /\ StillQueued \cap PoppedNow = {}
      /\ \A c \in PoppedNow : Expired(c)
      /\ PoppedNow \subseteq Opened
  BY <1>0, ExpirySplit
<1>2. /\ \A c \in Ids \ Opened : rows[c] = None /\ priced[c] = None
      /\ settled \subseteq Opened /\ batch \subseteq Opened
      /\ lost \subseteq Opened /\ pass \in {"idle", "rows", "ledger"}
      /\ pass = "idle" => batch = {}
  BY <1>0 DEF TypeOK
<1>3. Stored' = Stored
  BY <1>2 DEF Stored
<1>4. settled' \cup InHand' = settled \cup InHand \cup PoppedNow
  BY <1>2 DEF InHand
<1>5. settled' \cap InHand' = {}
  BY <1>0, <1>1, <1>2 DEF Apart, InHand
<1>6. Left' = Left \cup PoppedNow
  BY <1>2, <1>3 DEF Left
<1>7. Apart'
  <2>1. lost' \cap fresh = {} /\ Stored' \cap fresh = {} /\ settled \cap fresh = {}
        /\ InHand \cap fresh = {} /\ PoppedNow \cap fresh = {}
    BY <1>1, <1>2, <1>3 DEF Stored, InHand
  <2>2. (settled \cup InHand \cup PoppedNow) \cap (Stored \cup lost) = {}
    BY <1>0, <1>1 DEF Apart
  <2>3. Queued' \cap (settled \cup InHand \cup PoppedNow \cup Stored \cup lost) = {}
    BY <1>0, <1>1, <1>3, <2>1 DEF Apart
  <2>4. Opened' = Queued' \cup settled \cup InHand \cup PoppedNow \cup Stored \cup lost
    BY <1>0, <1>1 DEF Apart
  <2>5. Stored \cap lost = {}
    BY <1>0 DEF Apart
  <2>6. QED
    BY <1>3, <1>4, <1>5, <2>2, <2>3, <2>4, <2>5 DEF Apart
<1>8. LeftClosed'
  <2>1. ASSUME NEW c \in Left' PROVE chains'[c].finalized /\ Expired(c)'
    <3>1. CASE c \in PoppedNow
      BY <1>1, <3>1, ChainsStep
    <3>2. CASE c \in Left
      <4>1. c \in Opened
        BY <1>2, <3>2 DEF Left, Stored
      <4>2. QED
        BY <1>0, <3>2, <4>1, ChainsStep DEF LeftClosed
    <3>3. QED
      BY <1>6, <2>1, <3>1, <3>2
  <2>2. QED
    BY <2>1 DEF LeftClosed
<1>9. Books'
  <2>1. \A c \in Stored : Row(c)' = Row(c)
    BY ChainsStep DEF Left, Stored
  <2>2. \A c \in Stored' : rows'[c] = Row(c)'
    BY <1>0, <1>3, <2>1 DEF Books
  <2>3. \A c \in Opened' : priced'[c] # None => c \in Stored' /\ priced'[c] = Row(c)'
    BY <1>0, <1>2, <1>3, <2>1 DEF Books
  <2>4. pass' = "ledger" => batch' \subseteq Stored'
    BY <1>0, <1>3 DEF Books
  <2>5. QED
    BY <2>2, <2>3, <2>4 DEF Books
<1>10. QED
  BY <1>7, <1>8, <1>9

\* Every step leaves each chain in one place, with its books right.
LEMMA PlacesStep == IInv /\ [Next]_vars => Apart' /\ OnePosition' /\ LeftClosed' /\ Books'
<1> SUFFICES ASSUME IInv, [Next]_vars
             PROVE  Apart' /\ OnePosition' /\ LeftClosed' /\ Books'
  OBVIOUS
<1>0. TypeOK /\ OnePosition /\ Apart /\ LeftClosed /\ Books
  BY DEF IInv
<1>t. /\ \A c \in Ids \ Opened : rows[c] = None /\ priced[c] = None
      /\ settled \subseteq Opened /\ batch \subseteq Opened /\ Opened \subseteq Ids
      /\ lost \subseteq Opened /\ pass \in {"idle", "rows", "ledger"}
      /\ pass = "idle" => batch = {}
  BY <1>0 DEF TypeOK
<1>s. \A c \in Left : c \in Opened /\ chains'[c].finalized /\ Expired(c)'
                      /\ Row(c)' = Row(c)
  BY <1>0, <1>t, ChainsStep DEF Left, LeftClosed, Stored
<1>1. CASE \E t \in Targets : \E verb, payload, named, doubt :
               Command(t, verb, payload, named, doubt)
  <2>1. PICK t \in Targets : \E verb, payload, named, doubt :
               Command(t, verb, payload, named, doubt)
    BY <1>1
  <2>2. PICK verb, payload, named, doubt :
               Command(t, verb, payload, named, doubt)
    BY <2>1
  <2>3. /\ Opened' = Opened \cup {Len(chains) + 1}
        /\ Len(chains) + 1 \notin Opened
        /\ Queued' = StillQueued \cup {Len(chains) + 1}
        /\ OnePosition'
    BY <2>2, CommandQueues
  <2>4. {Len(chains) + 1} \in SUBSET Ids
    BY <2>3, ChainsStep
  <2>5. \A c \in PoppedNow : chains'[c].finalized
    BY <1>1, PoppedFinalized
  <2>6. /\ settled' = settled \cup PoppedNow
        /\ UNCHANGED <<pass, batch, rows, priced, lost>>
    BY <2>2 DEF Command, passVars, storeVars
  <2>7. Apart' /\ LeftClosed' /\ Books'
    BY <2>3, <2>4, <2>5, <2>6, SettlingStep
  <2>8. QED
    BY <2>3, <2>7
<1>2. CASE \/ \E t \in Targets : Echo(t) \/ OwnReport(t)
           \/ Drain
  <2>1. open' = [t \in Targets |-> Kept(open[t])] /\ claims' = KeptClaims
    BY <1>2 DEF Echo, OwnReport, Drain, ExpireQueues
  <2>2. Opened' = Opened \cup {}
    <3>1. DOMAIN Finalize(PoppedNow) = Opened
      BY DEF Finalize
    <3>2. QED
      BY <1>2, <3>1 DEF Echo, OwnReport, Drain, Opened
  <2>3. Queued' = StillQueued \cup {} /\ OnePosition'
    BY <2>1, <2>2, ExpiryStep
  <2>4. \A c \in PoppedNow : chains'[c].finalized
    BY <1>2, PoppedFinalized
  <2>5. rows' = rows /\ priced' = priced /\ lost' = lost
    BY <1>2 DEF Echo, OwnReport, Drain, storeVars
  <2>6. \/ settled' = settled \cup PoppedNow /\ pass' = pass /\ batch' = batch
        \/ /\ pass = "idle" /\ settled' = {}
           /\ batch' = settled \cup PoppedNow
           /\ pass' = IF batch' = {} THEN "ledger" ELSE "rows"
    BY <1>2 DEF Echo, OwnReport, Drain, Takes, passVars
  <2>7. Apart' /\ LeftClosed' /\ Books'
    <3>1. {} \in SUBSET Ids /\ {} \cap Opened = {}
      OBVIOUS
    <3>2. QED
      BY <2>2, <2>3, <2>4, <2>5, <2>6, <3>1, SettlingStep
  <2>8. QED
    BY <2>3, <2>7
<1>3. CASE \/ \E t \in Targets, payload \in Payloads : NameByPayload(t, payload)
           \/ \E t \in Targets : NameNewest(t) \/ NameEntityCall(t)
           \/ NameCause \/ Tick \/ UNCHANGED vars
  <2>1. UNCHANGED <<open, settled, pass, batch, rows, priced, lost>>
    BY <1>3 DEF NameByPayload, NameNewest, NameEntityCall, NameCause, Name, Tick,
                vars, trackerVars, passVars, storeVars
  <2>2. Opened' = Opened
    <3>1. CASE UNCHANGED vars
      BY <3>1 DEF vars, trackerVars, Opened
    <3>2. CASE ~UNCHANGED vars
      BY <1>3, <3>2 DEF NameByPayload, NameNewest, NameEntityCall, NameCause, Name,
                        Tick, Opened
    <3>3. QED
      BY <3>1, <3>2
  <2>3. Queued' = Queued /\ Stored' = Stored /\ InHand' = InHand /\ Left' = Left
    BY <2>1, <2>2 DEF Queued, Stored, InHand, Left
  <2>4. QED
    BY <1>0, <1>s, <2>1, <2>2, <2>3
       DEF Apart, OnePosition, LeftClosed, Books, Left
<1>4. CASE StoreRows
  <2>1. /\ pass = "rows" /\ pass' = "ledger" /\ batch' = batch
        /\ UNCHANGED <<chains, open, settled, lost, priced>>
        /\ rows' = [c \in Ids |-> IF c \in batch THEN Row(c) ELSE rows[c]]
    BY <1>4 DEF StoreRows, trackerVars
  <2>2. Opened' = Opened /\ Queued' = Queued /\ InHand = batch /\ InHand' = {}
    BY <2>1 DEF Opened, Queued, InHand
  <2>3. Stored' = Stored \cup batch
    BY <1>0, <1>t, <2>1, <2>2, RowIsEntry DEF Stored
  <2>4. Left' = Left
    BY <2>1, <2>3 DEF Left
  <2>5. Apart'
    BY <1>0, <2>1, <2>2, <2>3 DEF Apart
  <2>6. OnePosition'
    BY <1>0, <2>1 DEF OnePosition
  <2>7. LeftClosed'
    BY <1>s, <2>4 DEF LeftClosed
  <2>8. \A c \in Opened : Row(c)' = Row(c)
    BY <2>1 DEF Row
  <2>9. batch \cap Stored = {}
    BY <1>0, <2>2 DEF Apart
  <2>10. Books'
    BY <1>0, <1>t, <2>1, <2>2, <2>3, <2>8, <2>9 DEF Books, Stored
  <2>11. QED
    BY <2>5, <2>6, <2>7, <2>10
<1>5. CASE Price
  <2>1. /\ pass = "ledger" /\ pass' = "idle" /\ batch' = {}
        /\ UNCHANGED <<chains, open, settled, lost, rows>>
        /\ priced' = [c \in Ids |-> IF c \in batch THEN Row(c) ELSE priced[c]]
    BY <1>5 DEF Price, PassOver, trackerVars
  <2>2. /\ Opened' = Opened /\ Queued' = Queued /\ Stored' = Stored
        /\ InHand = {} /\ InHand' = {} /\ Left' \subseteq Left
    BY <2>1 DEF Opened, Queued, Stored, InHand, Left
  <2>3. \A c \in Opened : Row(c)' = Row(c)
    BY <2>1 DEF Row
  <2>4. Apart' /\ OnePosition'
    BY <1>0, <2>1, <2>2 DEF Apart, OnePosition
  <2>5. LeftClosed'
    BY <1>s, <2>2 DEF LeftClosed
  <2>6. Books'
    BY <1>0, <1>t, <2>1, <2>2, <2>3 DEF Books, Stored
  <2>7. QED
    BY <2>4, <2>5, <2>6
<1>6. CASE TransactionFails
  <2>1. /\ pass # "idle" /\ pass' = "idle" /\ batch' = {}
        /\ lost' = IF pass = "rows" THEN lost \cup batch ELSE lost
        /\ UNCHANGED <<chains, open, settled, rows, priced>>
    BY <1>6 DEF TransactionFails, EndsByFailure, PassOver, trackerVars, storeVars
  <2>2. /\ Opened' = Opened /\ Queued' = Queued /\ Stored' = Stored
        /\ InHand' = {} /\ lost' = lost \cup InHand /\ Left' \subseteq Left
    BY <2>1 DEF Opened, Queued, Stored, InHand, Left
  <2>3. \A c \in Opened : Row(c)' = Row(c)
    BY <2>1 DEF Row
  <2>4. Apart' /\ OnePosition'
    BY <1>0, <2>1, <2>2 DEF Apart, OnePosition
  <2>5. LeftClosed'
    BY <1>s, <2>2 DEF LeftClosed
  <2>6. Books'
    BY <1>0, <1>t, <2>1, <2>2, <2>3 DEF Books, Stored
  <2>7. QED
    BY <2>4, <2>5, <2>6
<1>7. CASE Restart
  <2>1. /\ pass' = "idle" /\ batch' = {} /\ settled' = {}
        /\ open' = [t \in Targets |-> << >>]
        /\ lost' = Opened \ Stored
        /\ UNCHANGED <<chains, rows, priced>>
    BY <1>7 DEF Restart, PassOver, storeVars, Stored
  <2>2. /\ Opened' = Opened /\ Queued' = {} /\ Stored' = Stored
        /\ InHand' = {} /\ Left' \subseteq Left
    BY <2>1 DEF Opened, Queued, Stored, InHand, Left
  <2>3. \A c \in Opened : Row(c)' = Row(c)
    BY <2>1 DEF Row
  <2>4. Apart' /\ OnePosition'
    BY <1>0, <2>1, <2>2 DEF Apart, OnePosition, Stored
  <2>5. LeftClosed'
    BY <1>s, <2>2 DEF LeftClosed
  <2>6. Books'
    BY <1>0, <1>t, <2>1, <2>2, <2>3 DEF Books, Stored
  <2>7. QED
    BY <2>4, <2>5, <2>6
<1>8. QED
  BY <1>1, <1>2, <1>3, <1>4, <1>5, <1>6, <1>7 DEF Next, Worker


\* The initial state satisfies the inductive invariant.
LEMMA InitIInv == Init => IInv
<1> SUFFICES ASSUME Init PROVE IInv
  OBVIOUS
<1> USE DEF Init
<1>1. Opened = {} /\ Queued = {} /\ Stored = {} /\ InHand = {} /\ Left = {}
  BY EmptySeq DEF Opened, Queued, Stored, InHand, Left
<1>2. TypeOK
  <2>1. chains \in Seq(Chain)
    BY EmptySeq
  <2>2. open \in [Targets -> Seq(Opened)] /\ claims \in [Devices -> Seq(Opened)]
    BY EmptySeq
  <2>3. failures \in 0 .. MaxFailures /\ restarts \in 0 .. MaxRestarts
    BY BoundsAssumption
  <2>4. QED
    BY <1>1, <2>1, <2>2, <2>3 DEF TypeOK, Chain
<1>3. Apart /\ OnePosition /\ LeftClosed /\ Books
  BY <1>1 DEF Apart, OnePosition, LeftClosed, Books
<1>4. QED
  BY <1>2, <1>3 DEF IInv

\* The inductive invariant holds in every reachable state, also across failed
\* transactions and restarts.
THEOREM InductiveInvariant == Spec => []IInv
<1>1. IInv /\ [Next]_vars => IInv'
  BY TypeStep, PlacesStep DEF IInv
<1>2. QED
  BY InitIInv, <1>1, PTL DEF Spec

\* The sets apart, counted: no chain is counted twice.
LEMMA OnePlaceEach == IInv => EveryChainPlaced
<1> SUFFICES ASSUME IInv PROVE EveryChainPlaced
  OBVIOUS
<1>1. Opened \subseteq 1 .. MaxCommands
  BY DEF IInv, TypeOK, Ids
<1>2. \A S \in SUBSET Opened : IsFiniteSet(S)
  <2>1. IsFiniteSet(1 .. MaxCommands)
    BY FS_Interval, BoundsAssumption
  <2>2. IsFiniteSet(Opened)
    BY <1>1, <2>1, FS_Subset
  <2>3. QED
    BY <2>2, FS_Subset
<1>3. /\ Queued \in SUBSET Opened /\ settled \in SUBSET Opened
      /\ InHand \in SUBSET Opened /\ Stored \in SUBSET Opened
      /\ lost \in SUBSET Opened
  BY DEF IInv, Apart
<1> DEFINE two == Stored \cup lost
           three == InHand \cup two
           four == settled \cup three
<1>4. /\ Stored \cap lost = {} /\ InHand \cap two = {} /\ settled \cap three = {}
      /\ Queued \cap four = {} /\ Opened = Queued \cup four
  BY DEF IInv, Apart
<1>5. /\ IsFiniteSet(two) /\ Cardinality(two) = Cardinality(Stored) + Cardinality(lost)
      /\ Cardinality(Stored) \in Nat /\ Cardinality(lost) \in Nat
  BY <1>2, <1>3, <1>4, CountApart
<1> HIDE DEF two
<1>6. /\ IsFiniteSet(three) /\ Cardinality(three) = Cardinality(InHand) + Cardinality(two)
      /\ Cardinality(InHand) \in Nat
  BY <1>2, <1>3, <1>4, <1>5, CountApart
<1> HIDE DEF three
<1>7. /\ IsFiniteSet(four) /\ Cardinality(four) = Cardinality(settled) + Cardinality(three)
      /\ Cardinality(settled) \in Nat
  BY <1>2, <1>3, <1>4, <1>6, CountApart
<1> HIDE DEF four
<1>8. /\ Cardinality(Opened) = Cardinality(Queued) + Cardinality(four)
      /\ Cardinality(Queued) \in Nat
  BY <1>2, <1>3, <1>4, <1>7, CountApart
<1>9. Cardinality(Opened) = Cardinality(Queued) + Cardinality(settled)
         + Cardinality(InHand) + Cardinality(Stored) + Cardinality(lost)
  BY <1>5, <1>6, <1>7, <1>8
<1>10. QED
  BY <1>9 DEF EveryChainPlaced, IInv, Apart, OnePosition

\* At any moment a chain is in one place (a queue, the finalized list, the
\* worker's hands, the table, or lost to a failure or a restart); it is stored
\* only when no echo within its window can be missing; and the ledger charges
\* only what the table shows (on_command, _expire, drain_finalized,
\* flush_rollups).
THEOREM ChainsAreSound == Spec => []ChainsSound
<1>1. IInv => ChainsSound
  <2> SUFFICES ASSUME IInv PROVE ChainsSound
    OBVIOUS
  <2>1. TypeOK /\ EveryChainPlaced
    BY OnePlaceEach DEF IInv
  <2>2. StoredAfterItsWindow
    <3>1. Stored \cup InHand \subseteq Left
      BY DEF Left, InHand
    <3>2. QED
      BY <3>1 DEF IInv, LeftClosed, StoredAfterItsWindow, Expired
  <2>3. LedgerBacked
    BY DEF IInv, Books, LedgerBacked
  <2>4. QED
    BY <2>1, <2>2, <2>3 DEF ChainsSound
<1>2. QED
  BY InductiveInvariant, <1>1, PTL

\* No echo and no name reaches a chain that has left the tracker: what was
\* drained, stored or priced does not change (on_state, attribute_client,
\* attribute_entity_call, attribute_cause).
THEOREM SettledChainsAreFinal == Spec => SettledIsFinal
<1>1. IInv /\ [Next]_vars => [\A c \in Left : Row(c)' = Row(c)]_vars
  <2> SUFFICES ASSUME IInv, [Next]_vars, NEW c \in Left PROVE Row(c)' = Row(c)
    OBVIOUS
  <2>1. c \in Opened
    BY DEF IInv, TypeOK, Left, Stored
  <2>2. QED
    BY <2>1, ChainsStep
<1>2. QED
  BY InductiveInvariant, <1>1, PTL DEF Spec, SettledIsFinal


=============================================================================
