----------------------------- MODULE WireStream -----------------------------
(***************************************************************************)
(* One direction of a coordinator's connection as the wire tap sees it:    *)
(* the agent's pcap records cut anywhere (decode/pcap_stream.py), the TCP  *)
(* segments put in order (StreamBytes of decode/pcap.py) and the ASH       *)
(* frames taken out of the bytes (decode/ash.py).                          *)
(*                                                                         *)
(* A record is two units, its header and its packet; so is the header of   *)
(* the stream.  A byte is a name; sequence numbers wrap at Modulus.  The   *)
(* CRC is taken to be ideal: it accepts the bodies in Bodies, and no       *)
(* splice of two frames is one of those.                                   *)
(***************************************************************************)
EXTENDS Integers, SequencesExt

CONSTANTS
    Bodies,        \* frames, unescaped: control, data and CRC
    LastBodies,    \* bound of the model: the frames a line may end with
    Flip,          \* byte ^ 0x20
    Modulus,       \* of TCP sequence numbers: 2^32
    Isn,           \* sequence numbers of the first byte: any of these
    None,
    MaxSegment,    \* bounds of the model: bytes of a segment,
    Reach,         \* how far a retransmission goes back,
    MaxMisses, MaxRepeats, MaxSessions,  \* losses, retransmissions, sessions,
    MaxQueued      \* and units on their way before the next record

FLAG == "flag"
ESCAPE == "escape"
XON == "xon"
SUBSTITUTE == "substitute"
CANCEL == "cancel"
RESERVED == {FLAG, ESCAPE, XON, SUBSTITUTE, CANCEL}

StreamAssumption == Reach + MaxSegment < Modulus \div 2

-----------------------------------------------------------------------------
(* What the coordinator or Zigbee2MQTT puts on the line *)

\* _escape and _frame.
Encoded(body) ==
    FlattenSeq([i \in DOMAIN body |->
        IF body[i] \in RESERVED THEN <<ESCAPE, Flip[body[i]]>> ELSE <<body[i]>>])
    \o <<FLAG>>

Whole(b) == [bytes |-> Encoded(b), carries |-> <<b>>]
Paused(b) == [bytes |-> InsertAt(Encoded(b), 2, XON), carries |-> <<b>>]
Cancelled(b) == [bytes |-> <<Head(Encoded(b)), CANCEL>>, carries |-> <<>>]
Spoiled(b) == [bytes |-> <<SUBSTITUTE>> \o Tail(Encoded(b)), carries |-> <<>>]
Items == UNION {{Whole(b), Paused(b), Cancelled(b), Spoiled(b)} : b \in Bodies}

VARIABLES
    line,     \* the items of the line
    isn,
    top,      \* bytes sent so far
    wire,     \* units of the session on their way to the collector
    reader,   \* StreamingPcapReader: _buffer, and whether the header is parsed
    stream,   \* StreamBytes: next_seq, lengths of data, duplicates and gaps
    ash,      \* AshDecoder: _buffer, _escaping, _dropping
    frames,   \* the frames whose CRC is right, as the decoder gave them
    lost,     \* ghost: a byte did not reach the collector
    misses, repeats, sessions

vars == <<line, isn, top, wire, reader, stream, ash, frames, lost, misses, repeats, sessions>>

Bytes == FlattenSeq([i \in DOMAIN line |-> line[i].bytes])

NewReader == [buffer |-> <<>>, ready |-> FALSE]
Record(from, n) == [from |-> from, n |-> n]
Preamble == <<Record(0, 0), Record(0, 0)>>  \* the header of the stream
NewAsh == [buffer |-> <<>>, escaping |-> FALSE, dropping |-> FALSE]

Init ==
    /\ line \in {<<i, Whole(b)>> : i \in Items, b \in LastBodies} /\ isn \in Isn
    /\ top = 0 /\ wire = Preamble /\ reader = NewReader
    /\ stream = [next |-> None, accepted |-> 0, duplicate |-> 0, gap |-> 0]
    /\ ash = NewAsh /\ frames = <<>>
    /\ lost = FALSE /\ misses = 0 /\ repeats = 0
    /\ sessions = 1

-----------------------------------------------------------------------------
(* AshDecoder.feed, byte by byte *)

Completed(st) ==
    [ash |-> NewAsh,
     frames |-> IF ~st.ash.dropping /\ st.ash.buffer \in Bodies
                THEN Append(st.frames, st.ash.buffer) ELSE st.frames]

Plain(a, b) == IF a.escaping THEN Flip[b] ELSE b

Feed(st, b) ==
    CASE b = CANCEL -> [st EXCEPT !.ash = NewAsh]
      [] b = SUBSTITUTE -> [st EXCEPT !.ash.dropping = TRUE]
      [] b = XON -> st
      [] b = FLAG -> Completed(st)
      [] b \notin {CANCEL, SUBSTITUTE, XON, FLAG} /\ st.ash.dropping -> st
      [] b = ESCAPE /\ ~st.ash.dropping -> [st EXCEPT !.ash.escaping = TRUE]
      [] OTHER -> [st EXCEPT !.ash.buffer = Append(@, Plain(st.ash, b)),
                             !.ash.escaping = FALSE]

-----------------------------------------------------------------------------
(* StreamBytes.add *)

Behind(offset) == offset >= Modulus \div 2
V_OverlapNone(offset, n) == 0
Overlap(offset, n) == IF Behind(offset) THEN Modulus - offset ELSE 0

\* What is new of a segment of bytes from..from+n-1, given next_seq.
Add(st, from, n) ==
    LET seq == (isn + from) % Modulus
        next == IF st.stream.next = None THEN seq ELSE st.stream.next
        offset == (seq - next) % Modulus
        seen == Min({Overlap(offset, n), n})
        ahead == IF Behind(offset) THEN 0 ELSE offset
        new == SubSeq(Bytes, from + seen + 1, from + n)
        fed == FoldLeft(Feed, [ash |-> st.ash, frames |-> st.frames], new)
    IN [ash |-> fed.ash, frames |-> fed.frames,
        stream |-> [next |-> (next + ahead + Len(new)) % Modulus,
                    accepted |-> st.stream.accepted + Len(new),
                    duplicate |-> st.stream.duplicate + seen,
                    gap |-> st.stream.gap + ahead]]

\* _drain_records: the whole records at the head of the buffer.
Complete(buffer) == Len(buffer) \div 2

Drained(buffer) ==
    LET st == [ash |-> ash, frames |-> frames, stream |-> stream]
        records == [i \in 1..Complete(buffer) |-> buffer[2 * i - 1]]
    IN FoldLeft(LAMBDA a, r : Add(a, r.from, r.n), st, records)

-----------------------------------------------------------------------------

\* A segment, new or sent again, is captured: tcpdump writes its record.
Capture(from, n) ==
    /\ from >= 0 /\ from + n <= Len(Bytes) /\ from <= top
    /\ Len(wire) <= MaxQueued
    /\ from < top => repeats < MaxRepeats
    /\ repeats' = IF from < top THEN repeats + 1 ELSE repeats
    /\ top' = Max({top, from + n})
    /\ wire' = wire \o <<Record(from, n), Record(from, n)>>
    /\ UNCHANGED <<line, isn, reader, stream, ash, frames, lost, misses, sessions>>

\* ... or the capture misses it.
Miss(n) ==
    /\ misses < MaxMisses /\ misses' = misses + 1
    /\ top + n <= Len(Bytes) /\ top' = top + n
    /\ lost' = TRUE
    /\ UNCHANGED <<line, isn, wire, reader, stream, ash, frames, repeats, sessions>>

\* TapIngest.feed: some units arrive, the header of the stream first.
FeedReader(k) ==
    /\ k <= Len(wire)
    /\ wire' = SubSeq(wire, k + 1, Len(wire))
    /\ LET buffer == reader.buffer \o SubSeq(wire, 1, k)
           parse == ~reader.ready /\ Len(buffer) >= 2
           rest == IF parse THEN SubSeq(buffer, 3, Len(buffer)) ELSE buffer
           done == Drained(rest)
       IN IF reader.ready \/ parse
          THEN /\ reader' = [ready |-> TRUE,
                             buffer |-> SubSeq(rest, 2 * Complete(rest) + 1, Len(rest))]
               /\ stream' = done.stream /\ ash' = done.ash /\ frames' = done.frames
          ELSE /\ reader' = [reader EXCEPT !.buffer = buffer]
               /\ UNCHANGED <<stream, ash, frames>>
    /\ UNCHANGED <<line, isn, top, lost, misses, repeats, sessions>>

\* The agent's connection breaks: a new session has a new reader, the flow goes
\* on (register_agent, drop_agent).
Reconnect ==
    /\ sessions < MaxSessions /\ sessions' = sessions + 1
    /\ wire' = Preamble /\ reader' = NewReader
    /\ lost' = (lost \/ \E r \in Range(reader.buffer \o wire) : r.n > 0)
    /\ UNCHANGED <<line, isn, top, stream, ash, frames, misses, repeats>>

Next ==
    \/ \E n \in 1..MaxSegment : Miss(n) \/ \E from \in top - Reach..top : Capture(from, n)
    \/ \E k \in 1..MaxSegment : FeedReader(k)
    \/ Reconnect

Spec == Init /\ [][Next]_vars

-----------------------------------------------------------------------------

TypeOK ==
    /\ top \in 0..Len(Bytes) /\ reader.ready \in BOOLEAN
    /\ stream.next \in 0..Modulus - 1 \cup {None}
    /\ \A i \in DOMAIN frames : frames[i] \in Bodies

\* The frames sent whole within the first n bytes.
SentBy(n) ==
    LET end(i) == Len(FlattenSeq([j \in 1..i |-> line[j].bytes]))
    IN FlattenSeq([i \in DOMAIN line |-> IF end(i) <= n THEN line[i].carries ELSE <<>>])

\* Whatever the cuts, retransmissions, losses and sessions: the decoder gives
\* frames that were sent, in their order, none more often than it was sent; and
\* if every byte has come, all of them.  Nothing is lost to where a record, a
\* segment or a chunk happens to end.
FramesGenuine ==
    /\ LET sent == SentBy(top)
       IN \E at \in [DOMAIN frames -> DOMAIN sent] :
            /\ \A i \in DOMAIN frames : frames[i] = sent[at[i]]
            /\ \A i, j \in DOMAIN frames : i < j => at[i] < at[j]
    /\ ~lost /\ wire = <<>> /\ stream.next # None => frames = SentBy(top)

=============================================================================
