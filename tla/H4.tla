--------------------------------- MODULE H4 ---------------------------------
(***************************************************************************)
(* The H4 stream reassembler, common/h4.zig, shared by the firmware and    *)
(* the host daemon, together with the loop of its callers (bridge.zig      *)
(* 158-168, feedAll): a byte stream arrives in chunks of any size, each    *)
(* chunk is fed until it is used up, and every packet that feed returns is *)
(* handled before the next call.                                           *)
(***************************************************************************)
EXTENDS Integers, Sequences

CONSTANTS
    Streams,    \* the byte streams a connection may carry
    BufLen,     \* length of the caller's storage
    MaxChunk    \* longest chunk a read returns

Byte == 0..255

ASSUME StreamsAssumption == Streams \subseteq Seq(Byte)
ASSUME BufAssumption     == BufLen \in Nat /\ BufLen >= 1 + 4   \* line 75
ASSUME ChunkAssumption   == MaxChunk \in Nat \ {0}

VARIABLES
    buf,        \* buf[0..len] of the Reassembler
    stream,     \* the connection's bytes
    pos, lim,   \* bytes consumed so far; end of the chunk being fed
    pc,         \* "idle" between chunks, "feed" at a call, "loop" inside, "error"
    base,       \* history: where in stream the buffered bytes start
    out         \* history: the packet returned last, as [start, len]

vars == <<buf, stream, pos, lim, pc, base, out>>

NoPacket == [start |-> 0, len |-> 0]

TypeOK ==
    /\ buf \in Seq(Byte) /\ stream \in Streams
    /\ pos \in Nat /\ lim \in Nat /\ base \in Nat
    /\ pc \in {"idle", "feed", "loop", "error"}
    /\ out \in [start : Nat, len : Nat]

Init ==
    /\ stream \in Streams
    /\ buf = << >> /\ pos = 0 /\ lim = 0 /\ pc = "idle" /\ base = 0 /\ out = NoPacket

-----------------------------------------------------------------------------
(* totalLen and its parts.  Results that are not lengths are negative.     *)
Null         == -1
UnknownType  == -2
TooLarge     == -3

KnownType(b) == b \in 1..5
\* Mutant: the SCO header is taken for an ACL header.
HeaderLenSwapped(b) == <<3, 4, 4, 2, 4>>[b]
HeaderLen(b) == <<3, 4, 3, 2, 4>>[b]

(* p starts with the indicator byte, the header follows (lines 40-50).     *)
PayloadLen(p) ==
    CASE p[1] = 1 -> p[4]
      [] p[1] = 3 -> p[4]
      [] p[1] = 4 -> p[3]
      [] p[1] = 2 -> p[4] + 256 * p[5]
      [] p[1] = 5 -> (p[4] + 256 * p[5]) % 16384

\* Mutant: the packet is not held against the storage.
FitsUnchecked(t) == t
Fits(t) == IF t > BufLen THEN TooLarge ELSE t

TotalLen(p) ==
    CASE Len(p) = 0                                         -> Null
      [] Len(p) > 0 /\ ~KnownType(p[1])                     -> UnknownType
      [] Len(p) > 0 /\ KnownType(p[1]) /\ Len(p) <= HeaderLen(p[1]) -> Null
      [] OTHER -> Fits(1 + HeaderLen(p[1]) + PayloadLen(p))

Least(a, b) == IF a < b THEN a ELSE b

-----------------------------------------------------------------------------
(* A read returned bytes: the caller starts feeding them.                  *)
Recv ==
    /\ pc = "idle" /\ lim < Len(stream)
    /\ \E n \in 1..MaxChunk : lim' = Least(lim + n, Len(stream))
    /\ pc' = "feed"
    /\ UNCHANGED <<buf, stream, pos, base, out>>

(* An error reaches the caller, which resets the reassembler and drops the *)
(* connection (bridge.zig 160-165).                                        *)
Fail == pc' = "error" /\ buf' = << >> /\ UNCHANGED <<stream, pos, lim, base, out>>

\* Mutant: the packet returned by the previous call stays in the buffer.
DiscardSkipped == UNCHANGED <<buf, base>>
(* Lines 98-101: the packet that the previous call returned is let go.     *)
Discard == IF TotalLen(buf) = Len(buf) THEN buf' = << >> /\ base' = pos
                                       ELSE UNCHANGED <<buf, base>>

FeedStart ==
    /\ pc = "feed"
    /\ IF TotalLen(buf) \in {UnknownType, TooLarge} THEN Fail
       ELSE /\ Discard
            /\ pc' = "loop"
            /\ UNCHANGED <<stream, pos, lim, out>>

\* Mutant: the bytes already buffered are not subtracted.
WantWhole == IF TotalLen(buf) > 0 THEN TotalLen(buf)
             ELSE IF buf = << >> THEN 1 ELSE 1 + HeaderLen(buf[1]) - Len(buf)
(* Lines 106-111: what is missing of the packet, or else of the header.    *)
Want == IF TotalLen(buf) > 0 THEN TotalLen(buf) - Len(buf)
        ELSE IF buf = << >> THEN 1 ELSE 1 + HeaderLen(buf[1]) - Len(buf)

Next1(b, p) == IF TotalLen(b) = Len(b) /\ p < lim THEN "feed"
               ELSE IF p < lim THEN "loop" ELSE "idle"

(* Lines 104-123, one turn.  A completed packet is returned to the caller, *)
(* which feeds the rest of the chunk.                                      *)
FeedLoop ==
    /\ pc = "loop"
    /\ IF TotalLen(buf) \in {UnknownType, TooLarge} THEN Fail
       ELSE LET n    == Least(Want, lim - pos)
                nbuf == buf \o SubSeq(stream, pos + 1, pos + n)
                t    == TotalLen(nbuf)
            IN  IF t \in {UnknownType, TooLarge}
                THEN /\ pc' = "error" /\ buf' = << >> /\ pos' = pos + n
                     /\ UNCHANGED <<stream, lim, base, out>>
                ELSE /\ buf' = nbuf
                     /\ pos' = pos + n
                     /\ out' = IF t = Len(nbuf) THEN [start |-> base, len |-> t] ELSE out
                     /\ pc' = Next1(nbuf, pos + n)
                     /\ UNCHANGED <<stream, lim, base>>

(* Another host connects: acceptClient resets the reassembler (line 196).  *)
Reconnect ==
    /\ pc \in {"idle", "error"}
    /\ stream' \in Streams
    /\ buf' = << >> /\ pos' = 0 /\ lim' = 0 /\ pc' = "idle" /\ base' = 0 /\ out' = NoPacket

Next == Recv \/ FeedStart \/ FeedLoop \/ Reconnect

Spec == Init /\ [][Next]_vars

(* feed is a plain loop: a task that has entered it keeps running.         *)
FairSpec == Spec /\ WF_vars(FeedStart \/ FeedLoop)

-----------------------------------------------------------------------------
(* Reference: the packet formats of the Bluetooth Core Specification, UART *)
(* transport, as length of the header, place and width of its length field.*)
Format == [t \in 1..5 |-> CASE t = 1 -> [hdr |-> 3, at |-> 3, bits |-> 8]
                            [] t = 2 -> [hdr |-> 4, at |-> 3, bits |-> 16]
                            [] t = 3 -> [hdr |-> 3, at |-> 3, bits |-> 8]
                            [] t = 4 -> [hdr |-> 2, at |-> 2, bits |-> 8]
                            [] t = 5 -> [hdr |-> 4, at |-> 3, bits |-> 14]]

Field(s, b, f) == CASE f.bits = 8  -> s[b + 1 + f.at]
                    [] f.bits = 16 -> s[b + 1 + f.at] + 256 * s[b + 2 + f.at]
                    [] f.bits = 14 -> s[b + 1 + f.at] + 256 * (s[b + 2 + f.at] % 64)

(* The packet that starts after the first b bytes of s: enough bytes are   *)
(* there to know its length, and its length.                               *)
Typed(s, b)   == b < Len(s) /\ s[b + 1] \in 1..5
Headed(s, b)  == Typed(s, b) /\ b + 1 + Format[s[b + 1]].hdr <= Len(s)
FrameLen(s, b) == 1 + Format[s[b + 1]].hdr + Field(s, b, Format[s[b + 1]])

(* The packets delivered are the ones a parser of the whole stream would   *)
(* cut, whatever the chunks: the buffer is the stretch of the stream since *)
(* the last packet, and each packet ends where the next one starts.  A     *)
(* stream is refused only for what it is, at a packet boundary: an         *)
(* indicator byte that is none, or a packet longer than the storage.       *)
FramesExact ==
    /\ pc # "error" => buf = SubSeq(stream, base + 1, pos)
    /\ out.len > 0 => /\ Headed(stream, out.start)
                      /\ out.len = FrameLen(stream, out.start)
                      /\ out.start + out.len \in {base, pos}
    /\ out.len = 0 => base = 0
    /\ pc = "error" => \/ base < Len(stream) /\ stream[base + 1] \notin 1..5
                       \/ Headed(stream, base) /\ FrameLen(stream, base) > BufLen

(* feed never writes past the caller's storage, nor past the packet: each  *)
(* turn of its loop has something to copy and room for it (106-116).       *)
CopyInRange ==
    /\ Len(buf) <= BufLen
    /\ pc = "loop" /\ TotalLen(buf) \notin {UnknownType, TooLarge}
         => Want >= 1 /\ Len(buf) + Want <= BufLen

(* A caller that feeds a chunk gets through it: no call returns without    *)
(* consuming, forever (bridge.zig 159, h4.zig 131).                        *)
ChunkConsumed == pc = "feed" ~> pc \in {"idle", "error"}
=============================================================================
