------------------------------ MODULE H4Proofs ------------------------------
(***************************************************************************)
(* Proofs about H4, for every stream of bytes, every storage that holds a  *)
(* header and every way to cut the stream into chunks.                     *)
(***************************************************************************)
EXTENDS H4, SequenceTheorems, TLAPS

(* The header is in the buffer, and the length it announces.               *)
HdrIn(p) == Len(p) > 0 /\ KnownType(p[1]) /\ Len(p) > HeaderLen(p[1])
Full(p)  == 1 + HeaderLen(p[1]) + PayloadLen(p)

Whole(p) == TotalLen(p) = Len(p)
Error(p) == TotalLen(p) \in {UnknownType, TooLarge}

(* Between two calls and inside the loop the buffer is the stretch of the  *)
(* stream since base; it holds no more than one packet, and no error.      *)
BufInv ==
    /\ base <= pos /\ pos <= lim /\ lim <= Len(stream)
    /\ pc = "error" => buf = << >>
    /\ pc # "error" => /\ buf = SubSeq(stream, base + 1, pos) /\ ~Error(buf)
                       /\ TotalLen(buf) > 0 => Len(buf) <= TotalLen(buf)
    /\ pc = "idle" => pos = lim
    /\ pc \in {"feed", "loop"} => pos < lim
    /\ pc = "loop" => ~Whole(buf)

(* The packet returned last is the buffered one, or ends where it starts.  *)
OutInv ==
    /\ pc # "error" /\ Whole(buf) => out = [start |-> base, len |-> Len(buf)]
    /\ out.len > 0 => /\ Headed(stream, out.start) /\ out.len = FrameLen(stream, out.start)
                      /\ pc = "error" \/ ~Whole(buf) => out.start + out.len = base
    /\ out.len = 0 => base = 0
    /\ pc = "error" => \/ base < Len(stream) /\ stream[base + 1] \notin 1..5
                       \/ Headed(stream, base) /\ FrameLen(stream, base) > BufLen

FrameInv == TypeOK /\ BufInv /\ OutInv

(* The lengths that a header can have and announce.                        *)
LEMMA HeaderBounds == \A b \in 1..5 : HeaderLen(b) \in 2..4 /\ HeaderLen(b) = Format[b].hdr
BY DEF HeaderLen, Format

LEMMA PayloadNat ==
    ASSUME NEW p \in Seq(Byte), HdrIn(p)
    PROVE  PayloadLen(p) \in Nat
<1>0. \A x \in Byte : x \in Nat BY DEF Byte
<1>1. p[1] \in 1..5 /\ Len(p) \in Nat /\ Len(p) > HeaderLen(p[1]) BY DEF HdrIn, KnownType
<1>2. \A i \in 1..Len(p) : p[i] \in Byte BY ElementOfSeq
<1>3. CASE p[1] \in {1, 3}
  <2>1. 4 \in 1..Len(p) BY <1>1, <1>3 DEF HeaderLen
  <2>2. p[4] \in Byte BY <1>2, <2>1
  <2>3. PayloadLen(p) = p[4] BY <1>3 DEF PayloadLen
  <2> QED BY <1>0, <2>2, <2>3, Zenon
<1>4. CASE p[1] = 4
  <2>1. 3 \in 1..Len(p) BY <1>1, <1>4 DEF HeaderLen
  <2>2. p[3] \in Byte BY <1>2, <2>1
  <2>3. PayloadLen(p) = p[3] BY <1>4 DEF PayloadLen
  <2> QED BY <1>0, <2>2, <2>3, Zenon
<1>5. CASE p[1] \in {2, 5}
  <2>1. 4 \in 1..Len(p) /\ 5 \in 1..Len(p) BY <1>1, <1>5 DEF HeaderLen
  <2>2. p[4] \in Byte /\ p[5] \in Byte BY <1>2, <2>1
  <2>3. PICK a \in Byte, b \in Byte : a = p[4] /\ b = p[5] BY <2>2
  <2>4. PICK u \in Nat, v \in Nat : u = a + 256 * b /\ v = (a + 256 * b) % 16384 BY DEF Byte
  <2>5. PayloadLen(p) = u \/ PayloadLen(p) = v BY <1>5, <2>3, <2>4 DEF PayloadLen
  <2> QED BY <2>5, Zenon
<1> QED BY <1>1, <1>3, <1>4, <1>5

(* totalLen by cases.                                                      *)
LEMMA TotalCases ==
    ASSUME NEW p \in Seq(Byte)
    PROVE  /\ Len(p) = 0 => TotalLen(p) = Null
           /\ Len(p) > 0 /\ ~KnownType(p[1]) => TotalLen(p) = UnknownType
           /\ Len(p) > 0 /\ KnownType(p[1]) /\ Len(p) <= HeaderLen(p[1]) => TotalLen(p) = Null
           /\ HdrIn(p) => /\ Full(p) \in Nat /\ Full(p) >= 1 + HeaderLen(p[1])
                          /\ Full(p) > BufLen => TotalLen(p) = TooLarge
                          /\ Full(p) <= BufLen => TotalLen(p) = Full(p)
<1>1. Len(p) \in Nat OBVIOUS
<1>2. Len(p) = 0 => TotalLen(p) = Null BY DEF TotalLen
<1>3. Len(p) > 0 /\ ~KnownType(p[1]) => TotalLen(p) = UnknownType BY <1>1 DEF TotalLen
<1>4. Len(p) > 0 /\ KnownType(p[1]) /\ Len(p) <= HeaderLen(p[1]) => TotalLen(p) = Null
  BY <1>1 DEF TotalLen
<1>5. ASSUME HdrIn(p)
      PROVE  /\ Full(p) \in Nat /\ Full(p) >= 1 + HeaderLen(p[1])
             /\ Full(p) > BufLen => TotalLen(p) = TooLarge
             /\ Full(p) <= BufLen => TotalLen(p) = Full(p)
  <2>1. PayloadLen(p) \in Nat BY <1>5, PayloadNat
  <2>2. HeaderLen(p[1]) \in 2..4 BY <1>5, HeaderBounds DEF HdrIn, KnownType
  <2>3. Full(p) \in Nat /\ Full(p) >= 1 + HeaderLen(p[1]) BY <2>1, <2>2 DEF Full
  <2>4. TotalLen(p) = Fits(Full(p))
    <3>1. Len(p) # 0 /\ KnownType(p[1]) /\ ~(Len(p) <= HeaderLen(p[1]))
      BY <1>1, <1>5, <2>2 DEF HdrIn
    <3> QED BY <3>1 DEF TotalLen, Full
  <2> QED BY <2>3, <2>4, BufAssumption DEF Fits
<1> QED BY <1>2, <1>3, <1>4, <1>5

(* The upper two bits of an ISO length are reserved.                       *)
LEMMA FourteenBits == \A a, b \in 0..255 : (a + 256 * b) % 16384 = a + 256 * (b % 64)
OBVIOUS

(* A stretch of the stream, byte by byte.                                  *)
LEMMA Stretch ==
    ASSUME NEW s \in Seq(Byte), NEW b \in Nat, NEW e \in Nat, b <= e, e <= Len(s)
    PROVE  /\ SubSeq(s, b + 1, e) \in Seq(Byte) /\ Len(SubSeq(s, b + 1, e)) = e - b
           /\ \A i \in 1..(e - b) : SubSeq(s, b + 1, e)[i] = s[b + i]
<1>1. Len(s) \in Nat /\ \A i \in (b + 1)..e : i \in 1..Len(s) OBVIOUS
<1>2. \A i \in (b + 1)..e : s[i] \in Byte BY <1>1, ElementOfSeq
<1>3. /\ SubSeq(s, b + 1, e) \in Seq(Byte)
      /\ Len(SubSeq(s, b + 1, e)) = IF b + 1 <= e THEN e - (b + 1) + 1 ELSE 0
      /\ \A i \in 1..(e - (b + 1) + 1) : SubSeq(s, b + 1, e)[i] = s[(b + 1) + i - 1]
  BY <1>2, SubSeqProperties
<1>4. e - (b + 1) + 1 = e - b OBVIOUS
<1>5. \A i \in 1..(e - b) : (b + 1) + i - 1 = b + i OBVIOUS
<1> QED BY <1>3, <1>4, <1>5

(* What totalLen computes from a stretch is what the packet formats say of *)
(* the stream at its start.                                                *)
LEMMA FrameAgrees ==
    ASSUME NEW s \in Seq(Byte), NEW b \in Nat, NEW p \in Seq(Byte),
           b + Len(p) <= Len(s), \A i \in 1..Len(p) : p[i] = s[b + i], HdrIn(p)
    PROVE  Headed(s, b) /\ Full(p) = FrameLen(s, b)
<1>1. /\ p[1] \in 1..5 /\ Len(p) \in Nat /\ Len(s) \in Nat
      /\ Len(p) > HeaderLen(p[1]) /\ HeaderLen(p[1]) \in 2..4 /\ HeaderLen(p[1]) = Format[p[1]].hdr
  BY HeaderBounds DEF HdrIn, KnownType
<1>2. s[b + 1] = p[1] /\ s[b + 2] = p[2] /\ s[b + 3] = p[3]
  <2>1. 1 \in 1..Len(p) /\ 2 \in 1..Len(p) /\ 3 \in 1..Len(p) BY <1>1
  <2> QED BY <2>1
<1>3. b < Len(s) /\ b + 1 + HeaderLen(p[1]) <= Len(s) BY <1>1
<1>4. Headed(s, b) BY <1>1, <1>2, <1>3 DEF Headed, Typed
<1>5. FrameLen(s, b) = 1 + HeaderLen(p[1]) + Field(s, b, Format[p[1]])
  BY <1>1, <1>2 DEF FrameLen
<1>6. Field(s, b, Format[p[1]]) = PayloadLen(p)
  <2>1. CASE p[1] \in {1, 3}
    <3>1. 4 \in 1..Len(p) BY <1>1, <2>1 DEF HeaderLen
    <3>2. s[b + 4] = p[4] BY <3>1
    <3>3. Format[p[1]] = [hdr |-> 3, at |-> 3, bits |-> 8] BY <2>1 DEF Format
    <3>4. b + 1 + 3 = b + 4 OBVIOUS
    <3>5. Field(s, b, Format[p[1]]) = p[4] BY <3>2, <3>3, <3>4 DEF Field
    <3>6. PayloadLen(p) = p[4] BY <2>1 DEF PayloadLen
    <3> QED BY <3>5, <3>6
  <2>2. CASE p[1] = 4
    <3>1. Format[p[1]] = [hdr |-> 2, at |-> 2, bits |-> 8] BY <2>2 DEF Format
    <3>2. b + 1 + 2 = b + 3 OBVIOUS
    <3>3. Field(s, b, Format[p[1]]) = p[3] BY <1>2, <3>1, <3>2 DEF Field
    <3>4. PayloadLen(p) = p[3] BY <2>2 DEF PayloadLen
    <3> QED BY <3>3, <3>4
  <2>3. CASE p[1] \in {2, 5}
    <3>1. 4 \in 1..Len(p) /\ 5 \in 1..Len(p) BY <1>1, <2>3 DEF HeaderLen
    <3>2. s[b + 4] = p[4] /\ s[b + 5] = p[5] BY <3>1
    <3>3. b + 1 + 3 = b + 4 /\ b + 2 + 3 = b + 5 OBVIOUS
    <3>4. CASE p[1] = 2
      <4>1. Format[p[1]] = [hdr |-> 4, at |-> 3, bits |-> 16] BY <3>4 DEF Format
      <4>2. Field(s, b, Format[p[1]]) = p[4] + 256 * p[5] BY ONLY <3>2, <3>3, <4>1 DEF Field
      <4>3. PayloadLen(p) = p[4] + 256 * p[5] BY <3>4 DEF PayloadLen
      <4> QED BY <4>2, <4>3
    <3>5. CASE p[1] = 5
      <4>1. Format[p[1]] = [hdr |-> 4, at |-> 3, bits |-> 14] BY <3>5 DEF Format
      <4>2. Field(s, b, Format[p[1]]) = p[4] + 256 * (p[5] % 64) BY <3>2, <3>3, <4>1 DEF Field
      <4>3. PayloadLen(p) = (p[4] + 256 * p[5]) % 16384 BY <3>5 DEF PayloadLen
      <4>4. p[4] \in 0..255 /\ p[5] \in 0..255
        <5>1. p[4] \in Byte /\ p[5] \in Byte BY <3>1, ElementOfSeq
        <5> QED BY <5>1 DEF Byte
      <4>5. (p[4] + 256 * p[5]) % 16384 = p[4] + 256 * (p[5] % 64)
        <5>1. PICK x \in 0..255, y \in 0..255 : x = p[4] /\ y = p[5] BY <4>4
        <5>2. (x + 256 * y) % 16384 = x + 256 * (y % 64) BY FourteenBits
        <5> QED BY <5>1, <5>2
      <4> QED BY <4>2, <4>3, <4>5
    <3> QED BY <2>3, <3>4, <3>5
  <2> QED BY <1>1, <2>1, <2>2, <2>3
<1> QED BY <1>4, <1>5, <1>6 DEF Full

(* What feed asks for next, as a function of the buffer.                   *)
WantOf(p) == IF TotalLen(p) > 0 THEN TotalLen(p) - Len(p)
             ELSE IF p = << >> THEN 1 ELSE 1 + HeaderLen(p[1]) - Len(p)

LEMMA EmptyBuffer == << >> \in Seq(Byte) /\ Len(<< >>) = 0 /\ TotalLen(<< >>) = Null
                     /\ ~Error(<< >>) /\ ~Whole(<< >>) /\ ~(TotalLen(<< >>) > 0)
<1>1. << >> \in Seq(Byte) /\ Len(<< >>) = 0 OBVIOUS
<1>2. TotalLen(<< >>) = Null BY <1>1, TotalCases
<1> QED BY <1>1, <1>2 DEF Error, Whole, Null, UnknownType, TooLarge

(* A length is announced by a complete header, and fits the storage.       *)
LEMMA PositiveTotal ==
    ASSUME NEW p \in Seq(Byte), TotalLen(p) > 0
    PROVE  HdrIn(p) /\ Full(p) \in Nat /\ TotalLen(p) = Full(p) /\ Full(p) <= BufLen
           /\ Full(p) >= 1 + HeaderLen(p[1])
<1>1. Len(p) \in Nat OBVIOUS
<1>2. ASSUME Len(p) > 0, KnownType(p[1]) PROVE HeaderLen(p[1]) \in 2..4
  BY <1>2, HeaderBounds DEF KnownType
<1>3. HdrIn(p)
  BY <1>1, <1>2, TotalCases DEF HdrIn, Null, UnknownType
<1>4. Full(p) \in Nat /\ Full(p) >= 1 + HeaderLen(p[1]) /\ (Full(p) > BufLen => TotalLen(p) = TooLarge)
      /\ (Full(p) <= BufLen => TotalLen(p) = Full(p))
  BY <1>3, TotalCases
<1>5. ~(Full(p) > BufLen) BY <1>4 DEF TooLarge
<1> QED BY <1>3, <1>4, <1>5, BufAssumption

(* Lines 106-111: there is something to copy, there is room for it, and it *)
(* completes the packet, the header or the indicator byte.                 *)
LEMMA Missing ==
    ASSUME NEW p \in Seq(Byte), ~Error(p), ~Whole(p), TotalLen(p) > 0 => Len(p) <= TotalLen(p)
    PROVE  /\ WantOf(p) \in Nat /\ WantOf(p) >= 1 /\ Len(p) + WantOf(p) <= BufLen
           /\ \/ HdrIn(p) /\ Len(p) + WantOf(p) = Full(p)
              \/ Len(p) = 0 /\ WantOf(p) = 1
              \/ Len(p) > 0 /\ KnownType(p[1]) /\ Len(p) + WantOf(p) = 1 + HeaderLen(p[1])
<1>0. Len(p) \in Nat /\ BufLen \in Nat /\ BufLen >= 5 BY BufAssumption
<1>1. CASE TotalLen(p) > 0
  <2>1. HdrIn(p) /\ Full(p) \in Nat /\ TotalLen(p) = Full(p) /\ Full(p) <= BufLen
    BY <1>1, PositiveTotal
  <2>2. WantOf(p) = Full(p) - Len(p) BY <1>1, <2>1 DEF WantOf
  <2>3. Len(p) <= Full(p) /\ Len(p) # Full(p) BY <1>1, <2>1 DEF Whole
  <2> QED BY <1>0, <2>1, <2>2, <2>3
<1>2. CASE ~(TotalLen(p) > 0) /\ Len(p) = 0
  <2>1. p = << >> BY <1>2, EmptySeq
  <2>2. WantOf(p) = 1 BY <1>2, <2>1 DEF WantOf
  <2> QED BY <1>0, <1>2, <2>2
<1>3. CASE ~(TotalLen(p) > 0) /\ Len(p) > 0
  <2>1. KnownType(p[1]) BY <1>3, TotalCases DEF Error
  <2>2. HeaderLen(p[1]) \in 2..4 BY <2>1, HeaderBounds DEF KnownType
  <2>3. ~HdrIn(p)
    <3> SUFFICES ASSUME HdrIn(p) PROVE FALSE OBVIOUS
    <3>1. Full(p) \in Nat /\ Full(p) >= 1 + HeaderLen(p[1])
          /\ (Full(p) > BufLen => TotalLen(p) = TooLarge) /\ (Full(p) <= BufLen => TotalLen(p) = Full(p))
      BY TotalCases
    <3>2. ~(Full(p) > BufLen) BY <3>1 DEF Error
    <3> QED BY <1>0, <1>3, <2>2, <3>1, <3>2
  <2>4. Len(p) <= HeaderLen(p[1]) BY <1>0, <1>3, <2>1, <2>2, <2>3 DEF HdrIn
  <2>5. p # << >> BY <1>3
  <2>6. WantOf(p) = 1 + HeaderLen(p[1]) - Len(p) BY <1>3, <2>5 DEF WantOf
  <2> QED BY <1>0, <1>3, <2>1, <2>2, <2>4, <2>6
<1> QED BY <1>0, <1>1, <1>2, <1>3

(* What a stretch that is an error, or a whole packet, says of the stream. *)
LEMMA Verdict ==
    ASSUME NEW s \in Seq(Byte), NEW b \in Nat, NEW f \in Nat, b <= f, f <= Len(s),
           NEW q, q = SubSeq(s, b + 1, f)
    PROVE  /\ Error(q) => \/ b < Len(s) /\ s[b + 1] \notin 1..5
                          \/ Headed(s, b) /\ FrameLen(s, b) > BufLen
           /\ Whole(q) => Headed(s, b) /\ Len(q) = FrameLen(s, b) /\ Len(q) > 0
<1>1. q \in Seq(Byte) /\ Len(q) = f - b /\ \A i \in 1..Len(q) : q[i] = s[b + i] BY Stretch
<1>2. b + Len(q) <= Len(s) /\ Len(q) \in Nat /\ Len(s) \in Nat BY <1>1
<1>3. Len(q) > 0 => q[1] = s[b + 1] BY <1>1, <1>2
<1>4. HdrIn(q) => Headed(s, b) /\ Full(q) = FrameLen(s, b) BY <1>1, <1>2, FrameAgrees
<1>5. ASSUME Error(q)
      PROVE  (b < Len(s) /\ s[b + 1] \notin 1..5) \/ (Headed(s, b) /\ FrameLen(s, b) > BufLen)
  <2>0. Len(q) = 0 => TotalLen(q) = Null BY <1>1, TotalCases
  <2>1. Len(q) > 0 BY <1>2, <1>5, <2>0 DEF Error, Null, UnknownType, TooLarge
  <2>2. CASE ~KnownType(q[1]) BY <1>2, <1>3, <2>1, <2>2 DEF KnownType
  <2>3. CASE KnownType(q[1])
    <3>1. HeaderLen(q[1]) \in 2..4 BY <2>3, HeaderBounds DEF KnownType
    <3>2. HdrIn(q)
      <4>0. Len(q) <= HeaderLen(q[1]) => TotalLen(q) = Null BY <1>1, <2>1, <2>3, TotalCases
      <4>1. TotalLen(q) # Null BY <1>5 DEF Error, Null, UnknownType, TooLarge
      <4> QED BY <1>2, <2>1, <2>3, <3>1, <4>0, <4>1 DEF HdrIn
    <3>3. Full(q) \in Nat /\ (Full(q) <= BufLen => TotalLen(q) = Full(q)) BY <1>1, <3>2, TotalCases
    <3>4. Full(q) > BufLen
      BY <1>5, <3>3, BufAssumption DEF Error, UnknownType, TooLarge
    <3> QED BY <1>4, <3>2, <3>4
  <2> QED BY <2>2, <2>3
<1>6. ASSUME Whole(q) PROVE Headed(s, b) /\ Len(q) = FrameLen(s, b) /\ Len(q) > 0
  <2>0. Len(q) = 0 => TotalLen(q) = Null BY <1>1, TotalCases
  <2>1. Len(q) > 0 BY <1>2, <1>6, <2>0 DEF Whole, Null
  <2>2. TotalLen(q) > 0 BY <1>6, <2>1 DEF Whole
  <2>3. HdrIn(q) /\ TotalLen(q) = Full(q) BY <1>1, <2>2, PositiveTotal
  <2> QED BY <1>4, <1>6, <2>1, <2>3 DEF Whole
<1> QED BY <1>5, <1>6

(* A copy of at most WantOf(p) bytes never runs past the packet.           *)
LEMMA Grown ==
    ASSUME NEW s \in Seq(Byte), NEW b \in Nat, NEW e \in Nat, NEW f \in Nat,
           b <= e, e < f, f <= Len(s),
           NEW p, p = SubSeq(s, b + 1, e), NEW q, q = SubSeq(s, b + 1, f),
           ~Error(p), ~Whole(p), TotalLen(p) > 0 => Len(p) <= TotalLen(p),
           f - e <= WantOf(p), TotalLen(q) > 0
    PROVE  Len(q) <= TotalLen(q)
<1>1. p \in Seq(Byte) /\ Len(p) = e - b /\ \A i \in 1..Len(p) : p[i] = s[b + i]
  <2>1. e <= Len(s) OBVIOUS
  <2>2. /\ SubSeq(s, b + 1, e) \in Seq(Byte) /\ Len(SubSeq(s, b + 1, e)) = e - b
        /\ \A i \in 1..(e - b) : SubSeq(s, b + 1, e)[i] = s[b + i]
    BY ONLY <2>1, s \in Seq(Byte), b \in Nat, e \in Nat, b <= e, Stretch
  <2> QED BY ONLY <2>2, p = SubSeq(s, b + 1, e), Zenon
<1>2. q \in Seq(Byte) /\ Len(q) = f - b /\ \A i \in 1..Len(q) : q[i] = s[b + i]
  <2>1. b <= f OBVIOUS
  <2>2. /\ SubSeq(s, b + 1, f) \in Seq(Byte) /\ Len(SubSeq(s, b + 1, f)) = f - b
        /\ \A i \in 1..(f - b) : SubSeq(s, b + 1, f)[i] = s[b + i]
    BY ONLY <2>1, s \in Seq(Byte), b \in Nat, f \in Nat, f <= Len(s), Stretch
  <2> QED BY ONLY <2>2, q = SubSeq(s, b + 1, f), Zenon
<1>3. HdrIn(q) /\ Full(q) \in Nat /\ TotalLen(q) = Full(q) /\ Full(q) >= 1 + HeaderLen(q[1])
  BY <1>2, PositiveTotal
<1>4. /\ WantOf(p) \in Nat
      /\ \/ HdrIn(p) /\ Len(p) + WantOf(p) = Full(p)
         \/ Len(p) = 0 /\ WantOf(p) = 1
         \/ Len(p) > 0 /\ KnownType(p[1]) /\ Len(p) + WantOf(p) = 1 + HeaderLen(p[1])
  BY <1>1, Missing
<1>5. Len(p) \in Nat /\ Len(q) \in Nat /\ Len(q) <= Len(p) + WantOf(p)
  <2>1. PICK w \in Nat : w = WantOf(p) BY <1>4
  <2>2. f - e <= w BY <2>1
  <2>3. f - b \in Nat /\ e - b \in Nat /\ f - b <= (e - b) + w BY <2>2
  <2>4. Len(p) = e - b /\ Len(q) = f - b BY <1>1, <1>2
  <2> QED BY <2>1, <2>3, <2>4
<1>6. HeaderLen(q[1]) \in 2..4 BY <1>3, HeaderBounds DEF HdrIn, KnownType
<1>7. CASE HdrIn(p) /\ Len(p) + WantOf(p) = Full(p)
  <2>1. b + Len(p) <= Len(s) /\ b + Len(q) <= Len(s) BY <1>1, <1>2
  <2>2. Full(p) = FrameLen(s, b) BY <1>1, <1>7, <2>1, FrameAgrees
  <2>3. Full(q) = FrameLen(s, b) BY <1>2, <1>3, <2>1, FrameAgrees
  <2> QED BY <1>3, <1>5, <1>7, <2>2, <2>3
<1>8. CASE Len(p) = 0 /\ WantOf(p) = 1 BY <1>3, <1>5, <1>6, <1>8
<1>9. CASE Len(p) > 0 /\ KnownType(p[1]) /\ Len(p) + WantOf(p) = 1 + HeaderLen(p[1])
  <2>1. 1 \in 1..Len(p) /\ 1 \in 1..Len(q) BY <1>1, <1>2, <1>9
  <2>2. p[1] = q[1] BY <1>1, <1>2, <2>1
  <2> QED BY <1>3, <1>5, <1>6, <1>9, <2>2
<1> QED BY <1>4, <1>7, <1>8, <1>9

-----------------------------------------------------------------------------
(* A fresh connection: nothing received, nothing buffered.                 *)
LEMMA FrameFresh ==
    ASSUME stream \in Streams, buf = << >>, pos = 0, lim = 0, pc = "idle", base = 0, out = NoPacket
    PROVE  FrameInv
<1>1. stream \in Seq(Byte) BY StreamsAssumption
<1>2. Len(stream) \in Nat BY <1>1
<1>3. << >> \in Seq(Byte) /\ ~Error(<< >>) /\ ~Whole(<< >>) /\ ~(TotalLen(<< >>) > 0) BY EmptyBuffer
<1>4. TypeOK BY <1>3 DEF TypeOK, NoPacket
<1>5. BufInv
  <2>1. SubSeq(stream, base + 1, pos) = << >> BY <1>1, SubSeqEmpty
  <2>2. base <= pos /\ pos <= lim /\ lim <= Len(stream) BY <1>2
  <2> QED BY <1>3, <2>1, <2>2 DEF BufInv
<1>6. OutInv BY <1>3 DEF OutInv, NoPacket
<1> QED BY <1>4, <1>5, <1>6 DEF FrameInv

LEMMA FrameRecv == FrameInv /\ Recv => FrameInv'
<1> SUFFICES ASSUME FrameInv, Recv PROVE FrameInv' OBVIOUS
<1>0. TypeOK /\ BufInv /\ OutInv BY DEF FrameInv
<1>1. pc = "idle" /\ lim < Len(stream) /\ pc' = "feed" /\ buf' = buf /\ stream' = stream
      /\ pos' = pos /\ base' = base /\ out' = out
  BY DEF Recv
<1>2. stream \in Seq(Byte) /\ Len(stream) \in Nat /\ pos \in Nat /\ lim \in Nat /\ base \in Nat
  BY <1>0, StreamsAssumption DEF TypeOK
<1>3. lim' \in Nat /\ lim < lim' /\ lim' <= Len(stream)
  <2>1. PICK n \in 1..MaxChunk : lim' = Least(lim + n, Len(stream)) BY DEF Recv
  <2> QED BY <1>1, <1>2, <2>1, ChunkAssumption DEF Least
<1>4. TypeOK' BY <1>0, <1>1, <1>3 DEF TypeOK
<1>5. base <= pos /\ pos = lim /\ buf = SubSeq(stream, base + 1, pos) /\ ~Error(buf)
      /\ (TotalLen(buf) > 0 => Len(buf) <= TotalLen(buf))
  BY <1>0, <1>1 DEF BufInv
<1>6. base' <= pos' /\ pos' < lim' /\ pos' <= lim' /\ lim' <= Len(stream')
  BY <1>1, <1>2, <1>3, <1>5
<1>7. ~Error(buf') /\ (Whole(buf') <=> Whole(buf)) /\ TotalLen(buf') = TotalLen(buf)
  BY <1>1, <1>5 DEF Error, Whole
<1>8. BufInv' BY <1>1, <1>5, <1>6, <1>7 DEF BufInv
<1>9. OutInv' BY <1>0, <1>1, <1>7 DEF OutInv
<1> QED BY <1>4, <1>8, <1>9 DEF FrameInv

(* Lines 94-102: the packet returned by the last call is let go.           *)
LEMMA FrameFeedStart == FrameInv /\ FeedStart => FrameInv'
<1> SUFFICES ASSUME FrameInv, FeedStart PROVE FrameInv' OBVIOUS
<1>0. TypeOK /\ BufInv /\ OutInv BY DEF FrameInv
<1>1. pc = "feed" BY DEF FeedStart
<1>2. stream \in Seq(Byte) /\ Len(stream) \in Nat /\ pos \in Nat /\ lim \in Nat /\ base \in Nat
      /\ buf \in Seq(Byte)
  BY <1>0, StreamsAssumption DEF TypeOK
<1>3. base <= pos /\ pos <= lim /\ pos < lim /\ lim <= Len(stream)
      /\ buf = SubSeq(stream, base + 1, pos) /\ ~Error(buf)
      /\ (TotalLen(buf) > 0 => Len(buf) <= TotalLen(buf))
  BY <1>0, <1>1 DEF BufInv
<1>4. Discard /\ pc' = "loop" /\ stream' = stream /\ pos' = pos /\ lim' = lim /\ out' = out
  BY <1>3 DEF FeedStart, Error
<1>5. CASE Whole(buf)
  <2>1. buf' = << >> /\ base' = pos BY <1>4, <1>5 DEF Discard, Whole
  <2>2. buf' \in Seq(Byte) /\ ~Error(buf') /\ ~Whole(buf') /\ ~(TotalLen(buf') > 0)
    BY <2>1, EmptyBuffer
  <2>3. TypeOK' BY <1>0, <1>4, <2>1, <2>2 DEF TypeOK
  <2>4. BufInv'
    <3>1. buf' = SubSeq(stream', base' + 1, pos')
      <4>1. pos + 1 > pos /\ pos + 1 \in Int /\ pos \in Int BY <1>2
      <4>2. SubSeq(stream, pos + 1, pos) = << >> BY <1>2, <4>1, SubSeqEmpty
      <4> QED BY <1>4, <2>1, <4>2
    <3>2. base' <= pos' /\ pos' <= lim' /\ pos' < lim' /\ lim' <= Len(stream')
      BY <1>2, <1>3, <1>4, <2>1
    <3> QED BY <1>4, <2>2, <3>1, <3>2 DEF BufInv
  <2>5. OutInv'
    <3>1. Len(buf) = pos - base BY <1>2, <1>3, Stretch
    <3>2. Len(buf) > 0
      <4>1. pos <= Len(stream) BY <1>2, <1>3
      <4> QED BY <1>2, <1>3, <1>5, <4>1, Verdict
    <3>3. out = [start |-> base, len |-> Len(buf)] BY <1>0, <1>1, <1>5 DEF OutInv
    <3>4. out.start = base /\ out.len = Len(buf) BY <3>3
    <3>5. out.start + out.len = pos /\ out.len # 0 /\ out.len > 0 BY <1>2, <3>1, <3>2, <3>4
    <3>6. Headed(stream, out.start) /\ out.len = FrameLen(stream, out.start)
      BY <1>0, <3>5 DEF OutInv
    <3> QED BY <1>4, <2>1, <2>2, <3>5, <3>6 DEF OutInv
  <2> QED BY <2>3, <2>4, <2>5 DEF FrameInv
<1>6. CASE ~Whole(buf)
  <2>1. buf' = buf /\ base' = base BY <1>4, <1>6 DEF Discard, Whole
  <2>2. ~Error(buf') /\ ~Whole(buf') /\ TotalLen(buf') = TotalLen(buf)
    BY <1>3, <1>6, <2>1
  <2>3. TypeOK' BY <1>0, <1>4, <2>1 DEF TypeOK
  <2>4. BufInv' BY <1>3, <1>4, <2>1, <2>2 DEF BufInv
  <2>5. OutInv' BY <1>0, <1>4, <1>6, <2>1, <2>2 DEF OutInv
  <2> QED BY <2>3, <2>4, <2>5 DEF FrameInv
<1> QED BY <1>5, <1>6

(* Lines 104-123: one copy of the loop.                                    *)
LEMMA FrameFeedLoop == FrameInv /\ FeedLoop => FrameInv'
<1> SUFFICES ASSUME FrameInv, FeedLoop PROVE FrameInv' OBVIOUS
<1>0. TypeOK /\ BufInv /\ OutInv BY DEF FrameInv
<1>1. pc = "loop" BY DEF FeedLoop
<1>2. stream \in Seq(Byte) /\ Len(stream) \in Nat /\ pos \in Nat /\ lim \in Nat /\ base \in Nat
      /\ buf \in Seq(Byte) /\ out \in [start : Nat, len : Nat]
  BY <1>0, StreamsAssumption DEF TypeOK
<1>3. base <= pos /\ pos < lim /\ lim <= Len(stream)
      /\ buf = SubSeq(stream, base + 1, pos) /\ ~Error(buf) /\ ~Whole(buf)
      /\ (TotalLen(buf) > 0 => Len(buf) <= TotalLen(buf))
  BY <1>0, <1>1 DEF BufInv
<1>4. WantOf(buf) \in Nat /\ WantOf(buf) >= 1 BY <1>2, <1>3, Missing
<1>5. Want = WantOf(buf) BY DEF Want, WantOf
<1>6. PICK n \in Nat : n = Least(Want, lim - pos) /\ 1 <= n /\ n <= WantOf(buf) /\ n <= lim - pos
  BY <1>2, <1>3, <1>4, <1>5 DEF Least
<1>7. PICK e \in Nat : e = pos + n /\ pos < e /\ e <= lim /\ e - pos <= WantOf(buf)
  BY <1>2, <1>4, <1>6
<1>8. PICK q : q = SubSeq(stream, base + 1, e) OBVIOUS
<1>9. base <= e /\ e <= Len(stream) BY <1>2, <1>3, <1>7
<1>10. q \in Seq(Byte) /\ Len(q) = e - base BY <1>2, <1>8, <1>9, Stretch
<1>11. buf \o SubSeq(stream, pos + 1, pos + n) = q
  <2>1. base + 1 \in 1..Len(stream)+1 /\ pos \in base..Len(stream) /\ e \in pos..Len(stream)
        /\ (base + 1) - 1 = base
    BY <1>2, <1>3, <1>7, <1>9
  <2>2. SubSeq(stream, base + 1, pos) \o SubSeq(stream, pos + 1, e) = SubSeq(stream, base + 1, e)
    BY <1>2, <2>1, ConcatAdjacentSubSeq
  <2> QED BY <1>3, <1>7, <1>8, <2>2
<1>12. IF Error(q)
       THEN /\ pc' = "error" /\ buf' = << >> /\ pos' = e
            /\ UNCHANGED <<stream, lim, base, out>>
       ELSE /\ buf' = q /\ pos' = e
            /\ out' = IF TotalLen(q) = Len(q) THEN [start |-> base, len |-> TotalLen(q)] ELSE out
            /\ pc' = Next1(q, e)
            /\ UNCHANGED <<stream, lim, base>>
  <2>1. ~(TotalLen(buf) \in {UnknownType, TooLarge}) BY <1>3 DEF Error
  <2> QED BY <1>6, <1>7, <1>11, <2>1 DEF FeedLoop, Error
<1>13. stream' = stream /\ lim' = lim /\ base' = base /\ pos' = e BY <1>12
<1>14. /\ Error(q) => \/ base < Len(stream) /\ stream[base + 1] \notin 1..5
                      \/ Headed(stream, base) /\ FrameLen(stream, base) > BufLen
       /\ Whole(q) => Headed(stream, base) /\ Len(q) = FrameLen(stream, base) /\ Len(q) > 0
  BY <1>2, <1>8, <1>9, Verdict
<1>15. TotalLen(q) > 0 => Len(q) <= TotalLen(q)
  <2> SUFFICES ASSUME TotalLen(q) > 0 PROVE Len(q) <= TotalLen(q) OBVIOUS
  <2> QED BY <1>2, <1>3, <1>7, <1>8, <1>9, Grown
<1>16. base' <= pos' /\ pos' <= lim' /\ lim' <= Len(stream')
  BY <1>2, <1>3, <1>7, <1>9, <1>13
<1>17. CASE Error(q)
  <2>1. pc' = "error" /\ buf' = << >> /\ out' = out BY <1>12, <1>17
  <2>2. buf' \in Seq(Byte) /\ ~Whole(buf') BY <2>1, EmptyBuffer
  <2>3. TypeOK' BY <1>0, <1>7, <1>13, <2>1, <2>2 DEF TypeOK
  <2>4. BufInv' BY <1>16, <2>1 DEF BufInv
  <2>5. OutInv' BY <1>0, <1>3, <1>13, <1>14, <1>17, <2>1 DEF OutInv
  <2> QED BY <2>3, <2>4, <2>5 DEF FrameInv
<1>18. CASE ~Error(q)
  <2>1. buf' = q /\ pc' = Next1(q, e)
        /\ out' = IF TotalLen(q) = Len(q) THEN [start |-> base, len |-> TotalLen(q)] ELSE out
    BY <1>12, <1>18
  <2>2. /\ pc' \in {"idle", "feed", "loop"}
        /\ pc' = "idle" => e = lim
        /\ pc' \in {"feed", "loop"} => e < lim
        /\ pc' = "loop" => ~Whole(q)
    BY <1>2, <1>7, <2>1 DEF Next1, Whole
  <2>3. out' \in [start : Nat, len : Nat]
    <3>1. Len(q) \in Nat BY <1>10
    <3> QED BY <1>2, <2>1, <3>1
  <2>4. TypeOK'
    <3>1. pc' \in {"idle", "feed", "loop", "error"} BY <2>2
    <3> QED BY <1>0, <1>10, <1>13, <2>1, <2>3, <3>1 DEF TypeOK
  <2>5. BufInv'
    <3>1. pc' # "error" BY <2>2
    <3>2. buf' = SubSeq(stream', base' + 1, pos') /\ ~Error(buf')
          /\ (TotalLen(buf') > 0 => Len(buf') <= TotalLen(buf'))
      BY <1>8, <1>13, <1>15, <1>18, <2>1
    <3>3. (pc' = "idle" => pos' = lim') /\ (pc' \in {"feed", "loop"} => pos' < lim')
          /\ (pc' = "loop" => ~Whole(buf'))
      BY <1>13, <2>1, <2>2
    <3> QED BY <1>16, <3>1, <3>2, <3>3 DEF BufInv
  <2>6. OutInv'
    <3>1. pc' # "error" BY <2>2
    <3>2. CASE Whole(q)
      <4>1. out' = [start |-> base, len |-> Len(q)] BY <2>1, <3>2 DEF Whole
      <4>2. out'.start = base /\ out'.len = Len(q) BY <4>1
      <4>3. Len(q) > 0 /\ Len(q) # 0 BY <1>10, <1>14, <3>2
      <4> QED BY <1>13, <1>14, <2>1, <3>1, <3>2, <4>1, <4>2, <4>3 DEF OutInv
    <3>3. CASE ~Whole(q)
      <4>1. out' = out BY <2>1, <3>3 DEF Whole
      <4> QED BY <1>0, <1>3, <1>13, <2>1, <3>1, <3>3, <4>1 DEF OutInv
    <3> QED BY <3>2, <3>3
  <2> QED BY <2>4, <2>5, <2>6 DEF FrameInv
<1> QED BY <1>17, <1>18

LEMMA FrameReconnect == FrameInv /\ Reconnect => FrameInv'
<1> SUFFICES ASSUME FrameInv, Reconnect PROVE FrameInv' OBVIOUS
<1>1. /\ stream' \in Streams /\ buf' = << >> /\ pos' = 0 /\ lim' = 0 /\ pc' = "idle"
      /\ base' = 0 /\ out' = NoPacket
  BY DEF Reconnect
<1>2. stream' \in Seq(Byte) /\ Len(stream') \in Nat BY <1>1, StreamsAssumption
<1>3. buf' \in Seq(Byte) /\ ~Error(buf') /\ ~Whole(buf') /\ ~(TotalLen(buf') > 0)
  BY <1>1, EmptyBuffer
<1>4. TypeOK' BY <1>1, <1>3 DEF TypeOK, NoPacket
<1>5. BufInv'
  <2>1. SubSeq(stream', 0 + 1, 0) = << >> BY <1>2, SubSeqEmpty
  <2>2. base' <= pos' /\ pos' <= lim' /\ lim' <= Len(stream') BY <1>1, <1>2
  <2> QED BY <1>1, <1>3, <2>1, <2>2 DEF BufInv
<1>6. OutInv' BY <1>1, <1>3 DEF OutInv, NoPacket
<1> QED BY <1>4, <1>5, <1>6 DEF FrameInv

THEOREM FrameInvariant == Spec => []FrameInv
<1>1. Init => FrameInv BY FrameFresh DEF Init
<1>2. FrameInv /\ [Next]_vars => FrameInv'
  <2> SUFFICES ASSUME FrameInv, [Next]_vars PROVE FrameInv' OBVIOUS
  <2>1. CASE Recv BY <2>1, FrameRecv
  <2>2. CASE FeedStart BY <2>2, FrameFeedStart
  <2>3. CASE FeedLoop BY <2>3, FrameFeedLoop
  <2>4. CASE Reconnect BY <2>4, FrameReconnect
  <2>5. CASE UNCHANGED vars
    BY <2>5 DEF vars, FrameInv, TypeOK, BufInv, OutInv, Error, Whole
  <2> QED BY <2>1, <2>2, <2>3, <2>4, <2>5 DEF Next
<1> QED BY <1>1, <1>2, PTL DEF Spec

(* The variables of the reassembler and of its caller keep their types:    *)
(* the counters of feed never go below zero, the buffer holds bytes.       *)
THEOREM H4Types == Spec => []TypeOK
<1>1. FrameInv => TypeOK BY DEF FrameInv
<1> QED BY <1>1, FrameInvariant, PTL

(* For every byte stream, cut into chunks in every way, the packets that   *)
(* feed returns are the ones the packet formats define, in place; a stream *)
(* is refused only at a packet boundary and for what stands there.         *)
THEOREM FramesAsFormatted == Spec => []FramesExact
<1>1. FrameInv => FramesExact
  <2> SUFFICES ASSUME FrameInv PROVE FramesExact OBVIOUS
  <2>0. TypeOK /\ BufInv /\ OutInv BY DEF FrameInv
  <2>1. pc # "error" => buf = SubSeq(stream, base + 1, pos) BY <2>0 DEF BufInv
  <2>2. ASSUME out.len > 0 PROVE out.start + out.len \in {base, pos}
    <3>1. CASE pc # "error" /\ Whole(buf)
      <4>1. out = [start |-> base, len |-> Len(buf)] BY <2>0, <3>1 DEF OutInv
      <4>2. out.start = base /\ out.len = Len(buf) BY <4>1
      <4>3. stream \in Seq(Byte) /\ base \in Nat /\ pos \in Nat /\ lim \in Nat /\ Len(stream) \in Nat
            /\ base <= pos /\ pos <= lim /\ lim <= Len(stream)
        BY <2>0, StreamsAssumption DEF TypeOK, BufInv
      <4>4. Len(buf) = pos - base BY <2>1, <3>1, <4>3, Stretch
      <4> QED BY <4>2, <4>3, <4>4
    <3>2. CASE pc = "error" \/ ~Whole(buf) BY <2>0, <2>2, <3>2 DEF OutInv
    <3> QED BY <3>1, <3>2
  <2> QED BY <2>0, <2>1, <2>2 DEF OutInv, FramesExact
<1> QED BY <1>1, FrameInvariant, PTL

(* Whatever arrives, each turn of feed's loop copies at least one byte and *)
(* stays inside the caller's storage.                                      *)
THEOREM CopiesInStorage == Spec => []CopyInRange
<1>1. FrameInv => CopyInRange
  <2> SUFFICES ASSUME FrameInv PROVE CopyInRange OBVIOUS
  <2>0. TypeOK /\ BufInv /\ OutInv BY DEF FrameInv
  <2>1. buf \in Seq(Byte) /\ Len(buf) \in Nat BY <2>0 DEF TypeOK
  <2>2. ASSUME pc # "error", ~Whole(buf)
        PROVE  Want >= 1 /\ Len(buf) + Want <= BufLen /\ Len(buf) <= BufLen
    <3>1. ~Error(buf) /\ (TotalLen(buf) > 0 => Len(buf) <= TotalLen(buf)) BY <2>0, <2>2 DEF BufInv
    <3>2. WantOf(buf) \in Nat /\ WantOf(buf) >= 1 /\ Len(buf) + WantOf(buf) <= BufLen
      BY <2>1, <2>2, <3>1, Missing
    <3>3. Want = WantOf(buf) BY DEF Want, WantOf
    <3> QED BY <2>1, <3>2, <3>3, BufAssumption
  <2>3. Len(buf) <= BufLen
    <3>1. CASE pc = "error"
      <4>1. Len(buf) = 0 BY <2>0, <3>1, EmptyBuffer DEF BufInv
      <4> QED BY <4>1, BufAssumption
    <3>2. CASE pc # "error" /\ Whole(buf)
      <4>1. Len(buf) # 0 BY <2>1, <3>2, TotalCases DEF Whole, Null
      <4>2. TotalLen(buf) > 0 BY <2>1, <3>2, <4>1 DEF Whole
      <4>3. Full(buf) <= BufLen /\ TotalLen(buf) = Full(buf) BY <2>1, <4>2, PositiveTotal
      <4> QED BY <3>2, <4>3 DEF Whole
    <3> QED BY <2>2, <3>1, <3>2
  <2>4. pc = "loop" => Want >= 1 /\ Len(buf) + Want <= BufLen BY <2>0, <2>2 DEF BufInv
  <2> QED BY <2>3, <2>4 DEF CopyInRange
<1> QED BY <1>1, FrameInvariant, PTL
=============================================================================
