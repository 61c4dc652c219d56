------------------------------- MODULE Portal -------------------------------
(***************************************************************************)
(* The form of the setup portal in firmware/main/net.c: the body a browser *)
(* sends for the values that the operator types, and what portal_save      *)
(* stores of the part of it that arrives.  Values and bodies are sequences *)
(* of bytes; the two names, each with its "=", are one symbol above 255.   *)
(***************************************************************************)
EXTENDS Integers, Sequences

CONSTANTS
    Alphabet,           \* bytes that values are made of
    MaxSsid, MaxPass,   \* maxlength of the two inputs of the page
    SsidLen, PassLen,   \* what the two variables hold besides the terminator
    BodyLen             \* what the buffer for the body holds besides the terminator

ASSUME PortalAssumption ==
    /\ Alphabet \subseteq 1..255
    /\ {MaxSsid, MaxPass, SsidLen, PassLen, BodyLen} \subseteq Nat

SsidKey == 256
PassKey == 257
Space   == 32
Percent == 37
Amp     == 38
Plus    == 43
Letters == 97..122

-----------------------------------------------------------------------------
(* External: the browser.                                                  *)

Hex(d) == IF d < 10 THEN 48 + d ELSE 55 + d
EncodedByte(b) ==
    IF b = Space THEN <<Plus>>
    ELSE IF b \in Letters THEN <<b>> ELSE <<Percent, Hex(b \div 16), Hex(b % 16)>>
Encoded(v) ==
    LET enc[i \in 0..Len(v)] == IF i = 0 THEN << >> ELSE enc[i - 1] \o EncodedByte(v[i])
    IN  enc[Len(v)]

Values(max) == UNION {[1..n -> Alphabet] : n \in 0..max}
Forms == {f \in [ssid : Values(MaxSsid), pass : Values(MaxPass)] : f.ssid # << >>}
Body(f) == <<SsidKey>> \o Encoded(f.ssid) \o <<Amp, PassKey>> \o Encoded(f.pass)

-----------------------------------------------------------------------------
(* portal_save.                                                            *)

\* A hexadecimal digit as url_decode reads it: | 0x20 makes a letter small.
Digit(h) == IF h <= 57 THEN h - 48 ELSE (IF (h \div 32) % 2 = 1 THEN h ELSE h + 32) - 97 + 10

url_decode(s) ==
    LET dec[i \in 1..Len(s) + 1] ==
          IF i > Len(s) THEN << >>
          ELSE IF s[i] = Plus THEN <<Space>> \o dec[i + 1]
          ELSE IF s[i] = Percent /\ i + 2 <= Len(s)
               THEN <<(Digit(s[i + 1]) * 16 + Digit(s[i + 2])) % 256>> \o dec[i + 3]
          ELSE <<s[i]>> \o dec[i + 1]
    IN  dec[1]

\* Mutant: the terminator is counted twice.
RoomShort(len, out_len) == IF len >= out_len - 1 THEN out_len - 2 ELSE len

\* How much of an encoded value is copied into a variable of this size.
Room(len, out_len) == IF len >= out_len THEN out_len - 1 ELSE len

\* The first place of a symbol at or after i, or the place after the last.
Find(s, i, x) ==
    LET hits == {j \in i..Len(s) : s[j] = x}
    IN  IF hits = {} THEN Len(s) + 1 ELSE CHOOSE j \in hits : \A k \in hits : j <= k

\* A field that is missing leaves the variable empty, as it was initialised.
form_field(body, key, out_len) ==
    LET p   == Find(body, 1, key) + 1
        end == Find(body, p, Amp)
    IN  IF p > Len(body) + 1 THEN << >>
        ELSE url_decode(SubSeq(body, p, p - 1 + Room(end - p, out_len)))

\* What is stored of a body of which n bytes came with the one receive.
Stored(body, n) ==
    LET got == SubSeq(body, 1, n)
    IN  [ssid |-> form_field(got, SsidKey, SsidLen + 1), pass |-> form_field(got, PassKey, PassLen + 1)]

\* Forms with the bytes of them that one receive can return; a body without
\* a name is refused.
Posts == {x \in [form : Forms, n : 1..BodyLen] :
            x.n <= Len(Body(x.form)) /\ Stored(Body(x.form), x.n).ssid # << >>}

-----------------------------------------------------------------------------
\* Reference: the form came whole and each value, as sent, has room.
Fits(x) ==
    /\ x.n = Len(Body(x.form))
    /\ Len(Encoded(x.form.ssid)) <= SsidLen /\ Len(Encoded(x.form.pass)) <= PassLen

\* The ways a save can end: are the credentials the ones that were typed,
\* and should they be?
Saves ==
    {[creds |-> IF Stored(Body(x.form), x.n) = x.form THEN "right" ELSE "wrong", fits |-> Fits(x)] :
        x \in Posts}
=============================================================================
