------------------------------ MODULE JsonString ------------------------------
(***************************************************************************)
(* The inside of a string in an answer, as parse_string_body (json.c)      *)
(* decodes it into bytes of UTF-8. The pieces of the text:                 *)
(*   <<"byte", b>>   a byte that stands for itself, or behind a backslash  *)
(*   <<"unit", n>>   \uXXXX, four hex digits                               *)
(***************************************************************************)
EXTENDS SequencesExt

\* append_utf8
AppendUtf8(cp) ==
    CASE cp < 128 -> <<cp>>
      [] cp \in 128..2047 -> <<192 + cp \div 64, 128 + (cp % 64)>>
      [] cp \in 2048..65535 ->
            <<224 + cp \div 4096, 128 + ((cp \div 64) % 64), 128 + (cp % 64)>>
      [] OTHER ->
            <<240 + cp \div 262144, 128 + ((cp \div 4096) % 64), 128 + ((cp \div 64) % 64),
              128 + (cp % 64)>>

High == 55296..56319

\* Slip: the planes beyond the first start at 0.
RecombineLow(high, low) == (high - 55296) * 1024 + (low - 56320)

\* The code point of a surrogate pair.
Recombine(high, low) == 65536 + (high - 55296) * 1024 + (low - 56320)

\* What follows a high surrogate is taken for the low one whenever it is a
\* unit; one that no unit follows is encoded by itself.
Decode(raw) ==
    LET from[i \in 1..Len(raw) + 1] ==
            LET pair == /\ i < Len(raw)
                        /\ raw[i][2] \in High
                        /\ raw[i + 1][1] = "unit"
            IN  IF i > Len(raw) THEN <<>>
                ELSE IF raw[i][1] = "byte" THEN <<raw[i][2]>> \o from[i + 1]
                ELSE IF pair THEN AppendUtf8(Recombine(raw[i][2], raw[i + 1][2])) \o from[i + 2]
                ELSE AppendUtf8(raw[i][2]) \o from[i + 1]
    IN  from[1]

------------------------------------------------------------------------------
\* The engine's side (external): a code point as units of UTF-16.
Units(cp) ==
    IF cp < 65536 THEN <<<<"unit", cp>>>>
    ELSE <<<<"unit", 55296 + (cp - 65536) \div 1024>>, <<"unit", 56320 + ((cp - 65536) % 1024)>>>>

\* UTF-8 read by its definition: code points, from lead and following bytes.
CodePoints(bytes) ==
    LET from[i \in 1..Len(bytes) + 1] ==
            LET b == bytes[i]
                more == CASE b < 128 -> 0 [] b \in 192..223 -> 1
                          [] b \in 224..239 -> 2 [] OTHER -> 3
                lead == CASE more = 0 -> b [] more = 1 -> b - 192
                          [] more = 2 -> b - 224 [] OTHER -> b - 240
                cp == FoldLeft(LAMBDA sum, c : 64 * sum + (c - 128), lead,
                               SubSeq(bytes, i + 1, i + more))
            IN  IF i > Len(bytes) THEN <<>> ELSE <<cp>> \o from[i + more + 1]
    IN  from[1]

\* Characters of every length arrive as they were sent, in escapes, as bytes
\* or mixed, pairs of surrogates side by side included (parse_string_body:
\* "Surrogate pairs are recombined").
DecodedAsSent(points, escaped) ==
    LET asBytes(cp) == LET bytes == AppendUtf8(cp) IN [i \in DOMAIN bytes |-> <<"byte", bytes[i]>>]
        raw == FlattenSeq([i \in DOMAIN points |->
                    IF escaped[i] THEN Units(points[i]) ELSE asBytes(points[i])])
    IN  CodePoints(Decode(raw)) = points
=============================================================================
