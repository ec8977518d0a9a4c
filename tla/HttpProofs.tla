------------------------------ MODULE HttpProofs -------------------------------
(***************************************************************************)
(* Exchanges with any number of addresses, every timeout, and every set of *)
(* documents, framed and cut into chunks in every way.                     *)
(***************************************************************************)
EXTENDS HttpExchange, SequenceTheorems, WellFoundedInduction, TLAPS

------------------------------------------------------------------------------
\* Whatever numbers a property fails for, there is a first of them.
LEMMA LeastOf ==
    ASSUME NEW S, S \subseteq Nat, S # {}
    PROVE  \E least \in S : \A n \in S : least <= n
<1> DEFINE R == OpToRel(<, Nat)
<1>1. IsWellFoundedOn(R, Nat) /\ R = {ss \in Nat \X Nat : ss[1] < ss[2]}
  BY NatLessThanWellFounded DEF OpToRel
<1> HIDE DEF R
<1>2. PICK least \in S : \A n \in S : ~(<<n, least>> \in R)
  BY <1>1, WFMin
<1>3. ASSUME NEW n \in S PROVE least <= n
  <2>1. n \in Nat /\ least \in Nat
    BY <1>2
  <2>2. <<n, least>> \in Nat \X Nat
    BY <2>1
  <2>3. ~(n < least)
    BY <1>1, <1>2, <2>2
  <2>4. QED
    BY <2>1, <2>3
<1>4. QED
  BY <1>2, <1>3

------------------------------------------------------------------------------
\* The parser, on a text and on what of it arrives.

\* The function Parsed defines, for a text up to one of its places.
IsParsed(f, text, n) == f = [i \in 0..n |-> IF i = 0 THEN Start ELSE Step(f[i - 1], text[i])]

LEMMA ParsedExists ==
    ASSUME NEW text, NEW length \in Nat
    PROVE  \E f : IsParsed(f, text, length)
<1> DEFINE Missing == {n \in Nat : ~ \E f : IsParsed(f, text, n)}
<1>1. SUFFICES ASSUME Missing # {} PROVE FALSE
  OBVIOUS
<1>2. PICK least \in Missing : \A n \in Missing : least <= n
  BY <1>1, LeastOf
<1>3. CASE least = 0
  <2> DEFINE f == [i \in 0..0 |-> Start]
  <2>1. f = [i \in 0..0 |-> IF i = 0 THEN Start ELSE Step(f[i - 1], text[i])]
    OBVIOUS
  <2>2. IsParsed(f, text, 0)
    BY <2>1 DEF IsParsed
  <2>3. QED
    BY <1>2, <1>3, <2>2
<1>4. CASE least # 0
  <2>1. least \in Nat /\ least - 1 \in Nat /\ ~(least <= least - 1)
    BY <1>2, <1>4
  <2>2. PICK f : IsParsed(f, text, least - 1)
    BY <1>2, <2>1
  <2> DEFINE g == [i \in 0..least |-> IF i < least THEN f[i] ELSE Step(f[least - 1], text[least])]
  <2>3. ASSUME NEW i \in 0..least
        PROVE  g[i] = IF i = 0 THEN Start ELSE Step(g[i - 1], text[i])
    <3>1. CASE i < least
      <4>1. i \in 0..(least - 1) /\ g[i] = f[i]
        BY <2>1, <3>1
      <4>2. f[i] = IF i = 0 THEN Start ELSE Step(f[i - 1], text[i])
        BY <2>2, <4>1 DEF IsParsed
      <4>3. i # 0 => i - 1 \in 0..least /\ i - 1 < least
        BY <2>1, <3>1
      <4>4. i # 0 => g[i - 1] = f[i - 1]
        BY <4>3
      <4>5. QED
        BY <4>1, <4>2, <4>4
    <3>2. CASE ~(i < least)
      <4>1. i = least /\ i # 0 /\ i - 1 \in 0..least /\ i - 1 < least
        BY <2>1, <1>4, <3>2
      <4>2. g[i] = Step(f[i - 1], text[i]) /\ g[i - 1] = f[i - 1]
        BY <4>1
      <4>3. QED
        BY <4>1, <4>2
    <3>3. QED
      BY <3>1, <3>2
  <2>4. g = [i \in 0..least |-> IF i = 0 THEN Start ELSE Step(g[i - 1], text[i])]
    BY <2>3
  <2>5. IsParsed(g, text, least)
    BY <2>4 DEF IsParsed
  <2>6. QED
    BY <1>2, <2>5
<1>5. QED
  BY <1>3, <1>4

LEMMA ParsedSteps ==
    ASSUME NEW text \in Seq(Tokens)
    PROVE  /\ Parsed(text)[0] = Start
           /\ \A i \in 1..Len(text) : Parsed(text)[i] = Step(Parsed(text)[i - 1], text[i])
<1>1. Len(text) \in Nat
  OBVIOUS
<1>2. IsParsed(Parsed(text), text, Len(text))
  <2>1. \E f : IsParsed(f, text, Len(text))
    BY <1>1, ParsedExists
  <2>2. Parsed(text) = CHOOSE f : IsParsed(f, text, Len(text))
    BY DEF Parsed, IsParsed
  <2>3. QED
    BY <2>1, <2>2
<1> DEFINE P == Parsed(text)
<1>3. P = [i \in 0..Len(text) |-> IF i = 0 THEN Start ELSE Step(P[i - 1], text[i])]
  BY <1>2 DEF IsParsed
<1> HIDE DEF P
<1>4. P[0] = Start
  BY <1>1, <1>3
<1>5. ASSUME NEW i \in 1..Len(text) PROVE P[i] = Step(P[i - 1], text[i])
  <2>1. i \in 0..Len(text) /\ i # 0
    BY <1>1
  <2>2. QED
    BY <1>3, <2>1
<1>6. QED
  BY <1>4, <1>5 DEF P

\* Up to where it is cut a text is read the same way.
LEMMA ParsedPrefix ==
    ASSUME NEW text \in Seq(Tokens), NEW m \in 0..Len(text)
    PROVE  Parsed(SubSeq(text, 1, m))[m] = Parsed(text)[m]
<1> DEFINE cut == SubSeq(text, 1, m)
           Differs == {i \in 0..m : Parsed(cut)[i] # Parsed(text)[i]}
<1>1. Len(text) \in Nat /\ m \in Nat /\ m <= Len(text)
  OBVIOUS
<1>2. cut \in Seq(Tokens) /\ Len(cut) = m /\ \A i \in 1..m : cut[i] = text[i]
  BY <1>1, SubSeqProperties
<1> HIDE DEF cut
<1>3. /\ Parsed(text)[0] = Start
      /\ \A i \in 1..m : Parsed(text)[i] = Step(Parsed(text)[i - 1], text[i])
  BY <1>1, ParsedSteps
<1>4. /\ Parsed(cut)[0] = Start
      /\ \A i \in 1..m : Parsed(cut)[i] = Step(Parsed(cut)[i - 1], cut[i])
  BY <1>2, ParsedSteps
<1>5. SUFFICES ASSUME Differs # {} PROVE FALSE
  BY <1>1 DEF cut
<1>5a. Differs \subseteq Nat
  BY <1>1
<1>6. PICK least \in Differs : \A n \in Differs : least <= n
  BY <1>5, <1>5a, LeastOf
<1>7. least \in 0..m /\ least # 0 /\ least \in 1..m
  BY <1>1, <1>3, <1>4, <1>6
<1>8. least - 1 \in 0..m /\ ~(least <= least - 1)
  BY <1>1, <1>7
<1>9. Parsed(cut)[least - 1] = Parsed(text)[least - 1]
  BY <1>6, <1>8
<1>10. QED
  BY <1>2, <1>3, <1>4, <1>6, <1>7, <1>9

\* A parser is at a place, with something open or nothing.
HasFields(p) == "place" \in DOMAIN p /\ "open" \in DOMAIN p /\ p.place \in Places

LEMMA GotoFields ==
    ASSUME NEW p, HasFields(p), NEW place \in Places
    PROVE  HasFields(Goto(p, place)) /\ Goto(p, place).place = place /\ Goto(p, place).open = p.open
BY DEF HasFields, Goto

LEMMA StepFields ==
    ASSUME NEW p, HasFields(p), NEW token \in Tokens
    PROVE  HasFields(Step(p, token))
<1>1. HasFields(Failed)
  BY DEF HasFields, Failed, Places
<1>2. ASSUME NEW q, HasFields(q),
             q.place \in {"after", "value", "first_item", "colon", "first_key", "key"}
      PROVE  HasFields(Solid(q, token))
  <2>1. HasFields(Close(q)) /\ HasFields(Open(q, token))
    BY <1>1 DEF HasFields, Close, Open, Places
  <2>2. /\ HasFields(Goto(q, "after")) /\ HasFields(Goto(q, "in_string"))
        /\ HasFields(Goto(q, "in_number")) /\ HasFields(Goto(q, "key"))
        /\ HasFields(Goto(q, "value")) /\ HasFields(Goto(q, "in_key"))
    BY <1>2, GotoFields DEF Places
  <2>3. HasFields(BeginValue(q, token)) /\ HasFields(FollowValue(q, token))
    BY <1>1, <2>1, <2>2 DEF BeginValue, FollowValue
  <2>4. QED
    BY <1>1, <1>2, <2>1, <2>2, <2>3 DEF Solid
<1>3. CASE p.place \in {"failed", "in_key", "in_string", "key_escape", "string_escape"}
  <2>1. /\ HasFields(Goto(p, "after")) /\ HasFields(Goto(p, "colon"))
        /\ HasFields(Goto(p, "key_escape")) /\ HasFields(Goto(p, "string_escape"))
        /\ HasFields(Goto(p, "in_key")) /\ HasFields(Goto(p, "in_string"))
    BY GotoFields DEF Places
  <2>2. HasFields(InString(p, token)) /\ HasFields(Escaped(p, token))
    BY <1>1, <2>1 DEF InString, Escaped
  <2>3. QED
    BY <1>1, <1>3, <2>2 DEF Step
<1>4. CASE p.place = "in_number"
  <2>1. HasFields(Goto(p, "after")) /\ Goto(p, "after").place = "after"
    BY GotoFields DEF Places
  <2>2. HasFields(Solid(Goto(p, "after"), token))
    BY <1>2, <2>1
  <2>3. QED
    BY <1>4, <2>1, <2>2 DEF Step
<1>5. CASE p.place \in {"after", "value", "first_item", "colon", "first_key", "key"}
  BY <1>2, <1>5 DEF Step
<1>6. QED
  BY <1>3, <1>4, <1>5 DEF HasFields, Places

LEMMA ParsedFields ==
    ASSUME NEW text \in Seq(Tokens), NEW i \in 0..Len(text)
    PROVE  HasFields(Parsed(text)[i])
<1> DEFINE Odd == {k \in 0..Len(text) : ~HasFields(Parsed(text)[k])}
<1>1. SUFFICES ASSUME Odd # {} PROVE FALSE
  OBVIOUS
<1>2. Len(text) \in Nat
  OBVIOUS
<1>2a. Odd \subseteq Nat
  BY <1>2
<1>3. PICK least \in Odd : \A n \in Odd : least <= n
  BY <1>1, <1>2a, LeastOf
<1>4. HasFields(Start)
  BY DEF HasFields, Start, Places
<1>5. least \in 1..Len(text)
  BY <1>2, <1>3, <1>4, ParsedSteps
<1>6. least - 1 \in 0..Len(text) /\ ~(least <= least - 1)
  BY <1>2, <1>5
<1>7. HasFields(Parsed(text)[least - 1])
  BY <1>3, <1>6
<1>8. text[least] \in Tokens
  BY <1>5
<1>9. QED
  BY <1>3, <1>5, <1>7, <1>8, StepFields, ParsedSteps

\* Behind a whole value there is white space, more of its number, or nothing.
Over(p) == p.place = "failed" \/ Accepts(p)

LEMMA OverStays ==
    ASSUME NEW p, HasFields(p), Over(p), NEW token \in Tokens
    PROVE  Over(Step(p, token)) /\ (token = "endbrace" => ~Accepts(Step(p, token)))
<1>1. Failed.place = "failed" /\ Over(Failed) /\ ~Accepts(Failed)
  BY DEF Over, Accepts, Failed
<1>2. CASE p.place = "failed"
  BY <1>1, <1>2 DEF Step
<1>3. CASE p.place # "failed"
  <2>1. Accepts(p) /\ p.place \in {"after", "in_number"} /\ p.open = <<>>
    BY <1>3 DEF Over, Accepts
  <2> DEFINE here == IF p.place = "in_number" THEN Goto(p, "after") ELSE p
  <2>2. here.place = "after" /\ here.open = <<>>
    BY <2>1, GotoFields DEF Places
  <2>3. Solid(here, token) = Failed
    BY <2>2 DEF Solid, FollowValue
  <2>4. Over(here)
    BY <2>2 DEF Over, Accepts
  <2>5. CASE p.place = "in_number" /\ token = "number"
    BY <2>1, <2>5 DEF Step, Over
  <2>6. CASE ~(p.place = "in_number" /\ token = "number")
    <3>1. Step(p, token) = IF token = "space" THEN here ELSE Failed
      BY <2>1, <2>3, <2>6 DEF Step
    <3> HIDE DEF here
    <3>2. QED
      BY <1>1, <2>4, <3>1
  <2>7. QED
    BY <2>5, <2>6
<1>4. QED
  BY <1>2, <1>3

\* An answer of the engine ends in the brace that closes it: nothing less of it
\* is a document (proto.c:240-249).
LEMMA NoEarlierDocument ==
    ASSUME NEW document \in Documents, NEW m \in 0..Len(document),
           IsDocument(SubSeq(document, 1, m))
    PROVE  m = Len(document)
<1> DEFINE Opened == {k \in m..Len(document) : ~Over(Parsed(document)[k])}
           end == Len(document)
<1>1. /\ document \in Seq(Tokens) /\ end \in Nat /\ m \in Nat /\ m <= end
      /\ document[end] = "endbrace" /\ Accepts(Parsed(document)[end])
  BY DocumentsAssumption DEF IsDocument
<1>2. SUFFICES ASSUME m < end PROVE FALSE
  BY <1>1
<1>3. Accepts(Parsed(document)[m])
  <2>1. Len(SubSeq(document, 1, m)) = m
    BY <1>1, SubSeqProperties
  <2>2. QED
    BY <1>1, <2>1, ParsedPrefix DEF IsDocument
<1>4. Opened = {}
  <2>1. SUFFICES ASSUME Opened # {} PROVE FALSE
    OBVIOUS
  <2>1a. Opened \subseteq Nat
    BY <1>1
  <2>2. PICK least \in Opened : \A n \in Opened : least <= n
    BY <2>1, <2>1a, LeastOf
  <2>3. least # m
    BY <1>3, <2>2 DEF Over
  <2>4. least - 1 \in m..end /\ least \in 1..end /\ least - 1 \in 0..end /\ ~(least <= least - 1)
    BY <1>1, <2>2, <2>3
  <2>5. Over(Parsed(document)[least - 1]) /\ HasFields(Parsed(document)[least - 1])
    BY <1>1, <2>2, <2>4, ParsedFields
  <2>6. document[least] \in Tokens
    BY <1>1, <2>4
  <2>7. QED
    BY <1>1, <2>2, <2>4, <2>5, <2>6, OverStays, ParsedSteps
<1>5. end - 1 \in m..end /\ end - 1 \in 0..end /\ end \in 1..end
  BY <1>1, <1>2
<1>6. Over(Parsed(document)[end - 1]) /\ HasFields(Parsed(document)[end - 1])
  BY <1>1, <1>4, <1>5, ParsedFields
<1>7. document[end] \in Tokens
  BY <1>1, <1>5
<1>8. Parsed(document)[end] = Step(Parsed(document)[end - 1], document[end])
  BY <1>1, <1>5, ParsedSteps
<1>9. QED
  BY <1>1, <1>6, <1>7, <1>8, OverStays

------------------------------------------------------------------------------
\* The pieces of an answer, and what is found in them.

Pieces ==
    ({"status", "length", "chunked", "CR", "LF", "size"} \X Nat) \cup ({"byte"} \X Tokens)

LEMMA LeastIsMin ==
    ASSUME NEW S, S \subseteq Nat, S # {}
    PROVE  Min(S) \in S /\ \A n \in S : Min(S) <= n
BY LeastOf DEF Min

\* Two pieces stand where both of them do, and four where all of them do.
LEMMA TwoPieces ==
    ASSUME NEW s \in Seq(Pieces), NEW i \in 1..Len(s) - 1
    PROVE  SubSeq(s, i, i + 1) = <<CR, LF>> <=> s[i] = CR /\ s[i + 1] = LF
<1> DEFINE piece == SubSeq(s, i, i + 1)
<1>1. Len(s) \in Nat /\ i \in Int /\ i + 1 <= Len(s) /\ 1 <= i
  OBVIOUS
<1>2. /\ Len(piece) = 2 /\ piece \in Seq(Pieces)
      /\ piece[1] = s[i] /\ piece[2] = s[i + 1]
  BY <1>1, SubSeqProperties
<1> HIDE DEF piece
<1>3. piece = <<s[i], s[i + 1]>>
  BY <1>2
<1>4. <<s[i], s[i + 1]>> = <<CR, LF>> <=> s[i] = CR /\ s[i + 1] = LF
  OBVIOUS
<1>5. QED
  BY <1>3, <1>4 DEF piece

LEMMA FourPieces ==
    ASSUME NEW s \in Seq(Pieces), NEW i \in 1..Len(s) - 3
    PROVE  SubSeq(s, i, i + 3) = <<CR, LF, CR, LF>>
               <=> s[i] = CR /\ s[i + 1] = LF /\ s[i + 2] = CR /\ s[i + 3] = LF
<1> DEFINE piece == SubSeq(s, i, i + 3)
<1>1. Len(s) \in Nat /\ i \in Int /\ i + 3 <= Len(s) /\ 1 <= i
  OBVIOUS
<1>2. /\ Len(piece) = 4 /\ piece \in Seq(Pieces)
      /\ piece[1] = s[i] /\ piece[2] = s[i + 1] /\ piece[3] = s[i + 2] /\ piece[4] = s[i + 3]
  BY <1>1, SubSeqProperties
<1> HIDE DEF piece
<1>3. piece = <<s[i], s[i + 1], s[i + 2], s[i + 3]>>
  BY <1>2
<1>4. <<s[i], s[i + 1], s[i + 2], s[i + 3]>> = <<CR, LF, CR, LF>>
          <=> s[i] = CR /\ s[i + 1] = LF /\ s[i + 2] = CR /\ s[i + 3] = LF
  OBVIOUS
<1>5. QED
  BY <1>3, <1>4 DEF piece

\* A line break is found where the first one is, and nowhere if there is none.
LEMMA BreakFound ==
    ASSUME NEW s \in Seq(Pieces), NEW from \in Nat \ {0}
    PROVE  /\ (\A i \in from..Len(s) - 1 : ~(s[i] = CR /\ s[i + 1] = LF)) => Find(s, End, from) = 0
           /\ \A i \in from..Len(s) - 1 :
                 /\ s[i] = CR /\ s[i + 1] = LF
                 /\ \A k \in from..i - 1 : ~(s[k] = CR /\ s[k + 1] = LF)
                 => Find(s, End, from) = i
<1> DEFINE found == {i \in from..Len(s) - Len(End) + 1 : SubSeq(s, i, i + Len(End) - 1) = End}
           breaks == {i \in from..Len(s) - 1 : s[i] = CR /\ s[i + 1] = LF}
<1>1. Len(s) \in Nat /\ Len(End) = 2 /\ End = <<CR, LF>>
  BY DEF End
<1>2. Find(s, End, from) = IF found = {} THEN 0 ELSE Min(found)
  BY DEF Find
<1>3. found = breaks
  <2>1. found = {i \in from..Len(s) - 1 : SubSeq(s, i, i + 1) = End}
    <3>1. Len(s) - Len(End) + 1 = Len(s) - 1
      BY <1>1
    <3>2. \A i \in from..Len(s) - 1 : i + Len(End) - 1 = i + 1
      BY <1>1
    <3>3. QED
      BY <3>1, <3>2
  <2>2. ASSUME NEW i \in from..Len(s) - 1
        PROVE  SubSeq(s, i, i + 1) = End <=> s[i] = CR /\ s[i + 1] = LF
    <3>1. i \in 1..Len(s) - 1
      BY <1>1
    <3>2. SubSeq(s, i, i + 1) = <<CR, LF>> <=> s[i] = CR /\ s[i + 1] = LF
      BY <3>1, TwoPieces
    <3>3. QED
      BY <1>1, <3>2
  <2>3. QED
    BY <2>1, <2>2
<1> HIDE DEF found
<1>4. (\A i \in from..Len(s) - 1 : ~(s[i] = CR /\ s[i + 1] = LF)) => Find(s, End, from) = 0
  BY <1>2, <1>3
<1>5. ASSUME NEW i \in from..Len(s) - 1, s[i] = CR, s[i + 1] = LF,
             \A k \in from..i - 1 : ~(s[k] = CR /\ s[k + 1] = LF)
      PROVE  Find(s, End, from) = i
  <2>1. i \in breaks /\ breaks \subseteq Nat
    BY <1>1, <1>5
  <2>2. Min(breaks) \in breaks /\ Min(breaks) <= i
    BY <2>1, LeastIsMin
  <2>3. Min(breaks) \in from..Len(s) - 1 /\ Min(breaks) \notin from..i - 1
    BY <1>5, <2>2
  <2>4. Min(breaks) = i
    <3> HIDE DEF breaks
    <3>1. QED
      BY <1>1, <2>2, <2>3
  <2>5. QED
    BY <1>2, <1>3, <2>1, <2>4
<1>6. QED
  BY <1>4, <1>5

\* The empty line: the same for two line breaks on end.
LEMMA EmptyLineFound ==
    ASSUME NEW s \in Seq(Pieces)
    PROVE  LET EmptyLine(i) == s[i] = CR /\ s[i + 1] = LF /\ s[i + 2] = CR /\ s[i + 3] = LF
           IN  /\ (\A i \in 1..Len(s) - 3 : ~EmptyLine(i)) => Find(s, <<CR, LF, CR, LF>>, 1) = 0
               /\ \A i \in 1..Len(s) - 3 :
                     EmptyLine(i) /\ (\A k \in 1..i - 1 : ~EmptyLine(k))
                     => Find(s, <<CR, LF, CR, LF>>, 1) = i
<1> DEFINE EmptyLine(i) == s[i] = CR /\ s[i + 1] = LF /\ s[i + 2] = CR /\ s[i + 3] = LF
           sought == <<CR, LF, CR, LF>>
           found == {i \in 1..Len(s) - Len(sought) + 1 : SubSeq(s, i, i + Len(sought) - 1) = sought}
           breaks == {i \in 1..Len(s) - 3 : EmptyLine(i)}
<1>1. Len(s) \in Nat /\ Len(sought) = 4
  OBVIOUS
<1>2. Find(s, sought, 1) = IF found = {} THEN 0 ELSE Min(found)
  BY DEF Find
<1>3. found = breaks
  <2>1. found = {i \in 1..Len(s) - 3 : SubSeq(s, i, i + 3) = sought}
    <3>1. Len(s) - Len(sought) + 1 = Len(s) - 3
      BY <1>1
    <3>2. \A i \in 1..Len(s) - 3 : i + Len(sought) - 1 = i + 3
      BY <1>1
    <3>3. QED
      BY <3>1, <3>2
  <2>2. ASSUME NEW i \in 1..Len(s) - 3
        PROVE  SubSeq(s, i, i + 3) = sought <=> EmptyLine(i)
    <3>1. SubSeq(s, i, i + 3) = <<CR, LF, CR, LF>>
              <=> s[i] = CR /\ s[i + 1] = LF /\ s[i + 2] = CR /\ s[i + 3] = LF
      BY <2>2, FourPieces
    <3>2. QED
      BY <3>1
  <2>3. QED
    BY <2>1, <2>2
<1> HIDE DEF found, sought
<1>4. (\A i \in 1..Len(s) - 3 : ~EmptyLine(i)) => Find(s, sought, 1) = 0
  BY <1>2, <1>3
<1>5. ASSUME NEW i \in 1..Len(s) - 3, EmptyLine(i), \A k \in 1..i - 1 : ~EmptyLine(k)
      PROVE  Find(s, sought, 1) = i
  <2> HIDE DEF EmptyLine
  <2>1. i \in breaks /\ breaks \subseteq Nat
    BY <1>1, <1>5
  <2>2. Min(breaks) \in breaks /\ Min(breaks) <= i
    BY <2>1, LeastIsMin
  <2>3. Min(breaks) \in 1..Len(s) - 3 /\ Min(breaks) \notin 1..i - 1
    BY <1>5, <2>2
  <2>4. Min(breaks) = i
    <3> HIDE DEF breaks
    <3>1. QED
      BY <1>1, <2>2, <2>3
  <2>5. QED
    BY <1>2, <1>3, <2>1, <2>4
<1>6. QED
  BY <1>4, <1>5 DEF sought

------------------------------------------------------------------------------
\* Documents as bytes.

LEMMA BytesOf ==
    ASSUME NEW document \in Seq(Tokens)
    PROVE  /\ Bytes(document) \in Seq(Pieces) /\ Len(Bytes(document)) = Len(document)
           /\ \A i \in 1..Len(document) : Bytes(document)[i] = <<"byte", document[i]>>
<1>1. Len(document) \in Nat /\ DOMAIN document = 1..Len(document)
  OBVIOUS
<1>2. Bytes(document) = [i \in 1..Len(document) |-> <<"byte", document[i]>>]
  BY <1>1 DEF Bytes
<1>3. \A i \in 1..Len(document) : <<"byte", document[i]>> \in Pieces
  BY DEF Pieces
<1>4. Bytes(document) \in [1..Len(document) -> Pieces]
  BY <1>2, <1>3
<1>5. QED
  BY <1>1, <1>2, <1>4, SMTT(30)

LEMMA TextOfBytes ==
    ASSUME NEW document \in Seq(Tokens)
    PROVE  Text(Bytes(document)) = document
<1> DEFINE b == Bytes(document)
<1>1. /\ b \in Seq(Pieces) /\ Len(b) = Len(document) /\ Len(document) \in Nat
      /\ \A i \in 1..Len(document) : b[i] = <<"byte", document[i]>>
  BY BytesOf
<1> HIDE DEF b
<1>2. DOMAIN b = 1..Len(document)
  BY <1>1
<1>3. \A i \in 1..Len(document) : b[i][1] = "byte" /\ b[i][2] = document[i]
  BY <1>1
<1>4. Text(b) = [i \in 1..Len(document) |-> document[i]]
  BY <1>2, <1>3 DEF Text
<1>5. document = [i \in 1..Len(document) |-> document[i]]
  OBVIOUS
<1>6. QED
  BY <1>4, <1>5 DEF b

\* What stands behind a place of a document, up to another.
Part(document, at, to) == Bytes(SubSeq(document, at + 1, to))

LEMMA PartIs ==
    ASSUME NEW document \in Seq(Tokens), NEW at \in 0..Len(document), NEW to \in at..Len(document)
    PROVE  /\ Part(document, at, to) \in Seq(Pieces) /\ Len(Part(document, at, to)) = to - at
           /\ \A i \in 1..to - at : Part(document, at, to)[i] = <<"byte", document[at + i]>>
<1> DEFINE s == SubSeq(document, at + 1, to)
<1>1. Len(document) \in Nat /\ at \in Nat /\ to \in Nat /\ at <= to /\ to <= Len(document)
  OBVIOUS
<1>2. /\ s \in Seq(Tokens) /\ Len(s) = to - at
      /\ \A i \in 1..to - at : s[i] = document[at + i]
  <2>1. at + 1 \in 1..Len(document) + 1 /\ to \in at..Len(document) /\ at + 1 - 1 = at
    BY <1>1
  <2>2. CASE at = to
    <3>1. s = <<>>
      BY <1>1, <2>2, SubSeqEmpty
    <3>2. QED
      BY <1>1, <2>2, <3>1
  <2>3. CASE at < to
    <3>1. /\ at + 1 \in 1..Len(document) /\ to \in (at + 1)..Len(document)
          /\ \A i \in (at + 1)..to : document[i] \in Tokens
      BY <1>1, <2>3
    <3>2. /\ s \in Seq(Tokens) /\ Len(s) = to - (at + 1) + 1
          /\ \A i \in 1..(to - (at + 1) + 1) : s[i] = document[at + 1 + i - 1]
      BY <3>1, SubSeqProperties
    <3>3. to - (at + 1) + 1 = to - at /\ \A i \in 1..to - at : at + 1 + i - 1 = at + i
      BY <1>1
    <3>4. QED
      BY <3>2, <3>3
  <2>4. QED
    BY <1>1, <2>2, <2>3
<1> HIDE DEF s
<1>3. Bytes(s) \in Seq(Pieces) /\ Len(Bytes(s)) = to - at
  BY <1>2, BytesOf
<1>4. ASSUME NEW i \in 1..to - at PROVE Bytes(s)[i] = <<"byte", document[at + i]>>
  <2>1. Bytes(s)[i] = <<"byte", s[i]>>
    BY <1>2, <1>4, BytesOf
  <2>2. QED
    BY <1>2, <1>4, <2>1
<1>5. QED
  BY <1>3, <1>4 DEF Part, s

\* Sequences with the same pieces in the same places are the same.
LEMMA SamePieces ==
    ASSUME NEW s \in Seq(Pieces), NEW t \in Seq(Pieces), Len(s) = Len(t),
           \A i \in 1..Len(s) : s[i] = t[i]
    PROVE  s = t
BY SeqEqual

LEMMA NoPart ==
    ASSUME NEW document \in Seq(Tokens), NEW at \in 0..Len(document)
    PROVE  Part(document, at, at) = <<>>
<1>1. at \in at..Len(document) /\ at - at = 0
  OBVIOUS
<1>2. Part(document, at, at) \in Seq(Pieces) /\ Len(Part(document, at, at)) = 0
  BY <1>1, PartIs
<1>3. QED
  BY <1>2, EmptySeq

LEMMA PartsJoin ==
    ASSUME NEW document \in Seq(Tokens), NEW at \in 0..Len(document),
           NEW middle \in at..Len(document), NEW to \in middle..Len(document)
    PROVE  Part(document, at, middle) \o Part(document, middle, to) = Part(document, at, to)
<1> DEFINE left == Part(document, at, middle)
           right == Part(document, middle, to)
           whole == Part(document, at, to)
<1>1. /\ Len(document) \in Nat /\ at \in Nat /\ middle \in Nat /\ to \in Nat
      /\ at <= middle /\ middle <= to /\ to <= Len(document)
      /\ middle \in 0..Len(document) /\ to \in at..Len(document)
  OBVIOUS
<1>2. /\ left \in Seq(Pieces) /\ Len(left) = middle - at
      /\ \A i \in 1..middle - at : left[i] = <<"byte", document[at + i]>>
  BY <1>1, PartIs
<1>3. /\ right \in Seq(Pieces) /\ Len(right) = to - middle
      /\ \A i \in 1..to - middle : right[i] = <<"byte", document[middle + i]>>
  BY <1>1, PartIs
<1>4. /\ whole \in Seq(Pieces) /\ Len(whole) = to - at
      /\ \A i \in 1..to - at : whole[i] = <<"byte", document[at + i]>>
  BY <1>1, PartIs
<1> HIDE DEF left, right, whole
<1>5. /\ left \o right \in Seq(Pieces)
      /\ Len(left \o right) = Len(left) + Len(right)
      /\ \A i \in 1..Len(left) + Len(right) :
            (left \o right)[i] = IF i <= Len(left) THEN left[i] ELSE right[i - Len(left)]
  BY <1>2, <1>3, ConcatProperties
<1>6. Len(left \o right) = to - at
  BY <1>1, <1>2, <1>3, <1>5
<1>7. ASSUME NEW i \in 1..to - at PROVE (left \o right)[i] = whole[i]
  <2>1. (left \o right)[i] = IF i <= middle - at THEN left[i] ELSE right[i - (middle - at)]
    BY <1>1, <1>2, <1>3, <1>5, SMTT(30)
  <2>2. CASE i <= middle - at
    <3>1. i \in 1..middle - at
      BY <1>1, <2>2
    <3>2. left[i] = <<"byte", document[at + i]>>
      BY <1>2, <3>1
    <3>3. QED
      BY <1>4, <2>1, <2>2, <3>2
  <2>3. CASE ~(i <= middle - at)
    <3>1. i - (middle - at) \in 1..to - middle /\ middle + (i - (middle - at)) = at + i
      BY <1>1, <2>3
    <3>2. right[i - (middle - at)] = <<"byte", document[at + i]>>
      BY <1>3, <3>1
    <3>3. QED
      BY <1>4, <2>1, <2>3, <3>2
  <2>4. QED
    BY <2>2, <2>3
<1>8. QED
  <2>1. left \o right = whole
    BY <1>4, <1>5, <1>6, <1>7, SamePieces
  <2>2. QED
    BY <2>1 DEF left, right, whole

------------------------------------------------------------------------------
\* A document in chunks.

\* Where the chunk ends that begins behind a place.
NextCut(document, cuts, at) == Min({cut \in cuts \cup {Len(document)} : cut > at})

LEMMA NextCutIs ==
    ASSUME NEW document \in Seq(Tokens), NEW cuts \in Cuts(document), NEW at \in 0..Len(document) - 1
    PROVE  NextCut(document, cuts, at) \in at + 1..Len(document)
<1> DEFINE behind == {cut \in cuts \cup {Len(document)} : cut > at}
<1>1. Len(document) \in Nat /\ cuts \subseteq 1..Len(document) - 1 /\ at \in Nat /\ at < Len(document)
  BY DEF Cuts
<1>2. behind \subseteq at + 1..Len(document) /\ behind \subseteq Nat /\ Len(document) \in behind
  <2>1. ASSUME NEW cut \in behind PROVE cut \in at + 1..Len(document) /\ cut \in Nat
    <3>1. cut > at /\ (cut \in 1..Len(document) - 1 \/ cut = Len(document))
      BY <1>1, <2>1
    <3>2. QED
      BY <1>1, <3>1
  <2>2. Len(document) \in behind
    BY <1>1
  <2>3. QED
    BY <2>1, <2>2
<1> HIDE DEF behind
<1>3. Min(behind) \in behind
  BY <1>2, LeastIsMin
<1>4. QED
  BY <1>2, <1>3 DEF NextCut, behind

\* A chunk and what follows it.
Chunk(document, at, next, rest) ==
    Line(<<"size", next - at>>) \o Bytes(SubSeq(document, at + 1, next)) \o End \o rest

LastChunk == Line(<<"size", 0>>) \o End

\* The function ChunkedFrom defines, from one of the document's places on.
IsChunked(f, document, cuts, first) ==
    f = [at \in first..Len(document) |->
            LET next == NextCut(document, cuts, at)
            IN  IF at = Len(document) THEN LastChunk ELSE Chunk(document, at, next, f[next])]

LEMMA ChunkedExists ==
    ASSUME NEW document \in Seq(Tokens), NEW cuts \in Cuts(document)
    PROVE  \E f : IsChunked(f, document, cuts, 0)
<1> DEFINE end == Len(document)
           Missing == {n \in 0..end : ~ \E f : IsChunked(f, document, cuts, end - n)}
           Next1(f, at) == Chunk(document, at, NextCut(document, cuts, at),
                                 f[NextCut(document, cuts, at)])
<1>1. end \in Nat
  OBVIOUS
<1>2. \A f : \A first : IsChunked(f, document, cuts, first)
          <=> f = [at \in first..end |-> IF at = end THEN LastChunk ELSE Next1(f, at)]
  BY DEF IsChunked
<1>3. \A at \in 0..end - 1 : NextCut(document, cuts, at) \in at + 1..end
  BY NextCutIs
<1>4. SUFFICES ASSUME Missing # {} PROVE FALSE
  <2>1. end \in 0..end /\ end - end = 0
    BY <1>1
  <2>2. QED
    BY <1>4, <2>1
<1>5. Missing \subseteq Nat
  BY <1>1
<1>6. PICK least \in Missing : \A n \in Missing : least <= n
  BY <1>4, <1>5, LeastOf
<1>7. least \in 0..end /\ ~ \E f : IsChunked(f, document, cuts, end - least)
  BY <1>6
<1>8. CASE least = 0
  <2> DEFINE f == [at \in end..end |-> LastChunk]
  <2>1. f = [at \in end..end |-> IF at = end THEN LastChunk ELSE Next1(f, at)]
    <3>1. \A at \in end..end : at = end
      BY <1>1
    <3> HIDE DEF Next1
    <3>2. QED
      BY <3>1
  <2>2. end - 0 = end
    BY <1>1
  <2>3. QED
    BY <1>2, <1>7, <1>8, <2>1, <2>2
<1>9. CASE least # 0
  <2> DEFINE first == end - least
  <2>1. least - 1 \in 0..end /\ ~(least <= least - 1) /\ end - (least - 1) = first + 1
        /\ first \in 0..end - 1
    BY <1>1, <1>7, <1>9
  <2>2. PICK f : IsChunked(f, document, cuts, first + 1)
    BY <1>6, <2>1
  <2> DEFINE g == [at \in first..end |-> IF at = first THEN Next1(f, at) ELSE f[at]]
  <2>3. ASSUME NEW at \in first..end
        PROVE  g[at] = IF at = end THEN LastChunk ELSE Next1(g, at)
    <3>1. at \in 0..end /\ (at # first => at \in first + 1..end) /\ (at = first => at # end)
      BY <1>1, <2>1
    <3>2. at # end => NextCut(document, cuts, at) \in first + 1..end
      <4>1. at # end => NextCut(document, cuts, at) \in at + 1..end
        BY <1>1, <1>3, <3>1
      <4>2. at \in Int /\ first \in Int /\ first <= at
        BY <1>1, <2>1
      <4>3. QED
        BY <1>1, <4>1, <4>2
    <3>3. \A i \in first + 1..end : i \in first..end /\ i # first
      BY <1>1, <2>1
    <3>4. \A i \in first + 1..end : g[i] = f[i]
      BY <3>3
    <3>5. at # end => Next1(g, at) = Next1(f, at)
      BY <3>2, <3>4
    <3>6. at # first => f[at] = IF at = end THEN LastChunk ELSE Next1(f, at)
      <4>1. f = [i \in first + 1..end |-> IF i = end THEN LastChunk ELSE Next1(f, i)]
        BY <1>2, <2>2
      <4> HIDE DEF Next1
      <4>2. QED
        BY <3>1, <4>1
    <3>7. QED
      <4> HIDE DEF Next1
      <4>1. QED
        BY <3>1, <3>5, <3>6
  <2>4. g = [at \in first..end |-> IF at = end THEN LastChunk ELSE Next1(g, at)]
    <3> HIDE DEF Next1
    <3>1. QED
      BY <2>3
  <2>5. IsChunked(g, document, cuts, first)
    BY <1>2, <2>4
  <2>6. QED
    BY <1>7, <2>5
<1>10. QED
  BY <1>8, <1>9

LEMMA ChunkedSteps ==
    ASSUME NEW document \in Seq(Tokens), NEW cuts \in Cuts(document)
    PROVE  /\ ChunkedFrom(document, cuts)[Len(document)] = LastChunk
           /\ \A at \in 0..Len(document) - 1 :
                 ChunkedFrom(document, cuts)[at]
                     = Chunk(document, at, NextCut(document, cuts, at),
                             ChunkedFrom(document, cuts)[NextCut(document, cuts, at)])
<1> DEFINE end == Len(document)
           C == ChunkedFrom(document, cuts)
<1>1. end \in Nat
  OBVIOUS
<1>2. IsChunked(C, document, cuts, 0)
  <2>1. \E f : IsChunked(f, document, cuts, 0)
    BY ChunkedExists
  <2>2. C = CHOOSE f : IsChunked(f, document, cuts, 0)
    BY DEF ChunkedFrom, IsChunked, LastChunk, Chunk, NextCut
  <2>3. QED
    BY <2>1, <2>2
<1>3. C = [at \in 0..end |-> IF at = end THEN LastChunk
                             ELSE Chunk(document, at, NextCut(document, cuts, at),
                                        C[NextCut(document, cuts, at)])]
  BY <1>2 DEF IsChunked
<1> HIDE DEF C
<1>4. \A at \in 0..end : C[at] = IF at = end THEN LastChunk
                                 ELSE Chunk(document, at, NextCut(document, cuts, at),
                                            C[NextCut(document, cuts, at)])
  BY <1>3
<1>5. end \in 0..end /\ \A at \in 0..end - 1 : at \in 0..end /\ at # end
  BY <1>1
<1>6. QED
  BY <1>4, <1>5 DEF C

LEMMA LineIs ==
    ASSUME NEW piece \in Pieces
    PROVE  /\ Line(piece) \in Seq(Pieces) /\ Len(Line(piece)) = 3
           /\ Line(piece)[1] = piece /\ Line(piece)[2] = CR /\ Line(piece)[3] = LF
           /\ End \in Seq(Pieces) /\ Len(End) = 2 /\ End[1] = CR /\ End[2] = LF
<1>1. CR \in Pieces /\ LF \in Pieces
  BY DEF Pieces, CR, LF
<1>2. Line(piece) = <<piece, CR, LF>> /\ End = <<CR, LF>>
  BY DEF Line, End
<1>3. QED
  BY <1>1, <1>2

\* The last chunk: its size, and the line break of a trailer that is not there.
LEMMA LastChunkIs ==
    /\ LastChunk \in Seq(Pieces) /\ Len(LastChunk) = 5
    /\ LastChunk[1] = <<"size", 0>> /\ LastChunk[2] = CR /\ LastChunk[3] = LF
<1> DEFINE line == Line(<<"size", 0>>)
<1>1. <<"size", 0>> \in Pieces
  BY DEF Pieces
<1>2. /\ line \in Seq(Pieces) /\ Len(line) = 3 /\ line[1] = <<"size", 0>> /\ line[2] = CR /\ line[3] = LF
      /\ End \in Seq(Pieces) /\ Len(End) = 2
  BY <1>1, LineIs
<1> HIDE DEF line
<1>3. /\ line \o End \in Seq(Pieces)
      /\ Len(line \o End) = Len(line) + Len(End)
      /\ \A i \in 1..Len(line) + Len(End) :
            (line \o End)[i] = IF i <= Len(line) THEN line[i] ELSE End[i - Len(line)]
  BY <1>2, ConcatProperties
<1>4. \A i \in 1..3 : (line \o End)[i] = line[i]
  BY <1>2, <1>3
<1>5. /\ (line \o End)[1] = <<"size", 0>> /\ (line \o End)[2] = CR /\ (line \o End)[3] = LF
      /\ Len(line \o End) = 5
  BY <1>2, <1>3, <1>4
<1>6. QED
  BY <1>3, <1>5 DEF LastChunk, line

\* A chunk, piece by piece.
ChunkPieces(chunk, size, part, rest) ==
    /\ chunk \in Seq(Pieces) /\ Len(chunk) = size + 5 + Len(rest)
    /\ chunk[1] = <<"size", size>> /\ chunk[2] = CR /\ chunk[3] = LF
    /\ \A j \in 1..size : chunk[3 + j] = part[j]
    /\ chunk[size + 4] = CR /\ chunk[size + 5] = LF
    /\ \A j \in 1..Len(rest) : chunk[size + 5 + j] = rest[j]

LEMMA ChunkIs ==
    ASSUME NEW document \in Seq(Tokens), NEW at \in 0..Len(document) - 1,
           NEW next \in at + 1..Len(document), NEW rest \in Seq(Pieces)
    PROVE  ChunkPieces(Chunk(document, at, next, rest), next - at, Part(document, at, next), rest)
<1> DEFINE size == next - at
           line == Line(<<"size", size>>)
           part == Part(document, at, next)
           one == line \o part
           two == one \o End
           three == two \o rest
<1>1. /\ Len(document) \in Nat /\ at \in Nat /\ next \in Nat /\ size \in Nat /\ Len(rest) \in Nat
      /\ at \in 0..Len(document) /\ next \in at..Len(document)
  OBVIOUS
<1>2. part \in Seq(Pieces) /\ Len(part) = size
  BY <1>1, PartIs
<1>3. <<"size", size>> \in Pieces
  BY <1>1 DEF Pieces
<1>4. /\ line \in Seq(Pieces) /\ Len(line) = 3
      /\ line[1] = <<"size", size>> /\ line[2] = CR /\ line[3] = LF
      /\ End \in Seq(Pieces) /\ Len(End) = 2 /\ End[1] = CR /\ End[2] = LF
  BY <1>3, LineIs
<1>5. Chunk(document, at, next, rest) = three
  BY DEF Chunk, Part
<1> HIDE DEF size, line, part
<1>6. /\ one \in Seq(Pieces) /\ Len(one) = 3 + size
      /\ \A i \in 1..3 + size : one[i] = IF i <= 3 THEN line[i] ELSE part[i - 3]
  <2>1. Len(line) + Len(part) = 3 + size
    BY <1>1, <1>2, <1>4
  <2>2. /\ one \in Seq(Pieces) /\ Len(one) = Len(line) + Len(part)
        /\ \A i \in 1..Len(line) + Len(part) :
              one[i] = IF i <= Len(line) THEN line[i] ELSE part[i - Len(line)]
    BY <1>2, <1>4, ConcatProperties
  <2>3. QED
    BY <1>4, <2>1, <2>2
<1> HIDE DEF one
<1>7. /\ two \in Seq(Pieces) /\ Len(two) = size + 5
      /\ \A i \in 1..size + 5 : two[i] = IF i <= size + 3 THEN one[i] ELSE End[i - (size + 3)]
  <2>1. Len(one) + Len(End) = size + 5 /\ Len(one) = size + 3
    BY <1>1, <1>4, <1>6
  <2>2. /\ two \in Seq(Pieces) /\ Len(two) = Len(one) + Len(End)
        /\ \A i \in 1..Len(one) + Len(End) : two[i] = IF i <= Len(one) THEN one[i] ELSE End[i - Len(one)]
    BY <1>4, <1>6, ConcatProperties
  <2>3. QED
    BY <2>1, <2>2
<1> HIDE DEF two
<1>8. /\ three \in Seq(Pieces) /\ Len(three) = size + 5 + Len(rest)
      /\ \A i \in 1..size + 5 + Len(rest) :
            three[i] = IF i <= size + 5 THEN two[i] ELSE rest[i - (size + 5)]
  <2>1. /\ three \in Seq(Pieces) /\ Len(three) = Len(two) + Len(rest)
        /\ \A i \in 1..Len(two) + Len(rest) :
              three[i] = IF i <= Len(two) THEN two[i] ELSE rest[i - Len(two)]
    BY <1>7, ConcatProperties
  <2>2. QED
    BY <1>7, <2>1
<1> HIDE DEF three
<1>9. \A i \in 1..size + 5 : three[i] = two[i]
  BY <1>1, <1>8
<1>10. \A i \in 1..size + 3 : three[i] = IF i <= 3 THEN line[i] ELSE part[i - 3]
  <2>1. \A i \in 1..size + 3 : i \in 1..size + 5 /\ i <= size + 3 /\ i \in 1..3 + size
    BY <1>1
  <2>2. QED
    BY <1>6, <1>7, <1>9, <2>1
<1>11. three[1] = <<"size", size>> /\ three[2] = CR /\ three[3] = LF
  BY <1>1, <1>4, <1>10
<1>12. ASSUME NEW j \in 1..size PROVE three[3 + j] = part[j]
  <2>1. 3 + j \in 1..size + 3 /\ ~(3 + j <= 3) /\ 3 + j - 3 = j
    BY <1>1
  <2>2. QED
    BY <1>10, <2>1
<1>13. three[size + 4] = CR /\ three[size + 5] = LF
  <2> DEFINE cr == size + 4
             lf == size + 5
  <2>1. /\ cr \in 1..size + 5 /\ ~(cr <= size + 3) /\ cr - (size + 3) = 1
        /\ lf \in 1..size + 5 /\ ~(lf <= size + 3) /\ lf - (size + 3) = 2
    BY <1>1
  <2> HIDE DEF cr, lf
  <2>2. three[cr] = End[1] /\ three[lf] = End[2]
    BY <1>7, <1>9, <2>1
  <2>3. QED
    BY <1>4, <2>2 DEF cr, lf
<1>14. ASSUME NEW j \in 1..Len(rest) PROVE three[size + 5 + j] = rest[j]
  <2> DEFINE k == size + 5 + j
  <2>1. k \in 1..size + 5 + Len(rest) /\ ~(k <= size + 5) /\ k - (size + 5) = j
    BY <1>1
  <2> HIDE DEF k
  <2>2. three[k] = rest[j]
    BY <1>8, <2>1
  <2>3. QED
    BY <2>2 DEF k
<1>15. QED
  BY <1>5, <1>8, <1>11, <1>12, <1>13, <1>14 DEF ChunkPieces, size, part

LEMMA ChunkedPieces ==
    ASSUME NEW document \in Seq(Tokens), NEW cuts \in Cuts(document), NEW at \in 0..Len(document)
    PROVE  ChunkedFrom(document, cuts)[at] \in Seq(Pieces)
<1> DEFINE end == Len(document)
           C == ChunkedFrom(document, cuts)
           Odd == {n \in 0..end : ~(C[end - n] \in Seq(Pieces))}
<1>1. end \in Nat
  OBVIOUS
<1>2. SUFFICES ASSUME Odd # {} PROVE FALSE
  <2>1. end - at \in 0..end /\ end - (end - at) = at
    BY <1>1
  <2>2. QED
    BY <1>2, <2>1
<1>3. Odd \subseteq Nat
  BY <1>1
<1>4. PICK least \in Odd : \A n \in Odd : least <= n
  BY <1>2, <1>3, LeastOf
<1>5. least \in 0..end /\ ~(C[end - least] \in Seq(Pieces))
  BY <1>4
<1>6. least # 0
  <2>1. end - 0 = end
    BY <1>1
  <2>2. QED
    BY <1>5, <2>1, ChunkedSteps, LastChunkIs
<1> DEFINE first == end - least
           next == NextCut(document, cuts, first)
<1>7. first \in 0..end - 1
  BY <1>1, <1>5, <1>6
<1>8. next \in first + 1..end
  BY <1>7, NextCutIs
<1>9. end - next \in 0..end /\ ~(least <= end - next) /\ end - (end - next) = next
  <2> HIDE DEF next
  <2>1. QED
    BY <1>1, <1>5, <1>7, <1>8
<1>10. C[next] \in Seq(Pieces)
  BY <1>4, <1>9
<1>11. C[first] = Chunk(document, first, next, C[next])
  BY <1>7, ChunkedSteps
<1>12. C[first] \in Seq(Pieces)
  <2> HIDE DEF first, next, C
  <2>1. QED
    BY <1>7, <1>8, <1>10, <1>11, ChunkIs DEF ChunkPieces
<1>13. QED
  BY <1>5, <1>12

------------------------------------------------------------------------------
\* Chunks read back, however much of them has arrived.

\* One turn of decode_chunked's loop, with what it makes of the rest.
DecodeStep(f, body, at) ==
    LET end == Find(body, End, at)
        start == end + 2
        size == ChunkSize(body, at)
        next == start + size
        rest == f[BehindBreak(body, next)]
    IN  IF at > Len(body) THEN Decoded(<<>>)
        ELSE IF end = 0 THEN Malformed
        ELSE IF size = 0 THEN Decoded(<<>>)
        ELSE IF next - 1 > Len(body) THEN Malformed
        ELSE [rest EXCEPT !.body = SubSeq(body, start, next - 1) \o @]

IsDecoding(f, body, first) == f = [at \in first..Len(body) + 1 |-> DecodeStep(f, body, at)]

LEMMA FoundWithin ==
    ASSUME NEW s \in Seq(Pieces), NEW from \in Nat \ {0}, Find(s, End, from) # 0
    PROVE  Find(s, End, from) \in from..Len(s) - 1
<1> DEFINE found == {i \in from..Len(s) - Len(End) + 1 : SubSeq(s, i, i + Len(End) - 1) = End}
<1>1. Len(s) \in Nat /\ Len(End) = 2
  BY DEF End
<1>2. Find(s, End, from) = IF found = {} THEN 0 ELSE Min(found)
  BY DEF Find
<1>3. found \subseteq from..Len(s) - 1 /\ found \subseteq Nat
  <2>1. \A i \in found : i \in from..Len(s) - 1 /\ i \in Nat
    BY <1>1
  <2>2. QED
    BY <2>1
<1> HIDE DEF found
<1>4. QED
  BY <1>2, <1>3, LeastIsMin

\* The loop gets on with every chunk, and never beyond the end.
LEMMA NextChunkWithin ==
    ASSUME NEW body \in Seq(Pieces), NEW at \in 1..Len(body), NEW end, NEW next,
           end = Find(body, End, at), end # 0,
           next = end + 2 + ChunkSize(body, at), next - 1 <= Len(body)
    PROVE  BehindBreak(body, next) \in at + 1..Len(body) + 1
<1>1. Len(body) \in Nat /\ at \in Nat \ {0} /\ at <= Len(body)
  OBVIOUS
<1>2. ChunkSize(body, at) \in Nat
  <2>1. body[at] \in Pieces
    OBVIOUS
  <2>2. body[at][1] = "size" => body[at][2] \in Nat
    BY <2>1 DEF Pieces
  <2>3. QED
    BY <2>2 DEF ChunkSize
<1>3. end \in at..Len(body) - 1
  BY <1>1, FoundWithin
<1>4. next \in at + 1..Len(body) + 1 /\ next \in Nat \ {0}
  BY <1>1, <1>2, <1>3
<1>5. Find(body, End, next) = next => next + 2 \in at + 1..Len(body) + 1
  <2>1. Find(body, End, next) = next => next \in next..Len(body) - 1
    BY <1>4, FoundWithin
  <2>2. QED
    BY <1>1, <1>4, <2>1
<1>6. QED
  BY <1>4, <1>5 DEF BehindBreak

LEMMA DecodeStepAgrees ==
    ASSUME NEW body \in Seq(Pieces), NEW at \in 1..Len(body) + 1, NEW f, NEW g,
           \A i \in at + 1..Len(body) + 1 : f[i] = g[i]
    PROVE  DecodeStep(f, body, at) = DecodeStep(g, body, at)
<1> DEFINE end == Find(body, End, at)
           next == end + 2 + ChunkSize(body, at)
<1>1. Len(body) \in Nat
  OBVIOUS
<1>2. CASE at > Len(body) \/ end = 0 \/ ChunkSize(body, at) = 0 \/ next - 1 > Len(body)
  BY <1>2 DEF DecodeStep
<1>3. CASE ~(at > Len(body)) /\ end # 0 /\ ~(next - 1 > Len(body))
  <2>1. at \in 1..Len(body)
    BY <1>1, <1>3
  <2>2. next - 1 \in Int
    <3>1. end \in at..Len(body) - 1
      BY <1>3, <2>1, FoundWithin
    <3>2. body[at] \in Pieces
      BY <2>1
    <3>3. ChunkSize(body, at) \in Nat
      BY <3>2 DEF ChunkSize, Pieces
    <3>4. QED
      BY <3>1, <3>3
  <2>3. next - 1 <= Len(body)
    <3> HIDE DEF next
    <3>1. QED
      BY <1>1, <1>3, <2>2
  <2>4. BehindBreak(body, next) \in at + 1..Len(body) + 1
    <3>1. end = Find(body, End, at) /\ next = end + 2 + ChunkSize(body, at)
      OBVIOUS
    <3> HIDE DEF end, next
    <3>2. QED
      BY <1>3, <2>1, <2>3, <3>1, NextChunkWithin
  <2>5. f[BehindBreak(body, next)] = g[BehindBreak(body, next)]
    <3> HIDE DEF next
    <3>1. QED
      BY <2>4
  <2>6. QED
    BY <2>5 DEF DecodeStep
<1>4. QED
  BY <1>2, <1>3

LEMMA DecodingExists ==
    ASSUME NEW body \in Seq(Pieces)
    PROVE  \E f : IsDecoding(f, body, 1)
<1> DEFINE end == Len(body) + 1
           Missing == {n \in 0..Len(body) : ~ \E f : IsDecoding(f, body, end - n)}
<1>1. Len(body) \in Nat /\ end \in Nat
  OBVIOUS
<1>2. SUFFICES ASSUME Missing # {} PROVE FALSE
  <2>1. Len(body) \in 0..Len(body) /\ end - Len(body) = 1
    BY <1>1
  <2>2. QED
    BY <1>2, <2>1
<1>3. Missing \subseteq Nat
  BY <1>1
<1>4. PICK least \in Missing : \A n \in Missing : least <= n
  BY <1>2, <1>3, LeastOf
<1>5. least \in 0..Len(body) /\ ~ \E f : IsDecoding(f, body, end - least)
  BY <1>4
<1> DEFINE first == end - least
<1>6. first \in 1..end /\ first <= end
  BY <1>1, <1>5
<1>7. \E f : \A i \in first + 1..end : f[i] = DecodeStep(f, body, i)
  <2>1. CASE least = 0
    <3>1. \A i \in first + 1..end : FALSE
      BY <1>1, <2>1
    <3>2. QED
      BY <3>1
  <2>2. CASE least # 0
    <3>1. least - 1 \in 0..Len(body) /\ ~(least <= least - 1) /\ end - (least - 1) = first + 1
      BY <1>1, <1>5, <2>2
    <3>2. PICK f : IsDecoding(f, body, first + 1)
      BY <1>4, <3>1
    <3>3. \A i \in first + 1..end : f[i] = DecodeStep(f, body, i)
      BY <3>2 DEF IsDecoding
    <3>4. QED
      BY <3>3
  <2>3. QED
    BY <2>1, <2>2
<1>8. PICK f : \A i \in first + 1..end : f[i] = DecodeStep(f, body, i)
  BY <1>7
<1> DEFINE g == [i \in first..end |-> IF i = first THEN DecodeStep(f, body, i) ELSE f[i]]
<1> HIDE DEF first
<1>9. \A i \in first + 1..end : g[i] = f[i]
  <2>1. \A i \in first + 1..end : i \in first..end /\ i # first
    BY <1>1, <1>6
  <2>2. QED
    BY <2>1
<1>10. ASSUME NEW i \in first..end PROVE g[i] = DecodeStep(g, body, i)
  <2>1. i \in 1..Len(body) + 1 /\ (i # first => i \in first + 1..end)
    BY <1>1, <1>6
  <2>2. \A k \in i + 1..end : k \in first + 1..end
    BY <1>1, <1>6
  <2>3. \A k \in i + 1..end : g[k] = f[k]
    BY <1>9, <2>2
  <2>4. DecodeStep(g, body, i) = DecodeStep(f, body, i)
    <3> HIDE DEF g
    <3>1. QED
      BY <2>1, <2>3, DecodeStepAgrees
  <2>5. QED
    BY <1>8, <2>1, <2>4
<1>11. g = [i \in first..end |-> DecodeStep(g, body, i)]
  BY <1>10
<1>12. IsDecoding(g, body, first)
  BY <1>11 DEF IsDecoding
<1>13. QED
  BY <1>5, <1>12 DEF first

LEMMA DecodingSteps ==
    ASSUME NEW body \in Seq(Pieces)
    PROVE  \E f : /\ DecodeChunked(body) = f[1]
                  /\ \A at \in 1..Len(body) + 1 : f[at] = DecodeStep(f, body, at)
<1>1. PICK f : f = CHOOSE g : IsDecoding(g, body, 1)
  OBVIOUS
<1>2. IsDecoding(f, body, 1)
  BY <1>1, DecodingExists
<1>3. DecodeChunked(body) = f[1]
  BY <1>1 DEF DecodeChunked, IsDecoding, DecodeStep
<1>4. QED
  BY <1>2, <1>3 DEF IsDecoding

\* Behind `o` pieces of a body there is some of what was sent, or all of it.
Rest(body, o, wire) ==
    /\ o \in 0..Len(body) /\ Len(body) - o <= Len(wire)
    /\ \A j \in 1..Len(body) - o : body[o + j] = wire[j]

\* What is made of it: a part of the document or an error; of all, the document.
ReadAs(result, document, at, whole) ==
    \/ ~whole /\ \E b : result = [ok |-> FALSE, body |-> b]
    \/ \E to \in at..Len(document) :
          result = Decoded(Part(document, at, to)) /\ (whole => to = Len(document))

\* decode_chunked, at work on what stands behind `o` pieces of a body.
Decoding(f, body) == \A i \in 1..Len(body) + 1 : f[i] = DecodeStep(f, body, i)

Understood(f, body, o, document, at, wire) ==
    ReadAs(f[o + 1], document, at, Len(body) - o = Len(wire))

\* A line with a size, whole or not.
LEMMA SizeLine ==
    ASSUME NEW body \in Seq(Pieces), NEW o, NEW wire \in Seq(Pieces), NEW size \in Nat,
           Rest(body, o, wire), Len(wire) >= 3,
           wire[1] = <<"size", size>>, wire[2] = CR, wire[3] = LF
    PROVE  /\ o + 1 <= Len(body) => ChunkSize(body, o + 1) = size
           /\ Find(body, End, o + 1) = IF o + 3 <= Len(body) THEN o + 2 ELSE 0
<1>1. /\ Len(body) \in Nat /\ Len(wire) \in Nat /\ o \in Nat /\ o <= Len(body)
      /\ o + 1 \in Nat \ {0}
  BY DEF Rest
<1>2. ASSUME NEW j \in 1..3, o + j <= Len(body) PROVE body[o + j] = wire[j]
  <2>1. j \in 1..Len(body) - o
    BY <1>1, <1>2
  <2>2. QED
    BY <2>1 DEF Rest
<1>3. o + 1 <= Len(body) => ChunkSize(body, o + 1) = size
  BY <1>2 DEF ChunkSize
<1>4. o + 1 <= Len(body) => body[o + 1] # CR
  BY <1>2 DEF CR
<1>5. CASE o + 3 <= Len(body)
  <2>1. body[o + 2] = CR /\ body[o + 2 + 1] = LF
    <3>1. body[o + 2] = CR /\ body[o + 3] = LF
      BY <1>1, <1>2, <1>5
    <3>2. o + 2 + 1 = o + 3
      BY <1>1
    <3>3. QED
      BY <3>1, <3>2
  <2>2. o + 2 \in o + 1..Len(body) - 1
    BY <1>1, <1>5
  <2>3. \A k \in o + 1..o + 2 - 1 : ~(body[k] = CR /\ body[k + 1] = LF)
    <3>1. \A k \in o + 1..o + 2 - 1 : k = o + 1
      BY <1>1
    <3>2. QED
      BY <1>1, <1>4, <1>5, <3>1
  <2> DEFINE i == o + 2
             from == o + 1
  <2>4. /\ i \in from..Len(body) - 1 /\ body[i] = CR /\ body[i + 1] = LF
        /\ \A k \in from..i - 1 : ~(body[k] = CR /\ body[k + 1] = LF)
        /\ from \in Nat \ {0}
    BY <1>1, <2>1, <2>2, <2>3
  <2> HIDE DEF i, from
  <2>5. Find(body, End, from) = i
    BY <2>4, BreakFound
  <2>6. QED
    BY <1>3, <1>5, <2>5 DEF i, from
<1>6. CASE ~(o + 3 <= Len(body))
  <2> DEFINE from == o + 1
  <2>1. \A i \in from..Len(body) - 1 : ~(body[i] = CR /\ body[i + 1] = LF)
    <3>1. \A i \in from..Len(body) - 1 : i = o + 1 /\ o + 1 <= Len(body)
      BY <1>1, <1>6
    <3>2. QED
      BY <1>4, <3>1
  <2>2. from \in Nat \ {0}
    BY <1>1
  <2> HIDE DEF from
  <2>3. Find(body, End, from) = 0
    BY <2>1, <2>2, BreakFound
  <2>4. QED
    BY <1>3, <1>6, <2>3 DEF from
<1>7. QED
  BY <1>5, <1>6

\* Where the last chunk was sent: the end, or less than a line of it.
LEMMA LastChunkRead ==
    ASSUME NEW document \in Seq(Tokens), NEW body \in Seq(Pieces), NEW f, NEW o,
           Decoding(f, body), Rest(body, o, LastChunk)
    PROVE  Understood(f, body, o, document, Len(document), LastChunk)
<1> SUFFICES ReadAs(f[o + 1], document, Len(document), Len(body) - o = Len(LastChunk))
  BY DEF Understood
<1>1. /\ LastChunk \in Seq(Pieces) /\ Len(LastChunk) = 5
      /\ LastChunk[1] = <<"size", 0>> /\ LastChunk[2] = CR /\ LastChunk[3] = LF
  BY LastChunkIs
<1>2. /\ Len(body) \in Nat /\ o \in Nat /\ o <= Len(body) /\ Len(document) \in Nat
      /\ o + 1 \in 1..Len(body) + 1
  BY DEF Rest
<1>3. /\ o + 1 <= Len(body) => ChunkSize(body, o + 1) = 0
      /\ Find(body, End, o + 1) = IF o + 3 <= Len(body) THEN o + 2 ELSE 0
  <2>1. Len(LastChunk) >= 3 /\ 0 \in Nat /\ Rest(body, o, LastChunk)
    BY <1>1
  <2>2. QED
    BY <1>1, <2>1, SizeLine
<1>4. f[o + 1] = DecodeStep(f, body, o + 1)
  BY <1>2 DEF Decoding
<1>5. ReadAs(Decoded(<<>>), document, Len(document), Len(body) - o = Len(LastChunk))
  <2>1. Len(document) \in 0..Len(document) /\ Len(document) \in Len(document)..Len(document)
    BY <1>2
  <2>2. Part(document, Len(document), Len(document)) = <<>>
    BY <2>1, NoPart
  <2>3. QED
    BY <2>1, <2>2 DEF ReadAs
<1>6. CASE o + 1 > Len(body)
  BY <1>4, <1>5, <1>6 DEF DecodeStep
<1>7. CASE o + 1 <= Len(body) /\ ~(o + 3 <= Len(body))
  <2>1. f[o + 1] = Malformed
    BY <1>2, <1>3, <1>4, <1>7 DEF DecodeStep
  <2>2. ~(Len(body) - o = 5)
    BY <1>2, <1>7
  <2>3. QED
    BY <1>1, <2>1, <2>2 DEF ReadAs, Malformed
<1>8. CASE o + 3 <= Len(body)
  <2>1. ~(o + 1 > Len(body)) /\ o + 1 <= Len(body) /\ o + 2 # 0
    BY <1>2, <1>8
  <2>2. f[o + 1] = Decoded(<<>>)
    BY <1>3, <1>4, <1>8, <2>1 DEF DecodeStep
  <2>3. QED
    BY <1>5, <2>2
<1>9. QED
  BY <1>2, <1>6, <1>7, <1>8

\* Where a chunk was sent, and what follows is read as it should be.
LEMMA ChunkRead ==
    ASSUME NEW document \in Seq(Tokens), NEW at \in 0..Len(document) - 1,
           NEW next \in at + 1..Len(document), NEW rest \in Seq(Pieces),
           NEW body \in Seq(Pieces), NEW f, NEW o, NEW wire, NEW size, NEW behind,
           Decoding(f, body),
           wire = Chunk(document, at, next, rest), size = next - at, behind = o + size + 5,
           Rest(body, o, wire),
           behind <= Len(body) => Understood(f, body, behind, document, next, rest)
    PROVE  Understood(f, body, o, document, at, wire)
<1> SUFFICES ReadAs(f[o + 1], document, at, Len(body) - o = Len(wire))
  BY DEF Understood
<1> DEFINE part == Part(document, at, next)
           here == o + 1
           start == o + 4
           after == start + size
           whole == Len(body) - o = Len(wire)
<1>1. /\ Len(body) \in Nat /\ Len(rest) \in Nat /\ Len(document) \in Nat
      /\ o \in Nat /\ o <= Len(body) /\ at \in Nat /\ next \in Nat /\ size \in Nat \ {0}
      /\ at < next /\ next <= Len(document)
  BY DEF Rest
<1>2. /\ wire \in Seq(Pieces) /\ Len(wire) = size + 5 + Len(rest)
      /\ wire[1] = <<"size", size>> /\ wire[2] = CR /\ wire[3] = LF
      /\ \A j \in 1..size : wire[3 + j] = part[j]
      /\ wire[size + 4] = CR /\ wire[size + 5] = LF
  <2>1. ChunkPieces(wire, size, part, rest)
    BY ChunkIs
  <2>2. QED
    BY <2>1 DEF ChunkPieces
<1>3. ASSUME NEW j \in 1..size + 5, o + j <= Len(body) PROVE body[o + j] = wire[j]
  <2>1. j \in 1..Len(body) - o
    BY <1>1, <1>3
  <2>2. QED
    BY <2>1 DEF Rest
<1>4. /\ here <= Len(body) => ChunkSize(body, here) = size
      /\ Find(body, End, here) = IF o + 3 <= Len(body) THEN o + 2 ELSE 0
  <2>1. Len(wire) >= 3 /\ size \in Nat
    BY <1>1, <1>2
  <2>2. QED
    BY <1>2, <2>1, SizeLine
<1>5. here \in 1..Len(body) + 1 /\ f[here] = DecodeStep(f, body, here)
  BY <1>1 DEF Decoding
<1>6. at \in 0..Len(document) /\ next \in at..Len(document) /\ at \in at..Len(document)
  BY <1>1
<1>7. part \in Seq(Pieces) /\ Len(part) = size
  BY <1>6, PartIs
\* Nothing has come of the chunk: what came before is taken for all.
<1>8. CASE here > Len(body)
  <2>1. f[here] = Decoded(<<>>)
    BY <1>5, <1>8 DEF DecodeStep
  <2>2. Part(document, at, at) = <<>>
    BY <1>6, NoPart
  <2>3. ~whole
    <3>1. Len(body) = o
      BY <1>1, <1>8
    <3>2. QED
      BY <1>1, <1>2, <3>1
  <2> HIDE DEF whole
  <2>4. ReadAs(f[here], document, at, whole)
    BY <1>6, <2>1, <2>2, <2>3 DEF ReadAs
  <2>5. QED
    BY <2>4 DEF whole
\* Not all of the line with its size.
<1>9. CASE here <= Len(body) /\ ~(o + 3 <= Len(body))
  <2>1. Find(body, End, here) = 0 /\ ~(here > Len(body))
    BY <1>1, <1>4, <1>9
  <2>2. f[here] = Malformed
    BY <1>5, <2>1 DEF DecodeStep
  <2>3. ~whole
    BY <1>1, <1>2, <1>9
  <2> HIDE DEF whole
  <2>4. ReadAs(f[here], document, at, whole)
    BY <2>2, <2>3 DEF ReadAs, Malformed
  <2>5. QED
    BY <2>4 DEF whole
<1>10. ASSUME o + 3 <= Len(body)
       PROVE  f[here] = IF after - 1 > Len(body) THEN Malformed
                        ELSE [f[BehindBreak(body, after)] EXCEPT
                                !.body = SubSeq(body, start, after - 1) \o @]
  <2>1. /\ Find(body, End, here) = o + 2 /\ ~(here > Len(body)) /\ here <= Len(body)
        /\ o + 2 # 0 /\ o + 2 + 2 = start /\ size # 0
    BY <1>1, <1>4, <1>10
  <2>2. ChunkSize(body, here) = size
    BY <1>4, <2>1
  <2> HIDE DEF here, start
  <2>3. QED
    BY <1>5, <2>1, <2>2 DEF DecodeStep
\* Not all of its bytes.
<1>11. CASE o + 3 <= Len(body) /\ after - 1 > Len(body)
  <2>1. f[here] = Malformed
    BY <1>10, <1>11
  <2>2. ~whole
    BY <1>1, <1>2, <1>11
  <2> HIDE DEF whole
  <2>3. ReadAs(f[here], document, at, whole)
    BY <2>1, <2>2 DEF ReadAs, Malformed
  <2>4. QED
    BY <2>3 DEF whole
\* All of its bytes: what follows decides.
<1>12. CASE o + 3 <= Len(body) /\ ~(after - 1 > Len(body))
  <2>1. /\ after - 1 <= Len(body) /\ after = o + size + 4 /\ after \in Nat \ {0}
        /\ after - 1 = o + size + 3 /\ behind \in Nat /\ behind = after + 1
    BY <1>1, <1>12
  <2>2. SubSeq(body, start, after - 1) = part
    <3> DEFINE last == after - 1
               bytes == SubSeq(body, start, last)
    <3>1. /\ start \in Int /\ last \in Int /\ last - start + 1 = size
          /\ (IF start <= last THEN last - start + 1 ELSE 0) = size
          /\ 1 <= start /\ last <= Len(body)
      BY <1>1, <2>1
    <3> HIDE DEF start, last
    <3>2. \A i \in start..last : body[i] \in Pieces
      BY <1>1, <3>1
    <3>3. /\ bytes \in Seq(Pieces) /\ Len(bytes) = size
          /\ \A i \in 1..size : bytes[i] = body[start + i - 1]
      BY <3>1, <3>2, SubSeqProperties
    <3> HIDE DEF bytes
    <3>4. ASSUME NEW i \in 1..size PROVE bytes[i] = part[i]
      <4>1. start + i - 1 = o + (3 + i) /\ 3 + i \in 1..size + 5 /\ o + (3 + i) <= Len(body)
        BY <1>1, <2>1 DEF start
      <4>2. body[o + (3 + i)] = wire[3 + i]
        BY <1>3, <4>1
      <4>3. QED
        BY <1>2, <3>3, <4>1, <4>2
    <3> HIDE DEF part
    <3>5. bytes = part
      BY <1>7, <3>3, <3>4, SamePieces
    <3>6. QED
      BY <3>5 DEF bytes, last
  <2> DEFINE rests == f[BehindBreak(body, after)]
  <2>3. f[here] = [rests EXCEPT !.body = part \o @]
    BY <1>10, <1>12, <2>2
  <2>4. ReadAs(rests, document, next, whole)
    \* With the line break behind them the next chunk's turn has come, ...
    <3>1. CASE behind <= Len(body)
      <4>1. body[after] = CR /\ body[after + 1] = LF
        <5>1. /\ size + 4 \in 1..size + 5 /\ o + (size + 4) <= Len(body) /\ after = o + (size + 4)
              /\ size + 5 \in 1..size + 5 /\ o + (size + 5) <= Len(body) /\ after + 1 = o + (size + 5)
          BY <1>1, <2>1, <3>1
        <5> HIDE DEF after
        <5>2. body[o + (size + 4)] = CR /\ body[o + (size + 5)] = LF
          BY <1>2, <1>3, <5>1
        <5>3. QED
          BY <5>1, <5>2
      <4>2. after \in after..Len(body) - 1 /\ \A k \in after..after - 1 : FALSE
        BY <1>1, <2>1, <3>1
      <4>3. Find(body, End, after) = after
        <5> HIDE DEF after
        <5>1. QED
          BY <2>1, <4>1, <4>2, BreakFound
      <4>4. BehindBreak(body, after) = behind + 1
        <5>1. after + 2 = behind + 1
          BY <1>1, <2>1
        <5> HIDE DEF after
        <5>2. QED
          BY <4>3, <5>1 DEF BehindBreak
      <4>5. whole <=> Len(body) - behind = Len(rest)
        BY <1>1, <1>2
      <4> HIDE DEF whole, after
      <4>6. ReadAs(f[behind + 1], document, next, whole)
        <5>1. ReadAs(f[behind + 1], document, next, Len(body) - behind = Len(rest))
          BY <3>1 DEF Understood
        <5>2. QED
          BY <4>5, <5>1 DEF ReadAs
      <4>7. QED
        BY <4>4, <4>6
    \* ... but without it this chunk was the last, or half a line break is left.
    <3>2. CASE ~(behind <= Len(body))
      <4>1. ~whole
        BY <1>1, <1>2, <2>1, <3>2
      <4>2. \A i \in after..Len(body) - 1 : FALSE
        BY <1>1, <2>1, <3>2
      <4>3. after \in 1..Len(body) + 1 /\ after # 0
        BY <1>1, <2>1
      <4> HIDE DEF whole, after
      <4>4. Find(body, End, after) = 0
        BY <2>1, <4>2, BreakFound
      <4>5. rests = DecodeStep(f, body, after)
        BY <4>3, <4>4 DEF BehindBreak, Decoding
      <4>6. rests = Decoded(<<>>) \/ rests = Malformed
        BY <4>4, <4>5 DEF DecodeStep
      <4>7. Part(document, next, next) = <<>> /\ next \in next..Len(document)
        <5>1. next \in 0..Len(document) /\ next \in next..Len(document)
          BY <1>1
        <5>2. QED
          BY <5>1, NoPart
      <4>8. QED
        BY <4>1, <4>6, <4>7 DEF ReadAs, Malformed
    <3>3. QED
      BY <3>1, <3>2
  <2> HIDE DEF whole, rests
  <2>5. CASE ~whole /\ \E b : rests = [ok |-> FALSE, body |-> b]
    <3>1. PICK b : rests = [ok |-> FALSE, body |-> b]
      BY <2>5
    <3>2. f[here] = [ok |-> FALSE, body |-> part \o b]
      BY <2>3, <3>1
    <3>3. ReadAs(f[here], document, at, whole)
      BY <2>5, <3>2 DEF ReadAs
    <3>4. QED
      BY <3>3 DEF whole
  <2>6. CASE \E to \in next..Len(document) :
                rests = Decoded(Part(document, next, to)) /\ (whole => to = Len(document))
    <3>1. PICK to \in next..Len(document) :
                rests = Decoded(Part(document, next, to)) /\ (whole => to = Len(document))
      BY <2>6
    <3>2. f[here] = Decoded(part \o Part(document, next, to))
      BY <2>3, <3>1 DEF Decoded
    <3>3. part \o Part(document, next, to) = Part(document, at, to)
      BY <1>6, <3>1, PartsJoin
    <3>4. to \in at..Len(document)
      BY <1>1, <3>1
    <3>5. ReadAs(f[here], document, at, whole)
      BY <3>1, <3>2, <3>3, <3>4 DEF ReadAs
    <3>6. QED
      BY <3>5 DEF whole
  <2>7. QED
    BY <2>4, <2>5, <2>6 DEF ReadAs
<1>13. QED
  <2>1. here > Len(body) \/ here <= Len(body)
    BY <1>1
  <2>2. o + 3 <= Len(body) => (after - 1 > Len(body) \/ ~(after - 1 > Len(body)))
    OBVIOUS
  <2>3. o + 3 <= Len(body) \/ ~(o + 3 <= Len(body))
    OBVIOUS
  <2>4. QED
    BY <1>8, <1>9, <1>11, <1>12, <2>1, <2>2, <2>3

\* What has come behind a chunk is some of what was sent behind it.
LEMMA RestBehind ==
    ASSUME NEW document \in Seq(Tokens), NEW at \in 0..Len(document) - 1,
           NEW next \in at + 1..Len(document), NEW rest \in Seq(Pieces),
           NEW body \in Seq(Pieces), NEW o, NEW wire, NEW size, NEW behind,
           wire = Chunk(document, at, next, rest), size = next - at, behind = o + size + 5,
           Rest(body, o, wire), behind <= Len(body)
    PROVE  Rest(body, behind, rest)
<1>1. /\ Len(body) \in Nat /\ Len(rest) \in Nat /\ o \in Nat /\ size \in Nat /\ behind \in Nat
      /\ Len(body) - o <= Len(wire)
  BY DEF Rest
<1>2. /\ Len(wire) = size + 5 + Len(rest)
      /\ \A j \in 1..Len(rest) : wire[size + 5 + j] = rest[j]
  <2>1. ChunkPieces(wire, size, Part(document, at, next), rest)
    BY ChunkIs
  <2>2. QED
    BY <2>1 DEF ChunkPieces
<1>3. behind \in 0..Len(body) /\ Len(body) - behind <= Len(rest)
  BY <1>1, <1>2
<1>4. ASSUME NEW j \in 1..Len(body) - behind PROVE body[behind + j] = rest[j]
  <2> DEFINE k == size + 5 + j
  <2>1. j \in 1..Len(rest) /\ k \in 1..Len(body) - o /\ o + k = behind + j
    BY <1>1, <1>3
  <2>2. wire[k] = rest[j]
    BY <1>2, <2>1
  <2> HIDE DEF k
  <2>3. body[o + k] = wire[k]
    BY <2>1 DEF Rest
  <2>4. QED
    BY <2>1, <2>2, <2>3
<1>5. QED
  BY <1>3, <1>4 DEF Rest

\* Of a document in chunks decode_chunked makes the document, once all of it
\* has come, and before that an error or a part that it begins with.
LEMMA ChunksRead ==
    ASSUME NEW document \in Seq(Tokens), NEW cuts \in Cuts(document), NEW body \in Seq(Pieces),
           Rest(body, 0, ChunkedFrom(document, cuts)[0])
    PROVE  ReadAs(DecodeChunked(body), document, 0, Len(body) = Len(ChunkedFrom(document, cuts)[0]))
<1> DEFINE end == Len(document)
           C == ChunkedFrom(document, cuts)
<1>1. end \in Nat /\ Len(body) \in Nat
  OBVIOUS
<1>2. PICK f : /\ DecodeChunked(body) = f[1]
               /\ Decoding(f, body)
  BY DecodingSteps DEF Decoding
<1> DEFINE Wrong(at, o) == Rest(body, o, C[at]) /\ ~Understood(f, body, o, document, at, C[at])
           Odd == {n \in 0..end : \E o : Wrong(end - n, o)}
<1>3. Odd = {}
  <2>1. SUFFICES ASSUME Odd # {} PROVE FALSE
    OBVIOUS
  <2>2. Odd \subseteq Nat
    BY <1>1
  <2> HIDE DEF Wrong
  <2>3. PICK least \in Odd : \A n \in Odd : least <= n
    BY <2>1, <2>2, LeastOf
  <2>4. least \in 0..end /\ \E o : Wrong(end - least, o)
    BY <2>3
  <2> HIDE DEF Odd
  <2>5. PICK o : Wrong(end - least, o)
    BY <2>4
  <2>6. CASE least = 0
    <3>1. end - least = end
      BY <1>1, <2>6
    <3>2. Wrong(end, o)
      BY <2>5, <3>1
    <3>3. C[end] = LastChunk
      BY ChunkedSteps
    <3>4. QED
      BY <1>2, <3>2, <3>3, LastChunkRead DEF Wrong
  <2>7. CASE least # 0
    <3> DEFINE at == end - least
               next == NextCut(document, cuts, at)
               behind == o + (next - at) + 5
    <3>1. at \in 0..end - 1
      BY <1>1, <2>4, <2>7
    <3>2. next \in at + 1..end
      BY <3>1, NextCutIs
    <3>3. C[at] = Chunk(document, at, next, C[next])
      BY <3>1, ChunkedSteps
    <3>4. C[next] \in Seq(Pieces)
      <4>1. next \in 0..end
        <5> HIDE DEF next
        <5>1. QED
          BY <1>1, <3>1, <3>2
      <4> HIDE DEF next
      <4>2. QED
        BY <4>1, ChunkedPieces
    <3>5. end - next \in 0..end /\ ~(least <= end - next) /\ end - (end - next) = next
      <4> HIDE DEF next
      <4>1. QED
        BY <1>1, <2>4, <3>1, <3>2
    <3>6. \A i : ~Wrong(next, i)
      <4>1. end - next \notin Odd
        BY <2>3, <3>5
      <4> HIDE DEF next
      <4>2. QED
        BY <3>5, <4>1 DEF Odd
    <3>7. Wrong(at, o)
      BY <2>5
    <3> DEFINE rest == C[next]
               wire == C[at]
               size == next - at
    <3>8. /\ wire = Chunk(document, at, next, rest) /\ size = next - at /\ behind = o + size + 5
          /\ Rest(body, o, wire) /\ rest \in Seq(Pieces)
          /\ ~Understood(f, body, o, document, at, wire)
      BY <3>3, <3>4, <3>7 DEF Wrong
    <3>9. Rest(body, behind, rest) => Understood(f, body, behind, document, next, rest)
      BY <3>6 DEF Wrong
    <3> HIDE DEF at, next, behind, rest, wire, size, C
    <3>10. behind <= Len(body) => Rest(body, behind, rest)
      BY <3>1, <3>2, <3>8, RestBehind
    <3>11. behind <= Len(body) => Understood(f, body, behind, document, next, rest)
      BY <3>9, <3>10
    <3>12. Understood(f, body, o, document, at, wire)
      BY <1>2, <3>1, <3>2, <3>8, <3>11, ChunkRead
    <3>13. QED
      BY <3>8, <3>12
  <2>8. QED
    BY <2>6, <2>7
<1>4. end \in 0..end /\ end - end = 0
  BY <1>1
<1>5. ~Wrong(0, 0)
  <2> HIDE DEF Wrong
  <2>1. QED
    BY <1>3, <1>4
<1>6. ReadAs(f[1], document, 0, Len(body) - 0 = Len(C[0]))
  <2>1. 0 + 1 = 1
    OBVIOUS
  <2>2. QED
    BY <1>5, <2>1 DEF Understood
<1>7. Len(body) - 0 = Len(body)
  BY <1>1
<1>8. QED
  BY <1>2, <1>6, <1>7

------------------------------------------------------------------------------
\* An answer's head, and how its end is found.

\* A head of `h` pieces begins with the status and ends with the first empty line.
HeadPieces(head, h, status) ==
    /\ head \in Seq(Pieces) /\ Len(head) = h /\ h \in Nat /\ h >= 5
    /\ head[1] = <<"status", status>>
    /\ head[h - 3] = CR /\ head[h - 2] = LF /\ head[h - 1] = CR /\ head[h] = LF
    /\ \A i \in 1..h - 4 : ~(head[i] = CR /\ head[i + 2] = CR)

LEMMA HeadsAre ==
    ASSUME NEW status \in Nat, NEW field \in Pieces, field # CR
    PROVE  /\ HeadPieces(PlainHead(status), 5, status)
           /\ HeadPieces(FramedHead(status, field), 8, status)
<1>1. CR \in Pieces /\ LF \in Pieces /\ <<"status", status>> \in Pieces
  BY DEF Pieces, CR, LF
<1>2. CR # LF /\ <<"status", status>> # CR
  BY DEF CR, LF
<1>3. HeadPieces(PlainHead(status), 5, status)
  <2> DEFINE head == PlainHead(status)
  <2>1. head = <<<<"status", status>>, CR, LF, CR, LF>>
    BY DEF PlainHead
  <2>2. /\ head \in Seq(Pieces) /\ Len(head) = 5 /\ head[1] = <<"status", status>>
        /\ head[2] = CR /\ head[3] = LF /\ head[4] = CR /\ head[5] = LF
    BY <1>1, <2>1
  <2>3. \A i \in 1..5 - 4 : i = 1
    OBVIOUS
  <2> HIDE DEF head
  <2>4. \A i \in 1..5 - 4 : ~(head[i] = CR /\ head[i + 2] = CR)
    BY <1>2, <2>2, <2>3
  <2>5. 5 \in Nat /\ 5 >= 5 /\ 5 - 3 = 2 /\ 5 - 2 = 3 /\ 5 - 1 = 4
    OBVIOUS
  <2>6. HeadPieces(head, 5, status)
    BY <2>2, <2>4, <2>5 DEF HeadPieces
  <2>7. QED
    BY <2>6 DEF head
<1>4. HeadPieces(FramedHead(status, field), 8, status)
  <2> DEFINE head == FramedHead(status, field)
  <2>1. head = <<<<"status", status>>, CR, LF, field, CR, LF, CR, LF>>
    BY DEF FramedHead
  <2>2. /\ head \in Seq(Pieces) /\ Len(head) = 8 /\ head[1] = <<"status", status>>
        /\ head[2] = CR /\ head[3] = LF /\ head[4] = field
        /\ head[5] = CR /\ head[6] = LF /\ head[7] = CR /\ head[8] = LF
    BY <1>1, <2>1
  <2>3. \A i \in 1..8 - 4 : i = 1 \/ (i = 2 /\ i + 2 = 4) \/ i = 3 \/ i = 4
    OBVIOUS
  <2> HIDE DEF head
  <2>4. \A i \in 1..8 - 4 : ~(head[i] = CR /\ head[i + 2] = CR)
    BY <1>2, <2>2, <2>3
  <2>5. 8 \in Nat /\ 8 >= 5 /\ 8 - 3 = 5 /\ 8 - 2 = 6 /\ 8 - 1 = 7
    OBVIOUS
  <2>6. HeadPieces(head, 8, status)
    BY <2>2, <2>4, <2>5 DEF HeadPieces
  <2>7. QED
    BY <2>6 DEF head
<1>5. QED
  BY <1>3, <1>4

\* As much of an answer as has arrived.
LEMMA ArrivedIs ==
    ASSUME NEW head \in Seq(Pieces), NEW payload \in Seq(Pieces), NEW h, h = Len(head),
           NEW r \in 0..Len(head \o payload)
    PROVE  LET raw == SubSeq(head \o payload, 1, r)
           IN  /\ raw \in Seq(Pieces) /\ Len(raw) = r /\ r \in Nat /\ r <= h + Len(payload)
               /\ Len(head \o payload) = h + Len(payload)
               /\ \A i \in 1..r : i <= h => raw[i] = head[i]
               /\ \A j \in 1..r - h : raw[h + j] = payload[j]
<1> DEFINE answer == head \o payload
           raw == SubSeq(answer, 1, r)
<1>1. /\ answer \in Seq(Pieces)
      /\ Len(answer) = Len(head) + Len(payload)
      /\ \A i \in 1..Len(head) + Len(payload) :
            answer[i] = IF i <= Len(head) THEN head[i] ELSE payload[i - Len(head)]
  BY ConcatProperties
<1>2. h \in Nat /\ Len(payload) \in Nat /\ Len(answer) = h + Len(payload)
  BY <1>1
<1>3. r \in Nat /\ r <= h + Len(payload)
  BY <1>2
<1> HIDE DEF answer
<1>4. \A i \in 1..r : answer[i] \in Pieces
  BY <1>1, <1>2, <1>3
<1>5. /\ raw \in Seq(Pieces) /\ Len(raw) = r /\ \A i \in 1..r : raw[i] = answer[i]
  <2>1. /\ raw \in Seq(Pieces) /\ Len(raw) = (IF 1 <= r THEN r - 1 + 1 ELSE 0)
        /\ \A i \in 1..r - 1 + 1 : raw[i] = answer[1 + i - 1]
    BY <1>3, <1>4, SubSeqProperties
  <2>2. r - 1 + 1 = r /\ (IF 1 <= r THEN r - 1 + 1 ELSE 0) = r /\ \A i \in 1..r : 1 + i - 1 = i
    BY <1>3
  <2>3. QED
    BY <2>1, <2>2
<1> HIDE DEF raw
<1>6. ASSUME NEW i \in 1..r, i <= h PROVE raw[i] = head[i]
  <2>1. i \in 1..Len(head) + Len(payload) /\ i <= Len(head)
    BY <1>2, <1>3, <1>6
  <2>2. QED
    BY <1>1, <1>5, <2>1
<1>7. ASSUME NEW j \in 1..r - h PROVE raw[h + j] = payload[j]
  <2> DEFINE k == h + j
  <2>1. k \in 1..r /\ k \in 1..Len(head) + Len(payload) /\ ~(k <= Len(head)) /\ k - Len(head) = j
    BY <1>2, <1>3
  <2> HIDE DEF k
  <2>2. raw[k] = payload[j]
    BY <1>1, <1>5, <2>1
  <2>3. QED
    BY <2>2 DEF k
<1>8. QED
  BY <1>2, <1>3, <1>5, <1>6, <1>7 DEF raw, answer

LEMMA CutIs ==
    ASSUME NEW s \in Seq(Pieces), NEW from \in Nat \ {0}, NEW to \in Nat,
           to <= Len(s), from <= to + 1
    PROVE  /\ SubSeq(s, from, to) \in Seq(Pieces)
           /\ Len(SubSeq(s, from, to)) = to + 1 - from
           /\ \A i \in 1..to + 1 - from : SubSeq(s, from, to)[i] = s[from + i - 1]
<1>1. /\ from \in Int /\ to \in Int /\ to - from + 1 = to + 1 - from
      /\ (IF from <= to THEN to - from + 1 ELSE 0) = to + 1 - from
  OBVIOUS
<1>2. \A i \in from..to : s[i] \in Pieces
  <2>1. \A i \in from..to : i \in 1..Len(s)
    OBVIOUS
  <2>2. QED
    BY <2>1
<1>3. /\ SubSeq(s, from, to) \in Seq(Pieces)
      /\ Len(SubSeq(s, from, to)) = (IF from <= to THEN to - from + 1 ELSE 0)
      /\ \A i \in 1..to - from + 1 : SubSeq(s, from, to)[i] = s[from + i - 1]
  BY <1>1, <1>2, SubSeqProperties
<1>4. QED
  BY <1>1, <1>3

\* The empty line is found once the head is whole, and what is behind it begins
\* the payload.
HeadFound(raw, r, head, h, payload, status) ==
    /\ Find(raw, <<CR, LF, CR, LF>>, 1) = IF h <= r THEN h - 3 ELSE 0
    /\ h <= r =>
          /\ raw[1] = <<"status", status>>
          /\ SubSeq(raw, 1, h - 3 + 1) = SubSeq(head, 1, h - 2)
          /\ SubSeq(raw, h - 3 + 4, Len(raw)) \in Seq(Pieces)
          /\ Rest(SubSeq(raw, h - 3 + 4, Len(raw)), 0, payload)
          /\ Len(SubSeq(raw, h - 3 + 4, Len(raw))) = r - h

LEMMA HeadRead ==
    ASSUME NEW status, NEW h, NEW head, HeadPieces(head, h, status),
           NEW payload \in Seq(Pieces), NEW r \in 0..Len(head \o payload),
           NEW raw, raw = SubSeq(head \o payload, 1, r)
    PROVE  HeadFound(raw, r, head, h, payload, status)
<1>1. /\ head \in Seq(Pieces) /\ Len(head) = h /\ h \in Nat /\ h >= 5
      /\ head[1] = <<"status", status>>
      /\ head[h - 3] = CR /\ head[h - 2] = LF /\ head[h - 1] = CR /\ head[h] = LF
      /\ \A i \in 1..h - 4 : ~(head[i] = CR /\ head[i + 2] = CR)
  BY DEF HeadPieces
<1>2. /\ raw \in Seq(Pieces) /\ Len(raw) = r /\ r \in Nat /\ r <= h + Len(payload)
      /\ \A i \in 1..r : i <= h => raw[i] = head[i]
      /\ \A j \in 1..r - h : raw[h + j] = payload[j]
  BY <1>1, ArrivedIs
<1>3. Len(payload) \in Nat
  OBVIOUS
<1>4. \A i \in 1..r : i <= h - 4 => ~(i + 2 <= r /\ raw[i] = CR /\ raw[i + 2] = CR)
  <2>1. ASSUME NEW i \in 1..r, i <= h - 4, i + 2 <= r
        PROVE  ~(raw[i] = CR /\ raw[i + 2] = CR)
    <3>1. i \in 1..h - 4 /\ i + 2 \in 1..r /\ i <= h /\ i + 2 <= h
      BY <1>1, <1>2, <2>1
    <3>2. raw[i] = head[i] /\ raw[i + 2] = head[i + 2]
      BY <1>2, <2>1, <3>1
    <3>3. QED
      BY <1>1, <3>1, <3>2
  <2>2. QED
    BY <2>1
<1>5. CASE ~(h <= r)
  <2>1. \A i \in 1..Len(raw) - 3 : ~(raw[i] = CR /\ raw[i + 1] = LF /\ raw[i + 2] = CR /\ raw[i + 3] = LF)
    <3>1. \A i \in 1..Len(raw) - 3 : i \in 1..r /\ i <= h - 4 /\ i + 2 <= r
      BY <1>1, <1>2, <1>5
    <3>2. QED
      BY <1>4, <3>1
  <2>2. Find(raw, <<CR, LF, CR, LF>>, 1) = 0
    BY <1>2, <2>1, EmptyLineFound
  <2>3. QED
    BY <1>5, <2>2 DEF HeadFound
<1>6. CASE h <= r
  <2> DEFINE i == h - 3
             rest == SubSeq(raw, h + 1, Len(raw))
  <2>1. raw[h - 3] = CR /\ raw[h - 2] = LF /\ raw[h - 1] = CR /\ raw[h] = LF /\ raw[1] = head[1]
    <3>1. h - 3 \in 1..r /\ h - 2 \in 1..r /\ h - 1 \in 1..r /\ h \in 1..r /\ 1 \in 1..r
          /\ h - 3 <= h /\ h - 2 <= h /\ h - 1 <= h /\ h <= h /\ 1 <= h
      BY <1>1, <1>2, <1>6
    <3>2. QED
      BY <1>1, <1>2, <3>1
  <2>2. /\ i \in 1..Len(raw) - 3
        /\ raw[i] = CR /\ raw[i + 1] = LF /\ raw[i + 2] = CR /\ raw[i + 3] = LF
    <3>1. i \in 1..Len(raw) - 3 /\ i = h - 3 /\ i + 1 = h - 2 /\ i + 2 = h - 1 /\ i + 3 = h
      BY <1>1, <1>2, <1>6
    <3> HIDE DEF i
    <3>2. QED
      BY <2>1, <3>1
  <2>3. \A k \in 1..i - 1 : ~(raw[k] = CR /\ raw[k + 1] = LF /\ raw[k + 2] = CR /\ raw[k + 3] = LF)
    <3>1. \A k \in 1..i - 1 : k \in 1..r /\ k <= h - 4 /\ k + 2 <= r
      BY <1>1, <1>2, <1>6
    <3>2. QED
      BY <1>4, <3>1
  <2>4. Find(raw, <<CR, LF, CR, LF>>, 1) = i
    <3> HIDE DEF i
    <3>1. QED
      BY <1>2, <2>2, <2>3, EmptyLineFound
  <2>5. SubSeq(raw, 1, h - 2) = SubSeq(head, 1, h - 2)
    <3> DEFINE m == h - 2
               left == SubSeq(raw, 1, m)
               right == SubSeq(head, 1, m)
    <3>1. /\ m \in Nat /\ 1 \in Nat \ {0} /\ 1 <= m + 1 /\ m + 1 - 1 = m
          /\ m <= Len(raw) /\ m <= Len(head)
      BY <1>1, <1>2, <1>6
    <3>2. \A k \in 1..m : k \in 1..r /\ k <= h /\ 1 + k - 1 = k
      BY <1>1, <1>2, <1>6
    <3> HIDE DEF m
    <3>3. left \in Seq(Pieces) /\ Len(left) = m /\ \A k \in 1..m : left[k] = raw[1 + k - 1]
      BY <1>2, <3>1, CutIs
    <3>4. right \in Seq(Pieces) /\ Len(right) = m /\ \A k \in 1..m : right[k] = head[1 + k - 1]
      BY <1>1, <3>1, CutIs
    <3> HIDE DEF left, right
    <3>5. \A k \in 1..m : left[k] = right[k]
      BY <1>2, <3>2, <3>3, <3>4
    <3>6. left = right
      BY <3>3, <3>4, <3>5, SamePieces
    <3>7. QED
      BY <3>6 DEF left, right, m
  <2>6. rest \in Seq(Pieces) /\ Len(rest) = r - h /\ \A j \in 1..r - h : rest[j] = payload[j]
    <3> DEFINE from == h + 1
    <3>1. /\ from \in Nat \ {0} /\ r <= Len(raw) /\ from <= r + 1 /\ r + 1 - from = r - h
      BY <1>1, <1>2, <1>6
    <3>2. \A j \in 1..r - h : from + j - 1 = h + j
      BY <1>1, <1>2
    <3> HIDE DEF from
    <3>3. /\ SubSeq(raw, from, r) \in Seq(Pieces)
          /\ Len(SubSeq(raw, from, r)) = r - h
          /\ \A j \in 1..r - h : SubSeq(raw, from, r)[j] = raw[from + j - 1]
      BY <1>2, <3>1, CutIs
    <3>4. \A j \in 1..r - h : SubSeq(raw, from, r)[j] = payload[j]
      BY <1>2, <3>2, <3>3
    <3>5. QED
      BY <1>2, <3>3, <3>4 DEF from
  <2>7. Rest(rest, 0, payload)
    <3>1. 0 \in 0..Len(rest) /\ Len(rest) - 0 <= Len(payload) /\ Len(rest) - 0 = r - h
      BY <1>1, <1>2, <1>3, <1>6, <2>6
    <3>2. \A j \in 1..Len(rest) - 0 : 0 + j = j
      BY <3>1, <1>1, <1>2
    <3> HIDE DEF rest
    <3>3. QED
      BY <2>6, <3>1, <3>2 DEF Rest
  <2>8. h - 3 + 1 = h - 2 /\ h - 3 + 4 = h + 1
    BY <1>1
  <2> HIDE DEF rest
  <2>9. QED
    BY <1>1, <1>6, <2>1, <2>4, <2>5, <2>6, <2>7, <2>8 DEF rest, HeadFound
<1>7. QED
  BY <1>5, <1>6

------------------------------------------------------------------------------
\* The body by its framing, and the answer as the caller takes it.

\* Of what arrived behind a head its body is read as the document or a part of it.
BodyRead(head, h, payload, document) ==
    \A p \in Seq(Pieces) :
        Rest(p, 0, payload) => ReadAs(Body(SubSeq(head, 1, h - 2), p), document, 0, Len(p) = Len(payload))

\* Bytes as they are: what has arrived of them.
LEMMA PlainPayload ==
    ASSUME NEW document \in Seq(Tokens), NEW p \in Seq(Pieces), Rest(p, 0, Bytes(document))
    PROVE  /\ Len(p) <= Len(document)
           /\ ReadAs(Decoded(p), document, 0, Len(p) = Len(Bytes(document)))
<1>1. /\ Bytes(document) \in Seq(Pieces) /\ Len(Bytes(document)) = Len(document)
      /\ \A i \in 1..Len(document) : Bytes(document)[i] = <<"byte", document[i]>>
  BY BytesOf
<1> DEFINE n == Len(p)
           part == Part(document, 0, n)
<1>2. /\ n \in Nat /\ Len(document) \in Nat /\ n - 0 = n /\ n <= Len(document)
      /\ \A j \in 1..n : 0 + j = j
  BY <1>1 DEF Rest
<1>3. \A j \in 1..n : p[j] = <<"byte", document[j]>>
  <2>1. \A j \in 1..n - 0 : p[0 + j] = Bytes(document)[j]
    BY DEF Rest
  <2>2. \A j \in 1..n : j \in 1..Len(document)
    BY <1>2
  <2> HIDE DEF n
  <2>3. QED
    BY <1>1, <1>2, <2>1, <2>2
<1>4. 0 \in 0..Len(document) /\ n \in 0..Len(document)
  BY <1>2
<1>5. /\ part \in Seq(Pieces) /\ Len(part) = n
      /\ \A j \in 1..n : part[j] = <<"byte", document[j]>>
  <2>1. /\ part \in Seq(Pieces) /\ Len(part) = n - 0
        /\ \A j \in 1..n - 0 : part[j] = <<"byte", document[0 + j]>>
    BY <1>4, PartIs
  <2> HIDE DEF part, n
  <2>2. QED
    BY <1>2, <2>1
<1> HIDE DEF part
<1>6. p = part
  BY <1>3, <1>5, SamePieces
<1>7. QED
  BY <1>1, <1>2, <1>4, <1>6 DEF ReadAs, part

LEMMA PlainHeadRead ==
    ASSUME NEW status \in Nat
    PROVE  /\ HeadersNamed(SubSeq(PlainHead(status), 1, 5 - 2), "length") = {}
           /\ HeadersNamed(SubSeq(PlainHead(status), 1, 5 - 2), "chunked") = {}
<1> DEFINE head == PlainHead(status)
           cut == SubSeq(head, 1, 3)
<1>1. <<"length", 0>> \in Pieces /\ <<"length", 0>> # CR
  BY DEF Pieces, CR
<1>2. HeadPieces(head, 5, status)
  BY <1>1, HeadsAre
<1>3. head \in Seq(Pieces) /\ Len(head) = 5 /\ head[1] = <<"status", status>> /\ head[2] = CR /\ head[3] = LF
  <2>1. 5 - 3 = 2 /\ 5 - 2 = 3
    OBVIOUS
  <2>2. QED
    BY <1>2, <2>1 DEF HeadPieces
<1> HIDE DEF head
<1>4. cut \in Seq(Pieces) /\ Len(cut) = 3 /\ cut[1] = head[1] /\ cut[2] = head[2] /\ cut[3] = head[3]
  <2>1. 1 \in Nat \ {0} /\ 3 \in Nat /\ 3 <= Len(head) /\ 1 <= 3 + 1
    BY <1>3
  <2>2. /\ cut \in Seq(Pieces) /\ Len(cut) = 3 + 1 - 1
        /\ \A i \in 1..3 + 1 - 1 : cut[i] = head[1 + i - 1]
    BY <1>3, <2>1, CutIs
  <2> HIDE DEF cut
  <2>3. QED
    BY <2>2
<1> HIDE DEF cut
<1>5. DOMAIN cut = 1..3 /\ \A i \in 1..3 : i = 1 \/ i = 2 \/ i = 3
  BY <1>4
<1>6. cut[1][1] = "status" /\ cut[2][1] = "CR" /\ cut[3][1] = "LF"
  BY <1>3, <1>4 DEF CR, LF
<1>7. \A i \in DOMAIN cut : cut[i][1] # "length" /\ cut[i][1] # "chunked"
  BY <1>5, <1>6
<1>8. HeadersNamed(cut, "length") = {} /\ HeadersNamed(cut, "chunked") = {}
  BY <1>7 DEF HeadersNamed
<1>9. 5 - 2 = 3
  OBVIOUS
<1>10. QED
  BY <1>8, <1>9 DEF cut, head

\* The one header of a head, of those find_header is asked for.
OneHeader(head, name, n) ==
    /\ HeadersNamed(head, name) = {4} /\ Min({4}) = 4 /\ head[4][2] = n
    /\ \A other \in {"length", "chunked"} : other # name => HeadersNamed(head, other) = {}

LEMMA FramedHeadRead ==
    ASSUME NEW status \in Nat, NEW name \in {"length", "chunked"}, NEW n \in Nat
    PROVE  OneHeader(SubSeq(FramedHead(status, <<name, n>>), 1, 8 - 2), name, n)
<1> DEFINE field == <<name, n>>
           whole == FramedHead(status, field)
           cut == SubSeq(whole, 1, 6)
           head == SubSeq(FramedHead(status, <<name, n>>), 1, 8 - 2)
<1>1. field \in Pieces /\ field # CR
  BY DEF Pieces, CR
<1>2. /\ whole \in Seq(Pieces) /\ Len(whole) = 8
      /\ whole[1] = <<"status", status>> /\ whole[2] = CR /\ whole[3] = LF
      /\ whole[4] = field /\ whole[5] = CR /\ whole[6] = LF
  <2>1. HeadPieces(whole, 8, status)
    BY <1>1, HeadsAre
  <2>2. whole \in Seq(Pieces) /\ Len(whole) = 8
    BY <2>1 DEF HeadPieces
  <2>3. whole = <<<<"status", status>>, CR, LF, field, CR, LF, CR, LF>>
    BY DEF FramedHead
  <2> HIDE DEF whole, field
  <2>4. QED
    BY <2>2, <2>3
<1> HIDE DEF whole, field
<1>3. /\ cut \in Seq(Pieces) /\ Len(cut) = 6
      /\ cut[1] = whole[1] /\ cut[2] = whole[2] /\ cut[3] = whole[3]
      /\ cut[4] = whole[4] /\ cut[5] = whole[5] /\ cut[6] = whole[6]
  <2>1. 1 \in Nat \ {0} /\ 6 \in Nat /\ 6 <= Len(whole) /\ 1 <= 6 + 1
    BY <1>2
  <2>2. /\ cut \in Seq(Pieces) /\ Len(cut) = 6 + 1 - 1
        /\ \A i \in 1..6 + 1 - 1 : cut[i] = whole[1 + i - 1]
    BY <1>2, <2>1, CutIs
  <2> HIDE DEF cut
  <2>3. QED
    BY <2>2
<1> HIDE DEF cut
<1>4. head = cut
  <2>1. 8 - 2 = 6
    OBVIOUS
  <2>2. QED
    BY <2>1 DEF cut, whole, field
<1> HIDE DEF head
<1>5. DOMAIN head = 1..6 /\ \A i \in 1..6 : i = 1 \/ i = 2 \/ i = 3 \/ i = 4 \/ i = 5 \/ i = 6
  BY <1>3, <1>4
<1>6. /\ head[1][1] = "status" /\ head[2][1] = "CR" /\ head[3][1] = "LF"
      /\ head[5][1] = "CR" /\ head[6][1] = "LF" /\ head[4][1] = name /\ head[4][2] = n
  BY <1>2, <1>3, <1>4 DEF CR, LF, field
<1>7. HeadersNamed(head, name) = {4}
  <2>1. \A i \in DOMAIN head : head[i][1] = name <=> i = 4
    BY <1>5, <1>6
  <2>2. 4 \in DOMAIN head
    BY <1>5
  <2>3. QED
    BY <2>1, <2>2 DEF HeadersNamed
<1>8. ASSUME NEW other \in {"length", "chunked"}, other # name PROVE HeadersNamed(head, other) = {}
  <2>1. \A i \in DOMAIN head : head[i][1] # other
    BY <1>5, <1>6, <1>8
  <2>2. QED
    BY <2>1 DEF HeadersNamed
<1>9. Min({4}) = 4
  BY LeastIsMin
<1>10. QED
  BY <1>6, <1>7, <1>8, <1>9 DEF OneHeader, head

\* Up to the end of the connection: what arrived is the body.
LEMMA PlainBodyRead ==
    ASSUME NEW document \in Seq(Tokens), NEW status \in Nat
    PROVE  BodyRead(PlainHead(status), 5, Bytes(document), document)
<1> DEFINE head == SubSeq(PlainHead(status), 1, 5 - 2)
<1>1. HeadersNamed(head, "length") = {} /\ HeadersNamed(head, "chunked") = {}
  BY PlainHeadRead
<1> HIDE DEF head
<1>2. \A p : Body(head, p) = Decoded(p)
  BY <1>1 DEF Body
<1>3. ASSUME NEW p \in Seq(Pieces), Rest(p, 0, Bytes(document))
      PROVE  ReadAs(Body(head, p), document, 0, Len(p) = Len(Bytes(document)))
  <2>1. ReadAs(Decoded(p), document, 0, Len(p) = Len(Bytes(document)))
    BY <1>3, PlainPayload
  <2>2. Body(head, p) = Decoded(p)
    BY <1>2
  <2>3. QED
    BY <2>1, <2>2
<1>4. QED
  BY <1>3 DEF BodyRead, head

\* With its length declared: no less than that is cut off, and fewer are taken as they are.
LEMMA LengthBodyRead ==
    ASSUME NEW document \in Seq(Tokens), NEW status \in Nat
    PROVE  BodyRead(FramedHead(status, <<"length", Len(document)>>), 8, Bytes(document), document)
<1> DEFINE head == SubSeq(FramedHead(status, <<"length", Len(document)>>), 1, 8 - 2)
<1>1. Len(document) \in Nat
  OBVIOUS
<1>2. /\ HeadersNamed(head, "length") = {4} /\ HeadersNamed(head, "chunked") = {}
      /\ Min({4}) = 4 /\ head[4][2] = Len(document)
  <2>1. OneHeader(head, "length", Len(document))
    BY <1>1, FramedHeadRead
  <2>2. QED
    BY <2>1 DEF OneHeader
<1> HIDE DEF head
<1>3. \A p : Body(head, p) = IF Len(document) <= Len(p) THEN Decoded(SubSeq(p, 1, Len(document)))
                             ELSE Decoded(p)
  BY <1>2 DEF Body
<1>4. ASSUME NEW p \in Seq(Pieces), Rest(p, 0, Bytes(document))
      PROVE  ReadAs(Body(head, p), document, 0, Len(p) = Len(Bytes(document)))
  <2>1. Len(p) <= Len(document) /\ ReadAs(Decoded(p), document, 0, Len(p) = Len(Bytes(document)))
    BY <1>4, PlainPayload
  <2>2. Len(document) <= Len(p) => SubSeq(p, 1, Len(document)) = p
    <3>1. Len(document) <= Len(p) => Len(document) = Len(p)
      BY <1>1, <2>1
    <3>2. SubSeq(p, 1, Len(p)) = p
      BY SubSeqFull
    <3>3. QED
      BY <3>1, <3>2
  <2>3. Body(head, p) = Decoded(p)
    BY <1>3, <2>2
  <2>4. QED
    BY <2>1, <2>3
<1>5. QED
  BY <1>4 DEF BodyRead, head

LEMMA ChunkedBodyRead ==
    ASSUME NEW document \in Seq(Tokens), NEW status \in Nat, NEW cuts \in Cuts(document)
    PROVE  BodyRead(FramedHead(status, <<"chunked", 0>>), 8, ChunkedFrom(document, cuts)[0], document)
<1> DEFINE head == SubSeq(FramedHead(status, <<"chunked", 0>>), 1, 8 - 2)
<1>1. HeadersNamed(head, "chunked") = {4}
  <2>1. OneHeader(head, "chunked", 0)
    BY FramedHeadRead
  <2>2. QED
    BY <2>1 DEF OneHeader
<1> HIDE DEF head
<1>2. \A p : Body(head, p) = DecodeChunked(p)
  BY <1>1 DEF Body
<1>3. ASSUME NEW p \in Seq(Pieces), Rest(p, 0, ChunkedFrom(document, cuts)[0])
      PROVE  ReadAs(Body(head, p), document, 0, Len(p) = Len(ChunkedFrom(document, cuts)[0]))
  <2>1. ReadAs(DecodeChunked(p), document, 0, Len(p) = Len(ChunkedFrom(document, cuts)[0]))
    BY <1>3, ChunksRead
  <2>2. Body(head, p) = DecodeChunked(p)
    BY <1>2
  <2>3. QED
    BY <2>1, <2>2
<1>4. QED
  BY <1>3 DEF BodyRead, head

\* What the caller of a statement's request takes from as much of an answer as
\* has arrived: what was said, or no answer; and of all of it what was said.
Faithful(answer, said1) ==
    \A r \in 0..Len(answer) :
        /\ Taken("execute", SubSeq(answer, 1, r)) \in {NoReply, said1}
        /\ r = Len(answer) => Taken("execute", SubSeq(answer, 1, r)) = said1

LEMMA FramingFaithful ==
    ASSUME NEW document \in Documents, NEW status \in Statuses, NEW h, NEW head, NEW payload,
           HeadPieces(head, h, status), payload \in Seq(Pieces), BodyRead(head, h, payload, document)
    PROVE  /\ head \o payload \in Seq(Pieces)
           /\ Faithful(head \o payload, [status |-> status, text |-> document])
<1> DEFINE answer == head \o payload
           whatWasSaid == [status |-> status, text |-> document]
<1>1. head \in Seq(Pieces) /\ Len(head) = h /\ h \in Nat /\ h >= 5
  BY DEF HeadPieces
<1>2. answer \in Seq(Pieces) /\ Len(answer) = h + Len(payload) /\ Len(payload) \in Nat
  <2>1. answer \in Seq(Pieces) /\ Len(answer) = Len(head) + Len(payload)
    BY <1>1, ConcatProperties
  <2> HIDE DEF answer
  <2>2. QED
    BY <1>1, <2>1
<1>3. document \in Seq(Tokens) /\ Len(document) \in Nat /\ IsDocument(document)
  BY DocumentsAssumption
<1>4. ASSUME NEW r \in 0..Len(answer)
      PROVE  /\ Taken("execute", SubSeq(answer, 1, r)) \in {NoReply, whatWasSaid}
             /\ r = Len(answer) => Taken("execute", SubSeq(answer, 1, r)) = whatWasSaid
  <2> DEFINE raw == SubSeq(answer, 1, r)
             terminator == Find(raw, <<CR, LF, CR, LF>>, 1)
             behind == SubSeq(raw, h - 3 + 4, Len(raw))
             body == Body(SubSeq(head, 1, h - 2), behind)
  <2>1. r \in Nat
    BY <1>2
  <2>2. /\ terminator = IF h <= r THEN h - 3 ELSE 0
        /\ h <= r =>
              /\ raw[1] = <<"status", status>>
              /\ SubSeq(raw, 1, h - 3 + 1) = SubSeq(head, 1, h - 2)
              /\ behind \in Seq(Pieces) /\ Rest(behind, 0, payload) /\ Len(behind) = r - h
    <3>1. HeadFound(raw, r, head, h, payload, status)
      BY <1>1, HeadRead
    <3>2. QED
      BY <3>1 DEF HeadFound
  <2> HIDE DEF answer
  <2> SUFFICES /\ Taken("execute", raw) \in {NoReply, whatWasSaid}
               /\ r = Len(answer) => Taken("execute", raw) = whatWasSaid
    OBVIOUS
  <2>3. CASE ~(h <= r)
    <3>1. Taken("execute", raw) = NoReply
      BY <2>2, <2>3 DEF Taken
    <3>2. r # Len(answer)
      BY <1>1, <1>2, <2>1, <2>3
    <3>3. QED
      BY <3>1, <3>2
  <2>4. CASE h <= r
    <3>1. /\ terminator = h - 3 /\ terminator # 0 /\ raw[1][1] = "status" /\ raw[1][2] = status
          /\ SubSeq(raw, 1, terminator + 1) = SubSeq(head, 1, h - 2)
          /\ SubSeq(raw, terminator + 4, Len(raw)) = behind
      <4>1. terminator = h - 3 /\ h - 3 # 0
        BY <1>1, <2>2, <2>4
      <4>2. raw[1][1] = "status" /\ raw[1][2] = status
        <5> HIDE DEF raw, behind, terminator
        <5>1. raw[1] = <<"status", status>>
          BY <2>2, <2>4
        <5>2. QED
          BY <5>1
      <4> HIDE DEF terminator
      <4>3. QED
        BY <2>2, <2>4, <4>1, <4>2
    <3>2. Taken("execute", raw) = IF ~body.ok \/ ~IsDocument(Text(body.body)) THEN NoReply
                                  ELSE [status |-> status, text |-> Text(body.body)]
      <4> HIDE DEF raw, terminator, behind
      <4>1. Taken("execute", raw) =
              IF terminator = 0 \/ raw[1][1] # "status"
                 \/ ~Body(SubSeq(raw, 1, terminator + 1), SubSeq(raw, terminator + 4, Len(raw))).ok
              THEN NoReply
              ELSE IF ~IsDocument(Text(Body(SubSeq(raw, 1, terminator + 1),
                                            SubSeq(raw, terminator + 4, Len(raw))).body)) THEN NoReply
              ELSE [status |-> raw[1][2],
                    text |-> Text(Body(SubSeq(raw, 1, terminator + 1),
                                       SubSeq(raw, terminator + 4, Len(raw))).body)]
        BY DEF Taken, terminator
      <4>2. Taken("execute", raw) = IF ~body.ok THEN NoReply
                                    ELSE IF ~IsDocument(Text(body.body)) THEN NoReply
                                    ELSE [status |-> status, text |-> Text(body.body)]
        BY <3>1, <4>1
      <4>3. QED
        BY <4>2
    <3>3. ReadAs(body, document, 0, Len(behind) = Len(payload))
      BY <2>2, <2>4 DEF BodyRead
    <3>4. r = Len(answer) => Len(behind) = Len(payload)
      BY <1>1, <1>2, <2>1, <2>2, <2>4
    <3> DEFINE whole == Len(behind) = Len(payload)
    <3> HIDE DEF raw, body, behind
    <3>5. CASE ~whole /\ \E b : body = [ok |-> FALSE, body |-> b]
      <4>1. body.ok = FALSE
        BY <3>5
      <4>2. QED
        BY <3>2, <3>4, <3>5, <4>1
    <3>6. CASE \E to \in 0..Len(document) :
                  body = Decoded(Part(document, 0, to)) /\ (whole => to = Len(document))
      <4>1. PICK to \in 0..Len(document) :
                  body = Decoded(Part(document, 0, to)) /\ (whole => to = Len(document))
        BY <3>6
      <4> DEFINE text == SubSeq(document, 1, to)
      <4>2. text \in Seq(Tokens)
        <5>1. to \in Nat /\ to <= Len(document) /\ \A i \in 1..to : document[i] \in Tokens
          BY <1>3
        <5>2. QED
          BY <5>1, SubSeqProperties
      <4>3. body.ok = TRUE /\ body.body = Bytes(text)
        <5>1. 0 + 1 = 1
          OBVIOUS
        <5>2. QED
          BY <4>1, <5>1 DEF Decoded, Part
      <4>4. Text(body.body) = text
        BY <4>2, <4>3, TextOfBytes
      <4>5. Taken("execute", raw) = IF ~IsDocument(text) THEN NoReply
                                    ELSE [status |-> status, text |-> text]
        BY <3>2, <4>3, <4>4
      <4>6. IsDocument(text) => to = Len(document)
        BY NoEarlierDocument
      <4>7. to = Len(document) => text = document
        BY <1>3, SubSeqFull
      <4> HIDE DEF text
      <4>8. IsDocument(text) => Taken("execute", raw) = whatWasSaid
        BY <4>5, <4>6, <4>7
      <4>9. ~IsDocument(text) => Taken("execute", raw) = NoReply
        BY <4>5
      <4>10. r = Len(answer) => IsDocument(text)
        BY <1>3, <3>4, <4>1, <4>7
      <4>11. QED
        BY <4>8, <4>9, <4>10
    <3>7. QED
      BY <3>3, <3>5, <3>6 DEF ReadAs
  <2>5. QED
    BY <2>3, <2>4
<1>5. QED
  BY <1>2, <1>4 DEF Faithful

LEMMA PayloadsArePieces ==
    ASSUME NEW document \in Seq(Tokens), NEW status \in Nat, NEW answer \in Answers(status, document)
    PROVE  \E head : \E payload \in Seq(Pieces) : \E h \in {5, 8} :
              /\ answer = head \o payload /\ HeadPieces(head, h, status)
              /\ BodyRead(head, h, payload, document)
<1>1. Len(document) \in Nat
  OBVIOUS
<1>2. Bytes(document) \in Seq(Pieces)
  BY BytesOf
<1>3. /\ <<"length", Len(document)>> \in Pieces /\ <<"length", Len(document)>> # CR
      /\ <<"chunked", 0>> \in Pieces /\ <<"chunked", 0>> # CR
  BY <1>1 DEF Pieces, CR
<1>4. /\ HeadPieces(PlainHead(status), 5, status)
      /\ HeadPieces(FramedHead(status, <<"length", Len(document)>>), 8, status)
      /\ HeadPieces(FramedHead(status, <<"chunked", 0>>), 8, status)
  BY <1>3, HeadsAre
<1>5. CASE answer = PlainHead(status) \o Bytes(document)
  <2>1. BodyRead(PlainHead(status), 5, Bytes(document), document)
    BY PlainBodyRead
  <2>2. QED
    BY <1>2, <1>4, <1>5, <2>1
<1>6. CASE answer = FramedHead(status, <<"length", Len(document)>>) \o Bytes(document)
  <2>1. BodyRead(FramedHead(status, <<"length", Len(document)>>), 8, Bytes(document), document)
    BY LengthBodyRead
  <2>2. QED
    BY <1>2, <1>4, <1>6, <2>1
<1>7. CASE \E cuts \in Cuts(document) :
              answer = FramedHead(status, <<"chunked", 0>>) \o ChunkedFrom(document, cuts)[0]
  <2>1. PICK cuts \in Cuts(document) :
              answer = FramedHead(status, <<"chunked", 0>>) \o ChunkedFrom(document, cuts)[0]
    BY <1>7
  <2>2. ChunkedFrom(document, cuts)[0] \in Seq(Pieces)
    <3>1. 0 \in 0..Len(document)
      BY <1>1
    <3>2. QED
      BY <3>1, ChunkedPieces
  <2>3. BodyRead(FramedHead(status, <<"chunked", 0>>), 8, ChunkedFrom(document, cuts)[0], document)
    BY ChunkedBodyRead
  <2>4. QED
    BY <1>4, <2>1, <2>2, <2>3
<1>8. QED
  BY <1>5, <1>6, <1>7 DEF Answers

\* Whichever way the engine frames an answer, it is taken as it was meant.
LEMMA AnswersFaithful ==
    ASSUME NEW document \in Documents, NEW status \in Statuses, NEW answer \in Answers(status, document)
    PROVE  Faithful(answer, [status |-> status, text |-> document])
<1>1. document \in Seq(Tokens) /\ status \in Nat
  BY DocumentsAssumption, StatusesAssumption
<1>2. PICK head : \E payload \in Seq(Pieces) : \E h \in {5, 8} :
              /\ answer = head \o payload /\ HeadPieces(head, h, status)
              /\ BodyRead(head, h, payload, document)
  BY <1>1, PayloadsArePieces
<1>3. PICK payload \in Seq(Pieces) : \E h \in {5, 8} :
              /\ answer = head \o payload /\ HeadPieces(head, h, status)
              /\ BodyRead(head, h, payload, document)
  BY <1>2
<1>4. PICK h \in {5, 8} : /\ answer = head \o payload /\ HeadPieces(head, h, status)
                          /\ BodyRead(head, h, payload, document)
  BY <1>3
<1>5. QED
  BY <1>4, FramingFaithful

------------------------------------------------------------------------------
\* The exchange.

\* An exchange holds one socket from its connection to its end, none before it
\* and none behind it, nor does a process that a signal has ended.
HeldSocket ==
    /\ phase \in {"idle", "connect", "send", "receive", "killed"}
    /\ sockets = IF phase \in {"send", "receive"} THEN 1 ELSE 0

\* http_request returns having closed its socket, whichever of its returns it is.
LEMMA FailClosesSocket == HeldSocket /\ phase \in {"send", "receive"} /\ Fail => HeldSocket'
BY DEF HeldSocket, Fail, Return

LEMMA ReadToEndClosesSocket == HeldSocket /\ ReadToEnd => HeldSocket'
BY DEF HeldSocket, ReadToEnd, Return

LEMMA SocketStep == HeldSocket /\ [Next]_vars => HeldSocket'
<1> SUFFICES ASSUME HeldSocket, [Next]_vars PROVE HeldSocket'
  OBVIOUS
<1>1. CASE \E call1 \in Calls : Begin(call1)
  BY <1>1 DEF HeldSocket, Begin
<1>2. CASE CannotConnect
  BY <1>2 DEF HeldSocket, CannotConnect, Return
<1>3. CASE AddressFails
  BY <1>3 DEF HeldSocket, AddressFails
<1>4. CASE AddressConnects
  BY <1>4 DEF HeldSocket, AddressConnects
<1>5. CASE Send
  <2>1. /\ phase = "send" /\ phase' = (IF unsent = 1 THEN "receive" ELSE "send")
        /\ sockets' = sockets
    BY <1>5 DEF Send
  <2>2. QED
    BY <2>1 DEF HeldSocket
<1>6. CASE KilledBySignal
  BY <1>6 DEF HeldSocket, KilledBySignal
<1>7. CASE LinkFails \/ WaitTimesOut
  BY <1>7, FailClosesSocket DEF LinkFails, WaitTimesOut
<1>8. CASE ReadToEnd
  BY <1>8, ReadToEndClosesSocket
<1>9. CASE UNCHANGED <<phase, sockets>>
  BY <1>9 DEF HeldSocket
<1>10. QED
  BY <1>1, <1>2, <1>3, <1>4, <1>5, <1>6, <1>7, <1>8, <1>9
     DEF Next, Driver, Server, Receive, ServerAnswers, ServerCloses, vars

\* However an exchange ends - at its addresses, in a send, in a wait, at a
\* signal or with an answer - its socket is closed, and there is never a second
\* (connect_to and every return of http_request, http.c:179-217).
THEOREM NoSocketLeftOpen == Spec => []SocketsClosed
<1>1. Init => HeldSocket
  BY DEF Init, HeldSocket
<1>2. HeldSocket => SocketsClosed
  BY DEF HeldSocket, SocketsClosed
<1>3. QED
  BY <1>1, <1>2, SocketStep, PTL DEF Spec

\* What an exchange has to send until it waits, and what it has arrived at.
Scalars ==
    /\ call \in Calls \cup {"none"}
    /\ phase \in {"idle", "connect", "send", "receive", "killed"}
    /\ address \in 1..Addresses + 1
    /\ unsent \in 0..2
    /\ phase \in {"connect", "send"} => unsent # 0
    /\ peer \in {"open", "finished", "reset"}
    /\ outcome \in {"none", "answered", "link"}
    /\ phase # "idle" => outcome = "none"

\* What is on its way is a framing of what was said.
Sent ==
    /\ meant \in Seq(Pieces) /\ received \in 0..Len(meant)
    /\ call = "execute" /\ meant # <<>> =>
          \E status \in Statuses, document \in Documents :
              /\ said = [status |-> status, text |-> document]
              /\ meant \in Answers(status, document)

HttpInv == Scalars /\ HeldSocket /\ Sent /\ NeverPartOfAnAnswer

LEMMA InitHttpInv == Init => HttpInv
<1> SUFFICES ASSUME Init PROVE HttpInv
  OBVIOUS
<1>1. Scalars
  BY AddressesAssumption DEF Init, Scalars
<1>2. HeldSocket
  BY DEF Init, HeldSocket
<1>3. Sent
  <2>1. <<>> \in Seq(Pieces) /\ Len(<<>>) = 0
    OBVIOUS
  <2>2. meant = <<>> /\ received = 0
    BY DEF Init
  <2>3. QED
    BY <2>1, <2>2 DEF Sent
<1>4. NeverPartOfAnAnswer
  BY DEF Init, NeverPartOfAnAnswer
<1>5. QED
  BY <1>1, <1>2, <1>3, <1>4 DEF HttpInv

\* The ways back to the caller.
LEMMA ReturnScalars ==
    ASSUME Scalars, NEW taken, Return(taken), UNCHANGED <<address, unsent>>,
           peer' \in {"open", "finished", "reset"}
    PROVE  Scalars'
<1>1. phase' = "idle" /\ call' = call /\ address' = address /\ unsent' = unsent
  BY DEF Return
<1>2. outcome' \in {"none", "answered", "link"}
  BY DEF Return
<1>3. QED
  BY <1>1, <1>2 DEF Scalars

LEMMA ScalarsStep == Scalars /\ [Next]_vars => Scalars'
<1> SUFFICES ASSUME Scalars, [Next]_vars PROVE Scalars'
  OBVIOUS
<1>1. ASSUME NEW c \in Calls, Begin(c) PROVE Scalars'
  <2>1. PiecesOf(c) \in 0..2 /\ PiecesOf(c) # 0
    BY DEF PiecesOf
  <2>2. 1 \in 1..Addresses + 1
    BY AddressesAssumption
  <2>3. QED
    BY <1>1, <2>1, <2>2 DEF Begin, Scalars
<1>2. CASE CannotConnect
  <2>1. peer' = peer /\ peer \in {"open", "finished", "reset"}
    BY <1>2 DEF CannotConnect, Scalars
  <2>2. QED
    BY <1>2, <2>1, ReturnScalars DEF CannotConnect
<1>3. CASE AddressFails
  <2>1. address + 1 \in 1..Addresses + 1
    BY <1>3, AddressesAssumption DEF AddressFails, Scalars
  <2>2. QED
    BY <1>3, <2>1 DEF AddressFails, Scalars
<1>4. CASE AddressConnects
  <2>1. 1 \in 1..Addresses + 1
    BY AddressesAssumption
  <2>2. QED
    BY <1>4, <2>1 DEF AddressConnects, Scalars
<1>5. CASE Send
  <2>1. /\ phase = "send" /\ unsent' = unsent - 1
        /\ phase' = (IF unsent = 1 THEN "receive" ELSE "send")
        /\ call' = call /\ address' = address /\ outcome' = outcome
    BY <1>5 DEF Send
  <2>2. peer' \in {"open", "finished", "reset"}
    BY <1>5 DEF Send, Scalars
  <2>3. unsent \in 1..2
    BY <2>1 DEF Scalars
  <2>4. unsent' \in 0..2 /\ (unsent # 1 => unsent' # 0)
    BY <2>1, <2>3
  <2>5. QED
    BY <2>1, <2>2, <2>4 DEF Scalars
<1>6. CASE KilledBySignal
  BY <1>6 DEF KilledBySignal, Scalars
<1>7. CASE LinkFails \/ WaitTimesOut
  <2>1. Fail
    BY <1>7 DEF LinkFails, WaitTimesOut
  <2>2. QED
    BY <2>1, ReturnScalars DEF Fail, Gone
<1>8. CASE ReadToEnd
  BY <1>8, ReturnScalars DEF ReadToEnd, Gone
<1>9. CASE Receive \/ ServerAnswers
  BY <1>9 DEF Receive, ServerAnswers, Scalars
<1>10. CASE ServerCloses
  BY <1>10 DEF ServerCloses, Scalars
<1>11. CASE UNCHANGED vars
  BY <1>11 DEF vars, Scalars
<1>12. QED
  BY <1>1, <1>2, <1>3, <1>4, <1>5, <1>6, <1>7, <1>8, <1>9, <1>10, <1>11 DEF Next, Driver, Server

LEMMA SentStep == Sent /\ [Next]_vars => Sent'
<1> SUFFICES ASSUME Sent, [Next]_vars PROVE Sent'
  OBVIOUS
<1>1. CASE meant' = <<>> /\ received' = 0
  <2>1. <<>> \in Seq(Pieces) /\ Len(<<>>) = 0
    OBVIOUS
  <2>2. QED
    BY <1>1, <2>1 DEF Sent
<1>2. CASE meant' = meant /\ received' = received /\ call' = call /\ said' = said
  BY <1>2 DEF Sent
<1>3. CASE Receive
  <2>1. /\ received < Len(meant) /\ received' = received + 1
        /\ meant' = meant /\ call' = call /\ said' = said
    BY <1>3 DEF Receive
  <2>2. Len(meant) \in Nat /\ received \in 0..Len(meant)
    BY DEF Sent
  <2>3. received' \in 0..Len(meant)
    BY <2>1, <2>2
  <2>4. QED
    BY <2>1, <2>3 DEF Sent
<1>4. CASE ServerAnswers
  <2> DEFINE said1(call1) == IF call1 = "execute" THEN Documents ELSE {<<"brace", "endbrace">>}
  <2>1. PICK status \in Statuses, document \in said1(call) :
            said' = [status |-> status, text |-> document] /\ meant' \in Answers(status, document)
    BY <1>4 DEF ServerAnswers
  <2>2. call' = call /\ received' = received /\ meant = <<>> /\ received \in 0..Len(meant)
    BY <1>4 DEF ServerAnswers, Sent
  <2>3. document \in Seq(Tokens)
    <3>1. <<"brace", "endbrace">> \in Seq(Tokens)
      BY DEF Tokens, Brackets
    <3>2. QED
      BY <3>1, DocumentsAssumption
  <2>4. status \in Nat
    BY StatusesAssumption
  <2>5. meant' \in Seq(Pieces)
    <3>1. PICK head : \E payload \in Seq(Pieces) : \E h \in {5, 8} :
              meant' = head \o payload /\ HeadPieces(head, h, status)
      BY <2>1, <2>3, <2>4, PayloadsArePieces
    <3>2. PICK payload \in Seq(Pieces) : \E h \in {5, 8} :
              meant' = head \o payload /\ HeadPieces(head, h, status)
      BY <3>1
    <3>3. head \in Seq(Pieces)
      BY <3>2 DEF HeadPieces
    <3>4. QED
      BY <3>2, <3>3, ConcatProperties
  <2>6. received' \in 0..Len(meant')
    <3>1. received = 0
      BY <2>2
    <3>2. Len(meant') \in Nat
      BY <2>5
    <3>3. QED
      BY <2>2, <3>1, <3>2
  <2>7. call' = "execute" => document \in Documents
    BY <2>2
  <2>8. QED
    BY <2>1, <2>5, <2>6, <2>7 DEF Sent
<1>5. CASE \E c \in Calls : Begin(c)
  BY <1>1, <1>5 DEF Begin
<1>6. CASE LinkFails \/ WaitTimesOut
  BY <1>1, <1>6 DEF LinkFails, WaitTimesOut, Fail, Gone
<1>7. CASE ReadToEnd
  BY <1>1, <1>7 DEF ReadToEnd, Gone
<1>8. CASE CannotConnect
  BY <1>2, <1>8 DEF CannotConnect, Return
<1>9. QED
  BY <1>2, <1>3, <1>4, <1>5, <1>6, <1>7, <1>8
     DEF Next, Driver, Server, AddressFails, AddressConnects, Send, KilledBySignal, ServerCloses, vars

\* Of what has arrived a statement's call takes nothing but what was said.
LEMMA ReadToEndTrue == HttpInv /\ ReadToEnd => NeverPartOfAnAnswer'
<1> SUFFICES ASSUME HttpInv, ReadToEnd, call' = "execute", outcome' = "answered"
             PROVE  reply' = said'
  BY DEF NeverPartOfAnAnswer
<1> DEFINE taken == Taken(call, SubSeq(meant, 1, received))
<1>1. call = "execute" /\ said' = said /\ reply' = taken
  BY DEF ReadToEnd, Return
<1>2. taken # NoReply
  BY <1>1 DEF ReadToEnd, Return
<1>3. meant \in Seq(Pieces) /\ received \in 0..Len(meant)
  BY DEF HttpInv, Sent
<1>4. CASE meant = <<>>
  <2>1. SubSeq(meant, 1, received) = <<>>
    <3>1. received = 0
      BY <1>3, <1>4
    <3>2. QED
      BY <3>1, SubSeqEmpty
  <2>2. Find(<<>>, <<CR, LF, CR, LF>>, 1) = 0
    <3>1. <<>> \in Seq(Pieces) /\ \A i \in 1..Len(<<>>) - 3 : FALSE
      OBVIOUS
    <3>2. QED
      BY <3>1, EmptyLineFound
  <2>3. taken = NoReply
    BY <2>1, <2>2 DEF Taken
  <2>4. QED
    BY <1>2, <2>3
<1>5. CASE meant # <<>>
  <2>1. PICK status \in Statuses, document \in Documents :
            said = [status |-> status, text |-> document] /\ meant \in Answers(status, document)
    BY <1>1, <1>5 DEF HttpInv, Sent
  <2>2. Faithful(meant, said)
    BY <2>1, AnswersFaithful
  <2>3. taken \in {NoReply, said}
    BY <1>1, <1>3, <2>2 DEF Faithful
  <2>4. QED
    BY <1>1, <1>2, <2>3
<1>6. QED
  BY <1>4, <1>5

LEMMA HttpInvStep == HttpInv /\ [Next]_vars => HttpInv'
<1> SUFFICES ASSUME HttpInv, [Next]_vars PROVE HttpInv'
  OBVIOUS
<1>1. Scalars' /\ HeldSocket' /\ Sent'
  BY ScalarsStep, SocketStep, SentStep DEF HttpInv
<1>2. NeverPartOfAnAnswer'
  <2>1. CASE outcome' # "answered"
    BY <2>1 DEF NeverPartOfAnAnswer
  <2>2. CASE ReadToEnd
    BY <2>2, ReadToEndTrue
  <2>3. CASE UNCHANGED <<call, outcome, reply, said>>
    BY <2>3 DEF HttpInv, NeverPartOfAnAnswer
  <2>4. CASE ServerAnswers
    <3>1. outcome = "none" /\ outcome' = outcome
      BY <2>4 DEF ServerAnswers, HttpInv, Scalars
    <3>2. QED
      BY <3>1 DEF NeverPartOfAnAnswer
  <2>5. CASE CannotConnect \/ LinkFails \/ WaitTimesOut
    <3>1. Return(NoReply)
      BY <2>5 DEF CannotConnect, LinkFails, WaitTimesOut, Fail
    <3>2. call' = "execute" => outcome' # "answered"
      BY <3>1 DEF Return
    <3>3. QED
      BY <3>2 DEF NeverPartOfAnAnswer
  <2>6. CASE \E c \in Calls : Begin(c)
    BY <2>6 DEF Begin, NeverPartOfAnAnswer
  <2>7. QED
    BY <2>2, <2>3, <2>4, <2>5, <2>6 DEF Next, Driver, Server, AddressFails, AddressConnects, Send,
       KilledBySignal, Receive, ServerCloses, vars
<1>3. QED
  BY <1>1, <1>2 DEF HttpInv

LEMMA SpecHttpInv == Spec => []HttpInv
<1>1. QED
  BY InitHttpInv, HttpInvStep, PTL DEF Spec

\* The variables of an exchange keep their types: no address is tried beyond the
\* last, nothing is sent beyond the last piece, and no more is taken for read
\* than was sent (http.c:55-119).
THEOREM HttpTypeCorrect == Spec => []HttpTypeOK
<1>1. HttpInv => HttpTypeOK
  <2>1. ASSUME HttpInv PROVE HttpTypeOK
    <3>1. sockets \in Nat
      BY <2>1 DEF HttpInv, HeldSocket
    <3>2. QED
      BY <2>1, <3>1 DEF HttpInv, Scalars, Sent, HttpTypeOK
  <2>2. QED
    BY <2>1
<1>2. QED
  BY <1>1, SpecHttpInv, PTL

\* Whatever the engine's documents are and however they are framed and cut into
\* chunks, a connection that ends before all has arrived leaves a statement
\* without an answer, never with a part of one (http.c:147-255, proto.c:240-251).
THEOREM NoPartTakenForAll == Spec => []NeverPartOfAnAnswer
<1>1. HttpInv => NeverPartOfAnAnswer
  BY DEF HttpInv
<1>2. QED
  BY <1>1, SpecHttpInv, PTL

\* And an answer that has arrived whole is the document it was made of
\* (http.c:227-255).
THEOREM WholeAnswersRead == Spec => []WholeAnswerUnderstood
<1>1. HttpInv => WholeAnswerUnderstood
  <2> SUFFICES ASSUME HttpInv, call = "execute", meant # <<>>, received = Len(meant)
               PROVE  Taken(call, meant) = said
    BY DEF WholeAnswerUnderstood
  <2>1. meant \in Seq(Pieces) /\ Len(meant) \in 0..Len(meant)
    BY DEF HttpInv, Sent
  <2>2. PICK status \in Statuses, document \in Documents :
            said = [status |-> status, text |-> document] /\ meant \in Answers(status, document)
    BY DEF HttpInv, Sent
  <2>3. Faithful(meant, said)
    BY <2>2, AnswersFaithful
  <2>4. Taken("execute", SubSeq(meant, 1, Len(meant))) = said
    BY <2>1, <2>3 DEF Faithful
  <2>5. SubSeq(meant, 1, Len(meant)) = meant
    BY <2>1, SubSeqFull
  <2>6. QED
    BY <2>4, <2>5
<1>2. QED
  BY <1>1, SpecHttpInv, PTL
================================================================================
