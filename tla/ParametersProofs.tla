--------------------------- MODULE ParametersProofs ----------------------------
(***************************************************************************)
(* What Parameters promises of substitute_params, proved for texts of      *)
(* every length with any number of parameters.                             *)
(***************************************************************************)
EXTENDS Parameters, FiniteSetTheorems, WellFoundedInduction, TLAPS

------------------------------------------------------------------------------
\* One parameter rendered

Signed == <<"(", "minus", "number", ")">>

\* All that is ever spliced into a text.
Splices == {<<"word">>, <<"opaque">>, Temporal, <<"number">>, Signed}

Codes == {"07002", "22018", "HY090", "HYC00"}

\* A parameter is refused, or is one of the splices.
RenderedOrRefused(r) ==
    /\ r.code = "success" => r.lexemes \in Splices
    /\ r.code # "success" => r.code \in Codes

LEMMA NumberSplice == ASSUME NEW text PROVE AppendNumber(text) \in Splices
BY DEF AppendNumber, Splices, Signed

LEMMA ValueRendered ==
    ASSUME NEW param \in ParameterValues PROVE RenderedOrRefused(ValueLiteral(param))
<1>1. /\ param.c_type \in {"char", "wide", "signed", "unsigned", "bit", "binary", "temporal", "unknown"}
      /\ param.sql_type \in {"character", "numeric", "temporal"}
  BY DEF ParameterValues
<1>2. ASSUME NEW lexemes \in Splices PROVE RenderedOrRefused(Rendered(lexemes))
  BY DEF RenderedOrRefused, Rendered
<1>3. ASSUME NEW code \in Codes PROVE RenderedOrRefused(Refusal(code))
  BY DEF RenderedOrRefused, Refusal, Codes
<1>4. RenderedOrRefused(CharLiteral(param))
  <2>1. StringLiteral \in Splices /\ Temporal \in Splices /\ "22018" \in Codes
    BY DEF StringLiteral, Splices, Codes
  <2>2. CASE param.sql_type = "temporal"
    BY <1>2, <2>1, <2>2 DEF CharLiteral
  <2>3. CASE param.sql_type = "numeric"
    BY <1>2, <1>3, <2>1, <2>3, NumberSplice DEF CharLiteral
  <2>4. CASE param.sql_type = "character"
    BY <1>2, <2>1, <2>4 DEF CharLiteral
  <2>5. QED
    BY <1>1, <2>2, <2>3, <2>4
<1>5. /\ <<"number">> \in Splices /\ <<"word">> \in Splices /\ BinaryLiteral \in Splices
      /\ Temporal \in Splices /\ "HYC00" \in Codes
  BY DEF BinaryLiteral, Splices, Codes
<1>6. CASE param.c_type = "char"
  BY <1>4, <1>6 DEF ValueLiteral
<1>7. CASE param.c_type = "signed"
  BY <1>2, <1>7, NumberSplice DEF ValueLiteral
<1>8. CASE param.c_type = "unsigned"
  BY <1>2, <1>5, <1>8 DEF ValueLiteral
<1>9. CASE param.c_type = "bit"
  BY <1>2, <1>5, <1>9 DEF ValueLiteral
<1>10. CASE param.c_type = "binary"
  BY <1>2, <1>5, <1>10 DEF ValueLiteral
<1>11. CASE param.c_type = "temporal"
  BY <1>2, <1>5, <1>11 DEF ValueLiteral
<1>12. CASE param.c_type \in {"wide", "unknown"}
  BY <1>3, <1>5, <1>12 DEF ValueLiteral
<1>13. QED
  BY <1>1, <1>6, <1>7, <1>8, <1>9, <1>10, <1>11, <1>12

LEMMA LiteralRendered ==
    ASSUME NEW param \in Parameters \cup {Free} PROVE RenderedOrRefused(AppendParamLiteral(param))
<1>1. CASE param = Free
  BY <1>1 DEF Free, AppendParamLiteral, Refusal, RenderedOrRefused, Codes
<1>2. CASE param \in Parameters
  <2>1. param \in ParameterValues
    BY <1>2, ParametersAssumption
  <2>2. RenderedOrRefused(ValueLiteral(param))
    BY <2>1, ValueRendered
  <2>3. RenderedOrRefused(Rendered(<<"word">>))
    BY DEF RenderedOrRefused, Rendered, Splices
  <2>4. \A code \in Codes : RenderedOrRefused(Refusal(code))
    BY DEF RenderedOrRefused, Refusal, Codes
  <2>5. "07002" \in Codes /\ "HYC00" \in Codes /\ "HY090" \in Codes
    BY DEF Codes
  <2>6. QED
    BY <2>2, <2>3, <2>4, <2>5 DEF AppendParamLiteral
<1>3. QED
  BY <1>1, <1>2

\* No splice holds a marker, or a sign that is not enclosed, or ends or begins
\* with one.
LEMMA SpliceShape ==
    ASSUME NEW s \in Splices
    PROVE  /\ s \in Seq(Lexemes) /\ Len(s) \in 1..4
           /\ \A i \in 1..Len(s) : s[i] # "?"
           /\ \A i \in 1..Len(s) : s[i] = "minus" => s = Signed /\ i = 2
<1>1. CASE s = Signed
  <2>1. Len(s) = 4 /\ s[1] = "(" /\ s[2] = "minus" /\ s[3] = "number" /\ s[4] = ")"
    BY <1>1 DEF Signed
  <2>2. s \in Seq(Lexemes)
    <3>1. "(" \in Lexemes /\ "minus" \in Lexemes /\ "number" \in Lexemes /\ ")" \in Lexemes
      BY DEF Lexemes
    <3>2. QED
      BY <1>1, <3>1 DEF Signed
  <2>3. \A i \in 1..4 : i = 1 \/ i = 2 \/ i = 3 \/ i = 4
    OBVIOUS
  <2>4. QED
    BY <1>1, <2>1, <2>2, <2>3
<1>2. CASE s = Temporal
  <2>1. Len(s) = 3 /\ s[1] = "opaque" /\ s[2] = "cast" /\ s[3] = "word"
    BY <1>2 DEF Temporal
  <2>2. s \in Seq(Lexemes)
    BY <1>2 DEF Temporal, Lexemes, Skipped
  <2>3. \A i \in 1..3 : i = 1 \/ i = 2 \/ i = 3
    OBVIOUS
  <2>4. QED
    BY <2>1, <2>2, <2>3
<1>3. CASE s \in {<<"word">>, <<"opaque">>, <<"number">>}
  <2>1. PICK lexeme \in {"word", "opaque", "number"} : s = <<lexeme>>
    BY <1>3
  <2>2. lexeme \in Lexemes
    BY DEF Lexemes, Skipped
  <2>3. Len(s) = 1 /\ s[1] \in {"word", "opaque", "number"} /\ s \in Seq(Lexemes)
    BY <2>1, <2>2
  <2>4. \A i \in 1..1 : i = 1
    OBVIOUS
  <2>5. QED
    BY <2>3, <2>4
<1>4. QED
  BY <1>1, <1>2, <1>3 DEF Splices

------------------------------------------------------------------------------
\* Signs

\* A longer text keeps its signs enclosed.
LEMMA StaysEnclosed ==
    ASSUME NEW text \in Seq(Lexemes), NEW more \in Seq(Lexemes), NEW n \in 1..Len(text),
           Enclosed(text, n)
    PROVE  Enclosed(text \o more, n)
<1>1. n - 1 \in 1..Len(text) /\ n + 1 \in 1..Len(text) /\ n + 2 \in 1..Len(text)
  BY DEF Enclosed
<1>2. \A i \in 1..Len(text) : (text \o more)[i] = text[i]
  OBVIOUS
<1>3. Len(text \o more) >= Len(text)
  OBVIOUS
<1>4. QED
  BY <1>1, <1>2, <1>3 DEF Enclosed

LEMMA FewSigns ==
    ASSUME NEW text \in Seq(Lexemes)
    PROVE  IsFiniteSet(BareSigns(text)) /\ Cardinality(BareSigns(text)) \in Nat
<1>1. BareSigns(text) \in SUBSET (1..Len(text)) /\ Len(text) \in Nat
  BY DEF BareSigns
<1>2. IsFiniteSet(1..Len(text))
  BY <1>1, FS_Interval
<1>3. QED
  BY <1>1, <1>2, FS_Subset, FS_CardinalityType

\* A splice adds no bare sign, and meets no other.
LEMMA SpliceSigns ==
    ASSUME NEW text \in Seq(Lexemes), NEW s \in Splices, ~MinusesMeet(text)
    PROVE  /\ ~MinusesMeet(text \o s)
           /\ Cardinality(BareSigns(text \o s)) <= Cardinality(BareSigns(text))
           /\ (text \o s) # <<>> /\ (text \o s)[Len(text \o s)] # "minus"
<1> DEFINE longer == text \o s
<1>1. /\ s \in Seq(Lexemes) /\ Len(s) \in 1..4
      /\ \A i \in 1..Len(s) : s[i] = "minus" => s = Signed /\ i = 2
  BY SpliceShape
<1>2. /\ longer \in Seq(Lexemes) /\ Len(longer) = Len(text) + Len(s) /\ Len(text) \in Nat
      /\ \A i \in 1..Len(text) : longer[i] = text[i]
      /\ \A i \in 1..Len(s) : longer[Len(text) + i] = s[i]
      /\ DOMAIN longer = 1..Len(longer)
  BY <1>1
<1>3. \A n \in 1..Len(text) : Enclosed(text, n) => Enclosed(text \o s, n)
  BY <1>1, StaysEnclosed
<1>4. ~MinusesMeet(longer)
  <2> SUFFICES ASSUME NEW i \in 1..Len(longer) - 1, longer[i] = "minus", longer[i + 1] = "minus"
               PROVE  FALSE
    BY DEF MinusesMeet
  <2>1. CASE i + 1 <= Len(text)
    <3>1. i \in 1..Len(text) - 1 /\ i \in 1..Len(text) /\ i + 1 \in 1..Len(text)
      BY <1>1, <1>2, <2>1
    <3>2. text[i] = "minus" /\ text[i + 1] = "minus"
      BY <1>2, <3>1
    <3>3. QED
      BY <3>1, <3>2 DEF MinusesMeet
  <2>2. CASE ~(i + 1 <= Len(text))
    <3> DEFINE k == i + 1 - Len(text)
    <3>1. k \in 1..Len(s) /\ Len(text) + k = i + 1
      BY <1>1, <1>2, <2>2
    <3>2. s[k] = "minus"
      BY <1>2, <3>1
    <3>3. s = Signed /\ k = 2
      BY <1>1, <3>1, <3>2
    <3>4. Len(text) + 1 = i /\ 1 \in 1..Len(s)
      BY <1>1, <1>2, <3>1, <3>3
    <3>5. longer[i] = s[1]
      BY <1>2, <3>4
    <3>6. QED
      BY <3>3, <3>5 DEF Signed
  <2>3. QED
    BY <2>1, <2>2
<1>5. ASSUME NEW n \in 1..Len(longer), longer[n] = "minus", ~Enclosed(longer, n)
      PROVE  n \in 1..Len(text)
  <2> SUFFICES ASSUME ~(n <= Len(text)) PROVE FALSE
    BY <1>2
  <2> DEFINE k == n - Len(text)
  <2>1. k \in 1..Len(s) /\ Len(text) + k = n
    BY <1>1, <1>2
  <2>2. s[k] = "minus"
    BY <1>2, <1>5, <2>1
  <2>3. s = Signed /\ k = 2
    BY <1>1, <2>1, <2>2
  <2>4. Len(s) = 4 /\ s[1] = "(" /\ s[3] = "number" /\ s[4] = ")"
    BY <2>3 DEF Signed
  <2>5. /\ n - 1 = Len(text) + 1 /\ n + 1 = Len(text) + 3 /\ n + 2 = Len(text) + 4
        /\ 1 < n /\ n + 2 <= Len(longer)
    BY <1>2, <2>1, <2>3, <2>4
  <2>6. longer[Len(text) + 1] = s[1] /\ longer[Len(text) + 3] = s[3] /\ longer[Len(text) + 4] = s[4]
    BY <1>2, <2>4
  <2>7. Enclosed(longer, n)
    BY <2>4, <2>5, <2>6 DEF Enclosed
  <2>8. QED
    BY <1>5, <2>7
<1>6. Cardinality(BareSigns(longer)) <= Cardinality(BareSigns(text))
  <2>1. BareSigns(longer) \in SUBSET BareSigns(text)
    BY <1>2, <1>3, <1>5 DEF BareSigns
  <2>2. QED
    BY <2>1, FewSigns, FS_Subset
<1>7. longer # <<>> /\ longer[Len(longer)] # "minus"
  <2>1. PICK last \in 1..4 : last = Len(s)
    BY <1>1
  <2>2. last \in 1..Len(s) /\ Len(longer) = Len(text) + last
    BY <1>2, <2>1
  <2>3. longer[Len(longer)] = s[last]
    BY <1>2, <2>2
  <2>4. s[last] = "minus" => s = Signed /\ last = 2
    BY <1>1, <2>1, <2>2
  <2>5. s[last] # "minus"
    <3>1. Len(Signed) = 4
      BY DEF Signed
    <3>2. s[last] = "minus" => last = 2 /\ last = 4
      BY <2>1, <2>4, <3>1
    <3>3. QED
      BY <3>2
  <2>6. Len(longer) # 0
    BY <1>2, <2>2
  <2>7. QED
    BY <2>3, <2>5, <2>6
<1>8. QED
  BY <1>4, <1>6, <1>7

\* A lexeme copied behind what is there: a minus is a bare sign more.
LEMMA CopySigns ==
    ASSUME NEW text \in Seq(Lexemes), NEW lexeme \in Lexemes, ~MinusesMeet(text),
           lexeme = "minus" /\ text # <<>> => text[Len(text)] # "minus"
    PROVE  /\ ~MinusesMeet(Append(text, lexeme))
           /\ Cardinality(BareSigns(Append(text, lexeme)))
              <= Cardinality(BareSigns(text)) + (IF lexeme = "minus" THEN 1 ELSE 0)
           /\ Append(text, lexeme) # <<>>
           /\ Append(text, lexeme)[Len(Append(text, lexeme))] = lexeme
<1> DEFINE longer == Append(text, lexeme)
<1>1. /\ longer \in Seq(Lexemes) /\ Len(longer) = Len(text) + 1 /\ Len(text) \in Nat
      /\ \A i \in 1..Len(text) : longer[i] = text[i]
      /\ longer[Len(text) + 1] = lexeme
      /\ DOMAIN longer = 1..Len(longer)
  OBVIOUS
<1>2. longer = text \o <<lexeme>>
  OBVIOUS
<1>3. ASSUME NEW n \in 1..Len(text), Enclosed(text, n) PROVE Enclosed(longer, n)
  <2>1. <<lexeme>> \in Seq(Lexemes)
    OBVIOUS
  <2>2. QED
    BY <1>2, <1>3, <2>1, StaysEnclosed
<1>4. ~MinusesMeet(longer)
  <2> SUFFICES ASSUME NEW i \in 1..Len(longer) - 1, longer[i] = "minus", longer[i + 1] = "minus"
               PROVE  FALSE
    BY DEF MinusesMeet
  <2> HIDE DEF longer
  <2>1. i \in 1..Len(text) /\ text[i] = "minus"
    BY <1>1
  <2>2. CASE i = Len(text)
    <3>1. text # <<>>
      BY <1>1, <2>1
    <3>2. QED
      BY <1>1, <2>1, <2>2, <3>1
  <2>3. CASE i # Len(text)
    <3>1. i \in 1..Len(text) - 1 /\ i + 1 \in 1..Len(text)
      BY <1>1, <2>1, <2>3
    <3>2. QED
      BY <1>1, <2>1, <3>1 DEF MinusesMeet
  <2>4. QED
    BY <2>2, <2>3
<1>5. Cardinality(BareSigns(longer))
      <= Cardinality(BareSigns(text)) + (IF lexeme = "minus" THEN 1 ELSE 0)
  <2>1. CASE lexeme = "minus"
    <3>1. BareSigns(longer) \in SUBSET (BareSigns(text) \cup {Len(text) + 1})
      <4> SUFFICES ASSUME NEW n \in BareSigns(longer), n # Len(text) + 1
                   PROVE  n \in BareSigns(text)
        OBVIOUS
      <4>1. n \in 1..Len(longer) /\ longer[n] = "minus" /\ ~Enclosed(longer, n)
        BY DEF BareSigns
      <4> HIDE DEF longer
      <4>2. n \in 1..Len(text)
        BY <1>1, <4>1
      <4>3. QED
        BY <1>1, <1>3, <4>1, <4>2 DEF BareSigns
    <3>2. /\ IsFiniteSet(BareSigns(text) \cup {Len(text) + 1})
          /\ Cardinality(BareSigns(text) \cup {Len(text) + 1}) <= Cardinality(BareSigns(text)) + 1
      <4>1. IsFiniteSet(BareSigns(text)) /\ Cardinality(BareSigns(text)) \in Nat
        BY FewSigns
      <4>2. /\ IsFiniteSet(BareSigns(text) \cup {Len(text) + 1})
            /\ Cardinality(BareSigns(text) \cup {Len(text) + 1})
               = IF Len(text) + 1 \in BareSigns(text) THEN Cardinality(BareSigns(text))
                 ELSE Cardinality(BareSigns(text)) + 1
        BY <4>1, FS_AddElement
      <4>3. QED
        BY <4>1, <4>2
    <3> DEFINE more == Cardinality(BareSigns(text) \cup {Len(text) + 1})
               few == Cardinality(BareSigns(text))
               new == Cardinality(BareSigns(longer))
    <3>3. new <= more
      BY <3>1, <3>2, FS_Subset
    <3>4. more \in Nat /\ few \in Nat /\ new \in Nat
      BY <1>1, <3>2, FewSigns, FS_CardinalityType
    <3> HIDE DEF more, few, new
    <3>5. more <= few + 1
      BY <3>2 DEF more, few
    <3>6. new <= few + 1
      BY <3>3, <3>4, <3>5
    <3>7. QED
      BY <2>1, <3>6 DEF few, new
  <2>2. CASE lexeme # "minus"
    <3>1. BareSigns(longer) \in SUBSET BareSigns(text)
      <4> SUFFICES ASSUME NEW n \in BareSigns(longer) PROVE n \in BareSigns(text)
        OBVIOUS
      <4>1. n \in 1..Len(longer) /\ longer[n] = "minus" /\ ~Enclosed(longer, n)
        BY DEF BareSigns
      <4> HIDE DEF longer
      <4>2. n \in 1..Len(text)
        BY <1>1, <2>2, <4>1
      <4>3. QED
        BY <1>1, <1>3, <4>1, <4>2 DEF BareSigns
    <3>2. Cardinality(BareSigns(longer)) <= Cardinality(BareSigns(text))
      BY <3>1, FewSigns, FS_Subset
    <3>3. Cardinality(BareSigns(text)) \in Nat
      BY FewSigns
    <3>4. QED
      BY <2>2, <3>2, <3>3
  <2>3. QED
    BY <2>1, <2>2
<1>6. longer # <<>> /\ longer[Len(longer)] = lexeme
  BY <1>1
<1>7. QED
  BY <1>4, <1>5, <1>6

------------------------------------------------------------------------------
\* The expansion of a text, lexeme by lexeme

IsExpansion(f, text, literals, length) ==
    f = [i \in 0..length |->
            IF i = 0 THEN <<>>
            ELSE IF i \in Markers(text) THEN f[i - 1] \o literals[Ordinal(text, i)]
            ELSE Append(f[i - 1], text[i])]

\* The function Expansions defines is there for a text of any length: were it not
\* up to some of its lexemes, it would not be up to the first such, although up to
\* the one before.
LEMMA ExpansionExists ==
    ASSUME NEW text, NEW literals, NEW length \in Nat
    PROVE  \E f : IsExpansion(f, text, literals, length)
<1> DEFINE Next1(before, i) ==
               IF i \in Markers(text) THEN before \o literals[Ordinal(text, i)]
               ELSE Append(before, text[i])
           Up(f, n) == f = [i \in 0..n |-> IF i = 0 THEN <<>> ELSE Next1(f[i - 1], i)]
           Missing == {n \in Nat : ~ \E f : Up(f, n)}
           R == OpToRel(<, Nat)
<1>1. SUFFICES Missing = {}
  <2>1. length \notin Missing
    BY <1>1
  <2>2. \E f : Up(f, length)
    BY <2>1
  <2>3. QED
    BY <2>2 DEF IsExpansion
<1>2. SUFFICES ASSUME Missing # {} PROVE FALSE
  OBVIOUS
<1>3. IsWellFoundedOn(R, Nat) /\ R = {ss \in Nat \X Nat : ss[1] < ss[2]}
  BY NatLessThanWellFounded DEF OpToRel
<1>4. Missing \subseteq Nat
  OBVIOUS
<1> HIDE DEF R, Missing, Next1
<1>5. PICK least \in Missing : \A y \in Missing : ~(<<y, least>> \in R)
  BY <1>2, <1>3, <1>4, WFMin
<1>6. \A y \in Missing : ~(y < least)
  <2>1. \A y \in Missing : <<y, least>> \in Nat \X Nat
    BY <1>4, <1>5
  <2>2. QED
    BY <1>3, <1>5, <2>1
<1>7. CASE least = 0
  <2> DEFINE f == [i \in 0..0 |-> <<>>]
  <2>1. f = [i \in 0..0 |-> IF i = 0 THEN <<>> ELSE Next1(f[i - 1], i)]
    OBVIOUS
  <2>2. Up(f, 0)
    BY <2>1
  <2>3. QED
    BY <1>5, <1>7, <2>2 DEF Missing
<1>8. CASE least # 0
  <2>1. least \in Nat /\ least - 1 \in Nat /\ least - 1 < least
    BY <1>4, <1>5, <1>8
  <2>2. PICK f : Up(f, least - 1)
    BY <1>6, <2>1 DEF Missing
  <2> DEFINE g == [i \in 0..least |-> IF i < least THEN f[i] ELSE Next1(f[least - 1], least)]
  <2>3. ASSUME NEW i \in 0..least
        PROVE  g[i] = IF i = 0 THEN <<>> ELSE Next1(g[i - 1], i)
    <3>1. CASE i < least
      <4>1. i \in 0..(least - 1) /\ g[i] = f[i]
        BY <2>1, <3>1
      <4>2. f[i] = IF i = 0 THEN <<>> ELSE Next1(f[i - 1], i)
        BY <2>2, <4>1
      <4>3. i # 0 => i - 1 \in 0..least /\ i - 1 < least
        BY <2>1, <3>1
      <4>4. i # 0 => g[i - 1] = f[i - 1]
        BY <4>3
      <4>5. QED
        BY <4>1, <4>2, <4>4
    <3>2. CASE ~(i < least)
      <4>1. i = least /\ i # 0 /\ i - 1 \in 0..least /\ i - 1 < least
        BY <2>1, <1>8, <3>2
      <4>2. g[i] = Next1(f[i - 1], i) /\ g[i - 1] = f[i - 1]
        BY <4>1
      <4>3. QED
        BY <4>1, <4>2
    <3>3. QED
      BY <3>1, <3>2
  <2>4. g = [i \in 0..least |-> IF i = 0 THEN <<>> ELSE Next1(g[i - 1], i)]
    BY <2>3
  <2>5. Up(g, least)
    BY <2>4
  <2>6. QED
    BY <1>5, <2>1, <2>5 DEF Missing
<1>9. QED
  BY <1>7, <1>8

LEMMA ExpansionSteps ==
    ASSUME NEW text \in Seq(Lexemes), NEW literals
    PROVE  /\ Expansions(text, literals)[0] = <<>>
           /\ \A i \in 1..Len(text) :
                /\ i \in Markers(text) => Expansions(text, literals)[i]
                       = Expansions(text, literals)[i - 1] \o literals[Ordinal(text, i)]
                /\ i \notin Markers(text) => Expansions(text, literals)[i]
                       = Append(Expansions(text, literals)[i - 1], text[i])
<1> DEFINE expand == CHOOSE f : IsExpansion(f, text, literals, Len(text))
<1>1. Len(text) \in Nat
  OBVIOUS
<1>2. \E f : IsExpansion(f, text, literals, Len(text))
  BY <1>1, ExpansionExists
<1>3. IsExpansion(expand, text, literals, Len(text))
  BY <1>2
<1>4. Expansions(text, literals) = expand
  BY DEF Expansions, IsExpansion
<1> HIDE DEF expand
<1>5. 0 \in 0..Len(text) /\ \A i \in 1..Len(text) : i \in 0..Len(text) /\ i # 0
  BY <1>1
<1>6. expand[0] = <<>>
  BY <1>3, <1>5 DEF IsExpansion
<1>7. ASSUME NEW i \in 1..Len(text)
      PROVE  /\ i \in Markers(text) => expand[i] = expand[i - 1] \o literals[Ordinal(text, i)]
             /\ i \notin Markers(text) => expand[i] = Append(expand[i - 1], text[i])
  BY <1>3, <1>5 DEF IsExpansion
<1>8. QED
  BY <1>4, <1>6, <1>7

------------------------------------------------------------------------------
\* The inductive invariant

BoundInv == params \in Seq(Parameters \cup {Free}) /\ Len(params) <= MaxParameters

WalkInv ==
    /\ sql \in Seq(Lexemes) /\ ~MinusesMeet(sql)
    /\ c \in 1..(Len(sql) + 1)
    /\ param_index \in 0..MaxParameters
    /\ buf \in Seq(Lexemes)

\* What is copied ends in a minus only behind one of the text's own.
OwnSigns == {n \in 1..(c - 1) : sql[n] = "minus"}

SignsInv ==
    /\ ~MinusesMeet(buf)
    /\ buf # <<>> => (buf[Len(buf)] = "minus" => c > 1 /\ sql[c - 1] = "minus")
    /\ Cardinality(BareSigns(buf)) <= Cardinality(OwnSigns)

\* While parameters go in nothing is sent, and what is sent then is all of it.
SentInv ==
    /\ running => sent = <<>> /\ answer = "success" /\ HasBoundParams
    /\ answer # "success" => sent = <<>>
    /\ answer \in {"success"} \cup Codes
    /\ Len(sent) <= 1
    /\ ~running /\ sent # <<>> /\ param_index > 0 => sent = <<buf>>

\* The walk has got as far as the expansion has.
ExpansionInv ==
    /\ Markers(buf) = {}
    /\ running => /\ param_index = Cardinality({j \in Markers(sql) : j <= c - 1})
                  /\ buf = Expansions(sql, Literals)[c - 1]

Typed == BoundInv /\ WalkInv
Promised == SignsInv /\ SentInv /\ ExpansionInv

LEMMA NextLiteralShape ==
    ASSUME Typed
    PROVE  /\ RenderedOrRefused(NextLiteral)
           /\ NextLiteral.code = "success" =>
                 /\ param_index + 1 \in DOMAIN params
                 /\ NextLiteral.lexemes = Literals[param_index + 1]
<1>1. /\ params \in Seq(Parameters \cup {Free}) /\ Len(params) \in Nat
      /\ param_index \in Nat
  BY MaxParametersAssumption DEF Typed, BoundInv, WalkInv
<1>2. CASE param_index >= Len(params)
  <2>1. NextLiteral = Refusal("07002")
    BY <1>2 DEF NextLiteral
  <2>2. QED
    BY <2>1 DEF RenderedOrRefused, Refusal, Codes
<1>3. CASE ~(param_index >= Len(params))
  <2>1. NextLiteral = AppendParamLiteral(params[param_index + 1])
    BY <1>3 DEF NextLiteral
  <2>2. param_index + 1 \in DOMAIN params
    BY <1>1, <1>3
  <2>3. params[param_index + 1] \in Parameters \cup {Free}
    BY <1>1, <2>2
  <2>4. QED
    BY <2>1, <2>2, <2>3, LiteralRendered DEF Literals
<1>4. QED
  BY <1>2, <1>3

LEMMA ParametersInit == Init => Typed /\ Promised
<1> SUFFICES ASSUME Init PROVE Typed /\ Promised
  OBVIOUS
<1>1. /\ params = <<>> /\ sql = <<>> /\ c = 1 /\ buf = <<>> /\ param_index = 0 /\ sent = <<>>
      /\ answer = "success" /\ ~running
  BY DEF Init
<1>2. BoundInv
  <2>1. <<>> \in Seq(Parameters \cup {Free}) /\ Len(<<>>) = 0
    OBVIOUS
  <2>2. QED
    BY <1>1, <2>1, MaxParametersAssumption DEF BoundInv
<1>3. <<>> \in Seq(Lexemes) /\ Len(<<>>) = 0 /\ DOMAIN <<>> = {}
  OBVIOUS
<1>4. ~MinusesMeet(<<>>)
  BY <1>3 DEF MinusesMeet
<1>5. WalkInv
  BY <1>1, <1>3, <1>4, MaxParametersAssumption DEF WalkInv
<1>6. SignsInv
  <2>1. BareSigns(<<>>) = {} /\ OwnSigns = {}
    BY <1>1, <1>3 DEF BareSigns, OwnSigns
  <2>2. Cardinality({}) = 0
    BY FS_EmptySet
  <2>3. QED
    BY <1>1, <1>4, <2>1, <2>2 DEF SignsInv
<1>7. SentInv
  BY <1>1, <1>3 DEF SentInv
<1>8. ExpansionInv
  BY <1>1, <1>3 DEF ExpansionInv, Markers
<1>9. QED
  BY <1>2, <1>5, <1>6, <1>7, <1>8 DEF Typed, Promised

\* Binding and resetting leave the walk behind.
LEMMA BindKeeps ==
    Typed /\ Promised /\ (SQLBindParameter \/ ResetParams) => Typed' /\ Promised'
<1> SUFFICES ASSUME Typed, Promised, SQLBindParameter \/ ResetParams PROVE Typed' /\ Promised'
  OBVIOUS
<1>1. ~running /\ ~running' /\ UNCHANGED <<sql, c, buf, param_index, sent, answer>>
  BY DEF SQLBindParameter, ResetParams, walk
<1>2. BoundInv'
  <2>1. CASE ResetParams
    <3>1. <<>> \in Seq(Parameters \cup {Free}) /\ Len(<<>>) = 0
      OBVIOUS
    <3>2. QED
      BY <2>1, <3>1, MaxParametersAssumption DEF ResetParams, BoundInv
  <2>2. CASE SQLBindParameter
    <3>1. PICK number \in 1..MaxParameters, param \in Parameters :
             params' = [i \in 1..(IF number > Len(params) THEN number ELSE Len(params)) |->
                          IF i = number THEN param
                          ELSE IF i <= Len(params) THEN params[i] ELSE Free]
      BY <2>2 DEF SQLBindParameter
    <3> DEFINE length == IF number > Len(params) THEN number ELSE Len(params)
    <3>2. params \in Seq(Parameters \cup {Free}) /\ Len(params) \in Nat /\ Len(params) <= MaxParameters
      BY DEF Typed, BoundInv
    <3>3. length \in Nat /\ length <= MaxParameters
      BY <3>2, MaxParametersAssumption
    <3>4. ASSUME NEW i \in 1..length
          PROVE  (IF i = number THEN param ELSE IF i <= Len(params) THEN params[i] ELSE Free)
                 \in Parameters \cup {Free}
      <4>1. i <= Len(params) => i \in 1..Len(params)
        BY <3>2, <3>3
      <4>2. QED
        BY <3>2, <4>1
    <3> HIDE DEF length
    <3>5. params' \in [1..length -> Parameters \cup {Free}]
      BY <3>1, <3>4 DEF length
    <3>6. params' \in Seq(Parameters \cup {Free}) /\ Len(params') = length
      BY <3>3, <3>5
    <3>7. QED
      BY <3>3, <3>6 DEF BoundInv
  <2>3. QED
    BY <2>1, <2>2
<1>3. WalkInv'
  BY <1>1 DEF Typed, WalkInv
<1>4. SignsInv'
  BY <1>1 DEF Promised, SignsInv, OwnSigns
<1>5. SentInv'
  BY <1>1 DEF Promised, SentInv
<1>6. ExpansionInv'
  BY <1>1 DEF Promised, ExpansionInv
<1>7. QED
  BY <1>2, <1>3, <1>4, <1>5, <1>6 DEF Typed, Promised

\* An execution starts at the beginning of its text, or has sent it as it is.
LEMMA ExecuteKeeps == Typed /\ Promised /\ Execute => Typed' /\ Promised'
<1> SUFFICES ASSUME Typed, Promised, Execute PROVE Typed' /\ Promised'
  OBVIOUS
<1>1. PICK text \in StatementTexts :
         /\ sql' = text
         /\ IF Substitutes(text)
            THEN running' = TRUE /\ sent' = <<>> /\ answer' = "success"
            ELSE running' = FALSE /\ sent' = <<text>> /\ answer' = "success"
  BY DEF Execute
<1>2. c' = 1 /\ buf' = <<>> /\ param_index' = 0 /\ params' = params /\ answer' = "success"
  BY <1>1 DEF Execute
<1>3. text \in Seq(Lexemes) /\ ~MinusesMeet(text) /\ Len(text) \in Nat
  BY TextsAssumption
<1>4. <<>> \in Seq(Lexemes) /\ Len(<<>>) = 0 /\ DOMAIN <<>> = {}
  OBVIOUS
<1>5. BoundInv'
  BY <1>2 DEF Typed, BoundInv
<1>6. WalkInv'
  BY <1>1, <1>2, <1>3, <1>4, MaxParametersAssumption DEF WalkInv
<1>7. SignsInv'
  <2>1. BareSigns(<<>>) = {} /\ OwnSigns' = {} /\ ~MinusesMeet(<<>>)
    BY <1>2, <1>4 DEF BareSigns, OwnSigns, MinusesMeet
  <2>2. Cardinality(BareSigns(buf')) = 0 /\ Cardinality(OwnSigns') = 0
    BY <1>2, <2>1, FS_EmptySet
  <2>3. Cardinality(BareSigns(buf')) <= Cardinality(OwnSigns')
    BY <2>2
  <2>4. QED
    BY <1>2, <2>1, <2>3 DEF SignsInv
<1>8. SentInv'
  <2>1. running' => HasBoundParams /\ sent' = <<>>
    BY <1>1 DEF Substitutes
  <2>2. HasBoundParams' = HasBoundParams
    BY <1>2 DEF HasBoundParams
  <2>3. Len(sent') <= 1
    <3>1. Len(<<text>>) = 1 /\ Len(<<>>) = 0
      OBVIOUS
    <3>2. sent' = <<text>> \/ sent' = <<>>
      BY <1>1
    <3>3. \A n : n = 1 \/ n = 0 => n <= 1
      OBVIOUS
    <3>4. QED
      BY <3>1, <3>2, <3>3, Zenon
  <2>4. QED
    BY <1>2, <2>1, <2>2, <2>3 DEF SentInv
<1>9. ExpansionInv'
  <2>1. Markers(<<>>) = {}
    BY <1>4 DEF Markers
  <2>2. Expansions(text, Literals')[0] = <<>>
    BY <1>3, ExpansionSteps
  <2>3. {j \in Markers(text) : j <= 0} = {}
    BY <1>3 DEF Markers
  <2>4. Cardinality({}) = 0
    BY FS_EmptySet
  <2>5. (c - 1)' = 0
    BY <1>2
  <2>6. QED
    BY <1>1, <1>2, <2>1, <2>2, <2>3, <2>4, <2>5 DEF ExpansionInv
<1>10. QED
  BY <1>5, <1>6, <1>7, <1>8, <1>9 DEF Typed, Promised

LEMMA FewOwnSigns == ASSUME Typed PROVE IsFiniteSet(OwnSigns) /\ Cardinality(OwnSigns) \in Nat
<1>1. c - 1 \in Int /\ OwnSigns \in SUBSET (1..(c - 1))
  BY DEF Typed, WalkInv, OwnSigns
<1>2. IsFiniteSet(1..(c - 1))
  BY <1>1, FS_Interval
<1>3. QED
  BY <1>1, <1>2, FS_Subset, FS_CardinalityType

LEMMA CopyKeeps == Typed /\ Promised /\ CopyLexeme => Typed' /\ Promised'
<1> SUFFICES ASSUME Typed, Promised, CopyLexeme PROVE Typed' /\ Promised'
  OBVIOUS
<1>1. /\ running /\ running' /\ c <= Len(sql) /\ sql[c] # "?"
      /\ buf' = Append(buf, sql[c]) /\ c' = c + 1
      /\ UNCHANGED <<params, running, sql, param_index, sent, answer>>
  BY DEF CopyLexeme
<1>2. /\ sql \in Seq(Lexemes) /\ Len(sql) \in Nat /\ ~MinusesMeet(sql) /\ c \in 1..Len(sql)
      /\ sql[c] \in Lexemes /\ buf \in Seq(Lexemes) /\ param_index \in 0..MaxParameters
  BY <1>1 DEF Typed, WalkInv
<1>3. BoundInv' /\ WalkInv'
  <2>1. Append(buf, sql[c]) \in Seq(Lexemes)
    BY <1>2
  <2>2. c' \in 1..(Len(sql) + 1)
    BY <1>1, <1>2
  <2>3. QED
    BY <1>1, <1>2, <2>1, <2>2 DEF Typed, BoundInv, WalkInv
<1>4. SignsInv'
  <2>1. sql[c] = "minus" /\ buf # <<>> => buf[Len(buf)] # "minus"
    <3> SUFFICES ASSUME sql[c] = "minus", buf # <<>>, buf[Len(buf)] = "minus" PROVE FALSE
      OBVIOUS
    <3>1. c > 1 /\ sql[c - 1] = "minus"
      BY DEF Promised, SignsInv
    <3>2. c - 1 \in 1..Len(sql) - 1 /\ (c - 1) + 1 = c
      BY <1>2, <3>1
    <3>3. QED
      BY <1>2, <3>1, <3>2 DEF MinusesMeet
  <2>2. /\ ~MinusesMeet(buf')
        /\ Cardinality(BareSigns(buf'))
           <= Cardinality(BareSigns(buf)) + (IF sql[c] = "minus" THEN 1 ELSE 0)
        /\ buf'[Len(buf')] = sql[c]
    BY <1>1, <1>2, <2>1, CopySigns DEF Promised, SignsInv
  <2>3. buf'[Len(buf')] = "minus" => c' > 1 /\ sql'[c' - 1] = "minus"
    <3>1. c' > 1 /\ c' - 1 = c
      BY <1>1, <1>2
    <3>2. QED
      BY <1>1, <2>2, <3>1
  <2>4. Cardinality(OwnSigns') = Cardinality(OwnSigns) + (IF sql[c] = "minus" THEN 1 ELSE 0)
    <3>1. c' - 1 = c /\ sql' = sql /\ c \notin 1..(c - 1) /\ 1..c = (1..(c - 1)) \cup {c}
      BY <1>1, <1>2
    <3>2. OwnSigns' = {n \in 1..c : sql[n] = "minus"}
      BY <3>1 DEF OwnSigns
    <3>3. OwnSigns' = OwnSigns \cup (IF sql[c] = "minus" THEN {c} ELSE {})
      BY <3>1, <3>2 DEF OwnSigns
    <3>4. c \notin OwnSigns
      BY <3>1 DEF OwnSigns
    <3>5. CASE sql[c] = "minus"
      BY <3>3, <3>4, <3>5, FewOwnSigns, FS_AddElement
    <3>6. CASE sql[c] # "minus"
      <4>1. OwnSigns' = OwnSigns
        BY <3>3, <3>6
      <4>2. QED
        BY <3>6, <4>1, FewOwnSigns
    <3>7. QED
      BY <3>5, <3>6
  <2>5. Cardinality(BareSigns(buf')) <= Cardinality(OwnSigns')
    <3>1. /\ Cardinality(BareSigns(buf)) \in Nat /\ Cardinality(OwnSigns) \in Nat
          /\ Cardinality(BareSigns(buf')) \in Nat
      BY <1>2, <1>3, FewSigns, FewOwnSigns DEF WalkInv
    <3>2. Cardinality(BareSigns(buf)) <= Cardinality(OwnSigns)
      BY DEF Promised, SignsInv
    <3> DEFINE few == Cardinality(BareSigns(buf))
               own == Cardinality(OwnSigns)
               more == Cardinality(BareSigns(buf'))
               owns == Cardinality(OwnSigns')
               new == IF sql[c] = "minus" THEN 1 ELSE 0
    <3>3. more <= few + new /\ owns = own + new /\ few <= own
      BY <2>2, <2>4, <3>2
    <3>4. new \in Nat
      OBVIOUS
    <3>5. few \in Nat /\ own \in Nat /\ more \in Nat
      BY <3>1
    <3> HIDE DEF few, own, more, owns, new
    <3>6. more <= owns
      BY <3>3, <3>4, <3>5
    <3>7. QED
      BY <3>6 DEF more, owns
  <2>6. QED
    BY <2>2, <2>3, <2>5 DEF SignsInv
<1>5. SentInv'
  BY <1>1 DEF Promised, SentInv, HasBoundParams
<1>6. ExpansionInv'
  <2>1. Markers(buf') = {}
    <3>1. /\ Len(buf') = Len(buf) + 1 /\ Len(buf) \in Nat /\ DOMAIN buf' = 1..Len(buf')
          /\ \A i \in 1..Len(buf) : buf'[i] = buf[i]
          /\ buf'[Len(buf) + 1] = sql[c]
      BY <1>1, <1>2
    <3>2. \A i \in 1..Len(buf) : buf[i] # "?"
      BY <1>2 DEF Promised, ExpansionInv, Markers
    <3>3. \A i \in 1..Len(buf') : i \in 1..Len(buf) \/ i = Len(buf) + 1
      BY <3>1
    <3>4. QED
      BY <1>1, <3>1, <3>2, <3>3 DEF Markers
  <2>2. c \notin Markers(sql)
    BY <1>1 DEF Markers
  <2>3. {j \in Markers(sql) : j <= c} = {j \in Markers(sql) : j <= c - 1}
    <3>1. \A j \in Markers(sql) : j \in 1..Len(sql) /\ j # c
      BY <1>2, <2>2 DEF Markers
    <3>2. \A j \in 1..Len(sql) : j # c => (j <= c <=> j <= c - 1)
      BY <1>2
    <3>3. QED
      BY <3>1, <3>2
  <2>4. Expansions(sql, Literals)[c] = Append(Expansions(sql, Literals)[c - 1], sql[c])
    BY <1>2, <2>2, ExpansionSteps
  <2>5. Literals' = Literals /\ c' - 1 = c
    BY <1>1, <1>2 DEF Literals
  <2>6. QED
    BY <1>1, <2>1, <2>3, <2>4, <2>5 DEF Promised, ExpansionInv
<1>7. QED
  BY <1>3, <1>4, <1>5, <1>6 DEF Typed, Promised

LEMMA MarkerKeeps == Typed /\ Promised /\ SubstituteMarker => Typed' /\ Promised'
<1> SUFFICES ASSUME Typed, Promised, SubstituteMarker PROVE Typed' /\ Promised'
  OBVIOUS
<1> DEFINE splice == NextLiteral.lexemes
<1>1. /\ running /\ running' /\ c <= Len(sql) /\ sql[c] = "?" /\ NextLiteral.code = "success"
      /\ buf' = buf \o splice /\ c' = c + 1 /\ param_index' = param_index + 1
      /\ UNCHANGED <<params, running, sql, sent, answer>>
  BY DEF SubstituteMarker
<1>2. /\ sql \in Seq(Lexemes) /\ Len(sql) \in Nat /\ ~MinusesMeet(sql) /\ c \in 1..Len(sql)
      /\ buf \in Seq(Lexemes) /\ param_index \in 0..MaxParameters
  BY <1>1 DEF Typed, WalkInv
<1>3. splice \in Splices /\ param_index + 1 \in DOMAIN params /\ splice = Literals[param_index + 1]
  BY <1>1, NextLiteralShape DEF RenderedOrRefused
<1> HIDE DEF splice
<1>4. /\ splice \in Seq(Lexemes) /\ Len(splice) \in Nat
      /\ \A i \in 1..Len(splice) : splice[i] # "?"
  BY <1>3, SpliceShape
<1>5. BoundInv' /\ WalkInv'
  <2>1. buf \o splice \in Seq(Lexemes)
    BY <1>2, <1>4
  <2>2. c' \in 1..(Len(sql) + 1)
    BY <1>1, <1>2
  <2>3. param_index' \in 0..MaxParameters
    <3>1. DOMAIN params = 1..Len(params) /\ Len(params) \in Nat /\ Len(params) <= MaxParameters
      BY DEF Typed, BoundInv
    <3>2. param_index + 1 \in 1..Len(params)
      BY <1>3, <3>1
    <3>3. QED
      BY <1>1, <1>2, <3>1, <3>2, MaxParametersAssumption
  <2>4. QED
    BY <1>1, <1>2, <2>1, <2>2, <2>3 DEF Typed, BoundInv, WalkInv
<1>6. SignsInv'
  <2>1. /\ ~MinusesMeet(buf')
        /\ Cardinality(BareSigns(buf')) <= Cardinality(BareSigns(buf))
        /\ buf'[Len(buf')] # "minus"
    BY <1>1, <1>2, <1>3, SpliceSigns DEF Promised, SignsInv
  <2>2. OwnSigns' = OwnSigns
    <3>1. c' - 1 = c /\ sql' = sql /\ 1..c = (1..(c - 1)) \cup {c}
      BY <1>1, <1>2
    <3>2. OwnSigns' = {n \in 1..c : sql[n] = "minus"}
      BY <3>1 DEF OwnSigns
    <3>3. QED
      BY <1>1, <3>1, <3>2 DEF OwnSigns
  <2>3. Cardinality(BareSigns(buf')) <= Cardinality(OwnSigns')
    <3>1. /\ Cardinality(BareSigns(buf)) \in Nat /\ Cardinality(OwnSigns) \in Nat
          /\ Cardinality(BareSigns(buf')) \in Nat
      BY <1>2, <1>5, FewSigns, FewOwnSigns DEF WalkInv
    <3>2. Cardinality(BareSigns(buf)) <= Cardinality(OwnSigns)
      BY DEF Promised, SignsInv
    <3>3. QED
      BY <2>1, <2>2, <3>1, <3>2
  <2>4. QED
    BY <2>1, <2>3 DEF SignsInv
<1>7. SentInv'
  BY <1>1 DEF Promised, SentInv, HasBoundParams
<1>8. ExpansionInv'
  <2>1. Markers(buf') = {}
    <3>1. /\ Len(buf') = Len(buf) + Len(splice) /\ Len(buf) \in Nat /\ DOMAIN buf' = 1..Len(buf')
          /\ \A i \in 1..Len(buf) : buf'[i] = buf[i]
          /\ \A i \in 1..Len(splice) : buf'[Len(buf) + i] = splice[i]
      BY <1>1, <1>2, <1>4
    <3>2. \A i \in 1..Len(buf) : buf[i] # "?"
      BY <1>2 DEF Promised, ExpansionInv, Markers
    <3>3. ASSUME NEW i \in 1..Len(buf') PROVE buf'[i] # "?"
      <4>1. CASE i <= Len(buf)
        BY <3>1, <3>2, <4>1
      <4>2. CASE ~(i <= Len(buf))
        <5>1. i - Len(buf) \in 1..Len(splice) /\ Len(buf) + (i - Len(buf)) = i
          BY <1>4, <3>1, <4>2
        <5>2. buf'[i] = splice[i - Len(buf)]
          BY <3>1, <5>1
        <5>3. QED
          BY <1>4, <5>1, <5>2
      <4>3. QED
        BY <4>1, <4>2
    <3>4. QED
      BY <3>1, <3>3 DEF Markers
  <2>2. c \in Markers(sql) /\ Markers(sql) \subseteq 1..Len(sql)
    BY <1>1, <1>2 DEF Markers
  <2>3. Ordinal(sql, c) = param_index + 1
    <3> DEFINE before == {j \in Markers(sql) : j <= c - 1}
    <3>1. \A j \in 1..Len(sql) : j <= c <=> j <= c - 1 \/ j = c
      BY <1>2
    <3>2. {j \in Markers(sql) : j <= c} = before \cup {c}
      BY <2>2, <3>1
    <3>3. c \notin before
      BY <1>2
    <3>4. IsFiniteSet(before)
      <4>1. IsFiniteSet(1..Len(sql))
        BY <1>2, FS_Interval
      <4>2. before \in SUBSET (1..Len(sql))
        BY <2>2
      <4>3. QED
        BY <4>1, <4>2, FS_Subset
    <3>5. Cardinality(before \cup {c}) = Cardinality(before) + 1
      BY <3>3, <3>4, FS_AddElement
    <3>6. param_index = Cardinality(before)
      BY <1>1 DEF Promised, ExpansionInv
    <3>7. QED
      BY <3>2, <3>5, <3>6 DEF Ordinal
  <2>4. Expansions(sql, Literals)[c]
        = Expansions(sql, Literals)[c - 1] \o Literals[Ordinal(sql, c)]
    BY <1>2, <2>2, ExpansionSteps
  <2>5. Literals' = Literals /\ c' - 1 = c
    BY <1>1, <1>2 DEF Literals
  <2>6. buf = Expansions(sql, Literals)[c - 1]
    BY <1>1 DEF Promised, ExpansionInv
  <2>7. buf' = Expansions(sql, Literals)[c]
    BY <1>1, <1>3, <2>3, <2>4, <2>6
  <2>8. param_index' = Cardinality({j \in Markers(sql) : j <= c})
    BY <1>1, <2>3 DEF Ordinal
  <2>9. QED
    BY <1>1, <2>1, <2>5, <2>7, <2>8 DEF ExpansionInv
<1>9. QED
  BY <1>5, <1>6, <1>7, <1>8 DEF Typed, Promised

\* The walk ends: in a failure, with nothing sent, or at the end of its text.
LEMMA EndKeeps ==
    Typed /\ Promised /\ (SubstitutionFails \/ SendSubstituted) => Typed' /\ Promised'
<1> SUFFICES ASSUME Typed, Promised, SubstitutionFails \/ SendSubstituted
             PROVE  Typed' /\ Promised'
  OBVIOUS
<1>1. running /\ ~running' /\ UNCHANGED <<params, sql, c, buf, param_index>>
  BY DEF SubstitutionFails, SendSubstituted, walk
<1>2. BoundInv' /\ WalkInv'
  BY <1>1 DEF Typed, BoundInv, WalkInv
<1>3. SignsInv'
  BY <1>1 DEF Promised, SignsInv, OwnSigns
<1>4. SentInv'
  <2>1. CASE SubstitutionFails
    <3>1. NextLiteral.code \in Codes
      BY <2>1, NextLiteralShape DEF SubstitutionFails, RenderedOrRefused
    <3>2. answer' \in Codes /\ sent' = sent
      BY <2>1, <3>1 DEF SubstitutionFails
    <3>3. QED
      BY <1>1, <3>2 DEF Promised, SentInv
  <2>2. CASE SendSubstituted
    <3>1. sent' = <<buf>> /\ answer' = answer /\ answer = "success"
      BY <1>1, <2>2 DEF SendSubstituted, Promised, SentInv
    <3>2. Len(<<buf>>) = 1
      OBVIOUS
    <3>3. Len(sent') <= 1
      BY <3>1, <3>2
    <3>4. QED
      BY <1>1, <3>1, <3>3 DEF SentInv
  <2>3. QED
    BY <2>1, <2>2
<1>5. ExpansionInv'
  BY <1>1 DEF Promised, ExpansionInv
<1>6. QED
  BY <1>2, <1>3, <1>4, <1>5 DEF Typed, Promised

LEMMA ParametersStep == Typed /\ Promised /\ [Next]_vars => Typed' /\ Promised'
<1>1. Typed /\ Promised /\ UNCHANGED vars => Typed' /\ Promised'
  <2> SUFFICES ASSUME Typed, Promised, UNCHANGED vars PROVE Typed' /\ Promised'
    OBVIOUS
  <2>1. UNCHANGED <<params, running, sql, c, buf, param_index, sent, answer>>
    BY DEF vars, walk
  <2>2. Typed'
    BY <2>1 DEF Typed, BoundInv, WalkInv
  <2>3. SignsInv' /\ SentInv'
    BY <2>1 DEF Promised, SignsInv, OwnSigns, SentInv, HasBoundParams
  <2>4. ExpansionInv'
    BY <2>1 DEF Promised, ExpansionInv, Literals
  <2>5. QED
    BY <2>2, <2>3, <2>4 DEF Promised
<1>2. QED
  BY <1>1, BindKeeps, ExecuteKeeps, CopyKeeps, MarkerKeeps, EndKeeps DEF Next

LEMMA ParametersHold == Spec => [](Typed /\ Promised)
BY ParametersInit, ParametersStep, PTL DEF Spec

------------------------------------------------------------------------------
\* The theorems

\* Every variable keeps its type and the walk stays in its text, for texts and
\* parameters of any number (substitute_params, execute.c:383-416).
THEOREM ParametersTypeCorrect == Spec => []ParametersTypeOK
<1>1. Init => running \in BOOLEAN
  BY DEF Init
<1>2. running \in BOOLEAN /\ [Next]_vars => (running \in BOOLEAN)'
  <2> SUFFICES ASSUME running \in BOOLEAN, [Next]_vars PROVE running' \in BOOLEAN
    OBVIOUS
  <2>1. CASE UNCHANGED running
    BY <2>1
  <2>2. CASE Execute
    BY <2>2 DEF Execute
  <2>3. CASE SubstitutionFails \/ SendSubstituted
    BY <2>3 DEF SubstitutionFails, SendSubstituted
  <2>4. QED
    BY <2>1, <2>2, <2>3
       DEF Next, vars, SQLBindParameter, ResetParams, CopyLexeme, SubstituteMarker
<1>3. Typed /\ Promised /\ running \in BOOLEAN => ParametersTypeOK
  <2> SUFFICES ASSUME Typed, Promised, running \in BOOLEAN PROVE ParametersTypeOK
    OBVIOUS
  <2>1. answer \in {"success", "07002", "22018", "HY090", "HYC00"} /\ Len(sent) <= 1
    BY DEF Promised, SentInv, Codes
  <2>2. QED
    BY <2>1 DEF ParametersTypeOK, Typed, BoundInv, WalkInv
<1>4. QED
  BY ParametersHold, <1>1, <1>2, <1>3, PTL DEF Spec

\* An execution that fails for a parameter has sent nothing, and one that goes
\* out with parameters leaves no marker to the engine: it is all or nothing
\* wherever in the text the marker is that cannot be filled.
THEOREM AllOrNothingSent == Spec => []NothingSentInPart
<1>1. Typed /\ Promised => NothingSentInPart
  <2> SUFFICES ASSUME Typed, Promised PROVE NothingSentInPart
    OBVIOUS
  <2>1. answer # "success" => sent = <<>>
    BY DEF Promised, SentInv
  <2>2. ASSUME sent # <<>>, param_index > 0 PROVE Markers(sent[1]) = {}
    <3>1. sent = <<buf>>
      BY <2>2 DEF Promised, SentInv
    <3>2. QED
      BY <3>1 DEF Promised, ExpansionInv
  <2>3. QED
    BY <2>1, <2>2 DEF NothingSentInPart
<1>2. QED
  BY ParametersHold, <1>1, PTL

\* A negative parameter never makes a comment of the text's minus before it and
\* stays one operand, in every text (append_number, execute.c:201-204).
THEOREM SignsStayEnclosed == Spec => []SignEnclosed
<1>1. Promised => SignEnclosed
  BY DEF Promised, SignsInv, SignEnclosed, OwnSigns
<1>2. QED
  BY ParametersHold, <1>1, PTL

\* What goes out is the text with its n-th marker replaced by the n-th parameter
\* and all else as it was written, however long the text is and whatever is
\* quoted or commented in it (substitute_params, execute.c:383-416).
THEOREM ExpansionSent == Spec => SentIsExpansion
<1>1. Typed /\ Promised /\ [Next]_vars
      => [ running /\ sent' # <<>> => sent'[1] = Expansions(sql, Literals)[Len(sql)] ]_vars
  <2> SUFFICES ASSUME Typed, Promised, Next, running, sent' # <<>>
               PROVE  sent'[1] = Expansions(sql, Literals)[Len(sql)]
    BY DEF vars
  <2>1. sent = <<>>
    BY DEF Promised, SentInv
  <2>2. SendSubstituted
    BY <2>1 DEF Next, SQLBindParameter, ResetParams, Execute, CopyLexeme, SubstituteMarker,
                SubstitutionFails
  <2>3. sent'[1] = buf /\ c > Len(sql)
    BY <2>2 DEF SendSubstituted
  <2>4. c - 1 = Len(sql)
    <3>1. c \in 1..(Len(sql) + 1) /\ Len(sql) \in Nat
      BY DEF Typed, WalkInv
    <3>2. QED
      BY <2>3, <3>1
  <2>5. buf = Expansions(sql, Literals)[c - 1]
    BY DEF Promised, ExpansionInv
  <2>6. QED
    BY <2>3, <2>4, <2>5
<1>2. QED
  BY ParametersHold, <1>1, PTL DEF Spec, SentIsExpansion

\* README "Parameters": a text executed with nothing bound is sent as written,
\* its question marks included.
THEOREM TextSentAsWritten == Spec => SentAsWritten
<1>1. Typed /\ Promised /\ [Next]_vars
      => [ ~HasBoundParams /\ sent' # sent => sent' = <<sql'>> ]_vars
  <2> SUFFICES ASSUME Typed, Promised, Next, ~HasBoundParams, sent' # sent
               PROVE  sent' = <<sql'>>
    BY DEF vars
  <2>1. ~running
    BY DEF Promised, SentInv
  <2>2. Execute
    BY <2>1 DEF Next, SQLBindParameter, ResetParams, CopyLexeme, SubstituteMarker,
                SubstitutionFails, SendSubstituted
  <2>3. QED
    BY <2>2 DEF Execute, Substitutes
<1>2. QED
  BY ParametersHold, <1>1, PTL DEF Spec, SentAsWritten
=============================================================================
