------------------------------ MODULE NoteProofs -------------------------------
(***************************************************************************)
(* The notes session.c takes, proved for plain requests of any number of   *)
(* statements: walking a text and noting its statements one after another  *)
(* leaves the flags that SessionProtocol takes in one step, and they are   *)
(* what the engine's session is.                                           *)
(***************************************************************************)
EXTENDS SessionNote, FiniteSetTheorems, WellFoundedInduction, TLAPS

------------------------------------------------------------------------------
\* The closed forms, one statement further

Upto(sql, n) == SubSeq(sql, 1, n)

LEMMA UptoShape ==
    ASSUME NEW sql \in Seq(AppKinds), NEW n \in 0..Len(sql)
    PROVE  /\ Upto(sql, n) \in Seq(AppKinds)
           /\ DOMAIN Upto(sql, n) = 1..n
           /\ \A i \in 1..n : Upto(sql, n)[i] = sql[i]
BY DEF Upto

LEMMA UptoAll == ASSUME NEW sql \in Seq(AppKinds) PROVE Upto(sql, Len(sql)) = sql
BY DEF Upto

LEMMA NothingNoted ==
    ASSUME NEW sql \in Seq(AppKinds), NEW auto \in BOOLEAN, NEW was1 \in BOOLEAN
    PROVE  /\ NotedDirty(Upto(sql, 0), was1) <=> was1
           /\ NotedTransaction(Upto(sql, 0), auto, was1) <=> was1
           /\ NotedDirty(<<>>, was1) <=> was1
           /\ NotedTransaction(<<>>, auto, was1) <=> was1
<1>1. DOMAIN Upto(sql, 0) = {} /\ DOMAIN <<>> = {}
  <2>1. 1..0 = {} /\ 0 \in 0..Len(sql)
    OBVIOUS
  <2>2. DOMAIN Upto(sql, 0) = 1..0
    BY <2>1, UptoShape
  <2>3. QED
    BY <2>1, <2>2
<1>2. QED
  BY <1>1 DEF NotedDirty, NotedTransaction, Deciding

LEMMA NotedNextDirty ==
    ASSUME NEW sql \in Seq(AppKinds), NEW n \in 0..Len(sql), n < Len(sql), NEW was1 \in BOOLEAN
    PROVE  NotedDirty(Upto(sql, n + 1), was1)
           <=> NotedDirty(Upto(sql, n), was1) \/ TouchesSession(sql[n + 1])
<1>1. /\ DOMAIN Upto(sql, n) = 1..n /\ \A i \in 1..n : Upto(sql, n)[i] = sql[i]
      /\ DOMAIN Upto(sql, n + 1) = 1..(n + 1) /\ \A i \in 1..(n + 1) : Upto(sql, n + 1)[i] = sql[i]
  <2>1. n + 1 \in 0..Len(sql)
    OBVIOUS
  <2>2. QED
    BY <2>1, UptoShape
<1>2. 1..(n + 1) = 1..n \cup {n + 1}
  OBVIOUS
<1>3. QED
  BY <1>1, <1>2 DEF NotedDirty

\* The statement noted last has the say, if it decides at all.
LEMMA NotedNextTransaction ==
    ASSUME NEW sql \in Seq(AppKinds), NEW n \in 0..Len(sql), n < Len(sql),
           NEW auto \in BOOLEAN, NEW was1 \in BOOLEAN
    PROVE  LET effect == TransactionEffect(sql[n + 1])
           IN  NotedTransaction(Upto(sql, n + 1), auto, was1)
               <=> \/ effect = 1
                   \/ effect # -1 /\ (NotedTransaction(Upto(sql, n), auto, was1) \/ ~auto)
<1> DEFINE effect == TransactionEffect(sql[n + 1])
           before == Deciding(Upto(sql, n), auto)
           now == Deciding(Upto(sql, n + 1), auto)
<1>1. /\ DOMAIN Upto(sql, n) = 1..n /\ \A i \in 1..n : Upto(sql, n)[i] = sql[i]
      /\ DOMAIN Upto(sql, n + 1) = 1..(n + 1) /\ \A i \in 1..(n + 1) : Upto(sql, n + 1)[i] = sql[i]
  <2>1. n + 1 \in 0..Len(sql)
    OBVIOUS
  <2>2. QED
    BY <2>1, UptoShape
<1>2. 1..(n + 1) = 1..n \cup {n + 1} /\ n + 1 \notin 1..n
  OBVIOUS
<1>3. effect \in {-1, 0, 1}
  BY DEF TransactionEffect
<1>4. now = before \cup {i \in {n + 1} : effect # 0 \/ ~auto}
  BY <1>1, <1>2 DEF Deciding
<1>5. before \subseteq 1..n
  BY <1>1 DEF Deciding
<1>6. CASE effect # 0 \/ ~auto
  <2>1. n + 1 \in now /\ now \subseteq 1..(n + 1)
    BY <1>2, <1>4, <1>5, <1>6
  <2>2. \A i \in 1..(n + 1) : IsLast(i, now) <=> i = n + 1
    BY <2>1 DEF IsLast
  <2>3. NotedTransaction(Upto(sql, n + 1), auto, was1) <=> effect >= 0
    BY <1>1, <2>1, <2>2 DEF NotedTransaction
  <2>4. QED
    BY <1>3, <1>6, <2>3
<1>7. CASE ~(effect # 0 \/ ~auto)
  <2>1. now = before
    BY <1>4, <1>7
  <2>2. \A i \in 1..(n + 1) : IsLast(i, now) => i \in 1..n
    BY <2>1, <1>5 DEF IsLast
  <2>3. NotedTransaction(Upto(sql, n + 1), auto, was1)
        <=> NotedTransaction(Upto(sql, n), auto, was1)
    <3>1. \A i \in 1..n : Upto(sql, n + 1)[i] = Upto(sql, n)[i]
      BY <1>1, <1>2
    <3>2. (\E i \in 1..(n + 1) : IsLast(i, now) /\ TransactionEffect(Upto(sql, n + 1)[i]) >= 0)
          <=> (\E i \in 1..n : IsLast(i, before) /\ TransactionEffect(Upto(sql, n)[i]) >= 0)
      BY <2>1, <2>2, <3>1, <1>2
    <3>3. QED
      BY <1>1, <2>1, <3>2 DEF NotedTransaction
  <2>4. QED
    BY <1>7, <2>3
<1>8. QED
  BY <1>6, <1>7

\* Some places of a sequence have a last one.
LEMMA LastOf ==
    ASSUME NEW n \in Nat, NEW S \in SUBSET (1..n), S # {}
    PROVE  \E i \in S : IsLast(i, S)
<1> DEFINE R == OpToRel(<, Nat)
           left == {n - i : i \in S}
<1>1. R = {ss \in Nat \X Nat : ss[1] < ss[2]}
  BY DEF OpToRel
<1>2. IsWellFoundedOn(R, Nat)
  BY NatLessThanWellFounded
<1>3. left \subseteq Nat /\ left # {}
  <2>1. \A i \in 1..n : n - i \in Nat
    OBVIOUS
  <2>2. QED
    BY <2>1
<1> HIDE DEF R
<1>4. PICK least \in left : \A y \in left : ~(<<y, least>> \in R)
  BY <1>2, <1>3, WFMin
<1>5. \A y \in left : ~(y < least)
  <2>1. \A y \in left : <<y, least>> \in Nat \X Nat
    BY <1>3, <1>4
  <2>2. QED
    BY <1>1, <1>4, <2>1
<1>6. PICK i \in S : least = n - i
  BY <1>4
<1>7. \A j \in S : ~(n - j < n - i)
  BY <1>5, <1>6
<1>8. \A j \in S : j <= i
  <2>1. \A j \in 1..n : ~(n - j < n - i) => j <= i
    BY <1>6
  <2>2. QED
    BY <1>7, <2>1
<1>9. QED
  BY <1>6, <1>8 DEF IsLast

\* What is uncommitted on the engine's session is noted, whatever was before.
LEMMA UncommittedIsNoted ==
    ASSUME NEW sql \in Seq(AppKinds), NEW auto \in BOOLEAN, NEW was1 \in BOOLEAN,
           NEW there \in BOOLEAN, there => was1, Uncommitted(sql, auto, there)
    PROVE  NotedTransaction(sql, auto, was1)
<1> DEFINE deciding == Deciding(sql, auto)
<1>1. DOMAIN sql = 1..Len(sql) /\ Len(sql) \in Nat /\ \A i \in DOMAIN sql : sql[i] \in AppKinds
  OBVIOUS
<1>2. \A i \in DOMAIN sql : /\ sql[i] # "end" => TransactionEffect(sql[i]) >= 0
                            /\ sql[i] \in {"begin", "end"} <=> TransactionEffect(sql[i]) # 0
  BY <1>1 DEF AppKinds, TransactionEffect
<1>3. CASE deciding = {}
  <2>1. Committing(sql, auto) = {}
    BY <1>2, <1>3 DEF Deciding, Committing
  <2>2. there
    BY <2>1 DEF Uncommitted, IsLast
  <2>3. QED
    BY <1>3, <2>2 DEF NotedTransaction
<1>4. CASE deciding # {}
  <2>1. deciding \in SUBSET (1..Len(sql))
    BY <1>1 DEF Deciding
  <2>2. PICK last \in deciding : IsLast(last, deciding)
    BY <1>1, <1>4, <2>1, LastOf
  <2>3. last \in DOMAIN sql
    BY DEF Deciding
  <2>4. sql[last] # "end"
    <3> SUFFICES ASSUME sql[last] = "end" PROVE FALSE
      OBVIOUS
    <3>1. last \in Committing(sql, auto)
      BY <2>3 DEF Committing
    <3>2. PICK i \in DOMAIN sql : IsLast(i, Committing(sql, auto)) /\ sql[i] # "end"
      BY <3>1 DEF Uncommitted
    <3>3. i \in deciding
      BY <1>2, <3>2 DEF IsLast, Committing, Deciding
    <3>4. last <= i /\ i <= last
      BY <2>2, <3>1, <3>2, <3>3 DEF IsLast
    <3>5. i = last
      BY <1>1, <2>3, <3>2, <3>4
    <3>6. QED
      BY <3>2, <3>5
  <2>5. QED
    BY <1>2, <2>2, <2>3, <2>4 DEF NotedTransaction
<1>5. QED
  BY <1>3, <1>4

------------------------------------------------------------------------------
\* The statements of a text

\* How many statements with words begin before a place.
Earlier(lexemes, place) == {b \in Worded(lexemes) : b < place}

LEMMA WordedFinite ==
    ASSUME NEW lexemes \in Seq(Lexemes), NEW place \in Nat
    PROVE  /\ IsFiniteSet(Worded(lexemes)) /\ IsFiniteSet(Earlier(lexemes, place))
           /\ Worded(lexemes) \subseteq 1..Len(lexemes) + 1
           /\ Cardinality(Earlier(lexemes, place)) \in Nat
           /\ Cardinality(Worded(lexemes)) \in Nat
           /\ Cardinality(Earlier(lexemes, place)) <= Cardinality(Worded(lexemes))
<1>1. Worded(lexemes) \subseteq 1..Len(lexemes) + 1 /\ Earlier(lexemes, place) \subseteq Worded(lexemes)
  BY DEF Worded, Earlier
<1>2. IsFiniteSet(1..Len(lexemes) + 1)
  BY FS_Interval
<1>3. IsFiniteSet(Worded(lexemes))
  BY <1>1, <1>2, FS_Subset
<1>4. IsFiniteSet(Earlier(lexemes, place)) /\ Cardinality(Earlier(lexemes, place)) <= Cardinality(Worded(lexemes))
  BY <1>1, <1>3, FS_Subset
<1>5. QED
  BY <1>1, <1>3, <1>4, FS_CardinalityType

\* The statement that begins at a place ends at the next semicolon only.
LEMMA OneEnd ==
    ASSUME NEW lexemes \in Seq(Lexemes), NEW from \in Nat \ {0}, NEW to \in 1..Len(lexemes) + 1,
           StatementAt(lexemes, from, to)
    PROVE  /\ \A other \in 1..Len(lexemes) + 1 : StatementAt(lexemes, from, other) => other = to
           /\ \A later \in Worded(lexemes) : ~(from < later /\ later <= to)
<1>0. Len(lexemes) \in Nat /\ from \in Nat /\ to \in Nat /\ from <= to
  <2>1. from <= to
    BY DEF StatementAt
  <2>2. Len(lexemes) \in Nat
    OBVIOUS
  <2>3. QED
    BY <2>1, <2>2
<1>1. ASSUME NEW other \in 1..Len(lexemes) + 1, StatementAt(lexemes, from, other), other # to
      PROVE  FALSE
  <2>1. CASE other < to
    <3>0. from <= other
      BY <1>1 DEF StatementAt
    <3>1. other \in from..to - 1 /\ other # Len(lexemes) + 1
      BY <1>0, <2>1, <3>0
    <3>2. lexemes[other] = ";"
      BY <1>1, <3>1 DEF StatementAt
    <3>3. lexemes[other] # ";"
      BY <3>1 DEF StatementAt
    <3>4. QED
      BY <3>2, <3>3
  <2>2. CASE to < other
    <3>1. to \in from..other - 1 /\ to # Len(lexemes) + 1
      BY <1>0, <2>2
    <3>2. lexemes[to] = ";"
      BY <3>1 DEF StatementAt
    <3>3. lexemes[to] # ";"
      BY <1>1, <3>1 DEF StatementAt
    <3>4. QED
      BY <3>2, <3>3
  <2>3. QED
    BY <1>1, <2>1, <2>2
<1>2. ASSUME NEW later \in Worded(lexemes), from < later, later <= to
      PROVE  FALSE
  <2>1. later \in 1..Len(lexemes) + 1
    BY DEF Worded
  <2>2. later - 1 \in from..to - 1 /\ later # 1
    BY <1>0, <1>2, <2>1
  <2>3. lexemes[later - 1] = ";"
    BY <2>2 DEF Worded, StatementAt
  <2>4. lexemes[later - 1] # ";"
    BY <2>2 DEF StatementAt
  <2>5. QED
    BY <2>3, <2>4
<1>3. QED
  BY <1>1, <1>2

\* Behind a statement one more has been read if it had words, and it is the
\* one that the request does next.
LEMMA OneMore ==
    ASSUME NEW request \in Requests, PlainlyWritten(request),
           NEW from \in Nat \ {0}, NEW to \in 1..Len(request.text) + 1,
           StatementAt(request.text, from, to), from \in 1..Len(request.text) + 1
    PROVE  LET words == WordsAt(request.text, from, to)
               n == Cardinality(Earlier(request.text, from))
               m == Cardinality(Earlier(request.text, to + 1))
           IN  /\ n \in 0..Len(request.does)
               /\ words = <<>> => m = n
               /\ words # <<>> => /\ m = n + 1
                                  /\ n < Len(request.does)
                                  /\ ReadsAs(words, request.does[n + 1])
<1> DEFINE lexemes == request.text
           words == WordsAt(lexemes, from, to)
           before == Earlier(lexemes, from)
           behind == Earlier(lexemes, to + 1)
<1>1. lexemes \in Seq(Lexemes) /\ request.does \in Seq(AppKinds)
  BY NotedRequestsAssumption
<1>2. from <= to
  BY DEF StatementAt
<1>3. from \in Worded(lexemes) <=> words # <<>>
  <2>1. to \in from..Len(lexemes) + 1
    BY <1>1, <1>2
  <2>2. \A other \in from..Len(lexemes) + 1 : StatementAt(lexemes, from, other) => other = to
    BY <1>1, OneEnd
  <2>3. QED
    BY <2>1, <2>2 DEF Worded
<1>4. behind = before \cup {b \in {from} : words # <<>>}
  <2>1. \A b \in Worded(lexemes) : b \in Nat
    BY <1>1, WordedFinite
  <2>2. \A b \in Worded(lexemes) : b < to + 1 <=> b < from \/ b = from
    <3>1. \A b \in Worded(lexemes) : ~(from < b /\ b <= to)
      BY <1>1, OneEnd
    <3>2. QED
      BY <1>2, <2>1, <3>1
  <2>3. QED
    BY <1>3, <2>2 DEF Earlier
<1>5. /\ IsFiniteSet(before) /\ Cardinality(before) \in Nat
      /\ Cardinality(before) <= Cardinality(Worded(lexemes))
      /\ Len(request.does) = Cardinality(Worded(lexemes))
      /\ Cardinality(behind) <= Cardinality(Worded(lexemes))
  BY <1>1, WordedFinite DEF PlainlyWritten
<1>6. words = <<>> => behind = before
  BY <1>4
<1>7. ASSUME words # <<>>
      PROVE  /\ Cardinality(behind) = Cardinality(before) + 1
             /\ Cardinality(before) < Len(request.does)
             /\ ReadsAs(words, request.does[Cardinality(before) + 1])
  <2>1. behind = before \cup {from} /\ from \notin before
    BY <1>4, <1>7 DEF Earlier
  <2>2. Cardinality(behind) = Cardinality(before) + 1
    BY <1>5, <2>1, FS_AddElement
  <2>3. {b \in Worded(lexemes) : b <= from} = behind
    <3>1. \A b \in Worded(lexemes) : b \in Nat
      BY <1>1, WordedFinite
    <3>2. \A b \in Worded(lexemes) : b <= from <=> b < from \/ b = from
      BY <3>1
    <3>3. QED
      BY <2>1, <1>3, <1>7, <3>2 DEF Earlier
  <2>4. ReadsAs(words, request.does[Cardinality({b \in Worded(lexemes) : b <= from})])
    <3>1. from \in Worded(lexemes) /\ to \in from..Len(lexemes) + 1
      BY <1>2, <1>3, <1>7
    <3>2. QED
      BY <3>1 DEF PlainlyWritten
  <2> HIDE DEF behind, before, words, lexemes
  <2>5. ReadsAs(words, request.does[Cardinality(before) + 1])
    BY <2>2, <2>3, <2>4
  <2>6. Cardinality(before) < Len(request.does)
    BY <1>5, <2>2
  <2>7. QED
    BY <2>2, <2>5, <2>6
<1>8. QED
  BY <1>5, <1>6, <1>7

------------------------------------------------------------------------------
\* The inductive invariant

\* The walk stands within the statement that began at `start`.
WalkInv ==
    /\ start = 1 \/ text[start - 1] = ";"
    /\ \A i \in start..c - 1 : text[i] # ";"

\* What is walked over is a request's text.
TextInv == \E request \in Requests : text = request.text /\ does = request.does

\* What the request does, as far as it has been noted.
Done == IF noting THEN Upto(does, Cardinality(Earlier(text, start))) ELSE does

Noted ==
    /\ session_dirty <=> NotedDirty(Done, was[1])
    /\ in_transaction <=> NotedTransaction(Done, autocommit, was[2])

\* What the flags come to when all is noted is what the engine's session is.
Truthful ==
    /\ moved <=> NotedDirty(does, was[1])
    /\ open => NotedTransaction(does, autocommit, was[2])

NoteInv ==
    /\ NoteTypeOK
    /\ noting => WalkInv /\ TextInv
    /\ Noted /\ Truthful

Plain == \A request \in Requests : PlainlyWritten(request)

\* The flags when nothing has been done since they were last recorded.
LEMMA NothingDone ==
    ASSUME NEW was1 \in BOOLEAN, NEW auto \in BOOLEAN
    PROVE  /\ NotedDirty(<<>>, was1) <=> was1
           /\ NotedTransaction(<<>>, auto, was1) <=> was1
<1>1. <<>> \in Seq(AppKinds)
  OBVIOUS
<1>2. QED
  BY <1>1, NothingNoted

LEMMA NoteInit == Init => NoteInv
<1> SUFFICES ASSUME Init PROVE NoteInv
  OBVIOUS
<1>1. NoteTypeOK
  <2>1. <<>> \in Seq(Lexemes) /\ <<>> \in Seq(AppKinds) /\ 1 \in 1..1 /\ 1 \in 1..(Len(<<>>) + 1)
    OBVIOUS
  <2>2. was \in BOOLEAN \X BOOLEAN
    BY DEF Init
  <2>3. QED
    BY <2>1, <2>2 DEF Init, NoteTypeOK
<1>2. <<>> \in Seq(AppKinds) /\ was = <<FALSE, FALSE>> /\ does = <<>> /\ Done = <<>> /\ ~noting
  BY DEF Init, Done
<1>3. /\ ~NotedDirty(<<>>, was[1])
      /\ ~NotedTransaction(<<>>, autocommit, was[2])
  <2>1. was[1] = FALSE /\ was[2] = FALSE
    BY <1>2
  <2>2. TRUE \in BOOLEAN /\ FALSE \in BOOLEAN /\ autocommit = TRUE
    BY DEF Init
  <2>3. QED
    BY <2>1, <2>2, NothingDone
<1>4. QED
  BY <1>1, <1>2, <1>3 DEF Init, NoteInv, Noted, Truthful

LEMMA ExecuteStep == NoteInv /\ Execute => NoteInv'
<1> SUFFICES ASSUME NoteInv, Execute PROVE NoteInv'
  OBVIOUS
<1>1. PICK request \in Requests :
        /\ text' = request.text /\ does' = request.does
        /\ moved' = (moved \/ Has(request.does, "use"))
        /\ open' = Uncommitted(request.does, autocommit, open)
  BY DEF Execute
<1>2. /\ ~noting /\ start' = 1 /\ c' = 1 /\ noting' = TRUE /\ was' = <<session_dirty, in_transaction>>
      /\ session_dirty' = session_dirty /\ in_transaction' = in_transaction /\ autocommit' = autocommit
  BY DEF Execute, flags
<1>3. request.text \in Seq(Lexemes) /\ request.does \in Seq(AppKinds)
  BY NotedRequestsAssumption
<1>4. /\ session_dirty \in BOOLEAN /\ in_transaction \in BOOLEAN /\ autocommit \in BOOLEAN
      /\ moved \in BOOLEAN /\ open \in BOOLEAN
  BY DEF NoteInv, NoteTypeOK
<1>5. NoteTypeOK'
  <2>1. moved' \in BOOLEAN /\ open' \in BOOLEAN
    BY <1>1, <1>4 DEF Has, Uncommitted
  <2>2. start' \in 1..c' /\ c' \in 1..(Len(text') + 1)
    BY <1>1, <1>2, <1>3
  <2>3. was' \in BOOLEAN \X BOOLEAN
    BY <1>2, <1>4
  <2>4. QED
    BY <1>1, <1>2, <1>3, <1>4, <2>1, <2>2, <2>3 DEF NoteTypeOK
<1>6. WalkInv' /\ TextInv'
  BY <1>1, <1>2 DEF WalkInv, TextInv
<1>7. Noted'
  <2>1. Earlier(text', start') = {}
    <3>1. \A b \in Worded(text') : b \in Nat /\ b >= 1
      BY <1>1, <1>3, WordedFinite
    <3>2. QED
      BY <1>2, <3>1 DEF Earlier
  <2>2. Done' = Upto(does', 0)
    BY <1>2, <2>1, FS_EmptySet DEF Done
  <2>3. was'[1] = session_dirty /\ was'[2] = in_transaction
    BY <1>2
  <2>4. /\ NotedDirty(Upto(does', 0), session_dirty) <=> session_dirty
        /\ NotedTransaction(Upto(does', 0), autocommit, in_transaction) <=> in_transaction
    BY <1>1, <1>3, <1>4, NothingNoted
  <2>5. QED
    BY <1>2, <2>2, <2>3, <2>4 DEF Noted
<1>8. Truthful'
  <2>1. (moved <=> session_dirty) /\ (open => in_transaction)
    BY <1>2 DEF NoteInv, Noted, Truthful, Done
  <2>2. was'[1] = session_dirty /\ was'[2] = in_transaction
    BY <1>2
  <2>3. moved' <=> NotedDirty(does', session_dirty)
    BY <1>1, <2>1 DEF NotedDirty, Has, TouchesSession
  <2>4. open' => NotedTransaction(does', autocommit, in_transaction)
    BY <1>1, <1>3, <1>4, <2>1, UncommittedIsNoted
  <2>5. QED
    BY <1>2, <2>2, <2>3, <2>4 DEF Truthful
<1>9. QED
  BY <1>5, <1>6, <1>7, <1>8 DEF NoteInv

\* The walk is at the end of a statement.
AtEnd == c = Len(text) + 1 \/ text[c] = ";"

\* A statement's words are taken in as its kind is.
LEMMA StatementNoted ==
    ASSUME NoteInv, Plain, noting, AtEnd, NoteStatement(SubSeq(text, start, c - 1))
    PROVE  LET done == Upto(does, Cardinality(Earlier(text, c + 1)))
           IN  /\ session_dirty' <=> NotedDirty(done, was[1])
               /\ in_transaction' <=> NotedTransaction(done, autocommit, was[2])
               /\ session_dirty' \in BOOLEAN /\ in_transaction' \in BOOLEAN
<1> DEFINE words == LeadingWords(SubSeq(text, start, c - 1))
           n == Cardinality(Earlier(text, start))
           m == Cardinality(Earlier(text, c + 1))
<1>1. /\ start \in 1..c /\ c \in 1..(Len(text) + 1) /\ text \in Seq(Lexemes)
      /\ does \in Seq(AppKinds) /\ was \in BOOLEAN \X BOOLEAN
      /\ session_dirty \in BOOLEAN /\ in_transaction \in BOOLEAN /\ autocommit \in BOOLEAN
  BY DEF NoteInv, NoteTypeOK
<1>2. PICK request \in Requests : text = request.text /\ does = request.does
  BY DEF NoteInv, TextInv
<1>0. start \in 1..c /\ c \in 1..(Len(text) + 1) /\ Len(text) \in Nat
  <2>1. text \in Seq(Lexemes)
    BY <1>1
  <2>2. Len(text) \in Nat
    BY <2>1
  <2>3. QED
    BY <2>2 DEF NoteInv, NoteTypeOK
<1>3. StatementAt(text, start, c) /\ words = WordsAt(text, start, c)
  <2>1. start <= c
    BY <1>0
  <2>2. QED
    BY <2>1 DEF StatementAt, WordsAt, NoteInv, WalkInv, AtEnd
<1>4. /\ n \in 0..Len(does)
      /\ words = <<>> => m = n
      /\ words # <<>> => m = n + 1 /\ n < Len(does) /\ ReadsAs(words, does[n + 1])
  <2>1. PlainlyWritten(request) /\ StatementAt(request.text, start, c)
    BY <1>2, <1>3 DEF Plain
  <2>2. start \in Nat \ {0} /\ c \in 1..Len(request.text) + 1 /\ start \in 1..Len(request.text) + 1
    BY <1>0, <1>2
  <2>3. QED
    BY <2>1, <2>2, <1>2, <1>3, OneMore
<1>5. /\ session_dirty <=> NotedDirty(Upto(does, n), was[1])
      /\ in_transaction <=> NotedTransaction(Upto(does, n), autocommit, was[2])
  BY DEF NoteInv, Noted, Done
<1>6. was[1] \in BOOLEAN /\ was[2] \in BOOLEAN
  BY <1>1
<1>7. CASE words = <<>>
  <2>1. session_dirty' = session_dirty /\ in_transaction' = in_transaction
    BY <1>7 DEF NoteStatement, flags
  <2>2. QED
    BY <1>1, <1>4, <1>5, <1>7, <2>1
<1>8. CASE words # <<>>
  <2>1. /\ session_dirty' = (session_dirty \/ WordsTouchSession(words))
        /\ in_transaction' = \/ Opens(words)
                             \/ ~Ends(words) /\ (in_transaction \/ ~autocommit)
    BY <1>8 DEF NoteStatement
  <2>2. /\ WordsTouchSession(words) <=> TouchesSession(does[n + 1])
        /\ Opens(words) <=> TransactionEffect(does[n + 1]) = 1
        /\ Ends(words) <=> TransactionEffect(does[n + 1]) = -1
    BY <1>4, <1>8 DEF ReadsAs
  <2>3. /\ NotedDirty(Upto(does, n + 1), was[1])
             <=> NotedDirty(Upto(does, n), was[1]) \/ TouchesSession(does[n + 1])
        /\ NotedTransaction(Upto(does, n + 1), autocommit, was[2])
             <=> \/ TransactionEffect(does[n + 1]) = 1
                 \/ /\ TransactionEffect(does[n + 1]) # -1
                    /\ NotedTransaction(Upto(does, n), autocommit, was[2]) \/ ~autocommit
    BY <1>1, <1>4, <1>6, <1>8, NotedNextDirty, NotedNextTransaction
  <2>4. m = n + 1
    BY <1>4, <1>8
  <2> HIDE DEF words, n, m
  <2>5. session_dirty' \in BOOLEAN /\ in_transaction' \in BOOLEAN
    BY <2>1, <1>1 DEF WordsTouchSession, Opens
  <2>6. session_dirty' <=> NotedDirty(Upto(does, m), was[1])
    BY <1>5, <2>1, <2>2, <2>3, <2>4
  <2>7. in_transaction' <=> NotedTransaction(Upto(does, m), autocommit, was[2])
    BY <1>5, <2>1, <2>2, <2>3, <2>4
  <2>8. QED
    BY <2>5, <2>6, <2>7 DEF m
<1>9. QED
  BY <1>7, <1>8

LEMMA EndOfStatementStep == NoteInv /\ Plain /\ EndOfStatement => NoteInv'
<1> SUFFICES ASSUME NoteInv, Plain, EndOfStatement PROVE NoteInv'
  OBVIOUS
<1>1. /\ noting /\ c <= Len(text) /\ text[c] = ";" /\ NoteStatement(SubSeq(text, start, c - 1))
      /\ start' = c + 1 /\ c' = c + 1 /\ autocommit' = autocommit /\ text' = text
      /\ noting' = noting /\ does' = does /\ was' = was /\ moved' = moved /\ open' = open
  BY DEF EndOfStatement, truth
<1>2. /\ session_dirty' <=> NotedDirty(Upto(does, Cardinality(Earlier(text, c + 1))), was[1])
      /\ in_transaction' <=> NotedTransaction(Upto(does, Cardinality(Earlier(text, c + 1))), autocommit, was[2])
      /\ session_dirty' \in BOOLEAN /\ in_transaction' \in BOOLEAN
  BY <1>1, StatementNoted DEF AtEnd
<1>3. /\ c \in 1..(Len(text) + 1) /\ text \in Seq(Lexemes) /\ Len(text) \in Nat
  BY DEF NoteInv, NoteTypeOK
<1>4. NoteTypeOK'
  <2>0. c <= Len(text)
    BY <1>1
  <2>1. start' \in 1..c' /\ c' \in 1..(Len(text') + 1)
    <3>1. c + 1 \in 1..(c + 1) /\ c + 1 \in 1..(Len(text) + 1)
      BY <1>3, <2>0
    <3>2. QED
      BY <1>1, <3>1
  <2>2. QED
    BY <1>1, <1>2, <2>1 DEF NoteInv, NoteTypeOK
<1>5. WalkInv'
  <2>1. (c + 1) - 1 = c /\ (c + 1)..((c + 1) - 1) = {}
    BY <1>3
  <2>2. QED
    BY <1>1, <2>1 DEF WalkInv
<1>6. TextInv' /\ Truthful'
  BY <1>1 DEF NoteInv, TextInv, Truthful
<1>7. Noted'
  BY <1>1, <1>2 DEF Noted, Done
<1>8. QED
  BY <1>4, <1>5, <1>6, <1>7 DEF NoteInv

LEMMA EndOfTextStep == NoteInv /\ Plain /\ EndOfText => NoteInv'
<1> SUFFICES ASSUME NoteInv, Plain, EndOfText PROVE NoteInv'
  OBVIOUS
<1>1. /\ noting /\ c > Len(text) /\ NoteStatement(SubSeq(text, start, c - 1)) /\ noting' = FALSE
      /\ start' = start /\ c' = c /\ autocommit' = autocommit /\ text' = text
      /\ does' = does /\ was' = was /\ moved' = moved /\ open' = open
  BY DEF EndOfText, truth
<1>2. /\ c \in 1..(Len(text) + 1) /\ text \in Seq(Lexemes) /\ Len(text) \in Nat
      /\ does \in Seq(AppKinds)
  BY DEF NoteInv, NoteTypeOK
<1>3. c = Len(text) + 1
  BY <1>1, <1>2
<1>4. /\ session_dirty' <=> NotedDirty(Upto(does, Cardinality(Earlier(text, c + 1))), was[1])
      /\ in_transaction' <=> NotedTransaction(Upto(does, Cardinality(Earlier(text, c + 1))), autocommit, was[2])
      /\ session_dirty' \in BOOLEAN /\ in_transaction' \in BOOLEAN
  BY <1>1, <1>3, StatementNoted DEF AtEnd
<1>5. Upto(does, Cardinality(Earlier(text, c + 1))) = does
  <2>1. Earlier(text, c + 1) = Worded(text)
    <3>1. \A b \in Worded(text) : b \in 1..Len(text) + 1
      BY DEF Worded
    <3>2. \A b \in Worded(text) : b < c + 1
      BY <1>2, <1>3, <3>1
    <3>3. QED
      BY <3>2 DEF Earlier
  <2>2. Len(does) = Cardinality(Worded(text))
    BY <1>1 DEF NoteInv, TextInv, Plain, PlainlyWritten
  <2>3. QED
    BY <1>2, <2>1, <2>2, UptoAll
<1>6. NoteTypeOK'
  BY <1>1, <1>4 DEF NoteInv, NoteTypeOK
<1>7. Noted' /\ Truthful'
  BY <1>1, <1>4, <1>5 DEF Noted, Done, NoteInv, Truthful
<1>8. QED
  BY <1>1, <1>6, <1>7 DEF NoteInv

\* A lexeme that is no semicolon belongs to the statement.
LEMMA LexemeStep == NoteInv /\ (SkipLexeme \/ NextLexeme) => NoteInv'
<1> SUFFICES ASSUME NoteInv, SkipLexeme \/ NextLexeme PROVE NoteInv'
  OBVIOUS
<1>1. /\ noting /\ c <= Len(text) /\ text[c] # ";" /\ c' = c + 1
  BY DEF SkipLexeme, NextLexeme, Skipped, PastLexeme
<1>2. /\ start' = start /\ autocommit' = autocommit /\ text' = text
      /\ session_dirty' = session_dirty /\ in_transaction' = in_transaction
      /\ noting' = noting /\ does' = does /\ was' = was /\ moved' = moved /\ open' = open
  BY DEF SkipLexeme, NextLexeme, truth, flags
<1>3. c \in 1..(Len(text) + 1) /\ start \in 1..c /\ text \in Seq(Lexemes) /\ Len(text) \in Nat
  BY DEF NoteInv, NoteTypeOK
<1>4. NoteTypeOK'
  <2>1. c <= Len(text)
    BY <1>1
  <2>2. start \in 1..(c + 1) /\ c + 1 \in 1..(Len(text) + 1)
    BY <1>3, <2>1
  <2>3. start' \in 1..c' /\ c' \in 1..(Len(text') + 1)
    BY <1>1, <1>2, <2>2
  <2>4. QED
    BY <1>2, <2>3 DEF NoteInv, NoteTypeOK
<1>5. WalkInv'
  <2>1. start..((c + 1) - 1) = start..(c - 1) \cup {c}
    BY <1>3
  <2>2. QED
    BY <1>1, <1>2, <2>1 DEF NoteInv, WalkInv
<1>6. TextInv' /\ Noted' /\ Truthful'
  BY <1>1, <1>2 DEF NoteInv, TextInv, Noted, Done, Truthful
<1>7. QED
  BY <1>4, <1>5, <1>6 DEF NoteInv

\* Between calls: a mode set, a session replaced.
LEMMA BetweenStep == NoteInv /\ (SetAutocommit \/ SessionReplaced) => NoteInv'
<1> SUFFICES ASSUME NoteInv, SetAutocommit \/ SessionReplaced PROVE NoteInv'
  OBVIOUS
<1>1. /\ ~noting /\ noting' = noting /\ text' = <<>> /\ start' = 1 /\ c' = 1 /\ does' = <<>>
      /\ was' = <<session_dirty', in_transaction'>>
  BY DEF SetAutocommit, SessionReplaced, flags
<1>2. /\ session_dirty' \in BOOLEAN /\ in_transaction' \in BOOLEAN /\ autocommit' \in BOOLEAN
      /\ moved' \in BOOLEAN /\ open' \in BOOLEAN
  BY DEF SetAutocommit, SessionReplaced, flags, NoteInv, NoteTypeOK
<1>3. (moved <=> session_dirty) /\ (open => in_transaction)
  BY <1>1 DEF NoteInv, Noted, Truthful, Done
<1>4. (moved' <=> session_dirty') /\ (open' => in_transaction')
  <2>1. CASE SetAutocommit
    <3>1. /\ session_dirty' = session_dirty /\ in_transaction' = in_transaction
          /\ moved' = moved /\ open' = open
      BY <2>1 DEF SetAutocommit, flags
    <3>2. QED
      BY <1>3, <3>1
  <2>2. CASE SessionReplaced
    BY <2>2 DEF SessionReplaced
  <2>3. QED
    BY <2>1, <2>2
<1>5. NoteTypeOK'
  <2>1. <<>> \in Seq(Lexemes) /\ <<>> \in Seq(AppKinds) /\ 1 \in 1..1 /\ 1 \in 1..(Len(<<>>) + 1)
    OBVIOUS
  <2>2. was' \in BOOLEAN \X BOOLEAN
    BY <1>1, <1>2
  <2>3. noting' \in BOOLEAN
    BY <1>1 DEF NoteInv, NoteTypeOK
  <2>4. QED
    BY <1>1, <1>2, <2>1, <2>2, <2>3 DEF NoteTypeOK
<1>6. was'[1] = session_dirty' /\ was'[2] = in_transaction'
  BY <1>1
<1>7. /\ NotedDirty(<<>>, session_dirty') <=> session_dirty'
      /\ NotedTransaction(<<>>, autocommit', in_transaction') <=> in_transaction'
  BY <1>2, NothingDone
<1>8. Noted' /\ Truthful'
  BY <1>1, <1>4, <1>6, <1>7 DEF Noted, Truthful, Done
<1>9. QED
  BY <1>1, <1>5, <1>8 DEF NoteInv

LEMMA NoteStep == NoteInv /\ Plain /\ [Next]_vars => NoteInv'
<1> SUFFICES ASSUME NoteInv, Plain, UNCHANGED vars PROVE NoteInv'
  BY ExecuteStep, EndOfStatementStep, EndOfTextStep, LexemeStep, BetweenStep DEF Next
<1>1. QED
  BY DEF vars, flags, walk, truth, NoteInv, NoteTypeOK, WalkInv, TextInv, Noted, Truthful, Done

LEMMA NoteAlways == ASSUME Plain PROVE Spec => []NoteInv
<1>1. NoteInv /\ [Next]_vars => NoteInv'
  BY NoteStep
<1>2. QED
  BY <1>1, NoteInit, PTL DEF Spec

------------------------------------------------------------------------------
\* For requests of any number of statements and any comments among them: the
\* walk stays inside its text (fl_session_note, session.c:175-190).
THEOREM NoteTypeCorrect == ASSUME Plain PROVE Spec => []NoteTypeOK
<1>1. NoteInv => NoteTypeOK
  BY DEF NoteInv
<1>2. QED
  BY <1>1, NoteAlways, PTL

\* Walked lexeme by lexeme, or taken at once by the closed forms of Statements:
\* the flags are the same, however many statements a request packs
\* (fl_session_note against SessionProtocol's use of it).
THEOREM WalkIsClosedForm == ASSUME Plain PROVE Spec => []ClosedFormsAgree
<1>1. NoteInv => ClosedFormsAgree
  <2> SUFFICES ASSUME NoteInv PROVE ClosedFormsAgree
    OBVIOUS
  <2>1. /\ session_dirty \in BOOLEAN /\ in_transaction \in BOOLEAN
        /\ was[1] \in BOOLEAN /\ was[2] \in BOOLEAN
    BY DEF NoteInv, NoteTypeOK
  <2>2. ~noting => /\ session_dirty <=> NotedDirty(does, was[1])
                   /\ in_transaction <=> NotedTransaction(does, autocommit, was[2])
    BY DEF NoteInv, Noted, Done
  <2>3. /\ NotedDirty(does, was[1]) \in BOOLEAN
        /\ NotedTransaction(does, autocommit, was[2]) \in BOOLEAN
    BY <2>1 DEF NotedDirty, NotedTransaction
  <2>4. QED
    BY <2>1, <2>2, <2>3 DEF ClosedFormsAgree
<1>2. QED
  BY <1>1, NoteAlways, PTL

\* Between calls everything the engine's session holds is known of: a session
\* that was moved, and a transaction that is open (proto.c sends a statement
\* again, or refuses to, on the strength of it).
THEOREM NothingMissed == ASSUME Plain PROVE Spec => []NoteMissesNothing
<1>1. NoteInv => NoteMissesNothing
  BY DEF NoteInv, Noted, Truthful, Done, NoteMissesNothing
<1>2. QED
  BY <1>1, NoteAlways, PTL

\* Nor is a session taken for moved that no statement moved (touches_session,
\* reset_session_state).
THEOREM NothingInvented == ASSUME Plain PROVE Spec => []NoteInventsNothing
<1>1. NoteInv => NoteInventsNothing
  BY DEF NoteInv, Noted, Truthful, Done, NoteInventsNothing
<1>2. QED
  BY <1>1, NoteAlways, PTL
=============================================================================
