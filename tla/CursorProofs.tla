----------------------------- MODULE CursorProofs ------------------------------
(***************************************************************************)
(* What ResultCursor promises of a statement's cursor and of the reading   *)
(* of values piece by piece, proved for every result the engine can answer *)
(* and every buffer the application passes.                                *)
(***************************************************************************)
EXTENDS ResultCursor, WellFoundedInduction, TLAPS

------------------------------------------------------------------------------
\* Pieces of a value

\* Of some numbers up to a bound one is the largest.
LEMMA LargestOf ==
    ASSUME NEW room \in Nat, NEW fits \in SUBSET (1..room), fits # {}
    PROVE  \E n \in fits : \A longer \in fits : longer <= n
<1> DEFINE R == OpToRel(<, Nat)
           left == {room - n : n \in fits}
<1>1. R = {ss \in Nat \X Nat : ss[1] < ss[2]}
  BY DEF OpToRel
<1>2. IsWellFoundedOn(R, Nat)
  BY NatLessThanWellFounded
<1>3. left \subseteq Nat
  <2>1. \A n \in fits : n \in 1..room
    OBVIOUS
  <2>2. \A n \in 1..room : room - n \in Nat
    OBVIOUS
  <2>3. QED
    BY <2>1, <2>2
<1>4. left # {}
  OBVIOUS
<1> HIDE DEF R, left
<1>5. PICK least \in left : \A y \in left : ~(<<y, least>> \in R)
  BY <1>2, <1>3, <1>4, WFMin
<1>6. ASSUME NEW y \in left PROVE least <= y
  <2>1. <<y, least>> \in Nat \X Nat /\ y \in Nat /\ least \in Nat
    BY <1>3, <1>5
  <2>2. ~(y < least)
    BY <1>1, <1>5, <2>1
  <2>3. QED
    BY <2>1, <2>2
<1>7. PICK n \in fits : least = room - n
  BY <1>5 DEF left
<1>8. \A longer \in fits : room - longer \in left
  BY DEF left
<1>9. QED
  <2>1. \A longer \in fits : room - n <= room - longer
    BY <1>6, <1>7, <1>8
  <2>2. n \in 1..room /\ \A longer \in fits : longer \in 1..room
    OBVIOUS
  <2>3. QED
    BY <2>1, <2>2

\* A cut takes at least a byte and at most the room there is, and no longer
\* piece that ends a character would have fitted.
LEMMA CutShape ==
    ASSUME NEW text, NEW from \in Nat, NEW room \in Nat
    PROVE  LET cut == CutAtCharacter(text, from, room)
           IN  /\ cut \in 0..room
               /\ room > 0 => cut > 0
               /\ (\E n \in 1..room : text[from + n + 1] # "cont")
                  => text[from + cut + 1] # "cont"
<1> DEFINE fits == {n \in 1..room : text[from + n + 1] # "cont"}
           best == CHOOSE n \in fits : \A longer \in fits : longer <= n
<1>1. CutAtCharacter(text, from, room) = IF fits = {} THEN room ELSE best
  BY DEF CutAtCharacter
<1>2. CASE fits = {}
  <2>1. CutAtCharacter(text, from, room) = room
    BY <1>1, <1>2
  <2>2. ~(\E n \in 1..room : text[from + n + 1] # "cont")
    BY <1>2
  <2>3. QED
    BY <2>1, <2>2
<1>3. CASE fits # {}
  <2>1. fits \in SUBSET (1..room)
    OBVIOUS
  <2> HIDE DEF fits
  <2>2. \E n \in fits : \A longer \in fits : longer <= n
    BY <1>3, <2>1, LargestOf
  <2>3. best \in fits
    BY <2>2
  <2> HIDE DEF best
  <2>4. best \in 1..room /\ text[from + best + 1] # "cont"
    BY <2>3 DEF fits
  <2>5. QED
    BY <1>1, <1>3, <2>4
<1>4. QED
  BY <1>2, <1>3

\* What a column's value is as long as, in the positions of a unit.
Total(unit, cell) == IF unit = "decoded" THEN Len(cell.text) \div 2 ELSE Len(cell.text)

UnitOf(hex, read) ==
    IF read.ctype = "long" THEN "value"
    ELSE IF hex /\ read.ctype = "binary" THEN "decoded" ELSE "text"

LEMMA TotalType == ASSUME NEW unit, NEW cell \in Cells PROVE Total(unit, cell) \in Nat
<1>1. Len(cell.text) \in Nat
  BY DEF Cells
<1>2. \A n \in Nat : n \div 2 \in Nat
  OBVIOUS
<1>3. QED
  BY <1>1, <1>2 DEF Total

\* What a read answers, and leaves as the offset of the next.
ReadAs(done, cell, read, total, from) ==
    /\ done.answer \in ReturnCodes /\ done.offset \in Nat
    /\ done.answer \in {"no_data", "error"} => done.offset = from
    /\ ~cell.null /\ read.ctype # "long" =>
           /\ (done.answer = "no_data" <=> from > total)
           /\ done.answer # "error"
           /\ done.answer = "success" /\ read.length > 0 => done.offset = total + 1
           /\ done.answer # "success" \/ read.length = 0 => done.offset = done.to
           /\ done.answer = "info" /\ (read.ctype = "binary" \/ read.length > 1)
                  => done.to > from
    /\ cell.null \/ read.ctype = "long" => done.answer # "info"

\* A piece of a value not yet delivered, into a buffer with some room.
LEMMA PieceReadAs ==
    ASSUME NEW cell, NEW read, read.length \in Nat \ {0}, NEW total \in Nat, NEW from \in 0..total,
           NEW copy \in 0..(total - from), ~cell.null, read.ctype # "long",
           (read.ctype = "binary" \/ read.length > 1) /\ copy # total - from => copy > 0
    PROVE  ReadAs(Piece(total, from, copy), cell, read, total, from)
<1>1. CASE from + copy < total
  <2>1. Piece(total, from, copy) = [answer |-> "info", to |-> from + copy, offset |-> from + copy]
    BY <1>1 DEF Piece, Converted
  <2>2. QED
    BY <1>1, <2>1 DEF ReadAs, ReturnCodes
<1>2. CASE ~(from + copy < total)
  <2>1. Piece(total, from, copy) = [answer |-> "success", to |-> total, offset |-> total + 1]
    BY <1>2 DEF Piece, Parked, Converted
  <2>2. QED
    BY <1>2, <2>1 DEF ReadAs, ReturnCodes
<1>3. QED
  BY <1>1, <1>2

\* A read behind the end, and a probe without a buffer.
LEMMA NoPieceReadAs ==
    ASSUME NEW cell, NEW read, NEW total \in Nat, NEW from \in Nat,
           ~cell.null, read.ctype # "long"
    PROVE  /\ from > total => ReadAs(Converted("no_data", from, from), cell, read, total, from)
           /\ from <= total /\ read.length = 0 =>
                  ReadAs(Converted("success", from, from), cell, read, total, from)
BY DEF ReadAs, Converted, ReturnCodes

LEMMA ConvertShape ==
    ASSUME NEW hex \in BOOLEAN, NEW cell \in Cells, NEW read \in Reads, NEW from \in Nat
    PROVE  ReadAs(Convert(hex, cell, read, from), cell, read, Total(UnitOf(hex, read), cell), from)
<1> DEFINE done == Convert(hex, cell, read, from)
           total == Total(UnitOf(hex, read), cell)
<1>1. /\ read.ctype \in {"char", "binary", "long"} /\ read.length \in Nat
      /\ read.indicator \in BOOLEAN /\ cell.null \in BOOLEAN /\ cell.number \in BOOLEAN
  BY MaxLengthAssumption DEF Reads, CTypes, Lengths, Cells
<1>2. total \in Nat /\ Len(cell.text) \in Nat
  BY TotalType DEF Cells
<1>3. CASE cell.null
  <2>1. done = Converted(IF read.indicator THEN "success" ELSE "error", from, from)
    BY <1>3 DEF Convert
  <2>2. QED
    BY <1>3, <2>1 DEF Converted, ReturnCodes, ReadAs
<1>4. CASE ~cell.null /\ read.ctype = "long"
  <2>1. done = ConvertFixed(cell, from)
    BY <1>4 DEF Convert
  <2>2. QED
    BY <1>4, <2>1 DEF ConvertFixed, Converted, ReturnCodes, ReadAs
<1>5. CASE ~cell.null /\ read.ctype = "char"
  <2> DEFINE room == read.length - 1
             copy == IF total - from <= room THEN total - from
                     ELSE CutAtCharacter(cell.text, from, room)
  <2>1. total = Len(cell.text)
    BY <1>5 DEF Total, UnitOf
  <2>2. done = ConvertChar(cell, read.length, from)
    BY <1>5 DEF Convert
  <2>3. done = IF from > total THEN Converted("no_data", from, from)
               ELSE IF read.length = 0 THEN Converted("success", from, from)
               ELSE Piece(total, from, copy)
    BY <2>1, <2>2 DEF ConvertChar
  <2>4. ASSUME from <= total, read.length # 0
        PROVE  copy \in 0..(total - from) /\ (read.length > 1 /\ copy # total - from => copy > 0)
    <3>1. room \in Nat
      BY <1>1, <2>4
    <3>2. CASE total - from <= room
      BY <1>2, <2>4, <3>2
    <3>3. CASE ~(total - from <= room)
      <4>1. CutAtCharacter(cell.text, from, room) \in 0..room
            /\ (room > 0 => CutAtCharacter(cell.text, from, room) > 0)
        BY <3>1, CutShape
      <4>2. copy \in 0..room /\ (room > 0 => copy > 0)
        BY <3>3, <4>1
      <4> HIDE DEF copy
      <4>3. QED
        BY <1>1, <1>2, <2>4, <3>1, <3>3, <4>2
    <3>4. QED
      BY <3>2, <3>3
  <2> HIDE DEF copy, done, total
  <2>5. CASE from > total
    BY <1>2, <1>5, <2>3, <2>5, NoPieceReadAs DEF done, total
  <2>6. CASE from <= total /\ read.length = 0
    <3>1. done = Converted("success", from, from)
      BY <1>2, <2>3, <2>6
    <3>2. QED
      BY <1>2, <1>5, <2>6, <3>1, NoPieceReadAs DEF done, total
  <2>7. CASE from <= total /\ read.length # 0
    <3>1. done = Piece(total, from, copy)
      BY <1>2, <2>3, <2>7
    <3>2. ReadAs(Piece(total, from, copy), cell, read, total, from)
      BY <1>1, <1>2, <1>5, <2>4, <2>7, PieceReadAs
    <3>3. QED
      BY <3>1, <3>2 DEF done, total
  <2>8. QED
    BY <1>2, <2>5, <2>6, <2>7
<1>6. CASE ~cell.null /\ read.ctype = "binary"
  <2> DEFINE copy == Least(total - from, read.length)
  <2>1. done = ConvertBinary(hex, cell, read.length, from)
    BY <1>6 DEF Convert
  <2>2. total = IF hex THEN Len(cell.text) \div 2 ELSE Len(cell.text)
    BY <1>6 DEF Total, UnitOf
  <2>3. done = IF from > total THEN Converted("no_data", from, from)
               ELSE IF read.length = 0 THEN Converted("success", from, from)
               ELSE Piece(total, from, copy)
    BY <2>1, <2>2 DEF ConvertBinary
  <2>4. ASSUME from <= total, read.length # 0
        PROVE  copy \in 0..(total - from) /\ (copy # total - from => copy > 0)
    BY <1>1, <1>2, <2>4 DEF Least
  <2> HIDE DEF copy, done, total
  <2>5. CASE from > total
    BY <1>2, <1>6, <2>3, <2>5, NoPieceReadAs DEF done, total
  <2>6. CASE from <= total /\ read.length = 0
    <3>1. done = Converted("success", from, from)
      BY <1>2, <2>3, <2>6
    <3>2. QED
      BY <1>2, <1>6, <2>6, <3>1, NoPieceReadAs DEF done, total
  <2>7. CASE from <= total /\ read.length # 0
    <3>1. done = Piece(total, from, copy)
      BY <1>2, <2>3, <2>7
    <3>2. ReadAs(Piece(total, from, copy), cell, read, total, from)
      BY <1>1, <1>2, <1>6, <2>4, <2>7, PieceReadAs
    <3>3. QED
      BY <3>1, <3>2 DEF done, total
  <2>8. QED
    BY <1>2, <2>5, <2>6, <2>7
<1>7. QED
  BY <1>1, <1>3, <1>4, <1>5, <1>6

\* With room for a whole character a truncated piece of a text of whole
\* characters ends where one does.
LEMMA CutWhole ==
    ASSUME NEW cell \in Cells, NEW read \in Reads, NEW from \in Nat, NEW hex \in BOOLEAN,
           read.ctype = "char", read.length > CharacterBytes, WholeCharacters(cell.text),
           Convert(hex, cell, read, from).answer = "info"
    PROVE  cell.text[Convert(hex, cell, read, from).to + 1] # "cont"
<1> DEFINE done == Convert(hex, cell, read, from)
           total == Len(cell.text)
           room == read.length - 1
           copy == IF total - from <= room THEN total - from
                   ELSE CutAtCharacter(cell.text, from, room)
<1>1. read.length \in Nat /\ total \in Nat /\ CharacterBytes \in Nat \ {0}
  BY MaxLengthAssumption, CharacterBytesAssumption DEF Reads, Lengths, Cells
<1>2. ~cell.null
  BY DEF Convert, Converted
<1>3. done = IF from > total THEN Converted("no_data", from, from)
             ELSE IF read.length = 0 THEN Converted("success", from, from)
             ELSE Piece(total, from, copy)
  BY <1>2 DEF Convert, ConvertChar
<1>4. ~(from > total) /\ done = Piece(total, from, copy)
  BY <1>1, <1>3 DEF Converted
<1>5. from + copy < total /\ done.to = from + copy
  BY <1>4 DEF Piece, Converted
<1>6. room \in Nat /\ room >= CharacterBytes
  BY <1>1
<1>7. ~(total - from <= room)
  BY <1>1, <1>4, <1>5
<1>8. copy = CutAtCharacter(cell.text, from, room)
  BY <1>7
<1> HIDE DEF room, total
<1>9. \E n \in 1..room : cell.text[from + n + 1] # "cont"
  <2> DEFINE i == from + room - CharacterBytes + 2
  <2>1. i \in 1..(total - CharacterBytes + 1)
    BY <1>1, <1>6, <1>7
  <2>2. PICK j \in i..(i + CharacterBytes - 1) : cell.text[j] # "cont"
    BY <2>1 DEF WholeCharacters, total
  <2>3. j - from - 1 \in 1..room /\ from + (j - from - 1) + 1 = j
    BY <1>1, <1>6
  <2>4. QED
    BY <2>2, <2>3
<1>10. cell.text[from + copy + 1] # "cont"
  BY <1>6, <1>8, <1>9, CutShape DEF room
<1>11. QED
  BY <1>5, <1>10

------------------------------------------------------------------------------
\* The inductive invariant

\* The two halves of CursorTypeOK: where the cursor is, and what is set.
Placed ==
    /\ Len(synth) <= 1
    /\ synth # <<>> => response = <<>>
    /\ current_set \in 0..Len(response)
    /\ current_row \in -1..(IF HasSet THEN Len(Set.rows) ELSE -1)
    /\ row_count \in Int
    /\ getdata_col \in {-1} \cup 1..MaxColumns
    /\ getdata_offset \in Nat
    /\ fetched \in Nat /\ ended \in BOOLEAN

SettingsType ==
    /\ max_rows \in MaxRowsValues \cup {0}
    /\ prepared \in BOOLEAN
    /\ bound_cols \in [1..MaxColumns -> Bindings \cup {Unbound}]

\* Results are well shaped, and there is a current one as long as there are any.
Shape ==
    /\ response \in Seq(ResultSets)
    /\ synth \in Seq(ResultSets)
    /\ current_set < Len(response) \/ response = <<>>

\* A cursor that is not behind its set is where SQLFetch has got to.
RowPlace ==
    HasSet /\ current_row < Len(Set.rows) => current_row + 1 = fetched /\ ~ended

\* Behind a value delivered whole the offset is past its end, in the unit the
\* value was read in.
WholeParked ==
    Positioned /\ piece.col \in DOMAIN Set.hex /\ piece.unit \in {"text", "decoded"}
        /\ piece.whole /\ ~Row[piece.col].null
    => From(piece.col) = Total(piece.unit, Row[piece.col]) + 1

CursorInv ==
    /\ Placed /\ Shape
    /\ RowPlace /\ RowCountOfCurrentSet /\ PiecesJoinUp /\ WholeParked

LEMMA TypeHalves == CursorTypeOK <=> Placed /\ SettingsType /\ answer \in ReturnCodes
BY DEF CursorTypeOK, Placed, SettingsType

LEMMA OnlyOne ==
    ASSUME NEW S, NEW s \in Seq(S), s # <<>>, Len(s) <= 1
    PROVE  Len(s) = 1 /\ s[1] \in S
<1>1. Len(s) \in Nat
  OBVIOUS
<1>2. Len(s) # 0
  OBVIOUS
<1>3. Len(s) = 1
  BY <1>1, <1>2
<1>4. 1 \in 1..Len(s)
  BY <1>3
<1>5. s[1] \in S
  BY <1>4
<1>6. QED
  BY <1>3, <1>5

\* The set the cursor is on, and the row it may be on.
LEMMA SetShape ==
    ASSUME CursorInv, HasSet
    PROVE  /\ Set \in ResultSets
           /\ Set.hex \in Seq(BOOLEAN) /\ Set.rows \in Seq(Seq(Cells))
           /\ Len(Set.hex) \in Nat /\ Len(Set.rows) \in Nat
           /\ current_row \in -1..Len(Set.rows)
<1>1. Set \in ResultSets
  <2>1. CASE synth # <<>>
    <3>1. CurrentSet = synth
      BY <2>1 DEF CurrentSet
    <3>2. synth[1] \in ResultSets
      BY <2>1, OnlyOne DEF CursorInv, Placed, Shape
    <3>3. QED
      BY <3>1, <3>2 DEF Set
  <2>2. CASE synth = <<>>
    <3>1. current_set + 1 \in 1..Len(response) /\ CurrentSet = <<response[current_set + 1]>>
      BY <2>2 DEF HasSet, CurrentSet, CursorInv, Placed, Shape
    <3>2. response[current_set + 1] \in ResultSets
      BY <3>1 DEF CursorInv, Shape
    <3>3. QED
      BY <3>1, <3>2 DEF Set
  <2>3. QED
    BY <2>1, <2>2
<1>2. Set.hex \in Seq(BOOLEAN) /\ Set.rows \in Seq(Seq(Cells))
  BY <1>1 DEF ResultSets
<1>3. Len(Set.hex) \in Nat /\ Len(Set.rows) \in Nat
  BY <1>2
<1>4. current_row \in -1..Len(Set.rows)
  BY DEF CursorInv, Placed
<1>5. QED
  BY <1>1, <1>2, <1>3, <1>4

LEMMA RowShape ==
    ASSUME CursorInv, Positioned, NEW col \in DOMAIN Set.hex
    PROVE  Row[col] \in Cells /\ Set.hex[col] \in BOOLEAN
<1>1. HasSet /\ current_row >= 0 /\ current_row < Len(Set.rows)
  BY DEF Positioned
<1>2. /\ Set \in ResultSets /\ Set.hex \in Seq(BOOLEAN) /\ Set.rows \in Seq(Seq(Cells))
      /\ current_row + 1 \in DOMAIN Set.rows
  BY <1>1, SetShape
<1>3. Row \in Seq(Cells) /\ Len(Row) = Len(Set.hex)
  BY <1>2 DEF Row, ResultSets
<1>4. QED
  BY <1>2, <1>3

LEMMA FromType == ASSUME CursorInv, NEW col PROVE From(col) \in Nat
BY DEF CursorInv, Placed, From

LEMMA CursorInit == Init => CursorInv /\ SettingsType /\ answer \in ReturnCodes
<1> SUFFICES ASSUME Init PROVE CursorInv /\ SettingsType /\ answer \in ReturnCodes
  OBVIOUS
<1>1. response = <<>> /\ synth = <<>> /\ current_set = 0 /\ CurrentSet = <<>>
  BY DEF Init, CurrentSet
<1>2. ~HasSet /\ ~Positioned
  BY <1>1 DEF HasSet, Positioned
<1>3. Placed
  <2>1. Len(synth) = 0 /\ Len(response) = 0
    BY <1>1
  <2>2. current_row = -1 /\ -1 \in -1..-1
    BY DEF Init
  <2>3. current_row \in -1..(IF HasSet THEN Len(Set.rows) ELSE -1)
    BY <1>2, <2>2
  <2>4. current_set \in 0..Len(response)
    BY <1>1, <2>1
  <2>5. Len(synth) <= 1 /\ (synth # <<>> => response = <<>>)
    BY <1>1, <2>1
  <2>6. /\ row_count \in Int /\ getdata_col \in {-1} \cup 1..MaxColumns /\ getdata_offset \in Nat
        /\ fetched \in Nat
    BY DEF Init
  <2>7. ended \in BOOLEAN
    BY DEF Init
  <2>8. QED
    BY <2>3, <2>4, <2>5, <2>6, <2>7 DEF Placed
<1>4. Shape /\ RowPlace /\ RowCountOfCurrentSet /\ PiecesJoinUp /\ WholeParked
  BY <1>1, <1>2 DEF Init, Shape, RowPlace, RowCountOfCurrentSet, PiecesJoinUp, WholeParked
<1>5. SettingsType /\ answer \in ReturnCodes
  BY DEF Init, SettingsType, ReturnCodes
<1>6. QED
  BY <1>3, <1>4, <1>5 DEF CursorInv

\* Calls that leave the results and the cursor alone.
LEMMA CursorUnchanged == CursorInv /\ Unchanged => CursorInv'
<1> SUFFICES ASSUME CursorInv, Unchanged PROVE CursorInv'
  OBVIOUS
<1>1. /\ UNCHANGED <<response, synth, current_set, row_count, current_row, getdata_col>>
      /\ UNCHANGED <<getdata_offset, fetched, ended, piece>>
  BY DEF Unchanged, resultVars, getdataVars
<1>2. CurrentSet' = CurrentSet
  BY <1>1 DEF CurrentSet
<1>3. HasSet' = HasSet /\ Set' = Set
  BY <1>2 DEF HasSet, Set
<1>4. Positioned' = Positioned /\ Row' = Row
  BY <1>1, <1>3 DEF Positioned, Row
<1>5. Placed' /\ Shape' /\ RowPlace'
  BY <1>1, <1>3 DEF CursorInv, Placed, Shape, RowPlace
<1>6. RowCountOfCurrentSet'
  BY <1>1, <1>3 DEF CursorInv, RowCountOfCurrentSet
<1>7. PiecesJoinUp' /\ WholeParked'
  BY <1>1, <1>3, <1>4 DEF CursorInv, PiecesJoinUp, WholeParked, From
<1>8. QED
  BY <1>5, <1>6, <1>7 DEF CursorInv

\* Whatever set the cursor goes to, it is before its first row.
LEMMA BeforeFirst ==
    ASSUME BeforeFirstRow, Shape',
           Len(synth') <= 1, synth' # <<>> => response' = <<>>, current_set' \in 0..Len(response'),
           row_count' \in Int, RowCountOfCurrentSet'
    PROVE  CursorInv'
<1>1. /\ current_row' = -1 /\ getdata_col' = -1 /\ getdata_offset' = 0 /\ fetched' = 0
      /\ ended' = FALSE
  BY DEF BeforeFirstRow, NothingRead
<1>2. ~Positioned'
  BY <1>1 DEF Positioned
<1>3. HasSet' => Set' \in ResultSets
  <2>1. CASE synth' # <<>>
    <3>1. CurrentSet' = synth'
      BY <2>1 DEF CurrentSet
    <3>2. synth'[1] \in ResultSets
      BY <2>1, OnlyOne DEF Shape
    <3>3. QED
      BY <3>1, <3>2 DEF Set
  <2>2. CASE synth' = <<>> /\ current_set' < Len(response')
    <3>1. CurrentSet' = <<response'[current_set' + 1]>>
      BY <2>2 DEF CurrentSet
    <3>2. response' \in Seq(ResultSets)
      BY DEF Shape
    <3>3. Len(response') \in Nat
      BY <3>2
    <3>4. current_set' + 1 \in 1..Len(response')
      <4>1. \A n \in Nat : \A c \in 0..n : c < n => c + 1 \in 1..n
        OBVIOUS
      <4>2. QED
        BY <2>2, <3>3, <4>1, Zenon
    <3>5. response'[current_set' + 1] \in ResultSets
      BY <3>2, <3>4
    <3>6. QED
      BY <3>1, <3>5 DEF Set
  <2>3. CASE synth' = <<>> /\ ~(current_set' < Len(response'))
    BY <2>3 DEF CurrentSet, HasSet
  <2>4. QED
    BY <2>1, <2>2, <2>3
<1>4. HasSet' => Len(Set'.rows) \in Nat
  BY <1>3 DEF ResultSets
<1>5. Placed'
  <2>1. current_row' \in -1..(IF HasSet' THEN Len(Set'.rows) ELSE -1)
    BY <1>1, <1>4
  <2>2. (current_row \in -1..(IF HasSet THEN Len(Set.rows) ELSE -1))'
    BY <2>1
  <2>3. QED
    BY <1>1, <2>2 DEF Placed
<1>6. RowPlace'
  BY <1>1 DEF RowPlace
<1>7. PiecesJoinUp' /\ WholeParked'
  BY <1>2 DEF PiecesJoinUp, WholeParked
<1>8. QED
  BY <1>5, <1>6, <1>7 DEF CursorInv

\* New results, or none: the count is of the first of them.
LEMMA ReplaceKeeps ==
    ASSUME NEW sets \in Seq(ResultSets), NEW built \in Seq(ResultSets), NEW count \in Int,
           Len(built) <= 1, built # <<>> => sets = <<>>,
           Replace(sets, built, count), RowCountOfCurrentSet'
    PROVE  CursorInv'
<1>1. response' = sets /\ synth' = built /\ current_set' = 0 /\ row_count' = count /\ BeforeFirstRow
  BY DEF Replace
<1>2. Len(sets) \in Nat /\ (sets = <<>> \/ 0 < Len(sets))
  OBVIOUS
<1>3. Shape'
  BY <1>1, <1>2 DEF Shape
<1>4. current_set' \in 0..Len(response')
  BY <1>1, <1>2
<1>5. QED
  BY <1>1, <1>3, <1>4, BeforeFirst

LEMMA ClearKeeps == ClearResults => CursorInv'
<1> SUFFICES ASSUME ClearResults PROVE CursorInv'
  OBVIOUS
<1>1. Replace(<<>>, <<>>, -1)
  BY DEF ClearResults
<1>2. response' = <<>> /\ synth' = <<>> /\ current_set' = 0 /\ row_count' = -1
  BY <1>1 DEF Replace
<1>3. ~HasSet'
  BY <1>2 DEF HasSet, CurrentSet
<1>4. RowCountOfCurrentSet'
  BY <1>2, <1>3 DEF RowCountOfCurrentSet
<1>5. <<>> \in Seq(ResultSets) /\ Len(<<>>) <= 1
  OBVIOUS
<1>6. -1 \in Int
  OBVIOUS
<1>7. QED
  BY <1>1, <1>4, <1>5, <1>6, ReplaceKeeps

LEMMA RowCountType == ASSUME NEW set \in ResultSets PROVE RowCountOf(set) \in Int
<1>1. set.rows \in Seq(Seq(Cells)) /\ set.affected \in Int
  BY DEF ResultSets
<1>2. Len(set.rows) \in Int
  BY <1>1
<1>3. QED
  BY <1>1, <1>2 DEF RowCountOf, RowsAffected

LEMMA RunSqlKeeps == RunSql => CursorInv' /\ answer' \in ReturnCodes
<1>1. ASSUME NEW sets \in Responses,
             Replace(sets, <<>>, IF sets = <<>> THEN 0 ELSE TakeRowCount(sets[1]))
      PROVE  CursorInv'
  <2> DEFINE count == IF sets = <<>> THEN 0 ELSE TakeRowCount(sets[1])
  <2>1. sets \in Seq(ResultSets)
    BY ResponsesAssumption
  <2>2. Len(sets) \in Nat /\ (sets # <<>> => 0 < Len(sets) /\ sets[1] \in ResultSets)
    BY <2>1
  <2>3. response' = sets /\ synth' = <<>> /\ current_set' = 0 /\ row_count' = count
    BY <1>1 DEF Replace
  <2>4. count \in Int
    BY <2>2, RowCountType DEF TakeRowCount
  <2>5. RowCountOfCurrentSet'
    <3>1. CASE sets = <<>>
      BY <2>3, <3>1 DEF RowCountOfCurrentSet, HasSet, CurrentSet
    <3>2. CASE sets # <<>>
      <4>1. CurrentSet' = <<sets[1]>>
        BY <2>2, <2>3, <3>2 DEF CurrentSet
      <4>2. HasSet' /\ Set' = sets[1]
        BY <4>1 DEF HasSet, Set
      <4>3. row_count' = RowCountOf(sets[1])
        BY <2>3, <3>2 DEF TakeRowCount
      <4>4. QED
        BY <4>2, <4>3 DEF RowCountOfCurrentSet
    <3>3. QED
      BY <3>1, <3>2
  <2>6. <<>> \in Seq(ResultSets) /\ Len(<<>>) <= 1
    OBVIOUS
  <2> HIDE DEF count
  <2>7. Replace(sets, <<>>, count)
    BY <1>1 DEF count
  <2>8. QED
    BY <2>1, <2>4, <2>5, <2>6, <2>7, ReplaceKeeps
<1>2. QED
  BY <1>1, ClearKeeps DEF RunSql, Answers, ReturnCodes

LEMMA CatalogKeeps == CursorInv /\ CatalogFunction => CursorInv' /\ answer' \in ReturnCodes
<1>1. ASSUME NEW set \in CatalogSets, Replace(<<>>, <<set>>, Len(set.rows)) PROVE CursorInv'
  <2>1. set \in ResultSets /\ set.affected = -1
    BY CatalogSetsAssumption
  <2>2. Len(set.rows) = RowCountOf(set)
    BY <2>1 DEF RowCountOf, RowsAffected
  <2>3. Len(set.rows) \in Int
    BY <2>1, <2>2, RowCountType
  <2>4. response' = <<>> /\ synth' = <<set>> /\ row_count' = Len(set.rows)
    BY <1>1 DEF Replace
  <2>5. CurrentSet' = <<set>>
    BY <2>4 DEF CurrentSet
  <2>6. HasSet' /\ Set' = set
    BY <2>5 DEF HasSet, Set
  <2>7. RowCountOfCurrentSet'
    BY <2>2, <2>4, <2>6 DEF RowCountOfCurrentSet
  <2>8. <<>> \in Seq(ResultSets) /\ <<set>> \in Seq(ResultSets) /\ Len(<<set>>) <= 1
    BY <2>1
  <2>9. QED
    BY <1>1, <2>3, <2>7, <2>8, ReplaceKeeps
<1>2. QED
  BY <1>1, CursorUnchanged DEF CatalogFunction, Answers, ReturnCodes

LEMMA MoreResultsKeeps == CursorInv /\ SQLMoreResults => CursorInv' /\ answer' \in ReturnCodes
<1>1. ASSUME CursorInv, synth = <<>>, current_set + 1 < Len(response),
             current_set' = current_set + 1,
             row_count' = TakeRowCount(response[current_set + 2]),
             BeforeFirstRow, UNCHANGED <<response, synth>>
      PROVE  CursorInv'
  <2>1. response \in Seq(ResultSets) /\ current_set \in 0..Len(response) /\ Len(synth) <= 1
    BY <1>1 DEF CursorInv, Placed, Shape
  <2>2. Len(response) \in Nat
    BY <2>1
  <2>3. current_set + 2 \in 1..Len(response) /\ current_set' + 1 = current_set + 2
    BY <1>1, <2>1, <2>2
  <2>4. response[current_set + 2] \in ResultSets
    BY <2>1, <2>3
  <2>5. current_set' \in 0..Len(response') /\ current_set' < Len(response')
    BY <1>1, <2>1, <2>2
  <2>6. Shape'
    BY <1>1, <2>5 DEF Shape, CursorInv
  <2>7. CurrentSet' = <<response[current_set + 2]>>
    BY <1>1, <2>3, <2>5 DEF CurrentSet
  <2>8. HasSet' /\ Set' = response[current_set + 2]
    BY <2>7 DEF HasSet, Set
  <2>9. RowCountOfCurrentSet' /\ row_count' \in Int
    BY <1>1, <2>4, <2>8, RowCountType DEF RowCountOfCurrentSet, TakeRowCount
  <2>10. Len(synth') <= 1 /\ (synth' # <<>> => response' = <<>>)
    BY <1>1, <2>1
  <2>11. QED
    BY <1>1, <2>5, <2>6, <2>9, <2>10, BeforeFirst
<1>2. QED
  BY <1>1, CursorUnchanged DEF SQLMoreResults, Answers, ReturnCodes

\* The set the cursor is on stays while only the cursor moves.
LEMMA SameSet == ASSUME UNCHANGED resultVars PROVE HasSet' = HasSet /\ Set' = Set
<1>1. response' = response /\ synth' = synth /\ current_set' = current_set
  BY DEF resultVars
<1>2. CurrentSet' = CurrentSet
  BY <1>1 DEF CurrentSet
<1>3. QED
  BY <1>2 DEF HasSet, Set

LEMMA FetchPastLimitKeeps ==
    CursorInv /\ FetchPastLimit => CursorInv' /\ answer' \in ReturnCodes
<1> SUFFICES ASSUME CursorInv, FetchPastLimit PROVE CursorInv' /\ answer' \in ReturnCodes
  OBVIOUS
<1>1. /\ HasSet /\ current_row' = Len(Set.rows) /\ ended' = TRUE
      /\ UNCHANGED <<response, synth, current_set, row_count, getdata_col, getdata_offset>>
      /\ UNCHANGED <<fetched, piece>>
  BY DEF FetchPastLimit, PastTheEnd, resultVars, getdataVars
<1>2. HasSet' = HasSet /\ Set' = Set
  BY <1>1, SameSet DEF resultVars
<1>3. Len(Set.rows) \in Nat
  BY <1>1, SetShape
<1>4. ~(current_row' < Len(Set.rows))
  BY <1>1, <1>3
<1>5. ~Positioned'
  BY <1>2, <1>4 DEF Positioned
<1>6. Placed'
  <2>1. current_row' \in -1..Len(Set.rows)
    BY <1>1, <1>3
  <2>2. (current_row \in -1..(IF HasSet THEN Len(Set.rows) ELSE -1))'
    BY <1>1, <1>2, <2>1
  <2>3. QED
    BY <1>1, <2>2 DEF CursorInv, Placed
<1>7. Shape' /\ RowPlace' /\ RowCountOfCurrentSet'
  BY <1>1, <1>2, <1>4 DEF CursorInv, Shape, RowPlace, RowCountOfCurrentSet
<1>8. PiecesJoinUp' /\ WholeParked'
  BY <1>5 DEF PiecesJoinUp, WholeParked
<1>9. QED
  BY <1>6, <1>7, <1>8 DEF CursorInv, FetchPastLimit, Answers, ReturnCodes

\* SQLFetch goes to the next row, never past the row limit.
LEMMA FetchRowKeeps ==
    CursorInv /\ SettingsType /\ FetchRow => CursorInv' /\ answer' \in ReturnCodes
<1> SUFFICES ASSUME CursorInv, SettingsType, FetchRow PROVE CursorInv' /\ answer' \in ReturnCodes
  OBVIOUS
<1>1. /\ HasSet /\ current_row + 1 < Limit /\ current_row' = current_row + 1
      /\ getdata_col' = -1 /\ getdata_offset' = 0 /\ fetched' = fetched + 1 /\ piece' = NoPiece
      /\ UNCHANGED <<response, synth, current_set, row_count, ended>>
  BY DEF FetchRow, NothingRead, resultVars
<1>2. HasSet' = HasSet /\ Set' = Set
  BY <1>1, SameSet DEF resultVars
<1>3. /\ Set.hex \in Seq(BOOLEAN) /\ Len(Set.rows) \in Nat
      /\ current_row \in -1..Len(Set.rows)
  BY <1>1, SetShape
<1>4. max_rows \in Nat
  BY MaxRowsAssumption DEF SettingsType
<1>5. current_row + 1 < Len(Set.rows)
  BY <1>1, <1>3, <1>4 DEF Limit
<1>6. current_row < Len(Set.rows)
  BY <1>3, <1>5
<1>7. current_row + 1 = fetched /\ ~ended
  BY <1>1, <1>6 DEF CursorInv, RowPlace
<1>8. Placed'
  <2>1. current_row' \in -1..Len(Set.rows)
    BY <1>1, <1>3, <1>5
  <2>2. (current_row \in -1..(IF HasSet THEN Len(Set.rows) ELSE -1))'
    BY <1>1, <1>2, <2>1
  <2>3. fetched' \in Nat
    BY <1>1 DEF CursorInv, Placed
  <2>4. QED
    BY <1>1, <2>2, <2>3 DEF CursorInv, Placed
<1>9. RowPlace'
  BY <1>1, <1>7 DEF RowPlace
<1>10. Shape' /\ RowCountOfCurrentSet'
  BY <1>1, <1>2 DEF CursorInv, Shape, RowCountOfCurrentSet
<1>11. PiecesJoinUp' /\ WholeParked'
  <2>1. piece'.col = -1
    BY <1>1 DEF NoPiece
  <2>2. \A col \in DOMAIN Set.hex : col # -1
    BY <1>3
  <2>3. PiecesJoinUp'
    BY <1>1, <1>2, <2>1, <2>2 DEF PiecesJoinUp, From
  <2>4. WholeParked'
    BY <1>2, <2>1, <2>2 DEF WholeParked
  <2>5. QED
    BY <2>3, <2>4
<1>12. answer' \in ReturnCodes
  BY DEF FetchRow, Answers, FetchAnswer, ReturnCodes
<1>13. QED
  BY <1>8, <1>9, <1>10, <1>11, <1>12 DEF CursorInv

\* A read that delivered nothing of the value it went on with leaves the offset
\* and the last piece; any other is the new last piece, and the offset follows
\* it or, behind a value delivered whole, is past its end.
LEMMA GetDataReadKeeps == CursorInv /\ GetDataRead => CursorInv' /\ answer' \in ReturnCodes
<1> SUFFICES ASSUME CursorInv, GetDataRead PROVE CursorInv' /\ answer' \in ReturnCodes
  OBVIOUS
<1>1. Positioned /\ UNCHANGED <<resultVars, current_row, settings, fetched, ended>>
  BY DEF GetDataRead
<1>2. /\ UNCHANGED <<response, synth, current_set, row_count, current_row, fetched, ended>>
      /\ HasSet' = HasSet /\ Set' = Set
  BY <1>1, SameSet DEF resultVars
<1>3. Positioned' = Positioned /\ Row' = Row
  BY <1>2 DEF Positioned, Row
<1>4. /\ HasSet /\ Set.hex \in Seq(BOOLEAN) /\ Len(Set.hex) \in Nat
      /\ DOMAIN Set.hex = 1..Len(Set.hex)
  BY <1>1, SetShape DEF Positioned
<1>5. PICK col \in 1..Least(MaxColumns, Len(Set.hex)), read \in Reads :
         LET done == Convert(Set.hex[col], Row[col], read, From(col))
         IN  /\ getdata_col' = col
             /\ getdata_offset' = done.offset
             /\ answer' = done.answer
             /\ piece' = IF done.answer \in {"no_data", "error"} /\ piece.col = col THEN piece
                         ELSE [col |-> col, unit |-> Unit(col, read), to |-> done.to,
                               whole |-> Completes(read, Row[col], done.answer)]
  BY DEF GetDataRead, Answers
<1> DEFINE done == Convert(Set.hex[col], Row[col], read, From(col))
           unit == UnitOf(Set.hex[col], read)
           kept == done.answer \in {"no_data", "error"} /\ piece.col = col
<1>6. /\ getdata_col' = col /\ getdata_offset' = done.offset /\ answer' = done.answer
      /\ kept => piece' = piece
      /\ ~kept => piece' = [col |-> col, unit |-> Unit(col, read), to |-> done.to,
                            whole |-> Completes(read, Row[col], done.answer)]
  BY <1>5
<1>7. col \in 1..MaxColumns /\ col \in DOMAIN Set.hex
  BY <1>4, MaxColumnsAssumption DEF Least
<1>8. Row[col] \in Cells /\ Set.hex[col] \in BOOLEAN /\ From(col) \in Nat
  BY <1>1, <1>7, RowShape, FromType
<1>9. ReadAs(done, Row[col], read, Total(unit, Row[col]), From(col))
  BY <1>8, ConvertShape
<1>10. done.answer \in ReturnCodes /\ done.offset \in Nat /\ (kept => done.offset = From(col))
  BY <1>9 DEF ReadAs
<1>11. Unit(col, read) = unit /\ (unit # "value" <=> read.ctype # "long") /\ read.length \in Nat
  BY MaxLengthAssumption DEF Unit, UnitOf, Reads, Lengths
<1> HIDE DEF done, unit
<1>12. \A c : From(c)' = IF c = col THEN done.offset ELSE 0
  BY <1>6 DEF From
<1>13. Placed' /\ Shape' /\ RowPlace' /\ RowCountOfCurrentSet'
  <2>1. getdata_col' \in {-1} \cup 1..MaxColumns /\ getdata_offset' \in Nat
    BY <1>6, <1>7, <1>10
  <2>2. Placed'
    BY <1>2, <2>1 DEF CursorInv, Placed
  <2>3. QED
    BY <1>2, <2>2 DEF CursorInv, Shape, RowPlace, RowCountOfCurrentSet
<1>14. CASE kept
  <2>1. piece' = piece /\ piece.col = col /\ \A c : c = col => From(c)' = From(c)
    BY <1>6, <1>10, <1>12, <1>14
  <2>2. PiecesJoinUp'
    BY <1>1, <1>2, <1>3, <1>12, <2>1 DEF CursorInv, PiecesJoinUp
  <2>3. WholeParked'
    BY <1>1, <1>2, <1>3, <2>1 DEF CursorInv, WholeParked
  <2>4. QED
    BY <1>6, <1>10, <1>13, <2>2, <2>3 DEF CursorInv
<1>15. CASE ~kept
  <2>1. /\ piece'.col = col /\ piece'.unit = unit /\ piece'.to = done.to
        /\ piece'.whole = Completes(read, Row[col], done.answer)
    BY <1>6, <1>11, <1>15
  <2>2. ASSUME unit \in {"text", "decoded"}, ~Row[col].null
        PROVE  /\ piece'.whole => done.offset = Total(unit, Row[col]) + 1
               /\ ~piece'.whole => done.offset = done.to
    <3>1. read.ctype # "long"
      BY <1>11, <2>2
    <3>2. piece'.whole <=> done.answer = "success" /\ read.length > 0
      BY <2>1, <2>2, <3>1 DEF Completes
    <3>3. ~(read.length > 0) => read.length = 0
      BY <1>11
    <3>4. QED
      BY <1>9, <2>2, <3>1, <3>2, <3>3 DEF ReadAs
  <2>3. PiecesJoinUp'
    BY <1>2, <1>3, <1>12, <2>1, <2>2 DEF PiecesJoinUp
  <2>4. WholeParked'
    BY <1>2, <1>3, <1>12, <2>1, <2>2 DEF WholeParked
  <2>5. QED
    BY <1>6, <1>10, <1>13, <2>3, <2>4 DEF CursorInv
<1>16. QED
  BY <1>14, <1>15

LEMMA CursorStep ==
    CursorInv /\ SettingsType /\ answer \in ReturnCodes /\ [Next]_vars
    => CursorInv' /\ answer' \in ReturnCodes
<1> SUFFICES ASSUME CursorInv, SettingsType, answer \in ReturnCodes, [Next]_vars
             PROVE  CursorInv' /\ answer' \in ReturnCodes
  OBVIOUS
<1>1. CASE SQLExecDirect \/ SQLExecute
  BY <1>1, RunSqlKeeps, CursorUnchanged
     DEF SQLExecDirect, SQLExecute, SubstituteFails, Answers, ReturnCodes
<1>2. CASE SQLPrepare \/ SQLCloseCursor
  BY <1>2, ClearKeeps DEF SQLPrepare, SQLCloseCursor, Answers, ReturnCodes
<1>3. CASE CatalogFunction
  BY <1>3, CatalogKeeps
<1>4. CASE SQLMoreResults
  BY <1>4, MoreResultsKeeps
<1>5. CASE SetMaxRows \/ SQLBindCol \/ SQLFreeStmtUnbind
  BY <1>5, CursorUnchanged DEF SetMaxRows, SQLBindCol, SQLFreeStmtUnbind, Answers, ReturnCodes
<1>6. CASE SQLFetch
  BY <1>6, CursorUnchanged, FetchPastLimitKeeps, FetchRowKeeps
     DEF SQLFetch, FetchWithoutResult, Answers, ReturnCodes
<1>7. CASE SQLGetData
  BY <1>7, CursorUnchanged, GetDataReadKeeps DEF SQLGetData, GetDataRefused, Answers, ReturnCodes
<1>8. CASE UNCHANGED vars
  BY <1>8, CursorUnchanged DEF vars, Unchanged
<1>9. QED
  BY <1>1, <1>2, <1>3, <1>4, <1>5, <1>6, <1>7, <1>8 DEF Next

LEMMA SettingsStep == SettingsType /\ [Next]_vars => SettingsType'
<1> SUFFICES ASSUME SettingsType, [Next]_vars PROVE SettingsType'
  OBVIOUS
<1>1. CASE UNCHANGED settings
  BY <1>1 DEF settings, SettingsType
<1>2. CASE SQLPrepare
  BY <1>2 DEF SQLPrepare, SettingsType
<1>3. CASE SetMaxRows
  BY <1>3 DEF SetMaxRows, SettingsType
<1>4. CASE SQLBindCol
  BY <1>4 DEF SQLBindCol, SettingsType
<1>5. CASE SQLFreeStmtUnbind
  BY <1>5 DEF SQLFreeStmtUnbind, SettingsType
<1>6. QED
  BY <1>1, <1>2, <1>3, <1>4, <1>5
     DEF Next, vars, SQLExecDirect, SQLExecute, RunSql, SubstituteFails, CatalogFunction,
         SQLCloseCursor, SQLMoreResults, SQLFetch, FetchWithoutResult, FetchPastLimit, FetchRow,
         SQLGetData, GetDataRefused, GetDataRead

------------------------------------------------------------------------------
\* The theorems

LEMMA CursorHolds == Spec => [](CursorInv /\ SettingsType /\ answer \in ReturnCodes)
<1>1. CursorInv /\ SettingsType /\ answer \in ReturnCodes /\ [Next]_vars
      => (CursorInv /\ SettingsType /\ answer \in ReturnCodes)'
  BY CursorStep, SettingsStep
<1>2. QED
  BY CursorInit, <1>1, PTL DEF Spec

\* Every variable keeps its type and the cursor stays on what it is on, for
\* every answer, every bound column and every buffer (execute.c, results.c).
THEOREM CursorTypeCorrect == Spec => []CursorTypeOK
<1>1. CursorInv /\ SettingsType /\ answer \in ReturnCodes => CursorTypeOK
  BY TypeHalves DEF CursorInv
<1>2. QED
  BY CursorHolds, <1>1, PTL

\* SQLGetData only ever reads the row SQLFetch handed out last: not one that
\* SQL_ATTR_MAX_ROWS withheld, nor one left over behind SQL_NO_DATA
\* (SQLFetch parks the cursor behind the set, results.c:761-765).
THEOREM FetchedRowsOnly == Spec => []OnlyFetchedRowsRead
<1>1. CursorInv => OnlyFetchedRowsRead
  BY DEF CursorInv, RowPlace, OnlyFetchedRowsRead, Positioned
<1>2. QED
  BY CursorHolds, <1>1, PTL

\* SQLRowCount is that of the set the cursor is on, after any order of
\* executions, catalog functions and SQLMoreResults (execute.c:418-434).
THEOREM RowCountFollows == Spec => []RowCountOfCurrentSet
BY CursorHolds, PTL DEF CursorInv

\* Pieces of one value join up, and no value starts at the place of another.
THEOREM PiecesContinue == Spec => []PiecesJoinUp
BY CursorHolds, PTL DEF CursorInv

\* A value delivered in full is not delivered again by the same kind of read:
\* SQLGetData says SQL_NO_DATA (results.c:364-368).
THEOREM ValuesDeliveredOnce == Spec => []DeliveredOnce
<1>1. CursorInv => DeliveredOnce
  <2> SUFFICES ASSUME CursorInv, NEW read \in Reads, Continuing(read), piece.whole,
                      read.ctype # "long", ~Row[piece.col].null
               PROVE  NextRead(read).answer = "no_data"
    BY DEF DeliveredOnce
  <2> DEFINE col == piece.col
             unit == UnitOf(Set.hex[col], read)
  <2>1. Positioned /\ col \in DOMAIN Set.hex /\ piece.unit = Unit(col, read)
    BY DEF Continuing
  <2>2. Row[col] \in Cells /\ Set.hex[col] \in BOOLEAN /\ From(col) \in Nat
    BY <2>1, RowShape, FromType
  <2>3. piece.unit = unit /\ unit \in {"text", "decoded"}
    BY <2>1 DEF Unit, UnitOf
  <2>4. From(col) = Total(unit, Row[col]) + 1
    BY <2>1, <2>3 DEF CursorInv, WholeParked
  <2>5. Total(unit, Row[col]) \in Nat
    BY <2>2, TotalType
  <2>6. ReadAs(NextRead(read), Row[col], read, Total(unit, Row[col]), From(col))
    BY <2>2, ConvertShape DEF NextRead
  <2> HIDE DEF col, unit
  <2>7. From(col) > Total(unit, Row[col])
    BY <2>4, <2>5
  <2>8. QED
    BY <2>6, <2>7 DEF ReadAs, col
<1>2. QED
  BY CursorHolds, <1>1, PTL

\* A truncated read always gets on with the value, however small the buffer is
\* beside its characters: reading it ends (results.c:410-414).
THEOREM ReadsGetOn == Spec => []PiecesAdvance
<1>1. CursorInv => PiecesAdvance
  <2> SUFFICES ASSUME CursorInv, NEW read \in Reads, Continuing(read), read.length > 1,
                      NextRead(read).answer = "info"
               PROVE  NextRead(read).to > From(piece.col)
    BY DEF PiecesAdvance
  <2>1. Positioned /\ piece.col \in DOMAIN Set.hex
    BY DEF Continuing
  <2>2. /\ Row[piece.col] \in Cells /\ Set.hex[piece.col] \in BOOLEAN
        /\ From(piece.col) \in Nat
    BY <2>1, RowShape, FromType
  <2>3. ReadAs(NextRead(read), Row[piece.col], read,
               Total(UnitOf(Set.hex[piece.col], read), Row[piece.col]), From(piece.col))
    BY <2>2, ConvertShape DEF NextRead
  <2>4. QED
    BY <2>3 DEF ReadAs
<1>2. QED
  BY CursorHolds, <1>1, PTL

\* A buffer with room for the longest character is never filled up to the
\* middle of one, wherever earlier and smaller buffers have cut the text
\* (results.c:407-419).
THEOREM CharactersStayWhole == Spec => []CharactersWhole
<1>1. CursorInv => CharactersWhole
  <2> SUFFICES ASSUME CursorInv, NEW read \in Reads, Continuing(read), read.ctype = "char",
                      read.length > CharacterBytes, WholeCharacters(Row[piece.col].text),
                      NextRead(read).answer = "info"
               PROVE  Row[piece.col].text[NextRead(read).to + 1] # "cont"
    BY DEF CharactersWhole
  <2>1. Positioned /\ piece.col \in DOMAIN Set.hex
    BY DEF Continuing
  <2>2. /\ Row[piece.col] \in Cells /\ Set.hex[piece.col] \in BOOLEAN
        /\ From(piece.col) \in Nat
    BY <2>1, RowShape, FromType
  <2>3. QED
    BY <2>2, CutWhole DEF NextRead
<1>2. QED
  BY CursorHolds, <1>1, PTL
=============================================================================
