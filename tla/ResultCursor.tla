----------------------------- MODULE ResultCursor -----------------------------
(***************************************************************************)
(* A statement handle between executions: the results it holds, the        *)
(* forward-only cursor on them, and the reading of values piece by piece   *)
(* (execute.c, results.c, handles.c, the ends of catalog.c's functions).   *)
(*                                                                         *)
(* A result set is [hex, rows, affected]: which columns are BINARY and so  *)
(* cross as hex digits, the rows, and the sum of its "number of rows ..."  *)
(* columns, or -1 without one. A cell is [null, text, number]; its text is *)
(* a sequence of bytes, each "lead" (starting a UTF-8 character) or        *)
(* "cont", and number says whether it reads as an integer. Hex digits are  *)
(* taken to be hex digits.                                                 *)
(***************************************************************************)
EXTENDS Integers, Sequences, FiniteSets

CONSTANTS
    Responses,      \* what an execution may be answered: sequences of sets
    CatalogSets,    \* what a catalog function may build
    MaxColumns,     \* bound: columns the application names
    MaxLength,      \* bound: buffer lengths the application passes
    Bindings,       \* what it binds a column to: [ctype, length, indicator]
    MaxRowsValues,  \* what it sets SQL_ATTR_MAX_ROWS to
    CharacterBytes  \* the longest character of a text, in bytes

Cells == [null : BOOLEAN, text : Seq({"lead", "cont"}), number : BOOLEAN]

\* decode_rows gives every row one cell for each column, whatever the row of
\* the answer holds.
ResultSets ==
    {set \in [hex : Seq(BOOLEAN), rows : Seq(Seq(Cells)), affected : Int] :
        \A i \in DOMAIN set.rows : Len(set.rows[i]) = Len(set.hex)}

ASSUME ResponsesAssumption == Responses \subseteq Seq(ResultSets)
ASSUME CatalogSetsAssumption ==
    CatalogSets \subseteq {set \in ResultSets : set.affected = -1}
ASSUME MaxColumnsAssumption == MaxColumns \in Nat \ {0}
ASSUME MaxLengthAssumption == MaxLength \in Nat
ASSUME MaxRowsAssumption == MaxRowsValues \subseteq Nat
ASSUME CharacterBytesAssumption == CharacterBytes \in Nat \ {0}

VARIABLES
    response,       \* the sets of the last execution; <<>> without one
    synth,          \* a locally built set: <<set>>, or <<>>
    current_set,    \* index into response, from 0
    current_row,    \* index into the set's rows, from 0; -1 before the first
    row_count, getdata_col, getdata_offset,
    max_rows, prepared, bound_cols,
    answer,         \* what the last call returned
    \* history
    fetched,        \* rows SQLFetch has handed out of this set
    ended,          \* it has answered SQL_NO_DATA on it
    piece           \* of the current row, what SQLGetData last read

resultVars == <<response, synth, current_set, row_count>>
getdataVars == <<getdata_col, getdata_offset>>
settings == <<max_rows, prepared, bound_cols>>
vars == <<resultVars, current_row, getdataVars, settings, answer, fetched, ended, piece>>

------------------------------------------------------------------------------
\* Data

CTypes == {"char", "binary", "long"}
Lengths == 0..MaxLength
ReturnCodes == {"success", "info", "no_data", "error"}
Unbound == [ctype |-> "none", length |-> 0, indicator |-> FALSE]
NoPiece == [col |-> -1, unit |-> "none", to |-> 0, whole |-> FALSE]

\* fl_stmt_current_set, as a sequence: <<set>> or, without one, <<>>.
CurrentSet ==
    IF synth # <<>> THEN synth
    ELSE IF current_set < Len(response) THEN <<response[current_set + 1]>> ELSE <<>>

HasSet == CurrentSet # <<>>
Set == CurrentSet[1]
Positioned == HasSet /\ current_row >= 0 /\ current_row < Len(Set.rows)
Row == Set.rows[current_row + 1]

\* fl_rows_affected: a set without rows has no count to offer.
RowsAffected(set) == IF set.rows = <<>> THEN -1 ELSE set.affected

\* Slip: the rows are counted, whatever they say.
CountRows(set) == Len(set.rows)

RowCountOf(set) == IF RowsAffected(set) >= 0 THEN RowsAffected(set) ELSE Len(set.rows)

TakeRowCount(set) == RowCountOf(set)

Least(a, b) == IF a <= b THEN a ELSE b

------------------------------------------------------------------------------
\* convert_cell: what a read is answered, the bytes up to which it delivers,
\* and the offset it leaves. `from` is where it starts.

Converted(code, to, offset) == [answer |-> code, to |-> to, offset |-> offset]

\* Slip: a piece of text is cut where the buffer ends.
CutAnywhere(text, from, room) == room

\* Slip: not even one byte goes out when a whole character will not fit.
CutOrNothing(text, from, room) ==
    CHOOSE whole \in 0..room :
        /\ whole = 0 \/ text[from + whole + 1] # "cont"
        /\ \A longer \in (whole + 1)..room : text[from + longer + 1] = "cont"

\* Up to `room` bytes, cut before a character that does not fit whole.
CutAtCharacter(text, from, room) ==
    LET fits == {n \in 1..room : text[from + n + 1] # "cont"}
    IN  IF fits = {} THEN room
        ELSE CHOOSE n \in fits : \A longer \in fits : longer <= n

\* Slip: a value delivered in full leaves the offset at its end.
ParkedAtTheEnd(total) == total

\* One past any position of the value: what the next read takes for its end.
Parked(total) == total + 1

Piece(total, from, copy) ==
    IF from + copy < total THEN Converted("info", from + copy, from + copy)
    ELSE Converted("success", total, Parked(total))

ConvertChar(cell, length, from) ==
    LET total == Len(cell.text)
        room == length - 1
    IN  IF from > total THEN Converted("no_data", from, from)
        ELSE IF length = 0 THEN Converted("success", from, from)
        ELSE Piece(total, from, IF total - from <= room THEN total - from
                                ELSE CutAtCharacter(cell.text, from, room))

ConvertBinary(hex, cell, length, from) ==
    LET total == IF hex THEN Len(cell.text) \div 2 ELSE Len(cell.text)
    IN  IF from > total THEN Converted("no_data", from, from)
        ELSE IF length = 0 THEN Converted("success", from, from)
        ELSE Piece(total, from, Least(total - from, length))

\* The fixed-width types leave the offset alone; the integers stand for them.
ConvertFixed(cell, from) ==
    Converted(IF cell.number THEN "success" ELSE "error", from, from)

Convert(hex, cell, read, from) ==
    IF cell.null
    THEN Converted(IF read.indicator THEN "success" ELSE "error", from, from)
    ELSE CASE read.ctype = "char" -> ConvertChar(cell, read.length, from)
           [] read.ctype = "binary" -> ConvertBinary(hex, cell, read.length, from)
           [] read.ctype = "long" -> ConvertFixed(cell, from)

------------------------------------------------------------------------------
\* What several calls do

\* Slip: where the last SQLGetData stopped outlives its row.
KeepReading == UNCHANGED getdataVars

NothingRead == getdata_col' = -1 /\ getdata_offset' = 0

\* Slip: the row of the old results is the current one of the new.
OnTheOldRow ==
    /\ UNCHANGED current_row
    /\ NothingRead
    /\ fetched' = 0
    /\ ended' = FALSE
    /\ piece' = NoPiece

BeforeFirstRow ==
    /\ current_row' = -1
    /\ NothingRead
    /\ fetched' = 0
    /\ ended' = FALSE
    /\ piece' = NoPiece

\* fl_stmt_clear_results, ahead of new results or of none.
Replace(sets, built, count) ==
    /\ response' = sets
    /\ synth' = built
    /\ current_set' = 0
    /\ row_count' = count
    /\ BeforeFirstRow

ClearResults == Replace(<<>>, <<>>, -1)

Answers(code) == answer' = code

Unchanged == UNCHANGED <<resultVars, current_row, getdataVars, fetched, ended, piece>>

------------------------------------------------------------------------------
\* Executing

\* run_sql: cleared before the request goes out, filled when it is answered.
RunSql ==
    /\ \/ \E sets \in Responses :
            /\ Replace(sets, <<>>, IF sets = <<>> THEN 0 ELSE TakeRowCount(sets[1]))
            /\ Answers("success")
       \/ ClearResults /\ Answers("error")
    /\ UNCHANGED settings

\* A parameter that does not convert fails the call before run_sql.
SubstituteFails ==
    /\ Answers("error")
    /\ Unchanged
    /\ UNCHANGED settings

SQLExecDirect == RunSql \/ SubstituteFails

SQLExecute ==
    \/ prepared /\ (RunSql \/ SubstituteFails)
    \/ ~prepared /\ Answers("error") /\ Unchanged /\ UNCHANGED settings

SQLPrepare ==
    /\ ClearResults
    /\ prepared' = TRUE
    /\ Answers("success")
    /\ UNCHANGED <<max_rows, bound_cols>>

\* A catalog function runs its query first and installs a set built of the
\* answer last: one that fails leaves the results there were.
CatalogFunction ==
    /\ \/ \E set \in CatalogSets :
            Replace(<<>>, <<set>>, Len(set.rows)) /\ Answers("success")
       \/ Unchanged /\ Answers("error")
    /\ UNCHANGED settings

\* SQLCloseCursor, and SQLFreeStmt(SQL_CLOSE)
SQLCloseCursor ==
    /\ ClearResults
    /\ Answers("success")
    /\ UNCHANGED settings

SQLMoreResults ==
    /\ UNCHANGED settings
    /\ \/ /\ synth # <<>> \/ current_set + 1 >= Len(response)
          /\ Answers("no_data")
          /\ Unchanged
       \/ /\ synth = <<>>
          /\ current_set + 1 < Len(response)
          /\ current_set' = current_set + 1
          /\ row_count' = TakeRowCount(response[current_set + 2])
          /\ BeforeFirstRow
          /\ Answers("success")
          /\ UNCHANGED <<response, synth>>

------------------------------------------------------------------------------
\* Settings

SetMaxRows ==
    /\ \E rows \in MaxRowsValues : max_rows' = rows
    /\ Answers("success")
    /\ Unchanged
    /\ UNCHANGED <<prepared, bound_cols>>

\* A NULL target unbinds; so does SQLFreeStmt(SQL_UNBIND), every column.
SQLBindCol ==
    /\ \E col \in 1..MaxColumns, target \in Bindings \cup {Unbound} :
            bound_cols' = [bound_cols EXCEPT ![col] = target]
    /\ Answers("success")
    /\ Unchanged
    /\ UNCHANGED <<max_rows, prepared>>

SQLFreeStmtUnbind ==
    /\ bound_cols' = [col \in 1..MaxColumns |-> Unbound]
    /\ Answers("success")
    /\ Unchanged
    /\ UNCHANGED <<max_rows, prepared>>

------------------------------------------------------------------------------
\* Fetching

Limit ==
    IF max_rows > 0 /\ Len(Set.rows) > max_rows THEN max_rows ELSE Len(Set.rows)

\* Slip: parked on the row limit, inside the set.
ParkOnLimit == Limit

PastTheEnd == Len(Set.rows)

\* The bound columns in order, each from its beginning: the first that fails
\* is what SQLFetch answers.
BoundAnswers(row) ==
    {Convert(Set.hex[col], row[col], bound_cols[col], 0).answer :
        col \in {n \in 1..Least(MaxColumns, Len(Set.hex)) : bound_cols[n] # Unbound}}

FetchAnswer(row) ==
    IF "error" \in BoundAnswers(row) THEN "error"
    ELSE IF "info" \in BoundAnswers(row) THEN "info" ELSE "success"

FetchWithoutResult ==
    /\ ~HasSet
    /\ Answers("error")
    /\ Unchanged
    /\ UNCHANGED settings

FetchPastLimit ==
    /\ HasSet
    /\ current_row + 1 >= Limit
    /\ current_row' = PastTheEnd
    /\ ended' = TRUE
    /\ Answers("no_data")
    /\ UNCHANGED <<resultVars, getdataVars, settings, fetched, piece>>

FetchRow ==
    /\ HasSet
    /\ current_row + 1 < Limit
    /\ current_row' = current_row + 1
    /\ NothingRead
    /\ fetched' = fetched + 1
    /\ piece' = NoPiece
    /\ Answers(FetchAnswer(Set.rows[current_row + 2]))
    /\ UNCHANGED <<resultVars, settings, ended>>

SQLFetch == FetchWithoutResult \/ FetchPastLimit \/ FetchRow

------------------------------------------------------------------------------
\* SQLGetData

Reads == [ctype : CTypes, length : Lengths, indicator : BOOLEAN]

\* Character and byte positions differ in the columns that cross as hex.
Unit(col, read) ==
    IF read.ctype = "long" THEN "value"
    ELSE IF Set.hex[col] /\ read.ctype = "binary" THEN "decoded" ELSE "text"

\* Slip: another column goes on where this one stopped.
FromTheLastColumn(col) == getdata_offset

From(col) == IF getdata_col = col THEN getdata_offset ELSE 0

\* Not on a row, or no such column: there is always one to name.
GetDataRefused ==
    /\ Answers("error")
    /\ Unchanged
    /\ UNCHANGED settings

\* A probe of length 0 delivers nothing and completes nothing.
Completes(read, cell, code) ==
    code = "success" /\ (cell.null \/ read.ctype = "long" \/ read.length > 0)

GetDataRead ==
    /\ Positioned
    /\ \E col \in 1..Least(MaxColumns, Len(Set.hex)), read \in Reads :
        LET done == Convert(Set.hex[col], Row[col], read, From(col))
        IN  /\ getdata_col' = col
            /\ getdata_offset' = done.offset
            /\ Answers(done.answer)
            /\ piece' = IF done.answer \in {"no_data", "error"} /\ piece.col = col THEN piece
                        ELSE [col |-> col, unit |-> Unit(col, read), to |-> done.to,
                              whole |-> Completes(read, Row[col], done.answer)]
    /\ UNCHANGED <<resultVars, current_row, settings, fetched, ended>>

SQLGetData == GetDataRefused \/ GetDataRead

------------------------------------------------------------------------------
\* alloc_stmt
Init ==
    /\ response = <<>>
    /\ synth = <<>>
    /\ current_set = 0
    /\ current_row = -1
    /\ row_count = -1
    /\ getdata_col = -1
    /\ getdata_offset = 0
    /\ max_rows = 0
    /\ prepared = FALSE
    /\ bound_cols = [col \in 1..MaxColumns |-> Unbound]
    /\ answer = "success"
    /\ fetched = 0
    /\ ended = FALSE
    /\ piece = NoPiece

Next ==
    \/ SQLExecDirect \/ SQLPrepare \/ SQLExecute \/ CatalogFunction
    \/ SQLCloseCursor \/ SQLMoreResults
    \/ SetMaxRows \/ SQLBindCol \/ SQLFreeStmtUnbind
    \/ SQLFetch \/ SQLGetData

Spec == Init /\ [][Next]_vars

------------------------------------------------------------------------------
\* Every variable keeps its type, and the cursor stays within what it is on.
CursorTypeOK ==
    /\ Len(synth) <= 1
    /\ synth # <<>> => response = <<>>
    /\ current_set \in 0..Len(response)
    /\ current_row \in -1..(IF HasSet THEN Len(Set.rows) ELSE -1)
    /\ row_count \in Int
    /\ getdata_col \in {-1} \cup 1..MaxColumns
    /\ getdata_offset \in Nat
    /\ max_rows \in MaxRowsValues \cup {0}
    /\ prepared \in BOOLEAN
    /\ bound_cols \in [1..MaxColumns -> Bindings \cup {Unbound}]
    /\ answer \in ReturnCodes
    /\ fetched \in Nat /\ ended \in BOOLEAN

\* The row SQLGetData reads is the last one SQLFetch handed out of this set: it
\* is never one before the first, one the row limit withheld, or one left over
\* when SQLFetch has said there are no more (SQLFetch, results.c:761-765).
OnlyFetchedRowsRead == Positioned => current_row + 1 = fetched /\ ~ended

\* SQLRowCount speaks of the set the cursor is on, also after SQLMoreResults:
\* the rows a statement changed, or else the rows there are.
RowCountOfCurrentSet ==
    IF HasSet THEN row_count = RowCountOf(Set) ELSE row_count \in {-1, 0}

\* SQLGetData goes on where its last piece of this value ended, and starts any
\* other value at its beginning: no row, column or result set picks up the
\* place of an earlier one.
PiecesJoinUp ==
    Positioned =>
        \A col \in DOMAIN Set.hex :
            IF piece.col # col THEN From(col) = 0
            ELSE piece.unit \in {"text", "decoded"} /\ ~Row[col].null /\ ~piece.whole
                 => From(col) = piece.to

\* The reads that would go on with what the last one read.
Continuing(read) == Positioned /\ piece.col \in DOMAIN Set.hex /\ piece.unit = Unit(piece.col, read)

NextRead(read) ==
    Convert(Set.hex[piece.col], Row[piece.col], read, From(piece.col))

\* A value of characters or bytes is delivered once: after its last piece the
\* same read answers SQL_NO_DATA, an empty value included (results.c:364-368).
DeliveredOnce ==
    \A read \in Reads :
        Continuing(read) /\ piece.whole /\ read.ctype # "long" /\ ~Row[piece.col].null
        => NextRead(read).answer = "no_data"

\* A truncated piece leaves less to read, however little room it has for
\* characters of several bytes: a read can always finish (results.c:410-414).
PiecesAdvance ==
    \A read \in Reads :
        Continuing(read) /\ read.length > 1 /\ NextRead(read).answer = "info"
        => NextRead(read).to > From(piece.col)

\* A text whose characters are whole: no run of continuing bytes is longer
\* than a character's.
WholeCharacters(text) ==
    \A i \in 1..(Len(text) - CharacterBytes + 1) :
        \E j \in i..(i + CharacterBytes - 1) : text[j] # "cont"

\* With room for a whole character no piece of text ends inside one, wherever
\* the pieces before it ended (results.c:407-419).
CharactersWhole ==
    \A read \in Reads :
        Continuing(read) /\ read.ctype = "char" /\ read.length > CharacterBytes
        /\ WholeCharacters(Row[piece.col].text) /\ NextRead(read).answer = "info"
        => Row[piece.col].text[NextRead(read).to + 1] # "cont"
=============================================================================
