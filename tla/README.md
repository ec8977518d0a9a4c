# A verification development of the Frostlake ODBC driver

The driver (`src/src`, ten C files and three headers) is a shared library that a driver manager loads. It
turns ODBC calls into requests to a Frostlake engine: `POST /api/execute` with a statement and the id of
a session the engine keeps, and `DELETE /api/sessions/{id}` on disconnect. Calls are synchronous and a
connection has one of them under way at a time; the driver has no threads and no locks. What makes it
hard is the other side: the engine drops sessions when it likes, answers get lost after the engine has
acted on the request, and a statement that is sent again in the wrong place, or twice, spoils data
without anybody being told.

## 1. Inventory

| Component | State it keeps | Operations | Talks to |
|---|---|---|---|
| Session protocol, `proto.c` | in `fl_dbc`: `session_id`, `tracks_sessions`, `session_dirty`, `in_transaction`, `scope_pending`, `scope_database`, `scope_schema` | `fl_proto_execute*`, `apply_scope`, `fl_proto_release`, `fl_proto_session_reset` | HTTP exchange, JSON, session notes |
| Connection calls, `connect.c` | `connected`, `autocommit`, `database`, timeouts | connect, disconnect, `SQLEndTran`, connection attributes | session protocol |
| Session notes, `session.c` | sets `session_dirty`, `in_transaction` | `fl_session_note` | scanner of `execute.c` |
| Execution and parameters, `execute.c` | `params`, prepared text | bind, prepare, execute, `SQLMoreResults`, statement attributes | session protocol, results |
| Results and cursor, `results.c` | `response`, `current_set`, `current_row`, `getdata_col`, `getdata_offset`, bound columns | fetch, read in pieces, bind columns, describe | - |
| Handles and diagnostics, `handles.c` | handle tree, diagnostic records | allocate, free, `SQLGetDiagRec` | all |
| Catalog functions, `catalog.c` | builds `synth`, a result of its own | `SQLTables`, `SQLColumns`, `SQLGetTypeInfo`, ... | session protocol, cursor |
| HTTP exchange, `http.c` | a socket, for one exchange | `fl_http_get`, `_post`, `_delete` | engine, over addresses and time limits |
| JSON, `json.c`; utilities, `util.c` | none | parse and build; quoting, copies, type table | - |
| Engine | external | sessions | - |

Hard behaviour, component by component, and what makes it right:

* **Session protocol.** A 404 means that nothing ran; a lost answer means that nobody knows. The
  first may be recovered from, once, if the session held nothing a fresh one would not have; the
  second never. A fresh session gets the DSN's database, its schema and the commit mode, in that
  order, before anything else runs. Sessions are released on every way out of a connection.
  An engine may be too old to know `requireSession`, and may be upgraded while connected.
* **Session notes.** They are read off the text of a request, which may be a pack of statements,
  have comments anywhere and look like what it is not; a missed one makes the recovery above wrong.
* **Cursor.** Any order of execute, fetch, read, more results, close and a change of row limit is
  legal. The place in a value must survive between reads of it and nothing else.
* **Parameters.** Literals are spliced into text that is scanned, not parsed.
* **HTTP exchange.** The host has several addresses, the answer several framings, and either side
  may stop at any byte. Every way out has one socket to close; a part of an answer must not pass for
  the whole of it, because a statement is sent again or not by what the answer says.
* **JSON, catalog functions, names.** Text that others chose is read, and text is written that others
  read: nesting without end, escapes, quotes within quotes, patterns that end in a backslash.

There is no persistence in the driver and hence no crash recovery of its own; the engine's crash is
what `EngineLoses` is. `PROJECT.json` lists the hazards one by one, with the property each is for.

## 2. Modules

| Module | Models | Extends |
|---|---|---|
| `Statements` | what one request carries, to the driver and to the engine's session | - |
| `SessionProtocol` | one connection, its link and its engine (`proto.c`, `connect.c`) | `Statements` |
| `SessionProperties` | what is claimed of it | `SessionProtocol` |
| `ReliableConnection` | what an application is promised of a connection | `Statements` |
| `SessionRefinement` | the mapping from the one to the other | `SessionProperties` |
| `SessionNote` | `session.c` in full | `Statements` |
| `ResultCursor` | one statement handle (`results.c`, `execute.c`, `handles.c`) | - |
| `Parameters` | binding and substitution (`execute.c`) | - |
| `HttpExchange` | `http.c`, and what its three callers take from it | `Json` |
| `Json`, `JsonReading` | the parser of `json.c`; the same at work on a text | - |
| `JsonGrammar` | the reference the parser is compared with | `JsonReading` |
| `JsonString`, `Request` | strings read and written (`json.c`, `build_request_json`) | -, `Json` |
| `Names` | connection strings, DSNs, ports, identifiers (`connect.c`, `util.c`) | - |
| `Catalog` | `catalog.c` | - |
| `SessionSafety` | theorems: types, outcomes, no silent replacement, older engines | `SessionProperties` |
| `RefinementProofs` | theorem: the promise is implemented | `SessionSafety`, `SessionRefinement` |
| `SessionRecovery` | theorems: what a lost session leaves behind, and that statements run on the scope | `RefinementProofs` |
| `NoteProofs` | theorems: the notes | `SessionNote` |
| `CursorProofs`, `ParametersProofs`, `HttpProofs` | theorems about the module of that name | `ResultCursor`, `Parameters`, `HttpExchange` |
| `TextProofs` | theorems about what is read and written, for texts of every length | `JsonReading`, `Catalog`, `Names`, `Request` |
| `MCSession`, `MCNote`, `MCCursor`, `MCParameters`, `MCHttp`, `MCTexts` | small instances | the above |

`SessionProtocol`. `pc` says where the running call is: `idle`, in `apply_scope` (`scope`), at its
own statement (`statement`), in `fl_proto_release` (`release`). An exchange is two steps of two
parties: the driver puts a request on the `wire` (`SendScope`, `SendStatement`, `SendRelease`), the
engine turns it into an answer (`EngineRuns`, `EngineRefuses`, `EngineReleases`), and the driver
takes the answer in (`ScopeAnswered`, `Succeeded`, `Refused`, `StatementRestarts`, `ReportLost`,
...). Each of the last stands for the whole of the C code from the return of `fl_http_post` to the
next request or the return to the application, `absorb_session`, `fl_session_note` and
`track_context` included. Between any two of them the engine may lose any session (`EngineLoses`),
be upgraded (`EngineUpgraded`), and the link may take the request or the answer (`GiveUp`, which is
a timeout, a reset, or an answer that cannot be read). A request given up on may still arrive
(`late`). `do_connect` and the calls of the application share these steps; `op` and `stage` tell
them apart. The last line of variables is history: it records what really happened (in which session
the application's uncommitted work is, how often its statement ran) for the properties to compare
with what the driver believes.

`ReliableConnection` has no ids, no 404s, no scope and no link: a call runs its statement once where
the application left off, or fails and says what is known. Its state is what the application holds
on the engine and was told of (`held`: uncommitted work, a moved context), and whether the engine
still has it (`kept`). `SessionRefinement` maps the protocol to it: `held` and `kept` are read off
the history variables and the engine's live sessions; connecting is one step, taken when it
succeeds; every step of the driver's recovery is a stutter.

`SessionNote` is `fl_session_note` in full: the walk over the text, the cut at semicolons, leading
words, modifiers and object kinds. `SessionProtocol` takes all of that in one step by the closed
forms of `Statements`; the invariant `ClosedFormsAgree` is the bridge between the two. What the
requests are is a constant: a text, and what the engine does on it. `PlainlyWritten` says when the
two belong together: one kind for each statement that has any words, and each kind the one its words
read as. `MCNote` asserts it of its plain requests (an `ASSUME`, which TLC evaluates word by word,
modifiers and comments included); scripting blocks are not plain.

`ResultCursor`: results, the cursor on them, bound columns, the row limit, and `SQLGetData` down to
the byte at which each piece of a value ends. A cell is a sequence of lead and continuation bytes.
`answer` and `piece` hold what the application has seen.

`Parameters`: binding and `substitute_params`, a lexeme at a time.

`HttpExchange` is what `SessionProtocol` takes as one request and one answer of which either may be
lost. `phase` is where `http_request` is: resolving and connecting (one step per address), sending
(the head, then the body), receiving. The server's answer is a sequence of the pieces `http.c` tells
apart (status, the two framing headers, CR, LF, a chunk's size, a byte of the body), each a unit of
length; `Taken` is everything from the end of `read_all` to the caller: terminator, framing,
`decode_chunked`, `fl_json_parse`. The server may frame its document in three ways, cut it into
chunks anywhere, and close its end at any time; a send to a closed end raises SIGPIPE
(`KilledBySignal`).

`Json` reads a text token by token: the recursion of `parse_value` is the stack `open`, the place in
the innermost function is `place`. A step is a token; a string's inside is refined by `JsonString`,
where escapes and surrogate pairs are decoded into bytes. `JsonGrammar` defines what a document is
by recursion on the text, with nothing of the parser in it.

`Catalog` has one action per function: the query it makes (database, `LIKE` conditions with their
literals), the engine's reading of it (external), and the rows made of the answer. `Names` reads a
connection string over the `odbc.ini` in `DataSources`, and quotes identifiers. `Request` is the body
of the POST.

Definitions whose comment starts with "Slip:" are plausible mistakes in the operator that follows;
nothing uses them but the mutation runs, which put each in the place of its operator and expect the
property to break.

## 3. Runs

| Run | Distinct states | What it shows |
|---|---|---|
| `MCSession` | 2.0 M | no scope or a whole one, both commit modes, older engines and their upgrade part way, losses of sessions, requests and answers at any moment: a statement runs at most once, where the application left off or not at all, on the scope; the connection is usable after a loss |
| `MCSessionLate` | 1.3 M | the same for a pack stopped at either statement, with requests that arrive after the driver gave up on them: nothing is leaked, and what the application sees is a `ReliableConnection` |
| `MCSessionLive` | 0.25 M | every call returns |
| `MCNote` | 29 k | notes against the truth, and the closed forms |
| `MCCursor` | 8 k | the cursor and piecewise reading |
| `MCParameters` | 0.47 M | substitution |
| `MCHttp` | 19 k | exchanges: sockets, cut answers, framings, and that each ends |
| `MCTexts` | 2.6 M | parser against grammar; strings, names, patterns, lists and requests of every short content; the listings of a small catalog |
| `TransactionFlagTruthful`, `CatalogTruthful`, `BlocksErrOnTheSafeSide`, `LinkFailureReported` | - | four sentences of the documents that the code does not keep; see section 6 |

Bounds, and why they are enough:

* `SessionIds` has two members: the session the connection has and the one that replaces it. A third
  is never referred to: ids that are dead and forgotten are given out again (`FreshIds`).
* `Requests`: single `work` and `begin` in `MCSession`, a pack of two in `MCSessionLate`; a `use` is
  what the catalog call sends. `use` stands for everything `touches_session` accepts. Which
  statements those are is the subject of `MCNote`. `MCSessionLive` has `begin` only, of which the
  `SQLEndTran` and catalog calls are the complement: whether a call returns depends on its text only
  through the two flags.
* `MaxLate` is 0 or 1: a late request and the call that followed it are two requests in an order
  nobody wrote; each further one brings only repetitions of what the engine may do by itself.
* `posts` counts to one more than the most a call may send (`PostsAllowed`).
* `SYMMETRY` over session ids is used in runs without liveness; no id is special. The refinement is
  checked with it: its mapping does not name an id either, and the abstract specification states no
  fairness.
* `MCCursor`: values of up to five bytes with characters of one and two (`CharacterBytes` is 2), small
  buffers, two columns, two rows, one limit; every boundary of `convert_cell` (empty, exact fit, no room
  for a character, odd hex) is met. `MCParameters`: up to three markers and slots, signs in front of a
  marker and parentheses of the text's own around one.
* `MCHttp`: two addresses (one to fail, one to go on to), documents of 7 and 14 tokens of which the
  second nests and has a comma and an escaped quote in a string, up to three chunks with every cut, two
  status codes, no login timeout, so that a probe without a limit and a release with one both occur.
* `MCTexts`: `MaxDepth` is 2, so that texts of 5 tokens already meet the limit. Every text of up to
  `Long` = 4 tokens is read, and every one of up to `Longest` = 7 that has not been refused before.
  Words of up to 5 characters over seven small alphabets, each of the characters the code in question
  tells apart and one that it does not. Lengths beyond these repeat: every function here is a loop
  whose state is one of a few places.

Fairness. `SessionProtocol!FairSpec`: weak fairness of the driver's own steps (the C code runs on
until it waits) and of `GiveUp` (the socket has a timeout). It holds only for a connection whose
`request_timeout` is set, as it is to 300 seconds unless a caller says otherwise (handles.c:150):
with 0 the driver waits for ever by design. `HttpExchange!FairSpec`: weak fairness of `Driver`, which
includes `WaitTimesOut` only while the exchange has a limit; `ExchangeEnds` claims nothing of the
others. Nothing is assumed of the engine or the server.

Deadlock is checked in the passing runs but two: in `MCHttp` the process may be killed, and in
`MCTexts` a text ends at its bound.

## 4. What the properties say

`OutcomeTellsWhatRan` and `NeverSilentlyReplaced` are the promise of the README's "After a lost
session". The second compares the session a statement ran in with `txn_home` and `ctx_home`, the
sessions in which the application's uncommitted work and moved context are, as far as a successful
answer told it. `RunsOnScope` is an action property: when the engine runs the application's
statement, the session is in the database, schema and commit mode of the connection, unless the
application moved it. `doubtful` are the sessions for which a change of settings was sent and not
answered; the driver cannot know these and they are left out, as are engines that replace sessions
unasked. `NoSessionLeaked` allows for `orphans`: sessions whose id or release the link lost.
`UsableAfterLoss` uses `calm`: nothing has gone wrong since the loss was reported.

`ImplementsReliableConnection` says all of that at once, in the application's terms, and more: in
which order things may be told, that a loss once reported leaves nothing held, that a transaction
that was open is named as what is gone. It is checked for an engine that reports `newSession`; an
older one may start a session anew under its old id without saying so, and then the promise cannot
be kept by any client.

`NeverPartOfAnAnswer`: an answer cut off anywhere is an error. It does not hold in `http.c`, which
takes a short body for a whole one; it is the parser behind it that refuses what is cut off, because
the engine answers with an object. `WholeAnswerUnderstood` is the converse.

`ListedAsAsked` compares what `SQLTables` and `SQLColumns` show with the arguments as the application
wrote them, through quoting, the engine's reading and the filter on types. It claims nothing of patterns
that hold a backslash: `SQLGetInfo` reports it as the escape character (connect.c:581), `append_like`
passes it on as a character and writes no `ESCAPE` clause, and what `LIKE` makes of it then is the
engine's affair (see section 6). Such patterns are among the run's arguments, and that they reach the
engine unharmed is `TextsReachEngine`. The mistakes `ListedAsAsked` is for are in the composition;
`TextsReachEngine` and `TypeListExact` check the parts alone, on more inputs.

## 5. Proofs

Every invariant and action property of the runs `MCSession`, `MCSessionLate`, `MCNote`, `MCCursor`,
`MCParameters` and `MCHttp` is a theorem, and so are two of `MCTexts`, with most of what two more are
made of. A run shows it on the small instance, with the mutations that break it; the theorem holds for
every value of the constants the assumptions of the module admit.

**The session protocol**: every set of session ids, all requests, all DSN scopes, any number of late
requests, and, unless it says otherwise, both kinds of engine. The proofs rest on the five
assumptions `SessionProtocol` makes of its constants (`NoSessionAssumption`, `RequestsAssumption`,
`DsnScopesAssumption`, `MayBeOlderAssumption`, `MaxLateAssumption`).

* `TypeCorrect` (`SessionSafety`): `Spec => []TypeOK`. `TypeOK` is not inductive: what a step puts
  on the wire is in type because of where the call is, so it is proved together with `CallShape`
  (nothing on the wire while idle; a text while a statement runs; the place inside the scope).
* `OutcomeCorrect`: `Spec => []OutcomeTellsWhatRan`, by `OutcomeInv`, which says for every place of
  the call and every kind of answer how often the statement has run so far.
* `NeverReplaced`: `Spec => []NeverSilentlyReplaced`, by `HomesInv`: a session the application has
  something in is the one the driver has (`HeldIsCurrent`), it is asked for with `requireSession`
  and so answers or nobody does (`ResumedOrRefused`), and the driver's flags are set
  (`NotesWhatIsUncommitted`), so that a 404 makes `lose_session` refuse. Each conjunct of `HomesInv`
  has a lemma with one step per action that can disturb it.
* `OlderEngineSafe`: `Spec => []OlderEngineNeverSentTheField`, from `KnownToTrack`.
* `ImplementsPromise` (`RefinementProofs`): `Spec => ImplementsReliableConnection` for an engine that
  reports `newSession` (`MayBeOlder = FALSE`; an older one replaces sessions unasked, and the promise
  does not hold of it). The invariant is the three above with `RefinementInv`, which adds that every
  answer and every request given up on belongs to an engine that tracks sessions (`AlwaysTracked`: no
  late request brings a lost session back under its id) and that what is sent again is so for an
  application that holds nothing (`CallsOfConnection`: `lost_again` is never said of a transaction).
  From it each action is one step of the promise (`SucceededRefines`, `ReportLostRefines`, ...) or
  leaves everything the application sees as it was (`Unseen`, `Unconnected`, `EngineUnseen`).
* `CatalogFollows` (`SessionRecovery`): `Spec => []CatalogFollowsLoss`. `CatalogInv` adds that no
  statement is under way while the scope is pending, and rests on `TrackedIsDirty`: a text that moves
  the catalog also leaves the session dirty, although two places of the code look at it
  (`track_context`, `fl_session_note`).
* `UsableAgain`: `Spec => []UsableAfterLoss`. A lost session is forgotten (`LostForgotten`), so the
  next call names none that an engine could refuse; while nothing new goes wrong its answers are
  successes (`CalmCall`).
* `CallsBounded`: `Spec => []RequestsBounded`. `Budget` says for every place of a call how many
  requests can have gone out, in terms of the length of the scope and of the two flags that may each
  be raised once (`restarted`, `second`); a connect has an account of its own.
* `NothingLeaked`: `Spec => []NoSessionLeaked`, for `MayBeOlder = FALSE`: an older engine has no
  `DELETE`. `LeakInv` adds that a session the driver forgets on a 404 is gone at the engine as well
  (`GoneForGood`), which needs `AlwaysTracked` of the refinement: otherwise a late request could have
  started it again.
* `StaysOnScope`: `Spec => RunsOnScope`, an action property and the longest of the
  proofs, because the scope goes out statement by statement and a loss may start it anew at any of
  them. `ScopeInForce` says how many statements of the scope (`Reached`) are known to be in force in
  the session the driver will have once it has taken in what is on the wire (`NextId`). What it needs
  besides the invariants above: where each request's text comes from (`TextInv`), that a connection
  without a session is at the beginning of its scope (`NoSessionYet`), and that nothing of an older
  engine's sessions is left once it is upgraded (`NoOldSession`).

**The cursor** (`CursorProofs`): results of any number of sets, rows and columns, values and buffers
of every length, characters of up to `CharacterBytes` bytes for any such number. All seven theorems
(`CursorTypeCorrect`, `FetchedRowsOnly`, `RowCountFollows`, `PiecesContinue`, `ValuesDeliveredOnce`,
`ReadsGetOn`, `CharactersStayWhole`) come from `CursorInv`. `OnlyFetchedRowsRead` is not inductive:
`RowPlace` also speaks of a cursor on a row that cannot be read yet. `DeliveredOnce` needs
`WholeParked`: the offset behind a value delivered whole is one past its end, in the unit (bytes of
text, decoded bytes) that the value was read in. The lemmas below it are about `convert_cell`'s
arithmetic: `LargestOf` (the cut is one of the places allowed), `CutShape`, `ConvertShape` (what one
read answers, and where it ends), `CutWhole`.

**Parameters** (`ParametersProofs`): texts of every length, any number of markers and of slots, by
`BoundInv`, `WalkInv`, `SignsInv`, `SentInv` and `ExpansionInv`. `AllOrNothingSent` follows from
`SentInv`. `ExpansionSent` compares the walk with the recursive definition `Expansions`: the buffer
is at every moment the expansion of the text up to the place of the walk (`ExpansionInv`; that the
recursive function exists is `ExpansionExists`). `SignsStayEnclosed` needs `SignsInv`: the buffer
ends in a minus only behind one of the text's own, so that no splice meets one; it holds because
minuses that meet in a text are a comment to the scanner (`TextsAssumption`). `ParametersTypeCorrect`
and `TextSentAsWritten` complete them.

**Session notes** (`NoteProofs`): requests of any number of statements, any words and any comments
among them, as long as they are plain (`Plain`, the one hypothesis of its theorems:
`NoteTypeCorrect`, `WalkIsClosedForm`, `NothingMissed`, `NothingInvented`). They all come from
`NoteInv`. The flags half way through a text are the closed form of those of its statements that are
done (`Noted`: as many as have words and begin before `start`), and what the engine's session holds
is the closed form of the whole request (`Truthful`), so at the end of the text the two meet. One
statement more is one kind more of the closed form (`NotedNextDirty`, `NotedNextTransaction`); a
statement without words is none. That words read as what the statement does is what `Plain` says and
what TLC evaluates; `BlocksErrOnTheSafeSide` is what is left without it.

**HTTP** (`HttpProofs`): any number of addresses, any limits, any status codes, any documents, and
any cut of them into chunks. Of a document it is assumed that the parser takes it and that its last
token is a closing brace (`DocumentsAssumption`: the engine answers with one object).

* `NoSocketLeftOpen`: `Spec => []SocketsClosed`, by `HeldSocket`: one socket is held exactly while
  sending and receiving.
* `HttpTypeCorrect`, `NoPartTakenForAll` and `WholeAnswersRead`: `Spec => []HttpTypeOK`,
  `[]NeverPartOfAnAnswer` and `[]WholeAnswerUnderstood`, by `HttpInv`, whose `Sent` says that what
  the server sends is one of the `Answers` to what it was asked. The rest is about what `Taken`
  makes of the first n pieces of an answer (`AnswersFaithful`): all of them are read as the document,
  fewer as an error or as nothing. `HeadRead` finds the terminator and the framing headers.
  `ChunksRead` follows `decode_chunked` from chunk to chunk against `ChunkedFrom`, which writes them:
  a part of a chunked document decodes to an error or to something the document begins with, the
  whole of it to the document. `NoEarlierDocument` does the rest for all three framings: nothing that
  a document begins with is a document, because its closing brace closes the bracket it opened first,
  and until then one is open.

**Texts** (`TextProofs`): patterns, lists, names and statements of every length, where the run stops at
five characters.

* `ListedExactly`: `CatalogSpec => []ListedAsAsked`, for any databases, tables and arguments over any
  `Characters` that quote and backslash are among (`CharactersAssumption`, `ArgumentsAssumption`); of the
  tables it is assumed that a type is one word, so that no list cuts it in two (`TablesAssumption`).
  Patterns with the escape character are left out, as in the run (`Unescaped`). No inductive invariant is
  needed, every call starts from its arguments: it is the composition that is proved. A condition of the
  query lets through what the argument does (`ConditionMet`, by `LiteralRead`), the filter on types what
  its list names (`ListsRead`), and the rows shown are those that pass both.
* `LiteralRead`: whatever a pattern is made of, `ReadLiteral` gives it back and goes on behind the closing
  quote. `QuotesShape` says where each character of the pattern begins in the literal, doubled if it is a
  quote or a backslash; from the last such place backwards the reading gives the rest of the pattern. This
  is `ReachesEngine` for any text behind the literal that does not begin with a quote.
* `ListsRead`: `type_list_contains` walks over the list name by name, `NamesOf` cuts it at its separators.
  Between them stands `Lone`, a word alone between two separators: one turn of the loop finds the word it
  stands before or leaves it to later turns (`NameStep`, `LoneFound`), and those words are the names
  (`LoneNamed`).
* `NamesContained`: the engine reads what `Identifier` writes as one name (`BareRead`; `QuotedRead`, by
  `QuotesShape` again). A name that begins and ends with quotes is left alone only if those inside come
  in pairs, which is to say in runs of even length (`PairedEven`); then it is the quoted form of
  something (`QuotedName`).
* `StatementsHeld`: each character or escape leaves the parser inside of the string, from one piece to the
  next (`PiecesShape`, `InsideSteps`), up to the last quote.
* `DepthStaysBounded`: `ReadingSpec => []DepthBounded`, for every `MaxDepth`. It needs `Shape`: besides
  the bound, that the places behind a bracket have one open; otherwise `Close` could take from an empty
  stack.

Many of these need induction over numbers: that a recursive function of the model exists
(`ExpansionExists`, `ParsedExists`, `ChunkedExists`, `DecodingExists`, and for functions over the
places of a text `RecursionAhead`), and what it yields (`NoEarlierDocument`, `ChunksRead`,
`LiteralRead`). The library's induction rule takes an operator as a parameter, which the installed
provers cannot use; they argue by a first or a last counterexample instead (`LeastOf`, `GreatestOf`),
from the well-foundedness of `<` on the naturals.

Only model-checked:

* `CallsReturn` and `ExchangeEnds`: liveness under fairness is out of the prover's reach.
* `ParserExact`, and of `TextsReachEngine` that the whole request is a document: the grammar they are
  compared with is a RECURSIVE operator, which the prover does not take. The rest of `TextsReachEngine`,
  and `TypeListExact`, are the theorems `LiteralRead`, `NamesContained`, `StatementsHeld` and `ListsRead`;
  the properties themselves stand in `MCTexts`, which extends the grammar.
* `ConnectionStringRead` and `StringDecoded`, which stand there too, and need arithmetic on digits and on
  bytes for every length.

## 6. Where documents and code differ

Each is the counterexample of a run; `PROJECT.json` quotes the sentences.

1. `TransactionFlagTruthful`: `BEGIN; SELECT broken` is refused at its second statement. The
   transaction is open and `in_transaction` is 0, because only successful requests are noted.
2. `CatalogTruthful`: after `USE DATABASE x; COMMIT`, `SQL_ATTR_CURRENT_CATALOG` reads `x; COMMIT`.
3. `BlocksErrOnTheSafeSide`: `BEGIN CREATE TEMPORARY TABLE t ...; END` is not flagged as context.
4. `LinkFailureReported`: the server closes its end before the body of a POST is sent; the send raises
   SIGPIPE, and unless the application ignores that signal it ends instead of getting `08S01`.

Met on the way, and without a run of their own: `(SELECT ...) UNION (SELECT ...)` in manual commit
opens no transaction as far as the driver is concerned (session.c:158); `SQLGetData` of a NULL or into
a fixed-width type never answers `SQL_NO_DATA` (results.c:372); a catalog name with an underscore makes
`SQLTables` list the session's database instead (catalog.c:240); the second of two escapes is taken for
a low surrogate whatever it is (json.c:236). `SQL_SEARCH_PATTERN_ESCAPE` is a backslash (connect.c:581),
so `t\_` asks for the name `t_`; the query says `LIKE 't\\_'` without an `ESCAPE` clause, and with an
engine whose `LIKE` has no escape character of its own, as the model's (`Like`) and the Snowflake dialect
have it, that lists names of `t`, a backslash and one more character instead. It is no run, because what
the engine does is not in this repository.

## 7. Not modelled, and why

* The tree `json.c` builds, and `decode_columns` and `decode_rows`, which copy it: no state survives
  them but what `ResultCursor` starts from.
* The formats of dates and numbers, the type table, descriptors, `SQLGetInfo`, `SQLGetFunctions`,
  `SQLNativeSql`, cursor names: tables and copies.
* The diagnostic record of a handle, and the lists of a connection's and an environment's children,
  which are freed in the order the application asks for.
* Memory never runs out. Time does not pass: a timeout is a step that may happen at any moment while
  there is a limit, and how long an exchange takes (one limit per wait, not per exchange) is not said.
* The scanner that tells markers from the `?` of literals, comments, quoted names and `$$` bodies
  (`skip_non_placeholder`): `Parameters` starts from its result.
* An engine that is replaced by an older one under an open connection. The driver would go on sending it
  `requireSession`: what it knows of an engine it forgets only when the handle is connected again.
* The installer and the test programs.

## 8. Plan

Done: all components of section 1 except for what section 7 lists. To come, in this order:

1. `ParserExact` as a theorem: the grammar as a function of the places of a text instead of a
   RECURSIVE operator, and an invariant that relates the stack to it.
2. `Handles`: the tree of handles, with calls on a handle whose parent is gone.
