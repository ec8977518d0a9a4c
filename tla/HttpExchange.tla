----------------------------- MODULE HttpExchange -----------------------------
(***************************************************************************)
(* One exchange with the server after another: http_request (http.c) over  *)
(* POSIX sockets, and what its callers take from it: do_connect's health   *)
(* probe, post and fl_proto_release. SessionProtocol takes all of this as  *)
(* one request and one answer, either of which may be lost.                *)
(*                                                                         *)
(* The server's answer is a sequence of the pieces that matter to http.c:  *)
(*   <<"status", code>>      HTTP/1.1 and the status code                  *)
(*   <<"length", n>>         Content-Length: n                             *)
(*   <<"chunked", 0>>        Transfer-Encoding: chunked                    *)
(*   <<"CR", 0>> <<"LF", 0>>                                               *)
(*   <<"size", n>>           a chunk's size                                *)
(*   <<"byte", token>>       one of Json's tokens                          *)
(* each as long as one unit of Content-Length and of a chunk's size.       *)
(***************************************************************************)
EXTENDS Json, SequencesExt, TLC

CONSTANTS
    Addresses,      \* how many addresses the host resolves to
    LoginTimeout, RequestTimeout,   \* of the connection, 0 = none
    ReleaseLimit,   \* RELEASE_LIMIT
    Documents,      \* what the engine answers: JSON objects, as tokens
    Statuses,       \* with one of these codes
    MaxChunks       \* bound: chunks of a chunked answer

ASSUME AddressesAssumption == Addresses \in Nat
ASSUME TimeoutsAssumption ==
    LoginTimeout \in Nat /\ RequestTimeout \in Nat /\ ReleaseLimit \in Nat \ {0}
ASSUME StatusesAssumption == Statuses \subseteq Nat
\* An answer is one object that the parser can read, with nothing behind it.
ASSUME DocumentsAssumption ==
    \A document \in Documents :
        /\ document \in Seq(Tokens) /\ document # <<>>
        /\ document[Len(document)] = "endbrace"
        /\ IsDocument(document)

VARIABLES
    call,       \* "none", or which of the callers waits
    phase,      \* "idle", "connect", "send", "receive", or "killed"
    address,    \* the address tried next
    sockets,    \* how many are open
    unsent,     \* pieces of the request to send: the head, the body
    peer,       \* the server's end: "open", "finished" or "reset"
    said,       \* the document the engine answers with, and its status
    meant,      \* the same as it is sent
    received,   \* how much of that has arrived
    outcome, reply      \* what the caller makes of it

vars == <<call, phase, address, sockets, unsent, peer, said, meant, received, outcome, reply>>

Calls == {"health", "execute", "release"}

NoReply == [status |-> 0, text |-> <<>>]

\* Slip: five seconds matter only when neither timeout is set.
LimitOfTimeouts(c) ==
    CASE c = "health" -> LoginTimeout
      [] c = "execute" -> RequestTimeout
      [] c = "release" -> Min({LoginTimeout, RequestTimeout})

\* The timeout each caller asks for: a release always has one.
Limit(c) ==
    CASE c = "health" -> LoginTimeout
      [] c = "execute" -> RequestTimeout
      [] c = "release" ->
            LET login == IF LoginTimeout > 0 THEN Min({LoginTimeout, ReleaseLimit}) ELSE ReleaseLimit
            IN  IF RequestTimeout > 0 THEN Min({RequestTimeout, login}) ELSE login

\* Only a POST has a body, and it is sent by a call of its own.
PiecesOf(c) == IF c = "execute" THEN 2 ELSE 1

------------------------------------------------------------------------------
\* The engine's answers (external), with either of the framings http.h names,
\* or neither: its end is then where the connection ends.

CR == <<"CR", 0>>
LF == <<"LF", 0>>
End == <<CR, LF>>
Line(piece) == <<piece, CR, LF>>
Bytes(document) == [i \in DOMAIN document |-> <<"byte", document[i]>>]

\* The document from each of its places on, in chunks that end at `cuts`.
ChunkedFrom(document, cuts) ==
    LET end == Len(document)
        from[at \in 0..end] ==
            LET next == Min({cut \in cuts \cup {end} : cut > at})
            IN  IF at = end THEN Line(<<"size", 0>>) \o End
                ELSE Line(<<"size", next - at>>) \o Bytes(SubSeq(document, at + 1, next))
                     \o End \o from[next]
    IN  from

Cuts(document) ==
    {cuts \in SUBSET (1..Len(document) - 1) : Cardinality(cuts) < MaxChunks}

\* The head of an answer, without a framing header and with one.
PlainHead(status) == <<<<"status", status>>, CR, LF, CR, LF>>
FramedHead(status, field) == <<<<"status", status>>, CR, LF, field, CR, LF, CR, LF>>

Answers(status, document) ==
    {PlainHead(status) \o Bytes(document),
     FramedHead(status, <<"length", Len(document)>>) \o Bytes(document)}
    \cup {FramedHead(status, <<"chunked", 0>>) \o ChunkedFrom(document, cuts)[0]
            : cuts \in Cuts(document)}

------------------------------------------------------------------------------
\* What http_request and post make of what they read.

\* memmem: where `sought` first stands in `s`, from position `from` on; 0 if nowhere.
Find(s, sought, from) ==
    LET found == {i \in from..Len(s) - Len(sought) + 1 :
                    SubSeq(s, i, i + Len(sought) - 1) = sought}
    IN  IF found = {} THEN 0 ELSE Min(found)

BehindBreak(s, at) == IF Find(s, End, at) = at THEN at + 2 ELSE at

\* find_header, within the lines before the terminator.
HeadersNamed(head, name) == {i \in DOMAIN head : head[i][1] = name}

\* strtol(16): what is no number is 0.
ChunkSize(body, at) == IF body[at][1] = "size" THEN body[at][2] ELSE 0

Malformed == [ok |-> FALSE, body |-> <<>>]
Decoded(body) == [ok |-> TRUE, body |-> body]

\* Slip: the line break behind a chunk is taken for the next size line.
DecodeKeepingBreaks(body) ==
    LET from[at \in 1..Len(body) + 1] ==
            LET end == Find(body, End, at)
                start == end + 2
                size == ChunkSize(body, at)
                rest == from[start + size]
            IN  IF at > Len(body) THEN Decoded(<<>>)
                ELSE IF end = 0 THEN Malformed
                ELSE IF size = 0 THEN Decoded(<<>>)
                ELSE IF start + size - 1 > Len(body) THEN Malformed
                ELSE [rest EXCEPT !.body = SubSeq(body, start, start + size - 1) \o @]
    IN  from[1]

\* decode_chunked. It ends with the chunk of size 0, or with the text behind
\* any chunk: that no more came is not noticed here.
DecodeChunked(body) ==
    LET from[at \in 1..Len(body) + 1] ==
            LET end == Find(body, End, at)
                start == end + 2
                size == ChunkSize(body, at)
                next == start + size
                rest == from[BehindBreak(body, next)]
            IN  IF at > Len(body) THEN Decoded(<<>>)
                ELSE IF end = 0 THEN Malformed
                ELSE IF size = 0 THEN Decoded(<<>>)
                ELSE IF next - 1 > Len(body) THEN Malformed
                ELSE [rest EXCEPT !.body = SubSeq(body, start, next - 1) \o @]
    IN  from[1]

\* The body by its framing. A declared length only ever shortens it: fewer
\* bytes than declared are taken for all.
Body(head, payload) ==
    LET length == HeadersNamed(head, "length")
    IN  IF HeadersNamed(head, "chunked") # {} THEN DecodeChunked(payload)
        ELSE IF length # {} /\ head[Min(length)][2] <= Len(payload)
             THEN Decoded(SubSeq(payload, 1, head[Min(length)][2]))
        ELSE Decoded(payload)

\* The text a body is, for the JSON parser.
Text(body) ==
    [i \in DOMAIN body |->
        CASE body[i][1] = "byte" -> body[i][2]
          [] body[i][1] = "size" -> "number"
          [] OTHER -> "space"]

\* What the answer that was read says to the caller: post wants a document,
\* do_connect the status only, fl_proto_release nothing.
Taken(c, raw) ==
    LET terminator == Find(raw, <<CR, LF, CR, LF>>, 1)
        head == SubSeq(raw, 1, terminator + 1)
        body == Body(head, SubSeq(raw, terminator + 4, Len(raw)))
    IN  IF terminator = 0 \/ raw[1][1] # "status" \/ ~body.ok THEN NoReply
        ELSE IF c = "health" THEN [status |-> raw[1][2], text |-> <<>>]
        ELSE IF ~IsDocument(Text(body.body)) THEN NoReply
        ELSE [status |-> raw[1][2], text |-> Text(body.body)]

------------------------------------------------------------------------------
\* The caller is back: with an answer, or with the error http_request found.
Return(taken) ==
    /\ reply' = taken
    /\ outcome' = CASE call = "release" -> "none"
                    [] taken = NoReply -> "link"
                    [] call = "health" /\ taken.status # 200 -> "link"
                    [] OTHER -> "answered"
    /\ phase' = "idle"
    /\ UNCHANGED call

Begin(c) ==
    /\ phase = "idle"
    /\ call' = c
    /\ phase' = "connect"
    /\ address' = 1
    /\ unsent' = PiecesOf(c)
    /\ peer' = "open"
    /\ said' = NoReply
    /\ meant' = <<>>
    /\ received' = 0
    /\ outcome' = "none"
    /\ reply' = NoReply
    /\ UNCHANGED sockets

\* getaddrinfo finds nothing, or every address was tried in vain.
CannotConnect ==
    /\ phase = "connect"
    /\ address = 1 \/ address > Addresses
    /\ Return(NoReply)
    /\ UNCHANGED <<address, sockets, unsent, peer, said, meant, received>>

\* Slip: the socket of an address in vain is not closed.
AddressFailsUnclosed ==
    /\ phase = "connect"
    /\ address <= Addresses
    /\ address' = address + 1
    /\ sockets' = sockets + 1
    /\ UNCHANGED <<call, phase, unsent, peer, said, meant, received, outcome, reply>>

\* Slip: the list of addresses is walked past its end.
AddressFailsAtTheEnd ==
    /\ phase = "connect"
    /\ address' = address + 1
    /\ UNCHANGED <<call, phase, sockets, unsent, peer, said, meant, received, outcome, reply>>

\* No socket, or no connection before the timeout: on to the next address.
AddressFails ==
    /\ phase = "connect"
    /\ address <= Addresses
    /\ address' = address + 1
    /\ UNCHANGED <<call, phase, sockets, unsent, peer, said, meant, received, outcome, reply>>

AddressConnects ==
    /\ phase = "connect"
    /\ address <= Addresses
    /\ sockets' = sockets + 1
    /\ phase' = "send"
    /\ address' = 1
    /\ UNCHANGED <<call, unsent, peer, said, meant, received, outcome, reply>>

\* send_all: a piece goes out whole. To a peer that has closed its end the
\* first one still does, and is answered with a reset.
Send ==
    /\ phase = "send"
    /\ peer # "reset"
    /\ unsent' = unsent - 1
    /\ phase' = IF unsent = 1 THEN "receive" ELSE "send"
    /\ peer' \in (IF peer = "finished" THEN {"finished", "reset"} ELSE {peer})
    /\ UNCHANGED <<call, address, sockets, said, meant, received, outcome, reply>>

\* The next send raises SIGPIPE, which the application may have left as it
\* is: flags is 0 in http.c:83.
KilledBySignal ==
    /\ phase = "send"
    /\ peer = "reset"
    /\ phase' = "killed"
    /\ sockets' = 0
    /\ UNCHANGED <<call, address, unsent, peer, said, meant, received, outcome, reply>>

\* close, and what was read is freed.
Gone == peer' = "open" /\ meant' = <<>> /\ received' = 0

Fail ==
    /\ sockets' = sockets - 1
    /\ Return(NoReply)
    /\ Gone
    /\ UNCHANGED <<address, unsent, said>>

\* A reset, an unreachable network, a signal handler of the application's.
LinkFails == phase \in {"send", "receive"} /\ Fail

\* SO_SNDTIMEO, SO_RCVTIMEO: one wait lasted as long as the limit.
WaitTimesOut == phase \in {"send", "receive"} /\ Limit(call) > 0 /\ Fail

\* What one recv brings is read here bit by bit.
Receive ==
    /\ phase = "receive"
    /\ peer = "open"
    /\ received < Len(meant)
    /\ received' = received + 1
    /\ UNCHANGED <<call, phase, address, sockets, unsent, peer, said, meant, outcome, reply>>

\* recv answers 0: what has arrived is the answer.
ReadToEnd ==
    /\ phase = "receive"
    /\ peer # "open"
    /\ sockets' = sockets - 1
    /\ Return(Taken(call, SubSeq(meant, 1, received)))
    /\ Gone
    /\ UNCHANGED <<address, unsent, said>>

------------------------------------------------------------------------------
\* The server (external)

ServerAnswers ==
    /\ phase = "receive"
    /\ peer = "open"
    /\ meant = <<>>
    /\ \E status \in Statuses,
          document \in IF call = "execute" THEN Documents ELSE {<<"brace", "endbrace">>} :
        /\ said' = [status |-> status, text |-> document]
        /\ meant' \in Answers(status, document)
    /\ UNCHANGED <<call, phase, address, sockets, unsent, peer, received, outcome, reply>>

\* Its end of the connection is closed: behind the answer, as it was asked
\* to, or at any time, when it stops.
ServerCloses ==
    /\ phase \in {"send", "receive"}
    /\ peer = "open"
    /\ peer' = "finished"
    /\ UNCHANGED <<call, phase, address, sockets, unsent, said, meant, received, outcome, reply>>

------------------------------------------------------------------------------
Init ==
    /\ call = "none"
    /\ phase = "idle"
    /\ address = 1
    /\ sockets = 0
    /\ unsent = 0
    /\ peer = "open"
    /\ said = NoReply
    /\ meant = <<>>
    /\ received = 0
    /\ outcome = "none"
    /\ reply = NoReply

Driver ==
    \/ CannotConnect \/ AddressFails \/ AddressConnects
    \/ Send \/ KilledBySignal \/ WaitTimesOut \/ Receive \/ ReadToEnd

Server == ServerAnswers \/ ServerCloses

Next == (\E c \in Calls : Begin(c)) \/ Driver \/ LinkFails \/ Server

Spec == Init /\ [][Next]_vars

\* The driver runs on until it waits, and waits no longer than the timeout.
FairSpec == Spec /\ WF_vars(Driver)

------------------------------------------------------------------------------
HttpTypeOK ==
    /\ call \in Calls \cup {"none"}
    /\ phase \in {"idle", "connect", "send", "receive", "killed"}
    /\ address \in 1..Addresses + 1
    /\ sockets \in Nat
    /\ unsent \in 0..2
    /\ peer \in {"open", "finished", "reset"}
    /\ received \in 0..Len(meant)
    /\ outcome \in {"none", "answered", "link"}

\* However an exchange ends, it leaves no socket open, and it never has two
\* (connect_to and every return of http_request, http.c:179-217).
SocketsClosed ==
    /\ sockets <= 1
    /\ phase \in {"idle", "connect", "killed"} => sockets = 0

\* A statement's answer is the engine's whole document or no answer: cut off
\* anywhere, by a server that stops, it is an error, although neither a short
\* Content-Length nor a missing last chunk is noticed by http.c (http.c:147-255,
\* proto.c:240-251). Were a part taken for it, a statement might go out twice.
NeverPartOfAnAnswer == call = "execute" /\ outcome = "answered" => reply = said

\* However the engine frames its document and cuts it into chunks, the answer
\* read to its end is that document (http.c:227-255).
WholeAnswerUnderstood ==
    phase = "receive" /\ call = "execute" /\ meant # <<>> /\ received = Len(meant)
        => Taken(call, meant) = said

\* An exchange with a timeout ends, with a server that answers, stops, or
\* keeps silent; one that releases a session does whatever the timeouts of the
\* connection are (http.h:32, proto.c:460-470).
ExchangeEnds ==
    phase # "idle" /\ (call = "release" \/ Limit(call) > 0) ~> phase \in {"idle", "killed"}

\* README.md:154: 08S01 is the state every failure of the link reports. (A
\* send to a server that has closed its end raises SIGPIPE, http.c:83.)
LinkFailureReported == phase # "killed"
=============================================================================
