--------------------------- MODULE HttpConnection ---------------------------
(***************************************************************************)
(* One TLS connection before it becomes a tunnel: read_request and         *)
(* write_response (src/src/http/manual_http.rs) in the loop of             *)
(* src/src/http/server.rs.                                                 *)
(*                                                                         *)
(* A request is a head of some length, its blank line included, perhaps    *)
(* with empty lines in front of it, and a body of the length its           *)
(* Content-Length says.  Its bytes arrive, and are read, in pieces of any  *)
(* length.  The client sends a request once it has come to the end of the  *)
(* last answer; it may close its side at any point.  Of an answer the      *)
(* model keeps how the client finds its end.                               *)
(***************************************************************************)
EXTENDS Naturals

CONSTANTS MAX_HEADERS_SIZE,   \* size of the buffer for heads (8192)
          Heads, Bodies,      \* lengths of the heads and bodies that are sent
          EmptyLines          \* numbers of empty lines in front of a head

ASSUME HttpAssumption ==
    /\ MAX_HEADERS_SIZE \in Nat \ {0}
    /\ Heads \subseteq Nat \ {0} /\ Bodies \subseteq Nat
    /\ EmptyLines \subseteq Nat

VARIABLES
    at,           \* "head", "body", "handle", "tunnel" or "closed"
    request,      \* the request on the wire
    arrived,      \* bytes of it that have arrived
    eof,          \* the client has closed its side
    total_read,   \* bytes read from the stream since the last request
    body,         \* bytes in the body
    outcome,      \* how the last request ended
    answer        \* what ends the answer the client is reading, if any

vars == <<at, request, arrived, eof, total_read, body, outcome, answer>>

Requests  == [empty : EmptyLines, head : Heads, body : Bodies,
              wellFormed : BOOLEAN, version : 0 .. 1,
              connection : {"none", "keep-alive", "close"}]
NoRequest == [empty |-> 0, head |-> 0, body |-> 0,
              wellFormed |-> TRUE, version |-> 1, connection |-> "none"]

Crlf      == 2                              \* length of an empty line
Front(r)  == Crlf * r.empty + r.head        \* up to the end of the head
Length(r) == Front(r) + r.body

Init ==
    /\ at = "head" /\ request = NoRequest /\ arrived = 0 /\ eof = FALSE
    /\ total_read = 0 /\ body = 0 /\ outcome = "none" /\ answer = "none"

Least(m, n) == IF m < n THEN m ELSE n

-----------------------------------------------------------------------------
(* The client *)

SendRequest ==
    /\ at = "head" /\ request = NoRequest /\ ~eof /\ answer = "none"
    /\ request' \in Requests
    /\ UNCHANGED <<at, arrived, eof, total_read, body, outcome, answer>>

Arrive ==
    /\ ~eof
    /\ arrived' \in arrived + 1 .. Length(request)
    /\ UNCHANGED <<at, request, eof, total_read, body, outcome, answer>>

CloseWrite ==
    /\ ~eof /\ eof' = TRUE
    /\ UNCHANGED <<at, request, arrived, total_read, body, outcome, answer>>

\* The client comes to the end of the answer: by its Content-Length, or after
\* the head when the status has no body; without a length only when the server
\* closes the connection.
AnswerRead ==
    /\ answer # "none"
    /\ answer \in {"length", "head"} \/ at = "closed"
    /\ answer' = "none"
    /\ UNCHANGED <<at, request, arrived, eof, total_read, body, outcome>>

-----------------------------------------------------------------------------
(* read_request *)

End(how) == at' = "closed" /\ outcome' = how

\* Two empty lines are an end of a head to find_header_end, and no part of a
\* request to httparse, which skips them and asks for more bytes.
OnlyEmptyLines(r) == r.empty >= 2

\* Where find_header_end finds the first blank line.
FirstEnd(r) == IF OnlyEmptyLines(r) THEN 2 * Crlf ELSE Front(r)

ReadSome ==
    /\ at = "head" /\ total_read < MAX_HEADERS_SIZE
    /\ total_read' \in total_read + 1 .. Least(arrived, MAX_HEADERS_SIZE)
    /\ UNCHANGED <<request, arrived, eof, answer>>

\* The head is parsed.  The body begins with what was read beyond it; the bytes
\* beyond a head without a body are dropped, of which a client that waits for
\* its answers has sent none.
Parsed ==
    \/ ~request.wellFormed /\ End("malformed") /\ UNCHANGED body
    \/ /\ request.wellFormed
       /\ body' = total_read' - Front(request)
       /\ at' = IF body' < request.body THEN "body" ELSE "handle"
       /\ UNCHANGED outcome

\* A mutated form: a buffer that is full is refused before it is searched.
ReadHeadFull ==
    /\ ReadSome
    /\ \/ /\ total_read' = MAX_HEADERS_SIZE
          /\ End("too-large") /\ UNCHANGED body
       \/ /\ total_read' < FirstEnd(request) /\ total_read' < MAX_HEADERS_SIZE
          /\ UNCHANGED <<at, body, outcome>>
       \/ /\ total_read' >= FirstEnd(request) /\ total_read' < MAX_HEADERS_SIZE
          /\ IF OnlyEmptyLines(request) THEN UNCHANGED <<at, body, outcome>> ELSE Parsed

\* A mutated form: what is in the buffer already is not taken for the body.
ReadHeadOnly ==
    /\ ReadSome
    /\ at' = IF total_read' < FirstEnd(request) \/ OnlyEmptyLines(request) THEN "head"
             ELSE IF request.body > 0 THEN "body" ELSE "handle"
    /\ UNCHANGED <<body, outcome>>

\* One read into the rest of the buffer, and the search for the end of the
\* head: none yet, or one that httparse takes for a part of a head
\* (Status::Partial), after this read and every later one, or one that it parses.
ReadHead ==
    /\ ReadSome
    /\ \/ total_read' < FirstEnd(request) /\ UNCHANGED <<at, body, outcome>>
       \/ /\ total_read' >= FirstEnd(request) /\ OnlyEmptyLines(request)
          /\ UNCHANGED <<at, body, outcome>>
       \/ /\ total_read' >= FirstEnd(request) /\ ~OnlyEmptyLines(request)
          /\ Parsed

\* The buffer is full and no head in it was parsed.
HeadTooLarge ==
    /\ at = "head" /\ total_read >= MAX_HEADERS_SIZE
    /\ End("too-large")
    /\ UNCHANGED <<request, arrived, eof, total_read, body, answer>>

HeadEof ==
    /\ at = "head" /\ total_read < MAX_HEADERS_SIZE
    /\ eof /\ total_read = arrived
    /\ End(IF total_read = 0 THEN "clean" ELSE "unexpected-eof")
    /\ UNCHANGED <<request, arrived, eof, total_read, body, answer>>

\* A mutated form: one read for the rest of the body.
ReadBodyOnce ==
    /\ at = "body"
    /\ \E n \in 1 .. Least(arrived - total_read, request.body - body) :
          body' = body + n /\ total_read' = total_read + n
    /\ at' = "handle"
    /\ UNCHANGED <<request, arrived, eof, outcome, answer>>

ReadBody ==
    /\ at = "body"
    /\ \E n \in 1 .. Least(arrived - total_read, request.body - body) :
          body' = body + n /\ total_read' = total_read + n
    /\ at' = IF body' < request.body THEN "body" ELSE "handle"
    /\ UNCHANGED <<request, arrived, eof, outcome, answer>>

\* At the end of the stream the body is taken as it is.
BodyEof ==
    /\ at = "body" /\ eof /\ total_read = arrived
    /\ at' = "handle"
    /\ UNCHANGED <<request, arrived, eof, total_read, body, outcome, answer>>

\* read fails, the connection is reset for one.
ReadFails ==
    /\ at \in {"head", "body"}
    /\ End("read-failed")
    /\ UNCHANGED <<request, arrived, eof, total_read, body, answer>>

-----------------------------------------------------------------------------
(* The loop *)

\* A mutated form: the default of HTTP/1.0 is forgotten.
KeepAliveAlways(r) == r.connection # "close"

\* Whether the loop goes on after the answer to r.
KeepAlive(r) ==
    /\ r.version = 0 => r.connection = "keep-alive"
    /\ r.connection # "close"

\* HttpResponse::build writes a Content-Length when there is a body.  Without
\* one the client goes by the status (204 has none), or by the end of the
\* stream when it asked for that; else it cannot know ("unknown").
Persists(r) == IF r.version = 1 THEN r.connection # "close"
                                ELSE r.connection = "keep-alive"
Ends(r) == {"length", "head", IF Persists(r) THEN "unknown" ELSE "close"}

\* The next request is read from an empty buffer.
NextRequest ==
    /\ at' = "head" /\ request' = NoRequest
    /\ arrived' = 0 /\ total_read' = 0 /\ body' = 0

\* A mutated form: the next request is read behind the last one.
HandleKeeping ==
    /\ at = "handle"
    /\ answer' \in Ends(request) /\ outcome' = "answered"
    /\ at' = "head" /\ request' = NoRequest /\ arrived' = 0 /\ body' = 0
    /\ UNCHANGED <<eof, total_read>>

\* handle_http_request and write_response, and the connection is kept or
\* closed as the request's version and Connection header say.
Handle ==
    /\ at = "handle"
    /\ answer' \in Ends(request)
    /\ \/ KeepAlive(request) /\ NextRequest /\ outcome' = "answered"
       \/ /\ ~KeepAlive(request) /\ End("answered")
          /\ UNCHANGED <<request, arrived, total_read, body>>
    /\ UNCHANGED eof

\* The answer cannot be written; or the task panics where a text is cut for
\* the log inside a character: a form at byte 200, an answer at byte 500.  The
\* stream is dropped.
HandleFails ==
    /\ at = "handle"
    /\ End("write-failed") \/ End("panicked")
    /\ UNCHANGED <<request, arrived, eof, total_read, body, answer>>

\* CONNECT: the connection goes to the handler of ConnectHandler.
Upgrade ==
    /\ at = "handle"
    /\ at' = "tunnel"
    /\ UNCHANGED <<request, arrived, eof, total_read, body, outcome, answer>>

Next ==
    \/ SendRequest \/ Arrive \/ CloseWrite \/ AnswerRead
    \/ ReadHead \/ HeadTooLarge \/ HeadEof \/ ReadBody \/ BodyEof \/ ReadFails
    \/ Handle \/ HandleFails \/ Upgrade

Spec == Init /\ [][Next]_vars

\* The runtime polls a task that can run.  The client reads what it is sent;
\* it need not send anything.
Fairness ==
    /\ WF_vars(ReadHead) /\ WF_vars(HeadTooLarge) /\ WF_vars(HeadEof)
    /\ WF_vars(ReadBody) /\ WF_vars(BodyEof)
    /\ WF_vars(Handle)
    /\ WF_vars(AnswerRead)

FairSpec == Spec /\ Fairness

-----------------------------------------------------------------------------
(* Properties *)

TypeOK ==
    /\ at \in {"head", "body", "handle", "tunnel", "closed"}
    /\ request \in Requests \cup {NoRequest}
    /\ arrived \in 0 .. Length(request)
    /\ eof \in BOOLEAN
    /\ total_read \in 0 .. arrived
    /\ body \in 0 .. request.body
    /\ outcome \in {"none", "answered", "clean", "malformed", "too-large",
                    "unexpected-eof", "read-failed", "write-failed", "panicked"}
    /\ answer \in {"none", "length", "head", "close", "unknown"}

\* A request is handled with the whole of its body, in however many pieces it
\* came and wherever the buffer for the head ended, unless the client closed
\* its side in the middle of it.
HandledWhole ==
    at = "handle" => \/ body = request.body /\ total_read = Length(request)
                     \/ eof

\* The heads that do not fit the buffer are refused, on the boundary too, and
\* however much of the body shares the buffer with the head; a head that fits is
\* refused only behind two empty lines, when what follows fills the buffer.
RefusedTooLarge ==
    /\ outcome = "too-large" =>
           \/ Front(request) > MAX_HEADERS_SIZE
           \/ OnlyEmptyLines(request) /\ Length(request) >= MAX_HEADERS_SIZE
    /\ at \in {"body", "handle", "tunnel"} =>
           Front(request) <= MAX_HEADERS_SIZE /\ ~OnlyEmptyLines(request)

\* A request that has arrived in full is answered, or becomes a tunnel, or the
\* connection ends: the server never waits for bytes the client has no reason
\* to send, and a handler that panics leaves no client waiting.  A request
\* behind two empty lines is the exception: the server waits for bytes that do
\* not change what it makes of it (manual_http.rs:241).
Served ==
    (request # NoRequest /\ arrived = Length(request) /\ ~OnlyEmptyLines(request))
    ~> (answer # "none" \/ at \in {"tunnel", "closed"})

\* The client comes to the end of every answer that has a body, and of those
\* without one when it asked for the connection to be closed: the server and
\* the client decide alike, over versions and headers, who ends the exchange.
AnswerEnds == (answer \notin {"none", "unknown"}) ~> (answer = "none")
=============================================================================
