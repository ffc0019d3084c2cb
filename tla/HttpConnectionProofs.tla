------------------------- MODULE HttpConnectionProofs -------------------------
(***************************************************************************)
(* Proofs about HttpConnection for every size of the buffer and every set  *)
(* of lengths of heads and bodies.                                         *)
(***************************************************************************)
EXTENDS HttpConnection, TLAPS

\* While the head is read nothing is taken for the body, and what is in the
\* buffer ends before the end of the head, or begins with two empty lines.
HeadPart ==
    at = "head" =>
        /\ body = 0
        /\ \/ total_read = 0
           \/ total_read < Front(request)
           \/ OnlyEmptyLines(request)

\* From the end of the head on, every byte read is of the head, of what is in
\* front of it or of the body, and the head was within the buffer.
BodyPart ==
    at \in {"body", "handle", "tunnel"} =>
        /\ total_read = Front(request) + body
        /\ Front(request) <= MAX_HEADERS_SIZE
        /\ ~OnlyEmptyLines(request)

\* The body loop is left with the whole body, or at the end of the stream.
LoopPart == at = "handle" => body = request.body \/ eof

\* A head is refused once, and the connection with it.
RefusedPart ==
    outcome = "too-large" =>
        /\ at = "closed"
        /\ \/ Front(request) > MAX_HEADERS_SIZE
           \/ OnlyEmptyLines(request) /\ Length(request) >= MAX_HEADERS_SIZE

\* The inductive invariant.  HandledWhole counts bytes at the handler only;
\* that they are right there is decided when the end of the head is found.
Inv == TypeOK /\ HeadPart /\ BodyPart /\ LoopPart /\ RefusedPart

-----------------------------------------------------------------------------

\* The lengths of a request, and of none.
LEMMA Lengths ==
    /\ \A r \in Requests : Front(r) \in Nat \ {0} /\ r.body \in Nat
    /\ Front(NoRequest) = 0 /\ NoRequest.body = 0
<1>1. ASSUME NEW r \in Requests PROVE Front(r) \in Nat \ {0} /\ r.body \in Nat
    <2>1. r.empty \in Nat /\ r.head \in Nat \ {0} /\ r.body \in Nat
        BY HttpAssumption DEF HttpAssumption, Requests
    <2>2. QED
        BY <2>1 DEF Front, Crlf
<1>2. Front(NoRequest) = 0 /\ NoRequest.body = 0
    BY DEF NoRequest, Front, Crlf
<1>3. QED
    BY <1>1, <1>2

\* The lengths of the request on the wire are numbers.
LEMMA RequestLengths ==
    ASSUME TypeOK
    PROVE  /\ Front(request) \in Nat /\ request.body \in Nat
           /\ arrived \in Nat /\ total_read \in Nat /\ body \in Nat
           /\ total_read <= arrived /\ arrived <= Length(request) /\ body <= request.body
<1>1. Front(request) \in Nat /\ request.body \in Nat
    BY Lengths DEF TypeOK
<1>2. QED
    BY <1>1 DEF TypeOK, Length

\* A new connection satisfies the invariant.
LEMMA InitInv == Init => Inv
<1> SUFFICES ASSUME Init PROVE Inv
    OBVIOUS
<1>1. TypeOK
    <2>1. eof \in BOOLEAN
        BY DEF Init
    <2>2. arrived \in 0 .. Length(request) /\ body \in 0 .. request.body
        BY Lengths DEF Init, Length
    <2>3. QED
        BY <2>1, <2>2 DEF Init, TypeOK
<1>2. HeadPart /\ BodyPart /\ LoopPart /\ RefusedPart
    BY DEF Init, HeadPart, BodyPart, LoopPart, RefusedPart
<1>3. QED
    BY <1>1, <1>2 DEF Inv

\* Every step of the client, of read_request and of the loop preserves it.
LEMMA StepInv == Inv /\ [Next]_vars => Inv'
<1> SUFFICES ASSUME Inv, [Next]_vars PROVE Inv'
    OBVIOUS
<1> USE HttpAssumption, RequestLengths
    DEF HttpAssumption, Inv, HeadPart, BodyPart, LoopPart, RefusedPart
<1>1. CASE SendRequest
    BY <1>1, Lengths DEF SendRequest, TypeOK, Length
<1>2. CASE Arrive
    BY <1>2 DEF Arrive, TypeOK, Length
<1>3. CASE CloseWrite
    BY <1>3 DEF CloseWrite, TypeOK
<1>4. CASE AnswerRead
    BY <1>4 DEF AnswerRead, TypeOK
<1>5. CASE ReadHead
    <2>1. /\ at = "head" /\ body = 0
          /\ total_read' \in Nat /\ total_read' > total_read
          /\ total_read' <= arrived /\ total_read' <= MAX_HEADERS_SIZE
          /\ UNCHANGED <<request, arrived, eof, answer>>
        BY <1>5 DEF ReadHead, ReadSome, Least
    <2>2. CASE total_read' < FirstEnd(request) /\ UNCHANGED <<at, body, outcome>>
        BY <2>1, <2>2 DEF FirstEnd, TypeOK
    <2>3. CASE OnlyEmptyLines(request) /\ UNCHANGED <<at, body, outcome>>
        BY <2>1, <2>3 DEF TypeOK
    <2>4. CASE /\ total_read' >= FirstEnd(request) /\ ~OnlyEmptyLines(request)
               /\ Parsed
        <3>1. total_read' >= Front(request) /\ outcome # "too-large"
            BY <2>1, <2>4 DEF FirstEnd
        <3>2. CASE End("malformed") /\ UNCHANGED body
            BY <2>1, <3>2 DEF End, TypeOK
        <3>3. CASE /\ body' = total_read' - Front(request)
                   /\ at' = IF body' < request.body THEN "body" ELSE "handle"
                   /\ UNCHANGED outcome
            BY <2>1, <2>4, <3>1, <3>3 DEF TypeOK, Length
        <3>4. QED
            BY <2>4, <3>2, <3>3 DEF Parsed
    <2>5. QED
        BY <1>5, <2>2, <2>3, <2>4 DEF ReadHead
<1>6. CASE HeadTooLarge
    BY <1>6 DEF HeadTooLarge, End, TypeOK, Length
<1>7. CASE HeadEof
    BY <1>7 DEF HeadEof, End, TypeOK
<1>8. CASE ReadBody
    BY <1>8 DEF ReadBody, Least, TypeOK, Length
<1>9. CASE BodyEof
    BY <1>9 DEF BodyEof, TypeOK
<1>10. CASE ReadFails
    BY <1>10 DEF ReadFails, End, TypeOK
<1>11. CASE Handle
    <2>1. answer' \in {"none", "length", "head", "close", "unknown"}
        BY <1>11 DEF Handle, Ends
    <2>2. CASE NextRequest /\ outcome' = "answered" /\ UNCHANGED eof
        BY <2>1, <2>2, Lengths DEF NextRequest, TypeOK, Length
    <2>3. CASE End("answered") /\ UNCHANGED <<request, arrived, total_read, body, eof>>
        BY <2>1, <2>3 DEF End, TypeOK, Length
    <2>4. QED
        BY <1>11, <2>2, <2>3 DEF Handle
<1>12. CASE HandleFails
    BY <1>12 DEF HandleFails, End, TypeOK
<1>13. CASE Upgrade
    BY <1>13 DEF Upgrade, TypeOK
<1>14. CASE UNCHANGED vars
    BY <1>14 DEF vars, TypeOK, Length
<1>15. QED
    BY <1>1, <1>2, <1>3, <1>4, <1>5, <1>6, <1>7, <1>8, <1>9, <1>10, <1>11, <1>12,
       <1>13, <1>14 DEF Next

-----------------------------------------------------------------------------

\* The inductive invariant holds in every state of the specification.
THEOREM Invariant == Spec => []Inv
BY InitInv, StepInv, PTL DEF Spec

\* Type correctness: the counters of read_request stay within the bytes that
\* have arrived, for requests of every length.
THEOREM TypeCorrect == Spec => []TypeOK
<1>1. Inv => TypeOK
    BY DEF Inv
<1>2. QED
    BY <1>1, Invariant, PTL

\* In whatever pieces a request arrives, and wherever the buffer for heads ends
\* in it, the handler sees the whole body, unless the client closed its side.
THEOREM BodiesWhole == Spec => []HandledWhole
<1>1. Inv => HandledWhole
    BY RequestLengths DEF Inv, BodyPart, LoopPart, HandledWhole, Length
<1>2. QED
    BY <1>1, Invariant, PTL

\* For every size of the buffer and of the head: a request is refused as too
\* large when the end of its head is not within the buffer, or behind two empty
\* lines when it fills the buffer, and is handed on only when its head fits.
THEOREM RefusalsExact == Spec => []RefusedTooLarge
<1>1. Inv => RefusedTooLarge
    BY DEF Inv, BodyPart, RefusedPart, RefusedTooLarge
<1>2. QED
    BY <1>1, Invariant, PTL
=============================================================================
