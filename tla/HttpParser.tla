----------------------------- MODULE HttpParser ------------------------------
(***************************************************************************)
(* The incremental request parser of src/http/http_parser.c.               *)
(*                                                                         *)
(* What a client sends is a message, a record of what the parser tells     *)
(* apart: the length of the request line and whether it is a good one, the *)
(* header lines in order, and then as many bytes as the client likes.  A   *)
(* segment is a number of bytes.                                           *)
(***************************************************************************)
EXTENDS Integers, Sequences, SequencesExt

CONSTANTS MaxRequestLine, MaxHeaderBytes, MaxBodyBytes,
          MaxHeaders,       \* VL_HTTP_MAX_HEADERS
          HeaderBytes       \* length of a header line with its line end

ASSUME LimitAssumption ==
    { MaxRequestLine, MaxHeaderBytes, MaxBodyBytes, MaxHeaders, HeaderBytes }
        \subseteq Nat

Capacity == MaxHeaderBytes + MaxBodyBytes

\* A header line is a Content-Length with its value, one that does not parse,
\* or any other.
LengthIs(n) == [name |-> "Content-Length", value |-> n]
BadLength == [name |-> "Content-Length", value |-> -1]
Other == [name |-> "other", value |-> 0]
Malformed == [name |-> "malformed", value |-> 0]

\* Bytes of message m up to the end of its empty line.
HeadLength(m) == m.line + 2 + HeaderBytes * Len(m.headers) + 2

\* vl_http_parser_init.
NewParser == [length |-> 0, header_end |-> 0, content_length |-> 0,
              complete |-> 0, error |-> "NONE"]

\* vl_http_parse_request_line, and the test of its length by its caller.
ParseRequestLine(m) == m.line <= MaxRequestLine /\ m.lineOk

\* One round of the loop of vl_http_parse_headers: h follows the headers that
\* left `acc'.
ParseHeader(acc, h) ==
    IF ~acc.ok \/ acc.count >= MaxHeaders \/ h.name = "malformed"
    THEN [acc EXCEPT !.ok = FALSE]
    ELSE IF h.name # "Content-Length"
    THEN [acc EXCEPT !.count = @ + 1]
    ELSE IF acc.saw \/ h.value < 0
    THEN [acc EXCEPT !.ok = FALSE, !.count = @ + 1]
    ELSE [acc EXCEPT !.count = @ + 1, !.saw = TRUE, !.length = h.value]

ParseHeaders(m) ==
    FoldLeft(ParseHeader, [ok |-> TRUE, saw |-> FALSE, count |-> 0, length |-> 0],
             m.headers)

\* vl_http_parse_head: whether the head is good, and the content length it
\* leaves.
ParseHead(m) ==
    IF ~ParseRequestLine(m) THEN [ok |-> FALSE, length |-> 0]
    ELSE LET h == ParseHeaders(m)
         IN  [ok |-> h.ok /\ h.length <= MaxBodyBytes, length |-> h.length]

Failed(p, status) == [p EXCEPT !.error = status]

\* The end of vl_http_parser_feed: the body is there or it is not.
Body(p) ==
    IF p.length - p.header_end < p.content_length THEN p
    ELSE [p EXCEPT !.complete = 1]

\* Mutant: the header limit is applied to all the bytes that have come.
FindHeadCapped(p, m) ==
    IF p.length > MaxHeaderBytes THEN Failed(p, "431")
    ELSE IF p.length < HeadLength(m) THEN p
    ELSE LET q == [p EXCEPT !.header_end = HeadLength(m),
                            !.content_length = ParseHead(m).length]
         IN  IF ~ParseHead(m).ok
             THEN Failed(q, IF q.content_length > MaxBodyBytes THEN "413" ELSE "400")
             ELSE Body(q)

\* The head of message m is looked for in the bytes of p.
FindHead(p, m) ==
    IF p.length < HeadLength(m)
    THEN IF p.length > MaxHeaderBytes THEN Failed(p, "431") ELSE p
    ELSE LET q == [p EXCEPT !.header_end = HeadLength(m),
                            !.content_length = ParseHead(m).length]
         IN  IF HeadLength(m) > MaxHeaderBytes
             THEN Failed([p EXCEPT !.header_end = HeadLength(m)], "431")
             ELSE IF ~ParseHead(m).ok
             THEN Failed(q, IF q.content_length > MaxBodyBytes THEN "413" ELSE "400")
             ELSE Body(q)

\* vl_http_parser_feed: the next n bytes of message m.
Feed(p, m, n) ==
    IF p.complete # 0 \/ p.error # "NONE" THEN p
    ELSE IF n > Capacity - p.length THEN Failed(p, "413")
    ELSE LET q == [p EXCEPT !.length = @ + n]
         IN  IF p.header_end = 0 THEN FindHead(q, m) ELSE Body(q)

-----------------------------------------------------------------------------
\* What the first `total' bytes of message m amount to, by its parts and not
\* by the way they arrive.
ContentLengths(m) ==
    { i \in 1..Len(m.headers) : m.headers[i].name = "Content-Length" }

Bad(m) ==
    \/ m.line > MaxRequestLine \/ ~m.lineOk
    \/ Len(m.headers) > MaxHeaders
    \/ \E i \in 1..Len(m.headers) :
           m.headers[i].name = "malformed" \/ m.headers[i].value < 0
    \/ \E i, j \in ContentLengths(m) : i # j

Declared(m) ==
    IF ContentLengths(m) = {} THEN 0
    ELSE m.headers[CHOOSE i \in ContentLengths(m) : TRUE].value

Verdicts(m, total) ==
    IF total < HeadLength(m)
    THEN IF total > MaxHeaderBytes THEN {"431"} ELSE {"more"}
    ELSE IF HeadLength(m) > MaxHeaderBytes THEN {"431"}
    ELSE IF Bad(m) THEN {"400", "413"}
    ELSE IF Declared(m) > MaxBodyBytes THEN {"413"}
    ELSE IF total < HeadLength(m) + Declared(m) THEN {"more"}
    ELSE {"complete"}

Verdict(p) ==
    IF p.error # "NONE" THEN p.error ELSE IF p.complete # 0 THEN "complete" ELSE "more"

\* Parser p was fed `total' bytes of message m.
Exact(p, m, total) ==
    /\ total <= Capacity => Verdict(p) \in Verdicts(m, total)
    /\ p.length <= Capacity
    /\ p.complete # 0 => /\ p.content_length = Declared(m)
                         /\ p.header_end + p.content_length <= p.length
=============================================================================
