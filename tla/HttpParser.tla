----------------------------- MODULE HttpParser -----------------------------
(***************************************************************************)
(* Requests of one HTTP/1.1 client on their way through the buffer of      *)
(* http1.c and http1_parse (http1_parser.h): whole lines, headers and the  *)
(* body of Content-Length, however the bytes are cut into reads.           *)
(*                                                                         *)
(* The stream is a sequence of tokens, the places where a cut matters: a   *)
(* line without its end, CR, LF and a byte of a body.  Positions count     *)
(* tokens from 1; the memory behind the data of a read holds what earlier  *)
(* reads left there.  A request has at most one Content-Length; chunked    *)
(* bodies and the answer to a request that does not fit the buffer are     *)
(* left out.                                                               *)
(***************************************************************************)
EXTENDS Integers, Sequences, SequencesExt

CONSTANTS
  Pipelines,  \* the requests that a client sends: sequences of [headers, body]
  Room,       \* HTTP_MAX_HEADER_LENGTH
  AtOnce      \* pipeline_limit

Request == [headers : Nat, body : Nat]

ASSUME ParserAssumption ==
  /\ Pipelines \subseteq Seq(Request)
  /\ Room \in Nat /\ Room > 4 /\ AtOnce \in Nat \ {0}

Token(t, of, n) == [t |-> t, of |-> of, n |-> n]
CR == Token("cr", 0, 0)
LF == Token("lf", 0, 0)
Zero == Token("zero", 0, 0)   \* fio_malloc clears the memory
Body(k, n) == [i \in 1 .. n |-> Token("byte", k, i)]
NoBody == <<>>

(* What the k-th request looks like.                                       *)
Tokens(k, request) ==
  <<Token("line", k, 0), CR, LF>>
  \o FlattenSeq([h \in 1 .. request.headers |-> <<Token("header", k, h), CR, LF>>])
  \o (IF request.body = 0 THEN <<>> ELSE <<Token("length", k, request.body), CR, LF>>)
  \o <<CR, LF>>
  \o Body(k, request.body)

VARIABLES
  pipeline,   \* the requests
  stream,     \* what was not read yet
  buf,        \* p->buf
  org,        \* org_len: up to where it holds data
  base,       \* where the current call of http1_parse started
  start,      \* where it is
  parser,     \* parser->state
  body,       \* p->request.body
  limit,      \* pipeline_limit
  place,      \* where the code is
  delivered,  \* the bodies of the requests given to http1_on_request
  beyond      \* http1_parse looked at the memory behind the data

parservars == <<pipeline, stream, buf, org, base, start, parser, body, limit, place,
                delivered, beyond>>

Fresh == [stage |-> "line", length |-> 0, read |-> 0]

ParserStart(requests) ==
  /\ pipeline = requests
  /\ stream = FlattenSeq([k \in DOMAIN requests |-> Tokens(k, requests[k])])
  /\ buf = [i \in 1 .. Room + 1 |-> Zero]
  /\ org = 0 /\ base = 1 /\ start = 1
  /\ parser = Fresh
  /\ body = NoBody
  /\ limit = AtOnce
  /\ place = "wait"
  /\ delivered = <<>>
  /\ beyond = FALSE

ParserInit == \E requests \in Pipelines : ParserStart(requests)

-----------------------------------------------------------------------------
(* http1_on_data: a read of any size that fits.  After AtOnce requests an  *)
(* event is forced, and the read may find nothing.                         *)
OnData ==
  /\ place \in {"wait", "forced"}
  /\ \E n \in (IF place = "forced" THEN {0} ELSE {}) \cup (1 .. Len(stream)) :
       /\ org + n <= Room
       /\ buf' = [i \in DOMAIN buf |-> IF i \in org + 1 .. org + n THEN stream[i - org] ELSE buf[i]]
       /\ stream' = SubSeq(stream, n + 1, Len(stream))
       /\ org' = org + n
  /\ base' = 1 /\ start' = 1
  /\ limit' = AtOnce
  /\ place' = IF org' = 0 THEN "wait" ELSE "parse"
  /\ UNCHANGED <<pipeline, parser, body, delivered, beyond>>

(* The end of the line at start, or 0 (seek2eol).                          *)
Eol ==
  LET ends == {i \in start .. org : buf[i] = LF}
  IN  IF ends = {} THEN 0 ELSE CHOOSE i \in ends : \A j \in ends : i <= j

In(stage) == place = "parse" /\ parser.stage = stage

(* White space before a request line.                                      *)
SkipBlank ==
  /\ In("line")
  /\ start <= org /\ buf[start] \in {CR, LF, Zero}
  /\ start' = start + 1
  /\ UNCHANGED <<pipeline, stream, buf, org, base, parser, body, limit, place, delivered,
                 beyond>>

RequestLine ==
  /\ In("line")
  /\ start <= org /\ buf[start].t = "line"
  /\ Eol # 0
  /\ start' = Eol + 1
  /\ parser' = [parser EXCEPT !.stage = "headers"]
  /\ UNCHANGED <<pipeline, stream, buf, org, base, body, limit, place, delivered, beyond>>

(* http1_on_error closes the connection; what was read is dropped.         *)
BadLine ==
  /\ In("line")
  /\ start <= org /\ buf[start].t \notin {"line", "cr", "lf", "zero"}
  /\ Eol # 0
  /\ place' = "closed"
  /\ UNCHANGED <<pipeline, stream, buf, org, base, start, parser, body, limit, delivered,
                 beyond>>

(* The only header that the parser reads here is Content-Length; how it    *)
(* refuses a second one that differs is left out.                          *)
WithHeader(state, header) ==
  IF header.t = "length" THEN [state EXCEPT !.length = header.n] ELSE state

HeaderLine ==
  /\ In("headers")
  /\ start <= org /\ buf[start] \notin {CR, LF}
  /\ Eol # 0
  /\ start' = Eol + 1
  /\ parser' = WithHeader(parser, buf[start])
  /\ UNCHANGED <<pipeline, stream, buf, org, base, body, limit, place, delivered, beyond>>

(* The byte after the CR is looked at whether or not it was read.          *)
EmptyLine ==
  /\ In("headers")
  /\ start <= org /\ buf[start] \in {CR, LF}
  /\ start' = IF buf[start + 1] = LF THEN start + 2 ELSE start + 1
  /\ beyond' = (beyond \/ start = org)
  /\ parser' = [parser EXCEPT !.stage = "body"]
  /\ UNCHANGED <<pipeline, stream, buf, org, base, body, limit, place, delivered>>

(* The line is not whole: the call returns.                                *)
NeedMore ==
  /\ place = "parse"
  /\ parser.stage \in {"line", "headers"}
  /\ start > org \/ (Eol = 0 /\ buf[start] \notin {CR, LF, Zero})
  /\ place' = "return"
  /\ UNCHANGED <<pipeline, stream, buf, org, base, start, parser, body, limit, delivered,
                 beyond>>

(* What was read of the body so far is forgotten.                          *)
ReadBody_ForgetBug ==
  LET end == IF start + parser.length - parser.read > org + 1
             THEN org + 1 ELSE start + parser.length - parser.read
      chunk == SubSeq(buf, start, end - 1)
      read == end - start
  IN
  /\ In("body") /\ parser.length > 0 /\ parser.length > parser.read
  /\ body' = IF end <= start THEN body
             ELSE IF parser.read = 0 THEN chunk
             ELSE IF body = NoBody THEN NoBody
             ELSE body \o chunk
  /\ start' = end
  /\ parser' = [parser EXCEPT !.read = read,
                              !.stage = IF parser.length <= read THEN "complete" ELSE @]
  /\ place' = IF parser.length <= read THEN "parse" ELSE "return"
  /\ UNCHANGED <<pipeline, stream, buf, org, base, limit, delivered, beyond>>

(* http1_consume_body_streamed; http1_on_body_chunk makes the body of the  *)
(* request when nothing was read before, and writes to none otherwise.     *)
ReadBody ==
  LET end == IF start + parser.length - parser.read > org + 1
             THEN org + 1 ELSE start + parser.length - parser.read
      chunk == SubSeq(buf, start, end - 1)
      read == parser.read + end - start
  IN
  /\ In("body") /\ parser.length > 0 /\ parser.length > parser.read
  /\ body' = IF end <= start THEN body
             ELSE IF parser.read = 0 THEN chunk
             ELSE IF body = NoBody THEN NoBody
             ELSE body \o chunk
  /\ start' = end
  /\ parser' = [parser EXCEPT !.read = read,
                              !.stage = IF parser.length <= read THEN "complete" ELSE @]
  /\ place' = IF parser.length <= read THEN "parse" ELSE "return"
  /\ UNCHANGED <<pipeline, stream, buf, org, base, limit, delivered, beyond>>

NothingToRead ==
  /\ In("body") /\ ~(parser.length > 0 /\ parser.length > parser.read)
  /\ parser' = [parser EXCEPT !.stage = "complete"]
  /\ UNCHANGED <<pipeline, stream, buf, org, base, start, body, limit, place, delivered,
                 beyond>>

(* http1_on_request, and the parser begins anew.                           *)
Complete ==
  /\ In("complete")
  /\ delivered' = Append(delivered, body)
  /\ body' = NoBody
  /\ parser' = Fresh
  /\ place' = "return"
  /\ UNCHANGED <<pipeline, stream, buf, org, base, start, limit, beyond>>

(* The loop of http1_consume_data.  When more was consumed than there was, *)
(* buf_len wraps: what follows is no behaviour of this module.             *)
Loop ==
  /\ place = "return"
  /\ limit' = limit - 1
  /\ base' = start
  /\ place' = IF start > org + 1 THEN "wrapped"
              ELSE IF start > base /\ start <= org /\ limit' > 0 THEN "parse"
              ELSE "compact"
  /\ UNCHANGED <<pipeline, stream, buf, org, start, parser, body, delivered, beyond>>

(* The rest of the data moves to the front of the buffer.                  *)
Compact ==
  LET rest == org + 1 - base IN
  /\ place = "compact"
  /\ buf' = [i \in DOMAIN buf |-> IF i <= rest THEN buf[base + i - 1] ELSE buf[i]]
  /\ org' = rest
  /\ base' = 1 /\ start' = 1
  /\ place' = IF limit = 0 THEN "forced" ELSE "wait"
  /\ UNCHANGED <<pipeline, stream, parser, body, limit, delivered, beyond>>

ParserNext ==
  \/ OnData \/ SkipBlank \/ RequestLine \/ BadLine \/ HeaderLine \/ EmptyLine
  \/ NeedMore \/ ReadBody \/ NothingToRead \/ Complete \/ Loop \/ Compact

ParserSpec == ParserInit /\ [][ParserNext]_parservars

-----------------------------------------------------------------------------
ParserTypeOK ==
  /\ place \in {"wait", "forced", "parse", "return", "compact", "closed", "wrapped"}
  /\ parser.stage \in {"line", "headers", "body", "complete"}
  /\ org \in 0 .. Room
  /\ parser.length \in Nat /\ parser.read \in Int /\ limit \in 0 .. AtOnce

(* However the bytes are cut into reads, what the handlers get are the     *)
(* requests that were sent, in order, each with its body; and all of them  *)
(* when everything was read.                                               *)
DeliveredAsSent ==
  /\ place \notin {"closed", "wrapped"}
  /\ Len(delivered) <= Len(pipeline)
  /\ \A k \in DOMAIN delivered : delivered[k] = Body(k, pipeline[k].body)
  /\ place = "wait" /\ stream = <<>> => Len(delivered) = Len(pipeline)

(* It is so unless a read ended between the CR and the LF of the empty     *)
(* line, where the parser looks at the byte behind the data.               *)
RequestsExact == beyond \/ DeliveredAsSent
=============================================================================
