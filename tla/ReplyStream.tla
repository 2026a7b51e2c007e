---------------------------- MODULE ReplyStream ----------------------------
(***************************************************************************)
(* One question to the language model over HTTP (llm_agent_http.c), with   *)
(* the retries of claw_agent_llm.c and of the transport.  The reply comes  *)
(* in reads of any length.  A plain reply is collected and decoded at the  *)
(* end; an event stream is decoded as it comes: chunks, lines and events   *)
(* each go over the boundaries of reads, and only the assembled answer is  *)
(* kept.                                                                   *)
(*                                                                         *)
(* The wire carries symbols, one for each thing the decoders tell apart:   *)
(* the header's fields and its end, a digit of a chunk's size, "cr", "nl", *)
(* the words of a line.  A piece is a delta of text, of reasoning or of a  *)
(* tool call.  A reply fits the buffers, and no allocation fails.          *)
(***************************************************************************)
EXTENDS Naturals, Sequences, FiniteSets, SequencesExt

CONSTANTS
  Answers,       \* the answers of the server: sequences of pieces
  Digits,        \* the digits of a chunk's size; their number is the base (16)
  MaxChunks,     \* bound of the model: chunks of a body
  ReadSize,      \* symbols of a read (512 bytes)
  HttpRetries,   \* LLM_HTTP_EMPTY_RETRIES (3)
  MaxTries,      \* CLAW_AGENT_LLM_RETRY_MAX_ATTEMPTS (3)
  NoStream       \* the reply is not an event stream

VARIABLES
  stage,         \* connect, read, ended, answered, failed
  tries,         \* of the exchange
  attempt,       \* of the transport
  reply,         \* what the server answers to this attempt
  wire,          \* what is on its way
  buf,           \* response->buf
  acc,           \* sse_stream_acc_t
  ended,         \* why reading ended: done, closed, failed, timeout
  answer         \* the pieces handed to the engine

streamvars == <<stage, tries, attempt, reply, wire, buf, acc, ended, answer>>

(* The words the decoders look for, the deltas of the answers, and all the *)
(* wire can carry.                                                         *)
Words   == {"event-stream", "json", "chunked", "length", "close", "end", "cr", "nl",
            "data:", "event:", "error", "[DONE]", "lbrace", "rbrace"}
Deltas  == UNION {Range(a) : a \in Answers}
Symbols == Words \cup Deltas \cup Range(Digits)

(* sse_stream_acc_t *)
Accs ==
  [chunked : BOOLEAN, hdr : Seq(Symbols), remaining : Nat, skip : 0 .. 2, line : Seq(Symbols),
   event : BOOLEAN, pieces : Seq(Symbols), error : BOOLEAN, done : BOOLEAN]

(* No delta and no digit reads as a word: JSON escapes the ends of lines,  *)
(* quotes and braces of a text, but a plain reply's text is searched with  *)
(* its header, and must not hold the header's words.                       *)
StreamAssumption ==
  /\ Digits \in Seq(Range(Digits)) /\ IsInjective(Digits) /\ Len(Digits) > 1
  /\ Answers \subseteq Seq(Deltas) /\ (Deltas \cup Range(Digits)) \cap Words = {}
  /\ NoStream \notin Accs /\ ReadSize \in Nat \ {0}
  /\ HttpRetries \in Nat \ {0} /\ MaxTries \in Nat \ {0} /\ MaxChunks \in Nat \ {0}
-----------------------------------------------------------------------------
(* The server.  A reply is an event stream or plain, an answer or an       *)
(* error, which in a stream may follow some of the answer.                 *)

Framings == {"chunked", "length", "close"}
ServerReplies ==
  {r \in [stream : BOOLEAN, error : BOOLEAN, pieces : Answers, framing : Framings] :
     ~(r.stream /\ r.framing = "length")}

Event(words) == <<"data:">> \o words \o <<"nl", "nl">>
BodyOf(r) ==
  IF r.stream
  THEN FlattenSeq([i \in DOMAIN r.pieces |-> Event(<<r.pieces[i]>>)])
         \o (IF r.error THEN <<"event:", "error", "nl">> \o Event(<<"error">>) ELSE Event(<<"[DONE]">>))
  ELSE <<"lbrace">> \o (IF r.error THEN <<"error">> ELSE r.pieces) \o <<"rbrace">>

Numeral(n) ==
  LET base == Len(Digits)
      num[k \in 0 .. n] == (IF k < base THEN <<>> ELSE num[k \div base]) \o <<Digits[(k % base) + 1]>>
  IN  num[n]

Chunk(data) == Numeral(Len(data)) \o <<"cr", "nl">> \o data \o <<"cr", "nl">>

(* A body in chunks that end at the positions `ends`, and a chunk of none. *)
Chunked(data, ends) ==
  LET First(i) == IF i = 1 THEN 1 ELSE ends[i - 1] + 1
  IN  FlattenSeq([i \in DOMAIN ends |-> Chunk(SubSeq(data, First(i), ends[i]))]) \o Chunk(<<>>)

(* Where the chunks of a reply end. *)
Cuts(r) ==
  LET n == Len(BodyOf(r))
  IN  IF r.framing = "chunked"
      THEN UNION {{ends \in [1 .. k -> 1 .. n] : ends[k] = n /\ \A i \in 2 .. k : ends[i - 1] < ends[i]}
                    : k \in 1 .. MaxChunks}
      ELSE {<<>>}

Sent(r, ends) ==
  <<IF r.stream THEN "event-stream" ELSE "json", r.framing, "end">>
    \o (IF r.framing = "chunked" THEN Chunked(BodyOf(r), ends) ELSE BodyOf(r))
-----------------------------------------------------------------------------
(* The event stream. *)

NewAcc(chunked) ==
  [chunked |-> chunked, hdr |-> <<>>, remaining |-> 0, skip |-> 0, line |-> <<>>,
   event |-> FALSE, pieces |-> <<>>, error |-> FALSE, done |-> FALSE]

ProcessLine(a, line) ==
  CASE line = <<>>                          -> [a EXCEPT !.event = FALSE]
    [] line # <<>> /\ line[1] = "event:"    -> [a EXCEPT !.event = TRUE]
    [] line # <<>> /\ line[1] \notin {"event:", "data:"} -> a
    [] line = <<"data:", "[DONE]">>         -> [a EXCEPT !.done = TRUE]
    [] OTHER -> IF a.event THEN [a EXCEPT !.error = TRUE, !.done = TRUE, !.event = FALSE]
                ELSE [a EXCEPT !.pieces = @ \o Tail(line)]

From(data, i) == SubSeq(data, i, Len(data))
FirstEnd(data) == SelectInSeq(data, LAMBDA c : c = "nl")
WithoutCr(line) == IF line # <<>> /\ Last(line) = "cr" THEN Front(line) ELSE line

(* A loop over data: its body takes some of it from the pair of a result   *)
(* and what is left, or nothing once it is done.                           *)
Loop(body(_), a, data) ==
  LET round[i \in 0 .. Len(data)] == IF i = 0 THEN <<a, data>> ELSE body(round[i - 1])
  IN  round[Len(data)][1]

TakeLine(p) ==
  LET a    == p[1]
      data == p[2]
      nl   == FirstEnd(data)
  IN  IF data = <<>> \/ a.done THEN p
      ELSE IF nl = 0 THEN <<[a EXCEPT !.line = @ \o data], <<>>>>
      ELSE <<ProcessLine([a EXCEPT !.line = <<>>], WithoutCr(a.line \o SubSeq(data, 1, nl - 1))), From(data, nl + 1)>>

FeedLines(a, data) == Loop(TakeLine, a, data)

(* strtol over a chunk's header. *)
Size(hdr) ==
  LET Value(c) == (CHOOSE i \in DOMAIN Digits : Digits[i] = c) - 1
      size[k \in 0 .. Len(hdr)] ==
        IF k = 0 THEN 0
        ELSE IF Contains(Digits, hdr[k]) THEN size[k - 1] * Len(Digits) + Value(hdr[k])
        ELSE size[k - 1]
  IN  size[Len(hdr)]

(* Mutant of InChunk: the end of a chunk is skipped with what follows it   *)
(* in the same read.                                                       *)
InChunk_NoSkip(a, data) ==
  LET n == IF a.remaining < Len(data) THEN a.remaining ELSE Len(data)
  IN  <<[FeedLines(a, SubSeq(data, 1, n)) EXCEPT !.remaining = @ - n,
            !.skip = IF a.remaining = n /\ Len(data) > n THEN 2 ELSE 0],
        From(data, n + 1)>>

(* The part of the data that is in the chunk, and what is left of both.    *)
InChunk(a, data) ==
  LET n == IF a.remaining < Len(data) THEN a.remaining ELSE Len(data)
  IN  <<[FeedLines(a, SubSeq(data, 1, n)) EXCEPT !.remaining = @ - n,
            !.skip = IF a.remaining = n THEN 2 ELSE 0],
        From(data, n + 1)>>

TakePart(p) ==
  LET a    == p[1]
      data == p[2]
  IN  IF data = <<>> \/ a.done THEN p
      ELSE IF ~a.chunked THEN <<FeedLines(a, data), <<>>>>
      ELSE IF a.skip > 0 THEN <<[a EXCEPT !.skip = @ - 1], Tail(data)>>
      ELSE IF a.remaining > 0 THEN InChunk(a, data)
      ELSE IF Head(data) # "nl" THEN <<[a EXCEPT !.hdr = Append(@, Head(data))], Tail(data)>>
      ELSE <<[a EXCEPT !.hdr = <<>>, !.remaining = Size(a.hdr), !.done = Size(a.hdr) = 0], Tail(data)>>

Feed(a, data) == Loop(TakePart, a, data)
-----------------------------------------------------------------------------
(* A plain reply. *)

HasHeader(b) == Contains(b, "end")
Body(b)      == From(b, SelectInSeq(b, LAMBDA c : c = "end") + 1)

TakeChunk(p) ==
  LET nl   == FirstEnd(p[2])
      rest == From(p[2], nl + 1)
      n    == Size(SubSeq(p[2], 1, nl - 1))
  IN  IF nl = 0 \/ n = 0 THEN <<p[1], <<>>>>
      ELSE IF n >= Len(rest) THEN <<p[1] \o rest, <<>>>>
      ELSE <<p[1] \o SubSeq(rest, 1, n), From(rest, n + 3)>>

Dechunked(data) == Loop(TakeChunk, <<>>, data)

PlainBody == IF Contains(buf, "chunked") THEN Dechunked(Body(buf)) ELSE Body(buf)

(* cJSON_Parse *)
Parses(text) == Len(text) >= 2 /\ Head(text) = "lbrace" /\ SelectInSeq(text, LAMBDA c : c = "rbrace") = Len(text)
-----------------------------------------------------------------------------
(* One connection. *)

Init ==
  /\ stage = "connect" /\ tries = 1 /\ attempt = 1
  /\ reply = NoStream /\ wire = <<>> /\ buf = <<>> /\ acc = NoStream
  /\ ended = "done" /\ answer = <<>>

(* The exchange failed: claw_agent_llm_chat_messages asks again. *)
AskAgain ==
  /\ IF tries < MaxTries THEN stage' = "connect" /\ tries' = tries + 1 ELSE stage' = "failed" /\ tries' = tries
  /\ attempt' = 1
  /\ UNCHANGED <<reply, wire, buf, acc, ended, answer>>

(* Connected, and the request is written. *)
Connect(r) ==
  /\ stage = "connect" /\ stage' = "read"
  /\ reply' = r /\ \E ends \in Cuts(r) : wire' = Sent(r, ends)
  /\ buf' = <<>> /\ acc' = NoStream /\ ended' = "done"
  /\ UNCHANGED <<tries, attempt, answer>>

(* No connection after three attempts, or the request cannot be written. *)
ConnectFails == stage = "connect" /\ AskAgain

(* The first read that ends the header decides how the body is read. *)
Received(b) ==
  IF HasHeader(b) /\ Contains(b, "event-stream")
  THEN acc' = Feed(NewAcc(Contains(b, "chunked")), Body(b)) /\ buf' = <<>>
  ELSE acc' = NoStream /\ buf' = b

(* All of a stream, or as much as Content-Length says. *)
Complete(a, b) ==
  IF a # NoStream THEN a.done
  ELSE HasHeader(b) /\ Contains(b, "length") /\ Len(Body(b)) >= Len(BodyOf(reply))

Read(n) ==
  /\ stage = "read" /\ n <= Len(wire)
  /\ IF acc = NoStream THEN Received(buf \o SubSeq(wire, 1, n))
                       ELSE acc' = Feed(acc, SubSeq(wire, 1, n)) /\ buf' = buf
  /\ wire' = From(wire, n + 1)
  /\ stage' = IF Complete(acc', buf') THEN "ended" ELSE "read"
  /\ UNCHANGED <<tries, attempt, reply, ended, answer>>

(* The server closes, early or at the end; the connection fails; or        *)
(* nothing comes until the timeout.                                        *)
ReadEnds(how) ==
  /\ stage = "read"
  /\ stage' = "ended" /\ ended' = how
  /\ UNCHANGED <<tries, attempt, reply, wire, buf, acc, answer>>

(* What llm_http_post_once returns: 0, -4 for a dropped connection, -5 for *)
(* a timeout.                                                              *)
Returned ==
  IF acc # NoStream
  THEN IF ended = "timeout" /\ ~acc.done THEN 5 ELSE 0
  ELSE IF HasHeader(buf) THEN 0 ELSE IF ended = "timeout" THEN 5 ELSE 4

(* Another connection for the same request. *)
Reconnect ==
  /\ stage = "ended" /\ Returned = 4 /\ attempt < HttpRetries
  /\ stage' = "connect" /\ attempt' = attempt + 1 /\ buf' = <<>>
  /\ UNCHANGED <<tries, reply, wire, acc, ended, answer>>

IsError == IF acc # NoStream THEN acc.error ELSE ~Parses(PlainBody) \/ Contains(PlainBody, "error")
Pieces  == IF acc # NoStream THEN acc.pieces ELSE Front(Tail(PlainBody))

(* claw_agent_llm_chat_openai reads the answer, or its error. *)
Understand ==
  /\ stage = "ended"
  /\ ~(Returned = 4 /\ attempt < HttpRetries)
  /\ IF Returned = 0 /\ ~IsError
     THEN /\ stage' = "answered" /\ answer' = Pieces
          /\ UNCHANGED <<tries, attempt, reply, wire, buf, acc, ended>>
     ELSE AskAgain

Next ==
  \/ \E r \in ServerReplies : Connect(r)
  \/ \E n \in 1 .. ReadSize : Read(n)
  \/ \E how \in {"closed", "failed", "timeout"} : ReadEnds(how)
  \/ ConnectFails \/ Reconnect \/ Understand

Spec == Init /\ [][Next]_streamvars
-----------------------------------------------------------------------------
TypeOK ==
  /\ stage \in {"connect", "read", "ended", "answered", "failed"}
  /\ tries \in 1 .. MaxTries /\ attempt \in 1 .. HttpRetries
  /\ ended \in {"done", "closed", "failed", "timeout"}

(* What the server answered to the last attempt, and nothing of another.   *)
Whole == ~reply.error /\ answer = reply.pieces

(* A connection that ended early, but not by a timeout. *)
CutOff == wire # <<>> /\ ended \in {"closed", "failed"} /\ reply.stream

(* However the reply is cut into chunks and reads, whatever failed before  *)
(* it, what is handed on is the whole of it, in its order; or the part     *)
(* that came of a stream whose connection was lost.                        *)
AnswerIsReply == stage = "answered" => Whole \/ (CutOff /\ IsPrefix(answer, reply.pieces))

(* "The assembled JSON is a truncated answer; do NOT pass it off as a      *)
(* complete success" (llm_agent_http.c): no part of an answer is handed on *)
(* as an answer.                                                           *)
CutIsError == stage = "answered" => Whole
=============================================================================
