------------------------------- MODULE Exchange --------------------------------
(***************************************************************************)
(* One slot of tweb's connection table from accept() to close, and the     *)
(* connections that use the slot one after the other: handle_read fills    *)
(* the read buffer and recognises the request, really_start_request        *)
(* decides what to answer, send_mime announces it, handle_send delivers it *)
(* in pieces of any size.  Module Connections has the table, the watch     *)
(* list, the timers and the throttles around it; here are the bytes.       *)
(*                                                                         *)
(* Abstracted: a reply is a head of HeadUnits units (-1, -2, ...) and the  *)
(* bytes of a file (0, 1, ...); an error page is a head and one unit of    *)
(* text; what a child process writes (CGI, a directory listing) is left    *)
(* out.  Pausing and waking up change none of this state.                  *)
(***************************************************************************)
EXTENDS Request, Functions

CONSTANTS
  Streams,              \* what a client may send: sequences of Byte
  Files,                \* what a path may resolve to: a subset of File
  InitialRoom,          \* read_size of a new slot (500 bytes)
  RoomStep,             \* what handle_read asks for on top (1000 bytes)
  ReadLimit,            \* read_size that is not grown any more (5000 bytes)
  HeadUnits             \* units a head is sent in

File ==
  [exists : BOOLEAN,    \* stat() succeeds
   hidden : BOOLEAN,    \* neither world-readable nor world-executable
   kind : {"file", "directory"},
   pathinfo : BOOLEAN,  \* trailing components that do not exist
   slash : BOOLEAN,     \* the URL of the directory ends in a slash
   index : {"none", "broken", "hidden", "found"},
   refused : {0, 401, 403},  \* by auth_check, because it is the auth file
                        \* itself, by check_referer, or because a directory
                        \* that is not world-readable is not listed
   exec : {"no", "cgi", "allowed", "forbidden"},
   mappable : BOOLEAN,
   size : Nat,
   modified : BOOLEAN,  \* st_mtime is later than any If-Modified-Since
   range_if : BOOLEAN]  \* st_mtime is what any If-Range gives

ASSUME ExchangeAssumption ==
  /\ Streams \subseteq Seq(Byte)
  /\ \A s \in Streams : \A i \in 1 .. Len(s) - 1 :
       ~(s[i] \in Words /\ s[i + 1] \in Words)
  /\ Files \subseteq File
  /\ InitialRoom \in Nat \ {0} /\ RoomStep \in Nat \ {0}
  /\ ReadLimit \in Nat
  /\ HeadUnits \in Nat \ {0}

VARIABLES
  phase,                \* "reading", "sending" or "closed"
  stream,               \* what the client of this connection sends in all
  read_idx,             \* bytes of it in read_buf
  read_size,            \* room of read_buf, kept from connection to connection
  checked_idx,          \* bytes httpd_got_request has seen
  checked_state,
  request,              \* the fields of httpd_conn that parsing fills in
  response,             \* units of the head that wait to be sent
  announced,            \* what send_mime wrote into the head
  next_byte_index, end_byte_index,
  wire,                 \* what the client got
  ended                 \* how the connection ended

readVars == <<stream, read_idx, read_size, checked_idx, checked_state>>
sendVars == <<response, announced, next_byte_index, end_byte_index>>
vars == <<phase, readVars, request, sendVars, wire, ended>>

read_buf == SubSeq(stream, 1, read_idx)

(***************************************************************************)
(* send_mime.  announced holds the status, the Content-Length (-1 for      *)
(* none), the Content-Range, the size of the file, and whether its         *)
(* Last-Modified is the time an If-Range of the request would give.        *)
(***************************************************************************)
Nothing ==
  [status |-> 0, length |-> -1, first |-> 0, last |-> -1, size |-> 0,
   range_if |-> FALSE, head |-> <<>>]

HeadOf(req) == IF req.mime_flag THEN [i \in 1 .. HeadUnits |-> -i] ELSE <<>>

Partial(req, file) ==
  /\ req.mime_flag /\ req.got_range
  /\ req.last_byte_index >= req.first_byte_index
  /\ req.last_byte_index # file.size - 1 \/ req.first_byte_index # 0
  /\ req.kept["If-Range"] = Empty \/ file.range_if

\* What a status 200 head says of the file, which may make it a 206.
AnnounceFile(req, file) ==
  [status |-> IF Partial(req, file) THEN 206 ELSE 200,
   length |-> IF Partial(req, file)
                THEN req.last_byte_index - req.first_byte_index + 1
                ELSE file.size,
   first |-> IF Partial(req, file) THEN req.first_byte_index ELSE 0,
   last |-> IF Partial(req, file) THEN req.last_byte_index ELSE file.size - 1,
   size |-> file.size,
   range_if |-> file.range_if,
   head |-> HeadOf(req)]

\* Any other status: no length, and an error page brings its own text.
AnnouncePage(req, status) ==
  [Nothing EXCEPT
     !.status = status,
     !.head = HeadOf(req) \o IF status = 304 THEN <<>> ELSE <<-HeadUnits - 1>>]

\* Mutant: a last byte just past the end of the file is left alone.
ClampLate(req, file) ==
  IF req.got_range /\ (\/ req.last_byte_index = -1
                       \/ req.last_byte_index > file.size)
    THEN [req EXCEPT !.last_byte_index = file.size - 1] ELSE req

\* Fill in last_byte_index, if necessary.
Clamp(req, file) ==
  IF req.got_range /\ (\/ req.last_byte_index = -1
                       \/ req.last_byte_index >= file.size)
    THEN [req EXCEPT !.last_byte_index = file.size - 1] ELSE req

(***************************************************************************)
(* really_start_request: the error page it answers with, 0 for none, in    *)
(* the order of its checks.  A directory with an index file is replaced by *)
(* that file.                                                              *)
(***************************************************************************)
Listing(file) == file.kind = "directory" /\ file.index = "none"

Refusal(file) ==
  CASE ~file.exists -> 500
    [] file.hidden -> 403
    [] file.kind = "directory" /\ file.pathinfo -> 404
    [] file.kind = "directory" /\ ~file.slash -> 302
    [] file.kind = "directory" /\ file.index = "broken" -> 500
    [] file.kind = "directory" /\ file.index = "hidden" -> 403
    [] file.refused # 0 -> file.refused
    [] Listing(file) \/ file.exec = "cgi" -> 0
    [] file.exec = "forbidden" -> 403
    [] file.pathinfo -> 403
    [] OTHER -> 0

Init ==
  /\ phase = "closed"
  /\ stream = <<>>
  /\ read_idx = 0
  /\ read_size = InitialRoom
  /\ checked_idx = 0
  /\ checked_state = "FIRSTWORD"
  /\ request = FreshRequest
  /\ response = <<>>
  /\ announced = Nothing
  /\ next_byte_index = 0
  /\ end_byte_index = 0
  /\ wire = <<>>
  /\ ended = "complete"

-----------------------------------------------------------------------------
(***************************************************************************)
(* httpd_get_conn and handle_newconnect.                                   *)
(***************************************************************************)
\* Mutant: got_range and the byte indices keep the values of the last
\* connection.
GetConnKeepsRange(s) ==
  /\ phase = "closed"
  /\ phase' = "reading"
  /\ stream' = s
  /\ read_idx' = 0
  /\ checked_idx' = 0
  /\ checked_state' = "FIRSTWORD"
  /\ request' = [FreshRequest EXCEPT
                   !.got_range = request.got_range,
                   !.first_byte_index = request.first_byte_index,
                   !.last_byte_index = request.last_byte_index]
  /\ response' = <<>>
  /\ announced' = Nothing
  /\ next_byte_index' = 0
  /\ end_byte_index' = 0
  /\ wire' = <<>>
  /\ ended' = "open"
  /\ UNCHANGED read_size

GetConn(s) ==
  /\ phase = "closed"
  /\ phase' = "reading"
  /\ stream' = s
  /\ read_idx' = 0
  /\ checked_idx' = 0
  /\ checked_state' = "FIRSTWORD"
  /\ request' = FreshRequest
  /\ response' = <<>>
  /\ announced' = Nothing
  /\ next_byte_index' = 0
  /\ end_byte_index' = 0
  /\ wire' = <<>>
  /\ ended' = "open"
  /\ UNCHANGED read_size

(***************************************************************************)
(* The ways a reply ends.                                                  *)
(***************************************************************************)
\* finish_connection: write what is left of the head and close.
Finish(head) ==
  /\ phase' = "closed"
  /\ response' = <<>>
  /\ \/ wire' = wire \o head /\ ended' = "complete"
     \/ \E n \in 0 .. Len(head) - 1 :
          wire' = wire \o SubSeq(head, 1, n) /\ ended' = "broken"

\* send_mime drops the range unless the status becomes 206.
Unranged(req) == [req EXCEPT !.got_range = @ /\ ~req.mime_flag]

AnswerPage(req, status) ==
  /\ request' = Unranged(req)
  /\ announced' = AnnouncePage(req, status)
  /\ Finish(AnnouncePage(req, status).head)
  /\ UNCHANGED <<next_byte_index, end_byte_index>>

(***************************************************************************)
(* handle_read.  n bytes arrive, as many as there is room for at most; a   *)
(* full buffer is grown first, unless it is over its limit.                *)
(***************************************************************************)
Full == read_idx >= read_size
Larger(a, b) == IF a > b THEN a ELSE b
Room == IF Full THEN Larger(read_size * 2, ((read_size + RoomStep) * 5) \div 4)
        ELSE read_size

Verdict(n) ==
  Scan(checked_state, SubSeq(stream, checked_idx + 1, read_idx + n))

Arrives(n) ==
  /\ phase = "reading"
  /\ ~(Full /\ read_size > ReadLimit)
  /\ n > 0 /\ read_idx + n <= Room /\ read_idx + n <= Len(stream)
  /\ read_idx' = read_idx + n
  /\ read_size' = Room
  /\ checked_state' = Verdict(n)
  /\ UNCHANGED stream

ReadIncomplete(n) ==
  /\ Arrives(n)
  /\ Verdict(n) \notin {"GOT", "BOGUS"}
  /\ checked_idx' = read_idx + n
  /\ UNCHANGED <<phase, request, sendVars, wire, ended>>

ReadBogus(n) ==
  /\ Arrives(n)
  /\ Verdict(n) = "BOGUS"
  /\ UNCHANGED checked_idx
  /\ AnswerPage(request, 400)

\* The buffer may not grow, end of file, a read error (400), or the client is
\* silent for too long (408).
ReadFails(status) ==
  /\ phase = "reading"
  /\ UNCHANGED readVars
  /\ AnswerPage(request, status)

\* A whole request has arrived: what httpd_parse_request makes of it.
Parsed(n) == Parse(SubSeq(stream, 1, read_idx + n), request)
ReadUnparsable(parsed) ==
  /\ parsed.error # 0
  /\ AnswerPage(parsed.req, parsed.error)

\* The path leads nowhere, or outside of the web tree, or a throttle refuses
\* the connection (503).
ReadUnresolved(parsed, status) ==
  /\ parsed.error = 0
  /\ AnswerPage(parsed.req, status)

(***************************************************************************)
(* really_start_request, once the path has led to a file.                  *)
(***************************************************************************)
Started(parsed) == parsed.error = 0

StartRefused(parsed, file) ==
  /\ Started(parsed)
  /\ Refusal(file) # 0
  /\ AnswerPage(parsed.req, Refusal(file))

\* cgi() and ls(): a directory that does not open (404), a method they do not
\* take (501), too many programs (503), no process (500), or a child that
\* answers.
ToChild(req, file) ==
  \/ req.method = "GET"
  \/ req.method = "POST" /\ ~Listing(file)

Declined(req, file) ==
  (IF Listing(file) THEN {404} ELSE {}) \cup
  (IF ToChild(req, file) THEN {500, 503}
   ELSE IF Listing(file) /\ req.method = "HEAD" THEN {} ELSE {501})

StartDeclined(parsed, file) ==
  /\ Started(parsed)
  /\ Refusal(file) = 0
  /\ Listing(file) \/ file.exec = "cgi"
  /\ \E status \in Declined(parsed.req, file) : AnswerPage(parsed.req, status)

StartChild(parsed, file) ==
  /\ Started(parsed)
  /\ Refusal(file) = 0
  /\ Listing(file) \/ file.exec = "cgi"
  /\ ToChild(parsed.req, file)
  /\ request' = [parsed.req EXCEPT !.should_linger = FALSE]
  /\ phase' = "closed"
  /\ ended' = "elsewhere"
  /\ UNCHANGED <<sendVars, wire>>

Serves(parsed, file) ==
  /\ Started(parsed)
  /\ Refusal(file) = 0
  /\ ~Listing(file)
  /\ file.exec # "cgi"

NotModified(req, file) ==
  req.kept["If-Modified-Since"] # Empty /\ ~file.modified

Announced(req, file) ==
  /\ request' = IF req.mime_flag
                  THEN [req EXCEPT !.got_range = Partial(req, file)] ELSE req
  /\ announced' = AnnounceFile(req, file)

StartHead(parsed, file) ==
  LET req == Clamp(parsed.req, file)
  IN  /\ Serves(parsed, file)
      /\ req.method = "HEAD"
      /\ Announced(req, file)
      /\ Finish(HeadOf(req))
      /\ next_byte_index' = 0
      /\ end_byte_index' = announced'.last + 1

\* A listing has no size (-1), and no end a Range could be cut at.
StartListingHead(parsed, file) ==
  LET req == parsed.req
      listing == [file EXCEPT !.size = -1]
  IN  /\ Started(parsed)
      /\ Refusal(file) = 0
      /\ Listing(file)
      /\ req.method = "HEAD"
      /\ Announced(req, listing)
      /\ Finish(HeadOf(req))
      /\ next_byte_index' = 0
      /\ end_byte_index' = IF request'.got_range THEN req.last_byte_index + 1
                           ELSE 0

StartNotModified(parsed, file) ==
  LET req == Clamp(parsed.req, file)
  IN  /\ Serves(parsed, file)
      /\ req.method # "HEAD" /\ NotModified(req, file)
      /\ AnswerPage(req, 304)

StartUnmapped(parsed, file) ==
  LET req == Clamp(parsed.req, file)
  IN  /\ Serves(parsed, file)
      /\ req.method # "HEAD" /\ ~NotModified(req, file)
      /\ ~file.mappable
      /\ AnswerPage(req, 500)

StartFile(parsed, file) ==
  LET req == Clamp(parsed.req, file)
      told == AnnounceFile(req, file)
  IN  /\ Serves(parsed, file)
      /\ req.method # "HEAD" /\ ~NotModified(req, file)
      /\ file.mappable
      /\ Announced(req, file)
      /\ next_byte_index' = told.first
      /\ end_byte_index' = told.last + 1
      /\ IF told.first > told.last
           THEN Finish(HeadOf(req))
           ELSE /\ phase' = "sending"
                /\ response' = HeadOf(req)
                /\ UNCHANGED <<wire, ended>>

(***************************************************************************)
(* handle_send: a write() or writev() takes n units of head and file.      *)
(***************************************************************************)
Left == Len(response) + end_byte_index - next_byte_index
FileBytes(from, n) == [i \in 1 .. n |-> from + i - 1]
Delivered(n) ==
  SubSeq(response \o FileBytes(next_byte_index,
                               end_byte_index - next_byte_index), 1, n)

\* Mutant: the rest of the head is not moved to the front of the buffer.
SendKeepsFront(n) ==
  /\ phase = "sending"
  /\ n \in 1 .. Left
  /\ wire' = wire \o Delivered(n)
  /\ response' = IF n < Len(response)
                   THEN SubSeq(response, 1, Len(response) - n) ELSE <<>>
  /\ next_byte_index' =
       next_byte_index + IF n < Len(response) THEN 0 ELSE n - Len(response)
  /\ IF next_byte_index' >= end_byte_index
       THEN phase' = "closed" /\ ended' = "complete"
       ELSE UNCHANGED <<phase, ended>>
  /\ UNCHANGED <<readVars, request, announced, end_byte_index>>

Send(n) ==
  /\ phase = "sending"
  /\ n \in 1 .. Left
  /\ wire' = wire \o Delivered(n)
  /\ response' = IF n < Len(response)
                   THEN SubSeq(response, n + 1, Len(response)) ELSE <<>>
  /\ next_byte_index' =
       next_byte_index + IF n < Len(response) THEN 0 ELSE n - Len(response)
  /\ IF next_byte_index' >= end_byte_index
       THEN phase' = "closed" /\ ended' = "complete"
       ELSE UNCHANGED <<phase, ended>>
  /\ UNCHANGED <<readVars, request, announced, end_byte_index>>

\* The write fails, or the client takes nothing for too long.
SendFails ==
  /\ phase = "sending"
  /\ phase' = "closed"
  /\ ended' = "broken"
  /\ UNCHANGED <<readVars, request, sendVars, wire>>

Answers(parsed) ==
  \/ ReadUnparsable(parsed)
  \/ \E status \in {400, 403, 404, 500, 503} : ReadUnresolved(parsed, status)
  \/ \E file \in Files :
       \/ StartRefused(parsed, file)
       \/ StartDeclined(parsed, file)
       \/ StartChild(parsed, file)
       \/ StartHead(parsed, file)
       \/ StartListingHead(parsed, file)
       \/ StartNotModified(parsed, file)
       \/ StartUnmapped(parsed, file)
       \/ StartFile(parsed, file)

ReadWhole(n) ==
  /\ Arrives(n)
  /\ Verdict(n) = "GOT"
  /\ \E parsed \in {Parsed(n)} :
       /\ checked_idx' = parsed.next - 1
       /\ Answers(parsed)

Next ==
  \/ \E s \in Streams : GetConn(s)
  \/ \E n \in 1 .. Len(stream) : ReadIncomplete(n) \/ ReadBogus(n) \/ ReadWhole(n)
  \/ \E status \in {400, 408} : ReadFails(status)
  \/ \E n \in 1 .. Left : Send(n)
  \/ SendFails

Spec == Init /\ [][Next]_vars

-----------------------------------------------------------------------------
(***************************************************************************)
(* Properties.                                                             *)
(***************************************************************************)
\* The fields keep their types, the bytes read fit the buffer, and the part
\* of the file still to send is never negative.
TypeOK ==
  /\ phase \in {"reading", "sending", "closed"}
  /\ stream \in Streams \cup {<<>>}
  /\ read_idx \in 0 .. Len(stream)
  /\ read_idx <= read_size
  /\ checked_idx \in 0 .. read_idx
  /\ checked_state \in CheckedState \cup {"GOT", "BOGUS"}
  /\ request.first_byte_index \in Nat
  /\ request.last_byte_index \in Nat \cup {-1}
  /\ next_byte_index \in Nat /\ end_byte_index \in Nat
  /\ phase = "sending" => next_byte_index < end_byte_index
  /\ ended \in {"open", "complete", "broken", "elsewhere"}

\* What the automaton remembers between two reads is what it would have found
\* in one pass over everything read so far: where a client's packets end
\* makes no difference to whether its request is recognised.
StateOfAllBytes ==
  phase = "reading" =>
    /\ checked_idx = read_idx
    /\ checked_state = Scan("FIRSTWORD", read_buf)

Recognised == Scan("FIRSTWORD", read_buf) = "GOT"
AsParsed == Parse(read_buf, FreshRequest)

\* When the automaton says that a request is whole, the header loop of
\* httpd_parse_request finds the blank line that ends the headers, although
\* it cuts lines by other rules: it never runs out of the buffer, and no
\* header is lost that was still to come.
HeadersEndAtBlankLine ==
  Recognised /\ AsParsed.error = 0 /\ AsParsed.req.mime_flag => AsParsed.blank

\* The automaton and the parser agree on what an HTTP/0.9 request is: a
\* request is answered with a head only if the automaton went past its first
\* line, and without one only if it stopped there.  (A NUL byte may hide a
\* protocol from the parser.)
ParserAndAutomatonAgree ==
  LET end == Min(Places(read_buf, 1, Newline))
      oneLine == Scan("FIRSTWORD", SubSeq(read_buf, 1, end)) = "GOT"
  IN  Recognised =>
        /\ AsParsed.req.mime_flag => ~oneLine
        /\ "nul" \notin Range(read_buf) => (oneLine \/ AsParsed.req.mime_flag)

\* Wherever packets end, a request is recognised as in one piece, and what the
\* automaton takes for a whole request the parser takes for the same one
\* (httpd_got_request, httpd_parse_request).
RecogniserRight ==
  StateOfAllBytes /\ HeadersEndAtBlankLine /\ ParserAndAutomatonAgree

\* Every field of the request comes from the bytes of this connection: none
\* is left over from the connection that used the slot before.
FieldsComeFromThisRequest ==
  LET seen == Range(read_buf)
      ranges == {w \in seen : KindOf(w) = "Range"}
  IN  /\ {request.url, request.reqhost} \ {Empty} \subseteq seen
      /\ request.hdrhost \in seen \cup {Empty, "bad"}
      /\ Range(request.accept) \subseteq seen
      /\ \A f \in KeptFields : request.kept[f] \in seen \cup {Empty}
      /\ request.got_range => ranges # {}
      /\ request.first_byte_index # 0 =>
           request.first_byte_index \in {RangeOf[w][1] : w \in ranges}
      /\ request.last_byte_index # -1 => ranges # {}
      /\ request.keep_alive \/ request.should_linger =>
           \E w \in seen : KindOf(w) = "keep-alive"

HasBody ==
  announced.status \in {200, 206} /\ request.method # "HEAD"

Reply ==
  announced.head \o
  IF HasBody THEN FileBytes(announced.first, announced.last - announced.first + 1)
  ELSE <<>>

\* However the writes cut it, what the client has got is a beginning of the
\* announced reply: the head once and first, then the bytes of the file in
\* order, none skipped and none sent twice; and all of it when the connection
\* ends without a failure.
WireInOrder ==
  /\ Len(wire) <= Len(Reply) /\ wire = SubSeq(Reply, 1, Len(wire))
  /\ phase = "closed" /\ ended = "complete" => wire = Reply

\* A reply that is delivered has as many bytes of the file as its
\* Content-Length says.
LengthAsAnnounced ==
  phase = "closed" /\ ended = "complete" /\ HasBody =>
    Cardinality({i \in DOMAIN wire : wire[i] >= 0}) = announced.length

\* The client of a connection gets what was announced, in order and in length
\* (handle_send).
DeliveredInOrder == TypeOK /\ WireInOrder /\ LengthAsAnnounced

\* No write reaches past the end of the mapped file, and a partial reply
\* names bytes the file has.  (The head of a listing may name any: its range
\* is checked against no size.)
RangeInFile ==
  /\ phase = "sending" => end_byte_index <= announced.size
  /\ announced.status = 206 /\ announced.size >= 0 =>
       announced.first <= announced.last /\ announced.last < announced.size
  /\ \A i \in 1 .. Len(wire) : wire[i] < 0 \/ wire[i] < announced.size

\* A partial reply is what Range lines of the request ask for, cut at the end
\* of the file, and is never given when an If-Range names another version.
RangeOfRequest ==
  announced.status = 206 =>
    LET asked == {RangeOf[w] : w \in {x \in Range(read_buf) : KindOf(x) = "Range"}}
        End(last) ==
          IF announced.size >= 0 /\ (last = -1 \/ last >= announced.size)
            THEN announced.size - 1 ELSE last
    IN  /\ \E r \in asked : announced.first = r[1]
        /\ \E r \in asked : announced.last = End(r[2])
        /\ request.kept["If-Range"] # Empty => announced.range_if

\* A range is within the file and the one the request asks for
\* (really_start_request, send_mime).
RangeAsAsked == RangeInFile /\ RangeOfRequest
================================================================================
