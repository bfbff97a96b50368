-------------------------------- MODULE Request --------------------------------
(***************************************************************************)
(* How tweb recognises and parses a request (libhttpd.c): the automaton of *)
(* httpd_got_request, which sees the bytes as they arrive, and             *)
(* httpd_parse_request, which cuts the same buffer into lines and words    *)
(* again once the automaton has said that it holds a whole request.        *)
(* Module Exchange drives both from handle_read.                           *)
(*                                                                         *)
(* Abstracted: a byte is one of "sp" (space or tab), "lf", "cr", "nul", or *)
(* a whole word (a member of Words), of which the code asks only what Kind *)
(* says: which method, protocol or header line it is.  Two words are never *)
(* adjacent.  Resolving the path to a file (de_dotdot, the tilde map, the  *)
(* virtual host map, expand_symlinks) is a choice of the caller.           *)
(***************************************************************************)
EXTENDS Integers, Sequences, FiniteSets, FiniteSetsExt

CONSTANTS
  Words,                \* words and header lines a client may send
  Kind,                 \* what each is for the parser: [Words -> Kinds]
  RangeOf,              \* <<first, last>> of each line of kind "Range",
                        \* last = -1 when it gives none
  MaxAccept             \* Accept: values kept before more are dropped

\* Header lines whose last occurrence replaces the earlier ones.
KeptFields ==
  {"Referer", "User-Agent", "Accept-Language", "Accept-Encoding", "Cookie",
   "Content-Type", "Content-Length", "Authorization", "If-Modified-Since",
   "If-Range"}

Methods == {"GET", "HEAD", "POST"}

Kinds ==
  Methods \cup KeptFields \cup
  {"path",        \* a URL that starts with a slash
   "absolute",    \* http://host/path
   "hostless",    \* http:// and no path, or a host that starts with a dot
   "HTTP/1.0",
   "Host",        \* Host: name
   "bad-host",    \* Host: with a slash in it, or starting with a dot
   "keep-alive",  \* Connection: keep-alive
   "Range",       \* Range: bytes=first-[last], without a comma
   "Accept",
   "other"}

\* No word: what is not given.
Empty == ""

ASSUME RequestAssumption ==
  /\ Kind \in [Words -> Kinds]
  /\ {"sp", "lf", "cr", "nul", Empty, "bad"} \cap Words = {}
  /\ RangeOf \in [{w \in Words : Kind[w] = "Range"} -> Nat \X (Nat \cup {-1})]
  /\ MaxAccept \in Nat \ {0}

Byte == Words \cup {"sp", "lf", "cr", "nul"}
Newline == {"lf", "cr"}
KindOf(w) == IF w \in Words THEN Kind[w] ELSE "other"

(***************************************************************************)
(* httpd_got_request.  GOT and BOGUS end the scan; until then the state is *)
(* what has been made of the bytes before checked_idx.                     *)
(***************************************************************************)
CheckedState ==
  {"FIRSTWORD", "FIRSTWS", "SECONDWORD", "SECONDWS", "THIRDWORD", "THIRDWS",
   "LINE", "LF", "CR", "CRLF", "CRLFCR"}

On(sp, lf, cr, other) == [sp |-> sp, lf |-> lf, cr |-> cr, other |-> other]

CheckTable ==
  [FIRSTWORD  |-> On("FIRSTWS",  "BOGUS", "BOGUS", "FIRSTWORD"),
   FIRSTWS    |-> On("FIRSTWS",  "BOGUS", "BOGUS", "SECONDWORD"),
   SECONDWORD |-> On("SECONDWS", "GOT",   "GOT",   "SECONDWORD"),
   SECONDWS   |-> On("SECONDWS", "BOGUS", "BOGUS", "THIRDWORD"),
   THIRDWORD  |-> On("THIRDWS",  "LF",    "CR",    "THIRDWORD"),
   THIRDWS    |-> On("THIRDWS",  "LF",    "CR",    "BOGUS"),
   LINE       |-> On("LINE",     "LF",    "CR",    "LINE"),
   LF         |-> On("LINE",     "GOT",   "CR",    "LINE"),
   CR         |-> On("LINE",     "CRLF",  "GOT",   "LINE"),
   CRLF       |-> On("LINE",     "GOT",   "CRLFCR", "LINE"),
   CRLFCR     |-> On("LINE",     "GOT",   "GOT",   "LINE")]

Column(b) == IF b \in {"sp", "lf", "cr"} THEN b ELSE "other"

\* Mutant: the blank line may be a lone CR LF, the end of any line.
CheckCrlf(state, b) ==
  IF state \in {"GOT", "BOGUS"} THEN state
  ELSE IF state = "CR" /\ b = "lf" THEN "GOT"
  ELSE CheckTable[state][Column(b)]

Check(state, b) ==
  IF state \in {"GOT", "BOGUS"} THEN state ELSE CheckTable[state][Column(b)]

\* The states it goes through over some bytes, and the last.
States(state, bytes) ==
  LET after[i \in 0 .. Len(bytes)] ==
        IF i = 0 THEN state ELSE Check(after[i - 1], bytes[i])
  IN  after
Scan(state, bytes) == States(state, bytes)[Len(bytes)]

(***************************************************************************)
(* bufgets: the line that starts at byte i of the buffer, as the C string  *)
(* the caller sees, and where the next one starts.                         *)
(***************************************************************************)
Places(s, i, bytes) == {k \in i .. Len(s) : s[k] \in bytes}

CString(s) ==
  LET nuls == Places(s, 1, {"nul"})
  IN  IF nuls = {} THEN s ELSE SubSeq(s, 1, Min(nuls) - 1)

NoLine(buf) == [found |-> FALSE, text |-> <<>>, next |-> Len(buf) + 1]

Bufgets(buf, i) ==
  LET end == Min(Places(buf, i, Newline))
      pair == buf[end] = "cr" /\ end < Len(buf) /\ buf[end + 1] = "lf"
  IN  IF Places(buf, i, Newline) = {} THEN NoLine(buf)
      ELSE [found |-> TRUE, text |-> CString(SubSeq(buf, i, end - 1)),
            next |-> IF pair THEN end + 2 ELSE end + 1]

(***************************************************************************)
(* The request as httpd_get_conn resets it and as parsing leaves it.       *)
(***************************************************************************)
FreshRequest ==
  [method |-> "UNKNOWN", mime_flag |-> TRUE, one_one |-> FALSE,
   url |-> Empty, reqhost |-> Empty, hdrhost |-> Empty,
   accept |-> <<>>, kept |-> [f \in KeptFields |-> Empty],
   got_range |-> FALSE, first_byte_index |-> 0, last_byte_index |-> -1,
   keep_alive |-> FALSE, should_linger |-> FALSE]

\* The words of a first line, as strpbrk and strspn cut them: the first is
\* empty when the line starts with a space, the last when it ends with one.
CutAt(words, b) ==
  CASE b # "sp" -> [words EXCEPT ![Len(words)] = b]
    [] b = "sp" /\ Len(words) > 1 /\ words[Len(words)] = Empty -> words
    [] OTHER -> Append(words, Empty)
CutsOf(line) ==
  LET words[i \in 0 .. Len(line)] ==
        IF i = 0 THEN <<Empty>> ELSE CutAt(words[i - 1], line[i])
  IN  words
Cut(line) == CutsOf(line)[Len(line)]

\* The first line: its words, whether it has a protocol (mime_flag) and
\* whether that is anything but HTTP/1.0 (one_one).
FirstLine(words, req) ==
  [req EXCEPT
     !.method = KindOf(words[1]),
     !.url = IF Len(words) < 2 THEN Empty ELSE words[2],
     !.mime_flag = Len(words) > 2,
     !.one_one =
        Len(words) > 2 /\ words[3] # Empty /\ KindOf(words[3]) # "HTTP/1.0"]

\* 0, or the status of the error page the first line earns.
FirstLineError(words, req) ==
  CASE Len(words) < 2 -> 400
    [] KindOf(req.url) = "absolute" /\ ~req.one_one -> 400
    [] KindOf(req.url) \notin {"path", "absolute"} -> 400
    [] req.method \notin Methods -> 501
    [] OTHER -> 0

\* One header line.
Header(req, line) ==
  LET w == line[1]
      k == KindOf(w)
  IN  CASE k = "Host" -> [req EXCEPT !.hdrhost = w]
        [] k = "bad-host" -> [req EXCEPT !.hdrhost = "bad"]
        [] k \in KeptFields -> [req EXCEPT !.kept[k] = w]
        [] k = "Accept" /\ Len(req.accept) < MaxAccept ->
             [req EXCEPT !.accept = Append(@, w)]
        [] k = "Range" ->
             [req EXCEPT
                !.got_range = TRUE,
                !.first_byte_index = RangeOf[w][1],
                !.last_byte_index =
                   IF RangeOf[w][2] = -1 THEN @ ELSE RangeOf[w][2]]
        [] k = "keep-alive" -> [req EXCEPT !.keep_alive = TRUE]
        [] OTHER -> req

\* One turn of the loop over the header lines: a blank line, the end of the
\* buffer and a bad Host leave it.
Turn(buf, h) ==
  LET line == Bufgets(buf, h.next)
      last == ~line.found \/ line.text = <<>>
      req == IF last THEN h.req ELSE Header(h.req, line.text)
  IN  IF h.over THEN h
      ELSE [req |-> req, next |-> line.next,
            over |-> last \/ req.hdrhost = "bad", blank |-> last /\ line.found]

\* The loop, from the line at byte start on; it is over after a turn for each
\* byte of the buffer, and one.
Turns(buf, start, req) ==
  LET after[k \in 0 .. Len(buf) + 1] ==
        IF k = 0 THEN [req |-> req, next |-> start, over |-> FALSE, blank |-> FALSE]
        ELSE Turn(buf, after[k - 1])
  IN  after
Headers(buf, start, req) == Turns(buf, start, req)[Len(buf) + 1]

Linger(req) ==
  [req EXCEPT !.should_linger = req.one_one /\ req.keep_alive]

\* httpd_parse_request of a whole buffer, up to the resolution of the path:
\* the request, the status of the error page (0 for none), whether the
\* headers ended with a blank line, and the byte parsing stopped at.
Parse(buf, fresh) ==
  LET line == Bufgets(buf, 1)
      words == Cut(line.text)
      first == FirstLine(words, fresh)
      hostnamed ==
        [first EXCEPT !.reqhost = IF KindOf(first.url) = "absolute"
                                    THEN first.url ELSE @]
      headers == Headers(buf, line.next, hostnamed)
      done == headers.req
      Result(req, error, blank, next) ==
        [req |-> req, error |-> error, blank |-> blank, next |-> next]
  IN  IF FirstLineError(words, first) # 0
        THEN Result(first, FirstLineError(words, first), TRUE, line.next)
      ELSE IF ~first.mime_flag
        THEN Result(hostnamed, 0, TRUE, line.next)
      ELSE IF \/ done.hdrhost = "bad"
              \/ done.one_one /\ done.reqhost = Empty /\ done.hdrhost = Empty
        THEN Result(done, 400, headers.blank, headers.next)
      ELSE Result(Linger(done), 0, headers.blank, headers.next)
================================================================================
