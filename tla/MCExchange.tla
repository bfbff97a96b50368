------------------------------- MODULE MCExchange ------------------------------
(***************************************************************************)
(* Exchange on the requests whose lines, words and ranges meet: every      *)
(* ending of three bytes after a first line, and replies from files of 0,  *)
(* 1 and 3 bytes.                                                          *)
(***************************************************************************)
EXTENDS Exchange, SequencesExt

MCKind ==
  [w \in {"GET", "HEAD", "/p", "http://h/p", "http://h", "HTTP/1.0"} |->
     CASE w = "/p" -> "path"
       [] w = "http://h/p" -> "absolute"
       [] w = "http://h" -> "hostless"
       [] OTHER -> w] @@
  [w \in {"PUT", "HTTP/1.1"} |-> "other"] @@
  ("Host: h" :> "Host") @@ ("Host: /" :> "bad-host") @@
  ("Connection: keep-alive" :> "keep-alive") @@
  ("Accept: a" :> "Accept") @@ ("Accept: b" :> "Accept") @@
  ("Cookie: c" :> "Cookie") @@
  ("If-Modified-Since: t" :> "If-Modified-Since") @@
  ("If-Range: t" :> "If-Range") @@
  ("Range: 0-" :> "Range") @@ ("Range: 1-1" :> "Range") @@
  ("Range: 1-3" :> "Range") @@ ("Range: 2-1" :> "Range") @@
  ("Range: 9-" :> "Range")

MCWords == DOMAIN MCKind

MCRangeOf ==
  ("Range: 0-" :> <<0, -1>>) @@ ("Range: 1-1" :> <<1, 1>>) @@
  ("Range: 1-3" :> <<1, 3>>) @@ ("Range: 2-1" :> <<2, 1>>) @@
  ("Range: 9-" :> <<9, -1>>)

Crlf == <<"cr", "lf">>

\* Everything that may come in place of a line end: what follows two words,
\* and what follows three.
Odd(i) == IF i = 2 THEN {"sp", "lf", "cr", "nul", "HTTP/1.0"}
          ELSE {"sp", "lf", "cr", "HTTP/1.0"}
OddStreams ==
  {<<"GET", "sp", "/p">> \o e :
     e \in {<<"lf">>, <<"cr">>, <<"nul", "lf">>} \cup
           {<<"sp", x, y, "lf">> : x \in Odd(2), y \in Odd(3) \ {"HTTP/1.0"}}} \cup
  {<<"GET", "sp", "/p", "sp", "HTTP/1.0", x, y, z>> \o t :
     x \in Newline, y \in Odd(2), z \in Odd(3) \ {"HTTP/1.0"}, t \in {<<>>, Crlf}}

FirstLines ==
  {<<"GET", "sp", "/p", "sp", "HTTP/1.1">>, <<"HEAD", "sp", "/p", "sp", "HTTP/1.0">>,
   <<"GET", "sp", "/p", "sp", "HTTP/1.0">>}
OddFirstLines ==
  {<<"GET", "sp", u, "sp", v>> : u \in {"http://h/p", "http://h", "PUT"},
                                 v \in {"HTTP/1.0", "HTTP/1.1"}} \cup
  {<<"PUT", "sp", "/p", "sp", "HTTP/1.0">>, <<"sp", "GET", "sp", "/p", "sp", "HTTP/1.0">>}

HeaderLists ==
  {<<>>, <<"Host: h">>, <<"Host: /", "Host: h">>,
   <<"Connection: keep-alive", "Host: h">>,
   <<"Accept: a", "Accept: b", "Accept: a">>, <<"Cookie: c">>,
   <<"If-Modified-Since: t">>,
   <<"If-Range: t", "Range: 1-1">>,
   <<"Range: 9-", "Range: 0-">>} \cup
  {<<r>> : r \in DOMAIN MCRangeOf} \cup
  {<<"Range: 1-1", r, "Host: h">> : r \in DOMAIN MCRangeOf}

Lines(first, headers) ==
  first \o Crlf \o FlattenSeq([i \in 1 .. Len(headers) |-> <<headers[i]>> \o Crlf])
        \o Crlf

MCStreams ==
  OddStreams \cup
  {Lines(f, h) : f \in FirstLines, h \in HeaderLists} \cup
  {Lines(f, <<"Host: h">>) : f \in OddFirstLines} \cup
  {Lines(<<"GET", "sp", "/p", "sp", "HTTP/1.0">>, [i \in 1 .. 5 |-> "Cookie: c"])}

Plain ==
  [exists |-> TRUE, hidden |-> FALSE, kind |-> "file", pathinfo |-> FALSE,
   slash |-> TRUE, index |-> "none", refused |-> 0, exec |-> "no",
   mappable |-> TRUE, size |-> 3, modified |-> FALSE, range_if |-> FALSE]
Directory == [Plain EXCEPT !.kind = "directory"]

MCFiles ==
  {[Plain EXCEPT !.size = n, !.modified = m, !.range_if = m] :
     n \in {0, 1, 3}, m \in BOOLEAN} \cup
  {[Plain EXCEPT !.exists = FALSE], [Plain EXCEPT !.hidden = TRUE],
   [Plain EXCEPT !.refused = 401], [Plain EXCEPT !.exec = "cgi"],
   [Plain EXCEPT !.exec = "forbidden"], [Plain EXCEPT !.pathinfo = TRUE],
   [Plain EXCEPT !.mappable = FALSE, !.modified = TRUE]} \cup
  {Directory, [Directory EXCEPT !.pathinfo = TRUE],
   [Directory EXCEPT !.slash = FALSE]} \cup
  {[Directory EXCEPT !.index = i] : i \in {"broken", "hidden", "found"}}
================================================================================
