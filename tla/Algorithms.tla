----------------------------- MODULE Algorithms -----------------------------
(***************************************************************************)
(* The algorithms of tweb that depend on nothing but what they are given,  *)
(* each against a definition of what it promises: Paths resolves one       *)
(* request step by step, and the others are one call each, the value of    *)
(* call when the behaviour begins.                                         *)
(***************************************************************************)
EXTENDS Paths, Match, Dates, Texts

CONSTANTS
  Chars,                \* of patterns and strings
  MatchCalls,           \* <<"match", pattern, string>>
  DateCalls,            \* <<"date", text, year, month, day, second>>
  MimeCalls,            \* <<"mime", encodings, types, name>>
  B64Calls              \* <<"b64", bytes, size>>

\* End is not in a string, and "**" is two characters.
ASSUME MatchAssumption ==
  /\ End \notin Chars /\ "**" \notin Chars
  /\ \A c \in MatchCalls : c \in {"match"} \X Seq(Chars) \X Seq(Chars)

\* A call says which it is.
ASSUME CallAssumption ==
  /\ \A c \in DateCalls : c[1] = "date"
  /\ \A c \in MimeCalls : c[1] = "mime"
  /\ \A c \in B64Calls : c[1] = "b64"

\* A date of the years 1970 to 2099 in one of the formats, tables without
\* duplicates, credentials of bytes.
ASSUME DecodingAssumption ==
  /\ \A c \in DateCalls : GoodDateCall(c)
  /\ \A c \in MimeCalls : GoodMimeCall(c)
  /\ \A c \in B64Calls : c[2] \in Seq(0 .. 255) /\ c[3] \in Nat

VARIABLE call

callVars == <<vars, call>>

NoCall == <<"none">>

\* No request is being resolved.
NoRequest ==
  /\ site = CHOOSE s \in Sites : TRUE
  /\ url = <<>> /\ pc = "answered" /\ answer = "nothing"
  /\ origfilename = <<>> /\ expnfilename = <<>> /\ pathinfo = <<>>
  /\ checked = <<>> /\ rest = <<>> /\ nlinks = 0
  /\ index = FALSE /\ sb = <<>>

CallInit ==
  \/ PathInit /\ call = NoCall
  \/ /\ NoRequest
     /\ \/ call \in MatchCalls
        \/ call \in DateCalls
        \/ call \in MimeCalls
        \/ call \in B64Calls

CallNext == PathNext /\ UNCHANGED call

CallSpec == CallInit /\ [][CallNext]_callVars

\* One thread runs the request to its end.
CallFairSpec == CallSpec /\ WF_callVars(CallNext)

Calling(f) == call[1] = f

-----------------------------------------------------------------------------
(***************************************************************************)
(* Paths.                                                                  *)
(***************************************************************************)
\* A component after others, as a stack that never goes below empty.
Worked(st, c) ==
  IF c \in {Empty, Dot} THEN st
  ELSE IF c # Up THEN Append(st, c)
  ELSE IF st = <<>> THEN st ELSE Front(st)

\* A path with "." and ".." worked out.
Plain(path) ==
  LET Stack[i \in 0 .. Len(path)] ==
        IF i = 0 THEN <<>> ELSE Worked(Stack[i - 1], path[i])
  IN  Stack[Len(path)]

\* Where a path of the tree leads, ".." staying inside until an absolute link
\* has been taken, and how far it can be followed; a slash at the end does not
\* count.
LeadsTo(path, how) == WalkPath(site.cwd, site.cwd, Trim(path), MAX_LINKS, how)
PlaceOf(path) == LeadsTo(path, "stat")
FurthestOf(path) == LeadsTo(path, "reach")

\* no_symlink_check is for a server that has called chroot (libhttpd.c:1700).
CheckedOrChrooted == site.no_symlink_check => site.cwd = <<>>

\* de_dotdot leaves a path that names what the stack says, with ".." only in
\* "x/..", and takes no request for another's: a path is refused only if it
\* begins with a slash or is "..", whatever it does in between.
CleanedRight ==
  /\ pc = "expand" /\ ~index =>
       /\ Plain(origfilename) = Plain(url)
       /\ Up \in ToSet(origfilename) =>
            Len(origfilename) = 2 /\ origfilename[2] = Up
  /\ answer = "400" => url[1] = Empty \/ Plain(url) = <<>>

\* expand_symlinks returns a name without links and without "..", of the very
\* file that following the links one by one, directory by directory, leads to,
\* or leads to last; and it leaves a rest just when the path leads nowhere
\* (libhttpd.c 1680-1685). A "." before the end is taken for a name: de_dotdot
\* leaves none.
ExpansionRight ==
  /\ CleanedRight
  /\ pc = "expanded" /\ CheckedOrChrooted /\ Dot \notin ToSet(Front(Trim(expnfilename))) =>
       /\ Stat(checked) = FurthestOf(expnfilename)
       /\ rest = <<>> <=> PlaceOf(expnfilename) # Nowhere
  /\ pc = "expanded" /\ ~site.no_symlink_check =>
       /\ Up \notin ToSet(checked)
       /\ \A i \in 1 .. Len(checked) : Kind(Lstat(SubSeq(checked, 1, i))) # "link"

\* What a request gets: a program or a file is the one its path names, a program
\* maybe with a path behind it, and lies in the tree, or is an index file of the
\* directory its path names, which nothing keeps from being a directory itself;
\* it may be read by all. Where links are checked, the file that is opened is not
\* an AUTH_FILE, is a program by its own name, and is not executable without
\* leave. A listing is of a directory without an index file
\* (really_start_request).
AnswerRight ==
  pc = "answered" /\ Calling("none") /\ CheckedOrChrooted =>
    LET path == FileName(Cleaned)
        place == PlaceOf(path)
        opened == Stat(expnfilename)
        Member(n) == IF site.no_symlink_check THEN Stat(Append(Trim(path), n))
                     ELSE WalkPath(place, <<>>, <<n>>, MAX_LINKS, "stat")
        named == {n \in ToSet(index_names) : Member(n) # Nowhere}
    IN  /\ answer \in {"file", "cgi"} =>
             /\ Readable(sb)
             /\ ~index => /\ Kind(sb) = "file" /\ sb = opened
                          /\ sb = FurthestOf(path) /\ IsPrefix(site.cwd, sb)
             /\ index => Kind(place) = "dir" /\ \E n \in named : sb = Member(n)
             /\ ~site.no_symlink_check /\ Kind(opened) = "file" =>
                  /\ Last(opened) # AUTH_FILE
                  /\ answer = "cgi" => Last(opened) \in CgiNames
                  /\ answer = "file" /\ site.tree[sb].xoth => Last(opened) \in PlainNames
        /\ answer = "file" => index \/ sb = place
        /\ answer = "cgi" => site.tree[sb].xoth
        /\ answer \in {"listing", "302"} => place = sb /\ Kind(place) = "dir"
        /\ answer = "listing" => named = {}

\* Every request is answered: links that lead in a circle come to an end
\* (MAX_LINKS).
Answered == <>(pc = "answered")

(***************************************************************************)
(* The calls.                                                              *)
(***************************************************************************)
\* match says what config.h describes: a wildcard finds its piece of the
\* string whatever the pieces of the others are, and never past a slash unless
\* it is double (match.c).
MatchAsDescribed ==
  Calling("match") => MatchAny(call[2], call[3]) <=> MatchDescribed(call[2], call[3])

\* tdate_parse gives the moment the calendar does, for each of its formats,
\* both ways to write a year and every name of a month, although an earlier
\* format may take the beginning of a later one's text (tdate_parse.c); the two
\* decoders of libhttpd.c return the type and encodings of a name whatever the
\* order and prefixes of the table's entries are, and the credentials that
\* were encoded, up to the size of the buffer.
DecodingRight ==
  /\ Calling("date") =>
       TdateParse(call[2]) = <<DaysBefore(call[3], call[4], call[5]), call[6]>>
  /\ Calling("mime") =>
       FigureMime(InitMime(call[2]), InitMime(call[3]), call[4])
         = MimeDescribed(call[2], call[3], call[4])
  /\ Calling("b64") =>
       LET n == Len(call[2])
       IN  B64Decode(Encode(call[2]), call[3])
             = SubSeq(call[2], 1, IF n < call[3] THEN n ELSE call[3])
=============================================================================
