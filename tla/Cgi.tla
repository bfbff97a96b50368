---------------------------------- MODULE Cgi ----------------------------------
(***************************************************************************)
(* What happens behind one CGI request (libhttpd.c): the child cgi_child   *)
(* sets up its standard input and output and becomes the program; between  *)
(* the client and the program stand up to two more processes,              *)
(* cgi_interpose_input and cgi_interpose_output, joined to it by pipes.    *)
(* The main process closes the connection as soon as it has forked, so the *)
(* client's connection ends when the last of these processes lets go.      *)
(*                                                                         *)
(* One CGI request at a time; other children are directory listings, of    *)
(* which only Children matters.  Abstracted: the body of the request is    *)
(* units 1, 2, ... of which the first are already in the read buffer, the  *)
(* output of the program is units 1, 2, ... with the blank line that ends  *)
(* its headers in one of them or nowhere; reads and writes move one unit.  *)
(***************************************************************************)
EXTENDS Children, Sequences

CONSTANTS
  MaxBody,              \* bound: units of a request body
  MaxOutput,            \* bound: units a program writes
  PipeSize,             \* units a pipe holds
  Requests              \* the requests that are made

VARIABLES
  cgi,                  \* pid of the child of the CGI request, or NoPid
  request,              \* what the request asks of cgi_child
  setup,                \* where the child is
  input,                \* where cgi_interpose_input is
  output,               \* where cgi_interpose_output is
  holders,              \* processes that have each end of each pipe open
  in_pipe, out_pipe,    \* what the pipes hold
  sent,                 \* units of the body the client has sent
  taken,                \* units of the body read from buffer or socket
  carried,              \* unit the input interposer is about to write
  got,                  \* what the program has read
  produced,             \* units the program has written
  headers,              \* the output interposer's saved headers
  wire                  \* what the client has received

dataVars == <<in_pipe, out_pipe, sent, taken, carried, got, produced,
              headers, wire>>
plumbing == <<cgi, request, setup, input, output, holders, dataVars>>
vars == <<childVars, plumbing>>

NoPid == 0

\* On the wire, beside the units of the program's output.
StatusLine == 0
ErrorPage == -1

Request ==
  [post : BOOLEAN,
   leftover : 0 .. MaxBody,         \* units after the headers in read_buf
   length : -1 .. MaxBody,          \* Content-Length, -1 for none
   size : 0 .. MaxBody,             \* units the client means to send
   mime : BOOLEAN,                  \* not nph- and not HTTP/0.9
   blank : 0 .. MaxOutput]          \* unit with the blank line, 0 for none

ASSUME CgiAssumption ==
  /\ NoPid \notin Pids
  /\ MaxBody \in Nat /\ MaxOutput \in Nat /\ PipeSize \in Nat \ {0}
  /\ Requests \subseteq Request
  /\ \A r \in Requests : r.leftover <= r.size

NoRequest == [post |-> FALSE, leftover |-> 0, length |-> -1, size |-> 0,
              mime |-> FALSE, blank |-> 0]

NoHolders == [in_w |-> {}, in_r |-> {}, out_w |-> {}, out_r |-> {}]

Without(who) ==
  [in_w |-> holders.in_w \ {who}, in_r |-> holders.in_r \ {who},
   out_w |-> holders.out_w \ {who}, out_r |-> holders.out_r \ {who}]

\* contentlength is unsigned: without a Content-Length every count is below.
Short(n) == request.length = -1 \/ n < request.length

Interposed == request.post /\ request.leftover > 0
Nobody == setup = "none" /\ input = "none" /\ output = "none"

CgiInit ==
  /\ ChildrenInit
  /\ cgi = NoPid
  /\ request = NoRequest
  /\ setup = "none" /\ input = "none" /\ output = "none"
  /\ holders = NoHolders
  /\ in_pipe = <<>> /\ out_pipe = <<>>
  /\ sent = 0 /\ taken = 0 /\ carried = <<>>
  /\ got = <<>> /\ produced = 0 /\ headers = <<>> /\ wire = <<>>

-----------------------------------------------------------------------------
(***************************************************************************)
(* The main process.                                                       *)
(***************************************************************************)
ForkListing(p) == Fork(p) /\ UNCHANGED plumbing

ForkCgi(p, r) ==
  /\ Nobody
  /\ Fork(p)
  /\ cgi' = p
  /\ request' = r
  /\ setup' = "stdin"
  /\ sent' = r.leftover
  /\ taken' = 0 /\ carried' = <<>> /\ in_pipe' = <<>> /\ out_pipe' = <<>>
  /\ got' = <<>> /\ produced' = 0 /\ headers' = <<>> /\ wire' = <<>>
  /\ UNCHANGED <<input, output, holders>>

\* Whatever ends the child closes its descriptors.
ChildGone(p) ==
  IF p = cgi /\ child'[p] # "running"
    THEN /\ setup' = "none"
         /\ cgi' = NoPid
         /\ holders' = Without("child")
         /\ UNCHANGED <<request, input, output, dataVars>>
    ELSE UNCHANGED plumbing

KillChild(p) ==
  \/ \E dies \in BOOLEAN : CgiKill(p, dies) /\ ChildGone(p)
  \/ CgiKill2(p) /\ ChildGone(p)

ListingEnds(p) == p # cgi /\ ChildEnds(p) /\ UNCHANGED plumbing

Counts == (Refuse \/ LoadCount \/ StoreCount) /\ UNCHANGED plumbing
Reaps == HandleChld /\ UNCHANGED plumbing
Forks ==
  \/ ForkFails /\ UNCHANGED plumbing
  \/ \E p \in Pids : ForkListing(p)
  \/ \E p \in Pids, r \in Requests : ForkCgi(p, r)

(***************************************************************************)
(* cgi_child.                                                              *)
(***************************************************************************)
\* pipe(), fork() or execve() fails: the child writes an error page straight
\* to the connection and exits.
ChildFails ==
  /\ setup \in {"stdin", "stdout", "exec"}
  /\ setup = "stdin" => Interposed
  /\ setup = "stdout" => request.mime
  /\ ChildEnds(cgi)
  /\ wire' = Append(wire, ErrorPage)
  /\ setup' = "none"
  /\ cgi' = NoPid
  /\ holders' = Without("child")
  /\ UNCHANGED <<request, input, output, in_pipe, out_pipe, sent, taken,
                 carried, got, produced, headers>>

\* The interposer closes its end to read from, the child the other one.
SetUpStdin ==
  /\ setup = "stdin"
  /\ setup' = "stdout"
  /\ IF Interposed
       THEN /\ input' = "leftover"
            /\ holders' = [holders EXCEPT !.in_w = {"input"},
                                          !.in_r = {"child"}]
       ELSE UNCHANGED <<input, holders>>
  /\ UNCHANGED <<childVars, cgi, request, output, dataVars>>

\* The output interposer is forked when the child's standard input already is
\* the pipe, so it has that end open too.
SetUpStdout ==
  /\ setup = "stdout"
  /\ setup' = "exec"
  /\ IF request.mime
       THEN /\ output' = "headers"
            /\ holders' =
                 [holders EXCEPT !.out_w = {"child"}, !.out_r = {"output"},
                                 !.in_r = IF Interposed THEN @ \cup {"output"}
                                          ELSE @]
       ELSE UNCHANGED <<output, holders>>
  /\ UNCHANGED <<childVars, cgi, request, input, dataVars>>

Exec ==
  /\ setup = "exec"
  /\ setup' = "program"
  /\ UNCHANGED <<childVars, cgi, request, input, output, holders, dataVars>>

CgiChild == SetUpStdin \/ SetUpStdout \/ Exec \/ ChildFails

(***************************************************************************)
(* The program: it may read, write and exit as it likes (external code).   *)
(***************************************************************************)
ProgramReads ==
  /\ setup = "program"
  /\ IF Interposed
       THEN /\ in_pipe # <<>>
            /\ got' = Append(got, Head(in_pipe))
            /\ in_pipe' = Tail(in_pipe)
            /\ UNCHANGED taken
       ELSE /\ request.post /\ taken < sent
            /\ got' = Append(got, taken + 1)
            /\ taken' = taken + 1
            /\ UNCHANGED in_pipe
  /\ UNCHANGED <<childVars, cgi, request, setup, input, output, holders,
                 out_pipe, sent, carried, produced, headers, wire>>

ProgramWrites ==
  /\ setup = "program"
  /\ produced < MaxOutput
  /\ produced' = produced + 1
  /\ IF request.mime
       THEN /\ Len(out_pipe) < PipeSize
            /\ holders.out_r # {}
            /\ out_pipe' = Append(out_pipe, produced + 1)
            /\ UNCHANGED wire
       ELSE /\ wire' = Append(wire, produced + 1)
            /\ UNCHANGED out_pipe
  /\ UNCHANGED <<childVars, cgi, request, setup, input, output, holders,
                 in_pipe, sent, taken, carried, got, headers>>

ProgramExits ==
  /\ setup = "program"
  /\ ChildEnds(cgi)
  /\ ChildGone(cgi)

Program == ProgramReads \/ ProgramWrites \/ ProgramExits

(***************************************************************************)
(* cgi_interpose_input: first what is left in the read buffer, then what   *)
(* comes on the connection until Content-Length is reached, then up to two *)
(* units that are thrown away.                                             *)
(***************************************************************************)
InputEnds(why) ==
  /\ input' = why
  /\ holders' = Without("input")

InputReads ==
  /\ input = "reading"
  /\ carried = <<>>
  /\ Short(taken) /\ taken < sent
  /\ carried' = <<taken + 1>>
  /\ taken' = taken + 1
  /\ UNCHANGED <<childVars, cgi, request, setup, input, output, holders,
                 in_pipe, out_pipe, sent, got, produced, headers, wire>>

InputTakesLeftover ==
  /\ input = "leftover"
  /\ carried = <<>>
  /\ IF taken < request.leftover
       THEN /\ carried' = <<taken + 1>>
            /\ taken' = taken + 1
            /\ UNCHANGED input
       ELSE /\ input' = "reading"
            /\ UNCHANGED <<carried, taken>>
  /\ UNCHANGED <<childVars, cgi, request, setup, output, holders, in_pipe,
                 out_pipe, sent, got, produced, headers, wire>>

InputWrites ==
  /\ carried # <<>>
  /\ holders.in_r # {}
  /\ Len(in_pipe) < PipeSize
  /\ in_pipe' = in_pipe \o carried
  /\ carried' = <<>>
  /\ UNCHANGED <<childVars, cgi, request, setup, input, output, holders,
                 out_pipe, sent, taken, got, produced, headers, wire>>

\* A write fails because nobody reads the pipe any more.
InputBreaks ==
  /\ carried # <<>>
  /\ holders.in_r = {}
  /\ carried' = <<>>
  /\ InputEnds("none")
  /\ UNCHANGED <<childVars, cgi, request, setup, output, in_pipe, out_pipe,
                 sent, taken, got, produced, headers, wire>>

\* The whole body has been written, or the client has closed.
InputDone ==
  /\ input = "reading"
  /\ carried = <<>>
  /\ \/ ~Short(taken)
     \/ taken = sent /\ sent = request.size
  /\ taken' = IF ~Short(taken) /\ sent > taken THEN sent ELSE taken
  /\ InputEnds("none")
  /\ UNCHANGED <<childVars, cgi, request, setup, output, in_pipe, out_pipe,
                 sent, carried, got, produced, headers, wire>>

Input ==
  InputTakesLeftover \/ InputReads \/ InputWrites \/ InputBreaks \/ InputDone

(***************************************************************************)
(* cgi_interpose_output: collect the headers up to the blank line, write a *)
(* status line, the headers, and whatever follows.                         *)
(***************************************************************************)
Eof == out_pipe = <<>> /\ holders.out_w = {}

\* Mutant: the first read is taken for all of the headers.
OutputCollectsOnce ==
  /\ output = "headers"
  /\ out_pipe # <<>>
  /\ headers' = <<Head(out_pipe)>>
  /\ out_pipe' = Tail(out_pipe)
  /\ output' = "status"
  /\ UNCHANGED <<childVars, cgi, request, setup, input, holders, in_pipe, sent,
                 taken, carried, got, produced, wire>>

OutputCollects ==
  /\ output = "headers"
  /\ out_pipe # <<>>
  /\ headers' = Append(headers, Head(out_pipe))
  /\ out_pipe' = Tail(out_pipe)
  /\ output' = IF Head(out_pipe) = request.blank THEN "status" ELSE output
  /\ UNCHANGED <<childVars, cgi, request, setup, input, holders, in_pipe, sent,
                 taken, carried, got, produced, wire>>

\* The program has closed its output before a blank line.  With nothing
\* collected, headers[0] is read from memory nobody has written: the test for
\* "no headers" may go either way.
OutputEndsEarly ==
  /\ output = "headers"
  /\ Eof
  /\ \/ /\ output' = "status"
        /\ UNCHANGED holders
     \/ /\ headers = <<>>
        /\ output' = "none"
        /\ holders' = Without("output")
  /\ UNCHANGED <<childVars, cgi, request, setup, input, dataVars>>

OutputStatus ==
  /\ output = "status"
  /\ wire' = Append(wire, StatusLine) \o headers
  /\ headers' = <<>>
  /\ output' = "echo"
  /\ UNCHANGED <<childVars, cgi, request, setup, input, holders, in_pipe,
                 out_pipe, sent, taken, carried, got, produced>>

OutputEchoes ==
  /\ output = "echo"
  /\ out_pipe # <<>>
  /\ wire' = Append(wire, Head(out_pipe))
  /\ out_pipe' = Tail(out_pipe)
  /\ UNCHANGED <<childVars, cgi, request, setup, input, output, holders,
                 in_pipe, sent, taken, carried, got, produced, headers>>

OutputDone ==
  /\ output = "echo"
  /\ Eof
  /\ output' = "none"
  /\ holders' = Without("output")
  /\ UNCHANGED <<childVars, cgi, request, setup, input, dataVars>>

\* The client is gone: writing to it fails, which is noticed only here.
OutputBreaks ==
  /\ output = "echo"
  /\ out_pipe # <<>>
  /\ out_pipe' = Tail(out_pipe)
  /\ output' = "none"
  /\ holders' = Without("output")
  /\ UNCHANGED <<childVars, cgi, request, setup, input, in_pipe, sent, taken,
                 carried, got, produced, headers, wire>>

Output ==
  OutputCollects \/ OutputEndsEarly \/ OutputStatus \/ OutputEchoes
    \/ OutputDone \/ OutputBreaks

-----------------------------------------------------------------------------
(***************************************************************************)
(* The client sends the rest of the body, or stops anywhere.               *)
(***************************************************************************)
ClientSends ==
  /\ sent < request.size
  /\ ~Nobody
  /\ sent' = sent + 1
  /\ UNCHANGED <<childVars, cgi, request, setup, input, output, holders,
                 in_pipe, out_pipe, taken, carried, got, produced, headers,
                 wire>>

Next ==
  \/ Counts
  \/ Forks
  \/ Reaps
  \/ \E p \in Pids : KillChild(p) \/ ListingEnds(p)
  \/ CgiChild
  \/ Program
  \/ Input
  \/ Output
  \/ ClientSends

(***************************************************************************)
(* The main loop gets round to its timers again and again (tmr_run, every  *)
(* turn), a signal that is pending is delivered, and processes that can    *)
(* run do.  Nothing is assumed of the client, or of the program.           *)
(***************************************************************************)
Fairness ==
  /\ WF_vars(Counts /\ step = "counting")
  /\ WF_vars(Forks)
  /\ WF_vars(Reaps)
  /\ \A p \in Pids : SF_vars(KillChild(p))
  /\ WF_vars(CgiChild)
  /\ WF_vars(Input)
  /\ WF_vars(Output)

Spec == CgiInit /\ [][Next]_vars /\ Fairness

-----------------------------------------------------------------------------
(***************************************************************************)
(* Properties.                                                             *)
(***************************************************************************)
Body == 1 .. MaxBody
Text == Seq(1 .. MaxOutput)

Holders == [in_w : SUBSET {"input"}, in_r : SUBSET {"child", "output"},
            out_w : SUBSET {"child"}, out_r : SUBSET {"output"}]

OwnTypes ==
  /\ cgi \in Pids \cup {NoPid}
  /\ cgi = NoPid <=> setup = "none"
  /\ request \in Request
  /\ setup \in {"none", "stdin", "stdout", "exec", "program"}
  /\ input \in {"none", "leftover", "reading"}
  /\ output \in {"none", "headers", "status", "echo"}
  /\ holders \in Holders
  /\ in_pipe \in Seq(Body) /\ Len(in_pipe) <= PipeSize
  /\ out_pipe \in Text /\ Len(out_pipe) <= PipeSize
  /\ sent \in 0 .. MaxBody /\ taken \in 0 .. sent
  /\ carried \in Seq(Body) /\ got \in Seq(Body)
  /\ produced \in 0 .. MaxOutput
  /\ headers \in Text
  /\ wire \in Seq(ErrorPage .. MaxOutput)

\* The variables keep their types, and a pipe never overflows.
TypeOK == ChildrenTypeOK /\ OwnTypes

UpTo(n) == [i \in 1 .. n |-> i]
IsPrefixOf(s, t) == Len(s) <= Len(t) /\ SubSeq(t, 1, Len(s)) = s

\* What the program reads is the body of the request from its first byte: what
\* was read with the headers first, then what came after, nothing lost, nothing
\* twice, and nothing beyond Content-Length except what was already in the
\* read buffer (cgi_interpose_input).  When the interposer is done the program
\* finds the end of it, because nobody else holds the pipe open.
InputIsBody ==
  /\ LET whole == got \o in_pipe \o carried
     IN /\ whole = UpTo(Len(whole))
        /\ Interposed /\ request.length # -1 =>
             \/ Len(whole) <= request.length
             \/ Len(whole) <= request.leftover
  /\ input = "none" /\ setup \notin {"none", "stdin"} => holders.in_w = {}

\* "Since the return status has to be the very first line written out, we have
\* to accumulate all the headers" (libhttpd.c, cgi_interpose_output): the client
\* of a program without nph- sees the status, then what the program wrote, in
\* order and nothing of it before its headers are complete.
OutputAsWritten ==
  LET failed == wire # <<>> /\ wire[1] = ErrorPage
      rest == IF failed THEN Tail(wire) ELSE wire
  IN /\ failed => produced = 0
     /\ IF request.mime
          THEN IsPrefixOf(rest, <<StatusLine>> \o UpTo(produced))
          ELSE rest = UpTo(produced)
     /\ request.mime /\ output # "none" =>
          rest \o headers \o out_pipe =
            (IF output = "echo" THEN <<StatusLine>> ELSE <<>>) \o UpTo(produced)
     /\ output = "status" =>
          \/ Eof
          \/ headers # <<>> /\ headers[Len(headers)] = request.blank

\* Body and output pass through both interposers whole and in order, in pieces
\* of any size (cgi_interpose_input, cgi_interpose_output).
PipesInOrder == TypeOK /\ InputIsBody /\ OutputAsWritten

\* A child that runs is killed if it does not end by itself and is reaped
\* however signals collapse; what it wrote is then passed on and the client's
\* connection let go; and the input interposer, which has no kill timer of its
\* own, does not outlast a client that has sent all it means to send.
ProcessesEnd ==
  /\ \A p \in Pids : child[p] = "running" ~> child[p] = "none"
  /\ (setup = "none" /\ output # "none") ~> output = "none"
  /\ (input # "none" /\ sent = request.size) ~> input = "none"
================================================================================
