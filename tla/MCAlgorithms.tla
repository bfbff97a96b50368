---------------------------- MODULE MCAlgorithms ----------------------------
(***************************************************************************)
(* Instances of the algorithms: four sites with links of every kind and   *)
(* short paths in them, short patterns and strings, dates from 1970 to     *)
(* 2099, small tables of types, and short credentials.                     *)
(***************************************************************************)
EXTENDS Algorithms, TLC

Dir == [kind |-> "dir", roth |-> TRUE, xoth |-> TRUE]
File == [kind |-> "file", roth |-> TRUE, xoth |-> FALSE]
Program == [kind |-> "file", roth |-> TRUE, xoth |-> TRUE]
Hidden(f) == [f EXCEPT !.roth = FALSE, !.xoth = FALSE]
Link(text) == [kind |-> "link", roth |-> TRUE, xoth |-> TRUE, text |-> text]

\* Under a tree of the given root: d has an index, e has none, g's index is a
\* link out of g; links up, down, absolute, dangling and in a circle, and r back to the
\* root; k's index is not for everybody, q's is a directory.
Below(root) ==
  (root :> Dir) @@
  (root \o <<"d">> :> Dir) @@
  (root \o <<"d", "i">> :> File) @@
  (root \o <<"d", "f">> :> File) @@
  (root \o <<"e">> :> Dir) @@
  (root \o <<"e", "p">> :> Program) @@
  (root \o <<"e", "a">> :> File) @@
  (root \o <<"e", "l">> :> Link(<<"..", "g", "..", "l">>)) @@
  (root \o <<"g">> :> Dir) @@
  (root \o <<"g", "i">> :> Link(<<"..", "d", "f">>)) @@
  (root \o <<"g", "f">> :> Hidden(File)) @@
  (root \o <<"f">> :> Program) @@
  (root \o <<"l">> :> Link(<<"e", "..", "..", "d">>)) @@
  (root \o <<"m">> :> Link(<<"">> \o root \o <<"e", "l">>)) @@
  (root \o <<"n">> :> Link(<<"e", "none", "x">>)) @@
  (root \o <<"s">> :> Link(<<"e", "..", "s">>)) @@
  (root \o <<"k">> :> Dir) @@
  (root \o <<"k", "i">> :> Hidden(File)) @@
  (root \o <<"q">> :> Dir) @@
  (root \o <<"q", "j">> :> [Dir EXCEPT !.xoth = FALSE]) @@
  (root \o <<"r">> :> Link(<<"">> \o root \o <<"d", "..">>))

AroundW ==
  (<<>> :> Dir) @@ (<<"o">> :> Dir) @@ (<<"o", "f">> :> File) @@
  (<<"w", "o">> :> Link(<<"", "o">>))

Site(tree, cwd, no_symlink_check, vhost) ==
  [tree |-> tree, cwd |-> cwd, no_symlink_check |-> no_symlink_check,
   vhost |-> vhost]

FourSites ==
  {Site(Below(<<"w">>) @@ AroundW, <<"w">>, FALSE, FALSE),
   Site(Below(<<>>), <<>>, TRUE, FALSE),
   Site(Below(<<"w", "h">>) @@ (<<"w">> :> Dir) @@ (<<>> :> Dir), <<"w">>, FALSE,
        TRUE),
   Site(Below(<<>>), <<>>, FALSE, FALSE)}

Strings(chars, n) == UNION {[1 .. k -> chars] : k \in 0 .. n}

ShortUrls ==
  (Strings({"", ".", "..", "d", "e", "f", "l", "m", "p"}, 3)
     \cup Strings({"", "..", "d", "l"}, 4)
     \cup Strings({"g", "n", "s", "a", "i", "o", "f", "k", "q", "r", "..", ""}, 2)) \ {<<>>}
FileNames == {"a", "d", "e", "f", "g", "h", "i", "j", "k", "l", "m", "n", "none",
              "o", "p", "q", "r", "s", "w", "x"}
IndexNames == <<"j", "i">>
CgiPrograms == {"p"}
PlainFiles == {"f"}

ShortMatches ==
  {<<"match", p, s>> : p \in Strings({"a", "/", "?", "*", "|"}, 3)
                              \cup Strings({"a", "/", "*"}, 4),
                       s \in Strings({"a", "b", "/"}, 3)}

(***************************************************************************)
(* Dates.                                                                  *)
(***************************************************************************)
Twelve == 1 .. 12

\* Every year by the first and last day of some months, and every format and
\* name with a few dates.
SomeDates ==
  {DateCall(6, "sun", y, m, d, ShortName[m], FALSE, 86399) :
     y \in 1970 .. 2099, m \in {1, 2, 3, 12}, d \in {1, 28}}
  \cup
  {DateCall(k, wday, y, m, 30, mon[m], short, 45296) :
     k \in 1 .. 7, wday \in {"sun", "wednesday"}, y \in {1994, 2000, 2069},
     m \in Twelve \ {2}, mon \in {ShortName, LongName}, short \in BOOLEAN}

(***************************************************************************)
(* Types and credentials.                                                  *)
(***************************************************************************)
Exts == {<<1>>, <<1, 1>>, <<1, 2>>, <<2>>, <<2, 1>>}
Table(exts) == {[ext |-> e, val |-> e] : e \in exts}

SomeNames ==
  {<<"mime", Table(encs), Table(types), name>> :
     encs \in {{}, {<<2>>}, {<<1>>, <<2, 1>>}}, types \in SUBSET Exts,
     name \in {<<<<3>>>> \o n : n \in Strings(Exts \cup {<<1, 2, 1>>}, 3)}}

SomeCredentials ==
  {<<"b64", bytes, size>> : bytes \in Strings({0, 58, 107, 255}, 4), size \in {3, 6}}
=============================================================================
