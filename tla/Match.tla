-------------------------------- MODULE Match --------------------------------
(***************************************************************************)
(* match.c: shell-style patterns, which decide what is a CGI program, what *)
(* a throttle applies to and whose referer is local.  A string and a       *)
(* pattern are sequences of characters; the character after the end, which *)
(* C finds to be NUL, is End.                                              *)
(***************************************************************************)
EXTENDS Integers, Sequences, FiniteSetsExt

End == "nul"

Char(s, i) == IF i \in DOMAIN s THEN s[i] ELSE End

\* From a wildcard on: whether it is double, and the most it takes of s from
\* place j on; a single one stops at the first slash (strcspn).
Double(p, i) == Char(p, i + 1) = "*"
BeforeSlash(s, j) ==
  Min({k \in 0 .. Len(s) : Char(s, j + k) \in {"/", End}})
Most(p, i, s, j) == IF Double(p, i) THEN Len(s) + 1 - j ELSE BeforeSlash(s, j)
After(p, i) == IF Double(p, i) THEN i + 2 ELSE i + 1

\* Mutant: a wildcard takes as much as it can, and is not tried with less.
MatchesGreedy(p, s) ==
  LET From[i \in 1 .. Len(p) + 1] ==
        IF i > Len(p) THEN {Len(s) + 1}
        ELSE {j \in 1 .. Len(s) + 1 :
                IF p[i] = "*" THEN j + Most(p, i, s, j) \in From[After(p, i)]
                ELSE /\ j <= Len(s) /\ p[i] \in {"?", s[j]}
                     /\ j + 1 \in From[i + 1]}
  IN  From

\* match_one, of the pattern from place i on: the places of s such that it
\* matches what is there to the end.
Matches(p, s) ==
  LET From[i \in 1 .. Len(p) + 1] ==
        IF i > Len(p) THEN {Len(s) + 1}
        ELSE {j \in 1 .. Len(s) + 1 :
                IF p[i] = "*"
                  THEN \E k \in 0 .. Most(p, i, s, j) : j + k \in From[After(p, i)]
                ELSE /\ j <= Len(s) /\ p[i] \in {"?", s[j]}
                     /\ j + 1 \in From[i + 1]}
  IN  From

MatchOne(p, s) == 1 \in Matches(p, s)[1]

\* strchr( pattern, '|' ) from place a on, or the end.
Bar(pattern, a) ==
  Min({b \in a .. Len(pattern) + 1 : Char(pattern, b) \in {"|", End}})

\* Where the pattern starts after 0, 1, ... turns of the loop of match, each of
\* which goes behind a |; there is none when it starts behind its end.
Starts(pattern) ==
  LET start[n \in 0 .. Len(pattern)] ==
        IF n = 0 THEN 1
        ELSE IF start[n - 1] > Len(pattern) + 1 THEN start[n - 1]
        ELSE Bar(pattern, start[n - 1]) + 1
  IN  start

\* match: one of the patterns that | separates.
MatchAny(pattern, s) ==
  \E n \in 0 .. Len(pattern) :
     LET a == Starts(pattern)[n]
     IN  /\ a <= Len(pattern) + 1
         /\ MatchOne(SubSeq(pattern, a, Bar(pattern, a) - 1), s)

-----------------------------------------------------------------------------
(***************************************************************************)
(* What config.h says of these patterns: * is any string not containing a  *)
(* slash, ** any string at all, ? any single character, and several        *)
(* patterns are separated by |.  The reference splits a pattern into its   *)
(* wildcards and characters, and asks whether the string can be cut into   *)
(* one piece for each.                                                     *)
(***************************************************************************)
\* The wildcards of a pattern from each of its places on.
WildcardsFrom(p) ==
  LET From[i \in 1 .. Len(p) + 1] ==
        IF i > Len(p) THEN <<>>
        ELSE IF p[i] = "*" /\ Double(p, i) THEN <<"**">> \o From[i + 2]
        ELSE <<p[i]>> \o From[i + 1]
  IN  From

Wildcards(p) == WildcardsFrom(p)[1]

Stands(w, piece) ==
  CASE w = "**" -> TRUE
    [] w = "*"  -> \A i \in DOMAIN piece : piece[i] # "/"
    [] w = "?"  -> Len(piece) = 1
    [] OTHER    -> piece = <<w>>

\* cut[k] is where the piece of the k-th wildcard ends.
CutsInto(ws, s) ==
  \E cut \in [0 .. Len(ws) -> 0 .. Len(s)] :
     /\ cut[0] = 0 /\ cut[Len(ws)] = Len(s)
     /\ \A k \in 1 .. Len(ws) :
           /\ cut[k - 1] <= cut[k]
           /\ Stands(ws[k], SubSeq(s, cut[k - 1] + 1, cut[k]))

Alternatives(pattern) ==
  LET Bars == {i \in DOMAIN pattern : pattern[i] = "|"}
      Ends == {0, Len(pattern) + 1} \cup Bars
  IN  {SubSeq(pattern, e[1] + 1, e[2] - 1) : e \in
         {e \in Ends \X Ends :
            e[1] < e[2] /\ ~\E m \in Ends : e[1] < m /\ m < e[2]}}

MatchDescribed(pattern, s) ==
  \E p \in Alternatives(pattern) : CutsInto(Wildcards(p), s)
=============================================================================
