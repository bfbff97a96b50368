-------------------------------- MODULE Search --------------------------------
(***************************************************************************)
(* The binary search of two tables: strlong_search (tdate_parse.c) and the *)
(* end of figure_mime (libhttpd.c).  c[i] compares what is looked for with *)
(* the entry that has C's index i; there are n entries.                    *)
(***************************************************************************)
EXTENDS Integers

NotFound == -1

\* The bounds after each turn of the loop; at most n turns shrink them.
Bisect(c, n) ==
  LET Bounds[t \in 0 .. n] ==
        IF t = 0 THEN [l |-> 0, h |-> n - 1]
        ELSE LET b == Bounds[t - 1]
                 i == (b.h + b.l) \div 2
             IN  IF b.h < b.l \/ c[i] = 0 THEN b
                 ELSE IF c[i] < 0 THEN [b EXCEPT !.h = i - 1]
                 ELSE [b EXCEPT !.l = i + 1]
      end == Bounds[n]
  IN  IF end.h < end.l THEN NotFound ELSE (end.h + end.l) \div 2
=============================================================================
