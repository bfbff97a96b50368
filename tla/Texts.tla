-------------------------------- MODULE Texts --------------------------------
(***************************************************************************)
(* Two small decoders of libhttpd.c: figure_mime, which finds the type and *)
(* the encodings of a file in two tables, and b64_decode, which reads the  *)
(* credentials of an Authorization header.                                 *)
(*                                                                         *)
(* A character is a number, in strcmp's order; case is left out.  A file   *)
(* name is the sequence of its pieces between dots; a table is a sequence  *)
(* of [ext, val].                                                          *)
(***************************************************************************)
EXTENDS Search, Sequences, SequencesExt

-----------------------------------------------------------------------------
\* strncasecmp: the comparison of the first n characters; a string that ends
\* before is smaller.
CharAt(s, i) == IF i \in DOMAIN s THEN s[i] ELSE 0

StrNCmp(a, b, n) ==
  LET i == SelectInSubSeq([j \in 1 .. n |-> CharAt(a, j) - CharAt(b, j)], 1, n,
                          LAMBDA d : d # 0)
  IN  IF i = 0 THEN 0 ELSE CharAt(a, i) - CharAt(b, i)

\* strcmp puts a string before the ones it begins.
StrLess(a, b) == StrNCmp(a, b, Len(a) + Len(b)) < 0

\* init_mime: both tables are sorted; entry i has i - 1 entries before it.
InitMime(entries) ==
  [i \in 1 .. Cardinality(entries) |->
     CHOOSE e \in entries :
       Cardinality({x \in entries : StrLess(x.ext, e.ext)}) = i - 1]

\* The entry of the table with this extension; a linear search.
EncodingAt(enc_tab, ext) == SelectInSeq(enc_tab, LAMBDA e : e.ext = ext)

\* The last piece of the name that is no encoding; the first one has no dot
\* before it.
Peeled(enc_tab, name) ==
  Max({k \in 1 .. Len(name) : k = 1 \/ EncodingAt(enc_tab, name[k]) = 0})

NoType == "text/plain"

\* The comparison of the search: of as many characters as the extension has,
\* and then of the lengths.
CompareExt(ext, entry) ==
  LET r == StrNCmp(ext, entry.ext, Len(ext))
  IN  IF r # 0 THEN r ELSE Len(ext) - Len(entry.ext)

TypeOf(typ_tab, ext) ==
  LET i == Bisect([i \in 0 .. Len(typ_tab) - 1 |-> CompareExt(ext, typ_tab[i + 1])],
                  Len(typ_tab))
  IN  IF i = NotFound THEN NoType ELSE typ_tab[i + 1].val

\* The encodings were met from the last to the first and are listed the other
\* way round, the order in which they were applied.
FigureMime(enc_tab, typ_tab, name) ==
  LET n == Peeled(enc_tab, name)
  IN  [type |-> IF n = 1 THEN NoType ELSE TypeOf(typ_tab, name[n]),
       encodings |-> [i \in 1 .. Len(name) - n |->
                        enc_tab[EncodingAt(enc_tab, name[n + i])].val]]

\* What the comment on figure_mime says, without an order in the tables.
MimeDescribed(encs, types, name) ==
  LET Coded(k) == k > 1 /\ \E e \in encs : e.ext = name[k]
      n == CHOOSE k \in 1 .. Len(name) :
             ~Coded(k) /\ \A j \in k + 1 .. Len(name) : Coded(j)
      Val(tab, ext) == (CHOOSE e \in tab : e.ext = ext).val
  IN  [type |-> IF n > 1 /\ \E e \in types : e.ext = name[n]
                  THEN Val(types, name[n]) ELSE NoType,
       encodings |-> [i \in 1 .. Len(name) - n |-> Val(encs, name[n + i])]]

\* CStrings without a NUL, the extensions of a table not empty and each listed
\* once (mime_types.txt, mime_encodings.txt); a name has a piece.
CStrings == Seq(Nat \ {0})

GoodTable(entries) ==
  /\ IsFiniteSet(entries)
  /\ \A e \in entries : e.ext \in CStrings \ {<<>>}
  /\ \A e, x \in entries : e.ext = x.ext => e = x

GoodMimeCall(c) ==
  /\ GoodTable(c[2]) /\ GoodTable(c[3])
  /\ c[4] \in Seq(CStrings) \ {<<>>}

-----------------------------------------------------------------------------
\* The character that is not one of the sixty-four.
Pad == -1

B64Start == [phase |-> 0, prev_d |-> 0, space |-> <<>>]

\* One character: three of the four end a byte, which is kept if there is room.
B64Step(st, d, size) ==
  LET c == CASE st.phase = 0 -> 0
             [] st.phase = 1 -> (st.prev_d * 4) + (d \div 16)
             [] st.phase = 2 -> ((st.prev_d % 16) * 16) + (d \div 4)
             [] st.phase = 3 -> ((st.prev_d % 4) * 64) + d
  IN  IF d = Pad THEN st
      ELSE [phase |-> (st.phase + 1) % 4, prev_d |-> d,
            space |-> IF st.phase # 0 /\ Len(st.space) < size
                        THEN Append(st.space, c) ELSE st.space]

B64Decode(str, size) ==
  LET After[i \in 0 .. Len(str)] ==
        IF i = 0 THEN B64Start ELSE B64Step(After[i - 1], str[i], size)
  IN  After[Len(str)].space

\* The encoding (RFC 4648): each three bytes are four digits of six bits, the
\* last group padded.
Encode(bytes) ==
  LET Byte(i) == CharAt(bytes, i)
      Digit(i) ==
        LET g == 3 * ((i - 1) \div 4)
        IN  CASE i % 4 = 1 -> Byte(g + 1) \div 4
              [] i % 4 = 2 -> ((Byte(g + 1) % 4) * 16) + (Byte(g + 2) \div 16)
              [] i % 4 = 3 -> ((Byte(g + 2) % 16) * 4) + (Byte(g + 3) \div 64)
              [] i % 4 = 0 -> Byte(g + 3) % 64
      digits == ((8 * Len(bytes)) + 5) \div 6
  IN  [i \in 1 .. 4 * ((Len(bytes) + 2) \div 3) |->
         IF i <= digits THEN Digit(i) ELSE Pad]
=============================================================================
