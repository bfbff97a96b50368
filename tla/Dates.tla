-------------------------------- MODULE Dates --------------------------------
(***************************************************************************)
(* tdate_parse.c: the date of an If-Modified-Since or If-Range header.     *)
(*                                                                         *)
(* A text is a sequence of tokens: a word, "-", ":", "," or " " (any white *)
(* space), or "%d" for a number, whose value is n.  A time is <<days since *)
(* 1 January 1970, second of the day>>: tm_to_time's value in base 86400.  *)
(***************************************************************************)
EXTENDS Search, Sequences, SequencesExt

Zone == "GMT"

\* Every word a text may hold, in the order of strcmp after pound_case.
Words ==
  <<"apr", "april", "aug", "august", "dec", "december", "feb", "february",
    "fri", "friday", Zone, "jan", "january", "jul", "july", "jun", "june", "mar",
    "march", "may", "mon", "monday", "nov", "november", "oct", "october", "sat",
    "saturday", "sep", "september", "sun", "sunday", "thu", "thursday", "tue",
    "tuesday", "wed", "wednesday">>

Token(w) == [w |-> w, n |-> 0]
Number(n) == [w |-> "%d", n |-> n]

IsWord(t) == t.w \in ToSet(Words)

StrCmp(a, b) ==
  LET Place(w) == CHOOSE i \in DOMAIN Words : Words[i] = w
  IN  Place(a) - Place(b)

(***************************************************************************)
(* The tables, as qsort leaves them, and the search in them.               *)
(***************************************************************************)
Entry(s, l) == [s |-> s, l |-> l]

wday_tab ==
  <<Entry("fri", 5), Entry("friday", 5), Entry("mon", 1), Entry("monday", 1),
    Entry("sat", 6), Entry("saturday", 6), Entry("sun", 0), Entry("sunday", 0),
    Entry("thu", 4), Entry("thursday", 4), Entry("tue", 2), Entry("tuesday", 2),
    Entry("wed", 3), Entry("wednesday", 3)>>

mon_tab ==
  <<Entry("apr", 3), Entry("april", 3), Entry("aug", 7), Entry("august", 7),
    Entry("dec", 11), Entry("december", 11), Entry("feb", 1),
    Entry("february", 1), Entry("jan", 0), Entry("january", 0), Entry("jul", 6),
    Entry("july", 6), Entry("jun", 5), Entry("june", 5), Entry("mar", 2),
    Entry("march", 2), Entry("may", 4), Entry("nov", 10), Entry("november", 10),
    Entry("oct", 9), Entry("october", 9), Entry("sep", 8), Entry("september", 8)>>

\* strlong_search.
StrlongSearch(str, tab) ==
  LET i == Bisect([i \in 0 .. Len(tab) - 1 |-> StrCmp(str, tab[i + 1].s)], Len(tab))
  IN  IF i = NotFound THEN NotFound ELSE tab[i + 1].l

ScanWday(str) == StrlongSearch(str, wday_tab)
ScanMon(str) == StrlongSearch(str, mon_tab)

(***************************************************************************)
(* sscanf: a blank of the format takes any white space, none included; a   *)
(* number skips white space before it; the others are taken literally.     *)
(* The values converted before the first mismatch.                         *)
(***************************************************************************)
WordAt(text, k) == IF k \in DOMAIN text THEN text[k].w ELSE "end"

\* One item of the format, met at place at of the text.
Scan(st, item, text) ==
  LET at == IF item \in {" ", "%d"} /\ WordAt(text, st.at) = " " THEN st.at + 1
            ELSE st.at
      found == at \in DOMAIN text /\ IF item = "%s" THEN IsWord(text[at])
                                     ELSE text[at].w = item
  IN  IF ~st.going THEN st
      ELSE IF item = " " THEN [st EXCEPT !.at = at]
      ELSE IF ~found THEN [st EXCEPT !.going = FALSE]
      ELSE [st EXCEPT !.at = at + 1,
                      !.values = IF item \in {"%s", "%d"} THEN Append(@, text[at]) ELSE @]

Sscanf(format, text) ==
  LET After[i \in 0 .. Len(format)] ==
        IF i = 0 THEN [at |-> 1, values |-> <<>>, going |-> TRUE]
        ELSE Scan(After[i - 1], format[i], text)
  IN  After[Len(format)].values

\* The shapes of a date; the first three come with either separator.
DayFirst(sep) ==
  <<"%d", sep, "%s", sep, "%d", " ", "%d", ":", "%d", ":", "%d", " ", Zone>>
ClockFirst(sep) ==
  <<"%d", ":", "%d", ":", "%d", " ", Zone, " ", "%d", sep, "%s", sep, "%d">>
WeekdayFirst(sep) ==
  <<"%s", ",", " ", "%d", sep, "%s", sep, "%d", " ", "%d", ":", "%d", ":", "%d",
    " ", Zone>>
YearLast ==
  <<"%s", " ", "%s", " ", "%d", " ", "%d", ":", "%d", ":", "%d", " ", Zone, " ",
    "%d">>

\* The formats, in the order in which they are tried, and which of the values
\* each field is.
Order(wday, mday, mon, year, hour, min, sec) ==
  [wday |-> wday, mday |-> mday, mon |-> mon, year |-> year, hour |-> hour,
   min |-> min, sec |-> sec]

Try(format, at, values) == [format |-> format, at |-> at, values |-> values]

Formats ==
  <<Try(DayFirst("-"), Order(0, 1, 2, 3, 4, 5, 6), 6),
    Try(DayFirst(" "), Order(0, 1, 2, 3, 4, 5, 6), 6),
    Try(ClockFirst("-"), Order(0, 4, 5, 6, 1, 2, 3), 6),
    Try(ClockFirst(" "), Order(0, 4, 5, 6, 1, 2, 3), 6),
    Try(WeekdayFirst("-"), Order(1, 2, 3, 4, 5, 6, 7), 7),
    Try(WeekdayFirst(" "), Order(1, 2, 3, 4, 5, 6, 7), 7),
    Try(YearLast, Order(1, 3, 2, 7, 4, 5, 6), 7)>>

Fits(f, text) ==
  LET v == Sscanf(f.format, text)
  IN  /\ Len(v) = f.values
      /\ f.at.wday # 0 => ScanWday(v[f.at.wday].w) # NotFound
      /\ ScanMon(v[f.at.mon].w) # NotFound

FirstFit(text) == SelectInSeq(Formats, LAMBDA f : Fits(f, text))

(***************************************************************************)
(* tm_to_time.                                                             *)
(***************************************************************************)
IsLeap(year) ==
  IF year % 400 = 0 THEN TRUE ELSE IF year % 100 = 0 THEN FALSE ELSE year % 4 = 0

monthtab == <<0, 31, 59, 90, 120, 151, 181, 212, 243, 273, 304, 334>>

\* Mutant: the leap day of this year counts from February on.
TmToTimeEarly(tm) ==
  <<(tm.year - 70) * 365 + ((tm.year - 69) \div 4) + monthtab[tm.mon + 1]
      + (IF tm.mon >= 1 /\ IsLeap(tm.year + 1900) THEN 1 ELSE 0) + tm.mday - 1,
    (tm.hour * 60 + tm.min) * 60 + tm.sec>>

TmToTime(tm) ==
  <<(tm.year - 70) * 365 + ((tm.year - 69) \div 4) + monthtab[tm.mon + 1]
      + (IF tm.mon >= 2 /\ IsLeap(tm.year + 1900) THEN 1 ELSE 0) + tm.mday - 1,
    (tm.hour * 60 + tm.min) * 60 + tm.sec>>

\* The year of a date is written with two digits or four.
Century(year) ==
  IF year > 1900 THEN year - 1900 ELSE IF year < 70 THEN year + 100 ELSE year

BadDate == <<-1, 0>>

TdateParse(text) ==
  LET cp == IF text # <<>> /\ text[1].w = " " THEN Tail(text) ELSE text
      k == FirstFit(cp)
  IN  IF k = 0 THEN BadDate
      ELSE LET v == Sscanf(Formats[k].format, cp)
               at == Formats[k].at
           IN  TmToTime([year |-> Century(v[at.year].n), mon |-> ScanMon(v[at.mon].w),
                         mday |-> v[at.mday].n, hour |-> v[at.hour].n,
                         min |-> v[at.min].n, sec |-> v[at.sec].n])

-----------------------------------------------------------------------------
(***************************************************************************)
(* The calendar: the days before a date, one year and one month at a time. *)
(***************************************************************************)
LongMonths == {1, 3, 5, 7, 8, 10, 12}
LeapYear(y) == (y % 4 = 0 /\ y % 100 # 0) \/ y % 400 = 0
YearLength(y) == IF LeapYear(y) THEN 366 ELSE 365
DaysIn(y, m) ==
  IF m \in LongMonths THEN 31
  ELSE IF m # 2 THEN 30 ELSE IF LeapYear(y) THEN 29 ELSE 28

DaysBefore(y, m, d) ==
  LET Years[i \in 1970 .. y] ==
        IF i = 1970 THEN 0 ELSE Years[i - 1] + YearLength(i - 1)
      Months[i \in 1 .. 12] ==
        IF i = 1 THEN 0 ELSE Months[i - 1] + DaysIn(y, i - 1)
  IN  Years[y] + Months[m] + d - 1

ShortName ==
  <<"jan", "feb", "mar", "apr", "may", "jun", "jul", "aug", "sep", "oct", "nov",
    "dec">>
LongName ==
  <<"january", "february", "march", "april", "may", "june", "july", "august",
    "september", "october", "november", "december">>
WdayNames == {wday_tab[i].s : i \in DOMAIN wday_tab}

\* The text of a date in the k-th format.
Written(k, wday, mday, mon, year, second) ==
  LET W == Token(wday)  D == Number(mday)  M == Token(mon)  Y == Number(year)
      H == Number(second \div 3600)
      I == Number((second \div 60) % 60)
      S == Number(second % 60)
      s == Token(IF k \in {1, 3, 5} THEN "-" ELSE " ")
      b == Token(" ")  c == Token(":")  Z == Token(Zone)
  IN  CASE k \in {1, 2} -> <<D, s, M, s, Y, b, H, c, I, c, S, b, Z>>
        [] k \in {3, 4} -> <<H, c, I, c, S, b, Z, b, D, s, M, s, Y>>
        [] k \in {5, 6} -> <<W, Token(","), b, D, s, M, s, Y, b, H, c, I, c, S, b, Z>>
        [] k = 7 -> <<W, b, M, b, D, b, H, c, I, c, S, b, Z, b, Y>>

\* A date that is to be read back, its year with four digits or, before 2070,
\* with two.
Era == 1970 .. 2099
InPivot(y) == y < 2070
InDay(second) == second \in Nat /\ second < 24 * 3600
YearGiven(y, short) == IF short THEN y % 100 ELSE y

DateCall(k, wday, y, m, d, mon, short, second) ==
  <<"date", Written(k, wday, d, mon, YearGiven(y, short), second), y, m, d, second>>

GoodDateCall(c) ==
  /\ c[3] \in Era /\ c[4] \in 1 .. 12 /\ c[5] \in 1 .. 31 /\ InDay(c[6])
  /\ \E k \in 1 .. 7, wday \in WdayNames, mon \in {ShortName[c[4]], LongName[c[4]]},
         short \in BOOLEAN :
        /\ short => InPivot(c[3])
        /\ c = DateCall(k, wday, c[3], c[4], c[5], mon, short, c[6])
=============================================================================
