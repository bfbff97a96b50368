-------------------------------- MODULE Paths --------------------------------
(***************************************************************************)
(* From the path of a request to a file (libhttpd.c): de_dotdot cleans the *)
(* path, vhost_map puts the host's directory before it, expand_symlinks    *)
(* replaces every symbolic link and splits off what does not exist, the    *)
(* end of httpd_parse_request keeps the result in the tree, and            *)
(* really_start_request decides what the file is for, for a directory by   *)
(* expanding its index file.                                               *)
(*                                                                         *)
(* A path is the sequence of its components, split at the slashes: "" is   *)
(* <<>>, "/" is <<"">>, "/x" is <<"", "x">> and "x/" is <<"x", "">>.  A    *)
(* place is the path of a file from the root, without "." or ".." and      *)
(* without links; the file system is a function on places and does not     *)
(* change while a request is resolved.  The tilde maps are not built       *)
(* (config.h).                                                             *)
(***************************************************************************)
EXTENDS Integers, Sequences, SequencesExt

CONSTANTS
  Names,                \* names of files: components but "", "." and ".."
  Sites,                \* file systems and settings, see SiteAssumption
  Urls,                 \* paths of requests, without the first slash
  Host,                 \* the directory of the virtual host
  index_names,          \* INDEX_NAMES
  AUTH_FILE,
  CgiNames,             \* names that cgi_pattern matches
  PlainNames,           \* names that ALLOWED_EXE_MASK_EXT matches
  MAX_LINKS

Empty == ""
Dot == "."
Up == ".."

Path == Seq(Names \cup {Empty, Dot, Up})
SomePath == Path \ {<<>>}
Places == Seq(Names)

\* The text of a link is not "/" alone (expand_symlinks drops it when nothing
\* follows), has no "." (taken for a name when ".." comes after it), and no empty
\* component after the first.
LinkText(t) ==
  /\ t \in SomePath /\ t # <<Empty>>
  /\ \A i \in 1 .. Len(t) : t[i] # Dot /\ (t[i] = Empty => i = 1)

ASSUME NamesAssumption ==
  /\ Empty \notin Names /\ Dot \notin Names /\ Up \notin Names
  /\ Host \in Names /\ AUTH_FILE \in Names
  /\ index_names \in Seq(Names)
  /\ \A u \in Urls : u \in SomePath

\* tree: the files; cwd: the place of the web tree, <<>> after chroot.
ASSUME SiteAssumption ==
  /\ \A s \in Sites :
        /\ <<>> \in DOMAIN s.tree /\ s.tree[<<>>].kind = "dir"
        /\ s.cwd \in DOMAIN s.tree /\ s.tree[s.cwd].kind = "dir"
        /\ \A p \in DOMAIN s.tree :
              /\ p \in Places
              /\ s.tree[p].kind \in {"dir", "file", "link"}
              /\ s.tree[p].roth \in BOOLEAN /\ s.tree[p].xoth \in BOOLEAN
              /\ s.tree[p].kind = "link" => LinkText(s.tree[p].text)
              /\ p # <<>> => Front(p) \in DOMAIN s.tree
                             /\ s.tree[Front(p)].kind = "dir"
        /\ s.no_symlink_check \in BOOLEAN /\ s.vhost \in BOOLEAN
  /\ MAX_LINKS \in Nat

VARIABLES
  site, url,            \* the server and the request
  pc,
  origfilename, expnfilename, pathinfo,
  checked, rest, nlinks, \* expand_symlinks
  index,                \* expand_symlinks runs on an index file
  sb,                   \* the place that was stat()ed
  answer

links == <<checked, rest, nlinks>>
vars == <<site, url, pc, origfilename, expnfilename, pathinfo, links, index, sb,
          answer>>

PathInit ==
  /\ site \in Sites /\ url \in Urls
  /\ pc = "parse"
  /\ origfilename = <<>> /\ expnfilename = <<>> /\ pathinfo = <<>>
  /\ checked = <<>> /\ rest = <<>> /\ nlinks = 0
  /\ index = FALSE /\ sb = <<>> /\ answer = "none"

Answer(a) == answer' = a /\ pc' = "answered"
GoTo(place) == pc' = place /\ UNCHANGED answer

(***************************************************************************)
(* The file system as the kernel sees it.                                  *)
(***************************************************************************)
Nowhere == <<Up>>
Base(path) == IF path # <<>> /\ path[1] = Empty THEN <<>> ELSE site.cwd
Kind(place) == site.tree[place].kind

\* A walk: it is at a place, may go through n links more, and has a path
\* left; ".." does not leave the top.
Walker == [at : Places, top : Places, path : Path, n : Nat]

Child(w) == Append(w.at, w.path[1])

\* A link at the end is followed but by lstat.
Followed(w, how) ==
  Kind(Child(w)) = "link" /\ (Tail(w.path) # <<>> \/ how # "lstat")

Lost(w, how) ==
  /\ w.path[1] # Up
  /\ \/ Kind(w.at) # "dir"
     \/ /\ w.path[1] \in Names
        /\ \/ Child(w) \notin DOMAIN site.tree
           \/ Followed(w, how) /\ w.n = 0

\* One component further.
Further(w, how) ==
  IF w.path[1] = Up
    THEN [w EXCEPT !.at = IF w.at \in {w.top, <<>>} THEN w.at ELSE Front(w.at),
                   !.path = Tail(w.path)]
  ELSE IF w.path[1] \notin Names THEN [w EXCEPT !.path = Tail(w.path)]
  ELSE IF ~Followed(w, how) THEN [w EXCEPT !.at = Child(w), !.path = Tail(w.path)]
  ELSE LET text == site.tree[Child(w)].text
           absolute == text[1] = Empty
       IN  [at |-> IF absolute THEN <<>> ELSE w.at,
            top |-> IF absolute THEN <<>> ELSE w.top,
            path |-> text \o Tail(w.path), n |-> w.n - 1]

\* Where stat or lstat ends; "reach" ends where stat gets lost.
WalkPath(at, top, path, n, how) ==
  LET From[w \in Walker] == IF w.path = <<>> THEN w.at
                            ELSE IF Lost(w, how)
                              THEN IF how = "reach" THEN w.at ELSE Nowhere
                            ELSE From[Further(w, how)]
  IN  From[[at |-> at, top |-> top, path |-> path, n |-> n]]

Kernel(path, how) ==
  IF path = <<>> THEN Nowhere ELSE WalkPath(Base(path), <<>>, path, MAX_LINKS, how)
Lstat(path) == Kernel(path, "lstat")
Stat(path) == Kernel(path, "stat")

(***************************************************************************)
(* de_dotdot, one loop of it after the other.                              *)
(***************************************************************************)
Without(path, i) == SubSeq(path, 1, i - 1) \o SubSeq(path, i + 1, Len(path))

\* The components c in the middle go: runs of slashes, and "/./".
WithoutMiddle(path, c) ==
  LET Stays(i) == path[i] # c \/ i \in {1, Len(path)}
      Kept[i \in 0 .. Len(path)] ==
        IF i = 0 THEN <<>>
        ELSE IF Stays(i) THEN Append(Kept[i - 1], path[i]) ELSE Kept[i - 1]
  IN  Kept[Len(path)]

Collapse(path) == WithoutMiddle(path, Empty)
DropDots(path) == WithoutMiddle(path, Dot)

\* "./" or "../" at the start, again and again.
DropLeading(path, c) ==
  LET first == CHOOSE i \in 1 .. Len(path) :
                 /\ i = Len(path) \/ path[i] # c
                 /\ \A j \in 1 .. i - 1 : path[j] = c
  IN  SubSeq(path, first, Len(path))

\* The first "x/../" goes, with every "../" at the start before it; a path
\* without one stays.
DropDotDot(path) ==
  LET p == DropLeading(path, Up)
      i == SelectInSubSeq(p, 2, Len(p) - 1, LAMBDA c : c = Up)
  IN  IF i = 0 THEN p ELSE Without(Without(p, i), i - 1)

DropDotDots(path) ==
  LET Drop[p \in SomePath] == IF DropDotDot(p) = p THEN p ELSE Drop[DropDotDot(p)]
  IN  Drop[path]

\* What is left of a single component before Up at the end stays.
DropLast(path) ==
  LET Drop[p \in SomePath] == IF Len(p) >= 3 /\ Last(p) = Up
                           THEN Drop[SubSeq(p, 1, Len(p) - 2)] ELSE p
  IN  Drop[path]

\* Mutant: each /../ is taken out once, from the left to the right, and what
\* that brings to the front is not looked at again.
DeDotdotOnce(path) ==
  DropLast(DropDotDot(DropDots(DropLeading(Collapse(path), Dot))))

DeDotdot(path) ==
  DropLast(DropDotDots(DropDots(DropLeading(Collapse(path), Dot))))

Cleaned == DeDotdot(IF url = <<Empty>> THEN <<Dot>> ELSE url)

\* vhost_map puts the host first.
FileName(file) ==
  IF site.vhost THEN <<Host>> \o file
  ELSE IF file = <<Empty>> THEN <<>> ELSE file

\* The part of httpd_parse_request on the file name.
Parse ==
  /\ pc = "parse"
  /\ origfilename' = Cleaned
  /\ IF (Len(Cleaned) > 1 /\ Cleaned[1] = Empty) \/ Cleaned[1] = Up
       THEN Answer("400") /\ UNCHANGED expnfilename
       ELSE expnfilename' = FileName(Cleaned) /\ GoTo("expand")
  /\ UNCHANGED <<site, url, pathinfo, links, index, sb>>

(***************************************************************************)
(* expand_symlinks.                                                        *)
(***************************************************************************)
\* A slash at the end is cut off.
Trim(path) == IF path # <<>> /\ Last(path) = Empty THEN Front(path) ELSE path

\* With no_symlink_check a file that is there is taken as it is.
Expand ==
  /\ pc = "expand"
  /\ IF site.no_symlink_check /\ Stat(expnfilename) # Nowhere
       THEN checked' = Trim(expnfilename) /\ rest' = <<>> /\ GoTo("expanded")
       ELSE checked' = <<>> /\ rest' = Trim(expnfilename) /\ GoTo("component")
  /\ nlinks' = 0
  /\ UNCHANGED <<site, url, origfilename, expnfilename, pathinfo, index, sb>>

\* One component more: Up takes one away, unless there is none.
Push(path, c) ==
  IF c # Up THEN Append(path, c)
  ELSE IF path \in {<<>>, <<Empty>>} THEN path ELSE Front(path)

OrDot(path) == IF path = <<>> THEN <<Dot>> ELSE path

\* Mutant: links are not counted.
FollowForEver(next, more) ==
  LET text == site.tree[Lstat(next)].text
  IN  /\ UNCHANGED nlinks
      /\ rest' = text \o more
      /\ checked' = IF text[1] = Empty THEN <<>> ELSE checked
      /\ UNCHANGED <<pc, answer>>

\* A link: its text goes before the rest, and the component is taken back.
Follow(next, more) ==
  LET text == site.tree[Lstat(next)].text
  IN  /\ nlinks' = nlinks + 1
      /\ IF nlinks' > MAX_LINKS THEN Answer("500") /\ UNCHANGED <<checked, rest>>
         ELSE /\ rest' = text \o more
              /\ checked' = IF text[1] = Empty THEN <<>> ELSE checked
              /\ UNCHANGED <<pc, answer>>

\* One turn of the loop.
Component ==
  /\ pc = "component" /\ rest # <<>>
  /\ \E next \in {Push(checked, rest[1])}, more \in {Tail(rest)} :
        \/ /\ next = <<>> \/ (Lstat(next) # Nowhere /\ Kind(Lstat(next)) # "link")
           /\ checked' = next /\ rest' = more
           /\ UNCHANGED <<nlinks, pc, answer>>
        \/ /\ next # <<>> /\ Lstat(next) = Nowhere
           /\ checked' = OrDot(checked) /\ GoTo("expanded")
           /\ UNCHANGED <<rest, nlinks>>
        \/ /\ next # <<>> /\ Lstat(next) # Nowhere /\ Kind(Lstat(next)) = "link"
           /\ Follow(next, more)
  /\ UNCHANGED <<site, url, origfilename, expnfilename, pathinfo, index, sb>>

AllChecked ==
  /\ pc = "component" /\ rest = <<>>
  /\ checked' = OrDot(checked) /\ GoTo("expanded")
  /\ UNCHANGED <<site, url, origfilename, expnfilename, pathinfo, rest, nlinks,
                 index, sb>>

(***************************************************************************)
(* The end of httpd_parse_request: an absolute name has to begin with      *)
(* hs->cwd, which ends with a slash.                                       *)
(***************************************************************************)
InTree(path) ==
  /\ IsPrefix(<<Empty>> \o site.cwd, path)
  /\ site.cwd # <<>> => Len(path) > Len(site.cwd) + 1

\* What is left of the pathinfo in the original name goes.
Shortened(path, info) ==
  IF info # <<>> /\ Len(info) < Len(path) /\ IsSuffix(info, path)
    THEN SubSeq(path, 1, Len(path) - Len(info)) ELSE path

Confine ==
  /\ pc = "expanded" /\ ~index
  /\ pathinfo' = rest
  /\ origfilename' = Shortened(origfilename, rest)
  /\ IF checked[1] # Empty THEN expnfilename' = checked /\ GoTo("start")
     ELSE IF InTree(checked)
       THEN /\ expnfilename' = SubSeq(checked, Len(site.cwd) + 2, Len(checked))
            /\ GoTo("start")
     ELSE expnfilename' = checked /\ Answer("403")
  /\ UNCHANGED <<site, url, links, index, sb>>

(***************************************************************************)
(* really_start_request.                                                   *)
(***************************************************************************)
Readable(place) == site.tree[place].roth \/ site.tree[place].xoth

IndexOf(path, name) ==
  IF Trim(path) \in {<<>>, <<Dot>>} THEN <<name>> ELSE Append(Trim(path), name)

Index(path) ==
  LET k == SelectInSeq(index_names, LAMBDA n : Stat(IndexOf(path, n)) # Nowhere)
  IN  IF k = 0 THEN <<>> ELSE IndexOf(path, index_names[k])

Start ==
  /\ pc = "start"
  /\ \E place \in {Stat(expnfilename)} :
        IF place = Nowhere THEN Answer("500") /\ UNCHANGED <<expnfilename, index, sb>>
        ELSE IF ~Readable(place) THEN Answer("403") /\ sb' = place
               /\ UNCHANGED <<expnfilename, index>>
        ELSE IF Kind(place) # "dir" THEN GoTo("serve") /\ sb' = place
               /\ UNCHANGED <<expnfilename, index>>
        ELSE IF pathinfo # <<>> THEN Answer("404") /\ sb' = place
               /\ UNCHANGED <<expnfilename, index>>
        ELSE IF origfilename \notin {<<Empty>>, <<Dot>>} /\ Last(origfilename) # Empty
          THEN Answer("302") /\ sb' = place /\ UNCHANGED <<expnfilename, index>>
        ELSE IF Index(expnfilename) # <<>>
          THEN /\ expnfilename' = Index(expnfilename)
               /\ sb' = Stat(Index(expnfilename))
               /\ index' = TRUE /\ GoTo("expand")
        ELSE /\ sb' = place /\ UNCHANGED <<expnfilename, index>>
             /\ IF site.tree[place].roth THEN GoTo("listing") ELSE Answer("403")
  /\ UNCHANGED <<site, url, origfilename, pathinfo, links>>

\* The index file, expanded: more pathinfo means that something went wrong.
GotIndex ==
  /\ pc = "expanded" /\ index
  /\ IF rest # <<>> THEN Answer("500") /\ UNCHANGED expnfilename
     ELSE /\ expnfilename' = checked
          /\ IF Readable(sb) THEN GoTo("serve") ELSE Answer("403")
  /\ UNCHANGED <<site, url, origfilename, pathinfo, links, index, sb>>

\* auth_check of a directory: it may refuse where there is an AUTH_FILE (module
\* Lockout).
Guarded(dir) == Stat(Append(dir, AUTH_FILE)) # Nowhere

Listing ==
  /\ pc = "listing"
  /\ Answer("listing") \/ (Guarded(expnfilename) /\ Answer("401"))
  /\ UNCHANGED <<site, url, origfilename, expnfilename, pathinfo, links, index, sb>>

\* ALLOWED_EXE_MASK_EXT: its * does not match a slash.
AllowedExe(path) == Len(path) = 1 /\ path[1] \in PlainNames

\* Mutant: pathinfo is of no account.
PurposeDeep(path, mode) ==
  IF Last(path) = AUTH_FILE THEN "403"
  ELSE IF mode.xoth /\ Last(path) \in CgiNames THEN "cgi"
  ELSE IF mode.xoth /\ ~AllowedExe(path) THEN "403" ELSE "file"

\* What the file is for, when nobody refuses it.
Purpose(path, mode) ==
  IF Last(path) = AUTH_FILE THEN "403"
  ELSE IF mode.xoth /\ Last(path) \in CgiNames THEN "cgi"
  ELSE IF mode.xoth /\ ~AllowedExe(path) THEN "403"
  ELSE IF pathinfo # <<>> THEN "403" ELSE "file"

Serve ==
  /\ pc = "serve"
  /\ \/ Guarded(OrDot(Front(expnfilename))) /\ Answer("401")
     \/ Answer(Purpose(expnfilename, site.tree[sb]))
  /\ UNCHANGED <<site, url, origfilename, expnfilename, pathinfo, links, index, sb>>

PathNext ==
  \/ Parse \/ Expand \/ Component \/ AllChecked \/ Confine \/ Start \/ GotIndex
  \/ Listing \/ Serve
  \/ pc = "answered" /\ UNCHANGED vars
=============================================================================
