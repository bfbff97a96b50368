------------------------------ MODULE MapCache ------------------------------
(***************************************************************************)
(* mmc.c, the cache of mapped files: a list of maps with reference counts, *)
(* an open-addressed hash table over them, a free list of map structs and  *)
(* an age limit that adapts to how much is mapped.                         *)
(*                                                                         *)
(* Abstracted: a file stands for its inode, device, size and change time,  *)
(* so that a file that changes becomes another one; its hash before the    *)
(* mask is a constant; a fresh address is the least not in use; time       *)
(* passes in steps, and a struct that nothing reads again is blank.        *)
(***************************************************************************)
EXTENDS Integers, Sequences, SequencesExt, FiniteSets, FiniteSetsExt

CONSTANTS
  Files,
  Size,                 \* st_size of each file
  HashOf,               \* its hash, before hash_mask
  Holders,              \* connections, each of which maps one file at most
  Structs,              \* Map structs malloc may return
  INITIAL_HASH_SIZE,
  DEFAULT_EXPIRE_AGE,
  DESIRED_FREE_COUNT,
  DESIRED_MAX_MAPPED_FILES,
  DESIRED_MAX_MAPPED_BYTES,
  TimeStep              \* seconds that pass in a step of the clock

ASSUME MapCacheAssumption ==
  /\ Size \in [Files -> Nat] /\ HashOf \in [Files -> Nat]
  /\ Structs \subseteq Nat \ {0} /\ IsFiniteSet(Structs) /\ IsFiniteSet(Holders)
  /\ {INITIAL_HASH_SIZE, DEFAULT_EXPIRE_AGE, TimeStep} \subseteq Nat \ {0}
  /\ INITIAL_HASH_SIZE > 1
  /\ {DESIRED_FREE_COUNT, DESIRED_MAX_MAPPED_FILES, DESIRED_MAX_MAPPED_BYTES}
       \subseteq Nat

Null == 0

VARIABLES
  maps,                 \* the active list, head first
  free_maps,            \* the free list, head first
  map,                  \* the structs
  table,                \* hash_table: from index to struct, Null where empty
  expire_age,
  mapped_bytes,
  allocated,            \* the structs malloc has returned and free has not had
  held,                 \* hc->file_address and hc->sb of each connection
  serving               \* FALSE once shut_down is over

mvars == <<maps, free_maps, map, table, expire_age, mapped_bytes, allocated,
           held, serving>>

Active == ToSet(maps)
Nothing == [addr |-> Null, file |-> Null]
Blank == [file |-> Null, refcount |-> 0, age |-> 0, addr |-> Null, hash_idx |-> 0]
OldestAge == DEFAULT_EXPIRE_AGE * 3     \* older makes no difference
EmptyTable(hash_size) == [i \in 0 .. hash_size - 1 |-> Null]

Init ==
  /\ maps = <<>> /\ free_maps = <<>>
  /\ map = [m \in Structs |-> Blank]
  /\ table = EmptyTable(INITIAL_HASH_SIZE)
  /\ expire_age = DEFAULT_EXPIRE_AGE
  /\ mapped_bytes = 0
  /\ allocated = {}
  /\ held = [c \in Holders |-> Nothing]
  /\ serving = TRUE

(***************************************************************************)
(* The hash table.  A pair of a table t and of the structs s says what is  *)
(* in it and where each map thinks it is.                                  *)
(***************************************************************************)
\* The slot tried for a file after k others: they wrap at the end of the table.
Slot(t, f, k) ==
  LET hash_size == Cardinality(DOMAIN t)
      i == (HashOf[f] % hash_size) + k
  IN IF i < hash_size THEN i ELSE i - hash_size

\* find_hash gives up at the first empty slot.
FindHash(h, f) ==
  LET At(k) == h.t[Slot(h.t, f, k)]
      stops == {k \in DOMAIN h.t : At(k) = Null \/ h.s[At(k)].file = f}
  IN IF stops = {} THEN Null ELSE At(Min(stops))

\* add_hash takes the first empty slot: RoomForOneMore says there is one.
AddHash(h, m) ==
  LET f == h.s[m].file
      i == Slot(h.t, f, Min({k \in DOMAIN h.t : h.t[Slot(h.t, f, k)] = Null}))
  IN [t |-> [h.t EXCEPT ![i] = m], s |-> [h.s EXCEPT ![m].hash_idx = i]]

\* hash_size after 0, 1, ... turns of the loop in check_hash_size.
Doubled(hash_size, turns) ==
  LET d[k \in 0 .. turns] == IF k = 0 THEN hash_size ELSE 2 * d[k - 1]
  IN d

\* The hash_size check_hash_size settles on.
CheckedSize ==
  LET hash_size == Cardinality(DOMAIN table)
      need == Len(maps) * 6
      doubled == Doubled(hash_size, need)
  IN IF hash_size >= Len(maps) * 3 THEN hash_size
     ELSE doubled[Min({k \in 1 .. need : doubled[k] >= need})]

\* The new table after the first 0, 1, ... active maps are in it.
Rehashed(hash_size) ==
  LET r[n \in 0 .. Len(maps)] ==
        IF n = 0 THEN [t |-> EmptyTable(hash_size), s |-> map]
        ELSE AddHash(r[n - 1], maps[n])
  IN r

\* check_hash_size: the table, rehashed when it was too small.
Checked ==
  IF CheckedSize = Cardinality(DOMAIN table) THEN [t |-> table, s |-> map]
  ELSE Rehashed(CheckedSize)[Len(maps)]

(***************************************************************************)
(* Unmapping.  Every map of gone goes through really_unmap, in the order   *)
(* of the active list.                                                     *)
(***************************************************************************)
\* Mutant: one reference is as good as none.
UnreferencedOrOne == {m \in Active : map[m].refcount <= 1}

Unreferenced == {m \in Active : map[m].refcount = 0}

\* The two lists after 0, 1, ... turns of a loop over the active one.
Lists(gone, free) ==
  LET l[n \in 0 .. Len(maps)] ==
        IF n = 0 THEN [maps |-> <<>>, free |-> free]
        ELSE IF maps[n] \in gone
               THEN [l[n - 1] EXCEPT !.free = <<maps[n]>> \o @]
               ELSE [l[n - 1] EXCEPT !.maps = Append(@, maps[n])]
  IN l

Kept(gone) == Lists(gone, <<>>)[Len(maps)].maps
FreeMaps(gone, free) == Lists(gone, free)[Len(maps)].free

\* The sum of a function's values: the number of pairs under its graph.
Total(f) == Cardinality(UNION {{x} \X (1 .. f[x]) : x \in DOMAIN f})

Bytes(gone) == Total([m \in gone |-> Size[map[m].file]])

\* Mutant: the slots keep what they hold.
ReallyUnmapKeepsSlots(h, gone) ==
  [t |-> h.t, s |-> [m \in Structs |-> IF m \in gone THEN Blank ELSE h.s[m]]]

ReallyUnmap(h, gone) ==
  [t |-> [i \in DOMAIN h.t |->
           IF \E m \in gone : h.s[m].hash_idx = i THEN Null ELSE h.t[i]],
   s |-> [m \in Structs |-> IF m \in gone THEN Blank ELSE h.s[m]]]

-----------------------------------------------------------------------------
(***************************************************************************)
(* mmc_map.  A file has an address of its own, and every empty file the    *)
(* address 1.  When mmap finds no room, panic unmaps what is unreferenced  *)
(* before the second try.                                                  *)
(***************************************************************************)
EmptyFileAddr == 1
FreshAddr(live) ==
  Min((2 .. Cardinality(Structs) + 2) \ {map[m].addr : m \in live})

HasStruct == free_maps # <<>> \/ allocated # Structs
Struct == IF free_maps # <<>> THEN Head(free_maps) ELSE Min(Structs \ allocated)

Panics(f) == IF Size[f] = 0 THEN {{}} ELSE {{}, Unreferenced}

\* The free list behind the struct taken.
Untaken == IF free_maps # <<>> THEN Tail(free_maps) ELSE <<>>

MapAgain(c, f) ==
  LET h == Checked
      m == FindHash(h, f)
  IN /\ m # Null
     /\ table' = h.t
     /\ map' = [h.s EXCEPT ![m].refcount = @ + 1, ![m].age = 0]
     /\ held' = [held EXCEPT ![c] = [addr |-> map[m].addr, file |-> f]]
     /\ UNCHANGED <<maps, free_maps, expire_age, mapped_bytes, allocated, serving>>

MapNew(c, f, gone) ==
  LET new == [Blank EXCEPT !.file = f, !.refcount = 1,
                           !.addr = IF Size[f] = 0 THEN EmptyFileAddr
                                    ELSE FreshAddr(Active \ gone)]
      left == ReallyUnmap(Checked, gone)
      h == AddHash([left EXCEPT !.s[Struct] = new], Struct)
  IN /\ FindHash(Checked, f) = Null
     /\ HasStruct
     /\ table' = h.t /\ map' = h.s
     /\ maps' = <<Struct>> \o Kept(gone)
     /\ free_maps' = FreeMaps(gone, Untaken)
     /\ allocated' = allocated \cup {Struct}
     /\ mapped_bytes' = mapped_bytes - Bytes(gone) + Size[f]
     /\ held' = [held EXCEPT ![c] = [addr |-> new.addr, file |-> f]]
     /\ UNCHANGED <<expire_age, serving>>

\* open or malloc fails: only the table may have grown.
CannotOpen(f) ==
  /\ FindHash(Checked, f) = Null
  /\ table' = Checked.t /\ map' = Checked.s
  /\ UNCHANGED <<maps, free_maps, expire_age, mapped_bytes, allocated, held, serving>>

\* mmap fails, for want of room twice or for another reason at once; the
\* struct goes back to malloc, whichever place it came from.
CannotMap(f, gone) ==
  LET h == ReallyUnmap(Checked, gone)
  IN /\ FindHash(Checked, f) = Null
     /\ HasStruct
     /\ Size[f] # 0
     /\ table' = h.t /\ map' = h.s
     /\ maps' = Kept(gone)
     /\ free_maps' = FreeMaps(gone, Untaken)
     /\ allocated' = allocated \ {Struct}
     /\ mapped_bytes' = mapped_bytes - Bytes(gone)
     /\ UNCHANGED <<expire_age, held, serving>>

\* Called by really_start_request for a connection that holds no file.
MmcMap(c, f) ==
  /\ serving
  /\ held[c] = Nothing
  /\ \/ MapAgain(c, f)
     \/ CannotOpen(f)
     \/ \E gone \in Panics(f) : MapNew(c, f, gone) \/ CannotMap(f, gone)

(***************************************************************************)
(* mmc_unmap, called by httpd_close_conn.  The map is the one the table    *)
(* has for the file, if its address is the right one, and otherwise the    *)
(* first on the list with that address; its count goes down unless it is   *)
(* zero, which is logged.                                                  *)
(***************************************************************************)
FirstAt(addr) ==
  LET there == {i \in DOMAIN maps : map[maps[i]].addr = addr}
  IN IF there = {} THEN Null ELSE maps[Min(there)]

FoundAt(addr, f) ==
  LET m == FindHash([t |-> table, s |-> map], f)
  IN IF m # Null /\ map[m].addr = addr THEN m ELSE FirstAt(addr)

GivesBack(m) ==
  IF m # Null /\ map[m].refcount > 0
  THEN [map EXCEPT ![m].refcount = @ - 1, ![m].age = 0]
  ELSE map

MmcUnmap(c) ==
  /\ serving
  /\ held[c] # Nothing
  /\ map' = GivesBack(FoundAt(held[c].addr, held[c].file))
  /\ held' = [held EXCEPT ![c] = Nothing]
  /\ UNCHANGED <<maps, free_maps, table, expire_age, mapped_bytes, allocated, serving>>

(***************************************************************************)
(* mmc_cleanup, called by the occasional timer.                            *)
(***************************************************************************)
\* Mutant: the walk ends before the last map.
TooOldButLast ==
  {m \in Unreferenced : m # maps[Len(maps)] /\ map[m].age >= expire_age}

TooOld == {m \in Unreferenced : map[m].age >= expire_age}

Larger(a, b) == IF a > b THEN a ELSE b
Smaller(a, b) == IF a < b THEN a ELSE b

AdjustedAge(bytes, count) ==
  IF bytes > DESIRED_MAX_MAPPED_BYTES \/ count > DESIRED_MAX_MAPPED_FILES
  THEN Larger((expire_age * 2) \div 3, DEFAULT_EXPIRE_AGE \div 10)
  ELSE IF count < DESIRED_MAX_MAPPED_FILES \div 2
       THEN Smaller((expire_age * 5) \div 4, DEFAULT_EXPIRE_AGE * 3)
       ELSE expire_age

\* The while loop takes structs from the head of the free list.
Excess(free) == Larger(Len(free) - DESIRED_FREE_COUNT, 0)

MmcCleanup ==
  LET gone == TooOld
      h == ReallyUnmap([t |-> table, s |-> map], gone)
      free == FreeMaps(gone, free_maps)
  IN /\ serving
     /\ table' = h.t /\ map' = h.s
     /\ maps' = Kept(gone)
     /\ free_maps' = SubSeq(free, Excess(free) + 1, Len(free))
     /\ allocated' = allocated \ ToSet(SubSeq(free, 1, Excess(free)))
     /\ mapped_bytes' = mapped_bytes - Bytes(gone)
     /\ expire_age' = AdjustedAge(mapped_bytes', Len(maps'))
     /\ UNCHANGED <<held, serving>>

\* shut_down: every connection that is not free gives its file back, then
\* mmc_destroy unmaps everything and frees both lists.
MmcDestroy ==
  LET h == ReallyUnmap([t |-> table, s |-> map], Active)
  IN /\ serving
     /\ \A c \in Holders : held[c] = Nothing
     /\ serving' = FALSE
     /\ table' = h.t /\ map' = h.s
     /\ maps' = <<>> /\ free_maps' = <<>>
     /\ allocated' = allocated \ ToSet(FreeMaps(Active, free_maps))
     /\ mapped_bytes' = mapped_bytes - Bytes(Active)
     /\ UNCHANGED <<expire_age, held>>

TimePasses ==
  /\ serving
  /\ map' = [m \in Structs |->
              IF m \in Active
              THEN [map[m] EXCEPT !.age = Smaller(@ + TimeStep, OldestAge)]
              ELSE map[m]]
  /\ UNCHANGED <<maps, free_maps, table, expire_age, mapped_bytes, allocated,
                 held, serving>>

Next ==
  \/ \E c \in Holders, f \in Files : MmcMap(c, f)
  \/ \E c \in Holders : MmcUnmap(c)
  \/ MmcCleanup
  \/ MmcDestroy
  \/ TimePasses

Spec == Init /\ [][Next]_mvars

\* The clock runs, the occasional timer is periodic (tweb.c:692), and shut_down
\* is not obliged to come.
FairSpec == Spec /\ WF_mvars(TimePasses) /\ WF_mvars(MmcCleanup)
-----------------------------------------------------------------------------
(***************************************************************************)
(* Properties.                                                             *)
(***************************************************************************)

MapStruct == [file : Files \cup {Null}, refcount : Nat, age : Nat,
              addr : Nat, hash_idx : Nat]

\* The types of the state, and the age limit stays between a tenth of its
\* default and three times it, however often mmc_cleanup adjusts it.
TypeOK ==
  /\ maps \in Seq(Structs) /\ free_maps \in Seq(Structs)
  /\ map \in [Structs -> MapStruct]
  /\ \A m \in Active : map[m].file \in Files
  /\ DOMAIN table = 0 .. Cardinality(DOMAIN table) - 1
  /\ table \in [DOMAIN table -> Structs \cup {Null}]
  /\ expire_age \in DEFAULT_EXPIRE_AGE \div 10 .. DEFAULT_EXPIRE_AGE * 3
  /\ mapped_bytes \in Nat
  /\ allocated \subseteq Structs
  /\ held \in [Holders -> [addr : Nat, file : Files \cup {Null}]]
  /\ serving \in BOOLEAN

\* Each map of active is in the slot it remembers, and in no other, and the
\* other slots are empty.
InPlace(h, active) ==
  /\ \A m \in active : /\ h.s[m].hash_idx \in DOMAIN h.t
                       /\ h.t[h.s[m].hash_idx] = m
  /\ \A i \in DOMAIN h.t :
       h.t[i] # Null => h.t[i] \in active /\ h.s[h.t[i]].hash_idx = i

\* Through growth and removals no slot holds a map that went to the free list,
\* and there is room for one map more, so that add_hash cannot fail in mmc_map
\* with the file already mapped.
TableInOrder ==
  /\ InPlace([t |-> table, s |-> map], Active)
  /\ Len(maps) < Cardinality(DOMAIN table)

\* No file is unmapped while a connection sends from its address.
HeldFilesMapped ==
  \A c \in Holders : held[c] # Nothing =>
    \E m \in Active : map[m].addr = held[c].addr /\ map[m].file = held[c].file

\* The references counted at an address are the connections that hold it: none
\* is lost, given back twice or given back to another map, though removals
\* break hash chains and a file may come to be mapped twice.
ReferencesCounted ==
  \A addr \in {map[m].addr : m \in Active} :
    Total([m \in {m \in Active : map[m].addr = addr} |-> map[m].refcount])
      = Cardinality({c \in Holders : held[c].addr = addr})

\* A file that a connection sends from is mapped at its address, and counted
\* there once for each such connection (mmc_map, mmc_unmap, mmc_cleanup).
HeldFilesStayMapped == HeldFilesMapped /\ ReferencesCounted

\* Every struct that malloc returned is on one of the two lists, once, and
\* mapped_bytes is what the active ones map: panics, failures in the middle of
\* mmc_map and clean-ups lose nothing, and mmc_destroy leaves nothing.
BookkeepingExact ==
  /\ IsInjective(maps \o free_maps)
  /\ allocated = ToSet(maps \o free_maps)
  /\ mapped_bytes = Bytes(Active)
  /\ ~ serving => allocated = {}

\* The hash table, the two lists and the bytes agree through growth, panics and
\* failures in the middle of mmc_map (mmc.c).
TableMatchesMaps == TypeOK /\ TableInOrder /\ BookkeepingExact

\* A map that no connection refers to is referred to again or leaves the cache:
\* the age limit cannot outrun the clock.
UnusedFilesLeave ==
  \A m \in Structs :
    m \in Unreferenced ~> m \notin Unreferenced
=============================================================================
