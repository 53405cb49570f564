------------------------------- MODULE SymVer -------------------------------
(***************************************************************************)
(* parse_ver: symbol version definitions (DT_VERDEF) and dependencies      *)
(* (DT_VERNEED).                                                           *)
(*                                                                         *)
(* Both are lists of entries linked by offsets in the file, and each entry *)
(* has a linked list of auxiliary entries.  The dynamic section and the    *)
(* entries say how many there are; the links say where.  Every iteration   *)
(* of the loops over them is an action here.                               *)
(*                                                                         *)
(* `file` is the part of the file this code reads:                         *)
(*   versym    "absent", "present" or "duplicate"                          *)
(*   def, need DT_VERDEF and DT_VERNEED with their counts: kind is         *)
(*             "absent", "present" or "broken" (twice, or one of the two   *)
(*             missing); num; the offset off; the end of its segment; and  *)
(*             sec, the SHT_GNU_verdef or SHT_GNU_verneed section          *)
(*   needed    the names in DT_NEEDED entries                              *)
(*   at        the structures that lie in the file, by offset.  What the   *)
(*             program would make of bytes that are no whole structure is  *)
(*             refused.                                                    *)
(* Offsets count words of four bytes, of which every structure is made.    *)
(***************************************************************************)
EXTENDS Integers, Sequences, FiniteSets

CONSTANTS
  Names,        \* strings in .dynstr; other names lie beyond its end
  SysvHash,     \* sysv_hash of each name
  HiddenFlag,   \* value of the highest bit of a version index, 0x8000
  DefSize, DefAuxSize, NeedSize, NeedAuxSize,    \* sizes of the structures
  Files         \* the files that may be read

ASSUME SizeAssumption == {DefSize, DefAuxSize, NeedSize, NeedAuxSize} \subseteq Nat \ {0}

ASSUME FlagAssumption == HiddenFlag \in Nat \ {0}

(* The fields that links and indices are read from are unsigned.           *)
ASSUME FilesAssumption ==
  \A f \in Files :
    /\ f.def.off \in Nat /\ f.need.off \in Nat
    /\ \A o \in DOMAIN f.at :
         /\ f.at[o].next \in Nat
         /\ f.at[o].is \in {"def", "need"} => f.at[o].aux \in Nat
         /\ f.at[o].is \in {"def", "needaux"} => f.at[o].ndx \in Nat

VARIABLES
  file,
  pc,        \* what parse_ver does next, or how it ended
  list,      \* the list being read, "def" or "need"
  off,       \* off_p: the entry being read
  auxOff,    \* the auxiliary entry being read
  auxs,      \* the offsets of the current entry's auxiliary entries
  read,      \* for both lists, the entries that are read: offset, offsets of auxs
  base,      \* the positions of base definitions among them
  maxEnd,    \* the highest end of a structure of the current list
  claimed,   \* seen_vndx_bitmap
  heap,      \* <<l, 0>> is the array of list l, <<l, k>> the k-th aux_list
  ret,       \* what parse_ver returns; 0 until it does
  oom        \* an allocation has failed

vars == <<file, pc, list, off, auxOff, auxs, read, base, maxEnd, claimed, heap, ret, oom>>

cursor == <<list, off, auxOff, auxs, read, base, maxEnd, claimed>>

Goto(p) == pc' = p

Table == file[list]
Size  == IF list = "def" THEN DefSize ELSE NeedSize
Entry == file.at[off]
IsLast == Len(read[list]) + 1 = Table.num

Holds(o, kind) == o \in DOMAIN file.at /\ file.at[o].is = kind

Higher(end) == IF end > maxEnd THEN end ELSE maxEnd

(* ranges_overlap.                                                         *)
Overlap(o1, n1, o2, n2) == o1 < o2 + n2 /\ o2 < o1 + n1

StartsInside(o, size) == o <= Table.end  \* mistaken: and may end elsewhere

Inside(o, size) == o + size <= Table.end

(* The link of the structure at o to the next one of its list.             *)
AnyLink(next, size, isLast, o) ==      \* mistaken: backwards or into itself
  (isLast <=> next = 0) /\ (~isLast => next <= Table.end - o)

LinkOk(next, size, isLast, o) ==
  /\ next = 0 \/ next >= size
  /\ isLast <=> next = 0
  /\ ~isLast => next <= Table.end - o

-----------------------------------------------------------------------------
(* claim_version_index: the highest bit, the hidden flag, does not count.  *)
RawIndex(v) == v                       \* mistaken: it does

Effective(v) == v % HiddenFlag

Unclaimed(v) == Effective(v) \notin claimed

-----------------------------------------------------------------------------
Init ==
  /\ file \in Files
  /\ pc = "find" /\ list = "def"
  /\ off = 0 /\ auxOff = 0 /\ auxs = <<>>
  /\ read = [def |-> <<>>, need |-> <<>>]
  /\ base = {} /\ maxEnd = 0 /\ claimed = {}
  /\ heap = {} /\ ret = 0 /\ oom = FALSE

(* What the error paths free: that of the entry its aux_list, that of the  *)
(* list all arrays of the list, that of parse_ver those of both results.   *)
Lists(l) == {<<l, k>> : k \in 0 .. Len(read[l])}

EntryLocals == {<<list, Len(read[list]) + 1>>}

ListLocalsKept == Lists(list)          \* mistaken: the DT_NEEDED names stay

ListLocals == Lists(list) \cup {<<"needed", 0>>}

Results == Lists("def") \cup Lists("need")

Refuse ==
  /\ Goto("refused") /\ ret' = -1
  /\ heap' = heap \ (EntryLocals \cup ListLocals \cup Results)
  /\ UNCHANGED <<file, cursor>>

OutOfMemory == oom' = TRUE /\ Refuse

(* find_ver_info_dyn_entries.                                              *)
EntriesOk ==
  /\ file.versym # "duplicate"
  /\ "broken" \notin {file.def.kind, file.need.kind}
  /\ "present" \in {file.def.kind, file.need.kind} => file.versym = "present"

FindEntries ==
  /\ pc = "find" /\ UNCHANGED oom
  /\ \/ ~EntriesOk /\ Refuse
     \/ /\ EntriesOk /\ file.versym = "absent"
        /\ Goto("absent") /\ ret' = 1 /\ UNCHANGED <<file, cursor, heap>>
     \/ /\ EntriesOk /\ file.versym = "present"
        /\ Goto("start") /\ UNCHANGED <<file, cursor, heap, ret>>

(* parse_ver goes on to the dependencies, or has reached its end.          *)
ListDone ==
  /\ IF list = "def" THEN Goto("start") /\ list' = "need" ELSE Goto("end") /\ UNCHANGED list
  /\ UNCHANGED <<file, off, auxOff, auxs, read, base, maxEnd, claimed, ret, oom>>

SkipList == pc = "start" /\ Table.kind = "absent" /\ ListDone /\ UNCHANGED heap

InSegment == Table.off + Table.num * Size <= Table.end

(* The array is allocated and the walk starts at the first entry.          *)
StartAt(arrays) ==
  /\ Goto("entry") /\ off' = Table.off /\ maxEnd' = 0
  /\ heap' = heap \cup arrays
  /\ UNCHANGED <<file, list, auxOff, auxs, read, base, claimed, ret, oom>>

(* parse_verdef up to the first entry.                                     *)
StartVerdef ==
  /\ pc = "start" /\ list = "def" /\ Table.kind = "present"
  /\ \/ Table.num > 0 /\ InSegment /\ StartAt({<<"def", 0>>})
     \/ Table.num > 0 /\ InSegment /\ OutOfMemory
     \/ ~(Table.num > 0 /\ InSegment) /\ Refuse /\ UNCHANGED oom

(* init_dt_needed_name_table.                                              *)
NeededOk == file.needed # {} /\ file.needed \subseteq Names

(* parse_verneed up to the first entry; an empty list is no error.         *)
StartVerneed ==
  /\ pc = "start" /\ list = "need" /\ Table.kind = "present"
  /\ \/ /\ Table.num > 0 /\ InSegment /\ NeededOk
        /\ StartAt({<<"need", 0>>, <<"needed", 0>>})
     \/ Table.num > 0 /\ InSegment /\ file.needed # {} /\ OutOfMemory
     \/ /\ Table.num = 0 /\ InSegment
        /\ Goto("check") /\ off' = Table.off /\ maxEnd' = Table.off
        /\ UNCHANGED <<file, list, auxOff, auxs, read, base, claimed, heap, ret, oom>>
     \/ /\ ~InSegment \/ (Table.num > 0 /\ ~NeededOk)
        /\ Refuse /\ UNCHANGED oom

-----------------------------------------------------------------------------
(* The entry leads on to its auxiliary entries.                            *)
AuxListOk == Entry.cnt > 0 /\ Entry.aux >= Size /\ Entry.aux <= Table.end - off

EntryRead ==
  /\ Goto("aux") /\ auxOff' = off + Entry.aux /\ auxs' = <<>>
  /\ maxEnd' = Higher(off + Size)
  /\ heap' = heap \cup EntryLocals
  /\ UNCHANGED <<file, list, off, read, base, ret, oom>>

(* read_validate_verdef_entry up to its auxiliary list.                    *)
VerdefOk ==
  /\ Inside(off, DefSize)
  /\ Holds(off, "def") /\ Entry.ok
  /\ Entry.ndx < HiddenFlag /\ Entry.ndx # 0
  /\ Entry.base <=> Entry.ndx = 1
  /\ Unclaimed(Entry.ndx)
  /\ AuxListOk

ReadVerdef ==
  /\ pc = "entry" /\ list = "def"
  /\ \/ VerdefOk /\ EntryRead /\ claimed' = claimed \cup {Effective(Entry.ndx)}
     \/ VerdefOk /\ OutOfMemory
     \/ ~VerdefOk /\ Refuse /\ UNCHANGED oom

(* read_validate_verneed_entry up to its auxiliary list.                   *)
VerneedOk ==
  /\ Inside(off, NeedSize)
  /\ Holds(off, "need") /\ Entry.ok
  /\ Entry.name \in file.needed
  /\ AuxListOk

ReadVerneed ==
  /\ pc = "entry" /\ list = "need"
  /\ \/ VerneedOk /\ EntryRead /\ UNCHANGED claimed
     \/ VerneedOk /\ OutOfMemory
     \/ ~VerneedOk /\ Refuse /\ UNCHANGED oom

(* An auxiliary entry is kept and its link followed.                       *)
LastAux == Len(auxs) + 1 = Entry.cnt

AuxRead(size) ==
  /\ auxs' = Append(auxs, auxOff)
  /\ auxOff' = auxOff + file.at[auxOff].next
  /\ maxEnd' = Higher(auxOff + size)
  /\ IF LastAux THEN Goto("next") ELSE UNCHANGED pc
  /\ UNCHANGED <<file, list, off, read, base, heap, ret, oom>>

(* read_validate_verdaux_entry.                                            *)
VerdauxOk ==
  /\ Inside(auxOff, DefAuxSize)
  /\ Holds(auxOff, "defaux")
  /\ LET x == file.at[auxOff] IN
     /\ x.name \in Names
     /\ auxs = <<>> => SysvHash[x.name] = Entry.hash
     /\ LinkOk(x.next, DefAuxSize, LastAux, auxOff)

ReadVerdaux ==
  /\ pc = "aux" /\ list = "def"
  /\ IF VerdauxOk THEN AuxRead(DefAuxSize) /\ UNCHANGED claimed
                  ELSE Refuse /\ UNCHANGED oom

(* read_validate_vernaux_entry.  An index of 0 is let pass unclaimed.      *)
VernauxOk ==
  /\ Inside(auxOff, NeedAuxSize)
  /\ Holds(auxOff, "needaux")
  /\ LET x == file.at[auxOff] IN
     /\ x.ok /\ x.name \in Names /\ SysvHash[x.name] = x.hash
     /\ x.ndx # 0 => x.ndx % HiddenFlag > 1 /\ Unclaimed(x.ndx)
     /\ LinkOk(x.next, NeedAuxSize, LastAux, auxOff)

ReadVernaux ==
  /\ pc = "aux" /\ list = "need"
  /\ IF VernauxOk
     THEN /\ AuxRead(NeedAuxSize)
          /\ LET ndx == file.at[auxOff].ndx IN
             claimed' = claimed \cup (IF ndx = 0 THEN {} ELSE {Effective(ndx)})
     ELSE Refuse /\ UNCHANGED oom

-----------------------------------------------------------------------------
(* The rest of read_validate_verdef_entry and read_validate_verneed_entry: *)
(* the next entry does not overlap the auxiliary list just read.           *)
AuxEnd(size) == auxs[Len(auxs)] + size

NextOk(auxSize) ==
  /\ LinkOk(Entry.next, Size, IsLast, off)
  /\ ~IsLast => ~Overlap(off + Entry.next, Size,
                         auxs[1], AuxEnd(auxSize) - auxs[1])

EntryDone ==
  /\ read' = [read EXCEPT ![list] = Append(@, [at |-> off, auxs |-> auxs])]
  /\ off' = off + Entry.next
  /\ IF IsLast THEN Goto("check") ELSE Goto("entry")
  /\ UNCHANGED <<file, list, auxOff, auxs, maxEnd, claimed, ret, oom>>

(* One base definition, no more and no less (read_verdef_entries).         *)
BaseOk ==
  /\ Entry.base => base = {}
  /\ IsLast => Entry.base \/ base # {}

NextVerdef ==
  /\ pc = "next" /\ list = "def"
  /\ IF NextOk(DefAuxSize) /\ BaseOk
     THEN /\ EntryDone /\ UNCHANGED heap
          /\ base' = IF Entry.base THEN {Len(read.def) + 1} ELSE base
     ELSE Refuse /\ UNCHANGED oom

NextVerneed ==
  /\ pc = "next" /\ list = "need"
  /\ IF NextOk(NeedAuxSize)
     THEN /\ EntryDone /\ UNCHANGED base
          /\ heap' = IF IsLast THEN heap \ {<<"needed", 0>>} ELSE heap
     ELSE Refuse /\ UNCHANGED oom

-----------------------------------------------------------------------------
(* The lists as a whole.                                                   *)
SizeOk ==
  /\ maxEnd - Table.off >= Table.num * Size
  /\ maxEnd <= Table.end

(* validate_sht_gnu_verXXX_if_exists.                                      *)
SectionOk ==
  LET s == Table.sec IN
  s.present => s.ok /\ s.size >= maxEnd - Table.off /\ s.num = Table.num

(* validate_verdef_relations: the first name of a definition is its own,   *)
(* the others are those of different definitions.                          *)
Own(d)  == file.at[d.auxs[1]].name

HashKey(x) == SysvHash[x]              \* mistaken: the names are not compared

Key(x) == <<SysvHash[x], x>>

RelationsOk ==
  LET ds == read.def IN
  /\ \A i, j \in 1 .. Len(ds) : i # j => Key(Own(ds[i])) # Key(Own(ds[j]))
  /\ \A i \in 1 .. Len(ds) : \A k \in 2 .. Len(ds[i].auxs) :
       \E j \in 1 .. Len(ds) : j # i /\ Key(Own(ds[j])) = Key(file.at[ds[i].auxs[k]].name)

(* validate_verneed_names_uniqueness.                                      *)
DependenciesOk ==
  LET ns   == read.need
      All  == UNION {{<<i, k>> : k \in 1 .. Len(ns[i].auxs)} : i \in 1 .. Len(ns)}
      Pair(p) == <<file.at[ns[p[1]].at].name, Key(file.at[ns[p[1]].auxs[p[2]]].name)>>
  IN  \A p, q \in All : p # q => Pair(p) # Pair(q)

Check(ok) ==
  /\ pc = "check"
  /\ \/ SizeOk /\ ok /\ SectionOk /\ ListDone /\ UNCHANGED heap
     \/ Table.num > 0 /\ SizeOk /\ OutOfMemory
     \/ ~(SizeOk /\ ok /\ SectionOk) /\ Refuse /\ UNCHANGED oom

CheckVerdef  == list = "def" /\ Check(RelationsOk)
CheckVerneed == list = "need" /\ Check(DependenciesOk)

(* The end of parse_ver, which runs into its error path: both results are  *)
(* freed and it returns -1.                                                *)
Return ==
  /\ pc = "end" /\ Goto("parsed")
  /\ ret' = -1 /\ heap' = heap \ Results
  /\ UNCHANGED <<file, cursor, oom>>

Next ==
  \/ FindEntries \/ SkipList
  \/ StartVerdef \/ ReadVerdef \/ ReadVerdaux \/ NextVerdef \/ CheckVerdef
  \/ StartVerneed \/ ReadVerneed \/ ReadVernaux \/ NextVerneed \/ CheckVerneed
  \/ Return

Spec == Init /\ [][Next]_vars

=============================================================================
