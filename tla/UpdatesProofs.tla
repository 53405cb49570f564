--------------------------- MODULE UpdatesProofs ---------------------------
(***************************************************************************)
(* Proof that a client of elf-patching.h may call the update helpers in    *)
(* any order and at any length: serialize_elf has room for the headers,    *)
(* and for the dynamic table once the data reaches as far as the segments, *)
(* it writes what has changed, and the copies of each fact agree.          *)
(***************************************************************************)
EXTENDS UpdatesProperties, ElfLemmas

(* The members of the struct elf, one by one.                              *)
EhdrMembers ==
  [phoff : U64, phentsize : U64, phnum : U64,
   shoff : U64, shentsize : U64, shnum : U64, shstrndx : Nat]

(* The program header table.                                               *)
PhdrTable == [arr : Seq(Phdr), size : U64]

(* The section header table.                                               *)
ShdrTable == [arr : Seq(Shdr), size : U64]

(* The dynamic entries.                                                    *)
Entries == [arr : Seq(Dyn), size : U64, phdr : Nat, shdr : Nat]

(* The dynamic strings.                                                    *)
Strtab == [vaddr : U64, off : U64, size : U64, shdr : Nat]

(* The dynamic symbols.                                                    *)
Symtab == [vaddr : U64, off : U64, size : U64, nsyms : U64, shdr : Nat, dyn : Nat]

(* What the members have to do with each other as long as a client is      *)
(* served: sizes, ...                                                      *)
Sizes ==
  /\ phdrs.size = Len(phdrs.arr) * PhEnt
  /\ shdrs.size = Len(shdrs.arr) * ShEnt
  /\ entries.size = Len(entries.arr) * DynEnt

(* ... indices: what they lead to cannot be dropped as a zeroed entry, ... *)
Linked ==
  /\ entries.phdr \in IndicesOf(phdrs.arr, "DYNAMIC")
  /\ \A i \in {entries.shdr, strtab.shdr, symtab.shdr} \ {0} :
       i \in 1 .. Len(shdrs.arr) /\ shdrs.arr[i].type # "NULL"
  /\ symtab.nsyms # 0 => symtab.dyn \in DynIndices(entries.arr, "OTHER")

(* A range that lies in the data or, the data to be grown, in a segment.   *)
LoadContains(phs, off, len) == \E i \in IndicesOf(phs, "LOAD") : FileContains(phs[i], off, len)

Roomy(phs, off, len, n) == InBounds(off, len, n) \/ LoadContains(phs, off, len)

(* ... and places: each header table lies in the data, where the header    *)
(* says, and the dynamic table in the data or in a segment; section        *)
(* headers are marked only where there are some.                           *)
InFile ==
  /\ InBounds(ehdr.phoff, phdrs.size, size)
  /\ shdrs.arr # <<>> => InBounds(ehdr.shoff, shdrs.size, size)
  /\ Roomy(phdrs.arr, DynamicPhdr.offset, entries.size, size)
  /\ "shdrs" \in dirty => shdrs.arr # <<>>

(* Types, of the dirty flags too.                                          *)
Members ==
  /\ ehdr \in EhdrMembers /\ phdrs \in PhdrTable /\ shdrs \in ShdrTable /\ shstrndx \in U64
  /\ entries \in Entries /\ strtab \in Strtab /\ symtab \in Symtab /\ size \in U64
  /\ dirty \subseteq {"ehdr", "phdrs", "shdrs", "dyn"}

(* All of this.                                                            *)
Whole == Members /\ Sizes /\ Linked /\ InFile

(* The inductive invariant.                                                *)
FileInv == TypeOK /\ (pc = "ready" => Whole)

-----------------------------------------------------------------------------
(* Structures                                                              *)

(* A struct elf is its members.                                            *)
LEMMA StructMembers ==
  ASSUME NEW e, NEW ps, NEW ss, NEW i, NEW es, NEW st, NEW sy, NEW n
  PROVE  [ehdr |-> e, phdrs |-> ps, shdrs |-> ss, shstrndx |-> i,
          entries |-> es, strtab |-> st, symtab |-> sy, size |-> n] \in ElfStruct
         <=> /\ e \in EhdrMembers /\ ps \in PhdrTable /\ ss \in ShdrTable /\ i \in U64
             /\ es \in Entries /\ st \in Strtab /\ sy \in Symtab /\ n \in U64
BY DEF ElfStruct, EhdrMembers, PhdrTable, ShdrTable, Entries, Strtab, Symtab

(* Assigning one element.                                                  *)
LEMMA Replaced ==
  ASSUME NEW S, NEW s \in Seq(S), NEW i \in 1 .. Len(s), NEW v \in S
  PROVE  LET t == [s EXCEPT ![i] = v] IN
         /\ t \in Seq(S) /\ Len(t) = Len(s) /\ t[i] = v
         /\ \A j \in 1 .. Len(s) : j # i => t[j] = s[j]
OBVIOUS

(* The program header i has new sizes, if i is one.                        *)
LEMMA SizedHeaders ==
  ASSUME NEW phs \in Seq(Phdr), NEW i \in 0 .. Len(phs), NEW n \in U64
  PROVE  LET new == Sized(phs, i, n) IN
         /\ new \in Seq(Phdr) /\ Len(new) = Len(phs)
         /\ \A j \in 1 .. Len(phs) :
              /\ j # i => new[j] = phs[j]
              /\ new[j].type = phs[j].type /\ new[j].offset = phs[j].offset
              /\ new[j].vaddr = phs[j].vaddr
         /\ i # 0 => new[i].filesz = n /\ new[i].memsz = n
<1>1. CASE i = 0 BY <1>1 DEF Sized
<1>2. CASE i # 0
  <2> DEFINE v == [phs[i] EXCEPT !.filesz = n, !.memsz = n]
  <2>1. i \in 1 .. Len(phs) /\ phs[i] \in Phdr BY <1>2
  <2>2. v \in Phdr /\ v.type = phs[i].type /\ v.offset = phs[i].offset
        /\ v.vaddr = phs[i].vaddr /\ v.filesz = n /\ v.memsz = n
    BY <2>1 DEF Phdr
  <2>3. Sized(phs, i, n) = [phs EXCEPT ![i] = v]
    BY <1>2, <2>1 DEF Sized
  <2> HIDE DEF v
  <2>4. /\ Sized(phs, i, n) \in Seq(Phdr) /\ Len(Sized(phs, i, n)) = Len(phs)
        /\ \A j \in 1 .. Len(phs) : j # i => Sized(phs, i, n)[j] = phs[j]
        /\ Sized(phs, i, n)[i] = v
    BY <2>1, <2>2, <2>3, Replaced
  <2> QED BY <1>2, <2>2, <2>4
<1> QED BY <1>1, <1>2

(* A section header is replaced in the table.                              *)
LEMMA ReplacedSection ==
  ASSUME NEW ss \in ShdrTable, NEW i \in 1 .. Len(ss.arr), NEW v \in Shdr
  PROVE  LET new == [ss EXCEPT !.arr[i] = v] IN
         /\ new \in ShdrTable /\ new.size = ss.size /\ Len(new.arr) = Len(ss.arr)
         /\ \A j \in 1 .. Len(ss.arr) : j # i => new.arr[j] = ss.arr[j]
         /\ new.arr[i] = v
<1> DEFINE new == [ss EXCEPT !.arr[i] = v]
           a == [ss.arr EXCEPT ![i] = v]
<1>1. ss.arr \in Seq(Shdr) /\ ss.size \in U64 BY DEF ShdrTable
<1>2. a \in Seq(Shdr) /\ Len(a) = Len(ss.arr) /\ a[i] = v
      /\ \A j \in 1 .. Len(ss.arr) : j # i => a[j] = ss.arr[j]
  BY <1>1, Replaced
<1>3. new = [arr |-> a, size |-> ss.size] BY SMTT(30) DEF ShdrTable
<1> HIDE DEF new, a
<1> QED BY <1>1, <1>2, <1>3 DEF ShdrTable, new

(* Two tables of section headers that differ in one, but not in its type.  *)
Alike(ss, new, i) ==
  /\ new \in ShdrTable /\ new.size = ss.size /\ Len(new.arr) = Len(ss.arr)
  /\ \A j \in 1 .. Len(ss.arr) : /\ new.arr[j].type = ss.arr[j].type
                                 /\ j # i => new.arr[j] = ss.arr[j]

(* A table of section headers is like itself.                              *)
LEMMA AlikeItself ==
  ASSUME NEW ss \in ShdrTable, NEW i
  PROVE  Alike(ss, ss, i)
BY DEF Alike

(* The section header of a table that has moved.                           *)
LEMMA SectionFields ==
  ASSUME shdrs \in ShdrTable, NEW i \in 0 .. Len(shdrs.arr), NEW off \in U64, NEW vaddr \in U64
  PROVE  LET new == Section(i, off, vaddr) IN
         /\ Alike(shdrs, new, i)
         /\ i # 0 => /\ new.arr[i].offset = off /\ new.arr[i].addr = vaddr
                     /\ new.arr[i].size = shdrs.arr[i].size
<1>1. CASE i = 0 BY <1>1, AlikeItself DEF Section
<1>2. CASE i # 0
  <2> DEFINE v == [shdrs.arr[i] EXCEPT !.offset = off, !.addr = vaddr]
  <2>1. i \in 1 .. Len(shdrs.arr) /\ shdrs.arr[i] \in Shdr BY <1>2 DEF ShdrTable
  <2>2. /\ v \in Shdr /\ v.type = shdrs.arr[i].type /\ v.offset = off /\ v.addr = vaddr
        /\ v.size = shdrs.arr[i].size
    BY <2>1 DEF Shdr
  <2>3. Section(i, off, vaddr) = [shdrs EXCEPT !.arr[i] = v]
    BY <1>2, <2>1 DEF Section, ShdrTable
  <2> HIDE DEF v
  <2> QED BY <1>2, <2>1, <2>2, <2>3, ReplacedSection DEF Alike
<1> QED BY <1>1, <1>2

(* The section header of a table that has been resized.                    *)
LEMMA SectionSizeFields ==
  ASSUME shdrs \in ShdrTable, NEW i \in 0 .. Len(shdrs.arr), NEW len \in U64
  PROVE  LET new == SectionSize(i, len) IN
         /\ Alike(shdrs, new, i)
         /\ i # 0 => /\ new.arr[i].offset = shdrs.arr[i].offset
                     /\ new.arr[i].addr = shdrs.arr[i].addr
                     /\ new.arr[i].size = len
<1>1. CASE i = 0 BY <1>1, AlikeItself DEF SectionSize
<1>2. CASE i # 0
  <2> DEFINE v == [shdrs.arr[i] EXCEPT !.size = len]
  <2>1. i \in 1 .. Len(shdrs.arr) /\ shdrs.arr[i] \in Shdr BY <1>2 DEF ShdrTable
  <2>2. /\ v \in Shdr /\ v.type = shdrs.arr[i].type /\ v.offset = shdrs.arr[i].offset
        /\ v.addr = shdrs.arr[i].addr /\ v.size = len
    BY <2>1 DEF Shdr
  <2>3. SectionSize(i, len) = [shdrs EXCEPT !.arr[i] = v]
    BY <1>2, <2>1 DEF SectionSize, ShdrTable
  <2> HIDE DEF v
  <2> QED BY <1>2, <2>1, <2>2, <2>3, ReplacedSection DEF Alike
<1> QED BY <1>1, <1>2

(* The section header of the dynamic string table.                         *)
LEMMA StrtabSectionFields ==
  ASSUME shdrs \in ShdrTable, strtab.shdr \in 0 .. Len(shdrs.arr),
         NEW at \in U64, NEW addr \in U64, NEW len \in U64
  PROVE  LET i   == strtab.shdr
             new == StrtabSection(at, addr, len)
         IN  /\ Alike(shdrs, new, i)
             /\ i # 0 => /\ new.arr[i].offset = at /\ new.arr[i].addr = addr
                         /\ new.arr[i].size = len
<1> DEFINE i == strtab.shdr
<1>1. CASE i = 0 BY <1>1, AlikeItself DEF StrtabSection
<1>2. CASE i # 0
  <2> DEFINE v == [shdrs.arr[i] EXCEPT !.offset = at, !.addr = addr, !.size = len]
  <2>1. i \in 1 .. Len(shdrs.arr) /\ shdrs.arr[i] \in Shdr BY <1>2 DEF ShdrTable
  <2>2. /\ v \in Shdr /\ v.type = shdrs.arr[i].type /\ v.offset = at
        /\ v.addr = addr /\ v.size = len
    BY <2>1 DEF Shdr
  <2>3. StrtabSection(at, addr, len) = [shdrs EXCEPT !.arr[i] = v]
    BY <1>2, <2>1 DEF StrtabSection, Section, ShdrTable
  <2> HIDE DEF v
  <2> QED BY <1>2, <2>1, <2>2, <2>3, ReplacedSection DEF Alike
<1> QED BY <1>1, <1>2

(* The first section header holds a number of program headers that the ELF *)
(* header cannot.                                                          *)
LEMMA PhnumFields ==
  ASSUME shdrs \in ShdrTable, NEW n \in U64, n >= PN_XNUM => shdrs.arr # <<>>
  PROVE  LET new == PhnumInSection(n) IN
         /\ Alike(shdrs, new, 1)
         /\ shdrs.arr # <<>> =>
              /\ new.arr[1].info = IF n < PN_XNUM THEN shdrs.arr[1].info ELSE n
              /\ new.arr[1].offset = shdrs.arr[1].offset /\ new.arr[1].addr = shdrs.arr[1].addr
              /\ new.arr[1].size = shdrs.arr[1].size /\ new.arr[1].link = shdrs.arr[1].link
<1>1. CASE n < PN_XNUM BY <1>1, AlikeItself DEF PhnumInSection
<1>2. CASE ~ (n < PN_XNUM)
  <2> DEFINE v == [shdrs.arr[1] EXCEPT !.info = n]
  <2>0. n >= PN_XNUM BY <1>2, EscapeAssumption, Naturals64
  <2>1. 1 \in 1 .. Len(shdrs.arr) /\ shdrs.arr[1] \in Shdr BY <2>0 DEF ShdrTable
  <2>2. /\ v \in Shdr /\ v.type = shdrs.arr[1].type /\ v.offset = shdrs.arr[1].offset
        /\ v.addr = shdrs.arr[1].addr /\ v.size = shdrs.arr[1].size
        /\ v.link = shdrs.arr[1].link /\ v.info = n
    BY <2>1 DEF Shdr
  <2>3. PhnumInSection(n) = [shdrs EXCEPT !.arr[1] = v]
    BY <1>2, <2>1 DEF PhnumInSection, ShdrTable
  <2> HIDE DEF v
  <2> QED BY <1>2, <2>1, <2>2, <2>3, ReplacedSection DEF Alike
<1> QED BY <1>1, <1>2

(* It holds an index of .shstrtab that the ELF header cannot.              *)
LEMMA RelinkedFields ==
  ASSUME shdrs \in ShdrTable, NEW n \in U64, shdrs.arr # <<>>
  PROVE  LET new == Relinked(n) IN
         /\ Alike(shdrs, new, 1)
         /\ new.arr[1].link = IF n < SHN_LORESERVE THEN 0 ELSE n
         /\ new.arr[1].offset = shdrs.arr[1].offset /\ new.arr[1].addr = shdrs.arr[1].addr
         /\ new.arr[1].size = shdrs.arr[1].size /\ new.arr[1].info = shdrs.arr[1].info
<1> DEFINE k == IF n < SHN_LORESERVE THEN 0 ELSE n
           v == [shdrs.arr[1] EXCEPT !.link = k]
<1>1. 1 \in 1 .. Len(shdrs.arr) /\ shdrs.arr[1] \in Shdr BY DEF ShdrTable
<1>2. k \in U64 BY WidthAssumption DEF U64
<1>3. /\ v \in Shdr /\ v.type = shdrs.arr[1].type /\ v.offset = shdrs.arr[1].offset
      /\ v.addr = shdrs.arr[1].addr /\ v.size = shdrs.arr[1].size
      /\ v.link = k /\ v.info = shdrs.arr[1].info
  BY <1>1, <1>2 DEF Shdr
<1>4. Relinked(n) = [shdrs EXCEPT !.arr[1] = v]
  BY <1>1 DEF Relinked, ShdrTable
<1> HIDE DEF v
<1> QED BY <1>1, <1>3, <1>4, ReplacedSection DEF Alike

-----------------------------------------------------------------------------
(* Places                                                                  *)

(* A place that has an address lies in some segment, ...                   *)
LEMMA MappedInLoad ==
  ASSUME NEW phs \in Seq(Phdr), NEW off \in Nat, NEW len \in Nat,
         VaddrFromOff(phs, off, len).ok
  PROVE  LoadContains(phs, off, len)
<1> DEFINE i == ContainingFilePtload(phs, off, len)
<1>1. i # 0 BY DEF VaddrFromOff
<1>0. /\ i \in 0 .. Len(phs)
      /\ i # 0 => phs[i].type = "LOAD" /\ FileContains(phs[i], off, len)
  BY ContainingFileProperty
<1> HIDE DEF i
<1>2. i \in 1 .. Len(phs) /\ phs[i].type = "LOAD" /\ FileContains(phs[i], off, len)
  BY <1>0, <1>1
<1>3. i \in IndicesOf(phs, "LOAD") BY <1>2 DEF IndicesOf
<1> QED BY <1>2, <1>3 DEF LoadContains

(* ... and so in the data when the segments do.                            *)
LEMMA RoomInFile ==
  ASSUME NEW phs \in Seq(Phdr), NEW n \in Nat, LoadsInFile(phs, n),
         NEW off \in Nat, NEW len \in Nat, Roomy(phs, off, len, n)
  PROVE  InBounds(off, len, n)
<1>1. CASE LoadContains(phs, off, len)
  <2>1. PICK i \in IndicesOf(phs, "LOAD") : FileContains(phs[i], off, len)
    BY <1>1 DEF LoadContains
  <2>2. phs[i] \in Phdr BY DEF IndicesOf
  <2>3. phs[i].offset + phs[i].filesz <= n BY DEF LoadsInFile
  <2>4. phs[i].offset \in Nat /\ phs[i].filesz \in Nat BY <2>2, PhdrFields
  <2> QED BY <2>1, <2>3, <2>4 DEF FileContains, InBounds
<1> QED BY <1>1 DEF Roomy

(* Tables of program headers that differ in no entry that loads something, *)
(* and of which the second keeps what the first has.                       *)
Kin(phs, new) ==
  /\ new \in Seq(Phdr)
  /\ \A j \in 1 .. Len(phs) :
       phs[j].type # "NULL" => j \in 1 .. Len(new) /\ new[j].type = phs[j].type
  /\ \A j \in 1 .. Len(new) :
       new[j].type # "NULL" => j \in 1 .. Len(phs) /\ new[j].type = phs[j].type
                               /\ (new[j].type = "LOAD" => new[j] = phs[j])

(* The segments contain what they did, and what was found stays found.     *)
LEMMA KinKeeps ==
  ASSUME NEW phs \in Seq(Phdr), NEW new, Kin(phs, new)
  PROVE  /\ \A off, len : LoadContains(phs, off, len) => LoadContains(new, off, len)
         /\ \A t : t # "NULL" => /\ IndicesOf(new, t) = IndicesOf(phs, t)
                                 /\ UniquePhdr(new, t) = UniquePhdr(phs, t)
<1>1. \A t : t # "NULL" => IndicesOf(new, t) = IndicesOf(phs, t)
  BY DEF Kin, IndicesOf
<1>2. ASSUME NEW off, NEW len, LoadContains(phs, off, len) PROVE LoadContains(new, off, len)
  <2>1. PICK i \in IndicesOf(phs, "LOAD") : FileContains(phs[i], off, len)
    BY <1>2 DEF LoadContains
  <2>2. i \in IndicesOf(new, "LOAD") BY <1>1
  <2>3. new[i] = phs[i] BY <2>2 DEF Kin, IndicesOf
  <2> QED BY <2>1, <2>2, <2>3 DEF LoadContains
<1>3. \A t : t # "NULL" => UniquePhdr(new, t) = UniquePhdr(phs, t)
  BY <1>1 DEF UniquePhdr
<1> QED BY <1>1, <1>2, <1>3

(* A table that fits after resize_table.                                   *)
LEMMA ResizeTableProperty ==
  ASSUME NEW phs, NEW n \in U64, NEW off \in U64, NEW ent \in Nat \ {0}, NEW old, NEW num \in Nat,
         NEW inPtload, ResizeTableOk(phs, n, off, ent, old, num, inPtload)
  PROVE  num * ent \in U64 /\ InBounds(off, num * ent, n)
<1>1. num <= MaxU \div ent /\ off <= n /\ num * ent <= n - off
  BY DEF ResizeTableOk
<1>2. num * ent <= MaxU /\ num * ent \in Nat
  BY <1>1, DivisionBound, WidthAssumption
<1> DEFINE k == num * ent
<1>3. k <= n - off BY <1>1
<1> HIDE DEF k
<1>4. k \in Nat /\ k <= MaxU BY <1>2 DEF k
<1>5. InBounds(off, k, n) BY <1>1, <1>3, <1>4, Naturals64 DEF InBounds
<1>6. k \in U64 BY <1>4, WidthAssumption DEF U64
<1> QED BY <1>5, <1>6 DEF k

(* A change of one program header that does not load anything.             *)
LEMMA KinReplaced ==
  ASSUME NEW phs \in Seq(Phdr), NEW new \in Seq(Phdr), Len(new) = Len(phs), NEW i,
         \A j \in 1 .. Len(phs) : j # i => new[j] = phs[j],
         i \in 1 .. Len(phs) => new[i].type = phs[i].type /\ phs[i].type # "LOAD"
  PROVE  Kin(phs, new)
BY DEF Kin

(* A table has entries when its length is not zero.                        *)
LEMMA NonEmpty == ASSUME NEW S, NEW s \in Seq(S) PROVE s # <<>> <=> Len(s) # 0
OBVIOUS

(* What a changed section header table owes the rest of the struct elf.    *)
SectionsGood(new) ==
  /\ new \in ShdrTable /\ new.size = Len(new.arr) * ShEnt
  /\ \A i \in {entries.shdr, strtab.shdr, symtab.shdr} \ {0} :
       i \in 1 .. Len(new.arr) /\ new.arr[i].type # "NULL"

(* A table like the one before is as good.                                 *)
LEMMA AlikeKeeps ==
  ASSUME Whole, NEW new, NEW i, Alike(shdrs, new, i)
  PROVE  /\ SectionsGood(new) /\ new.size = shdrs.size
         /\ new.arr # <<>> <=> shdrs.arr # <<>>
<1>1. new \in ShdrTable /\ new.size = shdrs.size /\ Len(new.arr) = Len(shdrs.arr)
      /\ \A j \in 1 .. Len(shdrs.arr) : new.arr[j].type = shdrs.arr[j].type
  BY DEF Alike
<1>2. shdrs.size = Len(shdrs.arr) * ShEnt /\ Linked /\ shdrs \in ShdrTable
  BY DEF Whole, Sizes, Members
<1>3. new.arr # <<>> <=> shdrs.arr # <<>>
  BY <1>1, <1>2, NonEmpty DEF ShdrTable
<1> QED BY <1>1, <1>2, <1>3 DEF SectionsGood, Linked

(* What a changed program header table owes it.                            *)
LEMMA KinGood ==
  ASSUME Whole, NEW new, Kin(phdrs.arr, new)
  PROVE  /\ new \in Seq(Phdr) /\ entries.phdr \in IndicesOf(new, "DYNAMIC")
         /\ Roomy(new, DynamicPhdr.offset, entries.size, size)
         /\ \A off, len : LoadContains(phdrs.arr, off, len) => LoadContains(new, off, len)
<1>1. phdrs.arr \in Seq(Phdr) BY DEF Whole, Members, PhdrTable
<1>2. /\ Roomy(phdrs.arr, DynamicPhdr.offset, entries.size, size)
      /\ entries.phdr \in IndicesOf(phdrs.arr, "DYNAMIC")
  BY DEF Whole, InFile, Linked
<1>3. new \in Seq(Phdr) BY DEF Kin
<1>4. "DYNAMIC" # "NULL" OBVIOUS
<1>5. IndicesOf(new, "DYNAMIC") = IndicesOf(phdrs.arr, "DYNAMIC") BY <1>1, <1>4, KinKeeps
<1>6. \A off, len : LoadContains(phdrs.arr, off, len) => LoadContains(new, off, len)
  BY <1>1, KinKeeps
<1> QED BY <1>2, <1>3, <1>5, <1>6 DEF Roomy

-----------------------------------------------------------------------------
(* Operations on the headers                                               *)

(* What is needed of a served client's struct elf, as types.               *)
LEMMA MemberTypes ==
  ASSUME Whole
  PROVE  /\ phdrs.arr \in Seq(Phdr) /\ shdrs.arr \in Seq(Shdr) /\ entries.arr \in Seq(Dyn)
         /\ phdrs.size \in U64 /\ shdrs.size \in U64 /\ entries.size \in U64
         /\ ehdr.phoff \in U64 /\ ehdr.shoff \in U64 /\ size \in U64
         /\ entries.phdr \in 1 .. Len(phdrs.arr) /\ phdrs.arr[entries.phdr].type = "DYNAMIC"
         /\ DynamicPhdr \in Phdr /\ DynamicPhdr.offset \in U64
         /\ entries.shdr \in 0 .. Len(shdrs.arr) /\ strtab.shdr \in 0 .. Len(shdrs.arr)
         /\ symtab.shdr \in 0 .. Len(shdrs.arr)
         /\ PtPhdr \in 0 .. Len(phdrs.arr)
         /\ PtPhdr # 0 => phdrs.arr[PtPhdr].type = "PHDR"
<1>1. /\ phdrs.arr \in Seq(Phdr) /\ shdrs.arr \in Seq(Shdr) /\ entries.arr \in Seq(Dyn)
      /\ phdrs.size \in U64 /\ shdrs.size \in U64 /\ entries.size \in U64
  BY DEF Whole, Members, PhdrTable, ShdrTable, Entries
<1>2. ehdr.phoff \in U64 /\ ehdr.shoff \in U64 /\ size \in U64
  BY DEF Whole, Members, EhdrMembers
<1>3. entries.phdr \in 1 .. Len(phdrs.arr) /\ phdrs.arr[entries.phdr].type = "DYNAMIC"
  BY DEF Whole, Linked, IndicesOf
<1>4. DynamicPhdr \in Phdr BY <1>1, <1>3 DEF DynamicPhdr
<1>5. DynamicPhdr.offset \in U64 BY <1>4 DEF Phdr
<1>6. entries.shdr \in Nat /\ strtab.shdr \in Nat /\ symtab.shdr \in Nat
  BY DEF Whole, Members, Entries, Strtab, Symtab
<1>7. \A i \in {entries.shdr, strtab.shdr, symtab.shdr} \ {0} : i \in 1 .. Len(shdrs.arr)
  BY DEF Whole, Linked
<1>8. entries.shdr \in 0 .. Len(shdrs.arr) /\ strtab.shdr \in 0 .. Len(shdrs.arr)
      /\ symtab.shdr \in 0 .. Len(shdrs.arr)
  BY <1>1, <1>6, <1>7
<1>9. PtPhdr \in 0 .. Len(phdrs.arr) /\ (PtPhdr # 0 => phdrs.arr[PtPhdr].type = "PHDR")
  BY <1>1, UniquePhdrProperty DEF PtPhdr
<1> QED BY <1>1, <1>2, <1>3, <1>4, <1>5, <1>8, <1>9

(* update_phnum: what it drops is zeroed and so is no header in use.       *)
LEMMA PhnumHeaders ==
  ASSUME Whole, NEW n \in U64, Dispensable(phdrs.arr, n, ZeroPhdr), n * PhEnt \in U64
  PROVE  LET new == Sized(Resized(phdrs.arr, n, ZeroPhdr), PtPhdr, n * PhEnt) IN
         /\ new \in Seq(Phdr) /\ Len(new) = n
         /\ Kin(phdrs.arr, new)
         /\ PtPhdr \in 0 .. n /\ entries.phdr \in 1 .. n
         /\ new[entries.phdr] = DynamicPhdr
         /\ PtPhdr # 0 => /\ new[PtPhdr].filesz = n * PhEnt /\ new[PtPhdr].memsz = n * PhEnt
                          /\ new[PtPhdr].offset = phdrs.arr[PtPhdr].offset
                          /\ new[PtPhdr].vaddr = phdrs.arr[PtPhdr].vaddr
<1> DEFINE phs == phdrs.arr
           grown == Resized(phs, n, ZeroPhdr)
           i == PtPhdr
           k == n * PhEnt
           new == Sized(grown, i, k)
<1>1. phs \in Seq(Phdr) /\ n \in Nat /\ ZeroPhdr \in Phdr /\ ZeroPhdr.type = "NULL"
  BY MemberTypes, ZeroStructures, Naturals64 DEF ZeroPhdr
<1> HIDE DEF phs
<1>2. grown \in Seq(Phdr) /\ Len(grown) = n
      /\ \A j \in 1 .. n : grown[j] = IF j <= Len(phs) THEN phs[j] ELSE ZeroPhdr
  <2>1. grown \in [1 .. n -> Phdr] BY <1>1 DEF Resized
  <2>2. grown \in Seq(Phdr) /\ Len(grown) = n BY <1>1, <2>1, FunctionIsSequence
  <2> QED BY <2>2 DEF Resized
<1>3. \A j \in 1 .. Len(phs) : phs[j].type # "NULL" => j \in 1 .. n
  BY <1>1 DEF Dispensable, phs
<1>4. entries.phdr \in 1 .. Len(phs) /\ phs[entries.phdr].type = "DYNAMIC"
      /\ i \in 0 .. Len(phs) /\ (i # 0 => phs[i].type = "PHDR")
  BY MemberTypes DEF phs
<1> HIDE DEF grown, i, k
<1>5. i \in 0 .. n /\ entries.phdr \in 1 .. n /\ entries.phdr # i /\ Len(phs) \in Nat
  BY <1>1, <1>3, <1>4
<1>6. k \in U64 BY DEF k
<1>7. /\ new \in Seq(Phdr) /\ Len(new) = n
      /\ \A j \in 1 .. n : /\ j # i => new[j] = grown[j]
                           /\ new[j].type = grown[j].type /\ new[j].offset = grown[j].offset
                           /\ new[j].vaddr = grown[j].vaddr
      /\ i # 0 => new[i].filesz = k /\ new[i].memsz = k
  <2>1. grown \in Seq(Phdr) /\ i \in 0 .. Len(grown) BY <1>2, <1>5
  <2>2. /\ new \in Seq(Phdr) /\ Len(new) = Len(grown)
        /\ \A j \in 1 .. Len(grown) :
             /\ j # i => new[j] = grown[j]
             /\ new[j].type = grown[j].type /\ new[j].offset = grown[j].offset
             /\ new[j].vaddr = grown[j].vaddr
        /\ i # 0 => new[i].filesz = k /\ new[i].memsz = k
    BY <1>6, <2>1, SizedHeaders
  <2> HIDE DEF new
  <2> QED BY <1>2, <2>2
<1> HIDE DEF new
<1>8. ASSUME NEW j \in 1 .. Len(phs), phs[j].type # "NULL"
      PROVE  j \in 1 .. Len(new) /\ new[j].type = phs[j].type
  <2>1. j \in 1 .. n /\ grown[j] = phs[j] BY <1>2, <1>3, <1>8
  <2> QED BY <1>7, <2>1
<1>9. ASSUME NEW j \in 1 .. Len(new), new[j].type # "NULL"
      PROVE  j \in 1 .. Len(phs) /\ new[j].type = phs[j].type
             /\ (new[j].type = "LOAD" => new[j] = phs[j])
  <2>1. j \in 1 .. n /\ new[j].type = grown[j].type BY <1>7
  <2>2. j <= Len(phs) BY <1>1, <1>2, <1>9, <2>1
  <2>3. j \in 1 .. Len(phs) /\ grown[j] = phs[j] BY <1>2, <1>5, <2>1, <2>2
  <2> QED BY <1>4, <1>7, <2>1, <2>3
<1>10. Kin(phs, new) BY <1>7, <1>8, <1>9 DEF Kin
<1>11. new[entries.phdr] = phs[entries.phdr] BY <1>2, <1>4, <1>5, <1>7
<1>12. i # 0 => new[i].offset = phs[i].offset /\ new[i].vaddr = phs[i].vaddr
  BY <1>2, <1>4, <1>5, <1>7
<1> QED BY <1>5, <1>7, <1>10, <1>11, <1>12 DEF new, grown, i, k, phs, DynamicPhdr

(* The ELF header has room for a number of program headers, or the escape. *)
LEMMA PhnumInHeaderType == ASSUME NEW n \in U64 PROVE PhnumInHeader(n) \in U64
<1>1. CASE n < PN_XNUM BY <1>1 DEF PhnumInHeader
<1>2. CASE ~ (n < PN_XNUM)
  BY <1>2, Naturals64, EscapeAssumption, WidthAssumption DEF PhnumInHeader, U64
<1> QED BY <1>1, <1>2

(* update_phnum.                                                           *)
LEMMA UpdatePhnumKeeps ==
  ASSUME Whole, NEW n \in U64, UpdatePhnum(n)
  PROVE  Whole'
<1> DEFINE k == n * PhEnt
           arr == Sized(Resized(phdrs.arr, n, ZeroPhdr), PtPhdr, k)
           new == PhnumInSection(n)
<1> USE MemberTypes
<1>1. k \in U64 /\ InBounds(ehdr.phoff, k, size)
  <2>1. ResizeTableOk(phdrs.arr, size, ehdr.phoff, PhEnt, Len(phdrs.arr), n, PtPhdr # 0)
    BY DEF UpdatePhnum, PhnumFits
  <2>2. n \in Nat /\ PhEnt \in Nat \ {0} BY Naturals64, SizeAssumption
  <2> QED BY <2>1, <2>2, ResizeTableProperty
<1>2. /\ arr \in Seq(Phdr) /\ Len(arr) = n /\ Kin(phdrs.arr, arr)
      /\ arr[entries.phdr] = DynamicPhdr
  BY <1>1, PhnumHeaders DEF UpdatePhnum
<1>3. /\ entries.phdr \in IndicesOf(arr, "DYNAMIC")
      /\ Roomy(arr, DynamicPhdr.offset, entries.size, size)
  BY <1>2, KinGood
<1>4. (n >= PN_XNUM => shdrs.arr # <<>>) /\ shdrs \in ShdrTable
  BY DEF UpdatePhnum, PhnumFits, Whole, Members
<1>5. Alike(shdrs, new, 1) BY <1>4, PhnumFields
<1> HIDE DEF new
<1>6. SectionsGood(new) /\ new.size = shdrs.size /\ (new.arr # <<>> <=> shdrs.arr # <<>>)
  BY <1>5, AlikeKeeps
<1>7. phdrs' = [arr |-> arr, size |-> k] /\ shdrs' = new
      /\ UNCHANGED <<shstrndx, entries, strtab, symtab, size>>
  BY DEF UpdatePhnum, new
<1>8. PhnumInHeader(n) \in U64
  BY PhnumInHeaderType
<1>9. ehdr' \in EhdrMembers /\ ehdr'.phoff = ehdr.phoff /\ ehdr'.shoff = ehdr.shoff
  BY <1>8 DEF UpdatePhnum, Whole, Members, EhdrMembers
<1>10. dirty' \subseteq {"ehdr", "phdrs", "shdrs", "dyn"} /\ ("shdrs" \in dirty' => shdrs'.arr # <<>>)
  <2>1. n < PN_XNUM \/ n >= PN_XNUM BY EscapeAssumption, Naturals64
  <2>2. "shdrs" \in dirty => shdrs.arr # <<>> BY DEF Whole, InFile
  <2> QED BY <1>4, <1>6, <1>7, <2>1, <2>2 DEF UpdatePhnum, Whole, Members
<1> HIDE DEF arr, k
<1>11. phdrs'.arr = arr /\ phdrs'.size = k BY <1>7
<1>12. Members' BY <1>1, <1>2, <1>6, <1>7, <1>9, <1>10 DEF Whole, Members, PhdrTable, SectionsGood
<1>13. Sizes'
  BY <1>2, <1>6, <1>7, <1>11 DEF Whole, Sizes, SectionsGood, k
<1>14. Linked'
  BY <1>3, <1>6, <1>7, <1>11 DEF Whole, Linked, SectionsGood
<1>15. DynamicPhdr' = DynamicPhdr BY <1>2, <1>7, <1>11 DEF DynamicPhdr
<1>16. InFile'
  BY <1>1, <1>3, <1>6, <1>7, <1>9, <1>10, <1>11, <1>15 DEF Whole, InFile
<1> QED BY <1>12, <1>13, <1>14, <1>16 DEF Whole

(* update_phoff changes PT_PHDR, which leads to the table itself.          *)
LEMMA PlacedHeaders ==
  ASSUME Whole, NEW off \in U64
  PROVE  LET new == PlacedPhdr(off) IN
         /\ new \in PhdrTable /\ new.size = phdrs.size /\ Len(new.arr) = Len(phdrs.arr)
         /\ \A j \in 1 .. Len(phdrs.arr) : j # PtPhdr => new.arr[j] = phdrs.arr[j]
         /\ Kin(phdrs.arr, new.arr)
         /\ PtPhdr # 0 => /\ new.arr[PtPhdr].type = "PHDR" /\ new.arr[PtPhdr].offset = off
                          /\ new.arr[PtPhdr].filesz = phdrs.size
                          /\ new.arr[PtPhdr].memsz = phdrs.size
                          /\ new.arr[PtPhdr].vaddr = VaddrFromOff(phdrs.arr, off, phdrs.size).val
<1>1. phdrs \in PhdrTable /\ phdrs.arr \in Seq(Phdr) /\ phdrs.size \in U64
      /\ PtPhdr \in 0 .. Len(phdrs.arr) /\ (PtPhdr # 0 => phdrs.arr[PtPhdr].type = "PHDR")
  BY MemberTypes DEF Whole, Members
<1>2. CASE PtPhdr = 0
  <2>1. PlacedPhdr(off) = phdrs BY <1>2 DEF PlacedPhdr
  <2>2. Kin(phdrs.arr, phdrs.arr) BY <1>1 DEF Kin
  <2> QED BY <1>1, <1>2, <2>1, <2>2
<1>3. CASE PtPhdr # 0
  <2> DEFINE i == PtPhdr
             va == VaddrFromOff(phdrs.arr, off, phdrs.size).val
             v == [phdrs.arr[i] EXCEPT !.offset = off, !.vaddr = va,
                                       !.filesz = phdrs.size, !.memsz = phdrs.size]
             a == [phdrs.arr EXCEPT ![i] = v]
  <2>1. va \in U64
    <3>1. off \in Nat /\ phdrs.size \in Nat BY <1>1, Naturals64
    <3> QED BY <1>1, <3>1, VaddrFromOffProperty
  <2>2. i \in 1 .. Len(phdrs.arr) /\ phdrs.arr[i] \in Phdr BY <1>1, <1>3
  <2>3. PlacedPhdr(off) = [arr |-> a, size |-> phdrs.size]
    BY <1>1, <1>3, <2>2 DEF PlacedPhdr, PhdrTable
  <2> HIDE DEF va
  <2>4. /\ v \in Phdr /\ v.type = phdrs.arr[i].type /\ v.offset = off
        /\ v.filesz = phdrs.size /\ v.memsz = phdrs.size /\ v.vaddr = va
    BY <1>1, <2>1, <2>2 DEF Phdr
  <2> HIDE DEF v
  <2>5. a \in Seq(Phdr) /\ Len(a) = Len(phdrs.arr) /\ a[i] = v
        /\ \A j \in 1 .. Len(phdrs.arr) : j # i => a[j] = phdrs.arr[j]
    BY <1>1, <2>2, <2>4, Replaced
  <2> HIDE DEF a
  <2>6. Kin(phdrs.arr, a)
    <3>1. a[i].type = phdrs.arr[i].type /\ phdrs.arr[i].type # "LOAD"
      BY <1>1, <1>3, <2>4, <2>5
    <3> QED BY <1>1, <2>5, <3>1, KinReplaced
  <2> DEFINE new == PlacedPhdr(off)
  <2>7. new.arr = a /\ new.size = phdrs.size BY <2>3
  <2>8. new \in PhdrTable BY <1>1, <2>3, <2>5 DEF PhdrTable
  <2> HIDE DEF new
  <2>9. /\ \A j \in 1 .. Len(phdrs.arr) : j # PtPhdr => new.arr[j] = phdrs.arr[j]
        /\ new.arr[PtPhdr] = v
    BY <2>5, <2>7
  <2> QED BY <1>1, <1>3, <2>4, <2>5, <2>6, <2>7, <2>8, <2>9 DEF new, va
<1> QED BY <1>2, <1>3

(* update_phoff.                                                           *)
LEMMA UpdatePhoffKeeps ==
  ASSUME Whole, NEW off \in U64, UpdatePhoff(off)
  PROVE  Whole'
<1> DEFINE new == PlacedPhdr(off)
<1> USE MemberTypes
<1>1. /\ new \in PhdrTable /\ new.size = phdrs.size /\ Len(new.arr) = Len(phdrs.arr)
      /\ \A j \in 1 .. Len(phdrs.arr) : j # PtPhdr => new.arr[j] = phdrs.arr[j]
      /\ Kin(phdrs.arr, new.arr)
  BY PlacedHeaders
<1> HIDE DEF new
<1>2. /\ entries.phdr \in IndicesOf(new.arr, "DYNAMIC")
      /\ Roomy(new.arr, DynamicPhdr.offset, entries.size, size)
  BY <1>1, KinGood
<1>3. phdrs' = new /\ UNCHANGED <<shdrs, shstrndx, entries, strtab, symtab, size>>
      /\ dirty' = dirty \cup {"ehdr", "phdrs"}
  BY DEF UpdatePhoff, new
<1>4. ehdr' \in EhdrMembers /\ ehdr'.phoff = off /\ ehdr'.shoff = ehdr.shoff
  BY DEF UpdatePhoff, Whole, Members, EhdrMembers
<1>5. InBounds(off, phdrs.size, size)
  <2>1. off \in Nat /\ phdrs.size \in Nat /\ size \in Nat BY Naturals64
  <2> QED BY <2>1 DEF UpdatePhoff, PhoffFits, InBounds
<1>6. DynamicPhdr' = DynamicPhdr
  <2>1. entries.phdr # PtPhdr /\ entries.phdr \in 1 .. Len(phdrs.arr) OBVIOUS
  <2> QED BY <1>1, <1>3, <2>1 DEF DynamicPhdr
<1>7. Members' BY <1>1, <1>3, <1>4 DEF Whole, Members
<1>8. Sizes' BY <1>1, <1>3 DEF Whole, Sizes
<1>9. Linked' BY <1>2, <1>3 DEF Whole, Linked
<1>10. InFile' BY <1>1, <1>2, <1>3, <1>4, <1>5, <1>6 DEF Whole, InFile
<1> QED BY <1>7, <1>8, <1>9, <1>10 DEF Whole

(* append_new_ptload_segment fills the entry that has been added: no index *)
(* leads to it, and the other segments are as they were.                   *)
LEMMA FillPhdrKeeps ==
  ASSUME Whole, NEW s \in Phdr, s.type = "LOAD", FillPhdr(s)
  PROVE  Whole'
<1> USE MemberTypes
<1> DEFINE n == Len(phdrs.arr)
           a == [phdrs.arr EXCEPT ![n] = s]
<1>1. n \in Nat \ {0} /\ n \in 1 .. n /\ entries.phdr \in 1 .. n OBVIOUS
<1>2. a \in Seq(Phdr) /\ Len(a) = n /\ a[n] = s /\ \A j \in 1 .. n : j # n => a[j] = phdrs.arr[j]
  BY <1>1, Replaced
<1>3. entries.phdr # n
  BY DEF FillPhdr, ZeroPhdr
<1>4. phdrs' = [arr |-> a, size |-> phdrs.size] /\ dirty' = dirty \cup {"phdrs"}
      /\ UNCHANGED <<ehdr, shdrs, shstrndx, entries, strtab, symtab, size>>
  BY <1>1 DEF FillPhdr, Whole, Members, PhdrTable
<1> HIDE DEF a
<1>5. phdrs'.arr = a /\ phdrs'.size = phdrs.size BY <1>4
<1>6. entries.phdr \in IndicesOf(a, "DYNAMIC") BY <1>1, <1>2, <1>3 DEF IndicesOf
<1>7. Roomy(a, DynamicPhdr.offset, entries.size, size)
  <2>1. \A j \in IndicesOf(phdrs.arr, "LOAD") : j \in IndicesOf(a, "LOAD") /\ a[j] = phdrs.arr[j]
    BY <1>2 DEF FillPhdr, IndicesOf, ZeroPhdr
  <2>2. Roomy(phdrs.arr, DynamicPhdr.offset, entries.size, size) BY DEF Whole, InFile
  <2> QED BY <2>1, <2>2 DEF Roomy, LoadContains
<1>8. DynamicPhdr' = DynamicPhdr BY <1>1, <1>2, <1>3, <1>4, <1>5 DEF DynamicPhdr
<1>9. Members' BY <1>2, <1>4 DEF Whole, Members, PhdrTable
<1>10. Sizes' BY <1>2, <1>4, <1>5 DEF Whole, Sizes
<1>11. Linked' BY <1>4, <1>5, <1>6 DEF Whole, Linked
<1>12. InFile' BY <1>4, <1>5, <1>7, <1>8 DEF Whole, InFile
<1> QED BY <1>9, <1>10, <1>11, <1>12 DEF Whole

(* update_shnum: again, what it drops is no section in use.                *)
LEMMA ShnumSections ==
  ASSUME Whole, NEW n \in U64 \ {0}, Dispensable(shdrs.arr, n, ZeroShdr), n * ShEnt \in U64
  PROVE  LET grown == Resized(shdrs.arr, n, ZeroShdr)
             first == [grown EXCEPT ![1].size = n]
         IN  \A arr \in {grown, first} :
               /\ arr \in Seq(Shdr) /\ Len(arr) = n
               /\ SectionsGood([arr |-> arr, size |-> n * ShEnt])
<1> DEFINE s == shdrs.arr
           grown == Resized(s, n, ZeroShdr)
           v == [grown[1] EXCEPT !.size = n]
           first == [grown EXCEPT ![1].size = n]
<1>0. s \in Seq(Shdr) /\ n \in Nat /\ ZeroShdr \in Shdr
  BY MemberTypes, ZeroStructures, Naturals64
<1>1. s \in Seq(Shdr) /\ n \in Nat /\ n # 0 /\ ZeroShdr \in Shdr /\ ZeroShdr.type = "NULL"
  BY MemberTypes, ZeroStructures, Naturals64 DEF ZeroShdr
<1>2. \A j \in 1 .. Len(s) : s[j].type # "NULL" => j \in 1 .. n
  BY <1>1 DEF Dispensable
<1>3. \A j \in {entries.shdr, strtab.shdr, symtab.shdr} \ {0} :
        j \in 1 .. Len(s) /\ s[j].type # "NULL"
  BY DEF Whole, Linked
<1> HIDE DEF s
<1>4. grown \in Seq(Shdr) /\ Len(grown) = n
      /\ \A j \in 1 .. n : grown[j] = IF j <= Len(s) THEN s[j] ELSE ZeroShdr
  <2>1. grown \in [1 .. n -> Shdr] BY <1>0 DEF Resized
  <2>2. grown \in Seq(Shdr) /\ Len(grown) = n BY <1>0, <2>1, FunctionIsSequence
  <2> QED BY <2>2 DEF Resized
<1> HIDE DEF grown
<1>5. 1 \in 1 .. Len(grown) /\ grown[1] \in Shdr BY <1>1, <1>4
<1>6. v \in Shdr /\ v.type = grown[1].type BY <1>5 DEF Shdr
<1>7. first = [grown EXCEPT ![1] = v] BY <1>4, <1>5
<1> HIDE DEF v
<1>8. first \in Seq(Shdr) /\ Len(first) = n
      /\ \A j \in 1 .. n : first[j].type = grown[j].type
  <2> DEFINE f == [grown EXCEPT ![1] = v]
  <2>1. f \in Seq(Shdr) /\ Len(f) = Len(grown) /\ f[1] = v
        /\ \A j \in 1 .. Len(grown) : j # 1 => f[j] = grown[j]
    BY <1>4, <1>5, <1>6, Replaced
  <2> HIDE DEF f
  <2>2. ASSUME NEW j \in 1 .. n PROVE f[j].type = grown[j].type
    BY <1>4, <1>6, <2>1, <2>2
  <2> QED BY <1>4, <1>7, <2>1, <2>2 DEF f
<1> HIDE DEF first
<1>9. ASSUME NEW arr \in {grown, first}
      PROVE  arr \in Seq(Shdr) /\ Len(arr) = n /\ SectionsGood([arr |-> arr, size |-> n * ShEnt])
  <2>1. arr \in Seq(Shdr) /\ Len(arr) = n /\ \A j \in 1 .. n : arr[j].type = grown[j].type
    BY <1>4, <1>8, <1>9
  <2>2. ASSUME NEW j \in {entries.shdr, strtab.shdr, symtab.shdr} \ {0}
        PROVE  j \in 1 .. Len(arr) /\ arr[j].type # "NULL"
    <3>1. j \in 1 .. Len(s) /\ s[j].type # "NULL" BY <1>3, <2>2
    <3>2. j \in 1 .. n BY <1>2, <3>1
    <3>3. grown[j] = s[j] BY <1>1, <1>4, <3>1, <3>2
    <3> QED BY <2>1, <3>1, <3>2, <3>3
  <2> DEFINE k == n * ShEnt
             t == [arr |-> arr, size |-> k]
  <2>3. k \in U64 BY DEF k
  <2>4. k = Len(arr) * ShEnt BY <2>1
  <2> HIDE DEF k
  <2>5. t \in ShdrTable /\ t.arr = arr /\ t.size = k BY <2>1, <2>3 DEF ShdrTable
  <2> HIDE DEF t
  <2>6. SectionsGood(t) BY <2>2, <2>4, <2>5 DEF SectionsGood
  <2> QED BY <2>1, <2>6 DEF t, k
<1> QED BY <1>9 DEF grown, first, s

(* update_shnum.                                                           *)
LEMMA UpdateShnumKeeps ==
  ASSUME Whole, NEW n \in U64, UpdateShnum(n)
  PROVE  Whole'
<1> USE MemberTypes
<1> DEFINE k == n * ShEnt
           grown == Resized(shdrs.arr, n, ZeroShdr)
           first == [grown EXCEPT ![1].size = n]
<1>1. n \in Nat /\ n # 0 /\ shdrs.arr \in Seq(Shdr) BY Naturals64 DEF UpdateShnum
<1>2. k \in U64 /\ InBounds(ehdr.shoff, k, size)
  <2>1. ResizeTableOk(phdrs.arr, size, ehdr.shoff, ShEnt, Len(shdrs.arr), n, FALSE)
    BY DEF UpdateShnum, ShnumFits
  <2> QED BY <1>1, <2>1, ResizeTableProperty, SizeAssumption
<1>3. Dispensable(shdrs.arr, n, ZeroShdr) BY DEF UpdateShnum
<1>4. \A arr \in {grown, first} :
        arr \in Seq(Shdr) /\ Len(arr) = n /\ SectionsGood([arr |-> arr, size |-> k])
  BY <1>1, <1>2, <1>3, ShnumSections
<1>5. /\ \/ shdrs' = [arr |-> grown, size |-> k] /\ ehdr' = [ehdr EXCEPT !.shnum = n]
         \/ shdrs' = [arr |-> first, size |-> k] /\ ehdr' = [ehdr EXCEPT !.shnum = 0]
      /\ dirty' = dirty \cup {"ehdr", "shdrs"}
      /\ UNCHANGED <<phdrs, shstrndx, entries, strtab, symtab, size>>
  BY DEF UpdateShnum
<1> HIDE DEF grown, first, k
<1>6. PICK arr \in {grown, first} : shdrs' = [arr |-> arr, size |-> k] BY <1>5
<1>7. arr \in Seq(Shdr) /\ Len(arr) = n /\ SectionsGood(shdrs') BY <1>4, <1>6
<1>8. shdrs'.arr = arr /\ shdrs'.size = k BY <1>6
<1>9. arr # <<>> BY <1>1, <1>7, NonEmpty
<1>10. ehdr' \in EhdrMembers /\ ehdr'.phoff = ehdr.phoff /\ ehdr'.shoff = ehdr.shoff
  <2>1. 0 \in U64 BY WidthAssumption DEF U64
  <2> QED BY <1>5, <2>1 DEF Whole, Members, EhdrMembers
<1>11. DynamicPhdr' = DynamicPhdr BY <1>5 DEF DynamicPhdr
<1>12. Members' BY <1>5, <1>7, <1>10 DEF Whole, Members, SectionsGood
<1>13. Sizes' BY <1>5, <1>7 DEF Whole, Sizes, SectionsGood
<1>14. Linked' BY <1>5, <1>7 DEF Whole, Linked, SectionsGood
<1>15. InFile' BY <1>2, <1>5, <1>8, <1>9, <1>10, <1>11 DEF Whole, InFile
<1> QED BY <1>12, <1>13, <1>14, <1>15 DEF Whole

(* update_shoff.                                                           *)
LEMMA UpdateShoffKeeps ==
  ASSUME Whole, shdrs.arr # <<>>, NEW off \in U64, UpdateShoff(off)
  PROVE  Whole'
<1> USE MemberTypes
<1>1. ehdr' \in EhdrMembers /\ ehdr'.phoff = ehdr.phoff /\ ehdr'.shoff = off
  BY DEF UpdateShoff, Whole, Members, EhdrMembers
<1>2. dirty' = dirty \cup {"ehdr", "shdrs"}
      /\ UNCHANGED <<phdrs, shdrs, shstrndx, entries, strtab, symtab, size>>
  BY DEF UpdateShoff
<1>3. InBounds(off, shdrs.size, size)
  <2>1. off \in Nat /\ shdrs.size \in Nat /\ size \in Nat BY Naturals64
  <2> QED BY <2>1 DEF UpdateShoff, InBounds
<1>4. DynamicPhdr' = DynamicPhdr BY <1>2 DEF DynamicPhdr
<1>5. Members' /\ Sizes' /\ Linked' BY <1>1, <1>2 DEF Whole, Members, Sizes, Linked
<1>6. InFile' BY <1>1, <1>2, <1>3, <1>4 DEF Whole, InFile
<1> QED BY <1>5, <1>6 DEF Whole

(* update_shstrndx.                                                        *)
LEMMA UpdateShstrndxKeeps ==
  ASSUME Whole, shdrs.arr # <<>>, NEW n \in U64, UpdateShstrndx(n)
  PROVE  Whole'
<1> USE MemberTypes
<1> DEFINE new == Relinked(n)
<1>1. shdrs \in ShdrTable BY DEF Whole, Members
<1>2. Alike(shdrs, new, 1) BY <1>1, RelinkedFields
<1> HIDE DEF new
<1>3. SectionsGood(new) /\ new.size = shdrs.size /\ (new.arr # <<>> <=> shdrs.arr # <<>>)
  BY <1>2, AlikeKeeps
<1>4. shdrs' = new /\ shstrndx' = n
      /\ UNCHANGED <<phdrs, entries, strtab, symtab, size>>
  BY DEF UpdateShstrndx, new
<1>5. dirty' \subseteq {"ehdr", "phdrs", "shdrs", "dyn"}
  BY DEF UpdateShstrndx, DirtyByShstrndx, Whole, Members
<1>6. ehdr' \in EhdrMembers /\ ehdr'.phoff = ehdr.phoff /\ ehdr'.shoff = ehdr.shoff
  <2> DEFINE i == IF n < SHN_LORESERVE THEN n ELSE SHN_XINDEX
  <2>1. i \in Nat BY Naturals64, EscapeAssumption
  <2>2. ehdr' = [ehdr EXCEPT !.shstrndx = i] BY DEF UpdateShstrndx
  <2> HIDE DEF i
  <2> QED BY <2>1, <2>2 DEF Whole, Members, EhdrMembers
<1>7. DynamicPhdr' = DynamicPhdr BY <1>4 DEF DynamicPhdr
<1>8. Members' BY <1>3, <1>4, <1>5, <1>6 DEF Whole, Members, SectionsGood
<1>9. Sizes' BY <1>3, <1>4 DEF Whole, Sizes, SectionsGood
<1>10. Linked' BY <1>3, <1>4 DEF Whole, Linked, SectionsGood
<1>11. InFile' BY <1>3, <1>4, <1>6, <1>7 DEF Whole, InFile
<1> QED BY <1>8, <1>9, <1>10, <1>11 DEF Whole

-----------------------------------------------------------------------------
(* Operations on the dynamic section and its tables                        *)

(* Dynamic entries of the same tags: what a client looks up is the same.   *)
SameTags(es, new) ==
  /\ new \in Entries /\ Len(new.arr) = Len(es.arr)
  /\ new.size = es.size /\ new.phdr = es.phdr /\ new.shdr = es.shdr
  /\ \A j \in 1 .. Len(es.arr) : new.arr[j].tag = es.arr[j].tag

(* An entry is assigned a value.                                           *)
LEMMA ValueAssigned ==
  ASSUME NEW es \in Entries, NEW i \in 1 .. Len(es.arr), NEW v \in U64
  PROVE  LET new == [es EXCEPT !.arr[i].val = v] IN
         /\ SameTags(es, new)
         /\ new.arr[i].val = v
         /\ \A j \in 1 .. Len(es.arr) : j # i => new.arr[j] = es.arr[j]
<1> DEFINE new == [es EXCEPT !.arr[i].val = v]
           d == [es.arr[i] EXCEPT !.val = v]
           a == [es.arr EXCEPT ![i] = d]
<1>1. es.arr \in Seq(Dyn) /\ es.size \in U64 /\ es.phdr \in Nat /\ es.shdr \in Nat BY DEF Entries
<1>2. es.arr[i] \in Dyn BY <1>1
<1>3. d \in Dyn /\ d.tag = es.arr[i].tag /\ d.val = v BY <1>2 DEF Dyn
<1>4. new = [arr |-> a, size |-> es.size, phdr |-> es.phdr, shdr |-> es.shdr]
  <2>1. new = [es EXCEPT !.arr = a] BY <1>1, <1>2 DEF Entries
  <2> HIDE DEF new, a
  <2> QED BY <2>1 DEF Entries
<1> HIDE DEF d, new
<1>5. a \in Seq(Dyn) /\ Len(a) = Len(es.arr) /\ a[i] = d
      /\ \A j \in 1 .. Len(es.arr) : j # i => a[j] = es.arr[j]
  BY <1>1, <1>3, Replaced
<1> HIDE DEF a
<1>6. new \in Entries /\ new.arr = a /\ new.size = es.size /\ new.phdr = es.phdr
      /\ new.shdr = es.shdr
  BY <1>1, <1>4, <1>5 DEF Entries
<1>7. SameTags(es, new) BY <1>3, <1>5, <1>6 DEF SameTags
<1> QED BY <1>3, <1>5, <1>6, <1>7 DEF new

(* Entries of the same tags keep what is needed of them.                   *)
LEMMA SameTagsKeep ==
  ASSUME Whole, NEW new, SameTags(entries, new)
  PROVE  /\ new \in Entries /\ new.size = entries.size /\ new.size = Len(new.arr) * DynEnt
         /\ new.phdr = entries.phdr /\ new.shdr = entries.shdr
         /\ symtab.nsyms # 0 => symtab.dyn \in DynIndices(new.arr, "OTHER")
<1>1. entries.size = Len(entries.arr) * DynEnt BY DEF Whole, Sizes
<1>2. symtab.nsyms # 0 => symtab.dyn \in DynIndices(entries.arr, "OTHER")
  BY DEF Whole, Linked
<1> QED BY <1>1, <1>2 DEF SameTags, DynIndices

(* update_dynstr_range.                                                    *)
LEMMA UpdateDynstrRangeKeeps ==
  ASSUME Whole, NEW addr \in U64, NEW len \in U64, UpdateDynstrRange(addr, len)
  PROVE  Whole'
<1> USE MemberTypes
<1> DEFINE at == DynstrAt(addr, len)
           a == DynIndex(entries.arr, "STRTAB")
           b == DynIndex(entries.arr, "STRSZ")
           mid == [entries EXCEPT !.arr[a].val = addr]
           new == [mid EXCEPT !.arr[b].val = len]
           sec == StrtabSection(at.val, addr, len)
<1>1. a \in 1 .. Len(entries.arr) /\ b \in 1 .. Len(entries.arr) /\ entries \in Entries
  BY DynIndexProperty DEF UpdateDynstrRange, Whole, Members
<1>2. at.val \in U64
  BY Naturals64, OffFromVaddrProperty DEF UpdateDynstrRange, DynstrAt
<1>3. /\ entries' = new
      /\ strtab' = [strtab EXCEPT !.vaddr = addr, !.off = at.val, !.size = len]
      /\ shdrs' = sec
      /\ dirty' = dirty \cup {"dyn"} \cup DirtySection(strtab.shdr)
      /\ UNCHANGED <<ehdr, phdrs, shstrndx, symtab, size>>
  BY DEF UpdateDynstrRange
<1> HIDE DEF a, b, at
<1>4. SameTags(entries, mid) BY <1>1, ValueAssigned
<1> HIDE DEF mid
<1>5. mid \in Entries /\ b \in 1 .. Len(mid.arr) BY <1>1, <1>4 DEF SameTags
<1>6. SameTags(mid, new) BY <1>5, ValueAssigned
<1> HIDE DEF new
<1>7. SameTags(entries, new) BY <1>4, <1>6 DEF SameTags
<1>8. /\ new \in Entries /\ new.size = entries.size /\ new.size = Len(new.arr) * DynEnt
      /\ new.phdr = entries.phdr /\ new.shdr = entries.shdr
      /\ symtab.nsyms # 0 => symtab.dyn \in DynIndices(new.arr, "OTHER")
  BY <1>7, SameTagsKeep
<1>9. strtab' \in Strtab /\ strtab'.shdr = strtab.shdr
  BY <1>2, <1>3 DEF Whole, Members, Strtab
<1>10. Alike(shdrs, sec, strtab.shdr)
  BY <1>2, StrtabSectionFields DEF Whole, Members
<1> HIDE DEF sec
<1>11. SectionsGood(sec) /\ sec.size = shdrs.size /\ (sec.arr # <<>> <=> shdrs.arr # <<>>)
  BY <1>10, AlikeKeeps
<1>12. DynamicPhdr' = DynamicPhdr BY <1>3, <1>8 DEF DynamicPhdr
<1>13. Members' BY <1>3, <1>8, <1>9, <1>11 DEF Whole, Members, DirtySection, SectionsGood
<1>14. Sizes' BY <1>3, <1>8, <1>11 DEF Whole, Sizes, SectionsGood
<1>15. Linked' BY <1>3, <1>8, <1>9, <1>11 DEF Whole, Linked, SectionsGood
<1>16. "shdrs" \in dirty' => sec.arr # <<>>
  <2>1. strtab.shdr # 0 => shdrs.arr # <<>> BY NonEmpty
  <2>2. "shdrs" \in dirty => shdrs.arr # <<>> BY DEF Whole, InFile
  <2> QED BY <1>3, <1>11, <2>1, <2>2 DEF DirtySection
<1>17. InFile' BY <1>3, <1>8, <1>11, <1>12, <1>16 DEF Whole, InFile
<1> QED BY <1>13, <1>14, <1>15, <1>17 DEF Whole

(* What update_dyn_tbl_num makes of the entries, ...                       *)
NewEntries(n, k) == [entries EXCEPT !.arr = Resized(entries.arr, n, ZeroDyn), !.size = k]
(* ... and of their header.                                                *)
NewDynamic(k) == [phdrs EXCEPT !.arr = Sized(phdrs.arr, entries.phdr, k)]

(* The entry of the symbol table is not dropped.                           *)
LEMMA DynNumEntries ==
  ASSUME Whole, NEW n \in U64, Dispensable(entries.arr, n, ZeroDyn), NEW k \in U64
  PROVE  LET new == NewEntries(n, k) IN
         /\ new \in Entries /\ Len(new.arr) = n /\ new.size = k
         /\ new.phdr = entries.phdr /\ new.shdr = entries.shdr
         /\ \A j \in 1 .. Len(entries.arr) : entries.arr[j].tag # "NULL" =>
              j \in 1 .. n /\ new.arr[j] = entries.arr[j]
         /\ \A j \in 1 .. n : new.arr[j].tag # "NULL" => j \in 1 .. Len(entries.arr)
         /\ symtab.nsyms # 0 => symtab.dyn \in DynIndices(new.arr, "OTHER")
<1> DEFINE old == entries.arr
           arr == Resized(old, n, ZeroDyn)
           new == [entries EXCEPT !.arr = arr, !.size = k]
<1>1. old \in Seq(Dyn) /\ n \in Nat /\ ZeroDyn \in Dyn
  BY MemberTypes, ZeroStructures, Naturals64
<1>2. \A j \in 1 .. Len(old) : old[j].tag # "NULL" => j \in 1 .. n
  BY <1>1 DEF Dispensable, ZeroDyn
<1>3. symtab.nsyms # 0 => symtab.dyn \in 1 .. Len(old) /\ old[symtab.dyn].tag = "OTHER"
  BY DEF Whole, Linked, DynIndices
<1> HIDE DEF old
<1>4. arr \in Seq(Dyn) /\ Len(arr) = n
      /\ \A j \in 1 .. n : arr[j] = IF j <= Len(old) THEN old[j] ELSE ZeroDyn
  <2>1. arr \in [1 .. n -> Dyn] BY <1>1 DEF Resized
  <2>2. arr \in Seq(Dyn) /\ Len(arr) = n BY <1>1, <2>1, FunctionIsSequence
  <2> QED BY <2>2 DEF Resized
<1> HIDE DEF arr
<1>5. new \in Entries /\ new.arr = arr /\ new.size = k /\ new.phdr = entries.phdr
      /\ new.shdr = entries.shdr
  BY <1>4 DEF Whole, Members, Entries
<1> HIDE DEF new
<1>6. ASSUME NEW j \in 1 .. Len(old), old[j].tag # "NULL"
      PROVE  j \in 1 .. n /\ arr[j] = old[j]
  BY <1>1, <1>2, <1>4, <1>6
<1>7. symtab.nsyms # 0 => symtab.dyn \in DynIndices(arr, "OTHER")
  BY <1>3, <1>4, <1>6 DEF DynIndices
<1>8. ASSUME NEW j \in 1 .. n, arr[j].tag # "NULL" PROVE j \in 1 .. Len(old)
  <2>1. ZeroDyn.tag = "NULL" BY DEF ZeroDyn
  <2>2. j <= Len(old) BY <1>1, <1>4, <1>8, <2>1
  <2> QED BY <1>1, <2>2
<1> QED BY <1>4, <1>5, <1>6, <1>7, <1>8 DEF new, arr, old, NewEntries

(* The headers, with that of the dynamic entries resized.                  *)
LEMMA DynNumHeaders ==
  ASSUME Whole, NEW k \in U64
  PROVE  LET new == NewDynamic(k) IN
         /\ new \in PhdrTable /\ new.size = phdrs.size /\ Len(new.arr) = Len(phdrs.arr)
         /\ \A j \in 1 .. Len(phdrs.arr) : j # entries.phdr => new.arr[j] = phdrs.arr[j]
         /\ Kin(phdrs.arr, new.arr)
         /\ new.arr[entries.phdr].offset = DynamicPhdr.offset
         /\ new.arr[entries.phdr].vaddr = DynamicPhdr.vaddr
         /\ new.arr[entries.phdr].filesz = k /\ new.arr[entries.phdr].memsz = k
<1> USE MemberTypes
<1> DEFINE i == entries.phdr
           a == Sized(phdrs.arr, i, k)
           new == [phdrs EXCEPT !.arr = a]
<1>1. i \in 1 .. Len(phdrs.arr) /\ i \in 0 .. Len(phdrs.arr) /\ i # 0
      /\ phdrs.arr \in Seq(Phdr) /\ phdrs.arr[i].type = "DYNAMIC"
  OBVIOUS
<1> HIDE DEF i
<1>2. /\ a \in Seq(Phdr) /\ Len(a) = Len(phdrs.arr)
      /\ \A j \in 1 .. Len(phdrs.arr) :
           /\ j # i => a[j] = phdrs.arr[j]
           /\ a[j].type = phdrs.arr[j].type /\ a[j].offset = phdrs.arr[j].offset
           /\ a[j].vaddr = phdrs.arr[j].vaddr
      /\ i # 0 => a[i].filesz = k /\ a[i].memsz = k
  BY <1>1, SizedHeaders
<1> HIDE DEF a
<1>3. Kin(phdrs.arr, a)
  <2>1. a[i].type = phdrs.arr[i].type /\ phdrs.arr[i].type # "LOAD"
    BY <1>1, <1>2
  <2>2. \A j \in 1 .. Len(phdrs.arr) : j # i => a[j] = phdrs.arr[j] BY <1>2
  <2> QED BY <1>1, <1>2, <2>1, <2>2 DEF Kin
<1>4. new \in PhdrTable /\ new.arr = a /\ new.size = phdrs.size
  BY <1>2 DEF Whole, Members, PhdrTable
<1> QED BY <1>1, <1>2, <1>3, <1>4 DEF a, i, DynamicPhdr, NewDynamic

(* update_dyn_tbl_num.                                                     *)
LEMMA UpdateDynTblNumKeeps ==
  ASSUME Whole, NEW n \in U64, UpdateDynTblNum(n)
  PROVE  Whole'
<1> USE MemberTypes
<1> DEFINE k == n * DynEnt
           es == NewEntries(n, k)
           new == NewDynamic(k)
           sec == SectionSize(entries.shdr, k)
<1>1. k \in U64 /\ InBounds(DynamicPhdr.offset, k, size)
  <2>1. ResizeTableOk(phdrs.arr, size, DynamicPhdr.offset, DynEnt, Len(entries.arr), n, TRUE)
    BY DEF UpdateDynTblNum, DynNumFits
  <2> QED BY <2>1, ResizeTableProperty, SizeAssumption, Naturals64
<1>2. Dispensable(entries.arr, n, ZeroDyn) BY DEF UpdateDynTblNum
<1>3. /\ entries' = es /\ phdrs' = new /\ shdrs' = sec
      /\ dirty' = dirty \cup {"phdrs"} \cup DirtySection(entries.shdr)
      /\ UNCHANGED <<ehdr, shstrndx, strtab, symtab, size>>
  BY DEF UpdateDynTblNum, NewEntries, NewDynamic
<1> HIDE DEF k
<1>4. Alike(shdrs, sec, entries.shdr)
  BY <1>1, SectionSizeFields DEF Whole, Members
<1> HIDE DEF sec
<1>5. SectionsGood(sec) /\ sec.size = shdrs.size /\ (sec.arr # <<>> <=> shdrs.arr # <<>>)
  BY <1>4, AlikeKeeps
<1>6. /\ es \in Entries /\ Len(es.arr) = n /\ es.size = k
      /\ es.phdr = entries.phdr /\ es.shdr = entries.shdr
      /\ symtab.nsyms # 0 => symtab.dyn \in DynIndices(es.arr, "OTHER")
  BY <1>1, <1>2, DynNumEntries
<1>7. /\ new \in PhdrTable /\ new.size = phdrs.size /\ Len(new.arr) = Len(phdrs.arr)
      /\ Kin(phdrs.arr, new.arr)
      /\ new.arr[entries.phdr].offset = DynamicPhdr.offset
  BY <1>1, DynNumHeaders
<1> HIDE DEF es, new
<1>8. entries.phdr \in IndicesOf(new.arr, "DYNAMIC") BY <1>7, KinGood
<1>9. DynamicPhdr'.offset = DynamicPhdr.offset
  <2>1. phdrs'.arr[entries'.phdr].offset = DynamicPhdr.offset BY <1>3, <1>6, <1>7
  <2> QED BY <2>1 DEF DynamicPhdr
<1>10. Members' BY <1>3, <1>5, <1>6, <1>7 DEF Whole, Members, DirtySection, SectionsGood
<1>11. Sizes' BY <1>3, <1>5, <1>6, <1>7 DEF Whole, Sizes, SectionsGood, k
<1>12. Linked' BY <1>3, <1>5, <1>6, <1>8 DEF Whole, Linked, SectionsGood
<1>13. "shdrs" \in dirty' => sec.arr # <<>>
  <2>1. entries.shdr # 0 => shdrs.arr # <<>> BY NonEmpty
  <2>2. "shdrs" \in dirty => shdrs.arr # <<>> BY DEF Whole, InFile
  <2> QED BY <1>3, <1>5, <2>1, <2>2 DEF DirtySection
<1>14. Roomy(phdrs'.arr, DynamicPhdr'.offset, entries'.size, size')
  BY <1>1, <1>3, <1>6, <1>9 DEF Roomy
<1>15. InFile' BY <1>3, <1>5, <1>7, <1>13, <1>14 DEF Whole, InFile
<1> QED BY <1>10, <1>11, <1>12, <1>15 DEF Whole

(* update_dyn_tbl_off gives PT_DYNAMIC a place in some segment.            *)
MovedDynamic(off, va) ==
  [phdrs EXCEPT !.arr[entries.phdr].offset = off, !.arr[entries.phdr].vaddr = va]

(* It changes that header only.                                            *)
LEMMA DynOffHeaders ==
  ASSUME Whole, NEW off \in U64, NEW va \in U64
  PROVE  LET new == MovedDynamic(off, va) IN
         /\ new \in PhdrTable /\ new.size = phdrs.size /\ Len(new.arr) = Len(phdrs.arr)
         /\ \A j \in 1 .. Len(phdrs.arr) : j # entries.phdr => new.arr[j] = phdrs.arr[j]
         /\ Kin(phdrs.arr, new.arr)
         /\ new.arr[entries.phdr].offset = off /\ new.arr[entries.phdr].vaddr = va
         /\ new.arr[entries.phdr].filesz = DynamicPhdr.filesz
         /\ new.arr[entries.phdr].memsz = DynamicPhdr.memsz
<1> DEFINE i == entries.phdr
           v == [phdrs.arr[i] EXCEPT !.offset = off, !.vaddr = va]
           a == [phdrs.arr EXCEPT ![i] = v]
           new == MovedDynamic(off, va)
<1>1. i \in 1 .. Len(phdrs.arr) /\ phdrs.arr \in Seq(Phdr) /\ phdrs.arr[i] \in Phdr
      /\ phdrs.arr[i].type = "DYNAMIC" /\ phdrs \in PhdrTable
  BY MemberTypes DEF Whole, Members
<1>2. /\ v \in Phdr /\ v.type = phdrs.arr[i].type /\ v.offset = off /\ v.vaddr = va
      /\ v.filesz = phdrs.arr[i].filesz /\ v.memsz = phdrs.arr[i].memsz
  BY <1>1 DEF Phdr
<1>3. new = [arr |-> a, size |-> phdrs.size]
  <2> DEFINE v1 == [phdrs.arr[i] EXCEPT !.offset = off]
             a1 == [phdrs.arr EXCEPT ![i] = v1]
             t1 == [phdrs EXCEPT !.arr[i].offset = off]
  <2>1. v1 \in Phdr /\ [v1 EXCEPT !.vaddr = va] = v BY <1>1 DEF Phdr
  <2>2. t1 = [arr |-> a1, size |-> phdrs.size] BY <1>1, SMTT(30) DEF PhdrTable
  <2>3. new = [t1 EXCEPT !.arr[i].vaddr = va] BY DEF MovedDynamic
  <2> HIDE DEF t1, new, v1, v
  <2>4. a1 \in Seq(Phdr) /\ Len(a1) = Len(phdrs.arr) /\ a1[i] = v1 BY <1>1, <2>1, Replaced
  <2>5. [a1 EXCEPT ![i] = v] = a BY <1>1
  <2> HIDE DEF a1, a
  <2>6. new = [arr |-> [a1 EXCEPT ![i] = [a1[i] EXCEPT !.vaddr = va]], size |-> phdrs.size]
    BY <1>1, <2>2, <2>3, <2>4
  <2> QED BY <2>1, <2>4, <2>5, <2>6
<1> HIDE DEF v, i, new
<1>4. a \in Seq(Phdr) /\ Len(a) = Len(phdrs.arr) /\ a[i] = v
      /\ \A j \in 1 .. Len(phdrs.arr) : j # i => a[j] = phdrs.arr[j]
  BY <1>1, <1>2, Replaced
<1> HIDE DEF a
<1>5. Kin(phdrs.arr, a)
  <2>1. a[i].type = phdrs.arr[i].type /\ phdrs.arr[i].type # "LOAD"
    BY <1>1, <1>2, <1>4
  <2>2. \A j \in 1 .. Len(phdrs.arr) : j # i => a[j] = phdrs.arr[j] BY <1>4
  <2> QED BY <1>1, <1>4, <2>1, <2>2 DEF Kin
<1>6. new \in PhdrTable /\ new.arr = a /\ new.size = phdrs.size
  BY <1>1, <1>3, <1>4 DEF PhdrTable
<1> QED BY <1>2, <1>4, <1>5, <1>6 DEF new, i, DynamicPhdr

(* update_dyn_tbl_off.                                                     *)
LEMMA UpdateDynTblOffKeeps ==
  ASSUME Whole, NEW off \in U64, UpdateDynTblOff(off)
  PROVE  Whole'
<1> USE MemberTypes
<1> DEFINE at == VaddrFromOff(phdrs.arr, off, entries.size)
           va == at.val
           new == MovedDynamic(off, va)
           sec == Section(entries.shdr, off, va)
<1>1. off \in Nat /\ entries.size \in Nat /\ size \in Nat /\ phdrs.arr \in Seq(Phdr)
  BY Naturals64
<1>2. at.ok BY DEF UpdateDynTblOff
<1>3. va \in U64 BY <1>1, VaddrFromOffProperty
<1>4. LoadContains(phdrs.arr, off, entries.size) BY <1>1, <1>2, MappedInLoad
<1>5. /\ phdrs' = new /\ shdrs' = sec
      /\ dirty' = dirty \cup {"phdrs"} \cup DirtySection(entries.shdr)
      /\ UNCHANGED <<ehdr, shstrndx, entries, strtab, symtab, size>>
  BY DEF UpdateDynTblOff, MovedDynamic
<1> HIDE DEF va, at
<1>6. Alike(shdrs, sec, entries.shdr) BY <1>3, SectionFields DEF Whole, Members
<1> HIDE DEF sec
<1>7. SectionsGood(sec) /\ sec.size = shdrs.size /\ (sec.arr # <<>> <=> shdrs.arr # <<>>)
  BY <1>6, AlikeKeeps
<1>8. /\ new \in PhdrTable /\ new.size = phdrs.size /\ Len(new.arr) = Len(phdrs.arr)
      /\ Kin(phdrs.arr, new.arr) /\ new.arr[entries.phdr].offset = off
  BY <1>3, DynOffHeaders
<1> HIDE DEF new
<1>9. /\ entries.phdr \in IndicesOf(new.arr, "DYNAMIC")
      /\ Roomy(new.arr, off, entries.size, size)
  BY <1>4, <1>8, KinGood DEF Roomy
<1>10. DynamicPhdr'.offset = off
  <2>1. phdrs'.arr[entries'.phdr].offset = off BY <1>5, <1>8
  <2> QED BY <2>1 DEF DynamicPhdr
<1>11. Members' BY <1>5, <1>7, <1>8 DEF Whole, Members, DirtySection, SectionsGood
<1>12. Sizes' BY <1>5, <1>7, <1>8 DEF Whole, Sizes, SectionsGood
<1>13. Linked' BY <1>5, <1>7, <1>9 DEF Whole, Linked, SectionsGood
<1>14. "shdrs" \in dirty' => sec.arr # <<>>
  <2>1. entries.shdr # 0 => shdrs.arr # <<>> BY NonEmpty
  <2>2. "shdrs" \in dirty => shdrs.arr # <<>> BY DEF Whole, InFile
  <2> QED BY <1>5, <1>7, <2>1, <2>2 DEF DirtySection
<1>15. InFile' BY <1>5, <1>7, <1>8, <1>9, <1>10, <1>14 DEF Whole, InFile
<1> QED BY <1>11, <1>12, <1>13, <1>15 DEF Whole

(* update_dyn_sym_count.                                                   *)
LEMMA UpdateDynSymCountKeeps ==
  ASSUME Whole, NEW n \in U64, UpdateDynSymCount(n)
  PROVE  Whole'
<1> USE MemberTypes
<1> DEFINE k == n * SymEnt
           sec == SectionSize(symtab.shdr, k)
<1>1. symtab.off \in U64 /\ symtab.nsyms # 0 /\ symtab \in Symtab
  BY DEF UpdateDynSymCount, Whole, Members, Symtab
<1>2. k \in U64
  <2>1. ResizeTableOk(phdrs.arr, size, symtab.off, SymEnt, symtab.nsyms, n, TRUE)
    BY DEF UpdateDynSymCount
  <2> QED BY <1>1, <2>1, ResizeTableProperty, ClientAssumption, Naturals64
<1>3. /\ symtab' = [symtab EXCEPT !.nsyms = n, !.size = k] /\ shdrs' = sec
      /\ dirty' = dirty \cup DirtySection(symtab.shdr)
      /\ UNCHANGED <<ehdr, phdrs, shstrndx, entries, strtab, size>>
  BY DEF UpdateDynSymCount
<1> HIDE DEF k
<1>4. symtab' \in Symtab /\ symtab'.shdr = symtab.shdr /\ symtab'.dyn = symtab.dyn
  BY <1>1, <1>2, <1>3 DEF Symtab
<1>5. Alike(shdrs, sec, symtab.shdr) BY <1>2, SectionSizeFields DEF Whole, Members
<1> HIDE DEF sec
<1>6. SectionsGood(sec) /\ sec.size = shdrs.size /\ (sec.arr # <<>> <=> shdrs.arr # <<>>)
  BY <1>5, AlikeKeeps
<1>7. DynamicPhdr' = DynamicPhdr BY <1>3 DEF DynamicPhdr
<1>8. Members' BY <1>3, <1>4, <1>6 DEF Whole, Members, DirtySection, SectionsGood
<1>9. Sizes' BY <1>3, <1>6 DEF Whole, Sizes, SectionsGood
<1>10. Linked' BY <1>1, <1>3, <1>4, <1>6 DEF Whole, Linked, SectionsGood
<1>11. "shdrs" \in dirty' => sec.arr # <<>>
  <2>1. symtab.shdr # 0 => shdrs.arr # <<>> BY NonEmpty
  <2>2. "shdrs" \in dirty => shdrs.arr # <<>> BY DEF Whole, InFile
  <2> QED BY <1>3, <1>6, <2>1, <2>2 DEF DirtySection
<1>12. InFile' BY <1>3, <1>6, <1>7, <1>11 DEF Whole, InFile
<1> QED BY <1>8, <1>9, <1>10, <1>12 DEF Whole

(* update_dyn_symtab_off.                                                  *)
LEMMA UpdateDynSymtabOffKeeps ==
  ASSUME Whole, NEW off \in U64, UpdateDynSymtabOff(off)
  PROVE  Whole'
<1> USE MemberTypes
<1> DEFINE va == VaddrFromOff(phdrs.arr, off, entries.size).val
           es == [entries EXCEPT !.arr[symtab.dyn].val = va]
           sec == Section(symtab.shdr, off, va)
<1>1. off \in Nat /\ entries.size \in Nat /\ phdrs.arr \in Seq(Phdr) BY Naturals64
<1>2. va \in U64 BY <1>1, VaddrFromOffProperty
<1>3. /\ entries' = es /\ symtab' = [symtab EXCEPT !.off = off, !.vaddr = va] /\ shdrs' = sec
      /\ dirty' = dirty \cup {"dyn"} \cup DirtySection(symtab.shdr)
      /\ UNCHANGED <<ehdr, phdrs, shstrndx, strtab, size>>
  BY DEF UpdateDynSymtabOff
<1>4. symtab.nsyms # 0 /\ symtab \in Symtab /\ entries \in Entries
  BY DEF UpdateDynSymtabOff, Whole, Members
<1>5. symtab.dyn \in 1 .. Len(entries.arr) BY <1>4 DEF Whole, Linked, DynIndices
<1> HIDE DEF va
<1>6. SameTags(entries, es) BY <1>2, <1>4, <1>5, ValueAssigned
<1> HIDE DEF es
<1>7. /\ es \in Entries /\ es.size = entries.size /\ es.size = Len(es.arr) * DynEnt
      /\ es.phdr = entries.phdr /\ es.shdr = entries.shdr
      /\ symtab.nsyms # 0 => symtab.dyn \in DynIndices(es.arr, "OTHER")
  BY <1>6, SameTagsKeep
<1>8. symtab' \in Symtab /\ symtab'.shdr = symtab.shdr /\ symtab'.dyn = symtab.dyn
      /\ symtab'.nsyms = symtab.nsyms
  BY <1>2, <1>3, <1>4 DEF Symtab
<1>9. Alike(shdrs, sec, symtab.shdr) BY <1>2, SectionFields DEF Whole, Members
<1> HIDE DEF sec
<1>10. SectionsGood(sec) /\ sec.size = shdrs.size /\ (sec.arr # <<>> <=> shdrs.arr # <<>>)
  BY <1>9, AlikeKeeps
<1>11. DynamicPhdr' = DynamicPhdr BY <1>3, <1>7 DEF DynamicPhdr
<1>12. Members' BY <1>3, <1>7, <1>8, <1>10 DEF Whole, Members, DirtySection, SectionsGood
<1>13. Sizes' BY <1>3, <1>7, <1>10 DEF Whole, Sizes, SectionsGood
<1>14. Linked' BY <1>3, <1>7, <1>8, <1>10 DEF Whole, Linked, SectionsGood
<1>15. "shdrs" \in dirty' => sec.arr # <<>>
  <2>1. symtab.shdr # 0 => shdrs.arr # <<>> BY NonEmpty
  <2>2. "shdrs" \in dirty => shdrs.arr # <<>> BY DEF Whole, InFile
  <2> QED BY <1>3, <1>10, <2>1, <2>2 DEF DirtySection
<1>16. InFile' BY <1>3, <1>7, <1>10, <1>11, <1>15 DEF Whole, InFile
<1> QED BY <1>12, <1>13, <1>14, <1>16 DEF Whole

(* The client makes room.                                                  *)
LEMMA GrowDataKeeps ==
  ASSUME Whole, GrowData
  PROVE  Whole'
<1> USE MemberTypes
<1>1. size' \in U64 /\ size' \in Nat /\ size \in Nat /\ size < size'
      /\ UNCHANGED <<ehdr, phdrs, shdrs, shstrndx, entries, strtab, symtab, dirty>>
  BY Naturals64, ClientAssumption DEF GrowData
<1>2. DynamicPhdr' = DynamicPhdr BY <1>1 DEF DynamicPhdr
<1>3. ehdr.phoff \in Nat /\ ehdr.shoff \in Nat /\ DynamicPhdr.offset \in Nat
      /\ phdrs.size \in Nat /\ shdrs.size \in Nat /\ entries.size \in Nat
  BY Naturals64
<1> HIDE MemberTypes
<1>4. InBounds(ehdr.phoff, phdrs.size, size') BY <1>1, <1>3, InBoundsOfMore DEF Whole, InFile
<1>5. shdrs.arr # <<>> => InBounds(ehdr.shoff, shdrs.size, size')
  BY <1>1, <1>3, InBoundsOfMore DEF Whole, InFile
<1>6. Roomy(phdrs.arr, DynamicPhdr.offset, entries.size, size')
  BY <1>1, <1>3, InBoundsOfMore DEF Whole, InFile, Roomy
<1>7. Members' /\ Sizes' /\ Linked' BY <1>1 DEF Whole, Members, Sizes, Linked
<1>8. InFile' BY <1>1, <1>2, <1>4, <1>5, <1>6 DEF Whole, InFile
<1> QED BY <1>7, <1>8 DEF Whole

-----------------------------------------------------------------------------
(* The invariant                                                           *)

(* The parser delivers it.                                                 *)
LEMMA InitFileInv == ASSUME Init PROVE FileInv
<1>1. PICK p \in Parsed :
        /\ ehdr = p.ehdr /\ phdrs = p.phdrs /\ shdrs = p.shdrs /\ shstrndx = p.shstrndx
        /\ entries = p.entries /\ strtab = p.strtab /\ symtab = p.symtab /\ size = p.size
  BY DEF Init
<1>2. IsParsed(p) BY ParsedAssumption
<1>3. pc = "ready" /\ dirty = {} /\ stale = {} /\ calls = 0 BY DEF Init
<1>4. /\ p.ehdr \in EhdrMembers /\ p.phdrs \in PhdrTable /\ p.shdrs \in ShdrTable
      /\ p.shstrndx \in U64 /\ p.entries \in Entries /\ p.strtab \in Strtab
      /\ p.symtab \in Symtab /\ p.size \in U64
  <2>1. p \in ElfStruct BY <1>2 DEF IsParsed
  <2> QED BY <2>1
          DEF ElfStruct, EhdrMembers, PhdrTable, ShdrTable, Entries, Strtab, Symtab
<1>5. Members BY <1>1, <1>3, <1>4 DEF Members
<1>6. Sizes BY <1>1, <1>2 DEF Sizes, IsParsed
<1>7. Linked BY <1>1, <1>2 DEF Linked, IsParsed, SectionOf
<1>8. InFile BY <1>1, <1>2, <1>3 DEF InFile, IsParsed, DynamicPhdr, Roomy
<1>9. Whole BY <1>5, <1>6, <1>7, <1>8 DEF Whole
<1>10. /\ {entries.shdr, strtab.shdr, symtab.shdr} \subseteq 0 .. Len(shdrs.arr)
       /\ symtab.nsyms # 0 => symtab.dyn \in 1 .. Len(entries.arr)
  BY <1>9, MemberTypes DEF Whole, Linked, DynIndices
<1>11. 0 \in 0 .. MaxCalls BY ClientAssumption
<1>12. [ehdr |-> ehdr, phdrs |-> phdrs, shdrs |-> shdrs, shstrndx |-> shstrndx,
        entries |-> entries, strtab |-> strtab, symtab |-> symtab, size |-> size] \in ElfStruct
  BY <1>5, StructMembers DEF Members
<1>13. TypeOK
  BY <1>3, <1>6, <1>7, <1>10, <1>11, <1>12 DEF TypeOK, Sizes, Linked
<1> QED BY <1>9, <1>13 DEF FileInv

(* Every update that succeeds keeps it, ...                                *)
LEMMA UpdateKeeps ==
  ASSUME Whole, Update
  PROVE  Whole'
<1>1. Counts \subseteq U64 /\ Offsets \subseteq U64 /\ Indices \subseteq U64
      /\ \A s \in Segments : s \in Phdr /\ s.type = "LOAD"
  BY ClientAssumption
<1>2. CASE \E n \in Counts : UpdatePhnum(n) BY <1>1, <1>2, UpdatePhnumKeeps
<1>3. CASE \E n \in Counts : UpdateDynTblNum(n) BY <1>1, <1>3, UpdateDynTblNumKeeps
<1>4. CASE \E n \in Counts : UpdateDynSymCount(n) BY <1>1, <1>4, UpdateDynSymCountKeeps
<1>5. CASE \E off \in Offsets : UpdatePhoff(off) BY <1>1, <1>5, UpdatePhoffKeeps
<1>6. CASE \E off \in Offsets : UpdateDynTblOff(off) BY <1>1, <1>6, UpdateDynTblOffKeeps
<1>7. CASE \E off \in Offsets : UpdateDynSymtabOff(off) BY <1>1, <1>7, UpdateDynSymtabOffKeeps
<1>8. CASE \E addr \in Offsets, len \in Counts : UpdateDynstrRange(addr, len)
  BY <1>1, <1>8, UpdateDynstrRangeKeeps
<1>9. CASE shdrs.arr # <<>> /\ \E n \in Counts : UpdateShnum(n) BY <1>1, <1>9, UpdateShnumKeeps
<1>10. CASE shdrs.arr # <<>> /\ \E off \in Offsets : UpdateShoff(off)
  BY <1>1, <1>10, UpdateShoffKeeps
<1>11. CASE shdrs.arr # <<>> /\ \E i \in Indices : i < Len(shdrs.arr) /\ UpdateShstrndx(i)
  BY <1>1, <1>11, UpdateShstrndxKeeps
<1>12. CASE \E s \in Segments : FillPhdr(s) BY <1>1, <1>12, FillPhdrKeeps
<1>13. CASE GrowData BY <1>13, GrowDataKeeps
<1> QED
  BY <1>2, <1>3, <1>4, <1>5, <1>6, <1>7, <1>8, <1>9, <1>10, <1>11, <1>12, <1>13 DEF Update

(* ... and what makes a step of the invariant is the type of the rest.     *)
LEMMA WholeTyped ==
  ASSUME Whole', pc' \in {"ready", "failed"}, calls' \in 0 .. MaxCalls,
         stale' \subseteq {"ehdr", "phdrs", "shdrs", "dyn"}
  PROVE  FileInv'
<1>1. [ehdr |-> ehdr', phdrs |-> phdrs', shdrs |-> shdrs', shstrndx |-> shstrndx',
       entries |-> entries', strtab |-> strtab', symtab |-> symtab', size |-> size'] \in ElfStruct
  BY StructMembers DEF Whole, Members
<1>2. entries'.shdr \in Nat /\ strtab'.shdr \in Nat /\ symtab'.shdr \in Nat
      /\ shdrs'.arr \in Seq(Shdr)
  BY DEF Whole, Members, Entries, Strtab, Symtab, ShdrTable
<1>3. /\ {entries'.shdr, strtab'.shdr, symtab'.shdr} \subseteq 0 .. Len(shdrs'.arr)
      /\ symtab'.nsyms # 0 => symtab'.dyn \in 1 .. Len(entries'.arr)
  BY <1>2 DEF Whole, Linked, DynIndices
<1>4. dirty' \subseteq {"ehdr", "phdrs", "shdrs", "dyn"} BY DEF Whole, Members
<1>5. TypeOK' BY <1>1, <1>3, <1>4 DEF TypeOK, Whole, Sizes, Linked
<1> QED BY <1>5 DEF FileInv

(* A call that fails leaves the table of headers empty; serialize_elf      *)
(* changes the flags only.                                                 *)
LEMMA OthersKeep ==
  ASSUME FileInv, FailStep \/ SerializeStep
  PROVE  FileInv'
<1>1. pc = "ready" /\ Whole BY DEF FileInv, FailStep, SerializeStep
<1>2. calls \in 0 .. MaxCalls /\ stale \subseteq {"ehdr", "phdrs", "shdrs", "dyn"}
  BY DEF FileInv, TypeOK
<1>3. CASE FailStep
  <2>1. /\ pc' = "failed" /\ calls' = calls /\ stale' = stale
        /\ dirty' \subseteq dirty
        /\ UNCHANGED <<ehdr, shstrndx, entries, strtab, symtab, size>>
        /\ phdrs' = phdrs \/ phdrs' = [arr |-> <<>>, size |-> 0]
        /\ shdrs' = shdrs \/ shdrs' = [arr |-> <<>>, size |-> 0]
    BY <1>3 DEF FailStep, PhnumFails, ShnumFails
  <2>2. 0 \in U64 /\ PhEnt \in Nat /\ ShEnt \in Nat
    BY WidthAssumption, SizeAssumption DEF U64
  <2>3. phdrs' \in PhdrTable /\ phdrs'.size = Len(phdrs'.arr) * PhEnt
    <3>1. CASE phdrs' = phdrs BY <1>1, <3>1 DEF Whole, Members, Sizes
    <3>2. CASE phdrs' = [arr |-> <<>>, size |-> 0]
      <4>1. phdrs'.arr = <<>> /\ phdrs'.size = 0 /\ phdrs' \in PhdrTable BY <2>2, <3>2 DEF PhdrTable
      <4>2. Len(<<>>) * PhEnt = 0 BY <2>2
      <4> QED BY <4>1, <4>2
    <3> QED BY <2>1, <3>1, <3>2
  <2>4. shdrs' \in ShdrTable /\ shdrs'.size = Len(shdrs'.arr) * ShEnt
    <3>1. CASE shdrs' = shdrs BY <1>1, <3>1 DEF Whole, Members, Sizes
    <3>2. CASE shdrs' = [arr |-> <<>>, size |-> 0]
      <4>1. shdrs'.arr = <<>> /\ shdrs'.size = 0 /\ shdrs' \in ShdrTable BY <2>2, <3>2 DEF ShdrTable
      <4>2. Len(<<>>) * ShEnt = 0 BY <2>2
      <4> QED BY <4>1, <4>2
    <3> QED BY <2>1, <3>1, <3>2
  <2>5. [ehdr |-> ehdr', phdrs |-> phdrs', shdrs |-> shdrs', shstrndx |-> shstrndx',
         entries |-> entries', strtab |-> strtab', symtab |-> symtab', size |-> size']
          \in ElfStruct
    BY <1>1, <2>1, <2>3, <2>4, StructMembers DEF Whole, Members
  <2>6. entries'.size = Len(entries'.arr) * DynEnt /\ dirty \subseteq {"ehdr", "phdrs", "shdrs", "dyn"}
    BY <1>1, <2>1 DEF Whole, Sizes, Members
  <2>7. TypeOK' BY <1>2, <2>1, <2>3, <2>4, <2>5, <2>6 DEF TypeOK
  <2> QED BY <2>1, <2>7 DEF FileInv
<1>4. CASE SerializeStep
  <2>1. /\ pc' = pc /\ calls' = calls /\ dirty' \subseteq dirty /\ stale' \subseteq stale
        /\ UNCHANGED <<ehdr, phdrs, shdrs, shstrndx, entries, strtab, symtab, size>>
    BY <1>4 DEF SerializeStep, SerializeElf
  <2>2. DynamicPhdr' = DynamicPhdr BY <2>1 DEF DynamicPhdr
  <2>3. Whole' BY <1>1, <2>1, <2>2 DEF Whole, Members, Sizes, Linked, InFile
  <2> QED BY <1>1, <1>2, <2>1, <2>3, WholeTyped
<1> QED BY <1>3, <1>4

(* The invariant holds in every state.                                     *)
LEMMA FileInvHolds == Spec => []FileInv
<1>1. Init => FileInv BY InitFileInv
<1>2. FileInv /\ [Next]_vars => FileInv'
  <2> SUFFICES ASSUME FileInv, [Next]_vars PROVE FileInv' OBVIOUS
  <2>1. CASE UpdateStep
    <3>1. Whole /\ Update /\ calls \in 0 .. MaxCalls /\ stale \subseteq {"ehdr", "phdrs", "shdrs", "dyn"}
      BY <2>1 DEF FileInv, TypeOK, UpdateStep
    <3>2. Whole' BY <3>1, UpdateKeeps
    <3>3. pc = "ready" /\ calls < MaxCalls /\ calls' = calls + 1 BY <2>1 DEF UpdateStep
    <3>4. calls' \in 0 .. MaxCalls BY <3>1, <3>3, ClientAssumption
    <3>5. stale' \subseteq {"ehdr", "phdrs", "shdrs", "dyn"} BY <2>1, <3>1 DEF UpdateStep
    <3>6. pc' = pc
      BY <3>1 DEF Update, UpdatePhnum, UpdateDynTblNum, UpdateDynSymCount, UpdatePhoff,
                  UpdateDynTblOff, UpdateDynSymtabOff, UpdateDynstrRange, UpdateShnum,
                  UpdateShoff, UpdateShstrndx, FillPhdr, GrowData
    <3> QED BY <3>2, <3>3, <3>4, <3>5, <3>6, WholeTyped
  <2>2. CASE FailStep \/ SerializeStep BY <2>2, OthersKeep
  <2>3. CASE UNCHANGED vars
    <3>1. UNCHANGED <<pc, ehdr, phdrs, shdrs, shstrndx, entries, strtab, symtab, size,
                      dirty, stale, calls>>
      BY <2>3 DEF vars, elf
    <3>2. DynamicPhdr' = DynamicPhdr BY <3>1 DEF DynamicPhdr
    <3> QED BY <3>1, <3>2 DEF FileInv, TypeOK, Whole, Members, Sizes, Linked, InFile
  <2> QED BY <2>1, <2>2, <2>3 DEF Next
<1> QED BY <1>1, <1>2, PTL DEF Spec

(* Every array of the struct elf keeps the size next to it and every index *)
(* keeps leading to a header, section or entry, in whatever order and with *)
(* whatever counts and offsets a client calls the helpers.                 *)
THEOREM TypeCorrect == Spec => []TypeOK
<1>1. FileInv => TypeOK BY DEF FileInv
<1> QED BY <1>1, FileInvHolds, PTL

(* serialize_elf, called at any time, has room for the headers that are    *)
(* marked, and for the dynamic table too unless a segment reaches behind   *)
(* the data, which a client may have added to move the table there.        *)
THEOREM RoomForEveryTable == Spec => []SerializeSucceeds
<1>1. FileInv => SerializeSucceeds
  <2> SUFFICES ASSUME FileInv, pc = "ready"
               PROVE  /\ {"ehdr", "phdrs", "shdrs"} \subseteq Reached
                      /\ LoadsInFile(phdrs.arr, size) => "dyn" \in Reached
    BY DEF SerializeSucceeds
  <2>1. Whole /\ Sizes /\ InFile BY DEF FileInv, Whole
  <2>2. Fits("ehdr") BY DEF Fits
  <2>3. Fits("phdrs") BY <2>1 DEF Fits, Sizes, InFile
  <2>4. "shdrs" \in dirty => Fits("shdrs") BY <2>1 DEF Fits, Sizes, InFile
  <2>5. \A k \in 1 .. 3 : Order[k] \in dirty => Fits(Order[k])
    BY <2>2, <2>3, <2>4 DEF Order
  <2>6. 1 .. 3 \subseteq {k \in 1 .. 4 : \A j \in 1 .. k : Order[j] \in dirty => Fits(Order[j])}
    BY <2>5
  <2>7. {"ehdr", "phdrs", "shdrs"} \subseteq Reached
    <3>1. \A k \in 1 .. 3 : Order[k] \in Reached BY <2>6 DEF Reached
    <3> QED BY <3>1 DEF Order
  <2>8. ASSUME LoadsInFile(phdrs.arr, size) PROVE "dyn" \in Reached
    <3>1. InBounds(DynamicPhdr.offset, entries.size, size)
      BY <2>1, <2>8, RoomInFile, MemberTypes, Naturals64 DEF InFile
    <3>2. Fits("dyn") BY <2>1, <3>1 DEF Fits, Sizes
    <3>3. \A k \in 1 .. 4 : Order[k] \in dirty => Fits(Order[k])
      BY <2>2, <2>3, <2>4, <3>2 DEF Order
    <3>4. 4 \in {k \in 1 .. 4 : \A j \in 1 .. k : Order[j] \in dirty => Fits(Order[j])}
      BY <3>3
    <3> QED BY <3>4 DEF Reached, Order
  <2> QED BY <2>7, <2>8
<1> QED BY <1>1, FileInvHolds, PTL

(* What a helper changes, it marks.                                        *)
LEMMA ChangesMarked ==
  ASSUME Whole, Update
  PROVE  /\ dirty \subseteq dirty'
         /\ ehdr' # ehdr => "ehdr" \in dirty'
         /\ ehdr'.phoff # ehdr.phoff \/ phdrs'.arr # phdrs.arr => "phdrs" \in dirty'
         /\ ehdr'.shoff # ehdr.shoff \/ shdrs'.arr # shdrs.arr => "shdrs" \in dirty'
<1>1. ehdr \in EhdrMembers BY DEF Whole, Members
<1>2. CASE \E n \in Counts : UpdatePhnum(n)
  BY <1>1, <1>2 DEF UpdatePhnum, PhnumInSection, EhdrMembers
<1>3. CASE \E n \in Counts : UpdateDynTblNum(n)
  BY <1>3 DEF UpdateDynTblNum, SectionSize, DirtySection
<1>4. CASE \E n \in Counts : UpdateDynSymCount(n)
  BY <1>4 DEF UpdateDynSymCount, SectionSize, DirtySection
<1>5. CASE \E off \in Offsets : UpdatePhoff(off)
  BY <1>1, <1>5 DEF UpdatePhoff, EhdrMembers
<1>6. CASE \E off \in Offsets : UpdateDynTblOff(off)
  BY <1>6 DEF UpdateDynTblOff, Section, DirtySection
<1>7. CASE \E off \in Offsets : UpdateDynSymtabOff(off)
  BY <1>7 DEF UpdateDynSymtabOff, Section, DirtySection
<1>8. CASE \E addr \in Offsets, len \in Counts : UpdateDynstrRange(addr, len)
  BY <1>8 DEF UpdateDynstrRange, StrtabSection, DirtySection
<1>9. CASE \E n \in Counts : UpdateShnum(n)
  BY <1>1, <1>9 DEF UpdateShnum, EhdrMembers
<1>10. CASE \E off \in Offsets : UpdateShoff(off)
  BY <1>1, <1>10 DEF UpdateShoff, EhdrMembers
<1>11. CASE \E i \in Indices : UpdateShstrndx(i)
  BY <1>1, <1>11 DEF UpdateShstrndx, DirtyByShstrndx, EhdrMembers
<1>12. CASE \E s \in Segments : FillPhdr(s) BY <1>12 DEF FillPhdr
<1>13. CASE GrowData BY <1>13 DEF GrowData
<1> QED
  BY <1>2, <1>3, <1>4, <1>5, <1>6, <1>7, <1>8, <1>9, <1>10, <1>11, <1>12, <1>13 DEF Update

(* A header table that is not marked is in the file as it is in memory:    *)
(* the order of helpers and writes does not matter, nor does it when       *)
(* serialize_elf is told to leave the flags set.                           *)
THEOREM NothingForgotten == Spec => []CleanMeansWritten
<1>1. Init => CleanMeansWritten BY DEF Init, CleanMeansWritten
<1>2. FileInv /\ CleanMeansWritten /\ [Next]_vars => CleanMeansWritten'
  <2> SUFFICES ASSUME FileInv, CleanMeansWritten, [Next]_vars, pc' = "ready"
               PROVE  stale' \subseteq dirty' \cup {"dyn"}
    BY DEF CleanMeansWritten
  <2>1. CASE UpdateStep
    <3>1. Whole /\ Update /\ stale \subseteq dirty \cup {"dyn"}
      BY <2>1 DEF FileInv, UpdateStep, CleanMeansWritten
    <3>2. /\ dirty \subseteq dirty'
          /\ ehdr' # ehdr => "ehdr" \in dirty'
          /\ ehdr'.phoff # ehdr.phoff \/ phdrs'.arr # phdrs.arr => "phdrs" \in dirty'
          /\ ehdr'.shoff # ehdr.shoff \/ shdrs'.arr # shdrs.arr => "shdrs" \in dirty'
      BY <3>1, ChangesMarked
    <3>3. Shown("ehdr")' # Shown("ehdr") => "ehdr" \in dirty' BY <3>2 DEF Shown
    <3>4. Shown("phdrs")' # Shown("phdrs") => "phdrs" \in dirty' BY <3>2 DEF Shown
    <3>5. Shown("shdrs")' # Shown("shdrs") => "shdrs" \in dirty' BY <3>2 DEF Shown
    <3>6. stale' = stale \cup {s \in {"ehdr", "phdrs", "shdrs", "dyn"} : Shown(s)' # Shown(s)}
      BY <2>1 DEF UpdateStep
    <3> QED BY <3>1, <3>2, <3>3, <3>4, <3>5, <3>6
  <2>2. CASE SerializeStep
    BY <2>2 DEF SerializeStep, SerializeElf, CleanMeansWritten
  <2>3. CASE FailStep BY <2>3 DEF FailStep, PhnumFails, ShnumFails
  <2>4. CASE UNCHANGED vars BY <2>4 DEF vars, elf, CleanMeansWritten
  <2> QED BY <2>1, <2>2, <2>3, <2>4 DEF Next
<1> QED BY <1>1, <1>2, FileInvHolds, PTL DEF Spec

-----------------------------------------------------------------------------
(* Copies of one fact                                                      *)

(* The only section a step changes is i, which now names a range.          *)
SectionBecomes(i, off, addr, len) ==
  /\ Alike(shdrs, shdrs', i)
  /\ i # 0 => /\ shdrs'.arr[i].offset = off /\ shdrs'.arr[i].addr = addr
              /\ shdrs'.arr[i].size = len

(* An operation on a table changes that table's section, if it has one.    *)
LEMMA SectionEffects ==
  ASSUME Whole
  PROVE  /\ \A n \in U64 : UpdateDynTblNum(n) =>
              LET i == entries.shdr IN
              SectionBecomes(i, shdrs.arr[i].offset, shdrs.arr[i].addr, n * DynEnt)
         /\ \A off \in U64 : UpdateDynTblOff(off) =>
              LET i == entries.shdr
                  va == VaddrFromOff(phdrs.arr, off, entries.size).val
              IN  SectionBecomes(i, off, va, shdrs.arr[i].size)
         /\ \A n \in U64 : UpdateDynSymCount(n) =>
              LET i == symtab.shdr IN
              SectionBecomes(i, shdrs.arr[i].offset, shdrs.arr[i].addr, n * SymEnt)
         /\ \A off \in U64 : UpdateDynSymtabOff(off) =>
              LET i == symtab.shdr
                  va == VaddrFromOff(phdrs.arr, off, entries.size).val
              IN  SectionBecomes(i, off, va, shdrs.arr[i].size)
         /\ \A addr \in U64, len \in U64 : UpdateDynstrRange(addr, len) =>
              SectionBecomes(strtab.shdr, DynstrAt(addr, len).val, addr, len)
<1>1. /\ shdrs \in ShdrTable /\ symtab.off \in U64 /\ symtab.nsyms \in U64
      /\ entries.shdr \in 0 .. Len(shdrs.arr) /\ strtab.shdr \in 0 .. Len(shdrs.arr)
      /\ symtab.shdr \in 0 .. Len(shdrs.arr)
      /\ phdrs.arr \in Seq(Phdr) /\ entries.size \in Nat /\ size \in U64
      /\ DynamicPhdr.offset \in U64
  BY MemberTypes, Naturals64 DEF Whole, Members, Symtab
<1>2. ASSUME NEW n \in U64, UpdateDynTblNum(n)
      PROVE  SectionBecomes(entries.shdr, shdrs.arr[entries.shdr].offset,
                            shdrs.arr[entries.shdr].addr, n * DynEnt)
  <2>1. ResizeTableOk(phdrs.arr, size, DynamicPhdr.offset, DynEnt, Len(entries.arr), n, TRUE)
    BY <1>2 DEF UpdateDynTblNum, DynNumFits
  <2>2. n * DynEnt \in U64
    BY <1>1, <2>1, ResizeTableProperty, SizeAssumption, Naturals64
  <2>3. shdrs' = SectionSize(entries.shdr, n * DynEnt) BY <1>2 DEF UpdateDynTblNum
  <2> QED BY <1>1, <2>2, <2>3, SectionSizeFields DEF SectionBecomes
<1>3. ASSUME NEW off \in U64
      PROVE  VaddrFromOff(phdrs.arr, off, entries.size).val \in U64
  BY <1>1, Naturals64, VaddrFromOffProperty
<1>4. ASSUME NEW off \in U64, UpdateDynTblOff(off)
      PROVE  SectionBecomes(entries.shdr, off, VaddrFromOff(phdrs.arr, off, entries.size).val,
                            shdrs.arr[entries.shdr].size)
  <2>1. shdrs' = Section(entries.shdr, off, VaddrFromOff(phdrs.arr, off, entries.size).val)
    BY <1>4 DEF UpdateDynTblOff
  <2> QED BY <1>1, <1>3, <2>1, SectionFields DEF SectionBecomes
<1>5. ASSUME NEW n \in U64, UpdateDynSymCount(n)
      PROVE  SectionBecomes(symtab.shdr, shdrs.arr[symtab.shdr].offset,
                            shdrs.arr[symtab.shdr].addr, n * SymEnt)
  <2>1. ResizeTableOk(phdrs.arr, size, symtab.off, SymEnt, symtab.nsyms, n, TRUE)
    BY <1>5 DEF UpdateDynSymCount
  <2>2. n * SymEnt \in U64
    BY <1>1, <2>1, ResizeTableProperty, ClientAssumption, Naturals64
  <2>3. shdrs' = SectionSize(symtab.shdr, n * SymEnt) BY <1>5 DEF UpdateDynSymCount
  <2> QED BY <1>1, <2>2, <2>3, SectionSizeFields DEF SectionBecomes
<1>6. ASSUME NEW off \in U64, UpdateDynSymtabOff(off)
      PROVE  SectionBecomes(symtab.shdr, off, VaddrFromOff(phdrs.arr, off, entries.size).val,
                            shdrs.arr[symtab.shdr].size)
  <2>1. shdrs' = Section(symtab.shdr, off, VaddrFromOff(phdrs.arr, off, entries.size).val)
    BY <1>6 DEF UpdateDynSymtabOff
  <2> QED BY <1>1, <1>3, <2>1, SectionFields DEF SectionBecomes
<1>7. ASSUME NEW addr \in U64, NEW len \in U64, UpdateDynstrRange(addr, len)
      PROVE  SectionBecomes(strtab.shdr, DynstrAt(addr, len).val, addr, len)
  <2> DEFINE at == DynstrAt(addr, len).val
  <2>1. OffFromVaddr(phdrs.arr, addr, len).ok BY <1>7 DEF UpdateDynstrRange, DynstrAt
  <2>2. at \in U64
    BY <1>1, <2>1, Naturals64, OffFromVaddrProperty DEF DynstrAt
  <2>3. shdrs' = StrtabSection(at, addr, len) BY <1>7 DEF UpdateDynstrRange
  <2> HIDE DEF at
  <2>4. /\ Alike(shdrs, StrtabSection(at, addr, len), strtab.shdr)
        /\ strtab.shdr # 0 =>
             /\ StrtabSection(at, addr, len).arr[strtab.shdr].offset = at
             /\ StrtabSection(at, addr, len).arr[strtab.shdr].addr = addr
             /\ StrtabSection(at, addr, len).arr[strtab.shdr].size = len
    <3>1. shdrs \in ShdrTable /\ strtab.shdr \in 0 .. Len(shdrs.arr) BY <1>1
    <3> QED BY <2>2, <3>1, StrtabSectionFields
  <2> QED BY <2>3, <2>4 DEF at, SectionBecomes
<1> QED BY <1>2, <1>4, <1>5, <1>6, <1>7

(* The first section header, which holds the counts that the ELF header    *)
(* cannot, is the section of no table.  parse_elf does not check this.     *)
FirstSectionFree == 1 \notin {entries.shdr, strtab.shdr, symtab.shdr}

(* It is not changed with another one.                                     *)
LEMMA FirstKept ==
  ASSUME shdrs \in ShdrTable, NEW i, i # 1, NEW new, Alike(shdrs, new, i)
  PROVE  new.arr[1] = shdrs.arr[1] /\ Len(new.arr) = Len(shdrs.arr)
         /\ (new.arr # <<>> <=> shdrs.arr # <<>>)
<1>1. new \in ShdrTable /\ Len(new.arr) = Len(shdrs.arr)
      /\ \A j \in 1 .. Len(shdrs.arr) : j # i => new.arr[j] = shdrs.arr[j]
  BY DEF Alike
<1>2. new.arr \in Seq(Shdr) /\ shdrs.arr \in Seq(Shdr) BY <1>1 DEF ShdrTable
<1>3. CASE shdrs.arr = <<>>
  <2>1. Len(new.arr) = 0 BY <1>1, <1>3
  <2>2. new.arr = <<>> BY <1>2, <2>1
  <2> QED BY <1>3, <2>2
<1>4. CASE shdrs.arr # <<>>
  <2>1. Len(shdrs.arr) # 0 BY <1>2, <1>4, NonEmpty
  <2>2. 1 \in 1 .. Len(shdrs.arr) BY <1>2, <2>1
  <2>3. new.arr # <<>> BY <1>1, <1>2, <2>1, NonEmpty
  <2> QED BY <1>1, <1>4, <2>2, <2>3
<1> QED BY <1>3, <1>4

(* CountsDecode of a served client.                                        *)
Decoded ==
  /\ Len(phdrs.arr) = IF ehdr.phnum >= PN_XNUM THEN shdrs.arr[1].info ELSE ehdr.phnum
  /\ shdrs.arr # <<>> =>
       /\ Len(shdrs.arr) = IF ehdr.shnum # 0 THEN ehdr.shnum ELSE shdrs.arr[1].size
       /\ shstrndx = IF ehdr.shstrndx < SHN_XINDEX THEN ehdr.shstrndx ELSE shdrs.arr[1].link
       /\ shstrndx < Len(shdrs.arr)

(* Nothing a decoded count depends on changes.                             *)
CountsAlone ==
  /\ ehdr'.phnum = ehdr.phnum /\ ehdr'.shnum = ehdr.shnum /\ ehdr'.shstrndx = ehdr.shstrndx
  /\ shstrndx' = shstrndx /\ Len(phdrs'.arr) = Len(phdrs.arr)
  /\ Len(shdrs'.arr) = Len(shdrs.arr) /\ (shdrs'.arr # <<>> <=> shdrs.arr # <<>>)
  /\ shdrs'.arr[1] = shdrs.arr[1]

(* So it is when a table moves, and when one that has no count in the      *)
(* headers is resized.                                                     *)
LEMMA CountsLeftAlone ==
  ASSUME Whole, FirstSectionFree, Update
  PROVE  \/ CountsAlone
         \/ \E n \in U64 : UpdatePhnum(n)
         \/ shdrs.arr # <<>> /\ \E n \in U64 : UpdateShnum(n)
         \/ shdrs.arr # <<>> /\ \E i \in U64 : i < Len(shdrs.arr) /\ UpdateShstrndx(i)
<1>1. Counts \subseteq U64 /\ Offsets \subseteq U64 /\ Indices \subseteq U64
  BY ClientAssumption
<1>2. ehdr \in EhdrMembers /\ shdrs \in ShdrTable /\ phdrs \in PhdrTable
      /\ phdrs.arr \in Seq(Phdr) /\ entries.phdr \in 1 .. Len(phdrs.arr)
  BY MemberTypes DEF Whole, Members
<1>3. ASSUME NEW i, i # 1, Alike(shdrs, shdrs', i), UNCHANGED <<ehdr, shstrndx>>,
             Len(phdrs'.arr) = Len(phdrs.arr)
      PROVE  CountsAlone
  <2>1. shdrs'.arr[1] = shdrs.arr[1] /\ Len(shdrs'.arr) = Len(shdrs.arr)
        /\ (shdrs'.arr # <<>> <=> shdrs.arr # <<>>)
    BY <1>2, <1>3, FirstKept
  <2> QED BY <1>3, <2>1 DEF CountsAlone
<1>4. entries.shdr # 1 /\ strtab.shdr # 1 /\ symtab.shdr # 1 BY DEF FirstSectionFree
<1>5. CASE \E n \in Counts : UpdateDynTblNum(n)
  <2>1. PICK n \in U64 : UpdateDynTblNum(n) BY <1>1, <1>5
  <2>2. Alike(shdrs, shdrs', entries.shdr) BY <2>1, SectionEffects DEF SectionBecomes
  <2>3. UNCHANGED <<ehdr, shstrndx>> BY <2>1 DEF UpdateDynTblNum
  <2>4. n * DynEnt \in U64
    <3>1. ResizeTableOk(phdrs.arr, size, DynamicPhdr.offset, DynEnt, Len(entries.arr), n, TRUE)
      BY <2>1 DEF UpdateDynTblNum, DynNumFits
    <3> QED BY <3>1, MemberTypes, ResizeTableProperty, SizeAssumption, Naturals64
  <2>5. phdrs' = NewDynamic(n * DynEnt) BY <2>1 DEF UpdateDynTblNum, NewDynamic
  <2>6. Len(phdrs'.arr) = Len(phdrs.arr) BY <2>4, <2>5, DynNumHeaders
  <2> QED BY <1>3, <1>4, <2>2, <2>3, <2>6
<1>6. CASE \E off \in Offsets : UpdateDynTblOff(off)
  <2>1. PICK off \in U64 : UpdateDynTblOff(off) BY <1>1, <1>6
  <2>2. Alike(shdrs, shdrs', entries.shdr) BY <2>1, SectionEffects DEF SectionBecomes
  <2> DEFINE va == VaddrFromOff(phdrs.arr, off, entries.size).val
  <2>3. UNCHANGED <<ehdr, shstrndx>> /\ phdrs' = MovedDynamic(off, va)
    BY <2>1 DEF UpdateDynTblOff, MovedDynamic
  <2>4. va \in U64 BY MemberTypes, Naturals64, VaddrFromOffProperty
  <2> HIDE DEF va
  <2>5. Len(phdrs'.arr) = Len(phdrs.arr) BY <2>3, <2>4, DynOffHeaders
  <2> QED BY <1>3, <1>4, <2>2, <2>3, <2>5
<1>7. CASE \E n \in Counts : UpdateDynSymCount(n)
  <2>1. PICK n \in U64 : UpdateDynSymCount(n) BY <1>1, <1>7
  <2>2. Alike(shdrs, shdrs', symtab.shdr) BY <2>1, SectionEffects DEF SectionBecomes
  <2>3. UNCHANGED <<ehdr, shstrndx, phdrs>> BY <2>1 DEF UpdateDynSymCount
  <2> QED BY <1>3, <1>4, <2>2, <2>3
<1>8. CASE \E off \in Offsets : UpdateDynSymtabOff(off)
  <2>1. PICK off \in U64 : UpdateDynSymtabOff(off) BY <1>1, <1>8
  <2>2. Alike(shdrs, shdrs', symtab.shdr) BY <2>1, SectionEffects DEF SectionBecomes
  <2>3. UNCHANGED <<ehdr, shstrndx, phdrs>> BY <2>1 DEF UpdateDynSymtabOff
  <2> QED BY <1>3, <1>4, <2>2, <2>3
<1>9. CASE \E addr \in Offsets, len \in Counts : UpdateDynstrRange(addr, len)
  <2>1. PICK addr \in U64, len \in U64 : UpdateDynstrRange(addr, len) BY <1>1, <1>9
  <2>2. Alike(shdrs, shdrs', strtab.shdr) BY <2>1, SectionEffects DEF SectionBecomes
  <2>3. UNCHANGED <<ehdr, shstrndx, phdrs>> BY <2>1 DEF UpdateDynstrRange
  <2> QED BY <1>3, <1>4, <2>2, <2>3
<1>10. CASE \E off \in Offsets : UpdatePhoff(off)
  <2>1. PICK off \in U64 : UpdatePhoff(off) BY <1>1, <1>10
  <2>2. UNCHANGED <<shdrs, shstrndx>> /\ phdrs' = PlacedPhdr(off)
        /\ ehdr' = [ehdr EXCEPT !.phoff = off]
    BY <2>1 DEF UpdatePhoff
  <2>3. Len(phdrs'.arr) = Len(phdrs.arr) BY <2>2, PlacedHeaders
  <2> QED BY <1>2, <2>2, <2>3 DEF CountsAlone, EhdrMembers
<1>11. CASE \E off \in Offsets : UpdateShoff(off)
  BY <1>2, <1>11 DEF UpdateShoff, CountsAlone, EhdrMembers
<1>12. CASE \E s \in Segments : FillPhdr(s)
  <2>1. PICK s \in Segments : FillPhdr(s) BY <1>12
  <2>2. UNCHANGED <<ehdr, shdrs, shstrndx>>
        /\ phdrs' = [phdrs EXCEPT !.arr[Len(phdrs.arr)] = s]
    BY <2>1 DEF FillPhdr
  <2>3. phdrs'.arr = [phdrs.arr EXCEPT ![Len(phdrs.arr)] = s] BY <1>2, <2>2 DEF PhdrTable
  <2>4. s \in Phdr /\ Len(phdrs.arr) \in 1 .. Len(phdrs.arr) BY <1>2, ClientAssumption
  <2>5. Len(phdrs'.arr) = Len(phdrs.arr) BY <1>2, <2>3, <2>4, Replaced
  <2> QED BY <2>2, <2>5 DEF CountsAlone
<1>13. CASE GrowData BY <1>13 DEF GrowData, CountsAlone
<1> QED
  BY <1>1, <1>5, <1>6, <1>7, <1>8, <1>9, <1>10, <1>11, <1>12, <1>13 DEF Update

(* Each operation on a count keeps all copies of all counts in step.       *)
LEMMA DecodedKept ==
  ASSUME Whole, FirstSectionFree, Decoded, Update
  PROVE  Decoded'
<1>1. CASE CountsAlone BY <1>1 DEF CountsAlone, Decoded
<1>2. CASE \E n \in U64 : UpdatePhnum(n)
  <2>1. PICK n \in U64 : UpdatePhnum(n) BY <1>2
  <2>2. n * PhEnt \in U64
    <3>1. ResizeTableOk(phdrs.arr, size, ehdr.phoff, PhEnt, Len(phdrs.arr), n, PtPhdr # 0)
      BY <2>1 DEF UpdatePhnum, PhnumFits
    <3> QED BY <3>1, MemberTypes, ResizeTableProperty, SizeAssumption, Naturals64
  <2>3. /\ ehdr' = [ehdr EXCEPT !.phnum = PhnumInHeader(n)]
        /\ shdrs' = PhnumInSection(n) /\ shstrndx' = shstrndx
        /\ phdrs'.arr = Sized(Resized(phdrs.arr, n, ZeroPhdr), PtPhdr, n * PhEnt)
        /\ Dispensable(phdrs.arr, n, ZeroPhdr) /\ (n >= PN_XNUM => shdrs.arr # <<>>)
    BY <2>1 DEF UpdatePhnum, PhnumFits
  <2>4. Len(phdrs'.arr) = n BY <2>2, <2>3, PhnumHeaders
  <2>5. shdrs \in ShdrTable /\ ehdr \in EhdrMembers /\ shdrs.arr \in Seq(Shdr)
    BY DEF Whole, Members, ShdrTable
  <2>6. /\ Alike(shdrs, shdrs', 1)
        /\ shdrs.arr # <<>> =>
             /\ shdrs'.arr[1].info = IF n < PN_XNUM THEN shdrs.arr[1].info ELSE n
             /\ shdrs'.arr[1].size = shdrs.arr[1].size
             /\ shdrs'.arr[1].link = shdrs.arr[1].link
    BY <2>3, <2>5, PhnumFields
  <2>7. ehdr'.phnum = PhnumInHeader(n) /\ ehdr'.shnum = ehdr.shnum
        /\ ehdr'.shstrndx = ehdr.shstrndx
    BY <2>3, <2>5 DEF EhdrMembers
  <2>8. n \in Nat /\ PN_XNUM \in Nat BY Naturals64, EscapeAssumption
  <2>9. n = IF ehdr'.phnum >= PN_XNUM THEN shdrs'.arr[1].info ELSE ehdr'.phnum
    <3>1. CASE n < PN_XNUM BY <2>7, <2>8, <3>1 DEF PhnumInHeader
    <3>2. CASE n >= PN_XNUM BY <2>3, <2>6, <2>7, <2>8, <3>2 DEF PhnumInHeader
    <3> QED BY <2>8, <3>1, <3>2
  <2>10. Len(shdrs'.arr) = Len(shdrs.arr) /\ (shdrs'.arr # <<>> => shdrs.arr # <<>>)
    <3>1. shdrs' \in ShdrTable /\ Len(shdrs'.arr) = Len(shdrs.arr) BY <2>6 DEF Alike
    <3>2. shdrs'.arr \in Seq(Shdr) BY <3>1 DEF ShdrTable
    <3> QED BY <2>5, <3>1, <3>2, NonEmpty
  <2> QED BY <2>3, <2>4, <2>6, <2>7, <2>9, <2>10 DEF Decoded
<1>3. CASE shdrs.arr # <<>> /\ \E n \in U64 : UpdateShnum(n)
  <2>1. PICK n \in U64 : UpdateShnum(n) BY <1>3
  <2> DEFINE grown == Resized(shdrs.arr, n, ZeroShdr)
             first == [grown EXCEPT ![1].size = n]
  <2>2. /\ n \in Nat /\ n # 0 /\ shstrndx < n
        /\ phdrs' = phdrs /\ shstrndx' = shstrndx
        /\ \/ /\ n < SHN_LORESERVE /\ shdrs'.arr = grown /\ ehdr' = [ehdr EXCEPT !.shnum = n]
           \/ shdrs'.arr = first /\ ehdr' = [ehdr EXCEPT !.shnum = 0]
    BY <2>1, Naturals64 DEF UpdateShnum
  <2>3. shdrs.arr \in Seq(Shdr) /\ ehdr \in EhdrMembers
    BY MemberTypes DEF Whole, Members
  <2>4. Len(shdrs.arr) # 0 /\ Len(shdrs.arr) \in Nat BY <1>3, <2>3, NonEmpty
  <2>5. ZeroShdr \in Shdr BY ZeroStructures
  <2>6. grown \in [1 .. n -> Shdr] /\ grown[1] = shdrs.arr[1]
    BY <2>2, <2>3, <2>4, <2>5 DEF Resized
  <2> HIDE DEF grown
  <2>7. grown \in Seq(Shdr) /\ Len(grown) = n BY <2>2, <2>6, FunctionIsSequence
  <2> DEFINE v == [grown[1] EXCEPT !.size = n]
  <2>8. 1 \in 1 .. Len(grown) /\ grown[1] \in Shdr BY <2>2, <2>6, <2>7
  <2>9. v \in Shdr /\ v.info = grown[1].info /\ v.link = grown[1].link /\ v.size = n
    BY <2>8 DEF Shdr
  <2>10. first = [grown EXCEPT ![1] = v] BY <2>7, <2>8
  <2> HIDE DEF v
  <2>11. Len(first) = n /\ first[1] = v BY <2>7, <2>8, <2>9, <2>10, Replaced
  <2> HIDE DEF first
  <2>12. Len(shdrs'.arr) = n /\ shdrs'.arr[1].info = shdrs.arr[1].info
         /\ shdrs'.arr[1].link = shdrs.arr[1].link
    BY <2>2, <2>6, <2>7, <2>9, <2>11
  <2>13. ehdr'.phnum = ehdr.phnum /\ ehdr'.shstrndx = ehdr.shstrndx
    BY <2>2, <2>3 DEF EhdrMembers
  <2>14. n = IF ehdr'.shnum # 0 THEN ehdr'.shnum ELSE shdrs'.arr[1].size
    <3>1. CASE shdrs'.arr = grown /\ ehdr' = [ehdr EXCEPT !.shnum = n]
      BY <2>2, <2>3, <3>1 DEF EhdrMembers
    <3>2. CASE shdrs'.arr = first /\ ehdr' = [ehdr EXCEPT !.shnum = 0]
      BY <2>3, <2>9, <2>11, <3>2 DEF EhdrMembers
    <3> QED BY <2>2, <3>1, <3>2
  <2> QED BY <1>3, <2>2, <2>12, <2>13, <2>14 DEF Decoded
<1>4. CASE shdrs.arr # <<>> /\ \E i \in U64 : i < Len(shdrs.arr) /\ UpdateShstrndx(i)
  <2>1. PICK i \in U64 : i < Len(shdrs.arr) /\ UpdateShstrndx(i) BY <1>4
  <2>2. /\ shdrs' = Relinked(i) /\ shstrndx' = i /\ phdrs' = phdrs
        /\ ehdr' = [ehdr EXCEPT !.shstrndx = IF i < SHN_LORESERVE THEN i ELSE SHN_XINDEX]
    BY <2>1 DEF UpdateShstrndx
  <2>3. shdrs \in ShdrTable /\ ehdr \in EhdrMembers BY DEF Whole, Members
  <2>4. /\ Alike(shdrs, shdrs', 1)
        /\ shdrs'.arr[1].link = IF i < SHN_LORESERVE THEN 0 ELSE i
        /\ shdrs'.arr[1].size = shdrs.arr[1].size /\ shdrs'.arr[1].info = shdrs.arr[1].info
    BY <1>4, <2>2, <2>3, RelinkedFields
  <2>5. Len(shdrs'.arr) = Len(shdrs.arr) BY <2>4 DEF Alike
  <2>6. ehdr'.phnum = ehdr.phnum /\ ehdr'.shnum = ehdr.shnum
        /\ ehdr'.shstrndx = IF i < SHN_LORESERVE THEN i ELSE SHN_XINDEX
    BY <2>2, <2>3 DEF EhdrMembers
  <2>7. i = IF ehdr'.shstrndx < SHN_XINDEX THEN ehdr'.shstrndx ELSE shdrs'.arr[1].link
    <3>1. i \in Nat BY Naturals64
    <3>2. CASE i < SHN_LORESERVE BY <2>6, <3>1, <3>2, EscapeAssumption
    <3>3. CASE ~ (i < SHN_LORESERVE) BY <2>4, <2>6, <3>3, EscapeAssumption
    <3> QED BY <3>2, <3>3
  <2> QED BY <1>4, <2>1, <2>2, <2>4, <2>5, <2>6, <2>7 DEF Decoded
<1> QED BY <1>1, <1>2, <1>3, <1>4, CountsLeftAlone

(* The indices of the sections of the tables never change.                 *)
LEMMA IndicesFixed ==
  ASSUME Members, Next
  PROVE  /\ entries'.shdr = entries.shdr /\ strtab'.shdr = strtab.shdr
         /\ symtab'.shdr = symtab.shdr /\ symtab'.dyn = symtab.dyn
         /\ entries'.phdr = entries.phdr
<1>1. entries \in Entries /\ strtab \in Strtab /\ symtab \in Symtab BY DEF Members
<1>2. CASE UNCHANGED <<entries, strtab, symtab>> BY <1>2
<1>3. CASE \E addr \in Offsets, len \in Counts : UpdateDynstrRange(addr, len)
  BY <1>1, <1>3 DEF UpdateDynstrRange, Entries, Strtab
<1>4. CASE \E n \in Counts : UpdateDynTblNum(n)
  BY <1>1, <1>4 DEF UpdateDynTblNum, Entries
<1>5. CASE \E n \in Counts : UpdateDynSymCount(n)
  BY <1>1, <1>5 DEF UpdateDynSymCount, Symtab
<1>6. CASE \E off \in Offsets : UpdateDynSymtabOff(off)
  BY <1>1, <1>6 DEF UpdateDynSymtabOff, Entries, Symtab
<1>7. CASE FailStep \/ SerializeStep
  BY <1>2, <1>7 DEF FailStep, PhnumFails, ShnumFails, SerializeStep, SerializeElf
<1>8. CASE UpdateStep
  BY <1>2, <1>3, <1>4, <1>5, <1>6, <1>8
     DEF UpdateStep, Update, UpdatePhnum, UpdatePhoff, UpdateDynTblOff, UpdateShnum,
         UpdateShoff, UpdateShstrndx, FillPhdr, GrowData
<1> QED BY <1>7, <1>8 DEF Next

(* The number of program headers, of sections and the index of .shstrtab   *)
(* are what parse_elf makes of the two headers, whichever way a count has  *)
(* crossed the limit of the ELF header and however often.                  *)
THEOREM CountsStayDecodable == Spec /\ FirstSectionFree => []CountsDecode
<1> DEFINE CountInv == FirstSectionFree /\ (pc = "ready" => Decoded)
<1>1. Init /\ FirstSectionFree => CountInv
  <2> SUFFICES ASSUME Init PROVE Decoded OBVIOUS
  <2>1. PICK p \in Parsed :
          ehdr = p.ehdr /\ phdrs = p.phdrs /\ shdrs = p.shdrs /\ shstrndx = p.shstrndx
    BY DEF Init
  <2>2. CountsParsed(p) BY ParsedAssumption DEF IsParsed
  <2> QED BY <2>1, <2>2 DEF CountsParsed, Decoded
<1>2. FileInv /\ CountInv /\ [Next]_vars => CountInv'
  <2> SUFFICES ASSUME FileInv, FirstSectionFree, pc = "ready" => Decoded, [Next]_vars
               PROVE  CountInv'
    OBVIOUS
  <2>1. CASE UNCHANGED vars BY <2>1 DEF vars, elf, FirstSectionFree, Decoded
  <2>2. CASE Next
    <3>1. Whole /\ pc = "ready" /\ Decoded BY <2>2 DEF FileInv, Next, UpdateStep, FailStep, SerializeStep
    <3>2. FirstSectionFree'
      BY <2>2, <3>1, IndicesFixed DEF FirstSectionFree, Whole
    <3>3. CASE UpdateStep
      <4>1. Decoded' BY <3>1, <3>3, DecodedKept DEF UpdateStep
      <4> QED BY <3>2, <4>1
    <3>4. CASE FailStep BY <3>2, <3>4 DEF FailStep, PhnumFails, ShnumFails
    <3>5. CASE SerializeStep
      BY <3>1, <3>2, <3>5 DEF SerializeStep, SerializeElf, Decoded
    <3> QED BY <2>2, <3>3, <3>4, <3>5 DEF Next
  <2> QED BY <2>1, <2>2
<1>3. CountInv => CountsDecode BY DEF CountsDecode, Decoded
<1> QED BY <1>1, <1>2, <1>3, FileInvHolds, PTL DEF Spec

-----------------------------------------------------------------------------
(* Copies of a place                                                       *)

(* The four parts of TablesAgree, said of any values of the members.       *)
NamesRange(ss, i, off, vaddr, len) ==
  i # 0 => ss.arr[i].offset = off /\ ss.arr[i].addr = vaddr /\ ss.arr[i].size = len

(* PT_PHDR names the table of program headers, ...                         *)
PhdrNames(e, ps) ==
  LET i == UniquePhdr(ps.arr, "PHDR") IN
  i # 0 => ps.arr[i].offset = e.phoff /\ ps.arr[i].filesz = ps.size /\ ps.arr[i].memsz = ps.size

(* ... PT_DYNAMIC and SHT_DYNAMIC the dynamic entries, ...                 *)
DynamicNames(ps, es, ss) ==
  LET header == ps.arr[es.phdr] IN
  /\ header.filesz = es.size /\ header.memsz = es.size
  /\ NamesRange(ss, es.shdr, header.offset, header.vaddr, es.size)

(* ... two entries and a section the strings, ...                          *)
StrtabNames(es, st, ss) ==
  /\ es.arr[DynIndex(es.arr, "STRTAB")].val = st.vaddr
  /\ es.arr[DynIndex(es.arr, "STRSZ")].val = st.size
  /\ NamesRange(ss, st.shdr, st.off, st.vaddr, st.size)

(* ... and an entry and a section the symbols, if there are any.           *)
SymtabNames(es, sy, ss) ==
  sy.nsyms # 0 =>
    /\ es.arr[sy.dyn].val = sy.vaddr
    /\ NamesRange(ss, sy.shdr, sy.off, sy.vaddr, sy.size)

(* All four, where DT_STRTAB and DT_STRSZ are there to be found.           *)
Agreed(e, ps, ss, es, st, sy) ==
  /\ PhdrNames(e, ps) /\ DynamicNames(ps, es, ss)
  /\ HasUniqueDyn(es.arr, "STRTAB") /\ HasUniqueDyn(es.arr, "STRSZ")
  /\ StrtabNames(es, st, ss) /\ SymtabNames(es, sy, ss)

(* The sections of the three tables are different ones, since parse_elf    *)
(* has found each by its type.                                             *)
Apart ==
  /\ entries.shdr # 0 => entries.shdr \notin {strtab.shdr, symtab.shdr}
  /\ strtab.shdr # 0 => strtab.shdr # symtab.shdr

(* What a step relies on.                                                  *)
Settled ==
  /\ Whole /\ FirstSectionFree /\ Apart
  /\ Agreed(ehdr, phdrs, shdrs, entries, strtab, symtab)

(* A section that names a range still does.                                *)
Same(ss, new, i) ==
  i # 0 => /\ new.arr[i].offset = ss.arr[i].offset /\ new.arr[i].addr = ss.arr[i].addr
           /\ new.arr[i].size = ss.arr[i].size

(* It does if another one has changed.                                     *)
LEMMA AlikeSame ==
  ASSUME NEW ss \in ShdrTable, NEW i \in 0 .. Len(ss.arr), NEW k, i # k,
         NEW new, Alike(ss, new, k)
  PROVE  Same(ss, new, i)
BY DEF Alike, Same

(* PT_PHDR stays right if neither it nor the table changes.                *)
LEMMA PhdrNamesKept ==
  ASSUME NEW e, NEW new, new.phoff = e.phoff,
         NEW ps \in PhdrTable, NEW nps, nps.size = ps.size, Kin(ps.arr, nps.arr),
         LET i == UniquePhdr(ps.arr, "PHDR") IN i # 0 => nps.arr[i] = ps.arr[i],
         PhdrNames(e, ps)
  PROVE  PhdrNames(new, nps)
<1>1. ps.arr \in Seq(Phdr) /\ "PHDR" # "NULL" BY DEF PhdrTable
<1>2. UniquePhdr(nps.arr, "PHDR") = UniquePhdr(ps.arr, "PHDR")
  <2>1. 0 \in Nat OBVIOUS
  <2> QED BY <1>1, <2>1, KinKeeps
<1> QED BY <1>2 DEF PhdrNames

(* So do the headers of the dynamic entries, ...                           *)
LEMMA DynamicNamesKept ==
  ASSUME NEW ps, NEW nps, NEW es, NEW new, NEW ss, NEW nss,
         new.phdr = es.phdr, new.shdr = es.shdr, new.size = es.size,
         nps.arr[es.phdr] = ps.arr[es.phdr], Same(ss, nss, es.shdr),
         DynamicNames(ps, es, ss)
  PROVE  DynamicNames(nps, new, nss)
BY DEF DynamicNames, NamesRange, Same

(* ... what names the strings, ...                                         *)
LEMMA StrtabNamesKept ==
  ASSUME NEW es, NEW new, NEW st, NEW ss, NEW nss, Same(ss, nss, st.shdr),
         HasUniqueDyn(es.arr, "STRTAB"), HasUniqueDyn(es.arr, "STRSZ"),
         \A t \in {"STRTAB", "STRSZ"} :
           /\ DynIndices(new.arr, t) = DynIndices(es.arr, t)
           /\ \A j \in DynIndices(es.arr, t) : new.arr[j] = es.arr[j],
         StrtabNames(es, st, ss)
  PROVE  /\ HasUniqueDyn(new.arr, "STRTAB") /\ HasUniqueDyn(new.arr, "STRSZ")
         /\ StrtabNames(new, st, nss)
<1>1. \A t \in {"STRTAB", "STRSZ"} :
        HasUniqueDyn(new.arr, t) /\ DynIndex(new.arr, t) = DynIndex(es.arr, t)
  BY DEF HasUniqueDyn, DynIndex
<1>2. \A t \in {"STRTAB", "STRSZ"} : DynIndex(es.arr, t) \in DynIndices(es.arr, t)
  BY DEF HasUniqueDyn, DynIndex
<1>3. \A t \in {"STRTAB", "STRSZ"} :
        new.arr[DynIndex(new.arr, t)] = es.arr[DynIndex(es.arr, t)]
  BY <1>1, <1>2
<1> QED BY <1>1, <1>3 DEF StrtabNames, NamesRange, Same

(* ... and what names the symbols.                                         *)
LEMMA SymtabNamesKept ==
  ASSUME NEW es, NEW new, NEW sy, NEW ss, NEW nss, Same(ss, nss, sy.shdr),
         sy.nsyms # 0 => new.arr[sy.dyn] = es.arr[sy.dyn],
         SymtabNames(es, sy, ss)
  PROVE  SymtabNames(new, sy, nss)
BY DEF SymtabNames, NamesRange, Same

(* A step that leaves the dynamic section and its tables alone.            *)
LEMMA DynamicUntouched ==
  ASSUME Settled, UNCHANGED <<entries, strtab, symtab>>,
         \A i \in {entries.shdr, strtab.shdr, symtab.shdr} : Same(shdrs, shdrs', i),
         phdrs'.arr[entries.phdr] = DynamicPhdr, PhdrNames(ehdr', phdrs')
  PROVE  Agreed(ehdr', phdrs', shdrs', entries', strtab', symtab')
<1>1. /\ DynamicNames(phdrs, entries, shdrs)
      /\ HasUniqueDyn(entries.arr, "STRTAB") /\ HasUniqueDyn(entries.arr, "STRSZ")
      /\ StrtabNames(entries, strtab, shdrs) /\ SymtabNames(entries, symtab, shdrs)
  BY DEF Settled, Agreed
<1>2. DynamicNames(phdrs', entries, shdrs')
  BY <1>1, DynamicNamesKept DEF DynamicPhdr
<1>3. StrtabNames(entries, strtab, shdrs') BY <1>1, StrtabNamesKept
<1>4. SymtabNames(entries, symtab, shdrs') BY <1>1, SymtabNamesKept
<1> QED BY <1>1, <1>2, <1>3, <1>4 DEF Agreed

(* Sections in use, as types, and none of them the first.                  *)
LEMMA UsedSections ==
  ASSUME Settled
  PROVE  /\ shdrs \in ShdrTable /\ phdrs \in PhdrTable /\ entries \in Entries
         /\ ehdr \in EhdrMembers /\ strtab \in Strtab /\ symtab \in Symtab
         /\ \A i \in {entries.shdr, strtab.shdr, symtab.shdr} :
              /\ i \in 0 .. Len(shdrs.arr) /\ i # 1
              /\ i # 0 => shdrs.arr[i].type # "NULL"
<1>1. Whole BY DEF Settled
<1> QED BY <1>1, MemberTypes DEF Settled, FirstSectionFree, Whole, Members, Linked

(* update_phnum.                                                           *)
LEMMA UpdatePhnumAgrees ==
  ASSUME Settled, NEW n \in U64, UpdatePhnum(n)
  PROVE  Agreed(ehdr', phdrs', shdrs', entries', strtab', symtab')
<1> DEFINE k == n * PhEnt
           arr == Sized(Resized(phdrs.arr, n, ZeroPhdr), PtPhdr, k)
<1>1. Whole /\ PhdrNames(ehdr, phdrs) BY DEF Settled, Agreed
<1>2. k \in U64
  <2>1. ResizeTableOk(phdrs.arr, size, ehdr.phoff, PhEnt, Len(phdrs.arr), n, PtPhdr # 0)
    BY DEF UpdatePhnum, PhnumFits
  <2> QED BY <1>1, <2>1, MemberTypes, ResizeTableProperty, SizeAssumption, Naturals64
<1>3. /\ Kin(phdrs.arr, arr) /\ arr[entries.phdr] = DynamicPhdr
      /\ PtPhdr # 0 => /\ arr[PtPhdr].filesz = k /\ arr[PtPhdr].memsz = k
                       /\ arr[PtPhdr].offset = phdrs.arr[PtPhdr].offset
  BY <1>1, <1>2, PhnumHeaders DEF UpdatePhnum
<1> HIDE DEF arr, k
<1>4. phdrs' = [arr |-> arr, size |-> k] /\ shdrs' = PhnumInSection(n)
      /\ ehdr' = [ehdr EXCEPT !.phnum = PhnumInHeader(n)]
      /\ UNCHANGED <<entries, strtab, symtab>> /\ (n >= PN_XNUM => shdrs.arr # <<>>)
  BY DEF UpdatePhnum, PhnumFits, arr, k
<1>5. ehdr'.phoff = ehdr.phoff BY <1>4, UsedSections DEF EhdrMembers
<1>6. UniquePhdr(arr, "PHDR") = PtPhdr
  <2>1. phdrs.arr \in Seq(Phdr) /\ "PHDR" # "NULL" /\ 0 \in Nat BY UsedSections DEF PhdrTable
  <2> QED BY <1>3, <2>1, KinKeeps DEF PtPhdr
<1>7. PhdrNames(ehdr', phdrs')
  <2>1. phdrs'.arr = arr /\ phdrs'.size = k BY <1>4
  <2>2. PtPhdr # 0 => phdrs.arr[PtPhdr].offset = ehdr.phoff BY <1>1 DEF PhdrNames, PtPhdr
  <2> QED BY <1>3, <1>5, <1>6, <2>1, <2>2 DEF PhdrNames
<1>8. Alike(shdrs, shdrs', 1) BY <1>4, UsedSections, PhnumFields
<1>9. \A i \in {entries.shdr, strtab.shdr, symtab.shdr} : Same(shdrs, shdrs', i)
  BY <1>8, UsedSections, AlikeSame
<1> QED BY <1>3, <1>4, <1>7, <1>9, DynamicUntouched

(* update_phoff.                                                           *)
LEMMA UpdatePhoffAgrees ==
  ASSUME Settled, NEW off \in U64, UpdatePhoff(off)
  PROVE  Agreed(ehdr', phdrs', shdrs', entries', strtab', symtab')
<1>1. Whole BY DEF Settled
<1>2. ehdr' = [ehdr EXCEPT !.phoff = off] /\ phdrs' = PlacedPhdr(off)
      /\ UNCHANGED <<shdrs, entries, strtab, symtab>>
  BY DEF UpdatePhoff
<1>3. /\ phdrs'.size = phdrs.size /\ Kin(phdrs.arr, phdrs'.arr)
      /\ \A j \in 1 .. Len(phdrs.arr) : j # PtPhdr => phdrs'.arr[j] = phdrs.arr[j]
      /\ PtPhdr # 0 => /\ phdrs'.arr[PtPhdr].offset = off
                       /\ phdrs'.arr[PtPhdr].filesz = phdrs.size
                       /\ phdrs'.arr[PtPhdr].memsz = phdrs.size
  BY <1>1, <1>2, PlacedHeaders
<1>4. ehdr'.phoff = off BY <1>2, UsedSections DEF EhdrMembers
<1>5. UniquePhdr(phdrs'.arr, "PHDR") = PtPhdr
  <2>1. phdrs.arr \in Seq(Phdr) /\ "PHDR" # "NULL" /\ 0 \in Nat BY UsedSections DEF PhdrTable
  <2> QED BY <1>3, <2>1, KinKeeps DEF PtPhdr
<1>6. PhdrNames(ehdr', phdrs') BY <1>3, <1>4, <1>5 DEF PhdrNames
<1>7. phdrs'.arr[entries.phdr] = DynamicPhdr
  <2>1. entries.phdr \in 1 .. Len(phdrs.arr) /\ entries.phdr # PtPhdr BY <1>1, MemberTypes
  <2> QED BY <1>3, <2>1 DEF DynamicPhdr
<1>8. \A i \in {entries.shdr, strtab.shdr, symtab.shdr} : Same(shdrs, shdrs', i)
  BY <1>2 DEF Same
<1> QED BY <1>2, <1>6, <1>7, <1>8, DynamicUntouched

(* append_new_ptload_segment.                                              *)
LEMMA FillPhdrAgrees ==
  ASSUME Settled, NEW s \in Phdr, s.type = "LOAD", FillPhdr(s)
  PROVE  Agreed(ehdr', phdrs', shdrs', entries', strtab', symtab')
<1> DEFINE n == Len(phdrs.arr)
           a == [phdrs.arr EXCEPT ![n] = s]
<1>1. Whole /\ PhdrNames(ehdr, phdrs) BY DEF Settled, Agreed
<1>2. phdrs.arr \in Seq(Phdr) /\ entries.phdr \in 1 .. n /\ phdrs.arr[entries.phdr].type = "DYNAMIC"
      /\ PtPhdr \in 0 .. n /\ (PtPhdr # 0 => phdrs.arr[PtPhdr].type = "PHDR")
  BY <1>1, MemberTypes
<1>3. n \in 1 .. n /\ phdrs.arr[n].type = "NULL" BY <1>2 DEF FillPhdr, ZeroPhdr
<1>4. /\ a \in Seq(Phdr) /\ Len(a) = n /\ a[n] = s
      /\ \A j \in 1 .. n : j # n => a[j] = phdrs.arr[j]
  BY <1>2, <1>3, Replaced
<1>5. phdrs' = [arr |-> a, size |-> phdrs.size]
      /\ UNCHANGED <<ehdr, shdrs, entries, strtab, symtab>>
  BY <1>2, UsedSections DEF FillPhdr, PhdrTable
<1> HIDE DEF a
<1>6. phdrs'.arr = a /\ phdrs'.size = phdrs.size BY <1>5
<1>7. IndicesOf(a, "PHDR") = IndicesOf(phdrs.arr, "PHDR") BY <1>3, <1>4 DEF IndicesOf
<1>8. UniquePhdr(a, "PHDR") = PtPhdr BY <1>7 DEF UniquePhdr, PtPhdr
<1>9. PtPhdr # 0 => a[PtPhdr] = phdrs.arr[PtPhdr] BY <1>2, <1>3, <1>4
<1>10. PhdrNames(ehdr', phdrs') BY <1>1, <1>5, <1>6, <1>8, <1>9 DEF PhdrNames, PtPhdr
<1>11. phdrs'.arr[entries.phdr] = DynamicPhdr BY <1>2, <1>3, <1>4, <1>6 DEF DynamicPhdr
<1>12. \A i \in {entries.shdr, strtab.shdr, symtab.shdr} : Same(shdrs, shdrs', i)
  BY <1>5 DEF Same
<1> QED BY <1>5, <1>10, <1>11, <1>12, DynamicUntouched

(* update_shnum keeps every section in use, and the first is none of them. *)
LEMMA UpdateShnumAgrees ==
  ASSUME Settled, NEW n \in U64, UpdateShnum(n)
  PROVE  Agreed(ehdr', phdrs', shdrs', entries', strtab', symtab')
<1> DEFINE s == shdrs.arr
           grown == Resized(s, n, ZeroShdr)
           first == [grown EXCEPT ![1].size = n]
<1>1. Whole /\ PhdrNames(ehdr, phdrs) BY DEF Settled, Agreed
<1>2. s \in Seq(Shdr) /\ n \in Nat \ {0} /\ ZeroShdr \in Shdr /\ ZeroShdr.type = "NULL"
  BY <1>1, MemberTypes, ZeroStructures, Naturals64 DEF ZeroShdr, UpdateShnum
<1>3. Dispensable(s, n, ZeroShdr) /\ UNCHANGED <<phdrs, entries, strtab, symtab>>
      /\ (shdrs'.arr = grown \/ shdrs'.arr = first)
      /\ (ehdr' = [ehdr EXCEPT !.shnum = n] \/ ehdr' = [ehdr EXCEPT !.shnum = 0])
  BY DEF UpdateShnum
<1>4. ehdr'.phoff = ehdr.phoff BY <1>3, UsedSections DEF EhdrMembers
<1>5. \A i \in {entries.shdr, strtab.shdr, symtab.shdr} :
        i \in 0 .. Len(s) /\ i # 1 /\ (i # 0 => s[i].type # "NULL")
  BY UsedSections
<1> HIDE DEF s
<1>6. grown \in [1 .. n -> Shdr] /\ \A j \in 1 .. n : j <= Len(s) => grown[j] = s[j]
  BY <1>2 DEF Resized
<1> HIDE DEF grown
<1>7. \A j \in 1 .. n : j # 1 => first[j] = grown[j] BY <1>6
<1> HIDE DEF first
<1>8. \A i \in {entries.shdr, strtab.shdr, symtab.shdr} : Same(shdrs, shdrs', i)
  <2> SUFFICES ASSUME NEW i \in {entries.shdr, strtab.shdr, symtab.shdr}, i # 0
               PROVE  shdrs'.arr[i] = s[i]
    BY DEF Same, s
  <2>1. i \in 1 .. Len(s) /\ i # 1 /\ s[i].type # "NULL" BY <1>2, <1>5
  <2>2. i \in 1 .. n
    <3>1. Len(s) \in Nat BY <1>2
    <3>2. ~ (i \in n + 1 .. Len(s)) BY <1>2, <1>3, <2>1 DEF Dispensable
    <3> QED BY <1>2, <2>1, <3>1, <3>2
  <2>3. grown[i] = s[i] BY <1>2, <1>6, <2>1, <2>2
  <2>4. first[i] = grown[i] BY <1>7, <2>1, <2>2
  <2> QED BY <1>3, <2>3, <2>4
<1>9. PhdrNames(ehdr', phdrs') BY <1>1, <1>3, <1>4 DEF PhdrNames
<1> QED BY <1>3, <1>8, <1>9, DynamicUntouched DEF DynamicPhdr

(* Updates that change no table but the file's own.                        *)
LEMMA OtherUpdatesAgree ==
  ASSUME Settled,
         \/ \E off \in U64 : UpdateShoff(off)
         \/ shdrs.arr # <<>> /\ \E i \in U64 : UpdateShstrndx(i)
         \/ GrowData
  PROVE  Agreed(ehdr', phdrs', shdrs', entries', strtab', symtab')
<1>1. PhdrNames(ehdr, phdrs) /\ UNCHANGED <<phdrs, entries, strtab, symtab>>
  BY DEF Settled, Agreed, UpdateShoff, UpdateShstrndx, GrowData
<1>2. ehdr'.phoff = ehdr.phoff
  BY UsedSections DEF EhdrMembers, UpdateShoff, UpdateShstrndx, GrowData
<1>3. \A i \in {entries.shdr, strtab.shdr, symtab.shdr} : Same(shdrs, shdrs', i)
  <2>1. CASE shdrs' = shdrs BY <2>1 DEF Same
  <2>2. CASE shdrs.arr # <<>> /\ \E i \in U64 : UpdateShstrndx(i)
    <3>1. PICK n \in U64 : shdrs' = Relinked(n) BY <2>2 DEF UpdateShstrndx
    <3>2. Alike(shdrs, shdrs', 1) BY <2>2, <3>1, UsedSections, RelinkedFields
    <3> QED BY <3>2, UsedSections, AlikeSame
  <2> QED BY <2>1, <2>2 DEF UpdateShoff, GrowData
<1>4. PhdrNames(ehdr', phdrs') BY <1>1, <1>2 DEF PhdrNames
<1> QED BY <1>1, <1>3, <1>4, DynamicUntouched DEF DynamicPhdr

(* The section of one table changes, those of the others do not.           *)
LEMMA OthersSame ==
  ASSUME Settled
  PROVE  /\ Alike(shdrs, shdrs', entries.shdr) =>
              Same(shdrs, shdrs', strtab.shdr) /\ Same(shdrs, shdrs', symtab.shdr)
         /\ Alike(shdrs, shdrs', strtab.shdr) =>
              Same(shdrs, shdrs', entries.shdr) /\ Same(shdrs, shdrs', symtab.shdr)
         /\ Alike(shdrs, shdrs', symtab.shdr) =>
              Same(shdrs, shdrs', entries.shdr) /\ Same(shdrs, shdrs', strtab.shdr)
<1>1. \A i \in {entries.shdr, strtab.shdr, symtab.shdr}, k \in Nat :
        Alike(shdrs, shdrs', k) /\ i # k => Same(shdrs, shdrs', i)
  BY UsedSections, AlikeSame
<1>2. Same(shdrs, shdrs', 0) BY DEF Same
<1>3. entries.shdr \in Nat /\ strtab.shdr \in Nat /\ symtab.shdr \in Nat
  BY UsedSections DEF Entries, Strtab, Symtab
<1>4. Apart BY DEF Settled
<1> QED BY <1>1, <1>2, <1>3, <1>4 DEF Apart

(* PT_PHDR is not disturbed by a change of PT_DYNAMIC.                     *)
LEMMA DynamicIsNotPhdr ==
  ASSUME Settled, NEW new \in PhdrTable, new.size = phdrs.size, Kin(phdrs.arr, new.arr),
         \A j \in 1 .. Len(phdrs.arr) : j # entries.phdr => new.arr[j] = phdrs.arr[j]
  PROVE  PhdrNames(ehdr, new)
<1>1. Whole /\ PhdrNames(ehdr, phdrs) BY DEF Settled, Agreed
<1>2. PtPhdr # 0 => new.arr[PtPhdr] = phdrs.arr[PtPhdr]
  <2>1. PtPhdr # 0 => PtPhdr \in 1 .. Len(phdrs.arr) /\ PtPhdr # entries.phdr
    BY <1>1, MemberTypes
  <2> QED BY <2>1
<1>3. phdrs \in PhdrTable BY UsedSections
<1> QED BY <1>1, <1>2, <1>3, PhdrNamesKept DEF PtPhdr

(* update_dyn_tbl_num.                                                     *)
LEMMA UpdateDynTblNumAgrees ==
  ASSUME Settled, NEW n \in U64, UpdateDynTblNum(n)
  PROVE  Agreed(ehdr', phdrs', shdrs', entries', strtab', symtab')
<1> DEFINE k == n * DynEnt
           es == NewEntries(n, k)
           new == NewDynamic(k)
<1>1. Whole /\ DynamicNames(phdrs, entries, shdrs) BY DEF Settled, Agreed
<1>2. k \in U64
  <2>1. ResizeTableOk(phdrs.arr, size, DynamicPhdr.offset, DynEnt, Len(entries.arr), n, TRUE)
    BY DEF UpdateDynTblNum, DynNumFits
  <2> QED BY <1>1, <2>1, MemberTypes, ResizeTableProperty, SizeAssumption, Naturals64
<1>3. /\ entries' = es /\ phdrs' = new /\ UNCHANGED <<ehdr, strtab, symtab>>
      /\ Dispensable(entries.arr, n, ZeroDyn)
  BY DEF UpdateDynTblNum, NewEntries, NewDynamic
<1>4. SectionBecomes(entries.shdr, shdrs.arr[entries.shdr].offset,
                     shdrs.arr[entries.shdr].addr, k)
  BY <1>1, SectionEffects
<1> HIDE DEF k
<1>5. /\ es.phdr = entries.phdr /\ es.shdr = entries.shdr /\ es.size = k /\ Len(es.arr) = n
      /\ \A j \in 1 .. Len(entries.arr) : entries.arr[j].tag # "NULL" =>
           j \in 1 .. n /\ es.arr[j] = entries.arr[j]
      /\ \A j \in 1 .. n : es.arr[j].tag # "NULL" => j \in 1 .. Len(entries.arr)
      /\ symtab.nsyms # 0 => symtab.dyn \in DynIndices(es.arr, "OTHER")
  BY <1>1, <1>2, <1>3, DynNumEntries
<1>6. /\ new \in PhdrTable /\ new.size = phdrs.size /\ Kin(phdrs.arr, new.arr)
      /\ \A j \in 1 .. Len(phdrs.arr) : j # entries.phdr => new.arr[j] = phdrs.arr[j]
      /\ new.arr[entries.phdr].offset = DynamicPhdr.offset
      /\ new.arr[entries.phdr].vaddr = DynamicPhdr.vaddr
      /\ new.arr[entries.phdr].filesz = k /\ new.arr[entries.phdr].memsz = k
  BY <1>1, <1>2, DynNumHeaders
<1> HIDE DEF es, new
<1>7. PhdrNames(ehdr', phdrs') BY <1>3, <1>6, DynamicIsNotPhdr
<1>8. DynamicNames(phdrs', entries', shdrs')
  BY <1>1, <1>3, <1>4, <1>5, <1>6 DEF DynamicNames, NamesRange, SectionBecomes, DynamicPhdr
<1>9. Same(shdrs, shdrs', strtab.shdr) /\ Same(shdrs, shdrs', symtab.shdr)
  BY <1>4, OthersSame DEF SectionBecomes
<1>10. \A t : t # "NULL" => DynIndices(es.arr, t) = DynIndices(entries.arr, t)
  <2> SUFFICES ASSUME NEW t, t # "NULL"
               PROVE  DynIndices(es.arr, t) = DynIndices(entries.arr, t)
    OBVIOUS
  <2>1. ASSUME NEW j \in DynIndices(entries.arr, t) PROVE j \in DynIndices(es.arr, t)
    BY <1>5, <2>1 DEF DynIndices
  <2>2. ASSUME NEW j \in DynIndices(es.arr, t) PROVE j \in DynIndices(entries.arr, t)
    <3>1. j \in 1 .. n /\ es.arr[j].tag = t BY <1>5, <2>2 DEF DynIndices
    <3>2. j \in 1 .. Len(entries.arr) BY <1>5, <3>1
    <3>3. CASE entries.arr[j].tag # "NULL" BY <1>5, <3>1, <3>2, <3>3 DEF DynIndices
    <3>4. CASE entries.arr[j].tag = "NULL"
      <4>1. es.arr[j] = entries.arr[j]
        BY <1>3, <1>2, <3>1, <3>2, UsedSections DEF es, NewEntries, Resized, Entries
      <4> QED BY <3>1, <3>4, <4>1
    <3> QED BY <3>3, <3>4
  <2> QED BY <2>1, <2>2
<1>11. \A t \in {"STRTAB", "STRSZ"} :
         /\ DynIndices(es.arr, t) = DynIndices(entries.arr, t)
         /\ \A j \in DynIndices(entries.arr, t) : es.arr[j] = entries.arr[j]
  BY <1>5, <1>10 DEF DynIndices
<1>12. /\ HasUniqueDyn(es.arr, "STRTAB") /\ HasUniqueDyn(es.arr, "STRSZ")
       /\ StrtabNames(es, strtab, shdrs')
  BY <1>9, <1>11, StrtabNamesKept DEF Settled, Agreed
<1>13. SymtabNames(es, symtab, shdrs')
  <2>1. symtab.nsyms # 0 => es.arr[symtab.dyn] = entries.arr[symtab.dyn]
    BY <1>1, <1>5 DEF Whole, Linked, DynIndices
  <2> QED BY <1>9, <2>1, SymtabNamesKept DEF Settled, Agreed
<1> QED BY <1>3, <1>7, <1>8, <1>12, <1>13 DEF Agreed

(* update_dyn_tbl_off.                                                     *)
LEMMA UpdateDynTblOffAgrees ==
  ASSUME Settled, NEW off \in U64, UpdateDynTblOff(off)
  PROVE  Agreed(ehdr', phdrs', shdrs', entries', strtab', symtab')
<1> DEFINE va == VaddrFromOff(phdrs.arr, off, entries.size).val
           new == MovedDynamic(off, va)
<1>1. Whole /\ DynamicNames(phdrs, entries, shdrs) BY DEF Settled, Agreed
<1>2. va \in U64 BY <1>1, MemberTypes, Naturals64, VaddrFromOffProperty
<1>3. phdrs' = new /\ UNCHANGED <<ehdr, entries, strtab, symtab>>
  BY DEF UpdateDynTblOff, MovedDynamic
<1>4. SectionBecomes(entries.shdr, off, va, shdrs.arr[entries.shdr].size)
  BY <1>1, SectionEffects
<1> HIDE DEF va
<1>5. /\ new \in PhdrTable /\ new.size = phdrs.size /\ Kin(phdrs.arr, new.arr)
      /\ \A j \in 1 .. Len(phdrs.arr) : j # entries.phdr => new.arr[j] = phdrs.arr[j]
      /\ new.arr[entries.phdr].offset = off /\ new.arr[entries.phdr].vaddr = va
      /\ new.arr[entries.phdr].filesz = DynamicPhdr.filesz
      /\ new.arr[entries.phdr].memsz = DynamicPhdr.memsz
  BY <1>1, <1>2, DynOffHeaders
<1> HIDE DEF new
<1>6. PhdrNames(ehdr', phdrs') BY <1>3, <1>5, DynamicIsNotPhdr
<1>7. DynamicNames(phdrs', entries', shdrs')
  BY <1>1, <1>3, <1>4, <1>5 DEF DynamicNames, NamesRange, SectionBecomes, DynamicPhdr
<1>8. Same(shdrs, shdrs', strtab.shdr) /\ Same(shdrs, shdrs', symtab.shdr)
  BY <1>4, OthersSame DEF SectionBecomes
<1>9. HasUniqueDyn(entries.arr, "STRTAB") /\ HasUniqueDyn(entries.arr, "STRSZ")
      /\ StrtabNames(entries, strtab, shdrs')
  BY <1>8, StrtabNamesKept DEF Settled, Agreed
<1>10. SymtabNames(entries, symtab, shdrs') BY <1>8, SymtabNamesKept DEF Settled, Agreed
<1> QED BY <1>3, <1>6, <1>7, <1>9, <1>10 DEF Agreed

(* The dynamic entries have other values; PT_DYNAMIC stays.                *)
LEMMA ValuesAgree ==
  ASSUME Settled, UNCHANGED <<ehdr, phdrs>>, SameTags(entries, entries'),
         Same(shdrs, shdrs', entries.shdr)
  PROVE  PhdrNames(ehdr', phdrs') /\ DynamicNames(phdrs', entries', shdrs')
<1>1. /\ PhdrNames(ehdr, phdrs) /\ DynamicNames(phdrs, entries, shdrs)
      /\ entries'.phdr = entries.phdr /\ entries'.shdr = entries.shdr
      /\ entries'.size = entries.size
  BY DEF Settled, Agreed, SameTags
<1> QED BY <1>1, DynamicNamesKept

(* update_dynstr_range.                                                    *)
LEMMA UpdateDynstrRangeAgrees ==
  ASSUME Settled, NEW addr \in U64, NEW len \in U64, UpdateDynstrRange(addr, len)
  PROVE  Agreed(ehdr', phdrs', shdrs', entries', strtab', symtab')
<1> DEFINE at == DynstrAt(addr, len)
           a == DynIndex(entries.arr, "STRTAB")
           b == DynIndex(entries.arr, "STRSZ")
           mid == [entries EXCEPT !.arr[a].val = addr]
           new == [mid EXCEPT !.arr[b].val = len]
<1>1. Whole /\ SymtabNames(entries, symtab, shdrs) BY DEF Settled, Agreed
<1>2. /\ a \in DynIndices(entries.arr, "STRTAB") /\ b \in DynIndices(entries.arr, "STRSZ")
      /\ HasUniqueDyn(entries.arr, "STRTAB") /\ HasUniqueDyn(entries.arr, "STRSZ")
  BY DEF UpdateDynstrRange, HasUniqueDyn, DynIndex
<1>3. /\ entries' = new
      /\ strtab' = [strtab EXCEPT !.vaddr = addr, !.off = at.val, !.size = len]
      /\ UNCHANGED <<ehdr, phdrs, symtab>>
  BY DEF UpdateDynstrRange
<1>4. SectionBecomes(strtab.shdr, at.val, addr, len) BY <1>1, SectionEffects
<1> HIDE DEF at
<1>5. strtab'.vaddr = addr /\ strtab'.off = at.val /\ strtab'.size = len
      /\ strtab'.shdr = strtab.shdr
  BY <1>3, UsedSections DEF Strtab
<1>6. a # b BY <1>2 DEF DynIndices
<1>7. a \in 1 .. Len(entries.arr) /\ b \in 1 .. Len(entries.arr) BY <1>2 DEF DynIndices
<1>8. /\ SameTags(entries, new) /\ new.arr[a].val = addr /\ new.arr[b].val = len
      /\ \A j \in 1 .. Len(entries.arr) : j # a /\ j # b => new.arr[j] = entries.arr[j]
  <2> HIDE DEF a, b
  <2>1. /\ SameTags(entries, mid) /\ mid.arr[a].val = addr
        /\ \A j \in 1 .. Len(entries.arr) : j # a => mid.arr[j] = entries.arr[j]
    BY <1>7, UsedSections, ValueAssigned
  <2> HIDE DEF mid
  <2>2. mid \in Entries /\ b \in 1 .. Len(mid.arr) /\ Len(mid.arr) = Len(entries.arr)
    BY <1>7, <2>1 DEF SameTags
  <2>3. /\ SameTags(mid, new) /\ new.arr[b].val = len
        /\ \A j \in 1 .. Len(mid.arr) : j # b => new.arr[j] = mid.arr[j]
    BY <2>2, ValueAssigned
  <2> HIDE DEF new
  <2>4. new.arr[a].val = addr BY <1>6, <1>7, <2>1, <2>2, <2>3
  <2>5. SameTags(entries, new) BY <2>1, <2>3 DEF SameTags
  <2> QED BY <2>1, <2>2, <2>3, <2>4, <2>5
<1>9. DynIndex(new.arr, "STRTAB") = a /\ DynIndex(new.arr, "STRSZ") = b
      /\ HasUniqueDyn(new.arr, "STRTAB") /\ HasUniqueDyn(new.arr, "STRSZ")
  <2> HIDE DEF new
  <2>1. \A t : DynIndices(new.arr, t) = DynIndices(entries.arr, t)
    BY <1>8 DEF SameTags, DynIndices
  <2> QED BY <1>2, <2>1 DEF DynIndex, HasUniqueDyn
<1>10. symtab.nsyms # 0 => symtab.dyn \in 1 .. Len(entries.arr) /\ symtab.dyn \notin {a, b}
  BY <1>1, <1>2 DEF Whole, Linked, DynIndices
<1> HIDE DEF a, b, mid, new
<1>11. Same(shdrs, shdrs', entries.shdr) /\ Same(shdrs, shdrs', symtab.shdr)
  BY <1>4, OthersSame DEF SectionBecomes
<1>12. PhdrNames(ehdr', phdrs') /\ DynamicNames(phdrs', entries', shdrs')
  BY <1>3, <1>8, <1>11, ValuesAgree
<1>13. StrtabNames(entries', strtab', shdrs')
  BY <1>3, <1>4, <1>5, <1>8, <1>9 DEF StrtabNames, NamesRange, SectionBecomes
<1>14. SymtabNames(entries', symtab', shdrs')
  BY <1>1, <1>3, <1>8, <1>10, <1>11, SymtabNamesKept
<1> QED BY <1>3, <1>9, <1>12, <1>13, <1>14 DEF Agreed

(* update_dyn_sym_count.                                                   *)
LEMMA UpdateDynSymCountAgrees ==
  ASSUME Settled, NEW n \in U64, UpdateDynSymCount(n)
  PROVE  Agreed(ehdr', phdrs', shdrs', entries', strtab', symtab')
<1> DEFINE k == n * SymEnt
           i == symtab.shdr
<1>1. Whole /\ PhdrNames(ehdr, phdrs) /\ DynamicNames(phdrs, entries, shdrs)
      /\ HasUniqueDyn(entries.arr, "STRTAB") /\ HasUniqueDyn(entries.arr, "STRSZ")
      /\ StrtabNames(entries, strtab, shdrs) /\ SymtabNames(entries, symtab, shdrs)
  BY DEF Settled, Agreed
<1>2. /\ symtab' = [symtab EXCEPT !.nsyms = n, !.size = k] /\ symtab.nsyms # 0
      /\ UNCHANGED <<ehdr, phdrs, entries, strtab>>
  BY DEF UpdateDynSymCount
<1>3. SectionBecomes(i, shdrs.arr[i].offset, shdrs.arr[i].addr, k) BY <1>1, SectionEffects
<1> HIDE DEF k
<1>4. symtab'.size = k /\ symtab'.off = symtab.off /\ symtab'.vaddr = symtab.vaddr
      /\ symtab'.shdr = i /\ symtab'.dyn = symtab.dyn
  BY <1>2, UsedSections DEF Symtab
<1>5. Same(shdrs, shdrs', entries.shdr) /\ Same(shdrs, shdrs', strtab.shdr)
  BY <1>3, OthersSame DEF SectionBecomes
<1>6. DynamicNames(phdrs, entries, shdrs') BY <1>1, <1>5, DynamicNamesKept
<1>7. StrtabNames(entries, strtab, shdrs') BY <1>1, <1>5, StrtabNamesKept
<1>8. SymtabNames(entries, symtab', shdrs')
  BY <1>1, <1>2, <1>3, <1>4 DEF SymtabNames, NamesRange, SectionBecomes
<1> QED BY <1>1, <1>2, <1>6, <1>7, <1>8 DEF Agreed

(* update_dyn_symtab_off.                                                  *)
LEMMA UpdateDynSymtabOffAgrees ==
  ASSUME Settled, NEW off \in U64, UpdateDynSymtabOff(off)
  PROVE  Agreed(ehdr', phdrs', shdrs', entries', strtab', symtab')
<1> DEFINE va == VaddrFromOff(phdrs.arr, off, entries.size).val
           d == symtab.dyn
           i == symtab.shdr
           new == [entries EXCEPT !.arr[d].val = va]
<1>1. Whole /\ SymtabNames(entries, symtab, shdrs) /\ StrtabNames(entries, strtab, shdrs)
      /\ HasUniqueDyn(entries.arr, "STRTAB") /\ HasUniqueDyn(entries.arr, "STRSZ")
  BY DEF Settled, Agreed
<1>2. va \in U64 BY <1>1, MemberTypes, Naturals64, VaddrFromOffProperty
<1>3. /\ entries' = new /\ symtab' = [symtab EXCEPT !.off = off, !.vaddr = va]
      /\ symtab.nsyms # 0 /\ UNCHANGED <<ehdr, phdrs, strtab>>
  BY DEF UpdateDynSymtabOff
<1>4. SectionBecomes(i, off, va, shdrs.arr[i].size) BY <1>1, SectionEffects
<1> HIDE DEF va
<1>5. symtab'.size = symtab.size /\ symtab'.off = off /\ symtab'.vaddr = va
      /\ symtab'.shdr = i /\ symtab'.dyn = d
  BY <1>3, UsedSections DEF Symtab
<1>6. d \in 1 .. Len(entries.arr) /\ entries.arr[d].tag = "OTHER"
  BY <1>1, <1>3 DEF Whole, Linked, DynIndices
<1>7. /\ SameTags(entries, new) /\ new.arr[d].val = va
      /\ \A j \in 1 .. Len(entries.arr) : j # d => new.arr[j] = entries.arr[j]
  BY <1>2, <1>6, UsedSections, ValueAssigned
<1> HIDE DEF new, d
<1>8. \A t \in {"STRTAB", "STRSZ"} :
        /\ DynIndices(new.arr, t) = DynIndices(entries.arr, t)
        /\ \A j \in DynIndices(entries.arr, t) : new.arr[j] = entries.arr[j]
  BY <1>6, <1>7 DEF SameTags, DynIndices
<1>9. Same(shdrs, shdrs', entries.shdr) /\ Same(shdrs, shdrs', strtab.shdr)
  BY <1>4, OthersSame DEF SectionBecomes
<1>10. PhdrNames(ehdr', phdrs') /\ DynamicNames(phdrs', entries', shdrs')
  BY <1>3, <1>7, <1>9, ValuesAgree
<1>11. /\ HasUniqueDyn(new.arr, "STRTAB") /\ HasUniqueDyn(new.arr, "STRSZ")
       /\ StrtabNames(new, strtab, shdrs')
  BY <1>1, <1>8, <1>9, StrtabNamesKept
<1>12. SymtabNames(new, symtab', shdrs')
  BY <1>1, <1>3, <1>4, <1>5, <1>7 DEF SymtabNames, NamesRange, SectionBecomes
<1> QED BY <1>3, <1>10, <1>11, <1>12 DEF Agreed

(* Every update keeps the copies in step.                                  *)
LEMMA UpdateAgrees ==
  ASSUME Settled, Update
  PROVE  Agreed(ehdr', phdrs', shdrs', entries', strtab', symtab')
<1>1. Counts \subseteq U64 /\ Offsets \subseteq U64 /\ Indices \subseteq U64
      /\ \A s \in Segments : s \in Phdr /\ s.type = "LOAD"
  BY ClientAssumption
<1>2. CASE \E n \in Counts : UpdatePhnum(n) BY <1>1, <1>2, UpdatePhnumAgrees
<1>3. CASE \E n \in Counts : UpdateDynTblNum(n) BY <1>1, <1>3, UpdateDynTblNumAgrees
<1>4. CASE \E n \in Counts : UpdateDynSymCount(n) BY <1>1, <1>4, UpdateDynSymCountAgrees
<1>5. CASE \E off \in Offsets : UpdatePhoff(off) BY <1>1, <1>5, UpdatePhoffAgrees
<1>6. CASE \E off \in Offsets : UpdateDynTblOff(off) BY <1>1, <1>6, UpdateDynTblOffAgrees
<1>7. CASE \E off \in Offsets : UpdateDynSymtabOff(off) BY <1>1, <1>7, UpdateDynSymtabOffAgrees
<1>8. CASE \E addr \in Offsets, len \in Counts : UpdateDynstrRange(addr, len)
  BY <1>1, <1>8, UpdateDynstrRangeAgrees
<1>9. CASE shdrs.arr # <<>> /\ \E n \in Counts : UpdateShnum(n) BY <1>1, <1>9, UpdateShnumAgrees
<1>10. CASE shdrs.arr # <<>> /\ \E off \in Offsets : UpdateShoff(off)
  BY <1>1, <1>10, OtherUpdatesAgree
<1>11. CASE shdrs.arr # <<>> /\ \E i \in Indices : i < Len(shdrs.arr) /\ UpdateShstrndx(i)
  BY <1>1, <1>11, OtherUpdatesAgree
<1>12. CASE \E s \in Segments : FillPhdr(s) BY <1>1, <1>12, FillPhdrAgrees
<1>13. CASE GrowData BY <1>13, OtherUpdatesAgree
<1> QED
  BY <1>2, <1>3, <1>4, <1>5, <1>6, <1>7, <1>8, <1>9, <1>10, <1>11, <1>12, <1>13 DEF Update

(* Where PT_PHDR, PT_DYNAMIC, the sections and the dynamic entries say a   *)
(* table is, and how long, is what the struct elf says, however the tables *)
(* are resized and moved, if it is so in the file that was parsed.         *)
(* parse_elf insists neither on the size in memory of PT_PHDR and          *)
(* PT_DYNAMIC nor on the first section header being none of those sections. *)
THEOREM PlacesAgree == Spec /\ FirstSectionFree /\ TablesAgree => []TablesAgree
<1> DEFINE AgreeInv ==
      /\ FirstSectionFree /\ Apart
      /\ pc = "ready" => Agreed(ehdr, phdrs, shdrs, entries, strtab, symtab)
<1>1. Init /\ FirstSectionFree /\ TablesAgree => AgreeInv
  <2> SUFFICES ASSUME Init, TablesAgree
               PROVE  Apart /\ Agreed(ehdr, phdrs, shdrs, entries, strtab, symtab)
    OBVIOUS
  <2>1. PICK p \in Parsed :
          shdrs = p.shdrs /\ entries = p.entries /\ strtab = p.strtab /\ symtab = p.symtab
    BY DEF Init
  <2>2. /\ SectionOf(p, p.entries.shdr, "DYNAMIC") /\ SectionOf(p, p.strtab.shdr, "STRTAB")
        /\ SectionOf(p, p.symtab.shdr, "OTHER")
        /\ HasUniqueDyn(p.entries.arr, "STRTAB") /\ HasUniqueDyn(p.entries.arr, "STRSZ")
    BY ParsedAssumption DEF IsParsed
  <2>3. Apart BY <2>1, <2>2 DEF Apart, SectionOf
  <2>4. PtPhdrAgrees /\ DynamicAgrees /\ StrtabAgrees /\ SymtabAgrees
    BY DEF TablesAgree, Init
  <2>5. PhdrNames(ehdr, phdrs) BY <2>4 DEF PtPhdrAgrees, PhdrNames, PtPhdr
  <2>6. DynamicNames(phdrs, entries, shdrs)
    BY <2>4 DEF DynamicAgrees, DynamicNames, DynamicPhdr, SectionNames, NamesRange
  <2>7. StrtabNames(entries, strtab, shdrs)
    BY <2>4 DEF StrtabAgrees, StrtabNames, SectionNames, NamesRange
  <2>8. SymtabNames(entries, symtab, shdrs)
    BY <2>4 DEF SymtabAgrees, SymtabNames, SectionNames, NamesRange
  <2> QED BY <2>1, <2>2, <2>3, <2>5, <2>6, <2>7, <2>8 DEF Agreed
<1>2. FileInv /\ AgreeInv /\ [Next]_vars => AgreeInv'
  <2> SUFFICES ASSUME FileInv, AgreeInv, [Next]_vars PROVE AgreeInv' OBVIOUS
  <2>1. CASE UNCHANGED vars BY <2>1 DEF vars, elf, FirstSectionFree, Apart
  <2>2. CASE Next
    <3>1. Whole /\ pc = "ready" BY <2>2 DEF FileInv, Next, UpdateStep, FailStep, SerializeStep
    <3>2. FirstSectionFree' /\ Apart'
      BY <2>2, <3>1, IndicesFixed DEF FirstSectionFree, Apart, Whole
    <3>3. CASE UpdateStep
      <4>1. Settled BY <3>1 DEF Settled
      <4>2. Agreed(ehdr', phdrs', shdrs', entries', strtab', symtab')
        BY <3>3, <4>1, UpdateAgrees DEF UpdateStep
      <4> QED BY <3>2, <4>2
    <3>4. CASE FailStep BY <3>2, <3>4 DEF FailStep, PhnumFails, ShnumFails
    <3>5. CASE SerializeStep
      <4>1. UNCHANGED <<ehdr, phdrs, shdrs, entries, strtab, symtab>>
        BY <3>5 DEF SerializeStep, SerializeElf
      <4> QED BY <3>1, <3>2, <4>1
    <3> QED BY <2>2, <3>3, <3>4, <3>5 DEF Next
  <2> QED BY <2>1, <2>2
<1>3. AgreeInv => TablesAgree
  <2> SUFFICES ASSUME Agreed(ehdr, phdrs, shdrs, entries, strtab, symtab)
               PROVE  PtPhdrAgrees /\ DynamicAgrees /\ StrtabAgrees /\ SymtabAgrees
    BY DEF TablesAgree
  <2>1. PhdrNames(ehdr, phdrs) /\ DynamicNames(phdrs, entries, shdrs)
        /\ StrtabNames(entries, strtab, shdrs) /\ SymtabNames(entries, symtab, shdrs)
    BY DEF Agreed
  <2>2. PtPhdrAgrees BY <2>1 DEF PtPhdrAgrees, PhdrNames, PtPhdr
  <2>3. DynamicAgrees
    BY <2>1 DEF DynamicAgrees, DynamicNames, DynamicPhdr, SectionNames, NamesRange
  <2>4. StrtabAgrees BY <2>1 DEF StrtabAgrees, StrtabNames, SectionNames, NamesRange
  <2>5. SymtabAgrees BY <2>1 DEF SymtabAgrees, SymtabNames, SectionNames, NamesRange
  <2> QED BY <2>2, <2>3, <2>4, <2>5
<1> QED BY <1>1, <1>2, <1>3, FileInvHolds, PTL DEF Spec

-----------------------------------------------------------------------------
(* Addresses                                                               *)

(* Two segments in which one byte of the file lies give it one address, as *)
(* the segments of a program do that a linker has laid out.                *)
SharesFile(s, t) == s.offset < t.offset + t.filesz /\ t.offset < s.offset + s.filesz

(* ... as all of a set of segments do.                                     *)
Consistent(S) == \A s, t \in S : SharesFile(s, t) => s.vaddr + t.offset = t.vaddr + s.offset

(* The segments of a program header table.                                 *)
LoadsOf(phs) == {phs[i] : i \in IndicesOf(phs, "LOAD")}

(* Also with the segments the client adds.                                 *)
OneAddress == Consistent(LoadsOf(phdrs.arr) \cup Segments)

(* A table whose segments are found before those that another has more.    *)
Outgrown(phs, new) ==
  /\ \A j \in IndicesOf(phs, "LOAD") : j \in IndicesOf(new, "LOAD") /\ new[j] = phs[j]
  /\ \A j \in IndicesOf(new, "LOAD") \ IndicesOf(phs, "LOAD") :
       \A k \in IndicesOf(phs, "LOAD") : k < j

(* What is found first in a set stays so with larger indices.              *)
LEMMA FirstOfMore ==
  ASSUME NEW S \in SUBSET (Nat \ {0}), NEW T \in SUBSET (Nat \ {0}), S # {}, S \subseteq T,
         \A j \in T \ S, k \in S : k < j
  PROVE  FirstOf(T) = FirstOf(S)
<1>1. FirstOf(S) \in S /\ \A j \in S : FirstOf(S) <= j BY FirstOfProperty
<1>2. FirstOf(T) \in T /\ \A j \in T : FirstOf(T) <= j BY FirstOfProperty
<1> HIDE DEF FirstOf
<1>3. FirstOf(T) <= FirstOf(S) /\ FirstOf(T) \in Nat /\ FirstOf(S) \in Nat BY <1>1, <1>2
<1>4. FirstOf(T) \in S
  <2>1. SUFFICES ASSUME FirstOf(T) \notin S PROVE FALSE OBVIOUS
  <2>2. FirstOf(S) < FirstOf(T) BY <1>1, <1>2, <2>1
  <2> QED BY <1>3, <2>2
<1> QED BY <1>1, <1>3, <1>4

(* So a segment that is found stays found.                                 *)
LEMMA FoundAgain ==
  ASSUME NEW phs \in Seq(Phdr), NEW new \in Seq(Phdr), Outgrown(phs, new),
         NEW start \in Nat, NEW len \in Nat
  PROVE  /\ LET i == ContainingMemPtload(phs, start, len) IN
            i # 0 => ContainingMemPtload(new, start, len) = i /\ new[i] = phs[i]
         /\ LET i == ContainingFilePtload(phs, start, len) IN
            i # 0 => ContainingFilePtload(new, start, len) = i /\ new[i] = phs[i]
<1> DEFINE old == IndicesOf(phs, "LOAD")
           all == IndicesOf(new, "LOAD")
<1>1. old \in SUBSET (Nat \ {0}) /\ all \in SUBSET (Nat \ {0}) BY DEF IndicesOf
<1>2. /\ \A j \in old : j \in all /\ new[j] = phs[j]
      /\ \A j \in all \ old : \A k \in old : k < j
  BY DEF Outgrown
<1>3. ASSUME ContainingMemPtload(phs, start, len) # 0
      PROVE  LET i == ContainingMemPtload(phs, start, len) IN
             ContainingMemPtload(new, start, len) = i /\ new[i] = phs[i]
  <2> DEFINE S == {i \in old : MemContains(phs[i], start, len)}
             T == {i \in all : MemContains(new[i], start, len)}
  <2>1. ~ (start > MaxU - len) /\ ContainingMemPtload(phs, start, len) = FirstOf(S)
        /\ ContainingMemPtload(new, start, len) = FirstOf(T)
    BY <1>3 DEF ContainingMemPtload
  <2> HIDE DEF old, all
  <2>2. S \in SUBSET (Nat \ {0}) /\ T \in SUBSET (Nat \ {0}) /\ S \subseteq T
        /\ \A j \in T \ S, k \in S : k < j
    BY <1>1, <1>2
  <2>3. S \subseteq old OBVIOUS
  <2> HIDE DEF S, T
  <2>4. S # {} /\ FirstOf(S) \in S BY <1>3, <2>1, <2>2, FirstOfProperty
  <2>5. FirstOf(T) = FirstOf(S) BY <2>2, <2>4, FirstOfMore
  <2>6. new[FirstOf(S)] = phs[FirstOf(S)] BY <1>2, <2>3, <2>4
  <2> QED BY <2>1, <2>5, <2>6
<1>4. ASSUME ContainingFilePtload(phs, start, len) # 0
      PROVE  LET i == ContainingFilePtload(phs, start, len) IN
             ContainingFilePtload(new, start, len) = i /\ new[i] = phs[i]
  <2> DEFINE S == {i \in old : FileContains(phs[i], start, len)}
             T == {i \in all : FileContains(new[i], start, len)}
  <2>1. ~ (start > MaxU - len) /\ ContainingFilePtload(phs, start, len) = FirstOf(S)
        /\ ContainingFilePtload(new, start, len) = FirstOf(T)
    BY <1>4 DEF ContainingFilePtload
  <2> HIDE DEF old, all
  <2>2. S \in SUBSET (Nat \ {0}) /\ T \in SUBSET (Nat \ {0}) /\ S \subseteq T
        /\ \A j \in T \ S, k \in S : k < j
    BY <1>1, <1>2
  <2>3. S \subseteq old OBVIOUS
  <2> HIDE DEF S, T
  <2>4. S # {} /\ FirstOf(S) \in S BY <1>4, <2>1, <2>2, FirstOfProperty
  <2>5. FirstOf(T) = FirstOf(S) BY <2>2, <2>4, FirstOfMore
  <2>6. new[FirstOf(S)] = phs[FirstOf(S)] BY <1>2, <2>3, <2>4
  <2> QED BY <2>1, <2>5, <2>6
<1> QED BY <1>3, <1>4

(* MappedAt, of any program header table.                                  *)
LiesAt(phs, off, vaddr, len) == VaddrFromOff(phs, off, len) = [ok |-> TRUE, val |-> vaddr]

(* A place has an address when the segment found for it in the file is the *)
(* one that is found for that address in memory.                           *)
LEMMA LiesAtMeans ==
  ASSUME NEW phs \in Seq(Phdr), NEW off \in Nat, NEW len \in Nat, NEW vaddr
  PROVE  LET i == ContainingFilePtload(phs, off, len)
             va == phs[i].vaddr + (off - phs[i].offset)
         IN  /\ LiesAt(phs, off, vaddr, len) <=>
                  /\ i # 0 /\ vaddr = va
                  /\ off - phs[i].offset <= MaxU - phs[i].vaddr
                  /\ ContainingMemPtload(phs, va, len) = i
             /\ VaddrFromOff(phs, off, len).ok <=> LiesAt(phs, off, va, len)
             /\ i # 0 => va \in Nat /\ phs[i] \in LoadsOf(phs) /\ FileContains(phs[i], off, len)
                         /\ phs[i] \in Phdr
<1> DEFINE i == ContainingFilePtload(phs, off, len)
           va == phs[i].vaddr + (off - phs[i].offset)
           ok == /\ i # 0 /\ off - phs[i].offset <= MaxU - phs[i].vaddr
                 /\ ContainingMemPtload(phs, va, len) = i
<1>1. VaddrFromOff(phs, off, len)
        = IF ok THEN [ok |-> TRUE, val |-> va] ELSE [ok |-> FALSE, val |-> 0]
  BY DEF VaddrFromOff
<1>2. i \in 0 .. Len(phs)
      /\ (i # 0 => phs[i].type = "LOAD" /\ FileContains(phs[i], off, len))
  BY ContainingFileProperty
<1> HIDE DEF i
<1>3. i # 0 => va \in Nat /\ phs[i] \in LoadsOf(phs) /\ FileContains(phs[i], off, len)
               /\ phs[i] \in Phdr
  <2> SUFFICES ASSUME i # 0
               PROVE  va \in Nat /\ phs[i] \in LoadsOf(phs) /\ FileContains(phs[i], off, len)
                      /\ phs[i] \in Phdr
    OBVIOUS
  <2>1. i \in 1 .. Len(phs) /\ phs[i] \in Phdr BY <1>2
  <2>2. i \in IndicesOf(phs, "LOAD") BY <1>2, <2>1 DEF IndicesOf
  <2>3. phs[i].offset \in Nat /\ phs[i].vaddr \in Nat /\ phs[i].offset <= off
    BY <1>2, <2>1, PhdrFields DEF FileContains
  <2>4. va \in Nat BY <2>3
  <2> QED BY <1>2, <2>1, <2>2, <2>4 DEF LoadsOf
<1> HIDE DEF va, ok
<1>4. CASE ok
  <2>1. VaddrFromOff(phs, off, len) = [ok |-> TRUE, val |-> va] BY <1>1, <1>4
  <2>2. LiesAt(phs, off, vaddr, len) <=> vaddr = va
    <3>1. LiesAt(phs, off, vaddr, len)
            <=> [ok |-> TRUE, val |-> va] = [ok |-> TRUE, val |-> vaddr]
      BY <2>1 DEF LiesAt
    <3>2. [ok |-> TRUE, val |-> va].val = va /\ [ok |-> TRUE, val |-> vaddr].val = vaddr OBVIOUS
    <3>3. ASSUME [ok |-> TRUE, val |-> va] = [ok |-> TRUE, val |-> vaddr] PROVE vaddr = va
      BY ONLY <3>2, <3>3
    <3>4. ASSUME vaddr = va PROVE [ok |-> TRUE, val |-> va] = [ok |-> TRUE, val |-> vaddr]
      BY ONLY <3>4
    <3> QED BY ONLY <3>1, <3>3, <3>4
  <2>3. VaddrFromOff(phs, off, len).ok /\ LiesAt(phs, off, va, len) BY <2>1 DEF LiesAt
  <2> QED BY <1>3, <1>4, <2>2, <2>3 DEF ok, va, i
<1>5. CASE ~ ok
  <2>1. VaddrFromOff(phs, off, len) = [ok |-> FALSE, val |-> 0] BY <1>1, <1>5
  <2>2. ~ LiesAt(phs, off, vaddr, len) /\ ~ LiesAt(phs, off, va, len) BY <2>1 DEF LiesAt
  <2>3. ~ VaddrFromOff(phs, off, len).ok BY <2>1
  <2> QED BY <1>3, <1>5, <2>2, <2>3 DEF ok, va, i
<1> QED BY <1>4, <1>5

(* A table that grows no other segments before them keeps the addresses.   *)
LEMMA LiesStill ==
  ASSUME NEW phs \in Seq(Phdr), NEW new \in Seq(Phdr), Outgrown(phs, new),
         NEW off \in Nat, NEW len \in Nat, NEW vaddr, LiesAt(phs, off, vaddr, len)
  PROVE  LiesAt(new, off, vaddr, len)
<1> DEFINE i == ContainingFilePtload(phs, off, len)
           va == phs[i].vaddr + (off - phs[i].offset)
<1>1. /\ i # 0 /\ vaddr = va /\ va \in Nat
      /\ off - phs[i].offset <= MaxU - phs[i].vaddr
      /\ ContainingMemPtload(phs, va, len) = i
  BY LiesAtMeans
<1>2. ContainingFilePtload(new, off, len) = i /\ new[i] = phs[i] BY <1>1, FoundAgain
<1>3. ContainingMemPtload(new, va, len) = i BY <1>1, FoundAgain
<1> QED BY <1>1, <1>2, <1>3, LiesAtMeans

(* Of two segments that contain a place, whatever the sizes.               *)
LEMMA PlaceShared ==
  ASSUME NEW s \in Phdr, NEW t \in Phdr, NEW off \in Nat,
         NEW m \in Nat \ {0}, NEW n \in Nat \ {0},
         FileContains(s, off, m), FileContains(t, off, n)
  PROVE  /\ SharesFile(s, t)
         /\ s.vaddr + t.offset = t.vaddr + s.offset =>
              t.vaddr + (off - t.offset) = s.vaddr + (off - s.offset)
<1> DEFINE so == s.offset
           sv == s.vaddr
           sf == s.filesz
           to == t.offset
           tv == t.vaddr
           tf == t.filesz
<1>1. /\ so \in Nat /\ sv \in Nat /\ sf \in Nat /\ to \in Nat /\ tv \in Nat /\ tf \in Nat
  BY PhdrFields
<1>2. so <= off /\ off + m <= so + sf /\ to <= off /\ off + n <= to + tf
  BY DEF FileContains
<1> HIDE DEF so, sv, sf, to, tv, tf
<1>3. so < to + tf /\ to < so + sf BY <1>1, <1>2
<1>4. sv + to = tv + so => tv + (off - to) = sv + (off - so) BY <1>1
<1> QED BY <1>3, <1>4 DEF so, sv, sf, to, tv, tf, SharesFile

(* A table of another size at the same place has the same address.         *)
LEMMA LiesResized ==
  ASSUME NEW phs \in Seq(Phdr), Consistent(LoadsOf(phs)), NEW off \in Nat,
         NEW m \in Nat \ {0}, NEW n \in Nat \ {0}, NEW vaddr,
         LiesAt(phs, off, vaddr, m), VaddrFromOff(phs, off, n).ok
  PROVE  LiesAt(phs, off, vaddr, n)
<1> DEFINE i == ContainingFilePtload(phs, off, m)
           j == ContainingFilePtload(phs, off, n)
<1>1. /\ i # 0 /\ vaddr = phs[i].vaddr + (off - phs[i].offset)
      /\ phs[i] \in LoadsOf(phs) /\ FileContains(phs[i], off, m) /\ phs[i] \in Phdr
  BY LiesAtMeans
<1>2. /\ LiesAt(phs, off, phs[j].vaddr + (off - phs[j].offset), n)
      /\ j # 0 /\ phs[j] \in LoadsOf(phs) /\ FileContains(phs[j], off, n) /\ phs[j] \in Phdr
  BY LiesAtMeans
<1> HIDE DEF i, j
<1>3. /\ SharesFile(phs[i], phs[j])
      /\ phs[i].vaddr + phs[j].offset = phs[j].vaddr + phs[i].offset =>
           phs[j].vaddr + (off - phs[j].offset) = phs[i].vaddr + (off - phs[i].offset)
  BY <1>1, <1>2, PlaceShared
<1>4. phs[i].vaddr + phs[j].offset = phs[j].vaddr + phs[i].offset
  BY <1>1, <1>2, <1>3 DEF Consistent
<1>5. phs[j].vaddr + (off - phs[j].offset) = vaddr BY <1>1, <1>3, <1>4
<1> QED BY <1>2, <1>5

(* The place of an address has that address.                               *)
LEMMA LiesThere ==
  ASSUME NEW phs \in Seq(Phdr), NEW vaddr \in U64, NEW len \in Nat,
         OffFromVaddr(phs, vaddr, len).ok
  PROVE  LiesAt(phs, OffFromVaddr(phs, vaddr, len).val, vaddr, len)
<1> DEFINE i == ContainingMemPtload(phs, vaddr, len)
           off == phs[i].offset + (vaddr - phs[i].vaddr)
<1>1. /\ i # 0 /\ ContainingFilePtload(phs, off, len) = i
      /\ OffFromVaddr(phs, vaddr, len).val = off
  BY DEF OffFromVaddr
<1>2. vaddr \in Nat /\ vaddr <= MaxU /\ MaxU \in Nat BY Naturals64, WidthAssumption
<1>3. i \in 1 .. Len(phs) /\ MemContains(phs[i], vaddr, len)
  <2>1. i \in 0 .. Len(phs) /\ (i # 0 => MemContains(phs[i], vaddr, len))
    BY <1>2, ContainingMemProperty
  <2> QED BY <1>1, <2>1
<1>4. phs[i] \in Phdr BY <1>3
<1>5. phs[i].offset \in Nat /\ phs[i].vaddr \in Nat /\ phs[i].vaddr <= vaddr
  BY <1>3, <1>4, PhdrFields DEF MemContains
<1>6. ContainingMemPtload(phs, vaddr, len) = i OBVIOUS
<1>7. /\ off \in Nat /\ phs[i].vaddr + (off - phs[i].offset) = vaddr
      /\ off - phs[i].offset <= MaxU - phs[i].vaddr
  <2> DEFINE o == phs[i].offset
             v == phs[i].vaddr
  <2>1. o \in Nat /\ v \in Nat /\ v <= vaddr BY <1>5
  <2>2. off = o + (vaddr - v) OBVIOUS
  <2> HIDE DEF o, v, off
  <2>3. off \in Nat /\ v + (off - o) = vaddr /\ off - o <= MaxU - v BY <1>2, <2>1, <2>2
  <2> QED BY <2>3 DEF o, v
<1> HIDE DEF off, i
<1>8. LiesAt(phs, off, vaddr, len) BY <1>1, <1>6, <1>7, LiesAtMeans
<1> QED BY <1>1, <1>8

(* The address that is found for a place is its address.                   *)
LEMMA LiesAtValue ==
  ASSUME NEW phs \in Seq(Phdr), NEW off \in Nat, NEW len \in Nat,
         VaddrFromOff(phs, off, len).ok
  PROVE  LiesAt(phs, off, VaddrFromOff(phs, off, len).val, len)
<1> DEFINE i == ContainingFilePtload(phs, off, len)
           va == phs[i].vaddr + (off - phs[i].offset)
<1>1. LiesAt(phs, off, va, len) BY LiesAtMeans
<1> HIDE DEF va
<1>2. VaddrFromOff(phs, off, len).val = va BY <1>1 DEF LiesAt
<1> QED BY <1>1, <1>2

(* What TablesStayMapped says, of any headers and members: of PT_PHDR, ... *)
PhdrMapped(phs, off, len) ==
  LET i == UniquePhdr(phs, "PHDR") IN i # 0 => LiesAt(phs, off, phs[i].vaddr, len)

(* PT_DYNAMIC, ...                                                         *)
DynamicMapped(phs, i, len) == LiesAt(phs, phs[i].offset, phs[i].vaddr, len)

(* ... the string table, ...                                               *)
StrtabMapped(phs, st) == LiesAt(phs, st.off, st.vaddr, st.size)

(* ... and all three.                                                      *)
Mapped(e, ps, es, st) ==
  /\ PhdrMapped(ps.arr, e.phoff, ps.size)
  /\ DynamicMapped(ps.arr, es.phdr, es.size)
  /\ StrtabMapped(ps.arr, st)

(* The struct elf of a client that has been served, all of it mapped.      *)
Anchored ==
  /\ Whole /\ OneAddress /\ entries.size # 0
  /\ Mapped(ehdr, phdrs, entries, strtab)

(* A table with entries has a size.                                        *)
LEMMA ProductNotZero ==
  ASSUME NEW n \in Nat \ {0}, NEW k \in Nat \ {0}
  PROVE  n * k \in Nat \ {0}
<1>1. 1 * k <= n * k BY ProductMonotone
<1>2. 1 * k = k /\ n * k \in Nat OBVIOUS
<1> QED BY <1>1, <1>2

(* Headers that load what they did have the segments they had.             *)
LEMMA KinOutgrown ==
  ASSUME NEW phs \in Seq(Phdr), NEW new, Kin(phs, new)
  PROVE  /\ new \in Seq(Phdr) /\ Outgrown(phs, new) /\ LoadsOf(new) = LoadsOf(phs)
         /\ UniquePhdr(new, "PHDR") = UniquePhdr(phs, "PHDR")
<1>1. IndicesOf(new, "LOAD") = IndicesOf(phs, "LOAD")
      /\ UniquePhdr(new, "PHDR") = UniquePhdr(phs, "PHDR")
  <2>1. "LOAD" # "NULL" /\ "PHDR" # "NULL" /\ 0 \in Nat OBVIOUS
  <2> QED BY <2>1, KinKeeps
<1>2. \A j \in IndicesOf(new, "LOAD") : new[j] = phs[j] BY DEF Kin, IndicesOf
<1>3. LoadsOf(new) = LoadsOf(phs) BY <1>1, <1>2 DEF LoadsOf
<1>4. Outgrown(phs, new) BY <1>1, <1>2 DEF Outgrown
<1> QED BY <1>1, <1>3, <1>4 DEF Kin

(* The places a client looks up are naturals.                              *)
LEMMA AnchoredTypes ==
  ASSUME Anchored
  PROVE  /\ phdrs.arr \in Seq(Phdr) /\ ehdr.phoff \in Nat /\ DynamicPhdr.offset \in Nat
         /\ strtab.off \in Nat /\ strtab.size \in Nat
         /\ phdrs.size \in Nat \ {0} /\ entries.size \in Nat \ {0}
         /\ PtPhdr \in 0 .. Len(phdrs.arr)
         /\ PtPhdr # 0 => LiesAt(phdrs.arr, ehdr.phoff, phdrs.arr[PtPhdr].vaddr, phdrs.size)
         /\ LiesAt(phdrs.arr, DynamicPhdr.offset, DynamicPhdr.vaddr, entries.size)
         /\ LiesAt(phdrs.arr, strtab.off, strtab.vaddr, strtab.size)
<1>1. Whole /\ Mapped(ehdr, phdrs, entries, strtab) /\ entries.size # 0 BY DEF Anchored
<1>2. /\ phdrs.arr \in Seq(Phdr) /\ ehdr.phoff \in Nat /\ DynamicPhdr.offset \in Nat
      /\ phdrs.size \in Nat /\ entries.size \in Nat /\ PtPhdr \in 0 .. Len(phdrs.arr)
      /\ Len(phdrs.arr) \in Nat \ {0}
  BY <1>1, MemberTypes, Naturals64
<1>3. strtab.off \in Nat /\ strtab.size \in Nat
  BY <1>1, Naturals64 DEF Whole, Members, Strtab
<1>4. phdrs.size # 0
  <2>1. phdrs.size = Len(phdrs.arr) * PhEnt BY <1>1 DEF Whole, Sizes
  <2> QED BY <1>2, <2>1, ProductNotZero, SizeAssumption
<1>5. /\ PtPhdr # 0 => LiesAt(phdrs.arr, ehdr.phoff, phdrs.arr[PtPhdr].vaddr, phdrs.size)
      /\ LiesAt(phdrs.arr, DynamicPhdr.offset, DynamicPhdr.vaddr, entries.size)
      /\ LiesAt(phdrs.arr, strtab.off, strtab.vaddr, strtab.size)
  BY <1>1 DEF Mapped, PhdrMapped, DynamicMapped, StrtabMapped, PtPhdr, DynamicPhdr
<1> QED BY <1>1, <1>2, <1>3, <1>4, <1>5

(* Other headers that find the same segments and have not moved PT_PHDR or *)
(* PT_DYNAMIC.                                                             *)
LEMMA PlacesStill ==
  ASSUME Anchored, NEW new \in Seq(Phdr), Outgrown(phdrs.arr, new)
  PROVE  /\ (UniquePhdr(new, "PHDR") = PtPhdr
             /\ (PtPhdr # 0 => new[PtPhdr].vaddr = phdrs.arr[PtPhdr].vaddr))
              => PhdrMapped(new, ehdr.phoff, phdrs.size)
         /\ (new[entries.phdr].offset = DynamicPhdr.offset
             /\ new[entries.phdr].vaddr = DynamicPhdr.vaddr)
              => DynamicMapped(new, entries.phdr, entries.size)
         /\ StrtabMapped(new, strtab)
<1> USE AnchoredTypes
<1>1. ASSUME UniquePhdr(new, "PHDR") = PtPhdr,
             PtPhdr # 0 => new[PtPhdr].vaddr = phdrs.arr[PtPhdr].vaddr
      PROVE  PhdrMapped(new, ehdr.phoff, phdrs.size)
  <2>1. SUFFICES ASSUME PtPhdr # 0
                 PROVE  LiesAt(new, ehdr.phoff, phdrs.arr[PtPhdr].vaddr, phdrs.size)
    BY <1>1 DEF PhdrMapped
  <2> QED BY <2>1, LiesStill
<1>2. ASSUME new[entries.phdr].offset = DynamicPhdr.offset,
             new[entries.phdr].vaddr = DynamicPhdr.vaddr
      PROVE  DynamicMapped(new, entries.phdr, entries.size)
  <2>1. LiesAt(new, DynamicPhdr.offset, DynamicPhdr.vaddr, entries.size) BY LiesStill
  <2> QED BY <1>2, <2>1 DEF DynamicMapped
<1>3. StrtabMapped(new, strtab)
  <2>1. LiesAt(new, strtab.off, strtab.vaddr, strtab.size) BY LiesStill
  <2> QED BY <2>1 DEF StrtabMapped
<1> QED BY <1>1, <1>2, <1>3

(* The segments of the client's headers and those it adds, after a change  *)
(* that loads nothing.                                                     *)
LEMMA KinAnchored ==
  ASSUME Anchored, NEW new, Kin(phdrs.arr, new)
  PROVE  /\ new \in Seq(Phdr) /\ Outgrown(phdrs.arr, new)
         /\ UniquePhdr(new, "PHDR") = PtPhdr
         /\ Consistent(LoadsOf(new) \cup Segments) /\ Consistent(LoadsOf(phdrs.arr))
<1>1. phdrs.arr \in Seq(Phdr) BY AnchoredTypes
<1>2. Consistent(LoadsOf(phdrs.arr) \cup Segments) BY DEF Anchored, OneAddress
<1>3. Consistent(LoadsOf(phdrs.arr)) BY <1>2 DEF Consistent
<1> QED BY <1>1, <1>2, <1>3, KinOutgrown DEF PtPhdr

(* What every update does: each table is found, at its address.            *)
StaysMapped ==
  /\ Consistent(LoadsOf(phdrs'.arr) \cup Segments) /\ entries'.size # 0
  /\ Mapped(ehdr', phdrs', entries', strtab')

(* update_phnum: a file with PT_PHDR needs a segment for the new size, and *)
(* the address does not depend on which.                                   *)
LEMMA UpdatePhnumMapped ==
  ASSUME Anchored, NEW n \in U64, UpdatePhnum(n)
  PROVE  StaysMapped
<1> DEFINE k == n * PhEnt
           arr == Sized(Resized(phdrs.arr, n, ZeroPhdr), PtPhdr, k)
<1>1. Whole /\ n \in Nat \ {0} /\ entries.size # 0
  BY Naturals64 DEF Anchored, UpdatePhnum
<1>2. ResizeTableOk(phdrs.arr, size, ehdr.phoff, PhEnt, Len(phdrs.arr), n, PtPhdr # 0)
  BY DEF UpdatePhnum, PhnumFits
<1>3. k \in U64 BY <1>1, <1>2, MemberTypes, ResizeTableProperty, SizeAssumption
<1>4. k \in Nat \ {0} BY <1>1, ProductNotZero, SizeAssumption
<1>5. PtPhdr # 0 => VaddrFromOff(phdrs.arr, ehdr.phoff, k).ok BY <1>2 DEF ResizeTableOk
<1>6. /\ Kin(phdrs.arr, arr) /\ arr[entries.phdr] = DynamicPhdr
      /\ PtPhdr # 0 => arr[PtPhdr].vaddr = phdrs.arr[PtPhdr].vaddr
  BY <1>1, <1>3, PhnumHeaders DEF UpdatePhnum
<1>7. phdrs' = [arr |-> arr, size |-> k] /\ ehdr'.phoff = ehdr.phoff
      /\ UNCHANGED <<entries, strtab>>
  BY <1>1 DEF UpdatePhnum, Whole, Members, EhdrMembers
<1> HIDE DEF arr, k
<1>8. /\ arr \in Seq(Phdr) /\ Outgrown(phdrs.arr, arr) /\ UniquePhdr(arr, "PHDR") = PtPhdr
      /\ Consistent(LoadsOf(arr) \cup Segments) /\ Consistent(LoadsOf(phdrs.arr))
  BY <1>6, KinAnchored
<1>9. PhdrMapped(arr, ehdr.phoff, k)
  <2>1. SUFFICES ASSUME PtPhdr # 0 PROVE LiesAt(arr, ehdr.phoff, phdrs.arr[PtPhdr].vaddr, k)
    BY <1>6, <1>8 DEF PhdrMapped
  <2>2. LiesAt(phdrs.arr, ehdr.phoff, phdrs.arr[PtPhdr].vaddr, k)
    BY <1>4, <1>5, <1>8, <2>1, AnchoredTypes, LiesResized
  <2> QED BY <1>4, <1>8, <2>2, AnchoredTypes, LiesStill
<1>10. DynamicMapped(arr, entries.phdr, entries.size) /\ StrtabMapped(arr, strtab)
  BY <1>6, <1>8, PlacesStill
<1>11. phdrs'.arr = arr /\ phdrs'.size = k BY <1>7
<1> QED BY <1>1, <1>7, <1>8, <1>9, <1>10, <1>11 DEF StaysMapped, Mapped

(* update_phoff.                                                           *)
LEMMA UpdatePhoffMapped ==
  ASSUME Anchored, NEW off \in U64, UpdatePhoff(off)
  PROVE  StaysMapped
<1> DEFINE va == VaddrFromOff(phdrs.arr, off, phdrs.size).val
           new == PlacedPhdr(off)
<1>1. Whole /\ off \in Nat /\ entries.size # 0 BY Naturals64 DEF Anchored
<1>2. PtPhdr # 0 => VaddrFromOff(phdrs.arr, off, phdrs.size).ok
  BY DEF UpdatePhoff, PhoffFits
<1>3. /\ new.size = phdrs.size /\ Kin(phdrs.arr, new.arr)
      /\ \A j \in 1 .. Len(phdrs.arr) : j # PtPhdr => new.arr[j] = phdrs.arr[j]
      /\ PtPhdr # 0 => new.arr[PtPhdr].vaddr = va
  BY <1>1, PlacedHeaders
<1>4. phdrs' = new /\ ehdr'.phoff = off /\ UNCHANGED <<entries, strtab>>
  BY <1>1 DEF UpdatePhoff, Whole, Members, EhdrMembers
<1> HIDE DEF new
<1>5. /\ new.arr \in Seq(Phdr) /\ Outgrown(phdrs.arr, new.arr)
      /\ UniquePhdr(new.arr, "PHDR") = PtPhdr /\ Consistent(LoadsOf(new.arr) \cup Segments)
  BY <1>3, KinAnchored
<1>6. PhdrMapped(new.arr, off, phdrs.size)
  <2>1. SUFFICES ASSUME PtPhdr # 0 PROVE LiesAt(new.arr, off, va, phdrs.size)
    BY <1>3, <1>5 DEF PhdrMapped
  <2>2. LiesAt(phdrs.arr, off, va, phdrs.size)
    <3>1. VaddrFromOff(phdrs.arr, off, phdrs.size).ok BY <1>2, <2>1
    <3> QED BY <1>1, <3>1, AnchoredTypes, LiesAtValue
  <2> HIDE DEF va
  <2> QED BY <1>1, <1>5, <2>2, AnchoredTypes, LiesStill
<1>7. new.arr[entries.phdr] = DynamicPhdr
  <2>1. entries.phdr \in 1 .. Len(phdrs.arr) /\ entries.phdr # PtPhdr BY <1>1, MemberTypes
  <2> QED BY <1>3, <2>1 DEF DynamicPhdr
<1>8. DynamicMapped(new.arr, entries.phdr, entries.size) /\ StrtabMapped(new.arr, strtab)
  BY <1>5, <1>7, PlacesStill
<1> QED BY <1>1, <1>3, <1>4, <1>5, <1>6, <1>8 DEF StaysMapped, Mapped

(* append_new_ptload_segment: the segment it adds comes last, and gives a  *)
(* byte of the file that another segment has the address it has.           *)
LEMMA FillPhdrMapped ==
  ASSUME Anchored, NEW s \in Segments, s \in Phdr, s.type = "LOAD", FillPhdr(s)
  PROVE  StaysMapped
<1> DEFINE n == Len(phdrs.arr)
           a == [phdrs.arr EXCEPT ![n] = s]
<1>1. Whole /\ entries.size # 0 BY DEF Anchored
<1>2. phdrs.arr \in Seq(Phdr) /\ entries.phdr \in 1 .. n /\ phdrs.arr[entries.phdr].type = "DYNAMIC"
      /\ PtPhdr \in 0 .. n /\ (PtPhdr # 0 => phdrs.arr[PtPhdr].type = "PHDR")
  BY <1>1, MemberTypes
<1>3. n \in 1 .. n /\ n \in Nat /\ phdrs.arr[n].type = "NULL" BY <1>2 DEF FillPhdr, ZeroPhdr
<1>4. /\ a \in Seq(Phdr) /\ Len(a) = n /\ a[n] = s
      /\ \A j \in 1 .. n : j # n => a[j] = phdrs.arr[j]
  BY <1>2, <1>3, Replaced
<1>5. phdrs' = [arr |-> a, size |-> phdrs.size] /\ UNCHANGED <<ehdr, entries, strtab>>
  BY <1>1, <1>2 DEF FillPhdr, Whole, Members, PhdrTable
<1> HIDE DEF a
<1>6. phdrs'.arr = a /\ phdrs'.size = phdrs.size BY <1>5
<1>7. IndicesOf(a, "PHDR") = IndicesOf(phdrs.arr, "PHDR") BY <1>3, <1>4 DEF IndicesOf
<1>8. UniquePhdr(a, "PHDR") = PtPhdr BY <1>7 DEF UniquePhdr, PtPhdr
<1>9. IndicesOf(a, "LOAD") = IndicesOf(phdrs.arr, "LOAD") \cup {n}
      /\ n \notin IndicesOf(phdrs.arr, "LOAD")
  BY <1>3, <1>4 DEF IndicesOf
<1>10. IndicesOf(phdrs.arr, "LOAD") \subseteq 1 .. n BY DEF IndicesOf
<1> HIDE DEF n
<1>11. Outgrown(phdrs.arr, a)
  <2>1. \A j \in IndicesOf(phdrs.arr, "LOAD") : j \in Nat /\ j < n /\ a[j] = phdrs.arr[j]
    BY <1>3, <1>4, <1>9, <1>10
  <2> QED BY <1>9, <2>1 DEF Outgrown
<1>12. LoadsOf(a) \subseteq LoadsOf(phdrs.arr) \cup Segments
  BY <1>4, <1>9, <1>10 DEF LoadsOf
<1>13. Consistent(LoadsOf(a) \cup Segments) BY <1>12 DEF Anchored, OneAddress, Consistent
<1>14. PtPhdr # 0 => a[PtPhdr].vaddr = phdrs.arr[PtPhdr].vaddr BY <1>2, <1>3, <1>4 DEF n
<1>15. a[entries.phdr] = DynamicPhdr BY <1>2, <1>3, <1>4 DEF DynamicPhdr, n
<1>16. /\ PhdrMapped(a, ehdr.phoff, phdrs.size)
       /\ DynamicMapped(a, entries.phdr, entries.size) /\ StrtabMapped(a, strtab)
  BY <1>4, <1>8, <1>11, <1>14, <1>15, PlacesStill
<1> QED BY <1>1, <1>5, <1>6, <1>13, <1>16 DEF StaysMapped, Mapped

(* Headers that change PT_DYNAMIC alone.                                   *)
LEMMA DynamicAlone ==
  ASSUME Anchored, NEW new, Kin(phdrs.arr, new),
         \A j \in 1 .. Len(phdrs.arr) : j # entries.phdr => new[j] = phdrs.arr[j]
  PROVE  PhdrMapped(new, ehdr.phoff, phdrs.size) /\ StrtabMapped(new, strtab)
<1>1. /\ new \in Seq(Phdr) /\ Outgrown(phdrs.arr, new) /\ UniquePhdr(new, "PHDR") = PtPhdr
  BY KinAnchored
<1>2. PtPhdr # 0 => new[PtPhdr].vaddr = phdrs.arr[PtPhdr].vaddr
  <2>1. PtPhdr # 0 => PtPhdr \in 1 .. Len(phdrs.arr) /\ PtPhdr # entries.phdr
    BY MemberTypes DEF Anchored
  <2> QED BY <2>1
<1> QED BY <1>1, <1>2, PlacesStill

(* update_dyn_tbl_num: as in update_phnum, but the segment is needed in    *)
(* every file.                                                             *)
LEMMA UpdateDynTblNumMapped ==
  ASSUME Anchored, NEW n \in U64, UpdateDynTblNum(n)
  PROVE  StaysMapped
<1> DEFINE k == n * DynEnt
           es == NewEntries(n, k)
           new == NewDynamic(k)
<1>1. Whole /\ n \in Nat \ {0} BY Naturals64 DEF Anchored, UpdateDynTblNum
<1>2. ResizeTableOk(phdrs.arr, size, DynamicPhdr.offset, DynEnt, Len(entries.arr), n, TRUE)
  BY DEF UpdateDynTblNum, DynNumFits
<1>3. k \in U64 BY <1>1, <1>2, MemberTypes, ResizeTableProperty, SizeAssumption
<1>4. k \in Nat \ {0} BY <1>1, ProductNotZero, SizeAssumption
<1>5. VaddrFromOff(phdrs.arr, DynamicPhdr.offset, k).ok BY <1>2 DEF ResizeTableOk
<1>6. entries' = es /\ phdrs' = new /\ UNCHANGED <<ehdr, strtab>>
  BY DEF UpdateDynTblNum, NewEntries, NewDynamic
<1>7. Dispensable(entries.arr, n, ZeroDyn) BY DEF UpdateDynTblNum
<1> HIDE DEF k
<1>8. es.size = k /\ es.phdr = entries.phdr BY <1>1, <1>3, <1>7, DynNumEntries
<1>9. /\ new.size = phdrs.size /\ Kin(phdrs.arr, new.arr)
      /\ \A j \in 1 .. Len(phdrs.arr) : j # entries.phdr => new.arr[j] = phdrs.arr[j]
      /\ new.arr[entries.phdr].offset = DynamicPhdr.offset
      /\ new.arr[entries.phdr].vaddr = DynamicPhdr.vaddr
  BY <1>1, <1>3, DynNumHeaders
<1> HIDE DEF es, new
<1>10. /\ new.arr \in Seq(Phdr) /\ Outgrown(phdrs.arr, new.arr)
       /\ Consistent(LoadsOf(new.arr) \cup Segments) /\ Consistent(LoadsOf(phdrs.arr))
  BY <1>9, KinAnchored
<1>11. DynamicMapped(new.arr, entries.phdr, k)
  <2>1. LiesAt(phdrs.arr, DynamicPhdr.offset, DynamicPhdr.vaddr, k)
    BY <1>4, <1>5, <1>10, AnchoredTypes, LiesResized
  <2>2. LiesAt(new.arr, DynamicPhdr.offset, DynamicPhdr.vaddr, k)
    BY <1>4, <1>10, <2>1, AnchoredTypes, LiesStill
  <2> QED BY <1>9, <2>2 DEF DynamicMapped
<1>12. PhdrMapped(new.arr, ehdr.phoff, phdrs.size) /\ StrtabMapped(new.arr, strtab)
  BY <1>9, DynamicAlone
<1> QED BY <1>4, <1>6, <1>8, <1>9, <1>10, <1>11, <1>12 DEF StaysMapped, Mapped

(* update_dyn_tbl_off.                                                     *)
LEMMA UpdateDynTblOffMapped ==
  ASSUME Anchored, NEW off \in U64, UpdateDynTblOff(off)
  PROVE  StaysMapped
<1> DEFINE va == VaddrFromOff(phdrs.arr, off, entries.size).val
           new == MovedDynamic(off, va)
<1>1. Whole /\ off \in Nat /\ entries.size \in Nat \ {0} /\ phdrs.arr \in Seq(Phdr)
  BY AnchoredTypes, Naturals64 DEF Anchored
<1>2. VaddrFromOff(phdrs.arr, off, entries.size).ok BY DEF UpdateDynTblOff
<1>3. LiesAt(phdrs.arr, off, va, entries.size) BY <1>1, <1>2, LiesAtValue
<1>4. va \in U64 BY <1>1, VaddrFromOffProperty
<1>5. phdrs' = new /\ UNCHANGED <<ehdr, entries, strtab>>
  BY DEF UpdateDynTblOff, MovedDynamic
<1> HIDE DEF va
<1>6. /\ new.size = phdrs.size /\ Kin(phdrs.arr, new.arr)
      /\ \A j \in 1 .. Len(phdrs.arr) : j # entries.phdr => new.arr[j] = phdrs.arr[j]
      /\ new.arr[entries.phdr].offset = off /\ new.arr[entries.phdr].vaddr = va
  BY <1>1, <1>4, DynOffHeaders
<1> HIDE DEF new
<1>7. /\ new.arr \in Seq(Phdr) /\ Outgrown(phdrs.arr, new.arr)
      /\ Consistent(LoadsOf(new.arr) \cup Segments)
  BY <1>6, KinAnchored
<1>8. DynamicMapped(new.arr, entries.phdr, entries.size)
  <2>1. LiesAt(new.arr, off, va, entries.size) BY <1>1, <1>3, <1>7, LiesStill
  <2> QED BY <1>6, <2>1 DEF DynamicMapped
<1>9. PhdrMapped(new.arr, ehdr.phoff, phdrs.size) /\ StrtabMapped(new.arr, strtab)
  BY <1>6, DynamicAlone
<1> QED BY <1>1, <1>5, <1>6, <1>7, <1>8, <1>9 DEF StaysMapped, Mapped

(* update_dynstr_range looks the offset of the address up.                 *)
LEMMA UpdateDynstrRangeMapped ==
  ASSUME Anchored, NEW addr \in U64, NEW len \in U64, UpdateDynstrRange(addr, len)
  PROVE  StaysMapped
<1> DEFINE at == DynstrAt(addr, len)
           a == DynIndex(entries.arr, "STRTAB")
           b == DynIndex(entries.arr, "STRSZ")
           mid == [entries EXCEPT !.arr[a].val = addr]
           new == [mid EXCEPT !.arr[b].val = len]
<1>1. Whole /\ phdrs.arr \in Seq(Phdr) /\ len \in Nat /\ entries.size # 0
  BY AnchoredTypes, Naturals64 DEF Anchored
<1>2. a \in 1 .. Len(entries.arr) /\ b \in 1 .. Len(entries.arr) /\ entries \in Entries
  BY <1>1, MemberTypes, DynIndexProperty DEF UpdateDynstrRange, Whole, Members
<1>3. LiesAt(phdrs.arr, at.val, addr, len)
  <2>1. OffFromVaddr(phdrs.arr, addr, len).ok BY DEF UpdateDynstrRange, DynstrAt
  <2> QED BY <1>1, <2>1, LiesThere DEF DynstrAt
<1>4. /\ entries' = new
      /\ strtab' = [strtab EXCEPT !.vaddr = addr, !.off = at.val, !.size = len]
      /\ UNCHANGED <<ehdr, phdrs>>
  BY DEF UpdateDynstrRange
<1> HIDE DEF a, b, at
<1>5. SameTags(entries, mid) BY <1>2, ValueAssigned
<1> HIDE DEF mid
<1>6. mid \in Entries /\ b \in 1 .. Len(mid.arr) BY <1>2, <1>5 DEF SameTags
<1>7. SameTags(mid, new) BY <1>6, ValueAssigned
<1> HIDE DEF new
<1>8. entries'.size = entries.size /\ entries'.phdr = entries.phdr
  BY <1>4, <1>5, <1>7 DEF SameTags
<1>9. strtab'.vaddr = addr /\ strtab'.off = at.val /\ strtab'.size = len
  BY <1>1, <1>4 DEF Whole, Members, Strtab
<1>10. StrtabMapped(phdrs.arr, strtab') BY <1>3, <1>9 DEF StrtabMapped
<1> QED BY <1>1, <1>4, <1>8, <1>10 DEF StaysMapped, Mapped, Anchored, OneAddress

(* The other updates leave the headers and these places alone.             *)
LEMMA OthersMapped ==
  ASSUME Anchored,
         \/ \E n \in U64 : UpdateDynSymCount(n)
         \/ \E off \in U64 : UpdateDynSymtabOff(off)
         \/ \E n \in U64 : UpdateShnum(n)
         \/ \E off \in U64 : UpdateShoff(off)
         \/ \E i \in U64 : UpdateShstrndx(i)
         \/ GrowData
  PROVE  StaysMapped
<1>1. Whole /\ ehdr \in EhdrMembers /\ entries \in Entries
      /\ phdrs.arr \in Seq(Phdr) /\ entries.size \in Nat
  BY AnchoredTypes DEF Anchored, Whole, Members
<1>2. UNCHANGED <<phdrs, strtab>>
  BY DEF UpdateDynSymCount, UpdateDynSymtabOff, UpdateShnum, UpdateShoff, UpdateShstrndx, GrowData
<1>3. ehdr'.phoff = ehdr.phoff
  BY <1>1 DEF UpdateDynSymCount, UpdateDynSymtabOff, UpdateShnum, UpdateShoff, UpdateShstrndx,
              GrowData, EhdrMembers
<1>4. entries'.size = entries.size /\ entries'.phdr = entries.phdr
  <2>1. CASE \E off \in U64 : UpdateDynSymtabOff(off)
    <3>1. PICK off \in U64 : UpdateDynSymtabOff(off) BY <2>1
    <3> DEFINE va == VaddrFromOff(phdrs.arr, off, entries.size).val
    <3>2. va \in U64 BY <1>1, VaddrFromOffProperty, Naturals64
    <3>3. symtab.dyn \in 1 .. Len(entries.arr)
      BY <1>1, <3>1 DEF UpdateDynSymtabOff, Whole, Linked, DynIndices
    <3>4. entries' = [entries EXCEPT !.arr[symtab.dyn].val = va]
      BY <3>1 DEF UpdateDynSymtabOff
    <3> HIDE DEF va
    <3>5. SameTags(entries, [entries EXCEPT !.arr[symtab.dyn].val = va])
      BY <1>1, <3>2, <3>3, ValueAssigned
    <3> QED BY <3>4, <3>5 DEF SameTags
  <2>2. CASE UNCHANGED entries BY <2>2
  <2> QED BY <2>1, <2>2 DEF UpdateDynSymCount, UpdateShnum, UpdateShoff, UpdateShstrndx, GrowData
<1>5. Consistent(LoadsOf(phdrs.arr) \cup Segments) /\ entries.size # 0
      /\ Mapped(ehdr, phdrs, entries, strtab)
  BY DEF Anchored, OneAddress
<1> QED BY <1>2, <1>3, <1>4, <1>5 DEF StaysMapped, Mapped

(* Every update.                                                           *)
LEMMA UpdateMapped ==
  ASSUME Anchored, Update
  PROVE  StaysMapped
<1>1. Counts \subseteq U64 /\ Offsets \subseteq U64 /\ Indices \subseteq U64
      /\ \A s \in Segments : s \in Phdr /\ s.type = "LOAD"
  BY ClientAssumption
<1>2. CASE \E n \in Counts : UpdatePhnum(n) BY <1>1, <1>2, UpdatePhnumMapped
<1>3. CASE \E n \in Counts : UpdateDynTblNum(n) BY <1>1, <1>3, UpdateDynTblNumMapped
<1>4. CASE \E n \in Counts : UpdateDynSymCount(n) BY <1>1, <1>4, OthersMapped
<1>5. CASE \E off \in Offsets : UpdatePhoff(off) BY <1>1, <1>5, UpdatePhoffMapped
<1>6. CASE \E off \in Offsets : UpdateDynTblOff(off) BY <1>1, <1>6, UpdateDynTblOffMapped
<1>7. CASE \E off \in Offsets : UpdateDynSymtabOff(off) BY <1>1, <1>7, OthersMapped
<1>8. CASE \E addr \in Offsets, len \in Counts : UpdateDynstrRange(addr, len)
  BY <1>1, <1>8, UpdateDynstrRangeMapped
<1>9. CASE \E n \in Counts : UpdateShnum(n) BY <1>1, <1>9, OthersMapped
<1>10. CASE \E off \in Offsets : UpdateShoff(off) BY <1>1, <1>10, OthersMapped
<1>11. CASE \E i \in Indices : i < Len(shdrs.arr) /\ UpdateShstrndx(i)
  BY <1>1, <1>11, OthersMapped
<1>12. CASE \E s \in Segments : FillPhdr(s) BY <1>1, <1>12, FillPhdrMapped
<1>13. CASE GrowData BY <1>13, OthersMapped
<1> QED
  BY <1>2, <1>3, <1>4, <1>5, <1>6, <1>7, <1>8, <1>9, <1>10, <1>11, <1>12, <1>13 DEF Update

(* Each table the loader reads lies in one segment, at the address that    *)
(* its headers and the struct elf give, however it is resized and moved,   *)
(* if it is so in the file that was parsed, and no two segments of the     *)
(* file or the client give one byte of the file two addresses.  parse_elf  *)
(* insists on neither: it does not compare the address of PT_PHDR, and     *)
(* update_phnum and update_dyn_tbl_num ask for a segment, not which.       *)
THEOREM LoaderFindsTables == Spec /\ OneAddress /\ TablesStayMapped => []TablesStayMapped
<1> DEFINE MapInv ==
      pc = "ready" =>
        /\ OneAddress /\ entries.size # 0
        /\ Mapped(ehdr, phdrs, entries, strtab)
<1>1. Init /\ OneAddress /\ TablesStayMapped => MapInv
  <2> SUFFICES ASSUME Init, OneAddress, TablesStayMapped
               PROVE  entries.size # 0 /\ Mapped(ehdr, phdrs, entries, strtab)
    OBVIOUS
  <2>1. PICK p \in Parsed : entries = p.entries BY DEF Init
  <2>2. /\ p.entries.size = Len(p.entries.arr) * DynEnt /\ p.entries \in Entries
        /\ HasUniqueDyn(p.entries.arr, "STRTAB")
    BY ParsedAssumption DEF IsParsed, ElfStruct, Entries
  <2>3. Len(p.entries.arr) \in Nat \ {0} BY <2>2 DEF HasUniqueDyn, DynIndices, Entries
  <2>4. entries.size # 0 BY <2>1, <2>2, <2>3, ProductNotZero, SizeAssumption
  <2>5. Mapped(ehdr, phdrs, entries, strtab)
    BY DEF Init, TablesStayMapped, MappedAt, Mapped, PhdrMapped, DynamicMapped, StrtabMapped,
           LiesAt, PtPhdr, DynamicPhdr
  <2> QED BY <2>4, <2>5
<1>2. FileInv /\ MapInv /\ [Next]_vars => MapInv'
  <2> SUFFICES ASSUME FileInv, MapInv, [Next]_vars PROVE MapInv' OBVIOUS
  <2>1. CASE UNCHANGED vars BY <2>1 DEF vars, elf, OneAddress
  <2>2. CASE Next
    <3>1. Whole /\ pc = "ready" BY <2>2 DEF FileInv, Next, UpdateStep, FailStep, SerializeStep
    <3>2. CASE UpdateStep
      <4>1. Anchored BY <3>1 DEF Anchored
      <4>2. StaysMapped BY <3>2, <4>1, UpdateMapped DEF UpdateStep
      <4> QED BY <4>2 DEF StaysMapped, OneAddress
    <3>3. CASE FailStep BY <3>3 DEF FailStep, PhnumFails, ShnumFails
    <3>4. CASE SerializeStep
      <4>1. UNCHANGED <<ehdr, phdrs, entries, strtab>>
        BY <3>4 DEF SerializeStep, SerializeElf
      <4> QED BY <3>1, <4>1 DEF OneAddress
    <3> QED BY <2>2, <3>2, <3>3, <3>4 DEF Next
  <2> QED BY <2>1, <2>2
<1>3. MapInv => TablesStayMapped
  BY DEF TablesStayMapped, MappedAt, Mapped, PhdrMapped, DynamicMapped, StrtabMapped,
         LiesAt, PtPhdr, DynamicPhdr
<1> QED BY <1>1, <1>2, <1>3, FileInvHolds, PTL DEF Spec

==============================================================================
