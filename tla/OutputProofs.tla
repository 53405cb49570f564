---------------------------- MODULE OutputProofs ----------------------------
(***************************************************************************)
(* Proof that the data that is written says what the structures in memory  *)
(* say, that the parser accepts it, and that it imports what the input     *)
(* imported and the new strings besides.  Two things are followed through  *)
(* the calls: what memory holds, for any accepted file, and what the bytes *)
(* hold, for a tidy one.  Then the parser is run, on paper, over the final *)
(* bytes: every table is found where the headers say it is, and reads back *)
(* as it was written.  What memory holds also decides whether the calls    *)
(* that put the tables in their places, and serialize_elf, can fail: that  *)
(* is proved at the end.                                                   *)
(***************************************************************************)
EXTENDS AddImportProofs, InductionLemmas

(* The strings have moved; the program headers have moved; the tables have *)
(* been written to the data.                                               *)
StringsMoved == pc = "addEntries" \/ pc \in Filled
PhdrsMoved   == pc = "moveDynstr" \/ StringsMoved
InData       == pc \in Filled \ {"serialize"}

(* Of the ELF header, two fields change.                                   *)
SameHeader ==
  ehdr = [EhdrOf(src.buf) EXCEPT !.phoff = ehdr.phoff, !.phnum = ehdr.phnum]

(* What no step changes in a section header, and what says where its       *)
(* section is.                                                             *)
SameSection(s, t) == s.type = t.type /\ s.alloc = t.alloc /\ s.link = t.link
Covers(s, addr, off, sz) == s.addr = addr /\ s.offset = off /\ s.size = sz

(* Of the section headers, the ones of .dynstr and .dynamic follow what    *)
(* they describe and the others stay; changes are marked.                  *)
Sections ==
  LET old == ShdrsOf(src.buf)
      pt  == phdrs[dyn.phdr]
  IN  /\ \A j \in 1 .. Len(old) :
           /\ SameSection(shdrs[j], old[j])
           /\ j = strtab.shdr =>
                Covers(shdrs[j], strtab.vaddr, strtab.off, strtab.size)
           /\ j # strtab.shdr /\ j = dyn.shdr =>
                Covers(shdrs[j], pt.vaddr, pt.offset, pt.filesz)
           /\ j # strtab.shdr /\ j # dyn.shdr =>
                Covers(shdrs[j], old[j].addr, old[j].offset, old[j].size)
      /\ InData \/ "shdrs" \in dirty \/ shdrs = old

(* Of the program headers of the input, PT_PHDR follows the table.         *)
OldHeaders ==
  LET old == PhdrsOf(src.buf)
  IN  \A j \in 1 .. Len(old) :
        /\ old[j].type \notin {"PHDR", "DYNAMIC"} => phdrs[j] = old[j]
        /\ old[j].type = "PHDR" /\ PhdrsMoved =>
             /\ phdrs[j].offset = ehdr.phoff
             /\ phdrs[j].vaddr = phdrs[m.ro].vaddr
             /\ phdrs[j].filesz = Len(phdrs) * PhEnt
             /\ phdrs[j].memsz = Len(phdrs) * PhEnt

(* Where the strings of the imports go, in a table that grows.             *)
Offsets == StrOffset(StrtabOf(src.buf).size)

(* The string table is the input's until it has moved to where it was      *)
(* planned to be.                                                          *)
StringTable ==
  LET st == StrtabOf(src.buf)
  IN  /\ dyn.shdr = ShtDynamic(ShdrsOf(src.buf))
      /\ ~StringsMoved => strtab = st
      /\ StringsMoved => strtab = [st EXCEPT !.vaddr = NewDynstrVaddr,
                                             !.off = NewDynstrOff, !.size = m.newDynstrSz]
      /\ pc # "prepare" => /\ m.strOffs = SubSeq(Offsets, 1, Len(Imports))
                           /\ m.newDynstrSz = Offsets[Len(Imports) + 1]
                           /\ m.move = MoveRequired(DynEntriesOf(src.buf))

(* The entries that lead to the string table, led to the new one.          *)
Retargeted(es) ==
  [es EXCEPT ![DynIndex(es, "STRTAB")].val = strtab.vaddr,
             ![DynIndex(es, "STRSZ")].val = strtab.size]

(* The dynamic table before the imports are added.                         *)
Prepared(es) ==
  IF m.move THEN Resized(Retargeted(es), Len(es) + Len(Imports), ZeroDyn)
  ELSE Retargeted(es)

Entries ==
  LET es == DynEntriesOf(src.buf)
  IN  /\ pc = "addEntries" => dyn.entries = Retargeted(es)
      /\ pc \in Filled => dyn.entries = WithImports(Prepared(es))
      /\ StringsMoved /\ ~InData => "dyn" \in dirty

Memory == SameHeader /\ Sections /\ OldHeaders /\ StringTable /\ Entries

(* The bytes of a table that are still the input's.                        *)
Intact(r) == \A i \in 0 .. src.size - 1 : Within(i, r) => buf[i] = src.buf[i]

Untouched ==
  /\ ~InData => Intact(ShdrsRange(src.buf))
  /\ ~StringsMoved => Intact(StrtabRange(src.buf))

(* At `at` of the data w are the strings that were at `from` of the data   *)
(* b, and behind them, each with its terminator, those of the imports.     *)
StringsAt(w, at, b, from, old) ==
  LET o == StrOffset(old)
  IN  /\ \A k \in 0 .. old - 1 : w[at + k] = b[from + k]
      /\ \A s \in 1 .. Len(Imports) :
           /\ \A k \in 0 .. NameLen[Imports[s]] - 1 :
                w[at + o[s] + k] = <<"chr", Imports[s], k>>
           /\ w[at + o[s] + NameLen[Imports[s]]] = Zero

(* The string table after its move.                                        *)
Copied ==
  LET st == StrtabOf(src.buf) IN
  StringsMoved => StringsAt(buf, NewDynstrOff, src.buf, st.off, st.size)

(* The tables after serialize_elf.                                         *)
Stored ==
  InData =>
    /\ \A k \in 0 .. EhSize - 1 : buf[k] = EncodeEhdr(ehdr, k)
    /\ TableAt("phdr", ZeroPhdr, PhEnt, buf, ehdr.phoff, phdrs)
    /\ TableAt("shdr", ZeroShdr, ShEnt, buf, ehdr.shoff, shdrs)
    /\ TableAt("dyn", ZeroDyn, DynEnt, buf, phdrs[dyn.phdr].offset, dyn.entries)

Bytes == Tidy(src.buf) => Untouched /\ Copied /\ Stored

-----------------------------------------------------------------------------
(* What memory holds, step by step.  read_elf: the file itself.            *)
LEMMA ReadElfMemory == TypeInv /\ ReadElf => Memory'
<1> SUFFICES ASSUME TypeInv, ReadElf PROVE Memory' OBVIOUS
<1> DEFINE f == disk[argIn]
           b == f.buf
           n == f.size
<1>1. IsFile(f) /\ ParseElf(b, n)
  BY DEF ReadElf, InputParses, TypeInv, TypeOK
<1>2. n \in Nat /\ n <= MaxU /\ b \in File(n)
  BY <1>1, Naturals64 DEF IsFile
<1>3. /\ ehdr' = EhdrOf(b) /\ phdrs' = PhdrsOf(b) /\ shdrs' = ShdrsOf(b)
      /\ dyn' = [entries |-> DynEntriesOf(b), phdr |-> PtDynamic(b),
                 shdr |-> ShtDynamic(ShdrsOf(b))]
      /\ strtab' = StrtabOf(b) /\ src' = f /\ pc' = "prepare"
  BY DEF ReadElf, Load
<1> HIDE DEF f, b, n
<1>4. src'.buf = b BY <1>3 DEF b
<1>5. ~StringsMoved' /\ ~PhdrsMoved' /\ ~InData' /\ pc' \notin Filled
  BY <1>3 DEF StringsMoved, PhdrsMoved, InData, Filled
<1>6. SameHeader'
  <2>1. EhdrOf(b) \in Ehdr BY <1>1, <1>2, AcceptedTypes
  <2>2. EhdrOf(b) = [EhdrOf(b) EXCEPT !.phoff = EhdrOf(b).phoff, !.phnum = EhdrOf(b).phnum]
    BY <2>1 DEF Ehdr
  <2> QED BY <1>3, <1>4, <2>2 DEF SameHeader
<1>7. Sections'
  <2> DEFINE shs == ShdrsOf(b)
             st  == StrtabOf(b)
             d   == ShtDynamic(shs)
             pt  == PhdrsOf(b)[PtDynamic(b)]
  <2>1. /\ st.shdr # 0 => Covers(shs[st.shdr], st.vaddr, st.off, st.size)
        /\ d # 0 => Covers(shs[d], pt.vaddr, pt.offset, pt.filesz)
    BY <1>1, <1>2, AcceptedSections DEF Covers
  <2>2. shdrs' = shs /\ strtab' = st /\ dyn'.shdr = d /\ phdrs'[dyn'.phdr] = pt
    BY <1>3
  <2> HIDE DEF shs, st, d, pt
  <2>3. \A j \in 1 .. Len(shs) :
          /\ SameSection(shs[j], shs[j])
          /\ j = st.shdr => Covers(shs[j], st.vaddr, st.off, st.size)
          /\ j # st.shdr /\ j = d => Covers(shs[j], pt.vaddr, pt.offset, pt.filesz)
          /\ j # st.shdr /\ j # d => Covers(shs[j], shs[j].addr, shs[j].offset, shs[j].size)
    <3> TAKE j \in 1 .. Len(shs)
    <3>1. j # 0 OBVIOUS
    <3>2. j = st.shdr => Covers(shs[j], st.vaddr, st.off, st.size) BY <2>1, <3>1
    <3>3. j = d => Covers(shs[j], pt.vaddr, pt.offset, pt.filesz) BY <2>1, <3>1
    <3> QED BY <3>2, <3>3 DEF SameSection, Covers
  <2>4. ShdrsOf(src'.buf) = shs BY <1>4 DEF shs
  <2> QED BY <2>2, <2>3, <2>4 DEF Sections
<1>8. OldHeaders' BY <1>3, <1>4, <1>5 DEF OldHeaders
<1>9. StringTable' BY <1>3, <1>4, <1>5 DEF StringTable
<1>10. Entries' BY <1>3, <1>5 DEF Entries
<1> QED BY <1>6, <1>7, <1>8, <1>9, <1>10 DEF Memory

(* The calls that leave struct elf and the data alone.                     *)
LEMMA PrepareMemory == TypeInv /\ Plan /\ Memory /\ PrepareSizes => Memory'
<1> SUFFICES ASSUME TypeInv, Plan, Memory, PrepareSizes PROVE Memory' OBVIOUS
<1>1. /\ pc = "prepare" /\ pc' = "appendRo"
      /\ UNCHANGED <<src, ehdr, phdrs, shdrs, dyn, strtab, dirty>>
      /\ m'.strOffs = SubSeq(StrOffset(strtab.size), 1, Len(Imports))
      /\ m'.newDynstrSz = StrOffset(strtab.size)[Len(Imports) + 1]
      /\ m'.move = MoveRequired(dyn.entries)
  BY DEF PrepareSizes, env, tabs
<1>2. /\ ~StringsMoved /\ ~StringsMoved' /\ ~PhdrsMoved' /\ ~InData /\ ~InData'
      /\ pc' \notin Filled
  BY <1>1 DEF StringsMoved, PhdrsMoved, InData, Filled
<1>3. SameHeader' BY <1>1 DEF Memory, SameHeader
<1>4. Sections' BY <1>1, <1>2 DEF Memory, Sections
<1>5. OldHeaders' BY <1>1, <1>2 DEF Memory, OldHeaders
<1>6. strtab = StrtabOf(src.buf) /\ dyn.entries = DynEntriesOf(src.buf)
  BY <1>1, <1>2 DEF Memory, StringTable, Plan, Tables, Growing
<1>7. StringTable' BY <1>1, <1>2, <1>6 DEF Memory, StringTable, Offsets
<1>8. Entries' BY <1>1, <1>2 DEF Entries
<1> QED BY <1>3, <1>4, <1>5, <1>7, <1>8 DEF Memory

(* append_new_ptload_segment: the old headers are all but untouched.       *)
LEMMA AppendMemory ==
  ASSUME TypeInv, Footprint, Plan, Memory, AppendRo \/ AppendRw
  PROVE  Memory'
<1> DEFINE num == Len(phdrs) + 1
           b   == src.buf
           old == PhdrsOf(b)
<1>1. PICK content \in U64, write \in BOOLEAN : AppendSegment(content, write)
  <2>1. CASE AppendRo
    <3>1. RoContent \in U64
      BY <2>1, WidthAssumption DEF AppendRo, RoContent, TypeInv, TypeOK, Mods, U64
    <3> QED BY <2>1, <3>1 DEF AppendRo
  <2>2. CASE AppendRw
    <3>1. RwContent \in U64 BY DEF RwContent, TypeInv, TypeOK, Mods
    <3> QED BY <2>2, <3>1 DEF AppendRw
  <2> QED BY <2>1, <2>2
<1>2. /\ pc \in {"appendRo", "appendRw"} /\ pc' \in {"appendRw", "movePhdrs"}
      /\ UNCHANGED <<src, dyn, strtab>>
      /\ m'.strOffs = m.strOffs /\ m'.newDynstrSz = m.newDynstrSz /\ m'.move = m.move
  BY DEF AppendRo, AppendRw, env, TypeInv, TypeOK, Mods
<1>3. /\ phdrs' \in Seq(Phdr) /\ Len(phdrs') = Len(phdrs) + 1
      /\ \A i \in 1 .. Len(phdrs) : phdrs'[i].type = phdrs[i].type
      /\ \A i \in 1 .. Len(phdrs) : phdrs[i].type # "PHDR" => phdrs'[i] = phdrs[i]
  BY <1>1, AppendSegmentProperty
<1>4. /\ ehdr' = [ehdr EXCEPT !.phnum = IF num < PN_XNUM THEN num ELSE PN_XNUM]
      /\ shdrs' = IF num < PN_XNUM THEN shdrs ELSE [shdrs EXCEPT ![1].info = num]
      /\ dirty' = dirty \cup {"ehdr", "phdrs"}
                        \cup (IF num < PN_XNUM THEN {} ELSE {"shdrs"})
  BY <1>1 DEF AppendSegment
<1>5. /\ ~StringsMoved /\ ~StringsMoved' /\ ~PhdrsMoved' /\ ~InData /\ ~InData'
      /\ pc' \notin Filled /\ pc # "prepare" /\ pc' # "prepare"
  BY <1>2 DEF StringsMoved, PhdrsMoved, InData, Filled
<1>6. SameHeader'
  <2>1. ehdr \in Ehdr /\ SameHeader BY DEF TypeInv, TypeOK, Memory
  <2>2. EhdrOf(b) \in Ehdr
    BY AcceptedTypes, Naturals64 DEF TypeInv, TypeOK, Footprint, IsFile
  <2> HIDE DEF b
  <2>3. src.buf = b /\ src'.buf = b BY <1>2 DEF b
  <2>4. ehdr = [EhdrOf(b) EXCEPT !.phoff = ehdr.phoff, !.phnum = ehdr.phnum]
    BY <2>1, <2>3 DEF SameHeader
  <2>5. ehdr' = [EhdrOf(b) EXCEPT !.phoff = ehdr'.phoff, !.phnum = ehdr'.phnum]
    BY <1>4, <2>1, <2>2, <2>4 DEF Ehdr
  <2> QED BY <2>3, <2>5 DEF SameHeader
<1>7. dyn.phdr \in 1 .. Len(phdrs) /\ phdrs[dyn.phdr].type = "DYNAMIC"
  BY <1>2 DEF TypeInv, Shape, Loaded
<1>8. phdrs'[dyn'.phdr] = phdrs[dyn.phdr] BY <1>2, <1>3, <1>7
<1>9. Sections'
  <2>1. shdrs \in Seq(Shdr) BY DEF TypeInv, TypeOK
  <2>2. \A j : /\ shdrs'[j].type = shdrs[j].type /\ shdrs'[j].alloc = shdrs[j].alloc
               /\ shdrs'[j].link = shdrs[j].link /\ shdrs'[j].addr = shdrs[j].addr
               /\ shdrs'[j].offset = shdrs[j].offset /\ shdrs'[j].size = shdrs[j].size
    <3> TAKE j
    <3>1. CASE num < PN_XNUM BY <1>4, <3>1
    <3>2. CASE ~(num < PN_XNUM)
      <4>1. shdrs' = [shdrs EXCEPT ![1].info = num] BY <1>4, <3>2
      <4> QED BY <2>1, <4>1 
    <3> QED BY <3>1, <3>2
  <2>3. shdrs' = shdrs \/ "shdrs" \in dirty' BY <1>4
  <2>4. "shdrs" \in dirty => "shdrs" \in dirty' BY <1>4
  <2> QED BY <1>2, <1>5, <1>8, <2>2, <2>3, <2>4 DEF Memory, Sections, SameSection, Covers
<1>10. OldHeaders'
  <2>1. Len(old) \in Nat BY OldTable
  <2>2. \A j \in 1 .. Len(old) : j \in 1 .. Len(phdrs) /\ phdrs[j].type = old[j].type
    <3>1. \A j \in 1 .. Len(old) : phdrs[j].type = old[j].type BY DEF Plan, Tables
    <3>2. Len(old) <= Len(phdrs) /\ Len(phdrs) \in Nat
      BY <2>1 DEF Plan, Tables, TypeInv, TypeOK
    <3> QED BY <2>1, <3>1, <3>2
  <2>3. src'.buf = b BY <1>2
  <2> QED BY <1>3, <1>5, <2>2, <2>3 DEF Memory, OldHeaders
<1>11. StringTable' BY <1>2, <1>5 DEF Memory, StringTable, Offsets
<1>12. Entries' BY <1>2, <1>5 DEF Entries
<1> QED BY <1>6, <1>9, <1>10, <1>11, <1>12 DEF Memory
(* The program headers of an accepted file.                                *)
LEMMA OldPhdrs ==
  ASSUME TypeInv, Footprint, Plan
  PROVE  LET old == PhdrsOf(src.buf) IN
         /\ old \in Seq(Phdr) /\ Len(old) \in Nat /\ Len(old) <= Len(phdrs)
         /\ \A j \in 1 .. Len(old) :
              j \in 1 .. Len(phdrs) /\ phdrs[j].type = old[j].type
         /\ \A i, j \in 1 .. Len(old) :
              old[i].type = "PHDR" /\ old[j].type = "PHDR" => i = j
         /\ dyn.phdr \in 1 .. Len(old) /\ old[dyn.phdr].type = "DYNAMIC"
<1> DEFINE old == PhdrsOf(src.buf)
<1>1. old \in Seq(Phdr) /\ Len(old) \in Nat BY OldTable
<1>2. \A j \in 1 .. Len(old) : phdrs[j].type = old[j].type BY DEF Plan, Tables
<1>3. Len(old) <= Len(phdrs) /\ Len(phdrs) \in Nat
  BY <1>1 DEF Plan, Tables, TypeInv, TypeOK
<1>4. ParseElf(src.buf, src.size) /\ src.size \in Nat /\ src.size <= MaxU
      /\ src.buf \in File(src.size)
  BY Naturals64 DEF Footprint, TypeInv, TypeOK, IsFile
<1>5. ~DuplicatePhdr(old, "PHDR") BY <1>4 DEF ParseElf, ValidPhdrs
<1>6. dyn.phdr = PtDynamic(src.buf) BY DEF Plan, Tables
<1>7. dyn.phdr \in 1 .. Len(old) /\ old[dyn.phdr].type = "DYNAMIC"
  BY <1>4, <1>6, DynamicType
<1> HIDE DEF old
<1>8. \A i, j \in 1 .. Len(old) : old[i].type = "PHDR" /\ old[j].type = "PHDR" => i = j
  BY <1>5 DEF DuplicatePhdr, IndicesOf
<1>9. \A j \in 1 .. Len(old) : j \in 1 .. Len(phdrs) BY <1>1, <1>3
<1> QED BY <1>1, <1>2, <1>3, <1>7, <1>8, <1>9 DEF old

(* move_program_headers: PT_PHDR, if there is one, follows.                *)
LEMMA MovePhdrsMemory ==
  ASSUME TypeInv, Footprint, Plan, Memory, MovePhdrs
  PROVE  Memory'
<1> DEFINE to  == phdrs[m.ro].offset
           len == Len(phdrs) * PhEnt
           pt  == UniquePhdr(phdrs, "PHDR")
           va  == VaddrFromOff(phdrs, to, len).val
           old == PhdrsOf(src.buf)
           d   == dyn.phdr
<1>1. /\ pc = "movePhdrs" /\ pc' = "moveDynstr"
      /\ ehdr' = [ehdr EXCEPT !.phoff = to]
      /\ phdrs' = Moved(phdrs, pt, to, va, len)
      /\ dirty' = dirty \cup {"ehdr", "phdrs"}
      /\ UNCHANGED <<src, shdrs, dyn, strtab, m>>
  BY DEF MovePhdrs, env
<1>2. Appended BY <1>1 DEF Appended
<1>3. /\ phdrs \in Seq(Phdr) /\ m.ro \in 1 .. Len(phdrs) /\ RoPlaced /\ to \in Nat
      /\ m.newPhsize \in Nat /\ m.newPhsize = len /\ m.newDynstrSz \in Nat
      /\ 0 < m.newDynstrSz
  BY <1>2, FillPlan
<1>4. /\ ~StringsMoved /\ ~StringsMoved' /\ PhdrsMoved' /\ ~InData /\ ~InData'
      /\ pc' \notin Filled /\ pc' # "addEntries" /\ pc # "prepare" /\ pc' # "prepare"
  BY <1>1 DEF StringsMoved, PhdrsMoved, InData, Filled
<1>5. va = phdrs[m.ro].vaddr
  <2> DEFINE content == m.newPhsize + m.newDynstrSz
  <2>1. Holds(phdrs[m.ro], content) /\ Behind(phdrs, m.ro)
    BY <1>3 DEF RoPlaced, Placed
  <2>2. len \in Nat /\ 0 < len /\ len <= content /\ content \in Nat
    <3>1. Len(phdrs) \in Nat /\ 0 < Len(phdrs) BY <1>3
    <3>2. len \in Nat /\ 0 < len BY <3>1, SizeAssumption
    <3> HIDE DEF len
    <3> QED BY <1>3, <3>2
  <2> HIDE DEF len, content
  <2>3. VaddrFromOff(phdrs, phdrs[m.ro].offset, len)
          = [ok |-> TRUE, val |-> phdrs[m.ro].vaddr]
    BY <1>3, <2>1, <2>2, FoundAtStart
  <2> QED BY <2>3
<1>6. pt \in 0 .. Len(phdrs) /\ (pt # 0 => phdrs[pt].type = "PHDR")
  BY <1>3, UniquePhdrProperty
<1>7. d \in 1 .. Len(phdrs) /\ phdrs[d].type = "DYNAMIC"
  BY <1>2, FillFacts
<1>8. phdrs[m.ro].type = "LOAD" BY <1>3 DEF RoPlaced, Placed, Holds
<1> HIDE DEF to, len, va, pt, d
<1>9. \A j \in 1 .. Len(phdrs) : j # pt => phdrs'[j] = phdrs[j]
  BY <1>1, <1>3, MovedKeepsOthers
<1>10. phdrs'[d] = phdrs[d] /\ phdrs'[m.ro] = phdrs[m.ro]
  BY <1>3, <1>6, <1>7, <1>8, <1>9
<1>11. ehdr'.phoff = to
  BY <1>1 DEF TypeInv, TypeOK, Ehdr
<1>12. SameHeader'
  <2>1. ehdr \in Ehdr /\ SameHeader BY DEF TypeInv, TypeOK, Memory
  <2>2. EhdrOf(src.buf) \in Ehdr
    BY AcceptedTypes, Naturals64 DEF TypeInv, TypeOK, Footprint, IsFile
  <2>3. ehdr' = [EhdrOf(src.buf) EXCEPT !.phoff = ehdr'.phoff, !.phnum = ehdr'.phnum]
    BY <1>1, <2>1, <2>2 DEF Ehdr, SameHeader
  <2> QED BY <1>1, <2>3 DEF SameHeader
<1>13. Sections'
  <2>1. phdrs'[dyn'.phdr] = phdrs[dyn.phdr] BY <1>1, <1>10 DEF d
  <2>2. "shdrs" \in dirty => "shdrs" \in dirty' BY <1>1
  <2> QED BY <1>1, <1>4, <2>1, <2>2 DEF Memory, Sections
<1>14. OldHeaders'
  <2>1. \A j \in 1 .. Len(old) :
           j \in 1 .. Len(phdrs) /\ phdrs[j].type = old[j].type
        /\ \A i, k \in 1 .. Len(old) :
             old[i].type = "PHDR" /\ old[k].type = "PHDR" => i = k
        /\ Len(old) \in Nat
    BY OldPhdrs
  <2>2. \A j \in 1 .. Len(old) :
          old[j].type \notin {"PHDR", "DYNAMIC"} => phdrs[j] = old[j]
    BY DEF Memory, OldHeaders
  <2>3. Len(phdrs') = Len(phdrs)
    <3>1. DOMAIN phdrs' = DOMAIN phdrs BY <1>1 DEF Moved
    <3>2. phdrs' \in Seq(Phdr) BY MovePhdrsTypes DEF TypeInv, TypeOK
    <3> QED BY <1>3, <3>1, <3>2
  <2> HIDE DEF old
  <2>4. ASSUME NEW j \in 1 .. Len(old), old[j].type \notin {"PHDR", "DYNAMIC"}
        PROVE  phdrs'[j] = old[j]
    <3>1. phdrs[j] = old[j] /\ j \in 1 .. Len(phdrs) BY <2>1, <2>2, <2>4
    <3>2. j # pt BY <1>6, <2>4, <3>1
    <3> QED BY <1>9, <3>1, <3>2
  <2>5. ASSUME NEW j \in 1 .. Len(old), old[j].type = "PHDR" PROVE pt = j
    <3> DEFINE S == IndicesOf(phdrs, "PHDR")
    <3>1. j \in 1 .. Len(phdrs) /\ phdrs[j].type = "PHDR" BY <2>1, <2>5
    <3>2. j \in S BY <3>1 DEF IndicesOf
    <3>3. S \in SUBSET (Nat \ {0}) BY DEF IndicesOf
    <3>4. pt = FirstOf(S) BY DEF pt, UniquePhdr
    <3>5. pt \in S /\ pt <= j BY <3>2, <3>3, <3>4, FirstOfProperty
    <3>6. pt \in 1 .. Len(old)
      <4> HIDE DEF S
      <4> QED BY <2>1, <3>3, <3>5
    <3>7. phdrs[pt].type = "PHDR" BY <3>5 DEF IndicesOf
    <3>8. old[pt].type = "PHDR" BY <2>1, <3>6, <3>7
    <3> QED BY <2>1, <2>5, <3>6, <3>8
  <2>6. ASSUME NEW j \in 1 .. Len(old), old[j].type = "PHDR"
        PROVE  /\ phdrs'[j].offset = to /\ phdrs'[j].vaddr = va
               /\ phdrs'[j].filesz = len /\ phdrs'[j].memsz = len
    <3>1. pt = j /\ pt # 0 BY <2>5, <2>6
    <3>2. j \in 1 .. Len(phdrs) BY <2>1
    <3>3. phdrs[j] \in Phdr BY <1>3, <3>2
    <3>4. phdrs' = [phdrs EXCEPT ![j].offset = to, ![j].vaddr = va,
                                 ![j].filesz = len, ![j].memsz = len]
      BY <1>1, <3>1 DEF Moved
    <3> QED BY <1>3, <3>2, <3>3, <3>4 DEF Phdr
  <2>7. m' = m /\ src' = src BY <1>1
  <2> QED
    BY <1>5, <1>10, <1>11, <2>3, <2>4, <2>6, <2>7 DEF OldHeaders, old, len
<1>15. StringTable' BY <1>1, <1>4 DEF Memory, StringTable, Offsets
<1>16. Entries' BY <1>4 DEF Entries
<1> QED BY <1>12, <1>13, <1>14, <1>15, <1>16 DEF Memory
(* A section header that is led to a new place, among the others.          *)
LEMMA MovedSectionFields ==
  ASSUME NEW shs \in Seq(Shdr), NEW i \in 0 .. Len(shs),
         NEW off, NEW vaddr, NEW len, NEW j \in 1 .. Len(shs)
  PROVE  LET new == MovedSection(shs, i, off, vaddr, len) IN
         /\ SameSection(new[j], shs[j])
         /\ j = i => Covers(new[j], vaddr, off, len)
         /\ j # i => new[j] = shs[j]
<1> DEFINE new == MovedSection(shs, i, off, vaddr, len)
<1>1. shs[j] \in Shdr OBVIOUS
<1>2. CASE i = 0
  <2>1. new = shs BY <1>2 DEF MovedSection
  <2> QED BY <1>2, <2>1 DEF SameSection
<1>3. CASE i # 0
  <2>1. new = [shs EXCEPT ![i].addr = vaddr, ![i].offset = off, ![i].size = len]
    BY <1>3 DEF MovedSection
  <2> HIDE DEF new
  <2>2. j # i => new[j] = shs[j] BY <2>1
  <2>3. ASSUME j = i
        PROVE  Covers(new[j], vaddr, off, len) /\ SameSection(new[j], shs[j])
    <3> DEFINE t == [shs[i] EXCEPT !.addr = vaddr, !.offset = off, !.size = len]
    <3>1. new = [shs EXCEPT ![i] = t] BY <2>1
    <3>2. Covers(t, vaddr, off, len) /\ SameSection(t, shs[i])
      BY <1>1, <2>3 DEF Covers, SameSection, Shdr
    <3>3. i \in DOMAIN shs BY <2>3
    <3> HIDE DEF t
    <3>4. new[i] = t BY <3>1, <3>3
    <3> QED BY <2>3, <3>2, <3>4
  <2> QED BY <2>2, <2>3 DEF SameSection, new
<1> QED BY <1>2, <1>3

(* As many section headers as in the input.                                *)
LEMMA OldSections ==
  ASSUME TypeInv, Footprint
  PROVE  /\ ShdrsOf(src.buf) \in Seq(Shdr)
         /\ Len(shdrs) = Len(ShdrsOf(src.buf)) /\ Len(shdrs) \in Nat
<1>1. /\ ParseElf(src.buf, src.size) /\ src.size \in Nat /\ src.size <= MaxU
      /\ src.buf \in File(src.size)
  BY Naturals64 DEF Footprint, TypeInv, TypeOK, IsFile
<1>2. ShdrsOf(src.buf) \in Seq(Shdr) /\ Len(ShdrsOf(src.buf)) = ShnumOf(src.buf)
  BY <1>1, AcceptedTypes
<1>3. Len(shdrs) = ShnumOf(src.buf) /\ Len(shdrs) \in Nat
  BY DEF Footprint, TypeInv, TypeOK
<1> QED BY <1>2, <1>3

(* The address of the new string table leads to its place in the file.     *)
LEMMA DynstrFound ==
  ASSUME TypeInv, Plan, pc = "moveDynstr"
  PROVE  NewDynstrAt = [ok |-> TRUE, val |-> NewDynstrOff]
<1> DEFINE k   == m.newPhsize
           len == m.newDynstrSz
           content == k + len
<1>1. Appended BY DEF Appended
<1>2. /\ m.ro \in 1 .. Len(phdrs) /\ RoPlaced /\ k \in Nat /\ len \in Nat /\ 0 < len
  BY <1>1, FillPlan
<1>3. Holds(phdrs[m.ro], content) /\ Behind(phdrs, m.ro) BY <1>2 DEF RoPlaced, Placed
<1> HIDE DEF k, len
<1>4. content \in Nat /\ k + len <= content BY <1>2
<1> HIDE DEF content
<1>5. OffFromVaddr(phdrs, phdrs[m.ro].vaddr + k, len)
        = [ok |-> TRUE, val |-> phdrs[m.ro].offset + k]
  BY ONLY TypeInv, <1>2, <1>3, <1>4, FoundInPlace, ZenonT(60)
<1> QED BY <1>5 DEF NewDynstrAt, NewDynstrVaddr, NewDynstrOff, k, len

(* grow_move_modify_dynstr: the entries and the section header follow.     *)
LEMMA MoveDynstrMemory ==
  ASSUME TypeInv, Footprint, Plan, Memory, MoveDynstr
  PROVE  Memory'
<1> DEFINE va == NewDynstrVaddr
           at == NewDynstrAt
           sz == m.newDynstrSz
           old == ShdrsOf(src.buf)
           s  == strtab.shdr
<1>1. /\ pc = "moveDynstr" /\ pc' = "addEntries"
      /\ dyn' = [dyn EXCEPT
           !.entries[DynIndex(dyn.entries, "STRTAB")].val = va,
           !.entries[DynIndex(dyn.entries, "STRSZ")].val = sz]
      /\ strtab' = [strtab EXCEPT !.vaddr = va, !.off = at.val, !.size = sz]
      /\ shdrs' = MovedSection(shdrs, s, at.val, va, sz)
      /\ dirty' = dirty \cup DirtyByDynstr
      /\ UNCHANGED <<src, ehdr, phdrs, m>>
  BY DEF MoveDynstr, env
<1>2. /\ ~StringsMoved /\ StringsMoved' /\ PhdrsMoved /\ PhdrsMoved' /\ ~InData /\ ~InData'
      /\ pc' \notin Filled /\ pc # "prepare" /\ pc' # "prepare"
  BY <1>1 DEF StringsMoved, PhdrsMoved, InData, Filled
<1>3. at.val = NewDynstrOff
  <2>1. at = [ok |-> TRUE, val |-> NewDynstrOff] BY <1>1, DynstrFound
  <2> HIDE DEF at
  <2> QED BY <2>1
<1>4. strtab = StrtabOf(src.buf) /\ strtab \in Strtab /\ dyn \in Dynamic
      /\ dyn.entries = DynEntriesOf(src.buf)
  BY <1>1, <1>2 DEF Memory, StringTable, TypeInv, TypeOK, Plan, Tables
<1>5. /\ shdrs \in Seq(Shdr) /\ s \in 0 .. Len(shdrs) /\ Len(shdrs) = Len(old)
      /\ Len(old) \in Nat
  BY OldSections DEF TypeInv, TypeOK, Strtab
<1> HIDE DEF va, at, sz
<1>6. /\ strtab'.shdr = s /\ strtab'.vaddr = va /\ strtab'.off = at.val
      /\ strtab'.size = sz
  BY <1>1, <1>4 DEF Strtab
<1>7. dyn'.shdr = dyn.shdr /\ dyn'.phdr = dyn.phdr
      /\ dyn'.entries = [dyn.entries EXCEPT ![DynIndex(dyn.entries, "STRTAB")].val = va,
                                            ![DynIndex(dyn.entries, "STRSZ")].val = sz]
  BY <1>1, <1>4 DEF Dynamic
<1>8. SameHeader' BY <1>1 DEF Memory, SameHeader
<1>9. Sections'
  <2>1. \A j \in 1 .. Len(old) :
          /\ SameSection(shdrs'[j], shdrs[j])
          /\ j = s => Covers(shdrs'[j], va, at.val, sz)
          /\ j # s => shdrs'[j] = shdrs[j]
    <3> HIDE DEF s, old
    <3> QED BY <1>1, <1>5, MovedSectionFields
  <2>2. "shdrs" \in dirty' \/ shdrs' = old
    <3>1. CASE s = 0
      <4>1. shdrs' = shdrs BY <1>1, <3>1 DEF MovedSection
      <4>2. "shdrs" \in dirty \/ shdrs = old BY <1>2 DEF Memory, Sections
      <4> QED BY <1>1, <4>1, <4>2
    <3>2. CASE s # 0
      <4>1. "shdrs" \in DirtyByDynstr BY <3>2 DEF DirtyByDynstr
      <4> QED BY <1>1, <4>1
    <3> QED BY <3>1, <3>2
  <2>3. \A j \in 1 .. Len(old) :
          /\ SameSection(shdrs[j], old[j])
          /\ j # s /\ j = dyn.shdr =>
               Covers(shdrs[j], phdrs[dyn.phdr].vaddr, phdrs[dyn.phdr].offset,
                      phdrs[dyn.phdr].filesz)
          /\ j # s /\ j # dyn.shdr =>
               Covers(shdrs[j], old[j].addr, old[j].offset, old[j].size)
    BY DEF Memory, Sections
  <2>4. src' = src /\ phdrs' = phdrs BY <1>1
  <2> HIDE DEF old, s
  <2>5. \A j \in 1 .. Len(old) :
          /\ SameSection(shdrs'[j], old[j])
          /\ j = s => Covers(shdrs'[j], va, at.val, sz)
          /\ j # s /\ j = dyn.shdr =>
               Covers(shdrs'[j], phdrs[dyn.phdr].vaddr, phdrs[dyn.phdr].offset,
                      phdrs[dyn.phdr].filesz)
          /\ j # s /\ j # dyn.shdr =>
               Covers(shdrs'[j], old[j].addr, old[j].offset, old[j].size)
    <3> TAKE j \in 1 .. Len(old)
    <3>1. SameSection(shdrs'[j], old[j]) BY <2>1, <2>3 DEF SameSection
    <3> QED BY <2>1, <2>3, <3>1
  <2> QED BY <1>6, <1>7, <2>2, <2>4, <2>5 DEF Sections, old, s
<1>10. OldHeaders' BY <1>1, <1>2 DEF Memory, OldHeaders
<1>11. StringTable'
  <2>1. NewDynstrVaddr' = va /\ NewDynstrOff' = NewDynstrOff /\ m'.newDynstrSz = sz
    BY <1>1 DEF NewDynstrVaddr, NewDynstrOff, va, sz
  <2>2. strtab' = [StrtabOf(src.buf) EXCEPT !.vaddr = va, !.off = NewDynstrOff,
                                            !.size = sz]
    BY <1>1, <1>3, <1>4
  <2> QED BY <1>1, <1>2, <1>7, <2>1, <2>2 DEF Memory, StringTable, Offsets
<1>12. Entries'
  <2>1. dyn'.entries = Retargeted(DynEntriesOf(src.buf))'
    BY <1>1, <1>4, <1>6, <1>7 DEF Retargeted
  <2>2. "dyn" \in dirty' BY <1>1 DEF DirtyByDynstr
  <2> QED BY <1>1, <1>2, <2>1, <2>2 DEF Entries
<1> QED BY <1>8, <1>9, <1>10, <1>11, <1>12 DEF Memory

(* add_new_dynamic_entries, in place: the entries are all that changes.    *)
LEMMA AddEntriesInPlaceMemory ==
  ASSUME TypeInv, Plan, Memory, AddEntriesInPlace
  PROVE  Memory'
<1>1. /\ pc = "addEntries" /\ pc' = "serialize" /\ ~m.move
      /\ dyn' = [dyn EXCEPT !.entries = WithImports(dyn.entries)]
      /\ UNCHANGED <<src, ehdr, phdrs, shdrs, strtab, dirty, m>>
  BY DEF AddEntriesInPlace, env
<1>2. /\ StringsMoved /\ StringsMoved' /\ PhdrsMoved /\ PhdrsMoved' /\ ~InData /\ ~InData'
      /\ pc' \in Filled /\ pc # "prepare" /\ pc' # "prepare"
  BY <1>1 DEF StringsMoved, PhdrsMoved, InData, Filled
<1>3. dyn'.shdr = dyn.shdr /\ dyn'.phdr = dyn.phdr
      /\ dyn'.entries = WithImports(dyn.entries)
  BY <1>1 DEF TypeInv, TypeOK, Dynamic
<1>4. SameHeader' BY <1>1 DEF Memory, SameHeader
<1>5. Sections' BY <1>1, <1>2, <1>3 DEF Memory, Sections
<1>6. OldHeaders' BY <1>1, <1>2 DEF Memory, OldHeaders
<1>7. StringTable'
  BY <1>1, <1>2, <1>3 DEF Memory, StringTable, Offsets, NewDynstrVaddr, NewDynstrOff
<1>8. Entries'
  <2>1. dyn.entries = Retargeted(DynEntriesOf(src.buf)) /\ "dyn" \in dirty
    BY <1>1, <1>2 DEF Memory, Entries
  <2> DEFINE es == DynEntriesOf(src.buf)
  <2>2. Prepared(es)' = Retargeted(es) BY <1>1 DEF Prepared, Retargeted
  <2>3. WithImports(Prepared(es))' = WithImports(dyn.entries)
    BY <1>1, <2>1, <2>2 DEF WithImports, FirstNull, DynIndices
  <2> QED BY <1>1, <1>2, <1>3, <2>1, <2>3 DEF Entries
<1> QED BY <1>4, <1>5, <1>6, <1>7, <1>8 DEF Memory
(* The entries of the input, led to the new string table.                  *)
LEMMA RetargetedFields ==
  ASSUME NEW es \in Seq(Dyn), HasUniqueDyn(es, "STRTAB"), HasUniqueDyn(es, "STRSZ"),
         strtab \in Strtab
  PROVE  /\ Retargeted(es) \in Seq(Dyn) /\ Len(Retargeted(es)) = Len(es)
         /\ \A i \in 1 .. Len(es) :
              /\ Retargeted(es)[i].tag = es[i].tag
              /\ es[i].tag \notin {"STRTAB", "STRSZ"} => Retargeted(es)[i] = es[i]
              /\ es[i].tag = "STRTAB" => Retargeted(es)[i].val = strtab.vaddr
              /\ es[i].tag = "STRSZ" => Retargeted(es)[i].val = strtab.size
<1> DEFINE a == DynIndex(es, "STRTAB")
           b == DynIndex(es, "STRSZ")
           p == [es[a] EXCEPT !.val = strtab.vaddr]
           e == [es EXCEPT ![a] = p]
           q == [e[b] EXCEPT !.val = strtab.size]
           f == [e EXCEPT ![b] = q]
<1>1. a \in 1 .. Len(es) /\ b \in 1 .. Len(es) BY DynIndexProperty
<1>2. /\ es[a].tag = "STRTAB" /\ es[b].tag = "STRSZ"
      /\ \A i \in 1 .. Len(es) : /\ es[i].tag = "STRTAB" => i = a
                                 /\ es[i].tag = "STRSZ" => i = b
  <2>1. \E i : DynIndices(es, "STRTAB") = {i} BY DEF HasUniqueDyn
  <2>2. \E i : DynIndices(es, "STRSZ") = {i} BY DEF HasUniqueDyn
  <2>3. DynIndices(es, "STRTAB") = {a} BY <2>1 DEF DynIndex
  <2>4. DynIndices(es, "STRSZ") = {b} BY <2>2 DEF DynIndex
  <2> HIDE DEF a, b
  <2> QED BY <2>3, <2>4 DEF DynIndices
<1>3. Retargeted(es) = f BY DEF Retargeted
<1>4. strtab.vaddr \in U64 /\ strtab.size \in U64 BY DEF Strtab
<1> HIDE DEF a, b
<1>5. p \in Dyn /\ p.tag = "STRTAB" /\ p.val = strtab.vaddr
  <2>1. es[a] \in Dyn BY <1>1
  <2> QED BY <1>2, <1>4, <2>1 DEF Dyn
<1> HIDE DEF p
<1>6. e \in Seq(Dyn) /\ Len(e) = Len(es) BY <1>1, <1>5, ReplacedEntry
<1>7. \A i \in 1 .. Len(es) : e[i] = IF i = a THEN p ELSE es[i] BY <1>1
<1> HIDE DEF e
<1>8. q \in Dyn /\ q.tag = "STRSZ" /\ q.val = strtab.size
  <2>1. a # b BY <1>2
  <2>2. e[b] = es[b] /\ es[b] \in Dyn BY <1>1, <1>7, <2>1
  <2> QED BY <1>2, <1>4, <2>2 DEF Dyn
<1> HIDE DEF q
<1>9. f \in Seq(Dyn) /\ Len(f) = Len(es) BY <1>1, <1>6, <1>8, ReplacedEntry
<1>10. \A i \in 1 .. Len(es) : f[i] = IF i = b THEN q ELSE e[i] BY <1>1, <1>6
<1> HIDE DEF f
<1>11. ASSUME NEW i \in 1 .. Len(es)
       PROVE  /\ f[i].tag = es[i].tag
              /\ es[i].tag \notin {"STRTAB", "STRSZ"} => f[i] = es[i]
              /\ es[i].tag = "STRTAB" => f[i].val = strtab.vaddr
              /\ es[i].tag = "STRSZ" => f[i].val = strtab.size
  <2>1. CASE i = a
    <3>1. i # b BY <1>2, <2>1
    <3>2. f[i] = p BY <1>7, <1>10, <2>1, <3>1
    <3> QED BY <1>2, <1>5, <2>1, <3>2
  <2>2. CASE i = b
    <3>1. f[i] = q BY <1>10, <2>2
    <3> QED BY <1>2, <1>8, <2>2, <3>1
  <2>3. CASE i # a /\ i # b
    <3>1. f[i] = es[i] BY <1>7, <1>10, <2>3
    <3> QED BY <1>2, <2>3, <3>1
  <2> QED BY <2>1, <2>2, <2>3
<1> QED BY <1>3, <1>9, <1>11

(* The dynamic table of the input.                                         *)
LEMMA OldEntries ==
  ASSUME TypeInv, Footprint
  PROVE  LET es == DynEntriesOf(src.buf) IN
         /\ es \in Seq(Dyn) /\ Len(es) \in Nat
         /\ HasUniqueDyn(es, "STRTAB") /\ HasUniqueDyn(es, "STRSZ")
<1>1. /\ ParseElf(src.buf, src.size) /\ src.size \in Nat /\ src.size <= MaxU
      /\ src.buf \in File(src.size)
  BY Naturals64 DEF Footprint, TypeInv, TypeOK, IsFile
<1>2. DynEntriesOf(src.buf) \in Seq(Dyn) BY <1>1, AcceptedTypes
<1> QED BY <1>1, <1>2 DEF ParseElf, ValidDynamic

(* add_new_dynamic_entries, moving the table: its headers follow.          *)
LEMMA AddEntriesMovedMemory ==
  ASSUME TypeInv, Footprint, Plan, Memory, AddEntriesMoved
  PROVE  Memory'
<1> DEFINE d   == dyn.phdr
           k   == dyn.shdr
           s   == strtab.shdr
           len == NewDynNum * DynEnt
           off == NewDynOff
           va  == NewDynVaddr
           old == ShdrsOf(src.buf)
           es  == DynEntriesOf(src.buf)
<1>1. /\ pc = "addEntries" /\ m.move /\ pc' = "serialize"
      /\ phdrs' = Moved(phdrs, d, off, va, len)
      /\ shdrs' = MovedSection(shdrs, k, off, va, len)
      /\ dyn' = [dyn EXCEPT !.entries = WithImports(Resized(@, NewDynNum, ZeroDyn))]
      /\ dirty' = dirty \cup {"phdrs"} \cup (IF k = 0 THEN {} ELSE {"shdrs"})
      /\ UNCHANGED <<src, ehdr, strtab, m>>
  BY DEF AddEntriesMoved, env
<1>2. /\ StringsMoved /\ StringsMoved' /\ PhdrsMoved /\ PhdrsMoved' /\ ~InData /\ ~InData'
      /\ pc' \in Filled /\ pc # "prepare" /\ pc' # "prepare"
  BY <1>1 DEF StringsMoved, PhdrsMoved, InData, Filled
<1>3. Appended BY <1>1 DEF Appended
<1>4. dyn'.shdr = k /\ dyn'.phdr = d
      /\ dyn'.entries = WithImports(Resized(dyn.entries, NewDynNum, ZeroDyn))
  BY <1>1 DEF TypeInv, TypeOK, Dynamic
<1>5. d \in 1 .. Len(phdrs) /\ phdrs[d] \in Phdr /\ phdrs[d].type = "DYNAMIC"
      /\ phdrs \in Seq(Phdr) /\ m.ro \in 1 .. Len(phdrs) /\ phdrs[m.ro].type = "LOAD"
  BY <1>3, FillFacts, FillPlan DEF RoPlaced, Placed, Holds
<1> HIDE DEF len, off, va
<1>6. /\ \A j \in 1 .. Len(phdrs) : j # d => phdrs'[j] = phdrs[j]
      /\ Len(phdrs') = Len(phdrs)
  <2>1. /\ TypeInv'
        /\ \A j \in 1 .. Len(phdrs) : j # dyn.phdr => phdrs'[j] = phdrs[j]
    BY AddEntriesMovedTypes
  <2>2. phdrs' \in Seq(Phdr) BY <2>1 DEF TypeInv, TypeOK
  <2>3. DOMAIN phdrs' = DOMAIN phdrs
    <3> HIDE DEF d
    <3> QED BY <1>1 DEF Moved
  <2> QED BY <1>5, <2>1, <2>2, <2>3
<1>7. phdrs'[d].offset = off /\ phdrs'[d].vaddr = va /\ phdrs'[d].filesz = len
  BY <1>1, <1>5 DEF Moved, Phdr
<1>8. phdrs'[m.ro] = phdrs[m.ro] BY <1>5, <1>6
<1>9. SameHeader' BY <1>1 DEF Memory, SameHeader
<1>10. Sections'
  <2>1. /\ shdrs \in Seq(Shdr) /\ k \in 0 .. Len(shdrs) /\ Len(shdrs) = Len(old)
        /\ Len(old) \in Nat
    BY OldSections DEF TypeInv, TypeOK, Dynamic
  <2>2. s # 0 => s # k
    <3>1. /\ ParseElf(src.buf, src.size) /\ src.size \in Nat /\ src.size <= MaxU
          /\ src.buf \in File(src.size)
      BY Naturals64 DEF Footprint, TypeInv, TypeOK, IsFile
    <3>2. s = StrtabOf(src.buf).shdr
      <4>1. StrtabOf(src.buf) = [vaddr |-> StrtabOf(src.buf).vaddr,
              off |-> StrtabOf(src.buf).off, size |-> StrtabOf(src.buf).size,
              shdr |-> StrtabOf(src.buf).shdr]
        BY <3>1, AcceptedTypes
      <4>2. strtab = [StrtabOf(src.buf) EXCEPT !.vaddr = NewDynstrVaddr,
                        !.off = NewDynstrOff, !.size = m.newDynstrSz]
        BY <1>2 DEF Memory, StringTable
      <4> QED BY <4>1, <4>2
    <3>3. k = ShtDynamic(old) BY DEF Memory, StringTable
    <3>4. StrtabOf(src.buf).shdr # 0 => StrtabOf(src.buf).shdr # ShtDynamic(old)
      BY <3>1, AcceptedSections
    <3> QED BY <3>2, <3>3, <3>4
  <2>3. \A j \in 1 .. Len(old) :
          /\ SameSection(shdrs'[j], shdrs[j])
          /\ j = k => Covers(shdrs'[j], va, off, len)
          /\ j # k => shdrs'[j] = shdrs[j]
    <3> HIDE DEF k, old
    <3> QED BY <1>1, <2>1, MovedSectionFields
  <2>4. "shdrs" \in dirty' \/ shdrs' = old
    <3>1. CASE k = 0
      <4>1. shdrs' = shdrs BY <1>1, <3>1 DEF MovedSection
      <4>2. "shdrs" \in dirty \/ shdrs = old BY <1>2 DEF Memory, Sections
      <4> QED BY <1>1, <4>1, <4>2
    <3>2. CASE k # 0 BY <1>1, <3>2
    <3> QED BY <3>1, <3>2
  <2>5. \A j \in 1 .. Len(old) :
          /\ SameSection(shdrs[j], old[j])
          /\ j = s => Covers(shdrs[j], strtab.vaddr, strtab.off, strtab.size)
          /\ j # s /\ j # k =>
               Covers(shdrs[j], old[j].addr, old[j].offset, old[j].size)
    BY DEF Memory, Sections
  <2>6. src' = src /\ strtab' = strtab BY <1>1
  <2> HIDE DEF old, s, k
  <2>7. \A j \in 1 .. Len(old) :
          /\ SameSection(shdrs'[j], old[j])
          /\ j = s => Covers(shdrs'[j], strtab.vaddr, strtab.off, strtab.size)
          /\ j # s /\ j = k => Covers(shdrs'[j], va, off, len)
          /\ j # s /\ j # k =>
               Covers(shdrs'[j], old[j].addr, old[j].offset, old[j].size)
    <3> TAKE j \in 1 .. Len(old)
    <3>1. SameSection(shdrs'[j], old[j]) BY <2>3, <2>5 DEF SameSection
    <3>2. j # 0 OBVIOUS
    <3> QED BY <2>2, <2>3, <2>5, <3>1, <3>2
  <2> QED BY <1>4, <1>7, <2>4, <2>6, <2>7 DEF Sections, old, s, k
<1>11. OldHeaders'
  <2> DEFINE phs == PhdrsOf(src.buf)
  <2>1. \A j \in 1 .. Len(phs) : j \in 1 .. Len(phdrs) /\ phdrs[j].type = phs[j].type
    BY OldPhdrs
  <2>2. \A j \in 1 .. Len(phs) : phs[j].type # "DYNAMIC" => phdrs'[j] = phdrs[j]
    BY <1>5, <1>6, <2>1
  <2>3. m' = m /\ src' = src /\ ehdr' = ehdr BY <1>1
  <2> QED BY <1>2, <1>6, <1>8, <2>2, <2>3 DEF Memory, OldHeaders
<1>12. StringTable'
  BY <1>1, <1>2, <1>4, <1>8 DEF Memory, StringTable, Offsets, NewDynstrVaddr, NewDynstrOff
<1>13. Entries'
  <2>1. dyn.entries = Retargeted(es) /\ "dyn" \in dirty
    BY <1>1, <1>2 DEF Memory, Entries
  <2>2. Len(dyn.entries) = Len(es)
    BY <2>1, OldEntries, RetargetedFields DEF TypeInv, TypeOK
  <2>3. Prepared(es)' = Resized(dyn.entries, NewDynNum, ZeroDyn)
    BY <1>1, <2>1, <2>2 DEF Prepared, Retargeted, NewDynNum
  <2>4. WithImports(Prepared(es))' = WithImports(Resized(dyn.entries, NewDynNum, ZeroDyn))
    BY <1>1, <2>3 DEF WithImports, FirstNull, DynIndices
  <2> QED BY <1>1, <1>2, <1>4, <2>1, <2>4 DEF Entries
<1> QED BY <1>9, <1>10, <1>11, <1>12, <1>13 DEF Memory

(* The steps after that.                                                   *)
LEMMA LaterMemory ==
  ASSUME Memory, UNCHANGED <<src, ehdr, phdrs, shdrs, dyn, strtab, m>>,
         pc \in Filled, pc' \in Filled \ {"serialize"}
  PROVE  Memory'
<1>1. /\ StringsMoved /\ StringsMoved' /\ PhdrsMoved /\ PhdrsMoved' /\ InData'
      /\ pc \in Filled /\ pc' \in Filled
      /\ pc # "prepare" /\ pc' # "prepare" /\ pc # "addEntries" /\ pc' # "addEntries"
  BY DEF StringsMoved, PhdrsMoved, InData, Filled
<1>2. SameHeader' BY DEF Memory, SameHeader
<1>3. Sections' BY <1>1 DEF Memory, Sections
<1>4. OldHeaders' BY <1>1 DEF Memory, OldHeaders
<1>5. StringTable'
  BY <1>1 DEF Memory, StringTable, Offsets, NewDynstrVaddr, NewDynstrOff
<1>6. Entries'
  <2> DEFINE es == DynEntriesOf(src.buf)
  <2>1. Prepared(es)' = Prepared(es) BY DEF Prepared, Retargeted
  <2>2. WithImports(Prepared(es))' = WithImports(Prepared(es))
    BY <2>1 DEF WithImports, FirstNull, DynIndices
  <2> QED BY <1>1, <2>2 DEF Memory, Entries
<1> QED BY <1>2, <1>3, <1>4, <1>5, <1>6 DEF Memory
-----------------------------------------------------------------------------
(* The strings, one after the other, each with room for its terminator.    *)
LEMMA OffsetsGrow ==
  ASSUME NEW old \in Nat
  PROVE  LET o == StrOffset(old)
             N == Len(Imports)
         IN  /\ \A i \in 1 .. N + 1 : o[i] \in Nat /\ old <= o[i]
             /\ \A i \in 1 .. N : /\ NameLen[Imports[i]] \in Nat
                                  /\ o[i + 1] = o[i] + NameLen[Imports[i]] + 1
             /\ \A s \in 1 .. N : \A t \in s + 1 .. N + 1 :
                  o[s] + NameLen[Imports[s]] < o[t]
<1> DEFINE o == StrOffset(old)
           N == Len(Imports)
           L(i) == NameLen[Imports[i]]
<1>1. N \in Nat /\ \A i \in 1 .. N : L(i) \in Nat
  BY ImportCount, NameAssumption
<1>2. \A i \in 1 .. N + 1 : o[i] = IF i = 1 THEN old ELSE o[i - 1] + L(i - 1) + 1
  <2>1. o = [i \in 1 .. N + 1 |-> IF i = 1 THEN old ELSE o[i - 1] + L(i - 1) + 1]
    BY StrOffsetSteps
  <2> HIDE DEF o, N, L
  <2> QED BY <2>1, Zenon
<1> HIDE DEF o, N, L
<1>3. \A i \in 1 .. N : o[i + 1] = o[i] + L(i) + 1
  <2> TAKE i \in 1 .. N
  <2>1. i + 1 \in 1 .. N + 1 /\ i + 1 # 1 /\ i + 1 - 1 = i BY <1>1
  <2> QED BY <1>2, <2>1
<1>4. \A i \in 1 .. N + 1 : o[i] \in Nat /\ old <= o[i]
  <2> DEFINE S == {i \in 1 .. N + 1 : o[i] \in Nat /\ old <= o[i]}
  <2>1. o[1] = old BY <1>1, <1>2
  <2>2. 1 \in S BY <1>1, <2>1
  <2>3. ASSUME NEW k \in 1 .. (N + 1) - 1, k \in S PROVE k + 1 \in S
    <3>1. k \in 1 .. N /\ k + 1 \in 1 .. N + 1 BY <1>1
    <3>2. o[k + 1] = o[k] + L(k) + 1 /\ L(k) \in Nat BY <1>1, <1>3, <3>1
    <3>3. o[k] \in Nat /\ old <= o[k] BY <2>3
    <3> QED BY <3>1, <3>2, <3>3
  <2>4. 1 .. N + 1 \subseteq S
    <3> HIDE DEF S
    <3>1. N + 1 \in Nat BY <1>1
    <3> QED BY <2>2, <2>3, <3>1, IntervalInduction
  <2> QED BY <2>4
<1>5. \A s \in 1 .. N : \A t \in s + 1 .. N + 1 : o[s] + L(s) < o[t]
  <2> TAKE s \in 1 .. N
  <2> DEFINE S == {t \in s + 1 .. N + 1 : o[s] + L(s) < o[t]}
  <2>1. o[s] \in Nat /\ L(s) \in Nat BY <1>1, <1>4
  <2>2. s + 1 \in S
    <3>1. o[s + 1] = o[s] + L(s) + 1 BY <1>3
    <3>2. s + 1 \in s + 1 .. N + 1 BY <1>1
    <3> QED BY <2>1, <3>1, <3>2
  <2>3. ASSUME NEW k \in s + 1 .. (N + 1) - 1, k \in S PROVE k + 1 \in S
    <3>1. k \in 1 .. N /\ k + 1 \in s + 1 .. N + 1 BY <1>1
    <3>2. o[k + 1] = o[k] + L(k) + 1 /\ L(k) \in Nat BY <1>1, <1>3, <3>1
    <3>3. o[s] + L(s) < o[k] BY <2>3
    <3>4. o[k] \in Nat BY <1>1, <1>4, <3>1
    <3> QED BY <2>1, <3>1, <3>2, <3>3, <3>4
  <2>4. s + 1 .. N + 1 \subseteq S
    <3> HIDE DEF S
    <3>1. N + 1 \in Nat /\ s + 1 \in Nat BY <1>1
    <3> QED BY <2>2, <2>3, <3>1, IntervalInduction
  <2> QED BY <2>4
<1> QED BY <1>1, <1>3, <1>4, <1>5 DEF o, N, L

(* Five structures are five structures.                                    *)
LEMMA AtMostFour ==
  ASSUME NEW a, NEW b, NEW c, NEW d
  PROVE  Cardinality({a, b, c, d}) <= 4
<1>1. IsFiniteSet({}) /\ Cardinality({}) = 0 BY FS_EmptySet
<1>2. {a} = {} \cup {a} /\ {a, b} = {a} \cup {b} /\ {a, b, c} = {a, b} \cup {c}
      /\ {a, b, c, d} = {a, b, c} \cup {d}
  OBVIOUS
<1>3. /\ IsFiniteSet({a})
      /\ Cardinality({a}) \in Nat /\ Cardinality({a}) <= 1
  <2>1. IsFiniteSet({} \cup {a}) /\ Cardinality({} \cup {a}) \in {0, 1}
    BY <1>1, FS_AddElement
  <2> QED BY <1>2, <2>1
<1>4. /\ IsFiniteSet({a, b})
      /\ Cardinality({a, b}) \in Nat /\ Cardinality({a, b}) <= 2
  <2>1. /\ IsFiniteSet({a} \cup {b})
        /\ Cardinality({a} \cup {b}) \in {Cardinality({a}), Cardinality({a}) + 1}
    BY <1>3, FS_AddElement
  <2> QED BY <1>2, <1>3, <2>1
<1>5. /\ IsFiniteSet({a, b, c})
      /\ Cardinality({a, b, c}) \in Nat /\ Cardinality({a, b, c}) <= 3
  <2>1. /\ IsFiniteSet({a, b} \cup {c})
        /\ Cardinality({a, b} \cup {c})
             \in {Cardinality({a, b}), Cardinality({a, b}) + 1}
    BY <1>4, FS_AddElement
  <2> QED BY <1>2, <1>4, <2>1
<1>6. Cardinality({a, b, c, d}) <= 4
  <2>1. Cardinality({a, b, c} \cup {d})
             \in {Cardinality({a, b, c}), Cardinality({a, b, c}) + 1}
    BY <1>5, FS_AddElement
  <2>2. Cardinality({a, b, c} \cup {d}) <= 4 BY <1>5, <2>1
  <2>3. {a, b, c, d} = {a, b, c} \cup {d} BY <1>2
  <2> QED BY ONLY <2>2, <2>3, Zenon
<1> QED BY <1>6

(* Of a tidy file, no two structures share a byte.                         *)
LEMMA TidyApart ==
  ASSUME NEW b, Tidy(b)
  PROVE  /\ Apart(EhdrRange, PhdrsRange(b)) /\ Apart(EhdrRange, ShdrsRange(b))
         /\ Apart(EhdrRange, DynRange(b)) /\ Apart(EhdrRange, StrtabRange(b))
         /\ Apart(PhdrsRange(b), ShdrsRange(b)) /\ Apart(PhdrsRange(b), DynRange(b))
         /\ Apart(PhdrsRange(b), StrtabRange(b)) /\ Apart(ShdrsRange(b), DynRange(b))
         /\ Apart(ShdrsRange(b), StrtabRange(b)) /\ Apart(DynRange(b), StrtabRange(b))
<1> DEFINE e == EhdrRange
           p == PhdrsRange(b)
           s == ShdrsRange(b)
           d == DynRange(b)
           t == StrtabRange(b)
<1>1. Rewritten(b) = {e, p, s, d, t} BY DEF Rewritten
<1>2. Cardinality({e, p, s, d, t}) = 5 BY <1>1 DEF Tidy
<1>3. \A x, y \in {e, p, s, d, t} : x = y \/ Apart(x, y) BY <1>1 DEF Tidy
<1> HIDE DEF e, p, s, d, t
<1>4. ASSUME NEW w, NEW x, NEW y, NEW z, {e, p, s, d, t} = {w, x, y, z} PROVE FALSE
  <2> DEFINE n == Cardinality({w, x, y, z})
  <2>1. n = 5 BY <1>2, <1>4
  <2>2. n <= 4 BY AtMostFour
  <2> HIDE DEF n
  <2> QED BY <2>1, <2>2
<1>5. e # p
  <2> SUFFICES ASSUME e = p PROVE FALSE OBVIOUS
  <2>1. {e, p, s, d, t} = {p, s, d, t} OBVIOUS
  <2> QED BY <1>4, <2>1
<1>6. e # s
  <2> SUFFICES ASSUME e = s PROVE FALSE OBVIOUS
  <2>1. {e, p, s, d, t} = {p, s, d, t} OBVIOUS
  <2> QED BY <1>4, <2>1
<1>7. e # d
  <2> SUFFICES ASSUME e = d PROVE FALSE OBVIOUS
  <2>1. {e, p, s, d, t} = {p, s, d, t} OBVIOUS
  <2> QED BY <1>4, <2>1
<1>8. e # t
  <2> SUFFICES ASSUME e = t PROVE FALSE OBVIOUS
  <2>1. {e, p, s, d, t} = {p, s, d, t} OBVIOUS
  <2> QED BY <1>4, <2>1
<1>9. p # s
  <2> SUFFICES ASSUME p = s PROVE FALSE OBVIOUS
  <2>1. {e, p, s, d, t} = {e, s, d, t} OBVIOUS
  <2> QED BY <1>4, <2>1
<1>10. p # d
  <2> SUFFICES ASSUME p = d PROVE FALSE OBVIOUS
  <2>1. {e, p, s, d, t} = {e, s, d, t} OBVIOUS
  <2> QED BY <1>4, <2>1
<1>11. p # t
  <2> SUFFICES ASSUME p = t PROVE FALSE OBVIOUS
  <2>1. {e, p, s, d, t} = {e, s, d, t} OBVIOUS
  <2> QED BY <1>4, <2>1
<1>12. s # d
  <2> SUFFICES ASSUME s = d PROVE FALSE OBVIOUS
  <2>1. {e, p, s, d, t} = {e, p, d, t} OBVIOUS
  <2> QED BY <1>4, <2>1
<1>13. s # t
  <2> SUFFICES ASSUME s = t PROVE FALSE OBVIOUS
  <2>1. {e, p, s, d, t} = {e, p, d, t} OBVIOUS
  <2> QED BY <1>4, <2>1
<1>14. d # t
  <2> SUFFICES ASSUME d = t PROVE FALSE OBVIOUS
  <2>1. {e, p, s, d, t} = {e, p, s, t} OBVIOUS
  <2> QED BY <1>4, <2>1
<1>15. /\ Apart(e, p) /\ Apart(e, s) /\ Apart(e, d) /\ Apart(e, t) /\ Apart(p, s)
       /\ Apart(p, d) /\ Apart(p, t) /\ Apart(s, d) /\ Apart(s, t) /\ Apart(d, t)
  BY <1>3, <1>5, <1>6, <1>7, <1>8, <1>9, <1>10, <1>11, <1>12, <1>13, <1>14
<1> QED BY <1>15 DEF e, p, s, d, t

(* No byte lies in two ranges that are apart.                              *)
LEMMA ApartWithin ==
  ASSUME NEW r, NEW s, r[1] \in Nat, r[2] \in Nat, s[1] \in Nat, s[2] \in Nat,
         Apart(r, s), NEW i \in Nat, Within(i, r)
  PROVE  ~Within(i, s)
  BY DEF Apart, Within

(* The ranges of the old tables are numbers, and end before the file does. *)
LEMMA OldPlaces ==
  ASSUME TypeInv, Footprint
  PROVE  LET b == src.buf
             e == EhdrRange
             p == PhdrsRange(b)
             s == ShdrsRange(b)
             d == DynRange(b)
             t == StrtabRange(b)
         IN  /\ \A r \in {e, p, s, d, t} : r[1] \in Nat /\ r[2] \in Nat
             /\ \A r \in {e, p, d, t} : r[1] + r[2] <= src.size
             /\ s[2] # 0 => s[1] + s[2] <= src.size
             /\ src.size \in Nat
             /\ e = <<e[1], e[2]>> /\ p = <<p[1], p[2]>> /\ s = <<s[1], s[2]>>
             /\ d = <<d[1], d[2]>> /\ t = <<t[1], t[2]>>
<1> DEFINE b == src.buf
           n == src.size
           e == EhdrRange
           p == PhdrsRange(b)
           s == ShdrsRange(b)
           d == DynRange(b)
           t == StrtabRange(b)
<1>1. /\ ParseElf(b, n) /\ n \in Nat /\ n <= MaxU /\ b \in File(n)
  BY Naturals64 DEF Footprint, TypeInv, TypeOK, IsFile
<1>2. /\ e[1] = 0 /\ e[2] = EhSize /\ p[1] = EhdrOf(b).phoff /\ p[2] = PhnumOf(b) * PhEnt
      /\ s[1] = EhdrOf(b).shoff /\ s[2] = ShnumOf(b) * ShEnt
      /\ d[1] = PhdrsOf(b)[PtDynamic(b)].offset
      /\ d[2] = PhdrsOf(b)[PtDynamic(b)].filesz
      /\ t[1] = StrtabOf(b).off /\ t[2] = StrtabOf(b).size
  BY DEF EhdrRange, PhdrsRange, ShdrsRange, DynRange, StrtabRange
<1>3. \A off, len \in Nat : InBounds(off, len, n) => off + len <= n
  BY <1>1 DEF InBounds
<1>4. /\ EhSize <= n /\ InBounds(p[1], p[2], n) /\ InBounds(t[1], t[2], n)
      /\ InBounds(d[1], d[2], n) /\ p[1] \in Nat /\ p[2] \in Nat
      /\ t[1] \in Nat /\ t[2] \in Nat /\ d[1] \in Nat /\ d[2] \in Nat
  BY <1>2, OldRanges
<1>5. /\ s[1] \in Nat /\ s[2] \in Nat /\ (s[2] # 0 => InBounds(s[1], s[2], n))
  <2>1. ReadableEhdr(b, n) /\ ValidShdrTable(b, n) BY <1>1 DEF ParseElf, ValidShdrs
  <2>2. EhdrOf(b) \in Ehdr BY <1>1, AcceptedTypes
  <2>3. /\ ShnumOf(b) \in U64
        /\ ShnumOf(b) # 0 => InBounds(EhdrOf(b).shoff, ShnumOf(b) * ShEnt, n)
    BY <1>1, <2>1, ShdrsType
  <2>4. ShnumOf(b) \in Nat /\ EhdrOf(b).shoff \in Nat
    BY <2>2, <2>3, Naturals64 DEF Ehdr
  <2>5. ShnumOf(b) * ShEnt \in Nat /\ (ShnumOf(b) = 0 => ShnumOf(b) * ShEnt = 0)
    BY <2>4, SizeAssumption
  <2> QED BY <1>2, <2>3, <2>4, <2>5
<1>6. e[1] \in Nat /\ e[2] \in Nat /\ e[1] + e[2] <= n
  BY <1>1, <1>2, <1>4, SizeAssumption
<1>7. p[1] + p[2] <= n /\ d[1] + d[2] <= n /\ t[1] + t[2] <= n
      /\ (s[2] # 0 => s[1] + s[2] <= n)
  <2> HIDE DEF p, s, d, t, n
  <2> QED BY <1>3, <1>4, <1>5
<1>8. /\ e = <<e[1], e[2]>> /\ p = <<p[1], p[2]>> /\ s = <<s[1], s[2]>>
      /\ d = <<d[1], d[2]>> /\ t = <<t[1], t[2]>>
  BY DEF EhdrRange, PhdrsRange, ShdrsRange, DynRange, StrtabRange
<1> HIDE DEF e, p, s, d, t, n
<1>9. \A r \in {e, p, s, d, t} : r[1] \in Nat /\ r[2] \in Nat
  BY <1>4, <1>5, <1>6
<1>10. \A r \in {e, p, d, t} : r[1] + r[2] <= n
  BY <1>6, <1>7
<1> QED BY <1>1, <1>7, <1>8, <1>9, <1>10 DEF e, p, s, d, t, n

(* In a tidy file, a byte of .dynstr or of the section headers belongs to  *)
(* no other structure.                                                     *)
LEMMA TidyBytes ==
  ASSUME TypeInv, Footprint, Tidy(src.buf), NEW i \in Nat
  PROVE  LET b == src.buf
             e == EhdrRange
             p == PhdrsRange(b)
             s == ShdrsRange(b)
             d == DynRange(b)
             t == StrtabRange(b)
         IN  /\ Within(i, s) => ~Within(i, e) /\ ~Within(i, p) /\ ~Within(i, d)
             /\ Within(i, t) => ~Within(i, e) /\ ~Within(i, p) /\ ~Within(i, d)
             /\ Within(i, s) => ~Within(i, t)
             /\ Within(i, d) => ~Within(i, e) /\ ~Within(i, p)
             /\ Within(i, p) => ~Within(i, e)
<1> DEFINE b == src.buf
           e == EhdrRange
           p == PhdrsRange(b)
           s == ShdrsRange(b)
           d == DynRange(b)
           t == StrtabRange(b)
<1>1. \A r \in {e, p, s, d, t} : r[1] \in Nat /\ r[2] \in Nat BY OldPlaces
<1>2. /\ Apart(e, p) /\ Apart(e, s) /\ Apart(e, d) /\ Apart(e, t) /\ Apart(p, s)
      /\ Apart(p, d) /\ Apart(p, t) /\ Apart(s, d) /\ Apart(s, t) /\ Apart(d, t)
  BY TidyApart
<1> HIDE DEF e, p, s, d, t
<1>3. \A x, y \in {e, p, s, d, t} : Apart(x, y) => ~(Within(i, x) /\ Within(i, y))
  <2> SUFFICES ASSUME NEW x \in {e, p, s, d, t}, NEW y \in {e, p, s, d, t},
                      Apart(x, y), Within(i, x), Within(i, y)
               PROVE  FALSE
    OBVIOUS
  <2>1. x[1] \in Nat /\ x[2] \in Nat /\ y[1] \in Nat /\ y[2] \in Nat BY <1>1
  <2> QED BY <2>1, ApartWithin
<1>4. /\ ~(Within(i, e) /\ Within(i, p)) /\ ~(Within(i, e) /\ Within(i, s))
      /\ ~(Within(i, e) /\ Within(i, d)) /\ ~(Within(i, e) /\ Within(i, t))
      /\ ~(Within(i, p) /\ Within(i, s)) /\ ~(Within(i, p) /\ Within(i, d))
      /\ ~(Within(i, p) /\ Within(i, t)) /\ ~(Within(i, s) /\ Within(i, d))
      /\ ~(Within(i, s) /\ Within(i, t)) /\ ~(Within(i, d) /\ Within(i, t))
  BY <1>2, <1>3
<1>5. /\ Within(i, s) => ~Within(i, e) /\ ~Within(i, p) /\ ~Within(i, d)
      /\ Within(i, t) => ~Within(i, e) /\ ~Within(i, p) /\ ~Within(i, d)
      /\ Within(i, s) => ~Within(i, t)
      /\ Within(i, d) => ~Within(i, e) /\ ~Within(i, p)
      /\ Within(i, p) => ~Within(i, e)
  BY <1>4
<1> QED BY <1>5 DEF e, p, s, d, t

(* What memory holds, as an invariant.                                     *)
MemInv == Loaded => Memory

(* A step that changes nothing.                                            *)
LEMMA StutterMemory == Memory /\ UNCHANGED vars => Memory'
<1> SUFFICES ASSUME Memory, UNCHANGED vars PROVE Memory' OBVIOUS
<1>1. UNCHANGED <<pc, src, ehdr, phdrs, shdrs, dyn, strtab, dirty, m>>
  BY DEF vars, env, tabs
<1>2. UNCHANGED <<StringsMoved, PhdrsMoved, InData>>
  BY <1>1 DEF StringsMoved, PhdrsMoved, InData, Filled
<1>3. SameHeader' BY <1>1 DEF Memory, SameHeader
<1>4. Sections' BY <1>1, <1>2 DEF Memory, Sections
<1>5. OldHeaders' BY <1>1, <1>2 DEF Memory, OldHeaders
<1>6. StringTable'
  BY <1>1, <1>2 DEF Memory, StringTable, Offsets, NewDynstrVaddr, NewDynstrOff
<1>7. Entries'
  <2> DEFINE es == DynEntriesOf(src.buf)
  <2>1. Retargeted(es)' = Retargeted(es) BY <1>1 DEF Retargeted
  <2>2. Prepared(es)' = Prepared(es) BY <1>1, <2>1 DEF Prepared
  <2>3. WithImports(Prepared(es))' = WithImports(Prepared(es))
    BY <1>1, <2>2 DEF WithImports, FirstNull, DynIndices
  <2> QED BY <1>1, <1>2, <2>1, <2>3 DEF Memory, Entries, Filled
<1> QED BY <1>3, <1>4, <1>5, <1>6, <1>7 DEF Memory

(* Every step keeps what memory is to hold.                                *)
LEMMA NextMemory ==
  TypeInv /\ FootInv /\ PlanInv /\ MemInv /\ [Next]_vars => MemInv'
<1> SUFFICES ASSUME TypeInv, FootInv, PlanInv, MemInv, [Next]_vars, Loaded'
             PROVE  Memory'
  BY DEF MemInv
<1>1. CASE ReadElf BY <1>1, ReadElfMemory
<1> DEFINE All == Footprint /\ Plan /\ Memory
<1>2. Loaded => All BY DEF FootInv, PlanInv, MemInv
<1> HIDE DEF All
<1>3. CASE PrepareSizes
  <2>1. All BY <1>2, <1>3 DEF PrepareSizes, Loaded
  <2> QED BY <1>3, <2>1, PrepareMemory DEF All
<1>4. CASE AppendRo \/ AppendRw
  <2>1. All BY <1>2, <1>4 DEF AppendRo, AppendRw, Loaded
  <2> QED BY <1>4, <2>1, AppendMemory DEF All
<1>6. CASE MovePhdrs
  <2>1. All BY <1>2, <1>6 DEF MovePhdrs, Loaded
  <2> QED BY <1>6, <2>1, MovePhdrsMemory DEF All
<1>7. CASE MoveDynstr
  <2>1. All BY <1>2, <1>7 DEF MoveDynstr, Loaded
  <2> QED BY <1>7, <2>1, MoveDynstrMemory DEF All
<1>8. CASE AddEntriesInPlace
  <2>1. All BY <1>2, <1>8 DEF AddEntriesInPlace, Loaded
  <2> QED BY <1>8, <2>1, AddEntriesInPlaceMemory DEF All
<1>9. CASE AddEntriesMoved
  <2>1. All BY <1>2, <1>9 DEF AddEntriesMoved, Loaded
  <2> QED BY <1>9, <2>1, AddEntriesMovedMemory DEF All
<1>10. ASSUME pc \in Filled, pc' \in Filled \ {"serialize"},
              UNCHANGED <<src, ehdr, phdrs, shdrs, dyn, strtab, m>>
       PROVE  Memory'
  <2>1. Memory BY <1>2, <1>10 DEF Loaded, Filled, All
  <2> QED BY <1>10, <2>1, LaterMemory
<1>11. CASE Serialize
  <2>1. /\ pc = "serialize" /\ pc' = "check"
        /\ UNCHANGED <<src, ehdr, phdrs, shdrs, dyn, strtab, m>>
    BY <1>11 DEF Serialize, Fail, Quit, Loaded, env
  <2> QED BY <1>10, <2>1 DEF Filled
<1>12. CASE SanityCheck
  BY <1>10, <1>12 DEF SanityCheck, env, tabs, Filled
<1>13. CASE OpenOutput
  BY <1>10, <1>13 DEF OpenOutput, Fail, Quit, Loaded, tabs, Filled
<1>14. CASE WriteOutput
  BY <1>10, <1>14 DEF WriteOutput, Quit, Loaded, tabs, Filled
<1>15. CASE Start \/ CloseOutput \/ CallFails \/ Aborts \/ Kill
  BY <1>15 DEF Start, CloseOutput, CallFails, Aborts, Kill, Fail, Quit, Loaded
<1>16. CASE UNCHANGED vars
  <2>1. Loaded BY <1>16 DEF vars, Loaded
  <2> QED BY <1>16, <2>1, StutterMemory DEF MemInv
<1> QED
  BY <1>1, <1>3, <1>4, <1>6, <1>7, <1>8, <1>9, <1>11, <1>12, <1>13, <1>14,
     <1>15, <1>16 DEF Next

(* Memory holds the input's structures, changed as planned, at every step. *)
THEOREM MemoryIsKept == Spec => []MemInv
<1>1. Init => MemInv BY DEF Init, MemInv, Loaded
<1> QED BY <1>1, NextMemory, TypesAreRight, FootprintHolds, PlanIsKept, PTL DEF Spec

-----------------------------------------------------------------------------
(* What the bytes hold, step by step.  The steps before anything moves.    *)
LEMMA EarlyBytes ==
  ASSUME ReadElf \/ PrepareSizes \/ AppendRo \/ AppendRw,
         ~ReadElf => Untouched
  PROVE  Untouched' /\ Copied' /\ Stored'
<1>1. ~StringsMoved' /\ ~InData'
  BY DEF ReadElf, PrepareSizes, AppendRo, AppendRw, StringsMoved, InData, Filled
<1>2. CASE ReadElf
  <2>1. buf' = src'.buf BY <1>2 DEF ReadElf, Load
  <2>2. Untouched' BY <2>1 DEF Untouched, Intact
  <2> QED BY <1>1, <2>2 DEF Copied, Stored
<1>3. CASE PrepareSizes \/ AppendRo \/ AppendRw
  <2>1. UNCHANGED <<src, buf>> /\ ~StringsMoved /\ ~InData /\ ~ReadElf
    BY <1>3 DEF ReadElf, PrepareSizes, AppendRo, AppendRw, env, data,
       StringsMoved, InData, Filled
  <2>2. Untouched' BY <1>1, <2>1 DEF Untouched, Intact
  <2> QED BY <1>1, <2>2 DEF Copied, Stored
<1> QED BY <1>2, <1>3

(* The section headers and the strings are not where the program headers   *)
(* were.                                                                   *)
LEMMA MovePhdrsBytes ==
  ASSUME TypeInv, Footprint, Tidy(src.buf), Untouched, MovePhdrs
  PROVE  Untouched' /\ Copied' /\ Stored'
<1>1. /\ pc = "movePhdrs" /\ pc' = "moveDynstr" /\ src' = src
      /\ ~StringsMoved /\ ~InData /\ ~StringsMoved' /\ ~InData'
  BY DEF MovePhdrs, env, StringsMoved, InData, Filled
<1>2. ASSUME NEW r \in {ShdrsRange(src.buf), StrtabRange(src.buf)}, Intact(r)
      PROVE  Intact(r)'
  <2> SUFFICES ASSUME NEW i \in 0 .. src.size - 1, Within(i, r)
               PROVE  buf'[i] = src.buf[i]
    BY <1>1 DEF Intact
  <2>1. i \in Nat BY DEF TypeInv, TypeOK, IsFile, U64
  <2>2. ~Within(i, PhdrsRange(src.buf)) BY <2>1, TidyBytes
  <2>3. buf'[i] = buf[i] BY <2>2, MovePhdrsKeeps
  <2> QED BY <1>2, <2>3 DEF Intact
<1>3. Untouched' BY <1>1, <1>2 DEF Untouched
<1> QED BY <1>1, <1>3 DEF Copied, Stored

(* The strings that move: the old ones go along, the new ones follow them, *)
(* and what comes after each is zero.                                      *)
LEMMA StringsAppended ==
  ASSUME NEW n \in Nat, NEW b \in File(n), NEW off \in Nat, NEW old \in Nat,
         m.strOffs = SubSeq(StrOffset(old), 1, Len(Imports)),
         off + StrOffset(old)[Len(Imports) + 1] <= n,
         \A i \in off + old .. n - 1 : b[i] = Zero
  PROVE  StringsAt(WithStrings(b, off), off, b, off, old)
<1> DEFINE o == StrOffset(old)
           N == Len(Imports)
           L(s) == NameLen[Imports[s]]
           In(i, s) == i \in off + m.strOffs[s] .. off + m.strOffs[s] + L(s) - 1
           new == WithStrings(b, off)
<1>1. N \in Nat /\ N > 0 BY ImportCount
<1>2. /\ \A i \in 1 .. N + 1 : o[i] \in Nat /\ old <= o[i]
      /\ \A i \in 1 .. N : L(i) \in Nat /\ o[i + 1] = o[i] + L(i) + 1
      /\ \A s \in 1 .. N : \A t \in s + 1 .. N + 1 : o[s] + L(s) < o[t]
  BY OffsetsGrow
<1>3. \A s \in 1 .. N : m.strOffs[s] = o[s]
  <2>1. o \in Seq(Nat) /\ Len(o) = N + 1
    <3>1. o \in [1 .. N + 1 -> Nat]
      <4>1. o = [i \in 1 .. N + 1 |-> o[i]] BY StrOffsetSteps
      <4> HIDE DEF o
      <4> QED BY <1>2, <4>1
    <3> HIDE DEF o
    <3> QED BY <1>1, <3>1, FunctionIsSequence
  <2>2. m.strOffs = SubSeq(o, 1, N) OBVIOUS
  <2> HIDE DEF o, N
  <2> QED BY <1>1, <2>1, <2>2
<1>4. \A s, t \in 1 .. N : \A i : In(i, s) /\ In(i, t) => s = t
  <2> SUFFICES ASSUME NEW s \in 1 .. N, NEW t \in 1 .. N, NEW i, In(i, s), In(i, t), s < t
               PROVE  FALSE
    BY <1>1
  <2>1. t \in s + 1 .. N + 1 /\ s \in 1 .. N + 1 /\ t \in 1 .. N + 1 BY <1>1
  <2>2. o[s] + L(s) < o[t] BY <1>2, <2>1
  <2>3. o[s] \in Nat /\ o[t] \in Nat BY <1>2, <2>1
  <2>4. L(s) \in Nat /\ L(t) \in Nat BY <1>2
  <2>5. /\ i \in off + o[s] .. off + o[s] + L(s) - 1
        /\ i \in off + o[t] .. off + o[t] + L(t) - 1
    BY <1>3
  <2>6. off \in Nat OBVIOUS
  <2> HIDE DEF o, L, In, new, N
  <2> QED BY ONLY <2>2, <2>3, <2>4, <2>5, <2>6
<1>5. \A i \in 0 .. n - 1 :
        new[i] = IF \E s \in 1 .. N : In(i, s)
                 THEN LET s == CHOOSE s \in 1 .. N : In(i, s)
                      IN  <<"chr", Imports[s], i - off - m.strOffs[s]>>
                 ELSE b[i]
  BY DEF WithStrings, File
<1>6. ASSUME NEW i \in 0 .. n - 1, \A s \in 1 .. N : ~In(i, s) PROVE new[i] = b[i]
  <2> HIDE DEF new, In, N
  <2> QED BY <1>5, <1>6
<1>7. ASSUME NEW i \in 0 .. n - 1, NEW s \in 1 .. N, In(i, s)
      PROVE  new[i] = <<"chr", Imports[s], i - off - o[s]>>
  <2> DEFINE c == CHOOSE t \in 1 .. N : In(i, t)
  <2> HIDE DEF new, In, N, o
  <2>1. c \in 1 .. N /\ In(i, c) BY <1>7
  <2>2. c = s BY <1>4, <1>7, <2>1
  <2>3. new[i] = <<"chr", Imports[c], i - off - m.strOffs[c]>> BY <1>5, <1>7
  <2> QED BY <1>3, <2>2, <2>3
<1>8. ASSUME NEW s \in 1 .. N
      PROVE  /\ o[s] \in Nat /\ L(s) \in Nat /\ old <= o[s]
             /\ o[s] + L(s) + 1 <= o[N + 1] /\ o[N + 1] \in Nat
  <2>1. s + 1 \in 1 .. N + 1 /\ N + 1 \in 1 .. N + 1 /\ s \in 1 .. N + 1
    BY <1>1
  <2>2. N + 1 \in s + 1 .. N + 1 BY <1>1
  <2>3. o[s] \in Nat /\ L(s) \in Nat /\ old <= o[s] /\ o[N + 1] \in Nat
    BY <1>2, <2>1
  <2>4. o[s] + L(s) < o[N + 1] BY <1>2, <2>2
  <2> HIDE DEF o, L, N
  <2> QED BY <2>3, <2>4
<1>9. ASSUME NEW k \in 0 .. old - 1 PROVE new[off + k] = b[off + k]
  <2>1. \A s \in 1 .. N : ~In(off + k, s)
    <3> SUFFICES ASSUME NEW s \in 1 .. N, In(off + k, s) PROVE FALSE OBVIOUS
    <3>1. off + k \in off + o[s] .. off + o[s] + L(s) - 1 BY <1>3
    <3> HIDE DEF o, L, N, In
    <3> QED BY <1>8, <3>1
  <2>2. off + k \in 0 .. n - 1
    <3>1. old <= o[N + 1] /\ o[N + 1] \in Nat /\ off + o[N + 1] <= n BY <1>1, <1>2
    <3> HIDE DEF o, N
    <3> QED BY <3>1
  <2> HIDE DEF new, In, N
  <2> QED BY <1>6, <2>1, <2>2
<1>10. ASSUME NEW s \in 1 .. N, NEW k \in 0 .. L(s) - 1
       PROVE  new[off + o[s] + k] = <<"chr", Imports[s], k>>
  <2> DEFINE i == off + o[s] + k
  <2>1. off + o[N + 1] <= n OBVIOUS
  <2>2. In(i, s) /\ i \in 0 .. n - 1 /\ i - off - o[s] = k
    <3>1. m.strOffs[s] = o[s] BY <1>3
    <3>2. k \in 0 .. L(s) - 1 BY <1>10
    <3>3. i = off + o[s] + k /\ off \in Nat /\ n \in Nat OBVIOUS
    <3>4. /\ o[s] \in Nat /\ L(s) \in Nat
          /\ o[s] + L(s) + 1 <= o[N + 1] /\ o[N + 1] \in Nat
      BY <1>8
    <3> HIDE DEF o, L, N, In, new, i
    <3>5. /\ i \in off + o[s] .. off + o[s] + L(s) - 1 /\ i \in 0 .. n - 1
          /\ i - off - o[s] = k
      BY ONLY <2>1, <3>2, <3>3, <3>4
    <3> QED BY <3>1, <3>5 DEF In
  <2> HIDE DEF new, In, N, o, i
  <2>3. new[i] = <<"chr", Imports[s], i - off - o[s]>> BY <1>7, <2>2
  <2> QED BY <2>2, <2>3 DEF i
<1>11. ASSUME NEW s \in 1 .. N PROVE new[off + o[s] + L(s)] = Zero
  <2> DEFINE i == off + o[s] + L(s)
  <2>1. off + o[N + 1] <= n OBVIOUS
  <2>5. i = off + o[s] + L(s) /\ off \in Nat /\ n \in Nat /\ old \in Nat OBVIOUS
  <2>6. /\ o[s] \in Nat /\ L(s) \in Nat /\ old <= o[s]
        /\ o[s] + L(s) + 1 <= o[N + 1] /\ o[N + 1] \in Nat
    BY <1>8
  <2>2. i \in off + old .. n - 1 /\ i \in 0 .. n - 1
    <3> HIDE DEF o, L, N, In, new, i
    <3> QED BY ONLY <2>1, <2>5, <2>6
  <2>3. \A t \in 1 .. N : ~In(i, t)
    <3> SUFFICES ASSUME NEW t \in 1 .. N, In(i, t) PROVE FALSE OBVIOUS
    <3>1. i \in off + o[t] .. off + o[t] + L(t) - 1 BY <1>3
    <3>2. /\ o[s] \in Nat /\ L(s) \in Nat /\ o[t] \in Nat /\ L(t) \in Nat BY <1>8
    <3>3. CASE t = s
      <4> HIDE DEF o, L, N, In, new, i
      <4> QED BY ONLY <2>5, <3>1, <3>2, <3>3
    <3>4. CASE t < s
      <4>1. s \in t + 1 .. N + 1 BY <1>1, <3>4
      <4>2. o[t] + L(t) < o[s] BY <1>2, <4>1
      <4> HIDE DEF o, L, N, In, new, i
      <4> QED BY ONLY <2>5, <3>1, <3>2, <4>2
    <3>5. CASE s < t
      <4>1. t \in s + 1 .. N + 1 BY <1>1, <3>5
      <4>2. o[s] + L(s) < o[t] BY <1>2, <4>1
      <4> HIDE DEF o, L, N, In, new, i
      <4> QED BY ONLY <2>5, <3>1, <3>2, <4>2
    <3> QED BY <1>1, <3>3, <3>4, <3>5
  <2> HIDE DEF new, In, N, o, i
  <2>4. new[i] = b[i] BY <1>6, <2>2, <2>3
  <2> QED BY <2>2, <2>4 DEF i
<1> HIDE DEF new
<1> QED BY <1>9, <1>10, <1>11 DEF new, StringsAt

(* Behind the n bytes of b, the data w has the len bytes of b that are at  *)
(* `from`, and zeroes.                                                     *)
EndsWith(w, b, n, from, len, newLen) ==
  /\ \A k \in 0 .. len - 1 : w[n + k] = b[from + k]
  /\ \A i \in n + len .. n + newLen - 1 : w[i] = Zero

(* What grows behind the end of the data is a copy of what was moved, and  *)
(* zeroes.                                                                 *)
LEMMA MovedToEnd ==
  ASSUME NEW n \in Nat, NEW b, NEW from \in Nat, NEW len \in Nat,
         NEW newLen \in Nat, from + len <= n, len <= newLen, 0 < newLen
  PROVE  EndsWith(MovedData(FALSE, b, n, from, len, n, newLen), b, n, from, len, newLen)
<1> DEFINE new == MovedData(FALSE, b, n, from, len, n, newLen)
           C == Cleaned(from, len, n, newLen)
           M == MovedSize(n, n, newLen)
           l == Min({len, newLen})
<1>1. M = n + newLen BY GrownTo
<1>2. l = len
  <2>1. l \in {len, newLen} /\ l <= len /\ l <= newLen BY MinOfTwo
  <2> HIDE DEF l
  <2> QED BY <2>1
<1>3. \A i \in n .. n + newLen - 1 : i \notin C
  <2> DEFINE e == Min({from + len, n})
  <2>1. C = from .. e - 1
    <3>1. n + newLen > from + len OBVIOUS
    <3> QED BY <3>1 DEF Cleaned
  <2>2. e <= n /\ e \in {from + len, n} BY MinOfTwo
  <2> HIDE DEF C, e
  <2>3. e \in Nat BY <2>2
  <2> QED BY <2>1, <2>2, <2>3
<1>4. \A i \in 0 .. M - 1 :
        new[i] = CASE i \in C -> Filler
                   [] FALSE /\ i \in n .. n + newLen - 1 -> Zero
                   [] ~FALSE /\ i \in n .. n + l - 1 -> b[from + (i - n)]
                   [] OTHER -> IF i < n THEN b[i] ELSE Zero
  BY DEF MovedData
<1> HIDE DEF new, C, M, l
<1>5. ASSUME NEW k \in 0 .. len - 1 PROVE new[n + k] = b[from + k]
  <2>1. n + k \in 0 .. M - 1 /\ n + k \in n .. n + newLen - 1
        /\ n + k \in n .. n + l - 1 /\ (n + k) - n = k
    BY <1>1, <1>2
  <2>2. n + k \notin C BY <1>3, <2>1
  <2> QED BY <1>4, <2>1, <2>2
<1>6. ASSUME NEW i \in n + len .. n + newLen - 1 PROVE new[i] = Zero
  <2>1. i \in 0 .. M - 1 /\ i \in n .. n + newLen - 1 /\ i \notin n .. n + l - 1
        /\ ~(i < n)
    BY <1>1, <1>2
  <2>2. i \notin C BY <1>3, <2>1
  <2> QED BY <1>4, <2>1, <2>2
<1> QED BY <1>5, <1>6 DEF new, EndsWith

(* The string table moves to the end of the data and grows.                *)
LEMMA DynstrAtEnd ==
  ASSUME NEW n \in U64, NEW b \in File(n), NEW from \in U64, NEW len \in U64,
         NEW sz \in U64, from + len <= n, MoveOk(n, from, len, n, sz), 0 < sz,
         m.strOffs = SubSeq(StrOffset(len), 1, Len(Imports)),
         sz = StrOffset(len)[Len(Imports) + 1]
  PROVE  StringsAt(WithStrings(MovedData(FALSE, b, n, from, len, n, sz), n), n, b, from, len)
<1>1. n \in Nat /\ from \in Nat /\ len \in Nat /\ sz \in Nat BY Naturals64
<1>2. len <= sz
  <2>1. \A i \in 1 .. Len(Imports) + 1 : len <= StrOffset(len)[i] BY <1>1, OffsetsGrow
  <2>2. Len(Imports) + 1 \in 1 .. Len(Imports) + 1 BY ImportCount
  <2> QED BY <2>1, <2>2
<1> DEFINE md == MovedData(FALSE, b, n, from, len, n, sz)
<1>3. EndsWith(md, b, n, from, len, sz)
  <2>1. n \in Nat /\ from \in Nat /\ len \in Nat /\ sz \in Nat /\ from + len <= n
        /\ len <= sz /\ 0 < sz
    BY <1>1, <1>2
  <2> QED BY ONLY <2>1, MovedToEnd
<1>4. md \in File(n + sz) /\ n + sz \in Nat
  <2>1. md \in File(MovedSize(n, n, sz)) BY MovedDataType
  <2>2. n \in Nat /\ sz \in Nat /\ n <= n BY <1>1
  <2>3. MovedSize(n, n, sz) = n + sz BY ONLY <2>2, GrownTo
  <2> HIDE DEF md
  <2> QED BY <2>1, <2>2, <2>3
<1>5. PICK e \in Nat : e = n + sz BY <1>4
<1> HIDE DEF md
<1>6. e \in Nat /\ md \in File(e) /\ n + StrOffset(len)[Len(Imports) + 1] <= e
      /\ \A i \in n + len .. e - 1 : md[i] = Zero
  <2>1. e \in Nat /\ e = n + sz BY <1>1, <1>5
  <2>2. md \in File(e) BY <1>4, <2>1
  <2>3. n + StrOffset(len)[Len(Imports) + 1] <= e BY <2>1
  <2>4. \A i \in n + len .. n + sz - 1 : md[i] = Zero BY <1>3 DEF EndsWith
  <2>5. \A i \in n + len .. e - 1 : md[i] = Zero BY ONLY <1>1, <2>1, <2>4
  <2> QED BY <2>1, <2>2, <2>3, <2>5
<1>7. StringsAt(WithStrings(md, n), n, md, n, len)
  <2>1. m.strOffs = SubSeq(StrOffset(len), 1, Len(Imports)) OBVIOUS
  <2> QED BY ONLY <1>1, <1>6, <2>1, StringsAppended
<1>8. \A k \in 0 .. len - 1 : WithStrings(md, n)[n + k] = b[from + k]
  BY <1>3, <1>7 DEF EndsWith, StringsAt
<1> QED BY <1>7, <1>8 DEF md, StringsAt

(* grow_move_modify_dynstr does just this.                                 *)
LEMMA MoveDynstrBytes ==
  ASSUME TypeInv, Footprint, Plan, Memory, Tidy(src.buf), Untouched, MoveDynstr
  PROVE  Untouched' /\ Copied' /\ Stored'
<1> DEFINE st   == StrtabOf(src.buf)
           N    == Len(Imports)
           w    == WithStrings(MovedData(FALSE, buf, size, orig.stroff, orig.strsz,
                                         size, m.newDynstrSz), size)
<1>1. /\ pc = "moveDynstr" /\ pc' = "addEntries" /\ UNCHANGED <<src, phdrs, m>>
      /\ buf' = WithStrings(MovedData(FALSE, buf, size, orig.stroff, orig.strsz,
                                  NewDynstrOff, m.newDynstrSz), NewDynstrOff)
  BY DEF MoveDynstr, env
<1>2. ~StringsMoved /\ ~InData /\ StringsMoved' /\ ~InData' /\ Appended
  BY <1>1 DEF StringsMoved, InData, Filled, Appended
<1>3. Untouched'
  <2> SUFFICES ASSUME NEW i \in 0 .. src.size - 1, Within(i, ShdrsRange(src.buf))
               PROVE  buf'[i] = src.buf[i]
    BY <1>1, <1>2 DEF Untouched, Intact
  <2>1. i \in Nat BY DEF TypeInv, TypeOK, IsFile, U64
  <2>2. ~Within(i, StrtabRange(src.buf)) BY <2>1, TidyBytes
  <2>3. buf'[i] = buf[i] BY <2>2, MoveDynstrKeeps
  <2>4. Intact(ShdrsRange(src.buf)) BY <1>2 DEF Untouched
  <2> QED BY <2>3, <2>4 DEF Intact
<1>4. /\ orig.stroff = st.off /\ orig.strsz = st.size BY DEF Footprint
<1>5. /\ st.off \in Nat /\ st.size \in Nat /\ st.off + st.size <= src.size
      /\ src.size \in Nat
  <2>1. /\ StrtabRange(src.buf)[1] \in Nat /\ StrtabRange(src.buf)[2] \in Nat
        /\ StrtabRange(src.buf)[1] + StrtabRange(src.buf)[2] <= src.size
        /\ src.size \in Nat
    BY OldPlaces
  <2> QED BY <2>1 DEF StrtabRange
<1>6. NewDynstrOff = size
  <2>1. pc = "moveDynstr" BY <1>1
  <2>2. size = DataEnd BY DEF Plan
  <2>3. DataEnd = NewDynstrOff
    <3>1. pc \notin Growing /\ pc \notin Filled BY <2>1 DEF Growing, Filled
    <3> QED BY <2>1, <3>1 DEF DataEnd, NewDynstrOff
  <2> QED BY <2>2, <2>3
<1>7. /\ m.strOffs = SubSeq(StrOffset(orig.strsz), 1, N)
      /\ m.newDynstrSz = StrOffset(orig.strsz)[N + 1]
  BY <1>1, <1>4 DEF Memory, StringTable, Offsets
<1>8. StringsAt(w, size, buf, orig.stroff, orig.strsz)
  <2>1. /\ size \in U64 /\ buf \in File(size) /\ orig.stroff \in U64 /\ orig.strsz \in U64
        /\ m.newDynstrSz \in U64
    BY DEF TypeInv, TypeOK, Origin, Mods
  <2>2. MoveOk(size, orig.stroff, orig.strsz, size, m.newDynstrSz)
    BY <1>6 DEF MoveDynstr, DynstrMoveOk
  <2>3. 0 < m.newDynstrSz BY <1>2, FillPlan
  <2>4. orig.stroff + orig.strsz <= size
    <3>1. src.size <= size /\ size \in Nat BY <2>1, Naturals64 DEF Footprint
    <3> QED BY <1>4, <1>5, <3>1
  <2> QED BY ONLY <1>7, <2>1, <2>2, <2>3, <2>4, DynstrAtEnd
<1>9. \A k \in 0 .. st.size - 1 : buf[st.off + k] = src.buf[st.off + k]
  <2> SUFFICES ASSUME NEW k \in 0 .. st.size - 1
               PROVE  buf[st.off + k] = src.buf[st.off + k]
    OBVIOUS
  <2>1. Intact(StrtabRange(src.buf)) BY <1>2 DEF Untouched
  <2>2. st.off + k \in 0 .. src.size - 1 /\ st.off <= st.off + k
        /\ st.off + k < st.off + st.size
    <3> HIDE DEF st
    <3> QED BY <1>5
  <2>3. Within(st.off + k, StrtabRange(src.buf)) BY <2>2 DEF Within, StrtabRange
  <2> QED BY <2>1, <2>2, <2>3 DEF Intact
<1>10. buf' = w BY <1>1, <1>6
<1> HIDE DEF w
<1>11. Copied'
  <2>1. NewDynstrOff' = size /\ StrtabOf(src'.buf) = st /\ src' = src
    BY <1>1, <1>6 DEF NewDynstrOff
  <2>2. StringsAt(w, size, buf, st.off, st.size) BY <1>4, <1>8
  <2>3. \A k \in 0 .. st.size - 1 : w[size + k] = src.buf[st.off + k]
    BY <1>9, <2>2 DEF StringsAt
  <2>4. StringsAt(w, size, src.buf, st.off, st.size) BY <2>2, <2>3 DEF StringsAt
  <2> QED BY <1>2, <1>10, <2>1, <2>4 DEF Copied
<1> QED BY <1>2, <1>3, <1>11 DEF Stored

(* Strings that nothing writes over stay.                                  *)
LEMMA StringsKept ==
  ASSUME NEW v, NEW w, NEW at \in Nat, NEW b, NEW from, NEW old \in Nat,
         StringsAt(w, at, b, from, old),
         \A i \in at .. at + StrOffset(old)[Len(Imports) + 1] - 1 : v[i] = w[i]
  PROVE  StringsAt(v, at, b, from, old)
<1> DEFINE o == StrOffset(old)
           N == Len(Imports)
           L(s) == NameLen[Imports[s]]
<1>1. N \in Nat /\ N > 0 BY ImportCount
<1>2. /\ \A i \in 1 .. N + 1 : o[i] \in Nat /\ old <= o[i]
      /\ \A i \in 1 .. N : L(i) \in Nat
      /\ \A s \in 1 .. N : \A t \in s + 1 .. N + 1 : o[s] + L(s) < o[t]
  BY OffsetsGrow
<1>3. o[N + 1] \in Nat /\ old <= o[N + 1]
  <2>1. N + 1 \in 1 .. N + 1 BY <1>1
  <2> QED BY <1>2, <2>1
<1>4. ASSUME NEW s \in 1 .. N
      PROVE  o[s] \in Nat /\ L(s) \in Nat /\ o[s] + L(s) < o[N + 1]
  <2>1. s \in 1 .. N + 1 /\ N + 1 \in s + 1 .. N + 1 BY <1>1
  <2> QED BY <1>2, <2>1
<1>5. \A i \in at .. at + o[N + 1] - 1 : v[i] = w[i] OBVIOUS
<1>6. at \in Nat /\ old \in Nat OBVIOUS
<1> HIDE DEF o, N, L
<1>7. ASSUME NEW k \in 0 .. old - 1 PROVE v[at + k] = w[at + k]
  <2>1. at + k \in at .. at + o[N + 1] - 1 BY ONLY <1>3, <1>6, <1>7
  <2> QED BY <1>5, <2>1
<1>8. ASSUME NEW s \in 1 .. N, NEW k \in 0 .. L(s)
      PROVE  v[at + o[s] + k] = w[at + o[s] + k]
  <2>1. o[s] \in Nat /\ L(s) \in Nat /\ o[s] + L(s) < o[N + 1] BY <1>4
  <2>2. at + o[s] + k \in at .. at + o[N + 1] - 1 BY ONLY <1>3, <1>6, <1>8, <2>1
  <2> QED BY <1>5, <2>2
<1>9. ASSUME NEW s \in 1 .. N
      PROVE  /\ \A k \in 0 .. L(s) - 1 : k \in 0 .. L(s)
             /\ L(s) \in 0 .. L(s)
  BY <1>4
<1> QED BY <1>7, <1>8, <1>9 DEF StringsAt, o, N, L

(* add_new_dynamic_entries writes neither strings nor section headers.     *)
LEMMA AddEntriesInPlaceBytes ==
  ASSUME Untouched, Copied, AddEntriesInPlace
  PROVE  Untouched' /\ Copied' /\ Stored'
<1>1. /\ UNCHANGED <<src, buf, phdrs, m>>
      /\ StringsMoved /\ ~InData /\ StringsMoved' /\ ~InData'
  BY DEF AddEntriesInPlace, env, data, StringsMoved, InData, Filled
<1>2. Untouched' BY <1>1 DEF Untouched, Intact
<1>3. Copied' BY <1>1 DEF Copied, NewDynstrOff
<1> QED BY <1>1, <1>2, <1>3 DEF Stored

(* When everything has moved: where the strings and the new segments are.  *)
LEMMA StringsPlaced ==
  ASSUME TypeInv, Plan, pc = "addEntries" \/ pc \in Filled
  PROVE  /\ NewDynstrOff \in Nat /\ m.newDynstrSz \in Nat
         /\ src.size \in Nat /\ src.size <= phdrs[m.ro].offset
         /\ phdrs[m.ro].offset \in Nat
         /\ NewDynstrOff = phdrs[m.ro].offset + Len(phdrs) * PhEnt
         /\ Len(phdrs) * PhEnt \in Nat
         /\ NewDynstrOff + m.newDynstrSz <= size
         /\ m.move => /\ NewDynstrOff + m.newDynstrSz <= phdrs[m.rw].offset
                      /\ src.size <= phdrs[m.rw].offset
                      /\ phdrs[m.rw].offset \in Nat
<1>1. /\ phdrs \in Seq(Phdr) /\ m \in Mods /\ m.ro <= Len(phdrs) /\ m.rw <= Len(phdrs)
      /\ src.size \in Nat /\ size \in Nat
      /\ m.newDynstrSz \in Nat /\ m.newPhsize \in Nat /\ m.ro \in Nat /\ m.rw \in Nat
  BY Naturals64 DEF TypeInv, TypeOK, IsFile, Mods
<1>2. m.ro # 0 /\ (m.rw # 0 <=> m.move) /\ RoPlaced /\ (m.rw # 0 => RwPlaced)
  BY DEF Plan, Segments
<1>3. m.ro \in 1 .. Len(phdrs) /\ (m.move => m.rw \in 1 .. Len(phdrs)) BY <1>1, <1>2
<1>4. /\ phdrs[m.ro].offset \in Nat /\ phdrs[m.ro].filesz = m.newPhsize + m.newDynstrSz
      /\ src.size <= phdrs[m.ro].offset /\ phdrs[m.ro].type = "LOAD"
  BY <1>1, <1>2, <1>3, PhdrFields DEF RoPlaced, Placed, Holds
<1>5. m.newPhsize = Len(phdrs) * PhEnt
  <2>1. Pending = 0 /\ pc \in Planned \cup Filled BY DEF Pending, Filled, Planned
  <2>2. m.newPhsize = (Len(phdrs) + Pending) * PhEnt BY <2>1 DEF Plan, Sizes
  <2>3. Len(phdrs) + 0 = Len(phdrs) BY <1>1
  <2> QED BY <2>1, <2>2, <2>3
<1>6. NewDynstrOff = phdrs[m.ro].offset + Len(phdrs) * PhEnt BY <1>5 DEF NewDynstrOff
<1>7. /\ NewDynstrOff \in Nat
      /\ NewDynstrOff + m.newDynstrSz = phdrs[m.ro].offset + phdrs[m.ro].filesz
  BY <1>1, <1>4 DEF NewDynstrOff
<1>8. ASSUME m.move
      PROVE  /\ NewDynstrOff + m.newDynstrSz <= phdrs[m.rw].offset
             /\ src.size <= phdrs[m.rw].offset
             /\ phdrs[m.rw].offset \in Nat /\ phdrs[m.rw].filesz \in Nat
  <2>1. RwPlaced /\ m.rw \in 1 .. Len(phdrs) BY <1>2, <1>3, <1>8
  <2>2. m.ro \in IndicesOf(phdrs, "LOAD") /\ m.ro < m.rw
    BY <1>1, <1>3, <1>4, <2>1 DEF RwPlaced, IndicesOf
  <2>3. phdrs[m.ro].offset + phdrs[m.ro].filesz <= phdrs[m.rw].offset
        /\ src.size <= phdrs[m.rw].offset
    BY <2>1, <2>2 DEF RwPlaced, Placed, Behind
  <2> QED BY <1>1, <1>7, <2>1, <2>3, PhdrFields
<1>9. NewDynstrOff + m.newDynstrSz <= size
  <2>1. size = DataEnd BY DEF Plan
  <2>2. pc \notin Growing /\ pc # "moveDynstr" BY DEF Growing, Filled
  <2>3. CASE pc = "addEntries" \/ ~m.move
    <3>1. DataEnd = phdrs[m.ro].offset + phdrs[m.ro].filesz BY <2>2, <2>3 DEF DataEnd
    <3> QED BY <1>1, <1>7, <2>1, <3>1
  <2>4. CASE pc # "addEntries" /\ m.move
    <3>1. DataEnd = phdrs[m.rw].offset + phdrs[m.rw].filesz BY <2>2, <2>4 DEF DataEnd
    <3>2. /\ NewDynstrOff + m.newDynstrSz <= phdrs[m.rw].offset
          /\ phdrs[m.rw].offset \in Nat /\ phdrs[m.rw].filesz \in Nat
      BY <1>8, <2>4
    <3>3. NewDynstrOff + m.newDynstrSz \in Nat BY <1>1, <1>7
    <3>4. ASSUME NEW x \in Nat, NEW y \in Nat, NEW z \in Nat, x <= y
          PROVE  x <= y + z
      BY ONLY <3>4
    <3>5. NewDynstrOff + m.newDynstrSz <= phdrs[m.rw].offset + phdrs[m.rw].filesz
      BY <3>2, <3>3, <3>4
    <3> QED BY <2>1, <3>1, <3>5
  <2> QED BY <2>3, <2>4
<1> QED BY <1>1, <1>4, <1>5, <1>6, <1>7, <1>8, <1>9

(* How long the new string table is.                                       *)
LEMMA StringsLength ==
  ASSUME TypeInv, Memory, pc # "prepare"
  PROVE  m.newDynstrSz = StrOffset(StrtabOf(src.buf).size)[Len(Imports) + 1]
  BY DEF Memory, StringTable, Offsets

(* The dynamic table moves behind the strings.                             *)
LEMMA AddEntriesMovedBytes ==
  ASSUME TypeInv, Footprint, Plan, Memory, Tidy(src.buf), Untouched, Copied, AddEntriesMoved
  PROVE  Untouched' /\ Copied' /\ Stored'
<1> DEFINE st == StrtabOf(src.buf)
<1>1. /\ UNCHANGED <<src, m>> /\ pc = "addEntries" /\ m.move
      /\ StringsMoved /\ ~InData /\ StringsMoved' /\ ~InData'
  BY DEF AddEntriesMoved, env, StringsMoved, InData, Filled
<1>2. /\ NewDynstrOff \in Nat /\ m.newDynstrSz \in Nat /\ src.size \in Nat
      /\ src.size <= NewDynstrOff /\ NewDynstrOff + m.newDynstrSz <= size
      /\ NewDynstrOff + m.newDynstrSz <= NewDynOff /\ src.size <= NewDynOff
      /\ NewDynOff \in Nat
  <2>1. /\ NewDynstrOff \in Nat /\ m.newDynstrSz \in Nat
        /\ src.size \in Nat /\ src.size <= phdrs[m.ro].offset
        /\ phdrs[m.ro].offset \in Nat
        /\ NewDynstrOff = phdrs[m.ro].offset + Len(phdrs) * PhEnt
        /\ Len(phdrs) * PhEnt \in Nat
        /\ NewDynstrOff + m.newDynstrSz <= size
        /\ NewDynstrOff + m.newDynstrSz <= phdrs[m.rw].offset
        /\ src.size <= phdrs[m.rw].offset /\ phdrs[m.rw].offset \in Nat
    BY <1>1, StringsPlaced
  <2>2. src.size <= NewDynstrOff BY <2>1
  <2> QED BY <2>1, <2>2 DEF NewDynOff
<1>3. size \in Nat /\ src.size <= size BY Naturals64 DEF TypeInv, TypeOK, Footprint
<1>4. /\ DynRange(src.buf)[1] \in Nat /\ DynRange(src.buf)[2] \in Nat
      /\ DynRange(src.buf)[1] + DynRange(src.buf)[2] <= src.size
      /\ st.size \in Nat
  <2>1. /\ DynRange(src.buf)[1] \in Nat /\ DynRange(src.buf)[2] \in Nat
        /\ StrtabRange(src.buf)[2] \in Nat
        /\ DynRange(src.buf)[1] + DynRange(src.buf)[2] <= src.size
    BY OldPlaces
  <2> QED BY <2>1 DEF StrtabRange
<1>5. Untouched'
  <2> SUFFICES ASSUME NEW i \in 0 .. src.size - 1, Within(i, ShdrsRange(src.buf))
               PROVE  buf'[i] = src.buf[i]
    BY <1>1 DEF Untouched, Intact
  <2>1. i \in Nat /\ i \in 0 .. size - 1 /\ i < NewDynOff BY <1>2, <1>3
  <2>2. ~Within(i, DynRange(src.buf)) BY <2>1, TidyBytes
  <2>3. buf'[i] = buf[i] BY <2>1, <2>2, AddEntriesMovedKeeps
  <2>4. Intact(ShdrsRange(src.buf)) BY <1>1 DEF Untouched
  <2> QED BY <2>3, <2>4 DEF Intact
<1>6. \A i \in NewDynstrOff .. NewDynstrOff + m.newDynstrSz - 1 : buf'[i] = buf[i]
  <2> SUFFICES ASSUME NEW i \in NewDynstrOff .. NewDynstrOff + m.newDynstrSz - 1
               PROVE  buf'[i] = buf[i]
    OBVIOUS
  <2>1. i \in 0 .. size - 1 /\ i < NewDynOff /\ src.size <= i
    BY <1>2, <1>3
  <2>2. ~Within(i, DynRange(src.buf)) BY <1>2, <1>4, <2>1 DEF Within
  <2> QED BY <2>1, <2>2, AddEntriesMovedKeeps
<1>7. NewDynstrOff' = NewDynstrOff
  <2>1. \A j \in 1 .. Len(phdrs) : j # dyn.phdr => phdrs'[j] = phdrs[j]
    BY AddEntriesMovedTypes
  <2>2. Appended BY <1>1 DEF Appended
  <2>3. m.ro \in 1 .. Len(phdrs) /\ phdrs[dyn.phdr].type = "DYNAMIC" BY <2>2, FillFacts
  <2>4. phdrs[m.ro].type = "LOAD" BY <2>2, FillPlan DEF RoPlaced, Placed, Holds
  <2>5. phdrs'[m.ro] = phdrs[m.ro] BY <2>1, <2>3, <2>4
  <2> QED BY <1>1, <2>5 DEF NewDynstrOff
<1>8. Copied'
  <2>1. StringsAt(buf, NewDynstrOff, src.buf, st.off, st.size) BY <1>1 DEF Copied
  <2>2. m.newDynstrSz = StrOffset(st.size)[Len(Imports) + 1] BY <1>1, StringsLength
  <2>3. \A i \in NewDynstrOff .. NewDynstrOff + StrOffset(st.size)[Len(Imports) + 1] - 1 :
           buf'[i] = buf[i]
    BY <1>6, <2>2
  <2>4. NewDynstrOff \in Nat /\ st.size \in Nat BY <1>2, <1>4
  <2> HIDE DEF st
  <2>5. StringsAt(buf', NewDynstrOff, src.buf, st.off, st.size)
    BY ONLY <2>1, <2>3, <2>4, StringsKept
  <2> QED BY <1>1, <1>7, <2>5 DEF Copied, st
<1> QED BY <1>1, <1>5, <1>8 DEF Stored

-----------------------------------------------------------------------------
(* Where serialize_elf finds what it writes, and the string table.         *)
EhdrPlace   == <<0, EhSize>>
PhdrsPlace  == <<ehdr.phoff, Len(phdrs) * PhEnt>>
ShdrsPlace  == <<ehdr.shoff, Len(shdrs) * ShEnt>>
DynTabPlace == <<phdrs[dyn.phdr].offset, Len(dyn.entries) * DynEnt>>
DynstrPlace == <<NewDynstrOff, m.newDynstrSz>>

(* Where the dynamic table is when the strings have been copied: where it  *)
(* was, or behind the strings.                                             *)
LEMMA DynTabPlaced ==
  ASSUME TypeInv, Footprint, Plan, pc \in Filled
  PROVE  /\ DynTabPlace[1] \in Nat /\ DynTabPlace[2] \in Nat
         /\ DynTabPlace = <<DynTabPlace[1], DynTabPlace[2]>>
         /\ \/ DynTabPlace = DynRange(src.buf)
            \/ /\ m.move
               /\ src.size <= DynTabPlace[1]
               /\ NewDynstrOff + m.newDynstrSz <= DynTabPlace[1]
<1> DEFINE d == phdrs[dyn.phdr]
<1>1. /\ dyn.phdr \in 1 .. Len(phdrs) /\ d \in Phdr /\ Len(dyn.entries) \in Nat
      /\ dyn.phdr = PtDynamic(src.buf)
  BY OldPhdrs, OldTable DEF TypeInv, TypeOK, Dynamic, Plan, Tables
<1>2. d.offset \in Nat /\ Len(dyn.entries) * DynEnt \in Nat
  BY <1>1, PhdrFields, SizeAssumption
<1>3. CASE m.move
  <2>1. d.offset = phdrs[m.rw].offset BY <1>3 DEF Plan, Tables, DynPlace
  <2>2. NewDynstrOff + m.newDynstrSz <= phdrs[m.rw].offset /\ src.size <= phdrs[m.rw].offset
    BY <1>3, StringsPlaced
  <2> QED BY <1>2, <1>3, <2>1, <2>2 DEF DynTabPlace
<1>4. CASE ~m.move
  <2>1. d = PhdrsOf(src.buf)[dyn.phdr] BY <1>4 DEF Plan, Tables, DynPlace
  <2>2. Len(dyn.entries) * DynEnt = d.filesz BY DEF Footprint
  <2> QED BY <1>1, <1>2, <2>1, <2>2 DEF DynTabPlace, DynRange
<1> QED BY <1>3, <1>4

(* They are all inside the data and share no byte, if the input is tidy.   *)
LEMMA PlacesApart ==
  ASSUME TypeInv, Footprint, Plan, Tidy(src.buf), pc \in Filled
  PROVE  LET e == EhdrPlace
             p == PhdrsPlace
             s == ShdrsPlace
             d == DynTabPlace
             t == DynstrPlace
         IN  /\ \A r \in {e, p, s, d, t} : r[1] \in Nat /\ r[2] \in Nat
             /\ Apart(e, p) /\ Apart(e, s) /\ Apart(e, d) /\ Apart(e, t)
             /\ Apart(p, s) /\ Apart(p, d) /\ Apart(p, t)
             /\ Apart(s, d) /\ Apart(s, t) /\ Apart(d, t)
             /\ \A r \in {e, p, d, t} : r[1] + r[2] <= size
             /\ s[2] # 0 => s[1] + s[2] <= src.size
             /\ size \in Nat /\ src.size \in Nat /\ src.size <= size
             /\ s = ShdrsRange(src.buf)
<1> DEFINE e == EhdrPlace
           p == PhdrsPlace
           s == ShdrsPlace
           d == DynTabPlace
           t == DynstrPlace
           b == src.buf
           n == src.size
<1>1. e = EhdrRange BY DEF EhdrPlace, EhdrRange
<1>2. s = ShdrsRange(b) BY DEF ShdrsPlace, ShdrsRange, Footprint
<1>3. /\ \A r \in {e, s, DynRange(b)} : r[1] \in Nat /\ r[2] \in Nat
      /\ \A r \in {e, DynRange(b)} : r[1] + r[2] <= n
      /\ s[2] # 0 => s[1] + s[2] <= n
      /\ n \in Nat
  BY <1>1, <1>2, OldPlaces
<1>4. /\ Apart(e, s) /\ Apart(e, DynRange(b)) /\ Apart(s, DynRange(b))
  BY <1>1, <1>2, TidyApart
<1>5. /\ d[1] \in Nat /\ d[2] \in Nat
      /\ \/ d = DynRange(b)
         \/ n <= d[1] /\ t[1] + t[2] <= d[1]
  BY DynTabPlaced DEF DynstrPlace
<1>6. /\ p[1] \in Nat /\ p[2] \in Nat /\ t[1] \in Nat /\ t[2] \in Nat
      /\ n <= p[1] /\ t[1] = p[1] + p[2] /\ t[1] + t[2] <= size
  <2>1. ehdr.phoff = phdrs[m.ro].offset BY DEF Plan, Tables
  <2> QED BY <2>1, StringsPlaced DEF PhdrsPlace, DynstrPlace
<1>7. size \in Nat /\ n <= size BY Naturals64 DEF Footprint, TypeInv, TypeOK
<1>8. d[1] + d[2] <= size
  <2>1. InBounds(d[1], d[2], size) BY TablesFit DEF DynTabPlace
  <2> QED BY <1>5, <1>7, <2>1 DEF InBounds
<1> HIDE DEF e, p, s, d, t, b, n
<1>9. /\ Apart(e, p) /\ Apart(e, t) /\ Apart(p, s) /\ Apart(s, t) /\ Apart(p, t)
  BY <1>3, <1>6 DEF Apart
<1>10. Apart(e, d) /\ Apart(s, d) /\ Apart(p, d) /\ Apart(d, t)
  <2>1. CASE d = DynRange(b)
    <3>1. Apart(e, d) /\ Apart(s, d) BY <1>4, <2>1
    <3>2. d[1] + d[2] <= n BY <1>3, <2>1
    <3>3. Apart(p, d) /\ Apart(d, t) BY <1>3, <1>5, <1>6, <3>2 DEF Apart
    <3> QED BY <3>1, <3>3
  <2>2. CASE n <= d[1] /\ t[1] + t[2] <= d[1]
    BY <1>3, <1>5, <1>6, <2>2 DEF Apart
  <2> QED BY <1>5, <2>1, <2>2
<1>11. \A r \in {e, p, s, d, t} : r[1] \in Nat /\ r[2] \in Nat
  BY <1>3, <1>5, <1>6
<1>12. \A r \in {e, p, d, t} : r[1] + r[2] <= size
  <2>1. e[1] + e[2] <= size BY <1>3, <1>7
  <2>2. p[1] + p[2] <= size BY <1>6, <1>7
  <2> QED BY <1>6, <1>8, <2>1, <2>2
<1>13. s[2] # 0 => s[1] + s[2] <= n BY <1>3
<1> QED BY <1>2, <1>3, <1>4, <1>7, <1>9, <1>10, <1>11, <1>12, <1>13 DEF e, p, s, d, t, b, n
(* serialize_elf, table by table.                                          *)
Stage1 == IF "ehdr" \in dirty THEN WithEhdr(buf) ELSE buf
Stage2 == IF "phdrs" \in dirty THEN WithPhdrs(Stage1) ELSE Stage1
Stage3 == IF "shdrs" \in dirty THEN WithShdrs(Stage2) ELSE Stage2

(* Each writes its own table and leaves the rest.                          *)
LEMMA StagesKeep ==
  ASSUME TypeInv, pc = "serialize", SerializeOk
  PROVE  /\ Stage1 \in File(size) /\ Stage2 \in File(size) /\ Stage3 \in File(size)
         /\ Serialized = IF "dyn" \in dirty THEN WithDyn(Stage3) ELSE Stage3
         /\ \A i \in 0 .. size - 1 :
              /\ ~Within(i, EhdrPlace) => Stage1[i] = buf[i]
              /\ ~Within(i, PhdrsPlace) => Stage2[i] = Stage1[i]
              /\ ~Within(i, ShdrsPlace) => Stage3[i] = Stage2[i]
              /\ ~Within(i, DynTabPlace) => Serialized[i] = Stage3[i]
<1>1. buf \in File(size) BY DEF TypeInv, TypeOK
<1>2. Stage1 \in File(size) BY <1>1, WithTablesType DEF Stage1
<1>3. Stage2 \in File(size) BY <1>2, WithTablesType DEF Stage2
<1>4. Stage3 \in File(size) BY <1>3, WithTablesType DEF Stage3
<1>5. Serialized = IF "dyn" \in dirty THEN WithDyn(Stage3) ELSE Stage3
  BY DEF Serialized, Stage1, Stage2, Stage3
<1>6. ASSUME NEW i \in 0 .. size - 1
      PROVE  /\ ~Within(i, EhdrPlace) => Stage1[i] = buf[i]
             /\ ~Within(i, PhdrsPlace) => Stage2[i] = Stage1[i]
             /\ ~Within(i, ShdrsPlace) => Stage3[i] = Stage2[i]
             /\ ~Within(i, DynTabPlace) => Serialized[i] = Stage3[i]
  <2>1. i \in Nat BY <1>6, Naturals64 DEF TypeInv, TypeOK
  <2>2. ASSUME ~Within(i, EhdrPlace) PROVE Stage1[i] = buf[i]
    <3>1. i \notin 0 .. EhSize - 1 BY <2>1, <2>2, SizeAssumption DEF Within, EhdrPlace
    <3> QED BY <1>1, <3>1, SerializeKeeps DEF Stage1
  <2>3. ASSUME ~Within(i, PhdrsPlace) PROVE Stage2[i] = Stage1[i]
    <3> DEFINE lo == ehdr.phoff
               le == Len(phdrs) * PhEnt
    <3>1. lo \in Nat /\ le \in Nat
      BY Naturals64, SizeAssumption DEF TypeInv, TypeOK, Ehdr
    <3>2. ~(lo <= i /\ i < lo + le) BY <2>3 DEF Within, PhdrsPlace
    <3> HIDE DEF lo, le
    <3>3. i \notin lo .. lo + le - 1 BY <2>1, <3>1, <3>2
    <3> QED BY <1>2, <3>3, SerializeKeeps DEF Stage2, lo, le
  <2>4. ASSUME ~Within(i, ShdrsPlace) PROVE Stage3[i] = Stage2[i]
    <3> DEFINE lo == ehdr.shoff
               le == Len(shdrs) * ShEnt
    <3>1. lo \in Nat /\ le \in Nat
      BY Naturals64, SizeAssumption DEF TypeInv, TypeOK, Ehdr
    <3>2. ~(lo <= i /\ i < lo + le) BY <2>4 DEF Within, ShdrsPlace
    <3> HIDE DEF lo, le
    <3>3. i \notin lo .. lo + le - 1 BY <2>1, <3>1, <3>2
    <3> QED BY <1>3, <3>3, SerializeKeeps DEF Stage3, lo, le
  <2>5. ASSUME ~Within(i, DynTabPlace) PROVE Serialized[i] = Stage3[i]
    <3> DEFINE lo == phdrs[dyn.phdr].offset
               le == Len(dyn.entries) * DynEnt
    <3>1. lo \in Nat /\ le \in Nat
      <4>1. phdrs[dyn.phdr] \in Phdr /\ Len(dyn.entries) \in Nat
        <5>1. phdrs \in Seq(Phdr) /\ dyn.entries \in Seq(Dyn)
          BY DEF TypeInv, TypeOK, Dynamic
        <5>2. dyn.phdr \in 1 .. Len(phdrs) BY DEF TypeInv, Shape, Loaded
        <5> QED BY <5>1, <5>2
      <4> QED BY <4>1, PhdrFields, SizeAssumption
    <3>2. ~(lo <= i /\ i < lo + le) BY <2>5 DEF Within, DynTabPlace
    <3> HIDE DEF lo, le
    <3>3. i \notin lo .. lo + le - 1 BY <2>1, <3>1, <3>2
    <3> QED BY <1>4, <1>5, <3>3, SerializeKeeps DEF lo, le
  <2> QED BY <2>2, <2>3, <2>4, <2>5
<1> QED BY <1>2, <1>3, <1>4, <1>5, <1>6

(* So what each wrote, and the strings, survive the later ones.            *)
LEMMA StagesApart ==
  ASSUME TypeInv, Footprint, Plan, Tidy(src.buf), pc = "serialize", SerializeOk,
         NEW i \in Nat
  PROVE  /\ Within(i, EhdrPlace) => Serialized[i] = Stage1[i]
         /\ Within(i, PhdrsPlace) => Serialized[i] = Stage2[i]
         /\ Within(i, ShdrsPlace) =>
              Serialized[i] = Stage3[i] /\ Stage2[i] = buf[i]
         /\ Within(i, DynstrPlace) => Serialized[i] = buf[i]
<1> DEFINE e == EhdrPlace
           p == PhdrsPlace
           s == ShdrsPlace
           d == DynTabPlace
           t == DynstrPlace
<1>1. pc \in Filled BY DEF Filled
<1>2. /\ \A r \in {e, p, s, d, t} : r[1] \in Nat /\ r[2] \in Nat
      /\ Apart(e, p) /\ Apart(e, s) /\ Apart(e, d) /\ Apart(e, t)
      /\ Apart(p, s) /\ Apart(p, d) /\ Apart(p, t)
      /\ Apart(s, d) /\ Apart(s, t) /\ Apart(d, t)
      /\ \A r \in {e, p, d, t} : r[1] + r[2] <= size
      /\ s[2] # 0 => s[1] + s[2] <= src.size
      /\ size \in Nat /\ src.size \in Nat /\ src.size <= size
  BY <1>1, PlacesApart
<1> HIDE DEF e, p, s, d, t
<1>3. \A r \in {e, p, s, t} : Within(i, r) => i \in 0 .. size - 1
  <2>1. \A r \in {e, p, t} : Within(i, r) => i \in 0 .. size - 1 BY <1>2 DEF Within
  <2>2. Within(i, s) => s[2] # 0 BY <1>2 DEF Within
  <2>3. Within(i, s) => i \in 0 .. size - 1 BY <1>2, <2>2 DEF Within
  <2> QED BY <2>1, <2>3
<1>4. i \in 0 .. size - 1 => /\ ~Within(i, e) => Stage1[i] = buf[i]
                             /\ ~Within(i, p) => Stage2[i] = Stage1[i]
                             /\ ~Within(i, s) => Stage3[i] = Stage2[i]
                             /\ ~Within(i, d) => Serialized[i] = Stage3[i]
  BY StagesKeep DEF e, p, s, d
<1>5. Within(i, e) => ~Within(i, p) /\ ~Within(i, s) /\ ~Within(i, d)
  BY <1>2, ApartWithin
<1>6. Within(i, p) => ~Within(i, s) /\ ~Within(i, d) BY <1>2, ApartWithin
<1>7. Within(i, s) => ~Within(i, e) /\ ~Within(i, p) /\ ~Within(i, d)
  BY <1>2 DEF Apart, Within
<1>8. Within(i, t) => ~Within(i, e) /\ ~Within(i, p) /\ ~Within(i, s) /\ ~Within(i, d)
  BY <1>2 DEF Apart, Within
<1> QED BY <1>3, <1>4, <1>5, <1>6, <1>7, <1>8 DEF e, p, s, d, t
(* The header is written.                                                  *)
LEMMA HeaderStored ==
  ASSUME TypeInv, Footprint, Plan, Counted, Tidy(src.buf), pc = "serialize", SerializeOk
  PROVE  \A k \in 0 .. EhSize - 1 : Serialized[k] = EncodeEhdr(ehdr, k)
<1> SUFFICES ASSUME NEW k \in 0 .. EhSize - 1
             PROVE  Serialized[k] = EncodeEhdr(ehdr, k)
  OBVIOUS
<1>1. k \in Nat /\ k < EhSize /\ EhSize \in Nat \ {0} BY SizeAssumption
<1>2. Within(k, EhdrPlace) BY <1>1 DEF Within, EhdrPlace
<1>3. Serialized[k] = Stage1[k] BY <1>1, <1>2, StagesApart
<1>4. "ehdr" \in dirty BY DEF Counted, Filled
<1>5. Stage1 = WriteTable(buf, 0, EhSize, <<ehdr>>, EncodeEhdr)
  BY <1>4 DEF Stage1, WithEhdr
<1>6. k \in DOMAIN buf
  <2>1. buf \in File(size) /\ size \in Nat BY Naturals64 DEF TypeInv, TypeOK
  <2>2. EhSize <= size BY TablesFit DEF Filled
  <2> QED BY <1>1, <2>1, <2>2 DEF File
<1>7. /\ k \in 0 .. 0 + 1 * EhSize - 1
      /\ (k - 0) \div EhSize + 1 = 1 /\ (k - 0) % EhSize = k
  <2>1. k = 0 + (1 - 1) * EhSize + k BY <1>1
  <2> QED BY <1>1, <2>1, EntryCell
<1>8. Len(<<ehdr>>) = 1 /\ <<ehdr>>[1] = ehdr OBVIOUS
<1> QED BY <1>3, <1>5, <1>6, <1>7, <1>8 DEF WriteTable

(* The program headers are written.                                        *)
LEMMA PhdrsStored ==
  ASSUME TypeInv, Footprint, Plan, Counted, Tidy(src.buf), pc = "serialize", SerializeOk
  PROVE  TableAt("phdr", ZeroPhdr, PhEnt, Serialized, ehdr.phoff, phdrs)
<1>1. /\ phdrs \in Seq(Phdr) /\ ehdr.phoff \in Nat /\ size \in Nat
      /\ Len(phdrs) * PhEnt \in Nat
  BY Naturals64, SizeAssumption DEF TypeInv, TypeOK, Ehdr
<1>2. Stage1 \in File(size) BY StagesKeep
<1>3. ehdr.phoff + Len(phdrs) * PhEnt <= size
  <2>1. InBounds(ehdr.phoff, Len(phdrs) * PhEnt, size) BY TablesFit DEF Filled
  <2> QED BY <1>1, <2>1 DEF InBounds
<1>4. "phdrs" \in dirty BY DEF Counted, Filled
<1>5. Stage2 = WriteTable(Stage1, ehdr.phoff, PhEnt, phdrs, EncodePhdr)
  BY <1>4 DEF Stage2, WithPhdrs
<1>6. TableAt("phdr", ZeroPhdr, PhEnt, Stage2, ehdr.phoff, phdrs)
  BY <1>1, <1>2, <1>3, <1>5, TableWritten
<1>7. ASSUME NEW x \in ehdr.phoff .. ehdr.phoff + Len(phdrs) * PhEnt - 1
      PROVE  Serialized[x] = Stage2[x]
  <2>1. x \in Nat /\ ehdr.phoff <= x /\ x < ehdr.phoff + Len(phdrs) * PhEnt BY <1>1
  <2>2. Within(x, PhdrsPlace) BY <2>1 DEF Within, PhdrsPlace
  <2> QED BY <2>1, <2>2, StagesApart
<1> QED BY <1>1, <1>6, <1>7, TableKept, SizeAssumption

(* The section headers are written, or have never left their place.        *)
LEMMA ShdrsStored ==
  ASSUME TypeInv, Footprint, Plan, Memory, Tidy(src.buf), Untouched,
         pc = "serialize", SerializeOk
  PROVE  TableAt("shdr", ZeroShdr, ShEnt, Serialized, ehdr.shoff, shdrs)
<1> DEFINE le == Len(shdrs) * ShEnt
<1>1. /\ shdrs \in Seq(Shdr) /\ ehdr.shoff \in Nat /\ size \in Nat
      /\ le \in Nat /\ ShEnt \in Nat \ {0}
  BY Naturals64, SizeAssumption DEF TypeInv, TypeOK, Ehdr
<1>2. ASSUME NEW x \in ehdr.shoff .. ehdr.shoff + le - 1
      PROVE  x \in Nat /\ Within(x, ShdrsPlace)
  <2>1. x \in Nat /\ ehdr.shoff <= x /\ x < ehdr.shoff + le BY <1>1
  <2> QED BY <2>1 DEF Within, ShdrsPlace
<1>3. \A x \in ehdr.shoff .. ehdr.shoff + le - 1 :
        Serialized[x] = Stage3[x] /\ Stage2[x] = buf[x]
  BY <1>2, StagesApart
<1>4. CASE "shdrs" \in dirty
  <2>1. Stage2 \in File(size) BY StagesKeep
  <2>2. Stage3 = WriteTable(Stage2, ehdr.shoff, ShEnt, shdrs, EncodeShdr)
    BY <1>4 DEF Stage3, WithShdrs
  <2>3. ehdr.shoff + le <= size
    <3>1. InBounds(ehdr.shoff, le, size) BY <1>4 DEF SerializeOk
    <3> HIDE DEF le
    <3> QED BY <1>1, <3>1 DEF InBounds
  <2>4. TableAt("shdr", ZeroShdr, ShEnt, Stage3, ehdr.shoff, shdrs)
    BY <1>1, <2>1, <2>2, <2>3, TableWritten
  <2> QED BY <1>1, <1>3, <2>4, TableKept
<1>5. CASE "shdrs" \notin dirty
  <2> DEFINE b == src.buf
  <2>1. ~InData BY DEF InData
  <2>2. shdrs = ShdrsOf(b) BY <1>5, <2>1 DEF Memory, Sections
  <2>3. Stage3 = Stage2 BY <1>5 DEF Stage3
  <2>4. Intact(ShdrsRange(b)) /\ ShdrsPlace = ShdrsRange(b)
    BY <2>1, PlacesApart DEF Untouched, Filled
  <2>5. CASE shdrs = <<>> BY <2>5 DEF TableAt
  <2>6. CASE shdrs # <<>>
    <3>1. le # 0 /\ Len(shdrs) # 0 BY <1>1, <2>6
    <3>2. ShdrsPlace[2] = le /\ ShdrsPlace[1] = ehdr.shoff BY DEF ShdrsPlace
    <3>3. ehdr.shoff + le <= src.size /\ src.size \in Nat
      BY <3>1, <3>2, PlacesApart DEF Filled
    <3> HIDE DEF le
    <3>4. \A x \in ehdr.shoff .. ehdr.shoff + le - 1 :
            x \in 0 .. src.size - 1 BY <1>1, <3>3
    <3>5. \A x \in ehdr.shoff .. ehdr.shoff + le - 1 : buf[x] = b[x]
      BY <1>2, <2>4, <3>4 DEF Intact
    <3>6. TableAt("shdr", ZeroShdr, ShEnt, b, ehdr.shoff, shdrs)
      <4>1. ParseElf(b, src.size) /\ ehdr.shoff = EhdrOf(b).shoff
            /\ Len(shdrs) = ShnumOf(b)
        BY DEF Footprint
      <4>2. ReadableTable("shdr", ZeroShdr, ShEnt, b, EhdrOf(b).shoff, ShnumOf(b))
        <5>1. ValidShdrTable(b, src.size) BY <4>1 DEF ParseElf, ValidShdrs
        <5>2. ~NoShdrs(EhdrOf(b)) BY <3>1, <4>1 DEF ShnumOf
        <5> QED BY <5>1, <5>2 DEF ValidShdrTable
      <4>3. ShnumOf(b) \in Nat BY <1>1, <4>1
      <4>4. TableAt("shdr", ZeroShdr, ShEnt, b, EhdrOf(b).shoff,
                    DecodeTable("shdr", ZeroShdr, ShEnt, b, EhdrOf(b).shoff, ShnumOf(b)))
        BY <1>1, <4>1, <4>2, <4>3, ReadTable
      <4> QED BY <2>2, <4>1, <4>4 DEF ShdrsOf
    <3>7. \A x \in ehdr.shoff .. ehdr.shoff + Len(shdrs) * ShEnt - 1 :
            Serialized[x] = b[x]
      BY <1>3, <2>3, <3>5 DEF le
    <3> QED BY <1>1, <3>6, <3>7, TableKept
  <2> QED BY <2>5, <2>6
<1> QED BY <1>4, <1>5

(* The dynamic table is written last.                                      *)
LEMMA DynStored ==
  ASSUME TypeInv, Footprint, Plan, Memory, pc = "serialize", SerializeOk
  PROVE  TableAt("dyn", ZeroDyn, DynEnt, Serialized, phdrs[dyn.phdr].offset, dyn.entries)
<1> DEFINE off == phdrs[dyn.phdr].offset
<1>1. /\ dyn.entries \in Seq(Dyn) /\ off \in Nat /\ size \in Nat
      /\ Len(dyn.entries) * DynEnt \in Nat
  BY DynTabPlaced, Naturals64 DEF DynTabPlace, Filled, TypeInv, TypeOK, Dynamic
<1>2. off + Len(dyn.entries) * DynEnt <= size
  <2>1. InBounds(off, Len(dyn.entries) * DynEnt, size) BY TablesFit DEF Filled
  <2> QED BY <1>1, <2>1 DEF InBounds
<1>3. "dyn" \in dirty BY DEF Memory, Entries, StringsMoved, InData, Filled
<1>4. Stage3 \in File(size) /\ Serialized = WithDyn(Stage3) BY <1>3, StagesKeep
<1>5. Serialized = WriteTable(Stage3, off, DynEnt, dyn.entries, EncodeDyn)
  BY <1>4 DEF WithDyn
<1> HIDE DEF off
<1>6. TableAt("dyn", ZeroDyn, DynEnt, Serialized, off, dyn.entries)
  BY <1>1, <1>2, <1>4, <1>5, TableWritten
<1> QED BY <1>6 DEF off

(* The strings stay.                                                       *)
LEMMA StringsStored ==
  ASSUME TypeInv, Footprint, Plan, Memory, Tidy(src.buf), Copied, pc = "serialize",
         SerializeOk
  PROVE  LET st == StrtabOf(src.buf) IN
         StringsAt(Serialized, NewDynstrOff, src.buf, st.off, st.size)
<1> DEFINE st == StrtabOf(src.buf)
<1>1. StringsAt(buf, NewDynstrOff, src.buf, st.off, st.size)
  BY DEF Copied, StringsMoved, Filled
<1>2. NewDynstrOff \in Nat /\ m.newDynstrSz \in Nat BY StringsPlaced DEF Filled
<1>3. StrOffset(st.size)[Len(Imports) + 1] = m.newDynstrSz BY StringsLength
<1>4. st.size \in Nat
  <2>1. StrtabRange(src.buf)[2] \in Nat BY OldPlaces
  <2> QED BY <2>1 DEF StrtabRange
<1>5. ASSUME NEW x \in NewDynstrOff .. NewDynstrOff + m.newDynstrSz - 1
      PROVE  Serialized[x] = buf[x]
  <2>1. /\ x \in Nat /\ NewDynstrOff <= x /\ x < NewDynstrOff + m.newDynstrSz
    BY <1>2
  <2>2. Within(x, DynstrPlace) BY <2>1 DEF Within, DynstrPlace
  <2> QED BY <2>1, <2>2, StagesApart
<1> QED BY <1>1, <1>2, <1>3, <1>4, <1>5, StringsKept

(* serialize_elf.                                                          *)
LEMMA SerializeBytes ==
  ASSUME TypeInv, Footprint, Plan, Memory, Counted, Tidy(src.buf),
         Untouched, Copied, Serialize, pc' # "idle"
  PROVE  Untouched' /\ Copied' /\ Stored'
<1>1. /\ pc = "serialize" /\ SerializeOk /\ buf' = Serialized /\ pc' = "check"
      /\ UNCHANGED <<src, ehdr, phdrs, shdrs, dyn, m>>
  BY DEF Serialize, Fail, Quit, env
<1>2. InData' /\ StringsMoved' /\ StringsMoved BY <1>1 DEF InData, StringsMoved, Filled
<1>3. NewDynstrOff' = NewDynstrOff BY <1>1 DEF NewDynstrOff
<1>4. Untouched' BY <1>2 DEF Untouched
<1>5. Copied' BY <1>1, <1>3, StringsStored DEF Copied
<1>6. Stored'
  BY <1>1, HeaderStored, PhdrsStored, ShdrsStored, DynStored DEF Stored
<1> QED BY <1>4, <1>5, <1>6

(* Nothing changes the data after that.                                    *)
LEMMA LaterBytes ==
  ASSUME Untouched, Copied, Stored, UNCHANGED <<src, ehdr, phdrs, shdrs, dyn, m, buf>>,
         pc \in Filled \ {"serialize"}, pc' \in Filled \ {"serialize"}
  PROVE  Untouched' /\ Copied' /\ Stored'
<1>1. InData /\ InData' /\ StringsMoved /\ StringsMoved'
  BY DEF InData, StringsMoved, Filled
<1>2. NewDynstrOff' = NewDynstrOff BY DEF NewDynstrOff
<1>3. Untouched' BY <1>1 DEF Untouched
<1>4. Copied' BY <1>1, <1>2 DEF Copied
<1>5. Stored' BY <1>1 DEF Stored
<1> QED BY <1>3, <1>4, <1>5
(* A step that changes nothing.                                            *)
LEMMA StutterBytes ==
  ASSUME Untouched, Copied, Stored, UNCHANGED vars
  PROVE  Untouched' /\ Copied' /\ Stored'
<1>1. UNCHANGED <<pc, src, ehdr, phdrs, shdrs, dyn, m, buf>>
  BY DEF vars, env, tabs, data
<1>2. StringsMoved' = StringsMoved /\ InData' = InData
  BY <1>1 DEF StringsMoved, InData, Filled
<1>3. NewDynstrOff' = NewDynstrOff BY <1>1 DEF NewDynstrOff
<1>4. Untouched' BY <1>1, <1>2 DEF Untouched, Intact
<1>5. Copied' BY <1>1, <1>2, <1>3 DEF Copied
<1>6. Stored' BY <1>1, <1>2 DEF Stored
<1> QED BY <1>4, <1>5, <1>6

(* What the bytes hold, as an invariant.                                   *)
BytesInv == Loaded => Bytes

(* Every step keeps what the bytes are to hold.                            *)
LEMMA NextBytes ==
  TypeInv /\ FootInv /\ PlanInv /\ HeaderInv /\ MemInv /\ BytesInv /\ [Next]_vars
    => BytesInv'
<1> SUFFICES ASSUME TypeInv, FootInv, PlanInv, HeaderInv, MemInv, BytesInv,
                    [Next]_vars, Loaded', Tidy(src'.buf)
             PROVE  Untouched' /\ Copied' /\ Stored'
  BY DEF BytesInv, Bytes
<1>1. CASE ReadElf BY <1>1, EarlyBytes
<1> DEFINE All == /\ Footprint /\ Plan /\ Memory /\ Counted /\ Tidy(src.buf)
                  /\ Untouched /\ Copied /\ Stored
<1>2. Loaded /\ src' = src => All
  <2>1. Loaded => Footprint /\ Plan /\ Memory /\ Bytes /\ Counted
    BY DEF FootInv, PlanInv, MemInv, BytesInv, HeaderInv
  <2>2. src' = src => Tidy(src.buf) OBVIOUS
  <2> QED BY <2>1, <2>2 DEF Bytes
<1> HIDE DEF All
<1>3. CASE PrepareSizes
  <2>1. All BY <1>2, <1>3 DEF PrepareSizes, Loaded, env
  <2> QED BY <1>3, <2>1, EarlyBytes DEF All
<1>4. CASE AppendRo \/ AppendRw
  <2>1. All BY <1>2, <1>4 DEF AppendRo, AppendRw, Loaded, env
  <2> QED BY <1>4, <2>1, EarlyBytes DEF All
<1>6. CASE MovePhdrs
  <2>1. All BY <1>2, <1>6 DEF MovePhdrs, Loaded, env
  <2> QED BY <1>6, <2>1, MovePhdrsBytes DEF All
<1>7. CASE MoveDynstr
  <2>1. All BY <1>2, <1>7 DEF MoveDynstr, Loaded, env
  <2> QED BY <1>7, <2>1, MoveDynstrBytes DEF All
<1>8. CASE AddEntriesInPlace
  <2>1. All BY <1>2, <1>8 DEF AddEntriesInPlace, Loaded, env
  <2> QED BY <1>8, <2>1, AddEntriesInPlaceBytes DEF All
<1>9. CASE AddEntriesMoved
  <2>1. All BY <1>2, <1>9 DEF AddEntriesMoved, Loaded, env
  <2> QED BY <1>9, <2>1, AddEntriesMovedBytes DEF All
<1>10. CASE Serialize
  <2>1. pc = "serialize" /\ src' = src /\ pc' # "idle"
    BY <1>10 DEF Serialize, Fail, Quit, Loaded, env
  <2>2. All BY <1>2, <2>1 DEF Loaded
  <2> QED BY <1>10, <2>1, <2>2, SerializeBytes DEF All
<1>11. ASSUME pc \in Filled \ {"serialize"}, pc' \in Filled \ {"serialize"},
              UNCHANGED <<src, ehdr, phdrs, shdrs, dyn, m, buf>>
       PROVE  Untouched' /\ Copied' /\ Stored'
  <2>1. All BY <1>2, <1>11 DEF Loaded, Filled
  <2> QED BY <1>11, <2>1, LaterBytes DEF All
<1>12. CASE SanityCheck
  BY <1>11, <1>12 DEF SanityCheck, env, tabs, data, Filled
<1>13. CASE OpenOutput
  BY <1>11, <1>13 DEF OpenOutput, Fail, Quit, Loaded, tabs, data, Filled
<1>14. CASE WriteOutput
  BY <1>11, <1>14 DEF WriteOutput, Quit, Loaded, tabs, data, Filled
<1>15. CASE Start \/ CloseOutput \/ CallFails \/ Aborts \/ Kill
  BY <1>15 DEF Start, CloseOutput, CallFails, Aborts, Kill, Fail, Quit, Loaded
<1>16. CASE UNCHANGED vars
  <2>1. Loaded /\ src' = src BY <1>16 DEF vars, env, Loaded
  <2>2. All BY <1>2, <2>1
  <2> QED BY <1>16, <2>2, StutterBytes DEF All
<1> QED
  BY <1>1, <1>3, <1>4, <1>6, <1>7, <1>8, <1>9, <1>10, <1>12, <1>13, <1>14,
     <1>15, <1>16 DEF Next

(* For a tidy input, the bytes hold at every step what they should: first  *)
(* the input's tables where they were, then the strings where they went    *)
(* and, from serialize_elf on, every table that is in memory.              *)
THEOREM BytesAreKept == Spec => []BytesInv
<1>1. Init => BytesInv BY DEF Init, BytesInv, Loaded
<1> QED BY <1>1, NextBytes, TypesAreRight, FootprintHolds, PlanIsKept, HeadersAreKept,
           MemoryIsKept, PTL DEF Spec

-----------------------------------------------------------------------------
(* The data from serialize_elf on, for a tidy input.                       *)
Final ==
  /\ TypeInv /\ Footprint /\ Plan /\ Counted /\ Memory /\ Copied /\ Stored
  /\ InData /\ Tidy(src.buf)

(* Where everything has its type.                                          *)
LEMMA FinalTypes ==
  ASSUME Final
  PROVE  /\ size \in Nat /\ size <= MaxU /\ buf \in File(size)
         /\ src.size \in Nat /\ src.size <= MaxU /\ src.buf \in File(src.size)
         /\ src.size <= size
         /\ ParseElf(src.buf, src.size)
         /\ ehdr \in Ehdr /\ phdrs \in Seq(Phdr) /\ shdrs \in Seq(Shdr)
         /\ dyn.entries \in Seq(Dyn) /\ strtab \in Strtab /\ m \in Mods
         /\ pc \in Filled /\ StringsMoved /\ PhdrsMoved
BY Naturals64 DEF Final, TypeInv, TypeOK, IsFile, Footprint, Dynamic, InData, Filled,
                  StringsMoved, PhdrsMoved

(* The header is the one in memory.                                        *)
LEMMA FinalEhdr ==
  ASSUME Final
  PROVE  ReadableEhdr(buf, size) /\ EhdrOf(buf) = ehdr
<1>1. \A k \in 0 .. EhSize - 1 : buf[k] = EncodeEhdr(ehdr, k) BY DEF Final, Stored
<1>2. 0 \in 0 .. EhSize - 1 BY SizeAssumption
<1>3. buf[0] = <<"ehdr", ehdr, 0>> BY <1>1, <1>2 DEF EncodeEhdr
<1>4. EhSize <= size BY TablesFit, FinalTypes DEF Final
<1>5. EhdrOf(buf) = ehdr BY <1>3 DEF EhdrOf, Decode
<1> QED BY <1>1, <1>3, <1>4, <1>5 DEF ReadableEhdr

(* It is the input's but for two fields.                                   *)
LEMMA FinalFields ==
  ASSUME Final
  PROVE  LET e == EhdrOf(src.buf) IN
         /\ ehdr.phentsize = e.phentsize /\ ehdr.shoff = e.shoff
         /\ ehdr.shentsize = e.shentsize /\ ehdr.shnum = e.shnum
         /\ ehdr.shstrndx = e.shstrndx
<1>1. EhdrOf(src.buf) \in Ehdr BY FinalTypes, AcceptedTypes
<1>2. ehdr = [EhdrOf(src.buf) EXCEPT !.phoff = ehdr.phoff, !.phnum = ehdr.phnum]
  BY DEF Final, Memory, SameHeader
<1> QED BY <1>1, <1>2 DEF Ehdr

(* Where the program headers, the string table and the dynamic table are.  *)
LEMMA FinalPlaces ==
  ASSUME Final
  PROVE  /\ EhSize <= src.size /\ src.size <= ehdr.phoff /\ ehdr.phoff \in Nat
         /\ ehdr.phoff = phdrs[m.ro].offset
         /\ Len(phdrs) \in Nat /\ Len(phdrs) * PhEnt \in Nat
         /\ NewDynstrOff = ehdr.phoff + Len(phdrs) * PhEnt
         /\ ehdr.phoff + Len(phdrs) * PhEnt <= size
         /\ NewDynstrOff \in Nat /\ m.newDynstrSz \in Nat
         /\ NewDynstrOff + m.newDynstrSz <= size
<1>1. ehdr.phoff = phdrs[m.ro].offset BY FinalTypes DEF Final, Plan, Tables
<1>2. EhSize <= src.size BY OldRanges DEF Final
<1>3. /\ NewDynstrOff \in Nat /\ m.newDynstrSz \in Nat
      /\ src.size <= phdrs[m.ro].offset /\ phdrs[m.ro].offset \in Nat
      /\ NewDynstrOff = phdrs[m.ro].offset + Len(phdrs) * PhEnt
      /\ Len(phdrs) * PhEnt \in Nat
      /\ NewDynstrOff + m.newDynstrSz <= size
  BY FinalTypes, StringsPlaced DEF Final
<1>4. Len(phdrs) \in Nat BY FinalTypes
<1>5. size \in Nat BY FinalTypes
<1> QED BY <1>1, <1>2, <1>3, <1>4, <1>5

(* read_validate_ehdr accepts it.                                          *)
LEMMA FinalEhdrValid ==
  ASSUME Final
  PROVE  ValidEhdr(ehdr)
<1> DEFINE e == EhdrOf(src.buf)
<1>1. ValidEhdr(e) /\ e \in Ehdr BY FinalTypes, AcceptedTypes DEF ParseElf
<1>2. ehdr.phoff # 0
  <2>1. EhSize <= src.size /\ src.size <= ehdr.phoff /\ ehdr.phoff \in Nat
        /\ src.size \in Nat
    BY FinalPlaces, FinalTypes
  <2> QED BY <2>1, SizeAssumption
<1>3. ehdr.phnum >= PN_XNUM => ehdr.shoff # 0
  <2> SUFFICES ASSUME ehdr.phnum >= PN_XNUM PROVE ehdr.shoff # 0 OBVIOUS
  <2>1. ehdr.phnum = IF Len(phdrs) < PN_XNUM THEN Len(phdrs) ELSE PN_XNUM
    BY FinalTypes DEF Final, Counted
  <2>2. Len(phdrs) \in Nat BY FinalTypes
  <2>3. Len(phdrs) >= PN_XNUM BY <2>1, <2>2, EscapeAssumption
  <2>4. shdrs # <<>> BY <2>3, FinalTypes DEF Final, Counted
  <2>5. Len(shdrs) # 0 BY <2>4, FinalTypes
  <2>6. ShnumOf(src.buf) # 0 BY <2>5 DEF Final, Footprint
  <2>7. e.shoff # 0 BY <2>6 DEF ShnumOf, NoShdrs
  <2> QED BY <2>7, FinalFields
<1> QED BY <1>1, <1>2, <1>3, FinalFields DEF ValidEhdr

(* The section headers are the ones in memory.                             *)
LEMMA FinalShdrs ==
  ASSUME Final
  PROVE  /\ ShnumOf(buf) = ShnumOf(src.buf) /\ ShnumOf(buf) = Len(shdrs)
         /\ ShstrndxOf(buf) = ShstrndxOf(src.buf)
         /\ ShdrsOf(buf) = shdrs /\ ValidShdrTable(buf, size)
         /\ shdrs # <<>> => FirstShdr(buf) = shdrs[1]
<1> DEFINE b == src.buf
           e == EhdrOf(b)
<1>1. ValidEhdr(e) /\ e \in Ehdr BY FinalTypes, AcceptedTypes DEF ParseElf
<1>2. EhdrOf(buf) = ehdr BY FinalEhdr
<1>3. /\ ehdr.shoff = e.shoff /\ ehdr.shentsize = e.shentsize
      /\ ehdr.shnum = e.shnum /\ ehdr.shstrndx = e.shstrndx
  BY FinalFields
<1>4. Len(shdrs) = ShnumOf(b) /\ shdrs \in Seq(Shdr) /\ ehdr.shoff \in Nat
  BY FinalTypes, Naturals64 DEF Final, Footprint, Ehdr
<1>5. TableAt("shdr", ZeroShdr, ShEnt, buf, ehdr.shoff, shdrs) BY DEF Final, Stored
<1>6. /\ DecodeTable("shdr", ZeroShdr, ShEnt, buf, ehdr.shoff, Len(shdrs)) = shdrs
      /\ ReadableTable("shdr", ZeroShdr, ShEnt, buf, ehdr.shoff, Len(shdrs))
  BY <1>4, <1>5, TableRead, SizeAssumption
<1>7. ~NoShdrs(e) => /\ e.shnum # 0 /\ e.shstrndx < SHN_XINDEX
  <2>1. ~NoShdrs(e) => e.shnum # 0 BY <1>1 DEF NoShdrs, ValidEhdr
  <2>2. e.shnum # 0 => e.shstrndx < e.shnum /\ e.shnum < SHN_LORESERVE
    BY <1>1 DEF ValidEhdr
  <2>3. e.shnum \in Nat /\ e.shstrndx \in Nat BY <1>1, Naturals64 DEF Ehdr
  <2> QED BY <2>1, <2>2, <2>3, EscapeAssumption
<1>8. /\ ShnumOf(buf) = ShnumOf(b) /\ ShstrndxOf(buf) = ShstrndxOf(b)
      /\ NoShdrs(ehdr) <=> NoShdrs(e)
  BY <1>2, <1>3, <1>7 DEF ShnumOf, ShstrndxOf, NoShdrs
<1>9. ShdrsOf(buf) = shdrs BY <1>2, <1>4, <1>6, <1>8 DEF ShdrsOf
<1>10. ValidShdrTable(buf, size)
  <2>1. CASE NoShdrs(ehdr) BY <1>2, <2>1 DEF ValidShdrTable
  <2>2. CASE ~NoShdrs(ehdr)
    <3>1. ValidShdrTable(b, src.size) BY FinalTypes DEF ParseElf, ValidShdrs
    <3>2. /\ InBounds(e.shoff, ShEnt, src.size)
          /\ ShnumOf(b) < MaxU \div ShEnt
          /\ InBounds(e.shoff, ShnumOf(b) * ShEnt, src.size)
      BY <1>8, <2>2, <3>1 DEF ValidShdrTable
    <3>3. ShnumOf(b) # 0 /\ ShnumOf(b) \in Nat BY <1>4, <1>7, <1>8, <2>2 DEF ShnumOf
    <3>4. InBounds(ehdr.shoff, ShEnt, size)
          /\ InBounds(ehdr.shoff, ShnumOf(b) * ShEnt, size)
      <4>1. ShnumOf(b) * ShEnt \in Nat BY <3>3, SizeAssumption
      <4> QED BY <1>3, <1>4, <3>2, <4>1, InBoundsOfMore, FinalTypes, SizeAssumption
    <3>5. Readable("shdr", ZeroShdr, ShEnt, buf, ehdr.shoff)
      <4>1. 1 \in 1 .. Len(shdrs) BY <1>4, <3>3
      <4>2. ehdr.shoff + (1 - 1) * ShEnt = ehdr.shoff BY <1>4, SizeAssumption
      <4> QED BY <1>6, <4>1, <4>2 DEF ReadableTable
    <3> QED BY <1>2, <1>4, <1>6, <1>8, <3>2, <3>3, <3>4, <3>5 DEF ValidShdrTable
  <2> QED BY <2>1, <2>2
<1>11. shdrs # <<>> => FirstShdr(buf) = shdrs[1]
  <2> SUFFICES ASSUME shdrs # <<>> PROVE FirstShdr(buf) = shdrs[1] OBVIOUS
  <2>1. 1 \in 1 .. Len(shdrs) BY <1>4
  <2>2. ehdr.shoff + (1 - 1) * ShEnt = ehdr.shoff BY <1>4, SizeAssumption
  <2> QED BY <1>2, <1>6, <2>1, <2>2 DEF FirstShdr, DecodeTable
<1> QED BY <1>4, <1>8, <1>9, <1>10, <1>11

(* The old table was not empty and lay behind the header, so that the new  *)
(* one is shorter than the address space by more than an entry.            *)
LEMMA TableNotFull ==
  ASSUME NEW n \in Nat, NEW k \in Nat, NEW ent \in Nat \ {0}, NEW at \in Nat,
         NEW len \in Nat, k + ent <= at, 0 < k, len * ent <= n - at
  PROVE  len < n \div ent
<1>1. (len + 1) * ent = len * ent + ent /\ len * ent \in Nat OBVIOUS
<1>2. (len + 1) * ent <= n
  <2>1. ASSUME NEW p \in Nat, p <= n - at PROVE p + ent <= n BY <2>1
  <2> QED BY <1>1, <2>1
<1>3. SUFFICES ASSUME n \div ent <= len PROVE FALSE OBVIOUS
<1> DEFINE q == n \div ent
<1>4. q \in Nat /\ n < q * ent + ent OBVIOUS
<1>5. q * ent <= len * ent
  <2> HIDE DEF q
  <2> QED BY <1>3, <1>4, ProductMonotone DEF q
<1>6. q * ent \in Nat
  <2> HIDE DEF q
  <2> QED BY <1>4
<1> HIDE DEF q
<1>7. ASSUME NEW x \in Nat, NEW y \in Nat, x <= y, n < x + ent, y + ent <= n PROVE FALSE
  BY <1>7
<1> QED BY <1>1, <1>2, <1>4, <1>5, <1>6, <1>7

(* The header table: the input's headers, and those of the segments that   *)
(* were appended.                                                          *)
LEMMA FilledTable ==
  ASSUME TypeInv, Footprint, Plan, pc \in Filled
  PROVE  LET old == PhdrsOf(src.buf) IN
         /\ old \in Seq(Phdr) /\ Len(old) \in Nat /\ Len(old) = PhnumOf(src.buf)
         /\ m.ro = Len(old) + 1 /\ Len(old) <= Len(phdrs)
         /\ m.ro \in 1 .. Len(phdrs) /\ RoPlaced
         /\ m.move => m.rw = m.ro + 1 /\ m.rw \in 1 .. Len(phdrs) /\ RwPlaced
         /\ m.rw # 0 <=> m.move
         /\ \A j \in 1 .. Len(old) : /\ phdrs[j].type = old[j].type
                                     /\ old[j].type = "LOAD" => phdrs[j] = old[j]
         /\ \A j \in 1 .. Len(phdrs) :
              j \in 1 .. Len(old) \/ j = m.ro \/ (m.move /\ j = m.rw)
         /\ dyn.phdr \in 1 .. Len(old) /\ dyn.phdr = PtDynamic(src.buf)
         /\ old[dyn.phdr].type = "DYNAMIC"
<1> DEFINE old == PhdrsOf(src.buf)
<1>1. /\ old \in Seq(Phdr) /\ Len(old) \in Nat /\ Len(old) = PhnumOf(src.buf)
      /\ phdrs \in Seq(Phdr) /\ m \in Mods
  <2>1. src.size \in Nat /\ src.size <= MaxU /\ src.buf \in File(src.size)
        /\ ParseElf(src.buf, src.size)
    BY Naturals64 DEF TypeInv, TypeOK, IsFile, Footprint
  <2>2. phdrs \in Seq(Phdr) /\ m \in Mods BY DEF TypeInv, TypeOK
  <2>3. ReadableEhdr(src.buf, src.size) /\ ValidShdrTable(src.buf, src.size)
        /\ ValidPhdrTable(src.buf, src.size)
    BY <2>1 DEF ParseElf, ValidShdrs, ValidPhdrs
  <2> QED BY <2>1, <2>2, <2>3, PhdrsType
<1>2. /\ dyn.phdr \in 1 .. Len(old) /\ dyn.phdr = PtDynamic(src.buf)
      /\ old[dyn.phdr].type = "DYNAMIC"
  BY OldPhdrs DEF Plan, Tables
<1>3. /\ m.ro # 0 /\ (m.rw # 0 <=> m.move) /\ RoPlaced /\ (m.rw # 0 => RwPlaced)
      /\ m.ro \in Nat /\ m.rw \in Nat /\ m.ro <= Len(phdrs) /\ m.rw <= Len(phdrs)
  BY <1>1 DEF Plan, Segments, TypeInv, TypeOK, Mods, Filled
<1>4. /\ Len(phdrs) = m.ro + (IF m.rw = 0 THEN 0 ELSE 1)
      /\ m.rw # 0 => m.rw = m.ro + 1
      /\ Len(phdrs) = Len(old) + 1 + (IF m.rw = 0 THEN 0 ELSE 1)
  <2>1. Len(phdrs) = Len(old) + (IF m.ro = 0 THEN 0 ELSE 1) + (IF m.rw = 0 THEN 0 ELSE 1)
    BY DEF Plan, Tables
  <2> QED BY <1>3, <2>1 DEF RoPlaced, RwPlaced
<1>5. \A j \in 1 .. Len(old) : /\ phdrs[j].type = old[j].type
                               /\ old[j].type = "LOAD" => phdrs[j] = old[j]
  BY DEF Plan, Tables
<1> HIDE DEF old
<1>6. m.ro = Len(old) + 1 /\ Len(old) <= Len(phdrs) /\ m.ro \in 1 .. Len(phdrs)
  <2>1. CASE m.rw = 0
    <3>1. Len(phdrs) = m.ro + 0 /\ Len(phdrs) = Len(old) + 1 + 0 BY <1>4, <2>1
    <3> QED BY <1>1, <1>3, <3>1
  <2>2. CASE m.rw # 0
    <3>1. Len(phdrs) = m.ro + 1 /\ Len(phdrs) = Len(old) + 1 + 1 BY <1>4, <2>2
    <3> QED BY <1>1, <1>3, <3>1
  <2> QED BY <2>1, <2>2
<1>7. \A j \in 1 .. Len(phdrs) : j \in 1 .. Len(old) \/ j = m.ro \/ (m.move /\ j = m.rw)
  <2> TAKE j \in 1 .. Len(phdrs)
  <2>1. CASE m.rw = 0
    <3>1. Len(phdrs) = m.ro + 0 BY <1>4, <2>1
    <3>2. j \in 1 .. Len(old) \/ j = m.ro BY <1>1, <1>3, <1>6, <3>1
    <3> QED BY <3>2
  <2>2. CASE m.rw # 0
    <3>1. Len(phdrs) = m.ro + 1 /\ m.rw = m.ro + 1 BY <1>4, <2>2
    <3>2. j \in 1 .. Len(old) \/ j = m.ro \/ j = m.rw BY <1>1, <1>3, <1>6, <3>1
    <3> QED BY <1>3, <2>2, <3>2
  <2> QED BY <2>1, <2>2
<1>8. m.move => m.rw = m.ro + 1 /\ m.rw \in 1 .. Len(phdrs) /\ RwPlaced
  BY <1>3, <1>4
<1> QED BY <1>1, <1>2, <1>3, <1>5, <1>6, <1>7, <1>8 DEF old

(* Once serialized, too.                                                   *)
LEMMA FinalTable ==
  ASSUME Final
  PROVE  LET old == PhdrsOf(src.buf) IN
         /\ old \in Seq(Phdr) /\ Len(old) \in Nat /\ Len(old) = PhnumOf(src.buf)
         /\ m.ro = Len(old) + 1 /\ Len(old) <= Len(phdrs)
         /\ m.ro \in 1 .. Len(phdrs) /\ RoPlaced
         /\ m.move => m.rw = m.ro + 1 /\ m.rw \in 1 .. Len(phdrs) /\ RwPlaced
         /\ m.rw # 0 <=> m.move
         /\ \A j \in 1 .. Len(old) : /\ phdrs[j].type = old[j].type
                                     /\ old[j].type = "LOAD" => phdrs[j] = old[j]
         /\ \A j \in 1 .. Len(phdrs) :
              j \in 1 .. Len(old) \/ j = m.ro \/ (m.move /\ j = m.rw)
         /\ dyn.phdr \in 1 .. Len(old) /\ dyn.phdr = PtDynamic(src.buf)
         /\ old[dyn.phdr].type = "DYNAMIC"
  BY FilledTable DEF Final, InData

(* No kind of header but PT_LOAD appears or goes.                          *)
LEMMA FinalKinds ==
  ASSUME Final, NEW t, t # "LOAD"
  PROVE  /\ IndicesOf(phdrs, t) = IndicesOf(PhdrsOf(src.buf), t)
         /\ UniquePhdr(phdrs, t) = UniquePhdr(PhdrsOf(src.buf), t)
<1> DEFINE old == PhdrsOf(src.buf)
<1>1. /\ Len(old) \in Nat /\ Len(old) <= Len(phdrs) /\ Len(phdrs) \in Nat
      /\ \A j \in 1 .. Len(old) : phdrs[j].type = old[j].type
      /\ \A j \in 1 .. Len(phdrs) : j \in 1 .. Len(old) \/ phdrs[j].type = "LOAD"
  <2>1. phdrs[m.ro].type = "LOAD" /\ (m.move => phdrs[m.rw].type = "LOAD")
    BY FinalTable DEF RoPlaced, RwPlaced, Placed, Holds
  <2> QED BY <2>1, FinalTable, FinalTypes
<1> HIDE DEF old
<1>2. IndicesOf(phdrs, t) = IndicesOf(old, t) BY <1>1 DEF IndicesOf
<1> QED BY <1>2 DEF UniquePhdr, old

(* The program headers are the ones in memory.                             *)
LEMMA FinalPhdrs ==
  ASSUME Final
  PROVE  /\ PhdrsOf(buf) = phdrs /\ ValidPhdrTable(buf, size)
         /\ PtDynamic(buf) = dyn.phdr
<1> DEFINE b == src.buf
           e == EhdrOf(b)
<1>1. EhdrOf(buf) = ehdr /\ ehdr \in Ehdr /\ phdrs \in Seq(Phdr)
  BY FinalEhdr, FinalTypes
<1>2. /\ ehdr.phnum = IF Len(phdrs) < PN_XNUM THEN Len(phdrs) ELSE PN_XNUM
      /\ Len(phdrs) >= PN_XNUM => shdrs # <<>> /\ shdrs[1].info = Len(phdrs)
  BY FinalTypes DEF Final, Counted
<1>3. Len(phdrs) \in Nat /\ ehdr.phoff \in Nat /\ Len(phdrs) * PhEnt \in Nat
  BY FinalPlaces
<1>4. PhnumOf(buf) = Len(phdrs)
  <2>1. CASE Len(phdrs) < PN_XNUM
    BY <1>1, <1>2, <1>3, <2>1, EscapeAssumption DEF PhnumOf
  <2>2. CASE Len(phdrs) >= PN_XNUM
    <3>1. FirstShdr(buf) = shdrs[1] /\ shdrs[1].info = Len(phdrs)
      BY <1>2, <2>2, FinalShdrs
    <3>2. ehdr.phnum >= PN_XNUM BY <1>2, <1>3, <2>2, EscapeAssumption
    <3> QED BY <1>1, <3>1, <3>2 DEF PhnumOf
  <2> QED BY <1>3, <2>1, <2>2, EscapeAssumption
<1>5. TableAt("phdr", ZeroPhdr, PhEnt, buf, ehdr.phoff, phdrs) BY DEF Final, Stored
<1>6. /\ DecodeTable("phdr", ZeroPhdr, PhEnt, buf, ehdr.phoff, Len(phdrs)) = phdrs
      /\ ReadableTable("phdr", ZeroPhdr, PhEnt, buf, ehdr.phoff, Len(phdrs))
  BY <1>1, <1>3, <1>5, TableRead, SizeAssumption
<1>7. PhdrsOf(buf) = phdrs BY <1>1, <1>4, <1>6 DEF PhdrsOf
<1>8. InBounds(ehdr.phoff, Len(phdrs) * PhEnt, size)
  BY TablesFit, FinalTypes DEF Final
<1>9. Len(phdrs) # 0
  BY <1>3, FinalTable
<1>10. Len(phdrs) < MaxU \div PhEnt
  <2> DEFINE k == e.phoff + (PhnumOf(b) - 1) * PhEnt
             le == Len(phdrs) * PhEnt
             num == PhnumOf(b)
  <2>1. num \in Nat /\ num # 0
    BY FinalTable
  <2>2. e.phoff \in Nat /\ e.phoff # 0 /\ e.phoff + num * PhEnt <= src.size
    <3>1. e.phoff \in Nat /\ num * PhEnt \in Nat
          /\ InBounds(e.phoff, num * PhEnt, src.size) /\ src.size \in Nat
      BY OldRanges DEF Final
    <3>2. e.phoff # 0 BY FinalTypes DEF ParseElf, ValidEhdr
    <3> HIDE DEF num, e
    <3> QED BY <3>1, <3>2 DEF InBounds
  <2>3. (num - 1) * PhEnt \in Nat /\ num * PhEnt = (num - 1) * PhEnt + PhEnt
    <3> HIDE DEF num
    <3>1. PICK q \in Nat : num = q + 1 BY <2>1
    <3>2. num - 1 = q BY <3>1
    <3> QED BY <3>1, <3>2, SizeAssumption
  <2>4. src.size <= ehdr.phoff /\ src.size \in Nat /\ size \in Nat /\ size <= MaxU
        /\ PhEnt \in Nat \ {0} /\ MaxU \in Nat
    BY FinalPlaces, FinalTypes, SizeAssumption, WidthAssumption
  <2>5. le <= size /\ ehdr.phoff <= size - le BY <1>8 DEF InBounds
  <2> HIDE DEF num, e, le
  <2>6. k \in Nat /\ 0 < k /\ k + PhEnt <= ehdr.phoff
    <3>1. k = e.phoff + (num - 1) * PhEnt BY DEF num
    <3> HIDE DEF k
    <3>2. PICK c \in Nat : c = (num - 1) * PhEnt BY <2>3
    <3>3. PICK t : t = num * PhEnt OBVIOUS
    <3>4. k = e.phoff + c /\ t = c + PhEnt /\ e.phoff + t <= src.size
      BY <2>2, <2>3, <3>1, <3>2, <3>3
    <3>5. /\ e.phoff \in Nat /\ e.phoff # 0 /\ PhEnt \in Nat
          /\ src.size \in Nat /\ src.size <= ehdr.phoff /\ ehdr.phoff \in Nat
      BY <1>3, <2>2, <2>4
    <3> QED BY ONLY <3>2, <3>4, <3>5
  <2>7. le <= MaxU - ehdr.phoff
    <3>1. le \in Nat BY <1>3 DEF le
    <3> QED BY <1>3, <2>4, <2>5, <3>1
  <2> HIDE DEF k
  <2>8. Len(phdrs) * PhEnt <= MaxU - ehdr.phoff BY <2>7 DEF le
  <2> QED BY <1>3, <2>4, <2>6, <2>8, TableNotFull
<1>11. ehdr.phnum >= PN_XNUM => ShnumOf(buf) # 0
  <2> SUFFICES ASSUME ehdr.phnum >= PN_XNUM PROVE ShnumOf(buf) # 0 OBVIOUS
  <2>1. Len(phdrs) >= PN_XNUM BY <1>2, <1>3, EscapeAssumption
  <2>2. shdrs # <<>> /\ shdrs \in Seq(Shdr) BY <1>2, <2>1, FinalTypes
  <2>3. Len(shdrs) # 0 BY <2>2
  <2> QED BY <2>3, FinalShdrs
<1>12. ValidPhdrTable(buf, size)
  BY <1>1, <1>4, <1>6, <1>8, <1>9, <1>10, <1>11 DEF ValidPhdrTable
<1>13. PtDynamic(buf) = dyn.phdr
  <2>1. dyn.phdr = UniquePhdr(PhdrsOf(b), "DYNAMIC") BY FinalTable DEF PtDynamic
  <2> QED BY <1>7, <2>1, FinalKinds DEF PtDynamic
<1> QED BY <1>7, <1>12, <1>13

-----------------------------------------------------------------------------
(* Where a table of entries ends: at the first DT_NULL, the entry k, and   *)
(* what is behind it is zero.                                              *)
EndsAt(es, k) ==
  /\ k \in 1 .. Len(es) /\ es[k].tag = "NULL"
  /\ \A i \in 1 .. k - 1 : es[i].tag # "NULL"
  /\ \A i \in k + 1 .. Len(es) : es[i] = ZeroDyn

(* That entry is the one that add_new_dynamic_entries writes from.         *)
LEMMA FirstNullOfEnd ==
  ASSUME NEW es \in Seq(Dyn), NEW k \in 1 .. Len(es), es[k].tag = "NULL",
         \A i \in 1 .. k - 1 : es[i].tag # "NULL"
  PROVE  FirstNull(es) = k
<1> DEFINE S == DynIndices(es, "NULL")
<1>1. S \in SUBSET (Nat \ {0}) /\ k \in S BY DEF DynIndices
<1>2. \A j \in S : k <= j
  <2> SUFFICES ASSUME NEW j \in S, j < k PROVE FALSE BY <1>1
  <2>1. j \in 1 .. k - 1 /\ es[j].tag = "NULL" BY <1>1 DEF DynIndices
  <2> QED BY <2>1
<1> HIDE DEF S
<1>3. FirstOf(S) \in S /\ \A j \in S : FirstOf(S) <= j BY <1>1, FirstOfProperty
<1>4. FirstOf(S) = k
  <2>1. FirstOf(S) <= k /\ k <= FirstOf(S) BY <1>1, <1>2, <1>3
  <2>2. FirstOf(S) \in Nat /\ k \in Nat BY <1>1, <1>3
  <2> QED BY <2>1, <2>2
<1>5. Max({1, k}) \in {1, k} /\ 1 <= Max({1, k}) /\ k <= Max({1, k}) BY MaxOfTwo
<1>6. Max({1, k}) = k BY <1>5
<1> QED BY <1>4, <1>6 DEF FirstNull, S

(* The dynamic table of an accepted file.                                  *)
LEMMA AcceptedEntries ==
  ASSUME NEW n \in Nat, NEW b \in File(n), n <= MaxU, ParseElf(b, n)
  PROVE  LET es == DynEntriesOf(b) IN
         es \in Seq(Dyn) /\ EndsAt(es, FirstNull(es))
<1> DEFINE es  == DynEntriesOf(b)
           pt  == PhdrsOf(b)[PtDynamic(b)]
           raw == DynTableAt(b, pt)
           num == pt.filesz \div DynEnt
<1>1. es \in Seq(Dyn) BY AcceptedTypes
<1>2. raw = [i \in 1 .. num |-> Decode("dyn", ZeroDyn, b, pt.offset + (i - 1) * DynEnt)]
  BY DEF DynTableAt, DecodeTable
<1>3. num \in Nat
  <2>1. PtDynamic(b) \in 1 .. Len(PhdrsOf(b)) /\ PhdrsOf(b) \in Seq(Phdr)
    BY DynamicType, AcceptedTypes
  <2>2. pt \in Phdr BY <2>1
  <2>3. pt.filesz \in Nat BY <2>2, PhdrFields
  <2> HIDE DEF pt
  <2> QED BY <2>3, SizeAssumption
<1>4. \E last \in 1 .. num :
         Decode("dyn", ZeroDyn, b, pt.offset + (last - 1) * DynEnt).tag = "NULL"
  BY DEF ParseElf, ValidDynamic, ValidDynTable
<1>5. es = UpToNull(raw) BY DEF DynEntriesOf
<1> HIDE DEF es, num
<1>6. \E last \in 1 .. num : raw[last].tag = "NULL" BY <1>2, <1>4
<1>7. Len(raw) = num
  <2> HIDE DEF pt, raw
  <2>1. \E S : raw \in [1 .. num -> S]
    <3>1. raw \in [1 .. num -> {raw[i] : i \in 1 .. num}] BY <1>2
    <3> QED BY <3>1
  <2> QED BY <1>3, <2>1, FunctionIsSequence
<1> HIDE DEF raw, pt
<1>8. es = [i \in 1 .. num |->
              IF \E j \in 1 .. i - 1 : raw[j].tag = "NULL" THEN ZeroDyn ELSE raw[i]]
  BY <1>5, <1>7 DEF UpToNull
<1>9. Len(es) = num
  <2>1. DOMAIN es = 1 .. num /\ DOMAIN es = 1 .. Len(es) /\ Len(es) \in Nat BY <1>1, <1>8
  <2> QED BY <1>3, <2>1
<1> DEFINE S == {i \in 1 .. num : raw[i].tag = "NULL"}
<1>10. S \in SUBSET Nat /\ S # {} BY <1>6
<1>11. PICK k \in S : \A y \in S : k <= y BY <1>10, LeastNatural
<1>12. k \in 1 .. num /\ raw[k].tag = "NULL" BY <1>11
<1>13. \A i \in 1 .. k - 1 : raw[i].tag # "NULL"
  <2> SUFFICES ASSUME NEW i \in 1 .. k - 1, raw[i].tag = "NULL" PROVE FALSE OBVIOUS
  <2>1. i \in 1 .. num /\ i < k BY <1>3, <1>12
  <2>2. i \in S BY <2>1
  <2> QED BY <1>11, <1>12, <2>1, <2>2
<1>14. es[k].tag = "NULL" BY <1>8, <1>12, <1>13
<1>15. \A i \in 1 .. k - 1 : es[i].tag # "NULL"
  <2> SUFFICES ASSUME NEW i \in 1 .. k - 1 PROVE es[i].tag # "NULL" OBVIOUS
  <2>1. i \in 1 .. num /\ \A j \in 1 .. i - 1 : j \in 1 .. k - 1 BY <1>3, <1>12
  <2>2. es[i] = raw[i] BY <1>8, <1>13, <2>1
  <2> QED BY <1>13, <2>2
<1>16. \A i \in k + 1 .. Len(es) : es[i] = ZeroDyn
  <2> SUFFICES ASSUME NEW i \in k + 1 .. num PROVE es[i] = ZeroDyn BY <1>9
  <2>1. i \in 1 .. num /\ k \in 1 .. i - 1 BY <1>3, <1>12
  <2> QED BY <1>8, <1>12, <2>1
<1>17. FirstNull(es) = k BY <1>1, <1>9, <1>12, <1>14, <1>15, FirstNullOfEnd
<1>18. EndsAt(es, k) BY <1>9, <1>12, <1>14, <1>15, <1>16 DEF EndsAt
<1> QED BY <1>1, <1>17, <1>18 DEF es

(* calculate_dyn_tbl_mod keeps a table in place only if it ends two        *)
(* entries before its last one: one spare DT_NULL and the one not counted. *)
LEMMA SpareRoom ==
  ASSUME NEW es \in Seq(Dyn), NEW k, EndsAt(es, k), ~MoveRequired(es)
  PROVE  k + 2 <= Len(es)
<1> DEFINE last == Len(es) - 1
           run  == {i \in 1 .. last : \A j \in i .. last : es[j].tag = "NULL"}
           c    == Cardinality(run)
<1>1. SpareNulls(es) = IF c > 1 THEN c - 1 ELSE 0 BY DEF SpareNulls
<1>2. ~(SpareNulls(es) < 1) BY DEF MoveRequired
<1> HIDE DEF c
<1>3. c > 1 BY <1>1, <1>2
<1>4. Len(es) \in Nat /\ k \in Nat /\ 1 <= k /\ k <= Len(es) BY DEF EndsAt
<1>5. ~(run \subseteq {last})
  <2> SUFFICES ASSUME run \subseteq {last} PROVE FALSE OBVIOUS
  <2>1. IsFiniteSet({last}) /\ Cardinality({last}) = 1 BY FS_Singleton
  <2> HIDE DEF run, last
  <2>2. IsFiniteSet(run) /\ Cardinality(run) <= 1 BY <2>1, FS_Subset
  <2>3. Cardinality(run) \in Nat BY <2>2, FS_CardinalityType
  <2> QED BY <1>3, <2>2, <2>3 DEF c
<1>6. PICK i \in run : i # last BY <1>5
<1>7. i \in Nat /\ 1 <= i /\ i + 2 <= Len(es) /\ es[i].tag = "NULL"
  <2>1. i \in 1 .. last BY <1>6
  <2>2. i \in i .. last BY <2>1
  <2>3. es[i].tag = "NULL" BY <1>6, <2>2
  <2> QED BY <1>4, <1>6, <2>1, <2>3
<1>8. ~(i < k)
  <2> SUFFICES ASSUME i < k PROVE FALSE OBVIOUS
  <2>1. i \in 1 .. k - 1 BY <1>4, <1>7
  <2> QED BY <1>7, <2>1 DEF EndsAt
<1> QED BY <1>4, <1>7, <1>8

(* The entries of the imports, in a table with room for them and a         *)
(* terminator.                                                             *)
LEMMA ImportsWritten ==
  ASSUME NEW p \in Seq(Dyn), NEW k, EndsAt(p, k), k + Len(Imports) <= Len(p)
  PROVE  LET w == WithImports(p)
             N == Len(Imports)
         IN  /\ \A i \in 1 .. k - 1 : w[i] = p[i]
             /\ \A i \in 1 .. N : w[k + i - 1] = [tag |-> "NEEDED", val |-> m.strOffs[i]]
             /\ \A i \in k + N .. Len(p) : w[i] = ZeroDyn
<1> DEFINE N == Len(Imports)
<1>1. N \in Nat /\ N > 0 /\ Len(p) \in Nat /\ k \in Nat /\ 1 <= k
  BY ImportCount DEF EndsAt
<1>2. FirstNull(p) = k BY FirstNullOfEnd DEF EndsAt
<1>3. WithImports(p) = [i \in 1 .. Len(p) |->
        IF i \in k .. k + N - 1
        THEN [tag |-> "NEEDED", val |-> m.strOffs[i - k + 1]] ELSE p[i]]
  BY <1>2 DEF WithImports
<1>4. k + N <= Len(p) OBVIOUS
<1> HIDE DEF N
<1>5. ASSUME NEW i \in 1 .. k - 1 PROVE WithImports(p)[i] = p[i]
  <2>1. i \in 1 .. Len(p) /\ i \notin k .. k + N - 1 BY <1>1, <1>4
  <2> QED BY <1>3, <2>1
<1>6. ASSUME NEW i \in 1 .. N
      PROVE  WithImports(p)[k + i - 1] = [tag |-> "NEEDED", val |-> m.strOffs[i]]
  <2> DEFINE x == k + i - 1
  <2>1. x \in 1 .. Len(p) /\ x \in k .. k + N - 1 /\ x - k + 1 = i BY <1>1, <1>4
  <2> HIDE DEF x
  <2>2. WithImports(p)[x] = [tag |-> "NEEDED", val |-> m.strOffs[i]] BY <1>3, <2>1
  <2> QED BY <2>2 DEF x
<1>7. ASSUME NEW i \in k + N .. Len(p) PROVE WithImports(p)[i] = ZeroDyn
  <2>1. i \in 1 .. Len(p) /\ i \notin k .. k + N - 1 /\ i \in k + 1 .. Len(p)
    BY <1>1, <1>4
  <2>2. p[i] = ZeroDyn BY <2>1 DEF EndsAt
  <2> QED BY <1>3, <2>1, <2>2
<1> QED BY <1>5, <1>6, <1>7 DEF N

(* With main's single import, or with two, an entry is left to end the     *)
(* table whenever calculate_dyn_tbl_mod keeps it in place; with three the  *)
(* smallest table that is kept loses its terminator.                       *)
FewImports == Len(Imports) <= 2

(* The table that add_new_dynamic_entries writes the imports to: room for  *)
(* them and a terminator behind the entries of the input.                  *)
LEMMA PreparedEnds ==
  ASSUME Final, FewImports
  PROVE  LET es == DynEntriesOf(src.buf)
             p  == Prepared(es)
             k  == FirstNull(es)
         IN  /\ es \in Seq(Dyn) /\ EndsAt(es, k)
             /\ p \in Seq(Dyn) /\ EndsAt(p, k) /\ k + Len(Imports) <= Len(p)
             /\ \A i \in 1 .. k - 1 :
                  /\ p[i].tag = es[i].tag
                  /\ es[i].tag \notin {"STRTAB", "STRSZ"} => p[i] = es[i]
                  /\ es[i].tag = "STRTAB" => p[i].val = strtab.vaddr
                  /\ es[i].tag = "STRSZ" => p[i].val = strtab.size
<1> DEFINE es == DynEntriesOf(src.buf)
           r  == Retargeted(es)
           p  == Prepared(es)
           k  == FirstNull(es)
           N  == Len(Imports)
<1>1. es \in Seq(Dyn) /\ EndsAt(es, k) BY FinalTypes, AcceptedEntries
<1>2. HasUniqueDyn(es, "STRTAB") /\ HasUniqueDyn(es, "STRSZ") BY OldEntries DEF Final
<1>3. /\ r \in Seq(Dyn) /\ Len(r) = Len(es)
      /\ \A i \in 1 .. Len(es) :
           /\ r[i].tag = es[i].tag
           /\ es[i].tag \notin {"STRTAB", "STRSZ"} => r[i] = es[i]
           /\ es[i].tag = "STRTAB" => r[i].val = strtab.vaddr
           /\ es[i].tag = "STRSZ" => r[i].val = strtab.size
  BY <1>1, <1>2, FinalTypes, RetargetedFields
<1>4. m.move = MoveRequired(es)
  BY FinalTypes DEF Final, Memory, StringTable, Filled
<1>5. p = IF m.move THEN Resized(r, Len(es) + N, ZeroDyn) ELSE r BY DEF Prepared
<1>6. N \in Nat /\ 0 < N /\ N <= 2 BY ImportCount DEF FewImports
<1> HIDE DEF es, r, p, k, N
<1>7. Len(es) \in Nat /\ k \in Nat /\ 1 <= k /\ k <= Len(es) BY <1>1 DEF EndsAt
<1>8. EndsAt(r, k)
  <2>1. k \in 1 .. Len(r) /\ r[k].tag = "NULL" BY <1>1, <1>3 DEF EndsAt
  <2>2. ASSUME NEW i \in 1 .. k - 1 PROVE r[i].tag # "NULL"
    <3>1. i \in 1 .. Len(es) BY <1>7
    <3> QED BY <1>1, <1>3, <3>1 DEF EndsAt
  <2>3. ASSUME NEW i \in k + 1 .. Len(r) PROVE r[i] = ZeroDyn
    <3>1. i \in 1 .. Len(es) BY <1>3, <1>7
    <3>2. es[i] = ZeroDyn BY <1>1, <1>3 DEF EndsAt
    <3> QED BY <1>3, <3>1, <3>2 DEF ZeroDyn
  <2> QED BY <2>1, <2>2, <2>3 DEF EndsAt
<1>9. /\ p \in Seq(Dyn) /\ EndsAt(p, k) /\ k + N <= Len(p)
      /\ \A i \in 1 .. k - 1 : p[i] = r[i]
  <2>1. CASE ~m.move
    <3>1. p = r BY <1>5, <2>1
    <3>2. k + 2 <= Len(es) BY <1>1, <1>4, <2>1, SpareRoom
    <3>3. k + N <= Len(es) BY <1>6, <1>7, <3>2
    <3> QED BY <1>3, <1>8, <3>1, <3>3
  <2>2. CASE m.move
    <3>1. p = Resized(r, Len(es) + N, ZeroDyn) BY <1>5, <2>2
    <3>2. Len(es) + N \in Nat BY <1>6, <1>7
    <3>3. p \in Seq(Dyn) /\ Len(p) = Len(es) + N BY <1>3, <3>1, <3>2, ResizedDynType
    <3>4. \A i \in 1 .. Len(es) + N : p[i] = IF i <= Len(es) THEN r[i] ELSE ZeroDyn
      BY <1>3, <3>1 DEF Resized
    <3>5. k + N <= Len(p) BY <1>6, <1>7, <3>3
    <3>6. \A i \in 1 .. k : p[i] = r[i]
      <4> SUFFICES ASSUME NEW i \in 1 .. k PROVE p[i] = r[i] OBVIOUS
      <4>1. i \in 1 .. Len(es) + N /\ i <= Len(es) BY <1>6, <1>7
      <4> QED BY <3>4, <4>1
    <3>7. \A i \in k + 1 .. Len(p) : p[i] = ZeroDyn
      <4> SUFFICES ASSUME NEW i \in k + 1 .. Len(p) PROVE p[i] = ZeroDyn OBVIOUS
      <4>1. i \in 1 .. Len(es) + N BY <1>6, <1>7, <3>3
      <4>2. i <= Len(es) => r[i] = ZeroDyn
        <5>1. i <= Len(es) => i \in k + 1 .. Len(r) BY <1>3, <1>7
        <5> QED BY <1>8, <5>1 DEF EndsAt
      <4> QED BY <3>4, <4>1, <4>2
    <3>8. k \in 1 .. k /\ \A i \in 1 .. k - 1 : i \in 1 .. k BY <1>7
    <3>9. k \in 1 .. Len(p) BY <1>6, <1>7, <3>3
    <3>10. EndsAt(p, k) BY <1>8, <3>6, <3>7, <3>8, <3>9 DEF EndsAt
    <3> QED BY <3>3, <3>5, <3>6, <3>8, <3>10
  <2> QED BY <2>1, <2>2
<1>10. \A i \in 1 .. k - 1 : i \in 1 .. Len(es) BY <1>7
<1> QED BY <1>1, <1>3, <1>9, <1>10 DEF es, p, k, N

(* The dynamic table of the output: the input's entries, with the string   *)
(* table replaced, one entry per import, and zeroes.                       *)
LEMMA FinalEntries ==
  ASSUME Final, FewImports
  PROVE  LET es == DynEntriesOf(src.buf)
             fs == dyn.entries
             k  == FirstNull(es)
             N  == Len(Imports)
         IN  /\ es \in Seq(Dyn) /\ EndsAt(es, k)
             /\ fs \in Seq(Dyn) /\ k + N <= Len(fs) /\ k \in Nat /\ N \in Nat /\ 1 <= k
             /\ k <= Len(es) /\ Len(es) \in Nat
             /\ EndsAt(fs, k + N)
             /\ \A i \in 1 .. k - 1 :
                  /\ fs[i].tag = es[i].tag
                  /\ es[i].tag \notin {"STRTAB", "STRSZ"} => fs[i] = es[i]
                  /\ es[i].tag = "STRTAB" => fs[i].val = strtab.vaddr
                  /\ es[i].tag = "STRSZ" => fs[i].val = strtab.size
             /\ \A i \in 1 .. N : fs[k + i - 1] = [tag |-> "NEEDED", val |-> Offsets[i]]
             /\ \A i \in 1 .. Len(fs) :
                  i \in 1 .. k - 1 \/ fs[i].tag \in {"NEEDED", "NULL"}
<1> DEFINE es == DynEntriesOf(src.buf)
           p  == Prepared(es)
           fs == dyn.entries
           k  == FirstNull(es)
           N  == Len(Imports)
<1>1. /\ es \in Seq(Dyn) /\ EndsAt(es, k)
      /\ p \in Seq(Dyn) /\ EndsAt(p, k) /\ k + N <= Len(p)
      /\ \A i \in 1 .. k - 1 :
           /\ p[i].tag = es[i].tag
           /\ es[i].tag \notin {"STRTAB", "STRSZ"} => p[i] = es[i]
           /\ es[i].tag = "STRTAB" => p[i].val = strtab.vaddr
           /\ es[i].tag = "STRSZ" => p[i].val = strtab.size
  BY PreparedEnds
<1>2. fs = WithImports(p) BY FinalTypes DEF Final, Memory, Entries
<1>3. N \in Nat /\ 0 < N BY ImportCount
<1> HIDE DEF es, p
<1>4. /\ \A i \in 1 .. k - 1 : fs[i] = p[i]
      /\ \A i \in 1 .. N : fs[k + i - 1] = [tag |-> "NEEDED", val |-> m.strOffs[i]]
      /\ \A i \in k + N .. Len(p) : fs[i] = ZeroDyn
  BY <1>1, <1>2, ImportsWritten
<1>5. fs \in Seq(Dyn) BY FinalTypes
<1>6. Len(fs) = Len(p)
  <2>1. DOMAIN fs = 1 .. Len(p) BY <1>2 DEF WithImports
  <2>2. DOMAIN fs = 1 .. Len(fs) /\ Len(fs) \in Nat /\ Len(p) \in Nat BY <1>1, <1>5
  <2> HIDE DEF fs
  <2> QED BY <2>1, <2>2
<1>7. \A i \in 1 .. N : m.strOffs[i] = Offsets[i]
  <2>1. m.strOffs = SubSeq(Offsets, 1, N)
    BY FinalTypes DEF Final, Memory, StringTable, Filled
  <2>2. SubSeq(Offsets, 1, N) = [i \in 1 .. N - 1 + 1 |-> Offsets[i + 1 - 1]]
    <3> HIDE DEF N
    <3> QED BY <1>3
  <2>3. N - 1 + 1 = N /\ \A i \in 1 .. N : i + 1 - 1 = i BY <1>3
  <2> HIDE DEF N
  <2> QED BY <2>1, <2>2, <2>3
<1> HIDE DEF fs, k, N
<1>8. k \in Nat /\ 1 <= k /\ k <= Len(es) /\ Len(es) \in Nat /\ Len(fs) \in Nat
  BY <1>1, <1>5 DEF EndsAt
<1>9. \A i \in 1 .. Len(fs) :
        i \in 1 .. k - 1 \/ (\E j \in 1 .. N : i = k + j - 1) \/ i \in k + N .. Len(p)
  <2> SUFFICES ASSUME NEW i \in 1 .. Len(fs), i \notin 1 .. k - 1, i \notin k + N .. Len(p)
               PROVE  \E j \in 1 .. N : i = k + j - 1
    OBVIOUS
  <2>1. k <= i /\ i < k + N BY <1>3, <1>6, <1>8
  <2>2. i - k + 1 \in 1 .. N /\ i = k + (i - k + 1) - 1 BY <1>3, <1>8, <2>1
  <2> QED BY <2>2
<1>10. \A i \in 1 .. Len(fs) :
         i \in 1 .. k - 1 \/ fs[i].tag \in {"NEEDED", "NULL"}
  <2> TAKE i \in 1 .. Len(fs)
  <2>1. ASSUME NEW j \in 1 .. N, i = k + j - 1 PROVE fs[i].tag = "NEEDED"
    <3>1. fs[k + j - 1] = [tag |-> "NEEDED", val |-> m.strOffs[j]] BY <1>4, Zenon
    <3>2. fs[i] = [tag |-> "NEEDED", val |-> m.strOffs[j]] BY ONLY <2>1, <3>1, Zenon
    <3> QED BY <3>2
  <2>2. i \in k + N .. Len(p) => fs[i].tag = "NULL" BY <1>4 DEF ZeroDyn
  <2> QED BY <1>9, <2>1, <2>2
<1>11. EndsAt(fs, k + N)
  <2>1. k + N \in 1 .. Len(fs) /\ k + N \in k + N .. Len(p) BY <1>1, <1>3, <1>6, <1>8
  <2>2. fs[k + N].tag = "NULL" BY <1>4, <2>1 DEF ZeroDyn
  <2>3. ASSUME NEW i \in 1 .. (k + N) - 1 PROVE fs[i].tag # "NULL"
    <3>1. i \in 1 .. Len(fs) /\ i \notin k + N .. Len(p) BY <1>3, <1>8, <2>1
    <3>2. CASE i \in 1 .. k - 1
      <4>1. fs[i].tag = es[i].tag BY <1>1, <1>4, <3>2
      <4> QED BY <1>1, <3>2, <4>1 DEF EndsAt
    <3>3. ASSUME NEW j \in 1 .. N, i = k + j - 1 PROVE fs[i].tag # "NULL"
      <4>1. fs[k + j - 1] = [tag |-> "NEEDED", val |-> m.strOffs[j]] BY <1>4, Zenon
      <4>2. fs[i] = [tag |-> "NEEDED", val |-> m.strOffs[j]] BY ONLY <3>3, <4>1, Zenon
      <4> QED BY <4>2
    <3> QED BY <1>9, <3>1, <3>2, <3>3
  <2>4. ASSUME NEW i \in (k + N) + 1 .. Len(fs) PROVE fs[i] = ZeroDyn
    <3>1. i \in k + N .. Len(p) BY <1>3, <1>6, <1>8
    <3> QED BY <1>4, <3>1
  <2> QED BY <2>1, <2>2, <2>3, <2>4 DEF EndsAt
<1>12. \A i \in 1 .. k - 1 :
         /\ fs[i].tag = es[i].tag
         /\ es[i].tag \notin {"STRTAB", "STRSZ"} => fs[i] = es[i]
         /\ es[i].tag = "STRTAB" => fs[i].val = strtab.vaddr
         /\ es[i].tag = "STRSZ" => fs[i].val = strtab.size
  BY <1>1, <1>4
<1>13. \A i \in 1 .. N : fs[k + i - 1] = [tag |-> "NEEDED", val |-> Offsets[i]]
  BY <1>4, <1>7
<1> QED BY <1>1, <1>3, <1>5, <1>6, <1>8, <1>10, <1>11, <1>12, <1>13 DEF es, fs, k, N

-----------------------------------------------------------------------------
(* A table that ends reads back as it is.                                  *)
LEMMA EndedTableReads ==
  ASSUME NEW es \in Seq(Dyn), NEW k, EndsAt(es, k)
  PROVE  UpToNull(es) = es
<1>1. \A i \in 1 .. Len(es) :
        (\E j \in 1 .. i - 1 : es[j].tag = "NULL") => es[i] = ZeroDyn
  <2> SUFFICES ASSUME NEW i \in 1 .. Len(es), NEW j \in 1 .. i - 1, es[j].tag = "NULL"
               PROVE  es[i] = ZeroDyn
    OBVIOUS
  <2>1. k \in Nat /\ Len(es) \in Nat BY DEF EndsAt
  <2>2. ~(j < k)
    <3> SUFFICES ASSUME j < k PROVE FALSE OBVIOUS
    <3>1. j \in 1 .. k - 1 BY <2>1
    <3> QED BY <3>1 DEF EndsAt
  <2>3. i \in k + 1 .. Len(es) BY <2>1, <2>2
  <2> QED BY <2>3 DEF EndsAt
<1>2. UpToNull(es) = [i \in 1 .. Len(es) |-> es[i]] BY <1>1 DEF UpToNull
<1> QED BY <1>2

(* The dynamic table is the one in memory, and it ends.                    *)
LEMMA FinalDyn ==
  ASSUME Final, FewImports
  PROVE  ValidDynTable(buf) /\ DynEntriesOf(buf) = dyn.entries
<1> DEFINE pt == phdrs[dyn.phdr]
           fs == dyn.entries
<1>1. PhdrsOf(buf)[PtDynamic(buf)] = pt BY FinalPhdrs
<1>2. /\ pt.offset \in Nat /\ fs \in Seq(Dyn) /\ Len(fs) \in Nat
      /\ Len(fs) * DynEnt = pt.filesz
  <2>1. pt.offset \in Nat BY FinalTypes, DynTabPlaced DEF Final, DynTabPlace
  <2> QED BY <2>1, FinalTypes DEF Final, Footprint
<1>3. TableAt("dyn", ZeroDyn, DynEnt, buf, pt.offset, fs) BY DEF Final, Stored
<1> HIDE DEF pt, fs
<1>4. /\ DecodeTable("dyn", ZeroDyn, DynEnt, buf, pt.offset, Len(fs)) = fs
      /\ ReadableTable("dyn", ZeroDyn, DynEnt, buf, pt.offset, Len(fs))
  BY <1>2, <1>3, TableRead, SizeAssumption
<1>5. pt.filesz \div DynEnt = Len(fs)
  <2> DEFINE z == pt.filesz
             n == Len(fs)
  <2>1. n * DynEnt = z /\ n \in Nat BY <1>2
  <2> HIDE DEF z, n
  <2>2. z \in Int /\ n * DynEnt <= z /\ z < n * DynEnt + DynEnt
    BY <2>1, SizeAssumption
  <2>3. z \div DynEnt = n BY <2>1, <2>2, DivisionUnique, SizeAssumption
  <2> QED BY <2>3 DEF z, n
<1>6. DynTableAt(buf, pt) = fs BY <1>4, <1>5 DEF DynTableAt
<1>7. PICK e : EndsAt(fs, e) BY FinalEntries DEF fs
<1>8. DynEntriesOf(buf) = fs BY <1>1, <1>2, <1>6, <1>7, EndedTableReads DEF DynEntriesOf
<1>9. ValidDynTable(buf)
  <2>1. e \in 1 .. Len(fs) /\ fs[e].tag = "NULL" BY <1>7 DEF EndsAt
  <2>2. ReadableTable("dyn", ZeroDyn, DynEnt, buf, pt.offset, e)
    <3>1. \A i \in 1 .. e : i \in 1 .. Len(fs) BY <1>2, <2>1
    <3> QED BY <1>4, <3>1 DEF ReadableTable
  <2>3. Decode("dyn", ZeroDyn, buf, pt.offset + (e - 1) * DynEnt) = fs[e]
    BY <1>4, <2>1 DEF DecodeTable
  <2> QED BY <1>1, <1>5, <2>1, <2>2, <2>3 DEF ValidDynTable
<1> QED BY <1>8, <1>9 DEF fs

(* DT_STRTAB and DT_STRSZ are there once, and give the new string table.   *)
LEMMA FinalStrtabEntries ==
  ASSUME Final, FewImports
  PROVE  LET fs == dyn.entries IN
         /\ HasUniqueDyn(fs, "STRTAB") /\ DynVal(fs, "STRTAB") = strtab.vaddr
         /\ HasUniqueDyn(fs, "STRSZ") /\ DynVal(fs, "STRSZ") = strtab.size
<1> DEFINE es == DynEntriesOf(src.buf)
           fs == dyn.entries
           k  == FirstNull(es)
<1>1. /\ es \in Seq(Dyn) /\ EndsAt(es, k) /\ k \in Nat /\ 1 <= k
      /\ k <= Len(es) /\ Len(es) \in Nat
      /\ fs \in Seq(Dyn) /\ k + Len(Imports) <= Len(fs) /\ Len(Imports) \in Nat
      /\ \A i \in 1 .. k - 1 :
           /\ fs[i].tag = es[i].tag
           /\ es[i].tag = "STRTAB" => fs[i].val = strtab.vaddr
           /\ es[i].tag = "STRSZ" => fs[i].val = strtab.size
      /\ \A i \in 1 .. Len(fs) : i \in 1 .. k - 1 \/ fs[i].tag \in {"NEEDED", "NULL"}
  BY FinalEntries
<1>2. HasUniqueDyn(es, "STRTAB") /\ HasUniqueDyn(es, "STRSZ") BY OldEntries DEF Final
<1> HIDE DEF es, fs, k
<1>3. ASSUME NEW t \in {"STRTAB", "STRSZ"}
      PROVE  DynIndices(fs, t) = DynIndices(es, t) /\ DynIndices(es, t) \subseteq 1 .. k - 1
  <2>1. \A i \in 1 .. Len(es) : i \in 1 .. k - 1 \/ es[i].tag = "NULL"
    <3> TAKE i \in 1 .. Len(es)
    <3>1. i \in 1 .. k - 1 \/ i = k \/ i \in k + 1 .. Len(es) BY <1>1
    <3> QED BY <1>1, <3>1 DEF EndsAt, ZeroDyn
  <2>2. \A i \in 1 .. k - 1 : i \in 1 .. Len(es) /\ i \in 1 .. Len(fs)
    <3>1. Len(fs) \in Nat BY <1>1
    <3> QED BY <1>1, <3>1
  <2>3. DynIndices(es, t) \subseteq 1 .. k - 1 BY <2>1 DEF DynIndices
  <2>4. DynIndices(fs, t) \subseteq 1 .. k - 1 BY <1>1 DEF DynIndices
  <2>5. \A i \in 1 .. k - 1 : i \in DynIndices(fs, t) <=> i \in DynIndices(es, t)
    BY <1>1, <2>2 DEF DynIndices
  <2> QED BY <2>3, <2>4, <2>5
<1>4. ASSUME NEW t \in {"STRTAB", "STRSZ"}, HasUniqueDyn(es, t)
      PROVE  /\ HasUniqueDyn(fs, t)
             /\ DynIndex(fs, t) \in 1 .. k - 1 /\ es[DynIndex(fs, t)].tag = t
  <2>1. HasUniqueDyn(fs, t) BY <1>3, <1>4 DEF HasUniqueDyn
  <2>2. DynIndex(fs, t) \in DynIndices(es, t) BY <1>3, <1>4 DEF HasUniqueDyn, DynIndex
  <2> QED BY <1>3, <2>1, <2>2 DEF DynIndices
<1> QED BY <1>1, <1>2, <1>4 DEF DynVal, fs

-----------------------------------------------------------------------------
(* The segment of the strings lies above all memory of the input.          *)
LEMMA AboveOldMemory ==
  ASSUME Final
  PROVE  /\ MaxLoadVaddr(PhdrsOf(src.buf)) <= phdrs[m.ro].vaddr
         /\ MaxLoadVaddr(PhdrsOf(src.buf)) \in Nat
<1> DEFINE old == PhdrsOf(src.buf)
           S   == {old[i].vaddr + old[i].memsz : i \in IndicesOf(old, "LOAD")}
<1>1. /\ old \in Seq(Phdr) /\ phdrs \in Seq(Phdr) /\ m.ro = Len(old) + 1
      /\ m.ro \in 1 .. Len(phdrs) /\ RoPlaced /\ Len(old) <= Len(phdrs)
      /\ \A j \in 1 .. Len(old) : /\ phdrs[j].type = old[j].type
                                  /\ old[j].type = "LOAD" => phdrs[j] = old[j]
  BY FinalTable, FinalTypes
<1>2. Behind(phdrs, m.ro) BY <1>1 DEF RoPlaced, Placed
<1>3. phdrs[m.ro].vaddr \in Nat BY <1>1, PhdrFields
<1> HIDE DEF old
<1>4. \A j \in IndicesOf(old, "LOAD") :
        old[j].vaddr + old[j].memsz <= phdrs[m.ro].vaddr
  <2> TAKE j \in IndicesOf(old, "LOAD")
  <2>1. j \in 1 .. Len(old) /\ old[j].type = "LOAD" BY DEF IndicesOf
  <2>2. phdrs[j] = old[j] /\ j \in 1 .. Len(phdrs) /\ j < m.ro BY <1>1, <2>1
  <2>3. j \in IndicesOf(phdrs, "LOAD") BY <2>1, <2>2 DEF IndicesOf
  <2> QED BY <1>2, <2>2, <2>3 DEF Behind
<1>5. LoadsInRange(old) BY FinalTypes, AcceptedLoadsInRange DEF old
<1>6. MaxLoadVaddr(old) \in U64 BY <1>1, <1>5, MaxLoadVaddrProperty
<1>7. MaxLoadVaddr(old) \in {0} \cup S
  <2>1. {0} \cup S \in SUBSET (0 .. MaxU)
    <3> SUFFICES ASSUME NEW i \in IndicesOf(old, "LOAD")
                 PROVE  old[i].vaddr + old[i].memsz \in 0 .. MaxU
      BY WidthAssumption
    <3>1. old[i] \in Phdr BY <1>1 DEF IndicesOf
    <3> QED BY <1>5, <3>1, PhdrFields, WidthAssumption DEF LoadsInRange
  <2>2. MaxLoadVaddr(old) = Max({0} \cup S) BY DEF MaxLoadVaddr
  <2> HIDE DEF S
  <2> QED BY <2>1, <2>2, MaxProperty, WidthAssumption
<1>8. MaxLoadVaddr(old) <= phdrs[m.ro].vaddr
  BY <1>3, <1>4, <1>7
<1> QED BY <1>6, <1>8, Naturals64 DEF old

(* The string table is where its address leads.                            *)
LEMMA FinalDynstr ==
  ASSUME Final
  PROVE  /\ strtab = [vaddr |-> NewDynstrVaddr, off |-> NewDynstrOff,
                      size |-> m.newDynstrSz, shdr |-> StrtabOf(src.buf).shdr]
         /\ 0 < m.newDynstrSz /\ m.newDynstrSz \in Nat
         /\ NewDynstrVaddr \in Nat /\ NewDynstrOff \in Nat
         /\ phdrs[m.ro].vaddr <= NewDynstrVaddr
         /\ NewDynstrVaddr + m.newDynstrSz <= phdrs[m.ro].vaddr + phdrs[m.ro].memsz
         /\ phdrs[m.ro].vaddr \in Nat /\ phdrs[m.ro].memsz \in Nat
         /\ phdrs[m.ro].vaddr + phdrs[m.ro].memsz <= MaxU
         /\ src.size <= NewDynstrOff /\ NewDynstrOff + m.newDynstrSz <= MaxU
         /\ OffFromVaddr(phdrs, NewDynstrVaddr, m.newDynstrSz)
              = [ok |-> TRUE, val |-> NewDynstrOff]
<1> DEFINE st == StrtabOf(src.buf)
<1>1. strtab = [vaddr |-> NewDynstrVaddr, off |-> NewDynstrOff,
                size |-> m.newDynstrSz, shdr |-> st.shdr]
  <2>1. strtab = [st EXCEPT !.vaddr = NewDynstrVaddr, !.off = NewDynstrOff,
                            !.size = m.newDynstrSz]
    BY FinalTypes DEF Final, Memory, StringTable
  <2>2. st = [vaddr |-> st.vaddr, off |-> st.off, size |-> st.size, shdr |-> st.shdr]
    BY FinalTypes, AcceptedTypes
  <2> QED BY <2>1, <2>2
<1>2. /\ phdrs \in Seq(Phdr) /\ m.ro \in 1 .. Len(phdrs) /\ phdrs[m.ro] \in Phdr
      /\ Holds(phdrs[m.ro], m.newPhsize + m.newDynstrSz) /\ Behind(phdrs, m.ro)
  BY FinalTypes, FinalTable DEF RoPlaced, Placed
<1>3. /\ m.newPhsize \in Nat /\ m.newDynstrSz \in Nat
      /\ phdrs[m.ro].vaddr \in Nat /\ phdrs[m.ro].memsz \in Nat
      /\ phdrs[m.ro].offset \in Nat
      /\ m.newPhsize + m.newDynstrSz <= phdrs[m.ro].memsz
  BY <1>2, FinalTypes, Naturals64, PhdrFields DEF Mods, Holds
<1>4. 0 < m.newDynstrSz
  <2>1. m.newDynstrSz = StrOffset(st.size)[Len(Imports) + 1]
    BY StringsLength, FinalTypes DEF Final, Filled
  <2>2. st.size \in Nat /\ st.size # 0
    <3>1. st.size # 0
      BY FinalTypes DEF ParseElf, ValidDynamic, ValidStrtab, ValidStrtabAt
    <3> QED BY <3>1, FinalTypes, AcceptedTypes, Naturals64
  <2>3. Len(Imports) + 1 \in 1 .. Len(Imports) + 1 BY ImportCount
  <2>4. st.size <= StrOffset(st.size)[Len(Imports) + 1] BY <2>2, <2>3, OffsetsGrow
  <2> QED BY <1>3, <2>1, <2>2, <2>4
<1>5. LoadsInRange(phdrs) /\ phdrs[m.ro].type = "LOAD"
  BY <1>2 DEF Final, TypeInv, Shape, Holds
<1>6. phdrs[m.ro].vaddr + phdrs[m.ro].memsz <= MaxU
  BY <1>2, <1>5 DEF LoadsInRange, IndicesOf
<1>7. OffFromVaddr(phdrs, NewDynstrVaddr, m.newDynstrSz)
        = [ok |-> TRUE, val |-> NewDynstrOff]
  <2> DEFINE k == m.newPhsize
             len == m.newDynstrSz
             content == k + len
  <2>1. TypeInv /\ Holds(phdrs[m.ro], content) /\ k \in Nat /\ len \in Nat /\ 0 < len
    BY <1>2, <1>3, <1>4 DEF Final
  <2> HIDE DEF k, len
  <2>2. content \in Nat /\ k + len <= content BY <2>1
  <2> HIDE DEF content
  <2>3. OffFromVaddr(phdrs, phdrs[m.ro].vaddr + k, len)
          = [ok |-> TRUE, val |-> phdrs[m.ro].offset + k]
    BY ONLY <1>2, <2>1, <2>2, FoundInPlace, ZenonT(60)
  <2> QED BY <2>3 DEF NewDynstrVaddr, NewDynstrOff, k, len
<1>8. /\ src.size <= NewDynstrOff /\ NewDynstrOff + m.newDynstrSz <= MaxU
      /\ NewDynstrOff \in Nat
  <2>1. /\ NewDynstrOff \in Nat /\ NewDynstrOff + m.newDynstrSz <= size /\ size <= MaxU
        /\ src.size <= phdrs[m.ro].offset /\ src.size \in Nat /\ size \in Nat
    BY FinalPlaces, FinalTypes
  <2> QED BY <1>3, <2>1, WidthAssumption DEF NewDynstrOff
<1>9. /\ NewDynstrVaddr \in Nat /\ phdrs[m.ro].vaddr <= NewDynstrVaddr
      /\ NewDynstrVaddr + m.newDynstrSz <= phdrs[m.ro].vaddr + phdrs[m.ro].memsz
  BY <1>3 DEF NewDynstrVaddr
<1> QED BY <1>1, <1>3, <1>4, <1>6, <1>7, <1>8, <1>9

-----------------------------------------------------------------------------
(* A section that keeps its place, or is moved behind the strings, covers  *)
(* none of their bytes.                                                    *)
LEMMA BesideStrings ==
  ASSUME Final, NEW j \in 1 .. Len(shdrs), j # strtab.shdr
  PROVE  /\ shdrs[j].alloc =>
              ~RangesOverlap(shdrs[j].addr, shdrs[j].size, NewDynstrVaddr, m.newDynstrSz)
         /\ shdrs[j].type # "NOBITS" =>
              ~RangesOverlap(shdrs[j].offset, shdrs[j].size, NewDynstrOff, m.newDynstrSz)
<1> DEFINE b   == src.buf
           os  == ShdrsOf(b)
           s   == shdrs[j]
           o   == os[j]
           pt  == phdrs[dyn.phdr]
           top == MaxLoadVaddr(PhdrsOf(b))
<1>1. /\ os \in Seq(Shdr) /\ Len(shdrs) = Len(os) /\ shdrs \in Seq(Shdr)
      /\ Len(os) = ShnumOf(b) /\ j \in 1 .. Len(os)
  BY OldSections, FinalTypes, AcceptedTypes DEF Final
<1>2. s \in Shdr /\ o \in Shdr BY <1>1
<1>3. /\ s.addr \in Nat /\ s.offset \in Nat /\ s.size \in Nat
      /\ o.addr \in Nat /\ o.offset \in Nat /\ o.size \in Nat
  BY <1>2, Naturals64 DEF Shdr
<1>4. SameSection(s, o) BY <1>1 DEF Final, Memory, Sections
<1>5. /\ NewDynstrVaddr \in Nat /\ NewDynstrOff \in Nat /\ m.newDynstrSz \in Nat
      /\ src.size <= NewDynstrOff /\ src.size \in Nat
      /\ top <= NewDynstrVaddr /\ top \in Nat
  <2>1. /\ top <= phdrs[m.ro].vaddr /\ top \in Nat /\ phdrs[m.ro].vaddr \in Nat
        /\ phdrs[m.ro].vaddr <= NewDynstrVaddr /\ NewDynstrVaddr \in Nat
    BY FinalDynstr, AboveOldMemory
  <2> HIDE DEF top
  <2> QED BY <2>1, FinalDynstr, FinalTypes
<1>6. o.alloc => o.addr + o.size <= top
  BY <1>1 DEF Final, Tidy
<1>7. o.type # "NOBITS" => o.offset + o.size <= src.size
  <2>1. ValidShdr(src.size, o) BY <1>1, FinalTypes DEF ParseElf, ValidShdrs
  <2> HIDE DEF o
  <2> QED BY <1>3, <1>5, <2>1 DEF ValidShdr
<1>8. s.alloc = o.alloc /\ s.type = o.type BY <1>4 DEF SameSection
<1>9. CASE s.addr = o.addr /\ s.offset = o.offset /\ s.size = o.size
  <2>1. s.alloc => s.addr + s.size <= top BY <1>6, <1>8, <1>9
  <2>2. s.type # "NOBITS" => s.offset + s.size <= src.size BY <1>7, <1>8, <1>9
  <2> HIDE DEF s, o, top
  <2>3. s.alloc => ~(NewDynstrVaddr < s.addr + s.size) BY <1>3, <1>5, <2>1
  <2>4. s.type # "NOBITS" => ~(NewDynstrOff < s.offset + s.size) BY <1>3, <1>5, <2>2
  <2> QED BY <2>3, <2>4 DEF RangesOverlap, s
<1>10. CASE m.move /\ j = dyn.shdr
  <2>1. Covers(s, pt.vaddr, pt.offset, pt.filesz)
    BY <1>1, <1>10 DEF Final, Memory, Sections
  <2>2. pt.offset = phdrs[m.rw].offset /\ pt.vaddr = phdrs[m.rw].vaddr
    BY <1>10, FinalTypes DEF Final, Plan, Tables, DynPlace
  <2>3. NewDynstrOff + m.newDynstrSz <= phdrs[m.rw].offset
    BY <1>10, FinalTypes, StringsPlaced DEF Final
  <2>4. NewDynstrVaddr + m.newDynstrSz <= phdrs[m.rw].vaddr
    <3>1. /\ m.rw = m.ro + 1 /\ m.rw \in 1 .. Len(phdrs) /\ RwPlaced /\ RoPlaced
          /\ m.ro \in 1 .. Len(phdrs)
      BY <1>10, FinalTable
    <3>2. m.ro < m.rw BY <3>1
    <3>3. m.ro \in IndicesOf(phdrs, "LOAD")
      BY <3>1 DEF RoPlaced, Placed, Holds, IndicesOf
    <3>4. phdrs[m.ro].vaddr + phdrs[m.ro].memsz <= phdrs[m.rw].vaddr
      BY <3>1, <3>2, <3>3 DEF RwPlaced, Placed, Behind
    <3>5. phdrs[m.rw] \in Phdr BY <3>1, FinalTypes
    <3>6. phdrs[m.rw].vaddr \in Nat BY <3>5, PhdrFields
    <3>7. /\ NewDynstrVaddr + m.newDynstrSz <= phdrs[m.ro].vaddr + phdrs[m.ro].memsz
          /\ phdrs[m.ro].vaddr \in Nat /\ phdrs[m.ro].memsz \in Nat
      BY FinalDynstr
    <3>8. NewDynstrVaddr \in Nat /\ m.newDynstrSz \in Nat BY <1>5
    <3>9. ASSUME NEW x \in Nat, NEW y \in Nat, NEW z \in Nat, x <= y, y <= z PROVE x <= z
      BY <3>9
    <3>10. /\ NewDynstrVaddr + m.newDynstrSz \in Nat
           /\ phdrs[m.ro].vaddr + phdrs[m.ro].memsz \in Nat
      BY ONLY <3>7, <3>8
    <3> QED BY <3>4, <3>6, <3>7, <3>9, <3>10, Zenon
  <2>5. s.addr = phdrs[m.rw].vaddr /\ s.offset = phdrs[m.rw].offset
    BY <2>1, <2>2 DEF Covers
  <2>6. /\ NewDynstrVaddr + m.newDynstrSz <= s.addr
        /\ NewDynstrOff + m.newDynstrSz <= s.offset
    BY <2>3, <2>4, <2>5
  <2> HIDE DEF s
  <2>7. /\ ~(s.addr < NewDynstrVaddr + m.newDynstrSz)
        /\ ~(s.offset < NewDynstrOff + m.newDynstrSz)
    BY <1>3, <1>5, <2>6
  <2> QED BY <2>7 DEF RangesOverlap, s
<1>11. CASE ~m.move /\ j = dyn.shdr
  <2>1. Covers(s, pt.vaddr, pt.offset, pt.filesz)
    BY <1>1, <1>11 DEF Final, Memory, Sections
  <2>2. pt = PhdrsOf(b)[dyn.phdr] /\ dyn.phdr = PtDynamic(b)
    BY <1>11 DEF Final, Plan, Tables, DynPlace
  <2>3. dyn.shdr = ShtDynamic(os) BY DEF Final, Memory, StringTable
  <2>4. j # 0 BY <1>1
  <2>5. /\ o.addr = PhdrsOf(b)[PtDynamic(b)].vaddr
        /\ o.offset = PhdrsOf(b)[PtDynamic(b)].offset
        /\ o.size = PhdrsOf(b)[PtDynamic(b)].filesz
    BY <1>11, <2>3, <2>4, FinalTypes, AcceptedSections
  <2> QED BY <1>9, <2>1, <2>2, <2>5 DEF Covers
<1>12. CASE j # dyn.shdr
  <2>1. Covers(s, o.addr, o.offset, o.size)
    BY <1>1, <1>12 DEF Final, Memory, Sections
  <2> QED BY <1>9, <2>1 DEF Covers
<1> QED BY <1>10, <1>11, <1>12

(* The section of the string table is the only one over its bytes.         *)
LEMMA FinalStrtabSections ==
  ASSUME Final
  PROVE  /\ StrtabSections(shdrs, NewDynstrVaddr, NewDynstrOff, m.newDynstrSz)
              = IF strtab.shdr = 0 THEN {} ELSE {strtab.shdr}
         /\ strtab.shdr \in 0 .. Len(shdrs)
         /\ strtab.shdr # 0 =>
              /\ shdrs[strtab.shdr].type = "STRTAB"
              /\ Covers(shdrs[strtab.shdr], strtab.vaddr, strtab.off, strtab.size)
<1> DEFINE st == StrtabOf(src.buf)
           k  == strtab.shdr
           S  == StrtabSections(shdrs, NewDynstrVaddr, NewDynstrOff, m.newDynstrSz)
<1>1. /\ k = st.shdr /\ strtab.vaddr = NewDynstrVaddr /\ strtab.off = NewDynstrOff
      /\ strtab.size = m.newDynstrSz
  <2>1. strtab = [vaddr |-> NewDynstrVaddr, off |-> NewDynstrOff,
                  size |-> m.newDynstrSz, shdr |-> st.shdr]
    BY FinalDynstr
  <2> HIDE DEF st
  <2> QED BY <2>1
<1>2. Len(shdrs) = Len(ShdrsOf(src.buf)) /\ Len(shdrs) \in Nat
  BY OldSections DEF Final
<1>3. k \in 0 .. Len(shdrs) BY <1>1, <1>2, FinalTypes, AcceptedTypes
<1>4. ASSUME k # 0
      PROVE  /\ k \in 1 .. Len(shdrs) /\ shdrs[k].type = "STRTAB"
             /\ Covers(shdrs[k], strtab.vaddr, strtab.off, strtab.size)
  <2>1. k \in 1 .. Len(ShdrsOf(src.buf)) /\ k \in 1 .. Len(shdrs)
    BY <1>2, <1>3, <1>4
  <2>2. SameSection(shdrs[k], ShdrsOf(src.buf)[k])
        /\ Covers(shdrs[k], strtab.vaddr, strtab.off, strtab.size)
    BY <2>1 DEF Final, Memory, Sections
  <2>3. ShdrsOf(src.buf)[k].type = "STRTAB"
    BY <1>1, <1>4, FinalTypes, AcceptedSections
  <2> QED BY <2>1, <2>2, <2>3 DEF SameSection
<1>5. \A j \in 1 .. Len(shdrs) : j # k => j \notin S
  BY BesideStrings DEF StrtabSections
<1>6. k # 0 => k \in S
  <2> SUFFICES ASSUME k # 0 PROVE k \in S OBVIOUS
  <2>1. /\ k \in 1 .. Len(shdrs) /\ shdrs[k].type # "NOBITS"
        /\ shdrs[k].offset = NewDynstrOff /\ shdrs[k].size = m.newDynstrSz
    BY <1>1, <1>4 DEF Covers
  <2>2. RangesOverlap(NewDynstrOff, m.newDynstrSz, NewDynstrOff, m.newDynstrSz)
    BY FinalDynstr, WidthAssumption DEF RangesOverlap
  <2> QED BY <2>1, <2>2 DEF StrtabSections
<1>7. S \subseteq 1 .. Len(shdrs) BY DEF StrtabSections
<1> HIDE DEF S, k
<1>8. S = IF k = 0 THEN {} ELSE {k}
  <2>1. CASE k = 0
    <3>1. \A j \in 1 .. Len(shdrs) : j # k BY <1>2, <2>1
    <3> QED BY <1>5, <1>7, <2>1, <3>1
  <2>2. CASE k # 0 BY <1>5, <1>6, <1>7, <2>2
  <2> QED BY <2>1, <2>2
<1> QED BY <1>3, <1>4, <1>8 DEF S, k

(* The string table is the one in memory.                                  *)
LEMMA FinalStrtab ==
  ASSUME Final, FewImports
  PROVE  StrtabOf(buf) = strtab
<1>1. /\ PhdrsOf(buf) = phdrs /\ ShdrsOf(buf) = shdrs /\ DynEntriesOf(buf) = dyn.entries
      /\ DynVal(dyn.entries, "STRTAB") = strtab.vaddr
      /\ DynVal(dyn.entries, "STRSZ") = strtab.size
  BY FinalPhdrs, FinalShdrs, FinalDyn, FinalStrtabEntries
<1>2. strtab = [vaddr |-> NewDynstrVaddr, off |-> NewDynstrOff,
                size |-> m.newDynstrSz, shdr |-> StrtabOf(src.buf).shdr]
      /\ OffFromVaddr(phdrs, NewDynstrVaddr, m.newDynstrSz)
           = [ok |-> TRUE, val |-> NewDynstrOff]
  BY FinalDynstr
<1>3. /\ strtab.vaddr = NewDynstrVaddr /\ strtab.off = NewDynstrOff
      /\ strtab.size = m.newDynstrSz
      /\ strtab = [vaddr |-> strtab.vaddr, off |-> strtab.off,
                   size |-> strtab.size, shdr |-> strtab.shdr]
  <2> DEFINE x == StrtabOf(src.buf).shdr
  <2>1. strtab = [vaddr |-> NewDynstrVaddr, off |-> NewDynstrOff,
                  size |-> m.newDynstrSz, shdr |-> x]
    BY <1>2
  <2> HIDE DEF x
  <2> QED BY <2>1
<1>4. OffFromVaddr(phdrs, strtab.vaddr, strtab.size).val = strtab.off
  BY <1>2, <1>3
<1>5. FirstOf(StrtabSections(shdrs, strtab.vaddr, strtab.off, strtab.size)) = strtab.shdr
  <2>1. /\ StrtabSections(shdrs, strtab.vaddr, strtab.off, strtab.size)
             = IF strtab.shdr = 0 THEN {} ELSE {strtab.shdr}
        /\ strtab.shdr \in 0 .. Len(shdrs)
    BY <1>3, FinalStrtabSections
  <2>2. CASE strtab.shdr = 0 BY <2>1, <2>2 DEF FirstOf
  <2>3. CASE strtab.shdr # 0
    <3>1. {strtab.shdr} \in SUBSET (Nat \ {0}) BY <2>1, <2>3, FinalTypes
    <3>2. FirstOf({strtab.shdr}) \in {strtab.shdr} BY <3>1, FirstOfProperty
    <3> QED BY <2>1, <2>3, <3>2
  <2> QED BY <2>2, <2>3
<1>6. StrtabAt(phdrs, shdrs, strtab.vaddr, strtab.size) = strtab
  BY <1>3, <1>4, <1>5 DEF StrtabAt
<1> QED BY <1>1, <1>6 DEF StrtabOf

-----------------------------------------------------------------------------
(* A range that a segment of the input contained is still found in that    *)
(* segment.                                                                *)
LEMMA StillContained ==
  ASSUME Final, NEW start, NEW sz
  PROVE  LET old == PhdrsOf(src.buf) IN
         /\ ContainingMemPtload(old, start, sz) # 0 =>
              ContainingMemPtload(phdrs, start, sz) = ContainingMemPtload(old, start, sz)
         /\ ContainingFilePtload(old, start, sz) # 0 =>
              ContainingFilePtload(phdrs, start, sz) = ContainingFilePtload(old, start, sz)
<1> DEFINE old == PhdrsOf(src.buf)
           n   == Len(old)
<1>1. /\ n \in Nat /\ n <= Len(phdrs) /\ Len(phdrs) \in Nat
      /\ \A j \in 1 .. n : /\ phdrs[j].type = old[j].type
                           /\ old[j].type = "LOAD" => phdrs[j] = old[j]
  BY FinalTable, FinalTypes
<1> DEFINE MemS  == {j \in IndicesOf(old, "LOAD") : MemContains(old[j], start, sz)}
           MemT  == {j \in IndicesOf(phdrs, "LOAD") : MemContains(phdrs[j], start, sz)}
           FileS == {j \in IndicesOf(old, "LOAD") : FileContains(old[j], start, sz)}
           FileT == {j \in IndicesOf(phdrs, "LOAD") : FileContains(phdrs[j], start, sz)}
<1> HIDE DEF old
<1>2. ASSUME NEW j \in 1 .. n
      PROVE  /\ j \in IndicesOf(phdrs, "LOAD") <=> j \in IndicesOf(old, "LOAD")
             /\ j \in IndicesOf(old, "LOAD") => phdrs[j] = old[j]
  BY <1>1 DEF IndicesOf
<1>3. /\ \A j \in 1 .. n : j \in MemT <=> j \in MemS
      /\ \A j \in 1 .. n : j \in FileT <=> j \in FileS
  BY <1>2
<1>4. /\ MemS \in SUBSET (Nat \ {0}) /\ MemT \in SUBSET (Nat \ {0})
      /\ FileS \in SUBSET (Nat \ {0}) /\ FileT \in SUBSET (Nat \ {0})
      /\ MemS \subseteq 1 .. n /\ FileS \subseteq 1 .. n
  BY DEF IndicesOf
<1>5. ASSUME ContainingMemPtload(old, start, sz) # 0
      PROVE  ContainingMemPtload(phdrs, start, sz) = ContainingMemPtload(old, start, sz)
  <2>1. ~(start > MaxU - sz) BY <1>5 DEF ContainingMemPtload
  <2>2. /\ ContainingMemPtload(old, start, sz) = FirstOf(MemS)
        /\ ContainingMemPtload(phdrs, start, sz) = FirstOf(MemT)
    BY <2>1 DEF ContainingMemPtload
  <2> HIDE DEF MemS, MemT, n
  <2>3. MemS # {} BY <1>4, <1>5, <2>2, FirstOfProperty
  <2>4. FirstOf(MemT) = FirstOf(MemS) BY <1>1, <1>3, <1>4, <2>3, FirstOfMore
  <2> QED BY <2>2, <2>4
<1>6. ASSUME ContainingFilePtload(old, start, sz) # 0
      PROVE  ContainingFilePtload(phdrs, start, sz) = ContainingFilePtload(old, start, sz)
  <2>1. ~(start > MaxU - sz) BY <1>6 DEF ContainingFilePtload
  <2>2. /\ ContainingFilePtload(old, start, sz) = FirstOf(FileS)
        /\ ContainingFilePtload(phdrs, start, sz) = FirstOf(FileT)
    BY <2>1 DEF ContainingFilePtload
  <2> HIDE DEF FileS, FileT, n
  <2>3. FileS # {} BY <1>4, <1>6, <2>2, FirstOfProperty
  <2>4. FirstOf(FileT) = FirstOf(FileS) BY <1>1, <1>3, <1>4, <2>3, FirstOfMore
  <2> QED BY <2>2, <2>4
<1> QED BY <1>5, <1>6 DEF old

(* An address of the input leads where it led.                             *)
LEMMA StillFound ==
  ASSUME Final, NEW vaddr \in Nat, NEW sz \in Nat,
         NEW off, OffFromVaddr(PhdrsOf(src.buf), vaddr, sz) = [ok |-> TRUE, val |-> off]
  PROVE  OffFromVaddr(phdrs, vaddr, sz) = [ok |-> TRUE, val |-> off]
<1> DEFINE old == PhdrsOf(src.buf)
           i   == ContainingMemPtload(old, vaddr, sz)
           at  == old[i].offset + (vaddr - old[i].vaddr)
           ok  == /\ i # 0
                  /\ vaddr - old[i].vaddr <= MaxU - old[i].offset
                  /\ ContainingFilePtload(old, at, sz) = i
<1>1. OffFromVaddr(old, vaddr, sz) = [ok |-> TRUE, val |-> off] OBVIOUS
<1>2. OffFromVaddr(old, vaddr, sz)
        = IF ok THEN [ok |-> TRUE, val |-> at] ELSE [ok |-> FALSE, val |-> 0]
  BY DEF OffFromVaddr
<1>3. ok
  <2> HIDE DEF ok, at
  <2>1. SUFFICES ASSUME ~ok PROVE FALSE OBVIOUS
  <2>2. [ok |-> TRUE, val |-> off] = [ok |-> FALSE, val |-> 0] BY <1>1, <1>2, <2>1
  <2>3. [ok |-> TRUE, val |-> off].ok = [ok |-> FALSE, val |-> 0].ok BY <2>2
  <2> QED BY <2>3
<1>4. at = off
  <2> HIDE DEF ok, at
  <2>1. [ok |-> TRUE, val |-> off] = [ok |-> TRUE, val |-> at] BY <1>1, <1>2, <1>3
  <2>2. [ok |-> TRUE, val |-> off].val = [ok |-> TRUE, val |-> at].val BY <2>1
  <2> QED BY <2>2
<1>5. ContainingMemPtload(phdrs, vaddr, sz) = i /\ i # 0
  BY <1>3, StillContained
<1>6. phdrs[i] = old[i]
  <2>1. old \in Seq(Phdr) /\ \A j \in 1 .. Len(old) :
          old[j].type = "LOAD" => phdrs[j] = old[j]
    BY FinalTable
  <2>2. i \in 0 .. Len(old) /\ (i # 0 => old[i].type = "LOAD")
    BY <2>1, ContainingMemProperty
  <2>3. Len(old) \in Nat BY <2>1
  <2> HIDE DEF old, i
  <2>4. i \in 1 .. Len(old) BY <1>5, <2>2, <2>3
  <2> QED BY <1>5, <2>1, <2>2, <2>4
<1>7. ContainingFilePtload(phdrs, at, sz) = i
  <2>1. ContainingFilePtload(old, at, sz) = i /\ i # 0 BY <1>3
  <2> HIDE DEF i, at
  <2> QED BY <2>1, StillContained DEF old
<1>8. vaddr - old[i].vaddr <= MaxU - old[i].offset BY <1>3
<1>9. OffFromVaddr(phdrs, vaddr, sz) = [ok |-> TRUE, val |-> at]
  <2> HIDE DEF ok
  <2>1. at = phdrs[i].offset + (vaddr - phdrs[i].vaddr) BY <1>6
  <2>2. vaddr - phdrs[i].vaddr <= MaxU - phdrs[i].offset BY <1>6, <1>8
  <2> HIDE DEF i, at, old
  <2> QED BY <1>5, <1>7, <2>1, <2>2 DEF OffFromVaddr
<1> QED BY <1>4, <1>9

(* A multiple leaves no remainder.                                         *)
LEMMA MultipleDivides ==
  ASSUME NEW x \in Nat, NEW y \in Nat \ {0}
  PROVE  (x * y) % y = 0
  OBVIOUS

(* The dynamic segment is mapped from its place in the file.               *)
LEMMA FinalPtDynamic ==
  ASSUME Final
  PROVE  ValidPtDynamic(phdrs, dyn.phdr)
<1> DEFINE d   == dyn.phdr
           old == PhdrsOf(src.buf)
<1>1. d # 0 /\ d \in 1 .. Len(old) /\ d = PtDynamic(src.buf) /\ old \in Seq(Phdr)
  BY FinalTable
<1>2. phdrs[d].filesz % DynEnt = 0
  <2>1. Len(dyn.entries) * DynEnt = phdrs[d].filesz BY DEF Final, Footprint
  <2>2. Len(dyn.entries) \in Nat BY FinalTypes
  <2>3. \A x \in Nat : \A y \in Nat \ {0} : (x * y) % y = 0 BY MultipleDivides
  <2> QED BY <2>1, <2>2, <2>3, SizeAssumption
<1>3. CASE m.move
  <2>1. /\ m.rw \in 1 .. Len(phdrs) /\ RwPlaced
        /\ phdrs[d].offset = phdrs[m.rw].offset /\ phdrs[d].vaddr = phdrs[m.rw].vaddr
        /\ phdrs[d].filesz = m.newDynSz
    BY <1>3, FinalTable, FinalTypes DEF Final, Plan, Tables, DynPlace
  <2>2. Holds(phdrs[m.rw], m.newDynSz) /\ Behind(phdrs, m.rw) /\ 0 < m.newDynSz
    BY <2>1 DEF RwPlaced, Placed, Holds
  <2>3. m.newDynSz \in Nat /\ phdrs[m.rw] \in Phdr
    BY <2>1, FinalTypes, Naturals64 DEF Mods
  <2>4. phdrs[m.rw].offset \in Nat /\ phdrs[m.rw].vaddr \in Nat BY <2>3, PhdrFields
  <2>5. TypeInv BY DEF Final
  <2> DEFINE k   == 0
             len == m.newDynSz
             i   == m.rw
  <2>6. k \in Nat /\ len \in Nat /\ 0 < len /\ k + len <= len
        /\ i \in 1 .. Len(phdrs) /\ Holds(phdrs[i], len) /\ Behind(phdrs, i)
    BY <2>1, <2>2, <2>3
  <2>7. phdrs[i].vaddr + k = phdrs[i].vaddr /\ phdrs[i].offset + k = phdrs[i].offset
    BY <2>4
  <2> HIDE DEF k, len, i
  <2>8. OffFromVaddr(phdrs, phdrs[i].vaddr + k, len)
          = [ok |-> TRUE, val |-> phdrs[i].offset + k]
    BY ONLY <2>5, <2>6, FoundInPlace, ZenonT(60)
  <2>9. OffFromVaddr(phdrs, phdrs[m.rw].vaddr, m.newDynSz)
          = [ok |-> TRUE, val |-> phdrs[m.rw].offset]
    BY <2>7, <2>8 DEF i, len
  <2> QED BY <1>1, <1>2, <2>1, <2>9 DEF ValidPtDynamic
<1>4. CASE ~m.move
  <2>1. phdrs[d] = old[d] BY <1>4 DEF Final, Plan, Tables, DynPlace
  <2>2. OffFromVaddr(old, old[d].vaddr, old[d].filesz)
          = [ok |-> TRUE, val |-> old[d].offset]
    BY <1>1, FinalTypes DEF ParseElf, ValidDynamic, ValidPtDynamic
  <2>3. old[d] \in Phdr BY <1>1
  <2>4. old[d].vaddr \in Nat /\ old[d].filesz \in Nat BY <2>3, PhdrFields
  <2>5. OffFromVaddr(phdrs, old[d].vaddr, old[d].filesz)
          = [ok |-> TRUE, val |-> old[d].offset]
    BY <2>2, <2>4, StillFound
  <2> QED BY <1>1, <1>2, <2>1, <2>5 DEF ValidPtDynamic
<1> QED BY <1>3, <1>4

(* The dynamic section is the one it was, over the dynamic segment.        *)
LEMMA FinalShtDynamic ==
  ASSUME Final
  PROVE  /\ ShtDynamic(shdrs) = dyn.shdr /\ dyn.shdr \in 0 .. Len(shdrs)
         /\ dyn.shdr = ShtDynamic(ShdrsOf(src.buf))
         /\ dyn.shdr # 0 => dyn.shdr # strtab.shdr
         /\ ValidShtDynamic(shdrs, phdrs[dyn.phdr])
<1> DEFINE os == ShdrsOf(src.buf)
           d  == dyn.shdr
<1>1. Len(shdrs) = Len(os) /\ Len(shdrs) \in Nat BY OldSections DEF Final
<1>2. d = ShtDynamic(os) BY DEF Final, Memory, StringTable
<1>3. \A j \in 1 .. Len(os) : SameSection(shdrs[j], os[j])
  BY DEF Final, Memory, Sections
<1>4. ShtDynamic(shdrs) = ShtDynamic(os)
  <2>1. {i \in 1 .. Len(shdrs) : shdrs[i].type = "DYNAMIC"}
          = {i \in 1 .. Len(os) : os[i].type = "DYNAMIC"}
    <3> HIDE DEF os
    <3> QED BY <1>1, <1>3 DEF SameSection
  <2> QED BY <2>1 DEF ShtDynamic
<1>5. d \in 0 .. Len(os) BY <1>2, FinalTypes, AcceptedTypes
<1>6. d # 0 => d # strtab.shdr
  <2>1. strtab.shdr = StrtabOf(src.buf).shdr
    <3> DEFINE x == StrtabOf(src.buf).shdr
    <3>1. strtab = [vaddr |-> NewDynstrVaddr, off |-> NewDynstrOff,
                    size |-> m.newDynstrSz, shdr |-> x]
      BY FinalDynstr
    <3> HIDE DEF x
    <3> QED BY <3>1 DEF x
  <2> QED BY <1>2, <2>1, FinalTypes, AcceptedSections
<1>7. ValidShtDynamic(shdrs, phdrs[dyn.phdr])
  <2>1. SUFFICES ASSUME d # 0
                 PROVE  /\ shdrs[d].offset = phdrs[dyn.phdr].offset
                        /\ shdrs[d].size = phdrs[dyn.phdr].filesz
                        /\ shdrs[d].addr = phdrs[dyn.phdr].vaddr
    BY <1>2, <1>4 DEF ValidShtDynamic
  <2>2. d \in 1 .. Len(os) BY <1>1, <1>5, <2>1
  <2>3. Covers(shdrs[d], phdrs[dyn.phdr].vaddr, phdrs[dyn.phdr].offset,
               phdrs[dyn.phdr].filesz)
    BY <1>6, <2>1, <2>2 DEF Final, Memory, Sections
  <2> QED BY <2>3 DEF Covers
<1> QED BY <1>1, <1>2, <1>4, <1>5, <1>6, <1>7

(* parse_dynstr accepts the new string table.                              *)
LEMMA FinalStrtabValid ==
  ASSUME Final
  PROVE  ValidStrtabAt(buf, phdrs, shdrs, strtab)
<1> DEFINE b  == src.buf
           st == StrtabOf(b)
           N  == Len(Imports)
           o  == StrOffset(st.size)
<1>1. /\ strtab.vaddr = NewDynstrVaddr /\ strtab.off = NewDynstrOff
      /\ strtab.size = m.newDynstrSz /\ strtab.shdr = st.shdr
  <2> DEFINE x == st.shdr
  <2>1. strtab = [vaddr |-> NewDynstrVaddr, off |-> NewDynstrOff,
                  size |-> m.newDynstrSz, shdr |-> x]
    BY FinalDynstr
  <2> HIDE DEF x
  <2> QED BY <2>1 DEF x
<1>2. m.newDynstrSz \in Nat /\ 0 < m.newDynstrSz /\ NewDynstrOff \in Nat
      /\ OffFromVaddr(phdrs, NewDynstrVaddr, m.newDynstrSz).ok
  BY FinalDynstr
<1>3. StringsAt(buf, NewDynstrOff, b, st.off, st.size)
  BY FinalTypes DEF Final, Copied
<1>4. st.size \in Nat /\ st.off \in Nat /\ st.size # 0 /\ b[st.off] = Zero
  <2>1. st.size # 0 /\ b[st.off] = Zero
    BY FinalTypes DEF ParseElf, ValidDynamic, ValidStrtab, ValidStrtabAt
  <2> QED BY <2>1, FinalTypes, AcceptedTypes, Naturals64
<1>5. N \in Nat /\ 0 < N BY ImportCount
<1> HIDE DEF st, N
<1>6. /\ \A k \in 0 .. st.size - 1 : buf[NewDynstrOff + k] = b[st.off + k]
      /\ buf[NewDynstrOff + o[N] + NameLen[Imports[N]]] = Zero
  <2>1. N \in 1 .. N BY <1>5
  <2> QED BY <1>3, <2>1 DEF StringsAt, N
<1>7. buf[NewDynstrOff] = Zero
  <2>1. 0 \in 0 .. st.size - 1 BY <1>4
  <2>2. buf[NewDynstrOff + 0] = b[st.off + 0] BY <1>6, <2>1
  <2>3. NewDynstrOff + 0 = NewDynstrOff /\ st.off + 0 = st.off BY <1>2, <1>4
  <2> QED BY <1>4, <2>2, <2>3
<1>8. buf[NewDynstrOff + m.newDynstrSz - 1] = Zero
  <2>1. /\ N \in 1 .. N /\ N \in 1 .. N + 1 BY <1>5
  <2>2. /\ o[N] \in Nat /\ NameLen[Imports[N]] \in Nat
        /\ o[N + 1] = o[N] + NameLen[Imports[N]] + 1
    BY <1>4, <2>1, OffsetsGrow DEF N
  <2>3. m.newDynstrSz = o[N + 1]
    BY FinalTypes, StringsLength DEF Final, Filled, N, st
  <2>4. NewDynstrOff + m.newDynstrSz - 1 = NewDynstrOff + o[N] + NameLen[Imports[N]]
    <3> HIDE DEF o
    <3> QED BY <1>2, <2>2, <2>3
  <2> QED BY <1>6, <2>4
<1>9. \A i \in StrtabSections(shdrs, NewDynstrVaddr, NewDynstrOff, m.newDynstrSz) :
        /\ i = strtab.shdr
        /\ shdrs[i].type = "STRTAB"
        /\ shdrs[i].offset = strtab.off
        /\ shdrs[i].addr = strtab.vaddr
        /\ shdrs[i].size = strtab.size
  BY FinalStrtabSections DEF Covers
<1>10. ShtDynamic(shdrs) # 0 =>
         strtab.shdr # 0 /\ shdrs[ShtDynamic(shdrs)].link = strtab.shdr - 1
  <2> DEFINE os == ShdrsOf(b)
             d  == ShtDynamic(shdrs)
  <2>1. d = ShtDynamic(os) /\ d \in 0 .. Len(shdrs) BY FinalShtDynamic
  <2>2. Len(shdrs) = Len(os) /\ Len(shdrs) \in Nat BY OldSections DEF Final
  <2>3. ShtDynamic(os) # 0 => st.shdr # 0 /\ os[ShtDynamic(os)].link = st.shdr - 1
    BY FinalTypes, AcceptedSections DEF st
  <2>4. \A j \in 1 .. Len(os) : SameSection(shdrs[j], os[j])
    BY DEF Final, Memory, Sections
  <2> HIDE DEF d, os
  <2>5. d # 0 => d \in 1 .. Len(os) BY <2>1, <2>2
  <2> QED BY <1>1, <2>1, <2>3, <2>4, <2>5 DEF SameSection, d
<1> QED BY <1>1, <1>2, <1>7, <1>8, <1>9, <1>10 DEF ValidStrtabAt

-----------------------------------------------------------------------------
(* What the parser reads besides the tables has not changed.               *)
LEMMA OnlyReadKept ==
  ASSUME Final, NEW r \in OnlyRead(src.buf), r[1] \in Nat, r[2] \in Nat,
         r[1] + r[2] <= src.size, NEW i \in Nat, Within(i, r)
  PROVE  buf[i] = src.buf[i]
<1> DEFINE b == src.buf
<1>1. \A s \in Rewritten(b) : s[1] \in Nat /\ s[2] \in Nat
  BY OldPlaces DEF Final, Rewritten
<1>2. src.size \in Nat BY FinalTypes
<1>3. ASSUME NEW s \in Rewritten(b) PROVE ~Within(i, s)
  <2>1. Apart(s, r) BY DEF Final, Tidy
  <2>2. Apart(r, s) BY <2>1 DEF Apart
  <2>3. s[1] \in Nat /\ s[2] \in Nat BY <1>1
  <2> QED BY <2>2, <2>3, ApartWithin
<1>4. i \in 0 .. src.size - 1 BY <1>2 DEF Within
<1> QED BY <1>3, <1>4 DEF Final, Footprint, Foreign

(* What is within the bounds of n bytes and of the addresses is accepted.  *)
LEMMA SectionWithin ==
  ASSUME NEW n \in Nat, NEW s, s.addr \in Nat, s.offset \in Nat, s.size \in Nat,
         s.offset + s.size <= n, s.addr + s.size <= MaxU
  PROVE  ValidShdr(n, s)
<1>1. MaxU \in Nat BY WidthAssumption
<1>2. s.offset <= n /\ s.size <= n - s.offset /\ s.addr <= MaxU - s.size BY <1>1
<1> QED BY <1>2 DEF ValidShdr

(* Every section is still within the file and the address space.           *)
LEMMA FinalSections ==
  ASSUME Final, NEW j \in 1 .. Len(shdrs)
  PROVE  ValidShdr(size, shdrs[j])
<1> DEFINE os == ShdrsOf(src.buf)
           s  == shdrs[j]
           o  == os[j]
           pt == phdrs[dyn.phdr]
<1>1. /\ os \in Seq(Shdr) /\ Len(shdrs) = Len(os) /\ shdrs \in Seq(Shdr)
      /\ j \in 1 .. Len(os)
  BY OldSections, FinalTypes DEF Final
<1>2. s \in Shdr /\ o \in Shdr BY <1>1
<1>3. /\ s.addr \in Nat /\ s.offset \in Nat /\ s.size \in Nat
      /\ o.addr \in Nat /\ o.offset \in Nat /\ o.size \in Nat
      /\ size \in Nat /\ src.size \in Nat /\ src.size <= size /\ MaxU \in Nat
  BY <1>2, Naturals64, FinalTypes, WidthAssumption DEF Shdr
<1>4. CASE j = strtab.shdr
  <2>1. j # 0 BY <1>1
  <2>2. Covers(s, strtab.vaddr, strtab.off, strtab.size)
    BY <1>4, <2>1, FinalStrtabSections
  <2>3. /\ strtab.vaddr = NewDynstrVaddr /\ strtab.off = NewDynstrOff
        /\ strtab.size = m.newDynstrSz
    <3> DEFINE x == StrtabOf(src.buf).shdr
    <3>1. strtab = [vaddr |-> NewDynstrVaddr, off |-> NewDynstrOff,
                    size |-> m.newDynstrSz, shdr |-> x]
      BY FinalDynstr
    <3> HIDE DEF x
    <3> QED BY <3>1
  <2>4. NewDynstrOff + m.newDynstrSz <= size BY FinalPlaces
  <2>5. NewDynstrVaddr + m.newDynstrSz <= MaxU
    <3>1. /\ NewDynstrVaddr + m.newDynstrSz <= phdrs[m.ro].vaddr + phdrs[m.ro].memsz
          /\ phdrs[m.ro].vaddr + phdrs[m.ro].memsz <= MaxU
          /\ phdrs[m.ro].vaddr \in Nat /\ phdrs[m.ro].memsz \in Nat
          /\ NewDynstrVaddr \in Nat /\ m.newDynstrSz \in Nat
      BY FinalDynstr
    <3>2. ASSUME NEW x \in Nat, NEW y \in Nat, NEW z \in Nat, x <= y, y <= z PROVE x <= z
      BY <3>2
    <3>3. /\ NewDynstrVaddr + m.newDynstrSz \in Nat
          /\ phdrs[m.ro].vaddr + phdrs[m.ro].memsz \in Nat
      BY ONLY <3>1
    <3> QED BY <1>3, <3>1, <3>2, <3>3, Zenon
  <2>6. s.offset + s.size <= size /\ s.addr + s.size <= MaxU
    BY <2>2, <2>3, <2>4, <2>5 DEF Covers
  <2> QED BY <1>3, <2>6, SectionWithin
<1>5. CASE j # strtab.shdr /\ j = dyn.shdr
  <2>1. Covers(s, pt.vaddr, pt.offset, pt.filesz)
    BY <1>1, <1>5 DEF Final, Memory, Sections
  <2>2. /\ pt.filesz = Len(dyn.entries) * DynEnt
        /\ InBounds(pt.offset, Len(dyn.entries) * DynEnt, size)
    BY FinalTypes, TablesFit DEF Final, Footprint
  <2>3. InBounds(s.offset, s.size, size) BY <2>1, <2>2 DEF Covers
  <2>4. pt.vaddr + pt.filesz <= MaxU
    <3>1. OffFromVaddr(phdrs, pt.vaddr, pt.filesz) = [ok |-> TRUE, val |-> pt.offset]
      BY FinalPtDynamic DEF ValidPtDynamic
    <3>2. pt.vaddr \in Nat /\ pt.filesz \in Nat BY <1>3, <2>1 DEF Covers
    <3>3. OffFromVaddr(phdrs, pt.vaddr, pt.filesz).ok BY <3>1
    <3> QED BY <3>2, <3>3, FinalTypes, OffFromVaddrProperty
  <2>5. s.addr + s.size <= MaxU BY <2>1, <2>4 DEF Covers
  <2>6. s.offset + s.size <= size BY <1>3, <2>3 DEF InBounds
  <2> QED BY <1>3, <2>5, <2>6, SectionWithin
<1>6. CASE j # strtab.shdr /\ j # dyn.shdr
  <2>1. SameSection(s, o) /\ Covers(s, o.addr, o.offset, o.size)
    BY <1>1, <1>6 DEF Final, Memory, Sections
  <2>2. ValidShdr(src.size, o) BY <1>1, FinalTypes DEF ParseElf, ValidShdrs
  <2> HIDE DEF s, o
  <2> QED BY <1>3, <2>1, <2>2 DEF ValidShdr, SameSection, Covers, s
<1> QED BY <1>4, <1>5, <1>6

(* .shstrtab is where it was, with its terminators.                        *)
LEMMA FinalShstrtab ==
  ASSUME Final, ShnumOf(src.buf) # 0, ShstrndxOf(src.buf) # 0
  PROVE  /\ ShstrndxOf(src.buf) < ShnumOf(src.buf)
         /\ ValidShstrtab(buf, size, shdrs[ShstrndxOf(src.buf) + 1])
<1> DEFINE b  == src.buf
           os == ShdrsOf(b)
           i  == ShstrndxOf(b)
           s  == shdrs[i + 1]
           o  == os[i + 1]
           st == StrtabOf(b)
           r  == <<o.offset, o.size>>
<1>1. i < ShnumOf(b) /\ ValidShstrtab(b, src.size, o)
  BY FinalTypes DEF ParseElf, ValidShdrs
<1>2. /\ os \in Seq(Shdr) /\ Len(shdrs) = Len(os) /\ shdrs \in Seq(Shdr)
      /\ Len(os) = ShnumOf(b)
  BY OldSections, FinalTypes, AcceptedTypes DEF Final
<1>3. i \in Nat
  <2>1. ~NoShdrs(EhdrOf(b)) BY DEF ShnumOf
  <2>2. EhdrOf(b).shstrndx \in Nat BY FinalTypes, AcceptedTypes, Naturals64 DEF Ehdr
  <2>3. FirstShdr(b).link \in Nat
    <3>1. FirstShdr(b) \in Shdr
      BY FinalTypes, ShdrsType DEF ParseElf, ValidShdrs
    <3> QED BY <3>1, Naturals64 DEF Shdr
  <2> QED BY <2>1, <2>2, <2>3 DEF ShstrndxOf
<1>4. i + 1 \in 1 .. Len(os)
  <2>1. Len(os) \in Nat BY <1>2
  <2> HIDE DEF i, os
  <2> QED BY <1>1, <1>2, <1>3, <2>1
<1>5. o \in Shdr /\ s \in Shdr
  <2> HIDE DEF os, i
  <2> QED BY <1>2, <1>4
<1>6. /\ o.offset \in Nat /\ o.size \in Nat /\ src.size \in Nat /\ size \in Nat
      /\ src.size <= size
  BY <1>5, Naturals64, FinalTypes DEF Shdr
<1>7. r \in OnlyRead(b) BY DEF OnlyRead
<1>8. /\ o.type = "STRTAB" /\ o.offset < src.size /\ o.size <= src.size - o.offset
      /\ o.size >= 1
      /\ b[o.offset] = Zero /\ b[o.offset + o.size - 1] = Zero
  BY <1>1 DEF ValidShstrtab
<1>9. i + 1 # st.shdr
  <2> SUFFICES ASSUME i + 1 = st.shdr PROVE FALSE OBVIOUS
  <2>1. st.shdr # 0 BY <1>3
  <2>2. o.offset = st.off /\ o.size = st.size
    BY <2>1, FinalTypes, AcceptedSections
  <2>3. StrtabRange(b) \in Rewritten(b) /\ StrtabRange(b) = r
    BY <2>2 DEF Rewritten, StrtabRange
  <2>4. Apart(r, r) BY <1>7, <2>3 DEF Final, Tidy
  <2>5. r[1] = o.offset /\ r[2] = o.size OBVIOUS
  <2> HIDE DEF o, r
  <2> QED BY <1>6, <1>8, <2>4, <2>5 DEF Apart
<1>10. i + 1 # dyn.shdr
  <2> SUFFICES ASSUME i + 1 = dyn.shdr PROVE FALSE OBVIOUS
  <2>1. dyn.shdr = ShtDynamic(os) /\ dyn.shdr # 0 BY <1>3, FinalShtDynamic
  <2>2. o.type = "DYNAMIC" BY <2>1, FinalTypes, AcceptedSections
  <2> QED BY <1>8, <2>2
<1>11. strtab.shdr = st.shdr
  <2> DEFINE x == st.shdr
  <2>1. strtab = [vaddr |-> NewDynstrVaddr, off |-> NewDynstrOff,
                  size |-> m.newDynstrSz, shdr |-> x]
    BY FinalDynstr
  <2> HIDE DEF x
  <2> QED BY <2>1 DEF x
<1>12. SameSection(s, o) /\ Covers(s, o.addr, o.offset, o.size)
  <2>1. i + 1 # strtab.shdr BY <1>9, <1>11
  <2> QED BY <1>4, <1>10, <2>1 DEF Final, Memory, Sections
<1>13. s.type = "STRTAB" /\ s.offset = o.offset /\ s.size = o.size
  BY <1>8, <1>12 DEF SameSection, Covers
<1>14. buf[o.offset] = Zero /\ buf[o.offset + o.size - 1] = Zero
  <2>1. r[1] = o.offset /\ r[2] = o.size OBVIOUS
  <2> HIDE DEF o, r, i
  <2>2. /\ r[1] \in Nat /\ r[2] \in Nat /\ r[1] + r[2] <= src.size
        /\ o.offset \in Nat /\ Within(o.offset, r)
        /\ o.offset + o.size - 1 \in Nat /\ Within(o.offset + o.size - 1, r)
    BY <1>6, <1>8, <2>1 DEF Within
  <2>3. buf[o.offset] = b[o.offset] BY <1>7, <2>2, OnlyReadKept
  <2>4. buf[o.offset + o.size - 1] = b[o.offset + o.size - 1]
    BY <1>7, <2>2, OnlyReadKept
  <2> QED BY <1>8, <2>3, <2>4
<1>15. s.offset < size /\ s.size <= size - s.offset /\ s.size >= 1
  <2> HIDE DEF o, s
  <2> QED BY <1>6, <1>8, <1>13
<1> QED BY <1>1, <1>13, <1>14, <1>15 DEF ValidShstrtab

(* read_validate_shdrs accepts the section headers.                        *)
LEMMA FinalShdrsValid ==
  ASSUME Final
  PROVE  ValidShdrs(buf, size)
<1> DEFINE os == ShdrsOf(src.buf)
<1>1. /\ ShnumOf(buf) = ShnumOf(src.buf) /\ ShstrndxOf(buf) = ShstrndxOf(src.buf)
      /\ ShdrsOf(buf) = shdrs /\ ValidShdrTable(buf, size)
  BY FinalShdrs
<1>2. \A i, j \in 1 .. Len(shdrs) :
        shdrs[i].type = "DYNAMIC" /\ shdrs[j].type = "DYNAMIC" => i = j
  <2>1. Len(shdrs) = Len(os) BY OldSections DEF Final
  <2>2. \A j \in 1 .. Len(os) : SameSection(shdrs[j], os[j])
    BY DEF Final, Memory, Sections
  <2>3. \A i, j \in 1 .. Len(os) : os[i].type = "DYNAMIC" /\ os[j].type = "DYNAMIC" => i = j
    BY FinalTypes DEF ParseElf, ValidShdrs
  <2> HIDE DEF os
  <2> QED BY <2>1, <2>2, <2>3 DEF SameSection
<1> QED BY <1>1, <1>2, FinalSections, FinalShstrtab DEF ValidShdrs

-----------------------------------------------------------------------------
(* The alignments that the segments may have: the parser accepts no other, *)
(* and the appended segments take theirs from an old one or from the page. *)
Aligned(phs) ==
  \A i \in IndicesOf(phs, "LOAD") : phs[i].align > 1 => IsPow2(phs[i].align)

(* A new segment is aligned like the others.                               *)
LEMMA AppendAligned ==
  ASSUME TypeInv, Aligned(phdrs), AppendRo \/ AppendRw
  PROVE  Aligned(phdrs')
<1>1. PICK content \in U64, write \in BOOLEAN : AppendSegment(content, write)
  <2>1. CASE AppendRo
    <3>1. AppendSegment(RoContent, FALSE) /\ RoContent <= MaxU BY <2>1 DEF AppendRo
    <3>2. RoContent \in U64
      <4>1. m.newPhsize \in Nat /\ m.newDynstrSz \in Nat
        BY Naturals64 DEF TypeInv, TypeOK, Mods
      <4> QED BY <3>1, <4>1, WidthAssumption DEF RoContent, U64
    <3> QED BY <3>1, <3>2
  <2>2. CASE AppendRw
    <3>1. AppendSegment(RwContent, TRUE) BY <2>2 DEF AppendRw
    <3>2. RwContent \in U64 BY DEF TypeInv, TypeOK, Mods, RwContent
    <3> QED BY <3>1, <3>2
  <2> QED BY <2>1, <2>2
<1>2. /\ phdrs' \in Seq(Phdr) /\ Len(phdrs') = Len(phdrs) + 1
      /\ \A i \in 1 .. Len(phdrs) : phdrs'[i].type = phdrs[i].type
      /\ \A i \in 1 .. Len(phdrs) : phdrs[i].type # "PHDR" => phdrs'[i] = phdrs[i]
      /\ phdrs'[Len(phdrs) + 1] = NewSegment(content, write)
  BY <1>1, AppendSegmentProperty
<1>3. phdrs \in Seq(Phdr) /\ Len(phdrs) \in Nat BY DEF TypeInv, TypeOK
<1>4. NewSegment(content, write).align = MaxLoadAlign(phdrs)
  BY DEF NewSegment, SegmentFor
<1>5. MaxLoadAlign(phdrs) > 1 => IsPow2(MaxLoadAlign(phdrs))
  <2>1. MaxLoadAlign(phdrs) \in {PageSize} \cup {phdrs[i].align : i \in IndicesOf(phdrs, "LOAD")}
    BY <1>3, MaxLoadAlignBound
  <2> QED BY <2>1, PageAssumption DEF Aligned
<1>6. ASSUME NEW i \in IndicesOf(phdrs', "LOAD"), phdrs'[i].align > 1
      PROVE  IsPow2(phdrs'[i].align)
  <2>1. i \in 1 .. Len(phdrs) + 1 /\ phdrs'[i].type = "LOAD"
    BY <1>2 DEF IndicesOf
  <2>2. i \in 1 .. Len(phdrs) \/ i = Len(phdrs) + 1 BY <1>3, <2>1
  <2>3. CASE i \in 1 .. Len(phdrs)
    <3>1. phdrs[i].type = "LOAD" /\ phdrs'[i] = phdrs[i] BY <1>2, <2>1, <2>3
    <3>2. i \in IndicesOf(phdrs, "LOAD") BY <2>3, <3>1 DEF IndicesOf
    <3> QED BY <1>6, <3>1, <3>2 DEF Aligned
  <2>4. CASE i = Len(phdrs) + 1
    BY <1>2, <1>4, <1>5, <1>6, <2>4
  <2> QED BY <2>2, <2>3, <2>4
<1> QED BY <1>6 DEF Aligned

(* Every step leaves the segments aligned.                                 *)
LEMMA NextAligned ==
  TypeInv /\ FootInv /\ Aligned(phdrs) /\ [Next]_vars => Aligned(phdrs')
<1> SUFFICES ASSUME TypeInv, FootInv, Aligned(phdrs), [Next]_vars PROVE Aligned(phdrs')
  OBVIOUS
<1>1. phdrs \in Seq(Phdr) /\ Len(phdrs) \in Nat BY DEF TypeInv, TypeOK
<1>2. CASE phdrs' = phdrs BY <1>2
<1>3. CASE phdrs' = <<>> BY <1>3 DEF Aligned, IndicesOf
<1>4. CASE ReadElf
  <2>1. /\ ParseElf(disk[argIn].buf, disk[argIn].size)
        /\ phdrs' = PhdrsOf(disk[argIn].buf)
    BY <1>4 DEF ReadElf, InputParses, Load
  <2>2. \A i \in 1 .. Len(phdrs') : phdrs'[i].type = "LOAD" => ValidLoad(phdrs', i)
    BY <2>1 DEF ParseElf, ValidPhdrs
  <2> QED BY <2>2 DEF Aligned, IndicesOf, ValidLoad
<1>5. CASE AppendRo \/ AppendRw BY <1>5, AppendAligned
<1>6. CASE MovePhdrs
  <2> DEFINE to  == phdrs[m.ro].offset
             len == Len(phdrs) * PhEnt
             va  == VaddrFromOff(phdrs, to, len).val
             i   == UniquePhdr(phdrs, "PHDR")
  <2>1. phdrs' = Moved(phdrs, i, to, va, len) BY <1>6 DEF MovePhdrs
  <2>2. i \in 0 .. Len(phdrs) /\ (i # 0 => phdrs[i].type # "LOAD")
    BY <1>1, UniquePhdrProperty
  <2>3. CASE i = 0
    <3> HIDE DEF i, to, va, len
    <3>1. phdrs' = phdrs BY <2>1, <2>3 DEF Moved
    <3> QED BY <3>1
  <2>4. CASE i # 0
    <3>1. \A j \in 1 .. Len(phdrs) : phdrs'[j].align = phdrs[j].align /\ phdrs'[j].type = phdrs[j].type
      <4> HIDE DEF i, to, va, len
      <4> QED BY <1>1, <2>1, <2>4 DEF Moved
    <3>2. Len(phdrs') = Len(phdrs)
      <4> HIDE DEF i, to, va, len
      <4>1. DOMAIN phdrs' = 1 .. Len(phdrs) BY <1>1, <2>1, <2>4 DEF Moved
      <4>2. TypeInv' BY <1>6, MovePhdrsTypes
      <4>3. DOMAIN phdrs' = 1 .. Len(phdrs') /\ Len(phdrs') \in Nat
        BY <4>2 DEF TypeInv, TypeOK
      <4> QED BY <1>1, <4>1, <4>3
    <3> QED BY <3>1, <3>2 DEF Aligned, IndicesOf
  <2> QED BY <2>3, <2>4
<1>7. CASE AddEntriesMoved
  <2>1. /\ TypeInv'
        /\ \A j \in 1 .. Len(phdrs) : j # dyn.phdr => phdrs'[j] = phdrs[j]
    BY <1>7, AddEntriesMovedTypes
  <2>2. /\ dyn.phdr \in 1 .. Len(phdrs) /\ phdrs[dyn.phdr].type = "DYNAMIC"
        /\ dyn.phdr # 0
    BY <1>7 DEF TypeInv, Shape, Loaded, AddEntriesMoved
  <2>3. phdrs' = Moved(phdrs, dyn.phdr, NewDynOff, NewDynVaddr, NewDynNum * DynEnt)
    BY <1>7 DEF AddEntriesMoved
  <2>4. phdrs'[dyn.phdr].type = "DYNAMIC" /\ Len(phdrs') = Len(phdrs)
    <3>1. phdrs'[dyn.phdr].type = "DYNAMIC" BY <1>1, <2>2, <2>3 DEF Moved
    <3>2. DOMAIN phdrs' = 1 .. Len(phdrs) BY <1>1, <2>2, <2>3 DEF Moved
    <3>3. DOMAIN phdrs' = 1 .. Len(phdrs') /\ Len(phdrs') \in Nat
      BY <2>1 DEF TypeInv, TypeOK
    <3> QED BY <1>1, <3>1, <3>2, <3>3
  <2>5. \A j \in IndicesOf(phdrs', "LOAD") :
          j \in IndicesOf(phdrs, "LOAD") /\ phdrs'[j] = phdrs[j]
    BY <2>1, <2>4 DEF IndicesOf
  <2> QED BY <2>5 DEF Aligned
<1>8. CASE Start \/ PrepareSizes \/ MoveDynstr \/ AddEntriesInPlace \/ SanityCheck
             \/ UNCHANGED vars
  BY <1>2, <1>8 DEF Start, PrepareSizes, MoveDynstr, AddEntriesInPlace, SanityCheck,
                    vars, tabs
<1>9. CASE Serialize \/ OpenOutput \/ WriteOutput \/ CloseOutput \/ CallFails
             \/ Aborts \/ Kill
  BY <1>2, <1>3, <1>9 DEF Serialize, OpenOutput, WriteOutput, CloseOutput, CallFails,
                          Aborts, Kill, Fail, Quit, Destroyed, tabs
<1> QED BY <1>4, <1>5, <1>6, <1>7, <1>8, <1>9 DEF Next

(* Segments are always aligned to powers of two.                           *)
AlignInv == Aligned(phdrs)

(* construct_appended_ptload_phdr keeps what validate_pt_load_phdr wants.  *)
THEOREM AlignmentIsKept == Spec => []AlignInv
<1>1. Init => AlignInv BY DEF Init, AlignInv, Aligned, IndicesOf
<1>2. TypeInv /\ FootInv /\ AlignInv /\ [Next]_vars => AlignInv'
  BY NextAligned DEF AlignInv
<1> QED BY <1>1, <1>2, TypesAreRight, FootprintHolds, PTL DEF Spec

-----------------------------------------------------------------------------
(* What read_validate_phdrs asks of one header of the output.              *)
HeaderAccepted(i) ==
  /\ ValidPhdrExtent(size, phdrs[i])
  /\ phdrs[i].type = "LOAD" => ValidLoad(phdrs, i)
  /\ phdrs[i].type = "INTERP" => ValidInterp(buf, phdrs, i)
  /\ phdrs[i].type = "PHDR" => ValidPtPhdr(ehdr, phdrs, i)
  /\ phdrs[i].type \in {"PHDR", "DYNAMIC"} => InSomeLoad(phdrs, phdrs[i])

(* The appended segments are in the file and behind the others.            *)
LEMMA AppendedAccepted ==
  ASSUME Final, AlignInv, NEW i \in 1 .. Len(phdrs), NEW content \in Nat,
         Holds(phdrs[i], content), Behind(phdrs, i),
         phdrs[i].offset + content <= size
  PROVE  HeaderAccepted(i)
<1> DEFINE p == phdrs[i]
<1>1. p \in Phdr /\ size \in Nat /\ MaxU \in Nat /\ phdrs \in Seq(Phdr)
  BY FinalTypes, WidthAssumption
<1>2. /\ p.offset \in Nat /\ p.vaddr \in Nat /\ p.filesz \in Nat /\ p.memsz \in Nat
      /\ p.align \in Nat
  BY <1>1, PhdrFields
<1>3. /\ p.type = "LOAD" /\ p.filesz = content /\ content <= p.memsz /\ 0 < content
      /\ p.offset % p.align = 0 /\ p.vaddr % p.align = 0
  BY DEF Holds
<1>4. i \in IndicesOf(phdrs, "LOAD") BY <1>3 DEF IndicesOf
<1>5. p.vaddr + p.memsz <= MaxU BY <1>4 DEF Final, TypeInv, Shape, LoadsInRange
<1>6. ValidPhdrExtent(size, p)
  <2>1. p.offset + content <= size OBVIOUS
  <2> HIDE DEF p
  <2>2. p.offset < size /\ p.filesz <= size - p.offset /\ p.vaddr <= MaxU - p.memsz
    BY <1>1, <1>2, <1>3, <1>5, <2>1
  <2> QED BY <2>2 DEF ValidPhdrExtent
<1>7. ValidLoad(phdrs, i)
  <2>1. ASSUME NEW j \in 1 .. i - 1, phdrs[j].type = "LOAD"
        PROVE  phdrs[j].vaddr <= p.vaddr
    <3>1. j \in 1 .. Len(phdrs) /\ j < i BY <1>1
    <3>2. j \in IndicesOf(phdrs, "LOAD") BY <2>1, <3>1 DEF IndicesOf
    <3>3. phdrs[j].vaddr + phdrs[j].memsz <= p.vaddr BY <3>1, <3>2 DEF Behind
    <3>4. phdrs[j] \in Phdr BY <1>1, <3>1
    <3>5. phdrs[j].vaddr \in Nat /\ phdrs[j].memsz \in Nat BY <3>4, PhdrFields
    <3> HIDE DEF p
    <3> QED BY <1>2, <3>3, <3>5
  <2>2. p.align > 1 => IsPow2(p.align) BY <1>4 DEF AlignInv, Aligned
  <2>3. p.align > 1 => (p.vaddr - p.offset) % p.align = 0
    <3>1. p.align > 1 => p.align \in Nat \ {0} BY <1>2
    <3> HIDE DEF p
    <3> QED BY <1>2, <1>3, <3>1, MultiplesDiffer
  <2> QED BY <1>3, <2>1, <2>2, <2>3 DEF ValidLoad
<1> QED BY <1>3, <1>6, <1>7 DEF HeaderAccepted

(* The new segments.                                                       *)
LEMMA SegmentsAccepted ==
  ASSUME Final, AlignInv, NEW i \in 1 .. Len(phdrs),
         i = m.ro \/ (m.move /\ i = m.rw)
  PROVE  HeaderAccepted(i)
<1>1. m.newPhsize \in Nat /\ m.newDynstrSz \in Nat /\ m.newDynSz \in Nat
  BY FinalTypes, Naturals64 DEF Mods
<1>2. CASE i = m.ro
  <2>1. Holds(phdrs[i], m.newPhsize + m.newDynstrSz) /\ Behind(phdrs, i)
    BY <1>2, FinalTable DEF RoPlaced, Placed
  <2>2. m.newPhsize + m.newDynstrSz \in Nat BY <1>1
  <2>3. phdrs[i].offset + (m.newPhsize + m.newDynstrSz) <= size
    <3>1. (phdrs[i].offset + m.newPhsize) + m.newDynstrSz <= size
      BY <1>2, FinalPlaces DEF NewDynstrOff
    <3>2. phdrs[i] \in Phdr BY FinalTypes
    <3>3. phdrs[i].offset \in Nat BY <3>2, PhdrFields
    <3> QED BY <1>1, <3>1, <3>3
  <2> QED BY <2>1, <2>2, <2>3, AppendedAccepted
<1>3. CASE m.move /\ i = m.rw
  <2>1. Holds(phdrs[i], m.newDynSz) /\ Behind(phdrs, i)
    BY <1>3, FinalTable DEF RwPlaced, Placed
  <2>2. phdrs[i].offset + m.newDynSz <= size
    <3>1. /\ phdrs[dyn.phdr].offset = phdrs[i].offset
          /\ phdrs[dyn.phdr].filesz = m.newDynSz
      BY <1>3, FinalTypes DEF Final, Plan, Tables, DynPlace
    <3>2. InBounds(phdrs[i].offset, m.newDynSz, size)
      BY <3>1, FinalTypes, TablesFit DEF Final, Footprint
    <3>3. phdrs[i] \in Phdr /\ size \in Nat BY FinalTypes
    <3>4. phdrs[i].offset \in Nat BY <3>3, PhdrFields
    <3> QED BY <1>1, <3>2, <3>3, <3>4 DEF InBounds
  <2> QED BY <1>1, <2>1, <2>2, AppendedAccepted
<1> QED BY <1>2, <1>3

(* No segment comes before a header that none came before.                 *)
LEMMA StillNoLoadBefore ==
  ASSUME Final, NEW i \in 1 .. Len(PhdrsOf(src.buf)), NoLoadBefore(PhdrsOf(src.buf), i)
  PROVE  NoLoadBefore(phdrs, i)
<1> DEFINE old == PhdrsOf(src.buf)
<1>1. Len(old) \in Nat /\ \A j \in 1 .. Len(old) : phdrs[j].type = old[j].type
  BY FinalTable
<1>2. \A j \in 1 .. i - 1 : j \in 1 .. Len(old) BY <1>1
<1> QED BY <1>1, <1>2 DEF NoLoadBefore

(* The segments and the other headers of the input.                        *)
LEMMA OldAccepted ==
  ASSUME Final, NEW i \in 1 .. Len(PhdrsOf(src.buf)),
         PhdrsOf(src.buf)[i].type \notin {"PHDR", "DYNAMIC"}
  PROVE  HeaderAccepted(i)
<1> DEFINE old == PhdrsOf(src.buf)
           p   == old[i]
<1>1. /\ old \in Seq(Phdr) /\ Len(old) \in Nat
      /\ \A j \in 1 .. Len(old) : /\ phdrs[j].type = old[j].type
                                  /\ old[j].type = "LOAD" => phdrs[j] = old[j]
  BY FinalTable
<1>2. phdrs[i] = p BY DEF Final, Memory, OldHeaders
<1>3. /\ ValidPhdrExtent(src.size, p)
      /\ p.type = "LOAD" => ValidLoad(old, i)
      /\ p.type = "INTERP" => ValidInterp(src.buf, old, i)
  BY FinalTypes DEF ParseElf, ValidPhdrs
<1>4. p \in Phdr /\ src.size \in Nat /\ size \in Nat /\ src.size <= size
  BY <1>1, FinalTypes
<1>5. p.offset \in Nat /\ p.filesz \in Nat BY <1>4, PhdrFields
<1>6. ValidPhdrExtent(size, p)
  <2> HIDE DEF p
  <2> QED BY <1>3, <1>4, <1>5 DEF ValidPhdrExtent
<1>7. p.type = "LOAD" => ValidLoad(phdrs, i)
  <2> SUFFICES ASSUME p.type = "LOAD" PROVE ValidLoad(phdrs, i) OBVIOUS
  <2>1. ValidLoad(old, i) BY <1>3
  <2>2. \A j \in 1 .. i - 1 : j \in 1 .. Len(old) BY <1>1
  <2>3. \A j \in 1 .. i - 1 : phdrs[j].type = "LOAD" => phdrs[j] = old[j]
    BY <1>1, <2>2
  <2>4. \A j \in 1 .. i - 1 : phdrs[j].type = "LOAD" => old[j].type = "LOAD"
    BY <1>1, <2>2
  <2>5. \A j \in 1 .. i - 1 : phdrs[j].type = "LOAD" => phdrs[j].vaddr <= phdrs[i].vaddr
    BY <1>2, <2>1, <2>3, <2>4 DEF ValidLoad
  <2> QED BY <1>2, <2>1, <2>5 DEF ValidLoad
<1>8. p.type = "INTERP" => ValidInterp(buf, phdrs, i)
  <2> SUFFICES ASSUME p.type = "INTERP" PROVE ValidInterp(buf, phdrs, i) OBVIOUS
  <2>1. /\ NoLoadBefore(old, i) /\ p.filesz >= 1
        /\ src.buf[p.offset + p.filesz - 1] = Zero
    BY <1>3 DEF ValidInterp
  <2> DEFINE r == <<p.offset, p.filesz>>
             k == p.offset + p.filesz - 1
  <2>2. r \in OnlyRead(src.buf) BY DEF OnlyRead, IndicesOf
  <2>3. r[1] = p.offset /\ r[2] = p.filesz OBVIOUS
  <2>4. p.filesz <= src.size - p.offset /\ p.offset < src.size BY <1>3 DEF ValidPhdrExtent
  <2> HIDE DEF r, p
  <2>5. /\ r[1] \in Nat /\ r[2] \in Nat /\ r[1] + r[2] <= src.size
        /\ k \in Nat /\ Within(k, r)
    BY <1>4, <1>5, <2>1, <2>3, <2>4 DEF Within
  <2> HIDE DEF k
  <2>6. buf[k] = src.buf[k] BY <2>2, <2>5, OnlyReadKept
  <2>7. NoLoadBefore(phdrs, i) BY <2>1, StillNoLoadBefore
  <2> QED BY <1>2, <2>1, <2>6, <2>7 DEF ValidInterp, k
<1> QED BY <1>2, <1>6, <1>7, <1>8 DEF HeaderAccepted

(* PT_PHDR, over the program headers in their new place.                   *)
LEMMA PtPhdrAccepted ==
  ASSUME Final, NEW i \in 1 .. Len(PhdrsOf(src.buf)),
         PhdrsOf(src.buf)[i].type = "PHDR"
  PROVE  HeaderAccepted(i)
<1> DEFINE old == PhdrsOf(src.buf)
           p   == phdrs[i]
           ro  == phdrs[m.ro]
           len == Len(phdrs) * PhEnt
<1>1. /\ p.type = "PHDR" /\ p.offset = ehdr.phoff /\ p.vaddr = ro.vaddr
      /\ p.filesz = len /\ p.memsz = len
  BY FinalTypes, FinalTable DEF Final, Memory, OldHeaders
<1>2. /\ m.ro \in 1 .. Len(phdrs) /\ ro \in Phdr
      /\ Holds(ro, m.newPhsize + m.newDynstrSz) /\ Behind(phdrs, m.ro)
  BY FinalTypes, FinalTable DEF RoPlaced, Placed
<1>3. /\ m.newPhsize \in Nat /\ m.newDynstrSz \in Nat /\ ro.vaddr \in Nat /\ ro.memsz \in Nat
  BY <1>2, FinalTypes, Naturals64, PhdrFields DEF Mods
<1>4. len = m.newPhsize
  <2>1. m.newPhsize = (Len(phdrs) + Pending) * PhEnt /\ Pending = 0
    BY FinalTypes DEF Final, Plan, Sizes, Pending, Filled
  <2>2. Len(phdrs) + 0 = Len(phdrs) BY FinalTypes
  <2> QED BY <2>1, <2>2
<1>5. 0 < len
  <2>1. Len(phdrs) \in Nat /\ 1 <= Len(phdrs) BY <1>2, FinalTypes
  <2>2. 1 * PhEnt <= Len(phdrs) * PhEnt
    <3> DEFINE n == Len(phdrs)
    <3> HIDE DEF n
    <3> QED BY <2>1, ProductMonotone, SizeAssumption DEF n
  <2>3. 1 * PhEnt = PhEnt /\ 0 < PhEnt /\ PhEnt \in Nat /\ len \in Nat
    BY SizeAssumption, FinalPlaces
  <2> HIDE DEF len
  <2> QED BY <2>2, <2>3 DEF len
<1>6. m.newPhsize + m.newDynstrSz <= ro.memsz /\ ro.vaddr + ro.memsz <= MaxU
  <2>1. ro.type = "LOAD" /\ m.newPhsize + m.newDynstrSz <= ro.memsz BY <1>2 DEF Holds
  <2>2. m.ro \in IndicesOf(phdrs, "LOAD") BY <1>2, <2>1 DEF IndicesOf
  <2> QED BY <2>1, <2>2 DEF Final, TypeInv, Shape, LoadsInRange
<1>7. ValidPhdrExtent(size, p)
  <2>1. InBounds(ehdr.phoff, len, size) BY FinalTypes, TablesFit DEF Final
  <2>2. ehdr.phoff \in Nat /\ size \in Nat /\ MaxU \in Nat
    BY FinalPlaces, FinalTypes, WidthAssumption
  <2> HIDE DEF len, p, ro
  <2>3. ehdr.phoff < size /\ len <= size - ehdr.phoff
    BY <1>3, <1>4, <1>5, <2>1, <2>2 DEF InBounds
  <2>4. ro.vaddr <= MaxU - len BY <1>3, <1>4, <1>6, <2>2
  <2> QED BY <1>1, <2>3, <2>4 DEF ValidPhdrExtent
<1>8. ValidPtPhdr(ehdr, phdrs, i)
  <2>1. NoLoadBefore(old, i) BY FinalTypes DEF ParseElf, ValidPhdrs, ValidPtPhdr
  <2>2. NoLoadBefore(phdrs, i) BY <2>1, StillNoLoadBefore
  <2> QED BY <1>1, <2>2 DEF ValidPtPhdr
<1>9. InSomeLoad(phdrs, p)
  <2> DEFINE content == m.newPhsize + m.newDynstrSz
             k == m.ro
  <2>1. TypeInv /\ k \in 1 .. Len(phdrs) /\ Holds(phdrs[k], content) /\ Behind(phdrs, k)
    BY <1>2 DEF Final
  <2>2. content \in Nat /\ len \in Nat /\ 0 < len /\ len <= content
    BY <1>3, <1>4, <1>5
  <2> HIDE DEF content, len, k
  <2>3. ContainingMemPtload(phdrs, phdrs[k].vaddr, len) = k
    BY ONLY <2>1, <2>2, FoundAtStart, ZenonT(60)
  <2>4. k # 0 BY <2>1
  <2> QED BY <1>1, <2>3, <2>4 DEF InSomeLoad, k
<1> QED BY <1>1, <1>7, <1>8, <1>9 DEF HeaderAccepted

(* PT_DYNAMIC, over the dynamic table.                                     *)
LEMMA PtDynamicAccepted ==
  ASSUME Final
  PROVE  HeaderAccepted(dyn.phdr)
<1> DEFINE old == PhdrsOf(src.buf)
           d   == dyn.phdr
           p   == phdrs[d]
<1>1. /\ old \in Seq(Phdr) /\ d \in 1 .. Len(old) /\ p.type = "DYNAMIC"
      /\ old[d].type = "DYNAMIC"
  BY FinalTable
<1>2. size \in Nat /\ src.size \in Nat /\ src.size <= size /\ MaxU \in Nat
  BY FinalTypes, WidthAssumption
<1>3. CASE m.move
  <2> DEFINE rw  == phdrs[m.rw]
             len == m.newDynSz
             k   == m.rw
  <2>1. /\ k \in 1 .. Len(phdrs) /\ rw \in Phdr /\ Holds(rw, len) /\ Behind(phdrs, k)
        /\ p.offset = rw.offset /\ p.vaddr = rw.vaddr /\ p.filesz = len /\ p.memsz = len
    BY <1>3, FinalTypes, FinalTable DEF Final, Plan, Tables, DynPlace, RwPlaced, Placed
  <2>2. /\ len \in Nat /\ rw.vaddr \in Nat /\ rw.memsz \in Nat /\ rw.offset \in Nat
        /\ 0 < len /\ len <= rw.memsz /\ rw.type = "LOAD"
    BY <2>1, FinalTypes, Naturals64, PhdrFields DEF Mods, Holds
  <2>3. rw.vaddr + rw.memsz <= MaxU
    <3>1. k \in IndicesOf(phdrs, "LOAD") BY <2>1, <2>2 DEF IndicesOf
    <3> QED BY <3>1 DEF Final, TypeInv, Shape, LoadsInRange
  <2>4. ValidPhdrExtent(size, p)
    <3>1. InBounds(rw.offset, len, size)
      BY <2>1, FinalTypes, TablesFit DEF Final, Footprint
    <3> HIDE DEF p, rw, len
    <3>2. rw.offset < size /\ len <= size - rw.offset /\ rw.vaddr <= MaxU - len
      BY <1>2, <2>2, <2>3, <3>1 DEF InBounds
    <3> QED BY <2>1, <3>2 DEF ValidPhdrExtent
  <2>5. InSomeLoad(phdrs, p)
    <3>1. TypeInv /\ len <= len BY <2>2 DEF Final
    <3>2. Holds(phdrs[k], len) BY <2>1
    <3> HIDE DEF len, k
    <3>3. ContainingMemPtload(phdrs, phdrs[k].vaddr, len) = k
      BY ONLY <2>1, <2>2, <3>1, <3>2, FoundAtStart, ZenonT(60)
    <3>4. k # 0 BY <2>1
    <3> QED BY <2>1, <3>3, <3>4 DEF InSomeLoad, k
  <2> QED BY <1>1, <2>4, <2>5 DEF HeaderAccepted
<1>4. CASE ~m.move
  <2>1. p = old[d] BY <1>4 DEF Final, Plan, Tables, DynPlace
  <2>2. ValidPhdrExtent(src.size, old[d]) /\ InSomeLoad(old, old[d])
    BY <1>1, FinalTypes DEF ParseElf, ValidPhdrs
  <2>3. old[d] \in Phdr BY <1>1
  <2>4. old[d].offset \in Nat /\ old[d].filesz \in Nat BY <2>3, PhdrFields
  <2>5. ValidPhdrExtent(size, old[d])
    <3> DEFINE q == old[d]
    <3>1. q.offset \in Nat /\ q.filesz \in Nat /\ ValidPhdrExtent(src.size, q)
      BY <2>2, <2>4
    <3> HIDE DEF q
    <3>2. ValidPhdrExtent(size, q) BY <1>2, <3>1 DEF ValidPhdrExtent
    <3> QED BY <3>2 DEF q
  <2>6. InSomeLoad(phdrs, old[d]) BY <2>2, StillContained DEF InSomeLoad
  <2> QED BY <1>1, <2>1, <2>5, <2>6 DEF HeaderAccepted
<1> QED BY <1>3, <1>4

(* read_validate_phdrs accepts the program headers.                        *)
LEMMA FinalPhdrsValid ==
  ASSUME Final, AlignInv
  PROVE  ValidPhdrs(buf, size)
<1> DEFINE old == PhdrsOf(src.buf)
<1>1. /\ PhdrsOf(buf) = phdrs /\ ValidPhdrTable(buf, size) /\ EhdrOf(buf) = ehdr
  BY FinalPhdrs, FinalEhdr
<1>2. ASSUME NEW i \in 1 .. Len(phdrs) PROVE HeaderAccepted(i)
  <2>1. i \in 1 .. Len(old) \/ i = m.ro \/ (m.move /\ i = m.rw) BY FinalTable
  <2>2. CASE i \notin 1 .. Len(old) BY <2>1, <2>2, SegmentsAccepted
  <2>3. CASE i \in 1 .. Len(old)
    <3>1. CASE old[i].type \notin {"PHDR", "DYNAMIC"} BY <2>3, <3>1, OldAccepted
    <3>2. CASE old[i].type = "PHDR" BY <2>3, <3>2, PtPhdrAccepted
    <3>3. CASE old[i].type = "DYNAMIC"
      <4>1. dyn.phdr \in 1 .. Len(old) /\ old[dyn.phdr].type = "DYNAMIC" BY FinalTable
      <4>2. ~DuplicatePhdr(old, "DYNAMIC") BY FinalTypes DEF ParseElf, ValidPhdrs
      <4>3. i = dyn.phdr BY <2>3, <3>3, <4>1, <4>2 DEF DuplicatePhdr, IndicesOf
      <4> QED BY <4>3, PtDynamicAccepted
    <3> QED BY <3>1, <3>2, <3>3
  <2> QED BY <2>2, <2>3
<1>3. \A t \in {"PHDR", "INTERP", "DYNAMIC"} : ~DuplicatePhdr(phdrs, t)
  <2> TAKE t \in {"PHDR", "INTERP", "DYNAMIC"}
  <2>1. ~DuplicatePhdr(old, t) BY FinalTypes DEF ParseElf, ValidPhdrs
  <2>2. IndicesOf(phdrs, t) = IndicesOf(old, t) BY FinalKinds
  <2> QED BY <2>1, <2>2 DEF DuplicatePhdr
<1> QED BY <1>1, <1>2, <1>3 DEF ValidPhdrs, HeaderAccepted

-----------------------------------------------------------------------------
(* parse_elf accepts the serialized data of a tidy file.                   *)
LEMMA FinalParses ==
  ASSUME Final, FewImports, AlignInv
  PROVE  ParseElf(buf, size)
<1>1. ReadableEhdr(buf, size) /\ EhdrOf(buf) = ehdr BY FinalEhdr
<1>2. ValidEhdr(ehdr) BY FinalEhdrValid
<1>3. ValidShdrs(buf, size) BY FinalShdrsValid
<1>4. ValidPhdrs(buf, size) BY FinalPhdrsValid
<1>5. PhdrsOf(buf) = phdrs /\ PtDynamic(buf) = dyn.phdr /\ ShdrsOf(buf) = shdrs
  BY FinalPhdrs, FinalShdrs
<1>6. ValidPtDynamic(phdrs, dyn.phdr) /\ ValidShtDynamic(shdrs, phdrs[dyn.phdr])
  BY FinalPtDynamic, FinalShtDynamic
<1>7. /\ ValidDynTable(buf) /\ HasUniqueDyn(DynEntriesOf(buf), "STRTAB")
      /\ HasUniqueDyn(DynEntriesOf(buf), "STRSZ")
  BY FinalDyn, FinalStrtabEntries
<1>8. ValidStrtab(buf)
  <2>1. StrtabOf(buf) = strtab /\ ValidStrtabAt(buf, phdrs, shdrs, strtab)
    BY FinalStrtab, FinalStrtabValid
  <2> QED BY <1>5, <2>1 DEF ValidStrtab
<1>9. ValidDynamic(buf) BY <1>5, <1>6, <1>7, <1>8 DEF ValidDynamic
<1> QED BY <1>1, <1>2, <1>3, <1>4, <1>9 DEF ParseElf

(* After serialize_elf of a tidy file the invariants make it final.        *)
LEMMA ReachedFinal ==
  ASSUME TypeInv, FootInv, PlanInv, HeaderInv, MemInv, BytesInv,
         pc \in {"check", "open", "write", "close"}, Tidy(src.buf)
  PROVE  Final
<1>1. Loaded /\ InData BY DEF Loaded, InData, Filled
<1> QED BY <1>1 DEF Final, FootInv, PlanInv, HeaderInv, MemInv, BytesInv, Bytes

(* The data holds what the structures in memory say: every table that      *)
(* changed was marked and written, at the place where a parser will look   *)
(* for it, and none of them over another one.                              *)
THEOREM SerializedInSync ==
  ASSUME FewImports
  PROVE  Spec => []DataInSync
<1>1. TypeInv /\ FootInv /\ PlanInv /\ HeaderInv /\ MemInv /\ BytesInv => DataInSync
  <2> SUFFICES ASSUME TypeInv, FootInv, PlanInv, HeaderInv, MemInv, BytesInv,
                      pc \in {"check", "open", "write", "close"}, Tidy(src.buf)
               PROVE  /\ ReadableEhdr(buf, size) /\ EhdrOf(buf) = ehdr
                      /\ ValidShdrTable(buf, size) /\ ShdrsOf(buf) = shdrs
                      /\ ValidPhdrTable(buf, size) /\ PhdrsOf(buf) = phdrs
                      /\ ValidDynTable(buf) /\ DynEntriesOf(buf) = dyn.entries
                      /\ StrtabOf(buf) = strtab
    BY DEF DataInSync
  <2>1. Final BY ReachedFinal
  <2> QED BY <2>1, FinalEhdr, FinalShdrs, FinalPhdrs, FinalDyn, FinalStrtab
<1> QED BY <1>1, TypesAreRight, FootprintHolds, PlanIsKept, HeadersAreKept,
           MemoryIsKept, BytesAreKept, PTL

(* A tidy file is never turned into one in which the parser refuses        *)
(* anything that ParseElf speaks of: the sanity check of main can then     *)
(* fail only for want of memory, or by parse_dynsym, which ParseElf leaves *)
(* out.                                                                    *)
THEOREM TidyAccepted ==
  ASSUME FewImports
  PROVE  Spec => []TidyOutputParses
<1>1. TypeInv /\ FootInv /\ PlanInv /\ HeaderInv /\ MemInv /\ BytesInv /\ AlignInv
        => TidyOutputParses
  BY ReachedFinal, FinalParses DEF TidyOutputParses
<1> QED BY <1>1, TypesAreRight, FootprintHolds, PlanIsKept, HeadersAreKept,
           MemoryIsKept, BytesAreKept, AlignmentIsKept, PTL

-----------------------------------------------------------------------------
(* A string of len characters is at v of a string table that starts at at. *)
StringHas(b, at, n, v, len) ==
  /\ v + len < n
  /\ b[at + v + len] = Zero
  /\ \A k \in 0 .. len - 1 : b[at + v + k] # Zero

Characters(b, at, v, len) == [k \in 0 .. len - 1 |-> b[at + v + k]]

(* It is what a reader of the table finds there.                           *)
LEMMA StringRead ==
  ASSUME NEW b, NEW t, t.size \in Nat, NEW v \in Nat, NEW len \in Nat,
         StringHas(b, t.off, t.size, v, len)
  PROVE  StringAt(b, t, v) = Characters(b, t.off, v, len)
<1> DEFINE n == t.size
           S == {k \in 0 .. n - v : v + k >= n \/ b[t.off + v + k] = Zero}
<1>1. v + len < n /\ b[t.off + v + len] = Zero
      /\ \A k \in 0 .. len - 1 : b[t.off + v + k] # Zero
  BY DEF StringHas
<1>2. S \in SUBSET Nat BY DEF n
<1>3. n \in Nat BY DEF n
<1> HIDE DEF n
<1>4. len \in 0 .. n - v BY <1>1, <1>3
<1>5. len \in S BY <1>1, <1>4
<1>6. \A k \in S : len <= k
  <2> SUFFICES ASSUME NEW k \in S, k < len PROVE FALSE BY <1>2
  <2>1. k \in 0 .. len - 1 /\ k \in Nat BY <1>2
  <2>2. v + k < n BY <2>1, <1>1, <1>3
  <2>3. b[t.off + v + k] # Zero BY <2>1, <1>1
  <2> QED BY <2>1, <2>2, <2>3, <1>3
<1> HIDE DEF S
<1>7. Min(S) \in S /\ \A y \in S : Min(S) <= y BY <1>2, <1>5, MinProperty
<1>8. Min(S) = len
  <2>1. Min(S) <= len /\ len <= Min(S) BY <1>5, <1>6, <1>7
  <2>2. Min(S) \in Nat BY <1>2, <1>7
  <2> QED BY <2>1, <2>2
<1>9. StringAt(b, t, v) = [k \in 0 .. Min(S) - 1 |-> b[t.off + v + k]]
  BY DEF StringAt, S, n
<1> QED BY <1>8, <1>9 DEF Characters

(* In a table that ends with a terminator, every string has an end.        *)
LEMMA StringEnds ==
  ASSUME NEW b, NEW at \in Nat, NEW n \in Nat, NEW v \in Nat, v < n,
         b[at + n - 1] = Zero
  PROVE  \E len \in Nat : StringHas(b, at, n, v, len)
<1> DEFINE S == {k \in 0 .. n - 1 - v : b[at + v + k] = Zero}
           len == Min(S)
<1>1. S \in SUBSET Nat OBVIOUS
<1>2. n - 1 - v \in S
  <2>1. n - 1 - v \in 0 .. n - 1 - v OBVIOUS
  <2>2. at + v + (n - 1 - v) = at + n - 1 OBVIOUS
  <2> QED BY <2>1, <2>2
<1>3. \A k \in 0 .. n - 1 - v : k \in S <=> b[at + v + k] = Zero OBVIOUS
<1>4. S \subseteq 0 .. n - 1 - v OBVIOUS
<1> HIDE DEF S
<1>5. len \in S /\ \A y \in S : len <= y BY <1>1, <1>2, MinProperty
<1> HIDE DEF len
<1>6. len \in 0 .. n - 1 - v /\ b[at + v + len] = Zero BY <1>3, <1>4, <1>5
<1>7. \A k \in 0 .. len - 1 : b[at + v + k] # Zero
  <2> SUFFICES ASSUME NEW k \in 0 .. len - 1, b[at + v + k] = Zero PROVE FALSE OBVIOUS
  <2>1. k \in 0 .. n - 1 - v BY <1>6
  <2>2. k \in S BY <2>1, <1>3
  <2> QED BY <2>2, <1>5, <1>6
<1>8. len \in Nat /\ v + len < n BY <1>6
<1> QED BY <1>6, <1>7, <1>8 DEF StringHas

(* A name that the input's table holds has the same characters in the      *)
(* table that was copied and grown.                                        *)
LEMMA CopiedString ==
  ASSUME NEW w, NEW t, NEW b, NEW u, NEW v \in Nat,
         t.size \in Nat, u.size \in Nat, u.off \in Nat, t.off \in Nat,
         v < u.size, u.size <= t.size,
         b[u.off + u.size - 1] = Zero,
         \A k \in 0 .. u.size - 1 : w[t.off + k] = b[u.off + k]
  PROVE  StringAt(w, t, v) = StringAt(b, u, v)
<1> DEFINE n == u.size
           at == u.off
           to == t.off
           N  == t.size
<1>1. /\ n \in Nat /\ at \in Nat /\ to \in Nat /\ N \in Nat /\ v < n /\ n <= N
      /\ b[at + n - 1] = Zero /\ \A k \in 0 .. n - 1 : w[to + k] = b[at + k]
  OBVIOUS
<1> HIDE DEF n, at, to, N
<1>2. PICK len \in Nat : StringHas(b, at, n, v, len) BY <1>1, StringEnds
<1>3. \A k \in 0 .. len : w[to + v + k] = b[at + v + k]
  <2> SUFFICES ASSUME NEW k \in 0 .. len PROVE w[to + v + k] = b[at + v + k] OBVIOUS
  <2>1. v + k \in 0 .. n - 1 BY <1>1, <1>2 DEF StringHas
  <2>2. to + v + k = to + (v + k) /\ at + v + k = at + (v + k) BY <1>1
  <2> QED BY <1>1, <2>1, <2>2
<1>4. StringHas(w, to, N, v, len)
  <2>1. /\ v + len < n /\ b[at + v + len] = Zero
        /\ \A k \in 0 .. len - 1 : b[at + v + k] # Zero
    BY <1>2 DEF StringHas
  <2>2. v + len < N BY <2>1, <1>1
  <2>3. \A k \in 0 .. len - 1 : k \in 0 .. len OBVIOUS
  <2>4. len \in 0 .. len OBVIOUS
  <2> QED BY <1>3, <2>1, <2>2, <2>3, <2>4 DEF StringHas
<1>5. StringAt(b, u, v) = Characters(b, at, v, len)
  BY <1>1, <1>2, StringRead DEF at, n
<1>6. StringAt(w, t, v) = Characters(w, to, v, len)
  BY <1>1, <1>4, StringRead DEF to, N
<1>7. Characters(w, to, v, len) = Characters(b, at, v, len)
  BY <1>3 DEF Characters
<1> QED BY <1>5, <1>6, <1>7

(* The name of an import, where add_new_dynamic_entries lets it be found.  *)
LEMMA ImportedString ==
  ASSUME NEW w, NEW t, NEW b, NEW from, NEW old \in Nat,
         t.size \in Nat, t.off \in Nat,
         t.size = StrOffset(old)[Len(Imports) + 1],
         StringsAt(w, t.off, b, from, old), NEW s \in 1 .. Len(Imports)
  PROVE  StringAt(w, t, StrOffset(old)[s]) = ImportString(s)
<1> DEFINE o   == StrOffset(old)
           N   == Len(Imports)
           len == NameLen[Imports[s]]
           v   == o[s]
           at  == t.off
<1>1. /\ N \in Nat
      /\ \A i \in 1 .. N + 1 : o[i] \in Nat
      /\ \A i \in 1 .. N : NameLen[Imports[i]] \in Nat
      /\ \A i \in 1 .. N : \A j \in i + 1 .. N + 1 : o[i] + NameLen[Imports[i]] < o[j]
  BY OffsetsGrow, ImportCount
<1>2. /\ \A k \in 0 .. len - 1 : w[at + o[s] + k] = <<"chr", Imports[s], k>>
      /\ w[at + o[s] + len] = Zero
  BY DEF StringsAt
<1>3. v \in Nat /\ len \in Nat /\ v + len < t.size
  <2>1. N + 1 \in s + 1 .. N + 1 /\ s \in 1 .. N + 1 BY <1>1
  <2>2. v \in Nat BY <1>1, <2>1
  <2>3. o[s] + NameLen[Imports[s]] < o[N + 1] BY <1>1, <2>1
  <2> QED BY <1>1, <2>2, <2>3
<1> HIDE DEF o, len
<1>4. \A k \in 0 .. len - 1 : w[at + v + k] # Zero
  <2> SUFFICES ASSUME NEW k \in 0 .. len - 1 PROVE w[at + v + k] # Zero OBVIOUS
  <2>1. w[at + v + k][1] = "chr" BY <1>2
  <2>2. Zero[1] = "zero" BY DEF Zero
  <2> QED BY <2>1, <2>2
<1>5. StringHas(w, at, t.size, v, len) BY <1>2, <1>3, <1>4 DEF StringHas
<1>6. StringAt(w, t, v) = Characters(w, at, v, len) BY <1>3, <1>5, StringRead
<1>7. Characters(w, at, v, len) = [k \in 0 .. len - 1 |-> <<"chr", Imports[s], k>>]
  BY <1>2 DEF Characters
<1> QED BY <1>6, <1>7 DEF ImportString, len, o

-----------------------------------------------------------------------------
(* The string table of a tidy file's output: the old strings, with those   *)
(* of the imports behind them.                                             *)
LEMMA FinalStrings ==
  ASSUME Final
  PROVE  LET st == StrtabOf(src.buf) IN
         /\ StringsAt(buf, strtab.off, src.buf, st.off, st.size)
         /\ st.off \in Nat /\ st.size \in Nat /\ 0 < st.size
         /\ src.buf[st.off + st.size - 1] = Zero
         /\ strtab.off \in Nat /\ strtab.size \in Nat /\ st.size <= strtab.size
         /\ strtab.size = Offsets[Len(Imports) + 1]
<1> DEFINE st == StrtabOf(src.buf)
<1>1. /\ strtab.off = NewDynstrOff /\ strtab.size = m.newDynstrSz
      /\ NewDynstrOff \in Nat /\ m.newDynstrSz \in Nat
  <2> DEFINE x == StrtabOf(src.buf).shdr
  <2>1. /\ strtab = [vaddr |-> NewDynstrVaddr, off |-> NewDynstrOff,
                     size |-> m.newDynstrSz, shdr |-> x]
        /\ NewDynstrOff \in Nat /\ m.newDynstrSz \in Nat
    BY FinalDynstr
  <2> HIDE DEF x
  <2> QED BY <2>1
<1>2. StringsAt(buf, NewDynstrOff, src.buf, st.off, st.size)
  BY FinalTypes DEF Final, Copied
<1>3. st.off \in Nat /\ st.size \in Nat BY FinalTypes, StrtabType, Naturals64
<1>4. 0 < st.size /\ src.buf[st.off + st.size - 1] = Zero
  <2>1. st.size # 0 /\ src.buf[st.off + st.size - 1] = Zero
    BY FinalTypes DEF ParseElf, ValidDynamic, ValidStrtab, ValidStrtabAt
  <2> HIDE DEF st
  <2> QED BY <1>3, <2>1
<1>5. m.newDynstrSz = Offsets[Len(Imports) + 1]
  BY FinalTypes DEF Final, Memory, StringTable, Filled
<1>6. st.size <= Offsets[Len(Imports) + 1]
  <2>1. \A i \in 1 .. Len(Imports) + 1 : st.size <= Offsets[i]
    BY <1>3, OffsetsGrow DEF Offsets
  <2>2. Len(Imports) + 1 \in 1 .. Len(Imports) + 1 BY ImportCount
  <2> QED BY <2>1, <2>2
<1> QED BY <1>1, <1>2, <1>3, <1>4, <1>5, <1>6

(* The output names what the input named, and the imports.                 *)
LEMMA FinalImports ==
  ASSUME Final, FewImports
  PROVE  ImportsAdded(src.buf, buf)
<1> DEFINE es == DynEntriesOf(src.buf)
           fs == dyn.entries
           k  == FirstNull(es)
           N  == Len(Imports)
           st == StrtabOf(src.buf)
<1>1. DynEntriesOf(buf) = fs /\ StrtabOf(buf) = strtab BY FinalDyn, FinalStrtab
<1>2. /\ es \in Seq(Dyn) /\ k <= Len(es) /\ Len(es) \in Nat
      /\ EndsAt(fs, k + N) /\ k \in Nat
      /\ \A i \in 1 .. k - 1 :
           /\ fs[i].tag = es[i].tag
           /\ es[i].tag \notin {"STRTAB", "STRSZ"} => fs[i] = es[i]
      /\ \A i \in 1 .. N : fs[k + i - 1] = [tag |-> "NEEDED", val |-> Offsets[i]]
  BY FinalEntries
<1>3. /\ StringsAt(buf, strtab.off, src.buf, st.off, st.size)
      /\ st.off \in Nat /\ st.size \in Nat
      /\ src.buf[st.off + st.size - 1] = Zero
      /\ strtab.off \in Nat /\ strtab.size \in Nat /\ st.size <= strtab.size
      /\ strtab.size = Offsets[N + 1]
  BY FinalStrings
<1>4. ASSUME NEW i \in 1 .. k - 1, es[i].tag = "NEEDED", es[i].val < st.size
      PROVE  StringAt(buf, strtab, fs[i].val) = StringAt(src.buf, st, es[i].val)
  <2> DEFINE v == es[i].val
  <2>1. fs[i] = es[i] BY <1>2, <1>4
  <2>2. v \in Nat
    <3>1. i \in 1 .. Len(es) BY <1>2
    <3>2. es[i] \in Dyn BY <1>2, <3>1
    <3> QED BY <3>2, Naturals64 DEF Dyn
  <2>3. \A j \in 0 .. st.size - 1 : buf[strtab.off + j] = src.buf[st.off + j]
    BY <1>3 DEF StringsAt
  <2>4. v < st.size BY <1>4
  <2> HIDE DEF v, st
  <2>5. StringAt(buf, strtab, v) = StringAt(src.buf, st, v)
    BY <1>3, <2>2, <2>3, <2>4, CopiedString
  <2> QED BY <2>1, <2>5 DEF v
<1>5. ASSUME NEW i \in 1 .. N
      PROVE  StringAt(buf, strtab, Offsets[i]) = ImportString(i)
  <2>1. /\ strtab.size = StrOffset(st.size)[N + 1]
        /\ Offsets[i] = StrOffset(st.size)[i]
    BY <1>3 DEF Offsets
  <2> HIDE DEF st
  <2>2. StringAt(buf, strtab, StrOffset(st.size)[i]) = ImportString(i)
    BY <1>3, <2>1, ImportedString
  <2> QED BY <2>1, <2>2
<1>6. fs[k + N].tag = "NULL" BY <1>2 DEF EndsAt
<1>7. \A i \in 1 .. N : /\ fs[k + i - 1].tag = "NEEDED"
                        /\ StringAt(buf, strtab, fs[k + i - 1].val) = ImportString(i)
  <2> TAKE i \in 1 .. N
  <2> DEFINE d == fs[k + i - 1]
  <2>1. d = [tag |-> "NEEDED", val |-> Offsets[i]] BY <1>2
  <2>2. StringAt(buf, strtab, Offsets[i]) = ImportString(i) BY <1>5
  <2> HIDE DEF d
  <2>3. d.tag = "NEEDED" /\ d.val = Offsets[i] BY <2>1
  <2>4. d.tag = "NEEDED" /\ StringAt(buf, strtab, d.val) = ImportString(i)
    BY <2>2, <2>3
  <2> QED BY <2>4 DEF d
<1>8. \A i \in 1 .. k - 1 :
        /\ fs[i].tag = es[i].tag
        /\ es[i].tag = "OTHER" => fs[i] = es[i]
        /\ es[i].tag = "NEEDED" /\ es[i].val < st.size =>
             StringAt(buf, strtab, fs[i].val) = StringAt(src.buf, st, es[i].val)
  BY <1>2, <1>4
<1> HIDE DEF fs
<1> QED BY <1>1, <1>6, <1>7, <1>8 DEF ImportsAdded

-----------------------------------------------------------------------------
(* What success means holds until the user runs the tool again.            *)
SuccessInv ==
  exit = "success" =>
    /\ pc = "idle"
    /\ ParseElf(disk[argOut].buf, disk[argOut].size)
    /\ Tidy(src.buf) => ImportsAdded(src.buf, disk[argOut].buf)

(* The last run stays as it ended, and main only says success after        *)
(* fclose, when all of the checked data is in the file.                    *)
LEMMA NextSuccess ==
  ASSUME FewImports, TypeInv, FootInv, PlanInv, HeaderInv, MemInv, BytesInv,
         SaneInv, SuccessInv, [Next]_vars
  PROVE  SuccessInv'
<1>1. CASE CloseOutput
  <2>1. CASE Fail BY <2>1 DEF Fail, Quit, SuccessInv
  <2>2. CASE Quit("failure") BY <2>2 DEF Quit, SuccessInv
  <2>3. CASE disk' = [disk EXCEPT ![argOut] = Patched] /\ Quit("success") /\ sane
    <3>1. /\ pc = "close" /\ pc' = "idle" /\ src' = src /\ argOut' = argOut
      BY <1>1, <2>3 DEF CloseOutput, Quit
    <3>2. disk'[argOut] = [size |-> size, buf |-> buf]
      <4>1. argOut \in DOMAIN disk BY DEF TypeInv, TypeOK
      <4> QED BY <2>3, <4>1 DEF Patched
    <3>3. ParseElf(buf, size) BY <2>3, <3>1 DEF SaneInv
    <3>4. Tidy(src.buf) => ImportsAdded(src.buf, buf)
      BY <3>1, ReachedFinal, FinalImports
    <3>5. disk'[argOut'].buf = buf /\ disk'[argOut'].size = size BY <3>1, <3>2
    <3> QED BY <3>1, <3>3, <3>4, <3>5 DEF SuccessInv
  <2> QED BY <1>1, <2>1, <2>2, <2>3 DEF CloseOutput
<1>2. CASE exit' # "success" BY <1>2 DEF SuccessInv
<1>3. CASE UNCHANGED vars BY <1>3 DEF vars, env, SuccessInv
<1>4. CASE Start \/ CallFails \/ Aborts \/ Kill
  BY <1>2, <1>4 DEF Start, CallFails, Aborts, Kill, Fail, Quit
<1>5. CASE ReadElf \/ PrepareSizes \/ AppendRo \/ AppendRw \/ MovePhdrs \/ MoveDynstr
             \/ AddEntriesInPlace \/ AddEntriesMoved
  <2>1. pc \in Computing /\ exit' = exit BY <1>5, ComputeKeeps
  <2>2. exit # "success" BY <2>1 DEF SuccessInv, Computing
  <2> QED BY <1>2, <2>1, <2>2
<1>6. CASE Serialize \/ SanityCheck \/ OpenOutput \/ WriteOutput
  <2>1. pc # "idle" BY <1>6 DEF Serialize, SanityCheck, OpenOutput, WriteOutput
  <2>2. exit' \in {exit, "failure"}
    BY <1>6 DEF Serialize, SanityCheck, OpenOutput, WriteOutput, Fail, Quit, env
  <2>3. exit # "success" BY <2>1 DEF SuccessInv
  <2> QED BY <1>2, <2>2, <2>3
<1> QED BY <1>1, <1>3, <1>4, <1>5, <1>6 DEF Next

(* A run that reports success has left, at the output path, a file that    *)
(* the parser accepts and that imports what it was told to, besides all    *)
(* that the input imported: in place or not, over any number of runs.      *)
THEOREM SuccessIsTrue ==
  ASSUME FewImports
  PROVE  Spec => []SuccessMeansImported
<1>1. Init => SuccessInv /\ SaneInv BY DEF Init, SuccessInv, SaneInv
<1>2. TypeInv /\ FootInv /\ PlanInv /\ HeaderInv /\ MemInv /\ BytesInv
        /\ SaneInv /\ SuccessInv /\ [Next]_vars => SuccessInv' /\ SaneInv'
  BY NextSuccess, NextSane
<1>3. SuccessInv => SuccessMeansImported BY DEF SuccessInv, SuccessMeansImported
<1> QED BY <1>1, <1>2, <1>3, TypesAreRight, FootprintHolds, PlanIsKept, HeadersAreKept,
           MemoryIsKept, BytesAreKept, PTL DEF Spec

-----------------------------------------------------------------------------
(* The abstract patcher that also promises the imports allows every step   *)
(* of the one that promises the foreign bytes, when what is produced has   *)
(* the imports.                                                            *)
LEMMA PatchOfKeep ==
  ASSUME [Keeper!Next]_Keeper!vars,
         Keeper!Produce => ImportPatch(disk[argIn], Result')
  PROVE  [Tool!Next]_Tool!vars
<1>1. CASE Keeper!Start BY <1>1 DEF Keeper!Start, Tool!Start, Tool!Next
<1>2. CASE Keeper!Produce
  BY <1>2 DEF Keeper!Produce, Tool!Produce, Tool!Next
<1>3. CASE Keeper!Write
  BY <1>3 DEF Keeper!Write, Keeper!WritePart, Tool!Write, Tool!WritePart, Tool!Next
<1>4. CASE Keeper!Finish
  BY <1>4 DEF Keeper!Finish, Keeper!End, Tool!Finish, Tool!End, Tool!Next
<1>5. CASE Keeper!GiveUp
  BY <1>5 DEF Keeper!GiveUp, Keeper!WritePart, Keeper!End,
              Tool!GiveUp, Tool!WritePart, Tool!End, Tool!Next
<1>6. CASE UNCHANGED Keeper!vars BY <1>6 DEF Keeper!vars, Tool!vars
<1> QED BY <1>1, <1>2, <1>3, <1>4, <1>5, <1>6 DEF Keeper!Next

(* Only the sanity check makes a result.                                   *)
LEMMA ProducedByCheck ==
  ASSUME [Next]_vars, Keeper!Produce
  PROVE  SanityCheck
<1>1. pc' \in {"open", "write", "close"} /\ pc \notin {"open", "write", "close"}
  BY DEF Keeper!Produce, Phase
<1>2. ~(ReadElf \/ PrepareSizes \/ AppendRo \/ AppendRw \/ MovePhdrs \/ MoveDynstr
          \/ AddEntriesInPlace \/ AddEntriesMoved)
  BY <1>1, ComputeKeeps DEF Computing
<1>3. ~(Start \/ CallFails \/ Aborts \/ Kill \/ Serialize)
  BY <1>1 DEF Start, CallFails, Aborts, Kill, Fail, Quit, Serialize
<1>4. ~(OpenOutput \/ WriteOutput \/ CloseOutput)
  BY <1>1 DEF OpenOutput, WriteOutput, CloseOutput
<1>5. ~UNCHANGED vars BY <1>1 DEF vars
<1> QED BY <1>2, <1>3, <1>4, <1>5 DEF Next

(* What it makes of a tidy file has the imports.                           *)
LEMMA CheckImports ==
  ASSUME FewImports, TypeInv, FootInv, PlanInv, HeaderInv, MemInv, BytesInv,
         InputKept, SanityCheck, Keeper!Produce
  PROVE  ImportPatch(disk[argIn], Result')
<1>1. pc = "check" /\ pc' = "open" /\ UNCHANGED <<size, buf>> BY DEF SanityCheck, data
<1>2. disk[argIn] = src BY <1>1 DEF InputKept
<1>3. Result' = [size |-> size, buf |-> buf] BY <1>1 DEF Result, Phase, Patched
<1>4. ForeignKept(disk[argIn], Result') BY DEF Keeper!Produce
<1>5. Tidy(src.buf) => ImportsAdded(src.buf, buf) BY <1>1, ReachedFinal, FinalImports
<1>6. Result'.buf = buf BY <1>3
<1> QED BY <1>2, <1>4, <1>5, <1>6 DEF ImportPatch

(* Seen from outside elf-add-import is a patching tool, whatever files it  *)
(* is run on, however often, in place or not, wherever calls fail or it is *)
(* killed: of the paths it only writes the one it was told to, in parts of *)
(* one result, which keeps every foreign byte of the input and gives a     *)
(* tidy input the imports; and it reports success only when all of the     *)
(* result is there and the parser has accepted it.                         *)
THEOREM ImplementsTool ==
  ASSUME FewImports
  PROVE  Spec => IsPatchingTool
<1>1. Init => Tool!Init BY DEF Init, Tool!Init, Phase, Result
<1>2. ASSUME TypeInv, FootInv, PlanInv, HeaderInv, MemInv, BytesInv, InputKept,
             ForeignBytesKept, [Next]_vars
      PROVE  [Tool!Next]_Tool!vars
  <2>1. [Keeper!Next]_Keeper!vars BY <1>2, StepRefines
  <2>2. Keeper!Produce => ImportPatch(disk[argIn], Result')
    BY <1>2, ProducedByCheck, CheckImports
  <2> QED BY <2>1, <2>2, PatchOfKeep
<1>3. Spec => Tool!Spec
  BY <1>1, <1>2, TypesAreRight, FootprintHolds, PlanIsKept, HeadersAreKept,
     MemoryIsKept, BytesAreKept, InputIsKept, ForeignBytes, PTL DEF Spec, Tool!Spec
<1> QED BY <1>3 DEF IsPatchingTool

-----------------------------------------------------------------------------
(* The memcpy of add_new_dynamic_entries stays in the array: a table left  *)
(* in place has at least three DT_NULLs, and a moved one has grown.        *)
LEMMA CopyFits ==
  ASSUME TypeInv, Footprint, Plan, Memory, pc = "addEntries"
  PROVE  IF m.move THEN CopyInArray(Resized(dyn.entries, NewDynNum, ZeroDyn))
         ELSE CopyInArray(dyn.entries)
<1> DEFINE es == DynEntriesOf(src.buf)
           r  == Retargeted(es)
           k  == FirstNull(es)
           N  == Len(Imports)
<1>1. es \in Seq(Dyn) /\ EndsAt(es, k)
  <2>1. src.size \in Nat /\ src.size <= MaxU /\ src.buf \in File(src.size)
        /\ ParseElf(src.buf, src.size)
    BY Naturals64 DEF TypeInv, TypeOK, IsFile, Footprint
  <2> QED BY <2>1, AcceptedEntries
<1>2. HasUniqueDyn(es, "STRTAB") /\ HasUniqueDyn(es, "STRSZ") BY OldEntries
<1>3. /\ r \in Seq(Dyn) /\ Len(r) = Len(es)
      /\ \A i \in 1 .. Len(es) : r[i].tag = es[i].tag
  <2>1. strtab \in Strtab BY DEF TypeInv, TypeOK
  <2> QED BY <1>1, <1>2, <2>1, RetargetedFields
<1>4. dyn.entries = r BY DEF Memory, Entries
<1>5. m.move = MoveRequired(es) BY DEF Memory, StringTable
<1>6. NewDynNum = Len(es) + N BY <1>3, <1>4 DEF NewDynNum
<1>7. N \in Nat /\ 0 < N /\ N <= 3 BY ImportCount
<1> HIDE DEF es, r, k, N
<1>8. Len(es) \in Nat /\ k \in Nat /\ 1 <= k /\ k <= Len(es) BY <1>1 DEF EndsAt
<1>9. k \in 1 .. Len(r) /\ r[k].tag = "NULL" /\ \A i \in 1 .. k - 1 : r[i].tag # "NULL"
  <2>1. k \in 1 .. Len(r) /\ r[k].tag = "NULL" BY <1>1, <1>3 DEF EndsAt
  <2>2. ASSUME NEW i \in 1 .. k - 1 PROVE r[i].tag # "NULL"
    <3>1. i \in 1 .. Len(es) BY <1>8
    <3> QED BY <1>1, <1>3, <3>1 DEF EndsAt
  <2> QED BY <2>1, <2>2
<1>10. CASE ~m.move
  <2>1. k + 2 <= Len(es) BY <1>1, <1>5, <1>10, SpareRoom
  <2>2. FirstNull(r) = k BY <1>3, <1>9, FirstNullOfEnd
  <2>3. k + N - 1 <= Len(r) BY <1>3, <1>7, <1>8, <2>1
  <2> QED BY <1>4, <1>10, <2>2, <2>3 DEF CopyInArray, N
<1>11. CASE m.move
  <2> DEFINE p == Resized(r, Len(es) + N, ZeroDyn)
  <2>1. Len(es) + N \in Nat BY <1>7, <1>8
  <2>2. p \in Seq(Dyn) /\ Len(p) = Len(es) + N BY <1>3, <2>1, ResizedDynType
  <2>3. \A i \in 1 .. Len(es) + N : p[i] = IF i <= Len(es) THEN r[i] ELSE ZeroDyn
    BY <1>3 DEF Resized
  <2> HIDE DEF p
  <2>4. \A i \in 1 .. k : p[i] = r[i]
    <3> SUFFICES ASSUME NEW i \in 1 .. k PROVE p[i] = r[i] OBVIOUS
    <3>1. i \in 1 .. Len(es) + N /\ i <= Len(es) BY <1>7, <1>8
    <3> QED BY <2>3, <3>1
  <2>5. k \in 1 .. k /\ \A i \in 1 .. k - 1 : i \in 1 .. k BY <1>8
  <2>6. k \in 1 .. Len(p) BY <1>7, <1>8, <2>2
  <2>7. p[k].tag = "NULL" /\ \A i \in 1 .. k - 1 : p[i].tag # "NULL"
    BY <1>9, <2>4, <2>5
  <2>8. FirstNull(p) = k BY <2>2, <2>6, <2>7, FirstNullOfEnd
  <2>9. k + N - 1 <= Len(p) BY <1>7, <1>8, <2>2
  <2> QED BY <1>4, <1>6, <1>11, <2>8, <2>9 DEF CopyInArray, N, p
<1> QED BY <1>10, <1>11

(* Once the segments are appended, the calls that move the tables fail no  *)
(* check of their own, and the memcpy of the new entries stays in its      *)
(* array.                                                                  *)
THEOREM PlanComesTrue == Spec => []PlanHolds
<1>1. TypeInv /\ FootInv /\ PlanInv /\ MemInv => PlanHolds
  <2> SUFFICES ASSUME TypeInv, FootInv, PlanInv, MemInv PROVE PlanHolds OBVIOUS
  <2>1. ASSUME pc \in {"movePhdrs", "moveDynstr", "addEntries"}
        PROVE  Footprint /\ Plan /\ Memory
    BY <2>1 DEF FootInv, PlanInv, MemInv, Loaded
  <2>2. pc = "movePhdrs" => PhdrsMoveOk BY <2>1, PhdrsFit
  <2>3. pc = "moveDynstr" => DynstrMoveOk BY <2>1, DynstrFits
  <2>4. pc = "addEntries" =>
          /\ m.move => /\ DynSizeAsPlanned /\ DynMoveOk
                       /\ VaddrFromOff(phdrs, NewDynOff, Len(dyn.entries) * DynEnt).ok
          /\ IF m.move THEN CopyInArray(Resized(dyn.entries, NewDynNum, ZeroDyn))
             ELSE CopyInArray(dyn.entries)
    BY <2>1, DynTableFits, CopyFits
  <2> QED BY <2>2, <2>3, <2>4 DEF PlanHolds
<1> QED
  BY <1>1, TypesAreRight, FootprintHolds, PlanIsKept, MemoryIsKept, PTL

-----------------------------------------------------------------------------
(* What else serialize_elf relies on: no section header is marked when     *)
(* there is none, and the old headers keep their alignments.               *)
SameAligns ==
  \A j \in 1 .. Len(PhdrsOf(src.buf)) : phdrs[j].align = PhdrsOf(src.buf)[j].align

(* Both, from the moment a file is read.                                   *)
MarksInv ==
  /\ "shdrs" \in dirty => Len(shdrs) # 0
  /\ Loaded => SameAligns

(* update_phoff and update_dyn_tbl_off leave the alignment alone.          *)
LEMMA MovedAlign ==
  ASSUME NEW phs \in Seq(Phdr), NEW i \in 0 .. Len(phs), NEW off, NEW vaddr, NEW len,
         NEW j \in 1 .. Len(phs)
  PROVE  Moved(phs, i, off, vaddr, len)[j].align = phs[j].align
<1>1. CASE i = 0 BY <1>1 DEF Moved
<1>2. CASE i # 0 BY <1>2 DEF Moved
<1> QED BY <1>1, <1>2

(* Each call that changes the tables keeps this.                           *)
LEMMA AppendMarks ==
  ASSUME TypeInv, Footprint, Plan, MarksInv, AppendRo \/ AppendRw
  PROVE  MarksInv'
<1> DEFINE old == PhdrsOf(src.buf)
<1>1. PICK content \in U64, write \in BOOLEAN : AppendSegment(content, write)
  <2>1. CASE AppendRo
    <3>1. AppendSegment(RoContent, FALSE) /\ RoContent <= MaxU BY <2>1 DEF AppendRo
    <3>2. RoContent \in U64
      <4>1. m.newPhsize \in Nat /\ m.newDynstrSz \in Nat
        BY Naturals64 DEF TypeInv, TypeOK, Mods
      <4> QED BY <3>1, <4>1, WidthAssumption DEF RoContent, U64
    <3> QED BY <3>1, <3>2
  <2>2. CASE AppendRw
    <3>1. AppendSegment(RwContent, TRUE) BY <2>2 DEF AppendRw
    <3>2. RwContent \in U64 BY DEF TypeInv, TypeOK, Mods, RwContent
    <3> QED BY <3>1, <3>2
  <2> QED BY <2>1, <2>2
<1>2. /\ phdrs \in Seq(Phdr) /\ Len(phdrs) \in Nat
      /\ shdrs' \in Seq(Shdr) /\ Len(shdrs') = Len(shdrs)
  BY <1>1, AppendSegmentProperty DEF TypeInv, TypeOK
<1>3. /\ Len(phdrs) + 1 >= PN_XNUM => Len(shdrs) # 0
      /\ "shdrs" \in dirty' => "shdrs" \in dirty \/ Len(phdrs) + 1 >= PN_XNUM
  <2>1. UpdatePhnumOk(Len(phdrs) + 1) BY <1>1 DEF AppendSegment
  <2>2. Len(phdrs) + 1 >= PN_XNUM => Len(shdrs) # 0
    BY <2>1 DEF UpdatePhnumOk, TypeInv, TypeOK
  <2>3. dirty' = dirty \cup {"ehdr", "phdrs"}
                       \cup (IF Len(phdrs) + 1 < PN_XNUM THEN {} ELSE {"shdrs"})
    BY <1>1 DEF AppendSegment
  <2>4. ~(Len(phdrs) + 1 < PN_XNUM) => Len(phdrs) + 1 >= PN_XNUM
    BY <1>2, EscapeAssumption
  <2> QED BY <2>2, <2>3, <2>4
<1>4. \A j \in 1 .. Len(phdrs) : phdrs'[j].align = phdrs[j].align
  <2> TAKE j \in 1 .. Len(phdrs)
  <2> DEFINE n  == Len(phdrs) + 1
             pt == UniquePhdr(phdrs, "PHDR")
             s  == NewSegment(content, write)
  <2>1. phdrs' = [i \in 1 .. n |->
                     CASE i = n -> s
                       [] i = pt  -> [phdrs[i] EXCEPT !.filesz = n * PhEnt,
                                                      !.memsz = n * PhEnt]
                       [] OTHER   -> phdrs[i]]
    BY <1>1 DEF AppendSegment
  <2>2. j \in 1 .. n /\ j # n BY <1>2
  <2>3. phdrs[j] \in Phdr BY <1>2
  <2> HIDE DEF n, s, pt
  <2>4. phdrs'[j] = IF j = pt THEN [phdrs[j] EXCEPT !.filesz = n * PhEnt, !.memsz = n * PhEnt]
                    ELSE phdrs[j]
    BY <2>1, <2>2
  <2> QED BY <2>3, <2>4 DEF Phdr
<1>5. \A j \in 1 .. Len(old) : j \in 1 .. Len(phdrs) BY OldPhdrs
<1>6. pc \notin {"idle", "read"} /\ src' = src
  BY DEF AppendRo, AppendRw, env
<1>7. SameAligns' BY <1>4, <1>5, <1>6 DEF MarksInv, SameAligns, Loaded
<1> QED BY <1>2, <1>3, <1>7 DEF MarksInv

(* So does every step.                                                     *)
LEMMA NextMarks ==
  TypeInv /\ FootInv /\ PlanInv /\ MarksInv /\ [Next]_vars => MarksInv'
<1> SUFFICES ASSUME TypeInv, FootInv, PlanInv, MarksInv, [Next]_vars PROVE MarksInv'
  OBVIOUS
<1>1. phdrs \in Seq(Phdr) /\ shdrs \in Seq(Shdr) BY DEF TypeInv, TypeOK
<1>2. Loaded => Footprint /\ Plan BY DEF FootInv, PlanInv
<1>3. CASE ReadElf
  <2>1. dirty' = {} /\ phdrs' = PhdrsOf(src'.buf)
    BY <1>3 DEF ReadElf, Load
  <2> QED BY <2>1 DEF MarksInv, SameAligns
<1>4. CASE AppendRo \/ AppendRw
  <2>1. Loaded BY <1>4 DEF Loaded, AppendRo, AppendRw
  <2> QED BY <1>2, <1>4, <2>1, AppendMarks
<1>5. ASSUME pc \in {"moveDynstr", "addEntries"} \cup {"movePhdrs"}
      PROVE  /\ Loaded /\ Footprint /\ Plan
             /\ \A j \in 1 .. Len(PhdrsOf(src.buf)) : j \in 1 .. Len(phdrs)
             /\ dyn.phdr \in 1 .. Len(phdrs) /\ dyn.shdr \in 0 .. Len(shdrs)
             /\ strtab.shdr \in 0 .. Len(shdrs)
  <2>1. Loaded BY <1>5 DEF Loaded
  <2>2. Footprint /\ Plan BY <1>2, <2>1
  <2>3. dyn.phdr \in 1 .. Len(phdrs) BY <2>1 DEF TypeInv, Shape
  <2>4. dyn.shdr \in 0 .. Len(shdrs) /\ strtab.shdr \in 0 .. Len(shdrs)
    BY <1>1 DEF TypeInv, TypeOK, Dynamic, Strtab
  <2> QED BY <2>1, <2>2, <2>3, <2>4, OldPhdrs
<1>6. CASE MovePhdrs
  <2> DEFINE i == UniquePhdr(phdrs, "PHDR")
  <2>1. /\ phdrs' = Moved(phdrs, i, phdrs[m.ro].offset,
                          VaddrFromOff(phdrs, phdrs[m.ro].offset, Len(phdrs) * PhEnt).val,
                          Len(phdrs) * PhEnt)
        /\ dirty' = dirty \cup {"ehdr", "phdrs"} /\ shdrs' = shdrs /\ src' = src
        /\ pc = "movePhdrs"
    BY <1>6 DEF MovePhdrs, env
  <2>2. i \in 0 .. Len(phdrs) BY <1>1, UniquePhdrProperty
  <2> HIDE DEF i
  <2>3. \A j \in 1 .. Len(phdrs) : phdrs'[j].align = phdrs[j].align
    BY <1>1, <2>1, <2>2, MovedAlign
  <2> QED BY <1>5, <2>1, <2>3 DEF MarksInv, SameAligns
<1>7. CASE MoveDynstr
  <2>1. /\ phdrs' = phdrs /\ src' = src /\ pc = "moveDynstr"
        /\ dirty' = dirty \cup DirtyByDynstr
    BY <1>7 DEF MoveDynstr, env
  <2>2. Len(shdrs') = Len(shdrs) BY <1>7, MoveDynstrTypes
  <2>3. "shdrs" \in dirty' => "shdrs" \in dirty \/ strtab.shdr # 0
    BY <2>1 DEF DirtyByDynstr
  <2>4. strtab.shdr # 0 => Len(shdrs) # 0
    <3>1. strtab.shdr \in 0 .. Len(shdrs) BY <1>5, <2>1
    <3> QED BY <1>1, <3>1
  <2> QED BY <1>5, <2>1, <2>2, <2>3, <2>4 DEF MarksInv, SameAligns
<1>8. CASE AddEntriesMoved
  <2>1. /\ phdrs' = Moved(phdrs, dyn.phdr, NewDynOff, NewDynVaddr, NewDynNum * DynEnt)
        /\ src' = src /\ pc = "addEntries"
        /\ dirty' = dirty \cup {"phdrs"} \cup (IF dyn.shdr = 0 THEN {} ELSE {"shdrs"})
    BY <1>8 DEF AddEntriesMoved, env
  <2>2. Len(shdrs') = Len(shdrs) BY <1>8, AddEntriesMovedTypes
  <2>3. dyn.phdr \in 0 .. Len(phdrs) BY <1>5, <2>1
  <2>4. \A j \in 1 .. Len(phdrs) : phdrs'[j].align = phdrs[j].align
    BY <1>1, <2>1, <2>3, MovedAlign
  <2>5. "shdrs" \in dirty' => "shdrs" \in dirty \/ Len(shdrs) # 0
    <3>1. dyn.shdr \in 0 .. Len(shdrs) BY <1>5, <2>1
    <3> QED BY <1>1, <2>1, <3>1
  <2> QED BY <1>5, <2>1, <2>2, <2>4, <2>5 DEF MarksInv, SameAligns
<1>9. CASE PrepareSizes \/ AddEntriesInPlace \/ SanityCheck \/ UNCHANGED vars
  BY <1>9 DEF PrepareSizes, AddEntriesInPlace, SanityCheck, MarksInv, SameAligns, Loaded,
              vars, tabs, env
<1>10. CASE Start
  BY <1>10 DEF Start, MarksInv, Loaded, tabs
<1>11. CASE \/ (\E s \in {"failure", "aborted", "killed", "success"} : Quit(s))
            \/ /\ pc \notin {"idle", "read"}
               /\ UNCHANGED <<src, phdrs, shdrs>> /\ dirty' \subseteq dirty
  BY <1>11 DEF Quit, Destroyed, MarksInv, SameAligns, Loaded
<1>12. CASE Serialize \/ OpenOutput \/ WriteOutput \/ CloseOutput \/ CallFails
             \/ Aborts \/ Kill
  BY <1>11, <1>12 DEF Serialize, OpenOutput, WriteOutput, CloseOutput, CallFails,
                      Aborts, Kill, Fail, env, tabs
<1> QED
  BY <1>3, <1>4, <1>6, <1>7, <1>8, <1>9, <1>10, <1>12 DEF Next

(* No helper marks a section table that is not there, or realigns an old   *)
(* segment.                                                                *)
THEOREM MarksAreKept == Spec => []MarksInv
<1>1. Init => MarksInv BY DEF Init, MarksInv, Loaded
<1> QED
  BY <1>1, NextMarks, TypesAreRight, FootprintHolds, PlanIsKept, PTL DEF Spec

-----------------------------------------------------------------------------
(* Where serialize_elf can fail.  The class can hold the segments that     *)
(* were appended, and so a value.                                          *)
SegmentsHoldable == \A i \in {m.ro, m.rw} \ {0} : Holdable(phdrs[i])

FitsField(v) == v \in 0 .. MaxField

(* What such a segment contains starts and ends where the class can say.   *)
LEMMA SegmentValues ==
  ASSUME TypeInv, Footprint, Plan, Memory, pc = "serialize", SegmentsHoldable
  PROVE  /\ PhdrFits(phdrs[m.ro])
         /\ m.move => PhdrFits(phdrs[m.rw])
         /\ FitsField(phdrs[m.ro].offset) /\ FitsField(phdrs[m.ro].vaddr)
         /\ FitsField(Len(phdrs) * PhEnt)
         /\ m.move => /\ FitsField(phdrs[m.rw].offset) /\ FitsField(phdrs[m.rw].vaddr)
                      /\ FitsField(m.newDynSz)
         /\ FitsField(strtab.vaddr) /\ FitsField(strtab.off) /\ FitsField(strtab.size)
         /\ strtab.size = m.newDynstrSz
<1>1. pc \in Filled BY DEF Filled
<1>2. /\ m.ro \in 1 .. Len(phdrs) /\ RoPlaced
      /\ m.move => m.rw \in 1 .. Len(phdrs) /\ RwPlaced
      /\ phdrs \in Seq(Phdr) /\ Len(phdrs) \in Nat
  BY <1>1, FilledTable DEF TypeInv, TypeOK
<1>3. Holdable(phdrs[m.ro]) /\ (m.move => Holdable(phdrs[m.rw]))
  BY <1>2 DEF SegmentsHoldable
<1>4. /\ phdrs[m.ro].filesz = m.newPhsize + m.newDynstrSz
      /\ m.newPhsize \in Nat /\ m.newDynstrSz \in Nat /\ m.newDynSz \in Nat
      /\ m.move => phdrs[m.rw].filesz = m.newDynSz
  BY <1>2, Naturals64 DEF RoPlaced, RwPlaced, Placed, Holds, TypeInv, TypeOK, Mods
<1>5. m.newPhsize = Len(phdrs) * PhEnt
  <2>1. Pending = 0 BY DEF Pending
  <2>2. Len(phdrs) + 0 = Len(phdrs) BY <1>2
  <2> QED BY <1>1, <2>1, <2>2 DEF Plan, Sizes
<1>6. /\ strtab.vaddr = NewDynstrVaddr /\ strtab.off = NewDynstrOff
      /\ strtab.size = m.newDynstrSz
  <2>1. StringsMoved BY <1>1 DEF StringsMoved
  <2>2. strtab = [StrtabOf(src.buf) EXCEPT !.vaddr = NewDynstrVaddr,
                                           !.off = NewDynstrOff, !.size = m.newDynstrSz]
    BY <2>1 DEF Memory, StringTable
  <2> QED
    BY <2>2 DEF StrtabOf, StrtabAt
<1>7. /\ PhdrFits(phdrs[m.ro]) /\ (m.move => PhdrFits(phdrs[m.rw]))
      /\ phdrs[m.ro].offset + phdrs[m.ro].filesz <= MaxField
      /\ phdrs[m.ro].vaddr + phdrs[m.ro].filesz <= MaxField
  BY <1>3 DEF Holdable
<1>8. /\ phdrs[m.ro] \in Phdr /\ phdrs[m.ro].offset <= MaxField
      /\ phdrs[m.ro].vaddr <= MaxField /\ phdrs[m.ro].filesz <= MaxField
  BY <1>2, <1>7 DEF PhdrFits
<1>9. m.move => /\ phdrs[m.rw] \in Phdr /\ phdrs[m.rw].offset <= MaxField
                /\ phdrs[m.rw].vaddr <= MaxField /\ phdrs[m.rw].filesz <= MaxField
  BY <1>2, <1>7 DEF PhdrFits
<1>10. FitsField(phdrs[m.ro].offset) /\ FitsField(phdrs[m.ro].vaddr)
  BY <1>8, PhdrFields, WidthAssumption DEF FitsField
<1>11. m.move => /\ FitsField(phdrs[m.rw].offset) /\ FitsField(phdrs[m.rw].vaddr)
                 /\ FitsField(m.newDynSz)
  BY <1>4, <1>9, PhdrFields, WidthAssumption DEF FitsField
<1>12. FitsField(m.newPhsize)
  BY <1>4, <1>8, WidthAssumption DEF FitsField
<1>13. FitsField(strtab.vaddr) /\ FitsField(strtab.off) /\ FitsField(strtab.size)
  <2> DEFINE o == phdrs[m.ro].offset
             v == phdrs[m.ro].vaddr
             f == phdrs[m.ro].filesz
             a == m.newPhsize
             c == m.newDynstrSz
  <2>1. /\ o \in Nat /\ v \in Nat /\ a \in Nat /\ c \in Nat /\ f = a + c
        /\ o + f <= MaxField /\ v + f <= MaxField /\ MaxField \in Nat
    BY <1>4, <1>7, <1>8, PhdrFields, WidthAssumption
  <2>2. strtab.vaddr = v + a /\ strtab.off = o + a /\ strtab.size = c
    BY <1>6 DEF NewDynstrVaddr, NewDynstrOff
  <2> HIDE DEF o, v, f, a, c
  <2> QED BY <2>1, <2>2 DEF FitsField
<1> QED BY <1>5, <1>6, <1>7, <1>10, <1>11, <1>12, <1>13

(* The program headers.                                                    *)
LEMMA PhdrsFitClass ==
  ASSUME TypeInv, Footprint, Plan, Memory, SameAligns, pc = "serialize", SegmentsHoldable
  PROVE  \A j \in 1 .. Len(phdrs) : PhdrFits(phdrs[j])
<1> DEFINE old == PhdrsOf(src.buf)
<1>1. pc \in Filled BY DEF Filled
<1>2. \A j \in 1 .. Len(old) : PhdrFits(old[j])
  BY AcceptedFits, Naturals64 DEF Footprint, TypeInv, TypeOK, IsFile
<1>3. \A j \in 1 .. Len(phdrs) : j \in 1 .. Len(old) \/ j = m.ro \/ (m.move /\ j = m.rw)
  BY <1>1, FilledTable
<1>4. ASSUME NEW j \in 1 .. Len(old) PROVE PhdrFits(phdrs[j])
  <2>1. phdrs[j].align = old[j].align BY DEF SameAligns
  <2>2. phdrs[j].align <= MaxField BY <1>2, <2>1 DEF PhdrFits
  <2>3. CASE old[j].type \notin {"PHDR", "DYNAMIC"}
    BY <1>2, <2>3 DEF Memory, OldHeaders
  <2>4. CASE old[j].type = "PHDR"
    <3>1. PhdrsMoved BY <1>1 DEF PhdrsMoved, StringsMoved
    <3>2. /\ phdrs[j].offset = ehdr.phoff /\ phdrs[j].vaddr = phdrs[m.ro].vaddr
          /\ phdrs[j].filesz = Len(phdrs) * PhEnt /\ phdrs[j].memsz = Len(phdrs) * PhEnt
      BY <2>4, <3>1 DEF Memory, OldHeaders
    <3>3. ehdr.phoff = phdrs[m.ro].offset BY <1>1 DEF Plan, Tables
    <3>4. /\ phdrs[j].offset <= MaxField /\ phdrs[j].vaddr <= MaxField
          /\ phdrs[j].filesz <= MaxField /\ phdrs[j].memsz <= MaxField
      BY <3>2, <3>3, SegmentValues DEF FitsField
    <3> QED BY <2>2, <3>4 DEF PhdrFits
  <2>5. CASE old[j].type = "DYNAMIC"
    <3>1. j = dyn.phdr
      <4>1. ~DuplicatePhdr(old, "DYNAMIC")
        BY DEF Footprint, ParseElf, ValidPhdrs, ValidDynamic
      <4>2. dyn.phdr \in 1 .. Len(old) /\ old[dyn.phdr].type = "DYNAMIC" BY OldPhdrs
      <4> HIDE DEF old
      <4> QED BY <2>5, <4>1, <4>2 DEF DuplicatePhdr, IndicesOf
    <3>2. CASE ~m.move
      <4>1. phdrs[j] = old[j] BY <3>1, <3>2 DEF Plan, Tables, DynPlace
      <4> QED BY <1>2, <4>1
    <3>3. CASE m.move
      <4>1. /\ phdrs[j].offset = phdrs[m.rw].offset /\ phdrs[j].vaddr = phdrs[m.rw].vaddr
            /\ phdrs[j].filesz = m.newDynSz /\ phdrs[j].memsz = m.newDynSz
        BY <1>1, <3>1, <3>3 DEF Plan, Tables, DynPlace
      <4>2. /\ phdrs[j].offset <= MaxField /\ phdrs[j].vaddr <= MaxField
            /\ phdrs[j].filesz <= MaxField /\ phdrs[j].memsz <= MaxField
        BY <3>3, <4>1, SegmentValues DEF FitsField
      <4> QED BY <2>2, <4>2 DEF PhdrFits
    <3> QED BY <3>2, <3>3
  <2> QED BY <2>3, <2>4, <2>5
<1> QED BY <1>3, <1>4, SegmentValues

(* The section headers.                                                    *)
LEMMA ShdrsFitClass ==
  ASSUME TypeInv, Footprint, Plan, Memory, SameAligns, pc = "serialize", SegmentsHoldable
  PROVE  \A j \in 1 .. Len(shdrs) : ShdrFits(shdrs[j])
<1> DEFINE old == ShdrsOf(src.buf)
           pt  == phdrs[dyn.phdr]
<1>1. \A j \in 1 .. Len(old) : ShdrFits(old[j])
  BY AcceptedFits, Naturals64 DEF Footprint, TypeInv, TypeOK, IsFile
<1>2. Len(shdrs) = Len(old) BY OldSections
<1>3. PhdrFits(pt) BY PhdrsFitClass DEF TypeInv, Shape, Loaded
<1>4. ASSUME NEW j \in 1 .. Len(old) PROVE ShdrFits(shdrs[j])
  <2>1. CASE j = strtab.shdr
    <3>1. Covers(shdrs[j], strtab.vaddr, strtab.off, strtab.size)
      BY <2>1 DEF Memory, Sections
    <3>2. strtab.vaddr <= MaxField /\ strtab.off <= MaxField /\ strtab.size <= MaxField
      BY SegmentValues DEF FitsField
    <3> QED BY <3>1, <3>2 DEF Covers, ShdrFits
  <2>2. CASE j # strtab.shdr /\ j = dyn.shdr
    <3>1. Covers(shdrs[j], pt.vaddr, pt.offset, pt.filesz)
      BY <2>2 DEF Memory, Sections
    <3> QED BY <1>3, <3>1 DEF Covers, ShdrFits, PhdrFits
  <2>3. CASE j # strtab.shdr /\ j # dyn.shdr
    <3>1. Covers(shdrs[j], old[j].addr, old[j].offset, old[j].size)
      BY <2>3 DEF Memory, Sections
    <3> QED BY <1>1, <3>1 DEF Covers, ShdrFits
  <2> QED BY <2>1, <2>2, <2>3
<1> QED BY <1>2, <1>4

(* The dynamic table.                                                      *)
LEMMA DynFitsClass ==
  ASSUME TypeInv, Footprint, Plan, Memory, pc = "serialize", SegmentsHoldable
  PROVE  \A i \in 1 .. Len(dyn.entries) : DynFits(dyn.entries[i])
<1> DEFINE es == DynEntriesOf(src.buf)
           r  == Retargeted(es)
           p  == Prepared(es)
           N  == Len(Imports)
<1>1. pc \in Filled BY DEF Filled
<1>2. /\ es \in Seq(Dyn) /\ Len(es) \in Nat
      /\ HasUniqueDyn(es, "STRTAB") /\ HasUniqueDyn(es, "STRSZ")
  BY OldEntries
<1>3. \A i \in 1 .. Len(es) : DynFits(es[i])
  BY AcceptedFits, Naturals64 DEF Footprint, TypeInv, TypeOK, IsFile
<1>4. dyn.entries = WithImports(p) BY <1>1 DEF Memory, Entries
<1>5. DynFits(ZeroDyn) BY WidthAssumption DEF DynFits, ZeroDyn
<1>6. /\ r \in Seq(Dyn) /\ Len(r) = Len(es)
      /\ \A i \in 1 .. Len(es) :
           /\ es[i].tag \notin {"STRTAB", "STRSZ"} => r[i] = es[i]
           /\ es[i].tag = "STRTAB" => r[i].val = strtab.vaddr
           /\ es[i].tag = "STRSZ" => r[i].val = strtab.size
  <2>1. strtab \in Strtab BY DEF TypeInv, TypeOK
  <2> QED BY <1>2, <2>1, RetargetedFields
<1>7. \A i \in 1 .. Len(r) : DynFits(r[i])
  <2> SUFFICES ASSUME NEW i \in 1 .. Len(es) PROVE DynFits(r[i]) BY <1>6
  <2>1. strtab.vaddr <= MaxField /\ strtab.size <= MaxField
    BY SegmentValues DEF FitsField
  <2> HIDE DEF es, r
  <2> QED BY <1>3, <1>6, <2>1 DEF DynFits
<1>8. N \in Nat BY ImportCount
<1>9. p = IF m.move THEN Resized(r, Len(es) + N, ZeroDyn) ELSE r BY DEF Prepared
<1> HIDE DEF es, r, p
<1>10. \A i \in 1 .. Len(p) : DynFits(p[i])
  <2>1. CASE ~m.move BY <1>7, <1>9, <2>1
  <2>2. CASE m.move
    <3>1. p = Resized(r, Len(es) + N, ZeroDyn) BY <1>9, <2>2
    <3>2. Len(es) + N \in Nat BY <1>2, <1>8
    <3>3. Len(p) = Len(es) + N BY <1>6, <3>1, <3>2, ResizedDynType
    <3>4. \A i \in 1 .. Len(es) + N : p[i] = IF i <= Len(es) THEN r[i] ELSE ZeroDyn
      BY <1>6, <3>1 DEF Resized
    <3> SUFFICES ASSUME NEW i \in 1 .. Len(p) PROVE DynFits(p[i]) OBVIOUS
    <3>5. CASE i <= Len(es)
      <4>1. i \in 1 .. Len(r) /\ i \in 1 .. Len(es) + N BY <1>2, <1>6, <3>3, <3>5
      <4> QED BY <1>7, <3>4, <3>5, <4>1
    <3>6. CASE ~(i <= Len(es)) BY <1>5, <3>3, <3>4, <3>6
    <3> QED BY <3>5, <3>6
  <2> QED BY <2>1, <2>2
<1>11. \A s \in 1 .. N : m.strOffs[s] <= MaxField
  <2> DEFINE o == StrOffset(StrtabOf(src.buf).size)
  <2>1. StrtabOf(src.buf).size \in Nat
    BY StrtabType, Naturals64 DEF Footprint, TypeInv, TypeOK, IsFile
  <2>2. /\ \A s \in 1 .. N + 1 : o[s] \in Nat
        /\ \A s \in 1 .. N : NameLen[Imports[s]] \in Nat
        /\ \A s \in 1 .. N : \A t \in s + 1 .. N + 1 : o[s] + NameLen[Imports[s]] < o[t]
    BY <2>1, OffsetsGrow
  <2>3. m.newDynstrSz = o[N + 1] BY StringsLength
  <2>4. m.newDynstrSz <= MaxField /\ m.newDynstrSz \in Nat
    BY SegmentValues DEF FitsField
  <2>5. m.strOffs = SubSeq(o, 1, N) BY DEF Memory, StringTable, Offsets
  <2> HIDE DEF o, N
  <2> SUFFICES ASSUME NEW s \in 1 .. N PROVE m.strOffs[s] <= MaxField OBVIOUS
  <2>6. m.strOffs[s] = o[s]
    <3>1. SubSeq(o, 1, N) = [i \in 1 .. N |-> o[i]]
      BY <1>8
    <3> QED BY <2>5, <3>1
  <2>7. s \in 1 .. N + 1 /\ N + 1 \in s + 1 .. N + 1 BY <1>8
  <2>8. o[s] \in Nat /\ NameLen[Imports[s]] \in Nat
        /\ o[s] + NameLen[Imports[s]] < o[N + 1]
    BY <2>2, <2>7
  <2> QED BY <2>3, <2>4, <2>6, <2>8, WidthAssumption
<1>12. WithImports(p) = [i \in 1 .. Len(p) |->
          IF i \in FirstNull(p) .. FirstNull(p) + N - 1
          THEN [tag |-> "NEEDED", val |-> m.strOffs[i - FirstNull(p) + 1]] ELSE p[i]]
  BY DEF WithImports
<1>13. FirstNull(p) \in Nat
  <2>1. FirstOf(DynIndices(p, "NULL")) \in Nat
    <3>1. DynIndices(p, "NULL") \in SUBSET (Nat \ {0}) BY DEF DynIndices
    <3>2. CASE DynIndices(p, "NULL") = {} BY <3>2 DEF FirstOf
    <3>3. CASE DynIndices(p, "NULL") # {} BY <3>1, <3>3, FirstOfProperty
    <3> QED BY <3>2, <3>3
  <2>2. 1 \in Nat /\ Max({1, FirstOf(DynIndices(p, "NULL"))})
                       \in {1, FirstOf(DynIndices(p, "NULL"))}
    BY <2>1, MaxOfTwo
  <2> QED BY <2>1, <2>2 DEF FirstNull
<1> HIDE DEF N
<1>14. ASSUME NEW i \in 1 .. Len(p) PROVE DynFits(WithImports(p)[i])
  <2> DEFINE k == FirstNull(p)
  <2> HIDE DEF k
  <2>1. CASE i \in k .. k + N - 1
    <3>1. i - k + 1 \in 1 .. N BY <1>8, <1>13, <2>1 DEF k
    <3>2. WithImports(p)[i] = [tag |-> "NEEDED", val |-> m.strOffs[i - k + 1]]
      BY <1>12, <2>1 DEF k
    <3>3. WithImports(p)[i].val = m.strOffs[i - k + 1] BY <3>2
    <3> QED BY <1>11, <3>1, <3>3 DEF DynFits
  <2>2. CASE i \notin k .. k + N - 1
    <3>1. WithImports(p)[i] = p[i] BY <1>12, <2>2 DEF k
    <3> QED BY <1>10, <3>1
  <2> QED BY <2>1, <2>2
<1>15. Len(dyn.entries) = Len(p)
  <2>1. DOMAIN dyn.entries = 1 .. Len(p) BY <1>4, <1>12
  <2>2. DOMAIN dyn.entries = 1 .. Len(dyn.entries) /\ Len(dyn.entries) \in Nat
    BY DEF TypeInv, TypeOK, Dynamic
  <2>3. Len(p) \in Nat
    <3>1. CASE ~m.move BY <1>6, <1>9, <1>2, <3>1
    <3>2. CASE m.move
      <4>1. Len(es) + N \in Nat BY <1>2, <1>8
      <4>2. p = Resized(r, Len(es) + N, ZeroDyn) BY <1>9, <3>2
      <4> QED BY <1>6, <4>1, <4>2, ResizedDynType
    <3> QED BY <3>1, <3>2
  <2> QED BY <2>1, <2>2, <2>3
<1> QED BY <1>4, <1>14, <1>15

(* serialize_elf succeeds when the class can hold the appended segments.   *)
LEMMA HoldableSerializes ==
  ASSUME TypeInv, Footprint, Plan, Memory, MarksInv, pc = "serialize", SegmentsHoldable
  PROVE  SerializeOk
<1>1. SameAligns BY DEF MarksInv, Loaded
<1>2. pc \in Filled BY DEF Filled
<1>3. EhdrFits(ehdr)
  <2>1. ehdr.phoff = phdrs[m.ro].offset BY <1>2 DEF Plan, Tables
  <2>2. ehdr.shoff = EhdrOf(src.buf).shoff BY DEF Footprint
  <2>3. EhdrFits(EhdrOf(src.buf))
    BY AcceptedFits, Naturals64 DEF Footprint, TypeInv, TypeOK, IsFile
  <2> QED BY <2>1, <2>2, <2>3, SegmentValues DEF EhdrFits, FitsField
<1>4. "shdrs" \in dirty => InBounds(ehdr.shoff, Len(shdrs) * ShEnt, size)
  <2> SUFFICES ASSUME "shdrs" \in dirty
               PROVE  InBounds(ehdr.shoff, Len(shdrs) * ShEnt, size)
    OBVIOUS
  <2>1. Len(shdrs) # 0 BY DEF MarksInv
  <2>2. ehdr.shoff = EhdrOf(src.buf).shoff /\ Len(shdrs) = ShnumOf(src.buf)
    BY DEF Footprint
  <2>3. src.size \in Nat /\ src.buf \in File(src.size)
        /\ ReadableEhdr(src.buf, src.size) /\ ValidShdrTable(src.buf, src.size)
    BY Naturals64 DEF Footprint, ParseElf, ValidShdrs, TypeInv, TypeOK, IsFile
  <2>4. InBounds(ehdr.shoff, Len(shdrs) * ShEnt, src.size)
    BY <2>1, <2>2, <2>3, ShdrsType
  <2>5. ehdr.shoff \in Nat /\ Len(shdrs) * ShEnt \in Nat
        /\ size \in Nat /\ src.size <= size
    <3>1. ehdr \in Ehdr /\ shdrs \in Seq(Shdr) /\ size \in U64 /\ src.size <= size
      BY DEF Footprint, TypeInv, TypeOK
    <3>2. ehdr.shoff \in Nat /\ size \in Nat BY <3>1, Naturals64 DEF Ehdr
    <3>3. Len(shdrs) \in Nat BY <3>1
    <3>4. Len(shdrs) * ShEnt \in Nat BY <3>3, SizeAssumption
    <3> QED BY <3>1, <3>2, <3>4
  <2> QED BY <2>3, <2>4, <2>5, InBoundsOfMore
<1>5. /\ \A j \in 1 .. Len(phdrs) : PhdrFits(phdrs[j])
      /\ \A j \in 1 .. Len(shdrs) : ShdrFits(shdrs[j])
      /\ \A i \in 1 .. Len(dyn.entries) : DynFits(dyn.entries[i])
  BY <1>1, PhdrsFitClass, ShdrsFitClass, DynFitsClass
<1> QED BY <1>2, <1>3, <1>4, <1>5, TablesFit DEF SerializeOk

(* The 64-bit class can hold every segment there is.                       *)
LEMMA WideSegments ==
  ASSUME TypeInv, Plan, pc = "serialize", MaxField = MaxU
  PROVE  SegmentsHoldable
<1> SUFFICES ASSUME NEW i \in {m.ro, m.rw} \ {0} PROVE Holdable(phdrs[i])
  BY DEF SegmentsHoldable
<1>1. PICK content : /\ i \in 1 .. Len(phdrs) /\ phdrs[i] \in Phdr
                     /\ Holds(phdrs[i], content)
  BY AppendedPlaced
<1>2. /\ phdrs[i].filesz <= phdrs[i].memsz
      /\ phdrs[i].offset <= MaxU - phdrs[i].memsz
      /\ phdrs[i].type = "LOAD"
  BY <1>1 DEF Holds
<1>3. phdrs[i].vaddr + phdrs[i].memsz <= MaxU
  BY <1>1, <1>2 DEF TypeInv, Shape, LoadsInRange, IndicesOf
<1>4. PhdrFits(phdrs[i]) BY <1>1, PhdrFields DEF PhdrFits
<1>5. /\ phdrs[i].offset \in Nat /\ phdrs[i].vaddr \in Nat
      /\ phdrs[i].filesz \in Nat /\ phdrs[i].memsz \in Nat
  BY <1>1, PhdrFields
<1>6. /\ phdrs[i].offset + phdrs[i].filesz <= MaxU
      /\ phdrs[i].vaddr + phdrs[i].filesz <= MaxU
  BY <1>2, <1>3, <1>5, WidthAssumption
<1> QED BY <1>4, <1>6 DEF Holdable

(* serialize_elf has room for every table; it refuses no file of the       *)
(* 64-bit class, and of the 32-bit class only those that have an appended  *)
(* segment which ends past what the class can address.                     *)
THEOREM OnlyWidthsStop == Spec => []OnlyWidthsRefused
<1>1. TypeInv /\ FootInv /\ PlanInv /\ MemInv /\ MarksInv => OnlyWidthsRefused
  <2> SUFFICES ASSUME TypeInv, FootInv, PlanInv, MemInv, MarksInv,
                      pc = "serialize", ~SerializeOk
               PROVE  /\ MaxField < MaxU
                      /\ \E i \in {m.ro, m.rw} \ {0} : ~Holdable(phdrs[i])
    BY DEF OnlyWidthsRefused
  <2>1. Footprint /\ Plan /\ Memory BY DEF FootInv, PlanInv, MemInv, Loaded
  <2>2. ~SegmentsHoldable BY <2>1, HoldableSerializes
  <2>3. MaxField # MaxU BY <2>1, <2>2, WideSegments
  <2>4. MaxField < MaxU BY <2>3, WidthAssumption
  <2> QED BY <2>2, <2>4 DEF SegmentsHoldable
<1> QED
  BY <1>1, TypesAreRight, FootprintHolds, PlanIsKept, MemoryIsKept, MarksAreKept, PTL

=============================================================================
