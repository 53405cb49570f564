-------------------------- MODULE AddImportProofs --------------------------
(***************************************************************************)
(* Theorems about AddImport, proved for every input file, every list of up *)
(* to three imports, every size of the structures and every width of the   *)
(* integers:                                                               *)
(* types; what a patch leaves alone of the data it gets (ForeignBytes);    *)
(* that every run is one of the abstract patcher that keeps foreign bytes  *)
(* (ImplementsPatch); and what becomes of prepare_modifications's plan:    *)
(* the appended segments are nobody else's, everything that moves fits     *)
(* where it is put, the dynamic table ends up in a writable segment, and   *)
(* the last segment ends where the file does, so that no part of the file  *)
(* passes for it.                                                          *)
(***************************************************************************)
EXTENDS AddImportRefinement, ElfLemmas

(* What makes the type invariant inductive: the places that the later      *)
(* calls write to exist, and a segment that ends beyond the address space  *)
(* is never in the table.                                                  *)
Appended == pc \in {"movePhdrs", "moveDynstr", "addEntries"}

(* The table keeps the segment of the dynamic table and no segment that    *)
(* runs out of the address space; the places that a call writes to have    *)
(* been planned by the calls before it.                                    *)
Shape ==
  /\ LoadsInRange(phdrs)
  /\ Loaded => dyn.phdr \in 1 .. Len(phdrs) /\ phdrs[dyn.phdr].type = "DYNAMIC"
  /\ pc \in {"idle", "read", "prepare"} => m = NoMods
  /\ pc \in {"appendRo", "appendRw"} \/ Appended
       => m.strOffs \in [1 .. Len(Imports) -> U64]
  /\ pc = "appendRw" \/ Appended => m.ro # 0
  /\ Appended /\ m.move => m.rw # 0

(* Types, and what keeps them: the inductive invariant of TypeCorrect.     *)
TypeInv == TypeOK /\ Shape

(* How many imports there are.                                             *)
LEMMA ImportCount ==
  /\ Imports \in Seq(Names) /\ Len(Imports) \in Nat
  /\ 0 < Len(Imports) /\ Len(Imports) <= 3
<1>1. Imports \in Seq(Names) BY ImportAssumption
<1>2. PICK n : n = Len(Imports) OBVIOUS
<1>3. n \in 1 .. 3 BY <1>2, ImportAssumption, Zenon
<1>4. n \in Nat /\ 0 < n /\ n <= 3 BY <1>3
<1> QED BY <1>1, <1>2, <1>4, Zenon

-----------------------------------------------------------------------------
(* Replacing an entry of a table keeps it a table of the same length.      *)

(* Assigning one element of an array leaves its length and the type of its *)
(* elements.                                                               *)
LEMMA ReplacedEntry ==
  ASSUME NEW S, NEW s \in Seq(S), NEW i \in 1 .. Len(s), NEW v \in S
  PROVE  /\ [s EXCEPT ![i] = v] \in Seq(S)
         /\ Len([s EXCEPT ![i] = v]) = Len(s)
  OBVIOUS

(* update_phoff and update_dyn_tbl_off change where a program header       *)
(* points, never what it is.                                               *)
LEMMA MovedPhdrProperty ==
  ASSUME NEW phs \in Seq(Phdr), NEW i \in 0 .. Len(phs),
         NEW off \in U64, NEW vaddr \in U64, NEW len \in U64
  PROVE  LET new == Moved(phs, i, off, vaddr, len)
         IN  /\ new \in Seq(Phdr)
             /\ Len(new) = Len(phs)
             /\ \A j \in 1 .. Len(phs) : new[j].type = phs[j].type
             /\ \A j \in 1 .. Len(phs) : j # i => new[j] = phs[j]
<1> DEFINE new == Moved(phs, i, off, vaddr, len)
<1>1. CASE i = 0
  <2>1. new = phs BY <1>1 DEF Moved
  <2> QED BY <2>1
<1>2. CASE i # 0
  <2> DEFINE p == [phs[i] EXCEPT !.offset = off, !.vaddr = vaddr,
                                 !.filesz = len, !.memsz = len]
  <2>1. i \in 1 .. Len(phs) BY <1>2
  <2>2. phs[i] \in Phdr BY <2>1
  <2>3. p \in Phdr /\ p.type = phs[i].type BY <2>2 DEF Phdr
  <2>4. new = [phs EXCEPT ![i] = p] BY <1>2 DEF Moved
  <2> HIDE DEF p, new
  <2>5. new \in Seq(Phdr) /\ Len(new) = Len(phs) BY <2>1, <2>3, <2>4, ReplacedEntry
  <2>6. \A j \in 1 .. Len(phs) : new[j].type = phs[j].type BY <2>1, <2>3, <2>4
  <2>7. \A j \in 1 .. Len(phs) : j # i => new[j] = phs[j] BY <2>4
  <2> QED BY <2>5, <2>6, <2>7 DEF new
<1> QED BY <1>1, <1>2

(* update_dynstr_range and update_dyn_tbl_off: the section header of the   *)
(* moved structure.                                                        *)
LEMMA MovedSectionProperty ==
  ASSUME NEW shs \in Seq(Shdr), NEW i \in 0 .. Len(shs),
         NEW vaddr \in U64, NEW off \in U64, NEW len \in U64
  PROVE  /\ MovedSection(shs, i, off, vaddr, len) \in Seq(Shdr)
         /\ Len(MovedSection(shs, i, off, vaddr, len)) = Len(shs)
<1> DEFINE new == MovedSection(shs, i, off, vaddr, len)
<1>1. CASE i = 0
  <2>1. new = shs BY <1>1 DEF MovedSection
  <2> QED BY <2>1
<1>2. CASE i # 0
  <2> DEFINE s == [shs[i] EXCEPT !.addr = vaddr, !.offset = off, !.size = len]
  <2>1. i \in 1 .. Len(shs) BY <1>2
  <2>2. shs[i] \in Shdr BY <2>1
  <2>3. s \in Shdr BY <2>2 DEF Shdr
  <2>4. new = [shs EXCEPT ![i] = s] BY <1>2 DEF MovedSection
  <2> HIDE DEF s, new
  <2>5. new \in Seq(Shdr) /\ Len(new) = Len(shs) BY <2>1, <2>3, <2>4, ReplacedEntry
  <2> QED BY <2>5 DEF new
<1> QED BY <1>1, <1>2

-----------------------------------------------------------------------------
(* construct_appended_ptload_phdr: where it neither aborts nor refuses,    *)
(* nothing wraps around, and the segment starts past everything before it. *)
LEMMA SegmentForProperty ==
  ASSUME TypeInv, NEW content \in U64,
         SegmentAligns(content), SegmentFits(content)
  PROVE  LET s == SegmentFor(content) IN
         /\ s \in Phdr
         /\ s.vaddr + s.memsz <= MaxU
         /\ content <= s.memsz
         /\ m.segOff <= s.offset
         /\ m.segOff + s.memsz \in U64
<1> DEFINE al == MaxLoadAlign(phdrs)
           off == AlignUp(m.segOff, al)
           va == AlignUp(MaxLoadVaddr(phdrs), al)
           ms == AlignUp(content, al)
<1>1. al \in Nat \ {0} /\ al <= MaxU
  BY MaxLoadAlignProperty, WidthAssumption DEF TypeInv, TypeOK, U64
<1>2. MaxLoadVaddr(phdrs) \in Nat
  BY MaxLoadVaddrProperty, WidthAssumption DEF TypeInv, TypeOK, Shape, U64
<1>3. m.segOff \in Nat /\ content \in Nat
  BY WidthAssumption DEF TypeInv, TypeOK, Mods, U64
<1>4. SegmentFor(content) =
        [type |-> "LOAD", write |-> FALSE, align |-> al, offset |-> off,
         vaddr |-> va, filesz |-> content, memsz |-> ms]
  BY DEF SegmentFor
<1>5. va <= MaxU - ms /\ off <= MaxU - ms
  BY <1>4 DEF SegmentFits, SegmentVaddrFits, SegmentOffsetFits
<1>6. ms \in Nat /\ content <= ms BY <1>1, <1>3, AlignUpProperty
<1>7. va \in Nat BY <1>1, <1>2, AlignUpProperty
<1>8. off \in Nat /\ m.segOff <= off BY <1>1, <1>3, AlignUpProperty
<1>9. ms <= MaxU /\ va <= MaxU /\ off <= MaxU
  BY <1>5, <1>6, <1>7, <1>8, WidthAssumption
<1> HIDE DEF al, off, va, ms
<1>10. SegmentFor(content) \in Phdr
  BY <1>1, <1>4, <1>6, <1>7, <1>8, <1>9 DEF Phdr, U64
<1>11. m.segOff + ms \in U64
  BY <1>3, <1>5, <1>6, <1>8, WidthAssumption DEF U64
<1> QED
  BY <1>4, <1>5, <1>6, <1>7, <1>8, <1>10, <1>11, WidthAssumption

(* append_new_ptload_segment adds one entry and keeps what the others are. *)
LEMMA AppendSegmentProperty ==
  ASSUME TypeInv, NEW content \in U64, NEW write \in BOOLEAN,
         AppendSegment(content, write)
  PROVE  /\ phdrs' \in Seq(Phdr) /\ Len(phdrs') = Len(phdrs) + 1
         /\ \A i \in 1 .. Len(phdrs) : phdrs'[i].type = phdrs[i].type
         /\ \A i \in 1 .. Len(phdrs) : phdrs[i].type # "PHDR" => phdrs'[i] = phdrs[i]
         /\ phdrs'[Len(phdrs) + 1] = NewSegment(content, write)
         /\ LoadsInRange(phdrs')
         /\ ehdr' \in Ehdr /\ ehdr'.shoff = ehdr.shoff
         /\ shdrs' \in Seq(Shdr) /\ Len(shdrs') = Len(shdrs)
         /\ dirty' \subseteq {"ehdr", "phdrs", "shdrs", "dyn"}
<1> DEFINE num == Len(phdrs) + 1
           pt  == UniquePhdr(phdrs, "PHDR")
           s   == NewSegment(content, write)
<1>1. /\ phdrs \in Seq(Phdr) /\ shdrs \in Seq(Shdr) /\ ehdr \in Ehdr
      /\ size \in U64 /\ LoadsInRange(phdrs)
  BY DEF TypeInv, TypeOK, Shape
<1>2. Len(phdrs) \in Nat /\ num \in Nat BY <1>1
<1>3. UpdatePhnumOk(num) /\ SegmentAligns(content) /\ SegmentFits(content)
  BY DEF AppendSegment
<1>4. s \in Phdr /\ s.vaddr + s.memsz <= MaxU
  <2>1. SegmentFor(content) \in Phdr
        /\ SegmentFor(content).vaddr + SegmentFor(content).memsz <= MaxU
    BY <1>3, SegmentForProperty
  <2> QED BY <2>1 DEF NewSegment, Phdr
<1>5. num * PhEnt \in U64 /\ num \in U64
  <2>1. ehdr.phoff \in 0 .. MaxU /\ size \in 0 .. MaxU BY <1>1 DEF Ehdr, U64
  <2>2. ehdr.phoff <= size /\ num * PhEnt <= size - ehdr.phoff
    BY <1>3 DEF UpdatePhnumOk, ResizeTableOk
  <2>3. num * PhEnt \in Nat /\ num <= num * PhEnt BY <1>2, SizeAssumption
  <2> HIDE DEF num
  <2> QED BY <1>2, <2>1, <2>2, <2>3, WidthAssumption DEF U64
<1>6. pt \in 0 .. Len(phdrs) /\ (pt # 0 => phdrs[pt].type = "PHDR")
  BY <1>1, UniquePhdrProperty
<1> DEFINE q == [phdrs[pt] EXCEPT !.filesz = num * PhEnt, !.memsz = num * PhEnt]
<1>7. ASSUME pt # 0 PROVE q \in Phdr /\ q.type = "PHDR"
  <2>1. phdrs[pt] \in Phdr BY <1>1, <1>6, <1>7
  <2> QED BY <1>5, <1>6, <1>7, <2>1 DEF Phdr
<1>8. phdrs' = [i \in 1 .. num |->
                  CASE i = num -> s [] i = pt -> q [] OTHER -> phdrs[i]]
  <2>1. phdrs' = [i \in 1 .. num |->
                    CASE i = num -> s
                      [] i = pt  -> [phdrs[i] EXCEPT !.filesz = num * PhEnt,
                                                     !.memsz = num * PhEnt]
                      [] OTHER   -> phdrs[i]]
    BY DEF AppendSegment
  <2> HIDE DEF s, pt, num
  <2> DEFINE f(i) == CASE i = num -> s
                       [] i = pt  -> [phdrs[i] EXCEPT !.filesz = num * PhEnt,
                                                      !.memsz = num * PhEnt]
                       [] OTHER   -> phdrs[i]
             g(i) == CASE i = num -> s [] i = pt -> q [] OTHER -> phdrs[i]
  <2>2. num # pt BY <1>2, <1>6 DEF num
  <2>3. ASSUME NEW i \in 1 .. num PROVE f(i) = g(i)
    <3>1. CASE i = num BY <2>2, <3>1
    <3>2. CASE i = pt
      <4>1. f(i) = [phdrs[i] EXCEPT !.filesz = num * PhEnt, !.memsz = num * PhEnt]
        BY <2>2, <3>2
      <4>2. g(i) = q
        <5> HIDE DEF q
        <5> QED BY <2>2, <3>2
      <4> QED BY <3>2, <4>1, <4>2
    <3>3. CASE i # num /\ i # pt BY <3>3
    <3> QED BY <3>1, <3>2, <3>3
  <2>4. phdrs' = [i \in 1 .. num |-> f(i)] BY <2>1
  <2> HIDE DEF f, g
  <2>5. phdrs' = [i \in 1 .. num |-> g(i)] BY <2>3, <2>4
  <2> QED BY <2>5 DEF g
<1> HIDE DEF s, q, pt
<1>9. \A i \in 1 .. Len(phdrs) :
        phdrs'[i] \in Phdr /\ phdrs'[i].type = phdrs[i].type
        /\ (i # pt => phdrs'[i] = phdrs[i])
  <2> TAKE i \in 1 .. Len(phdrs)
  <2>1. i \in 1 .. num /\ i # num BY <1>2
  <2>2. phdrs[i] \in Phdr BY <1>1
  <2>3. CASE i = pt
    <3>1. pt # 0 BY <2>3
    <3>2. phdrs'[i] = q BY <1>8, <2>1, <2>3
    <3> QED BY <1>6, <1>7, <2>3, <3>1, <3>2
  <2>4. CASE i # pt
    <3>1. phdrs'[i] = phdrs[i] BY <1>8, <2>1, <2>4
    <3> QED BY <2>2, <2>4, <3>1
  <2> QED BY <2>3, <2>4
<1>10. phdrs'[num] = s
  <2>1. num \in 1 .. num /\ num # pt BY <1>2, <1>6
  <2> QED BY <1>8, <2>1
<1>11. phdrs' \in [1 .. num -> Phdr]
  <2>1. \A i \in 1 .. num : phdrs'[i] \in Phdr
    <3>1. \A i \in 1 .. num : i = num \/ i \in 1 .. Len(phdrs) BY <1>2
    <3> QED BY <1>4, <1>9, <1>10, <3>1
  <2> HIDE DEF num
  <2> QED BY <1>8, <2>1
<1>12. phdrs' \in Seq(Phdr) /\ Len(phdrs') = num
  <2> HIDE DEF num
  <2> QED BY <1>2, <1>11, FunctionIsSequence
<1>13. LoadsInRange(phdrs')
  <2>1. ASSUME NEW i \in 1 .. num, phdrs'[i].type = "LOAD"
        PROVE  phdrs'[i].vaddr + phdrs'[i].memsz <= MaxU
    <3>1. CASE i = num BY <1>4, <1>10, <3>1
    <3>2. CASE i # num
      <4>1. i \in 1 .. Len(phdrs) BY <1>2, <3>2
      <4>2. i # pt BY <1>6, <1>9, <2>1, <4>1
      <4>3. phdrs'[i] = phdrs[i] BY <1>9, <4>1, <4>2
      <4> QED BY <1>1, <2>1, <4>1, <4>3 DEF LoadsInRange, IndicesOf
    <3> QED BY <3>1, <3>2
  <2> QED BY <1>12, <2>1 DEF LoadsInRange, IndicesOf
<1>14. ehdr' \in Ehdr /\ ehdr'.shoff = ehdr.shoff
  <2>1. ehdr' = [ehdr EXCEPT !.phnum = IF num < PN_XNUM THEN num ELSE PN_XNUM]
    BY DEF AppendSegment
  <2>2. (IF num < PN_XNUM THEN num ELSE PN_XNUM) \in U64
    BY <1>2, <1>5, EscapeAssumption, WidthAssumption DEF U64
  <2> HIDE DEF num
  <2> QED BY <1>1, <2>1, <2>2 DEF Ehdr
<1>15. shdrs' \in Seq(Shdr) /\ Len(shdrs') = Len(shdrs)
  <2>1. shdrs' = IF num < PN_XNUM THEN shdrs ELSE [shdrs EXCEPT ![1].info = num]
    BY DEF AppendSegment
  <2>2. CASE num < PN_XNUM BY <1>1, <2>1, <2>2
  <2>3. CASE ~(num < PN_XNUM)
    <3>1. shdrs # <<>> BY <1>2, <1>3, <2>3, EscapeAssumption DEF UpdatePhnumOk
    <3>2. 1 \in 1 .. Len(shdrs) BY <1>1, <3>1
    <3>3. shdrs[1] \in Shdr BY <1>1, <3>2
    <3> DEFINE sh == [shdrs[1] EXCEPT !.info = num]
    <3>4. sh \in Shdr BY <1>5, <3>3 DEF Shdr
    <3>5. shdrs' = [shdrs EXCEPT ![1] = sh] BY <2>1, <2>3
    <3> HIDE DEF sh
    <3> QED BY <1>1, <3>2, <3>4, <3>5, ReplacedEntry
  <2> QED BY <2>2, <2>3
<1>16. dirty' \subseteq {"ehdr", "phdrs", "shdrs", "dyn"}
  BY DEF AppendSegment, TypeInv, TypeOK
<1>17. \A i \in 1 .. Len(phdrs) : phdrs[i].type # "PHDR" => phdrs'[i] = phdrs[i]
  BY <1>6, <1>9
<1>18. phdrs'[Len(phdrs) + 1] = NewSegment(content, write) BY <1>10 DEF s
<1> QED BY <1>9, <1>12, <1>13, <1>14, <1>15, <1>16, <1>17, <1>18

-----------------------------------------------------------------------------
(* The type invariant, one lemma per action or group of actions.           *)

(* A zeroed context has the types of struct elf.                           *)
LEMMA EmptyTypes ==
  /\ NoEhdr \in Ehdr /\ <<>> \in Seq(Phdr) /\ <<>> \in Seq(Shdr)
  /\ NoDyn \in Dynamic /\ NoStrtab \in Strtab /\ NoOrig \in Origin /\ NoMods \in Mods
  /\ IsFile(EmptyFile) /\ EmptyFile.size = 0 /\ LoadsInRange(<<>>)
<1>1. 0 \in U64 /\ 0 \in Nat BY WidthAssumption DEF U64
<1>2. <<>> \in Seq(Dyn) /\ <<>> \in Seq(U64) OBVIOUS
<1>3. NoEhdr \in Ehdr BY <1>1 DEF NoEhdr, Ehdr
<1>4. NoDyn \in Dynamic BY <1>1, <1>2 DEF NoDyn, Dynamic
<1>5. NoStrtab \in Strtab BY <1>1 DEF NoStrtab, Strtab
<1>6. NoOrig \in Origin BY <1>1 DEF NoOrig, Origin
<1>7. NoMods \in Mods BY <1>1, <1>2 DEF NoMods, Mods
<1>8. IsFile(EmptyFile) /\ EmptyFile.size = 0
  BY <1>1 DEF IsFile, EmptyFile, File
<1>9. LoadsInRange(<<>>) BY DEF LoadsInRange, IndicesOf
<1> QED BY <1>3, <1>4, <1>5, <1>6, <1>7, <1>8, <1>9

(* Before the first run the types are right.                               *)
LEMMA InitTypes == Init => TypeInv
<1> SUFFICES ASSUME Init PROVE TypeInv OBVIOUS
<1> USE DEF Init
<1>1. /\ pc = "idle" /\ exit = "none" /\ runs \in 0 .. MaxRuns
      /\ argIn \in Paths /\ argOut \in Paths /\ sane \in BOOLEAN
  <2>1. 0 \in 0 .. MaxRuns BY FileAssumption
  <2> QED BY <2>1
<1>2. DOMAIN disk = Paths /\ \A p \in Paths : disk[p] # Missing => IsFile(disk[p])
  <2>1. PICK first \in Paths, f \in InputFiles :
          disk = [p \in Paths |-> IF p = first THEN f ELSE Missing]
    OBVIOUS
  <2> QED BY <2>1, FileAssumption
<1>3. /\ IsFile(src) /\ ehdr \in Ehdr /\ phdrs \in Seq(Phdr) /\ shdrs \in Seq(Shdr)
      /\ orig \in Origin /\ LoadsInRange(phdrs)
  BY EmptyTypes
<1>4. dyn \in Dynamic /\ dyn.phdr <= Len(phdrs) /\ dyn.shdr <= Len(shdrs)
  BY EmptyTypes DEF NoDyn
<1>5. strtab \in Strtab /\ strtab.shdr <= Len(shdrs) BY EmptyTypes DEF NoStrtab
<1>6. size \in U64 /\ buf \in File(size) BY EmptyTypes DEF IsFile
<1>7. m \in Mods /\ m.ro <= Len(phdrs) /\ m.rw <= Len(phdrs)
  BY EmptyTypes DEF NoMods
<1> QED
  BY <1>1, <1>2, <1>3, <1>4, <1>5, <1>6, <1>7
  DEF TypeInv, TypeOK, Shape, Loaded, Appended

(* Leaving main: the context is empty again.                               *)
LEMMA QuitTypes ==
  ASSUME TypeInv, NEW status \in {"success", "failure", "aborted", "killed"},
         Quit(status), DOMAIN disk' = Paths,
         \A p \in Paths : disk'[p] # Missing => IsFile(disk'[p])
  PROVE  TypeInv'
<1> USE DEF Quit, Destroyed
<1>1. /\ pc' = "idle" /\ exit' = status /\ runs' \in 0 .. MaxRuns
      /\ argIn' \in Paths /\ argOut' \in Paths /\ IsFile(src)'
      /\ sane' \in BOOLEAN
  BY DEF TypeInv, TypeOK, IsFile
<1>2. /\ ehdr' \in Ehdr /\ phdrs' \in Seq(Phdr) /\ shdrs' \in Seq(Shdr)
      /\ orig' \in Origin /\ LoadsInRange(phdrs')
  BY EmptyTypes
<1>3. dyn' \in Dynamic /\ dyn'.phdr <= Len(phdrs') /\ dyn'.shdr <= Len(shdrs')
  BY EmptyTypes DEF NoDyn
<1>4. strtab' \in Strtab /\ strtab'.shdr <= Len(shdrs') BY EmptyTypes DEF NoStrtab
<1>5. size' \in U64 /\ buf' \in File(size') BY EmptyTypes DEF IsFile
<1>6. m' \in Mods /\ m'.ro <= Len(phdrs') /\ m'.rw <= Len(phdrs')
  BY EmptyTypes DEF NoMods
<1> QED
  BY <1>1, <1>2, <1>3, <1>4, <1>5, <1>6
  DEF TypeInv, TypeOK, Shape, Loaded, Appended, IsFile, LoadsInRange, IndicesOf

(* After destroy_elf the types are right, however the run ended.           *)
LEMMA FailTypes ==
  ASSUME TypeInv, NEW status \in {"success", "failure", "aborted", "killed"},
         Quit(status), UNCHANGED disk
  PROVE  TypeInv'
<1>1. DOMAIN disk' = Paths /\ \A p \in Paths : disk'[p] # Missing => IsFile(disk'[p])
  BY DEF TypeInv, TypeOK
<1> QED BY <1>1, QuitTypes

(* A new run starts with an empty context.                                 *)
LEMMA StartTypes == TypeInv /\ Start => TypeInv'
<1> SUFFICES ASSUME TypeInv, Start PROVE TypeInv' OBVIOUS
<1>1. runs' \in 0 .. MaxRuns BY FileAssumption DEF Start, TypeInv, TypeOK
<1> QED
  BY <1>1 DEF Start, tabs, data, TypeInv, TypeOK, Shape, Loaded, Appended,
              IsFile, LoadsInRange, IndicesOf

(* parse_elf fills the context with structures of the file, and finds the  *)
(* dynamic table it remembers among the program headers.                   *)
LEMMA ReadElfTypes == TypeInv /\ ReadElf => TypeInv'
<1> SUFFICES ASSUME TypeInv, ReadElf PROVE TypeInv' OBVIOUS
<1> DEFINE f == disk[argIn]
           b == f.buf
           n == f.size
<1>1. IsFile(f) /\ ParseElf(b, n)
  BY DEF ReadElf, InputParses, TypeInv, TypeOK
<1>2. n \in U64 /\ n \in Nat /\ n <= MaxU /\ b \in File(n)
  BY <1>1, WidthAssumption DEF IsFile, U64
<1>3. /\ ehdr' = EhdrOf(b) /\ phdrs' = PhdrsOf(b) /\ shdrs' = ShdrsOf(b)
      /\ dyn' = [entries |-> DynEntriesOf(b), phdr |-> PtDynamic(b),
                 shdr |-> ShtDynamic(ShdrsOf(b))]
      /\ strtab' = StrtabOf(b) /\ dirty' = {}
      /\ buf' = b /\ size' = n /\ src' = f
      /\ orig' = [phoff |-> EhdrOf(b).phoff, phsize |-> PhnumOf(b) * PhEnt,
                  stroff |-> StrtabOf(b).off, strsz |-> StrtabOf(b).size]
  BY DEF ReadElf, Load
<1>4. pc' = "prepare" /\ UNCHANGED <<exit, runs, argIn, argOut, disk, m, sane>>
  BY DEF ReadElf
<1> HIDE DEF f, b, n
<1>5. /\ ReadableEhdr(b, n) /\ ValidShdrTable(b, n) /\ ValidPhdrTable(b, n)
  BY <1>1 DEF ParseElf, ValidShdrs, ValidPhdrs
<1>6. EhdrOf(b) \in Ehdr BY <1>2, <1>5, EhdrType
<1>7. ShdrsOf(b) \in Seq(Shdr) BY <1>2, <1>5, ShdrsType
<1>8. PhdrsOf(b) \in Seq(Phdr) /\ PhnumOf(b) * PhEnt \in U64
  BY <1>2, <1>5, PhdrsType
<1>9. /\ PtDynamic(b) \in 1 .. Len(PhdrsOf(b))
      /\ PhdrsOf(b)[PtDynamic(b)].type = "DYNAMIC"
      /\ DynEntriesOf(b) \in Seq(Dyn)
  BY <1>1, <1>2, DynamicType
<1>10. ShtDynamic(ShdrsOf(b)) \in 0 .. Len(ShdrsOf(b))
  <2> DEFINE shs == ShdrsOf(b)
             S == {i \in 1 .. Len(shs) : shs[i].type = "DYNAMIC"}
  <2>1. Len(shs) \in Nat BY <1>7
  <2>2. S \subseteq 1 .. Len(shs) OBVIOUS
  <2>3. ShtDynamic(shs) = FirstOf(S) BY DEF ShtDynamic
  <2> HIDE DEF shs, S
  <2>4. S \in SUBSET (Nat \ {0}) BY <2>1, <2>2
  <2>5. FirstOf(S) = 0 \/ FirstOf(S) \in S BY <2>4, FirstOfProperty
  <2>6. FirstOf(S) = 0 \/ FirstOf(S) \in 1 .. Len(shs) BY <2>2, <2>5
  <2>7. FirstOf(S) \in 0 .. Len(shs) BY <2>1, <2>6
  <2> QED BY <2>3, <2>7 DEF shs
<1>11. /\ StrtabOf(b).vaddr \in U64 /\ StrtabOf(b).off \in U64
       /\ StrtabOf(b).size \in U64 /\ StrtabOf(b).shdr \in 0 .. Len(ShdrsOf(b))
  BY <1>1, <1>2, StrtabType
<1>12. LoadsInRange(PhdrsOf(b)) BY <1>1, <1>2, AcceptedLoadsInRange
<1>13. ehdr' \in Ehdr /\ phdrs' \in Seq(Phdr) /\ shdrs' \in Seq(Shdr)
  BY <1>3, <1>6, <1>7, <1>8
<1>14. dyn' \in Dynamic /\ dyn'.phdr <= Len(phdrs') /\ dyn'.shdr <= Len(shdrs')
  <2>1. PtDynamic(b) \in Nat /\ PtDynamic(b) <= Len(PhdrsOf(b)) BY <1>8, <1>9
  <2>2. ShtDynamic(ShdrsOf(b)) \in Nat /\ ShtDynamic(ShdrsOf(b)) <= Len(ShdrsOf(b))
    BY <1>7, <1>10
  <2> QED BY <1>3, <1>9, <2>1, <2>2 DEF Dynamic
<1>15. strtab' \in Strtab /\ strtab'.shdr <= Len(shdrs')
  <2>1. StrtabOf(b).shdr \in Nat /\ StrtabOf(b).shdr <= Len(ShdrsOf(b)) BY <1>7, <1>11
  <2>2. StrtabOf(b) = [vaddr |-> StrtabOf(b).vaddr, off |-> StrtabOf(b).off,
                       size |-> StrtabOf(b).size, shdr |-> StrtabOf(b).shdr]
    BY DEF StrtabOf, StrtabAt
  <2> QED BY <1>3, <1>11, <2>1, <2>2 DEF Strtab
<1>16. orig' \in Origin
  <2>1. EhdrOf(b).phoff \in U64 BY <1>6 DEF Ehdr
  <2> QED BY <1>3, <1>8, <1>11, <2>1 DEF Origin
<1>17. m' \in Mods /\ m'.ro <= Len(phdrs') /\ m'.rw <= Len(phdrs')
  <2>1. m.ro = 0 /\ m.rw = 0 /\ m \in Mods
    BY DEF ReadElf, TypeInv, TypeOK, Shape, NoMods
  <2>2. 0 <= Len(phdrs') BY <1>13
  <2> QED BY <1>4, <2>1, <2>2
<1>18. Shape'
  <2>1. m' = NoMods BY <1>4 DEF ReadElf, TypeInv, Shape
  <2> QED BY <2>1, <1>3, <1>4, <1>9, <1>12
          DEF Shape, Appended, Loaded, LoadsInRange, IndicesOf
<1>19. IsFile(src)' /\ size' \in U64 /\ (buf \in File(size))'
  BY <1>1, <1>2, <1>3 DEF IsFile
<1> QED
  BY <1>3, <1>4, <1>13, <1>14, <1>15, <1>16, <1>17, <1>18, <1>19
  DEF TypeInv, TypeOK, IsFile

(* The sizes computed before the segments are appended fit in 64 bits: the *)
(* size checks of reserve_range and resize_table come first.               *)
LEMMA PrepareTypes == TypeInv /\ PrepareSizes => TypeInv'
<1> SUFFICES ASSUME TypeInv, PrepareSizes PROVE TypeInv' OBVIOUS
<1> DEFINE offs   == StrOffset(strtab.size)
           N      == Len(Imports)
           dynnum == Len(dyn.entries) + N
           move   == MoveRequired(dyn.entries)
<1>1. /\ pc = "prepare" /\ pc' = "appendRo"
      /\ offs \in [1 .. N + 1 -> U64]
      /\ dynnum <= MaxU \div DynEnt
      /\ NewPhnum(move) <= MaxU \div PhEnt
      /\ m' = [strOffs |-> SubSeq(offs, 1, N), newDynstrSz |-> offs[N + 1],
               move |-> move, newDynSz |-> IF move THEN dynnum * DynEnt ELSE 0,
               newPhsize |-> NewPhnum(move) * PhEnt,
               segOff |-> size, ro |-> 0, rw |-> 0]
      /\ UNCHANGED <<env, tabs, data, orig, sane>>
  BY DEF PrepareSizes
<1>2. /\ N \in Nat /\ Len(dyn.entries) \in Nat /\ Len(phdrs) \in Nat /\ size \in U64
  BY ImportAssumption DEF TypeInv, TypeOK, Dynamic
<1>3. dynnum * DynEnt \in U64
  <2>1. dynnum \in Nat BY <1>2
  <2>2. dynnum * DynEnt <= MaxU
    <3> HIDE DEF dynnum
    <3> QED BY <1>1, <2>1, DivisionBound, SizeAssumption, WidthAssumption
  <2>3. dynnum * DynEnt \in Nat
    <3> HIDE DEF dynnum
    <3> QED BY <2>1, SizeAssumption
  <2> QED BY <2>2, <2>3, WidthAssumption DEF U64
<1>4. NewPhnum(move) * PhEnt \in U64
  <2>1. NewPhnum(move) \in Nat BY <1>2 DEF NewPhnum
  <2> HIDE DEF move
  <2>2. NewPhnum(move) * PhEnt <= MaxU
    BY <1>1, <2>1, DivisionBound, SizeAssumption, WidthAssumption
  <2>3. NewPhnum(move) * PhEnt \in Nat BY <2>1, SizeAssumption
  <2> QED BY <2>2, <2>3, WidthAssumption DEF U64
<1>5. SubSeq(offs, 1, N) \in [1 .. N -> U64]
  <2> HIDE DEF offs, N
  <2>1. offs \in Seq(U64) /\ Len(offs) = N + 1 BY <1>1, <1>2, FunctionIsSequence
  <2>2. SubSeq(offs, 1, N) = [i \in 1 .. N |-> offs[i]] BY <1>2, <2>1
  <2>3. \A i \in 1 .. N : i \in 1 .. N + 1 BY <1>2
  <2> QED BY <1>1, <2>2, <2>3
<1>6. offs[N + 1] \in U64
  <2> HIDE DEF offs, N
  <2>1. N + 1 \in 1 .. N + 1 BY <1>2
  <2> QED BY <1>1, <2>1
<1>7. move \in BOOLEAN BY DEF MoveRequired
<1> HIDE DEF offs, dynnum, move
<1>8. 0 \in U64 /\ 0 \in Nat BY WidthAssumption DEF U64
<1>9. SubSeq(offs, 1, N) \in Seq(U64) BY <1>2, <1>5, FunctionIsSequence
<1> HIDE DEF N
<1>10. m' \in Mods
  BY <1>1, <1>2, <1>3, <1>4, <1>6, <1>7, <1>8, <1>9 DEF Mods
<1>11. m'.ro <= Len(phdrs') /\ m'.rw <= Len(phdrs')
  BY <1>1, <1>2 DEF tabs
<1>12. m'.strOffs \in [1 .. N -> U64] BY <1>1, <1>5
<1> QED
  BY <1>1, <1>10, <1>11, <1>12
  DEF TypeInv, TypeOK, Shape, Loaded, Appended, IsFile, LoadsInRange, IndicesOf,
      env, tabs, data, N

(* Appending the read-only segment grows the program header table by one   *)
(* entry and leaves the types right.                                       *)
LEMMA AppendRoTypes == TypeInv /\ AppendRo => TypeInv'
<1> SUFFICES ASSUME TypeInv, AppendRo PROVE TypeInv' OBVIOUS
<1>1. /\ pc = "appendRo" /\ pc' = IF m.move THEN "appendRw" ELSE "movePhdrs"
      /\ RoContent <= MaxU
      /\ AppendSegment(RoContent, FALSE)
      /\ m' = [m EXCEPT !.ro = Len(phdrs) + 1,
                        !.segOff = @ + SegmentFor(RoContent).memsz]
      /\ UNCHANGED <<env, dyn, strtab, data, orig, sane>>
  BY DEF AppendRo
<1>2. RoContent \in U64
  <2>1. m.newPhsize \in Nat /\ m.newDynstrSz \in Nat
    BY WidthAssumption DEF TypeInv, TypeOK, Mods, U64
  <2> QED BY <1>1, <2>1, WidthAssumption DEF RoContent, U64
<1>3. /\ phdrs' \in Seq(Phdr) /\ Len(phdrs') = Len(phdrs) + 1
      /\ \A i \in 1 .. Len(phdrs) : phdrs'[i].type = phdrs[i].type
      /\ LoadsInRange(phdrs') /\ ehdr' \in Ehdr
      /\ shdrs' \in Seq(Shdr) /\ Len(shdrs') = Len(shdrs)
      /\ dirty' \subseteq {"ehdr", "phdrs", "shdrs", "dyn"}
  BY <1>1, <1>2, AppendSegmentProperty
<1>4. m.segOff + SegmentFor(RoContent).memsz \in U64
  BY <1>1, <1>2, SegmentForProperty DEF AppendSegment
<1>5. Len(phdrs) \in Nat /\ m.ro \in Nat /\ m.rw \in Nat /\ m.ro <= Len(phdrs)
      /\ m.rw <= Len(phdrs) /\ dyn.phdr \in Nat /\ dyn.phdr <= Len(phdrs)
  BY DEF TypeInv, TypeOK, Mods, Dynamic
<1>6. m' \in Mods
  <2> DEFINE so == m.segOff + SegmentFor(RoContent).memsz
             k  == Len(phdrs) + 1
  <2>1. m \in Mods BY DEF TypeInv, TypeOK
  <2>2. k \in Nat BY <1>5
  <2>3. m' = [m EXCEPT !.ro = k, !.segOff = so] BY <1>1
  <2>4. so \in U64 BY <1>4
  <2> HIDE DEF so, k
  <2> QED BY <2>1, <2>2, <2>3, <2>4 DEF Mods
<1>7. m'.ro = Len(phdrs) + 1 /\ m'.rw = m.rw /\ m'.strOffs = m.strOffs /\ m'.move = m.move
  BY <1>1 DEF TypeInv, TypeOK, Mods
<1>8. /\ m'.ro <= Len(phdrs') /\ m'.ro # 0 /\ m'.rw <= Len(phdrs')
      /\ dyn.phdr <= Len(phdrs')
  BY <1>3, <1>5, <1>7
<1>9. TypeOK'
  BY <1>1, <1>3, <1>6, <1>8 DEF TypeInv, TypeOK, IsFile, env, data
<1>10. dyn.phdr \in 1 .. Len(phdrs) /\ phdrs[dyn.phdr].type = "DYNAMIC"
  BY <1>1 DEF TypeInv, Shape, Loaded
<1>11. dyn.phdr \in 1 .. Len(phdrs') /\ phdrs'[dyn.phdr].type = "DYNAMIC"
  BY <1>3, <1>5, <1>10
<1>12. m'.strOffs \in [1 .. Len(Imports) -> U64]
  BY <1>1, <1>7 DEF TypeInv, Shape
<1>13. Shape'
  BY <1>1, <1>3, <1>7, <1>8, <1>11, <1>12
  DEF Shape, Appended, Loaded, LoadsInRange, IndicesOf
<1> QED BY <1>9, <1>13 DEF TypeInv

(* Appending the writable segment grows the program header table by one    *)
(* entry and leaves the types right.                                       *)
LEMMA AppendRwTypes == TypeInv /\ AppendRw => TypeInv'
<1> SUFFICES ASSUME TypeInv, AppendRw PROVE TypeInv' OBVIOUS
<1>1. /\ pc = "appendRw" /\ pc' = "movePhdrs"
      /\ AppendSegment(RwContent, TRUE)
      /\ m' = [m EXCEPT !.rw = Len(phdrs) + 1,
                        !.segOff = @ + SegmentFor(RwContent).memsz]
      /\ UNCHANGED <<env, dyn, strtab, data, orig, sane>>
  BY DEF AppendRw
<1>2. RwContent \in U64 BY DEF TypeInv, TypeOK, Mods, RwContent
<1>3. /\ phdrs' \in Seq(Phdr) /\ Len(phdrs') = Len(phdrs) + 1
      /\ \A i \in 1 .. Len(phdrs) : phdrs'[i].type = phdrs[i].type
      /\ LoadsInRange(phdrs') /\ ehdr' \in Ehdr
      /\ shdrs' \in Seq(Shdr) /\ Len(shdrs') = Len(shdrs)
      /\ dirty' \subseteq {"ehdr", "phdrs", "shdrs", "dyn"}
  BY <1>1, <1>2, AppendSegmentProperty
<1>4. m.segOff + SegmentFor(RwContent).memsz \in U64
  BY <1>1, <1>2, SegmentForProperty DEF AppendSegment
<1>5. Len(phdrs) \in Nat /\ m.ro \in Nat /\ m.ro <= Len(phdrs) /\ m.ro # 0
      /\ dyn.phdr \in Nat /\ dyn.phdr <= Len(phdrs)
  BY <1>1 DEF TypeInv, TypeOK, Shape, Mods, Dynamic
<1>6. m' \in Mods
  <2> DEFINE so == m.segOff + SegmentFor(RwContent).memsz
             k  == Len(phdrs) + 1
  <2>1. m \in Mods BY DEF TypeInv, TypeOK
  <2>2. k \in Nat BY <1>5
  <2>3. m' = [m EXCEPT !.rw = k, !.segOff = so] BY <1>1
  <2>4. so \in U64 BY <1>4
  <2> HIDE DEF so, k
  <2> QED BY <2>1, <2>2, <2>3, <2>4 DEF Mods
<1>7. m'.rw = Len(phdrs) + 1 /\ m'.ro = m.ro /\ m'.strOffs = m.strOffs
  BY <1>1 DEF TypeInv, TypeOK, Mods
<1>8. /\ m'.ro <= Len(phdrs') /\ m'.ro # 0 /\ m'.rw <= Len(phdrs') /\ m'.rw # 0
      /\ dyn.phdr <= Len(phdrs')
  BY <1>3, <1>5, <1>7
<1>9. TypeOK'
  BY <1>1, <1>3, <1>6, <1>8 DEF TypeInv, TypeOK, IsFile, env, data
<1>10. dyn.phdr \in 1 .. Len(phdrs) /\ phdrs[dyn.phdr].type = "DYNAMIC"
  BY <1>1 DEF TypeInv, Shape, Loaded
<1>11. dyn.phdr \in 1 .. Len(phdrs') /\ phdrs'[dyn.phdr].type = "DYNAMIC"
  BY <1>3, <1>5, <1>10
<1>12. m'.strOffs \in [1 .. Len(Imports) -> U64]
  BY <1>1, <1>7 DEF TypeInv, Shape
<1>13. Shape'
  BY <1>1, <1>3, <1>7, <1>8, <1>11, <1>12
  DEF Shape, Appended, Loaded, LoadsInRange, IndicesOf
<1> QED BY <1>9, <1>13 DEF TypeInv

(* The context and the disk while the segments are filled.                 *)
LEMMA FillFacts ==
  ASSUME TypeInv, Appended
  PROVE  /\ m.ro \in 1 .. Len(phdrs) /\ phdrs[m.ro] \in Phdr
         /\ m.move => m.rw \in 1 .. Len(phdrs) /\ phdrs[m.rw] \in Phdr
         /\ dyn.phdr \in 1 .. Len(phdrs) /\ phdrs[dyn.phdr] \in Phdr
         /\ phdrs[dyn.phdr].type = "DYNAMIC"
         /\ Len(phdrs) \in Nat /\ Len(dyn.entries) \in Nat
         /\ Len(phdrs) * PhEnt \in Nat
<1>1. phdrs \in Seq(Phdr) /\ m \in Mods /\ m.ro <= Len(phdrs) /\ m.rw <= Len(phdrs)
      /\ dyn \in Dynamic
  BY DEF TypeInv, TypeOK
<1>2. Len(phdrs) \in Nat /\ Len(dyn.entries) \in Nat BY <1>1 DEF Dynamic
<1>3. m.ro # 0 /\ (m.move => m.rw # 0) BY DEF TypeInv, Shape
<1>4. m.ro \in 1 .. Len(phdrs) /\ (m.move => m.rw \in 1 .. Len(phdrs))
  BY <1>1, <1>2, <1>3 DEF Mods
<1>5. dyn.phdr \in 1 .. Len(phdrs) /\ phdrs[dyn.phdr].type = "DYNAMIC"
  BY DEF TypeInv, Shape, Loaded, Appended
<1>6. Len(phdrs) * PhEnt \in Nat BY <1>2, SizeAssumption
<1> QED BY <1>1, <1>2, <1>4, <1>5, <1>6

(* move_program_headers keeps the data buffer as long as size says.        *)
LEMMA MovePhdrsTypes == TypeInv /\ MovePhdrs => TypeInv'
<1> SUFFICES ASSUME TypeInv, MovePhdrs PROVE TypeInv' OBVIOUS
<1> DEFINE to  == phdrs[m.ro].offset
           len == Len(phdrs) * PhEnt
           pt  == UniquePhdr(phdrs, "PHDR")
           va  == VaddrFromOff(phdrs, to, len).val
<1>1. /\ pc = "movePhdrs" /\ pc' = "moveDynstr"
      /\ MoveOk(size, orig.phoff, orig.phsize, to, m.newPhsize)
      /\ InBounds(to, len, MovedSize(size, to, m.newPhsize))
      /\ buf' = MovedData(TRUE, buf, size, orig.phoff, orig.phsize, to, m.newPhsize)
      /\ size' = MovedSize(size, to, m.newPhsize)
      /\ ehdr' = [ehdr EXCEPT !.phoff = to]
      /\ phdrs' = Moved(phdrs, pt, to, va, len)
      /\ dirty' = dirty \cup {"ehdr", "phdrs"}
      /\ UNCHANGED <<env, shdrs, dyn, strtab, orig, m, sane>>
  BY DEF MovePhdrs, PhdrsMoveOk
<1>2. Appended BY <1>1 DEF Appended
<1>3. /\ phdrs \in Seq(Phdr) /\ ehdr \in Ehdr /\ size \in U64 /\ buf \in File(size)
      /\ orig.phoff \in U64 /\ orig.phsize \in U64 /\ m.newPhsize \in U64
      /\ LoadsInRange(phdrs)
  BY DEF TypeInv, TypeOK, Shape, Origin, Mods
<1>4. to \in U64 /\ len \in Nat BY <1>2, FillFacts DEF Phdr
<1> HIDE DEF to
<1>5. size' \in U64 /\ buf' \in File(size')
  BY <1>1, <1>3, <1>4, MovedDataType
<1>6. len \in U64
  <2>1. MovedSize(size, to, m.newPhsize) \in U64 BY <1>1, <1>3, <1>4, MovedDataType
  <2> HIDE DEF len
  <2> QED BY <1>1, <1>4, <2>1, WidthAssumption DEF InBounds, U64
<1> HIDE DEF len
<1>7. va \in U64
  <2>1. to \in Nat BY <1>4, WidthAssumption DEF U64
  <2> QED BY <1>3, <1>4, <2>1, VaddrFromOffProperty
<1>8. pt \in 0 .. Len(phdrs) /\ (pt # 0 => phdrs[pt].type = "PHDR")
  BY <1>3, UniquePhdrProperty
<1> HIDE DEF va, pt
<1>9. /\ phdrs' \in Seq(Phdr) /\ Len(phdrs') = Len(phdrs)
      /\ \A j \in 1 .. Len(phdrs) : phdrs'[j].type = phdrs[j].type
      /\ \A j \in 1 .. Len(phdrs) : j # pt => phdrs'[j] = phdrs[j]
  <2> DEFINE new == Moved(phdrs, pt, to, va, len)
  <2>1. phdrs' = new BY <1>1
  <2>2. phdrs \in Seq(Phdr) /\ pt \in 0 .. Len(phdrs) /\ to \in U64
        /\ va \in U64 /\ len \in U64
    BY <1>3, <1>4, <1>6, <1>7, <1>8
  <2>3. new \in Seq(Phdr) BY <2>2, MovedPhdrProperty
  <2>4. Len(new) = Len(phdrs) BY <2>2, MovedPhdrProperty
  <2>5. \A j \in 1 .. Len(phdrs) : new[j].type = phdrs[j].type
    BY <2>2, MovedPhdrProperty
  <2>6. \A j \in 1 .. Len(phdrs) : j # pt => new[j] = phdrs[j]
    BY <2>2, MovedPhdrProperty
  <2> HIDE DEF new
  <2> QED BY <2>1, <2>3, <2>4, <2>5, <2>6
<1>10. LoadsInRange(phdrs')
  BY <1>3, <1>8, <1>9 DEF LoadsInRange, IndicesOf
<1>11. ehdr' \in Ehdr BY <1>1, <1>3, <1>4 DEF Ehdr
<1>12. TypeOK'
  BY <1>1, <1>5, <1>9, <1>11 DEF TypeInv, TypeOK, IsFile, env
<1>13. Shape'
  <2>1. dyn.phdr \in 1 .. Len(phdrs') /\ phdrs'[dyn.phdr].type = "DYNAMIC"
    BY <1>2, <1>9, FillFacts
  <2>2. m.strOffs \in [1 .. Len(Imports) -> U64] /\ m.ro # 0 /\ (m.move => m.rw # 0)
    BY <1>2 DEF TypeInv, Shape
  <2> QED BY <1>1, <1>10, <2>1, <2>2
          DEF Shape, Appended, Loaded, LoadsInRange, IndicesOf
<1> QED BY <1>12, <1>13 DEF TypeInv

(* Copying the import names into the buffer leaves a buffer of the same    *)
(* size.                                                                   *)
LEMMA WithStringsType ==
  ASSUME NEW n \in Nat, NEW b \in File(n), NEW off \in Nat,
         m.strOffs \in [1 .. Len(Imports) -> U64]
  PROVE  WithStrings(b, off) \in File(n)
<1> DEFINE In(s, i) == i \in off + m.strOffs[s] ..
                              off + m.strOffs[s] + NameLen[Imports[s]] - 1
           at(i) == CHOOSE s \in 1 .. Len(Imports) : In(s, i)
           c(i) == IF \E s \in 1 .. Len(Imports) : In(s, i)
                   THEN <<"chr", Imports[at(i)], i - off - m.strOffs[at(i)]>>
                   ELSE b[i]
<1>1. ASSUME NEW i \in 0 .. n - 1 PROVE c(i) \in Cell
  <2>1. CASE \E s \in 1 .. Len(Imports) : In(s, i)
    <3>1. at(i) \in 1 .. Len(Imports) /\ In(at(i), i) BY <2>1
    <3> DEFINE k == i - off - m.strOffs[at(i)]
    <3>2. m.strOffs[at(i)] \in Nat /\ Imports[at(i)] \in Names
      <4>1. m.strOffs[at(i)] \in U64 BY <3>1
      <4> HIDE DEF at
      <4>2. Imports[at(i)] \in Names BY <3>1, ImportAssumption
      <4> QED BY <4>1, <4>2, WidthAssumption DEF U64
    <3>3. k \in Nat
      <4>1. NameLen[Imports[at(i)]] \in Nat BY <3>2, NameAssumption
      <4> HIDE DEF at
      <4> QED BY <3>1, <3>2, <4>1
    <3>4. c(i) = <<"chr", Imports[at(i)], k>> BY <2>1
    <3> HIDE DEF k, c, at
    <3> QED BY <3>2, <3>3, <3>4, EncodedCells
  <2>2. CASE ~\E s \in 1 .. Len(Imports) : In(s, i)
    <3>1. c(i) = b[i] BY <2>2
    <3> QED BY <3>1 DEF File
  <2> QED BY <2>1, <2>2
<1>2. WithStrings(b, off) = [i \in 0 .. n - 1 |-> c(i)] BY DEF WithStrings, File
<1> HIDE DEF c
<1> QED BY <1>1, <1>2 DEF File

(* grow_move_modify_dynstr keeps the types and the lengths of the tables.  *)
LEMMA MoveDynstrTypes ==
  ASSUME TypeInv, MoveDynstr
  PROVE  /\ TypeInv'
         /\ Len(dyn'.entries) = Len(dyn.entries)
         /\ Len(shdrs') = Len(shdrs)
<1> DEFINE off  == NewDynstrOff
           va   == NewDynstrVaddr
           at   == NewDynstrAt
           sz   == m.newDynstrSz
           st   == DynIndex(dyn.entries, "STRTAB")
           ss   == DynIndex(dyn.entries, "STRSZ")
           mbuf == MovedData(FALSE, buf, size, orig.stroff, orig.strsz, off, sz)
<1>1. /\ pc = "moveDynstr" /\ pc' = "addEntries"
      /\ MoveOk(size, orig.stroff, orig.strsz, off, sz) /\ at.ok
      /\ HasUniqueDyn(dyn.entries, "STRTAB") /\ HasUniqueDyn(dyn.entries, "STRSZ")
      /\ buf' = WithStrings(mbuf, off)
      /\ size' = MovedSize(size, off, sz)
      /\ dyn' = [dyn EXCEPT !.entries[st].val = va, !.entries[ss].val = sz]
      /\ strtab' = [strtab EXCEPT !.vaddr = va, !.off = at.val, !.size = sz]
      /\ shdrs' = MovedSection(shdrs, strtab.shdr, at.val, va, sz)
      /\ dirty' = dirty \cup DirtyByDynstr
      /\ UNCHANGED <<env, ehdr, phdrs, orig, m, sane>>
  BY DEF MoveDynstr, DynstrMoveOk
<1>2. Appended BY <1>1 DEF Appended
<1>3. /\ phdrs \in Seq(Phdr) /\ shdrs \in Seq(Shdr) /\ size \in U64 /\ buf \in File(size)
      /\ orig.stroff \in U64 /\ orig.strsz \in U64 /\ sz \in U64
      /\ m.newPhsize \in U64 /\ strtab \in Strtab /\ strtab.shdr <= Len(shdrs)
      /\ dyn.entries \in Seq(Dyn) /\ dyn \in Dynamic
  BY DEF TypeInv, TypeOK, Origin, Mods, Dynamic
<1>4. off \in Nat /\ va \in Nat
  <2>1. phdrs[m.ro].offset \in U64 /\ phdrs[m.ro].vaddr \in U64
    BY <1>2, FillFacts DEF Phdr
  <2>2. phdrs[m.ro].offset \in Nat /\ phdrs[m.ro].vaddr \in Nat /\ m.newPhsize \in Nat
    BY <1>3, <2>1, WidthAssumption DEF U64
  <2>3. phdrs[m.ro].offset + m.newPhsize \in Nat /\ phdrs[m.ro].vaddr + m.newPhsize \in Nat
    BY <2>2
  <2> QED BY <2>3 DEF NewDynstrOff, NewDynstrVaddr
<1> HIDE DEF off, va, at, sz
<1>5. off \in U64 BY <1>1, <1>3, <1>4, WidthAssumption DEF MoveOk, U64
<1>6. sz \in Nat BY <1>3, WidthAssumption DEF U64
<1>7. va \in U64 /\ at.val \in U64
  <2>1. at = OffFromVaddr(phdrs, va, sz) BY DEF at, va, sz, NewDynstrAt
  <2>2. at.val \in U64 /\ va + sz <= MaxU
    BY <1>1, <1>3, <1>4, <1>6, <2>1, OffFromVaddrProperty
  <2> QED BY <1>4, <1>6, <2>2, WidthAssumption DEF U64
<1>8. size' \in U64 /\ mbuf \in File(size')
  BY <1>1, <1>3, <1>5, MovedDataType
<1> HIDE DEF mbuf
<1>9. m.strOffs \in [1 .. Len(Imports) -> U64] /\ m.ro # 0 /\ (m.move => m.rw # 0)
  BY <1>2 DEF TypeInv, Shape
<1>10. buf' \in File(size')
  <2>1. size' \in Nat BY <1>8, WidthAssumption DEF U64
  <2> QED BY <1>1, <1>4, <1>8, <1>9, <2>1, WithStringsType
<1>11. /\ dyn' \in Dynamic /\ dyn'.phdr = dyn.phdr /\ dyn'.shdr = dyn.shdr
       /\ Len(dyn'.entries) = Len(dyn.entries)
  <2>1. st \in 1 .. Len(dyn.entries) /\ ss \in 1 .. Len(dyn.entries)
    BY <1>1, <1>3, DynIndexProperty
  <2> HIDE DEF st, ss
  <2> DEFINE e1 == [dyn.entries EXCEPT ![st].val = va]
             e2 == [e1 EXCEPT ![ss].val = sz]
  <2>2. e1 \in Seq(Dyn) /\ Len(e1) = Len(dyn.entries)
    <3> DEFINE d == [dyn.entries[st] EXCEPT !.val = va]
    <3>1. dyn.entries[st] \in Dyn BY <1>3, <2>1
    <3>2. d \in Dyn BY <1>7, <3>1 DEF Dyn
    <3>3. e1 = [dyn.entries EXCEPT ![st] = d] OBVIOUS
    <3> HIDE DEF d, e1
    <3> QED BY <1>3, <2>1, <3>2, <3>3, ReplacedEntry
  <2> HIDE DEF e1
  <2>3. e2 \in Seq(Dyn) /\ Len(e2) = Len(e1)
    <3> DEFINE d == [e1[ss] EXCEPT !.val = sz]
    <3>1. e1[ss] \in Dyn BY <2>1, <2>2
    <3>2. d \in Dyn BY <1>3, <3>1 DEF Dyn
    <3>3. e2 = [e1 EXCEPT ![ss] = d] OBVIOUS
    <3> HIDE DEF d, e2
    <3> QED BY <2>1, <2>2, <3>2, <3>3, ReplacedEntry
  <2> HIDE DEF e2
  <2>4. dyn' = [dyn EXCEPT !.entries = e2] BY <1>1 DEF e1, e2
  <2> QED BY <1>3, <2>2, <2>3, <2>4 DEF Dynamic
<1>12. strtab' \in Strtab /\ strtab'.shdr = strtab.shdr
  BY <1>1, <1>3, <1>7 DEF Strtab
<1>13. shdrs' \in Seq(Shdr) /\ Len(shdrs') = Len(shdrs)
  <2> DEFINE k   == strtab.shdr
             o   == at.val
             new == MovedSection(shdrs, k, o, va, sz)
  <2>1. shdrs \in Seq(Shdr) /\ k \in 0 .. Len(shdrs) /\ o \in U64 /\ va \in U64 /\ sz \in U64
    BY <1>3, <1>7 DEF Strtab
  <2>2. shdrs' = new BY <1>1
  <2> HIDE DEF k, o
  <2>3. new \in Seq(Shdr) BY <2>1, MovedSectionProperty
  <2>4. Len(new) = Len(shdrs) BY <2>1, MovedSectionProperty
  <2> HIDE DEF new
  <2> QED BY <2>2, <2>3, <2>4
<1>14. dirty' \subseteq {"ehdr", "phdrs", "shdrs", "dyn"}
  BY <1>1 DEF TypeInv, TypeOK, DirtyByDynstr
<1>15. TypeOK'
  BY <1>1, <1>8, <1>10, <1>11, <1>12, <1>13, <1>14 DEF TypeInv, TypeOK, IsFile, env
<1>16. Shape'
  BY <1>1, <1>2, <1>9, <1>11, FillFacts
  DEF TypeInv, Shape, Appended, Loaded, LoadsInRange, IndicesOf
<1> QED BY <1>11, <1>13, <1>15, <1>16 DEF TypeInv

(* Copying the new entries over the table's DT_NULLs leaves its length     *)
(* alone.                                                                  *)
LEMMA WithImportsType ==
  ASSUME NEW es \in Seq(Dyn), m.strOffs \in [1 .. Len(Imports) -> U64]
  PROVE  WithImports(es) \in Seq(Dyn) /\ Len(WithImports(es)) = Len(es)
<1> DEFINE k == FirstNull(es)
           N == Len(Imports)
           e(i) == IF i \in k .. k + N - 1
                   THEN [tag |-> "NEEDED", val |-> m.strOffs[i - k + 1]] ELSE es[i]
<1>1. Len(es) \in Nat /\ N \in Nat BY ImportAssumption
<1>2. k \in Nat
  <2>1. DynIndices(es, "NULL") \in SUBSET (Nat \ {0}) BY DEF DynIndices
  <2>2. FirstOf(DynIndices(es, "NULL")) \in Nat BY <2>1, FirstOfProperty
  <2>3. k \in {1, FirstOf(DynIndices(es, "NULL"))} BY <2>2, MaxOfTwo DEF FirstNull
  <2> QED BY <2>2, <2>3
<1>3. WithImports(es) = [i \in 1 .. Len(es) |-> e(i)] BY DEF WithImports
<1> HIDE DEF k, N
<1>4. ASSUME NEW i \in 1 .. Len(es) PROVE e(i) \in Dyn
  <2>1. CASE i \in k .. k + N - 1
    <3>1. i - k + 1 \in 1 .. N BY <1>1, <1>2, <2>1
    <3>2. m.strOffs[i - k + 1] \in U64 BY <3>1 DEF N
    <3> QED BY <2>1, <3>2 DEF Dyn
  <2>2. CASE ~(i \in k .. k + N - 1) BY <2>2
  <2> QED BY <2>1, <2>2
<1> HIDE DEF e
<1>5. WithImports(es) \in [1 .. Len(es) -> Dyn] BY <1>3, <1>4
<1> QED BY <1>1, <1>5, FunctionIsSequence

(* resize_table gives a table of the length asked for.                     *)
LEMMA ResizedDynType ==
  ASSUME NEW es \in Seq(Dyn), NEW num \in Nat
  PROVE  Resized(es, num, ZeroDyn) \in Seq(Dyn) /\ Len(Resized(es, num, ZeroDyn)) = num
<1>1. ASSUME NEW i \in 1 .. num
      PROVE  (IF i <= Len(es) THEN es[i] ELSE ZeroDyn) \in Dyn
  <2>1. CASE i <= Len(es)
    <3>1. i \in 1 .. Len(es) BY <2>1
    <3> QED BY <2>1, <3>1
  <2>2. CASE ~(i <= Len(es)) BY <2>2, ZeroStructures
  <2> QED BY <2>1, <2>2
<1>2. Resized(es, num, ZeroDyn) \in [1 .. num -> Dyn] BY <1>1 DEF Resized
<1> QED BY <1>2, FunctionIsSequence

(* Adding the entries in place keeps the types.                            *)
LEMMA AddEntriesInPlaceTypes == TypeInv /\ AddEntriesInPlace => TypeInv'
<1> SUFFICES ASSUME TypeInv, AddEntriesInPlace PROVE TypeInv' OBVIOUS
<1> DEFINE es == WithImports(dyn.entries)
<1>1. /\ pc = "addEntries" /\ pc' = "serialize"
      /\ dyn' = [dyn EXCEPT !.entries = es]
      /\ UNCHANGED <<env, ehdr, phdrs, shdrs, strtab, dirty, data, orig, m, sane>>
  BY DEF AddEntriesInPlace
<1>2. dyn \in Dynamic BY DEF TypeInv, TypeOK
<1>3. Appended BY <1>1 DEF Appended
<1>4. es \in Seq(Dyn)
  <2>1. dyn.entries \in Seq(Dyn) BY <1>2 DEF Dynamic
  <2>2. m.strOffs \in [1 .. Len(Imports) -> U64] BY <1>3 DEF TypeInv, Shape
  <2> QED BY <2>1, <2>2, WithImportsType
<1> HIDE DEF es
<1>5. dyn' \in Dynamic /\ dyn'.phdr = dyn.phdr /\ dyn'.shdr = dyn.shdr
  BY <1>1, <1>2, <1>4 DEF Dynamic
<1>6. TypeOK' BY <1>1, <1>5 DEF TypeInv, TypeOK, IsFile, env, data
<1>7. Shape'
  BY <1>1, <1>3, <1>5, FillFacts
  DEF TypeInv, Shape, Appended, Loaded, LoadsInRange, IndicesOf
<1> QED BY <1>6, <1>7 DEF TypeInv

(* Moving the dynamic table keeps the types, gives the table its planned   *)
(* length and changes no program header but PT_DYNAMIC.                    *)
LEMMA AddEntriesMovedTypes ==
  ASSUME TypeInv, AddEntriesMoved
  PROVE  /\ TypeInv'
         /\ Len(dyn'.entries) = NewDynNum
         /\ Len(shdrs') = Len(shdrs)
         /\ \A j \in 1 .. Len(phdrs) : j # dyn.phdr => phdrs'[j] = phdrs[j]
<1> DEFINE d   == dyn.phdr
           po  == phdrs[d].offset
           ps  == phdrs[d].filesz
           off == NewDynOff
           va  == NewDynVaddr
           num == NewDynNum
           len == num * DynEnt
           es  == WithImports(Resized(dyn.entries, num, ZeroDyn))
<1>1. /\ pc = "addEntries" /\ m.move /\ pc' = "serialize"
      /\ len = m.newDynSz
      /\ MoveOk(size, po, ps, off, m.newDynSz)
      /\ buf' = MovedData(TRUE, buf, size, po, ps, off, m.newDynSz)
      /\ size' = MovedSize(size, off, m.newDynSz)
      /\ phdrs' = Moved(phdrs, d, off, va, len)
      /\ shdrs' = MovedSection(shdrs, dyn.shdr, off, va, len)
      /\ dyn' = [dyn EXCEPT !.entries = es]
      /\ dirty' = dirty \cup {"phdrs"} \cup (IF dyn.shdr = 0 THEN {} ELSE {"shdrs"})
      /\ UNCHANGED <<env, ehdr, strtab, orig, m, sane>>
  BY DEF AddEntriesMoved, DynMoveOk, DynSizeAsPlanned
<1>2. Appended BY <1>1 DEF Appended
<1>3. /\ phdrs \in Seq(Phdr) /\ shdrs \in Seq(Shdr) /\ size \in U64 /\ buf \in File(size)
      /\ m.newDynSz \in U64 /\ dyn \in Dynamic /\ dyn.entries \in Seq(Dyn)
      /\ dyn.shdr \in Nat /\ dyn.shdr <= Len(shdrs) /\ LoadsInRange(phdrs)
  BY DEF TypeInv, TypeOK, Shape, Mods, Dynamic
<1>4. d \in 1 .. Len(phdrs) /\ phdrs[d].type = "DYNAMIC" /\ Len(phdrs) \in Nat
  BY <1>2, FillFacts
<1>5. po \in U64 /\ ps \in U64 /\ off \in U64
  <2>1. phdrs[d] \in Phdr /\ phdrs[m.rw] \in Phdr BY <1>1, <1>2, FillFacts
  <2> QED BY <2>1 DEF Phdr, NewDynOff
<1>6. va \in U64
  <2> DEFINE cur == Len(dyn.entries) * DynEnt
  <2>1. Len(dyn.entries) \in Nat BY <1>3
  <2>2. cur \in Nat BY <2>1, SizeAssumption
  <2>3. off \in Nat BY <1>5, WidthAssumption DEF U64
  <2>4. va = VaddrFromOff(phdrs, off, cur).val BY DEF NewDynVaddr
  <2> HIDE DEF cur, off, va
  <2> QED BY <1>3, <2>2, <2>3, <2>4, VaddrFromOffProperty
<1>7. len \in U64 BY <1>1, <1>3
<1>8. num \in Nat
  <2>1. Len(dyn.entries) \in Nat /\ Len(Imports) \in Nat BY <1>3, ImportAssumption
  <2> QED BY <2>1 DEF NewDynNum
<1>9. es \in Seq(Dyn) /\ Len(es) = num
  <2> DEFINE rs == Resized(dyn.entries, num, ZeroDyn)
  <2>1. rs \in Seq(Dyn) /\ Len(rs) = num
    <3> HIDE DEF num
    <3> QED BY <1>3, <1>8, ResizedDynType
  <2>2. m.strOffs \in [1 .. Len(Imports) -> U64] BY <1>2 DEF TypeInv, Shape
  <2> HIDE DEF rs
  <2>3. WithImports(rs) \in Seq(Dyn) /\ Len(WithImports(rs)) = Len(rs)
    BY <2>1, <2>2, WithImportsType
  <2> QED BY <2>1, <2>3 DEF rs
<1> HIDE DEF po, ps, off, va, num, len, es, d
<1>10. size' \in U64 /\ buf' \in File(size') BY <1>1, <1>3, <1>5, MovedDataType
<1>11. /\ phdrs' \in Seq(Phdr) /\ Len(phdrs') = Len(phdrs)
       /\ \A j \in 1 .. Len(phdrs) : phdrs'[j].type = phdrs[j].type
       /\ \A j \in 1 .. Len(phdrs) : j # d => phdrs'[j] = phdrs[j]
  <2> DEFINE new == Moved(phdrs, d, off, va, len)
  <2>1. phdrs' = new BY <1>1
  <2>2. phdrs \in Seq(Phdr) /\ d \in 0 .. Len(phdrs) /\ off \in U64
        /\ va \in U64 /\ len \in U64
    BY <1>3, <1>4, <1>5, <1>6, <1>7
  <2>3. new \in Seq(Phdr) BY <2>2, MovedPhdrProperty
  <2>4. Len(new) = Len(phdrs) BY <2>2, MovedPhdrProperty
  <2>5. \A j \in 1 .. Len(phdrs) : new[j].type = phdrs[j].type
    BY <2>2, MovedPhdrProperty
  <2>6. \A j \in 1 .. Len(phdrs) : j # d => new[j] = phdrs[j]
    BY <2>2, MovedPhdrProperty
  <2> HIDE DEF new
  <2> QED BY <2>1, <2>3, <2>4, <2>5, <2>6
<1>12. LoadsInRange(phdrs')
  BY <1>3, <1>4, <1>11 DEF LoadsInRange, IndicesOf
<1>13. shdrs' \in Seq(Shdr) /\ Len(shdrs') = Len(shdrs)
  <2> DEFINE k   == dyn.shdr
             new == MovedSection(shdrs, k, off, va, len)
  <2>1. shdrs \in Seq(Shdr) /\ k \in 0 .. Len(shdrs) /\ off \in U64 /\ va \in U64 /\ len \in U64
    BY <1>3, <1>5, <1>6, <1>7
  <2>2. shdrs' = new BY <1>1
  <2> HIDE DEF k
  <2>3. new \in Seq(Shdr) BY <2>1, MovedSectionProperty
  <2>4. Len(new) = Len(shdrs) BY <2>1, MovedSectionProperty
  <2> HIDE DEF new
  <2> QED BY <2>2, <2>3, <2>4
<1>14. dyn' \in Dynamic /\ dyn'.phdr = d /\ dyn'.shdr = dyn.shdr /\ dyn'.entries = es
  BY <1>1, <1>3, <1>9 DEF Dynamic, d
<1>15. TypeOK'
  <2>1. d <= Len(phdrs) BY <1>4
  <2> QED BY <1>1, <1>10, <1>11, <1>13, <1>14, <2>1 DEF TypeInv, TypeOK, IsFile, env
<1>16. Shape'
  BY <1>1, <1>4, <1>11, <1>12, <1>14
  DEF Shape, Appended, Loaded, LoadsInRange, IndicesOf
<1> QED BY <1>9, <1>11, <1>13, <1>14, <1>15, <1>16 DEF TypeInv, d, num

(* Each of the writes that serialize_elf makes leaves a buffer of cells.   *)
LEMMA WithTablesType ==
  ASSUME TypeInv, pc = "serialize", SerializeOk
  PROVE  \A b \in File(size) : /\ "ehdr" \in dirty => WithEhdr(b) \in File(size)
                               /\ "phdrs" \in dirty => WithPhdrs(b) \in File(size)
                               /\ "shdrs" \in dirty => WithShdrs(b) \in File(size)
                               /\ "dyn" \in dirty => WithDyn(b) \in File(size)
<1>1. /\ phdrs \in Seq(Phdr) /\ shdrs \in Seq(Shdr) /\ ehdr \in Ehdr
      /\ dyn.entries \in Seq(Dyn) /\ size \in Nat
  BY WidthAssumption DEF TypeInv, TypeOK, Dynamic, U64
<1>2. <<ehdr>> \in Seq(Ehdr) BY <1>1
<1>3. /\ ehdr.phoff \in Nat /\ ehdr.shoff \in Nat
      /\ phdrs[dyn.phdr].offset \in Nat
  <2>1. phdrs[dyn.phdr] \in Phdr BY <1>1 DEF TypeInv, Shape, Loaded
  <2>2. phdrs[dyn.phdr].offset \in U64 BY <2>1 DEF Phdr
  <2>3. ehdr.phoff \in U64 /\ ehdr.shoff \in U64 BY <1>1 DEF Ehdr
  <2>4. \A x \in U64 : x \in Nat BY WidthAssumption DEF U64
  <2> QED BY <2>2, <2>3, <2>4
<1>4. ASSUME "ehdr" \in dirty PROVE \A b \in File(size) : WithEhdr(b) \in File(size)
  <2>1. EhdrFits(ehdr) BY <1>4 DEF SerializeOk
  <2>2. \A i \in 1 .. Len(<<ehdr>>) : EhdrFits(<<ehdr>>[i]) BY <2>1
  <2> QED BY <1>1, <1>2, <2>2, WrittenTableType DEF WithEhdr
<1>5. ASSUME "phdrs" \in dirty PROVE \A b \in File(size) : WithPhdrs(b) \in File(size)
  <2>1. \A i \in 1 .. Len(phdrs) : PhdrFits(phdrs[i]) BY <1>5 DEF SerializeOk
  <2> QED BY <1>1, <1>3, <2>1, WrittenTableType DEF WithPhdrs
<1>6. ASSUME "shdrs" \in dirty PROVE \A b \in File(size) : WithShdrs(b) \in File(size)
  <2>1. \A i \in 1 .. Len(shdrs) : ShdrFits(shdrs[i]) BY <1>6 DEF SerializeOk
  <2> QED BY <1>1, <1>3, <2>1, WrittenTableType DEF WithShdrs
<1>7. ASSUME "dyn" \in dirty PROVE \A b \in File(size) : WithDyn(b) \in File(size)
  <2>1. \A i \in 1 .. Len(dyn.entries) : DynFits(dyn.entries[i])
    BY <1>7 DEF SerializeOk
  <2> QED BY <1>1, <1>3, <2>1, WrittenTableType DEF WithDyn
<1> QED BY <1>4, <1>5, <1>6, <1>7

(* serialize_elf leaves a buffer of the same size.                         *)
LEMMA SerializedType ==
  ASSUME TypeInv, pc = "serialize", SerializeOk
  PROVE  Serialized \in File(size)
<1>1. buf \in File(size) BY DEF TypeInv, TypeOK
<1> QED BY <1>1, WithTablesType DEF Serialized

(* serialize_elf keeps the types, also when it fails.                      *)
LEMMA SerializeTypes == TypeInv /\ Serialize => TypeInv'
<1> SUFFICES ASSUME TypeInv, Serialize PROVE TypeInv' OBVIOUS
<1>1. CASE ~SerializeOk /\ Fail BY <1>1, FailTypes DEF Fail
<1>2. CASE /\ SerializeOk /\ pc' = "check"
           /\ buf' = Serialized /\ dirty' = {}
           /\ UNCHANGED <<env, ehdr, phdrs, shdrs, dyn, strtab, size, orig, m, sane>>
  <2>1. pc = "serialize" BY DEF Serialize
  <2>2. buf' \in File(size') BY <1>2, <2>1, SerializedType
  <2> QED
    BY <1>2, <2>1, <2>2 DEF TypeInv, TypeOK, Shape, Appended, Loaded, LoadsInRange,
                            IndicesOf, IsFile, env
<1> QED BY <1>1, <1>2 DEF Serialize

(* The second parse only sets a flag.                                      *)
LEMMA SanityCheckTypes == TypeInv /\ SanityCheck => TypeInv'
<1> SUFFICES ASSUME TypeInv, SanityCheck PROVE TypeInv' OBVIOUS
<1>1. sane' \in BOOLEAN BY DEF SanityCheck, ParseElf
<1> QED
  BY <1>1 DEF SanityCheck, TypeInv, TypeOK, Shape, Appended, Loaded, LoadsInRange,
              IndicesOf, IsFile, env, tabs, data

(* Whatever write_file leaves behind is a file.                            *)
LEMMA OutputIsFile ==
  ASSUME TypeInv, NEW f \in Partial \cup {Patched}
  PROVE  IsFile(f)
<1>1. size \in U64 /\ size \in Nat /\ size <= MaxU /\ buf \in File(size)
  BY WidthAssumption DEF TypeInv, TypeOK, U64
<1>2. IsFile(Patched) BY <1>1 DEF IsFile, Patched
<1>3. ASSUME NEW n \in Cuts, n < size PROVE IsFile(Prefix(Patched, n))
  <2>1. n \in Nat /\ n \in U64
    BY <1>1, <1>3, FileAssumption, WidthAssumption DEF U64
  <2>2. \A i \in 0 .. n - 1 : buf[i] \in Cell BY <1>1, <1>3, <2>1 DEF File
  <2> QED BY <2>1, <2>2 DEF IsFile, Prefix, Patched, File
<1> QED BY <1>2, <1>3, EmptyTypes DEF Partial

(* Whatever write_file leaves on the disk is a file.                       *)
LEMMA DiskTypes ==
  ASSUME TypeInv, NEW f \in Partial \cup {Patched}, disk' = [disk EXCEPT ![argOut] = f]
  PROVE  DOMAIN disk' = Paths /\ \A p \in Paths : disk'[p] # Missing => IsFile(disk'[p])
  BY OutputIsFile DEF TypeInv, TypeOK

(* Between two calls of write_file only the output file changes.           *)
LEMMA WritingTypes ==
  ASSUME TypeInv, NEW f \in Partial \cup {Patched}, disk' = [disk EXCEPT ![argOut] = f],
         pc \in {"open", "write"}, pc' \in {"write", "close"},
         UNCHANGED <<exit, runs, argIn, argOut, src, tabs, data, orig, m, sane>>
  PROVE  TypeInv'
<1>1. DOMAIN disk' = Paths /\ \A p \in Paths : disk'[p] # Missing => IsFile(disk'[p])
  BY DiskTypes
<1> QED
  BY <1>1 DEF TypeInv, TypeOK, Shape, Appended, Loaded, LoadsInRange,
              IndicesOf, IsFile, tabs, data

(* Truncating the output leaves a file.                                    *)
LEMMA OpenOutputTypes == TypeInv /\ OpenOutput => TypeInv'
<1> SUFFICES ASSUME TypeInv, OpenOutput PROVE TypeInv' OBVIOUS
<1>1. CASE Fail BY <1>1, FailTypes DEF Fail
<1>2. CASE /\ pc' = "write"
           /\ disk' = [disk EXCEPT ![argOut] = EmptyFile]
           /\ UNCHANGED <<exit, runs, argIn, argOut, src, tabs, data, orig, m, sane>>
  <2>1. EmptyFile \in Partial \cup {Patched} BY DEF Partial
  <2> QED BY <1>2, <2>1, WritingTypes DEF OpenOutput
<1> QED BY <1>1, <1>2 DEF OpenOutput

(* A complete or partial write leaves a file.                              *)
LEMMA WriteOutputTypes == TypeInv /\ WriteOutput => TypeInv'
<1> SUFFICES ASSUME TypeInv, WriteOutput PROVE TypeInv' OBVIOUS
<1>1. PICK f \in Partial \cup {Patched} :
        /\ disk' = [disk EXCEPT ![argOut] = f]
        /\ \/ /\ pc' = "close"
              /\ UNCHANGED <<exit, runs, argIn, argOut, src, tabs, data, orig, m, sane>>
           \/ f # Patched /\ Quit("failure")
  BY DEF WriteOutput
<1>2. CASE Quit("failure") BY <1>1, <1>2, DiskTypes, QuitTypes
<1>3. CASE /\ pc' = "close"
           /\ UNCHANGED <<exit, runs, argIn, argOut, src, tabs, data, orig, m, sane>>
  BY <1>1, <1>3, WritingTypes DEF WriteOutput
<1> QED BY <1>1, <1>2, <1>3

(* Closing the output leaves a file.                                       *)
LEMMA CloseOutputTypes == TypeInv /\ CloseOutput => TypeInv'
<1> SUFFICES ASSUME TypeInv, CloseOutput PROVE TypeInv' OBVIOUS
<1>1. CASE Fail BY <1>1, FailTypes DEF Fail
<1>2. CASE /\ disk' = [disk EXCEPT ![argOut] = Patched]
           /\ Quit(IF sane THEN "success" ELSE "failure")
  <2> DEFINE status == IF sane THEN "success" ELSE "failure"
  <2>1. status \in {"success", "failure", "aborted", "killed"} OBVIOUS
  <2>2. Quit(status) BY <1>2
  <2> HIDE DEF status
  <2> QED BY <1>2, <2>1, <2>2, DiskTypes, QuitTypes
<1> QED BY <1>1, <1>2 DEF CloseOutput

(* No step breaks the types: one case per call of main.                    *)
LEMMA NextTypes == TypeInv /\ [Next]_vars => TypeInv'
<1> SUFFICES ASSUME TypeInv, [Next]_vars PROVE TypeInv' OBVIOUS
<1>1. CASE Start BY <1>1, StartTypes
<1>2. CASE ReadElf BY <1>2, ReadElfTypes
<1>3. CASE PrepareSizes BY <1>3, PrepareTypes
<1>4. CASE AppendRo BY <1>4, AppendRoTypes
<1>5. CASE AppendRw BY <1>5, AppendRwTypes
<1>6. CASE MovePhdrs BY <1>6, MovePhdrsTypes
<1>7. CASE MoveDynstr BY <1>7, MoveDynstrTypes
<1>8. CASE AddEntriesInPlace BY <1>8, AddEntriesInPlaceTypes
<1>9. CASE AddEntriesMoved BY <1>9, AddEntriesMovedTypes
<1>10. CASE Serialize BY <1>10, SerializeTypes
<1>11. CASE SanityCheck BY <1>11, SanityCheckTypes
<1>12. CASE OpenOutput BY <1>12, OpenOutputTypes
<1>13. CASE WriteOutput BY <1>13, WriteOutputTypes
<1>14. CASE CloseOutput BY <1>14, CloseOutputTypes
<1>15. CASE CallFails BY <1>15, FailTypes DEF CallFails, Fail
<1>16. CASE Aborts BY <1>16, FailTypes DEF Aborts
<1>17. CASE Kill BY <1>17, FailTypes DEF Kill
<1>18. CASE UNCHANGED vars
  BY <1>18 DEF vars, env, tabs, data, TypeInv, TypeOK, Shape, Appended, Loaded,
               LoadsInRange, IndicesOf, IsFile
<1> QED
  BY <1>1, <1>2, <1>3, <1>4, <1>5, <1>6, <1>7, <1>8, <1>9, <1>10, <1>11, <1>12,
     <1>13, <1>14, <1>15, <1>16, <1>17, <1>18 DEF Next

(* No sum, product or alignment that the patcher computes ever wraps: for  *)
(* every input file the structures, offsets and sizes that the code keeps  *)
(* in 64-bit fields are the mathematical ones, and no access leaves the    *)
(* tables.                                                                 *)
THEOREM TypesAreRight == Spec => []TypeInv
<1>1. Init => TypeInv BY InitTypes
<1>2. TypeInv /\ [Next]_vars => TypeInv' BY NextTypes
<1> QED BY <1>1, <1>2, PTL DEF Spec

(* The types of struct elf and struct mod_ctx hold in every state:         *)
(* offsets, sizes and addresses fit 64 bits, the tables have the lengths   *)
(* their indices need, and the buffer is as long as its size says.         *)
THEOREM TypeCorrect == Spec => []TypeOK
<1>1. TypeInv => TypeOK BY DEF TypeInv
<1> QED BY <1>1, TypesAreRight, PTL

-----------------------------------------------------------------------------
(* elf-add-import touches nothing of the input but the tables it moves or  *)
(* rewrites.                                                               *)

(* A byte of the input that belongs to none of the rewritten structures.   *)
Foreign(i) ==
  /\ i \in 0 .. src.size - 1
  /\ \A r \in Rewritten(src.buf) : ~Within(i, r)

(* Where every later write goes: to the old place of a structure, or       *)
(* behind the end of the input.                                            *)
Footprint ==
  LET b == src.buf
  IN  /\ ParseElf(b, src.size)
      /\ size >= src.size
      /\ \A i \in 0 .. src.size - 1 : Foreign(i) => buf[i] = b[i]
      /\ orig = [phoff |-> EhdrOf(b).phoff, phsize |-> PhnumOf(b) * PhEnt,
                 stroff |-> StrtabOf(b).off, strsz |-> StrtabOf(b).size]
      /\ ehdr.shoff = EhdrOf(b).shoff
      /\ Len(shdrs) = ShnumOf(b)
      /\ pc # "prepare" => m.segOff >= src.size
      /\ \A i \in {m.ro, m.rw} \ {0} :
            phdrs[i].type = "LOAD" /\ phdrs[i].offset >= src.size
      /\ pc \in {"moveDynstr", "addEntries", "serialize"} => ehdr.phoff >= src.size
      /\ Len(dyn.entries) * DynEnt = phdrs[dyn.phdr].filesz
      /\ \/ <<phdrs[dyn.phdr].offset, phdrs[dyn.phdr].filesz>> = DynRange(b)
         \/ /\ pc \in {"serialize", "check", "open", "write", "close"}
            /\ phdrs[dyn.phdr].offset >= src.size

(* What has happened to the bytes so far, whenever there are any.          *)
FootInv == Loaded => Footprint

-----------------------------------------------------------------------------
(* prepare_move_data changes nothing below its destination but the range   *)
(* it is told to move away from.                                           *)
LEMMA MoveKeeps ==
  ASSUME NEW n \in U64, NEW b, NEW from \in U64, NEW len \in U64,
         NEW to \in U64, NEW newLen \in U64, NEW wipe,
         MoveOk(n, from, len, to, newLen),
         NEW i \in Nat, i < n, i < to, i < from \/ from + len <= i
  PROVE  MovedData(wipe, b, n, from, len, to, newLen)[i] = b[i]
<1>1. /\ n \in Nat /\ from \in Nat /\ len \in Nat /\ to \in Nat /\ newLen \in Nat
  BY WidthAssumption DEF U64
<1>2. i \notin Cleaned(from, len, to, newLen)
  <2>1. /\ Min({from + len, to}) \in Nat /\ Min({from + len, to}) <= from + len
    BY <1>1, MinOfTwo
  <2>2. Max({from + len, to}) \in Nat /\ to <= Max({from + len, to})
    BY <1>1, MaxOfTwo
  <2>3. i \notin from .. Min({from + len, to}) - 1 BY <1>1, <2>1
  <2>4. i \notin Max({from + len, to}) .. to + newLen - 1 BY <1>1, <2>2
  <2> QED BY <2>3, <2>4 DEF Cleaned
<1>3. i \notin to .. to + newLen - 1 BY <1>1
<1>4. i \notin to .. to + Min({len, newLen}) - 1 BY <1>1, MinOfTwo
<1>5. i \in 0 .. MovedSize(n, to, newLen) - 1
  <2>1. MovedSize(n, to, newLen) \in Nat /\ n <= MovedSize(n, to, newLen)
    BY <1>1, MaxOfTwo DEF MovedSize
  <2> QED BY <1>1, <2>1
<1> DEFINE C == Cleaned(from, len, to, newLen)
           k == Min({len, newLen})
           sz == MovedSize(n, to, newLen)
<1>6. MovedData(wipe, b, n, from, len, to, newLen)[i] =
        CASE i \in C -> Filler
          [] wipe /\ i \in to .. to + newLen - 1 -> Zero
          [] ~wipe /\ i \in to .. to + k - 1 -> b[from + (i - to)]
          [] OTHER -> IF i < n THEN b[i] ELSE Zero
  BY <1>5 DEF MovedData
<1> HIDE DEF C, k
<1> QED BY <1>2, <1>3, <1>4, <1>6 DEF C, k

(* serialize_arr writes the table's own range and nothing else.            *)
LEMMA SerializeKeeps ==
  ASSUME NEW b \in File(size), NEW i \in 0 .. size - 1
  PROVE  /\ i \notin 0 .. EhSize - 1 => WithEhdr(b)[i] = b[i]
         /\ i \notin ehdr.phoff .. ehdr.phoff + Len(phdrs) * PhEnt - 1
               => WithPhdrs(b)[i] = b[i]
         /\ i \notin ehdr.shoff .. ehdr.shoff + Len(shdrs) * ShEnt - 1
               => WithShdrs(b)[i] = b[i]
         /\ LET off == phdrs[dyn.phdr].offset IN
            i \notin off .. off + Len(dyn.entries) * DynEnt - 1 => WithDyn(b)[i] = b[i]
<1>1. DOMAIN b = 0 .. size - 1 BY DEF File
<1>2. Len(<<ehdr>>) * EhSize = EhSize /\ 0 + EhSize - 1 = EhSize - 1
  BY SizeAssumption
<1>3. ASSUME i \notin 0 .. EhSize - 1 PROVE WithEhdr(b)[i] = b[i]
  BY <1>1, <1>2, <1>3 DEF WithEhdr, WriteTable
<1>4. ASSUME i \notin ehdr.phoff .. ehdr.phoff + Len(phdrs) * PhEnt - 1
      PROVE  WithPhdrs(b)[i] = b[i]
  BY <1>1, <1>4 DEF WithPhdrs, WriteTable
<1>5. ASSUME i \notin ehdr.shoff .. ehdr.shoff + Len(shdrs) * ShEnt - 1
      PROVE  WithShdrs(b)[i] = b[i]
  BY <1>1, <1>5 DEF WithShdrs, WriteTable
<1>6. LET off == phdrs[dyn.phdr].offset IN
      i \notin off .. off + Len(dyn.entries) * DynEnt - 1 => WithDyn(b)[i] = b[i]
  BY <1>1 DEF WithDyn, WriteTable
<1> QED BY <1>3, <1>4, <1>5, <1>6

(* The structures of the input that a foreign byte is outside of.          *)
LEMMA ForeignOutside ==
  ASSUME NEW i, Foreign(i)
  PROVE  /\ ~Within(i, EhdrRange)
         /\ ~Within(i, PhdrsRange(src.buf)) /\ ~Within(i, ShdrsRange(src.buf))
         /\ ~Within(i, DynRange(src.buf)) /\ ~Within(i, StrtabRange(src.buf))
  BY DEF Foreign, Rewritten

-----------------------------------------------------------------------------
(* The footprint, action by action.                                        *)

(* Parsing takes the file as it is, so the footprint is empty and the      *)
(* remembered ranges are the file's.                                       *)
LEMMA ReadElfFoot == TypeInv /\ ReadElf => Footprint'
<1> SUFFICES ASSUME TypeInv, ReadElf PROVE Footprint' OBVIOUS
<1> DEFINE f == disk[argIn]
           b == f.buf
           n == f.size
<1>1. IsFile(f) /\ ParseElf(b, n) /\ pc' = "prepare" /\ m' = m
  BY DEF ReadElf, InputParses, TypeInv, TypeOK
<1>2. n \in U64 /\ n \in Nat /\ n <= MaxU /\ b \in File(n)
  BY <1>1, WidthAssumption DEF IsFile, U64
<1>3. /\ ehdr' = EhdrOf(b) /\ phdrs' = PhdrsOf(b) /\ shdrs' = ShdrsOf(b)
      /\ dyn' = [entries |-> DynEntriesOf(b), phdr |-> PtDynamic(b),
                 shdr |-> ShtDynamic(ShdrsOf(b))]
      /\ buf' = b /\ size' = n /\ src' = f
      /\ orig' = [phoff |-> EhdrOf(b).phoff, phsize |-> PhnumOf(b) * PhEnt,
                  stroff |-> StrtabOf(b).off, strsz |-> StrtabOf(b).size]
  BY DEF ReadElf, Load
<1>4. m = NoMods BY DEF ReadElf, TypeInv, Shape
<1> HIDE DEF f, b, n
<1>5. src'.buf = b /\ src'.size = n BY <1>3 DEF b, n
<1>6. Len(ShdrsOf(b)) = ShnumOf(b)
  BY <1>1, <1>2, ShdrsType DEF ParseElf, ValidShdrs
<1>7. Len(DynEntriesOf(b)) * DynEnt = PhdrsOf(b)[PtDynamic(b)].filesz
  BY <1>1, <1>2, DynamicType
<1>8. {m'.ro, m'.rw} \ {0} = {} BY <1>1, <1>4 DEF NoMods
<1>9. n >= n BY <1>2
<1> QED
  BY <1>1, <1>3, <1>5, <1>6, <1>7, <1>8, <1>9 DEF Footprint, DynRange

(* prepare_modifications plans the segments behind the end of the file.    *)
LEMMA PrepareFoot == TypeInv /\ Footprint /\ PrepareSizes => Footprint'
<1> SUFFICES ASSUME TypeInv, Footprint, PrepareSizes PROVE Footprint' OBVIOUS
<1>1. /\ pc = "prepare" /\ pc' = "appendRo"
      /\ m'.segOff = size /\ m'.ro = 0 /\ m'.rw = 0
      /\ UNCHANGED <<src, ehdr, phdrs, shdrs, dyn, buf, size, orig>>
  BY DEF PrepareSizes, env, tabs, data
<1>2. {m'.ro, m'.rw} \ {0} = {} BY <1>1
<1>3. m'.segOff >= src.size BY <1>1 DEF Footprint
<1> QED BY <1>1, <1>2, <1>3 DEF Footprint, Foreign

(* Appending a segment leaves the data alone and puts the segment past it. *)
LEMMA AppendFoot ==
  ASSUME TypeInv, Footprint, pc \in {"appendRo", "appendRw"},
         pc' \in {"appendRw", "movePhdrs"},
         NEW content \in U64, NEW write \in BOOLEAN, AppendSegment(content, write),
         m'.segOff = m.segOff + SegmentFor(content).memsz,
         \/ m'.ro = Len(phdrs) + 1 /\ m'.rw = m.rw
         \/ m'.rw = Len(phdrs) + 1 /\ m'.ro = m.ro,
         UNCHANGED <<src, dyn, buf, size, orig>>
  PROVE  Footprint'
<1> DEFINE num == Len(phdrs) + 1
           d   == dyn.phdr
<1>1. SegmentAligns(content) /\ SegmentFits(content) BY DEF AppendSegment
<1>2. /\ SegmentFor(content) \in Phdr
      /\ m.segOff <= SegmentFor(content).offset
  BY <1>1, SegmentForProperty
<1>3. /\ Len(phdrs') = num
      /\ \A i \in 1 .. Len(phdrs) : phdrs[i].type # "PHDR" => phdrs'[i] = phdrs[i]
      /\ phdrs'[num] = NewSegment(content, write)
      /\ ehdr'.shoff = ehdr.shoff /\ Len(shdrs') = Len(shdrs)
  BY AppendSegmentProperty
<1>4. /\ m.segOff \in Nat /\ src.size \in Nat /\ m.segOff >= src.size
      /\ SegmentFor(content).offset \in Nat /\ SegmentFor(content).memsz \in Nat
  <2>1. m.segOff \in U64 /\ src.size \in U64
    BY DEF TypeInv, TypeOK, Mods, IsFile
  <2>2. SegmentFor(content).offset \in U64 /\ SegmentFor(content).memsz \in U64
    BY <1>2 DEF Phdr
  <2>3. \A x \in U64 : x \in Nat BY WidthAssumption DEF U64
  <2>4. m.segOff >= src.size BY DEF Footprint
  <2> QED BY <2>1, <2>2, <2>3, <2>4
<1>5. phdrs'[num].type = "LOAD" /\ phdrs'[num].offset >= src.size
  <2>1. /\ NewSegment(content, write).type = "LOAD"
        /\ NewSegment(content, write).offset = SegmentFor(content).offset
    BY DEF NewSegment, SegmentFor
  <2> QED BY <1>2, <1>3, <1>4, <2>1
<1>6. ASSUME NEW i \in {m.ro, m.rw} \ {0}
      PROVE  phdrs'[i].type = "LOAD" /\ phdrs'[i].offset >= src.size
  <2>1. phdrs[i].type = "LOAD" /\ phdrs[i].offset >= src.size BY DEF Footprint
  <2>2. i \in 1 .. Len(phdrs) BY DEF TypeInv, TypeOK, Mods
  <2> QED BY <1>3, <2>1, <2>2
<1>7. \A i \in {m'.ro, m'.rw} \ {0} :
        phdrs'[i].type = "LOAD" /\ phdrs'[i].offset >= src.size
  BY <1>5, <1>6
<1>8. phdrs'[d] = phdrs[d]
  <2>1. d \in 1 .. Len(phdrs) /\ phdrs[d].type = "DYNAMIC"
    BY DEF TypeInv, Shape, Loaded
  <2> QED BY <1>3, <2>1
<1>9. m'.segOff >= src.size BY <1>4
<1> HIDE DEF num, d
<1> QED BY <1>3, <1>7, <1>8, <1>9 DEF Footprint, Foreign, d

(* The read-only segment lies behind the input.                            *)
LEMMA AppendRoFoot == TypeInv /\ Footprint /\ AppendRo => Footprint'
<1> SUFFICES ASSUME TypeInv, Footprint, AppendRo PROVE Footprint' OBVIOUS
<1>1. RoContent \in U64
  <2>1. m.newPhsize \in Nat /\ m.newDynstrSz \in Nat
    BY WidthAssumption DEF TypeInv, TypeOK, Mods, U64
  <2>2. RoContent <= MaxU BY DEF AppendRo
  <2> QED BY <2>1, <2>2, WidthAssumption DEF RoContent, U64
<1>2. /\ pc = "appendRo" /\ pc' \in {"appendRw", "movePhdrs"}
      /\ AppendSegment(RoContent, FALSE)
      /\ UNCHANGED <<src, dyn, buf, size, orig>>
  BY DEF AppendRo, env, data
<1>3. /\ m'.segOff = m.segOff + SegmentFor(RoContent).memsz
      /\ m'.ro = Len(phdrs) + 1 /\ m'.rw = m.rw
  BY DEF AppendRo, TypeInv, TypeOK, Mods
<1> QED BY <1>1, <1>2, <1>3, AppendFoot

(* The writable segment lies behind the input.                             *)
LEMMA AppendRwFoot == TypeInv /\ Footprint /\ AppendRw => Footprint'
<1> SUFFICES ASSUME TypeInv, Footprint, AppendRw PROVE Footprint' OBVIOUS
<1>1. RwContent \in U64 BY DEF RwContent, TypeInv, TypeOK, Mods
<1>2. /\ pc = "appendRw" /\ pc' \in {"appendRw", "movePhdrs"}
      /\ AppendSegment(RwContent, TRUE)
      /\ UNCHANGED <<src, dyn, buf, size, orig>>
  BY DEF AppendRw, env, data
<1>3. /\ m'.segOff = m.segOff + SegmentFor(RwContent).memsz
      /\ m'.rw = Len(phdrs) + 1 /\ m'.ro = m.ro
  BY DEF AppendRw, TypeInv, TypeOK, Mods
<1> QED BY <1>1, <1>2, <1>3, AppendFoot

(* Relocating one program header leaves the others as they are.            *)
LEMMA MovedKeepsOthers ==
  ASSUME NEW phs \in Seq(Phdr), NEW i, NEW off, NEW vaddr, NEW len,
         NEW j \in 1 .. Len(phs), j # i
  PROVE  Moved(phs, i, off, vaddr, len)[j] = phs[j]
  BY DEF Moved

(* move_program_headers leaves alone what lies outside the old table.      *)
LEMMA MovePhdrsKeeps ==
  ASSUME TypeInv, Footprint, MovePhdrs,
         NEW i \in 0 .. src.size - 1, ~Within(i, PhdrsRange(src.buf))
  PROVE  buf'[i] = buf[i]
<1> DEFINE to == phdrs[m.ro].offset
           sz == m.newPhsize
<1>1. /\ pc = "movePhdrs"
      /\ MoveOk(size, orig.phoff, orig.phsize, to, sz)
      /\ buf' = MovedData(TRUE, buf, size, orig.phoff, orig.phsize, to, sz)
  BY DEF MovePhdrs, PhdrsMoveOk
<1>2. Appended BY <1>1 DEF Appended
<1>3. /\ size \in U64 /\ src.size \in U64
      /\ orig.phoff \in U64 /\ orig.phsize \in U64 /\ sz \in U64
  BY DEF TypeInv, TypeOK, Origin, Mods, IsFile
<1>4. to \in U64 /\ to >= src.size
  BY <1>2, FillFacts DEF Footprint, Phdr
<1> HIDE DEF to, sz
<1>5. /\ size \in Nat /\ src.size \in Nat /\ to \in Nat /\ size >= src.size
      /\ orig.phoff \in Nat /\ orig.phsize \in Nat
  BY <1>3, <1>4, WidthAssumption DEF U64, Footprint
<1>6. i < orig.phoff \/ orig.phoff + orig.phsize <= i
  <2>1. ~Within(i, <<orig.phoff, orig.phsize>>) BY DEF Footprint, PhdrsRange
  <2> QED BY <1>5, <2>1 DEF Within
<1>7. i \in Nat /\ i < size /\ i < to BY <1>4, <1>5
<1>8. MovedData(TRUE, buf, size, orig.phoff, orig.phsize, to, sz)[i] = buf[i]
  <2> DEFINE w == TRUE
  <2> HIDE DEF w
  <2>1. /\ size \in U64 /\ orig.phoff \in U64 /\ orig.phsize \in U64 /\ sz \in U64
        /\ to \in U64 /\ MoveOk(size, orig.phoff, orig.phsize, to, sz)
        /\ i \in Nat /\ i < size /\ i < to
    BY <1>1, <1>3, <1>4, <1>7
  <2>2. MovedData(w, buf, size, orig.phoff, orig.phsize, to, sz)[i] = buf[i]
    BY <1>6, <2>1, MoveKeeps, SMTT(30)
  <2> QED BY <2>2 DEF w
<1> QED BY <1>1, <1>8

(* move_program_headers cleans the old table and fills the new place.      *)
LEMMA MovePhdrsFoot == TypeInv /\ Footprint /\ MovePhdrs => Footprint'
<1> SUFFICES ASSUME TypeInv, Footprint, MovePhdrs PROVE Footprint' OBVIOUS
<1> DEFINE to  == phdrs[m.ro].offset
           len == Len(phdrs) * PhEnt
           pt  == UniquePhdr(phdrs, "PHDR")
           va  == VaddrFromOff(phdrs, to, len).val
           sz  == m.newPhsize
<1>1. /\ pc = "movePhdrs" /\ pc' = "moveDynstr"
      /\ MoveOk(size, orig.phoff, orig.phsize, to, sz)
      /\ buf' = MovedData(TRUE, buf, size, orig.phoff, orig.phsize, to, sz)
      /\ size' = MovedSize(size, to, sz)
      /\ ehdr' = [ehdr EXCEPT !.phoff = to]
      /\ phdrs' = Moved(phdrs, pt, to, va, len)
      /\ UNCHANGED <<src, shdrs, dyn, orig, m>>
  BY DEF MovePhdrs, PhdrsMoveOk, env
<1>2. Appended BY <1>1 DEF Appended
<1>3. /\ phdrs \in Seq(Phdr) /\ ehdr \in Ehdr /\ size \in U64 /\ buf \in File(size)
      /\ orig.phoff \in U64 /\ orig.phsize \in U64 /\ sz \in U64 /\ src.size \in U64
  BY DEF TypeInv, TypeOK, Origin, Mods, IsFile
<1>4. m.ro \in 1 .. Len(phdrs) /\ phdrs[m.ro].type = "LOAD" /\ to >= src.size
  BY <1>2, FillFacts DEF Footprint
<1>5. to \in U64 BY <1>2, FillFacts DEF Phdr
<1>6. pt # 0 => phdrs[pt].type = "PHDR" BY <1>3, UniquePhdrProperty
<1>7. \A j \in 1 .. Len(phdrs) : phdrs[j].type # "PHDR" => phdrs'[j] = phdrs[j]
  <2> TAKE j \in 1 .. Len(phdrs)
  <2> HAVE phdrs[j].type # "PHDR"
  <2>1. CASE pt = 0 BY <1>1, <2>1 DEF Moved
  <2>2. CASE pt # 0
    <3>1. j # pt BY <1>6, <2>2
    <3> HIDE DEF pt, to, va, len
    <3>2. Moved(phdrs, pt, to, va, len)[j] = phdrs[j] BY <1>3, <3>1, MovedKeepsOthers
    <3> QED BY <1>1, <3>2
  <2> QED BY <2>1, <2>2
<1> HIDE DEF to, len, pt, va, sz
<1>8. size' >= size
  <2>1. size' \in U64 /\ size <= size' BY <1>1, <1>3, <1>5, MovedDataType
  <2> QED BY <2>1, <1>3, WidthAssumption DEF U64
<1>9. size >= src.size /\ src.size \in Nat /\ size \in Nat /\ size' \in Nat
  <2>1. size' \in U64 BY <1>1, <1>3, <1>5, MovedDataType
  <2>2. \A x \in U64 : x \in Nat BY WidthAssumption DEF U64
  <2> QED BY <1>3, <2>1, <2>2 DEF Footprint
<1>10. ASSUME NEW i \in 0 .. src.size - 1, Foreign(i) PROVE buf'[i] = src.buf[i]
  BY <1>10, ForeignOutside, MovePhdrsKeeps DEF Footprint
<1>11. size' >= src.size BY <1>8, <1>9
<1>12. ehdr'.shoff = ehdr.shoff /\ ehdr'.phoff >= src.size
  BY <1>1, <1>3, <1>4 DEF Ehdr
<1>13. phdrs'[dyn.phdr] = phdrs[dyn.phdr] BY <1>2, <1>7, FillFacts
<1>14. \A i \in {m.ro, m.rw} \ {0} :
         phdrs'[i].type = "LOAD" /\ phdrs'[i].offset >= src.size
  <2> TAKE i \in {m.ro, m.rw} \ {0}
  <2>1. phdrs[i].type = "LOAD" /\ phdrs[i].offset >= src.size BY DEF Footprint
  <2>2. i \in 1 .. Len(phdrs) BY DEF TypeInv, TypeOK, Mods
  <2> QED BY <1>7, <2>1, <2>2
<1> QED
  BY <1>1, <1>10, <1>11, <1>12, <1>13, <1>14 DEF Footprint, Foreign

(* The strings are written behind the end of the input.                    *)
LEMMA WithStringsKeeps ==
  ASSUME NEW n \in Nat, NEW b \in File(n), NEW off \in Nat, NEW i \in Nat,
         i < n, i < off, m.strOffs \in [1 .. Len(Imports) -> U64]
  PROVE  WithStrings(b, off)[i] = b[i]
<1>1. ASSUME NEW s \in 1 .. Len(Imports)
      PROVE  i \notin off + m.strOffs[s] .. off + m.strOffs[s] + NameLen[Imports[s]] - 1
  <2>1. m.strOffs[s] \in Nat
    <3>1. m.strOffs[s] \in U64 OBVIOUS
    <3> QED BY <3>1, WidthAssumption DEF U64
  <2> QED BY <2>1
<1>2. i \in DOMAIN b BY DEF File
<1> QED BY <1>1, <1>2 DEF WithStrings

(* grow_move_modify_dynstr leaves alone what lies outside the old .dynstr. *)
LEMMA MoveDynstrKeeps ==
  ASSUME TypeInv, Footprint, MoveDynstr,
         NEW i \in 0 .. src.size - 1, ~Within(i, StrtabRange(src.buf))
  PROVE  buf'[i] = buf[i]
<1> DEFINE off  == NewDynstrOff
           sz   == m.newDynstrSz
           mbuf == MovedData(FALSE, buf, size, orig.stroff, orig.strsz, off, sz)
<1>1. /\ pc = "moveDynstr"
      /\ MoveOk(size, orig.stroff, orig.strsz, off, sz)
      /\ buf' = WithStrings(mbuf, off)
      /\ size' = MovedSize(size, off, sz)
  BY DEF MoveDynstr, DynstrMoveOk
<1>2. Appended BY <1>1 DEF Appended
<1>3. /\ size \in U64 /\ buf \in File(size) /\ src.size \in U64
      /\ orig.stroff \in U64 /\ orig.strsz \in U64 /\ sz \in U64
      /\ m.newPhsize \in U64
  BY DEF TypeInv, TypeOK, Origin, Mods, IsFile
<1>4. /\ size >= src.size /\ size \in Nat /\ src.size \in Nat
      /\ orig.stroff \in Nat /\ orig.strsz \in Nat
  BY <1>3, WidthAssumption DEF U64, Footprint
<1>5. off \in U64 /\ off \in Nat /\ off >= src.size
  <2>1. phdrs[m.ro].offset \in U64 BY <1>2, FillFacts DEF Phdr
  <2>2. phdrs[m.ro].offset >= src.size BY <1>2, FillFacts DEF Footprint
  <2>3. phdrs[m.ro].offset \in Nat /\ m.newPhsize \in Nat /\ sz \in Nat
    BY <1>3, <2>1, WidthAssumption DEF U64
  <2>4. phdrs[m.ro].offset + m.newPhsize \in Nat
        /\ phdrs[m.ro].offset + m.newPhsize >= src.size
    BY <1>4, <2>2, <2>3
  <2>5. off \in Nat /\ off >= src.size BY <2>4 DEF NewDynstrOff
  <2> HIDE DEF off, sz
  <2> QED BY <1>1, <2>3, <2>5, WidthAssumption DEF MoveOk, U64
<1> HIDE DEF off, sz, mbuf
<1>6. size' \in Nat /\ size <= size' /\ mbuf \in File(size')
  <2>1. size' \in U64 /\ size <= size' /\ mbuf \in File(size')
    BY <1>1, <1>3, <1>5, MovedDataType DEF mbuf
  <2> QED BY <2>1, WidthAssumption DEF U64
<1>7. i < orig.stroff \/ orig.stroff + orig.strsz <= i
  <2>1. ~Within(i, <<orig.stroff, orig.strsz>>) BY DEF Footprint, StrtabRange
  <2> QED BY <1>4, <2>1 DEF Within
<1>8. i \in Nat /\ i < size /\ i < off /\ i < size' BY <1>4, <1>5, <1>6
<1>9. MovedData(FALSE, buf, size, orig.stroff, orig.strsz, off, sz)[i] = buf[i]
  <2> DEFINE w == FALSE
  <2> HIDE DEF w
  <2>1. /\ size \in U64 /\ orig.stroff \in U64 /\ orig.strsz \in U64 /\ sz \in U64
        /\ off \in U64 /\ MoveOk(size, orig.stroff, orig.strsz, off, sz)
        /\ i \in Nat /\ i < size /\ i < off
    BY <1>1, <1>3, <1>5, <1>8
  <2>2. MovedData(w, buf, size, orig.stroff, orig.strsz, off, sz)[i] = buf[i]
    BY <1>7, <2>1, MoveKeeps, SMTT(30)
  <2> QED BY <2>2 DEF w
<1>10. m.strOffs \in [1 .. Len(Imports) -> U64] BY <1>2 DEF TypeInv, Shape
<1>11. WithStrings(mbuf, off)[i] = mbuf[i]
  BY <1>5, <1>6, <1>8, <1>10, WithStringsKeeps
<1> QED BY <1>1, <1>9, <1>11 DEF mbuf

(* grow_move_modify_dynstr cleans the old .dynstr and fills the new place. *)
LEMMA MoveDynstrFoot == TypeInv /\ Footprint /\ MoveDynstr => Footprint'
<1> SUFFICES ASSUME TypeInv, Footprint, MoveDynstr PROVE Footprint' OBVIOUS
<1> DEFINE off  == NewDynstrOff
           sz   == m.newDynstrSz
           mbuf == MovedData(FALSE, buf, size, orig.stroff, orig.strsz, off, sz)
           st   == DynIndex(dyn.entries, "STRTAB")
           ss   == DynIndex(dyn.entries, "STRSZ")
<1>1. /\ pc = "moveDynstr" /\ pc' = "addEntries"
      /\ MoveOk(size, orig.stroff, orig.strsz, off, sz)
      /\ buf' = WithStrings(mbuf, off)
      /\ size' = MovedSize(size, off, sz)
      /\ dyn' = [dyn EXCEPT !.entries[st].val = NewDynstrVaddr, !.entries[ss].val = sz]
      /\ shdrs' = MovedSection(shdrs, strtab.shdr, NewDynstrAt.val, NewDynstrVaddr, sz)
      /\ UNCHANGED <<src, ehdr, phdrs, orig, m>>
  BY DEF MoveDynstr, DynstrMoveOk, env
<1>2. Appended BY <1>1 DEF Appended
<1>3. /\ size \in U64 /\ buf \in File(size) /\ src.size \in U64
      /\ orig.stroff \in U64 /\ orig.strsz \in U64 /\ sz \in U64
      /\ m.newPhsize \in U64 /\ dyn \in Dynamic /\ dyn.entries \in Seq(Dyn)
      /\ shdrs \in Seq(Shdr)
  BY DEF TypeInv, TypeOK, Origin, Mods, IsFile, Dynamic
<1>4. /\ size >= src.size /\ size \in Nat /\ src.size \in Nat
  <2>1. \A x \in U64 : x \in Nat BY WidthAssumption DEF U64
  <2> QED BY <1>3, <2>1 DEF Footprint
<1>5. off \in U64 /\ off \in Nat /\ off >= src.size
  <2>1. phdrs[m.ro].offset \in U64 BY <1>2, FillFacts DEF Phdr
  <2>2. phdrs[m.ro].offset >= src.size BY <1>2, FillFacts DEF Footprint
  <2>3. phdrs[m.ro].offset \in Nat /\ m.newPhsize \in Nat /\ sz \in Nat
    BY <1>3, <2>1, WidthAssumption DEF U64
  <2>4. phdrs[m.ro].offset + m.newPhsize \in Nat
        /\ phdrs[m.ro].offset + m.newPhsize >= src.size
    BY <1>4, <2>2, <2>3
  <2>5. off \in Nat /\ off >= src.size BY <2>4 DEF NewDynstrOff
  <2> HIDE DEF off, sz
  <2> QED BY <1>1, <2>3, <2>5, WidthAssumption DEF MoveOk, U64
<1> HIDE DEF off, sz, mbuf
<1>6. size' \in U64 /\ size <= size' /\ mbuf \in File(size')
  BY <1>1, <1>3, <1>5, MovedDataType DEF mbuf
<1>7. size' \in Nat /\ size' >= src.size BY <1>4, <1>6, WidthAssumption DEF U64
<1>8. ASSUME NEW i \in 0 .. src.size - 1, Foreign(i) PROVE buf'[i] = src.buf[i]
  BY <1>8, ForeignOutside, MoveDynstrKeeps DEF Footprint
<1>9. dyn'.phdr = dyn.phdr BY <1>1, <1>3 DEF Dynamic
<1>10. Len(dyn'.entries) = Len(dyn.entries) /\ Len(shdrs') = Len(shdrs)
  BY MoveDynstrTypes
<1> QED
  BY <1>1, <1>7, <1>8, <1>9, <1>10 DEF Footprint, Foreign

(* Adding entries in place does not touch the data buffer.                 *)
LEMMA AddEntriesInPlaceFoot == TypeInv /\ Footprint /\ AddEntriesInPlace => Footprint'
<1> SUFFICES ASSUME TypeInv, Footprint, AddEntriesInPlace PROVE Footprint' OBVIOUS
<1>1. /\ pc = "addEntries" /\ pc' = "serialize"
      /\ dyn' = [dyn EXCEPT !.entries = WithImports(dyn.entries)]
      /\ UNCHANGED <<src, ehdr, phdrs, shdrs, buf, size, orig, m>>
  BY DEF AddEntriesInPlace, env, data
<1>2. dyn \in Dynamic /\ dyn.entries \in Seq(Dyn) BY DEF TypeInv, TypeOK, Dynamic
<1>3. m.strOffs \in [1 .. Len(Imports) -> U64] BY <1>1 DEF TypeInv, Shape, Appended
<1>4. Len(WithImports(dyn.entries)) = Len(dyn.entries) BY <1>2, <1>3, WithImportsType
<1>5. dyn'.phdr = dyn.phdr /\ Len(dyn'.entries) = Len(dyn.entries)
  BY <1>1, <1>2, <1>4 DEF Dynamic
<1> QED BY <1>1, <1>5 DEF Footprint, Foreign

(* Moving the dynamic table leaves alone what lies outside the old table   *)
(* and before the new one.                                                 *)
LEMMA AddEntriesMovedKeeps ==
  ASSUME TypeInv, Footprint, AddEntriesMoved,
         NEW i \in 0 .. size - 1, i < NewDynOff, ~Within(i, DynRange(src.buf))
  PROVE  buf'[i] = buf[i]
<1> DEFINE d   == dyn.phdr
           po  == phdrs[d].offset
           ps  == phdrs[d].filesz
           off == NewDynOff
           sz  == m.newDynSz
<1>1. /\ pc = "addEntries" /\ m.move
      /\ MoveOk(size, po, ps, off, sz)
      /\ buf' = MovedData(TRUE, buf, size, po, ps, off, sz)
  BY DEF AddEntriesMoved, DynMoveOk
<1>2. Appended BY <1>1 DEF Appended
<1>3. size \in U64 /\ sz \in U64 BY DEF TypeInv, TypeOK, Mods
<1>4. po \in U64 /\ ps \in U64 /\ off \in U64
  BY <1>1, <1>2, FillFacts DEF Phdr, NewDynOff
<1>5. <<po, ps>> = DynRange(src.buf) BY <1>1 DEF Footprint
<1> HIDE DEF d, po, ps, sz
<1>6. po \in Nat /\ ps \in Nat /\ size \in Nat
  BY <1>3, <1>4, WidthAssumption DEF U64
<1>7. i < po \/ po + ps <= i BY <1>5, <1>6 DEF Within
<1>8. i \in Nat /\ i < size /\ i < off BY <1>6
<1> HIDE DEF off
<1>9. MovedData(TRUE, buf, size, po, ps, off, sz)[i] = buf[i]
  <2> DEFINE w == TRUE
  <2> HIDE DEF w
  <2>1. /\ size \in U64 /\ po \in U64 /\ ps \in U64 /\ sz \in U64 /\ off \in U64
        /\ MoveOk(size, po, ps, off, sz) /\ i \in Nat /\ i < size /\ i < off
    BY <1>1, <1>3, <1>4, <1>8
  <2>2. MovedData(w, buf, size, po, ps, off, sz)[i] = buf[i]
    BY <1>7, <2>1, MoveKeeps, SMTT(30)
  <2> QED BY <2>2 DEF w
<1> QED BY <1>1, <1>9

(* Moving the dynamic table cleans its old range and fills the new place.  *)
LEMMA AddEntriesMovedFoot == TypeInv /\ Footprint /\ AddEntriesMoved => Footprint'
<1> SUFFICES ASSUME TypeInv, Footprint, AddEntriesMoved PROVE Footprint' OBVIOUS
<1> DEFINE d   == dyn.phdr
           po  == phdrs[d].offset
           ps  == phdrs[d].filesz
           off == NewDynOff
           va  == NewDynVaddr
           len == NewDynNum * DynEnt
           sz  == m.newDynSz
           es  == WithImports(Resized(dyn.entries, NewDynNum, ZeroDyn))
<1>1. /\ pc = "addEntries" /\ m.move /\ pc' = "serialize"
      /\ len = sz
      /\ MoveOk(size, po, ps, off, sz)
      /\ buf' = MovedData(TRUE, buf, size, po, ps, off, sz)
      /\ size' = MovedSize(size, off, sz)
      /\ phdrs' = Moved(phdrs, d, off, va, len)
      /\ dyn' = [dyn EXCEPT !.entries = es]
      /\ UNCHANGED <<src, ehdr, orig, m>>
  BY DEF AddEntriesMoved, DynMoveOk, DynSizeAsPlanned, env
<1>2. Appended BY <1>1 DEF Appended
<1>3. /\ phdrs \in Seq(Phdr) /\ size \in U64 /\ buf \in File(size) /\ src.size \in U64
      /\ sz \in U64 /\ dyn \in Dynamic
  BY DEF TypeInv, TypeOK, Mods, IsFile
<1>4. d \in 1 .. Len(phdrs) /\ phdrs[d].type = "DYNAMIC"
  BY <1>2, FillFacts
<1>5. po \in U64 /\ ps \in U64 /\ off \in U64 /\ off >= src.size
  <2>1. phdrs[d] \in Phdr /\ phdrs[m.rw] \in Phdr /\ m.rw \in 1 .. Len(phdrs)
    BY <1>1, <1>2, FillFacts
  <2>2. phdrs[m.rw].offset >= src.size BY <2>1 DEF Footprint
  <2> QED BY <2>1, <2>2 DEF Phdr, NewDynOff
<1>6. Len(dyn'.entries) = NewDynNum /\ Len(shdrs') = Len(shdrs)
      /\ \A j \in 1 .. Len(phdrs) : j # d => phdrs'[j] = phdrs[j]
  BY AddEntriesMovedTypes
<1>7. phdrs'[d].offset = off /\ phdrs'[d].filesz = len
  BY <1>1, <1>3, <1>4 DEF Moved, Phdr
<1>8. dyn'.phdr = d BY <1>1, <1>3 DEF Dynamic
<1>9. size \in Nat /\ src.size \in Nat /\ off \in Nat /\ size >= src.size
  BY <1>3, <1>5, WidthAssumption DEF U64, Footprint
<1> HIDE DEF d, po, ps, off, va, len, sz, es
<1>10. size' \in Nat /\ size' >= src.size
  <2>1. size' \in U64 /\ size <= size' BY <1>1, <1>3, <1>5, MovedDataType
  <2> QED BY <1>9, <2>1, WidthAssumption DEF U64
<1>11. ASSUME NEW i \in 0 .. src.size - 1, Foreign(i) PROVE buf'[i] = src.buf[i]
  <2>1. i \in 0 .. size - 1 /\ i < NewDynOff BY <1>5, <1>9 DEF off
  <2> QED BY <1>11, <2>1, ForeignOutside, AddEntriesMovedKeeps DEF Footprint
<1>12. \A i \in {m.ro, m.rw} \ {0} :
         phdrs'[i].type = "LOAD" /\ phdrs'[i].offset >= src.size
  <2> TAKE i \in {m.ro, m.rw} \ {0}
  <2>1. phdrs[i].type = "LOAD" /\ phdrs[i].offset >= src.size BY DEF Footprint
  <2>2. i \in 1 .. Len(phdrs) BY DEF TypeInv, TypeOK, Mods
  <2>3. i # d BY <1>4, <2>1
  <2> QED BY <1>6, <2>1, <2>2, <2>3
<1>13. phdrs'[dyn'.phdr].offset >= src.size BY <1>5, <1>7, <1>8
<1>14. Len(dyn'.entries) * DynEnt = phdrs'[dyn'.phdr].filesz
  BY <1>6, <1>7, <1>8 DEF len
<1> QED
  BY <1>1, <1>6, <1>10, <1>11, <1>12, <1>13, <1>14 DEF Footprint, Foreign

(* serialize_elf writes the ELF header and the section headers where they  *)
(* were, and the rest behind the input or where it was.                    *)
LEMMA SerializeFoot ==
  ASSUME TypeInv, Footprint, pc = "serialize", SerializeOk,
         NEW i \in 0 .. src.size - 1, Foreign(i)
  PROVE  Serialized[i] = src.buf[i]
<1>1. /\ ~Within(i, EhdrRange) /\ ~Within(i, ShdrsRange(src.buf))
      /\ ~Within(i, DynRange(src.buf))
  BY ForeignOutside
<1>2. /\ phdrs \in Seq(Phdr) /\ shdrs \in Seq(Shdr) /\ ehdr \in Ehdr /\ dyn.entries \in Seq(Dyn)
      /\ size \in Nat /\ buf \in File(size) /\ src.size \in Nat
  BY WidthAssumption DEF TypeInv, TypeOK, Dynamic, IsFile, U64
<1>3. i \in 0 .. size - 1 /\ i \in Nat BY <1>2 DEF Footprint
<1>4. i \notin 0 .. EhSize - 1
  <2>1. EhdrRange = <<0, EhSize>> /\ EhSize \in Nat BY SizeAssumption DEF EhdrRange
  <2> QED BY <1>1, <1>3, <2>1 DEF Within
<1>5. i \notin ehdr.phoff .. ehdr.phoff + Len(phdrs) * PhEnt - 1
  <2>1. ehdr.phoff \in Nat /\ ehdr.phoff >= src.size
    BY <1>2, WidthAssumption DEF Footprint, Ehdr, U64
  <2> QED BY <1>2, <2>1
<1>6. i \notin ehdr.shoff .. ehdr.shoff + Len(shdrs) * ShEnt - 1
  <2>1. ShdrsRange(src.buf) = <<ehdr.shoff, Len(shdrs) * ShEnt>>
    BY DEF Footprint, ShdrsRange
  <2>2. ehdr.shoff \in Nat /\ Len(shdrs) * ShEnt \in Nat
    BY <1>2, WidthAssumption, SizeAssumption DEF Ehdr, U64
  <2> QED BY <1>1, <1>3, <2>1, <2>2 DEF Within
<1>7. LET off == phdrs[dyn.phdr].offset IN
      i \notin off .. off + Len(dyn.entries) * DynEnt - 1
  <2> DEFINE off == phdrs[dyn.phdr].offset
             len == Len(dyn.entries) * DynEnt
  <2>1. off \in Nat /\ len \in Nat
    <3>1. phdrs[dyn.phdr] \in Phdr BY <1>2 DEF TypeInv, Shape, Loaded
    <3>2. off \in U64 BY <3>1 DEF Phdr
    <3>3. len \in Nat BY <1>2, SizeAssumption
    <3> QED BY <3>2, <3>3, WidthAssumption DEF U64
  <2>2. <<off, len>> = DynRange(src.buf) \/ off >= src.size BY DEF Footprint
  <2> HIDE DEF off, len
  <2>3. CASE <<off, len>> = DynRange(src.buf)
    <3>1. ~Within(i, <<off, len>>) BY <1>1, <2>3
    <3> QED BY <1>3, <2>1, <3>1 DEF Within, off, len
  <2>4. CASE off >= src.size
    <3>1. i \notin off .. off + len - 1 BY <1>2, <2>1, <2>4
    <3> QED BY <3>1 DEF off, len
  <2> QED BY <2>2, <2>3, <2>4
<1>8. \A b \in File(size) :
        /\ "ehdr" \in dirty => WithEhdr(b) \in File(size) /\ WithEhdr(b)[i] = b[i]
        /\ "phdrs" \in dirty => WithPhdrs(b) \in File(size) /\ WithPhdrs(b)[i] = b[i]
        /\ "shdrs" \in dirty => WithShdrs(b) \in File(size) /\ WithShdrs(b)[i] = b[i]
        /\ WithDyn(b)[i] = b[i]
  BY <1>3, <1>4, <1>5, <1>6, <1>7, SerializeKeeps, WithTablesType
<1> QED BY <1>2, <1>8 DEF Serialized, Footprint

(* Steps that move on to a later call without touching struct elf.         *)
LEMMA LaterFoot ==
  ASSUME Footprint, UNCHANGED <<src, ehdr, phdrs, shdrs, dyn, buf, size, orig, m>>,
         pc \in {"check", "open", "write"}, pc' \in {"open", "write", "close"}
  PROVE  Footprint'
  BY DEF Footprint, Foreign

(* No step breaks the footprint.                                           *)
LEMMA NextFoot == TypeInv /\ FootInv /\ [Next]_vars => FootInv'
<1> SUFFICES ASSUME TypeInv, FootInv, [Next]_vars, Loaded' PROVE Footprint'
  BY DEF FootInv
<1>1. CASE ReadElf BY <1>1, ReadElfFoot
<1>2. CASE PrepareSizes BY <1>2, PrepareFoot DEF PrepareSizes, FootInv, Loaded
<1>3. CASE AppendRo BY <1>3, AppendRoFoot DEF AppendRo, FootInv, Loaded
<1>4. CASE AppendRw BY <1>4, AppendRwFoot DEF AppendRw, FootInv, Loaded
<1>5. CASE MovePhdrs BY <1>5, MovePhdrsFoot DEF MovePhdrs, FootInv, Loaded
<1>6. CASE MoveDynstr BY <1>6, MoveDynstrFoot DEF MoveDynstr, FootInv, Loaded
<1>7. CASE AddEntriesInPlace
  BY <1>7, AddEntriesInPlaceFoot DEF AddEntriesInPlace, FootInv, Loaded
<1>8. CASE AddEntriesMoved
  BY <1>8, AddEntriesMovedFoot DEF AddEntriesMoved, FootInv, Loaded
<1>9. CASE Serialize
  <2>1. /\ pc = "serialize" /\ pc' = "check" /\ SerializeOk /\ buf' = Serialized
        /\ UNCHANGED <<src, ehdr, phdrs, shdrs, dyn, size, orig, m>>
    BY <1>9 DEF Serialize, Fail, Quit, Loaded, env
  <2>2. Footprint BY <2>1 DEF FootInv, Loaded
  <2>3. \A i \in 0 .. src.size - 1 : Foreign(i) => buf'[i] = src.buf[i]
    BY <2>1, <2>2, SerializeFoot
  <2>4. \A i : Foreign(i)' = Foreign(i) BY <2>1 DEF Foreign
  <2> QED BY <2>1, <2>2, <2>3, <2>4 DEF Footprint
<1>10. CASE SanityCheck
  BY <1>10, LaterFoot DEF SanityCheck, FootInv, Loaded, env, tabs, data
<1>11. CASE OpenOutput
  BY <1>11, LaterFoot DEF OpenOutput, Fail, Quit, FootInv, Loaded, tabs, data
<1>12. CASE WriteOutput
  BY <1>12, LaterFoot DEF WriteOutput, Quit, FootInv, Loaded, tabs, data
<1>13. CASE Start \/ CloseOutput \/ CallFails \/ Aborts \/ Kill
  BY <1>13 DEF Start, CloseOutput, CallFails, Aborts, Kill, Fail, Quit, Loaded
<1>14. CASE UNCHANGED vars
  BY <1>14 DEF vars, env, tabs, data, FootInv, Footprint, Foreign, Loaded
<1> QED
  BY <1>1, <1>2, <1>3, <1>4, <1>5, <1>6, <1>7, <1>8, <1>9, <1>10, <1>11, <1>12,
     <1>13, <1>14 DEF Next

(* The footprint is an invariant: every write of a run goes to the place   *)
(* a structure had in the input or behind the end of the input.            *)
THEOREM FootprintHolds == Spec => []FootInv
<1>1. Init => FootInv BY DEF Init, FootInv, Loaded
<1>2. TypeInv /\ FootInv /\ [Next]_vars => FootInv' BY NextFoot
<1> QED BY <1>1, <1>2, TypesAreRight, PTL DEF Spec

(* Whatever file it is given, the tool moves, cleans and rewrites only the *)
(* structures it means to: every other byte of the input keeps its value   *)
(* and its place in the data that is written out.                          *)
THEOREM ForeignBytes == Spec => []ForeignBytesKept
<1>1. FootInv => ForeignBytesKept
  BY DEF FootInv, Footprint, Foreign, ForeignBytesKept
<1> QED BY <1>1, FootprintHolds, PTL

-----------------------------------------------------------------------------
(* elf-add-import implements Patch, where a patched form of a file is one  *)
(* that keeps the bytes outside of the structures that move.               *)

(* Until the output is opened the input is what it was when it was read.   *)
InputKept ==
  pc \in {"prepare", "appendRo", "appendRw", "movePhdrs", "moveDynstr",
          "addEntries", "serialize", "check"}
    => disk[argIn] # Missing /\ disk[argIn] = src

(* The program counters of a run that has not touched the output yet.      *)
Computing == {"read", "prepare", "appendRo", "appendRw", "movePhdrs", "moveDynstr",
              "addEntries", "serialize", "check"}

-----------------------------------------------------------------------------
(* The calls before the output is opened leave the paths alone.            *)
LEMMA ComputeKeeps ==
  ASSUME ReadElf \/ PrepareSizes \/ AppendRo \/ AppendRw \/ MovePhdrs \/ MoveDynstr
           \/ AddEntriesInPlace \/ AddEntriesMoved
  PROVE  /\ pc \in Computing /\ pc' \in Computing \ {"read"}
         /\ UNCHANGED <<exit, argIn, argOut, disk, sane>>
         /\ ~ReadElf => UNCHANGED src /\ pc # "read"
  BY DEF ReadElf, PrepareSizes, AppendRo, AppendRw, MovePhdrs, MoveDynstr,
         AddEntriesInPlace, AddEntriesMoved, Computing, env, Load

(* A run that ends, with the paths as they are.                            *)
LEMMA QuitEnds ==
  ASSUME NEW s, Quit(s)
  PROVE  /\ pc' = "idle" /\ exit' = s /\ sane' = FALSE
         /\ UNCHANGED <<argIn, argOut>>
  BY DEF Quit, Destroyed

(* serialize_elf either succeeds or makes main give up.                    *)
LEMMA SerializeCases ==
  ASSUME Serialize
  PROVE  /\ pc = "serialize" /\ UNCHANGED disk
         /\ \/ /\ pc' = "check"
               /\ UNCHANGED <<exit, argIn, argOut, src, sane>>
            \/ Quit("failure")
  BY DEF Serialize, Fail, env

(* No call touches the input before the output is opened.                  *)
LEMMA InputStep == InputKept /\ [Next]_vars => InputKept'
<1> SUFFICES ASSUME InputKept, [Next]_vars PROVE InputKept' OBVIOUS
<1>1. CASE ReadElf BY <1>1, ComputeKeeps DEF ReadElf, InputParses, Load, InputKept
<1>2. CASE PrepareSizes \/ AppendRo \/ AppendRw \/ MovePhdrs \/ MoveDynstr
             \/ AddEntriesInPlace \/ AddEntriesMoved
  <2>1. ~ReadElf
    BY <1>2 DEF ReadElf, PrepareSizes, AppendRo, AppendRw, MovePhdrs, MoveDynstr,
                AddEntriesInPlace, AddEntriesMoved
  <2> QED BY <1>2, <2>1, ComputeKeeps DEF Computing, InputKept
<1>3. CASE Serialize BY <1>3, SerializeCases, QuitEnds DEF InputKept
<1>4. CASE SanityCheck \/ OpenOutput \/ WriteOutput \/ CloseOutput
  BY <1>4, QuitEnds DEF SanityCheck, OpenOutput, WriteOutput, CloseOutput, Fail, InputKept
<1>5. CASE Start \/ CallFails \/ Aborts \/ Kill
  BY <1>5, QuitEnds DEF Start, CallFails, Aborts, Kill, Fail, InputKept
<1>6. CASE UNCHANGED vars BY <1>6 DEF vars, env, InputKept
<1> QED BY <1>1, <1>2, <1>3, <1>4, <1>5, <1>6 DEF Next

(* The file a run patches is the one its user named.                       *)
THEOREM InputIsKept == Spec => []InputKept
<1>1. Init => InputKept BY DEF Init, InputKept
<1> QED BY <1>1, InputStep, PTL DEF Spec

-----------------------------------------------------------------------------
(* A run that ends without having written anything more gives up.          *)
LEMMA GivesUp ==
  ASSUME pc # "idle", UNCHANGED disk,
         NEW s \in {"failure", "aborted", "killed"}, Quit(s)
  PROVE  Keeper!GiveUp
  BY QuitEnds DEF Keeper!GiveUp, Keeper!End, Phase, Result

(* The calls between the start and the sanity check are the work inside.   *)
LEMMA StuttersInside ==
  ASSUME pc \in Computing, pc' \in Computing,
         UNCHANGED <<exit, argIn, argOut, disk, sane>>
  PROVE  UNCHANGED Keeper!vars
  BY DEF Keeper!vars, Phase, Result, Computing

(* The sanity check makes the data the result.                             *)
LEMMA CheckProduces ==
  ASSUME TypeInv, InputKept, ForeignBytesKept, SanityCheck
  PROVE  Keeper!Produce
<1>1. /\ pc = "check" /\ pc' = "open"
      /\ UNCHANGED <<exit, argIn, argOut, disk, src, size, buf>>
  BY DEF SanityCheck, env, data
<1>2. disk[argIn] # Missing /\ disk[argIn] = src BY <1>1 DEF InputKept
<1>3. Phase = "working" /\ Phase' = "writing" BY <1>1 DEF Phase
<1>4. Result' = [size |-> size, buf |-> buf] BY <1>1, <1>3 DEF Result, Patched
<1>5. ForeignKept(disk[argIn], Result')
  BY <1>1, <1>2, <1>4 DEF ForeignBytesKept, ForeignKept, Loaded
<1>6. sane' \in {ParseElf(buf, size), FALSE} BY DEF SanityCheck
<1>7. sane' \in BOOLEAN BY <1>6 DEF ParseElf
<1>8. sane' => Parses(Result') BY <1>4, <1>6 DEF Parses
<1> QED BY <1>1, <1>2, <1>3, <1>5, <1>7, <1>8 DEF Keeper!Produce

(* write_file replaces the output by parts of the result, then by all of   *)
(* it, and main reports success only then.                                 *)
LEMMA PartsWritten ==
  ASSUME pc \in {"open", "write", "close"}, NEW f \in Partial \cup {Patched},
         disk' = [disk EXCEPT ![argOut] = f]
  PROVE  Keeper!WritePart
<1>1. Result = Patched BY DEF Phase, Result
<1>2. f \in PartsOf(Patched) BY DEF PartsOf, Partial, Patched
<1> QED BY <1>1, <1>2 DEF Keeper!WritePart

(* Every step from the opening of the output on is a step of the abstract  *)
(* patcher.                                                                *)
LEMMA OutputStep ==
  ASSUME OpenOutput \/ WriteOutput \/ CloseOutput
  PROVE  Keeper!Next
<1>1. pc \in {"open", "write", "close"} BY DEF OpenOutput, WriteOutput, CloseOutput
<1>2. Phase = "writing" BY <1>1 DEF Phase
<1>3. ASSUME Fail PROVE Keeper!Next
  BY <1>1, <1>3, GivesUp DEF Fail, Keeper!Next
<1>4. ASSUME NEW f \in Partial \cup {Patched}, disk' = [disk EXCEPT ![argOut] = f],
             pc' \in {"write", "close"},
             UNCHANGED <<exit, argIn, argOut, size, buf, sane>>
      PROVE  Keeper!Next
  <2>1. Keeper!WritePart BY <1>1, <1>4, PartsWritten
  <2>2. Phase' = Phase /\ Result' = Result BY <1>1, <1>4 DEF Phase, Result, Patched
  <2> QED BY <1>2, <1>4, <2>1, <2>2 DEF Keeper!Write, Keeper!Next
<1>5. ASSUME NEW f \in Partial \cup {Patched}, disk' = [disk EXCEPT ![argOut] = f],
             Quit("failure")
      PROVE  Keeper!Next
  <2>1. Keeper!WritePart BY <1>1, <1>5, PartsWritten
  <2>2. Keeper!End("failure") BY <1>5, QuitEnds DEF Keeper!End, Phase, Result
  <2> QED BY <1>2, <2>1, <2>2 DEF Keeper!GiveUp, Keeper!Next
<1>6. CASE OpenOutput
  <2>1. EmptyFile \in Partial BY DEF Partial
  <2> QED BY <1>3, <1>4, <1>6, <2>1 DEF OpenOutput, tabs, data
<1>7. CASE WriteOutput BY <1>4, <1>5, <1>7 DEF WriteOutput, tabs, data
<1>8. CASE CloseOutput
  <2>1. CASE Fail BY <1>3, <2>1
  <2>2. CASE disk' = [disk EXCEPT ![argOut] = Patched]
             /\ Quit(IF sane THEN "success" ELSE "failure")
    <3>1. Result = Patched BY <1>2 DEF Result
    <3>2. Keeper!End(IF sane THEN "success" ELSE "failure")
      <4>1. CASE sane
        <5>1. Keeper!End("success")
          BY <2>2, <4>1, QuitEnds DEF Keeper!End, Phase, Result
        <5> QED BY Zenon, <4>1, <5>1
      <4>2. CASE ~sane
        <5>1. Keeper!End("failure")
          BY <2>2, <4>2, QuitEnds DEF Keeper!End, Phase, Result
        <5> QED BY Zenon, <4>2, <5>1
      <4> QED BY <4>1, <4>2
    <3>3. disk' = [disk EXCEPT ![argOut] = Result] BY <2>2, <3>1
    <3>4. Keeper!Finish BY Zenon, <1>2, <3>2, <3>3 DEF Keeper!Finish
    <3> QED BY <3>4 DEF Keeper!Next
  <2> QED BY <1>8, <2>1, <2>2 DEF CloseOutput
<1> QED BY <1>6, <1>7, <1>8

(* Every step of the program is a step of the tool or none.                *)
LEMMA StepRefines ==
  ASSUME TypeInv, InputKept, ForeignBytesKept, [Next]_vars
  PROVE  [Keeper!Next]_Keeper!vars
<1>1. CASE ReadElf \/ PrepareSizes \/ AppendRo \/ AppendRw \/ MovePhdrs \/ MoveDynstr
             \/ AddEntriesInPlace \/ AddEntriesMoved
  BY <1>1, ComputeKeeps, StuttersInside
<1>2. CASE Serialize
  <2>1. pc = "serialize" /\ UNCHANGED disk BY <1>2, SerializeCases
  <2>2. CASE Quit("failure") BY <2>1, <2>2, GivesUp DEF Keeper!Next
  <2>3. CASE pc' = "check" /\ UNCHANGED <<exit, argIn, argOut, src, sane>>
    BY <2>1, <2>3, StuttersInside DEF Computing
  <2> QED BY <1>2, <2>2, <2>3, SerializeCases
<1>3. CASE SanityCheck BY <1>3, CheckProduces DEF Keeper!Next
<1>4. CASE OpenOutput \/ WriteOutput \/ CloseOutput BY <1>4, OutputStep
<1>5. CASE CallFails
  BY <1>5, GivesUp DEF CallFails, Fail, Keeper!Next
<1>6. CASE Aborts
  BY <1>6, GivesUp DEF Aborts, MustAbort, Keeper!Next
<1>7. CASE Kill BY <1>7, GivesUp DEF Kill, Keeper!Next
<1>8. CASE Start
  BY <1>8 DEF Start, Keeper!Start, Keeper!Next, Phase, Result
<1>9. CASE UNCHANGED vars
  BY <1>9 DEF vars, env, data, Keeper!vars, Phase, Result, Patched
<1> QED BY <1>1, <1>2, <1>3, <1>4, <1>5, <1>6, <1>7, <1>8, <1>9 DEF Next

(* Whatever files it is run on, however often, in place or not, and        *)
(* wherever calls fail or it is killed: main touches no path but the one   *)
(* it was told to write, writes there parts of one result that keeps every *)
(* foreign byte of the input, and reports success only when all of it is   *)
(* there and the parser has accepted it.                                   *)
THEOREM ImplementsPatch == Spec => Keeper!Spec
<1>1. Init => Keeper!Init
  BY DEF Init, Keeper!Init, Phase, Result
<1>2. TypeInv /\ InputKept /\ ForeignBytesKept /\ [Next]_vars
        => [Keeper!Next]_Keeper!vars
  BY StepRefines
<1> QED
  BY <1>1, <1>2, TypesAreRight, InputIsKept, ForeignBytes, PTL DEF Spec, Keeper!Spec

-----------------------------------------------------------------------------
(* The calls that leave the data as large as the input.                    *)
Growing == {"prepare", "appendRo", "appendRw", "movePhdrs"}

(* The calls that rely on the sizes calculated by prepare_modifications.   *)
Planned == {"appendRo", "appendRw", "movePhdrs", "moveDynstr", "addEntries"}

(* Everything that was to be moved is where it was planned to be.          *)
Filled  == {"serialize", "check", "open", "write", "close"}

(* How many segments are still to be appended.                             *)
Pending == CASE pc = "appendRo" -> IF m.move THEN 2 ELSE 1
             [] pc = "appendRw" -> 1
             [] OTHER -> 0

(* The sizes that were calculated before anything was changed.             *)
Sizes ==
  /\ pc \in Planned \cup Filled => m.newPhsize = (Len(phdrs) + Pending) * PhEnt
  /\ pc \in Planned =>
       /\ 0 < m.newDynstrSz
       /\ m.move => NewDynNum <= MaxU \div DynEnt /\ m.newDynSz = NewDynNum * DynEnt

(* A segment made of whole pages, which holds so many bytes.               *)
Holds(s, content) ==
  /\ s.type = "LOAD" /\ s.filesz = content /\ content <= s.memsz /\ 0 < content
  /\ PageSize <= s.align
  /\ s.offset % s.align = 0 /\ s.vaddr % s.align = 0 /\ s.memsz % s.align = 0
  /\ s.offset <= MaxU - s.memsz

(* Segment i lies behind all segments before it, in the file and in memory. *)
Behind(phs, i) ==
  \A j \in IndicesOf(phs, "LOAD") : j < i =>
    /\ phs[j].vaddr + phs[j].memsz <= phs[i].vaddr
    /\ phs[j].offset + phs[j].filesz <= phs[i].offset
    /\ phs[j].align <= phs[i].align

(* Segment i was appended for so many bytes, behind the input and all      *)
(* other segments.                                                         *)
Placed(i, content) ==
  Holds(phdrs[i], content) /\ Behind(phdrs, i) /\ src.size <= phdrs[i].offset

(* The read-only segment holds the program headers and the string table.   *)
RoPlaced ==
  /\ Placed(m.ro, m.newPhsize + m.newDynstrSz)
  /\ Len(phdrs) = m.ro + (IF m.rw = 0 THEN 0 ELSE 1)

(* The writable segment, last and right behind the other one, holds the    *)
(* dynamic table.                                                          *)
RwPlaced ==
  /\ m.rw = m.ro + 1 /\ m.ro # 0
  /\ Placed(m.rw, m.newDynSz)
  /\ phdrs[m.rw].align = phdrs[m.ro].align
  /\ phdrs[m.rw].write

(* Which segments have been appended, and where the next one will be.      *)
Segments ==
  /\ m.ro = 0 => /\ m.rw = 0
                 /\ \A j \in IndicesOf(phdrs, "LOAD") :
                       phdrs[j].offset + phdrs[j].filesz <= src.size
  /\ m.ro # 0 => RoPlaced
  /\ m.rw # 0 => RwPlaced
  /\ pc = "appendRo" => m.ro = 0 /\ m.segOff = src.size
  /\ pc = "appendRw" =>
       /\ m.ro # 0 /\ m.rw = 0 /\ m.move
       /\ m.segOff = src.size + phdrs[m.ro].memsz
       /\ phdrs[m.ro].offset = AlignUp(src.size, phdrs[m.ro].align)
  /\ pc \in {"movePhdrs", "moveDynstr", "addEntries"} \cup Filled =>
       m.ro # 0 /\ (m.rw # 0 <=> m.move)

(* The data ends where the last structure that was moved ends.             *)
DataEnd ==
  CASE pc \in Growing -> src.size
    [] pc = "moveDynstr" -> phdrs[m.ro].offset + m.newPhsize
    [] pc = "addEntries" \/ (pc \in Filled /\ ~m.move)
         -> phdrs[m.ro].offset + phdrs[m.ro].filesz
    [] OTHER -> phdrs[m.rw].offset + phdrs[m.rw].filesz

(* Where the tables are, and what has become of the program headers.       *)
DynPlace ==
  LET old == PhdrsOf(src.buf)
      d   == dyn.phdr
  IN  IF pc \in Filled /\ m.move
      THEN phdrs[d].offset = phdrs[m.rw].offset /\ phdrs[d].vaddr = phdrs[m.rw].vaddr
           /\ phdrs[d].filesz = m.newDynSz /\ phdrs[d].memsz = m.newDynSz
      ELSE phdrs[d] = old[d]

(* The tables are those of the input but for what the calls so far have    *)
(* moved.                                                                  *)
Tables ==
  LET old == PhdrsOf(src.buf)
  IN  /\ pc \in {"moveDynstr", "addEntries"} \cup Filled => ehdr.phoff = phdrs[m.ro].offset
      /\ pc \in Growing \cup {"moveDynstr"} => dyn.entries = DynEntriesOf(src.buf)
      /\ 0 < Len(dyn.entries)
      /\ dyn.phdr = PtDynamic(src.buf)
      /\ Len(phdrs) = Len(old) + (IF m.ro = 0 THEN 0 ELSE 1) + (IF m.rw = 0 THEN 0 ELSE 1)
      /\ \A j \in 1 .. Len(old) : /\ phdrs[j].type = old[j].type
                                  /\ old[j].type = "LOAD" => phdrs[j] = old[j]
      /\ DynPlace

(* What holds of a file that has been read until it is written.            *)
Plan == Sizes /\ Segments /\ size = DataEnd /\ Tables

(* The inductive invariant: everything happens as planned.                 *)
PlanInv == Loaded => Plan

(* The counts in the headers, and what is marked to be written.            *)
Counted ==
  pc \in {"movePhdrs", "moveDynstr", "addEntries"} \cup Filled =>
    /\ ehdr.phnum = IF Len(phdrs) < PN_XNUM THEN Len(phdrs) ELSE PN_XNUM
    /\ Len(phdrs) >= PN_XNUM => shdrs # <<>> /\ shdrs[1].info = Len(phdrs)
    /\ pc \in {"movePhdrs", "moveDynstr", "addEntries", "serialize"} =>
         /\ {"ehdr", "phdrs"} \subseteq dirty
         /\ Len(phdrs) >= PN_XNUM => "shdrs" \in dirty

(* The program headers, and what leads to them, are in the data.           *)
Written ==
  pc \in Filled \ {"serialize"} =>
    /\ buf[0][1] = "ehdr" => buf[0][2] = ehdr
    /\ \A i \in 1 .. Len(phdrs) :
         Decode("phdr", ZeroPhdr, buf, ehdr.phoff + (i - 1) * PhEnt) = phdrs[i]
    /\ Len(phdrs) >= PN_XNUM /\ buf[ehdr.shoff][1] = "shdr"
         => buf[ehdr.shoff][2].info = Len(phdrs)

(* The headers describe what they head.                                    *)
HeaderInv == Counted /\ Written

-----------------------------------------------------------------------------
(* prepare_dynstr_offsets adds each string's length and terminator.        *)
LEMMA StrOffsetExists ==
  ASSUME NEW old \in Nat, NEW n \in 1 .. Len(Imports) + 1
  PROVE  \E o : o = [i \in 1 .. n |->
                      IF i = 1 THEN old ELSE o[i - 1] + NameLen[Imports[i - 1]] + 1]
<1> DEFINE Good(k, o) == o = [i \in 1 .. k |-> IF i = 1 THEN old
                                ELSE o[i - 1] + NameLen[Imports[i - 1]] + 1]
           Bad == {k \in Nat : k > 0 /\ ~\E o : Good(k, o)}
<1>1. SUFFICES Bad = {}
  <2>1. n \in Nat /\ n > 0 BY ImportAssumption
  <2>2. \E o : Good(n, o)
    <3> HIDE DEF Good
    <3> QED BY <2>1
  <2> QED BY <2>2
<1>2. SUFFICES ASSUME Bad # {} PROVE FALSE OBVIOUS
<1>3. PICK k \in Bad : \A j \in Bad : k <= j
  <2> Bad \in SUBSET Nat OBVIOUS
  <2> HIDE DEF Bad
  <2> QED BY <1>2, LeastNatural
<1>4. CASE k = 1
  <2> DEFINE o == [i \in 1 .. 1 |-> old]
  <2>1. Good(1, o) OBVIOUS
  <2> QED BY <1>4, <2>1
<1>5. CASE k # 1
  <2>1. k \in Nat /\ k - 1 \in Nat /\ k - 1 > 0 /\ k - 1 < k BY <1>5
  <2>2. PICK g : Good(k - 1, g)
    <3>1. k - 1 \notin Bad
      <4> HIDE DEF Bad
      <4> QED BY <1>3, <2>1
    <3> HIDE DEF Good
    <3> QED BY <2>1, <3>1
  <2> DEFINE o == [i \in 1 .. k |-> IF i < k THEN g[i]
                     ELSE g[k - 1] + NameLen[Imports[k - 1]] + 1]
  <2>3. \A i \in 1 .. k - 1 : o[i] = g[i]
    <3> HIDE DEF Good
    <3> QED BY <2>1
  <2> HIDE DEF o
  <2>4. ASSUME NEW i \in 1 .. k
        PROVE  o[i] = IF i = 1 THEN old ELSE o[i - 1] + NameLen[Imports[i - 1]] + 1
    <3>1. CASE i < k
      <4>1. i \in 1 .. k - 1 /\ (i # 1 => i - 1 \in 1 .. k - 1) BY <3>1
      <4>2. g[i] = IF i = 1 THEN old ELSE g[i - 1] + NameLen[Imports[i - 1]] + 1
        BY <2>2, <4>1
      <4>3. o[i] = g[i] /\ (i # 1 => o[i - 1] = g[i - 1]) BY <2>3, <4>1
      <4> QED BY <4>2, <4>3
    <3>2. CASE i = k
      <4>1. k - 1 \in 1 .. k - 1 BY <2>1
      <4>2. o[k] = g[k - 1] + NameLen[Imports[k - 1]] + 1 BY <2>1 DEF o
      <4> QED BY <1>5, <2>3, <3>2, <4>1, <4>2
    <3> QED BY <3>1, <3>2
  <2>5. Good(k, o)
    <3>1. o = [i \in 1 .. k |-> o[i]] BY DEF o
    <3> QED BY <2>4, <3>1
  <2> QED BY <2>5
<1> QED BY <1>4, <1>5

(* Every name follows the one before it and its terminator.                *)
LEMMA StrOffsetSteps ==
  ASSUME NEW old \in Nat
  PROVE  StrOffset(old) = [i \in 1 .. Len(Imports) + 1 |->
           IF i = 1 THEN old
           ELSE StrOffset(old)[i - 1] + NameLen[Imports[i - 1]] + 1]
<1>1. Len(Imports) + 1 \in 1 .. Len(Imports) + 1 BY ImportAssumption
<1>2. \E o : o = [i \in 1 .. Len(Imports) + 1 |->
                    IF i = 1 THEN old ELSE o[i - 1] + NameLen[Imports[i - 1]] + 1]
  BY <1>1, StrOffsetExists
<1> QED BY <1>2, Zenon DEF StrOffset

-----------------------------------------------------------------------------
(* The segments, as they are appended.                                     *)

(* construct_appended_ptload_phdr rounds everything up to the largest      *)
(* alignment in the file, which is at least a page.                        *)
LEMMA SegmentForPlaced ==
  ASSUME TypeInv, NEW content \in U64, 0 < content,
         SegmentAligns(content), SegmentFits(content)
  PROVE  LET s == SegmentFor(content) IN
         /\ s \in Phdr /\ Holds(s, content)
         /\ s.align = MaxLoadAlign(phdrs)
         /\ s.offset = AlignUp(m.segOff, s.align)
         /\ m.segOff <= s.offset
         /\ \A j \in IndicesOf(phdrs, "LOAD") :
              phdrs[j].vaddr + phdrs[j].memsz <= s.vaddr /\ phdrs[j].align <= s.align
<1> DEFINE al  == MaxLoadAlign(phdrs)
           top == MaxLoadVaddr(phdrs)
           off == AlignUp(m.segOff, al)
           va  == AlignUp(top, al)
           ms  == AlignUp(content, al)
           s   == SegmentFor(content)
<1>1. phdrs \in Seq(Phdr) /\ LoadsInRange(phdrs) BY DEF TypeInv, TypeOK, Shape
<1>2. al \in Nat \ {0} /\ PageSize <= al
      /\ \A j \in IndicesOf(phdrs, "LOAD") : phdrs[j].align <= al
  BY <1>1, MaxLoadAlignProperty, MaxLoadAlignBound, Naturals64
<1>3. top \in Nat /\ \A j \in IndicesOf(phdrs, "LOAD") :
                       phdrs[j].vaddr + phdrs[j].memsz <= top
  BY <1>1, MaxLoadVaddrProperty, Naturals64
<1>4. m.segOff \in Nat /\ content \in Nat BY Naturals64 DEF TypeInv, TypeOK, Mods
<1>5. s = [type |-> "LOAD", write |-> FALSE, align |-> al, offset |-> off,
           vaddr |-> va, filesz |-> content, memsz |-> ms]
  BY DEF SegmentFor
<1>6. s.offset <= MaxU - s.memsz BY DEF SegmentFits, SegmentOffsetFits
<1>7. s \in Phdr /\ content <= s.memsz /\ m.segOff <= s.offset BY SegmentForProperty
<1> HIDE DEF s, al, top
<1>8. off % al = 0 /\ va % al = 0 /\ ms % al = 0 /\ va \in Nat /\ top <= va
  BY <1>2, <1>3, <1>4, AlignUpProperty
<1> HIDE DEF off, va, ms
<1>9. Holds(s, content) BY <1>2, <1>5, <1>6, <1>7, <1>8 DEF Holds
<1>10. \A j \in IndicesOf(phdrs, "LOAD") :
         phdrs[j].vaddr + phdrs[j].memsz <= s.vaddr /\ phdrs[j].align <= s.align
  <2> TAKE j \in IndicesOf(phdrs, "LOAD")
  <2>1. phdrs[j].vaddr \in Nat /\ phdrs[j].memsz \in Nat
    BY <1>1, PhdrFields DEF IndicesOf
  <2> QED BY <1>2, <1>3, <1>5, <1>8, <2>1
<1> QED BY <1>5, <1>7, <1>9, <1>10 DEF s, al, off

(* append_new_ptload_segment puts it behind everything.                    *)
LEMMA AppendPlaced ==
  ASSUME TypeInv, NEW content \in U64, 0 < content, NEW write \in BOOLEAN,
         AppendSegment(content, write),
         \A j \in IndicesOf(phdrs, "LOAD") :
            phdrs[j].offset + phdrs[j].filesz <= AlignUp(m.segOff, MaxLoadAlign(phdrs))
  PROVE  LET n == Len(phdrs) + 1 IN
         /\ phdrs'[n] \in Phdr /\ Holds(phdrs'[n], content) /\ Behind(phdrs', n)
         /\ m.segOff <= phdrs'[n].offset
         /\ phdrs'[n].align = MaxLoadAlign(phdrs)
         /\ phdrs'[n].offset = AlignUp(m.segOff, phdrs'[n].align)
         /\ phdrs'[n].memsz = SegmentFor(content).memsz
         /\ phdrs'[n].write = write
<1> DEFINE n == Len(phdrs) + 1
           s == SegmentFor(content)
           t == NewSegment(content, write)
<1>1. /\ phdrs \in Seq(Phdr) /\ phdrs' \in Seq(Phdr) /\ Len(phdrs') = n
      /\ \A j \in 1 .. Len(phdrs) : phdrs'[j].type = phdrs[j].type
      /\ \A j \in 1 .. Len(phdrs) : phdrs[j].type # "PHDR" => phdrs'[j] = phdrs[j]
      /\ phdrs'[n] = t
  BY AppendSegmentProperty DEF TypeInv, TypeOK
<1>2. /\ s \in Phdr /\ Holds(s, content) /\ s.align = MaxLoadAlign(phdrs)
      /\ s.offset = AlignUp(m.segOff, s.align) /\ m.segOff <= s.offset
      /\ \A j \in IndicesOf(phdrs, "LOAD") :
           phdrs[j].vaddr + phdrs[j].memsz <= s.vaddr /\ phdrs[j].align <= s.align
  BY SegmentForPlaced DEF AppendSegment
<1>3. t = [s EXCEPT !.write = write] BY DEF NewSegment
<1>4. /\ t \in Phdr /\ t.write = write /\ t.type = s.type /\ t.filesz = s.filesz
      /\ t.memsz = s.memsz /\ t.align = s.align /\ t.offset = s.offset
      /\ t.vaddr = s.vaddr
  <2> HIDE DEF s, t
  <2> QED BY <1>2, <1>3 DEF Phdr
<1> HIDE DEF s, t
<1>5. Holds(t, content) BY <1>2, <1>4 DEF Holds
<1>6. ASSUME NEW j \in IndicesOf(phdrs', "LOAD"), j < n
      PROVE  /\ phdrs'[j].vaddr + phdrs'[j].memsz <= t.vaddr
             /\ phdrs'[j].offset + phdrs'[j].filesz <= t.offset
             /\ phdrs'[j].align <= t.align
  <2>1. j \in 1 .. Len(phdrs) /\ phdrs'[j].type = "LOAD"
    BY <1>1, <1>6 DEF IndicesOf
  <2>2. j \in IndicesOf(phdrs, "LOAD") /\ phdrs'[j] = phdrs[j]
    BY <1>1, <2>1 DEF IndicesOf
  <2>3. phdrs[j].offset + phdrs[j].filesz <= s.offset BY <1>2, <2>2
  <2> QED BY <1>2, <1>4, <2>2, <2>3
<1>7. Behind(phdrs', n) BY <1>1, <1>6 DEF Behind
<1> QED BY <1>1, <1>2, <1>4, <1>5, <1>7 DEF s

(* Later calls change no segment, so each stays where it was placed.       *)
LEMMA PlaceKept ==
  ASSUME phdrs \in Seq(Phdr), phdrs' \in Seq(Phdr), Len(phdrs) <= Len(phdrs'),
         \A j \in 1 .. Len(phdrs) : phdrs'[j].type = phdrs[j].type,
         \A j \in 1 .. Len(phdrs) : phdrs[j].type = "LOAD" => phdrs'[j] = phdrs[j],
         src' = src, NEW i \in 1 .. Len(phdrs), NEW content, Placed(i, content)
  PROVE  /\ phdrs'[i] = phdrs[i]
         /\ Holds(phdrs'[i], content) /\ Behind(phdrs', i)
         /\ src'.size <= phdrs'[i].offset
<1>1. phdrs'[i] = phdrs[i] BY DEF Placed, Holds
<1>2. ASSUME NEW j \in IndicesOf(phdrs', "LOAD"), j < i
      PROVE  j \in IndicesOf(phdrs, "LOAD") /\ phdrs'[j] = phdrs[j]
  <2>1. j \in 1 .. Len(phdrs) BY <1>2 DEF IndicesOf
  <2> QED BY <1>2, <2>1 DEF IndicesOf
<1> QED BY <1>1, <1>2 DEF Placed, Behind

(* Changes to entries that load nothing leave the appended segments where  *)
(* they are.                                                               *)
LEMMA PlacesKept ==
  ASSUME phdrs \in Seq(Phdr), phdrs' \in Seq(Phdr), Len(phdrs') = Len(phdrs),
         \A j \in 1 .. Len(phdrs) : phdrs'[j].type = phdrs[j].type,
         \A j \in 1 .. Len(phdrs) : phdrs[j].type = "LOAD" => phdrs'[j] = phdrs[j],
         m.ro \in 1 .. Len(phdrs), m.rw \in 0 .. Len(phdrs), m' = m, src' = src,
         RoPlaced, m.rw # 0 => RwPlaced
  PROVE  RoPlaced' /\ (m.rw # 0 => RwPlaced')
<1>1. Len(phdrs) <= Len(phdrs') OBVIOUS
<1>2. phdrs'[m.ro] = phdrs[m.ro] /\ Placed(m.ro, m.newPhsize + m.newDynstrSz)'
  BY <1>1, PlaceKept DEF RoPlaced, Placed
<1>3. RoPlaced' BY <1>2 DEF RoPlaced
<1>4. m.rw # 0 => RwPlaced'
  <2> SUFFICES ASSUME m.rw # 0 PROVE RwPlaced' OBVIOUS
  <2>1. m.rw \in 1 .. Len(phdrs) OBVIOUS
  <2>2. phdrs'[m.rw] = phdrs[m.rw] /\ Placed(m.rw, m.newDynSz)'
    BY <1>1, <2>1, PlaceKept DEF RwPlaced, Placed
  <2> QED BY <1>2, <2>2 DEF RwPlaced
<1> QED BY <1>3, <1>4

-----------------------------------------------------------------------------
(* The address conversions, for ranges inside a placed segment.            *)

(* Both searches stop at the first segment that contains the range; those  *)
(* before this one end where it begins, or earlier.                        *)
LEMMA FoundInPlace ==
  ASSUME TypeInv, NEW i \in 1 .. Len(phdrs), NEW content \in Nat,
         Holds(phdrs[i], content), Behind(phdrs, i),
         NEW k \in Nat, NEW len \in Nat, 0 < len, k + len <= content
  PROVE  LET off == phdrs[i].offset + k
             va  == phdrs[i].vaddr + k
         IN  /\ VaddrFromOff(phdrs, off, len) = [ok |-> TRUE, val |-> va]
             /\ OffFromVaddr(phdrs, va, len) = [ok |-> TRUE, val |-> off]
         /\ ContainingMemPtload(phdrs, va, len) = i
<1> DEFINE off == phdrs[i].offset + k
           va  == phdrs[i].vaddr + k
           F   == {j \in IndicesOf(phdrs, "LOAD") : FileContains(phdrs[j], off, len)}
           M   == {j \in IndicesOf(phdrs, "LOAD") : MemContains(phdrs[j], va, len)}
<1>1. phdrs \in Seq(Phdr) /\ LoadsInRange(phdrs) /\ MaxU \in Nat
  BY WidthAssumption DEF TypeInv, TypeOK, Shape
<1>2. \A j \in 1 .. Len(phdrs) :
        /\ phdrs[j].offset \in Nat /\ phdrs[j].vaddr \in Nat
        /\ phdrs[j].filesz \in Nat /\ phdrs[j].memsz \in Nat
  BY <1>1, PhdrFields
<1>3. i \in IndicesOf(phdrs, "LOAD") BY DEF Holds, IndicesOf
<1>4. /\ phdrs[i].filesz = content /\ content <= phdrs[i].memsz
      /\ phdrs[i].offset <= MaxU - phdrs[i].memsz
      /\ phdrs[i].vaddr + phdrs[i].memsz <= MaxU
  BY <1>1, <1>3 DEF Holds, LoadsInRange
<1> DEFINE o == phdrs[i].offset
           v == phdrs[i].vaddr
           z == phdrs[i].memsz
<1>14. /\ o \in Nat /\ v \in Nat /\ z \in Nat /\ phdrs[i].filesz = content
      /\ content <= z /\ o <= MaxU - z /\ v + z <= MaxU
      /\ off = o + k /\ va = v + k
  BY <1>2, <1>4
<1> HIDE DEF o, v, z, off, va
<1>5. /\ off \in Nat /\ va \in Nat /\ off <= MaxU - len /\ va <= MaxU - len
      /\ o <= off /\ off + len <= o + content /\ v <= va /\ va + len <= v + z
  <2>1. ASSUME NEW x \in Nat, NEW y \in Nat, NEW t \in Nat,
               content <= t, y <= MaxU - t, x = y + k
        PROVE  y <= x /\ x <= MaxU - len /\ x + len <= y + content /\ x + len <= y + t
    BY <1>1, <2>1
  <2>2. off \in Nat /\ va \in Nat /\ v <= MaxU - z BY <1>1, <1>14
  <2> QED BY <1>14, <2>1, <2>2
<1>6. i \in F /\ i \in M
  BY <1>3, <1>5, <1>14 DEF FileContains, MemContains, o, v, z
<1>7. ASSUME NEW j \in IndicesOf(phdrs, "LOAD"), j < i
      PROVE  ~FileContains(phdrs[j], off, len) /\ ~MemContains(phdrs[j], va, len)
  <2>1. /\ phdrs[j].vaddr + phdrs[j].memsz <= phdrs[i].vaddr
        /\ phdrs[j].offset + phdrs[j].filesz <= phdrs[i].offset
    BY <1>7 DEF Behind
  <2>2. /\ phdrs[j].vaddr \in Nat /\ phdrs[j].memsz \in Nat
        /\ phdrs[j].offset \in Nat /\ phdrs[j].filesz \in Nat
    BY <1>2 DEF IndicesOf
  <2>3. phdrs[j].vaddr + phdrs[j].memsz <= v /\ phdrs[j].offset + phdrs[j].filesz <= o
    BY <2>1 DEF o, v
  <2>4. ASSUME NEW x \in Nat, NEW y \in Nat, NEW t \in Nat, y <= x, t <= y
        PROVE  ~(x + len <= t)
    BY <2>4
  <2>5. phdrs[j].offset + phdrs[j].filesz \in Nat /\ phdrs[j].vaddr + phdrs[j].memsz \in Nat
    <3>1. ASSUME NEW x \in Nat, NEW y \in Nat PROVE x + y \in Nat OBVIOUS
    <3> QED BY <2>2, <3>1, Zenon
  <2>6. ~(off + len <= phdrs[j].offset + phdrs[j].filesz)
    BY <1>5, <1>14, <2>3, <2>4, <2>5
  <2>7. ~(va + len <= phdrs[j].vaddr + phdrs[j].memsz)
    BY <1>5, <1>14, <2>3, <2>4, <2>5
  <2> QED BY <2>6, <2>7 DEF FileContains, MemContains
<1>8. FirstOf(F) = i /\ FirstOf(M) = i
  <2>1. F \in SUBSET (Nat \ {0}) /\ M \in SUBSET (Nat \ {0}) BY DEF IndicesOf
  <2>2. \A j \in F : j \in IndicesOf(phdrs, "LOAD") /\ FileContains(phdrs[j], off, len)
    OBVIOUS
  <2>3. \A j \in M : j \in IndicesOf(phdrs, "LOAD") /\ MemContains(phdrs[j], va, len)
    OBVIOUS
  <2>9. F \subseteq IndicesOf(phdrs, "LOAD") /\ M \subseteq IndicesOf(phdrs, "LOAD")
    OBVIOUS
  <2> HIDE DEF F, M
  <2>4. FirstOf(F) \in F /\ FirstOf(F) <= i BY <1>6, <2>1, FirstOfProperty
  <2>5. FirstOf(M) \in M /\ FirstOf(M) <= i BY <1>6, <2>1, FirstOfProperty
  <2>6. ~(FirstOf(F) < i) /\ FirstOf(F) \in Nat BY <1>7, <2>1, <2>2, <2>4
  <2>7. ~(FirstOf(M) < i) /\ FirstOf(M) \in Nat BY <1>7, <2>1, <2>3, <2>5
  <2>8. i \in Nat OBVIOUS
  <2> QED BY <2>4, <2>5, <2>6, <2>7, <2>8
<1>9. ContainingFilePtload(phdrs, off, len) = i
  BY <1>1, <1>5, <1>8 DEF ContainingFilePtload
<1>10. ContainingMemPtload(phdrs, va, len) = i
  BY <1>1, <1>5, <1>8 DEF ContainingMemPtload
<1>11. /\ phdrs[i].vaddr + (off - phdrs[i].offset) = va
       /\ phdrs[i].offset + (va - phdrs[i].vaddr) = off
       /\ off - phdrs[i].offset <= MaxU - phdrs[i].vaddr
       /\ va - phdrs[i].vaddr <= MaxU - phdrs[i].offset
       /\ i # 0
  <2>1. /\ v + (off - o) = va /\ o + (va - v) = off /\ i # 0
        /\ off - o <= MaxU - v /\ va - v <= MaxU - o
    <3>1. ASSUME NEW x \in Nat, NEW y \in Nat, NEW t \in Nat, x + t <= MaxU, content <= t
          PROVE  k <= MaxU - x
      BY <1>1, <3>1
    <3>2. k <= MaxU - v /\ k <= MaxU - o
      <4>1. o + z <= MaxU BY <1>1, <1>14
      <4> QED BY <1>14, <3>1, <4>1
    <3>3. off - o = k /\ va - v = k /\ v + k = va /\ o + k = off BY <1>14
    <3> QED BY <3>2, <3>3
  <2> QED BY <2>1 DEF o, v
<1>12. VaddrFromOff(phdrs, off, len) = [ok |-> TRUE, val |-> va]
  BY <1>9, <1>10, <1>11 DEF VaddrFromOff
<1>13. OffFromVaddr(phdrs, va, len) = [ok |-> TRUE, val |-> off]
  BY <1>9, <1>10, <1>11 DEF OffFromVaddr
<1> QED BY <1>10, <1>12, <1>13 DEF off, va

(* The same for a range at the start of a segment.                         *)
LEMMA FoundAtStart ==
  ASSUME TypeInv, NEW i \in 1 .. Len(phdrs), NEW content \in Nat,
         Holds(phdrs[i], content), Behind(phdrs, i),
         NEW len \in Nat, 0 < len, len <= content
  PROVE  /\ VaddrFromOff(phdrs, phdrs[i].offset, len) = [ok |-> TRUE, val |-> phdrs[i].vaddr]
         /\ ContainingMemPtload(phdrs, phdrs[i].vaddr, len) = i
<1>1. 0 \in Nat /\ 0 + len <= content OBVIOUS
<1>2. /\ VaddrFromOff(phdrs, phdrs[i].offset + 0, len) = [ok |-> TRUE, val |-> phdrs[i].vaddr + 0]
      /\ ContainingMemPtload(phdrs, phdrs[i].vaddr + 0, len) = i
  BY <1>1, FoundInPlace, ZenonT(60)
<1>3. phdrs[i].offset \in Nat /\ phdrs[i].vaddr \in Nat
  BY PhdrFields DEF TypeInv, TypeOK
<1>4. phdrs[i].offset + 0 = phdrs[i].offset /\ phdrs[i].vaddr + 0 = phdrs[i].vaddr
  BY <1>3
<1> QED BY <1>2, <1>4

-----------------------------------------------------------------------------
(* The plan, action by action.                                             *)

(* Nothing is planned yet, and every segment of an accepted file ends in   *)
(* the file.                                                               *)
LEMMA ReadElfPlan == TypeInv /\ ReadElf => Plan'
<1> SUFFICES ASSUME TypeInv, ReadElf PROVE Plan' OBVIOUS
<1> DEFINE f == disk[argIn]
           b == f.buf
           n == f.size
<1>1. IsFile(f) /\ ParseElf(b, n) /\ pc' = "prepare" /\ m' = m
  BY DEF ReadElf, InputParses, TypeInv, TypeOK
<1>2. n \in U64 /\ n \in Nat /\ n <= MaxU /\ b \in File(n)
  BY <1>1, Naturals64 DEF IsFile
<1>3. /\ phdrs' = PhdrsOf(b) /\ size' = n /\ src'.buf = b /\ src'.size = n
      /\ dyn' = [entries |-> DynEntriesOf(b), phdr |-> PtDynamic(b),
                 shdr |-> ShtDynamic(ShdrsOf(b))]
  BY DEF ReadElf, Load
<1>4. m = NoMods BY DEF ReadElf, TypeInv, Shape
<1> HIDE DEF f, b, n
<1>5. PhdrsOf(b) \in Seq(Phdr)
  BY <1>1, <1>2, PhdrsType DEF ParseElf, ValidShdrs, ValidPhdrs
<1>6. ASSUME NEW j \in 1 .. Len(PhdrsOf(b))
      PROVE  PhdrsOf(b)[j].offset + PhdrsOf(b)[j].filesz <= n
  <2>1. PhdrsOf(b)[j].offset < n /\ PhdrsOf(b)[j].filesz <= n - PhdrsOf(b)[j].offset
    BY <1>1 DEF ParseElf, ValidPhdrs, ValidPhdrExtent
  <2>2. PhdrsOf(b)[j].offset \in Nat /\ PhdrsOf(b)[j].filesz \in Nat
    BY <1>5, PhdrFields
  <2> QED BY <1>2, <2>1, <2>2
<1>7. 0 < Len(DynEntriesOf(b))
  <2> DEFINE d == PtDynamic(b)
  <2>1. DynEntriesOf(b) \in Seq(Dyn)
        /\ Len(DynEntriesOf(b)) * DynEnt = PhdrsOf(b)[d].filesz
    BY <1>1, <1>2, DynamicType
  <2>2. \E last \in 1 .. PhdrsOf(b)[d].filesz \div DynEnt : TRUE
    BY <1>1 DEF ParseElf, ValidDynamic, ValidDynTable
  <2> HIDE DEF d
  <2>3. ASSUME Len(DynEntriesOf(b)) = 0 PROVE FALSE
    <3>1. PhdrsOf(b)[d].filesz = 0 BY <2>1, <2>3, SizeAssumption
    <3>2. PhdrsOf(b)[d].filesz \div DynEnt = 0 BY <3>1, SizeAssumption
    <3> QED BY <2>2, <3>2
  <2>4. Len(DynEntriesOf(b)) \in Nat BY <2>1
  <2> QED BY <2>3, <2>4
<1>8. Sizes' BY <1>1 DEF Sizes, Planned, Filled
<1>9. Segments'
  BY <1>1, <1>3, <1>4, <1>6 DEF Segments, NoMods, Filled, IndicesOf
<1>10. (size = DataEnd)' BY <1>1, <1>3 DEF DataEnd, Growing, Filled
<1>11. Tables'
  <2>1. DynPlace' BY <1>1, <1>3 DEF DynPlace, Filled
  <2>2. Len(phdrs') = Len(PhdrsOf(b)) + 0 + 0 BY <1>3, <1>5
  <2> QED BY <1>1, <1>3, <1>4, <1>7, <2>1, <2>2 DEF Tables, Filled, NoMods
<1> QED BY <1>8, <1>9, <1>10, <1>11 DEF Plan

(* The sizes are those of the tables as they will be.                      *)
LEMMA PreparePlan == TypeInv /\ Plan /\ PrepareSizes => Plan'
<1> SUFFICES ASSUME TypeInv, Plan, PrepareSizes PROVE Plan' OBVIOUS
<1> DEFINE offs   == StrOffset(strtab.size)
           L      == Len(Imports)
           move   == MoveRequired(dyn.entries)
           dynnum == Len(dyn.entries) + L
<1>1. /\ pc = "prepare" /\ pc' = "appendRo" /\ offs \in [1 .. L + 1 -> U64]
      /\ dynnum <= MaxU \div DynEnt
      /\ m' = [strOffs |-> SubSeq(offs, 1, L), newDynstrSz |-> offs[L + 1],
               move |-> move, newDynSz |-> IF move THEN dynnum * DynEnt ELSE 0,
               newPhsize |-> NewPhnum(move) * PhEnt,
               segOff |-> size, ro |-> 0, rw |-> 0]
      /\ UNCHANGED <<src, phdrs, ehdr, dyn, size>>
  BY DEF PrepareSizes, env, tabs, data
<1>2. m = NoMods BY <1>1 DEF TypeInv, Shape
<1>3. 0 < offs[L + 1]
  <2>1. L \in Nat \ {0} /\ L \in 1 .. L + 1 /\ L + 1 \in 1 .. L + 1 BY ImportAssumption
  <2>2. Imports[L] \in Names BY <2>1, ImportAssumption
  <2>3. NameLen[Imports[L]] \in Nat BY <2>2, NameAssumption
  <2>4. strtab.size \in Nat BY Naturals64 DEF TypeInv, TypeOK, Strtab
  <2>5. offs = [i \in 1 .. L + 1 |->
                  IF i = 1 THEN strtab.size
                  ELSE offs[i - 1] + NameLen[Imports[i - 1]] + 1]
    BY <2>4, StrOffsetSteps
  <2>6. offs[L] \in Nat BY <1>1, <2>1, Naturals64
  <2> HIDE DEF offs
  <2>7. \A i \in 1 .. L + 1 : offs[i] = IF i = 1 THEN strtab.size
                                       ELSE offs[i - 1] + NameLen[Imports[i - 1]] + 1
    BY <2>5, Zenon
  <2>8. offs[L + 1] = offs[L] + NameLen[Imports[L]] + 1
    <3> HIDE DEF L
    <3>1. L + 1 # 1 /\ L + 1 - 1 = L BY <2>1
    <3> QED BY <2>1, <2>7, <3>1
  <2> QED BY <2>3, <2>6, <2>8
<1> HIDE DEF offs, move
<1>4. Sizes'
  <2>1. move \in BOOLEAN BY DEF move, MoveRequired
  <2>2. m'.newPhsize = (Len(phdrs) + (IF m'.move THEN 2 ELSE 1)) * PhEnt
    BY <1>1, <2>1 DEF NewPhnum
  <2>3. Pending' = IF m'.move THEN 2 ELSE 1 BY <1>1 DEF Pending
  <2>4. m'.newDynstrSz = offs[L + 1] /\ (m'.move => m'.newDynSz = dynnum * DynEnt)
    BY <1>1
  <2>5. NewDynNum' = dynnum BY <1>1 DEF NewDynNum
  <2> HIDE DEF dynnum
  <2>6. m'.move => dynnum <= MaxU \div DynEnt /\ m'.newDynSz = dynnum * DynEnt
    BY <1>1, <2>4
  <2>7. m'.newPhsize = (Len(phdrs)' + Pending') * PhEnt BY <1>1, <2>2, <2>3
  <2> QED BY <1>1, <1>3, <2>4, <2>5, <2>6, <2>7 DEF Sizes, Planned
<1>5. Segments'
  BY <1>1, <1>2 DEF Plan, Segments, NoMods, DataEnd, Growing, Filled
<1>6. (size = DataEnd)' BY <1>1 DEF Plan, DataEnd, Growing, Filled
<1>7. Tables'
  BY <1>1, <1>2 DEF Plan, Tables, DynPlace, NoMods, Growing, Filled
<1> QED BY <1>4, <1>5, <1>6, <1>7 DEF Plan

(* The program headers of the input.                                       *)
LEMMA OldTable ==
  ASSUME TypeInv, Footprint
  PROVE  PhdrsOf(src.buf) \in Seq(Phdr) /\ Len(PhdrsOf(src.buf)) \in Nat
<1>1. src.size \in Nat /\ src.size <= MaxU /\ src.buf \in File(src.size)
  BY Naturals64 DEF TypeInv, TypeOK, IsFile
<1>2. PhdrsOf(src.buf) \in Seq(Phdr)
  BY <1>1, PhdrsType DEF Footprint, ParseElf, ValidShdrs, ValidPhdrs
<1> QED BY <1>2

(* What append_new_ptload_segment does to the table.                       *)
LEMMA AppendTables ==
  ASSUME TypeInv, Footprint, Plan, pc \in {"appendRo", "appendRw"},
         pc' \in {"appendRw", "movePhdrs"},
         NEW content \in U64, NEW write \in BOOLEAN, AppendSegment(content, write),
         \/ m.ro = 0 /\ m'.ro = Len(phdrs) + 1 /\ m.rw = 0 /\ m'.rw = 0
         \/ m.rw = 0 /\ m'.rw = Len(phdrs) + 1 /\ m.ro # 0 /\ m'.ro = m.ro,
         UNCHANGED <<src, dyn>>
  PROVE  Tables'
<1> DEFINE old == PhdrsOf(src.buf)
<1>1. /\ phdrs \in Seq(Phdr) /\ phdrs' \in Seq(Phdr) /\ Len(phdrs') = Len(phdrs) + 1
      /\ \A i \in 1 .. Len(phdrs) : phdrs'[i].type = phdrs[i].type
      /\ \A i \in 1 .. Len(phdrs) : phdrs[i].type # "PHDR" => phdrs'[i] = phdrs[i]
  BY AppendSegmentProperty DEF TypeInv, TypeOK
<1>2. /\ dyn.entries = DynEntriesOf(src.buf) /\ 0 < Len(dyn.entries)
      /\ dyn.phdr = PtDynamic(src.buf)
      /\ Len(phdrs) = Len(old) + (IF m.ro = 0 THEN 0 ELSE 1) + (IF m.rw = 0 THEN 0 ELSE 1)
      /\ \A j \in 1 .. Len(old) : /\ phdrs[j].type = old[j].type
                                  /\ old[j].type = "LOAD" => phdrs[j] = old[j]
      /\ phdrs[dyn.phdr] = old[dyn.phdr]
  BY DEF Plan, Tables, DynPlace, Growing, Filled
<1>3. Len(phdrs) \in Nat /\ Len(old) \in Nat /\ Len(old) <= Len(phdrs)
  BY <1>1, <1>2, OldTable
<1>4. dyn.phdr \in 1 .. Len(phdrs) /\ phdrs[dyn.phdr].type = "DYNAMIC"
  BY DEF TypeInv, Shape, Loaded
<1>5. phdrs'[dyn.phdr] = phdrs[dyn.phdr] BY <1>1, <1>4
<1> HIDE DEF old
<1>6. \A j \in 1 .. Len(old) : /\ phdrs'[j].type = old[j].type
                               /\ old[j].type = "LOAD" => phdrs'[j] = old[j]
  <2> TAKE j \in 1 .. Len(old)
  <2>1. j \in 1 .. Len(phdrs) BY <1>3
  <2>2. phdrs'[j].type = old[j].type BY <1>1, <1>2, <2>1
  <2>3. ASSUME old[j].type = "LOAD" PROVE phdrs'[j] = old[j]
    <3>1. phdrs[j] = old[j] BY <1>2, <2>3
    <3> QED BY <1>1, <2>1, <2>3, <3>1
  <2> QED BY <2>2, <2>3
<1>7. Len(phdrs') = Len(old) + (IF m'.ro = 0 THEN 0 ELSE 1) + (IF m'.rw = 0 THEN 0 ELSE 1)
  <2>1. CASE m.ro = 0 /\ m'.ro = Len(phdrs) + 1 /\ m.rw = 0 /\ m'.rw = 0
    <3>1. Len(phdrs) = Len(old) /\ m'.ro # 0 BY <1>2, <1>3, <2>1
    <3> QED BY <1>1, <1>3, <2>1, <3>1
  <2>2. CASE m.rw = 0 /\ m'.rw = Len(phdrs) + 1 /\ m.ro # 0 /\ m'.ro = m.ro
    <3>1. Len(phdrs) = Len(old) + 1 /\ m'.rw # 0 BY <1>2, <1>3, <2>2
    <3> QED BY <1>1, <1>3, <2>2, <3>1
  <2> QED BY <2>1, <2>2
<1>8. old' = old BY DEF old
<1>9. DynPlace'
  <2>1. phdrs'[dyn.phdr] = old[dyn.phdr] BY <1>2, <1>5
  <2> QED BY <2>1 DEF DynPlace, Filled, old
<1> QED
  BY <1>2, <1>6, <1>7, <1>8, <1>9 DEF Tables, Filled, old

(* The first segment lies behind the end of the file.                      *)
LEMMA AppendRoPlan == TypeInv /\ Footprint /\ Plan /\ AppendRo => Plan'
<1> SUFFICES ASSUME TypeInv, Footprint, Plan, AppendRo PROVE Plan' OBVIOUS
<1> DEFINE n == Len(phdrs) + 1
           al == MaxLoadAlign(phdrs)
<1>1. /\ pc = "appendRo" /\ pc' = IF m.move THEN "appendRw" ELSE "movePhdrs"
      /\ RoContent <= MaxU /\ AppendSegment(RoContent, FALSE)
      /\ m' = [m EXCEPT !.ro = n, !.segOff = @ + SegmentFor(RoContent).memsz]
      /\ UNCHANGED <<src, dyn, size>>
  BY DEF AppendRo, env, data
<1>2. /\ m.newPhsize = (Len(phdrs) + (IF m.move THEN 2 ELSE 1)) * PhEnt
      /\ 0 < m.newDynstrSz
      /\ m.move => NewDynNum <= MaxU \div DynEnt /\ m.newDynSz = NewDynNum * DynEnt
  BY <1>1 DEF Plan, Sizes, Planned, Pending
<1>3. m.ro = 0 /\ m.rw = 0 /\ m.segOff = src.size /\ size = src.size
      /\ \A j \in IndicesOf(phdrs, "LOAD") : phdrs[j].offset + phdrs[j].filesz <= src.size
  BY <1>1 DEF Plan, Segments, DataEnd, Growing
<1>4. phdrs \in Seq(Phdr) /\ m \in Mods /\ src.size \in Nat /\ m.move \in BOOLEAN
      /\ m.newPhsize \in Nat /\ m.newDynstrSz \in Nat
  BY Naturals64 DEF TypeInv, TypeOK, IsFile, Mods
<1>5. RoContent \in U64 /\ 0 < RoContent
  <2>1. RoContent = m.newPhsize + m.newDynstrSz BY DEF RoContent
  <2> QED BY <1>1, <1>2, <1>4, <2>1, WidthAssumption DEF U64
<1>6. \A j \in IndicesOf(phdrs, "LOAD") :
        phdrs[j].offset + phdrs[j].filesz <= AlignUp(m.segOff, al)
  <2>1. al \in Nat \ {0} BY <1>4, MaxLoadAlignProperty, Naturals64
  <2>2. AlignUp(src.size, al) \in Nat /\ src.size <= AlignUp(src.size, al)
    BY <1>4, <2>1, AlignUpProperty
  <2> HIDE DEF al
  <2> TAKE j \in IndicesOf(phdrs, "LOAD")
  <2>3. phdrs[j].offset \in Nat /\ phdrs[j].filesz \in Nat
    BY <1>4, PhdrFields DEF IndicesOf
  <2> QED BY <1>3, <1>4, <2>2, <2>3
<1> DEFINE content == RoContent
<1>7. /\ phdrs'[n] \in Phdr /\ Holds(phdrs'[n], content) /\ Behind(phdrs', n)
      /\ src.size <= phdrs'[n].offset
      /\ phdrs'[n].offset = AlignUp(src.size, phdrs'[n].align)
      /\ phdrs'[n].memsz = SegmentFor(content).memsz
  BY <1>1, <1>3, <1>5, <1>6, AppendPlaced
<1>8. phdrs' \in Seq(Phdr) /\ Len(phdrs') = n
  BY <1>1, <1>5, AppendSegmentProperty
<1>9. /\ m'.ro = n /\ m'.rw = 0 /\ m'.move = m.move
      /\ m'.segOff = src.size + phdrs'[n].memsz
      /\ m'.newPhsize = m.newPhsize /\ m'.newDynstrSz = m.newDynstrSz
      /\ m'.newDynSz = m.newDynSz
  BY <1>1, <1>3, <1>4, <1>7 DEF Mods
<1>10. n \in Nat \ {0} BY <1>4
<1>11. Sizes'
  <2>1. (Len(phdrs) + Pending)' = Len(phdrs) + (IF m.move THEN 2 ELSE 1)
    <3>1. Pending' = IF m.move THEN 1 ELSE 0 BY <1>1, <1>4, <1>9 DEF Pending
    <3>2. Len(phdrs) \in Nat BY <1>4
    <3> QED BY <1>8, <3>1, <3>2
  <2>2. NewDynNum' = NewDynNum BY <1>1 DEF NewDynNum
  <2>3. m'.newPhsize = (Len(phdrs) + Pending)' * PhEnt BY <1>2, <1>9, <2>1
  <2> QED BY <1>2, <1>9, <2>2, <2>3 DEF Sizes
<1> HIDE DEF content
<1>12. RoPlaced'
  <2>1. content = m'.newPhsize + m'.newDynstrSz BY <1>9 DEF content, RoContent
  <2> HIDE DEF n
  <2>2. Placed(m.ro, m.newPhsize + m.newDynstrSz)'
    BY <1>1, <1>7, <1>9, <2>1 DEF Placed
  <2>3. Len(phdrs') = m'.ro + (IF m'.rw = 0 THEN 0 ELSE 1) BY <1>8, <1>9, <1>10
  <2> QED BY <2>2, <2>3 DEF RoPlaced
<1> HIDE DEF n
<1>13. Segments'
  BY <1>1, <1>4, <1>7, <1>9, <1>10, <1>12 DEF Segments, Filled
<1>14. (size = DataEnd)' BY <1>1, <1>3 DEF DataEnd, Growing, Filled
<1>15. Tables'
  <2>1. pc' \in {"appendRw", "movePhdrs"} BY <1>1
  <2> QED BY <1>1, <1>3, <1>5, <1>9, <2>1, AppendTables DEF n
<1> QED BY <1>11, <1>13, <1>14, <1>15 DEF Plan

(* The second one lies right behind the first: its place is rounded up to  *)
(* the same alignment, and the first one is made of whole pages.           *)
LEMMA AppendRwPlan == TypeInv /\ Footprint /\ Plan /\ AppendRw => Plan'
<1> SUFFICES ASSUME TypeInv, Footprint, Plan, AppendRw PROVE Plan' OBVIOUS
<1> DEFINE n  == Len(phdrs) + 1
           al == MaxLoadAlign(phdrs)
           ro == phdrs[m.ro]
           content == RwContent
<1>1. /\ pc = "appendRw" /\ pc' = "movePhdrs" /\ AppendSegment(content, TRUE)
      /\ m' = [m EXCEPT !.rw = n, !.segOff = @ + SegmentFor(content).memsz]
      /\ UNCHANGED <<src, dyn, size>>
  BY DEF AppendRw, env, data
<1>2. /\ m.newPhsize = (Len(phdrs) + 1) * PhEnt
      /\ 0 < m.newDynstrSz
      /\ m.move => NewDynNum <= MaxU \div DynEnt /\ m.newDynSz = NewDynNum * DynEnt
  BY <1>1 DEF Plan, Sizes, Planned, Pending
<1>3. m.ro # 0 /\ m.rw = 0 /\ m.move /\ m.segOff = src.size + ro.memsz
      /\ ro.offset = AlignUp(src.size, ro.align) /\ size = src.size
      /\ RoPlaced
  BY <1>1 DEF Plan, Segments, DataEnd, Growing
<1>4. /\ phdrs \in Seq(Phdr) /\ m \in Mods /\ src.size \in Nat /\ n \in Nat \ {0}
      /\ m.ro \in 1 .. Len(phdrs) /\ ro \in Phdr /\ m.ro = Len(phdrs)
  <2>1. phdrs \in Seq(Phdr) /\ m \in Mods /\ src.size \in Nat /\ m.ro <= Len(phdrs)
    BY Naturals64 DEF TypeInv, TypeOK, IsFile
  <2>2. m.ro \in Nat BY <2>1 DEF Mods
  <2>3. Len(phdrs) = m.ro + 0 BY <1>3 DEF RoPlaced
  <2>4. m.ro \in 1 .. Len(phdrs) BY <1>3, <2>1, <2>2
  <2> QED BY <2>1, <2>2, <2>3, <2>4
<1>5. /\ Holds(ro, m.newPhsize + m.newDynstrSz) /\ Behind(phdrs, m.ro)
      /\ src.size <= ro.offset
  BY <1>3 DEF RoPlaced, Placed
<1>6. content \in U64 /\ 0 < content
  <2>1. content = NewDynNum * DynEnt BY <1>2, <1>3 DEF RwContent
  <2>2. NewDynNum \in Nat /\ 0 < NewDynNum
    <3>1. Len(dyn.entries) \in Nat BY DEF TypeInv, TypeOK, Dynamic
    <3> QED BY <3>1, ImportCount DEF NewDynNum
  <2>3. m.newDynSz \in U64 BY <1>4 DEF Mods
  <2>4. 0 < NewDynNum * DynEnt BY <2>2, SizeAssumption
  <2> QED BY <2>1, <2>3, <2>4 DEF RwContent
<1>7. ro.align = al
  <2>1. /\ al \in {PageSize} \cup {phdrs[i].align : i \in IndicesOf(phdrs, "LOAD")}
        /\ PageSize <= al
        /\ \A i \in IndicesOf(phdrs, "LOAD") : phdrs[i].align <= al
    BY <1>4, MaxLoadAlignBound
  <2>2. m.ro \in IndicesOf(phdrs, "LOAD") BY <1>4, <1>5 DEF Holds, IndicesOf
  <2>3. ro.align <= al BY <2>1, <2>2
  <2>4. PageSize <= ro.align /\ ro.align \in Nat BY <1>4, <1>5, PhdrFields DEF Holds
  <2>5. \A i \in IndicesOf(phdrs, "LOAD") : phdrs[i].align <= ro.align
    <3> TAKE i \in IndicesOf(phdrs, "LOAD")
    <3>1. i \in 1 .. Len(phdrs) BY DEF IndicesOf
    <3>2. i = m.ro \/ i < m.ro BY <1>4, <3>1
    <3> QED BY <1>5, <2>4, <3>2 DEF Behind
  <2>6. al <= ro.align BY <2>1, <2>4, <2>5
  <2>7. al \in Nat BY <1>4, MaxLoadAlignProperty, Naturals64
  <2> QED BY <2>3, <2>4, <2>6, <2>7
<1>8. AlignUp(m.segOff, al) = ro.offset + ro.memsz
  <2>1. ro.memsz \in Nat /\ ro.memsz % al = 0 /\ al \in Nat \ {0}
    BY <1>4, <1>5, <1>7, MaxLoadAlignProperty, PhdrFields, Naturals64 DEF Holds
  <2>2. AlignUp(src.size + ro.memsz, al) = AlignUp(src.size, al) + ro.memsz
    BY <1>4, <2>1, AlignedSum
  <2> HIDE DEF al, ro
  <2> QED BY <1>3, <1>7, <2>2
<1>9. \A j \in IndicesOf(phdrs, "LOAD") :
        phdrs[j].offset + phdrs[j].filesz <= AlignUp(m.segOff, al)
  <2> TAKE j \in IndicesOf(phdrs, "LOAD")
  <2>1. j \in 1 .. Len(phdrs) BY DEF IndicesOf
  <2>2. phdrs[j].offset \in Nat /\ phdrs[j].filesz \in Nat /\ ro.offset \in Nat
        /\ ro.memsz \in Nat /\ ro.filesz \in Nat
    BY <1>4, <2>1, PhdrFields
  <2>3. CASE j = m.ro
    <3>1. ro.filesz <= ro.memsz BY <1>5 DEF Holds
    <3> QED BY <1>8, <2>2, <2>3, <3>1
  <2>4. CASE j < m.ro
    <3>1. phdrs[j].offset + phdrs[j].filesz <= ro.offset BY <1>5, <2>4 DEF Behind
    <3> HIDE DEF ro, al
    <3> QED BY <1>8, <2>2, <3>1
  <2> QED BY <1>4, <2>1, <2>3, <2>4
<1>10. /\ phdrs'[n] \in Phdr /\ Holds(phdrs'[n], content) /\ Behind(phdrs', n)
       /\ m.segOff <= phdrs'[n].offset
       /\ phdrs'[n].align = al
       /\ phdrs'[n].write = TRUE
  BY <1>1, <1>6, <1>9, AppendPlaced
<1>11. /\ phdrs' \in Seq(Phdr) /\ Len(phdrs') = n
       /\ \A i \in 1 .. Len(phdrs) : phdrs'[i].type = phdrs[i].type
       /\ \A i \in 1 .. Len(phdrs) : phdrs[i].type # "PHDR" => phdrs'[i] = phdrs[i]
  BY <1>1, <1>6, AppendSegmentProperty
<1>12. /\ m'.rw = n /\ m'.ro = m.ro /\ m'.move = m.move
       /\ m'.newPhsize = m.newPhsize /\ m'.newDynstrSz = m.newDynstrSz
       /\ m'.newDynSz = m.newDynSz
  BY <1>1, <1>4 DEF Mods
<1>13. /\ phdrs'[m.ro] = ro
       /\ Holds(phdrs'[m.ro], m.newPhsize + m.newDynstrSz) /\ Behind(phdrs', m.ro)
       /\ src'.size <= phdrs'[m.ro].offset
  <2>1. Len(phdrs) <= Len(phdrs') BY <1>4, <1>11
  <2>2. Placed(m.ro, m.newPhsize + m.newDynstrSz) BY <1>3 DEF RoPlaced
  <2>3. \A j \in 1 .. Len(phdrs) : phdrs[j].type = "LOAD" => phdrs'[j] = phdrs[j]
    BY <1>11
  <2> HIDE DEF n
  <2> QED BY <1>1, <1>4, <1>11, <2>1, <2>2, <2>3, PlaceKept
<1>14. Sizes'
  <2>1. Pending' = 0 BY <1>1 DEF Pending
  <2>2. NewDynNum' = NewDynNum BY <1>1 DEF NewDynNum
  <2>3. (Len(phdrs) + Pending)' = Len(phdrs) + 1 BY <1>4, <1>11, <2>1
  <2> QED BY <1>2, <1>12, <2>2, <2>3 DEF Sizes
<1>15. RoPlaced'
  <2>1. Placed(m.ro, m.newPhsize + m.newDynstrSz)' BY <1>12, <1>13 DEF Placed
  <2>2. Len(phdrs') = m'.ro + 1 /\ m'.rw # 0 BY <1>4, <1>11, <1>12
  <2> QED BY <2>1, <2>2 DEF RoPlaced
<1>16. RwPlaced'
  <2>1. src.size <= m.segOff
    <3>1. ro.memsz \in Nat BY <1>4, PhdrFields
    <3> QED BY <1>3, <1>4, <3>1
  <2>2. src'.size <= phdrs'[n].offset
    <3>1. m.segOff \in Nat /\ phdrs'[n].offset \in Nat
      BY <1>4, <1>10, PhdrFields, Naturals64 DEF Mods
    <3> HIDE DEF n, ro
    <3> QED BY <1>1, <1>4, <1>10, <2>1, <3>1
  <2>3. content = m'.newDynSz BY <1>12 DEF RwContent
  <2> HIDE DEF content
  <2>4. Placed(m.rw, m.newDynSz)' BY <1>10, <1>12, <2>2, <2>3 DEF Placed
  <2>5. m'.rw = m'.ro + 1 /\ m'.ro # 0 BY <1>4, <1>12
  <2>6. phdrs'[m'.rw].align = phdrs'[m'.ro].align /\ phdrs'[m'.rw].write
    BY <1>7, <1>10, <1>12, <1>13
  <2> QED BY <2>4, <2>5, <2>6 DEF RwPlaced
<1> HIDE DEF n, content
<1>17. Segments'
  BY <1>1, <1>3, <1>4, <1>12, <1>15, <1>16 DEF Segments, Filled
<1>18. (size = DataEnd)' BY <1>1, <1>3 DEF DataEnd, Growing, Filled
<1>19. Tables'
  <2>1. pc' \in {"appendRw", "movePhdrs"} BY <1>1
  <2> QED BY <1>1, <1>3, <1>6, <1>12, <2>1, AppendTables DEF n
<1> QED BY <1>14, <1>17, <1>18, <1>19 DEF Plan

(* What is known of the segments while they are filled.                    *)
LEMMA FillPlan ==
  ASSUME TypeInv, Plan, Appended
  PROVE  /\ phdrs \in Seq(Phdr) /\ m.ro \in 1 .. Len(phdrs) /\ m.rw \in 0 .. Len(phdrs)
         /\ RoPlaced /\ (m.rw # 0 <=> m.move) /\ (m.rw # 0 => RwPlaced)
         /\ src.size \in Nat /\ src.size <= phdrs[m.ro].offset
         /\ phdrs[m.ro].offset \in Nat
         /\ m.newPhsize \in Nat /\ m.newDynstrSz \in Nat /\ 0 < m.newDynstrSz
         /\ phdrs[m.ro].filesz = m.newPhsize + m.newDynstrSz
         /\ m.newPhsize = Len(phdrs) * PhEnt
         /\ m.move => /\ NewDynNum <= MaxU \div DynEnt
                      /\ m.newDynSz = NewDynNum * DynEnt
<1>1. phdrs \in Seq(Phdr) /\ m.ro \in 1 .. Len(phdrs) /\ phdrs[m.ro] \in Phdr
  BY FillFacts DEF TypeInv, TypeOK
<1>2. m \in Mods /\ m.rw <= Len(phdrs) /\ src.size \in Nat
  BY Naturals64 DEF TypeInv, TypeOK, IsFile
<1>3. m.rw \in 0 .. Len(phdrs) /\ m.newPhsize \in Nat /\ m.newDynstrSz \in Nat
  BY <1>1, <1>2, Naturals64 DEF Mods
<1>4. RoPlaced /\ (m.rw # 0 <=> m.move) /\ (m.rw # 0 => RwPlaced)
  BY DEF Plan, Segments, Appended
<1>5. src.size <= phdrs[m.ro].offset /\ phdrs[m.ro].offset \in Nat
      /\ phdrs[m.ro].filesz = m.newPhsize + m.newDynstrSz
  BY <1>1, <1>4, PhdrFields DEF RoPlaced, Placed, Holds
<1>6. /\ m.newPhsize = (Len(phdrs) + 0) * PhEnt /\ 0 < m.newDynstrSz
      /\ m.move => NewDynNum <= MaxU \div DynEnt /\ m.newDynSz = NewDynNum * DynEnt
  BY DEF Plan, Sizes, Planned, Pending, Appended
<1>7. m.newPhsize = Len(phdrs) * PhEnt
  <2>1. Len(phdrs) + 0 = Len(phdrs) BY <1>1
  <2> QED BY <1>6, <2>1
<1> QED BY <1>1, <1>2, <1>3, <1>4, <1>5, <1>6, <1>7

(* The data grows to the end of what is put behind it.                     *)
LEMMA GrownTo ==
  ASSUME NEW n \in Nat, NEW to \in Nat, NEW len \in Nat, n <= to
  PROVE  MovedSize(n, to, len) = to + len
<1>1. to + len \in Nat /\ n <= to + len OBVIOUS
<1>2. Max({n, to + len}) \in {n, to + len} /\ to + len <= Max({n, to + len})
  BY <1>1, MaxOfTwo
<1> HIDE DEF Max
<1>3. Max({n, to + len}) = to + len BY <1>1, <1>2
<1> QED BY <1>3 DEF MovedSize

(* The program headers go to the start of the first segment.               *)
LEMMA MovePhdrsPlan == TypeInv /\ Footprint /\ Plan /\ MovePhdrs => Plan'
<1> SUFFICES ASSUME TypeInv, Footprint, Plan, MovePhdrs PROVE Plan' OBVIOUS
<1> DEFINE to  == phdrs[m.ro].offset
           len == Len(phdrs) * PhEnt
           pt  == UniquePhdr(phdrs, "PHDR")
           va  == VaddrFromOff(phdrs, to, len).val
           old == PhdrsOf(src.buf)
<1>1. /\ pc = "movePhdrs" /\ pc' = "moveDynstr"
      /\ size' = MovedSize(size, to, m.newPhsize)
      /\ ehdr' = [ehdr EXCEPT !.phoff = to]
      /\ phdrs' = Moved(phdrs, pt, to, va, len)
      /\ UNCHANGED <<src, dyn, m>>
  BY DEF MovePhdrs, env
<1>2. Appended BY <1>1 DEF Appended
<1>3. /\ phdrs \in Seq(Phdr) /\ m.ro \in 1 .. Len(phdrs) /\ m.rw \in 0 .. Len(phdrs)
      /\ RoPlaced /\ (m.rw # 0 <=> m.move) /\ (m.rw # 0 => RwPlaced)
      /\ src.size \in Nat /\ src.size <= to /\ to \in Nat
      /\ m.newPhsize \in Nat /\ m.newPhsize = len
      /\ 0 < m.newDynstrSz
      /\ m.move => NewDynNum <= MaxU \div DynEnt /\ m.newDynSz = NewDynNum * DynEnt
  BY <1>2, FillPlan
<1>4. size = src.size BY <1>1 DEF Plan, DataEnd, Growing, Filled
<1>5. pt \in 0 .. Len(phdrs) /\ (pt # 0 => phdrs[pt].type = "PHDR")
  BY <1>3, UniquePhdrProperty
<1>6. /\ phdrs' \in Seq(Phdr) /\ Len(phdrs') = Len(phdrs)
      /\ \A j \in 1 .. Len(phdrs) : phdrs'[j].type = phdrs[j].type
  <2> HIDE DEF to, len, va, pt
  <2>1. phdrs' \in Seq(Phdr) BY MovePhdrsTypes DEF TypeInv, TypeOK
  <2>2. CASE pt = 0 BY <1>1, <1>3, <2>2 DEF Moved
  <2>3. CASE pt # 0
    <3> DEFINE q == [phdrs[pt] EXCEPT !.offset = to, !.vaddr = va,
                                      !.filesz = len, !.memsz = len]
    <3>1. phdrs' = [phdrs EXCEPT ![pt] = q] BY <1>1, <2>3 DEF Moved
    <3>2. pt \in 1 .. Len(phdrs) BY <1>3, <1>5, <2>3
    <3>3. q.type = phdrs[pt].type
      <4>1. phdrs[pt] \in Phdr BY <1>3, <3>2
      <4> QED BY <4>1 DEF Phdr
    <3> HIDE DEF q
    <3>4. DOMAIN phdrs' = DOMAIN phdrs BY <3>1
    <3>5. Len(phdrs') = Len(phdrs) BY <1>3, <2>1, <3>4
    <3> QED BY <1>3, <2>1, <3>1, <3>2, <3>3, <3>5
  <2> QED BY <2>2, <2>3
<1>7. \A j \in 1 .. Len(phdrs) : phdrs[j].type # "PHDR" => phdrs'[j] = phdrs[j]
  <2> TAKE j \in 1 .. Len(phdrs)
  <2> SUFFICES ASSUME phdrs[j].type # "PHDR" PROVE phdrs'[j] = phdrs[j] OBVIOUS
  <2>1. j # pt BY <1>5
  <2> HIDE DEF to, len, va, pt
  <2> QED BY <1>1, <1>3, <2>1, MovedKeepsOthers
<1>8. RoPlaced' /\ (m.rw # 0 => RwPlaced')
  <2> HIDE DEF to, len, va, pt
  <2> QED BY <1>1, <1>3, <1>6, <1>7, PlacesKept
<1>9. phdrs'[m.ro] = phdrs[m.ro]
  <2>1. phdrs[m.ro].type = "LOAD" BY <1>3 DEF RoPlaced, Placed, Holds
  <2> QED BY <1>3, <1>7, <2>1
<1>10. Sizes'
  <2>1. Pending' = 0 /\ Pending = 0 BY <1>1 DEF Pending
  <2>2. NewDynNum' = NewDynNum BY <1>1 DEF NewDynNum
  <2>3. (Len(phdrs) + Pending)' = Len(phdrs) BY <1>3, <1>6, <2>1
  <2> QED BY <1>1, <1>3, <2>2, <2>3 DEF Sizes
<1>11. Segments'
  <2> HIDE DEF to, len, va, pt
  <2>1. m'.ro # 0 /\ m' = m BY <1>1, <1>3
  <2> QED BY <1>1, <1>3, <1>8, <2>1 DEF Segments, Filled
<1>12. (size = DataEnd)'
  <2>1. size' = to + m.newPhsize BY <1>1, <1>3, <1>4, GrownTo
  <2> QED BY <1>1, <1>9, <2>1 DEF DataEnd, Growing, Filled
<1>13. Tables'
  <2>1. /\ dyn.entries = DynEntriesOf(src.buf) /\ 0 < Len(dyn.entries)
        /\ dyn.phdr = PtDynamic(src.buf)
        /\ Len(phdrs) = Len(old) + (IF m.ro = 0 THEN 0 ELSE 1) + (IF m.rw = 0 THEN 0 ELSE 1)
        /\ \A j \in 1 .. Len(old) : /\ phdrs[j].type = old[j].type
                                    /\ old[j].type = "LOAD" => phdrs[j] = old[j]
        /\ phdrs[dyn.phdr] = old[dyn.phdr]
    BY <1>1 DEF Plan, Tables, DynPlace, Growing, Filled
  <2>2. Len(old) \in Nat BY OldTable
  <2>3. \A j \in 1 .. Len(old) : j \in 1 .. Len(phdrs)
    BY <1>3, <2>1, <2>2
  <2>4. phdrs'[dyn.phdr] = old[dyn.phdr] BY <1>2, <1>7, <2>1, FillFacts
  <2>5. ehdr'.phoff = phdrs'[m.ro].offset
    <3>1. ehdr \in Ehdr BY DEF TypeInv, TypeOK
    <3> HIDE DEF to
    <3>2. ehdr'.phoff = to BY <1>1, <3>1 DEF Ehdr
    <3> QED BY <1>9, <3>2 DEF to
  <2> HIDE DEF to, len, va, pt, old
  <2>6. \A j \in 1 .. Len(old) : /\ phdrs'[j].type = old[j].type
                                 /\ old[j].type = "LOAD" => phdrs'[j] = old[j]
    <3> TAKE j \in 1 .. Len(old)
    <3>1. j \in 1 .. Len(phdrs) /\ phdrs[j].type = old[j].type BY <2>1, <2>3
    <3>2. ASSUME old[j].type = "LOAD" PROVE phdrs'[j] = old[j]
      <4>1. phdrs[j] = old[j] BY <2>1, <3>2
      <4> QED BY <1>7, <3>1, <3>2, <4>1
    <3> QED BY <1>6, <3>1, <3>2
  <2>7. DynPlace' BY <1>1, <2>4 DEF DynPlace, Filled, old
  <2> QED BY <1>1, <1>6, <2>1, <2>5, <2>6, <2>7 DEF Tables, Filled, old
<1> QED BY <1>10, <1>11, <1>12, <1>13 DEF Plan

(* .dynstr goes right behind them and fills the first segment.             *)
LEMMA MoveDynstrPlan == TypeInv /\ Footprint /\ Plan /\ MoveDynstr => Plan'
<1> SUFFICES ASSUME TypeInv, Footprint, Plan, MoveDynstr PROVE Plan' OBVIOUS
<1> DEFINE ro == phdrs[m.ro]
<1>1. /\ pc = "moveDynstr" /\ pc' = "addEntries"
      /\ size' = MovedSize(size, NewDynstrOff, m.newDynstrSz)
      /\ dyn' = [dyn EXCEPT
           !.entries[DynIndex(dyn.entries, "STRTAB")].val = NewDynstrVaddr,
           !.entries[DynIndex(dyn.entries, "STRSZ")].val = m.newDynstrSz]
      /\ UNCHANGED <<src, ehdr, phdrs, m>>
  BY DEF MoveDynstr, env
<1>2. Appended BY <1>1 DEF Appended
<1>3. /\ RoPlaced /\ (m.rw # 0 <=> m.move) /\ (m.rw # 0 => RwPlaced) /\ m.ro # 0
      /\ src.size \in Nat /\ src.size <= ro.offset /\ ro.offset \in Nat
      /\ m.newPhsize \in Nat /\ m.newDynstrSz \in Nat
      /\ ro.filesz = m.newPhsize + m.newDynstrSz
  BY <1>2, FillPlan
<1>4. size = ro.offset + m.newPhsize BY <1>1 DEF Plan, DataEnd, Growing, Filled
<1>5. Len(dyn'.entries) = Len(dyn.entries) BY MoveDynstrTypes
<1>6. dyn'.phdr = dyn.phdr
  <2>1. dyn \in Dynamic BY DEF TypeInv, TypeOK
  <2> QED BY <1>1, <2>1 DEF Dynamic
<1>7. Sizes'
  <2>1. Pending' = Pending BY <1>1 DEF Pending
  <2>2. NewDynNum' = NewDynNum BY <1>5 DEF NewDynNum
  <2> QED BY <1>1, <2>1, <2>2 DEF Plan, Sizes, Planned
<1>8. RoPlaced' /\ (m.rw # 0 => RwPlaced')
  BY <1>1, <1>3 DEF RoPlaced, RwPlaced, Placed
<1>9. Segments' BY <1>1, <1>3, <1>8 DEF Segments, Filled
<1>10. (size = DataEnd)'
  <2>1. NewDynstrOff = size BY <1>4 DEF NewDynstrOff
  <2> HIDE DEF ro
  <2>2. size \in Nat BY <1>3, <1>4
  <2>3. size' = size + m.newDynstrSz BY <1>1, <1>3, <2>1, <2>2, GrownTo
  <2>4. size' = ro.offset + ro.filesz BY <1>3, <1>4, <2>3
  <2> QED BY <1>1, <2>4 DEF DataEnd, Growing, Filled, ro
<1>11. Tables'
  BY <1>1, <1>5, <1>6 DEF Plan, Tables, DynPlace, Growing, Filled
<1> QED BY <1>7, <1>9, <1>10, <1>11 DEF Plan

(* Entries added in place change nothing that was planned.                 *)
LEMMA AddEntriesInPlacePlan ==
  TypeInv /\ Footprint /\ Plan /\ AddEntriesInPlace => Plan'
<1> SUFFICES ASSUME TypeInv, Footprint, Plan, AddEntriesInPlace PROVE Plan' OBVIOUS
<1>1. /\ pc = "addEntries" /\ pc' = "serialize" /\ ~m.move
      /\ dyn' = [dyn EXCEPT !.entries = WithImports(dyn.entries)]
      /\ UNCHANGED <<src, ehdr, phdrs, size, m>>
  BY DEF AddEntriesInPlace, env, data
<1>2. Appended BY <1>1 DEF Appended
<1>3. /\ RoPlaced /\ (m.rw # 0 <=> m.move) /\ (m.rw # 0 => RwPlaced) /\ m.ro # 0
  BY <1>2, FillPlan
<1>4. dyn'.phdr = dyn.phdr /\ Len(dyn'.entries) = Len(dyn.entries)
  <2>1. dyn \in Dynamic /\ dyn.entries \in Seq(Dyn) BY DEF TypeInv, TypeOK, Dynamic
  <2>2. m.strOffs \in [1 .. Len(Imports) -> U64] BY <1>2 DEF TypeInv, Shape
  <2>3. Len(WithImports(dyn.entries)) = Len(dyn.entries) BY <2>1, <2>2, WithImportsType
  <2> QED BY <1>1, <2>1, <2>3 DEF Dynamic
<1>5. Sizes'
  <2>1. Pending' = Pending BY <1>1 DEF Pending
  <2> QED BY <1>1, <2>1 DEF Plan, Sizes, Planned, Filled
<1>6. RoPlaced' /\ (m.rw # 0 => RwPlaced')
  BY <1>1, <1>3 DEF RoPlaced, RwPlaced, Placed
<1>7. Segments' BY <1>1, <1>3, <1>6 DEF Segments, Filled
<1>8. (size = DataEnd)' BY <1>1 DEF Plan, DataEnd, Growing, Filled
<1>9. Tables'
  BY <1>1, <1>4 DEF Plan, Tables, DynPlace, Growing, Filled
<1> QED BY <1>5, <1>7, <1>8, <1>9 DEF Plan

(* The dynamic table goes to the start of the second segment, and its      *)
(* program header says so: the address is found.                           *)
LEMMA AddEntriesMovedPlan ==
  TypeInv /\ Footprint /\ Plan /\ AddEntriesMoved => Plan'
<1> SUFFICES ASSUME TypeInv, Footprint, Plan, AddEntriesMoved PROVE Plan' OBVIOUS
<1> DEFINE d   == dyn.phdr
           len == NewDynNum * DynEnt
           rw  == phdrs[m.rw]
           old == PhdrsOf(src.buf)
<1>1. /\ pc = "addEntries" /\ m.move /\ pc' = "serialize" /\ len = m.newDynSz
      /\ size' = MovedSize(size, NewDynOff, m.newDynSz)
      /\ phdrs' = Moved(phdrs, d, NewDynOff, NewDynVaddr, len)
      /\ dyn' = [dyn EXCEPT !.entries = WithImports(Resized(@, NewDynNum, ZeroDyn))]
      /\ UNCHANGED <<src, ehdr, m>>
  BY DEF AddEntriesMoved, DynSizeAsPlanned, env
<1>2. Appended BY <1>1 DEF Appended
<1>3. /\ phdrs \in Seq(Phdr) /\ m.ro \in 1 .. Len(phdrs) /\ m.rw \in 0 .. Len(phdrs)
      /\ RoPlaced /\ RwPlaced /\ m.rw # 0
      /\ src.size \in Nat /\ src.size <= phdrs[m.ro].offset
      /\ phdrs[m.ro].offset \in Nat /\ phdrs[m.ro].filesz \in Nat
  <2>1. m.newPhsize \in Nat /\ m.newDynstrSz \in Nat
        /\ phdrs[m.ro].filesz = m.newPhsize + m.newDynstrSz
    BY <1>2, FillPlan
  <2> QED BY <1>1, <1>2, <2>1, FillPlan
<1>4. m.rw \in 1 .. Len(phdrs) /\ rw \in Phdr /\ rw.type = "LOAD"
      /\ rw.filesz = m.newDynSz /\ rw.offset \in Nat
      /\ Holds(rw, m.newDynSz) /\ Behind(phdrs, m.rw)
  <2>1. m.rw \in 1 .. Len(phdrs) /\ rw \in Phdr BY <1>3
  <2>2. Holds(rw, m.newDynSz) /\ Behind(phdrs, m.rw) BY <1>3 DEF RwPlaced, Placed
  <2> QED BY <2>1, <2>2, PhdrFields DEF Holds
<1>5. d \in 1 .. Len(phdrs) /\ phdrs[d] \in Phdr /\ phdrs[d].type = "DYNAMIC"
  BY <1>2, FillFacts
<1>6. /\ Len(phdrs') = Len(phdrs) /\ phdrs' \in Seq(Phdr)
      /\ \A j \in 1 .. Len(phdrs) : j # d => phdrs'[j] = phdrs[j]
      /\ Len(dyn'.entries) = NewDynNum
  <2>1. /\ TypeInv'
        /\ \A j \in 1 .. Len(phdrs) : j # dyn.phdr => phdrs'[j] = phdrs[j]
        /\ Len(dyn'.entries) = NewDynNum
    BY AddEntriesMovedTypes
  <2>2. phdrs' \in Seq(Phdr) BY <2>1 DEF TypeInv, TypeOK
  <2>3. DOMAIN phdrs' = DOMAIN phdrs
    <3> HIDE DEF d, len
    <3> QED BY <1>1 DEF Moved
  <2>4. Len(phdrs') = Len(phdrs) BY <1>3, <2>2, <2>3
  <2> QED BY <2>1, <2>2, <2>4
<1>7. /\ phdrs'[d].offset = NewDynOff /\ phdrs'[d].vaddr = NewDynVaddr
      /\ phdrs'[d].filesz = len /\ phdrs'[d].memsz = len
      /\ phdrs'[d].type = "DYNAMIC"
  <2> HIDE DEF len
  <2> QED BY <1>1, <1>3, <1>5 DEF Moved, Phdr
<1>8. NewDynOff = rw.offset BY DEF NewDynOff
<1>9. NewDynVaddr = rw.vaddr
  <2> DEFINE k == Len(dyn.entries) * DynEnt
  <2>1. Len(dyn.entries) \in Nat /\ 0 < Len(dyn.entries)
    BY DEF TypeInv, TypeOK, Dynamic, Plan, Tables
  <2>2. k \in Nat /\ 0 < k BY <2>1, SizeAssumption
  <2>3. k <= m.newDynSz
    <3>1. NewDynNum \in Nat /\ Len(dyn.entries) <= NewDynNum
      BY <2>1, ImportAssumption DEF NewDynNum
    <3>2. k <= NewDynNum * DynEnt BY <2>1, <3>1, SizeAssumption, ProductMonotone
    <3> QED BY <1>1, <3>2
  <2>4. m.newDynSz \in Nat BY Naturals64 DEF TypeInv, TypeOK, Mods
  <2> HIDE DEF k
  <2>7. VaddrFromOff(phdrs, rw.offset, k) = [ok |-> TRUE, val |-> rw.vaddr]
    BY <1>4, <2>2, <2>3, <2>4, FoundAtStart
  <2> HIDE DEF rw
  <2> QED BY <1>8, <2>7 DEF NewDynVaddr, k
<1> HIDE DEF d, len
<1>10. \A j \in 1 .. Len(phdrs) :
         phdrs'[j].type = phdrs[j].type /\ (phdrs[j].type = "LOAD" => phdrs'[j] = phdrs[j])
  BY <1>5, <1>6, <1>7
<1>11. RoPlaced' /\ RwPlaced'
  BY <1>1, <1>3, <1>6, <1>10, PlacesKept
<1>12. phdrs'[m.rw] = rw /\ phdrs'[m.ro] = phdrs[m.ro]
  <2>1. phdrs[m.ro].type = "LOAD" BY <1>3 DEF RoPlaced, Placed, Holds
  <2> QED BY <1>3, <1>4, <1>10, <2>1
<1>13. Sizes'
  <2>1. Pending' = Pending BY <1>1 DEF Pending
  <2> QED BY <1>1, <1>6, <2>1 DEF Plan, Sizes, Planned, Filled
<1>14. Segments'
  <2>1. m'.ro # 0 /\ m' = m BY <1>1, <1>3
  <2> QED BY <1>1, <1>3, <1>11, <2>1 DEF Segments, Filled
<1>15. (size = DataEnd)'
  <2>1. size = phdrs[m.ro].offset + phdrs[m.ro].filesz
    BY <1>1 DEF Plan, DataEnd, Growing, Filled
  <2>2. m.ro \in IndicesOf(phdrs, "LOAD")
    BY <1>3 DEF RoPlaced, Placed, Holds, IndicesOf
  <2>3. m.ro < m.rw BY <1>3 DEF RwPlaced
  <2>4. size <= rw.offset BY <1>4, <2>1, <2>2, <2>3 DEF Behind
  <2>5. size \in Nat BY <1>3, <2>1
  <2>6. m.newDynSz \in Nat BY Naturals64 DEF TypeInv, TypeOK, Mods
  <2> HIDE DEF rw
  <2>7. size' = rw.offset + m.newDynSz BY <1>1, <1>4, <1>8, <2>4, <2>5, <2>6, GrownTo
  <2>8. size' = phdrs'[m.rw].offset + phdrs'[m.rw].filesz BY <1>4, <1>12, <2>7
  <2> QED BY <1>1, <2>8 DEF DataEnd, Growing, Filled
<1>16. Tables'
  <2>1. /\ ehdr.phoff = phdrs[m.ro].offset
        /\ dyn.phdr = PtDynamic(src.buf)
        /\ Len(phdrs) = Len(old) + (IF m.ro = 0 THEN 0 ELSE 1) + (IF m.rw = 0 THEN 0 ELSE 1)
        /\ \A j \in 1 .. Len(old) : /\ phdrs[j].type = old[j].type
                                    /\ old[j].type = "LOAD" => phdrs[j] = old[j]
    BY <1>1 DEF Plan, Tables
  <2>2. Len(old) \in Nat BY OldTable
  <2>3. \A j \in 1 .. Len(old) : j \in 1 .. Len(phdrs) BY <1>3, <2>1, <2>2
  <2>4. dyn'.phdr = dyn.phdr
    <3>1. dyn \in Dynamic BY DEF TypeInv, TypeOK
    <3> QED BY <1>1, <3>1 DEF Dynamic
  <2>5. 0 < Len(dyn'.entries)
    <3>1. Len(dyn.entries) \in Nat BY DEF TypeInv, TypeOK, Dynamic
    <3>2. 0 < NewDynNum BY <3>1, ImportCount DEF NewDynNum
    <3> QED BY <1>6, <3>2
  <2> HIDE DEF old
  <2>6. \A j \in 1 .. Len(old) : /\ phdrs'[j].type = old[j].type
                                 /\ old[j].type = "LOAD" => phdrs'[j] = old[j]
    <3> TAKE j \in 1 .. Len(old)
    <3>1. j \in 1 .. Len(phdrs) /\ phdrs[j].type = old[j].type BY <2>1, <2>3
    <3>2. ASSUME old[j].type = "LOAD" PROVE phdrs'[j] = old[j]
      <4>1. phdrs[j] = old[j] BY <2>1, <3>2
      <4> QED BY <1>10, <3>1, <3>2, <4>1
    <3> QED BY <1>10, <3>1, <3>2
  <2>7. DynPlace'
    <3>1. /\ phdrs'[d].offset = phdrs'[m.rw].offset /\ phdrs'[d].vaddr = phdrs'[m.rw].vaddr
          /\ phdrs'[d].filesz = m.newDynSz /\ phdrs'[d].memsz = m.newDynSz
      BY <1>1, <1>7, <1>8, <1>9, <1>12
    <3> QED BY <1>1, <2>4, <3>1 DEF DynPlace, Filled, d
  <2> QED BY <1>1, <1>6, <1>12, <2>1, <2>4, <2>5, <2>6, <2>7
          DEF Tables, Growing, Filled, old
<1> QED BY <1>13, <1>14, <1>15, <1>16 DEF Plan

(* Steps after the last move.                                              *)
LEMMA LaterPlan ==
  ASSUME Plan, pc \in Filled, pc' \in Filled,
         UNCHANGED <<src, ehdr, phdrs, dyn, size, m>>
  PROVE  Plan'
<1>1. Sizes'
  <2>1. Pending' = Pending BY DEF Pending, Filled
  <2> QED BY <2>1 DEF Plan, Sizes, Planned, Filled
<1>2. Segments'
  BY DEF Plan, Segments, Filled, RoPlaced, RwPlaced, Placed
<1>3. (size = DataEnd)' BY DEF Plan, DataEnd, Growing, Filled
<1>4. Tables' BY DEF Plan, Tables, DynPlace, Growing, Filled
<1> QED BY <1>1, <1>2, <1>3, <1>4 DEF Plan

(* No step departs from the plan.                                          *)
LEMMA NextPlan == TypeInv /\ FootInv /\ PlanInv /\ [Next]_vars => PlanInv'
<1> SUFFICES ASSUME TypeInv, FootInv, PlanInv, [Next]_vars, Loaded' PROVE Plan'
  BY DEF PlanInv
<1>1. CASE ReadElf BY <1>1, ReadElfPlan
<1> DEFINE Both == Footprint /\ Plan
<1>2. Loaded => Both BY DEF FootInv, PlanInv
<1> HIDE DEF Both
<1>3. CASE PrepareSizes
  <2>1. Both BY <1>2, <1>3 DEF PrepareSizes, Loaded
  <2> QED BY <1>3, <2>1, PreparePlan DEF Both
<1>4. CASE AppendRo
  <2>1. Both BY <1>2, <1>4 DEF AppendRo, Loaded
  <2> QED BY <1>4, <2>1, AppendRoPlan DEF Both
<1>5. CASE AppendRw
  <2>1. Both BY <1>2, <1>5 DEF AppendRw, Loaded
  <2> QED BY <1>5, <2>1, AppendRwPlan DEF Both
<1>6. CASE MovePhdrs
  <2>1. Both BY <1>2, <1>6 DEF MovePhdrs, Loaded
  <2> QED BY <1>6, <2>1, MovePhdrsPlan DEF Both
<1>7. CASE MoveDynstr
  <2>1. Both BY <1>2, <1>7 DEF MoveDynstr, Loaded
  <2> QED BY <1>7, <2>1, MoveDynstrPlan DEF Both
<1>8. CASE AddEntriesInPlace
  <2>1. Both BY <1>2, <1>8 DEF AddEntriesInPlace, Loaded
  <2> QED BY <1>8, <2>1, AddEntriesInPlacePlan DEF Both
<1>9. CASE AddEntriesMoved
  <2>1. Both BY <1>2, <1>9 DEF AddEntriesMoved, Loaded
  <2> QED BY <1>9, <2>1, AddEntriesMovedPlan DEF Both
<1>10. ASSUME pc \in Filled, pc' \in Filled, UNCHANGED <<src, tabs, size, m>>
       PROVE  Plan'
  <2>1. Plan BY <1>2, <1>10 DEF Loaded, Filled, Both
  <2> QED BY <1>10, <2>1, LaterPlan DEF tabs
<1>11. CASE Serialize
  <2>1. /\ pc = "serialize" /\ pc' = "check"
        /\ UNCHANGED <<src, ehdr, phdrs, shdrs, dyn, strtab, size, m>>
    BY <1>11 DEF Serialize, Fail, Quit, Loaded, env
  <2>2. Plan BY <1>2, <2>1 DEF Loaded, Both
  <2> QED BY <2>1, <2>2, LaterPlan DEF Filled
<1>12. CASE SanityCheck
  BY <1>10, <1>12 DEF SanityCheck, env, data, Filled
<1>13. CASE OpenOutput
  BY <1>10, <1>13 DEF OpenOutput, Fail, Quit, Loaded, data, Filled
<1>14. CASE WriteOutput
  BY <1>10, <1>14 DEF WriteOutput, Quit, Loaded, data, Filled
<1>15. CASE Start \/ CloseOutput \/ CallFails \/ Aborts \/ Kill
  BY <1>15 DEF Start, CloseOutput, CallFails, Aborts, Kill, Fail, Quit, Loaded
<1>16. CASE UNCHANGED vars
  BY <1>16 DEF vars, env, tabs, data, PlanInv, Plan, Loaded, Sizes, Segments, DataEnd,
     Tables, DynPlace, Pending, NewDynNum, RoPlaced, RwPlaced, Placed
<1> QED
  BY <1>1, <1>3, <1>4, <1>5, <1>6, <1>7, <1>8, <1>9, <1>11, <1>12, <1>13, <1>14,
     <1>15, <1>16 DEF Next

(* What was planned comes true, step by step.                              *)
THEOREM PlanIsKept == Spec => []PlanInv
<1>1. Init => PlanInv BY DEF Init, PlanInv, Loaded
<1>2. TypeInv /\ FootInv /\ PlanInv /\ [Next]_vars => PlanInv' BY NextPlan
<1> QED BY <1>1, <1>2, TypesAreRight, FootprintHolds, PTL DEF Spec

-----------------------------------------------------------------------------
(* The appended segments are nobody else's.                                *)

(* A segment that starts on a page boundary, at or behind the end of       *)
(* another, shares no page with it.                                        *)
LEMMA PagesApart ==
  ASSUME NEW p \in Phdr, NEW q \in Phdr, NEW al \in Nat \ {0},
         q.vaddr % al = 0, p.vaddr + p.memsz <= q.vaddr
  PROVE  Pages(p, al) \cap Pages(q, al) = {}
<1> DEFINE top == p.vaddr + p.memsz - 1
<1>1. p.vaddr \in Nat /\ p.memsz \in Nat /\ q.vaddr \in Nat /\ q.memsz \in Nat
  BY PhdrFields
<1>2. top \in Int /\ top < q.vaddr BY <1>1
<1> HIDE DEF top
<1>3. top \div al < q.vaddr \div al BY <1>1, <1>2, BelowMultiple
<1>4. top \div al \in Int /\ q.vaddr \div al \in Int BY <1>1, <1>2
<1>5. \A x \in Pages(p, al) : x \in Int /\ x <= top \div al BY <1>1 DEF Pages, top
<1>6. \A x \in Pages(q, al) : x \in Int /\ q.vaddr \div al <= x BY <1>1 DEF Pages
<1>7. ASSUME NEW x \in Pages(p, al), x \in Pages(q, al) PROVE FALSE
  BY <1>3, <1>4, <1>5, <1>6, <1>7
<1> QED BY <1>7

(* The difference of two multiples is a multiple.                          *)
LEMMA MultiplesDiffer ==
  ASSUME NEW x \in Nat, NEW y \in Nat, NEW n \in Nat \ {0}, x % n = 0, y % n = 0
  PROVE  (x - y) % n = 0
<1> DEFINE p == x \div n
           q == y \div n
<1>1. p \in Int /\ q \in Int /\ x = n * p + (x % n) /\ y = n * q + (y % n)
  OBVIOUS
<1> HIDE DEF p, q
<1>2. x - y = n * p - n * q BY <1>1
<1>3. n * p - n * q = (p - q) * n BY <1>1
<1> DEFINE z == x - y
           r == p - q
<1>4. z \in Int /\ r \in Int /\ z = r * n BY <1>1, <1>2, <1>3
<1> HIDE DEF z, r
<1>5. z \div n = r
  <2>1. r * n <= z /\ z < r * n + n
    <3> DEFINE w == r * n
    <3>1. w \in Int BY <1>4
    <3> HIDE DEF w
    <3>2. w <= z /\ z < w + n BY <1>4, <3>1 DEF w
    <3> QED BY <3>2 DEF w
  <2> QED BY <1>4, <2>1, DivisionUnique
<1>6. z = n * (z \div n) + (z % n) BY <1>4
<1>7. n * r = r * n BY <1>4
<1>8. z % n = 0
  <2> DEFINE w == r * n
  <2>1. w \in Int /\ z = w BY <1>4
  <2>2. z = w + (z % n) BY <1>5, <1>6, <1>7
  <2>3. z % n \in Int BY <1>4
  <2> HIDE DEF w
  <2> QED BY <2>1, <2>2, <2>3
<1> QED BY <1>8 DEF z

(* What Plan says of an appended segment, whichever it is.                 *)
LEMMA AppendedPlaced ==
  ASSUME TypeInv, Plan, NEW i \in {m.ro, m.rw} \ {0}
  PROVE  /\ i \in 1 .. Len(phdrs) /\ phdrs[i] \in Phdr
         /\ \E content : Holds(phdrs[i], content)
         /\ Behind(phdrs, i) /\ src.size <= phdrs[i].offset
         /\ phdrs[i].align \in Nat \ {0} /\ phdrs[i].vaddr % phdrs[i].align = 0
         /\ \A j \in IndicesOf(phdrs, "LOAD") : i < j => phdrs[j].align = phdrs[i].align
<1>1. phdrs \in Seq(Phdr) /\ m \in Mods /\ m.ro <= Len(phdrs) /\ m.rw <= Len(phdrs)
  BY DEF TypeInv, TypeOK
<1>2. m.ro \in Nat /\ m.rw \in Nat BY <1>1 DEF Mods
<1>3. i \in 1 .. Len(phdrs) /\ phdrs[i] \in Phdr BY <1>1, <1>2
<1>4. m.ro # 0 /\ RoPlaced /\ (m.rw # 0 => RwPlaced) BY DEF Plan, Segments
<1>5. PICK content : Placed(i, content) BY <1>4 DEF RoPlaced, RwPlaced
<1>6. phdrs[i].align \in Nat \ {0} /\ phdrs[i].vaddr % phdrs[i].align = 0
  <2>1. PageSize <= phdrs[i].align /\ phdrs[i].vaddr % phdrs[i].align = 0
    BY <1>5 DEF Placed, Holds
  <2>2. phdrs[i].align \in Nat BY <1>3, PhdrFields
  <2> QED BY <2>1, <2>2, SizeAssumption
<1>7. ASSUME NEW j \in IndicesOf(phdrs, "LOAD"), i < j
      PROVE  phdrs[j].align = phdrs[i].align
  <2>1. j \in 1 .. Len(phdrs) BY DEF IndicesOf
  <2>2. m.rw # 0
    <3> SUFFICES ASSUME m.rw = 0 PROVE FALSE OBVIOUS
    <3>1. i = m.ro OBVIOUS
    <3>2. Len(phdrs) = m.ro + 0 BY <1>4 DEF RoPlaced
    <3> QED BY <1>2, <1>7, <2>1, <3>1, <3>2
  <2>3. Len(phdrs) = m.ro + 1 /\ m.rw = m.ro + 1
    BY <1>4, <2>2 DEF RoPlaced, RwPlaced
  <2>4. i = m.ro /\ j = m.rw BY <1>2, <1>7, <2>1, <2>3
  <2> QED BY <1>4, <2>2, <2>4 DEF RwPlaced
<1> QED BY <1>3, <1>5, <1>6, <1>7 DEF Placed

(* The first and the second appended segment, and those of the input,      *)
(* share neither a page of memory nor a byte of the file.                  *)
LEMMA PlanApart == TypeInv /\ PlanInv => SegmentsApart
<1> SUFFICES ASSUME TypeInv, PlanInv, NEW i \in {m.ro, m.rw} \ {0}
             PROVE  /\ phdrs[i].offset >= src.size
                    /\ phdrs[i].filesz <= phdrs[i].memsz
                    /\ (phdrs[i].vaddr - phdrs[i].offset) % phdrs[i].align = 0
                    /\ \A j \in IndicesOf(phdrs, "LOAD") \ {i} :
                         /\ Pages(phdrs[i], phdrs[i].align)
                              \cap Pages(phdrs[j], phdrs[i].align) = {}
                         /\ Apart(<<phdrs[i].offset, phdrs[i].filesz>>,
                                  <<phdrs[j].offset, phdrs[j].filesz>>)
  BY DEF SegmentsApart
<1>1. Plan
  <2>1. Loaded BY DEF TypeInv, Shape, Loaded, NoMods
  <2> QED BY <2>1 DEF PlanInv
<1>2. /\ i \in 1 .. Len(phdrs) /\ phdrs[i] \in Phdr /\ phdrs \in Seq(Phdr)
      /\ Behind(phdrs, i) /\ src.size <= phdrs[i].offset
      /\ phdrs[i].align \in Nat \ {0} /\ phdrs[i].vaddr % phdrs[i].align = 0
  BY <1>1, AppendedPlaced DEF TypeInv, TypeOK
<1>3. PICK content : Holds(phdrs[i], content) BY <1>1, AppendedPlaced
<1>4. phdrs[i].offset \in Nat /\ phdrs[i].vaddr \in Nat /\ src.size \in Nat
  BY <1>2, PhdrFields, Naturals64 DEF TypeInv, TypeOK, IsFile
<1>5. phdrs[i].offset >= src.size /\ phdrs[i].filesz <= phdrs[i].memsz
  BY <1>2, <1>3, <1>4 DEF Holds
<1>6. (phdrs[i].vaddr - phdrs[i].offset) % phdrs[i].align = 0
  <2>1. phdrs[i].offset % phdrs[i].align = 0 BY <1>3 DEF Holds
  <2> QED BY <1>2, <1>4, <2>1, MultiplesDiffer
<1>7. ASSUME NEW j \in IndicesOf(phdrs, "LOAD") \ {i}
      PROVE  /\ Pages(phdrs[i], phdrs[i].align)
                  \cap Pages(phdrs[j], phdrs[i].align) = {}
             /\ Apart(<<phdrs[i].offset, phdrs[i].filesz>>,
                      <<phdrs[j].offset, phdrs[j].filesz>>)
  <2>1. j \in 1 .. Len(phdrs) /\ phdrs[j] \in Phdr BY <1>2 DEF IndicesOf
  <2>2. CASE j < i
    <3>1. /\ phdrs[j].vaddr + phdrs[j].memsz <= phdrs[i].vaddr
          /\ phdrs[j].offset + phdrs[j].filesz <= phdrs[i].offset
      BY <1>2, <2>2 DEF Behind
    <3>2. Pages(phdrs[j], phdrs[i].align) \cap Pages(phdrs[i], phdrs[i].align) = {}
      BY <1>2, <2>1, <3>1, PagesApart
    <3> QED BY <3>1, <3>2 DEF Apart
  <2>3. CASE i < j
    <3>1. phdrs[j].align = phdrs[i].align BY <1>1, <2>3, AppendedPlaced
    <3>2. i = m.ro /\ j = m.rw /\ m.rw # 0
      <4>1. m.ro # 0 /\ RoPlaced /\ (m.rw # 0 => RwPlaced) /\ m.ro \in Nat /\ m.rw \in Nat
        BY <1>1 DEF Plan, Segments, TypeInv, TypeOK, Mods
      <4>2. CASE m.rw = 0
        <5>1. i = m.ro /\ Len(phdrs) = m.ro + 0 BY <4>1, <4>2 DEF RoPlaced
        <5> QED BY <2>1, <2>3, <4>1, <5>1
      <4>3. CASE m.rw # 0
        <5>1. Len(phdrs) = m.ro + 1 /\ m.rw = m.ro + 1
          BY <4>1, <4>3 DEF RoPlaced, RwPlaced
        <5> QED BY <2>1, <2>3, <4>1, <4>3, <5>1
      <4> QED BY <4>2, <4>3
    <3>3. Behind(phdrs, j) /\ phdrs[j].vaddr % phdrs[j].align = 0
      BY <1>1, <3>2, AppendedPlaced
    <3>4. i \in IndicesOf(phdrs, "LOAD") BY <1>2, <1>3 DEF Holds, IndicesOf
    <3>5. /\ phdrs[i].vaddr + phdrs[i].memsz <= phdrs[j].vaddr
          /\ phdrs[i].offset + phdrs[i].filesz <= phdrs[j].offset
      BY <2>3, <3>3, <3>4 DEF Behind
    <3>6. Pages(phdrs[i], phdrs[i].align) \cap Pages(phdrs[j], phdrs[i].align) = {}
      BY <1>2, <2>1, <3>1, <3>3, <3>5, PagesApart
    <3> QED BY <3>5, <3>6 DEF Apart
  <2> QED BY <1>2, <2>1, <2>2, <2>3
<1> QED BY <1>5, <1>6, <1>7

(* The segments that are added collide with nothing, in the file or in     *)
(* memory, and a loader can map them.                                      *)
THEOREM SegmentsStayApart == Spec => []SegmentsApart
<1>1. TypeInv /\ PlanInv => SegmentsApart BY PlanApart
<1> QED BY <1>1, TypesAreRight, PlanIsKept, PTL

-----------------------------------------------------------------------------
(* Everything fits where it is put.                                        *)

(* The tables of the input that are moved lie in the input.                *)
LEMMA OldRanges ==
  ASSUME TypeInv, Footprint
  PROVE  LET b == src.buf
             n == src.size
             d == PhdrsOf(b)[PtDynamic(b)]
         IN  /\ n \in Nat /\ n <= MaxU /\ EhSize <= n
             /\ InBounds(EhdrOf(b).phoff, PhnumOf(b) * PhEnt, n)
             /\ InBounds(StrtabOf(b).off, StrtabOf(b).size, n)
             /\ InBounds(d.offset, d.filesz, n)
             /\ EhdrOf(b).phoff \in Nat /\ PhnumOf(b) * PhEnt \in Nat
             /\ StrtabOf(b).off \in Nat /\ StrtabOf(b).size \in Nat
             /\ d.offset \in Nat /\ d.filesz \in Nat
             /\ d.type = "DYNAMIC"
<1> DEFINE b == src.buf
           n == src.size
           phs == PhdrsOf(b)
           d == phs[PtDynamic(b)]
           st == StrtabOf(b)
<1>1. n \in Nat /\ n <= MaxU /\ b \in File(n) /\ ParseElf(b, n)
  BY Naturals64 DEF TypeInv, TypeOK, IsFile, Footprint
<1> HIDE DEF b, n
<1>2. EhSize <= n /\ EhdrOf(b) \in Ehdr
  BY <1>1, EhdrType DEF ParseElf, ReadableEhdr
<1>3. /\ phs \in Seq(Phdr) /\ Len(phs) = PhnumOf(b) /\ PhnumOf(b) * PhEnt \in U64
      /\ PhnumOf(b) # 0 => InBounds(EhdrOf(b).phoff, PhnumOf(b) * PhEnt, n)
  BY <1>1, PhdrsType DEF ParseElf, ValidShdrs, ValidPhdrs
<1>4. PtDynamic(b) \in 1 .. Len(phs) /\ d.type = "DYNAMIC"
      /\ InBounds(d.offset, d.filesz, n)
  BY <1>1, DynamicType
<1>5. PhnumOf(b) # 0 BY <1>3, <1>4
<1>6. d \in Phdr BY <1>3, <1>4
<1>7. d.offset \in Nat /\ d.filesz \in Nat BY <1>6, PhdrFields
<1>8. EhdrOf(b).phoff \in Nat BY <1>2, Naturals64 DEF Ehdr
<1>9. st.vaddr \in Nat /\ st.off \in Nat /\ st.size \in Nat
  BY <1>1, StrtabType, Naturals64
<1> HIDE DEF st
<1>10. OffFromVaddr(phs, st.vaddr, st.size).ok
  BY <1>1 DEF ParseElf, ValidDynamic, ValidStrtab, ValidStrtabAt, st
<1>11. st.off = OffFromVaddr(phs, st.vaddr, st.size).val
  BY DEF st, StrtabOf, StrtabAt
<1>12. PICK i \in IndicesOf(phs, "LOAD") : FileContains(phs[i], st.off, st.size)
  <2> HIDE DEF phs
  <2> QED BY <1>3, <1>9, <1>10, <1>11, OffFromVaddrProperty
<1>13. InBounds(st.off, st.size, n)
  <2>1. i \in 1 .. Len(phs) /\ phs[i] \in Phdr BY <1>3 DEF IndicesOf
  <2>2. phs[i].offset < n /\ phs[i].filesz <= n - phs[i].offset
    BY <1>1, <2>1 DEF ParseElf, ValidPhdrs, ValidPhdrExtent
  <2>3. phs[i].offset <= st.off /\ st.off + st.size <= phs[i].offset + phs[i].filesz
    BY <1>12 DEF FileContains
  <2> DEFINE o == phs[i].offset
             f == phs[i].filesz
             so == st.off
             sz == st.size
  <2>4. /\ o \in Nat /\ f \in Nat /\ so \in Nat /\ sz \in Nat
        /\ f <= n - o /\ o <= so /\ so + sz <= o + f
    BY <1>9, <2>1, <2>2, <2>3, PhdrFields
  <2> HIDE DEF o, f, so, sz
  <2>5. sz <= n /\ so <= n - sz BY <1>1, <2>4
  <2> QED BY <2>5 DEF InBounds, so, sz
<1>14. PhnumOf(b) * PhEnt \in Nat BY <1>3, Naturals64
<1> QED
  BY <1>1, <1>2, <1>3, <1>4, <1>5, <1>7, <1>8, <1>9, <1>13, <1>14 DEF b, n, st

(* A range that ends where the data will end is within it.                 *)
LEMMA GrownInBounds ==
  ASSUME NEW n \in Nat, NEW to \in Nat, NEW len \in Nat, n <= to
  PROVE  InBounds(to, len, MovedSize(n, to, len))
<1>1. MovedSize(n, to, len) = to + len BY GrownTo
<1>2. len <= to + len /\ to <= to + len - len OBVIOUS
<1> QED BY <1>1, <1>2 DEF InBounds

(* The program headers: the first segment is large enough for them.        *)
LEMMA PhdrsFit == TypeInv /\ Footprint /\ Plan /\ pc = "movePhdrs" => PhdrsMoveOk
<1> SUFFICES ASSUME TypeInv, Footprint, Plan, pc = "movePhdrs" PROVE PhdrsMoveOk
  OBVIOUS
<1> DEFINE ro  == phdrs[m.ro]
           to  == ro.offset
           len == Len(phdrs) * PhEnt
           content == m.newPhsize + m.newDynstrSz
<1>1. Appended BY DEF Appended
<1>2. /\ phdrs \in Seq(Phdr) /\ m.ro \in 1 .. Len(phdrs)
      /\ RoPlaced /\ src.size \in Nat /\ src.size <= to /\ to \in Nat
      /\ m.newPhsize \in Nat /\ m.newDynstrSz \in Nat /\ m.newPhsize = len
  BY <1>1, FillPlan
<1>3. size = src.size BY DEF Plan, DataEnd, Growing, Filled
<1>4. /\ Holds(ro, content) /\ Behind(phdrs, m.ro) BY <1>2 DEF RoPlaced, Placed
<1>5. ro.memsz \in Nat /\ content <= ro.memsz /\ to <= MaxU - ro.memsz
  BY <1>2, <1>4, PhdrFields DEF Holds
<1>6. len \in Nat /\ 0 < len /\ len <= content /\ content \in Nat
  <2>1. Len(phdrs) \in Nat /\ 0 < Len(phdrs) BY <1>2
  <2>2. len \in Nat /\ 0 < len BY <2>1, SizeAssumption
  <2> HIDE DEF len
  <2> QED BY <1>2, <2>2
<1>7. VaddrFromOff(phdrs, to, len).ok
  <2> HIDE DEF len, content
  <2>1. VaddrFromOff(phdrs, phdrs[m.ro].offset, len)
          = [ok |-> TRUE, val |-> phdrs[m.ro].vaddr]
    BY <1>2, <1>4, <1>6, FoundAtStart
  <2> QED BY <2>1
<1> HIDE DEF ro, to, len, content
<1>8. to <= MaxU - m.newPhsize BY <1>2, <1>5, <1>6, WidthAssumption
<1>9. InBounds(orig.phoff, orig.phsize, size)
  <2>1. orig.phoff = EhdrOf(src.buf).phoff /\ orig.phsize = PhnumOf(src.buf) * PhEnt
    BY DEF Footprint
  <2> QED BY <1>3, <2>1, OldRanges
<1>10. InBounds(to, len, MovedSize(size, to, m.newPhsize))
  BY <1>2, <1>3, <1>6, GrownInBounds
<1> QED
  BY <1>7, <1>8, <1>9, <1>10 DEF PhdrsMoveOk, MoveOk, to, ro, len

(* The string table: the rest of the first segment is as large.            *)
LEMMA DynstrFits == TypeInv /\ Footprint /\ Plan /\ pc = "moveDynstr" => DynstrMoveOk
<1> SUFFICES ASSUME TypeInv, Footprint, Plan, pc = "moveDynstr" PROVE DynstrMoveOk
  OBVIOUS
<1> DEFINE ro  == phdrs[m.ro]
           k   == m.newPhsize
           len == m.newDynstrSz
           content == k + len
<1>1. Appended BY DEF Appended
<1>2. /\ phdrs \in Seq(Phdr) /\ m.ro \in 1 .. Len(phdrs)
      /\ RoPlaced /\ src.size \in Nat /\ src.size <= ro.offset /\ ro.offset \in Nat
      /\ k \in Nat /\ len \in Nat /\ 0 < len
  BY <1>1, FillPlan
<1>3. size = ro.offset + k BY DEF Plan, DataEnd, Growing, Filled
<1>4. Holds(ro, content) /\ Behind(phdrs, m.ro) BY <1>2 DEF RoPlaced, Placed
<1>5. ro.memsz \in Nat /\ content <= ro.memsz /\ ro.offset <= MaxU - ro.memsz
  BY <1>2, <1>4, PhdrFields DEF Holds
<1> HIDE DEF k, len
<1>6. content \in Nat /\ k + len <= content BY <1>2
<1> HIDE DEF content
<1>7. OffFromVaddr(phdrs, phdrs[m.ro].vaddr + k, len)
        = [ok |-> TRUE, val |-> phdrs[m.ro].offset + k]
  <2>1. m.ro \in 1 .. Len(phdrs) /\ k \in Nat /\ len \in Nat /\ 0 < len BY <1>2
  <2>2. Holds(phdrs[m.ro], content) BY <1>4
  <2>3. Behind(phdrs, m.ro) BY <1>4
  <2>4. OffFromVaddr(phdrs, phdrs[m.ro].vaddr + k, len)
          = [ok |-> TRUE, val |-> phdrs[m.ro].offset + k]
    BY ONLY TypeInv, <1>6, <2>1, <2>2, <2>3, FoundInPlace, ZenonT(60)
  <2> QED BY <2>4
<1>8. NewDynstrAt.ok
  BY <1>7 DEF NewDynstrAt, NewDynstrVaddr, k, len
<1>9. NewDynstrOff <= MaxU - len
  <2> HIDE DEF ro
  <2>1. ro.offset + k <= MaxU - len
    BY <1>2, <1>5, WidthAssumption DEF content
  <2> QED BY <2>1 DEF NewDynstrOff, ro, k
<1>10. InBounds(orig.stroff, orig.strsz, size)
  <2>1. orig.stroff = StrtabOf(src.buf).off /\ orig.strsz = StrtabOf(src.buf).size
    BY DEF Footprint
  <2>2. size \in Nat /\ src.size <= size BY <1>2, <1>3
  <2> QED BY <2>1, <2>2, OldRanges, InBoundsOfMore
<1>11. dyn.entries = DynEntriesOf(src.buf) BY DEF Plan, Tables
<1>12. HasUniqueDyn(dyn.entries, "STRTAB") /\ HasUniqueDyn(dyn.entries, "STRSZ")
  BY <1>11 DEF Footprint, ParseElf, ValidDynamic
<1> QED BY <1>8, <1>9, <1>10, <1>12 DEF DynstrMoveOk, MoveOk, len

(* The dynamic table: the second segment is as large, and is found at its  *)
(* offset both before and after the table has grown.                       *)
LEMMA DynTableFits ==
  ASSUME TypeInv, Footprint, Plan, pc = "addEntries", m.move
  PROVE  /\ DynSizeAsPlanned /\ DynMoveOk
         /\ VaddrFromOff(phdrs, NewDynOff, Len(dyn.entries) * DynEnt).ok
<1> DEFINE rw  == phdrs[m.rw]
           L   == Len(dyn.entries)
           len == NewDynNum * DynEnt
           sz  == m.newDynSz
           pt  == phdrs[dyn.phdr]
<1>1. Appended BY DEF Appended
<1>2. /\ phdrs \in Seq(Phdr) /\ m.ro \in 1 .. Len(phdrs) /\ m.rw \in 0 .. Len(phdrs)
      /\ RoPlaced /\ RwPlaced /\ m.rw # 0
      /\ NewDynNum <= MaxU \div DynEnt /\ sz = len
      /\ src.size \in Nat /\ src.size <= phdrs[m.ro].offset
      /\ phdrs[m.ro].offset \in Nat
  BY <1>1, FillPlan
<1>3. Holds(rw, sz) /\ Behind(phdrs, m.rw) /\ m.rw \in 1 .. Len(phdrs) /\ rw \in Phdr
  BY <1>2 DEF RwPlaced, Placed
<1>4. rw.offset \in Nat /\ rw.memsz \in Nat /\ sz <= rw.memsz /\ rw.offset <= MaxU - rw.memsz
  BY <1>3, PhdrFields DEF Holds
<1>5. L \in Nat /\ 0 < L /\ NewDynNum \in Nat /\ L <= NewDynNum
  <2>1. L \in Nat /\ 0 < L BY DEF TypeInv, TypeOK, Dynamic, Plan, Tables
  <2> QED BY <2>1, ImportAssumption DEF NewDynNum
<1>6. sz \in Nat BY Naturals64 DEF TypeInv, TypeOK, Mods
<1>7. L * DynEnt \in Nat /\ 0 < L * DynEnt /\ L * DynEnt <= sz /\ 0 < sz
  <2>1. L * DynEnt \in Nat /\ 0 < L * DynEnt BY <1>5, SizeAssumption
  <2>2. L * DynEnt <= len BY <1>5, SizeAssumption, ProductMonotone
  <2> HIDE DEF L, len, sz
  <2> QED BY <1>2, <1>6, <2>1, <2>2
<1>8. /\ VaddrFromOff(phdrs, rw.offset, L * DynEnt).ok
      /\ VaddrFromOff(phdrs, rw.offset, sz).ok
  <2> DEFINE k == L * DynEnt
  <2> HIDE DEF sz, k
  <2>1. VaddrFromOff(phdrs, phdrs[m.rw].offset, k)
          = [ok |-> TRUE, val |-> phdrs[m.rw].vaddr]
    BY <1>3, <1>6, <1>7, FoundAtStart DEF k
  <2>2. VaddrFromOff(phdrs, phdrs[m.rw].offset, sz)
          = [ok |-> TRUE, val |-> phdrs[m.rw].vaddr]
    BY <1>3, <1>6, <1>7, FoundAtStart
  <2> QED BY <2>1, <2>2 DEF k
<1>9. size \in Nat /\ src.size <= size /\ size <= rw.offset
  <2>1. size = phdrs[m.ro].offset + phdrs[m.ro].filesz
    BY DEF Plan, DataEnd, Growing, Filled
  <2>2. m.ro \in IndicesOf(phdrs, "LOAD") /\ m.ro < m.rw
    BY <1>2 DEF RoPlaced, RwPlaced, Placed, Holds, IndicesOf
  <2>3. phdrs[m.ro].filesz \in Nat BY <1>2, PhdrFields
  <2>4. phdrs[m.ro].offset + phdrs[m.ro].filesz <= rw.offset
    BY <1>3, <2>2 DEF Behind
  <2> DEFINE o == phdrs[m.ro].offset
             f == phdrs[m.ro].filesz
             top == rw.offset
  <2>5. o \in Nat /\ f \in Nat /\ size = o + f /\ src.size <= o /\ o + f <= top
    BY <1>2, <2>1, <2>3, <2>4
  <2> HIDE DEF o, f, top
  <2>6. size \in Nat /\ src.size <= size /\ size <= top BY <1>2, <2>5
  <2> QED BY <2>6 DEF top
<1>10. InBounds(pt.offset, pt.filesz, size)
  <2>1. pt = PhdrsOf(src.buf)[PtDynamic(src.buf)]
    BY DEF Plan, Tables, DynPlace, Filled
  <2> HIDE DEF pt
  <2> QED BY <1>9, <2>1, OldRanges, InBoundsOfMore
<1>11. NewDynOff = rw.offset BY DEF NewDynOff
<1> HIDE DEF rw, sz, L, pt
<1>12. rw.offset <= MaxU - sz BY <1>4, <1>6, WidthAssumption
<1>13. MovedSize(size, rw.offset, sz) = rw.offset + sz BY <1>4, <1>6, <1>9, GrownTo
<1>14. L <= MaxU \div DynEnt
  <2>1. MaxU \div DynEnt \in Int BY WidthAssumption, SizeAssumption
  <2> QED BY <1>2, <1>5, <2>1
<1>15. MoveOk(size, pt.offset, pt.filesz, NewDynOff, sz)
  BY <1>10, <1>11, <1>12 DEF MoveOk
<1>16. ResizeTableOk(phdrs, rw.offset + sz, rw.offset, DynEnt, L, NewDynNum, TRUE)
  <2>1. NewDynNum * DynEnt = sz BY <1>2
  <2>2. VaddrFromOff(phdrs, rw.offset, NewDynNum * DynEnt).ok BY <1>8, <2>1
  <2>3. L <= MaxU \div DynEnt /\ NewDynNum <= MaxU \div DynEnt BY <1>2, <1>14
  <2>4. ASSUME NEW n, NEW o, n = rw.offset + sz, o = rw.offset
        PROVE  ResizeTableOk(phdrs, n, o, DynEnt, L, NewDynNum, TRUE)
    <3>1. o \in Nat /\ n - o = sz /\ o <= n BY <1>4, <1>6, <2>4
    <3>2. L * DynEnt <= n - o BY <1>7, <3>1
    <3>3. NewDynNum * DynEnt <= n - o BY <1>6, <2>1, <3>1
    <3>4. VaddrFromOff(phdrs, o, NewDynNum * DynEnt).ok BY <2>2, <2>4
    <3> QED BY <2>3, <3>1, <3>2, <3>3, <3>4, Zenon DEF ResizeTableOk
  <2> QED BY <2>4
<1>17. DynMoveOk BY <1>11, <1>13, <1>15, <1>16 DEF DynMoveOk, pt, sz, L
<1>18. DynSizeAsPlanned BY <1>2 DEF DynSizeAsPlanned, sz
<1> QED BY <1>8, <1>11, <1>17, <1>18 DEF L

(* The tables that are written lie in the data.                            *)
LEMMA TablesFit ==
  ASSUME TypeInv, Footprint, Plan, pc \in Filled
  PROVE  /\ EhSize <= size
         /\ InBounds(ehdr.phoff, Len(phdrs) * PhEnt, size)
         /\ InBounds(phdrs[dyn.phdr].offset, Len(dyn.entries) * DynEnt, size)
<1>1. /\ phdrs \in Seq(Phdr) /\ m \in Mods /\ m.ro <= Len(phdrs) /\ m.rw <= Len(phdrs)
      /\ dyn.entries \in Seq(Dyn)
  BY DEF TypeInv, TypeOK, Dynamic
<1>2. m.ro \in 1 .. Len(phdrs) /\ (m.rw # 0 <=> m.move) /\ RoPlaced /\ (m.rw # 0 => RwPlaced)
  <2>1. m.ro # 0 /\ (m.rw # 0 <=> m.move) /\ RoPlaced /\ (m.rw # 0 => RwPlaced)
    BY DEF Plan, Segments
  <2>2. m.ro \in Nat BY <1>1 DEF Mods
  <2> QED BY <1>1, <2>1, <2>2
<1>3. /\ phdrs[m.ro].filesz = m.newPhsize + m.newDynstrSz
      /\ phdrs[m.ro].offset \in Nat /\ m.newPhsize \in Nat /\ m.newDynstrSz \in Nat
  BY <1>1, <1>2, PhdrFields, Naturals64 DEF RoPlaced, Placed, Holds, Mods
<1>4. size \in Nat /\ src.size \in Nat /\ src.size <= size
  BY Naturals64 DEF TypeInv, TypeOK, IsFile, Footprint
<1>5. m.newPhsize = Len(phdrs) * PhEnt
  <2>1. Pending = 0 BY DEF Pending, Filled
  <2>2. Len(phdrs) + 0 = Len(phdrs) BY <1>1
  <2> QED BY <2>1, <2>2 DEF Plan, Sizes
<1>6. EhSize <= size
  <2>1. EhSize <= src.size BY OldRanges
  <2>2. EhSize \in Nat BY SizeAssumption
  <2> QED BY <1>4, <2>1, <2>2
<1>7. ehdr.phoff = phdrs[m.ro].offset BY DEF Plan, Tables
<1>8. phdrs[m.ro].offset + phdrs[m.ro].filesz <= size
  <2>1. CASE ~m.move
    <3>1. size = phdrs[m.ro].offset + phdrs[m.ro].filesz
      BY <2>1 DEF Plan, DataEnd, Growing, Filled
    <3> QED BY <1>4, <3>1
  <2>2. CASE m.move
    <3>1. size = phdrs[m.rw].offset + phdrs[m.rw].filesz
      BY <2>2 DEF Plan, DataEnd, Growing, Filled
    <3>2. RwPlaced /\ m.rw \in 1 .. Len(phdrs)
      BY <1>1, <1>2, <2>2 DEF Mods
    <3>3. m.ro \in IndicesOf(phdrs, "LOAD") /\ m.ro < m.rw
      BY <1>2, <3>2 DEF RoPlaced, RwPlaced, Placed, Holds, IndicesOf
    <3>4. phdrs[m.ro].offset + phdrs[m.ro].filesz <= phdrs[m.rw].offset
      BY <3>2, <3>3 DEF RwPlaced, Placed, Behind
    <3>5. phdrs[m.rw].offset \in Nat /\ phdrs[m.rw].filesz \in Nat
          /\ phdrs[m.ro].filesz \in Nat
      BY <1>1, <1>2, <3>2, PhdrFields
    <3> QED BY <1>3, <3>1, <3>4, <3>5
  <2> QED BY <2>1, <2>2
<1>9. InBounds(ehdr.phoff, Len(phdrs) * PhEnt, size)
  <2> DEFINE o == phdrs[m.ro].offset
             l == Len(phdrs) * PhEnt
  <2>1. o \in Nat /\ l \in Nat /\ o + (l + m.newDynstrSz) <= size
    BY <1>3, <1>5, <1>8
  <2> HIDE DEF o, l
  <2>2. l <= size /\ o <= size - l BY <1>3, <1>4, <2>1
  <2> QED BY <1>7, <2>2 DEF InBounds, o, l
<1>10. InBounds(phdrs[dyn.phdr].offset, Len(dyn.entries) * DynEnt, size)
  <2>1. Len(dyn.entries) * DynEnt = phdrs[dyn.phdr].filesz BY DEF Footprint
  <2>2. CASE ~m.move
    <3>1. phdrs[dyn.phdr] = PhdrsOf(src.buf)[PtDynamic(src.buf)]
      BY <2>2 DEF Plan, Tables, DynPlace
    <3> QED BY <1>4, <2>1, <3>1, OldRanges, InBoundsOfMore
  <2>3. CASE m.move
    <3>1. phdrs[dyn.phdr].offset = phdrs[m.rw].offset
          /\ phdrs[dyn.phdr].filesz = m.newDynSz
      BY <2>3 DEF Plan, Tables, DynPlace
    <3>2. phdrs[m.rw].filesz = m.newDynSz /\ m.rw \in 1 .. Len(phdrs)
      BY <1>1, <1>2, <2>3 DEF RwPlaced, Placed, Holds, Mods
    <3>3. size = phdrs[m.rw].offset + phdrs[m.rw].filesz
      BY <2>3 DEF Plan, DataEnd, Growing, Filled
    <3> DEFINE o == phdrs[m.rw].offset
               f == phdrs[m.rw].filesz
    <3>4. o \in Nat /\ f \in Nat /\ size = o + f BY <1>1, <3>2, <3>3, PhdrFields
    <3> HIDE DEF o, f
    <3>5. f <= size /\ o <= size - f BY <3>4
    <3> QED BY <2>1, <3>1, <3>2, <3>5 DEF InBounds, o, f
  <2> QED BY <2>2, <2>3
<1> QED BY <1>6, <1>9, <1>10

-----------------------------------------------------------------------------
(* The headers that are written are read back.                             *)

(* append_new_ptload_segment counts the new segment, in the section header *)
(* table if e_phnum is too small, and marks what it changed.               *)
LEMMA AppendCounts ==
  ASSUME TypeInv, NEW content \in U64, NEW write \in BOOLEAN,
         AppendSegment(content, write)
  PROVE  /\ ehdr'.phnum = IF Len(phdrs') < PN_XNUM THEN Len(phdrs') ELSE PN_XNUM
         /\ Len(phdrs') >= PN_XNUM => shdrs' # <<>> /\ shdrs'[1].info = Len(phdrs')
         /\ {"ehdr", "phdrs"} \subseteq dirty'
         /\ Len(phdrs') >= PN_XNUM => "shdrs" \in dirty'
<1> DEFINE num == Len(phdrs) + 1
<1>1. Len(phdrs') = num BY AppendSegmentProperty
<1>2. num \in Nat /\ PN_XNUM \in Nat /\ ehdr \in Ehdr /\ shdrs \in Seq(Shdr)
  BY EscapeAssumption DEF TypeInv, TypeOK
<1>3. /\ ehdr' = [ehdr EXCEPT !.phnum = IF num < PN_XNUM THEN num ELSE PN_XNUM]
      /\ shdrs' = IF num < PN_XNUM THEN shdrs ELSE [shdrs EXCEPT ![1].info = num]
      /\ dirty' = dirty \cup {"ehdr", "phdrs"}
                        \cup (IF num < PN_XNUM THEN {} ELSE {"shdrs"})
      /\ num >= PN_XNUM => shdrs # <<>>
  BY DEF AppendSegment, UpdatePhnumOk
<1> HIDE DEF num
<1>4. ehdr'.phnum = IF num < PN_XNUM THEN num ELSE PN_XNUM BY <1>2, <1>3 DEF Ehdr
<1>5. ASSUME num >= PN_XNUM PROVE shdrs' # <<>> /\ shdrs'[1].info = num
  <2>1. 1 \in 1 .. Len(shdrs) /\ shdrs[1] \in Shdr BY <1>2, <1>3, <1>5
  <2>2. shdrs' = [shdrs EXCEPT ![1].info = num] BY <1>2, <1>3, <1>5
  <2>3. shdrs'[1].info = num BY <1>2, <2>1, <2>2 DEF Shdr
  <2>4. 1 \in DOMAIN shdrs' BY <1>2, <2>1, <2>2
  <2> QED BY <2>3, <2>4
<1> QED BY <1>1, <1>2, <1>3, <1>4, <1>5

(* Moving a structure leaves the count in the first section header.        *)
LEMMA MovedSectionInfo ==
  ASSUME NEW shs \in Seq(Shdr), NEW i, NEW off, NEW vaddr, NEW len, shs # <<>>
  PROVE  /\ MovedSection(shs, i, off, vaddr, len) # <<>>
         /\ MovedSection(shs, i, off, vaddr, len)[1].info = shs[1].info
<1>1. 1 \in 1 .. Len(shs) /\ shs[1] \in Shdr OBVIOUS
<1>2. CASE i = 0 BY <1>2 DEF MovedSection
<1>3. CASE i # 0
  <2> DEFINE new == [shs EXCEPT ![i].addr = vaddr, ![i].offset = off, ![i].size = len]
  <2>1. MovedSection(shs, i, off, vaddr, len) = new BY <1>3 DEF MovedSection
  <2>2. new[1].info = shs[1].info BY <1>1 DEF Shdr
  <2>3. 1 \in DOMAIN new BY <1>1
  <2> QED BY <2>1, <2>2, <2>3
<1> QED BY <1>2, <1>3

(* Every cell of a serialized table is of the table's kind, or zero.       *)
LEMMA WrittenKinds ==
  ASSUME NEW b \in File(size), NEW i \in 0 .. size - 1
  PROVE  /\ WithPhdrs(b)[i] = b[i] \/ WithPhdrs(b)[i][1] \in {"phdr", "zero"}
         /\ WithShdrs(b)[i] = b[i] \/ WithShdrs(b)[i][1] \in {"shdr", "zero"}
         /\ WithDyn(b)[i] = b[i] \/ WithDyn(b)[i][1] \in {"dyn", "zero"}
<1>1. DOMAIN b = 0 .. size - 1 BY DEF File
<1>2. /\ \A p, k : EncodePhdr(p, k)[1] \in {"phdr", "zero"}
      /\ \A p, k : EncodeShdr(p, k)[1] \in {"shdr", "zero"}
      /\ \A p, k : EncodeDyn(p, k)[1] \in {"dyn", "zero"}
  BY DEF EncodePhdr, EncodeShdr, EncodeDyn, Encode, Zero
<1>3. WithPhdrs(b)[i] = b[i] \/ WithPhdrs(b)[i][1] \in {"phdr", "zero"}
  BY <1>1, <1>2 DEF WithPhdrs, WriteTable
<1>4. WithShdrs(b)[i] = b[i] \/ WithShdrs(b)[i][1] \in {"shdr", "zero"}
  BY <1>1, <1>2 DEF WithShdrs, WriteTable
<1>5. WithDyn(b)[i] = b[i] \/ WithDyn(b)[i][1] \in {"dyn", "zero"}
  BY <1>1, <1>2 DEF WithDyn, WriteTable
<1> QED BY <1>3, <1>4, <1>5

(* The first cell of entry i of a serialized table decodes as that entry.  *)
LEMMA FirstCell ==
  ASSUME NEW ent \in Nat \ {0}, NEW off \in Nat, NEW num \in Nat, NEW i \in 1 .. num,
         NEW c, c = off + (i - 1) * ent
  PROVE  /\ c \in off .. off + num * ent - 1
         /\ (c - off) \div ent + 1 = i /\ (c - off) % ent = 0
<1> DEFINE x == (i - 1) * ent
<1>1. x \in Nat /\ i - 1 \in Nat OBVIOUS
<1>2. x + ent = i * ent /\ i * ent <= num * ent
  <2>1. x + ent = i * ent OBVIOUS
  <2>2. i * ent <= num * ent BY ProductMonotone
  <2> QED BY <2>1, <2>2
<1>3. x \div ent = i - 1
  <2>1. (i - 1) * ent <= x /\ x < (i - 1) * ent + ent BY <1>1
  <2> HIDE DEF x
  <2> QED BY <1>1, <2>1, DivisionUnique
<1>4. num * ent \in Nat OBVIOUS
<1> HIDE DEF x
<1>5. x % ent = 0
  <2>1. x = (x \div ent) * ent + (x % ent) BY <1>1
  <2>2. (x \div ent) * ent = x BY <1>3 DEF x
  <2> DEFINE r == x % ent
             y == (x \div ent) * ent
  <2>3. r \in Nat BY <1>1
  <2> HIDE DEF r, y
  <2>4. x = y + r /\ y = x BY <2>1, <2>2 DEF r, y
  <2>5. r = 0 BY <1>1, <2>3, <2>4
  <2> QED BY <2>5 DEF r
<1>6. c = off + x BY DEF x
<1>7. c \in off .. off + num * ent - 1 /\ c - off = x BY <1>1, <1>2, <1>4, <1>6
<1>8. i - 1 + 1 = i OBVIOUS
<1> QED BY <1>3, <1>5, <1>7, <1>8

(* The other tables lie before the new program headers or behind them.     *)
LEMMA TablesBesidePhdrs ==
  ASSUME TypeInv, Footprint, Plan, pc = "serialize"
  PROVE  /\ Len(shdrs) # 0 => ehdr.shoff + Len(shdrs) * ShEnt <= ehdr.phoff
         /\ LET off == phdrs[dyn.phdr].offset
                len == Len(dyn.entries) * DynEnt
            IN  \/ off + len <= ehdr.phoff
                \/ ehdr.phoff + Len(phdrs) * PhEnt <= off
<1> DEFINE off == phdrs[dyn.phdr].offset
           len == Len(dyn.entries) * DynEnt
           po  == phdrs[m.ro].offset
           pl  == Len(phdrs) * PhEnt
<1>1. /\ phdrs \in Seq(Phdr) /\ m \in Mods /\ m.ro <= Len(phdrs) /\ m.rw <= Len(phdrs)
      /\ shdrs \in Seq(Shdr) /\ dyn.entries \in Seq(Dyn)
      /\ src.size \in Nat /\ src.size <= MaxU /\ src.buf \in File(src.size)
  BY Naturals64 DEF TypeInv, TypeOK, Dynamic, IsFile
<1>2. /\ m.ro \in 1 .. Len(phdrs) /\ (m.rw # 0 <=> m.move)
      /\ RoPlaced /\ (m.rw # 0 => RwPlaced)
  <2>1. m.ro # 0 /\ (m.rw # 0 <=> m.move) /\ RoPlaced /\ (m.rw # 0 => RwPlaced)
    BY DEF Plan, Segments, Filled
  <2> QED BY <1>1, <2>1 DEF Mods
<1>3. ehdr.phoff = po /\ po \in Nat /\ src.size <= po
  BY <1>1, <1>2, PhdrFields DEF Plan, Tables, Filled, RoPlaced, Placed
<1>4. ParseElf(src.buf, src.size) /\ ehdr.shoff = EhdrOf(src.buf).shoff
      /\ Len(shdrs) = ShnumOf(src.buf) /\ len = phdrs[dyn.phdr].filesz
  BY DEF Footprint
<1>5. Len(shdrs) # 0 => ehdr.shoff + Len(shdrs) * ShEnt <= ehdr.phoff
  <2> SUFFICES ASSUME Len(shdrs) # 0 PROVE ehdr.shoff + Len(shdrs) * ShEnt <= ehdr.phoff
    OBVIOUS
  <2> DEFINE so == EhdrOf(src.buf).shoff
             sl == ShnumOf(src.buf) * ShEnt
  <2>1. InBounds(so, sl, src.size)
    BY <1>1, <1>4, ShdrsType DEF ParseElf, ValidShdrs
  <2>2. so \in Nat
    BY <1>1, <1>4, EhdrType, Naturals64 DEF ParseElf, Ehdr
  <2>3. sl \in Nat BY <1>1, <1>4, SizeAssumption
  <2> HIDE DEF so, sl
  <2>4. so + sl <= po BY <1>1, <1>3, <2>1, <2>2, <2>3 DEF InBounds
  <2> QED BY <1>3, <1>4, <2>4 DEF so, sl
<1>6. len \in Nat BY <1>1, SizeAssumption
<1>7. CASE ~m.move
  <2>1. phdrs[dyn.phdr] = PhdrsOf(src.buf)[PtDynamic(src.buf)]
    BY <1>7 DEF Plan, Tables, DynPlace
  <2>2. InBounds(off, len, src.size) /\ off \in Nat BY <1>4, <2>1, OldRanges
  <2> HIDE DEF off, len, po
  <2>3. off + len <= po BY <1>1, <1>3, <1>6, <2>2 DEF InBounds
  <2> QED BY <1>3, <1>5, <2>3 DEF off, len
<1>8. CASE m.move
  <2>1. RwPlaced /\ m.rw \in 1 .. Len(phdrs)
    BY <1>1, <1>2, <1>8 DEF Mods
  <2>2. m.ro \in IndicesOf(phdrs, "LOAD") /\ m.ro < m.rw
    BY <1>2, <2>1 DEF RoPlaced, RwPlaced, Placed, Holds, IndicesOf
  <2>3. off = phdrs[m.rw].offset
    BY <1>8 DEF Plan, Tables, DynPlace, Filled
  <2>4. phdrs[m.ro].offset + phdrs[m.ro].filesz <= phdrs[m.rw].offset
    BY <2>1, <2>2 DEF RwPlaced, Placed, Behind
  <2>5. phdrs[m.ro].filesz = m.newPhsize + m.newDynstrSz
        /\ m.newPhsize \in Nat /\ m.newDynstrSz \in Nat
    BY <1>1, <1>2, Naturals64 DEF RoPlaced, Placed, Holds, Mods
  <2>6. m.newPhsize = pl
    <3>1. Pending = 0 BY DEF Pending
    <3>2. Len(phdrs) + 0 = Len(phdrs) BY <1>1
    <3> QED BY <3>1, <3>2 DEF Plan, Sizes, Filled
  <2>7. off \in Nat BY <1>1, <2>1, <2>3, PhdrFields
  <2> HIDE DEF off, pl, po
  <2>8. po + (pl + m.newDynstrSz) <= off BY <2>3, <2>4, <2>5, <2>6 DEF po
  <2>9. pl \in Nat BY <2>5, <2>6
  <2>10. po + pl <= off BY <1>3, <2>5, <2>7, <2>8, <2>9
  <2> QED BY <1>3, <1>5, <2>10 DEF off, pl
<1> QED BY <1>7, <1>8

(* serialize_elf leaves all program headers in the data.                   *)
LEMMA SerializedPhdrs ==
  ASSUME TypeInv, Footprint, Plan, pc = "serialize", SerializeOk, "phdrs" \in dirty,
         NEW i \in 1 .. Len(phdrs)
  PROVE  Decode("phdr", ZeroPhdr, Serialized, ehdr.phoff + (i - 1) * PhEnt) = phdrs[i]
<1> DEFINE po == ehdr.phoff
           pl == Len(phdrs) * PhEnt
           c  == po + (i - 1) * PhEnt
           so == ehdr.shoff
           sl == Len(shdrs) * ShEnt
           do == phdrs[dyn.phdr].offset
           dl == Len(dyn.entries) * DynEnt
<1>1. /\ phdrs \in Seq(Phdr) /\ shdrs \in Seq(Shdr) /\ ehdr \in Ehdr
      /\ dyn.entries \in Seq(Dyn)
      /\ size \in Nat /\ buf \in File(size)
  BY Naturals64 DEF TypeInv, TypeOK, Dynamic
<1>2. po \in Nat /\ so \in Nat /\ do \in Nat /\ pl \in Nat /\ sl \in Nat /\ dl \in Nat
  <2>1. phdrs[dyn.phdr] \in Phdr BY <1>1 DEF TypeInv, Shape, Loaded
  <2>2. do \in Nat BY <2>1, PhdrFields
  <2>3. po \in Nat /\ so \in Nat BY <1>1, Naturals64 DEF Ehdr
  <2>4. pl \in Nat /\ sl \in Nat /\ dl \in Nat BY <1>1, SizeAssumption
  <2> QED BY <2>2, <2>3, <2>4
<1>3. /\ c \in po .. po + pl - 1
      /\ (c - po) \div PhEnt + 1 = i /\ (c - po) % PhEnt = 0
  <2>1. PhEnt \in Nat \ {0} /\ Len(phdrs) \in Nat BY <1>1, SizeAssumption
  <2>2. po \in Nat /\ c = po + (i - 1) * PhEnt BY <1>2
  <2> HIDE DEF po, c
  <2> QED BY <2>1, <2>2, FirstCell
<1>4. InBounds(po, pl, size) BY TablesFit DEF Filled
<1>5. c \in 0 .. size - 1
  <2> HIDE DEF c, po, pl
  <2> QED BY <1>1, <1>2, <1>3, <1>4 DEF InBounds
<1>6. c \notin so .. so + sl - 1 /\ c \notin do .. do + dl - 1
  <2>1. /\ Len(shdrs) # 0 => so + sl <= po
        /\ do + dl <= po \/ po + pl <= do
    BY TablesBesidePhdrs
  <2>2. Len(shdrs) = 0 => sl = 0 BY SizeAssumption
  <2> HIDE DEF c, po, pl, so, sl, do, dl
  <2>3. c \notin so .. so + sl - 1 BY <1>2, <1>3, <2>1, <2>2
  <2>4. c \notin do .. do + dl - 1 BY <1>2, <1>3, <2>1
  <2> QED BY <2>3, <2>4
<1>7. \A b \in File(size) : /\ WithPhdrs(b)[c] = EncodePhdr(phdrs[i], 0)
                            /\ WithShdrs(b)[c] = b[c] /\ WithDyn(b)[c] = b[c]
  <2> TAKE b \in File(size)
  <2>1. DOMAIN b = 0 .. size - 1 BY DEF File
  <2>2. WithShdrs(b)[c] = b[c] /\ WithDyn(b)[c] = b[c]
    <3> HIDE DEF c
    <3> QED BY <1>5, <1>6, SerializeKeeps
  <2>3. WithPhdrs(b)[c] = EncodePhdr(phdrs[(c - po) \div PhEnt + 1], (c - po) % PhEnt)
    <3> HIDE DEF c
    <3> QED BY <1>3, <1>5, <2>1 DEF WithPhdrs, WriteTable
  <2> HIDE DEF c
  <2> QED BY <1>3, <2>2, <2>3
<1> HIDE DEF c
<1>8. Serialized[c] = EncodePhdr(phdrs[i], 0)
  <2> DEFINE b1 == IF "ehdr" \in dirty THEN WithEhdr(buf) ELSE buf
             b2 == WithPhdrs(b1)
             b3 == IF "shdrs" \in dirty THEN WithShdrs(b2) ELSE b2
  <2>1. b1 \in File(size) /\ b2 \in File(size) /\ b3 \in File(size)
    BY <1>1, WithTablesType
  <2>2. b2[c] = EncodePhdr(phdrs[i], 0) BY <1>7, <2>1
  <2>3. b3[c] = b2[c] BY <1>7, <2>1
  <2>4. Serialized = IF "dyn" \in dirty THEN WithDyn(b3) ELSE b3 BY DEF Serialized
  <2> HIDE DEF b3
  <2> QED BY <1>7, <2>1, <2>2, <2>3, <2>4
<1>9. Decode("phdr", ZeroPhdr, Serialized, c) = phdrs[i]
  <2>1. CASE phdrs[i] = ZeroPhdr
    BY <1>8, <2>1 DEF Decode, EncodePhdr, Encode, Zero
  <2>2. CASE phdrs[i] # ZeroPhdr
    BY <1>8, <2>2 DEF Decode, EncodePhdr, Encode
  <2> QED BY <2>1, <2>2
<1> QED BY <1>9 DEF c

(* serialize_elf leaves the headers that lead to them.                     *)
LEMMA SerializedHeaders ==
  ASSUME TypeInv, pc = "serialize", SerializeOk, "ehdr" \in dirty, 0 < size
  PROVE  /\ Serialized[0][1] = "ehdr" => Serialized[0][2] = ehdr
         /\ shdrs # <<>> /\ "shdrs" \in dirty /\ Serialized[ehdr.shoff][1] = "shdr"
              => Serialized[ehdr.shoff][2] = shdrs[1]
<1> DEFINE b1 == WithEhdr(buf)
           b2 == IF "phdrs" \in dirty THEN WithPhdrs(b1) ELSE b1
           b3 == IF "shdrs" \in dirty THEN WithShdrs(b2) ELSE b2
           b4 == IF "dyn" \in dirty THEN WithDyn(b3) ELSE b3
           c  == ehdr.shoff
<1>1. /\ shdrs \in Seq(Shdr) /\ ehdr \in Ehdr /\ size \in Nat /\ buf \in File(size)
      /\ c \in Nat
  BY Naturals64 DEF TypeInv, TypeOK, Ehdr
<1>2. b1 \in File(size) /\ b2 \in File(size) /\ b3 \in File(size)
  BY <1>1, WithTablesType
<1>3. Serialized = b4 BY DEF Serialized
<1> HIDE DEF b1
<1>4. 0 \in 0 .. size - 1 BY <1>1
<1>5. b1[0] = <<"ehdr", ehdr, 0>>
  <2>1. 0 \in 0 .. 0 + Len(<<ehdr>>) * EhSize - 1 BY SizeAssumption
  <2>2. (0 - 0) \div EhSize + 1 = 1 /\ (0 - 0) % EhSize = 0 BY SizeAssumption
  <2>3. DOMAIN buf = 0 .. size - 1 BY <1>1 DEF File
  <2>4. b1[0] = EncodeEhdr(<<ehdr>>[(0 - 0) \div EhSize + 1], (0 - 0) % EhSize)
    BY <1>4, <2>1, <2>3 DEF b1, WithEhdr, WriteTable
  <2>5. b1[0] = EncodeEhdr(<<ehdr>>[1], 0) BY <2>2, <2>4
  <2> QED BY <2>5 DEF EncodeEhdr
<1>6. b2[0][1] = "ehdr" => b2[0] = b1[0] BY <1>2, <1>4, WrittenKinds
<1> HIDE DEF b2
<1>7. b3[0][1] = "ehdr" => b3[0] = b2[0] BY <1>2, <1>4, WrittenKinds
<1>8. ASSUME shdrs # <<>>, "shdrs" \in dirty
      PROVE  c \in 0 .. size - 1 /\ b3[c] = EncodeShdr(shdrs[1], 0)
  <2> DEFINE sl == Len(shdrs) * ShEnt
  <2>1. Len(shdrs) \in Nat /\ 1 \in 1 .. Len(shdrs) BY <1>1, <1>8
  <2>2. c = c + (1 - 1) * ShEnt BY <1>1, SizeAssumption
  <2>3. ShEnt \in Nat \ {0} BY SizeAssumption
  <2>4. c \in c .. c + sl - 1 /\ (c - c) \div ShEnt + 1 = 1 /\ (c - c) % ShEnt = 0
    <3> HIDE DEF c
    <3> QED BY <1>1, <2>1, <2>2, <2>3, FirstCell
  <2>5. InBounds(c, sl, size) BY <1>8 DEF SerializeOk
  <2>6. sl \in Nat BY <1>1, SizeAssumption
  <2>7. c \in 0 .. size - 1
    <3> HIDE DEF sl, c
    <3> QED BY <1>1, <2>4, <2>5, <2>6 DEF InBounds
  <2>8. DOMAIN b2 = 0 .. size - 1 BY <1>2 DEF File
  <2>9. b3[c] = EncodeShdr(shdrs[(c - c) \div ShEnt + 1], (c - c) % ShEnt)
    <3>1. b3 = WithShdrs(b2) BY <1>8
    <3> HIDE DEF b3
    <3> QED BY <2>4, <2>7, <2>8, <3>1 DEF WithShdrs, WriteTable
  <2>10. b3[c] = EncodeShdr(shdrs[1], 0) BY <2>4, <2>9
  <2> QED BY <2>7, <2>10
<1> HIDE DEF b3
<1>9. b4[0][1] = "ehdr" => b4[0] = b3[0] BY <1>2, <1>4, WrittenKinds
<1>10. ASSUME shdrs # <<>>, "shdrs" \in dirty, b4[c][1] = "shdr"
       PROVE  b4[c][2] = shdrs[1]
  <2>1. b4[c] = b3[c] BY <1>2, <1>8, <1>10, WrittenKinds
  <2> HIDE DEF b4
  <2>2. b3[c] = EncodeShdr(shdrs[1], 0) /\ b3[c][1] = "shdr" BY <1>8, <1>10, <2>1
  <2>3. b3[c] = <<"shdr", shdrs[1], 0>> BY <2>2 DEF EncodeShdr, Encode, Zero
  <2> QED BY <2>1, <2>3
<1>11. b4[0][1] = "ehdr" => b4[0] = <<"ehdr", ehdr, 0>>
  <2> HIDE DEF b4
  <2> QED BY <1>5, <1>6, <1>7, <1>9
<1> HIDE DEF b4
<1> QED BY <1>3, <1>10, <1>11

(* The headers, action by action: they are counted when a segment is       *)
(* appended and written by serialize_elf.                                  *)
LEMMA AppendHeaders ==
  ASSUME TypeInv, AppendRo \/ AppendRw
  PROVE  HeaderInv'
<1>1. pc' \notin Filled BY DEF AppendRo, AppendRw, Filled
<1>2. Written' BY <1>1 DEF Written
<1>4. RwContent \in U64 BY DEF RwContent, TypeInv, TypeOK, Mods
<1>5. Counted'
  <2>1. CASE AppendRo
    <3>1. RoContent \in U64 /\ FALSE \in BOOLEAN /\ AppendSegment(RoContent, FALSE)
      <4>1. RoContent \in Nat /\ RoContent <= MaxU
        BY <2>1, Naturals64 DEF RoContent, TypeInv, TypeOK, Mods, AppendRo
      <4>2. RoContent \in U64 BY <4>1, WidthAssumption DEF U64
      <4> QED BY <2>1, <4>2 DEF AppendRo
    <3> QED BY <3>1, AppendCounts DEF Counted
  <2>2. CASE AppendRw
    <3>1. TRUE \in BOOLEAN /\ AppendSegment(RwContent, TRUE) BY <2>2 DEF AppendRw
    <3> QED BY <1>4, <3>1, AppendCounts DEF Counted
  <2> QED BY <2>1, <2>2
<1> QED BY <1>2, <1>5 DEF HeaderInv

(* The calls that move data mark the headers to be written.                *)
LEMMA MoveHeaders ==
  ASSUME TypeInv, HeaderInv,
         MovePhdrs \/ MoveDynstr \/ AddEntriesInPlace \/ AddEntriesMoved
  PROVE  HeaderInv'
<1>1. /\ pc \in {"movePhdrs", "moveDynstr", "addEntries"}
      /\ pc' \in {"moveDynstr", "addEntries", "serialize"}
  BY DEF MovePhdrs, MoveDynstr, AddEntriesInPlace, AddEntriesMoved
<1>2. Written' BY <1>1 DEF Written, Filled
<1>3. /\ phdrs \in Seq(Phdr) /\ shdrs \in Seq(Shdr) /\ ehdr \in Ehdr
  BY DEF TypeInv, TypeOK
<1>4. ehdr'.phnum = ehdr.phnum
  <2>1. CASE MovePhdrs
    <3>1. \E to : ehdr' = [ehdr EXCEPT !.phoff = to] BY <2>1 DEF MovePhdrs
    <3> QED BY <1>3, <3>1 DEF Ehdr
  <2>2. CASE MoveDynstr BY <2>2 DEF MoveDynstr
  <2>3. CASE AddEntriesInPlace BY <2>3 DEF AddEntriesInPlace
  <2>4. CASE AddEntriesMoved BY <2>4 DEF AddEntriesMoved
  <2> QED BY <2>1, <2>2, <2>3, <2>4
<1>5. Len(phdrs') = Len(phdrs)
  <2>1. CASE phdrs' = phdrs BY <2>1
  <2>2. CASE \E i, off, va, len : i \in Nat /\ phdrs' = Moved(phdrs, i, off, va, len)
    <3>1. PICK i, off, va, len : i \in Nat /\ phdrs' = Moved(phdrs, i, off, va, len)
      BY <2>2
    <3>2. CASE i = 0 BY <3>1, <3>2 DEF Moved
    <3>3. CASE i # 0
      BY <1>3, <3>1, <3>3 DEF Moved
    <3> QED BY <3>2, <3>3
  <2>3. CASE MovePhdrs
    <3>1. UniquePhdr(phdrs, "PHDR") \in Nat BY <1>3, UniquePhdrProperty
    <3> QED BY <2>2, <2>3, <3>1 DEF MovePhdrs
  <2>4. CASE MoveDynstr BY <2>1, <2>4 DEF MoveDynstr
  <2>5. CASE AddEntriesInPlace BY <2>1, <2>5 DEF AddEntriesInPlace
  <2>6. CASE AddEntriesMoved
    <3>1. dyn.phdr \in Nat BY DEF TypeInv, TypeOK, Dynamic
    <3> QED BY <2>2, <2>6, <3>1 DEF AddEntriesMoved
  <2> QED BY <2>3, <2>4, <2>5, <2>6
<1>6. shdrs # <<>> => shdrs' # <<>> /\ shdrs'[1].info = shdrs[1].info
  <2>1. CASE shdrs' = shdrs BY <2>1
  <2>2. CASE \E i, off, va, len : shdrs' = MovedSection(shdrs, i, off, va, len)
    BY <1>3, <2>2, MovedSectionInfo
  <2>3. CASE MovePhdrs BY <2>1, <2>3 DEF MovePhdrs
  <2>4. CASE MoveDynstr BY <2>2, <2>4 DEF MoveDynstr
  <2>5. CASE AddEntriesInPlace BY <2>1, <2>5 DEF AddEntriesInPlace
  <2>6. CASE AddEntriesMoved BY <2>2, <2>6 DEF AddEntriesMoved
  <2> QED BY <2>3, <2>4, <2>5, <2>6
<1>7. dirty \subseteq dirty'
  BY DEF MovePhdrs, MoveDynstr, AddEntriesInPlace, AddEntriesMoved
<1>8. Counted' BY <1>1, <1>4, <1>5, <1>6, <1>7 DEF Counted, HeaderInv
<1> QED BY <1>2, <1>8 DEF HeaderInv

(* serialize_elf writes the headers where they are marked.                 *)
LEMMA SerializeHeaders ==
  ASSUME TypeInv, FootInv, PlanInv, HeaderInv, Serialize
  PROVE  HeaderInv'
<1>1. CASE ~SerializeOk /\ Fail
  BY <1>1 DEF Fail, Quit, HeaderInv, Counted, Written, Filled
<1>2. CASE /\ SerializeOk /\ pc' = "check"
           /\ buf' = Serialized /\ dirty' = {}
           /\ UNCHANGED <<env, ehdr, phdrs, shdrs, dyn, strtab, size, orig, m, sane>>
  <2>1. pc = "serialize" /\ Footprint /\ Plan
    BY DEF Serialize, FootInv, PlanInv, Loaded
  <2>2. /\ ehdr.phnum = IF Len(phdrs) < PN_XNUM THEN Len(phdrs) ELSE PN_XNUM
        /\ Len(phdrs) >= PN_XNUM => shdrs # <<>> /\ shdrs[1].info = Len(phdrs)
        /\ {"ehdr", "phdrs"} \subseteq dirty
        /\ Len(phdrs) >= PN_XNUM => "shdrs" \in dirty
    BY <2>1 DEF HeaderInv, Counted, Filled
  <2>3. Counted' BY <1>2, <2>2 DEF Counted
  <2>4. \A i \in 1 .. Len(phdrs) :
          Decode("phdr", ZeroPhdr, Serialized, ehdr.phoff + (i - 1) * PhEnt) = phdrs[i]
    BY <1>2, <2>1, <2>2, SerializedPhdrs
  <2>5. 0 < size
    <3>1. EhSize <= size BY <1>2, <2>2 DEF SerializeOk
    <3>2. size \in Nat BY Naturals64 DEF TypeInv, TypeOK
    <3> QED BY <3>1, <3>2, SizeAssumption
  <2>6. /\ Serialized[0][1] = "ehdr" => Serialized[0][2] = ehdr
        /\ Len(phdrs) >= PN_XNUM /\ Serialized[ehdr.shoff][1] = "shdr"
             => Serialized[ehdr.shoff][2].info = Len(phdrs)
    BY <1>2, <2>1, <2>2, <2>5, SerializedHeaders
  <2>7. Written'
    <3> HIDE DEF Serialized, Decode
    <3>1. /\ buf' = Serialized /\ ehdr' = ehdr /\ phdrs' = phdrs BY <1>2
    <3> QED BY <2>4, <2>6, <3>1 DEF Written
  <2> QED BY <2>3, <2>7 DEF HeaderInv
<1> QED BY <1>1, <1>2 DEF Serialize

(* After serialize_elf the headers and the data stay as they are.          *)
LEMMA LaterHeaders ==
  ASSUME HeaderInv, UNCHANGED <<ehdr, phdrs, shdrs, buf>>,
         pc \in {"check", "open", "write"}, pc' \in {"open", "write", "close"}
  PROVE  HeaderInv'
<1>1. Counted' BY DEF HeaderInv, Counted, Filled
<1>2. Written' BY DEF HeaderInv, Written, Filled
<1> QED BY <1>1, <1>2 DEF HeaderInv

(* No step loses a header.                                                 *)
LEMMA NextHeaders ==
  TypeInv /\ FootInv /\ PlanInv /\ HeaderInv /\ [Next]_vars => HeaderInv'
<1> SUFFICES ASSUME TypeInv, FootInv, PlanInv, HeaderInv, [Next]_vars PROVE HeaderInv'
  OBVIOUS
<1>1. CASE pc' \in {"idle", "read", "prepare", "appendRo", "appendRw"}
  BY <1>1 DEF HeaderInv, Counted, Written, Filled
<1>2. CASE AppendRo \/ AppendRw BY <1>2, AppendHeaders
<1>3. CASE MovePhdrs \/ MoveDynstr \/ AddEntriesInPlace \/ AddEntriesMoved
  BY <1>3, MoveHeaders
<1>4. CASE Serialize BY <1>4, SerializeHeaders
<1>5. CASE UNCHANGED vars
  BY <1>5 DEF vars, tabs, data, HeaderInv, Counted, Written, Filled
<1>6. CASE SanityCheck BY <1>6, LaterHeaders DEF SanityCheck, tabs, data
<1>7. CASE OpenOutput
  BY <1>1, <1>7, LaterHeaders DEF OpenOutput, Fail, Quit, tabs, data
<1>8. CASE WriteOutput
  BY <1>1, <1>8, LaterHeaders DEF WriteOutput, Quit, tabs, data
<1>9. CASE CloseOutput BY <1>1, <1>9 DEF CloseOutput, Fail, Quit
<1>10. CASE CallFails \/ Aborts \/ Kill
  BY <1>1, <1>10 DEF CallFails, Aborts, Kill, Fail, Quit
<1>11. CASE Start \/ ReadElf \/ PrepareSizes
  BY <1>1, <1>11 DEF Start, ReadElf, PrepareSizes
<1> QED
  BY <1>2, <1>3, <1>4, <1>5, <1>6, <1>7, <1>8, <1>9, <1>10, <1>11 DEF Next

(* From serialize_elf on, the data holds the program headers that are in   *)
(* memory, and nothing in the data leads elsewhere.                        *)
THEOREM HeadersAreKept == Spec => []HeaderInv
<1>1. Init => HeaderInv BY DEF Init, HeaderInv, Counted, Written, Filled
<1> QED BY <1>1, NextHeaders, TypesAreRight, FootprintHolds, PlanIsKept, PTL DEF Spec

(* Whoever parses the data, or a prefix of it, finds the headers that are  *)
(* in memory, or no ELF file at all.                                       *)
LEMMA HeadersRead ==
  ASSUME TypeInv, Footprint, Plan, HeaderInv, pc \in Filled \ {"serialize"},
         NEW n \in 0 .. size, NEW b \in File(n), \A i \in 0 .. n - 1 : b[i] = buf[i],
         ParseElf(b, n)
  PROVE  EhdrOf(b) = ehdr /\ PhdrsOf(b) = phdrs
<1> DEFINE L  == Len(phdrs)
           so == ehdr.shoff
           po == ehdr.phoff
<1>1. /\ phdrs \in Seq(Phdr) /\ shdrs \in Seq(Shdr) /\ ehdr \in Ehdr
      /\ size \in Nat /\ buf \in File(size)
  BY Naturals64 DEF TypeInv, TypeOK
<1>2. /\ ehdr.phnum = IF L < PN_XNUM THEN L ELSE PN_XNUM
      /\ L >= PN_XNUM => shdrs # <<>> /\ shdrs[1].info = L
  BY DEF HeaderInv, Counted
<1>3. /\ buf[0][1] = "ehdr" => buf[0][2] = ehdr
      /\ \A i \in 1 .. L : Decode("phdr", ZeroPhdr, buf, po + (i - 1) * PhEnt) = phdrs[i]
      /\ L >= PN_XNUM /\ buf[so][1] = "shdr" => buf[so][2].info = L
  BY DEF HeaderInv, Written
<1>4. n \in Nat /\ n <= size /\ EhSize <= n /\ b[0][1] = "ehdr" /\ ReadableEhdr(b, n)
  BY <1>1 DEF ParseElf, ReadableEhdr
<1>5. 0 \in 0 .. n - 1 BY <1>4, SizeAssumption
<1>6. EhdrOf(b) = ehdr
  <2>1. b[0] = buf[0] BY <1>5
  <2> QED BY <1>3, <1>4, <2>1 DEF EhdrOf, Decode
<1>7. L \in Nat /\ 0 < L /\ PN_XNUM \in Nat \ {0} /\ po \in Nat /\ so \in Nat
  <2>1. dyn.phdr \in 1 .. L BY DEF TypeInv, Shape, Loaded, Filled
  <2>2. po \in Nat /\ so \in Nat BY <1>1, Naturals64 DEF Ehdr
  <2> QED BY <1>1, <2>1, <2>2, EscapeAssumption
<1>8. ehdr.phnum # 0 BY <1>2, <1>7
<1>9. /\ ehdr.phnum >= PN_XNUM => ShnumOf(b) # 0
      /\ PhnumOf(b) # 0 /\ InBounds(po, PhnumOf(b) * PhEnt, n)
      /\ ValidShdrTable(b, n)
  BY <1>6, <1>8 DEF ParseElf, ValidPhdrs, ValidPhdrTable, ValidShdrs
<1>10. PhnumOf(b) = L
  <2>1. CASE L < PN_XNUM
    <3>1. ehdr.phnum = L /\ ~(L >= PN_XNUM) BY <1>2, <1>7, <2>1
    <3> QED BY <1>6, <3>1 DEF PhnumOf
  <2>2. CASE ~(L < PN_XNUM)
    <3>1. L >= PN_XNUM /\ ehdr.phnum = PN_XNUM /\ ehdr.phnum >= PN_XNUM
      BY <1>2, <1>7, <2>2
    <3>2. ShnumOf(b) # 0 BY <1>9, <3>1
    <3>3. ~NoShdrs(ehdr) BY <1>6, <3>2 DEF ShnumOf
    <3>4. InBounds(so, ShEnt, n) BY <1>6, <1>9, <3>3 DEF ValidShdrTable
    <3>5. so \in 0 .. n - 1
      <4> HIDE DEF so
      <4> QED BY <1>4, <1>7, <3>4, SizeAssumption DEF InBounds
    <3>6. b[so] = buf[so] BY <3>5
    <3>7. PhnumOf(b) = Decode("shdr", ZeroShdr, b, so).info
      BY <1>6, <3>1 DEF PhnumOf, FirstShdr
    <3>8. b[so][1] = "shdr" BY <1>9, <3>7 DEF Decode, ZeroShdr
    <3>9. PhnumOf(b) = b[so][2].info BY <3>7, <3>8 DEF Decode
    <3> QED BY <1>3, <3>1, <3>6, <3>8, <3>9
  <2> QED BY <2>1, <2>2
<1>11. \A i \in 1 .. L : Decode("phdr", ZeroPhdr, b, po + (i - 1) * PhEnt) = phdrs[i]
  <2> TAKE i \in 1 .. L
  <2> DEFINE c == po + (i - 1) * PhEnt
  <2>1. c \in 0 .. n - 1
    <3>1. PhEnt \in Nat \ {0} /\ InBounds(po, L * PhEnt, n)
      BY <1>9, <1>10, SizeAssumption
    <3> HIDE DEF po, L
    <3> QED BY <1>4, <1>7, <3>1, EntryInFile
  <2>2. Decode("phdr", ZeroPhdr, buf, c) = phdrs[i] BY <1>3
  <2> HIDE DEF c
  <2>3. b[c] = buf[c] BY <2>1
  <2>4. Decode("phdr", ZeroPhdr, b, c) = phdrs[i] BY <2>2, <2>3 DEF Decode
  <2> QED BY <2>4 DEF c
<1>12. PhdrsOf(b) = [i \in 1 .. L |-> Decode("phdr", ZeroPhdr, b, po + (i - 1) * PhEnt)]
  BY <1>6, <1>10 DEF PhdrsOf, DecodeTable
<1>13. PhdrsOf(b) = [i \in 1 .. L |-> phdrs[i]] BY <1>11, <1>12
<1>14. phdrs = [i \in 1 .. L |-> phdrs[i]] BY <1>1
<1> QED BY <1>6, <1>13, <1>14

(* The segment appended last ends where the file does.                     *)
LEMMA LastSegmentEnds ==
  ASSUME TypeInv, Plan, pc \in Filled
  PROVE  \E i \in 1 .. Len(phdrs) : /\ phdrs[i] \in Phdr
                                    /\ size = phdrs[i].offset + phdrs[i].filesz
<1>1. phdrs \in Seq(Phdr) /\ m \in Mods /\ m.ro <= Len(phdrs) /\ m.rw <= Len(phdrs)
  BY DEF TypeInv, TypeOK
<1>2. m.ro # 0 /\ (m.rw # 0 <=> m.move) /\ size = DataEnd BY DEF Plan, Segments
<1>3. CASE ~m.move
  <2>1. size = phdrs[m.ro].offset + phdrs[m.ro].filesz
    BY <1>2, <1>3 DEF DataEnd, Growing, Filled
  <2>2. m.ro \in 1 .. Len(phdrs) BY <1>1, <1>2 DEF Mods
  <2> QED BY <1>1, <2>1, <2>2
<1>4. CASE m.move
  <2>1. size = phdrs[m.rw].offset + phdrs[m.rw].filesz
    BY <1>2, <1>4 DEF DataEnd, Growing, Filled
  <2>2. m.rw \in 1 .. Len(phdrs) BY <1>1, <1>2, <1>4 DEF Mods
  <2> QED BY <1>1, <2>1, <2>2
<1> QED BY <1>3, <1>4

(* A file that write_file was interrupted on never parses.                 *)
THEOREM NoPrefixParses == Spec => []TruncatedIsRefused
<1>1. TypeInv /\ FootInv /\ PlanInv /\ HeaderInv => TruncatedIsRefused
  <2> SUFFICES ASSUME TypeInv, FootInv, PlanInv, HeaderInv, pc = "write",
                      NEW n \in 1 .. size - 1,
                      ParseElf(Prefix(Patched, n).buf, n)
               PROVE  FALSE
    BY DEF TruncatedIsRefused
  <2> DEFINE b == Prefix(Patched, n).buf
  <2>1. Footprint /\ Plan /\ pc \in Filled \ {"serialize"}
    BY DEF FootInv, PlanInv, Loaded, Filled
  <2>2. size \in Nat /\ buf \in File(size) BY Naturals64 DEF TypeInv, TypeOK
  <2>3. b = [i \in 0 .. n - 1 |-> buf[i]] BY DEF Prefix, Patched
  <2>4. n \in Nat /\ n < size /\ n \in 0 .. size BY <2>2
  <2>5. \A i \in 0 .. n - 1 : b[i] = buf[i] /\ buf[i] \in Cell
    BY <2>2, <2>3, <2>4 DEF File
  <2>6. b \in File(n) BY <2>3, <2>5 DEF File
  <2>7. ParseElf(b, n) OBVIOUS
  <2> HIDE DEF b
  <2>8. PhdrsOf(b) = phdrs BY <2>1, <2>4, <2>5, <2>6, <2>7, HeadersRead
  <2>9. PICK i \in 1 .. Len(phdrs) : /\ phdrs[i] \in Phdr
                                     /\ size = phdrs[i].offset + phdrs[i].filesz
    BY <2>1, LastSegmentEnds
  <2>10. phdrs[i].offset < n /\ phdrs[i].filesz <= n - phdrs[i].offset
    BY <2>7, <2>8 DEF ParseElf, ValidPhdrs, ValidPhdrExtent
  <2> DEFINE o == phdrs[i].offset
             f == phdrs[i].filesz
  <2>11. o \in Nat /\ f \in Nat /\ size = o + f /\ f <= n - o BY <2>9, <2>10, PhdrFields
  <2> HIDE DEF o, f
  <2> QED BY <2>4, <2>11
<1> QED BY <1>1, TypesAreRight, FootprintHolds, PlanIsKept, HeadersAreKept, PTL

-----------------------------------------------------------------------------
(* The loader can still write to the dynamic table.                        *)

(* What the flag of the sanity check says.                                 *)
SaneInv == pc \in {"open", "write", "close"} /\ sane => ParseElf(buf, size)

(* Once checked, the data does not change.                                 *)
LEMMA NextSane == TypeInv /\ SaneInv /\ [Next]_vars => SaneInv'
<1> SUFFICES ASSUME TypeInv, SaneInv, [Next]_vars PROVE SaneInv' OBVIOUS
<1>1. CASE pc' \notin {"open", "write", "close"} BY <1>1 DEF SaneInv
<1>2. CASE SanityCheck
  <2>1. sane' => ParseElf(buf, size) BY <1>2 DEF SanityCheck
  <2>2. buf' = buf /\ size' = size BY <1>2 DEF SanityCheck, data
  <2> QED BY <2>1, <2>2 DEF SaneInv
<1>3. CASE /\ pc \in {"open", "write"} /\ UNCHANGED <<buf, size, sane>>
  BY <1>3 DEF SaneInv
<1>4. CASE UNCHANGED vars BY <1>4 DEF vars, data, SaneInv
<1>5. CASE OpenOutput \/ WriteOutput
  BY <1>1, <1>3, <1>5 DEF OpenOutput, WriteOutput, Fail, Quit, data
<1>6. CASE CloseOutput \/ CallFails \/ Aborts \/ Kill
  BY <1>1, <1>6 DEF CloseOutput, CallFails, Aborts, Kill, Fail, Quit
<1>7. CASE Start \/ ReadElf \/ PrepareSizes \/ AppendRo \/ AppendRw \/ MovePhdrs
  BY <1>1, <1>7 DEF Start, ReadElf, PrepareSizes, AppendRo, AppendRw, MovePhdrs
<1>8. CASE MoveDynstr \/ AddEntriesInPlace \/ AddEntriesMoved \/ Serialize
  BY <1>1, <1>8 DEF MoveDynstr, AddEntriesInPlace, AddEntriesMoved, Serialize, Fail, Quit
<1> QED BY <1>2, <1>4, <1>5, <1>6, <1>7, <1>8 DEF Next

(* The lookups that are decided before the appended segments are the same  *)
(* with and without them.                                                  *)
LEMMA FirstOfMore ==
  ASSUME NEW S \in SUBSET (Nat \ {0}), NEW T \in SUBSET (Nat \ {0}), NEW n \in Nat,
         S \subseteq 1 .. n, S # {}, \A j \in 1 .. n : j \in T <=> j \in S
  PROVE  FirstOf(T) = FirstOf(S)
<1>1. FirstOf(S) \in S /\ \A j \in S : FirstOf(S) <= j BY FirstOfProperty
<1>2. FirstOf(S) \in T BY <1>1
<1>3. FirstOf(T) \in T /\ \A j \in T : FirstOf(T) <= j BY <1>2, FirstOfProperty
<1>4. FirstOf(T) <= FirstOf(S) BY <1>2, <1>3
<1>5. FirstOf(T) \in 1 .. n
  <2>1. FirstOf(S) \in 1 .. n /\ FirstOf(T) \in Nat \ {0} BY <1>1, <1>3
  <2> QED BY <1>4, <2>1
<1>6. FirstOf(S) <= FirstOf(T) BY <1>1, <1>3, <1>5
<1>7. FirstOf(S) \in Nat /\ FirstOf(T) \in Nat BY <1>1, <1>3
<1> QED BY <1>4, <1>6, <1>7

(* If the dynamic table of the input lies in a writable segment, so does   *)
(* that of the output.                                                     *)
LEMMA StaysWritable ==
  ASSUME TypeInv, Footprint, Plan, HeaderInv, pc \in {"open", "write", "close"},
         ParseElf(buf, size), InWritable(src.buf)
  PROVE  InWritable(buf)
<1> DEFINE old == PhdrsOf(src.buf)
           d   == dyn.phdr
           lds == IndicesOf(phdrs, "LOAD")
<1>1. /\ phdrs \in Seq(Phdr) /\ m \in Mods /\ m.ro <= Len(phdrs) /\ m.rw <= Len(phdrs)
      /\ size \in Nat /\ buf \in File(size)
      /\ src.size \in Nat /\ src.size <= MaxU /\ src.buf \in File(src.size)
  BY Naturals64 DEF TypeInv, TypeOK, IsFile
<1>2. PhdrsOf(buf) = phdrs
  <2>1. size \in 0 .. size /\ pc \in Filled \ {"serialize"} BY <1>1 DEF Filled
  <2> QED BY <1>1, <2>1, HeadersRead
<1>3. ParseElf(src.buf, src.size) BY DEF Footprint
<1>4. /\ old \in Seq(Phdr) /\ d \in 1 .. Len(old) /\ d = PtDynamic(src.buf)
      /\ old[d].type = "DYNAMIC"
  <2>1. d = PtDynamic(src.buf) BY DEF Plan, Tables
  <2>2. old \in Seq(Phdr)
    BY <1>1, <1>3, PhdrsType DEF ParseElf, ValidShdrs, ValidPhdrs
  <2> QED BY <1>1, <1>3, <2>1, <2>2, DynamicType
<1>5. /\ m.ro \in 1 .. Len(phdrs) /\ (m.rw # 0 <=> m.move)
      /\ RoPlaced /\ (m.rw # 0 => RwPlaced)
  <2>1. m.ro # 0 /\ (m.rw # 0 <=> m.move) /\ RoPlaced /\ (m.rw # 0 => RwPlaced)
    BY DEF Plan, Segments, Filled
  <2> QED BY <1>1, <2>1 DEF Mods
<1>6. /\ Len(old) <= Len(phdrs) /\ Len(phdrs) = m.ro + (IF m.rw = 0 THEN 0 ELSE 1)
      /\ m.ro = Len(old) + 1
      /\ \A j \in 1 .. Len(old) : /\ phdrs[j].type = old[j].type
                                  /\ old[j].type = "LOAD" => phdrs[j] = old[j]
  <2>1. Len(phdrs) = Len(old) + 1 + (IF m.rw = 0 THEN 0 ELSE 1)
    <3>1. Len(phdrs) = Len(old) + (IF m.ro = 0 THEN 0 ELSE 1) + (IF m.rw = 0 THEN 0 ELSE 1)
      BY DEF Plan, Tables
    <3> QED BY <1>5, <3>1
  <2>2. Len(phdrs) = m.ro + (IF m.rw = 0 THEN 0 ELSE 1) BY <1>5 DEF RoPlaced
  <2>3. Len(old) \in Nat /\ m.ro \in Nat BY <1>4, <1>5
  <2>4. m.ro = Len(old) + 1 /\ Len(old) <= Len(phdrs)
    <3> HIDE DEF old
    <3>1. CASE m.rw = 0 BY <2>1, <2>2, <2>3, <3>1
    <3>2. CASE m.rw # 0 BY <2>1, <2>2, <2>3, <3>2
    <3> QED BY <3>1, <3>2
  <2> QED BY <2>2, <2>4 DEF Plan, Tables
<1>7. \A j \in 1 .. Len(phdrs) : j \in 1 .. Len(old) \/ phdrs[j].type = "LOAD"
  <2> TAKE j \in 1 .. Len(phdrs)
  <2>1. phdrs[m.ro].type = "LOAD" /\ (m.rw # 0 => phdrs[m.rw].type = "LOAD")
    BY <1>5 DEF RoPlaced, RwPlaced, Placed, Holds
  <2>2. m.rw # 0 => m.rw = m.ro + 1 BY <1>5 DEF RwPlaced
  <2> HIDE DEF old
  <2>3. j \in 1 .. Len(old) \/ j = m.ro \/ (m.rw # 0 /\ j = m.rw)
    <3> DEFINE n == Len(old)
    <3>1. n \in Nat /\ m.ro = n + 1 /\ j \in Nat /\ 1 <= j /\ j <= Len(phdrs)
          /\ Len(phdrs) \in Nat
      BY <1>1, <1>4, <1>6
    <3> HIDE DEF n
    <3>2. CASE m.rw = 0
      <4>1. Len(phdrs) = m.ro + 0 BY <1>6, <3>2
      <4>2. j \in 1 .. n \/ j = m.ro BY <3>1, <4>1
      <4> QED BY <4>2 DEF n
    <3>3. CASE m.rw # 0
      <4>1. Len(phdrs) = m.ro + 1 /\ m.rw = m.ro + 1 BY <1>6, <2>2, <3>3
      <4>2. j \in 1 .. n \/ j = m.ro \/ j = m.rw BY <3>1, <4>1
      <4> QED BY <3>3, <4>2 DEF n
    <3> QED BY <3>2, <3>3
  <2> QED BY <2>1, <2>3
<1>8. PtDynamic(buf) = d
  <2>1. IndicesOf(phdrs, "DYNAMIC") = IndicesOf(old, "DYNAMIC")
    <3> HIDE DEF old
    <3> QED BY <1>4, <1>6, <1>7 DEF IndicesOf
  <2> QED BY <1>2, <1>4, <2>1 DEF PtDynamic, UniquePhdr
<1>9. CASE m.move
  <2>1. RwPlaced /\ m.rw \in 1 .. Len(phdrs) BY <1>1, <1>5, <1>9 DEF Mods
  <2>2. /\ Holds(phdrs[m.rw], m.newDynSz) /\ Behind(phdrs, m.rw) /\ phdrs[m.rw].write
        /\ 0 < m.newDynSz
    BY <2>1 DEF RwPlaced, Placed, Holds
  <2>3. m.newDynSz \in Nat BY <1>1, Naturals64 DEF Mods
  <2>4. m.newDynSz <= m.newDynSz BY <2>3
  <2>5. ContainingMemPtload(phdrs, phdrs[m.rw].vaddr, m.newDynSz) = m.rw
    BY <2>1, <2>2, <2>3, <2>4, FoundAtStart
  <2>6. phdrs[d].vaddr = phdrs[m.rw].vaddr /\ phdrs[d].memsz = m.newDynSz
    BY <1>9 DEF Plan, Tables, DynPlace, Filled
  <2> QED BY <1>2, <1>8, <2>2, <2>5, <2>6 DEF InWritable
<1>10. CASE ~m.move
  <2>1. phdrs[d] = old[d] BY <1>4, <1>10 DEF Plan, Tables, DynPlace
  <2> DEFINE va == old[d].vaddr
             sz == old[d].memsz
             S  == {j \in IndicesOf(old, "LOAD") : MemContains(old[j], va, sz)}
             T  == {j \in IndicesOf(phdrs, "LOAD") : MemContains(phdrs[j], va, sz)}
  <2>2. ContainingMemPtload(old, va, sz) # 0
    BY <1>3, <1>4 DEF ParseElf, ValidPhdrs, InSomeLoad
  <2>3. ~(va > MaxU - sz) /\ FirstOf(S) # 0 /\ ContainingMemPtload(old, va, sz) = FirstOf(S)
    BY <2>2 DEF ContainingMemPtload
  <2>4. ContainingMemPtload(phdrs, va, sz) = FirstOf(T)
    BY <2>3 DEF ContainingMemPtload
  <2>5. S \in SUBSET (Nat \ {0}) /\ S \subseteq 1 .. Len(old) BY DEF IndicesOf
  <2>6. T \in SUBSET (Nat \ {0}) BY DEF IndicesOf
  <2>7. \A j \in 1 .. Len(old) : j \in T <=> j \in S
    <3> TAKE j \in 1 .. Len(old)
    <3>1. j \in 1 .. Len(phdrs) BY <1>4, <1>6
    <3>2. phdrs[j].type = old[j].type /\ (old[j].type = "LOAD" => phdrs[j] = old[j])
      BY <1>6
    <3> HIDE DEF old, va, sz
    <3>3. j \in IndicesOf(phdrs, "LOAD") <=> j \in IndicesOf(old, "LOAD")
      BY <3>1, <3>2 DEF IndicesOf
    <3>4. j \in IndicesOf(old, "LOAD") => phdrs[j] = old[j] BY <3>2 DEF IndicesOf
    <3> QED BY <3>3, <3>4
  <2>8. S \subseteq IndicesOf(old, "LOAD") OBVIOUS
  <2>9. Len(old) \in Nat BY <1>4
  <2> HIDE DEF S, T, va, sz
  <2>10. FirstOf(S) \in S BY <2>3, <2>5, FirstOfProperty
  <2>11. FirstOf(T) = FirstOf(S)
    <3> HIDE DEF old
    <3> QED BY <2>5, <2>6, <2>7, <2>9, <2>10, FirstOfMore
  <2>12. phdrs[FirstOf(S)] = old[FirstOf(S)]
    BY <1>6, <2>8, <2>10 DEF IndicesOf
  <2>13. old[FirstOf(S)].write
    BY <1>4, <2>3 DEF InWritable, va, sz
  <2> QED BY <1>2, <1>8, <2>1, <2>4, <2>11, <2>12, <2>13 DEF InWritable, va, sz
<1> QED BY <1>9, <1>10

(* ld.so can store to the dynamic table of the output if it could to that  *)
(* of the input, wherever the table has gone.                              *)
THEOREM LoaderCanWrite == Spec => []DynamicStaysWritable
<1>1. Init => SaneInv BY DEF Init, SaneInv
<1>2. Spec => []SaneInv BY <1>1, NextSane, TypesAreRight, PTL DEF Spec
<1>3. TypeInv /\ FootInv /\ PlanInv /\ HeaderInv /\ SaneInv => DynamicStaysWritable
  BY StaysWritable DEF DynamicStaysWritable, SaneInv, FootInv, PlanInv, Loaded
<1> QED
  BY <1>2, <1>3, TypesAreRight, FootprintHolds, PlanIsKept, HeadersAreKept, PTL

=============================================================================
