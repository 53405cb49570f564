----------------------------- MODULE AddImport ------------------------------
(***************************************************************************)
(* elf-add-import: read an ELF file, append one or two PT_LOAD segments,   *)
(* move the program headers, .dynstr and, when it has no spare room, the   *)
(* dynamic table into them, add the new DT_NEEDED entries, re-serialize    *)
(* the modified structures, parse the result again and write it out.       *)
(*                                                                         *)
(* The program is sequential.  Each action is one of the calls that main   *)
(* makes, in the order of the program text, with everything that call does *)
(* to struct elf and to the data buffer.  What varies is the file, the     *)
(* memory (any allocation may fail), the file system (any call on the      *)
(* output may fail, leaving a prefix), a kill at any moment, and the user, *)
(* who may run the tool again on any file, in place or not.                *)
(***************************************************************************)
EXTENDS ElfParse, MoveData

CONSTANTS
  Imports,        \* the strings of main's mod_cfg, one DT_NEEDED entry each
  InputFiles,     \* what the first path holds before the first run
  Paths,          \* file names
  Missing,        \* a path with no file
  Cuts,           \* lengths at which an interrupted write may stop
  MaxRuns         \* bound: how many times the user runs the tool

(* main's configuration has one import.  calculate_dyn_tbl_mod asks for    *)
(* one spare entry whatever their number; with more than three imports the *)
(* memcpy of add_new_dynamic_entries can leave the array.                  *)
ASSUME ImportAssumption == Imports \in Seq(Names) /\ Len(Imports) \in 1 .. 3

ASSUME FileAssumption ==
  /\ \A f \in InputFiles : IsFile(f)
  /\ Missing \notin InputFiles
  /\ Cuts \subseteq Nat
  /\ MaxRuns \in Nat

VARIABLES
  pc,             \* the call main is about to make, "idle" when not running
  exit,           \* how the last run ended
  runs,           \* number of runs started
  argIn, argOut,  \* argv[1], argv[2]
  disk,           \* contents of the paths
  src,            \* history: the file this run read
  ehdr, phdrs, shdrs, dyn, strtab, dirty,   \* struct elf
  buf, size,      \* struct elf, member data
  orig,           \* struct elf, member orig
  m,              \* struct mod_ctx and the locals of prepare_modifications
  sane            \* the patched data passed the sanity check

env  == <<exit, runs, argIn, argOut, disk, src>>
tabs == <<ehdr, phdrs, shdrs, dyn, strtab, dirty>>
data == <<buf, size>>
vars == <<pc, env, tabs, data, orig, m, sane>>

-----------------------------------------------------------------------------
(* The types of the structures that have no file representation.           *)
Dynamic == [entries : Seq(Dyn), phdr : Nat, shdr : Nat]
Strtab  == [vaddr : U64, off : U64, size : U64, shdr : Nat]
Origin  == [phoff : U64, phsize : U64, stroff : U64, strsz : U64]
Mods    == [strOffs : Seq(U64), newDynstrSz : U64, move : BOOLEAN,
            newDynSz : U64, newPhsize : U64, segOff : U64, ro : Nat, rw : Nat]

(* A destroyed or not yet parsed context.                                  *)
NoEhdr   == [phoff |-> 0, phentsize |-> 0, phnum |-> 0, shoff |-> 0,
             shentsize |-> 0, shnum |-> 0, shstrndx |-> 0]
NoDyn    == [entries |-> <<>>, phdr |-> 0, shdr |-> 0]
NoStrtab == [vaddr |-> 0, off |-> 0, size |-> 0, shdr |-> 0]
NoOrig   == [phoff |-> 0, phsize |-> 0, stroff |-> 0, strsz |-> 0]
NoMods   == [strOffs |-> <<>>, newDynstrSz |-> 0, move |-> FALSE,
             newDynSz |-> 0, newPhsize |-> 0, segOff |-> 0, ro |-> 0, rw |-> 0]

Destroyed ==
  /\ ehdr' = NoEhdr /\ phdrs' = <<>> /\ shdrs' = <<>> /\ dyn' = NoDyn
  /\ strtab' = NoStrtab /\ dirty' = {}
  /\ buf' = EmptyFile.buf /\ size' = 0
  /\ orig' = NoOrig /\ m' = NoMods /\ sane' = FALSE

(* main's exits: destroy_modifications and destroy_elf, then the status.   *)
Quit(status) ==
  /\ pc' = "idle"
  /\ exit' = status
  /\ Destroyed
  /\ UNCHANGED <<runs, argIn, argOut, src>>

Fail == Quit("failure") /\ UNCHANGED disk

Init ==
  /\ pc = "idle" /\ exit = "none" /\ runs = 0
  /\ \E first \in Paths : /\ argIn = first /\ argOut = first
                          /\ \E f \in InputFiles :
                               disk = [p \in Paths |-> IF p = first THEN f ELSE Missing]
  /\ src = EmptyFile
  /\ ehdr = NoEhdr /\ phdrs = <<>> /\ shdrs = <<>> /\ dyn = NoDyn
  /\ strtab = NoStrtab /\ dirty = {}
  /\ buf = EmptyFile.buf /\ size = 0
  /\ orig = NoOrig /\ m = NoMods /\ sane = FALSE

(* The user runs the tool with any two path names.                         *)
Start ==
  /\ pc = "idle" /\ runs < MaxRuns
  /\ pc' = "read" /\ exit' = "none" /\ runs' = runs + 1
  /\ argIn' \in Paths /\ argOut' \in Paths
  /\ UNCHANGED <<disk, src, tabs, data, orig, m, sane>>

-----------------------------------------------------------------------------
(* read_elf, with parse_elf in "move" mode: the context is the file.       *)
Load(f) ==
  LET b  == f.buf
      st == StrtabOf(b)
  IN  /\ ehdr' = EhdrOf(b) /\ phdrs' = PhdrsOf(b) /\ shdrs' = ShdrsOf(b)
      /\ dyn' = [entries |-> DynEntriesOf(b), phdr |-> PtDynamic(b),
                 shdr |-> ShtDynamic(ShdrsOf(b))]
      /\ strtab' = st /\ dirty' = {}
      /\ buf' = b /\ size' = f.size /\ src' = f
      /\ orig' = [phoff |-> EhdrOf(b).phoff, phsize |-> PhnumOf(b) * PhEnt,
                  stroff |-> st.off, strsz |-> st.size]

InputParses ==
  disk[argIn] # Missing /\ ParseElf(disk[argIn].buf, disk[argIn].size)

ReadElf ==
  /\ pc = "read" /\ pc' = "prepare"
  /\ InputParses /\ Load(disk[argIn])
  /\ UNCHANGED <<exit, runs, argIn, argOut, disk, m, sane>>

-----------------------------------------------------------------------------
(* prepare_dynstr_offsets: StrOffset[i] is where import i starts in the    *)
(* new table, StrOffset[Len(Imports) + 1] where the table ends.            *)
StrOffsetOverlapping(old) ==           \* mistaken: takes the last terminator
  [i \in 1 .. Len(Imports) + 1 |-> old - 1 + (i - 1) * (NameLen[Imports[1]] + 1)]

StrOffsetUnterminated(old) ==          \* mistaken: no room for the terminator
  [i \in 1 .. Len(Imports) + 1 |-> old + (i - 1) * NameLen[Imports[1]]]

StrOffset(old) ==
  LET o[i \in 1 .. Len(Imports) + 1] ==
        IF i = 1 THEN old ELSE o[i - 1] + NameLen[Imports[i - 1]] + 1
  IN  o

(* calculate_dyn_tbl_mod: the DT_NULLs before the last entry are counted,  *)
(* the first of them is not offered.                                       *)
SpareNullsAll(entries) ==              \* mistaken: counts the terminator
  Cardinality({i \in 1 .. Len(entries) :
                 \A j \in i .. Len(entries) : entries[j].tag = "NULL"})

SpareNulls(entries) ==
  LET last == Len(entries) - 1
      run  == {i \in 1 .. last : \A j \in i .. last : entries[j].tag = "NULL"}
  IN  IF Cardinality(run) > 1 THEN Cardinality(run) - 1 ELSE 0

MoveRequired(entries) == SpareNulls(entries) < 1

(* calculate_new_phsize.                                                   *)
NewPhnumRoOnly(move) == Len(phdrs) + 1 \* mistaken: forgets the second segment

NewPhnum(move) == Len(phdrs) + (IF move THEN 2 ELSE 1)

(* prepare_modifications up to the segments: sizes of everything moved.    *)
PrepareSizes ==
  LET offs   == StrOffset(strtab.size)
      total  == offs[Len(Imports) + 1]
      dynnum == Len(dyn.entries) + Len(Imports)
      move   == MoveRequired(dyn.entries)
  IN  /\ pc = "prepare" /\ pc' = "appendRo"
      /\ offs \in [1 .. Len(Imports) + 1 -> U64]       \* no reserve_range fails
      /\ dynnum <= MaxU \div DynEnt
      /\ NewPhnum(move) <= MaxU \div PhEnt
      /\ m' = [strOffs |-> SubSeq(offs, 1, Len(Imports)),
               newDynstrSz |-> total, move |-> move,
               newDynSz |-> IF move THEN dynnum * DynEnt ELSE 0,
               newPhsize |-> NewPhnum(move) * PhEnt,
               segOff |-> size, ro |-> 0, rw |-> 0]
      /\ UNCHANGED <<env, tabs, data, orig, sane>>

-----------------------------------------------------------------------------
(* update_phnum: the table is checked at its old offset.                   *)
UpdatePhnumOk(num) ==
  /\ ~DuplicatePhdr(phdrs, "PHDR")
  /\ ResizeTableOk(phdrs, size, ehdr.phoff, PhEnt, Len(phdrs), num,
                   UniquePhdr(phdrs, "PHDR") # 0)
  /\ num >= PN_XNUM => shdrs # <<>> /\ num <= MaxWord

(* construct_appended_ptload_phdr.                                         *)
SegmentFor(content) ==
  LET al == MaxLoadAlign(phdrs) IN
  [type |-> "LOAD", write |-> FALSE, align |-> al,
   offset |-> AlignUp(m.segOff, al), vaddr |-> AlignUp(MaxLoadVaddr(phdrs), al),
   filesz |-> content, memsz |-> AlignUp(content, al)]

ReadOnlySegment(content, write) == SegmentFor(content)  \* mistaken: flags ignored

NewSegment(content, write) == [SegmentFor(content) EXCEPT !.write = write]

Unchecked(content) == TRUE                              \* mistaken: no check

SegmentVaddrFits(content) ==
  SegmentFor(content).vaddr <= MaxU - SegmentFor(content).memsz

SegmentOffsetFits(content) ==
  SegmentFor(content).offset <= MaxU - SegmentFor(content).memsz

(* align_pow2 aborts on overflow.                                          *)
SegmentAligns(content) ==
  LET al == MaxLoadAlign(phdrs) IN
  /\ Alignable(content, al)
  /\ Alignable(MaxLoadVaddr(phdrs), al)
  /\ SegmentVaddrFits(content) => Alignable(m.segOff, al)

SegmentFits(content) == SegmentVaddrFits(content) /\ SegmentOffsetFits(content)

(* append_new_ptload_segment.                                              *)
AppendSegment(content, write) ==
  LET num == Len(phdrs) + 1
      pt  == UniquePhdr(phdrs, "PHDR")
      s   == NewSegment(content, write)
  IN  /\ UpdatePhnumOk(num) /\ SegmentAligns(content) /\ SegmentFits(content)
      /\ phdrs' = [i \in 1 .. num |->
                     CASE i = num -> s
                       [] i = pt  -> [phdrs[i] EXCEPT !.filesz = num * PhEnt,
                                                      !.memsz = num * PhEnt]
                       [] OTHER   -> phdrs[i]]
      /\ ehdr' = [ehdr EXCEPT !.phnum = IF num < PN_XNUM THEN num ELSE PN_XNUM]
      /\ shdrs' = IF num < PN_XNUM THEN shdrs
                  ELSE [shdrs EXCEPT ![1].info = num]
      /\ dirty' = dirty \cup {"ehdr", "phdrs"}
                        \cup (IF num < PN_XNUM THEN {} ELSE {"shdrs"})

RoContent == m.newPhsize + m.newDynstrSz
RwContent == m.newDynSz

AppendRo ==
  /\ pc = "appendRo" /\ pc' = IF m.move THEN "appendRw" ELSE "movePhdrs"
  /\ RoContent <= MaxU
  /\ AppendSegment(RoContent, FALSE)
  /\ m' = [m EXCEPT !.ro = Len(phdrs) + 1,
                    !.segOff = @ + SegmentFor(RoContent).memsz]
  /\ UNCHANGED <<env, dyn, strtab, data, orig, sane>>

AppendRw ==
  /\ pc = "appendRw" /\ pc' = "movePhdrs"
  /\ AppendSegment(RwContent, TRUE)
  /\ m' = [m EXCEPT !.rw = Len(phdrs) + 1,
                    !.segOff = @ + SegmentFor(RwContent).memsz]
  /\ UNCHANGED <<env, dyn, strtab, data, orig, sane>>

-----------------------------------------------------------------------------
(* The header of a structure that moves; the index 0 stands for none.      *)
Moved_swapped(phs, i, off, vaddr, len) ==   \* mistaken: swaps the two places
  IF i = 0 THEN phs
  ELSE [phs EXCEPT ![i].offset = vaddr, ![i].vaddr = off,
                   ![i].filesz = len, ![i].memsz = len]

Moved(phs, i, off, vaddr, len) ==
  IF i = 0 THEN phs
  ELSE [phs EXCEPT ![i].offset = off, ![i].vaddr = vaddr,
                   ![i].filesz = len, ![i].memsz = len]

MovedSection(shs, i, off, vaddr, len) ==
  IF i = 0 THEN shs
  ELSE [shs EXCEPT ![i].addr = vaddr, ![i].offset = off, ![i].size = len]

(* move_program_headers, with update_phoff.                                *)
PhdrsMoveOk ==
  LET to  == phdrs[m.ro].offset
      len == Len(phdrs) * PhEnt
  IN  /\ MoveOk(size, orig.phoff, orig.phsize, to, m.newPhsize)
      /\ InBounds(to, len, MovedSize(size, to, m.newPhsize))
      /\ UniquePhdr(phdrs, "PHDR") # 0 => VaddrFromOff(phdrs, to, len).ok

MovePhdrs ==
  LET to  == phdrs[m.ro].offset
      len == Len(phdrs) * PhEnt
      va  == VaddrFromOff(phdrs, to, len).val
  IN  /\ pc = "movePhdrs" /\ pc' = "moveDynstr"
      /\ PhdrsMoveOk
      /\ buf' = MovedData(TRUE, buf, size, orig.phoff, orig.phsize, to, m.newPhsize)
      /\ size' = MovedSize(size, to, m.newPhsize)
      /\ ehdr' = [ehdr EXCEPT !.phoff = to]
      /\ phdrs' = Moved(phdrs, UniquePhdr(phdrs, "PHDR"), to, va, len)
      /\ dirty' = dirty \cup {"ehdr", "phdrs"}
      /\ UNCHANGED <<env, shdrs, dyn, strtab, orig, m, sane>>

-----------------------------------------------------------------------------
(* The copies of the import strings, without a terminator: the bytes after *)
(* each are the zeroes of freshly grown data.                              *)
WithStrings(b, off) ==
  [i \in DOMAIN b |->
     IF \E s \in 1 .. Len(Imports) :
           i \in off + m.strOffs[s] .. off + m.strOffs[s] + NameLen[Imports[s]] - 1
     THEN LET s == CHOOSE s \in 1 .. Len(Imports) :
                i \in off + m.strOffs[s] .. off + m.strOffs[s] + NameLen[Imports[s]] - 1
          IN  <<"chr", Imports[s], i - off - m.strOffs[s]>>
     ELSE b[i]]

(* grow_move_modify_dynstr, with update_dynstr_range.                      *)
NewDynstrOff   == phdrs[m.ro].offset + m.newPhsize
NewDynstrVaddr == phdrs[m.ro].vaddr + m.newPhsize
NewDynstrAt    == OffFromVaddr(phdrs, NewDynstrVaddr, m.newDynstrSz)

DirtyWithoutSection == {"dyn"}         \* mistaken: forgets the section header

DirtyByDynstr == {"dyn"} \cup (IF strtab.shdr = 0 THEN {} ELSE {"shdrs"})

DynstrMoveOk ==
  /\ MoveOk(size, orig.stroff, orig.strsz, NewDynstrOff, m.newDynstrSz)
  /\ NewDynstrAt.ok
  /\ HasUniqueDyn(dyn.entries, "STRTAB")
  /\ HasUniqueDyn(dyn.entries, "STRSZ")

MoveDynstr ==
  /\ pc = "moveDynstr" /\ pc' = "addEntries"
  /\ DynstrMoveOk
  /\ buf' = WithStrings(MovedData(FALSE, buf, size, orig.stroff, orig.strsz,
                                  NewDynstrOff, m.newDynstrSz), NewDynstrOff)
  /\ size' = MovedSize(size, NewDynstrOff, m.newDynstrSz)
  /\ dyn' = [dyn EXCEPT
       !.entries[DynIndex(dyn.entries, "STRTAB")].val = NewDynstrVaddr,
       !.entries[DynIndex(dyn.entries, "STRSZ")].val = m.newDynstrSz]
  /\ strtab' = [strtab EXCEPT !.vaddr = NewDynstrVaddr, !.off = NewDynstrAt.val,
                              !.size = m.newDynstrSz]
  /\ shdrs' = MovedSection(shdrs, strtab.shdr, NewDynstrAt.val, NewDynstrVaddr,
                           m.newDynstrSz)
  /\ dirty' = dirty \cup DirtyByDynstr
  /\ UNCHANGED <<env, ehdr, phdrs, orig, m, sane>>

-----------------------------------------------------------------------------
(* The memcpy over the first DT_NULL, or over the first entry if there is  *)
(* none.  Nothing checks that the array is long enough.                    *)
FirstNull(entries) == Max({1, FirstOf(DynIndices(entries, "NULL"))})

CopyInArray(entries) == FirstNull(entries) + Len(Imports) - 1 <= Len(entries)

WithImports(entries) ==
  LET k == FirstNull(entries) IN
  [i \in 1 .. Len(entries) |->
     IF i \in k .. k + Len(Imports) - 1
     THEN [tag |-> "NEEDED", val |-> m.strOffs[i - k + 1]]
     ELSE entries[i]]

(* add_new_dynamic_entries when a free entry is used.                      *)
AddEntriesInPlace ==
  /\ pc = "addEntries" /\ ~m.move
  /\ pc' = "serialize"
  /\ dyn' = [dyn EXCEPT !.entries = WithImports(@)]
  /\ UNCHANGED <<env, ehdr, phdrs, shdrs, strtab, dirty, data, orig, m, sane>>

(* add_new_dynamic_entries with update_dyn_tbl_off, which takes address 0  *)
(* when no segment contains the table, and update_dyn_tbl_num.             *)
NewDynNum   == Len(dyn.entries) + Len(Imports)
NewDynOff   == phdrs[m.rw].offset
NewDynVaddr == VaddrFromOff(phdrs, NewDynOff, Len(dyn.entries) * DynEnt).val

DynMoveOk ==
  LET pt == phdrs[dyn.phdr] IN
  /\ MoveOk(size, pt.offset, pt.filesz, NewDynOff, m.newDynSz)
  /\ ResizeTableOk(phdrs, MovedSize(size, NewDynOff, m.newDynSz),
                   NewDynOff, DynEnt, Len(dyn.entries), NewDynNum, TRUE)

(* The assert of add_new_dynamic_entries.                                  *)
DynSizeAsPlanned == NewDynNum * DynEnt = m.newDynSz

AddEntriesMoved ==
  LET pt == phdrs[dyn.phdr] IN
  /\ pc = "addEntries" /\ m.move /\ pc' = "serialize"
  /\ DynSizeAsPlanned /\ DynMoveOk
  /\ buf' = MovedData(TRUE, buf, size, pt.offset, pt.filesz, NewDynOff, m.newDynSz)
  /\ size' = MovedSize(size, NewDynOff, m.newDynSz)
  /\ phdrs' = Moved(phdrs, dyn.phdr, NewDynOff, NewDynVaddr, NewDynNum * DynEnt)
  /\ shdrs' = MovedSection(shdrs, dyn.shdr, NewDynOff, NewDynVaddr, NewDynNum * DynEnt)
  /\ dyn' = [dyn EXCEPT !.entries = WithImports(Resized(@, NewDynNum, ZeroDyn))]
  /\ dirty' = dirty \cup {"phdrs"} \cup (IF dyn.shdr = 0 THEN {} ELSE {"shdrs"})
  /\ UNCHANGED <<env, ehdr, strtab, orig, m, sane>>

-----------------------------------------------------------------------------
(* serialize_elf.  A field too large for the class fails the write.        *)
SerializeOk ==
  /\ "ehdr" \in dirty => EhSize <= size /\ EhdrFits(ehdr)
  /\ "phdrs" \in dirty =>
        /\ InBounds(ehdr.phoff, Len(phdrs) * PhEnt, size)
        /\ \A i \in 1 .. Len(phdrs) : PhdrFits(phdrs[i])
  /\ "shdrs" \in dirty =>
        /\ InBounds(ehdr.shoff, Len(shdrs) * ShEnt, size)
        /\ \A i \in 1 .. Len(shdrs) : ShdrFits(shdrs[i])
  /\ "dyn" \in dirty =>
        /\ InBounds(phdrs[dyn.phdr].offset, Len(dyn.entries) * DynEnt, size)
        /\ \A i \in 1 .. Len(dyn.entries) : DynFits(dyn.entries[i])

WithEhdr(b)  == WriteTable(b, 0, EhSize, <<ehdr>>, EncodeEhdr)
WithPhdrs(b) == WriteTable(b, ehdr.phoff, PhEnt, phdrs, EncodePhdr)
WithShdrs(b) == WriteTable(b, ehdr.shoff, ShEnt, shdrs, EncodeShdr)
WithDyn(b)   ==
  WriteTable(b, phdrs[dyn.phdr].offset, DynEnt, dyn.entries, EncodeDyn)

Serialized ==
  LET b1 == IF "ehdr" \in dirty THEN WithEhdr(buf) ELSE buf
      b2 == IF "phdrs" \in dirty THEN WithPhdrs(b1) ELSE b1
      b3 == IF "shdrs" \in dirty THEN WithShdrs(b2) ELSE b2
  IN  IF "dyn" \in dirty THEN WithDyn(b3) ELSE b3

Serialize ==
  /\ pc = "serialize"
  /\ \/ /\ SerializeOk /\ pc' = "check"
        /\ buf' = Serialized /\ dirty' = {}
        /\ UNCHANGED <<env, ehdr, phdrs, shdrs, dyn, strtab, size, orig, m, sane>>
     \/ ~SerializeOk /\ Fail

-----------------------------------------------------------------------------
(* The second parse_elf, on a copy; when it fails, for want of memory or   *)
(* because of the data, the data is written out all the same.              *)
SanityCheck ==
  /\ pc = "check" /\ pc' = "open"
  /\ sane' \in {ParseElf(buf, size), FALSE}
  /\ UNCHANGED <<env, tabs, data, orig, m>>

(* write_file: fopen truncates, fwrite and fclose may each leave a prefix. *)
Patched == [size |-> size, buf |-> buf]

Partial == {EmptyFile} \cup {Prefix(Patched, n) : n \in {k \in Cuts : k < size}}

OpenOutput ==
  /\ pc = "open"
  /\ \/ /\ pc' = "write"
        /\ disk' = [disk EXCEPT ![argOut] = EmptyFile]
        /\ UNCHANGED <<exit, runs, argIn, argOut, src, tabs, data, orig, m, sane>>
     \/ Fail

WriteOutput ==
  /\ pc = "write"
  /\ \E f \in Partial \cup {Patched} :
       /\ disk' = [disk EXCEPT ![argOut] = f]
       /\ \/ /\ pc' = "close"
             /\ UNCHANGED <<exit, runs, argIn, argOut, src, tabs, data, orig, m, sane>>
          \/ f # Patched /\ Quit("failure")

CloseOutput_unchecked ==                \* mistaken: fclose is not looked at
  /\ pc = "close"
  /\ disk' \in {disk, [disk EXCEPT ![argOut] = Patched]}
  /\ Quit(IF sane THEN "success" ELSE "failure")

CloseOutput ==
  /\ pc = "close"
  /\ \/ /\ disk' = [disk EXCEPT ![argOut] = Patched]
        /\ Quit(IF sane THEN "success" ELSE "failure")
     \/ Fail

-----------------------------------------------------------------------------
(* A call that returns an error: every one of these allocates memory and  *)
(* may be refused it, so it can fail whether or not its own checks pass.   *)
(* They run before anything is written.                                    *)
CallFails ==
  /\ pc \in {"read", "prepare", "appendRo", "appendRw", "movePhdrs", "moveDynstr"}
     \/ (pc = "addEntries" /\ m.move)
  /\ Fail

(* align_pow2 and the assert of add_new_dynamic_entries abort.             *)
MustAbort ==
  \/ /\ pc = "appendRo" /\ RoContent <= MaxU /\ UpdatePhnumOk(Len(phdrs) + 1)
     /\ ~SegmentAligns(RoContent)
  \/ /\ pc = "appendRw" /\ UpdatePhnumOk(Len(phdrs) + 1)
     /\ ~SegmentAligns(RwContent)
  \/ pc = "addEntries" /\ m.move /\ ~DynSizeAsPlanned

Aborts == MustAbort /\ Quit("aborted") /\ UNCHANGED disk

Kill == pc # "idle" /\ Quit("killed") /\ UNCHANGED disk

Next ==
  \/ Start \/ ReadElf \/ PrepareSizes \/ AppendRo \/ AppendRw
  \/ MovePhdrs \/ MoveDynstr \/ AddEntriesInPlace \/ AddEntriesMoved
  \/ Serialize \/ SanityCheck \/ OpenOutput \/ WriteOutput \/ CloseOutput
  \/ CallFails \/ Aborts \/ Kill

Spec == Init /\ [][Next]_vars

=============================================================================
