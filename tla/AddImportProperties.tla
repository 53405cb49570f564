------------------------ MODULE AddImportProperties ------------------------
(***************************************************************************)
(* What must be true of elf-add-import.                                    *)
(***************************************************************************)
EXTENDS AddImport

(* The variables hold values of the C types.                               *)
TypeOK ==
  /\ pc \in {"idle", "read", "prepare", "appendRo", "appendRw", "movePhdrs",
             "moveDynstr", "addEntries", "serialize", "check", "open", "write", "close"}
  /\ exit \in {"none", "success", "failure", "aborted", "killed"}
  /\ runs \in 0 .. MaxRuns
  /\ argIn \in Paths /\ argOut \in Paths
  /\ DOMAIN disk = Paths
  /\ \A p \in Paths : disk[p] # Missing => IsFile(disk[p])
  /\ IsFile(src)
  /\ ehdr \in Ehdr /\ phdrs \in Seq(Phdr) /\ shdrs \in Seq(Shdr)
  /\ dyn \in Dynamic /\ dyn.phdr <= Len(phdrs) /\ dyn.shdr <= Len(shdrs)
  /\ strtab \in Strtab /\ strtab.shdr <= Len(shdrs)
  /\ dirty \subseteq {"ehdr", "phdrs", "shdrs", "dyn"}
  /\ size \in U64 /\ buf \in File(size)
  /\ orig \in Origin
  /\ m \in Mods /\ m.ro <= Len(phdrs) /\ m.rw <= Len(phdrs)
  /\ sane \in BOOLEAN

-----------------------------------------------------------------------------
(* The ranges <<start, length>> of the structures of a file.               *)
EhdrRange   == <<0, EhSize>>
PhdrsRange(b) == <<EhdrOf(b).phoff, PhnumOf(b) * PhEnt>>
ShdrsRange(b) == <<EhdrOf(b).shoff, ShnumOf(b) * ShEnt>>
DynRange(b)   == <<PhdrsOf(b)[PtDynamic(b)].offset, PhdrsOf(b)[PtDynamic(b)].filesz>>
StrtabRange(b) == <<StrtabOf(b).off, StrtabOf(b).size>>

Within(i, r) == r[1] <= i /\ i < r[1] + r[2]

Apart(r, s) == r[1] + r[2] <= s[1] \/ s[1] + s[2] <= r[1] \/ r[2] = 0 \/ s[2] = 0

Rewritten(b) == {EhdrRange, PhdrsRange(b), ShdrsRange(b), DynRange(b), StrtabRange(b)}

(* What the parser reads but the program never rewrites.                   *)
OnlyRead(b) ==
  {<<PhdrsOf(b)[i].offset, PhdrsOf(b)[i].filesz>> : i \in IndicesOf(PhdrsOf(b), "INTERP")}
  \cup (IF ShnumOf(b) = 0 \/ ShstrndxOf(b) = 0 THEN {}
        ELSE LET s == ShdrsOf(b)[ShstrndxOf(b) + 1] IN {<<s.offset, s.size>>})

(* The files link editors produce: no two structures share bytes, and the  *)
(* allocated sections lie in the memory of the segments.                   *)
Tidy(b) ==
  /\ \A r, s \in Rewritten(b) : r = s \/ Apart(r, s)
  /\ Cardinality(Rewritten(b)) = 5
  /\ \A r \in Rewritten(b), s \in OnlyRead(b) : Apart(r, s)
  /\ \A i \in 1 .. ShnumOf(b) :
        LET s == ShdrsOf(b)[i] IN s.alloc => s.addr + s.size <= MaxLoadVaddr(PhdrsOf(b))

Loaded == pc \notin {"idle", "read"}

(* Not one byte of the input outside the structures that the program moves *)
(* or rewrites is touched, for any file the parser accepts: the cleaning   *)
(* of old locations and the writes of serialize_elf stay within the old    *)
(* tables and the space after the old end of file.                         *)
ForeignBytesKept ==
  Loaded => /\ size >= src.size
            /\ \A i \in 0 .. src.size - 1 :
                  (\A r \in Rewritten(src.buf) : ~Within(i, r)) => buf[i] = src.buf[i]

(* The appended segments: their pages are nobody else's, they lie after    *)
(* the old file contents and after each other, and a loader can map them.  *)
Pages(p, al) == (p.vaddr \div al) .. ((p.vaddr + p.memsz - 1) \div al)

SegmentsApart ==
  \A i \in {m.ro, m.rw} \ {0} :
     /\ phdrs[i].offset >= src.size
     /\ phdrs[i].filesz <= phdrs[i].memsz
     /\ (phdrs[i].vaddr - phdrs[i].offset) % phdrs[i].align = 0
     /\ \A j \in IndicesOf(phdrs, "LOAD") \ {i} :
           /\ Pages(phdrs[i], phdrs[i].align) \cap Pages(phdrs[j], phdrs[i].align) = {}
           /\ Apart(<<phdrs[i].offset, phdrs[i].filesz>>,
                    <<phdrs[j].offset, phdrs[j].filesz>>)

(* Once the segments are appended, what prepare_modifications planned fits *)
(* where perform_modifications puts it: no call fails a check of its own,  *)
(* the assert holds, the dynamic table's address is found, and the memcpy  *)
(* of the new entries, which no code bounds, stays in the array.           *)
PlanHolds ==
  /\ pc = "movePhdrs" => PhdrsMoveOk
  /\ pc = "moveDynstr" => DynstrMoveOk
  /\ pc = "addEntries" =>
        IF m.move
        THEN /\ DynSizeAsPlanned /\ DynMoveOk
             /\ VaddrFromOff(phdrs, NewDynOff, Len(dyn.entries) * DynEnt).ok
             /\ CopyInArray(Resized(dyn.entries, NewDynNum, ZeroDyn))
        ELSE CopyInArray(dyn.entries)

(* A segment that the class of the file can hold up to its last byte.      *)
Holdable(s) ==
  PhdrFits(s) /\ s.offset + s.filesz <= MaxField /\ s.vaddr + s.filesz <= MaxField

(* There is room for every table that serialize_elf writes.  The only      *)
(* other thing its write functions check is the width of a value, and that *)
(* check fails for no file of the 64-bit class, and in the 32-bit class    *)
(* only when an appended segment ends past what the class can address.     *)
OnlyWidthsRefused ==
  pc = "serialize" /\ ~SerializeOk =>
     /\ MaxField < MaxU
     /\ \E i \in {m.ro, m.rw} \ {0} : ~Holdable(phdrs[i])

(* The serialized data says what the structures in memory say: no changed  *)
(* table was left unmarked, and none was written over another.             *)
DataInSync ==
  pc \in {"check", "open", "write", "close"} /\ Tidy(src.buf) =>
     /\ ReadableEhdr(buf, size) /\ EhdrOf(buf) = ehdr
     /\ ValidShdrTable(buf, size) /\ ShdrsOf(buf) = shdrs
     /\ ValidPhdrTable(buf, size) /\ PhdrsOf(buf) = phdrs
     /\ ValidDynTable(buf) /\ DynEntriesOf(buf) = dyn.entries
     /\ StrtabOf(buf) = strtab

(* A tidy input is never turned into a file that the parser refuses.       *)
TidyOutputParses ==
  pc \in {"check", "open", "write", "close"} /\ Tidy(src.buf) => ParseElf(buf, size)

(* ld.so writes to the dynamic table (DT_DEBUG): if it could before, it    *)
(* still can.                                                              *)
InWritable(b) ==
  LET phs == PhdrsOf(b) IN
  phs[ContainingMemPtload(phs, phs[PtDynamic(b)].vaddr, phs[PtDynamic(b)].memsz)].write

DynamicStaysWritable ==
  pc \in {"open", "write", "close"} /\ sane /\ InWritable(src.buf) => InWritable(buf)

(* The string at offset v of a string table, up to its terminator.         *)
StringAt(b, t, v) ==
  LET n == Min({k \in 0 .. t.size - v : v + k >= t.size \/ b[t.off + v + k] = Zero})
  IN  [k \in 0 .. n - 1 |-> b[t.off + v + k]]

ImportString(i) == [k \in 0 .. NameLen[Imports[i]] - 1 |-> <<"chr", Imports[i], k>>]

(* What a run that ends well has done: the output is the input with one    *)
(* more DT_NEEDED entry per import, naming it, before the terminator; the  *)
(* old entries are there, in order, and name what they named.              *)
ImportsAdded(old, new) ==
  LET es == DynEntriesOf(old)
      fs == DynEntriesOf(new)
      k  == FirstNull(es)
  IN  /\ \A i \in 1 .. k - 1 :
           /\ fs[i].tag = es[i].tag
           /\ es[i].tag = "OTHER" => fs[i] = es[i]
           /\ es[i].tag = "NEEDED" /\ es[i].val < StrtabOf(old).size =>
                 StringAt(new, StrtabOf(new), fs[i].val)
                   = StringAt(old, StrtabOf(old), es[i].val)
      /\ \A i \in 1 .. Len(Imports) :
           /\ fs[k + i - 1].tag = "NEEDED"
           /\ StringAt(new, StrtabOf(new), fs[k + i - 1].val) = ImportString(i)
      /\ fs[k + Len(Imports)].tag = "NULL"

SuccessMeansImported ==
  exit = "success" /\ Tidy(src.buf) =>
     /\ ParseElf(disk[argOut].buf, disk[argOut].size)
     /\ ImportsAdded(src.buf, disk[argOut].buf)

(* parse_shdr_tbl_data_from_ehdr reads the number of sections from the     *)
(* first section header when e_shnum is 0, for files with SHN_LORESERVE    *)
(* sections or more; read_validate_ehdr says that such files are its       *)
(* business.  So a header whose only peculiarity this is should pass.      *)
ManySectionsAccepted ==
  pc = "read" /\ disk[argIn] # Missing =>
    LET b == disk[argIn].buf
        n == disk[argIn].size
    IN  /\ ReadableEhdr(b, n)
        /\ EhdrOf(b).shnum = 0 /\ EhdrOf(b).shentsize = ShEnt
        /\ ShnumOf(b) >= SHN_LORESERVE
        /\ ValidShdrs(b, n) /\ ValidPhdrs(b, n) /\ ValidDynamic(b)
        => ValidEhdr(EhdrOf(b))

(* A file cut short by a failed write or a kill is never taken for an ELF  *)
(* file, so the next run on it is refused: the appended segments lie at    *)
(* the very end, and the parser checks that segments are in the file.      *)
TruncatedIsRefused ==
  pc = "write" => \A n \in 1 .. size - 1 : ~ParseElf(Prefix(Patched, n).buf, n)

=============================================================================
