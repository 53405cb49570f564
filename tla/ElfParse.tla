------------------------------ MODULE ElfParse ------------------------------
(***************************************************************************)
(* parse_elf: which files the program accepts, and the structures it reads *)
(* from an accepted file.  `ParseElf(b, n)` is the verdict on the n bytes  *)
(* b; the operators whose names end in Of give what the parser stores in   *)
(* struct elf, and are meaningful for accepted files.                      *)
(*                                                                         *)
(* Covered: the ELF header, the section header table with .shstrtab, the   *)
(* program header table, the dynamic table and .dynstr.  The symbol table, *)
(* its hash tables and the version tables are parsed by code this module   *)
(* does not model; they read bytes that no patch moves.                    *)
(***************************************************************************)
EXTENDS PtLoad

EhdrOf(b) == Decode("ehdr", <<>>, b, 0)

(* read_validate_ehdr.                                                     *)
ValidEhdr(e) ==
  /\ e.phoff # 0
  /\ e.phentsize = PhEnt
  /\ e.phnum >= PN_XNUM => e.shoff # 0
  /\ e.shentsize = IF e.shnum = 0 THEN 0 ELSE ShEnt
  /\ e.shnum < SHN_LORESERVE
  /\ e.shnum # 0 => e.shstrndx < e.shnum
  /\ e.shoff = 0 => e.shstrndx = 0
  /\ e.shstrndx < SHN_LORESERVE \/ e.shstrndx = SHN_XINDEX

ReadableEhdr(b, n) ==
  /\ EhSize <= n
  /\ b[0][1] = "ehdr"
  /\ \A k \in 0 .. EhSize - 1 : b[k] = EncodeEhdr(EhdrOf(b), k)

-----------------------------------------------------------------------------
(* parse_shdr_tbl_data_from_ehdr: the number of section headers and the    *)
(* index of .shstrtab, with the escapes through the first section header.  *)
NoShdrs(e) == e.shoff = 0 \/ e.shentsize = 0

FirstShdr(b) == Decode("shdr", ZeroShdr, b, EhdrOf(b).shoff)

ShnumOf(b) == LET e == EhdrOf(b) IN
  IF NoShdrs(e) THEN 0
  ELSE IF e.shnum # 0 THEN e.shnum ELSE FirstShdr(b).size

ShstrndxOf(b) == LET e == EhdrOf(b) IN
  IF NoShdrs(e) THEN 0
  ELSE IF e.shstrndx < SHN_XINDEX THEN e.shstrndx ELSE FirstShdr(b).link

ShdrsOf(b) ==
  DecodeTable("shdr", ZeroShdr, ShEnt, b, EhdrOf(b).shoff, ShnumOf(b))

ValidShdrTable(b, n) ==
  LET e == EhdrOf(b) IN
  NoShdrs(e) \/ /\ InBounds(e.shoff, ShEnt, n)
                /\ Readable("shdr", ZeroShdr, ShEnt, b, e.shoff)
                /\ ShnumOf(b) = 0 => ShstrndxOf(b) = 0
                /\ ShnumOf(b) < MaxU \div ShEnt
                /\ InBounds(e.shoff, ShnumOf(b) * ShEnt, n)
                /\ ReadableTable("shdr", ZeroShdr, ShEnt, b, e.shoff, ShnumOf(b))

(* read_validate_shstrtab_shdr.                                            *)
ValidShstrtab(b, n, s) ==
  /\ s.type = "STRTAB"
  /\ s.offset < n
  /\ s.size <= n - s.offset
  /\ s.size >= 1
  /\ b[s.offset] = Zero
  /\ b[s.offset + s.size - 1] = Zero

(* validate_shdr and the duplicate check of read_validate_shdrs.           *)
ValidShdr(n, s) ==
  /\ s.type # "NOBITS" => s.offset <= n /\ s.size <= n - s.offset
  /\ s.addr <= MaxU - s.size

ValidShdrs(b, n) ==
  LET shs == ShdrsOf(b) IN
  /\ ValidShdrTable(b, n)
  /\ ShnumOf(b) # 0 /\ ShstrndxOf(b) # 0 =>
        /\ ShstrndxOf(b) < ShnumOf(b)
        /\ ValidShstrtab(b, n, shs[ShstrndxOf(b) + 1])
  /\ \A i \in 1 .. Len(shs) : ValidShdr(n, shs[i])
  /\ \A i, j \in 1 .. Len(shs) :
        shs[i].type = "DYNAMIC" /\ shs[j].type = "DYNAMIC" => i = j

-----------------------------------------------------------------------------
(* parse_phdr_tbl_data_from_ehdr.  With e_phnum = 0 the C function reports *)
(* success and an empty table.                                             *)
PhnumOf(b) == LET e == EhdrOf(b) IN
  IF e.phnum >= PN_XNUM THEN FirstShdr(b).info ELSE e.phnum

PhdrsOf(b) ==
  DecodeTable("phdr", ZeroPhdr, PhEnt, b, EhdrOf(b).phoff, PhnumOf(b))

ValidPhdrTable(b, n) ==
  LET e == EhdrOf(b) IN
  e.phnum = 0 \/ /\ e.phnum >= PN_XNUM => ShnumOf(b) # 0
                 /\ PhnumOf(b) < MaxU \div PhEnt
                 /\ InBounds(e.phoff, PhnumOf(b) * PhEnt, n)
                 /\ PhnumOf(b) # 0
                 /\ ReadableTable("phdr", ZeroPhdr, PhEnt, b, e.phoff, PhnumOf(b))

(* validate_phdr_generic.                                                  *)
ValidPhdrExtent(n, p) ==
  /\ p.offset < n
  /\ p.filesz <= n - p.offset
  /\ p.vaddr <= MaxU - p.memsz

(* validate_pt_load_phdr: ascending, file part within the memory part,     *)
(* offset and address congruent modulo the alignment.                      *)
ValidLoad(phs, i) ==
  /\ \A j \in 1 .. i - 1 : phs[j].type = "LOAD" => phs[j].vaddr <= phs[i].vaddr
  /\ phs[i].filesz <= phs[i].memsz
  /\ phs[i].align > 1 =>
        /\ IsPow2(phs[i].align)
        /\ (phs[i].vaddr - phs[i].offset) % phs[i].align = 0

NoLoadBefore(phs, i) == \A j \in 1 .. i - 1 : phs[j].type # "LOAD"

(* validate_pt_interp_phdr, validate_pt_phdr_phdr.                         *)
ValidInterp(b, phs, i) ==
  /\ NoLoadBefore(phs, i)
  /\ phs[i].filesz >= 1
  /\ b[phs[i].offset + phs[i].filesz - 1] = Zero

ValidPtPhdr(e, phs, i) ==
  /\ NoLoadBefore(phs, i)
  /\ phs[i].offset = e.phoff
  /\ phs[i].filesz = Len(phs) * PhEnt

InSomeLoad(phs, p) == ContainingMemPtload(phs, p.vaddr, p.memsz) # 0

(* read_validate_phdrs.                                                    *)
ValidPhdrs(b, n) ==
  LET phs == PhdrsOf(b) IN
  /\ ValidPhdrTable(b, n)
  /\ \A i \in 1 .. Len(phs) :
        /\ ValidPhdrExtent(n, phs[i])
        /\ phs[i].type = "LOAD" => ValidLoad(phs, i)
        /\ phs[i].type = "INTERP" => ValidInterp(b, phs, i)
        /\ phs[i].type = "PHDR" => ValidPtPhdr(EhdrOf(b), phs, i)
        /\ phs[i].type \in {"PHDR", "DYNAMIC"} => InSomeLoad(phs, phs[i])
  /\ \A t \in {"PHDR", "INTERP", "DYNAMIC"} : ~DuplicatePhdr(phs, t)

-----------------------------------------------------------------------------
(* find_validate_pt_dynamic.                                               *)
PtDynamic(b) == UniquePhdr(PhdrsOf(b), "DYNAMIC")

ValidPtDynamic(phs, d) ==
  /\ d # 0
  /\ OffFromVaddr(phs, phs[d].vaddr, phs[d].filesz)
       = [ok |-> TRUE, val |-> phs[d].offset]
  /\ phs[d].filesz % DynEnt = 0

(* validate_sht_dynamic_if_exists.                                         *)
ShtDynamic(shs) == FirstOf({i \in 1 .. Len(shs) : shs[i].type = "DYNAMIC"})

ValidShtDynamic(shs, pt) ==
  LET i == ShtDynamic(shs) IN
  i # 0 => /\ shs[i].offset = pt.offset
           /\ shs[i].size = pt.filesz
           /\ shs[i].addr = pt.vaddr

(* parse_dyn_table: entries after the first DT_NULL read as zero.          *)
UpToNull(raw) ==
  [i \in 1 .. Len(raw) |->
     IF \E j \in 1 .. i - 1 : raw[j].tag = "NULL" THEN ZeroDyn ELSE raw[i]]

DynTableAt(b, pt) ==
  DecodeTable("dyn", ZeroDyn, DynEnt, b, pt.offset, pt.filesz \div DynEnt)

DynEntriesOf(b) == UpToNull(DynTableAt(b, PhdrsOf(b)[PtDynamic(b)]))

ValidDynTable(b) ==
  LET pt  == PhdrsOf(b)[PtDynamic(b)]
      num == pt.filesz \div DynEnt
  IN  \E last \in 1 .. num :
         /\ ReadableTable("dyn", ZeroDyn, DynEnt, b, pt.offset, last)
         /\ Decode("dyn", ZeroDyn, b, pt.offset + (last - 1) * DynEnt).tag = "NULL"

(* parse_dynstr and find_validate_strtab_shdr.                             *)
DynVal(entries, tag) == entries[DynIndex(entries, tag)].val

StrtabSections(shs, addr, off, size) ==
  {i \in 1 .. Len(shs) :
     \/ shs[i].alloc /\ RangesOverlap(shs[i].addr, shs[i].size, addr, size)
     \/ /\ shs[i].type # "NOBITS"
        /\ RangesOverlap(shs[i].offset, shs[i].size, off, size)}

StrtabAt(phs, shs, addr, size) ==
  LET off == OffFromVaddr(phs, addr, size).val
  IN  [vaddr |-> addr, off |-> off, size |-> size,
       shdr |-> FirstOf(StrtabSections(shs, addr, off, size))]

StrtabOf(b) == StrtabAt(PhdrsOf(b), ShdrsOf(b), DynVal(DynEntriesOf(b), "STRTAB"),
                        DynVal(DynEntriesOf(b), "STRSZ"))

ValidStrtabAt(b, phs, shs, s) ==
  /\ s.size # 0
  /\ OffFromVaddr(phs, s.vaddr, s.size).ok
  /\ b[s.off] = Zero
  /\ b[s.off + s.size - 1] = Zero
  /\ \A i \in StrtabSections(shs, s.vaddr, s.off, s.size) :
        /\ i = s.shdr
        /\ shs[i].type = "STRTAB"
        /\ shs[i].offset = s.off
        /\ shs[i].addr = s.vaddr
        /\ shs[i].size = s.size
  /\ ShtDynamic(shs) # 0 => s.shdr # 0 /\ shs[ShtDynamic(shs)].link = s.shdr - 1

ValidStrtab(b) == ValidStrtabAt(b, PhdrsOf(b), ShdrsOf(b), StrtabOf(b))

(* parse_dyn, up to the dynamic string table.                              *)
ValidDynamic(b) ==
  /\ ValidPtDynamic(PhdrsOf(b), PtDynamic(b))
  /\ ValidShtDynamic(ShdrsOf(b), PhdrsOf(b)[PtDynamic(b)])
  /\ ValidDynTable(b)
  /\ HasUniqueDyn(DynEntriesOf(b), "STRTAB")
  /\ HasUniqueDyn(DynEntriesOf(b), "STRSZ")
  /\ ValidStrtab(b)

(* parse_elf.                                                              *)
ParseElf(b, n) ==
  /\ ReadableEhdr(b, n)
  /\ ValidEhdr(EhdrOf(b))
  /\ ValidShdrs(b, n)
  /\ ValidPhdrs(b, n)
  /\ ValidDynamic(b)

=============================================================================
