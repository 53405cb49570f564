------------------------------ MODULE Updates -------------------------------
(***************************************************************************)
(* The update helpers of elf-patching.h under a client that calls them in  *)
(* any order, and serialize_elf in between.  What they keep consistent are *)
(* the copies of one fact: a table's length is in its array, its size, the *)
(* ELF header and perhaps the first section header, its place in a header, *)
(* a section, a dynamic entry and the struct elf.                          *)
(*                                                                         *)
(* There are no bytes here.  Instead stale holds the structures that have  *)
(* changed since they were last written to the data.  A call that refuses  *)
(* its parameters and changes nothing is a stuttering step.                *)
(***************************************************************************)
EXTENDS PtLoad

CONSTANTS Parsed,      \* what parse_elf may have returned
          SymEnt,      \* sizeof(ElfXX_Sym)
          Counts,      \* lengths a client gives tables
          Offsets,     \* offsets, and addresses, it gives them
          Segments,    \* program headers it adds
          Indices,     \* sections it names .shstrtab
          DataSize,    \* the size it grows the data to
          MaxCalls     \* bounds the updates

(* The members of struct elf, fixed-width integers as such.                *)
ElfStruct ==
  [ehdr : [phoff : U64, phentsize : U64, phnum : U64,
           shoff : U64, shentsize : U64, shnum : U64, shstrndx : Nat],
   phdrs : [arr : Seq(Phdr), size : U64],
   shdrs : [arr : Seq(Shdr), size : U64],
   shstrndx : U64,
   entries : [arr : Seq(Dyn), size : U64, phdr : Nat, shdr : Nat],
   strtab : [vaddr : U64, off : U64, size : U64, shdr : Nat],
   symtab : [vaddr : U64, off : U64, size : U64, nsyms : U64, shdr : Nat, dyn : Nat],
   size : U64]

(* read_validate_phdrs: each segment lies in the file.                     *)
LoadsInFile(phs, n) ==
  \A i \in IndicesOf(phs, "LOAD") : phs[i].offset + phs[i].filesz <= n

(* An index to a section is ELF_IDX_NULL or was found by the type.         *)
SectionOf(p, i, type) ==
  i = 0 \/ (i \in 1 .. Len(p.shdrs.arr) /\ p.shdrs.arr[i].type = type)

(* Counts and indices were read from the ELF header, or, past the escape   *)
(* value, from the first section header.                                   *)
CountsParsed(p) ==
  /\ Len(p.phdrs.arr) =
       IF p.ehdr.phnum >= PN_XNUM THEN p.shdrs.arr[1].info ELSE p.ehdr.phnum
  /\ p.shdrs.arr # <<>> =>
       /\ Len(p.shdrs.arr) =
            IF p.ehdr.shnum # 0 THEN p.ehdr.shnum ELSE p.shdrs.arr[1].size
       /\ p.shstrndx =
            IF p.ehdr.shstrndx < SHN_XINDEX THEN p.ehdr.shstrndx ELSE p.shdrs.arr[1].link
       /\ p.shstrndx < Len(p.shdrs.arr)

(* What parse_elf has checked when it returns, as far as the helpers rely  *)
(* on it: each table lies in the file, as do the segments, and each index  *)
(* leads to the entry or header of the type it was found by.               *)
IsParsed(p) ==
  /\ p \in ElfStruct
  /\ p.phdrs.size = Len(p.phdrs.arr) * PhEnt
  /\ p.shdrs.size = Len(p.shdrs.arr) * ShEnt
  /\ p.entries.size = Len(p.entries.arr) * DynEnt
  /\ CountsParsed(p)
  /\ p.entries.phdr \in IndicesOf(p.phdrs.arr, "DYNAMIC")
  /\ InBounds(p.ehdr.phoff, p.phdrs.size, p.size)
  /\ p.shdrs.arr # <<>> => InBounds(p.ehdr.shoff, p.shdrs.size, p.size)
  /\ InBounds(p.phdrs.arr[p.entries.phdr].offset, p.entries.size, p.size)
  /\ LoadsInFile(p.phdrs.arr, p.size)
  /\ SectionOf(p, p.entries.shdr, "DYNAMIC")
  /\ SectionOf(p, p.strtab.shdr, "STRTAB")
  /\ SectionOf(p, p.symtab.shdr, "OTHER")
  /\ HasUniqueDyn(p.entries.arr, "STRTAB") /\ HasUniqueDyn(p.entries.arr, "STRSZ")
  /\ p.symtab.nsyms # 0 =>
       p.symtab.dyn \in DynIndices(p.entries.arr, "OTHER")

ASSUME ParsedAssumption == \A p \in Parsed : IsParsed(p)

(* append_new_ptload_segment, the only way to add a segment, adds PT_LOADs. *)
ASSUME ClientAssumption ==
  /\ SymEnt \in Nat \ {0} /\ MaxCalls \in Nat
  /\ Counts \subseteq U64 /\ Offsets \subseteq U64 /\ Indices \subseteq U64 /\ DataSize \in U64
  /\ Segments \subseteq {s \in Phdr : s.type = "LOAD"}

VARIABLES pc,         \* "ready", or "failed": the client gives up
          ehdr,
          phdrs,      \* the array and the member size
          shdrs,
          shstrndx,
          entries,    \* the array, size, and the indices of its two headers
          strtab,     \* vaddr, off, size and the index of its section
          symtab,     \* the same, with nsyms and the index of DT_SYMTAB
          size,       \* data.size
          dirty,      \* the dirty flags that are set
          stale,
          calls       \* number of updates so far

elf == <<ehdr, phdrs, shdrs, shstrndx, entries, strtab, symtab, size, dirty>>
vars == <<pc, elf, stale, calls>>

Init ==
  /\ \E p \in Parsed :
       /\ ehdr = p.ehdr /\ phdrs = p.phdrs /\ shdrs = p.shdrs /\ shstrndx = p.shstrndx
       /\ entries = p.entries /\ strtab = p.strtab /\ symtab = p.symtab /\ size = p.size
  /\ pc = "ready" /\ dirty = {} /\ stale = {} /\ calls = 0

PtPhdr == UniquePhdr(phdrs.arr, "PHDR")
DynamicPhdr == phdrs.arr[entries.phdr]

(* Entries of a table a client does not drop: it refers to them.           *)
Dispensable(arr, n, zero) == \A i \in n + 1 .. Len(arr) : arr[i] = zero

-----------------------------------------------------------------------------
(* update_phnum.  Only a file with PT_PHDR has the new table checked       *)
(* against the segments.                                                   *)
PhnumFits(n) ==
  /\ ResizeTableOk(phdrs.arr, size, ehdr.phoff, PhEnt, Len(phdrs.arr), n, PtPhdr # 0)
  /\ n >= PN_XNUM => shdrs.arr # <<>> /\ n <= MaxWord

Sized(phs, i, n) ==
  IF i = 0 THEN phs ELSE [phs EXCEPT ![i].filesz = n, ![i].memsz = n]

PhnumInHeader(n) == IF n < PN_XNUM THEN n ELSE PN_XNUM

PhnumInSection_kept(n) == shdrs               \* mistaken: sh_info stays

PhnumInSection(n) == IF n < PN_XNUM THEN shdrs ELSE [shdrs EXCEPT !.arr[1].info = n]

UpdatePhnum(n) ==
  /\ n # 0 /\ Dispensable(phdrs.arr, n, ZeroPhdr) /\ PhnumFits(n)
  /\ ehdr' = [ehdr EXCEPT !.phnum = PhnumInHeader(n)]
  /\ shdrs' = PhnumInSection(n)
  /\ phdrs' = [arr |-> Sized(Resized(phdrs.arr, n, ZeroPhdr), PtPhdr, n * PhEnt),
               size |-> n * PhEnt]
  /\ dirty' = dirty \cup {"ehdr", "phdrs"} \cup (IF n < PN_XNUM THEN {} ELSE {"shdrs"})
  /\ UNCHANGED <<pc, shstrndx, entries, strtab, symtab, size>>

(* The err labels of update_phnum and update_shnum.                        *)
PhnumFails(n) ==
  /\ n # 0 /\ ~ PhnumFits(n) /\ pc' = "failed"
  /\ phdrs' = [arr |-> <<>>, size |-> 0] /\ dirty' = dirty \ {"ehdr", "phdrs"}
  /\ UNCHANGED <<ehdr, shdrs, shstrndx, entries, strtab, symtab, size>>

ShnumFits(n) ==
  ResizeTableOk(phdrs.arr, size, ehdr.shoff, ShEnt, Len(shdrs.arr), n, FALSE)

ShnumFails(n) ==
  /\ n # 0 /\ ~ ShnumFits(n) /\ pc' = "failed"
  /\ shdrs' = [arr |-> <<>>, size |-> 0] /\ dirty' = dirty \ {"shdrs"}
  /\ UNCHANGED <<ehdr, phdrs, shstrndx, entries, strtab, symtab, size>>

(* A client of append_new_ptload_segment fills the entry it has added: as  *)
(* main does, with a segment that may reach behind the data.               *)
FillPhdr(s) ==
  /\ phdrs.arr[Len(phdrs.arr)] = ZeroPhdr
  /\ phdrs' = [phdrs EXCEPT !.arr[Len(phdrs.arr)] = s]
  /\ dirty' = dirty \cup {"phdrs"}
  /\ UNCHANGED <<pc, ehdr, shdrs, shstrndx, entries, strtab, symtab, size>>

(* update_phoff.                                                           *)
PhoffFits_mapped(off) ==                      \* mistaken: leaves out the data
  PtPhdr # 0 => VaddrFromOff(phdrs.arr, off, phdrs.size).ok

PhoffFits(off) ==
  /\ off <= size /\ phdrs.size <= size - off
  /\ PtPhdr # 0 => VaddrFromOff(phdrs.arr, off, phdrs.size).ok

PlacedPhdr(off) ==
  LET va == VaddrFromOff(phdrs.arr, off, phdrs.size).val
  IN  IF PtPhdr = 0 THEN phdrs
      ELSE [phdrs EXCEPT !.arr[PtPhdr].offset = off, !.arr[PtPhdr].vaddr = va,
                         !.arr[PtPhdr].filesz = phdrs.size,
                         !.arr[PtPhdr].memsz = phdrs.size]

UpdatePhoff(off) ==
  /\ PhoffFits(off)
  /\ ehdr' = [ehdr EXCEPT !.phoff = off]
  /\ phdrs' = PlacedPhdr(off)
  /\ dirty' = dirty \cup {"ehdr", "phdrs"}
  /\ UNCHANGED <<pc, shdrs, shstrndx, entries, strtab, symtab, size>>

-----------------------------------------------------------------------------
(* update_shnum, for a file that has sections.                             *)
UpdateShnum(n) ==
  /\ n # 0 /\ Dispensable(shdrs.arr, n, ZeroShdr) /\ shstrndx < n /\ ShnumFits(n)
  /\ LET grown == Resized(shdrs.arr, n, ZeroShdr) IN
       IF n < SHN_LORESERVE
       THEN ehdr' = [ehdr EXCEPT !.shnum = n] /\ shdrs' = [arr |-> grown, size |-> n * ShEnt]
       ELSE /\ ehdr' = [ehdr EXCEPT !.shnum = 0]
            /\ shdrs' = [arr |-> [grown EXCEPT ![1].size = n], size |-> n * ShEnt]
  /\ dirty' = dirty \cup {"ehdr", "shdrs"}
  /\ UNCHANGED <<pc, phdrs, shstrndx, entries, strtab, symtab, size>>

(* update_shoff.                                                           *)
UpdateShoff(off) ==
  /\ shdrs.size <= size /\ off <= size - shdrs.size
  /\ ehdr' = [ehdr EXCEPT !.shoff = off]
  /\ dirty' = dirty \cup {"ehdr", "shdrs"}
  /\ UNCHANGED <<pc, phdrs, shdrs, shstrndx, entries, strtab, symtab, size>>

(* update_shstrndx: the section header holds an index the header cannot.   *)
Relinked(i) ==
  IF shdrs.arr = <<>> THEN shdrs
  ELSE [shdrs EXCEPT !.arr[1].link = IF i < SHN_LORESERVE THEN 0 ELSE i]

DirtyByShstrndx_header(i) == {"ehdr"} \* mistaken: forgets the section header

DirtyByShstrndx(i) ==
  {"ehdr"} \cup IF i >= SHN_LORESERVE \/ shdrs # Relinked(i) THEN {"shdrs"} ELSE {}

UpdateShstrndx(i) ==
  /\ i >= SHN_LORESERVE => shdrs.arr # <<>>
  /\ shstrndx' = i /\ shdrs' = Relinked(i)
  /\ ehdr' = [ehdr EXCEPT !.shstrndx = IF i < SHN_LORESERVE THEN i ELSE SHN_XINDEX]
  /\ dirty' = dirty \cup DirtyByShstrndx(i)
  /\ UNCHANGED <<pc, phdrs, entries, strtab, symtab, size>>

-----------------------------------------------------------------------------
(* A header or section that describes a table at off, of len cells.        *)
Section(i, off, vaddr) ==
  IF i = 0 THEN shdrs
  ELSE [shdrs EXCEPT !.arr[i].offset = off, !.arr[i].addr = vaddr]

SectionSize(i, len) == IF i = 0 THEN shdrs ELSE [shdrs EXCEPT !.arr[i].size = len]

DirtySection(i) == IF i = 0 THEN {} ELSE {"shdrs"}

(* update_dynstr_range.                                                    *)
DynstrAt(addr, len) == OffFromVaddr(phdrs.arr, addr, len)

StrtabSection_unsized(at, addr, len) ==       \* mistaken: sh_size stays
  Section(strtab.shdr, at, addr)

StrtabSection(at, addr, len) ==
  IF strtab.shdr = 0 THEN shdrs
  ELSE [Section(strtab.shdr, at, addr) EXCEPT !.arr[strtab.shdr].size = len]

UpdateDynstrRange(addr, len) ==
  LET at  == DynstrAt(addr, len)
      arr == entries.arr
  IN  /\ at.ok /\ HasUniqueDyn(arr, "STRTAB") /\ HasUniqueDyn(arr, "STRSZ")
      /\ entries' = [entries EXCEPT !.arr[DynIndex(arr, "STRTAB")].val = addr,
                                    !.arr[DynIndex(arr, "STRSZ")].val = len]
      /\ strtab' = [strtab EXCEPT !.vaddr = addr, !.off = at.val, !.size = len]
      /\ shdrs' = StrtabSection(at.val, addr, len)
      /\ dirty' = dirty \cup {"dyn"} \cup DirtySection(strtab.shdr)
      /\ UNCHANGED <<pc, ehdr, phdrs, shstrndx, symtab, size>>

(* update_dyn_tbl_num: the entries themselves do not become dirty.         *)
DynNumFits_anywhere(n) ==                     \* mistaken: in the file is enough
  ResizeTableOk(phdrs.arr, size, DynamicPhdr.offset, DynEnt, Len(entries.arr), n, FALSE)

DynNumFits(n) ==
  ResizeTableOk(phdrs.arr, size, DynamicPhdr.offset, DynEnt, Len(entries.arr), n, TRUE)

UpdateDynTblNum(n) ==
  /\ n # 0 /\ Dispensable(entries.arr, n, ZeroDyn) /\ DynNumFits(n)
  /\ entries' = [entries EXCEPT !.arr = Resized(entries.arr, n, ZeroDyn),
                                !.size = n * DynEnt]
  /\ phdrs' = [phdrs EXCEPT !.arr = Sized(phdrs.arr, entries.phdr, n * DynEnt)]
  /\ shdrs' = SectionSize(entries.shdr, n * DynEnt)
  /\ dirty' = dirty \cup {"phdrs"} \cup DirtySection(entries.shdr)
  /\ UNCHANGED <<pc, ehdr, shstrndx, strtab, symtab, size>>

(* update_dyn_tbl_off does not return when no segment contains the table;  *)
(* its caller "must account for the fact" that one has to.                 *)
UpdateDynTblOff(off) ==
  LET at == VaddrFromOff(phdrs.arr, off, entries.size) IN
  /\ at.ok
  /\ phdrs' = [phdrs EXCEPT !.arr[entries.phdr].offset = off,
                            !.arr[entries.phdr].vaddr = at.val]
  /\ shdrs' = Section(entries.shdr, off, at.val)
  /\ dirty' = dirty \cup {"phdrs"} \cup DirtySection(entries.shdr)
  /\ UNCHANGED <<pc, ehdr, shstrndx, entries, strtab, symtab, size>>

(* update_dyn_sym_count.                                                   *)
UpdateDynSymCount(n) ==
  /\ n # 0 /\ symtab.nsyms # 0
  /\ ResizeTableOk(phdrs.arr, size, symtab.off, SymEnt, symtab.nsyms, n, TRUE)
  /\ symtab' = [symtab EXCEPT !.nsyms = n, !.size = n * SymEnt]
  /\ shdrs' = SectionSize(symtab.shdr, n * SymEnt)
  /\ dirty' = dirty \cup DirtySection(symtab.shdr)
  /\ UNCHANGED <<pc, ehdr, phdrs, shstrndx, entries, strtab, size>>

(* update_dyn_symtab_off: the size it asks for is that of the dynamic      *)
(* entries.                                                                *)
UpdateDynSymtabOff(off) ==
  LET at == VaddrFromOff(phdrs.arr, off, entries.size) IN
  /\ symtab.nsyms # 0 /\ at.ok
  /\ entries' = [entries EXCEPT !.arr[symtab.dyn].val = at.val]
  /\ symtab' = [symtab EXCEPT !.off = off, !.vaddr = at.val]
  /\ shdrs' = Section(symtab.shdr, off, at.val)
  /\ dirty' = dirty \cup {"dyn"} \cup DirtySection(symtab.shdr)
  /\ UNCHANGED <<pc, ehdr, phdrs, shstrndx, strtab, size>>

-----------------------------------------------------------------------------
(* The client makes room at the end of the data.                           *)
GrowData ==
  /\ size < DataSize /\ size' = DataSize
  /\ UNCHANGED <<pc, ehdr, phdrs, shdrs, shstrndx, entries, strtab, symtab, dirty>>

(* serialize_elf writes what is dirty in this order, up to the first table *)
(* that the data has no room for.                                          *)
Order == <<"ehdr", "phdrs", "shdrs", "dyn">>

Fits(s) ==
  CASE s = "ehdr"  -> TRUE
    [] s = "phdrs" -> InBounds(ehdr.phoff, Len(phdrs.arr) * PhEnt, size)
    [] s = "shdrs" -> InBounds(ehdr.shoff, Len(shdrs.arr) * ShEnt, size)
    [] s = "dyn"   -> InBounds(DynamicPhdr.offset, Len(entries.arr) * DynEnt, size)

Reached ==
  {Order[k] : k \in {k \in 1 .. 4 : \A j \in 1 .. k : Order[j] \in dirty => Fits(Order[j])}}

SerializeElf(resetDirtyFlags) ==
  /\ dirty' = IF resetDirtyFlags THEN dirty \ Reached ELSE dirty
  /\ stale' = stale \ (dirty \cap Reached)
  /\ UNCHANGED <<pc, ehdr, phdrs, shdrs, shstrndx, entries, strtab, symtab, size>>

(* What of the struct elf a structure in the file shows: where it is, too. *)
Shown(s) ==
  CASE s = "ehdr"  -> <<ehdr>>
    [] s = "phdrs" -> <<ehdr.phoff, phdrs.arr>>
    [] s = "shdrs" -> <<ehdr.shoff, shdrs.arr>>
    [] s = "dyn"   -> <<DynamicPhdr.offset, entries.arr>>

Update ==
  \/ \E n \in Counts : UpdatePhnum(n) \/ UpdateDynTblNum(n) \/ UpdateDynSymCount(n)
  \/ \E off \in Offsets : UpdatePhoff(off) \/ UpdateDynTblOff(off) \/ UpdateDynSymtabOff(off)
  \/ \E addr \in Offsets, len \in Counts : UpdateDynstrRange(addr, len)
  \/ /\ shdrs.arr # <<>>
     /\ \/ \E n \in Counts : UpdateShnum(n)
        \/ \E off \in Offsets : UpdateShoff(off)
        \/ \E i \in Indices : i < Len(shdrs.arr) /\ UpdateShstrndx(i)
  \/ \E s \in Segments : FillPhdr(s)
  \/ GrowData

UpdateStep ==
  /\ pc = "ready" /\ calls < MaxCalls /\ calls' = calls + 1
  /\ Update
  /\ stale' = stale \cup {s \in {"ehdr", "phdrs", "shdrs", "dyn"} : Shown(s)' # Shown(s)}

FailStep ==
  /\ pc = "ready" /\ UNCHANGED <<stale, calls>>
  /\ \E n \in Counts : PhnumFails(n) \/ (shdrs.arr # <<>> /\ ShnumFails(n))

SerializeStep ==
  pc = "ready" /\ UNCHANGED calls /\ \E reset \in BOOLEAN : SerializeElf(reset)

Next == UpdateStep \/ FailStep \/ SerializeStep

Spec == Init /\ [][Next]_vars

=============================================================================
