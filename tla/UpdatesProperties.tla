------------------------- MODULE UpdatesProperties --------------------------
(* What the update helpers owe their client after any sequence of calls.   *)
EXTENDS Updates

(* Every array of the struct elf is as long as the size next to it says,   *)
(* and the indices to headers, sections and entries lead to some, however  *)
(* the tables have been cut.                                               *)
TypeOK ==
  /\ pc \in {"ready", "failed"} /\ calls \in 0 .. MaxCalls
  /\ dirty \subseteq {"ehdr", "phdrs", "shdrs", "dyn"}
  /\ stale \subseteq {"ehdr", "phdrs", "shdrs", "dyn"}
  /\ [ehdr |-> ehdr, phdrs |-> phdrs, shdrs |-> shdrs, shstrndx |-> shstrndx,
      entries |-> entries, strtab |-> strtab, symtab |-> symtab, size |-> size] \in ElfStruct
  /\ phdrs.size = Len(phdrs.arr) * PhEnt
  /\ shdrs.size = Len(shdrs.arr) * ShEnt
  /\ entries.size = Len(entries.arr) * DynEnt
  /\ pc = "ready" =>
       /\ entries.phdr \in IndicesOf(phdrs.arr, "DYNAMIC")
       /\ {entries.shdr, strtab.shdr, symtab.shdr} \subseteq 0 .. Len(shdrs.arr)
       /\ symtab.nsyms # 0 => symtab.dyn \in 1 .. Len(entries.arr)

(* A header table that is not marked dirty is in the file as it is in      *)
(* memory, where the header says it is: whatever a helper changes on the   *)
(* way, the first section header too, it marks.                            *)
CleanMeansWritten == pc = "ready" => stale \subseteq dirty \cup {"dyn"}

(* What parse_elf makes of the ELF header and the first section header is  *)
(* what the struct elf holds, also when a count or index does not fit the  *)
(* header, has ceased not to, or shares the section header with another.   *)
CountsDecode ==
  pc = "ready" =>
    /\ Len(phdrs.arr) = IF ehdr.phnum >= PN_XNUM THEN shdrs.arr[1].info ELSE ehdr.phnum
    /\ shdrs.arr # <<>> =>
         /\ Len(shdrs.arr) = IF ehdr.shnum # 0 THEN ehdr.shnum ELSE shdrs.arr[1].size
         /\ shstrndx = IF ehdr.shstrndx < SHN_XINDEX THEN ehdr.shstrndx ELSE shdrs.arr[1].link
         /\ shstrndx < Len(shdrs.arr)

(* PT_PHDR and PT_DYNAMIC, the sections and the dynamic entries all name   *)
(* the range that the struct elf holds, in offsets and in addresses.       *)
SectionNames(i, off, vaddr, len) ==
  i # 0 => /\ shdrs.arr[i].offset = off /\ shdrs.arr[i].addr = vaddr
           /\ shdrs.arr[i].size = len

PtPhdrAgrees ==
  PtPhdr # 0 => /\ phdrs.arr[PtPhdr].offset = ehdr.phoff
                /\ phdrs.arr[PtPhdr].filesz = phdrs.size
                /\ phdrs.arr[PtPhdr].memsz = phdrs.size

DynamicAgrees ==
  /\ DynamicPhdr.filesz = entries.size /\ DynamicPhdr.memsz = entries.size
  /\ SectionNames(entries.shdr, DynamicPhdr.offset, DynamicPhdr.vaddr, entries.size)

StrtabAgrees ==
  /\ entries.arr[DynIndex(entries.arr, "STRTAB")].val = strtab.vaddr
  /\ entries.arr[DynIndex(entries.arr, "STRSZ")].val = strtab.size
  /\ SectionNames(strtab.shdr, strtab.off, strtab.vaddr, strtab.size)

SymtabAgrees ==
  symtab.nsyms # 0 =>
    /\ entries.arr[symtab.dyn].val = symtab.vaddr
    /\ SectionNames(symtab.shdr, symtab.off, symtab.vaddr, symtab.size)

TablesAgree ==
  pc = "ready" => PtPhdrAgrees /\ DynamicAgrees /\ StrtabAgrees /\ SymtabAgrees

(* The tables the loader reads lie in one segment, at the address the      *)
(* headers give, however they have been resized and moved.  (The symbol    *)
(* table need not: update_dyn_symtab_off checks another size.)             *)
MappedAt(off, vaddr, len) == VaddrFromOff(phdrs.arr, off, len) = [ok |-> TRUE, val |-> vaddr]

TablesStayMapped ==
  pc = "ready" =>
    /\ PtPhdr # 0 => MappedAt(ehdr.phoff, phdrs.arr[PtPhdr].vaddr, phdrs.size)
    /\ MappedAt(DynamicPhdr.offset, DynamicPhdr.vaddr, entries.size)
    /\ MappedAt(strtab.off, strtab.vaddr, strtab.size)

(* serialize_elf finds room for the headers at any time.  It may lack room *)
(* for the dynamic table, whose new place update_dyn_tbl_off looks up in   *)
(* the segments and does not compare with the data, but only as long as a  *)
(* segment reaches behind the data: once that has grown, there is room.    *)
SerializeSucceeds ==
  pc = "ready" => /\ {"ehdr", "phdrs", "shdrs"} \subseteq Reached
                  /\ LoadsInFile(phdrs.arr, size) => "dyn" \in Reached

(* elf-patching.h:247 of serialize_elf: "Re-serializes all relevant        *)
(* potentially modified ELF structures."  Those are the ones marked dirty. *)
ModifiedMeansDirty == pc = "ready" => stale \subseteq dirty

=============================================================================
