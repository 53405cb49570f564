----------------------------- MODULE MCUpdates ------------------------------
(***************************************************************************)
(* Instances of Updates.  Every structure is one cell long.  The segments  *)
(* are cells 0 to 8 at addresses 0 to 8 and cells 9 to 15 at 17 to 23; the *)
(* section headers come behind them.                                       *)
(***************************************************************************)
EXTENDS UpdatesProperties

Load(off, vaddr, len) ==
  [ZeroPhdr EXCEPT !.type = "LOAD", !.offset = off, !.vaddr = vaddr,
                   !.filesz = len, !.memsz = len, !.align = 1]

Sec(type, off, vaddr, len) ==
  [ZeroShdr EXCEPT !.type = type, !.offset = off, !.addr = vaddr, !.size = len]

(* With or without PT_PHDR, and with or without section headers.           *)
Context(phdr, sections) ==
  LET dynamic == [Load(9, 17, 4) EXCEPT !.type = "DYNAMIC"]
      loads == <<dynamic, Load(0, 0, 9), Load(9, 17, 7)>>
      phs == IF phdr THEN loads \o <<[Load(1, 1, 4) EXCEPT !.type = "PHDR"]>> ELSE loads
      shs == IF sections
             THEN <<ZeroShdr, Sec("DYNAMIC", 9, 17, 4), Sec("STRTAB", 7, 7, 2),
                    Sec("OTHER", 13, 21, 2)>>
             ELSE <<>>
      At(i) == IF sections THEN i ELSE 0
  IN  [ehdr |-> [phoff |-> 1, phentsize |-> PhEnt, phnum |-> Len(phs),
                 shoff |-> IF sections THEN 16 ELSE 0, shentsize |-> ShEnt,
                 shnum |-> Len(shs), shstrndx |-> 0],
       phdrs |-> [arr |-> phs, size |-> Len(phs)],
       shdrs |-> [arr |-> shs, size |-> Len(shs)],
       shstrndx |-> 0,
       entries |-> [arr |-> <<[tag |-> "STRTAB", val |-> 7], [tag |-> "STRSZ", val |-> 2],
                              [tag |-> "OTHER", val |-> 21], ZeroDyn>>,
                    size |-> 4, phdr |-> 1, shdr |-> At(2)],
       strtab |-> [vaddr |-> 7, off |-> 7, size |-> 2, shdr |-> At(3)],
       symtab |-> [vaddr |-> 21, off |-> 13, size |-> 2, nsyms |-> 2, shdr |-> At(4), dyn |-> 3],
       size |-> 21]

MCParsed == {Context(p, s) : p \in BOOLEAN, s \in BOOLEAN}

MCNameLen == [x \in {"lib"} |-> 2]

(* A segment over the new data.                                            *)
MCSegments == {Load(21, 29, 5)}

=============================================================================
