------------------------------ MODULE Layouts ------------------------------
(***************************************************************************)
(* Example input files for TLC.  `FileOf(o)` lays out one small ELF file   *)
(* the way a link editor does, under the options o:                        *)
(*   phdr, interp  whether there is a PT_PHDR, a PT_INTERP                 *)
(*   sections      whether there is a section header table                 *)
(*   base          address of the first segment                            *)
(*   hole          unmapped pages between the two segments                 *)
(*   align         p_align of both segments                                *)
(*   bss           memory of the writable segment beyond its file part     *)
(*   nulls         DT_NULL entries at the end of the dynamic table         *)
(*   names         strings in .dynstr                                      *)
(*   tail          bytes after the section header table                    *)
(*   odd           a peculiarity, or "none"                                *)
(***************************************************************************)
EXTENDS ElfBytes, SequencesExt

Codes(n) == [k \in 1 .. n |-> <<"code", k - 1>>]

NameCells(x) == [k \in 1 .. NameLen[x] |-> <<"chr", x, k - 1>>]

StrtabCells(names) == <<Zero>> \o FlattenSeq(
                         [i \in 1 .. Len(names) |-> Append(NameCells(names[i]), Zero)])

TableCells(tbl, ent, Enc(_, _)) ==
  FlattenSeq([i \in 1 .. Len(tbl) |-> [k \in 1 .. ent |-> Enc(tbl[i], k - 1)]])

If(cond, seq) == IF cond THEN seq ELSE <<>>

Segment(type, off, vaddr, filesz, memsz, align) ==
  [type |-> type, write |-> FALSE, offset |-> off, vaddr |-> vaddr,
   filesz |-> filesz, memsz |-> memsz, align |-> align]

Section(type, alloc, addr, off, sz, link) ==
  [type |-> type, alloc |-> alloc, addr |-> addr, offset |-> off,
   size |-> sz, link |-> link, info |-> 0]

CeilTo(x, n) == ((x + n - 1) \div n) * n

FileOf(o) ==
  LET nph    == 3 + (IF o.phdr THEN 1 ELSE 0) + (IF o.interp THEN 1 ELSE 0)
                  + (IF o.odd = "null phdr" THEN 1 ELSE 0)
      phsz   == nph * PhEnt
      inter  == If(o.interp, <<<<"code", 0>>, Zero>>)
      strs   == StrtabCells(o.names)
      strOff == EhSize + phsz + Len(inter)
      roEnd  == strOff + Len(strs)
      rwVa   == o.base + CeilTo(roEnd, o.align) + o.hole * o.align + (roEnd % o.align)
      dynNum == 4 + o.nulls
      dynsz  == dynNum * DynEnt
      dynOff == roEnd + 1
      rwsz   == dynsz + 2
      rwEnd  == roEnd + rwsz
      shoff  == rwEnd + 1
      phs    ==
        If(o.phdr, <<Segment("PHDR", EhSize, o.base + EhSize, phsz, phsz, 1)>>)
        \o If(o.interp, <<Segment("INTERP", EhSize + phsz, o.base + EhSize + phsz, 2, 2, 1)>>)
        \o <<Segment("LOAD", 0, o.base, roEnd, roEnd, o.align),
             [Segment("LOAD", roEnd, rwVa, rwsz, rwsz + o.bss, o.align)
                EXCEPT !.write = o.odd # "read-only dynamic"],
             Segment("DYNAMIC", dynOff, rwVa + 1, dynsz, dynsz, 1)>>
        \o If(o.odd = "null phdr", <<ZeroPhdr>>)
      val(t) == CASE t = "STRTAB" -> o.base + strOff
                  [] t = "STRSZ"  -> Len(strs)
                  [] OTHER        -> 1
      dyn    == [i \in 1 .. dynNum |->
                   IF i > 4 THEN ZeroDyn
                   ELSE LET t == <<"NEEDED", "STRTAB", "STRSZ", "OTHER">>[i]
                        IN  [tag |-> t, val |-> val(t)]]
      shs    ==
        <<ZeroShdr,
          Section("STRTAB", TRUE, o.base + strOff, strOff, Len(strs), 0),
          Section("DYNAMIC", TRUE, rwVa + 1, dynOff, dynsz,
                  IF o.odd = "bad link" THEN 3 ELSE 1),
          Section("STRTAB", FALSE, 0, IF o.odd = "shared strings" THEN strOff ELSE rwEnd,
                  1, 0),
          Section("NOBITS", TRUE,
                  rwVa + rwsz + o.bss + (IF o.odd = "tls beyond" THEN o.align ELSE 0),
                  rwEnd, IF o.odd = "tls beyond" THEN 5 * o.align ELSE 0, 0)>>
      eh     == [phoff |-> EhSize, phentsize |-> PhEnt, phnum |-> nph,
                 shoff |-> IF o.sections THEN shoff ELSE 0,
                 shentsize |-> IF o.sections THEN ShEnt ELSE 0,
                 shnum |-> IF o.sections /\ o.odd # "extended numbering" THEN Len(shs) ELSE 0,
                 shstrndx |-> IF o.sections THEN 3 ELSE 0]
      shtab  == IF o.odd = "extended numbering" THEN [shs EXCEPT ![1].size = Len(shs)] ELSE shs
      cells  ==
        [k \in 1 .. EhSize |-> EncodeEhdr(eh, k - 1)]
        \o TableCells(phs, PhEnt, EncodePhdr) \o inter \o strs
        \o <<<<"code", 1>>>> \o TableCells(dyn, DynEnt, EncodeDyn) \o <<<<"code", 2>>>>
        \o <<Zero>> \o If(o.sections, TableCells(shtab, ShEnt, EncodeShdr))
        \o Codes(o.tail)
      n      == IF o.odd = "truncated" THEN rwEnd - 1 ELSE Len(cells)
  IN  [size |-> n, buf |-> [i \in 0 .. n - 1 |-> cells[i + 1]]]

(* An ordinary executable or shared object.                                *)
Plain == [phdr |-> TRUE, interp |-> FALSE, sections |-> TRUE, base |-> 0,
          hole |-> 1, align |-> 4, bss |-> 1, nulls |-> 1,
          names |-> <<"old">>, tail |-> 0, odd |-> "none"]

=============================================================================
