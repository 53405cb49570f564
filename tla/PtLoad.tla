------------------------------- MODULE PtLoad -------------------------------
(***************************************************************************)
(* Address arithmetic over the PT_LOAD segments of a program header table: *)
(* the search and conversion helpers of util.c and util.h, which the       *)
(* parser and the patcher share.                                           *)
(*                                                                         *)
(* A program header table is a sequence, so entry i of the C array is      *)
(* entry i + 1 here and the index 0 stands for ELF_IDX_NULL.  A lookup     *)
(* that can fail returns a record whose field ok says whether it did not.  *)
(***************************************************************************)
EXTENDS ElfBytes

(* is_pow2, align_pow2: AlignUp is only called where Alignable holds;      *)
(* elsewhere the program aborts.                                           *)
IsPow2(x) == \E k \in 0 .. x : x = 2 ^ k

ASSUME PageAssumption == IsPow2(PageSize)     \* 4096 in the program

Alignable(x, n) == x <= MaxU - (n - 1)

AlignUp(x, n) == ((x + (n - 1)) \div n) * n

(* ranges_overlap: ranges that leave the address space overlap nothing.    *)
RangesOverlap(start1, size1, start2, size2) ==
  /\ start1 <= MaxU - size1
  /\ start2 <= MaxU - size2
  /\ start1 < start2 + size2
  /\ start2 < start1 + size1

-----------------------------------------------------------------------------
IndicesOf(phs, type) == {i \in 1 .. Len(phs) : phs[i].type = type}

FirstOf(S) == IF S = {} THEN 0 ELSE Min(S)

(* find_unique_phdr: 0 when there is none; callers exclude duplicates.     *)
UniquePhdr(phs, type) == FirstOf(IndicesOf(phs, type))
DuplicatePhdr(phs, type) ==
  \E i, j \in IndicesOf(phs, type) : i # j

MemContains(p, start, size) ==
  /\ p.vaddr <= start
  /\ start + size <= p.vaddr + p.memsz

FileContains(p, off, size) ==
  /\ p.offset <= off
  /\ off + size <= p.offset + p.filesz

(* find_containing_mem_ptload, find_containing_file_ptload: the first      *)
(* segment that contains the whole range.                                  *)
ContainingMemPtload(phs, start, size) ==
  IF start > MaxU - size THEN 0
  ELSE FirstOf({i \in IndicesOf(phs, "LOAD") : MemContains(phs[i], start, size)})

ContainingFilePtload(phs, off, size) ==
  IF off > MaxU - size THEN 0
  ELSE FirstOf({i \in IndicesOf(phs, "LOAD") : FileContains(phs[i], off, size)})

(* find_ptload_and_off_from_vaddr and find_ptload_and_vaddr_from_off: both *)
(* directions must agree on the segment.                                   *)
OffFromVaddr(phs, vaddr, size) ==
  LET i   == ContainingMemPtload(phs, vaddr, size)
      off == phs[i].offset + (vaddr - phs[i].vaddr)
      ok  == /\ i # 0
             /\ vaddr - phs[i].vaddr <= MaxU - phs[i].offset
             /\ ContainingFilePtload(phs, off, size) = i
  IN  IF ok THEN [ok |-> TRUE, val |-> off] ELSE [ok |-> FALSE, val |-> 0]

VaddrFromOff(phs, off, size) ==
  LET i     == ContainingFilePtload(phs, off, size)
      vaddr == phs[i].vaddr + (off - phs[i].offset)
      ok    == /\ i # 0
               /\ off - phs[i].offset <= MaxU - phs[i].vaddr
               /\ ContainingMemPtload(phs, vaddr, size) = i
  IN  IF ok THEN [ok |-> TRUE, val |-> vaddr] ELSE [ok |-> FALSE, val |-> 0]

(* find_load_segment_limits.                                               *)
MaxLoadFileEnd(phs) ==                \* mistaken: forgets .bss
  Max({0} \cup {phs[i].vaddr + phs[i].filesz : i \in IndicesOf(phs, "LOAD")})

MaxLoadVaddr(phs) ==
  Max({0} \cup {phs[i].vaddr + phs[i].memsz : i \in IndicesOf(phs, "LOAD")})

MaxLoadAlign(phs) ==
  Max({PageSize} \cup {phs[i].align : i \in IndicesOf(phs, "LOAD")})

-----------------------------------------------------------------------------
(* resize_table succeeds, memory permitting, exactly when the table fits   *)
(* at its CURRENT offset: in the file, and with inPtload in some segment.  *)
ResizeTableOk(phs, n, off, ent, oldNum, newNum, inPtload) ==
  /\ oldNum <= MaxU \div ent
  /\ newNum <= MaxU \div ent
  /\ off <= n /\ oldNum * ent <= n - off
  /\ off <= n /\ newNum * ent <= n - off
  /\ inPtload => VaddrFromOff(phs, off, newNum * ent).ok

(* The zeroed growth or truncation of the in-memory array.                 *)
Resized_grown(tbl, newNum, zero) ==           \* mistaken: never cut
  IF newNum < Len(tbl) THEN tbl
  ELSE [i \in 1 .. newNum |-> IF i <= Len(tbl) THEN tbl[i] ELSE zero]

Resized(tbl, newNum, zero) ==
  [i \in 1 .. newNum |-> IF i <= Len(tbl) THEN tbl[i] ELSE zero]

(* find_unique_dyn_entries for one tag.                                    *)
DynIndices(entries, tag) == {i \in 1 .. Len(entries) : entries[i].tag = tag}
HasUniqueDyn(entries, tag) == \E i \in DynIndices(entries, tag) :
                                 DynIndices(entries, tag) = {i}
DynIndex(entries, tag) == CHOOSE i \in DynIndices(entries, tag) : TRUE

=============================================================================
