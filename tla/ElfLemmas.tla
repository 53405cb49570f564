----------------------------- MODULE ElfLemmas -----------------------------
(***************************************************************************)
(* Facts about the operators of ElfBytes, PtLoad, ElfParse and MoveData,   *)
(* proved for every value of their constants.                              *)
(***************************************************************************)
EXTENDS ElfParse, MoveData, WellFoundedInduction, TLAPS

-----------------------------------------------------------------------------
(* Arithmetic.                                                             *)

(* Sizes and offsets are natural numbers.                                  *)
LEMMA Naturals64 == \A x \in U64 : x \in Nat /\ x <= MaxU
  BY WidthAssumption DEF U64

(* The members of a program header are bounded natural numbers.            *)
LEMMA PhdrFields ==
  ASSUME NEW p \in Phdr
  PROVE  /\ p.offset \in Nat /\ p.vaddr \in Nat /\ p.filesz \in Nat
         /\ p.memsz \in Nat /\ p.align \in Nat
         /\ p.offset <= MaxU /\ p.vaddr <= MaxU /\ p.filesz <= MaxU
         /\ p.memsz <= MaxU /\ p.align <= MaxU
  BY Naturals64 DEF Phdr

(* What fits a file fits a longer one.                                     *)
LEMMA InBoundsOfMore ==
  ASSUME NEW off \in Nat, NEW len \in Nat, NEW n \in Nat, NEW k \in Nat,
         InBounds(off, len, n), n <= k
  PROVE  InBounds(off, len, k)
  BY DEF InBounds

(* A nonempty set of naturals has a least element.                         *)
LEMMA LeastNatural ==
  ASSUME NEW S \in SUBSET Nat, S # {}
  PROVE  \E x \in S : \A y \in S : x <= y
<1>1. \E x \in S : \A y \in S : ~(<<y, x>> \in OpToRel(<, Nat))
  BY NatLessThanWellFounded, WFMin
<1>2. PICK x \in S : \A y \in S : ~(<<y, x>> \in OpToRel(<, Nat)) BY <1>1
<1>3. ASSUME NEW y \in S PROVE x <= y
  <2>1. SUFFICES ASSUME y < x PROVE FALSE OBVIOUS
  <2>2. <<y, x>> \in Nat \X Nat /\ <<y, x>>[1] < <<y, x>>[2] BY <2>1
  <2> QED BY <1>2, <2>2 DEF OpToRel
<1> QED
  BY <1>3

(* Min of a nonempty set of naturals is its least element.                 *)
LEMMA MinProperty ==
  ASSUME NEW S \in SUBSET Nat, S # {}
  PROVE  Min(S) \in S /\ \A y \in S : Min(S) <= y
  BY LeastNatural DEF Min

(* Max of a nonempty bounded set of naturals is its greatest element.      *)
LEMMA MaxProperty ==
  ASSUME NEW B \in Nat, NEW S \in SUBSET (0 .. B), S # {}
  PROVE  Max(S) \in S /\ \A y \in S : y <= Max(S)
<1> DEFINE T == {d \in 0 .. B : B - d \in S}
<1>1. T # {}
  <2>1. PICK s \in S : TRUE OBVIOUS
  <2>2. B - s \in T BY <2>1
  <2> QED BY <2>2
<1>2. PICK d \in T : \A e \in T : d <= e
  <2> T \in SUBSET Nat OBVIOUS
  <2> HIDE DEF T
  <2> QED BY <1>1, LeastNatural
<1>3. B - d \in S OBVIOUS
<1>4. \A y \in S : B - y \in T OBVIOUS
<1>5. ASSUME NEW y \in S PROVE B - d >= y
  <2>1. d <= B - y BY <1>2, <1>4
  <2>2. d \in 0 .. B /\ y \in 0 .. B OBVIOUS
  <2> QED BY <2>1, <2>2
<1> QED
  BY <1>3, <1>5 DEF Max

(* The greater of two numbers, as MoveData's sizes and ranges use it.      *)
LEMMA MaxOfTwo ==
  ASSUME NEW x \in Nat, NEW y \in Nat
  PROVE  /\ Max({x, y}) \in {x, y}
         /\ x <= Max({x, y}) /\ y <= Max({x, y})
<1>1. CASE x <= y BY <1>1 DEF Max
<1>2. CASE y <= x BY <1>2 DEF Max
<1> QED BY <1>1, <1>2

(* The smaller of two numbers, as prepare_move_data's memcpy and memset    *)
(* use it.                                                                 *)
LEMMA MinOfTwo ==
  ASSUME NEW x \in Nat, NEW y \in Nat
  PROVE  /\ Min({x, y}) \in {x, y}
         /\ Min({x, y}) <= x /\ Min({x, y}) <= y
  BY MinProperty

(* More entries take at least as many bytes.                               *)
LEMMA ProductMonotone ==
  ASSUME NEW i \in Nat, NEW j \in Nat, NEW k \in Nat, i <= j
  PROVE  i * k <= j * k
  OBVIOUS

(* reserve_range's division test: a count that passes it does not overflow *)
(* when multiplied by the entry size.                                      *)
LEMMA DivisionBound ==
  ASSUME NEW x \in Nat, NEW n \in Nat \ {0}, NEW q \in Nat, q <= x \div n
  PROVE  q * n <= x
  OBVIOUS

(* align_pow2 returns the next multiple of the alignment, less than one    *)
(* alignment away.                                                         *)
LEMMA AlignUpProperty ==
  ASSUME NEW x \in Nat, NEW n \in Nat \ {0}
  PROVE  /\ AlignUp(x, n) \in Nat
         /\ x <= AlignUp(x, n)
         /\ AlignUp(x, n) < x + n
         /\ AlignUp(x, n) % n = 0
  BY DEF AlignUp

(* A quotient is the one number whose multiple leaves less than the        *)
(* divisor.                                                                *)
LEMMA DivisionUnique ==
  ASSUME NEW z \in Int, NEW n \in Nat \ {0}, NEW q \in Int, q * n <= z, z < q * n + n
  PROVE  z \div n = q
<1> DEFINE p == z \div n
<1>1. p \in Int /\ p * n <= z /\ z < p * n + n OBVIOUS
<1> HIDE DEF p
<1>2. SUFFICES p = q BY DEF p
<1>3. ~(p < q)
  <2>1. SUFFICES ASSUME p + 1 <= q PROVE FALSE BY <1>1
  <2>2. (q - (p + 1)) * n >= 0 BY <1>1, <2>1
  <2>3. (q - (p + 1)) * n = q * n - (p * n + n) BY <1>1
  <2> QED BY <1>1, <2>2, <2>3
<1>4. ~(q < p)
  <2>1. SUFFICES ASSUME q + 1 <= p PROVE FALSE BY <1>1
  <2>2. (p - (q + 1)) * n >= 0 BY <1>1, <2>1
  <2>3. (p - (q + 1)) * n = p * n - (q * n + n) BY <1>1
  <2> QED BY <1>1, <2>2, <2>3
<1> QED BY <1>1, <1>3, <1>4

(* align_pow2 of a sum, when one part is a multiple already: the segments  *)
(* that append_new_ptload_segment stacks do not drift into each other.     *)
LEMMA AlignedSum ==
  ASSUME NEW x \in Nat, NEW y \in Nat, NEW n \in Nat \ {0}, y % n = 0
  PROVE  AlignUp(x + y, n) = AlignUp(x, n) + y
<1> DEFINE k == y \div n
           z == x + (n - 1)
           q == z \div n
<1>1. k \in Int /\ y = k * n OBVIOUS
<1>2. q \in Int /\ q * n <= z /\ z < q * n + n /\ z \in Int OBVIOUS
<1> HIDE DEF k, z, q
<1>3. (q + k) * n = q * n + y BY <1>1, <1>2
<1>4. (z + y) \div n = q + k
  BY <1>1, <1>2, <1>3, DivisionUnique
<1>5. x + y + (n - 1) = z + y BY DEF z
<1> QED BY <1>3, <1>4, <1>5 DEF AlignUp, q, z

(* A byte below a page boundary is on an earlier page.                     *)
LEMMA BelowMultiple ==
  ASSUME NEW x \in Nat, NEW y \in Int, NEW n \in Nat \ {0}, x % n = 0, y < x
  PROVE  y \div n < x \div n
<1> DEFINE k == x \div n
           p == y \div n
<1>1. k \in Int /\ x = k * n OBVIOUS
<1>2. p \in Int /\ p * n <= y /\ y < p * n + n OBVIOUS
<1> HIDE DEF k, p
<1>3. SUFFICES ASSUME k <= p PROVE FALSE BY <1>1, <1>2 DEF k, p
<1>4. (p - k) * n >= 0 BY <1>1, <1>2, <1>3
<1>5. (p - k) * n = p * n - k * n BY <1>1, <1>2
<1> QED BY <1>1, <1>2, <1>4, <1>5

-----------------------------------------------------------------------------
(* Cells and the structures decoded from them.                             *)

(* A byte of a file that belongs to a structure carries a structure of     *)
(* that kind, with values that the class of the file can hold.             *)
LEMMA CellContents ==
  ASSUME NEW c \in Cell
  PROVE  /\ c[1] = "ehdr" => c[2] \in Ehdr /\ EhdrFits(c[2])
         /\ c[1] = "phdr" => c[2] \in Phdr /\ PhdrFits(c[2])
         /\ c[1] = "shdr" => c[2] \in Shdr /\ ShdrFits(c[2])
         /\ c[1] = "dyn"  => c[2] \in Dyn /\ DynFits(c[2])
<1>1. CASE c \in {Zero, Filler} BY <1>1 DEF Zero, Filler
<1>2. CASE c \in {"ehdr"} \X {e \in Ehdr : EhdrFits(e)} \X Nat BY <1>2
<1>3. CASE c \in {"phdr"} \X {p \in Phdr : PhdrFits(p)} \X Nat BY <1>3
<1>4. CASE c \in {"shdr"} \X {s \in Shdr : ShdrFits(s)} \X Nat BY <1>4
<1>5. CASE c \in {"dyn"} \X {d \in Dyn : DynFits(d)} \X Nat BY <1>5
<1>6. CASE c \in {"chr"} \X Names \X Nat BY <1>6
<1>7. CASE c \in {"code"} \X Nat BY <1>7
<1> QED
  BY <1>1, <1>2, <1>3, <1>4, <1>5, <1>6, <1>7 DEF Cell

(* What the write functions of elf-types.c produce of values that the      *)
(* class can hold are bytes of a file.                                     *)
LEMMA EncodedCells ==
  ASSUME NEW k \in Nat
  PROVE  /\ \A e \in Ehdr : EhdrFits(e) => EncodeEhdr(e, k) \in Cell
         /\ \A p \in Phdr : PhdrFits(p) => EncodePhdr(p, k) \in Cell
         /\ \A s \in Shdr : ShdrFits(s) => EncodeShdr(s, k) \in Cell
         /\ \A d \in Dyn  : DynFits(d) => EncodeDyn(d, k) \in Cell
         /\ \A x \in Names : <<"chr", x, k>> \in Cell
         /\ Zero \in Cell /\ Filler \in Cell
  BY DEF EncodeEhdr, EncodePhdr, EncodeShdr, EncodeDyn, Encode, Cell

(* Zeroed memory is a program header, a section header and a dynamic       *)
(* entry: what resize_table fills new entries with.                        *)
LEMMA ZeroStructures ==
  /\ ZeroPhdr \in Phdr /\ ZeroShdr \in Shdr /\ ZeroDyn \in Dyn
  /\ PhdrFits(ZeroPhdr) /\ ShdrFits(ZeroShdr) /\ DynFits(ZeroDyn)
<1>1. MaxField \in Nat BY WidthAssumption
<1> QED
  BY <1>1, WidthAssumption
  DEF ZeroPhdr, ZeroShdr, ZeroDyn, Phdr, Shdr, Dyn, U64, PhdrFits, ShdrFits, DynFits

(* Reading any byte of a file as a structure gives a structure that the    *)
(* class can hold.                                                         *)
LEMMA DecodedType ==
  ASSUME NEW n \in Nat, NEW b \in File(n), NEW i \in 0 .. n - 1
  PROVE  /\ Decode("phdr", ZeroPhdr, b, i) \in {p \in Phdr : PhdrFits(p)}
         /\ Decode("shdr", ZeroShdr, b, i) \in {s \in Shdr : ShdrFits(s)}
         /\ Decode("dyn", ZeroDyn, b, i) \in {d \in Dyn : DynFits(d)}
<1>1. b[i] \in Cell BY DEF File
<1> QED
  BY <1>1, CellContents, ZeroStructures DEF Decode

(* The entries of a table that lies within the file.                       *)
LEMMA EntryInFile ==
  ASSUME NEW n \in Nat, NEW off \in Nat, NEW ent \in Nat \ {0}, NEW num \in Nat,
         InBounds(off, num * ent, n), NEW i \in 1 .. num
  PROVE  off + (i - 1) * ent \in 0 .. n - 1
<1>1. (i - 1) * ent + ent = i * ent OBVIOUS
<1>2. i * ent <= num * ent BY ProductMonotone
<1>3. (i - 1) * ent \in Nat /\ num * ent \in Nat OBVIOUS
<1> QED
  BY <1>1, <1>2, <1>3 DEF InBounds

(* Reading a table that lies within the file gives one structure per       *)
(* entry.                                                                  *)
LEMMA DecodedTableType ==
  ASSUME NEW n \in Nat, NEW b \in File(n), NEW off \in Nat, NEW ent \in Nat \ {0},
         NEW num \in Nat, InBounds(off, num * ent, n)
  PROVE  /\ DecodeTable("phdr", ZeroPhdr, ent, b, off, num)
               \in [1 .. num -> {p \in Phdr : PhdrFits(p)}]
         /\ DecodeTable("shdr", ZeroShdr, ent, b, off, num)
               \in [1 .. num -> {s \in Shdr : ShdrFits(s)}]
         /\ DecodeTable("dyn", ZeroDyn, ent, b, off, num)
               \in [1 .. num -> {d \in Dyn : DynFits(d)}]
<1>1. \A i \in 1 .. num : off + (i - 1) * ent \in 0 .. n - 1 BY EntryInFile
<1>2. \A i \in 1 .. num :
        /\ Decode("phdr", ZeroPhdr, b, off + (i - 1) * ent) \in {p \in Phdr : PhdrFits(p)}
        /\ Decode("shdr", ZeroShdr, b, off + (i - 1) * ent) \in {s \in Shdr : ShdrFits(s)}
        /\ Decode("dyn", ZeroDyn, b, off + (i - 1) * ent) \in {d \in Dyn : DynFits(d)}
  BY <1>1, DecodedType
<1> QED BY <1>2, Zenon DEF DecodeTable

(* A function on 1 .. num is a sequence of length num.                     *)
LEMMA FunctionIsSequence ==
  ASSUME NEW num \in Nat, NEW S, NEW f \in [1 .. num -> S]
  PROVE  f \in Seq(S) /\ Len(f) = num
  OBVIOUS

-----------------------------------------------------------------------------
(* Lookups among the program headers.                                      *)

(* The first index of a set, or 0 when the set is empty.                   *)
LEMMA FirstOfProperty ==
  ASSUME NEW S \in SUBSET (Nat \ {0})
  PROVE  /\ FirstOf(S) \in Nat
         /\ FirstOf(S) = 0 <=> S = {}
         /\ S # {} => FirstOf(S) \in S /\ \A j \in S : FirstOf(S) <= j
  BY MinProperty DEF FirstOf

(* find_unique_phdr returns 0 or the index of a header of the type asked   *)
(* for.                                                                    *)
LEMMA UniquePhdrProperty ==
  ASSUME NEW phs \in Seq(Phdr), NEW t
  PROVE  /\ UniquePhdr(phs, t) \in 0 .. Len(phs)
         /\ UniquePhdr(phs, t) # 0 => phs[UniquePhdr(phs, t)].type = t
<1> IndicesOf(phs, t) \in SUBSET (Nat \ {0}) BY DEF IndicesOf
<1> QED BY FirstOfProperty DEF UniquePhdr, IndicesOf

(* find_containing_mem_ptload returns 0 or a PT_LOAD whose memory holds    *)
(* the whole range.                                                        *)
LEMMA ContainingMemProperty ==
  ASSUME NEW phs \in Seq(Phdr), NEW start \in Nat, NEW sz \in Nat
  PROVE  /\ ContainingMemPtload(phs, start, sz) \in 0 .. Len(phs)
         /\ ContainingMemPtload(phs, start, sz) # 0 =>
              LET i == ContainingMemPtload(phs, start, sz) IN
              /\ start <= MaxU - sz
              /\ phs[i].type = "LOAD" /\ MemContains(phs[i], start, sz)
<1> DEFINE S == {i \in IndicesOf(phs, "LOAD") : MemContains(phs[i], start, sz)}
<1>1. S \in SUBSET (Nat \ {0}) /\ S \subseteq 1 .. Len(phs) BY DEF IndicesOf
<1>2. FirstOf(S) \in 0 .. Len(phs) /\ (FirstOf(S) # 0 => FirstOf(S) \in S)
  <2> HIDE DEF S
  <2> QED BY <1>1, FirstOfProperty
<1>3. CASE start > MaxU - sz BY <1>3 DEF ContainingMemPtload
<1>4. CASE ~(start > MaxU - sz)
  BY <1>4, <1>2, WidthAssumption DEF ContainingMemPtload, IndicesOf
<1> QED BY <1>3, <1>4

(* find_containing_file_ptload returns 0 or a PT_LOAD whose file part      *)
(* holds the whole range.                                                  *)
LEMMA ContainingFileProperty ==
  ASSUME NEW phs \in Seq(Phdr), NEW start \in Nat, NEW sz \in Nat
  PROVE  /\ ContainingFilePtload(phs, start, sz) \in 0 .. Len(phs)
         /\ ContainingFilePtload(phs, start, sz) # 0 =>
              LET i == ContainingFilePtload(phs, start, sz) IN
              /\ start <= MaxU - sz
              /\ phs[i].type = "LOAD" /\ FileContains(phs[i], start, sz)
<1> DEFINE S == {i \in IndicesOf(phs, "LOAD") : FileContains(phs[i], start, sz)}
<1>1. S \in SUBSET (Nat \ {0}) /\ S \subseteq 1 .. Len(phs) BY DEF IndicesOf
<1>2. FirstOf(S) \in 0 .. Len(phs) /\ (FirstOf(S) # 0 => FirstOf(S) \in S)
  <2> HIDE DEF S
  <2> QED BY <1>1, FirstOfProperty
<1>3. CASE start > MaxU - sz BY <1>3 DEF ContainingFilePtload
<1>4. CASE ~(start > MaxU - sz)
  BY <1>4, <1>2, WidthAssumption DEF ContainingFilePtload, IndicesOf
<1> QED BY <1>3, <1>4

(* A range translated between addresses and offsets stays within 64 bits.  *)
LEMMA OffFromVaddrProperty ==
  ASSUME NEW phs \in Seq(Phdr), NEW vaddr \in Nat, NEW sz \in Nat,
         OffFromVaddr(phs, vaddr, sz).ok
  PROVE  /\ OffFromVaddr(phs, vaddr, sz).val \in U64
         /\ vaddr + sz <= MaxU
         /\ \E i \in IndicesOf(phs, "LOAD") :
               FileContains(phs[i], OffFromVaddr(phs, vaddr, sz).val, sz)
<1> DEFINE i == ContainingMemPtload(phs, vaddr, sz)
           off == phs[i].offset + (vaddr - phs[i].vaddr)
<1>1. /\ i # 0 /\ vaddr - phs[i].vaddr <= MaxU - phs[i].offset
      /\ ContainingFilePtload(phs, off, sz) = i
      /\ OffFromVaddr(phs, vaddr, sz).val = off
  BY DEF OffFromVaddr
<1>2. i \in 1 .. Len(phs) /\ vaddr <= MaxU - sz /\ phs[i].vaddr <= vaddr
  <2>1. i \in 0 .. Len(phs) /\ vaddr <= MaxU - sz /\ MemContains(phs[i], vaddr, sz)
    BY <1>1, ContainingMemProperty
  <2> HIDE DEF i
  <2>2. i \in 1 .. Len(phs) BY <1>1, <2>1
  <2> QED BY <2>1, <2>2 DEF MemContains
<1>3. phs[i].vaddr \in 0 .. MaxU /\ phs[i].offset \in 0 .. MaxU
  <2>1. phs[i] \in Phdr BY <1>2
  <2> QED BY <2>1 DEF Phdr, U64
<1> HIDE DEF i
<1>4. off \in 0 .. MaxU
  BY <1>1, <1>2, <1>3, WidthAssumption
<1>5. phs[i].type = "LOAD" /\ FileContains(phs[i], off, sz)
  <2>1. off \in Nat BY <1>4, WidthAssumption
  <2>2. i = ContainingFilePtload(phs, off, sz) /\ i # 0 BY <1>1
  <2> HIDE DEF off
  <2> QED BY <2>1, <2>2, ContainingFileProperty
<1>6. i \in IndicesOf(phs, "LOAD") BY <1>2, <1>5 DEF IndicesOf
<1>7. vaddr + sz <= MaxU BY <1>2, WidthAssumption
<1>8. off \in U64 BY <1>4 DEF U64
<1> HIDE DEF off
<1> QED
  BY <1>1, <1>5, <1>6, <1>7, <1>8

(* The address find_ptload_and_vaddr_from_off stores is a 64-bit value,    *)
(* also on failure.                                                        *)
LEMMA VaddrFromOffProperty ==
  ASSUME NEW phs \in Seq(Phdr), NEW off \in Nat, NEW sz \in Nat
  PROVE  VaddrFromOff(phs, off, sz).val \in U64
<1> DEFINE i == ContainingFilePtload(phs, off, sz)
           vaddr == phs[i].vaddr + (off - phs[i].offset)
<1>1. CASE VaddrFromOff(phs, off, sz).val = 0 BY <1>1, WidthAssumption DEF U64
<1>2. CASE VaddrFromOff(phs, off, sz).val # 0
  <2>1. /\ i # 0 /\ off - phs[i].offset <= MaxU - phs[i].vaddr
        /\ VaddrFromOff(phs, off, sz).val = vaddr
    BY <1>2 DEF VaddrFromOff
  <2>2. i \in 1 .. Len(phs) /\ phs[i].offset <= off
    BY <2>1, ContainingFileProperty DEF FileContains
  <2>3. phs[i].vaddr \in 0 .. MaxU /\ phs[i].offset \in 0 .. MaxU
    <3>1. phs[i] \in Phdr BY <2>2
    <3> QED BY <3>1 DEF Phdr, U64
  <2> HIDE DEF i
  <2>4. vaddr \in 0 .. MaxU BY <2>1, <2>2, <2>3, WidthAssumption, SMTT(30)
  <2> HIDE DEF vaddr
  <2> QED BY <2>1, <2>4 DEF U64
<1> QED BY <1>1, <1>2

(* No segment wraps around the end of the address space.                   *)
LoadsInRange(phs) ==
  \A i \in IndicesOf(phs, "LOAD") : phs[i].vaddr + phs[i].memsz <= MaxU

(* find_load_segment_limits: the end of every PT_LOAD is at or below the   *)
(* limit it returns.                                                       *)
LEMMA MaxLoadVaddrProperty ==
  ASSUME NEW phs \in Seq(Phdr), LoadsInRange(phs)
  PROVE  /\ MaxLoadVaddr(phs) \in U64
         /\ \A i \in IndicesOf(phs, "LOAD") :
               phs[i].vaddr + phs[i].memsz <= MaxLoadVaddr(phs)
<1> DEFINE S == {0} \cup {phs[i].vaddr + phs[i].memsz : i \in IndicesOf(phs, "LOAD")}
<1>1. ASSUME NEW i \in IndicesOf(phs, "LOAD")
      PROVE  phs[i].vaddr + phs[i].memsz \in 0 .. MaxU
  <2>1. phs[i] \in Phdr BY DEF IndicesOf
  <2>2. phs[i].vaddr \in 0 .. MaxU /\ phs[i].memsz \in 0 .. MaxU
    BY <2>1 DEF Phdr, U64
  <2>3. phs[i].vaddr + phs[i].memsz <= MaxU BY DEF LoadsInRange
  <2> QED BY <2>2, <2>3, WidthAssumption
<1>2. S \in SUBSET (0 .. MaxU) /\ S # {}
  BY <1>1, WidthAssumption
<1>3. Max(S) \in S /\ \A y \in S : y <= Max(S)
  <2> HIDE DEF S
  <2> QED BY <1>2, MaxProperty, WidthAssumption
<1> QED BY <1>2, <1>3 DEF MaxLoadVaddr, U64

(* find_load_segment_limits returns the largest alignment of a segment, or *)
(* a page when they are smaller.                                           *)
LEMMA MaxLoadAlignBound ==
  ASSUME NEW phs \in Seq(Phdr)
  PROVE  /\ MaxLoadAlign(phs) \in {PageSize} \cup {phs[i].align : i \in IndicesOf(phs, "LOAD")}
         /\ PageSize <= MaxLoadAlign(phs)
         /\ \A i \in IndicesOf(phs, "LOAD") : phs[i].align <= MaxLoadAlign(phs)
<1> DEFINE S == {PageSize} \cup {phs[i].align : i \in IndicesOf(phs, "LOAD")}
<1>1. \A i \in IndicesOf(phs, "LOAD") : phs[i] \in Phdr BY DEF IndicesOf
<1>2. S \in SUBSET (0 .. MaxU) /\ PageSize \in S
  BY <1>1, WidthAssumption, SizeAssumption DEF Phdr, U64
<1>3. Max(S) \in S /\ \A y \in S : y <= Max(S)
  <2> HIDE DEF S
  <2> QED BY <1>2, MaxProperty, WidthAssumption
<1> QED BY <1>2, <1>3 DEF MaxLoadAlign

(* The alignment find_load_segment_limits returns is never 0, so           *)
(* align_pow2 can divide by it.                                            *)
LEMMA MaxLoadAlignProperty ==
  ASSUME NEW phs \in Seq(Phdr)
  PROVE  MaxLoadAlign(phs) \in U64 \ {0}
<1> DEFINE S == {PageSize} \cup {phs[i].align : i \in IndicesOf(phs, "LOAD")}
<1>1. \A i \in IndicesOf(phs, "LOAD") : phs[i] \in Phdr BY DEF IndicesOf
<1>2. S \in SUBSET (0 .. MaxU) /\ PageSize \in S
  BY <1>1, WidthAssumption, SizeAssumption DEF Phdr, U64
<1>3. Max(S) \in S /\ \A y \in S : y <= Max(S)
  <2> HIDE DEF S
  <2> QED BY <1>2, MaxProperty, WidthAssumption
<1>4. Max(S) \in 0 .. MaxU /\ PageSize <= Max(S) BY <1>2, <1>3
<1> QED BY <1>4, SizeAssumption DEF MaxLoadAlign, U64

-----------------------------------------------------------------------------
(* What the parser returns for the files it accepts.                       *)

(* The ELF header of an accepted file.                                     *)
LEMMA EhdrType ==
  ASSUME NEW n \in Nat, NEW b \in File(n), ReadableEhdr(b, n)
  PROVE  EhdrOf(b) \in Ehdr
<1>1. 0 \in 0 .. n - 1 BY SizeAssumption DEF ReadableEhdr
<1>2. b[0] \in Cell /\ b[0][1] = "ehdr" BY <1>1 DEF File, ReadableEhdr
<1> QED BY <1>2, CellContents DEF EhdrOf, Decode

(* The first section header, when there is a table, and the whole table.   *)
LEMMA ShdrsType ==
  ASSUME NEW n \in Nat, NEW b \in File(n), ReadableEhdr(b, n), ValidShdrTable(b, n)
  PROVE  /\ ShnumOf(b) \in U64
         /\ ShdrsOf(b) \in Seq(Shdr) /\ Len(ShdrsOf(b)) = ShnumOf(b)
         /\ ShnumOf(b) # 0 => /\ FirstShdr(b) \in Shdr
                              /\ InBounds(EhdrOf(b).shoff, ShnumOf(b) * ShEnt, n)
<1> DEFINE e == EhdrOf(b)
<1>1. e.shoff \in 0 .. MaxU /\ e.shnum \in 0 .. MaxU
  BY EhdrType DEF Ehdr, U64
<1> HIDE DEF e
<1>2. CASE NoShdrs(e)
  <2>1. ShnumOf(b) = 0 BY <1>2 DEF ShnumOf, e
  <2>2. ShdrsOf(b) \in [1 .. 0 -> Shdr]
    BY <2>1 DEF ShdrsOf, DecodeTable
  <2> QED BY <2>1, <2>2, WidthAssumption DEF U64
<1>3. CASE ~NoShdrs(e)
  <2>1. /\ InBounds(e.shoff, ShEnt, n)
        /\ InBounds(e.shoff, ShnumOf(b) * ShEnt, n)
    BY <1>3 DEF ValidShdrTable, e
  <2>2. e.shoff \in 0 .. n - 1
    BY <1>1, <2>1, SizeAssumption DEF InBounds
  <2>3. FirstShdr(b) \in Shdr BY <2>2, DecodedType DEF FirstShdr, e
  <2>4. ShnumOf(b) \in U64
    BY <1>1, <1>3, <2>3 DEF ShnumOf, Shdr, U64, e
  <2>5. ShnumOf(b) \in Nat /\ e.shoff \in Nat
    BY <1>1, <2>4, WidthAssumption DEF U64
  <2>6. ShdrsOf(b) \in [1 .. ShnumOf(b) -> Shdr]
    BY <2>1, <2>5, DecodedTableType, SizeAssumption DEF ShdrsOf, e
  <2>7. ShdrsOf(b) \in Seq(Shdr) /\ Len(ShdrsOf(b)) = ShnumOf(b)
    BY <2>5, <2>6, FunctionIsSequence
  <2> QED BY <2>1, <2>3, <2>4, <2>7 DEF e
<1> QED BY <1>2, <1>3

(* The program header table.                                               *)
LEMMA PhdrsType ==
  ASSUME NEW n \in Nat, NEW b \in File(n), ReadableEhdr(b, n),
         ValidShdrTable(b, n), ValidPhdrTable(b, n), n <= MaxU
  PROVE  /\ PhnumOf(b) \in U64 /\ PhnumOf(b) * PhEnt \in U64
         /\ PhdrsOf(b) \in Seq(Phdr) /\ Len(PhdrsOf(b)) = PhnumOf(b)
         /\ PhnumOf(b) # 0 => InBounds(EhdrOf(b).phoff, PhnumOf(b) * PhEnt, n)
<1> DEFINE e == EhdrOf(b)
<1>1. e.phoff \in 0 .. MaxU /\ e.phnum \in 0 .. MaxU
  BY EhdrType DEF Ehdr, U64
<1> HIDE DEF e
<1>2. CASE e.phnum = 0
  <2>1. PhnumOf(b) = 0 BY <1>2, EscapeAssumption DEF PhnumOf, e
  <2>2. PhdrsOf(b) \in [1 .. 0 -> Phdr]
    BY <2>1 DEF PhdrsOf, DecodeTable
  <2>3. 0 * PhEnt = 0 BY SizeAssumption
  <2> QED BY <2>1, <2>2, <2>3, WidthAssumption DEF U64
<1>3. CASE e.phnum # 0
  <2>1. /\ e.phnum >= PN_XNUM => ShnumOf(b) # 0
        /\ InBounds(e.phoff, PhnumOf(b) * PhEnt, n)
    BY <1>3 DEF ValidPhdrTable, e
  <2>2. PhnumOf(b) \in 0 .. MaxU
    <3>1. CASE e.phnum >= PN_XNUM
      <4>1. FirstShdr(b) \in Shdr BY <2>1, <3>1, ShdrsType
      <4> QED BY <3>1, <4>1 DEF PhnumOf, Shdr, U64, e
    <3>2. CASE ~(e.phnum >= PN_XNUM) BY <1>1, <3>2 DEF PhnumOf, e
    <3> QED BY <3>1, <3>2
  <2>3. PhnumOf(b) \in Nat /\ e.phoff \in Nat
    BY <1>1, <2>2, WidthAssumption
  <2>4. PhdrsOf(b) \in [1 .. PhnumOf(b) -> Phdr]
    BY <2>1, <2>3, DecodedTableType, SizeAssumption DEF PhdrsOf, e
  <2>5. PhdrsOf(b) \in Seq(Phdr) /\ Len(PhdrsOf(b)) = PhnumOf(b)
    BY <2>3, <2>4, FunctionIsSequence
  <2>6. PhnumOf(b) * PhEnt \in Nat BY <2>3, SizeAssumption
  <2>7. PhnumOf(b) * PhEnt \in U64
    BY <2>1, <2>6, WidthAssumption DEF InBounds, U64
  <2> QED BY <2>1, <2>2, <2>5, <2>7 DEF e, U64
<1> QED BY <1>2, <1>3

(* The dynamic segment and the dynamic table.                              *)
LEMMA DynamicType ==
  ASSUME NEW n \in Nat, NEW b \in File(n), n <= MaxU, ParseElf(b, n)
  PROVE  /\ PtDynamic(b) \in 1 .. Len(PhdrsOf(b))
         /\ PhdrsOf(b)[PtDynamic(b)].type = "DYNAMIC"
         /\ InBounds(PhdrsOf(b)[PtDynamic(b)].offset,
                     PhdrsOf(b)[PtDynamic(b)].filesz, n)
         /\ DynEntriesOf(b) \in Seq(Dyn)
         /\ Len(DynEntriesOf(b)) * DynEnt = PhdrsOf(b)[PtDynamic(b)].filesz
<1> DEFINE phs == PhdrsOf(b)
           d   == PtDynamic(b)
<1>1. phs \in Seq(Phdr) BY PhdrsType DEF ParseElf, ValidPhdrs, ValidShdrs
<1>2. ValidPtDynamic(phs, d) BY DEF ParseElf, ValidDynamic
<1>3. d \in 1 .. Len(phs) /\ phs[d].type = "DYNAMIC"
  <2>1. d \in 0 .. Len(phs) /\ (d # 0 => phs[d].type = "DYNAMIC")
    BY <1>1, UniquePhdrProperty DEF PtDynamic
  <2>2. d # 0 BY <1>2 DEF ValidPtDynamic
  <2> HIDE DEF phs, d
  <2> QED BY <2>1, <2>2
<1>4. ValidPhdrExtent(n, phs[d]) BY <1>3 DEF ParseElf, ValidPhdrs
<1> HIDE DEF phs, d
<1>5. phs[d].offset \in 0 .. MaxU /\ phs[d].filesz \in 0 .. MaxU
  <2>1. phs[d] \in Phdr BY <1>1, <1>3
  <2> QED BY <2>1 DEF Phdr, U64
<1> DEFINE num == phs[d].filesz \div DynEnt
<1>6. phs[d].filesz % DynEnt = 0 BY <1>2 DEF ValidPtDynamic
<1>7. num \in Nat /\ num * DynEnt = phs[d].filesz
  BY <1>5, <1>6, SizeAssumption, WidthAssumption
<1>8. InBounds(phs[d].offset, phs[d].filesz, n)
  BY <1>4, <1>5 DEF ValidPhdrExtent, InBounds
<1> DEFINE raw == DecodeTable("dyn", ZeroDyn, DynEnt, b, phs[d].offset, num)
<1> HIDE DEF num
<1>9. raw \in [1 .. num -> Dyn]
  <2>1. raw \in [1 .. num -> {x \in Dyn : DynFits(x)}]
    BY <1>5, <1>7, <1>8, DecodedTableType, SizeAssumption, WidthAssumption
  <2> QED BY <2>1
<1>10. Len(raw) = num BY <1>7, <1>9, FunctionIsSequence
<1>11. DynEntriesOf(b) = [i \in 1 .. Len(raw) |->
         IF \E j \in 1 .. i - 1 : raw[j].tag = "NULL" THEN ZeroDyn ELSE raw[i]]
  BY DEF DynEntriesOf, DynTableAt, UpToNull, num, phs, d
<1> HIDE DEF raw
<1>12. DynEntriesOf(b) \in [1 .. num -> Dyn]
  BY <1>9, <1>10, <1>11, ZeroStructures
<1>13. DynEntriesOf(b) \in Seq(Dyn) /\ Len(DynEntriesOf(b)) = num
  BY <1>7, <1>12, FunctionIsSequence
<1> QED BY <1>3, <1>7, <1>8, <1>13 DEF phs, d

(* An entry found by tag.                                                  *)
LEMMA DynIndexProperty ==
  ASSUME NEW es \in Seq(Dyn), NEW tag, HasUniqueDyn(es, tag)
  PROVE  DynIndex(es, tag) \in 1 .. Len(es) /\ DynVal(es, tag) \in U64
<1>1. DynIndex(es, tag) \in DynIndices(es, tag) BY DEF HasUniqueDyn, DynIndex
<1>2. DynIndex(es, tag) \in 1 .. Len(es) BY <1>1 DEF DynIndices
<1>3. es[DynIndex(es, tag)] \in Dyn BY <1>2
<1> QED BY <1>2, <1>3 DEF DynVal, Dyn

(* The dynamic string table.                                               *)
LEMMA StrtabType ==
  ASSUME NEW n \in Nat, NEW b \in File(n), n <= MaxU, ParseElf(b, n)
  PROVE  /\ StrtabOf(b).vaddr \in U64 /\ StrtabOf(b).off \in U64
         /\ StrtabOf(b).size \in U64
         /\ StrtabOf(b).shdr \in 0 .. Len(ShdrsOf(b))
<1> DEFINE es   == DynEntriesOf(b)
           addr == DynVal(es, "STRTAB")
           sz   == DynVal(es, "STRSZ")
           off  == OffFromVaddr(PhdrsOf(b), addr, sz).val
<1>1. addr \in U64 /\ sz \in U64
  BY DynamicType, DynIndexProperty DEF ParseElf, ValidDynamic
<1>2. StrtabOf(b).vaddr = addr /\ StrtabOf(b).off = off /\ StrtabOf(b).size = sz
      /\ StrtabOf(b).shdr = FirstOf(StrtabSections(ShdrsOf(b), addr, off, sz))
  BY DEF StrtabOf, StrtabAt
<1>3. OffFromVaddr(PhdrsOf(b), addr, sz).ok
  BY <1>2 DEF ParseElf, ValidDynamic, ValidStrtab, ValidStrtabAt
<1>4. PhdrsOf(b) \in Seq(Phdr) BY PhdrsType DEF ParseElf, ValidPhdrs, ValidShdrs
<1>5. off \in U64
  <2>1. addr \in Nat /\ sz \in Nat BY <1>1, WidthAssumption DEF U64
  <2> HIDE DEF addr, sz
  <2> QED BY <1>3, <1>4, <2>1, OffFromVaddrProperty
<1>6. ShdrsOf(b) \in Seq(Shdr) BY ShdrsType DEF ParseElf, ValidShdrs
<1>7. FirstOf(StrtabSections(ShdrsOf(b), addr, off, sz)) \in 0 .. Len(ShdrsOf(b))
  <2> DEFINE S == StrtabSections(ShdrsOf(b), addr, off, sz)
  <2>1. S \subseteq 1 .. Len(ShdrsOf(b)) BY DEF StrtabSections
  <2> HIDE DEF S
  <2>2. Len(ShdrsOf(b)) \in Nat BY <1>6
  <2>3. S \in SUBSET (Nat \ {0}) BY <2>1, <2>2
  <2>4. FirstOf(S) = 0 \/ FirstOf(S) \in S BY <2>3, FirstOfProperty
  <2>5. FirstOf(S) \in 0 .. Len(ShdrsOf(b))
    <3>1. CASE FirstOf(S) = 0 BY <2>2, <3>1
    <3>2. CASE FirstOf(S) \in S
      <4>1. FirstOf(S) \in 1 .. Len(ShdrsOf(b)) BY <2>1, <3>2
      <4> QED BY <2>2, <4>1
    <3> QED BY <2>4, <3>1, <3>2
  <2> QED BY <2>5 DEF S
<1> QED BY <1>1, <1>2, <1>5, <1>7

(* The segments of an accepted file do not wrap around.                    *)
LEMMA AcceptedLoadsInRange ==
  ASSUME NEW n \in Nat, NEW b \in File(n), n <= MaxU, ParseElf(b, n)
  PROVE  LoadsInRange(PhdrsOf(b))
<1> DEFINE phs == PhdrsOf(b)
<1>1. phs \in Seq(Phdr) BY PhdrsType DEF ParseElf, ValidPhdrs, ValidShdrs
<1>2. \A i \in 1 .. Len(phs) : ValidPhdrExtent(n, phs[i]) BY DEF ParseElf, ValidPhdrs
<1> HIDE DEF phs
<1>3. ASSUME NEW i \in IndicesOf(phs, "LOAD")
      PROVE  phs[i].vaddr + phs[i].memsz <= MaxU
  <2>1. i \in 1 .. Len(phs) BY DEF IndicesOf
  <2>2. phs[i] \in Phdr /\ ValidPhdrExtent(n, phs[i]) BY <1>1, <1>2, <2>1
  <2>3. phs[i].vaddr \in 0 .. MaxU /\ phs[i].memsz \in 0 .. MaxU
    BY <2>2 DEF Phdr, U64
  <2> QED BY <2>2, <2>3, WidthAssumption DEF ValidPhdrExtent
<1> QED BY <1>3 DEF LoadsInRange, phs

-----------------------------------------------------------------------------
(* What moving and serializing do to the buffer.                           *)

(* prepare_move_data grows the buffer and leaves cells in it.              *)
LEMMA MovedDataType ==
  ASSUME NEW n \in U64, NEW b \in File(n), NEW from \in U64, NEW len \in U64,
         NEW to \in U64, NEW newLen \in U64, MoveOk(n, from, len, to, newLen),
         NEW wipe
  PROVE  /\ MovedSize(n, to, newLen) \in U64
         /\ n <= MovedSize(n, to, newLen)
         /\ to + newLen <= MovedSize(n, to, newLen)
         /\ MovedData(wipe, b, n, from, len, to, newLen) \in File(MovedSize(n, to, newLen))
<1>1. /\ n \in Nat /\ from \in Nat /\ len \in Nat /\ to \in Nat /\ newLen \in Nat
      /\ n <= MaxU /\ to + newLen <= MaxU /\ from + len <= n
  BY WidthAssumption DEF U64, MoveOk, InBounds
<1> DEFINE sz == MovedSize(n, to, newLen)
<1>2. sz \in {n, to + newLen} /\ n <= sz /\ to + newLen <= sz
  BY <1>1, MaxOfTwo DEF MovedSize
<1>3. sz \in U64 BY <1>1, <1>2, WidthAssumption DEF U64
<1>4. ASSUME NEW i \in 0 .. sz - 1
      PROVE  MovedData(wipe, b, n, from, len, to, newLen)[i] \in Cell
  <2>1. Zero \in Cell /\ Filler \in Cell BY DEF Cell
  <2>2. \A k \in Nat : k < n => b[k] \in Cell BY <1>1 DEF File
  <2>3. i \in Nat BY <1>1, <1>2
  <2>4. ASSUME i \in to .. to + Min({len, newLen}) - 1
        PROVE  b[from + (i - to)] \in Cell
    <3>1. Min({len, newLen}) \in Nat /\ Min({len, newLen}) <= len
      BY <1>1, MinOfTwo
    <3>2. from + (i - to) \in Nat /\ from + (i - to) < n
      BY <1>1, <2>3, <2>4, <3>1
    <3> QED BY <2>2, <3>2
  <2> DEFINE C == Cleaned(from, len, to, newLen)
             k == Min({len, newLen})
  <2>5. MovedData(wipe, b, n, from, len, to, newLen)[i] =
          CASE i \in C -> Filler
            [] wipe /\ i \in to .. to + newLen - 1 -> Zero
            [] ~wipe /\ i \in to .. to + k - 1 -> b[from + (i - to)]
            [] OTHER -> IF i < n THEN b[i] ELSE Zero
    BY DEF MovedData
  <2>6. i \in to .. to + k - 1 => b[from + (i - to)] \in Cell BY <2>4
  <2> HIDE DEF C, k
  <2> QED BY <2>1, <2>2, <2>3, <2>5, <2>6
<1>5. MovedData(wipe, b, n, from, len, to, newLen) \in File(sz)
  BY <1>4 DEF File, MovedData
<1> QED BY <1>2, <1>3, <1>5

(* Every cell of a serialized table belongs to one of its entries.         *)
LEMMA WrittenEntry ==
  ASSUME NEW off \in Nat, NEW ent \in Nat \ {0}, NEW num \in Nat,
         NEW i \in off .. off + num * ent - 1
  PROVE  (i - off) \div ent + 1 \in 1 .. num /\ (i - off) % ent \in Nat
<1> DEFINE x == i - off
           q == x \div ent
<1>1. x \in Nat /\ x < num * ent
  <2>1. num * ent \in Nat OBVIOUS
  <2> QED BY <2>1
<1> HIDE DEF x
<1>2. q \in Nat /\ q * ent <= x BY <1>1
<1> HIDE DEF q
<1>3. q < num
  <2>1. SUFFICES ASSUME num <= q PROVE FALSE BY <1>2
  <2>2. num * ent <= q * ent BY <1>2, <2>1, ProductMonotone
  <2>3. num * ent \in Nat /\ q * ent \in Nat BY <1>2
  <2> QED BY <1>1, <1>2, <2>2, <2>3
<1>4. x % ent \in Nat BY <1>1
<1> QED BY <1>2, <1>3, <1>4 DEF q, x

(* The same of every cell at once, for a table of any record type.         *)
LEMMA WrittenEntries ==
  ASSUME NEW off \in Nat, NEW ent \in Nat \ {0}, NEW num \in Nat
  PROVE  \A i \in off .. off + num * ent - 1 :
           (i - off) \div ent + 1 \in 1 .. num /\ (i - off) % ent \in Nat
<1> TAKE i \in off .. off + num * ent - 1
<1> QED BY WrittenEntry

(* serialize_arr leaves cells in the buffer, whichever table it writes,    *)
(* when every value in it fits.                                            *)
LEMMA WrittenTableType ==
  ASSUME NEW n \in Nat, NEW b \in File(n), NEW off \in Nat
  PROVE  /\ \A tbl \in Seq(Ehdr) : (\A i \in 1 .. Len(tbl) : EhdrFits(tbl[i])) =>
               WriteTable(b, off, EhSize, tbl, EncodeEhdr) \in File(n)
         /\ \A tbl \in Seq(Phdr) : (\A i \in 1 .. Len(tbl) : PhdrFits(tbl[i])) =>
               WriteTable(b, off, PhEnt, tbl, EncodePhdr) \in File(n)
         /\ \A tbl \in Seq(Shdr) : (\A i \in 1 .. Len(tbl) : ShdrFits(tbl[i])) =>
               WriteTable(b, off, ShEnt, tbl, EncodeShdr) \in File(n)
         /\ \A tbl \in Seq(Dyn) : (\A i \in 1 .. Len(tbl) : DynFits(tbl[i])) =>
               WriteTable(b, off, DynEnt, tbl, EncodeDyn) \in File(n)
<1>1. ASSUME NEW tbl \in Seq(Ehdr), \A i \in 1 .. Len(tbl) : EhdrFits(tbl[i])
     PROVE  WriteTable(b, off, EhSize, tbl, EncodeEhdr) \in File(n)
  <2> DEFINE num == Len(tbl)
  <2>1. num \in Nat /\ EhSize \in Nat \ {0} BY SizeAssumption
  <2>2. \A e \in 1 .. num : tbl[e] \in Ehdr /\ EhdrFits(tbl[e])
    BY <1>1
  <2> HIDE DEF num
  <2>3. \A i \in off .. off + num * EhSize - 1 :
          (i - off) \div EhSize + 1 \in 1 .. num /\ (i - off) % EhSize \in Nat
    BY <2>1, WrittenEntries
  <2>4. \A i \in off .. off + num * EhSize - 1 :
          EncodeEhdr(tbl[(i - off) \div EhSize + 1], (i - off) % EhSize) \in Cell
    BY <2>2, <2>3, EncodedCells
  <2> QED BY <2>4 DEF WriteTable, File, num
<1>2. ASSUME NEW tbl \in Seq(Phdr), \A i \in 1 .. Len(tbl) : PhdrFits(tbl[i])
     PROVE  WriteTable(b, off, PhEnt, tbl, EncodePhdr) \in File(n)
  <2> DEFINE num == Len(tbl)
  <2>1. num \in Nat /\ PhEnt \in Nat \ {0} BY SizeAssumption
  <2>2. \A e \in 1 .. num : tbl[e] \in Phdr /\ PhdrFits(tbl[e])
    BY <1>2
  <2> HIDE DEF num
  <2>3. \A i \in off .. off + num * PhEnt - 1 :
          (i - off) \div PhEnt + 1 \in 1 .. num /\ (i - off) % PhEnt \in Nat
    BY <2>1, WrittenEntries
  <2>4. \A i \in off .. off + num * PhEnt - 1 :
          EncodePhdr(tbl[(i - off) \div PhEnt + 1], (i - off) % PhEnt) \in Cell
    BY <2>2, <2>3, EncodedCells
  <2> QED BY <2>4 DEF WriteTable, File, num
<1>3. ASSUME NEW tbl \in Seq(Shdr), \A i \in 1 .. Len(tbl) : ShdrFits(tbl[i])
     PROVE  WriteTable(b, off, ShEnt, tbl, EncodeShdr) \in File(n)
  <2> DEFINE num == Len(tbl)
  <2>1. num \in Nat /\ ShEnt \in Nat \ {0} BY SizeAssumption
  <2>2. \A e \in 1 .. num : tbl[e] \in Shdr /\ ShdrFits(tbl[e])
    BY <1>3
  <2> HIDE DEF num
  <2>3. \A i \in off .. off + num * ShEnt - 1 :
          (i - off) \div ShEnt + 1 \in 1 .. num /\ (i - off) % ShEnt \in Nat
    BY <2>1, WrittenEntries
  <2>4. \A i \in off .. off + num * ShEnt - 1 :
          EncodeShdr(tbl[(i - off) \div ShEnt + 1], (i - off) % ShEnt) \in Cell
    BY <2>2, <2>3, EncodedCells
  <2> QED BY <2>4 DEF WriteTable, File, num
<1>4. ASSUME NEW tbl \in Seq(Dyn), \A i \in 1 .. Len(tbl) : DynFits(tbl[i])
     PROVE  WriteTable(b, off, DynEnt, tbl, EncodeDyn) \in File(n)
  <2> DEFINE num == Len(tbl)
  <2>1. num \in Nat /\ DynEnt \in Nat \ {0} BY SizeAssumption
  <2>2. \A e \in 1 .. num : tbl[e] \in Dyn /\ DynFits(tbl[e])
    BY <1>4
  <2> HIDE DEF num
  <2>3. \A i \in off .. off + num * DynEnt - 1 :
          (i - off) \div DynEnt + 1 \in 1 .. num /\ (i - off) % DynEnt \in Nat
    BY <2>1, WrittenEntries
  <2>4. \A i \in off .. off + num * DynEnt - 1 :
          EncodeDyn(tbl[(i - off) \div DynEnt + 1], (i - off) % DynEnt) \in Cell
    BY <2>2, <2>3, EncodedCells
  <2> QED BY <2>4 DEF WriteTable, File, num
<1> QED BY <1>1, <1>2, <1>3, <1>4

-----------------------------------------------------------------------------
(* The bytes of the table tbl, written at off.                             *)
TableAt(kind, zero, ent, b, off, tbl) ==
  \A i \in 1 .. Len(tbl) : \A k \in 0 .. ent - 1 :
     b[off + (i - 1) * ent + k] = Encode(kind, zero, tbl[i], k)

(* Cell k of entry i of a table, and back.                                 *)
LEMMA EntryCell ==
  ASSUME NEW ent \in Nat \ {0}, NEW off \in Nat, NEW num \in Nat,
         NEW i \in 1 .. num, NEW k \in 0 .. ent - 1,
         NEW c, c = off + (i - 1) * ent + k
  PROVE  /\ c \in off .. off + num * ent - 1
         /\ (c - off) \div ent + 1 = i /\ (c - off) % ent = k
<1> DEFINE x == (i - 1) * ent
           z == x + k
<1>1. x \in Nat /\ i - 1 \in Nat /\ z \in Nat OBVIOUS
<1>2. x + ent = i * ent /\ i * ent <= num * ent
  <2>1. x + ent = i * ent OBVIOUS
  <2>2. i * ent <= num * ent BY ProductMonotone
  <2> QED BY <2>1, <2>2
<1>3. z \div ent = i - 1
  <2>1. (i - 1) * ent <= z /\ z < (i - 1) * ent + ent BY <1>1
  <2> HIDE DEF z
  <2> QED BY <1>1, <2>1, DivisionUnique
<1>4. num * ent \in Nat OBVIOUS
<1> HIDE DEF x
<1>5. z % ent = k
  <2>1. z = (z \div ent) * ent + (z % ent)
    <3> HIDE DEF z
    <3> QED BY <1>1
  <2>2. (z \div ent) * ent = x BY <1>3 DEF x
  <2> DEFINE r == z % ent
             y == (z \div ent) * ent
  <2>3. r \in Nat
    <3> HIDE DEF z
    <3> QED BY <1>1
  <2>4. z = y + r /\ y = x
    <3> HIDE DEF z
    <3> QED BY <2>1, <2>2
  <2> HIDE DEF r, y
  <2>5. x + k = x + r BY <2>4
  <2>6. r = k BY <1>1, <2>3, <2>5
  <2> QED BY <2>6 DEF r
<1>6. c = off + z BY <1>1 DEF x
<1>7. c \in off .. off + num * ent - 1 /\ c - off = z BY <1>1, <1>2, <1>4, <1>6
<1>8. i - 1 + 1 = i OBVIOUS
<1> QED BY <1>3, <1>5, <1>7, <1>8

(* An entry whose cells are all there is readable, and is what is read.    *)
LEMMA EntryRead ==
  ASSUME NEW kind, kind # "zero", NEW zero, NEW v, NEW ent \in Nat \ {0},
         NEW b, NEW off \in Nat,
         \A k \in 0 .. ent - 1 : b[off + k] = Encode(kind, zero, v, k)
  PROVE  Decode(kind, zero, b, off) = v /\ Readable(kind, zero, ent, b, off)
<1>1. 0 \in 0 .. ent - 1 /\ off + 0 = off OBVIOUS
<1>2. b[off] = Encode(kind, zero, v, 0) BY <1>1
<1>3. Decode(kind, zero, b, off) = v
  <2>1. CASE v = zero
    <3>1. b[off] = <<"zero">> BY <1>2, <2>1 DEF Encode, Zero
    <3>2. b[off][1] # kind BY <3>1
    <3> QED BY <2>1, <3>2 DEF Decode
  <2>2. CASE v # zero
    <3>1. b[off] = <<kind, v, 0>> BY <1>2, <2>2 DEF Encode
    <3>2. b[off][1] = kind /\ b[off][2] = v BY <3>1
    <3> QED BY <3>2 DEF Decode
  <2> QED BY <2>1, <2>2
<1> QED BY <1>3 DEF Readable

(* A table whose cells are all there is readable, and is what is read.     *)
LEMMA TableRead ==
  ASSUME NEW kind, kind # "zero", NEW zero, NEW ent \in Nat \ {0},
         NEW b, NEW off \in Nat, NEW S, NEW tbl \in Seq(S),
         TableAt(kind, zero, ent, b, off, tbl)
  PROVE  /\ DecodeTable(kind, zero, ent, b, off, Len(tbl)) = tbl
         /\ ReadableTable(kind, zero, ent, b, off, Len(tbl))
<1>1. ASSUME NEW i \in 1 .. Len(tbl)
      PROVE  /\ Decode(kind, zero, b, off + (i - 1) * ent) = tbl[i]
             /\ Readable(kind, zero, ent, b, off + (i - 1) * ent)
  <2> DEFINE at == off + (i - 1) * ent
  <2>1. at \in Nat OBVIOUS
  <2>2. \A k \in 0 .. ent - 1 : b[at + k] = Encode(kind, zero, tbl[i], k)
    BY DEF TableAt
  <2> HIDE DEF at
  <2>3. Decode(kind, zero, b, at) = tbl[i] /\ Readable(kind, zero, ent, b, at)
    BY <2>1, <2>2, EntryRead
  <2> QED BY <2>3 DEF at
<1>2. DecodeTable(kind, zero, ent, b, off, Len(tbl)) = [i \in 1 .. Len(tbl) |-> tbl[i]]
  BY <1>1 DEF DecodeTable
<1>3. tbl = [i \in 1 .. Len(tbl) |-> tbl[i]] OBVIOUS
<1> QED BY <1>1, <1>2, <1>3 DEF ReadableTable

(* What a readable table's cells are.                                      *)
LEMMA ReadTable ==
  ASSUME NEW kind, NEW zero, NEW ent \in Nat \ {0}, NEW b, NEW off \in Nat,
         NEW num \in Nat, ReadableTable(kind, zero, ent, b, off, num)
  PROVE  TableAt(kind, zero, ent, b, off, DecodeTable(kind, zero, ent, b, off, num))
<1> DEFINE tbl == DecodeTable(kind, zero, ent, b, off, num)
<1>1. Len(tbl) = num /\ \A i \in 1 .. num :
         tbl[i] = Decode(kind, zero, b, off + (i - 1) * ent)
  BY DEF DecodeTable
<1> HIDE DEF tbl
<1>2. ASSUME NEW i \in 1 .. Len(tbl), NEW k \in 0 .. ent - 1
      PROVE  b[off + (i - 1) * ent + k] = Encode(kind, zero, tbl[i], k)
  <2>1. i \in 1 .. num BY <1>1
  <2>2. Readable(kind, zero, ent, b, off + (i - 1) * ent)
    BY <2>1 DEF ReadableTable
  <2> QED BY <1>1, <2>1, <2>2 DEF Readable
<1>3. TableAt(kind, zero, ent, b, off, tbl) BY <1>2 DEF TableAt
<1> QED BY <1>3 DEF tbl

(* Writes elsewhere leave a table alone.                                   *)
LEMMA TableKept ==
  ASSUME NEW kind, NEW zero, NEW ent \in Nat \ {0}, NEW b, NEW c, NEW off \in Nat,
         NEW S, NEW tbl \in Seq(S), TableAt(kind, zero, ent, b, off, tbl),
         \A x \in off .. off + Len(tbl) * ent - 1 : c[x] = b[x]
  PROVE  TableAt(kind, zero, ent, c, off, tbl)
<1> SUFFICES ASSUME NEW i \in 1 .. Len(tbl), NEW k \in 0 .. ent - 1
             PROVE  c[off + (i - 1) * ent + k] = Encode(kind, zero, tbl[i], k)
  BY DEF TableAt
<1>1. b[off + (i - 1) * ent + k] = Encode(kind, zero, tbl[i], k) BY DEF TableAt
<1>2. off + (i - 1) * ent + k \in off .. off + Len(tbl) * ent - 1
  <2>1. Len(tbl) \in Nat OBVIOUS
  <2> QED BY <2>1, EntryCell
<1> QED BY <1>1, <1>2

(* A loop over the cells of a table that fits leaves the table there.      *)
LEMMA TableFilled ==
  ASSUME NEW n \in Nat, NEW b \in File(n), NEW off \in Nat, NEW ent \in Nat \ {0},
         NEW kind, NEW zero, NEW S, NEW tbl \in Seq(S), off + Len(tbl) * ent <= n,
         NEW w, \A x \in DOMAIN b : x \in off .. off + Len(tbl) * ent - 1 =>
                  w[x] = Encode(kind, zero, tbl[(x - off) \div ent + 1], (x - off) % ent)
  PROVE  TableAt(kind, zero, ent, w, off, tbl)
<1>1. PICK num \in Nat : num = Len(tbl) OBVIOUS
<1>2. off + num * ent <= n /\ num * ent \in Nat BY <1>1
<1>3. ASSUME NEW i \in 1 .. num, NEW k \in 0 .. ent - 1,
             NEW c, c = off + (i - 1) * ent + k
      PROVE  w[c] = Encode(kind, zero, tbl[i], k)
  <2>1. /\ c \in off .. off + num * ent - 1
        /\ (c - off) \div ent + 1 = i /\ (c - off) % ent = k
    BY ONLY <1>3, EntryCell, off \in Nat, ent \in Nat \ {0}, num \in Nat,
       i \in 1 .. num, k \in 0 .. ent - 1
  <2>2. c \in 0 .. n - 1 BY ONLY <1>2, <2>1, n \in Nat, off \in Nat
  <2>3. c \in DOMAIN b BY <2>2 DEF File
  <2>4. w[c] = Encode(kind, zero, tbl[(c - off) \div ent + 1], (c - off) % ent)
    BY <1>1, <2>1, <2>3
  <2> QED BY <2>1, <2>4
<1> QED BY <1>1, <1>3 DEF TableAt

(* What serialize_arr writes is there, kind by kind.                       *)
LEMMA TableWritten ==
  ASSUME NEW n \in Nat, NEW b \in File(n), NEW off \in Nat
  PROVE  /\ \A tbl \in Seq(Phdr) : off + Len(tbl) * PhEnt <= n =>
              TableAt("phdr", ZeroPhdr, PhEnt,
                      WriteTable(b, off, PhEnt, tbl, EncodePhdr), off, tbl)
         /\ \A tbl \in Seq(Shdr) : off + Len(tbl) * ShEnt <= n =>
              TableAt("shdr", ZeroShdr, ShEnt,
                      WriteTable(b, off, ShEnt, tbl, EncodeShdr), off, tbl)
         /\ \A tbl \in Seq(Dyn) : off + Len(tbl) * DynEnt <= n =>
              TableAt("dyn", ZeroDyn, DynEnt,
                      WriteTable(b, off, DynEnt, tbl, EncodeDyn), off, tbl)
<1>1. ASSUME NEW tbl \in Seq(Phdr), off + Len(tbl) * PhEnt <= n
      PROVE  TableAt("phdr", ZeroPhdr, PhEnt,
                     WriteTable(b, off, PhEnt, tbl, EncodePhdr), off, tbl)
  <2> DEFINE w == WriteTable(b, off, PhEnt, tbl, EncodePhdr)
  <2>1. \A x \in DOMAIN b : x \in off .. off + Len(tbl) * PhEnt - 1 =>
          w[x] = Encode("phdr", ZeroPhdr, tbl[(x - off) \div PhEnt + 1], (x - off) % PhEnt)
    BY DEF WriteTable, EncodePhdr
  <2> HIDE DEF w
  <2>2. TableAt("phdr", ZeroPhdr, PhEnt, w, off, tbl)
    BY <1>1, <2>1, SizeAssumption, TableFilled
  <2> QED BY <2>2 DEF w
<1>2. ASSUME NEW tbl \in Seq(Shdr), off + Len(tbl) * ShEnt <= n
      PROVE  TableAt("shdr", ZeroShdr, ShEnt,
                     WriteTable(b, off, ShEnt, tbl, EncodeShdr), off, tbl)
  <2> DEFINE w == WriteTable(b, off, ShEnt, tbl, EncodeShdr)
  <2>1. \A x \in DOMAIN b : x \in off .. off + Len(tbl) * ShEnt - 1 =>
          w[x] = Encode("shdr", ZeroShdr, tbl[(x - off) \div ShEnt + 1], (x - off) % ShEnt)
    BY DEF WriteTable, EncodeShdr
  <2> HIDE DEF w
  <2>2. TableAt("shdr", ZeroShdr, ShEnt, w, off, tbl)
    BY <1>2, <2>1, SizeAssumption, TableFilled
  <2> QED BY <2>2 DEF w
<1>3. ASSUME NEW tbl \in Seq(Dyn), off + Len(tbl) * DynEnt <= n
      PROVE  TableAt("dyn", ZeroDyn, DynEnt,
                     WriteTable(b, off, DynEnt, tbl, EncodeDyn), off, tbl)
  <2> DEFINE w == WriteTable(b, off, DynEnt, tbl, EncodeDyn)
  <2>1. \A x \in DOMAIN b : x \in off .. off + Len(tbl) * DynEnt - 1 =>
          w[x] = Encode("dyn", ZeroDyn, tbl[(x - off) \div DynEnt + 1], (x - off) % DynEnt)
    BY DEF WriteTable, EncodeDyn
  <2> HIDE DEF w
  <2>2. TableAt("dyn", ZeroDyn, DynEnt, w, off, tbl)
    BY <1>3, <2>1, SizeAssumption, TableFilled
  <2> QED BY <2>2 DEF w
<1> QED BY <1>1, <1>2, <1>3

(* What the parser stores for an accepted file.                            *)
LEMMA AcceptedTypes ==
  ASSUME NEW n \in Nat, NEW b \in File(n), n <= MaxU, ParseElf(b, n)
  PROVE  /\ EhdrOf(b) \in Ehdr
         /\ ShdrsOf(b) \in Seq(Shdr) /\ Len(ShdrsOf(b)) = ShnumOf(b)
         /\ PhdrsOf(b) \in Seq(Phdr) /\ Len(PhdrsOf(b)) = PhnumOf(b)
         /\ DynEntriesOf(b) \in Seq(Dyn)
         /\ StrtabOf(b).vaddr \in U64 /\ StrtabOf(b).off \in U64
         /\ StrtabOf(b).size \in U64
         /\ StrtabOf(b).shdr \in 0 .. Len(ShdrsOf(b))
         /\ StrtabOf(b) = [vaddr |-> StrtabOf(b).vaddr, off |-> StrtabOf(b).off,
                           size |-> StrtabOf(b).size, shdr |-> StrtabOf(b).shdr]
         /\ ShtDynamic(ShdrsOf(b)) \in 0 .. Len(ShdrsOf(b))
<1>1. ReadableEhdr(b, n) /\ ValidShdrTable(b, n) /\ ValidPhdrTable(b, n)
  BY DEF ParseElf, ValidShdrs, ValidPhdrs
<1>2. EhdrOf(b) \in Ehdr BY <1>1, EhdrType
<1>3. ShdrsOf(b) \in Seq(Shdr) /\ Len(ShdrsOf(b)) = ShnumOf(b) BY <1>1, ShdrsType
<1>4. PhdrsOf(b) \in Seq(Phdr) /\ Len(PhdrsOf(b)) = PhnumOf(b) BY <1>1, PhdrsType
<1>5. DynEntriesOf(b) \in Seq(Dyn) BY DynamicType
<1>6. /\ StrtabOf(b).vaddr \in U64 /\ StrtabOf(b).off \in U64
      /\ StrtabOf(b).size \in U64 /\ StrtabOf(b).shdr \in 0 .. Len(ShdrsOf(b))
  BY StrtabType
<1>7. StrtabOf(b) = [vaddr |-> StrtabOf(b).vaddr, off |-> StrtabOf(b).off,
                     size |-> StrtabOf(b).size, shdr |-> StrtabOf(b).shdr]
  BY DEF StrtabOf, StrtabAt
<1>8. ShtDynamic(ShdrsOf(b)) \in 0 .. Len(ShdrsOf(b))
  <2> DEFINE shs == ShdrsOf(b)
             S == {i \in 1 .. Len(shs) : shs[i].type = "DYNAMIC"}
  <2>1. Len(shs) \in Nat BY <1>3
  <2>2. S \subseteq 1 .. Len(shs) OBVIOUS
  <2>3. ShtDynamic(shs) = FirstOf(S) BY DEF ShtDynamic
  <2> HIDE DEF shs, S
  <2>4. S \in SUBSET (Nat \ {0}) BY <2>1, <2>2
  <2>5. FirstOf(S) = 0 \/ FirstOf(S) \in 1 .. Len(shs) BY <2>2, <2>4, FirstOfProperty
  <2>6. FirstOf(S) \in 0 .. Len(shs) BY <2>1, <2>5
  <2> QED BY <2>3, <2>6 DEF shs
<1> QED BY <1>2, <1>3, <1>4, <1>5, <1>6, <1>7, <1>8

(* And every value in it is one that the file's class can hold.            *)
LEMMA AcceptedFits ==
  ASSUME NEW n \in Nat, NEW b \in File(n), n <= MaxU, ParseElf(b, n)
  PROVE  /\ EhdrFits(EhdrOf(b))
         /\ \A i \in 1 .. Len(PhdrsOf(b)) : PhdrFits(PhdrsOf(b)[i])
         /\ \A i \in 1 .. Len(ShdrsOf(b)) : ShdrFits(ShdrsOf(b)[i])
         /\ \A i \in 1 .. Len(DynEntriesOf(b)) : DynFits(DynEntriesOf(b)[i])
<1> DEFINE e == EhdrOf(b)
           d == PhdrsOf(b)[PtDynamic(b)]
<1>1. /\ ReadableEhdr(b, n) /\ ValidShdrTable(b, n) /\ ValidPhdrTable(b, n)
      /\ EhdrOf(b) \in Ehdr /\ PhdrsOf(b) \in Seq(Phdr) /\ ShdrsOf(b) \in Seq(Shdr)
      /\ Len(PhdrsOf(b)) = PhnumOf(b) /\ Len(ShdrsOf(b)) = ShnumOf(b)
  BY AcceptedTypes DEF ParseElf, ValidShdrs, ValidPhdrs
<1>2. EhdrFits(EhdrOf(b))
  <2>1. 0 \in 0 .. n - 1 BY <1>1, SizeAssumption DEF ReadableEhdr
  <2>2. b[0] \in Cell /\ b[0][1] = "ehdr" BY <1>1, <2>1 DEF File, ReadableEhdr
  <2> QED BY <2>2, CellContents DEF EhdrOf, Decode
<1>3. /\ \A x \in U64 : x \in Nat
      /\ e.phoff \in U64 /\ e.shoff \in U64
      /\ PhnumOf(b) \in Nat /\ ShnumOf(b) \in Nat
  BY <1>1, WidthAssumption DEF Ehdr, U64
<1>4. ASSUME NEW i \in 1 .. Len(PhdrsOf(b)) PROVE PhdrFits(PhdrsOf(b)[i])
  <2>1. InBounds(e.phoff, PhnumOf(b) * PhEnt, n) /\ i \in 1 .. PhnumOf(b)
    BY <1>1, <1>4, PhdrsType
  <2>2. PhdrsOf(b) \in [1 .. PhnumOf(b) -> {p \in Phdr : PhdrFits(p)}]
    <3> HIDE DEF e
    <3> QED BY <1>3, <2>1, DecodedTableType, SizeAssumption DEF PhdrsOf, e
  <2> QED BY <2>1, <2>2
<1>5. ASSUME NEW i \in 1 .. Len(ShdrsOf(b)) PROVE ShdrFits(ShdrsOf(b)[i])
  <2>1. InBounds(e.shoff, ShnumOf(b) * ShEnt, n) /\ i \in 1 .. ShnumOf(b)
    BY <1>1, <1>5, ShdrsType
  <2>2. ShdrsOf(b) \in [1 .. ShnumOf(b) -> {s \in Shdr : ShdrFits(s)}]
    <3> HIDE DEF e
    <3> QED BY <1>3, <2>1, DecodedTableType, SizeAssumption DEF ShdrsOf, e
  <2> QED BY <2>1, <2>2
<1>6. ASSUME NEW i \in 1 .. Len(DynEntriesOf(b)) PROVE DynFits(DynEntriesOf(b)[i])
  <2> DEFINE num == d.filesz \div DynEnt
             raw == DynTableAt(b, d)
  <2>1. /\ PtDynamic(b) \in 1 .. Len(PhdrsOf(b)) /\ InBounds(d.offset, d.filesz, n)
        /\ Len(DynEntriesOf(b)) * DynEnt = d.filesz
        /\ DynEntriesOf(b) \in Seq(Dyn)
    BY DynamicType
  <2>2. d.offset \in Nat /\ d.filesz \in Nat
    <3>1. d \in Phdr BY <1>1, <2>1
    <3> QED BY <1>3, <3>1 DEF Phdr
  <2>3. d.filesz % DynEnt = 0 BY DEF ParseElf, ValidDynamic, ValidPtDynamic
  <2> HIDE DEF d
  <2>4. num \in Nat /\ num * DynEnt = d.filesz
    <3>1. PICK f \in Nat : f = d.filesz BY <2>2
    <3>2. PICK k \in Nat \ {0} : k = DynEnt BY SizeAssumption
    <3>3. f % k = 0 BY <2>3, <3>1, <3>2
    <3>4. f \div k \in Nat /\ (f \div k) * k = f BY <3>3
    <3> QED BY <3>1, <3>2, <3>4
  <2> HIDE DEF num
  <2>5. raw \in [1 .. num -> {x \in Dyn : DynFits(x)}]
    BY <2>1, <2>2, <2>4, DecodedTableType, SizeAssumption DEF DynTableAt, num
  <2>6. Len(raw) = num BY <2>4, <2>5, FunctionIsSequence
  <2>7. DynEntriesOf(b) = [j \in 1 .. num |->
          IF \E k \in 1 .. j - 1 : raw[k].tag = "NULL" THEN ZeroDyn ELSE raw[j]]
    BY <2>6 DEF DynEntriesOf, UpToNull, d
  <2> HIDE DEF raw
  <2>8. \A j \in 1 .. num : DynFits(DynEntriesOf(b)[j])
    BY <2>5, <2>7, ZeroStructures
  <2>9. DOMAIN DynEntriesOf(b) = 1 .. num BY <2>7
  <2>10. Len(DynEntriesOf(b)) = num
    <3>1. DOMAIN DynEntriesOf(b) = 1 .. Len(DynEntriesOf(b)) /\ Len(DynEntriesOf(b)) \in Nat
      BY <2>1
    <3>2. PICK l \in Nat : l = Len(DynEntriesOf(b)) BY <3>1
    <3>3. 1 .. l = 1 .. num BY <2>9, <3>1, <3>2
    <3> QED BY <2>4, <3>2, <3>3
  <2> QED BY <1>6, <2>8, <2>10
<1> QED BY <1>2, <1>4, <1>5, <1>6

(* The section headers of .dynstr and .dynamic are those that describe     *)
(* them, of the right types, and differ.                                   *)
LEMMA AcceptedSections ==
  ASSUME NEW n \in Nat, NEW b \in File(n), n <= MaxU, ParseElf(b, n)
  PROVE  LET shs == ShdrsOf(b)
             st  == StrtabOf(b)
             d   == ShtDynamic(shs)
             pt  == PhdrsOf(b)[PtDynamic(b)]
         IN  /\ st.shdr # 0 => /\ shs[st.shdr].type = "STRTAB"
                               /\ shs[st.shdr].addr = st.vaddr
                               /\ shs[st.shdr].offset = st.off
                               /\ shs[st.shdr].size = st.size
             /\ d # 0 => /\ shs[d].type = "DYNAMIC"
                         /\ shs[d].addr = pt.vaddr
                         /\ shs[d].offset = pt.offset
                         /\ shs[d].size = pt.filesz
                         /\ st.shdr # 0 /\ shs[d].link = st.shdr - 1
             /\ st.shdr # 0 => st.shdr # d
<1> DEFINE shs == ShdrsOf(b)
           st  == StrtabOf(b)
           d   == ShtDynamic(shs)
           pt  == PhdrsOf(b)[PtDynamic(b)]
           T   == StrtabSections(shs, st.vaddr, st.off, st.size)
           S   == {i \in 1 .. Len(shs) : shs[i].type = "DYNAMIC"}
<1>1. ValidStrtabAt(b, PhdrsOf(b), shs, st) /\ ValidShtDynamic(shs, pt)
  BY DEF ParseElf, ValidDynamic, ValidStrtab
<1>2. Len(shs) \in Nat BY AcceptedTypes
<1>3. st.shdr = FirstOf(T) BY DEF StrtabOf, StrtabAt
<1>4. T \in SUBSET (Nat \ {0}) BY <1>2 DEF StrtabSections
<1>5. S \in SUBSET (Nat \ {0}) BY <1>2
<1>6. d = FirstOf(S) BY DEF ShtDynamic
<1>7. st.shdr # 0 => st.shdr \in T BY <1>3, <1>4, FirstOfProperty
<1>8. d # 0 => d \in S BY <1>5, <1>6, FirstOfProperty
<1>9. st.shdr # 0 => /\ shs[st.shdr].type = "STRTAB"
                     /\ shs[st.shdr].addr = st.vaddr
                     /\ shs[st.shdr].offset = st.off
                     /\ shs[st.shdr].size = st.size
  BY <1>1, <1>7 DEF ValidStrtabAt
<1>10. d # 0 => /\ shs[d].type = "DYNAMIC"
                /\ shs[d].addr = pt.vaddr
                /\ shs[d].offset = pt.offset
                /\ shs[d].size = pt.filesz
                /\ st.shdr # 0 /\ shs[d].link = st.shdr - 1
  BY <1>1, <1>8 DEF ValidStrtabAt, ValidShtDynamic
<1>11. st.shdr # 0 => st.shdr # d
  <2> HIDE DEF shs, st, d
  <2> QED BY <1>9, <1>10
<1> QED BY <1>9, <1>10, <1>11

=============================================================================
