------------------------------ MODULE ElfBytes ------------------------------
(***************************************************************************)
(* The bytes of an ELF file and the structures stored in them.             *)
(*                                                                         *)
(* A file is a sequence of cells numbered from 0.  A table entry of size n *)
(* occupies n consecutive cells <<kind, value, 0>> .. <<kind, value, n-1>>,*)
(* so it can be read back only where all of its cells survived in order:   *)
(* overwriting any of them, reading at a shifted offset or with the wrong  *)
(* entry size all make it unreadable, which is what the properties need    *)
(* of bytes.  (The program would take such bytes for some other structure; *)
(* the model refuses the file.)  An all-zero structure is stored as zero   *)
(* cells, because that is how calloc and memset produce one.               *)
(*                                                                         *)
(* The sizes of the structures are constants; the two ELF classes differ   *)
(* in them and in MaxField, the largest value a field of the class holds.  *)
(***************************************************************************)
EXTENDS Integers, Sequences, FiniteSetsExt

CONSTANTS
  MaxU,           \* UINT64_MAX, the largest value of a 64-bit integer
  MaxField,       \* the largest Addr/Off/Xword the file's class can store
  MaxWord,        \* UINT32_MAX, the largest Word
  EhSize,         \* sizeof(ElfXX_Ehdr)
  PhEnt,          \* sizeof(ElfXX_Phdr)
  ShEnt,          \* sizeof(ElfXX_Shdr)
  DynEnt,         \* sizeof(ElfXX_Dyn)
  PageSize,       \* the 4096 that find_load_segment_limits falls back to
  PN_XNUM,        \* e_phnum escape value
  SHN_LORESERVE,  \* first reserved section index
  SHN_XINDEX,     \* e_shstrndx escape value
  Names,          \* the strings a dynamic string table can hold
  NameLen         \* strlen of each

ASSUME WidthAssumption ==
  /\ MaxU \in Nat
  /\ MaxField \in 0 .. MaxU
  /\ MaxWord \in Nat

U64 == 0 .. MaxU

ASSUME NameAssumption == NameLen \in [Names -> Nat \ {0}]

ASSUME SizeAssumption ==
  /\ EhSize \in Nat \ {0}
  /\ PhEnt \in Nat \ {0}
  /\ ShEnt \in Nat \ {0}
  /\ DynEnt \in Nat \ {0}
  /\ PageSize \in 1 .. MaxU

ASSUME EscapeAssumption ==
  /\ PN_XNUM \in Nat \ {0}
  /\ SHN_LORESERVE \in Nat \ {0}
  /\ SHN_XINDEX \in Nat
  /\ SHN_LORESERVE <= SHN_XINDEX

-----------------------------------------------------------------------------
(* The structures, with the fields that any decision depends on.           *)

Ehdr == [phoff : U64, phentsize : U64, phnum : U64,
         shoff : U64, shentsize : U64, shnum : U64, shstrndx : U64]

Phdr == [type : {"NULL", "LOAD", "DYNAMIC", "INTERP", "PHDR", "OTHER"},
         write : BOOLEAN,
         offset : U64, vaddr : U64, filesz : U64, memsz : U64, align : U64]

Shdr == [type : {"NULL", "STRTAB", "DYNAMIC", "NOBITS", "OTHER"},
         alloc : BOOLEAN,
         addr : U64, offset : U64, size : U64, link : U64, info : U64]

Dyn == [tag : {"NULL", "NEEDED", "STRTAB", "STRSZ", "OTHER"}, val : U64]

ZeroPhdr == [type |-> "NULL", write |-> FALSE, offset |-> 0, vaddr |-> 0,
             filesz |-> 0, memsz |-> 0, align |-> 0]

ZeroShdr == [type |-> "NULL", alloc |-> FALSE, addr |-> 0, offset |-> 0,
             size |-> 0, link |-> 0, info |-> 0]

ZeroDyn == [tag |-> "NULL", val |-> 0]

(* What a file of the class can hold; the write functions refuse others.   *)
EhdrFits(e) == e.phoff <= MaxField /\ e.shoff <= MaxField
PhdrFits(p) == \A f \in {p.offset, p.vaddr, p.filesz, p.memsz, p.align} : f <= MaxField
ShdrFits(s) == \A f \in {s.addr, s.offset, s.size} : f <= MaxField
DynFits(d)  == d.val <= MaxField

-----------------------------------------------------------------------------
(* Cells.                                                                  *)

Zero   == <<"zero">>            \* a NUL byte
Filler == <<"TEST">>            \* SUS_REPLACEMENT_STRING

Cell == {Zero, Filler}
          \cup ({"ehdr"} \X {e \in Ehdr : EhdrFits(e)} \X Nat)
          \cup ({"phdr"} \X {p \in Phdr : PhdrFits(p)} \X Nat)
          \cup ({"shdr"} \X {s \in Shdr : ShdrFits(s)} \X Nat)
          \cup ({"dyn"} \X {d \in Dyn : DynFits(d)} \X Nat)
          \cup ({"chr"} \X Names \X Nat)    \* a character of a string
          \cup ({"code"} \X Nat)            \* anything the program never reads

Encode(kind, zero, v, k) == IF v = zero THEN Zero ELSE <<kind, v, k>>

EncodeEhdr(e, k) == <<"ehdr", e, k>>
EncodePhdr(p, k) == Encode("phdr", ZeroPhdr, p, k)
EncodeShdr(s, k) == Encode("shdr", ZeroShdr, s, k)
EncodeDyn(d, k)  == Encode("dyn", ZeroDyn, d, k)

(* What a read of an entry of `ent` cells at offset `off` finds there.     *)
Decode(kind, zero, b, off) == IF b[off][1] = kind THEN b[off][2] ELSE zero

Readable(kind, zero, ent, b, off) ==
  \A k \in 0 .. ent - 1 :
     b[off + k] = Encode(kind, zero, Decode(kind, zero, b, off), k)

(* A table of `num` entries; entry i (from 1) is at off + (i - 1) * ent.   *)
DecodeTable(kind, zero, ent, b, off, num) ==
  [i \in 1 .. num |-> Decode(kind, zero, b, off + (i - 1) * ent)]

ReadableTable(kind, zero, ent, b, off, num) ==
  \A i \in 1 .. num : Readable(kind, zero, ent, b, off + (i - 1) * ent)

-----------------------------------------------------------------------------
(* File contents.                                                          *)

File(n) == [0 .. n - 1 -> Cell]

IsFile(f) == /\ f.size \in U64
             /\ f = [size |-> f.size, buf |-> f.buf]
             /\ f.buf \in File(f.size)

EmptyFile == [size |-> 0, buf |-> [i \in 0 .. -1 |-> Zero]]

Prefix(f, n) == [size |-> n, buf |-> [i \in 0 .. n - 1 |-> f.buf[i]]]

(* serialize_arr: `tbl` written over b at off, each entry `ent` cells.     *)
WriteTable(b, off, ent, tbl, Enc(_, _)) ==
  [i \in DOMAIN b |->
     IF i \in off .. off + Len(tbl) * ent - 1
     THEN Enc(tbl[(i - off) \div ent + 1], (i - off) % ent)
     ELSE b[i]]

(* The bounds that every write function and serialize_arr check.           *)
InBounds(off, len, n) == len <= n /\ off <= n - len

=============================================================================
