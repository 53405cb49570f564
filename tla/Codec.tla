------------------------------- MODULE Codec --------------------------------
(***************************************************************************)
(* elf-types.c: how one structure gets into the file and out of it.        *)
(*                                                                         *)
(* The program keeps every structure in its 64-bit form, in the byte order *)
(* of the host.  A read_ or write_ function calls one primitive per field, *)
(* each of the width the file's class gives it and in the file's byte      *)
(* order; the two classes also differ in the order of the fields.  The     *)
(* first primitive that fails ends the call, with the bytes (or the fields)*)
(* before it done.  Each step here is one such primitive.                  *)
(*                                                                         *)
(* One structure is followed through a run of the tool: read_elf reads it, *)
(* the helpers change a field, serialize_elf writes it and the sanity      *)
(* check reads it again.  A structure the tool adds is not read before.    *)
(*                                                                         *)
(* Only the number of values of a byte is scaled (Base, 256 in the code);  *)
(* widths in bytes, and so the sizes of the structures, are the real ones. *)
(***************************************************************************)
EXTENDS Integers, Sequences, FiniteSetsExt, Functions

CONSTANTS
  Base,           \* number of values of a byte
  Kinds,          \* the structures to follow
  Starts,         \* bound: offsets of the structure, all but the ELF header's
  Slacks,         \* bound: bytes of the file behind the structure, < 0 if cut
  Fillings,       \* bound: values of the bytes in the file at first
  Edges(_, _)     \* bound: values a field of this width and sign is set to

ASSUME BaseAssumption == Base \in Nat \ {0, 1} /\ Base % 2 = 0

VARIABLES
  host,           \* byte order of the machine
  kind,           \* the structure followed
  data,           \* ElfFileData
  start,          \* offset of the structure
  val,            \* the structure in memory
  pc,             \* the call main is in or about to make
  todo,           \* what the called function has left to do, <<>> before
  running,        \* a call has begun
  off,            \* the function's *off_p
  before,         \* history: data.buf when the call began
  last,           \* history: the last call that returned, a read or a write
  ret             \* what it returned

vars == <<host, kind, data, start, val, pc, todo, running, off, before, last, ret>>

Orders == {"LSB", "MSB"}

-----------------------------------------------------------------------------
(* ELF_PRIMITIVE_LIST: bytes in either class, absent from ELF32, signed;   *)
(* "byte" stands for read_byte and write_byte.                             *)
Type(w32, w64, only64, signed) ==
  [w32 |-> w32, w64 |-> w64, only64 |-> only64, signed |-> signed]

Primitive ==
  [byte   |-> Type(1, 1, FALSE, FALSE), Half  |-> Type(2, 2, FALSE, FALSE),
   Section |-> Type(2, 2, FALSE, FALSE), Word |-> Type(4, 4, FALSE, FALSE),
   Off    |-> Type(4, 8, FALSE, FALSE), Addr  |-> Type(4, 8, FALSE, FALSE),
   Xword  |-> Type(8, 8, TRUE, FALSE),  Sword |-> Type(4, 4, FALSE, TRUE),
   Sxword |-> Type(8, 8, TRUE, TRUE)]

Width(t) == IF data.clazz = 32 THEN Primitive[t].w32 ELSE Primitive[t].w64

(* decode_s32 and decode_s64: two's complement without an overflow.        *)
DecodeSigned(u, n) ==
  IF u <= Base ^ n \div 2 - 1 THEN u ELSE -((Base ^ n - 1) - u + 1)

(* The C conversion of v to the unsigned or signed type of n bytes.        *)
Convert(v, n, signed) ==
  LET u == v % Base ^ n IN IF signed THEN DecodeSigned(u, n) ELSE u

Representable(v, n, signed) == v = Convert(v, n, signed)

(* A byte of an integer in the host's memory, from 0.                      *)
HostByte(v, n, i) ==
  (v \div Base ^ (IF host = "LSB" THEN i ELSE n - 1 - i)) % Base

(* read_generic and write_generic turn the bytes around when the orders of *)
(* host and file differ.                                                   *)
SwapNeeded == (host = "LSB") # (data.encoding = "LSB")
Turned(i, n) == IF SwapNeeded THEN n - i - 1 ELSE i

InBuffer(n) == n <= data.size /\ off <= data.size - n

Stored_wide(v, n) ==
  [k \in DOMAIN data.buf |->
     IF k \in off .. off + 7 THEN HostByte(v, n, Turned((k - off) % n, n)) ELSE data.buf[k]]
Stored(v, n) ==
  [k \in DOMAIN data.buf |->
     IF k \in off .. off + n - 1 THEN HostByte(v, n, Turned(k - off, n)) ELSE data.buf[k]]

Loaded(n) ==
  MapThenSumSet(LAMBDA i : data.buf[off + Turned(i, n)]
                             * Base ^ (IF host = "LSB" THEN i ELSE n - 1 - i),
                0 .. n - 1)

(* e_ident is copied as it is; its value here has its first byte lowest.   *)
Copied(v, n) ==
  [k \in DOMAIN data.buf |->
     IF k \in off .. off + n - 1 THEN (v \div Base ^ (k - off)) % Base ELSE data.buf[k]]

OpaqueValue(at, n) ==
  MapThenSumSet(LAMBDA i : data.buf[at + i] * Base ^ i, 0 .. n - 1)

-----------------------------------------------------------------------------
(* What the functions do, in order: a primitive on a field, a comparison   *)
(* with the limits of a 32-bit type, or the ELF header's first step, which *)
(* compares the size of the file with sizeof(ElfXX_Ehdr) and copies the 16 *)
(* bytes of e_ident as they are.                                           *)
Field(t, f) == [do |-> "field", f |-> f, t |-> t]
Fits(t, f)  == [do |-> "fits", f |-> f, t |-> t]
Ident       == [do |-> "ident", f |-> "e_ident", t |-> "ident"]

Fields(t, fs) == [i \in DOMAIN fs |-> Field(t, fs[i])]
FitAll(t, fs) == [i \in DOMAIN fs |-> Fits(t, fs[i])]
Is64 == data.clazz = 64
Only64(seq) == IF Is64 THEN seq ELSE <<>>
Only32(seq) == IF Is64 THEN <<>> ELSE seq

EhdrCalls ==
  <<Ident>> \o Fields("Half", <<"e_type", "e_machine">>)
  \o <<Field("Word", "e_version"), Field("Addr", "e_entry"),
       Field("Off", "e_phoff"), Field("Off", "e_shoff"), Field("Word", "e_flags")>>
  \o Fields("Half", <<"e_ehsize", "e_phentsize", "e_phnum",
                      "e_shentsize", "e_shnum", "e_shstrndx">>)

PhdrHead ==
  <<Field("Word", "p_type")>> \o Only64(<<Field("Word", "p_flags")>>)
  \o <<Field("Off", "p_offset"), Field("Addr", "p_vaddr"), Field("Addr", "p_paddr")>>
  \o Only64(Fields("Xword", <<"p_filesz", "p_memsz", "p_align">>))
PhdrTail32 == Fields("Word", <<"p_filesz", "p_memsz", "p_flags", "p_align">>)

ReadPhdr  == PhdrHead \o Only32(PhdrTail32)
WritePhdr_flagsEarly ==
  <<Field("Word", "p_type"), Field("Word", "p_flags"), Field("Off", "p_offset")>>
  \o Fields("Addr", <<"p_vaddr", "p_paddr", "p_filesz", "p_memsz", "p_align">>)
WritePhdr ==
  PhdrHead \o Only32(FitAll("Word", <<"p_filesz", "p_memsz", "p_align">>) \o PhdrTail32)

(* t is the type of the fields that have 4 bytes in ELF32 and 8 in ELF64:  *)
(* read_shdr tells the classes apart, write_shdr uses write_Addr for both. *)
ShdrCalls(t) ==
  Fields("Word", <<"sh_name", "sh_type">>) \o <<Field(t, "sh_flags")>>
  \o <<Field("Addr", "sh_addr"), Field("Off", "sh_offset"), Field(t, "sh_size")>>
  \o Fields("Word", <<"sh_link", "sh_info">>) \o Fields(t, <<"sh_addralign", "sh_entsize">>)

ReadDyn_unsigned ==
  IF Is64 THEN <<Field("Sxword", "d_tag"), Field("Xword", "d_val")>>
  ELSE Fields("Word", <<"d_tag", "d_val">>)
ReadDyn  == IF Is64 THEN <<Field("Sxword", "d_tag"), Field("Xword", "d_val")>>
            ELSE <<Field("Sword", "d_tag"), Field("Word", "d_val")>>
WriteDyn == IF Is64 THEN ReadDyn
            ELSE <<Fits("Sword", "d_tag"), Field("Sword", "d_tag"),
                   Fits("Word", "d_val"), Field("Word", "d_val")>>

SymCalls(check) ==
  <<Field("Word", "st_name")>>
  \o Only32(check \o <<Field("Addr", "st_value"), Field("Word", "st_size")>>)
  \o Fields("byte", <<"st_info", "st_other">>) \o <<Field("Section", "st_shndx")>>
  \o Only64(<<Field("Addr", "st_value"), Field("Xword", "st_size")>>)

VerdefCalls  == Fields("Half", <<"vd_version", "vd_flags", "vd_ndx", "vd_cnt">>)
                \o Fields("Word", <<"vd_hash", "vd_aux", "vd_next">>)
VerdauxCalls == Fields("Word", <<"vda_name", "vda_next">>)
VerneedCalls == Fields("Half", <<"vn_version", "vn_cnt">>)
                \o Fields("Word", <<"vn_file", "vn_aux", "vn_next">>)
VernauxCalls == <<Field("Word", "vna_hash"), Field("Half", "vna_flags"),
                  Field("Half", "vna_other"), Field("Word", "vna_name"),
                  Field("Word", "vna_next")>>

ReadCalls ==
  CASE kind = "Ehdr" -> EhdrCalls
    [] kind = "Phdr" -> ReadPhdr
    [] kind = "Shdr" -> ShdrCalls(IF Is64 THEN "Xword" ELSE "Word")
    [] kind = "Dyn"  -> ReadDyn
    [] kind = "Sym"  -> SymCalls(<<>>)
    [] kind = "Verdef"  -> VerdefCalls
    [] kind = "Verdaux" -> VerdauxCalls
    [] kind = "Verneed" -> VerneedCalls
    [] kind = "Vernaux" -> VernauxCalls

WriteCalls ==
  CASE kind = "Phdr" -> WritePhdr
    [] kind = "Shdr" -> ShdrCalls("Addr")
    [] kind = "Dyn"  -> WriteDyn
    [] kind = "Sym"  -> SymCalls(<<Fits("Word", "st_size")>>)
    [] OTHER         -> ReadCalls

-----------------------------------------------------------------------------
(* The structures as elf.h declares them: the fields, their bytes and      *)
(* whether they are signed.  e_ident is one opaque field of 16 bytes.      *)
D(n, f) == [f |-> f, n |-> n, signed |-> FALSE]
Ds(n, fs) == [i \in DOMAIN fs |-> D(n, fs[i])]
A(c) == IF c = 32 THEN 4 ELSE 8

ElfEhdr(c) ==
  <<D(16, "e_ident")>> \o Ds(2, <<"e_type", "e_machine">>) \o <<D(4, "e_version")>>
  \o Ds(A(c), <<"e_entry", "e_phoff", "e_shoff">>) \o <<D(4, "e_flags")>>
  \o Ds(2, <<"e_ehsize", "e_phentsize", "e_phnum",
             "e_shentsize", "e_shnum", "e_shstrndx">>)

ElfPhdr(c) ==
  IF c = 32
  THEN Ds(4, <<"p_type", "p_offset", "p_vaddr", "p_paddr",
               "p_filesz", "p_memsz", "p_flags", "p_align">>)
  ELSE Ds(4, <<"p_type", "p_flags">>)
       \o Ds(8, <<"p_offset", "p_vaddr", "p_paddr", "p_filesz", "p_memsz", "p_align">>)

ElfShdr(c) ==
  Ds(4, <<"sh_name", "sh_type">>)
  \o Ds(A(c), <<"sh_flags", "sh_addr", "sh_offset", "sh_size">>)
  \o Ds(4, <<"sh_link", "sh_info">>) \o Ds(A(c), <<"sh_addralign", "sh_entsize">>)

ElfDyn(c) == <<[f |-> "d_tag", n |-> A(c), signed |-> TRUE], D(A(c), "d_val")>>

ElfSym(c) ==
  LET info == <<D(1, "st_info"), D(1, "st_other"), D(2, "st_shndx")>>
      at   == Ds(A(c), <<"st_value", "st_size">>)
  IN  <<D(4, "st_name")>> \o (IF c = 32 THEN at \o info ELSE info \o at)

ElfVerdef == Ds(2, <<"vd_version", "vd_flags", "vd_ndx", "vd_cnt">>)
             \o Ds(4, <<"vd_hash", "vd_aux", "vd_next">>)

ElfVerdaux == Ds(4, <<"vda_name", "vda_next">>)

ElfVerneed == Ds(2, <<"vn_version", "vn_cnt">>)
              \o Ds(4, <<"vn_file", "vn_aux", "vn_next">>)

ElfVernaux == <<D(4, "vna_hash"), D(2, "vna_flags"), D(2, "vna_other"),
                D(4, "vna_name"), D(4, "vna_next")>>

Declared(k, c) ==
  CASE k = "Ehdr" -> ElfEhdr(c)
    [] k = "Phdr" -> ElfPhdr(c)
    [] k = "Shdr" -> ElfShdr(c)
    [] k = "Dyn"  -> ElfDyn(c)
    [] k = "Sym"  -> ElfSym(c)
    [] k = "Verdef"  -> ElfVerdef
    [] k = "Verdaux" -> ElfVerdaux
    [] k = "Verneed" -> ElfVerneed
    [] k = "Vernaux" -> ElfVernaux

OffsetOf(ds, i) == MapThenSumSet(LAMBDA j : ds[j].n, 1 .. i - 1)
Sizeof(k, c) == LET ds == Declared(k, c) IN OffsetOf(ds, Len(ds) + 1)

-----------------------------------------------------------------------------
(* Calls.  read_elf, serialize_elf and the sanity check each make one; the *)
(* run ends with the first that fails.                                     *)
Zeroed == [f \in {d.f : d \in Range(Declared(kind, 64))} |-> 0]

(* What is in memory, as read or with one field changed by a helper.       *)
Edited ==
  {val} \cup UNION {{[val EXCEPT ![d.f] = x] : x \in Edges(d.n, d.signed)} :
                      d \in Range(Declared(kind, 64))}

Begin(calls) ==
  /\ ~running
  /\ running' = TRUE
  /\ todo' = calls
  /\ off' = start
  /\ before' = data.buf
  /\ UNCHANGED <<host, kind, data, start, pc, last, ret>>

BeginRead == /\ pc \in {"parse", "check"}
             /\ val' = Zeroed
             /\ Begin(ReadCalls)

BeginWrite == /\ pc = "serialize"
              /\ val' \in Edited
              /\ Begin(WriteCalls)

Reading == running /\ todo # <<>> /\ pc \in {"parse", "check"}
Writing == running /\ todo # <<>> /\ pc = "serialize"

(* The argument of a write_ function, converted to its parameter's type.   *)
Argument(c) == Convert(val[c.f], Primitive[c.t].w64, Primitive[c.t].signed)

(* Comparisons with the limits of the type in ELF32.                       *)
WithinLimits_signedOnly(c) ==
  Primitive[c.t].signed => Representable(val[c.f], Primitive[c.t].w32, TRUE)
WithinLimits(c) ==
  LET t == Primitive[c.t]
  IN  t.w32 = t.w64 \/ Is64 \/ Representable(Argument(c), t.w32, t.signed)

Supported(c) == Is64 \/ ~Primitive[c.t].only64

CanRead(c) ==
  \/ c.do = "ident" /\ data.size >= Sizeof(kind, data.clazz)
  \/ c.do = "field" /\ Supported(c) /\ InBuffer(Width(c.t))

CanWrite(c) ==
  \/ c.do = "ident" /\ data.size >= Sizeof(kind, data.clazz)
  \/ c.do = "fits" /\ Representable(val[c.f], Primitive[c.t].w32, Primitive[c.t].signed)
  \/ c.do = "field" /\ Supported(c) /\ WithinLimits(c) /\ InBuffer(Width(c.t))

ReadPrimitive(c) ==
  LET n == Width(c.t) IN
  /\ c.do = "field"
  /\ val' = [val EXCEPT ![c.f] = Convert(Loaded(n), n, Primitive[c.t].signed)]
  /\ off' = off + n
  /\ UNCHANGED data

WritePrimitive(c) ==
  LET n == Width(c.t) IN
  /\ c.do = "field"
  /\ data' = [data EXCEPT !.buf = Stored(Argument(c) % Base ^ n, n)]
  /\ off' = off + n
  /\ UNCHANGED val

ReadIdent(c) ==
  /\ c.do = "ident"
  /\ val' = [val EXCEPT !.e_ident = OpaqueValue(off, 16)]
  /\ off' = off + 16
  /\ UNCHANGED data

WriteIdent(c) ==
  /\ c.do = "ident"
  /\ data' = [data EXCEPT !.buf = Copied(val.e_ident, 16)]
  /\ off' = off + 16
  /\ UNCHANGED val

CompareLimits(c) == c.do = "fits" /\ UNCHANGED <<val, off, data>>

Step ==
  /\ \/ Reading /\ CanRead(Head(todo))
        /\ (ReadPrimitive(Head(todo)) \/ ReadIdent(Head(todo)))
     \/ Writing /\ CanWrite(Head(todo))
        /\ (WritePrimitive(Head(todo)) \/ WriteIdent(Head(todo)) \/ CompareLimits(Head(todo)))
  /\ todo' = Tail(todo)
  /\ UNCHANGED <<host, kind, start, pc, running, before, last, ret>>

Return(r, next) ==
  /\ running' = FALSE
  /\ todo' = <<>>
  /\ ret' = r
  /\ last' = IF pc = "serialize" THEN "write" ELSE "read"
  /\ pc' = next
  /\ UNCHANGED <<host, kind, data, start, val, off, before>>

Refuse == /\ \/ Reading /\ ~CanRead(Head(todo))
             \/ Writing /\ ~CanWrite(Head(todo))
          /\ Return(1, "done")

Succeed == /\ running /\ todo = <<>>
           /\ Return(0, CASE pc = "parse" -> "serialize"
                          [] pc = "serialize" -> "check"
                          [] pc = "check" -> "done")

Init ==
  /\ host \in Orders
  /\ kind \in Kinds
  /\ start \in IF kind = "Ehdr" THEN {0} ELSE Starts
  /\ \E c \in {32, 64}, e \in Orders, s \in Slacks, x \in Fillings :
       LET size == start + Sizeof(kind, c) + s
       IN  /\ size >= 0
           /\ data = [clazz |-> c, encoding |-> e, size |-> size,
                      buf |-> [i \in 0 .. size - 1 |-> x]]
  /\ pc \in {"parse", "serialize"}
  /\ val = Zeroed
  /\ todo = <<>> /\ running = FALSE /\ off = start
  /\ before = data.buf /\ last = "none" /\ ret = 0

Next == BeginRead \/ BeginWrite \/ Step \/ Refuse \/ Succeed

Spec == Init /\ [][Next]_vars

=============================================================================
