----------------------------- MODULE Ownership ------------------------------
(* Who owns the arrays: one run of the program, every allocation of which  *)
(* may fail and every check of which may refuse the file.  A place is      *)
(* <<frame, member>>: the struct elf of main, the one parse_elf builds     *)
(* ("e"), the struct elf_dynamic parse_dyn builds ("dyn"), the pointers of *)
(* the innermost function ("fn"), the symbol array parse_dynsym keeps      *)
(* ("sym"), the buffer of read_elf ("file") and the mod_ctx ("mod").       *)
EXTENDS Heap

VARIABLES pc,       \* the function, or the err label, about to run
          call,     \* who called parse_elf: read_elf or the sanity check
          sysv,     \* what parse_dt_hash returned
          moves     \* whether the dynamic table has to move

vars == <<ptr, live, fault, pc, call, sysv, moves>>

HashMembers == {"buckets", "chain"}
GnuMembers == {"bloom", "gnuBuckets", "gnuChain"}
DynMembers == {"entries", "syms", "shndx"} \cup HashMembers \cup GnuMembers
ElfMembers == {"buf", "phdrs", "shdrs"} \cup DynMembers

Elf == {"main"} \X ElfMembers
LocalElf == {"e"} \X ElfMembers
Dyn == {"dyn"} \X DynMembers
Fn == {"fn"} \X (ElfMembers \cup {"seen"})
Sym == {<<"sym", "syms">>}
File == {<<"file", "buf">>}
Mod == {"mod"} \X {"offsets", "newEntries"}
Buf == <<"main", "buf">>
Phdrs == <<"main", "phdrs">>
Entries == <<"main", "entries">>

AllPlaces == Elf \cup LocalElf \cup Dyn \cup Fn \cup Sym \cup File \cup Mod

Init ==
  /\ HeapInit(AllPlaces)
  /\ pc = "read file" /\ call = "read" /\ sysv = "none" /\ moves = FALSE

Go(label) == pc' = label /\ UNCHANGED <<call, sysv, moves>>
Stop(label) == Go(label) /\ UNCHANGED heap

(* A function at label at fills its own array s and hands it to frame g,   *)
(* or fails: before the array exists, or by freeing it.                    *)
Build(at, s, g, next, err) ==
  /\ pc = at
  /\ \/ /\ Held(Fn) = {}
        /\ \/ Alloc(<<"fn", s>>) /\ Go(at)
           \/ Stop(err)
     \/ /\ Held(Fn) # {}
        /\ \/ Free(Fn) /\ Go(err)
           \/ Move("fn", g, {s}) /\ Go(next)

-----------------------------------------------------------------------------

ReadFile == Build("read file", "buf", "file", "section headers", "main err")

(* parse_elf(buf, ...): a file without section headers has no array.       *)
ReadShdrs ==
  \/ Build("section headers", "shdrs", "e", "program headers", "elf err")
  \/ pc = "section headers" /\ Held(Fn) = {} /\ Stop("program headers")

ReadPhdrs == Build("program headers", "phdrs", "e", "dynamic table", "elf err")

(* parse_dyn: from here an error is also one of parse_dyn.                 *)
ReadDynTable == Build("dynamic table", "entries", "dyn", "string table", "dyn err")

ReadDynstr == pc = "string table" /\ (Stop("dynsym") \/ Stop("dyn err"))

FindSymtab == pc = "dynsym" /\ (Stop("hash") \/ Stop("dynsym err"))

Returned(ret) == pc' = "gnu hash" /\ sysv' = ret /\ UNCHANGED <<call, moves>>

(* read_dt_hash_contents fills one array or two, and parse_dt_hash frees   *)
(* them again when the section header does not agree.                      *)
ReadHash ==
  /\ pc = "hash"
  /\ \/ Held(Fn) = {} /\ \E ret \in {"absent", "bad"} : Returned(ret) /\ UNCHANGED heap
     \/ Held(Fn) = {} /\ Alloc(<<"fn", "buckets">>) /\ Go("hash")
     \/ ptr[<<"fn", "chain">>] = Null /\ Alloc(<<"fn", "chain">>) /\ Go("hash")
     \/ Held(Fn) # {} /\ Free(Fn) /\ Returned("bad")
     \/ /\ ptr[<<"fn", "chain">>] # Null
        /\ Move("fn", "dyn", HashMembers) /\ Go("hash section")

CheckHashSection ==
  /\ pc = "hash section"
  /\ \/ Returned("ok") /\ UNCHANGED heap
     \/ Free({"dyn"} \X HashMembers) /\ Returned("bad")

(* read_bloom_and_buckets; this table is parsed whatever parse_dt_hash     *)
(* returned, and both results are judged after that.                       *)
ReadGnuArrays ==
  /\ pc = "gnu hash"
  /\ \/ Held(Fn) = {} /\ Stop("dynsym err")
     \/ Held(Fn) = {} /\ sysv = "ok" /\ Stop("symbols")
     \/ Held(Fn) = {} /\ Alloc(<<"fn", "bloom">>) /\ Go("gnu hash")
     \/ /\ Held(Fn) = {<<"fn", "bloom">>}
        /\ Alloc(<<"fn", "gnuBuckets">>) /\ Go("gnu hash")
     \/ /\ Held(Fn) # {}
        /\ \/ Free(Fn) /\ Go("dynsym err")
           \/ Move("fn", "dyn", {"bloom", "gnuBuckets"}) /\ Go("gnu chain")

(* An empty table has no chain, and a failed one frees all three arrays.   *)
ReadGnuChain ==
  \/ Build("gnu chain", "gnuChain", "dyn", "gnu section", "gnu err")
  \/ pc = "gnu chain" /\ Held(Fn) = {} /\ Stop("gnu section")

(* The section header of the GNU table, and parse_dynamic_hash_tables.  No *)
(* count of symbols returns past the err label of parse_dynsym.            *)
JudgeTables ==
  /\ pc = "gnu section"
  /\ \/ Stop("gnu err") \/ Stop("dynsym err")
     \/ sysv = "absent" /\ Stop("dyn err")
     \/ sysv # "bad" /\ Stop("symbols")

GnuErr ==
  /\ pc = "gnu err"
  /\ Free({"dyn"} \X GnuMembers) /\ Go("dynsym err")

ReadSymbols == Build("symbols", "syms", "sym", "seen bits", "dynsym err")

(* validate_sysv_hash has an array of its own; the GNU table needs none.   *)
ValidateTables ==
  /\ pc = "seen bits"
  /\ \/ Held(Fn) = {} /\ Stop("dynsym err")
     \/ Held(Fn) = {} /\ sysv # "ok" /\ Stop("shndx")
     \/ Held(Fn) = {} /\ sysv = "ok" /\ Alloc(<<"fn", "seen">>) /\ Go("seen bits")
     \/ Held(Fn) # {} /\ Free(Fn) /\ (Go("shndx") \/ Go("dynsym err"))

ReadShndx ==
  \/ Build("shndx", "shndx", "dyn", "dynsym done", "dynsym err")
  \/ pc = "shndx" /\ Held(Fn) = {} /\ Stop("dynsym done")

DynsymDone == pc = "dynsym done" /\ Move("sym", "dyn", {"syms"}) /\ Go("dyn done")

(* parse_dynsym frees what the tables before the failure had been given    *)
(* and empties their structs, which parse_dyn then frees once more.        *)
\* mistaken: the structs keep their pointers
DynsymErr_notEmptied ==
  /\ pc = "dynsym err"
  /\ ptr' = [ptr EXCEPT ![<<"sym", "syms">>] = Null]
  /\ live' = live \ {ptr[p] : p \in Sym \cup ({"dyn"} \X (HashMembers \cup GnuMembers))}
  /\ UNCHANGED fault
  /\ Go("dyn err")

DynsymErr ==
  /\ pc = "dynsym err"
  /\ Free(Sym \cup ({"dyn"} \X (HashMembers \cup GnuMembers \cup {"shndx"})))
  /\ Go("dyn err")

DynErr == pc = "dyn err" /\ Free(Dyn) /\ Go("elf err")

DynDone == pc = "dyn done" /\ Move("dyn", "e", DynMembers) /\ Go("take data")

(* The last thing that can fail comes before the data changes hands:       *)
(* read_elf gives its buffer away, the sanity check copies main's.         *)
TakeData ==
  /\ pc = "take data"
  /\ \/ call = "read" /\ Copy(<<"e", "buf">>, <<"file", "buf">>) /\ Go("elf done")
     \/ call = "sanity" /\ Alloc(<<"e", "buf">>) /\ Go("elf done")
     \/ call = "sanity" /\ Stop("elf err")

ElfDone ==
  /\ pc = "elf done"
  /\ \/ call = "read" /\ Move("e", "main", ElfMembers) /\ Go("read done")
     \/ call = "sanity" /\ Free(LocalElf) /\ Go("write")

ElfErr ==
  /\ pc = "elf err"
  /\ Free(LocalElf)
  /\ Go(IF call = "read" THEN "read err" ELSE "write")

ReadErr == pc = "read err" /\ Free(File) /\ Go("main err")
ReadDone == pc = "read done" /\ Forget(File) /\ Go("offsets")

-----------------------------------------------------------------------------

(* prepare_modifications.                                                  *)
Prepare(at, p, next) ==
  /\ pc = at
  /\ \/ Stop("mod err")
     \/ Alloc(p) /\ (Go(next) \/ Go("mod err"))

PrepareOffsets == Prepare("offsets", <<"mod", "offsets">>, "new entries")
PrepareEntries == Prepare("new entries", <<"mod", "newEntries">>, "sizes")

CalculateSizes ==
  /\ pc = "sizes"
  /\ Use({Entries})
  /\ \/ Go("mod err")
     \/ pc' = "ro segment" /\ moves' \in BOOLEAN /\ UNCHANGED <<call, sysv>>

(* resize_table: the bounds checks leave the array alone.                  *)
ResizeFailed(p) == UNCHANGED heap \/ ReallocFailed(p)

(* update_phnum frees the array on every failure after its parameters are  *)
(* checked, the one the array survived included.                           *)
GrowPhdrs(at, next) ==
  /\ pc = at
  /\ \/ Stop("mod err")
     \/ ResizeFailed(Phdrs) /\ Go("phnum err")
     \/ Reallocated(Phdrs) /\ (Go("phnum err") \/ Go(next))

PhnumErr == pc = "phnum err" /\ Free({Phdrs}) /\ Go("mod err")

AppendRo == GrowPhdrs("ro segment", "ro header")
AppendRw == GrowPhdrs("rw segment", "rw header")

FillHeader ==
  /\ pc \in {"ro header", "rw header"} /\ Use({Phdrs})
  /\ \/ Go("mod err")
     \/ Go(IF moves /\ pc = "ro header" THEN "rw segment" ELSE "move phdrs")

(* prepare_move_data grows the data when the new place is beyond its end.  *)
PrepareMove(at, moved) ==
  /\ pc = at
  /\ \/ Stop("mod err") \/ Stop(moved)
     \/ ReallocFailed(Buf) /\ Go("mod err")
     \/ Reallocated(Buf) /\ Go(moved)

MovePhdrs ==
  \/ PrepareMove("move phdrs", "phdrs moved")
  \/ pc = "phdrs moved" /\ Use({Buf, Phdrs}) /\ (Go("move dynstr") \/ Go("mod err"))

MoveDynstr ==
  \/ PrepareMove("move dynstr", "dynstr moved")
  \/ /\ pc = "dynstr moved" /\ Use({Buf, Phdrs, Entries, <<"mod", "offsets">>})
     /\ (Go("mod err") \/ Go(IF moves THEN "move entries" ELSE "add entries"))

(* update_dyn_tbl_num does not empty the table it failed to resize.        *)
MoveEntries ==
  \/ PrepareMove("move entries", "entries moved")
  \/ pc = "entries moved" /\ Use({Buf, Phdrs}) /\ Go("grow entries")
  \/ /\ pc = "grow entries"
     /\ \/ ResizeFailed(Entries) /\ Go("mod err")
        \/ Reallocated(Entries) /\ Go("add entries")

AddEntries ==
  /\ pc = "add entries" /\ Use({Entries, <<"mod", "newEntries">>})
  /\ Go("mod done")

DestroyModifications ==
  \/ pc = "mod err" /\ Free(Mod) /\ Go("main err")
  \/ pc = "mod done" /\ Free(Mod) /\ Go("serialize")

Serialize ==
  /\ pc = "serialize" /\ Use({Buf, Phdrs, Entries})
  /\ \/ Go("main err")
     \/ pc' = "section headers" /\ call' = "sanity" /\ sysv' = "none" /\ UNCHANGED moves

WriteFile == pc = "write" /\ Use({Buf}) /\ Go("main err")

\* mistaken: the array of symbol section indices is forgotten
DestroyElf_noShndx ==
  /\ pc = "main err"
  /\ Free(Elf \ {<<"main", "shndx">>}) /\ Go("ended")

DestroyElf == pc = "main err" /\ Free(Elf) /\ Go("ended")

Read == ReadFile \/ ReadErr \/ ReadDone

Parse ==
  \/ ReadShdrs \/ ReadPhdrs \/ ReadDynTable \/ ReadDynstr \/ FindSymtab
  \/ ReadHash \/ CheckHashSection \/ ReadGnuArrays \/ ReadGnuChain \/ JudgeTables
  \/ GnuErr \/ ReadSymbols \/ ValidateTables \/ ReadShndx \/ DynsymDone
  \/ DynsymErr \/ DynErr \/ DynDone \/ TakeData \/ ElfDone \/ ElfErr

Modify ==
  \/ PrepareOffsets \/ PrepareEntries \/ CalculateSizes \/ AppendRo \/ AppendRw
  \/ FillHeader \/ PhnumErr \/ MovePhdrs \/ MoveDynstr \/ MoveEntries \/ AddEntries
  \/ DestroyModifications

Next == Read \/ Parse \/ Modify \/ Serialize \/ WriteFile \/ DestroyElf

Spec == Init /\ [][Next]_vars

-----------------------------------------------------------------------------

(* No block is freed twice and none is used after it is freed or through   *)
(* NULL, whichever allocation or check fails: the nested err labels of     *)
(* parse_dynsym, parse_dyn, parse_elf and read_elf, the arrays that a      *)
(* failed update_phnum or safe_realloc leaves, and destroy_elf at the end. *)
NoMisuse == fault = "none"

(* No step overwrites or drops the last pointer to a block: the arrays     *)
(* change hands from function to function without a leak.                  *)
NothingLost == live \subseteq Pointed

(* The program frees all of its memory on every path out of main.          *)
CleanExit == pc = "ended" => live = {}

=============================================================================
