# elf-add-import in TLA+

`elf-add-import IN OUT` reads a dynamically linked ELF file, adds a
`DT_NEEDED` entry for one library, and writes the result.  To make room it
appends a read-only `PT_LOAD` segment (new program header table, new
`.dynstr`) and, when the dynamic table has no spare `DT_NULL`, a writable one
(new dynamic table).  Before writing, it parses its own output again.

This directory holds a model of the program, the instances that TLC checks
and theorems that TLAPS proves about it.

## 1. Inventory

| component | state | operations | in the model |
|---|---|---|---|
| container parser, `elf-parsing.c` | fills `struct elf`: `ehdr`, `phdrs`, `shdrs`, `shstrndx`, `orig` | `parse_elf`, `read_elf`, `read_validate_*` | `ElfParse` |
| dynamic section parser, `elf-dyn-parsing.c` | `dyn.entries`, `dyn.phdr`, `dyn.shdr`, `dyn.strtab` | `parse_dyn` and its parts | `ElfParse` |
| symbol and hash table parser, `elf-dyn-sym-parsing.c` | `dyn.symtab`, `dyn.hash`, `dyn.gnu_hash` | `parse_dynsym` and its parts | `DynSym` |
| version parser, `elf-dyn-sym-ver-parsing.c` | none that outlives the call | `parse_ver` and its parts | `SymVer` |
| address arithmetic, `util.c`, `util.h` | none | `find_*ptload*`, `align_pow2`, `ranges_overlap`, `resize_table`, `find_unique_dyn_entries` | `PtLoad` |
| update helpers, `elf-patching.c` | change `struct elf` and its dirty flags together | all ten `update_*` functions | `Updates`; their arrays in `OwnershipClient`; the five that `main` calls also in `AddImport` |
| serializer, `elf-patching.c` | the data buffer | `serialize_elf`, `serialize_arr` | `AddImport`, `Updates` |
| primitive types, `elf-types.c`, `elf-types.h` | none | `read_*`, `write_*` per class and byte order | `Codec`; whole structures in `ElfBytes` |
| planner and driver, `main.c` | `struct mod_ctx`, data buffer | `prepare_modifications`, `perform_modifications`, `prepare_move_data` | `AddImport`, `MoveData`; from outside `Patch` |
| file I/O, `util.c` | the files | `read_file`, `write_file` | `AddImport`, `Patch` |
| context, `ctx.c`, and every allocation | ownership of all arrays | `destroy_elf`, `safe_realloc`, the clean-up labels | `Ownership`, `OwnershipClient` |
| printing, name tables, `elf.h`'s constants, Makefile, `tests/` | none | | not modelled |

The components share one object, `struct elf`.  The parser fills it, the
planner appends segments to it, the driver moves data through
`prepare_move_data` and calls an update helper after each move, and the
serializer writes back what is marked dirty.  The program is sequential: what
interleaves is the program, the user who runs it again, and an environment
that may refuse memory or disk space, or kill the process, at any moment.

What is hard here is agreement.  The location of `.dynstr` is kept in the
dynamic entries, in the context and in a section header; that of the dynamic
table in `PT_DYNAMIC` and `SHT_DYNAMIC`; that of the program headers in the ELF
header and in `PT_PHDR`.  Sizes are planned before the segments exist and used
when they do.  The update helpers check, but only the planner makes them
succeed.  All arithmetic is on untrusted 64-bit values, and what is written
must also fit a 32-bit class.

What makes each component right:

* parser: it accepts only files whose tables lie in the file and agree;
* symbol and version parsers: what they accept, the dynamic loader, which
  checks nothing, can walk without going in circles or leaving the tables
  (`LoaderStaysInside`, `LoaderFindsSymbols`, `LoaderWalksVersions`,
  `IndexMeansOneVersion`), their own walks end (`Terminates`), and what they
  refuse leaves no memory behind (`NothingLeaks`);
* planner: what it plans fits where the driver puts it (`PlanHolds`), and
  `serialize_elf` then has room for every table and refuses nothing but a value too
  wide for the file's class (`OnlyWidthsRefused`);
* segments: nobody else's pages, mappable, behind the file (`SegmentsApart`);
* moving and serializing: only the moved structures are touched
  (`ForeignBytesKept`), and the bytes say what the context says (`DataInSync`);
* update helpers: after any sequence of calls the copies of a fact agree and can
  be read back (`CountsDecode`, `TablesAgree`), the loader's tables are mapped
  (`TablesStayMapped`), what changed will be written (`CleanMeansWritten`), and there
  is room for the headers at any time and for the dynamic table once the data
  has grown to the end of the segments (`SerializeSucceeds`);
* primitive types: what the file holds is what `elf.h` declares, in each class
  and byte order (`WritesDeclared`, `ReadsDeclared`); a value that does not fit is
  refused, not cut (`RefusesUnrepresentable`), and nobody else's bytes change
  (`OthersUntouched`);
* ownership: on every error path each array is freed once, by one owner, and not
  used afterwards (`NoMisuse`, `OnlyZeroLeaks`, `AllFreed`);
* the tool: its output is accepted again (`TidyOutputParses`), it means what
  was asked for (`SuccessMeansImported`), the dynamic table stays writable
  (`DynamicStaysWritable`), and a file cut short is not mistaken for a result
  (`TruncatedIsRefused`); the user sees one step from input to output, however
  many calls it takes (`IsPatchingTool`).

## 2. Modules

    ElfBytes        bytes, structures, tables in bytes
      PtLoad        util.c, util.h: address arithmetic
        ElfParse    parse_elf: verdict and result
        Updates     the update helpers: one action per function
          UpdatesProperties
            MCUpdates          instances for TLC
            UpdatesProofs      TypeCorrect, RoomForEveryTable, NothingForgotten,
                               CountsStayDecodable, PlacesAgree,
                               LoaderFindsTables
      MoveData      prepare_move_data
          AddImport            the program: state, one action per call of main
            AddImportProperties   what must be true of it
              AddImportRefinement   it implements Patch
                MCAddImport    instances for TLC, with Layouts (example files)
                AddImportProofs   TypeCorrect, ForeignBytes, InputIsKept,
                                  ImplementsPatch, SegmentsStayApart,
                                  NoPrefixParses, LoaderCanWrite
                  OutputProofs    PlanComesTrue, OnlyWidthsStop,
                                  SerializedInSync, TidyAccepted, SuccessIsTrue,
                                  ImplementsTool
      ElfLemmas     lemmas about the operators above
    Patch           what a patching tool promises its user

    DynSym          parse_dynsym: one action per loop iteration
      DynSymProperties
        MCDynSym    instances for TLC
        DynSymProofs   NothingIsLeaked, TypeCorrect, TablesAreWalkable,
                       SymbolsAreFound

    SymVer          parse_ver: one action per loop iteration
      SymVerProperties
        MCSymVer    instances for TLC
        SymVerProofs   TypeCorrect, IndicesApart, NothingIsLeaked,
                       VersionsAreWalkable, SizesAreRight

    InductionLemmas   what the proofs of both parsers need of natural numbers

    Heap            blocks, pointers to them, allocation and free
      Ownership     one run of the program: who owns which array
        OwnershipClient   with any order of update calls; its properties
          MCOwnership     instances for TLC
          OwnershipProofs   NothingMisused, NoLeaks, AllIsFreed

    Codec           elf-types.c: one action per primitive
      CodecProperties
        MCCodec     instances for TLC

The two walking parsers stand beside the first group: they only read the file
and what `struct elf` says of it, so their modules take that part as a record
`file` and follow the code below it.

**Bytes.**  A file is a function from offsets to cells.  An entry of a table
occupies as many cells as `sizeof` says (a constant), each cell carrying the
entry and its own position in it.  An entry can therefore be read back only if
all its cells are there in order; a structure that is overwritten, cut off or
read at a wrong offset is unreadable, and the parser refuses it.  The program
would take such bytes for another structure.  The model's refusal is the
stricter verdict for all properties but one, since they are not satisfied by a
refusal: only `TruncatedIsRefused` asks for one.  There nothing hangs on
unreadable bytes, because the headers of an output are readable: a part of it is
refused for a table or a segment that ends behind it.  A zero structure is zero bytes, as `memset` makes it.  Bytes the
program never interprets are `<<"code", k>>`; the filler that
`prepare_move_data` leaves behind is `Filler`.

**Numbers.**  `MaxU` is `UINT64_MAX`.  All sums that the code checks are
checked against `MaxU` in the model; `TypeOK` says that no sum the code does
not check exceeds it.  `MaxField` is the largest address the file's class can
store, so a 64-bit file has `MaxField = MaxU` and a 32-bit file a smaller one; a
file holds only structures of its class (`Cell`).  The parser and the planner
calculate with `MaxU` for both classes, so a value may be too wide when
`serialize_elf` comes to write it.  `MaxWord` is `UINT32_MAX`, the limit of a count
that is kept in the first section header.

**Program.**  `pc` names the call `main` makes next:

| action | code |
|---|---|
| `Start` | the user runs the tool on two path names, equal or not |
| `ReadElf` | `read_elf`, `list_sections` and `parse_ver`, which change nothing |
| `PrepareSizes` | `prepare_modifications` up to the first segment |
| `AppendRo`, `AppendRw` | `append_new_ptload_segment` with `update_phnum` and `construct_appended_ptload_phdr` |
| `MovePhdrs` | `move_program_headers` with `prepare_move_data`, `update_phoff` |
| `MoveDynstr` | `grow_move_modify_dynstr` with `update_dynstr_range` and the copy of the strings |
| `AddEntriesInPlace`, `AddEntriesMoved` | `add_new_dynamic_entries` without and with a move |
| `Serialize` | `serialize_elf` |
| `SanityCheck` | the second `parse_elf`; it may fail for want of memory |
| `OpenOutput`, `WriteOutput`, `CloseOutput` | the three calls of `write_file`, each of which may fail and leave a prefix |
| `CallFails` | any of the calls above returns an error: `destroy_elf`, exit status 1 |
| `Aborts` | `align_pow2` or the `assert` aborts |
| `Kill` | the process is killed, the files stay as they are |

`orig` holds the members of `elf->orig` that are used, `m` the members of
`struct mod_ctx` and the locals of `prepare_modifications`; `src` is a history
variable, the file as it was read.  An array index `i` of the code is `i + 1`
here, and 0 is `ELF_IDX_NULL`.  The configuration is that of `main`: a list of
strings with one `DT_NEEDED` entry each (`Imports`).  `main` has one string.  The model
allows up to three (`ImportAssumption`), as the planner asks for one spare entry
whatever their number: a table with exactly three `DT_NULL`s is not moved, and a
fourth entry would be copied past the end of its array (`main.c:1126`).

**DynSym.**  `file` holds what lies at the addresses of `DT_SYMTAB`, `DT_HASH`
and `DT_GNU_HASH` and how many words follow before the end of the segment, with
the sections that describe them.  The actions follow `parse_dynsym`:
`FindSymtab`, `ParseDtHash`, `ReadGnuHeader`, one `FindNchain` per chain entry
looked at, `ReadGnuChain`, `CountSymbols`, `ReadSymbols`, one `SysvStep` or
`GnuStep` per chain entry of the validating walks, then the two section checks.
Every allocation may fail.  `heap` is what is allocated and `held` what the
output structures point to; the return at `elf-dyn-sym-parsing.c:829` that
skips the clean-up is the action after which only `ParseDynCleansUp`, the
caller's own clean-up, can free it.  Arrays of the code begin at 0; `At` reads
them.  Overflow checks on `nsyms` times a size are left out, because the tables
that the number comes from have already been found in a segment.

**SymVer.**  `file.at` maps offsets to the structures there, so that links can
lead anywhere: to the right structure, to one of another kind, into the middle
of itself, or nowhere.  `ReadVerdef` reads one entry up to its auxiliary list,
`ReadVerdaux` one auxiliary entry, `NextVerdef` follows the entry's link,
`CheckVerdef` compares the list as a whole; dependencies have the same four.
The version indices of both lists share `claimed`, the bitmap
`seen_vndx_bitmap`.  Names with equal hashes are among the instances, since the
code sorts and searches by hash first.  What `DT_VERSYM` points to is not read by
the code and not modelled.

**Updates.**  The client is any caller of `elf-patching.h`, not only `main`: it
calls the ten helpers in any order, moves tables about, grows the data, adds
segments, and may call `serialize_elf` between any two of them.  The state is
the members of `struct elf` that the helpers share.  There are no bytes; `stale`
holds the structures that changed since they were last written, and
`Reached` how far `serialize_elf` would get.  A helper that fails after it has
changed something leads to `pc = "failed"`, where the client stops, as `main` does.
The client keeps to what the helpers need but do not check: it does not cut
off an entry of a table that is not zero (`Dispensable`), which is more than the
helpers need, as they rely only on the entries that the context refers to; it gives `update_dyn_tbl_off` an offset inside
a segment, and leaves `shstrndx` in the section table.  `ParsedAssumption` says
which files a client may start with: those for which everything holds that
`parse_elf` has checked and the helpers rely on (`IsParsed`).  `ClientAssumption`
says what it may pass: any numbers of the right width, and segments that are
`PT_LOAD`s.  A segment may lie anywhere, in particular behind the data, where `main`
puts its own before the data grows (`FillPhdr`).

**Ownership.**  `Heap` is an allocator with pointers to its blocks; `fault` is the
first misuse of one.  A place is a pointer variable of the code, as a pair of a
stack frame and a member name.  Each action of `Ownership` is a function that
fills one of its own arrays and hands it on, or an `err` label that frees what
its frame holds; checks of contents are choices, so every check may refuse and
every allocation may fail.  In `OwnershipClient` a client may take over from
`main` before the first table is resized, and resizes the four tables in any order, with
`ResizeTable` for `resize_table` on top of `safe_realloc`.

**Patch and its refinement.**  `Patch` is the tool from outside: `Produce` makes a
result of the input at once, `Write` puts some part of it on the output path,
`Finish` all of it, and the tool reports success exactly when the result was
approved; `GiveUp` is possible in every phase.  In `AddImportRefinement` a result
is a patched form if foreign bytes are kept and, for a `Tidy` input, the
imports have been added (`ImportPatch`); approved is what `parse_elf` accepts.  The
mapping is short: the phase is read off `pc`, and the result is the buffer once
the output is opened.  `OpenOutput` and `WriteOutput` map to `Write`,
`CloseOutput` to `Finish` or `GiveUp`, `CallFails`, `Aborts` and `Kill` to `GiveUp`,
`SanityCheck` to `Produce`, and all before it to stutters.

**Codec.**  One structure of nine kinds is followed through `read_elf`, an edit of
one field, `serialize_elf` and the sanity check, or from nothing through the last
two if the tool adds it.  Each step is one primitive of `elf-types.c`, such as a
32-bit read in the file's byte order; a failing one ends the call and leaves the
ones before it done.  `Declared` restates the structures of `elf.h`, field by
field with width and sign for each class, and is the reference for the lists
that the code's `read_*` and `write_*` functions follow.

Operators marked *mistaken* are wrong versions of the operator below them.
Nothing uses them; putting one in the place of the right one makes the property
named in `PROJECT.json` fail, which shows that the property can.

## 3. Runs

| run | cfg | states | question |
|---|---|---|---|
| layouts | `MCLayouts.cfg` | 6,027 | does one run keep every promise on every layout, and at the end of the number range and of the 32-bit class? |
| twice | `MCTwice.cfg` | 14,852 | what does a second run make of the first one's output, whole or cut off, and does the user see anything but `Patch`? |
| many_sections | `MCManySections.cfg` | | is a file with very many sections accepted? (it is not) |
| dynsym | `MCDynSym.cfg` | 56,210 | can the loader walk whatever hash tables are accepted, do the walks end, and are a link editor's tables accepted? |
| unlinked_symbol | `MCUnlinkedSymbol.cfg` | | is a symbol on no chain noticed? (it is not) |
| versions | `MCSymVer.cfg` | 77,609 | can the loader walk whatever version lists are accepted, does an index mean one version, and are a link editor's lists accepted? |
| version_success | `MCVersionSuccess.cfg` | | does `parse_ver` return 0 for them? (it does not) |
| ownership | `MCOwnership.cfg` | 499,438 | is every array freed once and by its owner, whatever fails? |
| realloc_doc | `MCReallocDoc.cfg` | | does a failed `safe_realloc` free its block, as documented? (not always) |
| updates | `MCUpdates.cfg` | 719,442 | do the copies of each fact agree after any calls of the update helpers? |
| dynamic_dirty | `MCDynamicDirty.cfg` | | does `serialize_elf` write whatever was modified? (not the dynamic table) |
| codec | `MCCodec.cfg` | 349,024 | do the bytes of each structure mean what `elf.h` declares? |

*Bounds.*  `Layouts.FileOf` lays out a file of 40 to 60 cells as a link editor
does: one read-only and one writable segment, the tables, `.dynstr`, and
unrelated bytes between all of them, so that a write one cell off is noticed.
`MCAddImport` combines the options that change which code runs: `PT_PHDR`
(`update_phoff` must find a segment), `PT_INTERP`, section headers (a second
copy of every location), one to three `DT_NULL`s (move, move, in place), three
alignments, `.bss` (the next free page), trailing bytes.  The odd files are a
`PT_NULL`, a read-only dynamic segment, a wrong `sh_link`, a string table that
is also `.shstrtab`, a section beyond the last segment, a truncated file and an
empty `.dynstr`.  `MCTwice` bounds the number of runs by `MaxRuns = 2`, since a third
run meets no situation that the second does not.  The two path names are
interchangeable, hence the symmetry.  A second run meets files cut off at every
second length (`Cuts <- SomeCuts`); `TruncatedIsRefused` itself asks about
every length.  `MCLayouts` has `MaxU = 110` and `MaxField = 80`, so that both limits are met: files
whose segments are slid up page by page, and files whose addresses are low and
which grow until their offsets reach the limits.  The planner's overflow
checks on addresses and on offsets and the width checks of `serialize_elf` are
taken both ways.  No output of an ordinary layout reaches 80, so for these files the range has
no end.  Deadlock is not checked
anywhere, because a program that has run `MaxRuns` times, has parsed its one
structure, or whose client is done, stops.

*many_sections* reports a disagreement in the code.  A comment in
`read_validate_ehdr` (`elf-parsing.c:393`) leaves files with `SHN_LORESERVE`
sections or more, whose `e_shnum` is 0, to `parse_shdr_tbl_data_from_ehdr`,
which reads the count from the first section header.  But line 375 has already
refused every header with `e_shnum` 0 and a non-zero `e_shentsize`.

`MCDynSym` has words of three bits and Bloom words of two, and symbols `a`, `b`,
`c` whose hashes collide in part.  Two buckets and chains of four entries are
enough for a cycle, for a chain that leaves one bucket's range for another's,
for an end mark that is missing, and for counts that disagree between the
tables.  To these `MCDynSym` adds tables built as a link editor does: none, one or
three exported symbols behind up to two others, with either table or both;
`LinkedAccepted` is about them.

`MCSymVer` measures in words of four bytes, of which all version structures are
made; indices have three bits and the flag.  `DefFiles` and `NeedFiles` combine
two entries with links, counts, indices and segment ends that are right or wrong in
one way or several; `OddFiles` spoils a link editor's file in one place at a
time, and `LinkedParsed` is about the unspoiled ones.  Two entries with two auxiliary entries each are the smallest lists in
which a link can skip, repeat or cross; three definitions with one that refers
to another exercise the comparisons of names.

`MCUpdates` makes each structure one cell, with and without `PT_PHDR` and section
headers.  `MaxCalls = 5` updates are enough to resize a table past an escape value,
move it, resize it back and move another; `Counts` are the values just below, at
and just above the escape values `PN_XNUM` and `SHN_LORESERVE`, and `Indices` one
that fits the ELF header and one that does not.  `MaxWord = 6` lets `update_phnum` refuse
a count that fits no field at all.  `Offsets` and `Segments` offer the old
segments, the new one, and a place in neither; the new segment lies behind the
data until that has grown, so tables are moved there before and after.

`MCOwnership` has 24 blocks, more than any path holds at once; nothing else is
bounded, and the client resizes as often as it likes.

`MCCodec` has bytes of two values instead of 256, so a word of the file's class
keeps its real width in bytes while its range is small enough to reach the ends of
(`Edges`: the values on both sides of each class's limits).  The structure lies at the start of the file or at offset 3; the
file ends inside the structure, just behind it or later, and is filled with
zeros or ones, so that a byte written too far is noticed.

*unlinked_symbol* and *version_success* report disagreements as well.
`parse_dynsym` says it looks up every symbol
(`elf-dyn-sym-parsing.c:858`), but for `DT_HASH` it walks the chains, and a symbol
on none of them is not missed.  `parse_ver` is documented to return 0 for valid
version information (`elf-dyn-sym-ver-parsing.h:184`), but its success path runs
into the label `err` at `elf-dyn-sym-ver-parsing.c:980`: it frees everything and
returns -1.  `main` logs this as a failure and goes on.

*realloc_doc*: `util.h:168` says that a failed `safe_realloc` frees the block.  The
function does not when the new size is 0 or overflows (`util.c:144`), and its
caller `resize_table` sets its pointer to `NULL` all the same (`util.c:237`), so the block is lost.
Only a table of no entries gets there, which `update_dyn_tbl_num` and
`update_dyn_sym_count` do not refuse; hence `OnlyZeroLeaks` and the exception in
`AllFreed`.  `main` never asks for one.

*dynamic_dirty*: `serialize_elf` says that it writes all modified structures
(`elf-patching.h:247`).  `update_dyn_tbl_num` and `update_dyn_tbl_off` change the
dynamic table or its place and do not set `dyn.entries.dirty`.  `main` is safe, since
`update_dynstr_range` has marked the table before.  `CleanMeansWritten` makes the
exception for this table and holds for the other three.

*Fairness.*  `DynSym` assumes `WF_vars(Next)`: the parser is a sequential program
that never waits, so it takes its next step as long as there is one.
`Terminates` follows from the checks of the code, not from the model: without
`SeenBefore` TLC finds a file with a cyclic chain on which the walk goes on for
ever.  The other modules assume no fairness and claim no liveness.  `Ownership`,
`Updates` and `Codec` have no loops but those of a client who may stop.  Every loop
of `AddImport` and `SymVer` is bounded by a count that was read before it, so
that termination would say nothing; what matters in `SymVer` is whether the
loader, which follows links and has no count, stops at the same place, and that
is the invariant `LoaderWalksVersions`.

## 4. Proofs

TLC's instances are small; the theorems hold for all values of the constants,
under the assumptions declared in `ElfBytes` (widths and sizes are naturals,
sizes are not 0), `PtLoad` (the page size is a power of two), `AddImport` (the
strings are non-empty and at most three, the files are files),
`DynSym` and `SymVer` (the fields of a file are unsigned words) and `Updates`
(above).  Each safety theorem rests on an invariant that is inductive, with one
lemma per action.

### The program: `AddImportProofs`

`TypeCorrect`: `TypeOK` is not inductive.  That `MovePhdrs` stays within the buffer
depends on the segment appended before, that `AddEntriesMoved` finds
`PT_DYNAMIC` on nothing having disturbed the header it was found at.  `TypeInv`
adds `Shape`: while a file is loaded, the dynamic index points to a
`PT_DYNAMIC`, no `PT_LOAD` leaves the address space, and from `AppendRo` on the
plan (`Appended`) has one offset per string and the indices of real segments.
`ElfLemmas` states what each helper returns (`align_pow2`, the segment searches,
the decoding of tables, `prepare_move_data`).

`ForeignBytes`: no byte of the input outside the rewritten structures changes,
whatever file the parser accepts.  Its invariant `Footprint` says where later
steps will write: the remembered ranges are those of the input, the appended
segments lie behind its end, the section header table has not moved, and the
dynamic table is where it was or behind the input.  `MoveKeeps` proves that a
move changes nothing below its destination but the old range, `SerializeKeeps`
that a table is written where its header says.  The property is about files in
which structures may overlap in any way the parser lets pass, which no set of
examples covers.

`ImplementsPatch`: `Spec => Keeper!Spec`, where `Keeper` is `Patch` with
`ForeignKept` as its `IsPatch`.  It needs the types, that the input file in memory
is the one the path had when it was read (`InputIsKept`, which a second path or
an in-place write could break), and `ForeignBytesKept`.  Each action of the
program is then one step of the tool or a stutter.

`PlanInv` says that everything happens as planned, and has four parts.  `Sizes`: what
`PrepareSizes` calculated is what the tables will need, counting the segments
still to be appended.  `Segments`: each appended segment is made of whole
pages that begin behind every other segment in the file and in memory, and from
its appending on it stays where the later calls expect it.  `DataEnd`: the data ends
where the last moved structure ends, call by call.  `Tables`: program headers
and dynamic entries are the input's but for what was moved so far.
From it follow

* `SegmentsStayApart`, for every alignment, page size and file, because
  `align_pow2` rounds the end of the highest segment up to a page behind it;
* `LoaderCanWrite`: the dynamic table is in the new writable segment, or where it
  was.  Then the lookup by its address still ends at the same old segment, as
  the appended ones come after it and the old ones keep their flags.  The output
  must have passed the sanity check (`SaneInv`).

It also gives the greater part of `PlanComesTrue` below: each destination is
inside one of the appended segments, and that segment is the one the search by
offset or address returns, since every segment the search tries before ends
below it (`FoundInPlace`).

`NoPrefixParses` (`TruncatedIsRefused`, at every length and for outputs of any
layout) needs `HeaderInv`: the counts in the headers are those of the tables in
memory and marked to be written (`Counted`), and after `serialize_elf` they
and the program headers are in the data (`Written`).  So whoever parses a part of
the output finds the program headers that are in memory, or nothing that parses
(`HeadersRead`); and one of them, that of the segment appended last, ends where
the whole data does, beyond the end of the part.

### The output: `OutputProofs`

What is in the file at the end is proved in three parts.

*What memory holds* (`MemInv`, for every accepted file).  After each call, every part
of `struct elf` is the input's but for what was moved so far: `SameHeader` (two
fields of the ELF header), `Sections` (the headers of `.dynstr` and `.dynamic`
follow what they describe), `OldHeaders` (so do `PT_PHDR` and `PT_DYNAMIC`),
`StringTable` and `Entries`; and a table that differs is marked dirty.

*What the bytes hold* (`BytesInv`, for a tidy file).  A table that is not yet
rewritten has its old bytes (`Untouched`).  From `MoveDynstr` on the old strings
are at their new place with each import and its terminator behind them
(`Copied`), which needs that the cleaned ranges and the other moves end before
it.  After `Serialize` all four tables are in the data (`Stored`): each of the four
writes is shown to be apart from the ones before it, two of which go behind the
old end of file and two of which may not.

*What the parser reads.*  `Final` is the conjunction of the invariants for data that
has been serialized.  From it, one lemma per step of `parse_elf` (`FinalEhdr`,
`FinalShdrs`, `FinalPhdrs`, `FinalDyn`, `FinalStrtab`, ...) shows that the parser
finds each structure, that it reads what memory holds, and that it accepts
it.  The old segments are still the first to contain what they contained
(`StillContained`), the appended ones have an alignment that `IsPow2` accepts
(`AlignmentIsKept`), and no other section overlaps the new strings, in the file
or in memory (`BesideStrings`).

The four theorems follow: `SerializedInSync`, `TidyAccepted`, `SuccessIsTrue` and
`ImplementsTool`.  The last repeats no step of `ImplementsPatch`: a step of `Keeper` is
one of `Tool` if what it produces has the imports (`PatchOfKeep`), and only
`SanityCheck` produces anything.

They have the hypothesis `FewImports`: one or two imports, of any length (`main`
has one).  With three they are false: `calculate_dyn_tbl_mod` asks for one spare
entry, so a dynamic table with exactly three `DT_NULL`s is kept in place and the
third import takes the last of them.  The table is just large enough for that,
so `PlanComesTrue` still holds; but it has no terminator, which the parser requires.
`Tidy` is a hypothesis of the properties themselves: `Serialize` writes tables
at their headers' places without looking whether they overlap, and the parser
does not either.

Two theorems are about calls that may fail, for every accepted file.

`PlanComesTrue` (`PlanHolds`): the calls that move a table fail no check of their
own, and the unchecked `memcpy` of the new entries stays in the array (`CopyFits`).
A table is left in place if it has two entries behind its first `DT_NULL`, so
three new ones fit from there on; one that is moved grows by as many as are
copied.  A fourth import is where this ends, and `ImportAssumption` stops there.

`OnlyWidthsStop` (`OnlyWidthsRefused`): when `serialize_elf` is called there is room for
every table.  Its other check, of each value's width, asks whether everything that
changed fits the class.  What did not change was read from a file of the class;
what did lies inside an appended segment, so it fits if that does up to its end
(`HoldableSerializes`), which in the 64-bit class it always does (`WideSegments`).
Of the old program headers that follow their tables only the alignment is not
covered by this, and no call changes it (`MarksInv`).  In the 32-bit class a file close to the limit
is refused here, after planning; nothing has been written to a file then.

### The two parsers: `DynSymProofs`, `SymVerProofs`

`NothingIsLeaked` in `DynSymProofs`: `NothingLeaks` for symbol and hash tables of
any size, with any allocation failing.  `HeapInv` says who owns what: the
output structures hold every array but `seen`, which exists exactly during the
walk over `DT_HASH`.  `TypeCorrect` adds `Checked`, what the checks so far have
shown, for as long as it is needed.

`TablesAreWalkable` (`LoaderStaysInside`): whatever `parse_dynsym` accepts, the
loader reaches the end of each chain without leaving the symbols.  The code
walks and marks; the loader walks and does not mark.  What connects them is a
`Trail`, a sequence of pairwise different symbols from a bucket on, each of which
the previous one leads to.  `SysvInv` says that the symbols passed so far on the
current chain form one and have been marked, and that every bucket before the
current one has a trail to `STN_UNDEF`; as a trail has no more members than there
are symbols, the loader stops.  `GnuInv` says that each bucket passed has an
end mark between its first symbol and the last of all, and that every symbol
passed is reached from a bucket without one on the way.  `SymbolsAreFound`
follows: a symbol on a chain was checked to be in the bucket of its hash.

`SymVerProofs` is about lists of any length, linked in any way.  `TypeCorrect`
needs one thing besides the types: the entry whose auxiliary list is being read
is a whole one, as its link is followed several steps later.  `IndicesApart`
is `IndexMeansOneVersion`.  An index is claimed before the rest of its entry has
been checked, so the invariant is about `Seen`, the lists with the entry in
progress at the end of one of them: all indices there are claimed and no two
are the same (`Sound`).  `NothingIsLeaked` again gives each array an owner: a
list, the entry in progress or, while dependencies are read, the table of
`DT_NEEDED` names.

`VersionsAreWalkable` (`LoaderWalksVersions`) rests on `WalkInv`: the offset that is
read next is the one that following the links as often as entries have been
read leads to, every entry passed is whole and inside the segment, and the
same holds one level down for the auxiliary list in progress (`AtEntry`,
`AtAux`).  `SizesAreRight` adds how far the walk has advanced at least.

The theorems of `NaturalsInduction` take an operator as a parameter, which the
installed provers cannot instantiate.  `InductionLemmas` states the little that is
needed with sets in place of operators: a non-empty set of naturals has a
smallest element.  A proof by induction then takes the smallest counterexample.

### The heap: `OwnershipProofs`

`OneOwner` says who has what, with any number of blocks, any failing
allocation or check, and a client that resizes as it likes.  Its invariant
`OwnInv` is a conjunction:
every place that holds a block holds a live one and no two hold the same
(`Sound`), but for the contents of the file while `read_file` returns them
(`Sharing`); a place holds something only where the code in progress has such a
variable (`May`); what the code uses without a test is there (`Must`); and the
only block without a place is that of a table resized to nothing (`Client`).
`NothingMisused`, `NoLeaks` and `AllIsFreed` are its consequences.  An error
path frees a whole frame, so the lemmas are about frames (`PlacesOfFrames`,
`OwnedPlaces`), not about single arrays.

### The update helpers: `UpdatesProofs`

`FileInv` is `TypeOK` and, as long as a client is served, `Whole`: the arrays are as
long as their sizes say, the indices of the context lead to entries of the
right kind, both header tables lie in the data where the ELF header says, and the
dynamic table lies in the data or in a segment.  It gives `TypeCorrect` and `RoomForEveryTable`: room for
the headers always, and for the dynamic table as long as no segment reaches
behind the data.  With what each helper
marks (`ChangesMarked`) it gives `NothingForgotten`, for any counts, offsets and
segments, and any `MaxCalls`.

Three theorems have hypotheses about the parsed file that `parse_elf` does not
establish.  `FirstSectionFree`: the first section header is
not also that of a table.  Link editors put a null section there, but the parser
does not insist, and a helper would otherwise write a table's size over a count.
`PlacesAgree` says of `TablesAgree` that the helpers keep it, if it holds of the
parsed file, since `parse_elf` does not compare `p_memsz` of `PT_PHDR` with
the size of the table, and only warns of a different one in `PT_DYNAMIC`
(`elf-dyn-parsing.c:288`).  Its invariant, `Agreed`, has a part for each table;
`Apart`, that the tables' sections are different ones, follows from their types.

`LoaderFindsTables` says of `TablesStayMapped` that the helpers keep it.
A table is looked up in the first segment that contains it, so one that is
resized where it is may be found in another segment than before; a resize asks
only that there be one.  The address is still the same under `OneAddress`: no
two segments, of the file or added by the client, that share a byte of the file
give it different addresses (`LiesResized`).  A segment that is appended comes
last and does not hide another (`LiesStill`).  Neither parser nor helpers
exclude files that violate `OneAddress`; linkers do not make them, and the new
segment of `main` lies behind the file.  The instances of `MCUpdates` satisfy all
of these hypotheses: their segments are disjoint.

### Only model-checked

* `LinkedAccepted` and `LinkedParsed` are about the link editor's files in the MC
  modules.
* All properties of `CodecProperties`: a field's value is a sum of its digits times powers
  of `Base`, which is not linear, and its width differs by class.
* `Terminates`: liveness is out of the prover's reach.

## 5. Observations

Met while modelling, besides the five runs that report a violation:

* `update_phnum` checks the grown program header table at its old offset
  although the table is about to be moved.  A file with nothing behind its
  table is refused; so is, sometimes, a file that was patched before.
* `update_dyn_tbl_off` (`elf-patching.c:382`) logs that no segment contains the
  table, lacks a `return`, and continues with address 0.  `PlanHolds` shows that
  it never gets there from `main`; the client of `Updates` avoids it.  It does not
  compare the new place with the data either: moved into a segment that lies behind the data,
  the table makes `serialize_elf` fail until the data has grown.  `main` grows it
  before (`prepare_move_data`).
* `update_dyn_symtab_off` (line 451) measures the dynamic table, not the symbol
  table.  It has no caller.  `TablesStayMapped` leaves the symbol table out.
* `update_shoff` is documented to need a place in a `PT_LOAD`
  (`elf-patching.h:76`) and does not check it; section headers work without.
* `update_dyn_sym_count` leaves the hash tables alone, which then disagree with it.
* A failing `update_phnum` clears `ehdr.dirty`, also if an earlier call had set
  it.  A client that went on would lose that earlier change.
* `resize_table` is documented to free the table when it fails (`util.h:229`),
  but keeps it when it refuses its arguments.
* `calculate_dyn_tbl_mod` asks for one spare entry, not for as many as the
  configuration adds; with the fixed configuration the two are the same.  A table
  with exactly three `DT_NULL`s is not moved: a third import would take its
  terminator, a fourth be copied past the end of the array (`main.c:1126`).  It
  counts one `DT_NULL` fewer than there are, so a table with two moves.
* The planner does not look at the class.  A 32-bit file whose segments end close to
  4 GiB is planned for, changed in memory, and refused by `serialize_elf`
  (`elf-types.c:191`).
* A section in memory beyond the last segment (a `.tbss` may be) can overlap
  the new segment, and the sanity check then refuses the result.  `Tidy`
  excludes it from `TidyOutputParses`.
* With equal paths, `fopen` destroys the input before the output is written.
* If the sanity check runs out of memory, a good file is written and the exit
  status says failure.
* The return at `elf-dyn-sym-parsing.c:829` skips the clean-up of
  `parse_dynsym`; nothing leaks only because `parse_dyn` looks at the same
  pointers.
* A file whose only symbol is `STN_UNDEF`, without section headers and with a
  `symoffset` of 1 in an empty GNU hash table, is refused: the count cannot be
  told from the other meaning of 1.
* `parse_elf` accepts a `PT_PHDR` or `PT_DYNAMIC` whose `p_memsz` is not its table's
  size (a warning at `elf-dyn-parsing.c:289`), and does not look at
  whether the first section header, where the counts that do not fit the ELF
  header are kept, is also the section of a table.  The update helpers then keep
  a disagreement that was there before, or overwrite the one with the other.
* An index of 0 in a dependency is let through, and not claimed, so several
  dependencies may have it.

## 6. Not modelled

* `read_validate_ident` (`elf-parsing.c:789`): a file holds a readable header or
  not.  `Codec` copies `e_ident` as the code does, raw.
* `list_sections`, `section_name_strptr` and all messages, with the name tables of
  the enumerations: they print and change nothing.
* The constants of `elf.h` that the program does not branch on.
* The Makefile and the programs under `tests/`, which hold no assertions.

## 7. Plan

1. *(done)* the core: parser, planner, driver, serializer, I/O; its runs;
   `TypeCorrect`, `ForeignBytes`.
2. *(done)* `DynSym` and `SymVer`: the walking parsers, their runs and first
   theorems.
3. *(done)* `Updates`, `Ownership`, `Codec`; `Patch`, and that `AddImport`
   implements it.
4. *(done)* Theorems: the planner's promises, the heap, the loader's walks over
   hash tables and version lists, the update helpers.
5. *(done)* Theorems about the output: what it holds, that it parses, that
   success means the imports are there, and with them the refinement of `Patch`.
6. `e_ident`, as part of `ElfParse`.
