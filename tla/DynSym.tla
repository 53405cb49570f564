------------------------------- MODULE DynSym -------------------------------
(***************************************************************************)
(* parse_dynsym: the dynamic symbol table and its two hash tables.         *)
(*                                                                         *)
(* Nothing in the file says how many dynamic symbols there are.  The       *)
(* program infers the number from DT_HASH (its chain count) or from        *)
(* DT_GNU_HASH (where the last chain ends), reads that many symbols, and   *)
(* then walks every chain to see whether tables and symbols agree.  Each   *)
(* iteration of those walks is an action here.                             *)
(*                                                                         *)
(* `file` is the part of the file this code reads:                         *)
(*   symtab    DT_SYMTAB and a right DT_SYMENT are there, once             *)
(*   symbols   the symbols from DT_SYMTAB to the end of its segment        *)
(*   sections  there is a section header table                             *)
(*   dynsym    the SHT_DYNSYM section: link, entry size and place are ok,  *)
(*             its size is a whole number, num, of symbols, its sh_info    *)
(*   hash      DT_HASH: the words from its address to the end of the       *)
(*             segment, and the SHT_HASH section                           *)
(*   gnu       DT_GNU_HASH: the header, the bloom filter as sets of bits,  *)
(*             the words behind it up to the end of the segment, and the   *)
(*             SHT_GNU_HASH section                                        *)
(*   shndx     DT_SYMTAB_SHNDX: its words, each "zero", the index of a     *)
(*             section ("inside") or of none ("outside"), and how many     *)
(*             SHT_SYMTAB_SHNDX sections refer to SHT_DYNSYM               *)
(* Indices count from 0, as in the code; At(s, i) is s[i].                 *)
(***************************************************************************)
EXTENDS Integers, Sequences, FiniteSets

CONSTANTS
  Names,      \* names of symbols, "" among them
  SysvHash,   \* sysv_hash of each name
  GnuHash,    \* gnu_hash of each name
  WordBits,   \* bits of an Elf32_Word
  ClassBits,  \* bits of a bloom filter word
  Files       \* the files that may be read

MaxWord == 2 ^ WordBits - 1

ASSUME HashAssumption ==
  SysvHash \in [Names -> 0 .. MaxWord] /\ GnuHash \in [Names -> 0 .. MaxWord]

ASSUME WordAssumption == MaxWord \in Nat

(* What the file holds there are words, whatever they say.                 *)
ASSUME FilesAssumption ==
  \A f \in Files :
    /\ f.hash.words \in Seq(0 .. MaxWord) /\ f.gnu.words \in Seq(0 .. MaxWord)
    /\ {f.gnu.nbuckets, f.gnu.symoffset} \subseteq 0 .. MaxWord
    /\ f.dynsym.num \in Nat

VARIABLES
  file,
  pc,      \* what parse_dynsym does next
  sysv,    \* "absent", "invalid" or "ok": what parse_dt_hash returns
  gnu,     \* the same of parse_dt_gnu_hash, with the nchain it found
  nsyms,   \* number of symbols, 0 while unknown
  walk,    \* the bucket b and the index i the current walk is at
  seen,    \* seen_bits: the symbols met on the chains of DT_HASH
  heap,    \* the arrays that are allocated
  held,    \* the arrays that the output structures point to
  oom      \* an allocation has failed

vars == <<file, pc, sysv, gnu, nsyms, walk, seen, heap, held, oom>>

At(s, i) == s[i + 1]

ZeroSym == [name |-> "", ok |-> TRUE, local |-> TRUE, shndx |-> "undef"]

-----------------------------------------------------------------------------
(* DT_HASH: two header words, the buckets, the chain.                      *)
NBucket == file.hash.words[1]
NChain  == file.hash.words[2]
HashSize == 2 + NBucket + NChain
Bucket(b) == At(file.hash.words, 2 + b)
Chain(i)  == At(file.hash.words, 2 + NBucket + i)

(* find_dt_hash.                                                           *)
HashInSegment ==
  /\ Len(file.hash.words) >= 2
  /\ NChain # 0
  /\ HashSize <= Len(file.hash.words)

(* read_dt_hash_contents: every bucket and chain entry is an index.        *)
HashIndicesOk ==
  /\ \A b \in 0 .. NBucket - 1 : Bucket(b) < NChain
  /\ \A i \in 0 .. NChain - 1 : Chain(i) < NChain

(* validate_sht_hash_if_exists.                                            *)
HashSectionOk ==
  LET s == file.hash.sec IN
  /\ s.present = file.dynsym.present
  /\ s.present => /\ s.ok /\ s.size = HashSize
                  /\ file.dynsym.whole /\ file.dynsym.num = NChain

HashArrays == {"hash.chain"} \cup (IF NBucket > 0 THEN {"hash.buckets"} ELSE {})

-----------------------------------------------------------------------------
(* DT_GNU_HASH: the header, the bloom filter, the buckets, the chain.      *)
GnuBucket(b) == At(file.gnu.words, b)
GnuRoom      == Len(file.gnu.words) - file.gnu.nbuckets
GnuChain(i)  == At(file.gnu.words, file.gnu.nbuckets + i)
Ends(c)      == c % 2 = 1            \* the last entry of a bucket's chain

(* read_dt_gnu_hash_hdr, find_dt_gnu_hash.                                 *)
GnuHeaderOk ==
  /\ file.gnu.bloomShift < WordBits
  /\ \E k \in 0 .. WordBits : file.gnu.bloomSize = 2 ^ k

(* read_bloom_and_buckets.                                                 *)
GnuInSegment == file.gnu.bloomSize <= Len(file.gnu.bloom) /\ GnuRoom >= 0

GnuBucketsOk ==
  /\ GnuInSegment
  /\ \A b \in 0 .. file.gnu.nbuckets - 1 :
        GnuBucket(b) = 0 \/ GnuBucket(b) >= file.gnu.symoffset

MaxBucket ==
  CHOOSE m \in {0} \cup {GnuBucket(b) : b \in 0 .. file.gnu.nbuckets - 1} :
    \A b \in 0 .. file.gnu.nbuckets - 1 : GnuBucket(b) <= m

(* The table of an output without hashed symbols.  Some linkers store 1 in *)
(* symoffset then, whatever the number of symbols.                         *)
CanonicallyEmpty ==
  /\ file.gnu.nbuckets = 1 /\ file.gnu.bloomSize = 1
  /\ GnuBucket(0) = 0 /\ file.gnu.bloom[1] = {}

NeverAmbiguous == FALSE              \* mistaken: the special case is forgotten

CountAmbiguous == CanonicallyEmpty /\ file.gnu.symoffset = 1

GnuArrays(nchain) ==
  {"gnu.bloom"} \cup (IF file.gnu.nbuckets > 0 THEN {"gnu.buckets"} ELSE {})
                \cup (IF nchain > 0 THEN {"gnu.chain"} ELSE {})

(* The total size in words, those of the bloom filter left out.            *)
GnuSize == file.gnu.nbuckets + gnu.nchain

(* validate_sht_gnu_hash_if_exists.                                        *)
GnuSectionOk ==
  LET s == file.gnu.sec IN
  /\ s.present = file.dynsym.present
  /\ s.present => /\ s.ok /\ s.size = GnuSize
                  /\ \/ CountAmbiguous
                     \/ /\ file.dynsym.whole
                        /\ file.dynsym.num = file.gnu.symoffset + gnu.nchain

(* Both bits of the hash h in its word of the bloom filter.                *)
OneBloomBit(h) ==                    \* mistaken: the shifted bit is not asked for
  h % ClassBits \in At(file.gnu.bloom, (h \div ClassBits) % file.gnu.bloomSize)

BloomHas(h) ==
  {h % ClassBits, (h \div 2 ^ file.gnu.bloomShift) % ClassBits}
    \subseteq At(file.gnu.bloom, (h \div ClassBits) % file.gnu.bloomSize)

-----------------------------------------------------------------------------
Init ==
  /\ file \in Files
  /\ pc = "findSymtab"
  /\ sysv = "absent" /\ gnu = [ret |-> "absent", nchain |-> 0]
  /\ nsyms = 0
  /\ walk = [b |-> 0, i |-> 0] /\ seen = {}
  /\ heap = {} /\ held = {} /\ oom = FALSE

Goto(p) == pc' = p

Allocated(arrays) == heap' = heap \cup arrays /\ held' = held \cup arrays

(* The error paths: parse_dynsym frees what its output structures hold and *)
(* clears them; the functions it calls free their local arrays before.     *)
Refuse(locals) ==
  /\ Goto("refused")
  /\ heap' = heap \ (held \cup locals) /\ held' = {}
  /\ UNCHANGED <<file, sysv, gnu, nsyms, walk, seen>>

(* find_symtab.                                                            *)
FindSymtab ==
  /\ pc = "findSymtab" /\ UNCHANGED oom
  /\ IF file.symtab
     THEN Goto("dtHash") /\ UNCHANGED <<file, sysv, gnu, nsyms, walk, seen, heap, held>>
     ELSE Refuse({})

(* parse_dt_hash.  Its verdict is looked at after parse_dt_gnu_hash.       *)
HashValid == HashInSegment /\ HashIndicesOk /\ HashSectionOk

ParseDtHash ==
  /\ pc = "dtHash" /\ Goto("dtGnuHash")
  /\ \/ /\ file.hash.kind # "present"
        /\ sysv' = IF file.hash.kind = "absent" THEN "absent" ELSE "invalid"
        /\ UNCHANGED <<heap, held, oom>>
     \/ /\ file.hash.kind = "present" /\ HashValid
        /\ sysv' = "ok" /\ Allocated(HashArrays) /\ UNCHANGED oom
     \/ /\ file.hash.kind = "present" /\ ~HashValid
        /\ sysv' = "invalid" /\ UNCHANGED <<heap, held, oom>>
     \/ /\ file.hash.kind = "present" /\ HashInSegment
        /\ sysv' = "invalid" /\ oom' = TRUE /\ UNCHANGED <<heap, held>>
  /\ UNCHANGED <<file, gnu, nsyms, walk, seen>>

(* parse_dt_gnu_hash gives up: its arrays are freed and their pointers     *)
(* cleared.                                                                *)
GnuInvalid ==
  /\ Goto("count")
  /\ gnu' = [gnu EXCEPT !.ret = "invalid"]
  /\ heap' = heap \ GnuArrays(1) /\ held' = held \ GnuArrays(1)

(* find_dt_gnu_hash and read_bloom_and_buckets.                            *)
ReadGnuHeader ==
  /\ pc = "dtGnuHash"
  /\ \/ /\ file.gnu.kind = "absent" /\ Goto("count") /\ UNCHANGED <<gnu, walk, heap, held, oom>>
     \/ /\ \/ file.gnu.kind = "duplicate"
           \/ file.gnu.kind = "present" /\ ~(GnuHeaderOk /\ GnuBucketsOk)
        /\ GnuInvalid /\ UNCHANGED <<walk, oom>>
     \/ /\ file.gnu.kind = "present" /\ GnuHeaderOk /\ GnuInSegment
        /\ oom' = TRUE /\ GnuInvalid /\ UNCHANGED walk
     \/ /\ file.gnu.kind = "present" /\ GnuHeaderOk /\ GnuBucketsOk
        /\ Allocated(GnuArrays(0)) /\ UNCHANGED <<gnu, oom>>
        /\ IF CanonicallyEmpty \/ MaxBucket = 0
           THEN Goto("gnuChain") /\ UNCHANGED walk
           ELSE /\ Goto("nchain")
                /\ walk' = [walk EXCEPT !.i = MaxBucket - file.gnu.symoffset]
  /\ UNCHANGED <<file, sysv, nsyms, seen>>

AnyIndex(i) == TRUE                  \* mistaken: the index may wrap around

IndexFits(i) == i < MaxWord

(* One iteration of find_gnu_hash_nchain: from the start of the last       *)
(* bucket's chain to the entry that ends it.                               *)
FindNchain ==
  /\ pc = "nchain"
  /\ \/ /\ walk.i >= GnuRoom \/ ~IndexFits(walk.i)
        /\ GnuInvalid /\ UNCHANGED walk
     \/ /\ walk.i < GnuRoom /\ IndexFits(walk.i)
        /\ UNCHANGED <<heap, held>>
        /\ IF Ends(GnuChain(walk.i))
           THEN Goto("gnuChain") /\ gnu' = [gnu EXCEPT !.nchain = walk.i + 1] /\ UNCHANGED walk
           ELSE walk' = [walk EXCEPT !.i = @ + 1] /\ UNCHANGED <<pc, gnu>>
  /\ UNCHANGED <<file, sysv, nsyms, seen, oom>>

(* read_gnu_hash_chain, and the rest of parse_dt_gnu_hash.                 *)
ReadGnuChain ==
  /\ pc = "gnuChain"
  /\ \/ /\ GnuSectionOk /\ Goto("count") /\ UNCHANGED oom
        /\ gnu' = [gnu EXCEPT !.ret = "ok"] /\ Allocated(GnuArrays(gnu.nchain))
     \/ ~GnuSectionOk /\ GnuInvalid /\ UNCHANGED oom
     \/ gnu.nchain > 0 /\ GnuInvalid /\ oom' = TRUE
  /\ UNCHANGED <<file, sysv, nsyms, walk, seen>>

-----------------------------------------------------------------------------
(* parse_dynamic_hash_tables, once both tables are parsed, and what        *)
(* parse_dynsym does without a count.                                      *)
GnuCount == file.gnu.symoffset + gnu.nchain

TablesAgree ==
  /\ sysv # "invalid" /\ gnu.ret # "invalid"
  /\ sysv = "ok" \/ gnu.ret = "ok"
  /\ sysv = "ok" /\ gnu.ret = "ok" => NChain = GnuCount \/ CountAmbiguous

HashCount ==
  IF sysv = "ok" THEN NChain ELSE IF CountAmbiguous THEN 0 ELSE GnuCount

CountSymbols ==
  /\ pc = "count" /\ UNCHANGED oom
  /\ \/ /\ TablesAgree /\ (HashCount # 0 \/ file.dynsym.present)
        /\ Goto("readSyms")
        /\ nsyms' = IF HashCount # 0 THEN HashCount ELSE file.dynsym.num
        /\ UNCHANGED <<file, sysv, gnu, walk, seen, heap, held>>
     \/ ~TablesAgree /\ Refuse({})
     \/ /\ TablesAgree /\ HashCount = 0 /\ ~file.dynsym.present
        /\ Goto("parseDyn") /\ UNCHANGED <<file, sysv, gnu, nsyms, walk, seen, heap, held>>

(* parse_dynsym has returned -1 past its clean-up; parse_dyn does it.      *)
ParseDynCleansUp == pc = "parseDyn" /\ Refuse({}) /\ UNCHANGED oom

(* read_dynamic_symbol_table.                                              *)
Sym(i) == At(file.symbols, i)

LocalsFirst == \A i, j \in 0 .. nsyms - 1 : i < j /\ Sym(j).local => Sym(i).local

SymbolOk(s) ==
  /\ s.ok
  /\ s.shndx # "common"
  /\ s.shndx = "outside" => ~file.sections

SymbolsInSegment == nsyms # 0 /\ nsyms <= Len(file.symbols) /\ Sym(0) = ZeroSym

SymbolsOk ==
  /\ SymbolsInSegment
  /\ \A i \in 0 .. nsyms - 1 : SymbolOk(Sym(i))
  /\ LocalsFirst

ReadSymbols ==
  /\ pc = "readSyms"
  /\ \/ /\ SymbolsOk /\ UNCHANGED <<file, sysv, gnu, nsyms, seen, oom>>
        /\ IF sysv = "ok" /\ NBucket > 0 THEN Goto("sysvStart") ELSE Goto("gnuStart")
        /\ walk' = [b |-> 0, i |-> 0]
        /\ Allocated({"syms"})
     \/ ~SymbolsOk /\ Refuse({}) /\ UNCHANGED oom
     \/ SymbolsInSegment /\ oom' = TRUE /\ Refuse({})

-----------------------------------------------------------------------------
(* validate_sysv_hash: the seen bits are allocated; the chains are walked  *)
(* from bucket to bucket; the seen bits are freed on every way out.        *)
StartSysvWalk ==
  /\ pc = "sysvStart"
  /\ \/ /\ Goto("sysvWalk") /\ heap' = heap \cup {"seen"} /\ UNCHANGED <<held, oom>>
        /\ walk' = [b |-> 0, i |-> Bucket(0)]
        /\ UNCHANGED <<file, sysv, gnu, nsyms, seen>>
     \/ oom' = TRUE /\ Refuse({})

NotSeen(i) == FALSE                  \* mistaken: chains are not marked

SeenBefore(i) == i \in seen

NoLocals == {}                       \* mistaken: an early return

SeenBits == {"seen"}

InBucket(i, b) == SysvHash[Sym(i).name] % NBucket = b

SysvStep ==
  /\ pc = "sysvWalk" /\ walk.i # 0
  /\ UNCHANGED oom
  /\ IF walk.i >= nsyms \/ SeenBefore(walk.i) \/ ~InBucket(walk.i, walk.b)
     THEN Refuse(SeenBits)
     ELSE /\ seen' = seen \cup {walk.i}
          /\ walk' = [walk EXCEPT !.i = Chain(walk.i)]
          /\ UNCHANGED <<file, pc, sysv, gnu, nsyms, heap, held>>

MoreBuckets_short(b) == b + 2 < NBucket  \* mistaken: leaves out the last one

MoreBuckets(b) == b + 1 < NBucket

SysvNextBucket ==
  /\ pc = "sysvWalk" /\ walk.i = 0
  /\ IF MoreBuckets(walk.b)
     THEN walk' = [b |-> walk.b + 1, i |-> Bucket(walk.b + 1)] /\ UNCHANGED <<pc, heap>>
     ELSE /\ walk' = [b |-> 0, i |-> 0] /\ Goto("gnuStart")
          /\ heap' = heap \ {"seen"}
  /\ UNCHANGED <<file, sysv, gnu, nsyms, seen, held, oom>>

(* validate_gnu_hash.                                                      *)
GnuTotalsOk ==
  /\ file.gnu.symoffset <= nsyms
  /\ IF CanonicallyEmpty
     THEN CountAmbiguous \/ file.gnu.symoffset = nsyms
     ELSE gnu.nchain = nsyms - file.gnu.symoffset
  /\ file.gnu.nbuckets = 0 => gnu.nchain = 0

StartGnuWalk ==
  /\ pc = "gnuStart" /\ UNCHANGED oom
  /\ IF gnu.ret = "ok" /\ ~GnuTotalsOk THEN Refuse({})
     ELSE /\ IF gnu.ret # "ok" \/ CanonicallyEmpty \/ file.gnu.nbuckets = 0
             THEN Goto("section") ELSE Goto("gnuBucket")
          /\ UNCHANGED <<file, sysv, gnu, nsyms, walk, seen, heap, held>>

(* The next bucket, which must start where the previous one ended.         *)
StartsHere(first) == walk.i < gnu.nchain /\ first = file.gnu.symoffset + walk.i

GnuNextBucket ==
  /\ pc = "gnuBucket" /\ walk.b < file.gnu.nbuckets
  /\ UNCHANGED oom
  /\ LET first == GnuBucket(walk.b) IN
     IF first # 0 /\ ~StartsHere(first) THEN Refuse({})
     ELSE /\ IF first = 0 THEN walk' = [walk EXCEPT !.b = @ + 1] /\ UNCHANGED pc
                          ELSE Goto("gnuWalk") /\ UNCHANGED walk
          /\ UNCHANGED <<file, sysv, gnu, nsyms, seen, heap, held>>

Reachable(i, b) ==
  LET h == GnuHash[Sym(file.gnu.symoffset + i).name] IN
  /\ GnuChain(i) \div 2 = h \div 2
  /\ h % file.gnu.nbuckets = b
  /\ BloomHas(h)

GnuStep ==
  /\ pc = "gnuWalk" /\ UNCHANGED oom
  /\ IF walk.i >= gnu.nchain \/ ~Reachable(walk.i, walk.b) THEN Refuse({})
     ELSE /\ IF Ends(GnuChain(walk.i))
             THEN Goto("gnuBucket") /\ walk' = [b |-> walk.b + 1, i |-> walk.i + 1]
             ELSE walk' = [walk EXCEPT !.i = @ + 1] /\ UNCHANGED pc
          /\ UNCHANGED <<file, sysv, gnu, nsyms, seen, heap, held>>

EndGnuWalk ==
  /\ pc = "gnuBucket" /\ walk.b = file.gnu.nbuckets
  /\ UNCHANGED oom
  /\ IF walk.i # gnu.nchain THEN Refuse({})
     ELSE Goto("section") /\ UNCHANGED <<file, sysv, gnu, nsyms, walk, seen, heap, held>>

-----------------------------------------------------------------------------
(* validate_sht_dynsym_if_exists: sh_info is the first non-local symbol.   *)
FirstNonlocal ==
  CHOOSE k \in 0 .. nsyms : /\ \A i \in 0 .. k - 1 : Sym(i).local
                            /\ k < nsyms => ~Sym(k).local

DynsymSectionOk ==
  LET s == file.dynsym IN
  s.present => s.ok /\ s.whole /\ s.num = nsyms /\ s.info = FirstNonlocal

CheckDynsymSection ==
  /\ pc = "section" /\ UNCHANGED oom
  /\ IF DynsymSectionOk
     THEN Goto("shndx") /\ UNCHANGED <<file, sysv, gnu, nsyms, walk, seen, heap, held>>
     ELSE Refuse({})

(* read_symtab_shndx_contents, validate_dyn_sht_symtab_shndx_if_exists and *)
(* parse_dyn_symtab_shndx_if_exists.                                       *)
ShndxWordOk(i) ==
  LET w == At(file.shndx.words, i) IN
  IF Sym(i).shndx = "xindex"
  THEN w # "zero" /\ (w = "outside" => ~file.sections)
  ELSE w = "zero"

ShndxInSegment == nsyms <= Len(file.shndx.words)

ShndxContentsOk ==
  file.shndx.kind = "present" =>
     ShndxInSegment /\ \A i \in 0 .. nsyms - 1 : ShndxWordOk(i)

ShndxSectionOk ==
  LET s == file.shndx.sec IN
  file.dynsym.present /\ s.count > 0 =>
     s.count = 1 /\ file.shndx.kind = "present" /\ s.ok /\ s.num = nsyms

ShndxOk ==
  /\ file.shndx.kind # "duplicate"
  /\ (\E i \in 0 .. nsyms - 1 : Sym(i).shndx = "xindex") => file.shndx.kind = "present"
  /\ ShndxContentsOk
  /\ ShndxSectionOk

ParseShndx ==
  /\ pc = "shndx"
  /\ \/ /\ ShndxOk /\ Goto("accepted")
        /\ Allocated(IF file.shndx.kind = "present" THEN {"shndx"} ELSE {})
        /\ UNCHANGED <<file, sysv, gnu, nsyms, walk, seen, oom>>
     \/ ~ShndxOk /\ Refuse({}) /\ UNCHANGED oom
     \/ /\ file.shndx.kind = "present" /\ ShndxInSegment
        /\ oom' = TRUE /\ Refuse({})

-----------------------------------------------------------------------------
Next ==
  \/ FindSymtab \/ ParseDtHash \/ ReadGnuHeader \/ FindNchain \/ ReadGnuChain
  \/ CountSymbols \/ ParseDynCleansUp \/ ReadSymbols
  \/ StartSysvWalk \/ SysvStep \/ SysvNextBucket
  \/ StartGnuWalk \/ GnuNextBucket \/ GnuStep \/ EndGnuWalk
  \/ CheckDynsymSection \/ ParseShndx

(* The code neither waits nor blocks: it takes its next step.              *)
Spec == Init /\ [][Next]_vars /\ WF_vars(Next)

=============================================================================
