---------------------------- MODULE DynSymProofs ----------------------------
(***************************************************************************)
(* Who owns the arrays of parse_dynsym, and what the dynamic loader can do *)
(* with the tables it accepts, proved for all files: tables of any size,   *)
(* cyclic or not, and allocations that fail anywhere.                      *)
(***************************************************************************)
EXTENDS DynSymProperties, InductionLemmas

(* The arrays that the structures parse_dynsym fills in can hold.          *)
Lasting == {"hash.buckets", "hash.chain", "gnu.bloom", "gnu.buckets", "gnu.chain",
            "syms", "shndx"}

(* The output structures hold every array, but for the bits that           *)
(* validate_sysv_hash marks symbols with while it walks.                   *)
HeapInv ==
  /\ held \subseteq Lasting
  /\ heap = held \cup (IF pc = "sysvWalk" THEN {"seen"} ELSE {})
  /\ pc = "refused" => held = {}

(* The sets of arrays that parse_dt_hash and parse_dt_gnu_hash allocate.   *)
LEMMA LastingArrays ==
  HashArrays \subseteq Lasting /\ \A n : GnuArrays(n) \subseteq Lasting
BY DEF HashArrays, GnuArrays, Lasting

(* An error path outside the walk over DT_HASH frees everything.           *)
LEMMA RefuseCleans ==
  ASSUME HeapInv, pc # "sysvWalk", Refuse({})
  PROVE  HeapInv'
BY DEF HeapInv, Refuse, Goto, Lasting

(* So does one inside the walk, which also frees the seen bits.            *)
LEMMA RefuseInWalk ==
  ASSUME HeapInv, Refuse(SeenBits)
  PROVE  HeapInv'
BY DEF HeapInv, Refuse, Goto, Lasting, SeenBits

(* An allocation whose result is stored in an output structure.            *)
LEMMA AllocatedKept ==
  ASSUME HeapInv, pc # "sysvWalk", NEW arrays \in SUBSET Lasting, Allocated(arrays),
         pc' # "sysvWalk", pc' # "refused"
  PROVE  HeapInv'
BY DEF HeapInv, Allocated

(* A step that allocates and frees nothing.                                *)
LEMMA HeapUntouched ==
  ASSUME HeapInv, UNCHANGED <<heap, held>>, pc' # "refused",
         pc' = "sysvWalk" <=> pc = "sysvWalk"
  PROVE  HeapInv'
BY DEF HeapInv

(* parse_dt_gnu_hash gives up.                                             *)
LEMMA GnuInvalidCleans ==
  ASSUME HeapInv, pc # "sysvWalk", GnuInvalid
  PROVE  HeapInv'
BY DEF HeapInv, GnuInvalid, Goto

(* Every step keeps the ownership of the arrays in order.                  *)
LEMMA HeapStep ==
  ASSUME HeapInv, [Next]_vars
  PROVE  HeapInv'
<1>1. CASE FindSymtab
  BY <1>1, RefuseCleans, HeapUntouched DEF FindSymtab, Goto
<1>2. CASE ParseDtHash
  BY <1>2, AllocatedKept, HeapUntouched, LastingArrays DEF ParseDtHash, Goto
<1>3. CASE ReadGnuHeader
  <2>1. pc # "sysvWalk" BY <1>3 DEF ReadGnuHeader
  <2>2. CASE GnuInvalid BY <2>1, <2>2, GnuInvalidCleans
  <2>3. CASE /\ Allocated(GnuArrays(0))
             /\ pc' \in {"gnuChain", "nchain"}
    BY <2>1, <2>3, AllocatedKept, LastingArrays
  <2>4. CASE UNCHANGED <<heap, held>> /\ pc' = "count"
    BY <2>1, <2>4, HeapUntouched
  <2> QED BY <1>3, <2>2, <2>3, <2>4 DEF ReadGnuHeader, Goto
<1>4. CASE FindNchain
  <2>1. pc = "nchain" BY <1>4 DEF FindNchain
  <2>2. CASE GnuInvalid BY <2>1, <2>2, GnuInvalidCleans
  <2>3. CASE UNCHANGED <<heap, held>> /\ pc' \in {"gnuChain", "nchain"}
    BY <2>1, <2>3, HeapUntouched
  <2> QED BY <1>4, <2>2, <2>3 DEF FindNchain, Goto
<1>5. CASE ReadGnuChain
  <2>1. pc = "gnuChain" BY <1>5 DEF ReadGnuChain
  <2>2. CASE GnuInvalid BY <2>1, <2>2, GnuInvalidCleans
  <2>3. CASE Allocated(GnuArrays(gnu.nchain)) /\ pc' = "count"
    BY <2>1, <2>3, AllocatedKept, LastingArrays
  <2> QED BY <1>5, <2>2, <2>3 DEF ReadGnuChain, Goto
<1>6. CASE CountSymbols
  BY <1>6, RefuseCleans, HeapUntouched DEF CountSymbols, Goto
<1>7. CASE ParseDynCleansUp
  BY <1>7, RefuseCleans DEF ParseDynCleansUp
<1>8. CASE ReadSymbols
  <2>1. pc = "readSyms" BY <1>8 DEF ReadSymbols
  <2>2. CASE Refuse({}) BY <2>1, <2>2, RefuseCleans
  <2>3. CASE Allocated({"syms"}) /\ pc' \in {"sysvStart", "gnuStart"}
    BY <2>1, <2>3, AllocatedKept DEF Lasting
  <2> QED BY <1>8, <2>2, <2>3 DEF ReadSymbols, Goto
<1>9. CASE StartSysvWalk
  <2>1. pc = "sysvStart" BY <1>9 DEF StartSysvWalk
  <2>2. CASE Refuse({}) BY <2>1, <2>2, RefuseCleans
  <2>3. CASE pc' = "sysvWalk" /\ heap' = heap \cup {"seen"} /\ UNCHANGED held
    BY <2>1, <2>3 DEF HeapInv
  <2> QED BY <1>9, <2>2, <2>3 DEF StartSysvWalk, Goto
<1>10. CASE SysvStep
  BY <1>10, RefuseInWalk, HeapUntouched DEF SysvStep
<1>11. CASE SysvNextBucket
  <2>1. pc = "sysvWalk" /\ UNCHANGED held BY <1>11 DEF SysvNextBucket
  <2>2. CASE UNCHANGED <<pc, heap>> BY <2>1, <2>2, HeapUntouched
  <2>3. CASE pc' = "gnuStart" /\ heap' = heap \ {"seen"}
    BY <2>1, <2>3 DEF HeapInv, Lasting
  <2> QED BY <1>11, <2>2, <2>3 DEF SysvNextBucket, Goto
<1>12. CASE StartGnuWalk
  BY <1>12, RefuseCleans, HeapUntouched DEF StartGnuWalk, Goto
<1>13. CASE GnuNextBucket
  BY <1>13, RefuseCleans, HeapUntouched DEF GnuNextBucket, Goto
<1>14. CASE GnuStep
  BY <1>14, RefuseCleans, HeapUntouched DEF GnuStep, Goto
<1>15. CASE EndGnuWalk
  BY <1>15, RefuseCleans, HeapUntouched DEF EndGnuWalk, Goto
<1>16. CASE CheckDynsymSection
  BY <1>16, RefuseCleans, HeapUntouched DEF CheckDynsymSection, Goto
<1>17. CASE ParseShndx
  <2>1. pc = "shndx" BY <1>17 DEF ParseShndx
  <2>2. CASE Refuse({}) BY <2>1, <2>2, RefuseCleans
  <2>3. CASE /\ Allocated(IF file.shndx.kind = "present" THEN {"shndx"} ELSE {})
             /\ pc' = "accepted"
    BY <2>1, <2>3, AllocatedKept DEF Lasting
  <2> QED BY <1>17, <2>2, <2>3 DEF ParseShndx, Goto
<1>18. CASE UNCHANGED vars BY <1>18 DEF vars, HeapInv
<1> QED
  BY <1>1, <1>2, <1>3, <1>4, <1>5, <1>6, <1>7, <1>8, <1>9, <1>10, <1>11, <1>12, <1>13,
     <1>14, <1>15, <1>16, <1>17, <1>18 DEF Next

(* Whatever the file and whichever allocation fails, parse_dynsym and      *)
(* parse_dyn leave nothing allocated behind when they refuse a file, and   *)
(* nothing without an owner when they accept it.                           *)
THEOREM NothingIsLeaked == Spec => []NothingLeaks
<1>1. Init => HeapInv BY DEF Init, HeapInv
<1>2. HeapInv /\ [Next]_vars => HeapInv' BY HeapStep
<1>3. HeapInv => NothingLeaks BY DEF HeapInv, NothingLeaks
<1> QED BY <1>1, <1>2, <1>3, PTL DEF Spec
-----------------------------------------------------------------------------
(* Types                                                                   *)

(* From here on nsyms is the number of symbols the table really has.       *)
Counted == {"readSyms", "sysvStart", "sysvWalk", "gnuStart", "gnuBucket", "gnuWalk",
            "section", "shndx", "accepted"}

(* What the checks so far have shown, as long as it is needed.             *)
Checked ==
  /\ sysv = "ok" => HashValid
  /\ pc \in {"nchain", "gnuChain"} \/ gnu.ret = "ok" => GnuBucketsOk
  /\ sysv = "ok" /\ pc \in Counted => nsyms = NChain
  /\ pc \in {"sysvStart", "sysvWalk"} => sysv = "ok" /\ NBucket > 0
  /\ pc = "sysvWalk" => walk.b < NBucket /\ walk.i < NChain
  /\ pc = "gnuStart" => walk = [b |-> 0, i |-> 0]
  /\ pc \in {"gnuBucket", "gnuWalk"} =>
       UsesGnu /\ nsyms = file.gnu.symoffset + gnu.nchain /\ walk.b <= file.gnu.nbuckets
  /\ pc = "gnuWalk" => walk.b < file.gnu.nbuckets

(* Types, owners, and what the checks have shown: inductive.               *)
TypeInv == file \in Files /\ HeapInv /\ TypeOK /\ Checked

(* The indices in a DT_HASH table that has passed the checks.              *)
LEMMA HashTypes ==
  ASSUME file \in Files, HashValid
  PROVE  /\ NBucket \in 0 .. MaxWord /\ NChain \in 1 .. MaxWord
         /\ \A b \in 0 .. NBucket - 1 : Bucket(b) \in 0 .. NChain - 1
         /\ \A i \in 0 .. NChain - 1 : Chain(i) \in 0 .. NChain - 1
<1>1. file.hash.words \in Seq(0 .. MaxWord) /\ MaxWord \in Nat
  BY FilesAssumption, WordAssumption
<1>2. HashInSegment /\ HashIndicesOk BY DEF HashValid
<1>3. NBucket \in 0 .. MaxWord /\ NChain \in 1 .. MaxWord
  BY <1>1, <1>2 DEF NBucket, NChain, HashInSegment
<1>4. ASSUME NEW b \in 0 .. NBucket - 1 PROVE Bucket(b) \in 0 .. NChain - 1
  <2>1. 2 + b + 1 \in 1 .. Len(file.hash.words)
    BY <1>1, <1>2, <1>3 DEF HashInSegment, HashSize
  <2>2. Bucket(b) \in 0 .. MaxWord BY <1>1, <2>1 DEF Bucket, At
  <2> QED BY <1>1, <1>2, <1>3, <2>2 DEF HashIndicesOk
<1>5. ASSUME NEW i \in 0 .. NChain - 1 PROVE Chain(i) \in 0 .. NChain - 1
  <2>1. 2 + NBucket + i + 1 \in 1 .. Len(file.hash.words)
    BY <1>1, <1>2, <1>3 DEF HashInSegment, HashSize
  <2>2. Chain(i) \in 0 .. MaxWord BY <1>1, <2>1 DEF Chain, At
  <2> QED BY <1>1, <1>2, <1>3, <2>2 DEF HashIndicesOk
<1> QED BY <1>3, <1>4, <1>5

(* The buckets of DT_GNU_HASH, and the highest of them.                    *)
LEMMA GnuTypes ==
  ASSUME file \in Files, GnuBucketsOk
  PROVE  /\ file.gnu.nbuckets \in 0 .. MaxWord /\ file.gnu.symoffset \in 0 .. MaxWord
         /\ \A b \in 0 .. file.gnu.nbuckets - 1 : GnuBucket(b) \in 0 .. MaxWord
         /\ MaxBucket \in 0 .. MaxWord
         /\ MaxBucket # 0 => MaxBucket - file.gnu.symoffset \in 0 .. MaxWord
<1>1. /\ file.gnu.words \in Seq(0 .. MaxWord) /\ MaxWord \in Nat
      /\ file.gnu.nbuckets \in 0 .. MaxWord /\ file.gnu.symoffset \in 0 .. MaxWord
  BY FilesAssumption, WordAssumption
<1>2. ASSUME NEW b \in 0 .. file.gnu.nbuckets - 1 PROVE GnuBucket(b) \in 0 .. MaxWord
  <2>1. b + 1 \in 1 .. Len(file.gnu.words)
    BY <1>1 DEF GnuBucketsOk, GnuInSegment, GnuRoom
  <2> QED BY <1>1, <2>1, SMTT(30) DEF GnuBucket, At
<1> DEFINE B == 0 .. file.gnu.nbuckets - 1
           S == {0} \cup {GnuBucket(b) : b \in B}
           T == {MaxWord - x : x \in S}
<1>3. S \subseteq 0 .. MaxWord BY <1>1, <1>2
<1>4. \E m \in S : \A b \in B : GnuBucket(b) <= m
  <2>1. T \in SUBSET Nat /\ T # {}
    <3>1. 0 \in S OBVIOUS
    <3> HIDE DEF S
    <3> QED BY <1>1, <1>3, <3>1
  <2>2. PICK t \in T : \A y \in T : t <= y
    <3> HIDE DEF T
    <3> QED BY <2>1, SmallestElement
  <2>3. PICK m \in S : t = MaxWord - m OBVIOUS
  <2>4. ASSUME NEW b \in B PROVE GnuBucket(b) <= m
    <3>1. MaxWord - GnuBucket(b) \in T OBVIOUS
    <3>2. MaxWord - m <= MaxWord - GnuBucket(b) BY <2>2, <2>3, <3>1
    <3>3. m \in 0 .. MaxWord /\ GnuBucket(b) \in 0 .. MaxWord BY <1>2, <1>3
    <3> HIDE DEF T, S, B
    <3> QED BY <1>1, <3>2, <3>3
  <2> QED BY <2>4
<1>5. MaxBucket \in S BY <1>4 DEF MaxBucket
<1>6. MaxBucket # 0 => MaxBucket >= file.gnu.symoffset
  BY <1>5 DEF GnuBucketsOk
<1>7. MaxBucket \in 0 .. MaxWord BY <1>3, <1>5
<1> QED BY <1>1, <1>2, <1>6, <1>7
(* What only depends on the file.                                          *)
LEMMA SameFile ==
  ASSUME UNCHANGED file
  PROVE  /\ HashValid' = HashValid /\ NChain' = NChain /\ NBucket' = NBucket
         /\ GnuBucketsOk' = GnuBucketsOk /\ CanonicallyEmpty' = CanonicallyEmpty
BY DEF HashValid, HashInSegment, HashIndicesOk, HashSectionOk, HashSize, NChain, NBucket,
       Bucket, Chain, GnuBucketsOk, GnuInSegment, GnuRoom, GnuBucket, CanonicallyEmpty

(* What is owned is one of the arrays.                                     *)
LEMMA HeapTyped ==
  HeapInv' => heap' \subseteq {"hash.buckets", "hash.chain", "gnu.bloom", "gnu.buckets",
                               "gnu.chain", "syms", "seen", "shndx"}
BY DEF HeapInv, Lasting

(* Every error path of parse_dynsym.                                       *)
LEMMA RefuseTyped ==
  ASSUME TypeInv, HeapInv', oom' \in BOOLEAN, NEW locals, Refuse(locals)
  PROVE  TypeInv'
<1>1. /\ UNCHANGED <<file, sysv, gnu, nsyms, walk, seen>> /\ pc' = "refused"
  BY DEF Refuse, Goto
<1> QED BY <1>1, HeapTyped, SameFile DEF TypeInv, TypeOK, Checked, Counted

(* That of parse_dt_gnu_hash.                                              *)
LEMMA GnuInvalidTyped ==
  ASSUME TypeInv, HeapInv', oom' \in BOOLEAN, GnuInvalid,
         UNCHANGED <<file, sysv, nsyms, walk, seen>>, pc \notin Counted
  PROVE  TypeInv'
<1>1. /\ pc' = "count" /\ gnu' = [gnu EXCEPT !.ret = "invalid"]
  BY DEF GnuInvalid, Goto
<1>2. gnu' \in [ret : {"absent", "invalid", "ok"}, nchain : 0 .. MaxWord] /\ gnu'.ret = "invalid"
  BY <1>1 DEF TypeInv, TypeOK
<1> QED BY <1>1, <1>2, HeapTyped, SameFile DEF TypeInv, TypeOK, Checked, Counted

(* The steps up to the count of the symbols keep the types.                *)
LEMMA TableSteps ==
  ASSUME TypeInv, HeapInv',
         FindSymtab \/ ParseDtHash \/ ReadGnuHeader \/ FindNchain \/ ReadGnuChain
  PROVE  TypeInv'
<1>0. oom \in BOOLEAN /\ (UNCHANGED oom => oom' \in BOOLEAN) BY DEF TypeInv, TypeOK
<1> DEFINE HeapOk == heap' \subseteq {"hash.buckets", "hash.chain", "gnu.bloom", "gnu.buckets",
                             "gnu.chain", "syms", "seen", "shndx"}
<1>00. HeapOk BY HeapTyped
<1>1. CASE FindSymtab
  <2>1. CASE Refuse({}) BY <1>0, <1>1, <2>1, RefuseTyped DEF FindSymtab
  <2>2. CASE /\ pc' = "dtHash"
             /\ UNCHANGED <<file, sysv, gnu, nsyms, walk, seen, heap, held, oom>>
    BY <2>2, SameFile DEF TypeInv, TypeOK, Checked, Counted
  <2> QED BY <1>1, <2>1, <2>2 DEF FindSymtab, Goto
<1>2. CASE ParseDtHash
  <2>1. /\ pc = "dtHash" /\ pc' = "dtGnuHash" /\ UNCHANGED <<file, gnu, nsyms, walk, seen>>
        /\ oom' \in BOOLEAN
        /\ sysv' \in {"absent", "invalid", "ok"} /\ (sysv' = "ok" => HashValid)
    BY <1>0, <1>2 DEF ParseDtHash, Goto
  <2>2. (sysv = "ok" => HashValid)' BY <2>1, SameFile
  <2>3. gnu.ret = "ok" => GnuBucketsOk' BY <2>1, SameFile DEF TypeInv, Checked
  <2> QED BY <1>00, <2>1, <2>2, <2>3 DEF TypeInv, TypeOK, Checked, Counted
<1>3. CASE ReadGnuHeader
  <2>1. UNCHANGED <<file, sysv, nsyms, seen>> /\ pc = "dtGnuHash" /\ pc \notin Counted
    BY <1>3 DEF ReadGnuHeader, Counted
  <2>2. CASE GnuInvalid /\ UNCHANGED walk /\ oom' \in BOOLEAN
    BY <2>1, <2>2, GnuInvalidTyped
  <2>3. CASE pc' = "count" /\ UNCHANGED <<gnu, walk, heap, held, oom>>
    BY <1>00, <2>1, <2>3, SameFile DEF TypeInv, TypeOK, Checked, Counted
  <2>4. CASE /\ GnuBucketsOk /\ UNCHANGED <<gnu, oom>>
             /\ \/ pc' = "gnuChain" /\ UNCHANGED walk
                \/ /\ pc' = "nchain" /\ MaxBucket # 0
                   /\ walk' = [walk EXCEPT !.i = MaxBucket - file.gnu.symoffset]
    <3>1. walk' \in [b : Nat, i : 0 .. MaxWord]
      BY <2>4, GnuTypes DEF TypeInv, TypeOK
    <3>2. GnuBucketsOk' BY <2>1, <2>4, SameFile
    <3> QED BY <1>00, <2>1, <2>4, <3>1, <3>2, SameFile DEF TypeInv, TypeOK, Checked, Counted
  <2> QED BY <1>0, <1>3, <2>2, <2>3, <2>4 DEF ReadGnuHeader, Goto
<1>4. CASE FindNchain
  <2>1. UNCHANGED <<file, sysv, nsyms, seen, oom>> /\ pc = "nchain" /\ pc \notin Counted
    BY <1>4 DEF FindNchain, Counted
  <2>2. CASE GnuInvalid /\ UNCHANGED walk
    BY <1>0, <2>1, <2>2, GnuInvalidTyped
  <2>3. CASE /\ IndexFits(walk.i)
             /\ \/ /\ pc' = "gnuChain" /\ gnu' = [gnu EXCEPT !.nchain = walk.i + 1]
                   /\ UNCHANGED walk
                \/ pc' = "nchain" /\ UNCHANGED gnu /\ walk' = [walk EXCEPT !.i = @ + 1]
    <3>1. walk \in [b : Nat, i : 0 .. MaxWord] /\ walk.i + 1 \in 0 .. MaxWord
      BY <2>3, WordAssumption DEF TypeInv, TypeOK, IndexFits
    <3>2. walk' \in [b : Nat, i : 0 .. MaxWord] BY <2>3, <3>1
    <3>3. gnu' \in [ret : {"absent", "invalid", "ok"}, nchain : 0 .. MaxWord]
      BY <2>3, <3>1 DEF TypeInv, TypeOK
    <3>4. GnuBucketsOk' BY <2>1, SameFile DEF TypeInv, Checked
    <3> QED BY <1>00, <2>1, <2>3, <3>2, <3>3, <3>4, SameFile
        DEF TypeInv, TypeOK, Checked, Counted
  <2> QED BY <1>4, <2>1, <2>2, <2>3 DEF FindNchain, Goto
<1>5. CASE ReadGnuChain
  <2>1. UNCHANGED <<file, sysv, nsyms, walk, seen>> /\ pc = "gnuChain" /\ pc \notin Counted
    BY <1>5 DEF ReadGnuChain, Counted
  <2>2. CASE GnuInvalid /\ oom' \in BOOLEAN
    BY <2>1, <2>2, GnuInvalidTyped
  <2>3. CASE pc' = "count" /\ UNCHANGED oom /\ gnu' = [gnu EXCEPT !.ret = "ok"]
    <3>1. gnu' \in [ret : {"absent", "invalid", "ok"}, nchain : 0 .. MaxWord]
      BY <2>3 DEF TypeInv, TypeOK
    <3>2. GnuBucketsOk' BY <2>1, SameFile DEF TypeInv, Checked
    <3> QED BY <1>00, <2>1, <2>3, <3>1, <3>2, SameFile DEF TypeInv, TypeOK, Checked, Counted
  <2> QED BY <1>0, <1>5, <2>2, <2>3 DEF ReadGnuChain, Goto
<1> QED BY <1>1, <1>2, <1>3, <1>4, <1>5
(* The count of the symbols and the walks over the chains keep the types.  *)
LEMMA SymbolSteps ==
  ASSUME TypeInv, HeapInv',
         CountSymbols \/ ParseDynCleansUp \/ ReadSymbols
           \/ StartSysvWalk \/ SysvStep \/ SysvNextBucket
  PROVE  TypeInv'
<1>0. oom \in BOOLEAN /\ (UNCHANGED oom => oom' \in BOOLEAN) BY DEF TypeInv, TypeOK
<1>1. heap' \subseteq {"hash.buckets", "hash.chain", "gnu.bloom", "gnu.buckets",
                       "gnu.chain", "syms", "seen", "shndx"}
  BY HeapTyped
<1>2. CASE CountSymbols
  <2>1. pc = "count" /\ UNCHANGED <<file, sysv, gnu, walk, seen, oom>>
    BY <1>2 DEF CountSymbols, Refuse
  <2>2. CASE Refuse({}) BY <1>0, <2>1, <2>2, RefuseTyped
  <2>3. CASE pc' = "parseDyn" /\ UNCHANGED nsyms
    BY <1>1, <2>1, <2>3, SameFile DEF TypeInv, TypeOK, Checked, Counted
  <2>4. CASE /\ pc' = "readSyms" /\ TablesAgree
             /\ nsyms' = IF HashCount # 0 THEN HashCount ELSE file.dynsym.num
    <3>1. sysv = "ok" => HashValid /\ NChain \in 1 .. MaxWord
      BY HashTypes DEF TypeInv, Checked
    <3>2. gnu.ret = "ok" => file.gnu.symoffset \in Nat /\ gnu.nchain \in Nat
      BY GnuTypes, WordAssumption DEF TypeInv, TypeOK, Checked
    <3>3. file.dynsym.num \in Nat BY FilesAssumption DEF TypeInv
    <3>4. sysv = "ok" \/ gnu.ret = "ok" BY <2>4 DEF TablesAgree
    <3>5. nsyms' \in Nat /\ (sysv = "ok" => nsyms' = NChain)
      <4>1. CASE sysv = "ok"
        BY <2>4, <3>1, <4>1, WordAssumption DEF HashCount
      <4>2. CASE sysv # "ok"
        <5>1. GnuCount \in Nat BY <3>2, <3>4, <4>2 DEF GnuCount
        <5> QED BY <2>4, <3>3, <4>2, <5>1 DEF HashCount
      <4> QED BY <4>1, <4>2
    <3> QED BY <1>1, <2>1, <2>4, <3>5, SameFile DEF TypeInv, TypeOK, Checked, Counted
  <2> QED BY <1>2, <2>2, <2>3, <2>4 DEF CountSymbols, Goto
<1>3. CASE ParseDynCleansUp
  BY <1>0, <1>3, RefuseTyped DEF ParseDynCleansUp
<1>4. CASE ReadSymbols
  <2>1. CASE Refuse({}) BY <1>0, <1>4, <2>1, RefuseTyped DEF ReadSymbols
  <2>2. CASE /\ UNCHANGED <<file, sysv, gnu, nsyms, seen, oom>> /\ pc = "readSyms"
             /\ pc' = IF sysv = "ok" /\ NBucket > 0 THEN "sysvStart" ELSE "gnuStart"
             /\ walk' = [b |-> 0, i |-> 0]
    <3>1. walk' \in [b : Nat, i : 0 .. MaxWord] BY <2>2, WordAssumption
    <3> QED BY <1>1, <2>2, <3>1, SameFile DEF TypeInv, TypeOK, Checked, Counted
  <2> QED BY <1>4, <2>1, <2>2 DEF ReadSymbols, Goto
<1>5. CASE StartSysvWalk
  <2>1. CASE Refuse({}) BY <1>0, <1>5, <2>1, RefuseTyped DEF StartSysvWalk
  <2>2. CASE /\ UNCHANGED <<file, sysv, gnu, nsyms, seen, oom>> /\ pc' = "sysvWalk"
             /\ pc = "sysvStart" /\ walk' = [b |-> 0, i |-> Bucket(0)]
    <3>1. sysv = "ok" /\ HashValid /\ NBucket > 0 BY <2>2 DEF TypeInv, Checked
    <3>2. /\ NChain \in 1 .. MaxWord /\ NBucket \in 0 .. MaxWord
          /\ \A b \in 0 .. NBucket - 1 : Bucket(b) \in 0 .. NChain - 1
      BY <3>1, HashTypes DEF TypeInv
    <3>3. Bucket(0) \in 0 .. NChain - 1 BY <3>1, <3>2, WordAssumption
    <3>4. walk' \in [b : Nat, i : 0 .. MaxWord] BY <2>2, <3>2, <3>3, WordAssumption
    <3>5. walk'.i < NChain /\ walk'.b < NBucket BY <2>2, <3>1, <3>2, <3>3, WordAssumption
    <3> QED BY <1>1, <2>2, <3>1, <3>4, <3>5, SameFile DEF TypeInv, TypeOK, Checked, Counted
  <2> QED BY <1>5, <2>1, <2>2 DEF StartSysvWalk, Goto
<1>6. CASE SysvStep
  <2>1. CASE Refuse(SeenBits) BY <1>0, <1>6, <2>1, RefuseTyped DEF SysvStep
  <2>2. CASE /\ UNCHANGED <<file, pc, sysv, gnu, nsyms, oom>> /\ pc = "sysvWalk"
             /\ walk.i # 0 /\ seen' = seen \cup {walk.i}
             /\ walk' = [walk EXCEPT !.i = Chain(walk.i)]
    <3>1. /\ sysv = "ok" /\ HashValid /\ NBucket > 0 /\ walk.b < NBucket
          /\ walk.i < NChain /\ walk \in [b : Nat, i : 0 .. MaxWord]
      BY <2>2 DEF TypeInv, Checked, TypeOK
    <3>2. /\ NChain \in 1 .. MaxWord
          /\ \A i \in 0 .. NChain - 1 : Chain(i) \in 0 .. NChain - 1
      BY <3>1, HashTypes DEF TypeInv
    <3>3. walk.i \in 1 .. NChain - 1 BY <2>2, <3>1, <3>2, WordAssumption
    <3>4. Chain(walk.i) \in 0 .. NChain - 1 BY <3>2, <3>3, WordAssumption
    <3>5. walk' \in [b : Nat, i : 0 .. MaxWord] /\ walk'.b = walk.b /\ walk'.i = Chain(walk.i)
      BY <2>2, <3>1, <3>2, <3>4, WordAssumption
    <3>6. seen' \subseteq 1 .. MaxWord
      BY <2>2, <3>2, <3>3, WordAssumption DEF TypeInv, TypeOK
    <3>7. walk'.i < NChain /\ walk'.b < NBucket BY <3>1, <3>2, <3>4, <3>5, WordAssumption
    <3> QED BY <1>1, <2>2, <3>5, <3>6, <3>7, SameFile DEF TypeInv, TypeOK, Checked, Counted
  <2> QED BY <1>6, <2>1, <2>2 DEF SysvStep
<1>7. CASE SysvNextBucket
  <2>1. /\ UNCHANGED <<file, sysv, gnu, nsyms, seen, oom>> /\ pc = "sysvWalk"
    BY <1>7 DEF SysvNextBucket
  <2>2. CASE /\ walk.b + 1 < NBucket /\ UNCHANGED pc
             /\ walk' = [b |-> walk.b + 1, i |-> Bucket(walk.b + 1)]
    <3>1. /\ sysv = "ok" /\ HashValid /\ walk \in [b : Nat, i : 0 .. MaxWord]
      BY <2>1 DEF TypeInv, Checked, TypeOK
    <3>2. /\ NChain \in 1 .. MaxWord /\ NBucket \in 0 .. MaxWord
          /\ \A b \in 0 .. NBucket - 1 : Bucket(b) \in 0 .. NChain - 1
      BY <3>1, HashTypes DEF TypeInv
    <3>3. walk.b + 1 \in 0 .. NBucket - 1 BY <2>2, <3>1, <3>2, WordAssumption
    <3>4. Bucket(walk.b + 1) \in 0 .. NChain - 1 BY <3>2, <3>3
    <3>5. /\ walk' \in [b : Nat, i : 0 .. MaxWord]
          /\ walk'.i = Bucket(walk.b + 1) /\ walk'.b = walk.b + 1
      BY <2>2, <3>1, <3>2, <3>4, WordAssumption
    <3>6. walk'.i < NChain /\ walk'.b < NBucket BY <2>2, <3>2, <3>4, <3>5, WordAssumption
    <3> QED BY <1>1, <2>1, <2>2, <3>5, <3>6, SameFile DEF TypeInv, TypeOK, Checked, Counted
  <2>3. CASE walk' = [b |-> 0, i |-> 0] /\ pc' = "gnuStart"
    <3>1. walk' \in [b : Nat, i : 0 .. MaxWord] BY <2>3, WordAssumption
    <3> QED BY <1>1, <2>1, <2>3, <3>1, SameFile DEF TypeInv, TypeOK, Checked, Counted
  <2> QED BY <1>7, <2>2, <2>3 DEF SysvNextBucket, MoreBuckets, Goto
<1> QED BY <1>2, <1>3, <1>4, <1>5, <1>6, <1>7

(* So do the walk over DT_GNU_HASH and the checks of the sections.         *)
LEMMA LateSteps ==
  ASSUME TypeInv, HeapInv',
         StartGnuWalk \/ GnuNextBucket \/ GnuStep \/ EndGnuWalk
           \/ CheckDynsymSection \/ ParseShndx
  PROVE  TypeInv'
<1>0. oom \in BOOLEAN /\ (UNCHANGED oom => oom' \in BOOLEAN) BY DEF TypeInv, TypeOK
<1>1. heap' \subseteq {"hash.buckets", "hash.chain", "gnu.bloom", "gnu.buckets",
                       "gnu.chain", "syms", "seen", "shndx"}
  BY HeapTyped
<1>2. CASE Refuse({}) /\ oom' \in BOOLEAN BY <1>2, RefuseTyped
<1> DEFINE Kept == UNCHANGED <<file, sysv, gnu, nsyms, seen, oom>>
           Typed == walk \in [b : Nat, i : 0 .. MaxWord]
                    /\ gnu.nchain \in 0 .. MaxWord
<1>3. Typed /\ (gnu.ret = "ok" => /\ GnuBucketsOk /\ file.gnu.nbuckets \in 0 .. MaxWord
                                  /\ file.gnu.symoffset \in 0 .. MaxWord)
  BY GnuTypes DEF TypeInv, TypeOK, Checked
<1>4. Kept => UsesGnu' = UsesGnu BY SameFile DEF UsesGnu
<1>5. CASE StartGnuWalk
  <2>1. CASE /\ Kept /\ UNCHANGED walk /\ pc = "gnuStart" /\ pc' = "section"
    BY <1>1, <2>1, SameFile DEF TypeInv, TypeOK, Checked, Counted
  <2>2. CASE /\ Kept /\ UNCHANGED walk /\ pc = "gnuStart" /\ pc' = "gnuBucket"
             /\ gnu.ret = "ok" /\ ~CanonicallyEmpty /\ file.gnu.nbuckets # 0 /\ GnuTotalsOk
    <3>1. UsesGnu BY <1>3, <2>2, WordAssumption DEF UsesGnu
    <3>2. nsyms = file.gnu.symoffset + gnu.nchain
      BY <1>3, <2>2, WordAssumption DEF GnuTotalsOk, TypeInv, TypeOK
    <3>3. walk.b <= file.gnu.nbuckets
      BY <1>3, <2>2, WordAssumption DEF TypeInv, Checked
    <3> QED BY <1>1, <1>4, <2>2, <3>1, <3>2, <3>3, SameFile
            DEF TypeInv, TypeOK, Checked, Counted
  <2> QED BY <1>0, <1>2, <1>5, <2>1, <2>2 DEF StartGnuWalk, Goto
<1>6. CASE GnuNextBucket
  <2>1. pc = "gnuBucket" /\ walk.b < file.gnu.nbuckets BY <1>6 DEF GnuNextBucket
  <2>2. CASE /\ Kept /\ walk' = [walk EXCEPT !.b = @ + 1] /\ UNCHANGED pc
    <3>1. /\ walk' \in [b : Nat, i : 0 .. MaxWord] /\ walk'.b = walk.b + 1
      BY <1>3, <2>2
    <3>2. walk'.b <= file.gnu.nbuckets
      BY <1>3, <2>1, <3>1, WordAssumption DEF TypeInv, Checked, UsesGnu
    <3> QED BY <1>1, <1>4, <2>1, <2>2, <3>1, <3>2, SameFile
            DEF TypeInv, TypeOK, Checked, Counted
  <2>3. CASE /\ Kept /\ UNCHANGED walk /\ pc' = "gnuWalk"
    BY <1>1, <1>4, <2>1, <2>3, SameFile DEF TypeInv, TypeOK, Checked, Counted
  <2> QED BY <1>0, <1>2, <1>6, <2>2, <2>3 DEF GnuNextBucket, Goto
<1>7. CASE GnuStep
  <2>1. pc = "gnuWalk" BY <1>7 DEF GnuStep
  <2>2. CASE /\ Kept /\ walk.i < gnu.nchain
             /\ \/ pc' = "gnuBucket" /\ walk' = [b |-> walk.b + 1, i |-> walk.i + 1]
                \/ pc' = "gnuWalk" /\ walk' = [walk EXCEPT !.i = @ + 1]
    <3>1. walk.i + 1 \in 0 .. MaxWord BY <1>3, <2>2, WordAssumption
    <3>2. /\ walk' \in [b : Nat, i : 0 .. MaxWord] /\ walk'.b \in {walk.b, walk.b + 1}
          /\ (pc' = "gnuWalk" => walk'.b = walk.b)
      BY <1>3, <2>2, <3>1
    <3>3. UsesGnu /\ walk.b < file.gnu.nbuckets BY <2>1 DEF TypeInv, Checked
    <3>4. walk'.b <= file.gnu.nbuckets
      BY <1>3, <3>2, <3>3, WordAssumption DEF UsesGnu
    <3> QED BY <1>1, <1>4, <2>1, <2>2, <3>2, <3>3, <3>4, SameFile
            DEF TypeInv, TypeOK, Checked, Counted
  <2> QED
    <3>1. CASE walk.i >= gnu.nchain \/ ~Reachable(walk.i, walk.b)
      BY <1>0, <1>2, <1>7, <3>1 DEF GnuStep
    <3>2. CASE ~(walk.i >= gnu.nchain \/ ~Reachable(walk.i, walk.b))
      <4>1. walk.i < gnu.nchain BY <1>3, <3>2, WordAssumption
      <4> QED BY <1>7, <2>1, <2>2, <3>2, <4>1 DEF GnuStep, Goto
    <3> QED BY <3>1, <3>2
<1>8. CASE EndGnuWalk
  <2>1. CASE Kept /\ UNCHANGED walk /\ pc = "gnuBucket" /\ pc' = "section"
    BY <1>1, <2>1, SameFile DEF TypeInv, TypeOK, Checked, Counted
  <2> QED BY <1>0, <1>2, <1>8, <2>1 DEF EndGnuWalk, Goto
<1>9. CASE CheckDynsymSection
  <2>1. CASE Kept /\ UNCHANGED walk /\ pc = "section" /\ pc' = "shndx"
    BY <1>1, <2>1, SameFile DEF TypeInv, TypeOK, Checked, Counted
  <2> QED BY <1>0, <1>2, <1>9, <2>1 DEF CheckDynsymSection, Goto
<1>10. CASE ParseShndx
  <2>1. CASE Kept /\ UNCHANGED walk /\ pc = "shndx" /\ pc' = "accepted"
    BY <1>1, <2>1, SameFile DEF TypeInv, TypeOK, Checked, Counted
  <2> QED BY <1>0, <1>2, <1>10, <2>1 DEF ParseShndx, Goto
<1> QED BY <1>5, <1>6, <1>7, <1>8, <1>9, <1>10

(* Every step keeps the types, and what the checks have shown.             *)
LEMMA TypeStep ==
  ASSUME TypeInv, [Next]_vars
  PROVE  TypeInv'
<1>1. HeapInv' BY HeapStep DEF TypeInv
<1>2. CASE UNCHANGED vars
  <2>1. UsesGnu' = UsesGnu BY <1>2, SameFile DEF vars, UsesGnu
  <2> QED BY <1>1, <1>2, <2>1, SameFile DEF vars, TypeInv, TypeOK, Checked, Counted
<1> QED BY <1>1, <1>2, TableSteps, SymbolSteps, LateSteps DEF Next

(* Nothing has been read yet.                                              *)
LEMMA TypesInitially ==
  ASSUME Init
  PROVE  TypeInv
<1>1. 0 \in 0 .. MaxWord BY WordAssumption
<1> QED BY <1>1 DEF Init, TypeInv, HeapInv, TypeOK, Checked, Counted

(* The types, the ownership and the checks hold in every state.            *)
THEOREM TypesHold == Spec => []TypeInv
BY TypesInitially, TypeStep, PTL DEF Spec

(* Every variable keeps its type, whatever the words of the tables say; in *)
(* particular the length that find_gnu_hash_nchain finds fits a word.      *)
THEOREM TypeCorrect == Spec => []TypeOK
<1>1. TypeInv => TypeOK BY DEF TypeInv
<1> QED BY <1>1, TypesHold, PTL
-----------------------------------------------------------------------------
(* The walk over DT_HASH                                                   *)

(* The chain of bucket b as far as the sequence p of symbols follows it:   *)
(* they are different symbols of that bucket.                              *)
Trail(b, p) ==
  /\ p \in Seq(1 .. NChain - 1)
  /\ \A k \in 1 .. Len(p) : InBucket(p[k], b)
  /\ \A k, l \in 1 .. Len(p) : p[k] = p[l] => k = l
  /\ Len(p) > 0 => p[1] = Bucket(b)
  /\ \A k \in 1 .. Len(p) - 1 : p[k + 1] = Chain(p[k])

(* What comes after it; 0 when the chain ends there.                       *)
Following(b, p) == IF Len(p) = 0 THEN Bucket(b) ELSE Chain(p[Len(p)])

(* The chain of bucket b ends, and so does the loader's walk along it.     *)
Walked(b) == \E p \in Seq(Nat) : Trail(b, p) /\ Following(b, p) = 0

(* Where the walk is, on a trail of symbols it has seen; once the walk is  *)
(* over every bucket has been walked to the end of its chain.              *)
SysvInv ==
  /\ pc = "sysvWalk" =>
       /\ \A b \in 0 .. walk.b - 1 : Walked(b)
       /\ \E b, i \in Nat, p \in Seq(Nat) :
            /\ walk.b = b /\ walk.i = i
            /\ Trail(b, p) /\ Following(b, p) = i /\ \A k \in 1 .. Len(p) : p[k] \in seen
  /\ UsesSysv /\ pc \in {"gnuStart", "gnuBucket", "gnuWalk", "section", "shndx", "accepted"} =>
       \A b \in 0 .. NBucket - 1 : Walked(b)

(* The chains only depend on the file.                                     *)
LEMMA SameTrails ==
  ASSUME UNCHANGED file
  PROVE  /\ \A b, p : Trail(b, p)' = Trail(b, p) /\ Following(b, p)' = Following(b, p)
         /\ \A b : Walked(b)' = Walked(b)
BY DEF Trail, Following, Walked, InBucket, Sym, Bucket, Chain, NBucket, NChain

(* At the start of a bucket nothing of its chain has been walked.          *)
LEMMA EmptyTrail ==
  ASSUME NEW b
  PROVE  \E p \in Seq(Nat) : Trail(b, p) /\ Following(b, p) = Bucket(b) /\ Len(p) = 0
<1>1. << >> \in Seq(Nat) /\ << >> \in Seq(1 .. NChain - 1) /\ Len(<< >>) = 0 OBVIOUS
<1>2. Trail(b, << >>) BY <1>1 DEF Trail
<1>3. Following(b, << >>) = Bucket(b) BY <1>1 DEF Following
<1> QED BY <1>1, <1>2, <1>3

(* One more symbol, which has not been seen.                               *)
LEMMA LongerTrail ==
  ASSUME NEW b, NEW p \in Seq(Nat), Trail(b, p), NEW i \in 1 .. NChain - 1,
         Following(b, p) = i, InBucket(i, b), \A k \in 1 .. Len(p) : p[k] # i
  PROVE  Trail(b, Append(p, i)) /\ Following(b, Append(p, i)) = Chain(i)
<1> DEFINE q == Append(p, i)
<1>1. /\ p \in Seq(1 .. NChain - 1) /\ q \in Seq(1 .. NChain - 1)
      /\ Len(q) = Len(p) + 1 /\ Len(p) \in Nat /\ q[Len(p) + 1] = i
      /\ \A k \in 1 .. Len(p) : q[k] = p[k]
  BY DEF Trail
<1> HIDE DEF q
<1>2. \A k \in 1 .. Len(q) : InBucket(q[k], b) BY <1>1, SMTT(30) DEF Trail
<1>3. ASSUME NEW k \in 1 .. Len(q), NEW l \in 1 .. Len(q), q[k] = q[l] PROVE k = l
  <2>1. CASE k = Len(p) + 1 /\ l = Len(p) + 1 BY <2>1
  <2>2. CASE k = Len(p) + 1 /\ l \in 1 .. Len(p) BY <1>1, <1>3, <2>2
  <2>3. CASE l = Len(p) + 1 /\ k \in 1 .. Len(p) BY <1>1, <1>3, <2>3
  <2>4. CASE k \in 1 .. Len(p) /\ l \in 1 .. Len(p) BY <1>1, <1>3, <2>4 DEF Trail
  <2> QED BY <1>1, <2>1, <2>2, <2>3, <2>4
<1>4. q[1] = Bucket(b) BY <1>1 DEF Trail, Following
<1>5. ASSUME NEW k \in 1 .. Len(q) - 1 PROVE q[k + 1] = Chain(q[k])
  <2>1. CASE k = Len(p) BY <1>1, <2>1 DEF Following
  <2>2. CASE k # Len(p) BY <1>1, <2>2, SMTT(30) DEF Trail
  <2> QED BY <2>1, <2>2
<1>6. Following(b, q) = Chain(i) BY <1>1 DEF Following
<1>7. Trail(b, q) BY <1>1, <1>2, <1>3, <1>4, <1>5 DEF Trail
<1> QED BY <1>6, <1>7 DEF q

(* A step that neither walks nor starts a walk.                            *)
LEMMA SysvElsewhere ==
  ASSUME SysvInv, UNCHANGED <<file, sysv>>, pc' # "sysvWalk",
         \/ pc' \in {"findSymtab", "dtHash", "dtGnuHash", "nchain", "gnuChain", "count",
                     "parseDyn", "readSyms", "sysvStart", "refused"}
         \/ pc \in {"gnuStart", "gnuBucket", "gnuWalk", "section", "shndx", "accepted"}
  PROVE  SysvInv'
<1>1. UsesSysv' = UsesSysv /\ NBucket' = NBucket BY SameFile DEF UsesSysv
<1> QED BY <1>1, SameTrails DEF SysvInv

(* Every step keeps what the walk over DT_HASH has shown.                  *)
LEMMA SysvKept ==
  ASSUME TypeInv, SysvInv, [Next]_vars
  PROVE  SysvInv'
<1>1. CASE FindSymtab BY <1>1, SysvElsewhere DEF FindSymtab, Refuse, Goto
<1>2. CASE ParseDtHash BY <1>2 DEF ParseDtHash, Goto, SysvInv
<1>3. CASE ReadGnuHeader BY <1>3, SysvElsewhere DEF ReadGnuHeader, GnuInvalid, Goto
<1>4. CASE FindNchain BY <1>4, SysvElsewhere DEF FindNchain, GnuInvalid, Goto
<1>5. CASE ReadGnuChain BY <1>5, SysvElsewhere DEF ReadGnuChain, GnuInvalid, Goto
<1>6. CASE CountSymbols BY <1>6, SysvElsewhere DEF CountSymbols, Refuse, Goto
<1>7. CASE ParseDynCleansUp BY <1>7, SysvElsewhere DEF ParseDynCleansUp, Refuse, Goto
<1>8. CASE ReadSymbols
  <2>1. CASE Refuse({}) BY <2>1, SysvElsewhere DEF Refuse, Goto
  <2>2. CASE UNCHANGED <<file, sysv>> /\ pc' = "sysvStart" BY <2>2, SysvElsewhere
  <2>3. CASE UNCHANGED <<file, sysv>> /\ pc' = "gnuStart" /\ ~(sysv = "ok" /\ NBucket > 0)
    <3>1. ~UsesSysv' BY <2>3, SameFile DEF UsesSysv
    <3> QED BY <2>3, <3>1 DEF SysvInv
  <2> QED BY <1>8, <2>1, <2>2, <2>3 DEF ReadSymbols, Goto
<1>9. CASE StartSysvWalk
  <2>1. CASE Refuse({}) BY <2>1, SysvElsewhere DEF Refuse, Goto
  <2>2. CASE /\ UNCHANGED file /\ pc' = "sysvWalk"
             /\ walk' = [b |-> 0, i |-> Bucket(0)]
    <3>1. PICK p \in Seq(Nat) : Trail(0, p) /\ Following(0, p) = Bucket(0) /\ Len(p) = 0
      BY EmptyTrail
    <3>2. walk'.b = 0 /\ walk'.i = Bucket(0) BY <2>2
    <3>3. Bucket(0) \in Nat
      <4>1. HashValid /\ NBucket > 0 /\ file \in Files
        BY <1>9 DEF StartSysvWalk, TypeInv, Checked
      <4> QED BY <4>1, HashTypes, WordAssumption
    <3>4. PICK i \in Nat : i = Bucket(0) BY <3>3
    <3>5. Trail(0, p)' /\ Following(0, p)' = i BY <2>2, <3>1, <3>4, SameTrails
    <3>6. \A k \in 1 .. Len(p) : p[k] \in seen' BY <3>1
    <3>7. \A b \in 0 .. walk'.b - 1 : Walked(b)' BY <3>2
    <3> QED BY <2>2, <3>2, <3>4, <3>5, <3>6, <3>7 DEF SysvInv
  <2> QED BY <1>9, <2>1, <2>2 DEF StartSysvWalk, Goto
<1>10. CASE SysvStep
  <2>1. CASE Refuse(SeenBits) BY <2>1, SysvElsewhere DEF Refuse, Goto
  <2>2. CASE ~Refuse(SeenBits)
    <3>1. /\ pc = "sysvWalk" /\ walk.i # 0 /\ walk.i \notin seen /\ InBucket(walk.i, walk.b)
          /\ seen' = seen \cup {walk.i} /\ walk' = [walk EXCEPT !.i = Chain(walk.i)]
          /\ UNCHANGED <<file, pc, sysv>>
      BY <1>10, <2>2 DEF SysvStep, SeenBefore
    <3>2. /\ walk.i < NChain /\ HashValid /\ file \in Files
          /\ walk \in [b : Nat, i : 0 .. MaxWord]
      BY <3>1 DEF TypeInv, TypeOK, Checked
    <3>3. NChain \in 1 .. MaxWord BY <3>2, HashTypes
    <3>4. walk.i \in 1 .. NChain - 1 BY <3>1, <3>2, <3>3, WordAssumption
    <3>5. walk'.b = walk.b /\ walk'.i = Chain(walk.i) BY <3>1, <3>2
    <3>6. PICK b \in Nat, i \in Nat, p \in Seq(Nat) :
            /\ walk.b = b /\ walk.i = i
            /\ Trail(b, p) /\ Following(b, p) = i /\ \A k \in 1 .. Len(p) : p[k] \in seen
      BY <3>1 DEF SysvInv
    <3> DEFINE q == Append(p, i)
    <3>7. Trail(b, q) /\ Following(b, q) = Chain(i)
      BY <3>1, <3>4, <3>6, LongerTrail
    <3>8. q \in Seq(Nat) /\ \A k \in 1 .. Len(q) : q[k] \in seen'
      BY <3>1, <3>4, <3>6
    <3>9. PICK j \in Nat : j = Chain(i)
      <4>1. \A k \in 0 .. NChain - 1 : Chain(k) \in 0 .. NChain - 1 BY <3>2, HashTypes
      <4>2. Chain(i) \in Nat BY <3>3, <3>4, <3>6, <4>1, WordAssumption
      <4> QED BY <4>2
    <3> HIDE DEF q
    <3>10. Trail(b, q)' /\ Following(b, q)' = j BY <3>1, <3>7, <3>9, SameTrails
    <3>11. \A c \in 0 .. walk'.b - 1 : Walked(c)'
      BY <3>1, <3>5, SameTrails DEF SysvInv
    <3> QED BY <3>1, <3>5, <3>6, <3>8, <3>9, <3>10, <3>11 DEF SysvInv
  <2> QED BY <2>1, <2>2
<1>11. CASE SysvNextBucket
  <2>1. pc = "sysvWalk" /\ walk.i = 0 /\ UNCHANGED <<file, sysv>> BY <1>11 DEF SysvNextBucket
  <2>2. walk.b \in Nat /\ walk.b < NBucket /\ NBucket \in Nat
    BY <2>1, HashTypes, WordAssumption DEF TypeInv, TypeOK, Checked
  <2>3. Walked(walk.b) /\ \A b \in 0 .. walk.b - 1 : Walked(b)
    BY <2>1 DEF SysvInv, Walked
  <2>4. \A b \in 0 .. walk.b : Walked(b) BY <2>2, <2>3
  <2>5. CASE /\ pc' = "sysvWalk"
             /\ walk' = [b |-> walk.b + 1, i |-> Bucket(walk.b + 1)]
    <3>1. walk'.b = walk.b + 1 /\ walk'.i = Bucket(walk.b + 1) BY <2>5
    <3>2. PICK b \in Nat, i \in Nat : b = walk.b + 1 /\ i = Bucket(b)
      <4>1. HashValid /\ file \in Files BY <2>1 DEF TypeInv, Checked
      <4>2. walk.b + 1 \in 0 .. NBucket - 1 BY <1>11, <2>2, <2>5 DEF SysvNextBucket, MoreBuckets, Goto
      <4>3. Bucket(walk.b + 1) \in Nat BY <4>1, <4>2, HashTypes, WordAssumption
      <4> QED BY <2>2, <4>3
    <3>3. PICK p \in Seq(Nat) : Trail(b, p) /\ Following(b, p) = Bucket(b) /\ Len(p) = 0
      BY EmptyTrail
    <3>4. Trail(b, p)' /\ Following(b, p)' = i BY <2>1, <3>2, <3>3, SameTrails
    <3>5. \A c \in 0 .. walk'.b - 1 : Walked(c)' BY <2>1, <2>2, <2>4, <3>1, SameTrails
    <3>6. \A k \in 1 .. Len(p) : p[k] \in seen' BY <3>3
    <3>7. walk'.b = b /\ walk'.i = i BY <3>1, <3>2 DEF Bucket
    <3> QED BY <2>5, <3>4, <3>5, <3>6, <3>7 DEF SysvInv
  <2>6. CASE pc' = "gnuStart" /\ ~(walk.b + 1 < NBucket)
    <3>1. NBucket' = NBucket BY <2>1, SameFile
    <3>2. \A b \in 0 .. NBucket' - 1 : Walked(b)' BY <2>1, <2>2, <2>4, <2>6, <3>1, SameTrails
    <3> QED BY <2>6, <3>2 DEF SysvInv
  <2> QED BY <1>11, <2>1, <2>5, <2>6 DEF SysvNextBucket, MoreBuckets, Goto
<1>12. CASE StartGnuWalk BY <1>12, SysvElsewhere DEF StartGnuWalk, Refuse, Goto
<1>13. CASE GnuNextBucket BY <1>13, SysvElsewhere DEF GnuNextBucket, Refuse, Goto
<1>14. CASE GnuStep BY <1>14, SysvElsewhere DEF GnuStep, Refuse, Goto
<1>15. CASE EndGnuWalk BY <1>15, SysvElsewhere DEF EndGnuWalk, Refuse, Goto
<1>16. CASE CheckDynsymSection BY <1>16, SysvElsewhere DEF CheckDynsymSection, Refuse, Goto
<1>17. CASE ParseShndx BY <1>17, SysvElsewhere DEF ParseShndx, Refuse, Goto
<1>18. CASE UNCHANGED vars
  <2>1. UsesSysv' = UsesSysv /\ NBucket' = NBucket BY <1>18, SameFile DEF UsesSysv, vars
  <2> QED BY <1>18, <2>1 DEF SysvInv, vars, Walked, Trail, Following, InBucket, Sym, Bucket,
                             Chain, NBucket, NChain
<1> QED
  BY <1>1, <1>2, <1>3, <1>4, <1>5, <1>6, <1>7, <1>8, <1>9, <1>10, <1>11, <1>12, <1>13,
     <1>14, <1>15, <1>16, <1>17, <1>18 DEF Next
(* The loader follows a trail that ends to its end, and it cannot be       *)
(* longer than there are symbols.                                          *)
LEMMA PathFollowsTrail ==
  ASSUME file \in Files, HashValid, nsyms = NChain,
         NEW b \in 0 .. NBucket - 1, NEW p \in Seq(Nat), Trail(b, p), Following(b, p) = 0
  PROVE  /\ Len(p) < nsyms
         /\ \A k \in 0 .. nsyms : SysvPath(b)[k] = IF k < Len(p) THEN p[k + 1] ELSE 0
<1>1. NChain \in 1 .. MaxWord /\ NChain \in Nat /\ Len(p) \in Nat
  BY HashTypes, WordAssumption
<1>2. \A k \in 1 .. Len(p) : p[k] \in 1 .. NChain - 1
  <2> DEFINE T == 1 .. NChain - 1
  <2>1. p \in Seq(T) BY DEF Trail
  <2> HIDE DEF T
  <2>2. \A k \in 1 .. Len(p) : p[k] \in T BY <2>1
  <2> QED BY <2>2 DEF T
<1>3. Len(p) < nsyms
  <2> SUFFICES ASSUME NChain <= Len(p) PROVE FALSE BY <1>1
  <2> DEFINE f == [k \in 1 .. Len(p) |-> p[k]]
             S == 1 .. Len(p)
             T == 1 .. NChain - 1
  <2>1. f \in [S -> T] BY <1>2
  <2>2. IsFiniteSet(S) /\ Cardinality(S) = Len(p)
    <3>1. 1 \in Int /\ Len(p) \in Int /\ ~(1 > Len(p)) BY <1>1
    <3>2. Len(p) - 1 + 1 = Len(p) BY <1>1
    <3> HIDE DEF f
    <3> QED BY <3>1, <3>2, FS_Interval
  <2>3. IsFiniteSet(T) /\ Cardinality(T) = NChain - 1
    <3>1. 1 \in Int /\ NChain - 1 \in Int BY <1>1
    <3>2. IsFiniteSet(T) /\ Cardinality(T) = IF 1 > NChain - 1 THEN 0 ELSE (NChain - 1) - 1 + 1
      BY <3>1, FS_Interval
    <3> HIDE DEF f, S, T
    <3> QED BY <1>1, <3>2
  <2>4. \E x, y \in S : x # y /\ f[x] = f[y]
    <3> HIDE DEF f, S, T
    <3> QED BY <1>1, <2>1, <2>2, <2>3, FS_PigeonHole
  <2> QED BY <2>4 DEF Trail
<1> DEFINE After(a, k) == IF k = 0 THEN Bucket(b)
                          ELSE IF a[k - 1] = 0 THEN 0 ELSE Chain(a[k - 1])
           At0(k) == IF k < Len(p) THEN p[k + 1] ELSE 0
           v == SysvPath(b)
           g == [k \in 0 .. nsyms |-> At0(k)]
<1>4. nsyms \in Nat BY <1>1
<1>5. ASSUME NEW k \in 0 .. nsyms, k # 0
      PROVE  At0(k) = IF At0(k - 1) = 0 THEN 0 ELSE Chain(At0(k - 1))
  <2>1. CASE k < Len(p)
    <3>1. k \in 1 .. Len(p) - 1 /\ k \in 1 .. Len(p) /\ (k - 1) + 1 = k BY <1>1, <1>4, <1>5, <2>1
    <3>2. At0(k - 1) = p[k] /\ At0(k) = p[k + 1] BY <1>1, <2>1, <3>1
    <3>3. p[k] # 0 BY <1>1, <1>2, <3>1
    <3>4. p[k + 1] = Chain(p[k]) BY <3>1 DEF Trail
    <3> QED BY <3>2, <3>3, <3>4
  <2>2. CASE k = Len(p)
    <3>1. k \in 1 .. Len(p) /\ (k - 1) + 1 = k BY <1>1, <1>4, <1>5, <2>2
    <3>2. At0(k - 1) = p[k] /\ At0(k) = 0 BY <1>1, <2>2, <3>1
    <3>3. p[k] # 0 BY <1>1, <1>2, <3>1
    <3>4. Chain(p[k]) = 0 BY <1>1, <2>2, <3>1 DEF Following
    <3> QED BY <3>2, <3>3, <3>4
  <2>3. CASE k > Len(p)
    <3>1. ~(k < Len(p)) /\ ~(k - 1 < Len(p)) BY <1>1, <1>4, <2>3
    <3> QED BY <3>1
  <2> QED BY <1>1, <1>4, <2>1, <2>2, <2>3
<1>6. At0(0) = Bucket(b)
  BY <1>1 DEF Trail, Following
<1>7. g = [k \in 0 .. nsyms |-> After(g, k)]
  <2>1. ASSUME NEW k \in 0 .. nsyms PROVE At0(k) = After(g, k)
    <3>1. CASE k = 0 BY <1>6, <3>1
    <3>2. CASE k # 0
      <4>1. k - 1 \in 0 .. nsyms BY <1>4, <3>2
      <4>2. g[k - 1] = At0(k - 1) BY <4>1
      <4> HIDE DEF At0, g
      <4> QED BY <1>5, <3>2, <4>2
    <3> QED BY <3>1, <3>2
  <2> HIDE DEF At0
  <2> QED BY <2>1
<1>8. v = [k \in 0 .. nsyms |-> After(v, k)]
  <2> HIDE DEF g
  <2> QED BY <1>7 DEF SysvPath
<1> HIDE DEF v, g, At0
<1> DEFINE Same == {k \in 0 .. nsyms : v[k] = At0(k)}
<1>9. 0 \in Same BY <1>4, <1>6, <1>8
<1>10. ASSUME NEW k \in 0 .. nsyms - 1, k \in Same PROVE k + 1 \in Same
  <2>1. k + 1 \in 0 .. nsyms /\ k + 1 # 0 /\ (k + 1) - 1 = k BY <1>4
  <2>2. v[k + 1] = After(v, k + 1) BY <1>8, <2>1
  <2>3. v[k] = At0(k) BY <1>10
  <2>4. At0(k + 1) = IF At0(k) = 0 THEN 0 ELSE Chain(At0(k)) BY <1>5, <2>1
  <2> QED BY <2>1, <2>2, <2>3, <2>4
<1>11. 0 .. nsyms \subseteq Same
  <2>1. 0 \in Nat /\ (0 <= nsyms => 0 \in Same) BY <1>9
  <2>2. \A k \in 0 .. nsyms - 1 : k \in Same => k + 1 \in Same BY <1>10
  <2> HIDE DEF Same, After
  <2> QED BY <1>4, <2>1, <2>2, IntervalInduction
<1>12. \A k \in 0 .. nsyms : SysvPath(b)[k] = At0(k) BY <1>11 DEF v
<1> QED BY <1>3, <1>12 DEF At0
-----------------------------------------------------------------------------
(* The walk over DT_GNU_HASH                                               *)

(* No chain entry from that of symbol `first` to the one of index i ends.  *)
Open(first, i) ==
  \A k \in first .. file.gnu.symoffset + i - 1 : ~Ends(GnuChain(k - file.gnu.symoffset))

(* The loader comes to the symbol of index i from its bucket.              *)
Reached(i) ==
  \E b \in 0 .. file.gnu.nbuckets - 1 :
    /\ Reachable(i, b)
    /\ GnuBucket(b) # 0 /\ GnuBucket(b) <= file.gnu.symoffset + i
    /\ Open(GnuBucket(b), i)

(* The chain of bucket b ends before the symbols do.                       *)
Stops(b) ==
  GnuBucket(b) # 0 =>
    \E j \in GnuBucket(b) .. nsyms - 1 : Ends(GnuChain(j - file.gnu.symoffset))

(* Where the walk is; once it is over it has been everywhere.              *)
GnuInv ==
  /\ pc \in {"gnuBucket", "gnuWalk"} =>
       /\ \A i \in 0 .. walk.i - 1 : Reached(i)
       /\ \A b \in 0 .. walk.b - 1 : Stops(b)
  /\ pc = "gnuWalk" =>
       \E b, i \in Nat : /\ walk.b = b /\ walk.i = i
                         /\ GnuBucket(b) # 0 /\ GnuBucket(b) <= file.gnu.symoffset + i
                         /\ Open(GnuBucket(b), i)
  /\ UsesGnu /\ pc \in {"section", "shndx", "accepted"} =>
       /\ nsyms = file.gnu.symoffset + gnu.nchain
       /\ \A i \in 0 .. gnu.nchain - 1 : Reached(i)
       /\ \A b \in 0 .. file.gnu.nbuckets - 1 : Stops(b)

(* The chains only depend on the file, their ends also on the count.       *)
LEMMA SameChains ==
  ASSUME UNCHANGED file
  PROVE  /\ \A i : Reached(i)' = Reached(i)
         /\ \A b : GnuBucket(b)' = GnuBucket(b)
         /\ \A f, i : Open(f, i)' = Open(f, i)
         /\ UNCHANGED nsyms => \A b : Stops(b)' = Stops(b)
BY DEF Reached, Reachable, BloomHas, Open, Stops, GnuBucket, GnuChain, Sym

(* A step outside the walk.                                                *)
LEMMA GnuElsewhere ==
  ASSUME pc' \notin {"gnuBucket", "gnuWalk", "section", "shndx", "accepted"}
  PROVE  GnuInv'
BY DEF GnuInv

(* Every step keeps what the walk over DT_GNU_HASH has shown.              *)
LEMMA GnuKept ==
  ASSUME TypeInv, GnuInv, [Next]_vars
  PROVE  GnuInv'
<1> DEFINE Kept == UNCHANGED <<file, sysv, gnu, nsyms>>
<1>1. /\ walk \in [b : Nat, i : 0 .. MaxWord] /\ MaxWord \in Nat /\ nsyms \in Nat
      /\ gnu.nchain \in 0 .. MaxWord
      /\ gnu.ret = "ok" => /\ file.gnu.nbuckets \in 0 .. MaxWord
                           /\ file.gnu.symoffset \in 0 .. MaxWord
                           /\ \A b \in 0 .. file.gnu.nbuckets - 1 : GnuBucket(b) \in 0 .. MaxWord
  BY WordAssumption, GnuTypes DEF TypeInv, TypeOK, Checked
<1>2. Kept => UsesGnu' = UsesGnu BY SameFile DEF UsesGnu
<1>3. CASE \/ FindSymtab \/ ParseDtHash \/ ReadGnuHeader \/ FindNchain \/ ReadGnuChain
           \/ CountSymbols \/ ParseDynCleansUp \/ ReadSymbols
           \/ StartSysvWalk \/ SysvStep \/ SysvNextBucket
  BY <1>3, GnuElsewhere
     DEF FindSymtab, ParseDtHash, ReadGnuHeader, FindNchain, ReadGnuChain, CountSymbols,
         ParseDynCleansUp, ReadSymbols, StartSysvWalk, SysvStep, SysvNextBucket,
         GnuInvalid, Refuse, Goto
<1>4. CASE pc' = "refused" BY <1>4, GnuElsewhere
<1>5. CASE StartGnuWalk
  <2>1. CASE /\ Kept /\ pc' = "section"
             /\ gnu.ret # "ok" \/ CanonicallyEmpty \/ file.gnu.nbuckets = 0
    <3>1. ~UsesGnu BY <2>1 DEF UsesGnu
    <3>2. ~UsesGnu' BY <1>2, <2>1, <3>1
    <3> QED BY <2>1, <3>2 DEF GnuInv
  <2>2. CASE Kept /\ pc' = "gnuBucket" /\ UNCHANGED walk /\ pc = "gnuStart"
    <3>1. walk'.b = 0 /\ walk'.i = 0 BY <2>2 DEF TypeInv, Checked
    <3> QED BY <2>2, <3>1 DEF GnuInv
  <2> QED BY <1>4, <1>5, <2>1, <2>2 DEF StartGnuWalk, Refuse, Goto
<1>6. CASE GnuNextBucket
  <2>1. /\ pc = "gnuBucket" /\ UsesGnu /\ gnu.ret = "ok"
        /\ walk.b \in 0 .. file.gnu.nbuckets - 1 /\ walk.i \in Nat
    BY <1>1, <1>6 DEF GnuNextBucket, TypeInv, Checked, UsesGnu
  <2>2. CASE /\ Kept /\ GnuBucket(walk.b) = 0 /\ pc' = "gnuBucket"
             /\ walk' = [walk EXCEPT !.b = @ + 1]
    <3>1. walk'.b = walk.b + 1 /\ walk'.i = walk.i BY <1>1, <2>2
    <3>2. Stops(walk.b) BY <2>2 DEF Stops
    <3>3. \A b \in 0 .. walk.b : Stops(b) BY <2>1, <3>2 DEF GnuInv
    <3>4. \A b \in 0 .. walk'.b - 1 : Stops(b)' BY <2>1, <2>2, <3>1, <3>3, SameChains
    <3>5. \A i \in 0 .. walk'.i - 1 : Reached(i)' BY <2>1, <2>2, <3>1, SameChains DEF GnuInv
    <3> QED BY <2>2, <3>4, <3>5 DEF GnuInv
  <2>3. CASE /\ Kept /\ GnuBucket(walk.b) # 0 /\ pc' = "gnuWalk" /\ UNCHANGED walk
             /\ StartsHere(GnuBucket(walk.b))
    <3>1. PICK b \in Nat, i \in Nat : walk.b = b /\ walk.i = i BY <2>1
    <3>2. GnuBucket(b) # 0 /\ GnuBucket(b) = file.gnu.symoffset + i
      BY <2>3, <3>1 DEF StartsHere, GnuBucket
    <3>3. Open(GnuBucket(b), i) BY <1>1, <2>1, <3>1, <3>2 DEF Open
    <3>4. PICK f : f = GnuBucket(b) OBVIOUS
    <3>5. Open(f, i)' BY <2>3, <3>3, <3>4, SameChains
    <3>6. GnuBucket(b)' = f BY <2>3, <3>4, SameChains
    <3>7. Open(GnuBucket(b), i)' BY <3>5, <3>6 DEF Open
    <3>8. GnuBucket(b)' # 0 /\ GnuBucket(b)' <= file'.gnu.symoffset + i
      BY <1>1, <2>1, <2>3, <3>2, <3>4, <3>6
    <3>9. /\ \A c \in 0 .. walk'.b - 1 : Stops(c)'
          /\ \A k \in 0 .. walk'.i - 1 : Reached(k)'
      BY <2>1, <2>3, SameChains DEF GnuInv
    <3> QED BY <2>3, <3>1, <3>7, <3>8, <3>9 DEF GnuInv
  <2> QED BY <1>4, <1>6, <2>2, <2>3, <2>1 DEF GnuNextBucket, Refuse, Goto
<1>7. CASE GnuStep
  <2> SUFFICES ASSUME pc' # "refused" PROVE GnuInv' BY <1>4
  <2>1. /\ pc = "gnuWalk" /\ Kept /\ walk.i < gnu.nchain /\ Reachable(walk.i, walk.b)
        /\ \/ /\ Ends(GnuChain(walk.i)) /\ pc' = "gnuBucket"
              /\ walk' = [b |-> walk.b + 1, i |-> walk.i + 1]
           \/ /\ ~Ends(GnuChain(walk.i)) /\ pc' = "gnuWalk"
              /\ walk' = [walk EXCEPT !.i = @ + 1]
    BY <1>1, <1>7 DEF GnuStep, Refuse, Goto
  <2>2. PICK b \in Nat, i \in Nat :
          /\ walk.b = b /\ walk.i = i
          /\ GnuBucket(b) # 0 /\ GnuBucket(b) <= file.gnu.symoffset + i
          /\ Open(GnuBucket(b), i)
    BY <2>1 DEF GnuInv
  <2>3. /\ b \in 0 .. file.gnu.nbuckets - 1 /\ UsesGnu /\ gnu.ret = "ok"
        /\ nsyms = file.gnu.symoffset + gnu.nchain /\ file.gnu.symoffset \in Nat
    BY <1>1, <2>1, <2>2 DEF TypeInv, Checked, UsesGnu
  <2>4. GnuBucket(b) \in Nat BY <1>1, <2>3
  <2>5. Reachable(i, b) /\ i < gnu.nchain BY <2>1, <2>2 DEF Reachable, GnuChain, Sym
  <2>6. Reached(i) BY <2>2, <2>3, <2>5 DEF Reached
  <2>7. \A k \in 0 .. i : Reached(k)
    <3>1. \A k \in 0 .. walk.i - 1 : Reached(k) BY <2>1 DEF GnuInv
    <3> QED BY <2>2, <2>6, <3>1
  <2>8. \A c \in 0 .. b - 1 : Stops(c)
    <3>1. \A c \in 0 .. walk.b - 1 : Stops(c) BY <2>1 DEF GnuInv
    <3> QED BY <2>2, <3>1
  <2>9. walk'.i = i + 1 /\ walk'.b \in Nat BY <1>1, <2>1, <2>2
  <2>10. \A k \in 0 .. walk'.i - 1 : Reached(k)' BY <2>1, <2>7, <2>9, SameChains
  <2>11. (file.gnu.symoffset + i) - file.gnu.symoffset = i BY <2>3
  <2>12. CASE Ends(GnuChain(walk.i))
    <3>1. pc' = "gnuBucket" /\ walk'.b = b + 1 BY <2>1, <2>2, <2>12
    <3>2. Ends(GnuChain(i)) BY <2>2, <2>12 DEF GnuChain
    <3>3. Stops(b)
      <4>1. file.gnu.symoffset + i \in GnuBucket(b) .. nsyms - 1
        BY <1>1, <2>2, <2>3, <2>4, <2>5
      <4>2. Ends(GnuChain((file.gnu.symoffset + i) - file.gnu.symoffset)) BY <2>11, <3>2
      <4> QED BY <4>1, <4>2 DEF Stops
    <3>4. \A c \in 0 .. walk'.b - 1 : Stops(c)' BY <2>1, <2>8, <3>1, <3>3, SameChains
    <3> QED BY <2>10, <3>1, <3>4 DEF GnuInv
  <2>13. CASE ~Ends(GnuChain(walk.i))
    <3>1. pc' = "gnuWalk" /\ walk'.b = b BY <1>1, <2>1, <2>2, <2>13
    <3>2. ~Ends(GnuChain(i)) BY <2>2, <2>13 DEF GnuChain
    <3>3. Open(GnuBucket(b), i + 1)
      <4> SUFFICES ASSUME NEW k \in GnuBucket(b) .. file.gnu.symoffset + (i + 1) - 1
                   PROVE  ~Ends(GnuChain(k - file.gnu.symoffset))
        BY DEF Open
      <4>1. CASE k = file.gnu.symoffset + i BY <2>11, <3>2, <4>1
      <4>2. CASE k # file.gnu.symoffset + i
        <5>1. k \in GnuBucket(b) .. file.gnu.symoffset + i - 1 BY <2>3, <2>4, <4>2
        <5> QED BY <2>2, <5>1 DEF Open
      <4> QED BY <4>1, <4>2
    <3>4. PICK f : f = GnuBucket(b) OBVIOUS
    <3>5. PICK j \in Nat : j = i + 1 OBVIOUS
    <3>6. Open(f, j)' BY <2>1, <3>3, <3>4, <3>5, SameChains
    <3>7. GnuBucket(b)' = f BY <2>1, <3>4, SameChains
    <3>8. Open(GnuBucket(b), j)' BY <3>6, <3>7 DEF Open
    <3>9. GnuBucket(b)' # 0 /\ GnuBucket(b)' <= file'.gnu.symoffset + j
      BY <2>1, <2>2, <2>3, <2>4, <3>4, <3>5, <3>7
    <3>10. \A c \in 0 .. walk'.b - 1 : Stops(c)' BY <2>1, <2>8, <3>1, SameChains
    <3> QED BY <2>9, <2>10, <3>1, <3>5, <3>8, <3>9, <3>10 DEF GnuInv
  <2> QED BY <2>12, <2>13
<1>8. CASE EndGnuWalk
  <2> SUFFICES ASSUME pc' # "refused" PROVE GnuInv' BY <1>4
  <2>1. /\ pc = "gnuBucket" /\ walk.b = file.gnu.nbuckets /\ walk.i = gnu.nchain
        /\ Kept /\ pc' = "section"
    BY <1>8 DEF EndGnuWalk, Refuse, Goto
  <2>2. nsyms = file.gnu.symoffset + gnu.nchain BY <2>1 DEF TypeInv, Checked
  <2>3. /\ \A i \in 0 .. gnu.nchain - 1 : Reached(i)
        /\ \A b \in 0 .. file.gnu.nbuckets - 1 : Stops(b)
    BY <2>1 DEF GnuInv
  <2>4. /\ \A i \in 0 .. gnu'.nchain - 1 : Reached(i)'
        /\ \A b \in 0 .. file'.gnu.nbuckets - 1 : Stops(b)'
    BY <2>1, <2>3, SameChains
  <2> QED BY <2>1, <2>2, <2>4 DEF GnuInv
<1>9. CASE \/ CheckDynsymSection \/ ParseShndx
  <2> SUFFICES ASSUME pc' # "refused" PROVE GnuInv' BY <1>4
  <2>1. Kept /\ pc \in {"section", "shndx"} /\ pc' \in {"shndx", "accepted"}
    BY <1>9 DEF CheckDynsymSection, ParseShndx, Refuse, Goto
  <2> QED BY <1>2, <2>1, SameChains DEF GnuInv
<1>10. CASE UNCHANGED vars
  BY <1>2, <1>10, SameChains DEF vars, GnuInv
<1> QED BY <1>3, <1>5, <1>6, <1>7, <1>8, <1>9, <1>10 DEF Next
-----------------------------------------------------------------------------
(* What the loader can do with an accepted file                            *)

(* The inductive invariant behind what the loader can do.                  *)
WalkInv == TypeInv /\ SysvInv /\ GnuInv

(* The types and the two walks hold in every state.                        *)
THEOREM WalksHold == Spec => []WalkInv
<1>1. Init => WalkInv
  BY TypesInitially DEF Init, WalkInv, SysvInv, GnuInv
<1>2. WalkInv /\ [Next]_vars => WalkInv' BY TypeStep, SysvKept, GnuKept DEF WalkInv
<1> QED BY <1>1, <1>2, PTL DEF Spec

(* What is known of the chains of DT_HASH in an accepted file.             *)
LEMMA AcceptedSysv ==
  ASSUME WalkInv, pc = "accepted", UsesSysv, NEW b \in 0 .. NBucket - 1
  PROVE  \E p \in Seq(Nat) :
           /\ Len(p) < nsyms /\ nsyms \in Nat
           /\ \A k \in 1 .. Len(p) : p[k] \in 1 .. nsyms - 1 /\ InBucket(p[k], b)
           /\ \A k \in 0 .. nsyms : SysvPath(b)[k] = IF k < Len(p) THEN p[k + 1] ELSE 0
<1>1. HashValid /\ file \in Files /\ nsyms = NChain /\ nsyms \in Nat
  BY DEF WalkInv, TypeInv, Checked, TypeOK, Counted, UsesSysv
<1>2. PICK p \in Seq(Nat) : Trail(b, p) /\ Following(b, p) = 0
  BY DEF WalkInv, SysvInv, Walked
<1> DEFINE T == 1 .. NChain - 1
<1>3. p \in Seq(T) BY <1>2 DEF Trail
<1>4. \A k \in 1 .. Len(p) : p[k] \in T
  <2> HIDE DEF T
  <2> QED BY <1>3
<1>5. \A k \in 1 .. Len(p) : InBucket(p[k], b) BY <1>2 DEF Trail
<1>6. /\ Len(p) < nsyms
      /\ \A k \in 0 .. nsyms : SysvPath(b)[k] = IF k < Len(p) THEN p[k + 1] ELSE 0
  BY <1>1, <1>2, PathFollowsTrail
<1>7. \A k \in 1 .. Len(p) : p[k] \in 1 .. nsyms - 1 BY <1>1, <1>4
<1> WITNESS p \in Seq(Nat)
<1> QED BY <1>1, <1>5, <1>6, <1>7

(* However it enters a table of an accepted file, the dynamic loader stops *)
(* and meets no index beyond the symbols that were read: the walks of      *)
(* validate_sysv_hash and validate_gnu_hash leave out no chain.            *)
THEOREM TablesAreWalkable == Spec => []LoaderStaysInside
<1>1. ASSUME WalkInv, pc = "accepted", UsesSysv, NEW b \in 0 .. NBucket - 1
      PROVE  (\A k \in 0 .. nsyms : SysvPath(b)[k] < nsyms) /\ SysvPath(b)[nsyms] = 0
  <2>1. PICK p \in Seq(Nat) :
           /\ Len(p) < nsyms /\ nsyms \in Nat
           /\ \A k \in 1 .. Len(p) : p[k] \in 1 .. nsyms - 1 /\ InBucket(p[k], b)
           /\ \A k \in 0 .. nsyms : SysvPath(b)[k] = IF k < Len(p) THEN p[k + 1] ELSE 0
    BY <1>1, AcceptedSysv
  <2>2. ASSUME NEW k \in 0 .. nsyms PROVE SysvPath(b)[k] < nsyms
    <3>1. CASE k < Len(p)
      <4>1. k + 1 \in 1 .. Len(p) BY <2>1, <3>1
      <4>2. p[k + 1] \in 1 .. nsyms - 1 BY <2>1, <4>1
      <4>3. SysvPath(b)[k] = p[k + 1] BY <2>1, <3>1
      <4> QED BY <2>1, <4>2, <4>3
    <3>2. CASE ~(k < Len(p)) BY <2>1, <3>2
    <3> QED BY <3>1, <3>2
  <2> QED BY <2>1, <2>2
<1>2. ASSUME WalkInv, pc = "accepted", UsesGnu, NEW b \in 0 .. file.gnu.nbuckets - 1,
             GnuBucket(b) # 0
      PROVE  \E j \in GnuBucket(b) .. nsyms - 1 : Ends(GnuChain(j - file.gnu.symoffset))
  BY <1>2 DEF WalkInv, GnuInv, Stops
<1>3. WalkInv => LoaderStaysInside BY <1>1, <1>2 DEF LoaderStaysInside
<1> QED BY <1>3, WalksHold, PTL

(* In an accepted file the dynamic loader finds every symbol that a chain  *)
(* of DT_HASH links and every symbol that DT_GNU_HASH is there for, each   *)
(* in the bucket that its hash selects.                                    *)
THEOREM SymbolsAreFound == Spec => []LoaderFindsSymbols
<1>1. ASSUME WalkInv, pc = "accepted", UsesSysv,
             NEW b \in 0 .. NBucket - 1, NEW k \in 0 .. nsyms, SysvPath(b)[k] # 0
      PROVE  SysvFinds(Sym(SysvPath(b)[k]).name)
  <2>1. PICK p \in Seq(Nat) :
           /\ Len(p) < nsyms /\ nsyms \in Nat
           /\ \A n \in 1 .. Len(p) : p[n] \in 1 .. nsyms - 1 /\ InBucket(p[n], b)
           /\ \A n \in 0 .. nsyms : SysvPath(b)[n] = IF n < Len(p) THEN p[n + 1] ELSE 0
    BY <1>1, AcceptedSysv
  <2>2. k < Len(p) /\ SysvPath(b)[k] = p[k + 1] BY <1>1, <2>1
  <2>3. k + 1 \in 1 .. Len(p) BY <2>1, <2>2
  <2>4. SysvHash[Sym(SysvPath(b)[k]).name] % NBucket = b BY <2>1, <2>2, <2>3 DEF InBucket
  <2> QED BY <1>1, <2>4 DEF SysvFinds
<1>2. ASSUME WalkInv, pc = "accepted", UsesGnu, NEW s \in file.gnu.symoffset .. nsyms - 1
      PROVE  GnuFinds(Sym(s).name)
  <2>1. /\ file.gnu.symoffset \in Nat /\ gnu.nchain \in Nat
        /\ nsyms = file.gnu.symoffset + gnu.nchain
        /\ \A b \in 0 .. file.gnu.nbuckets - 1 : GnuBucket(b) \in Nat
    <3>1. gnu.ret = "ok" BY <1>2 DEF UsesGnu
    <3> QED BY <1>2, <3>1, GnuTypes, WordAssumption
            DEF WalkInv, GnuInv, TypeInv, TypeOK, Checked
  <2>2. PICK i \in 0 .. gnu.nchain - 1 : s = file.gnu.symoffset + i
    <3>1. s - file.gnu.symoffset \in 0 .. gnu.nchain - 1 BY <2>1
    <3>2. s = file.gnu.symoffset + (s - file.gnu.symoffset) BY <2>1
    <3> QED BY <3>1, <3>2
  <2>3. s - file.gnu.symoffset = i BY <2>1, <2>2
  <2>4. PICK b \in 0 .. file.gnu.nbuckets - 1 :
          /\ Reachable(i, b)
          /\ GnuBucket(b) # 0 /\ GnuBucket(b) <= file.gnu.symoffset + i
          /\ Open(GnuBucket(b), i)
    BY <1>2 DEF WalkInv, GnuInv, Reached
  <2> DEFINE h == GnuHash[Sym(s).name]
  <2>5. GnuChain(i) \div 2 = h \div 2 /\ h % file.gnu.nbuckets = b /\ BloomHas(h)
    BY <2>2, <2>4 DEF Reachable
  <2>6. BothBits(h)
    <3> HIDE DEF h
    <3> QED BY <2>5 DEF BothBits, BloomHas
  <2>7. GnuBucket(b) # 0 /\ s \in GnuBucket(b) .. nsyms - 1
    BY <2>1, <2>2, <2>4
  <2>8. GnuVisits(GnuBucket(b), s)
    <3> SUFFICES ASSUME NEW k \in GnuBucket(b) .. s - 1
                 PROVE  ~Ends(GnuChain(k - file.gnu.symoffset))
      BY DEF GnuVisits
    <3>1. k \in GnuBucket(b) .. file.gnu.symoffset + i - 1 BY <2>1, <2>2
    <3> QED BY <2>4, <3>1 DEF Open
  <2>9. GnuChain(s - file.gnu.symoffset) \div 2 = h \div 2 BY <2>3, <2>5
  <2> QED BY <2>5, <2>6, <2>7, <2>8, <2>9 DEF GnuFinds
<1>3. WalkInv => LoaderFindsSymbols BY <1>1, <1>2 DEF LoaderFindsSymbols
<1> QED BY <1>3, WalksHold, PTL

==============================================================================
