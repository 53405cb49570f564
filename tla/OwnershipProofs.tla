--------------------------- MODULE OwnershipProofs ---------------------------
(***************************************************************************)
(* Proof that the arrays have one owner each, in main and under a client   *)
(* that resizes its tables in any order: nothing is freed twice or used    *)
(* after it is freed, and all of it is freed in the end, but for the table *)
(* a client asked to resize to nothing.                                    *)
(***************************************************************************)
EXTENDS OwnershipClient, TLAPS

(* The places that hold a block.                                           *)
Owned == Held(AllPlaces)

(* The live blocks that no place holds any more.                           *)
Lost == live \ {ptr[p] : p \in AllPlaces}

(* No call has gone wrong: what a place holds is live, and no two places   *)
(* of O hold the same block.                                               *)
Sound(O) ==
  /\ ptr \in [AllPlaces -> Blocks \cup {Null}]
  /\ live \subseteq Blocks
  /\ fault = "none"
  /\ \A p \in Owned : ptr[p] \in live
  /\ \A p, q \in Owned \cap O : ptr[p] = ptr[q] => p = q

(* Which function has which array in a local variable.                     *)
FnArrays ==
  {<<"read file", "buf">>, <<"section headers", "shdrs">>,
   <<"program headers", "phdrs">>, <<"dynamic table", "entries">>,
   <<"hash", "buckets">>, <<"hash", "chain">>, <<"gnu hash", "bloom">>,
   <<"gnu hash", "gnuBuckets">>, <<"gnu chain", "gnuChain">>,
   <<"symbols", "syms">>, <<"seen bits", "seen">>, <<"shndx", "shndx">>}

(* The program counters at which parse_dyn may hold the array of section   *)
(* indices, ...                                                            *)
HavingShndx == {"dynsym done", "dyn done", "dynsym err", "dyn err"}

(* ... the chain of DT_GNU_HASH, ...                                       *)
HavingChain ==
  {"gnu section", "gnu err", "symbols", "seen bits", "shndx"} \cup HavingShndx

(* ... its other two arrays, ...                                           *)
HavingBloom == {"gnu chain"} \cup HavingChain

(* ... the arrays of DT_HASH, ...                                          *)
HavingHash == {"hash section", "gnu hash"} \cup HavingBloom

(* ... and the entries of the dynamic table.                               *)
HavingTable == {"string table", "dynsym", "hash"} \cup HavingHash

(* Where parse_dyn may hold array s.                                       *)
DynMay(s) ==
  /\ pc \in HavingTable
  /\ s \in HashMembers => pc \in HavingHash
  /\ s \in {"bloom", "gnuBuckets"} => pc \in HavingBloom
  /\ s = "gnuChain" => pc \in HavingChain
  /\ s = "shndx" => pc \in HavingShndx
  /\ s = "syms" => pc = "dyn done"

(* The same for the structures of read_elf: the program headers, ...       *)
HavingPhdrs == {"dynamic table"} \cup HavingTable

(* ... what parse_dyn returned, ...                                        *)
HavingElf == {"take data", "elf done", "elf err"}

(* ... and the section headers.                                            *)
Parsing == {"section headers", "program headers"} \cup HavingPhdrs \cup HavingElf

(* Where read_elf may hold array s.                                        *)
LocalMay(s) ==
  /\ pc \in Parsing \ {"section headers"}
  /\ s # "shdrs" => pc # "program headers"
  /\ s \notin {"shdrs", "phdrs"} => pc \in HavingElf
  /\ s = "buf" => pc = "elf done"

(* main is inside read_elf, which has read the file and still holds its    *)
(* contents.                                                               *)
ReadingFile == call = "read" /\ pc \in Parsing \cup {"read err"}

(* The calls of prepare_modifications and do_modifications.                *)
Planning == {"sizes", "ro segment", "ro header", "rw segment", "rw header", "move phdrs",
             "phdrs moved", "move dynstr", "dynstr moved", "move entries", "entries moved",
             "grow entries", "add entries", "mod done"}

(* Place p holds a block only where the code in progress has such a        *)
(* variable in scope and set.                                              *)
May(p) ==
  /\ p[1] = "fn" => <<pc, p[2]>> \in FnArrays
  /\ p[1] = "dyn" => DynMay(p[2])
  /\ p[1] = "sym" => pc \in {"seen bits", "shndx", "dynsym done", "dynsym err"}
  /\ p[1] = "e" => LocalMay(p[2])
  /\ p[1] = "file" => ReadingFile \/ pc = "read done"
  /\ p[1] = "main" => ~ ReadingFile /\ pc \notin {"read file", "ended"}
  /\ p[1] = "mod" => \/ pc \in Planning \cup {"phnum err", "mod err"}
                     \/ p[2] = "offsets" /\ pc = "new entries"

(* The error paths, where what was to be returned may be gone.             *)
Failing == {"dynsym err", "dyn err", "elf err", "gnu err"}

(* What the code uses without a test is there.                             *)
Must ==
  /\ ReadingFile => <<"file", "buf">> \in Owned
  /\ pc \in (HavingPhdrs \cup HavingElf) \ Failing => <<"e", "phdrs">> \in Owned
  /\ pc \in HavingTable \ Failing => <<"dyn", "entries">> \in Owned
  /\ pc \in HavingElf \ Failing => <<"e", "entries">> \in Owned
  /\ pc \in Planning \cup {"read done", "offsets", "new entries", "resize", "resized", "serialize"}
       => {Buf, Phdrs, Entries} \subseteq Owned
  /\ pc = "write" \/ (pc \in Parsing /\ call = "sanity") => Buf \in Owned
  /\ pc \in Planning => Mod \subseteq Owned
  /\ pc = "new entries" => <<"mod", "offsets">> \in Owned

(* For one assignment two structures have the contents of the file: e,     *)
(* which is returned, and the variable that read_file filled in.           *)
Lent == pc = "elf done" /\ call = "read"

(* The second holder of the contents is the variable of read_file, and     *)
(* both hold the same.                                                     *)
Sharing ==
  /\ Lent => <<"e", "buf">> \in Owned /\ ptr[<<"e", "buf">>] = ptr[<<"file", "buf">>]
  /\ pc = "read done" => ptr[Buf] = ptr[<<"file", "buf">>]

(* The places between which no block is shared.                            *)
Owners == IF Lent \/ pc = "read done" THEN AllPlaces \ File ELSE AllPlaces

(* The error paths that a table resized to nothing leads to.               *)
Refused == {"realloc failed", "resize failed", "main err", "ended"}

(* The client's own variables, and the only block that gets lost: that of  *)
(* the table it resizes to nothing.                                        *)
Client ==
  /\ call \in {"read", "sanity"} /\ toZero \in BOOLEAN
  /\ pc \in {"read file", "read err"} => call = "read"
  /\ pc \in {"resize", "resized", "realloc failed", "resize failed"} => table \in Tables
  /\ pc = "resize" => block = ptr[table]
  /\ Lost \subseteq (IF toZero /\ pc \in Refused THEN {block} ELSE {})

(* The inductive invariant: every array has one owner, which the code in   *)
(* progress knows of.                                                      *)
OwnInv ==
  /\ Sound(Owners)
  /\ \A p \in Owned : May(p)
  /\ Must /\ Sharing /\ Client

-----------------------------------------------------------------------------

(* malloc into a pointer to nothing gives the block one owner.             *)
LEMMA AllocKeeps ==
  ASSUME NEW O, Sound(O), NEW p \in AllPlaces \ Owned, Alloc(p)
  PROVE  Sound(O)' /\ Owned' = Owned \cup {p} /\ Lost' \subseteq Lost
<1> DEFINE b == Fresh
<1>1. b \in Blocks /\ b \notin live /\ b # Null /\ \A q \in AllPlaces : ptr[q] # b
  BY NullAssumption DEF Sound, Alloc, Fresh, Unused, Pointed, Places
<1>2. /\ ptr' = [ptr EXCEPT ![p] = b] /\ live' = live \cup {b} /\ fault' = fault
  BY DEF Alloc
<1> HIDE DEF b
<1>3. ptr' \in [AllPlaces -> Blocks \cup {Null}] /\ ptr'[p] = b
      /\ \A q \in AllPlaces \ {p} : ptr'[q] = ptr[q]
  BY <1>1, <1>2 DEF Sound
<1>4. Owned' = Owned \cup {p}
  BY <1>1, <1>3 DEF Owned, Held
<1>5. \A q \in Owned' : ptr'[q] \in live'
  BY <1>1, <1>2, <1>3, <1>4 DEF Sound, Owned, Held
<1>6. \A q, r \in Owned' \cap O : ptr'[q] = ptr'[r] => q = r
  BY <1>1, <1>3, <1>4 DEF Sound, Owned, Held
<1>7. Lost' \subseteq Lost
  <2> SUFFICES ASSUME NEW c \in live', \A q \in AllPlaces : ptr'[q] # c
               PROVE  c \in live /\ \A q \in AllPlaces : ptr[q] # c
    BY DEF Lost
  <2>1. c # b /\ c \in live /\ c # Null
    BY <1>2, <1>3, NullAssumption DEF Sound
  <2>2. ptr[p] = Null
    BY DEF Owned, Held
  <2> QED BY <2>1, <2>2, <1>3
<1> QED BY <1>1, <1>2, <1>3, <1>4, <1>5, <1>6, <1>7 DEF Sound

(* free of pointers that own their blocks.                                 *)
LEMMA FreeKeeps ==
  ASSUME Sound(AllPlaces), NEW S, S \subseteq AllPlaces, Free(S)
  PROVE  Sound(AllPlaces)' /\ Owned' = Owned \ S /\ Lost' \subseteq Lost
<1>1. DOMAIN ptr = AllPlaces
  BY DEF Sound
<1>2. ~ DoublyFreed(S)
  BY DEF Sound, DoublyFreed, Held, Owned
<1>3. /\ ptr' = [p \in AllPlaces |-> IF p \in S THEN Null ELSE ptr[p]]
      /\ live' = live \ {ptr[p] : p \in S} /\ fault' = "none"
  BY <1>1, <1>2 DEF Free, Places, Sound
<1>4. ptr' \in [AllPlaces -> Blocks \cup {Null}]
  BY <1>3 DEF Sound
<1>5. Owned' = Owned \ S
  BY <1>3 DEF Owned, Held
<1>6. \A q \in Owned' : q \in Owned /\ ptr'[q] = ptr[q] /\ q \in AllPlaces
  BY <1>3, <1>5 DEF Owned, Held
<1>7. \A q \in Owned' : ptr'[q] \in live'
  <2> SUFFICES ASSUME NEW q \in Owned', NEW p \in S, ptr[p] = ptr[q] PROVE FALSE
    BY <1>3, <1>6 DEF Sound
  <2> QED BY <1>5, <1>6 DEF Sound, Owned, Held
<1>8. \A q, r \in Owned' \cap AllPlaces : ptr'[q] = ptr'[r] => q = r
  BY <1>6 DEF Sound
<1>9. Lost' \subseteq Lost
  BY <1>3 DEF Lost
<1> QED BY <1>3, <1>4, <1>5, <1>7, <1>8, <1>9 DEF Sound

(* realloc that succeeds leaves the pointer with a block of its own.       *)
LEMMA ReallocatedKeeps ==
  ASSUME Sound(AllPlaces), NEW p \in AllPlaces, Reallocated(p)
  PROVE  Sound(AllPlaces)' /\ Owned' = Owned \cup {p} /\ Lost' \subseteq Lost
<1> DEFINE b == Fresh
<1>1. b \in Blocks /\ b \notin live /\ b # Null /\ \A q \in AllPlaces : ptr[q] # b
  BY NullAssumption DEF Sound, Reallocated, Fresh, Unused, Pointed, Places
<1>2. /\ ptr' = [ptr EXCEPT ![p] = b] /\ live' = (live \ {ptr[p]}) \cup {b}
      /\ fault' = "none"
  BY DEF Reallocated, Sound, Owned, Held
<1> HIDE DEF b
<1>3. ptr' \in [AllPlaces -> Blocks \cup {Null}] /\ ptr'[p] = b
      /\ \A q \in AllPlaces \ {p} : ptr'[q] = ptr[q]
  BY <1>1, <1>2 DEF Sound
<1>4. Owned' = Owned \cup {p}
  BY <1>1, <1>3 DEF Owned, Held
<1>5. \A q \in Owned' : ptr'[q] \in live'
  <2> TAKE q \in Owned'
  <2>1. CASE q = p BY <2>1, <1>2, <1>3
  <2>2. CASE q # p
    <3>1. q \in Owned /\ q \in AllPlaces /\ ptr'[q] = ptr[q] /\ ptr[q] # Null
      BY <2>2, <1>3, <1>4 DEF Owned, Held
    <3>2. ptr[q] # ptr[p]
      BY <3>1, <2>2 DEF Sound, Owned, Held
    <3> QED BY <3>1, <3>2, <1>2 DEF Sound
  <2> QED BY <2>1, <2>2
<1>6. \A q, r \in Owned' \cap AllPlaces : ptr'[q] = ptr'[r] => q = r
  BY <1>1, <1>3, <1>4 DEF Sound, Owned, Held
<1>7. Lost' \subseteq Lost
  <2> SUFFICES ASSUME NEW c \in live', \A q \in AllPlaces : ptr'[q] # c
               PROVE  c \in live /\ \A q \in AllPlaces : ptr[q] # c
    BY DEF Lost
  <2>1. c # b /\ c \in live /\ c # ptr[p]
    BY <1>2, <1>3
  <2> QED BY <2>1, <1>3
<1> QED BY <1>1, <1>2, <1>3, <1>4, <1>5, <1>6, <1>7 DEF Sound

(* safe_realloc of a table to nothing loses the block of the table.        *)
LEMMA RefusedKeeps ==
  ASSUME Sound(AllPlaces), NEW p \in AllPlaces, ReallocRefused(p)
  PROVE  Sound(AllPlaces)' /\ Owned' = Owned \ {p} /\ Lost' \subseteq Lost \cup {ptr[p]}
<1>1. DOMAIN ptr = AllPlaces
  BY DEF Sound
<1>2. /\ ptr' = [q \in AllPlaces |-> IF q \in {p} THEN Null ELSE ptr[q]]
      /\ live' = live /\ fault' = fault
  BY <1>1 DEF ReallocRefused, Forget, Places
<1>3. ptr' \in [AllPlaces -> Blocks \cup {Null}]
  BY <1>2 DEF Sound
<1>4. Owned' = Owned \ {p} /\ \A q \in Owned' : ptr'[q] = ptr[q]
  BY <1>2 DEF Owned, Held
<1>5. Lost' \subseteq Lost \cup {ptr[p]}
  BY <1>2 DEF Lost
<1> QED BY <1>2, <1>3, <1>4, <1>5 DEF Sound

(* Reads and writes through pointers that own their blocks.                *)
LEMMA UseKeeps ==
  ASSUME NEW O, Sound(O), NEW S, S \subseteq Owned, Use(S)
  PROVE  Sound(O)' /\ Owned' = Owned /\ Lost' = Lost
<1>1. ptr' = ptr /\ live' = live /\ fault' = fault
  BY DEF Use, Sound
<1> QED BY <1>1 DEF Sound, Owned, Held, Lost

(* A step that leaves the memory alone.                                    *)
LEMMA SameHeap ==
  ASSUME NEW O, Sound(O), UNCHANGED heap
  PROVE  Sound(O)' /\ Owned' = Owned /\ Lost' = Lost
<1>1. ptr' = ptr /\ live' = live /\ fault' = fault
  BY DEF heap
<1> QED BY <1>1 DEF Sound, Owned, Held, Lost

(* A place is a frame and a member.                                        *)
LEMMA PlacesArePairs ==
  \A p \in AllPlaces : p = <<p[1], p[2]>>
BY DEF AllPlaces, Elf, LocalElf, Dyn, Fn, Sym, File, Mod

(* The arrays S change hands, from frame f to frame g, which had none.     *)
LEMMA MoveKeeps ==
  ASSUME NEW O, O \subseteq AllPlaces, Sound(O), NEW f, NEW g, NEW S, f # g, Move(f, g, S),
         \A p \in AllPlaces : p[1] = g /\ p[2] \in S =>
           p \notin Owned /\ <<f, p[2]>> \in AllPlaces /\ (p \in O => <<f, p[2]>> \in O),
         \A p \in Owned : p[1] = f /\ p[2] \in S => <<g, p[2]>> \in AllPlaces
  PROVE  /\ Sound(O)' /\ Lost' \subseteq Lost
         /\ \A p \in AllPlaces : p \in Owned' <=>
              IF p[1] = g /\ p[2] \in S THEN <<f, p[2]>> \in Owned
              ELSE p \in Owned /\ ~ (p[1] = f /\ p[2] \in S)
         /\ \A p \in AllPlaces : p[1] = g /\ p[2] \in S => ptr'[p] = ptr[<<f, p[2]>>]
         /\ \A p \in AllPlaces : p[1] \notin {f, g} => ptr'[p] = ptr[p]
<1> DEFINE To(p) == p[1] = g /\ p[2] \in S
           From(p) == p[1] = f /\ p[2] \in S
           Was(p) == <<f, p[2]>>
<1>1. ptr' = [p \in AllPlaces |-> IF p[2] \notin S THEN ptr[p]
                                  ELSE IF p[1] = g THEN ptr[<<f, p[2]>>]
                                  ELSE IF p[1] = f THEN Null ELSE ptr[p]]
      /\ live' = live /\ fault' = fault
  BY DEF Move, Places, Sound
<1>2. \A p \in AllPlaces : /\ To(p) => Was(p) \in AllPlaces /\ ptr'[p] = ptr[Was(p)]
                           /\ ~ To(p) /\ From(p) => ptr'[p] = Null
                           /\ ~ To(p) /\ ~ From(p) => ptr'[p] = ptr[p]
  BY <1>1
<1>3. \A p \in AllPlaces : To(p) => ~ From(p) /\ From(Was(p)) /\ p \notin Owned
                                    /\ p = <<g, p[2]>>
                                    /\ (p \in O => Was(p) \in O)
  BY PlacesArePairs
<1>4. \A p \in Owned : From(p) => <<g, p[2]>> \in AllPlaces /\ To(<<g, p[2]>>)
                                  /\ Was(<<g, p[2]>>) = p
  BY PlacesArePairs DEF Owned, Held
<1>5. ptr' \in [AllPlaces -> Blocks \cup {Null}]
  <2>1. \A p \in AllPlaces : ptr'[p] \in Blocks \cup {Null}
    <3> TAKE p \in AllPlaces
    <3> HIDE DEF To, From, Was
    <3> QED BY <1>2 DEF Sound
  <2> QED BY <1>1, <2>1
<1>6. \A p, q \in AllPlaces : To(p) /\ To(q) /\ Was(p) = Was(q) => p = q
  <2> SUFFICES ASSUME NEW p \in AllPlaces, NEW q \in AllPlaces, To(p), To(q), Was(p) = Was(q)
               PROVE  p = q
    OBVIOUS
  <2>1. p[2] = q[2] OBVIOUS
  <2> QED BY <2>1, PlacesArePairs
<1> HIDE DEF To, From, Was
<1>7. \A p \in AllPlaces : p \in Owned' <=> IF To(p) THEN Was(p) \in Owned
                                            ELSE p \in Owned /\ ~ From(p)
  BY <1>2 DEF Owned, Held
<1>8. \A p \in Owned' : ptr'[p] \in live'
  <2> TAKE p \in Owned'
  <2>1. p \in AllPlaces BY DEF Owned, Held
  <2>2. CASE To(p) BY <2>1, <2>2, <1>1, <1>2, <1>7 DEF Sound
  <2>3. CASE ~ To(p) BY <2>1, <2>3, <1>1, <1>2, <1>7 DEF Sound
  <2> QED BY <2>2, <2>3
<1>9. \A p, q \in Owned' \cap O : ptr'[p] = ptr'[q] => p = q
  <2> SUFFICES ASSUME NEW p \in Owned', NEW q \in Owned', p \in O, q \in O, ptr'[p] = ptr'[q]
               PROVE  p = q
    OBVIOUS
  <2>1. p \in AllPlaces /\ q \in AllPlaces BY DEF Owned, Held
  <2>2. CASE To(p) /\ To(q) BY <2>1, <2>2, <1>2, <1>3, <1>6, <1>7 DEF Sound
  <2>3. CASE To(p) /\ ~ To(q) BY <2>1, <2>3, <1>2, <1>3, <1>7 DEF Sound
  <2>4. CASE ~ To(p) /\ To(q) BY <2>1, <2>4, <1>2, <1>3, <1>7 DEF Sound
  <2>5. CASE ~ To(p) /\ ~ To(q) BY <2>1, <2>5, <1>2, <1>7 DEF Sound
  <2> QED BY <2>2, <2>3, <2>4, <2>5
<1>10. Lost' \subseteq Lost
  <2> SUFFICES ASSUME NEW c \in live, c \notin {ptr'[p] : p \in AllPlaces}, c \notin Lost
               PROVE  FALSE
    BY <1>1 DEF Lost
  <2> PICK q \in AllPlaces : ptr[q] = c
    BY DEF Lost
  <2>1. q \in Owned
    BY NullAssumption DEF Sound, Owned, Held
  <2>2. CASE From(q)
    <3>1. <<g, q[2]>> \in AllPlaces /\ ptr'[<<g, q[2]>>] = ptr[q]
      BY <2>1, <2>2, <1>2, <1>4
    <3> QED BY <3>1
  <2>3. CASE ~ From(q) BY <2>1, <2>3, <1>2, <1>3
  <2> QED BY <2>2, <2>3
<1> USE DEF To, From, Was
<1>11. \A p \in AllPlaces : p[1] \notin {f, g} => ptr'[p] = ptr[p]
  BY <1>2
<1> QED BY <1>1, <1>2, <1>5, <1>7, <1>8, <1>9, <1>10, <1>11 DEF Sound

(* The assignment p = q lends the block of q to p, for as long as q is no  *)
(* owner of it.                                                            *)
LEMMA CopyKeeps ==
  ASSUME NEW O, O \subseteq AllPlaces, NEW p \in O \ Owned, NEW q \in Owned \ O, Sound(AllPlaces), Copy(p, q)
  PROVE  Sound(O)' /\ Owned' = Owned \cup {p} /\ Lost' \subseteq Lost
         /\ ptr'[p] = ptr[q] /\ ptr'[q] = ptr[q]
<1>1. ptr' = [ptr EXCEPT ![p] = ptr[q]] /\ live' = live /\ fault' = fault
  BY DEF Copy
<1>2. q \in AllPlaces /\ p # q /\ ptr[q] # Null /\ ptr[p] = Null
  BY DEF Owned, Held
<1>3. ptr' \in [AllPlaces -> Blocks \cup {Null}] /\ ptr'[p] = ptr[q]
      /\ \A r \in AllPlaces \ {p} : ptr'[r] = ptr[r]
  BY <1>1, <1>2 DEF Sound
<1>4. Owned' = Owned \cup {p}
  BY <1>2, <1>3 DEF Owned, Held
<1>5. \A r \in Owned' : ptr'[r] \in live'
  BY <1>1, <1>3, <1>4, <1>2 DEF Sound, Owned, Held
<1>6. \A r, s \in Owned' \cap O : ptr'[r] = ptr'[s] => r = s
  BY <1>1, <1>2, <1>3, <1>4 DEF Sound, Owned, Held
<1>7. Lost' \subseteq Lost
  BY <1>1, <1>2, <1>3, NullAssumption DEF Lost, Sound
<1> QED BY <1>1, <1>2, <1>3, <1>4, <1>5, <1>6, <1>7 DEF Sound

(* Forgetting pointers whose blocks another place owns.                    *)
LEMMA ForgetKeeps ==
  ASSUME NEW S, S \subseteq AllPlaces, Sound(AllPlaces \ S), Forget(S),
         \A p \in S : \E q \in AllPlaces \ S : ptr[p] = ptr[q]
  PROVE  Sound(AllPlaces)' /\ Owned' = Owned \ S /\ Lost' \subseteq Lost
<1>1. DOMAIN ptr = AllPlaces
  BY DEF Sound
<1>2. /\ ptr' = [q \in AllPlaces |-> IF q \in S THEN Null ELSE ptr[q]]
      /\ live' = live /\ fault' = fault
  BY <1>1 DEF Forget, Places
<1>3. ptr' \in [AllPlaces -> Blocks \cup {Null}]
  BY <1>2 DEF Sound
<1>4. Owned' = Owned \ S /\ \A q \in Owned' : ptr'[q] = ptr[q] /\ q \in AllPlaces \ S
  BY <1>2 DEF Owned, Held
<1>5. Lost' \subseteq Lost
  BY <1>2 DEF Lost
<1> QED BY <1>2, <1>3, <1>4, <1>5 DEF Sound

-----------------------------------------------------------------------------

(* Which frames have which members.                                        *)
LEMMA FramesOfPlaces ==
  /\ \A p \in AllPlaces : /\ p[1] \in {"main", "e", "dyn", "fn", "sym", "file", "mod"}
                          /\ p[1] \in {"main", "e"} => p[2] \in ElfMembers
                          /\ p[1] = "dyn" => p[2] \in DynMembers
                          /\ p[1] = "mod" => p[2] \in {"offsets", "newEntries"}
                          /\ p[1] = "sym" => p[2] = "syms"
                          /\ p[1] = "file" => p[2] = "buf"
  /\ \A s \in ElfMembers : /\ <<"main", s>> \in AllPlaces /\ <<"e", s>> \in AllPlaces
                           /\ <<"fn", s>> \in AllPlaces
  /\ \A s \in DynMembers : <<"dyn", s>> \in AllPlaces /\ s \in ElfMembers
  /\ <<"fn", "seen">> \in AllPlaces /\ <<"sym", "syms">> \in AllPlaces
  /\ <<"file", "buf">> \in AllPlaces
  /\ <<"mod", "offsets">> \in AllPlaces /\ <<"mod", "newEntries">> \in AllPlaces
<1>1. \A s \in DynMembers : s \in ElfMembers
  BY DEF ElfMembers
<1> QED BY <1>1 DEF AllPlaces, Elf, LocalElf, Dyn, Fn, Sym, File, Mod

(* The places of a frame.                                                  *)
LEMMA PlacesOfFrames ==
  /\ \A p : p \in Fn <=> p \in AllPlaces /\ p[1] = "fn"
  /\ \A p : p \in Elf <=> p \in AllPlaces /\ p[1] = "main"
  /\ \A p : p \in LocalElf <=> p \in AllPlaces /\ p[1] = "e"
  /\ \A p : p \in Dyn <=> p \in AllPlaces /\ p[1] = "dyn"
  /\ \A p : p \in Sym <=> p \in AllPlaces /\ p[1] = "sym"
  /\ \A p : p \in File <=> p \in AllPlaces /\ p[1] = "file"
  /\ \A p : p \in Mod <=> p \in AllPlaces /\ p[1] = "mod"
<1>1. /\ \A p \in Fn : p[1] = "fn"
      /\ \A p \in Elf : p[1] = "main"
      /\ \A p \in LocalElf : p[1] = "e"
      /\ \A p \in Dyn : p[1] = "dyn"
      /\ \A p \in Sym : p[1] = "sym"
      /\ \A p \in File : p[1] = "file"
      /\ \A p \in Mod : p[1] = "mod"
  BY DEF Elf, LocalElf, Dyn, Fn, Sym, File, Mod
<1> QED BY <1>1 DEF AllPlaces

(* Only places are owned.                                                  *)
LEMMA OwnedPlaces ==
  /\ \A p \in Owned : p \in AllPlaces /\ p = <<p[1], p[2]>>
  /\ \A p \in AllPlaces : p \in Owned <=> ptr[p] # Null
  /\ \A S : S \subseteq AllPlaces => Held(S) = S \cap Owned
BY PlacesArePairs DEF Owned, Held

(* The frame and the member of a place that is owned.                      *)
LEMMA OwnedFrames ==
  ASSUME NEW p \in Owned
  PROVE  /\ p \in AllPlaces /\ p = <<p[1], p[2]>>
         /\ p[1] \in {"main", "e", "dyn", "fn", "sym", "file", "mod"}
         /\ p[1] \in {"main", "e"} => p[2] \in ElfMembers
         /\ p[1] = "dyn" => p[2] \in DynMembers
         /\ p[1] = "mod" => p[2] \in {"offsets", "newEntries"}
         /\ p[1] = "sym" => p[2] = "syms"
         /\ p[1] = "file" => p[2] = "buf"
BY OwnedPlaces, FramesOfPlaces

(* Between functions that share nothing, the invariant is about one set.   *)
LEMMA PlainState ==
  ASSUME OwnInv, pc \notin {"elf done", "read done"}
  PROVE  Sound(AllPlaces) /\ (\A p \in Owned : May(p)) /\ Must /\ Client
BY DEF OwnInv, Owners, Lent

(* Between functions that share nothing, three facts are left to show.     *)
LEMMA PlainStep ==
  ASSUME Sound(AllPlaces)', pc' \notin {"elf done", "read done"},
         \A p \in Owned' : May(p)', Must', Client'
  PROVE  OwnInv'
BY DEF OwnInv, Owners, Lent, Sharing

(* Every place owns its block: what frame f has of S, frame g has after.   *)
LEMMA HandOver ==
  ASSUME Sound(AllPlaces), NEW f, NEW g, NEW S, f # g, Move(f, g, S),
         \A p \in AllPlaces : p[1] = g /\ p[2] \in S =>
           p \notin Owned /\ <<f, p[2]>> \in AllPlaces,
         \A p \in Owned : p[1] = f /\ p[2] \in S => <<g, p[2]>> \in AllPlaces
  PROVE  /\ Sound(AllPlaces)' /\ Lost' \subseteq Lost
         /\ \A p \in AllPlaces : p \in Owned' <=>
              IF p[1] = g /\ p[2] \in S THEN <<f, p[2]>> \in Owned
              ELSE p \in Owned /\ ~ (p[1] = f /\ p[2] \in S)
<1>1. \A p \in AllPlaces : p[1] = g /\ p[2] \in S =>
           p \notin Owned /\ <<f, p[2]>> \in AllPlaces
           /\ (p \in AllPlaces => <<f, p[2]>> \in AllPlaces)
  OBVIOUS
<1> QED BY <1>1, MoveKeeps

(* A parser that allocates an array, checks it and passes it on: the array *)
(* is the parser's, is freed, or is its caller's.                          *)
LEMMA BuildSteps ==
  ASSUME Sound(AllPlaces), NEW at, NEW s, NEW g, NEW next, NEW err, Build(at, s, g, next, err),
         \A p \in Owned : p[1] = "fn" => p[2] = s,
         <<"fn", s>> \in AllPlaces, <<g, s>> \in AllPlaces \ Owned, g # "fn"
  PROVE  /\ Sound(AllPlaces)' /\ Lost' \subseteq Lost
         /\ pc = at /\ UNCHANGED <<call, sysv, moves>>
         /\ \/ Owned' = Owned \cup {<<"fn", s>>} /\ pc' = at
            \/ Owned' = Owned \ {<<"fn", s>>} /\ pc' = err
            \/ /\ Owned' = (Owned \ {<<"fn", s>>}) \cup {<<g, s>>} /\ pc' = next
               /\ <<"fn", s>> \in Owned
<1>1. pc = at /\ UNCHANGED <<call, sysv, moves>>
  BY DEF Build, Go, Stop
<1>2. \A p \in Owned : p \in Fn <=> p = <<"fn", s>>
  BY PlacesOfFrames, OwnedPlaces
<1>3. Held(Fn) = Owned \cap {<<"fn", s>>}
  BY <1>2, OwnedPlaces, PlacesOfFrames DEF Held
<1>4. CASE Held(Fn) = {} /\ Alloc(<<"fn", s>>) /\ Go(at)
  BY <1>1, <1>3, <1>4, AllocKeeps DEF Go
<1>5. CASE Held(Fn) = {} /\ Stop(err)
  <2>1. Owned' = Owned /\ Sound(AllPlaces)' /\ Lost' = Lost /\ pc' = err
    BY <1>5, SameHeap DEF Stop, Go
  <2>2. Owned = Owned \ {<<"fn", s>>}
    BY <1>5, <1>3
  <2> QED BY <1>1, <2>1, <2>2
<1>6. CASE Held(Fn) # {} /\ Free(Fn) /\ Go(err)
  <2>1. Fn \subseteq AllPlaces
    BY PlacesOfFrames
  <2>2. Owned' = Owned \ Fn /\ Sound(AllPlaces)' /\ Lost' \subseteq Lost /\ pc' = err
    BY <1>6, <2>1, FreeKeeps DEF Go
  <2>3. Owned \ Fn = Owned \ {<<"fn", s>>}
    BY <1>2
  <2> QED BY <1>1, <2>2, <2>3
<1>7. CASE Held(Fn) # {} /\ Move("fn", g, {s}) /\ Go(next)
  <2>1. \A p \in AllPlaces : p[1] = g /\ p[2] \in {s} => p = <<g, s>>
    BY PlacesArePairs
  <2>2. /\ Sound(AllPlaces)' /\ Lost' \subseteq Lost
        /\ \A p \in AllPlaces : p \in Owned' <=>
              IF p[1] = g /\ p[2] \in {s} THEN <<"fn", p[2]>> \in Owned
              ELSE p \in Owned /\ ~ (p[1] = "fn" /\ p[2] \in {s})
    BY <1>7, <2>1, MoveKeeps
  <2>3. <<"fn", s>> \in Owned
    BY <1>3, <1>7
  <2>4. \A p : p \in Owned' \/ p \in Owned => p \in AllPlaces
    BY DEF Owned, Held
  <2>5. \A p \in AllPlaces : /\ p[1] = g /\ p[2] \in {s} <=> p = <<g, s>>
                             /\ p[1] = "fn" /\ p[2] \in {s} <=> p = <<"fn", s>>
    BY PlacesArePairs
  <2>6. Owned' = (Owned \ {<<"fn", s>>}) \cup {<<g, s>>}
    BY <2>2, <2>3, <2>4, <2>5
  <2> QED BY <1>1, <1>7, <2>2, <2>3, <2>6 DEF Go
<1> QED BY <1>4, <1>5, <1>6, <1>7 DEF Build

-----------------------------------------------------------------------------

USE DEF FnArrays, HavingShndx, HavingChain, HavingBloom, HavingHash, HavingTable,
        HavingPhdrs, HavingElf, Parsing, Planning, Failing, Refused,
        HashMembers, GnuMembers, DynMembers, ElfMembers

(* read_file fails with nothing, or hands the contents to read_elf.        *)
LEMMA ReadFileKeeps ==
  ASSUME OwnInv, ReadFile, UNCHANGED <<table, block, toZero>>
  PROVE  OwnInv'
<1>1. pc = "read file"
  BY DEF ReadFile, Build
<1>2. Sound(AllPlaces) /\ (\A p \in Owned : May(p)) /\ Must /\ Client
  BY <1>1, PlainState
<1>3. /\ \A p \in Owned : p[1] = "fn" => p[2] = "buf"
      /\ <<"file", "buf">> \in AllPlaces \ Owned /\ <<"fn", "buf">> \in AllPlaces
  BY <1>1, <1>2, FramesOfPlaces DEF May, DynMay, LocalMay, ReadingFile
<1>4. /\ Sound(AllPlaces)' /\ Lost' \subseteq Lost /\ UNCHANGED call
      /\ \/ Owned' = Owned \cup {<<"fn", "buf">>} /\ pc' = pc
         \/ Owned' = Owned \ {<<"fn", "buf">>} /\ pc' = "main err"
         \/ /\ Owned' = (Owned \ {<<"fn", "buf">>}) \cup {<<"file", "buf">>}
            /\ pc' = "section headers" /\ <<"fn", "buf">> \in Owned
  BY <1>1, <1>2, <1>3, BuildSteps DEF ReadFile
<1>5. ASSUME NEW p \in Owned' PROVE May(p)'
  <2>1. CASE p = <<"fn", "buf">> /\ pc' = pc
    BY <1>1, <2>1 DEF May
  <2>2. CASE p = <<"file", "buf">> /\ pc' = "section headers"
    BY <1>1, <1>2, <1>4, <2>2 DEF May, DynMay, LocalMay, ReadingFile, Client
  <2>3. CASE p \in Owned /\ p # <<"fn", "buf">>
    <3>1. May(p) /\ p[1] # "fn"
      BY <1>2, <1>3, <2>3, OwnedFrames
    <3> QED BY <1>1, <1>4, <2>3, <3>1, OwnedFrames DEF May, DynMay, LocalMay, ReadingFile
  <2> QED BY <1>4, <2>1, <2>2, <2>3
<1>6. Must'
  <2>1. ASSUME NEW p \in Owned, p[1] # "fn" PROVE p \in Owned'
    <3>1. p # <<"fn", "buf">>
      BY <2>1
    <3> QED BY <1>4, <3>1
  <2>2. pc' = "section headers" => <<"file", "buf">> \in Owned'
    BY <1>1, <1>4
  <2> QED BY <1>1, <1>2, <1>4, <2>1, <2>2 DEF Must, ReadingFile, Client, Buf, Phdrs, Entries
<1>7. Client'
  BY <1>1, <1>2, <1>4 DEF Client
<1> QED BY <1>1, <1>4, <1>5, <1>6, <1>7, PlainStep

(* The section headers become read_elf's.                                  *)
LEMMA ReadShdrsKeeps ==
  ASSUME OwnInv, ReadShdrs, UNCHANGED <<table, block, toZero>>
  PROVE  OwnInv'
<1>1. pc = "section headers"
  BY DEF ReadShdrs, Build
<1>2. Sound(AllPlaces) /\ (\A p \in Owned : May(p)) /\ Must /\ Client
  BY <1>1, PlainState
<1>3. /\ \A p \in Owned : p[1] = "fn" => p[2] = "shdrs"
      /\ <<"e", "shdrs">> \in AllPlaces \ Owned /\ <<"fn", "shdrs">> \in AllPlaces
  BY <1>1, <1>2, FramesOfPlaces DEF May, DynMay, LocalMay, ReadingFile
<1>4. /\ Sound(AllPlaces)' /\ Lost' \subseteq Lost /\ UNCHANGED call
      /\ \/ Owned' = Owned \cup {<<"fn", "shdrs">>} /\ pc' = pc
         \/ Owned' = Owned \ {<<"fn", "shdrs">>} /\ pc' = "elf err"
         \/ /\ Owned' = (Owned \ {<<"fn", "shdrs">>}) \cup {<<"e", "shdrs">>}
            /\ pc' = "program headers" /\ <<"fn", "shdrs">> \in Owned
         \/ Owned' = Owned \ {<<"fn", "shdrs">>} /\ pc' = "program headers"
  <2>1. CASE Build("section headers", "shdrs", "e", "program headers", "elf err")
    BY <1>2, <1>3, <2>1, BuildSteps
  <2>2. CASE Held(Fn) = {} /\ Stop("program headers")
    <3>1. <<"fn", "shdrs">> \notin Owned
      BY <1>3, <2>2, PlacesOfFrames, OwnedPlaces
    <3>2. Owned' = Owned \ {<<"fn", "shdrs">>}
      BY <1>2, <2>2, <3>1, SameHeap DEF Stop
    <3> QED BY <1>2, <2>2, <3>2, SameHeap DEF Stop, Go
  <2> QED BY <2>1, <2>2 DEF ReadShdrs
<1>5. ASSUME NEW p \in Owned' PROVE May(p)'
  <2>1. CASE p = <<"fn", "shdrs">> /\ pc' = pc
    BY <1>1, <2>1 DEF May
  <2>2. CASE p = <<"e", "shdrs">> /\ pc' = "program headers"
    BY <1>1, <1>2, <1>4, <2>2 DEF May, DynMay, LocalMay, ReadingFile, Client
  <2>3. CASE p \in Owned /\ p # <<"fn", "shdrs">>
    <3>1. May(p) /\ p[1] # "fn"
      BY <1>2, <1>3, <2>3, OwnedFrames
    <3> QED BY <1>1, <1>4, <2>3, <3>1, OwnedFrames DEF May, DynMay, LocalMay, ReadingFile
  <2> QED BY <1>4, <2>1, <2>2, <2>3
<1>6. Must'
  <2>1. ASSUME NEW p \in Owned, p[1] # "fn" PROVE p \in Owned'
    <3>1. p # <<"fn", "shdrs">>
      BY <2>1
    <3> QED BY <1>4, <3>1
  <2> QED BY <1>1, <1>2, <1>4, <2>1 DEF Must, ReadingFile, Client, Buf, Phdrs, Entries
<1>7. Client'
  BY <1>1, <1>2, <1>4 DEF Client
<1> QED BY <1>1, <1>4, <1>5, <1>6, <1>7, PlainStep

(* The program headers become read_elf's.                                  *)
LEMMA ReadPhdrsKeeps ==
  ASSUME OwnInv, ReadPhdrs, UNCHANGED <<table, block, toZero>>
  PROVE  OwnInv'
<1>1. pc = "program headers"
  BY DEF ReadPhdrs, Build
<1>2. Sound(AllPlaces) /\ (\A p \in Owned : May(p)) /\ Must /\ Client
  BY <1>1, PlainState
<1>3. /\ \A p \in Owned : p[1] = "fn" => p[2] = "phdrs"
      /\ <<"e", "phdrs">> \in AllPlaces \ Owned /\ <<"fn", "phdrs">> \in AllPlaces
  BY <1>1, <1>2, FramesOfPlaces DEF May, DynMay, LocalMay, ReadingFile
<1>4. /\ Sound(AllPlaces)' /\ Lost' \subseteq Lost /\ UNCHANGED call
      /\ \/ Owned' = Owned \cup {<<"fn", "phdrs">>} /\ pc' = pc
         \/ Owned' = Owned \ {<<"fn", "phdrs">>} /\ pc' = "elf err"
         \/ /\ Owned' = (Owned \ {<<"fn", "phdrs">>}) \cup {<<"e", "phdrs">>}
            /\ pc' = "dynamic table" /\ <<"fn", "phdrs">> \in Owned
  BY <1>1, <1>2, <1>3, BuildSteps DEF ReadPhdrs
<1>5. ASSUME NEW p \in Owned' PROVE May(p)'
  <2>1. CASE p = <<"fn", "phdrs">> /\ pc' = pc
    BY <1>1, <2>1 DEF May
  <2>2. CASE p = <<"e", "phdrs">> /\ pc' = "dynamic table"
    BY <1>1, <1>2, <1>4, <2>2 DEF May, DynMay, LocalMay, ReadingFile, Client
  <2>3. CASE p \in Owned /\ p # <<"fn", "phdrs">>
    <3>1. May(p) /\ p[1] # "fn"
      BY <1>2, <1>3, <2>3, OwnedFrames
    <3> QED BY <1>1, <1>4, <2>3, <3>1, OwnedFrames DEF May, DynMay, LocalMay, ReadingFile
  <2> QED BY <1>4, <2>1, <2>2, <2>3
<1>6. Must'
  <2>1. ASSUME NEW p \in Owned, p[1] # "fn" PROVE p \in Owned'
    <3>1. p # <<"fn", "phdrs">>
      BY <2>1
    <3> QED BY <1>4, <3>1
  <2>2. pc' = "dynamic table" => <<"e", "phdrs">> \in Owned'
    BY <1>1, <1>4
  <2> QED BY <1>1, <1>2, <1>4, <2>1, <2>2 DEF Must, ReadingFile, Client, Buf, Phdrs, Entries
<1>7. Client'
  BY <1>1, <1>2, <1>4 DEF Client
<1> QED BY <1>1, <1>4, <1>5, <1>6, <1>7, PlainStep

(* The entries of the dynamic table become parse_dyn's.                    *)
LEMMA ReadDynTableKeeps ==
  ASSUME OwnInv, ReadDynTable, UNCHANGED <<table, block, toZero>>
  PROVE  OwnInv'
<1>1. pc = "dynamic table"
  BY DEF ReadDynTable, Build
<1>2. Sound(AllPlaces) /\ (\A p \in Owned : May(p)) /\ Must /\ Client
  BY <1>1, PlainState
<1>3. /\ \A p \in Owned : p[1] = "fn" => p[2] = "entries"
      /\ <<"dyn", "entries">> \in AllPlaces \ Owned /\ <<"fn", "entries">> \in AllPlaces
  BY <1>1, <1>2, FramesOfPlaces DEF May, DynMay, LocalMay, ReadingFile
<1>4. /\ Sound(AllPlaces)' /\ Lost' \subseteq Lost /\ UNCHANGED call
      /\ \/ Owned' = Owned \cup {<<"fn", "entries">>} /\ pc' = pc
         \/ Owned' = Owned \ {<<"fn", "entries">>} /\ pc' = "dyn err"
         \/ /\ Owned' = (Owned \ {<<"fn", "entries">>}) \cup {<<"dyn", "entries">>}
            /\ pc' = "string table" /\ <<"fn", "entries">> \in Owned
  BY <1>1, <1>2, <1>3, BuildSteps DEF ReadDynTable
<1>5. ASSUME NEW p \in Owned' PROVE May(p)'
  <2>1. CASE p = <<"fn", "entries">> /\ pc' = pc
    BY <1>1, <2>1 DEF May
  <2>2. CASE p = <<"dyn", "entries">> /\ pc' = "string table"
    BY <1>1, <1>2, <1>4, <2>2 DEF May, DynMay, LocalMay, ReadingFile, Client
  <2>3. CASE p \in Owned /\ p # <<"fn", "entries">>
    <3>1. May(p) /\ p[1] # "fn"
      BY <1>2, <1>3, <2>3, OwnedFrames
    <3> QED BY <1>1, <1>4, <2>3, <3>1, OwnedFrames DEF May, DynMay, LocalMay, ReadingFile
  <2> QED BY <1>4, <2>1, <2>2, <2>3
<1>6. Must'
  <2>1. ASSUME NEW p \in Owned, p[1] # "fn" PROVE p \in Owned'
    <3>1. p # <<"fn", "entries">>
      BY <2>1
    <3> QED BY <1>4, <3>1
  <2>2. pc' = "string table" => <<"dyn", "entries">> \in Owned'
    BY <1>1, <1>4
  <2> QED BY <1>1, <1>2, <1>4, <2>1, <2>2 DEF Must, ReadingFile, Client, Buf, Phdrs, Entries
<1>7. Client'
  BY <1>1, <1>2, <1>4 DEF Client
<1> QED BY <1>1, <1>4, <1>5, <1>6, <1>7, PlainStep

(* The chain of DT_GNU_HASH becomes parse_dyn's.                           *)
LEMMA ReadGnuChainKeeps ==
  ASSUME OwnInv, ReadGnuChain, UNCHANGED <<table, block, toZero>>
  PROVE  OwnInv'
<1>1. pc = "gnu chain"
  BY DEF ReadGnuChain, Build
<1>2. Sound(AllPlaces) /\ (\A p \in Owned : May(p)) /\ Must /\ Client
  BY <1>1, PlainState
<1>3. /\ \A p \in Owned : p[1] = "fn" => p[2] = "gnuChain"
      /\ <<"dyn", "gnuChain">> \in AllPlaces \ Owned /\ <<"fn", "gnuChain">> \in AllPlaces
  BY <1>1, <1>2, FramesOfPlaces DEF May, DynMay, LocalMay, ReadingFile
<1>4. /\ Sound(AllPlaces)' /\ Lost' \subseteq Lost /\ UNCHANGED call
      /\ \/ Owned' = Owned \cup {<<"fn", "gnuChain">>} /\ pc' = pc
         \/ Owned' = Owned \ {<<"fn", "gnuChain">>} /\ pc' = "gnu err"
         \/ /\ Owned' = (Owned \ {<<"fn", "gnuChain">>}) \cup {<<"dyn", "gnuChain">>}
            /\ pc' = "gnu section" /\ <<"fn", "gnuChain">> \in Owned
         \/ Owned' = Owned \ {<<"fn", "gnuChain">>} /\ pc' = "gnu section"
  <2>1. CASE Build("gnu chain", "gnuChain", "dyn", "gnu section", "gnu err")
    BY <1>2, <1>3, <2>1, BuildSteps
  <2>2. CASE Held(Fn) = {} /\ Stop("gnu section")
    <3>1. <<"fn", "gnuChain">> \notin Owned
      BY <1>3, <2>2, PlacesOfFrames, OwnedPlaces
    <3>2. Owned' = Owned \ {<<"fn", "gnuChain">>}
      BY <1>2, <2>2, <3>1, SameHeap DEF Stop
    <3> QED BY <1>2, <2>2, <3>2, SameHeap DEF Stop, Go
  <2> QED BY <2>1, <2>2 DEF ReadGnuChain
<1>5. ASSUME NEW p \in Owned' PROVE May(p)'
  <2>1. CASE p = <<"fn", "gnuChain">> /\ pc' = pc
    BY <1>1, <2>1 DEF May
  <2>2. CASE p = <<"dyn", "gnuChain">> /\ pc' = "gnu section"
    BY <1>1, <1>2, <1>4, <2>2 DEF May, DynMay, LocalMay, ReadingFile, Client
  <2>3. CASE p \in Owned /\ p # <<"fn", "gnuChain">>
    <3>1. May(p) /\ p[1] # "fn"
      BY <1>2, <1>3, <2>3, OwnedFrames
    <3> QED BY <1>1, <1>4, <2>3, <3>1, OwnedFrames DEF May, DynMay, LocalMay, ReadingFile
  <2> QED BY <1>4, <2>1, <2>2, <2>3
<1>6. Must'
  <2>1. ASSUME NEW p \in Owned, p[1] # "fn" PROVE p \in Owned'
    <3>1. p # <<"fn", "gnuChain">>
      BY <2>1
    <3> QED BY <1>4, <3>1
  <2> QED BY <1>1, <1>2, <1>4, <2>1 DEF Must, ReadingFile, Client, Buf, Phdrs, Entries
<1>7. Client'
  BY <1>1, <1>2, <1>4 DEF Client
<1> QED BY <1>1, <1>4, <1>5, <1>6, <1>7, PlainStep

(* The symbols become parse_dynsym's.                                      *)
LEMMA ReadSymbolsKeeps ==
  ASSUME OwnInv, ReadSymbols, UNCHANGED <<table, block, toZero>>
  PROVE  OwnInv'
<1>1. pc = "symbols"
  BY DEF ReadSymbols, Build
<1>2. Sound(AllPlaces) /\ (\A p \in Owned : May(p)) /\ Must /\ Client
  BY <1>1, PlainState
<1>3. /\ \A p \in Owned : p[1] = "fn" => p[2] = "syms"
      /\ <<"sym", "syms">> \in AllPlaces \ Owned /\ <<"fn", "syms">> \in AllPlaces
  BY <1>1, <1>2, FramesOfPlaces DEF May, DynMay, LocalMay, ReadingFile
<1>4. /\ Sound(AllPlaces)' /\ Lost' \subseteq Lost /\ UNCHANGED call
      /\ \/ Owned' = Owned \cup {<<"fn", "syms">>} /\ pc' = pc
         \/ Owned' = Owned \ {<<"fn", "syms">>} /\ pc' = "dynsym err"
         \/ /\ Owned' = (Owned \ {<<"fn", "syms">>}) \cup {<<"sym", "syms">>}
            /\ pc' = "seen bits" /\ <<"fn", "syms">> \in Owned
  BY <1>1, <1>2, <1>3, BuildSteps DEF ReadSymbols
<1>5. ASSUME NEW p \in Owned' PROVE May(p)'
  <2>1. CASE p = <<"fn", "syms">> /\ pc' = pc
    BY <1>1, <2>1 DEF May
  <2>2. CASE p = <<"sym", "syms">> /\ pc' = "seen bits"
    BY <1>1, <1>2, <1>4, <2>2 DEF May, DynMay, LocalMay, ReadingFile, Client
  <2>3. CASE p \in Owned /\ p # <<"fn", "syms">>
    <3>1. May(p) /\ p[1] # "fn"
      BY <1>2, <1>3, <2>3, OwnedFrames
    <3> QED BY <1>1, <1>4, <2>3, <3>1, OwnedFrames DEF May, DynMay, LocalMay, ReadingFile
  <2> QED BY <1>4, <2>1, <2>2, <2>3
<1>6. Must'
  <2>1. ASSUME NEW p \in Owned, p[1] # "fn" PROVE p \in Owned'
    <3>1. p # <<"fn", "syms">>
      BY <2>1
    <3> QED BY <1>4, <3>1
  <2>2. pc' = "seen bits" => <<"sym", "syms">> \in Owned'
    BY <1>1, <1>4
  <2> QED BY <1>1, <1>2, <1>4, <2>1, <2>2 DEF Must, ReadingFile, Client, Buf, Phdrs, Entries
<1>7. Client'
  BY <1>1, <1>2, <1>4 DEF Client
<1> QED BY <1>1, <1>4, <1>5, <1>6, <1>7, PlainStep

(* The section indices of the symbols become parse_dyn's.                  *)
LEMMA ReadShndxKeeps ==
  ASSUME OwnInv, ReadShndx, UNCHANGED <<table, block, toZero>>
  PROVE  OwnInv'
<1>1. pc = "shndx"
  BY DEF ReadShndx, Build
<1>2. Sound(AllPlaces) /\ (\A p \in Owned : May(p)) /\ Must /\ Client
  BY <1>1, PlainState
<1>3. /\ \A p \in Owned : p[1] = "fn" => p[2] = "shndx"
      /\ <<"dyn", "shndx">> \in AllPlaces \ Owned /\ <<"fn", "shndx">> \in AllPlaces
  BY <1>1, <1>2, FramesOfPlaces DEF May, DynMay, LocalMay, ReadingFile
<1>4. /\ Sound(AllPlaces)' /\ Lost' \subseteq Lost /\ UNCHANGED call
      /\ \/ Owned' = Owned \cup {<<"fn", "shndx">>} /\ pc' = pc
         \/ Owned' = Owned \ {<<"fn", "shndx">>} /\ pc' = "dynsym err"
         \/ /\ Owned' = (Owned \ {<<"fn", "shndx">>}) \cup {<<"dyn", "shndx">>}
            /\ pc' = "dynsym done" /\ <<"fn", "shndx">> \in Owned
         \/ Owned' = Owned \ {<<"fn", "shndx">>} /\ pc' = "dynsym done"
  <2>1. CASE Build("shndx", "shndx", "dyn", "dynsym done", "dynsym err")
    <3>1. /\ Sound(AllPlaces)' /\ Lost' \subseteq Lost
          /\ pc = "shndx" /\ UNCHANGED <<call, sysv, moves>>
          /\ \/ Owned' = Owned \cup {<<"fn", "shndx">>} /\ pc' = "shndx"
             \/ Owned' = Owned \ {<<"fn", "shndx">>} /\ pc' = "dynsym err"
             \/ /\ Owned' = (Owned \ {<<"fn", "shndx">>}) \cup {<<"dyn", "shndx">>}
                /\ pc' = "dynsym done" /\ <<"fn", "shndx">> \in Owned
      BY <1>2, <1>3, <2>1, BuildSteps, ZenonT(60)
    <3> QED BY <3>1
  <2>2. CASE Held(Fn) = {} /\ Stop("dynsym done")
    <3>1. <<"fn", "shndx">> \notin Owned
      BY <1>3, <2>2, PlacesOfFrames, OwnedPlaces
    <3>2. Owned' = Owned \ {<<"fn", "shndx">>}
      BY <1>2, <2>2, <3>1, SameHeap DEF Stop
    <3> QED BY <1>2, <2>2, <3>2, SameHeap DEF Stop, Go
  <2> QED BY <2>1, <2>2 DEF ReadShndx
<1>5. ASSUME NEW p \in Owned' PROVE May(p)'
  <2>1. CASE p = <<"fn", "shndx">> /\ pc' = pc
    BY <1>1, <2>1 DEF May
  <2>2. CASE p = <<"dyn", "shndx">> /\ pc' = "dynsym done"
    BY <1>1, <1>2, <1>4, <2>2 DEF May, DynMay, LocalMay, ReadingFile, Client
  <2>3. CASE p \in Owned /\ p # <<"fn", "shndx">>
    <3>1. May(p) /\ p[1] # "fn"
      BY <1>2, <1>3, <2>3, OwnedFrames
    <3> QED BY <1>1, <1>4, <2>3, <3>1, OwnedFrames DEF May, DynMay, LocalMay, ReadingFile
  <2> QED BY <1>4, <2>1, <2>2, <2>3
<1>6. Must'
  <2>1. ASSUME NEW p \in Owned, p[1] # "fn" PROVE p \in Owned'
    <3>1. p # <<"fn", "shndx">>
      BY <2>1
    <3> QED BY <1>4, <3>1
  <2> QED BY <1>1, <1>2, <1>4, <2>1 DEF Must, ReadingFile, Client, Buf, Phdrs, Entries
<1>7. Client'
  BY <1>1, <1>2, <1>4 DEF Client
<1> QED BY <1>1, <1>4, <1>5, <1>6, <1>7, PlainStep
(* A step that only decides where to go on.                                *)
LEMMA StopSteps ==
  ASSUME NEW O, Sound(O), NEW label, Stop(label)
  PROVE  Sound(O)' /\ Owned' = Owned /\ Lost' = Lost /\ pc' = label /\ call' = call
BY SameHeap DEF Stop, Go

(* The checks that touch no array.                                         *)
LEMMA ChecksKeep ==
  ASSUME OwnInv, ReadDynstr \/ FindSymtab \/ JudgeTables, UNCHANGED <<table, block, toZero>>
  PROVE  OwnInv'
<1>1. pc \in {"string table", "dynsym", "gnu section"}
  BY DEF ReadDynstr, FindSymtab, JudgeTables
<1>2. Sound(AllPlaces) /\ (\A p \in Owned : May(p)) /\ Must /\ Client
  BY <1>1, PlainState
<1>3. /\ Sound(AllPlaces)' /\ Owned' = Owned /\ Lost' = Lost /\ call' = call
      /\ \/ pc = "string table" /\ pc' \in {"dynsym", "dyn err"}
         \/ pc = "dynsym" /\ pc' \in {"hash", "dynsym err"}
         \/ pc = "gnu section" /\ pc' \in {"gnu err", "dynsym err", "dyn err", "symbols"}
  BY <1>2, StopSteps DEF ReadDynstr, FindSymtab, JudgeTables
<1>4. ASSUME NEW p \in Owned' PROVE May(p)'
  <2>1. May(p)
    BY <1>2, <1>3, <1>4
  <2> QED BY <1>3, <1>4, <2>1, OwnedFrames DEF May, DynMay, LocalMay, ReadingFile
<1>5. Must'
  BY <1>2, <1>3 DEF Must, ReadingFile, Buf, Phdrs, Entries
<1>6. Client'
  BY <1>2, <1>3 DEF Client
<1> QED BY <1>3, <1>4, <1>5, <1>6, PlainStep

(* parse_dt_hash hands over both arrays of DT_HASH or none.                *)
LEMMA ReadHashKeeps ==
  ASSUME OwnInv, ReadHash, UNCHANGED <<table, block, toZero>>
  PROVE  OwnInv'
<1>1. pc = "hash"
  BY DEF ReadHash
<1>2. Sound(AllPlaces) /\ (\A p \in Owned : May(p)) /\ Must /\ Client
  BY <1>1, PlainState
<1>3. /\ \A p \in Owned : p[1] = "fn" => p[2] \in HashMembers
      /\ \A p \in Owned : p[1] = "dyn" => p[2] \notin HashMembers
  BY <1>1, <1>2 DEF May, DynMay
<1>4. Fn \subseteq AllPlaces /\ Held(Fn) = Fn \cap Owned
  BY PlacesOfFrames, OwnedPlaces
<1>5. /\ Sound(AllPlaces)' /\ Lost' \subseteq Lost /\ call' = call
      /\ \/ /\ pc' = pc
            /\ \E s \in HashMembers : Owned' = Owned \cup {<<"fn", s>>}
         \/ pc' = "gnu hash" /\ Owned' = Owned \ Fn
         \/ /\ pc' = "hash section"
            /\ \A p \in Owned' : IF p[1] = "dyn" /\ p[2] \in HashMembers THEN TRUE
                                 ELSE p \in Owned \ Fn
            /\ Owned \ Fn \subseteq Owned'
  <2>1. ASSUME NEW s \in HashMembers, ptr[<<"fn", s>>] = Null, Alloc(<<"fn", s>>), Go("hash")
        PROVE  Sound(AllPlaces)' /\ Lost' \subseteq Lost /\ Owned' = Owned \cup {<<"fn", s>>}
    <3>1. <<"fn", s>> \in AllPlaces \ Owned
      BY <2>1, FramesOfPlaces, OwnedPlaces
    <3> QED BY <1>2, <2>1, <3>1, AllocKeeps
  <2>2. CASE Held(Fn) = {} /\ \E ret \in {"absent", "bad"} : Returned(ret) /\ UNCHANGED heap
    <3>1. Owned = Owned \ Fn
      BY <1>4, <2>2
    <3> QED BY <1>2, <2>2, <3>1, SameHeap DEF Returned
  <2>3. CASE Held(Fn) = {} /\ Alloc(<<"fn", "buckets">>) /\ Go("hash")
    <3>1. ptr[<<"fn", "buckets">>] = Null
      BY <2>3, FramesOfPlaces, PlacesOfFrames DEF Held
    <3> QED BY <1>1, <2>1, <2>3, <3>1 DEF Go
  <2>4. CASE ptr[<<"fn", "chain">>] = Null /\ Alloc(<<"fn", "chain">>) /\ Go("hash")
    BY <1>1, <2>1, <2>4 DEF Go
  <2>5. CASE Held(Fn) # {} /\ Free(Fn) /\ Returned("bad")
    BY <1>2, <1>4, <2>5, FreeKeeps DEF Returned
  <2>6. CASE Move("fn", "dyn", HashMembers) /\ Go("hash section")
    <3>1. \A p \in AllPlaces : p[1] = "dyn" /\ p[2] \in HashMembers =>
             p \notin Owned /\ <<"fn", p[2]>> \in AllPlaces
      BY <1>3, FramesOfPlaces
    <3>2. \A p \in Owned : p[1] = "fn" /\ p[2] \in HashMembers => <<"dyn", p[2]>> \in AllPlaces
      BY FramesOfPlaces
    <3>3. /\ Sound(AllPlaces)' /\ Lost' \subseteq Lost
          /\ \A p \in AllPlaces : p \in Owned' <=>
                IF p[1] = "dyn" /\ p[2] \in HashMembers THEN <<"fn", p[2]>> \in Owned
                ELSE p \in Owned /\ ~ (p[1] = "fn" /\ p[2] \in HashMembers)
      <4> HIDE DEF HashMembers
      <4>1. "fn" # "dyn" OBVIOUS
      <4>2. Sound(AllPlaces) /\ Move("fn", "dyn", HashMembers) BY <1>2, <2>6
      <4> QED BY ONLY <4>1, <4>2, <3>1, <3>2, HandOver
    <3>4. \A p : p \in Owned' \/ p \in Owned => p \in AllPlaces
      BY DEF Owned, Held
    <3>5. Owned \ Fn \subseteq Owned'
      BY <1>3, <3>3, <3>4, PlacesOfFrames
    <3> QED BY <1>3, <2>6, <3>3, <3>4, <3>5, PlacesOfFrames DEF Go
  <2> QED BY <2>2, <2>3, <2>4, <2>5, <2>6 DEF ReadHash
<1>6. ASSUME NEW p \in Owned' PROVE May(p)'
  <2>1. CASE p \in Owned /\ p \notin Fn
    <3>1. May(p) /\ p[1] # "fn"
      BY <1>2, <2>1, OwnedFrames, PlacesOfFrames
    <3> QED BY <1>1, <1>5, <2>1, <3>1, OwnedFrames DEF May, DynMay, LocalMay, ReadingFile
  <2>2. CASE pc' = pc
    <3>1. p \in Owned \/ \E s \in HashMembers : p = <<"fn", s>>
      BY <1>1, <1>5, <1>6, <2>2
    <3>2. CASE p \in Owned
      BY <1>1, <1>2, <1>5, <2>2, <3>2 DEF May, DynMay, LocalMay, ReadingFile
    <3>3. CASE \E s \in HashMembers : p = <<"fn", s>>
      BY <1>1, <2>2, <3>3 DEF May
    <3> QED BY <3>1, <3>2, <3>3
  <2>3. CASE pc' = "hash section" /\ p[1] = "dyn" /\ p[2] \in HashMembers
    BY <2>3 DEF May, DynMay
  <2> QED BY <1>1, <1>5, <1>6, <2>1, <2>2, <2>3
<1>7. Must'
  <2>1. ASSUME NEW p \in Owned, p[1] # "fn" PROVE p \in Owned'
    BY <1>5, <2>1, PlacesOfFrames
  <2> QED BY <1>1, <1>2, <1>5, <2>1 DEF Must, ReadingFile, Client, Buf, Phdrs, Entries
<1>8. Client'
  BY <1>1, <1>2, <1>5 DEF Client
<1> QED BY <1>1, <1>5, <1>6, <1>7, <1>8, PlainStep

(* Members of the struct elf_dynamic that parse_dyn builds.                *)
LEMMA DynPlaces ==
  ASSUME NEW X, X \subseteq DynMembers
  PROVE  /\ {"dyn"} \X X \subseteq AllPlaces
         /\ \A p \in {"dyn"} \X X : p[1] = "dyn" /\ p[2] \in X
<1> SUFFICES ASSUME NEW p \in {"dyn"} \X X
             PROVE  p \in AllPlaces /\ p[1] = "dyn" /\ p[2] \in X
  OBVIOUS
<1>1. p = <<p[1], p[2]>> /\ p[1] = "dyn" /\ p[2] \in X
  OBVIOUS
<1>2. <<"dyn", p[2]>> \in AllPlaces
  <2> HIDE DEF DynMembers
  <2> QED BY <1>1, FramesOfPlaces
<1> QED BY <1>1, <1>2

(* free, for frames that own what they free.                               *)
LEMMA FreeSteps ==
  ASSUME Sound(AllPlaces), NEW S, S \subseteq AllPlaces, Free(S), NEW label, Go(label)
  PROVE  Sound(AllPlaces)' /\ Owned' = Owned \ S /\ Lost' \subseteq Lost
         /\ pc' = label /\ call' = call
BY FreeKeeps DEF Go

(* The err labels from the inside out: a frame is empty when its owner     *)
(* gives up.                                                               *)
LEMMA ErrLabelsKeep ==
  ASSUME OwnInv, GnuErr \/ DynsymErr \/ DynErr \/ ElfErr \/ ReadErr,
         UNCHANGED <<table, block, toZero>>
  PROVE  OwnInv'
<1> DEFINE G == {"dyn"} \X GnuMembers
           D == Sym \cup ({"dyn"} \X (HashMembers \cup GnuMembers \cup {"shndx"}))
<1>1. pc \in {"gnu err", "dynsym err", "dyn err", "elf err", "read err"}
  BY DEF GnuErr, DynsymErr, DynErr, ElfErr, ReadErr
<1>2. Sound(AllPlaces) /\ (\A p \in Owned : May(p)) /\ Must /\ Client
  BY <1>1, PlainState
<1>3. /\ G \subseteq AllPlaces /\ D \subseteq AllPlaces /\ Dyn \subseteq AllPlaces
      /\ LocalElf \subseteq AllPlaces /\ File \subseteq AllPlaces
      /\ \A p \in G \cup D : p[1] \in {"dyn", "sym"}
      /\ Sym \subseteq D
  <2>1. G \subseteq AllPlaces /\ \A p \in G : p[1] = "dyn"
    BY DynPlaces
  <2>2. /\ {"dyn"} \X (HashMembers \cup GnuMembers \cup {"shndx"}) \subseteq AllPlaces
        /\ \A p \in {"dyn"} \X (HashMembers \cup GnuMembers \cup {"shndx"}) : p[1] = "dyn"
    BY DynPlaces
  <2> HIDE DEF G
  <2> QED BY <2>1, <2>2, PlacesOfFrames
<1> HIDE DEF G, D
<1>4. /\ Sound(AllPlaces)' /\ Lost' \subseteq Lost /\ call' = call
      /\ \/ pc = "gnu err" /\ Owned' = Owned \ G /\ pc' = "dynsym err"
         \/ pc = "dynsym err" /\ Owned' = Owned \ D /\ pc' = "dyn err"
         \/ pc = "dyn err" /\ Owned' = Owned \ Dyn /\ pc' = "elf err"
         \/ /\ pc = "elf err" /\ Owned' = Owned \ LocalElf
            /\ pc' = IF call = "read" THEN "read err" ELSE "write"
         \/ pc = "read err" /\ Owned' = Owned \ File /\ pc' = "main err"
  <2>1. CASE GnuErr BY <1>2, <1>3, <2>1, FreeSteps DEF GnuErr, G
  <2>2. CASE DynsymErr BY <1>2, <1>3, <2>2, FreeSteps DEF DynsymErr, D
  <2>3. CASE DynErr BY <1>2, <1>3, <2>3, FreeSteps DEF DynErr
  <2>4. CASE ElfErr BY <1>2, <1>3, <2>4, FreeSteps DEF ElfErr
  <2>5. CASE ReadErr BY <1>2, <1>3, <2>5, FreeSteps DEF ReadErr
  <2> QED BY <2>1, <2>2, <2>3, <2>4, <2>5
<1>5. ASSUME NEW p \in Owned' PROVE May(p)'
  <2>1. p \in Owned /\ May(p)
    BY <1>2, <1>4, <1>5
  <2>2. CASE pc = "gnu err"
    BY <1>4, <2>1, <2>2, OwnedFrames DEF May, DynMay, LocalMay, ReadingFile
  <2>3. CASE pc = "dynsym err"
    <3>1. p[1] # "sym"
      BY <1>3, <1>4, <2>1, <2>3, OwnedFrames, PlacesOfFrames
    <3> QED BY <1>4, <2>1, <2>3, <3>1, OwnedFrames DEF May, DynMay, LocalMay, ReadingFile
  <2>4. CASE pc = "dyn err"
    <3>1. p[1] # "dyn"
      BY <1>4, <2>1, <2>4, OwnedFrames, PlacesOfFrames
    <3> QED BY <1>4, <2>1, <2>4, <3>1, OwnedFrames DEF May, DynMay, LocalMay, ReadingFile
  <2>5. CASE pc = "elf err"
    <3>1. p[1] # "e"
      BY <1>4, <2>1, <2>5, OwnedFrames, PlacesOfFrames
    <3> QED BY <1>4, <2>1, <2>5, <3>1, OwnedFrames DEF May, DynMay, LocalMay, ReadingFile
  <2>6. CASE pc = "read err"
    <3>1. p[1] # "file"
      BY <1>4, <2>1, <2>6, OwnedFrames, PlacesOfFrames
    <3> QED BY <1>4, <2>1, <2>6, <3>1, OwnedFrames DEF May, DynMay, LocalMay, ReadingFile
  <2> QED BY <1>1, <2>2, <2>3, <2>4, <2>5, <2>6
<1>6. Must'
  <2>1. ASSUME NEW p \in Owned, p[1] \in {"main", "file"}
        PROVE  p \in Owned' \/ (p[1] = "file" /\ pc = "read err")
    <3>1. p \notin G /\ p \notin D /\ p \notin Dyn /\ p \notin LocalElf
          /\ (p \in File => p[1] = "file")
      BY <1>3, <2>1, PlacesOfFrames
    <3>2. \/ Owned' = Owned \ G \/ Owned' = Owned \ D \/ Owned' = Owned \ Dyn
          \/ Owned' = Owned \ LocalElf \/ (Owned' = Owned \ File /\ pc = "read err")
      BY <1>4
    <3> QED BY <2>1, <3>1, <3>2
  <2>2. CASE ReadingFile
    BY <1>1, <1>2, <1>4, <2>1, <2>2 DEF Must, ReadingFile, Buf, Phdrs, Entries
  <2>3. CASE ~ ReadingFile
    BY <1>1, <1>2, <1>4, <2>1, <2>3 DEF Must, ReadingFile, Buf, Phdrs, Entries, Client
  <2> QED BY <2>2, <2>3
<1>7. Client'
  BY <1>2, <1>4 DEF Client
<1> QED BY <1>4, <1>5, <1>6, <1>7, PlainStep

(* A table that its section does not bear out is freed, once.              *)
LEMMA CheckHashSectionKeeps ==
  ASSUME OwnInv, CheckHashSection, UNCHANGED <<table, block, toZero>>
  PROVE  OwnInv'
<1> DEFINE H == {"dyn"} \X HashMembers
<1>1. pc = "hash section"
  BY DEF CheckHashSection
<1>2. Sound(AllPlaces) /\ (\A p \in Owned : May(p)) /\ Must /\ Client
  BY <1>1, PlainState
<1>3. H \subseteq AllPlaces /\ \A p \in H : p[1] = "dyn" /\ p[2] # "entries"
  BY DynPlaces
<1> HIDE DEF H
<1>4. /\ Sound(AllPlaces)' /\ Lost' \subseteq Lost /\ call' = call /\ pc' = "gnu hash"
      /\ Owned' = Owned \/ Owned' = Owned \ H
  BY <1>2, <1>3, FreeKeeps, SameHeap DEF CheckHashSection, Returned, H
<1>5. ASSUME NEW p \in Owned' PROVE May(p)'
  <2>1. p \in Owned /\ May(p)
    BY <1>2, <1>4, <1>5
  <2> QED BY <1>1, <1>4, <2>1, OwnedFrames DEF May, DynMay, LocalMay, ReadingFile
<1>6. Must'
  <2>1. ASSUME NEW p \in Owned, p[1] = "dyn" => p[2] = "entries" PROVE p \in Owned'
    BY <1>3, <1>4, <2>1
  <2> QED BY <1>1, <1>2, <1>4, <2>1 DEF Must, ReadingFile, Buf, Phdrs, Entries
<1>7. Client'
  BY <1>1, <1>2, <1>4 DEF Client
<1> QED BY <1>4, <1>5, <1>6, <1>7, PlainStep

(* The bloom filter and the buckets are handed over together or not at     *)
(* all.                                                                    *)
LEMMA ReadGnuArraysKeeps ==
  ASSUME OwnInv, ReadGnuArrays, UNCHANGED <<table, block, toZero>>
  PROVE  OwnInv'
<1> DEFINE Two == {"bloom", "gnuBuckets"}
<1>1. pc = "gnu hash"
  BY DEF ReadGnuArrays
<1>2. Sound(AllPlaces) /\ (\A p \in Owned : May(p)) /\ Must /\ Client
  BY <1>1, PlainState
<1>3. /\ \A p \in Owned : p[1] = "fn" => p[2] \in Two
      /\ \A p \in Owned : p[1] = "dyn" => p[2] \notin Two
  BY <1>1, <1>2 DEF May, DynMay
<1>4. Fn \subseteq AllPlaces /\ Held(Fn) = Fn \cap Owned
  BY PlacesOfFrames, OwnedPlaces
<1>5. /\ Sound(AllPlaces)' /\ Lost' \subseteq Lost /\ call' = call
      /\ \/ /\ pc' = pc
            /\ \E s \in Two : Owned' = Owned \cup {<<"fn", s>>}
         \/ pc' \in {"dynsym err", "symbols"} /\ Owned' = Owned \ Fn
         \/ /\ pc' = "gnu chain"
            /\ \A p \in Owned' : IF p[1] = "dyn" /\ p[2] \in Two THEN TRUE
                                 ELSE p \in Owned \ Fn
            /\ Owned \ Fn \subseteq Owned'
  <2>1. ASSUME NEW s \in Two, <<"fn", s>> \notin Held(Fn), Alloc(<<"fn", s>>), Go("gnu hash")
        PROVE  Sound(AllPlaces)' /\ Lost' \subseteq Lost /\ Owned' = Owned \cup {<<"fn", s>>}
    <3>1. <<"fn", s>> \in AllPlaces \ Owned
      BY <1>4, <2>1, FramesOfPlaces, PlacesOfFrames
    <3> QED BY <1>2, <2>1, <3>1, AllocKeeps
  <2>2. CASE Held(Fn) = {} /\ (Stop("dynsym err") \/ Stop("symbols"))
    <3>1. Owned = Owned \ Fn
      BY <1>4, <2>2
    <3> QED BY <1>2, <2>2, <3>1, StopSteps
  <2>3. CASE Held(Fn) = {} /\ Alloc(<<"fn", "bloom">>) /\ Go("gnu hash")
    BY <1>1, <2>1, <2>3 DEF Go
  <2>4. CASE Held(Fn) = {<<"fn", "bloom">>} /\ Alloc(<<"fn", "gnuBuckets">>) /\ Go("gnu hash")
    BY <1>1, <2>1, <2>4 DEF Go
  <2>5. CASE Held(Fn) # {} /\ Free(Fn) /\ Go("dynsym err")
    BY <1>2, <1>4, <2>5, FreeSteps
  <2>6. CASE Move("fn", "dyn", Two) /\ Go("gnu chain")
    <3>1. \A p \in AllPlaces : p[1] = "dyn" /\ p[2] \in Two =>
             p \notin Owned /\ <<"fn", p[2]>> \in AllPlaces
      BY <1>3, FramesOfPlaces
    <3>2. \A p \in Owned : p[1] = "fn" /\ p[2] \in Two => <<"dyn", p[2]>> \in AllPlaces
      BY FramesOfPlaces
    <3>3. /\ Sound(AllPlaces)' /\ Lost' \subseteq Lost
          /\ \A p \in AllPlaces : p \in Owned' <=>
                IF p[1] = "dyn" /\ p[2] \in Two THEN <<"fn", p[2]>> \in Owned
                ELSE p \in Owned /\ ~ (p[1] = "fn" /\ p[2] \in Two)
      <4>1. "fn" # "dyn" OBVIOUS
      <4>2. Sound(AllPlaces) /\ Move("fn", "dyn", Two) BY <1>2, <2>6
      <4> HIDE DEF Two
      <4> QED BY ONLY <4>1, <4>2, <3>1, <3>2, HandOver
    <3>4. \A p : p \in Owned' \/ p \in Owned => p \in AllPlaces
      BY DEF Owned, Held
    <3>5. Owned \ Fn \subseteq Owned'
      BY <1>3, <3>3, <3>4, PlacesOfFrames
    <3> QED BY <1>3, <2>6, <3>3, <3>4, <3>5, PlacesOfFrames DEF Go
  <2> QED BY <2>2, <2>3, <2>4, <2>5, <2>6 DEF ReadGnuArrays
<1>6. ASSUME NEW p \in Owned' PROVE May(p)'
  <2>1. CASE p \in Owned /\ p \notin Fn
    <3>1. May(p) /\ p[1] # "fn"
      BY <1>2, <2>1, OwnedFrames, PlacesOfFrames
    <3> QED BY <1>1, <1>5, <2>1, <3>1, OwnedFrames DEF May, DynMay, LocalMay, ReadingFile
  <2>2. CASE pc' = pc
    <3>1. p \in Owned \/ \E s \in Two : p = <<"fn", s>>
      BY <1>1, <1>5, <1>6, <2>2
    <3>2. CASE p \in Owned
      BY <1>1, <1>2, <1>5, <2>2, <3>2 DEF May, DynMay, LocalMay, ReadingFile
    <3>3. CASE \E s \in Two : p = <<"fn", s>>
      <4>1. CASE p = <<"fn", "bloom">> BY <1>1, <2>2, <4>1 DEF May
      <4>2. CASE p = <<"fn", "gnuBuckets">> BY <1>1, <2>2, <4>2 DEF May
      <4> QED BY <3>3, <4>1, <4>2
    <3> QED BY <3>1, <3>2, <3>3
  <2>3. CASE pc' = "gnu chain" /\ p[1] = "dyn" /\ p[2] \in Two
    BY <2>3 DEF May, DynMay
  <2> QED BY <1>1, <1>5, <1>6, <2>1, <2>2, <2>3
<1>7. Must'
  <2>1. ASSUME NEW p \in Owned, p[1] # "fn" PROVE p \in Owned'
    BY <1>5, <2>1, PlacesOfFrames
  <2> QED BY <1>1, <1>2, <1>5, <2>1 DEF Must, ReadingFile, Client, Buf, Phdrs, Entries
<1>8. Client'
  BY <1>1, <1>2, <1>5 DEF Client
<1> QED BY <1>1, <1>5, <1>6, <1>7, <1>8, PlainStep

(* The bits that mark symbols as seen are freed on every way out.          *)
LEMMA ValidateTablesKeeps ==
  ASSUME OwnInv, ValidateTables, UNCHANGED <<table, block, toZero>>
  PROVE  OwnInv'
<1>1. pc = "seen bits"
  BY DEF ValidateTables
<1>2. Sound(AllPlaces) /\ (\A p \in Owned : May(p)) /\ Must /\ Client
  BY <1>1, PlainState
<1>3. Fn \subseteq AllPlaces /\ Held(Fn) = Fn \cap Owned
  BY PlacesOfFrames, OwnedPlaces
<1>4. /\ Sound(AllPlaces)' /\ Lost' \subseteq Lost /\ call' = call
      /\ \/ pc' = pc /\ Owned' = Owned \cup {<<"fn", "seen">>}
         \/ pc' \in {"dynsym err", "shndx"} /\ Owned' = Owned \ Fn
  <2>1. CASE Held(Fn) = {} /\ (Stop("dynsym err") \/ Stop("shndx"))
    <3>1. Owned = Owned \ Fn
      BY <1>3, <2>1
    <3> QED BY <1>2, <2>1, <3>1, StopSteps
  <2>2. CASE Held(Fn) = {} /\ Alloc(<<"fn", "seen">>) /\ Go("seen bits")
    <3>1. <<"fn", "seen">> \in AllPlaces \ Owned
      BY <1>3, <2>2, FramesOfPlaces, PlacesOfFrames
    <3> QED BY <1>1, <1>2, <2>2, <3>1, AllocKeeps DEF Go
  <2>3. CASE Held(Fn) # {} /\ Free(Fn) /\ (Go("shndx") \/ Go("dynsym err"))
    BY <1>2, <1>3, <2>3, FreeSteps
  <2> QED BY <2>1, <2>2, <2>3 DEF ValidateTables
<1>5. ASSUME NEW p \in Owned' PROVE May(p)'
  <2>1. CASE p = <<"fn", "seen">> /\ pc' = pc
    BY <1>1, <2>1 DEF May
  <2>2. CASE p \in Owned /\ (p \notin Fn \/ pc' = pc)
    <3>1. May(p) /\ (p[1] # "fn" \/ pc' = pc)
      BY <1>2, <2>2, OwnedFrames, PlacesOfFrames
    <3> QED BY <1>1, <1>4, <2>2, <3>1, OwnedFrames DEF May, DynMay, LocalMay, ReadingFile
  <2> QED BY <1>4, <1>5, <2>1, <2>2
<1>6. Must'
  <2>1. ASSUME NEW p \in Owned, p[1] # "fn" PROVE p \in Owned'
    BY <1>4, <2>1, PlacesOfFrames
  <2> QED BY <1>1, <1>2, <1>4, <2>1 DEF Must, ReadingFile, Client, Buf, Phdrs, Entries
<1>7. Client'
  BY <1>1, <1>2, <1>4 DEF Client
<1> QED BY <1>1, <1>4, <1>5, <1>6, <1>7, PlainStep

(* parse_dynsym returns its symbols to parse_dyn.                          *)
LEMMA DynsymDoneKeeps ==
  ASSUME OwnInv, DynsymDone, UNCHANGED <<table, block, toZero>>
  PROVE  OwnInv'
<1>1. pc = "dynsym done" /\ pc' = "dyn done" /\ call' = call /\ Move("sym", "dyn", {"syms"})
  BY DEF DynsymDone, Go
<1>2. Sound(AllPlaces) /\ (\A p \in Owned : May(p)) /\ Must /\ Client
  BY <1>1, PlainState
<1>3. /\ Sound(AllPlaces)' /\ Lost' \subseteq Lost
      /\ \A p \in AllPlaces : p \in Owned' <=>
            IF p[1] = "dyn" /\ p[2] \in {"syms"} THEN <<"sym", p[2]>> \in Owned
            ELSE p \in Owned /\ ~ (p[1] = "sym" /\ p[2] \in {"syms"})
  <2> DEFINE S == {"syms"}
  <2>1. "sym" # "dyn" OBVIOUS
  <2>2. Sound(AllPlaces) /\ Move("sym", "dyn", S) BY <1>1, <1>2
  <2>3. \A p \in AllPlaces : p[1] = "dyn" /\ p[2] \in S =>
             p \notin Owned /\ <<"sym", p[2]>> \in AllPlaces
    BY <1>1, <1>2, FramesOfPlaces DEF May, DynMay
  <2>4. \A p \in Owned : p[1] = "sym" /\ p[2] \in S => <<"dyn", p[2]>> \in AllPlaces
    BY FramesOfPlaces
  <2> HIDE DEF S
  <2>5. /\ Sound(AllPlaces)' /\ Lost' \subseteq Lost
        /\ \A p \in AllPlaces : p \in Owned' <=>
              IF p[1] = "dyn" /\ p[2] \in S THEN <<"sym", p[2]>> \in Owned
              ELSE p \in Owned /\ ~ (p[1] = "sym" /\ p[2] \in S)
    BY ONLY <2>1, <2>2, <2>3, <2>4, HandOver
  <2> QED BY <2>5 DEF S
<1>4. \A p : p \in Owned' \/ p \in Owned => p \in AllPlaces
  BY DEF Owned, Held
<1>5. ASSUME NEW p \in Owned' PROVE May(p)'
  <2>1. CASE p[1] = "dyn" /\ p[2] = "syms"
    BY <1>1, <2>1 DEF May, DynMay
  <2>2. CASE p \in Owned /\ p[1] # "sym"
    <3>1. May(p)
      BY <1>2, <2>2
    <3> QED BY <1>1, <2>2, <3>1, OwnedFrames DEF May, DynMay, LocalMay, ReadingFile
  <2> QED BY <1>3, <1>4, <1>5, <2>1, <2>2, FramesOfPlaces
<1>6. Must'
  <2>1. ASSUME NEW p \in Owned, p[1] # "sym", p[2] # "syms" PROVE p \in Owned'
    BY <1>3, <1>4, <2>1
  <2> QED BY <1>1, <1>2, <2>1 DEF Must, ReadingFile, Client, Buf, Phdrs, Entries
<1>7. Client'
  BY <1>1, <1>2, <1>3 DEF Client
<1> QED BY <1>1, <1>3, <1>5, <1>6, <1>7, PlainStep

(* parse_dyn returns all its arrays to read_elf.                           *)
LEMMA DynDoneKeeps ==
  ASSUME OwnInv, DynDone, UNCHANGED <<table, block, toZero>>
  PROVE  OwnInv'
<1>1. pc = "dyn done" /\ pc' = "take data" /\ call' = call /\ Move("dyn", "e", DynMembers)
  BY DEF DynDone, Go
<1>2. Sound(AllPlaces) /\ (\A p \in Owned : May(p)) /\ Must /\ Client
  BY <1>1, PlainState
<1>3. /\ Sound(AllPlaces)' /\ Lost' \subseteq Lost
      /\ \A p \in AllPlaces : p \in Owned' <=>
            IF p[1] = "e" /\ p[2] \in DynMembers THEN <<"dyn", p[2]>> \in Owned
            ELSE p \in Owned /\ ~ (p[1] = "dyn" /\ p[2] \in DynMembers)
  <2>1. "dyn" # "e" OBVIOUS
  <2>2. Sound(AllPlaces) /\ Move("dyn", "e", DynMembers) BY <1>1, <1>2
  <2>3. \A p \in AllPlaces : p[1] = "e" /\ p[2] \in DynMembers =>
             p \notin Owned /\ <<"dyn", p[2]>> \in AllPlaces
    BY <1>1, <1>2, FramesOfPlaces DEF May, LocalMay
  <2>4. \A p \in Owned : p[1] = "dyn" /\ p[2] \in DynMembers => <<"e", p[2]>> \in AllPlaces
    BY FramesOfPlaces
  <2> HIDE DEF DynMembers
  <2> QED BY ONLY <2>1, <2>2, <2>3, <2>4, HandOver
<1>4. \A p : p \in Owned' \/ p \in Owned => p \in AllPlaces
  BY DEF Owned, Held
<1>5. ASSUME NEW p \in Owned' PROVE May(p)'
  <2>1. CASE p[1] = "e" /\ p[2] \in DynMembers
    BY <1>1, <2>1 DEF May, LocalMay
  <2>2. CASE p \in Owned /\ p[1] # "dyn"
    <3>1. May(p)
      BY <1>2, <2>2
    <3> QED BY <1>1, <2>2, <3>1, OwnedFrames DEF May, DynMay, LocalMay, ReadingFile
  <2>3. p \in AllPlaces /\ (p[1] = "dyn" => p[2] \in DynMembers)
    BY <1>4, <1>5, FramesOfPlaces
  <2> HIDE DEF DynMembers
  <2> QED BY <1>3, <1>5, <2>1, <2>2, <2>3
<1>6. Must'
  <2>1. ASSUME NEW p \in Owned, p[1] \notin {"dyn", "e"} \/ p[2] \notin DynMembers PROVE p \in Owned'
    BY <1>3, <1>4, <2>1
  <2>2. <<"e", "entries">> \in Owned'
    <3>1. <<"dyn", "entries">> \in Owned BY <1>1, <1>2 DEF Must
    <3> QED BY <1>3, <3>1, FramesOfPlaces
  <2> QED BY <1>1, <1>2, <2>1, <2>2 DEF Must, ReadingFile, Client, Buf, Phdrs, Entries
<1>7. Client'
  BY <1>1, <1>2, <1>3 DEF Client
<1> QED BY <1>1, <1>3, <1>5, <1>6, <1>7, PlainStep

(* Only the data can still be missing when the parsed tables are complete; *)
(* read_elf and main share it until read_elf gives it away.                *)
LEMMA TakeDataKeeps ==
  ASSUME OwnInv, TakeData, UNCHANGED <<table, block, toZero>>
  PROVE  OwnInv'
<1> DEFINE b == <<"e", "buf">>
           d == <<"file", "buf">>
<1>1. pc = "take data"
  BY DEF TakeData
<1>2. Sound(AllPlaces) /\ (\A p \in Owned : May(p)) /\ Must /\ Client
  BY <1>1, PlainState
<1>3. b \in AllPlaces \ Owned /\ b \notin File /\ d \in File
  BY <1>1, <1>2, FramesOfPlaces, PlacesOfFrames DEF May, LocalMay
<1>4. CASE call = "read" /\ Copy(b, d) /\ Go("elf done")
  <2>1. d \in Owned
    BY <1>1, <1>2, <1>4 DEF Must, ReadingFile
  <2> DEFINE O == AllPlaces \ File
  <2>a. O \subseteq AllPlaces /\ b \in O \ Owned /\ d \in Owned \ O
    BY <1>3, <2>1
  <2> HIDE DEF b, d, O
  <2>2. /\ Sound(O)' /\ Owned' = Owned \cup {b} /\ Lost' \subseteq Lost
        /\ ptr'[b] = ptr[d] /\ ptr'[d] = ptr[d]
    BY <1>2, <1>4, <2>a, CopyKeeps
  <2>3. pc' = "elf done" /\ call' = "read"
    BY <1>4 DEF Go
  <2>4. Sound(Owners)' /\ Sharing'
    BY <2>2, <2>3 DEF Owners, Lent, Sharing, b, d, O
  <2>5. ASSUME NEW p \in Owned' PROVE May(p)'
    <3>1. CASE p = b BY <2>3, <3>1 DEF May, LocalMay, b
    <3>2. CASE p \in Owned
      BY <1>1, <1>2, <1>4, <2>3, <3>2 DEF May, DynMay, LocalMay, ReadingFile
    <3> QED BY <2>2, <2>5, <3>1, <3>2
  <2>6. Must' /\ Client'
    BY <1>1, <1>2, <1>4, <2>2, <2>3 DEF Must, ReadingFile, Client, Buf, Phdrs, Entries
  <2> QED BY <2>4, <2>5, <2>6 DEF OwnInv
<1>5. CASE call = "sanity" /\ Alloc(b) /\ Go("elf done")
  <2> HIDE DEF b, d
  <2>1. Sound(AllPlaces)' /\ Owned' = Owned \cup {b} /\ Lost' \subseteq Lost
    BY <1>2, <1>3, <1>5, AllocKeeps
  <2>2. pc' = "elf done" /\ call' = "sanity"
    BY <1>5 DEF Go
  <2>3. Sound(Owners)' /\ Sharing'
    BY <2>1, <2>2 DEF Owners, Lent, Sharing
  <2>4. ASSUME NEW p \in Owned' PROVE May(p)'
    <3>1. CASE p = b BY <2>2, <3>1 DEF May, LocalMay, b
    <3>2. CASE p \in Owned
      BY <1>1, <1>2, <1>5, <2>2, <3>2 DEF May, DynMay, LocalMay, ReadingFile
    <3> QED BY <2>1, <2>4, <3>1, <3>2
  <2>5. Must' /\ Client'
    BY <1>1, <1>2, <1>5, <2>1, <2>2 DEF Must, ReadingFile, Client, Buf, Phdrs, Entries
  <2> QED BY <2>3, <2>4, <2>5 DEF OwnInv
<1>6. CASE call = "sanity" /\ Stop("elf err")
  <2>1. Sound(AllPlaces)' /\ Owned' = Owned /\ Lost' = Lost /\ pc' = "elf err" /\ call' = call
    BY <1>2, <1>6, StopSteps
  <2>2. ASSUME NEW p \in Owned' PROVE May(p)'
    BY <1>1, <1>2, <1>6, <2>1, <2>2 DEF May, DynMay, LocalMay, ReadingFile
  <2>3. Must' /\ Client'
    BY <1>1, <1>2, <1>6, <2>1 DEF Must, ReadingFile, Client, Buf, Phdrs, Entries
  <2> QED BY <2>1, <2>2, <2>3, PlainStep
<1> QED BY <1>4, <1>5, <1>6 DEF TakeData

(* read_elf returns what it has to main, or frees it after the sanity      *)
(* check.                                                                  *)
LEMMA ElfDoneKeeps ==
  ASSUME OwnInv, ElfDone, UNCHANGED <<table, block, toZero>>
  PROVE  OwnInv'
<1> DEFINE O == AllPlaces \ File
<1>1. pc = "elf done" /\ call' = call
  BY DEF ElfDone, Go
<1>2. (\A p \in Owned : May(p)) /\ Must /\ Client /\ Sharing
  BY DEF OwnInv
<1>3. CASE call = "read" /\ Move("e", "main", ElfMembers) /\ Go("read done")
  <2>1. "e" # "main" /\ O \subseteq AllPlaces OBVIOUS
  <2>2. Sound(O) /\ Move("e", "main", ElfMembers) /\ pc' = "read done"
    BY <1>1, <1>3 DEF OwnInv, Owners, Lent, Go
  <2>3. \A p \in AllPlaces : p[1] = "main" /\ p[2] \in ElfMembers =>
             p \notin Owned /\ <<"e", p[2]>> \in AllPlaces /\ (p \in O => <<"e", p[2]>> \in O)
    <3> TAKE p \in AllPlaces
    <3>1. p[1] = "main" => p \notin Owned
      BY <1>1, <1>2, <1>3 DEF May, ReadingFile
    <3>2. p[2] \in ElfMembers => <<"e", p[2]>> \in AllPlaces
      <4> HIDE DEF ElfMembers
      <4> QED BY FramesOfPlaces
    <3>3. <<"e", p[2]>> \notin File
      BY PlacesOfFrames
    <3> QED BY <3>1, <3>2, <3>3
  <2>4. \A p \in Owned : p[1] = "e" /\ p[2] \in ElfMembers => <<"main", p[2]>> \in AllPlaces
    <3> HIDE DEF ElfMembers
    <3> QED BY FramesOfPlaces
  <2>5. /\ Sound(O)' /\ Lost' \subseteq Lost
        /\ \A p \in AllPlaces : p \in Owned' <=>
              IF p[1] = "main" /\ p[2] \in ElfMembers THEN <<"e", p[2]>> \in Owned
              ELSE p \in Owned /\ ~ (p[1] = "e" /\ p[2] \in ElfMembers)
        /\ \A p \in AllPlaces : p[1] = "main" /\ p[2] \in ElfMembers => ptr'[p] = ptr[<<"e", p[2]>>]
        /\ \A p \in AllPlaces : p[1] \notin {"e", "main"} => ptr'[p] = ptr[p]
    <3> DEFINE f == "e"
               g == "main"
    <3>1. /\ f # g /\ O \subseteq AllPlaces /\ Sound(O) /\ Move(f, g, ElfMembers)
          /\ \A p \in AllPlaces : p[1] = g /\ p[2] \in ElfMembers =>
               p \notin Owned /\ <<f, p[2]>> \in AllPlaces /\ (p \in O => <<f, p[2]>> \in O)
          /\ \A p \in Owned : p[1] = f /\ p[2] \in ElfMembers => <<g, p[2]>> \in AllPlaces
      BY <2>1, <2>2, <2>3, <2>4
    <3> HIDE DEF O, ElfMembers, f, g
    <3>2. /\ Sound(O)' /\ Lost' \subseteq Lost
          /\ \A p \in AllPlaces : p \in Owned' <=>
              IF p[1] = g /\ p[2] \in ElfMembers THEN <<f, p[2]>> \in Owned
              ELSE p \in Owned /\ ~ (p[1] = f /\ p[2] \in ElfMembers)
          /\ \A p \in AllPlaces : p[1] = g /\ p[2] \in ElfMembers => ptr'[p] = ptr[<<f, p[2]>>]
          /\ \A p \in AllPlaces : p[1] \notin {f, g} => ptr'[p] = ptr[p]
      BY ONLY <3>1, MoveKeeps
    <3> QED BY <3>2 DEF f, g
  <2>6. \A p : p \in Owned' \/ p \in Owned => p \in AllPlaces
    BY DEF Owned, Held
  <2>7. Sound(Owners)'
    BY <2>2, <2>5 DEF Owners, Lent
  <2>8. Sharing'
    <3>1. ptr'[Buf] = ptr[<<"e", "buf">>] /\ ptr'[<<"file", "buf">>] = ptr[<<"file", "buf">>]
      BY <2>5, FramesOfPlaces DEF Buf
    <3> QED BY <1>1, <1>2, <1>3, <2>2, <3>1 DEF Sharing, Lent
  <2>9. ASSUME NEW p \in Owned' PROVE May(p)'
    <3>1. p \in AllPlaces /\ (p[1] = "e" => p[2] \in ElfMembers)
      BY <2>6, <2>9, FramesOfPlaces
    <3>2. CASE p[1] = "main"
      BY <2>2, <3>2 DEF May, ReadingFile
    <3>3. CASE p \in Owned /\ p[1] \notin {"e", "main"}
      <4>1. May(p)
        BY <1>2, <3>3
      <4> QED BY <1>1, <2>2, <3>3, <4>1, OwnedFrames DEF May, DynMay, LocalMay, ReadingFile
    <3> HIDE DEF ElfMembers
    <3> QED BY <2>5, <2>9, <3>1, <3>2, <3>3
  <2>10. Must'
    <3>1. {<<"e", "buf">>, <<"e", "phdrs">>, <<"e", "entries">>} \subseteq Owned
      BY <1>1, <1>2, <1>3 DEF Must, Sharing, Lent
    <3>2. {Buf, Phdrs, Entries} \subseteq Owned'
      BY <2>5, <3>1, FramesOfPlaces DEF Buf, Phdrs, Entries
    <3> QED BY <2>2, <3>2 DEF Must, ReadingFile
  <2>11. Client'
    BY <1>1, <1>2, <2>2, <2>5 DEF Client
  <2> QED BY <2>7, <2>8, <2>9, <2>10, <2>11 DEF OwnInv
<1>4. CASE call = "sanity" /\ Free(LocalElf) /\ Go("write")
  <2>1. Sound(AllPlaces)
    BY <1>4 DEF OwnInv, Owners, Lent, Go, ElfDone
  <2>2. Sound(AllPlaces)' /\ Owned' = Owned \ LocalElf /\ Lost' \subseteq Lost /\ pc' = "write"
    BY <1>4, <2>1, PlacesOfFrames, FreeSteps
  <2>3. ASSUME NEW p \in Owned' PROVE May(p)'
    <3>1. p \in Owned /\ May(p) /\ p[1] # "e"
      BY <1>2, <2>2, <2>3, OwnedFrames, PlacesOfFrames
    <3> QED BY <1>1, <1>4, <2>2, <3>1, OwnedFrames DEF May, DynMay, LocalMay, ReadingFile
  <2>4. Must'
    <3>1. Buf \in Owned
      BY <1>1, <1>2, <1>4 DEF Must
    <3>2. Buf \in Owned'
      BY <2>2, <3>1, PlacesOfFrames DEF Buf
    <3> QED BY <2>2, <3>2 DEF Must, ReadingFile
  <2>5. Client'
    BY <1>1, <1>2, <2>2 DEF Client
  <2> QED BY <2>2, <2>3, <2>4, <2>5, PlainStep
<1> QED BY <1>3, <1>4 DEF ElfDone

(* The variable that read_file filled in goes out of scope.                *)
LEMMA ReadDoneKeeps ==
  ASSUME OwnInv, ReadDone, UNCHANGED <<table, block, toZero>>
  PROVE  OwnInv'
<1>1. pc = "read done" /\ pc' = "offsets" /\ call' = call /\ Forget(File)
  BY DEF ReadDone, Go
<1>2. (\A p \in Owned : May(p)) /\ Must /\ Client /\ Sharing /\ Sound(AllPlaces \ File)
  BY <1>1 DEF OwnInv, Owners
<1>3. \A p \in File : \E q \in AllPlaces \ File : ptr[p] = ptr[q]
  <2>1. Buf \in AllPlaces \ File
    BY FramesOfPlaces, PlacesOfFrames DEF Buf
  <2>2. \A p \in File : p = <<"file", "buf">>
    BY DEF File
  <2> QED BY <1>1, <1>2, <2>1, <2>2 DEF Sharing
<1>4. Sound(AllPlaces)' /\ Owned' = Owned \ File /\ Lost' \subseteq Lost
  BY <1>1, <1>2, <1>3, PlacesOfFrames, ForgetKeeps
<1>5. ASSUME NEW p \in Owned' PROVE May(p)'
  <2>1. p \in Owned /\ May(p) /\ p[1] # "file"
    BY <1>2, <1>4, <1>5, OwnedFrames, PlacesOfFrames
  <2> QED BY <1>1, <2>1, OwnedFrames DEF May, DynMay, LocalMay, ReadingFile
<1>6. Must'
  <2>1. {Buf, Phdrs, Entries} \subseteq Owned
    BY <1>1, <1>2 DEF Must
  <2>2. {Buf, Phdrs, Entries} \subseteq Owned'
    BY <1>4, <2>1, PlacesOfFrames DEF Buf, Phdrs, Entries
  <2> QED BY <1>1, <2>2 DEF Must, ReadingFile
<1>7. Client'
  BY <1>1, <1>2, <1>4 DEF Client
<1> QED BY <1>1, <1>4, <1>5, <1>6, <1>7, PlainStep

-----------------------------------------------------------------------------

(* The calls after read_elf has returned to main or to the client.         *)
Working == Planning \cup {"offsets", "new entries", "phnum err", "mod err", "serialize",
                          "write", "main err", "resize", "resized", "realloc failed",
                          "resize failed"}

(* Once the file is read, main and its mod_ctx own all there is.           *)
LEMMA TwoFrames ==
  ASSUME OwnInv, pc \in Working, NEW p \in Owned
  PROVE  p \in AllPlaces /\ p[1] \in {"main", "mod"}
BY OwnedFrames, ZenonT(60) DEF OwnInv, May, DynMay, LocalMay, ReadingFile, Working

(* realloc of an array that main owns.                                     *)
LEMMA ResizeSteps ==
  ASSUME Sound(AllPlaces), NEW p \in Owned
  PROVE  /\ ReallocFailed(p) =>
              Sound(AllPlaces)' /\ Owned' \subseteq Owned /\ Lost' \subseteq Lost
         /\ Reallocated(p) => Sound(AllPlaces)' /\ Owned' = Owned /\ Lost' \subseteq Lost
<1>1. p \in AllPlaces
  BY OwnedPlaces
<1>2. ASSUME ReallocFailed(p)
      PROVE  Sound(AllPlaces)' /\ Owned' \subseteq Owned /\ Lost' \subseteq Lost
  <2>1. Sound(AllPlaces)' /\ Owned' = Owned \ {p} /\ Lost' \subseteq Lost
    BY <1>1, <1>2, FreeKeeps DEF ReallocFailed
  <2> QED BY <2>1
<1>3. ASSUME Reallocated(p)
      PROVE  Sound(AllPlaces)' /\ Owned' = Owned /\ Lost' \subseteq Lost
  <2>1. Sound(AllPlaces)' /\ Owned' = Owned \cup {p} /\ Lost' \subseteq Lost
    BY <1>1, <1>3, ReallocatedKeeps
  <2> QED BY <2>1
<1> QED BY <1>2, <1>3

(* What every step of the plan does: the tables stay, or one is freed and  *)
(* an err label comes next.                                                *)
PlanStep ==
  /\ Sound(AllPlaces)' /\ Lost' \subseteq Lost /\ call' = call
  /\ \/ Owned' = Owned /\ pc' \in Planning \cup {"mod err", "phnum err"}
     \/ Owned' \subseteq Owned /\ pc' \in {"mod err", "phnum err"}

(* A step of the planner that changes only places of main and of mod_ctx.  *)
LEMMA PlanStepKeeps ==
  ASSUME OwnInv, pc \in Planning, PlanStep, UNCHANGED <<table, block, toZero>>
  PROVE  OwnInv'
<1>1. Sound(AllPlaces) /\ (\A p \in Owned : May(p)) /\ Must /\ Client
  BY PlainState
<1>2. ASSUME NEW p \in Owned' PROVE May(p)'
  <2>1. p \in Owned
    BY <1>2 DEF PlanStep
  <2>2. p[1] \in {"main", "mod"}
    BY <2>1, TwoFrames DEF Working
  <2> QED BY <2>2 DEF May, ReadingFile, PlanStep
<1>3. Must'
  BY <1>1 DEF Must, ReadingFile, PlanStep
<1>4. Client'
  BY <1>1 DEF Client, PlanStep
<1> QED BY <1>2, <1>3, <1>4, PlainStep DEF PlanStep

(* Reads, writes and decisions between two labels of the plan.             *)
LEMMA PlanUses ==
  ASSUME Sound(AllPlaces), NEW S, S \subseteq Owned, Use(S),
         NEW label \in Planning \cup {"mod err", "phnum err"}, pc' = label, call' = call
  PROVE  PlanStep
BY UseKeeps DEF PlanStep

(* prepare_move_data grows the contents or fails with them as they were.   *)
LEMMA PrepareMoveSteps ==
  ASSUME Sound(AllPlaces), Buf \in Owned, NEW at, NEW moved \in Planning,
         PrepareMove(at, moved)
  PROVE  PlanStep
<1>1. CASE Stop("mod err") \/ Stop(moved)
  BY <1>1, StopSteps DEF PlanStep
<1>2. CASE ReallocFailed(Buf) /\ Go("mod err")
  BY <1>2, ResizeSteps DEF PlanStep, Go
<1>3. CASE Reallocated(Buf) /\ Go(moved)
  BY <1>3, ResizeSteps DEF PlanStep, Go
<1> QED BY <1>1, <1>2, <1>3 DEF PrepareMove

(* append_phdr grows the program headers or fails with them as they were.  *)
LEMMA GrowPhdrsSteps ==
  ASSUME Sound(AllPlaces), Phdrs \in Owned, NEW at, NEW next \in Planning, GrowPhdrs(at, next)
  PROVE  PlanStep
<1>1. CASE Stop("mod err")
  BY <1>1, StopSteps DEF PlanStep
<1>2. CASE ResizeFailed(Phdrs) /\ Go("phnum err")
  <2>1. CASE UNCHANGED heap
    BY <1>2, <2>1, SameHeap DEF PlanStep, Go
  <2>2. CASE ReallocFailed(Phdrs)
    BY <1>2, <2>2, ResizeSteps DEF PlanStep, Go
  <2> QED BY <1>2, <2>1, <2>2 DEF ResizeFailed
<1>3. CASE Reallocated(Phdrs) /\ (Go("phnum err") \/ Go(next))
  BY <1>3, ResizeSteps DEF PlanStep, Go
<1> QED BY <1>1, <1>2, <1>3 DEF GrowPhdrs

(* The calls of prepare_modifications and do_modifications.                *)
LEMMA PlanningKeeps ==
  ASSUME OwnInv, UNCHANGED <<table, block, toZero>>,
         \/ CalculateSizes \/ AppendRo \/ AppendRw \/ FillHeader \/ MovePhdrs \/ MoveDynstr
         \/ MoveEntries \/ AddEntries
  PROVE  OwnInv'
<1>1. pc \in Planning
  BY DEF CalculateSizes, AppendRo, AppendRw, FillHeader, MovePhdrs, MoveDynstr, MoveEntries,
         AddEntries, GrowPhdrs, PrepareMove
<1> SUFFICES PlanStep
  BY <1>1, PlanStepKeeps
<1>2. Sound(AllPlaces) /\ Must
  BY <1>1, PlainState
<1>3. {Buf, Phdrs, Entries} \subseteq Owned /\ Mod \subseteq Owned
  BY <1>1, <1>2 DEF Must
<1>4. <<"mod", "offsets">> \in Owned /\ <<"mod", "newEntries">> \in Owned
  BY <1>3 DEF Mod
<1>5. CASE CalculateSizes
  BY <1>2, <1>3, <1>5, PlanUses DEF CalculateSizes, Go
<1>6. CASE AppendRo
  BY <1>2, <1>3, <1>6, GrowPhdrsSteps DEF AppendRo
<1>7. CASE AppendRw
  BY <1>2, <1>3, <1>7, GrowPhdrsSteps DEF AppendRw
<1>8. CASE FillHeader
  BY <1>2, <1>3, <1>8, PlanUses DEF FillHeader, Go
<1>9. CASE MovePhdrs
  <2>1. CASE PrepareMove("move phdrs", "phdrs moved")
    BY <1>2, <1>3, <2>1, PrepareMoveSteps
  <2>2. CASE Use({Buf, Phdrs}) /\ (Go("move dynstr") \/ Go("mod err"))
    BY <1>2, <1>3, <2>2, PlanUses DEF Go
  <2> QED BY <1>9, <2>1, <2>2 DEF MovePhdrs
<1>10. CASE MoveDynstr
  <2>1. CASE PrepareMove("move dynstr", "dynstr moved")
    BY <1>2, <1>3, <2>1, PrepareMoveSteps
  <2>2. CASE /\ Use({Buf, Phdrs, Entries, <<"mod", "offsets">>})
             /\ (Go("mod err") \/ Go(IF moves THEN "move entries" ELSE "add entries"))
    BY <1>2, <1>3, <1>4, <2>2, PlanUses DEF Go
  <2> QED BY <1>10, <2>1, <2>2 DEF MoveDynstr
<1>11. CASE MoveEntries
  <2>1. CASE PrepareMove("move entries", "entries moved")
    BY <1>2, <1>3, <2>1, PrepareMoveSteps
  <2>2. CASE Use({Buf, Phdrs}) /\ Go("grow entries")
    BY <1>2, <1>3, <2>2, PlanUses DEF Go
  <2>3. CASE ResizeFailed(Entries) /\ Go("mod err")
    <3>1. CASE UNCHANGED heap
      BY <1>2, <2>3, <3>1, SameHeap DEF PlanStep, Go
    <3>2. CASE ReallocFailed(Entries)
      BY <1>2, <1>3, <2>3, <3>2, ResizeSteps DEF PlanStep, Go
    <3> QED BY <2>3, <3>1, <3>2 DEF ResizeFailed
  <2>4. CASE Reallocated(Entries) /\ Go("add entries")
    BY <1>2, <1>3, <2>4, ResizeSteps DEF PlanStep, Go
  <2> QED BY <1>11, <2>1, <2>2, <2>3, <2>4 DEF MoveEntries
<1>12. CASE AddEntries
  BY <1>2, <1>3, <1>4, <1>12, PlanUses DEF AddEntries, Go
<1> QED BY <1>5, <1>6, <1>7, <1>8, <1>9, <1>10, <1>11, <1>12

(* The arrays of the mod_ctx are allocated one after the other.            *)
LEMMA PrepareKeeps ==
  ASSUME OwnInv, PrepareOffsets \/ PrepareEntries, UNCHANGED <<table, block, toZero>>
  PROVE  OwnInv'
<1>1. pc \in {"offsets", "new entries"}
  BY DEF PrepareOffsets, PrepareEntries, Prepare
<1>2. Sound(AllPlaces) /\ (\A p \in Owned : May(p)) /\ Must /\ Client
  BY <1>1, PlainState
<1>3. \A p \in Owned : /\ p[1] \in {"main", "mod"}
                       /\ p[1] = "mod" => pc = "new entries" /\ p[2] = "offsets"
  BY <1>1, <1>2, TwoFrames DEF May, Working
<1> DEFINE a == <<"mod", "offsets">>
           n == <<"mod", "newEntries">>
<1>4. Mod = {a, n} /\ a \in AllPlaces /\ n \in AllPlaces \ Owned
      /\ (pc = "offsets" => a \notin Owned)
  <2>1. \A p \in Mod : p = a \/ p = n
    BY DEF Mod
  <2>2. a \in Mod /\ n \in Mod
    BY DEF Mod
  <2>3. a \in AllPlaces /\ n \in AllPlaces \ Owned /\ (pc = "offsets" => a \notin Owned)
    BY <1>1, <1>3, FramesOfPlaces
  <2> QED BY <2>1, <2>2, <2>3
<1>5. /\ Sound(AllPlaces)' /\ Lost' \subseteq Lost /\ call' = call
      /\ \/ pc' = "mod err" /\ Owned' = Owned
         \/ /\ pc = "offsets" /\ pc' \in {"new entries", "mod err"}
            /\ Owned' = Owned \cup {a}
         \/ /\ pc = "new entries" /\ pc' \in {"sizes", "mod err"}
            /\ Owned' = Owned \cup {n}
  <2> HIDE DEF a, n
  <2>1. CASE Stop("mod err")
    BY <1>2, <2>1, StopSteps
  <2>2. CASE pc = "offsets" /\ Alloc(a) /\ (Go("new entries") \/ Go("mod err"))
    BY <1>2, <1>4, <2>2, AllocKeeps DEF Go
  <2>3. CASE pc = "new entries" /\ Alloc(n) /\ (Go("sizes") \/ Go("mod err"))
    BY <1>2, <1>4, <2>3, AllocKeeps DEF Go
  <2> QED BY <2>1, <2>2, <2>3 DEF PrepareOffsets, PrepareEntries, Prepare, a, n
<1>6. ASSUME NEW p \in Owned' PROVE May(p)'
  <2>1. p = a \/ p = n \/ (p \in Owned /\ p[1] \in {"main", "mod"})
    BY <1>3, <1>5, <1>6
  <2>2. CASE p = a
    BY <1>4, <1>5, <1>6, <2>2 DEF May
  <2>3. CASE p = n
    BY <1>4, <1>5, <1>6, <2>3 DEF May
  <2>4. CASE p \in Owned /\ p[1] \in {"main", "mod"}
    BY <1>3, <1>5, <2>4 DEF May, ReadingFile
  <2> QED BY <2>1, <2>2, <2>3, <2>4
<1>7. Must'
  <2>1. {Buf, Phdrs, Entries} \subseteq Owned'
    BY <1>1, <1>2, <1>5 DEF Must
  <2>2. pc' = "sizes" => Mod \subseteq Owned'
    BY <1>2, <1>4, <1>5 DEF Must
  <2>3. pc' = "new entries" => a \in Owned'
    BY <1>1, <1>5
  <2> QED BY <1>5, <2>1, <2>2, <2>3 DEF Must, ReadingFile
<1>8. Client'
  BY <1>1, <1>2, <1>5 DEF Client
<1> QED BY <1>5, <1>6, <1>7, <1>8, PlainStep

(* What is freed, used and written after the plan.                         *)
LEMMA FinishingKeeps ==
  ASSUME OwnInv, UNCHANGED <<table, block, toZero>>,
         PhnumErr \/ DestroyModifications \/ WriteFile \/ DestroyElf
  PROVE  OwnInv'
<1>1. pc \in {"phnum err", "mod err", "mod done", "write", "main err"}
  BY DEF PhnumErr, DestroyModifications, WriteFile, DestroyElf
<1>2. Sound(AllPlaces) /\ (\A p \in Owned : May(p)) /\ Must /\ Client
  BY <1>1, PlainState
<1>3. \A p \in Owned : /\ p[1] \in {"main", "mod"}
                       /\ p[1] = "mod" => pc \notin {"write", "main err"}
  BY <1>1, <1>2, TwoFrames DEF May, Working
<1>4. Phdrs \in AllPlaces
  BY FramesOfPlaces DEF Phdrs
<1>5. /\ Sound(AllPlaces)' /\ Lost' \subseteq Lost /\ call' = call
      /\ \/ pc = "phnum err" /\ pc' = "mod err" /\ Owned' \subseteq Owned
         \/ pc = "mod err" /\ pc' = "main err" /\ Owned' = Owned \ Mod
         \/ pc = "mod done" /\ pc' = "serialize" /\ Owned' = Owned \ Mod
         \/ pc = "write" /\ pc' = "main err" /\ Owned' = Owned
         \/ pc = "main err" /\ pc' = "ended" /\ Owned' = Owned \ Elf
  <2>1. CASE PhnumErr
    <3>1. Sound(AllPlaces)' /\ Owned' = Owned \ {Phdrs} /\ Lost' \subseteq Lost
          /\ pc' = "mod err" /\ call' = call
      BY <1>2, <1>4, <2>1, FreeSteps DEF PhnumErr
    <3> QED BY <2>1, <3>1 DEF PhnumErr
  <2>2. CASE DestroyModifications
    BY <1>2, <2>2, PlacesOfFrames, FreeSteps DEF DestroyModifications
  <2>3. CASE WriteFile
    <3>1. {Buf} \subseteq Owned
      BY <1>2, <2>3 DEF Must, WriteFile
    <3> QED BY <1>2, <2>3, <3>1, UseKeeps DEF WriteFile, Go
  <2>4. CASE DestroyElf
    BY <1>2, <2>4, PlacesOfFrames, FreeSteps DEF DestroyElf
  <2> QED BY <2>1, <2>2, <2>3, <2>4
<1>6. ASSUME NEW p \in Owned' PROVE May(p)'
  <2>1. p \in Owned /\ p \in AllPlaces /\ p[1] \in {"main", "mod"}
    BY <1>3, <1>5, <1>6, OwnedPlaces
  <2>2. p[1] = "mod" => pc' = "mod err"
    BY <1>3, <1>5, <1>6, <2>1, PlacesOfFrames
  <2>3. p[1] = "main" => pc' # "ended"
    BY <1>5, <1>6, <2>1, PlacesOfFrames
  <2> QED BY <1>5, <2>1, <2>2, <2>3 DEF May, ReadingFile
<1>7. Must'
  <2>1. pc' = "serialize" => {Buf, Phdrs, Entries} \subseteq Owned'
    <3>1. Buf \notin Mod /\ Phdrs \notin Mod /\ Entries \notin Mod
      BY PlacesOfFrames DEF Buf, Phdrs, Entries
    <3> QED BY <1>2, <1>5, <3>1 DEF Must
  <2> QED BY <1>5, <2>1 DEF Must, ReadingFile
<1>8. Client'
  BY <1>2, <1>5 DEF Client
<1> QED BY <1>5, <1>6, <1>7, <1>8, PlainStep

(* The sanity check parses a copy of the data that main keeps.             *)
LEMMA SerializeKeeps ==
  ASSUME OwnInv, Serialize, UNCHANGED <<table, block, toZero>>
  PROVE  OwnInv'
<1>1. pc = "serialize"
  BY DEF Serialize
<1>2. Sound(AllPlaces) /\ (\A p \in Owned : May(p)) /\ Must /\ Client
  BY <1>1, PlainState
<1>3. {Buf, Phdrs, Entries} \subseteq Owned
  BY <1>1, <1>2 DEF Must
<1>4. /\ Sound(AllPlaces)' /\ Owned' = Owned /\ Lost' = Lost
      /\ \/ pc' = "main err"
         \/ pc' = "section headers" /\ call' = "sanity"
      /\ call' \in {"read", "sanity"}
  BY <1>2, <1>3, UseKeeps DEF Serialize, Go, Client
<1>5. ASSUME NEW p \in Owned' PROVE May(p)'
  <2>1. p[1] = "main"
    BY <1>1, <1>2, <1>4, <1>5, TwoFrames DEF May, Working
  <2> QED BY <1>4, <2>1 DEF May, ReadingFile
<1>6. Must'
  BY <1>3, <1>4 DEF Must, ReadingFile
<1>7. Client'
  BY <1>1, <1>2, <1>4 DEF Client
<1> QED BY <1>4, <1>5, <1>6, <1>7, PlainStep

-----------------------------------------------------------------------------

(* The tables a client resizes are arrays of main.                         *)
LEMMA TablePlaces ==
  ASSUME NEW t \in Tables
  PROVE  t \in AllPlaces /\ t[1] = "main"
<1>1. t = <<t[1], t[2]>> /\ t[1] = "main" /\ t[2] \in {"phdrs", "shdrs", "entries", "syms"}
  BY DEF Tables
<1>2. t[2] \in ElfMembers
  BY <1>1
<1>3. <<"main", t[2]>> \in AllPlaces
  <2> HIDE DEF ElfMembers
  <2> QED BY <1>2, FramesOfPlaces
<1> QED BY <1>1, <1>3

(* The steps of a client: it may lose one block, that of a table it        *)
(* resizes to nothing.                                                     *)
LEMMA ClientStepsKeep ==
  ASSUME OwnInv,
         CallUpdate \/ ResizeTable \/ ReallocReturns \/ UpdateHeaders \/ UpdateFails \/ Done
  PROVE  OwnInv'
<1>1. pc \in {"offsets", "resize", "realloc failed", "resized", "resize failed"}
  BY DEF CallUpdate, ResizeTable, ReallocReturns, UpdateHeaders, UpdateFails, Done
<1>2. Sound(AllPlaces) /\ (\A p \in Owned : May(p)) /\ Must /\ Client
  BY <1>1, PlainState
<1>3. \A p \in Owned : p[1] = "main"
  BY <1>1, <1>2, TwoFrames DEF May, Working
<1>4. Phdrs \in AllPlaces
  BY FramesOfPlaces DEF Phdrs
<1>5. /\ Sound(AllPlaces)' /\ call' = call /\ toZero' \in BOOLEAN
      /\ \A p \in Owned' : p[1] = "main"
      /\ \/ /\ pc = "offsets" /\ pc' = "resize" /\ table' \in Tables /\ block' = ptr'[table']
            /\ Owned' = Owned /\ Lost' = Lost
         \/ /\ pc = "resize" /\ pc' \in {"resize failed", "realloc failed"}
            /\ UNCHANGED <<table, block, toZero>> /\ Lost' \subseteq Lost
         \/ /\ pc = "resize" /\ pc' = "realloc failed" /\ toZero
            /\ UNCHANGED <<table, block, toZero>> /\ Lost' \subseteq Lost \cup {block}
         \/ /\ pc = "resize" /\ pc' = "resized" /\ UNCHANGED <<table, block, toZero>>
            /\ Owned \subseteq Owned' /\ Lost' \subseteq Lost
         \/ /\ pc = "realloc failed" /\ pc' = "resize failed"
            /\ UNCHANGED <<table, block, toZero>> /\ Lost' \subseteq Lost
         \/ /\ pc = "resized" /\ pc' = "offsets" /\ UNCHANGED <<table, block, toZero>>
            /\ Owned' = Owned /\ Lost' = Lost
         \/ /\ pc' = "main err" /\ UNCHANGED <<block, toZero>>
            /\ Lost' \subseteq Lost
  <2>1. CASE CallUpdate
    <3>1. Stop("resize") /\ pc = "offsets"
      BY <2>1 DEF CallUpdate
    <3>2. \E t \in Tables, zero \in BOOLEAN : table' = t /\ block' = ptr[t] /\ toZero' = zero
      BY <2>1 DEF CallUpdate
    <3>3. ptr' = ptr
      BY <3>1 DEF Stop, heap
    <3> QED BY <1>2, <1>3, <3>1, <3>2, <3>3, StopSteps
  <2>2. CASE ResizeTable
    <3>1. pc = "resize" /\ table \in Tables /\ block = ptr[table] /\ toZero \in BOOLEAN
          /\ UNCHANGED <<table, block, toZero>>
      BY <1>2, <2>2 DEF Client, ResizeTable
    <3>2. table \in AllPlaces /\ table[1] = "main"
      BY <3>1, TablePlaces
    <3>3. CASE Stop("resize failed")
      BY <1>2, <1>3, <3>1, <3>3, StopSteps
    <3>4. CASE toZero /\ ReallocRefused(table) /\ Go("realloc failed")
      <4>1. Sound(AllPlaces)' /\ Owned' = Owned \ {table} /\ Lost' \subseteq Lost \cup {ptr[table]}
        BY <1>2, <3>2, <3>4, RefusedKeeps
      <4> QED BY <1>3, <3>1, <3>4, <4>1 DEF Go
    <3>5. CASE ReallocFailed(table) /\ Go("realloc failed")
      <4>1. Sound(AllPlaces)' /\ Owned' = Owned \ {table} /\ Lost' \subseteq Lost
        BY <1>2, <3>2, <3>5, FreeKeeps DEF ReallocFailed
      <4> QED BY <1>3, <3>1, <3>5, <4>1 DEF Go
    <3>6. CASE Reallocated(table) /\ Go("resized")
      <4>1. Sound(AllPlaces)' /\ Owned' = Owned \cup {table} /\ Lost' \subseteq Lost
        BY <1>2, <3>2, <3>6, ReallocatedKeeps
      <4> QED BY <1>3, <3>1, <3>2, <3>6, <4>1 DEF Go
    <3> QED BY <2>2, <3>3, <3>4, <3>5, <3>6 DEF ResizeTable
  <2>3. CASE ReallocReturns
    BY <1>2, <1>3, <2>3, StopSteps DEF ReallocReturns, Client
  <2>4. CASE UpdateHeaders
    <3>1. CASE Stop("offsets")
      BY <1>2, <1>3, <2>4, <3>1, StopSteps DEF UpdateHeaders, Client
    <3>2. CASE Free({Phdrs}) /\ Go("main err")
      <4>1. Sound(AllPlaces)' /\ Owned' = Owned \ {Phdrs} /\ Lost' \subseteq Lost
            /\ pc' = "main err" /\ call' = call
        BY <1>2, <1>4, <3>2, FreeSteps
      <4> QED BY <1>2, <1>3, <2>4, <4>1 DEF UpdateHeaders, Client
    <3> QED BY <2>4, <3>1, <3>2 DEF UpdateHeaders
  <2>5. CASE UpdateFails
    <3>1. table \in AllPlaces /\ UNCHANGED <<block, toZero>> /\ toZero \in BOOLEAN
      BY <1>2, <2>5, TablePlaces DEF Client, UpdateFails
    <3>2. CASE Free({table}) /\ Go("main err")
      <4>1. Sound(AllPlaces)' /\ Owned' = Owned \ {table} /\ Lost' \subseteq Lost
            /\ pc' = "main err" /\ call' = call
        BY <1>2, <3>1, <3>2, FreeSteps
      <4> QED BY <1>3, <3>1, <4>1
    <3>3. CASE UNCHANGED heap /\ Go("main err")
      BY <1>2, <1>3, <3>1, <3>3, SameHeap DEF Go
    <3> QED BY <2>5, <3>2, <3>3 DEF UpdateFails
  <2>6. CASE Done
    BY <1>2, <1>3, <2>6, StopSteps DEF Done, Client
  <2> QED BY <2>1, <2>2, <2>3, <2>4, <2>5, <2>6
<1>6. pc' \in {"resize", "resize failed", "realloc failed", "resized", "offsets", "main err"}
  BY <1>5
<1>7. ASSUME NEW p \in Owned' PROVE May(p)'
  <2>1. p[1] = "main"
    BY <1>5, <1>7
  <2> QED BY <1>6, <2>1 DEF May, ReadingFile
<1>8. Must'
  <2>1. pc' \in {"resize", "resized", "offsets"} => {Buf, Phdrs, Entries} \subseteq Owned'
    BY <1>2, <1>5 DEF Must
  <2> QED BY <1>6, <2>1 DEF Must, ReadingFile
<1>9. Client'
  <2>1. /\ call \in {"read", "sanity"} /\ Lost \subseteq (IF toZero /\ pc \in Refused THEN {block} ELSE {})
        /\ pc \in {"resize", "resized", "realloc failed", "resize failed"} => table \in Tables
    BY <1>2 DEF Client
  <2>2. /\ pc' \in {"resize", "resized", "realloc failed", "resize failed"} => table' \in Tables
        /\ pc' = "resize" => block' = ptr'[table']
    BY <1>5, <2>1
  <2>3. Lost' \subseteq (IF toZero' /\ pc' \in Refused THEN {block'} ELSE {})
    <3>1. CASE pc \in {"offsets", "resize", "resized"}
      <4>1. Lost = {}
        BY <2>1, <3>1
      <4>2. \/ Lost' \subseteq Lost
            \/ /\ toZero /\ pc' = "realloc failed" /\ UNCHANGED <<block, toZero>>
               /\ Lost' \subseteq Lost \cup {block}
        BY <1>5, <3>1
      <4>3. CASE Lost' \subseteq Lost
        BY <4>1, <4>3
      <4>4. CASE /\ toZero /\ pc' = "realloc failed" /\ UNCHANGED <<block, toZero>>
                 /\ Lost' \subseteq Lost \cup {block}
        BY <4>1, <4>4
      <4> QED BY <4>2, <4>3, <4>4
    <3>2. CASE pc \in {"realloc failed", "resize failed"}
      <4>1. /\ Lost' \subseteq Lost /\ pc' \in {"resize failed", "main err"}
            /\ UNCHANGED <<block, toZero>>
        BY <1>5, <3>2
      <4> QED BY <2>1, <3>2, <4>1
    <3> QED BY <1>1, <3>1, <3>2
  <2> QED BY <1>5, <1>6, <2>1, <2>2, <2>3 DEF Client
<1> QED BY <1>5, <1>6, <1>7, <1>8, <1>9, PlainStep

(* Nothing has been allocated yet.                                         *)
LEMMA OwnInit == ClientInit => OwnInv
<1> SUFFICES ASSUME ClientInit PROVE OwnInv
  OBVIOUS
<1>1. /\ ptr = [p \in AllPlaces |-> Null] /\ live = {} /\ fault = "none"
      /\ pc = "read file" /\ call = "read" /\ toZero = FALSE
  BY DEF ClientInit, Init, HeapInit
<1>2. Owned = {} /\ Lost = {}
  BY <1>1 DEF Owned, Held, Lost
<1>3. Sound(AllPlaces)
  BY <1>1, <1>2 DEF Sound
<1>4. Owners = AllPlaces /\ Sharing
  BY <1>1 DEF Owners, Sharing, Lent
<1>5. Must /\ Client
  BY <1>1, <1>2 DEF Must, ReadingFile, Client
<1> QED BY <1>2, <1>3, <1>4, <1>5 DEF OwnInv

(* No step breaks the invariant.                                           *)
LEMMA OwnStep == OwnInv /\ [ClientNext]_cvars => OwnInv'
<1> SUFFICES ASSUME OwnInv, [ClientNext]_cvars PROVE OwnInv'
  OBVIOUS
<1>1. CASE UNCHANGED cvars
  <2>1. UNCHANGED <<ptr, live, fault, pc, call, table, block, toZero>>
    BY <1>1 DEF cvars, vars
  <2>2. Owned' = Owned /\ Lost' = Lost /\ Owners' = Owners
    BY <2>1 DEF Owned, Held, Lost, Owners, Lent
  <2>3. Sound(Owners)'
    BY <2>1, <2>2 DEF OwnInv, Sound
  <2>4. \A p \in Owned' : May(p)'
    BY <2>1, <2>2, ZenonT(60) DEF OwnInv, May, DynMay, LocalMay, ReadingFile
  <2>5. Must' /\ Sharing'
    BY <2>1, <2>2, ZenonT(60) DEF OwnInv, Must, Sharing, ReadingFile, Lent
  <2>6. Client'
    BY <2>1, <2>2 DEF OwnInv, Client
  <2> QED BY <2>3, <2>4, <2>5, <2>6 DEF OwnInv
<1>2. CASE MainStep
  <2> USE <1>2
  <2>1. UNCHANGED <<table, block, toZero>> /\ Next
    BY DEF MainStep
  <2>2. CASE Read
    BY <2>1, <2>2, ReadFileKeeps, ErrLabelsKeep, ReadDoneKeeps DEF Read
  <2>3. CASE Parse
    BY <2>1, <2>3, ReadShdrsKeeps, ReadPhdrsKeeps, ReadDynTableKeeps, ChecksKeep, ReadHashKeeps,
       CheckHashSectionKeeps, ReadGnuArraysKeeps, ReadGnuChainKeeps, ErrLabelsKeep,
       ReadSymbolsKeeps, ValidateTablesKeeps, ReadShndxKeeps, DynsymDoneKeeps, DynDoneKeeps,
       TakeDataKeeps, ElfDoneKeeps
    DEF Parse
  <2>4. CASE Modify
    BY <2>1, <2>4, PrepareKeeps, PlanningKeeps, FinishingKeeps DEF Modify
  <2>5. CASE Serialize \/ WriteFile \/ DestroyElf
    BY <2>1, <2>5, SerializeKeeps, FinishingKeeps
  <2> QED BY <2>1, <2>2, <2>3, <2>4, <2>5 DEF Next
<1>3. CASE CallUpdate \/ ResizeTable \/ ReallocReturns \/ UpdateHeaders \/ UpdateFails \/ Done
  BY <1>3, ClientStepsKeep
<1> QED BY <1>1, <1>2, <1>3 DEF ClientNext

(* Every block has one owner, and only the block of a table that a client  *)
(* asked to resize to nothing has none.                                    *)
THEOREM OneOwner == ClientSpec => []OwnInv
BY OwnInit, OwnStep, PTL DEF ClientSpec

(* No block is freed twice and none is used after it is freed or through   *)
(* NULL, whichever allocation or check fails.                              *)
THEOREM NothingMisused == ClientSpec => []NoMisuse
<1>1. OwnInv => NoMisuse
  BY DEF OwnInv, Sound, NoMisuse
<1> QED BY <1>1, OneOwner, PTL

(* The arrays change hands without a leak, but for the table that is       *)
(* resized to nothing.                                                     *)
THEOREM NoLeaks == ClientSpec => []OnlyZeroLeaks
<1>1. OwnInv => OnlyZeroLeaks
  <2> SUFFICES ASSUME OwnInv, ~ toZero PROVE live \subseteq Pointed
    BY DEF OnlyZeroLeaks, NothingLost
  <2>1. Lost = {}
    BY DEF OwnInv, Client
  <2>2. DOMAIN ptr = AllPlaces /\ Null \notin live
    BY NullAssumption DEF OwnInv, Sound
  <2> QED BY <2>1, <2>2 DEF Lost, Pointed, Places
<1> QED BY <1>1, OneOwner, PTL

(* All memory is freed when the program or the client ends.                *)
THEOREM AllIsFreed == ClientSpec => []AllFreed
<1>1. OwnInv => AllFreed
  <2> SUFFICES ASSUME OwnInv, pc = "ended"
               PROVE  live = {} \/ (toZero /\ live = {block})
    BY DEF AllFreed, CleanExit
  <2>1. Owned = {}
    <3> SUFFICES ASSUME NEW p \in Owned PROVE FALSE
      OBVIOUS
    <3>1. May(p)
      BY DEF OwnInv
    <3> QED BY <3>1, OwnedFrames DEF May, DynMay, LocalMay, ReadingFile
  <2>2. \A p \in AllPlaces : ptr[p] = Null
    BY <2>1, OwnedPlaces
  <2>3. Null \notin live
    BY NullAssumption DEF OwnInv, Sound
  <2>4. live \subseteq Lost
    BY <2>2, <2>3 DEF Lost
  <2>5. Lost \subseteq live /\ (Lost = {} \/ (toZero /\ Lost \subseteq {block}))
    BY DEF OwnInv, Client, Lost
  <2> QED BY <2>4, <2>5
<1> QED BY <1>1, OneOwner, PTL

==============================================================================
