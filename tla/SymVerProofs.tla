---------------------------- MODULE SymVerProofs ----------------------------
(***************************************************************************)
(* What parse_ver guarantees about version indices and memory, proved for  *)
(* all files: lists of any length, linked in any way.                      *)
(***************************************************************************)
EXTENDS SymVerProperties, InductionLemmas

(* An entry that has been read and its auxiliary entries.                  *)
Ent == [at : Nat, auxs : Seq(Nat)]

(* The entry whose auxiliary list is read is a whole one: its link has a   *)
(* type when it is followed, steps later.                                  *)
TypeInv ==
  /\ file \in Files
  /\ TypeOK
  /\ pc \in {"aux", "next"} => Holds(off, list)

(* The remainder that masks the hidden flag.                               *)
LEMMA Masked ==
  ASSUME NEW v \in Nat
  PROVE  /\ Effective(v) \in 0 .. HiddenFlag - 1
         /\ v < HiddenFlag => Effective(v) = v
BY FlagAssumption DEF Effective

(* One of the two lists is replaced.                                       *)
LEMMA Updated ==
  ASSUME NEW S, NEW r \in [def : S, need : S], NEW l \in {"def", "need"}, NEW x \in S
  PROVE  /\ [r EXCEPT ![l] = x] \in [def : S, need : S]
         /\ [r EXCEPT ![l] = x][l] = x
         /\ \A k \in {"def", "need"} \ {l} : [r EXCEPT ![l] = x][k] = r[k]
<1>1. CASE l = "def" BY <1>1
<1>2. CASE l = "need" BY <1>2
<1> QED BY <1>1, <1>2

(* Links and indices of a structure in the file.                           *)
LEMMA Fields ==
  ASSUME TypeInv, NEW o, NEW kind, Holds(o, kind)
  PROVE  /\ file.at[o].next \in Nat
         /\ kind \in {"def", "need"} => file.at[o].aux \in Nat
         /\ kind \in {"def", "needaux"} => file.at[o].ndx \in Nat
BY FilesAssumption DEF TypeInv, Holds

-----------------------------------------------------------------------------
(* Types                                                                   *)

(* Every error path of parse_ver ends with a file that is refused, and     *)
(* keeps the types.                                                        *)
LEMMA RefuseTyped ==
  ASSUME TypeInv, Refuse, oom' \in BOOLEAN
  PROVE  TypeInv'
BY DEF TypeInv, TypeOK, Refuse, Goto, cursor, Done

(* A failing calloc takes an error path.                                   *)
LEMMA OutOfMemoryTyped ==
  ASSUME TypeInv, OutOfMemory
  PROVE  TypeInv'
BY RefuseTyped DEF OutOfMemory

(* parse_ver goes from one list to the next.                               *)
LEMMA ListDoneTyped ==
  ASSUME TypeInv, ListDone, UNCHANGED heap, pc \notin Done
  PROVE  TypeInv'
BY DEF TypeInv, TypeOK, ListDone, Goto, Done

(* read_verdef_entries and read_verneed_entries set the offset to the      *)
(* table's.                                                                *)
LEMMA StartTyped ==
  ASSUME TypeInv, pc = "start", NEW arrays \in SUBSET ({"def", "need", "needed"} \X Nat),
         StartAt(arrays)
  PROVE  TypeInv'
<1>1. Table.off \in Nat
  BY FilesAssumption DEF TypeInv, TypeOK, Table
<1> QED BY <1>1 DEF TypeInv, TypeOK, StartAt, Goto, Done

(* An entry that lies in the file leads to an auxiliary list at an offset  *)
(* of the file.                                                            *)
LEMMA EntryReadTyped ==
  ASSUME TypeInv, pc = "entry", Holds(off, list), EntryRead,
         claimed' \subseteq 0 .. HiddenFlag - 1
  PROVE  TypeInv'
<1>1. Entry.aux \in Nat
  BY Fields DEF Entry, TypeInv, TypeOK
<1>2. off \in Nat /\ Size \in Nat BY SizeAssumption DEF TypeInv, TypeOK, Size
<1>3. Higher(off + Size) \in Nat BY <1>2 DEF Higher, TypeInv, TypeOK
<1>4. off + Entry.aux \in Nat BY <1>1, <1>2
<1>5. EntryLocals \subseteq {"def", "need", "needed"} \X Nat
  BY DEF EntryLocals, TypeInv, TypeOK
<1>6. heap' \subseteq {"def", "need", "needed"} \X Nat
  BY <1>5 DEF EntryRead, TypeInv, TypeOK
<1> QED BY <1>3, <1>4, <1>6 DEF TypeInv, TypeOK, EntryRead, Goto, Done, Holds

(* So does the link of an auxiliary entry.                                 *)
LEMMA AuxReadTyped ==
  ASSUME TypeInv, pc = "aux", NEW kind, Holds(auxOff, kind),
         NEW size \in Nat, AuxRead(size), claimed' \subseteq 0 .. HiddenFlag - 1
  PROVE  TypeInv'
<1>0. file.at[auxOff].next \in Nat BY Fields
<1>1. auxOff' \in Nat BY <1>0, SMTT(30) DEF AuxRead, TypeInv, TypeOK
<1>2. maxEnd' \in Nat BY DEF AuxRead, Higher, TypeInv, TypeOK
<1>3. auxs' \in Seq(Nat) BY DEF AuxRead, TypeInv, TypeOK
<1> QED BY <1>1, <1>2, <1>3 DEF TypeInv, TypeOK, AuxRead, Goto, Done, Holds

(* The finished entry joins its list.                                      *)
LEMMA EntryDoneTyped ==
  ASSUME TypeInv, pc = "next", EntryDone,
         base' \subseteq 1 .. Len(read'.def), heap' \subseteq heap
  PROVE  TypeInv'
<1>0. Entry.next \in Nat BY Fields DEF TypeInv, Entry
<1>1. off' \in Nat BY <1>0 DEF EntryDone, TypeInv, TypeOK
<1>2. [at |-> off, auxs |-> auxs] \in Ent BY DEF TypeInv, TypeOK, Ent
<1>3. read' \in [def : Seq(Ent), need : Seq(Ent)]
  <2>1. read \in [def : Seq(Ent), need : Seq(Ent)] BY DEF TypeInv, TypeOK, Ent
  <2>2. list \in {"def", "need"} BY DEF TypeInv, TypeOK
  <2>3. Append(read[list], [at |-> off, auxs |-> auxs]) \in Seq(Ent)
    BY <1>2, <2>1, <2>2
  <2> QED BY <2>1, <2>2, <2>3, Updated DEF EntryDone
<1> QED BY <1>1, <1>3 DEF TypeInv, TypeOK, EntryDone, Goto, Done, Ent

(* The list that is read grows by one; the other stays.                    *)
LEMMA ReadGrows ==
  ASSUME TypeInv, EntryDone
  PROVE  LET e == [at |-> off, auxs |-> auxs] IN
         /\ read[list] \in Seq(Ent) /\ e \in Ent
         /\ read'[list] = Append(read[list], e)
         /\ \A l \in {"def", "need"} \ {list} : read'[l] = read[l]
         /\ list = "def" => Len(read'.def) = Len(read.def) + 1 /\ Len(read.def) \in Nat
<1>1. [at |-> off, auxs |-> auxs] \in Ent BY DEF TypeInv, TypeOK, Ent
<1>2. read \in [def : Seq(Ent), need : Seq(Ent)] /\ list \in {"def", "need"}
  BY DEF TypeInv, TypeOK, Ent
<1>3. read[list] \in Seq(Ent) /\ Append(read[list], [at |-> off, auxs |-> auxs]) \in Seq(Ent)
  BY <1>1, <1>2
<1>4. /\ read'[list] = Append(read[list], [at |-> off, auxs |-> auxs])
      /\ \A l \in {"def", "need"} \ {list} : read'[l] = read[l]
  BY <1>2, <1>3, Updated DEF EntryDone
<1> QED BY <1>1, <1>3, <1>4

(* claim_version_index marks a bit inside the bitmap, whatever the index.  *)
LEMMA ClaimTyped ==
  ASSUME TypeInv, NEW v \in Nat
  PROVE  claimed \cup {Effective(v)} \subseteq 0 .. HiddenFlag - 1
BY Masked DEF TypeInv, TypeOK

(* The steps of parse_verdef keep the types.                               *)
LEMMA VerdefSteps ==
  ASSUME TypeInv, StartVerdef \/ ReadVerdef \/ ReadVerdaux \/ NextVerdef \/ CheckVerdef
  PROVE  TypeInv'
<1>0. oom \in BOOLEAN /\ (UNCHANGED oom => oom' \in BOOLEAN) BY DEF TypeInv, TypeOK
<1>1. CASE StartVerdef
  <2>1. CASE OutOfMemory BY <2>1, OutOfMemoryTyped
  <2>2. CASE Refuse /\ UNCHANGED oom BY <1>0, <2>2, RefuseTyped
  <2>3. CASE StartAt({<<"def", 0>>}) /\ pc = "start" BY <2>3, StartTyped
  <2> QED BY <1>1, <2>1, <2>2, <2>3 DEF StartVerdef
<1>2. CASE ReadVerdef
  <2>1. CASE OutOfMemory BY <2>1, OutOfMemoryTyped
  <2>2. CASE Refuse /\ UNCHANGED oom BY <1>0, <2>2, RefuseTyped
  <2>3. CASE VerdefOk /\ EntryRead /\ claimed' = claimed \cup {Effective(Entry.ndx)}
    <3>1. list = "def" /\ Holds(off, list) /\ pc = "entry"
      BY <1>2, <2>3 DEF VerdefOk, ReadVerdef
    <3>2. Entry.ndx \in Nat BY <3>1, Fields DEF Entry
    <3>3. claimed' \subseteq 0 .. HiddenFlag - 1 BY <2>3, <3>2, ClaimTyped
    <3> QED BY <2>3, <3>1, <3>3, EntryReadTyped
  <2> QED BY <1>2, <2>1, <2>2, <2>3 DEF ReadVerdef
<1>3. CASE ReadVerdaux
  <2>1. CASE Refuse /\ UNCHANGED oom BY <1>0, <2>1, RefuseTyped
  <2>2. CASE VerdauxOk /\ AuxRead(DefAuxSize) /\ UNCHANGED claimed
    <3>1. Holds(auxOff, "defaux") /\ pc = "aux" BY <1>3, <2>2 DEF VerdauxOk, ReadVerdaux
    <3>2. claimed' \subseteq 0 .. HiddenFlag - 1 BY <2>2 DEF TypeInv, TypeOK
    <3>3. DefAuxSize \in Nat BY SizeAssumption
    <3> QED BY <2>2, <3>1, <3>2, <3>3, AuxReadTyped
  <2> QED BY <1>3, <2>1, <2>2 DEF ReadVerdaux
<1>4. CASE NextVerdef
  <2>1. CASE Refuse /\ UNCHANGED oom BY <1>0, <2>1, RefuseTyped
  <2>2. CASE /\ EntryDone /\ UNCHANGED heap
             /\ base' \in {{Len(read.def) + 1}, base}
    <3>1. pc = "next" /\ list = "def" BY <1>4 DEF NextVerdef
    <3>2. Len(read'.def) = Len(read.def) + 1 /\ Len(read.def) \in Nat
      BY <2>2, <3>1, ReadGrows
    <3>3. base' \subseteq 1 .. Len(read'.def)
      BY <2>2, <3>2 DEF TypeInv, TypeOK
    <3> QED BY <2>2, <3>1, <3>3, EntryDoneTyped
  <2> QED BY <1>4, <2>1, <2>2 DEF NextVerdef
<1>5. CASE CheckVerdef
  <2>1. pc = "check" BY <1>5 DEF CheckVerdef, Check
  <2>2. CASE OutOfMemory BY <2>2, OutOfMemoryTyped
  <2>3. CASE Refuse /\ UNCHANGED oom BY <1>0, <2>3, RefuseTyped
  <2>4. CASE ListDone /\ UNCHANGED heap BY <2>1, <2>4, ListDoneTyped DEF Done
  <2> QED BY <1>5, <2>2, <2>3, <2>4 DEF CheckVerdef, Check
<1> QED BY <1>1, <1>2, <1>3, <1>4, <1>5

(* The steps of parse_verneed keep the types.                              *)
LEMMA VerneedSteps ==
  ASSUME TypeInv, StartVerneed \/ ReadVerneed \/ ReadVernaux \/ NextVerneed \/ CheckVerneed
  PROVE  TypeInv'
<1>0. oom \in BOOLEAN /\ (UNCHANGED oom => oom' \in BOOLEAN) BY DEF TypeInv, TypeOK
<1>1. CASE StartVerneed
  <2>1. CASE OutOfMemory BY <2>1, OutOfMemoryTyped
  <2>2. CASE Refuse /\ UNCHANGED oom BY <1>0, <2>2, RefuseTyped
  <2>3. CASE StartAt({<<"need", 0>>, <<"needed", 0>>}) /\ pc = "start"
    BY <2>3, StartTyped
  <2>4. CASE /\ Goto("check") /\ off' = Table.off /\ maxEnd' = Table.off
             /\ UNCHANGED <<file, list, auxOff, auxs, read, base, claimed, heap, ret, oom>>
    <3>1. Table.off \in Nat BY FilesAssumption DEF TypeInv, TypeOK, Table
    <3>2. pc = "start" BY <1>1 DEF StartVerneed
    <3> QED BY <2>4, <3>1, <3>2 DEF TypeInv, TypeOK, Goto, Done
  <2> QED BY <1>1, <2>1, <2>2, <2>3, <2>4 DEF StartVerneed
<1>2. CASE ReadVerneed
  <2>1. CASE OutOfMemory BY <2>1, OutOfMemoryTyped
  <2>2. CASE Refuse /\ UNCHANGED oom BY <1>0, <2>2, RefuseTyped
  <2>3. CASE VerneedOk /\ EntryRead /\ UNCHANGED claimed
    <3>1. list = "need" /\ Holds(off, list) /\ pc = "entry"
      BY <1>2, <2>3 DEF VerneedOk, ReadVerneed
    <3>2. claimed' \subseteq 0 .. HiddenFlag - 1 BY <2>3 DEF TypeInv, TypeOK
    <3> QED BY <2>3, <3>1, <3>2, EntryReadTyped
  <2> QED BY <1>2, <2>1, <2>2, <2>3 DEF ReadVerneed
<1>3. CASE ReadVernaux
  <2>1. CASE Refuse /\ UNCHANGED oom BY <1>0, <2>1, RefuseTyped
  <2>2. CASE VernauxOk /\ AuxRead(NeedAuxSize)
    <3>1. Holds(auxOff, "needaux") /\ pc = "aux" BY <1>3, <2>2 DEF VernauxOk, ReadVernaux
    <3>2. file.at[auxOff].ndx \in Nat BY <3>1, Fields
    <3>3. claimed' \in {claimed, claimed \cup {Effective(file.at[auxOff].ndx)}}
      BY <1>3, <2>2 DEF ReadVernaux, AuxRead, Refuse
    <3>4. claimed' \subseteq 0 .. HiddenFlag - 1
      BY <3>2, <3>3, ClaimTyped DEF TypeInv, TypeOK
    <3>5. NeedAuxSize \in Nat BY SizeAssumption
    <3> QED BY <2>2, <3>1, <3>4, <3>5, AuxReadTyped
  <2> QED BY <1>3, <2>1, <2>2 DEF ReadVernaux
<1>4. CASE NextVerneed
  <2>1. CASE Refuse /\ UNCHANGED oom BY <1>0, <2>1, RefuseTyped
  <2>2. CASE EntryDone /\ UNCHANGED base /\ heap' \subseteq heap
    <3>1. pc = "next" /\ list = "need" BY <1>4 DEF NextVerneed
    <3>2. read'.def = read.def BY <2>2, <3>1, ReadGrows
    <3>3. base' \subseteq 1 .. Len(read'.def) BY <2>2, <3>2 DEF TypeInv, TypeOK
    <3> QED BY <2>2, <3>1, <3>3, EntryDoneTyped
  <2> QED BY <1>4, <2>1, <2>2 DEF NextVerneed
<1>5. CASE CheckVerneed
  <2>1. pc = "check" BY <1>5 DEF CheckVerneed, Check
  <2>2. CASE OutOfMemory BY <2>2, OutOfMemoryTyped
  <2>3. CASE Refuse /\ UNCHANGED oom BY <1>0, <2>3, RefuseTyped
  <2>4. CASE ListDone /\ UNCHANGED heap BY <2>1, <2>4, ListDoneTyped DEF Done
  <2> QED BY <1>5, <2>2, <2>3, <2>4 DEF CheckVerneed, Check
<1> QED BY <1>1, <1>2, <1>3, <1>4, <1>5

(* Every step of parse_ver keeps the types.                                *)
LEMMA TypeStep ==
  ASSUME TypeInv, [Next]_vars
  PROVE  TypeInv'
<1>0. oom \in BOOLEAN /\ (UNCHANGED oom => oom' \in BOOLEAN) BY DEF TypeInv, TypeOK
<1>1. CASE FindEntries
  <2>1. CASE Refuse BY <1>0, <1>1, <2>1, RefuseTyped DEF FindEntries
  <2>2. CASE /\ Goto("absent") /\ ret' = 1
             /\ UNCHANGED <<file, cursor, heap, oom>>
    BY <2>2 DEF TypeInv, TypeOK, Goto, cursor, Done
  <2>3. CASE Goto("start") /\ pc = "find" /\ UNCHANGED <<file, cursor, heap, ret, oom>>
    BY <2>3 DEF TypeInv, TypeOK, Goto, cursor, Done
  <2> QED BY <1>1, <2>1, <2>2, <2>3 DEF FindEntries
<1>2. CASE SkipList
  BY <1>2, ListDoneTyped DEF SkipList, Done
<1>3. CASE Return
  BY <1>3 DEF Return, TypeInv, TypeOK, Goto, cursor, Done
<1>4. CASE UNCHANGED vars
  BY <1>4 DEF vars, TypeInv, TypeOK, Holds, Done
<1> QED BY <1>1, <1>2, <1>3, <1>4, VerdefSteps, VerneedSteps DEF Next

(* parse_ver starts with empty lists.                                      *)
LEMMA TypesInitially == Init => TypeInv
<1> SUFFICES ASSUME Init PROVE TypeInv OBVIOUS
<1>1. <<>> \in Seq(Nat) /\ <<>> \in Seq([at : Nat, auxs : Seq(Nat)]) OBVIOUS
<1>2. /\ auxs \in Seq(Nat)
      /\ read \in [def  : Seq([at : Nat, auxs : Seq(Nat)]),
                   need : Seq([at : Nat, auxs : Seq(Nat)])]
  BY <1>1 DEF Init
<1> QED BY <1>2 DEF Init, TypeInv, TypeOK, Done

(* The types hold in every reachable state, for every file.                *)
THEOREM TypesHold == Spec => []TypeInv
<1>1. TypeInv /\ [Next]_vars => TypeInv' BY TypeStep
<1> QED BY <1>1, TypesInitially, PTL DEF Spec

(* In particular, no claimed index has the hidden flag, the index of the   *)
(* base definition is one of a definition, and parse_ver returns what its  *)
(* callers expect when it is done.                                         *)
THEOREM TypeCorrect == Spec => []TypeOK
<1>1. TypeInv => TypeOK BY DEF TypeInv
<1> QED BY <1>1, TypesHold, PTL

-----------------------------------------------------------------------------
(* Version indices                                                         *)

(* What the parser returns.                                                *)
Read == [def : Seq(Ent), need : Seq(Ent)]

(* The version index that definition i defines.                            *)
DefIndex(f, r, i) == Effective(f.at[r.def[i].at].ndx)

(* The version index of dependency k of entry i.                           *)
NeedIndex(f, r, i, k) == Effective(f.at[r.need[i].auxs[k]].ndx)

(* A dependency with an index; an index of 0 is none.                      *)
Live(f, r, i, k) ==
  /\ i \in 1 .. Len(r.need) /\ k \in 1 .. Len(r.need[i].auxs)
  /\ f.at[r.need[i].auxs[k]].ndx # 0

(* All indices in r are claimed in c, and no two are the same.             *)
Sound(f, r, c) ==
  /\ \A i \in 1 .. Len(r.def) : DefIndex(f, r, i) \in c \ {0}
  /\ \A i, k : Live(f, r, i, k) => NeedIndex(f, r, i, k) \in c \ {0}
  /\ \A i, j \in 1 .. Len(r.def) : i # j => DefIndex(f, r, i) # DefIndex(f, r, j)
  /\ \A i, k, j, l : Live(f, r, i, k) /\ Live(f, r, j, l) /\ (i # j \/ k # l)
                      => NeedIndex(f, r, i, k) # NeedIndex(f, r, j, l)
  /\ \A i \in 1 .. Len(r.def) : \A j, l : Live(f, r, j, l)
                      => DefIndex(f, r, i) # NeedIndex(f, r, j, l)

(* List l with an entry at its end.                                        *)
With(r, l, e) == [r EXCEPT ![l] = Append(@, e)]

(* What has been read, the entry in progress included: its index is        *)
(* claimed before it is known to be good.                                  *)
Seen == IF pc \in {"aux", "next"}
        THEN With(read, list, [at |-> off, auxs |-> auxs])
        ELSE read

(* A definition with an unclaimed index is added.                          *)
LEMMA AddDef ==
  ASSUME NEW f, NEW r \in Read, NEW s \in Read, NEW c, Sound(f, r, c), NEW e \in Ent,
         s.def = Append(r.def, e), s.need = r.need,
         Effective(f.at[e.at].ndx) \notin c, Effective(f.at[e.at].ndx) # 0
  PROVE  Sound(f, s, c \cup {Effective(f.at[e.at].ndx)})
<1>1. /\ Len(r.def) \in Nat /\ Len(s.def) = Len(r.def) + 1
      /\ \A i \in 1 .. Len(r.def) : s.def[i] = r.def[i]
      /\ s.def[Len(r.def) + 1] = e
  BY DEF Read
<1>2. /\ \A i \in 1 .. Len(r.def) : DefIndex(f, s, i) = DefIndex(f, r, i)
      /\ DefIndex(f, s, Len(r.def) + 1) = Effective(f.at[e.at].ndx)
  BY <1>1 DEF DefIndex
<1>3. \A i, k : /\ Live(f, s, i, k) <=> Live(f, r, i, k)
               /\ NeedIndex(f, s, i, k) = NeedIndex(f, r, i, k)
  BY DEF Live, NeedIndex
<1>4. \A i \in 1 .. Len(s.def) : i \in 1 .. Len(r.def) \/ i = Len(r.def) + 1
  BY <1>1
<1> QED BY <1>1, <1>2, <1>3, <1>4 DEF Sound

(* A change that adds no index keeps them apart.                           *)
LEMMA NoNewIndex ==
  ASSUME NEW f, NEW r, NEW s, NEW c, Sound(f, r, c),
         \A i \in 1 .. Len(s.def) : i \in 1 .. Len(r.def) /\ s.def[i].at = r.def[i].at,
         \A i, k : Live(f, s, i, k) =>
           Live(f, r, i, k) /\ NeedIndex(f, s, i, k) = NeedIndex(f, r, i, k)
  PROVE  Sound(f, s, c)
<1>1. \A i \in 1 .. Len(s.def) : DefIndex(f, s, i) = DefIndex(f, r, i)
  BY DEF DefIndex
<1> QED BY <1>1 DEF Sound

(* An auxiliary entry o joins the dependency n.                            *)
LEMMA AddNeedAux ==
  ASSUME NEW f, NEW r, NEW s, NEW c, Sound(f, r, c), NEW n, NEW m,
         s.def = r.def,
         Live(f, s, n, m), ~Live(f, r, n, m),
         \A i, k : Live(f, s, i, k) /\ (i # n \/ k # m) =>
           Live(f, r, i, k) /\ NeedIndex(f, s, i, k) = NeedIndex(f, r, i, k),
         NeedIndex(f, s, n, m) \notin c, NeedIndex(f, s, n, m) # 0
  PROVE  Sound(f, s, c \cup {NeedIndex(f, s, n, m)})
<1>1. \A i : DefIndex(f, s, i) = DefIndex(f, r, i) BY DEF DefIndex
<1>2. \A i, k : Live(f, s, i, k) =>
        \/ i = n /\ k = m
        \/ Live(f, r, i, k) /\ NeedIndex(f, s, i, k) = NeedIndex(f, r, i, k)
  OBVIOUS
<1> QED BY <1>1, <1>2 DEF Sound

(* A list gets longer, the other stays.                                    *)
LEMMA ListWith ==
  ASSUME NEW r \in Read, NEW l \in {"def", "need"}, NEW e \in Ent
  PROVE  /\ With(r, l, e) \in Read
         /\ l = "def" => With(r, l, e).def = Append(r.def, e) /\ With(r, l, e).need = r.need
         /\ l = "need" => With(r, l, e).need = Append(r.need, e) /\ With(r, l, e).def = r.def
<1>1. r[l] \in Seq(Ent) /\ Append(r[l], e) \in Seq(Ent) BY DEF Read
<1> QED BY <1>1, Updated DEF Read, With

(* The dependencies of s are those of r and those of the entry e.          *)
NeedExtended(f, r, s, e) ==
  /\ Len(r.need) + 1 \notin 1 .. Len(r.need)
  /\ \A i, k : i # Len(r.need) + 1 =>
       /\ Live(f, s, i, k) <=> Live(f, r, i, k)
       /\ Live(f, r, i, k) => NeedIndex(f, s, i, k) = NeedIndex(f, r, i, k)
  /\ \A k : /\ Live(f, s, Len(r.need) + 1, k)
                <=> k \in 1 .. Len(e.auxs) /\ f.at[e.auxs[k]].ndx # 0
            /\ NeedIndex(f, s, Len(r.need) + 1, k) = Effective(f.at[e.auxs[k]].ndx)

(* Appending an entry to the dependencies adds its versions and no others. *)
LEMMA NeedWith ==
  ASSUME NEW f, NEW r \in Read, NEW s \in Read, NEW e \in Ent,
         s.need = Append(r.need, e)
  PROVE  NeedExtended(f, r, s, e)
<1>1. /\ Len(r.need) \in Nat /\ Len(s.need) = Len(r.need) + 1
      /\ \A i \in 1 .. Len(r.need) : s.need[i] = r.need[i]
      /\ s.need[Len(r.need) + 1] = e
  BY DEF Read
<1>2. \A i : i # Len(r.need) + 1 => (i \in 1 .. Len(s.need) <=> i \in 1 .. Len(r.need))
  BY <1>1
<1>3. \A i, k : i # Len(r.need) + 1 => (Live(f, s, i, k) <=> Live(f, r, i, k))
  BY <1>1, <1>2 DEF Live
<1>4. \A i, k : Live(f, r, i, k) => NeedIndex(f, s, i, k) = NeedIndex(f, r, i, k)
  BY <1>1 DEF Live, NeedIndex
<1>5. \A k : /\ Live(f, s, Len(r.need) + 1, k)
                  <=> k \in 1 .. Len(e.auxs) /\ f.at[e.auxs[k]].ndx # 0
            /\ NeedIndex(f, s, Len(r.need) + 1, k) = Effective(f.at[e.auxs[k]].ndx)
  BY <1>1 DEF Live, NeedIndex
<1> QED BY <1>1, <1>3, <1>4, <1>5 DEF NeedExtended

(* The entry in progress can be dropped.                                   *)
LEMMA ReadSound ==
  ASSUME TypeInv, Sound(file, Seen, claimed)
  PROVE  Sound(file, read, claimed)
<1>1. CASE pc \notin {"aux", "next"} BY <1>1 DEF Seen
<1>2. CASE pc \in {"aux", "next"}
  <2> DEFINE e == [at |-> off, auxs |-> auxs]
  <2>1. /\ e \in Ent /\ read \in Read /\ list \in {"def", "need"}
    BY DEF TypeInv, TypeOK, Ent, Read
  <2>2. Seen = With(read, list, e) BY <1>2 DEF Seen
  <2> HIDE DEF e
  <2>5. /\ Seen \in Read
        /\ list = "def" => Seen.def = Append(read.def, e) /\ Seen.need = read.need
        /\ list = "need" => Seen.need = Append(read.need, e) /\ Seen.def = read.def
    BY <2>1, <2>2, ListWith
  <2>3. CASE list = "def"
    <3>1. Seen.def = Append(read.def, e) /\ Seen.need = read.need
      BY <2>3, <2>5
    <3>2. \A i \in 1 .. Len(read.def) : i \in 1 .. Len(Seen.def) /\ read.def[i] = Seen.def[i]
      BY <2>1, <3>1 DEF Read
    <3>3. \A i, k : Live(file, read, i, k) =>
            Live(file, Seen, i, k) /\ NeedIndex(file, read, i, k) = NeedIndex(file, Seen, i, k)
      BY <3>1 DEF Live, NeedIndex
    <3> QED BY <3>2, <3>3, NoNewIndex
  <2>4. CASE list = "need"
    <3>1. Seen.need = Append(read.need, e) /\ Seen.def = read.def /\ Seen \in Read
      BY <2>4, <2>5
    <3>2. \A i, k : Live(file, read, i, k) =>
            Live(file, Seen, i, k) /\ NeedIndex(file, read, i, k) = NeedIndex(file, Seen, i, k)
      <4>1. \A i, k : Live(file, read, i, k) => i # Len(read.need) + 1
        BY <2>1 DEF Live, Read
      <4>0. e \in Ent /\ read \in Read /\ Seen \in Read /\ Seen.need = Append(read.need, e)
        BY <2>1, <3>1
      <4>2. NeedExtended(file, read, Seen, e) BY <4>0, NeedWith
      <4> QED BY <4>1, <4>2 DEF NeedExtended
    <3> QED BY <3>1, <3>2, NoNewIndex
  <2> QED BY <2>1, <2>3, <2>4
<1> QED BY <1>1, <1>2

(* The inductive invariant: every index read so far is claimed, and by one *)
(* entry only.                                                             *)
IndexInv == TypeInv /\ Sound(file, Seen, claimed)

(* An error path claims nothing and drops the entry in progress.           *)
LEMMA RefuseSound ==
  ASSUME IndexInv, Refuse
  PROVE  Sound(file', Seen', claimed')
<1>1. Sound(file, read, claimed) BY ReadSound DEF IndexInv
<1>2. /\ file' = file /\ read' = read /\ claimed' = claimed
      /\ Seen' = read'
  BY DEF Refuse, Goto, cursor, Seen
<1> QED BY <1>1, <1>2

(* Between the entries nothing changes.                                    *)
LEMMA OutsideSound ==
  ASSUME IndexInv, UNCHANGED <<file, read, claimed>>,
         pc \notin {"aux", "next"}, pc' \notin {"aux", "next"}
  PROVE  Sound(file', Seen', claimed')
<1>1. Seen = read /\ Seen' = read' BY DEF Seen
<1> QED BY <1>1 DEF IndexInv

(* The entry in progress is finished.                                      *)
LEMMA FinishSound ==
  ASSUME IndexInv, pc = "next", EntryDone
  PROVE  Sound(file', Seen', claimed')
<1>1. UNCHANGED <<file, claimed>> /\ Seen' = read' BY DEF EntryDone, Goto, Seen
<1>2. read' = Seen BY DEF EntryDone, Seen, With
<1> QED BY <1>1, <1>2 DEF IndexInv

(* The sets and lists that the steps below speak of.                       *)
LEMMA ReadTypes ==
  ASSUME TypeInv
  PROVE  /\ read \in Read /\ list \in {"def", "need"}
         /\ [at |-> off, auxs |-> auxs] \in Ent
         /\ [at |-> off, auxs |-> <<>>] \in Ent
         /\ [at |-> off, auxs |-> Append(auxs, auxOff)] \in Ent
BY DEF TypeInv, TypeOK, Ent, Read

(* read_validate_verdef_entry claims an index that is not 0 and not        *)
(* claimed.                                                                *)
LEMMA ReadVerdefSound ==
  ASSUME IndexInv, VerdefOk, EntryRead, claimed' = claimed \cup {Effective(Entry.ndx)},
         pc = "entry", list = "def"
  PROVE  Sound(file', Seen', claimed')
<1> DEFINE e == [at |-> off, auxs |-> <<>>]
<1>1. e \in Ent /\ e.at = off /\ read \in Read BY ReadTypes DEF IndexInv
<1>2. /\ file' = file /\ Seen = read
      /\ Seen' = With(read, "def", e)
  BY DEF EntryRead, Goto, Seen
<1>3. Effective(Entry.ndx) = Effective(file.at[e.at].ndx) BY <1>1 DEF Entry
<1> HIDE DEF e
<1>4. With(read, "def", e) \in Read /\ With(read, "def", e).def = Append(read.def, e)
      /\ With(read, "def", e).need = read.need
  BY <1>1, ListWith
<1>5. /\ Effective(file.at[e.at].ndx) \notin claimed
      /\ Effective(file.at[e.at].ndx) # 0
  <2>1. Holds(off, "def") /\ Entry.ndx # 0 /\ Entry.ndx < HiddenFlag /\ Unclaimed(Entry.ndx)
    BY DEF VerdefOk
  <2>2. Entry.ndx \in Nat BY <2>1, Fields DEF IndexInv, Entry
  <2>3. Effective(Entry.ndx) = Entry.ndx BY <2>1, <2>2, Masked
  <2> QED BY <1>3, <2>1, <2>3 DEF Unclaimed
<1>6. Sound(file, read, claimed) BY <1>2 DEF IndexInv
<1>7. Sound(file, With(read, "def", e), claimed \cup {Effective(file.at[e.at].ndx)})
  BY <1>1, <1>4, <1>5, <1>6, AddDef
<1> QED BY <1>2, <1>3, <1>7

(* read_validate_verneed_entry claims nothing: its entry has no versions   *)
(* yet.                                                                    *)
LEMMA ReadVerneedSound ==
  ASSUME IndexInv, EntryRead, claimed' = claimed, pc = "entry", list = "need"
  PROVE  Sound(file', Seen', claimed')
<1> DEFINE e == [at |-> off, auxs |-> <<>>]
<1>1. e \in Ent /\ e.auxs = <<>> /\ read \in Read BY ReadTypes DEF IndexInv
<1>2. file' = file /\ Seen = read /\ Seen' = With(read, "need", e)
  BY DEF EntryRead, Goto, Seen
<1> HIDE DEF e
<1>3. /\ With(read, "need", e) \in Read
      /\ With(read, "need", e).need = Append(read.need, e)
      /\ With(read, "need", e).def = read.def
  BY <1>1, ListWith
<1>4. NeedExtended(file, read, With(read, "need", e), e) BY <1>1, <1>3, NeedWith
<1>5. \A i, k : Live(file, With(read, "need", e), i, k) =>
        /\ Live(file, read, i, k)
        /\ NeedIndex(file, With(read, "need", e), i, k) = NeedIndex(file, read, i, k)
  BY <1>1, <1>4 DEF NeedExtended
<1>6. Sound(file, read, claimed) BY <1>2 DEF IndexInv
<1>7. Sound(file, With(read, "need", e), claimed) BY <1>3, <1>5, <1>6, NoNewIndex
<1> QED BY <1>2, <1>7

(* read_verdaux_list claims nothing: the index belongs to the definition.  *)
LEMMA ReadVerdauxSound ==
  ASSUME IndexInv, AuxRead(DefAuxSize), claimed' = claimed, pc = "aux", list = "def"
  PROVE  Sound(file', Seen', claimed')
<1> DEFINE e == [at |-> off, auxs |-> auxs]
           d == [at |-> off, auxs |-> Append(auxs, auxOff)]
<1>1. e \in Ent /\ d \in Ent /\ e.at = d.at /\ read \in Read BY ReadTypes DEF IndexInv
<1>2. file' = file /\ Seen = With(read, "def", e) /\ Seen' = With(read, "def", d)
  BY DEF AuxRead, Goto, Seen
<1> HIDE DEF e, d
<1>3. /\ With(read, "def", e).def = Append(read.def, e)
      /\ With(read, "def", d).def = Append(read.def, d)
      /\ With(read, "def", e).need = read.need
      /\ With(read, "def", d).need = read.need
  BY <1>1, ListWith
<1>4. \A i \in 1 .. Len(With(read, "def", d).def) :
        /\ i \in 1 .. Len(With(read, "def", e).def)
        /\ With(read, "def", d).def[i].at = With(read, "def", e).def[i].at
  BY <1>1, <1>3 DEF Read
<1>5. \A i, k : Live(file, With(read, "def", d), i, k) =>
        /\ Live(file, With(read, "def", e), i, k)
        /\ NeedIndex(file, With(read, "def", d), i, k)
             = NeedIndex(file, With(read, "def", e), i, k)
  BY <1>3 DEF Live, NeedIndex
<1>6. Sound(file, With(read, "def", e), claimed) BY <1>2 DEF IndexInv
<1>7. Sound(file, With(read, "def", d), claimed) BY <1>4, <1>5, <1>6, NoNewIndex
<1> QED BY <1>2, <1>7

(* read_validate_vernaux_entry claims an index, or lets 0 pass, which is   *)
(* none.                                                                   *)
LEMMA ReadVernauxSound ==
  ASSUME IndexInv, VernauxOk, AuxRead(NeedAuxSize), pc = "aux", list = "need",
         claimed' = claimed \cup (IF file.at[auxOff].ndx = 0 THEN {}
                                  ELSE {Effective(file.at[auxOff].ndx)})
  PROVE  Sound(file', Seen', claimed')
<1> DEFINE e == [at |-> off, auxs |-> auxs]
           d == [at |-> off, auxs |-> Append(auxs, auxOff)]
           r == With(read, "need", e)
           s == With(read, "need", d)
           n == Len(read.need) + 1
           m == Len(auxs) + 1
           ndx == file.at[auxOff].ndx
<1>1. /\ e \in Ent /\ d \in Ent /\ read \in Read /\ auxs \in Seq(Nat)
      /\ e.auxs = auxs /\ d.auxs = Append(auxs, auxOff)
  BY ReadTypes DEF IndexInv, TypeInv, TypeOK
<1>2. file' = file /\ Seen = r /\ Seen' = s
  BY DEF AuxRead, Goto, Seen
<1>3. /\ m \in Nat /\ m \notin 1 .. Len(auxs) /\ Len(d.auxs) = m /\ d.auxs[m] = auxOff
      /\ \A k \in 1 .. Len(auxs) : d.auxs[k] = e.auxs[k]
      /\ \A k \in 1 .. Len(d.auxs) : k \in 1 .. Len(auxs) \/ k = m
      /\ m \in 1 .. Len(d.auxs)
  <2>1. auxOff \in Nat BY DEF IndexInv, TypeInv, TypeOK
  <2> QED BY <1>1, <2>1
<1> HIDE DEF e, d
<1>4. r.def = read.def /\ s.def = read.def
  BY <1>1, ListWith
<1>5. NeedExtended(file, read, r, e) /\ NeedExtended(file, read, s, d)
  <2>1. /\ r \in Read /\ r.need = Append(read.need, e)
        /\ s \in Read /\ s.need = Append(read.need, d)
    BY <1>1, ListWith
  <2> HIDE DEF r, s
  <2> QED BY <1>1, <2>1, NeedWith
<1>6. Sound(file, r, claimed) BY <1>2 DEF IndexInv
<1> HIDE DEF r, s, m, ndx
<1>7. \A i, k : Live(file, s, i, k) /\ (i # n \/ k # m) =>
        Live(file, r, i, k) /\ NeedIndex(file, s, i, k) = NeedIndex(file, r, i, k)
  <2> SUFFICES ASSUME NEW i, NEW k, Live(file, s, i, k), i # n \/ k # m
               PROVE  Live(file, r, i, k) /\ NeedIndex(file, s, i, k) = NeedIndex(file, r, i, k)
    OBVIOUS
  <2>1. CASE i # n BY <1>5, <2>1 DEF NeedExtended
  <2>2. CASE i = n
    <3>1. k \in 1 .. Len(auxs) /\ file.at[d.auxs[k]].ndx # 0 BY <1>3, <1>5, <2>2 DEF NeedExtended
    <3> QED BY <1>1, <1>3, <1>5, <2>2, <3>1 DEF NeedExtended
  <2> QED BY <2>1, <2>2
<1>8. Live(file, s, n, m) <=> ndx # 0
  BY <1>3, <1>5 DEF NeedExtended, ndx
<1>9. NeedIndex(file, s, n, m) = Effective(ndx)
  BY <1>3, <1>5 DEF NeedExtended, ndx
<1>10. CASE ndx = 0
  <2>1. claimed' = claimed BY <1>10 DEF ndx
  <2>2. \A i, k : Live(file, s, i, k) =>
          Live(file, r, i, k) /\ NeedIndex(file, s, i, k) = NeedIndex(file, r, i, k)
    BY <1>7, <1>8, <1>10
  <2>3. Sound(file, s, claimed) BY <1>4, <1>6, <2>2, NoNewIndex
  <2> QED BY <1>2, <2>1, <2>3
<1>11. CASE ndx # 0
  <2>1. claimed' = claimed \cup {Effective(ndx)} BY <1>11 DEF ndx
  <2>2. Effective(ndx) \notin claimed /\ Effective(ndx) # 0
    BY <1>11 DEF VernauxOk, Unclaimed, Effective, ndx
  <2>3. ~Live(file, r, n, m) BY <1>1, <1>3, <1>5 DEF NeedExtended
  <2>4. Sound(file, s, claimed \cup {Effective(ndx)})
    BY <1>4, <1>6, <1>7, <1>8, <1>9, <1>11, <2>2, <2>3, AddNeedAux
  <2> QED BY <1>2, <2>1, <2>4
<1> QED BY <1>10, <1>11

(* Every step of parse_ver keeps the indices apart.                        *)
LEMMA IndexStep ==
  ASSUME IndexInv, [Next]_vars
  PROVE  IndexInv'
<1>0. TypeInv' BY TypeStep DEF IndexInv
<1> SUFFICES Sound(file', Seen', claimed') BY <1>0 DEF IndexInv
<1>1. CASE Refuse BY <1>1, RefuseSound
<1>2. CASE OutOfMemory BY <1>2, RefuseSound DEF OutOfMemory
<1>3. CASE /\ UNCHANGED <<file, read, claimed>>
           /\ pc \notin {"aux", "next"} /\ pc' \notin {"aux", "next"}
  BY <1>3, OutsideSound
<1>4. CASE FindEntries
  BY <1>1, <1>3, <1>4 DEF FindEntries, Goto, cursor
<1>5. CASE SkipList BY <1>3, <1>5 DEF SkipList, ListDone, Goto
<1>6. CASE StartVerdef BY <1>1, <1>2, <1>3, <1>6 DEF StartVerdef, StartAt, Goto
<1>7. CASE StartVerneed BY <1>1, <1>2, <1>3, <1>7 DEF StartVerneed, StartAt, Goto
<1>8. CASE ReadVerdef BY <1>1, <1>2, <1>8, ReadVerdefSound DEF ReadVerdef
<1>9. CASE ReadVerneed BY <1>1, <1>2, <1>9, ReadVerneedSound DEF ReadVerneed
<1>10. CASE ReadVerdaux BY <1>1, <1>10, ReadVerdauxSound DEF ReadVerdaux
<1>11. CASE ReadVernaux BY <1>1, <1>11, ReadVernauxSound DEF ReadVernaux
<1>12. CASE NextVerdef BY <1>1, <1>12, FinishSound DEF NextVerdef
<1>13. CASE NextVerneed BY <1>1, <1>13, FinishSound DEF NextVerneed
<1>14. CASE CheckVerdef BY <1>1, <1>2, <1>3, <1>14 DEF CheckVerdef, Check, ListDone, Goto
<1>15. CASE CheckVerneed BY <1>1, <1>2, <1>3, <1>15 DEF CheckVerneed, Check, ListDone, Goto
<1>16. CASE Return BY <1>3, <1>16 DEF Return, Goto, cursor
<1>17. CASE UNCHANGED vars
  <2>1. Seen' = Seen /\ file' = file /\ claimed' = claimed BY <1>17 DEF vars, Seen
  <2> QED BY <2>1 DEF IndexInv
<1> QED
  BY <1>4, <1>5, <1>6, <1>7, <1>8, <1>9, <1>10, <1>11, <1>12, <1>13, <1>14, <1>15, <1>16,
     <1>17 DEF Next

(* The positions of Indexed, spelled out.                                  *)
LEMMA IndexedPositions ==
  ASSUME NEW p \in Indexed
  PROVE  \/ \E i \in 1 .. Len(read.def) :
              p = <<"def", i, 0>> /\ IndexAt(p) = DefIndex(file, read, i)
         \/ \E i, k : /\ Live(file, read, i, k) /\ p = <<"need", i, k>>
                      /\ IndexAt(p) = NeedIndex(file, read, i, k)
<1>1. CASE \E i \in 1 .. Len(read.def) : p = <<"def", i, 0>>
  <2>1. PICK i \in 1 .. Len(read.def) : p = <<"def", i, 0>> BY <1>1
  <2>2. IndexAt(p) = DefIndex(file, read, i) BY <2>1 DEF IndexAt, DefIndex, Effective
  <2> QED BY <2>1, <2>2
<1>2. CASE \E i \in 1 .. Len(read.need) : \E k \in 1 .. Len(read.need[i].auxs) :
             p = <<"need", i, k>> /\ file.at[read.need[i].auxs[k]].ndx # 0
  <2>1. PICK i \in 1 .. Len(read.need) : \E k \in 1 .. Len(read.need[i].auxs) :
             p = <<"need", i, k>> /\ file.at[read.need[i].auxs[k]].ndx # 0
    BY <1>2
  <2>2. PICK k \in 1 .. Len(read.need[i].auxs) :
             p = <<"need", i, k>> /\ file.at[read.need[i].auxs[k]].ndx # 0
    BY <2>1
  <2>3. IndexAt(p) = NeedIndex(file, read, i, k) BY <2>2 DEF IndexAt, NeedIndex, Effective
  <2>4. Live(file, read, i, k) BY <2>1, <2>2 DEF Live
  <2> QED BY <2>2, <2>3, <2>4
<1>3. CASE ~ \E i \in 1 .. Len(read.def) : p = <<"def", i, 0>>
  <2>1. /\ p \in UNION {{<<"need", i, k>> : k \in 1 .. Len(read.need[i].auxs)} :
                         i \in 1 .. Len(read.need)}
        /\ file.at[read.need[p[2]].auxs[p[3]]].ndx # 0
    BY <1>3 DEF Indexed
  <2>2. PICK i \in 1 .. Len(read.need) :
          p \in {<<"need", i, k>> : k \in 1 .. Len(read.need[i].auxs)}
    BY <2>1
  <2>3. PICK k \in 1 .. Len(read.need[i].auxs) : p = <<"need", i, k>> BY <2>2
  <2>4. p[2] = i /\ p[3] = k BY <2>3
  <2>5. file.at[read.need[i].auxs[k]].ndx # 0 BY <2>1, <2>4
  <2> QED BY <1>2, <2>3, <2>5
<1> QED BY <1>1, <1>3

(* However long the lists and wherever their links lead, no two versions   *)
(* that parse_ver reads share an index, and none has the index 0 of local  *)
(* symbols.                                                                *)
THEOREM IndicesApart == Spec => []IndexMeansOneVersion
<1>1. Init => IndexInv
  <2> SUFFICES ASSUME Init PROVE IndexInv OBVIOUS
  <2>1. TypeInv BY TypesInitially
  <2>2. Len(Seen.def) = 0 /\ Len(Seen.need) = 0 BY DEF Init, Seen
  <2>3. Sound(file, Seen, claimed) BY <2>2 DEF Sound, Live
  <2> QED BY <2>1, <2>3 DEF IndexInv
<1>2. IndexInv /\ [Next]_vars => IndexInv' BY IndexStep
<1>3. IndexInv => IndexMeansOneVersion
  <2> SUFFICES ASSUME IndexInv PROVE IndexMeansOneVersion OBVIOUS
  <2>1. Sound(file, read, claimed) BY ReadSound DEF IndexInv
  <2> SUFFICES ASSUME NEW p \in Indexed, NEW q \in Indexed
               PROVE  IndexAt(p) # 0 /\ (p # q => IndexAt(p) # IndexAt(q))
    BY DEF IndexMeansOneVersion
  <2> QED BY <2>1, IndexedPositions DEF Sound
<1> QED BY <1>1, <1>2, <1>3, PTL DEF Spec

-----------------------------------------------------------------------------
(* Memory                                                                  *)

(* The array of DT_NEEDED names, there while dependencies are read.        *)
NeededTable == {<<"needed", 0>>}

(* Every array belongs to a list that has been read, to the entry in       *)
(* progress, or is the table of DT_NEEDED names while dependencies are.    *)
HeapInv ==
  /\ TypeInv
  /\ pc \in Done \cup {"find"} => heap = {}
  /\ heap \subseteq Results \cup (IF pc \in {"aux", "next"} THEN EntryLocals ELSE {})
                   \cup (IF list = "need" /\ pc \in {"entry", "aux", "next"}
                         THEN NeededTable ELSE {})

(* The error paths free the entry's list, the current list, the table of   *)
(* names and both results.                                                 *)
LEMMA RefuseFrees ==
  ASSUME HeapInv, Refuse
  PROVE  pc' = "refused" /\ heap' = {}
BY DEF HeapInv, Refuse, Goto, ListLocals, NeededTable

(* A step that keeps the lists and what is allocated for them.             *)
LEMMA SameLists ==
  ASSUME UNCHANGED read
  PROVE  Results' = Results
BY DEF Results, Lists

(* The arrays of a list are there before its first entry is.               *)
LEMMA FirstArrays ==
  ASSUME TypeInv
  PROVE  {<<"def", 0>>, <<"need", 0>>} \subseteq Results
<1>1. Len(read.def) \in Nat /\ Len(read.need) \in Nat BY DEF TypeInv, TypeOK
<1>2. 0 \in 0 .. Len(read["def"]) /\ 0 \in 0 .. Len(read["need"]) BY <1>1
<1> QED BY <1>2 DEF Results, Lists

(* What was the entry's becomes the list's.                                *)
LEMMA EntryToList ==
  ASSUME TypeInv, EntryDone
  PROVE  Results \cup EntryLocals \subseteq Results'
<1> DEFINE n(l) == Len(read[l])
<1>1. /\ list \in {"def", "need"} /\ n("def") \in Nat /\ n("need") \in Nat
  BY DEF TypeInv, TypeOK
<1>2. read[list] \in Seq(Ent) /\ read'[list] = Append(read[list], [at |-> off, auxs |-> auxs])
      /\ \A l \in {"def", "need"} \ {list} : read'[l] = read[l]
  BY ReadGrows
<1>3. Len(read'[list]) = n(list) + 1 BY <1>2
<1>4. \A l \in {"def", "need"} : 0 .. n(l) \subseteq 0 .. Len(read'[l])
  BY <1>1, <1>2, <1>3
<1>5. n(list) + 1 \in 0 .. Len(read'[list]) BY <1>1, <1>3
<1>6. \A l \in {"def", "need"} : Lists(l) \subseteq Lists(l)' BY <1>4 DEF Lists
<1>7. EntryLocals \subseteq {<<list, k>> : k \in 0 .. Len(read'[list])}
  BY <1>5 DEF EntryLocals
<1>8. {<<list, k>> : k \in 0 .. Len(read'[list])} \subseteq Results'
  BY <1>1 DEF Results, Lists
<1> QED BY <1>6, <1>7, <1>8 DEF Results

(* Every step of parse_ver leaves each array an owner.                     *)
LEMMA HeapStep ==
  ASSUME HeapInv, [Next]_vars
  PROVE  HeapInv'
<1>0. TypeInv /\ TypeInv' /\ list \in {"def", "need"}
  BY TypeStep DEF HeapInv, TypeInv, TypeOK
<1>1. CASE Refuse BY <1>0, <1>1, RefuseFrees DEF HeapInv
<1>2. CASE OutOfMemory BY <1>0, <1>2, RefuseFrees DEF HeapInv, OutOfMemory
<1>3. CASE /\ UNCHANGED <<read, heap>> /\ pc \in {"find", "start", "check"}
           /\ pc' \in {"start", "check", "end"}
  <2>1. heap \subseteq Results BY <1>3 DEF HeapInv
  <2> QED BY <1>0, <1>3, <2>1, SameLists DEF HeapInv, Done
<1>4. CASE FindEntries
  <2>1. CASE /\ pc = "find" /\ Goto("absent") /\ ret' = 1
             /\ UNCHANGED <<file, cursor, heap>>
    BY <1>0, <2>1 DEF HeapInv, Goto
  <2> QED BY <1>1, <1>3, <1>4, <2>1 DEF FindEntries, Goto, cursor
<1>5. CASE SkipList BY <1>3, <1>5 DEF SkipList, ListDone, Goto
<1>6. CASE StartVerdef
  <2>1. CASE StartAt({<<"def", 0>>})
    <3>1. heap \subseteq Results BY <1>6 DEF StartVerdef, HeapInv
    <3>2. heap' \subseteq Results' /\ pc' = "entry"
      BY <1>0, <2>1, <3>1, FirstArrays, SameLists DEF StartAt, Goto
    <3> QED BY <1>0, <3>2 DEF HeapInv, Done
  <2> QED BY <1>1, <1>2, <1>6, <2>1 DEF StartVerdef
<1>7. CASE StartVerneed
  <2>1. CASE StartAt({<<"need", 0>>, <<"needed", 0>>})
    <3>1. heap \subseteq Results /\ list = "need" BY <1>7 DEF StartVerneed, HeapInv
    <3>2. heap' \subseteq Results' \cup NeededTable /\ pc' = "entry" /\ list' = "need"
      BY <1>0, <2>1, <3>1, FirstArrays, SameLists DEF StartAt, Goto, NeededTable
    <3> QED BY <1>0, <3>2 DEF HeapInv, Done
  <2> QED BY <1>1, <1>2, <1>3, <1>7, <2>1 DEF StartVerneed, Goto
<1>8. CASE pc = "entry" /\ EntryRead
  <2>1. pc' = "aux" /\ list' = list /\ EntryLocals' = EntryLocals /\ Results' = Results
    BY <1>8, SameLists DEF EntryRead, Goto, EntryLocals
  <2> QED BY <1>0, <1>8, <2>1 DEF HeapInv, EntryRead, Done
<1>9. CASE pc = "aux" /\ \E size : AuxRead(size)
  <2>1. /\ pc' \in {"aux", "next"} /\ list' = list /\ heap' = heap
        /\ EntryLocals' = EntryLocals /\ Results' = Results
    BY <1>9, SameLists DEF AuxRead, Goto, EntryLocals
  <2> QED BY <1>0, <1>9, <2>1 DEF HeapInv, Done
<1>10. CASE ReadVerdef BY <1>1, <1>2, <1>8, <1>10 DEF ReadVerdef
<1>11. CASE ReadVerneed BY <1>1, <1>2, <1>8, <1>11 DEF ReadVerneed
<1>12. CASE ReadVerdaux BY <1>1, <1>9, <1>12 DEF ReadVerdaux
<1>13. CASE ReadVernaux BY <1>1, <1>9, <1>13 DEF ReadVernaux
<1>14. CASE NextVerdef
  <2>1. CASE EntryDone /\ UNCHANGED heap
    <3>1. heap \subseteq Results \cup EntryLocals
      BY <1>14 DEF HeapInv, NextVerdef
    <3>2. heap' \subseteq Results' /\ pc' \in {"check", "entry"}
      BY <1>0, <2>1, <3>1, EntryToList DEF EntryDone, Goto
    <3> QED BY <1>0, <3>2 DEF HeapInv, Done
  <2> QED BY <1>1, <1>14, <2>1 DEF NextVerdef
<1>15. CASE NextVerneed
  <2>1. CASE /\ EntryDone
             /\ heap' = IF IsLast THEN heap \ {<<"needed", 0>>} ELSE heap
    <3>1. heap \subseteq Results \cup EntryLocals \cup NeededTable
      BY <1>15 DEF HeapInv, NextVerneed
    <3>2. heap \subseteq Results' \cup NeededTable
      BY <1>0, <2>1, <3>1, EntryToList
    <3>3. list' = "need" BY <1>15, <2>1 DEF NextVerneed, EntryDone
    <3>4. CASE IsLast
      BY <1>0, <2>1, <3>2, <3>4 DEF HeapInv, EntryDone, Goto, NeededTable, Done
    <3>5. CASE ~IsLast
      BY <1>0, <2>1, <3>2, <3>3, <3>5 DEF HeapInv, EntryDone, Goto, Done
    <3> QED BY <3>4, <3>5
  <2> QED BY <1>1, <1>15, <2>1 DEF NextVerneed
<1>16. CASE CheckVerdef BY <1>1, <1>2, <1>3, <1>16 DEF CheckVerdef, Check, ListDone, Goto
<1>17. CASE CheckVerneed BY <1>1, <1>2, <1>3, <1>17 DEF CheckVerneed, Check, ListDone, Goto
<1>18. CASE Return
  <2>1. heap' = {}
    BY <1>18 DEF Return, HeapInv
  <2> QED BY <1>0, <2>1 DEF HeapInv
<1>19. CASE UNCHANGED vars
  <2>1. Results' = Results /\ EntryLocals' = EntryLocals
    BY <1>19, SameLists DEF vars, EntryLocals
  <2> QED BY <1>0, <1>19, <2>1 DEF vars, HeapInv
<1> QED
  BY <1>4, <1>5, <1>6, <1>7, <1>10, <1>11, <1>12, <1>13, <1>14, <1>15, <1>16, <1>17, <1>18,
     <1>19 DEF Next

(* parse_ver keeps no memory, whichever of its error paths it takes and    *)
(* however many entries it had read.                                       *)
THEOREM NothingIsLeaked == Spec => []NothingLeaks
<1>1. Init => HeapInv BY TypesInitially DEF Init, HeapInv
<1>2. HeapInv /\ [Next]_vars => HeapInv' BY HeapStep
<1>3. HeapInv => NothingLeaks BY DEF HeapInv, NothingLeaks
<1> QED BY <1>1, <1>2, <1>3, PTL DEF Spec
-----------------------------------------------------------------------------
(* The loader's walks                                                      *)

(* The size of the structures of a list, and the size and kind of their    *)
(* auxiliary structures.                                                   *)
SizeOf(l) == IF l = "def" THEN DefSize ELSE NeedSize
AuxSizeOf(l) == IF l = "def" THEN DefAuxSize ELSE NeedAuxSize
AuxKindOf(l) == IF l = "def" THEN "defaux" ELSE "needaux"

(* A link to a structure behind the one at o.                              *)
LeadsOn(f, o, size) == f.at[o].next # 0 /\ f.at[o].next >= size

(* The offsets s are the first ones that links lead to, from `first` on,   *)
(* and whole structures lie there.                                         *)
Along(f, s, first, kind, size, end) ==
  /\ s # <<>> => s[1] = first
  /\ \A k \in 1 .. Len(s) :
       s[k] \in DOMAIN f.at /\ f.at[s[k]].is = kind /\ s[k] + size <= end
  /\ \A k \in 1 .. Len(s) - 1 :
       LeadsOn(f, s[k], size) /\ s[k + 1] = s[k] + f.at[s[k]].next

(* Behind s the walk goes on at o, or is over.                             *)
Onward(f, s, first, size, o) ==
  IF s = <<>> THEN o = first
  ELSE LeadsOn(f, s[Len(s)], size) /\ o = s[Len(s)] + f.at[s[Len(s)]].next

(* The last entry has no link to another.                                  *)
Ended(f, s) == s # <<>> => f.at[s[Len(s)]].next = 0

(* One more structure is visited.                                          *)
LEMMA AlongMore ==
  ASSUME NEW f, NEW s \in Seq(Nat), NEW first, NEW kind, NEW size, NEW end, NEW o \in Nat,
         Along(f, s, first, kind, size, end), Onward(f, s, first, size, o),
         o \in DOMAIN f.at, f.at[o].is = kind, o + size <= end
  PROVE  /\ Along(f, Append(s, o), first, kind, size, end)
         /\ LeadsOn(f, o, size) => Onward(f, Append(s, o), first, size, o + f.at[o].next)
         /\ f.at[o].next = 0 => Ended(f, Append(s, o))
<1> DEFINE t == Append(s, o)
<1>1. /\ t # <<>> /\ Len(t) = Len(s) + 1 /\ t[Len(t)] = o /\ Len(s) \in Nat
      /\ \A k \in 1 .. Len(s) : t[k] = s[k]
  OBVIOUS
<1>2. t[1] = first
  <2>1. CASE s = <<>> BY <2>1 DEF Onward
  <2>2. CASE s # <<>> BY <1>1, <2>2 DEF Along
  <2> QED BY <2>1, <2>2
<1> HIDE DEF t
<1>3. ASSUME NEW k \in 1 .. Len(t)
      PROVE  t[k] \in DOMAIN f.at /\ f.at[t[k]].is = kind /\ t[k] + size <= end
  <2>1. CASE k = Len(t) BY <1>1, <2>1
  <2>2. CASE k \in 1 .. Len(s) BY <1>1, <2>2 DEF Along
  <2> QED BY <1>1, <2>1, <2>2
<1>4. ASSUME NEW k \in 1 .. Len(t) - 1
      PROVE  LeadsOn(f, t[k], size) /\ t[k + 1] = t[k] + f.at[t[k]].next
  <2>1. k \in 1 .. Len(s) /\ t[k] = s[k] BY <1>1
  <2>2. CASE k = Len(s)
    <3>1. s # <<>> BY <2>1, <2>2
    <3> QED BY <1>1, <2>1, <2>2, <3>1 DEF Onward
  <2>3. CASE k # Len(s)
    <3>1. k \in 1 .. Len(s) - 1 /\ k + 1 \in 1 .. Len(s) BY <1>1, <2>1, <2>3
    <3> QED BY <1>1, <2>1, <3>1 DEF Along
  <2> QED BY <2>2, <2>3
<1>5. Along(f, t, first, kind, size, end) BY <1>1, <1>2, <1>3, <1>4 DEF Along
<1>6. LeadsOn(f, o, size) => Onward(f, t, first, size, o + f.at[o].next)
  BY <1>1 DEF Onward
<1>7. f.at[o].next = 0 => Ended(f, t) BY <1>1 DEF Ended
<1> QED BY <1>5, <1>6, <1>7 DEF t

(* The loader, which follows the links, visits these offsets.              *)
LEMMA LoaderVisits ==
  ASSUME NEW s \in Seq(Nat), NEW first, NEW kind, NEW size, NEW end,
         Along(file, s, first, kind, size, end)
  PROVE  \A k \in 1 .. Len(s) : Visited(first, Len(s))[k] = s[k]
<1> DEFINE n == Len(s)
           Hop(a, k) == IF k = 1 THEN first
                        ELSE IF a[k - 1] \in DOMAIN file.at
                             THEN a[k - 1] + file.at[a[k - 1]].next ELSE a[k - 1]
           v == Visited(first, n)
           g == [k \in 1 .. n |-> s[k]]
<1>1. n \in Nat OBVIOUS
<1>2. g = [k \in 1 .. n |-> Hop(g, k)]
  <2>1. ASSUME NEW k \in 1 .. n PROVE s[k] = Hop(g, k)
    <3>1. CASE k = 1 BY <3>1 DEF Along
    <3>2. CASE k # 1
      <4>1. k - 1 \in 1 .. n - 1 /\ k - 1 \in 1 .. n /\ (k - 1) + 1 = k BY <1>1, <3>2
      <4>2. g[k - 1] = s[k - 1] BY <4>1
      <4>3. s[k - 1] \in DOMAIN file.at /\ s[k] = s[k - 1] + file.at[s[k - 1]].next
        BY <4>1 DEF Along
      <4> QED BY <3>2, <4>2, <4>3
    <3> QED BY <3>1, <3>2
  <2> QED BY <2>1
<1>3. v = [k \in 1 .. n |-> Hop(v, k)]
  BY <1>2 DEF Visited
<1> HIDE DEF v, g, n
<1> DEFINE Same == {k \in 1 .. n : v[k] = s[k]}
<1>4. 1 <= n => 1 \in Same
  BY <1>1, <1>3 DEF Along, n
<1>5. ASSUME NEW k \in 1 .. n - 1, k \in Same PROVE k + 1 \in Same
  <2>1. k \in 1 .. n /\ k + 1 \in 1 .. n /\ k + 1 # 1 /\ (k + 1) - 1 = k BY <1>1
  <2>2. s[k] \in DOMAIN file.at /\ s[k + 1] = s[k] + file.at[s[k]].next
    BY <1>5, <2>1 DEF Along, n
  <2>3. v[k + 1] = Hop(v, k + 1) BY <1>3, <2>1
  <2> QED BY <1>5, <2>1, <2>2, <2>3
<1>6. 1 .. n \subseteq Same
  <2> HIDE DEF Same
  <2> QED BY <1>1, <1>4, <1>5, IntervalInduction
<1> QED BY <1>6 DEF v, n

(* Hence its walk is in order when the walk here has ended.                *)
LEMMA LoaderWalks ==
  ASSUME NEW s \in Seq(Nat), NEW first, NEW kind, NEW size \in Nat, NEW end,
         \A o \in DOMAIN file.at : file.at[o].next \in Nat,
         Along(file, s, first, kind, size, end), Ended(file, s)
  PROVE  WalkOk(first, Len(s), kind, size, end)
<1> DEFINE v == Visited(first, Len(s))
<1>1. \A k \in 1 .. Len(s) : v[k] = s[k] BY LoaderVisits
<1> HIDE DEF v
<1> SUFFICES ASSUME NEW k \in 1 .. Len(s)
             PROVE  /\ Holds(v[k], kind)
                    /\ v[k] + size <= (IF k < Len(s) THEN v[k + 1] ELSE end)
                    /\ file.at[v[k]].next = 0 <=> k = Len(s)
  BY DEF WalkOk, v
<1>2. v[k] = s[k] /\ s[k] \in Nat /\ Len(s) \in Nat BY <1>1
<1>3. s[k] \in DOMAIN file.at /\ file.at[s[k]].is = kind /\ s[k] + size <= end
  BY DEF Along
<1>4. CASE k = Len(s)
  <2>1. s # <<>> BY <1>2, <1>4
  <2> QED BY <1>2, <1>3, <1>4, <2>1 DEF Ended, Holds
<1>5. CASE k # Len(s)
  <2>1. k \in 1 .. Len(s) - 1 /\ k + 1 \in 1 .. Len(s) /\ k < Len(s) BY <1>2, <1>5
  <2>2. LeadsOn(file, s[k], size) /\ s[k + 1] = s[k] + file.at[s[k]].next
    BY <2>1 DEF Along
  <2>3. v[k + 1] = s[k + 1] BY <1>1, <2>1
  <2>4. file.at[s[k]].next \in Nat BY <1>3
  <2>5. s[k] + size <= s[k + 1] BY <1>2, <2>2, <2>4 DEF LeadsOn
  <2> QED BY <1>2, <1>3, <1>5, <2>1, <2>2, <2>3, <2>5 DEF LeadsOn, Holds
<1> QED BY <1>4, <1>5
-----------------------------------------------------------------------------
(* What the program's own walk establishes                                 *)

(* The offsets of entries.                                                 *)
Positions(es) == [k \in 1 .. Len(es) |-> es[k].at]

(* The auxiliary list of an entry has been read to its end.                *)
AuxWalked(f, l, e) ==
  /\ e.at \in DOMAIN f.at
  /\ Along(f, e.auxs, e.at + f.at[e.at].aux, AuxKindOf(l), AuxSizeOf(l), f[l].end)
  /\ Ended(f, e.auxs)
  /\ Len(e.auxs) = f.at[e.at].cnt

(* The entries of list l that have been read.                              *)
ListWalked(f, l, es) ==
  /\ Along(f, Positions(es), f[l].off, l, SizeOf(l), f[l].end)
  /\ \A k \in 1 .. Len(es) : AuxWalked(f, l, es[k])

(* Where the program is in the current list, and that structures of that   *)
(* size have been counted on the way.                                      *)
AtEntry ==
  /\ Onward(file, Positions(read[list]), Table.off, Size, off)
  /\ off >= Table.off + Len(read[list]) * Size

(* Where it is in the current entry's auxiliary list.                      *)
AtAux ==
  /\ off + Size <= Table.end /\ off + Size <= maxEnd
  /\ Along(file, auxs, off + Entry.aux, AuxKindOf(list), AuxSizeOf(list), Table.end)
  /\ pc = "aux" => Onward(file, auxs, off + Entry.aux, AuxSizeOf(list), auxOff)
  /\ pc = "next" => Ended(file, auxs) /\ Len(auxs) = Entry.cnt

(* A list that is present has been read to its end.                        *)
Whole(l) ==
  file[l].kind = "present" =>
    Len(read[l]) = file[l].num /\ Ended(file, Positions(read[l]))

(* In a table that is present.                                             *)
Started == pc \in {"entry", "aux", "next"}

(* The inductive invariant: what has been read is what following the links *)
(* leads to.                                                               *)
WalkInv ==
  /\ TypeInv
  /\ \A l \in {"def", "need"} : ListWalked(file, l, read[l])
  /\ Started => AtEntry
  /\ pc \in {"aux", "next"} => AtAux
  /\ pc \in {"find", "start"} => read[list] = <<>>
  /\ list = "def" => read.need = <<>>
  /\ list = "need" => Whole("def")
  /\ Started \/ pc = "check" => Table.kind = "present"
  /\ pc = "check" => Whole(list)
  /\ pc \in {"end", "parsed"} => list = "need" /\ Whole("need")
  /\ pc = "find" => list = "def"
  /\ pc = "entry" /\ read[list] = <<>> => maxEnd = 0
  /\ Started /\ ~(pc = "entry" /\ read[list] = <<>>) => maxEnd <= Table.end
  /\ pc = "check" => maxEnd <= Table.end /\ maxEnd >= Table.off + Len(read[list]) * Size

(* The tables' offsets and the links have types.                           *)
LEMMA FileTypes ==
  ASSUME TypeInv
  PROVE  /\ list \in {"def", "need"} /\ Table.off \in Nat /\ Size \in Nat \ {0}
         /\ Size = SizeOf(list)
         /\ \A l \in {"def", "need"} :
              /\ file[l].off \in Nat /\ SizeOf(l) \in Nat \ {0}
              /\ AuxSizeOf(l) \in Nat \ {0} /\ read[l] \in Seq(Ent)
         /\ \A o \in DOMAIN file.at :
              /\ file.at[o].next \in Nat
              /\ file.at[o].is \in {"def", "need"} => file.at[o].aux \in Nat
BY FilesAssumption, SizeAssumption
   DEF TypeInv, TypeOK, Table, Size, SizeOf, AuxSizeOf, Ent

(* The offsets of a list of entries, and of one with one more.             *)
LEMMA PositionsOf ==
  ASSUME NEW es \in Seq(Ent)
  PROVE  /\ Positions(es) \in Seq(Nat) /\ Len(Positions(es)) = Len(es)
         /\ Positions(es) = <<>> <=> es = <<>>
         /\ \A e \in Ent : Positions(Append(es, e)) = Append(Positions(es), e.at)
<1>0. \A k \in 1 .. Len(es) : es[k] \in Ent OBVIOUS
<1>1. \A k \in 1 .. Len(es) : es[k].at \in Nat BY <1>0 DEF Ent
<1>2. Positions(es) \in Seq(Nat) /\ Len(Positions(es)) = Len(es) /\ Len(es) \in Nat
  BY <1>1 DEF Positions
<1>3. Positions(es) = <<>> <=> es = <<>> BY <1>2
<1>4. ASSUME NEW e \in Ent
      PROVE  Positions(Append(es, e)) = Append(Positions(es), e.at)
  <2>1. Append(es, e) \in Seq(Ent) /\ Len(Append(es, e)) = Len(es) + 1 OBVIOUS
  <2>2. e.at \in Nat BY DEF Ent
  <2>3. Append(Positions(es), e.at) \in Seq(Nat)
        /\ Len(Append(Positions(es), e.at)) = Len(es) + 1
    BY <1>2, <2>2
  <2>4. ASSUME NEW k \in 1 .. Len(es) + 1
        PROVE  Append(es, e)[k].at = Append(Positions(es), e.at)[k]
    <3>1. CASE k = Len(es) + 1 BY <1>2, <2>2, <3>1
    <3>2. CASE k \in 1 .. Len(es)
      <4>1. Append(es, e)[k] = es[k] BY <3>2
      <4>2. Append(Positions(es), e.at)[k] = Positions(es)[k] BY <1>2, <2>2, <3>2
      <4>3. Positions(es)[k] = es[k].at BY <3>2 DEF Positions
      <4> QED BY <4>1, <4>2, <4>3
    <3> QED BY <1>2, <3>1, <3>2
  <2>5. Append(Positions(es), e.at)
          = [k \in 1 .. Len(es) + 1 |-> Append(Positions(es), e.at)[k]]
    BY <2>3
  <2>6. Positions(Append(es, e)) = [k \in 1 .. Len(es) + 1 |-> Append(es, e)[k].at]
    BY <2>1 DEF Positions
  <2> QED BY <2>4, <2>5, <2>6
<1> QED BY <1>2, <1>3, <1>4

(* No list has been read.                                                  *)
LEMMA EmptyWalk == \A f, l : ListWalked(f, l, <<>>) /\ Ended(f, Positions(<<>>))
BY DEF ListWalked, Along, Positions, Ended
(* An error path changes nothing of what has been read.                    *)
LEMMA WalkRefused ==
  ASSUME WalkInv, TypeInv', Refuse
  PROVE  WalkInv'
BY DEF WalkInv, Refuse, Goto, cursor, Started, Whole

(* The program goes on to the dependencies, or to its end.                 *)
LEMMA WalkListDone ==
  ASSUME WalkInv, TypeInv', pc \in {"start", "check"}, Whole(list), ListDone
  PROVE  WalkInv'
<1>1. list \in {"def", "need"} BY FileTypes DEF WalkInv
<1>2. UNCHANGED <<file, read>> BY DEF ListDone
<1>3. CASE list = "def"
  <2>1. list' = "need" /\ pc' = "start" BY <1>3 DEF ListDone, Goto
  <2>2. Whole("def")' BY <1>2, <1>3 DEF Whole
  <2>3. read'.need = <<>> BY <1>2, <1>3 DEF WalkInv
  <2> QED BY <1>2, <2>1, <2>2, <2>3 DEF WalkInv, Started
<1>4. CASE list = "need"
  <2>1. list' = "need" /\ pc' = "end" BY <1>4 DEF ListDone, Goto
  <2>2. Whole("def")' /\ Whole("need")' BY <1>2, <1>4 DEF Whole, WalkInv
  <2> QED BY <1>2, <2>1, <2>2 DEF WalkInv, Started
<1> QED BY <1>1, <1>3, <1>4

(* The walk along a list starts at the table's offset.                     *)
LEMMA WalkStarts ==
  ASSUME WalkInv, TypeInv', pc = "start", Table.kind = "present", NEW arrays, StartAt(arrays)
  PROVE  WalkInv'
<1>1. read[list] = <<>> /\ Positions(<<>>) = <<>> BY DEF WalkInv, Positions
<1>2. UNCHANGED <<file, read, list>> /\ off' = Table.off /\ maxEnd' = 0 /\ pc' = "entry"
  BY DEF StartAt, Goto
<1>3. AtEntry'
  <2>1. Table.off \in Nat /\ Size \in Nat BY FileTypes DEF WalkInv
  <2>2. Len(<<>>) * Size = 0 BY <2>1
  <2>3. Onward(file, <<>>, Table.off, Size, Table.off) BY DEF Onward
  <2> QED BY <1>1, <1>2, <2>1, <2>2, <2>3 DEF AtEntry, Table, Size
<1>4. list = "need" => Whole("def")' BY <1>2 DEF WalkInv, Whole
<1>5. Table' = Table BY <1>2 DEF Table
<1> QED BY <1>1, <1>2, <1>3, <1>4, <1>5 DEF WalkInv, Started

(* A list of no entries is whole before it has begun.                      *)
LEMMA EmptyListWalked ==
  ASSUME WalkInv, TypeInv', pc = "start", list = "need", Table.kind = "present",
         Table.num = 0, InSegment, Goto("check"), maxEnd' = Table.off,
         UNCHANGED <<file, list, auxOff, auxs, read, base, claimed, heap, ret, oom>>
  PROVE  WalkInv'
<1>1. read[list] = <<>> /\ Table.off \in Nat /\ Size \in Nat
  BY FileTypes DEF WalkInv
<1>2. Len(<<>>) * Size = 0 /\ Len(<<>>) = 0 BY <1>1
<1>3. Whole("need")' BY <1>1, <1>2, EmptyWalk DEF Whole, Table
<1>4. Whole("def")' BY DEF Whole, WalkInv
<1>5. Table.off <= Table.end BY <1>1, <1>2 DEF InSegment
<1>6. Table' = Table /\ Size' = Size BY DEF Table, Size
<1> QED BY <1>1, <1>2, <1>3, <1>4, <1>5, <1>6 DEF WalkInv, Started, Goto

(* From an entry to its auxiliary list.                                    *)
LEMMA WalkEntryRead ==
  ASSUME WalkInv, TypeInv', pc = "entry", Inside(off, Size), EntryRead
  PROVE  WalkInv'
<1>1. /\ UNCHANGED <<file, read, list, off>> /\ pc' = "aux" /\ auxs' = <<>>
      /\ auxOff' = off + Entry.aux /\ maxEnd' = Higher(off + Size)
  BY DEF EntryRead, Goto
<1>2. Table' = Table /\ Size' = Size /\ Entry' = Entry
  BY <1>1 DEF Table, Size, Entry
<1>3. off \in Nat /\ maxEnd \in Nat /\ Size \in Nat \ {0}
  BY FileTypes DEF WalkInv, TypeInv, TypeOK
<1>4. AtEntry' BY <1>1, <1>2 DEF WalkInv, AtEntry, Started
<1>5. off + Size <= Table.end BY DEF Inside
<1>6. off + Size <= maxEnd' /\ maxEnd' <= Table.end
  <2>1. read[list] = <<>> => maxEnd = 0 BY DEF WalkInv
  <2>2. read[list] # <<>> => maxEnd <= Table.end BY DEF WalkInv, Started
  <2>3. maxEnd' = IF off + Size > maxEnd THEN off + Size ELSE maxEnd
    BY <1>1 DEF Higher
  <2>4. CASE off + Size > maxEnd BY <1>3, <1>5, <2>3, <2>4
  <2>5. CASE ~(off + Size > maxEnd) BY <1>3, <2>1, <2>2, <2>3, <2>5
  <2> QED BY <2>4, <2>5
<1>7. AtAux'
  <2>1. Along(file', <<>>, off + Entry.aux, AuxKindOf(list), AuxSizeOf(list), Table.end)
    BY DEF Along
  <2>2. Onward(file', <<>>, off + Entry.aux, AuxSizeOf(list), off + Entry.aux)
    BY DEF Onward
  <2> QED BY <1>1, <1>2, <1>5, <1>6, <2>1, <2>2 DEF AtAux
<1>8. list = "need" => Whole("def")' BY <1>1 DEF WalkInv, Whole
<1> QED BY <1>1, <1>2, <1>4, <1>6, <1>7, <1>8 DEF WalkInv, Started

(* One auxiliary entry more.                                               *)
LEMMA WalkAuxRead ==
  ASSUME WalkInv, TypeInv', pc = "aux", Inside(auxOff, AuxSizeOf(list)),
         Holds(auxOff, AuxKindOf(list)),
         LinkOk(file.at[auxOff].next, AuxSizeOf(list), LastAux, auxOff),
         AuxRead(AuxSizeOf(list))
  PROVE  WalkInv'
<1> DEFINE size == AuxSizeOf(list)
           next == file.at[auxOff].next
<1>1. /\ UNCHANGED <<file, read, list, off>> /\ auxs' = Append(auxs, auxOff)
      /\ auxOff' = auxOff + next /\ maxEnd' = Higher(auxOff + size)
      /\ pc' = IF LastAux THEN "next" ELSE "aux"
  BY DEF AuxRead, Goto
<1>2. Table' = Table /\ Size' = Size /\ Entry' = Entry
  BY <1>1 DEF Table, Size, Entry
<1>3. /\ off \in Nat /\ maxEnd \in Nat /\ Size \in Nat \ {0} /\ size \in Nat \ {0}
      /\ auxOff \in Nat /\ auxs \in Seq(Nat) /\ list \in {"def", "need"}
  BY FileTypes DEF WalkInv, TypeInv, TypeOK
<1>4. AtEntry' BY <1>1, <1>2 DEF WalkInv, AtEntry, Started
<1>5. auxOff + size <= Table.end BY DEF Inside
<1>6. AtAux BY DEF WalkInv
<1>7. off + Size <= maxEnd' /\ maxEnd' <= Table.end
  <2>1. off + Size <= maxEnd /\ maxEnd <= Table.end BY <1>6 DEF WalkInv, AtAux, Started
  <2>2. maxEnd' = IF auxOff + size > maxEnd THEN auxOff + size ELSE maxEnd
    BY <1>1 DEF Higher
  <2>3. CASE auxOff + size > maxEnd BY <1>3, <1>5, <2>1, <2>2, <2>3
  <2>4. CASE ~(auxOff + size > maxEnd) BY <1>3, <2>1, <2>2, <2>4
  <2> QED BY <2>3, <2>4
<1> DEFINE first == off + Entry.aux
           kind == AuxKindOf(list)
<1>8. /\ Along(file, auxs', first, kind, size, Table.end)
      /\ LeadsOn(file, auxOff, size) => Onward(file, auxs', first, size, auxOff')
      /\ next = 0 => Ended(file, auxs')
  <2>1. /\ Along(file, auxs, first, kind, size, Table.end)
        /\ Onward(file, auxs, first, size, auxOff)
    BY <1>6 DEF AtAux
  <2>2. auxOff \in DOMAIN file.at /\ file.at[auxOff].is = kind BY DEF Holds
  <2> HIDE DEF first, kind, size
  <2> QED BY <1>1, <1>3, <1>5, <2>1, <2>2, AlongMore
<1>9. AtAux'
  <2>1. off' + Size' <= Table'.end /\ off' + Size' <= maxEnd'
    BY <1>1, <1>2, <1>6, <1>7 DEF AtAux
  <2>2. Along(file', auxs', off' + Entry'.aux, AuxKindOf(list'), AuxSizeOf(list'), Table'.end)
    BY <1>1, <1>2, <1>8
  <2>3. CASE LastAux
    <3>1. Ended(file, auxs') BY <1>8, <2>3 DEF LinkOk
    <3>2. Len(auxs') = Entry.cnt BY <1>1, <1>3, <2>3 DEF LastAux
    <3> QED BY <1>1, <1>2, <2>1, <2>2, <2>3, <3>1, <3>2 DEF AtAux
  <2>4. CASE ~LastAux
    <3>1. LeadsOn(file, auxOff, size) BY <2>4 DEF LinkOk, LeadsOn
    <3> QED BY <1>1, <1>2, <1>8, <2>1, <2>2, <2>4, <3>1 DEF AtAux
  <2> QED BY <2>3, <2>4
<1>10. list = "need" => Whole("def")' BY <1>1 DEF WalkInv, Whole
<1> QED BY <1>1, <1>2, <1>4, <1>7, <1>9, <1>10 DEF WalkInv, Started
(* The entry joins its list.                                               *)
LEMMA WalkEntryDone ==
  ASSUME WalkInv, TypeInv', pc = "next", LinkOk(Entry.next, Size, IsLast, off), EntryDone
  PROVE  WalkInv'
<1> DEFINE e == [at |-> off, auxs |-> auxs]
           s == Positions(read[list])
<1>1. /\ UNCHANGED <<file, list, maxEnd>> /\ off' = off + Entry.next
      /\ pc' = IF IsLast THEN "check" ELSE "entry"
  BY DEF EntryDone, Goto
<1>2. /\ list \in {"def", "need"} /\ read[list] \in Seq(Ent) /\ e \in Ent
      /\ read'[list] = Append(read[list], e)
      /\ \A l \in {"def", "need"} \ {list} : read'[l] = read[l]
  BY ReadGrows, FileTypes DEF WalkInv
<1>3. /\ off \in Nat /\ maxEnd \in Nat /\ Size \in Nat \ {0} /\ Table.off \in Nat
      /\ Entry.next \in Nat /\ Size = SizeOf(list) /\ Len(read[list]) \in Nat
  <2>1. off \in Nat /\ maxEnd \in Nat BY DEF WalkInv, TypeInv, TypeOK
  <2>2. Entry.next \in Nat BY Fields DEF WalkInv, TypeInv, Entry
  <2> QED BY <1>2, <2>1, <2>2, FileTypes DEF WalkInv
<1>4. Table' = Table /\ Size' = Size
  BY <1>1 DEF Table, Size
<1>5. AtEntry /\ AtAux BY DEF WalkInv, Started
<1>6. off \in DOMAIN file.at /\ file.at[off].is = list /\ off + Size <= Table.end
  BY <1>5 DEF WalkInv, TypeInv, Holds, AtAux
<1>7. s \in Seq(Nat) /\ Positions(read'[list]) = Append(s, off)
  BY <1>2, PositionsOf
<1>8. /\ Along(file, Append(s, off), Table.off, list, Size, Table.end)
      /\ LeadsOn(file, off, Size) => Onward(file, Append(s, off), Table.off, Size, off')
      /\ Entry.next = 0 => Ended(file, Append(s, off))
  <2>1. Along(file, s, Table.off, list, Size, Table.end)
    BY <1>2, <1>3 DEF WalkInv, ListWalked, Table
  <2>2. Onward(file, s, Table.off, Size, off) BY <1>5 DEF AtEntry
  <2>3. off' = off + file.at[off].next /\ Entry.next = file.at[off].next
    BY <1>1 DEF Entry
  <2> HIDE DEF s
  <2> QED BY <1>3, <1>6, <1>7, <2>1, <2>2, <2>3, AlongMore
<1>9. AuxWalked(file, list, e)
  BY <1>5, <1>6 DEF AuxWalked, AtAux, Entry, Table
<1>10. ListWalked(file, list, read'[list])
  <2>1. ASSUME NEW k \in 1 .. Len(read'[list])
        PROVE  AuxWalked(file, list, read'[list][k])
    <3>1. CASE k = Len(read[list]) + 1
      <4>1. read'[list][k] = e BY <1>2, <3>1
      <4> QED BY <1>9, <4>1
    <3>2. CASE k \in 1 .. Len(read[list])
      <4>1. read'[list][k] = read[list][k] BY <1>2, <3>2
      <4> QED BY <1>2, <3>2, <4>1 DEF WalkInv, ListWalked
    <3>3. Len(read'[list]) = Len(read[list]) + 1 BY <1>2
    <3> QED BY <1>3, <3>1, <3>2, <3>3
  <2>2. Along(file, Positions(read'[list]), file[list].off, list, SizeOf(list), file[list].end)
    BY <1>3, <1>7, <1>8 DEF Table
  <2> QED BY <2>1, <2>2 DEF ListWalked
<1>11. \A l \in {"def", "need"} : ListWalked(file, l, read[l])'
  BY <1>1, <1>2, <1>10 DEF WalkInv
<1>12. list = "need" => Whole("def")'
  <2>1. list = "need" => read'.def = read.def BY <1>2
  <2> QED BY <1>1, <2>1 DEF WalkInv, Whole
<1>13. list = "def" => read'.need = <<>>
  BY <1>2 DEF WalkInv
<1>14. Len(read'[list]) = Len(read[list]) + 1 /\ read'[list] # <<>> BY <1>2
<1>15. off + Size >= Table.off + Len(read'[list]) * Size
  <2>1. off >= Table.off + Len(read[list]) * Size BY <1>5 DEF AtEntry
  <2>2. \A n, z \in Nat : (n + 1) * z = n * z + z /\ n * z \in Nat OBVIOUS
  <2>3. Len(read'[list]) * Size = Len(read[list]) * Size + Size
        /\ Len(read[list]) * Size \in Nat
    BY <1>3, <1>14, <2>2
  <2> QED BY <1>3, <2>1, <2>3
<1>16. maxEnd <= Table.end /\ off + Size <= maxEnd
  BY <1>5 DEF WalkInv, Started, AtAux
<1>17. CASE IsLast
  <2>1. pc' = "check" BY <1>1, <1>17
  <2>2. Whole(list)'
    <3>1. Ended(file, Positions(read'[list])) BY <1>7, <1>8, <1>17 DEF LinkOk
    <3>2. Len(read'[list]) = file[list].num BY <1>14, <1>17 DEF IsLast, Table
    <3> QED BY <1>1, <3>1, <3>2 DEF Whole
  <2>3. Len(read'[list]) * Size \in Nat BY <1>3, <1>14
  <2>4. maxEnd >= Table.off + Len(read'[list]) * Size
    BY <1>3, <1>15, <1>16, <2>3
  <2> QED BY <1>1, <1>4, <1>11, <1>12, <1>13, <1>16, <2>1, <2>2, <2>4
          DEF WalkInv, Started
<1>18. CASE ~IsLast
  <2>1. pc' = "entry" BY <1>1, <1>18
  <2>2. LeadsOn(file, off, Size) BY <1>18 DEF LinkOk, LeadsOn, Entry
  <2>3. off' >= off + Size
    BY <1>1, <1>3, <2>2 DEF LeadsOn, Entry
  <2>4. Len(read'[list]) * Size \in Nat BY <1>3, <1>14
  <2>5. off' >= Table.off + Len(read'[list]) * Size
    BY <1>1, <1>3, <1>15, <2>3, <2>4, SMTT(30)
  <2>6. AtEntry' BY <1>1, <1>4, <1>7, <1>8, <2>2, <2>5 DEF AtEntry
  <2> QED BY <1>1, <1>4, <1>11, <1>12, <1>13, <1>14, <1>16, <2>1, <2>6
          DEF WalkInv, Started
<1> QED BY <1>17, <1>18

(* Every step keeps the walk in order.                                     *)
LEMMA WalkStep ==
  ASSUME WalkInv, [Next]_vars
  PROVE  WalkInv'
<1>0. TypeInv' BY TypeStep DEF WalkInv
<1>1. CASE Refuse BY <1>0, <1>1, WalkRefused
<1>2. CASE OutOfMemory BY <1>0, <1>2, WalkRefused DEF OutOfMemory
<1>3. CASE FindEntries
  <2>1. CASE /\ Goto("absent") \/ (pc = "find" /\ Goto("start"))
             /\ UNCHANGED <<file, cursor, heap>>
    BY <1>0, <2>1 DEF WalkInv, Goto, cursor, Started, Whole
  <2> QED BY <1>1, <1>3, <2>1 DEF FindEntries
<1>4. CASE SkipList
  <2>1. Whole(list) BY <1>4 DEF SkipList, Whole, Table
  <2> QED BY <1>0, <1>4, <2>1, WalkListDone DEF SkipList
<1>5. CASE StartVerdef \/ StartVerneed
  <2>1. ASSUME NEW arrays, StartAt(arrays) PROVE WalkInv'
    <3>1. pc = "start" /\ Table.kind = "present" BY <1>5 DEF StartVerdef, StartVerneed
    <3> QED BY <1>0, <2>1, <3>1, WalkStarts
  <2>2. CASE /\ StartVerneed /\ Table.num = 0 /\ InSegment
             /\ Goto("check") /\ off' = Table.off /\ maxEnd' = Table.off
             /\ UNCHANGED <<file, list, auxOff, auxs, read, base, claimed, heap, ret, oom>>
    BY <1>0, <2>2, EmptyListWalked DEF StartVerneed
  <2> QED BY <1>1, <1>2, <1>5, <2>1, <2>2 DEF StartVerdef, StartVerneed
<1>6. CASE ReadVerdef \/ ReadVerneed
  <2>1. CASE EntryRead /\ ((VerdefOk /\ list = "def") \/ (VerneedOk /\ list = "need"))
    <3>1. pc = "entry" BY <1>6 DEF ReadVerdef, ReadVerneed
    <3>2. Inside(off, Size) BY <2>1 DEF VerdefOk, VerneedOk, Size
    <3> QED BY <1>0, <2>1, <3>1, <3>2, WalkEntryRead
  <2> QED BY <1>1, <1>2, <1>6, <2>1 DEF ReadVerdef, ReadVerneed
<1>7. CASE ReadVerdaux
  <2>1. CASE VerdauxOk /\ AuxRead(DefAuxSize)
    <3>1. pc = "aux" /\ AuxSizeOf(list) = DefAuxSize /\ AuxKindOf(list) = "defaux"
      BY <1>7 DEF ReadVerdaux, AuxSizeOf, AuxKindOf
    <3>2. /\ Inside(auxOff, DefAuxSize) /\ Holds(auxOff, "defaux")
          /\ LinkOk(file.at[auxOff].next, DefAuxSize, LastAux, auxOff)
      BY <2>1 DEF VerdauxOk
    <3> QED BY <1>0, <2>1, <3>1, <3>2, WalkAuxRead
  <2> QED BY <1>1, <1>7, <2>1 DEF ReadVerdaux
<1>8. CASE ReadVernaux
  <2>1. CASE VernauxOk /\ AuxRead(NeedAuxSize)
    <3>1. pc = "aux" /\ AuxSizeOf(list) = NeedAuxSize /\ AuxKindOf(list) = "needaux"
      BY <1>8 DEF ReadVernaux, AuxSizeOf, AuxKindOf
    <3>2. /\ Inside(auxOff, NeedAuxSize) /\ Holds(auxOff, "needaux")
          /\ LinkOk(file.at[auxOff].next, NeedAuxSize, LastAux, auxOff)
      BY <2>1 DEF VernauxOk
    <3> QED BY <1>0, <2>1, <3>1, <3>2, WalkAuxRead
  <2> QED BY <1>1, <1>8, <2>1 DEF ReadVernaux
<1>9. CASE NextVerdef \/ NextVerneed
  <2>1. CASE EntryDone /\ LinkOk(Entry.next, Size, IsLast, off)
    <3>1. pc = "next" BY <1>9 DEF NextVerdef, NextVerneed
    <3> QED BY <1>0, <2>1, <3>1, WalkEntryDone
  <2> QED BY <1>1, <1>9, <2>1 DEF NextVerdef, NextVerneed, NextOk
<1>10. CASE CheckVerdef \/ CheckVerneed
  <2>1. CASE ListDone
    <3>1. pc = "check" BY <1>10 DEF CheckVerdef, CheckVerneed, Check
    <3>2. Whole(list) BY <3>1 DEF WalkInv
    <3> QED BY <1>0, <2>1, <3>1, <3>2, WalkListDone
  <2> QED BY <1>1, <1>2, <1>10, <2>1 DEF CheckVerdef, CheckVerneed, Check
<1>11. CASE Return
  BY <1>0, <1>11 DEF Return, Goto, cursor, WalkInv, Started, Whole
<1>12. CASE UNCHANGED vars
  BY <1>0, <1>12 DEF vars, WalkInv, Started, Whole, AtEntry, AtAux, Table, Size, Entry
<1> QED
  BY <1>3, <1>4, <1>5, <1>6, <1>7, <1>8, <1>9, <1>10, <1>11, <1>12 DEF Next

(* At first nothing has been read.                                         *)
LEMMA WalkInitially == Init => WalkInv
BY TypesInitially, EmptyWalk DEF Init, WalkInv, Started, Whole

(* The program's walk is in order in every state.                          *)
THEOREM WalkHolds == Spec => []WalkInv
<1>1. WalkInv /\ [Next]_vars => WalkInv' BY WalkStep
<1> QED BY <1>1, WalkInitially, PTL DEF Spec

(* A list that the program has read to its end, with the auxiliary lists,  *)
(* the loader can walk.                                                    *)
LEMMA WholeListWalkOk ==
  ASSUME WalkInv, NEW l \in {"def", "need"}, Whole(l)
  PROVE  ListWalkOk(file[l], l, SizeOf(l), AuxKindOf(l), AuxSizeOf(l))
<1> SUFFICES ASSUME file[l].kind = "present"
             PROVE  ListWalkOk(file[l], l, SizeOf(l), AuxKindOf(l), AuxSizeOf(l))
  BY DEF ListWalkOk
<1> DEFINE t == file[l]
           es == read[l]
           s == Positions(es)
<1>1. /\ es \in Seq(Ent) /\ SizeOf(l) \in Nat /\ AuxSizeOf(l) \in Nat
      /\ \A o \in DOMAIN file.at : file.at[o].next \in Nat
  BY FileTypes DEF WalkInv
<1>2. s \in Seq(Nat) /\ Len(s) = Len(es) BY <1>1, PositionsOf
<1>3. ListWalked(file, l, es) /\ Ended(file, s) /\ t.num = Len(s)
  BY <1>2 DEF WalkInv, Whole
<1>4. Along(file, s, t.off, l, SizeOf(l), t.end) BY <1>3 DEF ListWalked
<1>5. WalkOk(t.off, t.num, l, SizeOf(l), t.end)
  <2> HIDE DEF s, t, es
  <2> QED BY <1>1, <1>2, <1>3, <1>4, LoaderWalks
<1>6. \A k \in 1 .. t.num : Visited(t.off, t.num)[k] = s[k]
  <2> HIDE DEF s, t, es
  <2> QED BY <1>2, <1>3, <1>4, LoaderVisits
<1>7. ASSUME NEW k \in 1 .. t.num
      PROVE  LET o == Visited(t.off, t.num)[k] IN
             WalkOk(o + file.at[o].aux, file.at[o].cnt, AuxKindOf(l), AuxSizeOf(l), t.end)
  <2> DEFINE e == es[k]
  <2>1. k \in 1 .. Len(es) BY <1>2, <1>3
  <2>2. e \in Ent /\ AuxWalked(file, l, e) BY <1>1, <1>3, <2>1 DEF ListWalked
  <2>3. Visited(t.off, t.num)[k] = e.at BY <1>6, <2>1 DEF Positions
  <2>4. e.auxs \in Seq(Nat) BY <2>2 DEF Ent
  <2>5. /\ Along(file, e.auxs, e.at + file.at[e.at].aux, AuxKindOf(l), AuxSizeOf(l), t.end)
        /\ Ended(file, e.auxs) /\ Len(e.auxs) = file.at[e.at].cnt
    BY <2>2 DEF AuxWalked
  <2>6. WalkOk(e.at + file.at[e.at].aux, Len(e.auxs), AuxKindOf(l), AuxSizeOf(l), t.end)
    <3> HIDE DEF e, t
    <3> QED BY <1>1, <2>4, <2>5, LoaderWalks
  <2> QED BY <2>3, <2>5, <2>6
<1> QED BY <1>5, <1>7 DEF ListWalkOk

(* In every file that parse_ver accepts, however its lists are linked, the *)
(* loader finds as many whole structures as are counted, each behind the   *)
(* last and inside the segment, and then stops.                            *)
THEOREM VersionsAreWalkable == Spec => []LoaderWalksVersions
<1>1. ASSUME WalkInv PROVE LoaderWalksVersions
  <2> SUFFICES ASSUME pc = "parsed" PROVE LoaderWalksVersions
    BY DEF LoaderWalksVersions
  <2>1. Whole("def") /\ Whole("need") BY <1>1 DEF WalkInv
  <2>2. /\ ListWalkOk(file["def"], "def", SizeOf("def"), AuxKindOf("def"), AuxSizeOf("def"))
        /\ ListWalkOk(file["need"], "need", SizeOf("need"), AuxKindOf("need"),
                      AuxSizeOf("need"))
    BY <1>1, <2>1, WholeListWalkOk
  <2> QED BY <2>2 DEF LoaderWalksVersions, SizeOf, AuxKindOf, AuxSizeOf
<1> QED BY <1>1, WalkHolds, PTL

(* The lists take at least the room of their entries and end in their      *)
(* segment, so the check that would call this impossible never fails.      *)
THEOREM SizesAreRight == Spec => []NothingSeriouslyWrong
<1>1. ASSUME WalkInv PROVE NothingSeriouslyWrong
  <2> SUFFICES ASSUME pc = "check" PROVE SizeOk BY DEF NothingSeriouslyWrong
  <2>1. /\ list \in {"def", "need"} /\ Table.off \in Nat /\ Size \in Nat
        /\ read[list] \in Seq(Ent) /\ maxEnd \in Nat
    BY <1>1, FileTypes DEF WalkInv, TypeInv, TypeOK
  <2>2. maxEnd <= Table.end /\ maxEnd >= Table.off + Len(read[list]) * Size
    BY <1>1 DEF WalkInv
  <2>3. Table.num = Len(read[list]) /\ Table.kind = "present"
    BY <1>1 DEF WalkInv, Whole, Table
  <2>4. Len(read[list]) * Size \in Nat BY <2>1
  <2> QED BY <2>1, <2>2, <2>3, <2>4 DEF SizeOk
<1> QED BY <1>1, WalkHolds, PTL

==============================================================================
