-------------------------- MODULE SymVerProperties --------------------------
(***************************************************************************)
(* What must be true of parse_ver.  As for the hash tables, the reference  *)
(* is the dynamic loader: it follows the links until one is 0, counts      *)
(* nothing and checks nothing.                                             *)
(***************************************************************************)
EXTENDS SymVer

Done == {"absent", "parsed", "refused"}

(* Every variable keeps its type; each step frees only its own list.       *)
TypeOK ==
  /\ pc \in Done \cup {"find", "start", "entry", "aux", "next", "check", "end"}
  /\ list \in {"def", "need"}
  /\ off \in Nat /\ auxOff \in Nat /\ maxEnd \in Nat
  /\ auxs \in Seq(Nat)
  /\ read \in [def  : Seq([at : Nat, auxs : Seq(Nat)]),
               need : Seq([at : Nat, auxs : Seq(Nat)])]
  /\ base \subseteq 1 .. Len(read.def)
  /\ claimed \subseteq 0 .. HiddenFlag - 1
  /\ heap \subseteq {"def", "need", "needed"} \X Nat
  /\ ret \in {-1, 0, 1} /\ (pc \notin Done => ret = 0)
  /\ oom \in BOOLEAN

-----------------------------------------------------------------------------
(* The k-th structure the loader visits, beginning at `first`.             *)
Visited(first, n) ==
  LET at[k \in 1 .. n] ==
        IF k = 1 THEN first
        ELSE IF at[k - 1] \in DOMAIN file.at
             THEN at[k - 1] + file.at[at[k - 1]].next ELSE at[k - 1]
  IN  at

(* They are n structures of one kind, each behind the last and before      *)
(* `end`, and the n-th is the first without a link.                        *)
WalkOk(first, n, kind, size, end) ==
  LET at == Visited(first, n) IN
  \A k \in 1 .. n :
    /\ Holds(at[k], kind)
    /\ at[k] + size <= (IF k < n THEN at[k + 1] ELSE end)
    /\ file.at[at[k]].next = 0 <=> k = n

ListWalkOk(t, kind, size, auxKind, auxSize) ==
  t.kind = "present" =>
    /\ WalkOk(t.off, t.num, kind, size, t.end)
    /\ \A k \in 1 .. t.num :
         LET o == Visited(t.off, t.num)[k] IN
         WalkOk(o + file.at[o].aux, file.at[o].cnt, auxKind, auxSize, t.end)

(* In a file that parses, the loader's walks along both lists and along    *)
(* each auxiliary list end after as many structures as are counted, never  *)
(* go back and never leave the segment.                                    *)
LoaderWalksVersions ==
  pc = "parsed" => /\ ListWalkOk(file.def, "def", DefSize, "defaux", DefAuxSize)
                   /\ ListWalkOk(file.need, "need", NeedSize, "needaux", NeedAuxSize)

(* The positions of version indices in what has been read, 0 excepted.     *)
Indexed ==
  {<<"def", i, 0>> : i \in 1 .. Len(read.def)}
    \cup {p \in UNION {{<<"need", i, k>> : k \in 1 .. Len(read.need[i].auxs)} :
                         i \in 1 .. Len(read.need)} :
            file.at[read.need[p[2]].auxs[p[3]]].ndx # 0}

IndexAt(p) ==
  (IF p[1] = "def" THEN file.at[read.def[p[2]].at].ndx
                   ELSE file.at[read.need[p[2]].auxs[p[3]]].ndx) % HiddenFlag

(* A symbol's entry in DT_VERSYM, whose highest bit is a flag, means at    *)
(* most one version, among definitions and dependencies together.          *)
IndexMeansOneVersion ==
  \A p, q \in Indexed :
    IndexAt(p) # 0 /\ (p # q => IndexAt(p) # IndexAt(q))

(* The check that parse_verdef and parse_verneed follow by the message     *)
(* that something has gone seriously wrong never fails.                    *)
NothingSeriouslyWrong == pc = "check" => SizeOk

(* However parse_ver ends, it leaves nothing allocated (main passes it no  *)
(* place for results).                                                     *)
NothingLeaks == pc \in Done => heap = {}

(* The header promises 0 for version information that is valid.            *)
SuccessReturnsZero == pc = "parsed" => ret = 0

=============================================================================
