------------------------------ MODULE MCSymVer ------------------------------
(***************************************************************************)
(* Instances of SymVer.  The structures have their sizes in words; version *)
(* indices have four bits, the highest of which is the hidden flag.  The   *)
(* versions v1 and v2 have the same hash.                                  *)
(***************************************************************************)
EXTENDS SymVerProperties

MCNames == {"base", "v1", "v2", "lib1", "lib2"}
MCSysvHash == [x \in MCNames |-> IF x \in {"v1", "v2"} THEN 1 ELSE 2]

(* A file image from a set of pairs of an offset and a structure.          *)
Image(S) == [o \in {p[1] : p \in S} |-> (CHOOSE p \in S : p[1] = o)[2]]

Def(ndx, x, cnt, aux, next) ==
  [is |-> "def", ok |-> TRUE, base |-> ndx = 1, ndx |-> ndx, hash |-> MCSysvHash[x],
   cnt |-> cnt, aux |-> aux, next |-> next]
DefAux(x, next) == [is |-> "defaux", name |-> x, next |-> next]
Need(x, cnt, aux, next) ==
  [is |-> "need", ok |-> TRUE, name |-> x, cnt |-> cnt, aux |-> aux, next |-> next]
NeedAux(x, ndx, next) ==
  [is |-> "needaux", ok |-> TRUE, name |-> x, hash |-> MCSysvHash[x], ndx |-> ndx, next |-> next]

NoList == [kind |-> "absent", num |-> 0, off |-> 0, end |-> 0,
           sec |-> [present |-> FALSE, ok |-> TRUE, size |-> 0, num |-> 0]]
List(num, start, end) == [NoList EXCEPT !.kind = "present", !.num = num, !.off = start, !.end = end]

(* What a link editor writes: each definition with its auxiliary entries   *)
(* behind it; dependencies in the same way or all before their entries.    *)
LinkedDefs(n) ==
  {<<0, Def(1, "base", 1, 5, IF n = 1 THEN 0 ELSE 7)>>, <<5, DefAux("base", 0)>>,
   <<7, Def(2, "v1", 1, 5, IF n = 2 THEN 0 ELSE 7)>>, <<12, DefAux("v1", 0)>>,
   <<14, Def(3, "v2", 2, 5, 0)>>, <<19, DefAux("v2", 2)>>, <<21, DefAux("v1", 0)>>}

LinkedNeeds(n, grouped) ==
  IF grouped
  THEN {<<24, Need("lib1", 2, 8, IF n = 1 THEN 0 ELSE 4)>>, <<28, Need("lib2", 1, 12, 0)>>,
        <<32, NeedAux("v1", 4, 4)>>, <<36, NeedAux("v2", 5, 0)>>, <<40, NeedAux("v1", 6, 0)>>}
  ELSE {<<24, Need("lib1", 2, 4, IF n = 1 THEN 0 ELSE 12)>>, <<28, NeedAux("v1", 4, 4)>>,
        <<32, NeedAux("v2", 5, 0)>>, <<36, Need("lib2", 1, 4, 0)>>, <<40, NeedAux("v1", 6, 0)>>}

LinkedFile(d, n, grouped, sections) ==
  LET Section(num, size) == [present |-> sections, ok |-> TRUE, size |-> size, num |-> num]
  IN  [versym |-> IF d + n = 0 THEN "absent" ELSE "present",
       def  |-> IF d = 0 THEN NoList
                ELSE [List(d, 0, 44) EXCEPT !.sec = Section(d, IF d = 3 THEN 23 ELSE 7 * d)],
       need |-> IF n = 0 THEN NoList
                ELSE [List(n, 24, 44) EXCEPT !.sec = Section(n, IF n = 2 \/ grouped THEN 20 ELSE 12)],
       needed |-> {"lib1", "lib2"},
       at |-> Image(LinkedDefs(d) \cup LinkedNeeds(n, grouped))]

LinkedFiles == {LinkedFile(d, n, g, s) : d \in 0 .. 3, n \in 0 .. 2, g \in BOOLEAN, s \in BOOLEAN}

(* A link editor's file parses, unless memory runs out.                    *)
LinkedParsed == pc = "refused" /\ file \in LinkedFiles => oom

(* Definitions: two entries and their lists, with links into the right     *)
(* structure, the wrong one, no structure, and over the segment's end.     *)
(* A link of 1 leads into the structure itself: the link is then also the  *)
(* name of the next, which overlaps it.                                    *)
DefFiles ==
  {[LinkedFile(2, 0, FALSE, FALSE) EXCEPT
      !.def.num = num, !.def.end = end,
      !.at = Image({<<0, Def(1, "base", 1, a1, n1)>>, <<5, DefAux("base", x1)>>,
                    <<7, Def(i2, "v1", c2, 5, n2)>>, <<12, DefAux("v1", x2)>>,
                    IF x2 = 1 THEN <<13, DefAux("base", 0)>> ELSE <<14, DefAux(last, 0)>>})] :
      num \in 1 .. 2, end \in {15, 20}, a1 \in {5, 12}, n1 \in {0, 5, 7}, x1 \in {0, 2},
      i2 \in {0, 1, 2, 10}, c2 \in 1 .. 2, n2 \in {0, 7}, x2 \in {0, 1, 2},
      last \in {"base", "v1"}}

(* Dependencies: the same, and all pairs of version indices.               *)
NeedFiles ==
  {[LinkedFile(1, 2, FALSE, FALSE) EXCEPT
      !.need.num = num, !.need.end = end,
      !.at = Image({<<0, Def(1, "base", 1, 5, 0)>>, <<5, DefAux("base", 0)>>,
                    <<24, Need("lib1", c1, a1, n1)>>, <<28, NeedAux("v1", i1, x1)>>,
                    <<32, NeedAux("v2", 2, 0)>>, <<36, Need(lib, 1, 4, 0)>>,
                    <<40, NeedAux("v1", i2, 0)>>})] :
      num \in 1 .. 2, end \in {43, 44}, c1 \in 1 .. 2, a1 \in {4, 8}, n1 \in {0, 8, 12},
      i1 \in {0, 1, 3, 8, 10, 11}, x1 \in {0, 4}, i2 \in {2, 3, 11}, lib \in {"lib1", "v1"}}

OddFiles ==
  LET f == LinkedFile(3, 2, TRUE, TRUE) IN
  {[f EXCEPT !.versym = "absent"], [f EXCEPT !.versym = "duplicate"],
   [f EXCEPT !.def.kind = "broken"], [f EXCEPT !.need.kind = "broken"],
   [f EXCEPT !.needed = {}], [f EXCEPT !.needed = {"lib1", "outside"}],
   [f EXCEPT !.def.sec.ok = FALSE], [f EXCEPT !.need.sec.size = 19],
   [f EXCEPT !.at[21].name = "base"], [f EXCEPT !.at[21].name = "v2"],
   [f EXCEPT !.at[19].name = "v1"], [f EXCEPT !.at[0].base = FALSE],
   [f EXCEPT !.at[0].ndx = 4, !.at[0].base = FALSE], [f EXCEPT !.at[36].name = "v1"],
   [f EXCEPT !.at[36].hash = 2], [f EXCEPT !.at[28].ok = FALSE],
   [f EXCEPT !.def.num = 0], [f EXCEPT !.def.num = 9], [f EXCEPT !.need.num = 0],
   [f EXCEPT !.need.num = 9], [f EXCEPT !.need.num = 0, !.need.sec.present = FALSE],
   [f EXCEPT !.at[7].aux = 4], [f EXCEPT !.at[7].cnt = 0], [f EXCEPT !.at[28].aux = 3],
   [f EXCEPT !.at[28].cnt = 0], [f EXCEPT !.at[21].name = "outside"],
   [f EXCEPT !.def.kind = "absent", !.need.kind = "absent"]}

AnyFiles == LinkedFiles \cup OddFiles \cup DefFiles \cup NeedFiles

=============================================================================
