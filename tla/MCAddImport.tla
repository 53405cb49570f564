---------------------------- MODULE MCAddImport ----------------------------
(* Instances of AddImport for TLC.                                         *)
EXTENDS AddImportRefinement, Layouts, TLC

MCImports == <<"new">>
MCNameLen == [x \in {"old", "new", "lib"} |-> IF x = "old" THEN 1 ELSE 2]

(* Lengths of a partial write: every other one, and none at all.           *)
SomeCuts == {2 * k : k \in 0 .. 60}
NoCuts == {}

(* Every mix of the options that change the layout, and every oddity.      *)
OrdinaryLayouts ==
  {[Plain EXCEPT !.phdr = p, !.interp = i, !.sections = s, !.nulls = n,
                 !.align = a, !.bss = b, !.tail = b] :
     p \in BOOLEAN, i \in BOOLEAN, s \in BOOLEAN, n \in 1 .. 3,
     a \in {1, 4, 8}, b \in {0, 3}}

Oddities == {"null phdr", "read-only dynamic", "bad link", "shared strings",
             "tls beyond", "truncated"}

OddLayouts ==
  {[Plain EXCEPT !.odd = d, !.nulls = n] : d \in Oddities, n \in {1, 3}}
  \cup {[Plain EXCEPT !.names = <<>>, !.phdr = p] : p \in BOOLEAN}

(* The paths differ in nothing but their names.                           *)
PathSymmetry == Permutations(Paths)

(* Files the tool patches twice, once, and not at all.                     *)
TwiceFiles ==
  {FileOf([Plain EXCEPT !.names = <<"old", "lib">>, !.nulls = n]) : n \in {1, 4}}
  \cup {FileOf(Plain), FileOf([Plain EXCEPT !.odd = "truncated"])}

(* As many sections as SHN_LORESERVE, counted in the first of them.         *)
ManySectionFiles == {FileOf([Plain EXCEPT !.odd = "extended numbering"])}

(* Addresses up to the last of the address space, and offsets up to the    *)
(* last that a field can hold.                                             *)
HighFiles ==
  {FileOf([Plain EXCEPT !.base = 4 * a, !.hole = h, !.nulls = n, !.bss = b,
                        !.sections = b = 1]) :
     a \in 5 .. 20, h \in {0, 1, 3}, n \in {1, 3}, b \in {1, 22, 23}}

LongFiles ==
  {FileOf([Plain EXCEPT !.hole = 0, !.nulls = n, !.tail = t]) : n \in {1, 3}, t \in 30 .. 75}

LayoutFiles ==
  {FileOf(o) : o \in OrdinaryLayouts \cup OddLayouts}
  \cup {f \in HighFiles \cup LongFiles : IsFile(f)}

=============================================================================
