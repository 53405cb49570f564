------------------------------ MODULE MCDynSym ------------------------------
(***************************************************************************)
(* Instances of DynSym.  Words have three bits.  The symbols are a, b, c;  *)
(* with two buckets GNU hashing puts a and c into bucket 0, b into bucket  *)
(* 1, and the hashes of b and c differ in the last bit only.               *)
(***************************************************************************)
EXTENDS DynSymProperties

MCNames == {"", "a", "b", "c"}
MCSysvHash == [x \in MCNames |-> CASE x = "a" -> 1 [] x = "b" -> 2 [] x = "c" -> 3 [] OTHER -> 0]
MCGnuHash  == [x \in MCNames |-> CASE x = "a" -> 2 [] x = "b" -> 5 [] x = "c" -> 4 [] OTHER -> 6]

Symbol(x) == [ZeroSym EXCEPT !.name = x, !.local = FALSE]

(* One symbol more than the tables count: the segment goes on.             *)
Symbols(order) == <<ZeroSym>> \o [i \in 1 .. Len(order) |-> Symbol(order[i])] \o <<Symbol("a")>>

NoSection == [present |-> FALSE, ok |-> TRUE, size |-> 0]
Section(n) == [present |-> TRUE, ok |-> TRUE, size |-> n]
NoHash == [kind |-> "absent", words |-> <<>>, sec |-> NoSection]
NoGnu == [kind |-> "absent", nbuckets |-> 0, symoffset |-> 1, bloomSize |-> 1, bloomShift |-> 1,
          bloom |-> <<{}>>, words |-> <<>>, sec |-> NoSection]

(* A file without section headers; WithSections adds the right ones.       *)
Stripped(order, hash, gnuHash) ==
  [symtab |-> TRUE, symbols |-> Symbols(order), sections |-> FALSE,
   dynsym |-> [present |-> FALSE, ok |-> TRUE, whole |-> TRUE, num |-> 0, info |-> 1],
   hash |-> hash, gnu |-> gnuHash,
   shndx |-> [kind |-> "absent", words |-> <<>>, sec |-> [count |-> 0, ok |-> TRUE, num |-> 0]]]

WithSections(f, n, gnuSize) ==
  [f EXCEPT !.sections = TRUE, !.dynsym.present = TRUE, !.dynsym.num = n,
            !.hash.sec = IF f.hash.kind = "absent" THEN NoSection
                         ELSE Section(2 + f.hash.words[1] + f.hash.words[2]),
            !.gnu.sec = IF f.gnu.kind = "absent" THEN NoSection ELSE Section(gnuSize)]

(* DT_HASH tables with any buckets and any chain.                          *)
SysvTable(buckets, chain) ==
  [NoHash EXCEPT !.kind = "present",
                 !.words = <<Len(buckets), Len(chain)>> \o buckets \o chain \o <<0>>]

SysvFiles ==
  {Stripped(<<"a", "b", "c">>, SysvTable(<<b1, b2>>, <<0>> \o c), NoGnu) :
     b1 \in 0 .. 4, b2 \in 0 .. 3, c \in [1 .. 3 -> 0 .. 3]}
  \cup {Stripped(<<"b">>, SysvTable(bs, c), NoGnu) :
          bs \in {<<>>, <<0>>, <<1>>}, c \in {<<>>, <<0, 0>>, <<0, 1>>, <<2, 2>>, <<0, 2>>}}

(* DT_GNU_HASH tables with any buckets and chains of the symbols' hashes.  *)
GnuTable(offset, buckets, chain, bloom) ==
  [NoGnu EXCEPT !.kind = "present", !.nbuckets = Len(buckets), !.symoffset = offset,
                !.bloomSize = Len(bloom), !.bloom = bloom, !.words = buckets \o chain]

FullBloom == <<{0, 1}>>

GnuFiles ==
  {Stripped(order, NoHash, GnuTable(1, <<b1, b2>>, c, FullBloom)) :
     order \in {<<"a", "c", "b">>, <<"a", "b", "c">>},
     b1 \in 0 .. 4, b2 \in 0 .. 4, c \in [1 .. 3 -> 2 .. 5]}
  \cup {Stripped(<<"a", "c", "b">>, NoHash, GnuTable(o, <<1, 3>>, <<2, 5, 5>>, <<w1, w2>>)) :
          o \in 1 .. 2, w1 \in SUBSET {0, 1}, w2 \in SUBSET {0, 1}}
  \cup {Stripped(<<"b", "c">>, NoHash, GnuTable(o, bs, c, FullBloom)) :
          o \in 0 .. 3, bs \in {<<>>, <<0>>, <<1>>, <<2>>}, c \in {<<>>, <<5>>, <<4, 5>>}}
  \cup {Stripped(<<"a">>, NoHash, GnuTable(1, <<1>>, [i \in 1 .. 8 |-> IF i = 8 THEN 3 ELSE 2],
                                           FullBloom))}

(* What a link editor makes of the exported symbols behind `unhashed`      *)
(* others: symbols ordered by bucket, both tables, a filter of all hashes. *)
Exported(n) == IF n = 0 THEN <<>> ELSE IF n = 1 THEN <<"b">> ELSE <<"a", "c", "b">>

LinkedSysv(k, n) ==
  SysvTable(<<IF k + n > 0 THEN k + n ELSE 0>>, [i \in 1 .. k + n + 1 |-> IF i < 3 THEN 0 ELSE i - 2])

(* Without exported symbols, symoffset is the number of symbols or 1.      *)
LinkedGnu(k, n, one) ==
  CASE n = 0 -> GnuTable(IF one THEN 1 ELSE k + 1, <<0>>, <<>>, <<{}>>)
    [] n = 1 -> GnuTable(k + 1, <<k + 1>>, <<5>>, FullBloom)
    [] OTHER -> GnuTable(k + 1, <<k + 1, k + 3>>, <<2, 5, 5>>, FullBloom)

LinkedFile(k, n, hash, gnuHash, one) ==
  Stripped([i \in 1 .. k |-> "a"] \o Exported(n),
           IF hash THEN LinkedSysv(k, Len(Exported(n))) ELSE NoHash,
           IF gnuHash THEN LinkedGnu(k, n, one) ELSE NoGnu)

(* The program cannot count the symbols of a file that has no sections, no *)
(* DT_HASH and an empty DT_GNU_HASH with symoffset 1, and says so.         *)
LinkedFiles ==
  LET Choices == {<<k, n, h, g, one>> \in (0 .. 2) \X (0 .. 2) \X BOOLEAN \X BOOLEAN \X BOOLEAN :
                    (h \/ g) /\ (one => g /\ n = 0)}
      Countable(d) == d[3] \/ d[2] > 0 \/ (~d[5] /\ d[1] > 0)
      Size(n) == LET g == LinkedGnu(0, n, FALSE) IN Len(g.words)
  IN  {LinkedFile(c[1], c[2], c[3], c[4], c[5]) : c \in {d \in Choices : Countable(d)}}
      \cup {WithSections(LinkedFile(c[1], c[2], c[3], c[4], c[5]),
                         c[1] + Len(Exported(c[2])) + 1, Size(c[2])) : c \in Choices}

(* A link editor's file is accepted, unless memory runs out.  (The linkers *)
(* parse_dt_gnu_hash makes allowance for are among them.)                  *)
LinkedAccepted == pc = "refused" /\ file \in LinkedFiles => oom

(* One part of a linked file is not what it should be.                     *)
OddFiles ==
  LET f == WithSections(LinkedFile(1, 2, TRUE, TRUE, FALSE), 5, 5)
      x == [f EXCEPT !.symbols[2].shndx = "xindex"]
      shndx == [kind |-> "present", words |-> <<"zero", "inside", "zero", "zero", "zero">>,
                sec |-> [count |-> 1, ok |-> TRUE, num |-> 5]]
  IN  {[f EXCEPT !.symtab = FALSE], [f EXCEPT !.hash.kind = "duplicate"],
       [f EXCEPT !.gnu.kind = "duplicate"], [f EXCEPT !.hash.words = <<1>>],
       [f EXCEPT !.gnu.bloomShift = 3], [f EXCEPT !.gnu.bloomSize = 0],
       [f EXCEPT !.gnu.bloomSize = 2], [f EXCEPT !.gnu.sec.ok = FALSE],
       [f EXCEPT !.dynsym.num = 4], [f EXCEPT !.dynsym.info = 2],
       [f EXCEPT !.symbols[3].local = TRUE], [f EXCEPT !.symbols[3].shndx = "outside"],
       [f EXCEPT !.symbols[2].shndx = "common"], [f EXCEPT !.symbols[1].name = "a"],
       [f EXCEPT !.hash.words = <<1, 4, 3, 0, 0, 1, 2>>], [f EXCEPT !.hash.kind = "absent"],
       Stripped(<<"a">>, NoHash, NoGnu), Stripped(<<"a">>, NoHash, LinkedGnu(1, 0, TRUE)),
       x, [x EXCEPT !.shndx = shndx], [x EXCEPT !.shndx = [shndx EXCEPT !.words[2] = "zero"]],
       [x EXCEPT !.shndx = [shndx EXCEPT !.kind = "duplicate"]],
       [x EXCEPT !.shndx = [shndx EXCEPT !.sec.count = 2]],
       [f EXCEPT !.shndx = [shndx EXCEPT !.words[2] = "inside"]]}

AnyFiles == SysvFiles \cup GnuFiles \cup OddFiles \cup LinkedFiles

(* The symbol c is in the table and on no chain.                           *)
UnlinkedSymbol == {Stripped(<<"a", "b", "c">>, SysvTable(<<2, 1>>, <<0, 0, 0, 0>>), NoGnu)}

=============================================================================
