-------------------------- MODULE DynSymProperties --------------------------
(***************************************************************************)
(* What must be true of parse_dynsym.  The reference is the dynamic loader *)
(* that will use the tables: the lookups below are its algorithms, and     *)
(* they, unlike the program, check nothing on their way.                   *)
(***************************************************************************)
EXTENDS DynSym

Done == pc \in {"accepted", "refused"}

(* Every variable keeps its type; in particular the length of the GNU      *)
(* chain fits the 32-bit word that find_gnu_hash_nchain returns it in.     *)
TypeOK ==
  /\ pc \in {"findSymtab", "dtHash", "dtGnuHash", "nchain", "gnuChain", "count",
             "parseDyn", "readSyms", "sysvStart", "sysvWalk", "gnuStart", "gnuBucket",
             "gnuWalk", "section", "shndx", "accepted", "refused"}
  /\ sysv \in {"absent", "invalid", "ok"}
  /\ gnu \in [ret : {"absent", "invalid", "ok"}, nchain : 0 .. MaxWord]
  /\ nsyms \in Nat
  /\ walk \in [b : Nat, i : 0 .. MaxWord]
  /\ seen \subseteq 1 .. MaxWord
  /\ heap \subseteq {"hash.buckets", "hash.chain", "gnu.bloom", "gnu.buckets",
                    "gnu.chain", "syms", "seen", "shndx"}
  /\ oom \in BOOLEAN

-----------------------------------------------------------------------------
(* The loader's walk through bucket b of DT_HASH: the k-th symbol it       *)
(* visits, 0 once it has stopped.                                          *)
SysvPath(b) ==
  LET at[k \in 0 .. nsyms] ==
        IF k = 0 THEN Bucket(b) ELSE IF at[k - 1] = 0 THEN 0 ELSE Chain(at[k - 1])
  IN  at

SysvFinds(x) ==
  LET path == SysvPath(SysvHash[x] % NBucket)
  IN  \E k \in 0 .. nsyms : path[k] # 0 /\ Sym(path[k]).name = x

(* The loader's walk through DT_GNU_HASH from symbol `first` visits the    *)
(* symbols up to j.                                                        *)
GnuVisits(first, j) ==
  \A k \in first .. j - 1 : ~Ends(GnuChain(k - file.gnu.symoffset))

(* The loader's bloom filter test.                                         *)
BothBits(h) ==
  \A bit \in {h, h \div 2 ^ file.gnu.bloomShift} :
    bit % ClassBits \in At(file.gnu.bloom, (h \div ClassBits) % file.gnu.bloomSize)

GnuFinds(x) ==
  LET h     == GnuHash[x]
      first == GnuBucket(h % file.gnu.nbuckets)
  IN  /\ BothBits(h)
      /\ first # 0
      /\ \E j \in first .. nsyms - 1 :
            /\ GnuVisits(first, j)
            /\ GnuChain(j - file.gnu.symoffset) \div 2 = h \div 2
            /\ Sym(j).name = x

UsesSysv == sysv = "ok" /\ NBucket > 0
UsesGnu  == gnu.ret = "ok" /\ ~CanonicallyEmpty /\ file.gnu.nbuckets > 0

(* However it enters a table of an accepted file, the loader stops, and    *)
(* meets no index beyond the symbols that were read.                       *)
LoaderStaysInside ==
  pc = "accepted" =>
    /\ UsesSysv => \A b \in 0 .. NBucket - 1 :
                     /\ \A k \in 0 .. nsyms : SysvPath(b)[k] < nsyms
                     /\ SysvPath(b)[nsyms] = 0
    /\ UsesGnu => \A b \in 0 .. file.gnu.nbuckets - 1 :
                    GnuBucket(b) # 0 =>
                      \E j \in GnuBucket(b) .. nsyms - 1 :
                        Ends(GnuChain(j - file.gnu.symoffset))

(* In an accepted file the loader finds every symbol that DT_HASH links    *)
(* and every symbol from symoffset on that DT_GNU_HASH is there for.       *)
LoaderFindsSymbols ==
  pc = "accepted" =>
    /\ UsesSysv => \A b \in 0 .. NBucket - 1, k \in 0 .. nsyms :
                     SysvPath(b)[k] # 0 => SysvFinds(Sym(SysvPath(b)[k]).name)
    /\ UsesGnu => \A i \in file.gnu.symoffset .. nsyms - 1 : GnuFinds(Sym(i).name)

(* parse_dynsym promises to look up every symbol of the table (comment at  *)
(* its call of validate_dynamic_hash_tables).                              *)
EverySymbolLookedUp ==
  pc = "accepted" /\ UsesSysv => \A i \in 1 .. nsyms - 1 : SysvFinds(Sym(i).name)

-----------------------------------------------------------------------------
(* No pointer dangles; a refusal leaves nothing allocated, wherever it     *)
(* happens, and success leaves only what the caller can free.              *)
NothingLeaks ==
  /\ held \subseteq heap
  /\ pc = "refused" => heap = {}
  /\ pc = "accepted" => heap = held

(* The walks end, on tables with cycles and without ends too.              *)
Terminates == <>Done

=============================================================================
