------------------------ MODULE AddImportRefinement -------------------------
(* The program, seen from outside, is a patching tool.                     *)
EXTENDS AddImportProperties

Phase ==
  CASE pc = "idle" -> "idle"
    [] pc \in {"open", "write", "close"} -> "writing"
    [] OTHER -> "working"

Result == IF Phase = "writing" THEN Patched ELSE Missing

PartsOf(f) == {EmptyFile, f} \cup {Prefix(f, n) : n \in {k \in Cuts : k < f.size}}

(* Bytes outside of the structures that move keep their values.            *)
ForeignKept(old, new) ==
  /\ new.size >= old.size
  /\ \A i \in 0 .. old.size - 1 :
        (\A r \in Rewritten(old.buf) : ~Within(i, r)) => new.buf[i] = old.buf[i]

ImportPatch(old, new) ==
  /\ ForeignKept(old, new)
  /\ Tidy(old.buf) => ImportsAdded(old.buf, new.buf)

Parses(f) == ParseElf(f.buf, f.size)

Tool == INSTANCE Patch WITH
  files <- disk, phase <- Phase, in <- argIn, out <- argOut, result <- Result,
  approved <- sane, status <- exit,
  Parts <- PartsOf, IsPatch <- ImportPatch, Approved <- Parses

(* The same promise for any file, tidy or not: of the patch it says only   *)
(* what it keeps.                                                          *)
Keeper == INSTANCE Patch WITH
  files <- disk, phase <- Phase, in <- argIn, out <- argOut, result <- Result,
  approved <- sane, status <- exit,
  Parts <- PartsOf, IsPatch <- ForeignKept, Approved <- Parses

(* No path but the output's ever changes, what is written is one result    *)
(* made of the input as it was, and the tool reports success exactly when  *)
(* all of the result is there and the parser has accepted it: over two     *)
(* runs, in place or not, with kills and failed calls at every step.       *)
IsPatchingTool == Tool!Spec

=============================================================================
