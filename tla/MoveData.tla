------------------------------ MODULE MoveData ------------------------------
(***************************************************************************)
(* prepare_move_data of main.c: the one routine through which every moved  *)
(* structure passes.  It grows the data up to the end of the destination,  *)
(* zeroes the destination or copies the old contents there, and overwrites *)
(* what is left behind.                                                    *)
(***************************************************************************)
EXTENDS ElfBytes

(* prepare_move_data.                                                      *)
MoveOk(n, from, len, to, newLen) ==
  InBounds(from, len, n) /\ to <= MaxU - newLen

PaddedSize(n, to, newLen) == Max({n, to + newLen + 1})        \* mistaken

MovedSize(n, to, newLen) == Max({n, to + newLen})

(* The old range is overwritten, up to where the new one begins, but only  *)
(* when the data moves towards the end of the file.                        *)
CleanedTooFar(from, len, to, newLen) ==                        \* mistaken
  from .. Min({from + len, to})

Cleaned(from, len, to, newLen) ==
  IF to + newLen > from + len THEN from .. Min({from + len, to}) - 1
  ELSE Max({from + len, to}) .. to + newLen - 1

MovedData(wipe, b, n, from, len, to, newLen) ==
  [i \in 0 .. MovedSize(n, to, newLen) - 1 |->
     CASE i \in Cleaned(from, len, to, newLen) -> Filler
       [] wipe /\ i \in to .. to + newLen - 1 -> Zero
       [] ~wipe /\ i \in to .. to + Min({len, newLen}) - 1 -> b[from + (i - to)]
       [] OTHER -> IF i < n THEN b[i] ELSE Zero]

=============================================================================
