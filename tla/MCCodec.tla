------------------------------ MODULE MCCodec -------------------------------
(* An instance of Codec for TLC: a byte has two values, so that a Half is  *)
(* at most 3, a Word at most 15 and an Xword at most 255.                  *)
EXTENDS CodecProperties

(* One, and the values on either side of each limit of either class.       *)
MCEdges(n, signed) ==
  IF signed THEN {-(2 ^ (n - 1)), -9, -8, -1, 7, 8, 2 ^ (n - 1) - 1}
  ELSE {1, 2 ^ n - 1} \cup (IF n = 8 THEN {15, 16} ELSE {})

(* The file ends at several places inside the structure, right behind it   *)
(* and further on.                                                         *)
MCSlacks == {-40, -20, -5, -1, 0, 2}

=============================================================================
