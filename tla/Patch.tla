------------------------------- MODULE Patch --------------------------------
(***************************************************************************)
(* What a patching tool promises its user, whatever it does inside.  A run *)
(* makes one result of the file it is given, writes it over the output     *)
(* path in pieces, and says that it succeeded only when the whole result   *)
(* is there and has been approved.  It may give up at any moment.          *)
(***************************************************************************)
CONSTANTS Paths, Missing,
          Parts(_),        \* what an interrupted write of a file may leave
          IsPatch(_, _),   \* whether a file is a patched form of another
          Approved(_)      \* whether a file is fit for use

VARIABLES files,      \* the contents of the paths
          phase,      \* "idle", "working" or "writing"
          in, out,    \* the paths the user gave
          result,     \* what is being written
          approved,
          status      \* how the last run ended

vars == <<files, phase, in, out, result, approved, status>>

Init ==
  /\ DOMAIN files = Paths
  /\ in \in Paths /\ out \in Paths
  /\ phase = "idle" /\ result = Missing /\ approved = FALSE /\ status = "none"

Start ==
  /\ phase = "idle" /\ phase' = "working" /\ status' = "none"
  /\ in' \in Paths /\ out' \in Paths
  /\ UNCHANGED <<files, result, approved>>

Produce ==
  /\ phase = "working" /\ phase' = "writing"
  /\ files[in] # Missing /\ IsPatch(files[in], result')
  /\ approved' \in BOOLEAN /\ (approved' => Approved(result'))
  /\ UNCHANGED <<files, in, out, status>>

WritePart == files' \in {[files EXCEPT ![out] = f] : f \in Parts(result)}

Write ==
  /\ phase = "writing" /\ WritePart
  /\ UNCHANGED <<phase, in, out, result, approved, status>>

End(s) ==
  /\ phase' = "idle" /\ result' = Missing /\ approved' = FALSE /\ status' = s
  /\ UNCHANGED <<in, out>>

Finish ==
  /\ phase = "writing" /\ files' = [files EXCEPT ![out] = result]
  /\ End(IF approved THEN "success" ELSE "failure")

GiveUp ==
  /\ phase # "idle"
  /\ UNCHANGED files \/ (phase = "writing" /\ WritePart)
  /\ \E s \in {"failure", "aborted", "killed"} : End(s)

Next == Start \/ Produce \/ Write \/ Finish \/ GiveUp

Spec == Init /\ [][Next]_vars

=============================================================================
