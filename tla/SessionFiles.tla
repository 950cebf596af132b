---------------------------- MODULE SessionFiles ----------------------------
(***************************************************************************)
(* What a session promises about the names of its files: it writes only    *)
(* with both of its folders there, the chunks of both kinds share one      *)
(* count from 0, and no chunk of the session replaces another.             *)
(*                                                                         *)
(* ScanControl and Manifest both implement it, the one from the side of    *)
(* stateWatcher(), the other from the side of the drive: this is what each *)
(* may assume of the other.                                                *)
(***************************************************************************)
EXTENDS Naturals

VARIABLES
  ready,   \* both folders are there
  next,    \* the number of the next chunk
  files    \* the chunks of the session, by kind and number

vars == << ready, next, files >>

Init == ready = FALSE /\ next = 0 /\ files = {}

MakeFolders ==
  /\ ~ready /\ ready' = TRUE
  /\ UNCHANGED << next, files >>

Write(kind) ==
  /\ ready
  /\ files' = files \cup {<< kind, next >>}
  /\ next' = next + 1
  /\ UNCHANGED ready

\* The process or the power ends; the next session has folders of its own.
End == ready /\ ready' = FALSE /\ next' = 0 /\ files' = {}

Next == MakeFolders \/ (\E kind \in {"cs", "ss"} : Write(kind)) \/ End

Spec == Init /\ [][Next]_vars

=============================================================================
