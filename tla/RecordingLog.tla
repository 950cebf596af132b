---------------------------- MODULE RecordingLog ----------------------------
(***************************************************************************)
(* What recording promises for one data stream of the LiDAR: a session is  *)
(* cut into consecutive pieces, every packet received from its beginning to*)
(* its last cut is in exactly one piece, and only what arrives between the *)
(* last cut and the end of the session is left out.  The pieces of a       *)
(* session all go to its own directory, and a stop scan is one piece.      *)
(***************************************************************************)
EXTENDS Naturals, Sequences

CONSTANT MaxPackets

VARIABLES
  phase,      \* "off", "on", or "closing" after the last cut of a session
  dir,        \* the directory of the session, "none" between sessions
  received,   \* number of packets received so far
  first,      \* the first packet of the session that no cut has taken
  cuts        \* the pieces: the packets of each and the directory they go to

vars == << phase, dir, received, first, cuts >>

Piece(lo, hi) == [i \in 1 .. hi + 1 - lo |-> lo + i - 1]

Init == phase = "off" /\ dir = "none" /\ received = 0 /\ first = 0 /\ cuts = << >>

Receive ==
  /\ received < MaxPackets
  /\ received' = received + 1
  /\ UNCHANGED << phase, dir, first, cuts >>

Open ==
  /\ phase = "off"
  /\ phase' = "on"
  /\ dir' \in {"cs", "ss"}
  /\ first' = received + 1
  /\ UNCHANGED << received, cuts >>

\* A cut takes everything received since the cut before; only a continuous scan
\* goes on after one.
Cut(next) ==
  /\ phase = "on"
  /\ next = "on" => dir = "cs"
  /\ phase' = next
  /\ cuts' = Append(cuts, [dir |-> dir, data |-> Piece(first, received)])
  /\ first' = received + 1
  /\ UNCHANGED << dir, received >>

Close ==
  /\ phase = "closing"
  /\ phase' = "off"
  /\ dir' = "none"
  /\ first' = 0
  /\ UNCHANGED << received, cuts >>

Next == Receive \/ Open \/ Cut("on") \/ Cut("closing") \/ Close

Spec == Init /\ [][Next]_vars

=============================================================================
