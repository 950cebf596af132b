------------------------------ MODULE RtkNmea ------------------------------
(***************************************************************************)
(* The process of extras/rtkNmea/main.cpp, a subscriber of the publisher:  *)
(* clientThread() follows the mode and the directory, NMEACallback() runs  *)
(* in the thread that reads the receiver, collects its sentences during a  *)
(* scan and saves them to files.                                           *)
(*                                                                         *)
(* A sentence is the directory known when it was read.                     *)
(***************************************************************************)
EXTENDS Publisher

CONSTANT MaxBuffer   \* bound: how many sentences come before fileLengthMs pass

ASSUME RtkAssumption == MaxBuffer \in Nat \ {0}

VARIABLES
  modeName, continuousScanTarget,   \* namespace state
  buffer, lastMode,                 \* static variables of NMEACallback()
  overdue                           \* fileLengthMs have passed since lastTime

stateVars == << modeName, continuousScanTarget >>
nmeaVars  == << buffer, lastMode, overdue >>
rtkVars   == << publisherVars, stateVars, nmeaVars >>

RtkTypeOK ==
  /\ PublisherTypeOK
  /\ modeName \in Modes /\ continuousScanTarget \in Nat
  /\ buffer \in Seq(Nat) /\ lastMode \in Modes /\ overdue \in BOOLEAN

RtkInit ==
  /\ PublisherInit
  /\ modeName = "OTHER" /\ continuousScanTarget = 0
  /\ buffer = << >> /\ lastMode = "OTHER" /\ overdue = FALSE

-----------------------------------------------------------------------------
clientThread ==
  /\ channel # << >>
  /\ modeName' = Head(channel).mode
  /\ continuousScanTarget' = Head(channel).dir
  /\ channel' = Tail(channel)
  /\ UNCHANGED << clockVars, controlVars, setVars, workerVars, ticked, connected,
                  nmeaVars >>

FileLengthPasses ==
  /\ ~overdue /\ overdue' = TRUE
  /\ UNCHANGED << publisherVars, stateVars, buffer, lastMode >>

Scanning == modeName = "SCANNING"

\* Mutant: a file is saved when the scan stops.
SaveWhenStopping == modeName = "STOPPING"

\* The age of the buffer is tested as it was before a new scan resets it.
SaveDue == overdue \/ modeName = "STOPPING"

\* Mutant: the file goes where its first sentence was read.
FirstTarget(lines) == Head(lines)

\* The file goes to the directory known by now.  Files are written and never
\* read, the model does not keep them.
Target(lines) == continuousScanTarget

\* What is to be saved when a sentence has come.
Kept == IF Scanning THEN Append(buffer, continuousScanTarget) ELSE buffer

NMEACallback ==
  LET save == SaveDue /\ Kept # << >> IN
  /\ Len(Kept) <= MaxBuffer \/ save
  /\ lastMode' = modeName
  /\ buffer' = IF save THEN << >> ELSE Kept
  /\ overdue' = (overdue /\ ~save /\ ~(Scanning /\ lastMode # modeName))
  /\ UNCHANGED << publisherVars, stateVars >>

RtkNext ==
  \/ PublisherNext /\ UNCHANGED << stateVars, nmeaVars >>
  \/ clientThread \/ FileLengthPasses \/ NMEACallback

RtkSpec == RtkInit /\ [][RtkNext]_rtkVars

-----------------------------------------------------------------------------
\* The mode of the controller reaches the subscriber, however short the time it
\* has been set for in its first second and whatever reports were lost, or it
\* changes again (worker(), clientThread()).
ModeArrives == <>[][FALSE]_app_state => <>[](modeName = ModeOf(app_state))

\* What was collected during a scan is saved once the scan is over, although the
\* mode STOPPING may never be seen.
StoppedScanIsSaved == <>[](modeName # "SCANNING") => <>[](buffer = << >>)

\* No sentence is filed under a session before its own, reports under way and
\* restarts of the controller in the middle of a scan included.
FiledInOrder ==
  [][Kept # << >> /\ buffer' = << >>
       => LET dir == Target(Kept)
          IN  dir = 0 \/ \A i \in DOMAIN Kept : Kept[i] <= dir]_rtkVars

=============================================================================
