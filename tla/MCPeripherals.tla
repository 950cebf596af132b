--------------------------- MODULE MCPeripherals ---------------------------
(* One run for the publisher alone, with the session clock set by the white *)
(* button; for the publisher with the process of rtkNmea, scans started in  *)
(* the other ways; and for the process of libcamera with any modes.  The    *)
(* three do not act on each other, so that each behaviour is one of them.   *)
EXTENDS RtkNmea, Camera

VARIABLE part

allVars == << part, rtkVars, cameraVars >>

TypeOK == RtkTypeOK /\ CameraTypeOK /\ part \in {"publisher", "rtkNmea", "libcamera"}

Init ==
  /\ RtkInit /\ CameraInit
  /\ part \in {"publisher", "rtkNmea", "libcamera"}
  /\ part # "libcamera" => m_triggerMode = "INTERNAL"

Next ==
  \/ /\ part = "publisher" /\ PublisherNext
     /\ UNCHANGED << part, stateVars, nmeaVars, cameraVars >>
  \/ /\ part = "rtkNmea" /\ RtkNext
     /\ UNCHANGED << part, m_sessionStart, cameraVars >>
  \/ /\ part = "libcamera" /\ CameraNext
     /\ UNCHANGED << part, rtkVars >>

Spec == Init /\ [][Next]_allVars

\* The LiDAR sends, the controller publishes, the connection is made, sentences
\* come and the time of a file passes.
Fairness ==
  LET on == part = "rtkNmea" IN
  /\ WF_publisherVars(on /\ Packet) /\ WF_publisherVars(on /\ SetMode)
  /\ WF_publisherVars(on /\ Publish) /\ WF_publisherVars(on /\ Connect)
  /\ WF_rtkVars(on /\ clientThread)
  /\ WF_rtkVars(on /\ FileLengthPasses) /\ WF_rtkVars(on /\ NMEACallback)

FairSpec == Spec /\ Fairness

\* ModeArrives and StoppedScanIsSaved where the fairness applies.
ModeReachesRtk   == part = "rtkNmea" => ModeArrives
RtkSavesItsScans == part = "rtkNmea" => StoppedScanIsSaved

=============================================================================
