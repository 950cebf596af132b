--------------------------- MODULE MCScanControl ---------------------------
(***************************************************************************)
(* Values for the constants of ScanControl that a .cfg cannot write.       *)
(***************************************************************************)
EXTENDS ScanControl

Buttons == {"TriggerStopScan", "TriggerContinousScanning"}
ButtonsOrQuit == Buttons \cup {"quit"}
NoQuit == Requests \ {"quit"}

=============================================================================
