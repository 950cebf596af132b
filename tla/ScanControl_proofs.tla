------------------------- MODULE ScanControl_proofs -------------------------
(***************************************************************************)
(* Proofs about ScanControl, for every hardware configuration and any      *)
(* number of packets, sentences and chunks.                                *)
(***************************************************************************)
EXTENDS ScanControl, LivoxClient_proofs, TLAPS

\* Every chunk is numbered by its place in the order of saving.
ChunksCounted ==
  /\ FileNumber = Len(disk)
  /\ \A i \in 1 .. Len(disk) : disk[i].idx = i - 1

\* A request tested in IDLE can be overtaken by stateWatcher(), which may find a
\* LiDAR missing or, with Autostart, begin a scan of its own.
Late == Overtaking /\ Autostart

Starts == {"STARTING_SCAN", "STARTING_STOP_SCAN"}
Stops  == {"STOPPING", "STOPPING_STAGE_1", "STOPPING_STAGE_2"}
InStage == {"inStage1", "inStage2"}

\* A request that is to start something meets a state in which nothing but a
\* scan of Autostart runs; one that is to stop a scan still meets a scan, which
\* stateWatcher() does not end by itself.
PendingFits ==
  /\ \A c \in Callers : pending[c] \in Starts \cup Stops \cup {"none", "arm"}
  /\ \A c \in Callers : pending[c] \in Starts =>
       \/ app_state = "IDLE"
       \/ Overtaking /\ app_state = "LIDAR_ERROR"
       \/ Late /\ app_state \in {"STARTING_SCAN", "SCANNING"} /\ pc \notin InStage
  /\ \A c \in Callers : pending[c] \in Stops => app_state \in ScanStates

\* What a late request may assign while a scan of Autostart is under way.
LateStarts == IF Late THEN Starts ELSE {}

\* The states app_state can be in while stateWatcher() is inside a branch.
StatesAt(p) ==
  CASE p \in {"boot", "wait", "resources"} -> {"WAIT_FOR_RESOURCES"}
    [] p = "idle"                          -> {"IDLE"} \cup Starts
    [] p = "idleSlept"                     -> {"IDLE", "LIDAR_ERROR"} \cup Starts
    [] p = "start"                         -> {"STARTING_SCAN"} \cup LateStarts
    [] p \in {"scan", "chunk", "stage1", "stage2"}
                                           -> ScanStates \cup {"STOPPING"} \cup LateStarts
    [] p \in InStage                       -> ScanStates \cup {"STOPPING"}
    [] p \in {"stop", "stopLog", "stopSave"} -> {"STOPPING"}
    [] p = "stopScanStart"                 -> {"STARTING_STOP_SCAN"}
    [] p = "stopScanInitial"               -> {"STOP_SCAN_IN_INITIAL_PROGRESS"}
    [] p = "stopScanProgress"              -> {"STOP_SCAN_IN_PROGRESS"}
    [] p \in {"stopScanStop", "stopScanLog", "stopScanSave"}
                                           -> {"STOPING_STOP_SCAN"}
    [] OTHER                               -> States \ {"STOPPED"}

Logging == ScanStates \cup {"STOPPING", "STOP_SCAN_IN_PROGRESS", "STOPING_STOP_SCAN"}

\* The LiDAR buffers exist exactly in the states of a running log, up to the
\* call of stopLog(); a late request takes a running log back to its start.
BuffersFit ==
  /\ app_state \in Logging /\ pc \notin {"stopSave", "stopScanSave"} => buffers.alloc
  /\ buffers.alloc =>
       /\ pc \notin {"stopSave", "stopScanSave", "idle", "idleSlept"}
       /\ \/ app_state \in Logging
          \/ Late /\ app_state \in Starts \cup {"STOP_SCAN_IN_INITIAL_PROGRESS"}
  /\ pc \in {"chunk", "stopLog", "stopSave", "stopScanLog", "stopScanSave"} => retrieved.alloc
  /\ buffers.alloc => ~LivoxNull
  /\ app_state = "STOP_SCAN_IN_INITIAL_PROGRESS" /\ "initial" \in expired => ~LivoxNull

ErrorsFit ==
  /\ pc = "boot" \/ app_state = "USB_IO_ERROR" \/ (dirs["cs"] /\ dirs["ss"])
  /\ app_state = "LIDAR_ERROR" => isLidarError

StateFits == app_state \in StatesAt(pc)

ScanInv ==
  /\ TypeOK
  /\ OneAtATime
  /\ PendingFits
  /\ StateFits
  /\ BuffersFit
  /\ ErrorsFit
  /\ NoNullDereference

-----------------------------------------------------------------------------
(***************************************************************************)
(* Type correctness.                                                       *)
(***************************************************************************)

LEMMA GnssTypes ==
  ASSUME GnssTypeOK,
         \/ GnssStartLog \/ GnssStopLog \/ GnssRetrieveData \/ GnssRetrieveBoth
         \/ GnssNothingTaken \/ ReadLine \/ EmplaceRaw \/ PushGGA \/ UNCHANGED gnssVars
  PROVE  GnssTypeOK'
<1> USE DEF GnssTypeOK
<1>0. << >> \in Seq(Nat)
  OBVIOUS
<1>1. CASE GnssStartLog \/ GnssStopLog \/ UNCHANGED gnssVars
  BY <1>0, <1>1 DEF GnssStartLog, GnssStopLog, Disturb, gnssVars
<1>2. CASE GnssRetrieveData \/ GnssRetrieveBoth \/ GnssNothingTaken
  <2> DEFINE Taken == [gnss : Seq(Nat), nmea : Seq(Nat)]
  <2>1. /\ [gnss |-> m_buffer, nmea |-> << >>] \in Taken
        /\ [gnss |-> m_buffer, nmea |-> m_rawbuffer] \in Taken
        /\ [gnss |-> m_buffer, nmea |-> Append(m_rawbuffer, Garbage)] \in Taken
        /\ [gnss |-> << >>, nmea |-> << >>] \in Taken
    BY <1>0 DEF Garbage
  <2>2. gnssTaken' \in Taken
    <3> HIDE DEF Taken
    <3> QED
      BY <1>2, <2>1 DEF GnssRetrieveData, GnssRetrieveBoth, GnssNothingTaken
  <2>3. m_buffer' \in Seq(Nat) /\ m_rawbuffer' \in Seq(Nat)
    BY <1>0, <1>2 DEF GnssRetrieveData, GnssRetrieveBoth, GnssNothingTaken
  <2> QED
    BY <1>2, <2>2, <2>3 DEF GnssRetrieveData, GnssRetrieveBoth, GnssNothingTaken, Disturb
<1>3. CASE ReadLine
  BY <1>3 DEF ReadLine
<1>4. CASE EmplaceRaw
  <2>1. Append(m_rawbuffer, sentences) \in Seq(Nat) /\ Append(m_rawbuffer, Garbage) \in Seq(Nat)
    BY DEF Garbage
  <2>2. m_rawbuffer' \in Seq(Nat)
    BY <1>4, <2>1 DEF EmplaceRaw
  <2> QED
    BY <1>4, <2>2 DEF EmplaceRaw
<1>5. CASE PushGGA
  <2>1. Append(m_buffer, sentences) \in Seq(Nat)
    OBVIOUS
  <2>2. m_buffer' \in Seq(Nat)
    BY <1>5, <2>1 DEF PushGGA
  <2> QED
    BY <1>5, <2>2 DEF PushGGA
<1> QED
  BY <1>1, <1>2, <1>3, <1>4, <1>5

\* Every definition that TypeOK bounds the variables by, apart from the data.
ControlTypeOK ==
  /\ app_state \in States
  /\ isLidarError \in BOOLEAN
  /\ isRunning \in BOOLEAN
  /\ pending \in [Callers -> States \cup {"none", "arm"}]
  /\ expired \subseteq Deadlines
  /\ pc \in PCs
  /\ usbReports \in Nat
  /\ livoxThread \in {"create", "listen", "done"}
  /\ gpioThread \in {"start", "init", "ready"}
  /\ gnssClient \in BOOLEAN
  /\ fault \in {"none", "gpio null", "livox null", "buffer null", "raw buffer", "abort"}

FileTypeOK ==
  /\ dirs \in [{"cs", "ss"} -> BOOLEAN]
  /\ chunks \in [{"cs", "ss"} -> Nat]
  /\ disk \in Seq(Chunk)

LEMMA TypeParts ==
  /\ TypeOK <=> LivoxTypeOK /\ GnssTypeOK /\ ControlTypeOK /\ FileTypeOK
  /\ TypeOK' <=> LivoxTypeOK' /\ GnssTypeOK' /\ ControlTypeOK' /\ FileTypeOK'
  BY DEF TypeOK, ControlTypeOK, FileTypeOK

LEMMA InitTypeOK == Init => TypeOK
<1> SUFFICES ASSUME Init PROVE TypeOK
  OBVIOUS
<1>1. LivoxTypeOK /\ GnssTypeOK
  <2>1. << >> \in Seq(Nat) /\ [gnss |-> << >>, nmea |-> << >>] \in [gnss : Seq(Nat), nmea : Seq(Nat)]
    OBVIOUS
  <2>2. LivoxTypeOK
    BY BufferTypes DEF Init, LivoxInit, LivoxTypeOK
  <2> QED
    BY <2>1, <2>2 DEF Init, GnssInit, GnssTypeOK
<1>2. ControlTypeOK
  BY DEF Init, ControlTypeOK, States, PCs
<1>3. FileTypeOK
  BY DEF Init, FileTypeOK
<1> QED
  BY <1>1, <1>2, <1>3, TypeParts

LEMMA SaveTypeOK ==
  ASSUME TypeOK, NEW d \in {"cs", "ss"}, NEW next \in States, Save(d, next)
  PROVE  /\ FileTypeOK'
         /\ LivoxTypeOK'
         /\ app_state' \in States
         /\ fault' \in {fault, "buffer null"}
         /\ UNCHANGED << pending, expired, startupVars, dirs, usbReports, flagVars,
                         buffers, packets >>
<1>1. UNCHANGED << pending, expired, startupVars, dirs, usbReports, flagVars,
                  buffers, packets >>
  BY DEF Save
<1>2. LivoxTypeOK'
  <2>1. retrieved' = NullBuffers
    BY DEF Save
  <2> QED
    BY <1>1, <2>1, BufferTypes DEF TypeOK, LivoxTypeOK
<1>3. app_state' \in States /\ fault' \in {fault, "buffer null"}
  BY DEF Save, TypeOK, States
<1>4. FileTypeOK'
  <2>1. CASE UNCHANGED << disk, chunks >>
    BY <1>1, <2>1 DEF FileTypeOK, TypeOK
  <2>2. ASSUME NEW ok \in BOOLEAN,
               disk' = Append(disk, [dir |-> d, idx |-> FileNumber, ok |-> ok,
                                     lidar |-> retrieved.lidar, imu |-> retrieved.imu,
                                     gnss |-> gnssTaken.gnss, nmea |-> gnssTaken.nmea]),
               chunks' = [chunks EXCEPT ![d] = @ + 1]
        PROVE  FileTypeOK'
    <3>0. chunks \in [{"cs", "ss"} -> Nat] /\ disk \in Seq(Chunk)
      BY DEF TypeOK
    <3>1. FileNumber \in Nat
      BY <3>0 DEF FileNumber
    <3>2. [dir |-> d, idx |-> FileNumber, ok |-> ok,
           lidar |-> retrieved.lidar, imu |-> retrieved.imu,
           gnss |-> gnssTaken.gnss, nmea |-> gnssTaken.nmea] \in Chunk
      BY <3>1 DEF Chunk, TypeOK, LivoxTypeOK, GnssTypeOK, Buffers
    <3>3. disk' \in Seq(Chunk)
      BY <2>2, <3>0, <3>2
    <3>4. chunks' \in [{"cs", "ss"} -> Nat]
      BY <2>2, <3>0
    <3> QED
      BY <1>1, <3>3, <3>4 DEF FileTypeOK, TypeOK
  <2> QED
    BY <2>1, <2>2 DEF Save
<1> QED
  BY <1>1, <1>2, <1>3, <1>4

LEMMA SameTypes ==
  ASSUME TypeOK, UNCHANGED << fileVars, dataVars >>
  PROVE  LivoxTypeOK' /\ GnssTypeOK' /\ FileTypeOK'
  BY TypeParts DEF LivoxTypeOK, GnssTypeOK, FileTypeOK, fileVars, dataVars, livoxVars, gnssVars

LEMMA StartLogsTypes ==
  ASSUME TypeOK, StartLogs
  PROVE  LivoxTypeOK' /\ GnssTypeOK'
<1>1. LivoxStartLog \/ UNCHANGED livoxVars
  BY DEF StartLogs
<1>2. GnssStartLog \/ UNCHANGED gnssVars
  BY DEF StartLogs
<1> QED
  BY <1>1, <1>2, LivoxTypes, GnssTypes, TypeParts

\* A step of a requesting thread changes only requests and app_state.
LEMMA RequestTypeOK ==
  ASSUME TypeOK, NEW c \in Callers, Callback(c) \/ Request(c) \/ Quit(c)
  PROVE  TypeOK'
<1> USE DEF startupVars, watcherVars, flagVars, WillAssign
<1>1. UNCHANGED << startupVars, watcherVars, isLidarError, dataVars >>
  BY DEF Callback, Assign, ArmStage1, Request, Quit
<1>2. LivoxTypeOK' /\ GnssTypeOK' /\ FileTypeOK'
  BY <1>1, SameTypes
<1>3. pending' \in [Callers -> States \cup {"none", "arm"}]
  <2>1. pending \in [Callers -> States \cup {"none", "arm"}]
    BY DEF TypeOK
  <2>2. PICK s \in States \cup {"none", "arm"} :
          pending' = pending \/ pending' = [pending EXCEPT ![c] = s]
    BY DEF Callback, Assign, ArmStage1, Request, Quit, StartScan, StopScan,
      TriggerStopScan, TriggerContinousScanning, States
  <2> QED
    BY <2>1, <2>2
<1>4. expired' \subseteq Deadlines
  BY DEF TypeOK, Callback, Assign, ArmStage1, Request, Quit, StartScan, StopScan,
    TriggerStopScan, TriggerContinousScanning
<1>5. app_state' \in States /\ isRunning' \in BOOLEAN
  BY DEF TypeOK, Callback, Assign, ArmStage1, Request, Quit
<1>6. ControlTypeOK'
  BY <1>1, <1>3, <1>4, <1>5 DEF TypeOK, ControlTypeOK
<1> QED
  BY <1>2, <1>6, TypeParts

LEMMA WatcherTypeOK ==
  ASSUME TypeOK, Watcher
  PROVE  TypeOK'
<1> USE TypeParts
<1> USE DEF Goto, startupVars, flagVars
<1>1. CASE CreateDirectories
  <2>1. LivoxTypeOK' /\ GnssTypeOK'
    BY <1>1, LivoxTypes, GnssTypes DEF CreateDirectories, dataVars
  <2>2. FileTypeOK'
    BY <1>1 DEF CreateDirectories, FileTypeOK
  <2>3. ControlTypeOK'
    BY <1>1 DEF CreateDirectories, ControlTypeOK, PCs, States
  <2> QED
    BY <2>1, <2>2, <2>3
<1>2. CASE Dispatch
  <2>1. LivoxTypeOK' /\ GnssTypeOK' /\ FileTypeOK'
    BY <1>2, SameTypes DEF Dispatch
  <2>2. Branch(app_state) \in PCs
    BY DEF Branch, PCs
  <2>3. pc' \in PCs
    BY <1>2, <2>2 DEF Dispatch, PCs
  <2>4. usbReports' \in Nat /\ fault' \in {fault, "abort"}
    <3>1. usbReports' \in {usbReports, usbReports + 1} /\ fault' \in {fault, "abort"}
      BY <1>2, Zenon DEF Dispatch
    <3>2. usbReports \in Nat
      BY DEF ControlTypeOK
    <3> QED
      BY <3>1, <3>2
  <2>5. ControlTypeOK'
    BY <1>2, <2>3, <2>4 DEF Dispatch, ControlTypeOK
  <2> QED
    BY <2>1, <2>5
<1>3. CASE AliveBeep \/ WaitForResources \/ IdleCheck \/ IdleAutostart
  <2>1. LivoxTypeOK' /\ GnssTypeOK' /\ FileTypeOK'
    BY <1>3, SameTypes DEF AliveBeep, WaitForResources, IdleCheck, IdleAutostart
  <2>2. ControlTypeOK'
    BY <1>3 DEF AliveBeep, WaitForResources, IdleCheck, IdleAutostart, ControlTypeOK,
      PCs, States
  <2> QED
    BY <2>1, <2>2
<1>4. CASE StartScanning
  <2>1. LivoxTypeOK' /\ GnssTypeOK'
    BY <1>4, StartLogsTypes, LivoxTypes, GnssTypes DEF StartScanning, dataVars
  <2>2. FileTypeOK'
    BY <1>4 DEF StartScanning, FileTypeOK, fileVars
  <2>3. ControlTypeOK'
    BY <1>4 DEF StartScanning, ControlTypeOK, PCs, States
  <2> QED
    BY <2>1, <2>2, <2>3
<1>5. CASE NoChunk \/ CheckStage1 \/ TimeoutStage1 \/ CheckStage2 \/ TimeoutStage2
  <2> USE DEF NoChunk, CheckStage1, TimeoutStage1, CheckStage2, TimeoutStage2,
        StageCheck, StageTimeout
  <2>1. LivoxTypeOK' /\ GnssTypeOK' /\ FileTypeOK'
    BY <1>5, SameTypes
  <2>2. pc' \in PCs /\ app_state' \in States
    BY <1>5 DEF ControlTypeOK, PCs, States
  <2>3. ControlTypeOK'
    BY <1>5, <2>2 DEF ControlTypeOK
  <2> QED
    BY <2>1, <2>3
<1>6. CASE TakeChunk
  <2>1. LivoxTypeOK' /\ GnssTypeOK'
    BY <1>6, LivoxTypes, GnssTypes DEF TakeChunk
  <2>2. FileTypeOK'
    BY <1>6 DEF TakeChunk, FileTypeOK, fileVars
  <2>3. ControlTypeOK'
    BY <1>6 DEF TakeChunk, ControlTypeOK, PCs
  <2> QED
    BY <2>1, <2>2, <2>3
<1>7. CASE SaveChunk
  <2>1. app_state \in States /\ Save("cs", app_state) /\ GnssTypeOK'
    BY <1>7, GnssTypes DEF SaveChunk, ControlTypeOK
  <2>2. pc' \in PCs
    BY <1>7 DEF SaveChunk, PCs
  <2> QED
    BY <2>1, <2>2, SaveTypeOK DEF ControlTypeOK
<1>8. ASSUME NEW here, NEW next \in PCs, RetrieveLast(here, next)
      PROVE  TypeOK'
  <2>1. LivoxTypeOK' /\ GnssTypeOK'
    BY <1>8, LivoxTypes, GnssTypes DEF RetrieveLast
  <2>2. FileTypeOK'
    BY <1>8 DEF RetrieveLast, FileTypeOK, fileVars
  <2>3. ControlTypeOK'
    BY <1>8 DEF RetrieveLast, ControlTypeOK
  <2> QED
    BY <2>1, <2>2, <2>3
<1>9. ASSUME NEW here, NEW next \in PCs, StopLivoxLog(here, next)
      PROVE  TypeOK'
  <2>1. LivoxTypeOK' /\ GnssTypeOK'
    BY <1>9, LivoxTypes, GnssTypes DEF StopLivoxLog
  <2>2. FileTypeOK'
    BY <1>9 DEF StopLivoxLog, FileTypeOK, fileVars
  <2>3. ControlTypeOK'
    BY <1>9 DEF StopLivoxLog, ControlTypeOK
  <2> QED
    BY <2>1, <2>2, <2>3
<1>10. ASSUME NEW here, NEW d \in {"cs", "ss"}, SaveLast(here, d)
       PROVE  TypeOK'
  <2>1. "IDLE" \in States /\ Save(d, "IDLE") /\ GnssTypeOK'
    BY <1>10, GnssTypes DEF SaveLast, States
  <2>2. pc' \in PCs
    BY <1>10 DEF SaveLast, PCs
  <2> QED
    BY <2>1, <2>2, SaveTypeOK DEF ControlTypeOK
<1>11. CASE StopScanning \/ FinishStopScan
  <2>1. {"stopLog", "stopSave", "stopScanLog", "stopScanSave"} \subseteq PCs
    BY DEF PCs
  <2> QED
    BY <1>8, <1>9, <1>10, <1>11, <2>1 DEF StopScanning, FinishStopScan
<1>12. CASE StartStopScan \/ EndStopScan
  <2>1. LivoxTypeOK' /\ GnssTypeOK' /\ FileTypeOK'
    BY <1>12, SameTypes DEF StartStopScan, EndStopScan
  <2>2. ControlTypeOK'
    BY <1>12 DEF StartStopScan, EndStopScan, ControlTypeOK, PCs, States
  <2> QED
    BY <2>1, <2>2
<1>13. CASE BeginStopScan
  <2>1. LivoxTypeOK' /\ GnssTypeOK'
    BY <1>13, StartLogsTypes, LivoxTypes, GnssTypes DEF BeginStopScan, dataVars
  <2>2. FileTypeOK'
    BY <1>13 DEF BeginStopScan, FileTypeOK, fileVars
  <2>3. ControlTypeOK'
    BY <1>13 DEF BeginStopScan, ControlTypeOK, PCs, States
  <2> QED
    BY <2>1, <2>2, <2>3
<1> QED
  BY <1>1, <1>2, <1>3, <1>4, <1>5, <1>6, <1>7, <1>11, <1>12, <1>13 DEF Watcher

LEMMA NextTypeOK == TypeOK /\ [Next]_vars => TypeOK'
<1> SUFFICES ASSUME TypeOK, [Next]_vars PROVE TypeOK'
  OBVIOUS
<1> USE TypeParts
<1>1. ASSUME NEW c \in Callers, Callback(c) \/ Request(c) \/ Quit(c) PROVE TypeOK'
  BY <1>1, RequestTypeOK
<1>2. CASE Watcher
  BY <1>2, WatcherTypeOK
<1>3. CASE CreateLivox \/ StartListeners \/ CreateGpio
  <2>1. LivoxTypeOK' /\ GnssTypeOK' /\ FileTypeOK'
    BY <1>3, SameTypes DEF CreateLivox, StartListeners, CreateGpio, watcherVars
  <2>2. HasGnss \in BOOLEAN
    BY ControlAssumption
  <2>3. ControlTypeOK'
    BY <1>3, <2>2 DEF CreateLivox, StartListeners, CreateGpio, ControlTypeOK, watcherVars,
      flagVars
  <2> QED
    BY <2>1, <2>3
<1>4. ASSUME NEW t \in Deadlines, Expire(t) PROVE TypeOK'
  <2>1. LivoxTypeOK' /\ GnssTypeOK' /\ FileTypeOK'
    BY <1>4, SameTypes DEF Expire, watcherVars
  <2>2. ControlTypeOK'
    BY <1>4 DEF Expire, ControlTypeOK, watcherVars, startupVars, flagVars
  <2> QED
    BY <2>1, <2>2
<1>5. CASE Receive
  <2>1. LivoxTypeOK' /\ GnssTypeOK'
    BY <1>5, LivoxTypes, GnssTypes DEF Receive
  <2>2. FileTypeOK' /\ ControlTypeOK'
    BY <1>5 DEF Receive, FileTypeOK, ControlTypeOK, watcherVars, startupVars, flagVars, fileVars
  <2> QED
    BY <2>1, <2>2
<1>6. CASE RawBufferBreaks
  <2>1. LivoxTypeOK' /\ GnssTypeOK' /\ FileTypeOK'
    BY <1>6, SameTypes DEF RawBufferBreaks
  <2>2. ControlTypeOK'
    BY <1>6 DEF RawBufferBreaks, ControlTypeOK, startupVars, flagVars
  <2> QED
    BY <2>1, <2>2
<1>7. CASE UNCHANGED vars
  BY <1>7, SameTypes DEF vars, ControlTypeOK, watcherVars, startupVars, flagVars
<1> QED
  BY <1>1, <1>2, <1>3, <1>4, <1>5, <1>6, <1>7 DEF Next

\* Every variable of the controller keeps its type (TypeOK).
THEOREM TypeCorrect == Spec => []TypeOK
  BY InitTypeOK, NextTypeOK, PTL DEF Spec

-----------------------------------------------------------------------------
(***************************************************************************)
(* The numbers of the chunks, overtaking requests included.                *)
(***************************************************************************)

\* Only Save writes to the drive, and it counts what it writes.
LEMMA OnlySaveWrites ==
  ASSUME Next, TypeOK
  PROVE  \/ UNCHANGED << chunks, disk >>
         \/ \E d \in {"cs", "ss"} : \E next \in States : Save(d, next)
<1>1. CASE Watcher
  <2> "IDLE" \in States /\ app_state \in States
    BY DEF States, TypeOK
  <2>1. CASE SaveChunk
    BY <2>1 DEF SaveChunk
  <2>2. CASE SaveLast("stopSave", "cs") \/ SaveLast("stopScanSave", "ss")
    BY <2>2 DEF SaveLast
  <2>3. CASE \E here, next \in PCs : RetrieveLast(here, next) \/ StopLivoxLog(here, next)
    BY <2>3 DEF RetrieveLast, StopLivoxLog, fileVars
  <2>4. CASE StopScanning \/ FinishStopScan
    <3>1. {"stop", "stopLog", "stopSave", "stopScanStop", "stopScanLog", "stopScanSave"}
            \subseteq PCs
      BY DEF PCs
    <3> QED
      BY <2>2, <2>3, <2>4, <3>1 DEF StopScanning, FinishStopScan
  <2>5. CASE ~(SaveChunk \/ StopScanning \/ FinishStopScan)
    BY <1>1, <2>5 DEF Watcher, CreateDirectories, Dispatch, AliveBeep, WaitForResources,
      IdleCheck, IdleAutostart, StartScanning, NoChunk, TakeChunk, CheckStage1,
      TimeoutStage1, CheckStage2, TimeoutStage2, StageCheck, StageTimeout,
      StartStopScan, BeginStopScan, EndStopScan, fileVars
  <2> QED
    BY <2>1, <2>4, <2>5
<1>2. CASE ~Watcher
  BY <1>2 DEF Next, Callback, Assign, ArmStage1, Request, Quit, CreateLivox,
    StartListeners, CreateGpio, Expire, Receive, RawBufferBreaks, watcherVars, fileVars
<1> QED
  BY <1>1, <1>2

LEMMA ChunksCountedStep ==
  ASSUME TypeOK, ChunksCounted, [Next]_vars
  PROVE  ChunksCounted'
<1>0. disk \in Seq(Chunk) /\ chunks \in [{"cs", "ss"} -> Nat]
  BY DEF TypeOK
<1>1. CASE UNCHANGED << chunks, disk >>
  BY <1>1 DEF ChunksCounted, FileNumber
<1>2. ASSUME NEW d \in {"cs", "ss"}, NEW c, c.idx = FileNumber,
             disk' = Append(disk, c), chunks' = [chunks EXCEPT ![d] = @ + 1]
      PROVE  ChunksCounted'
  <2>1. Len(disk') = Len(disk) + 1 /\ disk'[Len(disk) + 1] = c
    BY <1>0, <1>2
  <2>2. \A i \in 1 .. Len(disk) : disk'[i] = disk[i]
    BY <1>0, <1>2
  <2>3. FileNumber' = FileNumber + 1
    BY <1>0, <1>2 DEF FileNumber
  <2> QED
    BY <1>0, <1>2, <2>1, <2>2, <2>3 DEF ChunksCounted
<1>3. ASSUME NEW d \in {"cs", "ss"}, NEW next \in States, Save(d, next)
      PROVE  ChunksCounted'
  <2>1. CASE UNCHANGED << disk, chunks >>
    BY <1>1, <2>1
  <2>2. CASE ~UNCHANGED << disk, chunks >>
    <3>1. PICK ok \in BOOLEAN :
            /\ disk' = Append(disk, [dir |-> d, idx |-> FileNumber, ok |-> ok,
                                     lidar |-> retrieved.lidar, imu |-> retrieved.imu,
                                     gnss |-> gnssTaken.gnss, nmea |-> gnssTaken.nmea])
            /\ chunks' = [chunks EXCEPT ![d] = @ + 1]
      BY <1>3, <2>2 DEF Save
    <3> QED
      BY <1>2, <3>1
  <2> QED
    BY <2>1, <2>2
<1> QED
  BY <1>1, <1>3, OnlySaveWrites DEF vars, watcherVars, fileVars

\* No file of a chunk is overwritten by a later one: chunks of continuous scans
\* and of stop scans never get the same number (main.cpp:519, 684).
THEOREM ChunksNumberedApart == Spec => []ChunkNumbersDiffer
<1>1. Init => ChunksCounted
  BY DEF Init, ChunksCounted, FileNumber
<1>2. ChunksCounted => ChunkNumbersDiffer
  BY DEF ChunksCounted, ChunkNumbersDiffer
<1> QED
  BY <1>1, <1>2, ChunksCountedStep, TypeCorrect, PTL DEF Spec

-----------------------------------------------------------------------------
(***************************************************************************)
(* The state machine, with requests made one at a time.                    *)
(***************************************************************************)

Quiet == \A c \in Callers : pending[c] = "none"

LEMMA ScanInvInit == Init => ScanInv
<1> SUFFICES ASSUME Init
             PROVE  /\ OneAtATime /\ PendingFits /\ StateFits /\ BuffersFit
                    /\ ErrorsFit /\ NoNullDereference
  BY InitTypeOK DEF ScanInv
<1>1. OneAtATime /\ PendingFits
  BY DEF Init, OneAtATime, PendingFits, Starts, Stops
<1>2. StateFits
  BY DEF Init, StateFits, StatesAt, InStage
<1>3. BuffersFit
  BY DEF Init, LivoxInit, NullBuffers, BuffersFit, Logging, ScanStates
<1> QED
  BY <1>1, <1>2, <1>3 DEF Init, ErrorsFit, NoNullDereference

\* The moves of app_state that stateWatcher() makes past a pending request.
Moves ==
  /\ pc' \in InStage => pc' = pc \/ app_state \in {"STOPPING_STAGE_1", "STOPPING_STAGE_2"}
  /\ \/ app_state' = app_state
     \/ app_state \in ScanStates /\ app_state' = "SCANNING"
     \/ app_state = "IDLE" /\ app_state' = "LIDAR_ERROR"
     \/ app_state = "IDLE" /\ pc' = "loop" /\ Autostart /\ app_state' = "STARTING_SCAN"
     \/ app_state = "STARTING_SCAN" /\ app_state' \in {"SCANNING", "LIDAR_ERROR"}
     \/ app_state \notin ScanStates \cup {"IDLE", "LIDAR_ERROR", "STARTING_SCAN"}

LEMMA PendingKept ==
  ASSUME PendingFits, OneAtATime, Settled, UNCHANGED pending, Moves
  PROVE  OneAtATime' /\ PendingFits'
<1>1. OneAtATime'
  BY DEF OneAtATime
<1>2. CASE Quiet
  BY <1>1, <1>2 DEF Quiet, PendingFits, Starts, Stops
<1>3. CASE Overtaking
  <2>1. \A c \in Callers : pending'[c] \in Starts =>
          \/ app_state' = "IDLE"
          \/ Overtaking /\ app_state' = "LIDAR_ERROR"
          \/ Late /\ app_state' \in {"STARTING_SCAN", "SCANNING"} /\ pc' \notin InStage
    BY <1>3 DEF PendingFits, Moves, Late, ScanStates, InStage
  <2>2. \A c \in Callers : pending'[c] \in Stops => app_state' \in ScanStates
    BY DEF PendingFits, Moves, ScanStates
  <2>3. \A c \in Callers : pending'[c] \in Starts \cup Stops \cup {"none", "arm"}
    BY DEF PendingFits
  <2> QED
    BY <1>1, <2>1, <2>2, <2>3, Zenon DEF PendingFits, Late
<1> QED
  BY <1>2, <1>3 DEF Settled, Quiet

LEMMA RequestScanInv ==
  ASSUME ScanInv, NEW c \in Callers, OneAtATime',
         Callback(c) \/ Request(c) \/ Quit(c)
  PROVE  PendingFits' /\ StateFits' /\ BuffersFit' /\ ErrorsFit' /\ NoNullDereference'
<1> USE DEF ScanInv, startupVars, watcherVars, fileVars, flagVars, dataVars, livoxVars,
        WillAssign
<1>0. pending \in [Callers -> States \cup {"none", "arm"}]
  BY DEF TypeOK
<1>1. CASE Request(c)
  <2>1. PICK s \in Starts \cup Stops :
          /\ pending' = [pending EXCEPT ![c] = s]
          /\ s \in Starts => app_state \in {"IDLE", "STOPPED"}
          /\ s \in Stops => app_state \in ScanStates
    BY <1>1 DEF Request, StartScan, StopScan, TriggerStopScan, TriggerContinousScanning,
      Idle, Starts, Stops, ScanStates
  <2>2. app_state # "STOPPED"
    BY DEF StateFits, StatesAt, Starts, ScanStates, LateStarts
  <2>3. UNCHANGED << app_state, startupVars, watcherVars, flagVars, dataVars >>
    BY <1>1 DEF Request
  <2>4. PendingFits'
    <3>1. pending'[c] = s /\ \A d \in Callers : d # c => pending'[d] = pending[d]
      BY <1>0, <2>1
    <3>2. \A d \in Callers : d # c => pending'[d] = "none"
      BY <3>1 DEF OneAtATime, Starts, Stops
    <3> QED
      BY <2>1, <2>2, <2>3, <3>1, <3>2 DEF PendingFits, Starts, Stops
  <2>5. expired' \subseteq expired
    BY <1>1 DEF Request, StartScan, StopScan, TriggerStopScan, TriggerContinousScanning
  <2> QED
    BY <2>3, <2>4, <2>5 DEF StateFits, BuffersFit, ErrorsFit, NoNullDereference, LivoxNull
<1>2. CASE Quit(c)
  BY <1>2 DEF Quit, PendingFits, StateFits, BuffersFit, ErrorsFit, NoNullDereference,
    LivoxNull
<1>3. CASE ArmStage1(c)
  <2>1. PendingFits'
    <3>1. pending' = [pending EXCEPT ![c] = "none"] /\ UNCHANGED << app_state, pc >>
      BY <1>3 DEF ArmStage1
    <3>2. \A d \in Callers : pending'[d] = pending[d] \/ pending'[d] = "none"
      BY <1>0, <3>1
    <3> QED
      BY <3>1, <3>2 DEF PendingFits, Starts, Stops, Late
  <2> QED
    BY <2>1, <1>3 DEF ArmStage1, StateFits, BuffersFit, ErrorsFit, NoNullDereference,
      LivoxNull
<1>4. CASE Assign(c)
  <2>1. UNCHANGED << startupVars, watcherVars, flagVars, dataVars, expired >>
    BY <1>4 DEF Assign
  <2>2. \/ app_state' \in Starts
           /\ \/ app_state \in {"IDLE", "LIDAR_ERROR"}
              \/ Late /\ app_state \in {"STARTING_SCAN", "SCANNING"} /\ pc \notin InStage
        \/ app_state \in ScanStates /\ app_state' \in Stops
    BY <1>4 DEF Assign, PendingFits, States
  <2>3. PendingFits'
    <3>1. pending'[c] \in {"none", "arm"}
      BY <1>0, <1>4 DEF Assign
    <3>2. \A d \in Callers : d # c => pending'[d] = pending[d] /\ pending[d] = "none"
      BY <1>0, <1>4 DEF Assign, OneAtATime, States
    <3> QED
      BY <3>1, <3>2 DEF PendingFits, Starts, Stops
  <2>4. StateFits'
    BY <2>1, <2>2 DEF StateFits, StatesAt, Starts, Stops, InStage, ScanStates, States,
      LateStarts
  <2>5. BuffersFit'
    BY <2>1, <2>2 DEF StateFits, StatesAt, BuffersFit, Starts, Stops, Logging, ScanStates,
      LivoxNull, LateStarts
  <2>6. ErrorsFit'
    BY <2>1, <2>2 DEF ErrorsFit, Starts, Stops, ScanStates
  <2> QED
    BY <2>1, <2>3, <2>4, <2>5, <2>6 DEF NoNullDereference
<1> QED
  BY <1>1, <1>2, <1>3, <1>4 DEF Callback

\* stateWatcher() keeps the invariant whether or not a request is between its
\* test and its assignment: one step per branch.
LEMMA WatcherScanInv ==
  ASSUME ScanInv, Settled, Watcher
  PROVE  OneAtATime' /\ PendingFits' /\ StateFits' /\ BuffersFit' /\ ErrorsFit' /\ NoNullDereference'
<1> USE DEF ScanInv, Goto, startupVars, fileVars, flagVars, dataVars, livoxVars
<1> DEFINE Here == app_state \in StatesAt(pc)
<1>0. Here
  BY DEF StateFits
<1> USE DEF ScanStates, Logging, Starts, InStage, StatesAt, LateStarts
<1>1. CASE CreateDirectories
  <2>1. app_state = "WAIT_FOR_RESOURCES" /\ app_state' \in {app_state, "USB_IO_ERROR"}
    BY <1>0, <1>1 DEF CreateDirectories
  <2>2. StateFits'
    BY <1>1, <2>1 DEF CreateDirectories, StateFits, States
  <2>3. BuffersFit'
    BY <1>1, <2>1 DEF CreateDirectories, BuffersFit, LivoxNull
  <2>4. ErrorsFit'
    BY <1>1, <2>1 DEF CreateDirectories, ErrorsFit
  <2> QED
    BY <1>1, <2>1, <2>2, <2>3, <2>4, PendingKept DEF Moves, CreateDirectories, NoNullDereference
<1>2. CASE Dispatch
  <2>1. app_state' = app_state /\ fault' \in {fault, "abort"}
    BY <1>2, Zenon DEF Dispatch
  <2>2. pc' = Branch(app_state) \/ pc' = "exit"
    BY <1>2 DEF Dispatch
  <2>3. StateFits'
    BY <1>0, <1>2, <2>1, <2>2 DEF Dispatch, StateFits, States, Branch
  <2>4. pc' \notin {"boot", "chunk", "stopLog", "stopSave", "stopScanLog", "stopScanSave"}
    BY <2>2 DEF Branch
  <2>5. BuffersFit'
    <3>1. pc' # "idleSlept" /\ (pc' = "idle" => app_state = "IDLE")
      BY <2>2 DEF Branch
    <3> QED
      BY <1>2, <2>1, <2>4, <3>1 DEF Dispatch, BuffersFit, LivoxNull
  <2>6. ErrorsFit'
    BY <1>2, <2>1 DEF Dispatch, ErrorsFit
  <2>7. Moves
    <3>1. pc' \notin InStage
      BY <2>2 DEF Branch
    <3> QED
      BY <2>1, <3>1 DEF Moves
  <2> QED
    BY <1>2, <2>1, <2>3, <2>5, <2>6, <2>7, PendingKept DEF Dispatch, NoNullDereference
<1>3. CASE AliveBeep \/ WaitForResources \/ IdleCheck \/ IdleAutostart
  <2> USE DEF AliveBeep, WaitForResources, IdleCheck, IdleAutostart
  <2>1. StateFits'
    BY <1>0, <1>3 DEF StateFits, States
  <2>2. BuffersFit'
    BY <1>0, <1>3 DEF BuffersFit, LivoxNull
  <2>3. ErrorsFit'
    BY <1>0, <1>3 DEF ErrorsFit
  <2>4. NoNullDereference' /\ UNCHANGED pending
    BY <1>3 DEF NoNullDereference
  <2>5. Moves
    BY <1>0, <1>3 DEF Moves, ErrorsFit
  <2> QED
    BY <2>1, <2>2, <2>3, <2>4, <2>5, PendingKept
<1>4. CASE NoChunk \/ CheckStage1 \/ TimeoutStage1 \/ CheckStage2 \/ TimeoutStage2
             \/ StartStopScan \/ EndStopScan
  <2> USE DEF NoChunk, CheckStage1, TimeoutStage1, CheckStage2, TimeoutStage2,
        StageCheck, StageTimeout, StartStopScan, EndStopScan
  <2>1. StateFits'
    BY <1>0, <1>4 DEF StateFits, States
  <2>2. BuffersFit'
    BY <1>0, <1>4 DEF BuffersFit, LivoxNull
  <2>3. ErrorsFit'
    BY <1>0, <1>4 DEF ErrorsFit
  <2>4. NoNullDereference' /\ UNCHANGED pending
    BY <1>4 DEF NoNullDereference
  <2>5. Moves
    BY <1>0, <1>4 DEF Moves
  <2> QED
    BY <2>1, <2>2, <2>3, <2>4, <2>5, PendingKept
<1>5. CASE StartScanning
  <2>1. app_state \in Starts /\ pc' = "loop"
    BY <1>0, <1>5 DEF StartScanning
  <2>2. /\ UNCHANGED << pending, startupVars, fileVars, usbReports, fault, flagVars >>
        /\ expired' \subseteq expired
    BY <1>5 DEF StartScanning
  <2>3. \/ app_state' = app_state /\ buffers' = buffers /\ retrieved' = retrieved
        \/ app_state' = "SCANNING" /\ ~LivoxNull /\ buffers' = FreshBuffers
    BY <1>5 DEF StartScanning, StartLogs, LivoxStartLog
  <2>4. StateFits' /\ ErrorsFit'
    BY <2>1, <2>2, <2>3 DEF StateFits, States, ErrorsFit
  <2>5. BuffersFit'
    BY <2>1, <2>2, <2>3 DEF BuffersFit, FreshBuffers, LivoxNull
  <2>6. Moves
    BY <2>1, <2>3 DEF Moves
  <2> QED
    BY <2>2, <2>4, <2>5, <2>6, PendingKept DEF NoNullDereference
<1>6. CASE BeginStopScan
  <2>1. app_state = "STOP_SCAN_IN_INITIAL_PROGRESS" /\ pc' = "loop"
    BY <1>0, <1>6 DEF BeginStopScan
  <2>2. UNCHANGED << pending, expired, startupVars, fileVars, usbReports, fault, flagVars >>
    BY <1>6 DEF BeginStopScan
  <2>3. \/ app_state' = app_state /\ buffers' = buffers /\ retrieved' = retrieved
        \/ app_state' = "STOP_SCAN_IN_PROGRESS" /\ ~LivoxNull /\ buffers' = FreshBuffers
    BY <1>6, <2>1 DEF BeginStopScan, StartLogs, LivoxStartLog, BuffersFit
  <2>4. StateFits' /\ ErrorsFit'
    BY <2>1, <2>2, <2>3 DEF StateFits, States, ErrorsFit
  <2>5. BuffersFit'
    BY <2>1, <2>2, <2>3 DEF BuffersFit, FreshBuffers, LivoxNull
  <2>6. Moves
    BY <2>1, <2>3 DEF Moves
  <2> QED
    BY <2>2, <2>4, <2>5, <2>6, PendingKept DEF NoNullDereference
<1>7. ASSUME NEW here, NEW next, RetrieveLast(here, next),
             << here, next >> \in { << "stop", "stopLog" >>, << "stopScanStop", "stopScanLog" >> }
      PROVE  OneAtATime' /\ PendingFits' /\ StateFits' /\ BuffersFit' /\ ErrorsFit' /\ NoNullDereference'
  <2>1. /\ app_state \in {"STOPPING", "STOPING_STOP_SCAN"}
        /\ pc = here /\ pc' = next
        /\ UNCHANGED << app_state, pending, expired, startupVars, fileVars, flagVars >>
    BY <1>0, <1>7 DEF RetrieveLast
  <2>2. buffers.alloc /\ ~LivoxNull
    BY <1>7, <2>1 DEF BuffersFit
  <2>3. retrieved' = buffers /\ buffers' = FreshBuffers /\ fault' = fault
    BY <1>7, <2>2 DEF RetrieveLast, LivoxRetrieveData
  <2>4. StateFits' /\ ErrorsFit'
    BY <1>0, <1>7, <2>1 DEF StateFits, ErrorsFit
  <2>5. BuffersFit'
    BY <1>7, <2>1, <2>2, <2>3 DEF BuffersFit, FreshBuffers, LivoxNull
  <2>6. Moves
    BY <1>7, <2>1 DEF Moves
  <2> QED
    BY <2>1, <2>3, <2>4, <2>5, <2>6, PendingKept DEF NoNullDereference
<1>8. ASSUME NEW here, NEW next, StopLivoxLog(here, next),
             << here, next >> \in { << "stopLog", "stopSave" >>, << "stopScanLog", "stopScanSave" >> }
      PROVE  OneAtATime' /\ PendingFits' /\ StateFits' /\ BuffersFit' /\ ErrorsFit' /\ NoNullDereference'
  <2>1. /\ app_state \in {"STOPPING", "STOPING_STOP_SCAN"}
        /\ pc = here /\ pc' = next
        /\ UNCHANGED << app_state, pending, expired, startupVars, fileVars, flagVars, fault >>
    BY <1>0, <1>8 DEF StopLivoxLog
  <2>2. retrieved.alloc /\ retrieved' = retrieved /\ buffers' = NullBuffers
    BY <1>8, <2>1 DEF StopLivoxLog, LivoxStopLog, BuffersFit
  <2>3. StateFits' /\ ErrorsFit'
    BY <1>0, <1>8, <2>1 DEF StateFits, ErrorsFit
  <2>4. BuffersFit'
    BY <1>8, <2>1, <2>2 DEF BuffersFit, NullBuffers, LivoxNull
  <2>5. Moves
    BY <1>8, <2>1 DEF Moves
  <2> QED
    BY <2>1, <2>3, <2>4, <2>5, PendingKept DEF NoNullDereference
<1>9. CASE TakeChunk
  <2>1. /\ app_state = "SCANNING" /\ pc = "scan" /\ pc' = "chunk"
        /\ UNCHANGED << app_state, pending, startupVars, fileVars, flagVars, fault >>
        /\ expired' \subseteq expired
        /\ retrieved' = buffers /\ buffers' = FreshBuffers
    BY <1>9 DEF TakeChunk, ChunkDue, LivoxRetrieveData
  <2>2. StateFits' /\ ErrorsFit'
    BY <2>1 DEF StateFits, ErrorsFit
  <2>3. BuffersFit'
    BY <2>1 DEF BuffersFit, FreshBuffers, LivoxNull
  <2> QED
    BY <2>1, <2>2, <2>3, PendingKept DEF Moves, NoNullDereference
<1>10. ASSUME NEW d \in {"cs", "ss"}, NEW next, Save(d, next),
              pc \in {"chunk", "stopSave", "stopScanSave"}
       PROVE  /\ app_state' = next /\ fault' = fault
              /\ UNCHANGED << pending, expired, startupVars, dirs, flagVars, buffers >>
  <2>1. app_state # "USB_IO_ERROR" /\ pc # "boot"
    BY <1>0, <1>10
  <2>2. dirs[d] /\ retrieved.alloc
    BY <1>10, <2>1 DEF ErrorsFit, BuffersFit
  <2> QED
    BY <2>2, <1>10 DEF Save
<1>11. CASE SaveChunk
  <2>1. /\ pc = "chunk" /\ pc' = "stage1" /\ app_state' = app_state /\ fault' = fault
        /\ UNCHANGED << pending, expired, startupVars, dirs, flagVars, buffers >>
    BY <1>10, <1>11 DEF SaveChunk
  <2>2. StateFits' /\ ErrorsFit'
    BY <1>0, <2>1 DEF StateFits, ErrorsFit
  <2>3. BuffersFit'
    BY <1>0, <2>1 DEF BuffersFit, LivoxNull
  <2> QED
    BY <2>1, <2>2, <2>3, PendingKept DEF Moves, NoNullDereference
<1>12. ASSUME NEW here \in {"stopSave", "stopScanSave"}, NEW d \in {"cs", "ss"}, SaveLast(here, d)
       PROVE  OneAtATime' /\ PendingFits' /\ StateFits' /\ BuffersFit' /\ ErrorsFit' /\ NoNullDereference'
  <2>1. /\ pc = here /\ pc' = "loop" /\ app_state' = "IDLE" /\ fault' = fault
        /\ UNCHANGED << pending, expired, startupVars, dirs, flagVars, buffers >>
    BY <1>10, <1>12 DEF SaveLast
  <2>2. StateFits'
    BY <2>1 DEF StateFits, States
  <2>3. ErrorsFit'
    BY <1>0, <2>1 DEF ErrorsFit
  <2>4. BuffersFit'
    BY <1>0, <2>1 DEF BuffersFit, LivoxNull
  <2>5. Moves
    BY <1>0, <2>1 DEF Moves
  <2> QED
    BY <2>1, <2>2, <2>3, <2>4, <2>5, PendingKept DEF NoNullDereference
<1>13. CASE StopScanning \/ FinishStopScan
  <2>1. CASE RetrieveLast("stop", "stopLog") \/ RetrieveLast("stopScanStop", "stopScanLog")
    BY <1>7, <2>1
  <2>2. CASE StopLivoxLog("stopLog", "stopSave") \/ StopLivoxLog("stopScanLog", "stopScanSave")
    BY <1>8, <2>2
  <2>3. CASE SaveLast("stopSave", "cs") \/ SaveLast("stopScanSave", "ss")
    BY <1>12, <2>3
  <2> QED
    BY <1>13, <2>1, <2>2, <2>3 DEF StopScanning, FinishStopScan
<1> QED
  BY <1>1, <1>2, <1>3, <1>4, <1>5, <1>6, <1>9, <1>11, <1>13 DEF Watcher

LEMMA ScanInvStep ==
  ASSUME ScanInv, Next, OneAtATime'
  PROVE  ScanInv'
<1> DEFINE Kept == PendingFits' /\ StateFits' /\ BuffersFit' /\ ErrorsFit' /\ NoNullDereference'
<1> SUFFICES Kept
  BY NextTypeOK DEF ScanInv
<1>1. ASSUME NEW c \in Callers, Callback(c) \/ Request(c) \/ Quit(c) PROVE Kept
  BY <1>1, RequestScanInv
<1>2. CASE Settled /\ Watcher
  BY <1>2, WatcherScanInv
<1>3. ASSUME Settled, NEW t \in Deadlines, Expire(t) PROVE Kept
  <2>1. /\ UNCHANGED << app_state, pending, startupVars, watcherVars, flagVars, dataVars >>
        /\ "initial" \in expired' => "initial" \in expired \/ ~LivoxNull
    BY <1>3 DEF Expire
  <2>2. PendingFits'
    BY <1>3, <2>1, PendingKept DEF ScanInv, Moves, watcherVars
  <2> QED
    BY <2>1, <2>2 DEF ScanInv, StateFits, BuffersFit, ErrorsFit,
      NoNullDereference, LivoxNull, startupVars, watcherVars, fileVars, flagVars, dataVars,
      livoxVars
<1>4. CASE Settled /\ (CreateLivox \/ StartListeners \/ CreateGpio)
  <2>1. isLidarError \in BOOLEAN
    BY DEF ScanInv, TypeOK
  <2>2. /\ UNCHANGED << app_state, pending, expired, watcherVars, dataVars >>
        /\ LivoxNull' => LivoxNull
    BY <1>4 DEF CreateLivox, StartListeners, CreateGpio, LivoxNull
  <2>3. isLidarError' \in {isLidarError, TRUE}
    BY <1>4 DEF CreateLivox, StartListeners, CreateGpio, flagVars
  <2>4. PendingFits'
    BY <1>4, <2>2, PendingKept DEF ScanInv, Moves, watcherVars
  <2> QED
    BY <2>1, <2>2, <2>3, <2>4 DEF ScanInv, StateFits, BuffersFit, ErrorsFit,
      NoNullDereference, watcherVars, fileVars, dataVars, livoxVars
<1>5. CASE Settled /\ Receive
  <2>1. UNCHANGED << app_state, pending, expired, startupVars, watcherVars, flagVars >>
    BY <1>5 DEF Receive
  <2>2. buffers \in Buffers
    BY DEF ScanInv, TypeOK, LivoxTypeOK
  <2>3. retrieved' = retrieved /\ (buffers'.alloc <=> buffers.alloc)
    BY <1>5, <2>2 DEF Receive, PointCloudCallback, ImuDataCallback, livoxVars, Buffers
  <2>4. PendingFits'
    BY <1>5, <2>1, PendingKept DEF ScanInv, Moves, watcherVars
  <2> QED
    BY <2>1, <2>3, <2>4 DEF ScanInv, StateFits, BuffersFit, ErrorsFit,
      NoNullDereference, LivoxNull, startupVars, watcherVars, fileVars, flagVars
<1>6. CASE Settled /\ RawBufferBreaks
  <2>1. /\ UNCHANGED << app_state, pending, expired, startupVars, pc, fileVars, flagVars,
                        livoxVars >>
        /\ fault' = "raw buffer"
    BY <1>6 DEF RawBufferBreaks, dataVars
  <2>2. PendingFits'
    BY <1>6, <2>1, PendingKept DEF ScanInv, Moves
  <2> QED
    BY <2>1, <2>2 DEF ScanInv, StateFits, BuffersFit, ErrorsFit, NoNullDereference,
      LivoxNull, livoxVars, startupVars, fileVars, flagVars
<1> HIDE DEF Kept
<1> QED
  BY <1>1, <1>2, <1>3, <1>4, <1>5, <1>6 DEF Next

LEMMA ScanInvStutter ==
  ASSUME ScanInv, UNCHANGED vars
  PROVE  ScanInv'
<1>1. TypeOK'
  BY NextTypeOK DEF ScanInv
<1> QED
  BY <1>1 DEF ScanInv, OneAtATime, PendingFits, StateFits, BuffersFit, ErrorsFit,
    NoNullDereference, LivoxNull, vars, startupVars, watcherVars, fileVars, flagVars,
    dataVars, livoxVars

LEMMA ScanInvariant == SerialSpec => []ScanInv
<1>1. ScanInv /\ [Next /\ OneAtATime']_vars => ScanInv'
  BY ScanInvStep, ScanInvStutter
<1> QED
  BY <1>1, ScanInvInit, PTL DEF SerialSpec

\* With requests one at a time none brings STOPPING about when no log was
\* started, and a stop always has buffers to save, wherever stateWatcher() is
\* when the request is assigned (main.cpp:186, 582).
THEOREM NeverDereferencesNull == SerialSpec => []NoNullDereference
<1>1. ScanInv => NoNullDereference
  BY DEF ScanInv
<1> QED
  BY <1>1, ScanInvariant, PTL

\* With requests one at a time the operator is shown what the LiDAR client does:
\* it records in every state of a scan, and in IDLE and in the error states it
\* does not, whatever stateWatcher() does between test and assignment.
THEOREM StateShowsRecording == SerialSpec => []StateTellsRecording
<1>1. ScanInv => StateTellsRecording
  <2> SUFFICES ASSUME ScanInv PROVE StateTellsRecording
    OBVIOUS
  <2>1. pc \in {"stopSave", "stopScanSave"} => app_state \in {"STOPPING", "STOPING_STOP_SCAN"}
    BY DEF ScanInv, StateFits, StatesAt
  <2> QED
    BY <2>1 DEF ScanInv, BuffersFit, Logging, ScanStates, Starts, StateTellsRecording
<1> QED
  BY <1>1, ScanInvariant, PTL

\* Requests that no thread overtakes are made one at a time.
LEMMA SerialStep ==
  ASSUME ~Overtaking, TypeOK, OneAtATime, Next
  PROVE  OneAtATime'
<1>0. pending \in [Callers -> States \cup {"none", "arm"}]
  BY DEF TypeOK
<1>1. ASSUME NEW c \in Callers, Callback(c) PROVE OneAtATime'
  <2>1. pending[c] # "none"
    BY <1>1 DEF Callback, Assign, ArmStage1, States
  <2>2. \A d \in Callers : d # c => pending'[d] = "none"
    BY <1>0, <1>1, <2>1 DEF Callback, Assign, ArmStage1, WillAssign, OneAtATime
  <2> QED
    BY <2>2 DEF OneAtATime
<1>2. ASSUME Quiet, NEW c \in Callers, Request(c) \/ Quit(c) PROVE OneAtATime'
  <2>1. \A d \in Callers : d # c => pending'[d] = "none"
    BY <1>0, <1>2 DEF Request, Quit, StartScan, StopScan, TriggerStopScan,
      TriggerContinousScanning, WillAssign, Quiet
  <2> QED
    BY <2>1 DEF OneAtATime
<1>3. ASSUME UNCHANGED pending PROVE OneAtATime'
  BY <1>3 DEF OneAtATime
<1>4. Watcher => UNCHANGED pending
  BY DEF Watcher, CreateDirectories, Dispatch, AliveBeep, WaitForResources, IdleCheck,
    IdleAutostart, StartScanning, NoChunk, TakeChunk, SaveChunk, CheckStage1,
    TimeoutStage1, CheckStage2, TimeoutStage2, StageCheck, StageTimeout, StopScanning,
    FinishStopScan, RetrieveLast, StopLivoxLog, SaveLast, Save, StartStopScan,
    BeginStopScan, EndStopScan
<1>5. CreateLivox \/ StartListeners \/ CreateGpio \/ Receive \/ RawBufferBreaks
        => UNCHANGED pending
  BY DEF CreateLivox, StartListeners, CreateGpio, Receive, RawBufferBreaks
<1>6. \A t \in Deadlines : Expire(t) => UNCHANGED pending
  BY DEF Expire
<1> QED
  BY <1>1, <1>2, <1>3, <1>4, <1>5, <1>6 DEF Next, Settled, Quiet

\* Where a thread is not stopped between its test of app_state and its assignment,
\* requests come one at a time: what is proved of SerialSpec holds of Spec.
THEOREM Serialised ==
  ASSUME ~Overtaking
  PROVE  Spec => SerialSpec
<1>1. Init => OneAtATime
  BY DEF Init, OneAtATime
<1>2. TypeOK /\ OneAtATime /\ [Next]_vars
        => OneAtATime' /\ [Next /\ OneAtATime']_vars
  BY SerialStep DEF OneAtATime, vars
<1> QED
  BY <1>1, <1>2, TypeCorrect, PTL DEF Spec, SerialSpec

\* Nothing leaves LIDAR_ERROR or USB_IO_ERROR (main.cpp:349-381).
THEOREM ErrorsStay ==
  ASSUME ~Overtaking
  PROVE  Spec => ErrorsAreFinal
<1>1. ASSUME ScanInv, Next, app_state \in {"LIDAR_ERROR", "USB_IO_ERROR"}
      PROVE  app_state' = app_state
  <2> USE <1>1
  <2>1. app_state \in StatesAt(pc)
    BY DEF ScanInv, StateFits
  <2>2. pc \in {"loop", "exit", "idleSlept"}
    BY <2>1 DEF StatesAt, Starts, InStage, LateStarts, ScanStates, ScanInv, TypeOK, PCs
  <2>3. app_state = "LIDAR_ERROR" => isLidarError
    BY DEF ScanInv, ErrorsFit
  <2>4. app_state = "USB_IO_ERROR" => pc # "idleSlept"
    BY <2>1 DEF StatesAt, Starts, InStage
  <2>5. ASSUME NEW c \in Callers, Callback(c) PROVE app_state' = app_state
    BY <2>5 DEF Callback, Assign, ArmStage1, ScanInv, PendingFits, Starts, Stops, ScanStates, States
  <2>6. CASE Watcher
    BY <2>2, <2>3, <2>4, <2>6 DEF Watcher, Goto, CreateDirectories, Dispatch, AliveBeep,
      WaitForResources, IdleCheck, IdleAutostart, StartScanning, NoChunk, TakeChunk,
      SaveChunk, CheckStage1, TimeoutStage1, CheckStage2, TimeoutStage2, StageCheck,
      StageTimeout, StopScanning, FinishStopScan, RetrieveLast, StopLivoxLog, SaveLast,
      StartStopScan, BeginStopScan, EndStopScan
  <2>7. CASE ~Watcher
    BY <2>5, <2>7 DEF Next, Request, Quit, CreateLivox, StartListeners, CreateGpio, Expire,
      Receive, RawBufferBreaks
  <2> QED
    BY <2>6, <2>7
<1>2. ScanInv /\ [Next]_vars
        => [(app_state \in {"LIDAR_ERROR", "USB_IO_ERROR"}) => app_state' = app_state]_vars
  BY <1>1
<1> QED
  BY <1>2, ScanInvariant, Serialised, PTL DEF Spec, ErrorsAreFinal

-----------------------------------------------------------------------------
(***************************************************************************)
(* The data of the chunks, overtaking requests and the unlocked append to  *)
(* m_rawbuffer included.                                                   *)
(***************************************************************************)

LidarStreams    == {"lidar", "imu"}
SentenceStreams == {"gnss", "nmea"}
Streams == LidarStreams \cup SentenceStreams

Buffered(s) ==
  IF s \in LidarStreams THEN buffers[s]
  ELSE IF s = "gnss" THEN m_buffer ELSE m_rawbuffer

\* What stateWatcher() has taken last.
Taken(s) == IF s \in LidarStreams THEN retrieved[s] ELSE gnssTaken[s]

\* Packets or sentences from this number on have not been put into the buffer.
SentenceLimit(s) ==
  IF gnssWorker \in {"emplace", "disturbed"} \/ (s = "gnss" /\ gnssWorker = "gga")
    THEN sentences ELSE sentences + 1
Limit(s) == IF s \in LidarStreams THEN packets[s] + 1 ELSE SentenceLimit(s)

Below(x, n) == \A k \in DOMAIN x : x[k] # Garbage => x[k] < n
Before(x, y) == \A k \in DOMAIN x, l \in DOMAIN y : y[l] # Garbage => x[k] < y[l]

\* stateWatcher() holds what it has taken and not yet saved; of the LiDAR it
\* keeps nothing else.
Holding == pc \in {"chunk", "stopSave", "stopScanSave"}
Held(s) == s \in LidarStreams \/ Holding

\* The chunks, what is held and what is buffered follow each other.
Ordered(s) ==
  /\ Below(Buffered(s), Limit(s))
  /\ Held(s) => Below(Taken(s), Limit(s)) /\ Before(Taken(s), Buffered(s))
  /\ \A i \in 1 .. Len(disk) :
       /\ Below(disk[i][s], Limit(s))
       /\ Before(disk[i][s], Buffered(s))
       /\ Held(s) => Before(disk[i][s], Taken(s))
  /\ \A i, j \in 1 .. Len(disk) : i < j => Before(disk[i][s], disk[j][s])

\* The three ways in which a step may deal with stream s: the buffer grows or is
\* cleared, it is taken or what was taken is dropped, what is held is saved.
Fills(s) ==
  /\ UNCHANGED disk
  /\ Taken(s)' = Taken(s)
  /\ Held(s)' => Held(s)
  /\ Limit(s) <= Limit(s)'
  /\ \/ Buffered(s)' \in {Buffered(s), << >>}
     \/ \E n \in Nat : /\ Buffered(s)' = Append(Buffered(s), n)
                       /\ n = Garbage \/ Limit(s) <= n
                       /\ n < Limit(s)'

Takes(s) ==
  /\ UNCHANGED disk
  /\ Limit(s)' = Limit(s)
  /\ \/ /\ Taken(s)' \in {Buffered(s), Append(Buffered(s), Garbage), << >>}
        /\ Buffered(s)' = << >>
     \/ Taken(s)' = << >> /\ Buffered(s)' = Buffered(s)

Saves(s) ==
  /\ Held(s) /\ (~Held(s)' \/ Taken(s)' = << >>)
  /\ \E c \in Chunk : disk' = Append(disk, c) /\ c[s] = Taken(s)
  /\ Limit(s)' = Limit(s)
  /\ Buffered(s)' = Buffered(s)

LEMMA StreamTypes ==
  ASSUME TypeOK, NEW s \in Streams
  PROVE  /\ Buffered(s) \in Seq(Nat)
         /\ Taken(s) \in Seq(Nat)
         /\ Limit(s) \in Nat
         /\ disk \in Seq(Chunk)
         /\ \A i \in 1 .. Len(disk) : disk[i][s] \in Seq(Nat)
<1>1. m_buffer \in Seq(Nat) /\ m_rawbuffer \in Seq(Nat) /\ sentences \in Nat
  BY DEF TypeOK, GnssTypeOK
<1>2. ASSUME s \in LidarStreams
      PROVE  buffers[s] \in Seq(Nat) /\ retrieved[s] \in Seq(Nat) /\ packets[s] \in Nat
  BY <1>2 DEF TypeOK, LivoxTypeOK, Buffers, LidarStreams
<1>3. ASSUME s \notin LidarStreams PROVE gnssTaken[s] \in Seq(Nat)
  BY <1>3 DEF TypeOK, GnssTypeOK, Streams, SentenceStreams
<1>4. disk \in Seq(Chunk)
  BY DEF TypeOK
<1>5. \A i \in 1 .. Len(disk) : disk[i][s] \in Seq(Nat)
  <2> SUFFICES ASSUME NEW i \in 1 .. Len(disk) PROVE disk[i][s] \in Seq(Nat)
    OBVIOUS
  <2>1. disk[i] \in Chunk
    BY <1>4
  <2> QED
    BY <2>1 DEF Streams, LidarStreams, SentenceStreams, Chunk
<1>6. SentenceLimit(s) \in Nat
  BY <1>1 DEF SentenceLimit
<1> QED
  BY <1>1, <1>2, <1>3, <1>4, <1>5, <1>6 DEF Buffered, Taken, Limit

\* Appending n keeps a sequence below m > n, and after everything below n unless
\* nobody wrote it.
LEMMA AppendOrder ==
  ASSUME NEW x \in Seq(Nat), NEW n \in Nat, NEW m \in Nat, NEW lim \in Nat,
         Below(x, lim), lim <= m, n = Garbage \/ lim <= n, n < m
  PROVE  /\ Below(Append(x, n), m)
         /\ \A y \in Seq(Nat) : Before(y, x) /\ Below(y, lim) => Before(y, Append(x, n))
<1>1. /\ DOMAIN Append(x, n) = 1 .. Len(x) + 1
      /\ \A k \in 1 .. Len(x) : Append(x, n)[k] = x[k] /\ x[k] \in Nat
      /\ Append(x, n)[Len(x) + 1] = n
      /\ DOMAIN x = 1 .. Len(x)
      /\ Len(x) \in Nat
  OBVIOUS
<1>2. Below(Append(x, n), m)
  BY <1>1 DEF Below
<1>3. ASSUME NEW y \in Seq(Nat), Before(y, x), Below(y, lim)
      PROVE  Before(y, Append(x, n))
  <2>1. \A k \in DOMAIN y : y[k] \in Nat
    OBVIOUS
  <2>2. ASSUME n # Garbage, NEW k \in DOMAIN y PROVE y[k] < n
    <3>1. lim <= n /\ n > 0
      BY <2>2 DEF Garbage
    <3>2. y[k] = 0 \/ y[k] < lim
      BY <1>3 DEF Below, Garbage
    <3>3. y[k] \in Nat
      BY <2>1
    <3> QED
      BY <3>1, <3>2, <3>3
  <2>3. \A l \in 1 .. Len(x) + 1 : l \in 1 .. Len(x) \/ l = Len(x) + 1
    BY <1>1
  <2> QED
    BY <1>1, <1>3, <2>2, <2>3 DEF Before
<1> QED
  BY <1>2, <1>3

\* Garbage may be appended anywhere.
LEMMA GarbageOrder ==
  ASSUME NEW x \in Seq(Nat), NEW lim
  PROVE  /\ Below(x, lim) => Below(Append(x, Garbage), lim)
         /\ \A y : Before(y, x) => Before(y, Append(x, Garbage))
<1>1. /\ DOMAIN Append(x, Garbage) = 1 .. Len(x) + 1 /\ DOMAIN x = 1 .. Len(x)
      /\ Len(x) \in Nat
      /\ \A k \in 1 .. Len(x) : Append(x, Garbage)[k] = x[k]
      /\ Append(x, Garbage)[Len(x) + 1] = Garbage
  BY DEF Garbage
<1>2. \A k \in 1 .. Len(x) + 1 : k \in 1 .. Len(x) \/ k = Len(x) + 1
  BY <1>1
<1> QED
  BY <1>1, <1>2 DEF Below, Before

LEMMA BelowGrows ==
  ASSUME NEW x \in Seq(Nat), NEW m \in Nat, NEW n \in Nat, m <= n, Below(x, m)
  PROVE  Below(x, n)
<1>1. \A k \in DOMAIN x : x[k] \in Nat
  OBVIOUS
<1> QED
  BY <1>1 DEF Below

LEMMA OrderedFills ==
  ASSUME TypeOK, TypeOK', NEW s \in Streams, Ordered(s), Fills(s)
  PROVE  Ordered(s)'
<1> DEFINE buf == Buffered(s)
           new == Buffered(s)'
           lim == Limit(s)
           top == Limit(s)'
<1>1. /\ buf \in Seq(Nat) /\ lim \in Nat /\ Taken(s) \in Seq(Nat)
      /\ \A i \in 1 .. Len(disk) : disk[i][s] \in Seq(Nat)
  BY StreamTypes
<1>1a. top \in Nat
  <2>1. SentenceLimit(s)' \in Nat
    <3>1. sentences' \in Nat
      BY DEF TypeOK, GnssTypeOK
    <3>2. SentenceLimit(s)' = sentences' \/ SentenceLimit(s)' = sentences' + 1
      BY Zenon DEF SentenceLimit
    <3> QED
      BY <3>1, <3>2
  <2>2. ASSUME s \in LidarStreams PROVE packets'[s] + 1 \in Nat
    <3>1. packets' \in [LidarStreams -> Nat]
      BY Zenon DEF TypeOK, LivoxTypeOK, LidarStreams
    <3> QED
      BY <2>2, <3>1
  <2>3. (top = packets'[s] + 1 /\ s \in LidarStreams) \/ top = SentenceLimit(s)'
    BY Zenon DEF Limit
  <2> QED
    BY <2>1, <2>2, <2>3
<1>2. lim <= top
  BY DEF Fills
<1>3. /\ Below(new, top)
      /\ \A y \in Seq(Nat) : Before(y, buf) /\ Below(y, lim) => Before(y, new)
  <2>0. Below(buf, lim)
    BY DEF Ordered
  <2>1. CASE new = buf
    BY <1>1, <1>1a, <1>2, <2>0, <2>1, BelowGrows
  <2>2. CASE new = << >>
    BY <2>2 DEF Below, Before
  <2>3. ASSUME NEW n \in Nat, new = Append(buf, n), n = Garbage \/ lim <= n, n < top
        PROVE  /\ Below(new, top)
               /\ \A y \in Seq(Nat) : Before(y, buf) /\ Below(y, lim) => Before(y, new)
    <3> HIDE DEF buf, new, lim, top
    <3> QED
      BY <1>1, <1>1a, <1>2, <2>0, <2>3, AppendOrder
  <2> QED
    BY <2>1, <2>2, <2>3 DEF Fills
<1>4. /\ disk' = disk /\ Taken(s)' = Taken(s)
      /\ Held(s)' => Held(s)
  BY DEF Fills
<1>5. Below(Buffered(s), Limit(s))'
  BY <1>3 DEF Below
<1>6. (Held(s) => Below(Taken(s), Limit(s)) /\ Before(Taken(s), Buffered(s)))'
  <2> SUFFICES ASSUME Held(s)' PROVE Below(Taken(s), top) /\ Before(Taken(s), new)
    BY <1>4 DEF Below, Before
  <2>1. Below(Taken(s), lim) /\ Before(Taken(s), buf)
    BY <1>4 DEF Ordered
  <2> HIDE DEF buf, new, lim, top
  <2> QED
    BY <1>1, <1>1a, <1>2, <1>3, <2>1, BelowGrows
<1>7. \A i \in 1 .. Len(disk) :
        /\ Below(disk[i][s], top)
        /\ Before(disk[i][s], new)
        /\ Held(s)' => Before(disk[i][s], Taken(s))
  <2> TAKE i \in 1 .. Len(disk)
  <2>1. Below(disk[i][s], lim) /\ Before(disk[i][s], buf)
    BY DEF Ordered
  <2>2. Held(s)' => Before(disk[i][s], Taken(s))
    BY <1>4 DEF Ordered
  <2> HIDE DEF buf, new, lim, top
  <2> QED
    BY <1>1, <1>1a, <1>2, <1>3, <2>1, <2>2, BelowGrows
<1>8. (\A i \in 1 .. Len(disk) :
        /\ Below(disk[i][s], Limit(s))
        /\ Before(disk[i][s], Buffered(s))
        /\ Held(s) => Before(disk[i][s], Taken(s)))'
  BY <1>4, <1>7 DEF Below, Before
<1>9. (\A i, j \in 1 .. Len(disk) : i < j => Before(disk[i][s], disk[j][s]))'
  BY <1>4 DEF Ordered, Before
<1> QED
  BY <1>5, <1>6, <1>8, <1>9 DEF Ordered

LEMMA OrderedTakes ==
  ASSUME TypeOK, NEW s \in Streams, Ordered(s), Takes(s)
  PROVE  Ordered(s)'
<1>1. disk' = disk /\ Limit(s)' = Limit(s)
  BY DEF Takes
<1>2. /\ Buffered(s)' = << >> \/ (Buffered(s)' = Buffered(s) /\ Taken(s)' = << >>)
      /\ Taken(s)' \in {<< >>, Buffered(s), Append(Buffered(s), Garbage)}
  BY DEF Takes
<1>2a. /\ Below(Buffered(s), Limit(s)) => Below(Append(Buffered(s), Garbage), Limit(s))
       /\ \A y : Before(y, Buffered(s)) => Before(y, Append(Buffered(s), Garbage))
  BY StreamTypes, GarbageOrder
<1>2b. /\ Below(Taken(s)', Limit(s))
       /\ \A y : Before(y, Buffered(s)) => Before(y, Taken(s)')
  <2>1. Below(Buffered(s), Limit(s))
    BY DEF Ordered
  <2>2. Below(<< >>, Limit(s)) /\ \A y : Before(y, << >>)
    BY DEF Below, Before
  <2> QED
    BY <1>2, <1>2a, <2>1, <2>2
<1>2c. \A y : Before(y, Buffered(s)) => Before(y, Buffered(s)')
  BY <1>2 DEF Before
<1>2d. Before(Taken(s)', Buffered(s)')
  BY <1>2 DEF Before
<1>3. Below(Buffered(s), Limit(s))'
  BY <1>1, <1>2 DEF Ordered, Below
<1>4. (Held(s) => Below(Taken(s), Limit(s)) /\ Before(Taken(s), Buffered(s)))'
  BY <1>1, <1>2b, <1>2d DEF Below, Before
<1>4a. \A i \in 1 .. Len(disk) :
         Below(disk[i][s], Limit(s)) /\ Before(disk[i][s], Buffered(s))
  BY DEF Ordered
<1>4b. \A i \in 1 .. Len(disk) :
         /\ Below(disk[i][s], Limit(s))
         /\ Before(disk[i][s], Buffered(s)')
         /\ Before(disk[i][s], Taken(s)')
  BY <1>2b, <1>2c, <1>4a
<1>5. (\A i \in 1 .. Len(disk) :
        /\ Below(disk[i][s], Limit(s))
        /\ Before(disk[i][s], Buffered(s))
        /\ Held(s) => Before(disk[i][s], Taken(s)))'
  BY <1>1, <1>4b DEF Below, Before
<1>6. (\A i, j \in 1 .. Len(disk) : i < j => Before(disk[i][s], disk[j][s]))'
  BY <1>1 DEF Ordered, Before
<1> QED
  BY <1>3, <1>4, <1>5, <1>6 DEF Ordered

LEMMA OrderedSaves ==
  ASSUME TypeOK, NEW s \in Streams, Ordered(s), Saves(s)
  PROVE  Ordered(s)'
<1>1. PICK c \in Chunk : disk' = Append(disk, c) /\ c[s] = Taken(s)
  BY DEF Saves
<1>2. disk \in Seq(Chunk)
  BY DEF TypeOK
<1>3. /\ Len(disk) \in Nat /\ Len(disk') = Len(disk) + 1
      /\ disk'[Len(disk) + 1] = c
      /\ \A i \in 1 .. Len(disk) : disk'[i] = disk[i]
  BY <1>1, <1>2
<1>4. Held(s) /\ (~Held(s)' \/ Taken(s)' = << >>) /\ Limit(s)' = Limit(s) /\ Buffered(s)' = Buffered(s)
  BY DEF Saves
<1>5. Below(Buffered(s), Limit(s))'
  BY <1>4 DEF Ordered, Below
<1>6. \A i \in 1 .. Len(disk') :
        Below(disk'[i][s], Limit(s)) /\ Before(disk'[i][s], Buffered(s))
  <2> TAKE i \in 1 .. Len(disk')
  <2>1. CASE i = Len(disk) + 1
    BY <1>1, <1>3, <1>4, <2>1 DEF Ordered
  <2>2. CASE i \in 1 .. Len(disk)
    BY <1>3, <2>2 DEF Ordered
  <2> QED
    BY <1>3, <2>1, <2>2
<1>7. (\A i \in 1 .. Len(disk) :
        /\ Below(disk[i][s], Limit(s))
        /\ Before(disk[i][s], Buffered(s))
        /\ Held(s) => Before(disk[i][s], Taken(s)))'
  BY <1>4, <1>6 DEF Below, Before
<1>7a. (Held(s) => Below(Taken(s), Limit(s)) /\ Before(Taken(s), Buffered(s)))'
  BY <1>4 DEF Below, Before
<1>8. \A i, j \in 1 .. Len(disk') : i < j => Before(disk'[i][s], disk'[j][s])
  <2> SUFFICES ASSUME NEW i \in 1 .. Len(disk'), NEW j \in 1 .. Len(disk'), i < j
               PROVE  Before(disk'[i][s], disk'[j][s])
    OBVIOUS
  <2>1. i \in 1 .. Len(disk) /\ disk'[i] = disk[i]
    BY <1>3
  <2>2. CASE j = Len(disk) + 1
    BY <1>1, <1>3, <1>4, <2>1, <2>2 DEF Ordered
  <2>3. CASE j \in 1 .. Len(disk)
    BY <1>3, <2>1, <2>3 DEF Ordered
  <2> QED
    BY <1>3, <2>2, <2>3
<1>9. (\A i, j \in 1 .. Len(disk) : i < j => Before(disk[i][s], disk[j][s]))'
  BY <1>8 DEF Before
<1> QED
  BY <1>5, <1>7, <1>7a, <1>9 DEF Ordered

\* What the streams of the GNSS client and of the LiDAR are kept in.
LEMMA SentenceStream ==
  ASSUME NEW s \in SentenceStreams
  PROVE  /\ s \in Streams /\ s \in {"gnss", "nmea"}
         /\ Taken(s) = gnssTaken[s] /\ Taken(s)' = gnssTaken'[s]
         /\ Limit(s) = SentenceLimit(s) /\ Limit(s)' = SentenceLimit(s)'
         /\ Held(s) <=> Holding
         /\ Held(s)' <=> Holding'
         /\ Buffered(s) = IF s = "gnss" THEN m_buffer ELSE m_rawbuffer
         /\ Buffered(s)' = IF s = "gnss" THEN m_buffer' ELSE m_rawbuffer'
<1>1. s \notin LidarStreams /\ s \in {"gnss", "nmea"} /\ s \in Streams
  BY DEF SentenceStreams, LidarStreams, Streams
<1> QED
  BY <1>1 DEF Taken, Limit, Held, Buffered

LEMMA LidarStream ==
  ASSUME NEW s \in LidarStreams
  PROVE  /\ s \in Streams /\ s \in {"lidar", "imu"}
         /\ Taken(s) = retrieved[s] /\ Taken(s)' = retrieved'[s]
         /\ Limit(s) = packets[s] + 1 /\ Limit(s)' = packets'[s] + 1
         /\ Held(s) /\ Held(s)'
         /\ Buffered(s) = buffers[s] /\ Buffered(s)' = buffers'[s]
  BY DEF LidarStreams, Streams, Taken, Limit, Held, Buffered

\* A step that leaves the chunks and the GNSS client alone takes nothing.
LEMMA LeavesStream ==
  ASSUME TypeOK, NEW s \in SentenceStreams, UNCHANGED << disk, gnssVars >>,
         Holding' => Holding
  PROVE  Fills(s)
<1>1. Limit(s)' = Limit(s) /\ Buffered(s)' = Buffered(s) /\ Taken(s)' = Taken(s)
  BY SentenceStream DEF gnssVars, SentenceLimit
<1>2. Limit(s) \in Nat
  BY SentenceStream, StreamTypes
<1> QED
  BY <1>1, <1>2, SentenceStream DEF Fills

LEMMA StartLogsFills ==
  ASSUME TypeOK, NEW s \in SentenceStreams, StartLogs, UNCHANGED disk,
         Holding' => Holding
  PROVE  Fills(s)
<1>1. CASE UNCHANGED gnssVars
  BY <1>1, LeavesStream
<1>2. CASE GnssStartLog
  <2>1. Limit(s)' = Limit(s) /\ Buffered(s)' = << >> /\ Taken(s)' = Taken(s)
    BY <1>2, SentenceStream DEF GnssStartLog, Disturb, SentenceLimit
  <2>2. Limit(s) \in Nat
    BY SentenceStream, StreamTypes
  <2> QED
    BY <2>1, <2>2, SentenceStream DEF Fills
<1> QED
  BY <1>1, <1>2 DEF StartLogs

LEMMA RetrievalTakes ==
  ASSUME TypeOK, NEW s \in SentenceStreams, UNCHANGED disk,
         GnssRetrieveBoth \/ GnssRetrieveData \/ GnssNothingTaken
  PROVE  Takes(s)
<1>1. CASE GnssRetrieveBoth
  BY <1>1, SentenceStream DEF GnssRetrieveBoth, Disturb, Takes, SentenceLimit
<1>2. CASE GnssRetrieveData
  BY <1>2, SentenceStream DEF GnssRetrieveData, Takes, SentenceLimit
<1>3. CASE GnssNothingTaken
  BY <1>3, SentenceStream DEF GnssNothingTaken, Takes, SentenceLimit
<1> QED
  BY <1>1, <1>2, <1>3

LEMMA WorkerFills ==
  ASSUME TypeOK, NEW s \in SentenceStreams, UNCHANGED << disk, pc >>,
         ReadLine \/ EmplaceRaw \/ PushGGA
  PROVE  Fills(s)
<1>0. /\ sentences \in Nat /\ Taken(s)' = Taken(s) /\ (Held(s)' => Held(s))
      /\ Limit(s) \in Nat
  <2>1. sentences \in Nat
    BY DEF TypeOK, GnssTypeOK
  <2>2. Taken(s)' = Taken(s)
    BY SentenceStream DEF ReadLine, EmplaceRaw, PushGGA
  <2>3. Held(s)' => Held(s)
    BY SentenceStream DEF Holding
  <2> QED
    BY <2>1, <2>2, <2>3, SentenceStream, StreamTypes
<1>1. CASE \/ Limit(s)' = Limit(s) /\ Buffered(s)' = Buffered(s)
           \/ /\ Limit(s) = sentences /\ Limit(s)' = sentences + 1
              /\ Buffered(s)' \in {Append(Buffered(s), sentences), Buffered(s),
                                   Append(Buffered(s), Garbage)}
  BY <1>0, <1>1 DEF Fills, Garbage
<1>2. CASE ReadLine
  <2>1. Limit(s)' = Limit(s) /\ Buffered(s)' = Buffered(s)
    BY <1>0, <1>2, SentenceStream DEF ReadLine, SentenceLimit
  <2> QED
    BY <1>1, <2>1
<1>3. CASE EmplaceRaw
  <2>1. s = "gnss" => Limit(s)' = Limit(s) /\ Buffered(s)' = Buffered(s)
    BY <1>0, <1>3, SentenceStream DEF EmplaceRaw, SentenceLimit
  <2>2. s # "gnss" => /\ Limit(s) = sentences /\ Limit(s)' = sentences + 1
                      /\ Buffered(s)' \in {Append(Buffered(s), sentences), Buffered(s),
                                           Append(Buffered(s), Garbage)}
    BY <1>0, <1>3, SentenceStream DEF EmplaceRaw, SentenceLimit
  <2> QED
    BY <1>1, <2>1, <2>2
<1>4. CASE PushGGA
  <2>1. s # "gnss" => Limit(s)' = Limit(s) /\ Buffered(s)' = Buffered(s)
    BY <1>0, <1>4, SentenceStream DEF PushGGA, SentenceLimit
  <2>2. s = "gnss" => /\ Limit(s) = sentences /\ Limit(s)' = sentences + 1
                      /\ Buffered(s)' \in {Append(Buffered(s), sentences), Buffered(s)}
    BY <1>0, <1>4, SentenceStream DEF PushGGA, SentenceLimit
  <2> QED
    BY <1>1, <2>1, <2>2
<1> QED
  BY <1>2, <1>3, <1>4

\* What Save writes of stream s is what is held.
LEMMA SaveWrites ==
  ASSUME TypeOK, NEW s \in Streams, NEW d \in {"cs", "ss"}, NEW next, Save(d, next),
         ~UNCHANGED disk
  PROVE  \E c \in Chunk : disk' = Append(disk, c) /\ c[s] = Taken(s)
<1>1. PICK ok \in BOOLEAN :
        disk' = Append(disk, [dir |-> d, idx |-> FileNumber, ok |-> ok,
                              lidar |-> retrieved.lidar, imu |-> retrieved.imu,
                              gnss |-> gnssTaken.gnss, nmea |-> gnssTaken.nmea])
  BY DEF Save
<1> DEFINE c == [dir |-> d, idx |-> FileNumber, ok |-> ok,
                 lidar |-> retrieved.lidar, imu |-> retrieved.imu,
                 gnss |-> gnssTaken.gnss, nmea |-> gnssTaken.nmea]
<1>2. FileNumber \in Nat
  <2>1. chunks \in [{"cs", "ss"} -> Nat]
    BY DEF TypeOK
  <2> QED
    BY <2>1 DEF FileNumber
<1>3. c \in Chunk
  BY <1>2 DEF Chunk, TypeOK, LivoxTypeOK, GnssTypeOK, Buffers
<1>4. c[s] = Taken(s)
  BY DEF Streams, LidarStreams, SentenceStreams, Taken
<1> HIDE DEF c
<1> QED
  BY <1>1, <1>3, <1>4 DEF c

LEMMA SaveStream ==
  ASSUME TypeOK, NEW s \in SentenceStreams, NEW d \in {"cs", "ss"}, NEW next,
         Save(d, next), Holding, ~Holding',
         UNCHANGED << m_buffer, m_rawbuffer, gnssWorker, gnssTaken, sentences >>
  PROVE  Fills(s) \/ Saves(s)
<1>1. /\ Limit(s)' = Limit(s) /\ Buffered(s)' = Buffered(s) /\ Taken(s)' = Taken(s)
      /\ Limit(s) \in Nat
  BY SentenceStream, StreamTypes DEF SentenceLimit
<1>2. CASE UNCHANGED disk
  BY <1>1, <1>2, SentenceStream DEF Fills
<1>3. CASE ~UNCHANGED disk
  BY <1>1, <1>3, SentenceStream, SaveWrites DEF Saves
<1> QED
  BY <1>2, <1>3

\* Every step deals with a stream of sentences in one of the three ways.
LEMMA SentenceStep ==
  ASSUME TypeOK, NEW s \in SentenceStreams, [Next]_vars
  PROVE  Fills(s) \/ Takes(s) \/ Saves(s)
<1> USE DEF Goto, fileVars
<1>1. CASE StartScanning \/ BeginStopScan
  <2>1. UNCHANGED disk /\ ~Holding' /\ (StartLogs \/ UNCHANGED gnssVars)
    BY <1>1 DEF StartScanning, BeginStopScan, Holding, dataVars
  <2> QED
    BY <2>1, StartLogsFills, LeavesStream
<1>2. CASE TakeChunk
  BY <1>2, RetrievalTakes DEF TakeChunk
<1>3. CASE SaveChunk
  <2>1. Holding /\ ~Holding' /\ Save("cs", app_state) /\ UNCHANGED gnssVars
    BY <1>3 DEF SaveChunk, Holding
  <2> QED
    BY <2>1, SaveStream DEF gnssVars
<1>4. CASE SaveLast("stopSave", "cs") \/ SaveLast("stopScanSave", "ss")
  <2>1. PICK d \in {"cs", "ss"} : Save(d, "IDLE")
    BY <1>4 DEF SaveLast
  <2>2. /\ Holding /\ ~Holding'
        /\ UNCHANGED << m_buffer, m_rawbuffer, gnssWorker, gnssTaken, sentences >>
    BY <1>4 DEF SaveLast, Holding, GnssStopLog, gnssVars
  <2> QED
    BY <2>1, <2>2, SaveStream
<1>5. CASE StopLivoxLog("stopLog", "stopSave") \/ StopLivoxLog("stopScanLog", "stopScanSave")
  BY <1>5, RetrievalTakes DEF StopLivoxLog
<1>6. CASE RetrieveLast("stop", "stopLog") \/ RetrieveLast("stopScanStop", "stopScanLog")
  BY <1>6, LeavesStream DEF RetrieveLast, Holding
<1>7. CASE Dispatch
  <2>1. ~Holding'
    BY <1>7 DEF Dispatch, Branch, Holding
  <2> QED
    BY <1>7, <2>1, LeavesStream DEF Dispatch, dataVars
<1>8. CASE \/ CreateDirectories \/ AliveBeep \/ WaitForResources \/ IdleCheck
           \/ IdleAutostart \/ NoChunk \/ CheckStage1 \/ TimeoutStage1 \/ CheckStage2
           \/ TimeoutStage2 \/ StartStopScan \/ EndStopScan
  <2>1. UNCHANGED << disk, gnssVars >> /\ ~Holding'
    BY <1>8 DEF CreateDirectories, AliveBeep, WaitForResources, IdleCheck,
      IdleAutostart, NoChunk, CheckStage1, TimeoutStage1, CheckStage2, TimeoutStage2,
      StageCheck, StageTimeout, StartStopScan, EndStopScan, dataVars, Holding
  <2> QED
    BY <2>1, LeavesStream
<1>9. CASE Watcher
  BY <1>1, <1>2, <1>3, <1>4, <1>5, <1>6, <1>7, <1>8, <1>9
    DEF Watcher, StopScanning, FinishStopScan
<1>10. CASE Receive
  <2>1. UNCHANGED << disk, pc >>
    BY <1>10 DEF Receive, watcherVars
  <2>2. CASE UNCHANGED gnssVars
    BY <2>1, <2>2, LeavesStream DEF Holding
  <2>3. CASE ReadLine \/ EmplaceRaw \/ PushGGA
    BY <2>1, <2>3, WorkerFills
  <2> QED
    BY <1>10, <2>2, <2>3 DEF Receive
<1>11. CASE ~(Watcher \/ Receive)
  <2>1. UNCHANGED << disk, pc, gnssVars >>
    BY <1>11 DEF Next, Callback, Assign, ArmStage1, Request, Quit, CreateLivox,
      StartListeners, CreateGpio, Expire, RawBufferBreaks, watcherVars, dataVars, vars
  <2> QED
    BY <2>1, LeavesStream DEF Holding
<1> QED
  BY <1>9, <1>10, <1>11

\* A packet is appended to its own buffer, or dropped.
LEMMA PacketFills ==
  ASSUME TypeOK, NEW s \in LidarStreams, PointCloudCallback \/ ImuDataCallback,
         UNCHANGED disk
  PROVE  Fills(s)
<1>0. /\ buffers \in Buffers /\ packets \in [{"lidar", "imu"} -> Nat]
      /\ s \in {"lidar", "imu"} /\ packets[s] \in Nat
  BY DEF TypeOK, LivoxTypeOK, LidarStreams
<1>1. Taken(s)' = Taken(s)
  BY LidarStream DEF PointCloudCallback, ImuDataCallback
<1>2. CASE packets'[s] = packets[s] /\ buffers'[s] = buffers[s]
  BY <1>0, <1>1, <1>2, LidarStream DEF Fills
<1>3. CASE packets'[s] = packets[s] + 1
           /\ buffers'[s] \in {buffers[s], Append(buffers[s], packets[s] + 1)}
  <2>1. /\ Limit(s) = packets[s] + 1 /\ Limit(s)' = packets[s] + 2
        /\ Limit(s) \in Nat
        /\ Limit(s) <= Limit(s)' /\ Limit(s) < Limit(s)'
    BY <1>0, <1>3, LidarStream
  <2>2. \/ Buffered(s)' = Buffered(s)
        \/ Buffered(s)' = Append(Buffered(s), Limit(s))
    BY <1>3, <2>1, LidarStream
  <2>3. Held(s)
    BY LidarStream
  <2> QED
    BY <1>1, <2>1, <2>2, <2>3 DEF Fills
<1>4. CASE PointCloudCallback
  BY <1>0, <1>2, <1>3, <1>4 DEF PointCloudCallback, Buffers
<1>5. CASE ImuDataCallback
  BY <1>0, <1>2, <1>3, <1>5 DEF ImuDataCallback, Buffers
<1> QED
  BY <1>4, <1>5

\* Every step deals with a stream of the LiDAR in one of the three ways.
LEMMA LidarStep ==
  ASSUME TypeOK, NEW s \in LidarStreams, [Next]_vars
  PROVE  Fills(s) \/ Takes(s) \/ Saves(s)
<1> USE DEF Goto, fileVars
<1>0. Limit(s) \in Nat
  BY LidarStream, StreamTypes
<1>1. CASE UNCHANGED << disk, livoxVars >>
  BY <1>0, <1>1, LidarStream DEF Fills, livoxVars
<1>2. CASE UNCHANGED disk /\ (LivoxStartLog \/ LivoxStopLog)
  BY <1>0, <1>2, LidarStream DEF LivoxStartLog, LivoxStopLog, FreshBuffers, NullBuffers, Fills
<1>3. CASE UNCHANGED disk /\ LivoxRetrieveData
  BY <1>3, LidarStream DEF LivoxRetrieveData, FreshBuffers, Takes
<1>4. ASSUME NEW d \in {"cs", "ss"}, NEW next, Save(d, next)
      PROVE  Takes(s) \/ Saves(s)
  <2>1. UNCHANGED << buffers, packets >> /\ retrieved' = NullBuffers
    BY <1>4 DEF Save
  <2>2. Limit(s)' = Limit(s) /\ Buffered(s)' = Buffered(s) /\ Taken(s)' = << >>
    BY <2>1, LidarStream DEF NullBuffers
  <2>3. CASE UNCHANGED disk
    BY <2>2, <2>3 DEF Takes
  <2>4. CASE ~UNCHANGED disk
    BY <1>4, <2>2, <2>4, LidarStream, SaveWrites DEF Saves
  <2> QED
    BY <2>3, <2>4
<1>5. CASE StartScanning \/ BeginStopScan
  <2>1. UNCHANGED disk /\ (LivoxStartLog \/ UNCHANGED livoxVars)
    BY <1>5 DEF StartScanning, BeginStopScan, StartLogs, dataVars
  <2> QED
    BY <1>1, <1>2, <2>1
<1>6. CASE \/ TakeChunk \/ RetrieveLast("stop", "stopLog")
           \/ RetrieveLast("stopScanStop", "stopScanLog")
  <2>1. UNCHANGED disk /\ (LivoxRetrieveData \/ UNCHANGED livoxVars)
    BY <1>6 DEF TakeChunk, RetrieveLast
  <2> QED
    BY <1>1, <1>3, <2>1
<1>7. CASE StopLivoxLog("stopLog", "stopSave") \/ StopLivoxLog("stopScanLog", "stopScanSave")
  BY <1>2, <1>7 DEF StopLivoxLog
<1>8. CASE SaveChunk \/ SaveLast("stopSave", "cs") \/ SaveLast("stopScanSave", "ss")
  <2>1. PICK d \in {"cs", "ss"}, next \in {app_state, "IDLE"} : Save(d, next)
    BY <1>8 DEF SaveChunk, SaveLast
  <2> QED
    BY <1>4, <2>1
<1>9. CASE \/ CreateDirectories \/ Dispatch \/ AliveBeep \/ WaitForResources \/ IdleCheck
           \/ IdleAutostart \/ NoChunk \/ CheckStage1 \/ TimeoutStage1 \/ CheckStage2
           \/ TimeoutStage2 \/ StartStopScan \/ EndStopScan
  BY <1>1, <1>9 DEF CreateDirectories, Dispatch, AliveBeep, WaitForResources, IdleCheck,
    IdleAutostart, NoChunk, CheckStage1, TimeoutStage1, CheckStage2, TimeoutStage2,
    StageCheck, StageTimeout, StartStopScan, EndStopScan, dataVars
<1>10. CASE Watcher
  BY <1>5, <1>6, <1>7, <1>8, <1>9, <1>10 DEF Watcher, StopScanning, FinishStopScan
<1>11. CASE Receive
  <2>1. UNCHANGED disk
    BY <1>11 DEF Receive, watcherVars
  <2> QED
    BY <1>1, <1>11, <2>1, PacketFills DEF Receive
<1>12. CASE ~(Watcher \/ Receive)
  BY <1>1, <1>12 DEF Next, Callback, Assign, ArmStage1, Request, Quit, CreateLivox,
    StartListeners, CreateGpio, Expire, RawBufferBreaks, watcherVars, dataVars, vars
<1> QED
  BY <1>10, <1>11, <1>12

\* Nothing is in two chunks and later chunks hold later data, of all four streams,
\* whatever requests race and whatever worker()'s append to m_rawbuffer without
\* the mutex leaves of it (main.cpp:495-520, 579-607, gnss.cpp:95).
THEOREM DataSavedOnce == Spec => []SavedOnce
<1> DEFINE InOrder == \A s \in Streams : Ordered(s)
<1>1. Init => InOrder
  <2> SUFFICES ASSUME Init, NEW s \in Streams PROVE Ordered(s)
    OBVIOUS
  <2>1. disk = << >> /\ Buffered(s) = << >> /\ Taken(s) = << >>
    BY DEF Init, GnssInit, LivoxInit, NullBuffers, Buffered, Taken, Streams,
      LidarStreams, SentenceStreams
  <2> QED
    BY <2>1 DEF Ordered, Below, Before
<1>2. TypeOK /\ InOrder /\ [Next]_vars => InOrder'
  <2> SUFFICES ASSUME TypeOK, InOrder, [Next]_vars, NEW s \in Streams PROVE Ordered(s)'
    BY DEF Ordered, Below, Before, Held, Holding, Buffered, Taken, Limit, SentenceLimit
  <2>1. TypeOK' /\ Ordered(s)
    BY NextTypeOK
  <2>2. Fills(s) \/ Takes(s) \/ Saves(s)
    BY SentenceStep, LidarStep DEF Streams
  <2> QED
    BY <2>1, <2>2, OrderedFills, OrderedTakes, OrderedSaves
<1>3. InOrder => SavedOnce
  <2> SUFFICES ASSUME InOrder, NEW s \in Streams, NEW i \in 1 .. Len(disk),
                      NEW j \in 1 .. Len(disk), i < j
               PROVE  Before(disk[i][s], disk[j][s])
    BY DEF SavedOnce, Before, Streams, LidarStreams, SentenceStreams
  <2> QED
    BY DEF Ordered
<1> QED
  BY <1>1, <1>2, <1>3, TypeCorrect, PTL DEF Spec

-----------------------------------------------------------------------------
(***************************************************************************)
(* A missing directory, overtaking requests included.                      *)
(***************************************************************************)

Missing == ~(dirs["cs"] /\ dirs["ss"])

\* Without both directories nothing runs but the head of the loop, and no
\* request can be pending that could take the state away.
UsbInv ==
  /\ \A c \in Callers : pending[c] \in Starts \cup Stops \cup {"none", "arm"}
  /\ pc = "boot" => Missing /\ app_state = "WAIT_FOR_RESOURCES"
  /\ Missing => Quiet /\ ~buffers.alloc /\ pc \in {"boot", "loop", "exit"}
  /\ Missing /\ pc # "boot" => app_state = "USB_IO_ERROR"
  /\ app_state = "USB_IO_ERROR" => Missing

\* What a step may do without both directories, and with them.
KeepsUsbError ==
  /\ app_state = "USB_IO_ERROR" => app_state' = app_state
  /\ ~buffers.alloc /\ buffers'.alloc => ~Missing

LEMMA UsbInvInit == Init => UsbInv
  BY DEF Init, LivoxInit, NullBuffers, UsbInv, Missing, Quiet

\* A request needs a state of IDLE or of a scan, so there is none without both
\* directories.
LEMMA UsbCaller ==
  ASSUME TypeOK, UsbInv, NEW c \in Callers, Callback(c) \/ Request(c) \/ Quit(c)
  PROVE  UsbInv' /\ KeepsUsbError
<1> USE DEF startupVars, watcherVars, fileVars, dataVars, livoxVars, WillAssign
<1>0. pending \in [Callers -> States \cup {"none", "arm"}]
  BY DEF TypeOK
<1>1. UNCHANGED << pc, dirs, buffers >>
  BY DEF Callback, Assign, ArmStage1, Request, Quit
<1>2. PICK s \in Starts \cup Stops \cup {"none", "arm"} :
        pending' = pending \/ pending' = [pending EXCEPT ![c] = s]
  BY DEF Callback, Assign, ArmStage1, Request, Quit, StartScan, StopScan,
    TriggerStopScan, TriggerContinousScanning, Starts, Stops
<1>3. \A d \in Callers : pending'[d] \in Starts \cup Stops \cup {"none", "arm"}
  BY <1>0, <1>2 DEF UsbInv
<1>4. CASE Missing
  <2>1. pending[c] = "none" /\ app_state \in {"WAIT_FOR_RESOURCES", "USB_IO_ERROR"}
    BY <1>4 DEF UsbInv, Quiet
  <2>2. ~Callback(c)
    BY <2>1 DEF Callback, Assign, ArmStage1, States
  <2>3. ~Request(c)
    BY <2>1 DEF Request, StartScan, StopScan, TriggerStopScan,
      TriggerContinousScanning, Idle
  <2>4. UNCHANGED << app_state, pending >>
    BY <2>2, <2>3 DEF Quit
  <2> QED
    BY <1>1, <1>4, <2>4 DEF UsbInv, Missing, Quiet, KeepsUsbError
<1>5. CASE ~Missing
  <2>1. app_state' # "USB_IO_ERROR"
    <3>1. CASE Assign(c)
      BY <3>1 DEF Assign, UsbInv, Starts, Stops, States
    <3>2. CASE ~Assign(c)
      BY <1>5, <3>2 DEF Callback, ArmStage1, Request, Quit, UsbInv
    <3> QED
      BY <3>1, <3>2
  <2>2. ~Missing' /\ pc' # "boot" /\ app_state # "USB_IO_ERROR"
    BY <1>1, <1>5 DEF UsbInv, Missing
  <2> QED
    BY <1>1, <1>3, <1>5, <2>1, <2>2 DEF UsbInv, KeepsUsbError
<1> QED
  BY <1>4, <1>5

LEMMA UsbWatcher ==
  ASSUME TypeOK, UsbInv, Watcher
  PROVE  UsbInv' /\ KeepsUsbError
<1> USE DEF Goto, startupVars, fileVars, flagVars, dataVars, livoxVars
<1>1. CASE CreateDirectories
  <2>1. /\ UNCHANGED << pending, buffers >> /\ pc = "boot" /\ pc' = "loop"
        /\ app_state' = IF dirs'["cs"] /\ dirs'["ss"] THEN app_state ELSE "USB_IO_ERROR"
    BY <1>1 DEF CreateDirectories
  <2>2. app_state = "WAIT_FOR_RESOURCES" /\ Quiet /\ ~buffers.alloc
    BY <2>1 DEF UsbInv
  <2>3. app_state' = "USB_IO_ERROR" => Missing'
    BY <2>1, <2>2 DEF Missing
  <2>4. Missing' => app_state' = "USB_IO_ERROR"
    BY <2>1 DEF Missing
  <2> QED
    BY <2>1, <2>2, <2>3, <2>4 DEF UsbInv, Quiet, KeepsUsbError
<1>2. CASE Dispatch
  <2>1. UNCHANGED << app_state, pending, dirs, buffers >> /\ pc = "loop" /\ pc' # "boot"
    BY <1>2 DEF Dispatch, Branch
  <2>2. ASSUME Missing PROVE pc' \in {"loop", "exit"}
    <3>1. app_state = "USB_IO_ERROR"
      BY <2>1, <2>2 DEF UsbInv
    <3>2. Branch(app_state) = "loop"
      BY <3>1 DEF Branch, ScanStates
    <3> QED
      BY <1>2, <3>2 DEF Dispatch
  <2> QED
    BY <2>1, <2>2 DEF UsbInv, Missing, Quiet, KeepsUsbError
<1>3. ASSUME pc \notin {"boot", "loop"}, pc' # "boot", UNCHANGED dirs,
             \A c \in Callers : pending'[c] = pending[c],
             dirs["cs"] /\ dirs["ss"] => app_state' # "USB_IO_ERROR",
             pc # "exit"
      PROVE  UsbInv' /\ KeepsUsbError
  <2>1. ~Missing /\ ~Missing'
    BY <1>3 DEF UsbInv, Missing
  <2>2. app_state # "USB_IO_ERROR" /\ app_state' # "USB_IO_ERROR"
    BY <1>3, <2>1 DEF UsbInv, Missing
  <2> QED
    BY <1>3, <2>1, <2>2 DEF UsbInv, KeepsUsbError
<1>4. CASE ~(CreateDirectories \/ Dispatch)
  <2>1. \A d \in {"cs", "ss"} : \A next :
          Save(d, next) /\ dirs["cs"] /\ dirs["ss"]
            => app_state' \in {app_state, next}
    BY DEF Save
  <2>2. \A d, next : Save(d, next) => UNCHANGED << pending, dirs >>
    BY DEF Save
  <2>3. dirs["cs"] /\ dirs["ss"] => app_state # "USB_IO_ERROR"
    BY DEF UsbInv, Missing
  <2>4. CASE SaveChunk \/ SaveLast("stopSave", "cs") \/ SaveLast("stopScanSave", "ss")
    BY <1>3, <2>1, <2>2, <2>3, <2>4 DEF SaveChunk, SaveLast
  <2>5. CASE ~(SaveChunk \/ SaveLast("stopSave", "cs") \/ SaveLast("stopScanSave", "ss"))
    <3>1. /\ pc \notin {"boot", "loop", "exit"} /\ pc' # "boot"
          /\ UNCHANGED << pending, dirs >>
      BY <1>4, <2>5 DEF Watcher, AliveBeep,
        WaitForResources, IdleCheck, IdleAutostart, StartScanning, NoChunk, TakeChunk,
        CheckStage1, TimeoutStage1, CheckStage2, TimeoutStage2, StageCheck,
        StageTimeout, StopScanning, FinishStopScan, RetrieveLast, StopLivoxLog,
        StartStopScan, BeginStopScan, EndStopScan
    <3>2. app_state' = app_state \/ app_state' # "USB_IO_ERROR"
      BY <1>4, <2>5 DEF Watcher, AliveBeep,
        WaitForResources, IdleCheck, IdleAutostart, StartScanning, NoChunk, TakeChunk,
        CheckStage1, TimeoutStage1, CheckStage2, TimeoutStage2, StageCheck,
        StageTimeout, StopScanning, FinishStopScan, RetrieveLast, StopLivoxLog,
        StartStopScan, BeginStopScan, EndStopScan
    <3> QED
      BY <1>3, <2>3, <3>1, <3>2
  <2> QED
    BY <2>4, <2>5
<1> QED
  BY <1>1, <1>2, <1>4

LEMMA UsbOther ==
  ASSUME TypeOK, UsbInv,
         \/ CreateLivox \/ StartListeners \/ CreateGpio \/ Receive \/ RawBufferBreaks
         \/ UNCHANGED vars
         \/ \E t \in Deadlines : Expire(t)
  PROVE  UsbInv' /\ KeepsUsbError
<1>1. UNCHANGED << app_state, pending, pc, dirs >>
  BY DEF CreateLivox, StartListeners, CreateGpio, Receive, RawBufferBreaks, Expire,
    watcherVars, fileVars, vars
<1>2. buffers'.alloc <=> buffers.alloc
  <2>1. buffers \in Buffers
    BY DEF TypeOK, LivoxTypeOK
  <2>2. CASE Receive
    BY <2>1, <2>2 DEF Receive, PointCloudCallback, ImuDataCallback, livoxVars, Buffers
  <2>3. CASE ~Receive
    BY <2>3 DEF CreateLivox, StartListeners, CreateGpio, RawBufferBreaks, Expire, vars,
      dataVars, livoxVars
  <2> QED
    BY <2>2, <2>3
<1> QED
  BY <1>1, <1>2 DEF UsbInv, Missing, Quiet, KeepsUsbError

\* A directory that could not be made stays reported, whatever the buttons, the
\* console and the web page ask for, and nothing is recorded (main.cpp:312-324).
THEOREM UsbErrorStays == Spec => UsbErrorIsFinal
<1>1. ASSUME TypeOK, UsbInv, [Next]_vars PROVE UsbInv' /\ KeepsUsbError
  BY <1>1, UsbCaller, UsbWatcher, UsbOther DEF Next
<1>2. TypeOK /\ UsbInv /\ [Next]_vars => UsbInv'
  BY <1>1
<1>3. TypeOK /\ UsbInv /\ [Next]_vars
        => [/\ app_state = "USB_IO_ERROR" => app_state' = app_state
            /\ ~buffers.alloc /\ buffers'.alloc => dirs["cs"] /\ dirs["ss"]]_vars
  BY <1>1 DEF KeepsUsbError, Missing
<1> QED
  BY <1>2, <1>3, UsbInvInit, TypeCorrect, PTL DEF Spec, UsbErrorIsFinal

-----------------------------------------------------------------------------
(***************************************************************************)
(* The names of the chunks implement SessionFiles, overtaking requests and *)
(* saves that fail included.                                               *)
(***************************************************************************)

\* A chunk is written by one of the three saves, and the folders do not change.
LEMMA WritesOneChunk ==
  ASSUME TypeOK, Next, ~UNCHANGED disk
  PROVE  /\ pc \in {"chunk", "stopSave", "stopScanSave"}
         /\ UNCHANGED dirs
         /\ \E c \in [dir : {"cs", "ss"}, idx : {FileNumber}, ok : BOOLEAN,
                      lidar : Seq(Nat), imu : Seq(Nat), gnss : Seq(Nat), nmea : Seq(Nat)] :
              disk' = Append(disk, c)
<1>1. /\ retrieved.lidar \in Seq(Nat) /\ retrieved.imu \in Seq(Nat)
      /\ gnssTaken.gnss \in Seq(Nat) /\ gnssTaken.nmea \in Seq(Nat)
  BY DEF TypeOK, LivoxTypeOK, GnssTypeOK, Buffers
<1>2. ASSUME NEW d \in {"cs", "ss"}, NEW next, Save(d, next)
      PROVE  /\ UNCHANGED dirs
             /\ \E ok \in BOOLEAN :
                  disk' = Append(disk, [dir |-> d, idx |-> FileNumber, ok |-> ok,
                            lidar |-> retrieved.lidar, imu |-> retrieved.imu,
                            gnss |-> gnssTaken.gnss, nmea |-> gnssTaken.nmea])
  BY <1>2 DEF Save
<1>3. CASE SaveChunk
  BY <1>1, <1>2, <1>3 DEF SaveChunk, Goto
<1>4. CASE SaveLast("stopSave", "cs")
  BY <1>1, <1>2, <1>4 DEF SaveLast, Goto
<1>5. CASE SaveLast("stopScanSave", "ss")
  BY <1>1, <1>2, <1>5 DEF SaveLast, Goto
<1>6. CASE Watcher /\ ~(SaveChunk \/ SaveLast("stopSave", "cs")
                          \/ SaveLast("stopScanSave", "ss"))
  BY <1>6 DEF Watcher, CreateDirectories, Dispatch, AliveBeep, WaitForResources,
    IdleCheck, IdleAutostart, StartScanning, NoChunk, TakeChunk, CheckStage1,
    TimeoutStage1, CheckStage2, TimeoutStage2, StageCheck, StageTimeout, StopScanning,
    FinishStopScan, RetrieveLast, StopLivoxLog, StartStopScan, BeginStopScan,
    EndStopScan, fileVars
<1>7. CASE ~Watcher
  BY <1>7 DEF Next, Callback, Assign, ArmStage1, Request, Quit, CreateLivox,
    StartListeners, CreateGpio, Expire, Receive, RawBufferBreaks, watcherVars, fileVars
<1> QED
  BY <1>3, <1>4, <1>5, <1>6, <1>7

\* Only CreateDirectories makes folders.
LEMMA FoldersMadeOnce ==
  ASSUME Next, UNCHANGED disk
  PROVE  UNCHANGED dirs \/ pc = "boot"
<1>1. CASE Watcher
  BY <1>1 DEF Watcher, CreateDirectories, Dispatch, AliveBeep, WaitForResources,
    IdleCheck, IdleAutostart, StartScanning, NoChunk, TakeChunk, SaveChunk, Save,
    SaveLast, CheckStage1, TimeoutStage1, CheckStage2, TimeoutStage2, StageCheck,
    StageTimeout, StopScanning, FinishStopScan, RetrieveLast, StopLivoxLog,
    StartStopScan, BeginStopScan, EndStopScan, fileVars, Goto
<1>2. CASE ~Watcher
  BY <1>2 DEF Next, Callback, Assign, ArmStage1, Request, Quit, CreateLivox,
    StartListeners, CreateGpio, Expire, Receive, RawBufferBreaks, watcherVars, fileVars
<1> QED
  BY <1>1, <1>2

LEMMA FilingStep ==
  ASSUME TypeOK, ChunksCounted, UsbInv, [Next]_vars
  PROVE  [Filing!Next]_Filing!vars
<1> DEFINE ready == dirs["cs"] /\ dirs["ss"]
           named == {<< disk[i].dir, disk[i].idx >> : i \in DOMAIN disk}
<1>0. disk \in Seq(Chunk) /\ dirs \in [{"cs", "ss"} -> BOOLEAN]
  BY DEF TypeOK
<1>1. CASE UNCHANGED << disk, dirs >>
  BY <1>1 DEF Filing!vars
<1>2. CASE UNCHANGED disk /\ ~UNCHANGED dirs
  <2>1. pc = "boot"
    BY <1>2, FoldersMadeOnce DEF vars, watcherVars, fileVars
  <2>2. ~ready
    BY <2>1 DEF UsbInv, Missing
  <2>3. ready' \in BOOLEAN /\ UNCHANGED << Len(disk), named >>
    BY <1>2
  <2>4. CASE ready'
    BY <2>2, <2>3, <2>4 DEF Filing!Next, Filing!MakeFolders
  <2>5. CASE ~ready'
    BY <2>2, <2>3, <2>5 DEF Filing!vars
  <2> QED
    BY <2>4, <2>5
<1>3. CASE ~UNCHANGED disk
  <2>1. Next
    BY <1>3 DEF vars, watcherVars, fileVars
  <2>2. PICK c : /\ c.dir \in {"cs", "ss"} /\ c.idx = FileNumber
                 /\ disk' = Append(disk, c)
    BY <1>3, <2>1, WritesOneChunk
  <2>3. ready /\ ready' = ready
    <3>1. UNCHANGED dirs /\ pc \in {"chunk", "stopSave", "stopScanSave"}
      BY <1>3, <2>1, WritesOneChunk
    <3>2. ~Missing
      BY <3>1 DEF UsbInv
    <3> QED
      BY <3>1, <3>2 DEF Missing
  <2>4. Len(disk') = Len(disk) + 1
    BY <1>0, <2>2
  <2>5. named' = named \cup {<< c.dir, Len(disk) >>}
    <3>1. /\ DOMAIN disk' = DOMAIN disk \cup {Len(disk) + 1}
          /\ disk'[Len(disk) + 1] = c
          /\ \A i \in DOMAIN disk : disk'[i] = disk[i]
      BY <1>0, <2>2
    <3>2. c.idx = Len(disk)
      BY <2>2 DEF ChunksCounted
    <3> QED
      BY <3>1, <3>2
  <2> HIDE DEF ready, named
  <2>6. \E kind \in {"cs", "ss"} :
          /\ ready /\ ready' = ready
          /\ named' = named \cup {<< kind, Len(disk) >>}
          /\ Len(disk') = Len(disk) + 1
    BY <2>2, <2>3, <2>4, <2>5
  <2> QED
    BY <2>6 DEF Filing!Next, Filing!Write, ready, named
<1> QED
  BY <1>1, <1>2, <1>3

\* In any order of requests a session names its files 0, 1, 2, ..., continuous
\* and stop scans together, and writes none of them without both folders
\* (main.cpp:312-324, 519, 684).
THEOREM ChunksAreFiled == Spec => ChunksFiled
<1>1. Init => Filing!Init
  BY DEF Init, Filing!Init
<1>2. Init => ChunksCounted
  BY DEF Init, ChunksCounted, FileNumber
<1>3. TypeOK /\ ChunksCounted /\ [Next]_vars => ChunksCounted'
  BY ChunksCountedStep
<1>4. TypeOK /\ UsbInv /\ [Next]_vars => UsbInv'
  BY UsbCaller, UsbWatcher, UsbOther DEF Next
<1>5. TypeOK /\ ChunksCounted /\ UsbInv /\ [Next]_vars => [Filing!Next]_Filing!vars
  BY FilingStep
<1> QED
  BY <1>1, <1>2, <1>3, <1>4, <1>5, UsbInvInit, TypeCorrect, PTL
  DEF Spec, ChunksFiled, Filing!Spec

=============================================================================
