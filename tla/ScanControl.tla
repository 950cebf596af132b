---------------------------- MODULE ScanControl ----------------------------
(***************************************************************************)
(* The controller of code/main.cpp: the thread of stateWatcher(), the      *)
(* three threads that request state changes (the HTTP server, the GPIO     *)
(* readback thread behind the buttons, the console loop of main()), and    *)
(* the start-up threads that create the LiDAR, GNSS and GPIO clients.      *)
(*                                                                         *)
(* app_state is a plain global.  A requesting thread tests it and assigns  *)
(* it a little later; stateWatcher() reads it at the top of a branch and   *)
(* assigns it blindly at the end.  Each test and each assignment is a step *)
(* of its own.  A deadline is modelled by the set of the deadlines that    *)
(* have passed: assigning it takes it out, Expire puts it back.            *)
(***************************************************************************)
EXTENDS LivoxClient, GNSSClient, FiniteSets

CONSTANTS
  Autostart,         \* hardware::Autostart
  WaitForLidarSync,  \* hardware::WaitForLidarSync
  OneClick,          \* MANDEYE_COUNTINOUS_SCANNING_STOP_1_CLICK is defined
  AbortOnUsbError,   \* hardware::ReportState aborts on a persistent USB error
  HasGnss,           \* hardware::GetGNSSPort() is not empty
  disableBuzzer,     \* the MANDEYE_DISABLE_BUZZER environment variable
  Commands,          \* which of the five requests are made at all
  Overtaking,        \* a thread may run between another's test and assignment
  SavesFail,         \* writing a chunk to the USB drive may fail
  MaxReceived,       \* bound: how many packets and sentences come in all
  MaxChunks          \* bound: no request is made once so many chunks are saved

Requests == {"StartScan", "StopScan", "TriggerStopScan",
             "TriggerContinousScanning", "quit"}

ASSUME ControlAssumption ==
  /\ \A flag \in {Autostart, WaitForLidarSync, OneClick, AbortOnUsbError,
                  HasGnss, disableBuzzer, Overtaking, SavesFail} : flag \in BOOLEAN
  /\ Commands \subseteq Requests
  /\ MaxChunks \in Nat /\ MaxReceived \in Nat

States == {"WAIT_FOR_RESOURCES", "IDLE", "STARTING_SCAN", "SCANNING",
           "STOPPING", "STOPPING_STAGE_1", "STOPPING_STAGE_2", "STOPPED",
           "STARTING_STOP_SCAN", "STOP_SCAN_IN_PROGRESS",
           "STOP_SCAN_IN_INITIAL_PROGRESS", "STOPING_STOP_SCAN",
           "LIDAR_ERROR", "USB_IO_ERROR"}

Deadlines == {"chunk", "stage1", "stage2", "initial", "stopScan"}

\* The threads that request state changes, and what each can request.
Callers == {"http", "gpio", "stdin"}
Offers == [http  |-> {"StartScan", "StopScan", "TriggerStopScan"},
           gpio  |-> {"TriggerStopScan", "TriggerContinousScanning"},
           stdin |-> {"StartScan", "StopScan", "quit"}]

VARIABLES
  app_state,
  isLidarError,
  isRunning,
  pending,       \* per caller: the state it is about to assign to app_state,
                 \* "arm" when it still has to assign the stage 1 deadline
  expired,       \* the deadlines that have passed
  pc,            \* where stateWatcher() is
  dirs,          \* whether the two directory names are non-empty
  chunks,        \* chunksInExperimentCS and chunksInExperimentSS
  disk,          \* the chunks written, in order
  usbReports,    \* count of ReportState(USB_IO_ERROR)
  livoxThread,   \* "create" while livoxCLientPtr is null, then "listen", "done"
  gpioThread,    \* "start" while gpioClientPtr is null, then "init", "ready"
  gnssClient,    \* gnssClientPtr is not null
  fault          \* why the process died, "none" while it runs

dataVars    == << livoxVars, gnssVars >>
fileVars    == << dirs, chunks, disk >>
startupVars == << livoxThread, gpioThread, gnssClient >>
watcherVars == << pc, fileVars, usbReports, fault >>
flagVars    == << isLidarError, isRunning >>
vars == << app_state, pending, expired, startupVars, watcherVars, flagVars,
           dataVars >>

ScanStates == {"SCANNING", "STOPPING_STAGE_1", "STOPPING_STAGE_2"}

\* Where a pass of the while loop goes for the value it finds in app_state.
Branch(s) ==
  CASE s = "WAIT_FOR_RESOURCES"            -> "wait"
    [] s = "IDLE"                          -> "idle"
    [] s = "STARTING_SCAN"                 -> "start"
    [] s \in ScanStates                    -> "scan"
    [] s = "STOPPING"                      -> "stop"
    [] s = "STARTING_STOP_SCAN"            -> "stopScanStart"
    [] s = "STOP_SCAN_IN_INITIAL_PROGRESS" -> "stopScanInitial"
    [] s = "STOP_SCAN_IN_PROGRESS"         -> "stopScanProgress"
    [] s = "STOPING_STOP_SCAN"             -> "stopScanStop"
    [] OTHER                               -> "loop"

Chunk == [dir : {"cs", "ss"}, idx : Nat, ok : BOOLEAN, lidar : Seq(Nat),
          imu : Seq(Nat), gnss : Seq(Nat), nmea : Seq(Nat)]

PCs == {"boot", "loop", "exit", "wait", "resources", "idle", "idleSlept",
        "start", "scan", "chunk", "stage1", "inStage1", "stage2", "inStage2",
        "stop", "stopLog", "stopSave", "stopScanStart", "stopScanInitial",
        "stopScanProgress", "stopScanStop", "stopScanLog", "stopScanSave"}

TypeOK ==
  /\ LivoxTypeOK
  /\ GnssTypeOK
  /\ app_state \in States
  /\ isLidarError \in BOOLEAN
  /\ isRunning \in BOOLEAN
  /\ pending \in [Callers -> States \cup {"none", "arm"}]
  /\ expired \subseteq Deadlines
  /\ pc \in PCs
  /\ dirs \in [{"cs", "ss"} -> BOOLEAN]
  /\ chunks \in [{"cs", "ss"} -> Nat]
  /\ disk \in Seq(Chunk)
  /\ usbReports \in Nat
  /\ livoxThread \in {"create", "listen", "done"}
  /\ gpioThread \in {"start", "init", "ready"}
  /\ gnssClient \in BOOLEAN
  /\ fault \in {"none", "gpio null", "livox null", "buffer null", "raw buffer",
               "abort"}

Init ==
  /\ LivoxInit
  /\ GnssInit
  /\ app_state = "WAIT_FOR_RESOURCES"
  /\ isLidarError = FALSE
  /\ isRunning = TRUE
  /\ pending = [c \in Callers |-> "none"]
  /\ expired = Deadlines \ {"chunk"}
  /\ pc = "boot"
  /\ dirs = [d \in {"cs", "ss"} |-> FALSE]
  /\ chunks = [d \in {"cs", "ss"} |-> 0]
  /\ disk = << >>
  /\ usbReports = 0
  /\ livoxThread = "create"
  /\ gpioThread = "start"
  /\ gnssClient = FALSE
  /\ fault = "none"

-----------------------------------------------------------------------------
(***************************************************************************)
(* The requesting threads: StartScan, StopScan, TriggerStopScan and        *)
(* TriggerContinousScanning test app_state and note what they will assign, *)
(* Assign assigns it.                                                      *)
(***************************************************************************)

\* Caller c is free to make request r, within the bound on chunks.  The button
\* callbacks are registered at the end of the GPIO start-up, the console loop
\* ends with isRunning.
CanRequest(c, r) ==
  /\ pending[c] = "none"
  /\ Len(disk) < MaxChunks
  /\ r \in Commands \cap Offers[c]
  /\ c = "gpio" => gpioThread = "ready"
  /\ c = "stdin" => isRunning

\* Mutant: any state without a scan, the error states included.
IdleUnlessScanning == app_state \notin ScanStates

Idle == app_state \in {"IDLE", "STOPPED"}

WillAssign(c, s) == pending' = [pending EXCEPT ![c] = s]

StartScan(c) ==
  /\ CanRequest(c, "StartScan")
  /\ Idle
  /\ WillAssign(c, "STARTING_SCAN")
  /\ UNCHANGED expired

\* Mutant: a scan that is only about to start can be stopped as well.
StopScanEarly(c) ==
  /\ CanRequest(c, "StopScan")
  /\ app_state \in {"STARTING_SCAN", "SCANNING"}
  /\ WillAssign(c, "STOPPING")
  /\ UNCHANGED expired

StopScan(c) ==
  /\ CanRequest(c, "StopScan")
  /\ app_state = "SCANNING"
  /\ WillAssign(c, "STOPPING")
  /\ UNCHANGED expired

TriggerStopScan(c) ==
  /\ CanRequest(c, "TriggerStopScan")
  /\ Idle
  /\ WillAssign(c, "STARTING_STOP_SCAN")
  /\ UNCHANGED expired

\* The white button: it starts a scan, and stops it at once or by two more
\* clicks, each within the deadline the one before has set.
TriggerContinousScanning(c) ==
  /\ CanRequest(c, "TriggerContinousScanning")
  /\ \/ Idle /\ WillAssign(c, "STARTING_SCAN") /\ UNCHANGED expired
     \/ /\ app_state = "SCANNING"
        /\ WillAssign(c, IF OneClick THEN "STOPPING" ELSE "STOPPING_STAGE_1")
        /\ UNCHANGED expired
     \/ /\ app_state = "STOPPING_STAGE_1" /\ "stage1" \notin expired
        /\ expired' = expired \ {"stage2"}
        /\ WillAssign(c, "STOPPING_STAGE_2")
     \/ /\ app_state = "STOPPING_STAGE_2" /\ "stage2" \notin expired
        /\ WillAssign(c, "STOPPING")
        /\ UNCHANGED expired

\* Mutant: the note that the deadline is still missing is assigned as a state.
AssignMarker(c) ==
  /\ pending[c] # "none"
  /\ app_state' = pending[c]
  /\ WillAssign(c, IF pending[c] = "STOPPING_STAGE_1" THEN "arm" ELSE "none")
  /\ UNCHANGED << expired, startupVars, watcherVars, flagVars, dataVars >>

\* The assignment.  Stage 1 gets its deadline only afterwards.
Assign(c) ==
  /\ pending[c] \in States
  /\ app_state' = pending[c]
  /\ WillAssign(c, IF pending[c] = "STOPPING_STAGE_1" THEN "arm" ELSE "none")
  /\ UNCHANGED << expired, startupVars, watcherVars, flagVars, dataVars >>

ArmStage1(c) ==
  /\ pending[c] = "arm"
  /\ expired' = expired \ {"stage1"}
  /\ WillAssign(c, "none")
  /\ UNCHANGED << app_state, startupVars, watcherVars, flagVars, dataVars >>

\* 'q' on the console.
Quit(c) ==
  /\ CanRequest(c, "quit")
  /\ isRunning' = FALSE
  /\ UNCHANGED << app_state, pending, expired, startupVars, watcherVars,
                  isLidarError, dataVars >>

Request(c) ==
  /\ StartScan(c) \/ StopScan(c) \/ TriggerStopScan(c) \/ TriggerContinousScanning(c)
  /\ UNCHANGED << app_state, startupVars, watcherVars, flagVars, dataVars >>

-----------------------------------------------------------------------------
(***************************************************************************)
(* stateWatcher().                                                         *)
(***************************************************************************)

LivoxNull == livoxThread = "create"
GpioNull  == gpioThread = "start"

Goto(here, there) == pc = here /\ pc' = there

\* Mutant: only the second directory is tested.
CreateDirectoriesOneChecked ==
  /\ Goto("boot", "loop")
  /\ dirs' \in [{"cs", "ss"} -> BOOLEAN]
  /\ app_state' = IF dirs'["ss"] THEN app_state ELSE "USB_IO_ERROR"
  /\ UNCHANGED << pending, expired, startupVars, chunks, disk, usbReports, fault,
                  flagVars, dataVars >>

\* Both directories are made before the loop; one that cannot be made leaves
\* its name empty.
CreateDirectories ==
  /\ Goto("boot", "loop")
  /\ dirs' \in [{"cs", "ss"} -> BOOLEAN]
  /\ app_state' = IF dirs'["cs"] /\ dirs'["ss"] THEN app_state ELSE "USB_IO_ERROR"
  /\ UNCHANGED << pending, expired, startupVars, chunks, disk, usbReports, fault,
                  flagVars, dataVars >>

\* Mutant: the reports of the USB error are not counted.
DispatchForgetful ==
  /\ pc = "loop"
  /\ pc' = IF isRunning THEN Branch(app_state) ELSE "exit"
  /\ UNCHANGED << app_state, pending, expired, startupVars, fileVars, usbReports,
                  fault, flagVars, dataVars >>

\* The head of the loop: ReportState(), then the choice of the branch.
Dispatch ==
  /\ pc = "loop"
  /\ pc' = IF isRunning THEN Branch(app_state) ELSE "exit"
  /\ IF isRunning /\ AbortOnUsbError /\ app_state = "USB_IO_ERROR"
       THEN /\ usbReports' = usbReports + 1
            /\ fault' = IF usbReports >= 2 THEN "abort" ELSE fault
       ELSE UNCHANGED << usbReports, fault >>
  /\ UNCHANGED << app_state, pending, expired, startupVars, fileVars,
                  flagVars, dataVars >>

\* The short beep goes through gpioClientPtr without a test.
AliveBeep ==
  /\ Goto("wait", "resources")
  /\ fault' = IF ~disableBuzzer /\ GpioNull THEN "gpio null" ELSE fault
  /\ UNCHANGED << app_state, pending, expired, startupVars, fileVars,
                  usbReports, flagVars, dataVars >>

\* Under livoxClientPtrLock and gpioClientPtrLock, which thGpio holds for the
\* whole of its start-up.  The wait for the time synchronisation keeps both
\* locks, so that a LiDAR client not created by now cannot become synchronised.
WaitForResources ==
  /\ Goto("resources", "loop")
  /\ gpioThread # "init"
  /\ \E synced \in IF LivoxNull THEN {FALSE} ELSE BOOLEAN :
       isLidarError' = (isLidarError \/ (WaitForLidarSync /\ ~synced))
  /\ app_state' = IF GpioNull THEN app_state ELSE "IDLE"
  /\ UNCHANGED << pending, expired, startupVars, fileVars, usbReports,
                  fault, isRunning, dataVars >>

IdleCheck ==
  /\ Goto("idle", "idleSlept")
  /\ app_state' = IF isLidarError THEN "LIDAR_ERROR" ELSE app_state
  /\ UNCHANGED << pending, expired, startupVars, fileVars, usbReports,
                  fault, flagVars, dataVars >>

\* Mutant: the branch assigns its own state again at the end.
IdleStaysIdle ==
  /\ Goto("idleSlept", "loop")
  /\ app_state' = IF isLidarError THEN "LIDAR_ERROR" ELSE "IDLE"
  /\ UNCHANGED << pending, expired, startupVars, fileVars, usbReports,
                  fault, flagVars, dataVars >>

\* 100 ms later.
IdleAutostart ==
  /\ Goto("idleSlept", "loop")
  /\ app_state' = IF Autostart /\ ~isLidarError THEN "STARTING_SCAN" ELSE app_state
  /\ UNCHANGED << pending, expired, startupVars, fileVars, usbReports,
                  fault, flagVars, dataVars >>

StartLogs ==
  /\ IF LivoxNull THEN UNCHANGED livoxVars ELSE LivoxStartLog
  /\ IF gnssClient THEN GnssStartLog ELSE UNCHANGED gnssVars

\* Without a LiDAR client the state stays and the branch is taken again.
StartScanning ==
  /\ Goto("start", "loop")
  /\ IF LivoxNull THEN UNCHANGED << app_state, dataVars >>
                  ELSE app_state' = "SCANNING" /\ StartLogs
  /\ expired' = expired \ {"chunk"}
  /\ UNCHANGED << pending, startupVars, fileVars, usbReports, fault, flagVars >>

-----------------------------------------------------------------------------
\* A pass in SCANNING, STOPPING_STAGE_1 or STOPPING_STAGE_2.

ChunkDue == "chunk" \in expired /\ app_state = "SCANNING"

NoChunk ==
  /\ Goto("scan", "stage1")
  /\ ~ChunkDue
  /\ UNCHANGED << app_state, pending, expired, startupVars, fileVars,
                  usbReports, fault, flagVars, dataVars >>

TakeChunk ==
  /\ Goto("scan", "chunk")
  /\ ChunkDue
  /\ expired' = expired \ {"chunk"}
  /\ LivoxRetrieveData
  /\ IF gnssClient THEN GnssRetrieveBoth ELSE GnssNothingTaken
  /\ UNCHANGED << app_state, pending, startupVars, fileVars, usbReports,
                  fault, flagVars >>

\* Mutant: the number counts the chunks of continuous scans only.
FileNumberCS == chunks["cs"]

FileNumber == chunks["cs"] + chunks["ss"]

\* The files of one chunk: named by the sum of both counters, and a failure to
\* write is only logged.  Saving begins with retrieved.lidar->size().
Save(d, next) ==
  /\ CASE ~dirs[d]         -> /\ app_state' = "USB_IO_ERROR"
                              /\ UNCHANGED << disk, chunks, fault >>
       [] dirs[d] /\ ~retrieved.alloc
                           -> /\ fault' = "buffer null"
                              /\ UNCHANGED << app_state, disk, chunks >>
       [] OTHER            -> /\ \E ok \in IF SavesFail THEN BOOLEAN ELSE {TRUE} :
                                   disk' = Append(disk,
                                     [dir |-> d, idx |-> FileNumber,
                                      ok |-> ok,
                                      lidar |-> retrieved.lidar, imu |-> retrieved.imu,
                                      gnss |-> gnssTaken.gnss, nmea |-> gnssTaken.nmea])
                              /\ chunks' = [chunks EXCEPT ![d] = @ + 1]
                              /\ app_state' = next
                              /\ UNCHANGED fault
  /\ retrieved' = NullBuffers
  /\ UNCHANGED << pending, expired, startupVars, dirs, usbReports, flagVars,
                  buffers, packets >>

SaveChunk ==
  /\ Goto("chunk", "stage1")
  /\ Save("cs", app_state)
  /\ UNCHANGED gnssVars

\* A stage whose deadline has passed goes back to SCANNING: the state is tested
\* here ...
StageCheck(here, next, stage, inStage) ==
  /\ Goto(here, IF app_state = stage THEN inStage ELSE next)
  /\ UNCHANGED << app_state, pending, expired, startupVars, fileVars,
                  usbReports, fault, flagVars, dataVars >>

\* ... and, with the clock read later, overwritten here.
StageTimeout(here, next, deadline) ==
  /\ Goto(here, next)
  /\ app_state' = IF deadline \in expired THEN "SCANNING" ELSE app_state
  /\ UNCHANGED << pending, expired, startupVars, fileVars, usbReports,
                  fault, flagVars, dataVars >>

\* Mutant: the test of stage 1 copied.
CheckStage1Again == StageCheck("stage2", "loop", "STOPPING_STAGE_1", "inStage2")

CheckStage1   == StageCheck("stage1", "stage2", "STOPPING_STAGE_1", "inStage1")
TimeoutStage1 == StageTimeout("inStage1", "stage2", "stage1")
CheckStage2   == StageCheck("stage2", "loop", "STOPPING_STAGE_2", "inStage2")
TimeoutStage2 == StageTimeout("inStage2", "loop", "stage2")

-----------------------------------------------------------------------------
\* The end of a scan of either kind: retrieveData(), then stopLog(), then the
\* files.  What arrives between the first two goes nowhere.

\* Mutant: stopLog() with nothing retrieved but empty buffers.
RetrieveNothing(here, next) ==
  /\ Goto(here, next)
  /\ retrieved' = FreshBuffers
  /\ UNCHANGED << buffers, packets, fault >>
  /\ UNCHANGED << app_state, pending, expired, startupVars, fileVars,
                  usbReports, flagVars, gnssVars >>

RetrieveLast(here, next) ==
  /\ Goto(here, next)
  /\ IF LivoxNull THEN fault' = "livox null" /\ UNCHANGED livoxVars
                  ELSE LivoxRetrieveData /\ UNCHANGED fault
  /\ UNCHANGED << app_state, pending, expired, startupVars, fileVars,
                  usbReports, flagVars, gnssVars >>

StopLivoxLog(here, next) ==
  /\ Goto(here, next)
  /\ LivoxStopLog
  /\ IF gnssClient THEN GnssRetrieveData ELSE GnssNothingTaken
  /\ UNCHANGED << app_state, pending, expired, startupVars, fileVars,
                  usbReports, fault, flagVars >>

\* Mutant: the state is not set when the chunk is saved.
SaveLastStays(here, d) ==
  /\ Goto(here, "loop")
  /\ IF gnssClient THEN GnssStopLog ELSE UNCHANGED gnssVars
  /\ Save(d, app_state)

SaveLast(here, d) ==
  /\ Goto(here, "loop")
  /\ IF gnssClient THEN GnssStopLog ELSE UNCHANGED gnssVars
  /\ Save(d, "IDLE")

StopScanning ==
  \/ RetrieveLast("stop", "stopLog")
  \/ StopLivoxLog("stopLog", "stopSave")
  \/ SaveLast("stopSave", "cs")

-----------------------------------------------------------------------------
\* A stop scan: 5 s of warning, 30 s of data, one chunk.

StartStopScan ==
  /\ Goto("stopScanStart", "loop")
  /\ expired' = expired \ {"initial", "stopScan"}
  /\ app_state' = "STOP_SCAN_IN_INITIAL_PROGRESS"
  /\ UNCHANGED << pending, startupVars, fileVars, usbReports, fault,
                  flagVars, dataVars >>

BeginStopScan ==
  /\ Goto("stopScanInitial", "loop")
  /\ IF "initial" \in expired
       THEN app_state' = "STOP_SCAN_IN_PROGRESS" /\ StartLogs
       ELSE UNCHANGED << app_state, dataVars >>
  /\ UNCHANGED << pending, expired, startupVars, fileVars, usbReports,
                  fault, flagVars >>

\* Mutant: the stop scan is ended the way a continuous scan is.
EndStopScanAsScan ==
  /\ Goto("stopScanProgress", "loop")
  /\ app_state' = IF "stopScan" \in expired THEN "STOPPING" ELSE app_state
  /\ UNCHANGED << pending, expired, startupVars, fileVars, usbReports,
                  fault, flagVars, dataVars >>

EndStopScan ==
  /\ Goto("stopScanProgress", "loop")
  /\ app_state' = IF "stopScan" \in expired THEN "STOPING_STOP_SCAN" ELSE app_state
  /\ UNCHANGED << pending, expired, startupVars, fileVars, usbReports,
                  fault, flagVars, dataVars >>

FinishStopScan ==
  \/ RetrieveLast("stopScanStop", "stopScanLog")
  \/ StopLivoxLog("stopScanLog", "stopScanSave")
  \/ SaveLast("stopScanSave", "ss")

Watcher ==
  \/ CreateDirectories \/ Dispatch \/ AliveBeep \/ WaitForResources
  \/ IdleCheck \/ IdleAutostart \/ StartScanning
  \/ NoChunk \/ TakeChunk \/ SaveChunk
  \/ CheckStage1 \/ TimeoutStage1 \/ CheckStage2 \/ TimeoutStage2
  \/ StopScanning
  \/ StartStopScan \/ BeginStopScan \/ EndStopScan \/ FinishStopScan

-----------------------------------------------------------------------------
(***************************************************************************)
(* Start-up threads, time, and the data sources.                           *)
(***************************************************************************)

\* thLivox: livoxClientPtrLock is held by nobody between two steps.
CreateLivox ==
  /\ livoxThread = "create"
  /\ livoxThread' = "listen"
  /\ UNCHANGED << app_state, pending, expired, gpioThread, gnssClient, watcherVars,
                  flagVars, dataVars >>

\* startListener(), then the GNSS client whatever it returned.
StartListeners ==
  /\ livoxThread = "listen"
  /\ livoxThread' = "done"
  /\ isLidarError' \in {isLidarError, TRUE}
  /\ gnssClient' = HasGnss
  /\ UNCHANGED << app_state, pending, expired, gpioThread, watcherVars, isRunning,
                  dataVars >>

\* thGpio: creation under gpioClientPtrLock, then LEDs and button callbacks.
CreateGpio ==
  /\ \/ gpioThread = "start" /\ gpioThread' = "init"
     \/ gpioThread = "init" /\ gpioThread' = "ready"
  /\ UNCHANGED << app_state, pending, expired, livoxThread, gnssClient, watcherVars,
                  flagVars, dataVars >>

\* A deadline passes.  Those of stateWatcher() are assigned before they are
\* read, so they are only followed while they matter.  The 5 s of a stop scan
\* are taken to be enough for thLivox, which waits for a free mutex only, to
\* create the client.  The last chunk of the bound is left to the end of a scan.
Expire(t) ==
  /\ t \notin expired
  /\ t = "chunk" => app_state \in ScanStates /\ Len(disk) + 1 < MaxChunks
  /\ t = "initial" => app_state = "STOP_SCAN_IN_INITIAL_PROGRESS" /\ ~LivoxNull
  /\ t = "stopScan" => app_state = "STOP_SCAN_IN_PROGRESS"
  /\ expired' = expired \cup {t}
  /\ UNCHANGED << app_state, pending, startupVars, watcherVars, flagVars, dataVars >>

\* Packets come once the SDK runs, sentences once there is a GNSS client.
MoreComes == packets["lidar"] + packets["imu"] + sentences < MaxReceived

Receive ==
  /\ \/ /\ livoxThread = "done" /\ MoreComes
        /\ PointCloudCallback \/ ImuDataCallback
        /\ UNCHANGED gnssVars
     \/ /\ gnssClient
        /\ (ReadLine /\ MoreComes) \/ EmplaceRaw \/ PushGGA
        /\ UNCHANGED livoxVars
  /\ UNCHANGED << app_state, pending, expired, startupVars, watcherVars, flagVars >>

\* An append to m_rawbuffer that a swap has disturbed leaves a broken deque, and
\* whoever uses it next dies.
RawBufferBreaks ==
  /\ gnssWorker = "disturbed"
  /\ fault' = "raw buffer"
  /\ UNCHANGED << app_state, pending, expired, startupVars, pc, fileVars, usbReports,
                  flagVars, dataVars >>

-----------------------------------------------------------------------------
\* No caller is between its test and its assignment, or it may be overtaken.
Settled == Overtaking \/ \A c \in Callers : pending[c] = "none"

Callback(c) == Assign(c) \/ ArmStage1(c)

Next ==
  /\ fault = "none"
  /\ \/ \E c \in Callers : Callback(c)
     \/ /\ Settled
        /\ \/ \E c \in Callers : Request(c) \/ Quit(c)
           \/ Watcher
           \/ CreateLivox \/ StartListeners \/ CreateGpio
           \/ \E t \in Deadlines : Expire(t)
           \/ Receive \/ RawBufferBreaks

Spec == Init /\ [][Next]_vars

\* One request at a time: a caller tests app_state only when no other is
\* between its test and its assignment.  stateWatcher(), the start-up threads
\* and the data still run between the two.
OneAtATime == \A c, d \in Callers : pending[c] # "none" /\ pending[d] # "none" => c = d

SerialSpec == Init /\ [][Next /\ OneAtATime']_vars

\* The operating system runs every thread that can run, and time passes.
Fairness ==
  /\ WF_vars(fault = "none" /\ Settled /\ Watcher)
  /\ WF_vars(fault = "none" /\ Settled /\ (CreateLivox \/ StartListeners))
  /\ WF_vars(fault = "none" /\ Settled /\ CreateGpio)
  /\ \A c \in Callers : WF_vars(fault = "none" /\ Callback(c))
  /\ \A t \in Deadlines : WF_vars(fault = "none" /\ Settled /\ Expire(t))

FairSpec == Spec /\ Fairness

-----------------------------------------------------------------------------
(***************************************************************************)
(* Properties.                                                             *)
(***************************************************************************)

\* Recording is on: stateWatcher() has called startLog() and not yet taken the
\* last of the data.
Recording == buffers.alloc /\ pc \notin {"stopLog", "stopScanLog"}

\* retrieveData() is never called on a null LivoxClient, and the buffers it
\* hands over are never null when their size is read (main.cpp:186): a request
\* cannot bring STOPPING or STOPING_STOP_SCAN about when no log was started.
NoNullDereference == fault \notin {"livox null", "buffer null"}

\* No two chunks have the same number, of either kind and of any session: the
\* files of one are never overwritten by another's.
ChunkNumbersDiffer ==
  \A i, j \in 1 .. Len(disk) : i # j => disk[i].idx # disk[j].idx

\* In the states that show a scan the LiDAR data is really being recorded, and
\* in IDLE nothing is.
StateTellsRecording ==
  /\ app_state \in ScanStates \cup {"STOP_SCAN_IN_PROGRESS"} => buffers.alloc
  /\ app_state \in {"IDLE", "WAIT_FOR_RESOURCES", "LIDAR_ERROR", "USB_IO_ERROR"}
       => ~buffers.alloc

\* Everything in a chunk, of all four streams, came after what is in the chunks
\* before it: nothing is saved in two chunks and no chunk holds older data than the
\* one before, the raw sentences included, which are buffered at all times and
\* without the mutex.  Of an entry that nobody wrote it says nothing.
SavedOnce ==
  \A s \in {"lidar", "imu", "gnss", "nmea"} :
    \A i, j \in 1 .. Len(disk) : i < j =>
      \A m \in DOMAIN disk[i][s], n \in DOMAIN disk[j][s] :
        disk[j][s][n] # Garbage => disk[i][s][m] < disk[j][s][n]

\* The error states are final: no button, request or branch of the loop leaves
\* them before the process is restarted.
ErrorsAreFinal ==
  [][(app_state \in {"LIDAR_ERROR", "USB_IO_ERROR"}) => app_state' = app_state]_vars

\* Even when a request overtakes another thread, a missing directory stays
\* reported, and nothing is ever recorded without both directories.
UsbErrorIsFinal ==
  [][/\ app_state = "USB_IO_ERROR" => app_state' = app_state
     /\ ~buffers.alloc /\ buffers'.alloc => dirs["cs"] /\ dirs["ss"]]_vars

\* What recording promises, for both streams of the LiDAR: a session belongs to
\* the kind of scan that app_state shows, and a chunk counts from the moment its
\* buffers are taken, for the branch that took them.
Phase == IF ~buffers.alloc THEN "off" ELSE IF Recording THEN "on" ELSE "closing"
FirstUncut(s) == IF buffers.alloc THEN packets[s] + 1 - Len(buffers[s]) ELSE 0
SessionDir ==
  CASE ~buffers.alloc -> "none"
    [] buffers.alloc /\ app_state \in {"STOP_SCAN_IN_PROGRESS", "STOPING_STOP_SCAN"} -> "ss"
    [] OTHER -> "cs"
TakenDir == IF pc \in {"stopScanLog", "stopScanSave"} THEN "ss" ELSE "cs"
Cuts(s) ==
  [i \in 1 .. Len(disk) |-> [dir |-> disk[i].dir, data |-> disk[i][s]]] \o
    (IF retrieved.alloc THEN << [dir |-> TakenDir, data |-> retrieved[s]] >> ELSE << >>)

Lidar == INSTANCE RecordingLog WITH phase <- Phase, dir <- SessionDir,
           received <- packets["lidar"], first <- FirstUncut("lidar"), cuts <- Cuts("lidar")
Imu == INSTANCE RecordingLog WITH phase <- Phase, dir <- SessionDir,
         received <- packets["imu"], first <- FirstUncut("imu"), cuts <- Cuts("imu")

LidarLog == Lidar!Spec
ImuLog   == Imu!Spec

\* Chunks are named as a session promises, requests that overtake each other and
\* saves that fail included: both kinds share one count, and nothing is written
\* without both folders.
Filing == INSTANCE SessionFiles WITH ready <- dirs["cs"] /\ dirs["ss"], next <- Len(disk),
            files <- {<< disk[i].dir, disk[i].idx >> : i \in DOMAIN disk}

ChunksFiled == Filing!Spec

\* A scan that is asked for is recorded, unless the LiDAR is found missing.
StartIsServed ==
  app_state = "STARTING_SCAN" ~> (buffers.alloc \/ app_state = "LIDAR_ERROR")

\* A stop ends in IDLE with the log stopped.
StopIsServed == app_state = "STOPPING" ~> (app_state = "IDLE" /\ ~buffers.alloc)

\* A stop scan runs to its end by itself and saves exactly its own chunk.
StopScanIsServed ==
  app_state = "STARTING_STOP_SCAN"
    ~> (app_state = "LIDAR_ERROR"
          \/ (Len(disk) > 0 /\ disk[Len(disk)].dir = "ss" /\ app_state = "IDLE"))

\* A stop that is not confirmed in time is forgotten: the scan goes on, or the
\* further clicks have stopped it.
StageTimesOut ==
  app_state \in {"STOPPING_STAGE_1", "STOPPING_STAGE_2"}
    ~> app_state \in {"SCANNING", "STOPPING"}

\* A process without its directories is aborted where the hardware reports the
\* error to a watchdog, so that systemd starts it again.
UsbErrorRestarts == app_state = "USB_IO_ERROR" ~> fault = "abort"

\* The bound on chunks leaves room for one more chunk of a scan that goes on.
Room == Len(disk) + (IF retrieved.alloc THEN 1 ELSE 0) + 1 < MaxChunks

\* If no file fails to be written, every packet that has been recorded is in time
\* in a file, by the deadline of a chunk or the end of the scan.  A file that fails
\* takes its packets with it: the code logs that and does not write it again.
RecordedIsSaved ==
  [](\A i \in DOMAIN disk : disk[i].ok) =>
    \A n \in 1 .. MaxPackets :
      (Recording /\ Room /\ \E k \in DOMAIN buffers.lidar : buffers.lidar[k] = n)
        ~> \E i \in DOMAIN disk :
             disk[i].ok /\ \E k \in DOMAIN disk[i].lidar : disk[i].lidar[k] = n

-----------------------------------------------------------------------------
(***************************************************************************)
(* What the documentation says, and the code does not do.                  *)
(***************************************************************************)

\* The manual: a push of the black button gives a stop scan.
StopScanIsRun == app_state = "STARTING_STOP_SCAN" ~> app_state = "STOP_SCAN_IN_PROGRESS"

=============================================================================
