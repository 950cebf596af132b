--------------------------- MODULE RtkNmea_proofs ---------------------------
(***************************************************************************)
(* Proofs about SessionClock, Publisher and RtkNmea, for time stamps of    *)
(* any width, any number of sessions and any length of the channel and of  *)
(* the buffer: the types, the session clock, and the order of the files.   *)
(***************************************************************************)
EXTENDS RtkNmea, TLAPS

-----------------------------------------------------------------------------
(* Unsigned differences.                                                   *)

\* A difference is a time stamp again, and what is added to the number it was
\* taken from reaches the other one, whether the difference has wrapped or not.
LEMMA DifferenceIsStamp ==
  ASSUME NEW n \in Int PROVE n % Wrap \in Stamp
  BY ClockAssumption DEF Stamp

LEMMA DifferenceReaches ==
  ASSUME NEW a \in Stamp, NEW b \in Stamp PROVE a <= b + ((a - b) % Wrap)
<1>1. CASE a >= b
  <2>1. (a - b) % Wrap = a - b
    BY <1>1, ClockAssumption DEF Stamp
  <2> QED
    BY <2>1, ClockAssumption DEF Stamp
<1>2. CASE a < b
  <2>1. (a - b) % Wrap = a - b + Wrap
    BY <1>2, ClockAssumption DEF Stamp
  <2> QED
    BY <2>1, ClockAssumption DEF Stamp
<1> QED
  BY <1>1, <1>2, ClockAssumption DEF Stamp

-----------------------------------------------------------------------------
(* Types.                                                                  *)

\* The operations of the clock keep its types.
LEMMA ClockTypes ==
  ASSUME ClockTypeOK,
         \/ \E t \in Stamp : saveTimeStamp(t)
         \/ initializeDuration \/ ClockReset \/ UNCHANGED clockVars
  PROVE  ClockTypeOK'
<1> USE DEF ClockTypeOK
<1>1. CASE \E t \in Stamp : saveTimeStamp(t)
  <2>1. PICK t \in Stamp : saveTimeStamp(t)
    BY <1>1
  <2>2. m_sessionStart # -1 => t - m_sessionStart \in Int
    BY DEF Stamp
  <2> QED
    BY <2>1, <2>2, DifferenceIsStamp DEF saveTimeStamp
<1>2. CASE initializeDuration \/ ClockReset \/ UNCHANGED clockVars
  BY <1>2, ClockAssumption DEF initializeDuration, ClockReset, clockVars, Stamp
<1> QED
  BY <1>1, <1>2

LEMMA NextStamp == ClockTypeOK => (m_timestamp + 1) % Wrap \in Stamp
  BY DifferenceIsStamp DEF ClockTypeOK, Stamp

\* A report that is put into the channel is one.
LEMMA ChannelGrows ==
  ASSUME NEW c \in Seq(Report), Len(c) < MaxQueue, NEW m \in Modes, NEW d \in Nat
  PROVE  /\ Append(c, [mode |-> m, dir |-> d]) \in Seq(Report)
         /\ Len(Append(c, [mode |-> m, dir |-> d])) <= MaxQueue
  BY PublisherAssumption DEF Report

\* The controller and its publisher keep their types.
LEMMA PublisherTypes ==
  ASSUME PublisherTypeOK, [PublisherNext]_publisherVars PROVE PublisherTypeOK'
<1> USE PublisherAssumption DEF PublisherTypeOK
<1>1. CASE Packet
  BY <1>1, NextStamp, ClockTypes DEF Packet, controlVars, setVars, workerVars, netVars
<1>2. CASE SetMode
  BY <1>2, ClockTypes DEF SetMode, ModeOf, Modes, controlVars, workerVars, netVars
<1>3. CASE WaitForResources
  BY <1>3, ClockTypes DEF WaitForResources, States, Modes, workerVars, netVars
<1>4. CASE StartScan
  BY <1>4, ClockTypes DEF StartScan, States, Modes, setVars, workerVars, netVars
<1>5. CASE ChangeState
  BY <1>5, ClockTypes DEF ChangeState, States, Modes, setVars, workerVars, netVars
<1>6. CASE Restart
  <2>1. ClockTypeOK'
    BY <1>6, ClockTypes DEF Restart
  <2>2. session' \in 1 .. MaxSessions /\ time' \in Stamp /\ channel' \in Seq(Report)
        /\ Len(channel') <= MaxQueue
    BY <1>6, ClockAssumption DEF Restart, Stamp
  <2> QED
    BY <1>6, <2>1, <2>2 DEF Restart, States, Modes
<1>7. CASE CreatePublisher
  BY <1>7, ClockTypes DEF CreatePublisher, controlVars, setVars, netVars
<1>8. CASE ReadTime
  BY <1>8, ClockTypes DEF ReadTime, ClockTypeOK, controlVars, setVars, netVars
<1>9. CASE PublishReport
  BY <1>9, ClockTypes, ChannelGrows, ClockAssumption
  DEF PublishReport, Stamp, controlVars, setVars
<1>10. CASE Connect
  BY <1>10, ClockTypes DEF Connect, controlVars, setVars, workerVars
<1>11. CASE UNCHANGED publisherVars
  BY <1>11, ClockTypes DEF publisherVars, controlVars, setVars, workerVars, netVars
<1> QED
  BY <1>1, <1>2, <1>3, <1>4, <1>5, <1>6, <1>7, <1>8, <1>9, <1>10, <1>11
  DEF PublisherNext, Publish

LEMMA PublisherInitTypes == PublisherInit => PublisherTypeOK
<1> SUFFICES ASSUME PublisherInit PROVE PublisherTypeOK
  OBVIOUS
<1>1. ClockTypeOK /\ time \in Stamp
  BY ClockAssumption DEF PublisherInit, ClockInit, ClockTypeOK, Stamp
<1>2. channel \in Seq(Report) /\ Len(channel) <= MaxQueue
  BY PublisherAssumption DEF PublisherInit
<1> QED
  <2>1. ticked \in BOOLEAN /\ connected \in BOOLEAN
    BY DEF PublisherInit
  <2>2. session \in 1 .. MaxSessions /\ m_lastTime \in Nat
    BY PublisherAssumption DEF PublisherInit
  <2> QED
    BY <1>1, <1>2, <2>1, <2>2 DEF PublisherInit, PublisherTypeOK, States, Modes

\* The reports and the sentences are taken from sequences and put into them.
LEMMA ChannelShrinks ==
  ASSUME NEW c \in Seq(Report), c # << >>, Len(c) <= MaxQueue
  PROVE  /\ Head(c) \in Report /\ Tail(c) \in Seq(Report)
         /\ Len(Tail(c)) <= MaxQueue
         /\ \A i \in DOMAIN Tail(c) : i + 1 \in DOMAIN c /\ Tail(c)[i] = c[i + 1]
         /\ 1 \in DOMAIN c /\ Head(c) = c[1]
  BY PublisherAssumption

LEMMA KeptTypes == RtkTypeOK => Kept \in Seq(Nat)
  BY DEF RtkTypeOK, Kept

\* What one step of RtkNmea is: of the controller, of the subscriber, or neither.
LEMMA RtkSteps ==
  ASSUME [RtkNext]_rtkVars
  PROVE  \/ [PublisherNext]_publisherVars /\ UNCHANGED << stateVars, nmeaVars >>
         \/ clientThread \/ FileLengthPasses \/ NMEACallback
  BY DEF RtkNext, rtkVars

LEMMA RtkTypes == ASSUME RtkTypeOK, [RtkNext]_rtkVars PROVE RtkTypeOK'
<1> USE DEF RtkTypeOK
<1>1. CASE [PublisherNext]_publisherVars /\ UNCHANGED << stateVars, nmeaVars >>
  BY <1>1, PublisherTypes DEF stateVars, nmeaVars
<1>2. CASE clientThread
  <2>1. /\ Head(channel) \in Report
        /\ channel' \in Seq(Report) /\ Len(channel') <= MaxQueue
    BY <1>2, ChannelShrinks DEF clientThread, PublisherTypeOK
  <2>2. ClockTypeOK'
    BY <1>2, ClockTypes DEF clientThread, PublisherTypeOK
  <2>3. PublisherTypeOK'
    BY <1>2, <2>1, <2>2
    DEF clientThread, PublisherTypeOK, controlVars, setVars, workerVars
  <2> QED
    BY <1>2, <2>1, <2>3 DEF clientThread, Report, nmeaVars
<1>3. CASE FileLengthPasses
  BY <1>3, PublisherTypes DEF FileLengthPasses, stateVars
<1>4. CASE NMEACallback
  <2>1. PublisherTypeOK'
    BY <1>4, PublisherTypes DEF NMEACallback
  <2>2. buffer' \in Seq(Nat)
    BY <1>4, KeptTypes DEF NMEACallback
  <2>3. overdue' \in BOOLEAN
    BY <1>4 DEF NMEACallback
  <2> QED
    BY <1>4, <2>1, <2>2, <2>3 DEF NMEACallback, stateVars
<1> QED
  BY RtkSteps, <1>1, <1>2, <1>3, <1>4

LEMMA RtkInitTypes == RtkInit => RtkTypeOK
<1> SUFFICES ASSUME RtkInit PROVE RtkTypeOK
  OBVIOUS
<1>1. continuousScanTarget \in Nat /\ buffer \in Seq(Nat)
  BY DEF RtkInit
<1> QED
  BY <1>1, PublisherInitTypes DEF RtkInit, RtkTypeOK, Modes

\* Every variable of the controller's publisher and of rtkNmea keeps its type.
THEOREM RtkTypeCorrect == RtkSpec => []RtkTypeOK
  BY RtkInitTypes, RtkTypes, PTL DEF RtkSpec

-----------------------------------------------------------------------------
(* The session clock.                                                      *)

\* What the elapsed time is between any two operations: nothing before the
\* session starts, the distance of the last time stamp from then on.
ElapsedFits ==
  m_elapsed = IF m_sessionStart = -1 THEN 0 ELSE (m_timestamp - m_sessionStart) % Wrap

LEMMA ClockKeepsElapsed ==
  ASSUME ClockTypeOK, ElapsedFits,
         \/ \E t \in Stamp : saveTimeStamp(t)
         \/ initializeDuration \/ ClockReset \/ UNCHANGED clockVars
  PROVE  ElapsedFits'
<1> USE DEF ElapsedFits
<1>1. CASE \E t \in Stamp : saveTimeStamp(t)
  BY <1>1 DEF saveTimeStamp
<1>2. CASE initializeDuration
  <2>1. CASE m_sessionStart = -1
    <3>1. (m_timestamp - m_timestamp) % Wrap = 0
      BY ClockAssumption DEF ClockTypeOK, Stamp
    <3> QED
      BY <1>2, <2>1, <3>1 DEF initializeDuration
  <2>2. CASE m_sessionStart # -1
    BY <1>2, <2>2 DEF initializeDuration
  <2> QED
    BY <2>1, <2>2
<1>3. CASE ClockReset \/ UNCHANGED clockVars
  BY <1>3 DEF ClockReset, clockVars
<1> QED
  BY <1>1, <1>2, <1>3

\* Every step of the publisher is one operation of the clock or none.
LEMMA PublisherKeepsElapsed ==
  ASSUME PublisherTypeOK, ElapsedFits, [PublisherNext]_publisherVars
  PROVE  ElapsedFits'
<1>1. \/ \E t \in Stamp : saveTimeStamp(t)
      \/ initializeDuration \/ ClockReset \/ UNCHANGED clockVars
  <2>1. CASE Packet
    BY <2>1, NextStamp DEF Packet, PublisherTypeOK
  <2>2. CASE UNCHANGED publisherVars
    BY <2>2 DEF publisherVars
  <2> QED
    BY <2>1, <2>2 DEF PublisherNext, SetMode, WaitForResources, StartScan, ChangeState,
      Restart, Publish, CreatePublisher, ReadTime, PublishReport, Connect
<1> QED
  BY <1>1, ClockKeepsElapsed DEF PublisherTypeOK

ClockInv == RtkTypeOK /\ ElapsedFits

LEMMA ClockInvHolds == RtkSpec => []ClockInv
<1>1. RtkInit => ClockInv
  BY RtkInitTypes DEF ClockInv, ElapsedFits, RtkInit, PublisherInit, ClockInit
<1>2. ClockInv /\ [RtkNext]_rtkVars => ClockInv'
  <2> SUFFICES ASSUME ClockInv, [RtkNext]_rtkVars PROVE ElapsedFits'
    BY RtkTypes DEF ClockInv
  <2>1. CASE [PublisherNext]_publisherVars
    BY <2>1, PublisherKeepsElapsed DEF ClockInv, RtkTypeOK
  <2>2. CASE clientThread \/ FileLengthPasses \/ NMEACallback
    BY <2>2 DEF ClockInv, ElapsedFits, clientThread, FileLengthPasses, NMEACallback,
      publisherVars, clockVars
  <2> QED
    BY <2>1, <2>2, RtkSteps
<1> QED
  BY <1>1, <1>2, PTL DEF RtkSpec

\* The duration of a report reaches to its time at least, for every width of the
\* two numbers and however late the session was started.
THEOREM DurationReachesTime == RtkSpec => DurationCoversTime
<1>1. ASSUME ClockInv, worker = "report", m_sessionStart # -1, time <= m_timestamp
      PROVE  time <= m_sessionStart + m_elapsed
  <2>1. time \in Stamp /\ m_timestamp \in Stamp /\ m_sessionStart \in Stamp /\ m_elapsed \in Stamp
    BY <1>1 DEF ClockInv, RtkTypeOK, PublisherTypeOK, ClockTypeOK
  <2>2. m_timestamp <= m_sessionStart + m_elapsed
    BY <1>1, <2>1, DifferenceReaches DEF ClockInv, ElapsedFits
  <2> QED
    BY <1>1, <2>1, <2>2 DEF Stamp
<1> DEFINE Covers == worker = "report" /\ worker' = "time" /\ m_sessionStart # -1
                       /\ time <= m_timestamp => time <= m_sessionStart + m_elapsed
<1>2. ClockInv /\ [RtkNext]_rtkVars => [Covers]_publisherVars
  BY <1>1
<1> QED
  BY <1>2, ClockInvHolds, PTL DEF RtkSpec, DurationCoversTime

-----------------------------------------------------------------------------
(* The order of the files.                                                 *)

\* Reports under way are of this session or empty.  What has been collected is of
\* this session or an earlier one, and of no later one than the directory known,
\* unless that is empty.
ReportsFit ==
  /\ m_directory \in {0, session}
  /\ \A i \in DOMAIN channel : channel[i].dir \in {0, session}

BufferFits ==
  /\ continuousScanTarget <= session
  /\ \A i \in DOMAIN buffer :
       buffer[i] <= session /\ (continuousScanTarget # 0 => buffer[i] <= continuousScanTarget)

FilingInv == RtkTypeOK /\ ReportsFit /\ BufferFits

\* A sentence that is collected fits, so that all of what may be saved does.
LEMMA KeptFits ==
  ASSUME FilingInv
  PROVE  \A i \in DOMAIN Kept :
           /\ Kept[i] <= session
           /\ continuousScanTarget # 0 => Kept[i] <= continuousScanTarget
<1>1. continuousScanTarget \in Nat /\ session \in Nat /\ buffer \in Seq(Nat)
  BY PublisherAssumption DEF FilingInv, RtkTypeOK, PublisherTypeOK
<1>2. \A i \in DOMAIN Append(buffer, continuousScanTarget) :
        \/ i \in DOMAIN buffer /\ Append(buffer, continuousScanTarget)[i] = buffer[i]
        \/ Append(buffer, continuousScanTarget)[i] = continuousScanTarget
  BY <1>1
<1> QED
  BY <1>1, <1>2 DEF FilingInv, BufferFits, Kept

LEMMA PublisherKeepsReports ==
  ASSUME PublisherTypeOK, ReportsFit, [PublisherNext]_publisherVars
  PROVE  ReportsFit' /\ session <= session'
<1>0. session \in Nat
  BY PublisherAssumption DEF PublisherTypeOK
<1> USE DEF ReportsFit
<1>1. CASE WaitForResources
  BY <1>0, <1>1 DEF WaitForResources, netVars
<1>2. CASE Restart
  BY <1>0, <1>2 DEF Restart
<1>3. CASE PublishReport
  <2>1. channel \in Seq(Report) /\ session' = session /\ m_directory' = m_directory
    BY <1>3 DEF PublishReport, PublisherTypeOK, controlVars, setVars
  <2>2. CASE channel' = channel
    BY <1>0, <2>1, <2>2
  <2>3. CASE channel' = Append(channel, [mode |-> m_mode, dir |-> m_directory])
    <3> DEFINE report == [mode |-> m_mode, dir |-> m_directory]
    <3>1. \A i \in DOMAIN channel' :
            (i \in DOMAIN channel /\ channel'[i] = channel[i]) \/ channel'[i] = report
      BY <2>1, <2>3
    <3> QED
      BY <1>0, <2>1, <3>1
  <2> QED
    BY <1>3, <2>2, <2>3 DEF PublishReport
<1>4. CASE UNCHANGED << session, m_directory, channel >>
  BY <1>0, <1>4
<1> QED
  BY <1>1, <1>2, <1>3, <1>4
  DEF PublisherNext, Packet, SetMode, StartScan, ChangeState, Publish, CreatePublisher,
      ReadTime, Connect, publisherVars, controlVars, setVars, netVars

LEMMA FilingInvHolds == RtkSpec => []FilingInv
<1>1. RtkInit => FilingInv
  <2> SUFFICES ASSUME RtkInit PROVE ReportsFit /\ BufferFits
    BY RtkInitTypes DEF FilingInv
  <2> QED
    BY DEF ReportsFit, BufferFits, RtkInit, PublisherInit
<1>2. FilingInv /\ [RtkNext]_rtkVars => FilingInv'
  <2> SUFFICES ASSUME FilingInv, [RtkNext]_rtkVars PROVE ReportsFit' /\ BufferFits'
    BY RtkTypes DEF FilingInv
  <2>0. /\ PublisherTypeOK /\ RtkTypeOK /\ ReportsFit /\ BufferFits
        /\ session \in Nat /\ session' \in Nat /\ continuousScanTarget \in Nat
        /\ buffer \in Seq(Nat) /\ channel \in Seq(Report)
    BY RtkTypes, PublisherAssumption DEF FilingInv, RtkTypeOK, PublisherTypeOK
  <2>1. CASE [PublisherNext]_publisherVars /\ UNCHANGED << stateVars, nmeaVars >>
    <3>1. ReportsFit' /\ session <= session'
      BY <2>0, <2>1, PublisherKeepsReports
    <3> QED
      BY <2>0, <2>1, <3>1 DEF BufferFits, stateVars, nmeaVars
  <2>2. CASE clientThread
    <3>1. session' = session /\ m_directory' = m_directory /\ buffer' = buffer
      BY <2>2 DEF clientThread, controlVars, setVars, nmeaVars
    <3>2. /\ \A i \in DOMAIN channel' : channel'[i].dir \in {0, session}
          /\ continuousScanTarget' \in {0, session}
      BY <2>0, <2>2, ChannelShrinks DEF clientThread, ReportsFit, PublisherTypeOK
    <3> QED
      BY <2>0, <3>1, <3>2 DEF ReportsFit, BufferFits
  <2>3. CASE FileLengthPasses
    BY <2>0, <2>3 DEF FileLengthPasses, ReportsFit, BufferFits, publisherVars, controlVars,
      setVars, netVars, stateVars
  <2>4. CASE NMEACallback
    <3>1. UNCHANGED << session, m_directory, channel, continuousScanTarget >>
      BY <2>4 DEF NMEACallback, publisherVars, controlVars, setVars, netVars, stateVars
    <3>2. buffer' = << >> \/ buffer' = Kept
      BY <2>4 DEF NMEACallback
    <3> QED
      BY <2>0, <3>1, <3>2, KeptFits DEF ReportsFit, BufferFits
  <2> QED
    BY RtkSteps, <2>1, <2>2, <2>3, <2>4
<1> QED
  BY <1>1, <1>2, PTL DEF RtkSpec

\* No sentence is filed under a session before its own, over any number of
\* restarts of the controller and whatever reports are under way.
THEOREM SentencesFiledInOrder == RtkSpec => FiledInOrder
<1> DEFINE Filed == Kept # << >> /\ buffer' = << >>
                      => LET dir == Target(Kept)
                         IN  dir = 0 \/ \A i \in DOMAIN Kept : Kept[i] <= dir
<1>1. FilingInv /\ [RtkNext]_rtkVars => [Filed]_rtkVars
  BY KeptFits DEF Target
<1> QED
  BY <1>1, FilingInvHolds, PTL DEF RtkSpec, FiledInOrder

=============================================================================
