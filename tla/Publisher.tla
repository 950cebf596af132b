----------------------------- MODULE Publisher -----------------------------
(***************************************************************************)
(* Class Publisher (code/publisher.cpp) in the life of the controller: the *)
(* state machine hands it the mode and the directory of the session, its   *)
(* worker reports them with the session clock, and ZeroMQ carries the      *)
(* reports to a subscriber, another process that outlives the controller.  *)
(*                                                                         *)
(* Every 125 ms there is a report.  Only those that begin a new second of  *)
(* the LiDAR's time carry the mode and the directory, and only those are   *)
(* in the channel.  It is a queue: ZMQ_CONFLATE is set after bind() and    *)
(* connect(), where it has no effect on the connection.                    *)
(*                                                                         *)
(* The directory is the number of the session, 0 while it is empty.        *)
(***************************************************************************)
EXTENDS SessionClock, Sequences

CONSTANTS
  MaxSessions,   \* bound: how often the controller is started
  MaxQueue       \* bound: a subscriber is never more reports behind

ASSUME PublisherAssumption == MaxSessions \in Nat \ {0} /\ MaxQueue \in Nat \ {0}

\* The modes the subscribers know; "OTHER" stands for all the others.
Modes  == {"OTHER", "SCANNING", "STOPPING"}
States == Modes \cup {"WAIT_FOR_RESOURCES"}
ModeOf(s) == IF s \in Modes THEN s ELSE "OTHER"

VARIABLES
  app_state,
  session,       \* which start of the controller this is
  m_mode,
  m_directory,   \* m_continousScanDirectory
  m_lastTime,    \* its second
  worker,        \* "none" before publisherPtr is set, "time", "report"
  time,          \* the time stamp worker() has read
  ticked,        \* a second has begun since
  connected,
  channel        \* reports under way

controlVars == << app_state, session >>
setVars     == << m_mode, m_directory >>
workerVars  == << m_lastTime, worker, time >>
netVars     == << connected, channel >>
publisherVars == << clockVars, controlVars, setVars, workerVars, ticked, netVars >>

Report == [mode : Modes, dir : Nat]

PublisherTypeOK ==
  /\ ClockTypeOK
  /\ app_state \in States /\ session \in 1 .. MaxSessions
  /\ m_mode \in Modes /\ m_directory \in {0, session}
  /\ m_lastTime \in Nat /\ worker \in {"none", "time", "report"} /\ time \in Stamp
  /\ ticked \in BOOLEAN
  /\ connected \in BOOLEAN /\ channel \in Seq(Report) /\ Len(channel) <= MaxQueue

PublisherInit ==
  /\ ClockInit
  /\ app_state = "WAIT_FOR_RESOURCES" /\ session = 1
  /\ m_mode = "OTHER" /\ m_directory = 0
  /\ m_lastTime = 0 /\ worker = "none" /\ time = 0 /\ ticked = FALSE
  /\ connected = FALSE /\ channel = << >>

-----------------------------------------------------------------------------
(* The controller.                                                         *)

\* A packet brings the next time stamp.  The seconds of the LiDAR are longer
\* than a round of worker(): it sees every one of them.
Packet ==
  /\ ~ticked /\ ticked' = TRUE
  /\ saveTimeStamp((m_timestamp + 1) % Wrap)
  /\ UNCHANGED << controlVars, setVars, workerVars, netVars >>

\* thLivox comes to the publisher after the LiDAR and the GNSS client.
CreatePublisher ==
  /\ worker = "none" /\ worker' = "time"
  /\ UNCHANGED << clockVars, controlVars, setVars, m_lastTime, time, ticked, netVars >>

HasPublisher == worker # "none"

\* The head of the loop of stateWatcher().
SetMode ==
  /\ HasPublisher /\ m_mode' = ModeOf(app_state)
  /\ UNCHANGED << clockVars, controlVars, m_directory, workerVars, ticked, netVars >>

\* A pass in WAIT_FOR_RESOURCES: the state first, then the directories, once
\* only if there is a publisher by now.
WaitForResources ==
  /\ app_state = "WAIT_FOR_RESOURCES"
  /\ app_state' \in {"WAIT_FOR_RESOURCES", "OTHER"}
  /\ m_directory' = IF HasPublisher THEN session ELSE m_directory
  /\ UNCHANGED << clockVars, session, m_mode, workerVars, ticked, netVars >>

\* The white button sets the session clock, the other ways to start do not.
StartScan ==
  /\ app_state = "OTHER" /\ app_state' = "SCANNING"
  /\ initializeDuration \/ UNCHANGED clockVars
  /\ UNCHANGED << session, setVars, workerVars, ticked, netVars >>

\* A scan is stopped at once or through the two stages, or does not stop: the
\* timeout of the second stage may even overwrite the click that was in time.
ChangeState ==
  /\ \E step \in {<< "SCANNING", "STOPPING" >>, << "SCANNING", "OTHER" >>,
                  << "OTHER", "STOPPING" >>, << "STOPPING", "OTHER" >>,
                  << "STOPPING", "SCANNING" >>} :
       app_state = step[1] /\ app_state' = step[2]
  /\ UNCHANGED << clockVars, session, setVars, workerVars, ticked, netVars >>

\* The controller is killed and started again, and with it the LiDAR.
Restart ==
  /\ session < MaxSessions /\ session' = session + 1
  /\ ClockReset
  /\ app_state' = "WAIT_FOR_RESOURCES"
  /\ m_mode' = "OTHER" /\ m_directory' = 0
  /\ m_lastTime' = 0 /\ worker' = "none" /\ time' = 0 /\ ticked' = FALSE
  /\ connected' = FALSE /\ channel' = << >>

-----------------------------------------------------------------------------
(* The worker of the publisher.                                            *)

\* Mutant: the second is noted when the time is read.
ReadTimeAndNote ==
  /\ worker = "time" /\ worker' = "report"
  /\ time' = m_timestamp /\ ticked' = FALSE
  /\ m_lastTime' = m_timestamp
  /\ UNCHANGED << clockVars, controlVars, setVars, netVars >>

ReadTime ==
  /\ worker = "time" /\ worker' = "report"
  /\ time' = m_timestamp /\ ticked' = FALSE
  /\ UNCHANGED << clockVars, controlVars, setVars, m_lastTime, netVars >>

\* The duration is read next, and a report is published.
PublishReport ==
  /\ worker = "report" /\ worker' = "time"
  /\ IF time # m_lastTime
       THEN /\ Len(channel) < MaxQueue
            /\ channel' = IF connected
                            THEN Append(channel, [mode |-> m_mode, dir |-> m_directory])
                            ELSE channel
            /\ m_lastTime' = time
       ELSE UNCHANGED << channel, m_lastTime >>
  /\ time' = 0
  /\ UNCHANGED << clockVars, controlVars, setVars, ticked, connected >>

Connect ==
  /\ HasPublisher /\ ~connected /\ connected' = TRUE
  /\ UNCHANGED << clockVars, controlVars, setVars, workerVars, ticked, channel >>

Publish == CreatePublisher \/ ReadTime \/ PublishReport

PublisherNext ==
  \/ Packet \/ SetMode \/ WaitForResources \/ StartScan \/ ChangeState \/ Restart
  \/ Publish \/ Connect

PublisherSpec == PublisherInit /\ [][PublisherNext]_publisherVars

-----------------------------------------------------------------------------
\* The time and the duration of a report are read one after the other, but the
\* report never tells of a time beyond the session it tells of: unless the clock
\* is set back in between, the duration reaches to the time at least.
DurationCoversTime ==
  [][worker = "report" /\ worker' = "time" /\ m_sessionStart # -1 /\ time <= m_timestamp
       => time <= m_sessionStart + m_elapsed]_publisherVars

=============================================================================
