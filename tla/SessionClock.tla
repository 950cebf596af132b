---------------------------- MODULE SessionClock ----------------------------
(***************************************************************************)
(* The session clock of class LivoxClient (code/LivoxClient.cpp): the time *)
(* stamp of the last packet, and how far it is from the one at the first   *)
(* push of the white button.  Every operation holds m_timestampMutex.      *)
(*                                                                         *)
(* Time stamps are unsigned numbers below Wrap and count seconds, of which *)
(* every report has the whole number only.                                 *)
(***************************************************************************)
EXTENDS Integers

CONSTANT Wrap   \* bound: 2^64 in the code

ASSUME ClockAssumption == Wrap \in Nat /\ Wrap >= 2

VARIABLES
  m_timestamp,
  m_elapsed,
  m_sessionStart   \* -1 while the optional is empty

clockVars == << m_timestamp, m_elapsed, m_sessionStart >>

Stamp == 0 .. Wrap - 1

ClockTypeOK ==
  m_timestamp \in Stamp /\ m_elapsed \in Stamp /\ m_sessionStart \in Stamp \cup {-1}

\* make_shared<LivoxClient>() value-initializes the two numbers.
ClockInit == m_timestamp = 0 /\ m_elapsed = 0 /\ m_sessionStart = -1

ClockReset == m_timestamp' = 0 /\ m_elapsed' = 0 /\ m_sessionStart' = -1

\* Mutant: the difference of two signed numbers.
saveTimeStampSigned(t) ==
  /\ m_timestamp' = t
  /\ m_elapsed' = IF m_sessionStart = -1 THEN m_elapsed ELSE t - m_sessionStart
  /\ UNCHANGED m_sessionStart

\* Mutant: the distance is taken before the time stamp is assigned.
saveTimeStampLate(t) ==
  /\ m_timestamp' = t
  /\ m_elapsed' = IF m_sessionStart = -1 THEN m_elapsed
                  ELSE (m_timestamp - m_sessionStart) % Wrap
  /\ UNCHANGED m_sessionStart

saveTimeStamp(t) ==
  /\ m_timestamp' = t
  /\ m_elapsed' = IF m_sessionStart = -1 THEN m_elapsed
                  ELSE (t - m_sessionStart) % Wrap
  /\ UNCHANGED m_sessionStart

\* Only the first call has an effect.
initializeDuration ==
  /\ m_sessionStart' = IF m_sessionStart = -1 THEN m_timestamp ELSE m_sessionStart
  /\ UNCHANGED << m_timestamp, m_elapsed >>

=============================================================================
