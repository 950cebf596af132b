----------------------------- MODULE GNSSClient -----------------------------
(***************************************************************************)
(* Class GNSSClient (code/gnss.cpp): the thread of worker() reads NMEA     *)
(* sentences from a serial port into two buffers, the thread of            *)
(* stateWatcher() switches logging and takes the buffers away.             *)
(*                                                                         *)
(* m_buffer (CSV lines of the GGA sentences) is only touched under         *)
(* m_bufferMutex.  worker() adds to m_rawbuffer (the raw sentences)        *)
(* without it, so a startLog() or retrieveRawData() may run in the middle  *)
(* of that insertion: a data race.  The sentence is then kept or lost, or  *)
(* counted in one deque and not written there, so that this has an entry   *)
(* nobody wrote; or the deque is broken and the process dies, which is     *)
(* RawBufferBreaks of ScanControl.                                         *)
(***************************************************************************)
EXTENDS Naturals, Sequences

CONSTANT MaxSentences   \* bound: how many sentences the receiver sends

ASSUME SentencesAssumption == MaxSentences \in Nat

\* An entry of m_rawbuffer that no sentence was written to.
Garbage == 0

VARIABLES
  m_isLogging,
  m_buffer,
  m_rawbuffer,
  gnssWorker,    \* where worker() is: "read", "emplace" (inserting into
                 \* m_rawbuffer), "disturbed" (the same, and m_rawbuffer was
                 \* cleared or swapped meanwhile), "gga" (after the insertion)
  gnssTaken,     \* what the state machine's last retrievals returned
  sentences      \* how many valid sentences worker() has read

gnssVars == << m_isLogging, m_buffer, m_rawbuffer, gnssWorker, gnssTaken,
               sentences >>

GnssTypeOK ==
  /\ m_isLogging \in BOOLEAN
  /\ m_buffer \in Seq(Nat)
  /\ m_rawbuffer \in Seq(Nat)
  /\ gnssWorker \in {"read", "emplace", "disturbed", "gga"}
  /\ gnssTaken \in [gnss : Seq(Nat), nmea : Seq(Nat)]
  /\ sentences \in Nat

GnssInit ==
  /\ m_isLogging = FALSE
  /\ m_buffer = << >>
  /\ m_rawbuffer = << >>
  /\ gnssWorker = "read"
  /\ gnssTaken = [gnss |-> << >>, nmea |-> << >>]
  /\ sentences = 0

\* Where worker() is after another thread has cleared or swapped m_rawbuffer.
Disturb == gnssWorker' = IF gnssWorker = "emplace" THEN "disturbed" ELSE gnssWorker

-----------------------------------------------------------------------------

GnssStartLog ==
  /\ m_buffer' = << >>
  /\ m_rawbuffer' = << >>
  /\ m_isLogging' = TRUE
  /\ Disturb
  /\ UNCHANGED << gnssTaken, sentences >>

GnssStopLog ==
  /\ m_isLogging' = FALSE
  /\ UNCHANGED << m_buffer, m_rawbuffer, gnssWorker, gnssTaken, sentences >>

\* retrieveData() alone, as at the end of a scan: m_rawbuffer stays behind.
GnssRetrieveData ==
  /\ gnssTaken' = [gnss |-> m_buffer, nmea |-> << >>]
  /\ m_buffer' = << >>
  /\ UNCHANGED << m_isLogging, m_rawbuffer, gnssWorker, sentences >>

\* Mutant: only the newest of the raw sentences is taken.
RetrieveNewestRaw ==
  LET Newest(n) == \A i \in DOMAIN m_rawbuffer : n >= m_rawbuffer[i]
      Older(n)  == ~Newest(n)
  IN  /\ gnssTaken' = [gnss |-> m_buffer, nmea |-> SelectSeq(m_rawbuffer, Newest)]
      /\ m_buffer' = << >>
      /\ m_rawbuffer' = SelectSeq(m_rawbuffer, Older)
      /\ Disturb
      /\ UNCHANGED << m_isLogging, sentences >>

\* retrieveData() and retrieveRawData(), for a chunk of a running scan.  An entry
\* that is being inserted may be counted and not be written yet.
GnssRetrieveBoth ==
  /\ \E raw \in {m_rawbuffer, Append(m_rawbuffer, Garbage)} :
       /\ raw = m_rawbuffer \/ gnssWorker = "emplace"
       /\ gnssTaken' = [gnss |-> m_buffer, nmea |-> raw]
  /\ m_buffer' = << >>
  /\ m_rawbuffer' = << >>
  /\ Disturb
  /\ UNCHANGED << m_isLogging, sentences >>

\* No GNSS client: the locals of the caller stay empty.
GnssNothingTaken ==
  /\ gnssTaken' = [gnss |-> << >>, nmea |-> << >>]
  /\ UNCHANGED << m_isLogging, m_buffer, m_rawbuffer, gnssWorker, sentences >>

-----------------------------------------------------------------------------
\* The steps of worker().

ReadLine ==
  /\ gnssWorker = "read"
  /\ sentences < MaxSentences
  /\ sentences' = sentences + 1
  /\ gnssWorker' = "emplace"
  /\ UNCHANGED << m_isLogging, m_buffer, m_rawbuffer, gnssTaken >>

\* m_rawbuffer.emplace_back(): neither m_isLogging nor the mutex is looked at.
EmplaceRaw ==
  /\ gnssWorker \in {"emplace", "disturbed"}
  /\ \/ m_rawbuffer' = Append(m_rawbuffer, sentences)
     \/ /\ gnssWorker = "disturbed"
        /\ m_rawbuffer' \in {m_rawbuffer, Append(m_rawbuffer, Garbage)}
  /\ gnssWorker' = "gga"
  /\ UNCHANGED << m_isLogging, m_buffer, gnssTaken, sentences >>

\* A GGA sentence goes to m_buffer while logging is on; any other one ends here.
PushGGA ==
  /\ gnssWorker = "gga"
  /\ \E isGGA \in BOOLEAN :
       m_buffer' = IF isGGA /\ m_isLogging THEN Append(m_buffer, sentences)
                                           ELSE m_buffer
  /\ gnssWorker' = "read"
  /\ UNCHANGED << m_isLogging, m_rawbuffer, gnssTaken, sentences >>

=============================================================================
