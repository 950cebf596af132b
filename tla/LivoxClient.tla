---------------------------- MODULE LivoxClient ----------------------------
(***************************************************************************)
(* The data buffers of class LivoxClient (code/LivoxClient.cpp).           *)
(*                                                                         *)
(* Two callbacks of the Livox SDK thread append to the point buffer and to *)
(* the IMU buffer; the thread of stateWatcher() allocates, swaps and drops *)
(* the two buffers.  startLog, stopLog and retrieveData hold both buffer   *)
(* mutexes, each callback holds the mutex of its own buffer: every one of  *)
(* them is one atomic step.  A packet is the number of its callback call.  *)
(***************************************************************************)
EXTENDS Naturals, Sequences

CONSTANT MaxPackets   \* bound: how many packets each callback receives

ASSUME PacketsAssumption == MaxPackets \in Nat

VARIABLES
  buffers,       \* m_bufferLivoxPtr and m_bufferIMUPtr
  retrieved,     \* the pair the state machine's last retrieveData() returned
  packets        \* how many packets each callback has been called with

livoxVars == << buffers, retrieved, packets >>

Buffers == [alloc : BOOLEAN, lidar : Seq(Nat), imu : Seq(Nat)]

\* The two shared pointers are null.
NullBuffers == [alloc |-> FALSE, lidar |-> << >>, imu |-> << >>]

\* The two shared pointers own new, empty buffers.
FreshBuffers == [alloc |-> TRUE, lidar |-> << >>, imu |-> << >>]

LivoxTypeOK ==
  /\ buffers \in Buffers
  /\ retrieved \in Buffers
  /\ packets \in [{"lidar", "imu"} -> Nat]

LivoxInit ==
  /\ buffers = NullBuffers
  /\ retrieved = NullBuffers
  /\ packets = [s \in {"lidar", "imu"} |-> 0]

-----------------------------------------------------------------------------

LivoxStartLog ==
  /\ buffers' = FreshBuffers
  /\ UNCHANGED << retrieved, packets >>

\* Mutant: the buffers are emptied but stay allocated.
StopLogOnlyClears ==
  /\ buffers' = FreshBuffers
  /\ UNCHANGED << retrieved, packets >>

LivoxStopLog ==
  /\ buffers' = NullBuffers
  /\ UNCHANGED << retrieved, packets >>

\* Mutant: a swap with null pointers instead of new buffers.
RetrieveLeavesNull ==
  /\ retrieved' = buffers
  /\ buffers' = NullBuffers
  /\ UNCHANGED packets

\* Mutant: the IMU buffer is handed over and kept as well.
RetrieveKeepsImu ==
  /\ retrieved' = buffers
  /\ buffers' = [FreshBuffers EXCEPT !.imu = buffers.imu]
  /\ UNCHANGED packets

\* The swap: the caller gets the old pointers, null ones included, and the
\* client keeps the two buffers made for the call.
LivoxRetrieveData ==
  /\ retrieved' = buffers
  /\ buffers' = FreshBuffers
  /\ UNCHANGED packets

\* A packet that arrives while the pointer is null is counted and dropped.
PointCloudCallback ==
  /\ packets["lidar"] < MaxPackets
  /\ packets' = [packets EXCEPT !["lidar"] = @ + 1]
  /\ buffers' = IF buffers.alloc
                  THEN [buffers EXCEPT !.lidar = Append(@, packets'["lidar"])]
                  ELSE buffers
  /\ UNCHANGED retrieved

ImuDataCallback ==
  /\ packets["imu"] < MaxPackets
  /\ packets' = [packets EXCEPT !["imu"] = @ + 1]
  /\ buffers' = IF buffers.alloc
                  THEN [buffers EXCEPT !.imu = Append(@, packets'["imu"])]
                  ELSE buffers
  /\ UNCHANGED retrieved

=============================================================================
