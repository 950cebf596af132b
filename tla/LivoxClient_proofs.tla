------------------------- MODULE LivoxClient_proofs -------------------------
(***************************************************************************)
(* Facts about the buffers of LivoxClient that the proofs about the        *)
(* modules built on it share.                                              *)
(***************************************************************************)
EXTENDS LivoxClient, TLAPS

\* Null and new buffers are buffers, and so is a buffer with one more packet.
LEMMA BufferTypes ==
  /\ NullBuffers \in Buffers
  /\ FreshBuffers \in Buffers
  BY DEF Buffers, NullBuffers, FreshBuffers

LEMMA AppendTypes ==
  ASSUME NEW b \in Buffers, NEW n \in Nat
  PROVE  /\ [b EXCEPT !.lidar = Append(@, n)] \in Buffers
         /\ [b EXCEPT !.imu = Append(@, n)] \in Buffers
<1>1. Append(b.lidar, n) \in Seq(Nat) /\ Append(b.imu, n) \in Seq(Nat)
  BY DEF Buffers
<1> QED
  BY <1>1 DEF Buffers

\* The buffers keep their type in every operation of LivoxClient.
LEMMA LivoxTypes ==
  ASSUME LivoxTypeOK,
         \/ LivoxStartLog \/ LivoxStopLog \/ LivoxRetrieveData
         \/ PointCloudCallback \/ ImuDataCallback \/ UNCHANGED livoxVars
  PROVE  LivoxTypeOK'
<1> USE BufferTypes DEF LivoxTypeOK
<1>1. CASE LivoxStartLog \/ LivoxStopLog \/ LivoxRetrieveData \/ UNCHANGED livoxVars
  BY <1>1 DEF LivoxStartLog, LivoxStopLog, LivoxRetrieveData, livoxVars
<1>2. CASE PointCloudCallback
  <2>1. packets' \in [{"lidar", "imu"} -> Nat] /\ packets'["lidar"] \in Nat
    BY <1>2 DEF PointCloudCallback
  <2> QED
    BY <1>2, <2>1, AppendTypes DEF PointCloudCallback
<1>3. CASE ImuDataCallback
  <2>1. packets' \in [{"lidar", "imu"} -> Nat] /\ packets'["imu"] \in Nat
    BY <1>3 DEF ImuDataCallback
  <2> QED
    BY <1>3, <2>1, AppendTypes DEF ImuDataCallback
<1> QED
  BY <1>1, <1>2, <1>3

=============================================================================
