------------------------ MODULE RecordingLog_proofs ------------------------
(***************************************************************************)
(* ScanControl implements RecordingLog, for both streams of the LiDAR and  *)
(* any number of packets and chunks, with requests made one at a time.     *)
(***************************************************************************)
EXTENDS ScanControl_proofs

\* stateWatcher() has taken buffers and not yet saved them.
Saving == {"chunk", "stopLog", "stopSave", "stopScanLog", "stopScanSave"}

\* The packets lo .. hi in a row.
InRow(b, hi) ==
  Len(b) <= hi /\ \A k \in 1 .. Len(b) : b[k] = hi - Len(b) + k

\* A buffer holds the last packets received, without a gap, and what was taken
\* is held until it is saved.
PieceInv ==
  /\ retrieved.alloc => pc \in Saving
  /\ \A s \in LidarStreams : buffers.alloc => InRow(buffers[s], packets[s])

\* The steps of RecordingLog, seen through the mapping, for stream s.
LogReceive(s) ==
  /\ packets[s] < MaxPackets /\ packets'[s] = packets[s] + 1
  /\ Phase' = Phase /\ SessionDir' = SessionDir
  /\ FirstUncut(s)' = FirstUncut(s) /\ Cuts(s)' = Cuts(s)

LogOpen(s) ==
  /\ Phase = "off" /\ Phase' = "on"
  /\ SessionDir' \in {"cs", "ss"}
  /\ FirstUncut(s)' = packets[s] + 1
  /\ packets'[s] = packets[s] /\ Cuts(s)' = Cuts(s)

LogCut(s, next) ==
  /\ Phase = "on" /\ Phase' = next
  /\ next = "on" => SessionDir = "cs"
  /\ SessionDir' = SessionDir
  /\ Cuts(s)' = Append(Cuts(s), [dir |-> SessionDir,
                                 data |-> Lidar!Piece(FirstUncut(s), packets[s])])
  /\ FirstUncut(s)' = packets[s] + 1
  /\ packets'[s] = packets[s]

LogClose(s) ==
  /\ Phase = "closing" /\ Phase' = "off"
  /\ SessionDir' = "none"
  /\ FirstUncut(s)' = 0
  /\ packets'[s] = packets[s] /\ Cuts(s)' = Cuts(s)

LogStutter(s) ==
  /\ Phase' = Phase /\ SessionDir' = SessionDir /\ packets'[s] = packets[s]
  /\ FirstUncut(s)' = FirstUncut(s) /\ Cuts(s)' = Cuts(s)

LogStep(s) ==
  \/ LogReceive(s) \/ LogOpen(s) \/ LogCut(s, "on") \/ LogCut(s, "closing")
  \/ LogClose(s) \/ LogStutter(s)

-----------------------------------------------------------------------------
(***************************************************************************)
(* The pieces cut so far.                                                  *)
(***************************************************************************)

LEMMA StreamOfBuffers ==
  ASSUME TypeOK, NEW s \in LidarStreams
  PROVE  /\ buffers[s] \in Seq(Nat) /\ retrieved[s] \in Seq(Nat)
         /\ packets[s] \in Nat /\ Len(buffers[s]) \in Nat
         /\ disk \in Seq(Chunk) /\ Len(disk) \in Nat
         /\ \A i \in 1 .. Len(disk) : disk[i].dir \in {"cs", "ss"} /\ disk[i][s] \in Seq(Nat)
<1>1. buffers[s] \in Seq(Nat) /\ retrieved[s] \in Seq(Nat) /\ packets[s] \in Nat
  BY DEF TypeOK, LivoxTypeOK, Buffers, LidarStreams
<1>2. disk \in Seq(Chunk)
  BY DEF TypeOK
<1>3. ASSUME NEW i \in 1 .. Len(disk)
      PROVE  disk[i].dir \in {"cs", "ss"} /\ disk[i][s] \in Seq(Nat)
  <2>1. disk[i] \in Chunk
    BY <1>2
  <2> QED
    BY <2>1 DEF Chunk, LidarStreams
<1> QED
  BY <1>1, <1>2, <1>3

\* The pieces of stream s that are on the drive, and the one that is held.
PieceOf(d, x) == [dir |-> d, data |-> x]
OnDrive(s) == [i \in 1 .. Len(disk) |-> PieceOf(disk[i].dir, disk[i][s])]
HeldPiece(s) == PieceOf(TakenDir, retrieved[s])

Pieces == [dir : {"cs", "ss"}, data : Seq(Nat)]

LEMMA PieceTypes ==
  ASSUME TypeOK, NEW s \in LidarStreams
  PROVE  /\ OnDrive(s) \in Seq(Pieces) /\ Len(OnDrive(s)) = Len(disk)
         /\ HeldPiece(s) \in Pieces
<1>1. HeldPiece(s) \in Pieces
  BY StreamOfBuffers DEF HeldPiece, PieceOf, Pieces, TakenDir
<1>2. ASSUME NEW i \in 1 .. Len(disk) PROVE PieceOf(disk[i].dir, disk[i][s]) \in Pieces
  BY StreamOfBuffers DEF PieceOf, Pieces
<1>3. OnDrive(s) \in Seq(Pieces) /\ Len(OnDrive(s)) = Len(disk)
  BY <1>2, StreamOfBuffers DEF OnDrive
<1> QED
  BY <1>1, <1>3

LEMMA CutsAre ==
  ASSUME TypeOK, NEW s \in LidarStreams
  PROVE  Cuts(s) = IF retrieved.alloc THEN Append(OnDrive(s), HeldPiece(s)) ELSE OnDrive(s)
<1>1. OnDrive(s) \in Seq(Pieces) /\ HeldPiece(s) \in Pieces
  BY PieceTypes
<1>2. OnDrive(s) \o << >> = OnDrive(s)
  BY <1>1
<1>3. OnDrive(s) \o << HeldPiece(s) >> = Append(OnDrive(s), HeldPiece(s))
  BY <1>1
<1> QED
  BY <1>2, <1>3 DEF Cuts, OnDrive, HeldPiece, PieceOf

LEMMA CutsKept ==
  ASSUME NEW s \in LidarStreams, UNCHANGED << disk, retrieved >>,
         retrieved.alloc => TakenDir' = TakenDir
  PROVE  Cuts(s)' = Cuts(s)
  BY DEF Cuts

LEMMA CutsTaken ==
  ASSUME TypeOK, TypeOK', NEW s \in LidarStreams, UNCHANGED disk,
         ~retrieved.alloc, retrieved'.alloc
  PROVE  Cuts(s)' = Append(Cuts(s), PieceOf(TakenDir', retrieved'[s]))
<1> DEFINE new == PieceOf(TakenDir', retrieved'[s])
<1>1. Cuts(s) = OnDrive(s)
  BY CutsAre
<1>2. Cuts(s)' = OnDrive(s) \o << new >>
  BY DEF Cuts, OnDrive, PieceOf
<1>3. OnDrive(s) \in Seq(Pieces)
  BY PieceTypes
<1>4. new \in Pieces
  BY DEF TypeOK, LivoxTypeOK, Buffers, LidarStreams, PieceOf, Pieces, TakenDir
<1> HIDE DEF new
<1>5. OnDrive(s) \o << new >> = Append(OnDrive(s), new)
  BY <1>3, <1>4
<1> QED
  BY <1>1, <1>2, <1>5 DEF new

LEMMA CutsSaved ==
  ASSUME TypeOK, NEW s \in LidarStreams, NEW c \in Chunk, disk' = Append(disk, c),
         c[s] = retrieved[s], c.dir = TakenDir, retrieved.alloc, ~retrieved'.alloc
  PROVE  Cuts(s)' = Cuts(s)
<1>1. Cuts(s) = Append(OnDrive(s), HeldPiece(s))
  BY CutsAre
<1>2. /\ Len(disk') = Len(disk) + 1 /\ disk'[Len(disk) + 1] = c
      /\ \A i \in 1 .. Len(disk) : disk'[i] = disk[i]
      /\ Len(disk) \in Nat
  BY StreamOfBuffers
<1> DEFINE New == [i \in 1 .. Len(disk') |-> PieceOf(disk'[i].dir, disk'[i][s])]
<1>3. \A i \in 1 .. Len(disk) : New[i] = OnDrive(s)[i]
  BY <1>2 DEF OnDrive
<1>4. New[Len(disk) + 1] = HeldPiece(s)
  BY <1>2 DEF HeldPiece
<1>5. OnDrive(s) \in Seq(Pieces) /\ HeldPiece(s) \in Pieces /\ Len(OnDrive(s)) = Len(disk)
  BY PieceTypes
<1>6. New \in Seq(Pieces) /\ Len(New) = Len(disk) + 1
  <2>1. ASSUME NEW i \in 1 .. Len(disk') PROVE New[i] \in Pieces
    <3>1. i \in 1 .. Len(disk) \/ i = Len(disk) + 1
      BY <1>2
    <3> HIDE DEF New
    <3> QED
      BY <1>2, <1>3, <1>4, <1>5, <3>1
  <2> QED
    BY <1>2, <2>1
<1>7. Cuts(s)' = New \o << >>
  BY DEF Cuts, PieceOf
<1> HIDE DEF New
<1>8. New \o << >> = New
  BY <1>6
<1>9. New = Append(OnDrive(s), HeldPiece(s))
  BY <1>2, <1>3, <1>4, <1>5, <1>6
<1> QED
  BY <1>1, <1>7, <1>8, <1>9

\* A buffer that holds the last packets in a row is a piece of RecordingLog.
LEMMA RowIsPiece ==
  ASSUME NEW b \in Seq(Nat), NEW hi \in Nat, InRow(b, hi)
  PROVE  b = Lidar!Piece(hi + 1 - Len(b), hi)
<1>1. Len(b) \in Nat /\ b = [k \in 1 .. Len(b) |-> b[k]]
  OBVIOUS
<1>2. hi + 1 - (hi + 1 - Len(b)) = Len(b)
  BY <1>1
<1>3. \A k \in 1 .. Len(b) : b[k] = (hi + 1 - Len(b)) + k - 1
  BY <1>1 DEF InRow
<1> QED
  BY <1>1, <1>2, <1>3 DEF Lidar!Piece

-----------------------------------------------------------------------------
(***************************************************************************)
(* Each step.                                                              *)
(***************************************************************************)

\* A step that leaves the kind of scan alone while a log runs.
InStopScan == app_state \in {"STOP_SCAN_IN_PROGRESS", "STOPING_STOP_SCAN"}
SameScan == buffers.alloc => (InStopScan' <=> InStopScan)

\* Away from the taking and saving of buffers nothing changes.
LEMMA AsideSteps ==
  ASSUME PieceInv, NEW s \in LidarStreams,
         UNCHANGED << buffers, packets, retrieved, disk >>, SameScan,
         pc' = pc \/ (pc \notin Saving /\ pc' \notin Saving)
  PROVE  PieceInv' /\ LogStep(s)
<1>1. PieceInv'
  <2>1. retrieved'.alloc => pc' \in Saving
    BY DEF PieceInv
  <2> QED
    BY <2>1 DEF PieceInv, InRow
<1>2. Phase' = Phase /\ FirstUncut(s)' = FirstUncut(s)
  BY DEF Phase, Recording, FirstUncut, Saving
<1>3. SessionDir' = SessionDir
  BY DEF SessionDir, SameScan, InStopScan
<1>4. Cuts(s)' = Cuts(s)
  <2>1. retrieved.alloc => TakenDir' = TakenDir
    BY DEF PieceInv, TakenDir
  <2> QED
    BY <2>1, CutsKept
<1> QED
  BY <1>1, <1>2, <1>3, <1>4 DEF LogStep, LogStutter

LEMMA OpenStep ==
  ASSUME ScanInv, PieceInv, NEW s \in LidarStreams, ~buffers.alloc, LivoxStartLog,
         UNCHANGED disk, pc \notin Saving, pc' = "loop"
  PROVE  PieceInv' /\ LogStep(s)
<1>1. buffers' = FreshBuffers /\ retrieved' = retrieved /\ packets' = packets
  BY DEF LivoxStartLog
<1>2. PieceInv'
  <2>1. \A t \in LidarStreams : packets[t] \in Nat
    BY StreamOfBuffers DEF ScanInv
  <2> QED
    BY <1>1, <2>1 DEF PieceInv, FreshBuffers, InRow, LidarStreams
<1>3. Phase = "off" /\ Phase' = "on"
  BY <1>1 DEF Phase, Recording, FreshBuffers
<1>4. FirstUncut(s)' = packets[s] + 1
  <2>1. packets[s] \in Nat
    BY StreamOfBuffers DEF ScanInv
  <2> QED
    BY <1>1, <2>1 DEF FirstUncut, FreshBuffers, LidarStreams
<1>5. SessionDir' \in {"cs", "ss"}
  BY <1>1 DEF SessionDir, FreshBuffers
<1>6. ~retrieved.alloc
  BY DEF PieceInv
<1> QED
  BY <1>1, <1>2, <1>3, <1>4, <1>5, <1>6, CutsKept DEF LogStep, LogOpen

LEMMA CutStep ==
  ASSUME ScanInv, TypeOK', PieceInv, NEW s \in LidarStreams, buffers.alloc,
         LivoxRetrieveData, UNCHANGED << disk, app_state >>, pc \notin Saving, pc' \in Saving,
         TakenDir' = SessionDir, pc' \notin {"stopLog", "stopScanLog"} => SessionDir = "cs"
  PROVE  PieceInv' /\ LogStep(s)
<1> USE DEF ScanInv
<1>1. retrieved' = buffers /\ buffers' = FreshBuffers /\ packets' = packets
  BY DEF LivoxRetrieveData
<1>2. PieceInv'
  <2>1. \A t \in LidarStreams : packets[t] \in Nat
    BY StreamOfBuffers
  <2> QED
    BY <1>1, <2>1 DEF PieceInv, FreshBuffers, InRow, LidarStreams
<1>3. /\ Phase = "on" /\ Phase' \in {"on", "closing"}
      /\ Phase' = "on" => SessionDir = "cs"
      /\ SessionDir' = SessionDir
  BY <1>1 DEF Phase, Recording, FreshBuffers, Saving, SessionDir
<1>4. FirstUncut(s)' = packets[s] + 1
  <2>1. packets[s] \in Nat
    BY StreamOfBuffers
  <2> QED
    BY <1>1, <2>1 DEF FirstUncut, FreshBuffers, LidarStreams
<1>5. Cuts(s)' = Append(Cuts(s), PieceOf(SessionDir, buffers[s]))
  <2>1. ~retrieved.alloc
    BY DEF PieceInv
  <2> QED
    BY <1>1, <2>1, CutsTaken
<1>6. buffers[s] = Lidar!Piece(FirstUncut(s), packets[s])
  <2>1. buffers[s] \in Seq(Nat) /\ packets[s] \in Nat /\ InRow(buffers[s], packets[s])
    BY StreamOfBuffers DEF PieceInv
  <2> QED
    BY <2>1, RowIsPiece DEF FirstUncut
<1> QED
  BY <1>1, <1>2, <1>3, <1>4, <1>5, <1>6 DEF LogStep, LogCut, PieceOf

LEMMA CloseStep ==
  ASSUME ScanInv, PieceInv, NEW s \in LidarStreams, LivoxStopLog, UNCHANGED disk,
         buffers.alloc, << pc, pc' >> \in { << "stopLog", "stopSave" >>,
                                            << "stopScanLog", "stopScanSave" >> }
  PROVE  PieceInv' /\ LogStep(s)
<1>1. buffers' = NullBuffers /\ retrieved' = retrieved /\ packets' = packets
  BY DEF LivoxStopLog
<1>2. PieceInv'
  BY <1>1 DEF PieceInv, NullBuffers, Saving
<1>3. Phase = "closing" /\ Phase' = "off" /\ FirstUncut(s)' = 0 /\ SessionDir' = "none"
  BY <1>1 DEF Phase, Recording, FirstUncut, NullBuffers, SessionDir
<1>4. TakenDir' = TakenDir
  BY DEF TakenDir
<1> QED
  BY <1>1, <1>2, <1>3, <1>4, CutsKept DEF LogStep, LogClose

LEMMA SaveStep ==
  ASSUME ScanInv, PieceInv, NEW s \in LidarStreams, NEW d \in {"cs", "ss"}, NEW next,
         Save(d, next), pc \in {"chunk", "stopSave", "stopScanSave"}, pc' \notin Saving,
         d = TakenDir, pc = "chunk" => next = app_state
  PROVE  PieceInv' /\ LogStep(s)
<1> USE DEF ScanInv
<1>1. dirs[d] /\ retrieved.alloc
  <2>1. app_state # "USB_IO_ERROR" /\ pc # "boot"
    BY DEF StateFits, StatesAt, InStage, LateStarts, Starts, ScanStates
  <2> QED
    BY <2>1 DEF ErrorsFit, BuffersFit
<1>2. PICK ok \in BOOLEAN :
        disk' = Append(disk, [dir |-> d, idx |-> FileNumber, ok |-> ok,
                              lidar |-> retrieved.lidar, imu |-> retrieved.imu,
                              gnss |-> gnssTaken.gnss, nmea |-> gnssTaken.nmea])
  BY <1>1 DEF Save
<1>3. buffers' = buffers /\ packets' = packets /\ retrieved' = NullBuffers
  BY DEF Save
<1>4. PieceInv'
  BY <1>3 DEF PieceInv, NullBuffers, InRow
<1>5. Phase' = Phase /\ FirstUncut(s)' = FirstUncut(s) /\ SessionDir' = SessionDir
  <2>1. pc # "chunk" => ~buffers.alloc
    BY DEF BuffersFit
  <2>2. pc = "chunk" => app_state' = app_state
    BY <1>1 DEF Save
  <2> QED
    BY <1>3, <2>1, <2>2 DEF Phase, Recording, FirstUncut, Saving, SessionDir
<1>6. Cuts(s)' = Cuts(s)
  <2> DEFINE c == [dir |-> d, idx |-> FileNumber, ok |-> ok,
                   lidar |-> retrieved.lidar, imu |-> retrieved.imu,
                   gnss |-> gnssTaken.gnss, nmea |-> gnssTaken.nmea]
  <2>1. FileNumber \in Nat
    <3>1. chunks \in [{"cs", "ss"} -> Nat]
      BY DEF TypeOK
    <3> QED
      BY <3>1 DEF FileNumber
  <2>2. c \in Chunk
    BY <2>1 DEF Chunk, TypeOK, LivoxTypeOK, GnssTypeOK, Buffers
  <2>3. c[s] = retrieved[s] /\ c.dir = TakenDir
    BY DEF LidarStreams
  <2>4. ~retrieved'.alloc
    BY <1>3 DEF NullBuffers
  <2>5. disk' = Append(disk, c)
    BY <1>2
  <2> HIDE DEF c
  <2> QED
    BY <1>1, <2>2, <2>3, <2>4, <2>5, CutsSaved
<1> QED
  BY <1>3, <1>4, <1>5, <1>6 DEF LogStep, LogStutter

\* A packet of stream t arrives.
LEMMA PacketStep ==
  ASSUME ScanInv, PieceInv, NEW s \in LidarStreams, NEW t \in LidarStreams,
         UNCHANGED << app_state, pc, disk, retrieved >>,
         packets[t] < MaxPackets,
         packets' = [packets EXCEPT ![t] = @ + 1],
         buffers'.alloc <=> buffers.alloc,
         \A u \in LidarStreams : u # t => buffers'[u] = buffers[u],
         buffers.alloc => buffers'[t] = Append(buffers[t], packets[t] + 1)
  PROVE  PieceInv' /\ LogStep(s)
<1> USE DEF ScanInv
<1>1. packets \in [LidarStreams -> Nat]
  BY DEF TypeOK, LivoxTypeOK, LidarStreams
<1>2. packets'[t] = packets[t] + 1 /\ \A u \in LidarStreams : u # t => packets'[u] = packets[u]
  BY <1>1
<1>3. /\ buffers[t] \in Seq(Nat) /\ packets[t] \in Nat
      /\ Len(buffers[t]) \in Nat
  BY StreamOfBuffers
<1>4. ASSUME buffers.alloc
      PROVE  Len(buffers'[t]) = Len(buffers[t]) + 1 /\ InRow(buffers'[t], packets'[t])
  <2>1. /\ Len(buffers'[t]) = Len(buffers[t]) + 1
        /\ \A k \in 1 .. Len(buffers[t]) : buffers'[t][k] = buffers[t][k]
        /\ buffers'[t][Len(buffers[t]) + 1] = packets[t] + 1
    <3>1. packets[t] + 1 \in Nat /\ buffers'[t] = Append(buffers[t], packets[t] + 1)
      BY <1>3, <1>4
    <3> QED
      BY <1>3, <3>1
  <2>2. InRow(buffers[t], packets[t])
    BY <1>4 DEF PieceInv
  <2>3. packets'[t] = packets[t] + 1
    BY <1>2
  <2>4. Len(buffers'[t]) <= packets'[t]
    BY <1>3, <2>1, <2>2, <2>3 DEF InRow
  <2>5. ASSUME NEW k \in 1 .. Len(buffers'[t])
        PROVE  buffers'[t][k] = packets'[t] - Len(buffers'[t]) + k
    <3>1. CASE k \in 1 .. Len(buffers[t])
      BY <1>3, <2>1, <2>2, <2>3, <3>1 DEF InRow
    <3>2. CASE k = Len(buffers[t]) + 1
      BY <1>3, <2>1, <2>3, <3>2
    <3> QED
      BY <1>3, <2>1, <3>1, <3>2
  <2> QED
    BY <2>1, <2>4, <2>5 DEF InRow
<1>5. PieceInv'
  <2>1. \A u \in LidarStreams : buffers'.alloc => InRow(buffers'[u], packets'[u])
    <3>1. ASSUME NEW u \in LidarStreams, buffers.alloc PROVE InRow(buffers'[u], packets'[u])
      <4>1. CASE u = t
        BY <1>4, <3>1, <4>1
      <4>2. CASE u # t
        <5>1. buffers'[u] = buffers[u] /\ packets'[u] = packets[u]
          BY <1>2, <4>2
        <5> QED
          BY <3>1, <5>1 DEF PieceInv
      <4> QED
        BY <4>1, <4>2
    <3> QED
      BY <3>1
  <2>2. retrieved'.alloc => pc' \in Saving
    BY DEF PieceInv
  <2> QED
    BY <2>1, <2>2 DEF PieceInv, InRow
<1>6. Phase' = Phase /\ SessionDir' = SessionDir /\ Cuts(s)' = Cuts(s)
  BY CutsKept DEF Phase, Recording, SessionDir, TakenDir
<1>7. FirstUncut(s)' = FirstUncut(s)
  <2>1. ASSUME buffers.alloc
        PROVE  packets'[s] + 1 - Len(buffers'[s]) = packets[s] + 1 - Len(buffers[s])
    <3>1. CASE s = t
      <4>1. packets'[s] = packets[s] + 1 /\ Len(buffers'[s]) = Len(buffers[s]) + 1
        BY <1>2, <1>4, <2>1, <3>1
      <4>2. packets[s] \in Nat /\ Len(buffers[s]) \in Nat
        BY <1>3, <3>1
      <4> QED
        BY <4>1, <4>2
    <3>2. CASE s # t
      BY <1>2, <3>2
    <3> QED
      BY <3>1, <3>2
  <2> QED
    BY <2>1, Zenon DEF FirstUncut
<1>8. CASE s = t
  BY <1>2, <1>5, <1>6, <1>7, <1>8 DEF LogStep, LogReceive
<1>9. CASE s # t
  BY <1>2, <1>5, <1>6, <1>7, <1>9 DEF LogStep, LogStutter
<1> QED
  BY <1>8, <1>9

LEMMA ReceiveStep ==
  ASSUME ScanInv, PieceInv, NEW s \in LidarStreams, Receive
  PROVE  PieceInv' /\ LogStep(s)
<1>1. UNCHANGED << app_state, pc, disk >>
  BY DEF Receive, watcherVars, fileVars
<1>2. buffers \in Buffers /\ packets \in [{"lidar", "imu"} -> Nat]
  BY DEF ScanInv, TypeOK, LivoxTypeOK
<1>3. CASE PointCloudCallback
  <2>1. /\ retrieved' = retrieved /\ packets["lidar"] < MaxPackets
        /\ packets' = [packets EXCEPT !["lidar"] = @ + 1]
        /\ packets'["lidar"] = packets["lidar"] + 1
    BY <1>2, <1>3 DEF PointCloudCallback
  <2>2. /\ buffers'.alloc <=> buffers.alloc
        /\ buffers'["imu"] = buffers["imu"]
        /\ buffers.alloc => buffers'["lidar"] = Append(buffers["lidar"], packets["lidar"] + 1)
    <3>1. CASE buffers.alloc
      <4>1. buffers' = [buffers EXCEPT !.lidar = Append(buffers.lidar, packets["lidar"] + 1)]
        BY <1>3, <2>1, <3>1 DEF PointCloudCallback
      <4> QED
        BY <1>2, <3>1, <4>1 DEF Buffers
    <3>2. CASE ~buffers.alloc
      BY <1>3, <3>2 DEF PointCloudCallback
    <3> QED
      BY <3>1, <3>2
  <2> QED
    BY <1>1, <2>1, <2>2, PacketStep DEF LidarStreams
<1>4. CASE ImuDataCallback
  <2>1. /\ retrieved' = retrieved /\ packets["imu"] < MaxPackets
        /\ packets' = [packets EXCEPT !["imu"] = @ + 1]
        /\ packets'["imu"] = packets["imu"] + 1
    BY <1>2, <1>4 DEF ImuDataCallback
  <2>2. /\ buffers'.alloc <=> buffers.alloc
        /\ buffers'["lidar"] = buffers["lidar"]
        /\ buffers.alloc => buffers'["imu"] = Append(buffers["imu"], packets["imu"] + 1)
    <3>1. CASE buffers.alloc
      <4>1. buffers' = [buffers EXCEPT !.imu = Append(buffers.imu, packets["imu"] + 1)]
        BY <1>4, <2>1, <3>1 DEF ImuDataCallback
      <4> QED
        BY <1>2, <3>1, <4>1 DEF Buffers
    <3>2. CASE ~buffers.alloc
      BY <1>4, <3>2 DEF ImuDataCallback
    <3> QED
      BY <3>1, <3>2
  <2> QED
    BY <1>1, <2>1, <2>2, PacketStep DEF LidarStreams
<1>5. CASE UNCHANGED livoxVars
  BY <1>1, <1>5, AsideSteps DEF livoxVars, SameScan, InStopScan
<1> QED
  BY <1>3, <1>4, <1>5 DEF Receive

LEMMA WatcherStep ==
  ASSUME ScanInv, ~Late, TypeOK', PieceInv, NEW s \in LidarStreams, Watcher
  PROVE  PieceInv' /\ LogStep(s)
<1> USE DEF Goto, fileVars, dataVars, livoxVars
<1>0. app_state \in StatesAt(pc) /\ BuffersFit
  BY DEF ScanInv, StateFits
<1>1. CASE StartScanning \/ BeginStopScan
  <2>1. pc \in {"start", "stopScanInitial"} /\ pc' = "loop" /\ disk' = disk
    BY <1>1 DEF StartScanning, BeginStopScan
  <2>2. ~buffers.alloc /\ pc \notin Saving
    BY <1>0, <2>1 DEF StatesAt, InStage, LateStarts, BuffersFit, Logging, ScanStates, Saving
  <2>3. UNCHANGED livoxVars \/ LivoxStartLog
    BY <1>1 DEF StartScanning, BeginStopScan, StartLogs
  <2>4. CASE UNCHANGED livoxVars
    BY <2>1, <2>2, <2>4, AsideSteps DEF Saving, SameScan
  <2> QED
    BY <2>1, <2>2, <2>3, <2>4, OpenStep
<1>2. CASE TakeChunk
  <2>1. /\ LivoxRetrieveData /\ UNCHANGED << disk, app_state >>
        /\ app_state = "SCANNING" /\ pc = "scan" /\ pc' = "chunk"
    BY <1>2 DEF TakeChunk, ChunkDue
  <2>2. buffers.alloc
    BY <1>0, <2>1 DEF BuffersFit, Logging, ScanStates
  <2>3. TakenDir' = SessionDir /\ SessionDir = "cs"
    BY <2>1, <2>2 DEF TakenDir, SessionDir
  <2> QED
    BY <2>1, <2>2, <2>3, CutStep DEF Saving
<1>3. CASE RetrieveLast("stop", "stopLog") \/ RetrieveLast("stopScanStop", "stopScanLog")
  <2>1. /\ << pc, pc' >> \in { << "stop", "stopLog" >>, << "stopScanStop", "stopScanLog" >> }
        /\ UNCHANGED << disk, app_state >>
    BY <1>3 DEF RetrieveLast
  <2>2. app_state = IF pc = "stop" THEN "STOPPING" ELSE "STOPING_STOP_SCAN"
    BY <1>0, <2>1 DEF StatesAt, InStage
  <2>3. buffers.alloc /\ ~LivoxNull
    BY <1>0, <2>1, <2>2 DEF BuffersFit, Logging
  <2>4. LivoxRetrieveData
    BY <1>3, <2>3 DEF RetrieveLast
  <2>5. TakenDir' = SessionDir
    BY <2>1, <2>2, <2>3 DEF TakenDir, SessionDir
  <2> QED
    BY <2>1, <2>3, <2>4, <2>5, CutStep DEF Saving
<1>4. CASE StopLivoxLog("stopLog", "stopSave") \/ StopLivoxLog("stopScanLog", "stopScanSave")
  <2>1. /\ << pc, pc' >> \in { << "stopLog", "stopSave" >>, << "stopScanLog", "stopScanSave" >> }
        /\ disk' = disk /\ LivoxStopLog
    BY <1>4 DEF StopLivoxLog
  <2>2. app_state \in {"STOPPING", "STOPING_STOP_SCAN"}
    BY <1>0, <2>1 DEF StatesAt, InStage
  <2>3. buffers.alloc
    BY <1>0, <2>1, <2>2 DEF BuffersFit, Logging
  <2> QED
    BY <2>1, <2>3, CloseStep
<1>5. CASE SaveChunk \/ SaveLast("stopSave", "cs") \/ SaveLast("stopScanSave", "ss")
  <2>1. PICK d \in {"cs", "ss"}, next \in {app_state, "IDLE"} :
          /\ Save(d, next)
          /\ d = TakenDir
          /\ pc = "chunk" => next = app_state
    BY <1>5 DEF SaveChunk, SaveLast, TakenDir
  <2>2. pc \in {"chunk", "stopSave", "stopScanSave"} /\ pc' \notin Saving
    BY <1>5 DEF SaveChunk, SaveLast, Saving
  <2> QED
    BY <2>1, <2>2, SaveStep
<1>6. CASE Dispatch
  <2>1. pc \notin Saving /\ pc' \notin Saving
    BY <1>6 DEF Dispatch, Branch, Saving
  <2> QED
    BY <1>6, <2>1, AsideSteps DEF Dispatch, SameScan, InStopScan
<1>7. CASE \/ CreateDirectories \/ AliveBeep \/ WaitForResources \/ IdleCheck
           \/ IdleAutostart \/ NoChunk \/ CheckStage1 \/ TimeoutStage1 \/ CheckStage2
           \/ TimeoutStage2 \/ StartStopScan \/ EndStopScan
  <2>1. UNCHANGED << buffers, packets, retrieved, disk >> /\ pc \notin Saving /\ pc' \notin Saving
    BY <1>7 DEF CreateDirectories, AliveBeep, WaitForResources, IdleCheck,
      IdleAutostart, NoChunk, CheckStage1, TimeoutStage1, CheckStage2, TimeoutStage2,
      StageCheck, StageTimeout, StartStopScan, EndStopScan, Saving
  <2>2. ASSUME NoChunk \/ CheckStage1 \/ TimeoutStage1 \/ CheckStage2 \/ TimeoutStage2
                 \/ EndStopScan
        PROVE  SameScan
    <3>1. CASE EndStopScan
      BY <1>0, <3>1 DEF EndStopScan, StatesAt, InStage, InStopScan, SameScan
    <3>2. CASE ~EndStopScan
      <4>1. app_state' \in {app_state, "SCANNING"} /\ (app_state' = app_state \/ pc \in InStage)
        BY <2>2, <3>2 DEF NoChunk, CheckStage1, TimeoutStage1, CheckStage2,
          TimeoutStage2, StageCheck, StageTimeout, InStage
      <4> QED
        BY <1>0, <4>1 DEF StatesAt, ScanStates, InStage, InStopScan, SameScan
    <3> QED
      BY <3>1, <3>2
  <2>3. ASSUME \/ CreateDirectories \/ AliveBeep \/ WaitForResources \/ IdleCheck
               \/ IdleAutostart \/ StartStopScan
        PROVE  SameScan
    <3>1. pc \in {"boot", "wait", "resources", "idle", "idleSlept", "stopScanStart"}
      BY <2>3 DEF CreateDirectories, AliveBeep, WaitForResources, IdleCheck,
        IdleAutostart, StartStopScan
    <3>2. ~buffers.alloc
      BY <1>0, <3>1 DEF StatesAt, InStage, BuffersFit, Logging, ScanStates, Starts
    <3> QED
      BY <3>2 DEF SameScan
  <2>4. SameScan
    BY <1>7, <2>2, <2>3
  <2> QED
    BY <2>1, <2>4, AsideSteps
<1> QED
  BY <1>1, <1>2, <1>3, <1>4, <1>5, <1>6, <1>7
    DEF Watcher, StopScanning, FinishStopScan

LEMMA EachStep ==
  ASSUME ScanInv, ~Late, PieceInv, NEW s \in LidarStreams, [Next]_vars
  PROVE  PieceInv' /\ LogStep(s)
<1>1. TypeOK'
  BY NextTypeOK DEF ScanInv
<1>2. CASE Watcher
  BY <1>1, <1>2, WatcherStep
<1>3. CASE Receive
  BY <1>3, ReceiveStep
<1>4. CASE ~(Watcher \/ Receive)
  <2>1. UNCHANGED << buffers, packets, retrieved, disk, pc >>
    BY <1>4 DEF Next, Callback, Assign, ArmStage1, Request, Quit, CreateLivox,
      StartListeners, CreateGpio, Expire, RawBufferBreaks, watcherVars, fileVars, dataVars,
      livoxVars, vars
  <2>2. SameScan
    <3>1. ASSUME NEW c \in Callers, Assign(c) PROVE SameScan
      <4>1. \/ app_state \in {"IDLE", "LIDAR_ERROR"}
            \/ app_state \in ScanStates /\ app_state' \in Stops
        BY <3>1 DEF Assign, ScanInv, PendingFits, States
      <4> QED
        BY <4>1 DEF ScanInv, BuffersFit, Logging, ScanStates, Stops, InStopScan, SameScan
    <3>2. CASE ~\E c \in Callers : Assign(c)
      BY <1>4, <3>2 DEF Next, Callback, ArmStage1, Request, Quit, CreateLivox,
        StartListeners, CreateGpio, Expire, RawBufferBreaks, vars, InStopScan, SameScan
    <3> QED
      BY <3>1, <3>2
  <2> QED
    BY <2>1, <2>2, AsideSteps
<1> QED
  BY <1>2, <1>3, <1>4

LEMMA PieceInvariant ==
  ASSUME ~Late
  PROVE  SerialSpec => [](ScanInv /\ PieceInv)
<1>1. Init => PieceInv
  BY DEF Init, LivoxInit, NullBuffers, PieceInv
<1>2. ScanInv /\ PieceInv /\ [Next /\ OneAtATime']_vars => PieceInv'
  BY EachStep DEF LidarStreams
<1> QED
  BY <1>1, <1>2, ScanInvariant, PTL DEF SerialSpec

-----------------------------------------------------------------------------
\* What a scan records of the points is cut into consecutive pieces, each saved
\* as one chunk in the directory of its kind: nothing from the start to the last
\* cut is lost, doubled or out of order, and a stop scan is one chunk
\* (main.cpp:495-520, 579-607, 659-685).  stateWatcher() may run between the
\* test and the assignment of a request, except with Autostart, where a request
\* to start would restart the log of a scan already begun.
THEOREM PointsAreLogged ==
  ASSUME ~(Overtaking /\ Autostart)
  PROVE  SerialSpec => LidarLog
<1>0. ~Late
  BY DEF Late
<1>1. Init => Lidar!Init
  BY DEF Init, LivoxInit, NullBuffers, Lidar!Init, Phase, SessionDir, FirstUncut, Cuts
<1>2. ScanInv /\ PieceInv /\ [Next /\ OneAtATime']_vars => [Lidar!Next]_Lidar!vars
  <2> SUFFICES ASSUME ScanInv, PieceInv, [Next]_vars PROVE [Lidar!Next]_Lidar!vars
    OBVIOUS
  <2>1. LogStep("lidar")
    BY <1>0, EachStep DEF LidarStreams
  <2> QED
    BY <2>1 DEF LogStep, LogReceive, LogOpen, LogCut, LogClose, LogStutter,
      Lidar!Next, Lidar!vars, Lidar!Receive, Lidar!Open, Lidar!Cut, Lidar!Close
<1> QED
  BY <1>0, <1>1, <1>2, PieceInvariant, PTL DEF SerialSpec, LidarLog, Lidar!Spec

\* The same for the IMU data.
THEOREM ImuDataIsLogged ==
  ASSUME ~(Overtaking /\ Autostart)
  PROVE  SerialSpec => ImuLog
<1>0. ~Late
  BY DEF Late
<1>1. Init => Imu!Init
  BY DEF Init, LivoxInit, NullBuffers, Imu!Init, Phase, SessionDir, FirstUncut, Cuts
<1>2. ScanInv /\ PieceInv /\ [Next /\ OneAtATime']_vars => [Imu!Next]_Imu!vars
  <2> SUFFICES ASSUME ScanInv, PieceInv, [Next]_vars PROVE [Imu!Next]_Imu!vars
    OBVIOUS
  <2>1. LogStep("imu")
    BY <1>0, EachStep DEF LidarStreams
  <2> QED
    BY <2>1 DEF LogStep, LogReceive, LogOpen, LogCut, LogClose, LogStutter, Lidar!Piece,
      Imu!Next, Imu!vars, Imu!Receive, Imu!Open, Imu!Cut, Imu!Close, Imu!Piece
<1> QED
  BY <1>0, <1>1, <1>2, PieceInvariant, PTL DEF SerialSpec, ImuLog, Imu!Spec

=============================================================================
