---------------------------- MODULE Camera_proofs ----------------------------
(***************************************************************************)
(* Proofs about Camera, for any period of the edges, any age of frames,    *)
(* any number of requests, any settings of the clock and any length of a   *)
(* run: what is saved belongs together as far as SavedNotOlder says, and   *)
(* photos follow the edges.                                                *)
(* With RtkNmea_proofs this is what holds of MCPeripherals (Composition).  *)
(***************************************************************************)
EXTENDS MCPeripherals, RtkNmea_proofs, TLAPS

LEMMA Numbers ==
  Period \in Nat \ {0} /\ MaxFrameAge \in Nat \ {0} /\ MaxRequests \in Nat \ {0}
    /\ MaxTime \in Nat \ {0} /\ Offsets \subseteq Nat
  BY CameraAssumption

\* The first of a sequence is taken, or one more put behind the last.
LEMMA Shortened ==
  ASSUME NEW S, NEW s \in Seq(S), s # << >>
  PROVE  /\ 1 \in DOMAIN s /\ Head(s) = s[1] /\ Head(s) \in S
         /\ Tail(s) \in Seq(S) /\ Len(Tail(s)) = Len(s) - 1
         /\ \A i \in DOMAIN Tail(s) : i + 1 \in DOMAIN s /\ Tail(s)[i] = s[i + 1]
  OBVIOUS

LEMMA Extended ==
  ASSUME NEW S, NEW s \in Seq(S), NEW x \in S
  PROVE  /\ Append(s, x) \in Seq(S) /\ Len(Append(s, x)) = Len(s) + 1
         /\ Append(s, x) # << >>
         /\ s # << >> => Head(Append(s, x)) = Head(s)
         /\ DOMAIN Append(s, x) = DOMAIN s \cup {Len(s) + 1}
         /\ \A i \in DOMAIN s : Append(s, x)[i] = s[i]
         /\ Append(s, x)[Len(s) + 1] = x
  OBVIOUS

-----------------------------------------------------------------------------
(* Types.                                                                  *)

\* The types of the clocks and queues, of the times in UTC, and of photos and flags.
QueueTypes ==
  /\ m_triggerMode \in TriggerModes
  /\ now \in 0 .. MaxTime
  /\ edges \in Seq(1 .. MaxTime)
  /\ frames \in Seq(1 .. MaxTime) /\ Len(frames) <= MaxRequests

StampTypes ==
  /\ offset \in Offsets /\ monoOffset \in [Threads -> Offsets \cup {0}]
  /\ m_lastPpsNs \in UtcTime /\ frameUtcNs \in UtcTime /\ tag \in UtcTime

FlagTypes ==
  /\ m_ppsPending \in BOOLEAN /\ watch \in {"wait", "adjusted", "pending"}
  /\ complete \in {"idle", "adjusted", "converted", "seen", "accepted", "callback", "save"}
  /\ scanning \in BOOLEAN
  /\ jpgSaveThread \in {"ready", "started", "copied"}

PhotoTypes ==
  /\ lastPhoto \in Photo /\ photos \in Seq(Photo)
  /\ saving \in [name : Photo, image : Photo]
  /\ saved \in [name : Photo, image : Photo, meta : Photo]

LEMMA TypeParts == CameraTypeOK <=> QueueTypes /\ StampTypes /\ FlagTypes /\ PhotoTypes
  BY DEF CameraTypeOK, QueueTypes, StampTypes, FlagTypes, PhotoTypes

\* The threads have their work before them, and a frame that has been converted has
\* its own time.
AtWork ==
  /\ complete # "idle" => frames # << >>
  /\ watch = "adjusted" => edges # << >>
  /\ complete \notin {"idle", "adjusted"} => frameUtcNs.mono = Head(frames)

\* Whatever offset it is converted with, a time keeps its monotonic part.
LEMMA ConvertKeepsTime ==
  ASSUME StampTypes, NEW t \in Threads, NEW mono \in 1 .. MaxTime, NEW stamp,
         Convert(t, mono, stamp)
  PROVE  /\ stamp \in UtcTime /\ stamp.mono = mono
         /\ monoOffset' \in [Threads -> Offsets \cup {0}]
  BY Numbers DEF StampTypes, Convert, UtcTime

LEMMA ZeroIsTime == Zero \in UtcTime /\ NoPhoto \in Photo
  BY Numbers DEF Zero, UtcTime, NoPhoto, Photo

LEMMA HeadsAreTimes ==
  ASSUME QueueTypes
  PROVE  /\ edges # << >> => Head(edges) \in 1 .. MaxTime /\ Tail(edges) \in Seq(1 .. MaxTime)
         /\ frames # << >> => /\ Head(frames) \in 1 .. MaxTime
                              /\ Tail(frames) \in Seq(1 .. MaxTime)
                              /\ Len(Tail(frames)) = Len(frames) - 1
  BY Shortened DEF QueueTypes

LEMMA KeepsFlagTypes ==
  ASSUME FlagTypes, [CameraNext]_cameraVars PROVE FlagTypes'
  BY DEF FlagTypes, CameraNext, cameraVars, timeVars, ppsVars, frameVars, photoVars, saveVars,
    Tick, SetClock, ReceiveMode, AdjustPps, StorePps, StorePending, Goto, Requeue, AdjustFrame,
    ConvertFrame, Drop, KeepFrame, SeePending, CompareFrame, ClearPending, ReplacePhoto,
    StartSave, CopyPhoto, WriteMetadata

LEMMA KeepsQueueTypes ==
  ASSUME QueueTypes, AtWork, [CameraNext]_cameraVars PROVE QueueTypes'
<1> USE Numbers DEF QueueTypes, AtWork, Goto, Requeue, timeVars, ppsVars, frameVars
<1>1. CASE Tick
  <2>1. now' \in 1 .. MaxTime
    BY <1>1 DEF Tick
  <2>2. Append(edges, now') \in Seq(1 .. MaxTime) /\ Append(frames, now') \in Seq(1 .. MaxTime)
        /\ Len(Append(frames, now')) = Len(frames) + 1
    BY <2>1, Extended
  <2>3. edges' \in Seq(1 .. MaxTime)
    BY <1>1, <2>2 DEF Tick
  <2>4. UNCHANGED frames \/ (Len(frames) < MaxRequests /\ frames' = Append(frames, now'))
    BY <1>1 DEF Tick
  <2>5. frames' \in Seq(1 .. MaxTime)
    BY <2>2, <2>4
  <2>6. Len(frames') <= MaxRequests
    BY <2>2, <2>4
  <2>7. now' \in 0 .. MaxTime /\ UNCHANGED m_triggerMode
    BY <1>1, <2>1 DEF Tick
  <2> QED
    BY <2>3, <2>5, <2>6, <2>7
<1>2. CASE StorePps
  <2>1. edges # << >> /\ edges' = Tail(edges) /\ UNCHANGED << m_triggerMode, now, frames >>
    BY <1>2 DEF StorePps
  <2> QED
    BY <2>1, HeadsAreTimes
<1>3. CASE Drop \/ CompareFrame \/ StartSave
  <2>1. /\ frames # << >> /\ UNCHANGED << m_triggerMode, now, edges >>
        /\ UNCHANGED frames \/ frames' = Tail(frames)
    BY <1>3 DEF Drop, CompareFrame, StartSave
  <2>2. frames' \in Seq(1 .. MaxTime)
    BY <2>1, HeadsAreTimes
  <2>3. Len(frames') <= MaxRequests
    BY <2>1, HeadsAreTimes
  <2> QED
    BY <2>1, <2>2, <2>3
<1>4. CASE \/ SetClock \/ ReceiveMode \/ AdjustPps \/ StorePending \/ AdjustFrame
          \/ ConvertFrame \/ KeepFrame \/ SeePending \/ ClearPending \/ ReplacePhoto
          \/ CopyPhoto \/ WriteMetadata \/ UNCHANGED cameraVars
  BY <1>4 DEF SetClock, ReceiveMode, AdjustPps, StorePending, AdjustFrame, ConvertFrame,
    KeepFrame, SeePending, ClearPending, ReplacePhoto, CopyPhoto, WriteMetadata, cameraVars
<1> QED
  BY <1>1, <1>2, <1>3, <1>4 DEF CameraNext

LEMMA KeepsStampTypes ==
  ASSUME QueueTypes, StampTypes, AtWork, [CameraNext]_cameraVars PROVE StampTypes'
<1> USE DEF Goto, Requeue, timeVars, ppsVars, frameVars
<1>0. "pps" \in Threads /\ "frames" \in Threads
  BY DEF Threads
<1>1. CASE SetClock
  BY <1>1 DEF SetClock, StampTypes
<1>2. CASE AdjustPps \/ AdjustFrame
  <2>1. UNCHANGED << offset, m_lastPpsNs, frameUtcNs, tag >>
    BY <1>2 DEF AdjustPps, AdjustFrame
  <2>2. monoOffset' \in [Threads -> Offsets \cup {0}]
    BY <1>2 DEF AdjustPps, AdjustFrame, AdjustSystemClock, StampTypes
  <2> QED
    BY <2>1, <2>2 DEF StampTypes
<1>3. CASE StorePps
  <2>1. Convert("pps", Head(edges), m_lastPpsNs') /\ Head(edges) \in 1 .. MaxTime
    BY <1>3, HeadsAreTimes DEF StorePps, AtWork
  <2>2. UNCHANGED << offset, frameUtcNs, tag >>
    BY <1>3 DEF StorePps
  <2> QED
    BY <1>0, <2>1, <2>2, ConvertKeepsTime DEF StampTypes
<1>4. CASE ConvertFrame
  <2>1. Convert("frames", Head(frames), frameUtcNs') /\ Head(frames) \in 1 .. MaxTime
    BY <1>4, HeadsAreTimes DEF ConvertFrame
  <2>2. UNCHANGED << offset, m_lastPpsNs, tag >>
    BY <1>4 DEF ConvertFrame
  <2> QED
    BY <1>0, <2>1, <2>2, ConvertKeepsTime DEF StampTypes
<1>5. CASE Drop \/ KeepFrame \/ CompareFrame \/ StartSave
  BY <1>5, ZeroIsTime DEF Drop, KeepFrame, CompareFrame, StartSave, StampTypes
<1>6. CASE \/ Tick \/ ReceiveMode \/ StorePending \/ SeePending \/ ClearPending
          \/ ReplacePhoto \/ CopyPhoto \/ WriteMetadata \/ UNCHANGED cameraVars
  BY <1>6 DEF Tick, ReceiveMode, StorePending, SeePending, ClearPending, ReplacePhoto,
    CopyPhoto, WriteMetadata, cameraVars, StampTypes
<1> QED
  BY <1>1, <1>2, <1>3, <1>4, <1>5, <1>6 DEF CameraNext

LEMMA KeepsAtWork ==
  ASSUME QueueTypes, StampTypes, AtWork, [CameraNext]_cameraVars PROVE AtWork'
<1> USE DEF AtWork, Goto, Requeue, timeVars, ppsVars, frameVars
<1>1. CASE Tick
  <2>1. /\ UNCHANGED << complete, watch, frameUtcNs >>
        /\ edges' = edges \/ edges' = Append(edges, now')
        /\ frames' = frames \/ frames' = Append(frames, now')
        /\ now' \in 1 .. MaxTime
    BY <1>1, Numbers DEF Tick, QueueTypes
  <2>2. /\ edges # << >> => edges' # << >>
        /\ frames # << >> => frames' # << >> /\ Head(frames') = Head(frames)
    BY <2>1, Extended DEF QueueTypes
  <2> QED
    BY <2>1, <2>2
<1>2. CASE ConvertFrame
  <2>1. Convert("frames", Head(frames), frameUtcNs') /\ Head(frames) \in 1 .. MaxTime
    BY <1>2, HeadsAreTimes DEF ConvertFrame
  <2>2. "frames" \in Threads
    BY DEF Threads
  <2>3. frameUtcNs'.mono = Head(frames)
    BY <2>1, <2>2, ConvertKeepsTime
  <2> QED
    BY <1>2, <2>3 DEF ConvertFrame
<1>3. CASE \/ AdjustPps \/ StorePps \/ StorePending \/ AdjustFrame \/ Drop \/ KeepFrame
          \/ SeePending \/ CompareFrame \/ ClearPending \/ ReplacePhoto \/ StartSave
  BY <1>3 DEF AdjustPps, StorePps, StorePending, AdjustFrame, Drop, KeepFrame, SeePending,
    CompareFrame, ClearPending, ReplacePhoto, StartSave
<1>4. CASE \/ SetClock \/ ReceiveMode \/ CopyPhoto \/ WriteMetadata \/ UNCHANGED cameraVars
  BY <1>4 DEF SetClock, ReceiveMode, CopyPhoto, WriteMetadata, cameraVars
<1> QED
  BY <1>1, <1>2, <1>3, <1>4 DEF CameraNext

LEMMA KeepsPhotoTypes ==
  ASSUME StampTypes, PhotoTypes, [CameraNext]_cameraVars PROVE PhotoTypes'
<1> USE ZeroIsTime DEF StampTypes, PhotoTypes
<1>1. CASE ReplacePhoto
  <2>1. lastPhoto' \in Photo
    BY <1>1 DEF ReplacePhoto, Photo
  <2> QED
    BY <1>1, <2>1 DEF ReplacePhoto, saveVars
<1>2. CASE StartSave
  <2>1. [frame |-> frameUtcNs, tag |-> tag] \in Photo
    BY DEF Photo
  <2> QED
    BY <1>2, <2>1 DEF StartSave, photoVars
<1>3. CASE CopyPhoto
  BY <1>3 DEF CopyPhoto, photoVars
<1>4. CASE WriteMetadata
  BY <1>4 DEF WriteMetadata, photoVars
<1>5. CASE UNCHANGED << photoVars, saveVars >>
  BY <1>5 DEF photoVars, saveVars
<1> QED
  BY <1>1, <1>2, <1>3, <1>4, <1>5 DEF CameraNext, Tick, SetClock, ReceiveMode, AdjustPps,
    StorePps, StorePending, AdjustFrame, ConvertFrame, Drop, KeepFrame, SeePending,
    CompareFrame, ClearPending, cameraVars

TypeInv == QueueTypes /\ StampTypes /\ FlagTypes /\ PhotoTypes /\ AtWork

LEMMA InitTypes == CameraInit => TypeInv
<1> SUFFICES ASSUME CameraInit PROVE TypeInv
  OBVIOUS
<1> USE Numbers, ZeroIsTime DEF CameraInit
<1>1. QueueTypes
  BY DEF QueueTypes
<1>2. StampTypes
  BY DEF StampTypes
<1>3. FlagTypes
  BY DEF FlagTypes
<1>4. PhotoTypes
  BY DEF PhotoTypes
<1> QED
  BY <1>1, <1>2, <1>3, <1>4 DEF AtWork, TypeInv

LEMMA TypeInvStep == TypeInv /\ [CameraNext]_cameraVars => TypeInv'
  BY KeepsFlagTypes, KeepsQueueTypes, KeepsStampTypes, KeepsPhotoTypes, KeepsAtWork DEF TypeInv

\* Every variable of the process of libcamera keeps its type.
THEOREM CameraTypeCorrect == CameraSpec => []CameraTypeOK
  BY InitTypes, TypeInvStep, TypeParts, PTL DEF CameraSpec, TypeInv

-----------------------------------------------------------------------------
(* Frames and edges come in order.                                         *)

Increasing(s)     == \A i, j \in DOMAIN s : i < j => s[i] < s[j]
Within(s, lo, hi) == \A i \in DOMAIN s : lo < s[i] /\ s[i] <= hi

LEMMA TailInOrder ==
  ASSUME NEW s \in Seq(1 .. MaxTime), s # << >>, NEW lo \in Int, NEW hi \in Int,
         Increasing(s), Within(s, lo, hi)
  PROVE  /\ Increasing(Tail(s)) /\ Within(Tail(s), Head(s), hi)
         /\ lo < Head(s) /\ Head(s) <= hi
  BY Shortened, Numbers DEF Increasing, Within

LEMMA AppendInOrder ==
  ASSUME NEW s \in Seq(1 .. MaxTime), NEW x \in 1 .. MaxTime, NEW lo \in Int, NEW hi \in Int,
         Increasing(s), Within(s, lo, hi), lo < x, hi < x
  PROVE  Increasing(Append(s, x)) /\ Within(Append(s, x), lo, x)
<1>1. /\ DOMAIN Append(s, x) = DOMAIN s \cup {Len(s) + 1}
      /\ \A i \in DOMAIN s : Append(s, x)[i] = s[i] /\ s[i] \in Int /\ i < Len(s) + 1
      /\ Append(s, x)[Len(s) + 1] = x /\ x \in Int
  BY Extended, Numbers
<1>2. Within(Append(s, x), lo, x)
  BY <1>1 DEF Within
<1>3. \A i \in DOMAIN s : s[i] < x
  BY <1>1 DEF Within
<1>4. Increasing(Append(s, x))
  BY <1>1, <1>3 DEF Increasing
<1> QED
  BY <1>2, <1>4

\* Frames that are completed come after the last photo, but for the one it is of
\* while that is being saved; edges come after the last one stored.
LastFrame == IF complete = "save" THEN 0 ELSE lastPhoto.frame.mono

InOrder ==
  /\ Increasing(frames) /\ Within(frames, LastFrame, now)
  /\ complete = "save" => lastPhoto.frame = frameUtcNs
  /\ 0 <= lastPhoto.frame.mono /\ lastPhoto.frame.mono <= now
  /\ Increasing(edges) /\ Within(edges, m_lastPpsNs.mono, now) /\ m_lastPpsNs.mono <= now

LEMMA Times ==
  ASSUME TypeInv
  PROVE  /\ now \in Int /\ now \in 0 .. MaxTime
         /\ m_lastPpsNs \in UtcTime /\ m_lastPpsNs.mono \in Int
         /\ frameUtcNs.mono \in Int /\ tag.mono \in Int
         /\ lastPhoto.frame \in UtcTime /\ lastPhoto.frame.mono \in Int
         /\ frames \in Seq(1 .. MaxTime) /\ edges \in Seq(1 .. MaxTime)
         /\ frames # << >> => Head(frames) \in Int
         /\ edges # << >> => Head(edges) \in Int
<1>1. \A t \in UtcTime : t.mono \in Int
  BY Numbers DEF UtcTime
<1>2. lastPhoto.frame \in UtcTime
  BY DEF TypeInv, PhotoTypes, Photo
<1> QED
  BY <1>1, <1>2, HeadsAreTimes, Numbers DEF TypeInv, QueueTypes, StampTypes

LEMMA InOrderStep ==
  ASSUME TypeInv, InOrder, [CameraNext]_cameraVars PROVE InOrder'
<1>0. /\ now \in Int /\ now \in 0 .. MaxTime /\ m_lastPpsNs.mono \in Int
      /\ lastPhoto.frame.mono \in Int /\ LastFrame \in Int /\ LastFrame <= now
      /\ frames \in Seq(1 .. MaxTime) /\ edges \in Seq(1 .. MaxTime)
  BY Times DEF InOrder, LastFrame
<1>a. frames # << >> => /\ Increasing(Tail(frames)) /\ Within(Tail(frames), Head(frames), now)
                        /\ LastFrame < Head(frames) /\ Head(frames) <= now
                        /\ Head(frames) \in 1 .. MaxTime
  BY <1>0, TailInOrder, Shortened DEF InOrder
<1>b. edges # << >> => /\ Increasing(Tail(edges)) /\ Within(Tail(edges), Head(edges), now)
                       /\ m_lastPpsNs.mono < Head(edges) /\ Head(edges) <= now
                       /\ Head(edges) \in 1 .. MaxTime
  BY <1>0, TailInOrder, Shortened DEF InOrder
<1>c. \A s \in Seq(1 .. MaxTime), lo \in Int, hi \in Int :
        Within(s, lo, hi) => /\ \A less \in Int : less < lo => Within(s, less, hi)
                             /\ \A more \in Int : hi < more => Within(s, lo, more)
  BY Shortened, Numbers DEF Within
<1>1. CASE Tick
  <2>1. /\ now' = now + 1 /\ now' \in 1 .. MaxTime
        /\ UNCHANGED << complete, frameUtcNs, lastPhoto, m_lastPpsNs >>
    BY <1>0, <1>1, Numbers DEF Tick, photoVars
  <2>2. LastFrame' = LastFrame /\ LastFrame < now' /\ m_lastPpsNs.mono < now' /\ now < now'
    BY <1>0, <2>1 DEF LastFrame, InOrder
  <2>3. (frames' = frames \/ frames' = Append(frames, now'))
        /\ (edges' = edges \/ edges' = Append(edges, now'))
    BY <1>1 DEF Tick
  <2>a. /\ Increasing(Append(frames, now')) /\ Within(Append(frames, now'), LastFrame, now')
        /\ Increasing(Append(edges, now'))
        /\ Within(Append(edges, now'), m_lastPpsNs.mono, now')
    BY <1>0, <2>1, <2>2, AppendInOrder DEF InOrder
  <2>b. Within(frames, LastFrame, now') /\ Within(edges, m_lastPpsNs.mono, now')
    BY <1>0, <1>c, <2>1, <2>2 DEF InOrder
  <2>4. Increasing(frames') /\ Within(frames', LastFrame, now')
    BY <2>a, <2>b, <2>3 DEF InOrder
  <2>5. Increasing(edges') /\ Within(edges', m_lastPpsNs.mono, now')
    BY <2>a, <2>b, <2>3 DEF InOrder
  <2> QED
    BY <1>0, <2>1, <2>2, <2>4, <2>5 DEF InOrder
<1>2. CASE StorePps
  <2>1. /\ edges # << >> /\ edges' = Tail(edges)
        /\ Convert("pps", Head(edges), m_lastPpsNs')
        /\ UNCHANGED << now, frames, frameUtcNs, complete, lastPhoto >>
    BY <1>2 DEF StorePps, TypeInv, AtWork, timeVars, frameVars, photoVars
  <2>2. m_lastPpsNs'.mono = Head(edges)
    BY <1>b, <2>1, ConvertKeepsTime DEF Threads, TypeInv
  <2> QED
    BY <1>0, <1>b, <2>1, <2>2 DEF InOrder, LastFrame
<1>3. ASSUME frames # << >>, complete # "save", frames' = Tail(frames), complete' = "idle",
             UNCHANGED << now, ppsVars, photoVars >>
      PROVE  InOrder'
  <2>0. /\ Tail(frames) \in Seq(1 .. MaxTime) /\ Head(frames) \in Int
        /\ lastPhoto.frame.mono < Head(frames)
    BY <1>0, <1>a, <1>3 DEF LastFrame
  <2>1. Within(Tail(frames), lastPhoto.frame.mono, now)
    BY <1>0, <1>a, <1>c, <1>3, <2>0
  <2> QED
    BY <1>0, <1>a, <1>3, <2>1 DEF InOrder, LastFrame, ppsVars, photoVars
<1>4. ASSUME UNCHANGED << now, edges, m_lastPpsNs, frames, photoVars >>,
             \/ UNCHANGED << complete, frameUtcNs >>
             \/ complete # "save" /\ complete' # "save"
      PROVE  InOrder'
  BY <1>4 DEF InOrder, LastFrame, photoVars
<1>5. CASE Drop
  BY <1>3, <1>5 DEF Drop, Requeue, timeVars
<1>6. CASE AdjustFrame \/ ConvertFrame \/ KeepFrame \/ SeePending \/ ClearPending
  <2>1. UNCHANGED << now, edges, m_lastPpsNs, frames, photoVars >>
        /\ complete # "save" /\ complete' # "save"
    BY <1>6 DEF AdjustFrame, ConvertFrame, KeepFrame, SeePending, ClearPending, Goto, timeVars,
      ppsVars
  <2> QED
    BY <1>4, <2>1
<1>7. CASE CompareFrame
  <2>1. complete = "seen" /\ frames # << >> /\ UNCHANGED << now, ppsVars, photoVars >>
        /\ \/ complete' = "accepted" /\ UNCHANGED frames
           \/ frames' = Tail(frames) /\ complete' = "idle"
    BY <1>7 DEF CompareFrame, Requeue, TypeInv, AtWork, timeVars
  <2> QED
    BY <1>3, <1>4, <2>1 DEF ppsVars
<1>8. CASE ReplacePhoto
  <2>1. /\ frames # << >> /\ complete = "callback" /\ complete' = "save"
        /\ lastPhoto'.frame = frameUtcNs
        /\ UNCHANGED << now, edges, m_lastPpsNs, frames, frameUtcNs >>
    BY <1>8 DEF ReplacePhoto, Goto, timeVars, ppsVars
  <2>2. Within(frames, 0, now)
    BY <1>0, <1>c, <2>1 DEF InOrder, LastFrame
  <2>3. frameUtcNs.mono = Head(frames)
    BY <2>1 DEF TypeInv, AtWork
  <2> QED
    BY <1>0, <1>a, <2>1, <2>2, <2>3 DEF InOrder, LastFrame
<1>9. CASE StartSave
  <2>1. /\ complete = "save" /\ frames # << >> /\ frames' = Tail(frames) /\ complete' = "idle"
        /\ UNCHANGED << now, edges, m_lastPpsNs, lastPhoto >>
        /\ frameUtcNs.mono = Head(frames)
    BY <1>9 DEF StartSave, Requeue, TypeInv, AtWork, timeVars, ppsVars, photoVars
  <2> QED
    BY <1>0, <1>a, <2>1 DEF InOrder, LastFrame
<1>10. CASE \/ SetClock \/ ReceiveMode \/ AdjustPps \/ StorePending \/ CopyPhoto
           \/ WriteMetadata \/ UNCHANGED cameraVars
  <2>1. UNCHANGED << now, edges, m_lastPpsNs, frames, photoVars, complete, frameUtcNs >>
    BY <1>10 DEF SetClock, ReceiveMode, AdjustPps, StorePending, CopyPhoto, WriteMetadata,
      cameraVars, timeVars, ppsVars, frameVars
  <2> QED
    BY <1>4, <2>1
<1> QED
  BY <1>1, <1>2, <1>5, <1>6, <1>7, <1>8, <1>9, <1>10 DEF CameraNext

LEMMA HeadsAhead ==
  ASSUME TypeInv, InOrder
  PROVE  /\ frames # << >> /\ complete # "save" => lastPhoto.frame.mono < Head(frames)
         /\ edges # << >> => m_lastPpsNs.mono < Head(edges)
  BY Times, Shortened, Numbers DEF InOrder, Within, LastFrame

-----------------------------------------------------------------------------
(* What is saved belongs together.                                         *)

\* A photo is replaced by a later one only.
LEMMA LaterPhoto ==
  ASSUME TypeInv, InOrder, [CameraNext]_cameraVars
  PROVE  lastPhoto.frame.mono <= lastPhoto'.frame.mono
<1>1. CASE ReplacePhoto
  <2>1. /\ complete = "callback" /\ frames # << >> /\ lastPhoto'.frame = frameUtcNs
        /\ frameUtcNs.mono = Head(frames)
    BY <1>1 DEF ReplacePhoto, Goto, TypeInv, AtWork
  <2> QED
    BY <2>1, HeadsAhead, Times
<1>2. CASE UNCHANGED lastPhoto
  BY <1>2, Times
<1> QED
  BY <1>1, <1>2 DEF CameraNext, Tick, SetClock, ReceiveMode, AdjustPps, StorePps, StorePending,
    AdjustFrame, ConvertFrame, Drop, KeepFrame, SeePending, CompareFrame, ClearPending,
    StartSave, CopyPhoto, WriteMetadata, cameraVars, photoVars

\* The file that is being saved is named after the photo before it is copied or an
\* earlier one, and holds the last photo or an earlier one from then on.
SaveFits ==
  /\ jpgSaveThread = "started" => saving.name.frame.mono <= lastPhoto.frame.mono
  /\ jpgSaveThread = "copied" => /\ saving.name.frame.mono <= saving.image.frame.mono
                                 /\ saving.image.frame.mono <= lastPhoto.frame.mono
  /\ SavedNotOlder

LEMMA SaveFitsStep ==
  ASSUME TypeInv, TypeInv', InOrder, SaveFits, [CameraNext]_cameraVars
  PROVE  SaveFits'
<1> USE DEF SaveFits, SavedNotOlder
<1>0. /\ saving.name.frame.mono \in Int /\ saving.image.frame.mono \in Int
      /\ lastPhoto.frame.mono \in Int /\ lastPhoto'.frame.mono \in Int
      /\ saving = [name |-> saving.name, image |-> saving.image]
      /\ lastPhoto.frame.mono <= lastPhoto'.frame.mono
  BY LaterPhoto, Times, Numbers DEF TypeInv, PhotoTypes, Photo, UtcTime
<1>1. CASE StartSave
  <2>1. \/ jpgSaveThread' = "started" /\ saving'.name.frame = frameUtcNs
        \/ UNCHANGED << jpgSaveThread, saving >>
    BY <1>1 DEF StartSave
  <2>2. lastPhoto.frame = frameUtcNs
    BY <1>1 DEF StartSave, InOrder
  <2> QED
    BY <1>0, <1>1, <2>1, <2>2 DEF StartSave, photoVars
<1>2. CASE CopyPhoto
  <2>1. jpgSaveThread = "started" /\ jpgSaveThread' = "copied"
        /\ saving'.name = saving.name /\ saving'.image = lastPhoto
        /\ lastPhoto' = lastPhoto /\ saved' = saved
    BY <1>0, <1>2 DEF CopyPhoto, photoVars
  <2> QED
    BY <1>0, <2>1
<1>3. CASE WriteMetadata
  <2>1. /\ jpgSaveThread = "copied" /\ jpgSaveThread' = "ready"
        /\ saved'.name = saving.name /\ saved'.image = saving.image /\ saved'.meta = lastPhoto
    BY <1>3 DEF WriteMetadata
  <2> QED
    BY <1>0, <2>1
<1>4. CASE UNCHANGED saveVars
  BY <1>0, <1>4 DEF saveVars
<1> QED
  BY <1>1, <1>2, <1>3, <1>4 DEF CameraNext, Tick, SetClock, ReceiveMode, AdjustPps, StorePps,
    StorePending, AdjustFrame, ConvertFrame, Drop, KeepFrame, SeePending, CompareFrame,
    ClearPending, ReplacePhoto, cameraVars

CameraInv == TypeInv /\ InOrder /\ SaveFits

LEMMA CameraInvHolds == CameraSpec => []CameraInv
<1>1. CameraInit => CameraInv
  <2> SUFFICES ASSUME CameraInit PROVE InOrder /\ SaveFits
    BY InitTypes DEF CameraInv
  <2>1. InOrder
    BY DEF CameraInit, InOrder, Increasing, Within, NoPhoto, Zero
  <2> QED
    BY <2>1 DEF CameraInit, SaveFits, SavedNotOlder, NoPhoto, Zero
<1>2. CameraInv /\ [CameraNext]_cameraVars => CameraInv'
  BY TypeInvStep, InOrderStep, SaveFitsStep DEF CameraInv
<1> QED
  BY <1>1, <1>2, PTL DEF CameraSpec

\* However many photos come while one is being saved, its file holds no photo from
\* before its name and no metadata from before its photo.
THEOREM FilesNotOlder == CameraSpec => []SavedNotOlder
<1>1. CameraInv => SavedNotOlder
  BY DEF CameraInv, SaveFits
<1> QED
  BY <1>1, CameraInvHolds, PTL

-----------------------------------------------------------------------------
(* Photos follow the edges.                                                *)

\* All photos are those made and the one in the making.  The last of them, and the
\* one before, may be of the last edge.
Edge(i)    == photos[i].tag.mono
LastEdge   == m_lastPpsNs.mono
Making     == complete \in {"accepted", "callback"}
LastIs(e)  == IF Making THEN tag.mono = e ELSE photos # << >> /\ Edge(Len(photos)) = e
SecondIs(e) == IF Making THEN photos # << >> /\ Edge(Len(photos)) = e
               ELSE Len(photos) > 1 /\ Edge(Len(photos) - 1) = e

\* Near, where both times were converted with the same offset.
NearAlike(frame, edge) ==
  frame.offset = edge.offset =>
    frame.mono - edge.mono < MaxFrameAge /\ edge.mono - frame.mono < MaxFrameAge

LEMMA NearIsNear ==
  ASSUME NEW frame \in UtcTime, NEW edge \in UtcTime, Near(frame, edge)
  PROVE  NearAlike(frame, edge)
<1> SUFFICES ASSUME frame.offset = edge.offset
             PROVE  frame.mono - edge.mono < MaxFrameAge /\ edge.mono - frame.mono < MaxFrameAge
  BY DEF NearAlike
<1> DEFINE f == frame.mono  e == edge.mono  o == edge.offset
<1>1. (f + o) - (e + o) < MaxFrameAge /\ (e + o) - (f + o) < MaxFrameAge
  BY DEF Near, Utc
<1>2. f \in 0 .. MaxTime /\ e \in 0 .. MaxTime /\ o \in Offsets \cup {0}
  BY DEF UtcTime
<1> HIDE DEF f, e, o
<1>3. f - e < MaxFrameAge /\ e - f < MaxFrameAge
  <2>1. f \in Int /\ e \in Int
    BY <1>2, Numbers
  <2>2. o \in Int /\ MaxFrameAge \in Int
    BY <1>2, Numbers
  <2> QED
    BY <1>1, <2>1, <2>2
<1> QED
  BY <1>3 DEF f, e

\* The flag is down, or will be, and no frame has passed it.
FlagDown == complete = "accepted" \/ (~m_ppsPending /\ complete # "seen")

\* PhotosFollowEdges does not say why a third photo of an edge is impossible: once
\* there are two, the flag has been raised for that edge and taken down again.
\* After the first of them one of the two is still possible.
EdgesUsed ==
  /\ \A i \in DOMAIN photos : Edge(i) <= LastEdge
  /\ Making => /\ tag.mono <= LastEdge /\ NearAlike(frameUtcNs, tag)
               /\ photos # << >> => Edge(Len(photos)) <= tag.mono
               /\ Len(photos) > 1 => Edge(Len(photos) - 1) < tag.mono
  /\ LastIs(LastEdge) => watch # "pending" \/ FlagDown
  /\ SecondIs(LastEdge) => watch # "pending" /\ FlagDown

FollowInv == m_triggerMode = "NEAREST_FRAME" => PhotosFollowEdges /\ EdgesUsed

LEMMA FollowStep ==
  ASSUME TypeInv, InOrder, FollowInv, [CameraNext]_cameraVars PROVE FollowInv'
<1> SUFFICES ASSUME m_triggerMode' = "NEAREST_FRAME"
             PROVE  PhotosFollowEdges' /\ EdgesUsed'
  BY DEF FollowInv
<1>0. m_triggerMode = "NEAREST_FRAME"
  BY DEF CameraNext, Tick, SetClock, ReceiveMode, AdjustPps, StorePps, StorePending,
    AdjustFrame, ConvertFrame, Drop, KeepFrame, SeePending, CompareFrame, ClearPending,
    ReplacePhoto, StartSave, CopyPhoto, WriteMetadata, cameraVars
<1>a. PhotosFollowEdges /\ EdgesUsed
  BY <1>0 DEF FollowInv
<1>b. /\ photos \in Seq(Photo) /\ Len(photos) \in Nat /\ DOMAIN photos = 1 .. Len(photos)
      /\ photos # << >> => Len(photos) > 0
      /\ \A i \in DOMAIN photos : Edge(i) \in Int
  <2>1. photos \in Seq(Photo)
    BY DEF TypeInv, PhotoTypes
  <2>2. \A i \in DOMAIN photos : photos[i] \in Photo
    BY <2>1
  <2>3. Len(photos) \in Nat /\ DOMAIN photos = 1 .. Len(photos) /\ (photos # << >> => Len(photos) > 0)
    BY <2>1
  <2>4. \A p \in Photo : p.tag.mono \in Int
    BY Numbers DEF Photo, UtcTime
  <2> QED
    BY <2>1, <2>2, <2>3, <2>4 DEF Edge
<1>c. UNCHANGED photos => PhotosFollowEdges' /\ (\A i : Edge(i)' = Edge(i))
  <2> SUFFICES ASSUME UNCHANGED photos PROVE PhotosFollowEdges' /\ (\A i : Edge(i)' = Edge(i))
    OBVIOUS
  <2> QED
    BY <1>0, <1>a DEF PhotosFollowEdges, Edge
<1> USE DEF EdgesUsed, LastIs, SecondIs, Making, FlagDown, LastEdge
<1>1. CASE \/ Tick \/ SetClock \/ ReceiveMode \/ CopyPhoto \/ WriteMetadata
          \/ UNCHANGED cameraVars
  <2>1. UNCHANGED << m_lastPpsNs, m_ppsPending, watch, complete, frameUtcNs, tag, photos >>
    BY <1>1 DEF Tick, SetClock, ReceiveMode, CopyPhoto, WriteMetadata, cameraVars, ppsVars,
      frameVars, photoVars
  <2> QED
    BY <1>a, <1>c, <2>1
<1>2. CASE StorePps
  <2>1. /\ edges # << >> /\ Convert("pps", Head(edges), m_lastPpsNs')
        /\ UNCHANGED << complete, frameUtcNs, tag, photos >>
    BY <1>2 DEF StorePps, TypeInv, AtWork, frameVars, photoVars
  <2>2. /\ LastEdge < m_lastPpsNs'.mono /\ LastEdge \in Int /\ m_lastPpsNs'.mono \in Int
        /\ tag.mono \in Int
    BY <2>1, HeadsAhead, HeadsAreTimes, ConvertKeepsTime, Times DEF Threads, TypeInv
  <2>3. \A i \in DOMAIN photos : Edge(i) < m_lastPpsNs'.mono
    BY <1>a, <1>b, <2>2
  <2>4. ~LastIs(LastEdge)' /\ ~SecondIs(LastEdge)'
    BY <1>a, <1>b, <1>c, <2>1, <2>2, <2>3
  <2> QED
    BY <1>a, <1>b, <1>c, <2>1, <2>2, <2>3, <2>4
<1>3. CASE AdjustPps \/ StorePending
  <2>1. UNCHANGED << m_lastPpsNs, complete, frameUtcNs, tag, photos >>
        /\ \/ watch' = "adjusted" /\ UNCHANGED m_ppsPending
           \/ watch = "pending" /\ watch' = "wait"
    BY <1>3 DEF AdjustPps, StorePending, frameVars, photoVars
  <2> QED
    BY <1>a, <1>c, <2>1
<1>4. CASE AdjustFrame \/ ConvertFrame \/ Drop \/ SeePending \/ StartSave
  <2>1. /\ UNCHANGED << ppsVars, photos >>
        /\ complete \in {"idle", "adjusted", "converted", "save"}
        /\ \/ complete' \in {"idle", "adjusted", "converted"}
           \/ complete' = "seen" /\ m_ppsPending
    BY <1>0, <1>4 DEF AdjustFrame, ConvertFrame, Drop, SeePending, StartSave, Goto, Requeue,
      photoVars
  <2> QED
    BY <1>a, <1>c, <2>1 DEF ppsVars
<1>5. CASE CompareFrame
  <2>1. UNCHANGED << ppsVars, photos >> /\ complete = "seen"
    BY <1>5 DEF CompareFrame, photoVars
  <2>2. CASE complete' = "accepted" /\ tag' = m_lastPpsNs /\ UNCHANGED frameUtcNs
             /\ Near(frameUtcNs, m_lastPpsNs)
    <3>1. NearAlike(frameUtcNs, tag)'
      BY <2>2, NearIsNear DEF NearAlike, TypeInv, StampTypes
    <3>2. UNCHANGED << watch, m_lastPpsNs, m_ppsPending, photos >> /\ ~FlagDown /\ ~Making
      BY <2>1 DEF ppsVars
    <3>3. tag'.mono = LastEdge /\ LastEdge \in Int
      BY <2>2, Times DEF TypeInv
    <3>4. photos # << >> => Edge(Len(photos)) <= LastEdge
      BY <1>a, <1>b
    <3>5. Len(photos) > 1 => Edge(Len(photos) - 1) < LastEdge
      <4>1. Len(photos) > 1 => Len(photos) - 1 \in DOMAIN photos
        BY <1>b
      <4>2. Len(photos) > 1 => Edge(Len(photos) - 1) # LastEdge
        BY <1>a, <3>2
      <4> QED
        BY <1>a, <1>b, <3>3, <4>1, <4>2
    <3>6. SecondIs(LastEdge)' => watch # "pending"
      BY <1>a, <1>c, <2>1, <2>2, <3>2
    <3> QED
      BY <1>a, <1>b, <1>c, <2>1, <2>2, <3>1, <3>2, <3>3, <3>4, <3>5, <3>6
  <2>3. CASE complete' = "idle"
    BY <1>a, <1>c, <2>1, <2>3 DEF ppsVars
  <2> QED
    BY <1>5, <2>2, <2>3 DEF CompareFrame, Requeue
<1>6. CASE ClearPending
  <2>1. /\ UNCHANGED << m_lastPpsNs, watch, frameUtcNs, tag, photos >>
        /\ complete = "accepted" /\ complete' = "callback" /\ ~m_ppsPending'
    BY <1>6 DEF ClearPending, Goto, photoVars
  <2> QED
    BY <1>a, <1>c, <2>1
<1>7. CASE ReplacePhoto
  <2> DEFINE photo == [frame |-> frameUtcNs, tag |-> tag]
             n     == Len(photos)
  <2>1. /\ UNCHANGED << ppsVars, tag >>
        /\ complete = "callback" /\ complete' = "save" /\ photos' = Append(photos, photo)
    BY <1>7 DEF ReplacePhoto, Goto
  <2>2. photo \in Photo
    BY DEF Photo, TypeInv, StampTypes
  <2>3. /\ Len(photos') = n + 1 /\ photos' # << >> /\ DOMAIN photos' = DOMAIN photos \cup {n + 1}
        /\ \A i \in DOMAIN photos : photos'[i] = photos[i] /\ i < n + 1
        /\ photos'[n + 1].frame = frameUtcNs /\ photos'[n + 1].tag = tag
    BY <1>b, <2>1, <2>2, Extended
  <2> HIDE DEF photo
  <2>4. PhotosFollowEdges'
    <3> SUFFICES ASSUME NEW i \in DOMAIN photos'
                 PROVE  /\ i > 1 => photos'[i - 1].tag.mono <= photos'[i].tag.mono
                        /\ i > 2 => photos'[i - 2].tag.mono < photos'[i].tag.mono
                        /\ NearAlike(photos'[i].frame, photos'[i].tag)
      BY DEF PhotosFollowEdges, NearAlike
    <3>1. CASE i \in DOMAIN photos
      <4>1. i > 1 => i - 1 \in DOMAIN photos
        BY <1>b, <3>1
      <4>2. i > 2 => i - 2 \in DOMAIN photos
        BY <1>b, <3>1
      <4> QED
        BY <1>0, <1>a, <2>3, <3>1, <4>1, <4>2 DEF PhotosFollowEdges, NearAlike
    <3>2. CASE i = n + 1
      <4>1. i > 1 => i - 1 = n /\ n \in DOMAIN photos /\ photos # << >>
        BY <1>b, <3>2
      <4>2. i > 2 => i - 2 = n - 1 /\ n - 1 \in DOMAIN photos /\ n > 1
        BY <1>b, <3>2
      <4> QED
        BY <1>a, <2>1, <2>3, <3>2, <4>1, <4>2 DEF Edge
    <3> QED
      BY <2>3, <3>1, <3>2
  <2>5. \A i \in DOMAIN photos' : Edge(i)' <= LastEdge
    BY <1>a, <2>1, <2>3 DEF Edge
  <2>6. n > 0 => /\ photos # << >> /\ n \in DOMAIN photos /\ Len(photos') - 1 = n
                /\ photos'[Len(photos') - 1] = photos[Len(photos)]
    BY <1>b, <2>3
  <2>7. LastEdge' = LastEdge /\ Making /\ ~Making' /\ (Len(photos') > 1 => n > 0)
    BY <1>b, <2>1, <2>3 DEF ppsVars
  <2>8. LastIs(LastEdge)' => LastIs(LastEdge)
    BY <1>b, <2>3, <2>7 DEF Edge
  <2>9. SecondIs(LastEdge)' => SecondIs(LastEdge)
    BY <2>6, <2>7 DEF Edge
  <2> QED
    BY <1>a, <2>1, <2>4, <2>5, <2>8, <2>9 DEF ppsVars
<1>8. ~KeepFrame
  BY <1>0 DEF KeepFrame
<1> QED
  BY <1>1, <1>2, <1>3, <1>4, <1>5, <1>6, <1>7, <1>8 DEF CameraNext

\* However edges, their two stores and frames fall, however the clock is set and for
\* any number of photos, the photos are tagged by the edges in their order, by each
\* at most twice, and near it where frame and edge were converted alike.
THEOREM EdgesFollowed == CameraSpec => []PhotosFollowEdges
<1>1. CameraInit => FollowInv
  BY DEF CameraInit, FollowInv, PhotosFollowEdges, EdgesUsed, Making, LastIs, SecondIs
<1>2. CameraInv /\ FollowInv /\ [CameraNext]_cameraVars => FollowInv'
  BY FollowStep DEF CameraInv
<1>3. FollowInv => PhotosFollowEdges
  BY DEF FollowInv, PhotosFollowEdges
<1> QED
  BY <1>1, <1>2, <1>3, CameraInvHolds, PTL DEF CameraSpec

-----------------------------------------------------------------------------
(* The composition.                                                        *)

\* The processes of rtkNmea and libcamera, composed with the publisher, behave as
\* they do alone: what is proved of each holds of every run of MCPeripherals.
THEOREM Composition == Spec => RtkSpec /\ CameraSpec
<1>1. Init => RtkInit /\ CameraInit
  BY DEF Init
<1>2. [Next]_allVars => [RtkNext]_rtkVars /\ [CameraNext]_cameraVars
  <2>1. CASE Next
    <3> SUFFICES ASSUME Next PROVE (RtkNext \/ UNCHANGED rtkVars) /\ (CameraNext \/ UNCHANGED cameraVars)
      BY <2>1
    <3> QED
      BY Zenon DEF Next, RtkNext
  <2>2. CASE UNCHANGED allVars
    BY <2>2 DEF allVars
  <2> QED
    BY <2>1, <2>2
<1> QED
  BY <1>1, <1>2, PTL DEF Spec, RtkSpec, CameraSpec

\* Every variable of the publisher and of its two subscribers keeps its type, for
\* any number of restarts, reports, sentences, edges and frames.
THEOREM PeripheralsTyped == Spec => []TypeOK
<1> DEFINE Part == part \in {"publisher", "rtkNmea", "libcamera"}
<1>1. Init => Part
  BY DEF Init
<1>2. Part /\ [Next]_allVars => Part'
  BY DEF Next, allVars
<1>3. Part /\ RtkTypeOK /\ CameraTypeOK => TypeOK
  BY DEF TypeOK
<1> HIDE DEF Part
<1> QED
  BY <1>1, <1>2, <1>3, Composition, RtkTypeCorrect, CameraTypeCorrect, PTL DEF Spec

=============================================================================
