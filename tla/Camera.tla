------------------------------- MODULE Camera -------------------------------
(***************************************************************************)
(* The process of extras/libcamera: LibCameraWrapper chooses frames by the *)
(* edges of the PPS signal and tags them, printFrame() keeps the last      *)
(* photo and saves photos in the background while a scan runs.             *)
(*                                                                         *)
(* Four threads: ppsWatchThread(), the thread of libcamera that runs       *)
(* requestComplete() and the callback in it, the one that saves, and       *)
(* clientThread(), which follows the mode of the controller.  Frames and   *)
(* edges are stamped by CLOCK_MONOTONIC, in ticks; an edge comes every     *)
(* Period of them.  AdjustSystemClock() computes anew for each what        *)
(* converts it to UTC, from CLOCK_REALTIME, which may be set meanwhile.    *)
(***************************************************************************)
EXTENDS Integers, Sequences

CONSTANTS
  Period,       \* ticks between two edges
  MaxFrameAge,  \* m_maxFrameAgeNs
  MaxRequests,  \* the requests, each with its buffer
  Offsets,      \* how far CLOCK_REALTIME may be ahead of CLOCK_MONOTONIC
  MaxTime       \* bound: how many ticks are followed

ASSUME CameraAssumption ==
  /\ {Period, MaxFrameAge, MaxRequests, MaxTime} \subseteq Nat \ {0}
  /\ Offsets \subseteq Nat \ {0}     \* assert(real_ns > mono_ns)

TriggerModes == {"INTERNAL", "NEAREST_FRAME", "XVS_HARD"}

VARIABLES
  m_triggerMode,
  now,            \* CLOCK_MONOTONIC
  offset,         \* by how much CLOCK_REALTIME is ahead of it
  monoOffset,     \* the offset a thread has computed and not used yet, or 0
  edges,          \* edges the kernel has queued for ppsWatchThread()
  m_lastPpsNs, m_ppsPending,
  watch,          \* "wait" for an edge, or before one of the two stores
  frames,         \* requests that are completed and not yet queued again
  complete,       \* where requestComplete() is
  frameUtcNs, tag,   \* tag: reportTimestampNs
  scanning,       \* the mode is SCANNING
  lastPhoto,      \* lastPhoto and photoMetadata, replaced together
  jpgSaveThread,  \* where the background save is
  saving,         \* the photo its file is named after, its copy of the photo
  saved,          \* the last file saved: name, image, metadata
  photos          \* history: all photos the callback was called with

timeVars   == << now, offset >>
ppsVars    == << edges, m_lastPpsNs, m_ppsPending, watch >>
frameVars  == << frames, complete, frameUtcNs, tag >>
photoVars  == << lastPhoto, photos >>
saveVars   == << jpgSaveThread, saving, saved >>
cameraVars == << m_triggerMode, timeVars, monoOffset, ppsVars, frameVars, scanning,
                 photoVars, saveVars >>

Threads == {"pps", "frames"}

\* A time in UTC is the monotonic one and the offset it was converted with.
UtcTime == [mono : 0 .. MaxTime, offset : Offsets \cup {0}]
Zero    == [mono |-> 0, offset |-> 0]
Utc(t)  == t.mono + t.offset

\* A file is named after the tag of its photo.
Photo   == [frame : UtcTime, tag : UtcTime]
NoPhoto == [frame |-> Zero, tag |-> Zero]

CameraTypeOK ==
  /\ m_triggerMode \in TriggerModes
  /\ now \in 0 .. MaxTime
  /\ offset \in Offsets /\ monoOffset \in [Threads -> Offsets \cup {0}]
  /\ edges \in Seq(1 .. MaxTime) /\ m_lastPpsNs \in UtcTime
  /\ m_ppsPending \in BOOLEAN /\ watch \in {"wait", "adjusted", "pending"}
  /\ frames \in Seq(1 .. MaxTime) /\ Len(frames) <= MaxRequests
  /\ complete \in {"idle", "adjusted", "converted", "seen", "accepted", "callback", "save"}
  /\ frameUtcNs \in UtcTime /\ tag \in UtcTime
  /\ scanning \in BOOLEAN
  /\ lastPhoto \in Photo /\ photos \in Seq(Photo)
  /\ jpgSaveThread \in {"ready", "started", "copied"}
  /\ saving \in [name : Photo, image : Photo]
  /\ saved \in [name : Photo, image : Photo, meta : Photo]

CameraInit ==
  /\ m_triggerMode \in TriggerModes
  /\ now = 0
  /\ offset \in Offsets /\ monoOffset = [t \in Threads |-> 0]
  /\ edges = << >> /\ m_lastPpsNs = Zero /\ m_ppsPending = FALSE /\ watch = "wait"
  /\ frames = << >> /\ complete = "idle" /\ frameUtcNs = Zero /\ tag = Zero
  /\ scanning = FALSE
  /\ lastPhoto = NoPhoto /\ photos = << >>
  /\ jpgSaveThread = "ready" /\ saving = [name |-> NoPhoto, image |-> NoPhoto]
  /\ saved = [name |-> NoPhoto, image |-> NoPhoto, meta |-> NoPhoto]

-----------------------------------------------------------------------------
(* The world.                                                              *)

\* A tick, with an edge when it is time for one, which is not watched in INTERNAL
\* mode, and with a frame when a request is queued.  In XVS_HARD mode the edges
\* start the frames.
Tick ==
  /\ now < MaxTime /\ now' = now + 1
  /\ LET edge == now' % Period = 0 IN
     /\ edges' = IF edge /\ m_triggerMode # "INTERNAL" THEN Append(edges, now') ELSE edges
     /\ \/ /\ Len(frames) < MaxRequests
           /\ m_triggerMode = "XVS_HARD" => edge
           /\ frames' = Append(frames, now')
        \/ UNCHANGED frames
  /\ UNCHANGED << m_triggerMode, offset, monoOffset, m_lastPpsNs, m_ppsPending, watch,
                  complete, frameUtcNs, tag, scanning, photoVars, saveVars >>

\* CLOCK_REALTIME is set, forward or back.
SetClock ==
  /\ offset' \in Offsets \ {offset}
  /\ UNCHANGED << m_triggerMode, now, monoOffset, ppsVars, frameVars, scanning, photoVars,
                  saveVars >>

\* clientThread()
ReceiveMode ==
  /\ scanning' = ~scanning
  /\ UNCHANGED << m_triggerMode, timeVars, monoOffset, ppsVars, frameVars, photoVars,
                  saveVars >>

\* AdjustSystemClock() up to the store into m_monoOffset.
AdjustSystemClock(t) == monoOffset' = [monoOffset EXCEPT ![t] = offset]

\* That store and the load after it: both threads use m_monoOffset without a lock,
\* so that a thread may get what the other is just storing.
Convert(t, mono, stamp) ==
  /\ stamp \in {[mono |-> mono, offset |-> monoOffset[u]] :
                  u \in {v \in Threads : monoOffset[v] # 0}}
  /\ monoOffset' = [monoOffset EXCEPT ![t] = 0]

-----------------------------------------------------------------------------
(* ppsWatchThread()                                                        *)

AdjustPps ==
  /\ watch = "wait" /\ edges # << >>
  /\ watch' = "adjusted"
  /\ AdjustSystemClock("pps")
  /\ UNCHANGED << m_triggerMode, timeVars, edges, m_lastPpsNs, m_ppsPending, frameVars,
                  scanning, photoVars, saveVars >>

StorePps ==
  /\ watch = "adjusted" /\ watch' = "pending"
  /\ Convert("pps", Head(edges), m_lastPpsNs')
  /\ edges' = Tail(edges)
  /\ UNCHANGED << m_triggerMode, timeVars, m_ppsPending, frameVars, scanning, photoVars,
                  saveVars >>

StorePending ==
  /\ watch = "pending" /\ watch' = "wait"
  /\ m_ppsPending' = TRUE
  /\ UNCHANGED << m_triggerMode, timeVars, monoOffset, edges, m_lastPpsNs, frameVars,
                  scanning, photoVars, saveVars >>

-----------------------------------------------------------------------------
(* requestComplete()                                                       *)

Goto(here, there) == complete = here /\ frames # << >> /\ complete' = there

\* The request is queued again, and the function ends.
Requeue ==
  /\ frames' = Tail(frames)
  /\ complete' = "idle" /\ frameUtcNs' = Zero /\ tag' = Zero

AdjustFrame ==
  /\ Goto("idle", "adjusted")
  /\ AdjustSystemClock("frames")
  /\ UNCHANGED << m_triggerMode, timeVars, ppsVars, frames, frameUtcNs, tag, scanning,
                  photoVars, saveVars >>

ConvertFrame ==
  /\ Goto("adjusted", "converted")
  /\ Convert("frames", Head(frames), frameUtcNs')
  /\ UNCHANGED << m_triggerMode, timeVars, ppsVars, frames, tag, scanning, photoVars,
                  saveVars >>

Drop ==
  /\ complete = "converted" /\ frames # << >>
  /\ m_triggerMode = "INTERNAL" \/ (m_triggerMode = "NEAREST_FRAME" /\ ~m_ppsPending)
  /\ Requeue
  /\ UNCHANGED << m_triggerMode, timeVars, monoOffset, ppsVars, scanning, photoVars,
                  saveVars >>

\* In INTERNAL mode some of the frames are kept, by the time between them.
KeepFrame ==
  /\ Goto("converted", "callback")
  /\ \/ m_triggerMode = "INTERNAL" /\ tag' = frameUtcNs
     \/ m_triggerMode = "XVS_HARD" /\ tag' = m_lastPpsNs
  /\ UNCHANGED << m_triggerMode, timeVars, monoOffset, ppsVars, frames, frameUtcNs,
                  scanning, photoVars, saveVars >>

SeePending ==
  /\ Goto("converted", "seen")
  /\ m_triggerMode = "NEAREST_FRAME" /\ m_ppsPending
  /\ UNCHANGED << m_triggerMode, timeVars, monoOffset, ppsVars, frames, frameUtcNs, tag,
                  scanning, photoVars, saveVars >>

Near(frame, pps) ==
  Utc(frame) - Utc(pps) < MaxFrameAge /\ Utc(pps) - Utc(frame) < MaxFrameAge

CompareFrame ==
  /\ complete = "seen"
  /\ IF Near(frameUtcNs, m_lastPpsNs)
       THEN complete' = "accepted" /\ tag' = m_lastPpsNs /\ UNCHANGED << frames, frameUtcNs >>
       ELSE Requeue
  /\ UNCHANGED << m_triggerMode, timeVars, monoOffset, ppsVars, scanning, photoVars,
                  saveVars >>

\* Mutant: the flag is left to capture().
KeepPending ==
  /\ Goto("accepted", "callback")
  /\ UNCHANGED << m_triggerMode, timeVars, monoOffset, ppsVars, frames, frameUtcNs, tag,
                  scanning, photoVars, saveVars >>

ClearPending ==
  /\ Goto("accepted", "callback")
  /\ m_ppsPending' = FALSE
  /\ UNCHANGED << m_triggerMode, timeVars, monoOffset, edges, m_lastPpsNs, watch, frames,
                  frameUtcNs, tag, scanning, photoVars, saveVars >>

-----------------------------------------------------------------------------
(* printFrame(), called by requestComplete()                               *)

ReplacePhoto ==
  /\ Goto("callback", "save")
  /\ lastPhoto' = [frame |-> frameUtcNs, tag |-> tag]
  /\ photos' = Append(photos, lastPhoto')
  /\ UNCHANGED << m_triggerMode, timeVars, monoOffset, ppsVars, frames, frameUtcNs, tag,
                  scanning, saveVars >>

\* Skipped while the photo before is being saved.
StartSave ==
  /\ complete = "save"
  /\ Requeue
  /\ IF scanning /\ jpgSaveThread = "ready"
       THEN /\ jpgSaveThread' = "started"
            /\ saving' = [name |-> [frame |-> frameUtcNs, tag |-> tag], image |-> NoPhoto]
       ELSE UNCHANGED << jpgSaveThread, saving >>
  /\ UNCHANGED << m_triggerMode, timeVars, monoOffset, ppsVars, scanning, photoVars, saved >>

\* The save copies the photo under the mutex ...
CopyPhoto ==
  /\ jpgSaveThread = "started" /\ jpgSaveThread' = "copied"
  /\ saving' = [saving EXCEPT !.image = lastPhoto]
  /\ UNCHANGED << m_triggerMode, timeVars, monoOffset, ppsVars, frameVars, scanning,
                  photoVars, saved >>

\* Mutant: the metadata are copied first and the photo is taken last.
WritePhotoLast ==
  /\ jpgSaveThread = "copied" /\ jpgSaveThread' = "ready"
  /\ saved' = [name |-> saving.name, image |-> lastPhoto, meta |-> saving.image]
  /\ saving' = [name |-> NoPhoto, image |-> NoPhoto]
  /\ UNCHANGED << m_triggerMode, timeVars, monoOffset, ppsVars, frameVars, scanning,
                  photoVars >>

\* ... and writes the metadata when the image is encoded and written.
WriteMetadata ==
  /\ jpgSaveThread = "copied" /\ jpgSaveThread' = "ready"
  /\ saved' = [name |-> saving.name, image |-> saving.image, meta |-> lastPhoto]
  /\ saving' = [name |-> NoPhoto, image |-> NoPhoto]
  /\ UNCHANGED << m_triggerMode, timeVars, monoOffset, ppsVars, frameVars, scanning,
                  photoVars >>

CameraNext ==
  \/ Tick \/ SetClock \/ ReceiveMode
  \/ AdjustPps \/ StorePps \/ StorePending
  \/ AdjustFrame \/ ConvertFrame
  \/ Drop \/ KeepFrame \/ SeePending \/ CompareFrame \/ ClearPending
  \/ ReplacePhoto \/ StartSave \/ CopyPhoto \/ WriteMetadata

CameraSpec == CameraInit /\ [][CameraNext]_cameraVars

-----------------------------------------------------------------------------
\* In NEAREST_FRAME mode the photos follow the edges, although CLOCK_REALTIME may be
\* set, the two threads share m_monoOffset and the time and the flag of an edge are
\* stored one after the other: photos are tagged by the edges in their order, none
\* by an edge that has tagged two, and where edge and frame were converted alike the
\* frame was taken less than MaxFrameAge from its edge.  Tags, and so the names of
\* files, go back only if the clock has been set back.
PhotosFollowEdges ==
  m_triggerMode = "NEAREST_FRAME" =>
    \A i \in DOMAIN photos :
      LET frame == photos[i].frame
          edge  == photos[i].tag
      IN  /\ i > 1 => photos[i - 1].tag.mono <= edge.mono
          /\ i > 2 => photos[i - 2].tag.mono < edge.mono
          /\ frame.offset = edge.offset =>
               frame.mono - edge.mono < MaxFrameAge /\ edge.mono - frame.mono < MaxFrameAge

\* A file never holds a photo from before the one it is named after, nor metadata
\* from before its photo, whatever has come while it was being saved.
SavedNotOlder ==
  /\ saved.name.frame.mono <= saved.image.frame.mono
  /\ saved.image.frame.mono <= saved.meta.frame.mono

-----------------------------------------------------------------------------
\* The guide: the field _reportTimestampNs of a file is the time it is named after.
MetadataInSync == Utc(saved.meta.tag) = Utc(saved.name.tag)

=============================================================================
