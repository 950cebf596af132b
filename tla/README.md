# Verification of the MANDEYE controller

TLA+ models of mandeye_controller, the program that runs on a hand-held mobile
mapping device: it records one or more Livox LiDARs with their IMU, and
optionally a GNSS receiver, to a USB drive, under the control of two buttons, a
web page and a console. The modules are checked with TLC on small instances and
the theorems with TLAPS for every value of the constants.

## The system

| part | state | operations | interacts with |
|---|---|---|---|
| State machine and requests (`code/main.cpp`, `state.h`) | `app_state`, a plain global; deadlines; two directory names; two chunk counters; `isLidarError`, `isRunning` | `stateWatcher()`; `StartScan`, `StopScan`, `TriggerStopScan`, `TriggerContinousScanning` | called by three threads (HTTP, GPIO readback, console); calls every client |
| LivoxClient (`LivoxClient.cpp`) | two buffers behind shared pointers; maps by handle; set of serial numbers; session clock | `startLog`, `stopLog`, `retrieveData`; SDK callbacks; a watch thread; `isSynced` | callbacks come on SDK threads; buffers guarded by two mutexes, maps by a third one, not everywhere |
| GNSSClient (`gnss.cpp`) | line buffer and raw buffer, `m_isLogging` | `startLog`, `stopLog`, `retrieveData`, `retrieveRawData`; the serial worker | the worker appends to the raw buffer without the mutex |
| FileSystemClient (`FileSystemClient.cpp`) | `mandala_manifest.txt`, the session's folders | `GetIdFromManifest`, `GetNextIdFromManifest`, two directory functions | persists across restarts |
| GpioClient (`gpios.cpp`) | lines, press counters, callbacks | readback thread, `setLed`, `beep`, `addButtonCallback` | runs the button callbacks on its thread |
| Publisher (`publisher.cpp`) | mode, directories, last time | worker at 8 Hz, `SetMode`, `SetWorkingDirectory` | ZeroMQ, a queue of reports, to the extras |
| save_laz (`save_laz.cpp`) | none | writes a chunk, decimating large ones | called from `stateWatcher()` |
| HTTP server, start-up (`main.cpp`) | client pointers | creates the clients in threads of their own | two locks on client pointers |
| fake_pps (`fake_pps.cpp`) | next wake-up time | pulse and NMEA label every second | a process of its own |
| rtkNmea (`extras/rtkNmea`) | mode and directory received, NMEA buffer; NTRIP connection | subscriber, NMEA files, NTRIP client with reconnect and watchdog | Publisher, a caster |
| libcamera (`extras/libcamera`) | PPS time and flag, last photo, metadata | PPS thread, frame callback, asynchronous save | Publisher |
| picamera2, zmqDemo, demos, packing, web pages, vendored code | | | not part of the program's logic |

What is hard in it: `app_state` is read and written by four threads without
synchronisation; `stateWatcher()` tests it, sleeps, and assigns it; two client
pointers appear while the others already run; data keeps arriving while buffers
are swapped; a chunk goes to a drive that may be missing, full or torn off; the
device is usually turned off by cutting its power.

What makes each part correct:
- state machine: a request is served or refused; a stop ends; error states stay;
  no pointer is used before it exists; the state shows whether data is recorded;
- buffers: every packet from the start of a log to the last cut is in exactly one
  chunk, in order;
- file names: no chunk overwrites another, in one session or a later one;
- GNSS: no line is in two chunks; LiDAR registration: the ids in a chunk fit the
  list beside it; clock: the duration never runs backwards;
- peripherals: each follows the state of the controller, photos follow the PPS
  edges, and a lost caster is found again.

## Modules

| module | models | correspondence |
|---|---|---|
| `LivoxClient` | the two buffers of LivoxClient | `buffers` is `m_bufferLivoxPtr`/`m_bufferIMUPtr` (`alloc` false: null), `retrieved` the pair `stateWatcher()` holds, `packets` counts what the SDK delivered. A packet is its number. Each operation runs under both mutexes and is one step. |
| `GNSSClient` | the two buffers of GNSSClient | the worker's reading, its unlocked append to `m_rawbuffer` and its locked append to `m_buffer` are three steps. What overlaps the unlocked append is `Disturb`ed: see below. |
| `ScanControl` | `stateWatcher()`, the requests, start-up, composed with both clients by EXTENDS | `pc` is the point of `stateWatcher()`; a request is a test (`Request`) and an assignment (`Assign`, `ArmStage1`); a deadline is in `expired` when it has passed |
| `RecordingLog` | abstract: what recording promises for one stream, from the start of a log to the directory of each chunk | refined by `ScanControl` (`LidarLog`, `ImuLog`), through the mapping `Phase`, `SessionDir`, `FirstUncut`, `Cuts` |
| `SessionFiles` | abstract: how a session names its chunks | refined by `ScanControl` and by `Manifest` (`ChunksFiled` of each), which know the same folders and chunks from the side of `stateWatcher()` and from that of the drive: it is what the two may assume of each other |
| `LidarRegistry` | the LiDARs a LivoxClient knows; extends `LivoxClient` | `infos`, `named`, `serials`, `timeSync` are the maps (`device` is the LiDAR behind a handle), `queries` the SDK's list of commands; a registration is `LidarInfoChange`, `LockRegistry`, `Register`, since the query goes out before the mutex is taken; `TestThread`, `Ask`, `EndRound` are a round of the watch thread, with the mutex held; a data callback is `ReadId`, without the mutex, and `Deliver`; `SaveLidarList` follows the cut of its chunk |
| `SessionClock` | the time stamps of LivoxClient | unsigned numbers below `Wrap`; an empty optional is -1; each operation runs under `m_timestampMutex` |
| `Publisher` | the publisher over restarts of the controller, with its channel; extends `SessionClock` | `m_mode`, `m_directory`, `m_lastTime` are the members, `worker` and `time` where the worker is between its two reads of the clock, `channel` the reports under way to a subscriber |
| `RtkNmea` | the process of rtkNmea as a subscriber; extends `Publisher` | `clientThread` takes a report, `NMEACallback` is one call; the static `buffer` holds, for each sentence, the directory known when it was read |
| `Camera` | the process of libcamera | a time is what a monotonic clock said and the `offset` it was converted with; `monoOffset` is what a thread is about to store in `m_monoOffset`; `AdjustPps`, `StorePps` and `StorePending` are the steps of `ppsWatchThread()`; `complete` is where `requestComplete()` and `printFrame()` are with the oldest completed request; `jpgSaveThread` is the background save; `photos` is history |
| `Ntrip` | the NTRIP client of rtkNmea | `ops` are the asynchronous operations, `ready` the handlers the I/O thread will run, `reconnect` and `watchdog` the two timers; the source's functions that continue the chain are actions of the same name; `wire` and `caster` are the other end |
| `Manifest` | the drive, the manifest and the folders across restarts, kills and power cuts | `manifest` is what the file holds, `stable` what it may hold after a power cut, `saved` the chunks whose `system("sync")` has returned; `intact` (no update has failed or been torn) and `leftovers` (chunks never synced that a power cut has left) are history |
| `MCScanControl` | sets of requests for the configurations | |
| `MCPeripherals` | one run for three models | `part` chooses which of the three a behaviour is about: the publisher alone, with rtkNmea, or libcamera |
| `LivoxClient_proofs`, `ScanControl_proofs`, `RecordingLog_proofs`, `LidarRegistry_proofs`, `Manifest_proofs`, `RtkNmea_proofs`, `Camera_proofs`, `Ntrip_proofs` | lemmas and theorems | |

`ScanControl` composes `LivoxClient` and `GNSSClient`, `RtkNmea` composes `Publisher`
and `SessionClock`; each module says at its variables which field or position in
the code they are.

Choices of `ScanControl`:
- The chain of comparisons of `app_state` in one pass of the loop is one read
  (`Dispatch`); inside a branch every further read is a step.
- `Overtaking` FALSE lets a requesting thread finish between its test and its
  assignment, a matter of nanoseconds, before anybody else moves: the model is
  then about the seconds and milliseconds the code sleeps for on purpose.
  `Overtaking` TRUE drops that and `scan_overtaking` checks what still holds.
  `SerialSpec` is in between: `stateWatcher()` and everything else may come between
  the test and the assignment of a request, but not another request (`OneAtATime`).
  It is what a mutex around the three callers' requests would give, and
  with `Overtaking` FALSE it is `Spec` (`Serialised`).
- `Expire` follows a deadline of `stateWatcher()` only in the state that reads it,
  as it is assigned before it is read. The 10 s of a chunk elapse at most as
  often as `MaxChunks` allows.
- `startListener()`, `isSynced()` and each directory function answer freely. The
  5 s before a stop scan starts logging are taken to be enough for thLivox to
  create its client, for which it needs a free mutex only.
- The files of a chunk are one step with one outcome; `SavesFail` lets it be
  false. LEDs, reports, `Publisher` calls and file formats are left out.
- `m_rawbuffer` is appended to without the mutex (`gnss.cpp:95`). An append during which
  the buffer is cleared or swapped has any of these outcomes: the sentence is kept in the
  old or the new buffer, it is lost, one of them counts an entry that nobody wrote
  (`Garbage`), or the deque is broken and its next user dies (`RawBufferBreaks`).
- `MaxReceived` bounds packets and sentences together, so that a run may have two of
  any stream without having two of all.

Choices of `LidarRegistry`:
- While a registration holds the mutex, a data callback, which does not take it,
  may read any id: the maps are being changed (a data race). That it might crash
  is left out.
- Where callbacks run is taken from the SDK in `src/3rd/Livox-SDK2/sdk_core`. A
  command is sent and put on a list afterwards (`general_command_handler.cpp:714-715`).
  If it cannot be sent, its callback runs in the sending thread (`SendsFail`); it is
  put on the list all the same and called back again at its timeout. An answer
  that comes before the command is on the list is dropped. A timeout is noticed by any
  of three I/O threads (`device_manager.cpp:746`). This is why
  `QueryInternalInfo` may end at any time without an answer, and why a registration adds
  its query however the sending went. The watch thread does not get that far: it waits
  in the callback for the mutex that it holds (`Ask`), before the list is reached.
- `SerialCallbacks` TRUE: no answer is worked on while a LiDAR is being reported.
  That is so for LiDARs in normal operation, whose answers and reports come on
  the same thread (`mid360_command_handler.cpp:179-202`). A LiDAR in its
  firmware loader is reported on another one (`device_manager.cpp:594-617`); with
  FALSE, an answer may overtake its registration and TLC finds the exception of
  isSynced() (`threw`) at once, while `IdsFitList` is proved for both.
- A LiDAR keeps its address; two addresses may have one serial number. The work
  mode, which only decides about a wake-up command, and the counters are left out.
  IMU data is like points, in a buffer of its own.
- Ids change when a LiDAR with a smaller serial number registers, so that points
  from before it do not fit the list made after it. `IdsFitList` says which
  points do.

Choices of `SessionClock`, `Publisher` and `RtkNmea`:
- Time stamps count seconds, as only a new second makes a report with the mode.
  `Packet` takes the next one modulo `Wrap`: the time of a LiDAR goes on until it
  starts again at 0.
- A second of the LiDAR is longer than the 125 ms of a round of the worker, which
  therefore sees every one of them: `Packet` waits for `ticked`.
- The channel is a queue. `ZMQ_CONFLATE` is set after `bind()` and `connect()`, where
  ZeroMQ applies it to later connections only. Reports are lost while nobody is
  connected, and with the controller. A subscriber is never more than `MaxQueue`
  reports behind, far below the limit at which ZeroMQ would drop some.
- `ChangeState` has the steps of the state machine by the mode alone, among them the
  timeout of the second stopping stage that assigns `SCANNING` over a `STOPPING`.
- A restart of the controller may come at any time, rtkNmea stays. Files are
  written and never read: only their directory is followed.

Choices of `Camera`:
- One tick is the resolution of the time of frames and edges; an edge comes every
  `Period`; a completed request waits in `frames`, of which there are `MaxRequests`. The
  accepted frame, the flag and the photo are separate steps, so that edges and saves
  come between them. `KeepFrame` leaves open which frames the INTERNAL mode keeps.
- Frames and edges are stamped by the monotonic clock. `AdjustSystemClock()` computes
  the offset to UTC anew for each of them, from a `CLOCK_REALTIME` that may be set at any
  time (`SetClock`, to any of `Offsets`). Both threads store it in `m_monoOffset` and use it
  without a lock: `Convert` takes the offset of either, if the other is just storing
  its own. The two clocks are read at once: the microseconds between the two
  readings in `AdjustSystemClock()` are below a tick.

Choices of `Ntrip`:
- A handler that is ready cannot be taken back: cancelling or setting a timer that
  has expired leaves its handler to be run.
- `PromptHandlers`: what is ready is run before the 5 s of `timer_` are over. The
  I/O thread runs nothing but these handlers. With FALSE TLC violates `OneChain`: a
  watchdog that has waited for the whole 5 s would start a second chain.
- The headers are one item and each piece of the stream is one. `send_gga()` writes
  to the socket and changes nothing else.

Choices of `Manifest`:
- A folder may be made or not each time; a drive once mounted stays; a power cut leaves
  the manifest as it was at any time since the last sync and any of the files not yet
  synced (more than a real file system may leave). `m_nextId` only appears in the
  status report and is left out.
- `Faults` says what may happen to the manifest. "torn": a stop may hit the moment in which
  it is truncated and not yet rewritten. "failed": it may not open for reading, for
  writing or for being made, not yield its number, or not take the next one. The code
  goes on from each: the number is then -1 when the manifest can neither be read
  nor made (`FileSystemClient.cpp:109-112`), and it is used although no next one was
  written (`:124-129`).
- What a failed or torn update costs is not excluded from the states, only from the
  properties that name `intact`, since the code promises nothing after one.

## Runs

| run | configuration | shows |
|---|---|---|
| `scan_rpi4` | `SerialSpec` with `Overtaking`: three clicks, no autostart, 2 packets of each stream, 2 chunks | types, `NoNullDereference`, `ChunkNumbersDiffer`, `StateTellsRecording`, and the refinement of `RecordingLog` for both streams |
| `scan_overtaking` | requests overtake each other, one-click stop, a GNSS client, 2 packets, IMU packets and sentences in any mixture, 2 chunks, the buttons' requests (from the web page as well) and `quit` | `UsbErrorIsFinal`, `SavedOnce` for the four streams in spite of the unlocked append, `Garbage` excepted, and the refinement of `SessionFiles` |
| `live_rpi4` | fairness, 2 chunks | `StartIsServed`, `StopScanIsServed`, `StageTimesOut` |
| `live_cm5` | autostart, wait for synchronisation, one click, abort on USB error, saves fail, 3 chunks | the invariants for that build, `StartIsServed`, `StopIsServed`, `UsbErrorRestarts`, and `RecordedIsSaved` where no save fails |
| `registry` | 2 LiDARs, 2 serial numbers, 1 packet, any number of scans and chunks | `IdsFitList`, `SyncFindsSerials` |
| `manifest` | 3 starts, 2 chunks each, updates torn and failed | `ChunksFiled`, the refinement of `SessionFiles`, whatever happens to the manifest; `SessionsInOrder`, `FoldersShared`, `SavedChunksStay` as long as no update has failed or been torn |
| `peripherals` | 2 starts of the controller, time stamps that wrap, a queue and a buffer of 1; 5 ticks, an edge every second one, 2 requests, a clock set to one of 2 offsets | `DurationCoversTime`, `FiledInOrder`, `ModeReachesRtk`, `RtkSavesItsScans`; `PhotosFollowEdges`, `SavedNotOlder` |
| `ntrip` | 6 items from the caster, any number of connections | `OneChain`, `NeverAbandoned`, `ForwardedInOrder`, `SilentStreamIsLeft` |
| `manual_stop_scan` | violated: `StopScanIsRun` | autostart overwrites an accepted stop scan |
| `manual_new_folders` | violated: `NewFolders` | a torn manifest makes later sessions reuse old folders |
| `watch_send_fails` | violated: `AsksPeriodically` | a query that cannot be sent stops the watch thread with the mutex held |
| `camera_meta` | violated: `MetadataInSync` | the metadata beside a photo is that of a later frame |

Why the bounds are enough. Two packets per stream give a chunk with data, one that
is empty, a packet before, between and after the cuts. Two chunks give a chunk cut
in the middle of a scan followed by its last one, or the chunks of two scans of
either kind; three are used where a property relates scans and cuts. Requests may
come from all three callers in every state and any number of times until the bound
on chunks is met: the bound is in the guards of `CanRequest` and `Expire`. In
`scan_overtaking` two packets or two sentences of one stream may be in one chunk or
in two, twice or in the wrong order; with `MaxReceived` 2 the order of four streams
is not also multiplied, as their buffers are apart. The buttons' two requests start
and stop scans of both kinds, so that `StartScan` and `StopScan` are left to
`scan_rpi4`. The theorems are for any number of packets and all requests. In
`registry` one packet is enough, as the property is about single points and packets
do not act on each other; two LiDARs register before and after each other with the
smaller serial number on either side, or with the same one. Three sessions are
needed for a number that is given twice. In `peripherals` a report, a sentence and a
session before and after a restart meet with one of each kept back; with `Wrap` 2
every second packet wraps. Two offsets let the clock go forward and back, by more
than `MaxFrameAge`, between any two conversions. Five ticks hold two edges with
frames before, at and after them, and a third photo to be saved while the first one
is. In `ntrip` six items are headers and data of up to three connections, or a
stream read in pieces. Of the properties there, `FiledInOrder`, `PhotosFollowEdges`,
`OneChain` and the other invariants are proved without the bounds.

Deadlock is checked in `scan_rpi4`, `live_rpi4` and `registry`. It is off where the
process really ends or the bounds end the behaviour: with `quit`, after the abort on
a USB error, after a null dereference or a broken raw buffer, in `Manifest` when the
sessions are used up, in `Camera` when the ticks are.

Fairness:
- `ScanControl`: `stateWatcher()`, the start-up threads and a callback that has passed
  its test run whenever they can, since the operating system schedules every
  runnable thread; every deadline passes. Nothing is assumed of requests and data.
  `StopIsServed` is stated for the one-click build only: with three clicks a
  timed-out stage may take the stop back (see below). `RecordedIsSaved` is about
  behaviours in which no save fails; a packet counts if the bound leaves `Room` for a
  chunk after the one it belongs to, so that the scan may go on: with three chunks, the
  packets of the first two.
- `MCPeripherals`: the LiDAR goes on sending, `stateWatcher()` and the worker of the
  publisher loop, ZeroMQ connects again by itself and the subscriber takes what
  arrives, sentences come and the time of a file passes. Nothing is assumed of the
  state machine: `ModeArrives` is about a state that stays.
- `Ntrip`: handlers are run, timers expire, resolving, connecting and writing end,
  data that has arrived is read. The caster may be silent for ever.
- `LidarRegistry`, in `watch_send_fails`: the watch thread is run; strong fairness for
  the mutex, which the others leave free for most of every second.

## Proofs

All theorems hold for every build (all flags), any number of packets, sentences,
chunks, sessions, connections and ticks. Every invariant and every action property
that a passing run checks has a theorem; where a theorem needs an assumption, the
assumption is in its statement and below. Only liveness under fairness stays with
TLC (`StartIsServed`, `StopIsServed`, `StopScanIsServed`, `StageTimesOut`,
`UsbErrorRestarts`, `RecordedIsSaved`, `ModeReachesRtk`, `RtkSavesItsScans`,
`SilentStreamIsLeft`), as do the four violations.

`ScanControl_proofs`
- `TypeCorrect`: type correctness, by the actions of each component
  (`LivoxTypes`, `GnssTypes`, `SaveTypeOK`, `RequestTypeOK`, `WatcherTypeOK`).
- `NeverDereferencesNull`, `StateShowsRecording`, for requests that come one at a time
  (`SerialSpec`) while `stateWatcher()` may do anything between the test and the
  assignment of each, from the inductive invariant `ScanInv`: which states are
  possible at each point of `stateWatcher()` (`StateFits`), what a pending request
  still finds (`PendingFits`), that the buffers exist exactly in the logging states up
  to `stopLog()` (`BuffersFit`), and that outside `USB_IO_ERROR` both directories exist
  (`ErrorsFit`). A request to stop is safe because `stateWatcher()` does not end a
  scan by itself: it takes two requests to make a stop meet no buffers. A request to
  start is safe because `IDLE` is left by requests only, or, with autostart, for a scan
  whose log the late request starts again (`Late`, `LateStarts`). So a mutex
  around the requests alone, without `stateWatcher()`, would rule the null dereference out.
- `Serialised`: with `Overtaking` FALSE, `Spec` implies `SerialSpec`.
- `ErrorsStay`, with `Overtaking` FALSE: a request that is slower than the 100 ms
  sleep of `IDLE` may assign over the `LIDAR_ERROR` found after it.
- `ChunksNumberedApart`, whatever overtakes: `ChunkNumbersDiffer` is not inductive, since
  it does not tie the numbers to the counters; `ChunksCounted` says that the sum of the
  counters is the number of chunks and every chunk is numbered by its place.
  Only `Save` writes (`OnlySaveWrites`).
- `DataSavedOnce`, whatever overtakes, for the points, the IMU data and both kinds of
  sentences: `Ordered` puts the chunks, what `stateWatcher()` holds and what is
  buffered in one order below `Limit`, the first packet or sentence not yet in a
  buffer; every step fills, takes or saves a stream, or leaves it alone (`Fills`, `Takes`,
  `Saves`). That what was taken of the sentences counts only between a retrieval
  and its save (`Held`) is what makes it inductive, and the LiDAR's part needs that
  `Save` resets what it saved. An entry that nobody wrote is ordered with nothing.
- `UsbErrorStays`, whatever overtakes, where `ScanInv` fails: without both directories the
  loop never leaves its head and no request is pending (`UsbInv`).
- `ChunksAreFiled`, whatever overtakes: `ScanControl` implements `SessionFiles`. The folders
  are made once (`FoldersMadeOnce`), every chunk written is one step of the abstract
  count (`WritesOneChunk`), and nothing is written without both folders (`UsbInv`).

`RecordingLog_proofs`
- `PointsAreLogged`, `ImuDataIsLogged`: `SerialSpec` implements `RecordingLog`, directory
  of each chunk included. `PieceInv` adds to `ScanInv` that a buffer holds the last
  packets in a row and that something is retrieved only until it is saved; each
  step of `ScanControl` is then a step of `RecordingLog` or leaves what it sees
  alone. A save moves a piece from `retrieved` to `disk` and leaves the cuts as they are.
  The assumption `~(Overtaking /\ Autostart)` is needed: a request to start that
  autostart overtakes begins the log of a running scan again, and what was
  buffered is lost.

`LidarRegistry_proofs`
- `TypeCorrect`.
- `PointsFitTheList`: the invariant says that the maps agree outside a
  registration (`MapsAgree`) and that an id that was read quietly is the place of
  its serial number among those seen then (`ReadWell`). The list inverts places,
  which needs that no two serial numbers have the same one (`RankDistinguishes`).
- `ListsAreExact`: the list saved with a chunk has every LiDAR known when it was made,
  once and under the id of its points, and if there are at most 255 serial numbers,
  none under the id of unregistered LiDARs (`RankBelow`).
- `IsSyncedFindsSerials`, with `SerialCallbacks`, from `AskedAreNamed`: who is asked
  is registered or about to be, who has answered is registered.

`Manifest_proofs`
- `TypeCorrect`.
- `SessionsFiledInOrder`, `SavedChunksAreKept` and `FoldersAreShared`, of all behaviours as long
  as `intact`, from `DriveInv`: while no update has failed or been torn, every number the
  manifest may hold, now or after a power cut, is greater than the ids of the chunks
  saved by other sessions, and the current session is filed above them. A file of
  another session in the folders of this one is then what a power cut has left before
  that session's first sync.
- `OwnChunksAreKept` and `ChunksAreFiled`, failed and torn updates included, from `OwnInv`: a
  session has one folder number and counts its chunks from 0, whatever the manifest said.
  So what such an update costs is the chunks of earlier sessions, and never those of the
  running one; and each session implements `SessionFiles`, as `ScanControl` does.

`RtkNmea_proofs`
- `RtkTypeCorrect`, for `SessionClock`, `Publisher` and `RtkNmea`.
- `DurationReachesTime`, from `ElapsedFits`: the duration is the unsigned difference of
  a time stamp and the start of the session, or 0 before the first packet; what is added to the
  start reaches the time stamp, wrapped or not (`DifferenceReaches`).
- `SentencesFiledInOrder`: the directory known and every report on its way is that of
  the session or empty (`ReportsFit`), and no buffered sentence is later than the
  session or than the target it will be filed under (`BufferFits`).

`Camera_proofs`
- `CameraTypeCorrect`. This and the next two hold for any `Offsets`, set in any order, and
  whichever offset a thread finds in `m_monoOffset`.
- `FilesNotOlder`, from `CameraInv`: frames and edges come in order (`InOrder`), the tag of
  the last photo is not later than what can come (`TagsFit`), a save began with the
  photo of its name or one before the last (`SaveFits`).
- `EdgesFollowed`: `EdgesUsed` counts how often the last two photos may have used the last
  edge, given the flag and where the two threads are. Between the two stores a
  frame may be tagged with the new edge and the flag, set afterwards, lets the next
  one be tagged with it again; it cannot happen a third time. The order is that of the
  edges, by the monotonic clock: of the tags it follows where the clock is not set back.
  That a frame is near its edge is proved where both were converted with one offset.
- `Composition`: a behaviour of `MCPeripherals` is one of `RtkSpec` and one of `CameraSpec`,
  so that the theorems about the parts hold in the run; `PeripheralsTyped` is its type
  correctness.

`Ntrip_proofs`, for handlers that are prompt (`ASSUME PromptHandlers`)
- `TypeCorrect`, `ChainIsOne`, `GoesOn`, `StreamForwarded`, from `NtripInv`: the chain is in
  one place (`ChainInv`); the watchdog is set while the stream is read
  (`WatchdogInv`); forwarded, buffered and sent items are numbered through
  (`Numbered`); no read tells of more than there is (`SizesFit`). `sent` only stays a
  natural number because of `Numbered`.

## Findings

1. With autostart, `IDLE` assigns `STARTING_SCAN` after a sleep without reading
   the state again: an accepted stop scan is lost (`main.cpp:437`).
2. The manifest is rewritten in place: an interruption restarts the numbers and a
   later session overwrites chunks (`FileSystemClient.cpp:123`).
3. The watch thread sends queries with `m_lidarInfoMutex` held. A query that cannot be
   sent runs its callback there and waits for the same mutex for ever; so do
   `isSynced()` and the list of LiDARs, and with them `stateWatcher()`
   (`LivoxClient.cpp:188`).
4. The metadata of a photo is written after the image is encoded, from a variable that
   may be of a later frame by then (`extras/libcamera/main.cpp:337`).

Observations, without a run of their own:
- The timeout of a stopping stage assigns `SCANNING` over a stop that was confirmed in
  time, as the state is tested before the clock (`main.cpp:554`, `:570`).
- The manual's new folders at each turn-on (`chapter02.tex:205`) also fail without a torn
  update: after a power cut before the first sync the next session gets the same number
  and folders. No chunk whose save has ended is in them (`FoldersShared`), but those that
  the cut has left are overwritten.
- The number is used although the next one was not written (`FileSystemClient.cpp:124-129`): the
  next session gets the same number and overwrites saved chunks from 0 on. A
  manifest that can neither be read nor made files the session under -1 (`:109-112`).
- When the clock is set, frames and edges may be converted with different offsets, so
  that they are not "in the same reference frame" (`LibCameraWrapper.cpp:165-166`): a frame
  is accepted or refused by that difference, and tags and file names go back or repeat.
- A chunk that fails to be written is logged and its data is gone (`main.cpp:197`).
- The raw NMEA buffer is not governed by `startLog()`/`stopLog()` (`gnss.cpp:95`).
- If the publisher is created after `WAIT_FOR_RESOURCES`, its directory stays empty
  for the session (`main.cpp:419`), and only the white button initialises the session clock.
- `fake_pps` labels an edge with the second after it (`fake_pps.cpp:135`, the comment at
  `:160`), and after the clock is set forward its edges follow each other at once
  (`:131`).
- A caster that accepts a connection and never streams is waited for without end
  (`ntrip.cpp:147`).

## Not modelled, and the plan

The plan of the project is done up to here: state machine and buffers, drive, registry,
session clock and publisher, the three peripherals' processes, and their proofs.

Not modelled, because there is little state or order in it:
- the debounce of the buttons, a counter per line in one thread, and the LEDs;
- `fake_pps`, which sleeps, raises a pin and prints the time;
- the decimation and the contents of LAZ files, statistics and status reports;
- parsing of NMEA sentences, the choice of the sentence sent to a caster, and the
  status pages;
- configuring, starting and stopping the camera; the picamera2 script, a sequential
  program around a library; the demonstrations; packing scripts and web pages.

Vendored code is two thirds of the lines in the repository (two copies of the JSON
library, 50,000 lines, and Livox-SDK2). Of the SDK only its list of commands and the
threads of its callbacks matter to this program and are in `LidarRegistry`; discovery,
packing and data handling are not modelled. A full drive is only a save that fails.

Left for later: liveness of the connection of a peripheral that is itself restarted,
and several subscribers of one publisher.
