------------------------------ MODULE Manifest ------------------------------
(***************************************************************************)
(* The USB drive across restarts (code/FileSystemClient.cpp).  Each time   *)
(* the process starts, CreateDirectoryForStopScans() takes the number of   *)
(* its two folders from mandala_manifest.txt and writes the next one back, *)
(* and stateWatcher() numbers its chunks from 0 in these folders.          *)
(*                                                                         *)
(* The manifest is rewritten in place: opening the stream truncates it,    *)
(* the number follows.  Nothing is on the drive for certain before the     *)
(* next sync, which every saved chunk runs; the operating system may write *)
(* back earlier.  A power cut leaves each file as it was at any time since *)
(* the last sync; a process that dies leaves what it has written.          *)
(*                                                                         *)
(* The code goes on when the manifest cannot be opened or does not take    *)
(* the number, so that two sessions may get one number.  intact records    *)
(* that no update has failed or been torn so far.                          *)
(***************************************************************************)
EXTENDS Integers

CONSTANTS
  Faults,        \* "torn": a stop of the process or a power cut may hit an
                 \* update of the manifest and leave it truncated; "failed":
                 \* the manifest may not open, be read or be written
  MaxSessions,   \* bound: how many times the process is started
  MaxChunks      \* bound: how many chunks one session saves

ASSUME ManifestAssumption ==
  /\ Faults \subseteq {"torn", "failed"}
  /\ MaxSessions \in Nat
  /\ MaxChunks \in Nat

VARIABLES
  manifest,      \* what the file holds: a number, Empty or Absent
  stable,        \* what it may hold after a power cut
  files,         \* the chunks on the drive
  saved,         \* those whose save has ended, system("sync") included
  pc,            \* where the process is
  mounted,       \* GetIsWritable()
  session,       \* number of the process's run
  id_manifest,
  dirs,          \* which of the two folders the process has
  chunks,        \* chunksInExperimentCS + chunksInExperimentSS
  intact,        \* history: no update of the manifest has failed or been torn
  leftovers      \* history: chunks never saved that a power cut has left

manifestVars == << manifest, stable, intact >>
fileVars == << files, saved, leftovers >>
sessionVars == << session, id_manifest, dirs, chunks >>
vars == << manifestVars, fileVars, sessionVars, pc, mounted >>

Absent == -2
Empty == -1
NoId == -1       \* GetIdFromManifest() has neither read nor made the file
Kinds == {"cs", "ss"}

\* A chunk's files, named by folder and number; session tells who wrote them.
File == [kind : Kinds, id : Nat \cup {NoId}, idx : Nat, session : Nat]

Path(f) == << f.kind, f.id, f.idx >>

TypeOK ==
  /\ manifest \in Nat \cup {Absent, Empty}
  /\ stable \subseteq Nat \cup {Absent, Empty}
  /\ files \subseteq File
  /\ saved \subseteq files
  /\ leftovers \subseteq files
  /\ pc \in {"off", "construct", "constructWrite", "stopScans", "nextCreate",
             "nextOpen", "nextWrite", "folder", "continuous", "running", "sync",
             "error"}
  /\ mounted \in BOOLEAN
  /\ session \in Nat
  /\ id_manifest \in Nat \cup {NoId}
  /\ dirs \subseteq Kinds
  /\ chunks \in Nat
  /\ intact \in BOOLEAN

\* An empty drive and no process.
Init ==
  /\ manifest = Absent
  /\ stable = {Absent}
  /\ files = {}
  /\ saved = {}
  /\ leftovers = {}
  /\ pc = "off"
  /\ mounted = FALSE
  /\ session = 0
  /\ id_manifest = 0
  /\ dirs = {}
  /\ chunks = 0
  /\ intact = TRUE

-----------------------------------------------------------------------------

Goto(here, there) == pc = here /\ pc' = there

\* The file holds m; after a power cut it may hold m or anything it has held
\* since the last sync.
Holds(m) == manifest' = m /\ stable' = stable \cup {m}

\* Opening it for writing truncates it, until the number follows.
Truncate ==
  /\ manifest' = Empty
  /\ stable' = IF "torn" \in Faults THEN stable \cup {Empty} ELSE stable

\* An operation on the file that does not succeed.
Fails == "failed" \in Faults /\ intact' = FALSE

TurnOn ==
  /\ Goto("off", "construct")
  /\ session < MaxSessions
  /\ session' = session + 1
  /\ mounted' \in BOOLEAN
  /\ id_manifest' = 0
  /\ dirs' = {}
  /\ chunks' = 0
  /\ UNCHANGED << manifestVars, fileVars >>

\* The drive is mounted while the process runs.
Mount ==
  /\ pc # "off" /\ ~mounted
  /\ mounted' = TRUE
  /\ UNCHANGED << manifestVars, fileVars, sessionVars, pc >>

\* Mutant: one is subtracted once more than GetNextIdFromManifest() has added.
IdReadTwice == IF manifest \in {0, Empty} THEN 0 ELSE manifest - 1

\* Reading a number from an empty file leaves the 0 it was initialised with.
IdRead == IF manifest = Empty THEN 0 ELSE manifest

\* Mutant: a manifest that is missing is read all the same.
GetIdUnchecked(id, made) ==
  /\ id = (IF mounted THEN IdRead ELSE NoId)
  /\ ~made
  /\ UNCHANGED manifestVars

\* GetIdFromManifest() returns id: the manifest is read, or made if it does not
\* open, or neither.  made: its 0 is still to be written.
GetId(id, made) ==
  \/ /\ mounted /\ manifest # Absent
     /\ id = IdRead /\ ~made
     /\ UNCHANGED manifestVars
  \/ /\ mounted /\ manifest # Absent      \* opened, but not read
     /\ Fails
     /\ id = 0 /\ ~made
     /\ UNCHANGED << manifest, stable >>
  \/ /\ mounted
     /\ (manifest = Absent /\ UNCHANGED intact) \/ Fails
     /\ id = 0 /\ made
     /\ Truncate
  \/ /\ (~mounted /\ UNCHANGED intact) \/ Fails
     /\ id = NoId /\ ~made
     /\ UNCHANGED << manifest, stable >>

\* The constructor: only m_nextId, for the status, keeps the number.
Construct ==
  /\ pc = "construct"
  /\ \E id \in {IdRead, 0, NoId}, made \in BOOLEAN :
       /\ GetId(id, made)
       /\ pc' = IF made THEN "constructWrite" ELSE "stopScans"
  /\ UNCHANGED << fileVars, sessionVars, mounted >>

\* The 0 of a manifest just made.
WriteZero ==
  /\ Goto("constructWrite", "stopScans") \/ Goto("nextCreate", "nextOpen")
  /\ \/ Holds(0) /\ UNCHANGED intact
     \/ Holds(Empty) /\ Fails
  /\ UNCHANGED << fileVars, sessionVars, mounted >>

\* CreateDirectoryForStopScans() takes a number ...
TakeNextId ==
  /\ pc = "stopScans"
  /\ IF mounted
       THEN \E id \in {IdRead, 0, NoId}, made \in BOOLEAN :
              /\ GetId(id, made)
              /\ id_manifest' = id
              /\ pc' = IF made THEN "nextCreate" ELSE "nextOpen"
       ELSE pc' = "continuous" /\ UNCHANGED << manifestVars, id_manifest >>
  /\ UNCHANGED << fileVars, mounted, session, dirs, chunks >>

\* ... GetNextIdFromManifest() opens the manifest again, for the next one.  It
\* returns the number also when the file does not open ...
OpenNext ==
  /\ \/ Goto("nextOpen", "nextWrite") /\ Truncate /\ UNCHANGED intact
     \/ Goto("nextOpen", "folder") /\ Fails /\ UNCHANGED << manifest, stable >>
  /\ UNCHANGED << fileVars, sessionVars, mounted >>

\* ... or does not take the next number.
WriteNextId ==
  /\ Goto("nextWrite", "folder")
  /\ \/ Holds(id_manifest + 1) /\ UNCHANGED intact
     \/ Holds(Empty) /\ Fails
  /\ UNCHANGED << fileVars, sessionVars, mounted >>

\* The folder is made if it is not there.
CreateStopScans ==
  /\ Goto("folder", "continuous")
  /\ dirs' \in {{}, {"ss"}}
  /\ UNCHANGED << manifestVars, fileVars, mounted, session, id_manifest, chunks >>

\* Mutant: the folder of the continuous scans is enough.
CreateContinuousOnly ==
  /\ pc = "continuous"
  /\ \E made \in {FALSE, mounted} : dirs' = dirs \cup (IF made THEN {"cs"} ELSE {})
  /\ pc' = IF "cs" \in dirs' THEN "running" ELSE "error"
  /\ UNCHANGED << manifestVars, fileVars, mounted, session, id_manifest, chunks >>

\* CreateDirectoryForContinousScanning().  Without both folders stateWatcher()
\* stays in USB_IO_ERROR.
CreateContinuous ==
  /\ pc = "continuous"
  /\ \E made \in {FALSE, mounted} : dirs' = dirs \cup (IF made THEN {"cs"} ELSE {})
  /\ pc' = IF dirs' = Kinds THEN "running" ELSE "error"
  /\ UNCHANGED << manifestVars, fileVars, mounted, session, id_manifest, chunks >>

\* A chunk of either kind: the file of the same name is replaced ...
SaveChunk ==
  /\ Goto("running", "sync")
  /\ chunks < MaxChunks
  /\ \E kind \in Kinds :
       LET new == [kind |-> kind, id |-> id_manifest, idx |-> chunks,
                   session |-> session]
           kept == {f \in files : Path(f) # Path(new)}
       IN  /\ files' = kept \cup {new}
           /\ saved' = saved \cap kept
           /\ leftovers' = leftovers \cap kept
  /\ UNCHANGED << manifestVars, sessionVars, mounted >>

\* Mutant: the file is closed, but system("sync") is not called.
SyncOmitted ==
  /\ Goto("sync", "running")
  /\ chunks' = chunks + 1
  /\ saved' = {f \in files : f \in saved \/ f.session = session}
  /\ UNCHANGED << manifestVars, files, leftovers, mounted, session, id_manifest, dirs >>

\* ... and system("sync") ends the save.
SyncChunk ==
  /\ Goto("sync", "running")
  /\ chunks' = chunks + 1
  /\ saved' = {f \in files : f \in saved \/ f.session = session}
  /\ stable' = {manifest}
  /\ UNCHANGED << manifest, intact, files, leftovers, mounted, session, id_manifest, dirs >>

\* The manifest is truncated and its number not written yet.
Updating == pc \in {"constructWrite", "nextCreate", "nextWrite"}

\* The process ends, by 'q', an error or a kill, and leaves the drive as it is.
ProcessEnds ==
  /\ pc # "off" /\ pc' = "off"
  /\ Updating => "torn" \in Faults
  /\ intact' = (intact /\ ~Updating)
  /\ UNCHANGED << manifest, stable, fileVars, sessionVars, mounted >>

\* The power is cut, while the process runs or after it.
PowerCut ==
  /\ pc' = "off"
  /\ manifest' \in stable
  /\ stable' = {manifest'}
  /\ intact' = (intact /\ manifest' # Empty)
  /\ \E kept \in SUBSET (files \ (saved \cup leftovers)) :
       /\ files' = saved \cup leftovers \cup kept
       /\ leftovers' = leftovers \cup kept
  /\ UNCHANGED << saved, sessionVars, mounted >>

Next ==
  \/ TurnOn \/ Mount \/ Construct \/ WriteZero \/ TakeNextId \/ OpenNext
  \/ WriteNextId \/ CreateStopScans \/ CreateContinuous \/ SaveChunk \/ SyncChunk
  \/ ProcessEnds \/ PowerCut

Spec == Init /\ [][Next]_vars

-----------------------------------------------------------------------------
\* A chunk whose save has ended is on the drive for good: as long as every update
\* of the manifest has succeeded, no later session overwrites it, however the
\* sessions before it have ended.
SavedChunksStay == [][intact => saved \subseteq files']_vars

\* Sessions are filed in their order while every update succeeds: of two saved
\* chunks the one of the later session is in the folder with the greater number.
SessionsInOrder ==
  intact => \A f, g \in saved : f.session < g.session => f.id < g.id

\* What becomes of the manual's new folders at each turn-on while every update
\* succeeds: a session shares its folders only with chunks that a power cut has
\* left of a session none of whose saves had ended.
FoldersShared ==
  intact /\ pc = "running" =>
    \A f \in files :
      f.id = id_manifest /\ f.session # session =>
        /\ f \in leftovers
        /\ \A g \in saved : g.session # f.session

\* Each session names its files as ScanControl does, whatever the manifest said: it
\* has both folders, and no chunk replaces another of the same session.
InSession == pc \in {"running", "sync"}
Filing == INSTANCE SessionFiles WITH ready <- InSession /\ dirs = Kinds,
            next <- IF ~InSession THEN 0 ELSE IF pc = "sync" THEN chunks + 1 ELSE chunks,
            files <- IF ~InSession THEN {}
                     ELSE {<< f.kind, f.idx >> : f \in {g \in files : g.session = session}}

ChunksFiled == Filing!Spec

\* The manual: each time the device is turned on it makes new folders.  Of that,
\* the part that costs data when it fails: there is no saved chunk of an earlier
\* session in the folders of this one.
NewFolders ==
  pc = "running" => \A f \in saved : f.id = id_manifest => f.session = session

=============================================================================
