--------------------------- MODULE Manifest_proofs ---------------------------
(***************************************************************************)
(* Proofs about Manifest, for any number of sessions and chunks, any ends  *)
(* of the process and power cuts.  Whatever becomes of the updates of the  *)
(* manifest, a session's own files are in order; and as long as no update  *)
(* has failed or been torn, sessions are filed in their order and no saved *)
(* chunk is overwritten.                                                   *)
(***************************************************************************)
EXTENDS Manifest, TLAPS

\* A session has one folder number and counts its chunks, whatever the manifest
\* said.
Recording == {"running", "sync"}

OwnFiles ==
  /\ \A f \in files : f.session <= session
  /\ \A f, g \in files : f.session = g.session => f.id = g.id
  /\ pc \notin Recording \cup {"off", "error"} =>
       chunks = 0 /\ \A f \in files : f.session < session
  /\ pc \in Recording =>
       /\ dirs = Kinds
       /\ \A f \in files : f.session = session =>
            /\ f.id = id_manifest
            /\ f.idx < chunks \/ (pc = "sync" /\ f.idx = chunks)

\* What a power cut has left is of an earlier session and never saved.
LeftoversUnsaved ==
  /\ leftovers \cap saved = {}
  /\ pc # "off" => \A f \in leftovers : f.session < session

OwnInv == TypeOK /\ OwnFiles /\ LeftoversUnsaved

\* Why the order holds while every update succeeds: the manifest is ahead of every
\* folder in use, and a power cut leaves it ahead of those with saved chunks.
InUse == files \ leftovers

ManifestAhead ==
  /\ \A f \in saved : \A m \in stable \ {Empty} : f.id < m
  /\ manifest # Empty => \A f \in InUse : f.id < manifest
  /\ manifest = Empty => Updating
  /\ pc \in {"constructWrite", "nextCreate"} => InUse = {}

\* The number a session has taken is greater than those in use before it.
Beginning == {"construct", "constructWrite", "stopScans", "nextCreate"}
Taking == {"nextOpen", "nextWrite"}
NumberTaken == pc \in Recording \cup Taking \cup {"folder"} \/ (pc = "continuous" /\ "ss" \in dirs)

OwnNumber ==
  /\ pc \in Beginning => dirs = {}
  /\ NumberTaken => \A f \in InUse : f.session < session => f.id < id_manifest
  /\ NumberTaken /\ pc \notin Taking => manifest = id_manifest + 1

DriveInv == OwnInv /\ (intact => ManifestAhead /\ OwnNumber /\ SessionsInOrder)

-----------------------------------------------------------------------------

\* Init and every step of Next keep the type invariant.
LEMMA InitTypeOK == Init => TypeOK
<1> SUFFICES ASSUME Init PROVE TypeOK
  OBVIOUS
<1>1. stable \subseteq Nat \cup {Absent, Empty} /\ manifest \in Nat \cup {Absent, Empty}
  BY DEF Init
<1>2. /\ files \subseteq File /\ saved \subseteq files /\ leftovers \subseteq files
      /\ dirs \subseteq Kinds
  BY DEF Init
<1> QED
  BY <1>1, <1>2 DEF Init, TypeOK

LEMMA GetIdType ==
  ASSUME TypeOK, NEW id, NEW made \in BOOLEAN, GetId(id, made)
  PROVE  /\ id \in Nat \cup {NoId}
         /\ manifest' \in Nat \cup {Absent, Empty}
         /\ stable' \subseteq Nat \cup {Absent, Empty}
         /\ intact' \in BOOLEAN
<1>1. manifest # Absent => IdRead \in Nat
  BY DEF TypeOK, IdRead
<1>2. CASE UNCHANGED manifestVars
  BY <1>1, <1>2 DEF TypeOK, GetId, manifestVars
<1>3. intact' = intact \/ intact' = FALSE
  BY DEF GetId, Fails, manifestVars
<1>4. intact' \in BOOLEAN
  BY <1>3 DEF TypeOK
<1>5. /\ manifest' \in Nat \cup {Absent, Empty}
      /\ stable' \subseteq Nat \cup {Absent, Empty}
  BY <1>2 DEF TypeOK, GetId, Truncate
<1>6. id \in Nat \cup {NoId}
  BY <1>1 DEF GetId
<1> QED
  BY <1>4, <1>5, <1>6

LEMMA NextTypeOK == TypeOK /\ [Next]_vars => TypeOK'
<1> SUFFICES ASSUME TypeOK, [Next]_vars PROVE TypeOK'
  OBVIOUS
<1> USE DEF TypeOK, Goto, manifestVars, fileVars, sessionVars
<1>1. CASE TurnOn
  BY <1>1 DEF TurnOn
<1>2. CASE Mount
  BY <1>2 DEF Mount
<1>3. CASE Construct
  BY <1>3, GetIdType DEF Construct
<1>4. CASE WriteZero
  <2>1. intact' = intact \/ intact' = FALSE
    BY <1>4 DEF WriteZero, Fails
  <2>2. intact' \in BOOLEAN
    BY <2>1
  <2>3. Holds(0) \/ Holds(Empty)
    BY <1>4 DEF WriteZero
  <2>4. /\ UNCHANGED << fileVars, sessionVars, mounted >>
        /\ pc' \in {"stopScans", "nextOpen"}
    BY <1>4 DEF WriteZero
  <2>5. PICK m \in {0, Empty} : manifest' = m /\ stable' = stable \cup {m}
    BY <2>3 DEF Holds
  <2>6. m \in Nat \cup {Absent, Empty}
    BY <2>5
  <2> QED
    BY <2>2, <2>4, <2>5, <2>6
<1>5. CASE TakeNextId
  BY <1>5, GetIdType DEF TakeNextId
<1>6. CASE OpenNext
  BY <1>6 DEF OpenNext, Truncate, Fails
<1>7. CASE WriteNextId
  <2>1. id_manifest + 1 \in Nat
    BY DEF NoId
  <2> QED
    BY <1>7, <2>1 DEF WriteNextId, Holds, Fails
<1>8. CASE CreateStopScans
  BY <1>8 DEF CreateStopScans, Kinds
<1>9. CASE CreateContinuous
  BY <1>9 DEF CreateContinuous, Kinds
<1>10. CASE SaveChunk
  BY <1>10 DEF SaveChunk, File
<1>11. CASE SyncChunk
  BY <1>11 DEF SyncChunk
<1>12. CASE ProcessEnds
  BY <1>12 DEF ProcessEnds
<1>13. CASE PowerCut
  BY <1>13 DEF PowerCut
<1>14. CASE UNCHANGED vars
  BY <1>14 DEF vars
<1> QED
  BY <1>1, <1>2, <1>3, <1>4, <1>5, <1>6, <1>7, <1>8, <1>9, <1>10, <1>11, <1>12,
     <1>13, <1>14 DEF Next

\* Every variable of the drive keeps its type.
THEOREM TypeCorrect == Spec => []TypeOK
  BY InitTypeOK, NextTypeOK, PTL DEF Spec

\* The numbers of chunks and manifest are comparable.
LEMMA FileNumbers ==
  TypeOK => /\ \A f \in files : /\ f \in File
                                /\ f.id \in Int /\ f.id >= -1
                                /\ f.idx \in Nat /\ f.session \in Nat
            /\ manifest \in Int
            /\ stable \subseteq Int
            /\ id_manifest \in Int /\ session \in Nat /\ chunks \in Nat
            /\ \A f \in saved : f \in files
            /\ \A f \in leftovers : f \in files
  BY DEF TypeOK, File, Absent, Empty, NoId

\* A chunk is new in its folder, or replaces the one of its name.
LEMMA NewChunk ==
  ASSUME TypeOK, SaveChunk
  PROVE  \E new :
           /\ new.session = session /\ new.id = id_manifest /\ new.idx = chunks
           /\ new.kind \in Kinds
           /\ files' = {f \in files : Path(f) # Path(new)} \cup {new}
           /\ saved' \subseteq saved
           /\ leftovers' = {f \in leftovers : Path(f) # Path(new)}
           /\ Path(new) = << new.kind, id_manifest, chunks >>
<1>1. PICK kind \in Kinds :
        LET new == [kind |-> kind, id |-> id_manifest, idx |-> chunks,
                    session |-> session]
            kept == {f \in files : Path(f) # Path(new)}
        IN  /\ files' = kept \cup {new}
            /\ saved' = saved \cap kept
            /\ leftovers' = leftovers \cap kept
  BY DEF SaveChunk
<1> DEFINE new == [kind |-> kind, id |-> id_manifest, idx |-> chunks,
                   session |-> session]
<1>2. /\ files' = {f \in files : Path(f) # Path(new)} \cup {new}
      /\ saved' \subseteq saved
      /\ leftovers' = leftovers \cap {f \in files : Path(f) # Path(new)}
  BY <1>1
<1>3. leftovers' = {f \in leftovers : Path(f) # Path(new)}
  BY <1>2 DEF TypeOK
<1>4. /\ new.session = session /\ new.id = id_manifest /\ new.idx = chunks
      /\ new.kind \in Kinds
      /\ Path(new) = << new.kind, id_manifest, chunks >>
  BY DEF Path
<1> HIDE DEF new
<1> QED
  BY <1>2, <1>3, <1>4

-----------------------------------------------------------------------------
(***************************************************************************)
(* Whatever becomes of the manifest, within a session no chunk replaces    *)
(* another.                                                                *)
(***************************************************************************)

LEMMA OwnInvStep == OwnInv /\ [Next]_vars => OwnInv'
<1> SUFFICES ASSUME OwnInv, [Next]_vars PROVE OwnInv'
  OBVIOUS
<1>1. TypeOK'
  BY NextTypeOK DEF OwnInv
<1> USE <1>1, FileNumbers DEF OwnInv, OwnFiles, LeftoversUnsaved, Recording, Goto,
      manifestVars, fileVars, sessionVars
<1>2. CASE TurnOn
  BY <1>2 DEF TurnOn
<1>3. CASE Mount \/ Construct \/ WriteZero
  BY <1>3 DEF Mount, Construct, WriteZero
<1>4. CASE TakeNextId
  BY <1>4 DEF TakeNextId
<1>5. CASE OpenNext \/ WriteNextId \/ CreateStopScans
  BY <1>5 DEF OpenNext, WriteNextId, CreateStopScans
<1>6. CASE CreateContinuous
  BY <1>6 DEF CreateContinuous
<1>7. CASE SaveChunk
  BY <1>7, NewChunk DEF SaveChunk
<1>8. CASE SyncChunk
  BY <1>8 DEF SyncChunk
<1>9. CASE ProcessEnds \/ PowerCut
  <2>1. files' \subseteq files /\ leftovers' \cap saved' = {}
    BY <1>9 DEF ProcessEnds, PowerCut, TypeOK
  <2> QED
    BY <1>9, <2>1 DEF ProcessEnds, PowerCut
<1>10. CASE UNCHANGED vars
  BY <1>10 DEF vars
<1> QED
  BY <1>2, <1>3, <1>4, <1>5, <1>6, <1>7, <1>8, <1>9, <1>10 DEF Next

LEMMA OwnInvInit == Init => OwnInv
  BY InitTypeOK DEF Init, OwnInv, OwnFiles, LeftoversUnsaved, Recording

LEMMA OwnInvHolds == Spec => []OwnInv
  BY OwnInvInit, OwnInvStep, PTL DEF Spec

\* The steps that leave the files alone.
LEMMA FilesKept ==
  ASSUME TypeOK, Next, ~SaveChunk
  PROVE  saved \subseteq files'
  BY DEF Next, TurnOn, Mount, Construct, WriteZero, TakeNextId, OpenNext, WriteNextId,
    CreateStopScans, CreateContinuous, SyncChunk, ProcessEnds, PowerCut, fileVars, TypeOK

\* Whatever becomes of the updates, a session never overwrites or loses a chunk
\* that it has itself saved: the fault of manual_new_folders is between sessions
\* only.
OwnChunksStay == [][\A f \in saved : f.session = session => f \in files']_vars

\* The folder and the count of a session are its own while it runs, so that only
\* a power cut before the sync could take a chunk (main.cpp:178-200).
THEOREM OwnChunksAreKept == Spec => OwnChunksStay
<1>1. OwnInv /\ [Next]_vars => [\A f \in saved : f.session = session => f \in files']_vars
  <2> SUFFICES ASSUME OwnInv, Next, NEW f \in saved, f.session = session
               PROVE  f \in files'
    BY DEF OwnInv, TypeOK
  <2>1. CASE SaveChunk
    <3>1. pc = "running" /\ f \in files /\ f.idx \in Nat /\ chunks \in Nat
      BY <2>1, FileNumbers DEF SaveChunk, Goto, OwnInv, TypeOK
    <3>2. f.idx # chunks
      BY <3>1 DEF OwnInv, OwnFiles, Recording
    <3> QED
      BY <2>1, <3>1, <3>2, NewChunk DEF Path, OwnInv
  <2>2. CASE ~SaveChunk
    BY <2>2, FilesKept DEF OwnInv
  <2> QED
    BY <2>1, <2>2
<1> QED
  BY <1>1, OwnInvHolds, PTL DEF Spec, OwnChunksStay

\* The files of a session seen from the drive: what SessionFiles calls by the
\* same names.
Ready == InSession /\ dirs = Kinds
Count == IF ~InSession THEN 0 ELSE IF pc = "sync" THEN chunks + 1 ELSE chunks
Named == IF ~InSession THEN {}
         ELSE {<< f.kind, f.idx >> : f \in {g \in files : g.session = session}}

LEMMA FilingStep ==
  ASSUME OwnInv, [Next]_vars
  PROVE  [Filing!Next]_Filing!vars
<1>1. ASSUME UNCHANGED << Ready, Count, Named >> PROVE UNCHANGED Filing!vars
  BY <1>1 DEF Filing!vars, Ready, Count, Named
<1>2. InSession <=> pc \in Recording
  BY DEF InSession, Recording
<1>3. InSession => Ready
  BY <1>2 DEF OwnInv, OwnFiles, Ready
<1>4. CASE \/ TurnOn \/ Construct \/ WriteZero \/ TakeNextId \/ OpenNext
          \/ WriteNextId \/ CreateStopScans
  <2>1. ~InSession /\ ~InSession'
    BY <1>4 DEF TurnOn, Construct, WriteZero, TakeNextId, OpenNext, WriteNextId,
      CreateStopScans, Goto, InSession
  <2> QED
    BY <1>1, <2>1 DEF Ready, Count, Named
<1>5. CASE Mount \/ UNCHANGED vars
  <2>1. UNCHANGED << pc, dirs, chunks, files, session >>
    BY <1>5 DEF Mount, fileVars, sessionVars, vars
  <2> QED
    BY <1>1, <2>1 DEF Ready, Count, Named, InSession
<1>6. CASE CreateContinuous
  <2>1. ~InSession /\ (InSession' => dirs' = Kinds /\ pc' = "running")
    BY <1>6 DEF CreateContinuous, InSession
  <2>2. chunks' = 0 /\ UNCHANGED << files, session >> /\ \A f \in files : f.session # session
    BY <1>6, FileNumbers DEF CreateContinuous, fileVars, sessionVars, OwnInv, OwnFiles, Recording, TypeOK
  <2>3. Count = 0 /\ Count' = 0 /\ Named = {} /\ Named' = {}
    BY <2>1, <2>2 DEF Count, Named
  <2>4. CASE InSession'
    <3>1. ~Ready /\ Ready'
      BY <2>1, <2>4 DEF Ready
    <3> QED
      BY <2>3, <3>1 DEF Filing!Next, Filing!MakeFolders, Ready, Count, Named
  <2>5. CASE ~InSession'
    BY <1>1, <2>1, <2>3, <2>5 DEF Ready
  <2> QED
    BY <2>4, <2>5
<1>7. CASE SaveChunk
  <2>1. PICK new : /\ new.session = session /\ new.id = id_manifest /\ new.idx = chunks
                   /\ new.kind \in Kinds
                   /\ files' = {f \in files : Path(f) # Path(new)} \cup {new}
                   /\ Path(new) = << new.kind, id_manifest, chunks >>
    BY <1>7, NewChunk DEF OwnInv
  <2>2. /\ pc = "running" /\ pc' = "sync"
        /\ UNCHANGED << chunks, session, dirs >>
    BY <1>7 DEF SaveChunk, Goto, sessionVars
  <2>3. Ready /\ Ready' /\ Count = chunks /\ Count' = chunks + 1
    BY <1>3, <2>2 DEF Ready, Count, InSession
  <2>4. \A f \in files : f.session = session => Path(f) # Path(new)
    BY <2>1, <2>2, FileNumbers DEF OwnInv, OwnFiles, Recording, Path
  <2>5. Named' = Named \cup {<< new.kind, chunks >>}
    <3> DEFINE own == {g \in files : g.session = session}
    <3>1. {g \in files' : g.session = session} = own \cup {new}
      BY <2>1, <2>4
    <3> HIDE DEF own
    <3>2. Named' = {<< f.kind, f.idx >> : f \in own \cup {new}}
      BY <2>2, <3>1 DEF Named, InSession
    <3>3. Named = {<< f.kind, f.idx >> : f \in own}
      BY <2>2 DEF Named, InSession, own
    <3> QED
      BY <2>1, <3>2, <3>3
  <2>6. \E k \in {"cs", "ss"} :
          Ready /\ Named' = Named \cup {<< k, Count >>} /\ Count' = Count + 1 /\ Ready' = Ready
    BY <2>1, <2>3, <2>5 DEF Kinds, Ready
  <2> QED
    BY <2>6 DEF Filing!Next, Filing!Write, Ready, Count, Named
<1>8. CASE SyncChunk
  <2>1. /\ InSession /\ InSession' /\ pc = "sync" /\ pc' = "running" /\ chunks' = chunks + 1
        /\ UNCHANGED << dirs, files, session >>
    BY <1>8 DEF SyncChunk, Goto, InSession
  <2> QED
    BY <1>1, <2>1 DEF Ready, Count, Named
<1>9. CASE ProcessEnds \/ PowerCut
  <2>1. ~InSession'
    BY <1>9 DEF ProcessEnds, PowerCut, InSession
  <2>2. ~Ready' /\ Count' = 0 /\ Named' = {}
    BY <2>1 DEF Ready, Count, Named
  <2>3. CASE InSession
    <3>1. Ready
      BY <1>3, <2>3
    <3> QED
      BY <2>2, <3>1 DEF Filing!Next, Filing!End, Ready, Count, Named
  <2>4. CASE ~InSession
    BY <1>1, <2>2, <2>4 DEF Ready, Count, Named
  <2> QED
    BY <2>3, <2>4
<1> QED
  BY <1>4, <1>5, <1>6, <1>7, <1>8, <1>9 DEF Next

\* A session of the drive names its files as SessionFiles has it and as ScanControl
\* does, whatever becomes of the updates of the manifest.
THEOREM ChunksAreFiled == Spec => ChunksFiled
<1>1. Init => Filing!Init
  BY DEF Init, Filing!Init, InSession
<1>2. OwnInv /\ [Next]_vars => [Filing!Next]_Filing!vars
  BY FilingStep
<1> QED
  BY <1>1, <1>2, OwnInvHolds, PTL DEF Spec, ChunksFiled, Filing!Spec

-----------------------------------------------------------------------------
(***************************************************************************)
(* What holds between sessions as long as no update of the manifest has    *)
(* failed or been torn.                                                    *)
(***************************************************************************)

LEMMA DriveInvInit == Init => DriveInv
<1> SUFFICES ASSUME Init PROVE ManifestAhead /\ OwnNumber /\ SessionsInOrder
  BY OwnInvInit DEF DriveInv
<1> QED
  BY DEF Init, ManifestAhead, InUse, OwnNumber, SessionsInOrder, Recording, Beginning,
    Taking, NumberTaken, Absent, Empty

\* While it succeeds, GetIdFromManifest() returns the number of the manifest, or
\* makes a manifest where no folder is in use.
LEMMA GetIdAhead ==
  ASSUME OwnInv, ManifestAhead, ~Updating, NEW id, NEW made \in BOOLEAN, GetId(id, made),
         intact, intact'
  PROVE  \/ mounted /\ ~made /\ id = manifest /\ UNCHANGED << manifest, stable >>
         \/ mounted /\ made /\ id = 0 /\ Truncate /\ InUse = {}
         \/ ~mounted /\ ~made /\ UNCHANGED << manifest, stable >>
<1>1. manifest # Empty
  BY DEF ManifestAhead
<1>2. manifest = Absent => InUse = {}
  <2> SUFFICES ASSUME manifest = Absent, NEW f \in InUse PROVE FALSE
    OBVIOUS
  <2>1. f.id < -2 /\ f.id >= -1 /\ f.id \in Int
    BY <1>1, FileNumbers DEF ManifestAhead, InUse, Absent, OwnInv
  <2> QED
    BY <2>1
<1> QED
  BY <1>1, <1>2 DEF GetId, Fails, IdRead, manifestVars

LEMMA DriveInvStep == DriveInv /\ [Next]_vars => DriveInv'
<1> DEFINE Inv == ManifestAhead /\ OwnNumber /\ SessionsInOrder
<1> SUFFICES ASSUME DriveInv, [Next]_vars, intact' PROVE OwnInv' /\ Inv'
  BY OwnInvStep DEF DriveInv
<1>1. OwnInv' /\ TypeOK' /\ TypeOK
  BY OwnInvStep DEF DriveInv, OwnInv
<1>2. intact
  BY DEF Next, TurnOn, Mount, Construct, GetId, WriteZero, TakeNextId, OpenNext,
    WriteNextId, CreateStopScans, CreateContinuous, SaveChunk, SyncChunk, ProcessEnds,
    PowerCut, Fails, manifestVars, vars
<1>3. OwnInv /\ Inv
  BY <1>2 DEF DriveInv
<1> HIDE DEF DriveInv
<1> SUFFICES Inv'
  BY <1>1
<1> USE <1>1, <1>2, <1>3, FileNumbers
    DEF ManifestAhead, OwnNumber, SessionsInOrder, Recording, Beginning, Taking,
        NumberTaken, InUse, Goto, manifestVars, fileVars, sessionVars
<1>4. CASE TurnOn
  BY <1>4 DEF TurnOn, Updating
<1>5. CASE Mount
  BY <1>5 DEF Mount, Updating
<1>6. CASE Construct
  <2>1. /\ pc = "construct" /\ pc' \in {"constructWrite", "stopScans"}
        /\ UNCHANGED << files, saved, leftovers, session, id_manifest, dirs >>
    BY <1>6 DEF Construct
  <2>2. PICK id \in {IdRead, 0, NoId}, made \in BOOLEAN :
          GetId(id, made) /\ pc' = IF made THEN "constructWrite" ELSE "stopScans"
    BY <1>6 DEF Construct
  <2>3. ~Updating
    BY <2>1 DEF Updating
  <2>4. \/ ~made /\ UNCHANGED << manifest, stable >>
        \/ made /\ Truncate /\ InUse = {}
    BY <2>2, <2>3, GetIdAhead
  <2> QED
    BY <2>1, <2>2, <2>4 DEF Truncate, Updating, Fails
<1>7. CASE WriteZero
  <2>1. /\ pc \in {"constructWrite", "nextCreate"} /\ pc' \in {"stopScans", "nextOpen"}
        /\ manifest' = 0 /\ stable' = stable \cup {0}
        /\ UNCHANGED << files, saved, leftovers, session, id_manifest, dirs >>
    BY <1>7 DEF WriteZero, Holds, Fails
  <2>2. InUse = {} /\ InUse' = {} /\ saved = {}
    BY <2>1 DEF OwnInv, LeftoversUnsaved
  <2> QED
    BY <2>1, <2>2 DEF Updating, Empty
<1>8. CASE TakeNextId
  <2>1. /\ pc = "stopScans" /\ dirs = {}
        /\ UNCHANGED << files, saved, leftovers, session, dirs >>
    BY <1>8 DEF TakeNextId
  <2>2. CASE ~mounted
    BY <1>8, <2>1, <2>2 DEF TakeNextId, Updating
  <2>3. CASE mounted
    <3>1. PICK id \in {IdRead, 0, NoId}, made \in BOOLEAN :
            /\ GetId(id, made)
            /\ id_manifest' = id
            /\ pc' = IF made THEN "nextCreate" ELSE "nextOpen"
      BY <1>8, <2>3 DEF TakeNextId
    <3>2. ~Updating
      BY <2>1 DEF Updating
    <3>3. \/ ~made /\ id = manifest /\ UNCHANGED << manifest, stable >>
          \/ made /\ id = 0 /\ Truncate /\ InUse = {}
      BY <2>3, <3>1, <3>2, GetIdAhead
    <3> QED
      BY <2>1, <3>1, <3>2, <3>3 DEF Truncate, Updating, Fails
  <2> QED
    BY <2>2, <2>3
<1>9. CASE OpenNext
  <2>1. /\ pc = "nextOpen" /\ pc' = "nextWrite" /\ Truncate
        /\ UNCHANGED << files, saved, leftovers, session, id_manifest, dirs >>
    BY <1>9 DEF OpenNext, Fails
  <2> QED
    BY <2>1 DEF Truncate, Updating, Fails
<1>10. CASE WriteNextId
  <2>1. /\ pc = "nextWrite" /\ pc' = "folder"
        /\ manifest' = id_manifest + 1 /\ stable' = stable \cup {id_manifest + 1}
        /\ UNCHANGED << files, saved, leftovers, session, id_manifest, dirs >>
    BY <1>10 DEF WriteNextId, Holds, Fails
  <2>2. \A f \in InUse : f.id < id_manifest /\ f.id \in Int
    BY <2>1 DEF OwnInv, OwnFiles
  <2>3. saved \subseteq InUse
    BY DEF OwnInv, LeftoversUnsaved
  <2>4. id_manifest \in Nat \cup {NoId}
    BY DEF TypeOK
  <2>5. manifest' # Empty
    BY <2>1, <2>4 DEF Empty, NoId
  <2> QED
    BY <2>1, <2>2, <2>3, <2>5 DEF Updating
<1>11. CASE CreateStopScans
  BY <1>11 DEF CreateStopScans, Updating
<1>12. CASE CreateContinuous
  BY <1>12 DEF CreateContinuous, Kinds, Updating
<1>13. CASE SaveChunk
  BY <1>13, NewChunk DEF SaveChunk, Updating
<1>14. CASE SyncChunk
  BY <1>14 DEF SyncChunk, Updating, OwnInv, OwnFiles, LeftoversUnsaved
<1>15. CASE ProcessEnds
  BY <1>15 DEF ProcessEnds, Updating
<1>16. CASE PowerCut
  BY <1>16 DEF PowerCut, Updating
<1>17. CASE UNCHANGED vars
  BY <1>17 DEF vars, Updating
<1> QED
  BY <1>4, <1>5, <1>6, <1>7, <1>8, <1>9, <1>10, <1>11, <1>12, <1>13, <1>14, <1>15,
     <1>16, <1>17 DEF Next

LEMMA DriveInvAlways == Spec => []DriveInv
  BY DriveInvInit, DriveInvStep, PTL DEF Spec

\* As long as no update of the manifest has failed or been torn, the saved chunks
\* of a later session are in folders with a greater number
\* (GetNextIdFromManifest() and the sync at the end of each save).
THEOREM SessionsFiledInOrder == Spec => []SessionsInOrder
<1>1. DriveInv => SessionsInOrder
  BY DEF DriveInv, SessionsInOrder
<1> QED
  BY <1>1, DriveInvAlways, PTL

\* ... and no session overwrites a chunk that an earlier session or itself has
\* saved.
THEOREM SavedChunksAreKept == Spec => SavedChunksStay
<1>1. DriveInv /\ [Next]_vars => [intact => saved \subseteq files']_vars
  <2> SUFFICES ASSUME DriveInv, Next, intact, NEW f \in saved PROVE f \in files'
    OBVIOUS
  <2>1. CASE SaveChunk
    <3>1. pc = "running" /\ NumberTaken
      BY <2>1 DEF SaveChunk, Goto, NumberTaken, Recording
    <3>2. f \in InUse /\ f \in files /\ TypeOK
      BY DEF DriveInv, OwnInv, LeftoversUnsaved, InUse, TypeOK
    <3>3. f.id # id_manifest \/ f.idx # chunks
      <4>1. CASE f.session = session
        BY <3>1, <3>2, <4>1, FileNumbers DEF DriveInv, OwnInv, OwnFiles, Recording
      <4>2. CASE f.session < session
        BY <3>1, <3>2, <4>2, FileNumbers DEF DriveInv, OwnNumber
      <4> QED
        BY <3>2, <4>1, <4>2, FileNumbers DEF DriveInv, OwnInv, OwnFiles
    <3> QED
      BY <2>1, <3>2, <3>3, NewChunk DEF Path
  <2>2. CASE ~SaveChunk
    BY <2>2, FilesKept DEF DriveInv, OwnInv
  <2> QED
    BY <2>1, <2>2
<1> QED
  BY <1>1, DriveInvAlways, PTL DEF Spec, SavedChunksStay

\* ... and it shares its folders with a session before it only where a power cut
\* has come before the first sync of that one.  The manual's new folders at each
\* turn-on (chapter02.tex:205) come down to this.
THEOREM FoldersAreShared == Spec => []FoldersShared
<1>1. DriveInv => FoldersShared
  <2> SUFFICES ASSUME DriveInv, intact, pc = "running", NEW f \in files,
                      f.id = id_manifest, f.session # session
               PROVE  /\ f \in leftovers
                      /\ \A g \in saved : g.session # f.session
    BY DEF FoldersShared
  <2>1. /\ TypeOK /\ OwnFiles /\ LeftoversUnsaved
        /\ \A g \in InUse : g.session < session => g.id < id_manifest
    BY DEF DriveInv, OwnInv, OwnNumber, NumberTaken, Recording
  <2>2. f.session < session
    BY <2>1, FileNumbers DEF OwnFiles
  <2>3. f \in leftovers
    BY <2>1, <2>2, FileNumbers DEF InUse
  <2>4. ASSUME NEW g \in saved, g.session = f.session PROVE FALSE
    <3>1. g \in InUse /\ g.id = id_manifest
      BY <2>1, <2>4, FileNumbers DEF OwnFiles, LeftoversUnsaved, InUse
    <3> QED
      BY <2>1, <2>2, <2>4, <3>1, FileNumbers
  <2> QED
    BY <2>3, <2>4
<1> QED
  BY <1>1, DriveInvAlways, PTL

=============================================================================
