--------------------------- MODULE LidarRegistry ---------------------------
(***************************************************************************)
(* The LiDARs a LivoxClient knows (code/LivoxClient.cpp): their handles,   *)
(* serial numbers and ids, and what they say about the synchronisation of  *)
(* their clocks.  Every point carries the id of its LiDAR, every chunk the *)
(* list that tells which serial number an id stands for.                   *)
(*                                                                         *)
(* The id of a LiDAR is the place of its serial number among all those     *)
(* seen so far, so that it changes when a LiDAR registers.  The SDK's data *)
(* thread reads it without m_lidarInfoMutex and appends the points later,  *)
(* under the mutex of the buffer; the list is made under m_lidarInfoMutex  *)
(* some time after the chunk is cut.                                       *)
(*                                                                         *)
(* Points stand for IMU data as well: ImuDataCallback does the same with a *)
(* buffer of its own.  A handle is the address of a LiDAR, which keeps it. *)
(*                                                                         *)
(* A query is a command of the Livox SDK (3rd/Livox-SDK2).  It is sent; if *)
(* that fails its callback runs at once, in the thread that sends it.  In  *)
(* either case it is then put on a list, from which an answer or a timeout *)
(* takes it to run its callback, so that a query that could not be sent is *)
(* called back a second time.  An answer that comes before the query is on *)
(* the list is dropped.  Commands that set the work mode need no lock and  *)
(* are left out.                                                           *)
(***************************************************************************)
EXTENDS LivoxClient, FiniteSets

CONSTANTS
  Handles,
  Serials,          \* in the order of std::set<std::string>
  SerialCallbacks,  \* no answer is worked on while a LiDAR is being reported
  SendsFail         \* sending a command may fail, as it does without a route

ASSUME RegistryAssumption ==
  /\ Serials \subseteq Nat
  /\ IsFiniteSet(Serials)
  /\ SerialCallbacks \in BOOLEAN
  /\ SendsFail \in BOOLEAN

VARIABLES
  device,        \* the LiDAR behind each handle
  stage,         \* where LidarInfoChangeCallback is with a handle
  infos,         \* keys of m_LivoxLidarInfo
  named,         \* keys of m_handleToSerialNumber
  serials,       \* m_serialNumbers
  queries,       \* handles with a query on the SDK's list of commands
  timeSync,      \* m_LivoxLidarTimeSync
  synced,        \* how the last isSynced() has ended
  watch,         \* where the watch thread is: it asks with the mutex held
  unasked,       \* handles it still has to ask in this round
  reading,       \* the packet whose callback has read an id, if there is one
  tags,          \* what the packets delivered so far carry
  watcher,       \* where stateWatcher() is with a chunk
  chunk          \* the last chunk saved

mapVars == << stage, infos, named, serials >>
watchVars == << watch, unasked >>
registryVars == << mapVars, queries, timeSync, synced, watchVars >>
chunkVars == << watcher, chunk >>
vars == << livoxVars, device, registryVars, reading, tags, chunkVars >>

Unknown == 255

\* handle and id, and for the properties what was known when the id was read
\* and whether no LiDAR was being registered then.
Tags == [handle : Handles, id : Nat, seen : SUBSET Serials, quiet : BOOLEAN]

TypeOK ==
  /\ LivoxTypeOK
  /\ device \in [Handles -> Serials]
  /\ stage \in [Handles -> {"idle", "queried", "locked"}]
  /\ infos \subseteq Handles
  /\ named \subseteq Handles
  /\ serials \subseteq Serials
  /\ queries \subseteq Handles
  /\ timeSync \in [Handles -> {"unheard", "off", "on"}]
  /\ synced \in {"returned", "threw"}
  /\ watch \in {"asleep", "asking", "stuck"}
  /\ unasked \subseteq Handles
  /\ reading \subseteq Tags
  /\ tags \in Seq(Tags)
  /\ watcher \in {"idle", "logging", "cut", "last", "stopped"}
  /\ chunk.points \subseteq Tags
  /\ chunk.seen \subseteq Serials

Init ==
  /\ LivoxInit
  /\ device \in [Handles -> Serials]
  /\ stage = [h \in Handles |-> "idle"]
  /\ infos = {} /\ named = {} /\ serials = {}
  /\ queries = {}
  /\ timeSync = [h \in Handles |-> "unheard"]
  /\ synced = "returned"
  /\ watch = "asleep" /\ unasked = {}
  /\ reading = {} /\ tags = << >>
  /\ watcher = "idle"
  /\ chunk = [points |-> {}, list |-> << >>, seen |-> {}]

-----------------------------------------------------------------------------
(* Registration, on a thread of the SDK.                                   *)

AllIdle == \A h \in Handles : stage[h] = "idle"

Registering == \E h \in Handles : stage[h] = "locked"

\* m_lidarInfoMutex is held for several assignments, or for a round of queries.
Locked == Registering \/ watch # "asleep"

\* The place of a serial number in a set of them.
Rank(sn, set) == Cardinality({s \in set : s < sn})

\* The SDK reports a LiDAR once, which is asked about itself before it is
\* registered.  If that cannot be sent, the callback waits for the mutex here,
\* as LockRegistry does.
LidarInfoChange(h) ==
  /\ stage[h] = "idle" /\ h \notin named
  /\ SerialCallbacks => AllIdle
  /\ stage' = [stage EXCEPT ![h] = "queried"]
  /\ queries' = queries \cup {h}
  /\ UNCHANGED << livoxVars, device, infos, named, serials, timeSync, synced,
                  watchVars, reading, tags, chunkVars >>

LockRegistry(h) ==
  /\ stage[h] = "queried" /\ ~Locked
  /\ stage' = [stage EXCEPT ![h] = "locked"]
  /\ UNCHANGED << livoxVars, device, infos, named, serials, queries, timeSync,
                  synced, watchVars, reading, tags, chunkVars >>

\* Mutant: a serial number that has been seen is not noted for the new handle.
RegisterOnce(h) ==
  /\ stage[h] = "locked"
  /\ stage' = [stage EXCEPT ![h] = "idle"]
  /\ infos' = infos \cup {h}
  /\ named' = IF device[h] \in serials THEN named ELSE named \cup {h}
  /\ serials' = serials \cup {device[h]}
  /\ UNCHANGED << livoxVars, device, queries, timeSync, synced, watchVars, reading,
                  tags, chunkVars >>

Register(h) ==
  /\ stage[h] = "locked"
  /\ stage' = [stage EXCEPT ![h] = "idle"]
  /\ infos' = infos \cup {h}
  /\ named' = named \cup {h}
  /\ serials' = serials \cup {device[h]}
  /\ UNCHANGED << livoxVars, device, queries, timeSync, synced, watchVars, reading,
                  tags, chunkVars >>

\* A query leaves the SDK's list: the answer tells a synchronisation or none,
\* or the query has timed out, which any of the SDK's threads may notice.
\* Another one to the same LiDAR may stay.
QueryInternalInfo(h) ==
  /\ h \in queries /\ ~Locked
  /\ queries' \in {queries, queries \ {h}}
  /\ \/ /\ SerialCallbacks => AllIdle
        /\ \E mode \in {"off", "on"} : timeSync' = [timeSync EXCEPT ![h] = mode]
     \/ UNCHANGED timeSync
  /\ UNCHANGED << livoxVars, device, mapVars, synced, watchVars, reading, tags,
                  chunkVars >>

\* The watch thread asks every LiDAR with m_lidarInfoMutex held.
TestThread ==
  /\ ~Locked
  /\ watch' = "asking" /\ unasked' = named
  /\ UNCHANGED << livoxVars, device, mapVars, queries, timeSync, synced, reading,
                  tags, chunkVars >>

\* QueryInternalInfoCallback takes the mutex when a query has failed: called in
\* the thread that holds it already, it waits for ever, before the query that was
\* not sent gets on the list.
Ask(h) ==
  /\ watch = "asking" /\ h \in unasked
  /\ unasked' = unasked \ {h}
  /\ \/ queries' = queries \cup {h} /\ UNCHANGED watch
     \/ SendsFail /\ watch' = "stuck" /\ UNCHANGED queries
  /\ UNCHANGED << livoxVars, device, mapVars, timeSync, synced, reading, tags,
                  chunkVars >>

EndRound ==
  /\ watch = "asking" /\ unasked = {}
  /\ watch' = "asleep"
  /\ UNCHANGED << livoxVars, device, mapVars, queries, timeSync, synced, unasked,
                  reading, tags, chunkVars >>

\* isSynced() stops at the first LiDAR that is not synchronised, in whatever
\* order the map has, and looks its serial number up with at(): it returns or
\* throws.
SyncOutcomes ==
  LET off == {h \in Handles : timeSync[h] = "off"}
  IN  {o \in {"returned", "threw"} :
         \/ o = "returned" /\ (off = {} \/ off \cap named # {})
         \/ o = "threw" /\ ~(off \subseteq named)}

IsSynced ==
  /\ ~Locked
  /\ synced' \in SyncOutcomes
  /\ UNCHANGED << livoxVars, device, mapVars, queries, timeSync, watchVars, reading,
                  tags, chunkVars >>

-----------------------------------------------------------------------------
(* Points, on the SDK's data thread.                                       *)

\* Two ways to count a place wrongly, for mutants: with the serial number's own
\* place, and from the one before.
IdAfter(h) ==
  IF h \in named THEN Cardinality({s \in serials : s <= device[h]}) ELSE Unknown

IdBefore(h) == IF h \in named THEN Rank(device[h], serials) - 1 ELSE Unknown

handleToLidarId(h) == IF h \in named THEN Rank(device[h], serials) ELSE Unknown

\* A read that races with a registration may see the maps half changed.
IdsRead(h) ==
  IF Registering THEN 0 .. Cardinality(serials) \cup {Unknown} ELSE {handleToLidarId(h)}

\* The first half of PointCloudCallback.
ReadId(h) ==
  /\ reading = {} /\ packets["lidar"] < MaxPackets
  /\ \E id \in IdsRead(h) :
       reading' = {[handle |-> h, id |-> id, seen |-> serials, quiet |-> ~Registering]}
  /\ UNCHANGED << livoxVars, device, registryVars, tags, chunkVars >>

\* The second half, under m_bufferLidarMutex.
Deliver ==
  /\ \E t \in reading : tags' = Append(tags, t)
  /\ reading' = {}
  /\ PointCloudCallback
  /\ UNCHANGED << device, registryVars, chunkVars >>

-----------------------------------------------------------------------------
(* Chunks, on the thread of stateWatcher().                                *)

StartLog ==
  /\ watcher = "idle" /\ watcher' = "logging"
  /\ LivoxStartLog
  /\ UNCHANGED << device, registryVars, reading, tags, chunk >>

\* A chunk is cut in the middle of a scan or at its end.
Retrieve ==
  /\ watcher = "logging" /\ watcher' \in {"cut", "last"}
  /\ LivoxRetrieveData
  /\ UNCHANGED << device, registryVars, reading, tags, chunk >>

StopLog ==
  /\ watcher = "last" /\ watcher' = "stopped"
  /\ LivoxStopLog
  /\ UNCHANGED << device, registryVars, reading, tags, chunk >>

\* Mutant: the list counts a serial number's own place, the points do not.
LidarListAfter ==
  [i \in {IdAfter(h) : h \in infos} |->
     device[CHOOSE h \in infos : IdAfter(h) = i]]

\* getSerialNumberToLidarIdMapping()
LidarList ==
  [i \in {handleToLidarId(h) : h \in infos} |->
     device[CHOOSE h \in infos : handleToLidarId(h) = i]]

Points == {tags[n] : n \in {m \in DOMAIN tags :
                              \E i \in DOMAIN retrieved.lidar : retrieved.lidar[i] = m}}

\* The points are saved and then, beside them, the list.
SaveLidarList ==
  /\ ~Locked
  /\ \/ watcher = "cut" /\ watcher' = "logging"
     \/ watcher = "stopped" /\ watcher' = "idle"
  /\ chunk' = [points |-> Points, list |-> LidarList, seen |-> serials]
  /\ UNCHANGED << livoxVars, device, registryVars, reading, tags >>

-----------------------------------------------------------------------------
\* An exception that leaves stateWatcher() ends the process.
Next ==
  /\ synced # "threw"
  /\ \/ \E h \in Handles :
          \/ LidarInfoChange(h) \/ LockRegistry(h) \/ Register(h)
          \/ QueryInternalInfo(h) \/ Ask(h) \/ ReadId(h)
     \/ TestThread \/ EndRound \/ IsSynced \/ Deliver
     \/ StartLog \/ Retrieve \/ StopLog \/ SaveLidarList

Spec == Init /\ [][Next]_vars

\* The watch thread and the registrations are run.  Between two rounds the watch
\* thread sleeps for a second, so that others get the mutex and so does it.
FairSpec ==
  /\ Spec
  /\ SF_vars(synced # "threw" /\ TestThread)
  /\ WF_vars(synced # "threw" /\ ((\E h \in Handles : Ask(h) \/ Register(h)) \/ EndRound))

-----------------------------------------------------------------------------
\* Every point of a chunk is attributed to the LiDAR it comes from by the list
\* saved with the chunk, provided that the LiDARs known when its id was read
\* are those known when the list was made and that the read did not race with
\* a registration (handleToLidarId(), getSerialNumberToLidarIdMapping()).
\* Points of a LiDAR that was not registered yet have the id 255.
IdsFitList ==
  \A p \in chunk.points :
    p.quiet /\ p.seen = chunk.seen /\ p.id # Unknown =>
      p.id \in DOMAIN chunk.list /\ chunk.list[p.id] = device[p.handle]

\* No serial number that isSynced() looks up is missing, although a LiDAR is
\* asked for its synchronisation before it is registered: the answer is not
\* worked on before the registration is over.
SyncFindsSerials == synced # "threw"

-----------------------------------------------------------------------------
(* What a comment says, and the code does not do.                          *)

\* LivoxClient.h: the watch thread asks the LiDARs for their status again and
\* again, so that the mutex is free again and again.
AsksPeriodically == []<>(watch = "asleep")

=============================================================================
