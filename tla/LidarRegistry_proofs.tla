------------------------ MODULE LidarRegistry_proofs ------------------------
(***************************************************************************)
(* Proofs about LidarRegistry: for any LiDARs, packets and chunks, points  *)
(* fit the list saved with them as far as IdsFitList says, whatever thread *)
(* the SDK runs its callbacks on, and isSynced() finds what it looks up if *)
(* no answer is worked on while a LiDAR is being reported.                 *)
(***************************************************************************)
EXTENDS LidarRegistry, LivoxClient_proofs, FiniteSetTheorems, TLAPS

\* The id of a LiDAR that was known and quietly read is its place at that time.
ReadWell(t) ==
  t.quiet /\ t.id # Unknown =>
    device[t.handle] \in t.seen /\ t.id = Rank(device[t.handle], t.seen)

\* Outside a registration the three maps agree.
MapsAgree == infos = named /\ serials = {device[h] : h \in named}

IdsInv ==
  /\ TypeOK
  /\ MapsAgree
  /\ \A t \in reading : ReadWell(t)
  /\ \A n \in DOMAIN tags : ReadWell(tags[n])
  /\ IdsFitList

\* A LiDAR that is asked is registered, or about to be; one that has answered
\* is registered.
AskedAreNamed ==
  /\ \A h \in queries : h \in named \/ stage[h] # "idle"
  /\ \A h \in Handles : timeSync[h] # "unheard" => h \in named

SyncInv == TypeOK /\ unasked \subseteq named /\ AskedAreNamed /\ SyncFindsSerials

-----------------------------------------------------------------------------

\* A place is a number, and no two serial numbers have the same place.
LEMMA RankType ==
  ASSUME NEW S \in SUBSET Serials, NEW s \in Serials
  PROVE  IsFiniteSet(S) /\ Rank(s, S) \in Nat
<1>1. IsFiniteSet(S) /\ {r \in S : r < s} \in SUBSET S
  BY FS_Subset, RegistryAssumption
<1>2. IsFiniteSet({r \in S : r < s})
  BY <1>1, FS_Subset
<1> QED
  BY <1>1, <1>2, FS_CardinalityType DEF Rank

LEMMA RankGrows ==
  ASSUME NEW S \in SUBSET Serials, NEW s \in S, NEW t \in S, s < t
  PROVE  Rank(s, S) # Rank(t, S)
<1> DEFINE A == {r \in S : r < s}
           B == {r \in S : r < t}
<1>1. IsFiniteSet(S) /\ B \in SUBSET S
  BY RankType
<1>2. IsFiniteSet(B)
  BY <1>1, FS_Subset
<1>3. s \in Nat /\ t \in Nat /\ \A r \in S : r \in Nat
  BY RegistryAssumption
<1>4. s \in B /\ s \notin A
  BY <1>3
<1>5. A \in SUBSET B
  <2> SUFFICES ASSUME NEW r \in S, r < s PROVE r < t
    OBVIOUS
  <2> QED
    BY <1>3
<1>6. Cardinality(A) # Cardinality(B)
  BY <1>2, <1>4, <1>5, FS_Subset
<1> QED
  BY <1>6 DEF Rank

LEMMA RankDistinguishes ==
  ASSUME NEW S \in SUBSET Serials, NEW s \in S, NEW t \in S,
         Rank(s, S) = Rank(t, S)
  PROVE  s = t
<1>1. s \in Nat /\ t \in Nat
  BY RegistryAssumption
<1>2. s < t \/ t < s \/ s = t
  BY <1>1
<1> QED
  BY <1>2, RankGrows

\* Every id that can be read is a number.
LEMMA IdsReadType ==
  ASSUME TypeOK, NEW h \in Handles
  PROVE  handleToLidarId(h) \in Nat /\ IdsRead(h) \subseteq Nat
<1>1. device[h] \in Serials /\ serials \in SUBSET Serials
  BY DEF TypeOK
<1>2. handleToLidarId(h) \in Nat
  BY <1>1, RankType DEF handleToLidarId, Unknown
<1>3. Cardinality(serials) \in Nat
  BY <1>1, RankType, FS_CardinalityType
<1> QED
  BY <1>2, <1>3 DEF IdsRead, Unknown

-----------------------------------------------------------------------------

LEMMA InitTypeOK == Init => TypeOK
<1> SUFFICES ASSUME Init PROVE TypeOK
  OBVIOUS
<1>1. LivoxTypeOK
  BY DEF Init, LivoxInit, LivoxTypeOK, NullBuffers, Buffers
<1> QED
  BY <1>1 DEF Init, TypeOK

\* Points are tags of delivered packets.
LEMMA PointsAreTags ==
  ASSUME TypeOK
  PROVE  Points \subseteq Tags /\ \A p \in Points : \E n \in DOMAIN tags : p = tags[n]
BY DEF Points, TypeOK

LEMMA NextTypeOK == TypeOK /\ [Next]_vars => TypeOK'
<1> SUFFICES ASSUME TypeOK, [Next]_vars PROVE TypeOK'
  OBVIOUS
<1> USE DEF TypeOK, registryVars, mapVars, watchVars, chunkVars
<1>1. ASSUME NEW h \in Handles, LidarInfoChange(h) PROVE TypeOK'
  BY <1>1, LivoxTypes DEF LidarInfoChange
<1>2. ASSUME NEW h \in Handles, LockRegistry(h) PROVE TypeOK'
  BY <1>2, LivoxTypes DEF LockRegistry
<1>3. ASSUME NEW h \in Handles, Register(h) PROVE TypeOK'
  BY <1>3, LivoxTypes DEF Register
<1>4. ASSUME NEW h \in Handles, QueryInternalInfo(h) PROVE TypeOK'
  BY <1>4, LivoxTypes DEF QueryInternalInfo
<1>5. ASSUME NEW h \in Handles, ReadId(h) PROVE TypeOK'
  <2>1. LivoxTypeOK'
    BY <1>5, LivoxTypes DEF ReadId
  <2>2. reading' \subseteq Tags
    BY <1>5, IdsReadType DEF ReadId, Tags, Registering
  <2> QED
    BY <2>1, <2>2, <1>5 DEF ReadId
<1>6. CASE TestThread \/ EndRound \/ \E h \in Handles : Ask(h)
  BY <1>6, LivoxTypes DEF TestThread, EndRound, Ask
<1>7. CASE IsSynced
  BY <1>7, LivoxTypes DEF IsSynced, SyncOutcomes
<1>8. CASE Deliver
  <2>1. LivoxTypeOK'
    BY <1>8, LivoxTypes DEF Deliver
  <2>2. tags' \in Seq(Tags) /\ reading' \subseteq Tags
    BY <1>8 DEF Deliver
  <2> QED
    BY <2>1, <2>2, <1>8 DEF Deliver
<1>9. CASE StartLog
  BY <1>9, LivoxTypes DEF StartLog
<1>10. CASE Retrieve
  BY <1>10, LivoxTypes DEF Retrieve
<1>11. CASE StopLog
  BY <1>11, LivoxTypes DEF StopLog
<1>12. CASE SaveLidarList
  <2>1. chunk'.points \subseteq Tags /\ chunk'.seen \subseteq Serials
    BY <1>12, PointsAreTags DEF SaveLidarList
  <2> QED
    BY <2>1, <1>12, LivoxTypes DEF SaveLidarList
<1>13. CASE UNCHANGED vars
  BY <1>13, LivoxTypes DEF vars
<1> QED
  BY <1>1, <1>2, <1>3, <1>4, <1>5, <1>6, <1>7, <1>8, <1>9, <1>10, <1>11, <1>12,
     <1>13 DEF Next

\* Every variable keeps its type, for any number of LiDARs and packets.
THEOREM TypeCorrect == Spec => []TypeOK
BY InitTypeOK, NextTypeOK, PTL DEF Spec

-----------------------------------------------------------------------------
\* What is read quietly is read well.
LEMMA QuietReads ==
  ASSUME IdsInv, NEW h \in Handles, ReadId(h)
  PROVE  \A t \in reading' : ReadWell(t) /\ device' = device
<1>1. PICK id \in IdsRead(h) :
        reading' = {[handle |-> h, id |-> id, seen |-> serials, quiet |-> ~Registering]}
  BY DEF ReadId
<1> DEFINE r == [handle |-> h, id |-> id, seen |-> serials, quiet |-> ~Registering]
<1>a. device' = device /\ reading' = {r}
  BY <1>1 DEF ReadId
<1>b. r.handle = h /\ r.id = id /\ r.seen = serials /\ (r.quiet => ~Registering)
  BY Zenon
<1> HIDE DEF r
<1> SUFFICES ASSUME ~Registering, id # Unknown
             PROVE  device[h] \in serials /\ id = Rank(device[h], serials)
  BY <1>a, <1>b DEF ReadWell
<1>2. h \in named
  BY DEF IdsRead, handleToLidarId
<1>3. id = Rank(device[h], serials)
  BY <1>2 DEF IdsRead, handleToLidarId
<1> QED
  BY <1>2, <1>3 DEF IdsInv, MapsAgree

\* The list saved with a chunk fits the points that were read well.
LEMMA ListFits == ASSUME IdsInv, SaveLidarList PROVE IdsFitList'
<1> SUFFICES ASSUME NEW p \in Points, p.quiet, p.seen = serials, p.id # Unknown
             PROVE  p.id \in DOMAIN LidarList /\ LidarList[p.id] = device[p.handle]
  BY DEF IdsFitList, SaveLidarList
<1>1. p \in Tags /\ ReadWell(p)
  BY PointsAreTags DEF IdsInv
<1>2. device[p.handle] \in serials /\ p.id = Rank(device[p.handle], serials)
  BY <1>1 DEF ReadWell
<1>3. PICK g \in infos : device[g] = device[p.handle]
  BY <1>2 DEF IdsInv, MapsAgree
<1>4. handleToLidarId(g) = p.id
  BY <1>2, <1>3 DEF handleToLidarId, IdsInv, MapsAgree
<1> DEFINE f == CHOOSE h \in infos : handleToLidarId(h) = p.id
<1>5. f \in infos /\ handleToLidarId(f) = p.id
  BY <1>4
<1>6. device[f] \in serials /\ Rank(device[f], serials) = p.id
  BY <1>5 DEF handleToLidarId, IdsInv, MapsAgree
<1>7. device[f] = device[p.handle]
  BY <1>2, <1>6, RankDistinguishes DEF IdsInv, TypeOK
<1> QED
  BY <1>4, <1>7 DEF LidarList

LEMMA NextIdsInv == IdsInv /\ [Next]_vars => IdsInv'
<1> SUFFICES ASSUME IdsInv, [Next]_vars PROVE IdsInv'
  OBVIOUS
<1>0. TypeOK'
  BY NextTypeOK DEF IdsInv
<1> USE DEF registryVars, mapVars, watchVars, chunkVars
<1>a. ASSUME UNCHANGED << device, infos, named, serials, reading, tags, chunk >>
      PROVE  IdsInv'
  BY <1>a, <1>0 DEF IdsInv, MapsAgree, ReadWell, IdsFitList
<1>1. ASSUME NEW h \in Handles, LidarInfoChange(h) PROVE IdsInv'
  BY <1>1, <1>a DEF LidarInfoChange
<1>2. ASSUME NEW h \in Handles, LockRegistry(h) PROVE IdsInv'
  BY <1>2, <1>a DEF LockRegistry
<1>3. ASSUME NEW h \in Handles, Register(h) PROVE IdsInv'
  <2>1. MapsAgree'
    BY <1>3 DEF Register, IdsInv, MapsAgree
  <2> QED
    BY <1>3, <1>0, <2>1 DEF Register, IdsInv, ReadWell, IdsFitList
<1>4. ASSUME NEW h \in Handles, QueryInternalInfo(h) PROVE IdsInv'
  BY <1>4, <1>a DEF QueryInternalInfo
<1>5. ASSUME NEW h \in Handles, ReadId(h) PROVE IdsInv'
  <2>1. UNCHANGED << device, infos, named, serials, tags, chunk >>
    BY <1>5 DEF ReadId
  <2>2. \A t \in reading' : ReadWell(t)'
    BY <1>5, <2>1, QuietReads DEF ReadWell
  <2> QED
    BY <1>0, <2>1, <2>2 DEF IdsInv, MapsAgree, ReadWell, IdsFitList
<1>6. CASE TestThread \/ EndRound \/ \E h \in Handles : Ask(h)
  BY <1>6, <1>a DEF TestThread, EndRound, Ask
<1>7. CASE IsSynced
  BY <1>7, <1>a DEF IsSynced
<1>8. CASE Deliver
  <2>1. PICK t \in reading : tags' = Append(tags, t)
    BY <1>8 DEF Deliver
  <2>2. tags \in Seq(Tags) /\ t \in Tags
    BY DEF IdsInv, TypeOK
  <2>3. \A n \in DOMAIN tags' : tags'[n] = t \/ (n \in DOMAIN tags /\ tags'[n] = tags[n])
    BY <2>1, <2>2
  <2> QED
    BY <1>8, <1>0, <2>3 DEF Deliver, IdsInv, MapsAgree, ReadWell, IdsFitList
<1>9. CASE StartLog
  BY <1>9, <1>a DEF StartLog
<1>10. CASE Retrieve
  BY <1>10, <1>a DEF Retrieve
<1>11. CASE StopLog
  BY <1>11, <1>a DEF StopLog
<1>12. CASE SaveLidarList
  BY <1>12, <1>0, ListFits DEF SaveLidarList, IdsInv, MapsAgree, ReadWell
<1>13. CASE UNCHANGED vars
  BY <1>13, <1>a DEF vars
<1> QED
  BY <1>1, <1>2, <1>3, <1>4, <1>5, <1>6, <1>7, <1>8, <1>9, <1>10, <1>11, <1>12,
     <1>13 DEF Next

\* Points whose ids were read between the same registrations as the list was
\* made fit the list, also when the SDK runs callbacks of commands in parallel.
THEOREM PointsFitTheList == Spec => []IdsFitList
<1>1. Init => IdsInv
  BY InitTypeOK DEF Init, IdsInv, MapsAgree, IdsFitList
<1>2. IdsInv => IdsFitList
  BY DEF IdsInv
<1> QED
  BY <1>1, <1>2, NextIdsInv, PTL DEF Spec

-----------------------------------------------------------------------------
(* The list by itself.                                                     *)

LEMMA RankBelow ==
  ASSUME NEW S \in SUBSET Serials, NEW s \in S
  PROVE  Rank(s, S) < Cardinality(S) /\ Cardinality(S) <= Cardinality(Serials)
<1> DEFINE A == {r \in S : r < s}
<1>1. IsFiniteSet(S) /\ IsFiniteSet(Serials) /\ A \in SUBSET S
  BY RankType, RegistryAssumption
<1>2. s \in S /\ s \notin A
  BY RegistryAssumption
<1>3. /\ Cardinality(A) \in Nat /\ Cardinality(S) \in Nat
      /\ Cardinality(A) <= Cardinality(S) /\ Cardinality(A) # Cardinality(S)
      /\ Cardinality(S) <= Cardinality(Serials)
  BY <1>1, <1>2, FS_Subset, FS_CardinalityType
<1> QED
  BY <1>3 DEF Rank

\* The list saved with a chunk names every LiDAR known when it was made, each
\* serial number once and under the id its points have, and none under the id of
\* the LiDARs that are not registered.
ListIsExact ==
  /\ \A s \in chunk.seen :
       Rank(s, chunk.seen) \in DOMAIN chunk.list /\ chunk.list[Rank(s, chunk.seen)] = s
  /\ \A i \in DOMAIN chunk.list :
       chunk.list[i] \in chunk.seen /\ Rank(chunk.list[i], chunk.seen) = i
  /\ Cardinality(Serials) <= Unknown => Unknown \notin DOMAIN chunk.list

LEMMA ListExact == ASSUME IdsInv, SaveLidarList PROVE ListIsExact'
<1> DEFINE At(i) == CHOOSE h \in infos : handleToLidarId(h) = i
<1>1. chunk'.list = LidarList /\ chunk'.seen = serials
  BY DEF SaveLidarList
<1>2. \A h \in infos : handleToLidarId(h) = Rank(device[h], serials) /\ device[h] \in serials
  BY DEF handleToLidarId, IdsInv, MapsAgree
<1>3. ASSUME NEW i \in DOMAIN LidarList
      PROVE  LidarList[i] \in serials /\ Rank(LidarList[i], serials) = i
  <2>1. i \in {handleToLidarId(h) : h \in infos} /\ LidarList[i] = device[At(i)]
    BY <1>3 DEF LidarList
  <2>2. At(i) \in infos /\ handleToLidarId(At(i)) = i
    BY <2>1
  <2> QED
    BY <1>2, <2>1, <2>2
<1>4. ASSUME NEW s \in serials
      PROVE  Rank(s, serials) \in DOMAIN LidarList /\ LidarList[Rank(s, serials)] = s
  <2>1. PICK h \in infos : device[h] = s
    BY DEF IdsInv, MapsAgree
  <2>2. Rank(s, serials) \in DOMAIN LidarList
    BY <1>2, <2>1 DEF LidarList
  <2> QED
    BY <1>3, <2>2, RankDistinguishes DEF IdsInv, TypeOK
<1>5. ASSUME Cardinality(Serials) <= Unknown PROVE Unknown \notin DOMAIN LidarList
  <2> SUFFICES ASSUME Unknown \in DOMAIN LidarList PROVE FALSE
    OBVIOUS
  <2>1. PICK s \in serials : Rank(s, serials) = Unknown
    BY <1>3
  <2>2. /\ serials \in SUBSET Serials
        /\ Cardinality(Serials) \in Nat /\ Cardinality(serials) \in Nat
    BY RankType, FS_CardinalityType, RegistryAssumption DEF IdsInv, TypeOK
  <2> QED
    BY <1>5, <2>1, <2>2, RankBelow DEF Unknown
<1> QED
  BY <1>1, <1>3, <1>4, <1>5 DEF ListIsExact, Rank

\* No LiDAR is left out of a list, however registrations, answers and chunks
\* interleave (getSerialNumberToLidarIdMapping()).
THEOREM ListsAreExact == Spec => []ListIsExact
<1>1. Init => IdsInv /\ ListIsExact
  BY InitTypeOK DEF Init, IdsInv, MapsAgree, IdsFitList, ListIsExact
<1>2. IdsInv /\ ListIsExact /\ [Next]_vars => ListIsExact'
  <2> SUFFICES ASSUME IdsInv, ListIsExact, [Next]_vars PROVE ListIsExact'
    OBVIOUS
  <2>1. CASE SaveLidarList
    BY <2>1, ListExact
  <2>2. CASE ~SaveLidarList
    <3>1. UNCHANGED chunk
      BY <2>2 DEF Next, vars, chunkVars, LidarInfoChange, LockRegistry, Register,
        QueryInternalInfo, TestThread, EndRound, Ask, IsSynced, ReadId, Deliver,
        StartLog, Retrieve, StopLog
    <3> QED
      BY <3>1 DEF ListIsExact
  <2> QED
    BY <2>1, <2>2
<1> QED
  BY <1>1, <1>2, NextIdsInv, PTL DEF Spec

-----------------------------------------------------------------------------
LEMMA NextSyncInv ==
  ASSUME SerialCallbacks, SyncInv, [Next]_vars
  PROVE  SyncInv'
<1>0. TypeOK'
  BY NextTypeOK DEF SyncInv
<1> USE DEF registryVars, mapVars, watchVars, SyncInv, AskedAreNamed, SyncFindsSerials
<1>a. ASSUME UNCHANGED registryVars PROVE SyncInv'
  BY <1>a, <1>0
<1>1. ASSUME NEW h \in Handles, LidarInfoChange(h) PROVE SyncInv'
  BY <1>1, <1>0 DEF LidarInfoChange, TypeOK
<1>2. ASSUME NEW h \in Handles, LockRegistry(h) PROVE SyncInv'
  BY <1>2, <1>0 DEF LockRegistry, TypeOK
<1>3. ASSUME NEW h \in Handles, Register(h) PROVE SyncInv'
  BY <1>3, <1>0 DEF Register, TypeOK
<1>4. ASSUME NEW h \in Handles, QueryInternalInfo(h) PROVE SyncInv'
  <2>1. CASE UNCHANGED timeSync
    BY <1>4, <1>0, <2>1 DEF QueryInternalInfo
  <2>2. CASE AllIdle /\ \E mode \in {"off", "on"} : timeSync' = [timeSync EXCEPT ![h] = mode]
    <3>1. h \in named
      BY <1>4, <2>2 DEF QueryInternalInfo, AllIdle
    <3> QED
      BY <1>4, <1>0, <2>2, <3>1 DEF QueryInternalInfo, TypeOK
  <2> QED
    BY <1>4, <2>1, <2>2 DEF QueryInternalInfo
<1>5. ASSUME NEW h \in Handles, ReadId(h) PROVE SyncInv'
  BY <1>5, <1>a DEF ReadId
<1>6. CASE TestThread \/ EndRound \/ \E h \in Handles : Ask(h)
  BY <1>6, <1>0 DEF TestThread, EndRound, Ask, TypeOK
<1>7. CASE IsSynced
  <2>1. "threw" \notin SyncOutcomes
    BY DEF SyncOutcomes
  <2> QED
    BY <1>7, <1>0, <2>1 DEF IsSynced
<1>8. CASE Deliver
  BY <1>8, <1>a DEF Deliver
<1>9. CASE StartLog \/ Retrieve \/ StopLog \/ SaveLidarList
  BY <1>9, <1>a DEF StartLog, Retrieve, StopLog, SaveLidarList
<1>10. CASE UNCHANGED vars
  BY <1>10, <1>a DEF vars
<1> QED
  BY <1>1, <1>2, <1>3, <1>4, <1>5, <1>6, <1>7, <1>8, <1>9, <1>10 DEF Next

\* With answers worked on outside reports of LiDARs, isSynced() never throws.
THEOREM IsSyncedFindsSerials ==
  ASSUME SerialCallbacks
  PROVE  Spec => []SyncFindsSerials
<1>1. Init => SyncInv
  BY InitTypeOK DEF Init, SyncInv, AskedAreNamed, SyncFindsSerials
<1>2. SyncInv /\ [Next]_vars => SyncInv'
  BY NextSyncInv
<1>3. SyncInv => SyncFindsSerials
  BY DEF SyncInv
<1> QED
  BY <1>1, <1>2, <1>3, PTL DEF Spec

=============================================================================
