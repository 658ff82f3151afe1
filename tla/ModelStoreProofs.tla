--------------------------- MODULE ModelStoreProofs ---------------------------
(* For every catalog, every set of requests and every file size: types and *)
(* locks of ModelStore without further assumption, and the properties of   *)
(* the model directory when no two files of the catalog share a path.      *)
EXTENDS ModelStore, TLAPS

TypeInv == TypeOK /\ WellFormed /\ LockHeld

(* The path a request is fetching is a path of the catalog, and the part   *)
(* is one that is still to do.                                             *)
LEMMA CurInPaths ==
    ASSUME WellFormed, NEW r \in Requests, pc[r] \in Fetching
    PROVE  /\ Cur(r) \in Paths
           /\ CurPart(r) \in todo[r]
           /\ CurPart(r) \in Parts(model[r])
           /\ model[r] \in Models
  <1>1. model[r] \in Models /\ todo[r] # {} /\ todo[r] \subseteq Parts(model[r])
    BY DEF WellFormed, Fetching, Downloading, Active, Locked
  <1>2. CurPart(r) \in todo[r]
    BY <1>1 DEF CurPart, Parts
  <1> QED
    BY <1>1, <1>2 DEF Cur, Paths

\* Types, well-formedness and locks hold in the initial states ...
LEMMA TypeInit == Init => TypeInv
  BY DEF Init, TypeInv, TypeOK, WellFormed, LockHeld, Active, Locked, Downloading, Fetching, Results

\* ... and after every step: EnsureAvailable never works without its lock.
LEMMA TypeStep == ASSUME TypeInv, [Next]_vars PROVE TypeInv'
  <1> USE NoFileAssumption, NoModelAssumption DEF TypeInv
  <1>1. ASSUME NEW r \in Requests, Step(r) PROVE TypeInv'
    <2> USE DEF Goto, Reject, Return, diskVars, routerVars, Active, Locked, Downloading, Fetching, Results
    <2>1. CASE Lock(r)
      BY <2>1 DEF Lock, TypeOK, WellFormed, LockHeld
    <2>2. CASE CheckFiles(r)
      <3>1. TypeOK'
        BY <2>2 DEF CheckFiles, TypeOK, Parts
      <3>2. WellFormed'
        BY <2>2 DEF CheckFiles, TypeOK, WellFormed, Parts
      <3>3. LockHeld'
        BY <2>2 DEF CheckFiles, TypeOK, LockHeld
      <3> QED
        BY <3>1, <3>2, <3>3
    <2>3. CASE ListFiles(r)
      BY <2>3 DEF ListFiles, TypeOK, WellFormed, LockHeld
    <2>4. CASE EnsureFails(r)
      BY <2>4 DEF EnsureFails, TypeOK, WellFormed, LockHeld
    <2>5. CASE GetBody(r)
      BY <2>5 DEF GetBody, TypeOK, WellFormed, LockHeld
    <2>6. CASE RemoveTmp(r)
      BY <2>6 DEF RemoveTmp, TypeOK, WellFormed, LockHeld
    <2>7. CASE OpenTmp(r)
      <3>0. Cur(r) \in Paths
        BY <2>7, CurInPaths DEF OpenTmp
      <3>1. TypeOK'
        BY <2>7, <3>0 DEF OpenTmp, TypeOK
      <3>2. WellFormed'
        BY <2>7 DEF OpenTmp, TypeOK, WellFormed
      <3>3. LockHeld'
        BY <2>7 DEF OpenTmp, TypeOK, LockHeld
      <3> QED
        BY <3>1, <3>2, <3>3
    <2>8. CASE OpenFails(r)
      BY <2>8 DEF OpenFails, TypeOK, WellFormed, LockHeld
    <2>9. CASE CopyChunk(r)
      <3>0. Cur(r) \in Paths
        BY <2>9, CurInPaths DEF CopyChunk
      <3>1. TypeOK'
        <4>1. off[r] \in Nat /\ off[r] + 1 \in Nat
          BY DEF TypeOK
        <4>2. \A q \in Requests : content[q][Cur(r)] \cup {off[r] + 1} \in SUBSET Nat
          BY <3>0, <4>1 DEF TypeOK
        <4>3. content' \in [Requests -> [Paths -> SUBSET Nat]]
          BY <2>9, <3>0, <4>2 DEF CopyChunk, TypeOK
        <4> QED
          BY <2>9, <4>1, <4>3 DEF CopyChunk, TypeOK
      <3>2. WellFormed'
        BY <2>9 DEF CopyChunk, TypeOK, WellFormed
      <3>3. LockHeld'
        BY <2>9 DEF CopyChunk, TypeOK, LockHeld
      <3> QED
        BY <3>1, <3>2, <3>3
    <2>10. CASE CopyDone(r)
      BY <2>10 DEF CopyDone, TypeOK, WellFormed, LockHeld
    <2>11. CASE CopyFails(r)
      BY <2>11 DEF CopyFails, TypeOK, WellFormed, LockHeld
    <2>12. CASE StatTmp(r)
      BY <2>12 DEF StatTmp, TypeOK, WellFormed, LockHeld
    <2>13. CASE DiscardTmp(r)
      BY <2>13 DEF DiscardTmp, TypeOK, WellFormed, LockHeld
    <2>14. CASE Rename(r)
      <3>1. Cur(r) \in Paths
        BY <2>14, CurInPaths DEF Rename
      <3>2. TypeOK'
        BY <2>14, <3>1 DEF Rename, TypeOK
      <3>3. WellFormed'
        BY <2>14 DEF Rename, TypeOK, WellFormed
      <3>4. LockHeld'
        BY <2>14 DEF Rename, TypeOK, LockHeld
      <3> QED
        BY <3>2, <3>3, <3>4
    <2>15. CASE RenameFails(r)
      BY <2>15 DEF RenameFails, TypeOK, WellFormed, LockHeld
    <2>16. CASE CheckContext(r)
      <3>1. TypeOK'
        BY <2>16 DEF CheckContext, TypeOK
      <3>2. WellFormed'
        BY <2>16 DEF CheckContext, TypeOK, WellFormed
      <3>3. LockHeld'
        <4>1. CASE cancelled[r]
          <5>1. /\ pc[r] = "ctx" /\ model' = model
                /\ pc' = [pc EXCEPT ![r] = "done"]
                /\ holder' = [holder EXCEPT ![model[r]] = NoFile]
            BY <2>16, <4>1 DEF CheckContext
          <5> QED
            BY <5>1 DEF TypeOK, LockHeld
        <4>2. CASE ~cancelled[r]
          BY <2>16, <4>2 DEF CheckContext, TypeOK, LockHeld
        <4> QED
          BY <4>1, <4>2
      <3> QED
        BY <3>1, <3>2, <3>3
    <2>17. CASE RouterHasModel(r)
      BY <2>17 DEF RouterHasModel, TypeOK, WellFormed, LockHeld
    <2>18. CASE RouterLacksModel(r)
      BY <2>18 DEF RouterLacksModel, TypeOK, WellFormed, LockHeld
    <2> QED
      BY <1>1, <2>1, <2>2, <2>3, <2>4, <2>5, <2>6, <2>7, <2>8, <2>9, <2>10, <2>11,
         <2>12, <2>13, <2>14, <2>15, <2>16, <2>17, <2>18 DEF Step
  <1>2. ASSUME NEW r \in Requests, Begin(r) \/ Cancel(r) PROVE TypeInv'
    <2> USE DEF Goto, Reject, diskVars, routerVars, Active, Locked, Downloading, Fetching, Results
    <2>1. CASE UnknownModel(r)
      BY <2>1 DEF UnknownModel, TypeOK, WellFormed, LockHeld
    <2>2. ASSUME NEW m \in Models, NEW k \in Kinds, Arrive(r, m, k) PROVE TypeInv'
      BY <2>2 DEF Arrive, TypeOK, WellFormed, LockHeld
    <2>3. ASSUME NEW m \in Models, NEW k \in Kinds, KindMismatch(r, m, k) PROVE TypeInv'
      BY <2>3 DEF KindMismatch, TypeOK, WellFormed, LockHeld
    <2>4. CASE Cancel(r)
      BY <2>4 DEF Cancel, TypeOK, WellFormed, LockHeld
    <2> QED
      BY <1>2, <2>1, <2>2, <2>3, <2>4 DEF Begin
  <1>3. CASE Crash
    BY <1>3 DEF Crash, TypeOK, WellFormed, LockHeld, diskVars, routerVars, Active, Locked,
                Downloading, Fetching, Results
  <1>4. CASE RouterStop \/ RouterStart \/ UNCHANGED vars
    BY <1>4 DEF RouterStop, RouterStart, vars, TypeOK, WellFormed, LockHeld, reqVars, diskVars,
                routerVars
  <1> QED
    BY <1>1, <1>2, <1>3, <1>4 DEF Next

(* Every reachable state of EnsureAvailable and download() has its type,   *)
(* whatever the catalog: tmp, stable and content never get an entry for a  *)
(* path outside the catalog, and descriptors name inodes that exist.       *)
THEOREM TypeCorrect == Spec => []TypeOK
  <1>1. TypeInv => TypeOK
    BY DEF TypeInv
  <1> QED
    BY TypeInit, TypeStep, <1>1, PTL DEF Spec

-----------------------------------------------------------------------------
(* From here on: a catalog without shared paths.                           *)
Inv == TypeInv /\ StoreInv

(* Two requests that fetch at the same time fetch different models, hence  *)
(* different paths.                                                        *)
LEMMA Separate ==
    ASSUME PathsDisjoint, TypeInv, NEW r \in Requests, NEW s \in Requests, r # s,
           pc[r] \in Fetching, pc[s] \in Fetching
    PROVE  \A a \in Parts(model[s]) : PathOf(model[s], a) # Cur(r)
  <1>1. CurPart(r) \in Parts(model[r]) /\ model[r] \in Models /\ model[s] \in Models
    BY CurInPaths DEF TypeInv
  <1>2. model[r] # model[s]
    BY DEF TypeInv, LockHeld, Fetching, Locked, Downloading
  <1> QED
    BY <1>1, <1>2 DEF PathsDisjoint, Cur

(* A file that a request has still to fetch is not published.              *)
LEMMA CurUnpublished ==
    ASSUME Inv, NEW r \in Requests, pc[r] \in Fetching
    PROVE  Cur(r) \in Paths /\ stable[Cur(r)] = NoFile
  <1>1. /\ Cur(r) \in Paths /\ CurPart(r) \in todo[r]
        /\ CurPart(r) \in Parts(model[r])
    BY CurInPaths DEF Inv, TypeInv
  <1> QED
    BY <1>1 DEF Inv, StoreInv, TodoExact, Cur

\* A published file is never empty, so fileExists sees it.
LEMMA PublishedExists ==
    ASSUME StableComplete, NEW p \in Paths
    PROVE  FileExists(p) <=> stable[p] # NoFile
  <1>1. ASSUME stable[p] # NoFile PROVE content[stable[p]][p] # {}
    <2>1. Size[p] \in Nat /\ Size[p] > 0 /\ content[stable[p]][p] = 1 .. Size[p]
      BY <1>1, SizeAssumption DEF StableComplete, Chunks
    <2>2. 1 \in 1 .. Size[p]
      BY <2>1
    <2> QED
      BY <2>1, <2>2
  <1> QED
    BY <1>1 DEF FileExists

\* No step touches a published file: only OpenTmp, CopyChunk and Rename could.
LEMMA PublishedStep ==
    ASSUME PathsDisjoint, Inv, [Next]_vars
    PROVE  PublishedStays
  <1>1. CASE UNCHANGED <<stable, content>>
    BY <1>1 DEF PublishedStays
  <1>2. ASSUME NEW r \in Requests, OpenTmp(r) PROVE PublishedStays
    <2>1. Cur(r) \in Paths /\ stable[Cur(r)] = NoFile
      BY <1>2, CurUnpublished DEF OpenTmp, Fetching, Downloading
    <2>2. tmp[Cur(r)] = NoFile
      BY <1>2 DEF OpenTmp, Inv, StoreInv, OwnTmp
    <2>3. stable' = stable /\ content' = [content EXCEPT ![r][Cur(r)] = {}]
      BY <1>2, <2>2 DEF OpenTmp
    <2> QED
      BY <2>1, <2>3 DEF PublishedStays, Inv, TypeInv, TypeOK
  <1>3. ASSUME NEW r \in Requests, CopyChunk(r) PROVE PublishedStays
    <2>1. Cur(r) \in Paths /\ stable[Cur(r)] = NoFile
      BY <1>3, CurUnpublished DEF CopyChunk, Fetching, Downloading
    <2>2. \A q \in Requests : \A p \in Paths : p # Cur(r) => content'[q][p] = content[q][p]
      BY <1>3 DEF CopyChunk, Inv, TypeInv, TypeOK
    <2>3. stable' = stable
      BY <1>3 DEF CopyChunk
    <2> QED
      BY <2>1, <2>2, <2>3 DEF PublishedStays, Inv, TypeInv, TypeOK
  <1>4. ASSUME NEW r \in Requests, Rename(r) PROVE PublishedStays
    <2>1. Cur(r) \in Paths /\ stable[Cur(r)] = NoFile
      BY <1>4, CurUnpublished DEF Rename, Fetching, Downloading
    <2> QED
      BY <1>4, <2>1 DEF Rename, PublishedStays, Inv, TypeInv, TypeOK
  <1>5. ASSUME NEW r \in Requests, Step(r), ~OpenTmp(r), ~CopyChunk(r), ~Rename(r)
        PROVE  UNCHANGED <<stable, content>>
    BY <1>5 DEF Step, Lock, CheckFiles, ListFiles, EnsureFails, GetBody, RemoveTmp, OpenFails,
                CopyDone, CopyFails, StatTmp, DiscardTmp, RenameFails, CheckContext,
                RouterHasModel, RouterLacksModel, diskVars
  <1>6. ASSUME NEW r \in Requests, Begin(r) \/ Cancel(r) PROVE UNCHANGED <<stable, content>>
    BY <1>6 DEF Begin, Arrive, UnknownModel, KindMismatch, Cancel, diskVars
  <1>7. ASSUME Crash \/ RouterStop \/ RouterStart \/ UNCHANGED vars
        PROVE  UNCHANGED <<stable, content>>
    BY <1>7 DEF Crash, RouterStop, RouterStart, vars, diskVars
  <1> QED
    BY <1>1, <1>2, <1>3, <1>4, <1>5, <1>6, <1>7 DEF Next

\* Only Rename publishes, and only the caller's complete file.
LEMMA CompleteStep ==
    ASSUME PathsDisjoint, Inv, [Next]_vars
    PROVE  StableComplete'
  <1>1. PublishedStays
    BY PublishedStep
  <1>2. ASSUME NEW r \in Requests, Rename(r) PROVE StableComplete'
    <2>1. Cur(r) \in Paths /\ tmp[Cur(r)] = r /\ content[r][Cur(r)] = Chunks(Cur(r)) /\ Size[Cur(r)] > 0
      BY <1>2, CurUnpublished DEF Rename, Fetching, Downloading, Inv, StoreInv, OwnTmp
    <2> QED
      BY <1>2, <2>1 DEF Rename, StableComplete, Inv, StoreInv, TypeInv, TypeOK, Chunks
  <1>3. ASSUME stable' = stable PROVE StableComplete'
    BY <1>1, <1>3 DEF PublishedStays, StableComplete, Inv, StoreInv, Chunks
  <1>4. ASSUME NEW r \in Requests, Step(r), ~Rename(r) PROVE stable' = stable
    BY <1>4 DEF Step, Lock, CheckFiles, ListFiles, EnsureFails, GetBody, RemoveTmp, OpenTmp,
                OpenFails, CopyChunk, CopyDone, CopyFails, StatTmp, DiscardTmp, RenameFails,
                CheckContext, RouterHasModel, RouterLacksModel, diskVars
  <1>5. ASSUME NEW r \in Requests, Begin(r) \/ Cancel(r) PROVE stable' = stable
    BY <1>5 DEF Begin, Arrive, UnknownModel, KindMismatch, Cancel, diskVars
  <1>6. ASSUME Crash \/ RouterStop \/ RouterStart \/ UNCHANGED vars PROVE stable' = stable
    BY <1>6 DEF Crash, RouterStop, RouterStart, vars, diskVars
  <1> QED
    BY <1>2, <1>3, <1>4, <1>5, <1>6 DEF Next

(* TodoExact and OwnTmp speak of one request at a time; a step of another  *)
(* request works on another path.                                          *)
TodoExactOf(r) ==
    pc[r] \in Fetching =>
        \A part \in Parts(model[r]) :
            part \in todo[r] <=> stable[PathOf(model[r], part)] = NoFile

OwnTmpOf(r) ==
    /\ pc[r] = "open" => tmp[Cur(r)] = NoFile
    /\ pc[r] = "copy" => /\ fd[r] = r
                         /\ off[r] <= Size[Cur(r)]
                         /\ content[r][Cur(r)] = 1 .. off[r]
    /\ pc[r] \in {"copy", "stat", "rename"} => tmp[Cur(r)] = r
    /\ pc[r] \in {"stat", "rename"} => content[r][Cur(r)] = Chunks(Cur(r))
    /\ pc[r] = "rename" => Size[Cur(r)] > 0

FileInv(r) == TodoExactOf(r) /\ OwnTmpOf(r)

PastEnsure(r) == pc[r] \in {"ctx", "router"} \/ result[r] \in {"ok", "cancelled", "registry_stale"}
Present(r) == \A part \in Parts(model[r]) : stable[PathOf(model[r], part)] # NoFile

\* The invariant request by request, the form the steps below preserve.
LEMMA StoreInvParts ==
    ASSUME TypeInv
    PROVE  StoreInv <=> /\ StableComplete
                        /\ \A r \in Requests : FileInv(r) /\ (PastEnsure(r) => Present(r))
  <1>1. ASSUME StableComplete, NEW r \in Requests, PastEnsure(r)
        PROVE  Present(r) <=> \A part \in Parts(model[r]) : FileExists(PathOf(model[r], part))
    <2>1. model[r] \in Models
      BY <1>1 DEF TypeInv, WellFormed, PastEnsure, Active, Locked
    <2>2. \A part \in Parts(model[r]) : PathOf(model[r], part) \in Paths
      BY <2>1 DEF Paths
    <2> QED
      BY <1>1, <2>2, PublishedExists DEF Present
  <1> QED
    BY <1>1 DEF StoreInv, TypeInv, FileInv, TodoExactOf, OwnTmpOf, TodoExact, OwnTmp, Materialised, PastEnsure

(* A step of r leaves what FileInv says of another request s alone.        *)
LEMMA FileInvFrame ==
    ASSUME PathsDisjoint, Inv, NEW r \in Requests, NEW s \in Requests, r # s, Step(r)
    PROVE  FileInv(s)'
  <1>1. /\ pc'[s] = pc[s] /\ model'[s] = model[s] /\ todo'[s] = todo[s]
        /\ off'[s] = off[s] /\ fd'[s] = fd[s]
    BY DEF Inv, TypeInv, TypeOK, Goto, Reject, Return,
           Step, Lock, CheckFiles, ListFiles, EnsureFails, GetBody, RemoveTmp, OpenTmp, OpenFails,
           CopyChunk, CopyDone, CopyFails, StatTmp, DiscardTmp, Rename, RenameFails, CheckContext,
           RouterHasModel, RouterLacksModel
  <1>2. Cur(s)' = Cur(s)
    BY <1>1 DEF Cur, CurPart
  <1>3. CASE pc[s] \notin Fetching
    BY <1>1, <1>3 DEF FileInv, TodoExactOf, OwnTmpOf, Fetching, Downloading
  <1>4. CASE pc[s] \in Fetching
    <2>1. \A a \in Parts(model[s]) : PathOf(model[s], a) \in Paths
      BY <1>4, CurInPaths DEF Paths, Inv, TypeInv
    <2>2. CurPart(s) \in Parts(model[s]) /\ Cur(s) \in Paths
      BY <1>4, CurInPaths DEF Inv, TypeInv
    <2>3. ASSUME NEW a \in Parts(model[s])
          PROVE  LET p == PathOf(model[s], a)
                 IN  /\ tmp'[p] = tmp[p] /\ stable'[p] = stable[p]
                     /\ \A q \in Requests : content'[q][p] = content[q][p]
      <3>1. CASE UNCHANGED diskVars
        BY <3>1 DEF diskVars
      <3>2. CASE ~UNCHANGED diskVars
        <4> DEFINE p == PathOf(model[s], a)
        <4>1. pc[r] \in Fetching /\ Cur(r) \in Paths
          <5>1. pc[r] \in Fetching
            BY <3>2 DEF Fetching, Downloading,
               Step, Lock, CheckFiles, ListFiles, EnsureFails, GetBody, RemoveTmp, OpenTmp, OpenFails,
           CopyChunk, CopyDone, CopyFails, StatTmp, DiscardTmp, Rename, RenameFails, CheckContext,
           RouterHasModel, RouterLacksModel
          <5> QED
            BY <5>1, CurInPaths DEF Inv, TypeInv
        <4>2. p # Cur(r) /\ p \in Paths
          BY <1>4, <2>1, <4>1, Separate DEF Inv
        <4>3. CASE RemoveTmp(r) \/ DiscardTmp(r)
          BY <4>1, <4>2, <4>3 DEF RemoveTmp, DiscardTmp, Inv, TypeInv, TypeOK
        <4>4. CASE OpenTmp(r)
          BY <4>1, <4>2, <4>4 DEF OpenTmp, Inv, TypeInv, TypeOK
        <4>5. CASE CopyChunk(r)
          BY <4>1, <4>2, <4>5 DEF CopyChunk, Inv, TypeInv, TypeOK
        <4>6. CASE Rename(r)
          BY <4>1, <4>2, <4>6 DEF Rename, Inv, TypeInv, TypeOK
        <4> QED
          BY <3>2, <4>3, <4>4, <4>5, <4>6 DEF
             Step, Lock, CheckFiles, ListFiles, EnsureFails, GetBody, OpenFails, CopyDone,
             CopyFails, StatTmp, RenameFails, CheckContext, RouterHasModel, RouterLacksModel
      <3> QED
        BY <3>1, <3>2
    <2>4. /\ tmp'[Cur(s)] = tmp[Cur(s)]
          /\ content'[s][Cur(s)] = content[s][Cur(s)]
      BY <2>2, <2>3 DEF Cur
    <2>5. FileInv(s)
      BY StoreInvParts DEF Inv
    <2>6. TodoExactOf(s)'
      BY <1>1, <2>3, <2>5 DEF FileInv, TodoExactOf
    <2>7. OwnTmpOf(s)'
      BY <1>1, <1>2, <2>4, <2>5 DEF FileInv, OwnTmpOf, Chunks
    <2> QED
      BY <2>6, <2>7 DEF FileInv
  <1> QED
    BY <1>3, <1>4

\* A step of r keeps FileInv for r itself.
LEMMA FileInvOwn ==
    ASSUME PathsDisjoint, Inv, NEW r \in Requests, Step(r)
    PROVE  FileInv(r)'
  <1> USE DEF Goto, Fetching, Downloading
  <1>0. FileInv(r) /\ TypeOK /\ StableComplete
    BY StoreInvParts DEF Inv, TypeInv
  <1>a. pc[r] \in Fetching => Cur(r) \in Paths /\ stable[Cur(r)] = NoFile /\ Size[Cur(r)] \in Nat
    BY CurUnpublished, SizeAssumption
  <1>1. CASE CheckFiles(r)
    <2>1. \A part \in Parts(model[r]) :
             FileExists(PathOf(model[r], part)) <=> stable[PathOf(model[r], part)] # NoFile
      <3>1. model[r] \in Models
        BY <1>1 DEF CheckFiles, Inv, TypeInv, WellFormed, Active, Locked
      <3> QED
        BY <1>0, <3>1, PublishedExists DEF Paths
    <2> QED
      BY <1>0, <1>1, <2>1 DEF CheckFiles, FileInv, TodoExactOf, OwnTmpOf, diskVars, TypeOK
  <1>2. CASE ListFiles(r) \/ GetBody(r)
    BY <1>0, <1>2 DEF ListFiles, GetBody, FileInv, TodoExactOf, OwnTmpOf, diskVars, TypeOK
  <1>3. CASE RemoveTmp(r)
    BY <1>0, <1>a, <1>3 DEF RemoveTmp, FileInv, TodoExactOf, OwnTmpOf, TypeOK, Cur, CurPart
  <1>4. CASE OpenTmp(r)
    <2>1. /\ pc[r] = "open" /\ tmp[Cur(r)] = NoFile
          /\ tmp' = [tmp EXCEPT ![Cur(r)] = r]
          /\ content' = [content EXCEPT ![r][Cur(r)] = {}]
          /\ fd' = [fd EXCEPT ![r] = r] /\ off' = [off EXCEPT ![r] = 0]
          /\ pc' = [pc EXCEPT ![r] = "copy"]
          /\ UNCHANGED <<model, todo, stable>>
      BY <1>0, <1>4 DEF OpenTmp, FileInv, OwnTmpOf
    <2>2. Cur(r)' = Cur(r) /\ Cur(r) \in Paths /\ Size[Cur(r)] \in Nat
      BY <1>a, <2>1 DEF Cur, CurPart
    <2>3. /\ pc'[r] = "copy" /\ tmp'[Cur(r)] = r /\ content'[r][Cur(r)] = {}
          /\ fd'[r] = r /\ off'[r] = 0
      BY <1>0, <2>1, <2>2 DEF TypeOK
    <2>4. 1 .. 0 = {}
      OBVIOUS
    <2>5. TodoExactOf(r)'
      BY <1>0, <2>1 DEF FileInv, TodoExactOf
    <2>6. OwnTmpOf(r)'
      BY <2>2, <2>3, <2>4 DEF OwnTmpOf
    <2> QED
      BY <2>5, <2>6 DEF FileInv
  <1>5. CASE CopyChunk(r)
    <2>1. /\ pc[r] = "copy" /\ fd[r] = r /\ tmp[Cur(r)] = r /\ off[r] < Size[Cur(r)]
          /\ content[r][Cur(r)] = 1 .. off[r]
          /\ UNCHANGED <<pc, model, todo, fd, tmp, stable>>
      BY <1>0, <1>5 DEF CopyChunk, FileInv, OwnTmpOf
    <2>2. Cur(r)' = Cur(r) /\ Cur(r) \in Paths /\ Size[Cur(r)] \in Nat
      BY <1>a, <2>1 DEF Cur, CurPart
    <2>3. off[r] \in Nat /\ off'[r] = off[r] + 1 /\ off'[r] <= Size[Cur(r)]
      BY <1>0, <1>5, <2>1, <2>2 DEF CopyChunk, TypeOK
    <2>4. content'[r][Cur(r)] = (1 .. off[r]) \cup {off[r] + 1}
      BY <1>0, <1>5, <2>1, <2>2 DEF CopyChunk, TypeOK
    <2>5. (1 .. off[r]) \cup {off[r] + 1} = 1 .. (off[r] + 1)
      BY <2>3
    <2>6. TodoExactOf(r)'
      BY <1>0, <2>1 DEF FileInv, TodoExactOf
    <2>7. OwnTmpOf(r)'
      BY <2>1, <2>2, <2>3, <2>4, <2>5 DEF OwnTmpOf
    <2> QED
      BY <2>6, <2>7 DEF FileInv
  <1>6. CASE CopyDone(r)
    BY <1>0, <1>a, <1>6 DEF CopyDone, FileInv, TodoExactOf, OwnTmpOf, diskVars, TypeOK, Cur, CurPart, Chunks
  <1>7. CASE CopyFails(r)
    BY <1>0, <1>7 DEF CopyFails, FileInv, TodoExactOf, OwnTmpOf, diskVars, TypeOK
  <1>8. CASE StatTmp(r)
    <2>1. /\ pc[r] = "stat" /\ tmp[Cur(r)] = r /\ content[r][Cur(r)] = 1 .. Size[Cur(r)]
          /\ Size[Cur(r)] \in Nat
          /\ UNCHANGED <<model, todo, diskVars>>
      BY <1>0, <1>a, <1>8 DEF StatTmp, FileInv, OwnTmpOf, Chunks
    <2>2. Cur(r)' = Cur(r)
      BY <2>1 DEF Cur, CurPart
    <2>3. pc'[r] \in {"discard", "rename"} /\ (pc'[r] = "rename" => content[r][Cur(r)] # {})
      BY <1>0, <1>8, <2>1 DEF StatTmp, TypeOK
    <2>4. content[r][Cur(r)] # {} => Size[Cur(r)] > 0
      BY <2>1
    <2>5. TodoExactOf(r)'
      BY <1>0, <2>1 DEF FileInv, TodoExactOf, diskVars
    <2>6. OwnTmpOf(r)'
      BY <2>1, <2>2, <2>3, <2>4 DEF OwnTmpOf, diskVars, Chunks
    <2> QED
      BY <2>5, <2>6 DEF FileInv
  <1>9. CASE Rename(r)
    <2>1. CurPart(r) \in Parts(model[r]) /\ model[r] \in Models
      BY <1>9, CurInPaths DEF Rename, Inv, TypeInv
    <2>2. \A a \in Parts(model[r]) : a # CurPart(r) => PathOf(model[r], a) # Cur(r)
      BY <2>1 DEF PathsDisjoint, Cur
    <2>3. \A a \in Parts(model[r]) : PathOf(model[r], a) \in Paths
      BY <2>1 DEF Paths
    <2>4. \A a \in Parts(model[r]) :
             stable'[PathOf(model[r], a)] = NoFile <=> (a # CurPart(r) /\ stable[PathOf(model[r], a)] = NoFile)
      BY <1>0, <1>9, <2>2, <2>3 DEF Rename, TypeOK, Cur
    <2>5. \A a \in Parts(model[r]) : a \in todo'[r] <=> (a # CurPart(r) /\ a \in todo[r])
      BY <1>0, <1>9 DEF Rename, TypeOK
    <2>6. pc[r] = "rename" /\ model' = model /\ pc'[r] \in {"ctx", "get"}
      BY <1>0, <1>9 DEF Rename, TypeOK
    <2>7. TodoExactOf(r)'
      BY <1>0, <2>4, <2>5, <2>6 DEF FileInv, TodoExactOf
    <2>8. OwnTmpOf(r)'
      BY <2>6 DEF OwnTmpOf
    <2> QED
      BY <2>7, <2>8 DEF FileInv
  <1>10. CASE Lock(r) \/ EnsureFails(r) \/ OpenFails(r) \/ DiscardTmp(r) \/ RenameFails(r)
              \/ CheckContext(r) \/ RouterHasModel(r) \/ RouterLacksModel(r)
    <2>1. pc'[r] \in {"ensure", "done", "router"}
      BY <1>0, <1>10 DEF Lock, EnsureFails, OpenFails, DiscardTmp, RenameFails, CheckContext,
                  RouterHasModel, RouterLacksModel, Return, Reject, TypeOK
    <2> QED
      BY <2>1 DEF FileInv, TodoExactOf, OwnTmpOf
  <1> QED
    BY <1>1, <1>2, <1>3, <1>4, <1>5, <1>6, <1>7, <1>8, <1>9, <1>10 DEF Step

\* A request past Ensure has all its files, and keeps them.
LEMMA PresentStep ==
    ASSUME PathsDisjoint, Inv, [Next]_vars, NEW s \in Requests, PastEnsure(s)'
    PROVE  Present(s)'
  <1>0. TypeOK /\ StableComplete /\ WellFormed /\ (PastEnsure(s) => Present(s)) /\ FileInv(s)
    BY StoreInvParts DEF Inv, TypeInv, StoreInv
  <1>1. ASSUME model'[s] = model[s], PastEnsure(s) PROVE Present(s)'
    <2>1. PublishedStays
      BY PublishedStep
    <2>2. model[s] \in Models
      BY <1>0, <1>1 DEF WellFormed, PastEnsure, Active, Locked
    <2> QED
      BY <1>0, <1>1, <2>1, <2>2 DEF PublishedStays, Present, Paths
  <1>2. ASSUME Step(s), ~PastEnsure(s) PROVE Present(s)'
    <2>1. CASE CheckFiles(s)
      <3>1. model[s] \in Models /\ model' = model /\ stable' = stable /\ pc[s] = "ensure" /\ result' = result
        BY <1>0, <2>1 DEF CheckFiles, WellFormed, Active, Locked, diskVars
      <3>2. pc'[s] = "ctx"
        BY <1>0, <1>2, <2>1, <3>1 DEF PastEnsure, CheckFiles, Goto, TypeOK
      <3>3. \A part \in Parts(model[s]) : FileExists(PathOf(model[s], part))
        BY <1>0, <2>1, <3>2 DEF CheckFiles, Goto, TypeOK
      <3> QED
        BY <1>0, <3>1, <3>3, PublishedExists DEF Present, Paths
    <2>2. CASE Rename(s)
      <3>1. /\ model[s] \in Models /\ model' = model /\ pc[s] = "rename" /\ result' = result
            /\ CurPart(s) \in todo[s]
        BY <2>2, CurInPaths DEF Rename, Fetching, Downloading, Inv, TypeInv
      <3>2. pc'[s] = "ctx" /\ todo'[s] = {}
        BY <1>0, <1>2, <2>2, <3>1 DEF PastEnsure, Rename, Goto, TypeOK
      <3>3. todo[s] \subseteq {CurPart(s)}
        BY <1>0, <2>2, <3>2 DEF Rename, TypeOK
      <3>4. \A part \in Parts(model[s]) : part # CurPart(s) => stable[PathOf(model[s], part)] # NoFile
        BY <1>0, <3>1, <3>3 DEF FileInv, TodoExactOf, Fetching, Downloading
      <3>5. \A part \in Parts(model[s]) : PathOf(model[s], part) \in Paths
        BY <3>1 DEF Paths
      <3> QED
        BY <1>0, <2>2, <3>1, <3>4, <3>5 DEF Rename, Present, Cur, TypeOK
    <2>3. CASE ~CheckFiles(s) /\ ~Rename(s)
      <3>1. ~PastEnsure(s)'
        BY <1>0, <1>2, <2>3 DEF PastEnsure, Step, Lock, ListFiles, EnsureFails, GetBody, RemoveTmp, OpenTmp,
           OpenFails, CopyChunk, CopyDone, CopyFails, StatTmp, DiscardTmp, RenameFails,
           CheckContext, RouterHasModel, RouterLacksModel, Goto, Reject, Return, TypeOK
      <3> QED
        BY <3>1
    <2> QED
      BY <2>1, <2>2, <2>3
  <1>3. ASSUME Step(s) PROVE model' = model
    BY <1>3 DEF Step, Lock, CheckFiles, ListFiles, EnsureFails, GetBody, RemoveTmp, OpenTmp,
           OpenFails, CopyChunk, CopyDone, CopyFails, StatTmp, DiscardTmp, Rename, RenameFails,
           CheckContext, RouterHasModel, RouterLacksModel
  <1>4. ASSUME NEW r \in Requests, r # s, Step(r) \/ Begin(r)
        PROVE  pc'[s] = pc[s] /\ model'[s] = model[s] /\ result'[s] = result[s]
    <2>1. CASE Step(r)
      BY <1>0, <1>4, <2>1 DEF TypeOK, Goto, Reject, Return, Step, Lock, CheckFiles, ListFiles,
         EnsureFails, GetBody, RemoveTmp, OpenTmp, OpenFails, CopyChunk, CopyDone, CopyFails, StatTmp,
         DiscardTmp, Rename, RenameFails, CheckContext, RouterHasModel, RouterLacksModel
    <2>2. CASE Begin(r)
      BY <1>0, <1>4, <2>2 DEF TypeOK, Goto, Reject, Begin, Arrive, UnknownModel, KindMismatch
    <2> QED
      BY <1>4, <2>1, <2>2
  <1>5. ASSUME Begin(s) PROVE FALSE
    BY <1>0, <1>5 DEF Begin, Arrive, UnknownModel, KindMismatch, Goto, Reject, PastEnsure, WellFormed, TypeOK
  <1>6. ASSUME NEW r \in Requests, Cancel(r) PROVE UNCHANGED <<pc, model, result>>
    BY <1>6 DEF Cancel
  <1>7. ASSUME RouterStop \/ RouterStart \/ UNCHANGED vars PROVE UNCHANGED <<pc, model, result>>
    BY <1>7 DEF RouterStop, RouterStart, vars, reqVars
  <1>8. ASSUME Crash PROVE model' = model /\ PastEnsure(s)
    BY <1>0, <1>8 DEF Crash, PastEnsure, TypeOK
  <1>9. ASSUME pc'[s] = pc[s], result'[s] = result[s] PROVE PastEnsure(s)
    BY <1>9 DEF PastEnsure
  <1> QED
    BY <1>1, <1>2, <1>3, <1>4, <1>5, <1>6, <1>7, <1>8, <1>9 DEF Next

\* Every step keeps what each request knows of its files.
LEMMA FileInvStep ==
    ASSUME PathsDisjoint, Inv, [Next]_vars, NEW s \in Requests
    PROVE  FileInv(s)'
  <1>0. TypeOK /\ FileInv(s)
    BY StoreInvParts DEF Inv, TypeInv
  <1>1. ASSUME NEW r \in Requests, Step(r) PROVE FileInv(s)'
    BY <1>1, FileInvFrame, FileInvOwn
  <1>2. ASSUME NEW r \in Requests, Begin(r)
        PROVE  /\ UNCHANGED <<todo, fd, off, diskVars>>
               /\ r # s => pc'[s] = pc[s] /\ model'[s] = model[s]
               /\ pc'[r] \in {"lock", "done"}
    BY <1>0, <1>2 DEF Begin, Arrive, UnknownModel, KindMismatch, Goto, Reject, TypeOK
  <1>3. ASSUME NEW r \in Requests, Cancel(r) PROVE UNCHANGED <<pc, model, todo, fd, off, diskVars>>
    BY <1>3 DEF Cancel
  <1>4. ASSUME RouterStop \/ RouterStart \/ UNCHANGED vars
        PROVE  UNCHANGED <<pc, model, todo, fd, off, diskVars>>
    BY <1>4 DEF RouterStop, RouterStart, vars, reqVars
  <1>5. ASSUME Crash PROVE pc'[s] \in {"idle", "done"}
    BY <1>0, <1>5 DEF Crash, TypeOK
  <1>6. ASSUME pc'[s] \in {"idle", "lock", "done"} PROVE FileInv(s)'
    BY <1>6 DEF FileInv, TodoExactOf, OwnTmpOf, Fetching, Downloading
  <1>7. ASSUME UNCHANGED <<todo, fd, off, diskVars>>, pc'[s] = pc[s], model'[s] = model[s]
        PROVE  FileInv(s)'
    BY <1>0, <1>7 DEF FileInv, TodoExactOf, OwnTmpOf, diskVars, Cur, CurPart
  <1> QED
    BY <1>1, <1>2, <1>3, <1>4, <1>5, <1>6, <1>7 DEF Next

\* The invariant holds initially ...
LEMMA InvInit == Init => Inv
  <1> SUFFICES ASSUME Init PROVE Inv
    OBVIOUS
  <1>1. TypeInv
    BY TypeInit
  <1>2. StableComplete
    BY DEF Init, StableComplete
  <1>3. ASSUME NEW r \in Requests PROVE FileInv(r) /\ ~PastEnsure(r)
    BY DEF Init, FileInv, TodoExactOf, OwnTmpOf, PastEnsure, Fetching, Downloading
  <1> QED
    BY <1>1, <1>2, <1>3, StoreInvParts DEF Inv

\* ... and is preserved by every step.
LEMMA InvStep == ASSUME PathsDisjoint, Inv, [Next]_vars PROVE Inv'
  <1>1. TypeInv'
    BY TypeStep DEF Inv
  <1>2. StableComplete'
    BY CompleteStep
  <1>3. \A s \in Requests : FileInv(s)'
    BY FileInvStep
  <1>4. \A s \in Requests : PastEnsure(s)' => Present(s)'
    BY PresentStep
  <1>5. (TypeInv => (StoreInv <=> /\ StableComplete
                        /\ \A r \in Requests : FileInv(r) /\ (PastEnsure(r) => Present(r))))'
    BY StoreInvParts, PTL
  <1> QED
    BY <1>1, <1>2, <1>3, <1>4, <1>5 DEF Inv

(* The properties of the model directory, for every catalog without shared *)
(* paths, every number of concurrent requests and every file size.  First: *)
(* a stable path of download() only ever names a complete file.            *)
THEOREM StableCompleteAlways ==
    ASSUME PathsDisjoint
    PROVE  Spec => []StableComplete
  <1>1. Inv => StableComplete
    BY DEF Inv, StoreInv
  <1>2. Inv /\ [Next]_vars => Inv'
    BY InvStep
  <1> QED
    BY InvInit, <1>1, <1>2, PTL DEF Spec

(* EnsureAvailable reports a model available, cancelled or stale only when *)
(* every file of the model is published.                                   *)
THEOREM MaterialisedAlways ==
    ASSUME PathsDisjoint
    PROVE  Spec => []Materialised
  <1>1. Inv => Materialised
    BY DEF Inv, StoreInv
  <1>2. Inv /\ [Next]_vars => Inv'
    BY InvStep
  <1> QED
    BY InvInit, <1>1, <1>2, PTL DEF Spec

(* No step of the gateway, a crash included, replaces or writes to a file  *)
(* that has been published under its stable path.                          *)
THEOREM PublishedForeverAlways ==
    ASSUME PathsDisjoint
    PROVE  Spec => PublishedForever
  <1>1. Inv /\ [Next]_vars => Inv'
    BY InvStep
  <1>2. Inv /\ [Next]_vars => PublishedStays
    BY PublishedStep
  <1> QED
    BY InvInit, <1>1, <1>2, PTL DEF Spec, PublishedForever
===============================================================================
