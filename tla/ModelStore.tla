------------------------------ MODULE ModelStore ------------------------------
(***************************************************************************)
(* Lazy model materialisation in the Go gateway.                           *)
(*                                                                         *)
(* Every inference request runs routermanager.Manager.EnsureAvailable in a *)
(* goroutine of its own: look the model up in the catalog, take the lock   *)
(* of that model, let hf.Downloader.Ensure fetch the files that are        *)
(* missing, and ask the router whether it knows the model.  The goroutines *)
(* share a directory of GGUF files that the router later maps.             *)
(*                                                                         *)
(* A file is modelled down to the inode, because download() works on the   *)
(* path "<stable>.tmp" while its descriptor stays on the inode it opened.  *)
(* One request opens a given path at most once, so an inode of path p is   *)
(* named by the request that created it: tmp[p] and stable[p] are the two  *)
(* directory entries, content[q][p] the chunks written to q's inode of p.  *)
(***************************************************************************)
EXTENDS Integers, FiniteSets

CONSTANTS
    Models,     \* the catalog entries, named by Ref()
    Requests,   \* inference requests, each handled once
    Repo,       \* catalog field repo of each model
    Quant,      \* catalog field quant of each model
    MMProj,     \* catalog field mmproj of each model; NoFile when empty
    Kind,       \* KindOf(model)
    Size,       \* length, in chunks, of the remote file behind each path
    NoFile,     \* no directory entry / no descriptor / no mmproj
    NoModel     \* request that has not been resolved to a catalog entry

Kinds == {"chat", "embedding"}

(* StablePath and MMProjStablePath: <models>/hf/<repo>/<quant>.gguf and    *)
(* <models>/hf/<repo>/<base of mmproj>.                                    *)
StablePath(m) == <<Repo[m], Quant[m]>>
MMProjStablePath(m) == <<Repo[m], MMProj[m]>>

\* The files a model consists of, fetched in this order.
Parts(m) == IF MMProj[m] = NoFile THEN {"main"} ELSE {"main", "mmproj"}
PathOf(m, part) == IF part = "main" THEN StablePath(m) ELSE MMProjStablePath(m)

Paths == UNION {{PathOf(m, part) : part \in Parts(m)} : m \in Models}

ASSUME NoFileAssumption == NoFile \notin Requests
ASSUME NoModelAssumption == NoModel \notin Models
ASSUME SizeAssumption == Size \in [Paths -> Nat]
ASSUME KindAssumption == Kind \in [Models -> Kinds]

VARIABLES
    pc,         \* step of EnsureAvailable each request has reached
    model,      \* the catalog entry cm of each request
    todo,       \* files Ensure found missing and has not published yet
    off,        \* chunks io.Copy has written
    fd,         \* inode the download descriptor is open on
    cancelled,  \* the client's context is cancelled
    result,     \* what EnsureAvailable returned
    holder,     \* modelLocks: which request holds the lock of each model
    tmp,        \* directory entry <path>.tmp
    stable,     \* directory entry <path>
    content,    \* content[q][p]: chunks of the inode q created for p
    registry,   \* models in the router's registry
    routerUp    \* the router answers GET /models

reqVars == <<pc, model, todo, off, fd, cancelled, result>>
diskVars == <<tmp, stable, content>>
routerVars == <<registry, routerUp>>
vars == <<reqVars, holder, diskVars, routerVars>>

\* Steps taken with the lock of the model held.
Downloading == {"get", "remove", "open", "copy", "stat", "discard", "rename"}
Locked == {"ensure", "list", "ctx", "router"} \cup Downloading
Active == {"lock"} \cup Locked

Results == {"none", "ok", "model_not_found", "capability_mismatch",
            "download_failed", "cancelled", "registry_stale", "crashed"}

Chunks(p) == 1 .. Size[p]

TypeOK ==
    /\ pc \in [Requests -> {"idle", "done"} \cup Active]
    /\ model \in [Requests -> Models \cup {NoModel}]
    /\ todo \in [Requests -> SUBSET {"main", "mmproj"}]
    /\ off \in [Requests -> Nat]
    /\ fd \in [Requests -> Requests \cup {NoFile}]
    /\ cancelled \in [Requests -> BOOLEAN]
    /\ result \in [Requests -> Results]
    /\ holder \in [Models -> Requests \cup {NoFile}]
    /\ tmp \in [Paths -> Requests \cup {NoFile}]
    /\ stable \in [Paths -> Requests \cup {NoFile}]
    /\ content \in [Requests -> [Paths -> SUBSET Nat]]
    /\ registry \in SUBSET Models
    /\ routerUp \in BOOLEAN

(***************************************************************************)
(* The gateway starts with an empty model directory.  The router may have  *)
(* been started from the preset of an older catalog.                       *)
(***************************************************************************)
Init ==
    /\ pc = [r \in Requests |-> "idle"]
    /\ model = [r \in Requests |-> NoModel]
    /\ todo = [r \in Requests |-> {}]
    /\ off = [r \in Requests |-> 0]
    /\ fd = [r \in Requests |-> NoFile]
    /\ cancelled = [r \in Requests |-> FALSE]
    /\ result = [r \in Requests |-> "none"]
    /\ holder = [m \in Models |-> NoFile]
    /\ tmp = [p \in Paths |-> NoFile]
    /\ stable = [p \in Paths |-> NoFile]
    /\ content = [r \in Requests |-> [p \in Paths |-> {}]]
    /\ registry \in SUBSET Models
    /\ routerUp = TRUE

-----------------------------------------------------------------------------
Goto(r, step) == pc' = [pc EXCEPT ![r] = step]

\* EnsureAvailable returns before it took the lock.
Reject(r, code) ==
    /\ Goto(r, "done")
    /\ result' = [result EXCEPT ![r] = code]

\* Mutant of Return: an early return that forgets the Unlock.
ReturnKeepsLock(r, code) ==
    /\ Reject(r, code)
    /\ UNCHANGED holder

\* EnsureAvailable returns; the deferred Unlock runs.
Return(r, code) ==
    /\ Reject(r, code)
    /\ holder' = [holder EXCEPT ![model[r]] = NoFile]

\* The file the request is fetching: the main file first, then the mmproj.
CurPart(r) == IF "main" \in todo[r] THEN "main" ELSE "mmproj"
Cur(r) == PathOf(model[r], CurPart(r))

\* fileExists: a directory entry whose file is not empty.
FileExists(p) == stable[p] # NoFile /\ content[stable[p]][p] # {}

-----------------------------------------------------------------------------
\* ByRef finds the model and its kind fits the endpoint.
Arrive(r, m, requiredKind) ==
    /\ pc[r] = "idle"
    /\ Kind[m] = requiredKind
    /\ model' = [model EXCEPT ![r] = m]
    /\ Goto(r, "lock")
    /\ UNCHANGED <<todo, off, fd, cancelled, result, holder, diskVars, routerVars>>

\* ByRef finds nothing.
UnknownModel(r) ==
    /\ pc[r] = "idle"
    /\ Reject(r, "model_not_found")
    /\ UNCHANGED <<model, todo, off, fd, cancelled, holder, diskVars, routerVars>>

\* The endpoint requires another kind of model.
KindMismatch(r, m, requiredKind) ==
    /\ pc[r] = "idle"
    /\ Kind[m] # requiredKind
    /\ Reject(r, "capability_mismatch")
    /\ UNCHANGED <<model, todo, off, fd, cancelled, holder, diskVars, routerVars>>

\* Mutant of Lock: lockFor hands out a fresh mutex to every caller.
LockFreshMutex(r) ==
    /\ pc[r] = "lock"
    /\ holder' = [holder EXCEPT ![model[r]] = r]
    /\ Goto(r, "ensure")
    /\ UNCHANGED <<model, todo, off, fd, cancelled, result, diskVars, routerVars>>

\* lockFor(ref).Lock(); waiting for it does not watch the context.
Lock(r) ==
    /\ pc[r] = "lock"
    /\ holder[model[r]] = NoFile
    /\ holder' = [holder EXCEPT ![model[r]] = r]
    /\ Goto(r, "ensure")
    /\ UNCHANGED <<model, todo, off, fd, cancelled, result, diskVars, routerVars>>

\* Mutant of CheckFiles: the early return only looks at the main file.
CheckMainFileOnly(r) ==
    LET missing == {part \in {"main"} : ~FileExists(PathOf(model[r], part))}
    IN  /\ pc[r] = "ensure"
        /\ todo' = [todo EXCEPT ![r] = missing]
        /\ Goto(r, IF missing = {} THEN "ctx" ELSE "list")
        /\ UNCHANGED <<model, off, fd, cancelled, result, holder, diskVars, routerVars>>

\* Ensure: which files are missing; nothing to do when none is.
CheckFiles(r) ==
    LET missing == {part \in Parts(model[r]) : ~FileExists(PathOf(model[r], part))}
    IN  /\ pc[r] = "ensure"
        /\ todo' = [todo EXCEPT ![r] = missing]
        /\ Goto(r, IF missing = {} THEN "ctx" ELSE "list")
        /\ UNCHANGED <<model, off, fd, cancelled, result, holder, diskVars, routerVars>>

\* listFiles answers.
ListFiles(r) ==
    /\ pc[r] = "list"
    /\ Goto(r, "get")
    /\ UNCHANGED <<model, todo, off, fd, cancelled, result, holder, diskVars, routerVars>>

(* The directory cannot be made, the listing fails, no single file matches *)
(* or the GET of the file fails: nothing on disk is touched.               *)
EnsureFails(r) ==
    /\ pc[r] \in {"list", "get"}
    /\ Return(r, "download_failed")
    /\ UNCHANGED <<model, todo, off, fd, cancelled, diskVars, routerVars>>

\* The server answers the GET of the current file with a body.
GetBody(r) ==
    /\ pc[r] = "get"
    /\ Goto(r, "remove")
    /\ UNCHANGED <<model, todo, off, fd, cancelled, result, holder, diskVars, routerVars>>

\* os.Remove(tmp), its error ignored.
RemoveTmp(r) ==
    /\ pc[r] = "remove"
    /\ tmp' = [tmp EXCEPT ![Cur(r)] = NoFile]
    /\ Goto(r, "open")
    /\ UNCHANGED <<model, todo, off, fd, cancelled, result, holder, stable, content, routerVars>>

(* OpenFile with O_CREATE|O_TRUNC: creates an inode, or truncates the one  *)
(* that some other request put there since the Remove.                     *)
OpenTmp(r) ==
    LET inode == IF tmp[Cur(r)] = NoFile THEN r ELSE tmp[Cur(r)]
    IN  /\ pc[r] = "open"
        /\ tmp' = [tmp EXCEPT ![Cur(r)] = inode]
        /\ content' = [content EXCEPT ![inode][Cur(r)] = {}]
        /\ fd' = [fd EXCEPT ![r] = inode]
        /\ off' = [off EXCEPT ![r] = 0]
        /\ Goto(r, "copy")
        /\ UNCHANGED <<model, todo, cancelled, result, holder, stable, routerVars>>

\* OpenFile fails.
OpenFails(r) ==
    /\ pc[r] = "open"
    /\ Return(r, "download_failed")
    /\ UNCHANGED <<model, todo, off, fd, cancelled, diskVars, routerVars>>

\* io.Copy writes the next chunk at the descriptor's offset.
CopyChunk(r) ==
    /\ pc[r] = "copy"
    /\ off[r] < Size[Cur(r)]
    /\ content' = [content EXCEPT ![fd[r]][Cur(r)] = @ \cup {off[r] + 1}]
    /\ off' = [off EXCEPT ![r] = @ + 1]
    /\ UNCHANGED <<pc, model, todo, fd, cancelled, result, holder, tmp, stable, routerVars>>

\* io.Copy reaches the end of the body and the file is closed.
CopyDone(r) ==
    /\ pc[r] = "copy"
    /\ off[r] = Size[Cur(r)]
    /\ fd' = [fd EXCEPT ![r] = NoFile]
    /\ Goto(r, "stat")
    /\ UNCHANGED <<model, todo, off, cancelled, result, holder, diskVars, routerVars>>

\* Mutant of CopyFails: the error of io.Copy is dropped.
CopyErrorIgnored(r) ==
    /\ pc[r] = "copy"
    /\ fd' = [fd EXCEPT ![r] = NoFile]
    /\ Goto(r, "stat")
    /\ UNCHANGED <<model, todo, off, cancelled, result, holder, diskVars, routerVars>>

\* The body breaks off, a write fails or Close reports an error.
CopyFails(r) ==
    /\ pc[r] = "copy"
    /\ fd' = [fd EXCEPT ![r] = NoFile]
    /\ Goto(r, "discard")
    /\ UNCHANGED <<model, todo, off, cancelled, result, holder, diskVars, routerVars>>

\* os.Stat(tmp): by path, so it may see a file of somebody else.
StatTmp(r) ==
    LET t == tmp[Cur(r)]
    IN  /\ pc[r] = "stat"
        /\ Goto(r, IF t = NoFile \/ content[t][Cur(r)] = {} THEN "discard" ELSE "rename")
        /\ UNCHANGED <<model, todo, off, fd, cancelled, result, holder, diskVars, routerVars>>

\* os.Remove(tmp) on an error path, then the error is returned.
DiscardTmp(r) ==
    /\ pc[r] = "discard"
    /\ tmp' = [tmp EXCEPT ![Cur(r)] = NoFile]
    /\ Return(r, "download_failed")
    /\ UNCHANGED <<model, todo, off, fd, cancelled, stable, content, routerVars>>

\* os.Rename(tmp, stable) publishes whatever the path names now.
Rename(r) ==
    LET left == todo[r] \ {CurPart(r)}
    IN  /\ pc[r] = "rename"
        /\ tmp[Cur(r)] # NoFile
        /\ stable' = [stable EXCEPT ![Cur(r)] = tmp[Cur(r)]]
        /\ tmp' = [tmp EXCEPT ![Cur(r)] = NoFile]
        /\ todo' = [todo EXCEPT ![r] = left]
        /\ Goto(r, IF left = {} THEN "ctx" ELSE "get")
        /\ UNCHANGED <<model, off, fd, cancelled, result, holder, content, routerVars>>

\* os.Rename fails: always when the temporary file is gone.
RenameFails(r) ==
    /\ pc[r] = "rename"
    /\ Return(r, "download_failed")
    /\ UNCHANGED <<model, todo, off, fd, cancelled, diskVars, routerVars>>

\* ctx.Err() after Ensure, which itself runs WithoutCancel.
CheckContext(r) ==
    /\ pc[r] = "ctx"
    /\ IF cancelled[r]
         THEN Return(r, "cancelled")
         ELSE Goto(r, "router") /\ UNCHANGED <<result, holder>>
    /\ UNCHANGED <<model, todo, off, fd, cancelled, diskVars, routerVars>>

\* routerHasModel finds the reference in GET /models.
RouterHasModel(r) ==
    /\ pc[r] = "router"
    /\ routerUp /\ model[r] \in registry
    /\ Return(r, "ok")
    /\ UNCHANGED <<model, todo, off, fd, cancelled, diskVars, routerVars>>

\* The router does not answer (in time) or does not know the model.
RouterLacksModel(r) ==
    /\ pc[r] = "router"
    /\ ~routerUp \/ model[r] \notin registry \/ cancelled[r]
    /\ Return(r, "registry_stale")
    /\ UNCHANGED <<model, todo, off, fd, cancelled, diskVars, routerVars>>

-----------------------------------------------------------------------------
\* The client goes away: the request context is cancelled.
Cancel(r) ==
    /\ pc[r] \in Active
    /\ ~cancelled[r]
    /\ cancelled' = [cancelled EXCEPT ![r] = TRUE]
    /\ UNCHANGED <<pc, model, todo, off, fd, result, holder, diskVars, routerVars>>

(* The gateway process ends with requests in flight (a kill, or Shutdown's *)
(* 20 seconds run out) and is started again: the files stay as they are.   *)
Crash ==
    /\ \E r \in Requests : pc[r] \in Active
    /\ pc' = [r \in Requests |-> IF pc[r] \in Active THEN "done" ELSE pc[r]]
    /\ result' = [r \in Requests |-> IF pc[r] \in Active THEN "crashed" ELSE result[r]]
    /\ fd' = [r \in Requests |-> NoFile]
    /\ holder' = [m \in Models |-> NoFile]
    /\ UNCHANGED <<model, todo, off, cancelled, diskVars, routerVars>>

\* The router stops answering.
RouterStop ==
    /\ routerUp
    /\ routerUp' = FALSE
    /\ UNCHANGED <<reqVars, holder, diskVars, registry>>

\* Mutant of RouterStart: the global section [*] of the preset becomes a model.
RouterStartGlobalSection ==
    /\ ~routerUp
    /\ routerUp' = TRUE
    /\ registry' = Models \cup {NoModel}
    /\ UNCHANGED <<reqVars, holder, diskVars>>

\* The router starts and reads the preset, rendered from the whole catalog.
RouterStart ==
    /\ ~routerUp
    /\ routerUp' = TRUE
    /\ registry' = Models
    /\ UNCHANGED <<reqVars, holder, diskVars>>

-----------------------------------------------------------------------------
\* The steps of EnsureAvailable once the request has arrived.
Step(r) ==
    \/ Lock(r) \/ CheckFiles(r) \/ ListFiles(r) \/ EnsureFails(r)
    \/ GetBody(r) \/ RemoveTmp(r) \/ OpenTmp(r) \/ OpenFails(r)
    \/ CopyChunk(r) \/ CopyDone(r) \/ CopyFails(r)
    \/ StatTmp(r) \/ DiscardTmp(r) \/ Rename(r) \/ RenameFails(r)
    \/ CheckContext(r) \/ RouterHasModel(r) \/ RouterLacksModel(r)

Begin(r) ==
    \/ UnknownModel(r)
    \/ \E m \in Models, k \in Kinds : Arrive(r, m, k) \/ KindMismatch(r, m, k)

Next ==
    \/ \E r \in Requests : Begin(r) \/ Step(r) \/ Cancel(r)
    \/ Crash
    \/ RouterStop
    \/ RouterStart

(* The Go scheduler runs every goroutine that can run; the remote side     *)
(* keeps sending or the connection breaks.                                 *)
Fairness == \A r \in Requests : WF_vars(Step(r))

Spec == Init /\ [][Next]_vars /\ Fairness
-----------------------------------------------------------------------------
(* No two files of the catalog share a path.  Two quants of one repository *)
(* that name the same mmproj do: they have one lock each and one path.     *)
PathsDisjoint ==
    \A m1, m2 \in Models : \A a \in Parts(m1), b \in Parts(m2) :
        PathOf(m1, a) = PathOf(m2, b) => m1 = m2 /\ a = b

(* Publication is atomic: a stable path only ever names a file that holds  *)
(* every chunk of the remote one and is not empty, whatever copies, fails, *)
(* is retried or crashes around download()'s remove-write-stat-rename.     *)
StableComplete ==
    \A p \in Paths :
        stable[p] # NoFile => content[stable[p]][p] = Chunks(p) /\ Size[p] > 0

(* What has been published is never replaced nor written to again: the     *)
(* router may hold the file mapped, and no model is downloaded twice.      *)
PublishedStays ==
    \A p \in Paths :
        stable[p] # NoFile => /\ stable'[p] = stable[p]
                              /\ content'[stable[p]][p] = content[stable[p]][p]

PublishedForever == [][PublishedStays]_vars

(* EnsureAvailable gets past Ensure, whatever it then returns (available,  *)
(* cancelled, registry stale), only with every file of the model           *)
(* published: a cancelled client never cuts a download short.              *)
Materialised ==
    \A r \in Requests :
        pc[r] \in {"ctx", "router"} \/ result[r] \in {"ok", "cancelled", "registry_stale"}
            => \A part \in Parts(model[r]) : FileExists(PathOf(model[r], part))

(* What the locks and the order of download()'s steps keep true, and the   *)
(* properties above rest on.                                               *)
Fetching == Downloading \cup {"list"}

WellFormed ==
    \A r \in Requests :
        /\ pc[r] \in Active => model[r] \in Models
        /\ pc[r] \in Fetching => todo[r] # {} /\ todo[r] \subseteq Parts(model[r])
        /\ result[r] \in {"ok", "cancelled", "registry_stale"} => model[r] \in Models
        /\ pc[r] = "idle" => result[r] = "none"

\* The lock of a model is held by the request that works on it.
LockHeld ==
    \A r \in Requests : pc[r] \in Locked => holder[model[r]] = r

\* todo names exactly the files of the model that are not published.
TodoExact ==
    \A r \in Requests : pc[r] \in Fetching =>
        \A part \in Parts(model[r]) :
            part \in todo[r] <=> stable[PathOf(model[r], part)] = NoFile

\* The temporary file of a request is its own and holds what it has copied.
OwnTmp ==
    \A r \in Requests :
        /\ pc[r] = "open" => tmp[Cur(r)] = NoFile
        /\ pc[r] = "copy" => /\ fd[r] = r
                             /\ off[r] <= Size[Cur(r)]
                             /\ content[r][Cur(r)] = 1 .. off[r]
        /\ pc[r] \in {"copy", "stat", "rename"} => tmp[Cur(r)] = r
        /\ pc[r] \in {"stat", "rename"} => content[r][Cur(r)] = Chunks(Cur(r))
        /\ pc[r] = "rename" => Size[Cur(r)] > 0

\* The inductive invariant of a catalog without shared paths.
StoreInv == WellFormed /\ LockHeld /\ TodoExact /\ OwnTmp /\ StableComplete /\ Materialised

(* Every request that gets as far as the model lock leaves EnsureAvailable *)
(* again: a failed, cancelled or killed predecessor never keeps the lock.  *)
EveryRequestReturns ==
    \A r \in Requests : pc[r] = "lock" ~> pc[r] = "done"
===============================================================================
