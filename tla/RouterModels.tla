----------------------------- MODULE RouterModels -----------------------------
(***************************************************************************)
(* The model registry of llama-server's router mode: server_models with    *)
(* its LRU scheduler (server_lru_sched), the monitor thread                *)
(* (server_monitor) and the child processes it watches.                    *)
(*                                                                         *)
(* Threads: one per HTTP request, the monitor, and one per child process.  *)
(* An action of a request is what it does in one critical section of       *)
(* server_models::mutex, so the places where the code lets go of the mutex *)
(* are the places where steps of others fit in.                            *)
(*                                                                         *)
(* The registry is the one the generated preset gives: it does not change  *)
(* (no reload), every model is present, none is in download mode.          *)
(***************************************************************************)
EXTENDS Integers, Sequences, FiniteSets, Filters

CONSTANTS
    Models,         \* names in mapping
    Requests,       \* HTTP requests, each handled once
    ModelsMax,      \* base_params.models_max, limited (positive)
    NoModel,        \* ""
    CanCrash,       \* child processes may exit without being asked to
    CanSleep,       \* children run with --sleep-idle-seconds
    Admin           \* the routes /models/load and /models/unload are used

ASSUME ModelsMaxAssumption == ModelsMax \in Nat \ {0}
ASSUME NoModelAssumption == NoModel \notin Models
ASSUME FiniteModels == IsFiniteSet(Models)
ASSUME FiniteRequests == IsFiniteSet(Requests)

VARIABLES
    inst,       \* mapping: status, exit_code # 0 and req_count of each model
    lru,        \* the models by last_used, least recent first
    queue,      \* server_lru_sched::queue
    stopping,   \* stopping_models
    stopCmd,    \* STOP commands pushed to the monitor and not yet handled
    proc,       \* child process: "none", "alive", "dead" (not yet reaped)
    asked,      \* children the monitor told to exit and set a deadline for
    monitor,    \* model whose exit is half recorded by on_child_exit
    th          \* the request threads

regVars == <<inst, lru>>
stopVars == <<stopping, stopCmd>>
childVars == <<proc, asked>>
vars == <<regVars, queue, stopVars, childVars, monitor, th>>

Status == {"unloaded", "loading", "loaded", "sleeping"}
Instance == [status : Status, failed : BOOLEAN, reqCount : Nat]
Entry == [model : Models, waiters : Nat, loading : BOOLEAN]
Steps == {"idle", "ensure", "dispatch", "lru", "evict", "evicting", "spawn",
          "claimed", "unclaimed", "wait", "proxy", "count", "stale", "serving",
          "broken", "done"}
Thread == [pc : Steps, model : Models \cup {NoModel}, load : BOOLEAN, queued : BOOLEAN,
           didLoad : BOOLEAN, saw : BOOLEAN, turn : BOOLEAN, victim : Models \cup {NoModel},
           cancelled : BOOLEAN]

TypeOK ==
    /\ inst \in [Models -> Instance]
    /\ lru \in Seq(Models)
    /\ queue \in Seq(Entry)
    /\ stopping \in SUBSET Models
    /\ stopCmd \in SUBSET Models
    /\ proc \in [Models -> {"none", "alive", "dead"}]
    /\ asked \in SUBSET Models
    /\ monitor \in Models \cup {NoModel}
    /\ th \in [Requests -> Thread]

NewThread == [pc |-> "idle", model |-> NoModel, load |-> FALSE, queued |-> FALSE,
              didLoad |-> FALSE, saw |-> FALSE, turn |-> FALSE, victim |-> NoModel, cancelled |-> FALSE]
NewInstance == [status |-> "unloaded", failed |-> FALSE, reqCount |-> 0]

Init ==
    /\ inst = [m \in Models |-> NewInstance]
    /\ lru = <<>>
    /\ queue = <<>>
    /\ stopping = {}
    /\ stopCmd = {}
    /\ proc = [m \in Models |-> "none"]
    /\ asked = {}
    /\ monitor = NoModel
    /\ th = [r \in Requests |-> NewThread]

-----------------------------------------------------------------------------
(* The registry.                                                           *)

Running(i) == {m \in Models : i[m].status # "unloaded"}
ReadyOrSleep(i) == {m \in Models : i[m].status \in {"loaded", "sleeping"}}

HasCapacity == Cardinality(Running(inst)) < ModelsMax

\* last_used = now.
Touch(m) == lru' = Append(Drop(lru, {m}), m)

\* m was used before n.
UsedBefore(m, n) ==
    \E i, j \in DOMAIN lru : i < j /\ lru[i] = m /\ lru[j] = n

(* server_lru_sched: one entry per model, in the order of arrival.         *)
Queued(q, m) == \E i \in DOMAIN q : q[i].model = m

\* n_waiters of the entry of m changed by d.
AddWaiters(q, m, d) ==
    [i \in DOMAIN q |-> IF q[i].model = m THEN [q[i] EXCEPT !.waiters = @ + d] ELSE q[i]]

Join(q, m) ==
    IF Queued(q, m)
      THEN AddWaiters(q, m, 1)
      ELSE Append(q, [model |-> m, waiters |-> 1, loading |-> FALSE])

\* The last one that waits for a model takes its entry away.
Leave(q, m) ==
    LET left == AddWaiters(q, m, -1)
    IN  Drop(left, {left[i] : i \in {j \in DOMAIN left : left[j].waiters <= 0}})

SetLoading(q, m, b) ==
    [i \in DOMAIN q |-> IF q[i].model = m THEN [q[i] EXCEPT !.loading = b] ELSE q[i]]

\* pick_victim: idle, up, not already stopping and not wanted by the queue.
Evictable(i, q, s) ==
    {m \in ReadyOrSleep(i) : i[m].reqCount = 0 /\ m \notin s /\ ~Queued(q, m)}

\* The k least recently used of them, or all if there are fewer.
LeastRecent(k, set) ==
    {V \in SUBSET set :
        /\ Cardinality(V) = IF k < Cardinality(set) THEN k ELSE Cardinality(set)
        /\ \A v \in V, w \in set \ V : UsedBefore(v, w)}

(* tick: how many of the idle models have to go so that every entry of the *)
(* queue that is not loading yet finds a slot.                             *)
Shortage(i, q, s) ==
    LET needed == Cardinality({k \in DOMAIN q : ~q[k].loading})
        claimed == Cardinality({k \in DOMAIN q : q[k].loading /\ q[k].model \notin Running(i)})
        free == ModelsMax - Cardinality(Running(i)) + Cardinality(Running(i) \cap s) - claimed
    IN  IF q = <<>> \/ needed <= free THEN 0 ELSE needed - free

\* tick on registry i, queue q and the stopping set s; request_stop for each victim.
Tick(i, q, s) ==
    \E V \in LeastRecent(Shortage(i, q, s), Evictable(i, q, s)) :
        /\ stopping' = s \cup V
        /\ stopCmd' = stopCmd \cup V

\* request_stop: nothing when the model is marked already.
RequestStop(m) ==
    /\ stopping' = stopping \cup {m}
    /\ stopCmd' = IF m \in stopping THEN stopCmd ELSE stopCmd \cup {m}

\* The threads that talk to the child of m, once that child is gone.
Disconnect(t, m) ==
    [r \in Requests |->
        IF t[r].model = m /\ t[r].pc \in {"count", "serving"}
          THEN [t[r] EXCEPT !.pc = IF t[r].pc = "count" THEN "stale" ELSE "broken"]
          ELSE t[r]]

\* unload: a model that is still loading is killed at once.
Unload(m, t) ==
    IF m \in Running(inst)
      THEN /\ RequestStop(m)
           /\ IF inst[m].status = "loading" /\ proc[m] = "alive"
                THEN /\ proc' = [proc EXCEPT ![m] = "dead"]
                     /\ th' = Disconnect(t, m)
                ELSE proc' = proc /\ th' = t
      ELSE UNCHANGED <<stopVars, proc>> /\ th' = t

-----------------------------------------------------------------------------
(* A request thread: router_validate_model and ensure_model_ready.         *)

Goto(r, step) == [th EXCEPT ![r].pc = step]
\* The handler returns or throws; the thread keeps nothing.
Over(r) == [th EXCEPT ![r] = [NewThread EXCEPT !.pc = "done"]]
St(r) == inst[th[r].model].status

\* proxy_post for model m.
Arrive(r, m) ==
    /\ th[r].pc = "idle"
    /\ th' = [th EXCEPT ![r].pc = "ensure", ![r].model = m]
    /\ UNCHANGED <<regVars, queue, stopVars, childVars, monitor>>

\* POST /models/load for a model that is not running.
ArriveLoad(r, m) ==
    /\ Admin
    /\ th[r].pc = "idle"
    /\ m \notin Running(inst)
    /\ th' = [th EXCEPT ![r].pc = "lru", ![r].model = m, ![r].load = TRUE]
    /\ UNCHANGED <<regVars, queue, stopVars, childVars, monitor>>

\* The client goes away; should_stop is only looked at in the wait loop.
Cancel(r) ==
    /\ th[r].pc = "wait"
    /\ ~th[r].cancelled
    /\ th' = [th EXCEPT ![r].cancelled = TRUE]
    /\ UNCHANGED <<regVars, queue, stopVars, childVars, monitor>>

\* get_meta: up already?
EnsureReady(r) ==
    /\ th[r].pc = "ensure"
    /\ th' = Goto(r, IF St(r) \in {"loaded", "sleeping"} THEN "proxy" ELSE "dispatch")
    /\ UNCHANGED <<regVars, queue, stopVars, childVars, monitor>>

\* A free slot and nobody waiting: load it directly.
DispatchLoad(r) ==
    /\ th[r].pc = "dispatch"
    /\ St(r) = "unloaded" /\ HasCapacity /\ queue = <<>>
    /\ th' = Goto(r, "lru")
    /\ UNCHANGED <<regVars, queue, stopVars, childVars, monitor>>

\* Mutant of DispatchQueue: joins the queue without a tick.
DispatchQueueNoTick(r) ==
    /\ th[r].pc = "dispatch"
    /\ St(r) = "unloaded" /\ ~(HasCapacity /\ queue = <<>>)
    /\ queue' = Join(queue, th[r].model)
    /\ th' = [th EXCEPT ![r].pc = "wait", ![r].queued = TRUE]
    /\ UNCHANGED <<regVars, stopVars, childVars, monitor>>

\* Otherwise get in line, and evict for it.
DispatchQueue(r) ==
    /\ th[r].pc = "dispatch"
    /\ St(r) = "unloaded" /\ ~(HasCapacity /\ queue = <<>>)
    /\ queue' = Join(queue, th[r].model)
    /\ Tick(inst, queue', stopping)
    /\ th' = [th EXCEPT ![r].pc = "wait", ![r].queued = TRUE]
    /\ UNCHANGED <<regVars, childVars, monitor>>

\* Somebody else has it loading, or loaded since.
DispatchWait(r) ==
    /\ th[r].pc = "dispatch"
    /\ St(r) # "unloaded"
    /\ th' = Goto(r, "wait")
    /\ UNCHANGED <<regVars, queue, stopVars, childVars, monitor>>

(* load(): unload_lru picks a victim under the lock ...                    *)
LoadPickVictim(r) ==
    /\ th[r].pc = "lru"
    /\ IF HasCapacity \/ Evictable(inst, queue, stopping) = {}
         THEN th' = Goto(r, "spawn")
         ELSE \E V \in LeastRecent(1, Evictable(inst, queue, stopping)), v \in Models :
                 V = {v} /\ th' = [th EXCEPT ![r].pc = "evict", ![r].victim = v]
    /\ UNCHANGED <<regVars, queue, stopVars, childVars, monitor>>

\* ... unloads it in a second critical section ...
LoadEvict(r) ==
    /\ th[r].pc = "evict"
    /\ Unload(th[r].victim, Goto(r, "evicting"))
    /\ UNCHANGED <<regVars, queue, asked, monitor>>

\* ... and waits until it is down.
LoadEvicted(r) ==
    /\ th[r].pc = "evicting"
    /\ inst[th[r].victim].status = "unloaded"
    /\ th' = [th EXCEPT ![r].pc = "spawn", ![r].victim = NoModel]
    /\ UNCHANGED <<regVars, queue, stopVars, childVars, monitor>>

\* What load() returns to: the load route, the claim, or the wait loop.
LoadReturns(r) ==
    IF th[r].load THEN Over(r)
    ELSE [th EXCEPT ![r].pc = IF th[r].queued THEN "claimed" ELSE "wait", ![r].didLoad = TRUE]

\* load() throws: a claim is given back, a direct load fails the request.
LoadThrows(r) == IF th[r].queued THEN Goto(r, "unclaimed") ELSE Over(r)

\* The model is no longer unloaded: load() returns without a spawn.
LoadSkip(r) ==
    /\ th[r].pc = "spawn"
    /\ St(r) # "unloaded"
    /\ th' = LoadReturns(r)
    /\ UNCHANGED <<regVars, queue, stopVars, childVars, monitor>>

\* The slot is taken, or the process cannot be started.
LoadFails(r) ==
    /\ th[r].pc = "spawn"
    /\ St(r) = "unloaded"
    /\ ~HasCapacity \/ CanCrash
    /\ th' = LoadThrows(r)
    /\ UNCHANGED <<regVars, queue, stopVars, childVars, monitor>>

\* Mutant of Spawn: the limit is not checked again before the spawn.
SpawnUnchecked(r) ==
    LET m == th[r].model
    IN  /\ th[r].pc = "spawn"
        /\ inst[m].status = "unloaded"
        /\ inst' = [inst EXCEPT ![m] = [status |-> "loading", failed |-> @.failed, reqCount |-> 0]]
        /\ Touch(m)
        /\ proc' = [proc EXCEPT ![m] = "alive"]
        /\ stopCmd' = stopCmd \ {m}
        /\ th' = LoadReturns(r)
        /\ UNCHANGED <<queue, stopping, asked, monitor>>

(* A new instance: status loading, req_count zero, a child to watch.  STOP *)
(* commands still queued in the monitor come before its WATCH and find no  *)
(* child of this name.                                                     *)
Spawn(r) ==
    LET m == th[r].model
    IN  /\ th[r].pc = "spawn"
        /\ inst[m].status = "unloaded"
        /\ HasCapacity
        /\ inst' = [inst EXCEPT ![m] = [status |-> "loading", failed |-> @.failed, reqCount |-> 0]]
        /\ Touch(m)
        /\ proc' = [proc EXCEPT ![m] = "alive"]
        /\ stopCmd' = stopCmd \ {m}
        /\ th' = LoadReturns(r)
        /\ UNCHANGED <<queue, stopping, asked, monitor>>

\* claim_done and tick, in a critical section of their own.
ClaimDone(r) ==
    /\ th[r].pc \in {"claimed", "unclaimed"}
    /\ queue' = IF th[r].pc = "claimed" THEN queue ELSE SetLoading(queue, th[r].model, FALSE)
    /\ Tick(inst, queue', stopping)
    /\ th' = Goto(r, "wait")
    /\ UNCHANGED <<regVars, childVars, monitor>>

-----------------------------------------------------------------------------
(* The wait loop: one round of it per step.                                *)

LeaveQueue(r) == IF th[r].queued THEN Leave(queue, th[r].model) ELSE queue

\* Breaks out of the loop; the caller goes on to proxy_request.
Break(r) ==
    /\ queue' = LeaveQueue(r)
    /\ th' = [th EXCEPT ![r].pc = "proxy", ![r].queued = FALSE]
    /\ UNCHANGED <<regVars, stopVars, childVars, monitor>>

\* Mutant of Throw: the waiter stays in the queue.
ThrowKeepsEntry(r) ==
    /\ queue' = queue
    /\ Tick(inst, queue', stopping)
    /\ th' = Over(r)
    /\ UNCHANGED <<regVars, childVars, monitor>>

\* Throws out of the loop: the slot goes to the next in line.
Throw(r) ==
    /\ queue' = LeaveQueue(r)
    /\ Tick(inst, queue', stopping)
    /\ th' = Over(r)
    /\ UNCHANGED <<regVars, childVars, monitor>>

HadLoad(r) == th[r].didLoad \/ th[r].saw

WaitReady(r) ==
    /\ th[r].pc = "wait"
    /\ St(r) \in {"loaded", "sleeping"}
    /\ Break(r)

\* The instance is down again, or nobody is going to load it for us.
WaitDown(r) ==
    /\ th[r].pc = "wait"
    /\ St(r) = "unloaded"
    /\ \/ HadLoad(r) /\ ~inst[th[r].model].failed
       \/ ~HadLoad(r) /\ ~th[r].queued
    /\ Break(r)

WaitFailed(r) ==
    /\ th[r].pc = "wait"
    /\ St(r) = "unloaded"
    /\ HadLoad(r) /\ inst[th[r].model].failed
    /\ Throw(r)

\* The loop goes round again on these states unless should_stop().
Waits(r) == St(r) = "loading" \/ (St(r) = "unloaded" /\ ~HadLoad(r) /\ th[r].queued)

WaitCancelled(r) ==
    /\ th[r].pc = "wait"
    /\ Waits(r) /\ th[r].cancelled
    /\ Throw(r)

WaitLoading(r) ==
    /\ th[r].pc = "wait"
    /\ St(r) = "loading" /\ ~th[r].saw /\ ~th[r].cancelled
    /\ th' = [th EXCEPT ![r].saw = TRUE]
    /\ UNCHANGED <<regVars, queue, stopVars, childVars, monitor>>

\* try_claim: at the head, not being loaded, and a slot is free.
TryClaim(r) ==
    /\ th[r].pc = "wait"
    /\ St(r) = "unloaded" /\ Waits(r) /\ ~th[r].cancelled
    /\ queue # <<>> /\ Head(queue).model = th[r].model /\ ~Head(queue).loading
    /\ HasCapacity
    /\ queue' = [queue EXCEPT ![1].loading = TRUE]
    /\ th' = [th EXCEPT ![r].pc = "lru", ![r].turn = TRUE]
    /\ UNCHANGED <<regVars, stopVars, childVars, monitor>>

-----------------------------------------------------------------------------
(* proxy_request.                                                          *)

\* get_meta: the port to talk to, or "model is not running".
ProxyMeta(r) ==
    /\ th[r].pc = "proxy"
    /\ th' = IF St(r) = "unloaded" THEN Over(r)
             ELSE Goto(r, IF proc[th[r].model] = "alive" THEN "count" ELSE "stale")
    /\ UNCHANGED <<regVars, queue, stopVars, childVars, monitor>>

\* last_used and req_count, in a second critical section.
ProxyCount(r) ==
    /\ th[r].pc \in {"count", "stale"}
    /\ inst' = [inst EXCEPT ![th[r].model].reqCount = @ + 1]
    /\ Touch(th[r].model)
    /\ th' = Goto(r, IF th[r].pc = "count" THEN "serving" ELSE "broken")
    /\ UNCHANGED <<queue, stopVars, childVars, monitor>>

\* Mutant of Cleanup: req_count is decremented below zero.
CleanupUnderflows(r) ==
    LET m == th[r].model
        i == [inst EXCEPT ![m].reqCount = @ - 1]
    IN  /\ th[r].pc \in {"serving", "broken"}
        /\ inst' = i
        /\ IF inst[m].reqCount = 1 THEN Tick(i, queue, stopping) ELSE UNCHANGED stopVars
        /\ th' = Over(r)
        /\ UNCHANGED <<lru, queue, childVars, monitor>>

\* Mutant of Cleanup: a response that breaks off does not give its count back.
CleanupLeaks(r) ==
    LET m == th[r].model
        i == [inst EXCEPT ![m].reqCount = IF @ > 0 /\ th[r].pc = "serving" THEN @ - 1 ELSE @]
    IN  /\ th[r].pc \in {"serving", "broken"}
        /\ inst' = i
        /\ IF i[m].reqCount < inst[m].reqCount /\ i[m].reqCount = 0
             THEN Tick(i, queue, stopping) ELSE UNCHANGED stopVars
        /\ th' = Over(r)
        /\ UNCHANGED <<lru, queue, childVars, monitor>>

\* The response ends, by itself or with the child: cleanup.
Cleanup(r) ==
    LET m == th[r].model
        i == [inst EXCEPT ![m].reqCount = IF @ > 0 THEN @ - 1 ELSE 0]
    IN  /\ th[r].pc \in {"serving", "broken"}
        /\ inst' = i
        /\ IF inst[m].reqCount = 1 THEN Tick(i, queue, stopping) ELSE UNCHANGED stopVars
        /\ th' = Over(r)
        /\ UNCHANGED <<lru, queue, childVars, monitor>>

-----------------------------------------------------------------------------
(* The children and the monitor thread.                                    *)

\* POST /models/unload.
AdminUnload(m) ==
    /\ Admin
    /\ m \in Running(inst)
    /\ Unload(m, th)
    /\ UNCHANGED <<regVars, queue, asked, monitor>>

\* Mutant of MonitorStop: the model counts as unloaded once told to exit.
MonitorStopRecords(m) ==
    /\ monitor = NoModel
    /\ m \in stopCmd
    /\ stopCmd' = stopCmd \ {m}
    /\ asked' = IF proc[m] = "none" THEN asked ELSE asked \cup {m}
    /\ inst' = [inst EXCEPT ![m].status = "unloaded"]
    /\ UNCHANGED <<lru, queue, stopping, proc, monitor, th>>

\* handle_commands: STOP tells the child to exit and starts its deadline.
MonitorStop(m) ==
    /\ monitor = NoModel
    /\ m \in stopCmd
    /\ stopCmd' = stopCmd \ {m}
    /\ asked' = IF proc[m] = "none" THEN asked ELSE asked \cup {m}
    /\ UNCHANGED <<regVars, queue, stopping, proc, monitor, th>>

\* The child exits as told, or is killed at its deadline.
ChildStops(m) ==
    /\ proc[m] = "alive" /\ m \in asked
    /\ proc' = [proc EXCEPT ![m] = "dead"]
    /\ th' = Disconnect(th, m)
    /\ UNCHANGED <<regVars, queue, stopVars, asked, monitor>>

\* The child dies by itself.
ChildCrashes(m) ==
    /\ CanCrash
    /\ proc[m] = "alive" /\ m \notin asked
    /\ proc' = [proc EXCEPT ![m] = "dead"]
    /\ th' = Disconnect(th, m)
    /\ UNCHANGED <<regVars, queue, stopVars, asked, monitor>>

\* handle_child_state: update_status sets the status and ticks.
UpdateStatus(m, status, failed) ==
    /\ inst' = [inst EXCEPT ![m].status = status, ![m].failed = failed]
    /\ Tick(inst', queue, stopping)

(* A state line of the child is read: progress while loading, ready, going *)
(* to sleep when idle, awake again.                                        *)
ChildState(m, status) ==
    /\ monitor = NoModel
    /\ proc[m] # "none"
    /\ \/ status = "loading" /\ inst[m].status = "loading"
       \/ status = "loaded" /\ inst[m].status \in {"loading", "sleeping"}
       \/ /\ CanSleep
          /\ status = "sleeping" /\ inst[m].status = "loaded"
          /\ \A r \in Requests : ~(th[r].pc = "serving" /\ th[r].model = m)
    /\ UpdateStatus(m, status, FALSE)
    /\ UNCHANGED <<lru, queue, childVars, monitor, th>>

\* on_child_exit, first critical section: the mark is erased ...
ChildExit(m) ==
    /\ monitor = NoModel
    /\ proc[m] = "dead"
    /\ proc' = [proc EXCEPT ![m] = "none"]
    /\ asked' = asked \ {m}
    /\ stopping' = stopping \ {m}
    /\ monitor' = m
    /\ UNCHANGED <<regVars, queue, stopCmd, th>>

\* ... second critical section: the model is unloaded, with its exit code.
ChildExitRecorded(failed) ==
    /\ monitor # NoModel
    /\ UpdateStatus(monitor, "unloaded", failed)
    /\ monitor' = NoModel
    /\ UNCHANGED <<lru, queue, childVars, th>>

-----------------------------------------------------------------------------
Ensure(r) ==
    \/ EnsureReady(r) \/ DispatchLoad(r) \/ DispatchQueue(r) \/ DispatchWait(r)
    \/ LoadPickVictim(r) \/ LoadEvict(r) \/ LoadEvicted(r)
    \/ LoadSkip(r) \/ LoadFails(r) \/ Spawn(r) \/ ClaimDone(r)

Wait(r) ==
    \/ WaitReady(r) \/ WaitDown(r) \/ WaitFailed(r) \/ WaitCancelled(r)
    \/ WaitLoading(r) \/ TryClaim(r)

Proxy(r) == ProxyMeta(r) \/ ProxyCount(r) \/ Cleanup(r)

RequestStep(r) == Ensure(r) \/ Wait(r) \/ Proxy(r)

MonitorStep ==
    \/ \E m \in Models : MonitorStop(m) \/ ChildExit(m)
    \/ \E f \in BOOLEAN : ChildExitRecorded(f)

Next ==
    \/ \E r \in Requests, m \in Models : Arrive(r, m) \/ ArriveLoad(r, m)
    \/ \E r \in Requests : RequestStep(r) \/ Cancel(r)
    \/ \E m \in Models : AdminUnload(m) \/ ChildStops(m) \/ ChildCrashes(m)
    \/ \E m \in Models, s \in {"loading", "loaded", "sleeping"} : ChildState(m, s)
    \/ MonitorStep

Spec == Init /\ [][Next]_vars
(* Threads that can run do run; children come up or die, die when told to, *)
(* and responses end.                                                      *)
Fairness ==
    /\ \A r \in Requests : WF_vars(RequestStep(r))
    /\ \A m \in Models : WF_vars(ChildStops(m)) /\ WF_vars(ChildState(m, "loaded"))
    /\ WF_vars(MonitorStep)

FairSpec == Spec /\ Fairness

-----------------------------------------------------------------------------
(* No more child processes than models_max, counted in processes that were *)
(* spawned and not yet reaped: load() re-checks the limit under the lock   *)
(* and a status only says unloaded once the process is gone.               *)
ChildrenBounded ==
    Cardinality({m \in Models : proc[m] # "none"}) <= ModelsMax

(* A slot is only free when its process is gone and its exit recorded:     *)
(* whatever has a child, or is between the two critical sections of        *)
(* on_child_exit, counts as running.  So no name has two processes.        *)
SlotsAccounted ==
    /\ {m \in Models : proc[m] # "none"} \subseteq Running(inst)
    /\ monitor # NoModel => proc[monitor] = "none" /\ monitor \in Running(inst)
    /\ Cardinality(Running(inst)) <= ModelsMax

Carried(m) == {r \in Requests : th[r].model = m /\ th[r].pc \in {"serving", "broken"}}

(* req_count never exceeds the requests whose cleanup is still to come: a  *)
(* leaked count would make a model busy, and so unevictable, for ever.     *)
ReqCountBound ==
    \A m \in Models : inst[m].reqCount <= Cardinality(Carried(m))

(* The queue has one entry per model that somebody waits for, and counts   *)
(* exactly the requests that wait: a leaked entry at the head would stop   *)
(* every later load.                                                       *)
QueueExact ==
    /\ \A i, j \in DOMAIN queue : queue[i].model = queue[j].model => i = j
    /\ \A i \in DOMAIN queue :
          queue[i].waiters = Cardinality({r \in Requests : th[r].queued /\ th[r].model = queue[i].model})
    /\ \A r \in Requests : th[r].queued => Queued(queue, th[r].model)

Serving(m) == {r \in Requests : th[r].model = m /\ th[r].pc = "serving"}

(* req_count is "number of active proxy requests": a child that is serving *)
(* requests counts at least those, so that pick_victim sees it busy.       *)
ReqCountCovers ==
    \A m \in Models : Cardinality(Serving(m)) <= inst[m].reqCount

(* stopping_models is "models asked to stop, still counted as running      *)
(* until the monitor records their exit": no mark outlives its instance.   *)
StoppingRuns == stopping \subseteq Running(inst)

(* entry_t::loading is "one of the waiters is doing the load right now":   *)
(* an entry marked so, whose model is down, has a waiter that is loading   *)
(* it or has yet to see its own load end.                                  *)
LoadingHasLoader ==
    \A i \in DOMAIN queue :
        queue[i].loading /\ inst[queue[i].model].status = "unloaded" =>
            \E r \in Requests : /\ th[r].queued /\ th[r].model = queue[i].model
                                /\ th[r].pc # "wait" \/ HadLoad(r)

(* "the model coming up is never picked as a victim before they use it":   *)
(* no step marks a model for stopping while a request that loaded it from  *)
(* the queue is on its way to proxy_request.                               *)
NotBeforeUse ==
    [][\A m \in stopping' \ stopping : \A r \in Requests :
          ~(th[r].model = m /\ th[r].turn /\ th[r].pc \in {"proxy", "count"})]_vars

(* Every request for a model ends, served or refused: no waiter, no load   *)
(* that evicts and no claim on a slot blocks for ever.                     *)
EveryRequestEnds ==
    \A r \in Requests : th[r].pc = "ensure" ~> th[r].pc = "done"
===============================================================================
