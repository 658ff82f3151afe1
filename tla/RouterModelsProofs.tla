-------------------------- MODULE RouterModelsProofs --------------------------
(* For every registry, every set of requests and every positive            *)
(* models_max: the limit on child processes, the bound on req_count, and   *)
(* the queue of the LRU scheduler, with and without crashes, sleeping      *)
(* children and the load and unload routes.                                *)
EXTENDS RouterModels, ProofLemmas

RegTypeOK ==
    /\ inst \in [Models -> Instance]
    /\ proc \in [Models -> {"none", "alive", "dead"}]
    /\ monitor \in Models \cup {NoModel}

SlotInv == RegTypeOK /\ SlotsAccounted

-----------------------------------------------------------------------------
(* A step that keeps every status and neither spawns nor reaps a process   *)
(* keeps the accounting.                                                   *)
LEMMA SlotsKept ==
    ASSUME SlotInv, RegTypeOK', monitor' = monitor,
           \A m \in Models : inst'[m].status = "unloaded" <=> inst[m].status = "unloaded",
           \A m \in Models : proc'[m] = "none" <=> proc[m] = "none"
    PROVE  SlotInv'
  <1>1. Running(inst)' = Running(inst)
    BY DEF Running
  <1>2. {m \in Models : proc[m] # "none"}' = {m \in Models : proc[m] # "none"}
    OBVIOUS
  <1>3. monitor # NoModel => proc'[monitor] = "none"
    BY DEF SlotInv, SlotsAccounted, RegTypeOK
  <1> QED
    BY <1>1, <1>2, <1>3 DEF SlotInv, SlotsAccounted

\* Nothing runs at first.
LEMMA SlotInit == Init => SlotInv
  <1> SUFFICES ASSUME Init PROVE SlotInv
    OBVIOUS
  <1>1. RegTypeOK
    BY DEF Init, RegTypeOK, Instance, Status, NewInstance
  <1>2. Running(inst) = {}
    BY DEF Init, Running, NewInstance
  <1>3. {m \in Models : proc[m] # "none"} = {}
    BY DEF Init
  <1>4. Cardinality(Running(inst)) <= ModelsMax
    BY <1>2, FS_EmptySet, ModelsMaxAssumption
  <1> QED
    BY <1>1, <1>2, <1>3, <1>4 DEF SlotInv, SlotsAccounted, Init

(* The re-check of models_max in load() makes room for one more.           *)
LEMMA SlotSpawn == ASSUME SlotInv, NEW r \in Requests, Spawn(r) PROVE SlotInv'
  <1> DEFINE m == th[r].model
  <1>1. inst' = [inst EXCEPT ![m] = [status |-> "loading", failed |-> @.failed, reqCount |-> 0]]
    BY DEF Spawn
  <1>2. proc' = [proc EXCEPT ![m] = "alive"] /\ monitor' = monitor
    BY DEF Spawn
  <1>3. CASE m \notin Models
    <2>1. inst' = inst /\ proc' = proc
      BY <1>1, <1>2, <1>3 DEF SlotInv, RegTypeOK
    <2> QED
      BY <2>1, <1>2 DEF SlotInv, RegTypeOK, SlotsAccounted, Running
  <1>4. CASE m \in Models
    <2>1. inst[m].status = "unloaded" /\ HasCapacity
      BY DEF Spawn
    <2>2. inst[m].failed \in BOOLEAN
      BY <1>4 DEF SlotInv, RegTypeOK, Instance
    <2>3. RegTypeOK'
      BY <1>1, <1>2, <1>4, <2>2 DEF SlotInv, RegTypeOK, Instance, Status
    <2>4. Running(inst)' = Running(inst) \cup {m}
      BY <1>1, <1>4 DEF SlotInv, RegTypeOK, Running
    <2>5. IsFiniteSet(Running(inst)) /\ Cardinality(Running(inst)) \in Nat
      BY FS_Subset, FS_CardinalityType, FiniteModels DEF Running
    <2>6. Cardinality(Running(inst)') <= ModelsMax
      <3>0. m \notin Running(inst)
        BY <2>1 DEF Running
      <3>1. Cardinality(Running(inst) \cup {m}) = Cardinality(Running(inst)) + 1
        BY <2>5, <3>0, FS_AddElement
      <3>2. Cardinality(Running(inst)) < ModelsMax
        BY <2>1 DEF HasCapacity
      <3>3. Cardinality(Running(inst) \cup {m}) \in Nat
        BY <2>5, FS_AddElement, FS_CardinalityType
      <3> QED
        BY <2>4, <2>5, <3>1, <3>2, <3>3, ModelsMaxAssumption
    <2>7. monitor # m
      BY <2>1, <1>4, NoModelAssumption DEF SlotInv, SlotsAccounted, Running
    <2>8. {x \in Models : proc[x] # "none"}' \subseteq Running(inst)'
      BY <1>2, <1>4, <2>4 DEF SlotInv, RegTypeOK, SlotsAccounted
    <2>9. monitor' # NoModel => proc'[monitor'] = "none" /\ monitor' \in Running(inst)'
      BY <1>2, <2>4, <2>7 DEF SlotInv, RegTypeOK, SlotsAccounted
    <2> QED
      BY <2>3, <2>6, <2>8, <2>9 DEF SlotInv, SlotsAccounted
  <1> QED
    BY <1>3, <1>4

(* Only after on_child_exit took the process does the model go down.       *)
LEMMA SlotExit == ASSUME SlotInv, NEW m \in Models, ChildExit(m) PROVE SlotInv'
  <1>1. proc[m] = "dead" /\ inst' = inst /\ monitor' = m /\ proc' = [proc EXCEPT ![m] = "none"]
    BY DEF ChildExit, regVars
  <1>2. RegTypeOK'
    BY <1>1 DEF SlotInv, RegTypeOK
  <1>3. Running(inst)' = Running(inst)
    BY <1>1 DEF Running
  <1>4. {x \in Models : proc[x] # "none"}' \subseteq {x \in Models : proc[x] # "none"}
    BY <1>1 DEF SlotInv, RegTypeOK
  <1>5. m \in Running(inst) /\ proc'[m] = "none"
    BY <1>1 DEF SlotInv, RegTypeOK, SlotsAccounted
  <1> QED
    BY <1>1, <1>2, <1>3, <1>4, <1>5 DEF SlotInv, SlotsAccounted

\* Recording the exit frees the slot of a process that is gone.
LEMMA SlotExitRecorded ==
    ASSUME SlotInv, NEW f \in BOOLEAN, ChildExitRecorded(f)
    PROVE  SlotInv'
  <1>1. /\ monitor \in Models /\ monitor' = NoModel /\ proc' = proc
        /\ inst' = [inst EXCEPT ![monitor].status = "unloaded", ![monitor].failed = f]
    BY DEF ChildExitRecorded, UpdateStatus, childVars, SlotInv, RegTypeOK
  <1>2. RegTypeOK'
    BY <1>1 DEF SlotInv, RegTypeOK, Instance, Status
  <1>3. Running(inst)' = Running(inst) \ {monitor}
    BY <1>1 DEF SlotInv, RegTypeOK, Running, Instance
  <1>4. proc[monitor] = "none"
    BY <1>1, NoModelAssumption DEF SlotInv, SlotsAccounted
  <1>5. {x \in Models : proc[x] # "none"}' \subseteq Running(inst)'
    BY <1>1, <1>3, <1>4 DEF SlotInv, SlotsAccounted
  <1>6. Cardinality(Running(inst)') <= ModelsMax
    <2>1. IsFiniteSet(Running(inst))
      BY FS_Subset, FiniteModels DEF Running
    <2>2. Cardinality(Running(inst)') <= Cardinality(Running(inst))
      BY <1>3, <2>1, FS_Subset
    <2>3. Cardinality(Running(inst)') \in Nat /\ Cardinality(Running(inst)) \in Nat
      BY <1>3, <2>1, FS_Subset, FS_CardinalityType
    <2> QED
      BY <2>2, <2>3, ModelsMaxAssumption DEF SlotInv, SlotsAccounted
  <1> QED
    BY <1>1, <1>2, <1>5, <1>6 DEF SlotInv, SlotsAccounted

\* Every step keeps the slots accounted for.
LEMMA SlotStep == ASSUME SlotInv, [Next]_vars PROVE SlotInv'
  <1> USE DEF regVars, childVars
  <1>1. ASSUME NEW r \in Requests, Ensure(r) \/ Wait(r) \/ Cancel(r) PROVE SlotInv'
    <2>1. CASE Spawn(r)
      BY <2>1, SlotSpawn
    <2>2. CASE LoadEvict(r)
      <3>1. inst' = inst /\ monitor' = monitor
        BY <2>2 DEF LoadEvict
      <3>2. \/ proc' = proc
            \/ \E m : proc[m] = "alive" /\ proc' = [proc EXCEPT ![m] = "dead"]
        BY <2>2 DEF LoadEvict, Unload
      <3>3. RegTypeOK' /\ \A m \in Models : proc'[m] = "none" <=> proc[m] = "none"
        BY <3>1, <3>2 DEF SlotInv, RegTypeOK
      <3> QED
        BY <3>1, <3>3, SlotsKept
    <2>3. CASE ~Spawn(r) /\ ~LoadEvict(r)
      <3>1. inst' = inst /\ monitor' = monitor /\ proc' = proc
        BY <1>1, <2>3 DEF Ensure, Wait, EnsureReady, DispatchLoad, DispatchQueue, DispatchWait,
            LoadPickVictim, LoadEvicted, LoadSkip, LoadFails, ClaimDone, WaitReady, WaitDown,
            WaitFailed, WaitCancelled, WaitLoading, TryClaim, Break, Throw, Cancel
      <3> QED
        BY <3>1, SlotsKept DEF SlotInv, RegTypeOK
    <2> QED
      BY <2>1, <2>2, <2>3
  <1>2. ASSUME NEW r \in Requests, Proxy(r) PROVE SlotInv'
    <2>1. /\ monitor' = monitor /\ proc' = proc
          /\ \/ inst' = inst
             \/ inst' = [inst EXCEPT ![th[r].model].reqCount = @ + 1]
             \/ inst' = [inst EXCEPT ![th[r].model].reqCount = IF @ > 0 THEN @ - 1 ELSE 0]
      BY <1>2 DEF Proxy, ProxyMeta, ProxyCount, Cleanup
    <2>2. RegTypeOK' /\ \A m \in Models : inst'[m].status = inst[m].status
      BY <2>1 DEF SlotInv, RegTypeOK, Instance
    <2> QED
      BY <2>1, <2>2, SlotsKept
  <1>3. ASSUME NEW m \in Models, AdminUnload(m) \/ ChildStops(m) \/ ChildCrashes(m) PROVE SlotInv'
    <2>1. inst' = inst /\ monitor' = monitor
      BY <1>3 DEF AdminUnload, ChildStops, ChildCrashes
    <2>2. \/ proc' = proc
          \/ proc[m] = "alive" /\ proc' = [proc EXCEPT ![m] = "dead"]
      BY <1>3 DEF AdminUnload, ChildStops, ChildCrashes, Unload
    <2>3. RegTypeOK' /\ \A x \in Models : proc'[x] = "none" <=> proc[x] = "none"
      BY <2>1, <2>2 DEF SlotInv, RegTypeOK
    <2> QED
      BY <2>1, <2>3, SlotsKept
  <1>4. ASSUME NEW m \in Models, NEW s \in {"loading", "loaded", "sleeping"}, ChildState(m, s)
        PROVE  SlotInv'
    <2>1. /\ monitor' = monitor /\ proc' = proc /\ inst[m].status # "unloaded"
          /\ inst' = [inst EXCEPT ![m].status = s, ![m].failed = FALSE]
      BY <1>4 DEF ChildState, UpdateStatus
    <2>2. RegTypeOK' /\ \A x \in Models : inst'[x].status = "unloaded" <=> inst[x].status = "unloaded"
      BY <2>1 DEF SlotInv, RegTypeOK, Instance, Status
    <2> QED
      BY <2>1, <2>2, SlotsKept
  <1>5. ASSUME NEW m \in Models, MonitorStop(m) PROVE SlotInv'
    BY <1>5, SlotsKept DEF MonitorStop, SlotInv, RegTypeOK
  <1>6. ASSUME NEW r \in Requests, NEW m \in Models, Arrive(r, m) \/ ArriveLoad(r, m) PROVE SlotInv'
    <2>1. inst' = inst /\ monitor' = monitor /\ proc' = proc
      BY <1>6 DEF Arrive, ArriveLoad
    <2> QED
      BY <2>1, SlotsKept DEF SlotInv, RegTypeOK
  <1>7. CASE UNCHANGED vars
    BY <1>7, SlotsKept DEF vars, SlotInv, RegTypeOK
  <1> QED
    BY <1>1, <1>2, <1>3, <1>4, <1>5, <1>6, <1>7, SlotExit, SlotExitRecorded
    DEF Next, RequestStep, MonitorStep

(* Every slot that is in use is accounted for, always: the invariant that  *)
(* makes the re-check in load() sufficient.                                *)
THEOREM SlotsAccountedAlways == Spec => []SlotsAccounted
  <1>1. SlotInv => SlotsAccounted
    BY DEF SlotInv
  <1> QED
    BY <1>1, SlotInit, SlotStep, PTL DEF Spec

(* models_max bounds the child processes the router has at any moment, for *)
(* every models_max, every registry and any number of concurrent requests. *)
THEOREM ChildrenBoundedAlways == Spec => []ChildrenBounded
  <1>1. SlotInv => ChildrenBounded
    <2> SUFFICES ASSUME SlotInv PROVE ChildrenBounded
      OBVIOUS
    <2> DEFINE C == {m \in Models : proc[m] # "none"}
    <2>1. IsFiniteSet(Running(inst)) /\ C \subseteq Running(inst)
      BY FS_Subset, FiniteModels DEF Running, SlotInv, SlotsAccounted
    <2>2. Cardinality(C) <= Cardinality(Running(inst)) /\ IsFiniteSet(C)
      BY <2>1, FS_Subset
    <2>3. Cardinality(C) \in Nat /\ Cardinality(Running(inst)) \in Nat
      BY <2>1, <2>2, FS_CardinalityType
    <2>4. Cardinality(Running(inst)) <= ModelsMax
      BY DEF SlotInv, SlotsAccounted
    <2>5. Cardinality(C) <= ModelsMax
      BY <2>2, <2>3, <2>4, ModelsMaxAssumption
    <2> QED
      BY <2>5 DEF ChildrenBounded
  <1> QED
    BY <1>1, SlotInit, SlotStep, PTL DEF Spec
-----------------------------------------------------------------------------
(* The counts of the proxied requests.                                     *)

CountTypeOK == inst \in [Models -> Instance] /\ th \in [Requests -> Thread]

CountInv == CountTypeOK /\ ReqCountBound

Carries(t) == t.pc \in {"serving", "broken"}

(* A step after which the same requests hold a count, of the same models,  *)
(* and no count has grown.                                                 *)
LEMMA CountKept ==
    ASSUME CountInv, CountTypeOK',
           \A q \in Requests : Carries(th'[q]) <=> Carries(th[q]),
           \A q \in Requests : Carries(th[q]) => th'[q].model = th[q].model,
           \A m \in Models : inst'[m].reqCount = inst[m].reqCount \/ inst'[m].reqCount = 0
    PROVE  CountInv'
  <1>1. \A m : Carried(m)' = Carried(m)
    BY DEF Carried, Carries
  <1>2. \A m \in Models : Cardinality(Carried(m)) \in Nat
    BY FS_Subset, FS_CardinalityType, FiniteRequests DEF Carried
  <1>3. \A m \in Models : inst'[m].reqCount <= Cardinality(Carried(m))
    BY <1>2 DEF CountInv, ReqCountBound
  <1> QED
    BY <1>1, <1>3 DEF CountInv, ReqCountBound

\* A request that loses its child still has to give its count back.
LEMMA DisconnectKeeps ==
    ASSUME NEW t \in [Requests -> Thread], NEW m
    PROVE  /\ Disconnect(t, m) \in [Requests -> Thread]
           /\ \A q \in Requests : Carries(Disconnect(t, m)[q]) <=> Carries(t[q])
           /\ \A q \in Requests : Disconnect(t, m)[q].model = t[q].model
  BY DEF Disconnect, Carries, Thread, Steps

(* t is th after a step of r that leaves r without a count.                *)
Moved(r, t) ==
    /\ t \in [Requests -> Thread]
    /\ \A q \in Requests : q # r => t[q] = th[q]
    /\ ~Carries(t[r])

\* Going to another step of the handler,
LEMMA GotoMoves ==
    ASSUME th \in [Requests -> Thread], NEW r \in Requests,
           NEW step \in Steps, step \notin {"serving", "broken"}
    PROVE  Moved(r, Goto(r, step))
  <1>1. Goto(r, step) \in [Requests -> Thread]
    BY DEF Goto, Thread
  <1>2. Goto(r, step)[r].pc = step
    BY DEF Goto, Thread
  <1> QED
    BY <1>1, <1>2 DEF Moved, Carries, Goto

\* or to its end, is such a step.
LEMMA OverMoves ==
    ASSUME th \in [Requests -> Thread], NEW r \in Requests
    PROVE  Moved(r, Over(r))
  <1>1. [NewThread EXCEPT !.pc = "done"] \in Thread
    BY DEF Thread, NewThread, Steps
  <1>2. [NewThread EXCEPT !.pc = "done"].pc = "done"
    BY DEF NewThread
  <1> QED
    BY <1>1, <1>2 DEF Moved, Carries, Over

\* A step that also sets one of the thread's flags ...
LEMMA FlagMoves ==
    ASSUME th \in [Requests -> Thread], NEW r \in Requests,
           NEW step \in Steps, step \notin {"serving", "broken"}, NEW b \in BOOLEAN
    PROVE  /\ Moved(r, [th EXCEPT ![r].pc = step, ![r].queued = b])
           /\ Moved(r, [th EXCEPT ![r].pc = step, ![r].didLoad = b])
           /\ Moved(r, [th EXCEPT ![r].pc = step, ![r].turn = b])
  <1>1. /\ [th[r] EXCEPT !.pc = step, !.queued = b] \in Thread
        /\ [th[r] EXCEPT !.pc = step, !.didLoad = b] \in Thread
        /\ [th[r] EXCEPT !.pc = step, !.turn = b] \in Thread
    BY DEF Thread
  <1>2. /\ [th[r] EXCEPT !.pc = step, !.queued = b].pc = step
        /\ [th[r] EXCEPT !.pc = step, !.didLoad = b].pc = step
        /\ [th[r] EXCEPT !.pc = step, !.turn = b].pc = step
    BY DEF Thread
  <1> QED
    BY <1>1, <1>2 DEF Moved, Carries

\* ... its victim or its model.
LEMMA NameMoves ==
    ASSUME th \in [Requests -> Thread], NEW r \in Requests,
           NEW step \in Steps, step \notin {"serving", "broken"},
           NEW v \in Models \cup {NoModel}
    PROVE  /\ Moved(r, [th EXCEPT ![r].pc = step, ![r].victim = v])
           /\ Moved(r, [th EXCEPT ![r].pc = step, ![r].model = v])
           /\ Moved(r, [th EXCEPT ![r].pc = step, ![r].model = v, ![r].load = TRUE])
  <1>1. /\ [th[r] EXCEPT !.pc = step, !.victim = v] \in Thread
        /\ [th[r] EXCEPT !.pc = step, !.model = v] \in Thread
        /\ [th[r] EXCEPT !.pc = step, !.model = v, !.load = TRUE] \in Thread
    BY DEF Thread
  <1>2. /\ [th[r] EXCEPT !.pc = step, !.victim = v].pc = step
        /\ [th[r] EXCEPT !.pc = step, !.model = v].pc = step
        /\ [th[r] EXCEPT !.pc = step, !.model = v, !.load = TRUE].pc = step
    BY DEF Thread
  <1> QED
    BY <1>1, <1>2 DEF Moved, Carries

\* So is the way back from load().
LEMMA LoadMoves ==
    ASSUME th \in [Requests -> Thread], NEW r \in Requests
    PROVE  Moved(r, LoadReturns(r)) /\ Moved(r, LoadThrows(r))
  <1>1. "claimed" \in Steps /\ "unclaimed" \in Steps /\ "wait" \in Steps
    BY DEF Steps
  <1>2. Moved(r, LoadReturns(r))
    BY <1>1, OverMoves, FlagMoves DEF LoadReturns
  <1>3. Moved(r, LoadThrows(r))
    BY <1>1, OverMoves, GotoMoves DEF LoadThrows
  <1> QED
    BY <1>2, <1>3

\* A request that neither had nor has a count leaves the counts alone.
LEMMA MovedKeeps ==
    ASSUME CountInv, NEW r \in Requests, ~Carries(th[r]), Moved(r, th'), inst' = inst
    PROVE  CountInv'
  BY CountKept DEF CountInv, CountTypeOK, Moved

\* No request is proxied at first.
LEMMA CountInit == Init => CountInv
  <1> SUFFICES ASSUME Init PROVE CountInv
    OBVIOUS
  <1>1. CountTypeOK
    BY DEF Init, CountTypeOK, Instance, Status, NewInstance, NewThread, Thread, Steps
  <1>2. \A m \in Models : Cardinality(Carried(m)) \in Nat
    BY FS_Subset, FS_CardinalityType, FiniteRequests DEF Carried
  <1>3. \A m \in Models : inst[m].reqCount = 0
    BY DEF Init, NewInstance
  <1> QED
    BY <1>1, <1>2, <1>3 DEF CountInv, ReqCountBound

\* A count changed to a natural number keeps the type of the registry.
LEMMA CountTyped ==
    ASSUME inst \in [Models -> Instance], NEW k
    PROVE  /\ [inst EXCEPT ![k].reqCount = @ + 1] \in [Models -> Instance]
           /\ [inst EXCEPT ![k].reqCount = IF @ > 0 THEN @ - 1 ELSE 0] \in [Models -> Instance]
  <1>1. CASE k \notin Models
    <2>1. /\ [inst EXCEPT ![k].reqCount = @ + 1] = inst
          /\ [inst EXCEPT ![k].reqCount = IF @ > 0 THEN @ - 1 ELSE 0] = inst
      BY <1>1
    <2> QED
      BY <2>1
  <1>2. CASE k \in Models
    <2> DEFINE n == inst[k].reqCount
    <2>1. n \in Nat /\ n + 1 \in Nat /\ (IF n > 0 THEN n - 1 ELSE 0) \in Nat
      BY <1>2 DEF Instance
    <2>2. \A c \in Nat : [inst EXCEPT ![k].reqCount = c] \in [Models -> Instance]
      BY <1>2 DEF Instance
    <2> QED
      BY <2>1, <2>2
  <1> QED
    BY <1>1, <1>2

(* The count and the request that will give it back come in one step ...   *)
LEMMA CountTaken == ASSUME CountInv, NEW r \in Requests, ProxyCount(r) PROVE CountInv'
  <1> DEFINE k == th[r].model
  <1>1. /\ th[r].pc \in {"count", "stale"}
        /\ inst' = [inst EXCEPT ![k].reqCount = @ + 1]
        /\ th' = [th EXCEPT ![r].pc = IF th[r].pc = "count" THEN "serving" ELSE "broken"]
    BY DEF ProxyCount, Goto
  <1>2. CountTypeOK'
    <2>0. /\ inst \in [Models -> Instance]
          /\ inst' = [inst EXCEPT ![th[r].model].reqCount = @ + 1]
      BY DEF CountInv, CountTypeOK, ProxyCount
    <2>1. inst' \in [Models -> Instance]
      BY <2>0, CountTyped
    <2>2. th' \in [Requests -> Thread]
      BY <1>1 DEF CountInv, CountTypeOK, Thread, Steps
    <2> QED
      BY <2>1, <2>2 DEF CountTypeOK
  <1>3. ASSUME NEW m \in Models PROVE inst'[m].reqCount <= Cardinality(Carried(m)')
    <2>1. IsFiniteSet(Carried(m)) /\ Cardinality(Carried(m)) \in Nat
      BY FS_Subset, FS_CardinalityType, FiniteRequests DEF Carried
    <2>2. inst[m].reqCount \in Nat /\ inst[m].reqCount <= Cardinality(Carried(m))
      BY DEF CountInv, CountTypeOK, ReqCountBound, Instance
    <2>3. CASE m = k
      <3>1. r \notin Carried(m) /\ Carried(m)' = Carried(m) \cup {r}
        BY <1>1, <2>3 DEF CountInv, CountTypeOK, Carried
      <3>2. Cardinality(Carried(m) \cup {r}) = Cardinality(Carried(m)) + 1
        BY <2>1, <3>1, FS_AddElement
      <3>3. inst'[m].reqCount = inst[m].reqCount + 1
        BY <1>1, <2>3 DEF CountInv, CountTypeOK, Instance
      <3> QED
        BY <2>1, <2>2, <3>1, <3>2, <3>3
    <2>4. CASE m # k
      <3>1. Carried(m)' = Carried(m)
        BY <1>1, <2>4 DEF CountInv, CountTypeOK, Carried
      <3>2. inst'[m].reqCount = inst[m].reqCount
        BY <1>1, <2>4 DEF CountInv, CountTypeOK
      <3> QED
        BY <2>2, <3>1, <3>2
    <2> QED
      BY <2>3, <2>4
  <1> QED
    BY <1>2, <1>3 DEF CountInv, ReqCountBound

(* ... and go in one step.                                                 *)
LEMMA CountReturned == ASSUME CountInv, NEW r \in Requests, Cleanup(r) PROVE CountInv'
  <1> DEFINE k == th[r].model
  <1>1. /\ th[r].pc \in {"serving", "broken"}
        /\ inst' = [inst EXCEPT ![k].reqCount = IF @ > 0 THEN @ - 1 ELSE 0]
        /\ th' = [th EXCEPT ![r] = [NewThread EXCEPT !.pc = "done"]]
    BY DEF Cleanup, Over
  <1>2. CountTypeOK'
    <2>0. /\ inst \in [Models -> Instance]
          /\ inst' = [inst EXCEPT ![th[r].model].reqCount = IF @ > 0 THEN @ - 1 ELSE 0]
      BY DEF CountInv, CountTypeOK, Cleanup
    <2>1. inst' \in [Models -> Instance]
      BY <2>0, CountTyped
    <2>2. th' \in [Requests -> Thread]
      BY OverMoves DEF Cleanup, CountInv, CountTypeOK, Moved
    <2> QED
      BY <2>1, <2>2 DEF CountTypeOK
  <1>3. ASSUME NEW m \in Models PROVE inst'[m].reqCount <= Cardinality(Carried(m)')
    <2>1. IsFiniteSet(Carried(m)) /\ Cardinality(Carried(m)) \in Nat
      BY FS_Subset, FS_CardinalityType, FiniteRequests DEF Carried
    <2>2. inst[m].reqCount \in Nat /\ inst[m].reqCount <= Cardinality(Carried(m))
      BY DEF CountInv, CountTypeOK, ReqCountBound, Instance
    <2>3. CASE m = k
      <3>1. r \in Carried(m) /\ Carried(m)' = Carried(m) \ {r}
        BY <1>1, <2>3 DEF CountInv, CountTypeOK, Carried, NewThread
      <3>2. Cardinality(Carried(m) \ {r}) = Cardinality(Carried(m)) - 1
        BY <2>1, <3>1, FS_RemoveElement
      <3>3. Cardinality(Carried(m) \ {r}) \in Nat
        BY <2>1, FS_RemoveElement, FS_CardinalityType
      <3>4. inst'[m].reqCount = IF inst[m].reqCount > 0 THEN inst[m].reqCount - 1 ELSE 0
        BY <1>1, <2>3 DEF CountInv, CountTypeOK, Instance
      <3> QED
        BY <2>1, <2>2, <3>1, <3>2, <3>3, <3>4
    <2>4. CASE m # k
      <3>1. Carried(m)' = Carried(m)
        BY <1>1, <2>4 DEF CountInv, CountTypeOK, Carried, NewThread
      <3>2. inst'[m].reqCount = inst[m].reqCount
        BY <1>1, <2>4 DEF CountInv, CountTypeOK
      <3> QED
        BY <2>2, <3>1, <3>2
    <2> QED
      BY <2>3, <2>4
  <1> QED
    BY <1>2, <1>3 DEF CountInv, ReqCountBound

(* Unload kills a loading child at most; t is where the caller goes on.    *)
LEMMA UnloadKeeps ==
    ASSUME NEW t \in [Requests -> Thread], NEW m, Unload(m, t)
    PROVE  /\ th' \in [Requests -> Thread]
           /\ \A q \in Requests : Carries(th'[q]) <=> Carries(t[q])
           /\ \A q \in Requests : th'[q].model = t[q].model
  <1>1. th' = t \/ th' = Disconnect(t, m)
    BY DEF Unload
  <1> QED
    BY <1>1, DisconnectKeeps

\* Every step keeps each count within the requests that hold it.
LEMMA CountStep == ASSUME CountInv, [Next]_vars PROVE CountInv'
  <1> USE DEF regVars
  <1>0. inst \in [Models -> Instance] /\ th \in [Requests -> Thread]
    BY DEF CountInv, CountTypeOK
  <1>a. {"dispatch", "proxy", "count", "stale", "lru", "wait", "evict", "evicting", "spawn", "ensure"} \subseteq Steps
    BY DEF Steps
  <1>1. ASSUME NEW r \in Requests, Ensure(r) PROVE CountInv'
    <2> USE <1>0, <1>a, MovedKeeps DEF Carries
    <2>1. CASE Spawn(r)
      <3>1. ~Carries(th[r]) /\ Moved(r, th')
        BY <2>1, LoadMoves DEF Spawn
      <3>2. inst' = [inst EXCEPT ![th[r].model] = [status |-> "loading", failed |-> @.failed, reqCount |-> 0]]
        BY <2>1 DEF Spawn
      <3>3. inst' \in [Models -> Instance]
        BY <3>2 DEF Instance, Status
      <3>4. \A m \in Models : inst'[m].reqCount = inst[m].reqCount \/ inst'[m].reqCount = 0
        BY <3>2
      <3> QED
        BY <3>1, <3>3, <3>4, CountKept DEF CountTypeOK, Moved
    <2>2. CASE LoadEvict(r)
      <3>1. ~Carries(th[r]) /\ inst' = inst /\ Unload(th[r].victim, Goto(r, "evicting"))
        BY <2>2 DEF LoadEvict
      <3>2. Moved(r, Goto(r, "evicting"))
        BY GotoMoves
      <3>3. \A q \in Requests : Goto(r, "evicting")[q].model = th[q].model
        BY DEF Goto, Thread
      <3>4. /\ th' \in [Requests -> Thread]
            /\ \A q \in Requests : Carries(th'[q]) <=> Carries(Goto(r, "evicting")[q])
            /\ \A q \in Requests : th'[q].model = Goto(r, "evicting")[q].model
        BY <3>1, <3>2, UnloadKeeps DEF Moved
      <3>5. \A q \in Requests : Carries(Goto(r, "evicting")[q]) <=> Carries(th[q])
        BY <3>1, <3>2 DEF Moved
      <3> QED
        BY <3>1, <3>3, <3>4, <3>5, CountKept DEF CountTypeOK
    <2>3. CASE EnsureReady(r)
      BY <2>3, GotoMoves DEF EnsureReady
    <2>4. CASE DispatchLoad(r)
      BY <2>4, GotoMoves DEF DispatchLoad
    <2>5. CASE DispatchQueue(r)
      BY <2>5, FlagMoves DEF DispatchQueue
    <2>6. CASE DispatchWait(r)
      BY <2>6, GotoMoves DEF DispatchWait
    <2>7. CASE LoadPickVictim(r)
      <3>1. inst' = inst /\ th[r].pc = "lru"
        BY <2>7 DEF LoadPickVictim
      <3>2. \/ th' = Goto(r, "spawn")
            \/ \E v \in Models : th' = [th EXCEPT ![r].pc = "evict", ![r].victim = v]
        BY <2>7 DEF LoadPickVictim
      <3>3. CASE th' = Goto(r, "spawn")
        BY <3>1, <3>3, GotoMoves
      <3>4. ASSUME NEW v \in Models, th' = [th EXCEPT ![r].pc = "evict", ![r].victim = v] PROVE CountInv'
        <4>1. Moved(r, [th EXCEPT ![r].pc = "evict", ![r].victim = v])
          BY NameMoves
        <4> QED
          BY <3>1, <3>4, <4>1
      <3> QED
        BY <3>2, <3>3, <3>4
    <2>8. CASE LoadEvicted(r)
      BY <2>8, NameMoves DEF LoadEvicted
    <2>9. CASE LoadSkip(r)
      BY <2>9, LoadMoves DEF LoadSkip
    <2>10. CASE LoadFails(r)
      BY <2>10, LoadMoves DEF LoadFails
    <2>11. CASE ClaimDone(r)
      BY <2>11, GotoMoves DEF ClaimDone
    <2> QED
      BY <1>1, <2>1, <2>2, <2>3, <2>4, <2>5, <2>6, <2>7, <2>8, <2>9, <2>10, <2>11 DEF Ensure
  <1>2. ASSUME NEW r \in Requests, Wait(r) \/ Cancel(r) \/ ProxyMeta(r) PROVE CountInv'
    <2> USE <1>0, <1>a, MovedKeeps DEF Carries
    <2>1. CASE WaitReady(r) \/ WaitDown(r)
      <3>1. /\ inst' = inst /\ th[r].pc = "wait"
            /\ th' = [th EXCEPT ![r].pc = "proxy", ![r].queued = FALSE]
        BY <2>1 DEF WaitReady, WaitDown, Break
      <3>2. Moved(r, th')
        BY <3>1, FlagMoves
      <3> QED
        BY <3>1, <3>2
    <2>2. CASE WaitFailed(r) \/ WaitCancelled(r)
      BY <2>2, OverMoves DEF WaitFailed, WaitCancelled, Throw
    <2>3. CASE TryClaim(r)
      BY <2>3, FlagMoves DEF TryClaim
    <2>4. CASE ProxyMeta(r)
      BY <2>4, OverMoves, GotoMoves DEF ProxyMeta
    <2>5. CASE WaitLoading(r) \/ Cancel(r)
      <3>1. /\ th[r].pc = "wait" /\ inst' = inst
            /\ \/ th' = [th EXCEPT ![r].saw = TRUE]
               \/ th' = [th EXCEPT ![r].cancelled = TRUE]
        BY <2>5 DEF WaitLoading, Cancel
      <3>2. th' \in [Requests -> Thread]
        <4>1. [th[r] EXCEPT !.saw = TRUE] \in Thread /\ [th[r] EXCEPT !.cancelled = TRUE] \in Thread
          BY DEF Thread
        <4> QED
          BY <3>1, <4>1
      <3>3. (\A q \in Requests : q # r => th'[q] = th[q]) /\ th'[r].pc = "wait"
        BY <3>1 DEF Thread
      <3> QED
        BY <3>1, <3>2, <3>3 DEF Moved
    <2> QED
      BY <1>2, <2>1, <2>2, <2>3, <2>4, <2>5 DEF Wait
  <1>3. ASSUME NEW m \in Models, AdminUnload(m) \/ ChildStops(m) \/ ChildCrashes(m) PROVE CountInv'
    <2>1. inst' = inst
      BY <1>3 DEF AdminUnload, ChildStops, ChildCrashes
    <2>2. CASE AdminUnload(m)
      BY <1>0, <2>1, <2>2, UnloadKeeps, CountKept DEF AdminUnload, CountTypeOK
    <2>3. CASE ChildStops(m) \/ ChildCrashes(m)
      <3>1. th' = Disconnect(th, m)
        BY <2>3 DEF ChildStops, ChildCrashes
      <3> QED
        BY <1>0, <2>1, <3>1, DisconnectKeeps, CountKept DEF CountTypeOK
    <2> QED
      BY <1>3, <2>2, <2>3
  <1>4. ASSUME NEW m, NEW s \in Status, NEW f \in BOOLEAN, UpdateStatus(m, s, f), th' = th
        PROVE  CountInv'
    <2>1. inst' = [inst EXCEPT ![m].status = s, ![m].failed = f]
      BY <1>4 DEF UpdateStatus
    <2>2. inst' \in [Models -> Instance] /\ \A x \in Models : inst'[x].reqCount = inst[x].reqCount
      BY <1>0, <2>1 DEF Instance
    <2> QED
      BY <1>0, <1>4, <2>2, CountKept DEF CountTypeOK
  <1>5. ASSUME NEW m \in Models, NEW s \in {"loading", "loaded", "sleeping"}, ChildState(m, s)
        PROVE  CountInv'
    BY <1>5, <1>4 DEF ChildState, Status
  <1>6. ASSUME MonitorStep PROVE CountInv'
    <2>1. CASE \E m \in Models : MonitorStop(m) \/ ChildExit(m)
      <3>1. inst' = inst /\ th' = th
        BY <2>1 DEF MonitorStop, ChildExit
      <3> QED
        BY <1>0, <3>1, CountKept DEF CountTypeOK
    <2>2. CASE \E f \in BOOLEAN : ChildExitRecorded(f)
      BY <2>2, <1>4 DEF ChildExitRecorded, Status
    <2> QED
      BY <1>6, <2>1, <2>2 DEF MonitorStep
  <1>7. ASSUME NEW r \in Requests, NEW m \in Models, Arrive(r, m) \/ ArriveLoad(r, m) PROVE CountInv'
    <2>1. inst' = inst /\ ~Carries(th[r])
      BY <1>7 DEF Arrive, ArriveLoad, Carries
    <2>2. Moved(r, th')
      <3>1. \/ th' = [th EXCEPT ![r].pc = "ensure", ![r].model = m]
            \/ th' = [th EXCEPT ![r].pc = "lru", ![r].model = m, ![r].load = TRUE]
        BY <1>7 DEF Arrive, ArriveLoad
      <3>2. /\ Moved(r, [th EXCEPT ![r].pc = "ensure", ![r].model = m])
            /\ Moved(r, [th EXCEPT ![r].pc = "lru", ![r].model = m, ![r].load = TRUE])
        BY <1>0, <1>a, NameMoves
      <3> QED
        BY <3>1, <3>2
    <2> QED
      BY <2>1, <2>2, MovedKeeps
  <1>8. CASE UNCHANGED vars
    BY <1>0, <1>8, CountKept DEF vars, CountTypeOK
  <1> QED
    BY <1>1, <1>2, <1>3, <1>5, <1>6, <1>7, <1>8, CountTaken, CountReturned
    DEF Next, RequestStep, Proxy

(* req_count never exceeds the requests that are still to give it back, so *)
(* no crash, eviction or lost connection makes a model busy for ever.      *)
THEOREM ReqCountBoundAlways == Spec => []ReqCountBound
  <1>1. CountInv => ReqCountBound
    BY DEF CountInv
  <1> QED
    BY <1>1, CountInit, CountStep, PTL DEF Spec

-----------------------------------------------------------------------------
(* The queue of the LRU scheduler.                                         *)

Waiting(t, m) == {r \in Requests : t[r].queued /\ t[r].model = m}

(* Where a request may be in line, and where it may come from /models/load.*)
QueuedSteps == {"wait", "lru", "evict", "evicting", "spawn", "claimed", "unclaimed"}
LoadSteps   == {"lru", "evict", "evicting", "spawn"}

(* A request has its model and, while it evicts, its victim; who is in     *)
(* line is waiting or loading, and the load route never waits.             *)
ThreadInv(t) ==
    /\ t.pc \notin {"idle", "done"} => t.model \in Models
    /\ t.pc \in {"evict", "evicting"} => t.victim \in Models
    /\ t.queued => t.pc \in QueuedSteps /\ ~ t.load
    /\ t.load => t.pc \in LoadSteps

RestTypeOK ==
    /\ lru \in Seq(Models)
    /\ queue \in Seq(Entry)
    /\ stopping \in SUBSET Models
    /\ stopCmd \in SUBSET Models
    /\ asked \in SUBSET Models

(* The entries of the queue, against the requests that wait.               *)
LineInv ==
    /\ \A i, j \in DOMAIN queue : queue[i].model = queue[j].model => i = j
    /\ \A i \in DOMAIN queue : queue[i].waiters >= 1 /\ queue[i].waiters = Cardinality(Waiting(th, queue[i].model))
    /\ \A r \in Requests : th[r].queued => Queued(queue, th[r].model)

WaitInv == RestTypeOK /\ LineInv /\ \A r \in Requests : ThreadInv(th[r])

(* The requests other than r wait for what they waited for.                *)
OthersWait(r) ==
    \A q \in Requests \ {r} : (th'[q].queued <=> th[q].queued) /\ (th[q].queued => th'[q].model = th[q].model)

-----------------------------------------------------------------------------
\* Those who wait for a model are finitely many.
LEMMA WaitingFacts ==
    ASSUME NEW t, NEW m
    PROVE  /\ IsFiniteSet(Waiting(t, m)) /\ Cardinality(Waiting(t, m)) \in Nat
           /\ Cardinality(Waiting(t, m)) = 0 <=> Waiting(t, m) = {}
  <1>1. IsFiniteSet(Waiting(t, m))
    BY FS_Subset, FiniteRequests DEF Waiting
  <1> QED
    BY <1>1, FS_CardinalityType, FS_EmptySet

\* The entries of a queue.
LEMMA EntryFacts ==
    ASSUME NEW q \in Seq(Entry)
    PROVE  /\ Len(q) \in Nat /\ DOMAIN q = 1..Len(q)
           /\ \A i \in 1..Len(q) : /\ q[i] \in Entry /\ q[i].model \in Models /\ q[i].waiters \in Nat
                                   /\ q[i].loading \in BOOLEAN
  <1>1. Len(q) \in Nat /\ DOMAIN q = 1..Len(q)
    BY LenProperties
  <1>2. \A i \in 1..Len(q) : q[i] \in Entry
    BY ElementOfSeq
  <1> QED
    BY <1>1, <1>2 DEF Entry

\* A queue with other numbers of waiters or other marks.
LEMMA RowsTyped ==
    ASSUME NEW q \in Seq(Entry), NEW p, DOMAIN p = DOMAIN q, p = [i \in DOMAIN q |-> p[i]],
           \A i \in DOMAIN q : p[i] \in Entry
    PROVE  p \in Seq(Entry) /\ Len(p) = Len(q)
  <1>1. Len(q) \in Nat /\ DOMAIN q = 1..Len(q)
    BY LenProperties
  <1>2. p \in [1..Len(q) -> Entry]
    BY <1>1
  <1> QED
    BY <1>1, <1>2, FunctionIsSeq

\* One waiter more or less for a model.
LEMMA AddWaitersFacts ==
    ASSUME NEW q \in Seq(Entry), NEW m, NEW d \in Int,
           \A i \in 1..Len(q) : q[i].model = m => q[i].waiters + d \in Nat
    PROVE  LET p == AddWaiters(q, m, d) IN
           /\ p \in Seq(Entry) /\ Len(p) = Len(q)
           /\ \A i \in 1..Len(q) : /\ p[i].model = q[i].model /\ p[i].loading = q[i].loading
                                   /\ p[i].waiters = IF q[i].model = m THEN q[i].waiters + d ELSE q[i].waiters
  <1> DEFINE p == AddWaiters(q, m, d)
  <1>1. p = [i \in DOMAIN q |-> IF q[i].model = m THEN [q[i] EXCEPT !.waiters = q[i].waiters + d] ELSE q[i]]
    BY DEF AddWaiters
  <1> HIDE DEF p
  <1>2. ASSUME NEW i \in 1..Len(q)
        PROVE  /\ p[i] \in Entry /\ p[i].model = q[i].model /\ p[i].loading = q[i].loading
               /\ p[i].waiters = IF q[i].model = m THEN q[i].waiters + d ELSE q[i].waiters
    <2>1. q[i] \in Entry /\ i \in DOMAIN q
      BY EntryFacts
    <2>2. CASE q[i].model = m
      <3>1. PICK w \in Nat : w = q[i].waiters + d
        BY <2>2
      <3>2. p[i] = [q[i] EXCEPT !.waiters = w]
        BY <1>1, <2>1, <2>2, <3>1
      <3>3. p[i] \in Entry /\ p[i].model = q[i].model /\ p[i].loading = q[i].loading /\ p[i].waiters = w
        BY <2>1, <3>2 DEF Entry
      <3> QED
        BY <2>2, <3>1, <3>3
    <2>3. CASE q[i].model # m
      <3>1. p[i] = q[i]
        BY <1>1, <2>1, <2>3
      <3> QED
        BY <2>1, <2>3, <3>1
    <2> QED
      BY <2>2, <2>3
  <1>3. DOMAIN p = DOMAIN q /\ p = [i \in DOMAIN q |-> p[i]] /\ DOMAIN q = 1..Len(q)
    BY <1>1, EntryFacts
  <1>4. p \in Seq(Entry) /\ Len(p) = Len(q)
    BY <1>2, <1>3, RowsTyped
  <1> QED
    BY <1>2, <1>4 DEF p

\* The mark of a model's entry.
LEMMA SetLoadingFacts ==
    ASSUME NEW q \in Seq(Entry), NEW m, NEW b \in BOOLEAN
    PROVE  LET p == SetLoading(q, m, b) IN
           /\ p \in Seq(Entry) /\ Len(p) = Len(q)
           /\ \A i \in 1..Len(q) : p[i].model = q[i].model /\ p[i].waiters = q[i].waiters
  <1> DEFINE p == SetLoading(q, m, b)
  <1>1. p = [i \in DOMAIN q |-> IF q[i].model = m THEN [q[i] EXCEPT !.loading = b] ELSE q[i]]
    BY DEF SetLoading
  <1> HIDE DEF p
  <1>2. ASSUME NEW i \in 1..Len(q)
        PROVE  p[i] \in Entry /\ p[i].model = q[i].model /\ p[i].waiters = q[i].waiters
    <2>1. q[i] \in Entry /\ i \in DOMAIN q
      BY EntryFacts
    <2>2. p[i] = q[i] \/ p[i] = [q[i] EXCEPT !.loading = b]
      BY <1>1, <2>1
    <2> QED
      BY <2>1, <2>2 DEF Entry
  <1>3. DOMAIN p = DOMAIN q /\ p = [i \in DOMAIN q |-> p[i]] /\ DOMAIN q = 1..Len(q)
    BY <1>1, EntryFacts
  <1>4. p \in Seq(Entry) /\ Len(p) = Len(q)
    BY <1>2, <1>3, RowsTyped
  <1> QED
    BY <1>2, <1>4 DEF p

-----------------------------------------------------------------------------
\* The queue and those who wait stay the same, but for the marks.
LEMMA LineKept ==
    ASSUME WaitInv, queue' \in Seq(Entry), Len(queue') = Len(queue),
           \A i \in 1..Len(queue) : queue'[i].model = queue[i].model /\ queue'[i].waiters = queue[i].waiters,
           \A q \in Requests : (th'[q].queued <=> th[q].queued) /\ (th[q].queued => th'[q].model = th[q].model)
    PROVE  LineInv'
  <1>1. queue \in Seq(Entry) /\ LineInv
    BY DEF WaitInv, RestTypeOK
  <1>2. Len(queue) \in Nat /\ DOMAIN queue = 1..Len(queue) /\ DOMAIN queue' = 1..Len(queue)
    BY <1>1, EntryFacts
  <1>3. \A m : Waiting(th', m) = Waiting(th, m)
    BY DEF Waiting
  <1>4. \A m : Queued(queue, m)' <=> Queued(queue, m)
    BY <1>2 DEF Queued
  <1>5. ASSUME NEW i \in DOMAIN queue'
        PROVE  queue'[i].waiters >= 1 /\ queue'[i].waiters = Cardinality(Waiting(th', queue'[i].model))
    BY <1>1, <1>2, <1>3 DEF LineInv
  <1>6. \A i, j \in DOMAIN queue' : queue'[i].model = queue'[j].model => i = j
    BY <1>1, <1>2 DEF LineInv
  <1>7. ASSUME NEW q \in Requests, th'[q].queued PROVE Queued(queue', th'[q].model)
    <2>1. th[q].queued /\ th'[q].model = th[q].model
      BY <1>7
    <2>2. Queued(queue, th[q].model)
      BY <2>1, <1>1 DEF LineInv
    <2> QED
      BY <2>1, <2>2, <1>2 DEF Queued
  <1> QED
    BY <1>5, <1>6, <1>7 DEF LineInv

\* A request gets in line for a model.
LEMMA WaitingJoined ==
    ASSUME NEW r \in Requests, OthersWait(r), ~ th[r].queued, th'[r].queued, NEW m, th'[r].model = m
    PROVE  /\ Cardinality(Waiting(th', m)) = Cardinality(Waiting(th, m)) + 1
           /\ \A x : x # m => Waiting(th', x) = Waiting(th, x)
  <1>1. Waiting(th', m) = Waiting(th, m) \cup {r} /\ r \notin Waiting(th, m)
    BY DEF Waiting, OthersWait
  <1>2. \A x : x # m => Waiting(th', x) = Waiting(th, x)
    BY DEF Waiting, OthersWait
  <1>3. Cardinality(Waiting(th, m) \cup {r}) = Cardinality(Waiting(th, m)) + 1
    BY <1>1, WaitingFacts, FS_AddElement
  <1> QED
    BY <1>1, <1>2, <1>3

\* A request leaves the line.
LEMMA WaitingLeft ==
    ASSUME NEW r \in Requests, OthersWait(r), th[r].queued, ~ th'[r].queued, NEW m, th[r].model = m
    PROVE  /\ Cardinality(Waiting(th', m)) = Cardinality(Waiting(th, m)) - 1
           /\ \A x : x # m => Waiting(th', x) = Waiting(th, x)
  <1>1. Waiting(th', m) = Waiting(th, m) \ {r} /\ r \in Waiting(th, m)
    BY DEF Waiting, OthersWait
  <1>2. \A x : x # m => Waiting(th', x) = Waiting(th, x)
    BY DEF Waiting, OthersWait
  <1>3. Cardinality(Waiting(th, m) \ {r}) = Cardinality(Waiting(th, m)) - 1
    BY <1>1, WaitingFacts, FS_RemoveElement
  <1> QED
    BY <1>1, <1>2, <1>3

\* join: the entry of the model counts one more, or a new entry counts the first.
LEMMA LineJoined ==
    ASSUME WaitInv, NEW r \in Requests, OthersWait(r), ~ th[r].queued, th'[r].queued,
           NEW m \in Models, th'[r].model = m, queue' = Join(queue, m)
    PROVE  queue' \in Seq(Entry) /\ LineInv'
  <1>1. queue \in Seq(Entry) /\ LineInv
    BY DEF WaitInv, RestTypeOK
  <1>2. /\ Len(queue) \in Nat /\ DOMAIN queue = 1..Len(queue)
        /\ \A i \in 1..Len(queue) : queue[i] \in Entry /\ queue[i].waiters \in Nat
    BY <1>1, EntryFacts
  <1>3. /\ Cardinality(Waiting(th', m)) = Cardinality(Waiting(th, m)) + 1
        /\ \A x : x # m => Waiting(th', x) = Waiting(th, x)
    BY WaitingJoined
  <1>4. ASSUME NEW q \in Requests, th'[q].queued
        PROVE  th'[q].model = m \/ Queued(queue, th'[q].model)
    BY <1>1, <1>4 DEF OthersWait, LineInv
  <1>5. CASE Queued(queue, m)
    <2> DEFINE p == AddWaiters(queue, m, 1)
    <2>1. queue' = p
      BY <1>5 DEF Join
    <2>2. /\ p \in Seq(Entry) /\ Len(p) = Len(queue)
          /\ \A i \in 1..Len(queue) : /\ p[i].model = queue[i].model
                                      /\ p[i].waiters = IF queue[i].model = m THEN queue[i].waiters + 1 ELSE queue[i].waiters
      BY <1>1, <1>2, AddWaitersFacts
    <2> HIDE DEF p
    <2>3. DOMAIN p = 1..Len(queue)
      BY <2>2, EntryFacts
    <2>4. \A i, j \in DOMAIN p : p[i].model = p[j].model => i = j
      BY <1>1, <1>2, <2>2, <2>3 DEF LineInv
    <2>5. ASSUME NEW i \in DOMAIN p PROVE p[i].waiters >= 1 /\ p[i].waiters = Cardinality(Waiting(th', p[i].model))
      <3>1. /\ queue[i].waiters >= 1 /\ queue[i].waiters = Cardinality(Waiting(th, queue[i].model))
            /\ queue[i].waiters \in Nat /\ p[i].model = queue[i].model
            /\ p[i].waiters = IF queue[i].model = m THEN queue[i].waiters + 1 ELSE queue[i].waiters
        BY <1>1, <1>2, <2>2, <2>3 DEF LineInv
      <3> QED
        BY <3>1, <1>3
    <2>6. \A x : Queued(queue, x) => Queued(p, x)
      BY <1>2, <2>2, <2>3 DEF Queued
    <2>7. \A q \in Requests : th'[q].queued => Queued(p, th'[q].model)
      BY <1>4, <1>5, <2>6
    <2> QED
      BY <2>1, <2>2, <2>4, <2>5, <2>7 DEF LineInv
  <1>6. CASE ~ Queued(queue, m)
    <2>1. PICK e : e = [model |-> m, waiters |-> 1, loading |-> FALSE]
      OBVIOUS
    <2>2. e \in Entry /\ e.model = m /\ e.waiters = 1
      BY <2>1 DEF Entry
    <2>3. queue' = Append(queue, e)
      BY <2>1, <1>6 DEF Join
    <2>4. PICK p : p = Append(queue, e)
      OBVIOUS
    <2>5. /\ p \in Seq(Entry) /\ Len(p) = Len(queue) + 1 /\ p[Len(queue) + 1] = e
          /\ \A i \in 1..Len(queue) : p[i] = queue[i]
      BY <2>2, <2>4, <1>1, AppendProperties
    <2>6. DOMAIN p = 1..Len(queue) + 1
      BY <2>5, EntryFacts
    <2>7. \A i \in 1..Len(queue) : queue[i].model # m
      BY <1>2, <1>6 DEF Queued
    <2>8. Waiting(th, m) = {}
      BY <1>1, <1>6 DEF Waiting, LineInv
    <2>9. Cardinality(Waiting(th', m)) = 1
      <3>1. Cardinality(Waiting(th, m)) = 0
        BY <2>8, WaitingFacts
      <3> QED
        BY <3>1, <1>3
    <2>10. ASSUME NEW i \in DOMAIN p
           PROVE  \/ i = Len(queue) + 1 /\ p[i].model = m /\ p[i].waiters = 1
                  \/ i \in 1..Len(queue) /\ p[i] = queue[i] /\ queue[i].model # m
      BY <2>2, <2>5, <2>6, <2>7, <1>2
    <2>11. ASSUME NEW i \in DOMAIN p, NEW j \in DOMAIN p, p[i].model = p[j].model PROVE i = j
      BY <2>10, <2>11, <1>1, <1>2 DEF LineInv
    <2>12. ASSUME NEW i \in DOMAIN p PROVE p[i].waiters >= 1 /\ p[i].waiters = Cardinality(Waiting(th', p[i].model))
      <3>1. CASE i = Len(queue) + 1 /\ p[i].model = m /\ p[i].waiters = 1
        BY <3>1, <2>9
      <3>2. CASE i \in 1..Len(queue) /\ p[i] = queue[i] /\ queue[i].model # m
        <4>1. queue[i].waiters >= 1 /\ queue[i].waiters = Cardinality(Waiting(th, queue[i].model))
          BY <3>2, <1>1, <1>2 DEF LineInv
        <4>2. Waiting(th', queue[i].model) = Waiting(th, queue[i].model)
          BY <3>2, <1>3
        <4> QED
          BY <3>2, <4>1, <4>2
      <3> QED
        BY <2>10, <3>1, <3>2
    <2>13. ASSUME NEW x, x = m \/ Queued(queue, x) PROVE Queued(p, x)
      <3>1. CASE x = m
        <4>1. Len(queue) + 1 \in DOMAIN p
          BY <2>6, <1>2
        <4> QED
          BY <3>1, <4>1, <2>2, <2>5 DEF Queued
      <3>2. CASE Queued(queue, x)
        <4>1. PICK i \in 1..Len(queue) : queue[i].model = x
          BY <3>2, <1>2 DEF Queued
        <4>2. i \in DOMAIN p /\ p[i] = queue[i]
          BY <2>5, <2>6, <1>2
        <4> QED
          BY <4>1, <4>2 DEF Queued
      <3> QED
        BY <2>13, <3>1, <3>2
    <2>14. \A q \in Requests : th'[q].queued => Queued(p, th'[q].model)
      BY <1>4, <2>13
    <2>15. queue' = p
      BY <2>3, <2>4
    <2> QED
      BY <2>5, <2>11, <2>12, <2>14, <2>15 DEF LineInv
  <1> QED
    BY <1>5, <1>6

\* leave: the entry of the model counts one less, or goes with the last who waited.
LEMMA LineLeft ==
    ASSUME WaitInv, NEW r \in Requests, OthersWait(r), th[r].queued, ~ th'[r].queued, queue' = Leave(queue, th[r].model)
    PROVE  queue' \in Seq(Entry) /\ LineInv'
  <1> DEFINE m == th[r].model
             left == AddWaiters(queue, m, -1)
             D == {left[i] : i \in {j \in DOMAIN left : left[j].waiters <= 0}}
             N == Len(queue)
  <1>1. queue \in Seq(Entry) /\ LineInv
    BY DEF WaitInv, RestTypeOK
  <1>2. /\ N \in Nat /\ DOMAIN queue = 1..N
        /\ \A i \in 1..N : queue[i] \in Entry /\ queue[i].waiters \in Nat /\ queue[i].waiters >= 1
                           /\ queue[i].waiters = Cardinality(Waiting(th, queue[i].model))
    BY <1>1, EntryFacts DEF LineInv
  <1>3. /\ Cardinality(Waiting(th', m)) = Cardinality(Waiting(th, m)) - 1
        /\ \A x : x # m => Waiting(th', x) = Waiting(th, x)
    BY WaitingLeft
  <1>4. /\ left \in Seq(Entry) /\ Len(left) = N
        /\ \A i \in 1..N : /\ left[i].model = queue[i].model
                           /\ left[i].waiters = IF queue[i].model = m THEN queue[i].waiters - 1 ELSE queue[i].waiters
    <2>1. \A i \in 1..N : queue[i].model = m => queue[i].waiters + (-1) \in Nat
      BY <1>2
    <2>2. -1 \in Int
      OBVIOUS
    <2>3. /\ left \in Seq(Entry) /\ Len(left) = N
          /\ \A i \in 1..N : /\ left[i].model = queue[i].model
                             /\ left[i].waiters = IF queue[i].model = m THEN queue[i].waiters + (-1) ELSE queue[i].waiters
      BY <2>1, <2>2, <1>1, AddWaitersFacts
    <2>4. \A i \in 1..N : queue[i].waiters + (-1) = queue[i].waiters - 1
      BY <1>2
    <2> QED
      BY <2>3, <2>4
  <1>5. queue' = Drop(left, D)
    BY DEF Leave
  <1>6. DOMAIN left = 1..N
    BY <1>4, EntryFacts
  <1>7. \A i \in 1..N : left[i] \in D <=> left[i].waiters <= 0
    BY <1>6
  <1> HIDE DEF left, D, N, m
  <1>8. PICK p : p = Drop(left, D)
    OBVIOUS
  <1>9. p \in Seq(Entry)
    BY <1>4, <1>8, DropFacts
  <1>10. PICK g : /\ Embeds(g, p, left) /\ (\A j \in 1..Len(p) : left[g[j]] \notin D)
                  /\ \A i \in 1..Len(left) : left[i] \notin D => \E j \in 1..Len(p) : g[j] = i
    <2>1. \E g : /\ Embeds(g, Drop(left, D), left) /\ (\A j \in 1..Len(Drop(left, D)) : left[g[j]] \notin D)
                 /\ \A i \in 1..Len(left) : left[i] \notin D => \E j \in 1..Len(Drop(left, D)) : g[j] = i
      BY <1>4, DropPlaces
    <2> QED
      BY <2>1, <1>8
  <1>11. /\ g \in [1..Len(p) -> 1..N] /\ (\A i \in 1..Len(p) : p[i] = left[g[i]])
         /\ \A i, j \in 1..Len(p) : i < j => g[i] < g[j]
    BY <1>4, <1>10 DEF Embeds
  <1>12. DOMAIN p = 1..Len(p) /\ Len(p) \in Nat
    BY <1>9, EntryFacts
  <1>13. ASSUME NEW i \in 1..N
         PROVE  left[i].waiters = Cardinality(Waiting(th', left[i].model)) /\ left[i].waiters \in Nat
    <2>1. /\ left[i].model = queue[i].model /\ queue[i].waiters = Cardinality(Waiting(th, queue[i].model))
          /\ queue[i].waiters \in Nat /\ queue[i].waiters >= 1
          /\ left[i].waiters = IF queue[i].model = m THEN queue[i].waiters - 1 ELSE queue[i].waiters
      BY <1>2, <1>4
    <2> QED
      BY <2>1, <1>3
  <1>14. ASSUME NEW i \in DOMAIN p, NEW j \in DOMAIN p, p[i].model = p[j].model PROVE i = j
    <2>1. i \in 1..Len(p) /\ j \in 1..Len(p) /\ g[i] \in 1..N /\ g[j] \in 1..N
      BY <1>11, <1>12
    <2>2. p[i] = left[g[i]] /\ p[j] = left[g[j]]
      BY <2>1, <1>11
    <2>3. queue[g[i]].model = queue[g[j]].model
      BY <2>1, <2>2, <1>4, <1>14
    <2>4. g[i] = g[j]
      BY <2>1, <2>3, <1>1, <1>2 DEF LineInv
    <2>5. ~ (i < j) /\ ~ (j < i)
      BY <2>1, <2>4, <1>11
    <2> QED
      BY <2>1, <2>5, <1>12
  <1>15. ASSUME NEW i \in DOMAIN p PROVE p[i].waiters >= 1 /\ p[i].waiters = Cardinality(Waiting(th', p[i].model))
    <2>1. i \in 1..Len(p) /\ g[i] \in 1..N /\ p[i] = left[g[i]] /\ left[g[i]] \notin D
      BY <1>10, <1>11, <1>12
    <2>2. left[g[i]].waiters = Cardinality(Waiting(th', left[g[i]].model)) /\ left[g[i]].waiters \in Nat
      BY <2>1, <1>13
    <2>3. ~ (left[g[i]].waiters <= 0)
      BY <2>1, <1>7
    <2> QED
      BY <2>1, <2>2, <2>3
  <1>16. ASSUME NEW q \in Requests, th'[q].queued PROVE Queued(p, th'[q].model)
    <2>1. q # r /\ th[q].queued /\ th'[q].model = th[q].model
      BY <1>16 DEF OthersWait
    <2>2. PICK i \in 1..N : queue[i].model = th[q].model
      BY <2>1, <1>1, <1>2 DEF LineInv, Queued
    <2>3. left[i].model = th'[q].model
      BY <2>1, <2>2, <1>4
    <2>4. q \in Waiting(th', left[i].model)
      BY <2>3, <1>16 DEF Waiting
    <2>5. left[i].waiters # 0 /\ left[i].waiters \in Nat
      BY <2>4, <1>13, WaitingFacts
    <2>6. left[i] \notin D
      BY <2>5, <1>7
    <2>7. PICK j \in 1..Len(p) : g[j] = i
      BY <2>6, <1>4, <1>10
    <2>8. p[j].model = th'[q].model
      BY <2>3, <2>7, <1>11
    <2> QED
      BY <2>8, <1>12 DEF Queued
  <1>17. queue' = p
    BY <1>5, <1>8
  <1> QED
    BY <1>9, <1>14, <1>15, <1>16, <1>17 DEF LineInv

-----------------------------------------------------------------------------
(* t is the threads after a step in which nobody gets in line or leaves it *)
Keeping(t) ==
    /\ t \in [Requests -> Thread]
    /\ \A q \in Requests : /\ ThreadInv(t[q])
                           /\ t[q].queued <=> th[q].queued
                           /\ th[q].queued => t[q].model = th[q].model

\* One thread moves on as one that waits for the same model, or for none as before.
LEMMA KeepingMove ==
    ASSUME th \in [Requests -> Thread], WaitInv, NEW r \in Requests, NEW x \in Thread, ThreadInv(x),
           x.queued <=> th[r].queued, th[r].queued => x.model = th[r].model
    PROVE  Keeping([th EXCEPT ![r] = x])
  <1>1. [th EXCEPT ![r] = x] \in [Requests -> Thread]
    OBVIOUS
  <1>2. ASSUME NEW q \in Requests
        PROVE  [th EXCEPT ![r] = x][q] = IF q = r THEN x ELSE th[q]
    OBVIOUS
  <1>3. \A q \in Requests : ThreadInv(th[q])
    BY DEF WaitInv
  <1> QED
    BY <1>1, <1>2, <1>3 DEF Keeping

\* A thread that was in line or was loading goes on with another step.
LEMMA KeepingGoto ==
    ASSUME th \in [Requests -> Thread], WaitInv, NEW r \in Requests, NEW step \in Steps,
           th[r].pc \notin {"idle", "done"}, step \notin {"evict", "evicting"},
           th[r].queued => step \in QueuedSteps, th[r].load => step \in LoadSteps
    PROVE  Keeping(Goto(r, step))
  <1> DEFINE x == [th[r] EXCEPT !.pc = step]
  <1>1. /\ x \in Thread /\ x.pc = step /\ x.model = th[r].model /\ x.queued = th[r].queued
        /\ x.load = th[r].load
    BY DEF Thread
  <1>2. ThreadInv(th[r])
    BY DEF WaitInv
  <1>3. Goto(r, step) = [th EXCEPT ![r] = x]
    BY DEF Goto
  <1> HIDE DEF x
  <1>4. ThreadInv(x)
    BY <1>1, <1>2 DEF ThreadInv
  <1> QED
    BY <1>1, <1>3, <1>4, KeepingMove

\* A thread that is not in line ends.
LEMMA KeepingOver ==
    ASSUME th \in [Requests -> Thread], WaitInv, NEW r \in Requests, ~ th[r].queued
    PROVE  Keeping(Over(r))
  <1>1. PICK x : x = [NewThread EXCEPT !.pc = "done"]
    OBVIOUS
  <1>2. x \in Thread /\ x.pc = "done" /\ x.queued = FALSE /\ x.load = FALSE
    BY <1>1 DEF NewThread, Thread, Steps
  <1>3. ThreadInv(x)
    BY <1>2 DEF ThreadInv
  <1>4. Over(r) = [th EXCEPT ![r] = x]
    BY <1>1 DEF Over
  <1> QED
    BY <1>2, <1>3, <1>4, KeepingMove

\* The threads whose child is gone wait for whom they waited.
LEMMA KeepingDisconnect ==
    ASSUME NEW t, Keeping(t), NEW m
    PROVE  Keeping(Disconnect(t, m))
  <1>1. t \in [Requests -> Thread]
    BY DEF Keeping
  <1>2. Disconnect(t, m) \in [Requests -> Thread]
    BY <1>1, DisconnectKeeps
  <1>3. ASSUME NEW q \in Requests
        PROVE  LET d == Disconnect(t, m)[q] IN
               /\ d.model = t[q].model /\ d.queued = t[q].queued /\ d.load = t[q].load /\ d.victim = t[q].victim
               /\ \/ d.pc = t[q].pc
                  \/ t[q].pc \in {"count", "serving"} /\ d.pc \in {"stale", "broken"}
    <2>1. t[q] \in Thread
      BY <1>1
    <2>2. \/ Disconnect(t, m)[q] = t[q]
          \/ t[q].pc \in {"count", "serving"} /\ Disconnect(t, m)[q] = [t[q] EXCEPT !.pc = "stale"]
          \/ t[q].pc \in {"count", "serving"} /\ Disconnect(t, m)[q] = [t[q] EXCEPT !.pc = "broken"]
      BY DEF Disconnect
    <2>3. \A s \in {"stale", "broken"} :
             LET d == [t[q] EXCEPT !.pc = s]
             IN  d.model = t[q].model /\ d.queued = t[q].queued /\ d.load = t[q].load
                 /\ d.victim = t[q].victim /\ d.pc = s
      BY <2>1 DEF Thread
    <2> QED
      BY <2>2, <2>3
  <1>4. ASSUME NEW q \in Requests
        PROVE  /\ ThreadInv(Disconnect(t, m)[q])
               /\ Disconnect(t, m)[q].queued = t[q].queued /\ Disconnect(t, m)[q].model = t[q].model
    <2>1. PICK d : d = Disconnect(t, m)[q]
      OBVIOUS
    <2>2. /\ d.model = t[q].model /\ d.queued = t[q].queued /\ d.load = t[q].load /\ d.victim = t[q].victim
          /\ \/ d.pc = t[q].pc
             \/ t[q].pc \in {"count", "serving"} /\ d.pc \in {"stale", "broken"}
      BY <2>1, <1>3
    <2>3. ThreadInv(t[q])
      BY DEF Keeping
    <2>4. ThreadInv(d)
      BY <2>2, <2>3 DEF ThreadInv, QueuedSteps, LoadSteps
    <2> QED
      BY <2>1, <2>2, <2>4
  <1> QED
    BY <1>2, <1>4 DEF Keeping

\* The way back from load(), without and with an error.
LEMMA KeepingLoad ==
    ASSUME th \in [Requests -> Thread], WaitInv, NEW r \in Requests, th[r].pc = "spawn"
    PROVE  Keeping(LoadReturns(r)) /\ Keeping(LoadThrows(r))
  <1>1. ThreadInv(th[r])
    BY DEF WaitInv
  <1>2. Keeping(LoadReturns(r))
    <2>1. CASE th[r].load
      <3>1. ~ th[r].queued
        BY <1>1, <2>1 DEF ThreadInv
      <3> QED
        BY <2>1, <3>1, KeepingOver DEF LoadReturns
    <2>2. CASE ~ th[r].load
      <3> DEFINE step == IF th[r].queued THEN "claimed" ELSE "wait"
                 x == [th[r] EXCEPT !.pc = step, !.didLoad = TRUE]
      <3>1. /\ x \in Thread /\ x.pc = step /\ x.model = th[r].model /\ x.queued = th[r].queued
            /\ x.load = th[r].load
        BY DEF Thread, Steps
      <3>2. LoadReturns(r) = [th EXCEPT ![r] = x]
        BY <2>2 DEF LoadReturns
      <3>3. step \in {"claimed", "wait"}
        OBVIOUS
      <3> HIDE DEF x, step
      <3>4. ThreadInv(x)
        BY <3>1, <3>3, <1>1, <2>2 DEF ThreadInv, QueuedSteps
      <3> QED
        BY <3>1, <3>2, <3>4, KeepingMove
    <2> QED
      BY <2>1, <2>2
  <1>3. Keeping(LoadThrows(r))
    <2>1. CASE th[r].queued
      <3>1. ~ th[r].load
        BY <1>1, <2>1 DEF ThreadInv
      <3>2. Keeping(Goto(r, "unclaimed"))
        BY <3>1, KeepingGoto DEF Steps, QueuedSteps
      <3> QED
        BY <2>1, <3>2 DEF LoadThrows
    <2>2. CASE ~ th[r].queued
      BY <2>2, KeepingOver DEF LoadThrows
    <2> QED
      BY <2>1, <2>2
  <1> QED
    BY <1>2, <1>3

\* tick only marks models of the registry.
LEMMA TickTypes ==
    ASSUME RestTypeOK, NEW i, NEW q, Tick(i, q, stopping)
    PROVE  stopping' \in SUBSET Models /\ stopCmd' \in SUBSET Models
  <1>1. PICK V \in LeastRecent(Shortage(i, q, stopping), Evictable(i, q, stopping)) :
            stopping' = stopping \cup V /\ stopCmd' = stopCmd \cup V
    BY DEF Tick
  <1>2. V \subseteq Models
    BY <1>1 DEF LeastRecent, Evictable, ReadyOrSleep
  <1> QED
    BY <1>1, <1>2 DEF RestTypeOK

\* Using a model puts it at the end of the list.
LEMMA TouchTypes ==
    ASSUME RestTypeOK, NEW m \in Models, Touch(m)
    PROVE  lru' \in Seq(Models)
  <1>1. lru \in Seq(Models)
    BY DEF RestTypeOK
  <1>2. PICK p : p = Drop(lru, {m})
    OBVIOUS
  <1>3. p \in Seq(Models)
    BY <1>1, <1>2, DropFacts
  <1>4. Append(p, m) \in Seq(Models)
    BY <1>3, AppendProperties
  <1> QED
    BY <1>2, <1>4 DEF Touch

\* unload marks the model and may cost it its child.
LEMMA UnloadQuiet ==
    ASSUME RestTypeOK, NEW m \in Models, NEW t, Keeping(t), Unload(m, t)
    PROVE  stopping' \in SUBSET Models /\ stopCmd' \in SUBSET Models /\ \E u : th' = u /\ Keeping(u)
  <1>1. stopping' \in SUBSET Models /\ stopCmd' \in SUBSET Models
    BY DEF Unload, RequestStop, RestTypeOK, stopVars
  <1>2. th' = t \/ th' = Disconnect(t, m)
    BY DEF Unload
  <1>3. Keeping(Disconnect(t, m))
    BY KeepingDisconnect
  <1> QED
    BY <1>1, <1>2, <1>3

\* What a step does to the rest of the registry keeps its type.
RestKept ==
    lru' \in Seq(Models) /\ stopping' \in SUBSET Models /\ stopCmd' \in SUBSET Models /\ asked' \in SUBSET Models

\* A step that leaves the queue alone, but for its marks.
LEMMA QuietStep ==
    ASSUME WaitInv, Keeping(th'), RestKept, queue' \in Seq(Entry), Len(queue') = Len(queue),
           \A i \in 1..Len(queue) : queue'[i].model = queue[i].model /\ queue'[i].waiters = queue[i].waiters
    PROVE  WaitInv'
  <1>1. /\ \A q \in Requests : (th'[q].queued <=> th[q].queued) /\ (th[q].queued => th'[q].model = th[q].model)
        /\ \A q \in Requests : ThreadInv(th'[q])
    BY DEF Keeping
  <1>2. LineInv'
    BY <1>1, LineKept
  <1> QED
    BY <1>1, <1>2 DEF WaitInv, RestTypeOK, RestKept

\* A step that does not touch the queue.
LEMMA SameQueue ==
    ASSUME WaitInv, Keeping(th'), RestKept, queue' = queue
    PROVE  WaitInv'
  <1>1. queue \in Seq(Entry)
    BY DEF WaitInv, RestTypeOK
  <1> QED
    BY <1>1, QuietStep

\* Nobody moves.
LEMMA KeepingNone ==
    ASSUME th \in [Requests -> Thread], WaitInv
    PROVE  Keeping(th)
  BY DEF Keeping, WaitInv

\* Nothing of the rest changes.
LEMMA RestSame ==
    ASSUME WaitInv, lru' = lru, stopping' = stopping, stopCmd' = stopCmd, asked' = asked
    PROVE  RestKept
  BY DEF WaitInv, RestTypeOK, RestKept

\* Only tick changes the rest.
LEMMA RestTicked ==
    ASSUME WaitInv, lru' = lru, asked' = asked, NEW i, NEW q, Tick(i, q, stopping)
    PROVE  RestKept
  <1>1. stopping' \in SUBSET Models /\ stopCmd' \in SUBSET Models
    BY TickTypes DEF WaitInv
  <1> QED
    BY <1>1 DEF WaitInv, RestTypeOK, RestKept

-----------------------------------------------------------------------------
\* A request arrives, for the proxy or for /models/load, or its client goes away.
LEMMA ArriveWaits ==
    ASSUME th \in [Requests -> Thread], WaitInv, NEW r \in Requests, NEW m \in Models,
           Arrive(r, m) \/ ArriveLoad(r, m) \/ Cancel(r)
    PROVE  WaitInv'
  <1>1. queue' = queue /\ RestKept
    BY RestSame DEF Arrive, ArriveLoad, Cancel, regVars, stopVars, childVars
  <1>2. th[r] \in Thread /\ ThreadInv(th[r])
    BY DEF WaitInv
  <1>3. CASE Arrive(r, m)
    <2> DEFINE x == [th[r] EXCEPT !.pc = "ensure", !.model = m]
    <2>1. /\ x \in Thread /\ x.pc = "ensure" /\ x.model = m /\ x.queued = th[r].queued
          /\ x.load = th[r].load
      BY <1>2 DEF Thread, Steps
    <2>2. th' = [th EXCEPT ![r] = x] /\ th[r].pc = "idle"
      BY <1>3 DEF Arrive
    <2> HIDE DEF x
    <2>3. ~ th[r].queued /\ ~ th[r].load
      BY <1>2, <2>2 DEF ThreadInv, QueuedSteps, LoadSteps
    <2>4. ThreadInv(x)
      BY <2>1, <2>3 DEF ThreadInv
    <2>5. Keeping([th EXCEPT ![r] = x])
      BY <2>1, <2>3, <2>4, KeepingMove
    <2> QED
      BY <1>1, <2>2, <2>5, SameQueue
  <1>4. CASE ArriveLoad(r, m)
    <2> DEFINE x == [th[r] EXCEPT !.pc = "lru", !.model = m, !.load = TRUE]
    <2>1. /\ x \in Thread /\ x.pc = "lru" /\ x.model = m /\ x.queued = th[r].queued
          /\ x.load = TRUE
      BY <1>2 DEF Thread, Steps
    <2>2. th' = [th EXCEPT ![r] = x] /\ th[r].pc = "idle"
      BY <1>4 DEF ArriveLoad
    <2> HIDE DEF x
    <2>3. ~ th[r].queued
      BY <1>2, <2>2 DEF ThreadInv, QueuedSteps
    <2>4. ThreadInv(x)
      BY <2>1, <2>3 DEF ThreadInv, LoadSteps
    <2>5. Keeping([th EXCEPT ![r] = x])
      BY <2>1, <2>3, <2>4, KeepingMove
    <2> QED
      BY <1>1, <2>2, <2>5, SameQueue
  <1>5. CASE Cancel(r)
    <2> DEFINE x == [th[r] EXCEPT !.cancelled = TRUE]
    <2>1. /\ x \in Thread /\ x.pc = th[r].pc /\ x.model = th[r].model /\ x.queued = th[r].queued
          /\ x.load = th[r].load /\ x.victim = th[r].victim
      BY <1>2 DEF Thread
    <2>2. th' = [th EXCEPT ![r] = x]
      BY <1>5 DEF Cancel
    <2> HIDE DEF x
    <2>3. ThreadInv(x)
      BY <1>2, <2>1 DEF ThreadInv
    <2>4. Keeping([th EXCEPT ![r] = x])
      BY <2>1, <2>3, KeepingMove
    <2> QED
      BY <1>1, <2>2, <2>4, SameQueue
  <1> QED
    BY <1>3, <1>4, <1>5

\* Loading a model, from the queue or directly.
LEMMA LoadWaits ==
    ASSUME th \in [Requests -> Thread], WaitInv, NEW r \in Requests,
           \/ EnsureReady(r) \/ DispatchLoad(r) \/ DispatchWait(r)
           \/ LoadPickVictim(r) \/ LoadEvict(r) \/ LoadEvicted(r)
           \/ LoadSkip(r) \/ LoadFails(r) \/ Spawn(r) \/ ClaimDone(r)
    PROVE  WaitInv'
  <1> USE DEF regVars, stopVars, childVars
  <1>1. th[r] \in Thread /\ ThreadInv(th[r])
    BY DEF WaitInv
  <1>2. ASSUME NEW step \in {"proxy", "dispatch", "lru", "wait", "spawn", "evicting"},
               th[r].pc \in QueuedSteps \cup {"ensure", "dispatch"},
               th[r].queued => step \in QueuedSteps, th[r].load => step \in LoadSteps,
               step = "evicting" => th[r].pc = "evict"
        PROVE  Keeping(Goto(r, step))
    <2>1. th[r].pc \notin {"idle", "done"} /\ step \in Steps
      BY <1>2 DEF QueuedSteps, Steps
    <2>2. CASE step # "evicting"
      BY <1>2, <2>1, <2>2, KeepingGoto
    <2>3. CASE step = "evicting"
      <3>1. PICK x : x = [th[r] EXCEPT !.pc = "evicting"]
        OBVIOUS
      <3>2. /\ x \in Thread /\ x.pc = "evicting" /\ x.model = th[r].model /\ x.queued = th[r].queued
            /\ x.load = th[r].load /\ x.victim = th[r].victim
        BY <1>1, <3>1 DEF Thread, Steps
      <3>3. ThreadInv(x)
        BY <1>1, <1>2, <2>3, <3>2 DEF ThreadInv
      <3>4. Goto(r, step) = [th EXCEPT ![r] = x]
        BY <2>3, <3>1 DEF Goto
      <3> QED
        BY <3>2, <3>3, <3>4, KeepingMove
    <2> QED
      BY <2>2, <2>3
  <1>3. CASE EnsureReady(r) \/ DispatchLoad(r) \/ DispatchWait(r)
    <2>1. queue' = queue /\ RestKept
      BY <1>3, RestSame DEF EnsureReady, DispatchLoad, DispatchWait
    <2>2. th[r].pc \in {"ensure", "dispatch"}
      BY <1>3 DEF EnsureReady, DispatchLoad, DispatchWait
    <2>3. ~ th[r].queued /\ ~ th[r].load
      BY <1>1, <2>2 DEF ThreadInv, QueuedSteps, LoadSteps
    <2>4. PICK step \in {"proxy", "dispatch", "lru", "wait"} : th' = Goto(r, step)
      BY <1>3 DEF EnsureReady, DispatchLoad, DispatchWait
    <2>5. Keeping(Goto(r, step))
      BY <1>2, <2>2, <2>3, <2>4
    <2> QED
      BY <2>1, <2>4, <2>5, SameQueue
  <1>4. CASE LoadPickVictim(r)
    <2>1. queue' = queue /\ RestKept /\ th[r].pc = "lru"
      BY <1>4, RestSame DEF LoadPickVictim
    <2>2. \/ th' = Goto(r, "spawn")
          \/ \E v \in Models : th' = [th EXCEPT ![r].pc = "evict", ![r].victim = v]
      BY <1>4 DEF LoadPickVictim
    <2>3. Keeping(Goto(r, "spawn"))
      BY <1>2, <2>1 DEF QueuedSteps, LoadSteps
    <2>4. ASSUME NEW v \in Models PROVE Keeping([th EXCEPT ![r].pc = "evict", ![r].victim = v])
      <3>1. PICK x : x = [th[r] EXCEPT !.pc = "evict", !.victim = v]
        OBVIOUS
      <3>2. /\ x \in Thread /\ x.pc = "evict" /\ x.model = th[r].model /\ x.queued = th[r].queued
            /\ x.load = th[r].load /\ x.victim = v
        BY <1>1, <3>1 DEF Thread, Steps
      <3>3. ThreadInv(x)
        BY <1>1, <2>1, <3>2 DEF ThreadInv, QueuedSteps, LoadSteps
      <3>4. [th EXCEPT ![r].pc = "evict", ![r].victim = v] = [th EXCEPT ![r] = x]
        BY <3>1
      <3>5. Keeping([th EXCEPT ![r] = x])
        BY <3>2, <3>3, KeepingMove
      <3> QED
        BY <3>4, <3>5
    <2>5. CASE th' = Goto(r, "spawn")
      BY <2>1, <2>3, <2>5, SameQueue
    <2>6. ASSUME NEW v \in Models, th' = [th EXCEPT ![r].pc = "evict", ![r].victim = v] PROVE WaitInv'
      <3>1. Keeping([th EXCEPT ![r].pc = "evict", ![r].victim = v])
        BY <2>4
      <3> QED
        BY <2>1, <2>6, <3>1, SameQueue
    <2> QED
      BY <2>2, <2>5, <2>6
  <1>5. CASE LoadEvict(r)
    <2>1. /\ queue' = queue /\ lru' = lru /\ asked' = asked
          /\ th[r].pc = "evict" /\ Unload(th[r].victim, Goto(r, "evicting"))
      BY <1>5 DEF LoadEvict
    <2>2. th[r].victim \in Models
      BY <1>1, <2>1 DEF ThreadInv
    <2>3. Keeping(Goto(r, "evicting"))
      BY <1>2, <2>1 DEF QueuedSteps, LoadSteps
    <2>4. stopping' \in SUBSET Models /\ stopCmd' \in SUBSET Models /\ \E u : th' = u /\ Keeping(u)
      BY <2>1, <2>2, <2>3, UnloadQuiet DEF WaitInv
    <2>5. RestKept
      BY <2>1, <2>4 DEF RestKept, WaitInv, RestTypeOK
    <2> QED
      BY <2>1, <2>4, <2>5, SameQueue
  <1>6. CASE LoadEvicted(r)
    <2>1. /\ queue' = queue /\ RestKept /\ th[r].pc = "evicting"
          /\ th' = [th EXCEPT ![r].pc = "spawn", ![r].victim = NoModel]
      BY <1>6, RestSame DEF LoadEvicted
    <2>2. PICK x : x = [th[r] EXCEPT !.pc = "spawn", !.victim = NoModel]
      OBVIOUS
    <2>3. x \in Thread /\ x.pc = "spawn" /\ x.model = th[r].model /\ x.queued = th[r].queued /\ x.load = th[r].load
      BY <1>1, <2>2 DEF Thread, Steps
    <2>4. ThreadInv(x)
      BY <1>1, <2>1, <2>3 DEF ThreadInv, QueuedSteps, LoadSteps
    <2>5. Keeping([th EXCEPT ![r] = x])
      BY <2>3, <2>4, KeepingMove
    <2>6. th' = [th EXCEPT ![r] = x]
      BY <2>1, <2>2
    <2> QED
      BY <2>1, <2>5, <2>6, SameQueue
  <1>7. CASE LoadSkip(r) \/ LoadFails(r)
    <2>1. queue' = queue /\ RestKept /\ th[r].pc = "spawn" /\ (th' = LoadReturns(r) \/ th' = LoadThrows(r))
      BY <1>7, RestSame DEF LoadSkip, LoadFails
    <2>2. Keeping(LoadReturns(r)) /\ Keeping(LoadThrows(r))
      BY <2>1, KeepingLoad
    <2> QED
      BY <2>1, <2>2, SameQueue
  <1>8. CASE Spawn(r)
    <2>1. /\ queue' = queue /\ th[r].pc = "spawn" /\ th' = LoadReturns(r) /\ Touch(th[r].model)
          /\ stopCmd' = stopCmd \ {th[r].model} /\ stopping' = stopping /\ asked' = asked
      BY <1>8 DEF Spawn
    <2>2. th[r].model \in Models
      BY <1>1, <2>1 DEF ThreadInv
    <2>3. lru' \in Seq(Models)
      BY <2>1, <2>2, TouchTypes DEF WaitInv
    <2>4. RestKept
      BY <2>1, <2>3 DEF RestKept, WaitInv, RestTypeOK
    <2>5. Keeping(LoadReturns(r))
      BY <2>1, KeepingLoad
    <2> QED
      BY <2>1, <2>4, <2>5, SameQueue
  <1>9. CASE ClaimDone(r)
    <2>1. /\ th[r].pc \in {"claimed", "unclaimed"} /\ th' = Goto(r, "wait")
          /\ queue' = IF th[r].pc = "claimed" THEN queue ELSE SetLoading(queue, th[r].model, FALSE)
          /\ lru' = lru /\ asked' = asked /\ Tick(inst, queue', stopping)
      BY <1>9 DEF ClaimDone
    <2>2. RestKept
      BY <2>1, RestTicked
    <2>3. ~ th[r].load
      BY <1>1, <2>1 DEF ThreadInv, LoadSteps
    <2>4. Keeping(Goto(r, "wait"))
      BY <1>2, <2>1, <2>3 DEF QueuedSteps
    <2>5. queue \in Seq(Entry)
      BY DEF WaitInv, RestTypeOK
    <2>6. PICK p : p = SetLoading(queue, th[r].model, FALSE)
      OBVIOUS
    <2>7. /\ p \in Seq(Entry) /\ Len(p) = Len(queue)
          /\ \A i \in 1..Len(queue) : p[i].model = queue[i].model /\ p[i].waiters = queue[i].waiters
      BY <2>5, <2>6, SetLoadingFacts
    <2>8. queue' = queue \/ queue' = p
      BY <2>1, <2>6
    <2> QED
      BY <2>1, <2>2, <2>4, <2>5, <2>7, <2>8, QuietStep, SameQueue
  <1> QED
    BY <1>3, <1>4, <1>5, <1>6, <1>7, <1>8, <1>9


\* Getting in line, with or without an entry there.
LEMMA JoinWaits ==
    ASSUME th \in [Requests -> Thread], WaitInv, NEW r \in Requests, DispatchQueue(r)
    PROVE  WaitInv'
  <1>1. th[r] \in Thread /\ ThreadInv(th[r])
    BY DEF WaitInv
  <1>2. /\ th[r].pc = "dispatch" /\ queue' = Join(queue, th[r].model) /\ Tick(inst, queue', stopping)
        /\ th' = [th EXCEPT ![r].pc = "wait", ![r].queued = TRUE] /\ lru' = lru /\ asked' = asked
    BY DEF DispatchQueue, regVars, childVars
  <1>3. RestKept
    BY <1>2, RestTicked
  <1>4. ~ th[r].queued /\ ~ th[r].load /\ th[r].model \in Models
    BY <1>1, <1>2 DEF ThreadInv, QueuedSteps, LoadSteps
  <1>5. PICK x : x = [th[r] EXCEPT !.pc = "wait", !.queued = TRUE]
    OBVIOUS
  <1>6. x \in Thread /\ x.pc = "wait" /\ x.queued = TRUE /\ x.model = th[r].model /\ x.load = th[r].load
    BY <1>1, <1>5 DEF Thread, Steps
  <1>7. ThreadInv(x)
    BY <1>4, <1>6 DEF ThreadInv, QueuedSteps
  <1>8. th' = [th EXCEPT ![r] = x]
    BY <1>2, <1>5
  <1>9. th'[r] = x /\ \A q \in Requests \ {r} : th'[q] = th[q]
    BY <1>8
  <1>10. OthersWait(r) /\ th'[r].queued /\ th'[r].model = th[r].model
    BY <1>6, <1>9 DEF OthersWait
  <1>11. queue' \in Seq(Entry) /\ LineInv'
    BY <1>2, <1>4, <1>10, LineJoined
  <1>12. \A q \in Requests : ThreadInv(th'[q])
    BY <1>7, <1>9 DEF WaitInv
  <1> QED
    BY <1>3, <1>11, <1>12 DEF WaitInv, RestTypeOK, RestKept

(* Breaking or throwing out of the wait loop takes the waiter out of the   *)
(* line, if it was in it.                                                  *)
LEMMA LeaveWaits ==
    ASSUME th \in [Requests -> Thread], WaitInv, NEW r \in Requests, th[r].pc = "wait", Break(r) \/ Throw(r)
    PROVE  WaitInv'
  <1>1. th[r] \in Thread /\ ThreadInv(th[r]) /\ queue \in Seq(Entry)
    BY DEF WaitInv, RestTypeOK
  <1>2. queue' = LeaveQueue(r)
    BY DEF Break, Throw
  <1>3. RestKept
    <2>1. CASE Break(r)
      BY <2>1, RestSame DEF Break, regVars, stopVars, childVars
    <2>2. CASE Throw(r)
      <3>1. lru' = lru /\ asked' = asked /\ Tick(inst, queue', stopping)
        BY <2>2 DEF Throw, regVars, childVars
      <3> QED
        BY <3>1, RestTicked
    <2> QED
      BY <2>1, <2>2
  <1>4. \E x \in Thread : ThreadInv(x) /\ x.queued = FALSE /\ th' = [th EXCEPT ![r] = x]
    <2>1. CASE Break(r)
      <3>1. PICK x : x = [th[r] EXCEPT !.pc = "proxy", !.queued = FALSE]
        OBVIOUS
      <3>2. x \in Thread /\ x.pc = "proxy" /\ x.queued = FALSE /\ x.model = th[r].model /\ x.load = th[r].load
        BY <1>1, <3>1 DEF Thread, Steps
      <3>3. ThreadInv(x)
        BY <1>1, <3>2 DEF ThreadInv, LoadSteps
      <3>4. th' = [th EXCEPT ![r] = x]
        BY <2>1, <3>1 DEF Break
      <3> QED
        BY <3>2, <3>3, <3>4
    <2>2. CASE Throw(r)
      <3>1. PICK x : x = [NewThread EXCEPT !.pc = "done"]
        OBVIOUS
      <3>2. x \in Thread /\ x.pc = "done" /\ x.queued = FALSE /\ x.load = FALSE
        BY <3>1 DEF NewThread, Thread, Steps
      <3>3. ThreadInv(x)
        BY <3>2 DEF ThreadInv
      <3>4. th' = [th EXCEPT ![r] = x]
        BY <2>2, <3>1 DEF Throw, Over
      <3> QED
        BY <3>2, <3>3, <3>4
    <2> QED
      BY <2>1, <2>2
  <1>5. PICK x \in Thread : ThreadInv(x) /\ x.queued = FALSE /\ th' = [th EXCEPT ![r] = x]
    BY <1>4
  <1>6. th'[r] = x /\ \A q \in Requests \ {r} : th'[q] = th[q]
    BY <1>5
  <1>7. OthersWait(r) /\ ~ th'[r].queued
    BY <1>5, <1>6 DEF OthersWait
  <1>8. \A q \in Requests : ThreadInv(th'[q])
    BY <1>5, <1>6 DEF WaitInv
  <1>9. queue' \in Seq(Entry) /\ LineInv'
    <2>1. CASE th[r].queued
      <3>1. queue' = Leave(queue, th[r].model)
        BY <1>2, <2>1 DEF LeaveQueue
      <3> QED
        BY <1>7, <2>1, <3>1, LineLeft
    <2>2. CASE ~ th[r].queued
      <3>1. queue' = queue
        BY <1>2, <2>2 DEF LeaveQueue
      <3>2. \A q \in Requests : (th'[q].queued <=> th[q].queued) /\ (th[q].queued => th'[q].model = th[q].model)
        BY <1>7, <2>2 DEF OthersWait
      <3> QED
        BY <1>1, <3>1, <3>2, LineKept
    <2> QED
      BY <2>1, <2>2
  <1> QED
    BY <1>3, <1>8, <1>9 DEF WaitInv, RestTypeOK, RestKept

\* The wait loop.
LEMMA WaitWaits ==
    ASSUME th \in [Requests -> Thread], WaitInv, NEW r \in Requests, Wait(r)
    PROVE  WaitInv'
  <1>1. th[r] \in Thread /\ ThreadInv(th[r]) /\ queue \in Seq(Entry)
    BY DEF WaitInv, RestTypeOK
  <1>2. CASE WaitReady(r) \/ WaitDown(r) \/ WaitFailed(r) \/ WaitCancelled(r)
    BY <1>2, LeaveWaits DEF WaitReady, WaitDown, WaitFailed, WaitCancelled
  <1>3. CASE WaitLoading(r)
    <2>1. queue' = queue /\ RestKept /\ th' = [th EXCEPT ![r].saw = TRUE]
      BY <1>3, RestSame DEF WaitLoading, regVars, stopVars, childVars
    <2>2. PICK x : x = [th[r] EXCEPT !.saw = TRUE]
      OBVIOUS
    <2>3. /\ x \in Thread /\ x.pc = th[r].pc /\ x.model = th[r].model /\ x.queued = th[r].queued
          /\ x.load = th[r].load /\ x.victim = th[r].victim
      BY <1>1, <2>2 DEF Thread
    <2>4. ThreadInv(x)
      BY <1>1, <2>3 DEF ThreadInv
    <2>5. Keeping([th EXCEPT ![r] = x])
      BY <2>3, <2>4, KeepingMove
    <2>6. th' = [th EXCEPT ![r] = x]
      BY <2>1, <2>2
    <2> QED
      BY <2>1, <2>5, <2>6, SameQueue
  <1>4. CASE TryClaim(r)
    <2>1. /\ RestKept /\ th' = [th EXCEPT ![r].pc = "lru", ![r].turn = TRUE] /\ queue # <<>>
          /\ th[r].pc = "wait" /\ queue' = [queue EXCEPT ![1].loading = TRUE]
      BY <1>4, RestSame DEF TryClaim, regVars, stopVars, childVars
    <2>2. PICK x : x = [th[r] EXCEPT !.pc = "lru", !.turn = TRUE]
      OBVIOUS
    <2>3. x \in Thread /\ x.pc = "lru" /\ x.model = th[r].model /\ x.queued = th[r].queued /\ x.load = th[r].load
      BY <1>1, <2>2 DEF Thread, Steps
    <2>4. ThreadInv(x)
      BY <1>1, <2>1, <2>3 DEF ThreadInv, QueuedSteps, LoadSteps
    <2>5. Keeping([th EXCEPT ![r] = x])
      BY <2>3, <2>4, KeepingMove
    <2>6. th' = [th EXCEPT ![r] = x]
      BY <2>1, <2>2
    <2>7. Len(queue) \in Nat /\ DOMAIN queue = 1..Len(queue) /\ \A i \in 1..Len(queue) : queue[i] \in Entry
      BY <1>1, EntryFacts
    <2>8. PICK p : p = [queue EXCEPT ![1].loading = TRUE]
      OBVIOUS
    <2>9. DOMAIN p = DOMAIN queue /\ p = [i \in DOMAIN queue |-> p[i]]
      BY <2>8
    <2>10. ASSUME NEW i \in 1..Len(queue)
           PROVE  p[i] \in Entry /\ p[i].model = queue[i].model /\ p[i].waiters = queue[i].waiters
      <3>1. p[i] = queue[i] \/ p[i] = [queue[i] EXCEPT !.loading = TRUE]
        BY <2>7, <2>8
      <3>2. queue[i] \in Entry
        BY <2>7
      <3> QED
        BY <3>1, <3>2 DEF Entry
    <2>11. p \in Seq(Entry) /\ Len(p) = Len(queue)
      BY <1>1, <2>7, <2>9, <2>10, RowsTyped
    <2>12. queue' = p
      BY <2>1, <2>8
    <2> QED
      BY <2>1, <2>5, <2>6, <2>10, <2>11, <2>12, QuietStep
  <1> QED
    BY <1>2, <1>3, <1>4 DEF Wait

\* A request at or after the proxy is not in line.
LEMMA ProxyWaits ==
    ASSUME th \in [Requests -> Thread], WaitInv, NEW r \in Requests, Proxy(r)
    PROVE  WaitInv'
  <1> USE DEF regVars, stopVars, childVars
  <1>1. th[r] \in Thread /\ ThreadInv(th[r]) /\ queue' = queue
    BY DEF WaitInv, Proxy, ProxyMeta, ProxyCount, Cleanup
  <1>2. th[r].pc \in {"proxy", "count", "stale", "serving", "broken"}
    BY DEF Proxy, ProxyMeta, ProxyCount, Cleanup
  <1>3. ~ th[r].queued /\ ~ th[r].load /\ th[r].model \in Models
    BY <1>1, <1>2 DEF ThreadInv, QueuedSteps, LoadSteps
  <1>4. Keeping(Over(r)) /\ \A step \in {"count", "stale", "serving", "broken"} : Keeping(Goto(r, step))
    BY <1>2, <1>3, KeepingOver, KeepingGoto DEF Steps
  <1>5. CASE ProxyMeta(r)
    <2>1. RestKept
      BY <1>5, RestSame DEF ProxyMeta
    <2>2. th' = Over(r) \/ \E step \in {"count", "stale"} : th' = Goto(r, step)
      BY <1>5 DEF ProxyMeta
    <2> QED
      BY <1>1, <1>4, <2>1, <2>2, SameQueue
  <1>6. CASE ProxyCount(r)
    <2>1. Touch(th[r].model) /\ stopping' = stopping /\ stopCmd' = stopCmd /\ asked' = asked
      BY <1>6 DEF ProxyCount
    <2>2. lru' \in Seq(Models)
      BY <1>3, <2>1, TouchTypes DEF WaitInv
    <2>3. RestKept
      BY <2>1, <2>2 DEF RestKept, WaitInv, RestTypeOK
    <2>4. \E step \in {"serving", "broken"} : th' = Goto(r, step)
      BY <1>6 DEF ProxyCount
    <2> QED
      BY <1>1, <1>4, <2>3, <2>4, SameQueue
  <1>7. CASE Cleanup(r)
    <2>1. lru' = lru /\ asked' = asked /\ th' = Over(r)
      BY <1>7 DEF Cleanup
    <2>2. RestKept
      <3>1. CASE \E i : Tick(i, queue, stopping)
        BY <2>1, <3>1, RestTicked
      <3>2. CASE stopping' = stopping /\ stopCmd' = stopCmd
        BY <2>1, <3>2, RestSame
      <3> QED
        BY <1>7, <3>1, <3>2 DEF Cleanup
    <2> QED
      BY <1>1, <1>4, <2>1, <2>2, SameQueue
  <1> QED
    BY <1>5, <1>6, <1>7 DEF Proxy

\* The children, the monitor and the unload route.
LEMMA ChildWaits ==
    ASSUME th \in [Requests -> Thread], WaitInv, monitor \in Models \cup {NoModel}, NEW m \in Models,
           \/ AdminUnload(m) \/ ChildStops(m) \/ ChildCrashes(m) \/ MonitorStop(m) \/ ChildExit(m)
           \/ \E s \in {"loading", "loaded", "sleeping"} : ChildState(m, s)
           \/ \E f \in BOOLEAN : ChildExitRecorded(f)
    PROVE  WaitInv'
  <1> USE DEF regVars, stopVars, childVars
  <1>1. queue' = queue /\ Keeping(th) /\ Keeping(Disconnect(th, m))
    BY KeepingNone, KeepingDisconnect
    DEF AdminUnload, ChildStops, ChildCrashes, MonitorStop, ChildExit, ChildState, ChildExitRecorded
  <1>2. CASE AdminUnload(m)
    <2>1. Unload(m, th) /\ lru' = lru /\ asked' = asked
      BY <1>2 DEF AdminUnload
    <2>2. stopping' \in SUBSET Models /\ stopCmd' \in SUBSET Models /\ \E u : th' = u /\ Keeping(u)
      BY <1>1, <2>1, UnloadQuiet DEF WaitInv
    <2>3. RestKept
      BY <2>1, <2>2 DEF RestKept, WaitInv, RestTypeOK
    <2> QED
      BY <1>1, <2>2, <2>3, SameQueue
  <1>3. CASE ChildStops(m) \/ ChildCrashes(m)
    <2>1. RestKept /\ th' = Disconnect(th, m)
      BY <1>3, RestSame DEF ChildStops, ChildCrashes
    <2> QED
      BY <1>1, <2>1, SameQueue
  <1>4. CASE MonitorStop(m) \/ ChildExit(m)
    <2>1. RestKept /\ th' = th
      BY <1>4 DEF MonitorStop, ChildExit, RestKept, WaitInv, RestTypeOK
    <2> QED
      BY <1>1, <2>1, SameQueue
  <1>5. CASE \/ \E s \in {"loading", "loaded", "sleeping"} : ChildState(m, s)
             \/ \E f \in BOOLEAN : ChildExitRecorded(f)
    <2>1. lru' = lru /\ asked' = asked /\ th' = th /\ Tick(inst', queue, stopping)
      BY <1>5 DEF ChildState, ChildExitRecorded, UpdateStatus
    <2>2. RestKept
      BY <2>1, RestTicked
    <2> QED
      BY <1>1, <2>1, <2>2, SameQueue
  <1> QED
    BY <1>2, <1>3, <1>4, <1>5

-----------------------------------------------------------------------------
\* Nobody waits at first.
LEMMA WaitInit == Init => WaitInv
  <1> SUFFICES ASSUME Init PROVE WaitInv
    OBVIOUS
  <1>1. /\ lru = <<>> /\ queue = <<>> /\ stopping = {} /\ stopCmd = {} /\ asked = {}
        /\ \A r \in Requests : th[r] = NewThread
    BY DEF Init
  <1>2. RestTypeOK
    BY <1>1 DEF RestTypeOK
  <1>3. NewThread.pc = "idle" /\ NewThread.queued = FALSE /\ NewThread.load = FALSE
    BY DEF NewThread
  <1>4. \A r \in Requests : ThreadInv(th[r]) /\ ~ th[r].queued
    BY <1>1, <1>3 DEF ThreadInv
  <1>5. LineInv
    BY <1>1, <1>4 DEF LineInv
  <1> QED
    BY <1>2, <1>4, <1>5 DEF WaitInv

\* Every step keeps the line and those who wait in agreement.
LEMMA WaitStep == ASSUME SlotInv, CountInv, WaitInv, [Next]_vars PROVE WaitInv'
  <1>1. th \in [Requests -> Thread] /\ monitor \in Models \cup {NoModel}
    BY DEF SlotInv, RegTypeOK, CountInv, CountTypeOK
  <1>2. ASSUME NEW r \in Requests, RequestStep(r) PROVE WaitInv'
    BY <1>1, <1>2, LoadWaits, JoinWaits, WaitWaits, ProxyWaits DEF RequestStep, Ensure
  <1>3. ASSUME NEW r \in Requests, Cancel(r) PROVE WaitInv'
    <2>1. th[r] \in Thread /\ ThreadInv(th[r]) /\ th[r].pc = "wait"
      BY <1>1, <1>3 DEF WaitInv, Cancel
    <2>2. th[r].model \in Models
      BY <2>1 DEF ThreadInv
    <2> QED
      BY <1>1, <1>3, <2>2, ArriveWaits
  <1>4. ASSUME NEW r \in Requests, NEW m \in Models, Arrive(r, m) \/ ArriveLoad(r, m) PROVE WaitInv'
    BY <1>1, <1>4, ArriveWaits
  <1>5. ASSUME NEW m \in Models,
               \/ AdminUnload(m) \/ ChildStops(m) \/ ChildCrashes(m) \/ MonitorStop(m) \/ ChildExit(m)
               \/ \E s \in {"loading", "loaded", "sleeping"} : ChildState(m, s)
        PROVE  WaitInv'
    BY <1>1, <1>5, ChildWaits
  <1>6. ASSUME NEW f \in BOOLEAN, ChildExitRecorded(f) PROVE WaitInv'
    <2>1. monitor \in Models
      BY <1>1, <1>6 DEF ChildExitRecorded
    <2> QED
      BY <1>1, <1>6, <2>1, ChildWaits
  <1>7. CASE UNCHANGED vars
    <2>1. queue' = queue /\ RestKept /\ th' = th
      BY <1>7, RestSame DEF vars, regVars, stopVars, childVars
    <2> QED
      BY <1>1, <2>1, KeepingNone, SameQueue
  <1> QED
    BY <1>2, <1>3, <1>4, <1>5, <1>6, <1>7 DEF Next, MonitorStep

\* The invariants of the registry, of the counts and of the queue hold together.
LEMMA WaitInvariant == Spec => [](SlotInv /\ CountInv /\ WaitInv)
  <1>1. Init => SlotInv /\ CountInv /\ WaitInv
    BY SlotInit, CountInit, WaitInit
  <1>2. (SlotInv /\ CountInv /\ WaitInv) /\ [Next]_vars => (SlotInv /\ CountInv /\ WaitInv)'
    BY SlotStep, CountStep, WaitStep
  <1> QED
    BY <1>1, <1>2, PTL DEF Spec

(* The queue has one entry for each model that somebody waits for and      *)
(* counts exactly those who wait, whoever cancels, fails, crashes or is    *)
(* evicted: no entry is leaked that would block the loads behind it.       *)
THEOREM QueueExactAlways == Spec => []QueueExact
  <1>1. WaitInv => QueueExact
    <2> SUFFICES ASSUME WaitInv PROVE QueueExact
      OBVIOUS
    <2>1. \A m : Waiting(th, m) = {r \in Requests : th[r].queued /\ th[r].model = m}
      BY DEF Waiting
    <2> QED
      BY <2>1 DEF WaitInv, LineInv, QueueExact
  <1> QED
    BY <1>1, WaitInvariant, PTL

(* The router's state keeps its type: every waiter, victim, mark and STOP  *)
(* command names a model of the registry.                                  *)
THEOREM RouterTypes == Spec => []TypeOK
  <1>1. SlotInv /\ CountInv /\ WaitInv => TypeOK
    BY DEF SlotInv, RegTypeOK, CountInv, CountTypeOK, WaitInv, RestTypeOK, TypeOK
  <1> QED
    BY <1>1, WaitInvariant, PTL
===============================================================================
