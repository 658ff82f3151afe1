------------------------------ MODULE ServerQueue ------------------------------
(***************************************************************************)
(* How a child llama-server moves a request from an HTTP thread to a slot  *)
(* and its result back: server_queue (with the thread that serves tasks    *)
(* while a decode runs, and the idle sleep), server_response,              *)
(* server_response_reader, and the scheduling part of                      *)
(* server_context_impl: process_single_task and the slots' life cycle.     *)
(*                                                                         *)
(* An action is one critical section of mutex_tasks or mutex_results (or   *)
(* two that no other thread can tell apart).  What a slot computes is      *)
(* abstract here: a launched task takes some rounds of update_slots and    *)
(* then finishes, or fails.                                                *)
(***************************************************************************)
EXTENDS Integers, Sequences, FiniteSets, SequencesExt, Filters

CONSTANTS
    Requests,       \* HTTP requests, each with one reader
    Rounds,         \* update_slots rounds a task can take
    Setups          \* the servers and the loads that are explored: see setup

VARIABLES
    setup,      \* the server's parameters, what is asked and what may go wrong: never changes
    queue, deferred, unhandled, \* queue_tasks, queue_tasks_deferred, queue_tasks_unhandled
    hand,       \* the task a thread has popped and not handled yet
    main,       \* where the start_loop() thread is
    worker,     \* the worker thread, with worker.busy and worker.yielding
    slot,       \* the slots
    todo,       \* slots that post_decode() has still to visit in this round
    flags,      \* running, sleeping, req_stop_sleeping
    cv,         \* threads blocked on condition_tasks
    waiting,    \* waiting_task_ids
    results,    \* queue_results
    req         \* the request threads and their readers; turn is a history of the order of posting

taskVars == <<queue, deferred, unhandled, hand>>
loopVars == <<main, worker, slot, todo, flags>>
resultVars == <<waiting, results>>
vars == <<setup, taskVars, loopVars, cv, resultVars, req>>

NSlots   == setup.NSlots     \* n_parallel
Kind     == setup.Kind       \* Kind[r]: "completion", "action" (slot save/restore/erase), "metrics", "none"
WantSlot == setup.WantSlot   \* task.id_slot of a completion (-1: any), or slot_action.id_slot
Children == setup.Children   \* Children[r]: number of child tasks (n_cmpl - 1)
BadTask  == setup.BadTask    \* requests that launch_slot_with_task rejects
MayFail  == setup.MayFail    \* decoding can fail
MayLeave == setup.MayLeave   \* requests whose client can disconnect
MaySleep == setup.MaySleep   \* sleep_idle_seconds >= 0
MayStop  == setup.MayStop    \* terminate() can be called

ASSUME SetupAssumption ==
    /\ IsFiniteSet(Requests) /\ Rounds \in Nat
    /\ \A s \in Setups : /\ s.NSlots \in Nat \ {0}
                         /\ s.Kind \in [Requests -> {"completion", "action", "metrics", "none"}]
                         /\ s.WantSlot \in [Requests -> Int]
                         /\ s.Children \in [Requests -> Nat]
                         /\ \A r \in Requests : s.Kind[r] # "completion" => s.Children[r] = 0

Slots == 0 .. NSlots - 1
Ids(r) == {<<r, i>> : i \in 0 .. Children[r]}       \* <<r, 0>> is the (parent) task
AllIds == UNION {Ids(r) : r \in Requests}
NoId == <<>>
NoTask == [type |-> "none", id |-> NoId]
Free == [id |-> NoId, left |-> 0, state |-> "idle"]
Task(id) == [type |-> "task", id |-> id]
CancelTask(id) == [type |-> "cancel", id |-> id]
NextResponse == [type |-> "next", id |-> NoId]
TaskRec == [type : {"none", "task", "cancel", "next"}, id : AllIds \cup {NoId}]
Busy(s) == slot[s].state # "idle"
BusySlots == {s \in Slots : Busy(s)}

Init ==
    /\ setup \in Setups
    /\ queue = <<>> /\ deferred = <<>> /\ unhandled = <<>>
    /\ hand = [t \in {"main", "worker"} |-> NoTask]
    /\ main = "process"
    /\ worker = [pc |-> "off", busy |-> FALSE, yielding |-> FALSE]
    /\ slot = [s \in Slots |-> Free]
    /\ todo = {}
    /\ flags = [running |-> TRUE, sleeping |-> FALSE, wake |-> FALSE]
    /\ cv = {}
    /\ waiting = {} /\ results = <<>>
    /\ req = [r \in Requests |-> [pc |-> IF Kind[r] = "none" THEN "done" ELSE "new", got |-> {}, turn |-> 0]]

(* condition_tasks.notify_one() wakes any one of the blocked threads.      *)
NotifyOne(blocked) ==
    IF cv = {} THEN blocked = {} ELSE \E t \in cv : blocked = cv \ {t}
NotifyAll == cv' = {}
Block(t) == cv' = cv \cup {t}

(***************************************************************************)
(* Results.  A result is kept only for an id that is in waiting_task_ids.  *)
(***************************************************************************)
Send(id, error) ==
    results' = IF id \in waiting THEN Append(results, [id |-> id, error |-> error]) ELSE results

(* Tasks put aside or freed.  A freed slot lets one deferred task in,      *)
(* rather one that asked for this slot.                                    *)
Asked(task, s) == Kind[task.id[1]] = "completion" /\ WantSlot[task.id[1]] = s
PopDeferred(s) ==
    LET match == {i \in DOMAIN deferred : Asked(deferred[i], s)}
        first(i) == IF match = {} THEN i = 1 ELSE i \in match /\ \A j \in match : i <= j
    IN  \/ deferred = <<>> /\ UNCHANGED <<queue, deferred>>
        \/ \E i \in DOMAIN deferred :
              first(i) /\ queue' = <<deferred[i]>> \o queue /\ deferred' = RemoveAt(deferred, i)

Release(s) ==    \* server_slot::release()
    /\ PopDeferred(s)
    /\ slot' = [slot EXCEPT ![s] = Free]
    /\ NotifyOne(cv')

Defer(task) ==
    /\ deferred' = Append(deferred, task)
    /\ NotifyOne(cv')
    /\ UNCHANGED <<queue, slot, results>>

(***************************************************************************)
(* process_single_task(), on a task the main thread has in hand.           *)
(***************************************************************************)
(* The children get the first free slots other than the parent's, in the   *)
(* order of the slots.                                                     *)
FreeSlots(own) == {s \in Slots \ {own} : ~Busy(s)}
Rank(s, free) == Cardinality({t \in free : t <= s})

Launch(r, own, free) ==
    /\ slot' = [s \in Slots |->
          IF s = own THEN [id |-> <<r, 0>>, left |-> Rounds, state |-> "run"]
          ELSE IF s \in free /\ Rank(s, free) <= Children[r]
          THEN [id |-> <<r, Rank(s, free)>>, left |-> Rounds, state |-> "wait"]
          ELSE slot[s]]
    /\ UNCHANGED <<queue, deferred, cv, results>>

(* The first launch that is rejected answers for all: a parent's children  *)
(* are launched before it, from copies of its parameters.                  *)
Reject(r) ==
    /\ Send(<<r, IF Children[r] = 0 THEN 0 ELSE 1>>, TRUE)
    /\ UNCHANGED <<queue, deferred, slot, cv>>

HandleCompletion(r) ==
    LET candidates == IF WantSlot[r] = -1 THEN Slots \ BusySlots
                      ELSE {WantSlot[r] % NSlots} \ BusySlots
        task == Task(<<r, 0>>)
    IN  \/ candidates = {} /\ Defer(task)
        \/ \E own \in candidates :
              LET free == FreeSlots(own)
              IN  \/ Cardinality(free) < Children[r] /\ Defer(task)
                  \/ Cardinality(free) >= Children[r] /\ r \in BadTask /\ Reject(r)
                  \/ Cardinality(free) >= Children[r] /\ r \notin BadTask /\ Launch(r, own, free)

HandleAction(r) ==
    \/ Busy(WantSlot[r] % NSlots) /\ Defer(Task(<<r, 0>>))
    \/ ~Busy(WantSlot[r] % NSlots) /\ Send(<<r, 0>>, FALSE) /\ UNCHANGED <<queue, deferred, slot, cv>>

HandleMetrics(r) ==
    Send(<<r, 0>>, FALSE) /\ UNCHANGED <<queue, deferred, slot, cv>>

HandleCancel(id) ==
    LET owner == {s \in Slots : slot[s].id = id}
    IN  /\ \/ owner = {} /\ UNCHANGED <<queue, deferred, slot, cv>>
           \/ \E s \in owner : (\A t \in owner : s <= t) /\ Release(s)
        /\ UNCHANGED results

HandleNext == UNCHANGED <<queue, deferred, slot, cv, results>>

(***************************************************************************)
(* The start_loop() thread.                                                *)
(***************************************************************************)
MainStops ==
    /\ main = "process" /\ hand["main"] = NoTask /\ ~flags.running
    /\ main' = "stopped"
    /\ UNCHANGED <<setup, taskVars, worker, slot, todo, flags, cv, resultVars, req>>

MainTakes ==
    /\ main = "process" /\ hand["main"] = NoTask /\ flags.running
    /\ queue # <<>>
    /\ hand' = [hand EXCEPT !["main"] = Head(queue)]
    /\ queue' = Tail(queue)
    /\ UNCHANGED <<setup, deferred, unhandled, loopVars, cv, resultVars, req>>

MainHandles ==
    /\ main = "process"
    /\ LET task == hand["main"]  r == task.id[1]
       IN  \/ task.type = "next" /\ HandleNext
           \/ task.type = "cancel" /\ HandleCancel(task.id)
           \/ task.type = "task" /\ Kind[r] = "completion" /\ HandleCompletion(r)
           \/ task.type = "task" /\ Kind[r] = "action" /\ HandleAction(r)
           \/ task.type = "task" /\ Kind[r] = "metrics" /\ HandleMetrics(r)
    /\ hand' = [hand EXCEPT !["main"] = NoTask]
    /\ UNCHANGED <<setup, unhandled, main, worker, todo, flags, waiting, req>>

(* update_slots(): nothing to do, or post NEXT_RESPONSE and decode, which  *)
(* hands the queue over to the worker.                                     *)
UpdateIdle ==
    /\ main = "process" /\ hand["main"] = NoTask /\ flags.running /\ queue = <<>>
    /\ BusySlots = {}
    /\ main' = "idle"
    /\ UNCHANGED <<setup, taskVars, worker, slot, todo, flags, cv, resultVars, req>>

UpdateDecodeOnce ==
    /\ main = "process" /\ hand["main"] = NoTask /\ flags.running /\ queue = <<>>
    /\ BusySlots # {}
    /\ main' = "work"
    /\ worker' = [pc |-> "process", busy |-> TRUE, yielding |-> TRUE]
    /\ UNCHANGED <<setup, taskVars, slot, todo, flags, cv, resultVars, req>>

UpdateDecode ==
    /\ main = "process" /\ hand["main"] = NoTask /\ flags.running /\ queue = <<>>
    /\ BusySlots # {}
    /\ queue' = Append(queue, NextResponse)
    /\ NotifyOne(cv')
    /\ main' = "work"
    /\ worker' = [pc |-> "process", busy |-> TRUE, yielding |-> TRUE]
    /\ UNCHANGED <<setup, deferred, unhandled, hand, slot, todo, flags, resultVars, req>>

WorkEnds ==
    /\ main = "work"
    /\ main' = "join"
    /\ worker' = [worker EXCEPT !.yielding = FALSE]
    /\ cv' = IF worker.busy THEN {"main"} ELSE {}   \* notify_all, then wait for !busy
    /\ UNCHANGED <<setup, taskVars, slot, todo, flags, resultVars, req>>

PutBackBehind ==
    /\ main = "join" /\ "main" \notin cv /\ ~worker.busy
    /\ queue' = queue \o unhandled
    /\ unhandled' = <<>>
    /\ main' = "slots"
    /\ todo' = BusySlots
    /\ UNCHANGED <<setup, deferred, hand, worker, slot, flags, cv, resultVars, req>>

PutBack ==      \* queue_tasks_unhandled goes back to the front, in its order
    /\ main = "join" /\ "main" \notin cv /\ ~worker.busy
    /\ queue' = unhandled \o queue
    /\ unhandled' = <<>>
    /\ main' = "slots"
    /\ todo' = BusySlots
    /\ UNCHANGED <<setup, deferred, hand, worker, slot, flags, cv, resultVars, req>>

JoinBlocks ==
    /\ main = "join" /\ "main" \notin cv /\ worker.busy
    /\ Block("main")
    /\ UNCHANGED <<setup, taskVars, loopVars, resultVars, req>>

(* post_decode() visits the slots in order.                                *)
Visit(s) ==
    /\ main = "slots" /\ s \in todo
    /\ \A t \in todo : s <= t
    /\ todo' = todo \ {s}
    /\ UNCHANGED <<setup, unhandled, hand, main, worker, flags, waiting, req>>

SlotGenerates(s) ==     \* a parent's prompt is copied to its children's slots
    /\ Visit(s)
    /\ slot[s].state = "run" /\ slot[s].left > 0
    /\ slot' = [t \in Slots |->
          IF t = s THEN [slot[s] EXCEPT !.left = @ - 1]
          ELSE IF slot[s].id[2] = 0 /\ slot[t].state = "wait" /\ slot[t].id[1] = slot[s].id[1]
          THEN [slot[t] EXCEPT !.state = "run"] ELSE slot[t]]
    /\ UNCHANGED <<queue, deferred, cv, results>>

SlotWaits(s) ==         \* SLOT_STATE_WAIT_OTHER
    /\ Visit(s)
    /\ slot[s].state = "wait"
    /\ UNCHANGED <<queue, deferred, slot, cv, results>>

SlotFinishes(s) ==      \* send_final_response() and release()
    /\ Visit(s)
    /\ slot[s].state = "run" /\ slot[s].left < Rounds
    /\ Send(slot[s].id, FALSE)
    /\ Release(s)

SlotFails(s) ==         \* an exception in iterate(), or abort_all_slots()
    /\ Visit(s)
    /\ MayFail
    /\ Send(slot[s].id, TRUE)
    /\ Release(s)

Updated ==
    /\ main = "slots" /\ todo = {}
    /\ main' = "idle"
    /\ UNCHANGED <<setup, taskVars, worker, slot, todo, flags, cv, resultVars, req>>

IdleEnds ==
    /\ main = "idle"
    /\ queue # <<>> \/ ~flags.running
    /\ main' = "process"
    /\ UNCHANGED <<setup, taskVars, worker, slot, todo, flags, cv, resultVars, req>>

FallAsleep ==
    /\ main = "idle" /\ MaySleep
    /\ queue = <<>> /\ flags.running
    /\ main' = "asleep"
    /\ flags' = [flags EXCEPT !.sleeping = TRUE, !.wake = FALSE]
    /\ Block("main")
    /\ UNCHANGED <<setup, taskVars, worker, slot, todo, resultVars, req>>

AwakeAgain ==
    /\ main = "asleep" /\ "main" \notin cv
    /\ main' = "process"
    /\ IF flags.running
       THEN flags.wake /\ flags' = [flags EXCEPT !.sleeping = FALSE, !.wake = FALSE] /\ NotifyAll
       ELSE UNCHANGED <<flags, cv>>
    /\ UNCHANGED <<setup, taskVars, worker, slot, todo, resultVars, req>>

SleepOn ==      \* woken up for nothing
    /\ main = "asleep" /\ "main" \notin cv
    /\ flags.running /\ ~flags.wake
    /\ Block("main")
    /\ UNCHANGED <<setup, taskVars, loopVars, resultVars, req>>

(***************************************************************************)
(* The worker, while the main thread decodes.  Only METRICS (and SLOT_GET) *)
(* are served; every other task is declined and set aside.                 *)
(***************************************************************************)
WorkerTakes ==
    /\ worker.pc = "process" /\ hand["worker"] = NoTask
    /\ flags.running /\ queue # <<>>
    /\ hand' = [hand EXCEPT !["worker"] = Head(queue)]
    /\ queue' = Tail(queue)
    /\ UNCHANGED <<setup, deferred, unhandled, loopVars, cv, resultVars, req>>

Declined(task) == task.type # "task" \/ Kind[task.id[1]] # "metrics"

WorkerDropsDeclined ==
    /\ hand["worker"] # NoTask
    /\ hand' = [hand EXCEPT !["worker"] = NoTask]
    /\ IF Declined(hand["worker"]) THEN UNCHANGED results
       ELSE Send(hand["worker"].id, FALSE)
    /\ UNCHANGED <<setup, queue, deferred, unhandled, loopVars, cv, waiting, req>>

WorkerHandles ==
    /\ hand["worker"] # NoTask
    /\ hand' = [hand EXCEPT !["worker"] = NoTask]
    /\ IF Declined(hand["worker"])
       THEN unhandled' = Append(unhandled, hand["worker"]) /\ UNCHANGED results
       ELSE Send(hand["worker"].id, FALSE) /\ UNCHANGED unhandled
    /\ UNCHANGED <<setup, queue, deferred, loopVars, cv, waiting, req>>

WorkerDrained ==
    /\ worker.pc = "process" /\ hand["worker"] = NoTask
    /\ queue = <<>> \/ ~flags.running
    /\ worker' = [worker EXCEPT !.pc = "drained"]
    /\ UNCHANGED <<setup, taskVars, main, slot, todo, flags, cv, resultVars, req>>

WorkerEndsSilently ==
    /\ worker.pc = "drained" /\ "worker" \notin cv
    /\ IF ~flags.running \/ ~worker.yielding
       THEN worker' = [worker EXCEPT !.pc = "off", !.busy = FALSE] /\ UNCHANGED cv
       ELSE IF queue # <<>>
       THEN worker' = [worker EXCEPT !.pc = "process"] /\ UNCHANGED cv
       ELSE Block("worker") /\ UNCHANGED worker
    /\ UNCHANGED <<setup, taskVars, main, slot, todo, flags, resultVars, req>>

WorkerChecks ==     \* go on, block, or end the yield with notify_all()
    /\ worker.pc = "drained" /\ "worker" \notin cv
    /\ IF ~flags.running \/ ~worker.yielding
       THEN worker' = [worker EXCEPT !.pc = "off", !.busy = FALSE] /\ NotifyAll
       ELSE IF queue # <<>>
       THEN worker' = [worker EXCEPT !.pc = "process"] /\ UNCHANGED cv
       ELSE Block("worker") /\ UNCHANGED worker
    /\ UNCHANGED <<setup, taskVars, main, slot, todo, flags, resultVars, req>>

(***************************************************************************)
(* HTTP threads.                                                           *)
(***************************************************************************)
GoTo(r, pc) == req' = [req EXCEPT ![r].pc = pc]

Arrive(r) ==    \* create_response(): wake the server up, except for metrics
    /\ req[r].pc = "new"
    /\ IF ~flags.sleeping THEN GoTo(r, "ready") /\ UNCHANGED <<flags, cv>>
       ELSE IF Kind[r] = "metrics" THEN GoTo(r, "done") /\ UNCHANGED <<flags, cv>>
       ELSE /\ GoTo(r, "nosleep")
            /\ flags' = [flags EXCEPT !.wake = TRUE]
            /\ IF flags.wake THEN Block(r)
               ELSE \E woken \in {{}} \cup {{t} : t \in cv} :
                      (woken = {} => cv = {}) /\ cv' = (cv \ woken) \cup {r}
    /\ UNCHANGED <<setup, taskVars, main, worker, slot, todo, resultVars>>

NoSleep(r) ==   \* the wait of wait_until_no_sleep()
    /\ req[r].pc = "nosleep" /\ r \notin cv
    /\ IF flags.sleeping THEN Block(r) /\ UNCHANGED req ELSE GoTo(r, "ready") /\ UNCHANGED cv
    /\ UNCHANGED <<setup, taskVars, loopVars, resultVars>>

Register(r) ==
    /\ req[r].pc = "ready"
    /\ waiting' = waiting \cup Ids(r)
    /\ GoTo(r, "post")
    /\ UNCHANGED <<setup, taskVars, loopVars, cv, results>>

Post(r) ==
    /\ req[r].pc = "post"
    /\ queue' = IF Kind[r] = "metrics" THEN <<Task(<<r, 0>>)>> \o queue
                ELSE Append(queue, Task(<<r, 0>>))
    /\ NotifyOne(cv')
    /\ req' = [req EXCEPT ![r].pc = "recv",
                          ![r].turn = 1 + Cardinality({q \in Requests : req[q].turn > 0})]
    /\ UNCHANGED <<setup, deferred, unhandled, hand, loopVars, resultVars>>

(* next(): an error ends the reader, so does the last result.              *)
Receive(r) ==
    /\ req[r].pc = "recv"
    /\ \E i \in DOMAIN results :
          /\ results[i].id \in Ids(r)
          /\ \A j \in 1 .. i - 1 : results[j].id \notin Ids(r)
          /\ results' = RemoveAt(results, i)
          /\ LET got == req[r].got \cup IF results[i].error THEN {} ELSE {results[i].id}
             IN  req' = [req EXCEPT ![r].got = got,
                          ![r].pc = IF results[i].error \/ got = Ids(r) THEN "forget" ELSE "recv"]
    /\ UNCHANGED <<setup, taskVars, loopVars, cv, waiting>>

Leave(r) ==     \* should_stop() once no result came in time; metrics also give up on sleep
    /\ req[r].pc = "recv"
    /\ r \in MayLeave \/ (Kind[r] = "metrics" /\ flags.sleeping)
    /\ GoTo(r, "forget")
    /\ UNCHANGED <<setup, taskVars, loopVars, cv, resultVars>>

Forget(r) ==    \* stop(): remove_waiting_task_ids() leaves results behind
    /\ req[r].pc = "forget"
    /\ waiting' = waiting \ Ids(r)
    /\ GoTo(r, IF req[r].got = Ids(r) THEN "done" ELSE "cancel")
    /\ UNCHANGED <<setup, taskVars, loopVars, cv, results>>

Without(q, ids) == Drop(q, {Task(id) : id \in ids})

StopTasks(r) == \* stop(): drop the results and post the cancel tasks at the front
    /\ req[r].pc = "cancel"
    /\ results' = Drop(results, [id : Ids(r), error : BOOLEAN])
    /\ \E order \in SetToSeqs(Ids(r)) :
          queue' = [i \in DOMAIN order |-> CancelTask(order[i])] \o Without(queue, Ids(r))
    /\ deferred' = Without(deferred, Ids(r))
    /\ unhandled' = Without(unhandled, Ids(r))
    /\ NotifyOne(cv')
    /\ GoTo(r, "done")
    /\ UNCHANGED <<setup, hand, loopVars, waiting>>

TerminateUnnoticed ==
    /\ MayStop /\ flags.running
    /\ flags' = [flags EXCEPT !.running = FALSE]
    /\ UNCHANGED <<setup, taskVars, main, worker, slot, todo, cv, resultVars, req>>

Terminate ==
    /\ MayStop /\ flags.running
    /\ flags' = [flags EXCEPT !.running = FALSE]
    /\ NotifyAll
    /\ UNCHANGED <<setup, taskVars, main, worker, slot, todo, resultVars, req>>

-----------------------------------------------------------------------------
MainLoop ==
    \/ MainStops \/ MainTakes \/ MainHandles \/ UpdateIdle \/ UpdateDecode
    \/ WorkEnds \/ JoinBlocks \/ PutBack \/ Updated \/ IdleEnds \/ AwakeAgain \/ SleepOn
    \/ \E s \in Slots : SlotGenerates(s) \/ SlotWaits(s) \/ SlotFinishes(s) \/ SlotFails(s)
WorkerThread == WorkerTakes \/ WorkerHandles \/ WorkerDrained \/ WorkerChecks
Client(r) ==
    Arrive(r) \/ NoSleep(r) \/ Register(r) \/ Post(r) \/ Receive(r) \/ Forget(r) \/ StopTasks(r)
Next ==
    \/ MainLoop \/ FallAsleep \/ WorkerThread
    \/ \E r \in Requests : Client(r) \/ Leave(r)
    \/ Terminate

Spec == Init /\ [][Next]_vars
(* The threads keep running; nothing obliges the server to fall asleep, a  *)
(* client to leave, or anybody to stop the server.                         *)
FairSpec ==
    /\ Spec
    /\ WF_vars(MainLoop) /\ WF_vars(WorkerThread)
    /\ \A r \in Requests : WF_vars(Client(r))

-----------------------------------------------------------------------------
(* The kinds of the state's parts.                                         *)
TypeOK ==
    /\ queue \in Seq(TaskRec) /\ deferred \in Seq(TaskRec) /\ unhandled \in Seq(TaskRec)
    /\ hand \in [{"main", "worker"} -> TaskRec]
    /\ slot \in [Slots -> [id : AllIds \cup {NoId}, left : 0 .. Rounds,
                           state : {"idle", "wait", "run"}]]
    /\ todo \subseteq Slots
    /\ waiting \subseteq AllIds
    /\ results \in Seq([id : AllIds, error : BOOLEAN])

Count(q, id) == Cardinality({i \in DOMAIN q : q[i] = Task(id)})
Places(id) ==
    Count(queue, id) + Count(deferred, id) + Count(unhandled, id)
    + Cardinality({t \in DOMAIN hand : hand[t] = Task(id)})
    + Cardinality({s \in Slots : slot[s].id = id})
Pending(id) == Cardinality({i \in DOMAIN results : results[i].id = id})
Failed(r) == \E i \in DOMAIN results : results[i].error /\ results[i].id \in Ids(r)
Launched(r) == \E s \in Slots : slot[s].id \in Ids(r)
Queueable(r) == Places(<<r, 0>>) - Cardinality({s \in Slots : slot[s].id = <<r, 0>>})

(* While a client waits, each of its tasks is in exactly one place, or has *)
(* exactly one answer, or an error answer for the request is under way.    *)
(* A child exists on its own only once its parent was launched.            *)
TasksAccounted ==
    \A r \in Requests : req[r].pc = "recv" =>
        \/ Failed(r)
        \/ \A id \in Ids(r) :
              (IF id[2] > 0 THEN Queueable(r) ELSE 0)
              + Places(id) + Pending(id) + (IF id \in req[r].got THEN 1 ELSE 0) = 1

(* No result outlives its reader: every queued result is one somebody waits *)
(* for, or belongs to a reader that is about to drop it.  An unread result *)
(* would stay in queue_results for ever.                                   *)
NoOrphanResults ==
    \A i \in DOMAIN results : \E r \in Requests :
        /\ results[i].id \in Ids(r)
        /\ results[i].id \in waiting \/ req[r].pc = "cancel"

(* With one slot, completions and slot actions take their turn in the      *)
(* order they were posted, also when the worker declines them in the       *)
(* middle of a decode: what is set aside, in hand and in the queue is one  *)
(* line.  (With more slots, two releases in one round let two deferred     *)
(* tasks in, in reverse order; and a parent whose children never fit is    *)
(* deferred again behind those that came after it.)                        *)
OneSlot == NSlots = 1 /\ \A r \in Requests : Children[r] = 0
StartInOrder ==
    LET inHand(t) == IF hand[t] = NoTask THEN <<>> ELSE <<hand[t]>>
        inOrder(q) == \A i, j \in DOMAIN q :
            i < j /\ (\A k \in {i, j} : q[k].type = "task" /\ Kind[q[k].id[1]] # "metrics")
                => req[q[i].id[1]].turn < req[q[j].id[1]].turn
    IN  OneSlot => /\ inOrder(inHand("main") \o unhandled \o inHand("worker") \o queue)
                   /\ inOrder(deferred)

(* A slot that works is never forgotten: before the thread waits for tasks *)
(* or sleeps, a NEXT_RESPONSE is queued that brings it back.  Falling      *)
(* asleep frees the model under every slot.                                *)
BusyMeansScheduled ==
    main \in {"idle", "asleep"} /\ BusySlots # {} =>
        main = "idle" /\ \E i \in DOMAIN queue : queue[i] = NextResponse

(* server-queue.h:58 says that a deferred task waits "until one slot is    *)
(* available": when the server has nothing left to do, no task is deferred *)
(* while all slots are free.                                               *)
DeferredUntilAvailable ==
    main = "idle" /\ queue = <<>> /\ BusySlots = {} => deferred = <<>>

(* server-queue.cpp:31: a cancel task "make[s] sure to clean up pending    *)
(* tasks".  Once it was handled, the cancelled task is nowhere any more.   *)
CancelPending(id) ==
    \/ \E i \in DOMAIN queue : queue[i] = CancelTask(id)
    \/ \E i \in DOMAIN unhandled : unhandled[i] = CancelTask(id)
    \/ \E t \in DOMAIN hand : hand[t] = CancelTask(id)
CancelledIsGone ==
    \A r \in Requests : req[r].pc = "done" =>
        \A id \in Ids(r) : CancelPending(id) \/ Places(id) = 0

(* README.md:2073: "Any new incoming task will automatically trigger the   *)
(* model to reload."                                                       *)
TaskWakesServer ==
    main = "asleep" /\ flags.running /\ queue # <<>> => flags.wake

(* Every request that is posted is answered, also when decoding fails, if  *)
(* no launch is rejected, nobody leaves and the server neither sleeps nor  *)
(* ends (server_response_reader::next).                                    *)
Undisturbed == BadTask = {} /\ MayLeave = {} /\ ~MaySleep /\ ~MayStop
EveryRequestAnswered == \A r \in Requests : req[r].pc = "recv" /\ Undisturbed ~> req[r].pc = "done"

(* A thread that waits for the model to be loaded again gets through.      *)
SleepEnds == \A r \in Requests : req[r].pc = "nosleep" ~> req[r].pc # "nosleep"

(* terminate() ends the loop wherever it is: decoding, asleep, or waiting  *)
(* for the worker.                                                         *)
TerminateStops == ~flags.running ~> main = "stopped" /\ worker.pc = "off"

(* What is posted is in one place until its one result is taken or its     *)
(* request leaves (queue_tasks, queue_tasks_deferred, slots, results).     *)
QueueInv == TypeOK /\ TasksAccounted /\ NoOrphanResults

==============================================================================
