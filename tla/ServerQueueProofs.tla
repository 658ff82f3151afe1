--------------------------- MODULE ServerQueueProofs ---------------------------
(* For every number of requests, slots and children: no task is lost,      *)
(* doubled or answered twice, no result is left without a reader, a slot   *)
(* that works is always visited again, and with one slot tasks keep their  *)
(* order.                                                                  *)
EXTENDS ServerQueue, ProofLemmas

ListRec == {Task(<<r, 0>>) : r \in Requests} \cup {CancelTask(id) : id \in AllIds} \cup {NextResponse}
SlotRec == [id : AllIds \cup {NoId}, left : 0 .. Rounds, state : {"idle", "wait", "run"}]
ResultRec == [id : AllIds, error : BOOLEAN]
Waits == {"new", "nosleep", "ready", "post"}    \* nothing is posted yet

(* The kinds of the state's parts, and what is in the lists.               *)
Types ==
    /\ setup \in Setups
    /\ queue \in Seq(ListRec) /\ deferred \in Seq(ListRec) /\ unhandled \in Seq(ListRec)
    /\ hand \in [{"main", "worker"} -> ListRec \cup {NoTask}]
    /\ slot \in [Slots -> SlotRec]
    /\ \A s \in Slots : slot[s].state = "idle" => slot[s].id = NoId
    /\ worker \in [pc : {"off", "process", "drained"}, busy : BOOLEAN, yielding : BOOLEAN]
    /\ todo \subseteq Slots
    /\ waiting \subseteq AllIds
    /\ results \in Seq(ResultRec)
    /\ req \in [Requests -> [pc : Waits \cup {"recv", "forget", "cancel", "done"}, got : SUBSET AllIds, turn : Nat]]

-----------------------------------------------------------------------------
\* The parameters of the server.
LEMMA Parameters ==
    ASSUME setup \in Setups
    PROVE  /\ NSlots \in Nat \ {0} /\ WantSlot \in [Requests -> Int] /\ Children \in [Requests -> Nat]
           /\ Slots \subseteq Nat /\ IsFiniteSet(Slots) /\ Rounds \in Nat
           /\ \A r \in Requests : WantSlot[r] % NSlots \in Slots
           /\ \A r \in Requests : Kind[r] # "completion" => Children[r] = 0
           /\ \A r \in Requests : Ids(r) \subseteq AllIds /\ <<r, 0>> \in Ids(r)
  <1>1. NSlots \in Nat \ {0} /\ WantSlot \in [Requests -> Int] /\ Children \in [Requests -> Nat] /\ Rounds \in Nat
    BY SetupAssumption DEF NSlots, WantSlot, Children
  <1>2. Slots \subseteq Nat /\ \A r \in Requests : WantSlot[r] % NSlots \in Slots
    BY <1>1 DEF Slots
  <1>3. IsFiniteSet(Slots)
    BY <1>1, FS_Interval DEF Slots
  <1>4. \A r \in Requests : Ids(r) \subseteq AllIds /\ <<r, 0>> \in Ids(r)
    BY <1>1 DEF Ids, AllIds
  <1>5. \A r \in Requests : Kind[r] # "completion" => Children[r] = 0
    BY SetupAssumption DEF Kind, Children
  <1> QED
    BY <1>1, <1>2, <1>3, <1>4, <1>5

\* An id tells its request.
LEMMA IdFacts ==
    ASSUME setup \in Setups, NEW id \in AllIds
    PROVE  /\ id[1] \in Requests /\ id \in Ids(id[1]) /\ id # NoId /\ id[2] \in 0 .. Children[id[1]]
           /\ \A r \in Requests : id \in Ids(r) => r = id[1]
  <1>1. PICK r \in Requests : id \in Ids(r)
    BY DEF AllIds
  <1>2. PICK i \in 0 .. Children[r] : id = <<r, i>>
    BY <1>1 DEF Ids
  <1>3. id[1] = r /\ id[2] = i /\ id # NoId
    BY <1>2 DEF NoId
  <1>4. ASSUME NEW q \in Requests, id \in Ids(q) PROVE q = id[1]
    BY <1>4 DEF Ids
  <1> QED
    BY <1>1, <1>2, <1>3, <1>4

\* The records in the lists are told apart.
LEMMA RecFacts ==
    /\ \A a, b : Task(a) = Task(b) => a = b
    /\ \A a, b : CancelTask(a) = CancelTask(b) => a = b
    /\ \A a, b : Task(a) # CancelTask(b)
    /\ \A a : Task(a) # NextResponse /\ Task(a) # NoTask
    /\ \A a : CancelTask(a) # NextResponse /\ CancelTask(a) # NoTask
    /\ NextResponse # NoTask
    /\ \A a : Task(a).type = "task" /\ Task(a).id = a
    /\ \A a : CancelTask(a).type = "cancel" /\ CancelTask(a).id = a
    /\ NextResponse.type = "next" /\ NoTask.type = "none"
  BY DEF Task, CancelTask, NextResponse, NoTask

\* A record of type task is the task of a request.
LEMMA ListRecFacts ==
    ASSUME NEW t \in ListRec \cup {NoTask}
    PROVE  /\ t.type = "task" => \E r \in Requests : t = Task(<<r, 0>>) /\ t.id = <<r, 0>> /\ t.id[1] = r
           /\ t.type = "cancel" => \E id \in AllIds : t = CancelTask(id) /\ t.id = id
           /\ t.type = "next" => t = NextResponse
           /\ t # NoTask => t \in ListRec
  <1>1. CASE t = NoTask
    BY <1>1, RecFacts
  <1>2. CASE t = NextResponse
    BY <1>2, RecFacts DEF ListRec
  <1>3. ASSUME NEW r \in Requests, t = Task(<<r, 0>>)
        PROVE  t.type = "task" /\ t.id = <<r, 0>> /\ t.id[1] = r /\ t \in ListRec
    BY <1>3, RecFacts DEF ListRec
  <1>4. ASSUME NEW id \in AllIds, t = CancelTask(id) PROVE t.type = "cancel" /\ t.id = id /\ t \in ListRec
    BY <1>4, RecFacts DEF ListRec
  <1>5. \/ t = NoTask \/ t = NextResponse
        \/ \E r \in Requests : t = Task(<<r, 0>>)
        \/ \E id \in AllIds : t = CancelTask(id)
    BY DEF ListRec
  <1> QED
    BY <1>1, <1>2, <1>3, <1>4, <1>5

\* A freed slot moves at most one task from the deferred ones to the queue.
LEMMA PopFacts ==
    ASSUME Types, NEW s, PopDeferred(s)
    PROVE  /\ queue' \in Seq(ListRec) /\ deferred' \in Seq(ListRec)
           /\ \A X : Occ(queue', X) + Occ(deferred', X) = Occ(queue, X) + Occ(deferred, X)
           /\ \A X : Occ(queue, X) <= Occ(queue', X)
  <1>0. queue \in Seq(ListRec) /\ deferred \in Seq(ListRec)
    BY DEF Types
  <1>1. CASE UNCHANGED <<queue, deferred>>
    <2>1. \A X : Occ(queue, X) \in Nat
      BY <1>0, OccNat
    <2> QED
      BY <1>0, <1>1, <2>1
  <1>2. ASSUME NEW i \in DOMAIN deferred, queue' = <<deferred[i]>> \o queue, deferred' = RemoveAt(deferred, i)
        PROVE  /\ queue' \in Seq(ListRec) /\ deferred' \in Seq(ListRec)
               /\ \A X : Occ(queue', X) + Occ(deferred', X) = Occ(queue, X) + Occ(deferred, X)
               /\ \A X : Occ(queue, X) <= Occ(queue', X)
    <2> DEFINE e == deferred[i]
    <2>1. i \in 1 .. Len(deferred)
      BY <1>0, LenProperties
    <2>2. RemoveAt(deferred, i) \in Seq(ListRec) /\ e \in ListRec
      BY <1>0, <2>1, OccRemoveAt
    <2> HIDE DEF e
    <2>3. <<e>> \in Seq(ListRec)
      BY <2>2
    <2>4. <<e>> \o queue \in Seq(ListRec)
      BY <1>0, <2>3, ConcatProperties
    <2>5. ASSUME NEW X
          PROVE  /\ Occ(<<e>> \o queue, X) + Occ(RemoveAt(deferred, i), X) = Occ(queue, X) + Occ(deferred, X)
                 /\ Occ(queue, X) <= Occ(<<e>> \o queue, X)
      <3>1. Occ(<<e>> \o queue, X) = Occ(<<e>>, X) + Occ(queue, X)
        BY <1>0, <2>3, OccConcat
      <3>2. Occ(<<e>>, X) = IF e \in X THEN 1 ELSE 0
        BY OccOne
      <3>3. Occ(deferred, X) = Occ(RemoveAt(deferred, i), X) + (IF e \in X THEN 1 ELSE 0)
        BY <1>0, <2>1, OccRemoveAt DEF e
      <3>4. Occ(queue, X) \in Nat /\ Occ(RemoveAt(deferred, i), X) \in Nat
        BY <1>0, <2>2, OccNat
      <3> QED
        BY <3>1, <3>2, <3>3, <3>4
    <2> QED
      BY <1>2, <2>2, <2>4, <2>5 DEF e
  <1> QED
    BY <1>1, <1>2 DEF PopDeferred

\* A result is kept for whoever waits.
LEMMA SendFacts ==
    ASSUME Types, NEW id, NEW error \in BOOLEAN, Send(id, error)
    PROVE  /\ results' \in Seq(ResultRec)
           /\ id \in waiting => \A X : Occ(results', X) = Occ(results, X) + (IF [id |-> id, error |-> error] \in X THEN 1 ELSE 0)
           /\ id \notin waiting => results' = results
  <1>0. results \in Seq(ResultRec) /\ waiting \subseteq AllIds
    BY DEF Types
  <1>1. CASE id \in waiting
    <2>1. [id |-> id, error |-> error] \in ResultRec
      BY <1>0, <1>1 DEF ResultRec
    <2>2. results' = Append(results, [id |-> id, error |-> error])
      BY <1>1 DEF Send
    <2>3. Append(results, [id |-> id, error |-> error]) \in Seq(ResultRec)
      BY <1>0, <2>1, AppendProperties
    <2> QED
      BY <1>0, <1>1, <2>1, <2>2, <2>3, OccAppend
  <1>2. CASE id \notin waiting
    BY <1>0, <1>2 DEF Send
  <1> QED
    BY <1>1, <1>2

\* What is defined from the parameters never changes.
LEMMA Rigid ==
    ASSUME setup' = setup
    PROVE  /\ NSlots' = NSlots /\ Kind' = Kind /\ Children' = Children /\ Slots' = Slots
           /\ AllIds' = AllIds /\ ListRec' = ListRec /\ SlotRec' = SlotRec /\ ResultRec' = ResultRec
           /\ \A r \in Requests : Ids(r)' = Ids(r)
  <1>1. NSlots' = NSlots /\ Kind' = Kind /\ Children' = Children
    BY DEF NSlots, Kind, Children
  <1>2. Slots' = Slots
    BY <1>1 DEF Slots
  <1>3. \A r \in Requests : Ids(r)' = Ids(r)
    BY <1>1 DEF Ids
  <1>4. AllIds' = AllIds
    BY <1>3 DEF AllIds
  <1>5. ListRec' = ListRec
    BY <1>4 DEF ListRec, Task, CancelTask, NextResponse, NoId
  <1>6. SlotRec' = SlotRec /\ ResultRec' = ResultRec
    BY <1>4 DEF SlotRec, ResultRec, NoId
  <1> QED
    BY <1>1, <1>2, <1>3, <1>4, <1>5, <1>6

(* A slot is freed: its record, and one task that was deferred.            *)
LEMMA ReleaseTypes ==
    ASSUME Types, NEW s \in Slots, Release(s)
    PROVE  /\ queue' \in Seq(ListRec) /\ deferred' \in Seq(ListRec)
           /\ slot' \in [Slots -> SlotRec]
           /\ \A t \in Slots : slot'[t].state = "idle" => slot'[t].id = NoId
  <1>1. queue' \in Seq(ListRec) /\ deferred' \in Seq(ListRec)
    BY PopFacts DEF Release
  <1>2. Free \in SlotRec /\ Free.id = NoId
    BY SetupAssumption DEF Free, SlotRec
  <1>3. slot' = [slot EXCEPT ![s] = Free] /\ slot \in [Slots -> SlotRec]
    BY DEF Release, Types
  <1>4. slot' \in [Slots -> SlotRec]
    BY <1>2, <1>3
  <1>5. ASSUME NEW t \in Slots, slot'[t].state = "idle" PROVE slot'[t].id = NoId
    BY <1>2, <1>3, <1>5 DEF Types
  <1> QED
    BY <1>1, <1>4, <1>5

(* The slots of a parent and its children.                                 *)
LEMMA LaunchTypes ==
    ASSUME Types, NEW r \in Requests, NEW own \in Slots, Launch(r, own, FreeSlots(own))
    PROVE  /\ slot' \in [Slots -> SlotRec]
           /\ \A t \in Slots : slot'[t].state = "idle" => slot'[t].id = NoId
  <1> DEFINE free == FreeSlots(own)
  <1>1. Children[r] \in Nat /\ <<r, 0>> \in AllIds /\ IsFiniteSet(free) /\ Rounds \in 0 .. Rounds
    <2>1. setup \in Setups
      BY DEF Types
    <2>2. free \subseteq Slots
      BY DEF FreeSlots
    <2> QED
      BY <2>1, <2>2, Parameters, FS_Subset
  <1>2. ASSUME NEW s \in Slots, Rank(s, free) <= Children[r] PROVE <<r, Rank(s, free)>> \in AllIds
    <2>1. Rank(s, free) \in Nat
      BY <1>1, FS_Subset, FS_CardinalityType DEF Rank
    <2>2. Rank(s, free) \in 0 .. Children[r]
      BY <2>1, <1>1, <1>2
    <2> QED
      BY <2>2 DEF Ids, AllIds
  <1>3. slot' = [s \in Slots |->
          IF s = own THEN [id |-> <<r, 0>>, left |-> Rounds, state |-> "run"]
          ELSE IF s \in free /\ Rank(s, free) <= Children[r]
          THEN [id |-> <<r, Rank(s, free)>>, left |-> Rounds, state |-> "wait"]
          ELSE slot[s]]
    BY DEF Launch
  <1>4. slot \in [Slots -> SlotRec] /\ \A s \in Slots : slot[s].state = "idle" => slot[s].id = NoId
    BY DEF Types
  <1> HIDE DEF free
  <1>5. ASSUME NEW s \in Slots PROVE slot'[s] \in SlotRec /\ (slot'[s].state = "idle" => slot'[s].id = NoId)
    <2>1. CASE s = own
      BY <2>1, <1>1, <1>3 DEF SlotRec
    <2>2. CASE s # own /\ s \in free /\ Rank(s, free) <= Children[r]
      BY <2>2, <1>1, <1>2, <1>3 DEF SlotRec
    <2>3. CASE s # own /\ ~ (s \in free /\ Rank(s, free) <= Children[r])
      BY <2>3, <1>3, <1>4
    <2> QED
      BY <2>1, <2>2, <2>3
  <1>6. slot' \in [Slots -> SlotRec]
    BY <1>3, <1>5
  <1> QED
    BY <1>5, <1>6

-----------------------------------------------------------------------------
\* Everything starts empty.
LEMMA TypesInit == Init => Types
  <1> SUFFICES ASSUME Init PROVE Types
    OBVIOUS
  <1>1. setup \in Setups /\ Rounds \in Nat
    BY SetupAssumption DEF Init
  <1>2. queue \in Seq(ListRec) /\ deferred \in Seq(ListRec) /\ unhandled \in Seq(ListRec) /\ results \in Seq(ResultRec)
    BY EmptySeq DEF Init
  <1>3. hand \in [{"main", "worker"} -> ListRec \cup {NoTask}]
    BY DEF Init
  <1>4. Free \in SlotRec /\ Free.id = NoId
    BY <1>1 DEF Free, SlotRec
  <1>5. slot \in [Slots -> SlotRec] /\ \A s \in Slots : slot[s].state = "idle" => slot[s].id = NoId
    BY <1>4 DEF Init
  <1>6. worker \in [pc : {"off", "process", "drained"}, busy : BOOLEAN, yielding : BOOLEAN] /\ todo = {} /\ waiting = {}
    BY DEF Init
  <1>7. req \in [Requests -> [pc : Waits \cup {"recv", "forget", "cancel", "done"}, got : SUBSET AllIds, turn : Nat]]
    BY DEF Init, Waits
  <1> QED
    BY <1>1, <1>2, <1>3, <1>5, <1>6, <1>7 DEF Types

(* Everything but the thread states is as it was.                          *)
LEMMA TypesQuiet ==
    ASSUME Types, UNCHANGED <<setup, queue, deferred, unhandled, hand, slot, waiting, results, req>>,
           worker' \in [pc : {"off", "process", "drained"}, busy : BOOLEAN, yielding : BOOLEAN], todo' \subseteq Slots
    PROVE  Types'
  BY Rigid DEF Types, NoTask, NoId, Waits

\* The main thread's steps without a task in hand.
LEMMA TypesMain ==
    ASSUME Types,
           \/ MainStops \/ MainTakes \/ UpdateIdle \/ UpdateDecode \/ WorkEnds \/ JoinBlocks \/ PutBack
           \/ Updated \/ IdleEnds \/ AwakeAgain \/ SleepOn \/ FallAsleep
    PROVE  Types'
  <1>1. CASE MainStops \/ UpdateIdle \/ WorkEnds \/ JoinBlocks \/ Updated \/ IdleEnds \/ AwakeAgain \/ SleepOn \/ FallAsleep
    <2>1. UNCHANGED <<setup, queue, deferred, unhandled, hand, slot, waiting, results, req, todo>>
      BY <1>1 DEF MainStops, UpdateIdle, WorkEnds, JoinBlocks, Updated, IdleEnds, AwakeAgain, SleepOn, FallAsleep,
                  taskVars, loopVars, resultVars
    <2>2. worker' = worker \/ worker' = [worker EXCEPT !.yielding = FALSE]
      BY <1>1 DEF MainStops, UpdateIdle, WorkEnds, JoinBlocks, Updated, IdleEnds, AwakeAgain, SleepOn, FallAsleep,
                  taskVars, loopVars, resultVars
    <2>3. worker' \in [pc : {"off", "process", "drained"}, busy : BOOLEAN, yielding : BOOLEAN] /\ todo' \subseteq Slots
      BY <2>1, <2>2 DEF Types
    <2> QED
      BY <2>1, <2>3, TypesQuiet
  <1>2. CASE MainTakes
    <2>1. /\ UNCHANGED <<setup, deferred, unhandled, slot, waiting, results, req, todo, worker>>
          /\ hand' = [hand EXCEPT !["main"] = Head(queue)] /\ queue' = Tail(queue) /\ queue # <<>>
      BY <1>2 DEF MainTakes, loopVars, resultVars
    <2>2. Head(queue) \in ListRec /\ Tail(queue) \in Seq(ListRec)
      BY <2>1, HeadTailProperties DEF Types
    <2> QED
      BY <2>1, <2>2, Rigid DEF Types, NoTask, NoId, Waits
  <1>3. CASE UpdateDecode
    <2>1. /\ UNCHANGED <<setup, deferred, unhandled, hand, slot, waiting, results, req, todo>>
          /\ queue' = Append(queue, NextResponse)
          /\ worker' = [pc |-> "process", busy |-> TRUE, yielding |-> TRUE]
      BY <1>3 DEF UpdateDecode, resultVars
    <2>2. Append(queue, NextResponse) \in Seq(ListRec)
      BY AppendProperties DEF Types, ListRec
    <2> QED
      BY <2>1, <2>2, Rigid DEF Types, NoTask, NoId, Waits
  <1>4. CASE PutBack
    <2>1. /\ UNCHANGED <<setup, deferred, hand, slot, waiting, results, req, worker>>
          /\ queue' = unhandled \o queue /\ unhandled' = <<>> /\ todo' = BusySlots
      BY <1>4 DEF PutBack, resultVars
    <2>2. unhandled \o queue \in Seq(ListRec) /\ <<>> \in Seq(ListRec) /\ BusySlots \subseteq Slots
      BY ConcatProperties, EmptySeq DEF Types, BusySlots
    <2> QED
      BY <2>1, <2>2, Rigid DEF Types, NoTask, NoId, Waits
  <1> QED
    BY <1>1, <1>2, <1>3, <1>4

(* What process_single_task() may do with the task in hand.                *)
Handled(task) ==
    \/ task.type = "next" /\ HandleNext
    \/ task.type = "cancel" /\ HandleCancel(task.id)
    \/ task.type = "task" /\ Kind[task.id[1]] = "completion" /\ HandleCompletion(task.id[1])
    \/ task.type = "task" /\ Kind[task.id[1]] = "action" /\ HandleAction(task.id[1])
    \/ task.type = "task" /\ Kind[task.id[1]] = "metrics" /\ HandleMetrics(task.id[1])

(* The cases of process_single_task() by what they change.                 *)
LEMMA HandledCases ==
    ASSUME Types, Handled(hand["main"])
    PROVE  \/ hand["main"] = NextResponse /\ UNCHANGED <<queue, deferred, slot, results>>
           \/ \E id \in AllIds : /\ hand["main"] = CancelTask(id) /\ UNCHANGED results
                                 /\ \/ UNCHANGED <<queue, deferred, slot>>
                                    \/ \E s \in Slots : slot[s].id = id /\ Release(s)
           \/ \E r \in Requests :
                /\ hand["main"] = Task(<<r, 0>>)
                /\ \/ Defer(Task(<<r, 0>>))
                   \/ /\ UNCHANGED <<queue, deferred, slot>>
                      /\ \/ Send(<<r, 0>>, FALSE) /\ Children[r] = 0
                         \/ Send(<<r, IF Children[r] = 0 THEN 0 ELSE 1>>, TRUE)
                   \/ /\ UNCHANGED <<queue, deferred, results>>
                      /\ \E own \in Slots \ BusySlots :
                           Cardinality(FreeSlots(own)) >= Children[r] /\ Launch(r, own, FreeSlots(own))
  <1> DEFINE t == hand["main"]
  <1>1. t \in ListRec \cup {NoTask}
    BY DEF Types
  <1>2. CASE t.type = "next"
    <2>1. t = NextResponse
      BY <1>1, <1>2, ListRecFacts
    <2>2. HandleNext
      BY <1>2 DEF Handled
    <2> QED
      BY <2>1, <2>2 DEF HandleNext
  <1>3. CASE t.type = "cancel"
    <2>1. PICK id \in AllIds : t = CancelTask(id) /\ t.id = id
      BY <1>1, <1>3, ListRecFacts
    <2>2. HandleCancel(id)
      BY <1>3, <2>1 DEF Handled
    <2> QED
      BY <2>1, <2>2 DEF HandleCancel
  <1>4. CASE t.type = "task"
    <2>1. PICK r \in Requests : t = Task(<<r, 0>>) /\ t.id[1] = r
      BY <1>1, <1>4, ListRecFacts
    <2>2. \/ HandleCompletion(r)
          \/ Kind[r] = "action" /\ HandleAction(r)
          \/ Kind[r] = "metrics" /\ HandleMetrics(r)
      BY <1>4, <2>1 DEF Handled
    <2>3. CASE Kind[r] = "metrics" /\ HandleMetrics(r)
      <3>1. Children[r] = 0
        BY <2>3, Parameters DEF Types
      <3> QED
        BY <2>1, <2>3, <3>1 DEF HandleMetrics
    <2>4. CASE Kind[r] = "action" /\ HandleAction(r)
      <3>1. Children[r] = 0
        BY <2>4, Parameters DEF Types
      <3> QED
        BY <2>1, <2>4, <3>1 DEF HandleAction
    <2>5. CASE HandleCompletion(r)
      <3> DEFINE candidates == IF WantSlot[r] = -1 THEN Slots \ BusySlots ELSE {WantSlot[r] % NSlots} \ BusySlots
      <3>1. candidates \subseteq Slots \ BusySlots
        BY Parameters DEF Types
      <3>2. \/ Defer(Task(<<r, 0>>))
            \/ \E own \in candidates :
                 \/ Defer(Task(<<r, 0>>))
                 \/ Reject(r)
                 \/ Cardinality(FreeSlots(own)) >= Children[r] /\ Launch(r, own, FreeSlots(own))
        BY <2>5 DEF HandleCompletion
      <3> HIDE DEF candidates
      <3>3. CASE Defer(Task(<<r, 0>>))
        BY <2>1, <3>3
      <3>4. CASE Reject(r)
        BY <2>1, <3>4 DEF Reject
      <3>5. ASSUME NEW own \in candidates, Cardinality(FreeSlots(own)) >= Children[r], Launch(r, own, FreeSlots(own))
            PROVE  /\ UNCHANGED <<queue, deferred, results>>
                   /\ \E o \in Slots \ BusySlots : Cardinality(FreeSlots(o)) >= Children[r] /\ Launch(r, o, FreeSlots(o))
        BY <3>1, <3>5 DEF Launch
      <3> QED
        BY <2>1, <3>2, <3>3, <3>4, <3>5
    <2> QED
      BY <2>2, <2>3, <2>4, <2>5
  <1> QED
    BY <1>2, <1>3, <1>4 DEF Handled

\* process_single_task().
LEMMA TypesHandles == ASSUME Types, MainHandles PROVE Types'
  <1>1. /\ UNCHANGED <<setup, unhandled, worker, todo, waiting, req>>
        /\ hand' = [hand EXCEPT !["main"] = NoTask] /\ Handled(hand["main"])
    BY DEF MainHandles, Handled
  <1>2. /\ queue \in Seq(ListRec) /\ deferred \in Seq(ListRec) /\ slot \in [Slots -> SlotRec] /\ results \in Seq(ResultRec)
        /\ \A t \in Slots : slot[t].state = "idle" => slot[t].id = NoId
    BY DEF Types
  <1>3. /\ queue' \in Seq(ListRec) /\ deferred' \in Seq(ListRec)
        /\ slot' \in [Slots -> SlotRec] /\ results' \in Seq(ResultRec)
        /\ \A t \in Slots : slot'[t].state = "idle" => slot'[t].id = NoId
    <2>1. CASE UNCHANGED <<queue, deferred, slot, results>>
      BY <2>1, <1>2
    <2>2. ASSUME NEW s \in Slots, Release(s), UNCHANGED results
          PROVE  /\ queue' \in Seq(ListRec) /\ deferred' \in Seq(ListRec)
                 /\ slot' \in [Slots -> SlotRec] /\ results' \in Seq(ResultRec)
                 /\ \A t \in Slots : slot'[t].state = "idle" => slot'[t].id = NoId
      BY <2>2, <1>2, ReleaseTypes
    <2>3. ASSUME NEW r \in Requests, Defer(Task(<<r, 0>>))
          PROVE  /\ queue' \in Seq(ListRec) /\ deferred' \in Seq(ListRec)
                 /\ slot' \in [Slots -> SlotRec] /\ results' \in Seq(ResultRec)
                 /\ \A t \in Slots : slot'[t].state = "idle" => slot'[t].id = NoId
      <3>1. UNCHANGED <<queue, slot, results>> /\ deferred' = Append(deferred, Task(<<r, 0>>))
        BY <2>3 DEF Defer
      <3>2. Append(deferred, Task(<<r, 0>>)) \in Seq(ListRec)
        BY <1>2, AppendProperties DEF ListRec
      <3> QED
        BY <3>1, <3>2, <1>2
    <2>4. ASSUME NEW id, NEW error \in BOOLEAN, Send(id, error), UNCHANGED <<queue, deferred, slot>>
          PROVE  /\ queue' \in Seq(ListRec) /\ deferred' \in Seq(ListRec)
                 /\ slot' \in [Slots -> SlotRec] /\ results' \in Seq(ResultRec)
                 /\ \A t \in Slots : slot'[t].state = "idle" => slot'[t].id = NoId
      BY <2>4, <1>2, SendFacts
    <2>5. ASSUME NEW r \in Requests, NEW own \in Slots, Launch(r, own, FreeSlots(own)), UNCHANGED <<queue, deferred, results>>
          PROVE  /\ queue' \in Seq(ListRec) /\ deferred' \in Seq(ListRec)
                 /\ slot' \in [Slots -> SlotRec] /\ results' \in Seq(ResultRec)
                 /\ \A t \in Slots : slot'[t].state = "idle" => slot'[t].id = NoId
      BY <2>5, <1>2, LaunchTypes
    <2> QED
      BY <1>1, <2>1, <2>2, <2>3, <2>4, <2>5, HandledCases
  <1>4. hand' \in [{"main", "worker"} -> ListRec \cup {NoTask}]
    BY <1>1 DEF Types
  <1> QED
    BY <1>1, <1>3, <1>4, Rigid DEF Types, NoTask, NoId, Waits

\* post_decode() visits a slot.
LEMMA TypesSlots ==
    ASSUME Types, NEW s \in Slots, SlotGenerates(s) \/ SlotWaits(s) \/ SlotFinishes(s) \/ SlotFails(s)
    PROVE  Types'
  <1>1. UNCHANGED <<setup, unhandled, hand, worker, waiting, req>> /\ todo' = todo \ {s}
    BY DEF SlotGenerates, SlotWaits, SlotFinishes, SlotFails, Visit
  <1>2. /\ queue \in Seq(ListRec) /\ deferred \in Seq(ListRec) /\ slot \in [Slots -> SlotRec] /\ results \in Seq(ResultRec)
        /\ \A t \in Slots : slot[t].state = "idle" => slot[t].id = NoId
    BY DEF Types
  <1>3. /\ queue' \in Seq(ListRec) /\ deferred' \in Seq(ListRec)
        /\ slot' \in [Slots -> SlotRec] /\ results' \in Seq(ResultRec)
        /\ \A t \in Slots : slot'[t].state = "idle" => slot'[t].id = NoId
    <2>1. CASE SlotWaits(s)
      BY <2>1, <1>2 DEF SlotWaits
    <2>2. CASE SlotFinishes(s)
      BY <2>2, <1>2, ReleaseTypes, SendFacts DEF SlotFinishes
    <2>3. CASE SlotFails(s)
      BY <2>3, <1>2, ReleaseTypes, SendFacts DEF SlotFails
    <2>4. CASE SlotGenerates(s)
      <3>1. /\ UNCHANGED <<queue, deferred, results>> /\ slot[s].state = "run" /\ slot[s].left > 0
            /\ slot' = [t \in Slots |->
                  IF t = s THEN [slot[s] EXCEPT !.left = @ - 1]
                  ELSE IF slot[s].id[2] = 0 /\ slot[t].state = "wait" /\ slot[t].id[1] = slot[s].id[1]
                  THEN [slot[t] EXCEPT !.state = "run"] ELSE slot[t]]
        BY <2>4 DEF SlotGenerates
      <3>2. ASSUME NEW t \in Slots
            PROVE  slot'[t] \in SlotRec /\ slot'[t].id = slot[t].id /\ (slot'[t].state = "idle" <=> slot[t].state = "idle")
        <4>1. CASE t = s
          <5>1. slot[s] \in SlotRec /\ slot[s].left - 1 \in 0 .. Rounds
            BY <3>1, <1>2, SetupAssumption DEF SlotRec
          <5> QED
            BY <4>1, <5>1, <3>1 DEF SlotRec
        <4>2. CASE t # s
          <5>1. slot[t] \in SlotRec
            BY <1>2
          <5> QED
            BY <4>2, <5>1, <3>1 DEF SlotRec
        <4> QED
          BY <4>1, <4>2
      <3>3. slot' \in [Slots -> SlotRec]
        BY <3>1, <3>2
      <3> QED
        BY <3>1, <3>2, <3>3, <1>2
    <2> QED
      BY <2>1, <2>2, <2>3, <2>4
  <1> QED
    BY <1>1, <1>3, Rigid DEF Types, NoTask, NoId, Waits

\* The worker.
LEMMA TypesWorker ==
    ASSUME Types, WorkerThread
    PROVE  Types'
  <1>1. CASE WorkerTakes
    <2>1. /\ UNCHANGED <<setup, deferred, unhandled, slot, waiting, results, req, todo, worker>>
          /\ hand' = [hand EXCEPT !["worker"] = Head(queue)] /\ queue' = Tail(queue) /\ queue # <<>>
      BY <1>1 DEF WorkerTakes, loopVars, resultVars
    <2>2. Head(queue) \in ListRec /\ Tail(queue) \in Seq(ListRec)
      BY <2>1, HeadTailProperties DEF Types
    <2> QED
      BY <2>1, <2>2, Rigid DEF Types, NoTask, NoId, Waits
  <1>2. CASE WorkerHandles
    <2>1. /\ UNCHANGED <<setup, queue, deferred, slot, waiting, req, todo, worker>>
          /\ hand' = [hand EXCEPT !["worker"] = NoTask] /\ hand["worker"] # NoTask
          /\ \/ unhandled' = Append(unhandled, hand["worker"]) /\ results' = results
             \/ Send(hand["worker"].id, FALSE) /\ unhandled' = unhandled
      BY <1>2 DEF WorkerHandles, loopVars
    <2>2. hand["worker"] \in ListRec
      BY <2>1 DEF Types
    <2>3. unhandled' \in Seq(ListRec) /\ results' \in Seq(ResultRec)
      <3>1. unhandled \in Seq(ListRec) /\ results \in Seq(ResultRec)
        BY DEF Types
      <3>2. Append(unhandled, hand["worker"]) \in Seq(ListRec)
        BY <2>2, <3>1, AppendProperties
      <3> QED
        BY <2>1, <3>1, <3>2, SendFacts
    <2> QED
      BY <2>1, <2>3, Rigid DEF Types, NoTask, NoId, Waits
  <1>3. CASE WorkerDrained \/ WorkerChecks
    <2>1. UNCHANGED <<setup, queue, deferred, unhandled, hand, slot, waiting, results, req, todo>>
      BY <1>3 DEF WorkerDrained, WorkerChecks, taskVars, resultVars
    <2>2. \/ worker' = worker \/ worker' = [worker EXCEPT !.pc = "drained"] \/ worker' = [worker EXCEPT !.pc = "process"]
          \/ worker' = [worker EXCEPT !.pc = "off", !.busy = FALSE]
      BY <1>3 DEF WorkerDrained, WorkerChecks
    <2>3. worker' \in [pc : {"off", "process", "drained"}, busy : BOOLEAN, yielding : BOOLEAN] /\ todo' \subseteq Slots
      BY <2>1, <2>2 DEF Types
    <2> QED
      BY <2>1, <2>3, TypesQuiet
  <1> QED
    BY <1>1, <1>2, <1>3 DEF WorkerThread

ReqRec == [pc : Waits \cup {"recv", "forget", "cancel", "done"}, got : SUBSET AllIds, turn : Nat]

\* A thread goes on; nothing else about its request changes.
LEMMA GoToFacts ==
    ASSUME Types, NEW r \in Requests, NEW pc \in Waits \cup {"recv", "forget", "cancel", "done"}, GoTo(r, pc)
    PROVE  /\ req' \in [Requests -> ReqRec]
           /\ req'[r].pc = pc /\ req'[r].got = req[r].got /\ req'[r].turn = req[r].turn
           /\ \A q \in Requests \ {r} : req'[q] = req[q]
  <1>1. req \in [Requests -> ReqRec]
    BY DEF Types, ReqRec
  <1>2. req' = [req EXCEPT ![r].pc = pc]
    BY DEF GoTo
  <1>3. req[r] \in ReqRec
    BY <1>1
  <1>4. [req[r] EXCEPT !.pc = pc] \in ReqRec
    BY <1>3 DEF ReqRec
  <1>5. req'[r] = [req[r] EXCEPT !.pc = pc] /\ \A q \in Requests \ {r} : req'[q] = req[q]
    BY <1>1, <1>2
  <1> QED
    BY <1>1, <1>2, <1>3, <1>4, <1>5 DEF ReqRec

\* A request whose task is not posted yet.
LEMMA TypesArrive ==
    ASSUME Types, NEW r \in Requests, Arrive(r) \/ NoSleep(r) \/ Register(r) \/ Leave(r) \/ Forget(r)
    PROVE  Types'
  <1>1. /\ UNCHANGED <<setup, queue, deferred, unhandled, hand, slot, worker, todo, results>>
        /\ req' = req \/ \E pc \in Waits \cup {"recv", "forget", "cancel", "done"} : GoTo(r, pc)
        /\ waiting' = waiting \/ waiting' = waiting \cup Ids(r) \/ waiting' = waiting \ Ids(r)
    BY DEF Arrive, NoSleep, Register, Leave, Forget, taskVars, loopVars, resultVars, Waits
  <1>2. req' \in [Requests -> ReqRec]
    BY <1>1, GoToFacts DEF Types, ReqRec
  <1>3. waiting' \subseteq AllIds
    BY <1>1, Parameters DEF Types
  <1> QED
    BY <1>1, <1>2, <1>3, Rigid DEF Types, NoTask, NoId, Waits, ReqRec

\* A task is posted.
LEMMA TypesPost == ASSUME Types, NEW r \in Requests, Post(r) PROVE Types'
  <1> DEFINE n == 1 + Cardinality({q \in Requests : req[q].turn > 0})
             t == Task(<<r, 0>>)
  <1>1. /\ UNCHANGED <<setup, deferred, unhandled, hand, slot, worker, todo, waiting, results>>
        /\ queue' = <<t>> \o queue \/ queue' = Append(queue, t)
        /\ req' = [req EXCEPT ![r].pc = "recv", ![r].turn = n]
    BY DEF Post, loopVars, resultVars
  <1>2. n \in Nat
    <2>1. IsFiniteSet({q \in Requests : req[q].turn > 0})
      BY SetupAssumption, FS_Subset
    <2> QED
      BY <2>1, FS_CardinalityType
  <1>3. t \in ListRec /\ queue \in Seq(ListRec)
    BY DEF ListRec, Types
  <1> HIDE DEF n, t
  <1>4. <<t>> \o queue \in Seq(ListRec) /\ Append(queue, t) \in Seq(ListRec)
    <2>1. <<t>> \in Seq(ListRec)
      BY <1>3
    <2> QED
      BY <2>1, <1>3, ConcatProperties, AppendProperties
  <1>5. req' \in [Requests -> ReqRec]
    <2>1. req \in [Requests -> ReqRec] /\ req[r] \in ReqRec
      BY DEF Types, ReqRec
    <2>2. [req[r] EXCEPT !.pc = "recv", !.turn = n] \in ReqRec
      BY <2>1, <1>2 DEF ReqRec
    <2>3. req' = [req EXCEPT ![r] = [req[r] EXCEPT !.pc = "recv", !.turn = n]]
      BY <2>1, <1>1
    <2> QED
      BY <2>1, <2>2, <2>3
  <1> QED
    BY <1>1, <1>4, <1>5, Rigid DEF Types, NoTask, NoId, Waits, ReqRec

\* A result is taken.
LEMMA TypesReceive == ASSUME Types, NEW r \in Requests, Receive(r) PROVE Types'
  <1>1. UNCHANGED <<setup, queue, deferred, unhandled, hand, slot, worker, todo, waiting>>
    BY DEF Receive, taskVars, loopVars
  <1>2. PICK i \in DOMAIN results :
          /\ results' = RemoveAt(results, i)
          /\ LET got == req[r].got \cup IF results[i].error THEN {} ELSE {results[i].id}
             IN  req' = [req EXCEPT ![r].got = got,
                          ![r].pc = IF results[i].error \/ got = Ids(r) THEN "forget" ELSE "recv"]
    BY DEF Receive
  <1> DEFINE got == req[r].got \cup IF results[i].error THEN {} ELSE {results[i].id}
             pc == IF results[i].error \/ got = Ids(r) THEN "forget" ELSE "recv"
  <1>3. results \in Seq(ResultRec) /\ i \in 1 .. Len(results)
    BY LenProperties DEF Types
  <1>4. results' \in Seq(ResultRec) /\ results[i] \in ResultRec
    BY <1>2, <1>3, OccRemoveAt
  <1>5. req \in [Requests -> ReqRec] /\ req[r].got \subseteq AllIds
    BY DEF Types, ReqRec
  <1>6. got \subseteq AllIds /\ pc \in {"forget", "recv"}
    BY <1>4, <1>5 DEF ResultRec
  <1>7. req' = [req EXCEPT ![r].got = got, ![r].pc = pc]
    BY <1>2
  <1> HIDE DEF got, pc
  <1>8. req' \in [Requests -> ReqRec]
    BY <1>5, <1>6, <1>7 DEF ReqRec
  <1> QED
    BY <1>1, <1>4, <1>8, Rigid DEF Types, NoTask, NoId, Waits, ReqRec

\* The cancel tasks of a request, one for each of its ids.
LEMMA CancelList ==
    ASSUME Types, NEW r \in Requests, NEW order \in SetToSeqs(Ids(r))
    PROVE  LET c == [i \in DOMAIN order |-> CancelTask(order[i])]
           IN  c \in Seq({CancelTask(id) : id \in Ids(r)})
  <1>1. IsFiniteSet(Ids(r))
    <2>1. Children[r] \in Nat
      BY Parameters DEF Types
    <2>2. IsFiniteSet(0 .. Children[r])
      BY <2>1, FS_Interval
    <2> DEFINE f == [i \in 0 .. Children[r] |-> <<r, i>>]
    <2>3. f \in Surjection(0 .. Children[r], Ids(r))
      BY DEF Surjection, Ids
    <2> QED
      BY <2>2, <2>3, FS_Surjection
  <1>2. Cardinality(Ids(r)) \in Nat
    BY <1>1, FS_CardinalityType
  <1>3. order \in [1 .. Cardinality(Ids(r)) -> Ids(r)]
    BY DEF SetToSeqs
  <1>4. [i \in DOMAIN order |-> CancelTask(order[i])] \in [1 .. Cardinality(Ids(r)) -> {CancelTask(id) : id \in Ids(r)}]
    BY <1>3
  <1> QED
    BY <1>2, <1>4, FunctionIsSeq

\* A request is cancelled.
LEMMA TypesStopTasks == ASSUME Types, NEW r \in Requests, StopTasks(r) PROVE Types'
  <1>1. PICK order \in SetToSeqs(Ids(r)) :
          queue' = [i \in DOMAIN order |-> CancelTask(order[i])] \o Without(queue, Ids(r))
    BY DEF StopTasks
  <1>2. /\ UNCHANGED <<setup, hand, slot, worker, todo, waiting>>
        /\ results' = Drop(results, [id : Ids(r), error : BOOLEAN])
        /\ deferred' = Without(deferred, Ids(r)) /\ unhandled' = Without(unhandled, Ids(r)) /\ GoTo(r, "done")
    BY DEF StopTasks, loopVars
  <1> DEFINE c == [i \in DOMAIN order |-> CancelTask(order[i])]
  <1>3. c \in Seq(ListRec)
    <2>1. c \in Seq({CancelTask(id) : id \in Ids(r)})
      BY CancelList
    <2>2. {CancelTask(id) : id \in Ids(r)} \subseteq ListRec
      BY Parameters DEF Types, ListRec
    <2> QED
      BY <2>1, <2>2, SeqMonotonic
  <1> HIDE DEF c
  <1>4. queue \in Seq(ListRec) /\ deferred \in Seq(ListRec) /\ unhandled \in Seq(ListRec) /\ results \in Seq(ResultRec)
    BY DEF Types
  <1>5. /\ Without(queue, Ids(r)) \in Seq(ListRec) /\ deferred' \in Seq(ListRec) /\ unhandled' \in Seq(ListRec)
        /\ results' \in Seq(ResultRec)
    BY <1>2, <1>4, DropFacts DEF Without
  <1>6. queue' \in Seq(ListRec)
    BY <1>1, <1>3, <1>5, ConcatProperties DEF c
  <1>7. req' \in [Requests -> ReqRec]
    BY <1>2, GoToFacts
  <1> QED
    BY <1>2, <1>5, <1>6, <1>7, Rigid DEF Types, NoTask, NoId, Waits, ReqRec

\* Every step preserves the kinds.
LEMMA TypesStep == Types /\ [Next]_vars => Types'
  <1> SUFFICES ASSUME Types, [Next]_vars PROVE Types'
    OBVIOUS
  <1>1. CASE UNCHANGED vars \/ Terminate
    <2>1. UNCHANGED <<setup, queue, deferred, unhandled, hand, slot, waiting, results, req, worker, todo>>
      BY <1>1 DEF vars, Terminate, taskVars, loopVars, resultVars
    <2> QED
      BY <2>1, TypesQuiet DEF Types
  <1>2. CASE MainLoop \/ FallAsleep
    BY <1>2, TypesMain, TypesHandles, TypesSlots DEF MainLoop
  <1>3. CASE WorkerThread
    BY <1>3, TypesWorker
  <1>4. ASSUME NEW r \in Requests, Client(r) \/ Leave(r) PROVE Types'
    BY <1>4, TypesArrive, TypesPost, TypesReceive, TypesStopTasks DEF Client
  <1> QED
    BY <1>1, <1>2, <1>3, <1>4 DEF Next

-----------------------------------------------------------------------------
(* Where the NEXT_RESPONSE is that brings the loop back to its slots.      *)
Nexts(q) == Occ(q, {NextResponse})

SchedInv ==
    /\ hand["worker"] # NoTask => worker.pc = "process"
    /\ ~ worker.busy => worker.pc = "off"
    /\ main \notin {"work", "join"} => worker.pc = "off"
    /\ main \in {"work", "join"} => Nexts(queue) > 0 \/ Nexts(unhandled) > 0 \/ hand["worker"] = NextResponse
    /\ main = "slots" => Nexts(queue) > 0
    /\ main = "idle" => Nexts(queue) > 0 \/ BusySlots = {}
    /\ main = "asleep" => BusySlots = {}

\* A NEXT_RESPONSE is appended, or another task.
LEMMA NextsAppend ==
    ASSUME NEW q \in Seq(ListRec), NEW e \in ListRec
    PROVE  Nexts(Append(q, e)) = IF e = NextResponse THEN Nexts(q) + 1 ELSE Nexts(q)
  <1>1. Occ(Append(q, e), {NextResponse}) = Occ(q, {NextResponse}) + (IF e \in {NextResponse} THEN 1 ELSE 0)
    BY OccAppend
  <1>2. Occ(q, {NextResponse}) \in Nat
    BY OccNat
  <1> QED
    BY <1>1, <1>2 DEF Nexts

\* Counting NEXT_RESPONSE in lists that change.
LEMMA NextsFacts ==
    ASSUME NEW q \in Seq(ListRec)
    PROVE  /\ Nexts(q) \in Nat /\ Nexts(<<>>) = 0
           /\ q # <<>> => Nexts(q) = (IF Head(q) = NextResponse THEN 1 ELSE 0) + Nexts(Tail(q))
           /\ \A p \in Seq(ListRec) : Nexts(p \o q) = Nexts(p) + Nexts(q)
           /\ \A ids : Nexts(Without(q, ids)) = Nexts(q)
  <1>1. Nexts(q) \in Nat /\ Nexts(<<>>) = 0
    BY OccNat, OccOne DEF Nexts
  <1>3. q # <<>> => Nexts(q) = (IF Head(q) = NextResponse THEN 1 ELSE 0) + Nexts(Tail(q))
    BY OccTail DEF Nexts
  <1>4. \A p \in Seq(ListRec) : Nexts(p \o q) = Nexts(p) + Nexts(q)
    BY OccConcat DEF Nexts
  <1>5. ASSUME NEW ids PROVE Nexts(Without(q, ids)) = Nexts(q)
    <2>1. {NextResponse} \ {Task(id) : id \in ids} = {NextResponse}
      BY RecFacts
    <2>2. Occ(Drop(q, {Task(id) : id \in ids}), {NextResponse}) = Occ(q, {NextResponse} \ {Task(id) : id \in ids})
      BY DropFacts
    <2> QED
      BY <2>1, <2>2 DEF Nexts, Without
  <1> QED
    BY <1>1, <1>3, <1>4, <1>5

\* The main thread outside post_decode().
LEMMA SchedMain ==
    ASSUME Types, SchedInv,
           \/ MainStops \/ MainTakes \/ MainHandles \/ UpdateIdle \/ UpdateDecode \/ WorkEnds \/ JoinBlocks \/ PutBack
           \/ Updated \/ IdleEnds \/ AwakeAgain \/ SleepOn \/ FallAsleep \/ Terminate
    PROVE  SchedInv'
  <1>0. queue \in Seq(ListRec) /\ unhandled \in Seq(ListRec) /\ NextResponse \in ListRec
    BY DEF Types, ListRec
  <1>1. CASE MainTakes \/ MainHandles
    <2>1. /\ main = "process" /\ main' = "process" /\ worker' = worker /\ hand'["worker"] = hand["worker"]
      BY <1>1 DEF MainTakes, MainHandles, loopVars, Types
    <2> QED
      BY <2>1 DEF SchedInv, NoTask, NoId
  <1>2. CASE MainStops \/ UpdateIdle \/ IdleEnds \/ AwakeAgain
    <2>1. /\ main \in {"process", "idle", "asleep"} /\ main' \in {"stopped", "idle", "process"}
          /\ UNCHANGED <<worker, hand>> /\ (main' = "idle" => BusySlots = {}) /\ UNCHANGED <<slot, setup>>
      BY <1>2 DEF MainStops, UpdateIdle, IdleEnds, AwakeAgain, taskVars
    <2>2. BusySlots' = BusySlots
      BY <2>1, Rigid DEF BusySlots, Busy
    <2> QED
      BY <2>1, <2>2 DEF SchedInv, NoTask, NoId
  <1>3. CASE UpdateDecode
    <2>1. /\ queue' = Append(queue, NextResponse) /\ main' = "work" /\ hand' = hand
          /\ worker' = [pc |-> "process", busy |-> TRUE, yielding |-> TRUE]
      BY <1>3 DEF UpdateDecode
    <2>2. Nexts(queue') > 0
      <3>1. Nexts(Append(queue, NextResponse)) = Nexts(queue) + 1
        BY <1>0, NextsAppend
      <3>2. Nexts(queue) \in Nat
        BY <1>0, NextsFacts
      <3> QED
        BY <2>1, <3>1, <3>2
    <2> QED
      BY <2>1, <2>2 DEF SchedInv, Nexts, NextResponse, NoId
  <1>4. CASE WorkEnds \/ JoinBlocks
    <2>1. /\ main \in {"work", "join"} /\ main' = "join" /\ UNCHANGED <<queue, unhandled, hand>>
          /\ worker'.pc = worker.pc /\ worker'.busy = worker.busy
      BY <1>4 DEF WorkEnds, JoinBlocks, taskVars, loopVars, Types
    <2> QED
      BY <2>1 DEF SchedInv, Nexts, NextResponse, NoTask, NoId
  <1>5. CASE PutBack
    <2>1. /\ main = "join" /\ ~ worker.busy /\ main' = "slots" /\ queue' = unhandled \o queue /\ UNCHANGED <<hand, worker>>
      BY <1>5 DEF PutBack
    <2>2. hand["worker"] = NoTask /\ worker.pc = "off"
      BY <2>1 DEF SchedInv
    <2>3. Nexts(queue) > 0 \/ Nexts(unhandled) > 0
      BY <2>1, <2>2, RecFacts DEF SchedInv
    <2>4. Nexts(unhandled \o queue) > 0
      BY <2>3, <1>0, NextsFacts
    <2> QED
      BY <2>1, <2>2, <2>4 DEF SchedInv, Nexts, NextResponse, NoTask, NoId
  <1>6. CASE Updated
    <2>1. main = "slots" /\ main' = "idle" /\ UNCHANGED <<queue, hand, worker>>
      BY <1>6 DEF Updated, taskVars
    <2> QED
      BY <2>1 DEF SchedInv, Nexts, NextResponse, NoTask, NoId
  <1>7. CASE SleepOn \/ FallAsleep
    <2>1. /\ main \in {"asleep", "idle"} /\ main' = "asleep" /\ UNCHANGED <<queue, hand, worker, slot, setup>>
          /\ main = "idle" => queue = <<>>
      BY <1>7 DEF SleepOn, FallAsleep, taskVars, loopVars
    <2>2. BusySlots = {}
      <3>1. Nexts(<<>>) = 0
        BY <1>0, NextsFacts
      <3>2. main = "idle" => ~ (Nexts(queue) > 0)
        BY <2>1, <3>1
      <3> QED
        BY <2>1, <3>2 DEF SchedInv
    <2>3. BusySlots' = BusySlots
      BY <2>1, Rigid DEF BusySlots, Busy
    <2> QED
      BY <2>1, <2>2, <2>3 DEF SchedInv, Nexts, NextResponse, NoTask, NoId
  <1>8. CASE Terminate
    <2>1. UNCHANGED <<main, queue, unhandled, hand, worker, slot, setup>>
      BY <1>8 DEF Terminate, taskVars
    <2>2. BusySlots' = BusySlots
      BY <2>1, Rigid DEF BusySlots, Busy
    <2> QED
      BY <2>1, <2>2 DEF SchedInv, Nexts, NextResponse, NoTask, NoId
  <1> QED
    BY <1>1, <1>2, <1>3, <1>4, <1>5, <1>6, <1>7, <1>8

\* post_decode() only adds to the queue, and the worker is off.
LEMMA SchedSlots ==
    ASSUME Types, SchedInv, NEW s \in Slots, SlotGenerates(s) \/ SlotWaits(s) \/ SlotFinishes(s) \/ SlotFails(s)
    PROVE  SchedInv'
  <1>1. main = "slots" /\ UNCHANGED <<main, hand, worker>>
    BY DEF SlotGenerates, SlotWaits, SlotFinishes, SlotFails, Visit
  <1>2. queue' = queue \/ PopDeferred(s)
    BY DEF SlotGenerates, SlotWaits, SlotFinishes, SlotFails, Release
  <1>3. Nexts(queue') >= Nexts(queue) /\ Nexts(queue) \in Nat /\ Nexts(queue') \in Nat
    <2>1. queue \in Seq(ListRec) /\ queue' \in Seq(ListRec)
      BY <1>2, PopFacts DEF Types
    <2>2. Occ(queue, {NextResponse}) \in Nat /\ Occ(queue', {NextResponse}) \in Nat
      BY <2>1, OccNat
    <2>3. PopDeferred(s) => Occ(queue, {NextResponse}) <= Occ(queue', {NextResponse})
      BY PopFacts
    <2> QED
      BY <2>2, <2>3, <1>2 DEF Nexts
  <1>4. Occ(queue', {NextResponse}) > 0
    BY <1>1, <1>3 DEF SchedInv, Nexts
  <1> QED
    BY <1>1, <1>4 DEF SchedInv, Nexts, NextResponse, NoTask, NoId

\* The worker takes a NEXT_RESPONSE only to put it aside.
LEMMA SchedWorker == ASSUME Types, SchedInv, WorkerThread PROVE SchedInv'
  <1>0. queue \in Seq(ListRec) /\ unhandled \in Seq(ListRec)
    BY DEF Types
  <1>1. CASE WorkerTakes
    <2>1. /\ worker.pc = "process" /\ hand["worker"] = NoTask /\ queue # <<>> /\ queue' = Tail(queue)
          /\ hand'["worker"] = Head(queue) /\ UNCHANGED <<main, unhandled, worker>>
      BY <1>1 DEF WorkerTakes, loopVars, Types
    <2>2. main \in {"work", "join"}
      BY <2>1 DEF SchedInv
    <2>3. Nexts(queue) > 0 \/ Nexts(unhandled) > 0
      BY <2>1, <2>2, RecFacts DEF SchedInv
    <2>4. Nexts(Tail(queue)) > 0 \/ Nexts(unhandled) > 0 \/ Head(queue) = NextResponse
      <3>1. Nexts(queue) = (IF Head(queue) = NextResponse THEN 1 ELSE 0) + Nexts(Tail(queue))
        BY <2>1, <1>0, NextsFacts
      <3>2. Tail(queue) \in Seq(ListRec)
        BY <2>1, <1>0, HeadTailProperties
      <3>3. Nexts(Tail(queue)) \in Nat
        BY <3>2, NextsFacts
      <3> QED
        BY <2>3, <3>1, <3>3
    <2> QED
      BY <2>1, <2>2, <2>4 DEF SchedInv, Nexts, NextResponse, NoTask, NoId
  <1>2. CASE WorkerHandles
    <2>1. /\ hand["worker"] # NoTask /\ hand'["worker"] = NoTask /\ UNCHANGED <<queue, main, worker>>
          /\ hand["worker"] = NextResponse => unhandled' = Append(unhandled, NextResponse)
          /\ unhandled' = unhandled \/ unhandled' = Append(unhandled, hand["worker"])
      BY <1>2, RecFacts DEF WorkerHandles, Declined, loopVars, Types
    <2>2. main \in {"work", "join"} /\ worker.pc = "process"
      BY <2>1 DEF SchedInv
    <2>3. hand["worker"] \in ListRec
      BY <2>1 DEF Types
    <2>4. Nexts(queue) > 0 \/ Nexts(unhandled') > 0
      <3>1. CASE hand["worker"] = NextResponse
        <4>1. NextResponse \in ListRec
          BY DEF ListRec
        <4>2. Nexts(Append(unhandled, NextResponse)) = Nexts(unhandled) + 1
          BY <4>1, <1>0, NextsAppend
        <4>3. Nexts(unhandled) \in Nat
          BY <1>0, NextsFacts
        <4>4. unhandled' = Append(unhandled, NextResponse)
          BY <3>1, <2>1
        <4>5. Nexts(unhandled') = Nexts(Append(unhandled, NextResponse))
          BY <4>4
        <4> QED
          BY <4>2, <4>3, <4>5
      <3>2. CASE hand["worker"] # NextResponse
        <4>1. Nexts(queue) > 0 \/ Nexts(unhandled) > 0
          BY <3>2, <2>2 DEF SchedInv
        <4>2. Nexts(unhandled') = Nexts(unhandled)
          <5>1. Nexts(Append(unhandled, hand["worker"])) = Nexts(unhandled)
            BY <3>2, <2>3, <1>0, NextsAppend
          <5> QED
            BY <5>1, <2>1
        <4> QED
          BY <4>1, <4>2
      <3> QED
        BY <3>1, <3>2
    <2> QED
      BY <2>1, <2>2, <2>4 DEF SchedInv, Nexts, NextResponse, NoTask, NoId
  <1>3. CASE WorkerDrained \/ WorkerChecks
    <2>1. /\ UNCHANGED <<main, queue, unhandled, hand, slot, setup>>
          /\ \/ worker' = worker
             \/ hand["worker"] = NoTask /\ worker.pc = "process" /\ worker' = [worker EXCEPT !.pc = "drained"]
             \/ worker.pc = "drained" /\ worker' = [worker EXCEPT !.pc = "off", !.busy = FALSE]
             \/ worker.pc = "drained" /\ worker' = [worker EXCEPT !.pc = "process"]
      BY <1>3 DEF WorkerDrained, WorkerChecks, taskVars
    <2>2. BusySlots' = BusySlots
      BY <2>1, Rigid DEF BusySlots, Busy
    <2>3. worker \in [pc : {"off", "process", "drained"}, busy : BOOLEAN, yielding : BOOLEAN]
      BY DEF Types
    <2>4. /\ worker'.busy = worker.busy \/ worker'.pc = "off"
          /\ worker.pc = "off" => worker' = worker
          /\ hand["worker"] # NoTask => worker'.pc = "process"
      BY <2>1, <2>3 DEF SchedInv
    <2>5. worker.pc = "off" \/ worker.busy
      BY <2>3 DEF SchedInv
    <2> QED
      BY <2>1, <2>2, <2>4, <2>5 DEF SchedInv, Nexts, NextResponse, NoTask, NoId
  <1> QED
    BY <1>1, <1>2, <1>3 DEF WorkerThread

\* Requests leave every NEXT_RESPONSE where it is.
LEMMA SchedClient == ASSUME Types, SchedInv, NEW r \in Requests, Client(r) \/ Leave(r) PROVE SchedInv'
  <1>0. queue \in Seq(ListRec) /\ unhandled \in Seq(ListRec)
    BY DEF Types
  <1>1. UNCHANGED <<main, hand, worker, slot, setup>>
    BY DEF Client, Leave, Arrive, NoSleep, Register, Post, Receive, Forget, StopTasks, loopVars, taskVars
  <1>2. Nexts(queue)' = Nexts(queue) /\ Nexts(unhandled)' = Nexts(unhandled)
    <2>1. CASE Arrive(r) \/ NoSleep(r) \/ Register(r) \/ Receive(r) \/ Forget(r) \/ Leave(r)
      <3>1. UNCHANGED <<queue, unhandled>>
        BY <2>1 DEF Leave, Arrive, NoSleep, Register, Receive, Forget, taskVars
      <3> QED
        BY <3>1 DEF Nexts, NextResponse, NoId
    <2>2. CASE Post(r)
      <3> DEFINE t == Task(<<r, 0>>)
      <3>1. unhandled' = unhandled /\ (queue' = <<t>> \o queue \/ queue' = Append(queue, t))
        BY <2>2 DEF Post
      <3>2. t \in ListRec /\ t # NextResponse
        BY RecFacts DEF ListRec
      <3> HIDE DEF t
      <3>3. <<t>> \in Seq(ListRec) /\ <<>> \in Seq(ListRec) /\ Nexts(<<t>>) = 0
        BY <3>2, OccOne DEF Nexts
      <3>4. Nexts(queue') = Nexts(queue)
        <4>1. Nexts(<<t>> \o queue) = Nexts(<<t>>) + Nexts(queue) /\ Nexts(queue) \in Nat
          BY <3>3, <1>0, NextsFacts
        <4>2. Nexts(Append(queue, t)) = Nexts(queue)
          BY <3>2, <1>0, NextsAppend
        <4>3. CASE queue' = <<t>> \o queue
          <5>1. Nexts(queue') = Nexts(<<t>> \o queue)
            BY <4>3
          <5> QED
            BY <5>1, <4>1, <3>3
        <4>4. CASE queue' = Append(queue, t)
          <5>1. Nexts(queue') = Nexts(Append(queue, t))
            BY <4>4
          <5> QED
            BY <5>1, <4>2
        <4> QED
          BY <4>3, <4>4, <3>1
      <3> QED
        BY <3>1, <3>4 DEF Nexts, NextResponse, NoId
    <2>3. CASE StopTasks(r)
      <3>1. PICK order \in SetToSeqs(Ids(r)) :
              queue' = [i \in DOMAIN order |-> CancelTask(order[i])] \o Without(queue, Ids(r))
        BY <2>3 DEF StopTasks
      <3> DEFINE c == [i \in DOMAIN order |-> CancelTask(order[i])]
      <3>2. c \in Seq({CancelTask(id) : id \in Ids(r)})
        BY CancelList
      <3>3. {CancelTask(id) : id \in Ids(r)} \subseteq ListRec /\ NextResponse \notin {CancelTask(id) : id \in Ids(r)}
        BY Parameters, RecFacts DEF Types, ListRec
      <3> HIDE DEF c
      <3>4. c \in Seq(ListRec) /\ \A i \in DOMAIN c : c[i] # NextResponse
        BY <3>2, <3>3, SeqMonotonic, LenProperties, ElementOfSeq
      <3>5. Nexts(c) = 0
        BY <3>4, OccNat DEF Nexts
      <3>6. Without(queue, Ids(r)) \in Seq(ListRec)
        BY <1>0, DropFacts DEF Without
      <3>7. Nexts(queue') = Nexts(queue)
        <4>1. Nexts(c \o Without(queue, Ids(r))) = Nexts(c) + Nexts(Without(queue, Ids(r)))
          BY <3>4, <3>6, NextsFacts
        <4>2. Nexts(Without(queue, Ids(r))) = Nexts(queue) /\ Nexts(queue) \in Nat
          BY <1>0, NextsFacts
        <4> QED
          BY <4>1, <4>2, <3>1, <3>5 DEF c
      <3>8. Nexts(unhandled') = Nexts(unhandled)
        BY <2>3, <1>0, NextsFacts DEF StopTasks
      <3> QED
        BY <3>7, <3>8 DEF Nexts, NextResponse, NoId
    <2> QED
      BY <2>1, <2>2, <2>3 DEF Client
  <1>3. BusySlots' = BusySlots
    BY <1>1, Rigid DEF BusySlots, Busy
  <1> QED
    BY <1>1, <1>2, <1>3 DEF SchedInv, NextResponse, NoTask, NoId

\* Nothing runs yet.
LEMMA SchedInit == Init => SchedInv
  BY DEF Init, SchedInv

\* Every step keeps the loop's schedule.
LEMMA SchedStep == Types /\ SchedInv /\ [Next]_vars => SchedInv'
  <1> SUFFICES ASSUME Types, SchedInv, [Next]_vars PROVE SchedInv'
    OBVIOUS
  <1>1. CASE UNCHANGED vars
    <2>1. UNCHANGED <<main, queue, unhandled, hand, worker, slot, setup>>
      BY <1>1 DEF vars, taskVars, loopVars
    <2>2. BusySlots' = BusySlots
      BY <2>1, Rigid DEF BusySlots, Busy
    <2> QED
      BY <2>1, <2>2 DEF SchedInv, Nexts, NextResponse, NoTask, NoId
  <1>2. CASE Next
    BY <1>2, SchedMain, SchedSlots, SchedWorker, SchedClient DEF Next, MainLoop
  <1> QED
    BY <1>1, <1>2

(* The main thread neither waits nor sleeps while a slot works, unless a   *)
(* NEXT_RESPONSE is in its queue (update_slots, yield_to_queue).           *)
THEOREM SlotsAreVisited == Spec => []BusyMeansScheduled
  <1>1. Types /\ SchedInv => BusyMeansScheduled
    <2> SUFFICES ASSUME Types, SchedInv PROVE BusyMeansScheduled
      OBVIOUS
    <2>1. Occ(queue, {NextResponse}) > 0 => \E i \in DOMAIN queue : queue[i] = NextResponse
      <3>1. queue \in Seq(ListRec)
        BY DEF Types
      <3>2. Occ(queue, {NextResponse}) \in Nat
            /\ (Occ(queue, {NextResponse}) = 0 <=> \A i \in DOMAIN queue : queue[i] \notin {NextResponse})
        BY <3>1, OccNat
      <3> QED
        BY <3>2
    <2> QED
      BY <2>1 DEF SchedInv, BusyMeansScheduled, Nexts
  <1> QED
    BY <1>1, SchedInit, SchedStep, TypesInit, TypesStep, PTL DEF Spec

-----------------------------------------------------------------------------
(* Where a request's task is, and its answers.  Lined counts a set of      *)
(* tasks in the lists and in the threads' hands.                           *)
InHand(t, X) == IF hand[t] \in X THEN 1 ELSE 0
Listed(X) == Occ(queue, X) + Occ(deferred, X) + Occ(unhandled, X)
Lined(X) == Listed(X) + InHand("main", X) + InHand("worker", X)
Own(id) == Cardinality({s \in Slots : slot[s].id = id})
Answers(ids) == [id : ids, error : BOOLEAN]
Errors(ids) == [id : ids, error : {TRUE}]
Got(r, id) == IF id \in req[r].got THEN 1 ELSE 0
Work(r, id) == Lined({Task(<<r, 0>>)}) + Own(id)
Share(r, id) == Work(r, id) + Occ(results, Answers({id})) + Got(r, id)

(* A child stands in line with its parent, so each id of a request has its *)
(* share in what the request is: nothing before it is posted, one place or *)
(* answer while the client waits (or an error is under way), and at most   *)
(* that once the client is gone.                                           *)
AccInv(r) ==
    /\ \A id \in Ids(r) : Share(r, id) <= 1
    /\ req[r].pc \in Waits => \A id \in Ids(r) : Share(r, id) = 0
    /\ req[r].pc \in {"post", "recv"} => Ids(r) \subseteq waiting
    /\ req[r].pc = "recv" => Occ(results, Errors(Ids(r))) > 0 \/ \A id \in Ids(r) : Share(r, id) = 1

(* Only a reader that is done has cancelled its tasks.                     *)
CancelInv == \A id \in AllIds : Lined({CancelTask(id)}) > 0 => req[id[1]].pc = "done"

(* Each result has a reader.                                               *)
OrphanInv ==
    \A id \in AllIds : Occ(results, Answers({id})) > 0 => id \in waiting \/ req[id[1]].pc = "cancel"

AccountInv == (\A r \in Requests : AccInv(r)) /\ CancelInv /\ OrphanInv

(* The counts are numbers.                                                 *)
Counts ==
    /\ \A X : /\ Occ(queue, X) \in Nat /\ Occ(deferred, X) \in Nat /\ Occ(unhandled, X) \in Nat
             /\ Occ(results, X) \in Nat /\ InHand("main", X) \in {0, 1} /\ InHand("worker", X) \in {0, 1}
             /\ Listed(X) \in Nat /\ Lined(X) \in Nat
    /\ \A id : Own(id) \in Nat
    /\ \A r, id : Work(r, id) \in Nat /\ Got(r, id) \in {0, 1} /\ Share(r, id) \in Nat

\* The lists and the set of slots are finite.
LEMMA CountTypes == Types => Counts
  <1> SUFFICES ASSUME Types PROVE Counts
    OBVIOUS
  <1>1. ASSUME NEW X
        PROVE  /\ Occ(queue, X) \in Nat /\ Occ(deferred, X) \in Nat /\ Occ(unhandled, X) \in Nat
               /\ Occ(results, X) \in Nat /\ InHand("main", X) \in {0, 1} /\ InHand("worker", X) \in {0, 1}
               /\ Listed(X) \in Nat /\ Lined(X) \in Nat
    <2>1. Occ(queue, X) \in Nat
      BY OccNat DEF Types
    <2>2. Occ(deferred, X) \in Nat
      BY OccNat DEF Types
    <2>3. Occ(unhandled, X) \in Nat
      BY OccNat DEF Types
    <2>4. Occ(results, X) \in Nat
      BY OccNat DEF Types
    <2>5. InHand("main", X) \in {0, 1} /\ InHand("worker", X) \in {0, 1}
      BY DEF InHand
    <2> QED
      BY <2>1, <2>2, <2>3, <2>4, <2>5 DEF Lined, Listed
  <1>2. ASSUME NEW id PROVE Own(id) \in Nat
    <2>1. IsFiniteSet({s \in Slots : slot[s].id = id})
      BY Parameters, FS_Subset DEF Types
    <2> QED
      BY <2>1, FS_CardinalityType DEF Own
  <1>3. ASSUME NEW r, NEW id PROVE Work(r, id) \in Nat /\ Got(r, id) \in {0, 1} /\ Share(r, id) \in Nat
    <2>1. Work(r, id) \in Nat
      <3>1. Lined({Task(<<r, 0>>)}) \in Nat /\ Own(id) \in Nat
        BY <1>1, <1>2
      <3> QED
        BY <3>1 DEF Work
    <2>2. Got(r, id) \in {0, 1}
      BY DEF Got
    <2>3. Occ(results, Answers({id})) \in Nat
      BY <1>1
    <2> QED
      BY <2>1, <2>2, <2>3 DEF Share
  <1> QED
    BY <1>1, <1>2, <1>3 DEF Counts

\* The counts after a step.
LEMMA CountTypesPrimed == Types' => Counts'
  BY CountTypes, PTL

\* The primed invariant of a request, with the parameters as they were.
LEMMA AccPrimed ==
    ASSUME Types, setup' = setup, NEW r \in Requests,
           \A id \in Ids(r) : Share(r, id)' <= 1,
           req'[r].pc \in Waits => \A id \in Ids(r) : Share(r, id)' = 0,
           req'[r].pc \in {"post", "recv"} => Ids(r) \subseteq waiting',
           req'[r].pc = "recv" => Occ(results', Errors(Ids(r))) > 0 \/ \A id \in Ids(r) : Share(r, id)' = 1
    PROVE  AccInv(r)'
  <1>1. Ids(r)' = Ids(r)
    BY Rigid
  <1> QED
    BY <1>1 DEF AccInv, Waits

\* A request whose thread does nothing and whose share is not touched, unless an error comes.
LEMMA AccKeep ==
    ASSUME Types, Types', setup' = setup, NEW r \in Requests, AccInv(r), req'[r].pc = req[r].pc,
           Ids(r) \cap waiting \subseteq waiting',
           \A id \in Ids(r) : Share(r, id)' <= Share(r, id),
           req[r].pc = "recv" => \/ Occ(results', Errors(Ids(r))) > 0
                               \/ /\ Occ(results, Errors(Ids(r))) = 0
                                  /\ \A id \in Ids(r) : Share(r, id)' = Share(r, id)
    PROVE  AccInv(r)'
  <1>1. ASSUME NEW id \in Ids(r) PROVE Share(r, id) \in Nat /\ Share(r, id)' \in Nat /\ Share(r, id)' <= Share(r, id)
    <2>1. Share(r, id) \in Nat
      BY CountTypes DEF Counts
    <2>2. Share(r, id)' \in Nat
      BY CountTypesPrimed DEF Counts
    <2> QED
      BY <2>1, <2>2
  <1>2. \A id \in Ids(r) : Share(r, id)' <= 1
    BY <1>1 DEF AccInv
  <1>3. req'[r].pc \in Waits => \A id \in Ids(r) : Share(r, id)' = 0
    BY <1>1 DEF AccInv
  <1>4. req'[r].pc \in {"post", "recv"} => Ids(r) \subseteq waiting'
    BY DEF AccInv
  <1>5. req'[r].pc = "recv" => Occ(results', Errors(Ids(r))) > 0 \/ \A id \in Ids(r) : Share(r, id)' = 1
    BY DEF AccInv
  <1> QED
    BY <1>2, <1>3, <1>4, <1>5, AccPrimed

\* Cancel tasks only leave, and who is done stays done.
LEMMA CancelKeep ==
    ASSUME Types, Types', setup' = setup, CancelInv,
           \A r \in Requests : req[r].pc = "done" => req'[r].pc = "done",
           \A id \in AllIds : Lined({CancelTask(id)})' <= Lined({CancelTask(id)})
    PROVE  CancelInv'
  <1>1. AllIds' = AllIds
    BY Rigid
  <1>2. ASSUME NEW id \in AllIds, Lined({CancelTask(id)})' > 0 PROVE req'[id[1]].pc = "done"
    <2>1. Lined({CancelTask(id)}) \in Nat /\ Lined({CancelTask(id)})' \in Nat
      <3>1. Lined({CancelTask(id)}) \in Nat
        BY CountTypes DEF Counts
      <3>2. \A X : Lined(X)' \in Nat
        BY CountTypesPrimed DEF Counts
      <3>3. Lined({CancelTask(id)})' \in Nat
        BY <3>2 DEF Lined, Listed, InHand, CancelTask
      <3> QED
        BY <3>1, <3>3
    <2>2. Lined({CancelTask(id)}) > 0
      BY <1>2, <2>1
    <2>3. req[id[1]].pc = "done" /\ id[1] \in Requests
      BY <2>2, IdFacts DEF CancelInv, Types
    <2> QED
      BY <2>3
  <1> QED
    BY <1>1, <1>2 DEF CancelInv

\* Tasks move from list to list and from a list to a slot, or leave when nobody waits for them.
LEMMA AccountShrinks ==
    ASSUME Types, Types', AccountInv, UNCHANGED <<setup, waiting, req, results>>,
           \A q \in Requests : \A id \in Ids(q) : Work(q, id)' <= Work(q, id),
           \A q \in Requests : req[q].pc = "recv" => \A id \in Ids(q) : Work(q, id)' = Work(q, id),
           \A id \in AllIds : Lined({CancelTask(id)})' <= Lined({CancelTask(id)})
    PROVE  AccountInv'
  <1>1. ASSUME NEW q \in Requests PROVE AccInv(q)'
    <2>1. ASSUME NEW id \in Ids(q)
          PROVE  /\ Share(q, id)' <= Share(q, id)
                 /\ Work(q, id)' = Work(q, id) => Share(q, id)' = Share(q, id)
      <3>1. Got(q, id)' = Got(q, id)
        BY DEF Got
      <3>2. Occ(results, Answers({id}))' = Occ(results, Answers({id}))
        BY DEF Answers
      <3>3. Work(q, id) \in Nat /\ Got(q, id) \in {0, 1} /\ Occ(results, Answers({id})) \in Nat
        BY CountTypes DEF Counts
      <3>4. Work(q, id)' \in Nat
        BY CountTypesPrimed DEF Counts
      <3>5. Share(q, id) = Work(q, id) + Occ(results, Answers({id})) + Got(q, id)
        BY DEF Share
      <3>6. Share(q, id)' = Work(q, id)' + Occ(results, Answers({id}))' + Got(q, id)'
        BY DEF Share
      <3>7. Work(q, id)' <= Work(q, id)
        OBVIOUS
      <3> HIDE DEF Share, Work, Got, Occ, Answers
      <3> QED
        BY <3>1, <3>2, <3>3, <3>4, <3>5, <3>6, <3>7
    <2>2. Occ(results', Errors(Ids(q))) = Occ(results, Errors(Ids(q))) /\ Occ(results, Errors(Ids(q))) \in Nat
      BY CountTypes DEF Counts
    <2>3. req[q].pc = "recv" => \/ Occ(results', Errors(Ids(q))) > 0
                              \/ /\ Occ(results, Errors(Ids(q))) = 0
                                 /\ \A id \in Ids(q) : Share(q, id)' = Share(q, id)
      BY <2>1, <2>2
    <2>4. AccInv(q)
      BY DEF AccountInv
    <2> QED
      BY <2>1, <2>3, <2>4, AccKeep
  <1>2. CancelInv'
    BY CancelKeep DEF AccountInv
  <1>3. OrphanInv'
    <2>1. AllIds' = AllIds
      BY Rigid
    <2> QED
      BY <2>1 DEF AccountInv, OrphanInv, Answers
  <1> QED
    BY <1>1, <1>2, <1>3 DEF AccountInv

\* The place of a task becomes its result, for whoever waits.
LEMMA AccountSends ==
    ASSUME Types, Types', AccountInv, UNCHANGED <<setup, waiting, req>>,
           NEW r \in Requests, NEW a \in Ids(r), NEW error \in BOOLEAN, Send(a, error),
           \A q \in Requests \ {r} : \A id \in Ids(q) : Work(q, id)' = Work(q, id),
           \A id \in Ids(r) : Work(r, id)' + (IF id = a THEN 1 ELSE 0) <= Work(r, id),
           ~ error => \A id \in Ids(r) : Work(r, id)' + (IF id = a THEN 1 ELSE 0) = Work(r, id),
           \A id \in AllIds : Lined({CancelTask(id)})' <= Lined({CancelTask(id)})
    PROVE  AccountInv'
  <1> DEFINE e == [id |-> a, error |-> error]
  <1>0. a \in AllIds /\ a[1] = r
    BY IdFacts, Parameters DEF Types
  <1>1. ASSUME NEW X
        PROVE  /\ Occ(results', X) = Occ(results, X) + (IF a \in waiting /\ e \in X THEN 1 ELSE 0)
               /\ Occ(results, X) \in Nat /\ Occ(results', X) \in Nat
    <2>1. Occ(results, X) \in Nat
      BY CountTypes DEF Counts
    <2>2. CASE a \in waiting
      <3>1. Occ(results', X) = Occ(results, X) + (IF e \in X THEN 1 ELSE 0)
        BY <2>2, SendFacts
      <3> QED
        BY <2>1, <2>2, <3>1
    <2>3. CASE a \notin waiting
      <3>1. results' = results
        BY <2>3, SendFacts
      <3> QED
        BY <2>1, <2>3, <3>1
    <2> QED
      BY <2>2, <2>3
  <1>2. \A id : e \in Answers({id}) <=> a = id
    BY DEF Answers
  <1>3. \A q \in Requests : e \in Errors(Ids(q)) <=> q = r /\ error
    BY <1>0, IdFacts DEF Errors, Types
  <1> HIDE DEF e
  <1>4. ASSUME NEW q \in Requests, NEW id \in Ids(q)
        PROVE  /\ Share(q, id)' = Work(q, id)' + Occ(results', Answers({id})) + Got(q, id)
               /\ Share(q, id) = Work(q, id) + Occ(results, Answers({id})) + Got(q, id)
               /\ Occ(results', Answers({id})) = Occ(results, Answers({id})) + (IF a \in waiting /\ a = id THEN 1 ELSE 0)
               /\ Work(q, id) \in Nat /\ Work(q, id)' \in Nat /\ Occ(results, Answers({id})) \in Nat /\ Got(q, id) \in {0, 1}
    <2>1. Got(q, id)' = Got(q, id)
      BY DEF Got
    <2>2. Occ(results, Answers({id}))' = Occ(results', Answers({id}))
      BY DEF Answers
    <2>3. Share(q, id)' = Work(q, id)' + Occ(results, Answers({id}))' + Got(q, id)'
      BY DEF Share
    <2>4. Work(q, id) \in Nat /\ Got(q, id) \in {0, 1}
      BY CountTypes DEF Counts
    <2>5. Work(q, id)' \in Nat
      BY CountTypesPrimed DEF Counts
    <2>6. Share(q, id) = Work(q, id) + Occ(results, Answers({id})) + Got(q, id)
      BY DEF Share
    <2>7. /\ Occ(results', Answers({id})) = Occ(results, Answers({id})) + (IF a \in waiting /\ a = id THEN 1 ELSE 0)
          /\ Occ(results, Answers({id})) \in Nat
      BY <1>1, <1>2
    <2> QED
      BY <2>1, <2>2, <2>3, <2>4, <2>5, <2>6, <2>7
  <1>5. ASSUME NEW q \in Requests \ {r} PROVE AccInv(q)'
    <2>1. ASSUME NEW id \in Ids(q) PROVE Share(q, id)' = Share(q, id) /\ Share(q, id) \in Nat
      <3>1. a # id
        BY <1>0, IdFacts DEF Types
      <3>2. Work(q, id)' = Work(q, id)
        OBVIOUS
      <3>3. /\ Share(q, id)' = Work(q, id)' + Occ(results', Answers({id})) + Got(q, id)
            /\ Share(q, id) = Work(q, id) + Occ(results, Answers({id})) + Got(q, id)
            /\ Occ(results', Answers({id})) = Occ(results, Answers({id})) + (IF a \in waiting /\ a = id THEN 1 ELSE 0)
            /\ Work(q, id) \in Nat /\ Work(q, id)' \in Nat /\ Occ(results, Answers({id})) \in Nat /\ Got(q, id) \in {0, 1}
        BY <1>4
      <3> QED
        BY <3>1, <3>2, <3>3
    <2>2. Occ(results', Errors(Ids(q))) = Occ(results, Errors(Ids(q))) /\ Occ(results, Errors(Ids(q))) \in Nat
      BY <1>1, <1>3
    <2>3. AccInv(q)
      BY DEF AccountInv
    <2>4. \A id \in Ids(q) : Share(q, id)' <= Share(q, id)
      BY <2>1
    <2>5. req[q].pc = "recv" => \/ Occ(results', Errors(Ids(q))) > 0
                              \/ /\ Occ(results, Errors(Ids(q))) = 0
                                 /\ \A id \in Ids(q) : Share(q, id)' = Share(q, id)
      BY <2>1, <2>2
    <2> QED
      BY <2>3, <2>4, <2>5, AccKeep
  <1>6. AccInv(r)'
    <2>1. AccInv(r)
      BY DEF AccountInv
    <2>2. ASSUME NEW id \in Ids(r)
          PROVE  /\ Share(r, id)' <= Share(r, id)
                 /\ ~ error /\ a \in waiting => Share(r, id)' = Share(r, id)
      <3>1. /\ Work(r, id)' + (IF id = a THEN 1 ELSE 0) <= Work(r, id)
            /\ ~ error => Work(r, id)' + (IF id = a THEN 1 ELSE 0) = Work(r, id)
        OBVIOUS
      <3>3. /\ Share(r, id)' = Work(r, id)' + Occ(results', Answers({id})) + Got(r, id)
            /\ Share(r, id) = Work(r, id) + Occ(results, Answers({id})) + Got(r, id)
            /\ Occ(results', Answers({id})) = Occ(results, Answers({id})) + (IF a \in waiting /\ a = id THEN 1 ELSE 0)
            /\ Work(r, id) \in Nat /\ Work(r, id)' \in Nat /\ Occ(results, Answers({id})) \in Nat /\ Got(r, id) \in {0, 1}
        BY <1>4
      <3> QED
        BY <3>1, <3>3
    <2>3. /\ Occ(results', Errors(Ids(r))) = Occ(results, Errors(Ids(r))) + (IF a \in waiting /\ error THEN 1 ELSE 0)
          /\ Occ(results, Errors(Ids(r))) \in Nat
      BY <1>1, <1>3
    <2>4. req[r].pc = "recv" => a \in waiting
      BY <2>1 DEF AccInv
    <2>5. req[r].pc = "recv" => \/ Occ(results', Errors(Ids(r))) > 0
                              \/ /\ Occ(results, Errors(Ids(r))) = 0
                                 /\ \A id \in Ids(r) : Share(r, id)' = Share(r, id)
      BY <2>2, <2>3, <2>4
    <2> QED
      BY <2>1, <2>2, <2>5, AccKeep
  <1>7. CancelInv'
    BY CancelKeep DEF AccountInv
  <1>8. OrphanInv'
    <2>1. AllIds' = AllIds
      BY Rigid
    <2>2. ASSUME NEW id \in AllIds, Occ(results', Answers({id})) > 0 PROVE id \in waiting \/ req[id[1]].pc = "cancel"
      <3>1. CASE a \in waiting /\ a = id
        BY <3>1
      <3>2. CASE ~ (a \in waiting /\ a = id)
        <4>1. /\ Occ(results', Answers({id})) = Occ(results, Answers({id})) + (IF a \in waiting /\ e \in Answers({id}) THEN 1 ELSE 0)
              /\ Occ(results, Answers({id})) \in Nat
          BY <1>1
        <4>2. ~ (a \in waiting /\ e \in Answers({id}))
          BY <3>2, <1>2
        <4>3. Occ(results', Answers({id})) = Occ(results, Answers({id}))
          BY <4>1, <4>2
        <4> QED
          BY <4>3, <2>2 DEF AccountInv, OrphanInv
      <3> QED
        BY <3>1, <3>2
    <2> QED
      BY <2>1, <2>2 DEF OrphanInv, Answers
  <1> QED
    BY <1>5, <1>6, <1>7, <1>8 DEF AccountInv

\* The slots' ids stay.
LEMMA OwnSame ==
    ASSUME setup' = setup, \A s \in Slots : slot'[s].id = slot[s].id
    PROVE  \A id : Own(id)' = Own(id)
  <1>1. Slots' = Slots
    BY Rigid
  <1>2. ASSUME NEW id PROVE {s \in Slots : slot'[s].id = id} = {s \in Slots : slot[s].id = id}
    OBVIOUS
  <1> QED
    BY <1>1, <1>2 DEF Own

\* A slot is freed.
LEMMA OwnFreed ==
    ASSUME Types, setup' = setup, NEW s \in Slots, slot' = [slot EXCEPT ![s] = Free], NEW id \in AllIds
    PROVE  Own(id) = Own(id)' + (IF slot[s].id = id THEN 1 ELSE 0) /\ Own(id)' \in Nat
  <1> DEFINE A == {t \in Slots : slot[t].id = id}
             B == {t \in Slots : slot'[t].id = id}
  <1>1. Slots' = Slots /\ Free.id = NoId /\ id # NoId /\ IsFiniteSet(A)
    BY Rigid, IdFacts, Parameters, FS_Subset DEF Free, Types
  <1>2. B = A \ {s}
    BY <1>1 DEF Types
  <1>3. Own(id) = Cardinality(A) /\ Own(id)' = Cardinality(B)
    BY <1>1 DEF Own
  <1>4. s \in A <=> slot[s].id = id
    OBVIOUS
  <1> HIDE DEF A, B
  <1>5. Cardinality(A) \in Nat /\ IsFiniteSet(A \ {s}) /\ Cardinality(A \ {s}) \in Nat
    BY <1>1, FS_RemoveElement, FS_CardinalityType
  <1>6. Cardinality(A \ {s}) = IF s \in A THEN Cardinality(A) - 1 ELSE Cardinality(A)
    BY <1>1, FS_RemoveElement
  <1> QED
    BY <1>2, <1>3, <1>4, <1>5, <1>6

\* A thread takes the first task of the queue in its hand.
LEMMA TakeLined ==
    ASSUME Types, NEW t \in {"main", "worker"}, hand[t] = NoTask, queue # <<>>,
           hand' = [hand EXCEPT ![t] = Head(queue)], queue' = Tail(queue), UNCHANGED <<deferred, unhandled>>,
           NEW X, NoTask \notin X
    PROVE  Lined(X)' = Lined(X)
  <1>1. /\ Occ(queue, X) = (IF Head(queue) \in X THEN 1 ELSE 0) + Occ(Tail(queue), X)
        /\ Tail(queue) \in Seq(ListRec)
    BY OccTail DEF Types
  <1>2. Occ(Tail(queue), X) \in Nat
    BY <1>1, OccNat
  <1>3. Occ(deferred, X) \in Nat /\ Occ(unhandled, X) \in Nat /\ InHand("main", X) \in {0, 1} /\ InHand("worker", X) \in {0, 1}
    BY CountTypes DEF Counts
  <1>4. Listed(X) = (IF Head(queue) \in X THEN 1 ELSE 0) + Listed(X)' /\ Listed(X)' \in Nat
    <2>1. Listed(X)' = Occ(Tail(queue), X) + Occ(deferred, X) + Occ(unhandled, X)
      BY DEF Listed
    <2> QED
      BY <2>1, <1>1, <1>2, <1>3 DEF Listed
  <1>5. InHand("main", X)' + InHand("worker", X)' = InHand("main", X) + InHand("worker", X) + (IF Head(queue) \in X THEN 1 ELSE 0)
    <2>1. CASE t = "main"
      BY <2>1 DEF InHand, Types
    <2>2. CASE t = "worker"
      BY <2>2 DEF InHand, Types
    <2> QED
      BY <2>1, <2>2
  <1>6. InHand("main", X)' \in {0, 1} /\ InHand("worker", X)' \in {0, 1}
    BY DEF InHand
  <1>7. Lined(X)' = Listed(X)' + InHand("main", X)' + InHand("worker", X)'
    BY DEF Lined
  <1>8. Lined(X) = Listed(X) + InHand("main", X) + InHand("worker", X)
    BY DEF Lined
  <1> QED
    BY <1>3, <1>4, <1>5, <1>6, <1>7, <1>8

\* A thread has handled the task in its hand.
LEMMA ClearLined ==
    ASSUME Types, Types', NEW t \in {"main", "worker"}, hand' = [hand EXCEPT ![t] = NoTask],
           NEW X, NoTask \notin X, NEW d \in {0, 1}, Listed(X)' = Listed(X) + d
    PROVE  Lined(X)' = Lined(X) + d - InHand(t, X)
  <1>1. Listed(X) \in Nat /\ InHand("main", X) \in {0, 1} /\ InHand("worker", X) \in {0, 1}
    BY CountTypes DEF Counts
  <1>2. InHand("main", X)' + InHand("worker", X)' = InHand("main", X) + InHand("worker", X) - InHand(t, X)
    <2>1. CASE t = "main"
      BY <2>1 DEF InHand, Types
    <2>2. CASE t = "worker"
      BY <2>2 DEF InHand, Types
    <2> QED
      BY <2>1, <2>2
  <1>3. InHand("main", X)' \in {0, 1} /\ InHand("worker", X)' \in {0, 1} /\ InHand(t, X) \in {0, 1}
    BY DEF InHand
  <1>4. Lined(X)' = Listed(X)' + InHand("main", X)' + InHand("worker", X)'
    BY DEF Lined
  <1>5. Lined(X) = Listed(X) + InHand("main", X) + InHand("worker", X)
    BY DEF Lined
  <1> QED
    BY <1>1, <1>2, <1>3, <1>4, <1>5

\* What a line of tasks means for the work on each of them.
LEMMA WorkPrimed ==
    ASSUME NEW q, NEW id
    PROVE  Work(q, id)' = Lined({Task(<<q, 0>>)})' + Own(id)' /\ Work(q, id) = Lined({Task(<<q, 0>>)}) + Own(id)
  BY DEF Work

\* Tasks go from list to list, none is lost.
LEMMA AccountMoves ==
    ASSUME Types, Types', AccountInv, UNCHANGED <<setup, waiting, req, results>>,
           \A s \in Slots : slot'[s].id = slot[s].id,
           \A X : NoTask \notin X /\ NextResponse \notin X => Lined(X)' = Lined(X)
    PROVE  AccountInv'
  <1>1. \A id : Own(id)' = Own(id)
    BY OwnSame
  <1>2. ASSUME NEW a PROVE Lined({Task(a)})' = Lined({Task(a)}) /\ Lined({CancelTask(a)})' = Lined({CancelTask(a)})
    <2>1. NoTask \notin {Task(a)} /\ NextResponse \notin {Task(a)} /\ NoTask \notin {CancelTask(a)} /\ NextResponse \notin {CancelTask(a)}
      BY RecFacts
    <2>2. PICK X, Y : X = {Task(a)} /\ Y = {CancelTask(a)}
      OBVIOUS
    <2>3. Lined(X)' = Lined(X) /\ Lined(Y)' = Lined(Y)
      BY <2>1, <2>2
    <2> QED
      BY <2>2, <2>3 DEF Lined, Listed, InHand, Task, CancelTask
  <1>3. ASSUME NEW q \in Requests, NEW id \in Ids(q) PROVE Work(q, id)' = Work(q, id) /\ Work(q, id) \in Nat
    <2>1. Lined({Task(<<q, 0>>)})' = Lined({Task(<<q, 0>>)})
      BY <1>2
    <2>2. Work(q, id) \in Nat
      BY CountTypes DEF Counts
    <2> QED
      BY <2>1, <2>2, <1>1, WorkPrimed
  <1>4. ASSUME NEW id \in AllIds PROVE Lined({CancelTask(id)})' <= Lined({CancelTask(id)})
    <2>1. Lined({CancelTask(id)}) \in Nat
      BY CountTypes DEF Counts
    <2>2. Lined({CancelTask(id)})' = Lined({CancelTask(id)})
      BY <1>2
    <2> QED
      BY <2>1, <2>2
  <1>5. \A q \in Requests : \A id \in Ids(q) : Work(q, id)' <= Work(q, id) /\ Work(q, id)' = Work(q, id)
    BY <1>3
  <1> QED
    BY <1>4, <1>5, AccountShrinks

\* The free slots are numbered from 1 on, each with a number of its own.
LEMMA RankFacts ==
    ASSUME NEW F, F \subseteq Nat, IsFiniteSet(F)
    PROVE  /\ \A s \in F : Rank(s, F) \in 1 .. Cardinality(F)
           /\ \A s, t \in F : Rank(s, F) = Rank(t, F) => s = t
           /\ \A k \in 1 .. Cardinality(F) : \E s \in F : Rank(s, F) = k
  <1> DEFINE below(s) == {t \in F : t <= s}
             f == [s \in F |-> Rank(s, F)]
             n == Cardinality(F)
  <1>1. n \in Nat
    BY FS_CardinalityType
  <1>2. ASSUME NEW s PROVE IsFiniteSet(below(s)) /\ Cardinality(below(s)) \in Nat /\ Cardinality(below(s)) <= n
    BY FS_Subset, FS_CardinalityType
  <1>3. ASSUME NEW s \in F PROVE Rank(s, F) \in 1 .. n
    <2>1. s \in below(s)
      OBVIOUS
    <2>2. Cardinality(below(s)) # 0
      BY <2>1, <1>2, FS_EmptySet
    <2>3. Cardinality(below(s)) \in Nat /\ Cardinality(below(s)) <= n
      BY <1>2
    <2>4. Cardinality(below(s)) \in 1 .. n
      <3> HIDE DEF below, n
      <3> QED
        BY <2>2, <2>3, <1>1
    <2>5. Rank(s, F) = Cardinality(below(s))
      BY DEF Rank
    <2> HIDE DEF below
    <2> QED
      BY <2>4, <2>5
  <1>4. ASSUME NEW s \in F, NEW t \in F, Rank(s, F) = Rank(t, F), s <= t PROVE s = t
    <2>1. below(s) \subseteq below(t)
      <3>1. ASSUME NEW u \in below(s) PROVE u \in below(t)
        <4>1. u \in Nat /\ s \in Nat /\ t \in Nat /\ u <= s /\ u \in F
          BY <3>1
        <4>2. u <= t
          BY <4>1, <1>4
        <4> QED
          BY <4>1, <4>2
      <3> QED
        BY <3>1
    <2>2. Cardinality(below(s)) = Cardinality(below(t))
      BY <1>4 DEF Rank
    <2>3. IsFiniteSet(below(t))
      BY <1>2
    <2>4. below(t) = below(s)
      <3> HIDE DEF below
      <3> QED
        BY <2>1, <2>2, <2>3, FS_Subset
    <2>5. t \in below(s)
      BY <2>4
    <2> QED
      BY <2>5, <1>4
  <1>5. ASSUME NEW s \in F, NEW t \in F, Rank(s, F) = Rank(t, F) PROVE s = t
    <2>1. s <= t \/ t <= s
      OBVIOUS
    <2> QED
      BY <2>1, <1>4, <1>5
  <1>6. f \in [F -> 1 .. n]
    BY <1>3
  <1>7. \A s, t \in F : f[s] = f[t] => s = t
    BY <1>5
  <1>8. f \in Injection(F, 1 .. n)
    BY <1>6, <1>7 DEF Injection, IsInjective
  <1>9. IsFiniteSet(1 .. n) /\ Cardinality(1 .. n) = n
    BY <1>1, FS_Interval
  <1>10. f \in Surjection(F, 1 .. n)
    <2> HIDE DEF f
    <2> QED
      BY <1>8, <1>9, FS_Injection DEF n
  <1>11. ASSUME NEW k \in 1 .. n PROVE \E s \in F : Rank(s, F) = k
    BY <1>10 DEF Surjection
  <1> QED
    BY <1>3, <1>5, <1>11

\* A parent and its children get one slot each, and nobody loses one.
LEMMA OwnLaunch ==
    ASSUME Types, setup' = setup, NEW r \in Requests, NEW own \in Slots \ BusySlots,
           Cardinality(FreeSlots(own)) >= Children[r], Launch(r, own, FreeSlots(own)), NEW id \in AllIds
    PROVE  /\ id \notin Ids(r) => Own(id)' = Own(id)
           /\ id \in Ids(r) /\ Own(id) = 0 => Own(id)' = 1
  <1> DEFINE F == FreeSlots(own)
             A == {s \in Slots : slot[s].id = id}
             B == {s \in Slots : slot'[s].id = id}
  <1>1. /\ F \subseteq Slots /\ own \notin F /\ Slots \subseteq Nat /\ IsFiniteSet(F) /\ IsFiniteSet(A) /\ Children[r] \in Nat
        /\ Slots' = Slots
    <2>1. setup \in Setups /\ F \subseteq Slots /\ own \notin F /\ A \subseteq Slots
      BY DEF Types, FreeSlots
    <2>2. Slots \subseteq Nat /\ IsFiniteSet(Slots) /\ Children[r] \in Nat
      BY <2>1, Parameters
    <2>3. IsFiniteSet(F) /\ IsFiniteSet(A)
      BY <2>1, <2>2, FS_Subset
    <2> QED
      BY <2>1, <2>2, <2>3, Rigid
  <1>2. id # NoId /\ id[1] \in Requests /\ id \in Ids(id[1])
    BY IdFacts DEF Types
  <1>3. \A s \in F \cup {own} : slot[s].id = NoId
    BY DEF FreeSlots, BusySlots, Busy, Types
  <1>4. slot' = [s \in Slots |->
          IF s = own THEN [id |-> <<r, 0>>, left |-> Rounds, state |-> "run"]
          ELSE IF s \in F /\ Rank(s, F) <= Children[r]
          THEN [id |-> <<r, Rank(s, F)>>, left |-> Rounds, state |-> "wait"]
          ELSE slot[s]]
    BY DEF Launch
  <1>5. Own(id) = Cardinality(A) /\ Own(id)' = Cardinality(B)
    BY <1>1 DEF Own
  <1>6. Cardinality(F) >= Children[r] /\ Cardinality(F) \in Nat
    BY <1>1, FS_CardinalityType
  <1> HIDE DEF F
  <1>7. /\ \A s \in F : Rank(s, F) \in 1 .. Cardinality(F)
        /\ \A s, t \in F : Rank(s, F) = Rank(t, F) => s = t
        /\ \A k \in 1 .. Cardinality(F) : \E s \in F : Rank(s, F) = k
    BY <1>1, RankFacts
  <1>8. \A s \in Slots : slot'[s].id = IF s = own THEN <<r, 0>>
                                     ELSE IF s \in F /\ Rank(s, F) <= Children[r] THEN <<r, Rank(s, F)>>
                                     ELSE slot[s].id
    BY <1>4
  <1>9. CASE id \notin Ids(r)
    <2>1. ASSUME NEW s \in F, Rank(s, F) <= Children[r] PROVE <<r, Rank(s, F)>> \in Ids(r)
      BY <2>1, <1>1, <1>6, <1>7 DEF Ids
    <2>2. <<r, 0>> \in Ids(r)
      BY <1>1 DEF Ids
    <2>3. A = B
      BY <2>1, <2>2, <1>2, <1>3, <1>8, <1>9
    <2> QED
      BY <2>3, <1>5, <1>9
  <1>10. CASE id \in Ids(r) /\ Own(id) = 0
    <2>1. A = {}
      BY <1>1, <1>5, <1>10, FS_EmptySet
    <2>2. PICK k \in 0 .. Children[r] : id = <<r, k>>
      BY <1>10 DEF Ids
    <2>3. \E x : B = {x}
      <3>1. CASE k = 0
        <4>1. ASSUME NEW s \in F PROVE <<r, Rank(s, F)>> # id
          BY <3>1, <2>2, <1>6, <1>7
        <4>2. B = {own}
          BY <4>1, <3>1, <2>1, <2>2, <1>8
        <4> QED
          BY <4>2
      <3>2. CASE k # 0
        <4>1. k \in 1 .. Cardinality(F) /\ k <= Children[r]
          BY <3>2, <1>1, <1>6
        <4>2. PICK x \in F : Rank(x, F) = k
          BY <4>1, <1>7
        <4>3. <<r, 0>> # id
          BY <3>2, <2>2
        <4>4. ASSUME NEW s \in Slots PROVE slot'[s].id = id <=> s = x
          <5>1. CASE s = x
            <6>1. s # own /\ s \in F /\ Rank(s, F) <= Children[r]
              BY <5>1, <4>1, <4>2, <1>1
            <6> QED
              BY <6>1, <5>1, <4>2, <2>2, <1>8
          <5>2. CASE s # x
            <6>1. slot[s].id # id
              BY <2>1
            <6>2. s \in F => <<r, Rank(s, F)>> # id
              BY <5>2, <4>2, <2>2, <1>7
            <6> QED
              BY <6>1, <6>2, <5>2, <4>3, <1>8
          <5> QED
            BY <5>1, <5>2
        <4>5. B = {x}
          BY <4>2, <4>4, <1>1
        <4> QED
          BY <4>5
      <3> QED
        BY <3>1, <3>2
    <2>4. Cardinality(B) = 1
      <3> HIDE DEF B
      <3> QED
        BY <2>3, FS_Singleton
    <2> QED
      BY <2>4, <1>5, <1>10
  <1> QED
    BY <1>9, <1>10

\* The main thread's steps without a task in hand.
LEMMA AccountMain ==
    ASSUME Types, Types', AccountInv,
           \/ MainStops \/ MainTakes \/ UpdateIdle \/ UpdateDecode \/ WorkEnds \/ JoinBlocks \/ PutBack
           \/ Updated \/ IdleEnds \/ AwakeAgain \/ SleepOn \/ FallAsleep \/ Terminate \/ UNCHANGED vars
    PROVE  AccountInv'
  <1>0. queue \in Seq(ListRec) /\ unhandled \in Seq(ListRec) /\ NextResponse \in ListRec
    BY DEF Types, ListRec
  <1>1. UNCHANGED <<setup, waiting, req, results, slot>>
    BY DEF MainStops, MainTakes, UpdateIdle, UpdateDecode, WorkEnds, JoinBlocks, PutBack, Updated, IdleEnds,
           AwakeAgain, SleepOn, FallAsleep, Terminate, vars, resultVars, loopVars
  <1>2. ASSUME NEW X, NoTask \notin X, NextResponse \notin X PROVE Lined(X)' = Lined(X)
    <2>1. CASE UNCHANGED <<queue, deferred, unhandled, hand>>
      BY <2>1 DEF Lined, Listed, InHand
    <2>2. CASE MainTakes
      <3>1. /\ hand["main"] = NoTask /\ queue # <<>> /\ hand' = [hand EXCEPT !["main"] = Head(queue)]
            /\ queue' = Tail(queue) /\ UNCHANGED <<deferred, unhandled>>
        BY <2>2 DEF MainTakes
      <3> QED
        BY <3>1, <1>2, TakeLined
    <2>3. CASE UpdateDecode
      <3>1. queue' = Append(queue, NextResponse) /\ UNCHANGED <<deferred, unhandled, hand>>
        BY <2>3 DEF UpdateDecode
      <3>2. Occ(Append(queue, NextResponse), X) = Occ(queue, X) + (IF NextResponse \in X THEN 1 ELSE 0)
        BY <1>0, OccAppend
      <3>3. Occ(queue, X) \in Nat
        BY CountTypes DEF Counts
      <3>4. Occ(queue', X) = Occ(queue, X)
        BY <3>1, <3>2, <3>3, <1>2
      <3> QED
        BY <3>1, <3>4 DEF Lined, Listed, InHand
    <2>4. CASE PutBack
      <3>1. queue' = unhandled \o queue /\ unhandled' = <<>> /\ UNCHANGED <<deferred, hand>>
        BY <2>4 DEF PutBack
      <3>2. Occ(unhandled \o queue, X) = Occ(unhandled, X) + Occ(queue, X)
        BY <1>0, OccConcat
      <3>3. Occ(<<>>, X) = 0
        BY OccOne
      <3>4. Occ(queue, X) \in Nat /\ Occ(deferred, X) \in Nat /\ Occ(unhandled, X) \in Nat
        BY CountTypes DEF Counts
      <3>5. Listed(X)' = Occ(unhandled \o queue, X) + Occ(deferred, X) + Occ(<<>>, X)
        BY <3>1 DEF Listed
      <3>6. Listed(X)' = Listed(X)
        BY <3>2, <3>3, <3>4, <3>5 DEF Listed
      <3>7. InHand("main", X)' = InHand("main", X) /\ InHand("worker", X)' = InHand("worker", X)
        BY <3>1 DEF InHand
      <3> QED
        BY <3>6, <3>7 DEF Lined
    <2> QED
      BY <2>1, <2>2, <2>3, <2>4
         DEF MainStops, UpdateIdle, WorkEnds, JoinBlocks, Updated, IdleEnds, AwakeAgain, SleepOn, FallAsleep, Terminate,
             vars, taskVars
  <1> QED
    BY <1>1, <1>2, AccountMoves

\* The task in hand was handled and is in no list.
LEMMA HandledTask ==
    ASSUME Types, Types', NEW t \in {"main", "worker"}, hand' = [hand EXCEPT ![t] = NoTask],
           \A X : Listed(X)' = Listed(X), NEW r, hand[t] = Task(<<r, 0>>)
    PROVE  /\ \A a : a # <<r, 0>> => Lined({Task(a)})' = Lined({Task(a)})
           /\ Lined({Task(<<r, 0>>)})' + 1 = Lined({Task(<<r, 0>>)})
           /\ \A a : Lined({CancelTask(a)})' <= Lined({CancelTask(a)})
  <1>1. ASSUME NEW X, NoTask \notin X
        PROVE  /\ Task(<<r, 0>>) \notin X => Lined(X)' = Lined(X)
               /\ Task(<<r, 0>>) \in X => Lined(X)' + 1 = Lined(X)
               /\ Lined(X)' <= Lined(X)
    <2>1. Listed(X) \in Nat /\ Lined(X) \in Nat /\ Listed(X)' = Listed(X)
      BY CountTypes DEF Counts
    <2>2. Listed(X)' = Listed(X) + 0
      BY <2>1
    <2>3. Lined(X)' = Lined(X) + 0 - InHand(t, X)
      BY <2>2, <1>1, ClearLined
    <2>4. InHand(t, X) = IF Task(<<r, 0>>) \in X THEN 1 ELSE 0
      BY DEF InHand
    <2> QED
      BY <2>1, <2>3, <2>4
  <1>2. ASSUME NEW a, a # <<r, 0>> PROVE Lined({Task(a)})' = Lined({Task(a)})
    <2>1. PICK X : X = {Task(a)}
      OBVIOUS
    <2>2. NoTask \notin X /\ Task(<<r, 0>>) \notin X
      BY <2>1, <1>2, RecFacts
    <2>3. Lined(X)' = Lined(X)
      BY <2>2, <1>1
    <2> QED
      BY <2>1, <2>3 DEF Lined, Listed, InHand, Task
  <1>3. Lined({Task(<<r, 0>>)})' + 1 = Lined({Task(<<r, 0>>)})
    <2>1. PICK X : X = {Task(<<r, 0>>)}
      OBVIOUS
    <2>2. NoTask \notin X /\ Task(<<r, 0>>) \in X
      BY <2>1, RecFacts
    <2>3. Lined(X)' + 1 = Lined(X)
      BY <2>2, <1>1
    <2> QED
      BY <2>1, <2>3 DEF Lined, Listed, InHand, Task
  <1>4. ASSUME NEW a PROVE Lined({CancelTask(a)})' <= Lined({CancelTask(a)})
    <2>1. PICK X : X = {CancelTask(a)}
      OBVIOUS
    <2>2. NoTask \notin X
      BY <2>1, RecFacts
    <2>3. Lined(X)' <= Lined(X)
      BY <2>2, <1>1
    <2> QED
      BY <2>1, <2>3 DEF Lined, Listed, InHand, CancelTask
  <1> QED
    BY <1>2, <1>3, <1>4

\* The task in hand is answered: with its one result, or with an error for all its ids.
LEMMA AccountAnswers ==
    ASSUME Types, Types', AccountInv, UNCHANGED <<setup, waiting, req, slot, queue, deferred, unhandled>>,
           NEW t \in {"main", "worker"}, hand' = [hand EXCEPT ![t] = NoTask],
           NEW r \in Requests, hand[t] = Task(<<r, 0>>),
           NEW a \in Ids(r), NEW error \in BOOLEAN, Send(a, error), error \/ Children[r] = 0
    PROVE  AccountInv'
  <1>1. \A X : Listed(X)' = Listed(X)
    BY DEF Listed
  <1>2. /\ \A b : b # <<r, 0>> => Lined({Task(b)})' = Lined({Task(b)})
        /\ Lined({Task(<<r, 0>>)})' + 1 = Lined({Task(<<r, 0>>)})
        /\ \A b : Lined({CancelTask(b)})' <= Lined({CancelTask(b)})
    BY <1>1, HandledTask
  <1>3. \A id : Own(id)' = Own(id)
    BY OwnSame
  <1>4. ASSUME NEW q \in Requests \ {r}, NEW id \in Ids(q) PROVE Work(q, id)' = Work(q, id)
    <2>1. <<q, 0>> # <<r, 0>>
      OBVIOUS
    <2>2. Lined({Task(<<q, 0>>)})' = Lined({Task(<<q, 0>>)})
      BY <2>1, <1>2
    <2> QED
      BY <2>2, <1>3, WorkPrimed
  <1>5. ASSUME NEW id \in Ids(r) PROVE Work(r, id)' + 1 = Work(r, id) /\ Work(r, id)' \in Nat
    <2>1. Lined({Task(<<r, 0>>)}) \in Nat /\ Own(id) \in Nat
      BY CountTypes DEF Counts
    <2>2. Work(r, id)' = Lined({Task(<<r, 0>>)})' + Own(id)' /\ Work(r, id) = Lined({Task(<<r, 0>>)}) + Own(id)
      BY WorkPrimed
    <2>3. Own(id)' = Own(id)
      BY <1>3
    <2>4. Work(r, id)' \in Nat
      BY CountTypesPrimed DEF Counts
    <2>5. Lined({Task(<<r, 0>>)})' = Lined({Task(<<r, 0>>)}) - 1
      <3>1. \A X : Lined(X)' \in Nat
        BY CountTypesPrimed DEF Counts
      <3>2. Lined({Task(<<r, 0>>)})' \in Nat
        BY <3>1 DEF Lined, Listed, InHand, Task
      <3> QED
        BY <3>2, <2>1, <1>2
    <2> QED
      BY <2>1, <2>2, <2>3, <2>4, <2>5
  <1>6. Children[r] = 0 => Ids(r) = {a}
    BY DEF Ids
  <1>7. \A id \in Ids(r) : Work(r, id)' + (IF id = a THEN 1 ELSE 0) <= Work(r, id)
    BY <1>5
  <1>8. ~ error => \A id \in Ids(r) : Work(r, id)' + (IF id = a THEN 1 ELSE 0) = Work(r, id)
    BY <1>5, <1>6
  <1> QED
    BY <1>2, <1>4, <1>7, <1>8, AccountSends

\* process_single_task().
LEMMA AccountHandles == ASSUME Types, Types', AccountInv, MainHandles PROVE AccountInv'
  <1>1. /\ UNCHANGED <<setup, unhandled, waiting, req>>
        /\ hand' = [hand EXCEPT !["main"] = NoTask] /\ Handled(hand["main"])
    BY DEF MainHandles, Handled
  <1>2. UNCHANGED <<queue, deferred>> => \A X : Listed(X)' = Listed(X)
    BY <1>1 DEF Listed
  <1>3. CASE hand["main"] = NextResponse /\ UNCHANGED <<queue, deferred, slot, results>>
    <2>1. ASSUME NEW X, NoTask \notin X, NextResponse \notin X PROVE Lined(X)' = Lined(X)
      <3>1. InHand("main", X) = 0
        BY <2>1, <1>3 DEF InHand
      <3>2. Listed(X) \in Nat /\ Lined(X) \in Nat
        BY CountTypes DEF Counts
      <3>3. Listed(X)' = Listed(X) + 0
        BY <3>2, <1>2, <1>3
      <3>4. Lined(X)' = Lined(X) + 0 - 0
        BY <3>1, <3>3, <2>1, <1>1, ClearLined
      <3> QED
        BY <3>2, <3>4
    <2> QED
      BY <2>1, <1>1, <1>3, AccountMoves
  <1>4. ASSUME NEW c \in AllIds, hand["main"] = CancelTask(c), UNCHANGED results,
               \/ UNCHANGED <<queue, deferred, slot>>
               \/ \E s \in Slots : slot[s].id = c /\ Release(s)
        PROVE  AccountInv'
    <2>1. \A X : Listed(X)' = Listed(X)
      <3>1. CASE \E s \in Slots : Release(s)
        <4>1. \A X : Occ(queue', X) + Occ(deferred', X) = Occ(queue, X) + Occ(deferred, X)
          BY <3>1, PopFacts DEF Release
        <4> QED
          BY <4>1, <1>1 DEF Listed
      <3> QED
        BY <3>1, <1>2, <1>4
    <2>2. ASSUME NEW a PROVE Lined({Task(a)})' = Lined({Task(a)})
      <3>1. PICK X : X = {Task(a)}
        OBVIOUS
      <3>2. InHand("main", X) = 0 /\ NoTask \notin X
        BY <3>1, <1>4, RecFacts DEF InHand
      <3>3. Listed(X) \in Nat /\ Lined(X) \in Nat
        BY CountTypes DEF Counts
      <3>4. Listed(X)' = Listed(X) + 0
        BY <2>1, <3>3
      <3>5. Lined(X)' = Lined(X) + 0 - 0
        BY <3>2, <3>4, <1>1, ClearLined
      <3>6. Lined(X)' = Lined(X)
        BY <3>3, <3>5
      <3> QED
        BY <3>1, <3>6 DEF Lined, Listed, InHand, Task
    <2>3. ASSUME NEW a PROVE Lined({CancelTask(a)})' <= Lined({CancelTask(a)})
      <3>1. PICK X : X = {CancelTask(a)}
        OBVIOUS
      <3>2. NoTask \notin X
        BY <3>1, RecFacts
      <3>3. Listed(X) \in Nat /\ Lined(X) \in Nat /\ InHand("main", X) \in {0, 1}
        BY CountTypes DEF Counts
      <3>4. Listed(X)' = Listed(X) + 0
        BY <2>1, <3>3
      <3>5. Lined(X)' = Lined(X) + 0 - InHand("main", X)
        BY <3>2, <3>4, <1>1, ClearLined
      <3>6. Lined(X)' <= Lined(X)
        BY <3>3, <3>5
      <3> QED
        BY <3>1, <3>6 DEF Lined, Listed, InHand, CancelTask
    <2>4. ASSUME NEW id \in AllIds PROVE Own(id)' <= Own(id) /\ (id # c => Own(id)' = Own(id))
      <3>1. Own(id) \in Nat
        BY CountTypes DEF Counts
      <3>2. CASE UNCHANGED slot
        BY <3>1, <3>2, <1>1, OwnSame
      <3>3. ASSUME NEW s \in Slots, slot[s].id = c, slot' = [slot EXCEPT ![s] = Free]
            PROVE  Own(id)' <= Own(id) /\ (id # c => Own(id)' = Own(id))
        <4>1. Own(id) = Own(id)' + (IF slot[s].id = id THEN 1 ELSE 0) /\ Own(id)' \in Nat
          BY <3>3, <1>1, OwnFreed
        <4> QED
          BY <4>1, <3>1, <3>3
      <3> QED
        BY <3>2, <3>3, <1>4 DEF Release
    <2>5. c[1] \in Requests /\ req[c[1]].pc = "done"
      <3>1. PICK X : X = {CancelTask(c)}
        OBVIOUS
      <3>2. InHand("main", X) = 1
        BY <3>1, <1>4 DEF InHand
      <3>3. Lined(X) > 0
        <4>1. Listed(X) \in Nat /\ InHand("worker", X) \in {0, 1}
          BY CountTypes DEF Counts
        <4> QED
          BY <4>1, <3>2 DEF Lined
      <3> QED
        BY <3>1, <3>3, IdFacts DEF AccountInv, CancelInv, Types
    <2>6. ASSUME NEW q \in Requests, NEW id \in Ids(q)
          PROVE  Work(q, id)' <= Work(q, id) /\ (req[q].pc = "recv" => Work(q, id)' = Work(q, id))
      <3>1. id \in AllIds /\ id[1] = q
        BY Parameters, IdFacts DEF Types
      <3>2. Own(id)' <= Own(id) /\ (id # c => Own(id)' = Own(id))
        BY <3>1, <2>4
      <3>3. req[q].pc = "recv" => id # c
        BY <3>1, <2>5
      <3>4. Lined({Task(<<q, 0>>)})' = Lined({Task(<<q, 0>>)})
        BY <2>2
      <3>5. Lined({Task(<<q, 0>>)}) \in Nat /\ Own(id) \in Nat
        BY CountTypes DEF Counts
      <3>6. Own(id)' \in Nat
        BY CountTypesPrimed DEF Counts
      <3>7. Work(q, id)' = Lined({Task(<<q, 0>>)})' + Own(id)' /\ Work(q, id) = Lined({Task(<<q, 0>>)}) + Own(id)
        BY WorkPrimed
      <3> QED
        BY <3>2, <3>3, <3>4, <3>5, <3>6, <3>7
    <2> QED
      BY <2>3, <2>6, <1>1, <1>4, AccountShrinks
  <1>5. ASSUME NEW r \in Requests, hand["main"] = Task(<<r, 0>>), Defer(Task(<<r, 0>>)) PROVE AccountInv'
    <2> DEFINE e == Task(<<r, 0>>)
    <2>1. e \in ListRec /\ deferred \in Seq(ListRec)
      BY DEF ListRec, Types
    <2>2. deferred' = Append(deferred, e) /\ UNCHANGED <<queue, slot, results>> /\ hand["main"] = e
      BY <1>5 DEF Defer
    <2> HIDE DEF e
    <2>3. ASSUME NEW X, NoTask \notin X, NextResponse \notin X PROVE Lined(X)' = Lined(X)
      <3>1. Occ(Append(deferred, e), X) = Occ(deferred, X) + (IF e \in X THEN 1 ELSE 0)
        BY <2>1, OccAppend
      <3>2. InHand("main", X) = IF e \in X THEN 1 ELSE 0
        BY <2>2 DEF InHand
      <3>3. Occ(queue, X) \in Nat /\ Occ(deferred, X) \in Nat /\ Occ(unhandled, X) \in Nat /\ InHand("main", X) \in {0, 1} /\ Lined(X) \in Nat
        BY CountTypes DEF Counts
      <3>4. Listed(X)' = Occ(queue, X) + Occ(Append(deferred, e), X) + Occ(unhandled, X)
        BY <2>2, <1>1 DEF Listed
      <3>5. Listed(X)' = Listed(X) + InHand("main", X)
        BY <3>1, <3>2, <3>3, <3>4 DEF Listed
      <3>6. Lined(X)' = Lined(X) + InHand("main", X) - InHand("main", X)
        BY <3>3, <3>5, <2>3, <1>1, ClearLined
      <3> QED
        BY <3>3, <3>6
    <2> QED
      BY <2>2, <2>3, <1>1, AccountMoves
  <1>6. ASSUME NEW r \in Requests, hand["main"] = Task(<<r, 0>>), UNCHANGED <<queue, deferred, slot>>,
               \/ Send(<<r, 0>>, FALSE) /\ Children[r] = 0
               \/ Send(<<r, IF Children[r] = 0 THEN 0 ELSE 1>>, TRUE)
        PROVE  AccountInv'
    <2>1. Children[r] \in Nat
      BY Parameters DEF Types
    <2>2. <<r, 0>> \in Ids(r) /\ <<r, IF Children[r] = 0 THEN 0 ELSE 1>> \in Ids(r)
      BY <2>1 DEF Ids
    <2>3. CASE Send(<<r, 0>>, FALSE) /\ Children[r] = 0
      BY <2>2, <2>3, <1>1, <1>6, AccountAnswers
    <2>4. CASE Send(<<r, IF Children[r] = 0 THEN 0 ELSE 1>>, TRUE)
      BY <2>2, <2>4, <1>1, <1>6, AccountAnswers
    <2> QED
      BY <2>3, <2>4, <1>6
  <1>7. ASSUME NEW r \in Requests, hand["main"] = Task(<<r, 0>>), UNCHANGED <<queue, deferred, results>>,
               NEW own \in Slots \ BusySlots, Cardinality(FreeSlots(own)) >= Children[r], Launch(r, own, FreeSlots(own))
        PROVE  AccountInv'
    <2>1. \A X : Listed(X)' = Listed(X)
      BY <1>2, <1>7
    <2>2. /\ \A b : b # <<r, 0>> => Lined({Task(b)})' = Lined({Task(b)})
          /\ Lined({Task(<<r, 0>>)})' + 1 = Lined({Task(<<r, 0>>)})
          /\ \A b : Lined({CancelTask(b)})' <= Lined({CancelTask(b)})
      BY <2>1, <1>1, <1>7, HandledTask
    <2>3. ASSUME NEW q \in Requests, NEW id \in Ids(q) PROVE Work(q, id)' = Work(q, id) /\ Work(q, id) \in Nat
      <3>1. id \in AllIds /\ id[1] = q
        BY Parameters, IdFacts DEF Types
      <3>2. /\ id \notin Ids(r) => Own(id)' = Own(id)
            /\ id \in Ids(r) /\ Own(id) = 0 => Own(id)' = 1
        BY <3>1, <1>1, <1>7, OwnLaunch
      <3>3. Work(q, id) \in Nat /\ Own(id) \in Nat /\ Lined({Task(<<q, 0>>)}) \in Nat /\ Got(q, id) \in {0, 1} /\ Occ(results, Answers({id})) \in Nat
        BY CountTypes DEF Counts
      <3>4. Work(q, id)' = Lined({Task(<<q, 0>>)})' + Own(id)' /\ Work(q, id) = Lined({Task(<<q, 0>>)}) + Own(id)
        BY WorkPrimed
      <3>5. CASE q # r
        <4>1. id \notin Ids(r) /\ <<q, 0>> # <<r, 0>>
          BY <3>1, <3>5, IdFacts DEF Types
        <4>2. Lined({Task(<<q, 0>>)})' = Lined({Task(<<q, 0>>)})
          BY <4>1, <2>2
        <4> QED
          BY <4>1, <4>2, <3>2, <3>3, <3>4
      <3>6. CASE q = r
        <4>1. \A X : Lined(X)' \in Nat
          BY CountTypesPrimed DEF Counts
        <4>2. Lined({Task(<<q, 0>>)})' \in Nat
          BY <4>1 DEF Lined, Listed, InHand, Task
        <4>3. Lined({Task(<<q, 0>>)})' + 1 = Lined({Task(<<q, 0>>)})
          BY <3>6, <2>2
        <4>4. Share(q, id) <= 1
          BY DEF AccountInv, AccInv
        <4>5. Share(q, id) = Work(q, id) + Occ(results, Answers({id})) + Got(q, id)
          BY DEF Share
        <4>6. Own(id) = 0 /\ Lined({Task(<<q, 0>>)}) = 1
          BY <4>2, <4>3, <4>4, <4>5, <3>3, <3>4
        <4>7. Own(id)' = 1
          BY <4>6, <3>2, <3>6
        <4> QED
          BY <4>2, <4>3, <4>6, <4>7, <3>3, <3>4
      <3> QED
        BY <3>5, <3>6
    <2>4. \A q \in Requests : \A id \in Ids(q) : Work(q, id)' <= Work(q, id) /\ Work(q, id)' = Work(q, id)
      BY <2>3
    <2> QED
      BY <2>2, <2>4, <1>1, <1>7, AccountShrinks
  <1> QED
    BY <1>1, <1>3, <1>4, <1>5, <1>6, <1>7, HandledCases

\* A slot answers and is freed.
LEMMA AccountFrees ==
    ASSUME Types, Types', AccountInv, UNCHANGED <<setup, unhandled, hand, waiting, req>>,
           NEW s \in Slots, NEW error \in BOOLEAN, Send(slot[s].id, error), Release(s)
    PROVE  AccountInv'
  <1> DEFINE a == slot[s].id
  <1>1. \A X : Lined(X)' = Lined(X)
    <2>1. \A X : Occ(queue', X) + Occ(deferred', X) = Occ(queue, X) + Occ(deferred, X)
      BY PopFacts DEF Release
    <2> QED
      BY <2>1 DEF Lined, Listed, InHand
  <1>2. ASSUME NEW b PROVE Lined({Task(b)})' = Lined({Task(b)}) /\ Lined({CancelTask(b)})' <= Lined({CancelTask(b)})
    <2>1. PICK X, Y : X = {Task(b)} /\ Y = {CancelTask(b)}
      OBVIOUS
    <2>2. Lined(X)' = Lined(X) /\ Lined(Y)' = Lined(Y)
      BY <1>1
    <2>3. Lined(Y) \in Nat
      BY CountTypes DEF Counts
    <2>4. Lined(Y)' <= Lined(Y)
      BY <2>2, <2>3
    <2> QED
      BY <2>1, <2>2, <2>4 DEF Lined, Listed, InHand, Task, CancelTask
  <1>3. ASSUME NEW id \in AllIds PROVE Own(id) = Own(id)' + (IF a = id THEN 1 ELSE 0) /\ Own(id)' \in Nat
    BY OwnFreed DEF Release
  <1>4. a \in AllIds \cup {NoId}
    <2>1. slot[s] \in SlotRec
      BY DEF Types
    <2> QED
      BY <2>1 DEF SlotRec
  <1> HIDE DEF a
  <1>5. ASSUME NEW q \in Requests, NEW id \in Ids(q)
        PROVE  Work(q, id)' + (IF a = id THEN 1 ELSE 0) = Work(q, id) /\ Work(q, id) \in Nat /\ Work(q, id)' \in Nat
    <2>1. id \in AllIds
      BY Parameters DEF Types
    <2>2. Own(id) = Own(id)' + (IF a = id THEN 1 ELSE 0) /\ Own(id)' \in Nat
      BY <2>1, <1>3
    <2>3. Lined({Task(<<q, 0>>)})' = Lined({Task(<<q, 0>>)})
      BY <1>2
    <2>4. Lined({Task(<<q, 0>>)}) \in Nat
      BY CountTypes DEF Counts
    <2>5. Work(q, id)' = Lined({Task(<<q, 0>>)})' + Own(id)' /\ Work(q, id) = Lined({Task(<<q, 0>>)}) + Own(id)
      BY WorkPrimed
    <2> QED
      BY <2>2, <2>3, <2>4, <2>5
  <1>6. CASE a = NoId
    <2>1. NoId \notin waiting
      BY IdFacts DEF Types
    <2>2. results' = results
      BY <2>1, <1>6 DEF Send, a
    <2>3. ASSUME NEW q \in Requests, NEW id \in Ids(q) PROVE Work(q, id)' <= Work(q, id) /\ Work(q, id)' = Work(q, id)
      <3>1. a # id
        BY <1>6, Parameters, IdFacts DEF Types
      <3> QED
        BY <3>1, <1>5
    <2> QED
      BY <2>2, <2>3, <1>2, AccountShrinks
  <1>7. CASE a \in AllIds
    <2>1. PICK r \in Requests : a \in Ids(r)
      BY <1>7 DEF AllIds
    <2>2. ASSUME NEW q \in Requests \ {r}, NEW id \in Ids(q) PROVE Work(q, id)' = Work(q, id)
      <3>1. a # id
        BY <2>1, <1>7, IdFacts, SMTT(20) DEF Types
      <3>2. /\ Work(q, id)' + (IF a = id THEN 1 ELSE 0) = Work(q, id)
            /\ Work(q, id) \in Nat /\ Work(q, id)' \in Nat
        BY <1>5
      <3>3. PICK m \in Nat, n \in Nat : m = Work(q, id)' /\ n = Work(q, id)
        BY <3>2
      <3> QED
        BY <3>1, <3>2, <3>3
    <2>3. \A id \in Ids(r) : Work(r, id)' + (IF id = a THEN 1 ELSE 0) = Work(r, id)
      BY <1>5
    <2>4. \A id \in Ids(r) : Work(r, id)' + (IF id = a THEN 1 ELSE 0) <= Work(r, id)
      BY <1>5
    <2>5. Send(a, error)
      BY DEF a
    <2> QED
      BY <2>1, <2>2, <2>3, <2>4, <2>5, <1>2, AccountSends
  <1> QED
    BY <1>4, <1>6, <1>7

\* post_decode() visits a slot.
LEMMA AccountSlots ==
    ASSUME Types, Types', AccountInv, NEW s \in Slots, SlotGenerates(s) \/ SlotWaits(s) \/ SlotFinishes(s) \/ SlotFails(s)
    PROVE  AccountInv'
  <1>1. UNCHANGED <<setup, unhandled, hand, waiting, req>>
    BY DEF SlotGenerates, SlotWaits, SlotFinishes, SlotFails, Visit
  <1>2. CASE SlotGenerates(s) \/ SlotWaits(s)
    <2>1. UNCHANGED <<queue, deferred, results>>
      BY <1>2 DEF SlotGenerates, SlotWaits
    <2>2. ASSUME NEW t \in Slots PROVE slot'[t].id = slot[t].id
      <3>1. slot[t] \in SlotRec /\ slot[s] \in SlotRec
        BY DEF Types
      <3> QED
        BY <3>1, <1>2 DEF SlotGenerates, SlotWaits, SlotRec
    <2>3. \A X : Lined(X)' = Lined(X)
      BY <2>1, <1>1 DEF Lined, Listed, InHand
    <2> QED
      BY <2>1, <2>2, <2>3, <1>1, AccountMoves
  <1>3. CASE SlotFinishes(s)
    BY <1>1, <1>3, AccountFrees DEF SlotFinishes
  <1>4. CASE SlotFails(s)
    BY <1>1, <1>4, AccountFrees DEF SlotFails
  <1> QED
    BY <1>2, <1>3, <1>4

\* The worker.
LEMMA AccountWorker == ASSUME Types, Types', AccountInv, WorkerThread PROVE AccountInv'
  <1>1. CASE WorkerTakes
    <2>1. /\ UNCHANGED <<setup, deferred, unhandled, slot, waiting, results, req>> /\ hand["worker"] = NoTask
          /\ hand' = [hand EXCEPT !["worker"] = Head(queue)] /\ queue' = Tail(queue) /\ queue # <<>>
      BY <1>1 DEF WorkerTakes, loopVars, resultVars
    <2>2. ASSUME NEW X, NoTask \notin X PROVE Lined(X)' = Lined(X)
      BY <2>1, <2>2, TakeLined
    <2> QED
      BY <2>1, <2>2, AccountMoves
  <1>2. CASE WorkerHandles
    <2>1. /\ UNCHANGED <<setup, queue, deferred, slot, waiting, req>>
          /\ hand' = [hand EXCEPT !["worker"] = NoTask] /\ hand["worker"] # NoTask
      BY <1>2 DEF WorkerHandles, loopVars
    <2>2. hand["worker"] \in ListRec
      BY <2>1 DEF Types
    <2>3. CASE Declined(hand["worker"])
      <3> DEFINE e == hand["worker"]
      <3>1. unhandled' = Append(unhandled, e) /\ results' = results /\ unhandled \in Seq(ListRec)
        BY <1>2, <2>3 DEF WorkerHandles, Types
      <3> HIDE DEF e
      <3>2. ASSUME NEW X, NoTask \notin X PROVE Lined(X)' = Lined(X)
        <4>1. Occ(Append(unhandled, e), X) = Occ(unhandled, X) + (IF e \in X THEN 1 ELSE 0)
          BY <3>1, <2>2, OccAppend DEF e
        <4>2. InHand("worker", X) = IF e \in X THEN 1 ELSE 0
          BY DEF InHand, e
        <4>3. Occ(queue, X) \in Nat /\ Occ(deferred, X) \in Nat /\ Occ(unhandled, X) \in Nat /\ InHand("worker", X) \in {0, 1} /\ Lined(X) \in Nat
          BY CountTypes DEF Counts
        <4>4. Listed(X)' = Occ(queue, X) + Occ(deferred, X) + Occ(Append(unhandled, e), X)
          BY <3>1, <2>1 DEF Listed
        <4>5. Listed(X)' = Listed(X) + InHand("worker", X)
          BY <4>1, <4>2, <4>3, <4>4 DEF Listed
        <4>6. Lined(X)' = Lined(X) + InHand("worker", X) - InHand("worker", X)
          BY <4>3, <4>5, <3>2, <2>1, ClearLined
        <4> QED
          BY <4>3, <4>6
      <3> QED
        BY <3>1, <3>2, <2>1, AccountMoves
    <2>4. CASE ~ Declined(hand["worker"])
      <3>1. PICK r \in Requests : hand["worker"] = Task(<<r, 0>>) /\ hand["worker"].id = <<r, 0>> /\ Kind[r] = "metrics"
        BY <2>2, <2>4, ListRecFacts DEF Declined
      <3>2. Send(<<r, 0>>, FALSE) /\ unhandled' = unhandled
        BY <1>2, <2>4, <3>1 DEF WorkerHandles
      <3>3. Children[r] = 0 /\ <<r, 0>> \in Ids(r)
        BY <3>1, Parameters DEF Types
      <3> QED
        BY <3>1, <3>2, <3>3, <2>1, AccountAnswers
    <2> QED
      BY <2>3, <2>4
  <1>3. CASE WorkerDrained \/ WorkerChecks
    <2>1. UNCHANGED <<setup, queue, deferred, unhandled, hand, slot, waiting, results, req>>
      BY <1>3 DEF WorkerDrained, WorkerChecks, taskVars, resultVars
    <2>2. \A X : Lined(X)' = Lined(X)
      BY <2>1 DEF Lined, Listed, InHand
    <2> QED
      BY <2>1, <2>2, AccountMoves
  <1> QED
    BY <1>1, <1>2, <1>3 DEF WorkerThread

\* The parts of a share after a step.
LEMMA SharePrimed ==
    ASSUME Types, Types', NEW q, NEW id
    PROVE  /\ Share(q, id)' = Work(q, id)' + Occ(results', Answers({id})) + Got(q, id)'
           /\ Share(q, id) = Work(q, id) + Occ(results, Answers({id})) + Got(q, id)
           /\ Work(q, id) \in Nat /\ Occ(results, Answers({id})) \in Nat /\ Got(q, id) \in {0, 1}
           /\ Work(q, id)' \in Nat /\ Occ(results', Answers({id})) \in Nat /\ Got(q, id)' \in {0, 1}
  <1>1. Work(q, id) \in Nat /\ Occ(results, Answers({id})) \in Nat /\ Got(q, id) \in {0, 1}
    BY CountTypes DEF Counts
  <1>2. Work(q, id)' \in Nat /\ Got(q, id)' \in {0, 1} /\ \A X : Occ(results', X) \in Nat
    BY CountTypesPrimed DEF Counts
  <1>3. Occ(results, Answers({id}))' = Occ(results', Answers({id}))
    BY DEF Answers
  <1> QED
    BY <1>1, <1>2, <1>3 DEF Share

\* A request's thread goes on; the tasks and the results stay.
LEMMA AccountGoTo ==
    ASSUME Types, Types', AccountInv, UNCHANGED <<setup, queue, deferred, unhandled, hand, slot, results>>,
           NEW r \in Requests, NEW pc \in Waits \cup {"recv", "forget", "cancel", "done"}, GoTo(r, pc),
           req[r].pc # "done", pc # "recv", pc \in Waits => req[r].pc \in Waits,
           pc = "post" => Ids(r) \subseteq waiting',
           \A q \in Requests \ {r} : Ids(q) \cap waiting' = Ids(q) \cap waiting,
           \A id \in Ids(r) : Occ(results, Answers({id})) > 0 => id \in waiting' \/ pc = "cancel"
    PROVE  AccountInv'
  <1>1. /\ req'[r].pc = pc /\ req'[r].got = req[r].got
        /\ \A q \in Requests \ {r} : req'[q] = req[q]
    BY GoToFacts
  <1>2. \A X : Lined(X)' = Lined(X)
    BY DEF Lined, Listed, InHand
  <1>3. ASSUME NEW b PROVE Lined({Task(b)})' = Lined({Task(b)}) /\ Lined({CancelTask(b)})' = Lined({CancelTask(b)})
    BY DEF Lined, Listed, InHand, Task, CancelTask
  <1>4. ASSUME NEW q \in Requests, NEW id \in Ids(q) PROVE Share(q, id)' = Share(q, id) /\ Share(q, id) \in Nat
    <2>1. Own(id)' = Own(id)
      BY OwnSame
    <2>2. Work(q, id)' = Work(q, id)
      BY <2>1, <1>3, WorkPrimed
    <2>3. Got(q, id)' = Got(q, id)
      BY <1>1 DEF Got
    <2>4. /\ Share(q, id)' = Work(q, id)' + Occ(results', Answers({id})) + Got(q, id)'
          /\ Share(q, id) = Work(q, id) + Occ(results, Answers({id})) + Got(q, id)
          /\ Work(q, id) \in Nat /\ Occ(results, Answers({id})) \in Nat /\ Got(q, id) \in {0, 1}
      BY SharePrimed
    <2>5. Occ(results', Answers({id})) = Occ(results, Answers({id}))
      OBVIOUS
    <2> QED
      BY <2>2, <2>3, <2>4, <2>5
  <1>5. ASSUME NEW q \in Requests \ {r} PROVE AccInv(q)'
    <2>1. AccInv(q) /\ \A id \in Ids(q) : Share(q, id)' <= Share(q, id)
      BY <1>4 DEF AccountInv
    <2>2. req'[q].pc = req[q].pc /\ Ids(q) \cap waiting \subseteq waiting'
      BY <1>1
    <2>3. Occ(results', Errors(Ids(q))) = Occ(results, Errors(Ids(q))) /\ Occ(results, Errors(Ids(q))) \in Nat
      BY CountTypes DEF Counts
    <2>4. req[q].pc = "recv" => \/ Occ(results', Errors(Ids(q))) > 0
                              \/ /\ Occ(results, Errors(Ids(q))) = 0
                                 /\ \A id \in Ids(q) : Share(q, id)' = Share(q, id)
      BY <2>3, <1>4
    <2> QED
      BY <2>1, <2>2, <2>4, AccKeep
  <1>6. AccInv(r)'
    <2>1. AccInv(r)
      BY DEF AccountInv
    <2>2. \A id \in Ids(r) : Share(r, id)' <= 1
      BY <2>1, <1>4 DEF AccInv
    <2>3. req'[r].pc \in Waits => \A id \in Ids(r) : Share(r, id)' = 0
      BY <2>1, <1>1, <1>4 DEF AccInv
    <2>4. req'[r].pc \in {"post", "recv"} => Ids(r) \subseteq waiting'
      BY <1>1
    <2>5. req'[r].pc # "recv"
      BY <1>1
    <2> QED
      BY <2>2, <2>3, <2>4, <2>5, AccPrimed
  <1>7. CancelInv'
    <2>1. \A q \in Requests : req[q].pc = "done" => req'[q].pc = "done"
      BY <1>1
    <2>2. ASSUME NEW id \in AllIds PROVE Lined({CancelTask(id)})' <= Lined({CancelTask(id)})
      <3>1. Lined({CancelTask(id)}) \in Nat
        BY CountTypes DEF Counts
      <3>2. Lined({CancelTask(id)})' = Lined({CancelTask(id)})
        BY <1>3
      <3> QED
        BY <3>1, <3>2
    <2> QED
      BY <2>1, <2>2, CancelKeep DEF AccountInv
  <1>8. OrphanInv'
    <2>1. AllIds' = AllIds
      BY Rigid
    <2>2. ASSUME NEW id \in AllIds, Occ(results', Answers({id})) > 0 PROVE id \in waiting' \/ req'[id[1]].pc = "cancel"
      <3>1. id[1] \in Requests /\ id \in Ids(id[1])
        BY IdFacts DEF Types
      <3>2. CASE id[1] = r
        BY <3>1, <3>2, <2>2, <1>1
      <3>3. CASE id[1] # r
        BY <3>1, <3>3, <2>2, <1>1 DEF AccountInv, OrphanInv
      <3> QED
        BY <3>2, <3>3
    <2> QED
      BY <2>1, <2>2 DEF OrphanInv, Answers
  <1> QED
    BY <1>5, <1>6, <1>7, <1>8 DEF AccountInv

\* The ids of two requests are different.
LEMMA IdsApart ==
    ASSUME Types, NEW q \in Requests, NEW r \in Requests, q # r
    PROVE  Ids(q) \cap Ids(r) = {}
  BY DEF Ids

\* A request before its post, and after its last result.
LEMMA AccountArrive ==
    ASSUME Types, Types', AccountInv, NEW r \in Requests, Arrive(r) \/ NoSleep(r) \/ Register(r) \/ Leave(r) \/ Forget(r)
    PROVE  AccountInv'
  <1>1. UNCHANGED <<setup, queue, deferred, unhandled, hand, slot, results>>
    BY DEF Arrive, NoSleep, Register, Leave, Forget, taskVars, loopVars, resultVars
  <1>2. AccInv(r)
    BY DEF AccountInv
  <1>3. ASSUME NEW id \in Ids(r) PROVE id \in AllIds /\ id[1] = r
    BY Parameters, IdFacts DEF Types
  <1>4. CASE req' = req /\ waiting' = waiting
    <2>1. \A X : Lined(X)' = Lined(X)
      BY <1>1 DEF Lined, Listed, InHand
    <2> QED
      BY <2>1, <1>1, <1>4, AccountMoves
  <1>5. ASSUME NEW pc \in {"ready", "done", "nosleep"}, GoTo(r, pc), waiting' = waiting, req[r].pc \in {"new", "nosleep"}
        PROVE  AccountInv'
    <2>1. pc \in Waits \cup {"recv", "forget", "cancel", "done"} /\ req[r].pc # "done" /\ pc # "recv" /\ pc # "post"
          /\ req[r].pc \in Waits
      BY <1>5 DEF Waits
    <2>2. ASSUME NEW id \in Ids(r), Occ(results, Answers({id})) > 0 PROVE FALSE
      <3>1. Share(r, id) = 0
        BY <2>1, <1>2 DEF AccInv
      <3> QED
        BY <3>1, <2>2, SharePrimed
    <2> QED
      BY <2>1, <2>2, <1>1, <1>5, AccountGoTo
  <1>6. CASE Register(r)
    <2>1. req[r].pc = "ready" /\ waiting' = waiting \cup Ids(r) /\ GoTo(r, "post")
      BY <1>6 DEF Register
    <2>2. "post" \in Waits /\ req[r].pc \in Waits
      BY <2>1 DEF Waits
    <2>3. ASSUME NEW q \in Requests \ {r} PROVE Ids(q) \cap waiting' = Ids(q) \cap waiting
      BY <2>1, IdsApart
    <2>4. \A id \in Ids(r) : Occ(results, Answers({id})) > 0 => id \in waiting'
      BY <2>1
    <2> QED
      BY <2>1, <2>2, <2>3, <2>4, <1>1, AccountGoTo
  <1>7. CASE Leave(r)
    <2>1. req[r].pc = "recv" /\ GoTo(r, "forget") /\ waiting' = waiting
      BY <1>7 DEF Leave, resultVars
    <2>2. "forget" \notin Waits
      BY DEF Waits
    <2>3. Ids(r) \subseteq waiting
      BY <2>1, <1>2 DEF AccInv
    <2> QED
      BY <2>1, <2>2, <2>3, <1>1, AccountGoTo
  <1>8. CASE Forget(r)
    <2> DEFINE pc == IF req[r].got = Ids(r) THEN "done" ELSE "cancel"
    <2>1. req[r].pc = "forget" /\ GoTo(r, pc) /\ waiting' = waiting \ Ids(r)
      BY <1>8 DEF Forget
    <2>2. pc \in {"done", "cancel"} /\ pc \notin Waits
      BY DEF Waits
    <2>3. ASSUME NEW q \in Requests \ {r} PROVE Ids(q) \cap waiting' = Ids(q) \cap waiting
      BY <2>1, IdsApart
    <2>4. ASSUME NEW id \in Ids(r), Occ(results, Answers({id})) > 0, pc # "cancel" PROVE FALSE
      <3>1. Got(r, id) = 1
        BY <2>4 DEF Got
      <3>2. Share(r, id) <= 1
        BY <1>2 DEF AccInv
      <3> QED
        BY <3>1, <3>2, <2>4, SharePrimed
    <2> HIDE DEF pc
    <2> QED
      BY <2>1, <2>2, <2>3, <2>4, <1>1, AccountGoTo
  <1>9. CASE Arrive(r)
    <2>1. waiting' = waiting /\ req[r].pc = "new" /\ (GoTo(r, "ready") \/ GoTo(r, "done") \/ GoTo(r, "nosleep"))
      BY <1>9 DEF Arrive, resultVars
    <2> QED
      BY <2>1, <1>5
  <1>10. CASE NoSleep(r)
    <2>1. waiting' = waiting /\ req[r].pc = "nosleep" /\ (GoTo(r, "ready") \/ req' = req)
      BY <1>10 DEF NoSleep, resultVars
    <2> QED
      BY <2>1, <1>4, <1>5
  <1> QED
    BY <1>6, <1>7, <1>8, <1>9, <1>10

\* A task is posted: the share of each id is 0 before, and 1 after.
LEMMA AccountPost == ASSUME Types, Types', AccountInv, NEW r \in Requests, Post(r) PROVE AccountInv'
  <1> DEFINE t == Task(<<r, 0>>)
  <1>1. /\ UNCHANGED <<setup, deferred, unhandled, hand, slot, waiting, results>> /\ req[r].pc = "post"
        /\ queue' = <<t>> \o queue \/ queue' = Append(queue, t)
    BY DEF Post, loopVars, resultVars
  <1>2. /\ req'[r].pc = "recv" /\ req'[r].got = req[r].got
        /\ \A q \in Requests \ {r} : req'[q] = req[q]
    <2> DEFINE n == 1 + Cardinality({q \in Requests : req[q].turn > 0})
    <2>1. req' = [req EXCEPT ![r].pc = "recv", ![r].turn = n]
      BY DEF Post
    <2> HIDE DEF n
    <2>2. req \in [Requests -> ReqRec] /\ req[r] \in ReqRec
      BY DEF Types, ReqRec
    <2> QED
      BY <2>1, <2>2 DEF ReqRec
  <1>3. queue \in Seq(ListRec) /\ t \in ListRec
    BY DEF Types, ListRec
  <1> HIDE DEF t
  <1>4. ASSUME NEW X PROVE Lined(X)' = Lined(X) + (IF t \in X THEN 1 ELSE 0)
    <2>1. Occ(queue', X) = Occ(queue, X) + (IF t \in X THEN 1 ELSE 0) /\ Occ(queue, X) \in Nat
      <3>1. Occ(queue, X) \in Nat
        BY <1>3, OccNat
      <3>2. Occ(Append(queue, t), X) = Occ(queue, X) + (IF t \in X THEN 1 ELSE 0)
        BY <1>3, OccAppend
      <3>3. <<t>> \in Seq(ListRec)
        BY <1>3
      <3>4. Occ(<<t>> \o queue, X) = Occ(<<t>>, X) + Occ(queue, X)
        BY <1>3, <3>3, OccConcat
      <3>5. Occ(<<t>>, X) = IF t \in X THEN 1 ELSE 0
        BY OccOne
      <3>6. Occ(<<t>> \o queue, X) = Occ(queue, X) + (IF t \in X THEN 1 ELSE 0)
        BY <3>1, <3>4, <3>5
      <3> QED
        BY <3>1, <3>2, <3>6, <1>1
    <2>2. Lined(X)' = Occ(queue', X) + Occ(deferred, X) + Occ(unhandled, X) + InHand("main", X) + InHand("worker", X)
      BY <1>1 DEF Lined, Listed, InHand
    <2>3. Lined(X) = Occ(queue, X) + Occ(deferred, X) + Occ(unhandled, X) + InHand("main", X) + InHand("worker", X)
      BY DEF Lined, Listed
    <2>4. Occ(deferred, X) \in Nat /\ Occ(unhandled, X) \in Nat /\ InHand("main", X) \in {0, 1} /\ InHand("worker", X) \in {0, 1}
      BY CountTypes DEF Counts
    <2> QED
      BY <2>1, <2>2, <2>3, <2>4
  <1>5. ASSUME NEW q \in Requests
        PROVE  Lined({Task(<<q, 0>>)})' = Lined({Task(<<q, 0>>)}) + (IF q = r THEN 1 ELSE 0)
    <2>1. PICK X : X = {Task(<<q, 0>>)}
      OBVIOUS
    <2>2. t \in X <=> q = r
      BY <2>1, RecFacts DEF t
    <2>3. Lined(X)' = Lined(X) + (IF q = r THEN 1 ELSE 0)
      BY <2>2, <1>4
    <2> QED
      BY <2>1, <2>3 DEF Lined, Listed, InHand, Task
  <1>6. ASSUME NEW id PROVE Lined({CancelTask(id)})' <= Lined({CancelTask(id)})
    <2>1. PICK X : X = {CancelTask(id)}
      OBVIOUS
    <2>2. t \notin X
      BY <2>1, RecFacts DEF t
    <2>3. Lined(X) \in Nat
      BY CountTypes DEF Counts
    <2>4. Lined(X)' <= Lined(X)
      BY <2>2, <2>3, <1>4
    <2> QED
      BY <2>1, <2>4 DEF Lined, Listed, InHand, CancelTask
  <1>7. ASSUME NEW q \in Requests, NEW id \in Ids(q)
        PROVE  Share(q, id)' = Share(q, id) + (IF q = r THEN 1 ELSE 0) /\ Share(q, id) \in Nat
    <2>1. Own(id)' = Own(id)
      BY <1>1, OwnSame
    <2>2. Work(q, id)' = Lined({Task(<<q, 0>>)})' + Own(id)' /\ Work(q, id) = Lined({Task(<<q, 0>>)}) + Own(id)
      BY WorkPrimed
    <2>3. Lined({Task(<<q, 0>>)}) \in Nat /\ Own(id) \in Nat
      BY CountTypes DEF Counts
    <2>4. Work(q, id)' = Work(q, id) + (IF q = r THEN 1 ELSE 0)
      BY <2>1, <2>2, <2>3, <1>5
    <2>5. Got(q, id)' = Got(q, id)
      BY <1>2 DEF Got
    <2>6. /\ Share(q, id)' = Work(q, id)' + Occ(results', Answers({id})) + Got(q, id)'
          /\ Share(q, id) = Work(q, id) + Occ(results, Answers({id})) + Got(q, id)
          /\ Work(q, id) \in Nat /\ Occ(results, Answers({id})) \in Nat /\ Got(q, id) \in {0, 1}
      BY SharePrimed
    <2>7. Occ(results', Answers({id})) = Occ(results, Answers({id}))
      BY <1>1
    <2> QED
      BY <2>4, <2>5, <2>6, <2>7
  <1>8. ASSUME NEW q \in Requests \ {r} PROVE AccInv(q)'
    <2>1. AccInv(q) /\ \A id \in Ids(q) : Share(q, id)' <= Share(q, id) /\ Share(q, id)' = Share(q, id)
      BY <1>7 DEF AccountInv
    <2>2. req'[q].pc = req[q].pc /\ Ids(q) \cap waiting \subseteq waiting'
      BY <1>1, <1>2
    <2>3. Occ(results', Errors(Ids(q))) = Occ(results, Errors(Ids(q))) /\ Occ(results, Errors(Ids(q))) \in Nat
      BY <1>1, CountTypes DEF Counts
    <2>4. req[q].pc = "recv" => \/ Occ(results', Errors(Ids(q))) > 0
                              \/ /\ Occ(results, Errors(Ids(q))) = 0
                                 /\ \A id \in Ids(q) : Share(q, id)' = Share(q, id)
      BY <2>1, <2>3
    <2> QED
      BY <2>1, <2>2, <2>4, <1>1, AccKeep
  <1>9. AccInv(r)'
    <2>1. AccInv(r) /\ "post" \in Waits /\ "recv" \notin Waits
      BY DEF AccountInv, Waits
    <2>2. ASSUME NEW id \in Ids(r) PROVE Share(r, id)' = 1
      <3>1. Share(r, id) = 0
        BY <2>1, <1>1 DEF AccInv
      <3> QED
        BY <3>1, <1>7
    <2>3. Ids(r) \subseteq waiting'
      BY <2>1, <1>1 DEF AccInv
    <2> QED
      BY <2>1, <2>2, <2>3, <1>1, <1>2, AccPrimed
  <1>10. CancelInv'
    <2>1. \A q \in Requests : req[q].pc = "done" => req'[q].pc = "done"
      BY <1>1, <1>2
    <2> QED
      BY <2>1, <1>1, <1>6, CancelKeep DEF AccountInv
  <1>11. OrphanInv'
    <2>1. AllIds' = AllIds
      BY <1>1, Rigid
    <2>2. ASSUME NEW id \in AllIds, Occ(results', Answers({id})) > 0 PROVE id \in waiting' \/ req'[id[1]].pc = "cancel"
      <3>1. id[1] \in Requests
        BY IdFacts DEF Types
      <3>2. id \in waiting \/ req[id[1]].pc = "cancel"
        BY <2>2, <1>1 DEF AccountInv, OrphanInv
      <3> QED
        BY <3>1, <3>2, <1>1, <1>2
    <2> QED
      BY <2>1, <2>2 DEF OrphanInv, Answers
  <1> QED
    BY <1>8, <1>9, <1>10, <1>11 DEF AccountInv

\* A result is taken: it is one of those received, or an error that ends the reader.
LEMMA AccountReceive == ASSUME Types, Types', AccountInv, NEW r \in Requests, Receive(r) PROVE AccountInv'
  <1>1. UNCHANGED <<setup, queue, deferred, unhandled, hand, slot, waiting>> /\ req[r].pc = "recv"
    BY DEF Receive, taskVars, loopVars
  <1>2. PICK i \in DOMAIN results :
          /\ results[i].id \in Ids(r) /\ results' = RemoveAt(results, i)
          /\ LET got == req[r].got \cup IF results[i].error THEN {} ELSE {results[i].id}
             IN  req' = [req EXCEPT ![r].got = got,
                          ![r].pc = IF results[i].error \/ got = Ids(r) THEN "forget" ELSE "recv"]
    BY DEF Receive
  <1> DEFINE a == results[i].id
             error == results[i].error
             got == req[r].got \cup IF error THEN {} ELSE {a}
             pc == IF error \/ got = Ids(r) THEN "forget" ELSE "recv"
  <1>3. results \in Seq(ResultRec) /\ i \in 1 .. Len(results)
    BY LenProperties DEF Types
  <1>4. results[i] \in ResultRec
    BY <1>3, ElementOfSeq
  <1>5. a \in AllIds /\ error \in BOOLEAN /\ results[i] = [id |-> a, error |-> error] /\ a \in Ids(r) /\ a[1] = r
    <2>1. a \in AllIds /\ error \in BOOLEAN /\ results[i] = [id |-> a, error |-> error] /\ a \in Ids(r)
      BY <1>2, <1>4 DEF ResultRec
    <2> QED
      BY <2>1, IdFacts DEF Types
  <1>6. /\ req'[r].pc = pc /\ req'[r].got = got
        /\ \A q \in Requests \ {r} : req'[q] = req[q]
    <2>1. req' = [req EXCEPT ![r].got = got, ![r].pc = pc]
      BY <1>2
    <2>2. req \in [Requests -> ReqRec] /\ req[r] \in ReqRec
      BY DEF Types, ReqRec
    <2> HIDE DEF got, pc
    <2> QED
      BY <2>1, <2>2 DEF ReqRec
  <1>7. ASSUME NEW X
        PROVE  /\ Occ(results, X) = Occ(results', X) + (IF results[i] \in X THEN 1 ELSE 0)
               /\ Occ(results, X) \in Nat /\ Occ(results', X) \in Nat
    <2>1. Occ(results, X) = Occ(RemoveAt(results, i), X) + (IF results[i] \in X THEN 1 ELSE 0)
      BY <1>3, OccRemoveAt
    <2>2. Occ(results, X) \in Nat
      BY CountTypes DEF Counts
    <2>3. Occ(results', X) \in Nat
      BY CountTypesPrimed DEF Counts
    <2> QED
      BY <2>1, <2>2, <2>3, <1>2
  <1>8. \A id : results[i] \in Answers({id}) <=> a = id
    BY <1>5 DEF Answers
  <1>9. \A q \in Requests : results[i] \in Errors(Ids(q)) <=> q = r /\ error
    BY <1>5, IdFacts DEF Errors, Types
  <1> HIDE DEF a, error
  <1>10. ASSUME NEW b PROVE Lined({Task(b)})' = Lined({Task(b)}) /\ Lined({CancelTask(b)})' = Lined({CancelTask(b)})
    BY <1>1 DEF Lined, Listed, InHand, Task, CancelTask
  <1>11. ASSUME NEW q \in Requests, NEW id \in Ids(q)
         PROVE  /\ Share(q, id)' = Work(q, id) + Occ(results', Answers({id})) + Got(q, id)'
                /\ Share(q, id) = Work(q, id) + Occ(results, Answers({id})) + Got(q, id)
                /\ Work(q, id) \in Nat /\ Occ(results, Answers({id})) \in Nat /\ Got(q, id) \in {0, 1}
                /\ Occ(results', Answers({id})) \in Nat /\ Got(q, id)' \in {0, 1}
                /\ Occ(results, Answers({id})) = Occ(results', Answers({id})) + (IF a = id THEN 1 ELSE 0)
    <2>1. Own(id)' = Own(id)
      BY <1>1, OwnSame
    <2>2. Work(q, id)' = Work(q, id)
      BY <2>1, <1>10, WorkPrimed
    <2>3. Occ(results, Answers({id})) = Occ(results', Answers({id})) + (IF results[i] \in Answers({id}) THEN 1 ELSE 0)
      BY <1>7
    <2>4. results[i] \in Answers({id}) <=> a = id
      BY <1>8
    <2>5. /\ Share(q, id)' = Work(q, id)' + Occ(results', Answers({id})) + Got(q, id)'
          /\ Share(q, id) = Work(q, id) + Occ(results, Answers({id})) + Got(q, id)
          /\ Work(q, id) \in Nat /\ Occ(results, Answers({id})) \in Nat /\ Got(q, id) \in {0, 1}
          /\ Occ(results', Answers({id})) \in Nat /\ Got(q, id)' \in {0, 1}
      BY SharePrimed
    <2> QED
      BY <2>2, <2>3, <2>4, <2>5
  <1>12. ASSUME NEW q \in Requests \ {r} PROVE AccInv(q)'
    <2>1. ASSUME NEW id \in Ids(q) PROVE Share(q, id)' <= Share(q, id) /\ Share(q, id)' = Share(q, id)
      <3>1. a # id
        BY <1>5, IdFacts DEF Types
      <3>2. Got(q, id)' = Got(q, id)
        BY <1>6 DEF Got
      <3>3. /\ Share(q, id)' = Work(q, id) + Occ(results', Answers({id})) + Got(q, id)'
            /\ Share(q, id) = Work(q, id) + Occ(results, Answers({id})) + Got(q, id)
            /\ Work(q, id) \in Nat /\ Occ(results, Answers({id})) \in Nat /\ Got(q, id) \in {0, 1}
            /\ Occ(results', Answers({id})) \in Nat /\ Got(q, id)' \in {0, 1}
            /\ Occ(results, Answers({id})) = Occ(results', Answers({id})) + (IF a = id THEN 1 ELSE 0)
        BY <1>11
      <3> QED
        BY <3>1, <3>2, <3>3
    <2>2. Occ(results', Errors(Ids(q))) = Occ(results, Errors(Ids(q))) /\ Occ(results, Errors(Ids(q))) \in Nat
      BY <1>7, <1>9
    <2>3. AccInv(q) /\ req'[q].pc = req[q].pc /\ Ids(q) \cap waiting \subseteq waiting'
      BY <1>1, <1>6 DEF AccountInv
    <2>4. req[q].pc = "recv" => \/ Occ(results', Errors(Ids(q))) > 0
                              \/ /\ Occ(results, Errors(Ids(q))) = 0
                                 /\ \A id \in Ids(q) : Share(q, id)' = Share(q, id)
      BY <2>1, <2>2
    <2> QED
      BY <2>1, <2>3, <2>4, <1>1, AccKeep
  <1>13. AccInv(r)'
    <2>1. AccInv(r)
      BY DEF AccountInv
    <2>2. ASSUME NEW id \in Ids(r) PROVE Share(r, id)' <= 1 /\ (~ error => Share(r, id)' = Share(r, id))
      <3>1. Share(r, id) <= 1
        BY <2>1 DEF AccInv
      <3>2. a # id \/ error => Got(r, id)' = Got(r, id)
        BY <1>6 DEF Got
      <3>3. a = id /\ ~ error => Got(r, id)' = 1
        BY <1>6 DEF Got
      <3>4. /\ Share(r, id)' = Work(r, id) + Occ(results', Answers({id})) + Got(r, id)'
            /\ Share(r, id) = Work(r, id) + Occ(results, Answers({id})) + Got(r, id)
            /\ Work(r, id) \in Nat /\ Occ(results, Answers({id})) \in Nat /\ Got(r, id) \in {0, 1}
            /\ Occ(results', Answers({id})) \in Nat /\ Got(r, id)' \in {0, 1}
            /\ Occ(results, Answers({id})) = Occ(results', Answers({id})) + (IF a = id THEN 1 ELSE 0)
        BY <1>11
      <3> QED
        BY <3>1, <3>2, <3>3, <3>4
    <2>3. Occ(results', Errors(Ids(r))) \in Nat /\ (~ error => Occ(results', Errors(Ids(r))) = Occ(results, Errors(Ids(r))))
      <3>1. /\ Occ(results, Errors(Ids(r))) = Occ(results', Errors(Ids(r))) + (IF results[i] \in Errors(Ids(r)) THEN 1 ELSE 0)
            /\ Occ(results', Errors(Ids(r))) \in Nat
        BY <1>7
      <3>2. results[i] \in Errors(Ids(r)) <=> error
        BY <1>9
      <3> QED
        BY <3>1, <3>2
    <2>4. pc \notin Waits /\ pc \in {"forget", "recv"} /\ (pc = "recv" => ~ error)
      BY DEF Waits
    <2>5. Ids(r) \subseteq waiting'
      BY <2>1, <1>1 DEF AccInv
    <2>6. req'[r].pc = "recv" => Occ(results', Errors(Ids(r))) > 0 \/ \A id \in Ids(r) : Share(r, id)' = 1
      <3>1. Occ(results, Errors(Ids(r))) > 0 \/ \A id \in Ids(r) : Share(r, id) = 1
        BY <2>1, <1>1 DEF AccInv
      <3> HIDE DEF pc
      <3> QED
        BY <3>1, <2>2, <2>3, <2>4, <1>6
    <2> HIDE DEF pc
    <2> QED
      BY <2>2, <2>4, <2>5, <2>6, <1>1, <1>6, AccPrimed
  <1>14. CancelInv'
    <2>1. \A q \in Requests : req[q].pc = "done" => req'[q].pc = "done"
      BY <1>1, <1>6
    <2>2. ASSUME NEW id PROVE Lined({CancelTask(id)})' <= Lined({CancelTask(id)})
      <3>1. Lined({CancelTask(id)}) \in Nat
        BY CountTypes DEF Counts
      <3>2. Lined({CancelTask(id)})' = Lined({CancelTask(id)})
        BY <1>10
      <3> QED
        BY <3>1, <3>2
    <2> QED
      BY <2>1, <2>2, <1>1, CancelKeep DEF AccountInv
  <1>15. OrphanInv'
    <2>1. AllIds' = AllIds
      BY <1>1, Rigid
    <2>2. ASSUME NEW id \in AllIds, Occ(results', Answers({id})) > 0 PROVE id \in waiting' \/ req'[id[1]].pc = "cancel"
      <3>1. id[1] \in Requests
        BY IdFacts DEF Types
      <3>2. /\ Occ(results, Answers({id})) = Occ(results', Answers({id})) + (IF results[i] \in Answers({id}) THEN 1 ELSE 0)
            /\ Occ(results', Answers({id})) \in Nat
        BY <1>7
      <3>3. Occ(results, Answers({id})) > 0
        BY <3>2, <2>2
      <3>4. id \in waiting \/ req[id[1]].pc = "cancel"
        BY <3>3 DEF AccountInv, OrphanInv
      <3> QED
        BY <3>1, <3>4, <1>1, <1>6
    <2> QED
      BY <2>1, <2>2 DEF OrphanInv, Answers
  <1> QED
    BY <1>12, <1>13, <1>14, <1>15 DEF AccountInv

\* A request is cancelled: its tasks leave the lists and its results are dropped.
LEMMA AccountStopTasks == ASSUME Types, Types', AccountInv, NEW r \in Requests, StopTasks(r) PROVE AccountInv'
  <1>1. PICK order \in SetToSeqs(Ids(r)) :
          queue' = [i \in DOMAIN order |-> CancelTask(order[i])] \o Without(queue, Ids(r))
    BY DEF StopTasks
  <1>2. /\ UNCHANGED <<setup, hand, slot, waiting>> /\ req[r].pc = "cancel"
        /\ results' = Drop(results, Answers(Ids(r)))
        /\ deferred' = Without(deferred, Ids(r)) /\ unhandled' = Without(unhandled, Ids(r)) /\ GoTo(r, "done")
    BY DEF StopTasks, loopVars, Answers
  <1>3. /\ req'[r].pc = "done" /\ req'[r].got = req[r].got
        /\ \A q \in Requests \ {r} : req'[q] = req[q]
    BY <1>2, GoToFacts
  <1> DEFINE c == [i \in DOMAIN order |-> CancelTask(order[i])]
             C == {CancelTask(id) : id \in Ids(r)}
             D == {Task(id) : id \in Ids(r)}
  <1>4. c \in Seq(C)
    BY CancelList
  <1>5. C \subseteq ListRec
    BY Parameters DEF Types, ListRec
  <1>6. queue' = c \o Drop(queue, D) /\ deferred' = Drop(deferred, D) /\ unhandled' = Drop(unhandled, D)
    BY <1>1, <1>2 DEF Without
  <1> HIDE DEF c
  <1>7. c \in Seq(ListRec)
    BY <1>4, <1>5, SeqMonotonic
  <1>8. queue \in Seq(ListRec) /\ deferred \in Seq(ListRec) /\ unhandled \in Seq(ListRec) /\ results \in Seq(ResultRec)
    BY DEF Types
  <1>9. ASSUME NEW X
        PROVE  /\ Listed(X)' = Occ(c, X) + Listed(X \ D)
               /\ Occ(c, X) \in Nat /\ Listed(X \ D) \in Nat
    <2> HIDE DEF C, D
    <2>1. Drop(queue, D) \in Seq(ListRec) /\ Occ(Drop(queue, D), X) = Occ(queue, X \ D)
      BY <1>8, DropFacts
    <2>2. Occ(Drop(deferred, D), X) = Occ(deferred, X \ D)
      BY <1>8, DropFacts
    <2>3. Occ(Drop(unhandled, D), X) = Occ(unhandled, X \ D)
      BY <1>8, DropFacts
    <2>4. Occ(c \o Drop(queue, D), X) = Occ(c, X) + Occ(Drop(queue, D), X)
      BY <2>1, <1>7, OccConcat
    <2>5. Occ(queue, X \ D) \in Nat /\ Occ(deferred, X \ D) \in Nat /\ Occ(unhandled, X \ D) \in Nat /\ Listed(X \ D) \in Nat
      BY CountTypes DEF Counts
    <2>6. Occ(c, X) \in Nat
      BY <1>7, OccNat
    <2>7. Listed(X)' = Occ(c \o Drop(queue, D), X) + Occ(Drop(deferred, D), X) + Occ(Drop(unhandled, D), X)
      BY <1>6 DEF Listed
    <2>8. Listed(X \ D) = Occ(queue, X \ D) + Occ(deferred, X \ D) + Occ(unhandled, X \ D)
      BY DEF Listed
    <2> QED
      BY <2>1, <2>2, <2>3, <2>4, <2>5, <2>6, <2>7, <2>8
  <1>10. ASSUME NEW X, X \cap C = {} PROVE Occ(c, X) = 0
    <2> HIDE DEF C
    <2>1. \A i \in DOMAIN c : c[i] \in C
      BY <1>4, LenProperties, ElementOfSeq
    <2>2. \A i \in DOMAIN c : c[i] \notin X
      BY <2>1, <1>10
    <2> QED
      BY <2>2, <1>7, OccNat
  <1>11. \A X : InHand("main", X)' = InHand("main", X) /\ InHand("worker", X)' = InHand("worker", X)
    BY <1>2 DEF InHand
  <1>12. ASSUME NEW X, X \cap C = {}
         PROVE  Lined(X)' <= Lined(X) /\ (X \cap D = {} => Lined(X)' = Lined(X))
    <2> HIDE DEF C
    <2>1. Listed(X)' = Listed(X \ D)
      <3>1. Listed(X)' = Occ(c, X) + Listed(X \ D) /\ Listed(X \ D) \in Nat
        BY <1>9
      <3>2. Occ(c, X) = 0
        BY <1>10, <1>12
      <3> HIDE DEF D
      <3> QED
        BY <3>1, <3>2
    <2>2. Listed(X) \in Nat /\ InHand("main", X) \in {0, 1} /\ InHand("worker", X) \in {0, 1}
      BY CountTypes DEF Counts
    <2>3. Listed(X \ D) \in Nat /\ Listed(X \ D) <= Listed(X) /\ (X \cap D = {} => Listed(X \ D) = Listed(X))
      <3> HIDE DEF D
      <3>1. Listed(X \ D) \in Nat
        BY <1>9
      <3>2. X \cap D = {} => X \ D = X
        OBVIOUS
      <3>3. ASSUME NEW q \in Seq(ListRec) PROVE Occ(q, X \ D) <= Occ(q, X) /\ Occ(q, X) \in Nat /\ Occ(q, X \ D) \in Nat
        BY OccMonotone, OccNat
      <3>4. /\ Occ(queue, X \ D) <= Occ(queue, X) /\ Occ(queue, X) \in Nat /\ Occ(queue, X \ D) \in Nat
            /\ Occ(deferred, X \ D) <= Occ(deferred, X) /\ Occ(deferred, X) \in Nat /\ Occ(deferred, X \ D) \in Nat
            /\ Occ(unhandled, X \ D) <= Occ(unhandled, X) /\ Occ(unhandled, X) \in Nat /\ Occ(unhandled, X \ D) \in Nat
        BY <3>3, <1>8
      <3>5. Listed(X \ D) <= Listed(X)
        BY <3>4 DEF Listed
      <3> QED
        BY <3>1, <3>2, <3>5
    <2>4. Lined(X)' = Listed(X)' + InHand("main", X) + InHand("worker", X)
      BY <1>11 DEF Lined
    <2>5. Lined(X) = Listed(X) + InHand("main", X) + InHand("worker", X)
      BY DEF Lined
    <2> HIDE DEF D
    <2> QED
      BY <2>1, <2>2, <2>3, <2>4, <2>5
  <1>13. ASSUME NEW q \in Requests
         PROVE  /\ Lined({Task(<<q, 0>>)})' <= Lined({Task(<<q, 0>>)})
                /\ q # r => Lined({Task(<<q, 0>>)})' = Lined({Task(<<q, 0>>)})
    <2>1. PICK X : X = {Task(<<q, 0>>)}
      OBVIOUS
    <2>2. X \cap C = {}
      BY <2>1, RecFacts
    <2>3. q # r => X \cap D = {}
      <3>1. q # r => <<q, 0>> \notin Ids(r)
        BY DEF Ids
      <3> QED
        BY <3>1, <2>1, RecFacts
    <2> HIDE DEF C, D
    <2>4. Lined(X)' <= Lined(X) /\ (q # r => Lined(X)' = Lined(X))
      BY <2>2, <2>3, <1>12
    <2> QED
      BY <2>1, <2>4 DEF Lined, Listed, InHand, Task
  <1>14. ASSUME NEW id \in AllIds, id \notin Ids(r) PROVE Lined({CancelTask(id)})' <= Lined({CancelTask(id)})
    <2>1. PICK X : X = {CancelTask(id)}
      OBVIOUS
    <2>2. X \cap C = {}
      BY <2>1, <1>14, RecFacts
    <2> HIDE DEF C, D
    <2>3. Lined(X)' <= Lined(X)
      BY <2>2, <1>12
    <2> QED
      BY <2>1, <2>3 DEF Lined, Listed, InHand, CancelTask
  <1>15. ASSUME NEW X PROVE Occ(results', X) = Occ(results, X \ Answers(Ids(r))) /\ Occ(results, X) \in Nat
    <2>1. Occ(Drop(results, Answers(Ids(r))), X) = Occ(results, X \ Answers(Ids(r)))
      BY <1>8, DropFacts
    <2>2. Occ(results, X) \in Nat
      BY CountTypes DEF Counts
    <2> QED
      BY <2>1, <2>2, <1>2
  <1> HIDE DEF C, D
  <1>16. ASSUME NEW q \in Requests, NEW id \in Ids(q)
         PROVE  /\ q # r => Occ(results', Answers({id})) = Occ(results, Answers({id}))
                /\ q = r => Occ(results', Answers({id})) = 0
    <2>1. CASE q # r
      <3>1. id \notin Ids(r)
        BY <2>1, IdsApart
      <3>2. Answers({id}) \ Answers(Ids(r)) = Answers({id})
        BY <3>1 DEF Answers
      <3>3. Occ(results', Answers({id})) = Occ(results, Answers({id}) \ Answers(Ids(r)))
        BY <1>15
      <3> QED
        BY <3>2, <3>3, <2>1
    <2>2. CASE q = r
      <3>1. Answers({id}) \ Answers(Ids(r)) = {}
        BY <2>2 DEF Answers
      <3>2. Occ(results', Answers({id})) = Occ(results, Answers({id}) \ Answers(Ids(r)))
        BY <1>15
      <3>3. Occ(results, {}) = 0
        BY <1>8, OccNat
      <3> QED
        BY <3>1, <3>2, <3>3, <2>2
    <2> QED
      BY <2>1, <2>2
  <1>17. ASSUME NEW q \in Requests, NEW id \in Ids(q)
         PROVE  Share(q, id)' <= Share(q, id) /\ (q # r => Share(q, id)' = Share(q, id)) /\ Share(q, id)' \in Nat /\ Share(q, id) \in Nat
    <2>1. Own(id)' = Own(id)
      BY <1>2, OwnSame
    <2>2. Work(q, id)' = Lined({Task(<<q, 0>>)})' + Own(id)' /\ Work(q, id) = Lined({Task(<<q, 0>>)}) + Own(id)
      BY WorkPrimed
    <2>3. Lined({Task(<<q, 0>>)}) \in Nat /\ Own(id) \in Nat
      BY CountTypes DEF Counts
    <2>4. Lined({Task(<<q, 0>>)})' \in Nat
      <3>1. \A X : Lined(X)' \in Nat
        BY CountTypesPrimed DEF Counts
      <3> QED
        BY <3>1 DEF Lined, Listed, InHand, Task
    <2>5. Work(q, id)' <= Work(q, id) /\ (q # r => Work(q, id)' = Work(q, id))
      BY <2>1, <2>2, <2>3, <2>4, <1>13
    <2>6. Got(q, id)' = Got(q, id)
      BY <1>3 DEF Got
    <2>7. /\ Share(q, id)' = Work(q, id)' + Occ(results', Answers({id})) + Got(q, id)'
          /\ Share(q, id) = Work(q, id) + Occ(results, Answers({id})) + Got(q, id)
          /\ Work(q, id) \in Nat /\ Occ(results, Answers({id})) \in Nat /\ Got(q, id) \in {0, 1}
          /\ Work(q, id)' \in Nat /\ Occ(results', Answers({id})) \in Nat
      BY SharePrimed
    <2>8. /\ q # r => Occ(results', Answers({id})) = Occ(results, Answers({id}))
          /\ q = r => Occ(results', Answers({id})) = 0
      BY <1>16
    <2> QED
      BY <2>5, <2>6, <2>7, <2>8
  <1>18. ASSUME NEW q \in Requests \ {r} PROVE AccInv(q)'
    <2>1. Occ(results', Errors(Ids(q))) = Occ(results, Errors(Ids(q))) /\ Occ(results, Errors(Ids(q))) \in Nat
      <3>1. Errors(Ids(q)) \ Answers(Ids(r)) = Errors(Ids(q))
        BY IdsApart DEF Errors, Answers
      <3>2. Occ(results', Errors(Ids(q))) = Occ(results, Errors(Ids(q)) \ Answers(Ids(r))) /\ Occ(results, Errors(Ids(q))) \in Nat
        BY <1>15
      <3> QED
        BY <3>1, <3>2
    <2>2. AccInv(q) /\ req'[q].pc = req[q].pc /\ Ids(q) \cap waiting \subseteq waiting'
      BY <1>2, <1>3 DEF AccountInv
    <2>3. \A id \in Ids(q) : Share(q, id)' <= Share(q, id) /\ Share(q, id)' = Share(q, id)
      BY <1>17
    <2>4. req[q].pc = "recv" => \/ Occ(results', Errors(Ids(q))) > 0
                              \/ /\ Occ(results, Errors(Ids(q))) = 0
                                 /\ \A id \in Ids(q) : Share(q, id)' = Share(q, id)
      BY <2>1, <2>3
    <2> QED
      BY <2>2, <2>3, <2>4, <1>2, AccKeep
  <1>19. AccInv(r)'
    <2>1. ASSUME NEW id \in Ids(r) PROVE Share(r, id)' <= 1
      <3>1. Share(r, id) <= 1
        BY DEF AccountInv, AccInv
      <3>2. Share(r, id)' <= Share(r, id) /\ Share(r, id)' \in Nat /\ Share(r, id) \in Nat
        BY <1>17
      <3> QED
        BY <3>1, <3>2
    <2>2. req'[r].pc \notin Waits /\ req'[r].pc \notin {"post", "recv"}
      BY <1>3 DEF Waits
    <2> QED
      BY <2>1, <2>2, <1>2, AccPrimed
  <1>20. CancelInv'
    <2>1. AllIds' = AllIds
      BY <1>2, Rigid
    <2>2. ASSUME NEW id \in AllIds, Lined({CancelTask(id)})' > 0 PROVE req'[id[1]].pc = "done"
      <3>1. id[1] \in Requests /\ id \in Ids(id[1])
        BY IdFacts DEF Types
      <3>2. CASE id[1] = r
        BY <3>2, <1>3
      <3>3. CASE id[1] # r
        <4>1. id \notin Ids(r)
          BY <3>1, <3>3, IdsApart
        <4>2. Lined({CancelTask(id)})' <= Lined({CancelTask(id)})
          BY <4>1, <1>14
        <4>3. Lined({CancelTask(id)}) \in Nat
          BY CountTypes DEF Counts
        <4>4. Lined({CancelTask(id)})' \in Nat
          <5>1. \A X : Lined(X)' \in Nat
            BY CountTypesPrimed DEF Counts
          <5> QED
            BY <5>1 DEF Lined, Listed, InHand, CancelTask
        <4>5. Lined({CancelTask(id)}) > 0
          BY <4>2, <4>3, <4>4, <2>2
        <4> QED
          BY <4>5, <3>1, <3>3, <1>3 DEF AccountInv, CancelInv
      <3> QED
        BY <3>2, <3>3
    <2> QED
      BY <2>1, <2>2 DEF CancelInv
  <1>21. OrphanInv'
    <2>1. AllIds' = AllIds
      BY <1>2, Rigid
    <2>2. ASSUME NEW id \in AllIds, Occ(results', Answers({id})) > 0 PROVE id \in waiting' \/ req'[id[1]].pc = "cancel"
      <3>1. id[1] \in Requests /\ id \in Ids(id[1])
        BY IdFacts DEF Types
      <3>2. id[1] # r /\ Occ(results', Answers({id})) = Occ(results, Answers({id}))
        BY <3>1, <2>2, <1>16
      <3>3. id \in waiting \/ req[id[1]].pc = "cancel"
        BY <3>2, <2>2 DEF AccountInv, OrphanInv
      <3> QED
        BY <3>1, <3>2, <3>3, <1>2, <1>3
    <2> QED
      BY <2>1, <2>2 DEF OrphanInv, Answers
  <1> QED
    BY <1>18, <1>19, <1>20, <1>21 DEF AccountInv

\* Nothing is posted in the beginning.
LEMMA AccountInit == Init => AccountInv
  <1> SUFFICES ASSUME Init PROVE AccountInv
    OBVIOUS
  <1>1. Types
    BY TypesInit
  <1>2. ASSUME NEW X PROVE Occ(results, X) = 0 /\ (NoTask \notin X => Lined(X) = 0)
    <2>1. Occ(<<>>, X) = 0
      BY OccOne
    <2> QED
      BY <2>1 DEF Init, Lined, Listed, InHand
  <1>3. ASSUME NEW r \in Requests, NEW id \in Ids(r) PROVE Share(r, id) = 0
    <2>1. Lined({Task(<<r, 0>>)}) = 0
      BY <1>2, RecFacts
    <2>2. Own(id) = 0
      <3>1. id # NoId
        BY <1>1, Parameters, IdFacts DEF Types
      <3>2. {s \in Slots : slot[s].id = id} = {}
        BY <3>1 DEF Init, Free
      <3> QED
        BY <3>2, FS_EmptySet DEF Own
    <2>3. Got(r, id) = 0
      BY DEF Init, Got
    <2> QED
      BY <2>1, <2>2, <2>3, <1>2 DEF Share, Work
  <1>4. ASSUME NEW r \in Requests PROVE AccInv(r)
    <2>1. req[r].pc \in {"done", "new"}
      BY DEF Init
    <2> QED
      BY <2>1, <1>3 DEF AccInv
  <1>5. CancelInv
    <2>1. ASSUME NEW id \in AllIds PROVE Lined({CancelTask(id)}) = 0
      BY <1>2, RecFacts
    <2> QED
      BY <2>1 DEF CancelInv
  <1>6. OrphanInv
    BY <1>2 DEF OrphanInv
  <1> QED
    BY <1>4, <1>5, <1>6 DEF AccountInv

\* Every step keeps the account.
LEMMA AccountStep == Types /\ AccountInv /\ [Next]_vars => AccountInv'
  <1> SUFFICES ASSUME Types, AccountInv, [Next]_vars PROVE AccountInv'
    OBVIOUS
  <1>1. Types'
    BY TypesStep
  <1>2. CASE UNCHANGED vars \/ Terminate \/ FallAsleep
    BY <1>1, <1>2, AccountMain
  <1>3. CASE MainLoop
    BY <1>1, <1>3, AccountMain, AccountHandles, AccountSlots DEF MainLoop
  <1>4. CASE WorkerThread
    BY <1>1, <1>4, AccountWorker
  <1>5. ASSUME NEW r \in Requests, Client(r) \/ Leave(r) PROVE AccountInv'
    BY <1>1, <1>5, AccountArrive, AccountPost, AccountReceive, AccountStopTasks DEF Client
  <1> QED
    BY <1>2, <1>3, <1>4, <1>5 DEF Next

\* The places and the answers, as the property counts them.
LEMMA PlacesCounted ==
    ASSUME Types, NEW r \in Requests, NEW id \in Ids(r)
    PROVE  /\ Pending(id) = Occ(results, Answers({id}))
           /\ Places(id) = Lined({Task(id)}) + Own(id)
           /\ Queueable(r) = Lined({Task(<<r, 0>>)})
           /\ id[2] > 0 => Lined({Task(id)}) = 0
           /\ id[2] > 0 \/ id = <<r, 0>>
           /\ Failed(r) <=> Occ(results, Errors(Ids(r))) > 0
  <1>1. results \in Seq(ResultRec) /\ queue \in Seq(ListRec) /\ deferred \in Seq(ListRec) /\ unhandled \in Seq(ListRec)
    BY DEF Types
  <1>2. ASSUME NEW i \in DOMAIN results PROVE results[i] \in ResultRec
    BY <1>1, LenProperties, ElementOfSeq
  <1>3. Pending(id) = Occ(results, Answers({id}))
    <2>1. ASSUME NEW i \in DOMAIN results PROVE results[i].id = id <=> results[i] \in Answers({id})
      BY <1>2 DEF ResultRec, Answers
    <2>2. {i \in DOMAIN results : results[i].id = id} = {i \in DOMAIN results : results[i] \in Answers({id})}
      BY <2>1
    <2> QED
      BY <2>2 DEF Pending, Occ
  <1>4. Failed(r) <=> Occ(results, Errors(Ids(r))) > 0
    <2>1. ASSUME NEW i \in DOMAIN results PROVE results[i].error /\ results[i].id \in Ids(r) <=> results[i] \in Errors(Ids(r))
      BY <1>2 DEF ResultRec, Errors
    <2>2. Occ(results, Errors(Ids(r))) \in Nat /\ (Occ(results, Errors(Ids(r))) = 0 <=> \A i \in DOMAIN results : results[i] \notin Errors(Ids(r)))
      BY <1>1, OccNat
    <2> QED
      BY <2>1, <2>2 DEF Failed
  <1>5. ASSUME NEW b PROVE Places(b) = Lined({Task(b)}) + Own(b)
    <2>1. Cardinality({t \in DOMAIN hand : hand[t] = Task(b)}) = InHand("main", {Task(b)}) + InHand("worker", {Task(b)})
      <3> DEFINE H == {t \in DOMAIN hand : hand[t] = Task(b)}
      <3>1. DOMAIN hand = {"main", "worker"}
        BY DEF Types
      <3>2. CASE hand["main"] = Task(b) /\ hand["worker"] = Task(b)
        <4>1. H = {"main"} \cup {"worker"}
          BY <3>1, <3>2
        <4>2. IsFiniteSet({"main"}) /\ Cardinality({"main"}) = 1 /\ "worker" \notin {"main"}
          BY FS_Singleton
        <4>3. Cardinality({"main"} \cup {"worker"}) = 2
          BY <4>2, FS_AddElement
        <4>4. InHand("main", {Task(b)}) = 1 /\ InHand("worker", {Task(b)}) = 1
          BY <3>2 DEF InHand
        <4> HIDE DEF H
        <4>5. Cardinality(H) = 2
          BY <4>1, <4>3
        <4> QED
          BY <4>4, <4>5 DEF H
      <3>3. CASE hand["main"] = Task(b) /\ hand["worker"] # Task(b)
        <4>1. H = {"main"}
          BY <3>1, <3>3
        <4> QED
          BY <4>1, <3>3, FS_Singleton DEF InHand
      <3>4. CASE hand["main"] # Task(b) /\ hand["worker"] = Task(b)
        <4>1. H = {"worker"}
          BY <3>1, <3>4
        <4> QED
          BY <4>1, <3>4, FS_Singleton DEF InHand
      <3>5. CASE hand["main"] # Task(b) /\ hand["worker"] # Task(b)
        <4>1. H = {}
          BY <3>1, <3>5
        <4> QED
          BY <4>1, <3>5, FS_EmptySet DEF InHand
      <3> QED
        BY <3>2, <3>3, <3>4, <3>5
    <2>2. ASSUME NEW q PROVE Count(q, b) = Occ(q, {Task(b)})
      <3>1. {i \in DOMAIN q : q[i] = Task(b)} = {i \in DOMAIN q : q[i] \in {Task(b)}}
        OBVIOUS
      <3> QED
        BY <3>1 DEF Count, Occ
    <2>3. Listed({Task(b)}) \in Nat /\ InHand("main", {Task(b)}) \in {0, 1} /\ InHand("worker", {Task(b)}) \in {0, 1} /\ Own(b) \in Nat
      BY <1>1, CountTypes DEF Counts
    <2>4. Places(b) = Listed({Task(b)}) + Cardinality({t \in DOMAIN hand : hand[t] = Task(b)}) + Own(b)
      BY <2>2 DEF Places, Listed, Own
    <2> QED
      BY <2>1, <2>3, <2>4 DEF Lined
  <1>6. Queueable(r) = Lined({Task(<<r, 0>>)})
    <2>1. Lined({Task(<<r, 0>>)}) \in Nat /\ Own(<<r, 0>>) \in Nat
      BY CountTypes DEF Counts
    <2>2. Places(<<r, 0>>) = Lined({Task(<<r, 0>>)}) + Own(<<r, 0>>)
      BY <1>5
    <2>3. Queueable(r) = Places(<<r, 0>>) - Own(<<r, 0>>)
      BY DEF Queueable, Own
    <2> QED
      BY <2>1, <2>2, <2>3
  <1>7. PICK k \in 0 .. Children[r] : id = <<r, k>>
    BY DEF Ids
  <1>8. k \in Nat
    BY <1>7, Parameters DEF Types
  <1>9. id[2] > 0 \/ id = <<r, 0>>
    BY <1>7, <1>8
  <1>10. ASSUME id[2] > 0 PROVE Lined({Task(id)}) = 0
    <2>1. ASSUME NEW e \in ListRec \cup {NoTask} PROVE e # Task(id)
      <3>1. ASSUME NEW q \in Requests PROVE Task(<<q, 0>>) # Task(id)
        BY <1>7, <1>10, RecFacts
      <3>2. \A b : CancelTask(b) # Task(id)
        BY RecFacts
      <3>3. NextResponse # Task(id) /\ NoTask # Task(id)
        BY RecFacts
      <3>4. \/ \E q \in Requests : e = Task(<<q, 0>>)
            \/ \E b \in AllIds : e = CancelTask(b)
            \/ e \in {NextResponse, NoTask}
        BY DEF ListRec
      <3> QED
        BY <3>1, <3>2, <3>3, <3>4
    <2>2. ASSUME NEW q \in Seq(ListRec) PROVE Occ(q, {Task(id)}) = 0
      <3>1. ASSUME NEW i \in DOMAIN q PROVE q[i] \in ListRec
        BY LenProperties, ElementOfSeq
      <3>2. \A i \in DOMAIN q : q[i] \notin {Task(id)}
        BY <3>1, <2>1
      <3> QED
        BY <3>2, OccNat
    <2>3. InHand("main", {Task(id)}) = 0 /\ InHand("worker", {Task(id)}) = 0
      <3>1. hand["main"] \in ListRec \cup {NoTask} /\ hand["worker"] \in ListRec \cup {NoTask}
        BY DEF Types
      <3> QED
        BY <3>1, <2>1 DEF InHand
    <2>4. Occ(queue, {Task(id)}) = 0 /\ Occ(deferred, {Task(id)}) = 0 /\ Occ(unhandled, {Task(id)}) = 0
      BY <2>2, <1>1
    <2> QED
      BY <2>3, <2>4 DEF Lined, Listed
  <1> QED
    BY <1>3, <1>4, <1>5, <1>6, <1>9, <1>10

\* The account says what the property says.
LEMMA AccountMeans == Types /\ AccountInv => QueueInv
  <1> SUFFICES ASSUME Types, AccountInv PROVE QueueInv
    OBVIOUS
  <1>1. TypeOK
    <2>1. ListRec \subseteq TaskRec /\ NoTask \in TaskRec
      <3>1. ASSUME NEW r \in Requests PROVE <<r, 0>> \in AllIds
        BY Parameters DEF Types
      <3> QED
        BY <3>1 DEF ListRec, TaskRec, Task, CancelTask, NextResponse, NoTask
    <2>2. queue \in Seq(TaskRec) /\ deferred \in Seq(TaskRec) /\ unhandled \in Seq(TaskRec)
      BY <2>1, SeqMonotonic DEF Types
    <2>3. hand \in [{"main", "worker"} -> TaskRec]
      BY <2>1 DEF Types
    <2> QED
      BY <2>2, <2>3 DEF TypeOK, Types, SlotRec, ResultRec
  <1>2. TasksAccounted
    <2>1. ASSUME NEW r \in Requests, req[r].pc = "recv", ~ Failed(r), NEW id \in Ids(r)
          PROVE  (IF id[2] > 0 THEN Queueable(r) ELSE 0) + Places(id) + Pending(id) + (IF id \in req[r].got THEN 1 ELSE 0) = 1
      <3>1. /\ Pending(id) = Occ(results, Answers({id})) /\ Places(id) = Lined({Task(id)}) + Own(id)
            /\ Queueable(r) = Lined({Task(<<r, 0>>)}) /\ (id[2] > 0 => Lined({Task(id)}) = 0)
            /\ (id[2] > 0 \/ id = <<r, 0>>) /\ (Failed(r) <=> Occ(results, Errors(Ids(r))) > 0)
        BY PlacesCounted
      <3>2. Share(r, id) = 1
        BY <3>1, <2>1, PlacesCounted DEF AccountInv, AccInv
      <3>3. Share(r, id) = Lined({Task(<<r, 0>>)}) + Own(id) + Occ(results, Answers({id})) + (IF id \in req[r].got THEN 1 ELSE 0)
        BY DEF Share, Work, Got
      <3>4. Lined({Task(<<r, 0>>)}) \in Nat /\ Own(id) \in Nat /\ Occ(results, Answers({id})) \in Nat
        BY CountTypes DEF Counts
      <3>5. ~ (id[2] > 0) => id = <<r, 0>>
        BY PlacesCounted
      <3>6. CASE id[2] > 0
        BY <3>1, <3>2, <3>3, <3>4, <3>6
      <3>7. CASE ~ (id[2] > 0)
        <4>1. Lined({Task(id)}) = Lined({Task(<<r, 0>>)})
          BY <3>5, <3>7
        <4> QED
          BY <4>1, <3>1, <3>2, <3>3, <3>4, <3>7
      <3> QED
        BY <3>6, <3>7
    <2> QED
      BY <2>1 DEF TasksAccounted
  <1>3. NoOrphanResults
    <2>1. ASSUME NEW i \in DOMAIN results
          PROVE  \E r \in Requests : results[i].id \in Ids(r) /\ (results[i].id \in waiting \/ req[r].pc = "cancel")
      <3> DEFINE id == results[i].id
      <3>1. results \in Seq(ResultRec)
        BY DEF Types
      <3>2. results[i] \in ResultRec
        BY <3>1, LenProperties, ElementOfSeq
      <3>3. id \in AllIds /\ results[i] \in Answers({id})
        BY <3>2 DEF ResultRec, Answers
      <3>4. id[1] \in Requests /\ id \in Ids(id[1])
        BY <3>3, IdFacts DEF Types
      <3> HIDE DEF id
      <3>5. Occ(results, Answers({id})) \in Nat /\ Occ(results, Answers({id})) # 0
        BY <3>1, <3>3, OccNat
      <3>6. id \in waiting \/ req[id[1]].pc = "cancel"
        BY <3>3, <3>5 DEF AccountInv, OrphanInv
      <3> QED
        BY <3>4, <3>6 DEF id
    <2> QED
      BY <2>1 DEF NoOrphanResults
  <1> QED
    BY <1>1, <1>2, <1>3 DEF QueueInv

(* While a client waits, each of its tasks is in exactly one place or has  *)
(* exactly one answer, whatever the threads, the worker, the slots, other  *)
(* clients and cancellations do (server_queue, server_response,            *)
(* server_response_reader, process_single_task, update_slots); and no      *)
(* result is left without a reader.                                        *)
THEOREM TasksAreAccounted == Spec => []QueueInv
  <1>1. Init => Types /\ AccountInv
    BY TypesInit, AccountInit
  <1>2. (Types /\ AccountInv) /\ [Next]_vars => (Types /\ AccountInv)'
    BY TypesStep, AccountStep
  <1> QED
    BY <1>1, <1>2, AccountMeans, PTL DEF Spec


-----------------------------------------------------------------------------
(* The order of posting.  The tasks that take turns, in a list: whether    *)
(* they stand in the order of their turns K, and which turns there are.    *)
InOrder(q, K) ==
    \A i, j \in DOMAIN q : i < j /\ q[i] \in DOMAIN K /\ q[j] \in DOMAIN K => K[q[i]] < K[q[j]]
Turns(q, K) == {x \in Nat : \E i \in DOMAIN q : q[i] \in DOMAIN K /\ K[q[i]] = x}
Turned(K) == \A m \in DOMAIN K : K[m] \in Nat
Below(A, B) == \A x \in A, y \in B : x < y

\* A list of none and a list of one are in order.
LEMMA OrderOne ==
    ASSUME NEW K, Turned(K), NEW e
    PROVE  /\ InOrder(<<>>, K) /\ Turns(<<>>, K) = {}
           /\ InOrder(<<e>>, K) /\ Turns(<<e>>, K) = IF e \in DOMAIN K THEN {K[e]} ELSE {}
  <1>1. DOMAIN <<>> = {}
    OBVIOUS
  <1>2. InOrder(<<>>, K) /\ Turns(<<>>, K) = {}
    BY <1>1 DEF InOrder, Turns
  <1>3. DOMAIN <<e>> = {1} /\ <<e>>[1] = e
    OBVIOUS
  <1>4. InOrder(<<e>>, K)
    BY <1>3 DEF InOrder
  <1>5. Turns(<<e>>, K) = {x \in Nat : e \in DOMAIN K /\ K[e] = x}
    BY <1>3 DEF Turns, Turned
  <1>6. Turns(<<e>>, K) = IF e \in DOMAIN K THEN {K[e]} ELSE {}
    BY <1>5 DEF Turned
  <1> QED
    BY <1>2, <1>4, <1>6

\* Of two lists one behind the other, each is in order, and the first is before the second.
LEMMA OrderConcat ==
    ASSUME NEW S, NEW a \in Seq(S), NEW b \in Seq(S), NEW K, Turned(K)
    PROVE  /\ InOrder(a \o b, K) <=> InOrder(a, K) /\ InOrder(b, K) /\ Below(Turns(a, K), Turns(b, K))
           /\ Turns(a \o b, K) = Turns(a, K) \cup Turns(b, K)
  <1> DEFINE c == a \o b
             m == Len(a)
             n == Len(b)
  <1>1. /\ c \in Seq(S) /\ Len(c) = m + n /\ m \in Nat /\ n \in Nat
        /\ DOMAIN a = 1 .. m /\ DOMAIN b = 1 .. n /\ DOMAIN c = 1 .. m + n
    BY ConcatProperties, LenProperties
  <1>2. \A i \in 1 .. m + n : c[i] = IF i <= m THEN a[i] ELSE b[i - m]
    BY ConcatProperties
  <1> HIDE DEF c, m, n
  <1>3. /\ \A i \in 1 .. m : i \in 1 .. m + n /\ c[i] = a[i]
        /\ \A j \in 1 .. n : m + j \in 1 .. m + n /\ c[m + j] = b[j]
        /\ \A i \in 1 .. m + n : i \in 1 .. m \/ (i - m \in 1 .. n /\ c[i] = b[i - m])
    <2>1. ASSUME NEW j \in 1 .. n PROVE m + j \in 1 .. m + n /\ c[m + j] = b[j]
      <3>1. PICK i \in 1 .. m + n : i = m + j
        BY <1>1
      <3>2. ~ (i <= m) /\ i - m = j
        BY <3>1, <1>1
      <3>3. c[i] = b[i - m]
        BY <3>2, <1>2
      <3> QED
        BY <3>1, <3>2, <3>3
    <2>2. ASSUME NEW i \in 1 .. m + n, i \notin 1 .. m PROVE i - m \in 1 .. n /\ c[i] = b[i - m]
      BY <1>1, <1>2, <2>2
    <2>3. ASSUME NEW i \in 1 .. m PROVE i \in 1 .. m + n /\ c[i] = a[i]
      BY <1>1, <1>2
    <2> QED
      BY <2>1, <2>2, <2>3
  <1>4. Turns(c, K) = Turns(a, K) \cup Turns(b, K)
    <2>1. ASSUME NEW x \in Turns(c, K) PROVE x \in Turns(a, K) \cup Turns(b, K)
      <3>1. PICK i \in 1 .. m + n : c[i] \in DOMAIN K /\ K[c[i]] = x /\ x \in Nat
        BY <1>1 DEF Turns, Turned
      <3>2. CASE i \in 1 .. m
        <4>1. a[i] \in DOMAIN K /\ K[a[i]] = x
          BY <3>1, <3>2, <1>3
        <4> QED
          BY <3>1, <3>2, <4>1, <1>1 DEF Turns, Turned
      <3>3. CASE i - m \in 1 .. n /\ c[i] = b[i - m]
        <4>1. b[i - m] \in DOMAIN K /\ K[b[i - m]] = x
          BY <3>1, <3>3
        <4> QED
          BY <3>1, <3>3, <4>1, <1>1 DEF Turns, Turned
      <3> QED
        BY <3>2, <3>3, <1>3
    <2>2. ASSUME NEW x \in Turns(a, K) PROVE x \in Turns(c, K)
      <3>1. PICK i \in 1 .. m : a[i] \in DOMAIN K /\ K[a[i]] = x /\ x \in Nat
        BY <1>1 DEF Turns, Turned
      <3>2. i \in 1 .. m + n /\ c[i] = a[i]
        BY <1>3
      <3> QED
        BY <3>1, <3>2, <1>1 DEF Turns, Turned
    <2>3. ASSUME NEW x \in Turns(b, K) PROVE x \in Turns(c, K)
      <3>1. PICK j \in 1 .. n : b[j] \in DOMAIN K /\ K[b[j]] = x /\ x \in Nat
        BY <1>1 DEF Turns, Turned
      <3>2. m + j \in 1 .. m + n /\ c[m + j] = b[j]
        BY <1>3
      <3> QED
        BY <3>1, <3>2, <1>1 DEF Turns, Turned
    <2> QED
      BY <2>1, <2>2, <2>3
  <1>5. ASSUME InOrder(c, K) PROVE InOrder(a, K) /\ InOrder(b, K) /\ Below(Turns(a, K), Turns(b, K))
    <2>1. InOrder(a, K)
      BY <1>1, <1>3, <1>5 DEF InOrder
    <2>2. InOrder(b, K)
      <3> SUFFICES ASSUME NEW i \in 1 .. n, NEW j \in 1 .. n, i < j, b[i] \in DOMAIN K, b[j] \in DOMAIN K PROVE K[b[i]] < K[b[j]]
        BY <1>1 DEF InOrder
      <3>1. m + i < m + j
        BY <1>1
      <3>2. m + i \in 1 .. m + n /\ c[m + i] = b[i] /\ m + j \in 1 .. m + n /\ c[m + j] = b[j]
        BY <1>3
      <3>3. K[c[m + i]] < K[c[m + j]]
        BY <3>1, <3>2, <1>1, <1>5 DEF InOrder
      <3> QED
        BY <3>2, <3>3
    <2>3. ASSUME NEW x \in Turns(a, K), NEW y \in Turns(b, K) PROVE x < y
      <3>1. PICK i \in 1 .. m : a[i] \in DOMAIN K /\ K[a[i]] = x
        BY <1>1 DEF Turns, Turned
      <3>2. PICK j \in 1 .. n : b[j] \in DOMAIN K /\ K[b[j]] = y
        BY <1>1 DEF Turns, Turned
      <3>3. i < m + j
        BY <1>1
      <3>4. i \in 1 .. m + n /\ c[i] = a[i] /\ m + j \in 1 .. m + n /\ c[m + j] = b[j]
        BY <1>3
      <3>5. K[c[i]] < K[c[m + j]]
        BY <3>1, <3>2, <3>3, <3>4, <1>1, <1>5 DEF InOrder
      <3> QED
        BY <3>1, <3>2, <3>4, <3>5
    <2> QED
      BY <2>1, <2>2, <2>3 DEF Below
  <1>6. ASSUME InOrder(a, K), InOrder(b, K), Below(Turns(a, K), Turns(b, K)) PROVE InOrder(c, K)
    <2> SUFFICES ASSUME NEW i \in 1 .. m + n, NEW j \in 1 .. m + n, i < j, c[i] \in DOMAIN K, c[j] \in DOMAIN K PROVE K[c[i]] < K[c[j]]
      BY <1>1 DEF InOrder
    <2>1. CASE j \in 1 .. m
      <3>1. i \in 1 .. m
        BY <1>1, <2>1
      <3> QED
        BY <3>1, <2>1, <1>1, <1>3, <1>6 DEF InOrder
    <2>2. CASE i - m \in 1 .. n
      <3>1. j - m \in 1 .. n /\ i - m < j - m /\ i \notin 1 .. m /\ j \notin 1 .. m
        BY <1>1, <2>2
      <3>2. c[i] = b[i - m] /\ c[j] = b[j - m]
        BY <3>1, <1>3
      <3> QED
        BY <3>1, <3>2, <2>2, <1>1, <1>6 DEF InOrder
    <2>3. CASE i \in 1 .. m /\ j \notin 1 .. m
      <3>1. c[i] = a[i] /\ j - m \in 1 .. n /\ c[j] = b[j - m]
        BY <2>3, <1>3
      <3>2. K[c[i]] \in Turns(a, K) /\ K[c[j]] \in Turns(b, K)
        BY <3>1, <2>3, <1>1 DEF Turns, Turned
      <3> QED
        BY <3>2, <1>6 DEF Below
    <2> QED
      BY <2>1, <2>2, <2>3, <1>3
  <1> QED
    BY <1>4, <1>5, <1>6 DEF c

\* What is left of a list in order is in order.
LEMMA OrderDrop ==
    ASSUME NEW S, NEW q \in Seq(S), NEW D, NEW K, Turned(K)
    PROVE  Turns(Drop(q, D), K) \subseteq Turns(q, K) /\ (InOrder(q, K) => InOrder(Drop(q, D), K))
  <1> DEFINE r == Drop(q, D)
  <1>1. r \in Seq(S)
    BY DropFacts
  <1>2. PICK g : Embeds(g, r, q)
    BY DropFacts
  <1> HIDE DEF r
  <1>3. DOMAIN q = 1 .. Len(q) /\ DOMAIN r = 1 .. Len(r)
    BY <1>1, LenProperties
  <1>4. \A i \in 1 .. Len(r) : g[i] \in 1 .. Len(q) /\ r[i] = q[g[i]]
    BY <1>2 DEF Embeds
  <1>5. Turns(r, K) \subseteq Turns(q, K)
    BY <1>3, <1>4 DEF Turns, Turned
  <1>6. InOrder(q, K) => InOrder(r, K)
    BY <1>2, <1>3, <1>4 DEF InOrder, Turned, Embeds
  <1> QED
    BY <1>5, <1>6 DEF r

\* One is taken out.
LEMMA OrderRemoveAt ==
    ASSUME NEW S, NEW q \in Seq(S), NEW k \in 1 .. Len(q), NEW K, Turned(K)
    PROVE  Turns(RemoveAt(q, k), K) \subseteq Turns(q, K) /\ (InOrder(q, K) => InOrder(RemoveAt(q, k), K))
  <1> DEFINE a == SubSeq(q, 1, k - 1)
             b == SubSeq(q, k + 1, Len(q))
             e == <<q[k]>>
  <1>1. Len(q) \in Nat /\ k \in Int /\ q[k] \in S /\ \A i \in 1 .. Len(q) : q[i] \in S
    BY LenProperties, ElementOfSeq
  <1>2. a \in Seq(S) /\ b \in Seq(S) /\ e \in Seq(S)
    <2>1. a \in Seq(S)
      BY <1>1, SubSeqProperties
    <2>2. b \in Seq(S)
      BY <1>1, SubSeqProperties
    <2> QED
      BY <2>1, <2>2, <1>1
  <1>3. q = (a \o e) \o b
    <2>1. SubSeq(q, 1, k) = a \o e
      BY <1>1, SubSeqRecursiveSecond
    <2>2. SubSeq(q, 1, k) \o b = SubSeq(q, 1, Len(q))
      BY <1>1, ConcatAdjacentSubSeq
    <2> QED
      BY <2>1, <2>2, SubSeqFull
  <1>4. RemoveAt(q, k) = a \o b
    BY DEF RemoveAt
  <1> HIDE DEF a, b, e
  <1> DEFINE l == a \o e
  <1>5. l \in Seq(S)
    BY <1>2, ConcatProperties
  <1>6. /\ InOrder(l, K) <=> InOrder(a, K) /\ InOrder(e, K) /\ Below(Turns(a, K), Turns(e, K))
        /\ Turns(l, K) = Turns(a, K) \cup Turns(e, K)
    BY <1>2, OrderConcat
  <1> HIDE DEF l
  <1>7. /\ InOrder(l \o b, K) <=> InOrder(l, K) /\ InOrder(b, K) /\ Below(Turns(l, K), Turns(b, K))
        /\ Turns(l \o b, K) = Turns(l, K) \cup Turns(b, K)
    BY <1>2, <1>5, OrderConcat
  <1>8. /\ InOrder(a \o b, K) <=> InOrder(a, K) /\ InOrder(b, K) /\ Below(Turns(a, K), Turns(b, K))
        /\ Turns(a \o b, K) = Turns(a, K) \cup Turns(b, K)
    BY <1>2, OrderConcat
  <1>9. q = l \o b
    BY <1>3 DEF l
  <1>10. Below(Turns(l, K), Turns(b, K)) => Below(Turns(a, K), Turns(b, K))
    BY <1>6 DEF Below
  <1> QED
    BY <1>4, <1>6, <1>7, <1>8, <1>9, <1>10

\* Four lists in a line.
LEMMA OrderLine ==
    ASSUME NEW S, NEW a \in Seq(S), NEW b \in Seq(S), NEW c \in Seq(S), NEW d \in Seq(S), NEW K, Turned(K)
    PROVE  LET A == Turns(a, K)  B == Turns(b, K)  C == Turns(c, K)  D == Turns(d, K)  l == ((a \o b) \o c) \o d
           IN  /\ l \in Seq(S)
               /\ Turns(l, K) = A \cup B \cup C \cup D
               /\ InOrder(l, K) <=> /\ InOrder(a, K) /\ InOrder(b, K) /\ InOrder(c, K) /\ InOrder(d, K)
                                    /\ Below(A, B) /\ Below(A, C) /\ Below(A, D) /\ Below(B, C) /\ Below(B, D) /\ Below(C, D)
  <1> DEFINE A == Turns(a, K)  B == Turns(b, K)  C == Turns(c, K)  D == Turns(d, K)
             x == a \o b
             y == x \o c
  <1>1. Turns(x, K) = A \cup B /\ (InOrder(x, K) <=> InOrder(a, K) /\ InOrder(b, K) /\ Below(A, B))
    BY OrderConcat
  <1>2. x \in Seq(S)
    BY ConcatProperties
  <1> HIDE DEF x
  <1>3. Turns(y, K) = Turns(x, K) \cup C /\ (InOrder(y, K) <=> InOrder(x, K) /\ InOrder(c, K) /\ Below(Turns(x, K), C))
    BY <1>2, OrderConcat
  <1>4. y \in Seq(S)
    BY <1>2, ConcatProperties
  <1> HIDE DEF y
  <1>5. /\ Turns(y \o d, K) = Turns(y, K) \cup D
        /\ InOrder(y \o d, K) <=> InOrder(y, K) /\ InOrder(d, K) /\ Below(Turns(y, K), D)
    BY <1>4, OrderConcat
  <1>6. y \o d \in Seq(S)
    BY <1>4, ConcatProperties
  <1> HIDE DEF A, B, C, D
  <1>7. Below(A \cup B, C) <=> Below(A, C) /\ Below(B, C)
    BY DEF Below
  <1>8. Below((A \cup B) \cup C, D) <=> Below(A, D) /\ Below(B, D) /\ Below(C, D)
    BY DEF Below
  <1> QED
    BY <1>1, <1>3, <1>5, <1>6, <1>7, <1>8 DEF A, B, C, D, x, y


-----------------------------------------------------------------------------
(* Who takes a turn, the line they stand in, and the tasks put aside (D),  *)
(* which come before everybody in the line (L) but its first, who is about *)
(* to get the slot if it is free.                                          *)
TurnTasks == {Task(<<r, 0>>) : r \in {q \in Requests : Kind[q] # "metrics"}}
Turn == [t \in TurnTasks |-> req[t.id[1]].turn]
Posted == {q \in Requests : req[q].turn > 0}
HandOf(task) == IF task = NoTask THEN <<>> ELSE <<task>>
InLine(a, b, c, d) == ((a \o b) \o c) \o d
LineUp == InLine(HandOf(hand["main"]), unhandled, HandOf(hand["worker"]), queue)
Stands(D, L, busy) == \A x \in D, y \in L : busy \/ (\E z \in L : z < y) => x < y

(* The line has one part at a time outside a decode, and only slots that   *)
(* work are visited.                                                       *)
LoopInv ==
    /\ main # "process" => hand["main"] = NoTask
    /\ main \notin {"work", "join"} => unhandled = <<>>
    /\ main = "slots" => todo \subseteq BusySlots

(* Turns count up, and who has one has posted its task.                    *)
TurnInv ==
    \A r \in Requests : req[r].turn <= Cardinality(Posted) /\ (req[r].turn > 0 => req[r].pc \notin Waits)

OrderInv ==
    OneSlot => /\ deferred \in Seq(TurnTasks)
               /\ InOrder(deferred, Turn) /\ InOrder(LineUp, Turn)
               /\ Stands(Turns(deferred, Turn), Turns(LineUp, Turn), BusySlots # {})

\* Nothing is left of an empty list.
LEMMA DropEmpty == \A D : Drop(<<>>, D) = <<>>
  <1> SUFFICES ASSUME NEW D PROVE Drop(<<>>, D) = <<>>
    OBVIOUS
  <1>1. <<>> \in Seq({})
    OBVIOUS
  <1>2. PICK f : IsKept(f, <<>>, D, Len(<<>>)) /\ Drop(<<>>, D) = f[Len(<<>>)]
    BY <1>1, DropRecursion
  <1> QED
    BY <1>2 DEF IsKept

\* Every step keeps the line's parts.
LEMMA LoopStep ==
    ASSUME Types, SchedInv, LoopInv, [Next]_vars
    PROVE  LoopInv'
  <1>1. CASE MainTakes \/ MainHandles
    <2>1. main = "process" /\ main' = "process" /\ unhandled' = unhandled
      BY <1>1 DEF MainTakes, MainHandles, loopVars
    <2> QED
      BY <2>1 DEF LoopInv
  <1>2. CASE \/ MainStops \/ UpdateIdle \/ UpdateDecode \/ WorkEnds \/ PutBack \/ Updated \/ IdleEnds \/ AwakeAgain
             \/ FallAsleep \/ SleepOn \/ JoinBlocks
    <2>1. hand' = hand /\ (main' # "process" => hand["main"] = NoTask)
      BY <1>2 DEF MainStops, UpdateIdle, UpdateDecode, WorkEnds, PutBack, Updated, IdleEnds, AwakeAgain, FallAsleep,
                  SleepOn, JoinBlocks, taskVars, loopVars, LoopInv
    <2>2. main' \notin {"work", "join"} => unhandled' = <<>>
      BY <1>2 DEF MainStops, UpdateIdle, UpdateDecode, WorkEnds, PutBack, Updated, IdleEnds, AwakeAgain, FallAsleep,
                  SleepOn, JoinBlocks, taskVars, loopVars, LoopInv
    <2>3. main' = "slots" => todo' \subseteq BusySlots'
      <3>1. UNCHANGED <<slot, setup>> /\ (main' = "slots" => todo' = BusySlots)
        BY <1>2 DEF MainStops, UpdateIdle, UpdateDecode, WorkEnds, PutBack, Updated, IdleEnds, AwakeAgain, FallAsleep,
                    SleepOn, JoinBlocks, taskVars, loopVars
      <3>2. BusySlots' = BusySlots
        BY <3>1, Rigid DEF BusySlots, Busy
      <3> QED
        BY <3>1, <3>2
    <2> QED
      BY <2>1, <2>2, <2>3 DEF LoopInv, NoTask, NoId
  <1>3. ASSUME NEW s \in Slots, SlotGenerates(s) \/ SlotWaits(s) \/ SlotFinishes(s) \/ SlotFails(s)
        PROVE  LoopInv'
    <2>1. main = "slots" /\ main' = "slots" /\ UNCHANGED <<hand, unhandled, setup>> /\ todo' = todo \ {s}
      BY <1>3 DEF SlotGenerates, SlotWaits, SlotFinishes, SlotFails, Visit
    <2>2. slot \in [Slots -> SlotRec] /\ Slots' = Slots
      BY <2>1, Rigid DEF Types
    <2>3. ASSUME NEW t \in Slots \ {s}, slot[t].state # "idle" PROVE slot'[t].state # "idle"
      <3>1. CASE SlotGenerates(s)
        BY <2>2, <2>3, <3>1 DEF SlotGenerates, SlotRec
      <3>2. CASE SlotWaits(s)
        BY <2>3, <3>2 DEF SlotWaits
      <3>3. CASE SlotFinishes(s) \/ SlotFails(s)
        BY <2>2, <2>3, <3>3 DEF SlotFinishes, SlotFails, Release
      <3> QED
        BY <1>3, <3>1, <3>2, <3>3
    <2>4. todo' \subseteq BusySlots'
      BY <2>1, <2>2, <2>3 DEF LoopInv, BusySlots, Busy
    <2> QED
      BY <2>1, <2>4 DEF LoopInv, NoTask, NoId
  <1>4. CASE UNCHANGED vars \/ WorkerThread \/ Terminate \/ \E r \in Requests : Client(r) \/ Leave(r)
    <2>1. UNCHANGED <<main, todo, slot, setup>>
      BY <1>4 DEF vars, taskVars, loopVars, WorkerThread, WorkerTakes, WorkerHandles, WorkerDrained, WorkerChecks, Terminate,
                  Client, Leave, Arrive, NoSleep, Register, Post, Receive, Forget, StopTasks
    <2>2. BusySlots' = BusySlots
      BY <2>1, Rigid DEF BusySlots, Busy
    <2>3. hand'["main"] = hand["main"]
      <3>1. hand' = hand \/ \E t \in ListRec \cup {NoTask} : hand' = [hand EXCEPT !["worker"] = t]
        <4>1. CASE WorkerTakes
          <5>1. queue \in Seq(ListRec) /\ queue # <<>> /\ hand' = [hand EXCEPT !["worker"] = Head(queue)]
            BY <4>1 DEF Types, WorkerTakes
          <5>2. Head(queue) \in ListRec
            BY <5>1, HeadTailProperties
          <5> QED
            BY <5>1, <5>2
        <4>2. CASE ~ WorkerTakes
          BY <1>4, <4>2 DEF vars, taskVars, loopVars, WorkerThread, WorkerHandles, WorkerDrained, WorkerChecks, Terminate,
                  Client, Leave, Arrive, NoSleep, Register, Post, Receive, Forget, StopTasks
        <4> QED
          BY <4>1, <4>2
      <3> QED
        BY <3>1 DEF Types
    <2>4. main \notin {"work", "join"} => unhandled' = <<>>
      <3>1. CASE WorkerHandles
        BY <3>1 DEF WorkerHandles, SchedInv
      <3>2. ASSUME NEW r \in Requests, StopTasks(r) PROVE main \notin {"work", "join"} => unhandled' = <<>>
        BY <3>2, DropEmpty DEF StopTasks, Without, LoopInv
      <3>3. CASE ~ WorkerHandles /\ ~ \E r \in Requests : StopTasks(r)
        <4>1. unhandled' = unhandled
          BY <1>4, <3>3 DEF vars, taskVars, loopVars, WorkerThread, WorkerTakes, WorkerDrained, WorkerChecks, Terminate,
                  Client, Leave, Arrive, NoSleep, Register, Post, Receive, Forget
        <4> QED
          BY <4>1 DEF LoopInv
      <3> QED
        BY <3>1, <3>2, <3>3
    <2> QED
      BY <2>1, <2>2, <2>3, <2>4 DEF LoopInv, NoTask, NoId
  <1> QED
    BY <1>1, <1>2, <1>3, <1>4 DEF Next, MainLoop

\* A turn is given once, and nobody goes back to before posting.
LEMMA TurnsKept ==
    ASSUME Types, [Next]_vars, ~ \E r \in Requests : Post(r)
    PROVE  \A r \in Requests : req'[r].turn = req[r].turn /\ (req[r].pc \notin Waits => req'[r].pc \notin Waits)
  <1>1. CASE req' = req
    BY <1>1
  <1>2. ASSUME NEW r \in Requests, \/ Register(r) /\ GoTo(r, "post")
                                   \/ Leave(r) /\ GoTo(r, "forget")
                                   \/ Forget(r) /\ \E pc \in {"done", "cancel"} : GoTo(r, pc)
                                   \/ StopTasks(r) /\ GoTo(r, "done")
                                   \/ Arrive(r) /\ \E pc \in {"ready", "done", "nosleep"} : GoTo(r, pc)
                                   \/ NoSleep(r) /\ GoTo(r, "ready")
        PROVE  \A q \in Requests : req'[q].turn = req[q].turn /\ (req[q].pc \notin Waits => req'[q].pc \notin Waits)
    <2>1. PICK pc \in Waits \cup {"recv", "forget", "cancel", "done"} : GoTo(r, pc) /\ (req[r].pc \notin Waits => pc \notin Waits)
      <3>1. CASE \/ Register(r) /\ GoTo(r, "post")
                 \/ NoSleep(r) /\ GoTo(r, "ready")
                 \/ Arrive(r) /\ \E pc \in {"ready", "done", "nosleep"} : GoTo(r, pc)
        <4>1. req[r].pc \in Waits
          BY <3>1 DEF Register, NoSleep, Arrive, Waits
        <4>2. \E pc \in Waits \cup {"recv", "forget", "cancel", "done"} : GoTo(r, pc)
          BY <3>1 DEF Waits
        <4> QED
          BY <4>1, <4>2
      <3>2. CASE \/ Leave(r) /\ GoTo(r, "forget")
                 \/ StopTasks(r) /\ GoTo(r, "done")
                 \/ Forget(r) /\ \E pc \in {"done", "cancel"} : GoTo(r, pc)
        <4>1. \E pc \in {"forget", "done", "cancel"} : GoTo(r, pc)
          BY <3>2
        <4> QED
          BY <4>1 DEF Waits
      <3> QED
        BY <1>2, <3>1, <3>2
    <2> QED
      BY <2>1, GoToFacts
  <1>3. ASSUME NEW r \in Requests, Receive(r)
        PROVE  \A q \in Requests : req'[q].turn = req[q].turn /\ (req[q].pc \notin Waits => req'[q].pc \notin Waits)
    <2>1. \E g, pc : req' = [req EXCEPT ![r].got = g, ![r].pc = pc] /\ pc \notin Waits
      <3>1. PICK i \in DOMAIN results :
              LET g == req[r].got \cup IF results[i].error THEN {} ELSE {results[i].id}
              IN  req' = [req EXCEPT ![r].got = g,
                                     ![r].pc = IF results[i].error \/ g = Ids(r) THEN "forget" ELSE "recv"]
        BY <1>3 DEF Receive
      <3> DEFINE g == req[r].got \cup IF results[i].error THEN {} ELSE {results[i].id}
                 pc == IF results[i].error \/ g = Ids(r) THEN "forget" ELSE "recv"
      <3>2. pc \notin Waits
        BY DEF Waits
      <3>3. req' = [req EXCEPT ![r].got = g, ![r].pc = pc]
        BY <3>1
      <3> HIDE DEF g, pc
      <3> QED
        BY <3>2, <3>3
    <2>2. PICK g, pc : req' = [req EXCEPT ![r].got = g, ![r].pc = pc] /\ pc \notin Waits
      BY <2>1
    <2>3. req[r] \in ReqRec /\ req'[r] = [req[r] EXCEPT !.got = g, !.pc = pc] /\ \A q \in Requests \ {r} : req'[q] = req[q]
      BY <2>2 DEF Types, ReqRec
    <2>4. req'[r].turn = req[r].turn /\ req'[r].pc = pc
      BY <2>3 DEF ReqRec
    <2> QED
      BY <2>2, <2>3, <2>4
  <1>4. \/ req' = req
        \/ \E r \in Requests : Client(r) \/ Leave(r)
    BY DEF Next, vars, MainLoop, WorkerThread, taskVars, loopVars, resultVars, MainStops, MainTakes, MainHandles,
           UpdateIdle, UpdateDecode, WorkEnds, JoinBlocks, PutBack, Updated, IdleEnds, AwakeAgain, SleepOn, FallAsleep,
           SlotGenerates, SlotWaits, SlotFinishes, SlotFails, Visit, WorkerTakes, WorkerHandles, WorkerDrained,
           WorkerChecks, Terminate
  <1>5. ASSUME NEW r \in Requests, Client(r) \/ Leave(r)
        PROVE  \A q \in Requests : req'[q].turn = req[q].turn /\ (req[q].pc \notin Waits => req'[q].pc \notin Waits)
    <2>1. CASE Arrive(r)
      BY <2>1, <1>2 DEF Arrive
    <2>2. CASE NoSleep(r)
      BY <2>2, <1>1, <1>2 DEF NoSleep
    <2>3. CASE Register(r)
      BY <2>3, <1>2 DEF Register
    <2>4. CASE Leave(r)
      BY <2>4, <1>2 DEF Leave
    <2>5. CASE Forget(r)
      <3>1. \E pc \in {"done", "cancel"} : GoTo(r, pc)
        BY <2>5 DEF Forget
      <3> QED
        BY <2>5, <3>1, <1>2
    <2>6. CASE StopTasks(r)
      BY <2>6, <1>2 DEF StopTasks
    <2>7. CASE Receive(r)
      BY <2>7, <1>3
    <2> QED
      BY <1>5, <2>1, <2>2, <2>3, <2>4, <2>5, <2>6, <2>7 DEF Client
  <1> QED
    BY <1>1, <1>4, <1>5

\* Only a request that posts its task gets a turn, the next one.
LEMMA TurnStep ==
    ASSUME Types, TurnInv, [Next]_vars
    PROVE  TurnInv'
  <1>0. req \in [Requests -> ReqRec] /\ IsFiniteSet(Posted) /\ Cardinality(Posted) \in Nat
    <2>1. IsFiniteSet(Posted)
      BY SetupAssumption, FS_Subset DEF Posted
    <2> QED
      BY <2>1, FS_CardinalityType DEF Types, ReqRec
  <1>1. ASSUME NEW r \in Requests, Post(r) PROVE TurnInv'
    <2> DEFINE n == 1 + Cardinality(Posted)
    <2>1. req' = [req EXCEPT ![r].pc = "recv", ![r].turn = n] /\ req[r].pc = "post"
      BY <1>1 DEF Post, Posted
    <2>2. req[r] \in ReqRec /\ req'[r] = [req[r] EXCEPT !.pc = "recv", !.turn = n] /\ \A q \in Requests \ {r} : req'[q] = req[q]
      BY <1>0, <2>1
    <2>3. req'[r].turn = n /\ req'[r].pc = "recv"
      BY <2>2 DEF ReqRec
    <2>4. r \notin Posted
      BY <2>1, <1>0 DEF TurnInv, Posted, Waits, ReqRec
    <2>10. n \in Nat /\ n > 0
      BY <1>0
    <2> HIDE DEF n
    <2>5. Posted' = Posted \cup {r}
      <3>1. \A q \in Requests : q \in Posted' <=> q \in Posted \cup {r}
        BY <2>2, <2>3, <2>10 DEF Posted
      <3> QED
        BY <3>1 DEF Posted
    <2>6. Cardinality(Posted') = n
      <3>1. Cardinality(Posted \cup {r}) = Cardinality(Posted) + 1
        BY <1>0, <2>4, FS_AddElement
      <3> QED
        BY <3>1, <2>5, <1>0 DEF n
    <2>7. \A q \in Requests : req[q].turn \in Nat
      BY <1>0 DEF ReqRec
    <2>8. \A q \in Requests \ {r} : req'[q].turn <= n
      BY <2>2, <2>7, <1>0 DEF TurnInv, n
    <2>9. n <= n
      BY <1>0 DEF n
    <2> QED
      BY <2>2, <2>3, <2>6, <2>8, <2>9 DEF TurnInv, Waits
  <1>2. CASE ~ \E r \in Requests : Post(r)
    <2>1. \A r \in Requests : req'[r].turn = req[r].turn /\ (req[r].pc \notin Waits => req'[r].pc \notin Waits)
      BY <1>2, TurnsKept
    <2>2. Posted' = Posted
      BY <2>1 DEF Posted
    <2> QED
      BY <2>1, <2>2 DEF TurnInv, Waits
  <1> QED
    BY <1>1, <1>2

\* A list of tasks that take no turn.
LEMMA OrderNone ==
    ASSUME NEW S, NEW q \in Seq(S), NEW K, S \cap DOMAIN K = {}
    PROVE  InOrder(q, K) /\ Turns(q, K) = {}
  <1>1. \A i \in DOMAIN q : q[i] \notin DOMAIN K
    BY LenProperties, ElementOfSeq
  <1> QED
    BY <1>1 DEF InOrder, Turns

\* Other tasks' turns do not matter to a list.
LEMMA OrderAgrees ==
    ASSUME NEW q, NEW K, NEW K2, DOMAIN K2 = DOMAIN K, \A i \in DOMAIN q : q[i] \in DOMAIN K => K2[q[i]] = K[q[i]]
    PROVE  (InOrder(q, K2) <=> InOrder(q, K)) /\ Turns(q, K2) = Turns(q, K)
  <1>1. InOrder(q, K2) <=> InOrder(q, K)
    BY DEF InOrder
  <1>2. Turns(q, K2) = Turns(q, K)
    BY DEF Turns
  <1> QED
    BY <1>1, <1>2

Parts(a, b, c, d, K) ==
    a \in Seq(ListRec) /\ b \in Seq(ListRec) /\ c \in Seq(ListRec) /\ d \in Seq(ListRec) /\ Turned(K)

\* The line and its parts.
LEMMA LineOrder ==
    ASSUME NEW a, NEW b, NEW c, NEW d, NEW K, Parts(a, b, c, d, K)
    PROVE  LET A == Turns(a, K)  B == Turns(b, K)  C == Turns(c, K)  D == Turns(d, K)  l == InLine(a, b, c, d)
           IN  /\ Turns(l, K) = A \cup B \cup C \cup D
               /\ InOrder(l, K) <=> /\ InOrder(a, K) /\ InOrder(b, K) /\ InOrder(c, K) /\ InOrder(d, K)
                                    /\ Below(A, B) /\ Below(A, C) /\ Below(A, D) /\ Below(B, C) /\ Below(B, D) /\ Below(C, D)
  BY OrderLine DEF InLine, Parts

\* A line in which each part keeps its order and gets no new turn.
LEMMA LineShrinks ==
    ASSUME NEW a, NEW b, NEW c, NEW d, NEW K, Parts(a, b, c, d, K),
           NEW a2, NEW b2, NEW c2, NEW d2, Parts(a2, b2, c2, d2, K),
           Turns(a2, K) \subseteq Turns(a, K), InOrder(a, K) => InOrder(a2, K),
           Turns(b2, K) \subseteq Turns(b, K), InOrder(b, K) => InOrder(b2, K),
           Turns(c2, K) \subseteq Turns(c, K), InOrder(c, K) => InOrder(c2, K),
           Turns(d2, K) \subseteq Turns(d, K), InOrder(d, K) => InOrder(d2, K)
    PROVE  /\ Turns(InLine(a2, b2, c2, d2), K) \subseteq Turns(InLine(a, b, c, d), K)
           /\ InOrder(InLine(a, b, c, d), K) => InOrder(InLine(a2, b2, c2, d2), K)
  <1> DEFINE A == Turns(a, K)  B == Turns(b, K)  C == Turns(c, K)  D == Turns(d, K)
             A2 == Turns(a2, K)  B2 == Turns(b2, K)  C2 == Turns(c2, K)  D2 == Turns(d2, K)
             l == InLine(a, b, c, d)
             l2 == InLine(a2, b2, c2, d2)
  <1>1. /\ Turns(l, K) = A \cup B \cup C \cup D
        /\ InOrder(l, K) <=> /\ InOrder(a, K) /\ InOrder(b, K) /\ InOrder(c, K) /\ InOrder(d, K)
                             /\ Below(A, B) /\ Below(A, C) /\ Below(A, D) /\ Below(B, C) /\ Below(B, D) /\ Below(C, D)
    BY LineOrder
  <1>2. /\ Turns(l2, K) = A2 \cup B2 \cup C2 \cup D2
        /\ InOrder(l2, K) <=> /\ InOrder(a2, K) /\ InOrder(b2, K) /\ InOrder(c2, K) /\ InOrder(d2, K)
                              /\ Below(A2, B2) /\ Below(A2, C2) /\ Below(A2, D2)
                              /\ Below(B2, C2) /\ Below(B2, D2) /\ Below(C2, D2)
    BY LineOrder
  <1> HIDE DEF A, B, C, D, A2, B2, C2, D2, l, l2
  <1>3. \A X, Y, X2, Y2 : X2 \subseteq X /\ Y2 \subseteq Y /\ Below(X, Y) => Below(X2, Y2)
    BY DEF Below
  <1>4. A2 \subseteq A /\ B2 \subseteq B /\ C2 \subseteq C /\ D2 \subseteq D
    BY DEF A, B, C, D, A2, B2, C2, D2
  <1>5. /\ Below(A, B) => Below(A2, B2)
        /\ Below(A, C) => Below(A2, C2)
        /\ Below(A, D) => Below(A2, D2)
        /\ Below(B, C) => Below(B2, C2)
        /\ Below(B, D) => Below(B2, D2)
        /\ Below(C, D) => Below(C2, D2)
    BY <1>3, <1>4
  <1>6. Turns(l2, K) \subseteq Turns(l, K)
    BY <1>1, <1>2, <1>4
  <1>7. InOrder(l, K) => InOrder(l2, K)
    BY <1>1, <1>2, <1>5
  <1> QED
    BY <1>6, <1>7 DEF l, l2

\* No task is a task.
LEMMA NoneListed == NoTask \notin ListRec
  <1> SUFFICES ASSUME NoTask \in ListRec PROVE FALSE
    OBVIOUS
  <1>1. CASE NoTask = NextResponse
    BY <1>1, RecFacts
  <1>2. ASSUME NEW r \in Requests, NoTask = Task(<<r, 0>>) PROVE FALSE
    BY <1>2, RecFacts
  <1>3. ASSUME NEW id \in AllIds, NoTask = CancelTask(id) PROVE FALSE
    BY <1>3, RecFacts
  <1> QED
    BY <1>1, <1>2, <1>3 DEF ListRec

\* The turns are numbers, and the threads hold at most one task each.
LEMMA TurnFacts ==
    ASSUME Types
    PROVE  /\ Turned(Turn) /\ DOMAIN Turn = TurnTasks /\ TurnTasks \subseteq ListRec
           /\ \A t \in TurnTasks : /\ t.id[1] \in Requests /\ t = Task(<<t.id[1], 0>>) /\ Kind[t.id[1]] # "metrics"
                                   /\ Turn[t] = req[t.id[1]].turn
           /\ \A r \in Requests : Kind[r] # "metrics" => Task(<<r, 0>>) \in TurnTasks
           /\ NoTask \notin TurnTasks /\ NextResponse \notin TurnTasks /\ \A id : CancelTask(id) \notin TurnTasks
           /\ HandOf(hand["main"]) \in Seq(ListRec) /\ HandOf(hand["worker"]) \in Seq(ListRec)
           /\ queue \in Seq(ListRec) /\ deferred \in Seq(ListRec) /\ unhandled \in Seq(ListRec)
  <1>1. \A t \in TurnTasks : t.id[1] \in Requests /\ t = Task(<<t.id[1], 0>>) /\ Kind[t.id[1]] # "metrics" /\ t \in ListRec
    BY DEF TurnTasks, Task, ListRec
  <1>2. DOMAIN Turn = TurnTasks /\ \A t \in TurnTasks : Turn[t] = req[t.id[1]].turn
    BY DEF Turn
  <1>3. \A r \in Requests : req[r].turn \in Nat
    BY DEF Types
  <1>4. Turned(Turn)
    BY <1>1, <1>2, <1>3 DEF Turned
  <1>5. NoTask \notin TurnTasks /\ NextResponse \notin TurnTasks /\ \A id : CancelTask(id) \notin TurnTasks
    <2>1. \A t \in TurnTasks : t.type = "task"
      BY DEF TurnTasks, Task
    <2>2. NoTask.type # "task" /\ NextResponse.type # "task" /\ \A id : CancelTask(id).type # "task"
      BY RecFacts
    <2> QED
      BY <2>1, <2>2
  <1>6. \A t \in {"main", "worker"} : hand[t] \in ListRec \cup {NoTask}
    BY DEF Types
  <1>7. HandOf(hand["main"]) \in Seq(ListRec) /\ HandOf(hand["worker"]) \in Seq(ListRec)
    BY <1>6 DEF HandOf
  <1> QED
    BY <1>1, <1>2, <1>4, <1>5, <1>7 DEF TurnTasks, Types

\* Who takes a turn is settled, and a step that gives no turn changes none.
LEMMA TurnSame ==
    ASSUME Types, setup' = setup, \A r \in Requests : req'[r].turn = req[r].turn
    PROVE  Turn' = Turn
  <1>1. TurnTasks' = TurnTasks
    BY Rigid DEF TurnTasks, Task
  <1> QED
    BY <1>1, TurnFacts DEF Turn

\* The order after a step that changes no turn.
LEMMA OrderPrimed ==
    ASSUME setup' = setup, Turn' = Turn,
           OneSlot => /\ deferred' \in Seq(TurnTasks)
                      /\ InOrder(deferred', Turn) /\ InOrder(LineUp', Turn)
                      /\ Stands(Turns(deferred', Turn), Turns(LineUp', Turn), BusySlots' # {})
    PROVE  OrderInv'
  <1>1. TurnTasks' = TurnTasks /\ (OneSlot' <=> OneSlot)
    BY Rigid DEF TurnTasks, Task, OneSlot
  <1> QED
    BY <1>1 DEF OrderInv, InOrder, Turns, Stands

\* A step that gives no turn and brings nobody forward.
LEMMA OrderKeeps ==
    ASSUME Types, OrderInv, setup' = setup, Turn' = Turn,
           OneSlot => /\ deferred' \in Seq(TurnTasks)
                      /\ InOrder(deferred', Turn) /\ Turns(deferred', Turn) \subseteq Turns(deferred, Turn)
                      /\ InOrder(LineUp', Turn) /\ Turns(LineUp', Turn) \subseteq Turns(LineUp, Turn)
                      /\ BusySlots' # {} => BusySlots # {}
    PROVE  OrderInv'
  <1> SUFFICES ASSUME OneSlot
               PROVE  /\ deferred' \in Seq(TurnTasks)
                      /\ InOrder(deferred', Turn) /\ InOrder(LineUp', Turn)
                      /\ Stands(Turns(deferred', Turn), Turns(LineUp', Turn), BusySlots' # {})
    BY OrderPrimed
  <1>3. Stands(Turns(deferred, Turn), Turns(LineUp, Turn), BusySlots # {})
    BY DEF OrderInv
  <1> QED
    BY <1>3 DEF Stands

\* The line after a step.
LEMMA LinePrimed == LineUp' = InLine(HandOf(hand'["main"]), unhandled', HandOf(hand'["worker"]), queue')
  BY DEF LineUp, InLine, HandOf, NoTask, NoId

\* A step in which no part of the line gets a new turn.
LEMMA OrderShrinks ==
    ASSUME Types, Types', OrderInv, setup' = setup, Turn' = Turn,
           deferred' = deferred \/ \E D : deferred' = Drop(deferred, D),
           hand'["main"] = hand["main"] \/ hand'["main"] = NoTask,
           hand'["worker"] = hand["worker"] \/ hand'["worker"] = NoTask,
           unhandled' = unhandled \/ \E D : unhandled' = Drop(unhandled, D),
           Turns(queue', Turn) \subseteq Turns(queue, Turn), InOrder(queue, Turn) => InOrder(queue', Turn),
           OneSlot /\ BusySlots' # {} => BusySlots # {}
    PROVE  OrderInv'
  <1> DEFINE a == HandOf(hand["main"])  b == unhandled  c == HandOf(hand["worker"])  d == queue
             a2 == HandOf(hand'["main"])  c2 == HandOf(hand'["worker"])
             b2 == unhandled'
             d2 == queue'
  <1>1. Turned(Turn) /\ a \in Seq(ListRec) /\ b \in Seq(ListRec) /\ c \in Seq(ListRec) /\ d \in Seq(ListRec)
    BY TurnFacts
  <1>2. ListRec' = ListRec
    BY Rigid
  <1>3. /\ queue' \in Seq(ListRec) /\ unhandled' \in Seq(ListRec)
        /\ hand'["main"] \in ListRec \cup {NoTask} /\ hand'["worker"] \in ListRec \cup {NoTask}
    BY <1>2 DEF Types, NoTask, NoId
  <1>4. a2 \in Seq(ListRec) /\ b2 \in Seq(ListRec) /\ c2 \in Seq(ListRec) /\ d2 \in Seq(ListRec)
    BY <1>3 DEF HandOf
  <1>5. Turns(<<>>, Turn) = {} /\ InOrder(<<>>, Turn)
    BY <1>1, OrderOne
  <1>6. /\ Turns(a2, Turn) \subseteq Turns(a, Turn) /\ (InOrder(a, Turn) => InOrder(a2, Turn))
        /\ Turns(c2, Turn) \subseteq Turns(c, Turn) /\ (InOrder(c, Turn) => InOrder(c2, Turn))
    <2>1. (a2 = a \/ a2 = <<>>) /\ (c2 = c \/ c2 = <<>>)
      BY DEF HandOf
    <2> HIDE DEF a, a2, c, c2
    <2> QED
      BY <2>1, <1>5
  <1>7. Turns(b2, Turn) \subseteq Turns(b, Turn) /\ (InOrder(b, Turn) => InOrder(b2, Turn))
    BY <1>1, OrderDrop
  <1>8. LineUp = InLine(a, b, c, d) /\ LineUp' = InLine(a2, b2, c2, d2)
    BY LinePrimed DEF LineUp
  <1> HIDE DEF a, a2, b, b2, c, c2, d, d2
  <1>9. Turns(LineUp', Turn) \subseteq Turns(LineUp, Turn) /\ (InOrder(LineUp, Turn) => InOrder(LineUp', Turn))
    <2>1. Turns(d2, Turn) \subseteq Turns(d, Turn) /\ (InOrder(d, Turn) => InOrder(d2, Turn))
      BY DEF d, d2
    <2>2. /\ Turns(InLine(a2, b2, c2, d2), Turn) \subseteq Turns(InLine(a, b, c, d), Turn)
          /\ InOrder(InLine(a, b, c, d), Turn) => InOrder(InLine(a2, b2, c2, d2), Turn)
      <3> DEFINE K == Turn
      <3>1. Parts(a, b, c, d, K) /\ Parts(a2, b2, c2, d2, K)
        BY <1>1, <1>4 DEF a, b, c, d, Parts
      <3>2. /\ Turns(a2, K) \subseteq Turns(a, K) /\ (InOrder(a, K) => InOrder(a2, K))
            /\ Turns(b2, K) \subseteq Turns(b, K) /\ (InOrder(b, K) => InOrder(b2, K))
            /\ Turns(c2, K) \subseteq Turns(c, K) /\ (InOrder(c, K) => InOrder(c2, K))
            /\ Turns(d2, K) \subseteq Turns(d, K) /\ (InOrder(d, K) => InOrder(d2, K))
        BY <1>6, <1>7, <2>1
      <3> HIDE DEF K
      <3>3. /\ Turns(InLine(a2, b2, c2, d2), K) \subseteq Turns(InLine(a, b, c, d), K)
            /\ InOrder(InLine(a, b, c, d), K) => InOrder(InLine(a2, b2, c2, d2), K)
        BY <3>1, <3>2, LineShrinks
      <3> QED
        BY <3>3 DEF K
    <2> QED
      BY <2>2, <1>8
  <1>10. OneSlot => /\ deferred' \in Seq(TurnTasks)
                    /\ InOrder(deferred', Turn) /\ Turns(deferred', Turn) \subseteq Turns(deferred, Turn)
    <2> SUFFICES ASSUME OneSlot
                 PROVE  /\ deferred' \in Seq(TurnTasks)
                        /\ InOrder(deferred', Turn) /\ Turns(deferred', Turn) \subseteq Turns(deferred, Turn)
      OBVIOUS
    <2>1. deferred \in Seq(TurnTasks) /\ InOrder(deferred, Turn)
      BY DEF OrderInv
    <2>2. ASSUME NEW D, deferred' = Drop(deferred, D)
          PROVE  /\ deferred' \in Seq(TurnTasks)
                 /\ InOrder(deferred', Turn) /\ Turns(deferred', Turn) \subseteq Turns(deferred, Turn)
      BY <1>1, <2>1, <2>2, DropFacts, OrderDrop
    <2> QED
      BY <2>1, <2>2
  <1>11. OneSlot => InOrder(LineUp, Turn)
    BY DEF OrderInv
  <1> QED
    BY <1>9, <1>10, <1>11, OrderKeeps

\* Nothing of the line changes.
LEMMA OrderQuiet ==
    ASSUME Types, Types', OrderInv, UNCHANGED <<setup, queue, deferred, unhandled>>,
           Turn' = Turn,
           hand'["main"] = hand["main"] \/ hand'["main"] = NoTask,
           hand'["worker"] = hand["worker"] \/ hand'["worker"] = NoTask,
           OneSlot /\ BusySlots' # {} => BusySlots # {}
    PROVE  OrderInv'
  BY OrderShrinks

\* Tasks move up the line: the threads take them, the worker sets them aside, and they are put back.
LEMMA OrderMoves ==
    ASSUME Types, Types', OrderInv, LoopInv, SchedInv, MainTakes \/ PutBack \/ WorkerTakes \/ WorkerHandles
    PROVE  OrderInv'
  <1> DEFINE K == Turn
  <1>1. /\ Turned(K) /\ queue \in Seq(ListRec) /\ unhandled \in Seq(ListRec)
        /\ HandOf(hand["main"]) \in Seq(ListRec) /\ HandOf(hand["worker"]) \in Seq(ListRec)
    BY TurnFacts
  <1>2. UNCHANGED <<setup, deferred, slot, req>>
    BY DEF MainTakes, PutBack, WorkerTakes, WorkerHandles, loopVars
  <1>3. BusySlots' = BusySlots
    BY <1>2, Rigid DEF BusySlots, Busy
  <1> DEFINE none == <<>>
  <1> HIDE DEF K
  <1>4. InOrder(none, K) /\ Turns(none, K) = {} /\ none \in Seq(ListRec)
    <2>1. InOrder(<<>>, K) /\ Turns(<<>>, K) = {} /\ InOrder(<<1>>, K)
      BY <1>1, OrderOne
    <2> QED
      BY <2>1
  <1> HIDE DEF none
  <1>5. ASSUME queue # <<>>
        PROVE  LET h == <<Head(queue)>>  t == Tail(queue)
               IN  /\ h \in Seq(ListRec) /\ t \in Seq(ListRec)
                   /\ InOrder(queue, K) <=> InOrder(h, K) /\ InOrder(t, K) /\ Below(Turns(h, K), Turns(t, K))
                   /\ Turns(queue, K) = Turns(h, K) \cup Turns(t, K)
    <2> DEFINE h == <<Head(queue)>>
               t == Tail(queue)
    <2>1. Head(queue) \in ListRec /\ t \in Seq(ListRec) /\ queue = h \o t
      BY <1>1, <1>5, HeadTailProperties, ConcatProperties
    <2>2. h \in Seq(ListRec)
      BY <2>1
    <2> HIDE DEF h, t
    <2>3. /\ InOrder(h \o t, K) <=> InOrder(h, K) /\ InOrder(t, K) /\ Below(Turns(h, K), Turns(t, K))
          /\ Turns(h \o t, K) = Turns(h, K) \cup Turns(t, K)
      BY <1>1, <2>1, <2>2, OrderConcat
    <2> QED
      BY <2>1, <2>2, <2>3 DEF h, t
  <1>6. \A X : Below({}, X) /\ Below(X, {})
    BY DEF Below
  <1>7. \A A, B, C : Below(A, B \cup C) <=> Below(A, B) /\ Below(A, C)
    BY DEF Below
  <1> DEFINE a == HandOf(hand["main"])  b == unhandled  c == HandOf(hand["worker"])  d == queue
             A == Turns(a, K)  B == Turns(b, K)  C == Turns(c, K)  D == Turns(d, K)
  <1>8. /\ LineUp = InLine(a, b, c, d)
        /\ Turns(LineUp, K) = A \cup B \cup C \cup D
        /\ InOrder(LineUp, K) <=> /\ InOrder(a, K) /\ InOrder(b, K) /\ InOrder(c, K) /\ InOrder(d, K)
                                  /\ Below(A, B) /\ Below(A, C) /\ Below(A, D) /\ Below(B, C) /\ Below(B, D) /\ Below(C, D)
    <2>1. Parts(a, b, c, d, K)
      BY <1>1 DEF Parts
    <2> QED
      BY <2>1, LineOrder DEF LineUp
  <1>9. Turns(LineUp', K) \subseteq Turns(LineUp, K) /\ (InOrder(LineUp, K) => InOrder(LineUp', K))
    <2>1. CASE MainTakes
      <3> DEFINE h == <<Head(queue)>>  t == Tail(queue)
      <3>1. /\ main = "process" /\ hand["main"] = NoTask /\ queue # <<>> /\ unhandled' = unhandled
            /\ hand' = [hand EXCEPT !["main"] = Head(queue)] /\ queue' = t
        BY <2>1 DEF MainTakes
      <3>2. hand["worker"] = NoTask /\ unhandled = <<>>
        BY <3>1 DEF SchedInv, LoopInv
      <3>3. Head(queue) # NoTask
        BY <1>1, <3>1, HeadTailProperties, NoneListed
      <3>4. hand'["main"] = Head(queue) /\ hand'["worker"] = NoTask
        BY <3>1, <3>2 DEF Types
      <3>5. a = none /\ b = none /\ c = none /\ LineUp' = InLine(h, none, none, t)
        BY <3>1, <3>2, <3>3, <3>4, LinePrimed DEF HandOf, none
      <3> HIDE DEF h, t, a, b, c
      <3>6. /\ h \in Seq(ListRec) /\ t \in Seq(ListRec)
            /\ InOrder(d, K) <=> InOrder(h, K) /\ InOrder(t, K) /\ Below(Turns(h, K), Turns(t, K))
            /\ D = Turns(h, K) \cup Turns(t, K)
        BY <3>1, <1>5 DEF h, t
      <3>7. /\ Turns(InLine(h, none, none, t), K) = Turns(h, K) \cup Turns(none, K) \cup Turns(none, K) \cup Turns(t, K)
            /\ InOrder(InLine(h, none, none, t), K)
                 <=> /\ InOrder(h, K) /\ InOrder(none, K) /\ InOrder(none, K) /\ InOrder(t, K)
                     /\ Below(Turns(h, K), Turns(none, K)) /\ Below(Turns(h, K), Turns(none, K)) /\ Below(Turns(h, K), Turns(t, K))
                     /\ Below(Turns(none, K), Turns(none, K)) /\ Below(Turns(none, K), Turns(t, K)) /\ Below(Turns(none, K), Turns(t, K))
        <4>1. Parts(h, none, none, t, K)
          BY <1>1, <1>4, <3>6 DEF Parts
        <4> QED
          BY <4>1, LineOrder
      <3> QED
        BY <1>4, <1>6, <1>8, <3>5, <3>6, <3>7
    <2>2. CASE PutBack
      <3>1. /\ main = "join" /\ ~ worker.busy /\ hand' = hand /\ unhandled' = <<>> /\ queue' = unhandled \o queue
        BY <2>2 DEF PutBack
      <3>2. hand["worker"] = NoTask /\ hand["main"] = NoTask
        BY <3>1 DEF SchedInv, LoopInv
      <3>3. a = none /\ c = none /\ LineUp' = InLine(none, none, none, b \o d)
        BY <3>1, <3>2, LinePrimed DEF HandOf, none
      <3> HIDE DEF a, b, c, d
      <3>4. b \in Seq(ListRec) /\ d \in Seq(ListRec)
        BY <1>1 DEF b, d
      <3>5. /\ InOrder(b \o d, K) <=> InOrder(b, K) /\ InOrder(d, K) /\ Below(B, D)
            /\ Turns(b \o d, K) = B \cup D
        BY <3>4, <1>1, OrderConcat
      <3>6. b \o d \in Seq(ListRec)
        BY <3>4, ConcatProperties
      <3> DEFINE x == b \o d
      <3> HIDE DEF x
      <3>7. /\ Turns(InLine(none, none, none, x), K) = Turns(none, K) \cup Turns(none, K) \cup Turns(none, K) \cup Turns(x, K)
            /\ InOrder(InLine(none, none, none, x), K)
                 <=> /\ InOrder(none, K) /\ InOrder(none, K) /\ InOrder(none, K) /\ InOrder(x, K)
                     /\ Below(Turns(none, K), Turns(none, K)) /\ Below(Turns(none, K), Turns(none, K)) /\ Below(Turns(none, K), Turns(x, K))
                     /\ Below(Turns(none, K), Turns(none, K)) /\ Below(Turns(none, K), Turns(x, K)) /\ Below(Turns(none, K), Turns(x, K))
        <4>1. Parts(none, none, none, x, K)
          BY <1>1, <1>4, <3>6 DEF x, Parts
        <4> QED
          BY <4>1, LineOrder
      <3> QED
        BY <1>4, <1>6, <1>8, <3>3, <3>5, <3>7 DEF x
    <2>3. CASE WorkerTakes
      <3> DEFINE h == <<Head(queue)>>  t == Tail(queue)
      <3>1. /\ hand["worker"] = NoTask /\ queue # <<>> /\ unhandled' = unhandled
            /\ hand' = [hand EXCEPT !["worker"] = Head(queue)] /\ queue' = t
        BY <2>3 DEF WorkerTakes
      <3>3. Head(queue) # NoTask
        BY <1>1, <3>1, HeadTailProperties, NoneListed
      <3>4. hand'["worker"] = Head(queue) /\ hand'["main"] = hand["main"]
        BY <3>1 DEF Types
      <3>5. c = none /\ LineUp' = InLine(a, b, h, t)
        BY <3>1, <3>3, <3>4, LinePrimed DEF HandOf, none
      <3> HIDE DEF h, t, a, b, c
      <3>6. /\ h \in Seq(ListRec) /\ t \in Seq(ListRec)
            /\ InOrder(d, K) <=> InOrder(h, K) /\ InOrder(t, K) /\ Below(Turns(h, K), Turns(t, K))
            /\ D = Turns(h, K) \cup Turns(t, K)
        BY <3>1, <1>5 DEF h, t
      <3>7. a \in Seq(ListRec) /\ b \in Seq(ListRec)
        BY <1>1 DEF a, b
      <3>8. /\ Turns(InLine(a, b, h, t), K) = A \cup B \cup Turns(h, K) \cup Turns(t, K)
            /\ InOrder(InLine(a, b, h, t), K)
                 <=> /\ InOrder(a, K) /\ InOrder(b, K) /\ InOrder(h, K) /\ InOrder(t, K)
                     /\ Below(A, B) /\ Below(A, Turns(h, K)) /\ Below(A, Turns(t, K))
                     /\ Below(B, Turns(h, K)) /\ Below(B, Turns(t, K)) /\ Below(Turns(h, K), Turns(t, K))
        <4>1. Parts(a, b, h, t, K)
          BY <1>1, <3>6, <3>7 DEF Parts
        <4> QED
          BY <4>1, LineOrder
      <3> HIDE DEF A, B, C, D
      <3>9. C = {}
        BY <1>4, <3>5 DEF C
      <3>10. Turns(LineUp', K) = Turns(LineUp, K)
        BY <1>8, <3>5, <3>6, <3>8, <3>9
      <3>11. ASSUME InOrder(LineUp, K) PROVE InOrder(LineUp', K)
        <4>1. InOrder(a, K) /\ InOrder(b, K) /\ InOrder(d, K) /\ Below(A, B) /\ Below(A, D) /\ Below(B, D)
          BY <3>11, <1>8
        <4>2. Below(A, Turns(h, K)) /\ Below(A, Turns(t, K)) /\ Below(B, Turns(h, K)) /\ Below(B, Turns(t, K))
          BY <4>1, <3>6, <1>7
        <4> QED
          BY <4>1, <4>2, <3>5, <3>6, <3>8
      <3> QED
        BY <3>10, <3>11
    <2>4. CASE WorkerHandles
      <3>1. /\ hand["worker"] # NoTask /\ hand' = [hand EXCEPT !["worker"] = NoTask] /\ queue' = queue
            /\ unhandled' = Append(unhandled, hand["worker"]) \/ unhandled' = unhandled
        BY <2>4 DEF WorkerHandles
      <3>2. hand'["worker"] = NoTask /\ hand'["main"] = hand["main"] /\ c = <<hand["worker"]>>
        BY <3>1 DEF Types, HandOf
      <3>3. unhandled' = b \o c \/ unhandled' = b
        <4>1. hand["worker"] \in ListRec
          BY <3>1 DEF Types
        <4> QED
          BY <4>1, <1>1, <3>1, <3>2, AppendIsConcat
      <3>4. LineUp' = InLine(a, unhandled', none, d)
        BY <3>1, <3>2, LinePrimed DEF HandOf, none
      <3> HIDE DEF a, b, c, d
      <3>5. a \in Seq(ListRec) /\ b \in Seq(ListRec) /\ c \in Seq(ListRec) /\ d \in Seq(ListRec)
        BY <1>1 DEF a, b, c, d
      <3>6. /\ InOrder(b \o c, K) <=> InOrder(b, K) /\ InOrder(c, K) /\ Below(B, C)
            /\ Turns(b \o c, K) = B \cup C
        BY <3>5, <1>1, OrderConcat
      <3>7. b \o c \in Seq(ListRec)
        BY <3>5, ConcatProperties
      <3> DEFINE u == unhandled'  U == Turns(u, K)
      <3>8. u \in Seq(ListRec) /\ U \subseteq B \cup C /\ (InOrder(b, K) /\ InOrder(c, K) /\ Below(B, C) => InOrder(u, K))
        BY <3>3, <3>5, <3>6, <3>7
      <3> HIDE DEF u
      <3>9. /\ Turns(InLine(a, u, none, d), K) = A \cup U \cup Turns(none, K) \cup D
            /\ InOrder(InLine(a, u, none, d), K)
                 <=> /\ InOrder(a, K) /\ InOrder(u, K) /\ InOrder(none, K) /\ InOrder(d, K)
                     /\ Below(A, U) /\ Below(A, Turns(none, K)) /\ Below(A, D)
                     /\ Below(U, Turns(none, K)) /\ Below(U, D) /\ Below(Turns(none, K), D)
        <4>1. Parts(a, u, none, d, K)
          BY <1>1, <1>4, <3>5, <3>8 DEF Parts
        <4> QED
          BY <4>1, LineOrder
      <3> HIDE DEF A, B, C, D, U
      <3>10. Turns(LineUp', K) \subseteq Turns(LineUp, K)
        BY <1>4, <1>8, <3>4, <3>8, <3>9 DEF u
      <3>11. ASSUME InOrder(LineUp, K) PROVE InOrder(LineUp', K)
        <4>1. /\ InOrder(a, K) /\ InOrder(b, K) /\ InOrder(c, K) /\ InOrder(d, K)
              /\ Below(A, B) /\ Below(A, C) /\ Below(A, D) /\ Below(B, C) /\ Below(B, D) /\ Below(C, D)
          BY <3>11, <1>8
        <4>2. Below(A, U) /\ Below(U, D)
          BY <4>1, <3>8 DEF Below
        <4>3. InOrder(u, K)
          BY <4>1, <3>8
        <4> QED
          BY <4>1, <4>2, <4>3, <3>4, <3>9, <1>4, <1>6 DEF u
      <3> QED
        BY <3>10, <3>11
    <2> QED
      BY <2>1, <2>2, <2>3, <2>4
  <1>11. Turn' = Turn
    BY <1>2, TurnSame
  <1>10. OneSlot => InOrder(LineUp, K) /\ deferred \in Seq(TurnTasks) /\ InOrder(deferred, K)
    BY DEF OrderInv, K
  <1> QED
    BY <1>2, <1>3, <1>9, <1>10, <1>11, OrderKeeps DEF K

\* With one slot, what the main thread may do with the task in hand: a task is put aside only while the slot works.
LEMMA HandledOrder ==
    ASSUME Types, OneSlot, Handled(hand["main"])
    PROVE  LET t == hand["main"]
           IN  \/ UNCHANGED <<queue, deferred, slot>>
               \/ t \in TurnTasks /\ BusySlots = {} /\ UNCHANGED <<queue, deferred>>
               \/ t \in TurnTasks /\ BusySlots # {} /\ deferred' = Append(deferred, t) /\ UNCHANGED <<queue, slot>>
               \/ t \notin TurnTasks /\ \E s \in Slots : Busy(s) /\ Release(s)
  <1> DEFINE t == hand["main"]
  <1>1. t \in ListRec \cup {NoTask}
    BY DEF Types
  <1>2. Slots = {0} /\ \A r \in Requests : WantSlot[r] % NSlots = 0 /\ Children[r] = 0
    <2>1. WantSlot \in [Requests -> Int] /\ NSlots = 1
      BY Parameters DEF Types, OneSlot
    <2> QED
      BY <2>1 DEF OneSlot, Slots
  <1>3. CASE t.type = "next"
    BY <1>3, RecFacts DEF Handled, HandleNext
  <1>4. CASE t.type = "cancel"
    <2>1. PICK id \in AllIds : t = CancelTask(id) /\ t.id = id
      BY <1>1, <1>4, ListRecFacts
    <2>2. HandleCancel(id)
      BY <1>4, <2>1 DEF Handled
    <2>3. id # NoId
      BY IdFacts DEF Types
    <2>4. t \notin TurnTasks
      BY <2>1, TurnFacts
    <2>5. \A s \in Slots : slot[s].id = id => Busy(s)
      BY <2>3 DEF Busy, Types
    <2> QED
      BY <2>2, <2>4, <2>5 DEF HandleCancel
  <1>5. CASE t.type = "task"
    <2>1. PICK r \in Requests : t = Task(<<r, 0>>) /\ t.id[1] = r
      BY <1>1, <1>5, ListRecFacts
    <2>2. \/ Kind[r] = "completion" /\ HandleCompletion(r)
          \/ Kind[r] = "action" /\ HandleAction(r)
          \/ Kind[r] = "metrics" /\ HandleMetrics(r)
      BY <1>5, <2>1 DEF Handled
    <2>3. CASE Kind[r] = "metrics" /\ HandleMetrics(r)
      BY <2>3 DEF HandleMetrics
    <2>4. ASSUME Kind[r] # "metrics", Defer(t), BusySlots # {}
          PROVE  t \in TurnTasks /\ BusySlots # {} /\ deferred' = Append(deferred, t) /\ UNCHANGED <<queue, slot>>
      BY <2>1, <2>4, TurnFacts DEF Defer
    <2>5. CASE Kind[r] = "action" /\ HandleAction(r)
      <3>1. CASE Busy(0) /\ Defer(t)
        <4>1. BusySlots # {}
          BY <1>2, <3>1 DEF BusySlots
        <4> QED
          BY <2>4, <2>5, <3>1, <4>1
      <3>2. CASE UNCHANGED <<queue, deferred, slot>>
        BY <3>2
      <3> QED
        BY <1>2, <2>1, <2>5, <3>1, <3>2 DEF HandleAction
    <2>6. CASE Kind[r] = "completion" /\ HandleCompletion(r)
      <3> DEFINE candidates == IF WantSlot[r] = -1 THEN Slots \ BusySlots ELSE {WantSlot[r] % NSlots} \ BusySlots
      <3>1. candidates = {0} \ BusySlots
        BY <1>2
      <3>2. \/ candidates = {} /\ Defer(t)
            \/ \E own \in candidates :
                 \/ Cardinality(FreeSlots(own)) < 0 /\ Defer(t)
                 \/ UNCHANGED <<queue, deferred, slot>>
                 \/ UNCHANGED <<queue, deferred>>
        BY <1>2, <2>1, <2>6 DEF HandleCompletion, Reject, Launch
      <3> HIDE DEF candidates
      <3>3. CASE candidates = {} /\ Defer(t)
        <4>1. BusySlots # {}
          BY <3>1, <3>3
        <4> QED
          BY <2>4, <2>6, <3>3, <4>1
      <3>4. CASE candidates # {} /\ UNCHANGED <<queue, deferred>>
        <4>1. BusySlots = {}
          BY <1>2, <3>1, <3>4 DEF BusySlots
        <4>2. t \in TurnTasks
          BY <2>1, <2>6, TurnFacts
        <4> QED
          BY <3>4, <4>1, <4>2
      <3>5. ASSUME NEW own \in candidates PROVE ~ (Cardinality(FreeSlots(own)) < 0)
        <4>1. FreeSlots(own) \subseteq Slots /\ IsFiniteSet(Slots)
          BY Parameters DEF FreeSlots, Types
        <4>2. Cardinality(FreeSlots(own)) \in Nat
          BY <4>1, FS_Subset, FS_CardinalityType
        <4> QED
          BY <4>2
      <3> QED
        BY <3>2, <3>3, <3>4, <3>5
    <2> QED
      BY <2>2, <2>3, <2>5, <2>6
  <1> QED
    BY <1>3, <1>4, <1>5 DEF Handled

\* The one slot is freed, and lets one task in.
LEMMA OrderReleases ==
    ASSUME Types, Types', OrderInv, setup' = setup, Turn' = Turn, NEW s \in Slots, Busy(s), Release(s),
           hand["worker"] = NoTask, hand'["worker"] = NoTask, unhandled = <<>>, unhandled' = <<>>,
           hand["main"] \notin TurnTasks, hand'["main"] = NoTask
    PROVE  OrderInv'
  <1> DEFINE K == Turn
             none == <<>>
             a == HandOf(hand["main"])
  <1> SUFFICES ASSUME OneSlot
               PROVE  /\ deferred' \in Seq(TurnTasks)
                      /\ InOrder(deferred', K) /\ InOrder(LineUp', K)
                      /\ Stands(Turns(deferred', K), Turns(LineUp', K), BusySlots' # {})
    BY OrderPrimed
  <1>1. /\ Turned(K) /\ DOMAIN K = TurnTasks /\ queue \in Seq(ListRec) /\ a \in Seq(ListRec)
        /\ \A e \in TurnTasks : K[e] \in Nat
    BY TurnFacts DEF Turned
  <1>2. BusySlots # {} /\ BusySlots' = {}
    <2>1. Slots = {0} /\ Slots' = Slots /\ s = 0
      BY Rigid DEF OneSlot, Slots
    <2>2. slot' = [slot EXCEPT ![s] = Free] /\ slot \in [Slots -> SlotRec]
      BY DEF Release, Types
    <2>3. slot'[s].state = "idle"
      BY <2>2 DEF Free
    <2> QED
      BY <2>1, <2>3 DEF BusySlots, Busy
  <1>3. /\ deferred \in Seq(TurnTasks) /\ InOrder(deferred, K) /\ InOrder(LineUp, K)
        /\ \A x \in Turns(deferred, K), y \in Turns(LineUp, K) : x < y
    BY <1>2 DEF OrderInv, Stands
  <1>4. /\ InOrder(none, K) /\ Turns(none, K) = {} /\ none \in Seq(ListRec)
        /\ InOrder(a, K) /\ Turns(a, K) = {}
    <2> DEFINE e == hand["main"]
    <2>1. InOrder(<<>>, K) /\ Turns(<<>>, K) = {} /\ InOrder(<<e>>, K) /\ Turns(<<e>>, K) = IF e \in DOMAIN K THEN {K[e]} ELSE {}
      BY <1>1, OrderOne
    <2> QED
      BY <2>1, <1>1 DEF HandOf
  <1>5. queue' \in Seq(ListRec)
    BY Rigid DEF Types
  <1>6. LineUp = InLine(a, none, none, queue) /\ LineUp' = InLine(none, none, none, queue')
    BY LinePrimed DEF LineUp, HandOf
  <1> HIDE DEF K, none, a
  <1>7. \A X : Below({}, X) /\ Below(X, {})
    BY DEF Below
  <1>8. Turns(LineUp, K) = Turns(queue, K) /\ InOrder(queue, K)
    <2>1. Parts(a, none, none, queue, K)
      BY <1>1, <1>4 DEF Parts
    <2>2. /\ Turns(LineUp, K) = Turns(a, K) \cup Turns(none, K) \cup Turns(none, K) \cup Turns(queue, K)
          /\ InOrder(LineUp, K) => InOrder(queue, K)
      BY <2>1, <1>6, LineOrder
    <2> QED
      BY <2>2, <1>3, <1>4
  <1>9. Turns(LineUp', K) = Turns(queue', K) /\ (InOrder(queue', K) => InOrder(LineUp', K))
    <2> DEFINE d == queue'
    <2> HIDE DEF d
    <2>1. Parts(none, none, none, d, K)
      BY <1>1, <1>4, <1>5 DEF Parts, d
    <2>2. /\ Turns(InLine(none, none, none, d), K) = Turns(none, K) \cup Turns(none, K) \cup Turns(none, K) \cup Turns(d, K)
          /\ InOrder(InLine(none, none, none, d), K)
               <=> /\ InOrder(none, K) /\ InOrder(none, K) /\ InOrder(none, K) /\ InOrder(d, K)
                   /\ Below(Turns(none, K), Turns(none, K)) /\ Below(Turns(none, K), Turns(none, K)) /\ Below(Turns(none, K), Turns(d, K))
                   /\ Below(Turns(none, K), Turns(none, K)) /\ Below(Turns(none, K), Turns(d, K)) /\ Below(Turns(none, K), Turns(d, K))
      BY <2>1, LineOrder
    <2> QED
      BY <2>2, <1>4, <1>6, <1>7 DEF d
  <1>10. CASE UNCHANGED <<queue, deferred>>
    BY <1>3, <1>8, <1>9, <1>10 DEF Stands
  <1>11. ASSUME NEW i \in DOMAIN deferred, queue' = <<deferred[i]>> \o queue, deferred' = RemoveAt(deferred, i)
         PROVE  /\ deferred' \in Seq(TurnTasks)
                /\ InOrder(deferred', K) /\ InOrder(LineUp', K)
                /\ Stands(Turns(deferred', K), Turns(LineUp', K), BusySlots' # {})
    <2> DEFINE e == deferred[i]
    <2>1. i \in 1 .. Len(deferred)
      BY <1>3, LenProperties
    <2>2. deferred' \in Seq(TurnTasks) /\ e \in TurnTasks
      BY <1>3, <1>11, <2>1, OccRemoveAt
    <2>3. Turns(deferred', K) \subseteq Turns(deferred, K) /\ InOrder(deferred', K)
      BY <1>1, <1>3, <1>11, <2>1, OrderRemoveAt
    <2>4. K[e] \in Turns(deferred, K)
      BY <1>1, <2>2 DEF Turns
    <2> HIDE DEF e
    <2> DEFINE f == <<e>>
    <2>5. InOrder(f, K) /\ Turns(f, K) = {K[e]}
      BY <1>1, <2>2, OrderOne
    <2>6. f \in Seq(ListRec)
      BY <2>2, TurnFacts
    <2> HIDE DEF f
    <2>7. /\ InOrder(f \o queue, K) <=> InOrder(f, K) /\ InOrder(queue, K) /\ Below(Turns(f, K), Turns(queue, K))
          /\ Turns(f \o queue, K) = Turns(f, K) \cup Turns(queue, K)
      BY <1>1, <2>6, OrderConcat
    <2>8. Below(Turns(f, K), Turns(queue, K))
      BY <1>3, <1>8, <2>4, <2>5 DEF Below
    <2>9. queue' = f \o queue
      BY <1>11 DEF f, e
    <2>10. InOrder(LineUp', K) /\ Turns(LineUp', K) = {K[e]} \cup Turns(queue, K)
      BY <1>8, <1>9, <2>5, <2>7, <2>8, <2>9
    <2>11. Stands(Turns(deferred', K), Turns(LineUp', K), BusySlots' # {})
      <3> SUFFICES ASSUME NEW x \in Turns(deferred', K), NEW y \in Turns(LineUp', K), NEW z \in Turns(LineUp', K), z < y
                   PROVE  x < y
        BY <1>2 DEF Stands
      <3>1. CASE y \in Turns(queue, K)
        BY <1>3, <1>8, <2>3, <3>1
      <3>2. CASE y = K[e]
        <4>1. K[e] \in Nat /\ \A w \in Turns(queue, K) : w \in Nat
          BY <1>1, <2>2 DEF Turns
        <4>2. \A w \in Turns(queue, K) : K[e] < w
          BY <1>3, <1>8, <2>4
        <4> QED
          BY <2>10, <3>2, <4>1, <4>2
      <3> QED
        BY <2>10, <3>1, <3>2
    <2> QED
      BY <2>2, <2>3, <2>10, <2>11
  <1> QED
    BY <1>10, <1>11 DEF Release, PopDeferred

\* A line whose parts in the middle are empty.
LEMMA ShortLine ==
    ASSUME NEW a \in Seq(ListRec), NEW d \in Seq(ListRec), NEW K, Turned(K)
    PROVE  /\ Turns(InLine(a, <<>>, <<>>, d), K) = Turns(a, K) \cup Turns(d, K)
           /\ InOrder(InLine(a, <<>>, <<>>, d), K) <=> InOrder(a, K) /\ InOrder(d, K) /\ Below(Turns(a, K), Turns(d, K))
  <1> DEFINE none == <<>>
             A == Turns(a, K)
             N == Turns(none, K)
             D == Turns(d, K)
             l == InLine(a, none, none, d)
  <1>1. InOrder(none, K) /\ N = {} /\ none \in Seq(ListRec)
    <2>1. InOrder(<<>>, K) /\ Turns(<<>>, K) = {} /\ InOrder(<<1>>, K)
      BY OrderOne
    <2> QED
      BY <2>1
  <1> HIDE DEF none
  <1>2. Parts(a, none, none, d, K)
    BY <1>1 DEF Parts
  <1>3. /\ Turns(l, K) = A \cup N \cup N \cup D
        /\ InOrder(l, K) <=> /\ InOrder(a, K) /\ InOrder(none, K) /\ InOrder(none, K) /\ InOrder(d, K)
                             /\ Below(A, N) /\ Below(A, N) /\ Below(A, D) /\ Below(N, N) /\ Below(N, D) /\ Below(N, D)
    BY <1>2, LineOrder
  <1> HIDE DEF A, N, D, l
  <1>4. \A X : Below({}, X) /\ Below(X, {})
    BY DEF Below
  <1>5. Turns(l, K) = A \cup D /\ (InOrder(l, K) <=> InOrder(a, K) /\ InOrder(d, K) /\ Below(A, D))
    BY <1>1, <1>3, <1>4
  <1> QED
    BY <1>5 DEF A, D, l, none

\* process_single_task(): the task takes the slot, is put aside while the slot works, or frees it.
LEMMA OrderHandles ==
    ASSUME Types, Types', OrderInv, LoopInv, SchedInv, MainHandles
    PROVE  OrderInv'
  <1> DEFINE K == Turn
             e == hand["main"]
             none == <<>>
  <1>1. /\ UNCHANGED <<setup, unhandled, worker, todo, req>>
        /\ hand' = [hand EXCEPT !["main"] = NoTask] /\ Handled(hand["main"]) /\ main = "process"
    BY DEF MainHandles, Handled
  <1>2. Turn' = Turn
    BY <1>1, TurnSame
  <1>3. hand'["main"] = NoTask /\ hand'["worker"] = NoTask /\ hand["worker"] = NoTask /\ unhandled = <<>> /\ unhandled' = <<>>
    <2>1. hand \in [{"main", "worker"} -> ListRec \cup {NoTask}]
      BY DEF Types
    <2>2. hand["worker"] = NoTask /\ unhandled = <<>>
      BY <1>1 DEF SchedInv, LoopInv
    <2> QED
      BY <1>1, <2>1, <2>2
  <1> SUFFICES ASSUME OneSlot PROVE OrderInv'
    BY <1>1, <1>2, OrderPrimed
  <1>4. CASE UNCHANGED <<queue, deferred, slot>>
    <2>1. BusySlots' = BusySlots
      BY <1>1, <1>4, Rigid DEF BusySlots, Busy
    <2> QED
      BY <1>1, <1>2, <1>3, <1>4, <2>1, OrderQuiet
  <1>5. CASE e \notin TurnTasks /\ \E s \in Slots : Busy(s) /\ Release(s)
    BY <1>1, <1>2, <1>3, <1>5, OrderReleases
  <1>6. CASE e \in TurnTasks /\ UNCHANGED queue
    <2>1. /\ Turned(K) /\ DOMAIN K = TurnTasks /\ queue \in Seq(ListRec) /\ e \in ListRec /\ e # NoTask
          /\ K[e] \in Nat
      BY <1>6, TurnFacts DEF Turned
    <2> HIDE DEF K, e
    <2> DEFINE f == <<e>>
    <2>2. LineUp = InLine(f, <<>>, <<>>, queue) /\ LineUp' = InLine(<<>>, <<>>, <<>>, queue)
      BY <1>3, <1>6, <2>1, LinePrimed DEF LineUp, HandOf, e
    <2>3. InOrder(f, K) /\ Turns(f, K) = {K[e]} /\ InOrder(none, K) /\ Turns(none, K) = {}
      BY <1>6, <2>1, OrderOne
    <2>4. f \in Seq(ListRec) /\ none \in Seq(ListRec)
      BY <2>1
    <2> DEFINE Q == Turns(queue, K)
               L == Turns(LineUp, K)
               D == Turns(deferred, K)
    <2>5. L = {K[e]} \cup Q /\ (InOrder(LineUp, K) <=> InOrder(queue, K) /\ Below({K[e]}, Q))
      <3> HIDE DEF f
      <3>1. /\ Turns(InLine(f, <<>>, <<>>, queue), K) = Turns(f, K) \cup Turns(queue, K)
            /\ InOrder(InLine(f, <<>>, <<>>, queue), K) <=> InOrder(f, K) /\ InOrder(queue, K) /\ Below(Turns(f, K), Turns(queue, K))
        BY <2>1, <2>4, ShortLine
      <3> QED
        BY <3>1, <2>2, <2>3
    <2>6. Turns(LineUp', K) = Q /\ (InOrder(LineUp', K) <=> InOrder(queue, K))
      <3>1. /\ Turns(InLine(none, <<>>, <<>>, queue), K) = Turns(none, K) \cup Turns(queue, K)
            /\ InOrder(InLine(none, <<>>, <<>>, queue), K)
                 <=> InOrder(none, K) /\ InOrder(queue, K) /\ Below(Turns(none, K), Turns(queue, K))
        <4> HIDE DEF none
        <4> QED
          BY <2>1, <2>4, ShortLine
      <3>2. Below({}, Q)
        BY DEF Below
      <3> QED
        BY <3>1, <3>2, <2>2, <2>3
    <2>7. /\ deferred \in Seq(TurnTasks) /\ InOrder(deferred, K) /\ InOrder(LineUp, K)
          /\ Stands(D, L, BusySlots # {})
      BY DEF OrderInv, K
    <2>8. InOrder(LineUp', K) /\ Below({K[e]}, Q)
      BY <2>5, <2>6, <2>7
    <2>9. Below(D, Q)
      <3>1. ASSUME NEW x \in D, NEW y \in Q PROVE x < y
        <4>1. K[e] < y /\ K[e] \in L /\ y \in L
          BY <2>5, <2>8 DEF Below
        <4> QED
          BY <4>1, <2>7 DEF Stands
      <3> QED
        BY <3>1 DEF Below
    <2>10. CASE deferred' = deferred
      <3>1. Stands(Turns(deferred', K), Turns(LineUp', K), BusySlots' # {})
        BY <2>6, <2>9, <2>10 DEF Stands, Below
      <3> QED
        BY <1>1, <1>2, <2>7, <2>8, <2>10, <3>1, OrderPrimed DEF K
    <2>11. CASE BusySlots # {} /\ deferred' = Append(deferred, e)
      <3>1. deferred' \in Seq(TurnTasks) /\ deferred' = deferred \o f /\ f \in Seq(TurnTasks)
        <4>1. f \in Seq(TurnTasks)
          BY <1>6 DEF e
        <4>2. Append(deferred, e) \in Seq(TurnTasks)
          BY <1>6, <2>7, AppendProperties DEF e
        <4>3. Append(deferred, e) = deferred \o f
          BY <1>6, <2>7, AppendIsConcat DEF e
        <4> QED
          BY <2>11, <4>1, <4>2, <4>3
      <3> HIDE DEF f
      <3>2. /\ InOrder(deferred \o f, K) <=> InOrder(deferred, K) /\ InOrder(f, K) /\ Below(D, Turns(f, K))
            /\ Turns(deferred \o f, K) = D \cup Turns(f, K)
        BY <2>1, <2>7, <3>1, OrderConcat
      <3>3. Below(D, {K[e]})
        BY <2>5, <2>7, <2>11 DEF Stands, Below
      <3>4. InOrder(deferred', K) /\ Turns(deferred', K) = D \cup {K[e]}
        BY <2>3, <2>7, <3>1, <3>2, <3>3
      <3>5. Stands(Turns(deferred', K), Turns(LineUp', K), BusySlots' # {})
        BY <2>6, <2>8, <2>9, <3>4 DEF Stands, Below
      <3> QED
        BY <1>1, <1>2, <2>8, <3>1, <3>4, <3>5, OrderPrimed DEF K
    <2> QED
      BY <1>6, <2>10, <2>11, HandledOrder, <1>1, <1>4, <1>5 DEF e
  <1> QED
    BY <1>1, <1>4, <1>5, <1>6, HandledOrder

\* post_decode(): a slot goes on, waits, or ends and is freed.
LEMMA OrderSlots ==
    ASSUME Types, Types', OrderInv, LoopInv, SchedInv, NEW s \in Slots,
           SlotGenerates(s) \/ SlotWaits(s) \/ SlotFinishes(s) \/ SlotFails(s)
    PROVE  OrderInv'
  <1>1. /\ UNCHANGED <<setup, unhandled, hand, main, worker, req>> /\ main = "slots" /\ s \in todo
    BY DEF SlotGenerates, SlotWaits, SlotFinishes, SlotFails, Visit
  <1>2. Turn' = Turn
    BY <1>1, TurnSame
  <1>3. Busy(s) /\ hand["main"] = NoTask /\ hand["worker"] = NoTask /\ unhandled = <<>> /\ BusySlots # {}
    BY <1>1 DEF LoopInv, SchedInv, BusySlots
  <1>4. CASE SlotGenerates(s) \/ SlotWaits(s)
    <2>1. UNCHANGED <<queue, deferred>>
      BY <1>4 DEF SlotGenerates, SlotWaits
    <2> QED
      BY <1>1, <1>2, <1>3, <2>1, OrderQuiet
  <1>5. CASE Release(s)
    <2>1. NoTask \notin TurnTasks
      BY TurnFacts
    <2> QED
      BY <1>1, <1>2, <1>3, <1>5, <2>1, OrderReleases
  <1> QED
    BY <1>4, <1>5 DEF SlotFinishes, SlotFails

\* Nobody has a turn beyond the number of those who posted.
LEMMA TurnsBelow ==
    ASSUME Types, TurnInv, NEW q
    PROVE  \A x \in Turns(q, Turn) : x <= Cardinality(Posted)
  <1>1. \A t \in TurnTasks : Turn[t] <= Cardinality(Posted)
    BY TurnFacts DEF TurnInv
  <1>2. DOMAIN Turn = TurnTasks
    BY TurnFacts
  <1> QED
    BY <1>1, <1>2 DEF Turns

\* A task that is in no list and no hand is not in the line.
LEMMA NotInLine ==
    ASSUME Types, NEW t \in TurnTasks, Lined({t}) = 0
    PROVE  /\ \A i \in DOMAIN deferred : deferred[i] # t
           /\ LineUp \in Seq(ListRec) /\ \A i \in DOMAIN LineUp : LineUp[i] # t
  <1> DEFINE a == HandOf(hand["main"])
             b == unhandled
             c == HandOf(hand["worker"])
             d == queue
             x == a \o b
             y == x \o c
             l == y \o d
  <1>1. a \in Seq(ListRec) /\ b \in Seq(ListRec) /\ c \in Seq(ListRec) /\ d \in Seq(ListRec) /\ deferred \in Seq(ListRec)
    BY TurnFacts
  <1>2. /\ Occ(queue, {t}) = 0 /\ Occ(deferred, {t}) = 0 /\ Occ(unhandled, {t}) = 0
        /\ hand["main"] # t /\ hand["worker"] # t
    <2>1. Counts
      BY CountTypes
    <2>2. /\ Occ(queue, {t}) \in Nat /\ Occ(deferred, {t}) \in Nat /\ Occ(unhandled, {t}) \in Nat
          /\ InHand("main", {t}) \in Nat /\ InHand("worker", {t}) \in Nat
          /\ Occ(queue, {t}) + Occ(deferred, {t}) + Occ(unhandled, {t}) + InHand("main", {t}) + InHand("worker", {t}) = 0
      BY <2>1 DEF Counts, Lined, Listed
    <2> DEFINE i == Occ(queue, {t})  j == Occ(deferred, {t})  k == Occ(unhandled, {t})
               m == InHand("main", {t})  n == InHand("worker", {t})
    <2>3. i \in Nat /\ j \in Nat /\ k \in Nat /\ m \in Nat /\ n \in Nat /\ i + j + k + m + n = 0
      BY <2>2
    <2> HIDE DEF i, j, k, m, n
    <2>4. i = 0 /\ j = 0 /\ k = 0 /\ m = 0 /\ n = 0
      BY <2>3
    <2> QED
      BY <2>4 DEF InHand, i, j, k, m, n
  <1>3. Occ(a, {t}) = 0 /\ Occ(c, {t}) = 0
    <2>1. Occ(<<hand["main"]>>, {t}) = 0 /\ Occ(<<hand["worker"]>>, {t}) = 0 /\ Occ(<<>>, {t}) = 0
      BY <1>2, OccOne
    <2> QED
      BY <2>1 DEF HandOf
  <1>4. LineUp = l
    BY DEF LineUp, InLine
  <1>5. Occ(b, {t}) = 0 /\ Occ(d, {t}) = 0
    BY <1>2
  <1> HIDE DEF a, b, c, d
  <1>6. x \in Seq(ListRec) /\ Occ(x, {t}) = 0
    BY <1>1, <1>3, <1>5, OccConcat, ConcatProperties
  <1> HIDE DEF x
  <1>7. y \in Seq(ListRec) /\ Occ(y, {t}) = 0
    BY <1>1, <1>3, <1>6, OccConcat, ConcatProperties
  <1> HIDE DEF y
  <1>8. l \in Seq(ListRec) /\ Occ(l, {t}) = 0
    BY <1>1, <1>5, <1>7, OccConcat, ConcatProperties
  <1> HIDE DEF l
  <1>9. \A i \in DOMAIN l : l[i] # t
    BY <1>8, OccNat
  <1>10. \A i \in DOMAIN deferred : deferred[i] # t
    BY <1>1, <1>2, OccNat
  <1> QED
    BY <1>4, <1>8, <1>9, <1>10

\* A request that posts its task gets the next turn and stands at the end of the line.
LEMMA OrderPosts ==
    ASSUME Types, Types', OrderInv, TurnInv, AccountInv, NEW r \in Requests, Post(r)
    PROVE  OrderInv'
  <1> DEFINE t == Task(<<r, 0>>)
             n == 1 + Cardinality(Posted)
             K == Turn
             J == Turn'
  <1>1. /\ UNCHANGED <<setup, deferred, unhandled, hand, slot>>
        /\ queue' = IF Kind[r] = "metrics" THEN <<t>> \o queue ELSE Append(queue, t)
        /\ req' = [req EXCEPT ![r].pc = "recv", ![r].turn = n] /\ req[r].pc = "post"
    BY DEF Post, Posted, loopVars
  <1>2. TurnTasks' = TurnTasks /\ BusySlots' = BusySlots /\ (OneSlot' <=> OneSlot)
    BY <1>1, Rigid DEF TurnTasks, Task, BusySlots, Busy, OneSlot
  <1>3. /\ req'[r].turn = n /\ \A q \in Requests \ {r} : req'[q] = req[q]
        /\ Cardinality(Posted) \in Nat
    <2>1. IsFiniteSet(Posted)
      BY SetupAssumption, FS_Subset DEF Posted
    <2>2. req[r] \in ReqRec /\ req'[r] = [req[r] EXCEPT !.pc = "recv", !.turn = n] /\ \A q \in Requests \ {r} : req'[q] = req[q]
      BY <1>1 DEF Types, ReqRec
    <2>3. req'[r].turn = n
      BY <2>2 DEF ReqRec
    <2> QED
      BY <2>1, <2>2, <2>3, FS_CardinalityType
  <1>4. /\ DOMAIN J = TurnTasks /\ DOMAIN K = TurnTasks /\ Turned(K)
        /\ \A u \in TurnTasks : J[u] = IF u = t THEN n ELSE K[u]
        /\ queue \in Seq(ListRec) /\ t \in ListRec
    <2>1. DOMAIN J = TurnTasks /\ \A u \in TurnTasks : J[u] = req'[u.id[1]].turn
      BY <1>2 DEF Turn
    <2>2. \A u \in TurnTasks : u.id[1] \in Requests /\ u = Task(<<u.id[1], 0>>) /\ K[u] = req[u.id[1]].turn
      BY TurnFacts, Zenon
    <2>3. \A u \in TurnTasks : u = t => u.id[1] = r
      BY DEF Task
    <2> HIDE DEF J, K, n
    <2>4. ASSUME NEW u \in TurnTasks PROVE J[u] = IF u = t THEN n ELSE K[u]
      <3>1. CASE u.id[1] = r
        <4>1. u = t
          BY <2>2, <3>1
        <4> QED
          BY <1>3, <2>1, <3>1, <4>1
      <3>2. CASE u.id[1] # r
        <4>1. u # t
          BY <2>3, <3>2
        <4>2. u.id[1] \in Requests \ {r} /\ K[u] = req[u.id[1]].turn /\ J[u] = req'[u.id[1]].turn
          BY <2>1, <2>2, <3>2
        <4>3. req'[u.id[1]] = req[u.id[1]]
          BY <1>3, <4>2
        <4> QED
          BY <4>1, <4>2, <4>3
      <3> QED
        BY <3>1, <3>2
    <2> QED
      BY <2>1, <2>4, TurnFacts DEF ListRec, K
  <1> HIDE DEF J
  <1>5. CASE Kind[r] = "metrics"
    <2>1. t \notin TurnTasks
      <3>1. SUFFICES ASSUME t \in TurnTasks PROVE FALSE
        OBVIOUS
      <3>2. t.id[1] = r
        BY DEF Task
      <3> QED
        BY <1>5, <3>1, <3>2, TurnFacts
    <2>2. Turn' = Turn
      <3>1. \A u \in TurnTasks : req'[u.id[1]].turn = req[u.id[1]].turn
        BY <1>3, <2>1, TurnFacts
      <3> QED
        BY <1>2, <3>1 DEF Turn
    <2> HIDE DEF t, K
    <2> DEFINE f == <<t>>
    <2>3. f \in Seq(ListRec) /\ queue \in Seq(ListRec) /\ Turned(K)
      BY <1>4
    <2>4. InOrder(f, K) /\ Turns(f, K) = IF t \in DOMAIN K THEN {K[t]} ELSE {}
      BY <1>4, OrderOne
    <2>5. InOrder(f, K) /\ Turns(f, K) = {}
      BY <1>4, <2>1, <2>4
    <2> HIDE DEF f
    <2>6. /\ InOrder(f \o queue, K) <=> InOrder(f, K) /\ InOrder(queue, K) /\ Below(Turns(f, K), Turns(queue, K))
          /\ Turns(f \o queue, K) = Turns(f, K) \cup Turns(queue, K)
      BY <2>3, OrderConcat
    <2>7. queue' = f \o queue
      BY <1>1, <1>5 DEF f
    <2>8. Turns(queue', K) \subseteq Turns(queue, K) /\ (InOrder(queue, K) => InOrder(queue', K))
      BY <2>5, <2>6, <2>7 DEF Below
    <2> QED
      BY <1>1, <1>2, <2>2, <2>8, OrderShrinks DEF K
  <1>6. CASE Kind[r] # "metrics" /\ OneSlot
    <2>1. t \in TurnTasks
      BY <1>6 DEF TurnTasks
    <2>2. Lined({t}) = 0
      <3>1. <<r, 0>> \in Ids(r)
        BY Parameters DEF Types
      <3>2. Share(r, <<r, 0>>) = 0
        BY <1>1, <3>1 DEF AccountInv, AccInv, Waits
      <3>3. Counts
        BY CountTypes
      <3>4. Lined({t}) \in Nat /\ Own(<<r, 0>>) \in Nat /\ Occ(results, Answers({<<r, 0>>})) \in Nat /\ Got(r, <<r, 0>>) \in Nat
        BY <3>3 DEF Counts
      <3>5. Lined({t}) + Own(<<r, 0>>) + Occ(results, Answers({<<r, 0>>})) + Got(r, <<r, 0>>) = 0
        BY <3>2 DEF Share, Work
      <3> QED
        BY <3>4, <3>5
    <2> HIDE DEF t
    <2> DEFINE l == LineUp
               f == <<t>>
    <2>3. (\A i \in DOMAIN deferred : deferred[i] # t) /\ l \in Seq(ListRec) /\ \A i \in DOMAIN l : l[i] # t
      BY <2>1, <2>2, NotInLine
    <2>4. f \in Seq(ListRec)
      BY <1>4
    <2>5. LineUp' = l \o f
      <3> DEFINE a == HandOf(hand["main"])
                 b == unhandled
                 c == HandOf(hand["worker"])
                 x == a \o b
                 y == x \o c
      <3>1. queue' = queue \o f
        BY <1>1, <1>4, <1>6, AppendIsConcat
      <3>2. LineUp' = y \o (queue \o f) /\ l = y \o queue
        BY <1>1, <3>1, LinePrimed DEF LineUp, InLine
      <3>3. a \in Seq(ListRec) /\ b \in Seq(ListRec) /\ c \in Seq(ListRec)
        BY TurnFacts
      <3> HIDE DEF a, b, c, f
      <3>4. x \in Seq(ListRec)
        BY <3>3, ConcatProperties
      <3> HIDE DEF x
      <3>5. y \in Seq(ListRec)
        BY <3>3, <3>4, ConcatProperties
      <3> HIDE DEF y, l
      <3>6. (y \o queue) \o f = y \o (queue \o f)
        BY <1>4, <2>4, <3>5, ConcatAssociative, SMTT(20)
      <3> QED
        BY <3>2, <3>6
    <2>6. Turned(J) /\ n \in Nat
      BY <1>3, <1>4 DEF Turned
    <2>7. InOrder(f, J) /\ Turns(f, J) = {n}
      BY <1>4, <2>1, <2>6, OrderOne
    <2>8. /\ (InOrder(l, J) <=> InOrder(l, K)) /\ Turns(l, J) = Turns(l, K)
          /\ (InOrder(deferred, J) <=> InOrder(deferred, K)) /\ Turns(deferred, J) = Turns(deferred, K)
      <3> HIDE DEF l, K, n
      <3>1. DOMAIN J = DOMAIN K /\ \A u \in DOMAIN K : u # t => J[u] = K[u]
        BY <1>4
      <3>2. \A i \in DOMAIN l : l[i] \in DOMAIN K => J[l[i]] = K[l[i]]
        BY <2>3, <3>1
      <3>3. \A i \in DOMAIN deferred : deferred[i] \in DOMAIN K => J[deferred[i]] = K[deferred[i]]
        BY <2>3, <3>1
      <3>4. (InOrder(l, J) <=> InOrder(l, K)) /\ Turns(l, J) = Turns(l, K)
        BY <3>1, <3>2, OrderAgrees
      <3>5. (InOrder(deferred, J) <=> InOrder(deferred, K)) /\ Turns(deferred, J) = Turns(deferred, K)
        BY <3>1, <3>3, OrderAgrees
      <3> QED
        BY <3>4, <3>5
    <2>9. \A x \in Turns(l, K) \cup Turns(deferred, K) : x < n /\ x \in Nat
      BY <1>3, TurnsBelow DEF Turns
    <2>10. /\ deferred \in Seq(TurnTasks) /\ InOrder(deferred, K) /\ InOrder(l, K)
           /\ Stands(Turns(deferred, K), Turns(l, K), BusySlots # {})
      BY <1>6 DEF OrderInv
    <2> HIDE DEF l, f, K, n
    <2>11. /\ InOrder(l \o f, J) <=> InOrder(l, J) /\ InOrder(f, J) /\ Below(Turns(l, J), Turns(f, J))
           /\ Turns(l \o f, J) = Turns(l, J) \cup Turns(f, J)
      BY <2>3, <2>4, <2>6, OrderConcat
    <2>12. Below(Turns(l, J), Turns(f, J))
      BY <2>7, <2>8, <2>9 DEF Below
    <2>13. InOrder(LineUp', J) /\ Turns(LineUp', J) = Turns(l, K) \cup {n} /\ InOrder(deferred', J) /\ Turns(deferred', J) = Turns(deferred, K)
      BY <1>1, <2>5, <2>7, <2>8, <2>10, <2>11, <2>12
    <2>14. Stands(Turns(deferred', J), Turns(LineUp', J), BusySlots' # {})
      BY <1>2, <2>6, <2>9, <2>10, <2>13 DEF Stands
    <2>15. deferred' \in Seq(TurnTasks')
      BY <1>1, <1>2, <2>10
    <2> QED
      BY <2>13, <2>14, <2>15 DEF OrderInv, J, InOrder, Turns, Stands
  <1>7. CASE ~ OneSlot
    BY <1>2, <1>7 DEF OrderInv
  <1> QED
    BY <1>5, <1>6, <1>7

\* A NEXT_RESPONSE is appended.
LEMMA OrderDecode ==
    ASSUME Types, Types', OrderInv, UpdateDecode
    PROVE  OrderInv'
  <1> DEFINE K == Turn
             f == <<NextResponse>>
  <1>1. UNCHANGED <<setup, deferred, unhandled, hand, slot, req>> /\ queue' = Append(queue, NextResponse)
    BY DEF UpdateDecode
  <1>2. Turn' = Turn
    BY <1>1, TurnSame
  <1>3. BusySlots' = BusySlots
    BY <1>1, Rigid DEF BusySlots, Busy
  <1>4. Turned(K) /\ queue \in Seq(ListRec)
    BY TurnFacts
  <1>5. f \in Seq({NextResponse}) /\ f \in Seq(ListRec) /\ {NextResponse} \cap DOMAIN K = {}
    BY TurnFacts DEF ListRec
  <1>6. queue' = queue \o f
    <2>1. NextResponse \in ListRec
      BY DEF ListRec
    <2> QED
      BY <1>1, <1>4, <2>1, AppendIsConcat
  <1> HIDE DEF f, K
  <1>7. InOrder(f, K) /\ Turns(f, K) = {}
    BY <1>5, OrderNone
  <1>8. /\ InOrder(queue \o f, K) <=> InOrder(queue, K) /\ InOrder(f, K) /\ Below(Turns(queue, K), Turns(f, K))
        /\ Turns(queue \o f, K) = Turns(queue, K) \cup Turns(f, K)
    BY <1>4, <1>5, OrderConcat
  <1>9. Turns(queue', K) \subseteq Turns(queue, K) /\ (InOrder(queue, K) => InOrder(queue', K))
    BY <1>6, <1>7, <1>8 DEF Below
  <1> QED
    BY <1>1, <1>2, <1>3, <1>9, OrderShrinks DEF K

\* A reader that leaves takes its tasks out of the line, and its cancel tasks take no turn.
LEMMA OrderStopTasks ==
    ASSUME Types, Types', OrderInv, NEW r \in Requests, StopTasks(r), Turn' = Turn
    PROVE  OrderInv'
  <1> DEFINE K == Turn
             C == {CancelTask(id) : id \in Ids(r)}
             w == Without(queue, Ids(r))
  <1>1. /\ UNCHANGED <<setup, hand, slot>>
        /\ deferred' = Without(deferred, Ids(r)) /\ unhandled' = Without(unhandled, Ids(r))
    BY DEF StopTasks, loopVars
  <1>2. BusySlots' = BusySlots
    BY <1>1, Rigid DEF BusySlots, Busy
  <1>3. Turned(K) /\ queue \in Seq(ListRec)
    BY TurnFacts
  <1>4. PICK order \in SetToSeqs(Ids(r)) : queue' = [i \in DOMAIN order |-> CancelTask(order[i])] \o w
    BY DEF StopTasks
  <1> DEFINE c == [i \in DOMAIN order |-> CancelTask(order[i])]
  <1>5. c \in Seq(C)
    BY CancelList
  <1>6. C \subseteq ListRec /\ C \cap DOMAIN K = {}
    <2>1. Ids(r) \subseteq AllIds
      BY Parameters DEF Types
    <2>2. DOMAIN K = TurnTasks /\ \A id : CancelTask(id) \notin TurnTasks
      BY TurnFacts
    <2> HIDE DEF K
    <2> QED
      BY <2>1, <2>2 DEF ListRec
  <1> HIDE DEF C, K, c
  <1>7. c \in Seq(ListRec)
    BY <1>5, <1>6, SeqMonotonic
  <1>8. InOrder(c, K) /\ Turns(c, K) = {}
    BY <1>5, <1>6, OrderNone
  <1>9. w \in Seq(ListRec) /\ Turns(w, K) \subseteq Turns(queue, K) /\ (InOrder(queue, K) => InOrder(w, K))
    BY <1>3, DropFacts, OrderDrop DEF Without
  <1> HIDE DEF w
  <1>10. /\ InOrder(c \o w, K) <=> InOrder(c, K) /\ InOrder(w, K) /\ Below(Turns(c, K), Turns(w, K))
         /\ Turns(c \o w, K) = Turns(c, K) \cup Turns(w, K)
    <2>1. Turned(K) /\ c \in Seq(ListRec) /\ w \in Seq(ListRec)
      BY <1>3, <1>7, <1>9
    <2> QED
      BY <2>1, OrderConcat
  <1>11. queue' = c \o w
    BY <1>4 DEF c
  <1>12. Turns(queue', K) \subseteq Turns(queue, K) /\ (InOrder(queue, K) => InOrder(queue', K))
    BY <1>8, <1>9, <1>10, <1>11 DEF Below
  <1>13. /\ \E D : deferred' = Drop(deferred, D)
         /\ \E D : unhandled' = Drop(unhandled, D)
    BY <1>1 DEF Without
  <1> QED
    BY <1>1, <1>2, <1>12, <1>13, OrderShrinks DEF K

\* Every step keeps the order.
LEMMA OrderStep ==
    ASSUME Types, Types', SchedInv, AccountInv, LoopInv, TurnInv, OrderInv, [Next]_vars
    PROVE  OrderInv'
  <1>1. ASSUME NEW r \in Requests, Post(r) PROVE OrderInv'
    BY <1>1, OrderPosts
  <1>2. CASE ~ \E r \in Requests : Post(r)
    <2>1. setup' = setup
      BY Rigid, <1>2 DEF Next, MainLoop, WorkerThread, Client, MainStops, MainTakes, MainHandles, UpdateIdle, UpdateDecode, WorkEnds,
         JoinBlocks, PutBack, Updated, IdleEnds, AwakeAgain, SleepOn, FallAsleep, SlotGenerates, SlotWaits, SlotFinishes, SlotFails,
         Visit, WorkerTakes, WorkerHandles, WorkerDrained, WorkerChecks, Arrive, NoSleep, Register, Receive, Forget, StopTasks,
         Leave, Terminate, vars
    <2>2. Turn' = Turn
      BY <1>2, <2>1, TurnsKept, TurnSame
    <2>3. CASE MainTakes \/ PutBack \/ WorkerTakes \/ WorkerHandles
      BY <2>3, OrderMoves
    <2>4. CASE MainHandles
      BY <2>4, OrderHandles
    <2>5. CASE UpdateDecode
      BY <2>5, OrderDecode
    <2>6. ASSUME NEW s \in Slots, SlotGenerates(s) \/ SlotWaits(s) \/ SlotFinishes(s) \/ SlotFails(s) PROVE OrderInv'
      BY <2>6, OrderSlots
    <2>7. ASSUME NEW r \in Requests, StopTasks(r) PROVE OrderInv'
      BY <2>2, <2>7, OrderStopTasks
    <2>8. CASE UNCHANGED <<setup, queue, deferred, unhandled, hand, slot>>
      <3>1. BusySlots' = BusySlots
        BY <2>8, Rigid DEF BusySlots, Busy
      <3> QED
        BY <2>2, <2>8, <3>1, OrderQuiet
    <2>9. CASE \/ MainStops \/ UpdateIdle \/ WorkEnds \/ JoinBlocks \/ Updated \/ IdleEnds \/ AwakeAgain \/ SleepOn
               \/ FallAsleep \/ WorkerDrained \/ WorkerChecks \/ Terminate \/ UNCHANGED vars
      <3>1. UNCHANGED <<setup, queue, deferred, unhandled, hand, slot>>
        BY <2>9 DEF MainStops, UpdateIdle, WorkEnds, JoinBlocks, Updated, IdleEnds, AwakeAgain, SleepOn, FallAsleep,
           WorkerDrained, WorkerChecks, Terminate, vars, taskVars, loopVars
      <3> QED
        BY <2>8, <3>1
    <2>10. ASSUME NEW r \in Requests,
                  Arrive(r) \/ NoSleep(r) \/ Register(r) \/ Receive(r) \/ Forget(r) \/ Leave(r)
           PROVE  OrderInv'
      <3>1. UNCHANGED <<setup, queue, deferred, unhandled, hand, slot>>
        BY <2>10 DEF Arrive, NoSleep, Register, Receive, Forget, Leave, taskVars, loopVars
      <3> QED
        BY <2>8, <3>1
    <2> QED
      BY <1>2, <2>3, <2>4, <2>5, <2>6, <2>7, <2>9, <2>10 DEF Next, MainLoop, WorkerThread, Client
  <1> QED
    BY <1>1, <1>2

\* The order holds at the start.
LEMMA OrderInit == Init => LoopInv /\ TurnInv /\ OrderInv
  <1> SUFFICES ASSUME Init PROVE LoopInv /\ TurnInv /\ OrderInv
    OBVIOUS
  <1>1. LoopInv
    BY DEF Init, LoopInv
  <1>2. \A r \in Requests : req[r].turn = 0
    BY DEF Init
  <1>3. TurnInv
    <2>1. Posted = {}
      BY <1>2 DEF Posted
    <2> QED
      BY <1>2, <2>1, FS_EmptySet DEF TurnInv
  <1>4. Types
    BY TypesInit
  <1>5. deferred = <<>> /\ LineUp = InLine(<<>>, <<>>, <<>>, <<>>)
    BY DEF Init, LineUp, HandOf
  <1>6. InLine(<<>>, <<>>, <<>>, <<>>) = <<>>
    BY DEF InLine
  <1>7. InOrder(<<>>, Turn) /\ Turns(<<>>, Turn) = {}
    BY <1>4, TurnFacts, OrderOne
  <1>8. OrderInv
    <2>1. deferred \in Seq(TurnTasks)
      BY <1>5
    <2> QED
      BY <1>5, <1>6, <1>7, <2>1 DEF OrderInv, Stands
  <1> QED
    BY <1>1, <1>3, <1>8

\* Two tasks that take turns are started in the order of their turns.
LEMMA OrderMeans == Types /\ OrderInv => StartInOrder
  <1> SUFFICES ASSUME Types, OrderInv, OneSlot
               PROVE  LET inHand(t) == IF hand[t] = NoTask THEN <<>> ELSE <<hand[t]>>
                          inOrder(q) == \A i, j \in DOMAIN q :
                              i < j /\ (\A k \in {i, j} : q[k].type = "task" /\ Kind[q[k].id[1]] # "metrics")
                                  => req[q[i].id[1]].turn < req[q[j].id[1]].turn
                      IN  /\ inOrder(inHand("main") \o unhandled \o inHand("worker") \o queue)
                          /\ inOrder(deferred)
    BY DEF StartInOrder
  <1> DEFINE inOrder(q) == \A i, j \in DOMAIN q :
               i < j /\ (\A k \in {i, j} : q[k].type = "task" /\ Kind[q[k].id[1]] # "metrics")
                   => req[q[i].id[1]].turn < req[q[j].id[1]].turn
  <1>1. ASSUME NEW e \in ListRec, e.type = "task", Kind[e.id[1]] # "metrics"
        PROVE  e \in TurnTasks /\ Turn[e] = req[e.id[1]].turn
    <2>1. PICK r \in Requests : e = Task(<<r, 0>>) /\ e.id[1] = r
      BY <1>1, ListRecFacts
    <2>2. e \in TurnTasks
      BY <1>1, <2>1, TurnFacts
    <2> QED
      BY <2>2, TurnFacts
  <1>2. ASSUME NEW q \in Seq(ListRec), InOrder(q, Turn) PROVE inOrder(q)
    <2> SUFFICES ASSUME NEW i \in DOMAIN q, NEW j \in DOMAIN q, i < j,
                        q[i].type = "task", Kind[q[i].id[1]] # "metrics",
                        q[j].type = "task", Kind[q[j].id[1]] # "metrics"
                 PROVE  req[q[i].id[1]].turn < req[q[j].id[1]].turn
      OBVIOUS
    <2>1. q[i] \in ListRec /\ q[j] \in ListRec
      BY LenProperties, ElementOfSeq
    <2>2. q[i] \in TurnTasks /\ q[j] \in TurnTasks /\ Turn[q[i]] = req[q[i].id[1]].turn /\ Turn[q[j]] = req[q[j].id[1]].turn
      BY <1>1, <2>1
    <2>3. Turn[q[i]] < Turn[q[j]]
      BY <1>2, <2>2, TurnFacts DEF InOrder
    <2> QED
      BY <2>2, <2>3
  <1> HIDE DEF inOrder
  <1>3. LineUp \in Seq(ListRec) /\ deferred \in Seq(ListRec)
    <2> DEFINE a == HandOf(hand["main"])
               b == unhandled
               c == HandOf(hand["worker"])
               d == queue
               x == a \o b
               y == x \o c
    <2>1. a \in Seq(ListRec) /\ b \in Seq(ListRec) /\ c \in Seq(ListRec) /\ d \in Seq(ListRec) /\ deferred \in Seq(ListRec)
      BY TurnFacts
    <2>2. LineUp = y \o d
      BY DEF LineUp, InLine
    <2> HIDE DEF a, b, c, d
    <2>3. x \in Seq(ListRec)
      BY <2>1, ConcatProperties
    <2> HIDE DEF x
    <2>4. y \in Seq(ListRec)
      BY <2>1, <2>3, ConcatProperties
    <2> HIDE DEF y
    <2> QED
      BY <2>1, <2>2, <2>4, ConcatProperties
  <1>4. inOrder(LineUp) /\ inOrder(deferred)
    BY <1>2, <1>3 DEF OrderInv
  <1>5. LineUp = (((IF hand["main"] = NoTask THEN <<>> ELSE <<hand["main"]>>) \o unhandled)
                  \o (IF hand["worker"] = NoTask THEN <<>> ELSE <<hand["worker"]>>)) \o queue
    BY DEF LineUp, InLine, HandOf
  <1> QED
    BY <1>4, <1>5, ZenonT(60) DEF inOrder

(* With one slot, completions and slot actions take their turn in the      *)
(* order they were posted: what the worker declines in the middle of a     *)
(* decode is put back where it stood, and of the tasks put aside the first *)
(* goes before all that came after it (server_queue::yield_to_queue,       *)
(* pop_deferred_task, process_single_task).                                *)
THEOREM TurnsAreKept == Spec => []StartInOrder
  <1> DEFINE Inv == Types /\ SchedInv /\ AccountInv /\ LoopInv /\ TurnInv /\ OrderInv
  <1>1. Init => Inv
    BY TypesInit, SchedInit, AccountInit, OrderInit
  <1>2. Inv /\ [Next]_vars => Inv'
    <2> SUFFICES ASSUME Inv, [Next]_vars PROVE Inv'
      OBVIOUS
    <2>1. Types' /\ SchedInv' /\ AccountInv'
      BY TypesStep, SchedStep, AccountStep
    <2>2. LoopInv' /\ TurnInv'
      BY LoopStep, TurnStep
    <2>3. OrderInv'
      BY <2>1, OrderStep
    <2> QED
      BY <2>1, <2>2, <2>3
  <1>3. Inv => StartInOrder
    BY OrderMeans
  <1> QED
    BY <1>1, <1>2, <1>3, PTL DEF Spec
===============================================================================
