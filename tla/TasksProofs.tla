----------------------------- MODULE TasksProofs -----------------------------
(***************************************************************************)
(* Proofs about Tasks for every number of tasks and depth of calls.        *)
(*                                                                         *)
(* Every step but the two halves of launch is alike for the list: it moves *)
(* one running evaluator, keeps whatever runs listed, and reports what it  *)
(* reaps.  The lemma NodeSteps says so, once; launch is proved apart, from *)
(* Fresh: an allocated id is nobody else's and its task has not started.   *)
(***************************************************************************)
EXTENDS Tasks, TLAPS

(* Ids are handed out in order and once.                                   *)
Fresh ==
  /\ \A t \in Ids : t >= next => At(t, "off")
  /\ \A e \in Evaluators : At(e, "id") =>
       thread[e].id \in Ids /\ thread[e].id < next /\ At(thread[e].id, "off")
  /\ \A e, f \in Evaluators :
       At(e, "id") /\ At(f, "id") /\ thread[e].id = thread[f].id => e = f

Inv == TypeOK /\ Fresh /\ LiveAreListed /\ PanicsAreReported

(* One evaluator goes somewhere else than to eval_launch.                  *)
Moves(e) ==
  \E r \in Thread :
    /\ r.pc \in {"given", "run", "node", "wait", "done", "dead"}
    /\ thread' = [thread EXCEPT ![e] = r]

(* What runs stays listed, and a panic that leaves the list is reported.   *)
Kept ==
  /\ launched \cap Live \subseteq launched' /\ launched' \subseteq launched
  /\ reported \subseteq reported' /\ reported' \subseteq reported \cup launched
  /\ \A t \in launched \ launched' : At(t, "dead") => t \in reported'

LEMMA Numbers ==
  /\ MaxTask \in Nat /\ MaxDepth \in Nat
  /\ 0 \in Evaluators /\ 0 \notin Ids /\ Ids \subseteq Evaluators
  /\ \A e \in Evaluators : e = 0 \/ e \in Ids
  BY TasksAssumption DEF Ids, Evaluators

(* Goto, Leave and Raise move one evaluator.                               *)
LEMMA GotoMoves ==
  ASSUME TypeOK, NEW e \in Evaluators, NEW pc \in {"given", "run", "node"}, Goto(e, pc)
  PROVE  Moves(e)
  <1> DEFINE r == [thread[e] EXCEPT !.pc = pc, !.id = 0]
  <1>1. thread[e] \in Thread
    BY DEF TypeOK
  <1>2. r \in Thread /\ r.pc = pc
    BY <1>1, Numbers DEF Thread
  <1>3. thread' = [thread EXCEPT ![e] = r]
    BY DEF Goto, TypeOK
  <1> QED
    BY <1>2, <1>3 DEF Moves

LEMMA LeaveMoves ==
  ASSUME TypeOK, NEW e \in Evaluators, Leave(e)
  PROVE  Moves(e)
  <1>1. thread[e].depth \in 0 .. MaxDepth
    BY DEF TypeOK, Thread
  <1>2. CASE /\ thread[e].depth > 0
             /\ thread' = [thread EXCEPT ![e] = [Off EXCEPT !.pc = "run",
                                                            !.depth = thread[e].depth - 1]]
    <2>1. thread[e].depth - 1 \in 0 .. MaxDepth
      BY <1>1, <1>2, Numbers
    <2>2. [Off EXCEPT !.pc = "run", !.depth = thread[e].depth - 1] \in Thread
      BY <2>1, Numbers DEF Off, Thread
    <2> QED
      BY <1>2, <2>2 DEF Moves, Off
  <1>3. CASE thread' = [thread EXCEPT ![e] = [Off EXCEPT !.pc = "done"]]
    <2>1. [Off EXCEPT !.pc = "done"] \in Thread
      BY Numbers DEF Off, Thread
    <2> QED
      BY <1>3, <2>1 DEF Moves, Off
  <1> QED
    BY <1>2, <1>3 DEF Leave

LEMMA RaiseMoves ==
  ASSUME TypeOK, NEW e \in Evaluators, Raise(e)
  PROVE  Moves(e)
  <1>1. thread[e].depth \in 0 .. MaxDepth
    BY DEF TypeOK, Thread
  <1>2. ASSUME NEW d \in 0 .. thread[e].depth,
               thread' = [thread EXCEPT ![e] = [Off EXCEPT !.pc = "run", !.depth = d]]
        PROVE  Moves(e)
    <2>1. d \in 0 .. MaxDepth
      BY <1>1, Numbers
    <2>2. [Off EXCEPT !.pc = "run", !.depth = d] \in Thread
      BY <2>1, Numbers DEF Off, Thread
    <2> QED
      BY <1>2, <2>2 DEF Moves, Off
  <1>3. CASE thread' = [thread EXCEPT ![e] = [Off EXCEPT !.pc = "done"]]
    <2>1. [Off EXCEPT !.pc = "done"] \in Thread
      BY Numbers DEF Off, Thread
    <2> QED
      BY <1>3, <2>1 DEF Moves, Off
  <1> QED
    BY <1>2, <1>3 DEF Raise

(* prune_finished keeps what runs and reports what it reaps.               *)
LEMMA PruneKeeps ==
  ASSUME TypeOK, Prune
  PROVE  Kept /\ launched' = launched \cap Live
  BY DEF Prune, Finished, Report, Kept, TypeOK

LEMMA UnchangedKeeps ==
  ASSUME UNCHANGED <<launched, reported>>
  PROVE  Kept
  BY DEF Kept

(* The steps inside a node, other than launch.                             *)
NodeStep(e) ==
  \/ CheckStop(e) \/ EndBody(e) \/ PlainNode(e) \/ CallProcedure(e)
  \/ FailNode(e) \/ Panic(e) \/ KillAll(e) \/ ListTasks(e) \/ Poll(e)
  \/ \E id \in Ids : Kill(e, id)
  \/ \E id \in Evaluators : WaitFor(e, id)

AppStep == Submit \/ Begin \/ Tick

(* What all those steps do to the threads, the list and the reports.       *)
LEMMA NodeSteps ==
  ASSUME TypeOK, NEW e \in Evaluators, NodeStep(e)
  PROVE  /\ e \in Live /\ ~At(e, "id") /\ Moves(e) /\ Kept /\ next' = next
         /\ stop' \in [Evaluators -> BOOLEAN]
  <1> USE Numbers
  <1>t. thread[e] \in Thread /\ stop \in [Evaluators -> BOOLEAN]
    BY DEF TypeOK
  <1>1. CASE CheckStop(e)
    <2>1. CASE Stopped(e)
      BY <1>1, <1>t, <2>1, LeaveMoves, UnchangedKeeps DEF CheckStop, Stopped, Live, At
    <2>2. CASE Goto(e, "node") /\ UNCHANGED stop
      BY <1>1, <1>t, <2>2, GotoMoves, UnchangedKeeps DEF CheckStop, Live, At
    <2> QED
      BY <1>1, <2>1, <2>2 DEF CheckStop
  <1>2. CASE EndBody(e)
    BY <1>2, <1>t, LeaveMoves, UnchangedKeeps DEF EndBody, Live, At
  <1>3. CASE PlainNode(e)
    BY <1>3, <1>t, GotoMoves, LeaveMoves, UnchangedKeeps DEF PlainNode, Live, At
  <1>4. CASE CallProcedure(e)
    <2> DEFINE r == [thread[e] EXCEPT !.pc = "run", !.depth = @ + 1]
    <2>0. thread[e].depth + 1 \in 0 .. MaxDepth
      BY <1>4, <1>t DEF CallProcedure, Thread
    <2>1. r \in Thread /\ r.pc = "run"
      BY <1>t, <2>0 DEF Thread
    <2>2. thread' = [thread EXCEPT ![e] = r]
      BY <1>4, <1>t DEF CallProcedure, TypeOK
    <2>3. Moves(e)
      BY <2>1, <2>2 DEF Moves
    <2> QED
      BY <1>4, <1>t, <2>3, UnchangedKeeps DEF CallProcedure, Live, At
  <1>5. CASE FailNode(e)
    BY <1>5, <1>t, RaiseMoves, UnchangedKeeps DEF FailNode, Live, At
  <1>6. CASE Panic(e)
    <2>1. [Off EXCEPT !.pc = "dead"] \in Thread
      BY DEF Off, Thread
    <2>2. Moves(e)
      BY <1>6, <2>1 DEF Panic, Moves, Off
    <2> QED
      BY <1>6, <1>t, <2>2, UnchangedKeeps DEF Panic, Live, At
  <1>7. CASE KillAll(e)
    BY <1>7, <1>t, GotoMoves, UnchangedKeeps DEF KillAll, Live, At
  <1>8. CASE ListTasks(e)
    BY <1>8, <1>t, GotoMoves, PruneKeeps DEF ListTasks, Live, At
  <1>9. CASE Poll(e)
    <2>1. CASE Stopped(e) /\ UNCHANGED <<launched, reported>>
      BY <1>9, <1>t, <2>1, LeaveMoves, UnchangedKeeps DEF Poll, Stopped, Live, At
    <2>2. CASE /\ Prune
               /\ IF thread[e].id \in launched' THEN UNCHANGED thread ELSE Goto(e, "run")
               /\ UNCHANGED stop
      <3>1. ASSUME UNCHANGED thread
            PROVE  Moves(e)
        <4>1. thread' = [thread EXCEPT ![e] = thread[e]]
          BY <3>1 DEF TypeOK
        <4> QED
          BY <1>9, <1>t, <4>1 DEF Poll, Moves, At
      <3> QED
        BY <1>9, <1>t, <2>2, <3>1, GotoMoves, PruneKeeps DEF Poll, Live, At
    <2> QED
      BY <1>9, <2>1, <2>2 DEF Poll
  <1>10. ASSUME NEW id \in Ids, Kill(e, id)
         PROVE  /\ e \in Live /\ ~At(e, "id") /\ Moves(e) /\ Kept /\ next' = next
                /\ stop' \in [Evaluators -> BOOLEAN]
    <2>1. Moves(e)
      BY <1>10, GotoMoves, RaiseMoves DEF Kill
    <2> QED
      BY <1>10, <1>t, <2>1, PruneKeeps DEF Kill, Live, At
  <1>11. ASSUME NEW id \in Evaluators, WaitFor(e, id)
         PROVE  /\ e \in Live /\ ~At(e, "id") /\ Moves(e) /\ Kept /\ next' = next
                /\ stop' \in [Evaluators -> BOOLEAN]
    <2> DEFINE r == [thread[e] EXCEPT !.pc = "wait", !.id = id]
    <2>1. ASSUME thread' = [thread EXCEPT ![e].pc = "wait", ![e].id = id]
          PROVE  Moves(e)
      <3>1. r \in Thread /\ r.pc = "wait"
        BY <1>t DEF Thread
      <3>2. thread' = [thread EXCEPT ![e] = r]
        BY <2>1 DEF TypeOK
      <3> QED
        BY <3>1, <3>2 DEF Moves
    <2>2. Moves(e)
      BY <1>11, <2>1, RaiseMoves DEF WaitFor
    <2> QED
      BY <1>11, <1>t, <2>2, UnchangedKeeps DEF WaitFor, Live, At
  <1> QED
    BY <1>1, <1>2, <1>3, <1>4, <1>5, <1>6, <1>7, <1>8, <1>9, <1>10, <1>11 DEF NodeStep

(* A move of a running evaluator, or of the main one, keeps the invariant. *)
LEMMA MovesKeepInv ==
  ASSUME Inv, NEW e \in Evaluators, e \in Live \/ e = 0, ~At(e, "id"),
         Moves(e), Kept, next' = next, stop' \in [Evaluators -> BOOLEAN]
  PROVE  Inv'
  <1> USE Numbers
  <1> PICK r \in Thread :
        /\ r.pc \in {"given", "run", "node", "wait", "done", "dead"}
        /\ thread' = [thread EXCEPT ![e] = r]
    BY DEF Moves
  <1>t. TypeOK /\ thread \in [Evaluators -> Thread]
    BY DEF Inv, TypeOK
  <1>1. /\ \A x \in Evaluators : x # e => thread'[x] = thread[x]
        /\ thread'[e] = r
    BY <1>t
  <1>2. TypeOK'
    BY <1>t DEF TypeOK, Kept
  <1>3. Fresh'
    <2>1. \A x \in Evaluators : thread'[x].pc = "id" => x # e /\ thread'[x] = thread[x]
      BY <1>1
    <2>2. \A t \in Ids : thread[t].pc = "off" => t # e
      BY DEF Live
    <2>3. \A t \in Ids : thread[t].pc = "off" => thread'[t].pc = "off"
      BY <1>1, <2>2
    <2> QED
      BY <2>1, <2>3 DEF Inv, Fresh, At
  <1>4. \A x \in Evaluators : x # 0 /\ x \in Live' => x \in Live
    BY <1>1 DEF Live
  <1>5. LiveAreListed'
    <2> SUFFICES ASSUME NEW x \in Live', x # 0
                 PROVE  x \in launched'
      BY DEF LiveAreListed
    <2>1. x \in Evaluators
      BY DEF Live
    <2>2. x \in Live /\ x \in launched
      BY <1>4, <2>1 DEF Inv, LiveAreListed
    <2> QED
      BY <2>2 DEF Kept
  <1>6. PanicsAreReported'
    <2> SUFFICES ASSUME NEW t \in Ids, thread'[t].pc = "dead"
                 PROVE  t \in launched' \/ t \in reported'
      BY DEF PanicsAreReported, At
    <2>1. CASE t = e
      BY <2>1 DEF Inv, LiveAreListed, Kept
    <2>2. CASE t # e
      <3>1. At(t, "dead")
        BY <1>1, <2>2 DEF At
      <3> QED
        BY <3>1 DEF Inv, PanicsAreReported, Kept
    <2> QED
      BY <2>1, <2>2
  <1> QED
    BY <1>2, <1>3, <1>5, <1>6 DEF Inv

(* The first half of launch takes an id that nobody has.                   *)
LEMMA AllocateKeepsInv ==
  ASSUME Inv, NEW e \in Evaluators, AllocateId(e)
  PROVE  Inv'
  <1> USE Numbers
  <1> DEFINE r == [thread[e] EXCEPT !.pc = "id", !.id = next]
  <1>t. /\ TypeOK /\ thread \in [Evaluators -> Thread] /\ thread[e] \in Thread
        /\ next \in 1 .. MaxTask + 1
    BY DEF Inv, TypeOK
  <1>1. next \in Ids /\ next \in Evaluators /\ next' = next + 1
    BY <1>t DEF AllocateId, Ids, Evaluators
  <1>2. r \in Thread /\ r.pc = "id" /\ r.id = next /\ thread[e].pc = "node"
    BY <1>1, <1>t DEF Thread, AllocateId, At
  <1>3. thread' = [thread EXCEPT ![e] = r]
    BY <1>t DEF AllocateId
  <1>4. /\ \A x \in Evaluators : x # e => thread'[x] = thread[x]
        /\ thread'[e] = r
    BY <1>3, <1>t
  <1>5. TypeOK'
    BY <1>1, <1>2, <1>3, <1>t DEF TypeOK, AllocateId
  <1>6. \A t \in Ids : thread[t].pc = "off" => thread'[t] = thread[t]
    BY <1>2, <1>4
  <1>7. thread[next].pc = "off" /\ thread'[next].pc = "off"
    BY <1>1, <1>6, <1>t DEF Inv, Fresh, At, Ids
  <1>8. Fresh'
    <2>1. \A t \in Ids : t >= next' => thread'[t].pc = "off"
      BY <1>1, <1>6, <1>t DEF Inv, Fresh, At, Ids
    <2>2. \A x \in Evaluators : x # e /\ thread'[x].pc = "id" =>
            thread'[x].id \in Ids /\ thread'[x].id < next /\ thread'[thread'[x].id].pc = "off"
      BY <1>4, <1>6 DEF Inv, Fresh, At
    <2>a. thread'[e].id = next /\ next \in Nat /\ next < next + 1 /\ ~(next < next)
      BY <1>2, <1>4, <1>t
    <2>b. \A i \in Ids : i < next => i < next + 1 /\ i # next
      BY <1>t DEF Ids
    <2>3. \A x \in Evaluators : thread'[x].pc = "id" =>
            thread'[x].id \in Ids /\ thread'[x].id < next' /\ thread'[thread'[x].id].pc = "off"
      <3> HIDE DEF r
      <3> TAKE x \in Evaluators
      <3>1. CASE x = e
        BY <1>1, <1>7, <2>a, <3>1
      <3>2. CASE x # e
        BY <1>1, <2>2, <2>b, <3>2
      <3> QED
        BY <3>1, <3>2
    <2>4. \A x, y \in Evaluators :
            thread'[x].pc = "id" /\ thread'[y].pc = "id" /\ thread'[x].id = thread'[y].id => x = y
      <3> HIDE DEF r
      <3> SUFFICES ASSUME NEW x \in Evaluators, NEW y \in Evaluators,
                          thread'[x].pc = "id", thread'[y].pc = "id",
                          thread'[x].id = thread'[y].id, x # e \/ y # e
                   PROVE  x = y
        OBVIOUS
      <3>1. x # e /\ y # e
        BY <2>2, <2>a, <2>b
      <3> QED
        BY <1>4, <3>1 DEF Inv, Fresh, At
    <2> QED
      BY <2>1, <2>3, <2>4 DEF Fresh, At
  <1>9. \A x \in Evaluators : x \in Live' <=> x \in Live
    BY <1>2, <1>4 DEF Live
  <1>10. LiveAreListed'
    BY <1>9 DEF Inv, LiveAreListed, AllocateId, Live
  <1>11. PanicsAreReported'
    BY <1>2, <1>4 DEF Inv, PanicsAreReported, AllocateId, At
  <1> QED
    BY <1>5, <1>8, <1>10, <1>11 DEF Inv

(* The second half starts the task of that id, and lists it.               *)
LEMMA SpawnKeepsInv ==
  ASSUME Inv, NEW e \in Evaluators, Spawn(e)
  PROVE  Inv'
  <1> USE Numbers
  <1> DEFINE t == thread[e].id
             started == [Off EXCEPT !.pc = "run"]
             back == [thread[e] EXCEPT !.pc = "run", !.id = 0]
  <1>t. /\ TypeOK /\ thread \in [Evaluators -> Thread] /\ thread[e] \in Thread
        /\ stop \in [Evaluators -> BOOLEAN] /\ next \in 1 .. MaxTask + 1
    BY DEF Inv, TypeOK
  <1>1. thread[e].pc = "id" /\ t \in Ids /\ t < next /\ thread[t].pc = "off" /\ t # e
    BY DEF Inv, Fresh, Spawn, At
  <1>a. started \in Thread /\ started.pc = "run"
    BY Numbers DEF Thread, Off
  <1>b. back \in Thread /\ back.pc = "run"
    BY <1>t, Numbers DEF Thread
  <1>2. started \in Thread /\ started.pc = "run" /\ back \in Thread /\ back.pc = "run"
    BY <1>a, <1>b
  <1>3. /\ \A x \in Evaluators : x # e /\ x # t => thread'[x] = thread[x]
        /\ thread'[t] = started /\ thread'[e] = back
        /\ thread' \in [Evaluators -> Thread]
    BY <1>1, <1>2, <1>t DEF Spawn
  <1>4. /\ launched' = (launched \cap Live) \cup {t} /\ next' = next
        /\ reported' = reported \cup {x \in launched \ Live : At(x, "dead")}
        /\ stop' \in [Evaluators -> BOOLEAN]
    BY <1>1, <1>t DEF Spawn, Finished, Report
  <1>5. TypeOK'
    BY <1>1, <1>3, <1>4, <1>t DEF TypeOK
  <1>6. Fresh'
    <2>1. \A x \in Evaluators : thread'[x].pc = "id" =>
            x # e /\ x # t /\ thread'[x] = thread[x] /\ thread[x].id # t
      <3> TAKE x \in Evaluators
      <3>1. thread'[x].pc = "id" => x # e /\ x # t
        BY <1>2, <1>3
      <3>2. x # e /\ x # t => thread'[x] = thread[x]
        BY <1>3
      <3>3. x # e /\ thread[x].pc = "id" => thread[x].id # t
        BY <1>1 DEF Inv, Fresh, At
      <3> QED
        BY <3>1, <3>2, <3>3
    <2>2. \A x \in Ids : thread[x].pc = "off" /\ x # t => thread'[x].pc = "off"
      BY <1>1, <1>3
    <2>3. \A x \in Ids : x >= next => x # t
      BY <1>1, <1>t DEF Ids
    <2> QED
      BY <1>4, <2>1, <2>2, <2>3 DEF Inv, Fresh, At
  <1>7. \A x \in Evaluators : x \in Live' => x \in Live \/ x = t
    BY <1>1, <1>3 DEF Live
  <1>8. LiveAreListed'
    BY <1>4, <1>7 DEF Inv, LiveAreListed, Live
  <1>9. PanicsAreReported'
    <2> SUFFICES ASSUME NEW x \in Ids, thread'[x].pc = "dead"
                 PROVE  x \in launched' \/ x \in reported'
      BY DEF PanicsAreReported, At
    <2>1. x # e /\ x # t /\ thread[x].pc = "dead"
      BY <1>2, <1>3
    <2>2. x \in launched \/ x \in reported
      BY <2>1 DEF Inv, PanicsAreReported, At
    <2>3. x \notin Live
      BY <2>1 DEF Live
    <2> QED
      BY <1>4, <2>1, <2>2, <2>3 DEF At
  <1> QED
    BY <1>5, <1>6, <1>8, <1>9 DEF Inv

(* The App's steps move the main evaluator.                                *)
LEMMA AppKeepsInv ==
  ASSUME Inv, AppStep
  PROVE  Inv'
  <1> USE Numbers
  <1>t. TypeOK /\ thread[0] \in Thread /\ stop \in [Evaluators -> BOOLEAN]
    BY DEF Inv, TypeOK
  <1>1. CASE Submit
    <2>1. Moves(0)
      BY <1>1, <1>t, GotoMoves DEF Submit
    <2> QED
      BY <1>1, <1>t, <2>1, MovesKeepInv, UnchangedKeeps DEF Submit, At
  <1>2. CASE Begin
    <2>1. Moves(0)
      BY <1>2, <1>t, GotoMoves DEF Begin
    <2> QED
      BY <1>2, <1>t, <2>1, MovesKeepInv, UnchangedKeeps DEF Begin, At
  <1>3. CASE Tick
    <2> DEFINE r == [thread[0] EXCEPT !.pc = "off", !.id = 0]
    <2>1. r \in Thread /\ r.pc = "off" /\ thread[0].pc = "done"
      BY <1>3, <1>t DEF Thread, Tick, At
    <2>2. /\ thread' = [thread EXCEPT ![0] = r]
          /\ UNCHANGED <<stop, launched, next, reported>>
      BY <1>3, <1>t DEF Tick, Goto, TypeOK
    <2>3. /\ \A x \in Evaluators : x # 0 => thread'[x] = thread[x]
          /\ thread'[0] = r /\ thread' \in [Evaluators -> Thread]
      BY <1>t, <2>1, <2>2 DEF TypeOK
    <2>4. TypeOK'
      BY <1>t, <2>2, <2>3 DEF TypeOK
    <2>5. Fresh'
      BY <2>1, <2>2, <2>3 DEF Inv, Fresh, At
    <2>6. LiveAreListed' /\ PanicsAreReported'
      BY <2>2, <2>3 DEF Inv, LiveAreListed, PanicsAreReported, Live, At
    <2> QED
      BY <2>4, <2>5, <2>6 DEF Inv
  <1> QED
    BY <1>1, <1>2, <1>3 DEF AppStep

(* Every step keeps the invariant.                                         *)
LEMMA StepKeepsInv ==
  ASSUME Inv, [Next]_vars
  PROVE  Inv'
  <1>1. ASSUME NEW e \in Evaluators, NodeStep(e)
        PROVE  Inv'
    BY <1>1, NodeSteps, MovesKeepInv DEF Inv
  <1>2. CASE Escape
    BY <1>2 DEF Inv, TypeOK, Fresh, LiveAreListed, PanicsAreReported, Escape, Live, At
  <1>3. CASE UNCHANGED vars
    BY <1>3 DEF Inv, TypeOK, Fresh, LiveAreListed, PanicsAreReported, vars, Live, At
  <1> QED
    BY <1>1, <1>2, <1>3, AllocateKeepsInv, SpawnKeepsInv, AppKeepsInv
    DEF Next, Step, TaskStep, NodeStep, AppStep

LEMMA InitInv == Init => Inv
  BY Numbers DEF Init, Inv, TypeOK, Fresh, LiveAreListed, PanicsAreReported,
                 Live, At, Off, Thread, Ids

LEMMA Invariance == Spec => []Inv
  BY InitInv, StepKeepsInv, PTL DEF Spec

(* The state is well typed for every number of tasks: no id outside the    *)
(* counter's range is ever launched, and the depth of calls never goes     *)
(* below zero.                                                             *)
THEOREM TypeCorrect == Spec => []TypeOK
  BY Invariance, PTL DEF Inv

(* However many tasks launch, kill and wait for one another, what runs is  *)
(* listed: killall reaches it and no waitfor takes it for finished.        *)
THEOREM RunningTasksAreListed == Spec => []LiveAreListed
  BY Invariance, PTL DEF Inv

(* prune_finished never loses a panic, whoever calls it.                   *)
THEOREM NoPanicIsLost == Spec => []PanicsAreReported
  BY Invariance, PTL DEF Inv

(* A step takes an evaluator out of waitfor only when its flag is up or    *)
(* the task it waited for runs no more.                                    *)
LEMMA StepWaits ==
  ASSUME Inv, [Next]_vars, NEW e \in Evaluators, At(e, "wait"), thread'[e].pc # "wait"
  PROVE  stop[e] \/ thread[e].id = 0 \/ thread[e].id \notin Live
  <1> USE Numbers
  <1>t. TypeOK /\ thread \in [Evaluators -> Thread] /\ thread[e].id \in Evaluators
    BY DEF Inv, TypeOK, Thread
  <1>1. CASE Poll(e)
    <2>1. CASE stop[e]
      BY <2>1
    <2>2. CASE ~stop[e]
      <3>1. Prune /\ thread[e].id \notin launched'
        BY <1>1, <2>2 DEF Poll, Stopped, At
      <3>2. thread[e].id \notin launched \cap Live
        BY <1>t, <3>1, PruneKeeps
      <3> QED
        BY <3>2 DEF Inv, LiveAreListed
    <2> QED
      BY <2>1, <2>2
  <1>2. CASE \E f \in Evaluators : NodeStep(f)
    <2> PICK f \in Evaluators : NodeStep(f)
      BY <1>2
    <2>1. CASE f # e
      <3>1. Moves(f)
        BY <1>t, NodeSteps
      <3> QED
        BY <1>t, <2>1, <3>1 DEF Moves, At
    <2>2. CASE f = e
      BY <1>1, <2>2 DEF NodeStep, CheckStop, EndBody, PlainNode, CallProcedure, FailNode,
                        Panic, KillAll, ListTasks, Kill, WaitFor, At
    <2> QED
      BY <2>1, <2>2
  <1>3. ASSUME NEW f \in Evaluators, AllocateId(f)
        PROVE  FALSE
    BY <1>3, <1>t DEF AllocateId, At
  <1>4. ASSUME NEW f \in Evaluators, Spawn(f)
        PROVE  FALSE
    <2>1. At(f, "id") /\ At(thread[f].id, "off")
      BY <1>4 DEF Spawn, Inv, Fresh
    <2> QED
      BY <1>4, <1>t, <2>1 DEF Spawn, At
  <1>5. CASE Submit \/ Begin \/ Tick \/ Escape \/ UNCHANGED vars
    BY <1>5, <1>t DEF Submit, Begin, Tick, Escape, Goto, vars, At
  <1> QED
    BY <1>2, <1>3, <1>4, <1>5 DEF Next, Step, TaskStep, NodeStep

(* waitfor keeps its promise with any number of waiters and launches.      *)
THEOREM WaitforWaits == Spec => WaitsForTheEnd
  <1>1. Inv /\ [Next]_vars =>
          [\A e \in Evaluators : At(e, "wait") /\ thread'[e].pc # "wait" =>
             stop[e] \/ thread[e].id = 0 \/ thread[e].id \notin Live]_vars
    BY StepWaits
  <1> QED
    BY <1>1, Invariance, PTL DEF Spec, WaitsForTheEnd
=============================================================================
