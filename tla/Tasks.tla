-------------------------------- MODULE Tasks --------------------------------
(***************************************************************************)
(* Logo evaluators and the tasks they launch                               *)
(* (crates/bricklogo-lang/src/evaluator.rs), with the App that runs the    *)
(* main evaluator (crates/bricklogo-tui/src/app.rs).                       *)
(*                                                                         *)
(* Evaluator 0 is the main one: the App hands it to a thread for each      *)
(* command typed and gets it back through a channel.  Evaluators 1, 2, ... *)
(* are tasks, each on a thread of its own, numbered by a shared counter    *)
(* and listed in launched_tasks, whose mutex every operation on tasks      *)
(* takes.  Anyone may raise anyone's stop flag; an evaluator looks at its  *)
(* own between two nodes of the program, and lowers it when it does.       *)
(*                                                                         *)
(* A program is whatever a Logo program can do: at each node it calls a    *)
(* procedure, one of the task primitives, or anything else.  Loops keep    *)
(* the evaluator where it is; of the stack only the number of procedure    *)
(* calls matters, for it is procedures that stop a Stop.  launched_tasks   *)
(* is a set: its order is the order of the pushes and only printed.        *)
(***************************************************************************)
EXTENDS Integers

CONSTANTS
  MaxTask,   (* bound: tasks ever launched                                 *)
  MaxDepth   (* bound: procedure calls inside one another                  *)

ASSUME TasksAssumption == MaxTask \in Nat /\ MaxDepth \in Nat

Ids == 1 .. MaxTask
Evaluators == 0 .. MaxTask

(* What an evaluator does: off (the prompt, or not launched yet), given    *)
(* (its thread was spawned), run (between two nodes), node (in a node,     *)
(* after its stop check), id (in eval_launch, the id allocated), wait (in  *)
(* waitfor), done (its thread has dropped it or sent it back) or dead (its *)
(* thread panicked).  id is the task being launched or waited for.         *)
Thread == [pc : {"off", "given", "run", "node", "id", "wait", "done", "dead"},
           depth : 0 .. MaxDepth,
           id : Evaluators]

Off == [pc |-> "off", depth |-> 0, id |-> 0]

VARIABLES
  thread,     (* thread[e]: what evaluator e does                          *)
  stop,       (* stop[e]: its stop_requested flag                          *)
  launched,   (* launched_tasks                                            *)
  next,       (* next_task_id                                              *)
  reported    (* the tasks whose panic was reported                        *)

vars == <<thread, stop, launched, next, reported>>

TypeOK ==
  /\ thread \in [Evaluators -> Thread]
  /\ stop \in [Evaluators -> BOOLEAN]
  /\ launched \subseteq Ids
  /\ next \in 1 .. MaxTask + 1
  /\ reported \subseteq Ids

Init ==
  /\ thread = [e \in Evaluators |-> Off]
  /\ stop = [e \in Evaluators |-> FALSE]
  /\ launched = {} /\ next = 1 /\ reported = {}

At(e, pc) == thread[e].pc = pc

(* The evaluators whose thread still owns them, and with them their flag:  *)
(* Arc::strong_count sees a second owner beside launched_tasks.            *)
Live == {e \in Evaluators : thread[e].pc \in {"given", "run", "node", "id", "wait"}}

Goto(e, pc) == thread' = [thread EXCEPT ![e].pc = pc, ![e].id = 0]

----------------------------------------------------------------------------
(* How a node ends.                                                        *)

(* Stop, Output and the end of a body: the innermost procedure returns to  *)
(* its caller, or, outside procedures, the evaluation ends.                *)
Leave(e) ==
  \/ /\ thread[e].depth > 0
     /\ thread' = [thread EXCEPT ![e] = [Off EXCEPT !.pc = "run",
                                                    !.depth = thread[e].depth - 1]]
  \/ /\ thread[e].depth = 0
     /\ thread' = [thread EXCEPT ![e] = [Off EXCEPT !.pc = "done"]]

(* An error unwinds to a carefully, here or further out, whose handler     *)
(* runs; without one the evaluation ends.                                  *)
Raise(e) ==
  \/ \E d \in 0 .. thread[e].depth :
       thread' = [thread EXCEPT ![e] = [Off EXCEPT !.pc = "run", !.depth = d]]
  \/ thread' = [thread EXCEPT ![e] = [Off EXCEPT !.pc = "done"]]

(* check_stop raises Stop when the flag is up, and lowers it.              *)
Stopped(e) ==
  /\ stop[e]
  /\ stop' = [stop EXCEPT ![e] = FALSE]
  /\ Leave(e)

----------------------------------------------------------------------------
(* Nodes.                                                                  *)

(* Every node, and every round of a loop, begins with check_stop.          *)
CheckStop(e) ==
  /\ At(e, "run")
  /\ \/ Stopped(e)
     \/ ~stop[e] /\ Goto(e, "node") /\ UNCHANGED stop
  /\ UNCHANGED <<launched, next, reported>>

(* The last node of a body was the previous one.                           *)
EndBody(e) ==
  /\ At(e, "run")
  /\ Leave(e)
  /\ UNCHANGED <<stop, launched, next, reported>>

(* A node that has nothing to do with tasks: a value, a motor command,     *)
(* wait, a round of forever; or stop and output.                           *)
PlainNode(e) ==
  /\ At(e, "node")
  /\ Goto(e, "run") \/ Leave(e)
  /\ UNCHANGED <<stop, launched, next, reported>>

CallProcedure(e) ==
  /\ At(e, "node") /\ thread[e].depth < MaxDepth
  /\ thread' = [thread EXCEPT ![e].pc = "run", ![e].depth = @ + 1]
  /\ UNCHANGED <<stop, launched, next, reported>>

FailNode(e) ==
  /\ At(e, "node")
  /\ Raise(e)
  /\ UNCHANGED <<stop, launched, next, reported>>

(* A primitive panics and the thread unwinds.                              *)
Panic(e) ==
  /\ At(e, "node")
  /\ thread' = [thread EXCEPT ![e] = [Off EXCEPT !.pc = "dead"]]
  /\ UNCHANGED <<stop, launched, next, reported>>

----------------------------------------------------------------------------
(* launched_tasks, under its mutex.                                        *)

(* Mutant of Finished: a task that waits for another counts as finished.   *)
FinishedOrWaiting == launched \ {e \in Live : ~At(e, "wait")}

(* The listed tasks whose flag has no second owner left.                   *)
Finished == launched \ Live

(* Mutant of Report: a reaped handle is dropped instead of joined.         *)
DropHandles == UNCHANGED reported

(* Joining the finished tasks brings out the panics, which are reported.   *)
Report == reported' = reported \cup {t \in Finished : At(t, "dead")}

(* prune_finished.                                                         *)
Prune == launched' = launched \ Finished /\ Report

(* Mutant of AllocateId: the id is read after the counter was incremented. *)
AllocateAfter(e) ==
  /\ At(e, "node") /\ next <= MaxTask
  /\ next' = next + 1
  /\ thread' = [thread EXCEPT ![e].pc = "id", ![e].id = next + 1]
  /\ UNCHANGED <<stop, launched, reported>>

(* launch: the id is allocated without the mutex, ...                      *)
AllocateId(e) ==
  /\ At(e, "node") /\ next <= MaxTask
  /\ next' = next + 1
  /\ thread' = [thread EXCEPT ![e].pc = "id", ![e].id = next]
  /\ UNCHANGED <<stop, launched, reported>>

(* ... which is then held from prune_finished to the push of the task      *)
(* whose thread is spawned in between.                                     *)
Spawn(e) ==
  /\ At(e, "id")
  /\ launched' = (launched \ Finished) \cup {thread[e].id}
  /\ Report
  /\ stop' = [stop EXCEPT ![thread[e].id] = FALSE]
  /\ thread' = [thread EXCEPT ![thread[e].id] = [Off EXCEPT !.pc = "run"],
                              ![e].pc = "run", ![e].id = 0]
  /\ UNCHANGED next

(* kill: an error when the task is not there once the list is pruned.      *)
Kill(e, id) ==
  /\ At(e, "node")
  /\ Prune
  /\ \/ /\ id \in launched'
        /\ stop' = [stop EXCEPT ![id] = TRUE]
        /\ Goto(e, "run")
     \/ /\ id \notin launched'
        /\ Raise(e)
        /\ UNCHANGED stop
  /\ UNCHANGED next

(* killall: every listed task is told to stop, and stays listed.           *)
KillAll(e) ==
  /\ At(e, "node")
  /\ stop' = [x \in Evaluators |-> stop[x] \/ x \in launched]
  /\ Goto(e, "run")
  /\ UNCHANGED <<launched, next, reported>>

(* tasks.                                                                  *)
ListTasks(e) ==
  /\ At(e, "node")
  /\ Prune
  /\ Goto(e, "run")
  /\ UNCHANGED <<stop, next>>

(* waitfor: an error for the caller's own id.                              *)
WaitFor(e, id) ==
  /\ At(e, "node")
  /\ \/ id = e /\ Raise(e)
     \/ /\ id # e
        /\ thread' = [thread EXCEPT ![e].pc = "wait", ![e].id = id]
  /\ UNCHANGED <<stop, launched, next, reported>>

(* Mutant of Poll: the caller's own flag is not looked at.                 *)
PollDeaf(e) ==
  /\ At(e, "wait")
  /\ Prune
  /\ IF thread[e].id \in launched' THEN UNCHANGED thread ELSE Goto(e, "run")
  /\ UNCHANGED <<stop, next>>

(* Mutant of Poll: the list is not pruned, finished tasks stay in it.      *)
PollUnpruned(e) ==
  /\ At(e, "wait")
  /\ \/ Stopped(e) /\ UNCHANGED <<launched, reported>>
     \/ /\ ~stop[e] /\ thread[e].id \notin launched
        /\ Goto(e, "run")
        /\ UNCHANGED <<stop, launched, reported>>
  /\ UNCHANGED next

(* One round of waitfor's loop: its own stop check, then the list.         *)
Poll(e) ==
  /\ At(e, "wait")
  /\ \/ Stopped(e) /\ UNCHANGED <<launched, reported>>
     \/ /\ ~stop[e]
        /\ Prune
        /\ IF thread[e].id \in launched' THEN UNCHANGED thread ELSE Goto(e, "run")
        /\ UNCHANGED stop
  /\ UNCHANGED next

----------------------------------------------------------------------------
(* The App and the main evaluator.                                         *)

(* execute: the evaluator is taken and given to a new thread.              *)
Submit ==
  /\ At(0, "off")
  /\ Goto(0, "given")
  /\ UNCHANGED <<stop, launched, next, reported>>

(* evaluate begins by lowering the flag.                                   *)
Begin ==
  /\ At(0, "given")
  /\ stop' = [stop EXCEPT ![0] = FALSE]
  /\ Goto(0, "run")
  /\ UNCHANGED <<launched, next, reported>>

(* Escape while busy: request_stop.                                        *)
Escape ==
  /\ ~At(0, "off") /\ ~At(0, "dead")
  /\ stop' = [stop EXCEPT ![0] = TRUE]
  /\ UNCHANGED <<thread, launched, next, reported>>

(* tick: the evaluator comes back with the result.  One lost in a panic    *)
(* never does, and execute drops every later command.                      *)
Tick ==
  /\ At(0, "done")
  /\ Goto(0, "off")
  /\ UNCHANGED <<stop, launched, next, reported>>

----------------------------------------------------------------------------
TaskStep(e) ==
  \/ AllocateId(e) \/ Spawn(e) \/ KillAll(e) \/ ListTasks(e) \/ Poll(e)
  \/ \E id \in Ids : Kill(e, id)
  \/ \E id \in Evaluators : WaitFor(e, id)

Step(e) ==
  \/ CheckStop(e) \/ EndBody(e) \/ PlainNode(e) \/ CallProcedure(e)
  \/ FailNode(e) \/ Panic(e) \/ TaskStep(e)

Next ==
  \/ \E e \in Evaluators : Step(e)
  \/ Submit \/ Begin \/ Escape \/ Tick

Spec == Init /\ [][Next]_vars

(* Every thread goes on: no node blocks for ever, waitfor polls.           *)
FairSpec == Spec /\ WF_vars(Begin) /\ WF_vars(Tick)
                 /\ \A e \in Evaluators : WF_vars(Step(e))

----------------------------------------------------------------------------
(* Properties.                                                             *)

(* tasks, killall and waitfor act on the list: whatever task runs is in    *)
(* it, so a task that prune_finished took for finished too early, or that  *)
(* was listed too late, would run on where nobody can stop it.             *)
LiveAreListed == Live \ {0} \subseteq launched

(* No panic of a task is lost: until it is reported its task is listed.    *)
PanicsAreReported == {t \in Ids : At(t, "dead")} \subseteq launched \cup reported

(* waitfor returns only when the task it waited for runs no more, or when  *)
(* its caller was told to stop.                                            *)
WaitsForTheEnd ==
  [][\A e \in Evaluators : At(e, "wait") /\ thread'[e].pc # "wait" =>
       stop[e] \/ thread[e].id = 0 \/ thread[e].id \notin Live]_vars

(* kill, killall and Escape are noticed: also by a task that waits for one *)
(* that waits for it.                                                      *)
StopIsNoticed ==
  \A e \in Evaluators : stop[e] /\ e \in Live ~> ~stop[e] \/ e \notin Live

(* A waiter goes on when its task is over, without a launch by anyone.     *)
WaiterWakes ==
  \A e \in Evaluators :
    At(e, "wait") /\ thread[thread[e].id].pc \in {"done", "dead"} ~> ~At(e, "wait")

(* kill and killall are said to stop their task.                           *)
KilledEnds == \A t \in Ids : stop[t] /\ t \in Live ~> t \notin Live
=============================================================================
