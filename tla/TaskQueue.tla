------------------------------ MODULE TaskQueue ------------------------------
(***************************************************************************)
(* What EventLoop::runInLoop / queueInLoop promise to every thread that    *)
(* hands work to a loop (EventLoop.h:33-43), with no queue, no lock and no *)
(* eventfd in sight: tasks are executed in the order in which they were    *)
(* accepted, none is lost and none runs twice.                             *)
(***************************************************************************)
EXTENDS Naturals, Sequences, Functions

CONSTANT Tasks          \* the tasks that may be handed to the loop

VARIABLES submitted,    \* every task accepted so far, in order of acceptance
          executed      \* the tasks run so far, in order of execution

vars == <<submitted, executed>>

Init == submitted = <<>> /\ executed = <<>>

(* A task object is handed over once: the same closure queued again is a   *)
(* new task.                                                               *)
Submit(f) ==
  /\ f \notin Range(submitted)
  /\ submitted' = Append(submitted, f)
  /\ UNCHANGED executed

Execute ==
  /\ Len(executed) < Len(submitted)
  /\ executed' = Append(executed, submitted[Len(executed) + 1])
  /\ UNCHANGED submitted

Next == Execute \/ \E f \in Tasks : Submit(f)

Spec == Init /\ [][Next]_vars
==============================================================================
