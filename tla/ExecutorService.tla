-------------------------- MODULE ExecutorService --------------------------
(***************************************************************************)
(* What an Executor (include/la/avdecc/executor.hpp) promises: one thread  *)
(* runs the jobs one at a time in the order they were pushed.  Once it is  *)
(* terminated it takes no job, and gives up those that are left, the last  *)
(* pushed first.                                                           *)
(***************************************************************************)
EXTENDS Naturals, Sequences

CONSTANT Jobs

VARIABLES
  open,     \* not terminated
  pending,  \* the jobs pushed and not run yet
  executed  \* the jobs that were run

vars == <<open, pending, executed>>

Init == open = TRUE /\ pending = <<>> /\ executed = <<>>

Push(j) ==
  /\ open
  /\ pending' = Append(pending, j)
  /\ UNCHANGED <<open, executed>>

Run ==
  /\ pending # <<>>
  /\ executed' = Append(executed, Head(pending))
  /\ pending' = Tail(pending)
  /\ UNCHANGED open

GiveUp(n) ==
  /\ open' = FALSE
  /\ pending' = SubSeq(pending, 1, n)
  /\ UNCHANGED executed

Next ==
  \/ \E j \in Jobs : Push(j)
  \/ Run
  \/ \E n \in 0 .. Len(pending) : GiveUp(n)

Spec == Init /\ [][Next]_vars
=============================================================================
