-------------------------- MODULE CommandService ---------------------------
(***************************************************************************)
(* What the command state machine promises for the commands it accepts:    *)
(* each is sent at most twice, and completed at most once, with an error   *)
(* that says what became of it.  A step completes or accepts one command   *)
(* and sends one at most, and the only way out without an error is to be   *)
(* discarded.                                                              *)
(***************************************************************************)
CONSTANT Commands

VARIABLE status  \* where each command is in its life

InFlight == {"sentOnce", "sentTwice"}
Completed == {"answered", "timedOut", "refused", "cancelled"}
Statuses == {"new", "waiting", "discarded"} \cup InFlight \cup Completed

Init == status = [c \in Commands |-> "new"]

\* The moves of one command.
Follows(from, to) ==
  \/ from = "new" /\ to \in {"waiting", "sentOnce"}       \* accepted
  \/ from = "waiting" /\ to = "sentOnce"                  \* its turn has come
  \/ from = "sentOnce" /\ to = "sentTwice"                \* no answer in time
  \/ from \in InFlight /\ to = "answered"
  \/ from = "sentTwice" /\ to = "timedOut"                \* no answer, again
  \/ from \in {"waiting", "sentOnce"} /\ to = "refused"   \* by the transport
  \/ from \in InFlight /\ to = "cancelled"                \* the local leaves
  \/ from \in {"waiting"} \cup InFlight /\ to = "discarded"

Moves == {c \in Commands : status'[c] # status[c]}
Accepting == {c \in Moves : status[c] = "new"}
Sending == {c \in Moves : status'[c] \in InFlight}
Completing == {c \in Moves : status'[c] \in Completed}
Discarding == {c \in Moves : status'[c] = "discarded"}

\* One command is accepted, or completed, or some are discarded; and one command
\* is sent at most, which need not be the one that was accepted.
AtMostOne(S) == \A c, d \in S : c = d
Next ==
  /\ \A c \in Moves : Follows(status[c], status'[c])
  /\ AtMostOne(Accepting \cup Completing)
  /\ AtMostOne(Sending)
  /\ Discarding = {} \/ Moves = Discarding

Spec == Init /\ [][Next]_status
=============================================================================
