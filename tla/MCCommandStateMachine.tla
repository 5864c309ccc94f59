----------------------- MODULE MCCommandStateMachine -----------------------
(* A small instance of CommandStateMachine for TLC.  All that the constants *)
(* allow at once is too much: a behaviour stays within one of four bounds. *)
EXTENDS CommandStateMachine

CONSTANTS c1, c2, c3, l1, l2, e1, e2

Used == {c \in Commands : Accepted(c)}
UsedKeys == {frame[c].key : c \in Used}
OnlyOneLocal == \A p \in Protocols : era[l2][p] = 0
NeverInProgress == \A c \in Commands : inProgress[c] = 0
RegisteredAtMost(n) == \A l \in Locals : era[l]["acmp"] <= n

TwoCommands == c3 \notin Used
OnlyTo(keys) == UsedKeys \subseteq keys

\* Two local entities that send to one destination;
TwoLocals == TwoCommands /\ OnlyTo({e1}) /\ RegisteredAtMost(1) /\ NeverInProgress
\* destinations of both protocols, and IN_PROGRESS;
TwoProtocols == TwoCommands /\ OnlyTo({e1} \cup AcmpTargets) /\ RegisteredAtMost(1) /\ OnlyOneLocal
\* three commands for one destination, and sequence IDs that wrap around;
ThreeCommands == OnlyTo({e1}) /\ RegisteredAtMost(1) /\ OnlyOneLocal /\ NeverInProgress
\* a local entity that is registered twice, and two AECP destinations, whose map may be
\* rehashed under a loop.
TwoRegistrations == TwoCommands /\ OnlyTo(AecpTargets) /\ OnlyOneLocal /\ NeverInProgress
Bounded == TwoLocals \/ TwoProtocols \/ ThreeCommands \/ TwoRegistrations

\* The bounds hold back no step that fairness asks for: these neither register, nor send
\* a command for the first time, nor receive IN_PROGRESS.
BoundedSpec == Init /\ [][Next /\ Bounded']_vars /\ Fairness
=============================================================================
