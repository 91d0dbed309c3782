----------------------------- MODULE MCSchedule -----------------------------
(* Every registry of up to MaxNodes subsystems, each with a list of up to  *)
(* two dependencies (repetitions, self-loops and cycles included).         *)
EXTENDS Schedule

CONSTANTS MaxNodes, Key

DepLists(n) == UNION {[1 .. k -> 1 .. n] : k \in 0 .. 2}

\* Exclusive, a reader and a writer of one key: enough declarations for every
\* pattern of conflicts among three subsystems.
SomeAccesses ==
  { [reads |-> {}, writes |-> {}, exclusive |-> TRUE],
    [reads |-> {Key}, writes |-> {}, exclusive |-> FALSE],
    [reads |-> {}, writes |-> {Key}, exclusive |-> FALSE] }

MCRegistries ==
  UNION {[deps : [1 .. n -> DepLists(n)], access : [1 .. n -> SomeAccesses]] :
           n \in 0 .. MaxNodes}
=============================================================================
