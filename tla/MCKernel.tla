------------------------------ MODULE MCKernel ------------------------------
(* Kernels for TLC: life cycle only with up to five subsystems; messages   *)
(* between two subsystems in a release and in a debug build; structural    *)
(* commands of one subsystem.                                              *)
EXTENDS Kernel

Ex == [reads |-> {}, writes |-> {}, exclusive |-> TRUE]

One == { [name |-> "a", needs |-> <<>>, access |-> Ex] }
Two == One \cup { [name |-> "b", needs |-> <<"a">>, access |-> Ex] }

\* A chain, and two subsystems that need each other; any of them may be
\* registered, in any order.
Cyclic == Two \cup { [name |-> "c", needs |-> <<"b", "a">>, access |-> Ex],
                     [name |-> "d", needs |-> <<"e">>, access |-> Ex],
                     [name |-> "e", needs |-> <<"d">>, access |-> Ex] }

Messages == {"publish", "receive"}
Structure == {"defer", "world"}

MCScenarios ==
  { [subsystems |-> Cyclic, calls |-> {}, debug |-> FALSE, frames |-> 2],
    [subsystems |-> Two, calls |-> Messages, debug |-> FALSE, frames |-> 1],
    [subsystems |-> Two, calls |-> Messages, debug |-> TRUE, frames |-> 1],
    [subsystems |-> One, calls |-> Structure, debug |-> FALSE, frames |-> 2] }
=============================================================================
