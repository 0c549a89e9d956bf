------------------------------ MODULE MCFleet ------------------------------
(* Four subtasks for TLC, in plans of every shape; constants in Fleet.cfg. *)
EXTENDS Fleet

\* All at once, a fork of which one branch waits for the other, a chain against
\* the plan's order, a cycle with one subtask before and one behind it, and a
\* subtask that does not exist.
MCPlans ==
    {<<{}, {}, {}, {}>>,
     <<{}, {1}, {1, 2}, {1}>>,
     <<{2}, {3}, {4}, {}>>,
     <<{}, {1, 3}, {2}, {3}>>,
     <<{0}, {1}, {}, {3}>>}

MCCost == <<2, 3, 3, 2>>

\* The last subtask has a ceiling of its own.
MCOwn == <<Shared, Shared, Shared, 2>>
=============================================================================
