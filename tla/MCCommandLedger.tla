-------------------------- MODULE MCCommandLedger --------------------------
(* Model-checking instance of CommandLedger: a rewind phase with its stable id,
   a fork that borrows that id, and the hard delete of the thread they share. *)
EXTENDS CommandLedger

CONSTANTS phase, other, delete,  \* calls
          idPhase, idDelete,                      \* command ids
          rewind, fork, quiesce,                  \* bodies
          thread, copy                            \* threads

MCIdOf == [k \in Calls |-> IF k = delete THEN idDelete ELSE idPhase]
MCBodyOf == [k \in Calls |-> CASE k = delete -> quiesce
                               [] k = other -> fork
                               [] OTHER -> rewind]
MCThreadsOf == [b \in Bodies |-> IF b = fork THEN {thread, copy} ELSE {thread}]

=============================================================================
