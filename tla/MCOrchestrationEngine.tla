------------------------ MODULE MCOrchestrationEngine ------------------------
\* Commands for OrchestrationEngine, all about one thread and one message: its
\* creation and archiving, turn starts from several clients, and the server's records
\* of a failed and of a successful delivery.
EXTENDS OrchestrationEngine

CONSTANTS t1, m1, threads, goals, c1, a1, s1, s2, f1, d1

MCKindOf == [c \in Commands |-> CASE c = c1 -> "create" [] c = a1 -> "archive"
                                  [] c = f1 -> "failed" [] c = d1 -> "deliver"
                                  [] OTHER -> "start"]
MCThreadOf == [c \in Commands |-> t1]
MCMessageOf == [c \in Commands |-> m1]
=============================================================================
