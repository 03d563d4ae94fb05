----------------------------- MODULE MCStartup -----------------------------
(* Startup on small clusters.                                               *)
EXTENDS Startup

CONSTANT
    PortsDiffer  \* FALSE: every node has the same -port, as in the example
                 \* command lines of the report and the Makefile

MCPort == [n \in Node |-> IF PortsDiffer THEN 8080 + n ELSE 8080]

============================================================================
