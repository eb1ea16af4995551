---------------------------- MODULE SchemaUpgrade ----------------------------
(***************************************************************************)
(* What a start of the program promises (cmd/api/main.go:75-91): the files *)
(* of migrations/ run one at a time, each once and after those before it,  *)
(* as if there were one database and one operator; an instance serves only *)
(* when all have run.  Of goose, its table, failures and collisions        *)
(* nothing is to be seen.                                                  *)
(***************************************************************************)
EXTENDS Integers

CONSTANTS Instances, Latest

VARIABLES
    runs,      \* how often each file has been run
    serving    \* the instances that serve

vars == <<runs, serving>>

Files == 0..Latest

\* The first file that has not been run.
RunNextFile ==
    /\ \E m \in Files :
         /\ runs[m] = 0
         /\ \A k \in Files : k < m => runs[k] = 1
         /\ runs' = [runs EXCEPT ![m] = 1]
    /\ UNCHANGED serving

BeginToServe(i) ==
    /\ \A m \in Files : runs[m] = 1
    /\ serving' = serving \union {i}
    /\ UNCHANGED runs

Stop(i) ==
    /\ serving' = serving \ {i}
    /\ UNCHANGED runs

Init ==
    /\ runs = [m \in Files |-> 0]
    /\ serving = {}

Next == RunNextFile \/ \E i \in Instances : BeginToServe(i) \/ Stop(i)

Spec == Init /\ [][Next]_vars
=============================================================================
