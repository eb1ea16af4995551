------------------------------ MODULE Migrations ------------------------------
(***************************************************************************)
(* How instances of the program come up on one database (cmd/api/main.go   *)
(* 50-94): ping it, bring its schema up to date (internal/database/        *)
(* migrations.go), serve.  Nothing stops two instances, or an instance and *)
(* make migrate-up, from doing so at once: no lock is taken.               *)
(*                                                                         *)
(* goose is modelled from how RunMigrations uses it: Up reads the newest   *)
(* version in its table, runs the next file and that version's row in one  *)
(* transaction, and starts over until no file is left; the creation of the *)
(* table itself comes first and is counted as file 0.  A file cannot be    *)
(* run twice: each creates an index or a trigger without IF NOT EXISTS.    *)
(***************************************************************************)
EXTENDS Integers, FiniteSetsExt

CONSTANTS
    Instances,    \* processes that may run at a time
    Latest        \* the newest file of migrations/: 8

ASSUME LatestAssumption == Latest \in Nat \ {0}

VARIABLES
    schema,     \* how often the file of each version has been run
    versions,   \* the rows of goose's table
    phase,      \* where each instance stands
    current,    \* the version each has read
    disturbed   \* history: was an instance killed, or a statement lost?

vars == <<schema, versions, phase, current, disturbed>>
database == <<schema, versions>>

Files == 0..Latest
Nothing == -1     \* the version of an empty database

Goto(i, p) == phase' = [phase EXCEPT ![i] = p]

-----------------------------------------------------------------------------

\* Mutant: an empty table read as if file 0 had been run.
EmptyCountsAsZero == Max(versions \union {0})
NewestVersion == Max(versions \union {Nothing})

Start(i) ==
    /\ phase[i] = "down"
    /\ Goto(i, "ping")
    /\ UNCHANGED <<database, current, disturbed>>

\* dbService.Health, whose failure is fatal.
Ping(i) ==
    /\ phase[i] = "ping"
    /\ Goto(i, "read")
    /\ UNCHANGED <<database, current, disturbed>>

ReadVersion(i) ==
    /\ phase[i] = "read"
    /\ current' = [current EXCEPT ![i] = NewestVersion]
    /\ Goto(i, IF NewestVersion = Latest THEN "serving" ELSE "apply")
    /\ UNCHANGED <<database, disturbed>>

\* Mutants: files that do not mind what is there already; one that refers to a
\* table the file after it creates.
AlwaysRuns(m) == TRUE
NumberedTooEarly(m) == schema[m] = 0 /\ (m = Latest - 1 => schema[Latest] > 0)
\* What the file of version m creates is not there yet.
CanRun(m) == schema[m] = 0

Record(m) == versions \union {m}

RunFile(m) ==
    /\ CanRun(m)
    /\ schema' = [schema EXCEPT ![m] = @ + 1]
    /\ versions' = Record(m)

Commit(i) ==
    /\ phase[i] = "apply"
    /\ RunFile(current[i] + 1)
    /\ Goto(i, "read")
    /\ UNCHANGED <<current, disturbed>>

\* Mutant: main goes on in spite of the error.
ServeAnyway == "serving"
\* log.Fatal("Failed to run migrations")
AfterFailure == "down"

\* Another instance has run the file in the meantime: the transaction rolls
\* back and the error is fatal.
Collide(i) ==
    /\ phase[i] = "apply"
    /\ ~CanRun(current[i] + 1)
    /\ Goto(i, AfterFailure)
    /\ UNCHANGED <<database, current, disturbed>>

\* A statement fails, or the commit does without saying whether it took place.
LoseDatabase(i) ==
    /\ phase[i] \in {"ping", "read", "apply"}
    /\ \/ UNCHANGED database
       \/ phase[i] = "apply" /\ RunFile(current[i] + 1)
    /\ Goto(i, IF phase[i] = "ping" THEN "down" ELSE AfterFailure)
    /\ disturbed' = TRUE
    /\ UNCHANGED current

\* Killed, or stopped by a signal.
Stop(i) ==
    /\ phase[i] # "down"
    /\ Goto(i, "down")
    /\ disturbed' = TRUE
    /\ UNCHANGED <<database, current>>

-----------------------------------------------------------------------------

Init ==
    /\ schema = [m \in Files |-> 0]
    /\ versions = {}
    /\ phase = [i \in Instances |-> "down"]
    /\ current = [i \in Instances |-> Nothing]
    /\ disturbed = FALSE

Run(i) == Ping(i) \/ ReadVersion(i) \/ Commit(i) \/ Collide(i)

Next == \E i \in Instances : Start(i) \/ Run(i) \/ LoseDatabase(i) \/ Stop(i)

\* A process that was started runs; nobody has to start it.
Spec == Init /\ [][Next]_vars /\ \A i \in Instances : WF_vars(Run(i))

-----------------------------------------------------------------------------
(* Properties                                                               *)

\* Every variable has the type its declaration announces.
TypeOK ==
    /\ schema \in [Files -> Nat]
    /\ versions \subseteq Files
    /\ phase \in [Instances -> {"down", "ping", "read", "apply", "serving"}]
    /\ current \in [Instances -> Nothing..Latest]
    /\ disturbed \in BOOLEAN

\* However many instances start at once, and whenever they die, the files run
\* once each, in order, and the version table says which (migrations.go:19).
Prefix(n) ==
    /\ versions = 0..n
    /\ \A m \in Files : schema[m] = IF m <= n THEN 1 ELSE 0
SchemaIsPrefix == \E n \in Nothing..Latest : Prefix(n)

\* An instance serves only on the complete schema (main.go:75-91).
ServesLatest ==
    \A i \in Instances : phase[i] = "serving" => \A m \in Files : schema[m] = 1

\* Of instances that start at once, and undisturbed, one comes to serve: it is
\* never the case that each is turned out by another (main.go:75-77).
SomeInstanceServes ==
    (\E i \in Instances : phase[i] # "down")
        ~> \/ \E i \in Instances : phase[i] = "serving"
           \/ disturbed

-----------------------------------------------------------------------------
(* What the safety properties rest on                                       *)

\* Inductive: what an instance has read of the version table is not ahead of
\* the table, and it goes on only as far as there are files (migrations.go:19).
MInv ==
    /\ TypeOK
    /\ \E n \in Nothing..Latest :
         /\ Prefix(n)
         /\ \A i \in Instances :
              /\ phase[i] = "apply" => current[i] <= n /\ current[i] < Latest
              /\ phase[i] = "serving" => n = Latest
-----------------------------------------------------------------------------
(* The abstract specification                                               *)

Serving == {i \in Instances : phase[i] = "serving"}

Promise == INSTANCE SchemaUpgrade WITH runs <- schema, serving <- Serving

\* To the database, and to those who use an instance, any number of starts, with
\* their collisions, failures and deaths, look like one orderly upgrade.
ImplementsSchemaUpgrade == Promise!Spec
=============================================================================
