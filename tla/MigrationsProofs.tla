-------------------------- MODULE MigrationsProofs --------------------------
(***************************************************************************)
(* Theorems about Migrations, for any number of instances and of files.    *)
(***************************************************************************)
EXTENDS Migrations, TLAPS

USE LatestAssumption

-----------------------------------------------------------------------------
(* Lemmas                                                                   *)

\* On a prefix of the files the newest version is the length of the prefix.
LEMMA NewestOfPrefix ==
    ASSUME NEW n \in Nothing..Latest, Prefix(n)
    PROVE  NewestVersion = n
<1> DEFINE S == (0..n) \union {Nothing}
           top(x) == x \in S /\ \A y \in S : x >= y
<1>1. NewestVersion = CHOOSE x \in S : \A y \in S : x >= y
  BY DEF NewestVersion, Max, Prefix
<1>2. S \subseteq Int /\ top(n)
  BY DEF Nothing
<1>3. top(NewestVersion)
  BY <1>1, <1>2
<1> QED
  BY <1>2, <1>3

\* The file that follows what an instance has read runs only when the instance
\* has read the newest version, and makes the prefix one longer.
LEMMA RunExtends ==
    ASSUME TypeOK, NEW n \in Nothing..Latest, Prefix(n), NEW k \in Nothing..Latest,
           k <= n, k < Latest, RunFile(k + 1)
    PROVE  /\ k = n
           /\ n + 1 \in Nothing..Latest
           /\ Prefix(n + 1)'
           /\ schema' \in [Files -> Nat] /\ versions' \subseteq Files
<1> USE DEF Nothing, Files
<1>1. k + 1 \in Files
  OBVIOUS
<1>2. k = n
  BY <1>1 DEF RunFile, CanRun, Prefix
<1>3. /\ versions' = versions \union {n + 1}
      /\ schema' = [schema EXCEPT ![n + 1] = schema[n + 1] + 1]
  BY <1>2 DEF RunFile, Record
<1>4. versions' = 0..(n + 1)
  BY <1>3 DEF Prefix
<1>5. \A m \in Files : schema'[m] = IF m <= n + 1 THEN 1 ELSE 0
  BY <1>1, <1>2, <1>3 DEF Prefix, TypeOK
<1>6. schema' \in [Files -> Nat]
  BY <1>1, <1>2, <1>3 DEF TypeOK
<1> QED
  BY <1>1, <1>2, <1>4, <1>5, <1>6 DEF Prefix

-----------------------------------------------------------------------------
(* Theorems                                                                 *)

\* One step of one instance.
LEMMA MInvStep ==
    ASSUME MInv, NEW i \in Instances, Start(i) \/ Run(i) \/ LoseDatabase(i) \/ Stop(i)
    PROVE  MInv'
<1>1. PICK n \in Nothing..Latest :
        /\ Prefix(n)
        /\ \A j \in Instances :
             /\ phase[j] = "apply" => current[j] <= n /\ current[j] < Latest
             /\ phase[j] = "serving" => n = Latest
  BY DEF MInv
<1>2. TypeOK
  BY DEF MInv
<1>3. ASSUME UNCHANGED database PROVE Prefix(n)'
  BY <1>1, <1>3 DEF Prefix, database
<1>4. ASSUME phase[i] = "apply", RunFile(current[i] + 1),
             \/ phase' = [phase EXCEPT ![i] = "read"]
             \/ phase' = [phase EXCEPT ![i] = "down"],
             disturbed' \in BOOLEAN, UNCHANGED current
      PROVE MInv'
  <2>1. current[i] \in Nothing..Latest /\ current[i] <= n /\ current[i] < Latest
    BY <1>1, <1>2, <1>4 DEF TypeOK
  <2>2. /\ n + 1 \in Nothing..Latest
        /\ n < Latest
        /\ Prefix(n + 1)'
        /\ schema' \in [Files -> Nat] /\ versions' \subseteq Files
    BY <1>1, <1>2, <1>4, <2>1, RunExtends DEF Nothing
  <2>3. TypeOK'
    BY <1>2, <1>4, <2>2 DEF TypeOK
  <2>4. \A j \in Instances :
          /\ phase'[j] = "apply" => current'[j] <= n + 1 /\ current'[j] < Latest
          /\ phase'[j] = "serving" => n + 1 = Latest
    BY <1>1, <1>2, <1>4, <2>2 DEF TypeOK, Nothing
  <2> QED
    BY <2>2, <2>3, <2>4 DEF MInv
<1>5. CASE Start(i) \/ Ping(i) \/ Collide(i) \/ Stop(i)
  BY <1>1, <1>2, <1>3, <1>5
     DEF MInv, TypeOK, Start, Ping, Collide, Stop, Goto, AfterFailure, database
<1>6. CASE ReadVersion(i)
  <2>1. NewestVersion = n
    BY <1>1, NewestOfPrefix
  <2>2. Prefix(n)'
    BY <1>3, <1>6 DEF ReadVersion
  <2>3. TypeOK'
    BY <1>2, <1>6, <2>1 DEF TypeOK, ReadVersion, Goto, database
  <2>4. \A j \in Instances :
          /\ phase'[j] = "apply" => current'[j] <= n /\ current'[j] < Latest
          /\ phase'[j] = "serving" => n = Latest
    BY <1>1, <1>2, <1>6, <2>1 DEF TypeOK, ReadVersion, Goto, Nothing
  <2> QED
    BY <2>2, <2>3, <2>4 DEF MInv
<1>7. CASE Commit(i)
  BY <1>2, <1>4, <1>7 DEF Commit, Goto, TypeOK
<1>8. CASE LoseDatabase(i)
  <2>1. CASE UNCHANGED database
    BY <1>1, <1>2, <1>3, <1>8, <2>1
       DEF MInv, TypeOK, LoseDatabase, Goto, AfterFailure, database
  <2>2. CASE phase[i] = "apply" /\ RunFile(current[i] + 1)
    BY <1>4, <1>8, <2>2 DEF LoseDatabase, Goto, AfterFailure
  <2> QED
    BY <1>8, <2>1, <2>2 DEF LoseDatabase
<1> QED
  BY <1>5, <1>6, <1>7, <1>8 DEF Run

\* What each instance knows of the version table stays behind the table, however
\* instances start, run files, fail and die (migrations.go:12-26).
THEOREM MigrationInvariance == Spec => []MInv
<1>1. Init => MInv
  <2> SUFFICES ASSUME Init PROVE MInv
    OBVIOUS
  <2>1. Nothing \in Nothing..Latest /\ Prefix(Nothing)
    BY DEF Init, Prefix, Files, Nothing
  <2>2. /\ schema \in [Files -> Nat] /\ versions \subseteq Files
        /\ current \in [Instances -> Nothing..Latest]
        /\ phase \in [Instances -> {"down", "ping", "read", "apply", "serving"}]
    BY DEF Init, Nothing
  <2>3. TypeOK
    BY <2>2, Zenon DEF Init, TypeOK
  <2>4. \A i \in Instances : phase[i] = "down"
    BY DEF Init
  <2> QED
    BY <2>1, <2>3, <2>4 DEF MInv
<1>2. MInv /\ [Next]_vars => MInv'
  <2>1. MInv /\ UNCHANGED vars => MInv'
    BY DEF MInv, TypeOK, Prefix, vars, database
  <2> QED
    BY <2>1, MInvStep DEF Next
<1> QED
  BY <1>1, <1>2, PTL DEF Spec

\* Each file of migrations/ runs once, in its order, whatever the number of
\* instances that start at once (main.go:75).
THEOREM SchemaPrefix == Spec => []SchemaIsPrefix
<1>1. MInv => SchemaIsPrefix
  BY DEF MInv, SchemaIsPrefix
<1> QED
  BY <1>1, MigrationInvariance, PTL

\* No instance serves on a schema that lacks a file, or that has one twice
\* (main.go:75-91).
THEOREM ServesComplete == Spec => []ServesLatest
<1>1. MInv => ServesLatest
  BY DEF MInv, TypeOK, Prefix, ServesLatest, Files
<1> QED
  BY <1>1, MigrationInvariance, PTL

-----------------------------------------------------------------------------
(* Refinement                                                               *)

\* A step of one instance is a step of the upgrade, or none to be seen.
LEMMA StepImpl ==
    ASSUME MInv, NEW i \in Instances, Start(i) \/ Run(i) \/ LoseDatabase(i) \/ Stop(i)
    PROVE  [Promise!Next]_(Promise!vars)
<1>1. PICK n \in Nothing..Latest :
        /\ Prefix(n)
        /\ \A j \in Instances :
             /\ phase[j] = "apply" => current[j] <= n /\ current[j] < Latest
             /\ phase[j] = "serving" => n = Latest
  BY DEF MInv
<1>2. TypeOK
  BY DEF MInv
<1>3. ASSUME NEW p, p # "serving", phase' = [phase EXCEPT ![i] = p]
      PROVE  Serving' = Serving \ {i}
  BY <1>2, <1>3 DEF Serving, TypeOK
<1>4. ASSUME phase[i] # "serving" PROVE Serving \ {i} = Serving
  BY <1>4 DEF Serving
<1>5. ASSUME phase[i] = "apply", RunFile(current[i] + 1), NEW p, p # "serving",
             phase' = [phase EXCEPT ![i] = p]
      PROVE  Promise!RunNextFile
  <2>1. current[i] \in Nothing..Latest /\ current[i] <= n /\ current[i] < Latest
    BY <1>1, <1>2, <1>5 DEF TypeOK
  <2>2. current[i] = n /\ n + 1 \in Files
    BY <1>1, <1>2, <1>5, <2>1, RunExtends DEF Files, Nothing
  <2>3. schema[n + 1] = 0 /\ \A k \in Files : k < n + 1 => schema[k] = 1
    BY <1>1, <2>2 DEF Prefix, Files, Nothing
  <2>4. schema' = [schema EXCEPT ![n + 1] = 1]
    BY <1>2, <1>5, <2>2, <2>3 DEF RunFile, TypeOK
  <2>5. Serving' = Serving
    BY <1>3, <1>4, <1>5
  <2> QED
    BY <2>2, <2>3, <2>4, <2>5 DEF Promise!RunNextFile, Promise!Files, Files
<1>6. CASE Start(i) \/ Ping(i) \/ Collide(i)
  BY <1>3, <1>4, <1>6
     DEF Start, Ping, Collide, Goto, AfterFailure, database, Promise!vars
<1>7. CASE ReadVersion(i)
  <2>1. CASE n = Latest
    <3>1. schema' = schema /\ phase' = [phase EXCEPT ![i] = "serving"]
      BY <1>1, <1>7, <2>1, NewestOfPrefix DEF ReadVersion, Goto, database
    <3>2. Serving' = Serving \union {i}
      BY <1>2, <3>1 DEF Serving, TypeOK
    <3>3. \A m \in Files : schema[m] = 1
      BY <1>1, <2>1 DEF Prefix, Files
    <3>4. Promise!BeginToServe(i)
      BY <3>1, <3>2, <3>3 DEF Promise!BeginToServe, Promise!Files, Files
    <3> QED
      BY <3>4 DEF Promise!Next
  <2>2. CASE n # Latest
    <3>1. schema' = schema /\ phase' = [phase EXCEPT ![i] = "apply"] /\ phase[i] = "read"
      BY <1>1, <1>7, <2>2, NewestOfPrefix DEF ReadVersion, Goto, database
    <3> QED
      BY <1>3, <1>4, <3>1 DEF Promise!vars
  <2> QED
    BY <2>1, <2>2
<1>8. CASE Commit(i)
  <2>1. Promise!RunNextFile
    BY <1>5, <1>8 DEF Commit, Goto
  <2> QED
    BY <2>1 DEF Promise!Next
<1>9. CASE LoseDatabase(i)
  <2>1. phase' = [phase EXCEPT ![i] = "down"] /\ phase[i] # "serving"
    BY <1>9 DEF LoseDatabase, Goto, AfterFailure
  <2>2. CASE UNCHANGED database
    BY <1>3, <1>4, <2>1, <2>2 DEF database, Promise!vars
  <2>3. CASE phase[i] = "apply" /\ RunFile(current[i] + 1)
    BY <1>5, <2>1, <2>3 DEF Promise!Next
  <2> QED
    BY <1>9, <2>2, <2>3 DEF LoseDatabase
<1>10. CASE Stop(i)
  <2>1. Promise!Stop(i)
    BY <1>3, <1>10 DEF Stop, Goto, database, Promise!Stop
  <2> QED
    BY <2>1 DEF Promise!Next
<1> QED
  BY <1>6, <1>7, <1>8, <1>9, <1>10 DEF Run

\* Instances that start, collide, fail and die as they may run the files one at a
\* time, in order, each once, and serve when all have run (main.go:75-91).
THEOREM Implements == Spec => ImplementsSchemaUpgrade
<1>1. Init => Promise!Init
  BY DEF Init, Promise!Init, Files, Promise!Files, Serving
<1>2. MInv /\ [Next]_vars => [Promise!Next]_(Promise!vars)
  <2>1. UNCHANGED vars => UNCHANGED Promise!vars
    BY DEF vars, Promise!vars, Serving
  <2> QED
    BY <2>1, StepImpl DEF Next
<1> QED
  BY <1>1, <1>2, MigrationInvariance, PTL DEF Spec, ImplementsSchemaUpgrade, Promise!Spec
=============================================================================
