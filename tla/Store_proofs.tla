----------------------------- MODULE Store_proofs -----------------------------
(***************************************************************************)
(* FileSurvives and RefusedForCause of Schema for any number of openers    *)
(* and processes, any file at first and any number of restarts; the        *)
(* properties of History for any clock, any retention, any number of rows, *)
(* requests and permits; and that Store, which opens the file before it    *)
(* uses it, has them all.                                                  *)
(***************************************************************************)
EXTENDS Store, FiniteSetTheorems, SequenceTheorems, TLAPS
-----------------------------------------------------------------------------
(* Opening the file                                                        *)

(***************************************************************************)
(* The inductive invariant.  Locked: STORE_OPEN_LOCK and SQLite's write    *)
(* lock are held by those whose stage says so.  Staged: what an opener has *)
(* read still binds the file, though it was read outside its transaction.  *)
(* Past: the file is the one found, or of the current version, which       *)
(* nobody but a maker gives to a file without tables.                      *)
(***************************************************************************)
Locked ==
  \A o \in Openers :
    /\ opener[o] \in Working => open_lock[Process[o]] = o
    /\ opener[o] \in {"commit", "rollback"} <=> writer = o

Staged ==
  \A o \in Openers :
    /\ opener[o] \in {"create", "migrate", "commit"} =>
         version[o] = found.version /\ version[o] < SCHEMA_VERSION
    /\ opener[o] = "create" => version[o] = 0
    /\ opener[o] = "migrate" => version[o] # 0
    /\ opener[o] \in {"create", "commit"} /\ version[o] = 0 => maker # Process[o]
    /\ opener[o] = "commit" =>
         IF version[o] = 0
         THEN transaction = Made(file) /\ file = found /\ file.parts \cap Objects = {}
         ELSE transaction = Migrated(file)
    /\ opener[o] \in {"validate", "probe", "rollback", "ok"} => file.version = SCHEMA_VERSION
    /\ opener[o] \in {"probe", "rollback", "ok"} => Visible \subseteq file.parts

Past ==
  /\ file.version # SCHEMA_VERSION => file = found
  /\ maker # NoProcess => file.version = SCHEMA_VERSION
  /\ found.version = 0 /\ file.version = SCHEMA_VERSION =>
       maker # NoProcess /\ file.parts = Required

SchemaInv == SchemaTypeOK /\ Locked /\ Staged /\ Past /\ FileSurvives /\ RefusedForCause

\* What the proofs use of the names of the parts.
LEMMA PartsFacts ==
  /\ Objects \subseteq Required /\ Visible \subseteq Required
  /\ "query_logs" \in Objects /\ "upstream" \in Required /\ "upstream" \notin Objects
  /\ Required = Visible \cup {"rowid_alias"} /\ Required \cap Objects # {}
  /\ "rowid_alias" \in Required
BY DEF Objects, Declared, Visible, Required

\* The two transactions leave a file with the rows it had, of this version,
\* and with no part less.
LEMMA TransactionFacts ==
  ASSUME NEW f \in File
  PROVE  /\ Made(f) \in File /\ Migrated(f) \in File
         /\ Made(f).version = SCHEMA_VERSION /\ Migrated(f).version = SCHEMA_VERSION
         /\ Made(f).rows = f.rows /\ Migrated(f).rows = f.rows
         /\ Made(f).parts = Required /\ f.parts \subseteq Migrated(f).parts
         /\ f.parts \subseteq Required
         /\ Openable(f) /\ f.version # 0 => Migrated(f).parts = Required
<1>1. SCHEMA_VERSION \in Nat /\ SCHEMA_VERSION # 0
  BY DEF SCHEMA_VERSION
<1>2. f.parts \subseteq Required /\ f.version \in Nat
  BY DEF File
<1>3. Migrated(f).parts = IF "query_logs" \in f.parts THEN f.parts \cup {"upstream"} ELSE f.parts
  BY DEF Migrated, File
<1>4. Made(f) \in File /\ Made(f).version = SCHEMA_VERSION /\ Made(f).rows = f.rows
      /\ Made(f).parts = Required
  BY <1>1, <1>2 DEF Made, File
<1>5. Migrated(f) \in File /\ Migrated(f).version = SCHEMA_VERSION /\ Migrated(f).rows = f.rows
  BY <1>1, <1>2, PartsFacts DEF Migrated, File
<1>6. ASSUME Openable(f), f.version # 0
      PROVE  Migrated(f).parts = Required
  <2>1. Required \ {"upstream"} \subseteq f.parts
    BY <1>6 DEF Openable
  <2>2. "query_logs" \in f.parts
    BY <2>1, PartsFacts
  <2> QED
    BY <1>2, <1>3, <2>1, <2>2, PartsFacts
<1> QED
  BY <1>2, <1>3, <1>4, <1>5, <1>6

\* No opener has begun.
LEMMA SchemaInitial == SchemaInit => SchemaInv
  BY SchemaAssumption
     DEF SchemaAssumption, SchemaInit, SchemaInv, SchemaTypeOK, Locked, Staged, Past,
         FileSurvives, RefusedForCause, Working, SCHEMA_VERSION, File

\* Every step of Store::open, and a restart at any time, keeps the invariant.
LEMMA SchemaInductive == SchemaInv /\ [SchemaNext]_schemaVars => SchemaInv'
<1> SUFFICES ASSUME SchemaInv, [SchemaNext]_schemaVars PROVE SchemaInv'
  OBVIOUS
<1> USE SchemaAssumption DEF SchemaAssumption
<1>v. SCHEMA_VERSION = 2
  BY DEF SCHEMA_VERSION
<1>t. SchemaTypeOK /\ file \in File /\ found \in File
  BY DEF SchemaInv, SchemaTypeOK
<1>f. /\ file.version \in Nat /\ file.parts \subseteq Required
      /\ found.version \in Nat /\ found.parts \subseteq Required
  BY <1>t DEF File
<1>1. ASSUME NEW o \in Openers, Enter(o) PROVE SchemaInv'
  <2>1. SchemaTypeOK'
    BY <1>1, <1>t DEF SchemaTypeOK, Working, Outcomes, Enter, Go
  <2>2. Locked'
    BY <1>1, <1>t, Zenon DEF SchemaInv, SchemaTypeOK, Locked, Working, Enter, Go
  <2>3. Staged'
    BY <1>1, <1>v, <1>t, <1>f, SMTT(30) DEF SchemaInv, SchemaTypeOK, Locked, Staged, Past,
       Working, Enter, Go
  <2>4. Past' /\ FileSurvives' /\ RefusedForCause'
    BY <1>1, <1>t DEF SchemaInv, SchemaTypeOK, Past, FileSurvives, RefusedForCause,
       Enter, Go
  <2> QED
    BY <2>1, <2>2, <2>3, <2>4 DEF SchemaInv
<1>2. ASSUME NEW o \in Openers, ReadVersion(o) PROVE SchemaInv'
  <2>1. SchemaTypeOK'
    BY <1>2, <1>t, <1>f, Zenon DEF SchemaTypeOK, Working, Outcomes, ReadVersion, Leave, Unlock, Go
  <2>2. Locked'
    BY <1>2, <1>t, SMTT(30) DEF SchemaInv, SchemaTypeOK, Locked, Working, ReadVersion, Leave,
       Unlock, Go
  <2>3. Staged'
    BY <1>2, <1>v, <1>t, <1>f DEF SchemaInv, SchemaTypeOK, Locked, Staged, Past,
       Working, ReadVersion, Leave, Unlock, Go
  <2>4. Past'
    BY <1>2, <1>v, <1>t, <1>f, Zenon DEF SchemaInv, SchemaTypeOK, Locked, Staged, Past,
       ReadVersion, Leave, Unlock, Go
  <2>5. FileSurvives'
    BY <1>2, <1>v, <1>t, <1>f, SMTT(30) DEF SchemaInv, SchemaTypeOK, Locked, Staged, Past,
       FileSurvives, Openable, ReadVersion, Leave, Unlock, Go
  <2>6. RefusedForCause'
    BY <1>2, <1>v, <1>t, <1>f DEF SchemaInv, SchemaTypeOK, Locked, Staged, Past,
       FileSurvives, Openable, RefusedForCause, ReadVersion, Leave, Unlock, Go
  <2> QED
    BY <2>1, <2>2, <2>3, <2>4, <2>5, <2>6, Zenon DEF SchemaInv
<1>3. ASSUME NEW o \in Openers, Create(o) PROVE SchemaInv'
  <2>1. SchemaTypeOK'
    BY <1>3, <1>t, TransactionFacts DEF SchemaTypeOK, Working, Outcomes, Create, Begin,
       Refuse, Leave, Unlock, Go
  <2>2. Locked'
    BY <1>3, <1>t, SMTT(30) DEF SchemaInv, SchemaTypeOK, Locked, Working, Create, Begin, Refuse,
       Leave, Unlock, Go
  <2>3. Staged'
    BY <1>3, <1>v, <1>t, <1>f, PartsFacts, TransactionFacts DEF SchemaInv, SchemaTypeOK,
       Locked, Staged, Past, Working, Create, Begin, Refuse, Leave, Unlock, Go
  <2>4. Past'
    BY <1>3, <1>v, <1>t, <1>f, PartsFacts, TransactionFacts, Zenon DEF SchemaInv, SchemaTypeOK,
       Locked, Staged, Past, Create, Begin, Refuse, Leave, Unlock, Go
  <2>a. /\ file' = file /\ found' = found /\ version' = version /\ maker' = maker
        /\ opener[o] = "create"
        /\ \/ opener' = [opener EXCEPT ![o] = "commit"]
           \/ opener' = [opener EXCEPT ![o] = "refused"] /\ file.parts \cap Objects # {}
    BY <1>3, Zenon DEF Create, Begin, Refuse, Leave, Go
  <2>b. opener \in [Openers -> {"out"} \cup Working \cup Outcomes]
    BY <1>t, Zenon DEF SchemaTypeOK
  <2>5. FileSurvives'
    <3>1. \A q \in Openers : opener'[q] = "ok" => opener[q] = "ok"
      BY <2>a, <2>b
    <3> QED
      BY <2>a, <3>1, Zenon DEF SchemaInv, FileSurvives
  <2>6. RefusedForCause'
    <3>0. version[o] = 0 /\ version[o] = found.version
      BY <2>a, Zenon DEF SchemaInv, Staged
    <3>1. version[o] = 0 /\ found.version = 0 /\ maker # Process[o]
      BY <2>a, <3>0, Zenon DEF SchemaInv, Staged
    <3>2. file.parts \cap Objects # {} /\ Openable(found) => maker # NoProcess
      BY <1>v, <3>1 DEF SchemaInv, Past, Openable
    <3>3. \A q \in Openers : opener'[q] = "refused" =>
            opener[q] = "refused" \/ (q = o /\ file.parts \cap Objects # {})
      BY <2>a, <2>b
    <3> QED
      BY <2>a, <3>1, <3>2, <3>3, Zenon DEF SchemaInv, RefusedForCause
  <2> QED
    BY <2>1, <2>2, <2>3, <2>4, <2>5, <2>6, Zenon DEF SchemaInv
<1>4. ASSUME NEW o \in Openers, Migrate(o) PROVE SchemaInv'
  <2>1. SchemaTypeOK'
    BY <1>4, <1>t, TransactionFacts, Zenon DEF SchemaTypeOK, Working, Outcomes, Migrate, Begin,
       Go
  <2>2. Locked'
    BY <1>4, <1>t, ZenonT(40) DEF SchemaInv, SchemaTypeOK, Locked, Working, Migrate, Begin, Go
  <2>3. Staged'
    BY <1>4, <1>v, <1>t, <1>f, PartsFacts, TransactionFacts, SMTT(30) DEF SchemaInv, SchemaTypeOK,
       Locked, Staged, Past, Working, Migrate, Begin, Go
  <2>4. Past' /\ FileSurvives' /\ RefusedForCause'
    BY <1>4, <1>t, Zenon DEF SchemaInv, SchemaTypeOK, Past, FileSurvives, RefusedForCause,
       Migrate, Begin, Go
  <2> QED
    BY <2>1, <2>2, <2>3, <2>4, Zenon DEF SchemaInv
<1>5. ASSUME NEW o \in Openers, Commit(o) PROVE SchemaInv'
  <2>1. SchemaTypeOK'
    BY <1>5, <1>t, TransactionFacts DEF SchemaTypeOK, Working, Outcomes, Commit, Go
  <2>2. Locked'
    BY <1>5, <1>t, Zenon DEF SchemaInv, SchemaTypeOK, Locked, Working, Commit, Go
  <2>a. /\ file' = transaction /\ found' = found /\ version' = version
        /\ maker' = IF version[o] = 0 THEN Process[o] ELSE maker
        /\ opener[o] = "commit" /\ writer = o
        /\ opener' = [opener EXCEPT ![o] = "validate"]
    BY <1>5, Zenon DEF Commit, Go
  <2>b. opener \in [Openers -> {"out"} \cup Working \cup Outcomes]
    BY <1>t, Zenon DEF SchemaTypeOK
  <2>c. /\ version[o] = found.version /\ version[o] < SCHEMA_VERSION
        /\ version[o] = 0 => /\ transaction = Made(file) /\ file = found /\ maker # Process[o]
                             /\ file.parts \cap Objects = {}
        /\ version[o] # 0 => transaction = Migrated(file)
    BY <2>a, Zenon DEF SchemaInv, Staged
  <2>d. /\ file' \in File /\ file'.version = SCHEMA_VERSION /\ file'.rows = file.rows
        /\ file.parts \subseteq file'.parts
        /\ version[o] = 0 => file'.parts = Required
        /\ version[o] # 0 /\ Openable(file) /\ file.version # 0 => file'.parts = Required
    <3>1. CASE version[o] = 0
      <4>1. file' = Made(file)
        BY <2>a, <2>c, <3>1, Zenon
      <4> QED
        BY <1>t, <3>1, <4>1, TransactionFacts, Zenon
    <3>2. CASE version[o] # 0
      <4>1. file' = Migrated(file)
        BY <2>a, <2>c, <3>2, Zenon
      <4> QED
        BY <1>t, <3>2, <4>1, TransactionFacts, Zenon
    <3> QED
      BY <3>1, <3>2, Zenon
  <2>e. \A q \in Openers : opener'[q] = opener[q] \/ (q = o /\ opener'[q] = "validate")
    BY <2>a, <2>b
  <2>3. Staged'
    <3> SUFFICES ASSUME NEW q \in Openers, q # o
                 PROVE  /\ opener[q] # "commit"
                        /\ version[o] = 0 /\ opener[q] = "create" => Process[o] # Process[q]
                        /\ opener'[q] = opener[q]
      <4>1. \A q \in Openers : opener'[q] = "validate" => file'.version = SCHEMA_VERSION
        BY <2>d
      <4>2. opener'[o] = "validate"
        BY <2>a, <2>b
      <4> QED
        BY <2>a, <2>d, <4>1, <4>2, ZenonT(40) DEF SchemaInv, Staged
    <3>1. opener[q] # "commit"
      BY <2>a, Zenon DEF SchemaInv, Locked
    <3>2. opener[q] = "create" => Process[o] # Process[q]
      <4>1. "create" \in Working /\ "commit" \in Working
        BY DEF Working
      <4> QED
        BY <2>a, <4>1, Zenon DEF SchemaInv, Locked
    <3> QED
      BY <2>e, <3>1, <3>2, Zenon
  <2>4. Past'
    <3>1. CASE version[o] = 0
      <4>1. Process[o] # NoProcess
        BY SchemaAssumption DEF SchemaAssumption
      <4> QED
        BY <2>a, <2>d, <3>1, <4>1, Zenon DEF Past
    <3>2. CASE version[o] # 0
      BY <2>a, <2>c, <2>d, <3>2, Zenon DEF Past
    <3> QED
      BY <3>1, <3>2
  <2>o. Openable(found) => file'.parts = Required
    <3>1. version[o] # 0 /\ Openable(found) => Openable(file) /\ file.version # 0
      BY <1>v, <2>c DEF SchemaInv, FileSurvives, Past
    <3> QED
      BY <2>d, <3>1, Zenon
  <2>5. FileSurvives'
    <3>1. Openable(found)' => Openable(file)'
      BY <2>a, <2>d, <2>o, Zenon DEF Openable
    <3>2. \A q \in Openers : opener'[q] = "ok" => opener[q] = "ok"
      BY <2>e
    <3>3. file.parts = Required => file'.parts = Required
      BY <1>t, <2>d, Zenon DEF File
    <3> QED
      BY <2>a, <2>d, <3>1, <3>2, <3>3, Zenon DEF SchemaInv, FileSurvives
  <2>6. RefusedForCause'
    <3>1. \A q \in Openers : opener'[q] = "refused" => opener[q] = "refused"
      BY <2>e
    <3>2. version[o] = 0 => file.version # SCHEMA_VERSION
      <4>1. version[o] = 0 => file.version = 0
        BY <2>c, Zenon
      <4> QED
        BY <1>v, <4>1
    <3>3. version[o] = 0 => maker = NoProcess
      BY <3>2, Zenon DEF SchemaInv, Past
    <3> QED
      BY <2>a, <3>1, <3>3, Zenon DEF SchemaInv, RefusedForCause
  <2> QED
    BY <2>1, <2>2, <2>3, <2>4, <2>5, <2>6, Zenon DEF SchemaInv
<1>6. ASSUME NEW o \in Openers, Validate(o) PROVE SchemaInv'
  <2>1. SchemaTypeOK'
    BY <1>6, <1>t DEF SchemaTypeOK, Working, Outcomes, Validate, Leave, Unlock, Go
  <2>2. Locked'
    BY <1>6, <1>t, SMTT(30) DEF SchemaInv, SchemaTypeOK, Locked, Working, Validate, Leave, Unlock,
       Go
  <2>3. Staged'
    BY <1>6, <1>v, <1>t, <1>f, PartsFacts DEF SchemaInv, SchemaTypeOK, Locked, Staged,
       Past, Working, Validate, Leave, Unlock, Go
  <2>4. Past'
    BY <1>6, <1>v, <1>t, <1>f, PartsFacts, Zenon DEF SchemaInv, SchemaTypeOK, Locked, Staged,
       Past, Validate, Leave, Unlock, Go
  <2>a. /\ file' = file /\ found' = found /\ version' = version /\ maker' = maker
        /\ opener[o] = "validate"
        /\ \/ opener' = [opener EXCEPT ![o] = "probe"]
           \/ opener' = [opener EXCEPT ![o] = "refused"] /\ ~(Visible \subseteq file.parts)
    BY <1>6, Zenon DEF Validate, Leave, Go
  <2>b. opener \in [Openers -> {"out"} \cup Working \cup Outcomes]
    BY <1>t, Zenon DEF SchemaTypeOK
  <2>5. FileSurvives'
    <3>1. \A q \in Openers : opener'[q] = "ok" => opener[q] = "ok"
      BY <2>a, <2>b
    <3> QED
      BY <2>a, <3>1, Zenon DEF SchemaInv, FileSurvives
  <2>6. RefusedForCause'
    <3>1. file.version = SCHEMA_VERSION
      BY <2>a, Zenon DEF SchemaInv, Staged
    <3>2. ~(Visible \subseteq file.parts) => ~Openable(found)
      <4>1. Openable(file) => file.parts = Required
        BY <1>v, <3>1 DEF Openable
      <4> QED
        BY <4>1, PartsFacts, Zenon DEF SchemaInv, FileSurvives
    <3>3. \A q \in Openers : opener'[q] = "refused" =>
            opener[q] = "refused" \/ ~(Visible \subseteq file.parts)
      BY <2>a, <2>b
    <3> QED
      BY <2>a, <3>2, <3>3, Zenon DEF SchemaInv, RefusedForCause
  <2> QED
    BY <2>1, <2>2, <2>3, <2>4, <2>5, <2>6 DEF SchemaInv
<1>7. ASSUME NEW o \in Openers, Probe(o) PROVE SchemaInv'
  <2>1. SchemaTypeOK'
    BY <1>7, <1>t DEF SchemaTypeOK, Working, Outcomes, Probe, Begin, Go, File
  <2>2. Locked'
    BY <1>7, <1>t DEF SchemaInv, SchemaTypeOK, Locked, Working, Probe, Begin, Go
  <2>3. Staged'
    BY <1>7, <1>v, <1>t, <1>f DEF SchemaInv, SchemaTypeOK, Locked, Staged, Past,
       Working, Probe, Begin, Go
  <2>4. Past' /\ FileSurvives' /\ RefusedForCause'
    BY <1>7, <1>t DEF SchemaInv, SchemaTypeOK, Past, FileSurvives, RefusedForCause,
       Probe, Begin, Go
  <2> QED
    BY <2>1, <2>2, <2>3, <2>4 DEF SchemaInv
<1>8. ASSUME NEW o \in Openers, Rollback(o) PROVE SchemaInv'
  <2>1. SchemaTypeOK'
    BY <1>8, <1>t DEF SchemaTypeOK, Working, Outcomes, Rollback, Leave, Unlock, Go
  <2>2. Locked'
    BY <1>8, <1>t, Zenon DEF SchemaInv, SchemaTypeOK, Locked, Working, Rollback, Leave, Unlock,
       Go
  <2>3. Staged'
    BY <1>8, <1>v, <1>t, <1>f, PartsFacts DEF SchemaInv, SchemaTypeOK, Locked, Staged,
       Past, Working, Rollback, Leave, Unlock, Go
  <2>4. Past'
    BY <1>8, <1>v, <1>t, <1>f, PartsFacts, Zenon DEF SchemaInv, SchemaTypeOK, Locked, Staged,
       Past, Rollback, Leave, Unlock, Go
  <2>a. /\ file' = file /\ found' = found /\ version' = version /\ maker' = maker
        /\ opener[o] = "rollback"
        /\ opener' = [opener EXCEPT ![o] = IF "rowid_alias" \in file.parts THEN "ok"
                                                                        ELSE "refused"]
    BY <1>8, Zenon DEF Rollback, Leave, Go
  <2>b. opener \in [Openers -> {"out"} \cup Working \cup Outcomes]
    BY <1>t, Zenon DEF SchemaTypeOK
  <2>c. file.version = SCHEMA_VERSION /\ Visible \subseteq file.parts
    BY <2>a, Zenon DEF SchemaInv, Staged
  <2>d. opener'[o] = IF "rowid_alias" \in file.parts THEN "ok" ELSE "refused"
    BY <2>a, <2>b, Zenon
  <2>e. \A q \in Openers : q # o => opener'[q] = opener[q]
    BY <2>a, <2>b, Zenon
  <2>5. FileSurvives'
    <3>1. "rowid_alias" \in file.parts => file.parts = Required
      BY <1>f, <2>c, PartsFacts
    <3>2. \A q \in Openers : opener'[q] = "ok" => opener[q] = "ok" \/ "rowid_alias" \in file.parts
      BY <2>d, <2>e, Zenon
    <3> QED
      BY <2>a, <2>c, <3>1, <3>2, Zenon DEF SchemaInv, FileSurvives
  <2>6. RefusedForCause'
    <3>1. "rowid_alias" \notin file.parts => ~Openable(found)
      <4>1. Openable(file) => file.parts = Required
        BY <1>v, <2>c DEF Openable
      <4> QED
        BY <4>1, PartsFacts, Zenon DEF SchemaInv, FileSurvives
    <3>2. \A q \in Openers : opener'[q] = "refused" =>
            opener[q] = "refused" \/ "rowid_alias" \notin file.parts
      BY <2>d, <2>e, Zenon
    <3> QED
      BY <2>a, <3>1, <3>2, Zenon DEF SchemaInv, RefusedForCause
  <2> QED
    BY <2>1, <2>2, <2>3, <2>4, <2>5, <2>6, Zenon DEF SchemaInv
<1>9. ASSUME NEW o \in Openers, Fail(o) PROVE SchemaInv'
  <2>1. SchemaTypeOK'
    BY <1>9, <1>t DEF SchemaTypeOK, Working, Outcomes, Fail, Leave, Unlock, Go
  <2>2. Locked'
    BY <1>9, <1>t, Zenon DEF SchemaInv, SchemaTypeOK, Locked, Working, Fail, Leave, Unlock, Go
  <2>3. Staged'
    BY <1>9, <1>v, <1>t, <1>f, ZenonT(40) DEF SchemaInv, SchemaTypeOK, Locked, Staged, Past,
       Working, Fail, Leave, Unlock, Go
  <2>4. Past' /\ FileSurvives' /\ RefusedForCause'
    BY <1>9, <1>t, Zenon DEF SchemaInv, SchemaTypeOK, Past, FileSurvives, RefusedForCause,
       Fail, Leave, Unlock, Go
  <2> QED
    BY <2>1, <2>2, <2>3, <2>4, Zenon DEF SchemaInv
<1>10. ASSUME NEW p \in Processes, Restart(p) PROVE SchemaInv'
  <2>1. SchemaTypeOK'
    BY <1>10, <1>t DEF SchemaTypeOK, Restart
  <2>2. Locked'
    BY <1>10, <1>t, Zenon DEF SchemaInv, SchemaTypeOK, Locked, Working, Restart
  <2>3. Staged'
    BY <1>10, <1>t, Zenon DEF SchemaInv, SchemaTypeOK, Staged, Restart
  <2>4. Past' /\ FileSurvives' /\ RefusedForCause'
    BY <1>10, <1>t, Zenon DEF SchemaInv, SchemaTypeOK, Past, FileSurvives, RefusedForCause,
       Restart
  <2> QED
    BY <2>1, <2>2, <2>3, <2>4, Zenon DEF SchemaInv
<1>11. CASE UNCHANGED schemaVars
  BY <1>11 DEF schemaVars, SchemaInv, SchemaTypeOK, Locked, Staged, Past, FileSurvives,
               RefusedForCause
<1> QED
  BY <1>1, <1>2, <1>3, <1>4, <1>5, <1>6, <1>7, <1>8, <1>9, <1>10, <1>11, SMTT(30)
  DEF SchemaNext, OpenStep

\* Store::open, by any number of threads and processes: a file that can be opened
\* is never lost to a crash, its rows are left alone, and a store that was opened
\* has the whole schema.
THEOREM FileIsSafe == SchemaSpec => []FileSurvives
<1>1. SchemaInv => FileSurvives
  BY DEF SchemaInv
<1> QED
  BY <1>1, SchemaInitial, SchemaInductive, PTL DEF SchemaSpec

\* Threads of one process never make each other's open fail; a file that can be
\* opened is refused only to a process that another one overtakes.
THEOREM OpenIsFair == SchemaSpec => []RefusedForCause
<1>1. SchemaInv => RefusedForCause
  BY DEF SchemaInv
<1> QED
  BY <1>1, SchemaInitial, SchemaInductive, PTL DEF SchemaSpec
-----------------------------------------------------------------------------
(* Buckets                                                                 *)

\* The quotient of a division by a positive number, and when it is at least k.
LEMMA DivFacts ==
  ASSUME NEW t \in Int, NEW d \in Nat \ {0}
  PROVE  /\ t \div d \in Int /\ d * (t \div d) <= t /\ t < d * (t \div d) + d
         /\ \A k \in Int : d * k <= t <=> k <= t \div d
<1>1. t \div d \in Int /\ d * (t \div d) <= t /\ t < d * (t \div d) + d
  OBVIOUS
<1>2. ASSUME NEW q \in Int, NEW k \in Int, d * q <= t, t < d * q + d
      PROVE  d * k <= t <=> k <= q
  <2>1. ASSUME k <= q PROVE d * k <= d * q
    BY <2>1
  <2>2. ASSUME k >= q + 1 PROVE d * k >= d * q + d
    <3>1. PICK j \in Nat : k = q + 1 + j
      <4>1. k - q - 1 \in Nat /\ k = q + 1 + (k - q - 1)
        BY <2>2
      <4> QED
        BY <4>1
    <3>2. d * k = d * q + d + d * j /\ d * j >= 0
      BY <3>1
    <3> QED
      BY <3>1, <3>2
  <2>3. d * k \in Int /\ d * q \in Int
    OBVIOUS
  <2> QED
    BY <1>2, <2>1, <2>2, <2>3
<1> QED
  BY <1>1, <1>2

\* The quotient is the only number between whose multiples t lies.
LEMMA DivUnique ==
  ASSUME NEW t \in Int, NEW d \in Nat \ {0}, NEW q \in Int, d * q <= t, t < d * q + d
  PROVE  t \div d = q
<1>1. q <= t \div d /\ t \div d \in Int
  BY DivFacts
<1>2. ~(q + 1 <= t \div d)
  <2>1. d * (q + 1) = d * q + d /\ q + 1 \in Int
    OBVIOUS
  <2>2. ~(d * (q + 1) <= t)
    BY <2>1
  <2> QED
    BY <2>1, <2>2, DivFacts
<1> QED
  BY <1>1, <1>2

\* bucket_start gives the start of an interval that its argument is in, and
\* that it shares with exactly those that have the same start.
LEMMA BucketFacts ==
  ASSUME NEW t \in Int, NEW interval \in Nat \ {0}
  PROVE  /\ bucket_start(t, interval) \in Int
         /\ bucket_start(t, interval) <= t /\ t < bucket_start(t, interval) + interval
         /\ \A u \in Int : bucket_start(u, interval) = bucket_start(t, interval)
              <=> u \in bucket_start(t, interval)..(bucket_start(t, interval) + interval - 1)
<1> DEFINE q == t \div interval
<1>1. q \in Int /\ interval * q <= t /\ t < interval * q + interval
  OBVIOUS
<1>2. bucket_start(t, interval) = interval * q
  BY <1>1 DEF bucket_start
<1>3. ASSUME NEW u \in Int
      PROVE  bucket_start(u, interval) = interval * q
               <=> u \in (interval * q)..(interval * q + interval - 1)
  <2> DEFINE p == u \div interval
  <2>1. p \in Int /\ interval * p <= u /\ u < interval * p + interval
    OBVIOUS
  <2>2. bucket_start(u, interval) = interval * p
    BY <2>1 DEF bucket_start
  <2> HIDE DEF p, q
  <2>3. ASSUME interval * q <= u, u < interval * q + interval PROVE p = q
    BY <1>1, <2>1, <2>3
  <2> QED
    BY <1>1, <2>1, <2>2, <2>3
<1> HIDE DEF q
<1> QED
  BY <1>1, <1>2, <1>3

\* The larger of two numbers, as cleanup's history variable keeps it.
LEMMA MaxFacts ==
  ASSUME NEW a \in Int, NEW b \in Int
  PROVE  /\ Max({a, b}) \in {a, b} /\ Max({a, b}) >= a /\ Max({a, b}) >= b
         /\ Min({a, b}) \in {a, b} /\ Min({a, b}) <= a /\ Min({a, b}) <= b
<1>1. \E x \in {a, b} : \A y \in {a, b} : x >= y
  OBVIOUS
<1>2. \E x \in {a, b} : \A y \in {a, b} : x <= y
  OBVIOUS
<1> QED
  BY <1>1, <1>2 DEF Max, Min
-----------------------------------------------------------------------------
(* The totals                                                              *)

Logged == [id : Nat, number : Nat, at : Clock, blocked : BOOLEAN]

In(logs, b, length) == {row \in logs : row.at \in b..(b + length - 1)}

BlockedIn(logs, b, length) == {row \in In(logs, b, length) : row.blocked}

\* What a bucket's totals say of the rows in it, c being the latest cutoff.
Agree(totals, interval, logs, c, b) ==
  IF b \in DOMAIN totals
  THEN /\ totals[b] \in Totals
       /\ totals[b].total >= Cardinality(In(logs, b, interval))
       /\ totals[b].blocked >= Cardinality(BlockedIn(logs, b, interval))
       /\ b >= c => /\ totals[b].total = Cardinality(In(logs, b, interval))
                    /\ totals[b].blocked = Cardinality(BlockedIn(logs, b, interval))
  ELSE In(logs, b, interval) = {}

AllAgree(totals, interval, logs, c) ==
  \A t \in Clock : Agree(totals, interval, logs, c, bucket_start(t, interval))

\* A row written beside the count of its bucket (insert_events).
LEMMA InsertAgrees ==
  ASSUME NEW totals, NEW interval \in Nat \ {0}, NEW logs \in SUBSET Logged, NEW c \in Int,
         IsFiniteSet(logs), Clock \subseteq Nat,
         AllAgree(totals, interval, logs, c),
         NEW new \in Logged \ logs, NEW e, e.at = new.at, e.blocked = new.blocked
  PROVE  AllAgree(Counted(totals, bucket_start(e.at, interval), e), interval, logs \cup {new}, c)
<1> DEFINE k == bucket_start(new.at, interval)
           after == Counted(totals, k, e)
           more == logs \cup {new}
<1>0. new.at \in Int /\ new.blocked \in BOOLEAN
  <2>1. new.at \in Clock /\ new.blocked \in BOOLEAN
    BY DEF Logged
  <2>2. \A x \in Clock : x \in Int
    OBVIOUS
  <2> QED
    BY <2>1, <2>2, Zenon
<1>1. k \in Int /\ new.at \in k..(k + interval - 1)
  BY <1>0, BucketFacts, Zenon
<1> SUFFICES ASSUME NEW t \in Clock
             PROVE  Agree(after, interval, more, c, bucket_start(t, interval))
  BY DEF AllAgree
<1> DEFINE b == bucket_start(t, interval)
<1>2. b \in Int /\ (new.at \in b..(b + interval - 1) <=> b = k)
  <2>1. t \in Int
    OBVIOUS
  <2> QED
    BY <1>0, <2>1, BucketFacts, Zenon
<1>3. Agree(totals, interval, logs, c, b)
  BY Zenon DEF AllAgree
<1>4. IsFiniteSet(In(logs, b, interval)) /\ IsFiniteSet(BlockedIn(logs, b, interval))
  BY FS_Subset DEF In, BlockedIn
<1>5. /\ Cardinality(In(logs, b, interval)) \in Nat
      /\ Cardinality(BlockedIn(logs, b, interval)) \in Nat
  BY <1>4, FS_CardinalityType
<1>6. new \notin In(logs, b, interval) /\ new \notin BlockedIn(logs, b, interval)
  BY Zenon DEF In, BlockedIn
<1> HIDE DEF b, k
<1>7. CASE b # k
  <2>1. In(more, b, interval) = In(logs, b, interval)
    BY <1>2, <1>7 DEF In
  <2>2. BlockedIn(more, b, interval) = BlockedIn(logs, b, interval)
    BY <2>1, Zenon DEF BlockedIn
  <2>3. (b \in DOMAIN after <=> b \in DOMAIN totals)
        /\ (b \in DOMAIN totals => after[b] = totals[b])
    BY <1>7 DEF Counted
  <2> HIDE DEF after, more
  <2> QED
    BY <1>3, <2>1, <2>2, <2>3, Zenon DEF Agree, b
<1>8. CASE b = k
  <2>1. In(more, b, interval) = In(logs, b, interval) \cup {new}
    BY <1>2, <1>8 DEF In
  <2>2. BlockedIn(more, b, interval)
          = IF new.blocked THEN BlockedIn(logs, b, interval) \cup {new}
            ELSE BlockedIn(logs, b, interval)
    BY <2>1 DEF BlockedIn
  <2>3. Cardinality(In(more, b, interval)) = Cardinality(In(logs, b, interval)) + 1
    BY <1>4, <1>6, <2>1, FS_AddElement, Zenon
  <2>4. Cardinality(BlockedIn(more, b, interval))
          = Cardinality(BlockedIn(logs, b, interval)) + Plus(e)
    <3>1. CASE new.blocked
      <4>1. BlockedIn(more, b, interval) = BlockedIn(logs, b, interval) \cup {new}
        BY <2>2, <3>1
      <4>2. Cardinality(BlockedIn(logs, b, interval) \cup {new})
              = Cardinality(BlockedIn(logs, b, interval)) + 1
        BY <1>4, <1>6, FS_AddElement, Zenon
      <4> QED
        BY <3>1, <4>1, <4>2 DEF Plus
    <3>2. CASE ~new.blocked
      BY <1>5, <2>2, <3>2 DEF Plus
    <3> QED
      BY <3>1, <3>2, Zenon
  <2>5. Plus(e) \in Nat
    BY DEF Plus
  <2>6. b \in DOMAIN after
        /\ after[b] = IF b \in DOMAIN totals
                      THEN [total |-> totals[b].total + 1,
                            blocked |-> totals[b].blocked + Plus(e)]
                      ELSE [total |-> 1, blocked |-> Plus(e)]
    BY <1>8 DEF Counted
  <2> HIDE DEF after, more
  <2>7. CASE b \in DOMAIN totals
    <3>1. totals[b].total \in Nat /\ totals[b].blocked \in Nat
      BY <1>3, <2>7, SMTT(30) DEF Agree, Totals
    <3>2. /\ after[b] \in Totals
          /\ after[b].total = totals[b].total + 1 /\ after[b].blocked = totals[b].blocked + Plus(e)
      BY <2>5, <2>6, <2>7, <3>1 DEF Totals
    <3> DEFINE n == Cardinality(In(logs, b, interval))
               m == Cardinality(BlockedIn(logs, b, interval))
    <3>3. /\ totals[b].total >= n /\ totals[b].blocked >= m
          /\ b >= c => totals[b].total = n /\ totals[b].blocked = m
      BY <1>3, <2>7, Zenon DEF Agree
    <3>4. n \in Nat /\ m \in Nat
      BY <1>4, FS_CardinalityType, Zenon
    <3> HIDE DEF n, m
    <3>5. /\ after[b].total >= n + 1 /\ after[b].blocked >= m + Plus(e)
          /\ b >= c => after[b].total = n + 1 /\ after[b].blocked = m + Plus(e)
      BY <2>5, <3>1, <3>2, <3>3, <3>4, SMTT(30)
    <3> QED
      BY <2>3, <2>4, <2>6, <3>2, <3>5, Zenon DEF Agree, n, m, b
  <2>8. CASE b \notin DOMAIN totals
    <3>1. In(logs, b, interval) = {} /\ BlockedIn(logs, b, interval) = {}
      BY <1>3, <2>8, Zenon DEF Agree, BlockedIn
    <3>2. Cardinality(In(more, b, interval)) = 1
          /\ Cardinality(BlockedIn(more, b, interval)) = Plus(e)
      BY <2>3, <2>4, <2>5, <3>1, FS_EmptySet
    <3> QED
      BY <1>2, <2>5, <2>6, <2>8, <3>2, SMTT(30) DEF Agree, Totals, b
  <2> QED
    BY <2>7, <2>8
<1> QED
  BY <1>7, <1>8 DEF b, k

\* The rows before the cutoff go with the buckets that end by it (cleanup).
LEMMA CleanupAgrees ==
  ASSUME NEW totals, NEW interval \in Nat \ {0}, NEW logs \in SUBSET Logged,
         NEW c0 \in Int, NEW c \in Int,
         IsFiniteSet(logs), Clock \subseteq Nat,
         AllAgree(totals, interval, logs, c0)
  PROVE  AllAgree(Kept(totals, interval, c), interval,
                  logs \ {row \in logs : row.at < c}, Max({c, c0}))
<1> DEFINE after == Kept(totals, interval, c)
           fewer == logs \ {row \in logs : row.at < c}
<1> SUFFICES ASSUME NEW t \in Clock
             PROVE  Agree(after, interval, fewer, Max({c, c0}), bucket_start(t, interval))
  BY DEF AllAgree
<1> DEFINE b == bucket_start(t, interval)
<1>1. b \in Int
  BY BucketFacts
<1>2. Agree(totals, interval, logs, c0, b)
  BY DEF AllAgree
<1>3. ASSUME NEW row \in logs PROVE row.at \in Int
  <2>1. row \in Logged
    OBVIOUS
  <2>2. row.at \in Clock
    BY <2>1 DEF Logged
  <2>3. \A x \in Clock : x \in Int
    OBVIOUS
  <2> QED
    BY <2>2, <2>3, Zenon
<1>4. Max({c, c0}) \in Int /\ Max({c, c0}) >= c /\ Max({c, c0}) >= c0
  BY MaxFacts
<1> HIDE DEF b
<1>5. In(fewer, b, interval) \subseteq In(logs, b, interval)
      /\ BlockedIn(fewer, b, interval) \subseteq BlockedIn(logs, b, interval)
  BY DEF In, BlockedIn
<1>6. IsFiniteSet(In(logs, b, interval)) /\ IsFiniteSet(BlockedIn(logs, b, interval))
  BY FS_Subset DEF In, BlockedIn
<1>7. /\ Cardinality(In(fewer, b, interval)) <= Cardinality(In(logs, b, interval))
      /\ Cardinality(BlockedIn(fewer, b, interval)) <= Cardinality(BlockedIn(logs, b, interval))
      /\ Cardinality(In(logs, b, interval)) \in Nat /\ Cardinality(In(fewer, b, interval)) \in Nat
      /\ Cardinality(BlockedIn(logs, b, interval)) \in Nat
      /\ Cardinality(BlockedIn(fewer, b, interval)) \in Nat
  BY <1>5, <1>6, FS_Subset, FS_CardinalityType
<1>8. b >= c => In(fewer, b, interval) = In(logs, b, interval)
                /\ BlockedIn(fewer, b, interval) = BlockedIn(logs, b, interval)
  BY <1>1, <1>3 DEF In, BlockedIn
<1>9. b + interval <= c => In(fewer, b, interval) = {}
  BY <1>1, <1>3 DEF In
<1>10. (b \in DOMAIN after <=> b \in DOMAIN totals /\ b + interval > c)
       /\ (b \in DOMAIN after => after[b] = totals[b])
  BY DEF Kept
<1>11. CASE b \in DOMAIN after
  <2>1. totals[b].total \in Nat /\ totals[b].blocked \in Nat
    BY <1>2, <1>10, <1>11, Zenon DEF Agree, Totals
  <2> HIDE DEF after, fewer
  <2> QED
    <3> DEFINE d == Max({c, c0})
               n == Cardinality(In(logs, b, interval))
               m == Cardinality(BlockedIn(logs, b, interval))
               n2 == Cardinality(In(fewer, b, interval))
               m2 == Cardinality(BlockedIn(fewer, b, interval))
    <3>1. /\ totals[b] \in Totals /\ totals[b].total >= n /\ totals[b].blocked >= m
          /\ b >= c0 => totals[b].total = n /\ totals[b].blocked = m
      BY <1>2, <1>10, <1>11, Zenon DEF Agree
    <3>2. n \in Nat /\ m \in Nat /\ n2 \in Nat /\ m2 \in Nat /\ n2 <= n /\ m2 <= m
      BY <1>7, Zenon
    <3>3. b >= c => n2 = n /\ m2 = m
      BY <1>8, Zenon
    <3>4. d \in Int /\ d >= c /\ d >= c0
      BY <1>4, Zenon
    <3> HIDE DEF d, n, m, n2, m2
    <3>5. totals[b].total >= n2 /\ totals[b].blocked >= m2
      BY <2>1, <3>1, <3>2
    <3>6. b >= d => totals[b].total = n2 /\ totals[b].blocked = m2
      BY <1>1, <3>1, <3>3, <3>4, SMTT(30)
    <3> QED
      BY <1>10, <1>11, <3>1, <3>5, <3>6, Zenon DEF Agree, b, d, n2, m2
<1>12. CASE b \notin DOMAIN after
  <2>1. b \notin DOMAIN totals \/ b + interval <= c
    BY <1>1, <1>10, <1>12, SMTT(30)
  <2>2. In(fewer, b, interval) = {}
    BY <1>2, <1>5, <1>9, <2>1, Zenon DEF Agree
  <2> HIDE DEF after, fewer
  <2> QED
    BY <1>12, <2>2, Zenon DEF Agree, b
<1> QED
  BY <1>11, <1>12
-----------------------------------------------------------------------------
(* The page of rows                                                        *)

Distinct(logs) == \A x, y \in logs : x.id = y.id => x = y

\* Every place in the order has its row, so that a page that starts within the
\* table is never short of a row (queries_with_deadline).
LEMMA NthFacts ==
  ASSUME query_logs \subseteq Logged, IsFiniteSet(query_logs), Distinct(query_logs),
         Clock \subseteq Nat,
         NEW n \in 0..(Cardinality(query_logs) - 1)
  PROVE  Nth(n) \in query_logs /\ Cardinality(Newer(Nth(n))) = n
<1> DEFINE size == Cardinality(query_logs)
           f == [row \in query_logs |-> Cardinality(Newer(row))]
<1>0. size \in Nat /\ n \in Nat
  BY FS_CardinalityType
<1>1. ASSUME NEW row \in query_logs PROVE row.at \in Int /\ row.id \in Int
  <2>1. row \in Logged
    OBVIOUS
  <2>2. row.at \in Clock /\ row.id \in Nat
    BY <2>1 DEF Logged
  <2>3. (\A x \in Clock : x \in Int) /\ (\A x \in Nat : x \in Int)
    OBVIOUS
  <2> QED
    BY <2>2, <2>3, Zenon
<1>2. ASSUME NEW row \in query_logs
      PROVE  /\ IsFiniteSet(Newer(row)) /\ Cardinality(Newer(row)) \in 0..(size - 1)
  <2>1. Newer(row) \subseteq query_logs /\ row \notin Newer(row)
    BY <1>1 DEF Newer
  <2>2. IsFiniteSet(Newer(row)) /\ Cardinality(Newer(row)) <= size
        /\ Cardinality(Newer(row)) # size
    BY <2>1, FS_Subset
  <2> QED
    BY <1>0, <2>2, FS_CardinalityType
<1>3. ASSUME NEW x \in query_logs, NEW y \in query_logs, x \in Newer(y)
      PROVE  Cardinality(Newer(x)) # Cardinality(Newer(y))
  <2>1. Newer(x) \subseteq Newer(y) /\ x \notin Newer(x)
    BY <1>1, <1>3 DEF Newer
  <2> QED
    BY <1>2, <1>3, <2>1, FS_Subset, Zenon
<1>4. ASSUME NEW x \in query_logs, NEW y \in query_logs, x # y
      PROVE  x \in Newer(y) \/ y \in Newer(x)
  <2>1. x.id # y.id
    BY <1>4 DEF Distinct
  <2> QED
    BY <1>1, <2>1 DEF Newer
<1>5. f \in Injection(query_logs, 0..(size - 1))
  BY <1>2, <1>3, <1>4 DEF Injection, IsInjective
<1>6. IsFiniteSet(0..(size - 1)) /\ Cardinality(0..(size - 1)) = size
  BY <1>0, FS_Interval
<1>7. f \in Surjection(query_logs, 0..(size - 1))
  BY <1>5, <1>6, FS_Injection
<1>8. \E row \in query_logs : Cardinality(Newer(row)) = n
  BY <1>7, Zenon DEF Surjection
<1> QED
  BY <1>8 DEF Nth

\* What the list statement returns: rows of the table, no more than asked for.
LEMMA ListedFacts ==
  ASSUME query_logs \subseteq Logged, IsFiniteSet(query_logs), Distinct(query_logs),
         Clock \subseteq Nat,
         NEW p, p.page \in Nat \ {0}, p.page_size \in Nat \ {0}
  PROVE  Listed(p) \in Seq(query_logs) /\ Len(Listed(p)) <= p.page_size
<1> DEFINE offset == (p.page - 1) * p.page_size
           size == Cardinality(query_logs)
           count == Min({p.page_size, size - offset})
<1>1. size \in Nat /\ offset \in Nat
  BY FS_CardinalityType
<1>2. count \in Int /\ count <= p.page_size /\ count <= size - offset
  <2> HIDE DEF offset, size
  <2>1. p.page_size \in Int /\ size - offset \in Int
    BY <1>1
  <2>2. /\ count \in {p.page_size, size - offset}
        /\ count <= p.page_size /\ count <= size - offset
    BY <2>1, MaxFacts, Zenon
  <2> QED
    BY <2>1, <2>2
<1>3. Listed(p) = [i \in 1..count |-> Nth(offset + i - 1)]
  BY DEF Listed
<1> HIDE DEF offset, size, count
<1>4. ASSUME NEW i \in 1..count PROVE Nth(offset + i - 1) \in query_logs
  <2>1. offset + i - 1 \in 0..(size - 1)
    BY <1>1, <1>2
  <2> QED
    BY <2>1, NthFacts DEF size
<1>5. CASE count \in Nat
  BY <1>2, <1>3, <1>4, <1>5
<1>6. CASE count \notin Nat
  <2>1. 1..count = {}
    BY <1>2, <1>6
  <2>2. Listed(p) = <<>>
    BY <1>3, <2>1
  <2> QED
    BY <2>2
<1> QED
  BY <1>5, <1>6
-----------------------------------------------------------------------------
(***************************************************************************)
(* The inductive invariant.  Tables: ids are never given twice and the     *)
(* totals agree with the rows.  Addressed: a row's addresses are all there *)
(* or all gone.  Fits: what a request has asked for, how far its thread is *)
(* and how it was answered go together.  Shown: a page holds rows that     *)
(* were written, with their own addresses or none.                         *)
(***************************************************************************)
Tables ==
  /\ retention_days \in Nat /\ cutoff \in Int /\ sequence \in Nat
  /\ query_logs \subseteq Logged /\ IsFiniteSet(query_logs) /\ Distinct(query_logs)
  /\ \A row \in query_logs : row.id \in 1..sequence /\ row.number = row.id
  /\ AllAgree(hourly, HOUR, query_logs, cutoff) /\ AllAgree(daily, DAY, query_logs, cutoff)

Own(pairs, n, given) == {a \in Addresses : <<n, a>> \in pairs} \in {{}, given[n]}

Addressed ==
  /\ answers \in Seq(SUBSET Addresses) /\ Len(answers) = sequence
  /\ query_response_ips \subseteq (1..sequence) \X Addresses
  /\ \A n \in 1..sequence : Own(query_response_ips, n, answers)

Stages == {"none", "connect", "summarise", "count", "list", "addresses"}

Page == [total : Nat, rows : Seq(Logged), ips : SUBSET (Nat \X Addresses)]

Fits(p, status, expired, stage, pg) ==
  /\ p \in Params /\ expired \in BOOLEAN /\ stage \in Stages /\ pg \in Page
  /\ status = "queued" => stage = "none"
  /\ status = "queued" \/ stage # "none" => validate(p) /\ pg.ips = {}
  /\ stage \in {"count", "list", "addresses"} => p.kind = "queries"
  /\ status # "refused" /\ (status \in {"timeout", "expired"} => expired)
  /\ pg.rows # <<>> => p.kind = "queries" /\ Len(pg.rows) <= p.page_size

Shown(pg, last, given) ==
  \A i \in DOMAIN pg.rows :
    /\ pg.rows[i].id \in 1..last /\ pg.rows[i].number = pg.rows[i].id
    /\ Own(pg.ips, pg.rows[i].id, given)

Served ==
  /\ DOMAIN params = Requests /\ DOMAIN request = Requests /\ DOMAIN late = Requests
  /\ DOMAIN reader = Requests /\ DOMAIN page = Requests
  /\ \A r \in Requests : /\ Fits(params[r], request[r], late[r], reader[r], page[r])
                          /\ Shown(page[r], sequence, answers)

Limited == IsFiniteSet(Reading) /\ Cardinality(Reading) <= Permits

HistoryInv == Tables /\ Addressed /\ Served /\ Limited

\* What the proofs use of the constants.
LEMMA ConstantFacts ==
  /\ HOUR \in Nat \ {0} /\ DAY \in Nat \ {0} /\ DAY % HOUR = 0
  /\ Retentions \subseteq Nat /\ HOURLY_DAYS \in Nat /\ TREND_DAYS \in Nat \ {0}
  /\ Clock \subseteq Nat /\ Permits \in Nat \ {0} /\ I64_MAX \in Nat
BY HistoryAssumption

\* The fields of an event, as insert_events reads them.
LEMMA EventFacts ==
  ASSUME NEW e \in Events
  PROVE  e.at \in Clock /\ e.blocked \in BOOLEAN /\ e.ips \subseteq Addresses
BY HistoryAssumption

\* The fields of a request's parameters, as QueryParams::validate reads them.
LEMMA ParamFacts ==
  /\ \A p \in Params : /\ p.kind \in {"summary", "malformed", "queries"}
                       /\ p.kind = "queries" => p.page \in Nat /\ p.page_size \in Nat
  /\ Summary \in Params /\ Malformed \in Params /\ validate(Summary)
  /\ NoPage \in Page /\ NoPage.rows = <<>> /\ NoPage.ips = {} /\ NoPage.total = 0
<1>1. \A p \in Pages : p.page \in Nat /\ p.page_size \in Nat
  BY HistoryAssumption, Zenon
<1>2. \A p \in Params : /\ p.kind \in {"summary", "malformed", "queries"}
                        /\ p.kind = "queries" => p.page \in Nat /\ p.page_size \in Nat
  BY <1>1 DEF Params, Summary, Malformed
<1>3. Summary \in Params /\ Malformed \in Params /\ validate(Summary)
  BY DEF Params, Summary, Malformed, validate
<1>4. NoPage \in Page /\ NoPage.rows = <<>> /\ NoPage.ips = {} /\ NoPage.total = 0
  BY DEF NoPage, Page
<1> QED
  BY <1>2, <1>3, <1>4

\* A page nothing has been read for shows no row (QueryPage).
LEMMA NothingShown ==
  ASSUME NEW n, NEW given
  PROVE  Shown(NoPage, n, given)
<1>1. NoPage.rows = <<>>
  BY ParamFacts, Zenon
<1>2. DOMAIN NoPage.rows = {}
  <2>1. \A rows : rows = <<>> => DOMAIN rows = {}
    OBVIOUS
  <2> QED
    BY <1>1, <2>1, Zenon
<1> QED
  BY <1>2, Zenon DEF Shown

\* A new store has no rows and nobody who asks.
LEMMA HistoryInitial == Init => HistoryInv
<1> SUFFICES ASSUME Init PROVE HistoryInv
  OBVIOUS
<1> USE DEF Init
<1>1. Tables
  <2>1. retention_days \in Nat /\ cutoff \in Int /\ sequence \in Nat
    BY ConstantFacts
  <2>2. /\ query_logs \subseteq Logged /\ IsFiniteSet(query_logs) /\ Distinct(query_logs)
        /\ \A row \in query_logs : row.id \in 1..sequence /\ row.number = row.id
    BY FS_EmptySet, Zenon DEF Distinct
  <2>3. AllAgree(hourly, HOUR, query_logs, cutoff) /\ AllAgree(daily, DAY, query_logs, cutoff)
    BY DEF AllAgree, Agree, In
  <2> QED
    BY <2>1, <2>2, <2>3 DEF Tables
<1>2. Addressed
  BY SMTT(40) DEF Addressed
<1>3. Served
  <2> SUFFICES ASSUME NEW r \in Requests
               PROVE  /\ Fits(params[r], request[r], late[r], reader[r], page[r])
                      /\ Shown(page[r], sequence, answers)
    BY Zenon DEF Served
  <2>1. /\ params[r] = Summary /\ request[r] = "none" /\ late[r] = FALSE
        /\ reader[r] = "none" /\ page[r] = NoPage
    BY Zenon
  <2>2. Fits(params[r], request[r], late[r], reader[r], page[r])
    BY <2>1, ParamFacts, Zenon DEF Fits, Stages
  <2> QED
    BY <2>1, <2>2, NothingShown, Zenon
<1>4. Limited
  <2>1. Reading = {}
    BY Zenon DEF Reading
  <2> QED
    BY <2>1, FS_EmptySet, ConstantFacts DEF Limited
<1> QED
  BY <1>1, <1>2, <1>3, <1>4 DEF HistoryInv

\* One more id: pages read before keep what they show.
LEMMA StillShown ==
  ASSUME NEW pg, NEW n \in Nat, NEW given \in Seq(SUBSET Addresses), Len(given) = n,
         NEW ips, Shown(pg, n, given)
  PROVE  Shown(pg, n + 1, Append(given, ips))
BY SMTT(40) DEF Shown, Own

\* insert_events keeps it: the new id is in no row and in no pair.
LEMMA InsertKeeps ==
  ASSUME HistoryInv, NEW e \in Events, Insert(e)
  PROVE  HistoryInv'
<1> DEFINE new == [id |-> sequence + 1, number |-> sequence + 1, at |-> e.at,
                   blocked |-> e.blocked]
<1> USE DEF HistoryInv
<1>1. sequence \in Nat /\ sequence' = sequence + 1
  BY Zenon DEF Tables, Insert
<1>2. new \in Logged \ query_logs /\ new.at = e.at /\ new.blocked = e.blocked
      /\ new.id = sequence + 1 /\ new.number = sequence + 1
  <2>1. new \in Logged
    BY <1>1, EventFacts DEF Logged
  <2>2. \A row \in query_logs : row.id # sequence + 1
    BY <1>1 DEF Tables
  <2> QED
    BY <2>1, <2>2, Zenon
<1> HIDE DEF new
<1>3. query_logs' = query_logs \cup {new}
  BY Zenon DEF Insert, new
<1>4. Tables'
  <2>1. retention_days' \in Nat /\ cutoff' \in Int /\ sequence' \in Nat
    <3>1. retention_days' = retention_days /\ cutoff' = cutoff
      BY Zenon DEF Insert
    <3>2. retention_days \in Nat /\ cutoff \in Int
      BY Zenon DEF Tables
    <3>3. \A n \in Nat : n + 1 \in Nat
      OBVIOUS
    <3> QED
      BY <1>1, <3>1, <3>2, <3>3, Zenon
  <2>2. query_logs' \subseteq Logged /\ IsFiniteSet(query_logs')
    BY <1>2, <1>3, FS_AddElement, Zenon DEF Tables
  <2>3. \A row \in query_logs' : row.id \in 1..sequence' /\ row.number = row.id
    <3>1. \A row \in query_logs : row.id \in 1..sequence /\ row.number = row.id
      BY Zenon DEF Tables
    <3>2. \A i \in 1..sequence : i \in 1..sequence'
      BY <1>1
    <3>3. new.id \in 1..sequence' /\ new.number = new.id
      <4>1. \A n \in Nat : n + 1 \in 1..(n + 1)
        BY SMTT(30)
      <4> QED
        BY <1>1, <1>2, <4>1, Zenon
    <3> QED
      BY <1>3, <3>1, <3>2, <3>3, Zenon
  <2>4. Distinct(query_logs')
    BY <1>1, <1>2, <1>3 DEF Tables, Distinct
  <2>5. /\ AllAgree(hourly', HOUR, query_logs', cutoff')
        /\ AllAgree(daily', DAY, query_logs', cutoff')
    <3>1. hourly' = Counted(hourly, bucket_start(e.at, HOUR), e)
          /\ daily' = Counted(daily, bucket_start(e.at, DAY), e) /\ cutoff' = cutoff
      BY Zenon DEF Insert
    <3>2. /\ query_logs \in SUBSET Logged /\ IsFiniteSet(query_logs) /\ cutoff \in Int
          /\ AllAgree(hourly, HOUR, query_logs, cutoff)
          /\ AllAgree(daily, DAY, query_logs, cutoff)
      BY DEF Tables
    <3>3. HOUR \in Nat \ {0} /\ DAY \in Nat \ {0} /\ Clock \subseteq Nat
      BY ConstantFacts
    <3>4. AllAgree(hourly', HOUR, query_logs', cutoff')
      BY <1>2, <1>3, <3>1, <3>2, <3>3, InsertAgrees, Zenon
    <3>5. AllAgree(daily', DAY, query_logs', cutoff')
      BY <1>2, <1>3, <3>1, <3>2, <3>3, InsertAgrees, Zenon
    <3> QED
      BY <3>4, <3>5
  <2> QED
    BY <2>1, <2>2, <2>3, <2>4, <2>5, Zenon DEF Tables
<1>5. e.ips \subseteq Addresses
  BY EventFacts
<1>6. Addressed'
  <2>1. answers' = Append(answers, e.ips)
        /\ query_response_ips' = query_response_ips \cup {<<sequence + 1, ip>> : ip \in e.ips}
    BY Zenon DEF Insert
  <2>2. answers' \in Seq(SUBSET Addresses) /\ Len(answers') = sequence'
    BY <1>1, <1>5, <2>1, SMTT(30) DEF Addressed
  <2>3. query_response_ips' \subseteq (1..sequence') \X Addresses
    BY <1>1, <1>5, <2>1 DEF Addressed
  <2>4. ASSUME NEW n \in 1..sequence' PROVE Own(query_response_ips', n, answers')
    <3>1. CASE n \in 1..sequence
      <4>1. answers'[n] = answers[n]
        BY <1>1, <2>1, <3>1 DEF Addressed
      <4>2. \A a \in Addresses : <<n, a>> \in query_response_ips'
                                 <=> <<n, a>> \in query_response_ips
        BY <1>1, <2>1, <3>1
      <4>3. {a \in Addresses : <<n, a>> \in query_response_ips'}
              = {a \in Addresses : <<n, a>> \in query_response_ips}
        BY <4>2
      <4> QED
        BY <3>1, <4>1, <4>3, Zenon DEF Addressed, Own
    <3>2. CASE n = sequence + 1
      <4>1. answers'[n] = e.ips
        BY <1>1, <2>1, <3>2, SMTT(30) DEF Addressed
      <4>2. \A a \in Addresses : <<n, a>> \in query_response_ips' <=> a \in e.ips
        BY <1>1, <2>1, <3>2 DEF Addressed
      <4>3. {a \in Addresses : <<n, a>> \in query_response_ips'} = e.ips
        BY <1>5, <4>2, Zenon
      <4> QED
        BY <4>1, <4>3, Zenon DEF Own
    <3> QED
      BY <1>1, <3>1, <3>2
  <2> QED
    BY <2>2, <2>3, <2>4, Zenon DEF Addressed
<1>7. UNCHANGED reads
  BY Zenon DEF Insert, reads
<1>8. Served'
  <2>1. answers' = Append(answers, e.ips)
    BY Zenon DEF Insert
  <2>2. ASSUME NEW r \in Requests PROVE Shown(page[r], sequence', answers')
    BY <1>1, <2>1, StillShown, Zenon DEF Served, Addressed
  <2> QED
    BY <1>7, <2>2, Zenon DEF Served, reads
<1>9. Limited'
  <2>1. Reading' = Reading
    BY <1>7 DEF Reading, reads
  <2> QED
    BY <2>1 DEF Limited
<1> QED
  BY <1>4, <1>6, <1>8, <1>9, Zenon

\* cleanup keeps it: a row goes with all its addresses, and the ids go on.
LEMMA CleanupKeeps ==
  ASSUME HistoryInv, NEW t \in Clock, Cleanup(t)
  PROVE  HistoryInv'
<1> DEFINE c == t - DAY * retention_days
           old == {row \in query_logs : row.at < c}
<1> USE DEF HistoryInv
<1>1. c \in Int
  BY ConstantFacts DEF Tables
<1>2. /\ query_logs' = query_logs \ old
      /\ query_response_ips' =
           {p \in query_response_ips : \A row \in old : p[1] # row.id}
      /\ hourly' = Kept(hourly, HOUR, c) /\ daily' = Kept(daily, DAY, c)
      /\ cutoff' = Max({c, cutoff})
      /\ UNCHANGED <<retention_days, sequence, reads, answers>>
  BY Zenon DEF Cleanup
<1>3. Tables'
  <2>1. retention_days' \in Nat /\ cutoff' \in Int /\ sequence' \in Nat
    BY <1>1, <1>2, MaxFacts, Zenon DEF Tables
  <2>2. query_logs' \subseteq query_logs
    BY <1>2
  <2>3. query_logs' \subseteq Logged /\ IsFiniteSet(query_logs') /\ Distinct(query_logs')
    BY <2>2, FS_Subset, ZenonT(40) DEF Tables, Distinct
  <2>4. \A row \in query_logs' : row.id \in 1..sequence' /\ row.number = row.id
    BY <1>2, <2>2 DEF Tables
  <2>5. /\ AllAgree(hourly', HOUR, query_logs', cutoff')
        /\ AllAgree(daily', DAY, query_logs', cutoff')
    <3>1. /\ query_logs \in SUBSET Logged /\ IsFiniteSet(query_logs) /\ cutoff \in Int
          /\ AllAgree(hourly, HOUR, query_logs, cutoff)
          /\ AllAgree(daily, DAY, query_logs, cutoff)
      BY DEF Tables
    <3>2. HOUR \in Nat \ {0} /\ DAY \in Nat \ {0} /\ Clock \subseteq Nat
      BY ConstantFacts
    <3> HIDE DEF c
    <3>3. AllAgree(Kept(hourly, HOUR, c), HOUR, query_logs \ old, Max({c, cutoff}))
      BY <1>1, <3>1, <3>2, CleanupAgrees, Zenon
    <3>4. AllAgree(Kept(daily, DAY, c), DAY, query_logs \ old, Max({c, cutoff}))
      BY <1>1, <3>1, <3>2, CleanupAgrees, Zenon
    <3> QED
      BY <1>2, <3>3, <3>4, Zenon
  <2> QED
    BY <2>1, <2>3, <2>4, <2>5 DEF Tables
<1>4. Addressed'
  <2>1. answers' = answers /\ sequence' = sequence
        /\ query_response_ips' \subseteq query_response_ips
    BY <1>2, Zenon
  <2>2. ASSUME NEW n \in 1..sequence PROVE Own(query_response_ips', n, answers')
    <3>1. CASE \E row \in old : row.id = n
      <4>1. \A a \in Addresses : <<n, a>> \notin query_response_ips'
        BY <1>2, <3>1
      <4>2. {a \in Addresses : <<n, a>> \in query_response_ips'} = {}
        BY <4>1
      <4> QED
        BY <4>2, Zenon DEF Own
    <3>2. CASE \A row \in old : row.id # n
      <4>1. \A a \in Addresses : <<n, a>> \in query_response_ips'
                                 <=> <<n, a>> \in query_response_ips
        BY <1>2, <3>2
      <4>2. {a \in Addresses : <<n, a>> \in query_response_ips'}
              = {a \in Addresses : <<n, a>> \in query_response_ips}
        BY <4>1
      <4> QED
        BY <2>1, <4>2, Zenon DEF Addressed, Own
    <3> QED
      BY <3>1, <3>2, ZenonT(40)
  <2> QED
    BY <2>1, <2>2, ZenonT(40) DEF Addressed
<1>5. Served'
  BY <1>2, Zenon DEF Served, reads
<1>6. Limited'
  <2>1. Reading' = Reading
    BY <1>2 DEF Reading, reads
  <2> QED
    BY <2>1, Zenon DEF Limited
<1> QED
  BY <1>3, <1>4, <1>5, <1>6, Zenon

\* A step of one request leaves the others as they are.
LEMMA OneServed ==
  ASSUME Served, NEW r \in Requests, UNCHANGED <<sequence, answers>>,
         /\ DOMAIN params' = Requests /\ DOMAIN request' = Requests /\ DOMAIN late' = Requests
         /\ DOMAIN reader' = Requests /\ DOMAIN page' = Requests,
         \A q \in Requests \ {r} :
           /\ params'[q] = params[q] /\ request'[q] = request[q] /\ late'[q] = late[q]
           /\ reader'[q] = reader[q] /\ page'[q] = page[q],
         Fits(params'[r], request'[r], late'[r], reader'[r], page'[r]),
         Shown(page'[r], sequence, answers)
  PROVE  Served'
<1> SUFFICES ASSUME NEW q \in Requests
             PROVE  /\ Fits(params'[q], request'[q], late'[q], reader'[q], page'[q])
                    /\ Shown(page'[q], sequence', answers')
  BY Zenon DEF Served
<1>1. CASE q = r
  BY <1>1, Zenon
<1>2. CASE q # r
  BY <1>2, Zenon DEF Served
<1> QED
  BY <1>1, <1>2, Zenon

\* The threads in the database: one more, one less, or as many.
LEMMA LimitedStep ==
  ASSUME Limited, NEW r \in Requests, DOMAIN reader = Requests, NEW stage,
         reader' = [reader EXCEPT ![r] = stage],
         reader[r] # "none" \/ stage = "none" \/ Cardinality(Reading) < Permits
  PROVE  Limited'
<1>0. Permits \in Nat
  BY ConstantFacts, Zenon
<1>1. CASE stage = "none"
  <2>1. Reading' \subseteq Reading
    BY <1>1 DEF Reading
  <2> QED
    BY <1>0, <2>1, FS_Subset, FS_CardinalityType, SMTT(30) DEF Limited
<1>2. CASE stage # "none" /\ reader[r] # "none"
  <2>1. Reading' = Reading
    BY <1>2 DEF Reading
  <2> QED
    BY <2>1 DEF Limited
<1>3. CASE reader[r] = "none" /\ Cardinality(Reading) < Permits /\ stage # "none"
  <2>1. Reading' = Reading \cup {r} /\ r \notin Reading
    BY <1>3, Zenon DEF Reading
  <2>2. IsFiniteSet(Reading') /\ Cardinality(Reading') = Cardinality(Reading) + 1
        /\ Cardinality(Reading) \in Nat
    BY <2>1, FS_AddElement, FS_CardinalityType, Zenon DEF Limited
  <2> QED
    BY <1>0, <1>3, <2>2 DEF Limited
<1> QED
  BY <1>1, <1>2, <1>3

\* What a request does leaves the tables alone.
LEMMA TablesKept ==
  ASSUME Tables, Addressed, UNCHANGED <<retention_days, tables, cutoff, answers>>
  PROVE  Tables' /\ Addressed' /\ UNCHANGED <<sequence, answers>>
<1>1. UNCHANGED <<query_logs, query_response_ips, hourly, daily, sequence>>
  BY DEF tables
<1> QED
  BY <1>1 DEF Tables, Addressed

\* A request that asks, waits, or is given up on.
LEMMA WaitingKeeps ==
  ASSUME HistoryInv, NEW r \in Requests,
         (\E p \in Params : Ask(r, p)) \/ Acquire(r) \/ Expire(r) \/ Timeout(r)
  PROVE  HistoryInv'
<1> USE DEF HistoryInv
<1> DEFINE Frame == UNCHANGED <<retention_days, tables, cutoff, answers>>
           Doms == /\ DOMAIN params' = Requests /\ DOMAIN request' = Requests
                   /\ DOMAIN late' = Requests /\ DOMAIN reader' = Requests
                   /\ DOMAIN page' = Requests
           Others == \A q \in Requests \ {r} :
             /\ params'[q] = params[q] /\ request'[q] = request[q] /\ late'[q] = late[q]
             /\ reader'[q] = reader[q] /\ page'[q] = page[q]
           Mine == /\ Fits(params'[r], request'[r], late'[r], reader'[r], page'[r])
                   /\ Shown(page'[r], sequence, answers)
<1>1. Fits(params[r], request[r], late[r], reader[r], page[r])
      /\ Shown(page[r], sequence, answers)
  BY Zenon DEF Served
<1>2. ASSUME NEW p \in Params, Ask(r, p) PROVE Frame /\ Doms /\ Others /\ Mine /\ Limited'
  <2>1. Frame /\ reader' = reader
    BY <1>2, Zenon DEF Ask
  <2>2. Doms /\ Others
    BY <1>2, Zenon DEF Ask, Answer, Served
  <2>3. /\ params'[r] = IF validate(p) THEN p ELSE Malformed
        /\ request'[r] = IF validate(p) THEN "queued" ELSE "bad_request"
        /\ late'[r] = FALSE /\ reader'[r] = "none" /\ page'[r] = NoPage
    BY <1>2, Zenon DEF Ask, Answer, Served
  <2>4. Mine
    <3>1. Shown(NoPage, sequence, answers)
      BY NothingShown, Zenon
    <3>2. ASSUME NEW x \in Params, NEW s \in {"queued", "bad_request"},
                 s = "queued" => validate(x)
          PROVE  Fits(x, s, FALSE, "none", NoPage)
      BY <3>2, ParamFacts, Zenon DEF Fits, Stages
    <3>3. CASE validate(p)
      <4>1. params'[r] = p /\ request'[r] = "queued"
        BY <2>3, <3>3, Zenon
      <4> QED
        BY <2>3, <3>1, <3>2, <3>3, <4>1, Zenon
    <3>4. CASE ~validate(p)
      <4>1. params'[r] = Malformed /\ request'[r] = "bad_request"
        BY <2>3, <3>4, Zenon
      <4> QED
        BY <2>3, <3>1, <3>2, <4>1, ParamFacts, Zenon
    <3> QED
      BY <3>3, <3>4, Zenon
  <2>5. Limited'
    BY <2>1 DEF Limited, Reading
  <2> QED
    BY <2>1, <2>2, <2>4, <2>5, Zenon
<1>3. ASSUME Acquire(r) PROVE Frame /\ Doms /\ Others /\ Mine /\ Limited'
  <2>1. Frame /\ Doms /\ Others
    BY <1>3, Zenon DEF Acquire, Answer, Served
  <2>2. /\ params'[r] = params[r] /\ request[r] = "queued" /\ request'[r] = "reading"
        /\ late'[r] = late[r] /\ reader'[r] = "connect" /\ page'[r] = page[r]
    BY <1>3, Zenon DEF Acquire, Answer, Served
  <2>3. Mine
    BY <1>1, <2>2, Zenon DEF Fits, Stages
  <2>4. Limited'
    BY <1>3, LimitedStep, Zenon DEF Acquire, Served
  <2> QED
    BY <2>1, <2>3, <2>4, Zenon
<1>4. ASSUME Expire(r) PROVE Frame /\ Doms /\ Others /\ Mine /\ Limited'
  <2>1. Frame /\ Doms /\ Others /\ reader' = reader
    BY <1>4, Zenon DEF Expire, Served
  <2>2. /\ params'[r] = params[r] /\ request'[r] = request[r]
        /\ late'[r] = TRUE /\ reader'[r] = reader[r] /\ page'[r] = page[r]
    BY <1>4, Zenon DEF Expire, Served
  <2>3. Mine
    BY <1>1, <2>2, Zenon DEF Fits
  <2>4. Limited'
    BY <2>1, Zenon DEF Limited, Reading
  <2> QED
    BY <2>1, <2>3, <2>4, Zenon
<1>5. ASSUME Timeout(r) PROVE Frame /\ Doms /\ Others /\ Mine /\ Limited'
  <2>1. Frame /\ Doms /\ Others /\ reader' = reader
    BY <1>5, Zenon DEF Timeout, Answer, Served
  <2>2. /\ params'[r] = params[r] /\ request'[r] = "timeout" /\ late[r]
        /\ late'[r] = late[r] /\ reader'[r] = reader[r] /\ page'[r] = page[r]
    BY <1>5, Zenon DEF Timeout, Answer, Served
  <2>3. Mine
    BY <1>1, <2>2, Zenon DEF Fits
  <2>4. Limited'
    BY <2>1, Zenon DEF Limited, Reading
  <2> QED
    BY <2>1, <2>3, <2>4, Zenon
<1>6. Frame /\ Doms /\ Others /\ Mine /\ Limited'
  BY <1>2, <1>3, <1>4, <1>5, Zenon
<1>7. Tables' /\ Addressed' /\ UNCHANGED <<sequence, answers>>
  BY <1>6, TablesKept, Zenon
<1>8. Served'
  BY <1>6, <1>7, OneServed, Zenon
<1> QED
  BY <1>6, <1>7, <1>8, Zenon

\* A thread goes on to its next statement.
LEMMA GoingOnKeeps ==
  ASSUME HistoryInv, NEW r \in Requests, NEW stage \in Stages \ {"none"},
         reader[r] # "none", To(r, stage),
         DOMAIN page' = Requests, \A q \in Requests \ {r} : page'[q] = page[q],
         page'[r] \in Page, Shown(page'[r], sequence, answers),
         page'[r].rows # <<>> =>
           params[r].kind = "queries" /\ Len(page'[r].rows) <= params[r].page_size,
         page'[r].ips = {},
         stage \in {"count", "list", "addresses"} => params[r].kind = "queries"
  PROVE  HistoryInv'
<1> USE DEF HistoryInv
<1> DEFINE Doms == /\ DOMAIN params' = Requests /\ DOMAIN request' = Requests
                   /\ DOMAIN late' = Requests /\ DOMAIN reader' = Requests
                   /\ DOMAIN page' = Requests
           Others == \A q \in Requests \ {r} :
             /\ params'[q] = params[q] /\ request'[q] = request[q] /\ late'[q] = late[q]
             /\ reader'[q] = reader[q] /\ page'[q] = page[q]
           Mine == Fits(params'[r], request'[r], late'[r], reader'[r], page'[r])
<1>1. Fits(params[r], request[r], late[r], reader[r], page[r])
  BY Zenon DEF Served
<1>2. /\ UNCHANGED <<retention_days, tables, cutoff, answers>> /\ UNCHANGED <<params, late>>
      /\ reader' = [reader EXCEPT ![r] = stage] /\ request' = request
  BY Zenon DEF To
<1>3. Doms /\ Others
  BY <1>2, Zenon DEF Served
<1>4. reader'[r] = stage
  BY <1>2, Zenon DEF Served
<1>5. Mine
  BY <1>1, <1>2, <1>4, Zenon DEF Fits
<1>6. Limited'
  BY <1>2, LimitedStep, Zenon DEF Served
<1>7. Tables' /\ Addressed' /\ UNCHANGED <<sequence, answers>>
  BY <1>2, TablesKept, Zenon
<1>8. Served'
  BY <1>3, <1>5, <1>7, OneServed, Zenon
<1> QED
  BY <1>6, <1>7, <1>8, Zenon

\* A thread returns, and gives back its permit.
LEMMA ReturnKeeps ==
  ASSUME HistoryInv, NEW r \in Requests, NEW status,
         reader[r] # "none", Return(r, status),
         DOMAIN page' = Requests, \A q \in Requests \ {r} : page'[q] = page[q],
         page'[r] \in Page, Shown(page'[r], sequence, answers),
         page'[r].rows # <<>> =>
           params[r].kind = "queries" /\ Len(page'[r].rows) <= params[r].page_size,
         status \notin {"refused", "queued"}, status \in {"timeout", "expired"} => late[r]
  PROVE  HistoryInv'
<1> USE DEF HistoryInv
<1> DEFINE Doms == /\ DOMAIN params' = Requests /\ DOMAIN request' = Requests
                   /\ DOMAIN late' = Requests /\ DOMAIN reader' = Requests
                   /\ DOMAIN page' = Requests
           Others == \A q \in Requests \ {r} :
             /\ params'[q] = params[q] /\ request'[q] = request[q] /\ late'[q] = late[q]
             /\ reader'[q] = reader[q] /\ page'[q] = page[q]
           Mine == Fits(params'[r], request'[r], late'[r], reader'[r], page'[r])
<1>1. Fits(params[r], request[r], late[r], reader[r], page[r])
  BY Zenon DEF Served
<1>2. /\ UNCHANGED <<retention_days, tables, cutoff, answers>> /\ UNCHANGED <<params, late>>
      /\ reader' = [reader EXCEPT ![r] = "none"]
      /\ request' = request \/ request' = [request EXCEPT ![r] = status]
  BY DEF Return, Answer
<1>3. Doms /\ Others
  BY <1>2, Zenon DEF Served
<1>4. reader'[r] = "none" /\ request'[r] \in {request[r], status}
  BY <1>2, Zenon DEF Served
<1>5. Mine
  BY <1>1, <1>2, <1>4, Zenon DEF Fits, Stages
<1>6. Limited'
  BY <1>2, LimitedStep, Zenon DEF Served
<1>7. Tables' /\ Addressed' /\ UNCHANGED <<sequence, answers>>
  BY <1>2, TablesKept, Zenon
<1>8. Served'
  BY <1>3, <1>5, <1>7, OneServed, Zenon
<1> QED
  BY <1>6, <1>7, <1>8, Zenon

\* The statements of queries_with_deadline and of the summaries, and the ways
\* they fail.  What the handler has let through, the store does not refuse.
LEMMA ReaderKeeps ==
  ASSUME HistoryInv, NEW r \in Requests,
         \/ \E interrupted \in BOOLEAN : ReadFails(r, interrupted)
         \/ Connect(r) \/ Summarise(r) \/ CountRows(r) \/ ListRows(r) \/ ReadAddresses(r)
  PROVE  HistoryInv'
<1> USE DEF HistoryInv
<1> DEFINE p == params[r]
<1>1. Fits(p, request[r], late[r], reader[r], page[r]) /\ Shown(page[r], sequence, answers)
      /\ DOMAIN page = Requests
  BY Zenon DEF Served
<1>2. page[r] \in Page /\ p \in Params
      /\ (page[r].rows # <<>> => p.kind = "queries" /\ Len(page[r].rows) <= p.page_size)
  BY <1>1, Zenon DEF Fits
<1>3. reader[r] # "none" => validate(p) /\ page[r].ips = {}
  BY <1>1, Zenon DEF Fits
<1>4. ASSUME UNCHANGED page
      PROVE  /\ DOMAIN page' = Requests /\ \A q \in Requests \ {r} : page'[q] = page[q]
             /\ page'[r] = page[r]
  BY <1>1, <1>4, Zenon
<1> HIDE DEF p
<1>5. ASSUME NEW interrupted \in BOOLEAN, ReadFails(r, interrupted) PROVE HistoryInv'
  <2>1. /\ reader[r] # "none" /\ UNCHANGED page
        /\ Return(r, classify(interrupted, late[r]))
    BY <1>5, Zenon DEF ReadFails
  <2>2. /\ classify(interrupted, late[r]) \in {"timeout", "sqlite"}
        /\ classify(interrupted, late[r]) = "timeout" => late[r]
    BY DEF classify
  <2> QED
    BY <1>1, <1>2, <1>4, <2>1, <2>2, ReturnKeeps, Zenon DEF p
<1>6. ASSUME Connect(r) PROVE HistoryInv'
  <2>1. reader[r] = "connect" /\ UNCHANGED page
    BY <1>6, Zenon DEF Connect
  <2>2. p.kind = "queries" =>
          /\ p.page_size \in 1..MAX_QUERY_PAGE_SIZE
          /\ (Max({p.page, 1}) - 1) * p.page_size <= I64_MAX
    <3> SUFFICES ASSUME p.kind = "queries"
                 PROVE  /\ p.page_size \in 1..MAX_QUERY_PAGE_SIZE
                        /\ (Max({p.page, 1}) - 1) * p.page_size <= I64_MAX
      OBVIOUS
    <3>1. p.page \in Nat /\ p.page >= 1 /\ p.page_size \in 1..MAX_QUERY_PAGE_SIZE
          /\ (p.page - 1) * p.page_size <= I64_MAX
      BY <1>2, <1>3, <2>1, ParamFacts, Zenon DEF validate
    <3>2. Max({p.page, 1}) \in {p.page, 1} /\ Max({p.page, 1}) >= p.page
      <4>1. p.page \in Int /\ 1 \in Int
        BY <3>1
      <4> QED
        BY <4>1, MaxFacts, Zenon
    <3>3. Max({p.page, 1}) = p.page
      BY <3>1, <3>2
    <3> QED
      BY <3>1, <3>3
  <2>3. \/ late[r] /\ Return(r, "expired")
        \/ p.kind = "queries" /\ To(r, "count")
        \/ p.kind # "queries" /\ To(r, "summarise")
    BY <1>6, <2>2, Zenon DEF Connect, p
  <2>4. CASE late[r] /\ Return(r, "expired")
    BY <1>1, <1>2, <1>4, <2>1, <2>4, ReturnKeeps, Zenon DEF p
  <2>5. CASE p.kind = "queries" /\ To(r, "count")
    BY <1>1, <1>2, <1>3, <1>4, <2>1, <2>5, GoingOnKeeps, Zenon DEF p, Stages
  <2>6. CASE p.kind # "queries" /\ To(r, "summarise")
    BY <1>1, <1>2, <1>3, <1>4, <2>1, <2>6, GoingOnKeeps, Zenon DEF p, Stages
  <2> QED
    BY <2>3, <2>4, <2>5, <2>6
<1>7. ASSUME Summarise(r) PROVE HistoryInv'
  <2>1. reader[r] # "none" /\ UNCHANGED page /\ Return(r, "ok")
    BY <1>7 DEF Summarise
  <2> QED
    BY <1>1, <1>2, <1>4, <2>1, ReturnKeeps, Zenon DEF p
<1>8. ASSUME CountRows(r) PROVE HistoryInv'
  <2>1. /\ reader[r] = "count" /\ To(r, "list")
        /\ page' = [page EXCEPT ![r].total = Cardinality(query_logs)]
    BY <1>8 DEF CountRows
  <2>2. Cardinality(query_logs) \in Nat
    BY FS_CardinalityType DEF Tables
  <2>3. /\ DOMAIN page' = Requests /\ \A q \in Requests \ {r} : page'[q] = page[q]
        /\ page'[r] = [page[r] EXCEPT !.total = Cardinality(query_logs)]
    BY <1>1, <2>1
  <2>4. page'[r] \in Page /\ page'[r].rows = page[r].rows /\ page'[r].ips = page[r].ips
    BY <1>2, <2>2, <2>3 DEF Page
  <2>5. Shown(page'[r], sequence, answers)
    BY <1>1, <2>4, Zenon DEF Shown
  <2>6. p.kind = "queries"
    BY <1>1, <2>1 DEF Fits
  <2> QED
    BY <1>2, <1>3, <2>1, <2>3, <2>4, <2>5, <2>6, GoingOnKeeps, Zenon DEF p, Stages
<1>9. ASSUME ListRows(r) PROVE HistoryInv'
  <2>1. /\ reader[r] = "list" /\ (Return(r, "ok") \/ To(r, "addresses"))
        /\ page' = [page EXCEPT ![r].rows = Listed(p)]
    BY <1>9 DEF ListRows, p
  <2>2. p.kind = "queries"
    BY <1>1, <2>1 DEF Fits
  <2>3. p.page \in Nat \ {0} /\ p.page_size \in Nat \ {0}
    BY <1>2, <1>3, <2>1, <2>2, ParamFacts, SMTT(30) DEF validate
  <2>4. Listed(p) \in Seq(query_logs) /\ Len(Listed(p)) <= p.page_size
    BY <2>3, ListedFacts, ConstantFacts, SMTT(30) DEF Tables
  <2>5. Listed(p) \in Seq(Logged)
    BY <2>4 DEF Tables
  <2>6. /\ DOMAIN page' = Requests /\ \A q \in Requests \ {r} : page'[q] = page[q]
        /\ page'[r] = [page[r] EXCEPT !.rows = Listed(p)]
    BY <1>1, <2>1
  <2>7. page'[r] \in Page /\ page'[r].rows = Listed(p) /\ page'[r].ips = {}
    BY <1>2, <1>3, <2>1, <2>5, <2>6, Zenon DEF Page
  <2>8. Shown(page'[r], sequence, answers)
    <3> SUFFICES ASSUME NEW i \in DOMAIN Listed(p)
                 PROVE  /\ Listed(p)[i].id \in 1..sequence
                        /\ Listed(p)[i].number = Listed(p)[i].id
                        /\ Own({}, Listed(p)[i].id, answers)
      BY <2>7, Zenon DEF Shown
    <3>1. Listed(p)[i] \in query_logs
      BY <2>4
    <3>2. \A n : Own({}, n, answers)
      BY Zenon DEF Own
    <3> QED
      BY <3>1, <3>2, Zenon DEF Tables
  <2>9. CASE Return(r, "ok")
    BY <1>2, <2>1, <2>2, <2>4, <2>6, <2>7, <2>8, <2>9, ReturnKeeps, Zenon DEF p
  <2>10. CASE To(r, "addresses")
    BY <1>2, <2>1, <2>2, <2>4, <2>6, <2>7, <2>8, <2>10, GoingOnKeeps, Zenon DEF p, Stages
  <2> QED
    BY <2>1, <2>9, <2>10
<1>10. ASSUME ReadAddresses(r) PROVE HistoryInv'
  <2> DEFINE ips == {x \in query_response_ips :
                       \E i \in DOMAIN page[r].rows : page[r].rows[i].id = x[1]}
  <2>1. /\ reader[r] # "none" /\ Return(r, "ok")
        /\ page' = [page EXCEPT ![r].ips = ips]
    BY <1>10, Zenon DEF ReadAddresses
  <2>2. ips \subseteq query_response_ips
    OBVIOUS
  <2>3. \A i \in DOMAIN page[r].rows : \A a :
          <<page[r].rows[i].id, a>> \in ips <=> <<page[r].rows[i].id, a>> \in query_response_ips
    OBVIOUS
  <2> HIDE DEF ips
  <2>4. ips \in SUBSET (Nat \X Addresses)
    BY <2>2 DEF Addressed, Tables
  <2>5. /\ DOMAIN page' = Requests /\ \A q \in Requests \ {r} : page'[q] = page[q]
        /\ page'[r] = [page[r] EXCEPT !.ips = ips]
    BY <1>1, <2>1
  <2>6. page'[r] \in Page /\ page'[r].rows = page[r].rows /\ page'[r].ips = ips
    BY <1>2, <2>4, <2>5 DEF Page
  <2>7. Shown(page'[r], sequence, answers)
    <3> SUFFICES ASSUME NEW i \in DOMAIN page[r].rows
                 PROVE  /\ page[r].rows[i].id \in 1..sequence
                        /\ page[r].rows[i].number = page[r].rows[i].id
                        /\ Own(ips, page[r].rows[i].id, answers)
      BY <2>6, Zenon DEF Shown
    <3> DEFINE n == page[r].rows[i].id
    <3>1. n \in 1..sequence /\ page[r].rows[i].number = n
      BY <1>1, Zenon DEF Shown
    <3>2. {a \in Addresses : <<n, a>> \in ips}
            = {a \in Addresses : <<n, a>> \in query_response_ips}
      BY <2>3
    <3> HIDE DEF n
    <3>3. Own(ips, n, answers)
      BY <3>1, <3>2, Zenon DEF Addressed, Own
    <3> QED
      BY <3>1, <3>3, Zenon DEF n
  <2> QED
    BY <1>2, <2>1, <2>5, <2>6, <2>7, ReturnKeeps, Zenon DEF p
<1> QED
  BY <1>5, <1>6, <1>7, <1>8, <1>9, <1>10, Zenon

\* The invariant is inductive.
LEMMA HistoryInductive == HistoryInv /\ [Next]_vars => HistoryInv'
<1> SUFFICES ASSUME HistoryInv, [Next]_vars PROVE HistoryInv'
  OBVIOUS
<1>1. CASE UNCHANGED vars
  <2>1. UNCHANGED <<retention_days, tables, cutoff, answers>> /\ UNCHANGED reads
    BY <1>1 DEF vars
  <2>2. Tables' /\ Addressed' /\ UNCHANGED <<sequence, answers>>
    BY <2>1, TablesKept DEF HistoryInv
  <2>3. Served' /\ Limited'
    BY <2>1, <2>2, Zenon DEF HistoryInv, Served, Limited, Reading, reads
  <2> QED
    BY <2>2, <2>3 DEF HistoryInv
<1>2. CASE Next
  BY <1>2, InsertKeeps, CleanupKeeps, WaitingKeeps, ReaderKeeps DEF Next
<1> QED
  BY <1>1, <1>2

\* HistoryInv always holds (store.rs and http.rs as History models them).
THEOREM HistoryInvariant == Spec => []HistoryInv
BY HistoryInitial, HistoryInductive, PTL DEF Spec
-----------------------------------------------------------------------------
(* What follows from it                                                    *)

\* insert_events and cleanup keep the totals in step with the rows.
THEOREM TotalsMatchDetailsAlways == Spec => []TotalsMatchDetails
<1>1. ASSUME HistoryInv PROVE TotalsMatchDetails
  <2> SUFFICES ASSUME NEW table \in {<<hourly, HOUR>>, <<daily, DAY>>}, NEW row \in query_logs
               PROVE  LET b == bucket_start(row.at, table[2])
                          rows == RowsIn(b, table[2])
                          blocked == Cardinality({x \in rows : x.blocked})
                      IN  /\ b \in DOMAIN table[1]
                          /\ /\ table[1][b].total >= Cardinality(rows)
                             /\ table[1][b].blocked >= blocked
                          /\ b >= cutoff =>
                               table[1][b] = [total |-> Cardinality(rows), blocked |-> blocked]
    BY Zenon DEF TotalsMatchDetails
  <2> DEFINE totals == table[1]
             interval == table[2]
             b == bucket_start(row.at, interval)
  <2>1. interval \in Nat \ {0} /\ AllAgree(totals, interval, query_logs, cutoff)
    BY <1>1, ConstantFacts DEF HistoryInv, Tables
  <2> HIDE DEF totals, interval
  <2>2. row.at \in Clock
    BY <1>1 DEF HistoryInv, Tables, Logged
  <2>3. row.at \in Int
    <3>1. \A x \in Clock : x \in Int
      BY ConstantFacts
    <3> QED
      BY <2>2, <3>1, Zenon
  <2>4. row \in In(query_logs, b, interval)
    BY <2>1, <2>3, BucketFacts, Zenon DEF In
  <2>5. Agree(totals, interval, query_logs, cutoff, b)
    BY <2>1, <2>2, Zenon DEF AllAgree
  <2> HIDE DEF b
  <2>6. b \in DOMAIN totals
    BY <2>4, <2>5, Zenon DEF Agree
  <2>7. RowsIn(b, interval) = In(query_logs, b, interval)
        /\ {x \in RowsIn(b, interval) : x.blocked} = BlockedIn(query_logs, b, interval)
    BY DEF RowsIn, In, BlockedIn
  <2>8. totals[b] = [total |-> totals[b].total, blocked |-> totals[b].blocked]
    BY <2>5, <2>6, Zenon DEF Agree, Totals
  <2> QED
    BY <2>5, <2>6, <2>7, <2>8, Zenon DEF Agree, b, totals, interval
<1> QED
  BY <1>1, HistoryInvariant, PTL

\* A page shows a row with its own addresses, or with none.
THEOREM AddressesAreOwnAlways == Spec => []AddressesAreOwn
<1>1. ASSUME HistoryInv PROVE AddressesAreOwn
  <2> SUFFICES ASSUME NEW r \in Requests, NEW i \in DOMAIN page[r].rows
               PROVE  {a \in Addresses : <<page[r].rows[i].id, a>> \in page[r].ips}
                        \in {{}, answers[page[r].rows[i].number]}
    BY Zenon DEF AddressesAreOwn
  <2>1. Shown(page[r], sequence, answers)
    BY <1>1, Zenon DEF HistoryInv, Served
  <2> QED
    BY <2>1, Zenon DEF Shown, Own
<1> QED
  BY <1>1, HistoryInvariant, PTL

\* No more threads read the database than there are permits.
THEOREM ReadsLimitedAlways == Spec => []ReadsLimited
<1>1. HistoryInv => ReadsLimited
  BY DEF HistoryInv, Limited, ReadsLimited
<1> QED
  BY <1>1, HistoryInvariant, PTL

\* The status of a request says what happened to it.
THEOREM StatusIsHonestAlways == Spec => []StatusIsHonest
<1>1. HistoryInv => StatusIsHonest
  BY Zenon DEF HistoryInv, Served, Fits, StatusIsHonest
<1> QED
  BY <1>1, HistoryInvariant, PTL
-----------------------------------------------------------------------------
(* The trend                                                               *)

\* The buckets from the one of s to the one of t: each moment between s and t
\* is in exactly one.
LEMMA Covered ==
  ASSUME NEW d \in Nat \ {0}, NEW s \in Int, NEW t \in Int, NEW x \in s..t
  PROVE  LET first == s \div d
             last == t \div d
         IN  Cardinality({i \in 1..(last - first + 1) :
               x \in (d * (first + i - 1))..(d * (first + i - 1) + d - 1)}) = 1
<1> DEFINE first == s \div d
           last == t \div d
           q == x \div d
           hit == {i \in 1..(last - first + 1) :
                     x \in (d * (first + i - 1))..(d * (first + i - 1) + d - 1)}
<1>1. first \in Int /\ last \in Int /\ q \in Int /\ d * q <= x /\ x < d * q + d
      /\ d * first <= s
  BY DivFacts
<1>2. first <= q
  <2>1. d * first <= x
    BY <1>1
  <2> QED
    BY <1>1, <2>1, DivFacts, SMTT(40)
<1>3. q <= last
  <2>1. d * q <= t
    BY <1>1
  <2> QED
    BY <1>1, <2>1, DivFacts, SMTT(40)
<1>4. ASSUME NEW k \in Int PROVE x \in (d * k)..(d * k + d - 1) <=> k = q
  <2>1. d * k \in Int /\ x \in Int
    OBVIOUS
  <2>2. ASSUME x \in (d * k)..(d * k + d - 1) PROVE k = q
    <3>1. d * k <= x /\ x < d * k + d
      BY <2>1, <2>2
    <3> QED
      BY <2>1, <3>1, DivUnique, SMTT(40)
  <2>3. x \in (d * q)..(d * q + d - 1)
    BY <1>1
  <2> QED
    BY <2>2, <2>3
<1> HIDE DEF first, last, q
<1>5. hit = {q - first + 1}
  <2>1. q - first + 1 \in 1..(last - first + 1)
    BY <1>1, <1>2, <1>3, SMTT(40)
  <2>2. ASSUME NEW i \in 1..(last - first + 1)
        PROVE  x \in (d * (first + i - 1))..(d * (first + i - 1) + d - 1) <=> i = q - first + 1
    <3>1. first + i - 1 \in Int
      BY <1>1
    <3>2. x \in (d * (first + i - 1))..(d * (first + i - 1) + d - 1) <=> first + i - 1 = q
      BY <1>4, <3>1
    <3> QED
      BY <1>1, <3>2
  <2> QED
    BY <2>1, <2>2
<1>6. Cardinality(hit) = 1
  BY <1>5, FS_Singleton, Zenon
<1> QED
  BY <1>6 DEF first, last

Span == DAY * (IF retention_days = 0 THEN TREND_DAYS - 1 ELSE retention_days)

\* trend goes from the bucket of the window's first moment to that of its last,
\* whether the window is of retention_days or, if nothing is forgotten, of the
\* last TREND_DAYS.
LEMMA TrendFacts ==
  ASSUME retention_days \in Nat, NEW t \in Clock
  PROVE  \E d \in Nat \ {0} :
           /\ DOMAIN trend(t) = 1..(t \div d - (t - Span) \div d + 1)
           /\ \A i \in DOMAIN trend(t) :
                /\ trend(t)[i].bucket = d * ((t - Span) \div d + i - 1)
                /\ trend(t)[i].length = d
<1> DEFINE hours == retention_days \in 1..HOURLY_DAYS
           d == IF hours THEN HOUR ELSE DAY
           totals == IF hours THEN hourly ELSE daily
           end == bucket_start(t, d)
           start == IF retention_days = 0 THEN end - (TREND_DAYS - 1) * DAY
                    ELSE bucket_start(t - DAY * retention_days, d)
           first == (t - Span) \div d
           last == t \div d
<1>1. d \in Nat \ {0} /\ t \in Int /\ Span \in Int
  <2>1. d \in Nat \ {0} /\ t \in Int
    BY ConstantFacts
  <2>2. Span \in Int
    BY ConstantFacts DEF Span
  <2> QED
    BY <2>1, <2>2
<1>2. trend(t) = [i \in 1..((end - start) \div d + 1) |->
                    [bucket |-> start + (i - 1) * d, length |-> d,
                     total |-> IF start + (i - 1) * d \in DOMAIN totals
                               THEN totals[start + (i - 1) * d].total ELSE 0,
                     blocked |-> IF start + (i - 1) * d \in DOMAIN totals
                                 THEN totals[start + (i - 1) * d].blocked ELSE 0]]
  BY Zenon DEF trend
<1>3. last \in Int /\ end = d * last
  <2> HIDE DEF d
  <2> QED
    BY <1>1, DivFacts DEF bucket_start
<1>4. first \in Int /\ start = d * first
  <2>1. CASE retention_days # 0
    <3>1. Span = DAY * retention_days
      BY <2>1 DEF Span
    <3> HIDE DEF d
    <3>2. first \in Int
      BY <1>1, DivFacts
    <3>3. start = first * d
      BY <2>1, <3>1 DEF bucket_start
    <3> HIDE DEF first, start
    <3> QED
      BY <1>1, <3>2, <3>3, SMTT(40)
  <2>2. CASE retention_days = 0
    <3>1. Span = DAY * (TREND_DAYS - 1) /\ d = DAY
      BY <2>2, ConstantFacts DEF Span
    <3> DEFINE k == TREND_DAYS - 1
    <3>2. k \in Int /\ DAY \in Nat \ {0}
      BY ConstantFacts
    <3> HIDE DEF k, d, last, end
    <3>3. last \in Int /\ DAY * last <= t /\ t < DAY * last + DAY
      BY <1>1, <3>1, DivFacts DEF last
    <3>4. DAY * (last - k) = DAY * last - DAY * k /\ DAY * k \in Int
      BY <3>2, <3>3
    <3>5. /\ last - k \in Int /\ t - DAY * k \in Int
          /\ DAY * (last - k) <= t - DAY * k /\ t - DAY * k < DAY * (last - k) + DAY
      BY <1>1, <3>2, <3>3, <3>4
    <3>6. (t - DAY * k) \div DAY = last - k
      BY <3>2, <3>5, DivUnique
    <3>7. first = last - k
      BY <3>1, <3>6 DEF k
    <3>8. start = DAY * last - k * DAY
      BY <1>3, <2>2, <3>1, SMTT(40) DEF k
    <3> HIDE DEF first, start
    <3> QED
      BY <3>1, <3>2, <3>3, <3>4, <3>5, <3>7, <3>8, SMTT(30)
  <2> QED
    BY <2>1, <2>2, Zenon
<1> HIDE DEF d, totals, end, start, first, last
<1>5. (end - start) \div d = last - first
  <2>1. end - start = d * (last - first) /\ d * (last - first) \in Int /\ last - first \in Int
    BY <1>1, <1>3, <1>4, SMTT(40)
  <2>2. d * (last - first) < d * (last - first) + d
    BY <1>1, <2>1
  <2> QED
    BY <1>1, <2>1, <2>2, DivUnique
<1>6. DOMAIN trend(t) = 1..(last - first + 1)
  BY <1>2, <1>5, Zenon
<1>7. ASSUME NEW i \in DOMAIN trend(t)
      PROVE  trend(t)[i].bucket = d * (first + i - 1) /\ trend(t)[i].length = d
  <2>1. trend(t)[i].bucket = start + (i - 1) * d /\ trend(t)[i].length = d
    BY <1>2, <1>5, <1>6, SMTT(40)
  <2>2. i \in Int
    BY <1>3, <1>4, <1>6
  <2>3. start + (i - 1) * d = d * (first + i - 1)
    BY <1>1, <1>4, <2>2
  <2> QED
    BY <2>1, <2>3, Zenon
<1> QED
  BY <1>1, <1>6, <1>7, SMTT(30) DEF first, last

\* The trend shows every moment of the window once, and no bucket outside it
\* (trend_with_deadline), whatever HOUR, DAY and the retention are.
THEOREM TrendCoversWindowAlways == Spec => []TrendCoversWindow
<1>1. ASSUME HistoryInv PROVE TrendCoversWindow
  <2> SUFFICES ASSUME NEW t \in Clock
               PROVE  /\ \A x \in (t - Span)..t :
                           Cardinality({i \in DOMAIN trend(t) :
                             x \in trend(t)[i].bucket
                                    ..(trend(t)[i].bucket + trend(t)[i].length - 1)}) = 1
                      /\ \A i \in DOMAIN trend(t) :
                           /\ trend(t)[i].bucket <= t
                           /\ trend(t)[i].bucket + trend(t)[i].length > t - Span
    BY Zenon DEF TrendCoversWindow, Span
  <2>1. retention_days \in Nat /\ t \in Int
    BY <1>1, ConstantFacts DEF HistoryInv, Tables
  <2>2. Span \in Nat
    BY <2>1, ConstantFacts, SMTT(40) DEF Span
  <2>3. PICK d \in Nat \ {0} :
          /\ DOMAIN trend(t) = 1..(t \div d - (t - Span) \div d + 1)
          /\ \A i \in DOMAIN trend(t) :
               /\ trend(t)[i].bucket = d * ((t - Span) \div d + i - 1)
               /\ trend(t)[i].length = d
    BY <2>1, TrendFacts
  <2> DEFINE first == (t - Span) \div d
             last == t \div d
  <2>4. t - Span \in Int
    BY <2>1, <2>2
  <2>5. /\ first \in Int /\ d * first <= t - Span /\ t - Span < d * first + d
        /\ last \in Int /\ d * last <= t
    BY <2>1, <2>4, DivFacts, SMTT(30)
  <2>6. ASSUME NEW x \in (t - Span)..t
        PROVE  Cardinality({i \in DOMAIN trend(t) :
                 x \in trend(t)[i].bucket..(trend(t)[i].bucket + trend(t)[i].length - 1)}) = 1
    <3>1. {i \in DOMAIN trend(t) :
             x \in trend(t)[i].bucket..(trend(t)[i].bucket + trend(t)[i].length - 1)}
          = {i \in 1..(last - first + 1) :
               x \in (d * (first + i - 1))..(d * (first + i - 1) + d - 1)}
      BY <2>3
    <3>2. Cardinality({i \in 1..(last - first + 1) :
            x \in (d * (first + i - 1))..(d * (first + i - 1) + d - 1)}) = 1
      BY <2>1, <2>4, Covered, Zenon
    <3> QED
      BY <3>1, <3>2, Zenon
  <2>7. ASSUME NEW i \in DOMAIN trend(t)
        PROVE  /\ trend(t)[i].bucket <= t
               /\ trend(t)[i].bucket + trend(t)[i].length > t - Span
    <3> DEFINE k == first + i - 1
    <3>1. i \in 1..(last - first + 1)
      BY <2>3
    <3> HIDE DEF first, last
    <3>2. k \in Int /\ first <= k /\ k <= last
      BY <2>5, <3>1, SMTT(40)
    <3>3. trend(t)[i].bucket = d * k /\ trend(t)[i].length = d
      BY <2>3 DEF first
    <3> HIDE DEF k
    <3>4. d * first <= d * k /\ d * k <= d * last
      BY <2>5, <3>2
    <3> QED
      BY <2>1, <2>4, <2>5, <3>2, <3>3, <3>4, SMTT(30)
  <2> QED
    BY <2>6, <2>7, Zenon
<1> QED
  BY <1>1, HistoryInvariant, PTL
-----------------------------------------------------------------------------
(* The store from its file to its readers                                  *)

\* A store is not written or read before it is open: what it does is what
\* History allows, or nothing.
THEOREM StoreRunsHistory == StoreSpec => Spec
<1>1. StoreInit => Init
  BY DEF StoreInit
<1>2. [StoreNext]_storeVars => [Next]_vars
  BY DEF StoreNext, HandOver, storeVars
<1> QED
  BY <1>1, <1>2, PTL DEF StoreSpec, Spec

\* The store that is in use keeps what opening it has established, and the
\* threads and processes that open it together keep it meanwhile (Store::open).
THEOREM StoreKeepsSchema == StoreSpec => []SchemaInv
<1>1. StoreInit => SchemaInv
  BY SchemaInitial DEF StoreInit
<1>2. SchemaInv /\ [StoreNext]_storeVars => SchemaInv'
  <2> SUFFICES ASSUME SchemaInv, [StoreNext]_storeVars PROVE SchemaInv'
    OBVIOUS
  <2>1. CASE [SchemaNext]_schemaVars
    BY <2>1, SchemaInductive
  <2>2. CASE HandOver
    <3>1. PICK o \in Openers : opener[o] = "ok"
      BY <2>2 DEF HandOver
    <3>2. file.version = SCHEMA_VERSION /\ file.parts = Required /\ Visible \subseteq file.parts
      BY <3>1, Zenon DEF SchemaInv, FileSurvives, Staged
    <3>3. /\ opener' = [x \in Openers |-> "ok"] /\ version' = [x \in Openers |-> 0]
          /\ file' = [file EXCEPT !.rows = {}] /\ found' = file' /\ transaction' = file'
          /\ maker' = NoProcess /\ restarts' = 0 /\ UNCHANGED <<writer, open_lock>>
          /\ \A x \in Openers : opener[x] \in Outcomes
      BY <2>2 DEF HandOver
    <3>4. file' \in File /\ file'.version = file.version /\ file'.parts = file.parts
      BY <3>3 DEF SchemaInv, SchemaTypeOK, File
    <3>5. SchemaTypeOK'
      BY <3>3, <3>4 DEF SchemaInv, SchemaTypeOK, Outcomes
    <3>6. Locked'
      BY <3>3 DEF SchemaInv, Locked, Outcomes, Working
    <3>7. Staged'
      BY <3>2, <3>3, <3>4 DEF Staged
    <3>8. Past'
      BY <3>2, <3>3, <3>4 DEF Past, SCHEMA_VERSION
    <3>9. FileSurvives' /\ RefusedForCause'
      BY <3>2, <3>3, <3>4 DEF FileSurvives, RefusedForCause
    <3> QED
      BY <3>5, <3>6, <3>7, <3>8, <3>9 DEF SchemaInv
  <2> QED
    BY <2>1, <2>2 DEF StoreNext, storeVars
<1> QED
  BY <1>1, <1>2, PTL DEF StoreSpec

\* The properties of the whole store, of its file and of its readers.
THEOREM StoreCorrect ==
  StoreSpec => [](/\ FileSurvives /\ RefusedForCause /\ TotalsMatchDetails
                  /\ TrendCoversWindow /\ AddressesAreOwn /\ ReadsLimited /\ StatusIsHonest)
<1>1. SchemaInv => FileSurvives /\ RefusedForCause
  BY DEF SchemaInv
<1> QED
  BY <1>1, StoreRunsHistory, StoreKeepsSchema, TotalsMatchDetailsAlways, TrendCoversWindowAlways,
     AddressesAreOwnAlways, ReadsLimitedAlways, StatusIsHonestAlways, PTL
=============================================================================
