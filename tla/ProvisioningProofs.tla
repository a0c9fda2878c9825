--------------------------- MODULE ProvisioningProofs ---------------------------
(***************************************************************************)
(* Theorems about Provisioning, for any number of processes and any set of *)
(* table names.                                                            *)
(***************************************************************************)
EXTENDS Provisioning, TLAPS

-------------------------------------------------------------------------------
\* The inductive invariant.

SchemaRequest == {req \in Request : req.target \in {"prisma", "schema"}}

(* Where a process may be: it only ever writes a file that it read to be    *)
(* without a model.                                                         *)
Writing(req) == [stage |-> "writing", read |-> << >>, req |-> req]

State ==
  {Idle, [stage |-> "creating"], [stage |-> "migrating"]}
    \cup {Writing(req) : req \in SchemaRequest}
    \cup {Exited(command, code) : command \in {"setup", "create"}, code \in {0, 1}}

(* Every model and every table is the one that a request asks for, and no   *)
(* two tables have one name.                                                *)
Provisioned ==
  /\ slot \in BOOLEAN
  /\ process \in [Process -> State]
  /\ schema = << >> \/ \E req \in SchemaRequest : schema = << ModelFor(req) >>
  /\ \A t \in database : \E req \in Request : t = TableFor(req)
  /\ \A t, u \in database : t.name = u.name => t = u

LEMMA StateType ==
  /\ Idle \in State /\ [stage |-> "creating"] \in State /\ [stage |-> "migrating"] \in State
  /\ \A req \in SchemaRequest : Writing(req) \in State /\ AfterSchema(req) \in State
  /\ \A command \in {"setup", "create"}, code \in {0, 1} : Exited(command, code) \in State
<1>1. \A command \in {"setup", "create"}, code \in {0, 1} : Exited(command, code) \in State
  BY DEF State
<1>2. [stage |-> "migrating"] \in State
  BY DEF State
<1>3. \A req \in SchemaRequest : Writing(req) \in State
  BY DEF State
<1>4. \A req \in SchemaRequest : AfterSchema(req) \in State
  BY <1>1, <1>2 DEF AfterSchema
<1>5. Idle \in State /\ [stage |-> "creating"] \in State
  BY DEF State
<1> QED
  BY <1>1, <1>2, <1>3, <1>4, <1>5

(* What the stage of a process says of it.                                  *)
LEMMA StateOf ==
  ASSUME NEW s \in State
  PROVE  /\ s.stage \in {"idle", "creating", "writing", "migrating", "exited"}
         /\ s.stage = "writing" => \E req \in SchemaRequest : s.read = << >> /\ s.req = req
<1>1. CASE s \in {Idle, [stage |-> "creating"], [stage |-> "migrating"]}
  BY <1>1 DEF Idle
<1>2. ASSUME NEW req \in SchemaRequest, s = Writing(req)
      PROVE  s.stage = "writing" /\ s.read = << >> /\ s.req = req
  BY <1>2 DEF Writing
<1>3. ASSUME NEW command, NEW code, s = Exited(command, code)
      PROVE  s.stage = "exited"
  BY <1>3 DEF Exited
<1> QED
  BY <1>1, <1>2, <1>3 DEF State

LEMMA ModelIsTable ==
  ASSUME NEW req \in SchemaRequest
  PROVE  TableFor(req) = ModelFor(req) /\ req \in Request
BY DEF SchemaRequest, TableFor

LEMMA MadeFor ==
  ASSUME NEW req
  PROVE  TableFor(req).for = req /\ ModelFor(req).for = req
BY DEF TableFor, ModelFor, Made

LEMMA NewTablesProvisioned ==
  ASSUME Provisioned, NEW tables, \A t \in tables : \E req \in Request : t = TableFor(req),
         \A t, u \in tables : t = u, database' = database \cup NewTables(tables)
  PROVE  /\ \A t \in database' : \E req \in Request : t = TableFor(req)
         /\ \A t, u \in database' : t.name = u.name => t = u
BY DEF Provisioned, NewTables

LEMMA SchemaMigrates ==
  ASSUME Provisioned, MigratesSchema
  PROVE  /\ \A t \in database' : \E req \in Request : t = TableFor(req)
         /\ \A t, u \in database' : t.name = u.name => t = u
<1> DEFINE tables == {schema[i] : i \in DOMAIN schema}
<1>1. CASE schema = << >>
  <2>1. tables = {}
    BY <1>1
  <2> QED
    BY <2>1, NewTablesProvisioned DEF MigratesSchema
<1>2. ASSUME NEW req \in SchemaRequest, schema = << ModelFor(req) >>
      PROVE  /\ \A t \in database' : \E r \in Request : t = TableFor(r)
             /\ \A t, u \in database' : t.name = u.name => t = u
  <2>1. DOMAIN schema = {1} /\ schema[1] = ModelFor(req)
    BY <1>2
  <2>2. tables = {TableFor(req)}
    BY <2>1, ModelIsTable
  <2> QED
    BY <2>2, ModelIsTable, NewTablesProvisioned DEF MigratesSchema
<1> QED
  BY <1>1, <1>2 DEF Provisioned

LEMMA NextProvisioned ==
  ASSUME Provisioned, [Next]_vars
  PROVE  Provisioned'
<1>1. \A p \in Process, state \in State : Becomes(p, state) => process' \in [Process -> State]
  BY DEF Becomes, Provisioned
<1>2. CASE UNCHANGED vars
  BY <1>2 DEF vars, Provisioned
<1>3. ASSUME NEW p \in Process, SetupLooksUp(p)
      PROVE  Provisioned'
  <2>1. process' \in [Process -> State]
    BY <1>1, <1>3, StateType DEF SetupLooksUp
  <2> QED
    BY <1>3, <2>1 DEF SetupLooksUp, Provisioned
<1>4. ASSUME NEW p \in Process, SetupCreates(p)
      PROVE  Provisioned'
  <2>1. process' \in [Process -> State]
    BY <1>1, <1>4, StateType DEF SetupCreates
  <2> QED
    BY <1>4, <2>1 DEF SetupCreates, Provisioned
<1>5. ASSUME NEW p \in Process, SetupErrs(p)
      PROVE  Provisioned'
  <2>1. process' \in [Process -> State]
    BY <1>1, <1>5, StateType DEF SetupErrs
  <2> QED
    BY <1>5, <2>1 DEF SetupErrs, Provisioned
<1>6. ASSUME NEW p \in Process, NEW req \in Request, SchemaReads(p, req)
      PROVE  Provisioned'
  <2>1. req \in SchemaRequest
    BY <1>6 DEF SchemaReads, SchemaRequest
  <2>2. schema = << >> => [stage |-> "writing", read |-> schema, req |-> req] = Writing(req)
    BY DEF Writing
  <2>3. process' \in [Process -> State]
    BY <1>1, <1>6, <2>1, <2>2, StateType DEF SchemaReads
  <2> QED
    BY <1>6, <2>3 DEF SchemaReads, Provisioned
<1>7. ASSUME NEW p \in Process, SchemaWrites(p)
      PROVE  Provisioned'
  <2>1. process[p] \in State /\ process[p].stage = "writing"
    BY <1>7 DEF SchemaWrites, Provisioned
  <2>2. PICK req \in SchemaRequest : process[p].read = << >> /\ process[p].req = req
    BY <2>1, StateOf
  <2>3. schema' = << ModelFor(req) >>
    BY <1>7, <2>2 DEF SchemaWrites
  <2>4. process' \in [Process -> State]
    BY <1>1, <1>7, <2>2, StateType DEF SchemaWrites
  <2> QED
    BY <1>7, <2>3, <2>4 DEF SchemaWrites, Provisioned
<1>8. ASSUME NEW p \in Process, PrismaMigrates(p)
      PROVE  Provisioned'
  <2>1. process' \in [Process -> State]
    BY <1>1, <1>8, StateType DEF PrismaMigrates
  <2> QED
    BY <1>8, <2>1, SchemaMigrates DEF PrismaMigrates, Provisioned
<1>9. ASSUME NEW p \in Process, PrismaMigrateErrs(p)
      PROVE  Provisioned'
  <2>1. process' \in [Process -> State]
    BY <1>1, <1>9, StateType DEF PrismaMigrateErrs
  <2> QED
    BY <1>9, <2>1 DEF PrismaMigrateErrs, Provisioned
<1>10. ASSUME NEW p \in Process, NEW req \in Request, MigrationRuns(p, req)
       PROVE  Provisioned'
  <2>1. process' \in [Process -> State]
    BY <1>1, <1>10, StateType DEF MigrationRuns
  <2>2. /\ \A t \in database' : \E r \in Request : t = TableFor(r)
        /\ \A t, u \in database' : t.name = u.name => t = u
    <3> DEFINE tables == {TableFor(req)}
    <3>1. database' = database \cup NewTables(tables)
      BY <1>10 DEF MigrationRuns
    <3>2. (\A t \in tables : \E r \in Request : t = TableFor(r)) /\ (\A t, u \in tables : t = u)
      OBVIOUS
    <3> HIDE DEF tables
    <3> QED
      BY <3>1, <3>2, NewTablesProvisioned
  <2> QED
    BY <1>10, <2>1, <2>2 DEF MigrationRuns, Provisioned
<1>11. CASE DeveloperMigrates
  BY <1>11, SchemaMigrates DEF DeveloperMigrates, Provisioned
<1> QED
  BY <1>2, <1>3, <1>4, <1>5, <1>6, <1>7, <1>8, <1>9, <1>10, <1>11 DEF Next

LEMMA ProvisionedInvariant == Spec => []Provisioned
<1>1. Init => Provisioned
  BY StateType DEF Init, Provisioned
<1>2. Provisioned /\ [Next]_vars => Provisioned'
  BY NextProvisioned
<1> QED
  BY <1>1, <1>2, PTL DEF Spec

(* The models and tables are those of requests, and no two tables have one  *)
(* name, whichever commands made them.                                      *)
THEOREM ProvisioningTypeCorrect == Spec => []TypeOK
<1>1. Provisioned => TypeOK
  <2> SUFFICES ASSUME Provisioned PROVE TypeOK
    OBVIOUS
  <2>1. \A i \in DOMAIN schema : schema[i].for \in Request
    <3>1. CASE schema = << >>
      BY <3>1
    <3>2. ASSUME NEW req \in SchemaRequest, schema = << ModelFor(req) >>
          PROVE  \A i \in DOMAIN schema : schema[i].for \in Request
      <4>1. DOMAIN schema = {1} /\ schema[1] = ModelFor(req)
        BY <3>2
      <4> QED
        BY <4>1, ModelIsTable, MadeFor
    <3> QED
      BY <3>1, <3>2 DEF Provisioned
  <2>2. \A t \in database : t.for \in Request
    BY MadeFor DEF Provisioned
  <2>3. \A p \in Process :
          process[p].stage \in {"idle", "creating", "writing", "migrating", "exited"}
    BY StateOf DEF Provisioned
  <2> QED
    BY <2>1, <2>2, <2>3 DEF Provisioned, TypeOK
<1> QED
  BY <1>1, ProvisionedInvariant, PTL

(* However many processes find no model at once, schema.prisma never has    *)
(* two.                                                                     *)
THEOREM OneModelCorrect == Spec => []OneModel
<1>1. \A model : Len(<< model >>) <= 1
  OBVIOUS
<1>2. Len(<< >>) <= 1
  OBVIOUS
<1>3. Provisioned => Len(schema) <= 1
  BY <1>1, <1>2 DEF Provisioned
<1>4. Provisioned => OneModel
  BY <1>3 DEF OneModel
<1> QED
  BY <1>4, ProvisionedInvariant, PTL

(* A setup that exits with 0 leaves a slot: the lookup of each is followed  *)
(* by its own creation, or found a slot that nothing drops.                 *)
THEOREM SetupProvides == Spec => []SetupProvidesSlot
<1>1. Init => SetupProvidesSlot
  <2>1. Idle.stage # "exited"
    BY DEF Idle
  <2> QED
    BY <2>1 DEF Init, SetupProvidesSlot
<1>2. Provisioned /\ SetupProvidesSlot /\ [Next]_vars => SetupProvidesSlot'
  <2> SUFFICES ASSUME Provisioned, SetupProvidesSlot, [Next]_vars,
                      NEW q \in Process, process'[q].stage = "exited",
                      process'[q].command = "setup", process'[q].code = 0
               PROVE  slot'
    BY DEF SetupProvidesSlot
  <2>1. slot => slot'
    BY DEF Next, vars, SetupLooksUp, SetupCreates, SetupErrs, SchemaReads, SchemaWrites,
           PrismaMigrates, PrismaMigrateErrs, MigrationRuns, DeveloperMigrates
  <2>2. CASE process'[q] = process[q]
    BY <2>1, <2>2 DEF SetupProvidesSlot
  <2>3. \A p \in Process : \A state : Becomes(p, state) =>
          process'[q] = process[q] \/ (q = p /\ process'[q] = state)
    BY DEF Becomes, Provisioned
  <2>4. CASE SetupLooksUp(q) \/ SetupCreates(q)
    <3> DEFINE creating == [stage |-> "creating"]
    <3>1. creating.stage # "exited"
      OBVIOUS
    <3> HIDE DEF creating
    <3>2. CASE SetupLooksUp(q) /\ ~slot
      <4>1. process'[q] = process[q] \/ process'[q] = creating
        BY <2>3, <3>2 DEF SetupLooksUp, creating
      <4> QED
        BY <2>1, <2>2, <3>1, <4>1
    <3> QED
      BY <2>1, <2>4, <3>2 DEF SetupCreates
  <2>5. process'[q] = process[q] \/ SetupLooksUp(q) \/ SetupCreates(q)
    <3>1. \A command, code : Exited(command, code).command = command
                             /\ Exited(command, code).code = code
      BY DEF Exited
    <3>2. ASSUME NEW p \in Process,
                 \/ SetupLooksUp(p) \/ SetupCreates(p) \/ SetupErrs(p)
                 \/ PrismaMigrates(p) \/ PrismaMigrateErrs(p)
          PROVE  process'[q] = process[q] \/ SetupLooksUp(q) \/ SetupCreates(q)
      BY <2>3, <3>1, <3>2 DEF SetupErrs, PrismaMigrates, PrismaMigrateErrs, SetupLooksUp,
                              SetupCreates
    <3>3. \A req : AfterSchema(req).stage = "exited" => AfterSchema(req).command # "setup"
      BY DEF AfterSchema, Exited
    <3>4. ASSUME NEW p \in Process, SchemaWrites(p)
          PROVE  process'[q] = process[q]
      BY <2>3, <3>3, <3>4 DEF SchemaWrites
    <3>5. ASSUME NEW p \in Process, NEW req \in Request, SchemaReads(p, req)
          PROVE  process'[q] = process[q]
      BY <2>3, <3>3, <3>5 DEF SchemaReads
    <3>6. ASSUME NEW p \in Process, NEW req \in Request, MigrationRuns(p, req)
          PROVE  process'[q] = process[q]
      BY <2>3, <3>1, <3>6 DEF MigrationRuns
    <3>7. DeveloperMigrates \/ UNCHANGED vars => process'[q] = process[q]
      BY DEF DeveloperMigrates, vars
    <3> QED
      BY <3>2, <3>4, <3>5, <3>6, <3>7 DEF Next
  <2> QED
    BY <2>2, <2>4, <2>5
<1> QED
  BY <1>1, <1>2, ProvisionedInvariant, PTL DEF Spec

-------------------------------------------------------------------------------
\* Names.

(* A name in lower case is left as it is.                                    *)
LEMMA LowerLower ==
  ASSUME NEW stems, NEW part \in Seq(Words(stems))
  PROVE  Lower(Lower(part)) = Lower(part)
<1>1. \A i \in DOMAIN part : part[i] \in Words(stems)
  OBVIOUS
<1>2. \A word \in Words(stems) :
        [[word EXCEPT !.capital = FALSE] EXCEPT !.capital = FALSE] = [word EXCEPT !.capital = FALSE]
  BY DEF Words
<1>3. /\ DOMAIN Lower(part) = DOMAIN part
      /\ \A i \in DOMAIN part : Lower(part)[i] = [part[i] EXCEPT !.capital = FALSE]
  BY DEF Lower
<1>4. \A i \in DOMAIN part : [Lower(part)[i] EXCEPT !.capital = FALSE]
                                = [part[i] EXCEPT !.capital = FALSE]
  BY <1>1, <1>2, <1>3
<1> QED
  BY <1>3, <1>4 DEF Lower

LEMMA FoldFold ==
  ASSUME NEW stems, NEW name \in Names(stems)
  PROVE  Fold(Fold(name)) = Fold(name)
<1>1. \A i \in DOMAIN name : name[i] \in Seq(Words(stems))
  BY DEF Names
<1>2. /\ DOMAIN Fold(name) = DOMAIN name
      /\ \A i \in DOMAIN name : Fold(name)[i] = Lower(name[i])
  BY DEF Fold
<1>3. \A i \in DOMAIN name : Lower(Fold(name)[i]) = Lower(name[i])
  BY <1>1, <1>2, LowerLower
<1> QED
  BY <1>2, <1>3 DEF Fold

(* A word in lower case, and a name of one such word, are left as they are. *)
LEMMA WordFolds ==
  ASSUME NEW stem
  PROVE  Fold(<< <<Word(stem)>> >>) = << <<Word(stem)>> >>
<1> DEFINE stems == {stem}
<1>1. Word(stem) \in Words(stems) /\ [Word(stem) EXCEPT !.capital = FALSE] = Word(stem)
  <2>1. Word(stem) \in Words(stems) /\ Word(stem).capital = FALSE
    BY DEF Word, Words
  <2>2. \A word \in Words(stems) : word.capital = FALSE => [word EXCEPT !.capital = FALSE] = word
    BY DEF Words
  <2> QED
    BY <2>1, <2>2
<1> DEFINE part == <<Word(stem)>>
<1>2. part \in Seq(Words(stems)) /\ DOMAIN part = {1} /\ part[1] = Word(stem)
  BY <1>1
<1>3. part = [i \in DOMAIN part |-> part[i]]
  BY <1>2
<1>4. Lower(part) = part
  BY <1>1, <1>2, <1>3 DEF Lower
<1> HIDE DEF part
<1> DEFINE name == <<part>>
<1>5. name \in Seq(Seq(Words(stems))) /\ DOMAIN name = {1} /\ name[1] = part
  BY <1>2
<1>6. name = [i \in DOMAIN name |-> name[i]]
  BY <1>5
<1>7. Fold(name) = name
  BY <1>4, <1>5, <1>6 DEF Fold
<1> QED
  BY <1>7 DEF part

(* In snake_case a name is asked for as PostgreSQL would fold it, so that   *)
(* folding it, which the unquoted commands and queries do, changes nothing. *)
LEMMA SnakeCaseFolds ==
  ASSUME NEW name
  PROVE  applyNamingToTableName(name, "snake_case") = Fold(name)
BY DEF applyNamingToTableName, Fold

LEMMA SnakeCaseColumns ==
  ASSUME NEW c \in Columns("snake_case")
  PROVE  Fold(c) = c
<1> DEFINE id == << <<Word("id")>> >>
           stems == {"aggregate", "id"}
           aggregateId == << <<Word("aggregate")>>, <<Word("id")>> >>
<1>1. aggregateId \in Names(stems)
  <2>1. Word("aggregate") \in Words(stems) /\ Word("id") \in Words(stems)
    BY DEF Word, Words
  <2>2. <<Word("aggregate")>> \in Seq(Words(stems)) /\ <<Word("id")>> \in Seq(Words(stems))
    BY <2>1
  <2> QED
    BY <2>2 DEF Names
<1>2. Fold(id) = id
  BY WordFolds
<1> HIDE DEF id
<1>3. c = id \/ c = Fold(aggregateId)
  BY SnakeCaseFolds DEF Columns, getColumnNames, Key, id
<1> QED
  BY <1>1, <1>2, <1>3, FoldFold

LEMMA SnakeCaseTable ==
  ASSUME NEW req \in Request, req.naming = "snake_case"
  PROVE  /\ TableFor(req).name = Fold(req.rawName)
         /\ TableFor(req).columns = Columns("snake_case")
<1>1. req.rawName \in Names(STRING)
  BY ProvisioningAssumption DEF ProvisioningAssumption, Request
<1>2. Definition("snake_case", req.rawName)
        = [name |-> Fold(req.rawName), columns |-> Columns("snake_case")]
  BY SnakeCaseFolds DEF Definition
<1>3. Folded(Definition("snake_case", req.rawName)) = Definition("snake_case", req.rawName)
  <2>1. {Fold(c) : c \in Columns("snake_case")} = Columns("snake_case")
    BY SnakeCaseColumns
  <2>2. Fold(Fold(req.rawName)) = Fold(req.rawName)
    BY <1>1, FoldFold
  <2> DEFINE def == Definition("snake_case", req.rawName)
  <2>3. def.name = Fold(req.rawName) /\ def.columns = Columns("snake_case")
    BY <1>2
  <2> HIDE DEF def
  <2>4. Folded(def) = [name |-> Fold(req.rawName), columns |-> Columns("snake_case")]
    BY <2>1, <2>2, <2>3 DEF Folded
  <2> QED
    BY <1>2, <2>4 DEF def
<1>4. \/ TableFor(req) = Made(SqlTable("snake_case", req.rawName), req)
      \/ TableFor(req) = Made(SequelizeTable("snake_case", req.rawName), req)
      \/ TableFor(req) = Made(PrismaModel("snake_case", req.rawName), req)
  BY DEF TableFor, ModelFor
<1>5. TableFor(req) = Made(Definition("snake_case", req.rawName), req)
  BY <1>3, <1>4 DEF SqlTable, SequelizeTable, PrismaModel
<1> QED
  BY <1>2, <1>5 DEF Made

(* In snake_case every command makes the table that the service, configured *)
(* with the same names, finds and reads: whatever the table is called.      *)
THEOREM SnakeCaseCorrect == Spec => []SnakeCaseWorks
<1>1. Provisioned => SnakeCaseWorks
  <2> SUFFICES ASSUME Provisioned, NEW t \in database, t.for.naming = "snake_case"
               PROVE  HandlesInserts(t, "snake_case", t.for.rawName)
    BY DEF SnakeCaseWorks
  <2>1. PICK req \in Request : t = TableFor(req)
    BY DEF Provisioned
  <2>2. t.for = req
    BY <2>1, MadeFor
  <2>3. t.name = Fold(req.rawName) /\ t.columns = Columns("snake_case")
    BY <2>1, <2>2, SnakeCaseTable
  <2>4. /\ Folded(Definition("snake_case", req.rawName)).name = Fold(req.rawName)
        /\ Folded(Definition("snake_case", req.rawName)).columns = Columns("snake_case")
    <3>1. req.rawName \in Names(STRING)
      BY ProvisioningAssumption DEF ProvisioningAssumption, Request
    <3>2. {Fold(c) : c \in Columns("snake_case")} = Columns("snake_case")
      BY SnakeCaseColumns
    <3> QED
      BY <3>1, <3>2, SnakeCaseFolds, FoldFold DEF Folded, Definition
  <2>5. QueriesFind(t, "snake_case", t.for.rawName)
    BY <2>2, <2>3, <2>4 DEF QueriesFind
  <2>6. SeesInserts(t, "snake_case", t.for.rawName)
    BY <2>2, <2>3, SnakeCaseFolds DEF SeesInserts
  <2>7. ReadsRecord("snake_case")
    BY SnakeCaseColumns DEF ReadsRecord
  <2> QED
    BY <2>5, <2>6, <2>7 DEF HandlesInserts
<1> QED
  BY <1>1, ProvisionedInvariant, PTL

(* A table made with the default names takes the client's INSERT.           *)
THEOREM DefaultsCorrect == Spec => []DefaultsServeClient
<1>1. Provisioned => DefaultsServeClient
  <2> SUFFICES ASSUME Provisioned, NEW t \in database, t.for.naming = "snake_case",
                      t.for.rawName = Outbox
               PROVE  AcceptsClient(t)
    BY DEF DefaultsServeClient
  <2>1. PICK req \in Request : t = TableFor(req)
    BY DEF Provisioned
  <2>2. t.for = req
    BY <2>1, MadeFor
  <2>3. t.name = Fold(Outbox) /\ t.columns = Columns("snake_case")
    BY <2>1, <2>2, SnakeCaseTable
  <2>4. Fold(Outbox) = Outbox
    BY WordFolds DEF Outbox
  <2> QED
    BY <2>3, <2>4 DEF AcceptsClient
<1> QED
  BY <1>1, ProvisionedInvariant, PTL

================================================================================
