------------------------------ MODULE Provisioning ------------------------------
(***************************************************************************)
(* The commands of the cli (packages/cli/src), run by several processes:   *)
(* setup replication creates the replication slot, create schema and create*)
(* migration bring the outbox table into a prisma schema, a migration and  *)
(* so into the database.  Each reads, awaits, and then writes by what it   *)
(* read.                                                                   *)
(***************************************************************************)
EXTENDS Naming

CONSTANTS
  Process,      \* processes of the cli, each running one command
  TableName     \* the values of --table-name

ASSUME ProvisioningAssumption == TableName \subseteq Names(STRING)

VARIABLES
  slot,         \* whether the replication slot exists
  schema,       \* the outbox models in schema.prisma, in order
  database,     \* the outbox tables, each with the command that made it
  process       \* the processes

vars == <<slot, schema, database, process>>

Request == [target : {"sql", "sequelize", "prisma", "schema"},
            naming : ColumnNaming, rawName : TableName]

\* A model or table with the request it was made for.
Made(def, req) == [name |-> def.name, columns |-> def.columns, for |-> req]

\* PrismaMigrationAdapter does not pass columnNaming on.
ModelFor(req) ==
  Made(PrismaModel(IF req.target = "prisma" THEN "snake_case" ELSE req.naming, req.rawName), req)

TableFor(req) ==
  IF req.target = "sql" THEN Made(SqlTable(req.naming, req.rawName), req)
  ELSE IF req.target = "sequelize" THEN Made(SequelizeTable(req.naming, req.rawName), req)
  ELSE ModelFor(req)

Idle == [stage |-> "idle"]

Exited(command, code) == [stage |-> "exited", command |-> command, code |-> code]

TypeOK ==
  /\ slot \in BOOLEAN
  /\ \A i \in DOMAIN schema : schema[i].for \in Request
  /\ \A t \in database : t.for \in Request
  /\ \A t, u \in database : t.name = u.name => t = u
  /\ \A p \in Process :
       process[p].stage \in {"idle", "creating", "writing", "migrating", "exited"}

Init ==
  /\ slot = FALSE
  /\ schema = << >>
  /\ database = {}
  /\ process = [p \in Process |-> Idle]

Becomes(p, state) == process' = [process EXCEPT ![p] = state]

-------------------------------------------------------------------------------
\* setup replication

\* Faulty (mutation runs): a slot that is missing is reported, not created.
SetupLooksUpOnly(p) ==
  /\ process[p] = Idle
  /\ Becomes(p, Exited("setup", 0))
  /\ UNCHANGED <<slot, schema, database>>

SetupLooksUp(p) ==
  /\ process[p] = Idle
  /\ Becomes(p, IF slot THEN Exited("setup", 0) ELSE [stage |-> "creating"])
  /\ UNCHANGED <<slot, schema, database>>

(* Another process may have created the slot since: an error.               *)
SetupCreates(p) ==
  /\ process[p].stage = "creating"
  /\ slot' = TRUE
  /\ Becomes(p, Exited("setup", IF slot THEN 1 ELSE 0))
  /\ UNCHANGED <<schema, database>>

SetupErrs(p) ==
  /\ process[p] = Idle \/ process[p].stage = "creating"
  /\ Becomes(p, Exited("setup", 1))
  /\ UNCHANGED <<slot, schema, database>>

-------------------------------------------------------------------------------
\* create schema, create migration --target prisma

\* generate() goes on with the migration, generateSchema() alone does not.
AfterSchema(req) ==
  IF req.target = "prisma" THEN [stage |-> "migrating"] ELSE Exited("create", 0)

(* The file is read.  A model of the name, which is the same for all, ends  *)
(* generateSchema.                                                          *)
SchemaReads(p, req) ==
  /\ process[p] = Idle
  /\ req.target \in {"prisma", "schema"}
  /\ Becomes(p, IF schema # << >> THEN AfterSchema(req)
                ELSE [stage |-> "writing", read |-> schema, req |-> req])
  /\ UNCHANGED <<slot, schema, database>>

\* Faulty (mutation runs): the model is appended to the file as it is now.
SchemaAppends(p) ==
  /\ process[p].stage = "writing"
  /\ schema' = Append(schema, ModelFor(process[p].req))
  /\ Becomes(p, AfterSchema(process[p].req))
  /\ UNCHANGED <<slot, database>>

(* The whole file is written: what was read, and the model.                 *)
SchemaWrites(p) ==
  /\ process[p].stage = "writing"
  /\ schema' = Append(process[p].read, ModelFor(process[p].req))
  /\ Becomes(p, AfterSchema(process[p].req))
  /\ UNCHANGED <<slot, database>>

\* Faulty (mutation runs): a table of the name is taken for another one.
NewTablesAll(tables) == tables

(* CREATE TABLE IF NOT EXISTS, which sql and sequelize ask for; where the    *)
(* name is taken prisma migrate dev reports a drift and creates nothing.    *)
NewTables(tables) == {t \in tables : \A u \in database : u.name # t.name}

(* prisma migrate dev creates the table of the model in the file.           *)
MigratesSchema == database' = database \cup NewTables({schema[i] : i \in DOMAIN schema})

PrismaMigrates(p) ==
  /\ process[p].stage = "migrating"
  /\ MigratesSchema
  /\ Becomes(p, Exited("create", 0))
  /\ UNCHANGED <<slot, schema>>

(* An error of prisma migrate dev is caught and logged.                     *)
PrismaMigrateErrs(p) ==
  /\ process[p].stage = "migrating"
  /\ Becomes(p, Exited("create", 0))
  /\ UNCHANGED <<slot, schema, database>>

(* After create schema the developer runs the migration.                    *)
DeveloperMigrates ==
  /\ schema # << >>
  /\ MigratesSchema
  /\ UNCHANGED <<slot, schema, process>>

-------------------------------------------------------------------------------
\* create migration --target sql | sequelize

(* The migration is written, and the developer runs it.                     *)
MigrationRuns(p, req) ==
  /\ process[p] = Idle
  /\ req.target \in {"sql", "sequelize"}
  /\ database' = database \cup NewTables({TableFor(req)})
  /\ Becomes(p, Exited("create", 0))
  /\ UNCHANGED <<slot, schema>>

-------------------------------------------------------------------------------
Next ==
  \/ \E p \in Process :
       \/ SetupLooksUp(p) \/ SetupCreates(p) \/ SetupErrs(p)
       \/ \E req \in Request : SchemaReads(p, req) \/ MigrationRuns(p, req)
       \/ SchemaWrites(p) \/ PrismaMigrates(p) \/ PrismaMigrateErrs(p)
  \/ DeveloperMigrates

Spec == Init /\ [][Next]_vars

-------------------------------------------------------------------------------
\* Properties.

(* A setup that reports success leaves a slot, however many run at once     *)
(* between the lookup and the creation.                                     *)
SetupProvidesSlot ==
  \A p \in Process :
    process[p].stage = "exited" /\ process[p].command = "setup" /\ process[p].code = 0 => slot

(* schema.prisma never holds the model twice, which Prisma would refuse,    *)
(* although two commands may both have found none.                          *)
OneModel == Len(schema) <= 1

(* In snake_case, whichever command made the table and whatever it is       *)
(* called, a service configured with the same names sees an insert, finds   *)
(* its row and reads all its columns.                                       *)
SnakeCaseWorks ==
  \A t \in database :
    t.for.naming = "snake_case" => HandlesInserts(t, "snake_case", t.for.rawName)

(* A table made with the default names takes the client's INSERT.           *)
DefaultsServeClient ==
  \A t \in database :
    t.for.naming = "snake_case" /\ t.for.rawName = Outbox => AcceptsClient(t)

(* The same in every naming: the naming of the table is the service's too   *)
(* (types/schema-config.ts:40-44, core test/outbox-processor.test.ts:772).  *)
EveryNamingWorks ==
  \A t \in database : HandlesInserts(t, t.for.naming, t.for.rawName)
================================================================================
