--------------------------------- MODULE Naming ---------------------------------
(***************************************************************************)
(* The names of the outbox table and its columns: how the cli and the      *)
(* service derive them (utils/column-naming.ts, the same file in both      *)
(* packages), what PostgreSQL makes of them, and what the service and the  *)
(* client then find.                                                       *)
(*                                                                         *)
(* A name is the sequence of its parts between underscores, a part the     *)
(* sequence of its words, a word a stem with or without a capital: my_outbox*)
(* has two parts of one word, myOutbox one part of two words.              *)
(***************************************************************************)
EXTENDS Sequences, Naturals
LOCAL INSTANCE SequencesExt

ColumnNaming == {"snake_case", "camelCase", "PascalCase"}

Words(stems) == [stem : stems, capital : BOOLEAN]
Names(stems) == Seq(Seq(Words(stems)))

Word(stem)  == [stem |-> stem, capital |-> FALSE]

Lower(part) == [i \in DOMAIN part |-> [part[i] EXCEPT !.capital = FALSE]]

\* charAt(0).toUpperCase() + slice(1).toLowerCase()
Capitalized(part) == [i \in DOMAIN part |-> [part[i] EXCEPT !.capital = (i = 1)]]

\* Faulty (mutation runs): without toLowerCase.
applyNamingKeepingCase(name, naming) ==
  CASE naming = "snake_case" -> name
    [] naming = "camelCase"  ->
         << FlattenSeq([i \in DOMAIN name |-> IF i = 1 THEN name[1] ELSE Capitalized(name[i])]) >>
    [] naming = "PascalCase" -> << FlattenSeq([i \in DOMAIN name |-> Capitalized(name[i])]) >>

applyNamingToTableName(name, naming) ==
  CASE naming = "snake_case" -> [i \in DOMAIN name |-> Lower(name[i])]
    [] naming = "camelCase"  ->
         << FlattenSeq([i \in DOMAIN name |-> IF i = 1 THEN Lower(name[1])
                                              ELSE Capitalized(name[i])]) >>
    [] naming = "PascalCase" -> << FlattenSeq([i \in DOMAIN name |-> Capitalized(name[i])]) >>

(* The columns, by their key.  id stands for the four whose name is one     *)
(* word and the same in every naming, aggregateId for the six of two words, *)
(* which the table of names spells as the naming function would.            *)
Key == {"id", "aggregateId"}

getColumnNames(naming) ==
  [key \in Key |->
     IF key = "id" THEN << <<Word("id")>> >>
     ELSE applyNamingToTableName(<< <<Word("aggregate")>>, <<Word("id")>> >>, naming)]

-------------------------------------------------------------------------------
\* Tables.  PostgreSQL folds an unquoted name to lower case.

Fold(name) == [i \in DOMAIN name |-> Lower(name[i])]

Columns(naming) == {getColumnNames(naming)[key] : key \in Key}

\* The identifiers a migration asks for.
Definition(naming, rawName) ==
  [name |-> applyNamingToTableName(rawName, naming), columns |-> Columns(naming)]

Folded(def) == [name |-> Fold(def.name), columns |-> {Fold(c) : c \in def.columns}]

(* CREATE TABLE ${tableName} ( ${cols.id} ... ), unquoted.                  *)
SqlTable(naming, rawName) == Folded(Definition(naming, rawName))

(* queryInterface.createTable("${tableName}", { ... }), which quotes.       *)
SequelizeTable(naming, rawName) == Definition(naming, rawName)

\* Faulty (mutation runs): without @map, the columns are called as the fields.
PrismaModelUnmapped(naming, rawName) ==
  [name |-> applyNamingToTableName(rawName, naming), columns |-> Columns("camelCase")]

(* The model of a prisma schema, with @map and @@map where a name differs   *)
(* from the model's: Prisma quotes them.                                    *)
PrismaModel(naming, rawName) == Definition(naming, rawName)

-------------------------------------------------------------------------------
\* What a service with this configuration makes of a table.

\* Its queries, unquoted, find the table and the columns.
QueriesFind(table, naming, rawName) ==
  LET asked == Folded(Definition(naming, rawName))
  IN  asked.name = table.name /\ asked.columns \subseteq table.columns

\* filterChanges compares the table's name in the WAL, unfolded.
SeesInserts(table, naming, rawName) == table.name = applyNamingToTableName(rawName, naming)

\* rowToRecord looks the columns up, unfolded, in a row with the folded names.
ReadsRecord(naming) == \A c \in Columns(naming) : Fold(c) = c

HandlesInserts(table, naming, rawName) ==
  /\ QueriesFind(table, naming, rawName)
  /\ SeesInserts(table, naming, rawName)
  /\ ReadsRecord(naming)

Outbox == << <<Word("outbox")>> >>

(* INSERT INTO outbox (id, aggregate_id, ...): both adapters of the client  *)
(* have the names in the statement.                                         *)
AcceptsClient(table) == table.name = Outbox /\ Columns("snake_case") \subseteq table.columns
================================================================================
