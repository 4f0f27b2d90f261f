--------------------------- MODULE SchemaUpgrade ---------------------------
(***************************************************************************)
(* app/database.py, init_db: the migrations that run at every start over a *)
(* database that may come from any earlier release, or from an upgrade     *)
(* that died half way.                                                     *)
(*                                                                         *)
(* The driver's transactions are part of the behaviour: a statement that   *)
(* changes the schema is durable at once as long as no row has been        *)
(* written, the first write of a row opens a transaction, and from then on *)
(* everything (the schema and user_version too) is durable only at the     *)
(* commit at the end of init_db.  A start that fails or dies keeps what is *)
(* durable.                                                                *)
(*                                                                         *)
(* One provider row stands for all of them; the columns that are merely    *)
(* added are one set.                                                      *)
(***************************************************************************)
EXTENDS Integers, FiniteSets

CONSTANTS
    Columns,        \* the columns that later releases added, with their defaults
    SchemaColumns   \* those that a new database has from the start

ASSUME ColumnsAssumption == SchemaColumns \subseteq Columns

VARIABLES
    disk,       \* the durable database, see IsDatabase
    work,       \* the database as the connection of init_db sees it
    open,       \* a transaction is open
    step,       \* "idle", or the migration that comes next
    owner,      \* history: the provider's settings as the administrator has them
    canDrop     \* SQLite can drop the old column

database == <<disk, work, open, step, owner, canDrop>>

\* Legacy settings and headers of a provider; "thinking" is an option.
Options == {"thinking"}
Legacy == {"thinking", "header"}

\* The image counters of global_stats.
Counters == {"calls", "failed", "images"}
Uncounted == [c \in {} |-> 0]

\* user_version, the provider's name, the column extra_headers, its content, the two columns that
\* replace it, the added columns, the image counters.
IsDatabase(db) ==
    /\ db \in [version : 0..1, deepseek : BOOLEAN, legacyColumn : BOOLEAN, legacy : SUBSET Legacy,
               splitColumns : BOOLEAN, options : SUBSET Options, headers : SUBSET Legacy,
               columns : SUBSET Columns, counters : {db.counters}]
    /\ DOMAIN db.counters \subseteq Counters
    /\ \A c \in DOMAIN db.counters : db.counters[c] \in Nat

\* The content of a legacy row, split: what is an option goes to the options,
\* the rest to the headers, and neither replaces what is already there.  A
\* DeepSeek provider without options gets them.
SplitOptions(db) ==
    IF db.options # {} THEN db.options
    ELSE IF db.deepseek THEN Options ELSE db.legacy \cap Options
SplitHeaders(db) == IF db.headers = {} THEN db.legacy \ Options ELSE db.headers

Split(db) == [db EXCEPT !.options = SplitOptions(db), !.headers = SplitHeaders(db)]

\* A new database, and one of the release before the split, with or without
\* what an upgrade without a version number had already moved.
NewDatabase == [version |-> 0, deepseek |-> FALSE, legacyColumn |-> FALSE, legacy |-> {},
                splitColumns |-> TRUE, options |-> {}, headers |-> {},
                columns |-> SchemaColumns, counters |-> Uncounted]

OldDatabases ==
    {[version |-> 0, deepseek |-> k, legacyColumn |-> TRUE, legacy |-> l, splitColumns |-> s,
      options |-> o, headers |-> h, columns |-> {}, counters |-> Uncounted] :
        k \in BOOLEAN, l \in SUBSET Legacy, s \in BOOLEAN,
        o \in SUBSET Options, h \in SUBSET {"header"}}

Origins == {NewDatabase} \cup
           {d \in OldDatabases : d.splitColumns \/ (d.options = {} /\ d.headers = {})}

UpgradeInit(origin, counters) ==
    /\ disk = [origin EXCEPT !.counters = counters]
    /\ work = disk
    /\ open = FALSE
    /\ step = "idle"
    /\ owner = IF disk.legacyColumn
               THEN [options |-> SplitOptions(disk), headers |-> SplitHeaders(disk)]
               ELSE [options |-> disk.options, headers |-> disk.headers]
    /\ canDrop \in IF disk.legacyColumn THEN BOOLEAN ELSE {TRUE}

----------------------------------------------------------------------------
(* Statements, and what becomes of them.                                   *)

Schema(db) ==
    /\ work' = db
    /\ disk' = IF open THEN disk ELSE db
    /\ UNCHANGED open

Rows(db) == work' = db /\ open' = TRUE /\ UNCHANGED disk

Pass == UNCHANGED <<disk, work, open>>

Goto(next) == step' = next /\ UNCHANGED <<owner, canDrop>>

----------------------------------------------------------------------------
(* _migrate_provider_options_and_headers: the only migration that moves    *)
(* data.  The version decides whether it runs, not the column, which some  *)
(* versions of SQLite cannot drop.                                         *)

AlreadySplit == work.version >= 1

\* Opening the database: the schema statements create what is missing whole.
Open ==
    /\ step = "idle"
    /\ work' = disk /\ open' = FALSE
    /\ UNCHANGED disk
    /\ Goto("split_columns")

SplitColumns ==
    /\ step = "split_columns"
    /\ \/ AlreadySplit /\ Pass /\ Goto("columns")
       \/ ~AlreadySplit /\ Schema([work EXCEPT !.splitColumns = TRUE])
          /\ Goto(IF work.legacyColumn THEN "split_row" ELSE "version")

\* A row is written only when there is something to write.
SplitRow ==
    /\ step = "split_row"
    /\ IF Split(work).options # {} \/ Split(work).headers # {}
       THEN Rows(Split(work))
       ELSE Pass
    /\ Goto("drop")

DropColumn ==
    /\ step = "drop"
    /\ IF canDrop THEN Schema([work EXCEPT !.legacyColumn = FALSE, !.legacy = {}]) ELSE Pass
    /\ Goto("version")

SetVersion ==
    /\ step = "version"
    /\ Schema([work EXCEPT !.version = 1])
    /\ Goto("columns")

----------------------------------------------------------------------------
(* The migrations that add a column when it is not there.                  *)

AddColumn ==
    /\ step = "columns"
    /\ \/ \E c \in Columns \ work.columns :
             Schema([work EXCEPT !.columns = @ \cup {c}]) /\ Goto("columns")
       \/ work.columns = Columns /\ Pass /\ Goto("counters")

----------------------------------------------------------------------------
(* _migrate_image_generation_stats: the counters start from the request    *)
(* logs that are left, all of them or none; when some are there already,   *)
(* the missing ones start at nought, for a counter taken from the logs     *)
(* beside one that was counted would not agree with it.                    *)

Missing(counters) == Counters \ DOMAIN counters

\* Slip: each missing counter is taken from the logs.
SeededEach(counters, recount) ==
    [c \in Counters |-> IF c \in DOMAIN counters THEN counters[c] ELSE recount[c]]

Seeded(counters, recount) ==
    [c \in Counters |-> IF c \in DOMAIN counters THEN counters[c]
                        ELSE IF DOMAIN counters = {} THEN recount[c] ELSE 0]

SeedCounters(recount) ==
    /\ step = "counters"
    /\ IF Missing(work.counters) = {}
       THEN Pass
       ELSE Rows([work EXCEPT !.counters = Seeded(work.counters, recount)])
    /\ Goto("commit")

Commit ==
    /\ step = "commit"
    /\ disk' = work /\ open' = FALSE
    /\ UNCHANGED work
    /\ Goto("idle")

\* An exception, or the end of the process: what was not committed is gone.
Abandon ==
    /\ disk' = disk /\ work' = disk /\ open' = FALSE
    /\ Goto("idle")

----------------------------------------------------------------------------
\* update_provider, as far as it concerns the migrated settings.
EditProvider(options, headers) ==
    /\ disk' = [disk EXCEPT !.options = options, !.headers = headers]
    /\ work' = disk'
    /\ owner' = [options |-> options, headers |-> headers]
    /\ UNCHANGED <<open, step, canDrop>>
=============================================================================
