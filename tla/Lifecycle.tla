----------------------------- MODULE Lifecycle -----------------------------
(***************************************************************************)
(* main.py, lifespan, with the state that outlives a process: the gateway  *)
(* is installed over the files of an earlier release, reads its            *)
(* configuration, upgrades the database, pushes the configuration into the *)
(* running objects, serves, is reconfigured while it serves, and ends at   *)
(* any moment, to be started again by the same release or the next.        *)
(*                                                                         *)
(* It composes the configuration store, the database upgrade and the       *)
(* request logs: the log in memory is as large as the configuration says,  *)
(* trimming keeps as many rows, and the counters that requests increment   *)
(* are the ones that the upgrade started from the rows.                    *)
(***************************************************************************)
EXTENDS ConfigStore, SchemaUpgrade, RequestLog

CONSTANTS MaxStarts, MaxWork    \* bounds: starts of the process, and what is done meanwhile

VARIABLES
    phase,      \* "down", "upgrading", "starting", "serving"
    starts,
    done        \* steps of requests and administrators that the bound counts

life == <<phase, starts, done>>
lifeVars == <<config, database, logs, life>>

LifeTypeOK ==
    /\ phase \in {"down", "upgrading", "starting", "serving"}
    /\ file.form \in Forms /\ memory.form \in {"none", "object", "list"}
    /\ IsDatabase(disk) /\ IsDatabase(work)
    /\ DOMAIN rows \subseteq 1..lastRow

\* An earlier release left one of its files in a state of its own: the database
\* before the split, the configuration, or the rows and the counters.
LifeInit ==
    /\ ConfigInit
    /\ LogInit
    /\ \E origin \in Origins, counters \in {Uncounted, [c \in {"calls"} |-> 2], [c \in Counters |-> 1]} :
          /\ \/ origin = NewDatabase
             \/ file.form = "absent" /\ rows = Nothing /\ counters = Uncounted
          /\ file.form = "absent" \/ (rows = Nothing /\ counters = Uncounted)
          /\ UpgradeInit(origin, counters)
          /\ truth = IF counters = Uncounted THEN Recount
                     ELSE [c \in Counters |-> IF c \in DOMAIN counters THEN counters[c] ELSE 0]
    /\ phase = "down" /\ starts = 0 /\ done = 0

\* What nothing else bounds is counted.
Bounded == done < MaxWork /\ done' = done + 1

----------------------------------------------------------------------------
(* Starting.                                                               *)

\* The import of the application loads the configuration and makes the log in
\* memory; a size that is refused there ends the process.
Start ==
    /\ phase = "down" /\ starts < MaxStarts
    /\ starts' = starts + 1
    /\ Load
    /\ IF LoadFails \/ memory'.values[Limit] < 0
       THEN UNCHANGED <<phase, capacity>>
       ELSE phase' = "upgrading" /\ capacity' = memory'.values[Limit]
    /\ UNCHANGED <<release, database, logs, done>>

Migrate ==
    /\ phase = "upgrading"
    /\ \/ Open \/ SplitColumns \/ SplitRow \/ DropColumn \/ SetVersion \/ AddColumn
       \/ SeedCounters(Recount)
    /\ UNCHANGED <<config, logs, life>>

Migrated ==
    /\ phase = "upgrading"
    /\ Commit
    /\ phase' = "starting"
    /\ UNCHANGED <<config, logs, starts, done>>

Serve ==
    /\ phase = "starting"
    /\ phase' = "serving"
    /\ capacity' = Pushed(memory.values, capacity)
    /\ UNCHANGED <<release, file, memory, wanted, unseen, database, logs, starts, done>>

\* The process ends: it is killed, or stops, or a start fails.
Die ==
    /\ phase # "down"
    /\ phase' = "down"
    /\ memory' = [form |-> "none", values |-> Nothing]
    /\ capacity' = 0
    /\ Abandon /\ Lost
    /\ UNCHANGED <<release, file, wanted, unseen, starts, done>>

Install ==
    /\ phase = "down" /\ release < MaxVersion /\ Bounded
    /\ release' = release + 1
    /\ UNCHANGED <<file, memory, capacity, wanted, unseen, database, logs, phase, starts>>

EditFile == Edit /\ Bounded /\ UNCHANGED <<database, logs, phase, starts>>

----------------------------------------------------------------------------
(* The administrator while the gateway serves.  The handlers look at the   *)
(* settings in memory first, and fail there when they are no object.       *)

Administer == phase = "serving" /\ Bounded /\ UNCHANGED <<phase, starts>>

\* PUT /admin/settings, and the import of a configuration.
UpdateSettings ==
    /\ Administer
    /\ memory.form = "object"
    /\ \E new \in {s \in Settings : Cardinality(DOMAIN s) = 1 /\ \A k \in DOMAIN s : s[k] \in Allowed} :
          Patch(new, {})
    /\ capacity' = Pushed(memory'.values, capacity)
    /\ recent' = Resized(capacity')
    /\ UNCHANGED <<release, database, flight, arrivals, rows, lastRow, trimmer, resetting, truth>>

\* POST /admin/settings/reset: the keys are taken out of the file.
ResetSettings ==
    /\ Administer
    /\ memory.form = "object"
    /\ \E keys \in SUBSET Names \ {{}} : Patch(Nothing, keys)
    /\ capacity' = Pushed(memory'.values, capacity)
    /\ recent' = Resized(capacity')
    /\ UNCHANGED <<release, database, flight, arrivals, rows, lastRow, trimmer, resetting, truth>>

\* POST /admin/config/reload: a file that cannot be loaded ends the handler.
ReloadSettings ==
    /\ Administer
    /\ memory.form = "object"
    /\ Load
    /\ capacity' = IF LoadFails THEN capacity ELSE Pushed(memory'.values, capacity)
    /\ recent' = Resized(capacity')
    /\ UNCHANGED <<release, database, flight, arrivals, rows, lastRow, trimmer, resetting, truth>>

ChangeProvider ==
    /\ Administer
    /\ \E o \in SUBSET Options : EditProvider(o, {})
    /\ UNCHANGED <<config, logs>>

ResetStats ==
    /\ Administer
    /\ ResetCounters
    /\ disk' = [disk EXCEPT !.counters = [c \in Counters |-> 0]] /\ work' = disk'
    /\ UNCHANGED <<config, open, step, owner, canDrop>>

ResetStatsEnd ==
    /\ phase = "serving"
    /\ ClearRecent
    /\ UNCHANGED <<config, database, life>>

ManageRows ==
    /\ Administer
    /\ ClearRows \/ (\E i \in DOMAIN rows : DeleteRow(i))
    /\ UNCHANGED <<config, database>>

----------------------------------------------------------------------------
(* Requests and maintenance.                                               *)

CountRequest(r) ==
    /\ Count(r)
    /\ IF flight[r].image
       THEN /\ disk' = [disk EXCEPT !.counters = Plus(@, Outcome(flight[r].ok))]
            /\ work' = disk'
       ELSE UNCHANGED <<disk, work>>
    /\ UNCHANGED <<open, step, owner, canDrop>>

HandleRequest(r) ==
    /\ phase = "serving"
    /\ \/ (AnswerImage(r) \/ Arrive(r, capacity) \/ Finish(r)) /\ UNCHANGED database
       \/ CountRequest(r)
    /\ UNCHANGED <<config, life>>

\* Requests begin; an image request reports its progress, or is cancelled.
BeginRequest(r) ==
    /\ phase = "serving" /\ Bounded
    /\ AnswerText(r) \/ StartImage(r) \/ Progress(r) \/ Cancel(r)
    /\ UNCHANGED <<config, database, phase, starts>>

\* get_default: without settings in memory, the default of the call.
Maintain ==
    /\ Administer
    /\ StartTrim(IF memory.form = "object" THEN memory.values[Limit] ELSE Default(Limit))
    /\ UNCHANGED <<config, database>>

MaintainBatch ==
    /\ phase = "serving"
    /\ TrimBatch
    /\ UNCHANGED <<config, database, life>>

LifeNext ==
    \/ Start \/ Migrate \/ Migrated \/ Serve \/ Die \/ Install \/ EditFile
    \/ UpdateSettings \/ ResetSettings \/ ReloadSettings
    \/ ChangeProvider \/ ResetStats \/ ResetStatsEnd \/ ManageRows
    \/ (\E r \in Requests : HandleRequest(r) \/ BeginRequest(r))
    \/ Maintain \/ MaintainBatch

LifeSpec == LifeInit /\ [][LifeNext]_lifeVars

\* Requests are alike.
Symmetry == Permutations(Requests)

----------------------------------------------------------------------------
(* Properties.                                                             *)

\* The file holds what somebody wrote there (the administrator by hand or on
\* the settings page, or the first start) and nothing else, over all patches,
\* resets, reloads and restarts; with that, a default that nobody wrote down
\* is the one of the installed release.
FileIsWanted == file.values = wanted

\* What the gateway goes by, after any mixture of patches, resets, reloads and
\* hand edits, is what a restart would find: the file, filled up with the
\* defaults.  The exceptions are the keys edited by hand since the last load,
\* and a gateway whose settings a reload has replaced by something that is no
\* object (config.py assigns before it looks).
LiveIsWanted ==
    phase = "serving" /\ memory.form = "object" =>
        \A k \in Names \ unseen : memory.values[k] = Filled(wanted)[k]

\* Once the gateway serves, a provider has its options and headers as the
\* administrator left them: split from the old settings once, and after that
\* never again, however often an upgrade died on the way and whether or not the
\* old column could be dropped.
UpgradedOnce ==
    phase = "serving" =>
        [options |-> disk.options, headers |-> disk.headers] = owner

\* The image counters are all there and agree with one another: all of them were
\* started from the same rows, or none was, and no later start counts again.
CountersAgree == phase = "serving" => disk.counters = truth

\* The log in memory shows the newest requests, newest first, whatever its size
\* is changed to, and never more than that.
NewestShown ==
    /\ Len(recent) <= IF phase = "down" THEN 0 ELSE capacity
    /\ recent = Front(arrivals, Len(recent))

\* A request has one row at most; when the request was logged to its end and the
\* row is still there, it says how the request ended.
OneRowEach ==
    \A r \in Requests :
        LET mine == {i \in DOMAIN rows : rows[i].request = r}
        IN  /\ Cardinality(mine) <= 1
            /\ flight[r].stage = "logged" =>
                  \A i \in mine : rows[i].status = IF flight[r].ok THEN "ok" ELSE "fail"

\* Trimming never takes one of the newest rows, however many rows were added,
\* deleted or replaced since it began, and the batch it ends with leaves no more
\* than were to be kept, although it counts only what that batch deleted.
TrimsRight ==
    /\ \A i \in DOMAIN rows \ DOMAIN rows' : Cardinality(Newer(i)) >= trimmer.keep
    /\ ~trimmer'.busy => Cardinality(DOMAIN rows') <= trimmer.keep
NewestKept == [][TrimBatch => TrimsRight]_lifeVars

\* The settings, in the file and in force, are what the administrator wrote and
\* the defaults of the installed release, over every way to change them.
ConfigAsWanted == FileIsWanted /\ LiveIsWanted

\* An upgrade, however often it dies and starts over, neither brings back what
\* was cleared nor counts anything twice.
UpgradeKeepsData == UpgradedOnce /\ CountersAgree

\* The log in memory and the rows on disk show each request once, as it ended,
\* the newest first.
LogsAreTrue == NewestShown /\ OneRowEach
=============================================================================
