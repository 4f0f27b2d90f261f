--------------------------- MODULE ProviderStore ---------------------------
(***************************************************************************)
(* The tables providers and provider_models (app/database.py) and          *)
(* everything that writes them: the admin endpoints (app/router/admin.py), *)
(* model discovery (app/services/discovery.py), the import of an exported  *)
(* configuration, and the capability evidence of live traffic.             *)
(*                                                                         *)
(* A database call is one transaction on the event loop, hence one step.   *)
(* What can go wrong happens where a handler awaits between reading a row  *)
(* and writing it: the validation of an upstream address (create, update,  *)
(* import) and the upstream's model list (refresh).                        *)
(*                                                                         *)
(* A handler in flight keeps what it read.  What its request carries is    *)
(* chosen at the step that uses it, since nothing depends on it before.    *)
(***************************************************************************)
EXTENDS FiniteSets

CONSTANTS
    Providers,  \* provider ids
    Models,     \* model ids; one name may stand under several providers
    Keys,       \* upstream API keys
    Flags,      \* per-model switches: preprocessor, image_generation
    Jobs        \* admin requests that may be in flight at once

VARIABLES
    providers,  \* provider id -> its row, or NoRow
    models,     \* provider id -> model id -> its row, or NoRow
    job,        \* admin request -> what it is doing, with what it read
    refreshing  \* providers whose model list was asked for

storeVars == <<providers, models, job, refreshing>>

CONSTANTS
    NoRow, NoKey,
    Kept        \* a field that the payload leaves out

Status == {"unknown", "supported", "unsupported"}

ProviderRow == [enabled : BOOLEAN, key : Keys \cup {NoKey}]

(* cap abstracts the stored capability values to who wrote them, marked is *)
(* membership in admin_keys.                                               *)
ModelRow == [flags : SUBSET Flags,
             cap : {"none", "upstream", "admin"}, marked : BOOLEAN,
             responses : Status]

ASSUME StoreAssumption ==
    /\ NoKey \notin Keys
    /\ NoRow \notin ProviderRow \cup ModelRow

NoWork == [op |-> "idle"]

Work ==
    {NoWork}
    \cup [op : {"create"}, provider : Providers]
    \cup [op : {"update"}, provider : Providers, hadKey : BOOLEAN]
    \cup [op : {"import"}]

StoreTypeOK ==
    /\ providers \in [Providers -> ProviderRow \cup {NoRow}]
    /\ models \in [Providers -> [Models -> ModelRow \cup {NoRow}]]
    /\ job \in [Jobs -> Work]
    /\ refreshing \subseteq Providers

StoreInit ==
    /\ providers = [p \in Providers |-> NoRow]
    /\ models = [p \in Providers |-> [m \in Models |-> NoRow]]
    /\ job = [r \in Jobs |-> NoWork]
    /\ refreshing = {}

-----------------------------------------------------------------------------
(* Rows.                                                                   *)

NewModel(flags, cap) ==
    [flags |-> flags, cap |-> cap, marked |-> FALSE, responses |-> "unknown"]

Exists(p) == providers[p] # NoRow

TakeUp(r, activity) ==
    /\ job[r] = NoWork
    /\ job' = [job EXCEPT ![r] = activity]

PutDown(r) == job' = [job EXCEPT ![r] = NoWork]

(* A model list in a payload maps each listed model to the switches it      *)
(* carries; one listed without switches (None in the code) keeps the        *)
(* stored ones.  Models it does not list stay.                              *)
Listing == UNION {[S -> (SUBSET Flags) \cup {Kept}] : S \in SUBSET Models}

\* Slip: switches that the payload leaves out are stored as empty.
ListedClearing(rows, list) ==
    [m \in Models |->
        IF m \notin DOMAIN list THEN rows[m]
        ELSE LET sent == IF list[m] = Kept THEN {} ELSE list[m] IN
             IF rows[m] = NoRow THEN NewModel(sent, "none")
             ELSE [rows[m] EXCEPT !.flags = sent]]

Listed(rows, list) ==
    [m \in Models |->
        IF m \notin DOMAIN list THEN rows[m]
        ELSE IF rows[m] = NoRow
             THEN NewModel(IF list[m] = Kept THEN {} ELSE list[m], "none")
             ELSE IF list[m] = Kept THEN rows[m]
             ELSE [rows[m] EXCEPT !.flags = list[m]]]

Unlearnt(rows) ==
    [m \in Models |-> IF rows[m] = NoRow THEN NoRow
                      ELSE [rows[m] EXCEPT !.responses = "unknown"]]

(* The row a fresh provider gets, and its models.                           *)
Added(p, enabled, key, list) ==
    /\ providers' = [providers EXCEPT ![p] = [enabled |-> enabled, key |-> key]]
    /\ models' = [models EXCEPT
                    ![p] = Listed([m \in Models |-> NoRow], list)]

(* update_provider: a field that the update leaves out keeps its value; a   *)
(* new address, key, type or model list (upstreamChanged) forgets what was  *)
(* learnt about native Responses.                                           *)
Updated(p, enabled, key, list, upstreamChanged) ==
    /\ providers' = [providers EXCEPT ![p] = [enabled |-> enabled, key |-> key]]
    /\ models' = [models EXCEPT
                    ![p] = IF upstreamChanged THEN Unlearnt(Listed(@, list))
                           ELSE @]

-----------------------------------------------------------------------------
(* POST /admin/providers                                                    *)

StartCreate(r, p) ==
    /\ ~Exists(p)
    /\ TakeUp(r, [op |-> "create", provider |-> p])
    /\ UNCHANGED <<providers, models, refreshing>>

(* After the address was validated: a provider created meanwhile makes the  *)
(* insert fail.  An endpoint's model list carries no switches.              *)
FinishCreate(r) ==
    /\ job[r].op = "create"
    /\ LET p == job[r].provider IN
        \/ /\ ~Exists(p)
           /\ \E enabled \in BOOLEAN, key \in Keys \cup {NoKey}, S \in SUBSET Models :
                Added(p, enabled, key, [m \in S |-> {}])
        \/ Exists(p) /\ UNCHANGED <<providers, models>>
    /\ PutDown(r)
    /\ UNCHANGED refreshing

(* PUT /admin/providers/{id}: the row is read before the new address is     *)
(* validated, and decides whether a blank key is left out of the update.    *)
StartUpdate(r, p) ==
    /\ Exists(p)
    /\ TakeUp(r, [op |-> "update", provider |-> p,
                 hadKey |-> providers[p].key # NoKey])
    /\ UNCHANGED <<providers, models, refreshing>>

\* Slip: a blank key is written.
KeyAfterBlank(p, sent, hadKey) == IF sent = Kept THEN providers[p].key ELSE sent

(* The key written: the one sent; a blank one only if no key was read.      *)
KeyAfter(p, sent, hadKey) ==
    IF sent \in Keys \/ (sent = NoKey /\ ~hadKey) THEN sent ELSE providers[p].key

SaveUpdate(p, hadKey, S, upstreamChanged) ==
    \E enabled \in BOOLEAN, sent \in Keys \cup {NoKey, Kept} :
        /\ sent # Kept \/ S # {} => upstreamChanged
        /\ Updated(p, enabled, KeyAfter(p, sent, hadKey),
                   [m \in S |-> Kept], upstreamChanged)

FinishUpdate(r) ==
    /\ job[r].op = "update"
    /\ LET p == job[r].provider IN
        \/ Exists(p) /\ \E S \in SUBSET Models : SaveUpdate(p, job[r].hadKey, S, TRUE)
        \/ ~Exists(p) /\ UNCHANGED <<providers, models>>
    /\ PutDown(r)
    /\ UNCHANGED refreshing

(* An update without an address does not suspend.                           *)
UpdateAtOnce(p) ==
    /\ Exists(p)
    /\ \E S \in SUBSET Models, changed \in BOOLEAN :
        SaveUpdate(p, providers[p].key # NoKey, S, changed)
    /\ UNCHANGED <<job, refreshing>>

(* The address was refused.                                                 *)
Reject(r) ==
    /\ job[r] # NoWork
    /\ PutDown(r)
    /\ UNCHANGED <<providers, models, refreshing>>

(* DELETE /admin/providers/{id}: the models go with it (ON DELETE CASCADE). *)
DeleteProvider(p) ==
    /\ Exists(p)
    /\ providers' = [providers EXCEPT ![p] = NoRow]
    /\ models' = [models EXCEPT ![p] = [m \in Models |-> NoRow]]
    /\ UNCHANGED <<job, refreshing>>

-----------------------------------------------------------------------------
(* Discovery.                                                               *)

(* One provider, or every enabled one.                                      *)
StartRefresh ==
    /\ \E p \in Providers :
        /\ Exists(p) /\ providers[p].enabled
        /\ refreshing' = refreshing \cup {p}
    /\ UNCHANGED <<providers, models, job>>

StartRefreshAll ==
    /\ refreshing' = refreshing
        \cup {p \in Providers : Exists(p) /\ providers[p].enabled}
    /\ UNCHANGED <<providers, models, job>>

Configured(row) == row.flags # {} \/ row.responses = "supported"

(* merge_upstream_model_capabilities: a marked value is the administrator's. *)
Merged(row, described) ==
    IF described /\ ~row.marked THEN [row EXCEPT !.cap = "upstream"] ELSE row

(* One model's row after a list that names the models in found and          *)
(* describes the capabilities of those in described.                        *)
Discovered(row, m, found, described) ==
    IF m \in found
    THEN IF row = NoRow
         THEN NewModel({}, IF m \in described THEN "upstream" ELSE "none")
         ELSE Merged(row, m \in described)
    ELSE IF row # NoRow /\ Configured(row) THEN row ELSE NoRow

\* Slip: models are stored without their provider (no foreign keys).
FinishRefreshUnowned(p) ==
    /\ p \in refreshing
    /\ refreshing' = refreshing \ {p}
    /\ \E found \in (SUBSET Models) \ {{}} : \E described \in SUBSET found :
        models' = [models EXCEPT ![p] =
                    [m \in Models |-> Discovered(@[m], m, found, described)]]
    /\ UNCHANGED <<providers, job>>

(* The list arrived.  The provider may have been deleted meanwhile: then    *)
(* the first insert breaks the foreign key and nothing is written.          *)
FinishRefresh(p) ==
    /\ p \in refreshing
    /\ refreshing' = refreshing \ {p}
    /\ \E found \in (SUBSET Models) \ {{}} : \E described \in SUBSET found :
        models' = IF ~Exists(p) THEN models
                  ELSE [models EXCEPT ![p] =
                    [m \in Models |-> Discovered(@[m], m, found, described)]]
    /\ UNCHANGED <<providers, job>>

(* An error, an empty list, bad pagination, a provider disabled before its  *)
(* turn: nothing is written.                                                *)
RefreshFails(p) ==
    /\ p \in refreshing
    /\ refreshing' = refreshing \ {p}
    /\ UNCHANGED <<providers, models, job>>

-----------------------------------------------------------------------------
(* Per-model settings.                                                      *)

(* A composite name means one row, a bare one the rows of every provider.   *)
OneOrAll(S) == {{x} : x \in S} \cup {S}

ChangeRows(P, M, Change(_)) ==
    models' = [p \in Providers |-> [m \in Models |->
        IF models[p][m] # NoRow /\ p \in P /\ m \in M THEN Change(models[p][m])
        ELSE models[p][m]]]

\* A switch set or cleared.
Toggled(row, f, on) ==
    [row EXCEPT !.flags = IF on THEN @ \cup {f} ELSE @ \ {f}]

\* Capabilities: a value marks its key, null clears both.
WithCapability(row, set) ==
    [row EXCEPT !.cap = IF set THEN "admin" ELSE "none", !.marked = set]

WithResponses(row, s) == [row EXCEPT !.responses = s]

(* PUT /admin/models/preprocessor and /admin/models/image-generation        *)
ToggleFlag(f) ==
    /\ \E P \in OneOrAll(Providers), m \in Models, on \in BOOLEAN :
        ChangeRows(P, {m}, LAMBDA row : Toggled(row, f, on))
    /\ UNCHANGED <<providers, job, refreshing>>

(* PUT /admin/models/capabilities                                           *)
SetCapabilities ==
    /\ \E P \in OneOrAll(Providers), m \in Models, set \in BOOLEAN :
        ChangeRows(P, {m}, LAMBDA row : WithCapability(row, set))
    /\ UNCHANGED <<providers, job, refreshing>>

(* POST /admin/models/responses-capability/reset: one model, one name under *)
(* every provider, or all models of a provider.                             *)
ResetResponses ==
    /\ \E P \in OneOrAll(Providers), M \in OneOrAll(Models) :
        /\ Cardinality(P) = 1 \/ Cardinality(M) = 1
        /\ ChangeRows(P, M, LAMBDA row : WithResponses(row, "unknown"))
    /\ UNCHANGED <<providers, job, refreshing>>

(* Probes and native requests record what they saw.                         *)
LearnResponses ==
    /\ \E p \in Providers, m \in Models, s \in Status :
        ChangeRows({p}, {m}, LAMBDA row : WithResponses(row, s))
    /\ UNCHANGED <<providers, job, refreshing>>

-----------------------------------------------------------------------------
(* POST /admin/config/import, providers section.                            *)

Modes == {"skip", "replace", "merge"}

(* What an import makes of one entry: an exported row with its models.  A   *)
(* blank key is dropped from the entry, in merge mode so is an empty model   *)
(* list; an entry with a name, an address and a model list always counts as *)
(* a changed upstream.                                                      *)
Imported(row, rows, entry, mode) ==
    IF row = NoRow
    THEN [row |-> [enabled |-> entry.enabled, key |-> entry.key],
          models |-> Listed([m \in Models |-> NoRow], entry.list)]
    ELSE IF mode = "skip" THEN [row |-> row, models |-> rows]
    ELSE [row |-> [enabled |-> entry.enabled,
                   key |-> IF entry.key = NoKey THEN row.key ELSE entry.key],
          models |-> Unlearnt(Listed(rows, entry.list))]

Entries == [enabled : BOOLEAN, key : Keys \cup {NoKey}, list : Listing]

StartImport(r) ==
    /\ TakeUp(r, [op |-> "import"])
    /\ UNCHANGED <<providers, models, refreshing>>

(* After all addresses were validated the entries are written one after the *)
(* other without a pause; entries of different providers do not meet, so    *)
(* one entry stands for the list.                                           *)
FinishImport(r) ==
    /\ job[r].op = "import"
    /\ \E p \in Providers, entry \in Entries, mode \in Modes :
        LET after == Imported(providers[p], models[p], entry, mode) IN
        /\ providers' = [providers EXCEPT ![p] = after.row]
        /\ models' = [models EXCEPT ![p] = after.models]
    /\ PutDown(r)
    /\ UNCHANGED refreshing

-----------------------------------------------------------------------------
StoreNext ==
    \/ \E r \in Jobs :
        \/ \E p \in Providers : StartCreate(r, p) \/ StartUpdate(r, p)
        \/ FinishCreate(r) \/ FinishUpdate(r) \/ Reject(r)
        \/ StartImport(r) \/ FinishImport(r)
    \/ \E p \in Providers :
        \/ UpdateAtOnce(p) \/ DeleteProvider(p)
        \/ FinishRefresh(p) \/ RefreshFails(p)
    \/ StartRefresh \/ StartRefreshAll
    \/ \E f \in Flags : ToggleFlag(f)
    \/ SetCapabilities \/ ResetResponses \/ LearnResponses

StoreSpec == StoreInit /\ [][StoreNext]_storeVars

-----------------------------------------------------------------------------
(* Properties.                                                             *)

\* No model outlives its provider, whatever was in flight when it went
\* (database.py:526).
NoOrphans ==
    \A p \in Providers, m \in Models : ~Exists(p) => models[p][m] = NoRow

\* admin_keys and the values agree: what is marked is the administrator's,
\* and no value of his is left unmarked for the upstream to replace
\* (database.py:1508).
MarkedIsAdmins ==
    \A p \in Providers, m \in Models :
        models[p][m] # NoRow =>
            (models[p][m].marked <=> models[p][m].cap = "admin")

AdminSetsFlags ==
    \/ \E f \in Flags : ToggleFlag(f)
    \/ \E r \in Jobs : job[r].op = "import" /\ job'[r] = NoWork

\* discovery.py:247, database.py:1834: a model with a switch set keeps its row
\* and its switches through refreshes, saved provider forms and evidence; only
\* the switch itself, an import and the end of the provider change them.
AdminConfigSurvives ==
    [][\A p \in Providers, m \in Models :
        /\ models[p][m] # NoRow /\ models[p][m].flags # {}
        /\ Exists(p)' /\ models'[p][m] # models[p][m]
        /\ ~AdminSetsFlags
        => models'[p][m] # NoRow /\ models'[p][m].flags = models[p][m].flags]_storeVars

\* admin.py:60: "an empty api_key on write means keep what is stored".  The
\* code keeps it if the row had a key when the request read it: a stored key
\* is erased only by an update that began while the provider had none.
KeyLostOnlyToStaleUpdate ==
    [][\A p \in Providers :
        /\ Exists(p) /\ providers[p].key # NoKey
        /\ Exists(p)' /\ providers'[p].key = NoKey
        => \E r \in Jobs :
            /\ job[r] = [op |-> "update", provider |-> p, hadKey |-> FALSE]
            /\ job'[r] = NoWork]_storeVars
=============================================================================
