---------------------------- MODULE ConfigStore ----------------------------
(***************************************************************************)
(* app/config.py and app/core/runtime_config.py: the configuration file,   *)
(* its copy in memory, and the values that have to be pushed into running  *)
(* objects.  The file holds what somebody wrote; the copy in memory is the *)
(* file filled up with the defaults of the installed version, and it must  *)
(* never be written back whole: a default that is written down is not      *)
(* replaced by the one of the next version.                                *)
(*                                                                         *)
(* Every handler that writes or reloads settings runs to its end on the    *)
(* event loop, so each of them is one step here.  The other writer is the  *)
(* administrator's editor, which takes no lock.                            *)
(***************************************************************************)
EXTENDS Integers, TLC

CONSTANTS
    Limit,      \* the key "request_log_max", whose value sizes the log in memory
    Option,     \* a key that is read from memory at every use
    MaxVersion  \* the newest release of the gateway

ASSUME SettingsAssumption == Limit # Option /\ MaxVersion \in Nat \ {0}

Names == {Limit, Option}

\* The settings page lets through what the schema allows; an editor does not
\* check anything: -1 stands for the values that a hook refuses.
Allowed == 1..MaxVersion
Settings == [{} -> Allowed] \cup [{Limit} -> Allowed \cup {-1}] \cup [{Option} -> Allowed]
            \cup [Names -> Allowed]

VARIABLES
    release,    \* the installed version
    file,       \* [form, values]: "absent", "object", "list" (valid JSON, no object), "broken"
    memory,     \* ConfigManager.config's defaults: [form, values], "none" before load()
    capacity,   \* _request_log.maxlen
    wanted,     \* history: what somebody wrote into the file
    unseen      \* history: keys edited by hand since the last load

config == <<release, file, memory, capacity, wanted, unseen>>

Forms == {"absent", "object", "list", "broken"}
Nothing == [k \in {} |-> 0]

\* default_config() of a release: every release brings a default of its own.
Default(k) == release

Filled(values) == [k \in Names |-> IF k \in DOMAIN values THEN values[k] ELSE Default(k)]

\* block.update(values) and block.pop(key).
Updated(values, new) ==
    [k \in DOMAIN values \cup DOMAIN new |-> IF k \in DOMAIN new THEN new[k] ELSE values[k]]
Without(values, keys) == [k \in DOMAIN values \ keys |-> values[k]]

ConfigInit ==
    /\ release = 1
    /\ \/ file = [form |-> "absent", values |-> Nothing]
       \/ \E v \in Settings : file = [form |-> "object", values |-> v]
    /\ memory = [form |-> "none", values |-> Nothing]
    /\ capacity = 0
    /\ wanted = file.values
    /\ unseen = {}

----------------------------------------------------------------------------
(* load(): what it makes of the file.  It assigns the parsed value before  *)
(* it looks at it, so a file that is JSON but no object replaces the       *)
(* settings in memory and fails after that.  A missing file is written,    *)
(* with every default in it.                                               *)

LoadFails == file.form \in {"list", "broken"}

Load ==
    \/ /\ file.form = "absent"
       /\ memory' = [form |-> "object", values |-> Filled(Nothing)]
       /\ file' = [form |-> "object", values |-> Filled(Nothing)]
       /\ wanted' = Filled(Nothing) /\ unseen' = {}
    \/ /\ file.form = "object"
       /\ memory' = [form |-> "object", values |-> Filled(file.values)]
       /\ unseen' = {}
       /\ UNCHANGED <<file, wanted>>
    \/ /\ file.form = "list"
       /\ memory' = [form |-> "list", values |-> Nothing]
       /\ UNCHANGED <<file, wanted, unseen>>
    \/ /\ file.form = "broken"
       /\ UNCHANGED <<file, memory, wanted, unseen>>

----------------------------------------------------------------------------
(* patch(): the file is read again, the named keys are changed in it, it   *)
(* is replaced in one step, and the same keys are changed in memory.       *)

\* Slip: the settings in memory are written back whole.
PatchedFileWhole(new, keys) == Updated(Without(memory.values, keys), new)

\* What patch writes to the file, for the keys to set and to remove.
PatchedFile(new, keys) == Updated(Without(file.values, keys), new)

\* ... and what it leaves in memory, with _fill_defaults at the end.
PatchedMemory(new, keys) == Filled(Updated(Without(memory.values, keys), new))

\* A file that cannot be parsed, or that cannot be replaced, changes nothing;
\* a missing one starts as an empty object.
Patch(new, keys) ==
    /\ file.form \in {"absent", "object"}
    /\ file' = [form |-> "object", values |-> PatchedFile(new, keys)]
    /\ memory' = [memory EXCEPT !.values = PatchedMemory(new, keys)]
    /\ wanted' = Updated(Without(wanted, keys), new)
    /\ unseen' = unseen \ (keys \cup DOMAIN new)

----------------------------------------------------------------------------
(* apply_runtime_config(): each registered hook takes its values; one that *)
(* fails is reported, and its object stays as it was.                      *)

HookFails(values) == values[Limit] < 0

Pushed(values, old) == IF HookFails(values) THEN old ELSE values[Limit]

----------------------------------------------------------------------------
(* The administrator at the file, by hand: a key is written or taken out,  *)
(* the file is damaged, or a damaged one is put right.                     *)

Edit ==
    /\ UNCHANGED <<release, memory, capacity>>
    /\ \/ /\ file.form = "object"
          /\ \E k \in Names, new \in Settings :
                /\ DOMAIN new \subseteq {k}
                /\ file' = [file EXCEPT !.values = Updated(Without(@, {k}), new)]
                /\ wanted' = Updated(Without(wanted, {k}), new)
                /\ unseen' = unseen \cup {k}
       \/ /\ file.form = "object"
          /\ \E form \in {"list", "broken"} : file' = [file EXCEPT !.form = form]
          /\ UNCHANGED <<wanted, unseen>>
       \/ /\ file.form \in {"list", "broken"}
          /\ file' = [file EXCEPT !.form = "object"]
          /\ UNCHANGED <<wanted, unseen>>
=============================================================================
