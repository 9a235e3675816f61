----------------------------- MODULE TaskSetup -----------------------------
(***************************************************************************)
(* From a client's files and request to a configured task: discovery of    *)
(* task and verifier types from entry points (composition/loader.py,       *)
(* verifier/registry.py), ingestion and creation (service/http.py,         *)
(* ControlService.create_task, TaskIndex), and the catalog builders        *)
(* (composition/code.py, fe_holdout.py, fe_kaggle.py).                     *)
(*                                                                         *)
(* Creation and building run on the event loop without an await that       *)
(* suspends, so nothing interleaves with them, but the daemon can be       *)
(* killed between any two writes and is booted again on the same volume,   *)
(* perhaps with other packages installed. Runs are ControlService's.       *)
(***************************************************************************)
EXTENDS Naturals, FiniteSets, Sequences, SequencesExt

CONSTANTS Task,           \* daemon task ids (uuids: never minted twice)
          Content,        \* file contents; a hash identifies its content
          Request,        \* the task definitions clients send
          TaskPlugin,     \* third-party entry points of "verity.task_types"
          VerifierPlugin, \* third-party entry points of "verity.verifier_types"
          None, Torn,     \* no value; a half-written request.json
          MaxBoots        \* bound on the boots of the daemon

\* A package other than the core distribution does not have its name.
ASSUME TaskSetupAssumption ==
    /\ {None, Torn} \cap Request = {} /\ None # Torn
    /\ IsFiniteSet(TaskPlugin) /\ IsFiniteSet(VerifierPlugin)
    /\ \A ep \in TaskPlugin \cup VerifierPlugin : ep.core = FALSE

VARIABLES
    catalog,    \* what the daemon serves, and which core entry points failed
    up,         \* the daemon is serving
    boots,
    staging,    \* contents ingested over HTTP and not lost since
    creating,   \* the create_task in progress, or None
    minted,     \* task ids handed out; their store is open
    objects,    \* [Task -> SUBSET Content]: the object store of each task
    request,    \* [Task -> Request \cup {None, Torn}]: request.json
    given,      \* [Task -> SUBSET Content \cup {None}]: files of an answered create_task
    seeded,     \* tasks whose store holds the root artifact "ds"
    resident,   \* [Task -> Resident \cup {None}]: configured control planes
    gate        \* [Task -> Gate \cup {None}]: the verifier set up for the last run

daemon == <<catalog, up, boots, staging>>
volume == <<minted, objects, request, seeded>>
vars == <<daemon, creating, volume, given, resident, gate>>

-----------------------------------------------------------------------------
(* Discovery *)

\* Entry points: the rank of the name, the distribution, what they register.
\* "setup" builders take the task's data, "impl" builders none; a task type
\* has just the one kind.
Core(n, k, t) == [id |-> "core", name |-> n, core |-> TRUE, registers |-> {[kind |-> k, name |-> t]}]

CoreTaskTypes == {Core(1, "setup", "code"), Core(2, "setup", "fe-holdout"),
                  Core(3, "setup", "fe-kaggle")}

CoreVerifierTypes == {Core(1, "impl", "fake"), Core(2, "setup", "fe-kaggle"),
                      Core(3, "setup", "holdout-experiment")}

BUILTIN_TASK_TYPES == {"code", "fe-kaggle"}

Sorted(s, Before(_, _)) ==
    \A i, j \in DOMAIN s : i < j => ~Before(s[j], s[i])

\* Mutant: entry points are loaded in the order of their names alone.
ByName(eps) == {s \in SetToSeqs(eps) : Sorted(s, LAMBDA a, b : a.name < b.name)}

\* The orders a stable sort by (core first, name) can leave the discovered
\* entry points in.
core_first(eps) ==
    {s \in SetToSeqs(eps) : Sorted(s, LAMBDA a, b :
        (a.core /\ ~b.core) \/ (a.core = b.core /\ a.name < b.name))}

has(registry, n) == \E e \in registry : e.name = n

Registrations(ep) == {[kind |-> r.kind, name |-> r.name, by |-> ep.id] : r \in ep.registers}

\* What new registrations add beside the names held: the incumbent wins, and
\* of one plugin's own registrations the "impl" ones are merged first.
merge(held, new) ==
    {e \in new : /\ e.name \notin held
                 /\ e.kind = "setup" => ~\E d \in new : d.name = e.name /\ d.kind = "impl"}

\* The names held when the turn of the i-th entry point comes.
Held(order, outcome, i) ==
    UNION {{r.name : r \in order[j].registers} : j \in {k \in 1 .. i - 1 : outcome[order[k]] = "ok"}}

\* An entry point that does not import, is not callable or raises while it
\* registers is skipped: it registers into a scratch registry first.
load_one(order, outcome, i) ==
    IF outcome[order[i]] = "ok" THEN merge(Held(order, outcome, i), Registrations(order[i])) ELSE {}

LoadOutcome == {"ok", "unusable", "raises"}

\* The entry points loaded in that order, with those outcomes.
LoadAll(core, order, outcome) ==
    [registry |-> UNION {load_one(order, outcome, i) : i \in DOMAIN order},
     failed |-> {ep \in core : outcome[ep] # "ok"}]

\* Every registry that discovery can end with, given the core entry points and
\* the installed ones, each loading or not, and any set of those.
Discover(core, eps) ==
    UNION {{LoadAll(core, order, outcome) : order \in core_first(eps)} :
           outcome \in [eps -> LoadOutcome]}

load_plugins(core, plugins) ==
    UNION {Discover(core, core \cup installed) : installed \in SUBSET plugins}

Catalogs == load_plugins(CoreTaskTypes, TaskPlugin)
VerifierImages == load_plugins(CoreVerifierTypes, VerifierPlugin)

NoCatalog == [registry |-> {}, failed |-> {}]

\* default_catalog refuses to boot without the built-in types.
bootable(c) == \A n \in BUILTIN_TASK_TYPES : has(c.registry, n)

-----------------------------------------------------------------------------
(* Requests *)

ANSWER_KEY_FILE == "holdout_labels.csv"
AGENT_INPUT_FILES == {"train.csv", "test.csv"}
HOLDOUT_INPUT_FILES == {"train.csv", "holdout.csv", ANSWER_KEY_FILE}
KAGGLE_INPUT_FILES == HOLDOUT_INPUT_FILES \cup {"full_train.csv", "test.csv"}

\* A role's files: the names given, each with its content.
Contents(files) == {files[n] : n \in DOMAIN files}

AllContents(r) == Contents(r.agent) \cup Contents(r.verifier)

require_role_files(files, expected) == expected \subseteq DOMAIN files

\* Mutant: the agent's files are looked through for the name of the key only.
NameIsolated(agent, verifier) == ANSWER_KEY_FILE \notin DOMAIN agent

\* By content, whatever the file is called.
assert_answer_key_isolated(agent, verifier) ==
    ANSWER_KEY_FILE \in DOMAIN verifier => verifier[ANSWER_KEY_FILE] \notin Contents(agent)

\* What the builder of a core type checks before it writes anything: the files
\* are named, the slug is given, the blobs can be read, the key is not leaked.
build_code_task(t) == TRUE

build_fe_holdout_task(t) ==
    LET r == request[t]
    IN  /\ require_role_files(r.agent, AGENT_INPUT_FILES)
        /\ require_role_files(r.verifier, HOLDOUT_INPUT_FILES)
        /\ AllContents(r) \subseteq objects[t]
        /\ assert_answer_key_isolated(r.agent, r.verifier)

build_fe_kaggle_task(t) ==
    LET r == request[t]
    IN  /\ require_role_files(r.agent, AGENT_INPUT_FILES)
        /\ require_role_files(r.verifier, KAGGLE_INPUT_FILES)
        /\ r.competition
        /\ AllContents(r) \subseteq objects[t]
        /\ assert_answer_key_isolated(r.agent, r.verifier)

WellFormed(t) ==
    \/ request[t].type = "code" /\ build_code_task(t)
    \/ request[t].type = "fe-holdout" /\ build_fe_holdout_task(t)
    \/ request[t].type = "fe-kaggle" /\ build_fe_kaggle_task(t)

\* The verifier service a task type is wired to; "code" gates in-process.
verifier_name(type) == IF type = "fe-holdout" THEN "holdout-experiment" ELSE type

-----------------------------------------------------------------------------
(* The daemon's life *)

Init ==
    /\ catalog = NoCatalog /\ up = FALSE /\ boots = 0 /\ staging = {}
    /\ creating = None
    /\ minted = {} /\ seeded = {}
    /\ objects = [t \in Task |-> {}]
    /\ request = [t \in Task |-> None]
    /\ given = [t \in Task |-> None]
    /\ resident = [t \in Task |-> None]
    /\ gate = [t \in Task |-> None]

\* main and build_service: the catalog is discovered once, at boot, and a
\* daemon that lacks a built-in type does not come up.
Boot(c) ==
    /\ ~up
    /\ boots < MaxBoots
    /\ boots' = boots + 1
    /\ up' = bootable(c)
    /\ catalog' = IF bootable(c) THEN c ELSE NoCatalog
    /\ UNCHANGED <<staging, creating, volume, given, resident, gate>>

\* The daemon is killed. A request.json being written may be left torn.
Kill ==
    /\ up
    /\ up' = FALSE
    /\ catalog' = NoCatalog
    /\ staging' = {}
    /\ creating' = None
    /\ IF creating # None /\ creating.left = {}
       THEN request' \in {request, [request EXCEPT ![creating.task] = Torn]}
       ELSE UNCHANGED request
    /\ resident' = [t \in Task |-> None]
    /\ gate' = [t \in Task |-> None]
    /\ UNCHANGED <<boots, minted, objects, seeded, given>>

\* A handler can run: the event loop is not inside create_task.
Serving == up /\ creating = None

-----------------------------------------------------------------------------
(* Creating a task *)

\* POST /objects: the bytes are staged in memory under their hash.
Ingest(c) ==
    /\ Serving
    /\ staging' = staging \cup {c}
    /\ UNCHANGED <<catalog, up, boots, creating, volume, given, resident, gate>>

\* POST /tasks with a known type and handles that are all staged: an id is
\* minted and its store opened. Contents the request only names by hash are not
\* looked at.
CreateTask(t, r, files) ==
    /\ Serving
    /\ has(catalog.registry, r.type)
    /\ files \subseteq AllContents(r) \cap staging
    /\ t \notin minted
    /\ minted' = minted \cup {t}
    /\ creating' = [task |-> t, request |-> r, files |-> files, left |-> files]
    /\ UNCHANGED <<daemon, objects, request, seeded, given, resident, gate>>

\* with_role_file: one file into the task's object store, its hash stamped.
PutFile(c) ==
    /\ creating # None
    /\ c \in creating.left
    /\ objects' = [objects EXCEPT ![creating.task] = @ \cup {c}]
    /\ creating' = [creating EXCEPT !.left = @ \ {c}]
    /\ UNCHANGED <<daemon, minted, request, seeded, given, resident, gate>>

\* Mutant: the request is persisted, and the client answered, before its files.
PutRequestFirst ==
    /\ creating # None
    /\ request[creating.task] = None
    /\ request' = [request EXCEPT ![creating.task] = creating.request]
    /\ given' = [given EXCEPT ![creating.task] = creating.files]
    /\ creating' = IF creating.left = {} THEN None ELSE creating
    /\ UNCHANGED <<daemon, minted, objects, seeded, resident, gate>>

\* TaskIndex.put, and the id is returned.
PutRequest ==
    /\ creating # None
    /\ creating.left = {}
    /\ request' = [request EXCEPT ![creating.task] = creating.request]
    /\ given' = [given EXCEPT ![creating.task] = creating.files]
    /\ creating' = None
    /\ UNCHANGED <<daemon, minted, objects, seeded, resident, gate>>

-----------------------------------------------------------------------------
(* Building a control plane *)

\* TaskIndex.get: there is a request.json and it parses.
get(t) == request[t] \notin {None, Torn}

\* _resident_cp finds no cached one and a request it can read, and the catalog
\* has a builder of its type.
ToBuild(t) ==
    /\ Serving
    /\ resident[t] = None
    /\ get(t)
    /\ has(catalog.registry, request[t].type)

Builder(t) == (CHOOSE e \in catalog.registry : e.name = request[t].type).by

\* The agent's files become the workspace's data/, the verifier's its setup;
\* "code" takes no client data.
Configured(t) ==
    IF request[t].type = "code"
    THEN [by |-> Builder(t), data |-> {}, setup |-> {}]
    ELSE [by |-> Builder(t), data |-> Contents(request[t].agent),
          setup |-> Contents(request[t].verifier)]

\* A core builder runs to its end: the root is proposed under a fixed id, which
\* only a store without one takes, and the control plane is configured.
Build(t) ==
    /\ ToBuild(t) /\ Builder(t) = "core"
    /\ WellFormed(t)
    /\ t \notin seeded
    /\ request[t].type # "code" => request[t].provisioning
    /\ seeded' = seeded \cup {t}
    /\ resident' = [resident EXCEPT ![t] = Configured(t)]
    /\ UNCHANGED <<daemon, creating, minted, objects, request, given, gate>>

\* It raises, or the daemon is about to be killed, when the root is proposed:
\* the provisioning spec does not parse, or configure fails.
BuildFails(t) ==
    /\ ToBuild(t) /\ Builder(t) = "core"
    /\ WellFormed(t)
    /\ t \notin seeded
    /\ seeded' = seeded \cup {t}
    /\ UNCHANGED <<daemon, creating, minted, objects, request, given, resident, gate>>

\* A plugin's builder: the requests it takes and the root it seeds are its own.
PluginBuilds(t) ==
    /\ ToBuild(t) /\ Builder(t) # "core"
    /\ seeded' \in {seeded, seeded \cup {t}}
    /\ resident' = [resident EXCEPT ![t] = Configured(t)]
    /\ UNCHANGED <<daemon, creating, minted, objects, request, given, gate>>

\* A run of a core feature-engineering task launches its verifier image and
\* sets it up. build_server_from_env exits when the image lacks the name; a
\* server with a fixed "impl" refuses the setup.
SetUpVerifier(t, v) ==
    /\ Serving
    /\ resident[t] # None /\ resident[t].by = "core" /\ request[t].type # "code"
    /\ \E e \in v.registry :
           /\ e.name = verifier_name(request[t].type)
           /\ e.kind = "setup"
           /\ gate' = [gate EXCEPT ![t] = [by |-> e.by, failed |-> v.failed]]
    /\ UNCHANGED <<daemon, creating, volume, given, resident>>

Next ==
    \/ \E c \in Catalogs : Boot(c)
    \/ Kill
    \/ \E c \in Content : Ingest(c) \/ PutFile(c)
    \/ \E t \in Task, r \in Request, files \in SUBSET Content : CreateTask(t, r, files)
    \/ PutRequest
    \/ \E t \in Task : Build(t) \/ BuildFails(t) \/ PluginBuilds(t)
    \/ \E t \in Task, v \in VerifierImages : SetUpVerifier(t, v)

Spec == Init /\ [][Next]_vars

-----------------------------------------------------------------------------
(* Properties *)

\* The entry point of the core distribution that registers n.
CoreEntryPoint(eps, n) == CHOOSE ep \in eps : \E r \in ep.registers : r.name = n

\* No installed package shadows a built-in that loads, whatever it registers,
\* however it is named and in whichever order it is discovered: the control
\* plane of a built-in type was made by the core builder, and the verifier that
\* judges it is the core one. (A built-in whose own entry point fails to load
\* can be taken over, and the boot check does not notice.)
NeverShadowed ==
    /\ up => \A ep \in CoreTaskTypes \ catalog.failed : \A r \in ep.registers :
           {e.by : e \in {d \in catalog.registry : d.name = r.name}} = {"core"}
    /\ \A t \in Task : gate[t] # None =>
           LET own == CoreEntryPoint(CoreVerifierTypes, verifier_name(request[t].type))
           IN  own \notin gate[t].failed => gate[t].by = "core"

\* The answer key's bytes are nowhere in the data of the agent of a core task,
\* under whatever name and by whichever way they came into the task's store.
KeyIsolated ==
    \A t \in Task :
        /\ resident[t] # None /\ resident[t].by = "core"
        /\ request[t].type # "code"
        => request[t].verifier[ANSWER_KEY_FILE] \notin resident[t].data

\* Once create_task has answered, the task is there after any kill and boot:
\* its definition parses and every file it was given is in its store.
InputsDurable ==
    \A t \in Task : given[t] # None =>
        /\ get(t)
        /\ given[t] \subseteq objects[t]
==============================================================================
