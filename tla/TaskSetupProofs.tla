-------------------------- MODULE TaskSetupProofs --------------------------
(***************************************************************************)
(* TLAPS proofs about TaskSetup, for any tasks, contents and requests, and *)
(* any finite set of installed plugins.                                    *)
(*                                                                         *)
(* What a create_task has answered for survives a kill because the request *)
(* is written for a task nobody was told of yet (Fresh), and what a        *)
(* builder checked stays true of the control plane because the definition  *)
(* it was built from does not change under it (Settled).  That no plugin   *)
(* shadows a built-in is a fact about discovery alone (CoreWins).          *)
(***************************************************************************)
EXTENDS TaskSetup, FiniteSetTheorems, FunctionTheorems, TLAPS

USE TaskSetupAssumption

-----------------------------------------------------------------------------
(* Discovery *)

\* An order of discovery holds every entry point, once, and none that is not
\* of the core distribution before one that is.
LEMMA OrderSound ==
    ASSUME NEW eps, IsFiniteSet(eps), NEW s \in core_first(eps)
    PROVE  /\ DOMAIN s = 1 .. Cardinality(eps) /\ Cardinality(eps) \in Nat
           /\ \A i \in DOMAIN s : s[i] \in eps
           /\ \A ep \in eps : \E i \in DOMAIN s : s[i] = ep
           /\ \A i, j \in DOMAIN s : s[i] = s[j] => i = j
           /\ \A i, j \in DOMAIN s : s[i].core /\ ~s[j].core => i < j
<1> DEFINE n == Cardinality(eps)
<1>1. n \in Nat
  BY FS_CardinalityType
<1>2. s \in [1 .. n -> eps] /\ \A i, j \in 1 .. n : i # j => s[i] # s[j]
  BY DEF core_first, SetToSeqs
<1>3. \A i, j \in 1 .. n : i < j => ~(s[j].core /\ ~s[i].core)
  BY <1>2 DEF core_first, Sorted
<1>4. s \in Injection(1 .. n, eps)
  BY <1>2 DEF Injection, IsInjective
<1>5. IsFiniteSet(1 .. n) /\ Cardinality(1 .. n) = n
  BY <1>1, FS_Interval
<1>6. s \in Surjection(1 .. n, eps)
  BY <1>4, <1>5, FS_Injection
<1>7. \A ep \in eps : \E i \in 1 .. n : s[i] = ep
  BY <1>6 DEF Surjection
<1>8. \A i, j \in 1 .. n : s[i].core /\ ~s[j].core => i < j
  BY <1>1, <1>2, <1>3
<1> QED
  BY <1>1, <1>2, <1>7, <1>8

\* What discovery ends with comes of some order and some outcomes.
Comes(core, plugins, c) ==
    \E installed \in SUBSET plugins :
    \E outcome \in [core \cup installed -> LoadOutcome] :
    \E order \in core_first(core \cup installed) : c = LoadAll(core, order, outcome)

LEMMA Discovered ==
    ASSUME NEW core, NEW plugins, NEW c \in load_plugins(core, plugins)
    PROVE  Comes(core, plugins, c)
<1> USE DEF Comes
<1>1. PICK installed \in SUBSET plugins : c \in Discover(core, core \cup installed)
  BY DEF load_plugins
<1>2. PICK outcome \in [core \cup installed -> LoadOutcome] :
          \E order \in core_first(core \cup installed) : c = LoadAll(core, order, outcome)
  BY <1>1 DEF Discover
<1> QED
  BY <1>2

\* Whose entry points are whose, and that no two of the core's clash.
CoreOnly(core, plugins) ==
    /\ \A ep \in core : ep.core = TRUE /\ ep.id = "core"
    /\ \A ep \in plugins : ep.core = FALSE
    /\ \A ep, fp \in core : \A r \in ep.registers, q \in fp.registers :
           r.name = q.name => ep = fp /\ r = q

\* The registry has the name, from the core distribution only.
OnlyCore(c, n) == {e.by : e \in {d \in c.registry : d.name = n}} = {"core"}

\* No installed plugin takes the name of a core entry point that loads: the
\* registry has that name, and only from the core distribution.
LEMMA CoreWins ==
    ASSUME NEW core, NEW plugins, IsFiniteSet(core), IsFiniteSet(plugins), CoreOnly(core, plugins),
           NEW installed \in SUBSET plugins,
           NEW outcome \in [core \cup installed -> LoadOutcome],
           NEW order \in core_first(core \cup installed),
           NEW c, c = LoadAll(core, order, outcome),
           NEW ep \in core, ep \notin c.failed, NEW r \in ep.registers
    PROVE  OnlyCore(c, r.name)
<1> USE DEF CoreOnly
<1> DEFINE eps == core \cup installed
<1>2. c.registry = UNION {load_one(order, outcome, i) : i \in DOMAIN order}
      /\ outcome[ep] = "ok"
  BY DEF LoadAll
<1>3. IsFiniteSet(eps)
  <2>1. IsFiniteSet(installed)
    BY FS_Subset
  <2> QED
    BY <2>1, FS_Union
<1> order \in core_first(eps)
  OBVIOUS
<1> HIDE DEF eps
<1>4. /\ \E n \in Nat : DOMAIN order = 1 .. n
      /\ \A i \in DOMAIN order : order[i] \in eps
      /\ \A x \in eps : \E i \in DOMAIN order : order[i] = x
      /\ \A i, j \in DOMAIN order : order[i] = order[j] => i = j
      /\ \A i, j \in DOMAIN order : order[i].core /\ ~order[j].core => i < j
  <2>1. /\ DOMAIN order = 1 .. Cardinality(eps) /\ Cardinality(eps) \in Nat
        /\ \A i \in DOMAIN order : order[i] \in eps
        /\ \A x \in eps : \E i \in DOMAIN order : order[i] = x
        /\ \A i, j \in DOMAIN order : order[i] = order[j] => i = j
        /\ \A i, j \in DOMAIN order : order[i].core /\ ~order[j].core => i < j
    BY <1>3, OrderSound
  <2> QED
    BY <2>1
<1>5. PICK k \in DOMAIN order : order[k] = ep
  BY <1>4 DEF eps
\* Whoever precedes a core entry point is core.
<1>6. ASSUME NEW j \in DOMAIN order, j < k
      PROVE  order[j] \in core
  <2>1. order[k].core
    BY <1>5
  <2>2. ~(k < j)
    BY <1>4, <1>6
  <2>3. order[j].core
    BY <1>4, <2>1, <2>2
  <2> QED
    BY <1>4, <2>3 DEF eps
\* Its name is free when its turn comes.
<1>7. r.name \notin Held(order, outcome, k)
  <2> SUFFICES ASSUME NEW j \in 1 .. k - 1, NEW q \in order[j].registers, q.name = r.name
               PROVE  FALSE
    BY DEF Held
  <2>1. j \in DOMAIN order /\ j < k
    BY <1>4
  <2>2. order[j] = ep
    BY <1>6, <2>1
  <2> QED
    BY <1>4, <1>5, <2>1, <2>2
<1> DEFINE own == [kind |-> r.kind, name |-> r.name, by |-> ep.id]
<1>8. own \in c.registry /\ own.name = r.name /\ own.by = "core"
  <2>1. own \in Registrations(ep)
    BY DEF Registrations
  <2>2. \A d \in Registrations(ep) : d.name = r.name => d.kind = r.kind
    BY DEF Registrations
  <2>3. own \in merge(Held(order, outcome, k), Registrations(ep))
    BY <1>7, <2>1, <2>2 DEF merge
  <2>4. own \in load_one(order, outcome, k)
    BY <1>2, <1>5, <2>3 DEF load_one
  <2> QED
    BY <1>2, <1>5, <2>4
\* Any other entry of that name comes later, when it is held.
<1>9. ASSUME NEW e \in c.registry, e.name = r.name
      PROVE  e.by = "core"
  <2>1. PICK i \in DOMAIN order : e \in load_one(order, outcome, i)
    BY <1>2, <1>9
  <2>2. e \in Registrations(order[i]) /\ e.name \notin Held(order, outcome, i)
    BY <2>1 DEF load_one, merge
  <2>3. CASE i > k
    <3>1. k \in {j \in 1 .. i - 1 : outcome[order[j]] = "ok"}
      BY <1>2, <1>4, <1>5, <2>3
    <3>2. r.name \in Held(order, outcome, i)
      BY <1>5, <3>1 DEF Held
    <3> QED
      BY <1>9, <2>2, <3>2
  <2>4. CASE ~(i > k)
    <3>1. order[i] \in core
      BY <1>4, <1>5, <1>6, <2>4
    <3> QED
      BY <2>2, <3>1 DEF Registrations
  <2> QED
    BY <2>3, <2>4
<1> QED
  BY <1>8, <1>9 DEF OnlyCore

\* The same of everything discovery can end with.
LEMMA CoreNamesAreCore ==
    ASSUME NEW core, NEW plugins, IsFiniteSet(core), IsFiniteSet(plugins), CoreOnly(core, plugins),
           NEW c \in load_plugins(core, plugins),
           NEW ep \in core, ep \notin c.failed, NEW r \in ep.registers
    PROVE  OnlyCore(c, r.name)
<1>1. PICK installed \in SUBSET plugins :
          \E outcome \in [core \cup installed -> LoadOutcome] :
          \E order \in core_first(core \cup installed) : c = LoadAll(core, order, outcome)
  <2>1. Comes(core, plugins, c)
    BY Discovered
  <2> QED
    BY <2>1 DEF Comes
<1>2. PICK outcome \in [core \cup installed -> LoadOutcome] :
          \E order \in core_first(core \cup installed) : c = LoadAll(core, order, outcome)
  BY <1>1
<1>3. PICK order \in core_first(core \cup installed) : c = LoadAll(core, order, outcome)
  BY <1>2
<1> QED
  BY <1>3, CoreWins

\* The built-ins are as CoreOnly wants them.
LEMMA BuiltIns ==
    /\ IsFiniteSet(CoreTaskTypes) /\ IsFiniteSet(CoreVerifierTypes)
    /\ CoreOnly(CoreTaskTypes, TaskPlugin) /\ CoreOnly(CoreVerifierTypes, VerifierPlugin)
<1>1. ASSUME NEW x, NEW y, NEW z
      PROVE  IsFiniteSet({x, y, z})
  <2>1. IsFiniteSet({x})
    BY FS_Singleton
  <2>2. IsFiniteSet({x} \cup {y})
    BY <2>1, FS_AddElement
  <2>3. IsFiniteSet(({x} \cup {y}) \cup {z})
    BY <2>2, FS_AddElement
  <2>4. ({x} \cup {y}) \cup {z} = {x, y, z}
    OBVIOUS
  <2> QED
    BY <2>3, <2>4
<1>2. IsFiniteSet(CoreTaskTypes) /\ IsFiniteSet(CoreVerifierTypes)
  BY <1>1 DEF CoreTaskTypes, CoreVerifierTypes
<1>3. CoreOnly(CoreTaskTypes, TaskPlugin)
  BY DEF CoreOnly, CoreTaskTypes, Core
<1>4. CoreOnly(CoreVerifierTypes, VerifierPlugin)
  BY DEF CoreOnly, CoreVerifierTypes, Core
<1> QED
  BY <1>2, <1>3, <1>4

-----------------------------------------------------------------------------
(* The inductive invariant *)

Creation == [task : Task, request : Request, files : SUBSET Content, left : SUBSET Content]

Types ==
    /\ request \in [Task -> Request \cup {None, Torn}]
    /\ objects \in [Task -> SUBSET Content]
    /\ given \in [Task -> {None} \cup SUBSET Content]
    /\ DOMAIN resident = Task /\ DOMAIN gate = Task
    /\ resident = [t \in Task |-> resident[t]] /\ gate = [t \in Task |-> gate[t]]
    /\ creating = None \/ creating \in Creation
    /\ minted \subseteq Task
    /\ up \in BOOLEAN

\* Nothing is written under an id before it is minted, and the task being
\* created has no definition yet and the files put so far.
Fresh ==
    /\ \A t \in Task : t \notin minted => request[t] = None /\ given[t] = None
    /\ creating # None =>
           /\ creating.task \in minted
           /\ request[creating.task] = None /\ given[creating.task] = None
           /\ creating.files \ creating.left \subseteq objects[creating.task]

\* A control plane was built from the definition that is there, and a
\* verifier set up for a control plane that is there.
Settled ==
    \A t \in Task :
        /\ resident[t] # None => get(t)
        /\ resident[t] # None /\ resident[t].by = "core" => request[t].type \in {"code", "fe-holdout", "fe-kaggle"}
        /\ gate[t] # None => resident[t] # None

Judges(t) ==
    LET own == CoreEntryPoint(CoreVerifierTypes, verifier_name(request[t].type))
    IN  own \notin gate[t].failed => gate[t].by = "core"

IInv ==
    /\ Types /\ Fresh /\ Settled
    /\ InputsDurable /\ KeyIsolated
    /\ up => catalog \in Catalogs
    /\ \A t \in Task : gate[t] # None => Judges(t)

\* A verifier image whose own entry point loaded judges with the core impl.
LEMMA CoreJudges ==
    ASSUME NEW type \in {"fe-holdout", "fe-kaggle"}, NEW v \in VerifierImages,
           NEW e \in v.registry, e.name = verifier_name(type),
           CoreEntryPoint(CoreVerifierTypes, verifier_name(type)) \notin v.failed
    PROVE  e.by = "core"
<1> DEFINE n == verifier_name(type)
           own == CoreEntryPoint(CoreVerifierTypes, n)
<1>1. \E ep \in CoreVerifierTypes : \E r \in ep.registers : r.name = n
  BY DEF CoreVerifierTypes, Core, verifier_name
<1>2. own \in CoreVerifierTypes /\ \E r \in own.registers : r.name = n
  BY <1>1 DEF CoreEntryPoint
<1>3. PICK r \in own.registers : r.name = n
  BY <1>2
<1>4. v \in load_plugins(CoreVerifierTypes, VerifierPlugin)
  BY DEF VerifierImages
<1> HIDE DEF n, own
<1>5. own \notin v.failed /\ e.name = n
  BY DEF n, own
<1>6. OnlyCore(v, r.name)
  BY <1>2, <1>3, <1>4, <1>5, BuiltIns, CoreNamesAreCore
<1> QED
  BY <1>3, <1>5, <1>6 DEF OnlyCore

\* What a core builder checked: the key is not among the agent's files.
LEMMA CheckedKey ==
    ASSUME NEW t \in Task, WellFormed(t), request[t].type # "code"
    PROVE  request[t].verifier[ANSWER_KEY_FILE] \notin Contents(request[t].agent)
<1>1. ANSWER_KEY_FILE \in DOMAIN request[t].verifier
  BY DEF WellFormed, build_fe_holdout_task, build_fe_kaggle_task, require_role_files,
         HOLDOUT_INPUT_FILES, KAGGLE_INPUT_FILES, ANSWER_KEY_FILE
<1>2. assert_answer_key_isolated(request[t].agent, request[t].verifier)
  BY DEF WellFormed, build_fe_holdout_task, build_fe_kaggle_task
<1> QED
  BY <1>1, <1>2 DEF assert_answer_key_isolated

LEMMA InitIInv == Init => IInv
  BY DEF Init, IInv, Types, Fresh, Settled, InputsDurable, KeyIsolated

-----------------------------------------------------------------------------
(* One lemma per kind of step *)

\* Boot and Ingest leave every task alone.
LEMMA DaemonInv ==
    ASSUME IInv, UNCHANGED <<creating, volume, given, resident, gate>>,
           up' \in BOOLEAN, up' => catalog' \in Catalogs
    PROVE  IInv'
  BY DEF IInv, Types, Fresh, Settled, InputsDurable, KeyIsolated, Judges, get, volume

LEMMA KillInv ==
    ASSUME IInv, Kill
    PROVE  IInv'
<1> USE DEF IInv, Types, Fresh, Settled, Kill
<1>1. /\ creating' = None /\ up' = FALSE /\ minted' = minted /\ objects' = objects /\ given' = given
      /\ \A t \in Task : resident'[t] = None /\ gate'[t] = None
  OBVIOUS
<1>2. request' \in [Task -> Request \cup {None, Torn}]
  BY DEF Creation
<1>3. \A t \in Task : request'[t] = request[t] \/ (creating # None /\ t = creating.task)
  BY DEF Creation
<1>4. Types'
  BY <1>1, <1>2
<1>5. Fresh'
  BY <1>1, <1>3
<1>6. InputsDurable'
  BY <1>1, <1>3 DEF InputsDurable, get
<1> QED
  BY <1>1, <1>4, <1>5, <1>6 DEF KeyIsolated

LEMMA CreateInv ==
    ASSUME IInv, NEW t \in Task, NEW r \in Request, NEW files \in SUBSET Content,
           CreateTask(t, r, files)
    PROVE  IInv'
<1>1. /\ creating' \in Creation /\ creating'.task = t /\ creating'.files = files /\ creating'.left = files
      /\ minted' = minted \cup {t} /\ t \notin minted
      /\ UNCHANGED <<daemon, objects, request, seeded, given, resident, gate>>
  BY DEF CreateTask, Creation
<1> QED
  BY <1>1 DEF IInv, Types, Fresh, Settled, InputsDurable, KeyIsolated, Judges, get, daemon

LEMMA PutFileInv ==
    ASSUME IInv, NEW c \in Content, PutFile(c)
    PROVE  IInv'
<1>1. creating \in Creation
  BY DEF PutFile, IInv, Types
<1>2. /\ creating' \in Creation /\ creating'.task = creating.task /\ creating'.files = creating.files
      /\ creating'.left = creating.left \ {c} /\ creating # None
      /\ UNCHANGED <<daemon, minted, request, seeded, given, resident, gate>>
  BY <1>1 DEF PutFile, Creation
<1>3. /\ objects' \in [Task -> SUBSET Content]
      /\ \A t \in Task : objects[t] \subseteq objects'[t]
      /\ c \in objects'[creating.task]
  BY <1>1 DEF PutFile, IInv, Types, Creation
<1> QED
  BY <1>1, <1>2, <1>3 DEF IInv, Types, Fresh, Settled, InputsDurable, KeyIsolated, Judges, get, daemon,
                          Creation

LEMMA PutRequestInv ==
    ASSUME IInv, PutRequest
    PROVE  IInv'
<1> DEFINE u == creating.task
<1>1. creating \in Creation /\ u \in Task /\ creating # None /\ creating.left = {}
  BY DEF PutRequest, IInv, Types, Creation
<1>2. /\ creating' = None
      /\ UNCHANGED <<daemon, minted, objects, seeded, resident, gate>>
      /\ request' = [request EXCEPT ![u] = creating.request]
      /\ given' = [given EXCEPT ![u] = creating.files]
  BY DEF PutRequest
<1>3. /\ u \in minted /\ request[u] = None /\ creating.files \subseteq objects[u]
      /\ resident[u] = None /\ gate[u] = None
  BY <1>1 DEF IInv, Fresh, Settled, get
<1>4. /\ request'[u] \in Request /\ given'[u] = creating.files
      /\ \A t \in Task : t # u => request'[t] = request[t] /\ given'[t] = given[t]
      /\ request' \in [Task -> Request \cup {None, Torn}]
      /\ given' \in [Task -> {None} \cup SUBSET Content]
  BY <1>1, <1>2 DEF IInv, Types, Creation
<1> HIDE DEF u
<1>5. Types' /\ Fresh'
  BY <1>1, <1>2, <1>3, <1>4 DEF IInv, Types, Fresh, daemon
<1>6. Settled'
  BY <1>2, <1>3, <1>4 DEF IInv, Settled, get
<1>7. InputsDurable'
  BY <1>2, <1>3, <1>4 DEF IInv, InputsDurable, get
<1>8. KeyIsolated' /\ \A t \in Task : gate'[t] # None => Judges(t)'
  BY <1>2, <1>3, <1>4 DEF IInv, KeyIsolated, Judges
<1> QED
  BY <1>2, <1>5, <1>6, <1>7, <1>8 DEF IInv, daemon

\* Any builder: the control plane made is well founded on the definition.
LEMMA BuildInv ==
    ASSUME IInv, NEW t \in Task, ToBuild(t),
           resident' = [resident EXCEPT ![t] = Configured(t)],
           Builder(t) = "core" => WellFormed(t),
           UNCHANGED <<daemon, creating, minted, objects, request, given, gate>>
    PROVE  IInv'
<1>1. /\ resident[t] = None /\ get(t) /\ gate[t] = None
  BY DEF ToBuild, IInv, Settled
<1>2. /\ resident'[t] = Configured(t)
      /\ \A x \in Task : x # t => resident'[x] = resident[x]
      /\ DOMAIN resident' = Task /\ resident' = [x \in Task |-> resident'[x]]
  BY DEF IInv, Types
<1>3. /\ Configured(t).by = Builder(t)
      /\ request[t].type # "code" => Configured(t).data = Contents(request[t].agent)
  BY DEF Configured
<1>4. Builder(t) = "core" =>
          /\ request[t].type \in {"code", "fe-holdout", "fe-kaggle"}
          /\ request[t].type # "code" =>
                 request[t].verifier[ANSWER_KEY_FILE] \notin Contents(request[t].agent)
  BY CheckedKey DEF WellFormed
<1>5. Types' /\ Fresh' /\ InputsDurable'
  BY <1>2 DEF IInv, Types, Fresh, InputsDurable, get, daemon
<1>6. Settled'
  BY <1>1, <1>2, <1>3, <1>4 DEF IInv, Settled, get
<1>7. KeyIsolated'
  BY <1>2, <1>3, <1>4 DEF IInv, KeyIsolated
<1> QED
  BY <1>5, <1>6, <1>7 DEF IInv, Judges, daemon

LEMMA SetUpInv ==
    ASSUME IInv, NEW t \in Task, NEW v \in VerifierImages, SetUpVerifier(t, v)
    PROVE  IInv'
<1>1. PICK e \in v.registry :
          /\ e.name = verifier_name(request[t].type)
          /\ gate' = [gate EXCEPT ![t] = [by |-> e.by, failed |-> v.failed]]
  BY DEF SetUpVerifier
<1>2. /\ resident[t] # None /\ request[t].type \in {"fe-holdout", "fe-kaggle"}
      /\ UNCHANGED <<daemon, creating, volume, given, resident>>
  BY DEF SetUpVerifier, IInv, Settled
<1>3. /\ gate'[t].by = e.by /\ gate'[t].failed = v.failed
      /\ \A x \in Task : x # t => gate'[x] = gate[x]
      /\ DOMAIN gate' = Task /\ gate' = [x \in Task |-> gate'[x]]
  BY <1>1 DEF IInv, Types
<1>4. Judges(t)'
  BY <1>1, <1>2, <1>3, CoreJudges DEF Judges, volume
<1>5. \A x \in Task : gate'[x] # None => Judges(x)'
  BY <1>2, <1>3, <1>4 DEF IInv, Judges, volume
<1>6. Types' /\ Fresh' /\ Settled' /\ InputsDurable' /\ KeyIsolated'
  BY <1>2, <1>3 DEF IInv, Types, Fresh, Settled, InputsDurable, KeyIsolated, get, volume, daemon
<1> QED
  BY <1>2, <1>5, <1>6 DEF IInv, daemon

LEMMA StepIInv == IInv /\ [Next]_vars => IInv'
<1> SUFFICES ASSUME IInv, [Next]_vars PROVE IInv'
  OBVIOUS
<1>1. ASSUME NEW c \in Catalogs, Boot(c) PROVE IInv'
  BY <1>1, DaemonInv DEF Boot, bootable, IInv, Types
<1>2. ASSUME NEW c \in Content, Ingest(c) PROVE IInv'
  BY <1>2, DaemonInv DEF Ingest, IInv, Types
<1>3. ASSUME NEW t \in Task, Build(t) PROVE IInv'
  BY <1>3, BuildInv DEF Build
<1>4. ASSUME NEW t \in Task, BuildFails(t) PROVE IInv'
  BY <1>4 DEF BuildFails, IInv, Types, Fresh, Settled, InputsDurable, KeyIsolated, Judges, get, daemon
<1>5. ASSUME NEW t \in Task, PluginBuilds(t) PROVE IInv'
  BY <1>5, BuildInv DEF PluginBuilds
<1>6. CASE UNCHANGED vars
  BY <1>6 DEF vars, IInv, Types, Fresh, Settled, InputsDurable, KeyIsolated, Judges, get, daemon, volume
<1> QED
  BY <1>1, <1>2, <1>3, <1>4, <1>5, <1>6, KillInv, CreateInv, PutFileInv, PutRequestInv, SetUpInv DEF Next

\* It holds of every reachable state.
LEMMA Invariance == Spec => []IInv
  BY InitIInv, StepIInv, PTL DEF Spec

-----------------------------------------------------------------------------
(* The theorems *)

\* What create_task has answered for survives every kill and boot.
THEOREM InputsSurvive == Spec => []InputsDurable
<1>1. IInv => InputsDurable
  BY DEF IInv
<1> QED
  BY <1>1, Invariance, PTL

\* No core task's agent is given the answer key's bytes.
THEOREM KeyStaysIsolated == Spec => []KeyIsolated
<1>1. IInv => KeyIsolated
  BY DEF IInv
<1> QED
  BY <1>1, Invariance, PTL

\* No installed package takes over a built-in that loads.
THEOREM BuiltInsPrevail == Spec => []NeverShadowed
<1>1. IInv => NeverShadowed
  <2> SUFFICES ASSUME IInv PROVE NeverShadowed
    OBVIOUS
  <2>1. ASSUME up, NEW ep \in CoreTaskTypes \ catalog.failed, NEW r \in ep.registers
        PROVE  OnlyCore(catalog, r.name)
    <3>1. catalog \in load_plugins(CoreTaskTypes, TaskPlugin)
      BY <2>1 DEF IInv, Catalogs
    <3> QED
      BY <2>1, <3>1, BuiltIns, CoreNamesAreCore
  <2>2. \A t \in Task : gate[t] # None => Judges(t)
    BY DEF IInv
  <2> QED
    BY <2>1, <2>2 DEF NeverShadowed, OnlyCore, Judges
<1> QED
  BY <1>1, Invariance, PTL

=============================================================================
