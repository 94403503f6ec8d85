--------------------------- MODULE ContextBuilder ---------------------------
(***************************************************************************)
(* Before a decision cycle's prompt is rendered, the context_ref of its    *)
(* task is resolved: every container it names is put to the resolver chain *)
(* (this process's world, its task rows, then the platform's project,      *)
(* organization, service and task registries) and a task expands, one hop, *)
(* to the project its world is in. Runs build concurrently; the registries *)
(* are read through caches that all runs share, each under its own lock.   *)
(***************************************************************************)
EXTENDS Naturals, Sequences, FiniteSets

CONSTANTS
  Builds,          \* cycles that may be resolving at the same time
  Refs,            \* the context_refs their tasks carry: functions type -> id
  Projects, Orgs, Tasks,
  Serving,         \* the organizations that have services registered
  CatalogueId,     \* the id the department catalogue's row has, NoValue for none
  ProjectLists,    \* what the project registry may hold at first
  RegistryTasks,   \* the task registry: the project of each task, NoValue for no such row
  Containers,      \* ids registered in this process's own world
  StoreTask,       \* project named by this process's own task rows, NoValue for none
  TTL, FailureTTL, \* how long an answer, and a failure, is reused
  MaxBuilds, MaxClock, MaxEdits, MaxMisses,   \* bounds
  NoValue

ASSUME ContextAssumption ==
  /\ TTL \in Nat \ {0} /\ FailureTTL \in 1..TTL
  /\ {MaxBuilds, MaxClock, MaxEdits, MaxMisses} \subseteq Nat
  /\ {StoreTask, RegistryTasks} \subseteq [Tasks -> Projects \cup {NoValue}]

VARIABLES
  clock,
  projects,      \* the project registry: the organization of each project
  cache,         \* what each registry resolver remembers: [at, ok, data]
  build,         \* each cycle's build, NoValue when it has none
  started,       \* builds begun (a bound)
  edits, misses

registries == <<projects, edits>>
contextVars == <<clock, projects, cache, build, started, edits, misses>>

maxContextRefs == 8
Registries == {"project", "organization", "service", "task"}
NoData == [x \in {} |-> NoValue]
With(f, k, v) == [x \in DOMAIN f \cup {k} |-> IF x = k THEN v ELSE f[x]]

ContextInit ==
  /\ clock = 1 /\ started = 0 /\ edits = 0 /\ misses = 0
  /\ projects \in ProjectLists
  /\ cache = [g \in Registries |-> [at |-> 0, ok |-> FALSE, data |-> NoData]]
  /\ build = [b \in Builds |-> NoValue]

-----------------------------------------------------------------------------
(* The platform: external *)

\* A project moves to another organization.
ProjectMoves ==
  /\ edits < MaxEdits /\ edits' = edits + 1
  /\ \E p \in Projects : \E o \in Orgs \ {projects[p]} : projects' = [projects EXCEPT ![p] = o]
  /\ UNCHANGED <<clock, cache, build, started, misses>>

Tick == clock < MaxClock /\ clock' = clock + 1 /\ UNCHANGED <<registries, cache, build, started, misses>>

-----------------------------------------------------------------------------
(* A registry read through its cache *)

\* mutant: an answer is reused for as long as the process lives
KeptForever(c) == c.at # 0 /\ (c.ok \/ clock - c.at < FailureTTL)

fresh(c) == c.at # 0 /\ clock - c.at < (IF c.ok THEN TTL ELSE FailureTTL)

Row(g, id) == CASE g = "project" -> [of |-> id, v |-> projects[id]]
                [] g = "task" -> [of |-> id, v |-> RegistryTasks[id]]
                [] g = "organization" -> [of |-> id, v |-> CatalogueId[id]]
                [] OTHER -> [of |-> id, v |-> id \in Serving]

\* What a successful read leaves: the project registry serves its whole list,
\* the others one row, added to the rows already held; a task that does not
\* exist adds none. A row carries the time it was read.
Loaded(g, id, held) ==
  CASE g = "project" -> [p \in Projects |-> [row |-> Row(g, p), read |-> clock]]
    [] g = "task" /\ RegistryTasks[id] = NoValue -> held
    [] OTHER -> With(held, id, [row |-> Row(g, id), read |-> clock])

\* A fresh answer is reused; otherwise the registry is read, and a failing
\* read drops every row held.
Outcomes(g, id) ==
  IF fresh(cache[g]) THEN {[cache |-> cache[g], err |-> FALSE]}
  ELSE {[cache |-> [at |-> clock, ok |-> TRUE, data |-> Loaded(g, id, cache[g].data)], err |-> FALSE]}
       \cup {[cache |-> [at |-> clock, ok |-> FALSE, data |-> NoData], err |-> TRUE] :
               x \in IF misses < MaxMisses THEN {1} ELSE {}}

\* mutant: the row read last is the answer, whatever id was asked for
LatestRow(c, id) ==
  IF c.ok /\ DOMAIN c.data # {}
    THEN LET k == CHOOSE k \in DOMAIN c.data : \A j \in DOMAIN c.data : c.data[j].read <= c.data[k].read
         IN [row |-> c.data[k].row, age |-> clock - c.data[k].read]
    ELSE NoValue

Answer(c, id) ==
  IF c.ok /\ id \in DOMAIN c.data
    THEN [row |-> c.data[id].row, age |-> clock - c.data[id].read] ELSE NoValue

-----------------------------------------------------------------------------
(* Build *)

\* A section's fields. `name` is this process's own, the rest the registries'.
NoFields == [local |-> FALSE, project |-> NoValue, org |-> NoValue, dept |-> NoValue, services |-> NoValue, task |-> NoValue]

\* namedRefs: sorted by type; these may expand.
namedRefs(ref) ==
  SelectSeq([i \in 1..3 |-> LET t == <<"project", "task", "team">>[i]
                            IN [type |-> t, id |-> IF t \in DOMAIN ref THEN ref[t] ELSE NoValue, expand |-> TRUE]],
            LAMBDA r : r.id # NoValue)

Begin(b) ==
  /\ build[b] = NoValue /\ started < MaxBuilds /\ started' = started + 1
  /\ \E ref \in Refs : build' = [build EXCEPT ![b] =
       [ref |-> ref, queue |-> namedRefs(ref), pos |-> 1, at |-> "take", seen |-> {},
        fields |-> NoFields, sections |-> NoData]]
  /\ UNCHANGED <<clock, registries, cache, misses>>

Stands(b, stage) == build[b] # NoValue /\ build[b].at = stage
Item(b) == build[b].queue[build[b].pos]
Key(r) == <<r.type, r.id>>

\* contextWorldResolver and contextTaskResolver, which ask no registry, and the
\* first registry that has something to say about a ref of this type.
OwnFields(item) == [NoFields EXCEPT !.local = item.id \in Containers]
Asked(item) == IF item.type \in {"project", "task"} THEN item.type ELSE "close"

\* The next ref: one already resolved is skipped, and the cap ends the build.
Take(b) ==
  /\ Stands(b, "take")
  /\ LET B == build[b] IN
     build' = [build EXCEPT ![b] =
       IF B.pos > Len(B.queue) THEN [B EXCEPT !.at = "done"]
       ELSE IF Key(Item(b)) \in B.seen THEN [B EXCEPT !.pos = @ + 1]
       ELSE IF Cardinality(DOMAIN B.sections) >= maxContextRefs THEN [B EXCEPT !.at = "done"]
       ELSE [B EXCEPT !.seen = @ \cup {Key(Item(b))}, !.fields = OwnFields(Item(b)), !.at = Asked(Item(b))]]
  /\ UNCHANGED <<clock, registries, cache, started, misses>>

F(b) == build[b].fields

\* What an answer adds to the fields. An organization with no services is silence.
Merge(f, g, a) ==
  CASE g = "project" -> [f EXCEPT !.project = a, !.org = a.row.v]
    [] g = "organization" -> [f EXCEPT !.dept = a]
    [] g = "service" -> IF a.row.v THEN [f EXCEPT !.services = a] ELSE f
    [] OTHER -> [f EXCEPT !.task = a]

\* organization["id"]: the project row's, until the catalogue's answer replaces
\* the whole object, its id included.
OrganizationId(f) == IF f.dept = NoValue THEN f.org ELSE f.dept.row.v

\* Without an organization there is no department and no service to ask for.
Afterwards(f, g) ==
  CASE g = "project" -> IF f.org = NoValue THEN "close" ELSE "organization"
    [] g = "organization" -> IF OrganizationId(f) = NoValue THEN "close" ELSE "service"
    [] OTHER -> "close"

\* One registry resolver: its answer is merged into the fields; a failing one
\* contributes nothing and the build goes on.
Resolve(b, g, id) ==
  /\ Stands(b, g)
  /\ \E o \in Outcomes(g, id) :
       LET a == Answer(o.cache, id)
           fields == IF o.err \/ a = NoValue THEN F(b) ELSE Merge(F(b), g, a)
       IN /\ cache' = [cache EXCEPT ![g] = o.cache]
          /\ misses' = IF o.err THEN misses + 1 ELSE misses
          /\ build' = [build EXCEPT ![b].fields = fields, ![b].at = Afterwards(fields, g)]
  /\ UNCHANGED <<clock, registries, started>>

AskProject(b) == Resolve(b, "project", Item(b).id)
\* The organization is the one the project registry's answer named.
AskOrganization(b) == Resolve(b, "organization", F(b).org)
AskServices(b) == Resolve(b, "service", OrganizationId(F(b)))
AskTask(b) == Resolve(b, "task", Item(b).id)

\* ExtraRefs of the task rows, then of the task registry, whose answer is read
\* back from the cache, fresh or not. What they name does not expand again.
ExtraRefs(item) ==
  LET rows == cache["task"].data
      named == <<StoreTask[item.id],
                 IF cache["task"].ok /\ item.id \in DOMAIN rows THEN rows[item.id].row.v ELSE NoValue>>
  IN IF item.type # "task" \/ ~item.expand THEN <<>>
     ELSE [i \in 1..2 |-> [type |-> "project", id |-> named[i], expand |-> FALSE]]

\* The section is kept under its type; its id is the ref's own.
Close(b) ==
  /\ Stands(b, "close")
  /\ LET B == build[b]
         extra == SelectSeq(ExtraRefs(Item(b)), LAMBDA r : r.id # NoValue /\ Key(r) \notin B.seen)
     IN build' = [build EXCEPT ![b] =
          [B EXCEPT !.sections = With(@, Item(b).type, [id |-> Item(b).id, fields |-> B.fields]),
                    !.queue = @ \o extra, !.pos = @ + 1, !.at = "take"]]
  /\ UNCHANGED <<clock, registries, cache, started, misses>>

\* The cycle's prompt is rendered from the sections, and the build is gone.
Rendered(b) ==
  /\ Stands(b, "done") /\ build' = [build EXCEPT ![b] = NoValue]
  /\ UNCHANGED <<clock, registries, cache, started, misses>>

BuildStep(b) == \/ Begin(b) \/ Take(b) \/ AskProject(b) \/ AskOrganization(b)
           \/ AskServices(b) \/ AskTask(b) \/ Close(b) \/ Rendered(b)

ContextNext == ProjectMoves \/ Tick \/ \E b \in Builds : BuildStep(b)
ContextSpec == ContextInit /\ [][ContextNext]_contextVars

-----------------------------------------------------------------------------
(* Properties *)

Sections(b) == IF build[b] = NoValue THEN {} ELSE {build[b].sections[t] : t \in DOMAIN build[b].sections}

\* A project's facts in a prompt were the registry's no longer than TTL before
\* the resolver was asked: the list is read as a whole, so it ages as a whole.
ProjectWithinTTL ==
  \A b \in Builds : \A s \in Sections(b) :
    s.fields.project # NoValue => s.fields.project.age < TTL

\* A section is about one world: the project row is the section's own, the
\* department in it is that of the organization the row names, and the services
\* are those of the organization the section shows, whatever other runs had the
\* shared caches read in between.
OneWorld ==
  \A b \in Builds : \A s \in Sections(b) :
    /\ s.fields.project # NoValue => s.fields.project.row.of = s.id /\ s.fields.org = s.fields.project.row.v
    /\ s.fields.dept # NoValue => s.fields.dept.row.of = s.fields.org
    /\ s.fields.services # NoValue => s.fields.services.row.of = OrganizationId(s.fields)

\* "The ref's own id and type are always in the result, because they are what
\* the task said." [violated: Sections is keyed by type, and the project a task
\* expands to replaces the project the ref named]
NamedStays ==
  \A b \in Builds : Stands(b, "done") =>
    \A t \in DOMAIN build[b].ref : t \in DOMAIN build[b].sections /\ build[b].sections[t].id = build[b].ref[t]

\* defaultTTL is how long a successful read is reused. [violated: a read of one
\* department renews the cache that holds the others]
DepartmentWithinTTL ==
  \A b \in Builds : \A s \in Sections(b) :
    s.fields.dept # NoValue => s.fields.dept.age < TTL
=============================================================================
