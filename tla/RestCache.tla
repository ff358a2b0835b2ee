------------------------------ MODULE RestCache ------------------------------
(***************************************************************************)
(* The REST response cache of qx_rest: readers fill it through a cached    *)
(* viewset (caches.py), and save() and delete() of a model with a          *)
(* cache_config clear it (models.py), synchronously or through a celery    *)
(* task (tasks.py).                                                        *)
(*                                                                         *)
(* The database, Redis and the processes interleave at every call that     *)
(* leaves a process: one action is one database statement, one Redis       *)
(* command or one broker call.  Rows carry the number of the write that    *)
(* produced them instead of their columns.                                 *)
(***************************************************************************)
EXTENDS RestCacheKey, Sequences, FiniteSets

CONSTANTS
  Rows,          \* primary keys of the model
  Kids,          \* rows of another model that point at it (foreign_set)
  Parent,        \* [Kids -> Rows]
  Users,         \* the users rows belong to and requests come from
  Owners,        \* [Rows -> SUBSET Users]: the owners a row may be given
  KidActions,    \* the cached actions whose response shows kids
  Rules,         \* the entries of the model's cache_config, in the order
                 \* default, foreign, custom of save() and delete()
  Registered,    \* the actions whose viewset this process has imported
  ReloadData,    \* cache_config["reload_data"]
  Deletable,     \* the rows the application deletes
  Readers, Writers, Workers,
  MaxWrites,     \* bound: write requests in a behaviour
  MaxFaults      \* bound: crashes in a behaviour

Ids(a) == IF a \in KidActions THEN Kids ELSE Rows

Keys ==
  UNION { { get_rest_cache_key(a, id, u, get_query_params_encode(q, Cfg[a])) :
              id \in Ids(a), u \in Users, q \in Queries } : a \in Actions }

Methods == {"create", "update", "delete"}

(* What one step of a clearing list does: a key to clear, or the point at  *)
(* which computing the list raises.                                        *)
FAIL == NULL

Objects == [row : Rows \cup {NULL}, owner : Users]

(* A key to clear has no code; Step is a place in a clearing list.         *)
Target ==
  [ key : [action : Actions, row : Rows \cup Kids \cup {NULL}, user : Users \cup {NULL},
           code : {NULL}],
    is_pattern : BOOLEAN ]

Step == [at : Nat, op : Target \cup {FAIL}]

CacheRules ==
  [ set : {"default", "foreign", "custom"}, actions : SUBSET Actions,
    async_actions : SUBSET Actions, skip : SUBSET Methods ]

ASSUME ConstantsAssumption ==
  /\ KidActions \subseteq Actions
  /\ Parent \in [Kids -> Rows]
  /\ Owners \in [Rows -> SUBSET Users]
  /\ Rules \in Seq(CacheRules)
  /\ \A a \in Actions : Cfg[a].query_params \in BOOLEAN
  /\ Writers \cap Workers = {}
  /\ MaxWrites \in Nat
  /\ MaxFaults \in Nat
  /\ NULL \notin Rows \cup Kids \cup Users \cup Target \cup Objects

Base(a, id) == IF a \in KidActions THEN Parent[id] ELSE id

VARIABLES
  db,       \* [Rows -> [ver, owner] or NULL], the committed rows
  born,     \* the primary keys ever allocated; none is allocated twice
  cache,    \* Redis: [Keys -> response or NULL]
  reader,   \* a request being served by a cached viewset
  writer,   \* a request inside save() or delete()
  todo,     \* [Writers \cup Workers -> clearing steps still to run]
  scan,     \* [Writers \cup Workers -> keys a pattern matched, not deleted yet]
  tasks,    \* celery's queue of async_clear_cache_task
  writes, faults,
  raced,    \* history: stale entries written by a read overtaken by a clearing
  dropped   \* history: keys whose last clearing was lost and not made up for

vars == <<db, born, cache, reader, writer, todo, scan, tasks, writes, faults,
          raced, dropped>>

Agents == Writers \cup Workers

-----------------------------------------------------------------------------
(* What the response of a key shows: the rows its queryset selects.        *)

Shows(k, r) ==
  \E id \in Ids(k.action) : /\ Base(k.action, id) = r
                            /\ k.row # NULL => k.row = id

Scope(k) ==
  { r \in Rows : /\ db[r] # NULL
                 /\ Shows(k, r)
                 /\ k.user # NULL => db[r].owner = k.user }

View(k) == [ r \in Scope(k) |-> db[r].ver ]

Responses == UNION { [S -> 0..MaxWrites] : S \in SUBSET Rows }

Stale(k) == cache[k] # NULL /\ cache[k] # View(k)

-----------------------------------------------------------------------------
(* The clearing list a write builds from cache_config.                     *)

(* The instances a rule walks: a foreign rule the rows of foreign_set,     *)
(* each seen with the in-memory owner of the instance it hangs from.       *)
Walked(o, rule) ==
  IF rule.set = "foreign" THEN { [row |-> k, owner |-> o.owner] :
                                   k \in { k \in Kids : Parent[k] = o.row } }
  ELSE {o}

(* cfg is None for an action whose viewset was not imported, and a detail  *)
(* action other than retrieve has no detail_field unless it is written.    *)
Unresolved(a) ==
  \/ a \notin Registered
  \/ Cfg[a].detail /\ Cfg[a].detail_field = NULL

(* _empty_func is returned, not called, for a skipped method, and the      *)
(* caller cannot unpack it into two lists.                                 *)
Raises(o, rule, method) ==
  \/ method \in rule.skip
  \/ /\ rule.set # "custom"
     /\ Walked(o, rule) # {}
     /\ \E a \in rule.actions : Unresolved(a)

Targets(o, rule, actions) ==
  { clear_target(a, x.row, x.owner) : a \in actions, x \in Walked(o, rule) }

(* Mutants: the synchronous actions are left to the task; the task's keys  *)
(* are never collected.                                                    *)
SyncOpsDeferred(o, rule, method) == IF Raises(o, rule, method) THEN {FAIL} ELSE {}
AsyncOpsNone(o, rule, method) == {}

(* _default_clear_cache, _foreign_clear_cache, _custom_clear_cache: the    *)
(* synchronous half, or the point of failure.                              *)
SyncOps(o, rule, method) ==
  IF Raises(o, rule, method) THEN {FAIL}
  ELSE Targets(o, rule, rule.actions \ rule.async_actions)

AsyncOps(o, rule, method) ==
  IF Raises(o, rule, method) THEN {}
  ELSE Targets(o, rule, rule.actions \cap rule.async_actions)

(* Steps run in the order of "at": the rules in order for the instance     *)
(* being saved, then for the row as reload_data read it.  Steps of one     *)
(* rule share their place.                                                 *)
RuleNumbers == 1..Len(Rules)

Place(i, j) == i * Len(Rules) + j

(* Mutant: the row as it was before the save is not walked.                *)
InstancesNoOrigin(self, origin) == {<<0, self>>}

Instances(self, origin) ==
  {<<0, self>>} \cup (IF origin = NULL THEN {} ELSE {<<1, origin>>})

StepsAt(place, ops) == { [at |-> place, op |-> t] : t \in ops }

SyncSteps(instances, method, js) ==
  UNION { StepsAt(Place(x[1], j), SyncOps(x[2], Rules[j], method)) :
            x \in instances, j \in js }

AsyncSteps(instances, method, js) ==
  UNION { StepsAt(Place(x[1], j), AsyncOps(x[2], Rules[j], method)) :
            x \in instances, j \in js }

(* save() tells a creation by the missing primary key.                     *)
SaveMethod(self) == IF self.row = NULL THEN "create" ELSE "update"

RulesOf(sets) == { j \in RuleNumbers : Rules[j].set \in sets }

(* The keys a set of steps will clear.                                     *)
Reaches(steps, k) == \E s \in steps : s.op # FAIL /\ clears(s.op, k)

(* The keys agent a still has to clear on behalf of a committed write: its *)
(* steps, a scan it is in the middle of, and a task it has not sent yet.   *)
OwedBy(a) ==
  IF a \in Workers \/ writer[a].pc = "clear"
  THEN { k \in Keys : \/ Reaches(todo[a], k)
                      \/ k \in scan[a]
                      \/ a \in Writers /\ Reaches(writer[a].late, k) }
  ELSE {}

Next1(a) == { s \in todo[a] : \A s2 \in todo[a] : s.at <= s2.at }

(* What a cache_config has to say for its clearing to reach every cached   *)
(* action: some rule names the action for every method, in a process that  *)
(* has imported the viewset; a foreign rule clears in the task unless rows *)
(* are never deleted; a key with a code is cleared by pattern; and rows    *)
(* never change hands, or one request at a time changes them and           *)
(* reload_data tells it whose they were.                                   *)
ClearsAlways(a, rule) ==
  /\ a \in rule.actions
  /\ rule.skip = {}
  /\ rule.set # "custom" => \A b \in rule.actions : ~Unresolved(b)
  /\ rule.set = "foreign" <=> a \in KidActions
  /\ rule.set = "foreign" => a \in rule.async_actions \/ Deletable = {}

OwnersFixed == \A r \in Rows : \E u \in Users : Owners[r] = {u}

OneWriter == \A v, w \in Writers : v = w

WellConfigured ==
  /\ \A a \in Actions : \E j \in RuleNumbers : ClearsAlways(a, Rules[j])
  /\ EveryCodeCleared
  /\ OwnersFixed \/ (ReloadData /\ OneWriter)

IdleReader == [pc |-> "idle", key |-> NULL, data |-> NULL, overtaken |-> FALSE]

AtRest(pc) == [pc |-> pc, self |-> NULL, origin |-> NULL, late |-> {}, id |-> 0]

-----------------------------------------------------------------------------
Init ==
  /\ born \in SUBSET Rows
  /\ db \in [Rows -> [ver : {0}, owner : Users] \cup {NULL}]
  /\ \A r \in Rows : /\ db[r] # NULL <=> r \in born
                     /\ db[r] # NULL => db[r].owner \in Owners[r]
  /\ cache = [k \in Keys |-> NULL]
  /\ reader = [x \in Readers |-> IdleReader]
  /\ writer = [w \in Writers |-> AtRest("idle")]
  /\ todo = [a \in Agents |-> {}]
  /\ scan = [a \in Agents |-> {}]
  /\ tasks = {}
  /\ writes = 0
  /\ faults = 0
  /\ raced = {}
  /\ dropped = {}

-----------------------------------------------------------------------------
(* Readers: _cache_retrieve and _cache_list.                               *)

(* get_data_by_redis: a hit is served, a miss goes to the database.  Every *)
(* response is a dict with something in it ("results" for a list of no     *)
(* rows), so "if not data" is a miss.                                      *)
Get(x, k) ==
  /\ reader[x].pc = "idle"
  /\ cache[k] = NULL
  /\ reader' = [reader EXCEPT ![x].pc = "load", ![x].key = k]
  /\ UNCHANGED <<db, born, cache, writer, todo, scan, tasks, writes, faults,
                 raced, dropped>>

(* _default_retrieve, _default_list: the query; a missing row is a 404.    *)
Load(x) ==
  LET k == reader[x].key IN
  /\ reader[x].pc = "load"
  /\ reader' = [reader EXCEPT ![x] =
       IF Cfg[k.action].detail /\ Scope(k) = {}
       THEN IdleReader
       ELSE [@ EXCEPT !.pc = "fill", !.data = View(k)]]
  /\ UNCHANGED <<db, born, cache, writer, todo, scan, tasks, writes, faults,
                 raced, dropped>>

(* set_data_to_redis: an unconditional SET.                                *)
Fill(x) ==
  LET k == reader[x].key IN
  /\ reader[x].pc = "fill"
  /\ cache' = [cache EXCEPT ![k] = reader[x].data]
  /\ raced' = IF reader[x].overtaken /\ reader[x].data # View(k)
              THEN raced \cup {k} ELSE raced \ {k}
  /\ reader' = [reader EXCEPT ![x] = IdleReader]
  /\ UNCHANGED <<db, born, writer, todo, scan, tasks, writes, faults, dropped>>

-----------------------------------------------------------------------------
(* Clearing, by a writer or a worker.                                      *)

(* The keys in K are cleared now: whatever a reader still holds for them   *)
(* it will write after the clearing.                                       *)
Cleared(K) ==
  /\ cache' = [k \in Keys |-> IF k \in K THEN NULL ELSE cache[k]]
  /\ reader' = [x \in Readers |->
       IF reader[x].pc = "fill" /\ reader[x].key \in K
       THEN [reader[x] EXCEPT !.overtaken = TRUE] ELSE reader[x]]
  /\ raced' = raced \ K
  /\ dropped' = dropped \ K

(* clear_cache of an exact key: one DEL.                                   *)
ClearKey(a) ==
  \E s \in Next1(a) :
    /\ scan[a] = {}
    /\ s.op # FAIL
    /\ ~s.op.is_pattern
    /\ todo' = [todo EXCEPT ![a] = @ \ {s}]
    /\ Cleared({ k \in Keys : clears(s.op, k) })
    /\ UNCHANGED <<db, born, writer, scan, tasks, writes, faults>>

(* clear_by_pattern: SCAN fixes the keys that will be deleted; a key that  *)
(* matches and is written later stays.                                     *)
Scan(a) ==
  \E s \in Next1(a) :
    LET matching == { k \in Keys : clears(s.op, k) }
        present  == { k \in matching : cache[k] # NULL } IN
    /\ scan[a] = {}
    /\ s.op # FAIL
    /\ s.op.is_pattern
    /\ todo' = [todo EXCEPT ![a] = @ \ {s}]
    /\ scan' = [scan EXCEPT ![a] = present]
    /\ Cleared(matching \ present)
    /\ UNCHANGED <<db, born, writer, tasks, writes, faults>>

(* clear_by_pattern: the DEL calls, one key at a time.                     *)
DeleteScanned(a) ==
  \E k \in scan[a] :
    /\ scan' = [scan EXCEPT ![a] = @ \ {k}]
    /\ Cleared({k})
    /\ UNCHANGED <<db, born, writer, todo, tasks, writes, faults>>

-----------------------------------------------------------------------------
(* Writers: the request that loads, changes and saves or deletes a row.    *)

Free(w) == writer[w].pc \in {"idle", "raised"} /\ writes < MaxWrites

(* CreateModelMixin.create: an instance without a primary key.             *)
New(w, u) ==
  /\ Free(w)
  /\ writer' = [writer EXCEPT ![w] =
       [pc |-> "save", self |-> [row |-> NULL, owner |-> u], origin |-> NULL,
        late |-> {}, id |-> writes + 1]]
  /\ writes' = writes + 1
  /\ UNCHANGED <<db, born, cache, reader, todo, scan, tasks, faults, raced, dropped>>

(* get_object in UpdateModelMixin and DestroyModelMixin.                   *)
LoadObject(w, r) ==
  /\ Free(w)
  /\ db[r] # NULL
  /\ writer' = [writer EXCEPT ![w] =
       [pc |-> "loaded", self |-> [row |-> r, owner |-> db[r].owner], origin |-> NULL,
        late |-> {}, id |-> writes + 1]]
  /\ writes' = writes + 1
  /\ UNCHANGED <<db, born, cache, reader, todo, scan, tasks, faults, raced, dropped>>

(* An instance that is given its primary key, as one with a one-to-one     *)
(* primary key (QxUserInfo) is: save() takes its creation for an update.   *)
NewWithKey(w, r, u) ==
  /\ Free(w)
  /\ r \notin born /\ u \in Owners[r]
  /\ writer' = [writer EXCEPT ![w] =
       [pc |-> "loaded", self |-> [row |-> r, owner |-> u], origin |-> NULL,
        late |-> {}, id |-> writes + 1]]
  /\ writes' = writes + 1
  /\ UNCHANGED <<db, born, cache, reader, todo, scan, tasks, faults, raced, dropped>>

(* save(), up to super().save(): the instance got a new owner or keeps the *)
(* one it was loaded with; reload_data reads the row again.                *)
BeginSave(w, u) ==
  LET row == writer[w].self.row IN
  /\ writer[w].pc = "loaded"
  /\ u \in Owners[row] \cup {writer[w].self.owner}
  /\ ReloadData => db[row] # NULL
  /\ writer' = [writer EXCEPT ![w] =
       [pc |-> "save", self |-> [row |-> row, owner |-> u],
        origin |-> IF ReloadData THEN [row |-> row, owner |-> db[row].owner] ELSE NULL,
        late |-> {}, id |-> writer[w].id]]
  /\ UNCHANGED <<db, born, cache, reader, todo, scan, tasks, writes, faults,
                 raced, dropped>>

(* objects.get raises DoesNotExist for a row deleted meanwhile.            *)
ReloadMissing(w) ==
  /\ writer[w].pc = "loaded"
  /\ ReloadData
  /\ db[writer[w].self.row] = NULL
  /\ writer' = [writer EXCEPT ![w] = AtRest("raised")]
  /\ UNCHANGED <<db, born, cache, reader, todo, scan, tasks, writes, faults,
                 raced, dropped>>

(* super().save(): the row is committed and the clearing list is built.    *)
(* An update of a row deleted meanwhile inserts it again.                  *)
CommitSave(w) ==
  \E r \in Rows :
    LET method == SaveMethod(writer[w].self)
        self   == [writer[w].self EXCEPT !.row = r]
        objs   == Instances(self, writer[w].origin) IN
    /\ writer[w].pc = "save"
    /\ IF method = "create" THEN r \notin born /\ self.owner \in Owners[r]
       ELSE r = writer[w].self.row
    /\ db' = [db EXCEPT ![r] = [ver |-> writer[w].id, owner |-> self.owner]]
    /\ born' = born \cup {r}
    /\ todo' = [todo EXCEPT ![w] = SyncSteps(objs, method, RuleNumbers)]
    /\ writer' = [writer EXCEPT ![w].pc = "clear", ![w].self = self,
                                ![w].late = AsyncSteps(objs, method, RuleNumbers)]
    /\ UNCHANGED <<cache, reader, scan, tasks, writes, faults, raced, dropped>>

(* delete(), up to super().delete(): every list is computed, the keys of   *)
(* the default and custom rules are kept, those of the foreign rules are   *)
(* cleared at once.                                                        *)
BeginDelete(w) ==
  LET objs == Instances(writer[w].self, NULL) IN
  /\ writer[w].pc = "loaded"
  /\ writer[w].self.row \in Deletable
  /\ todo' = [todo EXCEPT ![w] =
       SyncSteps(objs, "delete", RulesOf({"foreign"})) \cup
       { s \in SyncSteps(objs, "delete", RuleNumbers) : s.op = FAIL }]
  /\ writer' = [writer EXCEPT ![w].pc = "delete"]
  /\ UNCHANGED <<db, born, cache, reader, scan, tasks, writes, faults,
                 raced, dropped>>

(* super().delete(), then the kept keys; nothing happens to a row that is  *)
(* already gone.                                                           *)
CommitDelete(w) ==
  LET objs == Instances(writer[w].self, NULL) IN
  /\ writer[w].pc = "delete"
  /\ todo[w] = {} /\ scan[w] = {}
  /\ db' = [db EXCEPT ![writer[w].self.row] = NULL]
  /\ todo' = [todo EXCEPT ![w] =
       SyncSteps(objs, "delete", RulesOf({"default", "custom"}))]
  /\ writer' = [writer EXCEPT ![w].pc = "clear",
                              ![w].late = AsyncSteps(objs, "delete", RuleNumbers)]
  /\ UNCHANGED <<born, cache, reader, scan, tasks, writes, faults, raced, dropped>>

(* Computing a rule's list raises: what is left of the list is forgotten.  *)
RaiseTypeError(w) ==
  /\ \E s \in Next1(w) : s.op = FAIL
  /\ scan[w] = {}
  /\ dropped' = dropped \cup OwedBy(w)
  /\ todo' = [todo EXCEPT ![w] = {}]
  /\ writer' = [writer EXCEPT ![w] = AtRest("raised")]
  /\ UNCHANGED <<db, born, cache, reader, scan, tasks, writes, faults, raced>>

(* apply_async with the keys collected on the way; save() returns.         *)
Dispatch(w) ==
  /\ writer[w].pc = "clear"
  /\ todo[w] = {} /\ scan[w] = {}
  /\ tasks' = IF writer[w].late = {} THEN tasks
              ELSE tasks \cup {[id |-> writer[w].id, steps |-> writer[w].late]}
  /\ writer' = [writer EXCEPT ![w] = AtRest("idle")]
  /\ UNCHANGED <<db, born, cache, reader, todo, scan, writes, faults, raced, dropped>>

(* A celery worker takes async_clear_cache_task, in any order.             *)
Take(a) ==
  \E t \in tasks :
    /\ todo[a] = {} /\ scan[a] = {}
    /\ tasks' = tasks \ {t}
    /\ todo' = [todo EXCEPT ![a] = t.steps]
    /\ UNCHANGED <<db, born, cache, reader, writer, scan, writes, faults, raced, dropped>>

-----------------------------------------------------------------------------
(* The environment.                                                        *)

(* A process dies, or Redis or the broker fails it, between two calls:     *)
(* the clearings it still had to do are lost.                              *)
Crash(a) ==
  /\ faults < MaxFaults
  /\ IF a \in Writers THEN writer[a].pc \in {"save", "delete", "clear"}
     ELSE OwedBy(a) # {}
  /\ faults' = faults + 1
  /\ dropped' = dropped \cup OwedBy(a)
  /\ todo' = [todo EXCEPT ![a] = {}]
  /\ scan' = [scan EXCEPT ![a] = {}]
  /\ writer' = IF a \in Writers
               THEN [writer EXCEPT ![a] = AtRest("raised")] ELSE writer
  /\ UNCHANGED <<db, born, cache, reader, tasks, writes, raced>>

(* The timeout passes, Redis evicts, or the glob of another id's clearing  *)
(* ("list:1*") takes this key along.                                       *)
Expire(k) ==
  /\ cache[k] # NULL
  /\ cache' = [cache EXCEPT ![k] = NULL]
  /\ UNCHANGED <<db, born, reader, writer, todo, scan, tasks, writes, faults,
                 raced, dropped>>

-----------------------------------------------------------------------------
ClearStep(a) == ClearKey(a) \/ Scan(a) \/ DeleteScanned(a)

WriterStep(w) ==
  \/ ClearStep(w)
  \/ CommitSave(w)
  \/ CommitDelete(w)
  \/ RaiseTypeError(w)
  \/ Dispatch(w)

Next ==
  \/ \E x \in Readers : (\E k \in Keys : Get(x, k)) \/ Load(x) \/ Fill(x)
  \/ \E w \in Writers :
       \/ \E u \in Users : New(w, u) \/ BeginSave(w, u)
       \/ \E r \in Rows : LoadObject(w, r) \/ \E u \in Users : NewWithKey(w, r, u)
       \/ ReloadMissing(w)
       \/ BeginDelete(w)
       \/ WriterStep(w)
       \/ Crash(w)
  \/ \E a \in Workers : Take(a) \/ ClearStep(a) \/ Crash(a)
  \/ \E k \in Keys : Expire(k)

Spec == Init /\ [][Next]_vars

(* A request that entered save() or delete() runs on, and celery runs its  *)
(* queue; nothing obliges a client to send another request.                *)
Fairness ==
  /\ \A w \in Writers : WF_vars(WriterStep(w))
  /\ \A a \in Workers : WF_vars(ClearStep(a)) /\ WF_vars(Take(a))

FairSpec == Spec /\ Fairness

-----------------------------------------------------------------------------
(* Properties.                                                             *)

ReaderRecords ==
  [ pc : {"idle", "load", "fill"}, key : Keys \cup {NULL},
    data : Responses \cup {NULL}, overtaken : BOOLEAN ]

WriterRecords ==
  [ pc : {"idle", "loaded", "save", "delete", "clear", "raised"},
    self : Objects \cup {NULL}, origin : Objects \cup {NULL},
    late : SUBSET Step, id : 0..MaxWrites ]

(* A writer that is not at rest holds an instance, with a primary key      *)
(* unless it is being created.                                             *)
HasInstance(v) ==
  /\ v.pc \in {"loaded", "save", "delete"} => v.self \in Objects
  /\ v.pc \in {"loaded", "delete"} => v.self.row \in Rows
  /\ v.pc = "delete" => v.self.row \in Deletable

(* The variables keep their types.                                         *)
TypeOK ==
  /\ db \in [Rows -> [ver : 0..MaxWrites, owner : Users] \cup {NULL}]
  /\ born \in SUBSET Rows
  /\ cache \in [Keys -> Responses \cup {NULL}]
  /\ reader \in [Readers -> ReaderRecords]
  /\ \A x \in Readers :
       /\ reader[x].pc # "idle" => reader[x].key \in Keys
       /\ reader[x].pc = "fill" => reader[x].data \in Responses
  /\ writer \in [Writers -> WriterRecords]
  /\ \A w \in Writers : HasInstance(writer[w])
  /\ todo \in [Agents -> SUBSET Step]
  /\ scan \in [Agents -> SUBSET Keys]
  /\ tasks \in SUBSET [id : 0..MaxWrites, steps : SUBSET Step]
  /\ writes \in 0..MaxWrites
  /\ faults \in 0..MaxFaults
  /\ raced \in SUBSET Keys
  /\ dropped \in SUBSET Keys

Owed(k) ==
  \/ \E a \in Agents : k \in OwedBy(a)
  \/ \E t \in tasks : Reaches(t.steps, k)

(* "Saving and deleting keep the caches of the model's REST interfaces in  *)
(* sync": a cached response that differs from the database is one that a   *)
(* committed write, a worker or a queued task is still going to clear.     *)
(* Two exceptions: a read that a clearing overtook put the response there, *)
(* and the process that owed the clearing died or raised.                  *)
StaleIsOwed ==
  \A k \in Keys : Stale(k) => Owed(k) \/ k \in raced \cup dropped

(* The same of a response on its way to Redis: between the query and the   *)
(* SET of a request, what it read is current, or its key will be cleared   *)
(* again, or was cleared in between.                                       *)
PendingFillIsOwed ==
  \A x \in Readers, k \in Keys :
    reader[x].pc = "fill" /\ reader[x].key = k /\ reader[x].data # View(k)
      => Owed(k) \/ reader[x].overtaken \/ k \in dropped

(* When no save() or delete() is running, the actions no rule clears       *)
(* asynchronously are in sync: what a caller may count on when save()      *)
(* returns.                                                                *)
LateActions == UNION { Rules[j].async_actions : j \in 1..Len(Rules) }

SyncWhenReturned ==
  (\A w \in Writers : writer[w].pc # "clear")
    => \A k \in Keys : Stale(k) /\ k.action \notin LateActions
                         => k \in raced \cup dropped

(* A stale response does not stay: the clearing that is owed is done, for  *)
(* the asynchronous actions once a worker gets to it.                      *)
StaleIsCleared ==
  \A k \in Keys :
    Stale(k) /\ k \notin raced \cup dropped
      ~> (~Stale(k) \/ k \in raced \cup dropped)

(* "create", "update" and "delete" of a rule say whether that method       *)
(* clears: no value of them makes save() or delete() raise.                *)
SkipDoesNotRaise ==
  \A w \in Writers : \A s \in todo[w] : s.op # FAIL

(* The same sync promise with no exception for overtaken reads: as long as *)
(* nothing dies, a response that differs from the database is going to be  *)
(* cleared.                                                                *)
SyncUnlessDropped ==
  \A k \in Keys : Stale(k) => Owed(k) \/ k \in dropped
===========================================================================
