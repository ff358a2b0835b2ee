--------------------------- MODULE RestCacheProofs ---------------------------
(***************************************************************************)
(* Proofs about RestCache, for every viewset, model and set of processes.  *)
(***************************************************************************)
EXTENDS RestCache, TLAPS

(* A rule number is an index of Rules, and its entry has the entry's type. *)
LEMMA RuleType ==
  ASSUME NEW j \in RuleNumbers
  PROVE  /\ j \in Nat
         /\ Rules[j].set \in {"default", "foreign", "custom"}
         /\ Rules[j].actions \in SUBSET Actions
         /\ Rules[j].async_actions \in SUBSET Actions
         /\ Rules[j].skip \in SUBSET Methods
  <1>1. Rules[j] \in CacheRules /\ j \in Nat
    BY ConstantsAssumption DEF RuleNumbers
  <1> QED BY <1>1 DEF CacheRules

(* The clearing target of an action, an id and a user is a Target.         *)
LEMMA TargetType ==
  ASSUME NEW a \in Actions, NEW id \in Rows \cup Kids \cup {NULL},
         NEW u \in Users \cup {NULL}
  PROVE  clear_target(a, id, u) \in Target
  BY ConstantsAssumption DEF clear_target, get_rest_cache_key, Target

(* The targets of a rule are targets.                                      *)
LEMMA TargetsType ==
  ASSUME NEW o \in Objects, NEW j \in RuleNumbers, NEW A \in SUBSET Actions
  PROVE  Targets(o, Rules[j], A) \in SUBSET Target
  <1> SUFFICES ASSUME NEW a \in A, NEW x \in Walked(o, Rules[j])
               PROVE  clear_target(a, x.row, x.owner) \in Target
    BY DEF Targets
  <1>1. x.row \in Rows \cup Kids \cup {NULL} /\ x.owner \in Users
    BY DEF Walked, Objects
  <1> QED BY <1>1, TargetType

(* The clearing lists are sets of Steps.                                   *)
LEMMA PlaceType ==
  ASSUME NEW i \in {0, 1}, NEW j \in RuleNumbers
  PROVE  Place(i, j) \in Nat
  <1>1. Len(Rules) \in Nat
    BY ConstantsAssumption
  <1>2. j \in Nat
    BY RuleType
  <1>3. i * Len(Rules) \in Nat
    BY <1>1
  <1> QED BY <1>2, <1>3 DEF Place

(* The synchronous half of a rule is targets, or the point of failure.     *)
LEMMA SyncOpsType ==
  ASSUME NEW o \in Objects, NEW j \in RuleNumbers, NEW m \in Methods
  PROVE  SyncOps(o, Rules[j], m) \in SUBSET (Target \cup {FAIL})
  <1>1. Rules[j].actions \ Rules[j].async_actions \in SUBSET Actions
    BY RuleType
  <1> QED BY <1>1, TargetsType DEF SyncOps

(* So is the asynchronous half.                                            *)
LEMMA AsyncOpsType ==
  ASSUME NEW o \in Objects, NEW j \in RuleNumbers, NEW m \in Methods
  PROVE  AsyncOps(o, Rules[j], m) \in SUBSET (Target \cup {FAIL})
  <1>1. Rules[j].actions \cap Rules[j].async_actions \in SUBSET Actions
    BY RuleType
  <1> QED BY <1>1, TargetsType DEF AsyncOps

(* The instances a write walks are objects.                                *)
LEMMA InstancesType ==
  ASSUME NEW self \in Objects, NEW origin \in Objects \cup {NULL}
  PROVE  \A x \in Instances(self, origin) : x[1] \in {0, 1} /\ x[2] \in Objects
  BY DEF Instances

(* A list of synchronous clearings consists of steps.                      *)
LEMMA SyncStepsType ==
  ASSUME NEW self \in Objects, NEW origin \in Objects \cup {NULL},
         NEW m \in Methods, NEW js \in SUBSET RuleNumbers
  PROVE  SyncSteps(Instances(self, origin), m, js) \in SUBSET Step
  <1> DEFINE objs == Instances(self, origin)
  <1>1. \A x \in objs : x[1] \in {0, 1} /\ x[2] \in Objects
    BY InstancesType
  <1> HIDE DEF objs
  <1>2. ASSUME NEW x \in objs, NEW j \in js
        PROVE  StepsAt(Place(x[1], j), SyncOps(x[2], Rules[j], m)) \in SUBSET Step
    <2>1. Place(x[1], j) \in Nat
      BY <1>1, PlaceType
    <2>2. SyncOps(x[2], Rules[j], m) \in SUBSET (Target \cup {FAIL})
      BY <1>1, SyncOpsType
    <2> QED BY <2>1, <2>2 DEF Step, StepsAt
  <1>3. SyncSteps(objs, m, js) \in SUBSET Step
    BY <1>2 DEF SyncSteps
  <1> QED BY <1>3 DEF objs

(* So does a list of asynchronous ones.                                    *)
LEMMA AsyncStepsType ==
  ASSUME NEW self \in Objects, NEW origin \in Objects \cup {NULL},
         NEW m \in Methods, NEW js \in SUBSET RuleNumbers
  PROVE  AsyncSteps(Instances(self, origin), m, js) \in SUBSET Step
  <1> DEFINE objs == Instances(self, origin)
  <1>1. \A x \in objs : x[1] \in {0, 1} /\ x[2] \in Objects
    BY InstancesType
  <1> HIDE DEF objs
  <1>2. ASSUME NEW x \in objs, NEW j \in js
        PROVE  StepsAt(Place(x[1], j), AsyncOps(x[2], Rules[j], m)) \in SUBSET Step
    <2>1. Place(x[1], j) \in Nat
      BY <1>1, PlaceType
    <2>2. AsyncOps(x[2], Rules[j], m) \in SUBSET (Target \cup {FAIL})
      BY <1>1, AsyncOpsType
    <2> QED BY <2>1, <2>2 DEF Step, StepsAt
  <1>3. AsyncSteps(objs, m, js) \in SUBSET Step
    BY <1>2 DEF AsyncSteps
  <1> QED BY <1>3 DEF objs

-----------------------------------------------------------------------------
(* Type correctness.                                                       *)

(* What a response shows is a response.                                    *)
LEMMA ViewType ==
  ASSUME TypeOK, NEW k
  PROVE  View(k) \in Responses
  <1>1. Scope(k) \in SUBSET Rows
    BY DEF Scope
  <1>2. ASSUME NEW r \in Scope(k) PROVE db[r].ver \in 0..MaxWrites
    BY DEF TypeOK, Scope
  <1>3. View(k) \in [Scope(k) -> 0..MaxWrites]
    BY <1>2 DEF View
  <1> QED BY <1>1, <1>3 DEF Responses

(* Clearing keeps the types of what it changes.                            *)
LEMMA ClearedType ==
  ASSUME TypeOK, NEW K \in SUBSET Keys, Cleared(K)
  PROVE  /\ cache' \in [Keys -> Responses \cup {NULL}]
         /\ reader' \in [Readers -> ReaderRecords]
         /\ \A x \in Readers : reader'[x].pc = reader[x].pc /\ reader'[x].key = reader[x].key
                                 /\ reader'[x].data = reader[x].data
         /\ raced' \in SUBSET Keys
         /\ dropped' \in SUBSET Keys
  <1>1. ASSUME NEW x \in Readers
        PROVE  /\ reader'[x] \in ReaderRecords
               /\ reader'[x].pc = reader[x].pc
               /\ reader'[x].key = reader[x].key
               /\ reader'[x].data = reader[x].data
    <2>1. reader[x] \in ReaderRecords
      BY DEF TypeOK
    <2>2. reader'[x] = reader[x] \/ reader'[x] = [reader[x] EXCEPT !.overtaken = TRUE]
      BY DEF Cleared
    <2> QED BY <2>1, <2>2 DEF ReaderRecords
  <1>2. cache' \in [Keys -> Responses \cup {NULL}]
    BY DEF TypeOK, Cleared
  <1>3. reader' = [x \in Readers |-> reader'[x]]
    BY DEF Cleared
  <1> QED BY <1>1, <1>2, <1>3 DEF TypeOK, Cleared

(* The steps of a reader keep the types.                                   *)
LEMMA ReaderType ==
  ASSUME TypeOK, NEW x \in Readers,
         \/ \E k \in Keys : Get(x, k)
         \/ Load(x)
         \/ Fill(x)
  PROVE  TypeOK'
  <1>0. ASSUME NEW v \in ReaderRecords, reader' = [reader EXCEPT ![x] = v],
               v.pc # "idle" => v.key \in Keys,
               v.pc = "fill" => v.data \in Responses
        PROVE  /\ reader' \in [Readers -> ReaderRecords]
               /\ \A y \in Readers :
                    /\ reader'[y].pc # "idle" => reader'[y].key \in Keys
                    /\ reader'[y].pc = "fill" => reader'[y].data \in Responses
    BY <1>0 DEF TypeOK
  <1>1. ASSUME NEW k \in Keys, Get(x, k) PROVE TypeOK'
    <2> DEFINE v == [reader[x] EXCEPT !.pc = "load", !.key = k]
    <2>1. v \in ReaderRecords /\ v.pc = "load" /\ v.key = k
      BY DEF TypeOK, ReaderRecords
    <2>2. reader' = [reader EXCEPT ![x] = v]
      BY <1>1 DEF Get
    <2> HIDE DEF v
    <2> QED BY <1>0, <1>1, <2>1, <2>2 DEF Get, TypeOK
  <1>2. CASE Load(x)
    <2> DEFINE k == reader[x].key
               v == IF Cfg[k.action].detail /\ Scope(k) = {} THEN IdleReader
                    ELSE [reader[x] EXCEPT !.pc = "fill", !.data = View(k)]
    <2>1. View(k) \in Responses /\ reader[x] \in ReaderRecords /\ k \in Keys
      BY <1>2, ViewType DEF Load, TypeOK
    <2>2. v \in ReaderRecords /\ v \in {IdleReader, [reader[x] EXCEPT !.pc = "fill", !.data = View(k)]}
      BY <2>1 DEF ReaderRecords, IdleReader
    <2>3. (v.pc # "idle" => v.key \in Keys) /\ (v.pc = "fill" => v.data \in Responses)
      BY <2>1, <2>2 DEF ReaderRecords, IdleReader
    <2>4. reader' = [reader EXCEPT ![x] = v]
      BY <1>2 DEF Load
    <2> HIDE DEF v
    <2> QED BY <1>0, <1>2, <2>2, <2>3, <2>4 DEF Load, TypeOK
  <1>3. CASE Fill(x)
    <2>1. IdleReader \in ReaderRecords /\ IdleReader.pc = "idle"
      BY DEF ReaderRecords, IdleReader
    <2>2. /\ cache' \in [Keys -> Responses \cup {NULL}]
          /\ raced' \in SUBSET Keys
      BY <1>3 DEF Fill, TypeOK
    <2>3. reader' = [reader EXCEPT ![x] = IdleReader]
      BY <1>3 DEF Fill
    <2> QED BY <1>0, <1>3, <2>1, <2>2, <2>3 DEF Fill, TypeOK
  <1> QED BY <1>1, <1>2, <1>3

(* The steps of a clearing keep the types.                                 *)
LEMMA ClearType ==
  ASSUME TypeOK, NEW a \in Agents, ClearStep(a)
  PROVE  TypeOK'
  <1>1. CASE ClearKey(a)
    <2>1. PICK s \in Next1(a) :
            /\ todo' = [todo EXCEPT ![a] = @ \ {s}]
            /\ Cleared({ k \in Keys : clears(s.op, k) })
            /\ UNCHANGED <<db, born, writer, scan, tasks, writes, faults>>
      BY <1>1 DEF ClearKey
    <2>2. todo' \in [Agents -> SUBSET Step]
      BY <2>1 DEF TypeOK
    <2> QED BY <2>1, <2>2, ClearedType DEF TypeOK
  <1>2. CASE Scan(a)
    <2>1. PICK s \in Next1(a) :
            LET matching == { k \in Keys : clears(s.op, k) }
                present  == { k \in matching : cache[k] # NULL } IN
            /\ todo' = [todo EXCEPT ![a] = @ \ {s}]
            /\ scan' = [scan EXCEPT ![a] = present]
            /\ Cleared(matching \ present)
            /\ UNCHANGED <<db, born, writer, tasks, writes, faults>>
      BY <1>2 DEF Scan
    <2>2. todo' \in [Agents -> SUBSET Step] /\ scan' \in [Agents -> SUBSET Keys]
      BY <2>1 DEF TypeOK
    <2> QED BY <2>1, <2>2, ClearedType DEF TypeOK
  <1>3. CASE DeleteScanned(a)
    <2>1. PICK k \in scan[a] :
            /\ scan' = [scan EXCEPT ![a] = @ \ {k}]
            /\ Cleared({k})
            /\ UNCHANGED <<db, born, writer, todo, tasks, writes, faults>>
      BY <1>3 DEF DeleteScanned
    <2>2. scan' \in [Agents -> SUBSET Keys] /\ {k} \in SUBSET Keys
      BY <2>1 DEF TypeOK
    <2> QED BY <2>1, <2>2, ClearedType DEF TypeOK
  <1> QED BY <1>1, <1>2, <1>3 DEF ClearStep

(* The other steps of writers and workers keep the types.                  *)
LEMMA RestType ==
  ASSUME NEW pc \in {"idle", "raised"}
  PROVE  AtRest(pc) \in WriterRecords /\ HasInstance(AtRest(pc))
  BY ConstantsAssumption DEF AtRest, WriterRecords, HasInstance

(* The writer's actions, one step each.                                    *)
LEMMA WriterType ==
  ASSUME TypeOK, NEW w \in Writers,
         \/ \E u \in Users : New(w, u) \/ BeginSave(w, u)
         \/ \E r \in Rows : LoadObject(w, r) \/ \E u \in Users : NewWithKey(w, r, u)
         \/ ReloadMissing(w)
         \/ BeginDelete(w)
         \/ CommitSave(w)
         \/ CommitDelete(w)
         \/ RaiseTypeError(w)
         \/ Dispatch(w)
  PROVE  TypeOK'
  <1> w \in Agents
    BY DEF Agents
  <1>m. {"create", "update", "delete"} \subseteq Methods
    BY DEF Methods
  <1>1. ASSUME NEW u \in Users, New(w, u) PROVE TypeOK'
    <2>1. writes + 1 \in 0..MaxWrites
      BY <1>1, ConstantsAssumption DEF New, Free, TypeOK
    <2>2. writer'[w] \in WriterRecords /\ HasInstance(writer'[w])
      BY <1>1, <1>m, <2>1 DEF New, TypeOK, Objects, WriterRecords, HasInstance
    <2> QED BY <1>1, <2>1, <2>2 DEF New, TypeOK
  <1>2. ASSUME NEW u \in Users, BeginSave(w, u) PROVE TypeOK'
    <2>1. writer[w] \in WriterRecords /\ writer[w].self \in Objects
          /\ writer[w].self.row \in Rows
      BY <1>2 DEF BeginSave, TypeOK, HasInstance
    <2>2. ReloadData => db[writer[w].self.row].owner \in Users
      BY <1>2, <2>1 DEF BeginSave, TypeOK
    <2> DEFINE row == writer[w].self.row
               self == [row |-> row, owner |-> u]
               origin == IF ReloadData THEN [row |-> row, owner |-> db[row].owner] ELSE NULL
               v == [pc |-> "save", self |-> self, origin |-> origin, late |-> {},
                     id |-> writer[w].id]
    <2>3. self \in Objects /\ origin \in Objects \cup {NULL}
      BY <2>1, <2>2 DEF Objects
    <2>4. writer' = [writer EXCEPT ![w] = v]
      BY <1>2 DEF BeginSave
    <2> HIDE DEF self, origin
    <2>5. v \in WriterRecords /\ v.pc = "save" /\ v.self = self
      BY <2>1, <2>3 DEF WriterRecords
    <2> HIDE DEF v
    <2>6. HasInstance(v)
      BY <2>3, <2>5 DEF HasInstance
    <2>7. /\ writer' \in [Writers -> WriterRecords]
          /\ \A x \in Writers : HasInstance(writer'[x])
      BY <2>4, <2>5, <2>6 DEF TypeOK
    <2>8. UNCHANGED <<db, born, cache, reader, todo, scan, tasks, writes, faults,
                      raced, dropped>>
      BY <1>2 DEF BeginSave
    <2> QED BY <2>7, <2>8 DEF TypeOK
  <1>3. ASSUME NEW r \in Rows, LoadObject(w, r) PROVE TypeOK'
    <2>1. writes + 1 \in 0..MaxWrites
      BY <1>3, ConstantsAssumption DEF LoadObject, Free, TypeOK
    <2>2. writer'[w] \in WriterRecords /\ HasInstance(writer'[w])
      BY <1>3, <1>m, <2>1 DEF LoadObject, TypeOK, Objects, WriterRecords, HasInstance
    <2> QED BY <1>3, <2>1, <2>2 DEF LoadObject, TypeOK
  <1>10. ASSUME NEW r \in Rows, NEW u \in Users, NewWithKey(w, r, u) PROVE TypeOK'
    <2>1. writes + 1 \in 0..MaxWrites
      BY <1>10, ConstantsAssumption DEF NewWithKey, Free, TypeOK
    <2>2. writer'[w] \in WriterRecords /\ HasInstance(writer'[w])
      BY <1>10, <1>m, <2>1 DEF NewWithKey, TypeOK, Objects, WriterRecords, HasInstance
    <2> QED BY <1>10, <2>1, <2>2 DEF NewWithKey, TypeOK
  <1>4. CASE ReloadMissing(w)
    BY <1>4, RestType DEF ReloadMissing, TypeOK
  <1>5. CASE BeginDelete(w)
    <2> DEFINE objs == Instances(writer[w].self, NULL)
    <2>1. writer[w] \in WriterRecords /\ writer[w].self \in Objects
          /\ writer[w].self.row \in Rows
      BY <1>5 DEF BeginDelete, TypeOK, HasInstance
    <2>2. RulesOf({"foreign"}) \in SUBSET RuleNumbers
      BY DEF RulesOf
    <2>3. /\ SyncSteps(objs, "delete", RulesOf({"foreign"})) \in SUBSET Step
          /\ SyncSteps(objs, "delete", RuleNumbers) \in SUBSET Step
      BY <1>m, <2>1, <2>2, SyncStepsType
    <2> HIDE DEF objs
    <2>4. todo' \in [Agents -> SUBSET Step]
      BY <1>5, <2>3 DEF BeginDelete, TypeOK, objs
    <2>5. writer'[w] \in WriterRecords /\ HasInstance(writer'[w])
      BY <1>5, <1>m, <2>1 DEF BeginDelete, TypeOK, WriterRecords, HasInstance
    <2> QED BY <1>5, <2>4, <2>5 DEF BeginDelete, TypeOK
  <1>6. CASE CommitSave(w)
    <2> DEFINE self(r) == [writer[w].self EXCEPT !.row = r]
               objs(r) == Instances(self(r), writer[w].origin)
    <2>1. PICK r \in Rows :
            /\ writer[w].pc = "save"
            /\ db' = [db EXCEPT ![r] = [ver |-> writer[w].id, owner |-> self(r).owner]]
            /\ born' = born \cup {r}
            /\ todo' = [todo EXCEPT ![w] = SyncSteps(objs(r), SaveMethod(writer[w].self), RuleNumbers)]
            /\ writer' = [writer EXCEPT ![w].pc = "clear", ![w].self = self(r),
                 ![w].late = AsyncSteps(objs(r), SaveMethod(writer[w].self), RuleNumbers)]
            /\ UNCHANGED <<cache, reader, scan, tasks, writes, faults, raced, dropped>>
      BY <1>6 DEF CommitSave
    <2>2. writer[w] \in WriterRecords /\ writer[w].self \in Objects
      BY <2>1 DEF TypeOK, HasInstance
    <2>3. /\ self(r) \in Objects
          /\ writer[w].origin \in Objects \cup {NULL}
          /\ SaveMethod(writer[w].self) \in Methods
          /\ writer[w].id \in 0..MaxWrites
        BY <2>2 DEF Objects, WriterRecords, SaveMethod, Methods
    <2>4. /\ SyncSteps(objs(r), SaveMethod(writer[w].self), RuleNumbers) \in SUBSET Step
          /\ AsyncSteps(objs(r), SaveMethod(writer[w].self), RuleNumbers) \in SUBSET Step
      BY <2>3, SyncStepsType, AsyncStepsType
    <2> HIDE DEF self, objs
    <2>5. writer'[w] \in WriterRecords /\ HasInstance(writer'[w])
      BY <2>1, <2>2, <2>3, <2>4 DEF TypeOK, WriterRecords, HasInstance
    <2>6. db' \in [Rows -> [ver : 0..MaxWrites, owner : Users] \cup {NULL}]
      BY <2>1, <2>3 DEF TypeOK, Objects
    <2> QED BY <2>1, <2>4, <2>5, <2>6 DEF TypeOK
  <1>7. CASE CommitDelete(w)
    <2> DEFINE objs == Instances(writer[w].self, NULL)
    <2>1. writer[w] \in WriterRecords /\ writer[w].self \in Objects
      BY <1>7 DEF CommitDelete, TypeOK, HasInstance
    <2>2. RulesOf({"default", "custom"}) \in SUBSET RuleNumbers
      BY DEF RulesOf
    <2>3. /\ SyncSteps(objs, "delete", RulesOf({"default", "custom"})) \in SUBSET Step
          /\ AsyncSteps(objs, "delete", RuleNumbers) \in SUBSET Step
      BY <1>m, <2>1, <2>2, SyncStepsType, AsyncStepsType
    <2> HIDE DEF objs
    <2>4. writer'[w] \in WriterRecords /\ HasInstance(writer'[w])
      BY <1>7, <2>1, <2>3 DEF CommitDelete, TypeOK, WriterRecords, HasInstance, objs
    <2>5. todo' \in [Agents -> SUBSET Step]
      BY <1>7, <2>3 DEF CommitDelete, TypeOK, objs
    <2> QED BY <1>7, <2>4, <2>5 DEF CommitDelete, TypeOK
  <1>8. CASE RaiseTypeError(w)
    BY <1>8, RestType DEF RaiseTypeError, TypeOK, OwedBy
  <1>9. CASE Dispatch(w)
    <2>1. [id |-> writer[w].id, steps |-> writer[w].late] \in [id : 0..MaxWrites, steps : SUBSET Step]
      BY DEF TypeOK, WriterRecords
    <2> QED BY <1>9, <2>1, RestType DEF Dispatch, TypeOK
  <1> QED BY <1>1, <1>2, <1>3, <1>4, <1>5, <1>6, <1>7, <1>8, <1>9, <1>10

(* A crash and an eviction keep the types.                                 *)
LEMMA EnvironmentType ==
  ASSUME TypeOK,
         \/ \E a \in Workers : Take(a)
         \/ \E a \in Agents : Crash(a)
         \/ \E k \in Keys : Expire(k)
  PROVE  TypeOK'
  <1>1. ASSUME NEW a \in Workers, Take(a) PROVE TypeOK'
    BY <1>1 DEF Take, TypeOK
  <1>2. ASSUME NEW a \in Agents, Crash(a) PROVE TypeOK'
    <2>1. faults' \in 0..MaxFaults /\ dropped' \in SUBSET Keys
      BY <1>2, ConstantsAssumption DEF Crash, TypeOK, OwedBy
    <2>2. writer' \in [Writers -> WriterRecords] /\ \A w \in Writers : HasInstance(writer'[w])
      BY <1>2, RestType DEF Crash, TypeOK
    <2> QED BY <1>2, <2>1, <2>2 DEF Crash, TypeOK
  <1>3. ASSUME NEW k \in Keys, Expire(k) PROVE TypeOK'
    BY <1>3 DEF Expire, TypeOK
  <1> QED BY <1>1, <1>2, <1>3

(* The initial state is typed.                                             *)
LEMMA InitType ==
  Init => TypeOK
  <1> SUFFICES ASSUME Init PROVE TypeOK
    OBVIOUS
  <1>1. writer \in [Writers -> WriterRecords] /\ \A w \in Writers : HasInstance(writer[w])
    BY RestType DEF Init
  <1>2. IdleReader \in ReaderRecords
    BY DEF IdleReader, ReaderRecords
  <1>3. db \in [Rows -> [ver : 0..MaxWrites, owner : Users] \cup {NULL}]
    BY ConstantsAssumption DEF Init
  <1> QED BY <1>1, <1>2, <1>3, ConstantsAssumption DEF Init, TypeOK, IdleReader

(* Every step keeps the types.                                             *)
LEMMA StepType ==
  TypeOK /\ [Next]_vars => TypeOK'
  <1> SUFFICES ASSUME TypeOK, [Next]_vars PROVE TypeOK'
    OBVIOUS
  <1>1. CASE UNCHANGED vars
    BY <1>1 DEF vars, TypeOK
  <1>2. CASE Next
    BY <1>2, ReaderType, ClearType, WriterType, EnvironmentType
    DEF Next, WriterStep, Agents
  <1> QED BY <1>1, <1>2

(* The variables of RestCache keep their types.                            *)
THEOREM TypeCorrect == Spec => []TypeOK
  <1> QED BY InitType, StepType, PTL DEF Spec

-----------------------------------------------------------------------------
(* Synchrony of the cache, for a configuration whose rules reach every     *)
(* cached action.                                                          *)

(* A row keeps the owner the application gives it, in the database and in  *)
(* the hands of a writer.                                                  *)
OwnersKept ==
  /\ \A r \in Rows : db[r] # NULL => db[r].owner \in Owners[r]
  /\ \A w \in Writers :
       writer[w].pc \in {"loaded", "save", "delete"} /\ writer[w].self.row # NULL
         => writer[w].self.owner \in Owners[writer[w].self.row]

(* What the hands of a writer say of the owner of the row it is about to   *)
(* write: the instance has the owner the database knows, or reload_data    *)
(* read it before the instance got a new one.                              *)
HoldsOwner(v) ==
  /\ v.pc \in {"loaded", "save", "delete"}
  /\ v.self.row # NULL
  /\ db[v.self.row] # NULL
  => \/ v.self.owner = db[v.self.row].owner
     \/ v.pc = "save" /\ v.origin = [row |-> v.self.row, owner |-> db[v.self.row].owner]

OwnersKnown == \A w \in Writers : HoldsOwner(writer[w])

(* A row in the database has a key that was allocated.                     *)
RowsBorn == \A r \in Rows : db[r] # NULL => r \in born

SyncInv ==
  /\ WellConfigured
  /\ TypeOK
  /\ OwnersKept
  /\ OwnersKnown
  /\ RowsBorn
  /\ StaleIsOwed
  /\ PendingFillIsOwed

(* A key is the key of some request.                                       *)
LEMMA KeyShape ==
  ASSUME NEW k \in Keys
  PROVE  /\ k.action \in Actions
         /\ k.row  = NULL <=> ~Cfg[k.action].detail
         /\ k.user = NULL <=> ~Cfg[k.action].by_user
         /\ Cfg[k.action].cache_fields = {} => k.code = NULL
         /\ k = [action |-> k.action, row |-> k.row, user |-> k.user, code |-> k.code]
  <1>0. PICK a \in Actions : \E id \in Ids(a), u \in Users, q \in Queries :
          k = get_rest_cache_key(a, id, u, get_query_params_encode(q, Cfg[a]))
    BY DEF Keys
  <1>1. PICK id \in Ids(a), u \in Users, q \in Queries :
          k = get_rest_cache_key(a, id, u, get_query_params_encode(q, Cfg[a]))
    BY <1>0
  <1>2. id # NULL /\ u # NULL
    BY ConstantsAssumption DEF Ids
  <1> QED BY <1>1, <1>2 DEF get_rest_cache_key, get_query_params_encode

(* The target built for the id a key names and the user it belongs to      *)
(* clears the key.                                                         *)
LEMMA TargetClears ==
  ASSUME WellConfigured, NEW k \in Keys, NEW id, NEW u,
         k.row # NULL => k.row = id,
         k.user # NULL => k.user = u
  PROVE  clears(clear_target(k.action, id, u), k)
  <1> DEFINE t == clear_target(k.action, id, u)
  <1>1. t.key = [action |-> k.action, row |-> k.row, user |-> k.user, code |-> NULL]
    BY KeyShape DEF clear_target, get_rest_cache_key
  <1>2. CASE t.is_pattern
    <2>1. [k EXCEPT !.code = NULL] =
            [action |-> k.action, row |-> k.row, user |-> k.user, code |-> NULL]
      BY KeyShape
    <2> QED BY <1>1, <1>2, <2>1 DEF clears
  <1>3. CASE ~t.is_pattern
    <2>1. Cfg[k.action].cache_fields = {}
      BY <1>3, KeyShape DEF clear_target, WellConfigured, EveryCodeCleared
    <2>2. k.code = NULL
      BY <2>1, KeyShape
    <2>3. k = [action |-> k.action, row |-> k.row, user |-> k.user, code |-> NULL]
      BY <2>2, KeyShape
    <2> QED BY <1>1, <1>3, <2>3 DEF clears
  <1> QED BY <1>2, <1>3

(* Whatever instance of a shown row is written, some rule schedules a      *)
(* clearing of the key that shows it.                                      *)
LEMMA RuleReaches ==
  ASSUME WellConfigured, NEW k \in Keys, NEW self \in Objects, NEW m \in Methods,
         self.row \in Rows, Shows(k, self.row), k.user # NULL => k.user = self.owner
  PROVE  \E j \in RuleNumbers :
           /\ ClearsAlways(k.action, Rules[j])
           /\ \E t \in SyncOps(self, Rules[j], m) \cup AsyncOps(self, Rules[j], m) :
                /\ t # FAIL /\ clears(t, k)
                /\ k.action \in Rules[j].async_actions => t \in AsyncOps(self, Rules[j], m)
  <1>1. PICK j \in RuleNumbers : ClearsAlways(k.action, Rules[j])
    BY KeyShape DEF WellConfigured
  <1>2. PICK id \in Ids(k.action) : Base(k.action, id) = self.row /\ (k.row # NULL => k.row = id)
    BY DEF Shows
  <1> DEFINE x == [row |-> id, owner |-> self.owner]
             t == clear_target(k.action, id, self.owner)
  <1>3. x \in Walked(self, Rules[j])
    <2>1. CASE k.action \in KidActions
      BY <1>1, <1>2, <2>1 DEF ClearsAlways, Walked, Ids, Base
    <2>2. CASE k.action \notin KidActions
      BY <1>1, <1>2, <2>2 DEF ClearsAlways, Walked, Ids, Base, Objects
    <2> QED BY <2>1, <2>2
  <1>4. clears(t, k)
    BY <1>2, TargetClears
  <1>5. t # FAIL
    <2>1. id \in Rows \cup Kids
      BY <1>2 DEF Ids
    <2>2. t \in Target
      BY <2>1, KeyShape, TargetType DEF Objects
    <2> QED BY <2>2, ConstantsAssumption DEF FAIL
  <1>6. ~Raises(self, Rules[j], m)
    BY <1>1 DEF ClearsAlways, Raises
  <1>7. ASSUME NEW A, k.action \in A PROVE t \in Targets(self, Rules[j], A)
    BY <1>3, <1>7 DEF Targets
  <1>8. CASE k.action \in Rules[j].async_actions
    <2>1. t \in AsyncOps(self, Rules[j], m)
      BY <1>1, <1>6, <1>7, <1>8 DEF AsyncOps, ClearsAlways
    <2> QED BY <1>1, <1>4, <1>5, <2>1
  <1>9. CASE k.action \notin Rules[j].async_actions
    <2>1. t \in SyncOps(self, Rules[j], m)
      BY <1>1, <1>6, <1>7, <1>9 DEF SyncOps, ClearsAlways
    <2> QED BY <1>1, <1>4, <1>5, <1>9, <2>1
  <1> QED BY <1>8, <1>9

(* A target a rule yields for one of the instances is in the list.         *)
LEMMA SyncReaches ==
  ASSUME NEW I, NEW x \in I, NEW m, NEW js, NEW j \in js,
         NEW t \in SyncOps(x[2], Rules[j], m), NEW k, t # FAIL, clears(t, k)
  PROVE  Reaches(SyncSteps(I, m, js), k)
  <1> DEFINE steps == StepsAt(Place(x[1], j), SyncOps(x[2], Rules[j], m))
  <1>1. steps \subseteq SyncSteps(I, m, js)
    BY DEF SyncSteps
  <1>2. [at |-> Place(x[1], j), op |-> t] \in steps
    BY DEF StepsAt
  <1> QED BY <1>1, <1>2 DEF Reaches

(* An asynchronous step reaches the keys its target clears.                *)
LEMMA AsyncReaches ==
  ASSUME NEW I, NEW x \in I, NEW m, NEW js, NEW j \in js,
         NEW t \in AsyncOps(x[2], Rules[j], m), NEW k, t # FAIL, clears(t, k)
  PROVE  Reaches(AsyncSteps(I, m, js), k)
  <1> DEFINE steps == StepsAt(Place(x[1], j), AsyncOps(x[2], Rules[j], m))
  <1>1. steps \subseteq AsyncSteps(I, m, js)
    BY DEF AsyncSteps
  <1>2. [at |-> Place(x[1], j), op |-> t] \in steps
    BY DEF StepsAt
  <1> QED BY <1>1, <1>2 DEF Reaches

(* The instance that is written is always among those walked.              *)
LEMMA SelfIsInstance ==
  ASSUME NEW self, NEW origin
  PROVE  \E x \in Instances(self, origin) : x[2] = self
  <1>1. <<0, self>> \in Instances(self, origin)
    BY DEF Instances
  <1>2. <<0, self>>[2] = self
    OBVIOUS
  <1> QED BY <1>1, <1>2

(* The clearing list of a save reaches every key that shows the row to the *)
(* owner one of the walked instances has.                                  *)
LEMMA SaveReaches ==
  ASSUME WellConfigured, NEW k \in Keys, NEW m \in Methods, NEW I, NEW x \in I,
         x[2] \in Objects, x[2].row \in Rows,
         Shows(k, x[2].row), k.user # NULL => k.user = x[2].owner
  PROVE  \/ Reaches(SyncSteps(I, m, RuleNumbers), k)
         \/ Reaches(AsyncSteps(I, m, RuleNumbers), k)
  <1>0. PICK j \in RuleNumbers :
          \E t \in SyncOps(x[2], Rules[j], m) \cup AsyncOps(x[2], Rules[j], m) :
            t # FAIL /\ clears(t, k)
    BY RuleReaches
  <1>1. PICK t \in SyncOps(x[2], Rules[j], m) \cup AsyncOps(x[2], Rules[j], m) :
          t # FAIL /\ clears(t, k)
    BY <1>0
  <1>3. CASE t \in SyncOps(x[2], Rules[j], m)
    BY <1>1, <1>3, SyncReaches
  <1>4. CASE t \in AsyncOps(x[2], Rules[j], m)
    BY <1>1, <1>4, AsyncReaches
  <1> QED BY <1>1, <1>3, <1>4

(* So does the list of a delete, of which the foreign rules' synchronous   *)
(* part has already run when the row goes.                                 *)
LEMMA DeleteReaches ==
  ASSUME WellConfigured, NEW k \in Keys, NEW self \in Objects, Deletable # {},
         self.row \in Rows, Shows(k, self.row), k.user # NULL => k.user = self.owner
  PROVE  \/ Reaches(SyncSteps(Instances(self, NULL), "delete", RulesOf({"default", "custom"})), k)
         \/ Reaches(AsyncSteps(Instances(self, NULL), "delete", RuleNumbers), k)
  <1>1. PICK j \in RuleNumbers : /\ ClearsAlways(k.action, Rules[j])
           /\ \E t \in SyncOps(self, Rules[j], "delete") \cup AsyncOps(self, Rules[j], "delete") :
                /\ t # FAIL /\ clears(t, k)
                /\ k.action \in Rules[j].async_actions => t \in AsyncOps(self, Rules[j], "delete")
    BY RuleReaches DEF Methods
  <1>2. PICK t \in SyncOps(self, Rules[j], "delete") \cup AsyncOps(self, Rules[j], "delete") :
                /\ t # FAIL /\ clears(t, k)
                /\ k.action \in Rules[j].async_actions => t \in AsyncOps(self, Rules[j], "delete")
    BY <1>1
  <1>3. PICK x \in Instances(self, NULL) : x[2] = self
    BY SelfIsInstance
  <1>4. CASE t \in AsyncOps(self, Rules[j], "delete")
    BY <1>2, <1>3, <1>4, AsyncReaches
  <1>5. CASE t \notin AsyncOps(self, Rules[j], "delete")
    <2>1. Rules[j].set # "foreign"
      BY <1>1, <1>2, <1>5 DEF ClearsAlways
    <2>2. j \in RulesOf({"default", "custom"})
      BY <2>1, RuleType DEF RulesOf
    <2> QED BY <1>2, <1>3, <1>5, <2>2, SyncReaches
  <1> QED BY <1>4, <1>5

(* What a key shows changes with the commit of a row only if the key shows *)
(* that row, to the owner it had or to the one it gets.                    *)
LEMMA CommitShows ==
  ASSUME TypeOK, NEW r \in Rows, NEW row,
         db' = [db EXCEPT ![r] = row],
         NEW k, View(k)' # View(k)
  PROVE  /\ Shows(k, r)
         /\ k.user # NULL => \/ db[r] # NULL /\ db[r].owner = k.user
                             \/ row # NULL /\ row.owner = k.user
  <1>2. ASSUME NEW q \in Rows, q # r PROVE db'[q] = db[q]
    BY <1>2 DEF TypeOK
  <1>3. db'[r] = row
    BY DEF TypeOK
  <1>6. Shows(k, r)
    <2> SUFFICES ASSUME ~Shows(k, r) PROVE FALSE
      OBVIOUS
    <2>1. Scope(k)' = Scope(k)
      BY <1>2 DEF Scope, Shows
    <2>2. \A q \in Scope(k) : db'[q] = db[q]
      BY <1>2 DEF Scope
    <2> QED BY <2>1, <2>2 DEF View
  <1>7. ASSUME k.user # NULL,
               ~(db[r] # NULL /\ db[r].owner = k.user),
               ~(row # NULL /\ row.owner = k.user)
        PROVE  FALSE
    <2>1. r \notin Scope(k) /\ r \notin Scope(k)'
      BY <1>3, <1>7 DEF Scope
    <2>2. Scope(k)' = Scope(k)
      BY <1>2, <2>1 DEF Scope, Shows
    <2>3. \A q \in Scope(k) : db'[q] = db[q]
      BY <1>2, <2>1 DEF Scope
    <2> QED BY <2>2, <2>3 DEF View
  <1> QED BY <1>6, <1>7

-----------------------------------------------------------------------------
(* What is owed, step by step.                                             *)

(* What a writer owes: its steps, its scan and its task.                   *)
LEMMA OwedByWriter ==
  ASSUME NEW w \in Writers, NEW k \in Keys
  PROVE  k \in OwedBy(w) <=> /\ writer[w].pc = "clear"
                            /\ \/ Reaches(todo[w], k)
                               \/ k \in scan[w]
                               \/ Reaches(writer[w].late, k)
  BY ConstantsAssumption DEF OwedBy

(* What a worker owes: its steps and its scan.                             *)
LEMMA OwedByWorker ==
  ASSUME NEW a \in Workers, NEW k \in Keys
  PROVE  k \in OwedBy(a) <=> Reaches(todo[a], k) \/ k \in scan[a]
  BY ConstantsAssumption DEF OwedBy

(* An agent whose part of the state does not change owes the same keys.    *)
LEMMA SameDebt ==
  ASSUME NEW a \in Agents, todo'[a] = todo[a], scan'[a] = scan[a],
         a \in Writers => writer'[a] = writer[a]
  PROVE  OwedBy(a)' = OwedBy(a)
  BY ConstantsAssumption DEF OwedBy, Reaches, Agents

(* A debt is kept or handed to the queue, or is among the dropped keys.    *)
Excused(k) == Owed(k) \/ k \in dropped

(* A step that changes no row, no response and no reader, and forgives no  *)
(* debt, keeps the cache in sync.                                          *)
LEMMA QuietStep ==
  ASSUME SyncInv, UNCHANGED <<db, cache, reader, raced>>,
         \A k \in Keys : Excused(k) => Excused(k)'
  PROVE  StaleIsOwed' /\ PendingFillIsOwed'
  <1>1. ASSUME NEW k \in Keys PROVE View(k)' = View(k) /\ Stale(k)' = Stale(k)
    BY DEF View, Scope, Stale, Shows
  <1>2. StaleIsOwed'
    BY <1>1 DEF SyncInv, StaleIsOwed, Excused
  <1>3. PendingFillIsOwed'
    BY <1>1 DEF SyncInv, PendingFillIsOwed, Excused, TypeOK
  <1> QED BY <1>2, <1>3

(* A step that clears the keys K and forgives only their debts does too.   *)
LEMMA ClearingStep ==
  ASSUME SyncInv, db' = db, NEW K \in SUBSET Keys, Cleared(K),
         \A k \in Keys \ K : Owed(k) => Owed(k)'
  PROVE  StaleIsOwed' /\ PendingFillIsOwed'
  <1>1. ASSUME NEW k \in Keys PROVE View(k)' = View(k)
    BY DEF View, Scope, Shows
  <1>2. StaleIsOwed'
    <2> SUFFICES ASSUME NEW k \in Keys, Stale(k)' PROVE Owed(k)' \/ k \in raced' \cup dropped'
      BY DEF StaleIsOwed
    <2>1. k \notin K /\ Stale(k)
      BY <1>1 DEF Stale, Cleared
    <2> QED BY <2>1 DEF SyncInv, StaleIsOwed, Cleared
  <1>3. PendingFillIsOwed'
    <2> SUFFICES ASSUME NEW x \in Readers, NEW k \in Keys, reader'[x].pc = "fill",
                        reader'[x].key = k, reader'[x].data # View(k)'
                 PROVE  Owed(k)' \/ reader'[x].overtaken \/ k \in dropped'
      BY DEF PendingFillIsOwed
    <2>1. /\ reader[x].pc = "fill" /\ reader[x].key = k
          /\ reader[x].data # View(k)
          /\ reader[x].overtaken => reader'[x].overtaken
          /\ k \in K => reader'[x].overtaken
      BY <1>1 DEF Cleared, SyncInv, TypeOK, ReaderRecords
    <2> QED BY <2>1 DEF SyncInv, PendingFillIsOwed, Cleared
  <1> QED BY <1>2, <1>3

(* A commit that makes a clearing of every key it changes due keeps it.    *)
LEMMA CommitStep ==
  ASSUME SyncInv, UNCHANGED <<cache, reader, raced, dropped>>,
         \A k \in Keys : Owed(k) \/ View(k)' # View(k) => Owed(k)'
  PROVE  StaleIsOwed' /\ PendingFillIsOwed'
  <1>1. StaleIsOwed'
    BY DEF SyncInv, StaleIsOwed, Stale
  <1>2. PendingFillIsOwed'
    BY DEF SyncInv, PendingFillIsOwed
  <1> QED BY <1>1, <1>2

-----------------------------------------------------------------------------
(* The actions, one by one.                                                *)

(* Every step keeps the owners of rows.                                    *)
LEMMA OwnersStep ==
  ASSUME SyncInv, Next
  PROVE  OwnersKept'
  <1> USE DEF OwnersKept
  <1>0. /\ TypeOK /\ OwnersKept
        /\ \A w \in Writers : HasInstance(writer[w]) /\ writer[w] \in WriterRecords
    BY DEF SyncInv, TypeOK
  <1>1. ASSUME UNCHANGED <<db, writer>> PROVE OwnersKept'
    BY <1>0, <1>1
  <1>2. ASSUME NEW w \in Writers, NEW v, db' = db, writer' = [writer EXCEPT ![w] = v],
               /\ v.pc \in {"loaded", "save", "delete"}
               /\ v.self.row # NULL
               => v.self.owner \in Owners[v.self.row]
        PROVE OwnersKept'
    BY <1>0, <1>2 DEF TypeOK
  <1>3. ASSUME NEW x \in Readers, (\E k \in Keys : Get(x, k)) \/ Load(x) \/ Fill(x)
        PROVE OwnersKept'
    BY <1>1, <1>3 DEF Get, Load, Fill
  <1>4. ASSUME NEW a \in Agents, ClearStep(a) PROVE OwnersKept'
    BY <1>1, <1>4 DEF ClearStep, ClearKey, Scan, DeleteScanned
  <1>5. ASSUME NEW a \in Workers, Take(a) PROVE OwnersKept'
    BY <1>1, <1>5 DEF Take
  <1>6. ASSUME NEW k \in Keys, Expire(k) PROVE OwnersKept'
    BY <1>1, <1>6 DEF Expire
  <1>7. ASSUME NEW a \in Agents, Crash(a) PROVE OwnersKept'
    BY <1>1, <1>2, <1>7 DEF Crash, AtRest
  <1>8. ASSUME NEW w \in Writers, NEW u \in Users, New(w, u) PROVE OwnersKept'
    BY <1>2, <1>8 DEF New
  <1>9. ASSUME NEW w \in Writers, NEW r \in Rows, LoadObject(w, r) PROVE OwnersKept'
    BY <1>0, <1>2, <1>9 DEF LoadObject
  <1>15. ASSUME NEW w \in Writers, NEW r \in Rows, NEW u \in Users, NewWithKey(w, r, u)
         PROVE OwnersKept'
    BY <1>0, <1>2, <1>15 DEF NewWithKey
  <1>10. ASSUME NEW w \in Writers, NEW u \in Users, BeginSave(w, u) PROVE OwnersKept'
    <2>0. writer[w].self.row \in Rows /\ writer[w].self.row # NULL
      BY <1>0, <1>10, ConstantsAssumption DEF BeginSave, HasInstance
    <2>1. writer'[w].self.owner \in Owners[writer'[w].self.row]
      BY <1>0, <1>10, <2>0 DEF BeginSave, TypeOK, HasInstance, WriterRecords, Objects
    <2> QED BY <1>0, <1>10, <2>1 DEF BeginSave, TypeOK
  <1>11. ASSUME NEW w \in Writers,
                ReloadMissing(w) \/ RaiseTypeError(w) \/ Dispatch(w)
         PROVE OwnersKept'
    BY <1>2, <1>11 DEF ReloadMissing, RaiseTypeError, Dispatch, AtRest
  <1>12. ASSUME NEW w \in Writers, BeginDelete(w) PROVE OwnersKept'
    BY <1>0, <1>12 DEF BeginDelete, TypeOK, HasInstance, WriterRecords
  <1>13. ASSUME NEW w \in Writers, CommitSave(w) PROVE OwnersKept'
    <2>0. writer[w].pc = "save" /\ writer[w].self \in Objects
      BY <1>0, <1>13 DEF CommitSave, HasInstance
    <2>1. PICK r \in Rows :
            /\ IF SaveMethod(writer[w].self) = "create" THEN writer[w].self.owner \in Owners[r]
               ELSE r = writer[w].self.row
            /\ db' = [db EXCEPT ![r] = [ver |-> writer[w].id, owner |-> writer[w].self.owner]]
            /\ \E self, late : writer' = [writer EXCEPT ![w].pc = "clear", ![w].self = self,
                                                        ![w].late = late]
      <3>1. PICK r \in Rows :
              LET self == [writer[w].self EXCEPT !.row = r] IN
              /\ IF SaveMethod(writer[w].self) = "create"
                 THEN r \notin born /\ self.owner \in Owners[r]
                 ELSE r = writer[w].self.row
              /\ db' = [db EXCEPT ![r] = [ver |-> writer[w].id, owner |-> self.owner]]
              /\ \E late : writer' = [writer EXCEPT ![w].pc = "clear", ![w].self = self,
                                                    ![w].late = late]
        BY <1>13 DEF CommitSave
      <3>2. [writer[w].self EXCEPT !.row = r].owner = writer[w].self.owner
        BY <2>0 DEF Objects
      <3> QED BY <3>1, <3>2
    <2>2. writer[w].self.owner \in Owners[r]
      BY <1>0, <2>0, <2>1 DEF SaveMethod
    <2> QED BY <1>0, <2>0, <2>1, <2>2 DEF TypeOK, WriterRecords
  <1>14. ASSUME NEW w \in Writers, CommitDelete(w) PROVE OwnersKept'
    BY <1>0, <1>14 DEF CommitDelete, TypeOK, HasInstance, WriterRecords
  <1> QED
    BY <1>3, <1>4, <1>5, <1>6, <1>7, <1>8, <1>9, <1>10, <1>11, <1>12, <1>13, <1>14, <1>15
    DEF Next, WriterStep, Agents

(* Where rows never change hands, whatever instance is held has the owner. *)
LEMMA FixedOwners ==
  OwnersFixed /\ TypeOK /\ OwnersKept => OwnersKnown
  <1> SUFFICES ASSUME OwnersFixed, TypeOK, OwnersKept, NEW w \in Writers,
                      writer[w].pc \in {"loaded", "save", "delete"},
                      writer[w].self.row # NULL,
                      db[writer[w].self.row] # NULL
               PROVE  writer[w].self.owner = db[writer[w].self.row].owner
    BY DEF OwnersKnown, HoldsOwner
  <1>1. writer[w].self.row \in Rows
    BY DEF TypeOK, HasInstance, Objects
  <1>2. PICK u \in Users : Owners[writer[w].self.row] = {u}
    BY <1>1 DEF OwnersFixed
  <1> QED BY <1>1, <1>2 DEF OwnersKept

(* Every step keeps the keys of rows allocated.                            *)
LEMMA BornStep ==
  ASSUME TypeOK, RowsBorn, Next
  PROVE  RowsBorn'
  <1>1. ASSUME UNCHANGED <<db, born>> PROVE RowsBorn'
    BY <1>1 DEF RowsBorn
  <1>2. ASSUME NEW w \in Writers, CommitSave(w) PROVE RowsBorn'
    <2>1. PICK r \in Rows : /\ \E v : db' = [db EXCEPT ![r] = v]
                            /\ born' = born \cup {r}
      BY <1>2 DEF CommitSave
    <2> QED BY <2>1 DEF RowsBorn, TypeOK
  <1>3. ASSUME NEW w \in Writers, CommitDelete(w) PROVE RowsBorn'
    <2>1. /\ db' = [db EXCEPT ![writer[w].self.row] = NULL]
          /\ born' = born
      BY <1>3 DEF CommitDelete
    <2> QED BY <2>1 DEF RowsBorn, TypeOK
  <1>4. CASE \E x \in Readers : (\E k \in Keys : Get(x, k)) \/ Load(x) \/ Fill(x)
    BY <1>1, <1>4 DEF Get, Load, Fill
  <1>5. ASSUME NEW a \in Agents, ClearStep(a) \/ Crash(a) PROVE RowsBorn'
    BY <1>1, <1>5 DEF ClearStep, ClearKey, Scan, DeleteScanned, Crash
  <1>6. ASSUME NEW w \in Writers,
               \/ \E u \in Users : New(w, u) \/ BeginSave(w, u)
               \/ \E r \in Rows : LoadObject(w, r) \/ \E u \in Users : NewWithKey(w, r, u)
               \/ ReloadMissing(w) \/ BeginDelete(w)
        PROVE  RowsBorn'
    BY <1>1, <1>6 DEF New, BeginSave, LoadObject, NewWithKey, ReloadMissing, BeginDelete
  <1>7. ASSUME NEW w \in Writers, WriterStep(w) PROVE RowsBorn'
    <2>1. CASE RaiseTypeError(w) \/ Dispatch(w)
      BY <1>1, <2>1 DEF RaiseTypeError, Dispatch
    <2> QED BY <1>2, <1>3, <1>5, <1>7, <2>1 DEF WriterStep, Agents
  <1>8. ASSUME NEW a \in Workers, Take(a) \/ ClearStep(a) \/ Crash(a) PROVE RowsBorn'
    <2>1. CASE Take(a)
      BY <1>1, <2>1 DEF Take
    <2> QED BY <1>5, <1>8, <2>1 DEF Agents
  <1>9. CASE \E k \in Keys : Expire(k)
    BY <1>1, <1>9 DEF Expire
  <1> QED BY <1>4, <1>5, <1>6, <1>7, <1>8, <1>9 DEF Next, Agents

(* So does a single writer that reloads the row before it saves: between   *)
(* its read and its commit nobody else writes.                             *)
LEMMA KnownStep ==
  ASSUME SyncInv, ReloadData, OneWriter, Next
  PROVE  OwnersKnown'
  <1>0. /\ TypeOK /\ RowsBorn /\ OwnersKnown
        /\ \A w \in Writers : HasInstance(writer[w]) /\ writer[w] \in WriterRecords
    BY DEF SyncInv, TypeOK
  <1>1. ASSUME UNCHANGED <<db, writer>> PROVE OwnersKnown'
    BY <1>0, <1>1 DEF OwnersKnown, HoldsOwner
  <1>2. ASSUME NEW w \in Writers, db' = db, \A x \in Writers : x # w => writer'[x] = writer[x],
               HoldsOwner(writer[w])'
        PROVE  OwnersKnown'
    BY <1>0, <1>2 DEF OwnersKnown, HoldsOwner
  <1>3. ASSUME NEW w \in Writers, writer'[w].pc \notin {"loaded", "save", "delete"}
        PROVE  OwnersKnown'
    BY <1>3 DEF OwnersKnown, HoldsOwner, OneWriter
  <1>4. ASSUME NEW w \in Writers, NEW u \in Users, New(w, u) PROVE OwnersKnown'
    <2>1. writer'[w].self.row = NULL
      BY <1>0, <1>4 DEF New, TypeOK
    <2> QED BY <1>2, <1>4, <2>1 DEF New, HoldsOwner, OneWriter
  <1>5. ASSUME NEW w \in Writers, NEW r \in Rows, LoadObject(w, r) PROVE OwnersKnown'
    <2>1. writer'[w].self = [row |-> r, owner |-> db[r].owner] /\ db' = db
      BY <1>0, <1>5 DEF LoadObject, TypeOK
    <2>2. HoldsOwner(writer[w])'
      BY <2>1 DEF HoldsOwner
    <2> QED BY <2>2 DEF OwnersKnown, OneWriter
  <1>6. ASSUME NEW w \in Writers, NEW r \in Rows, NEW u \in Users, NewWithKey(w, r, u)
        PROVE OwnersKnown'
    <2>1. writer'[w].self = [row |-> r, owner |-> u] /\ db' = db /\ db[r] = NULL
      BY <1>0, <1>6 DEF NewWithKey, TypeOK, RowsBorn
    <2>2. HoldsOwner(writer[w])'
      BY <2>1 DEF HoldsOwner
    <2> QED BY <2>2 DEF OwnersKnown, OneWriter
  <1>7. ASSUME NEW w \in Writers, NEW u \in Users, BeginSave(w, u) PROVE OwnersKnown'
    <2> DEFINE row == writer[w].self.row
    <2>1. /\ writer'[w].pc = "save"
          /\ writer'[w].self = [row |-> row, owner |-> u]
          /\ writer'[w].origin = [row |-> row, owner |-> db[row].owner]
          /\ db' = db
      BY <1>0, <1>7 DEF BeginSave, TypeOK
    <2>2. HoldsOwner(writer[w])'
      BY <2>1 DEF HoldsOwner
    <2> QED BY <2>2 DEF OwnersKnown, OneWriter
  <1>8. ASSUME NEW w \in Writers, BeginDelete(w) PROVE OwnersKnown'
    <2>1. /\ writer[w].pc = "loaded" /\ HoldsOwner(writer[w])
          /\ writer'[w].self = writer[w].self /\ db' = db
      BY <1>0, <1>8 DEF BeginDelete, TypeOK, WriterRecords, OwnersKnown
    <2>2. HoldsOwner(writer[w])'
      BY <2>1 DEF HoldsOwner
    <2> QED BY <2>2 DEF OwnersKnown, OneWriter
  <1>9. ASSUME NEW w \in Writers,
               ReloadMissing(w) \/ RaiseTypeError(w) \/ Dispatch(w)
        PROVE OwnersKnown'
    <2>1. writer'[w].pc \in {"idle", "raised"}
      BY <1>0, <1>9 DEF ReloadMissing, RaiseTypeError, Dispatch, AtRest, TypeOK
    <2> QED BY <1>3, <2>1
  <1>10. ASSUME NEW w \in Writers, CommitSave(w) \/ CommitDelete(w) PROVE OwnersKnown'
    <2>1. \/ \E self, late : writer' = [writer EXCEPT ![w].pc = "clear", ![w].self = self,
                                                    ![w].late = late]
          \/ \E late : writer' = [writer EXCEPT ![w].pc = "clear", ![w].late = late]
      BY <1>10 DEF CommitSave, CommitDelete
    <2>2. ASSUME NEW self, NEW late, writer' = [writer EXCEPT ![w].pc = "clear", ![w].self = self,
                                                           ![w].late = late]
          PROVE  writer'[w].pc = "clear"
      BY <1>0, <2>2 DEF TypeOK, WriterRecords
    <2>3. ASSUME NEW late, writer' = [writer EXCEPT ![w].pc = "clear", ![w].late = late]
          PROVE  writer'[w].pc = "clear"
      BY <1>0, <2>3 DEF TypeOK, WriterRecords
    <2> QED BY <1>3, <2>1, <2>2, <2>3
  <1>11. ASSUME NEW a \in Agents, Crash(a) PROVE OwnersKnown'
    <2>1. CASE a \in Writers
      <3>1. writer'[a].pc = "raised"
        BY <1>0, <1>11, <2>1 DEF Crash, AtRest, TypeOK
      <3> QED BY <1>3, <2>1, <3>1
    <2>2. CASE a \notin Writers
      BY <1>1, <1>11, <2>2 DEF Crash
    <2> QED BY <2>1, <2>2
  <1>12. \/ UNCHANGED <<db, writer>>
         \/ \E a \in Agents : Crash(a)
         \/ \E w \in Writers :
              \/ \E u \in Users : New(w, u) \/ BeginSave(w, u)
              \/ \E r \in Rows : LoadObject(w, r) \/ \E u \in Users : NewWithKey(w, r, u)
              \/ ReloadMissing(w) \/ RaiseTypeError(w) \/ Dispatch(w)
              \/ BeginDelete(w)
              \/ CommitSave(w) \/ CommitDelete(w)
    BY DEF Next, WriterStep, ClearStep, Get, Load, Fill, Take, Expire, ClearKey, Scan,
       DeleteScanned, Agents
  <1> QED BY <1>1, <1>4, <1>5, <1>6, <1>7, <1>8, <1>9, <1>10, <1>11, <1>12

(* What is owed depends on the lists, the scans and the queue only.        *)
LEMMA SameOwed ==
  ASSUME UNCHANGED <<writer, todo, scan, tasks>>
  PROVE  \A k \in Keys : Owed(k)' = Owed(k)
  BY DEF Owed, OwedBy, Reaches

(* The steps of a reader keep the cache in sync.                           *)
LEMMA ReaderSync ==
  ASSUME SyncInv, NEW x \in Readers,
         \/ \E k \in Keys : Get(x, k)
         \/ Load(x)
         \/ Fill(x)
  PROVE  StaleIsOwed' /\ PendingFillIsOwed'
  <1>0. /\ TypeOK /\ StaleIsOwed /\ PendingFillIsOwed
        /\ UNCHANGED <<db, writer, todo, scan, tasks, dropped>>
    BY DEF SyncInv, Get, Load, Fill
  <1>1. \A k \in Keys : Owed(k)' = Owed(k) /\ View(k)' = View(k)
    BY <1>0, SameOwed DEF View, Scope, Shows
  <1>2. ASSUME NEW k \in Keys, Get(x, k) PROVE StaleIsOwed' /\ PendingFillIsOwed'
    <2>1. StaleIsOwed'
      BY <1>0, <1>1, <1>2 DEF Get, StaleIsOwed, Stale
    <2>2. \A y \in Readers : reader'[y].pc = "fill" => reader'[y] = reader[y]
      BY <1>0, <1>2 DEF Get, TypeOK, ReaderRecords
    <2> QED BY <1>0, <1>1, <2>1, <2>2 DEF PendingFillIsOwed
  <1>3. CASE Load(x)
    <2>1. StaleIsOwed'
      BY <1>0, <1>1, <1>3 DEF Load, StaleIsOwed, Stale
    <2>2. reader'[x].pc = "fill" => reader'[x].data = View(reader'[x].key)
      BY <1>0, <1>3 DEF Load, TypeOK, ReaderRecords, IdleReader
    <2>3. \A y \in Readers : y # x => reader'[y] = reader[y]
      BY <1>0, <1>3 DEF Load, TypeOK
    <2> QED BY <1>0, <1>1, <2>1, <2>2, <2>3 DEF PendingFillIsOwed
  <1>4. CASE Fill(x)
    <2>1. reader[x].pc = "fill" /\ reader[x].key \in Keys
      BY <1>0, <1>4 DEF Fill, TypeOK
    <2>2. StaleIsOwed'
      <3> SUFFICES ASSUME NEW k \in Keys, Stale(k)' PROVE Owed(k)' \/ k \in raced' \cup dropped'
        BY DEF StaleIsOwed
      <3>1. CASE k = reader[x].key
        <4>1. reader[x].data # View(k)
          BY <1>0, <1>1, <1>4, <2>1, <3>1 DEF Fill, Stale, TypeOK
        <4> QED BY <1>0, <1>1, <1>4, <2>1, <3>1, <4>1 DEF Fill, PendingFillIsOwed
      <3>2. CASE k # reader[x].key
        <4>1. Stale(k)
          BY <1>0, <1>1, <1>4, <3>2 DEF Fill, Stale, TypeOK
        <4> QED BY <1>0, <1>1, <1>4, <3>2, <4>1 DEF Fill, StaleIsOwed
      <3> QED BY <3>1, <3>2
    <2>3. \A y \in Readers : reader'[y].pc = "fill" => reader'[y] = reader[y]
      BY <1>0, <1>4 DEF Fill, TypeOK, IdleReader
    <2> QED BY <1>0, <1>1, <2>2, <2>3 DEF PendingFillIsOwed
  <1> QED BY <1>2, <1>3, <1>4

(* The steps of a clearing keep the cache in sync.                         *)
LEMMA ClearSync ==
  ASSUME SyncInv, NEW a \in Agents, ClearStep(a)
  PROVE  StaleIsOwed' /\ PendingFillIsOwed'
  <1>0. TypeOK
    BY DEF SyncInv
  <1>o. ASSUME UNCHANGED <<writer, tasks>>,
               \A b \in Agents : b # a => todo'[b] = todo[b] /\ scan'[b] = scan[b],
               NEW k \in Keys, Owed(k), k \in OwedBy(a) => k \in OwedBy(a)'
        PROVE  Owed(k)'
    BY <1>o, SameDebt DEF Owed, Reaches
  <1>1. CASE ClearKey(a)
    <2>1. PICK s \in Next1(a) :
            /\ todo' = [todo EXCEPT ![a] = @ \ {s}]
            /\ Cleared({ k \in Keys : clears(s.op, k) })
            /\ UNCHANGED <<db, born, writer, scan, tasks, writes, faults>>
      BY <1>1 DEF ClearKey
    <2> DEFINE K == { k \in Keys : clears(s.op, k) }
    <2>2. todo'[a] = todo[a] \ {s} /\ \A b \in Agents : b # a => todo'[b] = todo[b]
      BY <1>0, <2>1 DEF TypeOK
    <2>3. ASSUME NEW k \in Keys \ K, k \in OwedBy(a) PROVE k \in OwedBy(a)'
      <3>1. Reaches(todo[a], k) => Reaches(todo'[a], k)
        BY <2>2 DEF Reaches
      <3>2. CASE a \in Writers
        BY <2>1, <2>3, <3>1, <3>2, OwedByWriter, ConstantsAssumption DEF OwedBy, Reaches
      <3>3. CASE a \in Workers
        BY <2>1, <2>3, <3>1, <3>3, OwedByWorker, ConstantsAssumption DEF OwedBy, Reaches
      <3> QED BY <3>2, <3>3 DEF Agents
    <2>4. \A k \in Keys \ K : Owed(k) => Owed(k)'
      BY <1>o, <2>1, <2>2, <2>3
    <2> QED BY <2>1, <2>4, ClearingStep
  <1>2. CASE Scan(a)
    <2>1. PICK s \in Next1(a) :
            LET matching == { k \in Keys : clears(s.op, k) }
                present  == { k \in matching : cache[k] # NULL } IN
            /\ scan[a] = {}
            /\ todo' = [todo EXCEPT ![a] = @ \ {s}]
            /\ scan' = [scan EXCEPT ![a] = present]
            /\ Cleared(matching \ present)
            /\ UNCHANGED <<db, born, writer, tasks, writes, faults>>
      BY <1>2 DEF Scan
    <2> DEFINE matching == { k \in Keys : clears(s.op, k) }
               present  == { k \in matching : cache[k] # NULL }
               K == matching \ present
    <2>2. /\ todo'[a] = todo[a] \ {s} /\ scan'[a] = present
          /\ \A b \in Agents : b # a => todo'[b] = todo[b] /\ scan'[b] = scan[b]
      BY <1>0, <2>1 DEF TypeOK
    <2>3. ASSUME NEW k \in Keys \ K, k \in OwedBy(a) PROVE k \in OwedBy(a)'
      <3>1. Reaches(todo[a], k) => Reaches(todo'[a], k) \/ k \in scan'[a]
        BY <2>2 DEF Reaches
      <3>2. CASE a \in Writers
        BY <2>1, <2>3, <3>1, <3>2, OwedByWriter, ConstantsAssumption DEF OwedBy, Reaches
      <3>3. CASE a \in Workers
        BY <2>1, <2>3, <3>1, <3>3, OwedByWorker, ConstantsAssumption DEF OwedBy, Reaches
      <3> QED BY <3>2, <3>3 DEF Agents
    <2>4. \A k \in Keys \ K : Owed(k) => Owed(k)'
      BY <1>o, <2>1, <2>2, <2>3
    <2> QED BY <2>1, <2>4, ClearingStep
  <1>3. CASE DeleteScanned(a)
    <2>1. PICK c \in scan[a] :
            /\ scan' = [scan EXCEPT ![a] = @ \ {c}]
            /\ Cleared({c})
            /\ UNCHANGED <<db, born, writer, todo, tasks, writes, faults>>
      BY <1>3 DEF DeleteScanned
    <2>2. /\ scan'[a] = scan[a] \ {c} /\ c \in Keys
          /\ \A b \in Agents : b # a => scan'[b] = scan[b]
      BY <1>0, <2>1 DEF TypeOK
    <2>3. ASSUME NEW k \in Keys \ {c}, k \in OwedBy(a) PROVE k \in OwedBy(a)'
      <3>2. CASE a \in Writers
        BY <2>1, <2>2, <2>3, <3>2, OwedByWriter, ConstantsAssumption DEF OwedBy, Reaches
      <3>3. CASE a \in Workers
        BY <2>1, <2>2, <2>3, <3>3, OwedByWorker, ConstantsAssumption DEF OwedBy, Reaches
      <3> QED BY <3>2, <3>3 DEF Agents
    <2>4. \A k \in Keys \ {c} : Owed(k) => Owed(k)'
      BY <1>o, <2>1, <2>2, <2>3
    <2> QED BY <2>1, <2>2, <2>4, ClearingStep
  <1> QED BY <1>1, <1>2, <1>3 DEF ClearStep

(* An instance is not None.                                                *)
LEMMA ObjectIsSome ==
  ASSUME NEW o \in Objects PROVE o # NULL
  BY ConstantsAssumption

(* The writer's and the environment's steps that commit nothing: a debt    *)
(* stays, moves to the queue or a worker, or is dropped.                   *)
LEMMA QuietSync ==
  ASSUME SyncInv,
         \/ \E w \in Writers :
              \/ \E u \in Users : New(w, u) \/ BeginSave(w, u)
              \/ \E r \in Rows : LoadObject(w, r) \/ \E u \in Users : NewWithKey(w, r, u)
              \/ ReloadMissing(w)
              \/ BeginDelete(w)
              \/ RaiseTypeError(w)
              \/ Dispatch(w)
         \/ \E a \in Workers : Take(a)
         \/ \E a \in Agents : Crash(a)
  PROVE  StaleIsOwed' /\ PendingFillIsOwed'
  <1>0. TypeOK
    BY DEF SyncInv
  <1>u. UNCHANGED <<db, cache, reader, raced>>
    BY DEF New, BeginSave, LoadObject, NewWithKey, ReloadMissing, BeginDelete, RaiseTypeError, Dispatch,
           Take, Crash
  <1>o. ASSUME NEW a \in Agents, NEW k \in Keys, Excused(k),
               dropped \subseteq dropped',
               \A b \in Agents : b # a => /\ todo'[b] = todo[b] /\ scan'[b] = scan[b]
                                          /\ b \in Writers => writer'[b] = writer[b],
               k \in OwedBy(a) => Excused(k)',
               \A t \in tasks : Reaches(t.steps, k) => Excused(k)'
        PROVE  Excused(k)'
    <2>1. CASE k \in dropped
      BY <1>o, <2>1 DEF Excused
    <2>2. ASSUME NEW b \in Agents, b # a, k \in OwedBy(b) PROVE Excused(k)'
      <3>0. todo'[b] = todo[b] /\ scan'[b] = scan[b] /\ (b \in Writers => writer'[b] = writer[b])
        BY <1>o, <2>2
      <3>1. OwedBy(b)' = OwedBy(b)
        BY <3>0, SameDebt
      <3> QED BY <2>2, <3>1 DEF Excused, Owed
    <2> QED BY <1>o, <2>1, <2>2 DEF Owed, Excused
  <1>k. ASSUME NEW k \in Keys, tasks \subseteq tasks'
        PROVE  \A t \in tasks : Reaches(t.steps, k) => Excused(k)'
    <2> SUFFICES ASSUME NEW t \in tasks, Reaches(t.steps, k) PROVE Excused(k)'
      OBVIOUS
    <2>1. t \in tasks' /\ Reaches(t.steps, k)'
      BY <1>k DEF Reaches
    <2> QED BY <2>1 DEF Owed, Excused
  <1>1. ASSUME NEW w \in Writers, NEW k \in Keys, Excused(k),
               writer[w].pc # "clear",
               UNCHANGED <<scan, tasks, dropped>>,
               \A b \in Agents : b # w => todo'[b] = todo[b],
               \A b \in Writers : b # w => writer'[b] = writer[b]
        PROVE  Excused(k)'
    <2>1. k \notin OwedBy(w)
      BY <1>1, OwedByWriter
    <2> QED BY <1>1, <1>o, <1>k, <2>1 DEF Agents
  <1>2. ASSUME NEW w \in Writers, NEW k \in Keys, Excused(k),
               \/ \E u \in Users : New(w, u) \/ BeginSave(w, u)
               \/ \E r \in Rows : LoadObject(w, r) \/ \E u \in Users : NewWithKey(w, r, u)
               \/ ReloadMissing(w)
               \/ BeginDelete(w)
        PROVE  Excused(k)'
    <2>1. writer[w].pc # "clear"
      BY <1>2 DEF New, BeginSave, LoadObject, NewWithKey, ReloadMissing, BeginDelete, Free
    <2>2. /\ UNCHANGED <<scan, tasks, dropped>>
          /\ \A b \in Agents : b # w => todo'[b] = todo[b]
          /\ \A b \in Writers : b # w => writer'[b] = writer[b]
      BY <1>0, <1>2 DEF New, BeginSave, LoadObject, NewWithKey, ReloadMissing, BeginDelete, TypeOK
    <2> QED BY <1>1, <1>2, <2>1, <2>2
  <1>3. ASSUME NEW w \in Writers, NEW k \in Keys, Excused(k), RaiseTypeError(w)
        PROVE  Excused(k)'
    <2>1. /\ UNCHANGED <<scan, tasks>> /\ dropped' = dropped \cup OwedBy(w)
          /\ \A b \in Agents : b # w => todo'[b] = todo[b]
          /\ \A b \in Writers : b # w => writer'[b] = writer[b]
      BY <1>0, <1>3 DEF RaiseTypeError, TypeOK
    <2>2. k \in OwedBy(w) => Excused(k)'
      BY <2>1 DEF Excused
    <2> QED BY <1>3, <1>o, <1>k, <2>1, <2>2 DEF Agents
  <1>4. ASSUME NEW w \in Writers, NEW k \in Keys, Excused(k), Dispatch(w)
        PROVE  Excused(k)'
    <2>1. /\ UNCHANGED <<scan, todo, dropped>> /\ tasks \subseteq tasks'
          /\ \A b \in Writers : b # w => writer'[b] = writer[b]
      BY <1>0, <1>4 DEF Dispatch, TypeOK
    <2>2. ASSUME k \in OwedBy(w) PROVE Excused(k)'
      <3>1. Reaches(writer[w].late, k)
        BY <1>4, <2>2, OwedByWriter DEF Dispatch, Reaches
      <3>2. writer[w].late # {}
        BY <3>1 DEF Reaches
      <3>3. [id |-> writer[w].id, steps |-> writer[w].late] \in tasks'
        BY <1>4, <3>2 DEF Dispatch
      <3> QED BY <3>1, <3>3 DEF Excused, Owed, Reaches
    <2> QED BY <1>4, <1>o, <1>k, <2>1, <2>2 DEF Agents
  <1>5. ASSUME NEW a \in Workers, NEW k \in Keys, Excused(k), Take(a)
        PROVE  Excused(k)'
    <2>1. PICK t \in tasks :
            /\ todo[a] = {} /\ scan[a] = {}
            /\ tasks' = tasks \ {t}
            /\ todo' = [todo EXCEPT ![a] = t.steps]
            /\ UNCHANGED <<writer, scan, dropped>>
      BY <1>5 DEF Take
    <2>2. todo'[a] = t.steps /\ \A b \in Agents : b # a => todo'[b] = todo[b]
      BY <1>0, <2>1 DEF TypeOK, Agents
    <2>3. k \notin OwedBy(a)
      BY <2>1, OwedByWorker DEF Reaches
    <2>4. Reaches(t.steps, k) => Excused(k)'
      <3>1. Reaches(t.steps, k) => k \in OwedBy(a)'
        BY <2>2 DEF OwedBy, Reaches
      <3> QED BY <3>1 DEF Excused, Owed, Agents
    <2>5. \A t2 \in tasks : t2 # t => (Reaches(t2.steps, k) => Excused(k)')
      BY <2>1 DEF Excused, Owed, Reaches
    <2> QED BY <1>5, <1>o, <2>1, <2>2, <2>3, <2>4, <2>5 DEF Agents
  <1>6. ASSUME NEW a \in Agents, NEW k \in Keys, Excused(k), Crash(a)
        PROVE  Excused(k)'
    <2>1. /\ UNCHANGED tasks /\ dropped' = dropped \cup OwedBy(a)
          /\ \A b \in Agents : b # a => todo'[b] = todo[b] /\ scan'[b] = scan[b]
          /\ \A b \in Writers : b # a => writer'[b] = writer[b]
      BY <1>0, <1>6 DEF Crash, TypeOK
    <2>2. k \in OwedBy(a) => Excused(k)'
      BY <2>1 DEF Excused
    <2> QED BY <1>6, <1>o, <1>k, <2>1, <2>2
  <1> QED BY <1>u, <1>2, <1>3, <1>4, <1>5, <1>6, QuietStep

(* Every key a saved row shows in is due for clearing when the row is      *)
(* committed.                                                              *)
LEMMA SaveSync ==
  ASSUME SyncInv, NEW w \in Writers, CommitSave(w)
  PROVE  StaleIsOwed' /\ PendingFillIsOwed'
  <1>0. /\ WellConfigured /\ TypeOK /\ OwnersKept /\ HoldsOwner(writer[w]) /\ RowsBorn
        /\ writer[w] \in WriterRecords /\ HasInstance(writer[w])
    BY DEF SyncInv, TypeOK, OwnersKnown
  <1> DEFINE self(r) == [writer[w].self EXCEPT !.row = r]
             objs(r) == Instances(self(r), writer[w].origin)
             row(r) == [ver |-> writer[w].id, owner |-> self(r).owner]
  <1>1. PICK r \in Rows :
          /\ writer[w].pc = "save"
          /\ db' = [db EXCEPT ![r] = row(r)]
          /\ todo' = [todo EXCEPT ![w] = SyncSteps(objs(r), SaveMethod(writer[w].self), RuleNumbers)]
          /\ writer' = [writer EXCEPT ![w].pc = "clear", ![w].self = self(r),
               ![w].late = AsyncSteps(objs(r), SaveMethod(writer[w].self), RuleNumbers)]
          /\ UNCHANGED <<cache, reader, scan, tasks, writes, faults, raced, dropped>>
          /\ IF SaveMethod(writer[w].self) = "create" THEN r \notin born /\ self(r).owner \in Owners[r]
             ELSE r = writer[w].self.row
    BY DEF CommitSave
  <1>2. /\ self(r) \in Objects /\ self(r).row = r
        /\ self(r).owner = writer[w].self.owner
        /\ row(r).owner = self(r).owner
        /\ SaveMethod(writer[w].self) \in Methods
    BY <1>0, <1>1 DEF HasInstance, Objects, WriterRecords, SaveMethod, Methods
  <1>3. ASSUME NEW u, db[r] # NULL, db[r].owner = u
        PROVE  \E x \in objs(r) : x[2] \in Objects /\ x[2].row = r /\ x[2].owner = u
    <2>1. writer[w].self.row = r
      BY <1>0, <1>1, <1>3 DEF RowsBorn, SaveMethod
    <2>2. r # NULL /\ u \in Users
      BY <1>0, <1>3, ConstantsAssumption DEF TypeOK
    <2>3. CASE self(r).owner = u
      <3>1. PICK x \in objs(r) : x[2] = self(r)
        BY SelfIsInstance
      <3> QED BY <1>2, <2>3, <3>1
    <2>4. CASE writer[w].origin = [row |-> r, owner |-> u]
      <3>2. writer[w].origin \in Objects
        BY <2>2, <2>4 DEF Objects
      <3>1. writer[w].origin # NULL
        BY <3>2, ObjectIsSome
      <3>3. <<1, writer[w].origin>> \in objs(r)
        BY <3>1 DEF Instances
      <3>4. <<1, writer[w].origin>>[2] = writer[w].origin
        OBVIOUS
      <3> QED BY <2>4, <3>2, <3>3, <3>4
    <2> QED BY <1>0, <1>1, <1>2, <1>3, <2>1, <2>2, <2>3, <2>4 DEF HoldsOwner
  <1>7. \E x \in objs(r) : x[2] = self(r)
    BY SelfIsInstance
  <1> HIDE DEF self, objs, row
  <1>4. /\ writer'[w].pc = "clear"
        /\ todo'[w] = SyncSteps(objs(r), SaveMethod(writer[w].self), RuleNumbers)
        /\ writer'[w].late = AsyncSteps(objs(r), SaveMethod(writer[w].self), RuleNumbers)
        /\ \A b \in Agents : b # w => /\ todo'[b] = todo[b]
                                      /\ b \in Writers => writer'[b] = writer[b]
    BY <1>0, <1>1 DEF TypeOK, WriterRecords, Agents
  <1>5. ASSUME NEW k \in Keys, View(k)' # View(k) PROVE Owed(k)'
    <2>1. /\ Shows(k, r)
          /\ k.user # NULL => \/ db[r] # NULL /\ db[r].owner = k.user
                              \/ row(r).owner = k.user
      BY <1>0, <1>1, <1>5, CommitShows
    <2>2. PICK x \in objs(r) : /\ x[2] \in Objects /\ x[2].row = r
                               /\ k.user # NULL => k.user = x[2].owner
      BY <1>2, <1>3, <1>7, <2>1
    <2>3. \/ Reaches(todo'[w], k)
          \/ Reaches(writer'[w].late, k)
      BY <1>0, <1>2, <1>4, <2>1, <2>2, SaveReaches
    <2>4. k \in OwedBy(w)'
      BY <1>4, <2>3, ConstantsAssumption DEF OwedBy, Reaches
    <2> QED BY <2>4 DEF Owed, Agents
  <1>6. ASSUME NEW k \in Keys, Owed(k) PROVE Owed(k)'
    <2>1. k \notin OwedBy(w)
      BY <1>1, OwedByWriter
    <2>2. ASSUME NEW b \in Agents, b # w, k \in OwedBy(b) PROVE Owed(k)'
      <3>0. todo'[b] = todo[b] /\ scan'[b] = scan[b] /\ (b \in Writers => writer'[b] = writer[b])
        BY <1>1, <1>4, <2>2
      <3>1. OwedBy(b)' = OwedBy(b)
        BY <3>0, SameDebt
      <3> QED BY <2>2, <3>1 DEF Owed
    <2>3. ASSUME NEW t \in tasks, Reaches(t.steps, k) PROVE Owed(k)'
      BY <1>1, <2>3 DEF Owed, Reaches
    <2> QED BY <1>6, <2>1, <2>2, <2>3 DEF Owed
  <1> QED BY <1>1, <1>5, <1>6, CommitStep

(* So is every key a deleted row showed in.                                *)
LEMMA DeleteSync ==
  ASSUME SyncInv, NEW w \in Writers, CommitDelete(w)
  PROVE  StaleIsOwed' /\ PendingFillIsOwed'
  <1>0. /\ WellConfigured /\ TypeOK /\ OwnersKept /\ HoldsOwner(writer[w]) /\ RowsBorn
        /\ writer[w] \in WriterRecords /\ HasInstance(writer[w])
    BY DEF SyncInv, TypeOK, OwnersKnown
  <1> DEFINE self == writer[w].self
             objs == Instances(self, NULL)
  <1>1. /\ writer[w].pc = "delete"
        /\ db' = [db EXCEPT ![self.row] = NULL]
        /\ todo' = [todo EXCEPT ![w] =
             SyncSteps(objs, "delete", RulesOf({"default", "custom"}))]
        /\ writer' = [writer EXCEPT ![w].pc = "clear",
                                    ![w].late = AsyncSteps(objs, "delete", RuleNumbers)]
        /\ UNCHANGED <<cache, reader, scan, tasks, raced, dropped>>
    BY DEF CommitDelete
  <1>2. /\ self \in Objects /\ self.row \in Rows /\ Deletable # {}
        /\ db[self.row] # NULL => self.owner = db[self.row].owner
    BY <1>0, <1>1, ConstantsAssumption DEF HasInstance, HoldsOwner
  <1> HIDE DEF self, objs
  <1>4. /\ writer'[w].pc = "clear"
        /\ todo'[w] = SyncSteps(objs, "delete", RulesOf({"default", "custom"}))
        /\ writer'[w].late = AsyncSteps(objs, "delete", RuleNumbers)
        /\ \A b \in Agents : b # w => /\ todo'[b] = todo[b]
                                      /\ b \in Writers => writer'[b] = writer[b]
    BY <1>0, <1>1 DEF TypeOK, WriterRecords, Agents
  <1>5. ASSUME NEW k \in Keys, View(k)' # View(k) PROVE Owed(k)'
    <2>1. /\ Shows(k, self.row)
          /\ k.user # NULL => db[self.row] # NULL /\ db[self.row].owner = k.user
      BY <1>0, <1>1, <1>2, <1>5, CommitShows
    <2>2. k.user # NULL => k.user = self.owner
      BY <1>2, <2>1
    <2>3. \/ Reaches(todo'[w], k)
          \/ Reaches(writer'[w].late, k)
      BY <1>0, <1>2, <1>4, <2>1, <2>2, DeleteReaches DEF objs
    <2>4. k \in OwedBy(w)'
      BY <1>4, <2>3, ConstantsAssumption DEF OwedBy, Reaches
    <2> QED BY <2>4 DEF Owed, Agents
  <1>6. ASSUME NEW k \in Keys, Owed(k) PROVE Owed(k)'
    <2>1. k \notin OwedBy(w)
      BY <1>1, OwedByWriter
    <2>2. ASSUME NEW b \in Agents, b # w, k \in OwedBy(b) PROVE Owed(k)'
      <3>0. todo'[b] = todo[b] /\ scan'[b] = scan[b] /\ (b \in Writers => writer'[b] = writer[b])
        BY <1>1, <1>4, <2>2
      <3>1. OwedBy(b)' = OwedBy(b)
        BY <3>0, SameDebt
      <3> QED BY <2>2, <3>1 DEF Owed
    <2>3. ASSUME NEW t \in tasks, Reaches(t.steps, k) PROVE Owed(k)'
      BY <1>1, <2>3 DEF Owed, Reaches
    <2> QED BY <1>6, <2>1, <2>2, <2>3 DEF Owed
  <1> QED BY <1>1, <1>5, <1>6, CommitStep

(* An eviction keeps the cache in sync.                                    *)
LEMMA ExpireSync ==
  ASSUME SyncInv, NEW k \in Keys, Expire(k)
  PROVE  StaleIsOwed' /\ PendingFillIsOwed'
  <1>0. /\ TypeOK /\ StaleIsOwed /\ PendingFillIsOwed
        /\ UNCHANGED <<db, reader, writer, todo, scan, tasks, raced, dropped>>
    BY DEF SyncInv, Expire
  <1>1. \A q \in Keys : Owed(q)' = Owed(q) /\ View(q)' = View(q)
    BY <1>0, SameOwed DEF View, Scope, Shows
  <1>2. \A q \in Keys : Stale(q)' => Stale(q)
    BY <1>0, <1>1 DEF Expire, Stale, TypeOK
  <1> QED BY <1>0, <1>1, <1>2 DEF StaleIsOwed, PendingFillIsOwed

-----------------------------------------------------------------------------
(* The theorems.                                                           *)

(* The invariant holds initially.                                          *)
LEMMA SyncInit ==
  WellConfigured /\ Init => SyncInv
  <1> SUFFICES ASSUME WellConfigured, Init PROVE SyncInv
    OBVIOUS
  <1>1. TypeOK
    BY InitType
  <1>2. OwnersKept
    BY DEF Init, OwnersKept, AtRest
  <1>3. StaleIsOwed
    BY DEF Init, StaleIsOwed, Stale
  <1>4. PendingFillIsOwed
    BY DEF Init, PendingFillIsOwed, IdleReader
  <1>5. OwnersKnown /\ RowsBorn
    BY DEF Init, OwnersKnown, HoldsOwner, RowsBorn, AtRest
  <1> QED BY <1>1, <1>2, <1>3, <1>4, <1>5 DEF SyncInv

(* Every step keeps the invariant.                                         *)
LEMMA SyncStep ==
  SyncInv /\ [Next]_vars => SyncInv'
  <1> SUFFICES ASSUME SyncInv, [Next]_vars PROVE SyncInv'
    OBVIOUS
  <1>1. CASE UNCHANGED vars
    <2>1. OwnersKept' /\ OwnersKnown' /\ RowsBorn'
      BY <1>1 DEF vars, SyncInv, OwnersKept, OwnersKnown, HoldsOwner, RowsBorn
    <2>2. StaleIsOwed' /\ PendingFillIsOwed'
      <3>1. \A k \in Keys : Excused(k) => Excused(k)'
        BY <1>1, SameOwed DEF vars, Excused
      <3> QED BY <1>1, <3>1, QuietStep DEF vars
    <2>3. TypeOK' /\ WellConfigured'
      BY StepType DEF SyncInv
    <2> QED BY <2>1, <2>2, <2>3 DEF SyncInv
  <1>2. CASE Next
    <2>1. TypeOK' /\ OwnersKept' /\ RowsBorn' /\ WellConfigured'
      BY <1>2, StepType, OwnersStep, BornStep DEF SyncInv
    <2>3. ASSUME OwnersFixed PROVE OwnersKnown'
      <3>1. OwnersFixed' /\ TypeOK' /\ OwnersKept' => OwnersKnown'
        BY FixedOwners, PTL
      <3> QED BY <2>1, <2>3, <3>1 DEF OwnersFixed
    <2>4. ASSUME ReloadData, OneWriter PROVE OwnersKnown'
      BY <1>2, <2>4, KnownStep
    <2>5. OwnersKnown'
      BY <2>3, <2>4 DEF SyncInv, WellConfigured
    <2>2. StaleIsOwed' /\ PendingFillIsOwed'
      BY <1>2, ReaderSync, ClearSync, QuietSync, SaveSync, DeleteSync, ExpireSync
      DEF Next, WriterStep, Agents
    <2> QED BY <2>1, <2>2, <2>5 DEF SyncInv
  <1> QED BY <1>1, <1>2

(* save() and delete() keep the cache in sync: with rules that reach every *)
(* cached action, a response that differs from the database is always due  *)
(* for clearing, or excused by a read that a clearing overtook or by a     *)
(* process that died owing it.                                             *)
THEOREM CacheInSync == WellConfigured /\ Spec => []StaleIsOwed
  <1>1. SyncInv => StaleIsOwed
    BY DEF SyncInv
  <1> QED BY <1>1, SyncInit, SyncStep, PTL DEF Spec

(* So is a response that a request has read and not yet written.           *)
THEOREM FillsInSync == WellConfigured /\ Spec => []PendingFillIsOwed
  <1>1. SyncInv => PendingFillIsOwed
    BY DEF SyncInv
  <1> QED BY <1>1, SyncInit, SyncStep, PTL DEF Spec

-----------------------------------------------------------------------------
(* What is left to the task: keys of asynchronous actions, and no others.  *)

LateStep(s) == s.op # FAIL => s.op.key.action \in LateActions

(* Every step a writer keeps for the task, a queued task holds or a worker *)
(* runs clears an action some rule names under async_actions, and so is    *)
(* every key a worker has scanned.                                         *)
LateOnly ==
  /\ \A w \in Writers : \A s \in writer[w].late : LateStep(s)
  /\ \A t \in tasks : \A s \in t.steps : LateStep(s)
  /\ \A a \in Workers : \A s \in todo[a] : LateStep(s)
  /\ \A a \in Workers : \A k \in scan[a] : k.action \in LateActions

LateInv == TypeOK /\ LateOnly

(* The asynchronous half of the rules clears asynchronous actions.         *)
LEMMA AsyncIsLate ==
  ASSUME NEW I, NEW m, NEW s \in AsyncSteps(I, m, RuleNumbers)
  PROVE  LateStep(s)
  <1>1. PICK x \in I, j \in RuleNumbers :
          s \in StepsAt(Place(x[1], j), AsyncOps(x[2], Rules[j], m))
    BY DEF AsyncSteps
  <1>2. s.op \in AsyncOps(x[2], Rules[j], m)
    BY <1>1 DEF StepsAt
  <1>3. s.op \in Targets(x[2], Rules[j], Rules[j].actions \cap Rules[j].async_actions)
    BY <1>2 DEF AsyncOps
  <1>4. PICK a \in Rules[j].actions \cap Rules[j].async_actions, y \in Walked(x[2], Rules[j]) :
          s.op = clear_target(a, y.row, y.owner)
    BY <1>3 DEF Targets
  <1>5. s.op.key.action = a
    BY <1>4 DEF clear_target, get_rest_cache_key
  <1>6. a \in LateActions
    BY <1>4 DEF LateActions, RuleNumbers
  <1> QED BY <1>5, <1>6 DEF LateStep

(* A target clears keys of its own action only.                            *)
LEMMA ClearsItsAction ==
  ASSUME NEW t, NEW k \in Keys, clears(t, k)
  PROVE  t.key.action = k.action
  <1>1. k = [action |-> k.action, row |-> k.row, user |-> k.user, code |-> k.code]
    BY KeyShape
  <1>2. [k EXCEPT !.code = NULL].action = k.action
    BY <1>1
  <1> QED BY <1>2 DEF clears

(* A list whose steps are all late reaches late actions only.              *)
LEMMA LateReaches ==
  ASSUME NEW steps, \A s \in steps : LateStep(s), NEW k \in Keys, Reaches(steps, k)
  PROVE  k.action \in LateActions
  BY ClearsItsAction DEF Reaches, LateStep

(* A worker's clearing step keeps what it has left late; a writer's does   *)
(* not touch its task.                                                     *)
LEMMA ClearLate ==
  ASSUME LateInv, NEW a \in Agents, ClearStep(a)
  PROVE  LateOnly'
  <1>0. UNCHANGED <<writer, tasks>> /\ TypeOK /\ LateOnly
    BY DEF LateInv, ClearStep, ClearKey, Scan, DeleteScanned
  <1>1. ASSUME NEW b \in Workers
        PROVE  /\ \A s \in todo'[b] : LateStep(s)
               /\ \A k \in scan'[b] : k.action \in LateActions
    <2>0. b \in Agents /\ (\A s \in todo[b] : LateStep(s))
                       /\ \A k \in scan[b] : k.action \in LateActions
      BY <1>0 DEF LateOnly, Agents
    <2>1. CASE ClearKey(a)
      <3>1. todo'[b] \subseteq todo[b] /\ scan' = scan
        BY <1>0, <2>0, <2>1 DEF ClearKey, TypeOK
      <3> QED BY <2>0, <3>1
    <2>2. CASE DeleteScanned(a)
      <3>1. scan'[b] \subseteq scan[b] /\ todo' = todo
        BY <1>0, <2>0, <2>2 DEF DeleteScanned, TypeOK
      <3> QED BY <2>0, <3>1
    <2>3. CASE Scan(a)
      <3>1. PICK s \in todo[a] :
              LET present == { k \in { k \in Keys : clears(s.op, k) } : cache[k] # NULL } IN
              /\ s.op # FAIL
              /\ todo' = [todo EXCEPT ![a] = @ \ {s}]
              /\ scan' = [scan EXCEPT ![a] = present]
        BY <2>3 DEF Scan, Next1
      <3>2. CASE b = a
        <4>1. \A k \in scan'[b] : k \in Keys /\ clears(s.op, k)
          BY <1>0, <2>0, <3>1, <3>2 DEF TypeOK
        <4>2. LateStep(s) /\ s.op # FAIL
          BY <2>0, <3>1, <3>2
        <4>3. \A k \in scan'[b] : k.action \in LateActions
          BY <4>1, <4>2, ClearsItsAction DEF LateStep
        <4>4. todo'[b] \subseteq todo[b]
          BY <1>0, <2>0, <3>1 DEF TypeOK
        <4> QED BY <2>0, <4>3, <4>4
      <3>3. CASE b # a
        BY <1>0, <2>0, <3>1, <3>3 DEF TypeOK
      <3> QED BY <3>2, <3>3
    <2> QED BY <2>1, <2>2, <2>3 DEF ClearStep
  <1> QED BY <1>0, <1>1 DEF LateOnly, LateStep

(* Every step keeps it: a task is filled with the asynchronous half of the *)
(* rules, sent as it is and run as it was sent.                            *)
LEMMA LateStepKeeps ==
  LateInv /\ [Next]_vars => LateInv'
  <1> SUFFICES ASSUME LateInv, [Next]_vars PROVE LateInv'
    OBVIOUS
  <1>t. TypeOK' /\ TypeOK /\ LateOnly
    BY StepType DEF LateInv
  <1>w. \A w \in Writers : w \in Agents /\ w \notin Workers /\ writer[w] \in WriterRecords
    BY <1>t, ConstantsAssumption DEF TypeOK, Agents
  <1>1. ASSUME UNCHANGED <<writer, tasks, todo, scan>> PROVE LateOnly'
    BY <1>t, <1>1 DEF LateOnly, LateStep
  <1>2. ASSUME NEW w \in Writers,
               \A b \in Workers : todo'[b] = todo[b] /\ scan'[b] = scan[b],
               \A x \in Writers : x # w => writer'[x] = writer[x],
               \A s \in writer'[w].late : LateStep(s),
               \A t \in tasks' : t \in tasks \/ \A s \in t.steps : LateStep(s)
        PROVE  LateOnly'
    BY <1>t, <1>2 DEF LateOnly, LateStep
  <1>3. ASSUME NEW w \in Writers,
               \/ \E u \in Users : New(w, u) \/ BeginSave(w, u)
               \/ \E r \in Rows : LoadObject(w, r) \/ \E u \in Users : NewWithKey(w, r, u)
               \/ ReloadMissing(w)
        PROVE  LateOnly'
    <2>1. /\ UNCHANGED <<tasks, todo, scan>>
          /\ \E v : v.late = {} /\ writer' = [writer EXCEPT ![w] = v]
      <3>1. UNCHANGED <<tasks, todo, scan>>
        BY <1>3 DEF New, BeginSave, LoadObject, NewWithKey, ReloadMissing
      <3>2. CASE \E u \in Users : New(w, u)
        BY <3>2 DEF New
      <3>3. CASE \E u \in Users : BeginSave(w, u)
        BY <3>3 DEF BeginSave
      <3>4. CASE \E r \in Rows : LoadObject(w, r)
        BY <3>4 DEF LoadObject
      <3>5. CASE \E r \in Rows : \E u \in Users : NewWithKey(w, r, u)
        BY <3>5 DEF NewWithKey
      <3>6. CASE ReloadMissing(w)
        BY <3>6 DEF ReloadMissing, AtRest
      <3> QED BY <1>3, <3>1, <3>2, <3>3, <3>4, <3>5, <3>6
    <2>2. writer'[w].late = {} /\ \A x \in Writers : x # w => writer'[x] = writer[x]
      BY <1>t, <2>1 DEF TypeOK
    <2> QED BY <1>2, <2>1, <2>2
  <1>4. ASSUME NEW w \in Writers, BeginDelete(w) PROVE LateOnly'
    <2>1. /\ UNCHANGED <<tasks, scan>> /\ \A b \in Workers : todo'[b] = todo[b]
          /\ \A x \in Writers : writer'[x].late = writer[x].late
      BY <1>t, <1>w, <1>4 DEF BeginDelete, TypeOK, WriterRecords, Agents
    <2> QED BY <1>t, <2>1 DEF LateOnly, LateStep
  <1>5. ASSUME NEW w \in Writers, CommitSave(w) PROVE LateOnly'
    <2>1. PICK I, m, self :
            writer' = [writer EXCEPT ![w].pc = "clear", ![w].self = self,
                                     ![w].late = AsyncSteps(I, m, RuleNumbers)]
      BY <1>5 DEF CommitSave
    <2>2. /\ UNCHANGED <<tasks, scan>> /\ \A b \in Workers : todo'[b] = todo[b]
      BY <1>t, <1>w, <1>5 DEF CommitSave, TypeOK, Agents
    <2>3. /\ writer'[w].late = AsyncSteps(I, m, RuleNumbers)
          /\ \A x \in Writers : x # w => writer'[x] = writer[x]
      BY <1>t, <1>w, <2>1 DEF TypeOK, WriterRecords
    <2> QED BY <1>2, <2>2, <2>3, AsyncIsLate
  <1>6. ASSUME NEW w \in Writers, CommitDelete(w) PROVE LateOnly'
    <2>1. PICK I :
            writer' = [writer EXCEPT ![w].pc = "clear",
                                     ![w].late = AsyncSteps(I, "delete", RuleNumbers)]
      BY <1>6 DEF CommitDelete
    <2>2. /\ UNCHANGED <<tasks, scan>> /\ \A b \in Workers : todo'[b] = todo[b]
      BY <1>t, <1>w, <1>6 DEF CommitDelete, TypeOK, Agents
    <2>3. /\ writer'[w].late = AsyncSteps(I, "delete", RuleNumbers)
          /\ \A x \in Writers : x # w => writer'[x] = writer[x]
      BY <1>t, <1>w, <2>1 DEF TypeOK, WriterRecords
    <2> QED BY <1>2, <2>2, <2>3, AsyncIsLate
  <1>7. ASSUME NEW w \in Writers, RaiseTypeError(w) PROVE LateOnly'
    <2>1. /\ UNCHANGED <<tasks, scan>> /\ \A b \in Workers : todo'[b] = todo[b]
          /\ \A x \in Writers : x # w => writer'[x] = writer[x]
          /\ writer'[w].late = {}
      BY <1>t, <1>w, <1>7 DEF RaiseTypeError, AtRest, TypeOK, Agents
    <2> QED BY <1>2, <2>1
  <1>8. ASSUME NEW w \in Writers, Dispatch(w) PROVE LateOnly'
    <2>1. /\ UNCHANGED <<todo, scan>>
          /\ \A x \in Writers : x # w => writer'[x] = writer[x]
          /\ writer'[w].late = {}
      BY <1>t, <1>8 DEF Dispatch, AtRest, TypeOK
    <2>2. \A t \in tasks' : t \in tasks \/ t.steps = writer[w].late
      BY <1>8 DEF Dispatch
    <2>3. \A s \in writer[w].late : LateStep(s)
      BY <1>t DEF LateOnly
    <2> QED BY <1>2, <2>1, <2>2, <2>3
  <1>9. ASSUME NEW a \in Workers, Take(a) PROVE LateOnly'
    <2>1. PICK t \in tasks : /\ tasks' = tasks \ {t}
                             /\ todo' = [todo EXCEPT ![a] = t.steps]
                             /\ UNCHANGED <<writer, scan>>
      BY <1>9 DEF Take
    <2>2. \A b \in Workers : todo'[b] = todo[b] \/ todo'[b] = t.steps
      BY <1>t, <2>1 DEF TypeOK, Agents
    <2> QED BY <1>t, <2>1, <2>2 DEF LateOnly, LateStep
  <1>10. ASSUME NEW a \in Agents, Crash(a) PROVE LateOnly'
    <2>1. /\ tasks' = tasks
          /\ \A b \in Workers : todo'[b] \in {todo[b], {}} /\ scan'[b] \in {scan[b], {}}
          /\ \A x \in Writers : writer'[x] = writer[x] \/ writer'[x].late = {}
      BY <1>t, <1>10 DEF Crash, AtRest, TypeOK, Agents
    <2> QED BY <1>t, <2>1 DEF LateOnly, LateStep
  <1>11. ASSUME NEW a \in Agents, ClearStep(a) PROVE LateOnly'
    BY <1>11, ClearLate
  <1>12. CASE Next
    <2>1. \/ UNCHANGED <<writer, tasks, todo, scan>>
          \/ \E a \in Agents : Crash(a) \/ ClearStep(a)
          \/ \E a \in Workers : Take(a)
          \/ \E w \in Writers :
               \/ \E u \in Users : New(w, u) \/ BeginSave(w, u)
               \/ \E r \in Rows : LoadObject(w, r) \/ \E u \in Users : NewWithKey(w, r, u)
               \/ ReloadMissing(w) \/ RaiseTypeError(w) \/ Dispatch(w)
               \/ BeginDelete(w) \/ CommitSave(w) \/ CommitDelete(w)
      BY <1>12 DEF Next, WriterStep, Get, Load, Fill, Expire, Agents
    <2> QED BY <1>t, <2>1, <1>1, <1>3, <1>4, <1>5, <1>6, <1>7, <1>8, <1>9, <1>10, <1>11 DEF LateInv
  <1>13. CASE UNCHANGED vars
    BY <1>t, <1>1, <1>13 DEF vars, LateInv
  <1> QED BY <1>12, <1>13

(* When save() or delete() has returned, every action that no rule leaves  *)
(* to the task is in sync: what may still be stale is due for clearing by  *)
(* a task, or excused by a read that a clearing overtook or by a process   *)
(* that died or raised owing it.                                           *)
THEOREM SyncOnReturn == WellConfigured /\ Spec => []SyncWhenReturned
  <1>1. Init => LateInv
    BY InitType DEF Init, LateInv, LateOnly, AtRest, Agents
  <1>2. SyncInv /\ LateInv => SyncWhenReturned
    <2> SUFFICES ASSUME SyncInv, LateInv,
                        \A w \in Writers : writer[w].pc # "clear",
                        NEW k \in Keys, Stale(k), k.action \notin LateActions
                 PROVE  k \in raced \cup dropped
      BY DEF SyncWhenReturned
    <2>1. ASSUME NEW a \in Agents, k \in OwedBy(a) PROVE FALSE
      <3>1. a \in Workers
        BY <2>1, OwedByWriter DEF Agents
      <3>2. Reaches(todo[a], k) \/ k \in scan[a]
        BY <2>1, <3>1, OwedByWorker
      <3> QED BY <3>1, <3>2, LateReaches DEF LateInv, LateOnly
    <2>2. ASSUME NEW t \in tasks, Reaches(t.steps, k) PROVE FALSE
      BY <2>2, LateReaches DEF LateInv, LateOnly
    <2> QED BY <2>1, <2>2 DEF SyncInv, StaleIsOwed, Owed
  <1> QED BY <1>1, <1>2, SyncInit, SyncStep, LateStepKeeps, PTL DEF Spec

-----------------------------------------------------------------------------
(* What the exceptions are for.  A rule whose list can always be computed  *)
(* leaves out no method and names imported viewsets only.                  *)
RulesComplete ==
  \A j \in RuleNumbers :
    Rules[j].skip = {} /\ (Rules[j].set # "custom" => \A a \in Rules[j].actions : ~Unresolved(a))

(* Such a rule yields targets, never the point of failure.                 *)
LEMMA CompleteOps ==
  ASSUME RulesComplete, NEW o \in Objects, NEW j \in RuleNumbers, NEW m
  PROVE  FAIL \notin SyncOps(o, Rules[j], m)
  <1>1. ~Raises(o, Rules[j], m)
    BY DEF RulesComplete, Raises
  <1>2. Rules[j].actions \ Rules[j].async_actions \in SUBSET Actions
    BY RuleType
  <1>3. Targets(o, Rules[j], Rules[j].actions \ Rules[j].async_actions) \in SUBSET Target
    BY <1>2, TargetsType
  <1> QED BY <1>1, <1>3, ConstantsAssumption DEF SyncOps, FAIL

(* Nor does a list of them have one.                                       *)
LEMMA CompleteSteps ==
  ASSUME RulesComplete, NEW self \in Objects, NEW origin \in Objects \cup {NULL}, NEW m,
         NEW js \in SUBSET RuleNumbers,
         NEW s \in SyncSteps(Instances(self, origin), m, js)
  PROVE  s.op # FAIL
  <1>1. PICK x \in Instances(self, origin), j \in js : s \in StepsAt(Place(x[1], j), SyncOps(x[2], Rules[j], m))
    BY DEF SyncSteps
  <1>2. s.op \in SyncOps(x[2], Rules[j], m)
    BY <1>1 DEF StepsAt
  <1> QED BY <1>2, InstancesType, CompleteOps

(* With such rules no writer is about to raise.                            *)
LEMMA NeverRaisesStep ==
  ASSUME RulesComplete, TypeOK, SkipDoesNotRaise, [Next]_vars
  PROVE  SkipDoesNotRaise'
  <1>0. ASSUME NEW w \in Writers, UNCHANGED todo PROVE \A s \in todo'[w] : s.op # FAIL
    BY <1>0 DEF SkipDoesNotRaise
  <1>1. ASSUME NEW w \in Writers, NEW v \in Agents, NEW T, todo' = [todo EXCEPT ![v] = T],
               v = w => \A s \in T : s.op # FAIL
        PROVE  \A s \in todo'[w] : s.op # FAIL
    BY <1>1 DEF TypeOK, SkipDoesNotRaise, Agents
  <1>2. ASSUME NEW w \in Writers, CommitSave(w) \/ BeginDelete(w) \/ CommitDelete(w)
        PROVE  \E T : todo' = [todo EXCEPT ![w] = T] /\ \A s \in T : s.op # FAIL
    <2>1. CASE CommitSave(w)
      <3>1. PICK r \in Rows :
              todo' = [todo EXCEPT ![w] =
                SyncSteps(Instances([writer[w].self EXCEPT !.row = r], writer[w].origin),
                          SaveMethod(writer[w].self), RuleNumbers)]
        BY <2>1 DEF CommitSave
      <3>2. writer[w].self \in Objects /\ writer[w].origin \in Objects \cup {NULL}
        BY <2>1 DEF CommitSave, TypeOK, HasInstance, WriterRecords
      <3>3. [writer[w].self EXCEPT !.row = r] \in Objects
        BY <3>2 DEF Objects
      <3> QED BY <3>1, <3>2, <3>3, CompleteSteps
    <2>2. CASE BeginDelete(w) \/ CommitDelete(w)
      <3>1. writer[w].self \in Objects
        BY <2>2 DEF BeginDelete, CommitDelete, TypeOK, HasInstance
      <3>2. \A js \in SUBSET RuleNumbers :
              \A s \in SyncSteps(Instances(writer[w].self, NULL), "delete", js) : s.op # FAIL
        BY <3>1, CompleteSteps
      <3>3. \A sets : RulesOf(sets) \in SUBSET RuleNumbers
        BY DEF RulesOf
      <3> DEFINE Listed(js) == SyncSteps(Instances(writer[w].self, NULL), "delete", js)
      <3>4. CASE BeginDelete(w)
        <4> DEFINE T == Listed(RulesOf({"foreign"})) \cup { s \in Listed(RuleNumbers) : s.op = FAIL }
        <4>1. todo' = [todo EXCEPT ![w] = T]
          BY <3>4 DEF BeginDelete
        <4>2. \A s \in T : s.op # FAIL
          BY <3>2, <3>3
        <4> QED BY <4>1, <4>2
      <3>5. CASE CommitDelete(w)
        <4> DEFINE T == Listed(RulesOf({"default", "custom"}))
        <4>1. todo' = [todo EXCEPT ![w] = T]
          BY <3>5 DEF CommitDelete
        <4>2. \A s \in T : s.op # FAIL
          BY <3>2, <3>3
        <4> QED BY <4>1, <4>2
      <3> QED BY <2>2, <3>4, <3>5
    <2> QED BY <1>2, <2>1, <2>2
  <1>3. ASSUME NEW w \in Writers, NEW v \in Writers,
               CommitSave(v) \/ BeginDelete(v) \/ CommitDelete(v)
        PROVE  \A s \in todo'[w] : s.op # FAIL
    <2>1. PICK T : todo' = [todo EXCEPT ![v] = T] /\ \A s \in T : s.op # FAIL
      BY <1>2, <1>3
    <2> QED BY <1>1, <2>1 DEF Agents
  <1>4. ASSUME NEW w \in Writers, NEW a \in Agents,
               ClearStep(a) \/ Crash(a) \/ (a \in Writers /\ RaiseTypeError(a)) \/ (a \in Workers /\ Take(a))
        PROVE  \A s \in todo'[w] : s.op # FAIL
    <2>1. w \in Workers => FALSE
      BY ConstantsAssumption
    <2>2. CASE ClearStep(a)
      <3>1. UNCHANGED todo \/ \E s \in todo[a] : todo' = [todo EXCEPT ![a] = todo[a] \ {s}]
        BY <2>2 DEF ClearStep, ClearKey, Scan, DeleteScanned, Next1
      <3> QED BY <1>0, <1>1, <3>1 DEF SkipDoesNotRaise
    <2>3. CASE Crash(a) \/ RaiseTypeError(a)
      <3>1. todo' = [todo EXCEPT ![a] = {}]
        BY <2>3 DEF Crash, RaiseTypeError
      <3> QED BY <1>1, <3>1
    <2>4. CASE a \in Workers /\ Take(a)
      <3>1. PICK t \in tasks : todo' = [todo EXCEPT ![a] = t.steps]
        BY <2>4 DEF Take
      <3> QED BY <1>1, <2>1, <2>4, <3>1
    <2> QED BY <1>4, <2>2, <2>3, <2>4
  <1>5. ASSUME NEW w \in Writers,
               \/ UNCHANGED vars
               \/ \E x \in Readers : (\E k \in Keys : Get(x, k)) \/ Load(x) \/ Fill(x)
               \/ \E v \in Writers :
                    \/ \E u \in Users : New(v, u) \/ BeginSave(v, u)
                    \/ \E r \in Rows : LoadObject(v, r) \/ \E u \in Users : NewWithKey(v, r, u)
                    \/ ReloadMissing(v)
                    \/ Dispatch(v)
               \/ \E k \in Keys : Expire(k)
        PROVE  \A s \in todo'[w] : s.op # FAIL
    <2>1. UNCHANGED todo
      BY <1>5 DEF vars, Get, Load, Fill, New, BeginSave, LoadObject, NewWithKey, ReloadMissing, Dispatch, Expire
    <2> QED BY <1>0, <2>1
  <1>6. ASSUME NEW w \in Writers PROVE \A s \in todo'[w] : s.op # FAIL
    BY <1>3, <1>4, <1>5 DEF Next, WriterStep, Agents
  <1> QED BY <1>6 DEF SkipDoesNotRaise

(* save() and delete() never raise over their rules, when no rule has a    *)
(* method's flag set to False and every action it names has been imported. *)
THEOREM RulesNeverRaise == RulesComplete /\ Spec => []SkipDoesNotRaise
  <1> DEFINE Inv == RulesComplete /\ TypeOK /\ SkipDoesNotRaise
  <1>1. RulesComplete /\ Init => Inv
    BY InitType DEF Init, SkipDoesNotRaise, Agents
  <1>2. Inv /\ [Next]_vars => Inv'
    BY StepType, NeverRaisesStep DEF RulesComplete
  <1>3. Inv => SkipDoesNotRaise
    OBVIOUS
  <1> HIDE DEF Inv
  <1> QED BY <1>1, <1>2, <1>3, PTL DEF Spec

(* No request stores a response across a clearing: when a clearing command *)
(* reaches Redis, no request is between its query and its SET.             *)
ReadsApart ==
  [][ (\E a \in Agents : ClearStep(a)) => \A x \in Readers : reader[x].pc # "fill" ]_vars

(* No read is overtaken, and no response was stored by one that was.       *)
NoneOvertaken == raced = {} /\ \A x \in Readers : ~reader[x].overtaken

(* Only a clearing overtakes a read.                                       *)
LEMMA ApartStep ==
  ASSUME TypeOK, NoneOvertaken, [Next]_vars,
         (\E a \in Agents : ClearStep(a)) => \A x \in Readers : reader[x].pc # "fill"
  PROVE  NoneOvertaken'
  <1>1. ASSUME NEW x \in Readers, NEW v, reader' = [reader EXCEPT ![x] = v], ~v.overtaken,
               raced' = {}
        PROVE  NoneOvertaken'
    BY <1>1 DEF NoneOvertaken, TypeOK
  <1>2. ASSUME NEW x \in Readers, (\E k \in Keys : Get(x, k)) \/ Load(x) \/ Fill(x)
        PROVE  NoneOvertaken'
    <2>1. ~IdleReader.overtaken
      BY DEF IdleReader
    <2>2. ~reader[x].overtaken /\ reader[x] \in ReaderRecords
      BY DEF NoneOvertaken, TypeOK
    <2>3. CASE \E k \in Keys : Get(x, k)
      <3>1. PICK k \in Keys : Get(x, k)
        BY <2>3
      <3> DEFINE v == [reader[x] EXCEPT !.pc = "load", !.key = k]
      <3>2. reader' = [reader EXCEPT ![x] = v] /\ raced' = {}
        BY <3>1 DEF Get, NoneOvertaken
      <3>3. ~v.overtaken
        BY <2>2 DEF ReaderRecords
      <3> HIDE DEF v
      <3> QED BY <1>1, <3>2, <3>3
    <2>4. CASE Load(x)
      <3> DEFINE read == [reader[x] EXCEPT !.pc = "fill", !.data = View(reader[x].key)]
                 v == IF Cfg[reader[x].key.action].detail /\ Scope(reader[x].key) = {} THEN IdleReader
                      ELSE read
      <3>1. reader' = [reader EXCEPT ![x] = v] /\ raced' = {}
        BY <2>4 DEF Load, NoneOvertaken
      <3>2. ~read.overtaken
        BY <2>2 DEF ReaderRecords
      <3> HIDE DEF read
      <3>3. ~v.overtaken
        BY <2>1, <3>2
      <3> HIDE DEF v
      <3> QED BY <1>1, <3>1, <3>3
    <2>5. CASE Fill(x)
      BY <1>1, <2>1, <2>2, <2>5 DEF Fill, NoneOvertaken
    <2> QED BY <1>2, <2>3, <2>4, <2>5
  <1>3. ASSUME NEW a \in Agents, ClearStep(a) PROVE NoneOvertaken'
    <2>1. \E K : Cleared(K)
      <3>1. CASE ClearKey(a)
        BY <3>1 DEF ClearKey
      <3>2. CASE Scan(a)
        BY <3>2 DEF Scan
      <3>3. CASE DeleteScanned(a)
        BY <3>3 DEF DeleteScanned
      <3> QED BY <1>3, <3>1, <3>2, <3>3 DEF ClearStep
    <2>2. \A x \in Readers : reader[x].pc # "fill"
      BY <1>3
    <2> QED BY <2>1, <2>2 DEF Cleared, NoneOvertaken
  <1>4. ASSUME UNCHANGED <<reader, raced>> PROVE NoneOvertaken'
    BY <1>4 DEF NoneOvertaken
  <1>5. ASSUME NEW w \in Writers,
               \/ \E u \in Users : New(w, u) \/ BeginSave(w, u)
               \/ \E r \in Rows : LoadObject(w, r) \/ \E u \in Users : NewWithKey(w, r, u)
               \/ ReloadMissing(w) \/ BeginDelete(w)
               \/ RaiseTypeError(w) \/ Dispatch(w)
        PROVE  NoneOvertaken'
    BY <1>4, <1>5 DEF New, BeginSave, LoadObject, NewWithKey, ReloadMissing, BeginDelete, RaiseTypeError,
                      Dispatch
  <1>8. ASSUME NEW w \in Writers, CommitSave(w) PROVE NoneOvertaken'
    BY <1>4, <1>8 DEF CommitSave
  <1>9. ASSUME NEW w \in Writers, CommitDelete(w) PROVE NoneOvertaken'
    BY <1>4, <1>9 DEF CommitDelete
  <1>6. ASSUME NEW a \in Agents, Take(a) \/ Crash(a) PROVE NoneOvertaken'
    BY <1>4, <1>6 DEF Take, Crash
  <1>7. CASE UNCHANGED vars \/ \E k \in Keys : Expire(k)
    BY <1>4, <1>7 DEF vars, Expire
  <1> QED BY <1>2, <1>3, <1>5, <1>6, <1>7, <1>8, <1>9 DEF Next, WriterStep, Agents

(* A read that falls between a clearing and the write it is for is the     *)
(* only way, besides a lost clearing, for a stale response to stay: where  *)
(* no request stores across a clearing, every stale response is owed one.  *)
THEOREM OnlyOvertakenStay == WellConfigured /\ Spec /\ ReadsApart => []SyncUnlessDropped
  <1>1. Init => NoneOvertaken
    BY DEF Init, NoneOvertaken, IdleReader
  <1>2. TypeOK /\ NoneOvertaken /\ [Next]_vars
        /\ [(\E a \in Agents : ClearStep(a)) => \A x \in Readers : reader[x].pc # "fill"]_vars
          => NoneOvertaken'
    <2>1. CASE UNCHANGED vars
      BY <2>1 DEF vars, NoneOvertaken
    <2> QED BY <2>1, ApartStep
  <1>3. NoneOvertaken /\ StaleIsOwed => SyncUnlessDropped
    BY DEF NoneOvertaken, StaleIsOwed, SyncUnlessDropped
  <1> QED BY <1>1, <1>2, <1>3, TypeCorrect, CacheInSync, PTL DEF Spec, ReadsApart

(* No clearing is lost where nothing fails and nothing raises.             *)
LEMMA NothingDropped == RulesComplete /\ MaxFaults = 0 /\ Spec => [](dropped = {})
  <1> DEFINE Inv == MaxFaults = 0 /\ dropped = {}
  <1>1. MaxFaults = 0 /\ Init => Inv
    BY DEF Init
  <1>2. TypeOK /\ SkipDoesNotRaise /\ Inv /\ [Next]_vars => Inv'
    <2> SUFFICES ASSUME TypeOK, SkipDoesNotRaise, MaxFaults = 0, dropped = {}, [Next]_vars
                 PROVE  dropped' = {}
      OBVIOUS
    <2>1. \A a \in Agents : ~Crash(a)
      BY DEF Crash, TypeOK
    <2>2. \A w \in Writers : ~RaiseTypeError(w)
      BY DEF RaiseTypeError, SkipDoesNotRaise, Next1
    <2>3. ASSUME NEW a \in Agents, ClearStep(a) PROVE dropped' = {}
      BY <2>3 DEF ClearStep, ClearKey, Scan, DeleteScanned, Cleared
    <2>4. ASSUME NEW w \in Writers,
                 \/ \E u \in Users : New(w, u) \/ BeginSave(w, u)
                 \/ \E r \in Rows : LoadObject(w, r) \/ \E u \in Users : NewWithKey(w, r, u)
                 \/ ReloadMissing(w) \/ BeginDelete(w)
                 \/ Dispatch(w)
          PROVE  dropped' = {}
      BY <2>4 DEF New, BeginSave, LoadObject, NewWithKey, ReloadMissing, BeginDelete, Dispatch
    <2>8. ASSUME NEW w \in Writers, CommitSave(w) PROVE dropped' = {}
      BY <2>8 DEF CommitSave
    <2>9. ASSUME NEW w \in Writers, CommitDelete(w) PROVE dropped' = {}
      BY <2>9 DEF CommitDelete
    <2>5. ASSUME NEW x \in Readers, (\E k \in Keys : Get(x, k)) \/ Load(x) \/ Fill(x)
          PROVE  dropped' = {}
      BY <2>5 DEF Get, Load, Fill
    <2>6. ASSUME NEW a \in Workers, Take(a) PROVE dropped' = {}
      BY <2>6 DEF Take
    <2>7. CASE UNCHANGED vars \/ \E k \in Keys : Expire(k)
      BY <2>7 DEF vars, Expire
    <2> QED BY <2>1, <2>2, <2>3, <2>4, <2>5, <2>6, <2>7, <2>8, <2>9
             DEF Next, WriterStep, Agents
  <1>3. Inv => dropped = {}
    OBVIOUS
  <1> HIDE DEF Inv
  <1> QED BY <1>1, <1>2, <1>3, TypeCorrect, RulesNeverRaise, PTL DEF Spec

(* Nobody is going to clear anything: no write is between its commit and   *)
(* its last clearing, no worker has a task, and none is queued.            *)
Settled ==
  /\ \A w \in Writers : writer[w].pc # "clear"
  /\ \A a \in Workers : todo[a] = {} /\ scan[a] = {}
  /\ tasks = {}

(* The whole promise: with well-configured rules that can be computed, no  *)
(* failure and no read across a clearing, every cached response is what    *)
(* the viewset would answer, whenever the clearings have been done.        *)
THEOREM SettledIsInSync ==
  WellConfigured /\ RulesComplete /\ MaxFaults = 0 /\ Spec /\ ReadsApart
    => [](Settled => \A k \in Keys : ~Stale(k))
  <1>1. SyncUnlessDropped /\ dropped = {} => (Settled => \A k \in Keys : ~Stale(k))
    <2> SUFFICES ASSUME SyncUnlessDropped, dropped = {}, Settled, NEW k \in Keys, Stale(k) PROVE FALSE
      OBVIOUS
    <2>1. \A a \in Agents : k \notin OwedBy(a)
      BY OwedByWriter, OwedByWorker DEF Settled, Agents, Reaches
    <2> QED BY <2>1 DEF SyncUnlessDropped, Owed, Settled
  <1> QED BY <1>1, OnlyOvertakenStay, NothingDropped, PTL
==============================================================================
