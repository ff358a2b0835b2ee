----------------------------- MODULE ModelCount -----------------------------
(***************************************************************************)
(* ModelCountMixin (qx_core/models.py): an integer column counted in a     *)
(* Redis hash and written back by a sync that the application calls.       *)
(* Every Redis command and every query is a step of its own; nothing locks *)
(* the hash.                                                               *)
(***************************************************************************)
EXTENDS Integers

CONSTANTS
  NULL,
  Ids,                   \* rows of the model, existing or not
  Clients,               \* processes that load, prefetch and add
  Syncers,               \* processes that run the sync
  Nums,                  \* what one call of add_field_count adds
  model_count_timeout,   \* syncs after which an idle entry leaves Redis
  model_count_day_only,  \* an id is counted once a day only
  MaxAdds,               \* bound: additions begun in a behaviour
  MaxDay,                \* bound: the last day of a behaviour
  MaxFaults              \* bound: crashes in a behaviour

Procs == Clients \cup Syncers

Entries == [num : Nat, timeout : Nat, unique : Nat \cup {NULL}]

ASSUME ConstantsAssumption ==
  /\ Clients \cap Syncers = {}
  /\ Nums \subseteq Nat
  /\ model_count_timeout \in Nat
  /\ model_count_day_only \in BOOLEAN
  /\ MaxAdds \in Nat /\ MaxDay \in Nat /\ MaxFaults \in Nat
  /\ NULL \notin Nat /\ NULL \notin Entries

(* What a column's value becomes when it is loaded into the hash.          *)
Loaded(num) == [num |-> num, timeout |-> model_count_timeout, unique |-> NULL]

-----------------------------------------------------------------------------
VARIABLES
  row,        \* [Ids -> the column, or NULL: no such row]
  hash,       \* [Ids -> entry or NULL]
  call,       \* the call each process is in
  today,
  adds,
  faults,
  due,        \* history: the first value of the column and every addition
  late,       \* history: ids added to by others since the call read them
  overtaken,  \* history: ids that a call wrote although it was late
  counted,    \* history: the days an id was counted on
  unmarked,   \* history: ids whose last day the hash may not have
  again       \* history: ids counted twice on the last day that the hash had

marks == <<counted, unmarked, again>>
vars == <<row, hash, call, today, adds, faults, due, late, overtaken, marks>>

Nothing == [i \in Ids |-> NULL]

Idle == [pc |-> "idle", op |-> "none", ids |-> {}, num |-> 0, only |-> 0,
         held |-> Nothing]

(* The count that a load would answer.                                     *)
Count(i) == IF hash[i] # NULL THEN hash[i].num ELSE row[i]

(* c has read something that it is going to write.                         *)
Holding(c) == call[c].pc \notin {"idle", "read"}

(* c writes what it knows about ids: the ones it is late for are overtaken. *)
Writes(c, ids) == overtaken' = overtaken \cup (late[c] \cap ids)

(* The ids that are added to in this step: who holds them is late.         *)
Added(ids) ==
  late' = [c \in Procs |-> IF Holding(c) /\ Holding(c)' THEN late[c] \cup ids ELSE {}]

Init ==
  /\ row \in [Ids -> {0, NULL}]
  /\ hash = Nothing
  /\ call = [c \in Procs |-> Idle]
  /\ today = 0
  /\ adds = 0
  /\ faults = 0
  /\ due = [i \in Ids |-> 0]
  /\ late = [c \in Procs |-> {}]
  /\ overtaken = {}
  /\ counted = [i \in Ids |-> {}]
  /\ again = {}
  /\ unmarked = {}

-----------------------------------------------------------------------------
(* load_field_count (of one id) or prefetch_field_count, and               *)
(* add_field_count, which takes the day first.                             *)
Begin(c, op, ids, num) ==
  /\ call[c] = Idle
  /\ call' = [call EXCEPT ![c] =
       [pc |-> "read", op |-> op, ids |-> ids, num |-> num,
        only |-> IF op = "add" THEN today ELSE 0, held |-> Nothing]]
  /\ Added({})
  /\ UNCHANGED <<row, hash, today, faults, due, overtaken, marks>>

Load(c, ids) == ids # {} /\ Begin(c, "load", ids, 0) /\ UNCHANGED adds
Add(c, i, n) == adds < MaxAdds /\ adds' = adds + 1 /\ Begin(c, "add", {i}, n)

(* What follows when a call has its counts: add goes on, unless the id was *)
(* counted on this day.                                                    *)
Known(k) ==
  IF k.op = "add"
     /\ ~(model_count_day_only /\ \E i \in k.ids : k.held[i].unique = k.only)
  THEN [k EXCEPT !.pc = "add"]
  ELSE Idle

(* The HGET or HMGET.                                                      *)
Read(c) ==
  LET k == [call[c] EXCEPT !.held =
              [i \in Ids |-> IF i \in call[c].ids THEN hash[i] ELSE NULL]] IN
  /\ call[c].pc = "read"
  /\ call' = [call EXCEPT ![c] =
       IF \E i \in k.ids : k.held[i] = NULL THEN [k EXCEPT !.pc = "query"] ELSE Known(k)]
  /\ Added({})
  /\ UNCHANGED <<row, hash, today, adds, faults, due, overtaken, marks>>

(* The query for what Redis does not have.  A row that is not there is     *)
(* left out by a prefetch; a load and an addition fail to unpack two       *)
(* values into three and raise a ValueError.                               *)
Query(c) ==
  LET k == call[c]
      found == { i \in k.ids : k.held[i] = NULL /\ row[i] # NULL } IN
  /\ k.pc = "query"
  /\ call' = [call EXCEPT ![c] =
       IF found = {} THEN Idle
       ELSE [k EXCEPT !.pc = "fill", !.ids = found,
              !.held = [i \in Ids |-> IF i \in found THEN Loaded(row[i]) ELSE k.held[i]]]]
  /\ Added({})
  /\ UNCHANGED <<row, hash, today, adds, faults, due, overtaken, marks>>

(* The HSET or HMSET of what was queried.                                  *)
Fill(c) ==
  LET k == call[c] IN
  /\ k.pc = "fill"
  /\ hash' = [i \in Ids |-> IF i \in k.ids THEN k.held[i] ELSE hash[i]]
  /\ call' = [call EXCEPT ![c] = Known(k)]
  /\ Writes(c, k.ids)
  /\ Added({})
  /\ UNCHANGED <<row, today, adds, faults, due, marks>>

(* The HSET of add_field_count.                                            *)
Increment(c, i) ==
  LET k == call[c] IN
  /\ k.pc = "add" /\ i \in k.ids
  /\ hash' = [hash EXCEPT ![i] =
       [num |-> k.held[i].num + k.num, timeout |-> k.held[i].timeout + 1,
        unique |-> k.only]]
  /\ call' = [call EXCEPT ![c] = Idle]
  /\ due' = [due EXCEPT ![i] = due[i] + k.num]
  /\ Added({i})
  /\ Writes(c, {i})
  /\ counted' = [counted EXCEPT ![i] = counted[i] \cup {k.only}]
  /\ unmarked' = IF \E d \in counted[i] : d > k.only THEN unmarked \cup {i} ELSE unmarked \ {i}
  /\ again' = IF i \notin unmarked /\ k.only \in counted[i] /\ \A d \in counted[i] : d <= k.only
              THEN again \cup {i} ELSE again
  /\ UNCHANGED <<row, today, adds, faults>>

-----------------------------------------------------------------------------
(* sync_field_count_to_db: the HGETALL.                                    *)
Snapshot(c) ==
  /\ call[c] = Idle
  /\ call' = [call EXCEPT ![c] =
       [pc |-> "rows", op |-> "sync", ids |-> { i \in Ids : hash[i] # NULL },
        num |-> 0, only |-> 0, held |-> hash]]
  /\ Added({})
  /\ UNCHANGED <<row, hash, today, adds, faults, due, overtaken, marks>>

(* Mutant: only an entry that leaves Redis is written back.                *)
WriteRowOfLeaving(c, i) ==
  LET k == call[c] IN
  /\ k.pc = "rows" /\ i \in k.ids
  /\ row' = [row EXCEPT ![i] =
       IF row[i] = NULL \/ k.held[i].timeout > 0 THEN row[i] ELSE k.held[i].num]
  /\ call' = [call EXCEPT ![c] = [k EXCEPT !.ids = k.ids \ {i}]]
  /\ Writes(c, {i})
  /\ Added({})
  /\ UNCHANGED <<hash, today, adds, faults, due, marks>>

(* One UPDATE; it finds no row where the row is gone.                      *)
WriteRow(c, i) ==
  LET k == call[c] IN
  /\ k.pc = "rows" /\ i \in k.ids
  /\ row' = [row EXCEPT ![i] = IF row[i] = NULL THEN NULL ELSE k.held[i].num]
  /\ call' = [call EXCEPT ![c] = [k EXCEPT !.ids = k.ids \ {i}]]
  /\ Writes(c, {i})
  /\ Added({})
  /\ UNCHANGED <<hash, today, adds, faults, due, marks>>

(* Mutant: an entry goes back once more when its timeout is over.          *)
KeptAtZero(k) == { i \in Ids : k.held[i] # NULL /\ k.held[i].timeout >= 0 }

(* The entries that go back into Redis.                                    *)
Kept(k) == { i \in Ids : k.held[i] # NULL /\ k.held[i].timeout > 0 }

(* The DEL of the whole hash.                                              *)
DeleteHash(c) ==
  LET k == call[c] IN
  /\ k.pc = "rows" /\ k.ids = {}
  /\ hash' = Nothing
  /\ call' = [call EXCEPT ![c] = IF Kept(k) = {} THEN Idle ELSE [k EXCEPT !.pc = "restore"]]
  /\ Writes(c, Ids)
  /\ unmarked' = unmarked \cup { i \in Ids : hash[i] # NULL }
  /\ Added({})
  /\ UNCHANGED <<row, today, adds, faults, due, counted, again>>

(* The entries put back with their last day, which no other call looked    *)
(* for while they were away, and no other sync has.                        *)
Marked(c) ==
  { i \in Kept(call[c]) :
      /\ counted[i] = {} \/ call[c].held[i].unique \in counted[i]
      /\ \A d \in counted[i] : d <= call[c].held[i].unique
      /\ \A d \in Procs \ {c} : Holding(d) => i \notin call[d].ids
      /\ \A d \in Syncers \ {c} : call[d].held[i] = NULL }

(* Mutant: the days are not put back.                                      *)
RestoreUndated(c) ==
  LET k == call[c] IN
  /\ k.pc = "restore"
  /\ hash' = [i \in Ids |->
       IF i \in Kept(k) THEN [k.held[i] EXCEPT !.timeout = k.held[i].timeout - 1, !.unique = NULL] ELSE hash[i]]
  /\ call' = [call EXCEPT ![c] = Idle]
  /\ Writes(c, Kept(k))
  /\ unmarked' = unmarked \ Marked(c)
  /\ Added({})
  /\ UNCHANGED <<row, today, adds, faults, due, counted, again>>

(* The HMSET of the entries that stay.                                     *)
Restore(c) ==
  LET k == call[c] IN
  /\ k.pc = "restore"
  /\ hash' = [i \in Ids |->
       IF i \in Kept(k) THEN [k.held[i] EXCEPT !.timeout = k.held[i].timeout - 1] ELSE hash[i]]
  /\ call' = [call EXCEPT ![c] = Idle]
  /\ Writes(c, Kept(k))
  /\ unmarked' = unmarked \ Marked(c)
  /\ Added({})
  /\ UNCHANGED <<row, today, adds, faults, due, counted, again>>

SyncStep(c) ==
  Snapshot(c) \/ (\E i \in Ids : WriteRow(c, i)) \/ DeleteHash(c) \/ Restore(c)

-----------------------------------------------------------------------------
(* The row is deleted; its entry stays in Redis.                           *)
DeleteRow(i) ==
  /\ row[i] # NULL
  /\ row' = [row EXCEPT ![i] = NULL]
  /\ UNCHANGED <<hash, call, today, adds, faults, due, late, overtaken, marks>>

Midnight ==
  /\ today < MaxDay
  /\ today' = today + 1
  /\ UNCHANGED <<row, hash, call, adds, faults, due, late, overtaken, marks>>

(* A process dies, or Redis refuses it a command.                          *)
Crash(c) ==
  /\ faults < MaxFaults
  /\ call[c] # Idle
  /\ call' = [call EXCEPT ![c] = Idle]
  /\ faults' = faults + 1
  /\ Added({})
  /\ UNCHANGED <<row, hash, today, adds, due, overtaken, marks>>

Next ==
  \/ \E c \in Clients :
       \/ \E ids \in SUBSET Ids : Load(c, ids)
       \/ \E i \in Ids : Increment(c, i) \/ \E n \in Nums : Add(c, i, n)
       \/ Read(c) \/ Query(c) \/ Fill(c) \/ Crash(c)
  \/ \E c \in Syncers : SyncStep(c) \/ Crash(c)
  \/ \E i \in Ids : DeleteRow(i)
  \/ Midnight

Spec == Init /\ [][Next]_vars

(* A sync that has begun goes on: its steps are calls that return.         *)
(* Nothing obliges anybody to begin one.                                   *)
FairSpec == Spec /\ \A c \in Syncers : WF_vars(call[c] # Idle /\ SyncStep(c))

-----------------------------------------------------------------------------
(* Properties.                                                             *)

Calls ==
  [ pc : {"idle", "read", "query", "fill", "add", "rows", "restore"},
    op : {"none", "load", "add", "sync"},
    ids : SUBSET Ids, num : Nat, only : 0..MaxDay,
    held : [Ids -> Entries \cup {NULL}] ]

(* The variables keep their types; a call that writes knows what it        *)
(* writes, and a timeout is never negative.                                *)
TypeOK ==
  /\ row \in [Ids -> Nat \cup {NULL}]
  /\ hash \in [Ids -> Entries \cup {NULL}]
  /\ call \in [Procs -> Calls]
  /\ \A c \in Procs : call[c].pc \in {"fill", "add", "rows"} =>
       \A i \in call[c].ids : call[c].held[i] # NULL
  /\ today \in 0..MaxDay
  /\ adds \in 0..MaxAdds
  /\ faults \in 0..MaxFaults
  /\ due \in [Ids -> Nat]
  /\ late \in [Procs -> SUBSET Ids]
  /\ overtaken \in SUBSET Ids
  /\ counted \in [Ids -> SUBSET (0..MaxDay)]
  /\ again \in SUBSET Ids
  /\ unmarked \in SUBSET Ids

(* No addition is lost, by a load, a sync or a crash at any point of them, *)
(* unless it came between a read and a write of another call on the row    *)
(* ("cache to redis and sync to db").                                      *)
CountKept ==
  \A i \in Ids : row[i] # NULL /\ i \notin overtaken => Count(i) = due[i]

(* With model_count_day_only an id is counted once a day ("every day       *)
(* once"): the day is kept through loads and syncs, unless an entry left   *)
(* Redis (its timeout over, or a crash), was looked for while a sync had   *)
(* taken it away, was put back by two syncs, was written by a call of the  *)
(* day before, or overtaken.                                               *)
OnceADay ==
  model_count_day_only => again \subseteq overtaken

(* Every addition reaches the column ("sync redis data to db"), if the     *)
(* application calls the sync again and again: the library never does.     *)
WrittenBack ==
  []<><<\E c \in Syncers : Snapshot(c)>>_vars =>
    \A i \in Ids : \A n \in 1..MaxAdds :
      due[i] >= n ~> row[i] = NULL \/ i \in overtaken \/ row[i] >= n
==============================================================================
