------------------------------ MODULE UserAuth ------------------------------
(***************************************************************************)
(* Authentication by token and the cached user (qx_user/auth.py            *)
(* JwtAuthentication), the change of an address by the user that was       *)
(* found (qx_user/serializers.py), and the last access times: a sorted set *)
(* per page of users in Redis, and the daily task that copies them to the  *)
(* rows (qx_user/tools.py UserLastAccessTime).  A query and a Redis        *)
(* command are steps of their own.  The unit of time is longer than a      *)
(* request: none sees two ticks.                                           *)
(***************************************************************************)
EXTENDS Integers

CONSTANTS
  NULL,
  Ids,                    \* of users
  Requests,               \* requests in progress
  Mobiles, Emails,
  AUTH_TOKEN_CACHE_TIME, JWT_EXPIRED_DAYS, total_page,
  MaxNow,                 \* bound: ticks
  MaxDecisions            \* bound: changes of what is due to a user

Times == 0 .. MaxNow
Pages == 0 .. total_page - 1
Columns == [active : BOOLEAN, mobile : Mobiles, email : Emails]
Rows == [due : Columns, access : Times]
Instances == [due : Columns, access : Times, behind : BOOLEAN]

ASSUME ConstantsAssumption ==
  /\ Ids \subseteq Nat /\ MaxNow \in Nat /\ MaxDecisions \in Nat
  /\ AUTH_TOKEN_CACHE_TIME \in Nat \ {0}    \* Redis takes no other
  /\ JWT_EXPIRED_DAYS \in Nat /\ total_page \in Nat \ {0}
  /\ NULL \notin Int /\ NULL \notin Columns /\ NULL \notin Rows /\ NULL \notin Instances

VARIABLES
  row,        \* [Ids -> row or NULL]: the columns, and last_access_time
  cached,     \* [Ids -> [user : Instances, until : Nat] or NULL]
  zset,       \* [Pages -> [Ids -> score or NULL]]
  call,       \* [Requests -> the request, or Idle]
  task,       \* the copy: the page, and the items that are still to copy
  now,
  due,        \* history: what the columns of a row should be
  decisions,  \* how often due was changed
  active_at,  \* history: when a user's row was last active, or -1
  reverted    \* history: users whose row was saved from an instance that
              \* was behind

store == <<row, cached, zset>>
history == <<due, decisions, active_at, reverted>>
vars == <<store, call, task, now, history>>

Idle == [pc |-> "idle", id |-> NULL, since |-> NULL, user |-> NULL]
Asleep == [page |-> NULL, items |-> {}]

Goes(p, k) == call' = [call EXCEPT ![p] = k]

Active(r) == IF r = NULL THEN FALSE ELSE r.due.active

(* The row of u becomes r; it was active until now, or is from now on.     *)
Writes(u, r) ==
  /\ row' = [row EXCEPT ![u] = r]
  /\ active_at' = [active_at EXCEPT ![u] =
       IF Active(row[u]) \/ Active(r) THEN now ELSE active_at[u]]

Behind(user) == IF user = NULL THEN NULL ELSE [user EXCEPT !.behind = TRUE]

(* The columns of u should be c from now on.  The instances of u that are  *)
(* in the cache or held by requests are behind; those in ks go on as told. *)
Decides(u, c, ks) ==
  /\ decisions < MaxDecisions /\ decisions' = decisions + 1
  /\ due' = [due EXCEPT ![u] = c]
  /\ cached' = IF cached[u] = NULL THEN cached
       ELSE [cached EXCEPT ![u] = [user |-> Behind(cached[u].user), until |-> cached[u].until]]
  /\ call' = [p \in Requests |->
       IF ks[p].id = u THEN [ks[p] EXCEPT !.user = Behind(ks[p].user)] ELSE ks[p]]

(* The columns of u may be c: no other user has the addresses.             *)
Free(u, c) ==
  \A v \in Ids \ {u} : row[v] # NULL =>
    row[v].due.mobile # c.mobile /\ row[v].due.email # c.email

Init ==
  /\ due \in [Ids -> Columns \cup {NULL}]
  /\ row = [u \in Ids |-> IF due[u] = NULL THEN NULL ELSE [due |-> due[u], access |-> 0]]
  /\ \A u \in Ids : due[u] # NULL => Free(u, due[u])
  /\ cached = [u \in Ids |-> NULL]
  /\ zset = [page \in Pages |-> [u \in Ids |-> NULL]]
  /\ call = [p \in Requests |-> Idle]
  /\ task = Asleep /\ now = 0
  /\ decisions = 0 /\ active_at = [u \in Ids |-> IF Active(row[u]) THEN 0 ELSE -1] /\ reverted = {}

-----------------------------------------------------------------------------
(* authenticate_credentials, as far as GET: the token was made at created. *)
Authenticate(p, u, created) ==
  /\ call[p] = Idle
  /\ now - JWT_EXPIRED_DAYS <= created
  /\ \/ /\ cached[u] # NULL
        /\ Goes(p, [pc |-> "access", id |-> u, since |-> now, user |-> cached[u].user])
     \/ /\ cached[u] = NULL
        /\ Goes(p, [pc |-> "load", id |-> u, since |-> now, user |-> NULL])
  /\ UNCHANGED <<store, task, now, history>>

(* update_access_time: ZADD, or an error that is logged.                   *)
Access(p) ==
  LET k == call[p]
      page == k.id % total_page IN
  /\ k.pc = "access"
  /\ \/ zset' = [zset EXCEPT ![page] = [zset[page] EXCEPT ![k.id] = k.since]]
     \/ UNCHANGED zset
  /\ Goes(p, [k EXCEPT !.pc = "in"])
  /\ UNCHANGED <<row, cached, task, now, history>>

Instance(r) == [due |-> r.due, access |-> r.access, behind |-> FALSE]

(* Mutant: is_active is not looked at.                                     *)
LoadAnyone(p) ==
  LET k == call[p] IN
  /\ k.pc = "load"
  /\ Goes(p, IF row[k.id] # NULL
             THEN [k EXCEPT !.pc = "keep", !.user = Instance(row[k.id])] ELSE Idle)
  /\ UNCHANGED <<store, task, now, history>>

(* A user who is not there, or is disabled, gets an error.                 *)
Load(p) ==
  LET k == call[p] IN
  /\ k.pc = "load"
  /\ Goes(p, IF Active(row[k.id])
             THEN [k EXCEPT !.pc = "keep", !.user = Instance(row[k.id])] ELSE Idle)
  /\ UNCHANGED <<store, task, now, history>>

(* proxy.set.                                                              *)
Keep(p) ==
  LET k == call[p] IN
  /\ k.pc = "keep"
  /\ cached' = [cached EXCEPT ![k.id] = [user |-> k.user, until |-> now + AUTH_TOKEN_CACHE_TIME]]
  /\ Goes(p, [k EXCEPT !.pc = "in"])
  /\ UNCHANGED <<row, zset, task, now, history>>

(* The request ends, without a change of the user.                         *)
Leave(p) ==
  /\ call[p].pc = "in"
  /\ Goes(p, Idle)
  /\ UNCHANGED <<store, task, now, history>>

(* Mutant: the value was popped from the validated data.                   *)
Unchanged(c, field, value) == c

Changed(c, field, value) == [c EXCEPT ![field] = value]

(* update_mobile and update_email: save() writes every column of the       *)
(* instance, and inserts it if the row is gone; clear_cache then raises    *)
(* (no attribute user), so that the cache stays.  Not when the address is  *)
(* another user's.                                                         *)
Update(p, field, value) ==
  LET k == call[p]
      u == k.id
      r == [due |-> Changed(k.user.due, field, value), access |-> k.user.access] IN
  /\ k.pc = "in"
  /\ Free(u, r.due)
  /\ Writes(u, r)
  /\ Decides(u, IF due[u] = NULL THEN NULL ELSE [due[u] EXCEPT ![field] = value],
             [call EXCEPT ![p] = Idle])
  /\ reverted' = IF k.user.behind THEN reverted \cup {u} ELSE reverted
  /\ UNCHANGED <<zset, task, now>>

-----------------------------------------------------------------------------
(* What the application decides: a sign-up makes the user; staff disable,  *)
(* enable and delete.                                                      *)
Signup(u, mobile, email) ==
  LET c == [active |-> TRUE, mobile |-> mobile, email |-> email] IN
  /\ row[u] = NULL /\ due[u] = NULL
  /\ Free(u, c)
  /\ Writes(u, [due |-> c, access |-> now])
  /\ Decides(u, c, call)
  /\ UNCHANGED <<zset, task, now, reverted>>

SetActive(u, active) ==
  /\ row[u] # NULL /\ due[u] # NULL
  /\ Writes(u, [row[u] EXCEPT !.due = [row[u].due EXCEPT !.active = active]])
  /\ Decides(u, [due[u] EXCEPT !.active = active], call)
  /\ UNCHANGED <<zset, task, now, reverted>>

DeleteUser(u) ==
  /\ row[u] # NULL
  /\ Writes(u, NULL)
  /\ Decides(u, NULL, call)
  /\ UNCHANGED <<zset, task, now, reverted>>

-----------------------------------------------------------------------------
(* save_access_time_to_db: for every page, ZREVRANGE, then an UPDATE for   *)
(* each member; the members stay in the set.                               *)
Wake ==
  /\ task = Asleep
  /\ task' = [page |-> 0, items |-> {}]
  /\ UNCHANGED <<store, call, now, history>>

Items(page) == { [id |-> u, time |-> zset[page][u]] : u \in { v \in Ids : zset[page][v] # NULL } }

(* Mutant: the last page is left out.                                      *)
PageBefore(page) == IF page + 2 < total_page THEN [page |-> page + 1, items |-> {}] ELSE Asleep

(* Mutant: one page too many.                                              *)
PageBeyond(page) == IF page < total_page THEN [page |-> page + 1, items |-> {}] ELSE Asleep

AfterPage(page) == IF page + 1 < total_page THEN [page |-> page + 1, items |-> {}] ELSE Asleep

ReadPage ==
  /\ task # Asleep /\ task.items = {}
  /\ task' = IF Items(task.page) = {} THEN AfterPage(task.page)
             ELSE [page |-> task.page, items |-> Items(task.page)]
  /\ UNCHANGED <<store, call, now, history>>

CopyItem(i) ==
  /\ i \in task.items
  /\ IF row[i.id] = NULL THEN UNCHANGED <<row, active_at>>
     ELSE Writes(i.id, [row[i.id] EXCEPT !.access = i.time])
  /\ task' = IF task.items = {i} THEN AfterPage(task.page)
             ELSE [task EXCEPT !.items = task.items \ {i}]
  /\ UNCHANGED <<cached, zset, call, now, due, decisions, reverted>>

-----------------------------------------------------------------------------
(* Redis drops the cached users whose time is over.                        *)
Tick ==
  /\ now < MaxNow /\ now' = now + 1
  /\ \A p \in Requests : call[p] # Idle => call[p].since = now
  /\ cached' = [u \in Ids |->
       IF cached[u] = NULL THEN NULL ELSE IF cached[u].until > now' THEN cached[u] ELSE NULL]
  /\ active_at' = [u \in Ids |-> IF Active(row[u]) THEN now' ELSE active_at[u]]
  /\ UNCHANGED <<row, zset, call, task, due, decisions, reverted>>

Copy == Wake \/ ReadPage \/ \E i \in task.items : CopyItem(i)

Next ==
  \/ \E p \in Requests :
       \/ \E u \in Ids, created \in Times : Authenticate(p, u, created)
       \/ Access(p) \/ Load(p) \/ Keep(p) \/ Leave(p)
       \/ \E mobile \in Mobiles : Update(p, "mobile", mobile)
       \/ \E email \in Emails : Update(p, "email", email)
  \/ \E u \in Ids :
       \/ \E mobile \in Mobiles, email \in Emails : Signup(u, mobile, email)
       \/ \E b \in BOOLEAN : SetActive(u, b)
       \/ DeleteUser(u)
  \/ Copy \/ Tick

Spec == Init /\ [][Next]_vars

(* The task is started every day and goes on.                              *)
FairSpec == Spec /\ WF_vars(Copy)

-----------------------------------------------------------------------------
(* Every variable has its type; a request past its query has the user it   *)
(* found, and one that sees a tick is at most one tick old.                *)
TypeOK ==
  /\ row \in [Ids -> Rows \cup {NULL}] /\ due \in [Ids -> Columns \cup {NULL}]
  /\ cached \in [Ids -> [user : Instances, until : Nat] \cup {NULL}]
  /\ zset \in [Pages -> [Ids -> Times \cup {NULL}]]
  /\ call \in [Requests ->
       {Idle} \cup [pc : {"load"}, id : Ids, since : Times, user : {NULL}]
              \cup [pc : {"access", "keep", "in"}, id : Ids, since : Times, user : Instances]]
  /\ task \in {Asleep} \cup [page : Pages, items : SUBSET [id : Ids, time : Times]]
  /\ now \in Times /\ decisions \in 0 .. MaxDecisions
  /\ active_at \in [Ids -> Times \cup {-1}] /\ reverted \subseteq Ids
  /\ \A p \in Requests : call[p] # Idle => now - 1 <= call[p].since /\ call[p].since <= now

(* Whoever is let in was active in the database at most the cache's time   *)
(* before: the user is looked up on a miss only, so that disabling or      *)
(* deleting takes effect after that time at the latest, and not sooner     *)
(* (the last unit of it is for a user that was stored later than read).    *)
LetInRecently ==
  \A p \in Requests : call[p].pc \in {"access", "in"} =>
    call[p].since <= active_at[call[p].id] + AUTH_TOKEN_CACHE_TIME

(* The columns of a user stay what was decided, the task that writes the   *)
(* access times and concurrent requests notwithstanding, until an update   *)
(* saves an instance that is behind.                                       *)
ColumnsKept ==
  \A u \in Ids \ reverted : (IF row[u] = NULL THEN NULL ELSE row[u].due) = due[u]

(* Time and again, the last access time of every row is that of its last   *)
(* access, though an update writes back an old one.                        *)
AccessTimeReached ==
  []<>(\A u \in Ids :
         row[u] # NULL /\ zset[u % total_page][u] # NULL
           => row[u].access = zset[u % total_page][u])
==============================================================================
