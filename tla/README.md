# A TLA+ verification of qx-base

qx-base is a library for Django REST framework services. Its own logic is small
and almost all of it is about data kept twice: REST responses, model objects,
users, counters and verification codes live in Redis beside the database, and
several processes read, fill, change and clear both without a lock. The
specifications in this directory model those protocols one database statement,
one Redis command and one broker call at a time, check them with TLC on small
instances, and prove the central properties for every instance with TLAPS.

All paths below are relative to `src/qx_base/`.

## 1. Inventory

| Part | State | Operations | What makes it correct |
|---|---|---|---|
| REST cache keys (`qx_rest/caches.py`) | the registry `VIEWSET_CACHE_CONFIG` | complete a viewset's `cache_config`, build the key of a request, build the key (or pattern) of a clearing | a clearing reaches every key a request can have filled |
| REST response cache (`qx_rest/caches.py`, `qx_rest/models.py`, `qx_rest/mixins.py`, `qx_rest/tasks.py`) | responses in Redis; the clearing list of each `save()` or `delete()`; celery's queue | a cached retrieve or list; `save`, `delete`; the task; SCAN and DEL by pattern | a response that differs from the database is going to be cleared; what is owed is done |
| Expiring hash (`qx_core/storage/redis.py`) | one Redis hash per window of time, its time to live | `hset`, `hget`, `hdel` | a field is kept for its time, replaced as a whole, and gone afterwards; no hash stays for ever |
| Verification codes (`qx_user/tools.py`, `qx_user/serializers.py`) | one field of an expiring hash per address | `get_new_code`, `verify_code`, `del_code`; sending, signing up and in, changing an address | one code at a time per address; the code that is verified is the one that was sent to that address |
| Field counters (`qx_core/models.py`, `ModelCountMixin`) | a Redis hash of `[num, timeout, unique]`; the column | load, prefetch, add, the sync that the application calls | every addition reaches the column once; once a day where `day_only` says so |
| Model object cache (`qx_rest/models.py`, `CacheModelMixin`; `qx_core/storage/caches.py`) | pickled objects and lists in Redis | `save`, `delete`, `cache_get`, `cache_query` | a cached object is the row, or about to be replaced |
| Authentication (`qx_user/auth.py`, `qx_user/viewsets.py`, `qx_user/models.py`) | the user object cached for 30 days | authenticate a token, `update_mobile`, `update_email` | a disabled or changed user is not served from the cache; a save from the cache undoes nothing |
| Sign-up and sign-in (`qx_user/serializers.py`, `qx_user/tools.py`) | users | existence check, code check, creation, random accounts | at most one user per address |
| Last access times (`qx_user/tools.py`, `qx_user/tasks.py`) | a Redis sorted set per page | record, copy to the database | the column becomes the time of the last access, again and again |
| Request middleware (`qx_core/middleware.py`, `qx_core/signature.py`) | the last body seen, on an object all threads share | check a signature, log an error | a log line shows the request's own body |
| Joins of content types (`qx_core/models.py`) | none | join rows to the objects they point at | each row gets its own object |
| Weeks and JSON checks (`qx_core/tools.py`, `qx_rest/serializers.py`) | none | pure functions | agree with their definitions |
| Framework glue (`qx_rest/response.py`, `routes.py`, ...) | none | envelopes, pages, permissions, settings | out of scope: no state of its own |

### How they interact

A request enters through the middleware, is authenticated (which may read or fill
the cached user), and reaches a viewset. A cached `retrieve` or `list` asks Redis,
then the database, then stores what it got. A write goes through `save()` or
`delete()` of a model that may be a `RestModelMixin` (it computes keys with
the registry the viewsets filled, clears some of them itself and sends the rest to
a celery worker), a `CacheModelMixin` (it replaces the cached object), or both.
Codes are kept in the expiring hash, users are cached with `ProxyCache`,
a daily celery task copies the access times to the database, and `sync_field_count_to_db` the counters, whenever the application calls
it: nothing in the repository schedules it.

### What is hard

There is no lock, no transaction around a Redis command, no version on a
cached value. So every "read, then write" is open to any other process; every
sequence of Redis commands can be cut by a crash; a queued clearing runs late and
out of order; a time read at construction is used later; an instance that was cached
weeks ago is saved with all its columns. `PROJECT.json` lists each
of these at its line, with the properties that watch over it, or why none does.

## 2. Modules

| Module | Models | Status |
|---|---|---|
| `RestCacheKey` | the key algebra of the REST cache: pure operators | done |
| `RestCache` | the REST response cache: readers, writers, workers, Redis, the queue | done |
| `MCRestCacheConfigs`, `MCRestCache` | the instances TLC checks | done |
| `RestCacheProofs` | types, that what is stale is owed a clearing, what is in sync when `save()` returns, and when everything is | done |
| `ExpiringMap` | abstract: a map whose entries expire | done |
| `ExpiredHash` | the expiring hash, command by command; implements `ExpiringMap` | done |
| `MCExpiredHash` | its instances | done |
| `ExpiredHashProofs` | types, times to live, and that fields are kept | done |
| `ExpiredHashMapProofs` | that a field has one value, that look-ups are atomic, and that the hash implements `ExpiringMap` | done |
| `ModelCount`, `MCModelCount` | the counters: loads, additions, the sync, midnight, crashes | done |
| `ModelCountProofs` | types, that counts are kept, that an id is counted once a day, and when there are no exceptions | done |
| `ModelCache`, `MCModelCache` | the object cache: saves, deletes, gets, queries | done |
| `ModelCacheProofs` | types, that objects and lists are kept, and when there are no exceptions | done |
| `VerifyCode`, `MCVerifyCode` | codes: sending, signing up and in, changes of address | done |
| `VerifyCodeProofs` | types, the three properties of codes, and that a code only expires where requests keep apart | done |
| `UserAuth` | the cached user, updates made through it, disabling; the access times and their task | done |
| `UserAuthProofs` | types, who is let in, that columns are kept, and when they are without exception | done |
| `ErrorLog` | the body of a request that all threads share | done |
| `TypeJoin` | joins of messages to objects of several models | done |
| `Weeks` | the numbering of weeks, against ISO 8601 | done |
| `JsonSafety` | the check of a JSON field against what it should accept | done |
| `Requests` | `UserAuth`, `ErrorLog`, `TypeJoin` and `Weeks` in one specification, each in behaviours of its own | done |
| `RequestsProofs` | the log, the joins and the weeks, for every instance | done |
| `MCRequests` | the instance of `Requests`, with the values that `JsonSafety` checks | done |

The order was that of what depends on them and of what can be lost: the response
cache is the library's largest protocol; the expiring hash is under the codes; the counters
and the object cache lose data on their own. Every invariant and action property that a run checks is
stated by a theorem, but for `CheckedIsSafe`; and each invariant that has exceptions has a theorem that says when
there are none (section 4).

Who uses whom: `VerifyCode` takes for its codes the map of `ExpiringMap`, which `ExpiredHash` implements where
no two calls write one field at a time (`OwnField`). For codes this is where the requests that send for one key do not overlap
(`SendsApart`) and nothing deletes their code meanwhile, so that `CodesOnlyExpire` speaks of codes in the hashes too. Where they overlap, `VerifyCode`
has the map's one value (`get_new_code`'s look-up and its `hset` are two steps, and what comes of it is what
`raced` and `gone` record), while the hashes may hold two: each `hset` clears before either saves, in two
windows. `expired_hash` and the proofs of `HashesDie` and `FieldsKept` cover that case in the hashes; in `VerifyCode` it is not modelled. `Requests` extends
`UserAuth` and instantiates the log, the joins and the weeks; they share no state, so that each
behaviour is one of one part. `MCRequests` adds `JsonSafety`, whose operators are recursive, so that nothing that is proved
reaches them.

### RestCacheKey and RestCache

A Redis key `viewset:<class>:<action>[:<user>][:<id>][:<md5>]` is the record of
its parts, and the md5 of the query parameters is the function that the code
computes it from. `Cfg` is what `parse_cache_config` makes of the configuration as
it is written. `clears(t, k)` says whether the call `clear_cache(key, is_pattern)`
removes `k`.

A row carries the number of the write that produced it in place of its columns,
and its owner, because the owner is part of keys. `View(k)` is what the viewset
would answer now for key `k`: the rows its queryset shows and their versions.
A cached response is *stale* when it differs from `View`.

| Action | Code |
|---|---|
| `Get`, `Load`, `Fill` | `_cache_retrieve` / `_cache_list`: the three places where a request waits: Redis GET, query, Redis SET |
| `New`, `NewWithKey`, `LoadObject` | how a request comes to hold an instance: a new one, one that is given its primary key, one that is loaded |
| `BeginSave`, `ReloadMissing`, `CommitSave` | `RestModelMixin.save`: the new values, `reload_data`, `super().save()` and the lists built after it |
| `BeginDelete`, `CommitDelete` | `RestModelMixin.delete`: foreign rules clear first, then `super().delete()`, then the others |
| `ClearKey`, `Scan`, `DeleteScanned` | one exact DEL; `clear_by_pattern`: SCAN, then a DEL for each key found |
| `RaiseTypeError` | a rule whose list cannot be computed |
| `Dispatch`, `Take` | `apply_async`, and a worker that takes a task, in any order |
| `Crash`, `Expire` | a process, Redis or the broker fails between two calls; a timeout or an eviction |

`todo[a]` is the rest of an agent's loop over clearing lists. `raced` and `dropped`
are history: keys whose response a read stored after its key had been cleared, and keys
whose clearing a crash or an exception took away. Both are emptied of a key
by the next clearing of it.

What a request is assumed to be: a response is never an empty value (so that `if not data`
is a miss); the queryset of a `by_user` action shows only that user's rows; a
request without a login is the user "None". The glob `list:1*` also matches
the keys of another id that begins with a 1: `Expire` covers it.

### ExpiredHash

Time is cut into windows of `retval` seconds, one Redis hash per window. `Call` is
the constructor with the first line of a method: it fixes `current`. `Look`, `Delete`, `Save`
and `Expire` are one HGET, HDEL, HSET and EXPIRE; `at` counts the three hashes of
`_query_name`. `Tick` passes a second and drops the hashes that are over. Redis
drops a hash with its last field, and its time to live with it.

`seen` and `lost` are history: what an undisturbed look-up could have answered
during a call, and the hashes whose EXPIRE a crash took away.

Two assumptions are in the model, each named where it is made:

- `hget` and `hset` return within `MaxDelay` seconds of the construction of the object
  (`Call`, `Tick`), as `CodeMsg` uses it. `hdel` may come at any age, because
  `del_code` follows the sending of a message. One second is the most that the
  hash bears: with two, a hash may be dropped between the HSET and the EXPIRE
  that would have prolonged it;
- the processes and Redis share a clock.

Writers of one field may overlap. That they do not is the condition `OwnField` of those theorems that need it.

### ModelCount

`hash[i]` is the field of row `i` in the Redis hash, `[num, timeout, unique]`, or NULL;
`call[c]` is what a process knows between two Redis commands. `Begin` starts
`load_field_count`, `prefetch_field_count` or `add_field_count` (which takes the day before it
reads). `Read`, `Query`, `Fill` and `Increment` are HGET or HMGET, the query,
HSET or HMSET of what was missing, and the HSET of an addition. The sync is `Snapshot` (HGETALL),
one `WriteRow` (UPDATE) for each entry in any order, `DeleteHash` and `Restore`. `Crash` ends
any call at any point; `DeleteRow` and `Midnight` are the application and the clock.

Additions are lost by design of the code when a call writes what it read before
another changed it. History variables name exactly those cases: `late[c]` are the ids that
somebody added to while `c` held them, `overtaken` those that a late call wrote. `due` is the first
value of the column and every addition. `counted` are the days on which an id was counted,
`unmarked` the ids whose last day the hash may not have (its entry left Redis, is away with a
sync, was put back by two syncs, or is of a call that took its day before midnight), and `again` those counted twice on
the last day that the hash had.

### ModelCache

`object[i]` is what is cached under an id, `list[g]` the cached list of a group. A process that
"has" an instance got it from the ORM (`Fetch`), from `cache_get` (`Get`, `Look`, `Keep`) or from a
list (`Query`, `Filter`, `Store`), and may change and save it at any later time. `Save` and `SaveName`
(`update_fields`) and `Create` commit, then `Set` and `Clear` write the cache; `Delete` commits, then
`Unset` and `Unlist`. `Fail` is a refused command, which the code logs and passes over.

`behind` are the processes that hold what is no longer so, `overtaken` the keys that one of
them wrote, `missed` the keys that a write changed and did not write (the group that the row left,
or what came after a refused command), and `partial` the lists that a query with more conditions filled.
All are emptied of a key when the key is deleted.

### VerifyCode

`codes[type][object]` is the map of the expiring hash of that type. A request that sends a
code goes through `SendToUser` or `SendToAddress` (the checks and the look-up of `get_new_code`),
`Put` (its `hset`), and `Deliver`, or `NotDelivered` and `Undo` (`del_code`). Signing up, signing in
and changing an address are `Verifies` with what comes before it, and `Commit`. `delivered` is history: what reached an
address and is not gone; `gone` are codes that expired, whose request died, or that a
request replaced or deleted while another sent a code for the same key. A code `NULL` given where none is stored
is accepted, as in the code. The user of `SendToUser` and `Update` is the row; that it may be an old
instance is the matter of `UserAuth`.

### UserAuth

A request is `Authenticate` (the GET of the cached user), then `Access` (ZADD) on a hit, or `Load` and `Keep`
(the query, the SET) on a miss; then it may `Update` the user, which saves every column of
the instance it holds and leaves the cached one, because `clear_cache` raises
(`self.user` is not an attribute of a user). `SetActive`, `DeleteUser` and `Signup` change the row and what is
`due`; `Tick` drops cached users whose time is over. `behind` marks instances older than the last change of
what is due. `Wake`, `ReadPage` and `CopyItem` are the daily task. The unit of time is longer than a
request, and a request may begin before a tick and end after it.

### ErrorLog, TypeJoin, Weeks, JsonSafety

`ErrorLog`: `_initial_http_body` is the attribute of the one middleware object, `request[t]` the request of a
thread between `ProcessRequest`, the `View` with its exception handler, `ProcessResponse` and `Call`.
`TypeJoin` takes any map of types to models, a type being in it once, as in a dictionary: `table` changes under a join (`Toggle`); a join is `Group`, one `Query` for each type, and `Join`.
`SetTypeObject` writes the type and the id alone: the object that an earlier join left stays on the message until the next join.
`Weeks` steps through the 400 years of a cycle of the calendar and checks every week of each.
`JsonSafety` has one initial state for each value: scalars, dictionaries and lists to a depth of four. A field accepts a value,
refuses it, or raises an `AttributeError` (`to_internal_value`).

## 3. Runs

Passing runs. Deadlock is not checked: every model stops when its bounds are used up.

| Run | Question | Bounds |
|---|---|---|
| `rest_cache` (`TypeOK`, `StaleIsOwed`, `PendingFillIsOwed`) | When every cached action is reached by a rule, is a stale response, or one on its way, always owed a clearing? | 1 row with a dependent row, 3 actions (exact, by pattern in a task, through a foreign rule), a custom rule that skips `create`, 2 writers, 1 reader, 1 worker, 2 writes, 1 crash |
| `rest_cache_move` (`SyncWhenReturned`, `StaleIsCleared`) | With `reload_data` and one writer, is the list of a row's former owner cleared, the synchronous keys before `save()` returns and the others at last? | 1 row, 2 users, 1 writer, 1 reader, 1 worker, 2 writes, 1 crash, with fairness |
| `expired_hash` (`KeptUntilExpired`, `EveryHashDies`) | Do concurrent writers of the same windows, also of one field, lose nothing before its time and leave no eternal hash? | 2 objects, 2 fields, windows of 3 seconds, 6 seconds, 1 crash |
| `expired_hash_map` (`TypeOK`, `ClearedBeforeSaved`, `LooksAreAtomic`, `IsExpiringMap`) | Do three hashes and four commands behave like one map with one value to a field, and three HGETs like one look-up? | 1 reader, 1 writer, 2 fields, 6 seconds |
| `model_count` (`TypeOK`, `CountKept`, `OnceADay`, `WrittenBack`) | Is an addition lost, or an id counted twice a day, in any other way than by a late write? Does every addition reach the column, if the sync is called again and again? | 1 row, 2 clients, 1 sync, 2 additions, 1 midnight, 1 crash, a timeout of 1 |
| `model_cache` (`TypeOK`, `ObjectKept`, `ListKept`) | When is a cached object or list not what the database has? | 2 rows, 1 group, 2 names, 2 processes, 2 saves, deletes or failures |
| `verify_code` (`TypeOK`, `DeliveredKept`, `StoredIsKnown`, `AddressProven`) | Is the code that was delivered the one that is checked? Can a code that nobody has block an address? What does a code prove? | 1 user, 1 mobile, 1 e-mail, 2 requests, 2 codes, 4 types |
| `requests` (`TypeOK`, `LetInRecently`, `ColumnsKept`, `AccessTimeReached`) | How long is a disabled user let in? Who undoes a change of the columns? Do access times arrive? | 1 user, 2 requests, 2 mobiles, 1 e-mail, 2 pages, 2 ticks, 2 decisions |
| `requests` (`LogTypeOK`, `LogsOwnBody`) | Whose body is in the log? | 2 threads, 2 bodies, every outcome of a view |
| `requests` (`JoinedRight`, `JoinedAll`) | Does a join leave its own object on each message, or none, whatever an earlier join had left there? | 2 messages, 5 types of which two stand for one model, one for none and one is not in the map, objects of both models with one id |
| `requests` (`WeeksInOrder`) | Are weeks numbered as in the calendar? | 400 years, every week |
| `requests` (`CheckedIsSafe`) | Does the check accept what it should, and nothing else (but for what a list requires, section 5)? | containers of up to two values, to a depth of four |

Runs that end in a violation, each a disagreement of code and documentation (quoted in `PROJECT.json`):

| Run | What it shows |
|---|---|
| `rest_cache_skip` (`SkipDoesNotRaise`) | A rule with `"create": False` makes `save()` of a new row raise `TypeError` after the row is committed: `_empty_func` is returned where its result should be. |
| `rest_cache_delete` (`StaleIsOwed`) | `delete()` clears the synchronous keys of a foreign rule before the row is gone. A read in between stores the old rows again. |
| `rest_cache_race` (`SyncUnlessDropped`) | A read that queried before a save and stores after the clearing leaves a stale response for as long as its timeout, with nothing having failed. |
| `expired_hash_early` (`KeptUntilExpired`) | With an expiry that is not a whole number of minutes, a field set late in a window is saved in this window's hash and dies with it, too soon. |

Why the bounds are enough. In `rest_cache` two writes by two writers overlap in every way
(each between any two steps of the other, of a read, and of a queued task),
and each kind of clearing occurs: exact, pattern, foreign, custom, synchronous
and queued. A third write adds no new pair of steps. Versions are only compared for
equality, so that two writes and the initial row tell everything apart. In `model_cache` a save by one process falls between any
two steps of a get, a query, a save or a delete by the other; the second row makes lists with
other members. One group is enough, because a row leaves it for a group without a key, and
a second group would only repeat that. In `model_count` two clients and the sync overlap in every
way, and a timeout of one makes entries leave Redis. In `verify_code` two
requests send for one key, or one sends while the other verifies; one user is enough for every
type of request, and of two sign-ups with one address the second is refused against the user
that the first one made. In `requests` two requests hold
instances of different age of one user, and two ticks see a cached user stored,
outlived and dropped. The expiring hash repeats itself with
a period of one window; six seconds with windows of three cover an entry that is
set in one window, read in the next and expired in the third, at every offset,
the boundaries included. `expired_hash_map` has one writer, of either field; the proofs add others, each with a field of its
own at the time. The proofs remove these bounds for what they prove. Once this mattered: two additions are
too few for a third to count an id again on the day before, which a call that took its day before midnight
can do after another has counted the new day. The proof of `OnceADay` failed there, and the property now
speaks of the last day an id was counted on (section 5).

Every property has a mutant of the code (`PROJECT.json`) that TLC finds to violate
it: a pattern deleted as if it were a key, a task that is never sent, the row before the
save not walked, a window's boundary taken for the window before, the third hash not cleared, and so on.

Fairness is assumed in three places. In `FairSpec` of `RestCache`: a request inside `save()` or `delete()` goes on to its
next step (Python code between two calls that return), and a celery worker takes
what is queued and works through it. In `FairSpec` of `ModelCount`: a sync that has begun goes on, because
its steps are calls that return. That it begins again and again is nowhere assumed: nothing in the repository schedules `sync_field_count_to_db`, so
that it is the premise of `WrittenBack` (`[]<>` of the sync's first step), which an application has to make true. In `FairSpec` of `UserAuth` (and in
`Requests`): the task of the access times is started and goes on, a celery task for which the repository's README gives
a daily beat schedule. Nothing obliges a client to send another request,
a read to finish, Redis to evict, or a process to crash. A crash is not excluded by
fairness; what it took away is `dropped` in `RestCache`, and in `ModelCount` it is bounded.

## 4. Proofs

`tlapm` checks every proof; `ConstantsAssumption` of each module (in `Requests`, `RequestsAssumption` too) is all that
is assumed of the constants, besides the conditions in the theorems.

**RestCacheProofs.** `TypeCorrect`: `Spec => []TypeOK`.
`CacheInSync`: `WellConfigured /\ Spec => []StaleIsOwed`; `FillsInSync`: the same
for `PendingFillIsOwed`; `SyncOnReturn`: the same for `SyncWhenReturned`. `WellConfigured` says that for every cached action some rule
names it for every method and can be computed, that keys with a code are cleared by
pattern, that a foreign rule clears in the task unless rows are never deleted, and
that either rows keep their owners, or there is one writer and `reload_data` is on. The runs show what goes wrong without the third
(`rest_cache_delete`). `rest_cache` and `rest_cache_move` are instances of it, of the first and of the second
alternative of the fourth: `MCRestCache` assumes `WellConfigured`, which TLC evaluates.

The invariant is `SyncInv`: `StaleIsOwed` alone is not inductive, because a reader
may be about to store what it read, so that `PendingFillIsOwed` is needed with it, and
because a clearing is computed from the instance in memory. Where owners are fixed, `OwnersKept` (the instance
a writer holds has the owner the row has) makes its keys the right ones; where rows change hands, `OwnersKnown` says
that the one writer that is about to commit holds the owner that it reloaded, and `RowsBorn` that
it reloads whenever there is a row. The argument has two halves: a step that changes no row and no
response can only change who owes a clearing (`QuietStep`: a key is still owed or
among the dropped), and a commit that changes the view of a key puts a
target for that key on the writer's list (`SyncReaches`, `AsyncReaches`).

`SyncOnReturn` needs more than `StaleIsOwed`: what the queue and the workers still owe must not be a key of a
synchronous action. `AsyncIsLate` and `ClearsItsAction` say that a task only ever has keys of actions that some
rule clears in a task, so that, with no writer clearing, nobody owes the others (`LateReaches`).

Two of the runs that end in a violation have their counterpart here. `RulesNeverRaise`: with `RulesComplete` (no rule sets a
method's flag to False, and every action it names is imported) `save()` and `delete()` never raise over their
rules, which `rest_cache_skip` shows they do otherwise. `OnlyOvertakenStay`: with `ReadsApart` (no request is between its query and its
SET when a clearing command reaches Redis) `SyncUnlessDropped` holds, which `rest_cache_race` violates; the condition
makes `raced` stay empty (`ApartStep`). `SettledIsInSync` has both, and `MaxFaults = 0`: whenever the clearings are
done, no cached response is stale. This is what the library promises its users, and these are the conditions under which
it holds.

**ExpiredHashProofs.** `TypeCorrect`: `Spec => []TypeOK`, of which the content is that every name
computed from a time of the behaviour is one of `Hashes`. `HashesDie`:
`Spec => []EveryHashDies`, for every expiry and any number of objects, also where they write one field.
`FieldsKept`: `WholeMinutes /\ MaxDelay <= 1 /\ Spec => []KeptUntilExpired`.
`WholeMinutes` is the condition whose absence `expired_hash_early` shows to matter. Nothing is assumed of
who writes which field: an overwritten field is not lost, and a second value of it does no harm here.

The invariant is `KeptInv`: every entry is in the hash its own time names (`EntriesNamed`), a hash
does not die before the window it is named after (`DiesLate`), and one that dies before an entry of it
expires is owed an EXPIRE (`ShortIsOwed`). `KeptUntilExpired` alone is not
inductive: it does not say where the entry came from, so nothing would tie its hash to
the windows of later moments. `Effects` reduces every step to three kinds (an entry
is added, a hash is prolonged, neither), from which each invariant is proved in
three cases. The arithmetic of windows is in `InWindow`, `NextWindow` and
`NamesAreHashes`.

**ExpiredHashMapProofs.** `Cleared`, `LooksAtomic`, `ImplementsMap` and `ImplementsMapWithoutCrashes`: with `WholeMinutes` and
`MaxDelay <= 1`, where no two calls write one field at a time (`[]OwnField`), `Spec` implies `[]ClearedBeforeSaved`
and `[]LooksAreAtomic`, and, where no EXPIRE is ever lost
(`[](lost = {})`, which `MaxFaults = 0` implies), `IsExpiringMap`: each step of the hashes is a step of
`ExpiringMap` or changes nothing of it. Both conditions are needed: two calls that write one field across the end of a
window leave a value in each of two hashes, and a hash that lost its EXPIRE may be prolonged by
nobody and take a valid field away, which the map does not do.

The invariants are in layers. `CallInv`: the time of a call is at most `MaxDelay` old, and no two calls write one field.
`SetInv` adds to it `KeptInv` and `ClearedSoFar`: while a writer clears, a valid entry of its field can only be in
the hashes it has not come to, and none is when it saves. From this follows `OneRecent`, that a field never has two
valid entries, without which a look-up would depend on the order of the hashes. `SeenSoFar` says of a look-up under way that it has
either seen the moment without an entry or has the entry still before it: a writer may move a field
from a hash that was not looked into to one that was, but clears it first. With `LookInv` the map that is `Shown` is
the one entry of each field whose time is not over (`ShownIs`), and `DeleteShown`, `SaveShown` and `TickShown` are
the map's three steps. An HSET whose entry is over by then shows nothing, and is a stutter.

**ModelCountProofs.** `TypeCorrect`: `Spec => []TypeOK`. `CountsKept`: `Spec => []CountKept`, for any number of rows, clients
and syncs. The invariant is `CountInv`: for a row that is there and was not overtaken, besides `CountKept`, every
process that holds a count and is not late for it holds the one that is due, and where it found no entry the column
is due (`HoldsDue`); the sync has written the rows it is through with. Without `HoldsDue` a `Fill` or a
`Restore` could write anything.

`DaysKept`: `Spec => []OnceADay`. The invariant is `DayInv`: the entry of the hash, and the one that a client holds and is not
late with, has the last day its id was counted on (`HasLastDay`, `HoldsDay`), a sync that deleted the
hash took the last day of every id with it (`TookDay`), and an addition goes on only where the entry has another day
(`Checked`). `OnceADay` alone says nothing of what a call read: the day is compared in memory, long before it is written.

`NothingLostAlone` is what remains without exceptions: where no other process holds what an addition is about to change
(`[]AddsAlone`), the count of every row is the first value and every addition, and no id is counted twice on the last day
the hash has, whatever the loads, the syncs, their overlaps and the crashes. Under the condition nobody is ever
`late` (`OnTimeStep`), so that nobody overtakes.

**ModelCacheProofs.** `TypeCorrect`, `ObjectsKept` and `ListsKept`: `Spec => []ObjectKept` and `[]ListKept`. The invariant adds
`Current`: a process that is not behind holds the row as it is, and the list that it is about to store
is that of its group. `CommitKept` is the step that matters: a commit puts every key it
changes among those that are due or missed, and everybody who held the row or the list behind.

`ObjectsInSync` and `ListsInSync` say where the exceptions are empty. Objects: no command fails (`NoFailure`), a save of one
column leaves the row as the instance (`WholeSaves`), and no call is about to write an object that another has committed
and still has to write (`[]CallsApart`); then a cached object is its row, or due to be written. Without
`WholeSaves` the columns that are not saved are cached as the instance has them. Lists: besides, no row leaves its group
(`GroupsFixed`; the list of the group that it left stays, section 5), `cache_query` is called with the group alone and none
is about to store a list that a commit has still to delete (`QueriesApart`); then a cached list is its group's rows, or due. The invariants
are `ObjectsFresh` (who is behind writes no object) and `CopiesInGroup` with `ListsFresh` (every copy knows its
row's group, so that the list that a commit deletes is the right one).

**VerifyCodeProofs.** `TypeCorrect`, `CodesStay` (`DeliveredKept`), `CodesKnown` (`StoredIsKnown`) and `AddressesProven` (`AddressProven`). The
invariant has two parts. About requests: two that send for one key both know that they overlap
(`RivalsRaced`), one that does not overlap finds nothing but its own code under its key (`LonersAlone`), a
code on its way is stored or gone (`FlyingStored`), and no two are the same (`FlyingApart`). About
codes: one on its way is not yet delivered (`FlyingFresh`), what was delivered was made and is not gone
(`DeliveredMade`), a code is stored under one key (`StoredOnce`), and a code goes to the address it is stored
under, or to the e-mail of a request that named a mobile too (`AllProper`). `DeliveredKept` alone is not inductive: it does
not say that whoever stores or deletes next is alone.

`CodesOnlyExpire` is an action property: where no two requests that send a code for one key overlap (`[]SendsApart`), a step that
takes a delivered code away is its `Expire`. Requests that fail to deliver, die, or verify leave it alone. By
`NoneRaced` every request knows that it is alone, and `FlyingFresh` tells the code that it may lose from those delivered.

**UserAuthProofs.** `TypeCorrect`, `OnlyActiveLetIn` (`LetInRecently`) and `ColumnsStay` (`ColumnsKept`). For the first, `RecentInv`: a cached
user dies within the cache's time, and one unit, of the last moment its row was active
(`CachedRecently`), and one about to be stored was active when its request began (`ReadActive`). The
unit is real: the query may come before a tick and the SET after it. For the second, `KeptInv`: every cached
or held instance that is not behind has the columns that are due (`CachedKept`, `HeldKept`). `ColumnsAreDue`: where no update is made
through an instance that is behind (`[][UpdatesFresh]_vars`), the columns of every row are those decided, always. The
cached user breaks the condition after each update, because `clear_cache` raises (section 5).

**RequestsProofs.** About the log: `LogTypes` (`LogTypeOK`) and `OwnBodyLogged` (`LogsOwnBody`). The invariant is `LogInv`: the body on
the middleware is that of every request on its way that was not raced (`BodyHeld`), and what was logged is known at each
point of a request (`LoggedSoFar`), so that no request is logged by both `process_response` and `__call__`. About joins:
`RightlyJoined` (`JoinedRight`) and `AllJoined` (`JoinedAll`), action properties of the step that ends a join, by `JoinInv`: what was found is kept under its own id
and type (`FoundFits`), a message refers to what it was set to (`GivenFits`), whatever object an earlier join left on it, and the queries that are through have found
everything that was there all the time (`Loaded`). That a type stands for one model (`OneObject`) is what makes a found object the
given one. About weeks: `ConvertsISOWeeks`: for every first day, week and day, `convert_week` counts from the Monday of the week
that has the fourth of January, though the code looks only at the week number of the first; `WeeksOfEveryYear`: every
year has 52 or 53 weeks and its last is followed by the first of the next; and `WeeksOrdered` (`WeeksInOrder`).

**Only model-checked:** the liveness properties `StaleIsCleared`, `WrittenBack` and `AccessTimeReached` (liveness under fairness is out of the
prover's reach), and `CheckedIsSafe`, whose operators are recursive and would need induction over values.

## 5. What the models show about the code

None of these has a property of its own, because no text of the repository says otherwise or
because a model takes them as they are; they are where a maintainer would look first.

- `QxUser.clear_cache` (`qx_user/models.py:123`) reads `self.user`, which a user has not: `update_mobile` and
  `update_email` save the row and then fail, and the cached user stays. An `update_email` after an
  `update_mobile` saves the old mobile again (`reverted` in `UserAuth`).
- A code for a new address is stored under the user's id (`qx_user/serializers.py:62`) and looked for under the new
  address (lines 250 and 276): no code that was sent is accepted there, and none at all is (`qx_user/tools.py:97`: `None == None`).
- `CodeMsg` ignores its `expire_time`: the hash has its own default.
- `load_field_count` and `add_field_count` of a row that is not there raise a `ValueError` (`qx_core/models.py:247` and
  269 unpack two values into three).
- `add_field_count` takes the day before it reads (`qx_core/models.py:274`). A call that crosses midnight finds the mark of the new day, which
  another client left, different from its own, and counts an id again on the day before; its mark then lets the
  new day count once more. Two syncs that overlap write back marks that additions in between have replaced.
- The list of the group that a row left is not deleted (`qx_rest/models.py:290`), and a `cache_query` with conditions beyond
  the key stores its filtered list under the key (line 349).
- `required_fields` of `SafeJSONField` is looked at only if it is a dictionary (`qx_rest/serializers.py:93`). The docstring says
  "required_fields: required fields" (line 66) and its example has a list, `required_fields=['test1']` (line 73): such a field accepts
  values without `test1`. `to_internal_value` models it; `CheckedIsSafe` says nothing of those values, because code and docstring disagree about them.
- With a dictionary of required fields, a value that is a list or a scalar ends in an `AttributeError` (line 94: `data.keys()`) in place
  of a refusal, before `status` is looked at.
- `set_type_object` (`qx_core/models.py:116`) leaves the `type_object` of an earlier join on the message: until the next join
  it shows an object of another type and id than it has.
- Nothing in the repository calls or schedules `sync_field_count_to_db` outside of tests.
- `get_jwt_userinfo` has the key `mobile` twice (`qx_user/models.py:102`); a token holds the e-mail under it. Line 208 of
  `qx_user/serializers.py` raises a class that is no exception.

## 6. Not modelled

- In the REST cache: `clear_cache_keys`, `clear_cache_key` and `get_chache_key`, which nothing
  calls; the JSON encoding of responses; what the response of a hit looks like.
- In the expiring hash: that the constructor refuses more than 30 days, and the encoding of values.
- In the object cache: the limit of 100 objects to a list, more than one field to a key, and `delete_keys` of `ProxyCache`.
- In authentication: the decoding of headers and tokens (cryptography), and the websocket middleware,
  which does not await its Redis client and so never finds a user.
- In the request middleware: the signature check (cryptography and the sorting of strings).
- Of the joins, `load_set_queryset_object`, one query whose result is set at once; of the serializers,
  `DateTimeField`, the lists that create in bulk, and the references of `RefViewMixin`, which are calls of Django.
- Sign-in with a password, `refresh_token` and `account_exists`, which change nothing.
- Redis itself beyond the commands used: one server, no replication.
- Django and Django REST framework; response envelopes, routes, pages, permissions, settings; the sample project.
