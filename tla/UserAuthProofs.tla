---------------------------- MODULE UserAuthProofs ----------------------------
(***************************************************************************)
(* Theorems about UserAuth, for any number of users, requests and pages.   *)
(***************************************************************************)
EXTENDS UserAuth, TLAPS

(* NULL is no value of anything.                                           *)
LEMMA NullIsNone ==
  /\ NULL \notin Int /\ NULL \notin Ids /\ NULL \notin Times
  /\ NULL \notin Columns /\ NULL \notin Rows /\ NULL \notin Instances
  /\ Ids \subseteq Nat /\ MaxNow \in Nat /\ MaxDecisions \in Nat
  /\ AUTH_TOKEN_CACHE_TIME \in Nat \ {0} /\ total_page \in Nat \ {0}
<1>1. NULL \notin Int /\ Ids \subseteq Nat
  BY ConstantsAssumption
<1>2. \A n \in Nat : n \in Int /\ n # NULL
  BY <1>1
<1>3. NULL \notin Ids
  BY <1>1, <1>2
<1>4. \A n \in Times : n \in Nat
  BY ConstantsAssumption DEF Times
<1>5. NULL \notin Times
  BY <1>2, <1>4
<1> QED  BY <1>3, <1>5, ConstantsAssumption

-----------------------------------------------------------------------------
(* The types of TypeOK that have no name there.                            *)
Cached == [user : Instances, until : Nat]
Calls == {Idle} \cup [pc : {"load"}, id : Ids, since : Times, user : {NULL}]
                \cup [pc : {"access", "keep", "in"}, id : Ids, since : Times, user : Instances]
Tasks == {Asleep} \cup [page : Pages, items : SUBSET [id : Ids, time : Times]]

(* TypeOK, in parts.                                                       *)
LEMMA TypeOKParts ==
  TypeOK <=>
    /\ row \in [Ids -> Rows \cup {NULL}] /\ due \in [Ids -> Columns \cup {NULL}]
    /\ cached \in [Ids -> Cached \cup {NULL}]
    /\ zset \in [Pages -> [Ids -> Times \cup {NULL}]]
    /\ call \in [Requests -> Calls]
    /\ task \in Tasks
    /\ now \in Times /\ decisions \in 0 .. MaxDecisions
    /\ active_at \in [Ids -> Times \cup {-1}] /\ reverted \subseteq Ids
    /\ \A p \in Requests : call[p] # Idle => now - 1 <= call[p].since /\ call[p].since <= now
BY DEF TypeOK, Cached, Calls, Tasks

(* A cached user is none, or an instance and its time.                     *)
LEMMA CachedNotNull ==
  ASSUME TypeOK, NEW u \in Ids, cached[u] # NULL
  PROVE  cached[u] \in Cached
BY TypeOKParts

(* A request that is under way has a user, who it found if it is past its  *)
(* query.                                                                  *)
LEMMA CallFacts ==
  ASSUME NEW k \in Calls
  PROVE  /\ k = Idle \/ (k.id \in Ids /\ k.since \in Times /\ k.pc # "idle")
         /\ k = Idle => k.pc = "idle" /\ k.id = NULL /\ k.user = NULL
         /\ k.pc \in {"access", "keep", "in"} => k \in [pc : {"access", "keep", "in"}, id : Ids, since : Times, user : Instances]
         /\ k.pc = "load" => k \in [pc : {"load"}, id : Ids, since : Times, user : {NULL}]
BY DEF Calls, Idle

(* An instance that is behind is one.                                      *)
LEMMA BehindFacts ==
  ASSUME NEW user \in Instances \cup {NULL}
  PROVE  /\ user = NULL => Behind(user) = NULL
         /\ user \in Instances => /\ Behind(user) \in Instances
                                  /\ Behind(user).behind = TRUE /\ Behind(user) # NULL
BY NullIsNone DEF Behind, Instances

(* What Decides does to a request.                                         *)
LEMMA BehindCall ==
  ASSUME NEW k \in Calls, NEW u \in Ids, k.id = u
  PROVE  LET j == [k EXCEPT !.user = Behind(k.user)] IN
         /\ j \in Calls /\ j # Idle /\ j.pc = k.pc /\ j.id = k.id /\ j.since = k.since
         /\ j.pc \in {"access", "keep", "in"} => j.user.behind = TRUE
<1>1. k # Idle
  BY NullIsNone, CallFacts
<1>2. CASE k.pc = "load"
  BY <1>1, <1>2, CallFacts, BehindFacts DEF Calls, Idle
<1>3. CASE k.pc \in {"access", "keep", "in"}
  <2>1. k \in [pc : {"access", "keep", "in"}, id : Ids, since : Times, user : Instances]
    BY <1>3, CallFacts
  <2>2. Behind(k.user) \in Instances /\ Behind(k.user).behind = TRUE
    BY <2>1, BehindFacts
  <2> QED  BY <1>3, <2>1, <2>2 DEF Calls, Idle
<1> QED  BY <1>1, <1>2, <1>3 DEF Calls, Idle

(* A request that goes on leaves the others.                               *)
LEMMA GoesCalls ==
  ASSUME TypeOK, NEW p \in Requests, NEW k, Goes(p, k)
  PROVE  /\ call'[p] = k /\ \A q \in Requests \ {p} : call'[q] = call[q]
         /\ k \in Calls => call' \in [Requests -> Calls]
BY TypeOKParts DEF Goes

(* What a write of a row does.                                             *)
LEMMA WritesFacts ==
  ASSUME TypeOK, NEW u \in Ids, NEW r \in Rows \cup {NULL}, Writes(u, r)
  PROVE  /\ row' \in [Ids -> Rows \cup {NULL}] /\ active_at' \in [Ids -> Times \cup {-1}]
         /\ row'[u] = r /\ \A v \in Ids \ {u} : row'[v] = row[v]
         /\ \A v \in Ids \ {u} : active_at'[v] = active_at[v]
         /\ active_at'[u] = IF Active(row[u]) \/ Active(r) THEN now ELSE active_at[u]
BY TypeOKParts DEF Writes

(* The request k becomes j: what it holds of u is behind.                  *)
Outdates(u, k, j) ==
  /\ j \in Calls /\ j.pc = k.pc /\ j.id = k.id /\ j.since = k.since
  /\ j # Idle => k # Idle
  /\ k.id # u => j = k
  /\ k.id = u /\ k.pc \in {"access", "keep", "in"} => j.user.behind = TRUE

(* What a decision does to the requests.                                   *)
LEMMA DecidesCalls ==
  ASSUME TypeOK, NEW u \in Ids, NEW c, NEW ks \in [Requests -> Calls], Decides(u, c, ks)
  PROVE  \A p \in Requests : Outdates(u, ks[p], call'[p])
<1> SUFFICES ASSUME NEW p \in Requests PROVE Outdates(u, ks[p], call'[p])
  OBVIOUS
<1>1. ks[p] \in Calls
  OBVIOUS
<1>2. CASE ks[p].id = u
  <2>1. call'[p] = [ks[p] EXCEPT !.user = Behind(ks[p].user)]
    BY <1>2 DEF Decides
  <2>2. ks[p] # Idle
    BY <1>2, NullIsNone DEF Idle
  <2> QED  BY <1>1, <1>2, <2>1, <2>2, BehindCall DEF Outdates
<1>3. CASE ks[p].id # u
  BY <1>1, <1>3 DEF Decides, Outdates
<1> QED  BY <1>2, <1>3

(* What a decision does: whatever was taken from the row is behind.        *)
LEMMA DecidesFacts ==
  ASSUME TypeOK, NEW u \in Ids, NEW c \in Columns \cup {NULL}, NEW ks \in [Requests -> Calls],
         Decides(u, c, ks)
  PROVE  /\ due' \in [Ids -> Columns \cup {NULL}] /\ decisions' \in 0 .. MaxDecisions
         /\ cached' \in [Ids -> Cached \cup {NULL}] /\ call' \in [Requests -> Calls]
         /\ due'[u] = c /\ \A v \in Ids \ {u} : due'[v] = due[v] /\ cached'[v] = cached[v]
         /\ cached'[u] # NULL =>
              /\ cached[u] # NULL /\ cached'[u].until = cached[u].until
              /\ cached'[u].user.behind = TRUE
<1>1. due' \in [Ids -> Columns \cup {NULL}] /\ decisions' \in 0 .. MaxDecisions
      /\ due'[u] = c /\ \A v \in Ids \ {u} : due'[v] = due[v]
  BY TypeOKParts, NullIsNone DEF Decides
<1>2. /\ cached' \in [Ids -> Cached \cup {NULL}]
      /\ \A v \in Ids \ {u} : cached'[v] = cached[v]
      /\ cached'[u] # NULL =>
              /\ cached[u] # NULL /\ cached'[u].until = cached[u].until
              /\ cached'[u].user.behind = TRUE
  <2>1. CASE cached[u] = NULL
    BY <2>1, TypeOKParts DEF Decides
  <2>2. CASE cached[u] # NULL
    <3> DEFINE x == [user |-> Behind(cached[u].user), until |-> cached[u].until]
    <3>1. cached[u].user \in Instances /\ cached[u].until \in Nat
      BY <2>2, CachedNotNull DEF Cached
    <3>2. x \in Cached /\ x.until = cached[u].until /\ x.user.behind = TRUE
      BY <3>1, BehindFacts DEF Cached
    <3>3. cached' = [cached EXCEPT ![u] = x]
      BY <2>2 DEF Decides
    <3> HIDE DEF x
    <3> QED  BY <2>2, <3>2, <3>3, TypeOKParts
  <2> QED  BY <2>1, <2>2
<1>3. \A p \in Requests : call'[p] \in Calls
  BY DecidesCalls DEF Outdates
<1>4. call' \in [Requests -> Calls]
  BY <1>3 DEF Decides
<1> QED  BY <1>1, <1>2, <1>4

(* The columns an update asks for.                                         *)
LEMMA ChangedFacts ==
  ASSUME NEW c \in Columns, NEW field, NEW value,
         \/ field = "mobile" /\ value \in Mobiles
         \/ field = "email" /\ value \in Emails
  PROVE  Changed(c, field, value) \in Columns /\ [c EXCEPT ![field] = value] \in Columns
BY DEF Changed, Columns

(* The time of the next tick, and its place among the times of others.     *)
LEMMA TickFacts ==
  ASSUME TypeOK, Tick
  PROVE  /\ now \in Nat /\ now' = now + 1 /\ now' \in Times
         /\ UNCHANGED <<row, zset, call, task, due, decisions, reverted>>
         /\ \A u \in Ids : cached'[u] # NULL => cached'[u] = cached[u] /\ cached[u].until > now'
         /\ cached' \in [Ids -> Cached \cup {NULL}]
         /\ \A u \in Ids : active_at'[u] = IF Active(row[u]) THEN now' ELSE active_at[u]
         /\ active_at' \in [Ids -> Times \cup {-1}]
<1>1. now \in Nat /\ now' = now + 1 /\ now' \in Times
  BY NullIsNone DEF TypeOK, Tick, Times
<1> QED  BY <1>1, TypeOKParts DEF Tick

-----------------------------------------------------------------------------
(* The steps of Next as facts: what becomes of the requests.  A request    *)
(* that goes on stays the age it is, or starts now.                        *)
InTime(k) == k # Idle => now - 1 <= k.since /\ k.since <= now

(* A step of a request that writes no row keeps the types.                 *)
LEMMA GoesType ==
  ASSUME TypeOK, NEW p \in Requests, NEW k \in Calls, Goes(p, k), InTime(k),
         UNCHANGED <<row, task, now, history>>,
         cached' \in [Ids -> Cached \cup {NULL}],
         zset' \in [Pages -> [Ids -> Times \cup {NULL}]]
  PROVE  TypeOK'
<1>1. call' \in [Requests -> Calls] /\ \A q \in Requests : call'[q] = k \/ call'[q] = call[q]
  BY GoesCalls
<1>2. \A q \in Requests : call'[q] # Idle => now - 1 <= call'[q].since /\ call'[q].since <= now
  BY <1>1, TypeOKParts DEF InTime
<1> QED  BY <1>1, <1>2, TypeOKParts DEF TypeOK, Cached, Calls, history

(* So does one that changes what is due to a user.                         *)
LEMMA DecidesType ==
  ASSUME TypeOK, NEW u \in Ids, NEW c \in Columns \cup {NULL}, NEW ks \in [Requests -> Calls],
         NEW r \in Rows \cup {NULL}, Writes(u, r), Decides(u, c, ks),
         \A p \in Requests : ks[p] = call[p] \/ ks[p] = Idle,
         reverted' \subseteq Ids, UNCHANGED <<zset, task, now>>
  PROVE  TypeOK'
<1>1. row' \in [Ids -> Rows \cup {NULL}] /\ active_at' \in [Ids -> Times \cup {-1}]
  BY WritesFacts
<1>2. /\ due' \in [Ids -> Columns \cup {NULL}] /\ decisions' \in 0 .. MaxDecisions
      /\ cached' \in [Ids -> Cached \cup {NULL}] /\ call' \in [Requests -> Calls]
  BY DecidesFacts
<1>3. ASSUME NEW q \in Requests, call'[q] # Idle
      PROVE  now - 1 <= call'[q].since /\ call'[q].since <= now
  <2>1. ks[q] # Idle /\ call'[q].since = ks[q].since
    <3>1. Outdates(u, ks[q], call'[q])
      BY DecidesCalls
    <3> QED  BY <1>3, <3>1 DEF Outdates
  <2>2. ks[q] = call[q]
    BY <2>1
  <2> QED  BY <2>1, <2>2, TypeOKParts
<1> QED  BY <1>1, <1>2, <1>3, TypeOKParts DEF TypeOK, Cached, Calls, Tasks

(* What a request is when it has found its user, or is about to.           *)
LEMMA AuthenticateFacts ==
  ASSUME TypeOK, NEW p \in Requests, NEW u \in Ids, NEW created, Authenticate(p, u, created)
  PROVE  \E k \in Calls :
           /\ Goes(p, k) /\ k.id = u /\ k.since = now /\ call[p] = Idle
           /\ \/ k.pc = "access" /\ cached[u] # NULL /\ k.user = cached[u].user
              \/ k.pc = "load"
<1>1. now \in Times
  BY TypeOKParts
<1>2. CASE cached[u] # NULL
  <2> DEFINE k == [pc |-> "access", id |-> u, since |-> now, user |-> cached[u].user]
  <2>1. cached[u].user \in Instances
    BY <1>2, CachedNotNull DEF Cached
  <2>2. k \in Calls /\ k.id = u /\ k.since = now /\ k.pc = "access" /\ k.user = cached[u].user
    BY <1>1, <2>1 DEF Calls
  <2>3. Goes(p, k) /\ call[p] = Idle
    BY <1>2 DEF Authenticate
  <2> HIDE DEF k
  <2> QED  BY <1>2, <2>2, <2>3
<1>3. CASE cached[u] = NULL
  <2> DEFINE k == [pc |-> "load", id |-> u, since |-> now, user |-> NULL]
  <2>1. k \in Calls /\ k.id = u /\ k.since = now /\ k.pc = "load"
    BY <1>1 DEF Calls
  <2>2. Goes(p, k) /\ call[p] = Idle
    BY <1>3 DEF Authenticate
  <2> HIDE DEF k
  <2> QED  BY <2>1, <2>2
<1> QED  BY <1>2, <1>3

(* The instance of the row of an active user.                              *)
LEMMA LoadFacts ==
  ASSUME TypeOK, NEW p \in Requests, Load(p)
  PROVE  \/ Goes(p, Idle)
         \/ \E k \in Calls :
              /\ Goes(p, k) /\ k.pc = "keep" /\ k.id = call[p].id /\ k.since = call[p].since
              /\ call[p] # Idle /\ Active(row[call[p].id]) /\ row[call[p].id] # NULL
              /\ k.user.due = row[call[p].id].due /\ k.user.behind = FALSE
<1> DEFINE c == call[p]
           k == [c EXCEPT !.pc = "keep", !.user = Instance(row[c.id])]
<1>1. c \in [pc : {"load"}, id : Ids, since : Times, user : {NULL}] /\ c # Idle
  BY TypeOKParts, CallFacts DEF Load, Idle
<1>2. CASE Active(row[c.id])
  <2>1. row[c.id] \in Rows
    BY <1>1, <1>2, TypeOKParts DEF Active
  <2>2. Instance(row[c.id]) \in Instances /\ Instance(row[c.id]).due = row[c.id].due
        /\ Instance(row[c.id]).behind = FALSE
    BY <2>1 DEF Instance, Instances, Rows
  <2>3. k \in Calls /\ k.pc = "keep" /\ k.id = c.id /\ k.since = c.since
        /\ k.user = Instance(row[c.id])
    BY <1>1, <2>2 DEF Calls
  <2>4. Goes(p, k)
    BY <1>2 DEF Load
  <2> HIDE DEF k
  <2> QED  BY <1>1, <1>2, <2>1, <2>2, <2>3, <2>4, NullIsNone
<1>3. CASE ~Active(row[c.id])
  BY <1>3 DEF Load
<1> QED  BY <1>2, <1>3

(* A request that has its user goes on with that user.                     *)
LEMMA InFacts ==
  ASSUME TypeOK, NEW p \in Requests, call[p].pc \in {"access", "keep"},
         Goes(p, [call[p] EXCEPT !.pc = "in"])
  PROVE  \E k \in Calls :
           /\ Goes(p, k) /\ k.pc = "in" /\ k.id = call[p].id /\ k.since = call[p].since
           /\ k.user = call[p].user /\ call[p] # Idle
<1> DEFINE k == [call[p] EXCEPT !.pc = "in"]
<1>1. call[p] \in [pc : {"access", "keep", "in"}, id : Ids, since : Times, user : Instances]
      /\ call[p] # Idle
  BY TypeOKParts, CallFacts DEF Idle
<1>2. k \in Calls /\ k.pc = "in" /\ k.id = call[p].id /\ k.since = call[p].since
      /\ k.user = call[p].user
  BY <1>1 DEF Calls
<1> HIDE DEF k
<1>3. Goes(p, k)
  BY DEF k
<1> QED  BY <1>1, <1>2, <1>3

(* What a request caches.                                                  *)
LEMMA KeepFacts ==
  ASSUME TypeOK, NEW p \in Requests, Keep(p)
  PROVE  LET u == call[p].id IN
         /\ call[p].pc = "keep" /\ u \in Ids /\ call[p].user \in Instances
         /\ cached' \in [Ids -> Cached \cup {NULL}]
         /\ \A v \in Ids \ {u} : cached'[v] = cached[v]
         /\ cached'[u].user = call[p].user /\ cached'[u].until = now + AUTH_TOKEN_CACHE_TIME
<1> DEFINE u == call[p].id
           x == [user |-> call[p].user, until |-> now + AUTH_TOKEN_CACHE_TIME]
<1>1. call[p].pc = "keep" /\ u \in Ids /\ call[p].user \in Instances
  BY TypeOKParts, CallFacts DEF Keep
<1>2. x \in Cached /\ x.user = call[p].user /\ x.until = now + AUTH_TOKEN_CACHE_TIME
  BY <1>1, NullIsNone DEF TypeOK, Times, Cached
<1>3. cached' = [cached EXCEPT ![u] = x]
  BY DEF Keep
<1> HIDE DEF x
<1> QED  BY <1>1, <1>2, <1>3, TypeOKParts DEF u

(* What an update writes, of the instance that the request holds.          *)
LEMMA UpdateFacts ==
  ASSUME TypeOK, NEW p \in Requests, NEW field, NEW value, Update(p, field, value),
         \/ field = "mobile" /\ value \in Mobiles
         \/ field = "email" /\ value \in Emails
  PROVE  \E r \in Rows, c \in Columns \cup {NULL}, ks \in [Requests -> Calls] :
           LET u == call[p].id IN
           /\ call[p].pc = "in" /\ u \in Ids /\ call[p].user \in Instances
           /\ Writes(u, r) /\ Decides(u, c, ks)
           /\ \A q \in Requests : ks[q] = call[q] \/ ks[q] = Idle
           /\ reverted' = IF call[p].user.behind THEN reverted \cup {u} ELSE reverted
           /\ UNCHANGED <<zset, task, now>>
           /\ call[p].user.due = due[u] => r.due = c
<1> DEFINE u == call[p].id
           user == call[p].user
           r == [due |-> Changed(user.due, field, value), access |-> user.access]
           c == IF due[u] = NULL THEN NULL ELSE [due[u] EXCEPT ![field] = value]
           ks == [call EXCEPT ![p] = Idle]
<1>1. call[p].pc = "in" /\ u \in Ids /\ user \in Instances
  BY TypeOKParts, CallFacts DEF Update
<1>2. user.due \in Columns /\ user.access \in Times
  BY <1>1 DEF Instances
<1>3. r \in Rows /\ r.due = Changed(user.due, field, value)
  BY <1>2, ChangedFacts DEF Rows
<1>4. due[u] \in Columns \cup {NULL}
  BY <1>1, TypeOKParts
<1>5. c \in Columns \cup {NULL}
  BY <1>4, ChangedFacts
<1>6. user.due = due[u] => r.due = c
  BY <1>2, <1>3, NullIsNone DEF Changed
<1>7. ks \in [Requests -> Calls] /\ \A q \in Requests : ks[q] = call[q] \/ ks[q] = Idle
  BY TypeOKParts DEF Calls
<1>8. /\ Writes(u, r) /\ Decides(u, c, ks) /\ UNCHANGED <<zset, task, now>>
      /\ reverted' = IF user.behind THEN reverted \cup {u} ELSE reverted
  BY DEF Update
<1> HIDE DEF r, c, ks
<1> QED  BY <1>1, <1>3, <1>5, <1>6, <1>7, <1>8

(* The copy of an item writes the time to the row that is there.           *)
LEMMA CopyFacts ==
  ASSUME TypeOK, NEW i \in task.items, CopyItem(i)
  PROVE  /\ i.id \in Ids /\ i.time \in Times /\ task \in [page : Pages, items : SUBSET [id : Ids, time : Times]]
         /\ \/ UNCHANGED <<row, active_at>>
            \/ \E r \in Rows : /\ Writes(i.id, r) /\ row[i.id] # NULL /\ r.due = row[i.id].due
<1>1. task \in [page : Pages, items : SUBSET [id : Ids, time : Times]]
  BY TypeOKParts DEF Tasks, Asleep
<1>2. i \in [id : Ids, time : Times]
  BY <1>1
<1>3. CASE row[i.id] # NULL
  <2> DEFINE r == [row[i.id] EXCEPT !.access = i.time]
  <2>1. row[i.id] \in Rows
    BY <1>2, <1>3, TypeOKParts
  <2>2. r \in Rows /\ r.due = row[i.id].due
    BY <1>2, <2>1 DEF Rows
  <2>3. Writes(i.id, r)
    BY <1>3 DEF CopyItem
  <2> HIDE DEF r
  <2> QED  BY <1>1, <1>2, <1>3, <2>2, <2>3
<1>4. CASE row[i.id] = NULL
  BY <1>1, <1>2, <1>4 DEF CopyItem
<1> QED  BY <1>3, <1>4

(* What follows a page is a page or the end.                               *)
LEMMA AfterPageType ==
  ASSUME NEW page \in Pages
  PROVE  AfterPage(page) \in Tasks
<1>1. CASE page + 1 < total_page
  <2>1. page + 1 \in Pages
    BY <1>1, NullIsNone DEF Pages
  <2> QED  BY <1>1, <2>1 DEF AfterPage, Tasks
<1>2. CASE ~(page + 1 < total_page)
  BY <1>2 DEF AfterPage, Tasks
<1> QED  BY <1>1, <1>2

(* A copy keeps the types.                                                 *)
LEMMA CopyType ==
  ASSUME TypeOK, Copy
  PROVE  TypeOK'
<1>1. CASE Wake
  <2>1. task' \in Tasks
    BY <1>1, NullIsNone DEF Wake, Tasks, Pages
  <2> QED  BY <1>1, <2>1, TypeOKParts DEF Wake, store, history, TypeOK, Cached, Calls, Tasks
<1>2. CASE ReadPage
  <2>1. task \in [page : Pages, items : SUBSET [id : Ids, time : Times]]
    BY <1>2, TypeOKParts DEF ReadPage, Tasks
  <2>2. Items(task.page) \subseteq [id : Ids, time : Times]
    <3>1. ASSUME NEW u \in Ids, zset[task.page][u] # NULL
          PROVE  zset[task.page][u] \in Times
      BY <2>1, <3>1, TypeOKParts
    <3> QED  BY <3>1 DEF Items
  <2>3. task' \in Tasks
    BY <1>2, <2>1, <2>2, AfterPageType DEF ReadPage, Tasks
  <2> QED  BY <1>2, <2>3, TypeOKParts DEF ReadPage, store, history, TypeOK, Cached, Calls, Tasks
<1>3. ASSUME NEW i \in task.items, CopyItem(i)
      PROVE  TypeOK'
  <2>1. task \in [page : Pages, items : SUBSET [id : Ids, time : Times]]
    BY <1>3, CopyFacts
  <2>2. row' \in [Ids -> Rows \cup {NULL}] /\ active_at' \in [Ids -> Times \cup {-1}]
    <3>1. CASE UNCHANGED <<row, active_at>>
      BY <3>1, TypeOKParts
    <3>2. CASE \E r \in Rows : Writes(i.id, r)
      <4>1. i.id \in Ids
        BY <1>3, CopyFacts
      <4>2. PICK r \in Rows : Writes(i.id, r)
        BY <3>2
      <4> QED  BY <4>1, <4>2, WritesFacts
    <3> QED  BY <1>3, <3>1, <3>2, CopyFacts
  <2>3. task' \in Tasks
    <3>1. [task EXCEPT !.items = task.items \ {i}] \in Tasks
      BY <2>1 DEF Tasks
    <3>2. AfterPage(task.page) \in Tasks
      BY <2>1, AfterPageType
    <3> QED  BY <1>3, <3>1, <3>2 DEF CopyItem
  <2> QED  BY <1>3, <2>2, <2>3, TypeOKParts DEF CopyItem, TypeOK, Cached, Calls, Tasks
<1> QED  BY <1>1, <1>2, <1>3 DEF Copy

(* A row is written as decided: it has the columns that are due, if it had *)
(* those that were.                                                        *)
ColumnsOf(r) == IF r = NULL THEN NULL ELSE r.due

Decision(u) ==
  \E r \in Rows \cup {NULL}, c \in Columns \cup {NULL} :
    /\ Writes(u, r) /\ Decides(u, c, call) /\ UNCHANGED <<zset, task, now, reverted>>
    /\ ColumnsOf(row[u]) = due[u] => ColumnsOf(r) = c

IsAddress(field, value) ==
  \/ field = "mobile" /\ value \in Mobiles
  \/ field = "email" /\ value \in Emails

(* The steps of Next, for every proof about them.                          *)
LEMMA NextCases ==
  ASSUME TypeOK, Next
  PROVE  \/ \E p \in Requests :
              \/ \E u \in Ids, created \in Times : Authenticate(p, u, created)
              \/ Access(p) \/ Load(p) \/ Keep(p) \/ Leave(p)
              \/ \E field, value : Update(p, field, value) /\ IsAddress(field, value)
         \/ \E u \in Ids : Decision(u)
         \/ Copy \/ Tick
<1>1. ASSUME NEW u \in Ids, NEW mobile \in Mobiles, NEW email \in Emails, Signup(u, mobile, email)
      PROVE  Decision(u)
  <2> DEFINE c == [active |-> TRUE, mobile |-> mobile, email |-> email]
             r == [due |-> c, access |-> now]
  <2>1. c \in Columns /\ r \in Rows /\ r.due = c
    BY TypeOKParts DEF Columns, Rows
  <2>2. Writes(u, r) /\ Decides(u, c, call) /\ UNCHANGED <<zset, task, now, reverted>>
    BY <1>1 DEF Signup
  <2> HIDE DEF c, r
  <2> QED  BY <2>1, <2>2, NullIsNone DEF Decision, ColumnsOf
<1>2. ASSUME NEW u \in Ids, NEW active \in BOOLEAN, SetActive(u, active)
      PROVE  Decision(u)
  <2> DEFINE c == [due[u] EXCEPT !.active = active]
             r == [row[u] EXCEPT !.due = [row[u].due EXCEPT !.active = active]]
  <2>1. due[u] \in Columns /\ row[u] \in Rows /\ row[u].due \in Columns
    BY <1>2, TypeOKParts DEF SetActive, Rows
  <2>2. c \in Columns /\ r \in Rows /\ r.due = [row[u].due EXCEPT !.active = active]
    BY <2>1 DEF Columns, Rows
  <2>3. Writes(u, r) /\ Decides(u, c, call) /\ UNCHANGED <<zset, task, now, reverted>>
    BY <1>2 DEF SetActive
  <2>4. row[u].due = due[u] => r.due = c
    BY <2>2
  <2> HIDE DEF c, r
  <2> QED  BY <2>1, <2>2, <2>3, <2>4, NullIsNone DEF Decision, ColumnsOf
<1>3. ASSUME NEW u \in Ids, DeleteUser(u)
      PROVE  Decision(u)
  BY <1>3 DEF DeleteUser, Decision, ColumnsOf
<1>4. ASSUME NEW p \in Requests,
             (\E mobile \in Mobiles : Update(p, "mobile", mobile))
               \/ (\E email \in Emails : Update(p, "email", email))
      PROVE  \E field, value : Update(p, field, value) /\ IsAddress(field, value)
  BY <1>4 DEF IsAddress
<1> QED  BY <1>1, <1>2, <1>3, <1>4 DEF Next

(* Every step keeps the types.                                             *)
LEMMA StepTypes == TypeOK /\ [Next]_vars => TypeOK'
<1> SUFFICES ASSUME TypeOK, [Next]_vars PROVE TypeOK'
  OBVIOUS
<1>0. \A p \in Requests : call[p] \in Calls /\ InTime(call[p])
  BY TypeOKParts DEF InTime
<1>1. ASSUME NEW p \in Requests, NEW u \in Ids, NEW created, Authenticate(p, u, created)
      PROVE  TypeOK'
  <2>1. PICK k \in Calls : Goes(p, k) /\ k.since = now
    BY <1>1, AuthenticateFacts
  <2>2. InTime(k)
    BY <2>1, NullIsNone, TypeOKParts DEF InTime, Times
  <2>3. UNCHANGED <<row, task, now, history, cached, zset>>
    BY <1>1 DEF Authenticate, store
  <2> QED  BY <2>1, <2>2, <2>3, GoesType, TypeOKParts
<1>2. ASSUME NEW p \in Requests, Access(p)
      PROVE  TypeOK'
  <2>1. call[p].pc = "access" /\ Goes(p, [call[p] EXCEPT !.pc = "in"])
        /\ UNCHANGED <<row, cached, task, now, history>>
    BY <1>2 DEF Access
  <2>2. PICK k \in Calls : Goes(p, k) /\ k.since = call[p].since /\ call[p] # Idle
    BY <2>1, InFacts
  <2>3. InTime(k)
    BY <1>0, <2>2 DEF InTime
  <2>4. zset' \in [Pages -> [Ids -> Times \cup {NULL}]]
    <3>1. call[p].id \in Ids /\ call[p].since \in Times
      BY <1>0, <2>2, CallFacts
    <3> DEFINE page == call[p].id % total_page
    <3>2. zset[page] \in [Ids -> Times \cup {NULL}] \/ page \notin Pages
      BY TypeOKParts
    <3>3. [zset[page] EXCEPT ![call[p].id] = call[p].since] \in [Ids -> Times \cup {NULL}]
          \/ page \notin Pages
      BY <3>1, <3>2
    <3>4. \/ zset' = [zset EXCEPT ![page] = [zset[page] EXCEPT ![call[p].id] = call[p].since]]
          \/ zset' = zset
      BY <1>2 DEF Access
    <3> HIDE DEF page
    <3> QED  BY <3>3, <3>4, TypeOKParts
  <2> QED  BY <2>1, <2>2, <2>3, <2>4, GoesType, TypeOKParts
<1>3. ASSUME NEW p \in Requests, Load(p)
      PROVE  TypeOK'
  <2>1. UNCHANGED <<row, task, now, history, cached, zset>>
    BY <1>3 DEF Load, store
  <2>2. PICK k \in Calls : Goes(p, k) /\ (k = Idle \/ (k.since = call[p].since /\ call[p] # Idle))
    BY <1>3, LoadFacts DEF Calls
  <2>3. InTime(k)
    BY <1>0, <2>2 DEF InTime
  <2> QED  BY <2>1, <2>2, <2>3, GoesType, TypeOKParts
<1>4. ASSUME NEW p \in Requests, Keep(p)
      PROVE  TypeOK'
  <2>1. call[p].pc = "keep" /\ Goes(p, [call[p] EXCEPT !.pc = "in"])
        /\ UNCHANGED <<row, zset, task, now, history>>
    BY <1>4 DEF Keep
  <2>2. PICK k \in Calls : Goes(p, k) /\ k.since = call[p].since /\ call[p] # Idle
    BY <2>1, InFacts
  <2>3. InTime(k)
    BY <1>0, <2>2 DEF InTime
  <2>4. cached' \in [Ids -> Cached \cup {NULL}]
    BY <1>4, KeepFacts
  <2> QED  BY <2>1, <2>2, <2>3, <2>4, GoesType, TypeOKParts
<1>5. ASSUME NEW p \in Requests, Leave(p)
      PROVE  TypeOK'
  <2>1. UNCHANGED <<row, task, now, history, cached, zset>> /\ Goes(p, Idle)
        /\ Idle \in Calls /\ InTime(Idle)
    BY <1>5 DEF Leave, store, Calls, InTime
  <2> QED  BY <2>1, GoesType, TypeOKParts
<1>6. ASSUME NEW p \in Requests, NEW field, NEW value, Update(p, field, value), IsAddress(field, value)
      PROVE  TypeOK'
  <2>1. PICK r \in Rows, c \in Columns \cup {NULL}, ks \in [Requests -> Calls] :
          LET u == call[p].id IN
          /\ u \in Ids /\ Writes(u, r) /\ Decides(u, c, ks)
          /\ \A q \in Requests : ks[q] = call[q] \/ ks[q] = Idle
          /\ reverted' = IF call[p].user.behind THEN reverted \cup {u} ELSE reverted
          /\ UNCHANGED <<zset, task, now>>
    BY <1>6, UpdateFacts DEF IsAddress
  <2>2. reverted' \subseteq Ids
    BY <2>1, TypeOKParts
  <2> QED  BY <2>1, <2>2, DecidesType
<1>7. ASSUME NEW u \in Ids, Decision(u)
      PROVE  TypeOK'
  <2>1. PICK r \in Rows \cup {NULL}, c \in Columns \cup {NULL} :
          Writes(u, r) /\ Decides(u, c, call) /\ UNCHANGED <<zset, task, now, reverted>>
    BY <1>7 DEF Decision
  <2>2. call \in [Requests -> Calls] /\ reverted' \subseteq Ids
    BY <2>1, TypeOKParts
  <2> QED  BY <2>1, <2>2, DecidesType
<1>8. CASE Tick
  <2>1. \A p \in Requests : call'[p] # Idle => now' - 1 <= call'[p].since /\ call'[p].since <= now'
    <3>1. \A p \in Requests : call[p] # Idle => call[p].since = now
      BY <1>8 DEF Tick
    <3> QED  BY <1>8, <3>1, TickFacts
  <2> QED  BY <1>8, <2>1, TickFacts, TypeOKParts DEF TypeOK, Cached, Calls, Tasks
<1>9. CASE UNCHANGED vars
  BY <1>9 DEF vars, store, history, TypeOK
<1> QED
  BY <1>1, <1>2, <1>3, <1>4, <1>5, <1>6, <1>7, <1>8, <1>9, NextCases, CopyType

(* The types are right from the start on.                                  *)
LEMMA InitTypes == Init => TypeOK
<1> SUFFICES ASSUME Init PROVE TypeOK
  OBVIOUS
<1>1. 0 \in Times /\ 0 \in 0 .. MaxDecisions
  BY NullIsNone DEF Times
<1>2. row \in [Ids -> Rows \cup {NULL}]
  <2>1. ASSUME NEW u \in Ids, due[u] # NULL
        PROVE  [due |-> due[u], access |-> 0] \in Rows
    BY <1>1, <2>1 DEF Init, Rows
  <2> QED  BY <2>1 DEF Init
<1>3. call \in [Requests -> Calls] /\ task \in Tasks
  BY DEF Init, Calls, Tasks
<1> QED  BY <1>1, <1>2, <1>3, TypeOKParts DEF Init

(* The rows, the cache, the requests and the task always have their types. *)
THEOREM TypeCorrect == Spec => []TypeOK
BY InitTypes, StepTypes, PTL DEF Spec

-----------------------------------------------------------------------------
(* The inductive invariant of LetInRecently: a cached user was active      *)
(* shortly before it was stored, and one to be stored when it was read.    *)
ActiveNow ==
  \A u \in Ids : active_at[u] <= now /\ (Active(row[u]) => active_at[u] = now)

CachedRecently ==
  \A u \in Ids : cached[u] # NULL =>
    /\ now < cached[u].until
    /\ cached[u].until <= active_at[u] + AUTH_TOKEN_CACHE_TIME + 1

ReadActive ==
  \A p \in Requests : call[p].pc = "keep" => call[p].since <= active_at[call[p].id]

RecentInv == TypeOK /\ ActiveNow /\ CachedRecently /\ ReadActive /\ LetInRecently

(* The times are integers, so that they can be compared.                   *)
LEMMA TimesAreInts ==
  ASSUME TypeOK
  PROVE  /\ now \in Int /\ AUTH_TOKEN_CACHE_TIME \in Int /\ AUTH_TOKEN_CACHE_TIME > 0
         /\ \A u \in Ids : active_at[u] \in Int
         /\ \A u \in Ids : cached[u] # NULL => cached[u].until \in Int
         /\ \A p \in Requests : call[p].pc # "idle" => /\ call[p].id \in Ids
                                                       /\ call[p].since \in Int
                                                       /\ call[p].since <= now
                                                       /\ now <= call[p].since + 1
<1>1. \A t \in Times : t \in Int
  BY NullIsNone DEF Times
<1>2. ASSUME NEW p \in Requests, call[p].pc # "idle"
      PROVE  /\ call[p].id \in Ids /\ call[p].since \in Int
             /\ call[p].since <= now /\ now <= call[p].since + 1
  <2>1. call[p] \in Calls /\ call[p] # Idle
    BY <1>2, TypeOKParts DEF Idle
  <2>2. call[p].id \in Ids /\ call[p].since \in Times
    BY <2>1, CallFacts
  <2>3. now - 1 <= call[p].since /\ call[p].since <= now /\ now \in Times
    BY <2>1, TypeOKParts
  <2> QED  BY <1>1, <2>2, <2>3
<1>3. \A u \in Ids : cached[u] # NULL => cached[u].until \in Int
  BY CachedNotNull DEF Cached
<1> QED  BY <1>1, <1>2, <1>3, NullIsNone, TypeOKParts

(* A step after which a user was active no earlier than before, and the    *)
(* requests and what is cached are as they were or as young as they should *)
(* be, keeps it.                                                           *)
LEMMA RecentStep ==
  ASSUME RecentInv, TypeOK', now' = now, ActiveNow',
         \A u \in Ids : active_at[u] <= active_at'[u],
         \A u \in Ids : cached'[u] # NULL =>
           \/ cached[u] # NULL /\ cached'[u].until = cached[u].until
           \/ /\ cached'[u].until = now + AUTH_TOKEN_CACHE_TIME
              /\ now <= active_at[u] + 1,
         \A p \in Requests : call'[p].pc # "idle" =>
           \/ call'[p].pc = call[p].pc /\ call'[p].id = call[p].id /\ call'[p].since = call[p].since
           \/ call'[p].pc = "load"
           \/ call'[p].pc = "keep" /\ call'[p].since <= active_at[call'[p].id]
           \/ /\ call'[p].pc \in {"access", "in"}
              /\ call'[p].since <= active_at[call'[p].id] + AUTH_TOKEN_CACHE_TIME
  PROVE  RecentInv'
<1> USE DEF RecentInv
<1>1. TypeOK /\ ActiveNow /\ CachedRecently /\ ReadActive /\ LetInRecently
  OBVIOUS
<1>2. /\ now \in Int /\ AUTH_TOKEN_CACHE_TIME \in Int /\ AUTH_TOKEN_CACHE_TIME > 0
      /\ \A u \in Ids : active_at[u] \in Int /\ active_at'[u] \in Int
  BY TimesAreInts, TypeOKParts, NullIsNone DEF TypeOK, Times
<1>3. CachedRecently'
  BY <1>2, TimesAreInts DEF CachedRecently
<1>4. ASSUME NEW p \in Requests, call'[p].pc # "idle"
      PROVE  call'[p].id \in Ids /\ call'[p].since \in Int
  <2>1. call'[p] \in Calls /\ call'[p] # Idle
    BY <1>4 DEF TypeOK, Calls, Idle
  <2>2. call'[p].id \in Ids /\ call'[p].since \in Times
    BY <2>1, CallFacts
  <2> QED  BY <2>2, NullIsNone DEF Times
<1>5. ReadActive'
  BY <1>2, <1>4 DEF ReadActive
<1>6. LetInRecently'
  BY <1>2, <1>4 DEF LetInRecently
<1> QED  BY <1>3, <1>5, <1>6

(* A write of a row keeps who was active when.                             *)
LEMMA WritesActive ==
  ASSUME RecentInv, NEW u \in Ids, NEW r \in Rows \cup {NULL}, Writes(u, r), now' = now
  PROVE  ActiveNow' /\ \A v \in Ids : active_at[v] <= active_at'[v]
<1> USE DEF RecentInv
<1>1. now \in Int /\ \A v \in Ids : active_at[v] \in Int
  BY TimesAreInts
<1>2. /\ row'[u] = r /\ \A v \in Ids \ {u} : row'[v] = row[v]
      /\ \A v \in Ids \ {u} : active_at'[v] = active_at[v]
      /\ active_at'[u] = IF Active(row[u]) \/ Active(r) THEN now ELSE active_at[u]
  BY WritesFacts
<1>3. ASSUME NEW v \in Ids
      PROVE  /\ active_at'[v] <= now /\ (Active(row'[v]) => active_at'[v] = now)
             /\ active_at[v] <= active_at'[v]
  <2>1. active_at[v] <= now /\ (Active(row[v]) => active_at[v] = now)
    BY DEF ActiveNow
  <2>2. CASE v = u
    BY <1>1, <1>2, <2>1, <2>2
  <2>3. CASE v # u
    BY <1>1, <1>2, <2>1, <2>3
  <2> QED  BY <2>2, <2>3
<1> QED  BY <1>3 DEF ActiveNow, Active

(* Every step keeps it.                                                    *)
LEMMA StepRecent == RecentInv /\ [Next]_vars => RecentInv'
<1> SUFFICES ASSUME RecentInv, [Next]_vars PROVE RecentInv'
  OBVIOUS
<1>0. TypeOK /\ TypeOK' /\ ActiveNow /\ CachedRecently /\ ReadActive /\ LetInRecently
  BY StepTypes DEF RecentInv
<1>i. /\ now \in Int /\ AUTH_TOKEN_CACHE_TIME \in Int /\ AUTH_TOKEN_CACHE_TIME > 0
      /\ \A u \in Ids : active_at[u] \in Int
  BY <1>0, TimesAreInts
<1>1. ASSUME NEW p \in Requests, NEW k, Goes(p, k), UNCHANGED <<row, now, active_at>>,
             k.pc # "idle" =>
               \/ k.pc = "load"
               \/ k.pc = "keep" /\ k.since <= active_at[k.id]
               \/ k.pc \in {"access", "in"} /\ k.since <= active_at[k.id] + AUTH_TOKEN_CACHE_TIME,
             \A u \in Ids : cached'[u] # NULL =>
               \/ cached[u] # NULL /\ cached'[u].until = cached[u].until
               \/ /\ cached'[u].until = now + AUTH_TOKEN_CACHE_TIME
                  /\ now <= active_at[u] + 1
      PROVE  RecentInv'
  <2>1. ActiveNow'
    BY <1>0, <1>1 DEF ActiveNow, Active
  <2>2. call'[p] = k /\ \A q \in Requests \ {p} : call'[q] = call[q]
    BY <1>0, <1>1, GoesCalls
  <2>3. \A u \in Ids : active_at[u] <= active_at'[u]
    BY <1>1, <1>i
  <2>4. ASSUME NEW q \in Requests, call'[q].pc # "idle"
        PROVE  \/ call'[q].pc = call[q].pc /\ call'[q].id = call[q].id /\ call'[q].since = call[q].since
               \/ call'[q].pc = "load"
               \/ call'[q].pc = "keep" /\ call'[q].since <= active_at[call'[q].id]
               \/ /\ call'[q].pc \in {"access", "in"}
                  /\ call'[q].since <= active_at[call'[q].id] + AUTH_TOKEN_CACHE_TIME
    BY <1>1, <2>2, <2>4
  <2> QED  BY <1>0, <1>1, <2>1, <2>3, <2>4, RecentStep
<1>2. ASSUME NEW p \in Requests, NEW u \in Ids, NEW created, Authenticate(p, u, created)
      PROVE  RecentInv'
  <2>1. PICK k \in Calls : /\ Goes(p, k) /\ k.id = u /\ k.since = now
                           /\ (k.pc = "access" /\ cached[u] # NULL) \/ k.pc = "load"
    BY <1>0, <1>2, AuthenticateFacts
  <2>2. k.pc = "access" => k.since <= active_at[k.id] + AUTH_TOKEN_CACHE_TIME
    <3>1. cached[u] # NULL => now < cached[u].until /\ cached[u].until \in Int
                              /\ cached[u].until <= active_at[u] + AUTH_TOKEN_CACHE_TIME + 1
      BY <1>0, TimesAreInts DEF CachedRecently
    <3> QED  BY <1>i, <2>1, <3>1
  <2>3. UNCHANGED <<row, now, active_at, cached>>
    BY <1>2 DEF Authenticate, store, history
  <2> QED  BY <1>1, <2>1, <2>2, <2>3
<1>3. ASSUME NEW p \in Requests, Access(p)
      PROVE  RecentInv'
  <2>1. call[p].pc = "access" /\ Goes(p, [call[p] EXCEPT !.pc = "in"])
        /\ UNCHANGED <<row, now, active_at, cached>>
    BY <1>3 DEF Access, history
  <2>2. PICK k \in Calls : /\ Goes(p, k) /\ k.pc = "in" /\ k.id = call[p].id
                           /\ k.since = call[p].since
    BY <1>0, <2>1, InFacts
  <2>3. k.since <= active_at[k.id] + AUTH_TOKEN_CACHE_TIME
    BY <1>0, <2>1, <2>2 DEF LetInRecently
  <2> QED  BY <1>1, <2>1, <2>2, <2>3
<1>4. ASSUME NEW p \in Requests, Load(p)
      PROVE  RecentInv'
  <2>1. UNCHANGED <<row, now, active_at, cached>>
    BY <1>4 DEF Load, store, history
  <2>2. CASE Goes(p, Idle)
    BY <1>1, <2>1, <2>2 DEF Idle
  <2>3. CASE ~Goes(p, Idle)
    <3>1. PICK k \in Calls : /\ Goes(p, k) /\ k.pc = "keep" /\ k.id = call[p].id
                             /\ k.since = call[p].since /\ call[p] # Idle
                             /\ Active(row[call[p].id])
      BY <1>0, <1>4, <2>3, LoadFacts
    <3>2. call[p].id \in Ids /\ call[p].since <= now
      BY <1>0, <3>1, TypeOKParts, CallFacts
    <3>3. k.since <= active_at[k.id]
      BY <1>0, <3>1, <3>2 DEF ActiveNow
    <3> QED  BY <1>1, <2>1, <3>1, <3>3
  <2> QED  BY <2>2, <2>3
<1>5. ASSUME NEW p \in Requests, Keep(p)
      PROVE  RecentInv'
  <2>1. call[p].pc = "keep" /\ Goes(p, [call[p] EXCEPT !.pc = "in"])
        /\ UNCHANGED <<row, now, active_at>>
    BY <1>5 DEF Keep, history
  <2>2. PICK k \in Calls : /\ Goes(p, k) /\ k.pc = "in" /\ k.id = call[p].id
                           /\ k.since = call[p].since
    BY <1>0, <2>1, InFacts
  <2>3. /\ call[p].id \in Ids /\ call[p].since \in Int /\ now <= call[p].since + 1
        /\ call[p].since <= active_at[call[p].id]
    BY <1>0, <2>1, TimesAreInts DEF ReadActive
  <2>4. k.since <= active_at[k.id] + AUTH_TOKEN_CACHE_TIME
    BY <1>i, <2>2, <2>3
  <2>5. ASSUME NEW u \in Ids, cached'[u] # NULL
        PROVE  \/ cached[u] # NULL /\ cached'[u].until = cached[u].until
               \/ /\ cached'[u].until = now + AUTH_TOKEN_CACHE_TIME
                  /\ now <= active_at[u] + 1
    <3>1. CASE u = call[p].id
      BY <1>0, <1>5, <1>i, <2>3, <3>1, KeepFacts
    <3>2. CASE u # call[p].id
      BY <1>0, <1>5, <2>5, <3>2, KeepFacts
    <3> QED  BY <3>1, <3>2
  <2> QED  BY <1>1, <2>1, <2>2, <2>4, <2>5
<1>6. ASSUME NEW p \in Requests, Leave(p)
      PROVE  RecentInv'
  <2>1. Goes(p, Idle) /\ UNCHANGED <<row, now, active_at, cached>>
    BY <1>6 DEF Leave, store, history
  <2> QED  BY <1>1, <2>1 DEF Idle
<1>7. ASSUME NEW u \in Ids, NEW r \in Rows \cup {NULL}, NEW c \in Columns \cup {NULL},
             NEW ks \in [Requests -> Calls], Writes(u, r), Decides(u, c, ks),
             \A q \in Requests : ks[q] = call[q] \/ ks[q] = Idle, now' = now
      PROVE  RecentInv'
  <2>1. ActiveNow' /\ \A v \in Ids : active_at[v] <= active_at'[v]
    BY <1>7, WritesActive
  <2>2. ASSUME NEW v \in Ids, cached'[v] # NULL
        PROVE  cached[v] # NULL /\ cached'[v].until = cached[v].until
    <3>1. CASE v = u
      BY <1>0, <1>7, <2>2, <3>1, DecidesFacts
    <3>2. CASE v # u
      BY <1>0, <1>7, <2>2, <3>2, DecidesFacts
    <3> QED  BY <3>1, <3>2
  <2>3. ASSUME NEW q \in Requests, call'[q].pc # "idle"
        PROVE  call'[q].pc = call[q].pc /\ call'[q].id = call[q].id /\ call'[q].since = call[q].since
    <3>1. call'[q].pc = ks[q].pc /\ call'[q].id = ks[q].id /\ call'[q].since = ks[q].since
      <4>1. Outdates(u, ks[q], call'[q])
        BY <1>0, <1>7, DecidesCalls
      <4> QED  BY <4>1 DEF Outdates
    <3>2. ks[q] = call[q]
      BY <1>7, <2>3, <3>1 DEF Idle
    <3> QED  BY <3>1, <3>2
  <2> QED  BY <1>0, <1>7, <2>1, <2>2, <2>3, RecentStep
<1>8. ASSUME NEW p \in Requests, NEW field, NEW value, Update(p, field, value), IsAddress(field, value)
      PROVE  RecentInv'
  <2>1. PICK r \in Rows, c \in Columns \cup {NULL}, ks \in [Requests -> Calls] :
          LET u == call[p].id IN
          /\ u \in Ids /\ Writes(u, r) /\ Decides(u, c, ks)
          /\ \A q \in Requests : ks[q] = call[q] \/ ks[q] = Idle
          /\ UNCHANGED <<zset, task, now>>
    BY <1>0, <1>8, UpdateFacts DEF IsAddress
  <2> QED  BY <1>7, <2>1
<1>9. ASSUME NEW u \in Ids, Decision(u)
      PROVE  RecentInv'
  <2>1. PICK r \in Rows \cup {NULL}, c \in Columns \cup {NULL} :
          Writes(u, r) /\ Decides(u, c, call) /\ UNCHANGED <<zset, task, now, reverted>>
    BY <1>9 DEF Decision
  <2>2. call \in [Requests -> Calls]
    BY <1>0, TypeOKParts
  <2> QED  BY <1>7, <2>1, <2>2
<1>10. CASE Copy
  <2>1. UNCHANGED <<cached, call, now>>
    BY <1>10 DEF Copy, Wake, ReadPage, CopyItem, store
  <2>2. ActiveNow' /\ \A v \in Ids : active_at[v] <= active_at'[v]
    <3>1. CASE UNCHANGED <<row, active_at>>
      BY <1>0, <1>i, <2>1, <3>1 DEF ActiveNow, Active
    <3>2. ASSUME NEW i \in task.items, CopyItem(i), ~UNCHANGED <<row, active_at>>
          PROVE  ActiveNow' /\ \A v \in Ids : active_at[v] <= active_at'[v]
      <4>1. i.id \in Ids
        BY <1>0, <3>2, CopyFacts
      <4>2. PICK r \in Rows : Writes(i.id, r)
        BY <1>0, <3>2, CopyFacts
      <4> QED  BY <2>1, <4>1, <4>2, WritesActive
    <3> QED  BY <1>10, <3>1, <3>2 DEF Copy, Wake, ReadPage, store, history
  <2> QED  BY <1>0, <2>1, <2>2, RecentStep
<1>11. CASE Tick
  <2>1. now' = now + 1 /\ UNCHANGED <<row, call>>
    BY <1>0, <1>11, TickFacts
  <2>2. \A u \in Ids : active_at'[u] = IF Active(row[u]) THEN now' ELSE active_at[u]
    BY <1>0, <1>11, TickFacts
  <2>3. ASSUME NEW u \in Ids
        PROVE  /\ active_at'[u] \in Int /\ active_at[u] <= active_at'[u]
               /\ active_at'[u] <= now' /\ (Active(row[u]) => active_at'[u] = now')
    BY <1>0, <1>i, <2>1, <2>2 DEF ActiveNow
  <2>4. ActiveNow'
    BY <2>1, <2>3 DEF ActiveNow, Active
  <2>5. CachedRecently'
    <3> SUFFICES ASSUME NEW u \in Ids, cached'[u] # NULL
                 PROVE  /\ now' < cached'[u].until
                        /\ cached'[u].until <= active_at'[u] + AUTH_TOKEN_CACHE_TIME + 1
      BY DEF CachedRecently
    <3>1. cached'[u] = cached[u] /\ cached[u].until > now'
      BY <1>0, <1>11, TickFacts
    <3>2. cached[u].until \in Int /\ cached[u].until <= active_at[u] + AUTH_TOKEN_CACHE_TIME + 1
      BY <1>0, <3>1, TimesAreInts DEF CachedRecently
    <3> QED  BY <1>i, <2>1, <2>3, <3>1, <3>2
  <2>6. \A p \in Requests : call[p].pc # "idle" => call[p].id \in Ids /\ call[p].since \in Int
    BY <1>0, TimesAreInts
  <2>7. ReadActive'
    BY <1>0, <1>i, <2>1, <2>3, <2>6 DEF ReadActive
  <2>8. LetInRecently'
    BY <1>0, <1>i, <2>1, <2>3, <2>6 DEF LetInRecently
  <2> QED  BY <1>0, <2>4, <2>5, <2>7, <2>8 DEF RecentInv
<1>12. CASE UNCHANGED vars
  BY <1>0, <1>12 DEF vars, store, history, RecentInv, ActiveNow, CachedRecently, ReadActive,
                     LetInRecently, Active
<1> QED
  BY <1>0, <1>2, <1>3, <1>4, <1>5, <1>6, <1>8, <1>9, <1>10, <1>11, <1>12, NextCases

(* Whoever is let in was an active user at most the cache's time before.   *)
THEOREM OnlyActiveLetIn == Spec => []LetInRecently
<1>1. Init => RecentInv
  <2> SUFFICES ASSUME Init, TypeOK PROVE RecentInv
    BY InitTypes
  <2>1. \A p \in Requests : call[p].pc = "idle"
    BY DEF Init, Idle
  <2>2. \A u \in Ids : cached[u] = NULL
    BY DEF Init
  <2>3. ActiveNow
    <3>1. now = 0 /\ active_at = [u \in Ids |-> IF Active(row[u]) THEN 0 ELSE -1]
      BY DEF Init
    <3> QED  BY <3>1 DEF ActiveNow
  <2> QED  BY <2>1, <2>2, <2>3 DEF RecentInv, CachedRecently, ReadActive, LetInRecently
<1>2. RecentInv => LetInRecently
  BY DEF RecentInv
<1> QED  BY <1>1, <1>2, StepRecent, PTL DEF Spec

-----------------------------------------------------------------------------
(* The inductive invariant of ColumnsKept: what is cached or held of a     *)
(* user has the columns that are due, unless it is behind.                 *)
CachedKept ==
  \A u \in Ids \ reverted : cached[u] # NULL =>
    cached[u].user.behind \/ cached[u].user.due = due[u]

HeldKept ==
  \A p \in Requests :
    call[p].pc \in {"access", "keep", "in"} /\ call[p].id \notin reverted =>
      call[p].user.behind \/ call[p].user.due = due[call[p].id]

KeptInv == TypeOK /\ ColumnsKept /\ CachedKept /\ HeldKept

(* ColumnsKept, by the columns of a row.                                   *)
LEMMA ColumnsKeptIs == ColumnsKept <=> \A u \in Ids \ reverted : ColumnsOf(row[u]) = due[u]
BY DEF ColumnsKept, ColumnsOf

(* A step of a request that changes no columns keeps it, if the request    *)
(* goes on with what is not behind unless it may be.                       *)
LEMMA GoesKept ==
  ASSUME KeptInv, TypeOK', NEW p \in Requests, NEW k, Goes(p, k), UNCHANGED <<row, due, reverted>>,
         k.pc \in {"access", "keep", "in"} /\ k.id \notin reverted =>
           k.user.behind \/ k.user.due = due[k.id],
         \A u \in Ids \ reverted : cached'[u] # NULL =>
           cached'[u] = cached[u] \/ cached'[u].user.behind \/ cached'[u].user.due = due[u]
  PROVE  KeptInv'
<1> USE DEF KeptInv
<1>1. call'[p] = k /\ \A q \in Requests \ {p} : call'[q] = call[q]
  BY GoesCalls
<1>2. ColumnsKept'
  BY DEF ColumnsKept
<1>3. CachedKept'
  BY DEF CachedKept
<1>4. HeldKept'
  <2> SUFFICES ASSUME NEW q \in Requests, call'[q].pc \in {"access", "keep", "in"},
                      call'[q].id \notin reverted
               PROVE  call'[q].user.behind \/ call'[q].user.due = due[call'[q].id]
    BY DEF HeldKept
  <2>1. CASE q = p
    BY <1>1, <2>1
  <2>2. CASE q # p
    BY <1>1, <2>2 DEF HeldKept
  <2> QED  BY <2>1, <2>2
<1> QED  BY <1>2, <1>3, <1>4

(* So does a decision, if the row gets the columns it should have, or the  *)
(* user counts as reverted.                                                *)
LEMMA DecidesKept ==
  ASSUME KeptInv, TypeOK', NEW u \in Ids, NEW r \in Rows \cup {NULL}, NEW c \in Columns \cup {NULL},
         NEW ks \in [Requests -> Calls], Writes(u, r), Decides(u, c, ks),
         \A q \in Requests : ks[q] = call[q] \/ ks[q] = Idle,
         reverted \subseteq reverted', u \notin reverted' => ColumnsOf(r) = c
  PROVE  KeptInv'
<1> USE DEF KeptInv
<1>1. row'[u] = r /\ \A v \in Ids \ {u} : row'[v] = row[v]
  BY WritesFacts
<1>2. due'[u] = c /\ \A v \in Ids \ {u} : due'[v] = due[v] /\ cached'[v] = cached[v]
  BY DecidesFacts
<1>3. cached'[u] # NULL => cached'[u].user.behind = TRUE
  BY DecidesFacts
<1>4. ColumnsKept'
  <2>1. \A v \in Ids \ reverted' : ColumnsOf(row[v]) = due[v]
    BY ColumnsKeptIs
  <2>2. \A v \in Ids \ reverted' : ColumnsOf(row'[v]) = due'[v]
    BY <1>1, <1>2, <2>1
  <2> QED  BY <2>2 DEF ColumnsKept, ColumnsOf
<1>5. CachedKept'
  BY <1>2, <1>3 DEF CachedKept
<1>6. HeldKept'
  <2> SUFFICES ASSUME NEW q \in Requests, call'[q].pc \in {"access", "keep", "in"},
                      call'[q].id \notin reverted'
               PROVE  call'[q].user.behind \/ call'[q].user.due = due'[call'[q].id]
    BY DEF HeldKept
  <2>1. Outdates(u, ks[q], call'[q])
    BY DecidesCalls
  <2>2. ks[q] = call[q]
    BY <2>1 DEF Outdates, Idle
  <2>3. call[q].id \in Ids
    BY <2>1, <2>2, CallFacts, TypeOKParts DEF Outdates
  <2>4. CASE call[q].id = u
    BY <2>1, <2>2, <2>4 DEF Outdates
  <2>5. CASE call[q].id # u
    BY <1>2, <2>1, <2>2, <2>3, <2>5 DEF HeldKept, Outdates
  <2> QED  BY <2>4, <2>5
<1> QED  BY <1>4, <1>5, <1>6

(* Every step keeps it.                                                    *)
LEMMA StepKept == KeptInv /\ [Next]_vars => KeptInv'
<1> SUFFICES ASSUME KeptInv, [Next]_vars PROVE KeptInv'
  OBVIOUS
<1>0. TypeOK /\ TypeOK' /\ ColumnsKept /\ CachedKept /\ HeldKept
  BY StepTypes DEF KeptInv
<1>1. ASSUME NEW p \in Requests, NEW u \in Ids, NEW created, Authenticate(p, u, created)
      PROVE  KeptInv'
  <2>1. PICK k \in Calls : /\ Goes(p, k) /\ k.id = u
                           /\ \/ k.pc = "access" /\ cached[u] # NULL /\ k.user = cached[u].user
                              \/ k.pc = "load"
    BY <1>0, <1>1, AuthenticateFacts
  <2>2. UNCHANGED <<row, due, reverted, cached>>
    BY <1>1 DEF Authenticate, store, history
  <2>3. k.pc \in {"access", "keep", "in"} /\ k.id \notin reverted =>
           k.user.behind \/ k.user.due = due[k.id]
    BY <1>0, <2>1 DEF CachedKept
  <2> QED  BY <1>0, <2>1, <2>2, <2>3, GoesKept
<1>2. ASSUME NEW p \in Requests, Access(p)
      PROVE  KeptInv'
  <2>1. call[p].pc = "access" /\ Goes(p, [call[p] EXCEPT !.pc = "in"])
        /\ UNCHANGED <<row, due, reverted, cached>>
    BY <1>2 DEF Access, history
  <2>2. PICK k \in Calls : Goes(p, k) /\ k.pc = "in" /\ k.id = call[p].id /\ k.user = call[p].user
    BY <1>0, <2>1, InFacts
  <2>3. k.id \notin reverted => k.user.behind \/ k.user.due = due[k.id]
    BY <1>0, <2>1, <2>2 DEF HeldKept
  <2> QED  BY <1>0, <2>1, <2>2, <2>3, GoesKept
<1>3. ASSUME NEW p \in Requests, Load(p)
      PROVE  KeptInv'
  <2>1. UNCHANGED <<row, due, reverted, cached>>
    BY <1>3 DEF Load, store, history
  <2>2. CASE Goes(p, Idle)
    BY <1>0, <2>1, <2>2, GoesKept DEF Idle
  <2>3. CASE ~Goes(p, Idle)
    <3>1. PICK k \in Calls : /\ Goes(p, k) /\ k.pc = "keep" /\ k.id = call[p].id
                             /\ call[p] # Idle /\ row[call[p].id] # NULL
                             /\ k.user.due = row[call[p].id].due
      BY <1>0, <1>3, <2>3, LoadFacts
    <3>2. call[p].id \in Ids
      BY <1>0, <3>1, TypeOKParts, CallFacts
    <3>3. k.id \notin reverted => k.user.due = due[k.id]
      BY <1>0, <3>1, <3>2 DEF ColumnsKept
    <3> QED  BY <1>0, <2>1, <3>1, <3>3, GoesKept
  <2> QED  BY <2>2, <2>3
<1>4. ASSUME NEW p \in Requests, Keep(p)
      PROVE  KeptInv'
  <2>1. call[p].pc = "keep" /\ Goes(p, [call[p] EXCEPT !.pc = "in"])
        /\ UNCHANGED <<row, due, reverted>>
    BY <1>4 DEF Keep, history
  <2>2. PICK k \in Calls : Goes(p, k) /\ k.pc = "in" /\ k.id = call[p].id /\ k.user = call[p].user
    BY <1>0, <2>1, InFacts
  <2>3. k.id \notin reverted => k.user.behind \/ k.user.due = due[k.id]
    BY <1>0, <2>1, <2>2 DEF HeldKept
  <2>4. ASSUME NEW u \in Ids \ reverted, cached'[u] # NULL
        PROVE  cached'[u] = cached[u] \/ cached'[u].user.behind \/ cached'[u].user.due = due[u]
    <3>1. CASE u = call[p].id
      <4>1. cached'[u].user = call[p].user
        BY <1>0, <1>4, <3>1, KeepFacts
      <4> QED  BY <2>2, <2>3, <3>1, <4>1
    <3>2. CASE u # call[p].id
      BY <1>0, <1>4, <3>2, KeepFacts
    <3> QED  BY <3>1, <3>2
  <2> QED  BY <1>0, <2>1, <2>2, <2>3, <2>4, GoesKept
<1>5. ASSUME NEW p \in Requests, Leave(p)
      PROVE  KeptInv'
  <2>1. Goes(p, Idle) /\ UNCHANGED <<row, due, reverted, cached>>
    BY <1>5 DEF Leave, store, history
  <2> QED  BY <1>0, <2>1, GoesKept DEF Idle
<1>6. ASSUME NEW p \in Requests, NEW field, NEW value, Update(p, field, value), IsAddress(field, value)
      PROVE  KeptInv'
  <2> DEFINE u == call[p].id
  <2>1. PICK r \in Rows, c \in Columns \cup {NULL}, ks \in [Requests -> Calls] :
          /\ call[p].pc = "in" /\ u \in Ids
          /\ Writes(u, r) /\ Decides(u, c, ks)
          /\ \A q \in Requests : ks[q] = call[q] \/ ks[q] = Idle
          /\ reverted' = IF call[p].user.behind THEN reverted \cup {u} ELSE reverted
          /\ call[p].user.due = due[u] => r.due = c
    BY <1>0, <1>6, UpdateFacts DEF IsAddress
  <2>2. reverted \subseteq reverted'
    BY <2>1
  <2>3. ASSUME u \notin reverted'
        PROVE  ColumnsOf(r) = c
    <3>1. ~call[p].user.behind /\ u \notin reverted
      BY <2>1, <2>3
    <3>2. call[p].user.due = due[u]
      BY <1>0, <2>1, <3>1 DEF HeldKept
    <3> QED  BY <2>1, <3>2, NullIsNone DEF ColumnsOf
  <2> HIDE DEF u
  <2> QED  BY <1>0, <2>1, <2>2, <2>3, DecidesKept
<1>7. ASSUME NEW u \in Ids, Decision(u)
      PROVE  KeptInv'
  <2>1. PICK r \in Rows \cup {NULL}, c \in Columns \cup {NULL} :
          /\ Writes(u, r) /\ Decides(u, c, call) /\ reverted' = reverted
          /\ ColumnsOf(row[u]) = due[u] => ColumnsOf(r) = c
    BY <1>7 DEF Decision
  <2>2. u \notin reverted' => ColumnsOf(r) = c
    BY <1>0, <2>1, ColumnsKeptIs
  <2>3. call \in [Requests -> Calls]
    BY <1>0, TypeOKParts
  <2> QED  BY <1>0, <2>1, <2>2, <2>3, DecidesKept
<1>8. CASE Copy
  <2>1. UNCHANGED <<cached, call, due, reverted>>
    BY <1>8 DEF Copy, Wake, ReadPage, CopyItem, store, history
  <2>2. \A v \in Ids : ColumnsOf(row'[v]) = ColumnsOf(row[v])
    <3>1. CASE UNCHANGED row
      BY <3>1
    <3>2. ASSUME NEW i \in task.items, CopyItem(i), ~UNCHANGED <<row, active_at>>
          PROVE  \A v \in Ids : ColumnsOf(row'[v]) = ColumnsOf(row[v])
      <4>1. i.id \in Ids
        BY <1>0, <3>2, CopyFacts
      <4>2. PICK r \in Rows : Writes(i.id, r) /\ row[i.id] # NULL /\ r.due = row[i.id].due
        BY <1>0, <3>2, CopyFacts
      <4>3. row'[i.id] = r /\ \A v \in Ids \ {i.id} : row'[v] = row[v]
        BY <1>0, <4>1, <4>2, WritesFacts
      <4> QED  BY <4>2, <4>3, NullIsNone DEF ColumnsOf
    <3> QED  BY <1>8, <3>1, <3>2 DEF Copy, Wake, ReadPage, store
  <2>3. ColumnsKept'
    <3>1. \A v \in Ids \ reverted' : ColumnsOf(row'[v]) = due'[v]
      BY <1>0, <2>1, <2>2, ColumnsKeptIs
    <3> QED  BY <3>1 DEF ColumnsKept, ColumnsOf
  <2>4. CachedKept' /\ HeldKept'
    BY <1>0, <2>1 DEF CachedKept, HeldKept
  <2> QED  BY <1>0, <2>3, <2>4 DEF KeptInv
<1>9. CASE Tick
  <2>1. UNCHANGED <<row, call, due, reverted>>
        /\ \A u \in Ids : cached'[u] # NULL => cached'[u] = cached[u]
    BY <1>0, <1>9, TickFacts
  <2>2. ColumnsKept' /\ HeldKept'
    BY <1>0, <2>1 DEF ColumnsKept, HeldKept
  <2>3. CachedKept'
    BY <1>0, <2>1 DEF CachedKept
  <2> QED  BY <1>0, <2>2, <2>3 DEF KeptInv
<1>10. CASE UNCHANGED vars
  BY <1>0, <1>10 DEF vars, store, history, KeptInv, ColumnsKept, CachedKept, HeldKept
<1> QED
  BY <1>0, <1>1, <1>2, <1>3, <1>4, <1>5, <1>6, <1>7, <1>8, <1>9, <1>10, NextCases

(* No column of a user is lost until an update saves an instance that is   *)
(* behind: whatever else is saved, read and cached at the time.            *)
THEOREM ColumnsStay == Spec => []ColumnsKept
<1>1. Init => KeptInv
  <2> SUFFICES ASSUME Init, TypeOK PROVE KeptInv
    BY InitTypes
  <2>1. \A p \in Requests : call[p].pc = "idle"
    BY DEF Init, Idle
  <2>2. \A u \in Ids : cached[u] = NULL
    BY DEF Init
  <2>3. ColumnsKept
    <3>1. ASSUME NEW u \in Ids
          PROVE  ColumnsOf(row[u]) = due[u]
      <4> DEFINE r == [due |-> due[u], access |-> 0]
      <4>1. due[u] \in Columns \cup {NULL} /\ 0 \in Times /\ row[u] = IF due[u] = NULL THEN NULL ELSE r
        BY NullIsNone DEF Init, Times
      <4>2. due[u] # NULL => r # NULL /\ r.due = due[u]
        BY <4>1, NullIsNone DEF Rows
      <4> HIDE DEF r
      <4> QED  BY <4>1, <4>2 DEF ColumnsOf
    <3> QED  BY <3>1, ColumnsKeptIs
  <2> QED  BY <2>1, <2>2, <2>3 DEF KeptInv, CachedKept, HeldKept
<1>2. KeptInv => ColumnsKept
  BY DEF KeptInv
<1> QED  BY <1>1, <1>2, StepKept, PTL DEF Spec

-----------------------------------------------------------------------------
(* What the exception is for: a user is changed through an instance that   *)
(* has the columns that are due.                                           *)
UpdatesFresh ==
  \A p \in Requests :
    (\E mobile \in Mobiles : Update(p, "mobile", mobile)) \/ (\E email \in Emails : Update(p, "email", email))
      => ~call[p].user.behind

(* Only an update of another kind undoes what was decided.                 *)
LEMMA FreshStep ==
  ASSUME reverted = {}, [Next]_vars, [UpdatesFresh]_vars
  PROVE  reverted' = {}
<1>1. CASE UNCHANGED vars
  BY <1>1 DEF vars, history
<1>2. ASSUME NEW p \in Requests, UpdatesFresh, NEW field, NEW value, Update(p, field, value),
             ~call[p].user.behind
      PROVE  reverted' = {}
  BY <1>2 DEF Update
<1>3. ASSUME NEW p \in Requests, UpdatesFresh,
             \/ \E mobile \in Mobiles : Update(p, "mobile", mobile)
             \/ \E email \in Emails : Update(p, "email", email)
      PROVE  reverted' = {}
  <2>1. ~call[p].user.behind
    BY <1>3 DEF UpdatesFresh
  <2> QED  BY <1>2, <1>3, <2>1
<1>4. ASSUME NEW p \in Requests,
             (\E u \in Ids, created \in Times : Authenticate(p, u, created))
               \/ Access(p) \/ Load(p) \/ Keep(p) \/ Leave(p)
      PROVE  reverted' = {}
  BY <1>4 DEF Authenticate, Access, Load, Keep, Leave, history
<1>5. ASSUME NEW u \in Ids,
             \/ \E mobile \in Mobiles, email \in Emails : Signup(u, mobile, email)
             \/ \E b \in BOOLEAN : SetActive(u, b)
             \/ DeleteUser(u)
      PROVE  reverted' = {}
  BY <1>5 DEF Signup, SetActive, DeleteUser
<1>6. CASE Copy \/ Tick
  BY <1>6 DEF Copy, Wake, ReadPage, CopyItem, Tick, history
<1> QED  BY <1>1, <1>3, <1>4, <1>5, <1>6 DEF Next

(* Where no update is made through an instance that is older than the last *)
(* decision, the columns of every row are those that were decided: neither *)
(* the cache, nor the task that writes the access times, nor a user who is *)
(* deleted or disabled while a request goes on undoes any of them.         *)
THEOREM ColumnsAreDue ==
  Spec /\ [][UpdatesFresh]_vars
    => [](\A u \in Ids : (IF row[u] = NULL THEN NULL ELSE row[u].due) = due[u])
<1>1. Init => reverted = {}
  BY DEF Init
<1>2. reverted = {} /\ [Next]_vars /\ [UpdatesFresh]_vars => (reverted = {})'
  BY FreshStep
<1>3. ColumnsKept /\ reverted = {}
        => \A u \in Ids : (IF row[u] = NULL THEN NULL ELSE row[u].due) = due[u]
  BY DEF ColumnsKept
<1> QED  BY <1>1, <1>2, <1>3, ColumnsStay, PTL DEF Spec
==============================================================================
