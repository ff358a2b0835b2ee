------------------------ MODULE ExpiredHashMapProofs ------------------------
(***************************************************************************)
(* Proofs about what the calls of an ExpiredHash do for their callers:     *)
(* hset leaves one value of a field, hget answers what a single moment of  *)
(* the call could have answered, and the whole implements ExpiringMap.     *)
(***************************************************************************)
EXTENDS ExpiredHashProofs

-----------------------------------------------------------------------------
(* Calls: what an object knows of time, of its own method and of others.   *)

(* A call that looks or sets has its window: little time has passed.       *)
Punctual ==
  \A c \in Clients :
    client[c].pc \notin {"idle", "hdel"} => now - client[c].current <= MaxDelay

WritersWrite == \A c \in Clients : Writing(c) => c \in Writers

(* Calls that write one field do not overlap: what the theorems below      *)
(* assume, for two that set a field at a time can leave two values of it.  *)
OwnField ==
  \A c, d \in Writers : c # d /\ Writing(c) /\ Writing(d) => client[c].field # client[d].field

CallInv == TypeOK /\ NotFromFuture /\ Punctual /\ WritersWrite /\ OwnField

(* A call begins: only its object's record changes.                        *)
LEMMA CallBegins ==
  ASSUME TypeOK, NEW c \in Clients, NEW pc, NEW f, NEW v, NEW t \in 0..now, Call(c, pc, f, v, t)
  PROVE  /\ client'[c] = [pc |-> pc, current |-> t, field |-> f, value |-> v, at |-> 1]
         /\ \A d \in Clients \ {c} : client'[d] = client[d]
         /\ client[c].pc = "idle"
         /\ UNCHANGED <<now, hash>>
<1> DEFINE k == [pc |-> pc, current |-> t, field |-> f, value |-> v, at |-> 1]
<1>1. client' = [client EXCEPT ![c] = k] /\ client[c].pc = "idle" /\ UNCHANGED <<now, hash>>
  BY DEF Call, Idle
<1>2. client'[c] = k /\ \A d \in Clients \ {c} : client'[d] = client[d]
  <2> HIDE DEF k
  <2> QED
    BY <1>1, OneCall
<1> QED
  BY <1>1, <1>2

(* Every step keeps the calls in time, and writing to the writers.         *)
LEMMA CallsKept ==
  ASSUME CallInv, [Next]_vars
  PROVE  Punctual' /\ WritersWrite'
<1> USE DEF CallInv
<1>0. Readers \subseteq Clients /\ Writers \subseteq Clients /\ now \in Nat /\ MaxDelay \in Nat
      /\ \A c \in Clients : client[c].current \in Nat /\ client[c] \in Calls
  BY ConstantsAssumption DEF Clients, TypeOK, Calls
<1>1. ASSUME NEW c \in Clients, NEW pc \in {"hget", "hdel", "clear"}, NEW f, NEW v,
             NEW t \in 0..now, Call(c, pc, f, v, t), pc # "hget" => c \in Writers
      PROVE  Punctual' /\ WritersWrite'
  <2>1. /\ client'[c] = [pc |-> pc, current |-> t, field |-> f, value |-> v, at |-> 1]
        /\ \A d \in Clients \ {c} : client'[d] = client[d]
        /\ now' = now
    BY <1>1, CallBegins
  <2>3. pc # "hdel" => now - t <= MaxDelay
    BY <1>1 DEF Call
  <2>4. client'[c].pc = pc /\ client'[c].current = t 
    BY <2>1
  <2>5. Punctual'
    BY <2>1, <2>3, <2>4 DEF Punctual
  <2>6. WritersWrite'
    BY <1>1, <2>1, <2>4 DEF WritersWrite, Writing
  <2> QED
    BY <2>5, <2>6
<1>2. ASSUME NEW c \in Clients,
             Look(c) \/ Return(c) \/ Delete(c) \/ Save(c) \/ Expire(c) \/ Crash(c)
      PROVE  Punctual' /\ WritersWrite'
  <2>1. /\ now' = now
        /\ client'[c] = Idle \/ SameCall(client'[c], client[c])
        /\ \A d \in Clients \ {c} : client'[d] = client[d]
    BY <1>2, CallGoesOn
  <2>2. client'[c].pc = "idle" \/ SameCall(client'[c], client[c])
    BY <2>1 DEF Idle
  <2>3. Punctual'
    BY <2>1, <2>2 DEF Punctual, SameCall
  <2>4. \A d \in Clients : Writing(d)' => Writing(d)
    <3>1. Writing(c)' => Writing(c)
      BY <1>0, <2>2 DEF Writing, SameCall, Calls
    <3> QED
      BY <2>1, <3>1 DEF Writing
  <2>5. WritersWrite'
    BY <2>4 DEF WritersWrite
  <2> QED
    BY <2>3, <2>5
<1>3. ASSUME Tick
      PROVE  Punctual' /\ WritersWrite'
  <2>1. /\ now' = now + 1 /\ client' = client
        /\ \A c \in Clients :
             client[c].pc \notin {"idle", "hdel"} => now - client[c].current < MaxDelay
    BY <1>3 DEF Tick
  <2> QED
    BY <1>0, <2>1 DEF Punctual, WritersWrite, Writing
<1>4. CASE UNCHANGED vars
  BY <1>4 DEF vars, Punctual, WritersWrite, Writing
<1> QED
  BY <1>0, <1>1, <1>2, <1>3, <1>4 DEF Next, Hget, Hset, Hdel

(* So the invariant about calls is inductive.                              *)
LEMMA CallInvStep == CallInv /\ OwnField' /\ [Next]_vars => CallInv'
  BY TypeStep, NotFromFutureStep, CallsKept DEF CallInv

-----------------------------------------------------------------------------
(* What a command does to the fields of the hashes.                        *)

(* An HDEL empties one field of one hash.                                  *)
LEMMA DeleteEffect ==
  ASSUME TypeOK, NEW c \in Clients, Delete(c)
  PROVE  /\ client[c].pc \in {"hdel", "clear"}
         /\ client[c].field \in Fields
         /\ \A b \in Hashes, f \in Fields :
              hash'[b][f] = IF b = query_name(client[c].current, client[c].at)
                               /\ f = client[c].field
                            THEN NULL ELSE hash[b][f]
         /\ client'[c] = IF client[c].at < 3 THEN [client[c] EXCEPT !.at = client[c].at + 1]
                         ELSE IF client[c].pc = "clear" THEN [client[c] EXCEPT !.pc = "hset"]
                         ELSE Idle
         /\ \A d \in Clients \ {c} : client'[d] = client[d]
         /\ now' = now
<1> DEFINE k == client[c]
           h == query_name(k.current, k.at)
           fields == [hash[h] EXCEPT ![k.field] = NULL]
           new == IF k.at < 3 THEN [k EXCEPT !.at = k.at + 1]
                  ELSE IF k.pc = "clear" THEN [k EXCEPT !.pc = "hset"]
                  ELSE Idle
<1>1. /\ k.pc \in {"hdel", "clear"}
      /\ hash' = [hash EXCEPT ![h] = fields]
      /\ client' = [client EXCEPT ![c] = new]
      /\ now' = now
  BY DEF Delete
<1>2. k.field \in Fields /\ h \in Hashes
  BY <1>1, QueriedHash DEF TypeOK, Calls
<1>3. \A f \in Fields : fields[f] = IF f = k.field THEN NULL ELSE hash[h][f]
  BY <1>2 DEF TypeOK
<1>4. client'[c] = new /\ \A d \in Clients \ {c} : client'[d] = client[d]
  <2> HIDE DEF new
  <2> QED
    BY <1>1, OneCall
<1>5. \A b \in Hashes, f \in Fields :
        hash'[b][f] = IF b = h /\ f = k.field THEN NULL ELSE hash[b][f]
  <2> HIDE DEF fields, h, k
  <2> QED
    BY <1>1, <1>2, <1>3 DEF TypeOK
<1> QED
  BY <1>1, <1>2, <1>4, <1>5

(* The HSET fills one field of one hash.                                   *)
LEMMA SaveEffect ==
  ASSUME TypeOK, NEW c \in Clients, Save(c)
  PROVE  /\ client[c].pc = "hset"
         /\ client[c].field \in Fields /\ client[c].value \in Values
         /\ client[c].current \in 0..MaxTime
         /\ get_save_tm(client[c].current).tm \in Hashes
         /\ \A b \in Hashes, f \in Fields :
              hash'[b][f] = IF b = get_save_tm(client[c].current).tm
                               /\ f = client[c].field
                            THEN [val |-> client[c].value, tm |-> client[c].current + Expired]
                            ELSE hash[b][f]
         /\ client'[c] = [client[c] EXCEPT !.pc = "expire"]
         /\ \A d \in Clients \ {c} : client'[d] = client[d]
         /\ now' = now
<1> DEFINE k == client[c]
           h == get_save_tm(k.current).tm
           e == [val |-> k.value, tm |-> k.current + Expired]
           new == [k EXCEPT !.pc = "expire"]
<1>1. k.pc = "hset" /\ client' = [client EXCEPT ![c] = new] /\ now' = now
  BY DEF Save
<1>2. /\ k.field \in Fields /\ k.value \in Values
      /\ k.current \in 0..MaxTime /\ h \in Hashes
  BY <1>1, SavedInHash DEF TypeOK, Calls
<1>3. hash' = [hash EXCEPT ![h] = [hash[h] EXCEPT ![k.field] = e]]
  BY <1>2 DEF Save, TypeOK
<1>4. client'[c] = new /\ \A d \in Clients \ {c} : client'[d] = client[d]
  <2> HIDE DEF new
  <2> QED
    BY <1>1, OneCall
<1>5. \A b \in Hashes, f \in Fields :
        hash'[b][f] = IF b = h /\ f = k.field THEN e ELSE hash[b][f]
  <2> HIDE DEF e, h, k
  <2> QED
    BY <1>2, <1>3 DEF TypeOK
<1> QED
  BY <1>1, <1>2, <1>4, <1>5

(* The other fields, and the other hashes, stay as they are.               *)
LEMMA SaveElsewhere ==
  ASSUME TypeOK, NEW c \in Clients, Save(c)
  PROVE  /\ client[c].pc = "hset" /\ client'[c].pc = "expire"
         /\ \A d \in Clients \ {c} : client'[d] = client[d]
         /\ now' = now
         /\ \A b \in Hashes, f \in Fields \ {client[c].field} : hash'[b][f] = hash[b][f]
         /\ \E h \in Hashes : \A b \in Hashes \ {h}, f \in Fields : hash'[b][f] = hash[b][f]
<1> DEFINE h == get_save_tm(client[c].current).tm
           e == [val |-> client[c].value, tm |-> client[c].current + Expired]
<1>1. /\ client[c].pc = "hset"
      /\ h \in Hashes
      /\ client'[c] = [client[c] EXCEPT !.pc = "expire"]
      /\ \A d \in Clients \ {c} : client'[d] = client[d]
      /\ now' = now
  <2> HIDE DEF e
  <2> QED
    BY SaveEffect
<1>2. \A b \in Hashes, f \in Fields :
        hash'[b][f] = IF b = h /\ f = client[c].field THEN e ELSE hash[b][f]
  BY SaveEffect
<1>3. client[c] \in Calls
  BY DEF TypeOK
<1>4. client'[c].pc = "expire"
  BY <1>1, <1>3 DEF Calls
<1> HIDE DEF h, e
<1>5. \A b \in Hashes \ {h}, f \in Fields : hash'[b][f] = hash[b][f]
  BY <1>2
<1>6. \A b \in Hashes, f \in Fields \ {client[c].field} : hash'[b][f] = hash[b][f]
  BY <1>2
<1> QED
  BY <1>1, <1>4, <1>5, <1>6

(* As time passes, fields only disappear, and with the hash they are in.   *)
LEMMA TickEffect ==
  ASSUME TypeOK, Tick
  PROVE  /\ \A b \in Hashes, f \in Fields :
              hash'[b][f] = IF dies[b] = now + 1 THEN NULL ELSE hash[b][f]
         /\ client' = client
         /\ now' = now + 1
  BY DEF Tick, NoFields, TypeOK

(* The other steps leave the hashes and the clock as they are.             *)
LEMMA NoEffect ==
  ASSUME NEW c, Look(c) \/ Return(c) \/ Expire(c) \/ Crash(c)
  PROVE  hash' = hash /\ now' = now
  BY DEF Look, Return, Expire, Crash

-----------------------------------------------------------------------------
(* One value of a field.                                                   *)

(* Entry f of hash b is valid to some look-up of the present, whose object *)
(* is at most a second old.                                                *)
Recent(b, f) == hash[b][f] # NULL /\ hash[b][f].tm >= now

(* The three hashes, counted from the window of an object's time.          *)
LEMMA Queried ==
  ASSUME WholeMinutes, NEW t \in Nat
  PROVE  /\ get_cur_hash_name(t) \in Int /\ retval \in Nat \ {0} /\ retval = Expired
         /\ query_name(t, 1) = get_cur_hash_name(t)
         /\ query_name(t, 2) = get_cur_hash_name(t) + retval
         /\ query_name(t, 3) = get_cur_hash_name(t) + 2 * retval
<1>1. get_cur_hash_name(t) \in Int /\ retval \in Nat \ {0} /\ retval = Expired
  BY InWindow, RetvalPositive, NotRounded
<1>2. get_save_tm(t).tm = get_cur_hash_name(t) + retval
  BY SavedInNext
<1> QED
  BY <1>1, <1>2 DEF query_name

(* A valid entry is in one of the three hashes an object of the present    *)
(* looks into and clears.                                                  *)
LEMMA RecentQueried ==
  ASSUME KeptInv, NEW t \in 0..now, now - t <= 1,
         NEW b \in Hashes, NEW f \in Fields, Recent(b, f)
  PROVE  \E i \in 1..3 : b = query_name(t, i)
<1> USE DEF KeptInv
<1>1. PICK u \in 0..now : hash[b][f].tm = u + Expired /\ b = get_save_tm(u).tm
  BY DEF Recent, EntriesNamed
<1>2. now \in Nat /\ t \in Nat /\ u \in Nat /\ t <= now /\ u <= now
  BY ConstantsAssumption DEF TypeOK
<1>3. b = get_cur_hash_name(u) + retval /\ get_cur_hash_name(u) \in Int
  BY <1>1, <1>2, SavedInNext, InWindow
<1>4. u + retval >= now
  BY <1>1, <1>2, Queried DEF Recent
<1>5. CASE u <= t
  <2>1. \/ get_cur_hash_name(t) = get_cur_hash_name(u)
        \/ get_cur_hash_name(t) = get_cur_hash_name(u) + retval
    BY <1>2, <1>4, <1>5, Queried, NextWindow
  <2> QED
    BY <1>2, <1>3, <2>1, Queried
<1>6. CASE t < u
  <2>1. \/ get_cur_hash_name(u) = get_cur_hash_name(t)
        \/ get_cur_hash_name(u) = get_cur_hash_name(t) + retval
    BY <1>2, <1>6, Queried, NextWindow
  <2> QED
    BY <1>2, <1>3, <2>1, Queried
<1> QED
  BY <1>2, <1>5, <1>6

(* hset has cleared the hashes before the one it is at; when it saves,     *)
(* nothing valid is left.                                                  *)
ClearedSoFar ==
  \A c \in Writers, b \in Hashes :
    Writing(c) /\ Recent(b, client[c].field) =>
      /\ client[c].pc # "hset"
      /\ client[c].pc = "clear" =>
           \E i \in client[c].at..3 : b = query_name(client[c].current, i)

(* At no time are there two valid entries of a field.                      *)
OneRecent ==
  \A f \in Fields, a, b \in Hashes : Recent(a, f) /\ Recent(b, f) => a = b

(* What ClearedSoFar says of one object.                                   *)
ClearedBy(c) ==
  \A b \in Hashes :
    Writing(c) /\ Recent(b, client[c].field) =>
      /\ client[c].pc # "hset"
      /\ client[c].pc = "clear" =>
           \E i \in client[c].at..3 : b = query_name(client[c].current, i)

SetInv == KeptInv /\ CallInv /\ ClearedSoFar

(* A step that leaves the object alone and adds nothing to its field.      *)
LEMMA ClearedKept ==
  ASSUME SetInv, NEW c \in Writers, client'[c] = client[c], now' \in {now, now + 1},
         Writing(c) => \A b \in Hashes : hash'[b][client[c].field] \in {hash[b][client[c].field], NULL}
  PROVE  ClearedBy(c)'
<1> SUFFICES ASSUME NEW b \in Hashes, Writing(c)', Recent(b, client[c].field)'
             PROVE  /\ client'[c].pc # "hset"
                    /\ client'[c].pc = "clear" =>
                         \E i \in client'[c].at..3 : b = query_name(client'[c].current, i)
  BY DEF ClearedBy
<1>1. Writing(c)
  BY DEF Writing
<1>2. client[c].field \in Fields /\ c \in Clients /\ now \in Nat
  BY <1>1, ConstantsAssumption DEF SetInv, CallInv, TypeOK, Writing, Clients
<1>3. hash[b][client[c].field] # NULL /\ hash'[b][client[c].field] = hash[b][client[c].field]
  BY <1>1 DEF Recent
<1>4. hash[b][client[c].field].tm \in Int
  BY <1>2, <1>3, ConstantsAssumption DEF SetInv, CallInv, TypeOK, Entries
<1>5. Recent(b, client[c].field)
  BY <1>2, <1>3, <1>4 DEF Recent
<1> QED
  BY <1>1, <1>5 DEF SetInv, ClearedSoFar

(* Every step keeps what hset has cleared.                                 *)
LEMMA ClearedStep ==
  ASSUME SetInv, [Next]_vars
  PROVE  ClearedSoFar'
<1> SUFFICES ASSUME NEW d \in Writers PROVE ClearedBy(d)'
  BY DEF ClearedSoFar, ClearedBy
<1>0. /\ Readers \subseteq Clients /\ Writers \subseteq Clients /\ now \in Nat
      /\ TypeOK /\ d \in Clients /\ client[d] \in Calls
  BY ConstantsAssumption DEF Clients, SetInv, CallInv, TypeOK
<1>1. ASSUME NEW c \in Clients, NEW pc \in {"hget", "hdel", "clear"}, NEW f \in Fields, NEW v,
             NEW t \in 0..now, Call(c, pc, f, v, t)
      PROVE  ClearedBy(d)'
  <2>1. /\ client'[c] = [pc |-> pc, current |-> t, field |-> f, value |-> v, at |-> 1]
        /\ \A e \in Clients \ {c} : client'[e] = client[e]
        /\ now' = now /\ hash' = hash
    BY <1>0, <1>1, CallBegins
  <2>2. CASE c # d
    <3>1. client'[d] = client[d]
      BY <1>0, <2>1, <2>2
    <3> QED
      BY <2>1, <3>1, ClearedKept
  <2>3. CASE c = d /\ pc = "clear"
    <3>1. /\ client'[d].pc = "clear" /\ client'[d].field = f
          /\ client'[d].current = t /\ client'[d].at = 1
      BY <2>1, <2>3
    <3>2. now - t <= 1
      BY <1>0, <1>1, <2>3, ConstantsAssumption DEF Call, SetInv, KeptInv
    <3>3. \A b \in Hashes : Recent(b, f) => \E i \in 1..3 : b = query_name(t, i)
      BY <3>2, RecentQueried DEF SetInv
    <3>4. \A b \in Hashes : Recent(b, client[d].field)' => Recent(b, f)
      BY <2>1, <3>1 DEF Recent
    <3> QED
      BY <3>1, <3>3, <3>4 DEF ClearedBy
  <2>4. CASE c = d /\ pc # "clear"
    <3>1. client'[d].pc \notin {"clear", "hset"}
      BY <1>1, <2>1, <2>4
    <3> QED
      BY <3>1 DEF ClearedBy
  <2> QED
    BY <2>2, <2>3, <2>4
<1>2. ASSUME NEW c \in Clients, Look(c) \/ Return(c) \/ Expire(c) \/ Crash(c)
      PROVE  ClearedBy(d)'
  <2>1. /\ hash' = hash /\ now' = now
        /\ \A e \in Clients \ {c} : client'[e] = client[e]
        /\ client'[c] = Idle \/ SameCall(client'[c], client[c])
    BY <1>0, <1>2, CallGoesOn, NoEffect
  <2>2. CASE c # d
    <3>1. client'[d] = client[d]
      BY <1>0, <2>1, <2>2
    <3> QED
      BY <2>1, <3>1, ClearedKept
  <2>3. CASE c = d
    <3>1. CASE Look(c)
      <4>2. client[c].pc = "hget"
        BY <3>1 DEF Look, Looking
      <4>1. client'[c].pc = "idle" \/ client'[c].pc \in {"hget", "answer"}
        BY <2>1, <4>2 DEF SameCall, Idle
      <4> QED
        BY <2>3, <4>1 DEF ClearedBy, Writing
    <3>2. CASE ~Look(c)
      <4>1. client' = [client EXCEPT ![c] = Idle]
        BY <1>2, <3>2 DEF Return, Expire, Crash
      <4>2. client'[c] = Idle
        BY <1>0, <4>1, OneCall
      <4> QED
        BY <2>3, <4>2 DEF ClearedBy, Writing, Idle
    <3> QED
      BY <3>1, <3>2
  <2> QED
    BY <2>2, <2>3
<1>3. ASSUME NEW c \in Clients, Delete(c)
      PROVE  ClearedBy(d)'
  <2> DEFINE k == client[c]
             h == query_name(k.current, k.at)
  <2>1. /\ k.pc \in {"hdel", "clear"} /\ k.field \in Fields
        /\ \A b \in Hashes, f \in Fields :
             hash'[b][f] = IF b = h /\ f = k.field THEN NULL ELSE hash[b][f]
        /\ client'[c] = IF k.at < 3 THEN [k EXCEPT !.at = k.at + 1]
                        ELSE IF k.pc = "clear" THEN [k EXCEPT !.pc = "hset"]
                        ELSE Idle
        /\ \A e \in Clients \ {c} : client'[e] = client[e]
        /\ now' = now
    BY <1>0, <1>3, DeleteEffect
  <2>2. CASE c # d
    <3>1. client'[d] = client[d]
      BY <1>0, <2>1, <2>2
    <3>2. Writing(d) => client[d].field \in Fields
      BY <1>0 DEF TypeOK, Writing
    <3> QED
      BY <2>1, <3>1, <3>2, ClearedKept
  <2>3. CASE c = d
    <3> SUFFICES ASSUME NEW b \in Hashes, Writing(d)', Recent(b, client[d].field)',
                        client'[d].pc \in {"clear", "hset"}
                 PROVE  /\ client'[d].pc # "hset"
                        /\ \E i \in client'[d].at..3 : b = query_name(client'[d].current, i)
      BY DEF ClearedBy
    <3>1. /\ k.pc = "clear" /\ client'[d].field = k.field /\ client'[d].current = k.current
          /\ k.at < 3 => client'[d].pc = "clear" /\ client'[d].at = k.at + 1
      BY <1>0, <2>1, <2>3 DEF Calls, Idle
    <3>2. b # h /\ Recent(b, k.field)
      BY <2>1, <2>3, <3>1 DEF Recent
    <3>3. PICK i \in k.at..3 : b = query_name(k.current, i)
      BY <2>3, <3>1, <3>2 DEF SetInv, ClearedSoFar, Writing
    <3>4. i # k.at
      BY <3>2, <3>3
    <3>5. k.at \in 1..3
      BY <1>0, <2>3 DEF Calls
    <3>6. k.at < 3 /\ i \in (k.at + 1)..3
      BY <3>3, <3>4, <3>5
    <3> QED
      BY <3>1, <3>3, <3>6
  <2> QED
    BY <2>2, <2>3
<1>4. ASSUME NEW c \in Writers, Save(c)
      PROVE  ClearedBy(d)'
  <2>0. c \in Clients
    BY <1>0
  <2>1. /\ client[c].pc = "hset"
        /\ \A b \in Hashes, f \in Fields \ {client[c].field} : hash'[b][f] = hash[b][f]
        /\ client'[c].pc = "expire"
        /\ \A e \in Clients \ {c} : client'[e] = client[e]
        /\ now' = now
    BY <1>0, <2>0, <1>4, SaveElsewhere
  <2>2. CASE c # d
    <3>1. client'[d] = client[d]
      BY <1>0, <2>1, <2>2
    <3>2. Writing(d) => client[d].field \in Fields \ {client[c].field}
      <4>1. Writing(d) => client[d].field \in Fields
        BY <1>0 DEF TypeOK, Writing
      <4>2. Writing(d) => client[d].field # client[c].field
        BY <1>4, <2>1, <2>2 DEF SetInv, CallInv, OwnField, Writing
      <4> QED
        BY <4>1, <4>2
    <3> QED
      BY <2>1, <3>1, <3>2, ClearedKept
  <2>3. CASE c = d
    BY <2>1, <2>3 DEF ClearedBy
  <2> QED
    BY <2>2, <2>3
<1>5. ASSUME Tick
      PROVE  ClearedBy(d)'
  <2>1. /\ \A b \in Hashes, f \in Fields : hash'[b][f] \in {hash[b][f], NULL}
        /\ client'[d] = client[d] /\ now' = now + 1
    BY <1>0, <1>5, TickEffect
  <2>2. Writing(d) => client[d].field \in Fields
    BY <1>0 DEF TypeOK, Writing
  <2> QED
    BY <2>1, <2>2, ClearedKept
<1>6. CASE UNCHANGED vars
  <2>1. client'[d] = client[d] /\ now' = now /\ hash' = hash
    BY <1>6 DEF vars
  <2> QED
    BY <2>1, ClearedKept
<1> QED
  BY <1>0, <1>1, <1>2, <1>3, <1>4, <1>5, <1>6 DEF Next, Hget, Hset, Hdel

(* A step after which there is nothing that was not there before.          *)
NothingNew ==
  /\ now' \in {now, now + 1}
  /\ \A b \in Hashes, f \in Fields : hash'[b][f] \in {hash[b][f], NULL}

(* Only the HSET of an hset adds an entry.                                 *)
LEMMA OnlySaves ==
  ASSUME TypeOK, [Next]_vars
  PROVE  NothingNew \/ \E c \in Writers : Save(c)
<1>0. Readers \subseteq Clients /\ Writers \subseteq Clients
  BY DEF Clients
<1>1. ASSUME NEW c \in Clients, NEW pc, NEW f, NEW v, NEW t \in 0..now, Call(c, pc, f, v, t)
      PROVE  NothingNew
  BY <1>1 DEF Call, NothingNew
<1>2. ASSUME NEW c \in Clients, Look(c) \/ Return(c) \/ Expire(c) \/ Crash(c)
      PROVE  NothingNew
  BY <1>2, NoEffect DEF NothingNew
<1>3. ASSUME NEW c \in Clients, Delete(c)
      PROVE  NothingNew
  BY <1>3, DeleteEffect DEF NothingNew
<1>4. ASSUME Tick
      PROVE  NothingNew
  BY <1>4, TickEffect DEF NothingNew
<1>5. CASE UNCHANGED vars
  BY <1>5 DEF vars, NothingNew
<1> QED
  BY <1>0, <1>1, <1>2, <1>3, <1>4, <1>5 DEF Next, Hget, Hset, Hdel

(* Entries that nobody adds get no more recent.                            *)
LEMMA StillRecent ==
  ASSUME TypeOK, NEW b \in Hashes, NEW f \in Fields, now' \in {now, now + 1},
         hash'[b][f] \in {hash[b][f], NULL}, Recent(b, f)'
  PROVE  Recent(b, f) /\ hash'[b][f] = hash[b][f]
<1>1. hash'[b][f] # NULL /\ hash'[b][f] = hash[b][f]
  BY DEF Recent
<1>2. hash[b][f].tm \in Int /\ now \in Int
  BY <1>1, ConstantsAssumption DEF TypeOK, Entries
<1> QED
  BY <1>1, <1>2 DEF Recent

(* Every step keeps the valid entry of a field the only one.               *)
LEMMA OneRecentStep ==
  ASSUME SetInv, OneRecent, [Next]_vars
  PROVE  OneRecent'
<1> SUFFICES ASSUME NEW f \in Fields, NEW a \in Hashes, NEW b \in Hashes,
                    Recent(a, f)', Recent(b, f)'
             PROVE  a = b
  BY DEF OneRecent
<1>0. TypeOK /\ Writers \subseteq Clients
  BY DEF SetInv, CallInv, Clients
<1>1. CASE NothingNew
  <2>1. Recent(a, f) /\ Recent(b, f)
    BY <1>0, <1>1, StillRecent DEF NothingNew
  <2> QED
    BY <2>1 DEF OneRecent
<1>2. ASSUME NEW c \in Writers, Save(c)
      PROVE  a = b
  <2>0. c \in Clients
    BY <1>0
  <2>1. /\ client[c].pc = "hset" /\ now' = now
        /\ \A d \in Hashes, g \in Fields \ {client[c].field} : hash'[d][g] = hash[d][g]
        /\ \E h \in Hashes : \A d \in Hashes \ {h}, g \in Fields : hash'[d][g] = hash[d][g]
    BY <1>0, <1>2, <2>0, SaveElsewhere
  <2>2. CASE f = client[c].field
    <3>1. \A d \in Hashes : ~Recent(d, f)
      BY <2>1, <2>2 DEF SetInv, ClearedSoFar, Writing
    <3>2. PICK h \in Hashes : \A d \in Hashes \ {h} : hash'[d][f] = hash[d][f]
      BY <2>1
    <3>3. \A d \in Hashes \ {h} : ~Recent(d, f)'
      BY <2>1, <3>1, <3>2 DEF Recent
    <3> QED
      BY <3>3
  <2>3. CASE f # client[c].field
    <3>1. Recent(a, f) /\ Recent(b, f)
      BY <1>0, <2>1, <2>3, StillRecent
    <3> QED
      BY <3>1 DEF OneRecent
  <2> QED
    BY <2>2, <2>3
<1> QED
  BY <1>0, <1>1, <1>2, OnlySaves

(* When hset saves, every valid entry of its field is gone.                *)
LEMMA ClearedFollows == SetInv => ClearedBeforeSaved
<1> SUFFICES ASSUME SetInv, NEW c \in Clients, NEW b \in Hashes,
                    client[c].pc = "hset", hash[b][client[c].field] # NULL
             PROVE  hash[b][client[c].field].tm <= now
  BY DEF ClearedBeforeSaved
<1> DEFINE f == client[c].field
<1>1. f \in Fields /\ now \in Int /\ c \in Writers
  BY ConstantsAssumption DEF SetInv, CallInv, TypeOK, WritersWrite, Writing
<1>2. hash[b][f].tm \in Int
  BY <1>1, ConstantsAssumption DEF SetInv, CallInv, TypeOK, Entries
<1>3. ~Recent(b, f)
  BY <1>1 DEF SetInv, ClearedSoFar, Writing
<1> QED
  BY <1>1, <1>2, <1>3 DEF Recent

(* The invariant holds at first: nothing is set and nobody calls.          *)
LEMMA SetInit == WholeMinutes /\ MaxDelay <= 1 /\ Init => SetInv /\ OneRecent
<1> SUFFICES ASSUME WholeMinutes, MaxDelay <= 1, Init PROVE SetInv /\ OneRecent
  OBVIOUS
<1>1. \A c \in Clients : client[c].pc = "idle"
  BY DEF Init, Idle
<1>2. \A b \in Hashes, f \in Fields : hash[b][f] = NULL
  BY DEF Init, NoFields
<1>3. KeptInv
  BY KeptInit
<1>4. Punctual /\ WritersWrite /\ OwnField
  BY <1>1 DEF Punctual, WritersWrite, OwnField, Writing, Clients
<1>5. ClearedSoFar
  BY <1>1 DEF ClearedSoFar, Writing, Clients
<1>6. OneRecent
  BY <1>2 DEF OneRecent, Recent
<1> QED
  BY <1>3, <1>4, <1>5, <1>6 DEF SetInv, KeptInv, CallInv

(* Every step keeps it.                                                    *)
LEMMA SetStep == SetInv /\ OwnField' /\ [Next]_vars => SetInv'
  BY KeptStep, CallInvStep, ClearedStep DEF SetInv

(* A field that is set again has one value.  hset clears three hashes one  *)
(* by one while other fields are set and time goes on, and yet finds no    *)
(* valid entry of its field left when it saves.                            *)
THEOREM Cleared ==
  WholeMinutes /\ MaxDelay <= 1 /\ Spec /\ []OwnField => []ClearedBeforeSaved
  BY SetInit, SetStep, ClearedFollows, PTL DEF Spec

-----------------------------------------------------------------------------
(* Looking up.                                                             *)

(* What a look-up finds is a valid entry, if there is one.                 *)
LEMMA LookupFinds ==
  ASSUME NEW f, NEW t
  PROVE  \/ \E i \in 1..3 : Live(f, t, i) /\ Lookup(f, t) = hash[query_name(t, i)][f]
         \/ (\A i \in 1..3 : ~Live(f, t, i)) /\ Lookup(f, t) = NULL
<1> DEFINE First(i) == Live(f, t, i) /\ \A j \in 1..(i - 1) : ~Live(f, t, j)
<1>1. CASE \E i \in 1..3 : Live(f, t, i)
  <2>1. \E i \in 1..3 : First(i)
    <3>1. CASE Live(f, t, 1)
      BY <3>1
    <3>2. CASE ~Live(f, t, 1) /\ Live(f, t, 2)
      BY <3>2
    <3>3. CASE ~Live(f, t, 1) /\ ~Live(f, t, 2) /\ Live(f, t, 3)
      BY <3>3
    <3> QED
      BY <1>1, <3>1, <3>2, <3>3
  <2>2. PICK i \in 1..3 : i = CHOOSE j \in 1..3 : First(j)
    BY <2>1
  <2>3. First(i)
    BY <2>1, <2>2
  <2>4. Lookup(f, t) = hash[query_name(t, i)][f]
    BY <1>1, <2>2 DEF Lookup
  <2> QED
    BY <2>3, <2>4
<1>2. CASE ~ \E i \in 1..3 : Live(f, t, i)
  BY <1>2 DEF Lookup
<1> QED
  BY <1>1, <1>2

(* What every call that looks would be answered now.                       *)
AnswersKnown ==
  \A c \in Clients : Looking(c) =>
    \/ \E i \in 1..3 :
         /\ Live(client[c].field, client[c].current, i)
         /\ Answer(client[c].field, client[c].current)
              = hash[query_name(client[c].current, i)][client[c].field].val
    \/ /\ \A i \in 1..3 : ~Live(client[c].field, client[c].current, i)
       /\ Answer(client[c].field, client[c].current) = NULL

(* It is the value of a valid entry, or nothing.                           *)
LEMMA AnswerFound == TypeOK => AnswersKnown
<1> SUFFICES ASSUME TypeOK, NEW c \in Clients, Looking(c)
             PROVE  \/ \E i \in 1..3 :
                         /\ Live(client[c].field, client[c].current, i)
                         /\ Answer(client[c].field, client[c].current)
                              = hash[query_name(client[c].current, i)][client[c].field].val
                    \/ /\ \A i \in 1..3 : ~Live(client[c].field, client[c].current, i)
                       /\ Answer(client[c].field, client[c].current) = NULL
  BY DEF AnswersKnown
<1> DEFINE f == client[c].field
           t == client[c].current
<1>1. CASE \E i \in 1..3 : Live(f, t, i) /\ Lookup(f, t) = hash[query_name(t, i)][f]
  <2>1. PICK i \in 1..3 : Live(f, t, i) /\ Lookup(f, t) = hash[query_name(t, i)][f]
    BY <1>1
  <2>2. Lookup(f, t) # NULL
    BY <2>1 DEF Live
  <2>3. Answer(f, t) = hash[query_name(t, i)][f].val
    BY <2>1, <2>2 DEF Answer
  <2> QED
    BY <2>1, <2>3
<1>2. CASE (\A i \in 1..3 : ~Live(f, t, i)) /\ Lookup(f, t) = NULL
  BY <1>2 DEF Answer
<1> QED
  BY <1>1, <1>2, LookupFinds

(* A call that looks has seen what it would be answered now; if the hashes *)
(* it has not looked into have nothing valid for it, it has seen a moment  *)
(* without an entry.                                                       *)
SeenBy(c) ==
  Looking(c) =>
    /\ client[c].value = NULL
    /\ Answer(client[c].field, client[c].current) \in seen[c]
    /\ \/ NULL \in seen[c]
       \/ \E i \in client[c].at..3 : Live(client[c].field, client[c].current, i)

SeenSoFar == \A c \in Clients : SeenBy(c)

LookInv == SetInv /\ OneRecent /\ SeenSoFar /\ LooksAreAtomic

(* What is valid to a call that looks is recent: little time has passed.   *)
LEMMA LiveIsRecent ==
  ASSUME KeptInv, CallInv, NEW c \in Clients, Looking(c), NEW i \in 1..3,
         Live(client[c].field, client[c].current, i)
  PROVE  /\ query_name(client[c].current, i) \in Hashes
         /\ client[c].field \in Fields
         /\ Recent(query_name(client[c].current, i), client[c].field)
<1> DEFINE k == client[c]
           b == query_name(k.current, i)
<1>1. /\ k.field \in Fields /\ k.current \in 0..MaxTime /\ k.current \in Int
      /\ now \in Int /\ MaxDelay \in {0, 1}
      /\ now - k.current <= MaxDelay
  BY ConstantsAssumption DEF KeptInv, CallInv, TypeOK, Calls, Looking, Punctual
<1>2. b \in Hashes
  BY <1>1, QueriedHash
<1>3. hash[b][k.field] # NULL /\ hash[b][k.field].tm > k.current
  BY DEF Live
<1>4. hash[b][k.field].tm \in Int
  BY <1>1, <1>2, <1>3, ConstantsAssumption DEF KeptInv, TypeOK, Entries
<1>5. Recent(b, k.field)
  BY <1>1, <1>3, <1>4 DEF Recent
<1> QED
  BY <1>1, <1>2, <1>5

(* What a look-up answers now is added to what the call has seen.          *)
LEMMA WatchSees ==
  ASSUME TypeOK', Watch, NEW c \in Clients, Looking(c)'
  PROVE  /\ Answer(client[c].field, client[c].current)' \in seen'[c]
         /\ NULL \in seen'[c] \/ \E i \in 1..3 : Live(client[c].field, client[c].current, i)'
         /\ Looking(c) => seen[c] \subseteq seen'[c]
<1>1. TypeOK' => AnswersKnown'
  BY AnswerFound, PTL
<1>2. client'[c].pc = "hget"
  BY DEF Looking
<1>3. seen'[c] = (IF Looking(c) THEN seen[c] ELSE {})
                 \cup {Answer(client[c].field, client[c].current)'}
  BY <1>2 DEF Watch
<1>4. \/ \E i \in 1..3 : Live(client[c].field, client[c].current, i)'
      \/ Answer(client[c].field, client[c].current)' = NULL
  BY <1>1 DEF AnswersKnown
<1> QED
  BY <1>3, <1>4

(* A call that is left alone goes on having seen what it must, if its      *)
(* field only disappears, or was not there to appear a second time.        *)
LEMMA SeenKept ==
  ASSUME LookInv, TypeOK', Watch, NEW c \in Clients, client'[c] = client[c],
         Looking(c) =>
           \/ \A b \in Hashes : hash'[b][client[c].field] \in {hash[b][client[c].field], NULL}
           \/ \A b \in Hashes : ~Recent(b, client[c].field)
  PROVE  SeenBy(c)'
<1> DEFINE f == client[c].field
           t == client[c].current
<1> SUFFICES ASSUME Looking(c)'
             PROVE  /\ client'[c].value = NULL
                    /\ Answer(client[c].field, client[c].current)' \in seen'[c]
                    /\ \/ NULL \in seen'[c]
                       \/ \E i \in client'[c].at..3 :
                            Live(client[c].field, client[c].current, i)'
  BY DEF SeenBy
<1>1. Looking(c) /\ client[c].at \in 1..3 /\ KeptInv /\ CallInv
  BY DEF Looking, LookInv, SetInv, CallInv, TypeOK, Calls
<1>2. /\ client[c].value = NULL
      /\ NULL \in seen[c] \/ \E i \in client[c].at..3 : Live(f, t, i)
  BY <1>1 DEF LookInv, SeenSoFar, SeenBy
<1>3. CASE NULL \in seen[c]
  BY <1>1, <1>2, <1>3, WatchSees
<1>4. CASE NULL \notin seen[c]
  <2>1. PICK i \in client[c].at..3 : Live(f, t, i)
    BY <1>2, <1>4
  <2>2. i \in 1..3
    BY <1>1
  <2>3. query_name(t, i) \in Hashes /\ f \in Fields /\ Recent(query_name(t, i), f)
    BY <1>1, <2>1, <2>2, LiveIsRecent
  <2>4. \A b \in Hashes : hash'[b][f] \in {hash[b][f], NULL}
    BY <1>1, <2>3
  <2>5. CASE NULL \in seen'[c]
    BY <1>2, <2>5, WatchSees
  <2>6. CASE \E j \in 1..3 : Live(client[c].field, client[c].current, j)'
    <3>1. PICK j \in 1..3 : Live(client[c].field, client[c].current, j)'
      BY <2>6
    <3>2. query_name(t, j) \in Hashes
      BY <1>1, QueriedHash DEF CallInv, TypeOK, Calls
    <3>3. /\ hash'[query_name(t, j)][f] # NULL
          /\ hash'[query_name(t, j)][f].tm > t
      BY <3>1 DEF Live
    <3>4. hash'[query_name(t, j)][f] = hash[query_name(t, j)][f]
      BY <2>4, <3>2, <3>3
    <3>5. Live(f, t, j)
      BY <3>3, <3>4 DEF Live
    <3>6. Recent(query_name(t, j), f)
      BY <1>1, <3>5, LiveIsRecent
    <3>7. query_name(t, i) = query_name(t, j)
      BY <2>3, <3>2, <3>6 DEF LookInv, OneRecent
    <3>8. Live(client[c].field, client[c].current, i)'
      BY <3>3, <3>7 DEF Live
    <3> QED
      BY <1>2, <2>1, <3>8, WatchSees
  <2> QED
    BY <2>5, <2>6, WatchSees
<1> QED
  BY <1>3, <1>4

(* One HGET of a call: it ends with a valid entry, or after three hashes.  *)
LEMMA LookEffect ==
  ASSUME TypeOK, NEW c \in Clients, Look(c)
  PROVE  /\ Looking(c) /\ UNCHANGED hash
         /\ client'[c].field = client[c].field /\ client'[c].current = client[c].current
         /\ \A d \in Clients \ {c} : client'[d] = client[d]
         /\ \/ /\ Live(client[c].field, client[c].current, client[c].at)
               /\ client'[c].pc = "answer"
               /\ client'[c].value
                    = hash[query_name(client[c].current, client[c].at)][client[c].field].val
            \/ /\ ~Live(client[c].field, client[c].current, client[c].at)
               /\ client'[c].value = client[c].value
               /\ IF client[c].at < 3
                  THEN client'[c].pc = "hget" /\ client'[c].at = client[c].at + 1
                  ELSE client'[c].pc = "answer"
<1> DEFINE k == client[c]
           e == hash[query_name(k.current, k.at)][k.field]
           new == IF e # NULL /\ e.tm > k.current
                  THEN [k EXCEPT !.pc = "answer", !.value = e.val]
                  ELSE IF k.at < 3 THEN [k EXCEPT !.at = k.at + 1]
                  ELSE [k EXCEPT !.pc = "answer"]
<1>1. /\ client' = [client EXCEPT ![c] = new]
      /\ Looking(c) /\ UNCHANGED hash
  BY DEF Look
<1>2. client'[c] = new /\ \A d \in Clients \ {c} : client'[d] = client[d]
  <2> HIDE DEF new
  <2> QED
    BY <1>1, OneCall
<1>3. k \in Calls /\ k.pc = "hget"
  BY <1>1 DEF TypeOK, Looking
<1>4. Live(k.field, k.current, k.at) <=> e # NULL /\ e.tm > k.current
  BY DEF Live
<1> HIDE DEF e
<1>5. CASE e # NULL /\ e.tm > k.current
  <2>1. /\ new.field = k.field /\ new.current = k.current
        /\ new.pc = "answer" /\ new.value = e.val
    BY <1>3, <1>5 DEF Calls
  <2> QED
    BY <1>1, <1>2, <1>4, <1>5, <2>1 DEF e
<1>6. CASE ~(e # NULL /\ e.tm > k.current)
  <2>1. /\ new.field = k.field /\ new.current = k.current /\ new.value = k.value
        /\ IF k.at < 3 THEN new.pc = "hget" /\ new.at = k.at + 1 ELSE new.pc = "answer"
    BY <1>3, <1>6 DEF Calls
  <2> QED
    BY <1>1, <1>2, <1>4, <1>6, <2>1 DEF e
<1> QED
  BY <1>5, <1>6

(* Every step keeps what a call that looks has seen.                       *)
LEMMA SeenStep ==
  ASSUME LookInv, TypeOK', [Next]_vars
  PROVE  SeenSoFar'
<1> SUFFICES ASSUME NEW d \in Clients PROVE SeenBy(d)'
  BY DEF SeenSoFar
<1>0. /\ Readers \subseteq Clients /\ Writers \subseteq Clients
      /\ SetInv /\ KeptInv /\ CallInv /\ TypeOK /\ client[d] \in Calls
      /\ Looking(d) => client[d].field \in Fields
  BY DEF Clients, LookInv, SetInv, CallInv, TypeOK, Looking
<1>1. ASSUME NEW c \in Clients, NEW pc \in {"hget", "hdel", "clear"}, NEW f \in Fields, NEW v,
             NEW t \in 0..now, Call(c, pc, f, v, t), pc = "hget" => v = NULL
      PROVE  SeenBy(d)'
  <2>1. /\ client'[c] = [pc |-> pc, current |-> t, field |-> f, value |-> v, at |-> 1]
        /\ \A e \in Clients \ {c} : client'[e] = client[e]
        /\ hash' = hash
    BY <1>0, <1>1, CallBegins
  <2>2. Watch
    BY <1>1 DEF Call
  <2>3. CASE c # d
    <3>1. client'[d] = client[d]
      BY <2>1, <2>3
    <3> QED
      BY <2>1, <2>2, <3>1, SeenKept
  <2>4. CASE c = d
    <3> SUFFICES ASSUME Looking(d)'
                 PROVE  /\ client'[d].value = NULL
                        /\ Answer(client[d].field, client[d].current)' \in seen'[d]
                        /\ \/ NULL \in seen'[d]
                           \/ \E i \in client'[d].at..3 :
                                Live(client[d].field, client[d].current, i)'
      BY DEF SeenBy
    <3>1. client'[d].pc = "hget" /\ client'[d].at = 1 /\ client'[d].value = v /\ pc = "hget"
      BY <2>1, <2>4 DEF Looking
    <3> QED
      BY <1>1, <2>2, <3>1, WatchSees
  <2> QED
    BY <2>3, <2>4
<1>2. ASSUME NEW c \in Clients, Look(c)
      PROVE  SeenBy(d)'
  <2>1. /\ Looking(c) /\ hash' = hash
        /\ client'[c].field = client[c].field /\ client'[c].current = client[c].current
        /\ \A e \in Clients \ {c} : client'[e] = client[e]
        /\ \/ client'[c].pc = "answer"
           \/ /\ ~Live(client[c].field, client[c].current, client[c].at)
              /\ client'[c].value = client[c].value
              /\ client'[c].at = client[c].at + 1
    BY <1>0, <1>2, LookEffect
  <2>2. Watch
    BY <1>2 DEF Look
  <2>3. CASE c # d
    <3>1. client'[d] = client[d]
      BY <2>1, <2>3
    <3> QED
      BY <2>1, <2>2, <3>1, SeenKept
  <2>4. CASE c = d
    <3> SUFFICES ASSUME Looking(d)'
                 PROVE  /\ client'[d].value = NULL
                        /\ Answer(client[d].field, client[d].current)' \in seen'[d]
                        /\ \/ NULL \in seen'[d]
                           \/ \E i \in client'[d].at..3 :
                                Live(client[d].field, client[d].current, i)'
      BY DEF SeenBy
    <3>1. /\ ~Live(client[d].field, client[d].current, client[d].at)
          /\ client'[d].value = client[d].value
          /\ client'[d].at = client[d].at + 1
      BY <2>1, <2>4 DEF Looking
    <3>2. /\ client[d].value = NULL
          /\ NULL \in seen[d]
             \/ \E i \in client[d].at..3 : Live(client[d].field, client[d].current, i)
      BY <2>1, <2>4 DEF LookInv, SeenSoFar, SeenBy
    <3>3. CASE NULL \in seen[d]
      BY <2>1, <2>2, <2>4, <3>1, <3>2, <3>3, WatchSees
    <3>4. CASE \E i \in client[d].at..3 : Live(client[d].field, client[d].current, i)
      <4>1. PICK i \in client[d].at..3 : Live(client[d].field, client[d].current, i)
        BY <3>4
      <4>2. client[d].at \in 1..3
        BY <1>0 DEF Calls
      <4>3. i # client[d].at
        BY <3>1, <4>1
      <4>4. i \in client'[d].at..3
        BY <3>1, <4>1, <4>2, <4>3
      <4>5. Live(client[d].field, client[d].current, i)'
        BY <2>1, <2>4, <4>1 DEF Live
      <4> QED
        BY <2>2, <3>1, <3>2, <4>4, <4>5, WatchSees
    <3> QED
      BY <3>2, <3>3, <3>4
  <2> QED
    BY <2>3, <2>4
<1>3. ASSUME NEW c \in Clients, Return(c) \/ Expire(c) \/ Crash(c)
      PROVE  SeenBy(d)'
  <2>1. hash' = hash /\ client' = [client EXCEPT ![c] = Idle] /\ Watch
    BY <1>3 DEF Return, Expire, Crash
  <2>2. client'[c] = Idle /\ \A e \in Clients \ {c} : client'[e] = client[e]
    BY <1>0, <2>1, OneCall
  <2>3. CASE c # d
    <3>1. client'[d] = client[d]
      BY <2>2, <2>3
    <3> QED
      BY <2>1, <3>1, SeenKept
  <2>4. CASE c = d
    BY <2>2, <2>4 DEF SeenBy, Looking, Idle
  <2> QED
    BY <2>3, <2>4
<1>4. ASSUME NEW c \in Clients, Delete(c)
      PROVE  SeenBy(d)'
  <2>1. /\ \A b \in Hashes, f \in Fields : hash'[b][f] \in {hash[b][f], NULL}
        /\ client[c].pc \in {"hdel", "clear"}
        /\ client'[c] = Idle \/ SameCall(client'[c], client[c])
        /\ \A e \in Clients \ {c} : client'[e] = client[e]
    <3>1. \A b \in Hashes, f \in Fields : hash'[b][f] \in {hash[b][f], NULL}
      BY <1>0, <1>4, DeleteEffect
    <3>2. client[c].pc \in {"hdel", "clear"}
      BY <1>4 DEF Delete
    <3>3. /\ client'[c] = Idle \/ SameCall(client'[c], client[c])
          /\ \A e \in Clients \ {c} : client'[e] = client[e]
      BY <1>0, <1>4, CallGoesOn
    <3> QED
      BY <3>1, <3>2, <3>3
  <2>2. Watch
    BY <1>4 DEF Delete
  <2>3. CASE c # d
    <3>1. client'[d] = client[d]
      BY <2>1, <2>3
    <3> QED
      BY <1>0, <2>1, <2>2, <3>1, SeenKept
  <2>4. CASE c = d
    BY <2>1, <2>4 DEF SeenBy, Looking, SameCall, Idle
  <2> QED
    BY <2>3, <2>4
<1>5. ASSUME NEW c \in Writers, Save(c)
      PROVE  SeenBy(d)'
  <2>0. c \in Clients
    BY <1>0
  <2>1. /\ client[c].pc = "hset" /\ client'[c].pc = "expire"
        /\ \A x \in Clients \ {c} : client'[x] = client[x]
    BY <1>0, <1>5, <2>0, SaveElsewhere
  <2>2. \A b \in Hashes, f \in Fields \ {client[c].field} : hash'[b][f] = hash[b][f]
    BY <1>0, <1>5, <2>0, SaveElsewhere
  <2>3. Watch
    BY <1>5 DEF Save
  <2>4. CASE c # d
    <3>1. client'[d] = client[d]
      BY <2>1, <2>4
    <3>2. \A b \in Hashes : ~Recent(b, client[c].field)
      BY <1>0, <1>5, <2>1 DEF SetInv, ClearedSoFar, Writing
    <3>3. Looking(d) =>
            \/ \A b \in Hashes : hash'[b][client[d].field] \in {hash[b][client[d].field], NULL}
            \/ \A b \in Hashes : ~Recent(b, client[d].field)
      BY <1>0, <2>2, <3>2
    <3> QED
      BY <2>3, <3>1, <3>3, SeenKept
  <2>5. CASE c = d
    BY <2>1, <2>5 DEF SeenBy, Looking
  <2> QED
    BY <2>4, <2>5
<1>6. ASSUME Tick
      PROVE  SeenBy(d)'
  <2>1. /\ \A b \in Hashes, f \in Fields : hash'[b][f] \in {hash[b][f], NULL}
        /\ client'[d] = client[d]
    BY <1>0, <1>6, TickEffect
  <2>2. Watch
    BY <1>6 DEF Tick
  <2> QED
    BY <1>0, <2>1, <2>2, SeenKept
<1>7. CASE UNCHANGED vars
  <2>1. UNCHANGED <<client, hash, seen>>
    BY <1>7 DEF vars
  <2>2. SeenBy(d)
    BY DEF LookInv, SeenSoFar
  <2> QED
    BY <2>1, <2>2 DEF SeenBy, Looking, Answer, Lookup, Live
<1> QED
  BY <1>0, <1>1, <1>2, <1>3, <1>4, <1>5, <1>6, <1>7 DEF Next, Hget, Hset, Hdel

(* The value of a valid entry of a call's field is what it would be        *)
(* answered now, for there is one such entry.                              *)
LEMMA LiveIsAnswer ==
  ASSUME LookInv, NEW c \in Clients, Looking(c), NEW i \in 1..3,
         Live(client[c].field, client[c].current, i)
  PROVE  hash[query_name(client[c].current, i)][client[c].field].val \in seen[c]
<1> DEFINE f == client[c].field
           t == client[c].current
<1>1. KeptInv /\ CallInv /\ TypeOK
  BY DEF LookInv, SetInv, CallInv
<1>2. PICK j \in 1..3 : Live(f, t, j) /\ Answer(f, t) = hash[query_name(t, j)][f].val
  BY <1>1, AnswerFound DEF AnswersKnown
<1>3. query_name(t, i) = query_name(t, j)
  BY <1>1, <1>2, LiveIsRecent DEF LookInv, OneRecent
<1>4. Answer(f, t) \in seen[c]
  BY DEF LookInv, SeenSoFar, SeenBy
<1> QED
  BY <1>2, <1>3, <1>4

(* Every step keeps answers among what their calls have seen.              *)
LEMMA AtomicStep ==
  ASSUME LookInv, [Next]_vars
  PROVE  LooksAreAtomic'
<1> SUFFICES ASSUME NEW d \in Clients, client'[d].pc = "answer"
             PROVE  client'[d].value \in seen'[d]
  BY DEF LooksAreAtomic
<1>0. /\ Readers \subseteq Clients /\ Writers \subseteq Clients
      /\ TypeOK /\ client[d] \in Calls
  BY DEF Clients, LookInv, SetInv, CallInv, TypeOK
<1>1. ASSUME client'[d] = client[d], seen'[d] = seen[d]
      PROVE  client'[d].value \in seen'[d]
  BY <1>1 DEF LookInv, LooksAreAtomic
<1>2. Watch => seen'[d] = seen[d]
  BY DEF Watch
<1>3. ASSUME NEW c \in Clients, NEW pc \in {"hget", "hdel", "clear"}, NEW f, NEW v,
             NEW t \in 0..now, Call(c, pc, f, v, t)
      PROVE  client'[d] = client[d] /\ Watch
  <2>1. /\ client'[c] = [pc |-> pc, current |-> t, field |-> f, value |-> v, at |-> 1]
        /\ \A e \in Clients \ {c} : client'[e] = client[e]
    BY <1>0, <1>3, CallBegins
  <2>2. client'[c].pc # "answer"
    BY <2>1
  <2> QED
    BY <1>3, <2>1, <2>2 DEF Call
<1>4. ASSUME NEW c \in Clients, Look(c)
      PROVE  client'[d].value \in seen'[d]
  <2>1. /\ Looking(c)
        /\ \A e \in Clients \ {c} : client'[e] = client[e]
        /\ \/ /\ Live(client[c].field, client[c].current, client[c].at)
              /\ client'[c].value
                   = hash[query_name(client[c].current, client[c].at)][client[c].field].val
           \/ /\ ~Live(client[c].field, client[c].current, client[c].at)
              /\ client'[c].value = client[c].value
              /\ client[c].at < 3 => client'[c].pc = "hget"
    BY <1>0, <1>4, LookEffect
  <2>2. Watch
    BY <1>4 DEF Look
  <2>3. CASE c # d
    BY <1>1, <1>2, <2>1, <2>2, <2>3
  <2>4. CASE c = d
    <3>1. client[d].at \in 1..3
      BY <1>0 DEF Calls
    <3>2. CASE Live(client[d].field, client[d].current, client[d].at)
      BY <1>2, <2>1, <2>2, <2>4, <3>1, <3>2, LiveIsAnswer
    <3>3. CASE ~Live(client[d].field, client[d].current, client[d].at)
      <4>1. client[d].at = 3 /\ client'[d].value = client[d].value
        BY <2>1, <2>4, <3>1, <3>3
      <4>2. client[d].value = NULL /\ NULL \in seen[d]
        BY <2>1, <2>4, <3>3, <4>1 DEF LookInv, SeenSoFar, SeenBy
      <4> QED
        BY <1>2, <2>2, <4>1, <4>2
    <3> QED
      BY <3>2, <3>3
  <2> QED
    BY <2>3, <2>4
<1>5. ASSUME NEW c \in Clients, Return(c) \/ Expire(c) \/ Crash(c)
      PROVE  client'[d] = client[d] /\ Watch
  <2>1. client' = [client EXCEPT ![c] = Idle] /\ Watch
    BY <1>5 DEF Return, Expire, Crash
  <2>2. client'[c] = Idle /\ \A e \in Clients \ {c} : client'[e] = client[e]
    BY <1>0, <2>1, OneCall
  <2> QED
    BY <2>1, <2>2 DEF Idle
<1>6. ASSUME NEW c \in Clients, Delete(c) \/ Save(c)
      PROVE  client'[d] = client[d] /\ Watch
  <2>1. /\ client[c].pc \in {"hdel", "clear", "hset"}
        /\ client'[c] = Idle \/ SameCall(client'[c], client[c])
        /\ \A e \in Clients \ {c} : client'[e] = client[e]
        /\ Watch
    BY <1>0, <1>6, CallGoesOn DEF Delete, Save
  <2>2. client'[c].pc # "answer"
    BY <2>1 DEF SameCall, Idle
  <2> QED
    BY <2>1, <2>2
<1>7. ASSUME Tick
      PROVE  client'[d] = client[d] /\ Watch
  BY <1>7 DEF Tick
<1>8. CASE UNCHANGED vars
  BY <1>1, <1>8 DEF vars
<1> QED
  BY <1>0, <1>1, <1>2, <1>3, <1>4, <1>5, <1>6, <1>7, <1>8 DEF Next, Hget, Hset, Hdel

(* At first nobody looks.                                                  *)
LEMMA LookInit == WholeMinutes /\ MaxDelay <= 1 /\ Init => LookInv
<1> SUFFICES ASSUME WholeMinutes, MaxDelay <= 1, Init PROVE LookInv
  OBVIOUS
<1>1. \A c \in Clients : client[c].pc = "idle"
  BY DEF Init, Idle
<1>2. SeenSoFar /\ LooksAreAtomic
  BY <1>1 DEF SeenSoFar, SeenBy, Looking, LooksAreAtomic
<1> QED
  BY <1>2, SetInit DEF LookInv

(* Every step keeps the invariant about look-ups.                          *)
LEMMA LookStep == LookInv /\ OwnField' /\ [Next]_vars => LookInv'
<1>1. LookInv /\ OwnField' /\ [Next]_vars => SetInv' /\ TypeOK'
  BY SetStep, TypeStep DEF LookInv, SetInv, KeptInv
<1> QED
  BY <1>1, OneRecentStep, SeenStep, AtomicStep DEF LookInv

(* hget looks into three hashes one by one, while fields are set, deleted  *)
(* and dropped, and yet answers what a single moment of its call would     *)
(* have answered, whatever the number of objects and fields.               *)
THEOREM LooksAtomic ==
  WholeMinutes /\ MaxDelay <= 1 /\ Spec /\ []OwnField => []LooksAreAtomic
<1>1. LookInv => LooksAreAtomic
  BY DEF LookInv
<1> QED
  BY <1>1, LookInit, LookStep, PTL DEF Spec

-----------------------------------------------------------------------------
(* The hash implements a map with expiring entries.                        *)

(* The map that is shown, as in the refinement mapping.                    *)
Shown ==
  [f \in Fields |->
     IF Lookup(f, now) = NULL THEN NULL
     ELSE [val |-> Lookup(f, now).val, until |-> Lookup(f, now).tm]]

Valid(b, f) == hash[b][f] # NULL /\ hash[b][f].tm > now

(* The map shows the valid entries.                                        *)
ShownRight ==
  /\ Shown = [f \in Fields |-> Shown[f]]
  /\ \A f \in Fields :
       /\ \A b \in Hashes : Valid(b, f) =>
            Shown[f] = [val |-> hash[b][f].val, until |-> hash[b][f].tm]
       /\ (\A b \in Hashes : ~Valid(b, f)) => Shown[f] = NULL

(* Valid entries are recent.                                               *)
LEMMA ValidIsRecent ==
  ASSUME TypeOK, NEW b \in Hashes, NEW f \in Fields, Valid(b, f)
  PROVE  Recent(b, f) /\ hash[b][f].tm \in Int /\ hash[b][f].val \in Values
<1>1. hash[b][f] \in Entries /\ now \in Int
  BY ConstantsAssumption DEF Valid, TypeOK
<1>2. hash[b][f].tm \in Int /\ hash[b][f].val \in Values
  BY <1>1, ConstantsAssumption DEF Entries
<1> QED
  BY <1>1, <1>2 DEF Valid, Recent

(* A look-up of the present finds the valid entry of a field.              *)
LEMMA ShownIs == LookInv => ShownRight
<1> SUFFICES ASSUME LookInv PROVE ShownRight
  OBVIOUS
<1>0. KeptInv /\ TypeOK /\ OneRecent /\ now \in 0..MaxTime /\ now \in 0..now
  BY ConstantsAssumption DEF LookInv, SetInv, CallInv, TypeOK
<1>1. ASSUME NEW f \in Fields
      PROVE  /\ \A b \in Hashes : Valid(b, f) =>
                  Shown[f] = [val |-> hash[b][f].val, until |-> hash[b][f].tm]
             /\ (\A b \in Hashes : ~Valid(b, f)) => Shown[f] = NULL
  <2>1. Shown[f] = IF Lookup(f, now) = NULL THEN NULL
                   ELSE [val |-> Lookup(f, now).val, until |-> Lookup(f, now).tm]
    BY DEF Shown
  <2>2. CASE \E i \in 1..3 : Live(f, now, i) /\ Lookup(f, now) = hash[query_name(now, i)][f]
    <3>1. PICK i \in 1..3 : Live(f, now, i) /\ Lookup(f, now) = hash[query_name(now, i)][f]
      BY <2>2
    <3> DEFINE h == query_name(now, i)
    <3>2. h \in Hashes
      BY <1>0, QueriedHash
    <3>3. Valid(h, f) /\ Lookup(f, now) = hash[h][f] /\ hash[h][f] # NULL
      BY <3>1 DEF Live, Valid
    <3> HIDE DEF h
    <3>4. \A b \in Hashes : Valid(b, f) => b = h
      BY <1>0, <3>2, <3>3, ValidIsRecent DEF OneRecent
    <3> QED
      BY <2>1, <3>2, <3>3, <3>4
  <2>3. CASE (\A i \in 1..3 : ~Live(f, now, i)) /\ Lookup(f, now) = NULL
    <3>1. ASSUME NEW b \in Hashes, Valid(b, f)
          PROVE  FALSE
      <4>1. Recent(b, f)
        BY <1>0, <3>1, ValidIsRecent
      <4>2. PICK i \in 1..3 : b = query_name(now, i)
        BY <1>0, <4>1, RecentQueried DEF TypeOK
      <4> QED
        BY <2>3, <3>1, <4>2 DEF Live, Valid
    <3> QED
      BY <2>1, <2>3, <3>1
  <2> QED
    BY <2>2, <2>3, LookupFinds
<1>2. Shown = [f \in Fields |-> Shown[f]]
  BY DEF Shown
<1> QED
  BY <1>1, <1>2 DEF ShownRight

(* Fields whose entries a step leaves alone are shown as before.           *)
LEMMA ShownKept ==
  ASSUME ShownRight, ShownRight', now' = now, NEW f \in Fields,
         \A b \in Hashes : hash'[b][f] = hash[b][f]
  PROVE  Shown'[f] = Shown[f]
<1>1. \A b \in Hashes : Valid(b, f)' <=> Valid(b, f)
  BY DEF Valid
<1>2. CASE \E b \in Hashes : Valid(b, f)
  BY <1>1, <1>2 DEF ShownRight
<1>3. CASE \A b \in Hashes : ~Valid(b, f)
  BY <1>1, <1>3 DEF ShownRight
<1> QED
  BY <1>2, <1>3

(* A field that loses entries is shown as before, or as removed.           *)
LEMMA ShownRemoved ==
  ASSUME LookInv, ShownRight, ShownRight', now' = now, NEW f \in Fields,
         \A b \in Hashes : hash'[b][f] \in {hash[b][f], NULL}
  PROVE  Shown'[f] \in {Shown[f], NULL}
<1>1. \A b \in Hashes : Valid(b, f)' => Valid(b, f) /\ hash'[b][f] = hash[b][f]
  BY DEF Valid
<1>2. CASE \E b \in Hashes : Valid(b, f)'
  BY <1>1, <1>2 DEF ShownRight
<1>3. CASE \A b \in Hashes : ~Valid(b, f)'
  BY <1>3 DEF ShownRight
<1> QED
  BY <1>2, <1>3

(* A step that changes what is shown of one field.                         *)
LEMMA ShownOne ==
  ASSUME ShownRight, ShownRight', NEW f \in Fields,
         \A g \in Fields \ {f} : Shown'[g] = Shown[g]
  PROVE  Shown' = [Shown EXCEPT ![f] = Shown'[f]]
<1>1. Shown = [g \in Fields |-> Shown[g]] /\ Shown' = [g \in Fields |-> Shown'[g]]
  BY DEF ShownRight
<1> DEFINE s == Shown
           t == Shown'
<1>2. /\ s = [g \in Fields |-> s[g]] /\ t = [g \in Fields |-> t[g]]
      /\ \A g \in Fields \ {f} : t[g] = s[g]
  BY <1>1
<1> HIDE DEF s, t
<1>3. t = [s EXCEPT ![f] = t[f]]
  BY <1>2
<1> QED
  BY <1>3 DEF s, t

(* What the steps are, seen as steps of the map.                           *)
ShowsSame == UNCHANGED <<now, Shown>>

ShowsRemove == \E f \in Fields : now' = now /\ Shown' = [Shown EXCEPT ![f] = NULL]

ShowsPut ==
  \E f \in Fields, v \in Values, life \in (Expired - MaxDelay)..Expired :
    /\ (now + life) - now \in (Expired - MaxDelay)..Expired
    /\ now + life > now
    /\ Shown' = [Shown EXCEPT ![f] = [val |-> v, until |-> now + life]]
    /\ now' = now

ShowsTick ==
  /\ now' = now + 1
  /\ Shown' = [f \in Fields |->
       IF Shown[f] # NULL /\ Shown[f].until = now + 1 THEN NULL ELSE Shown[f]]

(* Steps that leave the hashes and the clock alone show nothing new.       *)
LEMMA SameShown ==
  ASSUME ShownRight, ShownRight', now' = now, hash' = hash
  PROVE  ShowsSame
<1>1. \A f \in Fields : Shown'[f] = Shown[f]
  BY ShownKept
<1>2. Shown = [g \in Fields |-> Shown[g]] /\ Shown' = [g \in Fields |-> Shown'[g]]
  BY DEF ShownRight
<1>3. Shown' = Shown
  BY <1>1, <1>2
<1> QED
  BY <1>3 DEF ShowsSame

(* An HDEL removes the field, unless it is in another hash or expired.     *)
LEMMA DeleteShown ==
  ASSUME LookInv, ShownRight, ShownRight', NEW c \in Clients, Delete(c)
  PROVE  ShowsRemove \/ ShowsSame
<1> DEFINE f == client[c].field
<1>1. /\ f \in Fields /\ now' = now
      /\ \A b \in Hashes, g \in Fields \ {f} : hash'[b][g] = hash[b][g]
      /\ \A b \in Hashes : hash'[b][f] \in {hash[b][f], NULL}
  <2>1. TypeOK
    BY DEF LookInv, SetInv, CallInv
  <2>2. f \in Fields /\ now' = now
    BY <2>1, DeleteEffect
  <2>3. \A b \in Hashes, g \in Fields :
          hash'[b][g] = IF b = query_name(client[c].current, client[c].at) /\ g = f
                        THEN NULL ELSE hash[b][g]
    BY <2>1, DeleteEffect
  <2> QED
    BY <2>2, <2>3
<1>2. \A g \in Fields \ {f} : Shown'[g] = Shown[g]
  BY <1>1, ShownKept
<1>3. Shown'[f] \in {Shown[f], NULL}
  BY <1>1, ShownRemoved
<1>4. Shown' = [Shown EXCEPT ![f] = Shown'[f]]
  BY <1>1, <1>2, ShownOne
<1>5. CASE Shown'[f] = NULL
  BY <1>1, <1>4, <1>5 DEF ShowsRemove
<1>6. CASE Shown'[f] = Shown[f]
  <2>1. Shown = [g \in Fields |-> Shown[g]] /\ Shown' = [g \in Fields |-> Shown'[g]]
    BY DEF ShownRight
  <2>2. \A g \in Fields : Shown'[g] = Shown[g]
    BY <1>2, <1>6
  <2>3. Shown' = Shown
    BY <2>1, <2>2
  <2> QED
    BY <1>1, <2>3 DEF ShowsSame
<1> QED
  BY <1>3, <1>5, <1>6

(* An entry is added to a field that shows nothing: it is put, unless its  *)
(* time is over before it is saved.                                        *)
LEMMA PutShown ==
  ASSUME LookInv, ShownRight, ShownRight', now' = now,
         NEW f \in Fields, NEW v \in Values, NEW h \in Hashes,
         NEW u \in Nat, u <= now, now - u <= MaxDelay,
         \A b \in Hashes : ~Valid(b, f),
         \A b \in Hashes, g \in Fields :
           hash'[b][g] = IF b = h /\ g = f THEN [val |-> v, tm |-> u + Expired] ELSE hash[b][g]
  PROVE  ShowsPut \/ ShowsSame
<1> DEFINE e == [val |-> v, tm |-> u + Expired]
<1>0. now \in Nat /\ Expired \in Nat /\ MaxDelay \in Nat
  BY ConstantsAssumption DEF LookInv, SetInv, CallInv, TypeOK
<1>1. e.val = v /\ e.tm = u + Expired
  OBVIOUS
<1>2. \A b \in Hashes, g \in Fields : hash'[b][g] = IF b = h /\ g = f THEN e ELSE hash[b][g]
  OBVIOUS
<1> HIDE DEF e
<1>3. hash'[h][f] = e /\ \A b \in Hashes \ {h} : hash'[b][f] = hash[b][f]
  BY <1>2
<1>4. \A g \in Fields \ {f} : \A b \in Hashes : hash'[b][g] = hash[b][g]
  BY <1>2
<1>5. \A g \in Fields \ {f} : Shown'[g] = Shown[g]
  BY <1>4, ShownKept
<1>6. Shown' = [Shown EXCEPT ![f] = Shown'[f]]
  BY <1>5, ShownOne
<1>7. CASE Valid(h, f)'
  <2> DEFINE life == u + Expired - now
  <2>1. Shown'[f] = [val |-> v, until |-> u + Expired]
    BY <1>1, <1>3, <1>7 DEF ShownRight
  <2>2. u + Expired > now
    BY <1>1, <1>3, <1>7 DEF Valid
  <2>3. life \in (Expired - MaxDelay)..Expired /\ now + life = u + Expired
        /\ (now + life) - now \in (Expired - MaxDelay)..Expired
    BY <1>0
  <2> HIDE DEF life
  <2> QED
    BY <1>6, <2>1, <2>2, <2>3 DEF ShowsPut
<1>8. CASE ~Valid(h, f)'
  <2>1. \A b \in Hashes : ~Valid(b, f)'
    BY <1>3, <1>8 DEF Valid
  <2>2. Shown'[f] = Shown[f]
    BY <2>1 DEF ShownRight
  <2>3. Shown = [g \in Fields |-> Shown[g]] /\ Shown' = [g \in Fields |-> Shown'[g]]
    BY DEF ShownRight
  <2>4. \A g \in Fields : Shown'[g] = Shown[g]
    BY <1>5, <2>2
  <2>5. Shown' = Shown
    BY <2>3, <2>4
  <2> QED
    BY <2>5 DEF ShowsSame
<1> QED
  BY <1>7, <1>8

(* The HSET puts its field, of which nothing is shown before.              *)
LEMMA SaveShown ==
  ASSUME LookInv, ShownRight, ShownRight', NEW c \in Writers, Save(c)
  PROVE  ShowsPut \/ ShowsSame
<1>0. c \in Clients /\ TypeOK /\ CallInv /\ SetInv
  BY DEF Clients, LookInv, SetInv, CallInv
<1>1. /\ client[c].pc = "hset" /\ now' = now
      /\ client[c].field \in Fields /\ client[c].value \in Values
      /\ client[c].current \in 0..MaxTime
      /\ get_save_tm(client[c].current).tm \in Hashes
  BY <1>0, SaveEffect
<1>2. PICK f \in Fields, v \in Values, u \in 0..MaxTime, h \in Hashes :
        /\ f = client[c].field /\ v = client[c].value
        /\ u = client[c].current /\ h = get_save_tm(client[c].current).tm
  BY <1>1
<1>3. \A b \in Hashes, g \in Fields :
        hash'[b][g] = IF b = h /\ g = f THEN [val |-> v, tm |-> u + Expired] ELSE hash[b][g]
  <2>1. \A b \in Hashes, g \in Fields :
          hash'[b][g] = IF b = get_save_tm(client[c].current).tm /\ g = client[c].field
                        THEN [val |-> client[c].value, tm |-> client[c].current + Expired]
                        ELSE hash[b][g]
    BY <1>0, SaveEffect
  <2> QED
    BY <1>2, <2>1
<1>4. \A b \in Hashes : ~Recent(b, f)
  BY <1>0, <1>1, <1>2 DEF SetInv, ClearedSoFar, Writing
<1>5. \A b \in Hashes : ~Valid(b, f)
  BY <1>0, <1>4, ValidIsRecent
<1>6. u \in Nat /\ u <= now /\ now - u <= MaxDelay
  BY <1>0, <1>1, <1>2, ConstantsAssumption DEF CallInv, Punctual, NotFromFuture
<1> QED
  BY <1>1, <1>3, <1>5, <1>6, PutShown

(* As time passes, the fields whose time is over disappear, and no others: *)
(* the hash of one that is still valid is not dropped, for its EXPIRE has  *)
(* come, or comes before.                                                  *)
LEMMA TickShown ==
  ASSUME LookInv, ShownRight, ShownRight', lost = {}, Tick
  PROVE  ShowsTick
<1>0. TypeOK /\ KeptInv /\ now \in Int /\ Writers \subseteq Clients
  BY ConstantsAssumption DEF LookInv, SetInv, CallInv, TypeOK, Clients
<1>1. /\ now' = now + 1
      /\ \A b \in Hashes, f \in Fields :
           hash'[b][f] = IF dies[b] = now + 1 THEN NULL ELSE hash[b][f]
      /\ \A c \in Clients :
           client[c].pc \notin {"idle", "hdel"} => now - client[c].current < MaxDelay
  BY <1>0, TickEffect DEF Tick
<1>2. ASSUME NEW b \in Hashes, NEW f \in Fields, Valid(b, f)
      PROVE  Valid(b, f)' <=> hash[b][f].tm # now + 1
  <2>0. hash[b][f].tm \in Int /\ hash[b][f] # NULL /\ hash[b][f].tm > now
    BY <1>0, <1>2, ValidIsRecent DEF Valid
  <2>1. ASSUME hash[b][f].tm > now + 1, dies[b] = now + 1
        PROVE  FALSE
    <3>1. dies[b] # NULL /\ dies[b] < hash[b][f].tm
      BY <1>0, <2>0, <2>1, ConstantsAssumption DEF TypeOK
    <3>2. PICK c \in Writers : /\ client[c].pc = "expire"
                              /\ dies[b] > client[c].current + MaxDelay
      BY <1>0, <2>0, <3>1, KeptFollows DEF KeptUntilExpired
    <3>3. now - client[c].current < MaxDelay
      BY <1>0, <1>1, <3>2
    <3>4. client[c].current \in Int /\ MaxDelay \in Int
      BY <1>0, <3>2, ConstantsAssumption DEF TypeOK, Calls
    <3> QED
      BY <1>0, <2>1, <3>2, <3>3, <3>4
  <2>2. CASE hash[b][f].tm > now + 1
    <3>1. hash'[b][f] = hash[b][f]
      BY <1>1, <2>1, <2>2
    <3> QED
      BY <1>0, <1>1, <2>0, <2>2, <3>1 DEF Valid
  <2>3. CASE hash[b][f].tm = now + 1
    <3>1. hash'[b][f] = NULL \/ hash'[b][f] = hash[b][f]
      BY <1>1
    <3> QED
      BY <1>0, <1>1, <2>3, <3>1 DEF Valid
  <2> QED
    BY <1>0, <2>0, <2>2, <2>3
<1>3. \A b \in Hashes, f \in Fields :
        Valid(b, f)' => Valid(b, f) /\ hash'[b][f] = hash[b][f]
  <2> SUFFICES ASSUME NEW b \in Hashes, NEW f \in Fields, Valid(b, f)'
               PROVE  Valid(b, f) /\ hash'[b][f] = hash[b][f]
    OBVIOUS
  <2>1. hash'[b][f] # NULL /\ hash'[b][f].tm > now + 1 /\ hash'[b][f] = hash[b][f]
    BY <1>1 DEF Valid
  <2>2. hash[b][f].tm \in Int
    BY <1>0, <2>1, ConstantsAssumption DEF TypeOK, Entries
  <2> QED
    BY <1>0, <2>1, <2>2 DEF Valid
<1>4. ASSUME NEW f \in Fields
      PROVE  Shown'[f] = IF Shown[f] # NULL /\ Shown[f].until = now + 1
                         THEN NULL ELSE Shown[f]
  <2>1. CASE \A b \in Hashes : ~Valid(b, f)
    <3>1. \A b \in Hashes : ~Valid(b, f)'
      BY <1>3, <2>1
    <3> QED
      BY <2>1, <3>1 DEF ShownRight
  <2>2. ASSUME NEW h \in Hashes, Valid(h, f)
        PROVE  Shown'[f] = IF Shown[f] # NULL /\ Shown[f].until = now + 1
                           THEN NULL ELSE Shown[f]
    <3> DEFINE r == [val |-> hash[h][f].val, until |-> hash[h][f].tm]
    <3>1. Shown[f] = r /\ r.until = hash[h][f].tm
      BY <2>2 DEF ShownRight
    <3>2. \A b \in Hashes : Valid(b, f)' => b = h
      <4>1. OneRecent
        BY DEF LookInv
      <4> QED
        BY <1>0, <1>3, <2>2, <4>1, ValidIsRecent DEF OneRecent
    <3>3. CASE Valid(h, f)'
      <4>1. Shown'[f] = r
        BY <1>3, <3>3 DEF ShownRight
      <4> HIDE DEF r
      <4> QED
        BY <1>2, <2>2, <3>1, <3>3, <4>1
    <3>4. CASE ~Valid(h, f)'
      <4>1. Shown'[f] = NULL
        BY <3>2, <3>4 DEF ShownRight
      <4>2. hash[h][f].tm = now + 1
        BY <1>2, <2>2, <3>4
      <4> HIDE DEF r
      <4> QED
        BY <3>1, <4>1, <4>2
    <3> QED
      BY <3>3, <3>4
  <2> QED
    BY <2>1, <2>2
<1>5. Shown' = [f \in Fields |-> Shown'[f]]
  BY DEF ShownRight
<1>6. Shown' = [f \in Fields |->
        IF Shown[f] # NULL /\ Shown[f].until = now + 1 THEN NULL ELSE Shown[f]]
  BY <1>4, <1>5
<1> QED
  BY <1>1, <1>6 DEF ShowsTick

(* Every step is a step of the map that is shown, or none.                 *)
LEMMA StepShown ==
  ASSUME LookInv, ShownRight, ShownRight', lost = {}, [Next]_vars
  PROVE  ShowsRemove \/ ShowsPut \/ ShowsTick \/ ShowsSame
<1>0. Readers \subseteq Clients /\ Writers \subseteq Clients
  BY DEF Clients
<1>1. ASSUME NEW c \in Clients, NEW pc, NEW f, NEW v, NEW t \in 0..now, Call(c, pc, f, v, t)
      PROVE  ShowsSame
  BY <1>1, SameShown DEF Call
<1>2. ASSUME NEW c \in Clients, Look(c) \/ Return(c) \/ Expire(c) \/ Crash(c)
      PROVE  ShowsSame
  BY <1>2, NoEffect, SameShown
<1>3. ASSUME UNCHANGED vars
      PROVE  ShowsSame
  BY <1>3, SameShown DEF vars
<1> QED
  BY <1>0, <1>1, <1>2, <1>3, DeleteShown, SaveShown, TickShown
  DEF Next, Hget, Hset, Hdel

(* At first nothing is shown.                                              *)
LEMMA MapInit == WholeMinutes /\ MaxDelay <= 1 /\ Init => Map!Init
<1> SUFFICES ASSUME WholeMinutes, MaxDelay <= 1, Init PROVE Map!Init
  OBVIOUS
<1>1. ShownRight
  BY LookInit, ShownIs
<1>2. \A f \in Fields, b \in Hashes : ~Valid(b, f)
  BY DEF Valid, Init, NoFields
<1>3. \A f \in Fields : Shown[f] = NULL
  BY <1>1, <1>2 DEF ShownRight
<1>4. Shown = [f \in Fields |-> Shown[f]]
  BY <1>1 DEF ShownRight
<1>5. Shown = [f \in Fields |-> NULL]
  BY <1>3, <1>4
<1>6. now \in Nat
  BY DEF Init
<1> QED
  BY <1>5, <1>6 DEF Map!Init, Shown

(* A step of the hash is a step of the map, as long as no EXPIRE is lost.  *)
LEMMA MapStep ==
  LookInv /\ OwnField' /\ lost = {} /\ [Next]_vars => [Map!Next]_(Map!vars)
<1> SUFFICES ASSUME LookInv, OwnField', lost = {}, [Next]_vars
             PROVE  Map!Next \/ UNCHANGED Map!vars
  OBVIOUS
<1>1. LookInv' => ShownRight'
  BY ShownIs, PTL
<1>2. ShownRight /\ ShownRight'
  BY <1>1, ShownIs, LookStep
<1>3. ShowsRemove \/ ShowsPut \/ ShowsTick \/ ShowsSame
  BY <1>2, StepShown
<1>4. CASE ShowsRemove
  <2>1. PICK f \in Fields : now' = now /\ Shown' = [Shown EXCEPT ![f] = NULL]
    BY <1>4 DEF ShowsRemove
  <2>2. Map!Remove(f)
    BY <2>1 DEF Map!Remove, Shown
  <2> QED
    BY <2>2 DEF Map!Next
<1>5. CASE ShowsPut
  <2>1. PICK f \in Fields, v \in Values, life \in (Expired - MaxDelay)..Expired :
          /\ (now + life) - now \in (Expired - MaxDelay)..Expired
          /\ now + life > now
          /\ Shown' = [Shown EXCEPT ![f] = [val |-> v, until |-> now + life]]
          /\ now' = now
    BY <1>5 DEF ShowsPut
  <2>2. Map!Put(f, v, now + life)
    BY <2>1 DEF Map!Put, Shown
  <2> QED
    BY <2>2 DEF Map!Next
<1>6. CASE ShowsTick
  BY <1>6 DEF ShowsTick, Map!Next, Map!Tick, Shown
<1>7. CASE ShowsSame
  BY <1>7 DEF ShowsSame, Map!vars, Shown
<1> QED
  BY <1>3, <1>4, <1>5, <1>6, <1>7

(* The hash of many Redis commands implements the map whose entries        *)
(* disappear by themselves: whatever is looked up in a single moment is    *)
(* there until the time it was given is over, and not after, as long as no *)
(* crash takes away an EXPIRE.                                             *)
THEOREM ImplementsMap ==
  WholeMinutes /\ MaxDelay <= 1 /\ Spec /\ []OwnField /\ [](lost = {}) => IsExpiringMap
  BY LookInit, LookStep, MapInit, MapStep, PTL DEF Spec, IsExpiringMap, Map!Spec

NoCrash == MaxFaults = 0 /\ faults = 0 /\ lost = {}

(* Without crashes nothing is lost.                                        *)
LEMMA NothingLost == MaxFaults = 0 /\ Spec => [](lost = {})
<1>1. MaxFaults = 0 /\ Init => NoCrash
  BY DEF Init, NoCrash
<1>2. NoCrash /\ [Next]_vars => NoCrash'
  <2> SUFFICES ASSUME NoCrash, [Next]_vars PROVE faults' = 0 /\ lost' = {}
    BY DEF NoCrash
  <2>1. \A c, pc, f, v, t : Call(c, pc, f, v, t) => faults' = 0 /\ lost' = {}
    BY DEF NoCrash, Call
  <2>2. \A c : Look(c) \/ Return(c) \/ Save(c) => faults' = 0 /\ lost' = {}
    BY DEF NoCrash, Look, Return, Save
  <2>3. \A c : Delete(c) \/ Expire(c) => faults' = 0 /\ lost' = {}
    BY DEF NoCrash, Delete, Expire
  <2>4. \A c : ~Crash(c)
    BY DEF NoCrash, Crash
  <2>5. Tick => faults' = 0 /\ lost' = {}
    BY DEF NoCrash, Tick
  <2>6. UNCHANGED vars => faults' = 0 /\ lost' = {}
    BY DEF NoCrash, vars
  <2> QED
    BY <2>1, <2>2, <2>3, <2>4, <2>5, <2>6 DEF Next, Hget, Hset, Hdel
<1>3. NoCrash => lost = {}
  BY DEF NoCrash
<1> QED
  BY <1>1, <1>2, <1>3, PTL DEF Spec

(* A process that does not crash between HSET and EXPIRE uses such a map,  *)
(* however many use it at the same time.                                   *)
THEOREM ImplementsMapWithoutCrashes ==
  WholeMinutes /\ MaxDelay <= 1 /\ MaxFaults = 0 /\ Spec /\ []OwnField => IsExpiringMap
  BY ImplementsMap, NothingLost, PTL
==============================================================================
