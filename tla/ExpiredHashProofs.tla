-------------------------- MODULE ExpiredHashProofs --------------------------
(***************************************************************************)
(* Proofs about ExpiredHash for all fields, values, objects and bounds.    *)
(* The first part is the arithmetic of windows; it is needed because the   *)
(* hash an entry is in is found again by computing its name from the time. *)
(***************************************************************************)
EXTENDS ExpiredHash, TLAPS

(* An expiry the windows are made for: a whole number of minutes.          *)
WholeMinutes == \E n \in Nat : Expired = n * Minute

-----------------------------------------------------------------------------
(* Windows.                                                                *)

(* Division with remainder.                                                *)
LEMMA DivMod ==
  ASSUME NEW a \in Int, NEW n \in Nat \ {0}
  PROVE  /\ a \div n \in Int
         /\ a % n \in 0..(n - 1)
         /\ a = n * (a \div n) + (a % n)
  BY SMT

(* Division is monotone.                                                   *)
LEMMA DivUp ==
  ASSUME NEW a \in Int, NEW b \in Int, NEW n \in Nat \ {0}, a <= b
  PROVE  a \div n <= b \div n
  BY SMT

(* A product of positive numbers is positive.                              *)
LEMMA Times ==
  ASSUME NEW a \in Nat \ {0}, NEW b \in Nat \ {0}
  PROVE  a * b \in Nat \ {0}
  BY SMT

(* A window is at least a second long.                                     *)
LEMMA RetvalPositive == retval \in Nat \ {0}
<1> DEFINE a == Expired + Minute - 1
<1>1. a \in Nat /\ a >= Minute /\ Minute \in Nat \ {0}
  BY ConstantsAssumption
<1> HIDE DEF a
<1>2. /\ a \div Minute \in Int
      /\ a % Minute \in 0..(Minute - 1)
      /\ a = Minute * (a \div Minute) + (a % Minute)
  BY <1>1, DivMod
<1>3. a \div Minute \in Nat \ {0}
  BY <1>1, <1>2
<1>4. (a \div Minute) * Minute \in Nat \ {0}
  BY <1>1, <1>3, Times
<1> QED
  BY <1>4 DEF retval, a

(* Whole minutes are not rounded.                                          *)
LEMMA NotRounded ==
  ASSUME WholeMinutes
  PROVE  retval = Expired
<1>1. Minute \in Nat \ {0}
  BY ConstantsAssumption
<1>2. PICK n \in Nat : Expired = n * Minute
  BY DEF WholeMinutes
<1>3. (n * Minute + Minute - 1) \div Minute = n
  BY <1>1
<1> QED
  BY <1>1, <1>2, <1>3 DEF retval

(* A moment lies in the window named after it.                             *)
LEMMA InWindow ==
  ASSUME NEW t \in Nat
  PROVE  /\ get_cur_hash_name(t) \in Int
         /\ get_cur_hash_name(t) = retval * (t \div retval)
         /\ get_cur_hash_name(t) <= t
         /\ t < get_cur_hash_name(t) + retval
  BY RetvalPositive, DivMod DEF get_cur_hash_name

(* The names up to two windows around a moment of a behaviour are hashes.  *)
LEMMA NamesAreHashes ==
  ASSUME NEW t \in 0..MaxTime, NEW k \in -1..2
  PROVE  get_cur_hash_name(t) + k * retval \in Hashes
<1> DEFINE p == t \div retval
           q == MaxTime \div retval
<1>1. t \in Int /\ MaxTime \in Int /\ t <= MaxTime /\ 0 <= t /\ t \in Nat
  BY ConstantsAssumption
<1>2. p \in Int /\ q \in Int /\ p <= q
  BY <1>1, RetvalPositive, DivMod, DivUp
<1>3. p >= 0
  <2>1. 0 \div retval = 0
    BY RetvalPositive
  <2> QED
    BY <1>1, <2>1, RetvalPositive, DivUp
<1>4. get_cur_hash_name(t) = retval * p
  BY <1>1, InWindow
<1> HIDE DEF p
<1>5. p + k \in -1..(q + 2)
  BY <1>2, <1>3
<1>6. retval * p + k * retval = retval * (p + k)
  BY <1>2, RetvalPositive
<1> QED
  BY <1>4, <1>5, <1>6 DEF Hashes

(* What get_save_tm returns: this window or the next, and a time to live.  *)
LEMMA SavedInHash ==
  ASSUME NEW t \in 0..MaxTime
  PROVE  /\ get_save_tm(t).tm \in Hashes
         /\ get_save_tm(t).timeout \in Nat
         /\ \E k \in {0, 1} : get_save_tm(t).tm = get_cur_hash_name(t) + k * retval
<1> DEFINE cur == get_cur_hash_name(t)
           next == cur + retval
           s == get_save_tm(t)
<1>1. t \in Nat /\ cur \in Int /\ t < next /\ retval \in Nat
  <2>1. t \in Nat /\ retval \in Nat
    BY RetvalPositive, ConstantsAssumption
  <2> QED
    BY <2>1, InWindow
<1>2. cur + 0 * retval \in Hashes /\ cur + 1 * retval \in Hashes
  BY NamesAreHashes
<1>3. s = IF Expired + cur >= next
          THEN [tm |-> next, timeout |-> retval + 1]
          ELSE [tm |-> cur, timeout |-> next - t + 1]
  BY DEF get_save_tm
<1>4. cur + 0 * retval = cur /\ cur + 1 * retval = next
  BY <1>1
<1> HIDE DEF cur, next, s
<1>5. s.tm \in {cur, next} /\ s.timeout \in {retval + 1, next - t + 1}
  BY <1>3
<1>6. next \in Int /\ next - t + 1 \in Nat /\ retval + 1 \in Nat
  BY <1>1 DEF next
<1> QED
  BY <1>2, <1>4, <1>5, <1>6 DEF s, cur

(* The three hashes of _query_name.                                        *)
LEMMA QueriedHash ==
  ASSUME NEW t \in 0..MaxTime, NEW i \in 1..3
  PROVE  query_name(t, i) \in Hashes
<1>1. PICK k \in {0, 1} : get_save_tm(t).tm = get_cur_hash_name(t) + k * retval
  BY SavedInHash
<1>2. get_cur_hash_name(t) \in Int /\ retval \in Int
  BY InWindow, RetvalPositive, ConstantsAssumption
<1>3. query_name(t, i) = get_cur_hash_name(t) + (k + i - 2) * retval
  BY <1>1, <1>2 DEF query_name
<1>4. k + i - 2 \in -1..2
  OBVIOUS
<1> QED
  BY <1>3, <1>4, NamesAreHashes

-----------------------------------------------------------------------------
(* Types.                                                                  *)

(* What a look-up answers is a value.                                      *)
AnswersTyped ==
  \A c \in Clients :
    client[c].pc = "hget" =>
      Answer(client[c].field, client[c].current) \in Values \cup {NULL}

(* Every look-up of a call answers a value or nothing.                     *)
LEMMA AnswerType ==
  /\ hash \in [Hashes -> [Fields -> Entries \cup {NULL}]]
  /\ client \in [Clients -> Calls]
  /\ \A c \in Clients : client[c].pc # "idle" => client[c].field \in Fields
  => AnswersTyped
<1> SUFFICES ASSUME hash \in [Hashes -> [Fields -> Entries \cup {NULL}]],
                    client \in [Clients -> Calls],
                    \A c \in Clients : client[c].pc # "idle" => client[c].field \in Fields,
                    NEW c \in Clients, client[c].pc = "hget"
             PROVE  Answer(client[c].field, client[c].current) \in Values \cup {NULL}
  BY DEF AnswersTyped
<1> DEFINE f == client[c].field
           t == client[c].current
           First(i) == Live(f, t, i) /\ \A j \in 1..(i - 1) : ~Live(f, t, j)
<1>1. f \in Fields /\ t \in 0..MaxTime
  BY DEF Calls
<1> HIDE DEF f, t
<1>2. CASE \E i \in 1..3 : Live(f, t, i)
  <2>1. \E i \in 1..3 : First(i)
    <3>1. CASE Live(f, t, 1)
      BY <3>1
    <3>2. CASE ~Live(f, t, 1) /\ Live(f, t, 2)
      BY <3>2
    <3>3. CASE ~Live(f, t, 1) /\ ~Live(f, t, 2) /\ Live(f, t, 3)
      BY <3>3
    <3> QED
      BY <1>2, <3>1, <3>2, <3>3
  <2>2. PICK i \in 1..3 : i = CHOOSE j \in 1..3 : First(j)
    BY <2>1
  <2>3. First(i)
    BY <2>1, <2>2
  <2>4. Lookup(f, t) = hash[query_name(t, i)][f]
    BY <1>2, <2>2 DEF Lookup
  <2>5. query_name(t, i) \in Hashes
    BY <1>1, QueriedHash
  <2>6. hash[query_name(t, i)][f] \in Entries
    BY <1>1, <2>3, <2>5 DEF Live
  <2> QED
    BY <2>4, <2>6 DEF Answer, Entries, f, t
<1>3. CASE ~ \E i \in 1..3 : Live(f, t, i)
  BY <1>3 DEF Lookup, Answer, f, t
<1> QED
  BY <1>2, <1>3

(* The history stays typed when the rest of the state does.                *)
LEMMA WatchType ==
  ASSUME seen \in [Clients -> SUBSET (Values \cup {NULL})],
         Watch,
         AnswersTyped'
  PROVE  seen' \in [Clients -> SUBSET (Values \cup {NULL})]
<1>1. \A c \in Clients :
        client'[c].pc = "hget" =>
          Answer(client[c].field, client[c].current)' \in Values \cup {NULL}
  BY DEF AnswersTyped
<1> QED
  BY <1>1 DEF Watch

(* The state without its history.                                          *)
StateTyped ==
  /\ now \in 0..MaxTime
  /\ hash \in [Hashes -> [Fields -> Entries \cup {NULL}]]
  /\ dies \in [Hashes -> Nat \cup {NULL}]
  /\ client \in [Clients -> Calls]
  /\ \A c \in Clients :
       /\ client[c].pc # "idle" => client[c].field \in Fields
       /\ client[c].pc \in {"clear", "hset"} => client[c].value \in Values
  /\ lost \in SUBSET Hashes
  /\ faults \in 0..MaxFaults

(* A call that has its answer is a call of the same field.                 *)
LEMMA AnswerCall ==
  ASSUME NEW k \in Calls, NEW v \in Values
  PROVE  /\ [k EXCEPT !.pc = "answer", !.value = v] \in Calls
         /\ [k EXCEPT !.pc = "answer", !.value = v].field = k.field
         /\ [k EXCEPT !.pc = "answer", !.value = v].pc = "answer"
  BY DEF Calls

(* So is one that goes on to the next hash.                                *)
LEMMA NextCall ==
  ASSUME NEW k \in Calls, k.at < 3
  PROVE  /\ [k EXCEPT !.at = k.at + 1] \in Calls
         /\ [k EXCEPT !.at = k.at + 1].field = k.field
         /\ [k EXCEPT !.at = k.at + 1].pc = k.pc
         /\ [k EXCEPT !.at = k.at + 1].value = k.value
  BY DEF Calls

(* A step keeps the types: one case per action.                            *)
LEMMA StateTypedStep == StateTyped /\ [Next]_vars => StateTyped'
<1> SUFFICES ASSUME StateTyped, [Next]_vars
             PROVE  StateTyped'
  OBVIOUS
<1> USE DEF StateTyped
<1>0. Clients = Readers \cup Writers /\ Idle \in Calls /\ Idle.pc = "idle"
  BY ConstantsAssumption DEF Clients, Idle, Calls
<1>1. ASSUME NEW c \in Clients, NEW pc \in {"hget", "hdel", "clear"}, NEW f \in Fields,
             NEW v \in Values \cup {NULL}, NEW t \in 0..now, Call(c, pc, f, v, t),
             pc = "clear" => v \in Values
      PROVE  StateTyped'
  <2>1. [pc |-> pc, current |-> t, field |-> f, value |-> v, at |-> 1] \in Calls
    BY <1>1, ConstantsAssumption DEF Calls
  <2> QED
    BY <1>1, <2>1 DEF Call
<1>2. ASSUME NEW c \in Clients, Look(c)
      PROVE  StateTyped'
  <2> DEFINE k == client[c]
             e == hash[query_name(k.current, k.at)][k.field]
             new == IF e # NULL /\ e.tm > k.current
                    THEN [k EXCEPT !.pc = "answer", !.value = e.val]
                    ELSE IF k.at < 3 THEN [k EXCEPT !.at = k.at + 1]
                    ELSE [k EXCEPT !.pc = "answer"]
  <2>1. k \in Calls /\ k.pc = "hget" /\ k.field \in Fields
    BY <1>2 DEF Look, Looking
  <2>2. e \in Entries \cup {NULL}
    BY <2>1, QueriedHash DEF Calls
  <2>3. client' = [client EXCEPT ![c] = new]
    BY <1>2 DEF Look
  <2> HIDE DEF e
  <2>4. new \in Calls /\ new.field = k.field /\ new.pc \in {"hget", "answer"}
    <3>1. CASE e # NULL /\ e.tm > k.current
      <4>1. e.val \in Values
        BY <2>2, <3>1 DEF Entries
      <4>2. new = [k EXCEPT !.pc = "answer", !.value = e.val]
        BY <3>1
      <4> HIDE DEF new, k
      <4>3. /\ [k EXCEPT !.pc = "answer", !.value = e.val] \in Calls
            /\ [k EXCEPT !.pc = "answer", !.value = e.val].field = k.field
            /\ [k EXCEPT !.pc = "answer", !.value = e.val].pc = "answer"
        BY <2>1, <4>1, AnswerCall
      <4> QED
        BY <4>2, <4>3
    <3>2. CASE ~(e # NULL /\ e.tm > k.current) /\ k.at < 3
      <4>1. new = [k EXCEPT !.at = k.at + 1]
        BY <3>2
      <4> HIDE DEF new, k
      <4> QED
        BY <2>1, <3>2, <4>1, NextCall
    <3>3. CASE ~(e # NULL /\ e.tm > k.current) /\ ~(k.at < 3)
      BY <2>1, <3>3 DEF Calls
    <3> QED
      BY <3>1, <3>2, <3>3
  <2> HIDE DEF new
  <2> QED
    BY <1>2, <2>1, <2>3, <2>4 DEF Look
<1>3. ASSUME NEW c \in Clients, Return(c)
      PROVE  StateTyped'
  BY <1>0, <1>3 DEF Return
<1>4. ASSUME NEW c \in Clients, Delete(c)
      PROVE  StateTyped'
  <2> DEFINE k == client[c]
             b == query_name(k.current, k.at)
             fields == [hash[b] EXCEPT ![k.field] = NULL]
             new == IF k.at < 3 THEN [k EXCEPT !.at = k.at + 1]
                    ELSE IF k.pc = "clear" THEN [k EXCEPT !.pc = "hset"]
                    ELSE Idle
  <2>1. k \in Calls /\ k.pc \in {"hdel", "clear"} /\ k.field \in Fields
    BY <1>4 DEF Delete
  <2>2. b \in Hashes
    BY <2>1, QueriedHash DEF Calls
  <2>3. fields \in [Fields -> Entries \cup {NULL}]
    BY <2>1, <2>2
  <2>4. new \in Calls /\ (new.pc # "idle" => new.field = k.field)
        /\ (new.pc \in {"clear", "hset"} => k.pc = "clear" /\ new.value = k.value)
    BY <1>0, <2>1 DEF Calls
  <2>5. /\ hash' = [hash EXCEPT ![b] = fields]
        /\ dies' = [dies EXCEPT ![b] = IF fields = NoFields THEN NULL ELSE dies[b]]
        /\ client' = [client EXCEPT ![c] = new]
        /\ lost' = IF fields = NoFields THEN lost \ {b} ELSE lost
        /\ UNCHANGED <<now, faults>>
    BY <1>4 DEF Delete
  <2> HIDE DEF b, fields, new
  <2> QED
    BY <2>1, <2>2, <2>3, <2>4, <2>5
<1>5. ASSUME NEW c \in Clients, Save(c)
      PROVE  StateTyped'
  <2> DEFINE k == client[c]
             b == get_save_tm(k.current).tm
             e == [val |-> k.value, tm |-> k.current + Expired]
  <2>1. k \in Calls /\ k.pc = "hset" /\ k.field \in Fields /\ k.value \in Values
    BY <1>5 DEF Save
  <2>2. b \in Hashes
    BY <2>1, SavedInHash DEF Calls
  <2>3. e \in Entries
    BY <2>1, ConstantsAssumption DEF Calls, Entries
  <2>4. hash' = [hash EXCEPT ![b] = [hash[b] EXCEPT ![k.field] = e]]
    BY <1>5, <2>1, <2>2 DEF Save
  <2>5. hash' \in [Hashes -> [Fields -> Entries \cup {NULL}]]
    <3> HIDE DEF b, e
    <3> QED
      BY <2>1, <2>2, <2>3, <2>4
  <2>6. client' = [client EXCEPT ![c] = [k EXCEPT !.pc = "expire"]]
    BY <1>5 DEF Save
  <2>7. [k EXCEPT !.pc = "expire"] \in Calls
    BY <2>1 DEF Calls
  <2> QED
    BY <1>5, <2>1, <2>5, <2>6, <2>7 DEF Save, Calls
<1>6. ASSUME NEW c \in Clients, Expire(c)
      PROVE  StateTyped'
  <2> DEFINE s == get_save_tm(client[c].current)
  <2>1. s.tm \in Hashes /\ s.timeout \in Nat /\ now \in Nat
    BY <1>6, SavedInHash, ConstantsAssumption DEF Calls
  <2>2. dies' = [dies EXCEPT ![s.tm] = IF Exists(s.tm) THEN now + s.timeout ELSE dies[s.tm]]
    BY <1>6 DEF Expire
  <2>3. lost' = lost \ {s.tm} /\ client' = [client EXCEPT ![c] = Idle]
        /\ UNCHANGED <<now, hash, faults>>
    BY <1>6 DEF Expire
  <2> HIDE DEF s
  <2> QED
    BY <1>0, <2>1, <2>2, <2>3
<1>7. ASSUME Tick
      PROVE  StateTyped'
  BY <1>7, ConstantsAssumption DEF Tick, NoFields
<1>8. ASSUME NEW c \in Clients, Crash(c)
      PROVE  StateTyped'
  <2>1. get_save_tm(client[c].current).tm \in Hashes
    BY SavedInHash DEF Calls
  <2>2. /\ lost' \in SUBSET Hashes
        /\ faults' \in 0..MaxFaults
        /\ client' = [client EXCEPT ![c] = Idle]
        /\ UNCHANGED <<now, hash, dies>>
    BY <1>8, <2>1, ConstantsAssumption DEF Crash
  <2> QED
    BY <1>0, <2>2
<1>9. CASE UNCHANGED vars
  BY <1>9 DEF vars
<1> QED
  BY <1>0, <1>1, <1>2, <1>3, <1>4, <1>5, <1>6, <1>7, <1>8, <1>9
  DEF Next, Hget, Hset, Hdel

(* The initial state is typed.                                             *)
LEMMA TypeInit == Init => TypeOK
  BY ConstantsAssumption DEF Init, TypeOK, Idle, Calls, NoFields

(* Every step keeps the types.                                             *)
LEMMA TypeStep == TypeOK /\ [Next]_vars => TypeOK'
<1>1. TypeOK => StateTyped
  BY DEF TypeOK, StateTyped
<1>2. StateTyped => AnswersTyped
  BY AnswerType DEF StateTyped
<1>3. TypeOK /\ [Next]_vars => StateTyped'
  BY <1>1, StateTypedStep
<1>4. StateTyped' => AnswersTyped'
  BY <1>2, PTL
<1>5. Next => Watch
  BY DEF Next, Hget, Hset, Hdel, Call, Look, Return, Delete, Save, Expire, Tick, Crash
<1>6. TypeOK /\ [Next]_vars => seen' \in [Clients -> SUBSET (Values \cup {NULL})]
  <2>1. ASSUME TypeOK, UNCHANGED vars
        PROVE  seen' \in [Clients -> SUBSET (Values \cup {NULL})]
    BY <2>1 DEF TypeOK, vars
  <2>2. ASSUME TypeOK, Next
        PROVE  seen' \in [Clients -> SUBSET (Values \cup {NULL})]
    BY <1>3, <1>4, <1>5, <2>2, WatchType DEF TypeOK
  <2> QED
    BY <2>1, <2>2
<1> QED
  BY <1>3, <1>6 DEF TypeOK, StateTyped

(* The variables of the expiring hash keep their types.                    *)
THEOREM TypeCorrect == Spec => []TypeOK
  BY TypeInit, TypeStep, PTL DEF Spec

-----------------------------------------------------------------------------
(* Every hash gets a time to live.                                         *)

(* Hash b is about to get its time to live, or a crash prevented that.     *)
OwedExpire(b) ==
  \/ b \in lost
  \/ \E c \in Writers : /\ client[c].pc = "expire"
                       /\ get_save_tm(client[c].current).tm = b

(* A step of an object that is not at its EXPIRE takes nothing away from   *)
(* what is owed.                                                           *)
LEMMA OwedKept ==
  ASSUME TypeOK,
         NEW c \in Clients, client[c].pc # "expire",
         NEW k, client' = [client EXCEPT ![c] = k],
         NEW b, b \in lost => b \in lost',
         OwedExpire(b)
  PROVE  OwedExpire(b)'
<1>1. CASE b \in lost
  BY <1>1 DEF OwedExpire
<1>2. CASE \E w \in Writers : client[w].pc = "expire" /\ get_save_tm(client[w].current).tm = b
  <2>1. PICK w \in Writers : client[w].pc = "expire" /\ get_save_tm(client[w].current).tm = b
    BY <1>2
  <2>2. client'[w] = client[w]
    BY <2>1 DEF TypeOK, Clients
  <2> QED
    BY <2>1, <2>2 DEF OwedExpire
<1> QED
  BY <1>1, <1>2 DEF OwedExpire

(* What an EXPIRE or a crash takes away is only what its own hash is owed. *)
LEMMA OwedLeft ==
  ASSUME TypeOK,
         NEW c \in Clients, client' = [client EXCEPT ![c] = Idle],
         NEW b, b # get_save_tm(client[c].current).tm, b \in lost => b \in lost',
         OwedExpire(b)
  PROVE  OwedExpire(b)'
<1>1. CASE b \in lost
  BY <1>1 DEF OwedExpire
<1>2. CASE \E w \in Writers : client[w].pc = "expire" /\ get_save_tm(client[w].current).tm = b
  <2>1. PICK w \in Writers : client[w].pc = "expire" /\ get_save_tm(client[w].current).tm = b
    BY <1>2
  <2>2. client'[w] = client[w]
    BY <2>1 DEF TypeOK, Clients
  <2> QED
    BY <2>1, <2>2 DEF OwedExpire
<1> QED
  BY <1>1, <1>2 DEF OwedExpire

(* What the steps do to hashes: the facts the invariants are proved from.  *)
(* Only Save adds an entry, only Expire gives a time to live; a hash that  *)
(* loses what it is owed has just got one, or is gone.                     *)
NothingAdded ==
  /\ now' \in {now, now + 1}
  /\ \A b \in Hashes :
       /\ \A f \in Fields : hash'[b][f] \in {hash[b][f], NULL}
       /\ dies'[b] \in {dies[b], NULL}
       /\ dies'[b] = dies[b] \/ hash'[b] = NoFields
       /\ OwedExpire(b) => OwedExpire(b)' \/ hash'[b] = NoFields

Added(c) ==
  LET k == client[c]
      b == get_save_tm(k.current).tm IN
  /\ k.pc = "hset" /\ k.field \in Fields /\ k.current \in 0..now
  /\ hash' = [hash EXCEPT ![b] = [hash[b] EXCEPT ![k.field] =
                [val |-> k.value, tm |-> k.current + Expired]]]
  /\ UNCHANGED <<now, dies>>
  /\ \A d \in Hashes : d = b \/ OwedExpire(d) => OwedExpire(d)'

Prolonged(c) ==
  LET s == get_save_tm(client[c].current) IN
  /\ client[c].current \in 0..now
  /\ dies' = [dies EXCEPT ![s.tm] = IF Exists(s.tm) THEN now + s.timeout ELSE dies[s.tm]]
  /\ UNCHANGED <<now, hash>>
  /\ \A b \in Hashes \ {s.tm} : OwedExpire(b) => OwedExpire(b)'

(* No object is constructed in the future.                                 *)
NotFromFuture == \A c \in Clients : client[c].current <= now

(* What a call keeps from one command to the next: the object's time and   *)
(* field, and the method.                                                  *)
SameCall(k, l) ==
  /\ k.current = l.current /\ k.field = l.field
  /\ k.pc # "idle" /\ l.pc # "idle"
  /\ k.pc = "hdel" <=> l.pc = "hdel"
  /\ k.pc \in {"hget", "answer"} <=> l.pc \in {"hget", "answer"}

(* A step of one object is nothing to the others.                          *)
LEMMA OneCall ==
  ASSUME TypeOK, NEW c \in Clients, NEW k, client' = [client EXCEPT ![c] = k]
  PROVE  client'[c] = k /\ \A d \in Clients \ {c} : client'[d] = client[d]
<1>1. client = [d \in Clients |-> client[d]]
  BY DEF TypeOK
<1> QED
  BY <1>1

(* A step of a call that is under way is the object's own; it goes on with *)
(* the call, or ends it.                                                   *)
LEMMA CallGoesOn ==
  ASSUME TypeOK, NEW c \in Clients,
         Look(c) \/ Return(c) \/ Delete(c) \/ Save(c) \/ Expire(c) \/ Crash(c)
  PROVE  /\ now' = now
         /\ client'[c] = Idle \/ SameCall(client'[c], client[c])
         /\ \A d \in Clients \ {c} : client'[d] = client[d]
<1> USE DEF TypeOK, Calls
<1>1. CASE Look(c)
  <2> DEFINE k == client[c]
             e == hash[query_name(k.current, k.at)][k.field]
             new == IF e # NULL /\ e.tm > k.current
                    THEN [k EXCEPT !.pc = "answer", !.value = e.val]
                    ELSE IF k.at < 3 THEN [k EXCEPT !.at = k.at + 1]
                    ELSE [k EXCEPT !.pc = "answer"]
  <2>1. client' = [client EXCEPT ![c] = new] /\ now' = now /\ k.pc = "hget"
    BY <1>1 DEF Look, Looking
  <2> HIDE DEF e
  <2>2. SameCall(new, client[c])
    BY <2>1 DEF SameCall
  <2> HIDE DEF new
  <2> QED
    BY <2>1, <2>2, OneCall
<1>2. CASE Delete(c)
  <2> DEFINE k == client[c]
             new == IF k.at < 3 THEN [k EXCEPT !.at = k.at + 1]
                    ELSE IF k.pc = "clear" THEN [k EXCEPT !.pc = "hset"]
                    ELSE Idle
  <2>1. client' = [client EXCEPT ![c] = new] /\ now' = now /\ k.pc \in {"hdel", "clear"}
    BY <1>2 DEF Delete
  <2>2. new = Idle \/ SameCall(new, client[c])
    BY <2>1 DEF SameCall
  <2> HIDE DEF new
  <2> QED
    BY <2>1, <2>2, OneCall
<1>3. CASE Save(c)
  <2>1. client' = [client EXCEPT ![c] = [client[c] EXCEPT !.pc = "expire"]] /\ now' = now
        /\ client[c].pc = "hset"
    BY <1>3 DEF Save
  <2>2. SameCall([client[c] EXCEPT !.pc = "expire"], client[c])
    BY <2>1 DEF SameCall
  <2> QED
    BY <2>1, <2>2, OneCall
<1>4. CASE Return(c) \/ Expire(c) \/ Crash(c)
  <2>1. client' = [client EXCEPT ![c] = Idle] /\ now' = now
    BY <1>4 DEF Return, Expire, Crash
  <2> QED
    BY <2>1, OneCall
<1> QED
  BY <1>1, <1>2, <1>3, <1>4

(* Every step keeps objects out of the future.                             *)
LEMMA NotFromFutureStep ==
  ASSUME TypeOK, NotFromFuture, [Next]_vars
  PROVE  NotFromFuture'
<1> USE DEF TypeOK, NotFromFuture
<1>0. Readers \subseteq Clients /\ Writers \subseteq Clients /\ now \in Nat
  BY ConstantsAssumption DEF Clients
<1>1. ASSUME NEW c \in Clients, NEW pc, NEW f, NEW v, NEW t \in 0..now, Call(c, pc, f, v, t)
      PROVE  NotFromFuture'
  BY <1>0, <1>1 DEF Call
<1>2. ASSUME NEW c \in Clients,
             Look(c) \/ Return(c) \/ Delete(c) \/ Save(c) \/ Expire(c) \/ Crash(c)
      PROVE  NotFromFuture'
  <2>1. now' = now /\ client'[c].current \in {client[c].current, 0}
    BY <1>2, CallGoesOn DEF SameCall, Idle
  <2>2. \A d \in Clients \ {c} : client'[d] = client[d]
    BY <1>2, CallGoesOn
  <2>3. client'[c].current <= now
    BY <1>0, <2>1
  <2> QED
    BY <2>1, <2>2, <2>3
<1>3. ASSUME Tick
      PROVE  NotFromFuture'
  BY <1>0, <1>3 DEF Tick, Calls
<1>4. CASE UNCHANGED vars
  BY <1>4 DEF vars
<1> QED
  BY <1>0, <1>1, <1>2, <1>3, <1>4 DEF Next, Hget, Hset, Hdel

(* Every step adds an entry, prolongs a hash, or does neither.             *)
LEMMA Effects ==
  ASSUME TypeOK, NotFromFuture, [Next]_vars
  PROVE  NothingAdded \/ \E c \in Writers : Added(c) \/ Prolonged(c)
<1> USE DEF TypeOK
<1>0. Readers \subseteq Clients /\ Writers \subseteq Clients /\ now \in Nat
  BY ConstantsAssumption DEF Clients
<1>1. ASSUME NEW c \in Clients, NEW pc, NEW f, NEW v, NEW t \in 0..now, Call(c, pc, f, v, t)
      PROVE  NothingAdded
  <2>1. /\ client[c].pc # "expire"
        /\ client' = [client EXCEPT ![c] =
             [pc |-> pc, current |-> t, field |-> f, value |-> v, at |-> 1]]
        /\ UNCHANGED <<now, hash, dies, lost>>
    BY <1>1 DEF Call, Idle
  <2>2. \A b \in Hashes : OwedExpire(b) => OwedExpire(b)'
    BY <2>1, OwedKept
  <2> QED
    BY <2>1, <2>2 DEF NothingAdded
<1>2. ASSUME NEW c \in Clients, Look(c) \/ Return(c)
      PROVE  NothingAdded
  <2>1. /\ client[c].pc # "expire"
        /\ UNCHANGED <<now, hash, dies, lost>>
        /\ \E k : client' = [client EXCEPT ![c] = k]
    BY <1>2 DEF Look, Looking, Return
  <2>2. \A b \in Hashes : OwedExpire(b) => OwedExpire(b)'
    BY <2>1, OwedKept
  <2> QED
    BY <2>1, <2>2 DEF NothingAdded
<1>3. ASSUME NEW c \in Clients, Delete(c)
      PROVE  NothingAdded
  <2> DEFINE b == query_name(client[c].current, client[c].at)
             fields == [hash[b] EXCEPT ![client[c].field] = NULL]
  <2>1. /\ client[c].pc # "expire"
        /\ hash' = [hash EXCEPT ![b] = fields]
        /\ dies' = [dies EXCEPT ![b] = IF fields = NoFields THEN NULL ELSE dies[b]]
        /\ lost' = IF fields = NoFields THEN lost \ {b} ELSE lost
        /\ \E k : client' = [client EXCEPT ![c] = k]
        /\ now' = now
    BY <1>3 DEF Delete
  <2>2. b \in Hashes
    BY QueriedHash DEF Calls
  <2>3. \A f \in Fields : fields[f] \in {hash[b][f], NULL}
    BY <2>2
  <2> HIDE DEF b, fields
  <2>4. ASSUME NEW d \in Hashes, OwedExpire(d)
        PROVE  OwedExpire(d)' \/ hash'[d] = NoFields
    <3>1. CASE d = b /\ fields = NoFields
      BY <2>1, <2>2, <3>1
    <3>2. CASE ~(d = b /\ fields = NoFields)
      <4>1. d \in lost => d \in lost'
        BY <2>1, <3>2
      <4> QED
        BY <2>1, <2>4, <4>1, OwedKept
    <3> QED
      BY <3>1, <3>2
  <2>5. ASSUME NEW d \in Hashes
        PROVE  /\ \A f \in Fields : hash'[d][f] \in {hash[d][f], NULL}
               /\ dies'[d] \in {dies[d], NULL}
               /\ dies'[d] = dies[d] \/ hash'[d] = NoFields
    BY <2>1, <2>2, <2>3
  <2> QED
    BY <2>1, <2>4, <2>5 DEF NothingAdded
<1>4. ASSUME NEW c \in Writers, Save(c)
      PROVE  Added(c)
  <2> DEFINE k == client[c]
             b == get_save_tm(k.current).tm
  <2>0. c \in Clients /\ k \in Calls
    BY <1>0
  <2>1. /\ k.pc = "hset"
        /\ client' = [client EXCEPT ![c] = [k EXCEPT !.pc = "expire"]]
        /\ UNCHANGED <<now, dies, lost>>
    BY <1>4 DEF Save
  <2>2. b \in Hashes /\ k.current \in 0..now
    BY <1>0, <2>0, SavedInHash DEF Calls, NotFromFuture
  <2>3. hash' = [hash EXCEPT ![b] = [hash[b] EXCEPT ![k.field] =
                  [val |-> k.value, tm |-> k.current + Expired]]]
    BY <1>4, <2>0, <2>2 DEF Save
  <2>4. \A d \in Hashes : OwedExpire(d) => OwedExpire(d)'
    BY <2>0, <2>1, OwedKept
  <2>5. client'[c].pc = "expire" /\ client'[c].current = k.current
    BY <2>0, <2>1 DEF Calls
  <2>6. \A d \in Hashes : d = b => OwedExpire(d)'
    BY <2>5 DEF OwedExpire
  <2>7. k.field \in Fields
    BY <2>0, <2>1
  <2> QED
    BY <2>1, <2>2, <2>3, <2>4, <2>6, <2>7 DEF Added
<1>5. ASSUME NEW c \in Writers, Expire(c)
      PROVE  Prolonged(c)
  <2> DEFINE s == get_save_tm(client[c].current)
  <2>0. c \in Clients
    BY <1>0
  <2>1. /\ dies' = [dies EXCEPT ![s.tm] = IF Exists(s.tm) THEN now + s.timeout ELSE dies[s.tm]]
        /\ client' = [client EXCEPT ![c] = Idle]
        /\ lost' = lost \ {s.tm}
        /\ UNCHANGED <<now, hash>>
    BY <1>5 DEF Expire
  <2>2. client[c].current \in 0..now
    BY <1>0, <2>0 DEF Calls, NotFromFuture
  <2>3. \A b \in Hashes \ {s.tm} : OwedExpire(b) => OwedExpire(b)'
    BY <2>0, <2>1, OwedLeft
  <2> QED
    BY <2>1, <2>2, <2>3 DEF Prolonged
<1>6. ASSUME Tick
      PROVE  NothingAdded
  <2> DEFINE gone == { b \in Hashes : dies[b] = now + 1 }
  <2>1. /\ hash' = [b \in Hashes |-> IF b \in gone THEN NoFields ELSE hash[b]]
        /\ dies' = [b \in Hashes |-> IF b \in gone THEN NULL ELSE dies[b]]
        /\ lost' = lost \ gone
        /\ UNCHANGED client
        /\ now' = now + 1
    BY <1>6 DEF Tick
  <2> HIDE DEF gone
  <2> QED
    BY <2>1 DEF NothingAdded, OwedExpire, NoFields
<1>7. ASSUME NEW c \in Clients, Crash(c)
      PROVE  NothingAdded
  <2> DEFINE b == get_save_tm(client[c].current).tm
  <2>1. /\ client' = [client EXCEPT ![c] = Idle]
        /\ UNCHANGED <<now, hash, dies>>
        /\ lost \subseteq lost'
        /\ client[c].pc = "expire" => b \in lost'
    BY <1>7 DEF Crash
  <2>2. CASE client[c].pc = "expire"
    <3>1. \A d \in Hashes : OwedExpire(d) => OwedExpire(d)'
      <4>1. \A d \in Hashes : d = b => OwedExpire(d)'
        BY <2>1, <2>2 DEF OwedExpire
      <4>2. ASSUME NEW d \in Hashes, d # b, OwedExpire(d)
            PROVE  OwedExpire(d)'
        <5>1. d \in lost => d \in lost'
          BY <2>1
        <5> QED
          BY <2>1, <4>2, <5>1, OwedLeft
      <4> QED
        BY <4>1, <4>2
    <3> QED
      BY <2>1, <3>1 DEF NothingAdded
  <2>3. CASE client[c].pc # "expire"
    <3>1. \A d \in Hashes : OwedExpire(d) => OwedExpire(d)'
      BY <2>1, <2>3, OwedKept
    <3> QED
      BY <2>1, <3>1 DEF NothingAdded
  <2> QED
    BY <2>2, <2>3
<1>8. CASE UNCHANGED vars
  BY <1>8 DEF vars, NothingAdded, OwedExpire
<1> QED
  BY <1>0, <1>1, <1>2, <1>3, <1>4, <1>5, <1>6, <1>7, <1>8 DEF Next, Hget, Hset, Hdel

(* The invariant that no hash stays for ever is inductive.                 *)
LEMMA HashesDieStep ==
  ASSUME TypeOK, NotFromFuture, EveryHashDies, [Next]_vars
  PROVE  EveryHashDies'
<1> SUFFICES ASSUME NEW b \in Hashes, NEW f \in Fields,
                    hash'[b][f] # NULL, dies'[b] = NULL
             PROVE  OwedExpire(b)'
  BY DEF EveryHashDies, Exists, OwedExpire
<1>1. hash[b][f] # NULL /\ dies[b] = NULL => OwedExpire(b)
  BY DEF EveryHashDies, Exists, OwedExpire
<1>2. CASE NothingAdded
  BY <1>1, <1>2 DEF NothingAdded, NoFields
<1>3. ASSUME NEW c \in Writers, Added(c)
      PROVE  OwedExpire(b)'
  BY <1>1, <1>3 DEF Added, TypeOK
<1>4. ASSUME NEW c \in Writers, Prolonged(c)
      PROVE  OwedExpire(b)'
  <2> DEFINE s == get_save_tm(client[c].current)
  <2>1. hash[b][f] # NULL
    BY <1>4 DEF Prolonged
  <2>2. c \in Clients /\ client[c].current \in 0..MaxTime
    BY DEF Clients, TypeOK, Calls
  <2>3. now + s.timeout \in Nat /\ NULL \notin Nat
    BY <2>2, SavedInHash, ConstantsAssumption DEF TypeOK
  <2>4. b # s.tm
    BY <1>4, <2>1, <2>3 DEF Prolonged, Exists, TypeOK
  <2>5. dies[b] = NULL
    BY <1>4, <2>4 DEF Prolonged, TypeOK
  <2> QED
    BY <1>1, <1>4, <2>1, <2>4, <2>5 DEF Prolonged
<1> QED
  BY <1>2, <1>3, <1>4, Effects

(* The calls and the hashes begin empty.                                   *)
LEMMA HashesDieInit == Init => NotFromFuture /\ EveryHashDies
  BY DEF Init, NotFromFuture, EveryHashDies, Exists, NoFields, Idle

(* No hash stays in Redis for ever: the EXPIRE of every one is done or on  *)
(* its way, unless a crash prevented it, whatever the number of objects    *)
(* that write at the same time and whatever the expiry is.                 *)
THEOREM HashesDie == Spec => []EveryHashDies
<1>1. TypeOK /\ NotFromFuture /\ EveryHashDies /\ [Next]_vars
        => NotFromFuture' /\ EveryHashDies'
  BY NotFromFutureStep, HashesDieStep
<1> QED
  BY <1>1, HashesDieInit, TypeCorrect, PTL DEF Spec

-----------------------------------------------------------------------------
(* Fields are kept until they expire.                                      *)

(* With whole minutes, an entry is always saved in the next window.        *)
LEMMA SavedInNext ==
  ASSUME WholeMinutes, NEW t \in Nat
  PROVE  /\ get_save_tm(t).tm = get_cur_hash_name(t) + retval
         /\ get_save_tm(t).timeout = retval + 1
<1>1. /\ retval = Expired
      /\ retval \in Int
      /\ get_cur_hash_name(t) \in Int
  BY NotRounded, RetvalPositive, InWindow
<1>2. Expired + get_cur_hash_name(t) >= get_cur_hash_name(t) + retval
  BY <1>1
<1> QED
  BY <1>2 DEF get_save_tm

(* Until a window's length has passed, this window or the next contains    *)
(* the moment.                                                             *)
LEMMA NextWindow ==
  ASSUME NEW t \in Nat, NEW n \in Nat, t <= n, n <= t + retval
  PROVE  \/ get_cur_hash_name(n) = get_cur_hash_name(t)
         \/ get_cur_hash_name(n) = get_cur_hash_name(t) + retval
<1> DEFINE p == t \div retval
           q == n \div retval
<1>1. p \in Int /\ q \in Int /\ p <= q /\ retval \in Nat \ {0}
  BY RetvalPositive, DivMod, DivUp
<1>2. (t + retval) \div retval = p + 1
  BY <1>1
<1>3. q <= p + 1
  BY <1>1, <1>2, DivUp
<1>4. q = p \/ q = p + 1
  BY <1>1, <1>3
<1>5. get_cur_hash_name(t) = retval * p /\ get_cur_hash_name(n) = retval * q
  BY InWindow
<1> HIDE DEF p, q
<1>6. retval * (p + 1) = retval * p + retval
  BY <1>1
<1> QED
  BY <1>4, <1>5, <1>6

(* An entry is in the hash its time names.                                 *)
EntriesNamed ==
  \A b \in Hashes, f \in Fields :
    hash[b][f] # NULL =>
      \E t \in 0..now : hash[b][f].tm = t + Expired /\ b = get_save_tm(t).tm

(* A hash outlives the window before its own, which its entries come from. *)
DiesLate == \A b \in Hashes : dies[b] # NULL => dies[b] > b

(* A hash that is dropped before an entry of it expires gets a new time to *)
(* live first.                                                             *)
ShortIsOwed ==
  \A b \in Hashes, f \in Fields :
    hash[b][f] # NULL /\ dies[b] # NULL /\ dies[b] < hash[b][f].tm => OwedExpire(b)

(* The inductive invariant.  What is wanted, KeptUntilExpired, says neither*)
(* where an entry comes from nor how late a hash can die.                  *)
KeptInv ==
  /\ WholeMinutes /\ MaxDelay <= 1
  /\ TypeOK
  /\ NotFromFuture
  /\ EntriesNamed
  /\ DiesLate
  /\ ShortIsOwed

(* Every step keeps entries where their times say.                         *)
LEMMA EntriesNamedStep == KeptInv /\ [Next]_vars => EntriesNamed'
<1> SUFFICES ASSUME KeptInv, [Next]_vars,
                    NEW b \in Hashes, NEW f \in Fields, hash'[b][f] # NULL
             PROVE  \E t \in 0..now' : hash'[b][f].tm = t + Expired /\ b = get_save_tm(t).tm
  BY DEF EntriesNamed
<1> USE DEF KeptInv
<1>0. now \in Nat
  BY ConstantsAssumption DEF TypeOK
<1>1. CASE NothingAdded
  <2>1. hash'[b][f] = hash[b][f] /\ now' \in {now, now + 1}
    BY <1>1 DEF NothingAdded
  <2>2. PICK t \in 0..now : hash[b][f].tm = t + Expired /\ b = get_save_tm(t).tm
    BY <2>1 DEF EntriesNamed
  <2> QED
    BY <1>0, <2>1, <2>2
<1>2. ASSUME NEW c \in Writers, Added(c)
      PROVE  \E t \in 0..now' : hash'[b][f].tm = t + Expired /\ b = get_save_tm(t).tm
  <2> DEFINE k == client[c]
             d == get_save_tm(k.current).tm
             e == [val |-> k.value, tm |-> k.current + Expired]
  <2>1. /\ hash' = [hash EXCEPT ![d] = [hash[d] EXCEPT ![k.field] = e]]
        /\ now' = now /\ k.current \in 0..now
    BY <1>2 DEF Added
  <2>2. CASE b = d /\ f = k.field
    <3>1. hash'[b][f] = e
      <4> HIDE DEF d, e
      <4> QED
        BY <2>1, <2>2 DEF TypeOK
    <3>2. hash'[b][f].tm = k.current + Expired
      BY <3>1
    <3> QED
      BY <2>1, <2>2, <3>2
  <2>3. CASE ~(b = d /\ f = k.field)
    <3>1. hash'[b][f] = hash[b][f]
      <4> HIDE DEF d, e
      <4> QED
        BY <2>1, <2>3 DEF TypeOK
    <3>2. \E t \in 0..now : hash[b][f].tm = t + Expired /\ b = get_save_tm(t).tm
      BY <3>1 DEF EntriesNamed
    <3> QED
      BY <2>1, <3>1, <3>2
  <2> QED
    BY <2>2, <2>3
<1>3. ASSUME NEW c \in Writers, Prolonged(c)
      PROVE  \E t \in 0..now' : hash'[b][f].tm = t + Expired /\ b = get_save_tm(t).tm
  BY <1>3 DEF Prolonged, EntriesNamed
<1> QED
  BY <1>1, <1>2, <1>3, Effects

(* Until when an EXPIRE keeps its hash: past every time named after it.    *)
LEMMA ProlongedEnough ==
  ASSUME KeptInv, NEW c \in Writers, Prolonged(c), NEW t \in 0..now,
         get_save_tm(t).tm = get_save_tm(client[c].current).tm
  PROVE  LET s == get_save_tm(client[c].current) IN
         /\ now + s.timeout \in Nat
         /\ now + s.timeout > s.tm
         /\ now + s.timeout > t + Expired
<1> USE DEF KeptInv
<1> DEFINE u == client[c].current
           s == get_save_tm(u)
<1>1. u \in 0..now /\ u \in Nat /\ now \in Nat /\ t \in Nat
  BY ConstantsAssumption DEF Prolonged, TypeOK
<1>2. s.tm = get_cur_hash_name(u) + retval /\ s.timeout = retval + 1
  BY <1>1, SavedInNext
<1>3. /\ get_cur_hash_name(u) \in Int
      /\ get_cur_hash_name(u) <= u
      /\ retval \in Nat \ {0}
      /\ retval = Expired
  BY <1>1, InWindow, RetvalPositive, NotRounded
<1> HIDE DEF u, s
<1>4. /\ now + s.timeout \in Nat
      /\ now + s.timeout > s.tm
      /\ now + s.timeout > t + Expired
  BY <1>1, <1>2, <1>3
<1> QED
  BY <1>4 DEF u, s

(* No step makes a hash die before the window it is named after.           *)
LEMMA DiesLateStep == KeptInv /\ [Next]_vars => DiesLate'
<1> SUFFICES ASSUME KeptInv, [Next]_vars, NEW b \in Hashes, dies'[b] # NULL
             PROVE  dies'[b] > b
  BY DEF DiesLate
<1> USE DEF KeptInv
<1>1. CASE NothingAdded
  BY <1>1 DEF NothingAdded, DiesLate
<1>2. ASSUME NEW c \in Writers, Added(c)
      PROVE  dies'[b] > b
  BY <1>2 DEF Added, DiesLate
<1>3. ASSUME NEW c \in Writers, Prolonged(c)
      PROVE  dies'[b] > b
  <2> DEFINE s == get_save_tm(client[c].current)
  <2>1. client[c].current \in 0..now
    BY <1>3 DEF Prolonged
  <2>2. now + s.timeout > s.tm
    BY <1>3, <2>1, ProlongedEnough
  <2>3. dies' = [dies EXCEPT ![s.tm] = IF Exists(s.tm) THEN now + s.timeout ELSE dies[s.tm]]
    BY <1>3 DEF Prolonged
  <2> HIDE DEF s
  <2> QED
    BY <2>2, <2>3 DEF DiesLate, TypeOK
<1> QED
  BY <1>1, <1>2, <1>3, Effects

(* A hash that dies too early stays owed its EXPIRE.                       *)
LEMMA ShortIsOwedStep == KeptInv /\ [Next]_vars => ShortIsOwed'
<1> SUFFICES ASSUME KeptInv, [Next]_vars, NEW b \in Hashes, NEW f \in Fields,
                    hash'[b][f] # NULL, dies'[b] # NULL, dies'[b] < hash'[b][f].tm
             PROVE  OwedExpire(b)'
  BY DEF ShortIsOwed
<1> USE DEF KeptInv
<1>1. hash[b][f] # NULL /\ dies[b] # NULL /\ dies[b] < hash[b][f].tm => OwedExpire(b)
  BY DEF ShortIsOwed
<1>2. CASE NothingAdded
  BY <1>1, <1>2 DEF NothingAdded, NoFields
<1>3. ASSUME NEW c \in Writers, Added(c)
      PROVE  OwedExpire(b)'
  BY <1>1, <1>3 DEF Added, TypeOK
<1>4. ASSUME NEW c \in Writers, Prolonged(c)
      PROVE  OwedExpire(b)'
  <2> DEFINE s == get_save_tm(client[c].current)
  <2>1. hash'[b][f] = hash[b][f]
    BY <1>4 DEF Prolonged
  <2>2. PICK t \in 0..now : hash[b][f].tm = t + Expired /\ b = get_save_tm(t).tm
    BY <2>1 DEF EntriesNamed
  <2>3. dies' = [dies EXCEPT ![s.tm] = IF Exists(s.tm) THEN now + s.timeout ELSE dies[s.tm]]
    BY <1>4 DEF Prolonged
  <2>4. b # s.tm
    <3> SUFFICES ASSUME b = s.tm PROVE FALSE
      OBVIOUS
    <3>1. now + s.timeout > t + Expired /\ now + s.timeout \in Nat
      BY <1>4, <2>2, ProlongedEnough
    <3>2. dies'[b] = now + s.timeout
      BY <2>1, <2>3 DEF Exists, TypeOK
    <3>3. t + Expired \in Nat
      BY ConstantsAssumption DEF TypeOK
    <3> HIDE DEF s
    <3> QED
      BY <2>1, <2>2, <3>1, <3>2, <3>3
  <2>5. dies'[b] = dies[b]
    BY <2>3, <2>4 DEF TypeOK
  <2> QED
    BY <1>1, <1>4, <2>1, <2>4, <2>5 DEF Prolonged
<1> QED
  BY <1>2, <1>3, <1>4, Effects

(* The invariant holds initially.                                          *)
LEMMA KeptInit == WholeMinutes /\ MaxDelay <= 1 /\ Init => KeptInv
  BY TypeInit, HashesDieInit
  DEF KeptInv, Init, EntriesNamed, DiesLate, ShortIsOwed, NoFields

(* Every step keeps the invariant.                                         *)
LEMMA KeptStep == KeptInv /\ [Next]_vars => KeptInv'
  BY TypeStep, NotFromFutureStep, EntriesNamedStep, DiesLateStep, ShortIsOwedStep
  DEF KeptInv, WholeMinutes

(* The invariant says what is wanted: an unexpired entry is in one of the  *)
(* three hashes of the present, and a hash that dies too early is waiting  *)
(* for an EXPIRE that comes first.                                         *)
LEMMA KeptFollows == KeptInv => KeptUntilExpired
<1> SUFFICES ASSUME KeptInv, NEW b \in Hashes, NEW f \in Fields,
                    hash[b][f] # NULL, hash[b][f].tm > now
             PROVE  /\ \E i \in 1..3 : query_name(now, i) = b
                    /\ dies[b] # NULL /\ dies[b] < hash[b][f].tm =>
                         \/ b \in lost
                         \/ \E c \in Writers :
                              /\ client[c].pc = "expire"
                              /\ get_save_tm(client[c].current).tm = b
                              /\ dies[b] > client[c].current + MaxDelay
  BY DEF KeptUntilExpired
<1> USE DEF KeptInv
<1>0. /\ now \in Nat
      /\ retval = Expired
      /\ retval \in Nat \ {0}
      /\ MaxDelay \in {0, 1}
  BY ConstantsAssumption, NotRounded, RetvalPositive DEF TypeOK
<1>1. \E i \in 1..3 : query_name(now, i) = b
  <2>1. PICK t \in 0..now : hash[b][f].tm = t + Expired /\ b = get_save_tm(t).tm
    BY DEF EntriesNamed
  <2>2. t \in Nat /\ t <= now /\ now <= t + retval
    BY <1>0, <2>1
  <2>3. /\ b = get_cur_hash_name(t) + retval
        /\ get_save_tm(now).tm = get_cur_hash_name(now) + retval
    BY <1>0, <2>1, <2>2, SavedInNext
  <2>4. \/ get_cur_hash_name(now) = get_cur_hash_name(t)
        \/ get_cur_hash_name(now) = get_cur_hash_name(t) + retval
    BY <1>0, <2>2, NextWindow
  <2>5. get_cur_hash_name(now) \in Int /\ get_cur_hash_name(t) \in Int
    BY <1>0, <2>2, InWindow
  <2>6. query_name(now, 1) = get_cur_hash_name(now)
    BY <1>0, <2>3, <2>5 DEF query_name
  <2>7. query_name(now, 2) = get_cur_hash_name(now) + retval
    BY <1>0, <2>3, <2>5 DEF query_name
  <2> QED
    BY <2>3, <2>4, <2>6, <2>7
<1>2. ASSUME dies[b] # NULL, dies[b] < hash[b][f].tm
      PROVE  \/ b \in lost
             \/ \E c \in Writers :
                  /\ client[c].pc = "expire"
                  /\ get_save_tm(client[c].current).tm = b
                  /\ dies[b] > client[c].current + MaxDelay
  <2>1. CASE b \in lost
    BY <2>1
  <2>2. CASE b \notin lost
    <3>1. PICK c \in Writers : /\ client[c].pc = "expire"
                              /\ get_save_tm(client[c].current).tm = b
      BY <1>2, <2>2 DEF ShortIsOwed, OwedExpire
    <3> DEFINE u == client[c].current
    <3>2. u \in Nat
      BY ConstantsAssumption DEF TypeOK, Calls, Clients
    <3>3. b = get_cur_hash_name(u) + retval
      BY <3>1, <3>2, SavedInNext
    <3>4. get_cur_hash_name(u) \in Int /\ u < get_cur_hash_name(u) + retval
      BY <3>2, InWindow
    <3>5. dies[b] > b /\ dies[b] \in Nat
      BY <1>2 DEF DiesLate, TypeOK
    <3> HIDE DEF u
    <3>6. dies[b] > u + MaxDelay
      BY <1>0, <3>2, <3>3, <3>4, <3>5
    <3> QED
      BY <3>1, <3>6 DEF u
  <2> QED
    BY <2>1, <2>2
<1> QED
  BY <1>1, <1>2

(* A field given a whole number of minutes is there for all of them, in    *)
(* one of the three hashes that are looked into, however many objects set  *)
(* and delete fields of the same windows at the same time.                 *)
THEOREM FieldsKept ==
  WholeMinutes /\ MaxDelay <= 1 /\ Spec => []KeptUntilExpired
  BY KeptInit, KeptStep, KeptFollows, PTL DEF Spec

==============================================================================
