----------------------------- MODULE ExpiredHash -----------------------------
(***************************************************************************)
(* RedisExpiredHash (qx_core/storage/redis.py): a hash whose fields expire *)
(* one by one, built from Redis hashes that only expire as a whole.  The   *)
(* time line is cut into windows of retval seconds, one Redis hash to each *)
(* window; a field is saved in the hash of the next window (or of this     *)
(* one), and read from the three hashes it can be in.                      *)
(*                                                                         *)
(* An object captures the time once, when it is constructed; its methods   *)
(* send Redis commands one at a time, one command to an action, and the    *)
(* commands of other processes fall in between.                            *)
(***************************************************************************)
EXTENDS Integers

CONSTANTS
  NULL,
  Fields,
  Values,
  Readers,     \* objects on which hget is called, and objects on which hset
  Writers,     \* and hdel are; all have the same name
  Minute,      \* the granularity of a window: 60 seconds
  Expired,     \* the constructor's "expired", in seconds
  MaxDelay,    \* assumption: hget and hset have returned this many seconds
               \* after the object was constructed, at the latest
  MaxTime,     \* bound: the last second of a behaviour
  MaxFaults    \* bound: crashes in a behaviour

Clients == Readers \cup Writers

ASSUME ConstantsAssumption ==
  /\ Minute \in Nat \ {0}
  /\ Expired \in Nat \ {0}
  /\ MaxDelay \in Nat
  /\ MaxTime \in Nat
  /\ MaxFaults \in Nat
  /\ NULL \notin Values \cup Nat

-----------------------------------------------------------------------------
(* The arithmetic of windows.                                              *)

(* Expired rounded up to whole minutes.                                    *)
retval == ((Expired + Minute - 1) \div Minute) * Minute

get_cur_hash_name(current) == current - (current % retval)

(* Mutant: a lifetime of exactly one window is saved in this window.       *)
get_save_tm_strict(current) ==
  LET cur  == get_cur_hash_name(current)
      next == cur + retval IN
  IF Expired + cur > next
  THEN [tm |-> next, timeout |-> retval + 1]
  ELSE [tm |-> cur, timeout |-> next - current + 1]

(* Where a field is saved, and for how long that hash is kept.             *)
get_save_tm(current) ==
  LET cur  == get_cur_hash_name(current)
      next == cur + retval IN
  IF Expired + cur >= next
  THEN [tm |-> next, timeout |-> retval + 1]
  ELSE [tm |-> cur, timeout |-> next - current + 1]

(* _query_name: the i-th of the three hashes a field is looked for in.     *)
query_name(current, i) == get_save_tm(current).tm + (i - 2) * retval

Hashes == { retval * i : i \in -1..(MaxTime \div retval + 2) }

Entries == [val : Values, tm : 0..(MaxTime + Expired)]

-----------------------------------------------------------------------------
VARIABLES
  now,       \* the clock of the processes and of Redis, in seconds
  hash,      \* [Hashes -> [Fields -> entry or NULL]]; Redis has no empty hash
  dies,      \* [Hashes -> the second Redis drops the hash, or NULL]
  client,    \* the call each object is in
  seen,      \* history: what one undisturbed look-up could have answered
             \* since the call began
  lost,      \* history: the hashes whose EXPIRE a crash prevented
  faults

vars == <<now, hash, dies, client, seen, lost, faults>>

Exists(b) == \E f \in Fields : hash[b][f] # NULL

NoFields == [f \in Fields |-> NULL]

Idle == [pc |-> "idle", current |-> 0, field |-> NULL, value |-> NULL, at |-> 1]

(* What hget would answer an object of time t if nothing came in between.  *)
Live(f, t, i) ==
  LET e == hash[query_name(t, i)][f] IN e # NULL /\ e.tm > t

Lookup(f, t) ==
  IF \E i \in 1..3 : Live(f, t, i)
  THEN LET i == CHOOSE i \in 1..3 : Live(f, t, i) /\ \A j \in 1..(i - 1) : ~Live(f, t, j)
       IN  hash[query_name(t, i)][f]
  ELSE NULL

Answer(f, t) == IF Lookup(f, t) = NULL THEN NULL ELSE Lookup(f, t).val

Writing(c) == client[c].pc \in {"hdel", "clear", "hset", "expire"}

Looking(c) == client[c].pc = "hget"

(* The history after a step: a call that is looking sees the new state.    *)
Watch ==
  seen' = [c \in Clients |->
    IF client'[c].pc = "hget"
    THEN (IF Looking(c) THEN seen[c] ELSE {}) \cup {Answer(client[c].field, client[c].current)'}
    ELSE IF client'[c].pc = "answer" THEN seen[c] ELSE {}]

-----------------------------------------------------------------------------
Init ==
  /\ now = 0
  /\ hash = [b \in Hashes |-> NoFields]
  /\ dies = [b \in Hashes |-> NULL]
  /\ client = [c \in Clients |-> Idle]
  /\ seen = [c \in Clients |-> {}]
  /\ lost = {}
  /\ faults = 0

(* A method of an object constructed at "current" is called.  hdel may be  *)
(* called on an object of any age: del_code follows the sending of a       *)
(* message.                                                                *)
Call(c, pc, f, v, current) ==
  /\ client[c] = Idle
  /\ current \in 0..now
  /\ pc # "hdel" => now - current <= MaxDelay
  /\ client' = [client EXCEPT ![c] =
       [pc |-> pc, current |-> current, field |-> f, value |-> v, at |-> 1]]
  /\ UNCHANGED <<now, hash, dies, lost, faults>>
  /\ Watch

Hget(c, f) == \E t \in 0..now : Call(c, "hget", f, NULL, t)
Hset(c, f, v) == \E t \in 0..now : Call(c, "clear", f, v, t)
Hdel(c, f) == \E t \in 0..now : Call(c, "hdel", f, NULL, t)

(* Mutant: the entry's own time is not looked at.                          *)
LookAnyAge(c) ==
  LET k == client[c]
      e == hash[query_name(k.current, k.at)][k.field] IN
  /\ Looking(c)
  /\ client' = [client EXCEPT ![c] =
       IF e # NULL THEN [k EXCEPT !.pc = "answer", !.value = e.val]
       ELSE IF k.at < 3 THEN [k EXCEPT !.at = k.at + 1]
       ELSE [k EXCEPT !.pc = "answer"]]
  /\ UNCHANGED <<now, hash, dies, lost, faults>>
  /\ Watch

(* Mutant: a fourth hash is looked into.                                   *)
LookOnceMore(c) ==
  LET k == client[c]
      e == hash[query_name(k.current, k.at)][k.field] IN
  /\ Looking(c)
  /\ client' = [client EXCEPT ![c] =
       IF e # NULL /\ e.tm > k.current THEN [k EXCEPT !.pc = "answer", !.value = e.val]
       ELSE IF k.at <= 3 THEN [k EXCEPT !.at = k.at + 1]
       ELSE [k EXCEPT !.pc = "answer"]]
  /\ UNCHANGED <<now, hash, dies, lost, faults>>
  /\ seen' = seen

(* One HGET of hget: the first entry that is still valid is the answer.    *)
Look(c) ==
  LET k == client[c]
      e == hash[query_name(k.current, k.at)][k.field] IN
  /\ Looking(c)
  /\ client' = [client EXCEPT ![c] =
       IF e # NULL /\ e.tm > k.current THEN [k EXCEPT !.pc = "answer", !.value = e.val]
       ELSE IF k.at < 3 THEN [k EXCEPT !.at = k.at + 1]
       ELSE [k EXCEPT !.pc = "answer"]]
  /\ UNCHANGED <<now, hash, dies, lost, faults>>
  /\ Watch

(* hget returns.                                                           *)
Return(c) ==
  /\ client[c].pc = "answer"
  /\ client' = [client EXCEPT ![c] = Idle]
  /\ UNCHANGED <<now, hash, dies, lost, faults>>
  /\ Watch

(* Mutant: the last of the three hashes is not cleared.                    *)
DeleteTwo(c) ==
  LET k == client[c]
      b == query_name(k.current, k.at)
      fields == [hash[b] EXCEPT ![k.field] = NULL] IN
  /\ k.pc \in {"hdel", "clear"}
  /\ hash' = [hash EXCEPT ![b] = fields]
  /\ dies' = [dies EXCEPT ![b] = IF fields = NoFields THEN NULL ELSE @]
  /\ client' = [client EXCEPT ![c] =
       IF k.at < 2 THEN [k EXCEPT !.at = k.at + 1]
       ELSE IF k.pc = "clear" THEN [k EXCEPT !.pc = "hset"]
       ELSE Idle]
  /\ lost' = IF fields = NoFields THEN lost \ {b} ELSE lost
  /\ UNCHANGED <<now, faults>>
  /\ Watch

(* One HDEL, of hdel or of the hdel that begins hset.  Redis drops a hash, *)
(* and its time to live, with its last field.                              *)
Delete(c) ==
  LET k == client[c]
      b == query_name(k.current, k.at)
      fields == [hash[b] EXCEPT ![k.field] = NULL] IN
  /\ k.pc \in {"hdel", "clear"}
  /\ hash' = [hash EXCEPT ![b] = fields]
  /\ dies' = [dies EXCEPT ![b] = IF fields = NoFields THEN NULL ELSE @]
  /\ client' = [client EXCEPT ![c] =
       IF k.at < 3 THEN [k EXCEPT !.at = k.at + 1]
       ELSE IF k.pc = "clear" THEN [k EXCEPT !.pc = "hset"]
       ELSE Idle]
  /\ lost' = IF fields = NoFields THEN lost \ {b} ELSE lost
  /\ UNCHANGED <<now, faults>>
  /\ Watch

(* The HSET of hset.                                                       *)
Save(c) ==
  LET b == get_save_tm(client[c].current).tm IN
  /\ client[c].pc = "hset"
  /\ hash' = [hash EXCEPT ![b][client[c].field] =
       [val |-> client[c].value, tm |-> client[c].current + Expired]]
  /\ client' = [client EXCEPT ![c].pc = "expire"]
  /\ UNCHANGED <<now, dies, lost, faults>>
  /\ Watch

(* Mutant: the hash is named after the time of the EXPIRE.                 *)
ExpireAnew(c) ==
  LET s == get_save_tm(now) IN
  /\ client[c].pc = "expire"
  /\ dies' = [dies EXCEPT ![s.tm] = IF Exists(s.tm) THEN now + s.timeout ELSE @]
  /\ client' = [client EXCEPT ![c] = Idle]
  /\ lost' = lost \ {s.tm}
  /\ UNCHANGED <<now, hash, faults>>
  /\ Watch

(* The EXPIRE of hset; it does nothing to a hash that is gone.             *)
Expire(c) ==
  LET s == get_save_tm(client[c].current) IN
  /\ client[c].pc = "expire"
  /\ dies' = [dies EXCEPT ![s.tm] = IF Exists(s.tm) THEN now + s.timeout ELSE @]
  /\ client' = [client EXCEPT ![c] = Idle]
  /\ lost' = lost \ {s.tm}
  /\ UNCHANGED <<now, hash, faults>>
  /\ Watch

(* A second passes; Redis drops the hashes whose time is over.             *)
Tick ==
  LET gone == { b \in Hashes : dies[b] = now + 1 } IN
  /\ now < MaxTime
  /\ \A c \in Clients :
       client[c].pc \notin {"idle", "hdel"} => now - client[c].current < MaxDelay
  /\ now' = now + 1
  /\ hash' = [b \in Hashes |-> IF b \in gone THEN NoFields ELSE hash[b]]
  /\ dies' = [b \in Hashes |-> IF b \in gone THEN NULL ELSE dies[b]]
  /\ lost' = lost \ gone
  /\ UNCHANGED <<client, faults>>
  /\ Watch

(* The process dies between two commands.                                  *)
Crash(c) ==
  /\ faults < MaxFaults
  /\ Writing(c)
  /\ client' = [client EXCEPT ![c] = Idle]
  /\ lost' = IF client[c].pc = "expire"
             THEN lost \cup {get_save_tm(client[c].current).tm} ELSE lost
  /\ faults' = faults + 1
  /\ UNCHANGED <<now, hash, dies>>
  /\ Watch

Next ==
  \/ \E c \in Readers :
       \/ \E f \in Fields : Hget(c, f)
       \/ Look(c) \/ Return(c)
  \/ \E c \in Writers :
       \/ \E f \in Fields : Hdel(c, f) \/ \E v \in Values : Hset(c, f, v)
       \/ Delete(c) \/ Save(c) \/ Expire(c) \/ Crash(c)
  \/ Tick

Spec == Init /\ [][Next]_vars

-----------------------------------------------------------------------------
(* Properties.                                                             *)

Calls ==
  [ pc : {"idle", "hget", "answer", "hdel", "clear", "hset", "expire"},
    current : 0..MaxTime, field : Fields \cup {NULL}, value : Values \cup {NULL},
    at : 1..3 ]

(* The variables keep their types; a call knows its field, and hset its    *)
(* value.                                                                  *)
TypeOK ==
  /\ now \in 0..MaxTime
  /\ hash \in [Hashes -> [Fields -> Entries \cup {NULL}]]
  /\ dies \in [Hashes -> Nat \cup {NULL}]
  /\ client \in [Clients -> Calls]
  /\ \A c \in Clients :
       /\ client[c].pc # "idle" => client[c].field \in Fields
       /\ client[c].pc \in {"clear", "hset"} => client[c].value \in Values
  /\ seen \in [Clients -> SUBSET (Values \cup {NULL})]
  /\ lost \in SUBSET Hashes
  /\ faults \in 0..MaxFaults

(* A field is kept for the time it was given, "expired: field expire       *)
(* time": until then it stays in a hash that an hget of the present looks  *)
(* into, and Redis does not drop that hash before, unless an EXPIRE comes  *)
(* first.  An EXPIRE that a crash prevented is the exception.              *)
KeptUntilExpired ==
  \A b \in Hashes, f \in Fields :
    hash[b][f] # NULL /\ hash[b][f].tm > now =>
      /\ \E i \in 1..3 : query_name(now, i) = b
      /\ dies[b] # NULL /\ dies[b] < hash[b][f].tm =>
           \/ b \in lost
           \/ \E c \in Writers : /\ client[c].pc = "expire"
                                /\ get_save_tm(client[c].current).tm = b
                                /\ dies[b] > client[c].current + MaxDelay

(* A field that is set again has one value: hset finds nothing valid left  *)
(* when it saves, unless another object sets the field at the same time.   *)
ClearedBeforeSaved ==
  \A c \in Clients, b \in Hashes :
    client[c].pc = "hset" /\ hash[b][client[c].field] # NULL
      => hash[b][client[c].field].tm <= now

(* hget answers what a look-up in a single moment of the call would have.  *)
LooksAreAtomic ==
  \A c \in Clients : client[c].pc = "answer" => client[c].value \in seen[c]

(* No hash stays for ever, "fields are cleared with the hash they are in": *)
(* one without a time to live is about to get it, unless a crash prevented *)
(* that.                                                                   *)
EveryHashDies ==
  \A b \in Hashes :
    Exists(b) /\ dies[b] = NULL =>
      \/ b \in lost
      \/ \E c \in Writers : /\ client[c].pc = "expire"
                           /\ get_save_tm(client[c].current).tm = b

(* The hash implements a map with expiring entries.                        *)
Map == INSTANCE ExpiringMap WITH
  Lifetimes <- (Expired - MaxDelay)..Expired,
  map <- [f \in Fields |->
    IF Lookup(f, now) = NULL THEN NULL
    ELSE [val |-> Lookup(f, now).val, until |-> Lookup(f, now).tm]]

IsExpiringMap == Map!Spec
==============================================================================
