----------------------------- MODULE ModelCache -----------------------------
(***************************************************************************)
(* CacheModelMixin (qx_rest/models.py) over ProxyCache (qx_core/storage/   *)
(* caches.py): an object cached under its id and a list of objects cached  *)
(* under one of their columns.  save and delete commit first and write the *)
(* cache afterwards, one Redis command at a time; cache_get and            *)
(* cache_query fill it.  Nothing orders the calls of two processes.        *)
(***************************************************************************)
EXTENDS Integers

CONSTANTS
  NULL,
  Ids,        \* values of the field in objects_cache_fields['object']
  Groups,     \* values of the field in objects_cache_fields['query'] that give a key
  Names,      \* values of a column that is in no key
  Procs,
  MaxEvents   \* bound: saves, deletes and failures in a behaviour

ASSUME ConstantsAssumption ==
  /\ MaxEvents \in Nat
  /\ NULL \notin Groups /\ NULL \notin Names
  /\ NULL \notin [group : Groups \cup {NULL}, name : Names]
  /\ Ids \cap Groups = {}

(* A group NULL stands for every value without a key: falsy, or too long.  *)
Rows == [group : Groups \cup {NULL}, name : Names]
Lists == SUBSET (Ids \X Rows)
Keys == Ids \cup Groups

VARIABLES
  row,        \* [Ids -> row, or NULL: no such row]
  object,     \* [Ids -> the cached row or NULL]
  list,       \* [Groups -> the cached list; {}: none, an empty one is not cached]
  call,       \* what each process is doing
  events,
  behind,     \* history: processes that hold what is no longer so
  overtaken,  \* history: keys written by a process that was behind
  missed,     \* history: keys that a write changed and did not write
  partial     \* history: lists filled by a query with more conditions

history == <<behind, overtaken, missed, partial>>
vars == <<row, object, list, call, events, history>>

Idle == [pc |-> "idle", key |-> NULL, ins |-> NULL, want |-> NULL]

Has(i, ins) == [pc |-> "has", key |-> i, ins |-> ins, want |-> NULL]

Goes(p, k) == call' = [call EXCEPT ![p] = k]

(* The keyword arguments: a further condition on the name, or none.        *)
Matches(r, want) == want = NULL \/ r.name = want

Members(g, want) ==
  { <<i, row[i]>> : i \in { j \in Ids : /\ row[j] # NULL
                                        /\ row[j].group = g
                                        /\ Matches(row[j], want) } }

Init ==
  /\ row \in [Ids -> Rows \cup {NULL}]
  /\ object = [i \in Ids |-> NULL]
  /\ list = [g \in Groups |-> {}]
  /\ call = [p \in Procs |-> Idle]
  /\ events = 0
  /\ behind = {} /\ overtaken = {} /\ missed = {} /\ partial = {}

-----------------------------------------------------------------------------
(* An instance read with the ORM, kept for as long as the caller likes.    *)
Fetch(p, i) ==
  /\ call[p] = Idle /\ row[i] # NULL
  /\ Goes(p, Has(i, row[i]))
  /\ UNCHANGED <<row, object, list, events, history>>

Forget(p) ==
  /\ call[p].pc = "has"
  /\ Goes(p, Idle)
  /\ behind' = behind \ {p}
  /\ UNCHANGED <<row, object, list, events, overtaken, missed, partial>>

(* cache_get: the GET.  A hit that does not match raises DoesNotExist.     *)
Get(p, i, want) ==
  /\ call[p] = Idle
  /\ \/ /\ object[i] = NULL
        /\ Goes(p, [pc |-> "look", key |-> i, ins |-> NULL, want |-> want])
        /\ UNCHANGED behind
     \/ /\ object[i] # NULL /\ Matches(object[i], want)
        /\ Goes(p, Has(i, object[i]))
        /\ behind' = IF object[i] = row[i] THEN behind ELSE behind \cup {p}
  /\ UNCHANGED <<row, object, list, events, overtaken, missed, partial>>

(* objects.get of all of them raises DoesNotExist, and nothing is cached.  *)
Look(p) ==
  LET i == call[p].key IN
  /\ call[p].pc = "look"
  /\ Goes(p, IF row[i] # NULL /\ Matches(row[i], call[p].want)
             THEN [pc |-> "keep", key |-> i, ins |-> row[i], want |-> NULL]
             ELSE Idle)
  /\ UNCHANGED <<row, object, list, events, history>>

(* p writes what it knows under a key.                                     *)
Written(p, key) ==
  /\ overtaken' = IF p \in behind THEN overtaken \cup {key} ELSE overtaken \ {key}
  /\ missed' = missed \ {key}

(* The SET of get_or_cache.                                                *)
Keep(p) ==
  LET i == call[p].key IN
  /\ call[p].pc = "keep"
  /\ object' = [object EXCEPT ![i] = call[p].ins]
  /\ Goes(p, Has(i, call[p].ins))
  /\ Written(p, i)
  /\ UNCHANGED <<row, list, events, behind, partial>>

(* cache_query: the GET.  A hit is filtered by every condition, and the    *)
(* caller may go on with one of the instances.                             *)
Query(p, g, want) ==
  /\ call[p] = Idle
  /\ \/ /\ list[g] = {}
        /\ Goes(p, [pc |-> "filter", key |-> g, ins |-> NULL, want |-> want])
        /\ UNCHANGED behind
     \/ /\ \E m \in list[g] :
             /\ Matches(m[2], want)
             /\ Goes(p, Has(m[1], m[2]))
             /\ behind' = IF m[2] = row[m[1]] THEN behind ELSE behind \cup {p}
  /\ UNCHANGED <<row, object, list, events, overtaken, missed, partial>>

(* objects.filter of all of them: an empty list is not cached.            *)
Filter(p) ==
  LET found == Members(call[p].key, call[p].want) IN
  /\ call[p].pc = "filter"
  /\ Goes(p, IF found = {} THEN Idle ELSE [call[p] EXCEPT !.pc = "store", !.ins = found])
  /\ UNCHANGED <<row, object, list, events, history>>

(* The SET of the list, filtered or not, under the key of the group.       *)
Store(p) ==
  LET g == call[p].key IN
  /\ call[p].pc = "store"
  /\ list' = [list EXCEPT ![g] = call[p].ins]
  /\ Goes(p, Idle)
  /\ Written(p, g)
  /\ partial' = IF call[p].want = NULL THEN partial \ {g} ELSE partial \cup {g}
  /\ behind' = behind \ {p}
  /\ UNCHANGED <<row, object, events>>

-----------------------------------------------------------------------------
(* The groups whose list is other when row i becomes new.                  *)
Touched(i, new) ==
  IF new = row[i] THEN {} ELSE { r.group : r \in {row[i], new} \ {NULL} } \ {NULL}

(* Row i becomes new: who holds the row, or a list that it is or was in,   *)
(* is behind.  The call goes on to write the key of its own instance only. *)
Commit(p, i, new, ins) ==
  /\ events < MaxEvents /\ events' = events + 1
  /\ row' = [row EXCEPT ![i] = new]
  /\ behind' = (IF new \in {ins, NULL} THEN behind \ {p} ELSE behind \cup {p})
       \cup { q \in Procs \ {p} :
                \/ call[q].pc \in {"has", "keep", "set", "clear"} /\ call[q].key = i /\ new # row[i]
                \/ call[q].pc = "store" /\ call[q].key \in Touched(i, new) }
  /\ missed' = missed \cup (Touched(i, new) \ {ins.group})
  /\ UNCHANGED <<object, list, overtaken, partial>>

(* objects.create, with an id that nothing knows yet.                      *)
Create(p, i, ins) ==
  /\ call[p] = Idle /\ row[i] = NULL
  /\ object[i] = NULL
  /\ \A q \in Procs : call[q].key # i
  /\ \A g \in Groups : \A m \in list[g] : m[1] # i
  /\ Commit(p, i, ins, ins)
  /\ Goes(p, [pc |-> "set", key |-> i, ins |-> ins, want |-> NULL])

(* save() of a changed instance: every column, inserted again when the row *)
(* was deleted.                                                            *)
Save(p, ins) ==
  /\ call[p].pc = "has"
  /\ Commit(p, call[p].key, ins, ins)
  /\ Goes(p, [call[p] EXCEPT !.pc = "set", !.ins = ins])

(* save(update_fields=['name']): a DatabaseError where there is no row.    *)
SaveName(p, ins) ==
  LET i == call[p].key IN
  /\ call[p].pc = "has" /\ row[i] # NULL
  /\ Commit(p, i, [row[i] EXCEPT !.name = ins.name], ins)
  /\ Goes(p, [call[p] EXCEPT !.pc = "set", !.ins = ins])

(* Mutant: the list is not deleted.                                        *)
SetOnly(p) ==
  LET k == call[p] IN
  /\ k.pc = "set"
  /\ object' = [object EXCEPT ![k.key] = k.ins]
  /\ Goes(p, Has(k.key, k.ins))
  /\ Written(p, k.key)
  /\ UNCHANGED <<row, list, events, behind, partial>>

(* Mutant: a list is deleted for a group that gives no key.                *)
SetUnkeyed(p) ==
  LET k == call[p] IN
  /\ k.pc = "set"
  /\ object' = [object EXCEPT ![k.key] = k.ins]
  /\ Goes(p, [k EXCEPT !.pc = "clear"])
  /\ Written(p, k.key)
  /\ UNCHANGED <<row, list, events, behind, partial>>

(* After the commit, the SET of the object; then, where the group gives a  *)
(* key, the DEL of its list.  A KeyError is logged.                        *)
Set(p) ==
  LET k == call[p] IN
  /\ k.pc = "set"
  /\ object' = [object EXCEPT ![k.key] = k.ins]
  /\ Goes(p, IF k.ins.group = NULL THEN Has(k.key, k.ins) ELSE [k EXCEPT !.pc = "clear"])
  /\ Written(p, k.key)
  /\ UNCHANGED <<row, list, events, behind, partial>>

(* Nothing is cached under the key any more.                               *)
Emptied(key) ==
  /\ overtaken' = overtaken \ {key}
  /\ missed' = missed \ {key}
  /\ partial' = partial \ {key}

Clear(p) ==
  LET k == call[p] IN
  /\ k.pc = "clear"
  /\ list' = [list EXCEPT ![k.ins.group] = {}]
  /\ Goes(p, Has(k.key, k.ins))
  /\ Emptied(k.ins.group)
  /\ UNCHANGED <<row, object, events, behind>>

(* Mutant: the object is not deleted.                                      *)
DeleteRowOnly(p) ==
  LET k == call[p] IN
  /\ k.pc = "has"
  /\ Commit(p, k.key, NULL, k.ins)
  /\ Goes(p, IF k.ins.group = NULL THEN Idle ELSE [k EXCEPT !.pc = "unlist"])

(* delete(): the keys are those of the instance.                           *)
Delete(p) ==
  LET k == call[p] IN
  /\ k.pc = "has"
  /\ Commit(p, k.key, NULL, k.ins)
  /\ Goes(p, [k EXCEPT !.pc = "unset"])

(* After the commit, the DEL of the object and the DEL of the list.        *)
Unset(p) ==
  LET k == call[p] IN
  /\ k.pc = "unset"
  /\ object' = [object EXCEPT ![k.key] = NULL]
  /\ Goes(p, IF k.ins.group = NULL THEN Idle ELSE [k EXCEPT !.pc = "unlist"])
  /\ Emptied(k.key)
  /\ UNCHANGED <<row, list, events, behind>>

Unlist(p) ==
  LET k == call[p] IN
  /\ k.pc = "unlist"
  /\ list' = [list EXCEPT ![k.ins.group] = {}]
  /\ Goes(p, Idle)
  /\ Emptied(k.ins.group)
  /\ UNCHANGED <<row, object, events, behind>>

-----------------------------------------------------------------------------
(* The keys that a call has still to write for a row that it changed.      *)
Pending(k) ==
  (IF k.pc \in {"set", "unset"} THEN {k.key} ELSE {})
  \cup (IF k.pc \in {"set", "unset", "clear", "unlist"} THEN {k.ins.group} \ {NULL} ELSE {})

(* Redis refuses a command: the error is logged and what is left of the    *)
(* call is not done.  A crash is this and Forget; a call that only reads   *)
(* changes nothing when it fails.                                          *)
Fail(p) ==
  LET k == call[p] IN
  /\ events < MaxEvents /\ events' = events + 1
  /\ k.pc \in {"set", "clear", "unset", "unlist"}
  /\ Goes(p, IF k.pc \in {"set", "clear"} THEN Has(k.key, k.ins) ELSE Idle)
  /\ missed' = missed \cup Pending(k)
  /\ UNCHANGED <<row, object, list, behind, overtaken, partial>>

(* A timeout: 30 days for an object, 7 days for a list.                    *)
ExpireObject(i) ==
  /\ object[i] # NULL
  /\ object' = [object EXCEPT ![i] = NULL]
  /\ Emptied(i)
  /\ UNCHANGED <<row, list, call, events, behind>>

ExpireList(g) ==
  /\ list[g] # {}
  /\ list' = [list EXCEPT ![g] = {}]
  /\ Emptied(g)
  /\ UNCHANGED <<row, object, call, events, behind>>

Next ==
  \/ \E p \in Procs :
       \/ \E i \in Ids : Fetch(p, i) \/ (\E ins \in Rows : Create(p, i, ins))
       \/ \E i \in Ids, want \in Names \cup {NULL} : Get(p, i, want)
       \/ \E g \in Groups, want \in Names \cup {NULL} : Query(p, g, want)
       \/ \E ins \in Rows : Save(p, ins) \/ SaveName(p, ins)
       \/ Forget(p) \/ Look(p) \/ Keep(p) \/ Filter(p) \/ Store(p)
       \/ Set(p) \/ Clear(p) \/ Delete(p) \/ Unset(p) \/ Unlist(p) \/ Fail(p)
  \/ \E i \in Ids : ExpireObject(i)
  \/ \E g \in Groups : ExpireList(g)

Spec == Init /\ [][Next]_vars

-----------------------------------------------------------------------------
(* Properties.                                                             *)

Calls ==
  { Idle }
  \cup [pc : {"has", "keep", "set", "clear", "unset", "unlist"}, key : Ids, ins : Rows, want : {NULL}]
  \cup [pc : {"look"}, key : Ids, ins : {NULL}, want : Names \cup {NULL}]
  \cup [pc : {"filter"}, key : Groups, ins : {NULL}, want : Names \cup {NULL}]
  \cup [pc : {"store"}, key : Groups, ins : Lists, want : Names \cup {NULL}]

(* The variables keep their types; only a list with a key is cleared, and  *)
(* no empty list is stored.                                                *)
TypeOK ==
  /\ row \in [Ids -> Rows \cup {NULL}]
  /\ object \in [Ids -> Rows \cup {NULL}]
  /\ list \in [Groups -> Lists]
  /\ call \in [Procs -> Calls]
  /\ \A p \in Procs : /\ call[p].pc \in {"clear", "unlist"} => call[p].ins.group \in Groups
                      /\ call[p].pc = "store" => call[p].ins # {}
  /\ events \in 0..MaxEvents
  /\ behind \in SUBSET Procs
  /\ overtaken \in SUBSET Keys
  /\ missed \in SUBSET Keys
  /\ partial \in SUBSET Groups

Due(key) == \E p \in Procs : key \in Pending(call[p])

(* A cached object is its row ("Model cache"), and no object is cached     *)
(* that has no row, but while a save or a delete has still to write it,    *)
(* after one that failed to, and where a call wrote what it had read       *)
(* before another changed it (or had changed and not saved).               *)
ObjectKept ==
  \A i \in Ids : object[i] \in {NULL, row[i]} \/ Due(i) \/ i \in overtaken \cup missed

(* A cached list is the rows of its group, but where a row left it for     *)
(* another group (the list of the new one is deleted only), where it was   *)
(* filled by a query with more conditions, and as for the objects.         *)
ListKept ==
  \A g \in Groups :
    \/ list[g] \in {{}, Members(g, NULL)}
    \/ Due(g)
    \/ g \in overtaken \cup missed \cup partial
==============================================================================
