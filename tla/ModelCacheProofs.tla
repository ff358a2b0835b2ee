-------------------------- MODULE ModelCacheProofs --------------------------
(***************************************************************************)
(* Proofs about ModelCache, for any sets of rows, groups and processes.    *)
(***************************************************************************)
EXTENDS ModelCache, TLAPS

(* What the steps of a call have in common.                                *)
LEMMA CallFacts ==
  ASSUME NEW k \in Calls
  PROVE  /\ k.pc \in {"has", "keep", "set", "clear", "unset", "unlist"} =>
              /\ k.key \in Ids /\ k.ins \in Rows /\ k.want = NULL
              /\ \A pc \in {"has", "keep", "set", "clear", "unset", "unlist"} :
                   LET e == [k EXCEPT !.pc = pc] IN
                     e \in Calls /\ e.pc = pc /\ e.key = k.key /\ e.ins = k.ins
         /\ k.pc = "look" => k.key \in Ids /\ k.want \in Names \cup {NULL}
         /\ k.pc = "filter" => k.key \in Groups /\ k.want \in Names \cup {NULL}
         /\ k.pc = "store" => /\ k.key \in Groups /\ k.ins \in Lists
                              /\ k.want \in Names \cup {NULL}
  BY DEF Calls, Idle

(* An instance is held by a well typed call.                               *)
LEMMA HasTypes ==
  ASSUME NEW i \in Ids, NEW ins \in Rows
  PROVE  /\ Has(i, ins) \in Calls /\ Has(i, ins).pc = "has"
         /\ Has(i, ins).key = i /\ Has(i, ins).ins = ins
  BY DEF Calls, Has

(* An idle process is well typed.                                          *)
LEMMA IdleTypes == Idle \in Calls /\ Idle.pc = "idle"
  BY DEF Calls, Idle

(* A query finds rows of the model.                                        *)
LEMMA MembersTypes ==
  ASSUME TypeOK, NEW g, NEW want
  PROVE  Members(g, want) \in Lists
  BY DEF Members, Lists, TypeOK

(* What a row's change touches are groups.                                 *)
LEMMA TouchedTypes ==
  ASSUME NEW i \in Ids, row[i] \in Rows \cup {NULL}, NEW new \in Rows \cup {NULL}
  PROVE  Touched(i, new) \in SUBSET Groups
  BY DEF Touched, Rows

(* The calls stay well typed when one process goes on with a typed call.   *)
LEMMA GoesTypes ==
  ASSUME TypeOK, NEW p \in Procs, NEW k \in Calls, Goes(p, k),
         k.pc \in {"clear", "unlist"} => k.ins.group \in Groups,
         k.pc = "store" => k.ins # {}
  PROVE  /\ call' \in [Procs -> Calls]
         /\ call'[p] = k
         /\ \A q \in Procs : /\ call'[q].pc \in {"clear", "unlist"} => call'[q].ins.group \in Groups
                             /\ call'[q].pc = "store" => call'[q].ins # {}
  BY DEF TypeOK, Goes

(* A commit keeps the types of what it changes.                            *)
LEMMA CommitTypes ==
  ASSUME TypeOK, NEW p \in Procs, NEW i \in Ids, NEW new \in Rows \cup {NULL}, NEW ins,
         Commit(p, i, new, ins)
  PROVE  /\ row' \in [Ids -> Rows \cup {NULL}] /\ UNCHANGED <<object, list, overtaken, partial>>
         /\ events' \in 0..MaxEvents /\ behind' \in SUBSET Procs
         /\ missed' \in SUBSET Keys
  <1>1. Touched(i, new) \in SUBSET Groups
    BY TouchedTypes DEF TypeOK
  <1>2. events' \in 0..MaxEvents
    BY ConstantsAssumption DEF Commit, TypeOK
  <1>3. row' \in [Ids -> Rows \cup {NULL}]
    BY DEF Commit, TypeOK
  <1>4. behind' \in SUBSET Procs
    BY DEF Commit, TypeOK
  <1> QED BY <1>1, <1>2, <1>3, <1>4 DEF Commit, TypeOK, Keys

(* The history of the keys keeps its type.                                 *)
LEMMA HistoryTypes ==
  ASSUME TypeOK, NEW p, NEW key \in Keys
  PROVE  /\ Written(p, key) => overtaken' \in SUBSET Keys /\ missed' \in SUBSET Keys
         /\ Emptied(key) => /\ overtaken' \in SUBSET Keys /\ missed' \in SUBSET Keys
                            /\ partial' \in SUBSET Groups
  BY DEF TypeOK, Written, Emptied

(* The type invariant holds at first.                                      *)
LEMMA TypeInit == Init => TypeOK
  BY IdleTypes, ConstantsAssumption DEF Init, TypeOK, Lists

(* A process that reads keeps the types.                                   *)
LEMMA TypeReads ==
  ASSUME TypeOK, NEW p \in Procs,
         \/ \E i \in Ids : Fetch(p, i)
         \/ \E i \in Ids, want \in Names \cup {NULL} : Get(p, i, want)
         \/ \E g \in Groups, want \in Names \cup {NULL} : Query(p, g, want)
         \/ Forget(p) \/ Look(p) \/ Keep(p) \/ Filter(p) \/ Store(p)
  PROVE  TypeOK'
  <1>0. call[p] \in Calls
    BY DEF TypeOK
  <1>1. ASSUME NEW i \in Ids, Fetch(p, i) PROVE TypeOK'
    <2>1. row[i] \in Rows
      BY <1>1 DEF Fetch, TypeOK
    <2> QED BY <1>1, <2>1, HasTypes, GoesTypes DEF Fetch, TypeOK, history
  <1>2. ASSUME NEW i \in Ids, NEW want \in Names \cup {NULL}, Get(p, i, want) PROVE TypeOK'
    <2>1. behind' \in SUBSET Procs
      BY <1>2 DEF Get, TypeOK
    <2>2. CASE Goes(p, [pc |-> "look", key |-> i, ins |-> NULL, want |-> want])
      <3>1. [pc |-> "look", key |-> i, ins |-> NULL, want |-> want] \in Calls
        BY DEF Calls
      <3> QED BY <1>2, <2>1, <2>2, <3>1, GoesTypes DEF Get, TypeOK
    <2>3. CASE object[i] # NULL /\ Goes(p, Has(i, object[i]))
      <3>1. object[i] \in Rows
        BY <2>3 DEF TypeOK
      <3> QED BY <1>2, <2>1, <2>3, <3>1, HasTypes, GoesTypes DEF Get, TypeOK
    <2> QED BY <1>2, <2>2, <2>3 DEF Get
  <1>3. ASSUME NEW g \in Groups, NEW want \in Names \cup {NULL}, Query(p, g, want) PROVE TypeOK'
    <2>1. behind' \in SUBSET Procs
      BY <1>3 DEF Query, TypeOK
    <2>2. CASE Goes(p, [pc |-> "filter", key |-> g, ins |-> NULL, want |-> want])
      <3>1. [pc |-> "filter", key |-> g, ins |-> NULL, want |-> want] \in Calls
        BY DEF Calls
      <3> QED BY <1>3, <2>1, <2>2, <3>1, GoesTypes DEF Query, TypeOK
    <2>3. CASE \E m \in list[g] : Goes(p, Has(m[1], m[2]))
      <3>1. PICK m \in list[g] : Goes(p, Has(m[1], m[2]))
        BY <2>3
      <3>2. m[1] \in Ids /\ m[2] \in Rows
        BY <3>1 DEF TypeOK, Lists
      <3> QED BY <1>3, <2>1, <3>1, <3>2, HasTypes, GoesTypes DEF Query, TypeOK
    <2> QED BY <1>3, <2>2, <2>3 DEF Query
  <1>4. CASE Forget(p)
    <2>1. behind' \in SUBSET Procs
      BY <1>4 DEF Forget, TypeOK
    <2> QED BY <1>4, <2>1, IdleTypes, GoesTypes DEF Forget, TypeOK
  <1>5. CASE Look(p)
    <2> DEFINE i == call[p].key
               k == IF row[i] # NULL /\ Matches(row[i], call[p].want)
                    THEN [pc |-> "keep", key |-> i, ins |-> row[i], want |-> NULL]
                    ELSE Idle
    <2>1. i \in Ids /\ row[i] \in Rows \cup {NULL} /\ Goes(p, k)
      BY <1>0, <1>5, CallFacts DEF Look, TypeOK
    <2>2. k \in Calls /\ k.pc \in {"idle", "keep"}
      BY <2>1, IdleTypes DEF Calls
    <2> HIDE DEF k
    <2> QED BY <1>5, <2>1, <2>2, GoesTypes DEF Look, TypeOK, history
  <1>6. CASE Keep(p)
    <2>1. call[p].key \in Ids /\ call[p].ins \in Rows
      BY <1>0, <1>6, CallFacts DEF Keep
    <2>2. object' \in [Ids -> Rows \cup {NULL}]
      BY <1>6, <2>1 DEF Keep, TypeOK
    <2>3. overtaken' \in SUBSET Keys /\ missed' \in SUBSET Keys
      BY <1>6, <2>1, HistoryTypes DEF Keep, Keys
    <2> QED BY <1>6, <2>1, <2>2, <2>3, HasTypes, GoesTypes DEF Keep, TypeOK
  <1>7. CASE Filter(p)
    <2> DEFINE found == Members(call[p].key, call[p].want)
               k == IF found = {} THEN Idle ELSE [call[p] EXCEPT !.pc = "store", !.ins = found]
    <2>1. call[p].key \in Groups /\ found \in Lists /\ Goes(p, k)
      BY <1>0, <1>7, CallFacts, MembersTypes DEF Filter
    <2>2. k \in Calls /\ k.pc \in {"idle", "store"} /\ (k.pc = "store" => k.ins # {})
      <3>1. call[p].want \in Names \cup {NULL}
        BY <1>0, <1>7, CallFacts DEF Filter
      <3>2. call[p] \in [pc : {"filter"}, key : Groups, ins : {NULL}, want : Names \cup {NULL}]
        BY <1>0, <1>7 DEF Filter, Calls, Idle
      <3> HIDE DEF found
      <3> QED BY <2>1, <3>1, <3>2, IdleTypes DEF Calls
    <2> HIDE DEF k
    <2> QED BY <1>7, <2>1, <2>2, GoesTypes DEF Filter, TypeOK, history
  <1>8. CASE Store(p)
    <2>1. call[p].key \in Groups /\ call[p].ins \in Lists
      BY <1>0, <1>8, CallFacts DEF Store
    <2>2. list' \in [Groups -> Lists]
      BY <1>8, <2>1 DEF Store, TypeOK
    <2>3. overtaken' \in SUBSET Keys /\ missed' \in SUBSET Keys
      BY <1>8, <2>1, HistoryTypes DEF Store, Keys
    <2>4. partial' \in SUBSET Groups /\ behind' \in SUBSET Procs
      BY <1>8, <2>1 DEF Store, TypeOK
    <2> QED BY <1>8, <2>2, <2>3, <2>4, IdleTypes, GoesTypes DEF Store, TypeOK
  <1> QED BY <1>1, <1>2, <1>3, <1>4, <1>5, <1>6, <1>7, <1>8

(* A process that writes keeps the types.                                  *)
LEMMA TypeWrites ==
  ASSUME TypeOK, NEW p \in Procs,
         \/ \E i \in Ids, ins \in Rows : Create(p, i, ins)
         \/ \E ins \in Rows : Save(p, ins) \/ SaveName(p, ins)
         \/ Set(p) \/ Clear(p) \/ Delete(p) \/ Unset(p) \/ Unlist(p) \/ Fail(p)
  PROVE  TypeOK'
  <1>0. call[p] \in Calls
    BY DEF TypeOK
  <1>1. ASSUME NEW i \in Ids, NEW ins \in Rows, Create(p, i, ins) PROVE TypeOK'
    <2> DEFINE k == [pc |-> "set", key |-> i, ins |-> ins, want |-> NULL]
    <2>1. k \in Calls /\ k.pc = "set"
      BY DEF Calls
    <2>2. Goes(p, k) /\ Commit(p, i, ins, ins)
      BY <1>1 DEF Create
    <2> HIDE DEF k
    <2>3. ins \in Rows \cup {NULL}
      OBVIOUS
    <2> QED BY <2>1, <2>2, <2>3, GoesTypes, CommitTypes DEF TypeOK
  <1>2. ASSUME NEW ins \in Rows, Save(p, ins) \/ SaveName(p, ins) PROVE TypeOK'
    <2> DEFINE i == call[p].key
               k == [call[p] EXCEPT !.pc = "set", !.ins = ins]
    <2>1. call[p].pc = "has" /\ i \in Ids /\ call[p].want = NULL
      BY <1>0, <1>2, CallFacts DEF Save, SaveName
    <2>2. k \in Calls /\ k.pc = "set"
      <3>1. call[p] \in [pc : {"has", "keep", "set", "clear", "unset", "unlist"}, key : Ids,
                         ins : Rows, want : {NULL}]
        BY <1>0, <2>1 DEF Calls, Idle
      <3> QED BY <3>1 DEF Calls
    <2>3. Goes(p, k) /\ \E new \in Rows \cup {NULL} : Commit(p, i, new, ins)
      <3>1. CASE Save(p, ins)
        BY <3>1 DEF Save
      <3>2. CASE SaveName(p, ins)
        <4>1. row[i] \in Rows
          BY <2>1, <3>2 DEF SaveName, TypeOK
        <4>2. [row[i] EXCEPT !.name = ins.name] \in Rows
          BY <4>1 DEF Rows
        <4> QED BY <3>2, <4>2 DEF SaveName
      <3> QED BY <1>2, <3>1, <3>2
    <2> HIDE DEF k
    <2> QED BY <2>1, <2>2, <2>3, GoesTypes, CommitTypes DEF TypeOK
  <1>3. CASE Set(p)
    <2> DEFINE k == call[p]
               e == IF k.ins.group = NULL THEN Has(k.key, k.ins) ELSE [k EXCEPT !.pc = "clear"]
    <2>1. k.pc = "set" /\ k.key \in Ids /\ k.ins \in Rows
      BY <1>0, <1>3, CallFacts DEF Set
    <2>2. e \in Calls /\ e.pc \in {"has", "clear"}
          /\ (e.pc = "clear" => e.ins.group \in Groups)
      <3>1. [k EXCEPT !.pc = "clear"] \in Calls /\ [k EXCEPT !.pc = "clear"].ins = k.ins
            /\ [k EXCEPT !.pc = "clear"].pc = "clear"
        BY <1>0, <2>1, CallFacts
      <3> QED BY <2>1, <3>1, HasTypes DEF Rows
    <2>3. Goes(p, e) /\ object' \in [Ids -> Rows \cup {NULL}]
      BY <1>3, <2>1 DEF Set, TypeOK
    <2>4. overtaken' \in SUBSET Keys /\ missed' \in SUBSET Keys
      BY <1>3, <2>1, HistoryTypes DEF Set, Keys
    <2> HIDE DEF e
    <2> QED BY <1>3, <2>2, <2>3, <2>4, GoesTypes DEF Set, TypeOK
  <1>4. ASSUME Clear(p) \/ Unlist(p) PROVE TypeOK'
    <2> DEFINE k == call[p]
    <2>1. k.pc \in {"clear", "unlist"} /\ k.key \in Ids /\ k.ins \in Rows /\ k.ins.group \in Groups
      BY <1>0, <1>4, CallFacts DEF Clear, Unlist, TypeOK
    <2>2. \E e \in Calls : Goes(p, e) /\ e.pc \in {"idle", "has"}
      BY <1>4, <2>1, HasTypes, IdleTypes DEF Clear, Unlist
    <2>3. list' \in [Groups -> Lists]
      BY <1>4, <2>1 DEF Clear, Unlist, TypeOK, Lists
    <2>4. overtaken' \in SUBSET Keys /\ missed' \in SUBSET Keys /\ partial' \in SUBSET Groups
      BY <1>4, <2>1, HistoryTypes DEF Clear, Unlist, Keys
    <2> QED BY <1>4, <2>2, <2>3, <2>4, GoesTypes DEF Clear, Unlist, TypeOK
  <1>5. CASE Delete(p)
    <2>1. call[p].pc = "has" /\ call[p].key \in Ids /\ NULL \in Rows \cup {NULL}
      BY <1>0, <1>5, CallFacts DEF Delete
    <2>2. [call[p] EXCEPT !.pc = "unset"] \in Calls /\ [call[p] EXCEPT !.pc = "unset"].pc = "unset"
      BY <1>0, <2>1, CallFacts DEF Calls
    <2> QED BY <1>5, <2>1, <2>2, GoesTypes, CommitTypes DEF Delete, TypeOK
  <1>6. CASE Unset(p)
    <2> DEFINE k == call[p]
               e == IF k.ins.group = NULL THEN Idle ELSE [k EXCEPT !.pc = "unlist"]
    <2>1. k.pc = "unset" /\ k.key \in Ids /\ k.ins \in Rows
      BY <1>0, <1>6, CallFacts DEF Unset
    <2>2. e \in Calls /\ e.pc \in {"idle", "unlist"}
          /\ (e.pc = "unlist" => e.ins.group \in Groups)
      <3>1. [k EXCEPT !.pc = "unlist"] \in Calls /\ [k EXCEPT !.pc = "unlist"].ins = k.ins
            /\ [k EXCEPT !.pc = "unlist"].pc = "unlist"
        BY <1>0, <2>1, CallFacts
      <3> QED BY <2>1, <3>1, IdleTypes DEF Rows
    <2>3. Goes(p, e) /\ object' \in [Ids -> Rows \cup {NULL}]
      BY <1>6, <2>1 DEF Unset, TypeOK
    <2>4. overtaken' \in SUBSET Keys /\ missed' \in SUBSET Keys /\ partial' \in SUBSET Groups
      BY <1>6, <2>1, HistoryTypes DEF Unset, Keys
    <2> HIDE DEF e
    <2> QED BY <1>6, <2>2, <2>3, <2>4, GoesTypes DEF Unset, TypeOK
  <1>7. CASE Fail(p)
    <2> DEFINE k == call[p]
               e == IF k.pc \in {"set", "clear"} THEN Has(k.key, k.ins) ELSE Idle
    <2>1. k.key \in Ids /\ k.ins \in Rows
      BY <1>0, <1>7, CallFacts DEF Fail
    <2>2. e \in Calls /\ e.pc \in {"idle", "has"} /\ Goes(p, e)
      BY <1>7, <2>1, HasTypes, IdleTypes DEF Fail
    <2>3. Pending(k) \in SUBSET Keys
      BY <2>1 DEF Pending, Keys, Rows
    <2>4. missed' \in SUBSET Keys /\ events' \in 0..MaxEvents
      BY <1>7, <2>3, ConstantsAssumption DEF Fail, TypeOK
    <2> HIDE DEF e
    <2> QED BY <1>7, <2>2, <2>4, GoesTypes DEF Fail, TypeOK
  <1> QED BY <1>1, <1>2, <1>3, <1>4, <1>5, <1>6, <1>7

(* The type invariant is inductive.                                        *)
LEMMA TypeNext == TypeOK /\ [Next]_vars => TypeOK'
  <1> SUFFICES ASSUME TypeOK, [Next]_vars PROVE TypeOK'
    OBVIOUS
  <1>1. ASSUME NEW i \in Ids, ExpireObject(i) PROVE TypeOK'
    BY <1>1 DEF ExpireObject, Emptied, TypeOK
  <1>2. ASSUME NEW g \in Groups, ExpireList(g) PROVE TypeOK'
    BY <1>2 DEF ExpireList, Emptied, TypeOK, Lists
  <1>3. CASE UNCHANGED vars
    BY <1>3 DEF vars, history, TypeOK
  <1> QED BY <1>1, <1>2, <1>3, TypeReads, TypeWrites DEF Next

(* Every reachable state is well typed.                                    *)
THEOREM TypeCorrect == Spec => []TypeOK
  BY TypeInit, TypeNext, PTL DEF Spec

-----------------------------------------------------------------------------
(* Why what is cached is right: who is not behind holds what the database  *)
(* has.                                                                    *)
Current(p) ==
  p \notin behind =>
    /\ call[p].pc \in {"has", "keep", "set", "clear"} => row[call[p].key] = call[p].ins
    /\ call[p].pc = "store" /\ call[p].want = NULL => call[p].ins = Members(call[p].key, NULL)

AllCurrent == \A p \in Procs : Current(p)

KeptInv == AllCurrent /\ ObjectKept /\ ListKept

(* The rows of a group, in a table r.                                      *)
MembersOf(r, g) == { <<i, r[i]>> : i \in { j \in Ids : r[j] # NULL /\ r[j].group = g } }

(* A step of one process that changes no row leaves the others current.    *)
LEMMA OthersCurrent ==
  ASSUME TypeOK, AllCurrent, NEW p \in Procs, NEW k, Goes(p, k), row' = row,
         \A q \in Procs \ {p} : q \in behind => q \in behind',
         Current(p)'
  PROVE  AllCurrent'
  <1>1. ASSUME NEW q \in Procs, q # p PROVE Current(q)'
    <2>1. call'[q] = call[q]
      BY <1>1 DEF Goes, TypeOK
    <2> QED BY <1>1, <2>1 DEF Current, AllCurrent, Members
  <1> QED BY <1>1 DEF AllCurrent

(* A group that a change of a row does not touch keeps its members.        *)
LEMMA UntouchedMembers ==
  ASSUME TypeOK, NEW i \in Ids, NEW new \in Rows \cup {NULL},
         row' = [row EXCEPT ![i] = new]
  PROVE  \A g \in Groups \ Touched(i, new) : MembersOf(row', g) = MembersOf(row, g)
  <1> SUFFICES ASSUME NEW g \in Groups, g \notin Touched(i, new)
               PROVE  MembersOf(row', g) = MembersOf(row, g)
    OBVIOUS
  <1>1. CASE new = row[i]
    BY <1>1 DEF TypeOK
  <1>2. CASE new # row[i]
    <2>1. g # NULL
      BY ConstantsAssumption
    <2>2. (row[i] # NULL => row[i].group # g) /\ (new # NULL => new.group # g)
      BY <1>2, <2>1 DEF Touched
    <2>3. row'[i] = new /\ \A j \in Ids : j # i => row'[j] = row[j]
      BY DEF TypeOK
    <2> DEFINE S == { j \in Ids : row[j] # NULL /\ row[j].group = g }
               T == { j \in Ids : row'[j] # NULL /\ row'[j].group = g }
    <2>4. S = T /\ \A j \in S : row'[j] = row[j]
      BY <2>2, <2>3
    <2>5. MembersOf(row, g) = { <<j, row[j]>> : j \in S }
          /\ MembersOf(row', g) = { <<j, row'[j]>> : j \in T }
      BY DEF MembersOf
    <2>6. { <<j, row'[j]>> : j \in T } = { <<j, row'[j]>> : j \in S }
      BY <2>4
    <2> HIDE DEF S, T
    <2>7. \A m \in { <<j, row'[j]>> : j \in S } : m \in { <<j, row[j]>> : j \in S }
      BY <2>4
    <2>8. \A m \in { <<j, row[j]>> : j \in S } : m \in { <<j, row'[j]>> : j \in S }
      BY <2>4
    <2> QED BY <2>5, <2>6, <2>7, <2>8
  <1> QED BY <1>1, <1>2

(* What a commit keeps: the others are current or behind, and every key    *)
(* that the change touches is due, or missed.                              *)
LEMMA CommitKept ==
  ASSUME TypeOK, KeptInv, NEW p \in Procs, NEW i \in Ids, NEW new \in Rows \cup {NULL},
         NEW ins \in Rows, Commit(p, i, new, ins),
         NEW k \in Calls, Goes(p, k), k.key = i, k.ins = ins,
         call[p].pc \in {"idle", "has"},
         \/ k.pc = "set" /\ new \in Rows
         \/ k.pc = "unset" /\ new = NULL
  PROVE  KeptInv'
  <1>1. call'[p] = k /\ (\A q \in Procs : q # p => call'[q] = call[q])
        /\ row' = [row EXCEPT ![i] = new] /\ row'[i] = new
        /\ UNCHANGED <<object, list, overtaken, partial>>
        /\ missed' = missed \cup (Touched(i, new) \ {ins.group})
    BY DEF Goes, Commit, TypeOK
  <1>2. ASSUME NEW q \in Procs PROVE Current(q)'
    <2>1. CASE q = p
      <3>1. k.pc = "set" /\ p \notin behind' => new \in {ins, NULL}
        BY DEF Commit
      <3>2. k.pc = "set" /\ p \notin behind' => new = ins
        BY <3>1, ConstantsAssumption DEF Rows
      <3> QED BY <1>1, <2>1, <3>2 DEF Current
    <2>2. CASE q # p /\ q \notin behind'
      <3>1. q \notin behind /\ Current(q) /\ call[q] \in Calls
        BY <2>2 DEF Commit, KeptInv, AllCurrent, TypeOK
      <3>2. CASE call[q].pc \in {"has", "keep", "set", "clear"}
        <4>1. call[q].key # i \/ new = row[i]
          BY <2>2, <3>2 DEF Commit
        <4>2. row'[call[q].key] = row[call[q].key]
          BY <1>1, <3>1, <3>2, <4>1, CallFacts DEF TypeOK
        <4> QED BY <1>1, <2>2, <3>1, <3>2, <4>2 DEF Current
      <3>3. CASE call[q].pc = "store"
        <4>1. call[q].key \notin Touched(i, new) /\ call[q].key \in Groups
          BY <2>2, <3>1, <3>3, CallFacts DEF Commit
        <4>2. MembersOf(row', call[q].key) = MembersOf(row, call[q].key)
          BY <1>1, <4>1, UntouchedMembers
        <4> QED BY <1>1, <2>2, <3>1, <3>3, <4>2 DEF Current, Members, Matches, MembersOf
      <3> QED BY <1>1, <2>2, <3>2, <3>3 DEF Current
    <2>3. CASE q \in behind'
      BY <2>3 DEF Current
    <2> QED BY <2>1, <2>2, <2>3
  <1>3. Pending(call[p]) = {}
    BY DEF Pending
  <1>4. \A key : Due(key) => Due(key)'
    BY <1>1, <1>3 DEF Due, Pending
  <1>5. Due(i)' /\ (ins.group # NULL => Due(ins.group)')
    BY <1>1 DEF Due, Pending
  <1>6. ASSUME NEW j \in Ids
        PROVE  object'[j] \in {NULL, row'[j]} \/ Due(j)' \/ j \in overtaken' \cup missed'
    BY <1>1, <1>4, <1>5 DEF KeptInv, ObjectKept, TypeOK
  <1>7. ASSUME NEW g \in Groups
        PROVE  \/ list'[g] \in {{}, MembersOf(row', g)}
               \/ Due(g)'
               \/ g \in overtaken' \cup missed' \cup partial'
    <2>1. CASE g \in Touched(i, new)
      BY <1>1, <1>5, <2>1, ConstantsAssumption
    <2>2. CASE g \notin Touched(i, new)
      <3>1. MembersOf(row', g) = MembersOf(row, g)
        BY <1>1, <2>2, UntouchedMembers
      <3>2. MembersOf(row, g) = Members(g, NULL)
        BY DEF Members, MembersOf, Matches
      <3> QED BY <1>1, <1>4, <3>1, <3>2 DEF KeptInv, ListKept
    <2> QED BY <2>1, <2>2
  <1>8. ListKept'
    BY <1>7 DEF ListKept, Members, MembersOf, Matches
  <1> QED BY <1>2, <1>6, <1>8 DEF KeptInv, AllCurrent, ObjectKept

(* What a step that changes no row has to show: a key with nothing pending *)
(* any more is right, overtaken or missed.                                 *)
LEMMA QuietKept ==
  ASSUME TypeOK, KeptInv, NEW p \in Procs, NEW k \in Calls, Goes(p, k), row' = row,
         \A q \in Procs \ {p} : q \in behind => q \in behind',
         Current(p)',
         \A i \in Ids :
           \/ object'[i] \in {NULL, row[i]} \/ i \in overtaken' \cup missed'
           \/ i \in Pending(k)
           \/ /\ object'[i] = object[i] /\ i \notin Pending(call[p])
              /\ i \in overtaken \cup missed => i \in overtaken' \cup missed',
         \A g \in Groups :
           \/ list'[g] \in {{}, MembersOf(row, g)} \/ g \in overtaken' \cup missed' \cup partial'
           \/ g \in Pending(k)
           \/ /\ list'[g] = list[g] /\ g \notin Pending(call[p])
              /\ g \in overtaken \cup missed \cup partial => g \in overtaken' \cup missed' \cup partial'
  PROVE  KeptInv'
  <1>1. AllCurrent'
    BY OthersCurrent DEF KeptInv
  <1>2. call'[p] = k /\ \A q \in Procs : q # p => call'[q] = call[q]
    BY DEF Goes, TypeOK
  <1>3. \A key : Due(key) => Due(key)' \/ key \in Pending(call[p])
    BY <1>2 DEF Due, Pending
  <1>4. \A key : key \in Pending(k) => Due(key)'
    BY <1>2 DEF Due, Pending
  <1>5. ASSUME NEW i \in Ids
        PROVE  object'[i] \in {NULL, row[i]} \/ Due(i)' \/ i \in overtaken' \cup missed'
    <2>1. object[i] \in {NULL, row[i]} \/ Due(i) \/ i \in overtaken \cup missed
      BY DEF KeptInv, ObjectKept
    <2> QED BY <1>3, <1>4, <2>1
  <1>6. ASSUME NEW g \in Groups
        PROVE  \/ list'[g] \in {{}, MembersOf(row, g)}
               \/ Due(g)'
               \/ g \in overtaken' \cup missed' \cup partial'
    <2>1. MembersOf(row, g) = Members(g, NULL)
      BY DEF Members, MembersOf, Matches
    <2>2. \/ list[g] \in {{}, MembersOf(row, g)} \/ Due(g)
          \/ g \in overtaken \cup missed \cup partial
      BY <2>1 DEF KeptInv, ListKept
    <2> QED BY <1>3, <1>4, <2>2
  <1>7. ListKept'
    BY <1>6 DEF ListKept, Members, MembersOf, Matches
  <1> QED BY <1>1, <1>5, <1>7 DEF KeptInv, ObjectKept

(* The steps of a call that reads.                                         *)
LEMMA KeptReads ==
  ASSUME TypeOK, KeptInv, NEW p \in Procs,
         \/ \E i \in Ids : Fetch(p, i)
         \/ \E i \in Ids, want \in Names \cup {NULL} : Get(p, i, want)
         \/ \E g \in Groups, want \in Names \cup {NULL} : Query(p, g, want)
         \/ Forget(p) \/ Look(p) \/ Keep(p) \/ Filter(p) \/ Store(p)
  PROVE  KeptInv'
  <1>0. call[p] \in Calls
    BY DEF TypeOK
  <1>a. ASSUME NEW k \in Calls, Goes(p, k), row' = row, Pending(call[p]) = {},
               UNCHANGED <<object, list, overtaken, missed, partial>>,
               \A q \in Procs \ {p} : q \in behind => q \in behind',
               Current(p)'
        PROVE  KeptInv'
    BY <1>a, QuietKept
  <1>1. ASSUME NEW i \in Ids, Fetch(p, i) PROVE KeptInv'
    <2>1. row[i] \in Rows
      BY <1>1 DEF Fetch, TypeOK
    <2>2. Has(i, row[i]) \in Calls /\ Goes(p, Has(i, row[i])) /\ Pending(call[p]) = {}
      BY <1>1, <2>1, HasTypes DEF Fetch, Pending, Idle
    <2>3. Current(p)'
      BY <1>1, <2>1, HasTypes DEF Fetch, Current, Goes, TypeOK
    <2> QED BY <1>1, <1>a, <2>2, <2>3 DEF Fetch, history
  <1>2. ASSUME NEW i \in Ids, NEW want \in Names \cup {NULL}, Get(p, i, want) PROVE KeptInv'
    <2>1. Pending(call[p]) = {} /\ row' = row
      BY <1>2 DEF Get, Pending, Idle
    <2>2. CASE Goes(p, [pc |-> "look", key |-> i, ins |-> NULL, want |-> want])
      <3> DEFINE k == [pc |-> "look", key |-> i, ins |-> NULL, want |-> want]
      <3>1. k \in Calls /\ call'[p] = k
        BY <2>2 DEF Calls, Goes, TypeOK
      <3>2. Current(p)'
        BY <3>1 DEF Current
      <3>3. \A q \in Procs \ {p} : q \in behind => q \in behind'
        BY <1>2 DEF Get
      <3> QED BY <1>2, <1>a, <2>1, <2>2, <3>1, <3>2, <3>3 DEF Get
    <2>3. CASE object[i] # NULL /\ Goes(p, Has(i, object[i]))
               /\ behind' = IF object[i] = row[i] THEN behind ELSE behind \cup {p}
      <3>1. object[i] \in Rows
        BY <2>3 DEF TypeOK
      <3>2. Has(i, object[i]) \in Calls /\ call'[p] = Has(i, object[i])
        BY <2>3, <3>1, HasTypes DEF Goes, TypeOK
      <3>3. Current(p)'
        BY <2>1, <2>3, <3>1, <3>2, HasTypes DEF Current
      <3>4. \A q \in Procs \ {p} : q \in behind => q \in behind'
        BY <2>3
      <3> QED BY <1>2, <1>a, <2>1, <2>3, <3>2, <3>3, <3>4 DEF Get
    <2> QED BY <1>2, <2>2, <2>3 DEF Get
  <1>3. ASSUME NEW g \in Groups, NEW want \in Names \cup {NULL}, Query(p, g, want) PROVE KeptInv'
    <2>1. Pending(call[p]) = {} /\ row' = row
      BY <1>3 DEF Query, Pending, Idle
    <2>2. CASE Goes(p, [pc |-> "filter", key |-> g, ins |-> NULL, want |-> want])
      <3> DEFINE k == [pc |-> "filter", key |-> g, ins |-> NULL, want |-> want]
      <3>1. k \in Calls /\ call'[p] = k
        BY <2>2 DEF Calls, Goes, TypeOK
      <3>2. Current(p)'
        BY <3>1 DEF Current
      <3>3. \A q \in Procs \ {p} : q \in behind => q \in behind'
        BY <1>3 DEF Query
      <3> QED BY <1>3, <1>a, <2>1, <2>2, <3>1, <3>2, <3>3 DEF Query
    <2>3. CASE \E m \in list[g] : /\ Goes(p, Has(m[1], m[2]))
                 /\ behind' = IF m[2] = row[m[1]] THEN behind ELSE behind \cup {p}
      <3>1. PICK m \in list[g] : /\ Goes(p, Has(m[1], m[2]))
                 /\ behind' = IF m[2] = row[m[1]] THEN behind ELSE behind \cup {p}
        BY <2>3
      <3>2. m[1] \in Ids /\ m[2] \in Rows
        BY <3>1 DEF TypeOK, Lists
      <3>3. Has(m[1], m[2]) \in Calls /\ call'[p] = Has(m[1], m[2])
        BY <3>1, <3>2, HasTypes DEF Goes, TypeOK
      <3>4. Current(p)'
        BY <2>1, <3>1, <3>2, <3>3, HasTypes DEF Current
      <3>5. \A q \in Procs \ {p} : q \in behind => q \in behind'
        BY <3>1
      <3> QED BY <1>3, <1>a, <2>1, <3>1, <3>3, <3>4, <3>5 DEF Query
    <2> QED BY <1>3, <2>2, <2>3 DEF Query
  <1>4. CASE Forget(p)
    <2>1. Pending(call[p]) = {} /\ call'[p] = Idle
      BY <1>4 DEF Forget, Pending, Goes, TypeOK
    <2>2. Current(p)'
      BY <2>1, IdleTypes DEF Current
    <2> QED BY <1>4, <1>a, <2>1, <2>2, IdleTypes DEF Forget
  <1>5. CASE Look(p)
    <2> DEFINE i == call[p].key
               k == IF row[i] # NULL /\ Matches(row[i], call[p].want)
                    THEN [pc |-> "keep", key |-> i, ins |-> row[i], want |-> NULL]
                    ELSE Idle
    <2>1. i \in Ids /\ row[i] \in Rows \cup {NULL} /\ Goes(p, k) /\ Pending(call[p]) = {}
      BY <1>0, <1>5, CallFacts DEF Look, TypeOK, Pending
    <2>2. k \in Calls /\ (k.pc = "idle" \/ (k.pc = "keep" /\ row[k.key] = k.ins))
      BY <2>1, IdleTypes DEF Calls
    <2> HIDE DEF k
    <2>3. call'[p] = k /\ row' = row
      BY <1>5, <2>1 DEF Look, Goes, TypeOK
    <2>4. Current(p)'
      BY <2>2, <2>3 DEF Current
    <2> QED BY <1>5, <1>a, <2>1, <2>2, <2>4 DEF Look, history
  <1>6. CASE Keep(p)
    <2>1. call[p].key \in Ids /\ call[p].ins \in Rows /\ call[p].pc = "keep"
      BY <1>0, <1>6, CallFacts DEF Keep
    <2> DEFINE i == call[p].key
               k == Has(i, call[p].ins)
    <2>2. k \in Calls /\ k.pc = "has" /\ k.key = i /\ k.ins = call[p].ins /\ Goes(p, k)
      BY <1>6, <2>1, HasTypes DEF Keep
    <2>3. call'[p] = k /\ row' = row /\ behind' = behind /\ list' = list /\ partial' = partial
          /\ object' = [object EXCEPT ![i] = call[p].ins] /\ Written(p, i)
      BY <1>6, <2>2 DEF Keep, Goes, TypeOK
    <2> HIDE DEF k
    <2>4. p \notin behind => row[i] = call[p].ins
      BY <2>1 DEF KeptInv, AllCurrent, Current
    <2>5. Current(p)'
      BY <2>2, <2>3, <2>4 DEF Current
    <2>6. object'[i] \in {NULL, row[i]} \/ i \in overtaken'
      BY <2>1, <2>3, <2>4 DEF Written, TypeOK
    <2>7. Pending(call[p]) = {}
      BY <2>1 DEF Pending
    <2>8. \A key : key # i /\ key \in overtaken \cup missed => key \in overtaken' \cup missed'
      BY <2>3 DEF Written
    <2>9. \A j \in Ids : j # i => object'[j] = object[j]
      BY <2>3 DEF TypeOK
    <2>10. \A g \in Groups : g # i
      BY <2>1, ConstantsAssumption
    <2> HIDE DEF i
    <2> QED BY <2>2, <2>3, <2>5, <2>6, <2>7, <2>8, <2>9, <2>10, QuietKept
  <1>7. CASE Filter(p)
    <2> DEFINE found == Members(call[p].key, call[p].want)
               k == IF found = {} THEN Idle ELSE [call[p] EXCEPT !.pc = "store", !.ins = found]
    <2>1. call[p].key \in Groups /\ found \in Lists /\ Goes(p, k) /\ Pending(call[p]) = {}
      BY <1>0, <1>7, CallFacts, MembersTypes DEF Filter, Pending
    <2>2. k \in Calls /\ (k.pc = "idle" \/ (k.pc = "store" /\ k.ins = Members(k.key, k.want)))
      <3>1. call[p] \in [pc : {"filter"}, key : Groups, ins : {NULL}, want : Names \cup {NULL}]
        BY <1>0, <1>7 DEF Filter, Calls, Idle
      <3> DEFINE e == [call[p] EXCEPT !.pc = "store", !.ins = found]
      <3>2. e.pc = "store" /\ e.ins = found /\ e.key = call[p].key /\ e.want = call[p].want
        BY <3>1
      <3>3. e \in Calls
        BY <2>1, <3>1 DEF Calls
      <3> HIDE DEF e
      <3>4. e.ins = Members(e.key, e.want)
        BY <3>2
      <3>5. k = Idle \/ k = e
        BY DEF e
      <3> HIDE DEF found, k
      <3> QED BY <3>2, <3>3, <3>4, <3>5, IdleTypes
    <2> HIDE DEF k
    <2>3. call'[p] = k /\ row' = row
      BY <1>7, <2>1 DEF Filter, Goes, TypeOK
    <2>4. Current(p)'
      BY <2>2, <2>3 DEF Current, Members
    <2> QED BY <1>7, <1>a, <2>1, <2>2, <2>4 DEF Filter, history
  <1>8. CASE Store(p)
    <2> DEFINE g == call[p].key
    <2>1. g \in Groups /\ call[p].ins \in Lists /\ call[p].pc = "store"
      BY <1>0, <1>8, CallFacts DEF Store
    <2>2. call'[p] = Idle /\ row' = row /\ object' = object /\ Goes(p, Idle) /\ Written(p, g)
          /\ list' = [list EXCEPT ![g] = call[p].ins] /\ behind' = behind \ {p}
          /\ partial' = IF call[p].want = NULL THEN partial \ {g} ELSE partial \cup {g}
      BY <1>8 DEF Store, Goes, TypeOK
    <2>3. Current(p)'
      BY <2>2, IdleTypes DEF Current
    <2>4. p \notin behind /\ call[p].want = NULL => call[p].ins = MembersOf(row, g)
      BY <2>1 DEF KeptInv, AllCurrent, Current, Members, MembersOf, Matches
    <2>5. list'[g] \in {{}, MembersOf(row, g)} \/ g \in overtaken' \cup missed' \cup partial'
      BY <2>1, <2>2, <2>4 DEF Written, TypeOK
    <2>6. Pending(call[p]) = {}
      BY <2>1 DEF Pending
    <2>7. \A key : key # g => (key \in overtaken \cup missed => key \in overtaken' \cup missed')
                            /\ (key \in partial => key \in partial')
      BY <2>2 DEF Written
    <2>8. \A h \in Groups : h # g => list'[h] = list[h]
      BY <2>2 DEF TypeOK
    <2>9. \A i \in Ids : i # g
      BY <2>1, ConstantsAssumption
    <2> HIDE DEF g
    <2> QED BY <2>2, <2>3, <2>5, <2>6, <2>7, <2>8, <2>9, QuietKept, IdleTypes
  <1> QED BY <1>1, <1>2, <1>3, <1>4, <1>5, <1>6, <1>7, <1>8

(* The steps of a call that writes.                                        *)
LEMMA KeptWrites ==
  ASSUME TypeOK, KeptInv, NEW p \in Procs,
         \/ \E i \in Ids, ins \in Rows : Create(p, i, ins)
         \/ \E ins \in Rows : Save(p, ins) \/ SaveName(p, ins)
         \/ Set(p) \/ Clear(p) \/ Delete(p) \/ Unset(p) \/ Unlist(p) \/ Fail(p)
  PROVE  KeptInv'
  <1> DEFINE c == call[p]
  <1>0. c \in Calls
    BY DEF TypeOK
  <1>1. ASSUME NEW i \in Ids, NEW ins \in Rows, Create(p, i, ins) PROVE KeptInv'
    <2> DEFINE k == [pc |-> "set", key |-> i, ins |-> ins, want |-> NULL]
    <2>1. k \in Calls /\ k.pc = "set" /\ k.key = i /\ k.ins = ins
      BY DEF Calls
    <2>2. Goes(p, k) /\ Commit(p, i, ins, ins) /\ c.pc = "idle" /\ ins \in Rows \cup {NULL}
      BY <1>1, IdleTypes DEF Create
    <2> HIDE DEF k
    <2> QED BY <2>1, <2>2, CommitKept
  <1>2. ASSUME NEW ins \in Rows, Save(p, ins) \/ SaveName(p, ins) PROVE KeptInv'
    <2> DEFINE i == c.key
               k == [c EXCEPT !.pc = "set", !.ins = ins]
    <2>1. c.pc = "has" /\ i \in Ids /\ Goes(p, k)
      BY <1>0, <1>2, CallFacts DEF Save, SaveName
    <2>2. k \in Calls /\ k.pc = "set" /\ k.key = i /\ k.ins = ins
      <3>1. c \in [pc : {"has", "keep", "set", "clear", "unset", "unlist"}, key : Ids,
                   ins : Rows, want : {NULL}]
        BY <1>0, <2>1 DEF Calls, Idle
      <3> QED BY <3>1 DEF Calls
    <2>3. \E new \in Rows : Commit(p, i, new, ins)
      <3>1. CASE Save(p, ins)
        BY <3>1 DEF Save
      <3>2. CASE SaveName(p, ins)
        <4>1. row[i] \in Rows
          BY <2>1, <3>2 DEF SaveName, TypeOK
        <4>2. [row[i] EXCEPT !.name = ins.name] \in Rows
          BY <4>1 DEF Rows
        <4> QED BY <3>2, <4>2 DEF SaveName
      <3> QED BY <1>2, <3>1, <3>2
    <2>4. PICK new \in Rows : Commit(p, i, new, ins)
      BY <2>3
    <2> HIDE DEF k, i
    <2> QED BY <2>1, <2>2, <2>4, CommitKept
  <1>3. CASE Set(p)
    <2> DEFINE i == c.key
               k == IF c.ins.group = NULL THEN Has(i, c.ins) ELSE [c EXCEPT !.pc = "clear"]
    <2>1. c.pc = "set" /\ i \in Ids /\ c.ins \in Rows
      BY <1>0, <1>3, CallFacts DEF Set
    <2>2. k \in Calls /\ k.pc \in {"has", "clear"} /\ k.key = i /\ k.ins = c.ins
          /\ (k.ins.group # NULL => k.pc = "clear")
      <3>1. [c EXCEPT !.pc = "clear"] \in Calls /\ [c EXCEPT !.pc = "clear"].ins = c.ins
            /\ [c EXCEPT !.pc = "clear"].pc = "clear" /\ [c EXCEPT !.pc = "clear"].key = i
        BY <1>0, <2>1, CallFacts
      <3> QED BY <2>1, <3>1, HasTypes
    <2>3. Goes(p, k) /\ row' = row /\ list' = list /\ behind' = behind /\ partial' = partial
          /\ object' = [object EXCEPT ![i] = c.ins] /\ Written(p, i)
      BY <1>3 DEF Set
    <2>4. call'[p] = k
      BY <2>3 DEF Goes, TypeOK
    <2> HIDE DEF k
    <2>5. p \notin behind => row[i] = c.ins
      BY <2>1 DEF KeptInv, AllCurrent, Current
    <2>6. Current(p)'
      BY <2>2, <2>3, <2>4, <2>5 DEF Current
    <2>7. object'[i] \in {NULL, row[i]} \/ i \in overtaken'
      BY <2>1, <2>3, <2>5 DEF Written, TypeOK
    <2>8. \A j \in Ids : j # i => object'[j] = object[j] /\ j \notin Pending(c)
      BY <2>1, <2>3, ConstantsAssumption DEF TypeOK, Pending, Rows
    <2>9. \A g \in Groups : g # i /\ (g \in Pending(c) => g \in Pending(k))
      BY <2>1, <2>2, ConstantsAssumption DEF Pending
    <2>10. \A key : key # i /\ key \in overtaken \cup missed => key \in overtaken' \cup missed'
      BY <2>3 DEF Written
    <2> HIDE DEF i
    <2> QED BY <2>2, <2>3, <2>6, <2>7, <2>8, <2>9, <2>10, QuietKept
  <1>4. ASSUME Clear(p) \/ Unlist(p) PROVE KeptInv'
    <2> DEFINE g == c.ins.group
    <2>1. /\ c.pc \in {"clear", "unlist"} /\ c.key \in Ids /\ c.ins \in Rows /\ g \in Groups
      BY <1>0, <1>4, CallFacts DEF Clear, Unlist, TypeOK
    <2>2. /\ row' = row /\ object' = object /\ behind' = behind
          /\ list' = [list EXCEPT ![g] = {}] /\ Emptied(g)
      BY <1>4 DEF Clear, Unlist
    <2>3. PICK k \in Calls : Goes(p, k) /\ (k = Idle \/ (k = Has(c.key, c.ins) /\ c.pc = "clear"))
      BY <1>4, <2>1, HasTypes, IdleTypes DEF Clear, Unlist
    <2>4. call'[p] = k
      BY <2>3 DEF Goes, TypeOK
    <2>5. Current(p)'
      BY <2>1, <2>2, <2>3, <2>4, HasTypes, IdleTypes DEF Current, KeptInv, AllCurrent
    <2>6. \A i \in Ids : i # g /\ i \notin Pending(c)
      BY <2>1, ConstantsAssumption DEF Pending
    <2>7. \A h \in Groups : h # g => list'[h] = list[h] /\ h \notin Pending(c)
      BY <2>1, <2>2 DEF Pending, TypeOK
    <2>8. \A key : key # g => (key \in overtaken \cup missed => key \in overtaken' \cup missed')
                            /\ (key \in partial => key \in partial')
      BY <2>2 DEF Emptied
    <2>9. list'[g] = {}
      BY <2>1, <2>2 DEF TypeOK
    <2> HIDE DEF g
    <2> QED BY <2>2, <2>3, <2>5, <2>6, <2>7, <2>8, <2>9, QuietKept
  <1>5. CASE Delete(p)
    <2>1. c.pc = "has" /\ c.key \in Ids /\ c.ins \in Rows /\ NULL \in Rows \cup {NULL}
      BY <1>0, <1>5, CallFacts DEF Delete
    <2> DEFINE k == [c EXCEPT !.pc = "unset"]
    <2>2. k \in Calls /\ k.pc = "unset" /\ k.key = c.key /\ k.ins = c.ins
      BY <1>0, <2>1, CallFacts
    <2>3. Goes(p, k) /\ Commit(p, c.key, NULL, c.ins)
      BY <1>5 DEF Delete
    <2> HIDE DEF k
    <2> QED BY <2>1, <2>2, <2>3, CommitKept
  <1>6. CASE Unset(p)
    <2> DEFINE i == c.key
               k == IF c.ins.group = NULL THEN Idle ELSE [c EXCEPT !.pc = "unlist"]
    <2>1. c.pc = "unset" /\ i \in Ids /\ c.ins \in Rows
      BY <1>0, <1>6, CallFacts DEF Unset
    <2>2. k \in Calls /\ k.pc \in {"idle", "unlist"}
          /\ (c.ins.group # NULL => k.pc = "unlist" /\ k.ins = c.ins)
      <3>1. [c EXCEPT !.pc = "unlist"] \in Calls /\ [c EXCEPT !.pc = "unlist"].ins = c.ins
            /\ [c EXCEPT !.pc = "unlist"].pc = "unlist"
        BY <1>0, <2>1, CallFacts
      <3> QED BY <2>1, <3>1, IdleTypes
    <2>3. Goes(p, k) /\ row' = row /\ list' = list /\ behind' = behind
          /\ object' = [object EXCEPT ![i] = NULL] /\ Emptied(i)
      BY <1>6 DEF Unset
    <2>4. call'[p] = k
      BY <2>3 DEF Goes, TypeOK
    <2> HIDE DEF k
    <2>5. Current(p)'
      BY <2>2, <2>4 DEF Current
    <2>6. object'[i] = NULL
      BY <2>1, <2>3 DEF TypeOK
    <2>7. \A j \in Ids : j # i => object'[j] = object[j] /\ j \notin Pending(c)
      BY <2>1, <2>3, ConstantsAssumption DEF TypeOK, Pending, Rows
    <2>8. \A g \in Groups : g # i /\ (g \in Pending(c) => g \in Pending(k))
      BY <2>1, <2>2, ConstantsAssumption DEF Pending
    <2>9. \A key : key # i => (key \in overtaken \cup missed => key \in overtaken' \cup missed')
                            /\ (key \in partial => key \in partial')
      BY <2>3 DEF Emptied
    <2> HIDE DEF i
    <2> QED BY <2>2, <2>3, <2>5, <2>6, <2>7, <2>8, <2>9, QuietKept
  <1>7. CASE Fail(p)
    <2> DEFINE k == IF c.pc \in {"set", "clear"} THEN Has(c.key, c.ins) ELSE Idle
    <2>1. c.key \in Ids /\ c.ins \in Rows
      BY <1>0, <1>7, CallFacts DEF Fail
    <2>2. /\ k \in Calls
          /\ \/ k.pc = "idle"
             \/ k.pc = "has" /\ k.key = c.key /\ k.ins = c.ins /\ c.pc \in {"set", "clear"}
      BY <2>1, HasTypes, IdleTypes
    <2>3. /\ Goes(p, k) /\ missed' = missed \cup Pending(c)
          /\ UNCHANGED <<row, object, list, behind, overtaken, partial>>
      BY <1>7 DEF Fail
    <2>4. call'[p] = k
      BY <2>3 DEF Goes, TypeOK
    <2> HIDE DEF k
    <2>5. Current(p)'
      BY <2>2, <2>3, <2>4 DEF Current, KeptInv, AllCurrent
    <2> QED BY <2>2, <2>3, <2>5, QuietKept
  <1> QED BY <1>1, <1>2, <1>3, <1>4, <1>5, <1>6, <1>7

(* Every step keeps what is cached right.                                  *)
LEMMA KeptNext == TypeOK /\ KeptInv /\ [Next]_vars => KeptInv'
  <1> SUFFICES ASSUME TypeOK, KeptInv, [Next]_vars PROVE KeptInv'
    OBVIOUS
  <1>1. ASSUME NEW i \in Ids, ExpireObject(i) PROVE KeptInv'
    <2>1. /\ UNCHANGED <<row, list, call, behind>> /\ Emptied(i)
          /\ object' = [object EXCEPT ![i] = NULL]
      BY <1>1 DEF ExpireObject
    <2>2. AllCurrent'
      BY <2>1 DEF KeptInv, AllCurrent, Current, Members
    <2>3. ObjectKept'
      BY <2>1 DEF KeptInv, ObjectKept, Emptied, Due, TypeOK
    <2>4. \A g \in Groups : g # i
      BY ConstantsAssumption
    <2>5. ListKept'
      BY <2>1, <2>4 DEF KeptInv, ListKept, Emptied, Due, Members
    <2> QED BY <2>2, <2>3, <2>5 DEF KeptInv
  <1>2. ASSUME NEW g \in Groups, ExpireList(g) PROVE KeptInv'
    <2>1. /\ UNCHANGED <<row, object, call, behind>> /\ Emptied(g)
          /\ list' = [list EXCEPT ![g] = {}]
      BY <1>2 DEF ExpireList
    <2>2. AllCurrent'
      BY <2>1 DEF KeptInv, AllCurrent, Current, Members
    <2>3. \A i \in Ids : i # g
      BY ConstantsAssumption
    <2>4. ObjectKept'
      BY <2>1, <2>3 DEF KeptInv, ObjectKept, Emptied, Due
    <2>5. ListKept'
      BY <2>1 DEF KeptInv, ListKept, Emptied, Due, Members, TypeOK
    <2> QED BY <2>2, <2>4, <2>5 DEF KeptInv
  <1>3. CASE UNCHANGED vars
    BY <1>3 DEF vars, history, KeptInv, AllCurrent, Current, ObjectKept, ListKept, Due, Members
  <1> QED BY <1>1, <1>2, <1>3, KeptReads, KeptWrites DEF Next

(* Nothing is cached and nothing is held at first.                         *)
LEMMA KeptInit == Init => KeptInv
  BY IdleTypes DEF Init, KeptInv, AllCurrent, Current, ObjectKept, ListKept

(* A cached object is its row, whatever the processes do and whichever     *)
(* command fails, but where a write of it is due, failed, or came from a   *)
(* process that was behind.                                                *)
THEOREM ObjectsKept == Spec => []ObjectKept
  <1>1. KeptInv => ObjectKept
    BY DEF KeptInv
  <1> QED BY <1>1, TypeInit, TypeNext, KeptInit, KeptNext, PTL DEF Spec

(* A cached list is the rows of its group, with the same exceptions and    *)
(* those of a row that changed its group and of a filtered query.          *)
THEOREM ListsKept == Spec => []ListKept
  <1>1. KeptInv => ListKept
    BY DEF KeptInv
  <1> QED BY <1>1, TypeInit, TypeNext, KeptInit, KeptNext, PTL DEF Spec

-----------------------------------------------------------------------------
(* When the cache is right with no exception but the writes on their way.  *)

(* While one call has committed an object and has still to write it, no    *)
(* other is about to write the same object.                                *)
CallsApart ==
  \A p, q \in Procs :
    p # q /\ call[p].pc \in {"keep", "set"} /\ call[q].pc \in {"set", "unset"}
      => call[p].key # call[q].key

(* Redis answers.                                                          *)
NoFailure == \A p \in Procs : ~Fail(p)

(* save(update_fields=['name']) is called on an instance whose other       *)
(* columns are still those of the row.                                     *)
WholeSaves == \A p \in Procs, ins \in Rows : SaveName(p, ins) => row'[call[p].key] = ins

(* A process that is behind is about to write no object.                   *)
ObjectsFresh ==
  /\ \A p \in behind : call[p].pc \in {"has", "clear", "store"}
  /\ (overtaken \cup missed) \cap Ids = {}

(* What a commit makes behind is not about to write an object.             *)
LEMMA CommitFresh ==
  ASSUME TypeOK, ObjectsFresh, CallsApart', NEW p \in Procs, NEW i \in Ids,
         NEW new \in Rows \cup {NULL}, NEW ins \in Rows, Commit(p, i, new, ins),
         new \in {ins, NULL}, NEW k \in Calls, Goes(p, k),
         k.key = i, k.pc \in {"set", "unset"}
  PROVE  ObjectsFresh' /\ p \notin behind'
  <1>1. call'[p] = k /\ (\A q \in Procs : q # p => call'[q] = call[q])
    BY DEF Goes, TypeOK
  <1>2. p \notin behind'
    BY DEF Commit
  <1>3. ASSUME NEW q \in behind' PROVE call'[q].pc \in {"has", "clear", "store"}
    <2>1. q \in Procs /\ q # p /\ call'[q] = call[q]
      BY <1>1, <1>2, <1>3, CommitTypes
    <2>2. q \in behind \/ call[q].pc = "store"
          \/ (call[q].pc \in {"has", "keep", "set", "clear"} /\ call[q].key = i)
      BY <1>3 DEF Commit
    <2>3. ~(call[q].pc \in {"keep", "set"} /\ call[q].key = i)
      BY <1>1, <2>1 DEF CallsApart
    <2> QED BY <2>1, <2>2, <2>3 DEF ObjectsFresh
  <1>4. (overtaken' \cup missed') \cap Ids = {}
    <2>1. Touched(i, new) \in SUBSET Groups
      BY TouchedTypes DEF TypeOK
    <2> QED BY <2>1, ConstantsAssumption DEF ObjectsFresh, Commit
  <1> QED BY <1>2, <1>3, <1>4 DEF ObjectsFresh

(* What the other steps have to show.                                      *)
LEMMA QuietFresh ==
  ASSUME TypeOK, ObjectsFresh, NEW p \in Procs, NEW k \in Calls, Goes(p, k),
         \A q \in behind' : q \in behind \/ q = p,
         p \in behind' => k.pc \in {"has", "clear", "store"},
         (overtaken' \cup missed') \cap Ids = {}
  PROVE  ObjectsFresh'
  <1>1. call'[p] = k /\ (\A q \in Procs : q # p => call'[q] = call[q]) /\ behind \in SUBSET Procs
    BY DEF Goes, TypeOK
  <1> QED BY <1>1 DEF ObjectsFresh

(* A call goes on to k after it wrote row i from its instance, or deleted  *)
(* it.                                                                     *)
Commits(p, i, ins, new, k) ==
  /\ Commit(p, i, new, ins) /\ new \in {ins, NULL} /\ Goes(p, k)
  /\ k.key = i /\ k.ins = ins
  /\ \/ k.pc = "set" /\ new = ins /\ row'[i] = ins
     \/ k.pc = "unset" /\ new = NULL /\ call[p].pc = "has"
        /\ call[p].ins = ins /\ call[p].key = i

(* A save of a whole instance makes the row that instance.                 *)
LEMMA SavesCommit ==
  ASSUME TypeOK, WholeSaves, NEW p \in Procs, NEW ins \in Rows, Save(p, ins) \/ SaveName(p, ins)
  PROVE  call[p].key \in Ids /\ \E k \in Calls : Commits(p, call[p].key, ins, ins, k)
  <1> DEFINE c == call[p]
             i == c.key
             k == [c EXCEPT !.pc = "set", !.ins = ins]
  <1>1. c.pc = "has" /\ i \in Ids /\ Goes(p, k) /\ c \in Calls
    BY CallFacts DEF Save, SaveName, TypeOK
  <1>2. k \in Calls /\ k.pc = "set" /\ k.key = i /\ k.ins = ins
    <2>1. c \in [pc : {"has", "keep", "set", "clear", "unset", "unlist"}, key : Ids,
                 ins : Rows, want : {NULL}]
      BY <1>1 DEF Calls, Idle
    <2> QED BY <2>1 DEF Calls
  <1>3. PICK new : Commit(p, i, new, ins) /\ (new = ins \/ SaveName(p, ins))
    <2>1. CASE Save(p, ins)
      BY <2>1 DEF Save
    <2>2. CASE SaveName(p, ins)
      BY <2>2 DEF SaveName
    <2> QED BY <2>1, <2>2
  <1>4. row'[i] = new
    BY <1>1, <1>3 DEF Commit, TypeOK
  <1>5. new = ins
    BY <1>3, <1>4 DEF WholeSaves
  <1> HIDE DEF k
  <1> QED BY <1>1, <1>2, <1>3, <1>4, <1>5 DEF Commits

(* The steps of a call that commits.                                       *)
LEMMA FreshCommits ==
  ASSUME TypeOK, ObjectsFresh, CallsApart', WholeSaves, NEW p \in Procs,
         \/ \E i \in Ids, ins \in Rows : Create(p, i, ins)
         \/ \E ins \in Rows : Save(p, ins) \/ SaveName(p, ins)
         \/ Delete(p)
  PROVE  /\ ObjectsFresh'
         /\ \E i \in Ids, ins \in Rows, new \in Rows \cup {NULL}, k \in Calls :
              Commits(p, i, ins, new, k)
  <1>1. ASSUME NEW i \in Ids, NEW ins \in Rows, Create(p, i, ins)
        PROVE  \E k \in Calls : Commits(p, i, ins, ins, k)
    <2> DEFINE k == [pc |-> "set", key |-> i, ins |-> ins, want |-> NULL]
    <2>1. k \in Calls /\ k.pc = "set" /\ k.key = i /\ k.ins = ins
      BY DEF Calls
    <2>2. Goes(p, k) /\ Commit(p, i, ins, ins)
      BY <1>1 DEF Create
    <2>3. row'[i] = ins
      BY <2>2 DEF Commit, TypeOK
    <2> HIDE DEF k
    <2> QED BY <2>1, <2>2, <2>3 DEF Commits
  <1>2. ASSUME Delete(p)
        PROVE  /\ call[p].key \in Ids /\ call[p].ins \in Rows
               /\ \E k \in Calls : Commits(p, call[p].key, call[p].ins, NULL, k)
    <2> DEFINE c == call[p]
               k == [c EXCEPT !.pc = "unset"]
    <2>1. c.pc = "has" /\ c.key \in Ids /\ c.ins \in Rows /\ c \in Calls
      BY <1>2, CallFacts DEF Delete, TypeOK
    <2>2. k \in Calls /\ k.pc = "unset" /\ k.key = c.key /\ k.ins = c.ins
      BY <2>1, CallFacts
    <2>3. Goes(p, k) /\ Commit(p, c.key, NULL, c.ins)
      BY <1>2 DEF Delete
    <2> HIDE DEF k
    <2> QED BY <2>1, <2>2, <2>3 DEF Commits
  <1>3. PICK i \in Ids, ins \in Rows, new \in Rows \cup {NULL}, k \in Calls :
          Commits(p, i, ins, new, k)
    BY <1>1, <1>2, SavesCommit
  <1>4. ObjectsFresh'
    BY <1>3, CommitFresh DEF Commits
  <1> QED BY <1>3, <1>4

(* Every step keeps them fresh.                                            *)
LEMMA FreshNext ==
  TypeOK /\ ObjectsFresh /\ CallsApart' /\ [Next]_vars /\ [WholeSaves /\ NoFailure]_vars
    => ObjectsFresh'
  <1> SUFFICES ASSUME TypeOK, ObjectsFresh, CallsApart', [Next]_vars,
                      [WholeSaves /\ NoFailure]_vars
               PROVE  ObjectsFresh'
    OBVIOUS
  <1>1. CASE UNCHANGED vars
    BY <1>1 DEF vars, history, ObjectsFresh
  <1>2. ASSUME NEW i \in Ids, ExpireObject(i) PROVE ObjectsFresh'
    BY <1>2 DEF ExpireObject, Emptied, ObjectsFresh
  <1>3. ASSUME NEW g \in Groups, ExpireList(g) PROVE ObjectsFresh'
    BY <1>3 DEF ExpireList, Emptied, ObjectsFresh
  <1>4. ASSUME NEW p \in Procs, WholeSaves,
               \/ \E i \in Ids, ins \in Rows : Create(p, i, ins)
               \/ \E ins \in Rows : Save(p, ins) \/ SaveName(p, ins)
               \/ Delete(p)
        PROVE  ObjectsFresh'
    BY <1>4, FreshCommits
  <1>5. ASSUME NEW p \in Procs,
               \/ \E i \in Ids : Fetch(p, i)
               \/ \E i \in Ids, want \in Names \cup {NULL} : Get(p, i, want)
               \/ \E g \in Groups, want \in Names \cup {NULL} : Query(p, g, want)
               \/ Look(p) \/ Filter(p)
        PROVE  ObjectsFresh'
    <2> USE DEF ObjectsFresh
    <2>0. call[p] \in Calls /\ (call[p].pc \notin {"has", "clear", "store"} => p \notin behind)
      BY DEF TypeOK
    <2>a. /\ \A q \in behind' : q \in behind \/ q = p
          /\ p \in behind' => p \in behind \/ \E i \in Ids, r \in Rows : Goes(p, Has(i, r))
          /\ overtaken' = overtaken /\ missed' = missed
          /\ p \notin behind
      <3>1. ASSUME NEW i \in Ids, Fetch(p, i) PROVE <2>a!:
        BY <2>0, <3>1, IdleTypes DEF Fetch, history
      <3>2. ASSUME NEW i \in Ids, NEW want \in Names \cup {NULL}, Get(p, i, want) PROVE <2>a!:
        <4>1. object[i] # NULL => object[i] \in Rows
          BY DEF TypeOK
        <4> QED BY <2>0, <3>2, <4>1, IdleTypes DEF Get
      <3>3. ASSUME NEW g \in Groups, NEW want \in Names \cup {NULL}, Query(p, g, want)
            PROVE  <2>a!:
        <4>1. \A m \in list[g] : m[1] \in Ids /\ m[2] \in Rows
          BY DEF TypeOK, Lists
        <4> QED BY <2>0, <3>3, <4>1, IdleTypes DEF Query
      <3>4. CASE Look(p)
        BY <2>0, <3>4 DEF Look, history
      <3>5. CASE Filter(p)
        BY <2>0, <3>5 DEF Filter, history
      <3> QED BY <1>5, <3>1, <3>2, <3>3, <3>4, <3>5
    <2>1. TypeOK' /\ \A q \in Procs : q # p => call'[q] = call[q]
      <3>1. TypeOK'
        BY <1>5, TypeReads
      <3>2. \E k : Goes(p, k)
        BY <1>5 DEF Fetch, Get, Query, Look, Filter
      <3> QED BY <3>1, <3>2 DEF Goes, TypeOK
    <2>2. p \in behind' => call'[p].pc = "has"
      BY <2>a, HasTypes DEF Goes, TypeOK
    <2>3. behind \in SUBSET Procs
      BY DEF TypeOK
    <2> QED BY <2>a, <2>1, <2>2, <2>3
  <1>6. ASSUME NEW p \in Procs, Forget(p) \/ Store(p) PROVE ObjectsFresh'
    <2>1. Goes(p, Idle) /\ behind' = behind \ {p} /\ missed' \in SUBSET missed
      BY <1>6 DEF Forget, Store, Written
    <2>2. overtaken' \cap Ids = {}
      <3>1. CASE Forget(p)
        BY <3>1 DEF Forget, ObjectsFresh
      <3>2. CASE Store(p)
        <4>1. call[p].key \in Groups
          BY <3>2, CallFacts DEF Store, TypeOK
        <4> QED BY <3>2, <4>1, ConstantsAssumption DEF Store, Written, ObjectsFresh
      <3> QED BY <1>6, <3>1, <3>2
    <2>3. (overtaken' \cup missed') \cap Ids = {}
      BY <2>1, <2>2 DEF ObjectsFresh
    <2> QED BY <2>1, <2>3, IdleTypes, QuietFresh
  <1>7. ASSUME NEW p \in Procs, Keep(p) \/ Set(p) PROVE ObjectsFresh'
    <2> DEFINE c == call[p]
    <2>1. c \in Calls /\ c.pc \in {"keep", "set"} /\ c.key \in Ids /\ c.ins \in Rows
      BY <1>7, CallFacts DEF Keep, Set, TypeOK
    <2>2. behind' = behind /\ Written(p, c.key) /\ p \notin behind
      BY <1>7, <2>1 DEF Keep, Set, ObjectsFresh
    <2>3. (overtaken' \cup missed') \cap Ids = {}
      BY <2>2 DEF Written, ObjectsFresh
    <2>4. [c EXCEPT !.pc = "clear"] \in Calls
      BY <2>1, CallFacts
    <2>5. \E k \in Calls : Goes(p, k)
      BY <1>7, <2>1, <2>4, HasTypes DEF Keep, Set
    <2> QED BY <2>2, <2>3, <2>5, QuietFresh
  <1>8. ASSUME NEW p \in Procs, Clear(p) PROVE ObjectsFresh'
    <2> DEFINE c == call[p]
    <2>1. c.pc = "clear" /\ c.key \in Ids /\ c.ins \in Rows
      BY <1>8, CallFacts DEF Clear, TypeOK
    <2>2. Goes(p, Has(c.key, c.ins)) /\ behind' = behind
          /\ (overtaken' \cup missed') \cap Ids = {}
      BY <1>8 DEF Clear, Emptied, ObjectsFresh
    <2> QED BY <2>1, <2>2, HasTypes, QuietFresh
  <1>9. ASSUME NEW p \in Procs, Unset(p) \/ Unlist(p) PROVE ObjectsFresh'
    <2> DEFINE c == call[p]
    <2>1. c \in Calls /\ c.pc \in {"unset", "unlist"} /\ c.key \in Ids /\ c.ins \in Rows
      BY <1>9, CallFacts DEF Unset, Unlist, TypeOK
    <2>2. behind' = behind /\ (overtaken' \cup missed') \cap Ids = {} /\ p \notin behind
      BY <1>9, <2>1 DEF Unset, Unlist, Emptied, ObjectsFresh
    <2>3. [c EXCEPT !.pc = "unlist"] \in Calls
      BY <2>1, CallFacts
    <2>4. \E k \in Calls : Goes(p, k)
      BY <1>9, <2>3, IdleTypes DEF Unset, Unlist
    <2> QED BY <2>2, <2>4, QuietFresh
  <1>10. CASE NoFailure /\ WholeSaves
    BY <1>1, <1>2, <1>3, <1>4, <1>5, <1>6, <1>7, <1>8, <1>9, <1>10 DEF Next, NoFailure
  <1> QED BY <1>1, <1>10

(* With no failure, no two calls that write one object at a time, and no   *)
(* update_fields on an instance that is out of date, a cached object is    *)
(* its row as soon as what has committed is written: CacheModelMixin needs *)
(* no more than this, however gets, queries and timeouts fall.             *)
THEOREM ObjectsInSync ==
  Spec /\ []CallsApart /\ [][WholeSaves /\ NoFailure]_vars
    => [](\A i \in Ids : object[i] \in {NULL, row[i]} \/ Due(i))
  <1>1. Init => ObjectsFresh
    BY DEF Init, ObjectsFresh
  <1>2. KeptInv /\ ObjectsFresh => \A i \in Ids : object[i] \in {NULL, row[i]} \/ Due(i)
    BY DEF KeptInv, ObjectKept, ObjectsFresh
  <1> QED BY <1>1, <1>2, TypeInit, TypeNext, KeptInit, KeptNext, FreshNext, PTL DEF Spec

(* No row ever leaves its group: row i is of the group G[i].               *)
GroupsFixed(G) == \A i \in Ids : row[i] # NULL => row[i].group = G[i]

(* cache_query is called with the group alone, and no query is about to    *)
(* store a list that a committed call has still to delete.                 *)
QueriesApart ==
  \A p, q \in Procs : call[p].pc = "store" =>
    /\ call[p].want = NULL
    /\ call[q].pc \in {"set", "unset"} => call[p].key # call[q].ins.group

(* Every copy of a row is of its group.                                    *)
CopiesInGroup(G) ==
  /\ \A i \in Ids : object[i] # NULL => object[i].group = G[i]
  /\ \A g \in Groups : \A m \in list[g] : m[2].group = G[m[1]]
  /\ \A p \in Procs :
       /\ call[p].pc \in {"has", "keep", "set", "clear", "unset", "unlist"}
            => call[p].ins.group = G[call[p].key]
       /\ call[p].pc = "store" => \A m \in call[p].ins : m[2].group = G[m[1]]

(* No process that is behind is about to store a list, and no list is out  *)
(* of date or filtered.                                                    *)
ListsFresh ==
  /\ \A p \in behind : call[p].pc # "store"
  /\ (overtaken \cup missed) \cap Groups = {}
  /\ partial = {}

(* What a commit keeps.                                                    *)
LEMMA CommitInGroup ==
  ASSUME NEW G, TypeOK, GroupsFixed(G), GroupsFixed(G)', CopiesInGroup(G), ListsFresh,
         QueriesApart', NEW p \in Procs, NEW i \in Ids, NEW new \in Rows \cup {NULL},
         NEW ins \in Rows, NEW k \in Calls, Commits(p, i, ins, new, k)
  PROVE  CopiesInGroup(G)' /\ ListsFresh'
  <1>1. /\ call'[p] = k /\ k.key = i /\ k.ins = ins /\ k.pc \in {"set", "unset"}
        /\ \A q \in Procs : q # p => call'[q] = call[q]
        /\ UNCHANGED <<object, list, overtaken, partial>>
        /\ row' = [row EXCEPT ![i] = new]
    BY DEF Commits, Commit, Goes, TypeOK
  <1>2. ins.group = G[i]
    <2>1. CASE k.pc = "set"
      <3>1. row'[i] = ins /\ ins # NULL
        BY <2>1, ConstantsAssumption DEF Commits, Rows
      <3> QED BY <3>1 DEF GroupsFixed
    <2>2. CASE k.pc = "unset"
      BY <2>2 DEF Commits, CopiesInGroup
    <2> QED BY <1>1, <2>1, <2>2
  <1>3. Touched(i, new) \in SUBSET {ins.group}
    <2>1. row[i] # NULL => row[i].group = ins.group
      BY <1>2 DEF GroupsFixed
    <2>2. new # NULL => new = ins
      BY DEF Commits
    <2> QED BY <2>1, <2>2 DEF Touched
  <1>4. CopiesInGroup(G)'
    BY <1>1, <1>2 DEF CopiesInGroup
  <1>5. missed' = missed
    BY <1>3 DEF Commits, Commit
  <1>6. ASSUME NEW q \in behind' PROVE call'[q].pc # "store"
    <2>0. behind' \in SUBSET Procs
      BY CommitTypes DEF Commits
    <2>1. q \in Procs /\ q # p /\ call'[q] = call[q]
      BY <1>1, <1>6, <2>0 DEF Commits, Commit
    <2>2. q \in behind \/ call[q].pc # "store" \/ call[q].key \in Touched(i, new)
      BY <1>6, <2>1 DEF Commits, Commit
    <2>3. call[q].pc = "store" => call[q].key # ins.group
      BY <1>1, <2>1 DEF QueriesApart
    <2> QED BY <1>3, <2>1, <2>2, <2>3 DEF ListsFresh
  <1> QED BY <1>1, <1>4, <1>5, <1>6 DEF ListsFresh

(* What the other steps have to show of the copies.                        *)
LEMMA QuietCopies ==
  ASSUME NEW G, TypeOK, CopiesInGroup(G), NEW p \in Procs, NEW k, Goes(p, k),
         k.pc \in {"has", "keep", "set", "clear", "unset", "unlist"} => k.ins.group = G[k.key],
         k.pc = "store" => \A m \in k.ins : m[2].group = G[m[1]],
         \A i \in Ids : \/ object'[i] \in {object[i], NULL}
                        \/ object'[i].group = G[i],
         \A g \in Groups : \/ list'[g] \in {list[g], {}}
                           \/ \A m \in list'[g] : m[2].group = G[m[1]]
  PROVE  CopiesInGroup(G)'
  <1>1. call'[p] = k /\ \A q \in Procs : q # p => call'[q] = call[q]
    BY DEF Goes, TypeOK
  <1> QED BY <1>1 DEF CopiesInGroup

(* A query finds rows of their groups.                                     *)
LEMMA MembersInGroup ==
  ASSUME NEW G, GroupsFixed(G), NEW g, NEW want
  PROVE  \A m \in Members(g, want) : m[2].group = G[m[1]]
  BY DEF Members, GroupsFixed

(* Every step of a call that commits nothing keeps the copies.             *)
LEMMA CopiesNext ==
  ASSUME NEW G, TypeOK, GroupsFixed(G), CopiesInGroup(G), NEW p \in Procs,
         \/ \E i \in Ids : Fetch(p, i)
         \/ \E i \in Ids, want \in Names \cup {NULL} : Get(p, i, want)
         \/ \E g \in Groups, want \in Names \cup {NULL} : Query(p, g, want)
         \/ Forget(p) \/ Look(p) \/ Keep(p) \/ Filter(p) \/ Store(p)
         \/ Set(p) \/ Clear(p) \/ Unset(p) \/ Unlist(p)
  PROVE  CopiesInGroup(G)'
  <1> DEFINE c == call[p]
  <1>0. c \in Calls
    BY DEF TypeOK
  <1>1. ASSUME NEW i \in Ids, Fetch(p, i) PROVE CopiesInGroup(G)'
    <2>1. Goes(p, Has(i, row[i])) /\ row[i] \in Rows /\ object' = object /\ list' = list
          /\ row[i].group = G[i]
      BY <1>1 DEF Fetch, TypeOK, GroupsFixed
    <2> QED BY <2>1, HasTypes, QuietCopies
  <1>2. ASSUME NEW i \in Ids, NEW want \in Names \cup {NULL}, Get(p, i, want)
        PROVE  CopiesInGroup(G)'
    <2>1. object' = object /\ list' = list
      BY <1>2 DEF Get
    <2>2. CASE Goes(p, [pc |-> "look", key |-> i, ins |-> NULL, want |-> want])
      BY <2>1, <2>2, QuietCopies
    <2>3. CASE object[i] # NULL /\ Goes(p, Has(i, object[i]))
      <3>1. object[i] \in Rows /\ object[i].group = G[i]
        BY <2>3 DEF TypeOK, CopiesInGroup
      <3> QED BY <2>1, <2>3, <3>1, HasTypes, QuietCopies
    <2> QED BY <1>2, <2>2, <2>3 DEF Get
  <1>3. ASSUME NEW g \in Groups, NEW want \in Names \cup {NULL}, Query(p, g, want)
        PROVE  CopiesInGroup(G)'
    <2>1. object' = object /\ list' = list
      BY <1>3 DEF Query
    <2>2. CASE Goes(p, [pc |-> "filter", key |-> g, ins |-> NULL, want |-> want])
      BY <2>1, <2>2, QuietCopies
    <2>3. CASE \E m \in list[g] : Goes(p, Has(m[1], m[2]))
      <3>1. PICK m \in list[g] : Goes(p, Has(m[1], m[2]))
        BY <2>3
      <3>2. m[1] \in Ids /\ m[2] \in Rows /\ m[2].group = G[m[1]]
        BY <3>1 DEF TypeOK, Lists, CopiesInGroup
      <3> QED BY <2>1, <3>1, <3>2, HasTypes, QuietCopies
    <2> QED BY <1>3, <2>2, <2>3 DEF Query
  <1>4. CASE Forget(p)
    BY <1>4, IdleTypes, QuietCopies DEF Forget
  <1>5. CASE Look(p)
    <2> DEFINE i == c.key
               k == IF row[i] # NULL /\ Matches(row[i], c.want)
                    THEN [pc |-> "keep", key |-> i, ins |-> row[i], want |-> NULL]
                    ELSE Idle
    <2>1. i \in Ids /\ Goes(p, k) /\ object' = object /\ list' = list
      BY <1>0, <1>5, CallFacts DEF Look, history
    <2>2. k.pc \in {"idle", "keep"} /\ (k.pc = "keep" => k.ins.group = G[k.key])
      BY <2>1, IdleTypes DEF GroupsFixed
    <2> HIDE DEF k
    <2> QED BY <2>1, <2>2, QuietCopies
  <1>6. CASE Keep(p)
    <2>1. c.pc = "keep" /\ c.key \in Ids /\ c.ins \in Rows /\ Goes(p, Has(c.key, c.ins))
          /\ object' = [object EXCEPT ![c.key] = c.ins] /\ list' = list
      BY <1>0, <1>6, CallFacts DEF Keep
    <2>2. c.ins.group = G[c.key]
      BY <2>1 DEF CopiesInGroup
    <2>3. \A i \in Ids : object'[i] \in {object[i], NULL} \/ object'[i].group = G[i]
      BY <2>1, <2>2 DEF TypeOK
    <2> QED BY <2>1, <2>2, <2>3, HasTypes, QuietCopies
  <1>7. CASE Filter(p)
    <2> DEFINE found == Members(c.key, c.want)
               e == [c EXCEPT !.pc = "store", !.ins = found]
    <2>1. /\ Goes(p, Idle) \/ Goes(p, e)
          /\ object' = object /\ list' = list
      BY <1>7 DEF Filter, history
    <2>2. e.pc = "store" /\ e.ins = found
      BY <1>0, <1>7 DEF Filter, Calls, Idle
    <2>3. \A m \in found : m[2].group = G[m[1]]
      BY MembersInGroup
    <2> HIDE DEF found, e
    <2> QED BY <2>1, <2>2, <2>3, IdleTypes, QuietCopies
  <1>8. CASE Store(p)
    <2>1. c.pc = "store" /\ c.key \in Groups /\ Goes(p, Idle) /\ object' = object
          /\ list' = [list EXCEPT ![c.key] = c.ins]
      BY <1>0, <1>8, CallFacts DEF Store
    <2>2. \A m \in c.ins : m[2].group = G[m[1]]
      BY <2>1 DEF CopiesInGroup
    <2>3. \A g \in Groups : \/ list'[g] \in {list[g], {}}
                            \/ \A m \in list'[g] : m[2].group = G[m[1]]
      BY <2>1, <2>2 DEF TypeOK
    <2> QED BY <2>1, <2>3, IdleTypes, QuietCopies
  <1>9. CASE Set(p)
    <2> DEFINE e == [c EXCEPT !.pc = "clear"]
    <2>1. c.pc = "set" /\ c.key \in Ids /\ c.ins \in Rows /\ list' = list
          /\ object' = [object EXCEPT ![c.key] = c.ins]
          /\ (Goes(p, Has(c.key, c.ins)) \/ Goes(p, e))
      BY <1>0, <1>9, CallFacts DEF Set
    <2>2. c.ins.group = G[c.key]
      BY <2>1 DEF CopiesInGroup
    <2>3. \A i \in Ids : object'[i] \in {object[i], NULL} \/ object'[i].group = G[i]
      BY <2>1, <2>2 DEF TypeOK
    <2>4. e.pc = "clear" /\ e.key = c.key /\ e.ins = c.ins
      BY <1>0, <2>1, CallFacts
    <2> HIDE DEF e
    <2> QED BY <2>1, <2>2, <2>3, <2>4, HasTypes, QuietCopies
  <1>10. CASE Clear(p) \/ Unlist(p)
    <2>1. c.pc \in {"clear", "unlist"} /\ c.key \in Ids /\ c.ins \in Rows /\ object' = object
          /\ c.ins.group \in Groups /\ list' = [list EXCEPT ![c.ins.group] = {}]
      BY <1>0, <1>10, CallFacts DEF Clear, Unlist, TypeOK
    <2>a. Goes(p, Has(c.key, c.ins)) \/ Goes(p, Idle)
      BY <1>10 DEF Clear, Unlist
    <2>2. c.ins.group = G[c.key]
      BY <2>1 DEF CopiesInGroup
    <2>3. \A g \in Groups : list'[g] \in {list[g], {}}
      BY <2>1 DEF TypeOK
    <2> QED BY <2>a, <2>1, <2>2, <2>3, HasTypes, IdleTypes, QuietCopies
  <1>11. CASE Unset(p)
    <2> DEFINE e == [c EXCEPT !.pc = "unlist"]
    <2>1. c.pc = "unset" /\ c.key \in Ids /\ c.ins \in Rows /\ list' = list
          /\ object' = [object EXCEPT ![c.key] = NULL]
          /\ (Goes(p, Idle) \/ Goes(p, e))
      BY <1>0, <1>11, CallFacts DEF Unset
    <2>2. c.ins.group = G[c.key]
      BY <2>1 DEF CopiesInGroup
    <2>3. \A i \in Ids : object'[i] \in {object[i], NULL}
      BY <2>1 DEF TypeOK
    <2>4. e.pc = "unlist" /\ e.key = c.key /\ e.ins = c.ins
      BY <1>0, <2>1, CallFacts
    <2> HIDE DEF e
    <2> QED BY <2>1, <2>2, <2>3, <2>4, IdleTypes, QuietCopies
  <1> QED BY <1>1, <1>2, <1>3, <1>4, <1>5, <1>6, <1>7, <1>8, <1>9, <1>10, <1>11

(* What the steps that commit nothing keep of the lists.                   *)
LEMMA ListsFreshNext ==
  ASSUME TypeOK, ListsFresh, ObjectsFresh, QueriesApart, NEW p \in Procs,
         \/ \E i \in Ids : Fetch(p, i)
         \/ \E i \in Ids, want \in Names \cup {NULL} : Get(p, i, want)
         \/ \E g \in Groups, want \in Names \cup {NULL} : Query(p, g, want)
         \/ Forget(p) \/ Look(p) \/ Keep(p) \/ Filter(p) \/ Store(p)
         \/ Set(p) \/ Clear(p) \/ Unset(p) \/ Unlist(p)
  PROVE  ListsFresh'
  <1> DEFINE c == call[p]
  <1>0. c \in Calls /\ behind \in SUBSET Procs
    BY DEF TypeOK
  <1>1. \A q \in Procs : q # p => call'[q] = call[q]
    <2>1. \E k : Goes(p, k)
      BY DEF Fetch, Get, Query, Forget, Look, Keep, Filter, Store, Set, Clear, Unset, Unlist
    <2> QED BY <2>1 DEF Goes, TypeOK
  <1>a. ASSUME UNCHANGED <<overtaken, missed, partial>>,
               \A q \in behind' : q \in behind \/ q = p,
               p \in behind' => call'[p].pc # "store"
        PROVE  ListsFresh'
    BY <1>0, <1>1, <1>a DEF ListsFresh
  <1>b. ASSUME \A q \in behind' : q \in behind \/ q = p,
               p \in behind' => call'[p].pc # "store",
               (overtaken' \cup missed') \cap Groups = {}, partial' = {}
        PROVE  ListsFresh'
    BY <1>0, <1>1, <1>b DEF ListsFresh
  <1>2. ASSUME NEW i \in Ids, Fetch(p, i) PROVE ListsFresh'
    <2>1. row[i] \in Rows /\ call'[p] = Has(i, row[i])
      BY <1>2 DEF Fetch, Goes, TypeOK
    <2> QED BY <1>2, <1>a, <2>1, HasTypes DEF Fetch, history
  <1>3. ASSUME NEW i \in Ids, NEW want \in Names \cup {NULL}, Get(p, i, want) PROVE ListsFresh'
    <2>1. object[i] # NULL => object[i] \in Rows
      BY DEF TypeOK
    <2>2. call'[p].pc # "store"
      BY <1>3, <2>1, HasTypes DEF Get, Goes, TypeOK
    <2> QED BY <1>3, <1>a, <2>2 DEF Get
  <1>4. ASSUME NEW g \in Groups, NEW want \in Names \cup {NULL}, Query(p, g, want)
        PROVE  ListsFresh'
    <2>1. \A m \in list[g] : m[1] \in Ids /\ m[2] \in Rows
      BY DEF TypeOK, Lists
    <2>2. call'[p].pc # "store"
      BY <1>4, <2>1, HasTypes DEF Query, Goes, TypeOK
    <2> QED BY <1>4, <1>a, <2>2 DEF Query
  <1>5. CASE Forget(p)
    BY <1>5, <1>a DEF Forget
  <1>6. CASE Look(p) \/ Filter(p)
    <2>1. p \notin behind
      BY <1>6 DEF Look, Filter, ObjectsFresh
    <2> QED BY <1>6, <1>a, <2>1 DEF Look, Filter, history
  <1>7. CASE Keep(p) \/ Set(p)
    <2>1. c.key \in Ids /\ p \notin behind
      BY <1>0, <1>7, CallFacts DEF Keep, Set, ObjectsFresh
    <2>2. behind' = behind /\ partial' = partial /\ Written(p, c.key)
      BY <1>7 DEF Keep, Set
    <2>3. (overtaken' \cup missed') \cap Groups = {}
      BY <2>1, <2>2 DEF Written, ListsFresh
    <2> QED BY <1>b, <2>1, <2>2, <2>3 DEF ListsFresh
  <1>8. CASE Store(p)
    <2>1. c.pc = "store" /\ c.want = NULL /\ p \notin behind
      BY <1>8 DEF Store, QueriesApart, ListsFresh
    <2>2. behind' = behind \ {p} /\ partial' = {} /\ Written(p, c.key)
      BY <1>8, <2>1 DEF Store, ListsFresh
    <2>3. (overtaken' \cup missed') \cap Groups = {}
      BY <2>1, <2>2 DEF Written, ListsFresh
    <2> QED BY <1>b, <2>2, <2>3
  <1>9. CASE Clear(p) \/ Unset(p) \/ Unlist(p)
    <2>1. behind' = behind /\ \E key : Emptied(key)
      BY <1>9 DEF Clear, Unset, Unlist
    <2>2. (overtaken' \cup missed') \cap Groups = {} /\ partial' = {}
      BY <2>1 DEF Emptied, ListsFresh
    <2>3. p \in behind => c.pc = "clear"
      BY <1>9 DEF Clear, Unset, Unlist, ObjectsFresh
    <2>4. c.pc = "clear" => call'[p].pc = "has"
      <3>1. c.pc = "clear" => Goes(p, Has(c.key, c.ins)) /\ c.key \in Ids /\ c.ins \in Rows
        BY <1>0, <1>9, CallFacts DEF Clear, Unset, Unlist
      <3> QED BY <3>1, HasTypes DEF Goes, TypeOK
    <2> QED BY <1>b, <2>1, <2>2, <2>3, <2>4
  <1> QED BY <1>2, <1>3, <1>4, <1>5, <1>6, <1>7, <1>8, <1>9

(* Every step keeps the lists fresh and the copies in their groups.        *)
LEMMA InGroupNext ==
  ASSUME NEW G
  PROVE  TypeOK /\ ObjectsFresh /\ CopiesInGroup(G) /\ ListsFresh
         /\ GroupsFixed(G) /\ GroupsFixed(G)' /\ CallsApart' /\ QueriesApart /\ QueriesApart'
         /\ [Next]_vars /\ [WholeSaves /\ NoFailure]_vars
           => CopiesInGroup(G)' /\ ListsFresh'
  <1> SUFFICES ASSUME TypeOK, ObjectsFresh, CopiesInGroup(G), ListsFresh,
                      GroupsFixed(G), GroupsFixed(G)', CallsApart', QueriesApart, QueriesApart',
                      [Next]_vars, [WholeSaves /\ NoFailure]_vars
               PROVE  CopiesInGroup(G)' /\ ListsFresh'
    OBVIOUS
  <1>1. CASE UNCHANGED vars
    <2>1. UNCHANGED <<object, list, call, behind, overtaken, missed, partial>>
      BY <1>1 DEF vars, history
    <2>2. CopiesInGroup(G)'
      BY <2>1 DEF CopiesInGroup
    <2> QED BY <2>1, <2>2 DEF ListsFresh
  <1>2. ASSUME NEW i \in Ids, ExpireObject(i) PROVE CopiesInGroup(G)' /\ ListsFresh'
    <2>1. /\ UNCHANGED <<list, call, behind>> /\ Emptied(i)
          /\ \A j \in Ids : object'[j] \in {object[j], NULL}
      BY <1>2 DEF ExpireObject, TypeOK
    <2>2. CopiesInGroup(G)'
      BY <2>1 DEF CopiesInGroup
    <2> QED BY <2>1, <2>2 DEF Emptied, ListsFresh
  <1>3. ASSUME NEW g \in Groups, ExpireList(g) PROVE CopiesInGroup(G)' /\ ListsFresh'
    <2>1. /\ UNCHANGED <<object, call, behind>> /\ Emptied(g)
          /\ \A h \in Groups : list'[h] \in {list[h], {}}
      BY <1>3 DEF ExpireList, TypeOK
    <2>2. CopiesInGroup(G)'
      BY <2>1 DEF CopiesInGroup
    <2> QED BY <2>1, <2>2 DEF Emptied, ListsFresh
  <1>4. ASSUME NEW p \in Procs, WholeSaves,
               \/ \E i \in Ids, ins \in Rows : Create(p, i, ins)
               \/ \E ins \in Rows : Save(p, ins) \/ SaveName(p, ins)
               \/ Delete(p)
        PROVE  CopiesInGroup(G)' /\ ListsFresh'
    <2>1. \E i \in Ids, ins \in Rows, new \in Rows \cup {NULL}, k \in Calls :
            Commits(p, i, ins, new, k)
      BY <1>4, FreshCommits
    <2> QED BY <2>1, CommitInGroup
  <1>5. ASSUME NEW p \in Procs,
               \/ \E i \in Ids : Fetch(p, i)
               \/ \E i \in Ids, want \in Names \cup {NULL} : Get(p, i, want)
               \/ \E g \in Groups, want \in Names \cup {NULL} : Query(p, g, want)
               \/ Forget(p) \/ Look(p) \/ Keep(p) \/ Filter(p) \/ Store(p)
               \/ Set(p) \/ Clear(p) \/ Unset(p) \/ Unlist(p)
        PROVE  CopiesInGroup(G)' /\ ListsFresh'
    BY <1>5, CopiesNext, ListsFreshNext
  <1>6. CASE NoFailure /\ WholeSaves
    BY <1>1, <1>2, <1>3, <1>4, <1>5, <1>6 DEF Next, NoFailure
  <1> QED BY <1>1, <1>6

(* When besides no row leaves its group, cache_query is asked for groups   *)
(* only and no list is stored over a commit that it has not seen, a cached *)
(* list is the rows of its group as soon as what has committed is written. *)
THEOREM ListsInSync ==
  ASSUME NEW CONSTANT G
  PROVE  Spec /\ []CallsApart /\ []GroupsFixed(G) /\ []QueriesApart
         /\ [][WholeSaves /\ NoFailure]_vars
           => [](\A g \in Groups : list[g] \in {{}, Members(g, NULL)} \/ Due(g))
  <1>1. Init => ObjectsFresh /\ CopiesInGroup(G) /\ ListsFresh
    BY IdleTypes DEF Init, ObjectsFresh, CopiesInGroup, ListsFresh
  <1>2. KeptInv /\ ListsFresh => \A g \in Groups : list[g] \in {{}, Members(g, NULL)} \/ Due(g)
    BY DEF KeptInv, ListKept, ListsFresh
  <1> QED BY <1>1, <1>2, TypeInit, TypeNext, KeptInit, KeptNext, FreshNext, InGroupNext, PTL
          DEF Spec
==============================================================================
