-------------------------- MODULE ModelCountProofs --------------------------
(***************************************************************************)
(* Proofs about ModelCount, for any number of rows, clients and syncs.     *)
(***************************************************************************)
EXTENDS ModelCount, TLAPS

(* What an entry is after it was loaded, added to or put back.             *)
LEMMA EntryTypes ==
  /\ \A n \in Nat : Loaded(n) \in Entries
  /\ \A e \in Entries, n \in Nat, d \in Nat :
       [num |-> e.num + n, timeout |-> e.timeout + 1, unique |-> d] \in Entries
  /\ \A e \in Entries : e.timeout > 0 => [e EXCEPT !.timeout = e.timeout - 1] \in Entries
  BY ConstantsAssumption DEF Entries, Loaded

(* A counter that is loaded, added to and put back stays a number.         *)
LEMMA KnownTypes ==
  ASSUME NEW k \in Calls, k.pc \in {"read", "fill"},
         \A i \in k.ids : k.held[i] # NULL
  PROVE  /\ Known(k) \in Calls
         /\ Known(k).pc \in {"idle", "add"}
         /\ \A i \in Known(k).ids : Known(k).held[i] # NULL
         /\ Known(k).pc = "add" => Known(k).ids = k.ids /\ Known(k).held = k.held
  <1>1. Idle \in Calls /\ Idle.ids = {}
    BY ConstantsAssumption DEF Idle, Calls, Nothing
  <1>2. [k EXCEPT !.pc = "add"] \in Calls
    BY DEF Calls
  <1> QED BY <1>1, <1>2 DEF Known, Idle, Calls

(* The type invariant holds at first.                                      *)
LEMMA TypeInit == Init => TypeOK
  <1> SUFFICES ASSUME Init PROVE TypeOK
    OBVIOUS
  <1>1. Idle \in Calls /\ Idle.pc = "idle"
    BY ConstantsAssumption DEF Idle, Calls, Nothing
  <1> QED BY <1>1, ConstantsAssumption DEF Init, TypeOK, Nothing

(* late stays a set of rows for each process.                              *)
LEMMA AddedTypes ==
  ASSUME TypeOK, NEW ids \in SUBSET Ids, Added(ids)
  PROVE  late' \in [Procs -> SUBSET Ids]
  BY DEF TypeOK, Added

(* A process that goes on with a well typed call leaves the others alone.  *)
LEMMA CallTypes ==
  ASSUME TypeOK, NEW c \in Procs, NEW e \in Calls, call' = [call EXCEPT ![c] = e],
         e.pc \in {"fill", "add", "rows"} => \A i \in e.ids : e.held[i] # NULL
  PROVE  /\ call' \in [Procs -> Calls]
         /\ \A d \in Procs : call'[d].pc \in {"fill", "add", "rows"} =>
              \A i \in call'[d].ids : call'[d].held[i] # NULL
  BY DEF TypeOK

(* Every step of a client keeps the types.                                 *)
LEMMA TypeClient ==
  ASSUME TypeOK, NEW c \in Clients,
         \/ \E ids \in SUBSET Ids : Load(c, ids)
         \/ \E i \in Ids : Increment(c, i) \/ \E n \in Nums : Add(c, i, n)
         \/ Read(c) \/ Query(c) \/ Fill(c)
  PROVE  TypeOK'
  <1> USE ConstantsAssumption
  <1>0. c \in Procs
    BY DEF Procs
  <1>1. Idle \in Calls /\ Idle.pc = "idle" /\ Idle.ids = {}
    BY DEF Idle, Calls, Nothing
  <1>2. ASSUME NEW op \in {"load", "add"}, NEW ids \in SUBSET Ids, NEW num \in Nat,
               Begin(c, op, ids, num), adds' \in 0..MaxAdds
        PROVE  TypeOK'
    <2>1. [pc |-> "read", op |-> op, ids |-> ids, num |-> num,
           only |-> IF op = "add" THEN today ELSE 0, held |-> Nothing] \in Calls
      BY DEF Calls, TypeOK, Nothing
    <2>2. late' \in [Procs -> SUBSET Ids]
      BY <1>2, AddedTypes DEF Begin
    <2>3. call' = [call EXCEPT ![c] = [pc |-> "read", op |-> op, ids |-> ids, num |-> num,
           only |-> IF op = "add" THEN today ELSE 0, held |-> Nothing]]
      BY <1>2 DEF Begin
    <2>4. /\ call' \in [Procs -> Calls]
          /\ \A d \in Procs : call'[d].pc \in {"fill", "add", "rows"} =>
               \A i \in call'[d].ids : call'[d].held[i] # NULL
      BY <1>0, <2>1, <2>3, CallTypes
    <2> QED BY <1>2, <2>2, <2>4 DEF Begin, TypeOK, marks
  <1>3. CASE \E ids \in SUBSET Ids : Load(c, ids)
    BY <1>2, <1>3 DEF Load, TypeOK
  <1>4. ASSUME NEW i \in Ids, NEW n \in Nums, Add(c, i, n) PROVE TypeOK'
    <2>1. n \in Nat /\ {i} \in SUBSET Ids /\ Begin(c, "add", {i}, n)
      BY <1>4 DEF Add
    <2>2. adds' \in 0..MaxAdds
      BY <1>4 DEF Add, TypeOK
    <2> QED BY <1>2, <2>1, <2>2
  <1>5. CASE Read(c)
    <2> DEFINE k == [call[c] EXCEPT !.held =
              [i \in Ids |-> IF i \in call[c].ids THEN hash[i] ELSE NULL]]
    <2>1. k \in Calls /\ k.pc = "read" /\ k.ids \in SUBSET Ids
      <3> DEFINE held == [i \in Ids |-> IF i \in call[c].ids THEN hash[i] ELSE NULL]
      <3>1. call[c] \in Calls /\ call[c].pc = "read"
        BY <1>0, <1>5 DEF Read, TypeOK
      <3>2. held \in [Ids -> Entries \cup {NULL}]
        BY DEF TypeOK
      <3> HIDE DEF held
      <3>3. [call[c] EXCEPT !.held = held] \in Calls
        BY <3>1, <3>2 DEF Calls
      <3>4. [call[c] EXCEPT !.held = held].pc = "read"
        BY <3>1 DEF Calls
      <3>5. k = [call[c] EXCEPT !.held = held]
        BY DEF held
      <3> HIDE DEF k
      <3> QED  BY <3>3, <3>4, <3>5 DEF Calls
    <2>2. [k EXCEPT !.pc = "query"] \in Calls
      BY <2>1 DEF Calls
    <2>3. late' \in [Procs -> SUBSET Ids]
      BY <1>5, AddedTypes DEF Read
    <2>4. CASE \E i \in k.ids : k.held[i] = NULL
      <3>1. call' = [call EXCEPT ![c] = [k EXCEPT !.pc = "query"]]
        BY <1>5, <2>4 DEF Read
      <3> HIDE DEF k
      <3>2. [k EXCEPT !.pc = "query"].pc = "query"
        BY <2>1 DEF Calls
      <3>3. /\ call' \in [Procs -> Calls]
            /\ \A d \in Procs : call'[d].pc \in {"fill", "add", "rows"} =>
                 \A i \in call'[d].ids : call'[d].held[i] # NULL
        BY <1>0, <2>2, <3>1, <3>2, CallTypes
      <3> QED BY <1>5, <2>3, <3>3 DEF Read, TypeOK, marks
    <2>5. CASE \A i \in k.ids : k.held[i] # NULL
      <3>1. call' = [call EXCEPT ![c] = Known(k)]
        BY <1>5, <2>5 DEF Read
      <3> HIDE DEF k
      <3>2. /\ Known(k) \in Calls
            /\ \A i \in Known(k).ids : Known(k).held[i] # NULL
        BY <2>1, <2>5, KnownTypes
      <3>3. /\ call' \in [Procs -> Calls]
            /\ \A d \in Procs : call'[d].pc \in {"fill", "add", "rows"} =>
                 \A i \in call'[d].ids : call'[d].held[i] # NULL
        BY <1>0, <3>1, <3>2, CallTypes
      <3> QED BY <1>5, <2>3, <3>3 DEF Read, TypeOK, marks
    <2> QED BY <2>4, <2>5
  <1>6. CASE Query(c)
    <2> DEFINE k == call[c]
               found == { i \in k.ids : k.held[i] = NULL /\ row[i] # NULL }
               e == [k EXCEPT !.pc = "fill", !.ids = found,
                      !.held = [i \in Ids |-> IF i \in found THEN Loaded(row[i]) ELSE k.held[i]]]
    <2>1. k \in Calls /\ found \in SUBSET Ids
      BY <1>0 DEF TypeOK, Calls
    <2>2. \A i \in found : Loaded(row[i]) \in Entries
      BY <2>1, EntryTypes DEF TypeOK
    <2>3. e \in Calls /\ \A i \in e.ids : e.held[i] # NULL
      <3>1. \A i \in Ids : k.held[i] \in Entries \cup {NULL}
        BY <2>1 DEF Calls
      <3>2. [i \in Ids |-> IF i \in found THEN Loaded(row[i]) ELSE k.held[i]]
              \in [Ids -> Entries \cup {NULL}]
        BY <2>2, <3>1
      <3>3. \A i \in found : Loaded(row[i]) # NULL
        BY <2>2
      <3> HIDE DEF found
      <3> QED BY <2>1, <3>2, <3>3 DEF Calls
    <2>4. call' = [call EXCEPT ![c] = IF found = {} THEN Idle ELSE e]
      BY <1>6 DEF Query
    <2>5. late' \in [Procs -> SUBSET Ids]
      BY <1>6, AddedTypes DEF Query
    <2> HIDE DEF k, found, e
    <2>6. /\ call' \in [Procs -> Calls]
          /\ \A d \in Procs : call'[d].pc \in {"fill", "add", "rows"} =>
               \A i \in call'[d].ids : call'[d].held[i] # NULL
      BY <1>0, <1>1, <2>3, <2>4, CallTypes
    <2> QED BY <1>6, <2>5, <2>6 DEF Query, TypeOK, marks
  <1>7. CASE Fill(c)
    <2>1. /\ call[c] \in Calls /\ call[c].pc = "fill"
          /\ \A i \in call[c].ids : call[c].held[i] # NULL
      BY <1>0, <1>7 DEF Fill, TypeOK
    <2>2. /\ Known(call[c]) \in Calls
          /\ \A i \in Known(call[c]).ids : Known(call[c]).held[i] # NULL
      BY <2>1, KnownTypes
    <2>3. late' \in [Procs -> SUBSET Ids]
      BY <1>7, AddedTypes DEF Fill
    <2>4. hash' \in [Ids -> Entries \cup {NULL}] /\ overtaken' \in SUBSET Ids
      BY <1>0, <1>7, <2>1 DEF Fill, TypeOK, Calls, Writes
    <2> QED BY <1>0, <1>7, <2>2, <2>3, <2>4 DEF Fill, TypeOK, marks
  <1>8. ASSUME NEW i \in Ids, Increment(c, i) PROVE TypeOK'
    <2> DEFINE k == call[c]
    <2>1. k \in Calls /\ k.held[i] \in Entries
      BY <1>0, <1>8 DEF Increment, TypeOK, Calls
    <2>2. k.num \in Nat /\ k.only \in 0..MaxDay /\ k.only \in Nat
      BY <2>1 DEF Calls
    <2>3. [num |-> k.held[i].num + k.num, timeout |-> k.held[i].timeout + 1,
           unique |-> k.only] \in Entries
      BY <2>1, <2>2, EntryTypes
    <2>4. late' \in [Procs -> SUBSET Ids]
      BY <1>8, AddedTypes DEF Increment
    <2>5. /\ hash' \in [Ids -> Entries \cup {NULL}]
          /\ call' = [call EXCEPT ![c] = Idle]
      BY <1>8, <2>3 DEF Increment, TypeOK
    <2>6. due' \in [Ids -> Nat] /\ overtaken' \in SUBSET Ids
      BY <1>0, <1>8, <2>2 DEF Increment, TypeOK, Writes
    <2>7. /\ counted' \in [Ids -> SUBSET (0..MaxDay)]
          /\ unmarked' \in SUBSET Ids /\ again' \in SUBSET Ids
      BY <1>8, <2>2 DEF Increment, TypeOK
    <2> HIDE DEF k
    <2>8. /\ call' \in [Procs -> Calls]
          /\ \A d \in Procs : call'[d].pc \in {"fill", "add", "rows"} =>
               \A j \in call'[d].ids : call'[d].held[j] # NULL
      BY <1>0, <1>1, <2>5, CallTypes
    <2> QED BY <1>8, <2>4, <2>5, <2>6, <2>7, <2>8 DEF Increment, TypeOK, marks
  <1> QED BY <1>3, <1>4, <1>5, <1>6, <1>7, <1>8

(* Every step of a sync keeps the types.                                   *)
LEMMA TypeSync ==
  ASSUME TypeOK, NEW c \in Syncers, SyncStep(c)
  PROVE  TypeOK'
  <1> USE ConstantsAssumption
  <1>0. c \in Procs /\ call[c] \in Calls
    BY DEF Procs, TypeOK
  <1>1. Idle \in Calls /\ Idle.pc = "idle" /\ Idle.ids = {}
    BY DEF Idle, Calls, Nothing
  <1>2. CASE Snapshot(c)
    <2> DEFINE e == [pc |-> "rows", op |-> "sync", ids |-> { i \in Ids : hash[i] # NULL },
                     num |-> 0, only |-> 0, held |-> hash]
    <2>1. e \in Calls /\ \A i \in e.ids : e.held[i] # NULL
      BY DEF Calls, TypeOK
    <2>2. late' \in [Procs -> SUBSET Ids]
      BY <1>2, AddedTypes DEF Snapshot
    <2>3. call' = [call EXCEPT ![c] = e]
      BY <1>2 DEF Snapshot
    <2> HIDE DEF e
    <2>4. /\ call' \in [Procs -> Calls]
          /\ \A d \in Procs : call'[d].pc \in {"fill", "add", "rows"} =>
               \A i \in call'[d].ids : call'[d].held[i] # NULL
      BY <1>0, <2>1, <2>3, CallTypes
    <2> QED BY <1>2, <2>2, <2>4 DEF Snapshot, TypeOK, marks
  <1>3. ASSUME NEW i \in Ids, WriteRow(c, i) PROVE TypeOK'
    <2> DEFINE k == call[c]
               e == [k EXCEPT !.ids = k.ids \ {i}]
    <2>1. k.pc = "rows" /\ i \in k.ids /\ k.held[i] \in Entries
      BY <1>0, <1>3 DEF WriteRow, TypeOK, Calls
    <2>2. e \in Calls /\ e.pc = "rows" /\ e.ids \subseteq k.ids /\ e.held = k.held
      BY <1>0, <2>1 DEF Calls
    <2>3. row' \in [Ids -> Nat \cup {NULL}] /\ overtaken' \in SUBSET Ids
      BY <1>0, <1>3, <2>1 DEF WriteRow, TypeOK, Entries, Writes
    <2>4. late' \in [Procs -> SUBSET Ids]
      BY <1>3, AddedTypes DEF WriteRow
    <2>5. call' = [call EXCEPT ![c] = e]
      BY <1>3 DEF WriteRow
    <2>6. \A j \in e.ids : e.held[j] # NULL
      BY <1>0, <2>1, <2>2 DEF TypeOK
    <2> HIDE DEF k, e
    <2>7. /\ call' \in [Procs -> Calls]
          /\ \A d \in Procs : call'[d].pc \in {"fill", "add", "rows"} =>
               \A j \in call'[d].ids : call'[d].held[j] # NULL
      BY <1>0, <2>2, <2>5, <2>6, CallTypes
    <2> QED BY <1>3, <2>3, <2>4, <2>7 DEF WriteRow, TypeOK, marks
  <1>4. CASE DeleteHash(c)
    <2> DEFINE e == IF Kept(call[c]) = {} THEN Idle ELSE [call[c] EXCEPT !.pc = "restore"]
    <2>1. e \in Calls /\ e.pc \in {"idle", "restore"}
      BY <1>0, <1>1 DEF Calls
    <2>2. hash' \in [Ids -> Entries \cup {NULL}] /\ overtaken' \in SUBSET Ids
      BY <1>0, <1>4 DEF DeleteHash, TypeOK, Writes, Nothing
    <2>3. late' \in [Procs -> SUBSET Ids] /\ unmarked' \in SUBSET Ids
      BY <1>4, AddedTypes DEF DeleteHash, TypeOK
    <2>4. call' = [call EXCEPT ![c] = e]
      BY <1>4 DEF DeleteHash
    <2> HIDE DEF e
    <2>5. /\ call' \in [Procs -> Calls]
          /\ \A d \in Procs : call'[d].pc \in {"fill", "add", "rows"} =>
               \A i \in call'[d].ids : call'[d].held[i] # NULL
      BY <1>0, <2>1, <2>4, CallTypes
    <2> QED BY <1>4, <2>2, <2>3, <2>5 DEF DeleteHash, TypeOK, marks
  <1>5. CASE Restore(c)
    <2> DEFINE k == call[c]
    <2>1. \A i \in Kept(k) : [k.held[i] EXCEPT !.timeout = k.held[i].timeout - 1] \in Entries
      BY <1>0, EntryTypes DEF Kept, Calls
    <2>2. hash' \in [Ids -> Entries \cup {NULL}] /\ overtaken' \in SUBSET Ids
      BY <1>0, <1>5, <2>1 DEF Restore, TypeOK, Writes
    <2>3. late' \in [Procs -> SUBSET Ids] /\ unmarked' \in SUBSET Ids
      BY <1>5, AddedTypes DEF Restore, TypeOK
    <2> QED BY <1>0, <1>1, <1>5, <2>2, <2>3 DEF Restore, TypeOK, marks
  <1> QED BY <1>2, <1>3, <1>4, <1>5 DEF SyncStep

(* The type invariant is inductive.                                        *)
LEMMA TypeNext == TypeOK /\ [Next]_vars => TypeOK'
  <1> SUFFICES ASSUME TypeOK, [Next]_vars PROVE TypeOK'
    OBVIOUS
  <1> USE ConstantsAssumption
  <1>1. ASSUME NEW c \in Procs, Crash(c) PROVE TypeOK'
    <2>1. Idle \in Calls /\ Idle.pc = "idle"
      BY DEF Idle, Calls, Nothing
    <2>2. late' \in [Procs -> SUBSET Ids]
      BY <1>1, AddedTypes DEF Crash
    <2>3. /\ call' \in [Procs -> Calls]
          /\ \A d \in Procs : call'[d].pc \in {"fill", "add", "rows"} =>
               \A i \in call'[d].ids : call'[d].held[i] # NULL
      BY <1>1, <2>1, CallTypes DEF Crash
    <2>4. faults' \in 0..MaxFaults
      BY <1>1 DEF Crash, TypeOK
    <2> QED BY <1>1, <2>2, <2>3, <2>4 DEF Crash, TypeOK, marks
  <1>2. ASSUME NEW i \in Ids, DeleteRow(i) PROVE TypeOK'
    BY <1>2 DEF DeleteRow, TypeOK, marks
  <1>3. CASE Midnight
    BY <1>3 DEF Midnight, TypeOK, marks
  <1>4. CASE UNCHANGED vars
    BY <1>4 DEF vars, marks, TypeOK
  <1> QED BY <1>1, <1>2, <1>3, <1>4, TypeClient, TypeSync DEF Next, Procs

(* Every reachable state is well typed: no timeout becomes negative, and   *)
(* no write lacks what it writes.                                          *)
THEOREM TypeCorrect == Spec => []TypeOK
  BY TypeInit, TypeNext, PTL DEF Spec

-----------------------------------------------------------------------------
(* Why no addition is lost: what a process holds is the count that is due, *)
(* and where it holds nothing the column is, unless it is late.            *)
HoldsDue(c, i) ==
  Holding(c) /\ i \notin late[c] =>
    /\ call[c].held[i] # NULL => call[c].held[i].num = due[i]
    /\ call[c].pc = "query" /\ i \in call[c].ids /\ call[c].held[i] = NULL => row[i] = due[i]
    /\ call[c].pc = "rows" /\ i \notin call[c].ids => row[i] = due[i]

Sound(i) == row[i] # NULL /\ i \notin overtaken

CountInv ==
  \A i \in Ids : Sound(i) => Count(i) = due[i] /\ \A c \in Procs : HoldsDue(c, i)

(* A step of one process leaves what the others hold due, unless it adds   *)
(* to it, and then they are late.                                          *)
LEMMA OthersHold ==
  ASSUME TypeOK, NEW c \in Procs, NEW d \in Procs, d # c, NEW e, NEW ids,
         call' = [call EXCEPT ![c] = e], Added(ids),
         NEW i \in Ids, HoldsDue(d, i),
         i \notin ids => due'[i] = due[i] /\ row'[i] \in {row[i], due[i]}
  PROVE  HoldsDue(d, i)'
  <1>1. call'[d] = call[d]
    BY DEF TypeOK
  <1>2. Holding(d)' => \/ i \notin ids /\ Holding(d) /\ late'[d] = late[d] \cup ids
                       \/ i \in late'[d]
    BY <1>1 DEF Added, Holding
  <1> QED BY <1>1, <1>2 DEF HoldsDue

(* The counts are due in every initial state.                              *)
LEMMA CountInit == Init => CountInv
  BY DEF Init, CountInv, Count, HoldsDue, Holding, Idle, Nothing, Sound

(* What a step has to keep for the counts to stay due.                     *)
LEMMA CountStep ==
  ASSUME TypeOK, CountInv, NEW c \in Procs, NEW e, NEW ids,
         call' = [call EXCEPT ![c] = e], Added(ids),
         \A i \in Ids : Sound(i)' =>
           /\ Sound(i)
           /\ i \notin ids => due'[i] = due[i] /\ row'[i] \in {row[i], due[i]}
           /\ Count(i)' = due'[i]
           /\ HoldsDue(c, i)'
  PROVE  CountInv'
  <1>1. ASSUME NEW i \in Ids, Sound(i)', NEW d \in Procs PROVE HoldsDue(d, i)'
    <2>1. Sound(i) /\ HoldsDue(d, i)
      BY <1>1 DEF CountInv
    <2>2. CASE d = c
      BY <1>1, <2>2
    <2>3. CASE d # c
      BY <1>1, <2>1, <2>3, OthersHold
    <2> QED BY <2>2, <2>3
  <1> QED BY <1>1 DEF CountInv

(* A process that became idle holds nothing.                               *)
LEMMA IdleHolds ==
  ASSUME NEW c, NEW i, call'[c] = Idle PROVE HoldsDue(c, i)'
  BY DEF HoldsDue, Holding, Idle

(* What a process goes on with after it has its counts.                    *)
LEMMA KnownHolds ==
  ASSUME NEW k \in Calls
  PROVE  \/ Known(k) = Idle
         \/ Known(k).pc = "add" /\ Known(k).held = k.held /\ Known(k).ids = k.ids
  BY DEF Known, Calls

(* The steps of a client keep the counts due.                              *)
LEMMA CountClient ==
  ASSUME TypeOK, CountInv, NEW c \in Clients,
         \/ \E ids \in SUBSET Ids : Load(c, ids)
         \/ \E i \in Ids : Increment(c, i) \/ \E n \in Nums : Add(c, i, n)
         \/ Read(c) \/ Query(c) \/ Fill(c)
  PROVE  CountInv'
  <1>0. c \in Procs /\ call[c] \in Calls
    BY DEF Procs, TypeOK
  <1>1. ASSUME NEW op, NEW ids, NEW num, Begin(c, op, ids, num) PROVE CountInv'
    <2> DEFINE e == [pc |-> "read", op |-> op, ids |-> ids, num |-> num,
                     only |-> IF op = "add" THEN today ELSE 0, held |-> Nothing]
    <2>1. call' = [call EXCEPT ![c] = e] /\ Added({})
      BY <1>1 DEF Begin
    <2>2. ASSUME NEW i \in Ids PROVE HoldsDue(c, i)'
      BY <1>0, <2>1 DEF HoldsDue, Holding, TypeOK
    <2>3. UNCHANGED <<row, hash, due, overtaken>>
      BY <1>1 DEF Begin
    <2> HIDE DEF e
    <2> QED BY <1>0, <2>1, <2>2, <2>3, CountStep DEF CountInv, Sound, Count
  <1>2. CASE \E ids \in SUBSET Ids : Load(c, ids)
    BY <1>1, <1>2 DEF Load
  <1>3. CASE \E i \in Ids, n \in Nums : Add(c, i, n)
    BY <1>1, <1>3 DEF Add
  <1>4. CASE Read(c)
    <2> DEFINE k == [call[c] EXCEPT !.held =
              [i \in Ids |-> IF i \in call[c].ids THEN hash[i] ELSE NULL]]
               e == IF \E i \in k.ids : k.held[i] = NULL THEN [k EXCEPT !.pc = "query"]
                    ELSE Known(k)
    <2>1. /\ k \in Calls /\ k.ids = call[c].ids
          /\ \A i \in Ids : k.held[i] = IF i \in k.ids THEN hash[i] ELSE NULL
      BY <1>0, <1>4 DEF Read, TypeOK, Calls
    <2>2. call' = [call EXCEPT ![c] = e] /\ Added({})
      BY <1>4 DEF Read
    <2>3. UNCHANGED <<row, hash, due, overtaken>>
      BY <1>4 DEF Read
    <2>4. call'[c] = e
      BY <1>0, <2>2 DEF TypeOK
    <2> HIDE DEF k
    <2>5. e = Idle \/ (e.pc \in {"query", "add"} /\ e.held = k.held /\ e.ids = k.ids)
      BY <2>1, KnownHolds DEF Calls
    <2> HIDE DEF e
    <2>6. ASSUME NEW i \in Ids, Sound(i)' PROVE HoldsDue(c, i)'
      <3>1. Count(i) = due[i]
        BY <2>3, <2>6 DEF CountInv, Sound
      <3>2. CASE e = Idle
        BY <2>4, <3>2, IdleHolds
      <3>3. CASE e.pc \in {"query", "add"} /\ e.held = k.held /\ e.ids = k.ids
        BY <2>1, <2>3, <2>4, <3>1, <3>3 DEF HoldsDue, Count
      <3> QED BY <2>5, <3>2, <3>3
    <2> QED BY <1>0, <2>2, <2>3, <2>6, CountStep DEF CountInv, Sound, Count
  <1>5. CASE Query(c)
    <2> DEFINE k == call[c]
               found == { i \in k.ids : k.held[i] = NULL /\ row[i] # NULL }
               e == IF found = {} THEN Idle
                    ELSE [k EXCEPT !.pc = "fill", !.ids = found,
                           !.held = [i \in Ids |-> IF i \in found THEN Loaded(row[i])
                                                   ELSE k.held[i]]]
    <2>1. call' = [call EXCEPT ![c] = e] /\ Added({}) /\ UNCHANGED <<row, hash, due, overtaken>>
      BY <1>5 DEF Query
    <2>2. call'[c] = e
      BY <1>0, <2>1 DEF TypeOK
    <2>3. k.pc = "query" /\ Holding(c)
      BY <1>5 DEF Query, Holding
    <2>4. e = Idle \/ (e.pc = "fill" /\ \A i \in Ids :
            e.held[i] = IF i \in found THEN Loaded(row[i]) ELSE k.held[i])
      BY <1>0 DEF Calls
    <2>5. \A i \in Ids : i \in found => i \in k.ids /\ k.held[i] = NULL
      OBVIOUS
    <2>6. \A i \in Ids : late'[c] = {} \/ late'[c] = late[c]
      BY <1>0, <2>1 DEF Added
    <2> HIDE DEF found, e
    <2>7. ASSUME NEW i \in Ids, Sound(i)' PROVE HoldsDue(c, i)'
      <3>1. HoldsDue(c, i)
        BY <1>0, <2>1, <2>7 DEF CountInv, Sound
      <3>2. CASE e = Idle
        BY <2>2, <3>2, IdleHolds
      <3>3. CASE e # Idle
        <4>1. late'[c] = late[c]
          BY <1>0, <2>1, <2>2, <2>3, <2>4, <3>3 DEF Added, Holding
        <4>2. i \notin late[c] =>
                (k.held[i] # NULL => k.held[i].num = due[i]) /\ (i \in found => row[i] = due[i])
          BY <2>3, <2>5, <3>1 DEF HoldsDue
        <4>3. e.pc = "fill" /\ e.held[i] = IF i \in found THEN Loaded(row[i]) ELSE k.held[i]
          BY <2>4, <3>3
        <4>4. Loaded(row[i]).num = row[i]
          BY DEF Loaded
        <4>5. i \notin late[c] /\ e.held[i] # NULL => e.held[i].num = due[i]
          BY <4>2, <4>3, <4>4
        <4> QED BY <2>1, <2>2, <4>1, <4>3, <4>5 DEF HoldsDue
      <3> QED BY <3>2, <3>3
    <2> QED BY <1>0, <2>1, <2>7, CountStep DEF CountInv, Sound, Count
  <1>6. CASE Fill(c)
    <2> DEFINE k == call[c]
    <2>1. /\ call' = [call EXCEPT ![c] = Known(k)] /\ Added({})
          /\ UNCHANGED <<row, due>> /\ k.pc = "fill" /\ Holding(c)
          /\ overtaken' = overtaken \cup (late[c] \cap k.ids)
          /\ hash' = [i \in Ids |-> IF i \in k.ids THEN k.held[i] ELSE hash[i]]
      BY <1>6 DEF Fill, Holding, Writes
    <2>2. call'[c] = Known(k)
      BY <1>0, <2>1 DEF TypeOK
    <2>3. \A i \in k.ids : k.held[i] # NULL
      BY <1>0, <2>1 DEF TypeOK
    <2>4. \/ Known(k) = Idle
          \/ Known(k).pc = "add" /\ Known(k).held = k.held /\ Known(k).ids = k.ids
      BY <1>0, KnownHolds
    <2>5. ASSUME NEW i \in Ids, Sound(i)' PROVE Count(i)' = due'[i] /\ HoldsDue(c, i)'
      <3>1. Sound(i) /\ (i \in k.ids => i \notin late[c])
        BY <2>1, <2>5 DEF Sound
      <3>2. Count(i) = due[i] /\ HoldsDue(c, i)
        BY <1>0, <3>1 DEF CountInv
      <3>3. Count(i)' = due'[i]
        BY <2>1, <2>3, <3>1, <3>2 DEF Count, HoldsDue
      <3>4. CASE Known(k) = Idle
        BY <2>2, <3>3, <3>4, IdleHolds
      <3>5. CASE Known(k) # Idle
        <4>1. late'[c] = late[c]
          BY <1>0, <2>1, <2>2, <2>4, <3>5 DEF Added, Holding
        <4> QED BY <2>1, <2>2, <2>4, <3>2, <3>3, <3>5, <4>1 DEF HoldsDue
      <3> QED BY <3>4, <3>5
    <2>6. \A i \in Ids : Sound(i)' => Sound(i)
      BY <2>1 DEF Sound
    <2> QED BY <1>0, <2>1, <2>5, <2>6, CountStep
  <1>7. ASSUME NEW i \in Ids, Increment(c, i) PROVE CountInv'
    <2> DEFINE k == call[c]
               n == [num |-> k.held[i].num + k.num, timeout |-> k.held[i].timeout + 1,
                     unique |-> k.only]
    <2>1. /\ call' = [call EXCEPT ![c] = Idle] /\ Added({i})
          /\ row' = row /\ k.pc = "add" /\ i \in k.ids /\ Holding(c)
          /\ overtaken' = overtaken \cup (late[c] \cap {i})
          /\ hash' = [hash EXCEPT ![i] = n]
          /\ due' = [due EXCEPT ![i] = due[i] + k.num]
      BY <1>7 DEF Increment, Holding, Writes
    <2>2. k.held[i] # NULL /\ k.held[i] \in Entries /\ k.num \in Nat /\ k.only \in Nat
      <3>1. k \in Calls /\ k.pc = "add" /\ i \in k.ids
        BY <1>0, <2>1 DEF TypeOK
      <3>2. k.held[i] # NULL
        BY <1>0, <2>1 DEF TypeOK
      <3> HIDE DEF k
      <3>3. k.held[i] \in Entries \cup {NULL} /\ k.num \in Nat /\ k.only \in Nat
        BY <3>1 DEF Calls
      <3> QED BY <3>2, <3>3
    <2>3. n \in Entries /\ n # NULL /\ n.num = k.held[i].num + k.num
      BY <2>2, EntryTypes, ConstantsAssumption
    <2>4. call'[c] = Idle
      BY <1>0, <2>1 DEF TypeOK
    <2> HIDE DEF n
    <2>5. ASSUME NEW j \in Ids, Sound(j)' PROVE Sound(j) /\ Count(j)' = due'[j]
      <3>1. Sound(j) /\ (j = i => i \notin late[c])
        BY <2>1, <2>5 DEF Sound
      <3>2. Count(j) = due[j] /\ HoldsDue(c, j)
        BY <1>0, <3>1 DEF CountInv
      <3>3. CASE j = i
        <4>1. k.held[i].num = due[i]
          BY <2>1, <2>2, <3>1, <3>2, <3>3 DEF HoldsDue
        <4> QED BY <2>1, <2>3, <3>1, <3>3, <4>1 DEF Count, TypeOK
      <3>4. CASE j # i
        BY <2>1, <3>1, <3>2, <3>4 DEF Count, TypeOK
      <3> QED BY <3>3, <3>4
    <2>6. \A j \in Ids : j \notin {i} => due'[j] = due[j]
      BY <2>1 DEF TypeOK
    <2> QED BY <1>0, <2>1, <2>4, <2>5, <2>6, CountStep, IdleHolds
  <1> QED BY <1>2, <1>3, <1>4, <1>5, <1>6, <1>7

(* The steps of a sync keep the counts due.                                *)
LEMMA CountSync ==
  ASSUME TypeOK, CountInv, NEW c \in Syncers, SyncStep(c)
  PROVE  CountInv'
  <1>0. c \in Procs /\ call[c] \in Calls
    BY DEF Procs, TypeOK
  <1> DEFINE k == call[c]
  <1>1. CASE Snapshot(c)
    <2> DEFINE e == [pc |-> "rows", op |-> "sync", ids |-> { i \in Ids : hash[i] # NULL },
                     num |-> 0, only |-> 0, held |-> hash]
    <2>1. call' = [call EXCEPT ![c] = e] /\ Added({}) /\ UNCHANGED <<row, hash, due, overtaken>>
      BY <1>1 DEF Snapshot
    <2>2. call'[c] = e /\ e.pc = "rows" /\ e.held = hash
          /\ \A i \in Ids : i \in e.ids <=> hash[i] # NULL
      BY <1>0, <2>1 DEF TypeOK
    <2> HIDE DEF e
    <2>3. ASSUME NEW i \in Ids, Sound(i)' PROVE HoldsDue(c, i)'
      <3>1. Count(i) = due[i]
        BY <2>1, <2>3 DEF CountInv, Sound
      <3> QED BY <2>1, <2>2, <3>1 DEF HoldsDue, Count
    <2> QED BY <1>0, <2>1, <2>3, CountStep DEF CountInv, Sound, Count
  <1>2. ASSUME NEW i \in Ids, WriteRow(c, i) PROVE CountInv'
    <2> DEFINE e == [k EXCEPT !.ids = k.ids \ {i}]
    <2>1. /\ call' = [call EXCEPT ![c] = e] /\ Added({})
          /\ UNCHANGED <<hash, due>> /\ k.pc = "rows" /\ i \in k.ids /\ Holding(c)
          /\ overtaken' = overtaken \cup (late[c] \cap {i})
          /\ row' = [row EXCEPT ![i] = IF row[i] = NULL THEN NULL ELSE k.held[i].num]
      BY <1>2 DEF WriteRow, Holding, Writes
    <2>2. call'[c] = e /\ e.pc = "rows" /\ e.held = k.held /\ e.ids = k.ids \ {i}
      BY <1>0, <2>1 DEF TypeOK, Calls
    <2>3. k.held[i] # NULL
      BY <1>0, <2>1 DEF TypeOK
    <2> HIDE DEF e
    <2>4. late'[c] = late[c]
      BY <1>0, <2>1, <2>2 DEF Added, Holding, TypeOK
    <2>5. ASSUME NEW j \in Ids, Sound(j)'
          PROVE  /\ Sound(j) /\ row'[j] \in {row[j], due[j]}
                 /\ Count(j)' = due'[j] /\ HoldsDue(c, j)'
      <3>1. Sound(j) /\ (j = i => i \notin late[c])
        BY <2>1, <2>5 DEF Sound, TypeOK
      <3>2. Count(j) = due[j] /\ HoldsDue(c, j)
        BY <1>0, <3>1 DEF CountInv
      <3>3. row'[j] = IF j = i THEN k.held[i].num ELSE row[j]
        BY <2>1, <3>1 DEF Sound, TypeOK
      <3>4. j = i => k.held[i].num = due[i]
        BY <2>1, <2>3, <3>1, <3>2 DEF HoldsDue
      <3>5. Count(j)' = due'[j]
        BY <2>1, <3>2, <3>3, <3>4 DEF Count
      <3>6. HoldsDue(c, j)'
        BY <2>1, <2>2, <2>4, <3>2, <3>3, <3>4 DEF HoldsDue
      <3> QED BY <3>1, <3>3, <3>4, <3>5, <3>6
    <2> QED BY <1>0, <2>1, <2>5, CountStep
  <1>3. CASE DeleteHash(c)
    <2> DEFINE e == IF Kept(k) = {} THEN Idle ELSE [k EXCEPT !.pc = "restore"]
    <2>1. /\ call' = [call EXCEPT ![c] = e] /\ Added({})
          /\ UNCHANGED <<row, due>> /\ k.pc = "rows" /\ k.ids = {} /\ Holding(c)
          /\ overtaken' = overtaken \cup (late[c] \cap Ids) /\ hash' = Nothing
      BY <1>3 DEF DeleteHash, Holding, Writes
    <2>2. call'[c] = e /\ (e = Idle \/ (e.pc = "restore" /\ e.held = k.held))
      BY <1>0, <2>1 DEF TypeOK, Calls
    <2> HIDE DEF e
    <2>3. ASSUME NEW i \in Ids, Sound(i)'
          PROVE  Sound(i) /\ Count(i)' = due'[i] /\ HoldsDue(c, i)'
      <3>1. Sound(i) /\ i \notin late[c]
        BY <2>1, <2>3 DEF Sound
      <3>2. HoldsDue(c, i)
        BY <1>0, <3>1 DEF CountInv
      <3>3. row[i] = due[i]
        BY <2>1, <3>1, <3>2 DEF HoldsDue
      <3>4. Count(i)' = due'[i]
        BY <2>1, <3>3 DEF Count, Nothing
      <3>5. HoldsDue(c, i)'
        BY <2>1, <2>2, <3>1, <3>2, IdleHolds DEF HoldsDue
      <3> QED BY <3>1, <3>4, <3>5
    <2> QED BY <1>0, <2>1, <2>3, CountStep
  <1>4. CASE Restore(c)
    <2>1. /\ call' = [call EXCEPT ![c] = Idle] /\ Added({})
          /\ UNCHANGED <<row, due>> /\ k.pc = "restore" /\ Holding(c)
          /\ overtaken' = overtaken \cup (late[c] \cap Kept(k))
          /\ \A i \in Ids : hash'[i] =
               IF i \in Kept(k) THEN [k.held[i] EXCEPT !.timeout = k.held[i].timeout - 1]
               ELSE hash[i]
      BY <1>4 DEF Restore, Holding, Writes
    <2>2. ASSUME NEW i \in Kept(k)
          PROVE  /\ k.held[i] # NULL /\ hash'[i] # NULL
                 /\ hash'[i].num = k.held[i].num
      <3>1. k.held[i] \in Entries /\ k.held[i] # NULL /\ k.held[i].timeout > 0 /\ i \in Ids
        BY <1>0 DEF Kept, Calls
      <3>2. [k.held[i] EXCEPT !.timeout = k.held[i].timeout - 1] \in Entries
        BY <3>1, EntryTypes
      <3> QED BY <2>1, <3>1, <3>2, ConstantsAssumption DEF Entries
    <2>3. call'[c] = Idle
      BY <1>0, <2>1 DEF TypeOK
    <2>4. ASSUME NEW i \in Ids, Sound(i)' PROVE Sound(i) /\ Count(i)' = due'[i]
      <3>1. Sound(i) /\ (i \in Kept(k) => i \notin late[c])
        BY <2>1, <2>4 DEF Sound
      <3>2. Count(i) = due[i] /\ HoldsDue(c, i)
        BY <1>0, <3>1 DEF CountInv
      <3>3. CASE i \in Kept(k)
        BY <2>1, <2>2, <3>1, <3>2, <3>3 DEF Count, HoldsDue
      <3>4. CASE i \notin Kept(k)
        BY <2>1, <3>1, <3>2, <3>4 DEF Count
      <3> QED BY <3>3, <3>4
    <2> QED BY <1>0, <2>1, <2>3, <2>4, CountStep, IdleHolds
  <1> QED BY <1>1, <1>2, <1>3, <1>4 DEF SyncStep

(* Every step keeps the counts due.                                        *)
LEMMA CountNext == TypeOK /\ CountInv /\ [Next]_vars => CountInv'
  <1> SUFFICES ASSUME TypeOK, CountInv, [Next]_vars PROVE CountInv'
    OBVIOUS
  <1>1. ASSUME NEW c \in Procs, Crash(c) PROVE CountInv'
    <2>1. /\ call' = [call EXCEPT ![c] = Idle] /\ Added({})
          /\ UNCHANGED <<row, hash, due, overtaken>>
      BY <1>1 DEF Crash
    <2>2. call'[c] = Idle
      BY <2>1 DEF TypeOK
    <2> QED BY <2>1, <2>2, CountStep, IdleHolds DEF CountInv, Sound, Count
  <1>2. ASSUME NEW i \in Ids, DeleteRow(i) PROVE CountInv'
    <2>1. ASSUME NEW j \in Ids, Sound(j)' PROVE Sound(j) /\ row'[j] = row[j]
      BY <1>2, <2>1 DEF DeleteRow, Sound, TypeOK
    <2>2. UNCHANGED <<hash, call, due, late, overtaken>>
      BY <1>2 DEF DeleteRow
    <2> QED BY <2>1, <2>2 DEF CountInv, Count, HoldsDue, Holding
  <1>3. CASE Midnight \/ UNCHANGED vars
    <2>1. UNCHANGED <<row, hash, call, due, late, overtaken>>
      BY <1>3 DEF Midnight, vars
    <2> QED BY <2>1 DEF CountInv, Sound, Count, HoldsDue, Holding
  <1> QED BY <1>1, <1>2, <1>3, CountClient, CountSync DEF Next, Procs

(* No addition is lost, whatever the rows, the clients, the syncs and the  *)
(* crashes, but where a call wrote although it was late.                   *)
THEOREM CountsKept == Spec => []CountKept
  <1>1. CountInv => CountKept
    BY DEF CountInv, CountKept, Sound
  <1> QED BY <1>1, TypeInit, TypeNext, CountInit, CountNext, PTL DEF Spec

-----------------------------------------------------------------------------
(* Why an id is counted once a day: the entry in the hash, and the one a   *)
(* call holds, has the last day the id was counted on, unless it is known  *)
(* that it may not.                                                        *)
HasLastDay(i, entry) ==
  \/ counted[i] = {}
  \/ entry # NULL /\ entry.unique \in counted[i] /\ \A d \in counted[i] : d <= entry.unique

Dated(i) == i \notin unmarked /\ i \notin overtaken

(* A client knows the last day of what it is about to add to.              *)
HoldsDay(c, i) ==
  c \in Clients /\ Holding(c) /\ i \in call[c].ids /\ i \notin late[c] /\ Dated(i)
    => HasLastDay(i, call[c].held[i])

(* A sync that has deleted the hash took the last day of every id with it. *)
TookDay(c, i) ==
  c \in Syncers /\ call[c].pc = "restore" /\ call[c].held[i] # NULL /\ i \notin late[c] /\ Dated(i)
    => counted[i] = {}

(* An addition goes on only where the entry has another day.               *)
Checked(c, i) ==
  call[c].pc = "add" /\ model_count_day_only /\ i \in call[c].ids
    => call[c].held[i].unique # call[c].only

(* Clients and syncs run their own operations.                             *)
OwnPart(c) ==
  /\ c \in Clients => call[c].pc \notin {"rows", "restore"}
  /\ c \in Syncers => call[c].pc \in {"idle", "rows", "restore"}
  /\ call[c].pc = "restore" => call[c].ids = {}

DayInv ==
  /\ \A c \in Procs : OwnPart(c)
  /\ \A i \in Ids : Dated(i) => HasLastDay(i, hash[i])
  /\ \A c \in Procs, i \in Ids : HoldsDay(c, i) /\ TookDay(c, i) /\ Checked(c, i)
  /\ model_count_day_only => again \subseteq overtaken

(* No other process knows a day of i that could be wrong.                  *)
OthersUnaware(c, i) ==
  \A d \in Procs \ {c} :
    /\ d \in Clients /\ Holding(d) => i \notin call[d].ids
    /\ d \in Syncers => call[d].held[i] = NULL

(* A step of one process leaves what the others know, unless it counts the *)
(* id, and then they are late.                                             *)
LEMMA OthersDay ==
  ASSUME TypeOK, NEW c \in Procs, NEW d \in Procs, d # c, NEW e, NEW ids,
         call' = [call EXCEPT ![c] = e], Added(ids), NEW i \in Ids,
         HoldsDay(d, i), TookDay(d, i), Checked(d, i),
         i \notin ids => counted'[i] = counted[i],
         i \notin ids /\ Dated(i)' => Dated(i) \/ OthersUnaware(c, i)
  PROVE  HoldsDay(d, i)' /\ TookDay(d, i)' /\ Checked(d, i)'
  <1>1. call'[d] = call[d] /\ (Holding(d)' <=> Holding(d))
    BY DEF TypeOK, Holding
  <1>2. Holding(d) /\ i \notin late'[d] => i \notin ids /\ i \notin late[d]
    BY <1>1 DEF Added
  <1>3. HoldsDay(d, i)'
    <2> SUFFICES ASSUME d \in Clients, Holding(d)', i \in call'[d].ids, i \notin late'[d], Dated(i)'
                 PROVE  HasLastDay(i, call[d].held[i])'
      BY DEF HoldsDay
    <2>1. i \notin ids /\ i \notin late[d] /\ counted'[i] = counted[i] /\ Dated(i)
      BY <1>1, <1>2 DEF OthersUnaware
    <2>2. HasLastDay(i, call[d].held[i])
      BY <1>1, <2>1 DEF HoldsDay
    <2> QED BY <1>1, <2>1, <2>2 DEF HasLastDay
  <1>4. TookDay(d, i)'
    <2> SUFFICES ASSUME d \in Syncers, call'[d].pc = "restore", call'[d].held[i] # NULL,
                        i \notin late'[d], Dated(i)'
                 PROVE  counted'[i] = {}
      BY DEF TookDay
    <2>1. Holding(d)
      BY <1>1 DEF Holding
    <2>2. i \notin ids /\ i \notin late[d] /\ counted'[i] = counted[i] /\ Dated(i)
      BY <1>1, <1>2, <2>1 DEF OthersUnaware
    <2> QED BY <1>1, <2>2 DEF TookDay
  <1>5. Checked(d, i)'
    BY <1>1 DEF Checked
  <1> QED BY <1>3, <1>4, <1>5

(* What a step has to keep for the days to stay right.                     *)
LEMMA DayStep ==
  ASSUME TypeOK, DayInv, NEW c \in Procs, NEW e, NEW ids,
         call' = [call EXCEPT ![c] = e], Added(ids), OwnPart(c)',
         \A i \in Ids :
           /\ Dated(i)' => HasLastDay(i, hash[i])'
           /\ HoldsDay(c, i)' /\ TookDay(c, i)' /\ Checked(c, i)'
           /\ i \notin ids => counted'[i] = counted[i]
           /\ i \notin ids /\ Dated(i)' => Dated(i) \/ OthersUnaware(c, i),
         model_count_day_only => again' \subseteq overtaken'
  PROVE  DayInv'
  <1>1. \A d \in Procs : OwnPart(d)'
    BY DEF DayInv, OwnPart, TypeOK
  <1>2. ASSUME NEW d \in Procs, NEW i \in Ids
        PROVE  HoldsDay(d, i)' /\ TookDay(d, i)' /\ Checked(d, i)'
    <2>1. CASE d = c
      BY <2>1
    <2>2. CASE d # c
      BY <2>2, OthersDay DEF DayInv
    <2> QED BY <2>1, <2>2
  <1> QED BY <1>1, <1>2 DEF DayInv

(* The same of a step that only moves c on.                                *)
LEMMA DayMove ==
  ASSUME TypeOK, DayInv, NEW c \in Procs, NEW e,
         call' = [call EXCEPT ![c] = e], Added({}), OwnPart(c)',
         UNCHANGED <<hash, overtaken, marks>>,
         \A i \in Ids : HoldsDay(c, i)' /\ TookDay(c, i)' /\ Checked(c, i)'
  PROVE  DayInv'
  <1>1. \A i \in Ids : /\ Dated(i)' <=> Dated(i)
                       /\ HasLastDay(i, hash[i])' <=> HasLastDay(i, hash[i])
                       /\ counted'[i] = counted[i]
    BY DEF marks, Dated, HasLastDay
  <1>2. model_count_day_only => again' \subseteq overtaken'
    BY DEF DayInv, marks
  <1> QED BY <1>1, <1>2, DayStep DEF DayInv

(* A process that became idle knows nothing.                               *)
LEMMA IdleDay ==
  ASSUME NEW c, call'[c] = Idle
  PROVE  OwnPart(c)' /\ \A i \in Ids : HoldsDay(c, i)' /\ TookDay(c, i)' /\ Checked(c, i)'
  BY DEF OwnPart, HoldsDay, TookDay, Checked, Holding, Idle

(* A client that goes on to its addition has looked at the day.            *)
LEMMA KnownChecked ==
  ASSUME NEW k \in Calls, k.pc \in {"read", "fill"}
  PROVE  \/ Known(k) = Idle
         \/ /\ Known(k).pc = "add" /\ Known(k).held = k.held /\ Known(k).ids = k.ids
            /\ Known(k).only = k.only
            /\ model_count_day_only => \A i \in k.ids : k.held[i].unique # k.only
  BY DEF Known, Calls

(* The days are right in every initial state.                              *)
LEMMA DayInit == Init => DayInv
  BY DEF Init, DayInv, OwnPart, HasLastDay, HoldsDay, TookDay, Checked, Holding, Idle, Dated

(* The steps of a client keep the days right.                              *)
LEMMA DayClient ==
  ASSUME TypeOK, DayInv, NEW c \in Clients,
         \/ \E ids \in SUBSET Ids : Load(c, ids)
         \/ \E i \in Ids : Increment(c, i) \/ \E n \in Nums : Add(c, i, n)
         \/ Read(c) \/ Query(c) \/ Fill(c)
  PROVE  DayInv'
  <1>0. c \in Procs /\ c \notin Syncers /\ call[c] \in Calls
    BY ConstantsAssumption DEF Procs, TypeOK
  <1>t. \A i \in Ids : TookDay(c, i)'
    BY <1>0 DEF TookDay
  <1>1. ASSUME NEW op, NEW ids, NEW num, Begin(c, op, ids, num) PROVE DayInv'
    <2> DEFINE e == [pc |-> "read", op |-> op, ids |-> ids, num |-> num,
                     only |-> IF op = "add" THEN today ELSE 0, held |-> Nothing]
    <2>1. call' = [call EXCEPT ![c] = e] /\ Added({}) /\ UNCHANGED <<hash, overtaken, marks>>
      BY <1>1 DEF Begin
    <2>2. call'[c].pc = "read"
      BY <1>0, <2>1 DEF TypeOK
    <2>3. OwnPart(c)' /\ \A i \in Ids : HoldsDay(c, i)' /\ Checked(c, i)'
      BY <1>0, <2>2 DEF OwnPart, HoldsDay, Checked, Holding
    <2> HIDE DEF e
    <2> QED BY <1>0, <1>t, <2>1, <2>3, DayMove
  <1>2. CASE \E ids \in SUBSET Ids : Load(c, ids)
    BY <1>1, <1>2 DEF Load
  <1>3. CASE \E i \in Ids, n \in Nums : Add(c, i, n)
    BY <1>1, <1>3 DEF Add
  <1>4. CASE Read(c)
    <2> DEFINE k == [call[c] EXCEPT !.held =
              [i \in Ids |-> IF i \in call[c].ids THEN hash[i] ELSE NULL]]
               e == IF \E i \in k.ids : k.held[i] = NULL THEN [k EXCEPT !.pc = "query"]
                    ELSE Known(k)
    <2>1. /\ k \in Calls /\ k.pc = "read" /\ k.ids = call[c].ids
          /\ \A i \in Ids : i \in k.ids => k.held[i] = hash[i]
      BY <1>0, <1>4 DEF Read, TypeOK, Calls
    <2>2. call' = [call EXCEPT ![c] = e] /\ Added({}) /\ UNCHANGED <<hash, overtaken, marks>>
      BY <1>4 DEF Read
    <2>3. call'[c] = e
      BY <1>0, <2>2 DEF TypeOK
    <2> HIDE DEF k
    <2>4. \/ e = Idle
          \/ e.pc = "query" /\ e.held = k.held /\ e.ids = k.ids
          \/ /\ e.pc = "add" /\ e.held = k.held /\ e.ids = k.ids /\ e.only = k.only
             /\ model_count_day_only => \A i \in k.ids : k.held[i].unique # k.only
      BY <2>1, KnownChecked DEF Calls
    <2> HIDE DEF e
    <2>5. CASE e = Idle
      BY <1>0, <2>2, <2>3, <2>5, IdleDay, DayMove
    <2>6. CASE e # Idle
      <3>1. e.pc \in {"query", "add"} /\ e.held = k.held /\ e.ids = k.ids
        BY <2>4, <2>6
      <3>2. ASSUME NEW i \in Ids PROVE HoldsDay(c, i)' /\ Checked(c, i)'
        <4>1. i \in k.ids /\ Dated(i) => HasLastDay(i, k.held[i])
          BY <2>1 DEF DayInv
        <4>2. counted' = counted /\ unmarked' = unmarked /\ overtaken' = overtaken
          BY <2>2 DEF marks
        <4>3. HoldsDay(c, i)'
          BY <2>3, <3>1, <4>1, <4>2 DEF HoldsDay, HasLastDay, Dated
        <4>4. Checked(c, i)'
          BY <2>3, <2>4, <2>6 DEF Checked
        <4> QED BY <4>3, <4>4
      <3>3. OwnPart(c)'
        BY <1>0, <2>3, <3>1 DEF OwnPart
      <3> QED BY <1>0, <1>t, <2>2, <3>2, <3>3, DayMove
    <2> QED BY <2>5, <2>6
  <1>5. CASE Query(c)
    <2> DEFINE k == call[c]
               found == { i \in k.ids : k.held[i] = NULL /\ row[i] # NULL }
               e == IF found = {} THEN Idle
                    ELSE [k EXCEPT !.pc = "fill", !.ids = found,
                           !.held = [i \in Ids |-> IF i \in found THEN Loaded(row[i])
                                                   ELSE k.held[i]]]
    <2>1. call' = [call EXCEPT ![c] = e] /\ Added({}) /\ UNCHANGED <<hash, overtaken, marks>>
      BY <1>5 DEF Query
    <2>2. call'[c] = e
      BY <1>0, <2>1 DEF TypeOK
    <2>3. k.pc = "query" /\ Holding(c)
      BY <1>5 DEF Query, Holding
    <2>4. e = Idle \/ (e.pc = "fill" /\ e.ids = found)
      BY <1>0 DEF Calls
    <2>5. \A i \in found : i \in k.ids /\ k.held[i] = NULL
      OBVIOUS
    <2> HIDE DEF found, e
    <2>6. CASE e = Idle
      BY <1>0, <2>1, <2>2, <2>6, IdleDay, DayMove
    <2>7. CASE e # Idle
      <3>0. e.pc = "fill" /\ e.ids = found
        BY <2>4, <2>7
      <3>1. late'[c] = late[c]
        BY <1>0, <2>1, <2>2, <2>3, <3>0 DEF Added, Holding
      <3>2. ASSUME NEW i \in Ids PROVE HoldsDay(c, i)' /\ Checked(c, i)'
        <4>1. counted' = counted /\ unmarked' = unmarked /\ overtaken' = overtaken
          BY <2>1 DEF marks
        <4>2. i \in found /\ i \notin late[c] /\ Dated(i) => counted[i] = {}
          BY <1>0, <2>3, <2>5 DEF DayInv, HoldsDay, HasLastDay
        <4>3. HoldsDay(c, i)'
          BY <2>2, <3>0, <3>1, <4>1, <4>2 DEF HoldsDay, HasLastDay, Dated
        <4>4. Checked(c, i)'
          BY <2>2, <3>0 DEF Checked
        <4> QED BY <4>3, <4>4
      <3>3. OwnPart(c)'
        BY <1>0, <2>2, <3>0 DEF OwnPart
      <3> QED BY <1>0, <1>t, <2>1, <3>2, <3>3, DayMove
    <2> QED BY <2>6, <2>7
  <1>6. CASE Fill(c)
    <2> DEFINE k == call[c]
    <2>1. /\ call' = [call EXCEPT ![c] = Known(k)] /\ Added({})
          /\ UNCHANGED <<counted, unmarked, again>> /\ k.pc = "fill" /\ Holding(c)
          /\ overtaken' = overtaken \cup (late[c] \cap k.ids)
          /\ \A i \in Ids : hash'[i] = IF i \in k.ids THEN k.held[i] ELSE hash[i]
      BY <1>6 DEF Fill, Holding, Writes, marks
    <2>2. call'[c] = Known(k)
      BY <1>0, <2>1 DEF TypeOK
    <2>3. \/ Known(k) = Idle
          \/ /\ Known(k).pc = "add" /\ Known(k).held = k.held /\ Known(k).ids = k.ids
             /\ Known(k).only = k.only
             /\ model_count_day_only => \A i \in k.ids : k.held[i].unique # k.only
      BY <1>0, <2>1, KnownChecked
    <2>4. ASSUME NEW i \in Ids, Dated(i)'
          PROVE  Dated(i) /\ HasLastDay(i, hash[i])'
      <3>1. Dated(i) /\ (i \in k.ids => i \notin late[c])
        BY <2>1, <2>4 DEF Dated
      <3>2. HasLastDay(i, hash[i]) /\ (i \in k.ids => HasLastDay(i, k.held[i]))
        BY <1>0, <2>1, <3>1 DEF DayInv, HoldsDay
      <3> QED BY <2>1, <3>1, <3>2 DEF HasLastDay
    <2>5. ASSUME NEW i \in Ids PROVE HoldsDay(c, i)' /\ Checked(c, i)'
      <3>1. CASE Known(k) = Idle
        BY <2>2, <3>1, IdleDay
      <3>2. CASE Known(k) # Idle
        <4>1. late'[c] = late[c]
          BY <1>0, <2>1, <2>2, <2>3, <3>2 DEF Added, Holding
        <4>2. HoldsDay(c, i)
          BY <1>0 DEF DayInv
        <4>3. HoldsDay(c, i)'
          BY <2>1, <2>2, <2>3, <2>4, <3>2, <4>1, <4>2 DEF HoldsDay, HasLastDay
        <4>4. Checked(c, i)'
          BY <2>2, <2>3, <3>2 DEF Checked
        <4> QED BY <4>3, <4>4
      <3> QED BY <3>1, <3>2
    <2>6. OwnPart(c)'
      BY <1>0, <2>2, <2>3 DEF OwnPart, Idle
    <2>7. model_count_day_only => again' \subseteq overtaken'
      BY <2>1 DEF DayInv
    <2>8. \A i \in Ids : counted'[i] = counted[i]
      BY <2>1
    <2> QED BY <1>0, <1>t, <2>1, <2>4, <2>5, <2>6, <2>7, <2>8, DayStep
  <1>7. ASSUME NEW i \in Ids, Increment(c, i) PROVE DayInv'
    <2> DEFINE k == call[c]
               n == [num |-> k.held[i].num + k.num, timeout |-> k.held[i].timeout + 1,
                     unique |-> k.only]
    <2>1. /\ call' = [call EXCEPT ![c] = Idle] /\ Added({i})
          /\ k.pc = "add" /\ i \in k.ids /\ Holding(c)
          /\ overtaken' = overtaken \cup (late[c] \cap {i})
          /\ hash' = [hash EXCEPT ![i] = n]
          /\ counted' = [counted EXCEPT ![i] = counted[i] \cup {k.only}]
      BY <1>7 DEF Increment, Holding, Writes
    <2>2. /\ unmarked' = IF \E d \in counted[i] : d > k.only THEN unmarked \cup {i} ELSE unmarked \ {i}
          /\ again' = IF i \notin unmarked /\ k.only \in counted[i]
                         /\ \A d \in counted[i] : d <= k.only
                      THEN again \cup {i} ELSE again
      BY <1>7 DEF Increment
    <2>10. counted[i] \subseteq Nat
      <3>1. counted[i] \in SUBSET (0..MaxDay)
        BY DEF TypeOK
      <3> QED BY <3>1
    <2>11. k.held[i] # NULL /\ k.held[i] \in Entries /\ k.num \in Nat /\ k.only \in Nat
      <3>1. k \in Calls
        BY <1>0 DEF TypeOK
      <3>2. k.held[i] # NULL
        BY <1>0, <2>1 DEF TypeOK
      <3>3. k.held[i] \in Entries \cup {NULL} /\ k.num \in Nat /\ k.only \in 0..MaxDay
        BY <3>1 DEF Calls
      <3> QED BY <3>2, <3>3
    <2>3. /\ k.held[i] # NULL /\ k.held[i] \in Entries /\ k.num \in Nat /\ k.only \in Nat
          /\ counted[i] \subseteq Nat
      BY <2>10, <2>11
    <2>4. n \in Entries /\ n # NULL /\ n.unique = k.only
      BY <2>3, EntryTypes, ConstantsAssumption
    <2>5. call'[c] = Idle
      BY <1>0, <2>1 DEF TypeOK
    <2> HIDE DEF n
    <2>6. ASSUME NEW j \in Ids, Dated(j)'
          PROVE  HasLastDay(j, hash[j])' /\ (j # i => Dated(j))
      <3>1. CASE j = i
        <4>1. ~ \E d \in counted[i] : d > k.only
          BY <2>2, <2>6, <3>1 DEF Dated
        <4>2. \A d \in counted[i] \cup {k.only} : d <= k.only
          BY <2>3, <4>1
        <4>3. hash'[i] = n /\ counted'[i] = counted[i] \cup {k.only}
          BY <2>1 DEF TypeOK
        <4> QED BY <2>4, <3>1, <4>2, <4>3 DEF HasLastDay
      <3>2. CASE j # i
        <4>1. Dated(j) /\ hash'[j] = hash[j] /\ counted'[j] = counted[j]
          BY <2>1, <2>2, <2>6, <3>2 DEF Dated, TypeOK
        <4>2. HasLastDay(j, hash[j])
          BY <4>1 DEF DayInv
        <4> QED BY <4>1, <4>2 DEF HasLastDay
      <3> QED BY <3>1, <3>2
    <2>7. \A j \in Ids : j \notin {i} => counted'[j] = counted[j]
      BY <2>1 DEF TypeOK
    <2>8. ASSUME model_count_day_only PROVE again' \subseteq overtaken'
      <3>1. again \subseteq overtaken /\ overtaken \subseteq overtaken'
        BY <2>1, <2>8 DEF DayInv
      <3>2. ASSUME i \notin overtaken', i \notin unmarked, k.only \in counted[i],
                   \A d \in counted[i] : d <= k.only
            PROVE  FALSE
        <4>1. Dated(i) /\ i \notin late[c]
          BY <2>1, <3>2 DEF Dated
        <4>2. HasLastDay(i, k.held[i])
          BY <1>0, <2>1, <4>1 DEF DayInv, HoldsDay
        <4>3. k.held[i].unique \in counted[i] /\ k.only <= k.held[i].unique
          BY <3>2, <4>2 DEF HasLastDay
        <4>4. k.held[i].unique = k.only
          BY <2>3, <3>2, <4>3
        <4> QED BY <1>0, <2>1, <2>8, <4>4 DEF DayInv, Checked
      <3> QED BY <2>2, <3>1, <3>2
    <2>9. OwnPart(c)' /\ \A j \in Ids : HoldsDay(c, j)' /\ TookDay(c, j)' /\ Checked(c, j)'
      BY <2>5, IdleDay
    <2> QED BY <1>0, <2>1, <2>6, <2>7, <2>8, <2>9, DayStep
  <1> QED BY <1>2, <1>3, <1>4, <1>5, <1>6, <1>7

(* The steps of a sync keep the days right.                                *)
LEMMA DaySync ==
  ASSUME TypeOK, DayInv, NEW c \in Syncers, SyncStep(c)
  PROVE  DayInv'
  <1>0. c \in Procs /\ c \notin Clients /\ call[c] \in Calls
    BY ConstantsAssumption DEF Procs, TypeOK
  <1>h. \A i \in Ids : HoldsDay(c, i)'
    BY <1>0 DEF HoldsDay
  <1> DEFINE k == call[c]
  <1>1. CASE Snapshot(c)
    <2> DEFINE e == [pc |-> "rows", op |-> "sync", ids |-> { i \in Ids : hash[i] # NULL },
                     num |-> 0, only |-> 0, held |-> hash]
    <2>1. call' = [call EXCEPT ![c] = e] /\ Added({}) /\ UNCHANGED <<hash, overtaken, marks>>
      BY <1>1 DEF Snapshot
    <2>2. call'[c].pc = "rows"
      BY <1>0, <2>1 DEF TypeOK
    <2>3. OwnPart(c)' /\ \A i \in Ids : TookDay(c, i)' /\ Checked(c, i)'
      BY <1>0, <2>2 DEF OwnPart, TookDay, Checked
    <2> HIDE DEF e
    <2> QED BY <1>0, <1>h, <2>1, <2>3, DayMove
  <1>2. ASSUME NEW i \in Ids, WriteRow(c, i) PROVE DayInv'
    <2> DEFINE e == [k EXCEPT !.ids = k.ids \ {i}]
    <2>1. /\ call' = [call EXCEPT ![c] = e] /\ Added({}) /\ k.pc = "rows"
          /\ UNCHANGED <<hash, counted, unmarked, again>>
          /\ overtaken \subseteq overtaken'
      BY <1>2 DEF WriteRow, Writes, marks
    <2>2. call'[c].pc = "rows"
      BY <1>0, <2>1 DEF TypeOK, Calls
    <2>3. OwnPart(c)' /\ \A j \in Ids : TookDay(c, j)' /\ Checked(c, j)'
      BY <1>0, <2>2 DEF OwnPart, TookDay, Checked
    <2>4. \A j \in Ids : Dated(j)' => Dated(j) /\ HasLastDay(j, hash[j])'
      BY <2>1 DEF DayInv, Dated, HasLastDay
    <2>5. model_count_day_only => again' \subseteq overtaken'
      BY <2>1 DEF DayInv
    <2> HIDE DEF e
    <2> QED BY <1>0, <1>h, <2>1, <2>3, <2>4, <2>5, DayStep
  <1>3. CASE DeleteHash(c)
    <2> DEFINE e == IF Kept(k) = {} THEN Idle ELSE [k EXCEPT !.pc = "restore"]
    <2>1. /\ call' = [call EXCEPT ![c] = e] /\ Added({}) /\ k.pc = "rows" /\ k.ids = {}
          /\ hash' = Nothing /\ UNCHANGED <<counted, again>>
          /\ overtaken' = overtaken \cup (late[c] \cap Ids)
          /\ unmarked' = unmarked \cup { i \in Ids : hash[i] # NULL }
      BY <1>3 DEF DeleteHash, Writes
    <2>2. call'[c] = e /\ (e = Idle \/ (e.pc = "restore" /\ e.ids = {}))
      BY <1>0, <2>1 DEF TypeOK, Calls
    <2> HIDE DEF e
    <2>3. ASSUME NEW i \in Ids, Dated(i)' PROVE Dated(i) /\ counted[i] = {}
      <3>1. Dated(i) /\ hash[i] = NULL
        BY <2>1, <2>3 DEF Dated
      <3> QED BY <3>1 DEF DayInv, HasLastDay
    <2>4. OwnPart(c)' /\ \A i \in Ids : TookDay(c, i)' /\ Checked(c, i)'
      BY <1>0, <2>1, <2>2, <2>3 DEF OwnPart, TookDay, Checked, Idle
    <2>5. \A i \in Ids : Dated(i)' => Dated(i) /\ HasLastDay(i, hash[i])'
      BY <2>1, <2>3 DEF HasLastDay
    <2>6. model_count_day_only => again' \subseteq overtaken'
      BY <2>1 DEF DayInv
    <2> QED BY <1>0, <1>h, <2>1, <2>4, <2>5, <2>6, DayStep
  <1>4. CASE Restore(c)
    <2>1. /\ call' = [call EXCEPT ![c] = Idle] /\ Added({}) /\ k.pc = "restore"
          /\ UNCHANGED <<counted, again>>
          /\ overtaken' = overtaken \cup (late[c] \cap Kept(k))
          /\ unmarked' = unmarked \ Marked(c)
          /\ \A i \in Ids : hash'[i] =
               IF i \in Kept(k) THEN [k.held[i] EXCEPT !.timeout = k.held[i].timeout - 1]
               ELSE hash[i]
      BY <1>4 DEF Restore, Writes
    <2>2. ASSUME NEW i \in Kept(k)
          PROVE  /\ k.held[i] # NULL /\ hash'[i] # NULL
                 /\ hash'[i].unique = k.held[i].unique
      <3>1. k.held[i] \in Entries /\ k.held[i] # NULL /\ k.held[i].timeout > 0 /\ i \in Ids
        BY <1>0 DEF Kept, Calls
      <3>2. [k.held[i] EXCEPT !.timeout = k.held[i].timeout - 1] \in Entries
        BY <3>1, EntryTypes
      <3> QED BY <2>1, <3>1, <3>2, ConstantsAssumption DEF Entries
    <2>3. call'[c] = Idle
      BY <1>0, <2>1 DEF TypeOK
    <2>4. ASSUME NEW i \in Ids, Dated(i)', i \notin Marked(c)
          PROVE  Dated(i) /\ HasLastDay(i, hash[i])'
      <3>1. Dated(i) /\ (i \in Kept(k) => i \notin late[c])
        BY <2>1, <2>4 DEF Dated
      <3>2. CASE i \in Kept(k)
        <4>1. counted[i] = {}
          BY <1>0, <2>1, <2>2, <3>1, <3>2 DEF DayInv, TookDay
        <4> QED BY <2>1, <3>1, <4>1 DEF HasLastDay
      <3>3. CASE i \notin Kept(k)
        BY <2>1, <3>1, <3>3 DEF DayInv, HasLastDay
      <3> QED BY <3>2, <3>3
    <2>5. ASSUME NEW i \in Ids, i \in Marked(c)
          PROVE  HasLastDay(i, hash[i])' /\ OthersUnaware(c, i)
      BY <2>1, <2>2, <2>5 DEF Marked, HasLastDay, OthersUnaware
    <2>6. model_count_day_only => again' \subseteq overtaken'
      BY <2>1 DEF DayInv
    <2>7. OwnPart(c)' /\ \A i \in Ids : TookDay(c, i)' /\ Checked(c, i)'
      BY <2>3, IdleDay
    <2> QED BY <1>0, <1>h, <2>1, <2>4, <2>5, <2>6, <2>7, DayStep
  <1> QED BY <1>1, <1>2, <1>3, <1>4 DEF SyncStep

(* Every step keeps the days right.                                        *)
LEMMA DayNext == TypeOK /\ DayInv /\ [Next]_vars => DayInv'
  <1> SUFFICES ASSUME TypeOK, DayInv, [Next]_vars PROVE DayInv'
    OBVIOUS
  <1>1. ASSUME NEW c \in Procs, Crash(c) PROVE DayInv'
    <2>1. /\ call' = [call EXCEPT ![c] = Idle] /\ Added({})
          /\ UNCHANGED <<hash, overtaken, marks>>
      BY <1>1 DEF Crash
    <2>2. call'[c] = Idle
      BY <2>1 DEF TypeOK
    <2> QED BY <2>1, <2>2, DayMove, IdleDay
  <1>2. CASE (\E i \in Ids : DeleteRow(i)) \/ Midnight \/ UNCHANGED vars
    <2>1. UNCHANGED <<hash, call, late, overtaken, counted, unmarked, again>>
      BY <1>2 DEF DeleteRow, Midnight, vars, marks
    <2> QED BY <2>1 DEF DayInv, OwnPart, Dated, HasLastDay, HoldsDay, TookDay, Checked, Holding
  <1> QED BY <1>1, <1>2, DayClient, DaySync DEF Next, Procs

(* With model_count_day_only an id is counted once on the last day that    *)
(* the hash has, whatever the rows, the clients, the syncs and the crashes,*)
(* but where a call wrote although it was late.                            *)
THEOREM DaysKept == Spec => []OnceADay
  <1>1. DayInv => OnceADay
    BY DEF DayInv, OnceADay
  <1> QED BY <1>1, TypeInit, TypeNext, DayInit, DayNext, PTL DEF Spec

-----------------------------------------------------------------------------
(* What is left to the exceptions: a call adds while no other process has  *)
(* read what it is going to write.                                         *)
AddsAlone == \A c, d \in Procs : call[c].pc = "add" /\ d # c => ~Holding(d)

(* Nobody is late, and so nobody overtook.                                 *)
OnTime == (\A c \in Procs : late[c] = {}) /\ overtaken = {}

(* Only an addition makes others late, and only who is late overtakes.     *)
LEMMA OnTimeStep ==
  ASSUME TypeOK, AddsAlone, OnTime, [Next]_vars PROVE OnTime'
  <1>1. ASSUME NEW c \in Procs, Added({}), overtaken' = {} PROVE OnTime'
    BY <1>1 DEF OnTime, Added
  <1>2. ASSUME NEW c \in Procs, NEW ids, Writes(c, ids) PROVE overtaken' = {}
    BY <1>2 DEF OnTime, Writes
  <1>3. ASSUME NEW c \in Procs, NEW i \in Ids, Increment(c, i) PROVE OnTime'
    <2>1. /\ call[c].pc = "add" /\ call' = [call EXCEPT ![c] = Idle] /\ Added({i})
          /\ overtaken' = {}
      BY <1>2, <1>3 DEF Increment
    <2>2. ~Holding(c)'
      BY <2>1 DEF Holding, Idle, TypeOK
    <2>3. \A d \in Procs \ {c} : ~Holding(d)
      BY <2>1 DEF AddsAlone
    <2> QED BY <2>1, <2>2, <2>3 DEF OnTime, Added
  <1>4. ASSUME NEW c \in Procs,
               \/ \E ids \in SUBSET Ids : Load(c, ids)
               \/ \E i \in Ids, n \in Nums : Add(c, i, n)
               \/ Read(c) \/ Query(c) \/ Fill(c) \/ SyncStep(c) \/ Crash(c)
        PROVE  OnTime'
    <2>1. Added({})
      BY <1>4 DEF Load, Add, Begin, Read, Query, Fill, SyncStep, Snapshot, WriteRow,
                  DeleteHash, Restore, Crash
    <2>2. UNCHANGED overtaken \/ \E ids : Writes(c, ids)
      BY <1>4 DEF Load, Add, Begin, Read, Query, Fill, SyncStep, Snapshot, WriteRow,
                  DeleteHash, Restore, Crash
    <2> QED BY <1>1, <1>2, <2>1, <2>2 DEF OnTime
  <1>5. CASE (\E i \in Ids : DeleteRow(i)) \/ Midnight \/ UNCHANGED vars
    BY <1>5 DEF DeleteRow, Midnight, vars, OnTime
  <1> QED BY <1>3, <1>4, <1>5 DEF Next, Procs

(* Where additions do not overlap with other calls, counts have no         *)
(* exceptions: whatever the loads, the syncs, their overlaps and the       *)
(* crashes, what a load answers is the first value of the column and every *)
(* addition, and no id is counted twice on the last day the hash has.      *)
THEOREM NothingLostAlone ==
  Spec /\ []AddsAlone =>
    []( /\ \A i \in Ids : row[i] # NULL => Count(i) = due[i]
        /\ model_count_day_only => again = {} )
  <1>1. Init => OnTime
    BY DEF Init, OnTime
  <1>2. TypeOK /\ AddsAlone /\ OnTime /\ [Next]_vars => OnTime'
    BY OnTimeStep
  <1>3. OnTime /\ CountKept /\ OnceADay =>
          /\ \A i \in Ids : row[i] # NULL => Count(i) = due[i]
          /\ model_count_day_only => again = {}
    BY DEF OnTime, CountKept, OnceADay
  <1> QED BY <1>1, <1>2, <1>3, TypeCorrect, CountsKept, DaysKept, PTL DEF Spec
==============================================================================
