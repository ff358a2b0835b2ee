-------------------------- MODULE VerifyCodeProofs --------------------------
(***************************************************************************)
(* Theorems about VerifyCode, for any number of requests, users and codes. *)
(***************************************************************************)
EXTENDS VerifyCode, TLAPS

(* What is not a number or a type is not NULL.                             *)
LEMMA NullIsNone ==
  /\ NULL \notin Nat /\ NULL \notin Types /\ NULL \notin Addresses /\ NULL \notin Uids
  /\ NULL \notin Mobiles /\ NULL \notin Emails
  /\ Mobiles \cap Emails = {} /\ Addresses \cap Uids = {} /\ MaxCodes \in Nat
BY ConstantsAssumption DEF Objects, Addresses

-----------------------------------------------------------------------------
(* The part of TypeOK about one request.                                   *)
CallOK(k, n) ==
  /\ k \in Calls
  /\ k.pc # "idle" => k.type # NULL /\ k.object # NULL
  /\ k.pc \in {"put", "deliver", "undo"} => k.to # NULL
  /\ k.pc = "put" => k.code = NULL
  /\ k.pc \in {"deliver", "undo"} => k.code \in 1 .. n

(* TypeOK, with the part about requests in one place.                      *)
LEMMA TypeOKParts ==
  TypeOK <=> /\ codes \in [Types -> [Objects -> 1 .. made \cup {NULL}]]
             /\ users \in [Uids -> Users \cup {NULL}]
             /\ call \in [Procs -> Calls]
             /\ made \in 0 .. MaxCodes
             /\ delivered \subseteq Deliveries /\ gone \subseteq 1 .. made
             /\ \A p \in Procs : CallOK(call[p], made)
BY DEF TypeOK, CallOK

(* A request that has nothing to do is one.                                *)
LEMMA IdleOK ==
  ASSUME NEW n \in Nat
  PROVE  CallOK(Idle, n) /\ Idle \in Calls
BY DEF CallOK, Calls, Idle

(* A request that goes on as a well-typed one keeps the requests so.       *)
LEMMA GoesOK ==
  ASSUME TypeOK, NEW p \in Procs, NEW k, NEW n \in Nat, made <= n, CallOK(k, n), Goes(p, k)
  PROVE  call' \in [Procs -> Calls] /\ \A q \in Procs : CallOK(call'[q], n)
<1>1. k \in Calls
  BY DEF CallOK
<1>2. call' \in [Procs -> Calls]
  BY <1>1 DEF TypeOK, Goes
<1>3. ASSUME NEW q \in Procs
      PROVE  CallOK(call'[q], n)
  <2>1. CASE q = p
    BY <2>1 DEF TypeOK, Goes
  <2>2. CASE q # p
    <3>1. call'[q] = call[q] /\ CallOK(call[q], made)
      BY <2>2, TypeOKParts DEF TypeOK, Goes
    <3> QED  BY <3>1 DEF CallOK, TypeOK
  <2> QED  BY <2>1, <2>2
<1> QED  BY <1>2, <1>3

(* Losing codes leaves the histories well typed.                           *)
LEMMA LosesOK ==
  ASSUME TypeOK, NEW cs, cs \subseteq 1 .. made \cup {NULL}, Loses(cs)
  PROVE  delivered' \subseteq Deliveries /\ gone' \subseteq 1 .. made
BY NullIsNone DEF TypeOK, Loses

(* Storing a code that was made, or none, leaves the codes well typed.     *)
LEMMA StoresOK ==
  ASSUME TypeOK, NEW k, k.type \in Types, k.object \in Objects, NEW n \in Nat, made <= n,
         NEW code, code \in 1 .. n \cup {NULL}, Stores(k, code)
  PROVE  codes' \in [Types -> [Objects -> 1 .. n \cup {NULL}]]
<1>1. codes \in [Types -> [Objects -> 1 .. n \cup {NULL}]]
  BY DEF TypeOK
<1>2. [codes[k.type] EXCEPT ![k.object] = code] \in [Objects -> 1 .. n \cup {NULL}]
  BY <1>1
<1> QED  BY <1>1, <1>2 DEF Stores

(* The key of a request that is under way.                                 *)
LEMMA KeyOf ==
  ASSUME TypeOK, NEW p \in Procs, call[p].pc # "idle"
  PROVE  /\ call[p].type \in Types /\ call[p].object \in Objects
         /\ codes[call[p].type][call[p].object] \in 1 .. made \cup {NULL}
BY DEF TypeOK, Calls

(* The step of sending a code keeps the types.                             *)
LEMMA MakesType ==
  ASSUME TypeOK, NEW p \in Procs, NEW type \in Types, NEW object \in Objects \cup {NULL},
         NEW mobile \in Mobiles \cup {NULL}, NEW email \in Emails \cup {NULL},
         Makes(p, type, object, mobile, email)
  PROVE  TypeOK'
<1> DEFINE rivals == Rivals(p, type, object)
           new == [Idle EXCEPT !.pc = "put", !.type = type, !.object = object,
                     !.to = IF email # NULL THEN email ELSE mobile, !.raced = (rivals # {})]
<1>1. CallOK(new, made)
  BY NullIsNone DEF Makes, CallOK, Calls, Idle, Addresses
<1>2. ASSUME NEW q \in Procs
      PROVE  CallOK(call'[q], made)
  <2>1. CASE q = p
    BY <1>1, <2>1 DEF Makes
  <2>2. CASE q # p
    <3>1. CallOK(call[q], made)
      BY TypeOKParts
    <3>2. call'[q] = [call[q] EXCEPT !.raced = TRUE] \/ call'[q] = call[q]
      BY <2>2 DEF Makes
    <3> QED  BY <3>1, <3>2 DEF CallOK, Calls
  <2> QED  BY <2>1, <2>2
<1>3. call' \in [Procs -> Calls]
  <2>1. \A q \in Procs : call'[q] \in Calls
    BY <1>2 DEF CallOK
  <2>2. call' = [q \in Procs |-> call'[q]]
    BY DEF Makes
  <2> HIDE DEF rivals, new
  <2> QED  BY <2>1, <2>2
<1> HIDE DEF rivals, new
<1> QED  BY <1>2, <1>3 DEF TypeOK, CallOK, Makes

(* And so does the start of a request that uses one.                       *)
LEMMA VerifiesType ==
  ASSUME TypeOK, NEW p \in Procs, NEW type \in Types, NEW object \in Objects,
         NEW code, NEW uid \in Uids \cup {NULL}, NEW user \in Users \cup {NULL},
         Verifies(p, type, object, code, uid, user)
  PROVE  TypeOK'
<1> DEFINE new == [Idle EXCEPT !.pc = "commit", !.type = type, !.object = object, !.code = code,
                     !.uid = uid, !.user = user]
<1>1. code \in Nat \cup {NULL}
  BY DEF Verifies, Given, TypeOK, Deliveries
<1>2. CallOK(new, made)
  BY <1>1, NullIsNone DEF CallOK, Calls, Idle, Objects
<1>3. Goes(p, new)
  BY DEF Verifies
<1>4. made \in Nat
  BY NullIsNone DEF TypeOK
<1> HIDE DEF new
<1>5. call' \in [Procs -> Calls] /\ \A q \in Procs : CallOK(call'[q], made)
  BY <1>2, <1>3, <1>4, GoesOK
<1> QED  BY <1>5 DEF TypeOK, CallOK, Verifies

(* A step of a request that is under way keeps the types, if it stores a   *)
(* code or none under its key and goes on as a well-typed request.         *)
LEMMA StepType ==
  ASSUME TypeOK, NEW p \in Procs, call[p].pc # "idle", NEW k, Goes(p, k),
         NEW n \in 0 .. MaxCodes, made <= n, made' = n, CallOK(k, n),
         codes' = codes \/ \E c \in 1 .. n \cup {NULL} : Stores(call[p], c),
         users' \in [Uids -> Users \cup {NULL}],
         delivered' \subseteq Deliveries, gone' \subseteq 1 .. n
  PROVE  TypeOK'
<1>1. n \in Nat /\ made \in Nat
  BY NullIsNone DEF TypeOK
<1>2. call' \in [Procs -> Calls] /\ \A q \in Procs : CallOK(call'[q], n)
  BY <1>1, GoesOK
<1>3. codes' \in [Types -> [Objects -> 1 .. n \cup {NULL}]]
  <2>1. CASE codes' = codes
    BY <1>1, <2>1 DEF TypeOK
  <2>2. CASE \E c \in 1 .. n \cup {NULL} : Stores(call[p], c)
    BY <1>1, <2>2, KeyOf, StoresOK
  <2> QED  BY <2>1, <2>2
<1> QED  BY <1>2, <1>3 DEF TypeOK, CallOK

(* Every step keeps the types.                                             *)
LEMMA StepTypes == TypeOK /\ [Next]_vars => TypeOK'
<1> SUFFICES ASSUME TypeOK, [Next]_vars PROVE TypeOK'
  OBVIOUS
<1> USE NullIsNone
<1>0. made \in Nat /\ CallOK(Idle, made)
  BY IdleOK DEF TypeOK
<1>1. ASSUME NEW p \in Procs, NEW t \in Types, NEW s \in {"mobile", "email"},
             NEW m \in Mobiles \cup {NULL}, NEW e \in Emails \cup {NULL}, SendToAddress(p, t, s, m, e)
      PROVE  TypeOK'
  <2>1. Named(s, m, e) \in Objects \cup {NULL}
    BY DEF Named, Objects, Addresses
  <2> QED  BY <1>1, <2>1, MakesType DEF SendToAddress
<1>2. ASSUME NEW p \in Procs, NEW u \in Uids, SendToUser(p, u)
      PROVE  TypeOK'
  <2>1. users[u].mobile \in Mobiles \cup {NULL} /\ users[u].email \in Emails \cup {NULL}
    BY <1>2 DEF SendToUser, TypeOK, Users
  <2>2. u \in Objects \cup {NULL} /\ "default" \in Types
    BY DEF Objects, Types
  <2> QED  BY <1>2, <2>1, <2>2, MakesType DEF SendToUser
<1>3. ASSUME NEW p \in Procs, NEW user \in Users, NEW code \in Given, Signup(p, user, code)
      PROVE  TypeOK'
  <2> DEFINE object == IF user.email # NULL THEN user.email ELSE user.mobile
  <2>1. object \in Objects /\ "signup" \in Types
    BY <1>3 DEF Signup, Users, Objects, Addresses, Types
  <2>2. Verifies(p, "signup", object, code, NULL, user)
    BY <1>3 DEF Signup
  <2> QED  BY <2>1, <2>2, VerifiesType
<1>4. ASSUME NEW p \in Procs, NEW u \in Uids, NEW code \in Given, Signin(p, u, code)
      PROVE  TypeOK'
  <2>1. users[u].account \in Objects /\ "signin" \in Types
    BY <1>4 DEF Signin, TypeOK, Users, Objects, Addresses, Types
  <2>2. Verifies(p, "signin", users[u].account, code, u, NULL)
    BY <1>4 DEF Signin
  <2> QED  BY <2>1, <2>2, VerifiesType
<1>5. ASSUME NEW p \in Procs, NEW u \in Uids, NEW a \in Addresses, NEW code \in Given,
             Update(p, u, a, code)
      PROVE  TypeOK'
  <2>1. a \in Objects /\ "default" \in Types /\ users[u] \in Users
    BY <1>5 DEF Update, TypeOK, Objects, Types
  <2>2. Moved(users[u], a) \in Users
    BY <2>1 DEF Moved, Users, Addresses
  <2>3. Verifies(p, "default", a, code, u, Moved(users[u], a))
    BY <1>5 DEF Update
  <2> QED  BY <2>1, <2>2, <2>3, VerifiesType
<1>6. ASSUME NEW p \in Procs, NEW u \in Uids, Commit(p, u)
      PROVE  TypeOK'
  <2>1. users' \in [Uids -> Users \cup {NULL}]
    BY <1>6 DEF Commit, TypeOK, Calls
  <2>2. made \in 0 .. MaxCodes /\ made' = made /\ Goes(p, Idle) /\ codes' = codes
        /\ delivered' \subseteq Deliveries /\ gone' \subseteq 1 .. made /\ call[p].pc # "idle"
    BY <1>6 DEF Commit, TypeOK
  <2> QED  BY <1>0, <2>1, <2>2, StepType
<1>7. ASSUME NEW p \in Procs, Put(p)
      PROVE  TypeOK'
  <2> DEFINE k == [call[p] EXCEPT !.pc = "deliver", !.code = made']
  <2>1. made' \in 0 .. MaxCodes /\ made' \in 1 .. made' /\ made <= made' /\ made' \in Nat
    BY <1>7 DEF Put, TypeOK
  <2>2. CallOK(k, made')
    <3>1. call[p] \in Calls /\ call[p].type # NULL /\ call[p].object # NULL /\ call[p].to # NULL
      BY <1>7 DEF Put, TypeOK
    <3>2. k \in Calls
      BY <2>1, <3>1 DEF Calls
    <3>3. k.pc = "deliver" /\ k.code = made' /\ k.type = call[p].type
          /\ k.object = call[p].object /\ k.to = call[p].to
      BY <3>1 DEF Calls
    <3> HIDE DEF k
    <3> QED  BY <2>1, <3>1, <3>2, <3>3 DEF CallOK
  <2>3. delivered' \subseteq Deliveries /\ gone' \subseteq 1 .. made'
    BY <1>7, <2>1, KeyOf, LosesOK DEF Put, TypeOK
  <2>4. call[p].pc # "idle" /\ Goes(p, k) /\ Stores(call[p], made') /\ users' = users
    BY <1>7 DEF Put
  <2>5. users' \in [Uids -> Users \cup {NULL}]
    BY <2>4 DEF TypeOK
  <2> HIDE DEF k
  <2> QED  BY <2>1, <2>2, <2>3, <2>4, <2>5, StepType
<1>8. ASSUME NEW p \in Procs, Deliver(p)
      PROVE  TypeOK'
  <2>1. delivered' \subseteq Deliveries
    BY <1>8 DEF Deliver, TypeOK, Deliveries, Calls
  <2>2. made \in 0 .. MaxCodes /\ made' = made /\ Goes(p, Idle) /\ codes' = codes
        /\ users' \in [Uids -> Users \cup {NULL}] /\ gone' \subseteq 1 .. made /\ call[p].pc # "idle"
    BY <1>8 DEF Deliver, TypeOK
  <2> QED  BY <1>0, <2>1, <2>2, StepType
<1>9. ASSUME NEW p \in Procs, NotDelivered(p)
      PROVE  TypeOK'
  <2> DEFINE k == [call[p] EXCEPT !.pc = "undo"]
  <2>1. CallOK(k, made)
    BY <1>9 DEF NotDelivered, TypeOK, CallOK, Calls
  <2>2. made \in 0 .. MaxCodes /\ made' = made /\ Goes(p, k) /\ codes' = codes
        /\ users' \in [Uids -> Users \cup {NULL}] /\ delivered' \subseteq Deliveries
        /\ gone' \subseteq 1 .. made /\ call[p].pc # "idle"
    BY <1>9 DEF NotDelivered, TypeOK
  <2> HIDE DEF k
  <2> QED  BY <1>0, <2>1, <2>2, StepType
<1>10. ASSUME NEW p \in Procs, Undo(p)
       PROVE  TypeOK'
  <2>1. delivered' \subseteq Deliveries /\ gone' \subseteq 1 .. made
    BY <1>10, KeyOf, LosesOK DEF Undo
  <2>2. made \in 0 .. MaxCodes /\ made' = made /\ Goes(p, Idle) /\ Stores(call[p], NULL)
        /\ users' \in [Uids -> Users \cup {NULL}] /\ call[p].pc # "idle"
    BY <1>10 DEF Undo, TypeOK
  <2>3. \E c \in 1 .. made \cup {NULL} : Stores(call[p], c)
    BY <2>2
  <2> QED  BY <1>0, <2>1, <2>2, <2>3, StepType
<1>11. ASSUME NEW p \in Procs, Crash(p)
       PROVE  TypeOK'
  <2>1. call[p].pc # "idle"
    BY <1>11 DEF Crash, Sending
  <2>2. delivered' \subseteq Deliveries /\ gone' \subseteq 1 .. made
    <3>1. CASE call[p].pc = "put"
      BY <1>11, <3>1, LosesOK DEF Crash, TypeOK
    <3>2. CASE call[p].pc # "put"
      <4>1. call[p].code \in 1 .. made
        BY <1>11, <3>2 DEF Crash, Sending, TypeOK
      <4> QED  BY <1>11, <4>1, LosesOK DEF Crash
    <3> QED  BY <3>1, <3>2
  <2>3. made \in 0 .. MaxCodes /\ made' = made /\ Goes(p, Idle) /\ codes' = codes
        /\ users' \in [Uids -> Users \cup {NULL}]
    BY <1>11 DEF Crash, TypeOK
  <2> QED  BY <1>0, <2>1, <2>2, <2>3, StepType
<1>12. ASSUME NEW t \in Types, NEW o \in Objects, Expire(t, o)
       PROVE  TypeOK'
  <2>1. delivered' \subseteq Deliveries /\ gone' \subseteq 1 .. made
    <3>1. codes[t][o] \in 1 .. made \cup {NULL}
      BY DEF TypeOK
    <3> QED  BY <1>12, <3>1, LosesOK DEF Expire
  <2>2. codes' \in [Types -> [Objects -> 1 .. made \cup {NULL}]]
    <3>1. [codes[t] EXCEPT ![o] = NULL] \in [Objects -> 1 .. made \cup {NULL}]
      BY DEF TypeOK
    <3> QED  BY <1>12, <3>1 DEF Expire, TypeOK
  <2> QED  BY <1>12, <2>1, <2>2 DEF Expire, TypeOK
<1>13. CASE UNCHANGED vars
  BY <1>13 DEF TypeOK, vars
<1> QED
  BY <1>1, <1>2, <1>3, <1>4, <1>5, <1>6, <1>7, <1>8, <1>9, <1>10, <1>11, <1>12, <1>13
  DEF Next

(* Every code, request and record of a delivery has its type.              *)
THEOREM TypeCorrect == Spec => []TypeOK
<1>1. Init => TypeOK
  <2> SUFFICES ASSUME Init PROVE TypeOK
    OBVIOUS
  <2>1. call \in [Procs -> Calls] /\ \A p \in Procs : CallOK(call[p], 0)
    BY IdleOK DEF Init
  <2> QED  BY <2>1, NullIsNone DEF Init, TypeOK, CallOK
<1> QED  BY <1>1, StepTypes, PTL DEF Spec

-----------------------------------------------------------------------------
(* The inductive invariant: what requests that send codes, the stored      *)
(* codes and the delivered ones have to do with each other.                *)
SameKey(j, k) == j.type = k.type /\ j.object = k.object
Flies(k) == k.pc \in {"deliver", "undo"}

RivalsRaced ==
  \A p, q \in Procs :
    p # q /\ Sending(call[p]) /\ Sending(call[q]) /\ SameKey(call[p], call[q]) => call[p].raced

LonersAlone ==
  \A p \in Procs :
    Sending(call[p]) /\ ~call[p].raced
      => codes[call[p].type][call[p].object] \in {NULL, call[p].code}

FlyingStored ==
  \A p \in Procs :
    Flies(call[p]) => call[p].code \in gone \/ codes[call[p].type][call[p].object] = call[p].code

FlyingApart ==
  \A p, q \in Procs : p # q /\ Flies(call[p]) /\ Flies(call[q]) => call[p].code # call[q].code

FlyingFresh == \A p \in Procs, d \in delivered : Flies(call[p]) => d.code # call[p].code

DeliveredMade == \A d \in delivered : d.code \in 1 .. made /\ d.code \notin gone

StoredOnce ==
  \A t, u \in Types, o, n \in Objects :
    codes[t][o] # NULL /\ codes[t][o] = codes[u][n] => t = u /\ o = n

Proper(type, object, to) ==
  IF type = "default" THEN object \in Uids
  ELSE to = object \/ (object \in Mobiles /\ to \in Emails)

AllProper ==
  /\ \A p \in Procs : Sending(call[p]) => Proper(call[p].type, call[p].object, call[p].to)
  /\ \A d \in delivered : Proper(d.type, d.object, d.to)

CallsInv == RivalsRaced /\ LonersAlone /\ FlyingStored /\ FlyingApart
CodesInv == FlyingFresh /\ DeliveredKept /\ DeliveredMade /\ StoredOnce /\ AllProper

IInv == TypeOK /\ CallsInv /\ CodesInv

(* A step of one request leaves the others.                                *)
LEMMA GoesCalls ==
  ASSUME TypeOK, NEW p \in Procs, NEW k, Goes(p, k)
  PROVE  call'[p] = k /\ \A q \in Procs \ {p} : call'[q] = call[q]
BY DEF Goes, TypeOK

(* A code is stored under one key.                                         *)
LEMMA StoresCodes ==
  ASSUME TypeOK, NEW k, k.type \in Types, k.object \in Objects, NEW c, Stores(k, c)
  PROVE  \A t \in Types, o \in Objects :
           codes'[t][o] = IF t = k.type /\ o = k.object THEN c ELSE codes[t][o]
BY DEF Stores, TypeOK

(* A request that starts to send marks those it overlaps with.             *)
LEMMA MakesCalls ==
  ASSUME TypeOK, NEW p \in Procs, NEW type, NEW object, NEW mobile, NEW email,
         Makes(p, type, object, mobile, email)
  PROVE  /\ call'[p].pc = "put" /\ call'[p].type = type /\ call'[p].object = object
         /\ call'[p].to = IF email # NULL THEN email ELSE mobile
         /\ call'[p].code = NULL /\ call'[p].raced = (Rivals(p, type, object) # {})
         /\ \A q \in Procs \ {p} :
              /\ call'[q].pc = call[q].pc /\ call'[q].type = call[q].type
              /\ call'[q].object = call[q].object /\ call'[q].code = call[q].code
              /\ call'[q].to = call[q].to
              /\ call[q].raced => call'[q].raced
              /\ q \in Rivals(p, type, object) => call'[q].raced
<1> DEFINE rivals == Rivals(p, type, object)
           new == [Idle EXCEPT !.pc = "put", !.type = type, !.object = object,
                     !.to = IF email # NULL THEN email ELSE mobile, !.raced = (rivals # {})]
<1>1. call'[p] = new
  BY DEF Makes
<1>2. ASSUME NEW q \in Procs \ {p}
      PROVE  /\ call'[q] = [call[q] EXCEPT !.raced = TRUE] \/ (q \notin rivals /\ call'[q] = call[q])
             /\ call[q] \in Calls
  BY DEF Makes, TypeOK
<1>3. ASSUME NEW q \in Procs \ {p}
      PROVE  /\ call'[q].pc = call[q].pc /\ call'[q].type = call[q].type
             /\ call'[q].object = call[q].object /\ call'[q].code = call[q].code
             /\ call'[q].to = call[q].to
             /\ call[q].raced => call'[q].raced
             /\ q \in rivals => call'[q].raced
  BY <1>2 DEF Calls
<1>4. /\ new.pc = "put" /\ new.type = type /\ new.object = object /\ new.code = NULL
      /\ new.to = IF email # NULL THEN email ELSE mobile
      /\ new.raced = (rivals # {})
  BY DEF Idle
<1> QED  BY <1>1, <1>3, <1>4

(* Nothing is lost but the codes of cs.                                    *)
LEMMA LosesFacts ==
  ASSUME NEW cs, Loses(cs)
  PROVE  /\ gone \subseteq gone' /\ \A c \in cs : c # NULL => c \in gone'
         /\ delivered' \subseteq delivered /\ \A d \in delivered' : d.code \notin cs
         /\ \A c \in gone' : c \in gone \/ c \in cs
BY DEF Loses

-----------------------------------------------------------------------------
(* A step that has nothing to do with sending keeps the invariant.         *)
LEMMA QuietInv ==
  ASSUME IInv, TypeOK', NEW p \in Procs, NEW k, Goes(p, k), ~Sending(call[p]), ~Sending(k),
         UNCHANGED <<codes, made, delivered, gone>>
  PROVE  CallsInv' /\ CodesInv'
<1>1. call'[p] = k /\ \A q \in Procs \ {p} : call'[q] = call[q]
  BY GoesCalls DEF IInv
<1>2. \A q \in Procs : Sending(call'[q]) \/ Flies(call'[q]) => q # p /\ call'[q] = call[q]
  BY <1>1 DEF Sending, Flies
<1>3. RivalsRaced' /\ LonersAlone' /\ FlyingStored' /\ FlyingApart'
  BY <1>2 DEF IInv, CallsInv, RivalsRaced, LonersAlone, FlyingStored, FlyingApart
<1>4. FlyingFresh' /\ AllProper'
  BY <1>2 DEF IInv, CodesInv, FlyingFresh, AllProper
<1>5. DeliveredKept' /\ DeliveredMade' /\ StoredOnce'
  BY DEF IInv, CodesInv, DeliveredKept, DeliveredMade, StoredOnce
<1> QED  BY <1>3, <1>4, <1>5 DEF CallsInv, CodesInv

(* The start of a sending keeps it.                                        *)
LEMMA MakesInv ==
  ASSUME IInv, TypeOK', NEW p \in Procs, NEW type \in Types, NEW object \in Objects,
         NEW mobile, NEW email, Makes(p, type, object, mobile, email),
         codes[type][object] = NULL,
         Proper(type, object, IF email # NULL THEN email ELSE mobile)
  PROVE  CallsInv' /\ CodesInv'
<1> USE DEF IInv
<1>1. /\ call'[p].pc = "put" /\ call'[p].type = type /\ call'[p].object = object
      /\ call'[p].to = IF email # NULL THEN email ELSE mobile
      /\ call'[p].code = NULL /\ call'[p].raced = (Rivals(p, type, object) # {})
  BY MakesCalls
<1>2. \A q \in Procs \ {p} :
        /\ call'[q].pc = call[q].pc /\ call'[q].type = call[q].type
        /\ call'[q].object = call[q].object /\ call'[q].code = call[q].code
        /\ call'[q].to = call[q].to
        /\ call[q].raced => call'[q].raced
        /\ q \in Rivals(p, type, object) => call'[q].raced
  BY MakesCalls
<1>3. UNCHANGED <<codes, made, delivered, gone>>
  BY DEF Makes
<1>4. \A q \in Procs : Flies(call'[q]) => q # p /\ Flies(call[q]) /\ call'[q].code = call[q].code
                         /\ call'[q].type = call[q].type /\ call'[q].object = call[q].object
  BY <1>1, <1>2 DEF Flies
<1>5. RivalsRaced'
  <2> SUFFICES ASSUME NEW q \in Procs, NEW r \in Procs, q # r, Sending(call'[q]), Sending(call'[r]),
                      SameKey(call'[q], call'[r])
               PROVE  call'[q].raced
    BY DEF RivalsRaced
  <2>1. CASE q = p
    <3>1. r \in Rivals(p, type, object)
      BY <1>1, <1>2, <2>1 DEF Rivals, Sending, SameKey
    <3>2. (call'[p].raced) = TRUE
      BY <1>1, <3>1
    <3> QED  BY <2>1, <3>2
  <2>2. CASE r = p
    BY <1>1, <1>2, <2>2 DEF Rivals, Sending, SameKey
  <2>3. CASE q # p /\ r # p
    BY <1>2, <2>3 DEF Sending, SameKey, CallsInv, RivalsRaced
  <2> QED  BY <2>1, <2>2, <2>3
<1>6. LonersAlone'
  <2> SUFFICES ASSUME NEW q \in Procs, Sending(call'[q]), ~call'[q].raced
               PROVE  codes[call'[q].type][call'[q].object] \in {NULL, call'[q].code}
    BY <1>3 DEF LonersAlone
  <2>1. CASE q = p
    BY <1>1, <2>1
  <2>2. CASE q # p
    BY <1>2, <2>2 DEF Sending, CallsInv, LonersAlone
  <2> QED  BY <2>1, <2>2
<1>7. FlyingStored' /\ FlyingApart' /\ FlyingFresh'
  BY <1>3, <1>4 DEF CallsInv, CodesInv, FlyingStored, FlyingApart, FlyingFresh
<1>8. AllProper'
  <2> SUFFICES ASSUME NEW q \in Procs, Sending(call'[q])
               PROVE  Proper(call'[q].type, call'[q].object, call'[q].to)
    BY <1>3 DEF CodesInv, AllProper
  <2>1. CASE q = p
    BY <1>1, <2>1
  <2>2. CASE q # p
    BY <1>2, <2>2 DEF Sending, CodesInv, AllProper
  <2> QED  BY <2>1, <2>2
<1>9. DeliveredKept' /\ DeliveredMade' /\ StoredOnce'
  BY <1>3 DEF CodesInv, DeliveredKept, DeliveredMade, StoredOnce
<1> QED  BY <1>5, <1>6, <1>7, <1>8, <1>9 DEF CallsInv, CodesInv

(* A sending that ends with its codes where they are keeps it, and the     *)
(* request's code, if it is not known to be lost, is delivered or lost.    *)
LEMMA StopInv ==
  ASSUME IInv, TypeOK', NEW p \in Procs, NEW k, Goes(p, k), Sending(call[p]),
         k.pc = "idle" \/ (Flies(call[p]) /\ Flies(k) /\ k.code = call[p].code /\ SameKey(k, call[p])
                            /\ k.raced = call[p].raced /\ k.to = call[p].to),
         UNCHANGED <<codes, made>>,
         gone \subseteq gone', gone' \subseteq gone \cup {call[p].code},
         \A d \in delivered' : d \in delivered \/
           (/\ k.pc = "idle" /\ Flies(call[p]) /\ call[p].code \notin gone
            /\ d.code = call[p].code /\ d.type = call[p].type /\ d.object = call[p].object
            /\ d.to = call[p].to),
         delivered' \subseteq delivered \/ gone' = gone
  PROVE  CallsInv' /\ CodesInv'
<1> USE DEF IInv
<1>1. call'[p] = k /\ \A q \in Procs \ {p} : call'[q] = call[q]
  BY GoesCalls
<1>2. \A q \in Procs : Sending(call'[q]) =>
        /\ Sending(call[q]) /\ (Flies(call'[q]) => Flies(call[q]))
        /\ call'[q].type = call[q].type /\ call'[q].object = call[q].object
        /\ call'[q].code = call[q].code /\ call'[q].raced = call[q].raced
        /\ call'[q].to = call[q].to
  BY <1>1 DEF Sending, Flies, SameKey
<1>3. \A q \in Procs : Flies(call'[q]) => Sending(call'[q])
  BY DEF Flies, Sending
<1>4. RivalsRaced' /\ LonersAlone'
  BY <1>2 DEF SameKey, CallsInv, RivalsRaced, LonersAlone
<1>5. FlyingStored' /\ FlyingApart'
  BY <1>2, <1>3 DEF CallsInv, FlyingStored, FlyingApart
<1>6. FlyingFresh'
  <2> SUFFICES ASSUME NEW q \in Procs, NEW d \in delivered', Flies(call'[q])
               PROVE  d.code # call'[q].code
    BY DEF FlyingFresh
  <2>1. CASE d \in delivered
    BY <1>2, <1>3, <2>1 DEF CodesInv, FlyingFresh
  <2>2. CASE d \notin delivered
    <3>1. k.pc = "idle" /\ Flies(call[p]) /\ d.code = call[p].code
      BY <2>2
    <3>2. q # p
      BY <1>1, <3>1 DEF Flies
    <3> QED  BY <1>1, <3>1, <3>2 DEF CallsInv, FlyingApart
  <2> QED  BY <2>1, <2>2
<1>7. DeliveredKept'
  BY DEF CodesInv, DeliveredKept, CallsInv, FlyingStored
<1>8. DeliveredMade'
  <2> SUFFICES ASSUME NEW d \in delivered' PROVE d.code \in 1 .. made /\ d.code \notin gone'
    BY DEF DeliveredMade
  <2>1. CASE d \in delivered
    <3>1. CASE Flies(call[p])
      BY <2>1, <3>1 DEF CodesInv, DeliveredMade, FlyingFresh
    <3>2. CASE ~Flies(call[p])
      <4>1. call[p].code = NULL
        BY <3>2 DEF Sending, Flies, TypeOK
      <4> QED  BY <2>1, <4>1, NullIsNone DEF CodesInv, DeliveredMade
    <3> QED  BY <3>1, <3>2
  <2>2. CASE d \notin delivered
    BY <2>2 DEF Flies, TypeOK
  <2> QED  BY <2>1, <2>2
<1>9. StoredOnce'
  BY DEF CodesInv, StoredOnce
<1>10. AllProper'
  <2>1. \A d \in delivered' : Proper(d.type, d.object, d.to)
    BY DEF CodesInv, AllProper, Flies, Sending
  <2>2. \A q \in Procs : Sending(call'[q]) => Proper(call'[q].type, call'[q].object, call'[q].to)
    BY <1>2 DEF CodesInv, AllProper
  <2> QED  BY <2>1, <2>2 DEF AllProper
<1> QED  BY <1>4, <1>5, <1>6, <1>7, <1>8, <1>9, <1>10 DEF CallsInv, CodesInv

(* The write of a code keeps it: nobody else sends for the key, or what is *)
(* replaced counts as lost.                                                *)
LEMMA PutInv ==
  ASSUME IInv, TypeOK', NEW p \in Procs, Put(p)
  PROVE  CallsInv' /\ CodesInv'
<1> USE DEF IInv
<1> DEFINE K == call[p]
           old == codes[K.type][K.object]
<1>1. /\ K.pc = "put" /\ K.type \in Types /\ K.object \in Objects /\ K.code = NULL
      /\ K \in Calls /\ old \in 1 .. made \cup {NULL}
  BY KeyOf DEF Put, TypeOK
<1>2. /\ call'[p] = [K EXCEPT !.pc = "deliver", !.code = made']
      /\ \A q \in Procs \ {p} : call'[q] = call[q]
  BY GoesCalls DEF Put
<1>3. /\ call'[p].pc = "deliver" /\ call'[p].code = made' /\ call'[p].type = K.type
      /\ call'[p].object = K.object /\ call'[p].to = K.to /\ call'[p].raced = K.raced
  BY <1>1, <1>2 DEF Calls
<1>4. \A t \in Types, o \in Objects :
        codes'[t][o] = IF t = K.type /\ o = K.object THEN made' ELSE codes[t][o]
  BY <1>1, StoresCodes DEF Put
<1>5. /\ gone \subseteq gone' /\ delivered' \subseteq delivered
      /\ \A c \in gone' : c \in gone \/ (K.raced /\ c = old)
      /\ K.raced => (old # NULL => old \in gone') /\ \A d \in delivered' : d.code # old
  BY LosesFacts DEF Put
<1>6. made \in Nat /\ made' = made + 1 /\ made' \notin gone' /\ gone \subseteq 1 .. made
  BY <1>1, <1>5, NullIsNone DEF Put, TypeOK
<1>7. \A q \in Procs \ {p} : Flies(call[q]) =>
        call[q].code \in 1 .. made /\ call[q].type \in Types /\ call[q].object \in Objects
  BY KeyOf DEF Flies, TypeOK
<1>8. ASSUME NEW q \in Procs \ {p}, Sending(call[q]), SameKey(call[q], K)
      PROVE  call[q].raced /\ K.raced
  BY <1>1, <1>8 DEF Sending, SameKey, CallsInv, RivalsRaced
<1>9. \A q \in Procs \ {p} : Sending(call[q]) => call[q].type \in Types /\ call[q].object \in Objects
  BY KeyOf DEF Sending
<1> HIDE DEF K, old
<1>10. RivalsRaced'
  <2> SUFFICES ASSUME NEW q \in Procs, NEW r \in Procs, q # r, Sending(call'[q]), Sending(call'[r]),
                      SameKey(call'[q], call'[r])
               PROVE  call'[q].raced
    BY DEF RivalsRaced
  <2>1. CASE q = p
    BY <1>2, <1>3, <1>8, <2>1 DEF SameKey
  <2>2. CASE r = p
    BY <1>2, <1>3, <1>8, <2>2 DEF SameKey
  <2>3. CASE q # p /\ r # p
    BY <1>2, <2>3 DEF CallsInv, RivalsRaced
  <2> QED  BY <2>1, <2>2, <2>3
<1>11. LonersAlone'
  <2> SUFFICES ASSUME NEW q \in Procs, Sending(call'[q]), ~call'[q].raced
               PROVE  codes'[call'[q].type][call'[q].object] \in {NULL, call'[q].code}
    BY DEF LonersAlone
  <2>1. CASE q = p
    BY <1>1, <1>3, <1>4, <2>1
  <2>2. CASE q # p
    <3>1. ~SameKey(call[q], K) /\ call'[q] = call[q] /\ call[q].type \in Types
          /\ call[q].object \in Objects
      BY <1>2, <1>8, <1>9, <2>2
    <3>2. codes'[call[q].type][call[q].object] = codes[call[q].type][call[q].object]
      BY <1>4, <3>1 DEF SameKey
    <3> QED  BY <3>1, <3>2 DEF CallsInv, LonersAlone
  <2> QED  BY <2>1, <2>2
<1>12. FlyingStored'
  <2> SUFFICES ASSUME NEW q \in Procs, Flies(call'[q])
               PROVE  call'[q].code \in gone' \/ codes'[call'[q].type][call'[q].object] = call'[q].code
    BY DEF FlyingStored
  <2>1. CASE q = p
    BY <1>1, <1>3, <1>4, <2>1
  <2>2. CASE q # p
    <3>1. call'[q] = call[q] /\ Flies(call[q]) /\ Sending(call[q])
      BY <1>2, <2>2 DEF Flies, Sending
    <3>2. call[q].code \in gone \/ codes[call[q].type][call[q].object] = call[q].code
      BY <3>1 DEF CallsInv, FlyingStored
    <3>3. CASE SameKey(call[q], K)
      <4>1. K.raced /\ codes[call[q].type][call[q].object] = old
        BY <1>8, <2>2, <3>1, <3>3 DEF SameKey, old
      <4>2. call[q].code # NULL
        BY <1>7, <2>2, <3>1, NullIsNone
      <4> QED  BY <1>5, <3>1, <3>2, <4>1, <4>2
    <3>4. CASE ~SameKey(call[q], K)
      BY <1>4, <1>5, <1>7, <2>2, <3>1, <3>2, <3>4 DEF SameKey
    <3> QED  BY <3>3, <3>4
  <2> QED  BY <2>1, <2>2
<1>13. FlyingApart' /\ FlyingFresh'
  <2>1. \A q \in Procs : Flies(call'[q]) => IF q = p THEN call'[q].code = made + 1
                                            ELSE /\ Flies(call[q]) /\ call'[q].code = call[q].code
                                                 /\ call[q].code \in 1 .. made
    BY <1>2, <1>3, <1>6, <1>7 DEF Flies
  <2>2. \A d \in delivered' : d.code \in 1 .. made
    BY <1>5 DEF CodesInv, DeliveredMade
  <2>3. FlyingApart'
    BY <1>6, <2>1 DEF CallsInv, FlyingApart
  <2>4. FlyingFresh'
    BY <1>5, <1>6, <2>1, <2>2 DEF CodesInv, FlyingFresh
  <2> QED  BY <2>3, <2>4
<1>14. DeliveredKept'
  <2> SUFFICES ASSUME NEW d \in delivered' PROVE codes'[d.type][d.object] = d.code
    BY DEF DeliveredKept
  <2>1. d \in delivered /\ codes[d.type][d.object] = d.code /\ d.code \in 1 .. made
    BY <1>5 DEF CodesInv, DeliveredKept, DeliveredMade
  <2>2. d.type \in Types /\ d.object \in Objects
    BY <2>1 DEF TypeOK, Deliveries
  <2>3. ~(d.type = K.type /\ d.object = K.object)
    <3>1. SUFFICES ASSUME d.type = K.type, d.object = K.object PROVE FALSE
      OBVIOUS
    <3>2. old = d.code
      BY <2>1, <3>1 DEF old
    <3>3. CASE K.raced
      BY <1>5, <3>2, <3>3
    <3>4. CASE ~K.raced
      <4>1. old \in {NULL, K.code}
        BY <1>1, <3>4 DEF Sending, CallsInv, LonersAlone, old, K
      <4> QED  BY <1>1, <2>1, <3>2, <4>1, NullIsNone
    <3> QED  BY <3>3, <3>4
  <2> QED  BY <1>4, <2>1, <2>2, <2>3
<1>15. DeliveredMade'
  <2> SUFFICES ASSUME NEW d \in delivered' PROVE d.code \in 1 .. made' /\ d.code \notin gone'
    BY DEF DeliveredMade
  <2>1. d.code \in 1 .. made /\ d.code \notin gone
    BY <1>5 DEF CodesInv, DeliveredMade
  <2> QED  BY <1>5, <1>6, <2>1
<1>16. StoredOnce'
  <2>1. \A t \in Types, o \in Objects : codes[t][o] # made'
    BY <1>6, NullIsNone DEF TypeOK
  <2> QED  BY <1>4, <2>1 DEF CodesInv, StoredOnce
<1>17. AllProper'
  <2>1. \A q \in Procs : Sending(call'[q]) => /\ Sending(call[q]) /\ call'[q].type = call[q].type
                                              /\ call'[q].object = call[q].object
                                              /\ call'[q].to = call[q].to
    BY <1>1, <1>2, <1>3 DEF Sending, K
  <2> QED  BY <1>5, <2>1 DEF CodesInv, AllProper
<1> QED  BY <1>10, <1>11, <1>12, <1>13, <1>14, <1>15, <1>16, <1>17 DEF CallsInv, CodesInv

(* A key that loses its code keeps it, when whoever the code was delivered *)
(* to or flies with loses it.                                              *)
LEMMA DropInv ==
  ASSUME IInv, TypeOK', NEW type \in Types, NEW object \in Objects, made' = made,
         \A t \in Types, o \in Objects :
           codes'[t][o] = IF t = type /\ o = object THEN NULL ELSE codes[t][o],
         \A q \in Procs : call'[q].pc # "idle" => call'[q] = call[q],
         gone \subseteq gone', delivered' \subseteq delivered,
         \A d \in delivered' : d.code \notin gone',
         \A d \in delivered' : ~(d.type = type /\ d.object = object),
         \A q \in Procs : Flies(call'[q]) /\ call[q].type = type /\ call[q].object = object
           => call[q].code \in gone'
  PROVE  CallsInv' /\ CodesInv'
<1> USE DEF IInv
<1>1. \A q \in Procs : Sending(call'[q]) \/ Flies(call'[q]) =>
        call'[q] = call[q] /\ call[q].type \in Types /\ call[q].object \in Objects
  BY KeyOf DEF Sending, Flies
<1>2. RivalsRaced' /\ FlyingApart'
  BY <1>1 DEF CallsInv, RivalsRaced, FlyingApart
<1>3. LonersAlone'
  BY <1>1 DEF CallsInv, LonersAlone
<1>4. FlyingStored'
  BY <1>1 DEF CallsInv, FlyingStored
<1>5. FlyingFresh' /\ AllProper'
  BY <1>1 DEF CodesInv, FlyingFresh, AllProper
<1>6. DeliveredKept'
  BY DEF CodesInv, DeliveredKept, TypeOK, Deliveries
<1>7. DeliveredMade' /\ StoredOnce'
  BY DEF CodesInv, DeliveredMade, StoredOnce
<1> QED  BY <1>2, <1>3, <1>4, <1>5, <1>6, <1>7 DEF CallsInv, CodesInv

(* del_code keeps it: it deletes the request's own code, or what it        *)
(* deletes counts as lost.                                                 *)
LEMMA UndoInv ==
  ASSUME IInv, TypeOK', NEW p \in Procs, Undo(p)
  PROVE  CallsInv' /\ CodesInv'
<1> USE DEF IInv
<1> DEFINE K == call[p]
           old == codes[K.type][K.object]
<1>1. K.pc = "undo" /\ K.type \in Types /\ K.object \in Objects /\ K.code \in 1 .. made
  BY KeyOf DEF Undo, TypeOK
<1>2. call'[p] = Idle /\ \A q \in Procs \ {p} : call'[q] = call[q]
  BY GoesCalls DEF Undo
<1>3. \A t \in Types, o \in Objects :
        codes'[t][o] = IF t = K.type /\ o = K.object THEN NULL ELSE codes[t][o]
  BY <1>1, StoresCodes DEF Undo
<1>4. /\ gone \subseteq gone' /\ delivered' \subseteq delivered
      /\ \A c \in gone' : c \in gone \/ (K.raced /\ c = old)
      /\ K.raced => (old # NULL => old \in gone') /\ \A d \in delivered' : d.code # old
  BY LosesFacts DEF Undo
<1>5. made' = made
  BY DEF Undo
<1>6. \A q \in Procs : call'[q].pc # "idle" => q # p /\ call'[q] = call[q]
  BY <1>2 DEF Idle
<1>7. \A d \in delivered' : d.code \notin gone'
  BY <1>4 DEF CodesInv, DeliveredMade
<1>8. ASSUME NEW d \in delivered', d.type = K.type, d.object = K.object
      PROVE  FALSE
  <2>1. d \in delivered /\ old = d.code /\ d.code \in 1 .. made
    BY <1>4, <1>8 DEF CodesInv, DeliveredKept, DeliveredMade
  <2>2. d.code # K.code
    BY <1>1, <2>1 DEF CodesInv, FlyingFresh, Flies
  <2>3. CASE K.raced
    BY <1>4, <2>1, <2>3
  <2>4. CASE ~K.raced
    BY <1>1, <2>1, <2>2, <2>4, NullIsNone DEF Sending, CallsInv, LonersAlone
  <2> QED  BY <2>3, <2>4
<1>9. ASSUME NEW q \in Procs, Flies(call'[q]), call[q].type = K.type, call[q].object = K.object
      PROVE  call[q].code \in gone'
  <2>1. q # p /\ Flies(call[q]) /\ Sending(call[q]) /\ call[q].code \in 1 .. made
    BY <1>6, <1>9 DEF Flies, Sending, TypeOK
  <2>2. K.raced
    BY <1>1, <1>9, <2>1 DEF CallsInv, RivalsRaced, SameKey, Sending
  <2>3. call[q].code \in gone \/ old = call[q].code
    BY <1>9, <2>1 DEF CallsInv, FlyingStored
  <2> QED  BY <1>4, <2>1, <2>2, <2>3, NullIsNone
<1> HIDE DEF K, old
<1> QED  BY <1>1, <1>3, <1>4, <1>5, <1>6, <1>7, <1>8, <1>9, DropInv

(* So does the expiry of a code.                                           *)
LEMMA ExpireInv ==
  ASSUME IInv, TypeOK', NEW t \in Types, NEW o \in Objects, Expire(t, o)
  PROVE  CallsInv' /\ CodesInv'
<1> USE DEF IInv
<1>1. \A u \in Types, n \in Objects :
        codes'[u][n] = IF u = t /\ n = o THEN NULL ELSE codes[u][n]
  BY DEF Expire, TypeOK
<1>2. /\ gone \subseteq gone' /\ delivered' \subseteq delivered /\ codes[t][o] \in gone'
      /\ \A d \in delivered' : d.code # codes[t][o]
      /\ \A c \in gone' : c \in gone \/ c = codes[t][o]
  BY LosesFacts DEF Expire
<1>3. made' = made /\ call' = call
  BY DEF Expire
<1>4. \A d \in delivered' : d.code \notin gone' /\ ~(d.type = t /\ d.object = o)
  BY <1>2 DEF CodesInv, DeliveredMade, DeliveredKept
<1>5. \A q \in Procs : Flies(call'[q]) /\ call[q].type = t /\ call[q].object = o
        => call[q].code \in gone'
  BY <1>2, <1>3 DEF CallsInv, FlyingStored
<1> QED  BY <1>1, <1>2, <1>3, <1>4, <1>5, DropInv

-----------------------------------------------------------------------------
(* Every step keeps the invariant.                                         *)
LEMMA StepInv == IInv /\ [Next]_vars => IInv'
<1> SUFFICES ASSUME IInv, [Next]_vars PROVE IInv'
  OBVIOUS
<1>0. TypeOK /\ TypeOK'
  BY StepTypes DEF IInv
<1> SUFFICES CallsInv' /\ CodesInv'
  BY <1>0 DEF IInv
<1>1. ASSUME NEW p \in Procs, NEW t \in Types, NEW s \in {"mobile", "email"},
             NEW m \in Mobiles \cup {NULL}, NEW e \in Emails \cup {NULL}, SendToAddress(p, t, s, m, e)
      PROVE  CallsInv' /\ CodesInv'
  <2> DEFINE object == Named(s, m, e)
  <2>1. object # NULL /\ t # "default" /\ codes[t][object] = NULL /\ Makes(p, t, object, m, e)
    BY <1>1 DEF SendToAddress, Makes
  <2>2. object \in Objects /\ Proper(t, object, IF e # NULL THEN e ELSE m)
    BY <2>1, NullIsNone DEF Named, Proper, Objects, Addresses
  <2> QED  BY <1>0, <2>1, <2>2, MakesInv
<1>2. ASSUME NEW p \in Procs, NEW u \in Uids, SendToUser(p, u)
      PROVE  CallsInv' /\ CodesInv'
  <2> DEFINE m == users[u].mobile
             e == users[u].email
  <2>1. u \in Objects /\ "default" \in Types
        /\ Proper("default", u, IF e # NULL THEN e ELSE m)
    BY DEF Objects, Types, Proper
  <2>2. codes["default"][u] = NULL /\ Makes(p, "default", u, m, e)
    BY <1>2 DEF SendToUser
  <2> HIDE DEF m, e
  <2> QED  BY <1>0, <2>1, <2>2, MakesInv
<1>3. ASSUME NEW p \in Procs, NEW type, NEW object, NEW code, NEW uid, NEW user,
             Verifies(p, type, object, code, uid, user)
      PROVE  CallsInv' /\ CodesInv'
  <2> DEFINE k == [Idle EXCEPT !.pc = "commit", !.type = type, !.object = object, !.code = code,
                     !.uid = uid, !.user = user]
  <2>1. ~Sending(call[p]) /\ ~Sending(k) /\ Goes(p, k)
        /\ UNCHANGED <<codes, made, delivered, gone>>
    BY <1>3 DEF Verifies, Sending, Idle
  <2> HIDE DEF k
  <2> QED  BY <1>0, <2>1, QuietInv
<1>4. ASSUME NEW p \in Procs, NEW u \in Uids, Commit(p, u)
      PROVE  CallsInv' /\ CodesInv'
  <2>1. ~Sending(call[p]) /\ ~Sending(Idle) /\ Goes(p, Idle)
        /\ UNCHANGED <<codes, made, delivered, gone>>
    BY <1>4 DEF Commit, Sending, Idle
  <2> QED  BY <1>0, <2>1, QuietInv
<1>5. ASSUME NEW p \in Procs, Deliver(p)
      PROVE  CallsInv' /\ CodesInv'
  <2>1. /\ Sending(call[p]) /\ Flies(call[p]) /\ Goes(p, Idle) /\ Idle.pc = "idle"
        /\ UNCHANGED <<codes, made>> /\ gone' = gone
    BY <1>5 DEF Deliver, Sending, Flies, Idle
  <2>2. \A d \in delivered' : d \in delivered \/
          (/\ call[p].code \notin gone
           /\ d.code = call[p].code /\ d.type = call[p].type /\ d.object = call[p].object
           /\ d.to = call[p].to)
    BY <1>5 DEF Deliver
  <2> QED  BY <1>0, <2>1, <2>2, StopInv
<1>6. ASSUME NEW p \in Procs, NotDelivered(p)
      PROVE  CallsInv' /\ CodesInv'
  <2> DEFINE k == [call[p] EXCEPT !.pc = "undo"]
  <2>1. /\ Sending(call[p]) /\ Flies(call[p]) /\ Goes(p, k)
        /\ UNCHANGED <<codes, made, delivered, gone>>
    BY <1>6 DEF NotDelivered, Sending, Flies
  <2>2. Flies(k) /\ k.code = call[p].code /\ SameKey(k, call[p]) /\ k.raced = call[p].raced
        /\ k.to = call[p].to
    BY <1>0 DEF Flies, SameKey, TypeOK, Calls
  <2> HIDE DEF k
  <2> QED  BY <1>0, <2>1, <2>2, StopInv
<1>7. ASSUME NEW p \in Procs, Crash(p)
      PROVE  CallsInv' /\ CodesInv'
  <2>1. /\ Sending(call[p]) /\ Goes(p, Idle) /\ Idle.pc = "idle" /\ UNCHANGED <<codes, made>>
        /\ Loses({call[p].code})
    BY <1>7 DEF Crash, Idle
  <2>2. gone \subseteq gone' /\ delivered' \subseteq delivered /\ gone' \subseteq gone \cup {call[p].code}
    BY <2>1, LosesFacts
  <2> QED  BY <1>0, <2>1, <2>2, StopInv
<1>8. CASE UNCHANGED vars
  <2>1. UNCHANGED <<codes, call, made, delivered, gone>>
    BY <1>8 DEF vars
  <2>2. CallsInv'
    BY <2>1 DEF IInv, CallsInv, RivalsRaced, LonersAlone, FlyingStored, FlyingApart
  <2>3. CodesInv'
    BY <2>1 DEF IInv, CodesInv, FlyingFresh, DeliveredKept, DeliveredMade, StoredOnce, AllProper
  <2> QED  BY <2>2, <2>3
<1>9. ASSUME NEW p \in Procs
      PROVE  /\ \A user \in Users, code \in Given : Signup(p, user, code) => CallsInv' /\ CodesInv'
             /\ \A u \in Uids, code \in Given :
                  /\ Signin(p, u, code) => CallsInv' /\ CodesInv'
                  /\ \A a \in Addresses : Update(p, u, a, code) => CallsInv' /\ CodesInv'
  BY <1>3 DEF Signup, Signin, Update
<1> QED
  BY <1>0, <1>1, <1>2, <1>4, <1>5, <1>6, <1>7, <1>8, <1>9, PutInv, UndoInv, ExpireInv DEF Next

(* The invariant holds from the start on.                                  *)
LEMMA InitInv == Init => IInv
<1> SUFFICES ASSUME Init PROVE IInv
  OBVIOUS
<1>1. TypeOK
  <2>1. call \in [Procs -> Calls] /\ \A p \in Procs : CallOK(call[p], 0)
    BY IdleOK DEF Init
  <2> QED  BY <2>1, NullIsNone DEF Init, TypeOK, CallOK
<1>2. \A p \in Procs : ~Sending(call[p]) /\ ~Flies(call[p])
  BY DEF Init, Sending, Flies, Idle
<1>3. CallsInv
  BY <1>2 DEF CallsInv, RivalsRaced, LonersAlone, FlyingStored, FlyingApart
<1>4. CodesInv
  BY <1>2 DEF Init, CodesInv, FlyingFresh, DeliveredKept, DeliveredMade, StoredOnce, AllProper
<1> QED  BY <1>1, <1>3, <1>4 DEF IInv

(* get_new_code and del_code leave a delivered code where it is, unless    *)
(* two requests for its key overlap.                                       *)
THEOREM CodesStay == Spec => []DeliveredKept
<1>1. IInv => DeliveredKept
  BY DEF IInv, CodesInv
<1> QED  BY <1>1, InitInv, StepInv, PTL DEF Spec

(* What AddressProven says of a step, and of one request in it.            *)
ProvenAt(p) ==
  LET k == call'[p] IN
  call[p].pc # "commit" /\ k.pc = "commit" /\ k.code # NULL =>
    /\ k.type \in {"signup", "signin"}
    /\ \E d \in delivered :
         /\ d.type = k.type /\ d.object = k.object /\ d.code = k.code
         /\ d.to = k.object \/ (k.object \in Mobiles /\ d.to \in Emails)

Proven == \A p \in Procs : ProvenAt(p)

(* A step after which requests are at a commit only if they were is one.   *)
LEMMA NoneCommits ==
  ASSUME \A q \in Procs : call'[q].pc = "commit" => call[q].pc = "commit"
  PROVE  Proven
BY DEF Proven, ProvenAt

(* So is one that moves a request on to anything but a commit.             *)
LEMMA GoesElsewhere ==
  ASSUME TypeOK, NEW p \in Procs, NEW k, Goes(p, k), k.pc # "commit"
  PROVE  Proven
<1>1. \A q \in Procs : call'[q].pc = "commit" => call[q].pc = "commit"
  BY GoesCalls
<1> QED  BY <1>1, NoneCommits

(* And one that verifies a code for a sign-up, a sign-in or an address:    *)
(* what is stored under the key was delivered for the key, which is no     *)
(* address for the type of a change of address.                            *)
LEMMA VerifiesProven ==
  ASSUME IInv, NEW p \in Procs, NEW type, type \in {"signup", "signin", "default"},
         NEW object \in Addresses, NEW code, NEW uid, NEW user,
         Verifies(p, type, object, code, uid, user)
  PROVE  Proven
<1> DEFINE k == [Idle EXCEPT !.pc = "commit", !.type = type, !.object = object, !.code = code,
                   !.uid = uid, !.user = user]
<1>1. k.type = type /\ k.object = object /\ k.code = code
  BY DEF Idle
<1>2. call'[p] = k /\ \A q \in Procs \ {p} : call'[q] = call[q]
  BY GoesCalls DEF Verifies, IInv
<1> HIDE DEF k
<1>3. \A q \in Procs \ {p} : ProvenAt(q)
  BY <1>2 DEF ProvenAt
<1>4. ASSUME code # NULL
      PROVE  /\ type \in {"signup", "signin"}
             /\ \E d \in delivered :
                  /\ d.type = type /\ d.object = object /\ d.code = code
                  /\ d.to = object \/ (object \in Mobiles /\ d.to \in Emails)
  <2>1. PICK d \in delivered : d.code = code
    BY <1>4 DEF Verifies, Given
  <2>2. d.type \in Types /\ d.object \in Objects /\ type \in Types /\ object \in Objects
    BY <2>1 DEF IInv, TypeOK, Deliveries, Types, Objects
  <2>3. codes[type][object] = code /\ codes[d.type][d.object] = code
    BY <2>1 DEF Verifies, IInv, CodesInv, DeliveredKept
  <2>4. d.type = type /\ d.object = object
    <3> DEFINE u == d.type
               n == d.object
    <3>1. u \in Types /\ n \in Objects /\ codes[u][n] = code
      BY <2>2, <2>3
    <3> HIDE DEF u, n
    <3>2. u = type /\ n = object
      BY <1>4, <2>2, <2>3, <3>1 DEF IInv, CodesInv, StoredOnce
    <3> QED  BY <3>2 DEF u, n
  <2>5. Proper(type, object, d.to)
    BY <2>1, <2>4 DEF IInv, CodesInv, AllProper
  <2>6. type # "default"
    BY <2>5, NullIsNone DEF Proper
  <2> QED  BY <2>1, <2>4, <2>5, <2>6 DEF Proper
<1>5. ProvenAt(p)
  BY <1>1, <1>2, <1>4 DEF ProvenAt
<1> QED  BY <1>3, <1>5 DEF Proven

(* A verification accepts a code for the purpose it was sent for only, and *)
(* never for a change of address.                                          *)
THEOREM AddressesProven == Spec => AddressProven
<1>1. IInv /\ [Next]_vars => [Proven]_vars
  <2> SUFFICES ASSUME IInv, Next PROVE Proven
    BY DEF vars, IInv
  <2>0. TypeOK /\ Idle.pc # "commit"
    BY DEF IInv, Idle
  <2>1. ASSUME NEW p \in Procs, NEW type, NEW object, NEW mobile, NEW email,
               Makes(p, type, object, mobile, email)
        PROVE  Proven
    <3>1. \A q \in Procs : call'[q].pc = "commit" => call[q].pc = "commit"
      <4> SUFFICES ASSUME NEW q \in Procs PROVE call'[q].pc = "commit" => call[q].pc = "commit"
        OBVIOUS
      <4>1. CASE q = p
        BY <2>1, <4>1 DEF Makes, Idle
      <4>2. CASE q # p
        <5>1. call[q] \in Calls
          BY <2>0 DEF TypeOK
        <5>2. call'[q] = call[q] \/ call'[q] = [call[q] EXCEPT !.raced = TRUE]
          BY <2>1, <4>2 DEF Makes
        <5> QED  BY <5>1, <5>2 DEF Calls
      <4> QED  BY <4>1, <4>2
    <3> QED  BY <3>1, NoneCommits
  <2>2. ASSUME NEW p \in Procs, NEW user \in Users, NEW code \in Given, Signup(p, user, code)
        PROVE  Proven
    <3> DEFINE object == IF user.email # NULL THEN user.email ELSE user.mobile
    <3>1. object \in Addresses
      BY <2>2 DEF Signup, Users, Addresses
    <3>2. Verifies(p, "signup", object, code, NULL, user)
      BY <2>2 DEF Signup
    <3> QED  BY <3>1, <3>2, VerifiesProven
  <2>3. ASSUME NEW p \in Procs, NEW u \in Uids, NEW code \in Given, Signin(p, u, code)
        PROVE  Proven
    <3>1. users[u].account \in Addresses
      BY <2>0, <2>3 DEF Signin, TypeOK, Users, Addresses
    <3>2. Verifies(p, "signin", users[u].account, code, u, NULL)
      BY <2>3 DEF Signin
    <3> QED  BY <3>1, <3>2, VerifiesProven
  <2>4. ASSUME NEW p \in Procs, NEW u \in Uids, NEW a \in Addresses, NEW code \in Given,
               Update(p, u, a, code)
        PROVE  Proven
    BY <2>4, VerifiesProven DEF Update
  <2>5. ASSUME NEW p \in Procs, Put(p) \/ Deliver(p) \/ NotDelivered(p) \/ Undo(p) \/ Crash(p)
        PROVE  Proven
    <3>1. \E k : Goes(p, k) /\ k.pc # "commit"
      <4>1. CASE Put(p)
        <5> DEFINE k == [call[p] EXCEPT !.pc = "deliver", !.code = made']
        <5>1. k.pc # "commit" /\ Goes(p, k)
          BY <2>0, <4>1 DEF Put, TypeOK, Calls
        <5> QED  BY <5>1
      <4>2. CASE NotDelivered(p)
        <5> DEFINE k == [call[p] EXCEPT !.pc = "undo"]
        <5>1. k.pc # "commit" /\ Goes(p, k)
          BY <2>0, <4>2 DEF NotDelivered, TypeOK, Calls
        <5> QED  BY <5>1
      <4>3. CASE Deliver(p) \/ Undo(p) \/ Crash(p)
        <5>1. Goes(p, Idle)
          BY <4>3 DEF Deliver, Undo, Crash
        <5> QED  BY <2>0, <5>1
      <4> QED  BY <2>5, <4>1, <4>2, <4>3
    <3> QED  BY <2>0, <3>1, GoesElsewhere
  <2>6. ASSUME NEW p \in Procs, NEW u \in Uids, Commit(p, u)
        PROVE  Proven
    <3>1. Goes(p, Idle)
      BY <2>6 DEF Commit
    <3> QED  BY <2>0, <3>1, GoesElsewhere
  <2>7. ASSUME NEW t \in Types, NEW o \in Objects, Expire(t, o)
        PROVE  Proven
    BY <2>7, NoneCommits DEF Expire
  <2>8. ASSUME NEW p \in Procs
        PROVE  /\ \A t \in Types, s \in {"mobile", "email"}, m \in Mobiles \cup {NULL},
                     e \in Emails \cup {NULL} : SendToAddress(p, t, s, m, e) => Proven
               /\ \A u \in Uids : SendToUser(p, u) => Proven
    BY <2>1 DEF SendToAddress, SendToUser
  <2> QED  BY <2>2, <2>3, <2>4, <2>5, <2>6, <2>7, <2>8 DEF Next
<1>2. [][Proven]_vars => AddressProven
  BY DEF AddressProven, Proven, ProvenAt
<1> QED  BY <1>1, <1>2, InitInv, StepInv, PTL DEF Spec

-----------------------------------------------------------------------------
(* A step of the requests that leaves the stored codes keeps them known,   *)
(* when a code that flies goes on to fly, is delivered or is gone.         *)
LEMMA KnownInv ==
  ASSUME TypeOK, StoredIsKnown, codes' = codes, gone \subseteq gone',
         \A d \in delivered : d \in delivered' \/ d.code \in gone',
         \A p \in Procs : Flies(call[p]) =>
           \/ Flies(call'[p]) /\ SameKey(call'[p], call[p]) /\ call'[p].code = call[p].code
           \/ call[p].code \in gone'
           \/ \E d \in delivered' : SameKey(d, call[p]) /\ d.code = call[p].code
  PROVE  StoredIsKnown'
BY DEF StoredIsKnown, Flies, SameKey

(* So does one that stores nothing under a key, or the code of a request   *)
(* that flies with it, and takes no code from anybody else.                *)
LEMMA StoredKnown ==
  ASSUME TypeOK, StoredIsKnown, NEW type \in Types, NEW object \in Objects, NEW code,
         \A t \in Types, o \in Objects :
           codes'[t][o] = IF t = type /\ o = object THEN code ELSE codes[t][o],
         code = NULL \/ \E p \in Procs : /\ Flies(call'[p]) /\ call'[p].code = code
                                         /\ call'[p].type = type /\ call'[p].object = object,
         gone \subseteq gone', \A d \in delivered : d \in delivered' \/ d.code \in gone',
         \A p \in Procs : Flies(call[p]) =>
           call'[p] = call[p] \/ (call[p].type = type /\ call[p].object = object)
  PROVE  StoredIsKnown'
<1> SUFFICES ASSUME NEW t \in Types, NEW o \in Objects, codes'[t][o] # NULL
             PROVE  \/ \E d \in delivered' : d.type = t /\ d.object = o /\ d.code = codes'[t][o]
                    \/ \E p \in Procs : /\ Flies(call'[p]) /\ call'[p].code = codes'[t][o]
                                        /\ call'[p].type = t /\ call'[p].object = o
                    \/ codes'[t][o] \in gone'
  BY DEF StoredIsKnown, Flies
<1>1. CASE t = type /\ o = object
  BY <1>1
<1>2. CASE ~(t = type /\ o = object)
  <2>1. codes'[t][o] = codes[t][o]
    BY <1>2
  <2>2. \/ \E d \in delivered : d.type = t /\ d.object = o /\ d.code = codes[t][o]
        \/ \E p \in Procs : /\ Flies(call[p]) /\ call[p].code = codes[t][o]
                            /\ call[p].type = t /\ call[p].object = o
        \/ codes[t][o] \in gone
    BY <2>1 DEF StoredIsKnown, Flies
  <2> QED  BY <1>2, <2>1, <2>2
<1> QED  BY <1>1, <1>2

(* A code that is lost is among the gone, whoever it was delivered to.     *)
LEMMA LosesKept ==
  ASSUME TypeOK, NEW cs, Loses(cs)
  PROVE  gone \subseteq gone' /\ \A d \in delivered : d \in delivered' \/ d.code \in gone'
<1>1. \A d \in delivered : d.code # NULL
  BY NullIsNone DEF TypeOK, Deliveries
<1> QED  BY <1>1 DEF Loses

(* No code that reached nobody is left behind to block the next one, but   *)
(* by a request that died or overlapped with another.                      *)
THEOREM CodesKnown == Spec => []StoredIsKnown
<1>1. Init => StoredIsKnown
  BY DEF Init, StoredIsKnown
<1>2. TypeOK /\ StoredIsKnown /\ [Next]_vars => StoredIsKnown'
  <2> SUFFICES ASSUME TypeOK, StoredIsKnown, [Next]_vars PROVE StoredIsKnown'
    OBVIOUS
  <2>1. ASSUME NEW p \in Procs, NEW type, NEW object, NEW mobile, NEW email,
               Makes(p, type, object, mobile, email)
        PROVE  StoredIsKnown'
    <3>1. ~Flies(call[p]) /\ UNCHANGED <<codes, gone, delivered>>
      <4>1. call[p] = Idle /\ UNCHANGED <<codes, gone, delivered>>
        BY <2>1 DEF Makes
      <4> QED  BY <4>1 DEF Idle, Flies
    <3>2. \A q \in Procs : Flies(call[q]) =>
            Flies(call'[q]) /\ SameKey(call'[q], call[q]) /\ call'[q].code = call[q].code
      BY <2>1, <3>1, MakesCalls DEF Flies, SameKey
    <3> QED  BY <3>1, <3>2, KnownInv
  <2>2. ASSUME NEW p \in Procs, NEW k, Goes(p, k), ~Flies(call[p]),
               UNCHANGED <<codes, gone, delivered>>
        PROVE  StoredIsKnown'
    <3>1. \A q \in Procs : Flies(call[q]) => call'[q] = call[q]
      BY <2>2, GoesCalls
    <3> QED  BY <2>2, <3>1, KnownInv DEF SameKey
  <2>3. ASSUME NEW p \in Procs, NEW type, NEW object, NEW code, NEW uid, NEW user,
               Verifies(p, type, object, code, uid, user)
        PROVE  StoredIsKnown'
    <3>1. ~Flies(call[p])
      BY <2>3 DEF Verifies, Idle, Flies
    <3> QED  BY <2>2, <2>3, <3>1 DEF Verifies
  <2>4. ASSUME NEW p \in Procs, NEW u \in Uids, Commit(p, u)
        PROVE  StoredIsKnown'
    <3>1. ~Flies(call[p])
      BY <2>4 DEF Commit, Flies
    <3> QED  BY <2>2, <2>4, <3>1 DEF Commit
  <2>5. ASSUME NEW p \in Procs, Put(p)
        PROVE  StoredIsKnown'
    <3> DEFINE K == call[p]
               type == K.type
               object == K.object
               k == [K EXCEPT !.pc = "deliver", !.code = made']
    <3>1. K.pc = "put" /\ type \in Types /\ object \in Objects /\ K \in Calls
      BY <2>5, KeyOf DEF Put, TypeOK
    <3>2. call'[p] = k /\ \A q \in Procs \ {p} : call'[q] = call[q]
      BY <2>5, GoesCalls DEF Put
    <3>3. Flies(k) /\ k.code = made' /\ k.type = type /\ k.object = object
      BY <3>1 DEF Flies, Calls
    <3>4. \A t \in Types, o \in Objects :
            codes'[t][o] = IF t = type /\ o = object THEN made' ELSE codes[t][o]
      BY <2>5, <3>1, StoresCodes DEF Put
    <3>5. gone \subseteq gone' /\ \A d \in delivered : d \in delivered' \/ d.code \in gone'
      BY <2>5, LosesKept DEF Put
    <3>6. \A q \in Procs : Flies(call[q]) => call'[q] = call[q]
      BY <3>1, <3>2 DEF Flies
    <3>7. \E q \in Procs : /\ Flies(call'[q]) /\ call'[q].code = made'
                           /\ call'[q].type = type /\ call'[q].object = object
      BY <3>2, <3>3
    <3>8. \A q \in Procs : Flies(call[q]) =>
            call'[q] = call[q] \/ (call[q].type = type /\ call[q].object = object)
      BY <3>6
    <3> HIDE DEF K, type, object, k
    <3>9. type \in Types /\ object \in Objects
      BY <3>1
    <3>10. made' = NULL \/ \E q \in Procs : /\ Flies(call'[q]) /\ call'[q].code = made'
                                           /\ call'[q].type = type /\ call'[q].object = object
      BY <3>7
    <3> QED  BY <3>4, <3>5, <3>8, <3>9, <3>10, StoredKnown
  <2>6. ASSUME NEW p \in Procs, Deliver(p)
        PROVE  StoredIsKnown'
    <3> DEFINE d == [type |-> call[p].type, object |-> call[p].object, code |-> call[p].code,
                     to |-> call[p].to]
    <3>1. \A q \in Procs \ {p} : call'[q] = call[q]
      BY <2>6, GoesCalls DEF Deliver
    <3>2. UNCHANGED <<codes, gone>> /\ delivered \subseteq delivered'
      BY <2>6 DEF Deliver
    <3>3. call[p].code \in gone' \/ (d \in delivered' /\ SameKey(d, call[p]) /\ d.code = call[p].code)
      BY <2>6 DEF Deliver, SameKey
    <3> HIDE DEF d
    <3>4. \A q \in Procs : Flies(call[q]) =>
            \/ Flies(call'[q]) /\ SameKey(call'[q], call[q]) /\ call'[q].code = call[q].code
            \/ call[q].code \in gone'
            \/ \E e \in delivered' : SameKey(e, call[q]) /\ e.code = call[q].code
      <4> SUFFICES ASSUME NEW q \in Procs, Flies(call[q])
                   PROVE  \/ Flies(call'[q]) /\ SameKey(call'[q], call[q])
                             /\ call'[q].code = call[q].code
                          \/ call[q].code \in gone'
                          \/ \E e \in delivered' : SameKey(e, call[q]) /\ e.code = call[q].code
        OBVIOUS
      <4>1. CASE q = p
        BY <3>3, <4>1
      <4>2. CASE q # p
        BY <3>1, <4>2 DEF SameKey
      <4> QED  BY <4>1, <4>2
    <3> QED  BY <3>2, <3>4, KnownInv
  <2>7. ASSUME NEW p \in Procs, NotDelivered(p)
        PROVE  StoredIsKnown'
    <3> DEFINE k == [call[p] EXCEPT !.pc = "undo"]
    <3>1. call'[p] = k /\ \A q \in Procs \ {p} : call'[q] = call[q]
      BY <2>7, GoesCalls DEF NotDelivered
    <3>2. Flies(k) /\ SameKey(k, call[p]) /\ k.code = call[p].code
      BY DEF TypeOK, Calls, Flies, SameKey
    <3>3. UNCHANGED <<codes, gone, delivered>>
      BY <2>7 DEF NotDelivered
    <3> HIDE DEF k
    <3>4. \A q \in Procs : Flies(call[q]) =>
            Flies(call'[q]) /\ SameKey(call'[q], call[q]) /\ call'[q].code = call[q].code
      BY <3>1, <3>2 DEF SameKey
    <3> QED  BY <3>3, <3>4, KnownInv
  <2>8. ASSUME NEW p \in Procs, Undo(p)
        PROVE  StoredIsKnown'
    <3> DEFINE type == call[p].type
               object == call[p].object
    <3>1. type \in Types /\ object \in Objects
      BY <2>8, KeyOf DEF Undo
    <3>2. \A q \in Procs \ {p} : call'[q] = call[q]
      BY <2>8, GoesCalls DEF Undo
    <3>3. \A t \in Types, o \in Objects :
            codes'[t][o] = IF t = type /\ o = object THEN NULL ELSE codes[t][o]
      BY <2>8, <3>1, StoresCodes DEF Undo
    <3>4. gone \subseteq gone' /\ \A d \in delivered : d \in delivered' \/ d.code \in gone'
      BY <2>8, LosesKept DEF Undo
    <3>5. \A q \in Procs : Flies(call[q]) =>
            call'[q] = call[q] \/ (call[q].type = type /\ call[q].object = object)
      BY <3>2
    <3>6. NULL = NULL \/ \E q \in Procs : /\ Flies(call'[q]) /\ call'[q].code = NULL
                                          /\ call'[q].type = type /\ call'[q].object = object
      OBVIOUS
    <3> HIDE DEF type, object
    <3> QED  BY <3>1, <3>3, <3>4, <3>5, <3>6, StoredKnown
  <2>9. ASSUME NEW p \in Procs, Crash(p)
        PROVE  StoredIsKnown'
    <3>1. \A q \in Procs \ {p} : call'[q] = call[q]
      BY <2>9, GoesCalls DEF Crash
    <3>2. codes' = codes /\ gone \subseteq gone'
          /\ \A d \in delivered : d \in delivered' \/ d.code \in gone'
      BY <2>9, LosesKept DEF Crash
    <3>3. Flies(call[p]) => call[p].code \in gone'
      BY <2>9, NullIsNone DEF Crash, Loses, Flies, TypeOK
    <3>4. \A q \in Procs : Flies(call[q]) => call'[q] = call[q] \/ call[q].code \in gone'
      BY <3>1, <3>3
    <3> QED  BY <3>2, <3>4, KnownInv DEF SameKey
  <2>10. ASSUME NEW t \in Types, NEW o \in Objects, Expire(t, o)
         PROVE  StoredIsKnown'
    <3>1. \A u \in Types, n \in Objects :
            codes'[u][n] = IF u = t /\ n = o THEN NULL ELSE codes[u][n]
      BY <2>10 DEF Expire, TypeOK
    <3>2. call' = call /\ gone \subseteq gone'
          /\ \A d \in delivered : d \in delivered' \/ d.code \in gone'
      BY <2>10, LosesKept DEF Expire
    <3> QED  BY <3>1, <3>2, StoredKnown
  <2>11. CASE UNCHANGED vars
    BY <2>11 DEF vars, StoredIsKnown
  <2>12. ASSUME NEW p \in Procs
         PROVE  /\ \A t \in Types, s \in {"mobile", "email"}, m \in Mobiles \cup {NULL},
                      e \in Emails \cup {NULL} : SendToAddress(p, t, s, m, e) => StoredIsKnown'
                /\ \A u \in Uids : SendToUser(p, u) => StoredIsKnown'
                /\ \A user \in Users, code \in Given : Signup(p, user, code) => StoredIsKnown'
                /\ \A u \in Uids, code \in Given :
                     /\ Signin(p, u, code) => StoredIsKnown'
                     /\ \A a \in Addresses : Update(p, u, a, code) => StoredIsKnown'
    BY <2>1, <2>3 DEF SendToAddress, SendToUser, Signup, Signin, Update
  <2> QED
    BY <2>4, <2>5, <2>6, <2>7, <2>8, <2>9, <2>10, <2>11, <2>12 DEF Next
<1> QED  BY <1>1, <1>2, TypeCorrect, StepTypes, PTL DEF Spec

-----------------------------------------------------------------------------
(* When no two requests that send a code for one key overlap.              *)
SendsApart ==
  \A p, q \in Procs :
    p # q /\ Sending(call[p]) /\ Sending(call[q]) => ~SameKey(call[p], call[q])

NoneRaced == \A p \in Procs : call[p].raced = FALSE

(* A step that stores and deletes nothing of a request that was raced.     *)
LEMMA CallNotRaced ==
  ASSUME TypeOK, NoneRaced, NEW p \in Procs, NEW k, Goes(p, k), k.raced = FALSE
  PROVE  NoneRaced'
BY GoesCalls DEF NoneRaced

(* A request that starts to send alone marks no other.                     *)
LEMMA MakesUnmarked ==
  ASSUME TypeOK, NEW p \in Procs, NEW type, NEW object, NEW mobile, NEW email,
         Makes(p, type, object, mobile, email)
  PROVE  /\ delivered' = delivered
         /\ Rivals(p, type, object) = {} => \A q \in Procs \ {p} : call'[q] = call[q]
<1>1. delivered' = delivered
  BY Zenon DEF Makes
<1>2. ASSUME NEW q \in Procs \ {p}, Rivals(p, type, object) = {}
      PROVE  call'[q] = call[q]
  BY <1>2, Zenon DEF Makes
<1> QED  BY <1>1, <1>2

(* A request that starts to send is not raced, nor is another.             *)
LEMMA MakesAlone ==
  ASSUME TypeOK, NoneRaced, SendsApart', NEW p \in Procs, NEW type, NEW object, NEW mobile,
         NEW email, Makes(p, type, object, mobile, email)
  PROVE  NoneRaced' /\ delivered' = delivered
<1> DEFINE rivals == Rivals(p, type, object)
<1>1. rivals = {}
  <2> SUFFICES ASSUME NEW q \in rivals PROVE FALSE
    OBVIOUS
  <2>1. q \in Procs \ {p} /\ Sending(call[q]) /\ call[q].type = type /\ call[q].object = object
    BY DEF Rivals
  <2>2. /\ call'[q].pc = call[q].pc /\ call'[q].type = type /\ call'[q].object = object
        /\ call'[p].pc = "put" /\ call'[p].type = type /\ call'[p].object = object
    BY <2>1, MakesCalls
  <2>3. Sending(call'[q]) /\ Sending(call'[p]) /\ SameKey(call'[p], call'[q])
    BY <2>1, <2>2 DEF Sending, SameKey
  <2> QED  BY <2>1, <2>3 DEF SendsApart
<1>2. delivered' = delivered /\ \A q \in Procs \ {p} : call'[q] = call[q]
  BY <1>1, MakesUnmarked
<1>3. call'[p].raced = FALSE
  <2> DEFINE raced == rivals # {}
  <2>1. raced = FALSE
    BY <1>1
  <2>2. call'[p].raced = raced
    BY MakesCalls
  <2> HIDE DEF raced
  <2> QED  BY <2>1, <2>2
<1> QED  BY <1>2, <1>3 DEF NoneRaced

(* No request is raced, and a code that was delivered is lost to nothing   *)
(* but its timeout: a crash loses the code that its request held, and that *)
(* is not delivered yet.                                                   *)
LEMMA ApartStep ==
  IInv /\ NoneRaced /\ SendsApart' /\ [Next]_vars
    => NoneRaced' /\ [\A d \in delivered : d \in delivered' \/ Expire(d.type, d.object)]_vars
<1> DEFINE Safe == \A d \in delivered : d \in delivered' \/ Expire(d.type, d.object)
<1> SUFFICES ASSUME IInv, NoneRaced, SendsApart', [Next]_vars PROVE NoneRaced' /\ [Safe]_vars
  OBVIOUS
<1>0. TypeOK /\ Idle.raced = FALSE
  BY DEF IInv, Idle
<1>a. ASSUME delivered' = delivered PROVE Safe
  BY <1>a
<1>1. ASSUME NEW p \in Procs, NEW type, NEW object, NEW mobile, NEW email,
             Makes(p, type, object, mobile, email)
      PROVE  NoneRaced' /\ Safe
  BY <1>0, <1>1, <1>a, MakesAlone
<1>2. ASSUME NEW p \in Procs, NEW type, NEW object, NEW code, NEW uid, NEW user,
             Verifies(p, type, object, code, uid, user)
      PROVE  NoneRaced' /\ Safe
  <2> DEFINE k == [Idle EXCEPT !.pc = "commit", !.type = type, !.object = object, !.code = code,
                     !.uid = uid, !.user = user]
  <2>1. k.raced = FALSE
    BY DEF Idle
  <2>2. Goes(p, k) /\ delivered' = delivered
    BY <1>2 DEF Verifies
  <2> HIDE DEF k
  <2> QED  BY <1>0, <1>a, <2>1, <2>2, CallNotRaced
<1>3. ASSUME NEW p \in Procs, NEW u \in Uids, Commit(p, u) PROVE NoneRaced' /\ Safe
  <2>1. Goes(p, Idle) /\ delivered' = delivered
    BY <1>3 DEF Commit
  <2> QED  BY <1>0, <1>a, <2>1, CallNotRaced
<1>4. ASSUME NEW p \in Procs, Put(p) PROVE NoneRaced' /\ Safe
  <2> DEFINE k == [call[p] EXCEPT !.pc = "deliver", !.code = made']
  <2>1. Goes(p, k) /\ Loses({})
    BY <1>4 DEF Put, NoneRaced
  <2>2. k.raced = FALSE
    BY <1>0 DEF NoneRaced, TypeOK, Calls
  <2>3. delivered' = delivered
    BY <2>1 DEF Loses
  <2> HIDE DEF k
  <2> QED  BY <1>0, <1>a, <2>1, <2>2, <2>3, CallNotRaced
<1>5. ASSUME NEW p \in Procs, Deliver(p) PROVE NoneRaced' /\ Safe
  <2>1. Goes(p, Idle) /\ delivered \subseteq delivered'
    BY <1>5 DEF Deliver
  <2> QED  BY <1>0, <2>1, CallNotRaced
<1>6. ASSUME NEW p \in Procs, NotDelivered(p) PROVE NoneRaced' /\ Safe
  <2> DEFINE k == [call[p] EXCEPT !.pc = "undo"]
  <2>1. Goes(p, k) /\ delivered' = delivered
    BY <1>6 DEF NotDelivered
  <2>2. k.raced = FALSE
    BY <1>0 DEF NoneRaced, TypeOK, Calls
  <2> HIDE DEF k
  <2> QED  BY <1>0, <1>a, <2>1, <2>2, CallNotRaced
<1>7. ASSUME NEW p \in Procs, Undo(p) PROVE NoneRaced' /\ Safe
  <2>1. Goes(p, Idle) /\ Loses({})
    BY <1>7 DEF Undo, NoneRaced
  <2>2. delivered' = delivered
    BY <2>1 DEF Loses
  <2> QED  BY <1>0, <1>a, <2>1, <2>2, CallNotRaced
<1>8. ASSUME NEW p \in Procs, Crash(p) PROVE NoneRaced' /\ Safe
  <2>1. Goes(p, Idle) /\ Loses({call[p].code}) /\ Sending(call[p])
    BY <1>8 DEF Crash
  <2>2. ASSUME NEW d \in delivered PROVE d.code # call[p].code
    <3>1. CASE call[p].pc = "put"
      BY <1>0, <3>1, NullIsNone DEF TypeOK, Deliveries
    <3>2. CASE Flies(call[p])
      BY <3>2 DEF IInv, CodesInv, FlyingFresh
    <3> QED  BY <2>1, <3>1, <3>2 DEF Sending, Flies
  <2>3. Safe
    BY <2>1, <2>2 DEF Loses
  <2> QED  BY <1>0, <2>1, <2>3, CallNotRaced
<1>9. ASSUME NEW t \in Types, NEW o \in Objects, Expire(t, o) PROVE NoneRaced' /\ Safe
  <2>1. call' = call /\ Loses({codes[t][o]}) /\ codes[t][o] # NULL
    BY <1>9 DEF Expire
  <2>2. ASSUME NEW d \in delivered, d.code = codes[t][o] PROVE d.type = t /\ d.object = o
    <3>1. codes[d.type][d.object] = codes[t][o] /\ d.type \in Types /\ d.object \in Objects
      BY <1>0, <2>2 DEF IInv, CodesInv, DeliveredKept, TypeOK, Deliveries
    <3> QED  BY <2>1, <3>1 DEF IInv, CodesInv, StoredOnce
  <2>3. Safe
    BY <1>9, <2>1, <2>2 DEF Loses
  <2> QED  BY <2>1, <2>3 DEF NoneRaced
<1>10. CASE UNCHANGED vars
  BY <1>10 DEF vars, NoneRaced
<1>11. ASSUME NEW p \in Procs
       PROVE  /\ \A t \in Types, s \in {"mobile", "email"}, m \in Mobiles \cup {NULL},
                   e \in Emails \cup {NULL} : SendToAddress(p, t, s, m, e) => NoneRaced' /\ Safe
              /\ \A u \in Uids : SendToUser(p, u) => NoneRaced' /\ Safe
              /\ \A user \in Users, code \in Given : Signup(p, user, code) => NoneRaced' /\ Safe
              /\ \A u \in Uids, code \in Given :
                   /\ Signin(p, u, code) => NoneRaced' /\ Safe
                   /\ \A a \in Addresses : Update(p, u, a, code) => NoneRaced' /\ Safe
  <2> HIDE DEF Safe
  <2> QED  BY <1>1, <1>2 DEF SendToAddress, SendToUser, Signup, Signin, Update
<1> HIDE DEF Safe
<1> QED
  BY <1>3, <1>4, <1>5, <1>6, <1>7, <1>8, <1>9, <1>10, <1>11 DEF Next

(* With one request at a time for a key, a code that reached somebody is   *)
(* verified against until it expires, whatever the other requests send,    *)
(* take back or leave behind when they crash.                              *)
THEOREM CodesOnlyExpire ==
  Spec /\ []SendsApart
    => [][\A d \in delivered : d \in delivered' \/ Expire(d.type, d.object)]_vars
<1>1. Init => NoneRaced
  BY DEF Init, NoneRaced, Idle
<1> QED  BY <1>1, InitInv, StepInv, ApartStep, PTL DEF Spec
==============================================================================
