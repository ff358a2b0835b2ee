----------------------------- MODULE VerifyCode -----------------------------
(***************************************************************************)
(* Verification codes and the requests that use them (qx_user/tools.py     *)
(* CodeMsg, qx_user/serializers.py): a code is sent, then given to a       *)
(* sign-up, a sign-in or a change of an address.  The codes are in the     *)
(* expiring hash, which is a map whose keys expire (ExpiringMap).  Every   *)
(* access to the hash is a step, with the queries that come before it, and *)
(* so are the delivery and the transaction at the end of a request.  Two   *)
(* codes are never the same number, and VERIFY_CODE_CHECK is on.           *)
(***************************************************************************)
EXTENDS Integers

CONSTANTS
  NULL,
  Mobiles, Emails,
  Uids,       \* ids of users, registered or not
  Procs,      \* requests in progress
  MaxCodes    \* bound: codes made in a behaviour

Addresses == Mobiles \cup Emails
Objects == Addresses \cup Uids

(* An account NULL stands for one that is none of the addresses; they are  *)
(* distinct (random, or given and unique).                                 *)
Users == [account : Addresses \cup {NULL}, mobile : Mobiles \cup {NULL},
          email : Emails \cup {NULL}]

Types == {"default", "signup", "signin", "changepwd"}

ASSUME ConstantsAssumption ==
  /\ MaxCodes \in Nat
  /\ NULL \notin Objects /\ NULL \notin Users /\ NULL \notin Nat \cup Types
  /\ Mobiles \cap Emails = {} /\ Addresses \cap Uids = {}

VARIABLES
  codes,      \* the expiring hashes: [Types -> [Objects -> code or NULL]]
  users,      \* [Uids -> user or NULL]
  call,       \* [Procs -> the request, or Idle]
  made,       \* how many codes were made
  delivered,  \* history: what reached an address and is not gone since
  gone        \* history: codes that expired, lost their request, or were
              \* replaced or deleted by requests that overlapped

vars == <<codes, users, call, made, delivered, gone>>

Idle == [pc |-> "idle", type |-> NULL, object |-> NULL, code |-> NULL,
         to |-> NULL, raced |-> FALSE, uid |-> NULL, user |-> NULL]

Goes(p, k) == call' = [call EXCEPT ![p] = k]
Stores(k, code) == codes' = [codes EXCEPT ![k.type] = [codes[k.type] EXCEPT ![k.object] = code]]

(* The codes of cs are gone.                                               *)
Loses(cs) ==
  /\ gone' = gone \cup (cs \ {NULL})
  /\ delivered' = { d \in delivered : d.code \notin cs }

(* The columns are unique, but for NULL.                                   *)
Clashes(new, u) ==
  \E v \in Uids \ {u} : /\ users[v] # NULL
                        /\ \/ new.account # NULL /\ users[v].account = new.account
                           \/ new.mobile # NULL /\ users[v].mobile = new.mobile
                           \/ new.email # NULL /\ users[v].email = new.email

Init ==
  /\ codes = [t \in Types |-> [o \in Objects |-> NULL]]
  /\ users \in [Uids -> Users \cup {NULL}]
  /\ \A u \in Uids : users[u] # NULL =>
       ~Clashes(users[u], u) /\ (users[u].mobile # NULL \/ users[u].email # NULL)
  /\ call = [p \in Procs |-> Idle]
  /\ made = 0
  /\ delivered = {} /\ gone = {}

-----------------------------------------------------------------------------
(* A code is made, stored and not yet delivered, or about to be.           *)
Sending(k) == k.pc \in {"put", "deliver", "undo"}

(* The other requests that send a code for a key.                          *)
Rivals(p, type, object) ==
  { q \in Procs \ {p} : Sending(call[q]) /\ call[q].type = type /\ call[q].object = object }

(* SendCodeSerializer.create goes on to make a code; the requests that     *)
(* send one for the same key at the time overlap.  It goes to the e-mail,  *)
(* or to the mobile without one.                                           *)
Makes(p, type, object, mobile, email) ==
  LET rivals == Rivals(p, type, object) IN
  /\ call[p] = Idle
  /\ object # NULL    \* else Redis refuses the key: an error, nothing changes
  /\ ~(mobile = NULL /\ email = NULL)
  /\ call' = [q \in Procs |->
       IF q = p THEN [Idle EXCEPT !.pc = "put", !.type = type, !.object = object,
                        !.to = IF email # NULL THEN email ELSE mobile,
                        !.raced = (rivals # {})]
       ELSE IF q \in rivals THEN [call[q] EXCEPT !.raced = TRUE]
       ELSE call[q]]
  /\ UNCHANGED <<codes, users, made, delivered, gone>>

(* The signed-in user's addresses, under the user's id.                    *)
SendToUser(p, u) ==
  /\ users[u] # NULL
  /\ codes["default"][u] = NULL    \* get_new_code: one that is there is sent no second time
  /\ Makes(p, "default", u, users[u].mobile, users[u].email)

Registered(address) ==
  \E u \in Uids : users[u] # NULL /\ address \in {users[u].mobile, users[u].email}

Named(send_type, mobile, email) == IF send_type = "mobile" THEN mobile ELSE email

(* Mutant: a code that is there is replaced.                               *)
SendAnew(p, type, send_type, mobile, email) ==
  /\ type # "default"
  /\ type # "changepwd" => \A a \in {mobile, email} \ {NULL} : ~Registered(a)
  /\ Makes(p, type, Named(send_type, mobile, email), mobile, email)

(* The addresses that the request names: of nobody yet for a sign-up or a  *)
(* sign-in, anybody's for a change of password; under one of them.         *)
SendToAddress(p, type, send_type, mobile, email) ==
  LET object == Named(send_type, mobile, email) IN
  /\ type # "default"
  /\ type # "changepwd" => \A a \in {mobile, email} \ {NULL} : ~Registered(a)
  /\ object # NULL => codes[type][object] = NULL
  /\ Makes(p, type, object, mobile, email)

(* Mutant: the code that is stored is not the one that is sent.            *)
PutTwo(p) ==
  LET k == call[p] IN
  /\ k.pc = "put"
  /\ made < MaxCodes /\ made' = made + 1
  /\ Stores(k, made' + 1)
  /\ Goes(p, [k EXCEPT !.pc = "deliver", !.code = made'])
  /\ Loses(IF k.raced THEN {codes[k.type][k.object]} ELSE {})
  /\ UNCHANGED <<users>>

Put(p) ==
  LET k == call[p] IN
  /\ k.pc = "put"
  /\ made < MaxCodes /\ made' = made + 1
  /\ Stores(k, made')
  /\ Goes(p, [k EXCEPT !.pc = "deliver", !.code = made'])
  /\ Loses(IF k.raced THEN {codes[k.type][k.object]} ELSE {})
  /\ UNCHANGED <<users>>

(* send_verify_code: it reaches the address, or raises.                    *)
Deliver(p) ==
  LET k == call[p] IN
  /\ k.pc = "deliver"
  /\ Goes(p, Idle)
  /\ delivered' = IF k.code \in gone THEN delivered ELSE delivered \cup
       {[type |-> k.type, object |-> k.object, code |-> k.code, to |-> k.to]}
  /\ UNCHANGED <<codes, users, made, gone>>

(* Mutant: a code that was not delivered stays.                            *)
KeepUndelivered(p) ==
  /\ call[p].pc = "deliver"
  /\ Goes(p, Idle)
  /\ UNCHANGED <<codes, users, made, delivered, gone>>

NotDelivered(p) ==
  /\ call[p].pc = "deliver"
  /\ Goes(p, [call[p] EXCEPT !.pc = "undo"])
  /\ UNCHANGED <<codes, users, made, delivered, gone>>

(* del_code: whatever is stored by now.                                    *)
Undo(p) ==
  LET k == call[p] IN
  /\ k.pc = "undo"
  /\ Stores(k, NULL)
  /\ Loses(IF k.raced THEN {codes[k.type][k.object]} ELSE {})
  /\ Goes(p, Idle)
  /\ UNCHANGED <<users, made>>

-----------------------------------------------------------------------------
(* A client gives no code, or one that it was sent; one that is gone is    *)
(* refused like any other that is not stored.                              *)
Given == { d.code : d \in delivered } \cup {NULL}

(* Mutant: the code of any type is accepted.                               *)
VerifiesAnyType(p, type, object, code, uid, user) ==
  /\ call[p] = Idle /\ code \in Given
  /\ \E t \in Types : codes[t][object] = code
  /\ Goes(p, [Idle EXCEPT !.pc = "commit", !.type = type, !.object = object, !.code = code,
                !.uid = uid, !.user = user])
  /\ UNCHANGED <<codes, users, made, delivered, gone>>

(* verify_code: no code given where none is stored is as good.  Otherwise  *)
(* the request ends in an error and nothing changes.                       *)
Verifies(p, type, object, code, uid, user) ==
  /\ call[p] = Idle /\ code \in Given
  /\ codes[type][object] = code
  /\ Goes(p, [Idle EXCEPT !.pc = "commit", !.type = type, !.object = object, !.code = code,
                !.uid = uid, !.user = user])
  /\ UNCHANGED <<codes, users, made, delivered, gone>>

(* SignupSerializer: the addresses and the account are nobody's; without   *)
(* an account one that is nobody's is looked for (generate_random_account).*)
Signup(p, user, code) ==
  /\ ~(user.mobile = NULL /\ user.email = NULL)
  /\ ~Clashes(user, NULL)
  /\ Verifies(p, "signup", IF user.email # NULL THEN user.email ELSE user.mobile, code, NULL, user)

(* SigninSerializer with a code: for an account that is the user's mobile  *)
(* or e-mail.  Every other way to name the user ends in an error.          *)
Signin(p, u, code) ==
  /\ code # NULL
  /\ users[u] # NULL /\ users[u].account \in {users[u].mobile, users[u].email} \ {NULL}
  /\ Verifies(p, "signin", users[u].account, code, u, NULL)

(* UpdateMobileSerializer and UpdateEmailSerializer: the new address, and  *)
(* the account with it when it was the old one.  The user is the cached    *)
(* instance, every column of which is saved.                               *)
Moved(user, address) ==
  IF address \in Mobiles
  THEN [user EXCEPT !.mobile = address,
          !.account = IF user.mobile = user.account THEN address ELSE user.account]
  ELSE [user EXCEPT !.email = address,
          !.account = IF user.email = user.account THEN address ELSE user.account]

Update(p, u, address, code) ==
  /\ users[u] # NULL
  /\ Verifies(p, "default", address, code, u, Moved(users[u], address))

(* The transaction that makes the user with the userinfo, or the UPDATE,   *)
(* which the unique columns may refuse (the second of two sign-ups with    *)
(* one address), and the userinfo a sign-up; a sign-in writes nothing.     *)
Commit(p, u) ==
  LET k == call[p] IN
  /\ k.pc = "commit"
  /\ IF k.type = "signup" THEN users[u] = NULL \/ Clashes(k.user, NULL) ELSE u = k.uid
  /\ \/ /\ k.type # "signin" /\ ~Clashes(k.user, k.uid)
        /\ users' = [users EXCEPT ![u] = k.user]
     \/ k.type # "signin" /\ Clashes(k.user, k.uid) /\ UNCHANGED users
     \/ k.type \in {"signin", "signup"} /\ UNCHANGED users
  /\ Goes(p, Idle)
  /\ UNCHANGED <<codes, made, delivered, gone>>

-----------------------------------------------------------------------------
(* The timeout of an entry of the expiring hash.                           *)
Expire(type, object) ==
  /\ codes[type][object] # NULL
  /\ codes' = [codes EXCEPT ![type] = [codes[type] EXCEPT ![object] = NULL]]
  /\ Loses({codes[type][object]})
  /\ UNCHANGED <<users, call, made>>

(* The process of a request that sends a code dies.                        *)
Crash(p) ==
  /\ Sending(call[p])
  /\ Goes(p, Idle)
  /\ Loses({call[p].code})
  /\ UNCHANGED <<codes, users, made>>

Next ==
  \/ \E p \in Procs :
       \/ \E t \in Types, s \in {"mobile", "email"}, m \in Mobiles \cup {NULL},
             e \in Emails \cup {NULL} : SendToAddress(p, t, s, m, e)
       \/ \E user \in Users, code \in Given : Signup(p, user, code)
       \/ \E u \in Uids :
            \/ SendToUser(p, u) \/ Commit(p, u)
            \/ \E code \in Given :
                 Signin(p, u, code) \/ \E a \in Addresses : Update(p, u, a, code)
       \/ Put(p) \/ Deliver(p) \/ NotDelivered(p) \/ Undo(p) \/ Crash(p)
  \/ \E t \in Types, o \in Objects : Expire(t, o)

Spec == Init /\ [][Next]_vars

-----------------------------------------------------------------------------
Deliveries == [type : Types, object : Objects, code : Nat, to : Addresses]

Calls == [pc : {"idle", "put", "deliver", "undo", "commit"},
          type : Types \cup {NULL}, object : Objects \cup {NULL}, code : Nat \cup {NULL},
          to : Addresses \cup {NULL}, raced : BOOLEAN, uid : Uids \cup {NULL},
          user : Users \cup {NULL}]

(* Every variable has its type; a request that stores or deletes a code    *)
(* has the key, and stored codes were made.                                *)
TypeOK ==
  /\ codes \in [Types -> [Objects -> 1 .. made \cup {NULL}]]
  /\ users \in [Uids -> Users \cup {NULL}]
  /\ call \in [Procs -> Calls]
  /\ made \in 0 .. MaxCodes
  /\ delivered \subseteq Deliveries /\ gone \subseteq 1 .. made
  /\ \A p \in Procs :
       /\ call[p].pc # "idle" => call[p].type # NULL /\ call[p].object # NULL
       /\ call[p].pc \in {"put", "deliver", "undo"} => call[p].to # NULL
       /\ call[p].pc = "put" => call[p].code = NULL
       /\ call[p].pc \in {"deliver", "undo"} => call[p].code \in 1 .. made

(* A code that reached somebody stays the one that is verified against     *)
(* until it expires: no other request replaces it or deletes it, unless    *)
(* the two sent a code for the same key at a time (get_new_code's check    *)
(* and its write are two calls, and del_code deletes what it finds).       *)
DeliveredKept == \A d \in delivered : codes[d.type][d.object] = d.code

(* No code that reached nobody stays and blocks the next one (is_send):    *)
(* what is stored was delivered, is with its request, or its request died. *)
StoredIsKnown ==
  \A t \in Types, o \in Objects :
    LET code == codes[t][o] IN
    code # NULL =>
      \/ \E d \in delivered : d.type = t /\ d.object = o /\ d.code = code
      \/ \E p \in Procs : /\ call[p].pc \in {"deliver", "undo"} /\ call[p].code = code
                          /\ call[p].type = t /\ call[p].object = o
      \/ code \in gone

(* A code that a verification accepts was delivered for that purpose, and  *)
(* to that address, or to the e-mail of a request that named a mobile too  *)
(* and stored the code under it.  None is accepted for a change of         *)
(* address: it is stored under the user's id and looked for under the new  *)
(* address.                                                                *)
AddressProven ==
  [][\A p \in Procs :
       LET k == call'[p] IN
       call[p].pc # "commit" /\ k.pc = "commit" /\ k.code # NULL =>
         /\ k.type \in {"signup", "signin"}
         /\ \E d \in delivered :
              /\ d.type = k.type /\ d.object = k.object /\ d.code = k.code
              /\ d.to = k.object \/ (k.object \in Mobiles /\ d.to \in Emails)]_vars
==============================================================================
