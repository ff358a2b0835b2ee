--------------------------- MODULE RequestsProofs ---------------------------
(***************************************************************************)
(* The log of failed requests, the joins of messages and the numbering of  *)
(* weeks, for any number of threads, bodies, messages, types and ids.      *)
(***************************************************************************)
EXTENDS Requests, TLAPS

(* The body on the middleware is that of each request that is on its way   *)
(* and has one, unless another began since.                                *)
Held(r, b) == r.pc # "done" /\ r.json => b \in Bodies /\ (r.raced \/ b = r.body)
BodyHeld == \A t \in Threads : Held(request[t], _initial_http_body)

(* What was logged for a request, at each point of its way.                *)
SoFar(r, L) ==
  /\ r.pc \in {"view", "response"} => L = {}
  /\ r.pc = "call" => ((L # {}) = (r.json /\ r.api /\ r.status >= 400 /\ r.status < 500))
  /\ r.pc = "done" => ((L # {}) = (r.json /\ r.api /\ r.status >= 400))
  /\ L # {} => L = {r.body} \/ r.raced
LoggedSoFar == \A t \in Threads : SoFar(request[t], logged[t])

LogParts == Log!TypeOK /\ BodyHeld /\ LoggedSoFar
LogInv == part = "log" => LogParts

(* At the start nobody has sent a request.                                 *)
LEMMA LogInit == RequestsInit => LogInv
<1> SUFFICES ASSUME Log!Init
             PROVE  LogParts
  BY DEF RequestsInit, LogInv
<1>1. Log!Nothing \in Log!HttpRequests
  BY RequestsAssumption DEF Log!Nothing, Log!HttpRequests
<1>2. Log!TypeOK
  BY <1>1 DEF Log!Init, Log!TypeOK
<1>3. BodyHeld
  BY DEF Log!Init, Log!Nothing, BodyHeld, Held
<1>4. LoggedSoFar
  BY DEF Log!Init, Log!Nothing, LoggedSoFar, SoFar
<1> QED  BY <1>2, <1>3, <1>4 DEF LogParts

(* The handler of exceptions answers one of five codes.                    *)
LEMMA StatusIs ==
  ASSUME NEW outcome \in DOMAIN Log!Status
  PROVE  Log!Status[outcome] \in {200, 400, 401, 404, 500}
BY DEF Log!Status

(* What holds of a request still holds when another one races it.          *)
LEMMA RacedToo ==
  ASSUME NEW r \in Log!HttpRequests, NEW json \in BOOLEAN, NEW L \in SUBSET Bodies,
         NEW b, NEW c \in Bodies, Held(r, b), SoFar(r, L)
  PROVE  LET q == [r EXCEPT !.raced = json \/ r.raced] IN
         /\ q \in Log!HttpRequests /\ SoFar(q, L)
         /\ Held(q, IF json THEN c ELSE b)
<1> DEFINE raced == json \/ r.raced
           q == [r EXCEPT !.raced = raced]
<1>1. /\ r.pc \in {"view", "response", "call", "done"} /\ r.json \in BOOLEAN /\ r.api \in BOOLEAN
      /\ r.body \in Bodies /\ r.status \in {200, 400, 401, 404, 500} /\ r.raced \in BOOLEAN
  BY DEF Log!HttpRequests
<1>2. raced \in BOOLEAN /\ (r.raced => raced) /\ (json => raced)
  BY <1>1
<1> HIDE DEF raced
<1>3. /\ q \in Log!HttpRequests
      /\ q.pc = r.pc /\ q.json = r.json /\ q.api = r.api /\ q.body = r.body /\ q.status = r.status
      /\ q.raced = raced
  BY <1>2 DEF Log!HttpRequests
<1> HIDE DEF q
<1>4. SoFar(q, L)
  BY <1>2, <1>3 DEF SoFar
<1>5. Held(q, IF json THEN c ELSE b)
  BY <1>2, <1>3 DEF Held
<1> QED  BY <1>3, <1>4, <1>5 DEF q, raced

(* A request that begins puts its body on the middleware, and every other  *)
(* one is raced by it.                                                     *)
LEMMA ProcessRequestKeeps ==
  ASSUME LogParts, NEW t \in Threads, NEW json \in BOOLEAN, NEW api \in BOOLEAN, NEW body \in Bodies,
         Log!ProcessRequest(t, json, api, body)
  PROVE  LogParts'
<1> DEFINE new == [pc |-> "view", json |-> json, api |-> api, body |-> body,
                   status |-> 200, raced |-> FALSE]
           Race(r) == [r EXCEPT !.raced = json \/ r.raced]
           kept == IF json THEN body ELSE _initial_http_body
<1>1. /\ _initial_http_body' = kept
      /\ request' = [s \in Threads |-> IF s = t THEN new ELSE Race(request[s])]
      /\ logged' = [logged EXCEPT ![t] = {}]
  BY DEF Log!ProcessRequest
<1>2. /\ _initial_http_body \in Bodies \cup {NULL}
      /\ request \in [Threads -> Log!HttpRequests]
      /\ logged \in [Threads -> SUBSET Bodies]
      /\ BodyHeld /\ LoggedSoFar
  BY DEF LogParts, Log!TypeOK
<1>3. new \in Log!HttpRequests /\ Held(new, kept) /\ SoFar(new, {})
  BY DEF Log!HttpRequests, Held, SoFar
<1>4. ASSUME NEW s \in Threads
      PROVE  /\ Race(request[s]) \in Log!HttpRequests
             /\ Held(Race(request[s]), kept) /\ SoFar(Race(request[s]), logged[s])
  <2>1. request[s] \in Log!HttpRequests /\ logged[s] \in SUBSET Bodies
    BY <1>2
  <2>2. Held(request[s], _initial_http_body) /\ SoFar(request[s], logged[s])
    BY <1>2 DEF BodyHeld, LoggedSoFar
  <2> QED  BY <2>1, <2>2, RacedToo
<1>5. kept \in Bodies \cup {NULL}
  BY <1>2
<1> HIDE DEF new, Race, kept
<1>6. \A s \in Threads : /\ request'[s] = IF s = t THEN new ELSE Race(request[s])
                         /\ logged'[s] = IF s = t THEN {} ELSE logged[s]
  BY <1>1, <1>2
<1>7. Log!TypeOK'
  <2>1. request' \in [Threads -> Log!HttpRequests]
    BY <1>1, <1>3, <1>4
  <2>2. logged' \in [Threads -> SUBSET Bodies]
    BY <1>1, <1>2
  <2> QED  BY <1>1, <1>5, <2>1, <2>2 DEF Log!TypeOK
<1>8. BodyHeld'
  BY <1>1, <1>3, <1>4, <1>6 DEF BodyHeld
<1>9. LoggedSoFar'
  BY <1>3, <1>4, <1>6 DEF LoggedSoFar
<1> QED  BY <1>7, <1>8, <1>9 DEF LogParts

(* The view, and the two places that log.                                  *)
LEMMA AnswerKeeps ==
  ASSUME LogParts, NEW t \in Threads,
         \/ \E outcome \in DOMAIN Log!Status : Log!View(t, outcome)
         \/ Log!ProcessResponse(t) \/ Log!Call(t)
  PROVE  LogParts'
<1>1. /\ _initial_http_body \in Bodies \cup {NULL}
      /\ request \in [Threads -> Log!HttpRequests]
      /\ logged \in [Threads -> SUBSET Bodies]
      /\ BodyHeld /\ LoggedSoFar
  BY DEF LogParts, Log!TypeOK
<1> DEFINE r == request[t]
           b == _initial_http_body
<1>2. /\ r \in Log!HttpRequests /\ logged[t] \in SUBSET Bodies
      /\ Held(r, b) /\ SoFar(r, logged[t])
  BY <1>1 DEF BodyHeld, LoggedSoFar
<1>3. /\ r.pc \in {"view", "response", "call", "done"} /\ r.json \in BOOLEAN /\ r.api \in BOOLEAN
      /\ r.body \in Bodies /\ r.status \in {200, 400, 401, 404, 500} /\ r.raced \in BOOLEAN
  BY <1>2 DEF Log!HttpRequests
<1>4. ASSUME NEW q \in Log!HttpRequests, NEW L \in SUBSET Bodies,
             request' = [request EXCEPT ![t] = q], logged' = [logged EXCEPT ![t] = L],
             UNCHANGED _initial_http_body, Held(q, b), SoFar(q, L)
      PROVE  LogParts'
  <2>1. Log!TypeOK'
    BY <1>1, <1>4 DEF Log!TypeOK
  <2>2. \A s \in Threads : /\ request'[s] = IF s = t THEN q ELSE request[s]
                           /\ logged'[s] = IF s = t THEN L ELSE logged[s]
    BY <1>1, <1>4
  <2>3. BodyHeld'
    BY <1>1, <1>4, <2>2 DEF BodyHeld
  <2>4. LoggedSoFar'
    BY <1>1, <1>4, <2>2 DEF LoggedSoFar
  <2> QED  BY <2>1, <2>3, <2>4 DEF LogParts
<1>5. CASE \E outcome \in DOMAIN Log!Status : Log!View(t, outcome)
  <2>1. PICK outcome \in DOMAIN Log!Status : Log!View(t, outcome)
    BY <1>5
  <2> DEFINE status == Log!Status[outcome]
             q == [r EXCEPT !.pc = "response", !.status = status]
  <2>2. /\ r.pc = "view" /\ request' = [request EXCEPT ![t] = q]
        /\ UNCHANGED <<_initial_http_body, logged>>
    BY <2>1 DEF Log!View
  <2>3. status \in {200, 400, 401, 404, 500}
    BY StatusIs
  <2> HIDE DEF status
  <2>4. /\ q \in Log!HttpRequests /\ q.pc = "response"
        /\ q.json = r.json /\ q.body = r.body /\ q.raced = r.raced
    <3> DEFINE answered == [r EXCEPT !.pc = "response"]
    <3>1. /\ answered \in Log!HttpRequests /\ answered.pc = "response"
          /\ answered.json = r.json /\ answered.body = r.body /\ answered.raced = r.raced
      BY <1>2 DEF Log!HttpRequests
    <3>2. q = [answered EXCEPT !.status = status]
      OBVIOUS
    <3> HIDE DEF answered, q, r
    <3> QED  BY <2>3, <3>1, <3>2 DEF Log!HttpRequests
  <2>5. logged[t] = {} /\ logged' = [logged EXCEPT ![t] = {}]
    BY <1>1, <1>2, <2>2 DEF SoFar
  <2> HIDE DEF q
  <2>6. Held(q, b) /\ SoFar(q, {})
    BY <1>2, <2>2, <2>4 DEF Held, SoFar
  <2> HIDE DEF r, b
  <2> QED  BY <1>4, <2>2, <2>4, <2>5, <2>6
<1>6. CASE Log!ProcessResponse(t)
  <2> DEFINE q == [r EXCEPT !.pc = "call"]
             logs == r.json /\ r.api /\ r.status >= 400 /\ r.status < 500
             L == IF logs THEN {b} ELSE {}
  <2>1. /\ q \in Log!HttpRequests /\ q.pc = "call" /\ q.status = r.status /\ q.api = r.api
        /\ q.json = r.json /\ q.body = r.body /\ q.raced = r.raced
    BY <1>2 DEF Log!HttpRequests
  <2>2. /\ r.pc = "response" /\ request' = [request EXCEPT ![t] = q]
        /\ UNCHANGED _initial_http_body
        /\ logged' = IF logs THEN [logged EXCEPT ![t] = logged[t] \cup {b}] ELSE logged
    BY <1>6 DEF Log!ProcessResponse, Log!Goes, Log!Logs
  <2>3. logged[t] = {}
    BY <1>2, <2>2 DEF SoFar
  <2>4. logged' = [logged EXCEPT ![t] = L]
    BY <1>1, <2>2, <2>3
  <2> HIDE DEF q
  <2>5. Held(q, b)
    BY <1>2, <2>1, <2>2 DEF Held
  <2>6. logs => b \in Bodies /\ (r.raced \/ b = r.body)
    BY <1>2, <2>2 DEF Held
  <2>7. L \in SUBSET Bodies /\ SoFar(q, L)
    BY <1>3, <2>1, <2>6 DEF SoFar
  <2> HIDE DEF r, b, L, logs
  <2> QED  BY <1>4, <2>1, <2>2, <2>4, <2>5, <2>7
<1>7. CASE Log!Call(t)
  <2> DEFINE q == [r EXCEPT !.pc = "done"]
             logs == r.json /\ r.api /\ r.status >= 500
             L == IF logs THEN {b} ELSE logged[t]
  <2>1. /\ q \in Log!HttpRequests /\ q.pc = "done" /\ q.status = r.status /\ q.api = r.api
        /\ q.json = r.json /\ q.body = r.body /\ q.raced = r.raced
    BY <1>2 DEF Log!HttpRequests
  <2>2. /\ r.pc = "call" /\ request' = [request EXCEPT ![t] = q]
        /\ UNCHANGED _initial_http_body
        /\ logged' = IF logs THEN [logged EXCEPT ![t] = logged[t] \cup {b}] ELSE logged
    BY <1>7 DEF Log!Call, Log!Goes, Log!Logs
  <2>3. /\ (logged[t] # {}) = (r.json /\ r.api /\ r.status >= 400 /\ r.status < 500)
        /\ logged[t] # {} => logged[t] = {r.body} \/ r.raced
    BY <1>2, <2>2 DEF SoFar
  <2>4. logs => logged[t] = {}
    BY <1>3, <2>3
  <2>5. logged' = [logged EXCEPT ![t] = L]
    BY <1>1, <2>2, <2>4
  <2> HIDE DEF q
  <2>6. Held(q, b)
    BY <2>1 DEF Held
  <2>7. logs => b \in Bodies /\ (r.raced \/ b = r.body)
    BY <1>2, <2>2 DEF Held
  <2>8. L \in SUBSET Bodies
    BY <1>2, <2>7
  <2>9. SoFar(q, L)
    BY <1>3, <2>1, <2>3, <2>7 DEF SoFar
  <2> HIDE DEF r, b, L, logs
  <2> QED  BY <1>4, <2>1, <2>2, <2>5, <2>6, <2>8, <2>9
<1> QED  BY <1>5, <1>6, <1>7

(* Only requests touch the log.                                            *)
LEMMA LogStep == LogInv /\ [RequestsNext]_all => LogInv'
<1> SUFFICES ASSUME LogInv, [RequestsNext]_all
             PROVE  LogInv'
  OBVIOUS
<1>1. CASE UNCHANGED all
  BY <1>1 DEF all, LogInv, LogParts, Log!TypeOK, BodyHeld, LoggedSoFar
<1>2. CASE LogNext
  <2>1. LogParts /\ part' = part
    BY <1>2 DEF LogNext, LogInv
  <2>2. \E t \in Threads :
          \/ \E json, api \in BOOLEAN, body \in Bodies : Log!ProcessRequest(t, json, api, body)
          \/ \E outcome \in DOMAIN Log!Status : Log!View(t, outcome)
          \/ Log!ProcessResponse(t) \/ Log!Call(t)
    BY <1>2 DEF LogNext, Log!Next
  <2> QED  BY <2>1, <2>2, ProcessRequestKeeps, AnswerKeeps DEF LogInv
<1>3. CASE AuthStep(Next) \/ JoinNext \/ WeekNext
  BY <1>3 DEF AuthStep, JoinNext, WeekNext, LogInv
<1> QED  BY <1>1, <1>2, <1>3 DEF RequestsNext

(* The variables of the log have their types, among them: what is logged   *)
(* is a body, and never the attribute before anything was kept in it.      *)
THEOREM LogTypes == RequestsSpec => []LogTypeOK
<1>1. LogInv => LogTypeOK
  BY DEF LogInv, LogParts, LogTypeOK
<1> QED  BY <1>1, LogInit, LogStep, PTL DEF RequestsSpec

(* Every failed request of the interface is logged, and with another's     *)
(* body only if that request began in between.                             *)
THEOREM OwnBodyLogged == RequestsSpec => []LogsOwnBody
<1>1. LogInv => LogsOwnBody
  BY DEF LogInv, LogParts, LoggedSoFar, SoFar, LogsOwnBody, Log!LogsOwnBody
<1> QED  BY <1>1, LogInit, LogStep, PTL DEF RequestsSpec

-----------------------------------------------------------------------------
(* An object is of the model that a type stands for.                       *)
Stands(type, o) == \E e \in Join!Mapped : e.type = type /\ e.model = o.model

JoinTypes ==
  /\ table \subseteq Join!Objects
  /\ message \in [Messages -> [type : Types, object_id : ObjectIds \cup {NULL},
                               type_object : Join!Objects \cup {NULL}]]
  /\ given \in [Messages -> Join!Objects \cup {NULL}]
  /\ queried # NULL => queried \subseteq Types

(* The object that a message was set to has its id and its type's model.   *)
(* What an earlier join left on it need not.                               *)
GivenFits ==
  \A m \in Messages :
    given[m] # NULL => given[m].id = message[m].object_id /\ Stands(message[m].type, given[m])

(* The objects that a join found are kept under their own ids and types.   *)
FoundFits ==
  \A f \in objs_data :
    /\ f.object \in Join!Objects
    /\ f.key = <<f.object.id, f.key[2]>> /\ Stands(f.key[2], f.object)

(* What was there all the time of a join is there, and the queries that    *)
(* are through found it for the messages that refer to it.                 *)
Present == queried # NULL => Join!Objects \ absent \subseteq table
Loaded ==
  queried # NULL =>
    \A m \in Messages :
      message[m].type \in queried /\ given[m] \in Join!Objects \ absent =>
        [key |-> <<message[m].object_id, message[m].type>>, object |-> given[m]] \in objs_data

JoinParts == JoinTypes /\ GivenFits /\ FoundFits /\ Present /\ Loaded
JoinInv == part = "join" => JoinParts

(* A type stands for one model, and an object is its model and its id.     *)
LEMMA OneObject ==
  ASSUME NEW type, NEW o \in Join!Objects, NEW p \in Join!Objects,
         Stands(type, o), Stands(type, p), o.id = p.id
  PROVE  o = p
<1>1. PICK e \in Join!Mapped : e.type = type /\ e.model = o.model
  BY DEF Stands
<1>2. PICK d \in Join!Mapped : d.type = type /\ d.model = p.model
  BY DEF Stands
<1>3. PICK i \in 1 .. Len(type_map_model) : e = type_map_model[i]
  BY DEF Join!Mapped
<1>4. PICK j \in 1 .. Len(type_map_model) : d = type_map_model[j]
  BY DEF Join!Mapped
<1>5. i = j
  BY <1>1, <1>2, <1>3, <1>4, RequestsAssumption
<1>6. o.model = p.model
  BY <1>1, <1>2, <1>3, <1>4, <1>5
<1> QED  BY <1>6 DEF Join!Objects

(* What is looked up among the objects that were found is of the id and    *)
(* the type that are looked for, and is found if it is there.              *)
LEMMA GetRight ==
  ASSUME FoundFits, NEW id, NEW type, Join!Get(<<id, type>>) # NULL
  PROVE  LET o == Join!Get(<<id, type>>) IN o \in Join!Objects /\ o.id = id /\ Stands(type, o)
<1> DEFINE key == <<id, type>>
           f == CHOOSE g \in objs_data : g.key = key
<1>1. \E g \in objs_data : g.key = key
  BY DEF Join!Get
<1>2. f \in objs_data /\ f.key = key /\ Join!Get(key) = f.object
  BY <1>1 DEF Join!Get
<1>3. f.object \in Join!Objects /\ <<id, type>> = <<f.object.id, f.key[2]>> /\ Stands(f.key[2], f.object)
  BY <1>2 DEF FoundFits
<1> HIDE DEF f
<1>4. f.object.id = id /\ f.key[2] = type
  BY <1>3
<1> QED  BY <1>2, <1>3, <1>4

LEMMA GetFinds ==
  ASSUME FoundFits, NEW o \in Join!Objects, NEW type, Stands(type, o),
         [key |-> <<o.id, type>>, object |-> o] \in objs_data
  PROVE  Join!Get(<<o.id, type>>) = o
<1> DEFINE key == <<o.id, type>>
           f == CHOOSE g \in objs_data : g.key = key
<1>1. \E g \in objs_data : g.key = key
  OBVIOUS
<1>2. f \in objs_data /\ f.key = key /\ Join!Get(key) = f.object
  BY <1>1 DEF Join!Get
<1>3. f.object \in Join!Objects /\ <<o.id, type>> = <<f.object.id, f.key[2]>> /\ Stands(f.key[2], f.object)
  BY <1>2 DEF FoundFits
<1> HIDE DEF f
<1>4. f.object.id = o.id /\ f.key[2] = type
  BY <1>3
<1> QED  BY <1>2, <1>3, <1>4, OneObject

(* At the start no message was set to anything.                            *)
LEMMA JoinStart == RequestsInit => JoinInv
<1> SUFFICES ASSUME Join!Init
             PROVE  JoinParts
  BY DEF RequestsInit, JoinInv
<1>1. message \in [Messages -> [type : Types, object_id : ObjectIds \cup {NULL}, type_object : {NULL}]]
  BY DEF Join!Init
<1>2. \A m \in Messages : given[m] = NULL
  BY DEF Join!Init
<1>3. JoinTypes
  BY <1>1 DEF Join!Init, JoinTypes
<1> QED  BY <1>2, <1>3 DEF Join!Init, JoinParts, GivenFits, FoundFits, Present, Loaded

(* A message is set to an object when no join is under way.                *)
LEMMA SetTypeObjectKeeps ==
  ASSUME JoinParts, NEW m \in Messages, NEW object \in Join!Objects, Join!SetTypeObject(m, object)
  PROVE  JoinParts'
<1>1. PICK i \in 1 .. Len(type_map_model) :
        /\ type_map_model[i].model = object.model
        /\ message' = [message EXCEPT ![m] =
             [message[m] EXCEPT !.type = type_map_model[i].type, !.object_id = object.id]]
  BY DEF Join!SetTypeObject
<1>2. /\ queried = NULL /\ given' = [given EXCEPT ![m] = object]
      /\ UNCHANGED <<table, queried, objs_data, absent>>
  BY DEF Join!SetTypeObject
<1> DEFINE type == type_map_model[i].type
           msg == [message[m] EXCEPT !.type = type, !.object_id = object.id]
<1>3. JoinTypes /\ GivenFits /\ FoundFits
  BY DEF JoinParts
<1>4. type \in Types /\ object.id \in ObjectIds /\ Stands(type, object)
  BY <1>1, RequestsAssumption DEF Stands, Join!Mapped, Join!Objects
<1>5. /\ msg \in [type : Types, object_id : ObjectIds \cup {NULL}, type_object : Join!Objects \cup {NULL}]
      /\ msg.type = type /\ msg.object_id = object.id
  <2> HIDE DEF type
  <2>1. message[m] \in [type : Types, object_id : ObjectIds \cup {NULL},
                        type_object : Join!Objects \cup {NULL}]
    BY <1>3 DEF JoinTypes
  <2> QED  BY <1>4, <2>1
<1> HIDE DEF msg, type
<1>6. JoinTypes'
  BY <1>1, <1>2, <1>3, <1>5 DEF JoinTypes, msg, type
<1>7. /\ message'[m] = msg /\ given'[m] = object
      /\ \A n \in Messages \ {m} : message'[n] = message[n] /\ given'[n] = given[n]
  BY <1>1, <1>2, <1>3 DEF JoinTypes, msg, type
<1>8. GivenFits'
  BY <1>3, <1>4, <1>5, <1>7 DEF GivenFits, Stands
<1>9. FoundFits'
  BY <1>2, <1>3 DEF FoundFits, Stands
<1> QED  BY <1>2, <1>6, <1>8, <1>9 DEF JoinParts, Present, Loaded

(* A join begins with nothing found.                                       *)
LEMMA GroupKeeps ==
  ASSUME JoinParts, Join!Group
  PROVE  JoinParts'
<1>1. /\ queried' = {} /\ objs_data' = {} /\ absent' = Join!Objects \ table
      /\ UNCHANGED <<table, message, given>>
  BY DEF Join!Group
<1>2. JoinTypes' /\ GivenFits'
  BY <1>1 DEF JoinParts, JoinTypes, GivenFits, Stands
<1> QED  BY <1>1, <1>2 DEF JoinParts, FoundFits, Present, Loaded

(* A query finds every object that is there and that a message of its type *)
(* refers to.                                                              *)
LEMMA QueryKeeps ==
  ASSUME JoinParts, NEW type \in Types, Join!Query(type)
  PROVE  JoinParts'
<1> DEFINE found == UNION { Join!Load(type, e.model) :
                              e \in { d \in Join!Mapped : d.type = type /\ d.model # NULL } }
<1>1. /\ queried # NULL /\ queried' = queried \cup {type} /\ objs_data' = objs_data \cup found
      /\ UNCHANGED <<table, message, given, absent>>
  BY DEF Join!Query
<1>2. JoinTypes /\ GivenFits /\ FoundFits /\ Present /\ Loaded
  BY DEF JoinParts
<1>3. JoinTypes' /\ GivenFits' /\ Present'
  BY <1>1, <1>2 DEF JoinTypes, GivenFits, Stands, Present
<1>4. ASSUME NEW f \in found
      PROVE  \E o \in Join!Objects : Stands(type, o) /\ f = [key |-> <<o.id, type>>, object |-> o]
  <2>1. PICK e \in Join!Mapped : e.type = type /\ f \in Join!Load(type, e.model)
    BY <1>4
  <2>2. PICK o \in table : o.model = e.model /\ f = [key |-> <<o.id, type>>, object |-> o]
    BY <2>1 DEF Join!Load
  <2>3. o \in Join!Objects /\ Stands(type, o)
    BY <1>2, <2>1, <2>2 DEF JoinTypes, Stands
  <2> QED  BY <2>2, <2>3
<1>5. FoundFits'
  <2> SUFFICES ASSUME NEW f \in objs_data'
               PROVE  /\ f.object \in Join!Objects
                      /\ f.key = <<f.object.id, f.key[2]>> /\ Stands(f.key[2], f.object)
    BY DEF FoundFits, Stands
  <2>1. CASE f \in objs_data
    BY <2>1, <1>2 DEF FoundFits
  <2>2. CASE f \in found
    <3> HIDE DEF found
    <3>1. PICK o \in Join!Objects : Stands(type, o) /\ f = [key |-> <<o.id, type>>, object |-> o]
      BY <2>2, <1>4
    <3>2. f.object = o /\ f.key = <<o.id, type>> /\ f.key[2] = type
      BY <3>1
    <3> QED  BY <3>1, <3>2
  <2> QED  BY <1>1, <2>1, <2>2
<1>6. Loaded'
  <2> SUFFICES ASSUME NEW m \in Messages, message[m].type \in queried \cup {type},
                      given[m] \in Join!Objects \ absent
               PROVE  [key |-> <<message[m].object_id, message[m].type>>, object |-> given[m]]
                        \in objs_data \cup found
    BY <1>1 DEF Loaded
  <2>1. CASE message[m].type \in queried
    BY <2>1, <1>1, <1>2 DEF Loaded
  <2>2. CASE message[m].type = type
    <3>1. given[m] # NULL /\ given[m] \in table
      BY <1>1, <1>2, RequestsAssumption DEF Present
    <3>2. given[m].id = message[m].object_id /\ Stands(type, given[m])
      BY <2>2, <3>1, <1>2 DEF GivenFits
    <3>3. PICK e \in Join!Mapped : e.type = type /\ e.model = given[m].model
      BY <3>2 DEF Stands
    <3>4. e.model # NULL
      BY <3>3 DEF Join!Objects, Join!Models
    <3>5. given[m].id \in Join!IdsOf(type)
      BY <2>2, <3>2 DEF Join!IdsOf
    <3>6. [key |-> <<given[m].id, type>>, object |-> given[m]] \in Join!Load(type, e.model)
      BY <3>1, <3>3, <3>5 DEF Join!Load
    <3>7. [key |-> <<given[m].id, type>>, object |-> given[m]] \in found
      BY <3>3, <3>4, <3>6
    <3> QED  BY <2>2, <3>2, <3>7
  <2> QED  BY <2>1, <2>2
<1> QED  BY <1>3, <1>5, <1>6 DEF JoinParts

(* A join gives every message what was found for its id and type, in the   *)
(* place of what an earlier join had left there.                           *)
LEMMA JoinKeeps ==
  ASSUME JoinParts, Join!Join
  PROVE  JoinParts' /\ Join!JoinsAll /\ Join!JoinsRight
<1> DEFINE key(m) == <<message[m].object_id, message[m].type>>
<1>1. /\ message' = [m \in Messages |-> [message[m] EXCEPT !.type_object = Join!Get(key(m))]]
      /\ queried = Join!TypesUsed /\ queried' = NULL
      /\ UNCHANGED <<table, given, objs_data, absent>>
  BY DEF Join!Join
<1>2. JoinTypes /\ GivenFits /\ FoundFits /\ Present /\ Loaded
  BY DEF JoinParts
<1>3. ASSUME NEW m \in Messages
      PROVE  Join!Get(key(m)) # NULL =>
               LET o == Join!Get(key(m)) IN
               o \in Join!Objects /\ o.id = message[m].object_id /\ Stands(message[m].type, o)
  BY <1>2, GetRight
<1>4. ASSUME NEW m \in Messages
      PROVE  /\ message'[m] \in [type : Types, object_id : ObjectIds \cup {NULL},
                                 type_object : Join!Objects \cup {NULL}]
             /\ message'[m].type = message[m].type /\ message'[m].object_id = message[m].object_id
             /\ message'[m].type_object = Join!Get(key(m))
  <2> DEFINE got == Join!Get(key(m))
  <2>1. message'[m] = [message[m] EXCEPT !.type_object = got]
    BY <1>1
  <2>2. got \in Join!Objects \cup {NULL}
    BY <1>3
  <2>3. message[m] \in [type : Types, object_id : ObjectIds \cup {NULL},
                        type_object : Join!Objects \cup {NULL}]
    BY <1>2 DEF JoinTypes
  <2> HIDE DEF got
  <2>4. /\ message'[m] \in [type : Types, object_id : ObjectIds \cup {NULL},
                            type_object : Join!Objects \cup {NULL}]
        /\ message'[m].type = message[m].type /\ message'[m].object_id = message[m].object_id
        /\ message'[m].type_object = got
    BY <2>1, <2>2, <2>3
  <2> QED  BY <2>4 DEF got
<1> HIDE DEF key
<1>5. JoinTypes'
  <2>1. message' \in [Messages -> [type : Types, object_id : ObjectIds \cup {NULL},
                                   type_object : Join!Objects \cup {NULL}]]
    BY <1>1, <1>4
  <2> QED  BY <1>1, <1>2, <2>1 DEF JoinTypes
<1>6. GivenFits'
  BY <1>1, <1>2, <1>4 DEF GivenFits, Stands
<1>7. Join!JoinsRight
  <2> SUFFICES ASSUME NEW m \in Messages, message'[m].type_object # NULL
               PROVE  LET o == message'[m].type_object IN
                      /\ o.id = message'[m].object_id /\ Stands(message'[m].type, o)
                      /\ given[m] \in {o, NULL}
    BY <1>1 DEF Join!JoinsRight, Stands
  <2> DEFINE o == message'[m].type_object
  <2>1. o \in Join!Objects /\ o.id = message[m].object_id /\ Stands(message[m].type, o)
    BY <1>3, <1>4
  <2>2. given[m] # NULL => given[m] \in Join!Objects
    BY <1>2 DEF JoinTypes
  <2>3. given[m] # NULL => given[m] = o
    BY <1>2, <2>1, <2>2, OneObject DEF GivenFits
  <2> QED  BY <1>4, <2>1, <2>3
<1>8. FoundFits'
  BY <1>1, <1>2 DEF FoundFits, Stands
<1>9. Join!JoinsAll
  <2> SUFFICES ASSUME NEW m \in Messages, NEW o \in Join!Objects \ absent, queried # NULL, given[m] = o
               PROVE  message'[m].type_object = o
    BY DEF Join!JoinsAll
  <2>1. o # NULL /\ message[m].type \in queried
    BY <1>1, RequestsAssumption DEF Join!TypesUsed
  <2>2. o.id = message[m].object_id /\ Stands(message[m].type, o)
    BY <1>2, <2>1 DEF GivenFits
  <2>3. [key |-> <<o.id, message[m].type>>, object |-> o] \in objs_data
    BY <1>2, <2>1, <2>2 DEF Loaded
  <2>4. Join!Get(<<o.id, message[m].type>>) = o
    BY <1>2, <2>2, <2>3, GetFinds
  <2> QED  BY <1>4, <2>2, <2>4 DEF key
<1> QED  BY <1>1, <1>5, <1>6, <1>7, <1>8, <1>9 DEF JoinParts, Present, Loaded

(* An object that comes or goes is one that was not there all the time.    *)
LEMMA ToggleKeeps ==
  ASSUME JoinParts, NEW object \in Join!Objects, Join!Toggle(object)
  PROVE  JoinParts'
<1>1. /\ table' = IF object \in table THEN table \ {object} ELSE table \cup {object}
      /\ absent' = absent \cup {object}
      /\ UNCHANGED <<message, given, queried, objs_data>>
  BY DEF Join!Toggle
<1>2. JoinTypes /\ GivenFits /\ FoundFits /\ Present /\ Loaded
  BY DEF JoinParts
<1>3. JoinTypes' /\ GivenFits' /\ FoundFits'
  BY <1>1, <1>2 DEF JoinTypes, GivenFits, Stands, FoundFits
<1>4. Present' /\ Loaded'
  BY <1>1, <1>2 DEF Present, Loaded
<1> QED  BY <1>3, <1>4 DEF JoinParts

(* Only a join that is done stops one.                                     *)
LEMMA JoinNextKeeps ==
  ASSUME JoinParts, Join!Next
  PROVE  JoinParts' /\ Join!JoinsAll /\ Join!JoinsRight
<1>1. CASE \E m \in Messages, o \in Join!Objects : Join!SetTypeObject(m, o)
  <2>1. PICK m \in Messages, o \in Join!Objects : Join!SetTypeObject(m, o)
    BY <1>1
  <2>2. queried' = queried
    BY <2>1 DEF Join!SetTypeObject
  <2> QED  BY <2>1, <2>2, SetTypeObjectKeeps DEF Join!JoinsAll, Join!JoinsRight
<1>2. CASE Join!Group
  <2>1. queried = NULL
    BY <1>2 DEF Join!Group
  <2> QED  BY <1>2, <2>1, GroupKeeps DEF Join!JoinsAll, Join!JoinsRight
<1>3. CASE \E type \in Types : Join!Query(type)
  <2>1. PICK type \in Types : Join!Query(type)
    BY <1>3
  <2>2. queried # NULL /\ queried' = queried \cup {type} /\ queried \subseteq Types
    BY <2>1 DEF Join!Query, JoinParts, JoinTypes
  <2>3. queried' # NULL
    BY <2>2, RequestsAssumption
  <2> QED  BY <2>1, <2>3, QueryKeeps DEF Join!JoinsAll, Join!JoinsRight
<1>4. CASE Join!Join
  BY <1>4, JoinKeeps
<1>5. CASE \E o \in Join!Objects : Join!Toggle(o)
  <2>1. PICK o \in Join!Objects : Join!Toggle(o)
    BY <1>5
  <2>2. queried' = queried
    BY <2>1 DEF Join!Toggle
  <2> QED  BY <2>1, <2>2, ToggleKeeps DEF Join!JoinsAll, Join!JoinsRight
<1> QED  BY <1>1, <1>2, <1>3, <1>4, <1>5 DEF Join!Next

LEMMA JoinStep ==
  JoinInv /\ [RequestsNext]_all =>
    /\ JoinInv'
    /\ [part = "join" => Join!JoinsAll]_all
    /\ [part = "join" => Join!JoinsRight]_all
<1> SUFFICES ASSUME JoinInv, [RequestsNext]_all
             PROVE  /\ JoinInv'
                    /\ [part = "join" => Join!JoinsAll]_all
                    /\ [part = "join" => Join!JoinsRight]_all
  OBVIOUS
<1>1. CASE UNCHANGED all
  <2>1. JoinParts => JoinParts'
    BY <1>1 DEF all, joined, JoinParts, JoinTypes, GivenFits, Stands, FoundFits, Present, Loaded
  <2> QED  BY <1>1, <2>1 DEF all, JoinInv
<1>2. CASE JoinNext
  <2>1. JoinParts /\ part' = part /\ Join!Next
    BY <1>2 DEF JoinNext, JoinInv
  <2> QED  BY <2>1, JoinNextKeeps DEF JoinInv
<1>3. CASE AuthStep(Next) \/ LogNext \/ WeekNext
  BY <1>3 DEF AuthStep, LogNext, WeekNext, JoinInv
<1> QED  BY <1>1, <1>2, <1>3 DEF RequestsNext

(* What a join leaves on a message is of the message's id and of the model *)
(* that its type stands for, and is the one that the message was set to,   *)
(* whatever an earlier join had left there.                                *)
THEOREM RightlyJoined == RequestsSpec => JoinedRight
<1>1. JoinInv /\ [RequestsNext]_all => JoinInv' /\ [part = "join" => Join!JoinsRight]_all
  BY JoinStep
<1> QED  BY <1>1, JoinStart, PTL DEF RequestsSpec, JoinedRight

(* A join misses no object that was there all the time, though others come *)
(* and go between its queries.                                             *)
THEOREM AllJoined == RequestsSpec => JoinedAll
<1>1. JoinInv /\ [RequestsNext]_all => JoinInv' /\ [part = "join" => Join!JoinsAll]_all
  BY JoinStep
<1> QED  BY <1>1, JoinStart, PTL DEF RequestsSpec, JoinedAll

-----------------------------------------------------------------------------
(* A weekday is a number from one to seven.                                *)
LEMMA WeekdayIs ==
  ASSUME NEW date \in Int
  PROVE  Week!Weekday(date) \in 1 .. 7
BY DEF Week!Weekday

(* Three days on, the weekday is three more, or four less.                 *)
LEMMA WeekdayLater ==
  ASSUME NEW date \in Int
  PROVE  Week!Weekday(date + 3) = IF Week!Weekday(date) <= 4 THEN Week!Weekday(date) + 3
                                  ELSE Week!Weekday(date) - 4
BY DEF Week!Weekday

(* convert_week counts from the Monday of the week of the fourth of        *)
(* January (isocalendar), though the code only looks at the first: the     *)
(* first of January is in week one or in a week of the year before.        *)
THEOREM ConvertsISOWeeks ==
  ASSUME NEW first \in Int, NEW week \in Int, NEW day \in Int
  PROVE  Week!convert_week(first, week, day) = Week!FirstMonday(first) + 7 * (week - 1) + day - 1
<1>1. /\ Week!Weekday(first) \in 1 .. 7
      /\ Week!Weekday(first + 3) = IF Week!Weekday(first) <= 4 THEN Week!Weekday(first) + 3
                                   ELSE Week!Weekday(first) - 4
  BY WeekdayIs, WeekdayLater
<1>2. CASE Week!Weekday(first) <= 4
  <2>1. Week!FirstMonday(first) = first + 1 - Week!Weekday(first)
    BY <1>1, <1>2 DEF Week!FirstMonday
  <2>2. Week!Base(first) = 1
    BY <1>1, <1>2, <2>1 DEF Week!Base, Week!InWeekOne
  <2> QED  BY <1>1, <2>1, <2>2 DEF Week!convert_week
<1>3. CASE Week!Weekday(first) > 4
  <2>1. Week!FirstMonday(first) = first + 8 - Week!Weekday(first)
    BY <1>1, <1>3 DEF Week!FirstMonday
  <2>2. Week!Base(first) = 8
    BY <1>1, <1>3, <2>1 DEF Week!Base, Week!InWeekOne
  <2> QED  BY <1>1, <2>1, <2>2 DEF Week!convert_week
<1> QED  BY <1>1, <1>2, <1>3

(* The first week starts with a Monday, at most three days from the first  *)
(* of January.                                                             *)
LEMMA MondayIs ==
  ASSUME NEW first \in Int
  PROVE  LET monday == Week!FirstMonday(first) IN
         /\ monday \in Int /\ first - 3 <= monday /\ monday <= first + 3
         /\ (monday - 1) % 7 = 0
BY DEF Week!FirstMonday, Week!Weekday

(* A year has 365 days, or 366.                                            *)
LEMMA YearLength ==
  ASSUME NEW y \in Int
  PROVE  /\ Week!FirstDay(y) \in Int
         /\ Week!FirstDay(y + 1) - Week!FirstDay(y) \in {365, 366}
<1>1. Week!FirstDay(y) \in Int
  BY DEF Week!FirstDay
<1> DEFINE by4 == y \div 4 - (y - 1) \div 4
           by100 == y \div 100 - (y - 1) \div 100
           by400 == y \div 400 - (y - 1) \div 400
<1>2. by4 \in {0, 1} /\ (by4 = 1) = (y % 4 = 0)
  OBVIOUS
<1>3. by100 \in {0, 1} /\ (by100 = 1) = (y % 100 = 0)
  OBVIOUS
<1>4. by400 \in {0, 1} /\ (by400 = 1) = (y % 400 = 0)
  OBVIOUS
<1>5. (y % 400 = 0 => y % 100 = 0) /\ (y % 100 = 0 => y % 4 = 0)
  OBVIOUS
<1>6. Week!FirstDay(y + 1) - Week!FirstDay(y) = 365 + by4 - by100 + by400
  BY DEF Week!FirstDay
<1> HIDE DEF by4, by100, by400
<1>7. 365 + by4 - by100 + by400 \in {365, 366}
  BY <1>2, <1>3, <1>4, <1>5
<1> QED  BY <1>1, <1>6, <1>7

(* The weeks of every year, not only of the 400 of the run, are 52 or 53,  *)
(* and the week after the last is the first of the next year.              *)
THEOREM WeeksOfEveryYear ==
  ASSUME NEW y \in Int
  PROVE  /\ Week!WeeksOf(y) \in {52, 53}
         /\ Week!convert_week(Week!FirstDay(y), Week!WeeksOf(y) + 1, 1)
              = Week!convert_week(Week!FirstDay(y + 1), 1, 1)
<1> DEFINE first == Week!FirstDay(y)
           next == Week!FirstDay(y + 1)
           from == Week!FirstMonday(first)
           to == Week!FirstMonday(next)
           weeks == Week!WeeksOf(y)
<1>1. first \in Int /\ next \in Int /\ next - first \in {365, 366}
  BY YearLength
<1> HIDE DEF first, next
<1>2. /\ from \in Int /\ first - 3 <= from /\ from <= first + 3 /\ (from - 1) % 7 = 0
      /\ to \in Int /\ next - 3 <= to /\ to <= next + 3 /\ (to - 1) % 7 = 0
  BY <1>1, MondayIs
<1>3. weeks = (to - from) \div 7
  BY DEF Week!WeeksOf, first, next
<1> HIDE DEF from, to, weeks
<1>4. to - from \in 359 .. 372
  BY <1>1, <1>2
<1>5. (to - from) % 7 = 0
  BY <1>2
<1>6. \/ weeks = 52 /\ to - from = 364
      \/ weeks = 53 /\ to - from = 371
  BY <1>2, <1>3, <1>4, <1>5
<1>7. weeks \in {52, 53} /\ from + 7 * weeks = to
  BY <1>2, <1>6
<1> DEFINE last == weeks + 1
<1>8. last \in Int /\ 1 \in Int /\ from + 7 * (last - 1) + 1 - 1 = to
  BY <1>2, <1>7
<1>9. to + 7 * (1 - 1) + 1 - 1 = to
  BY <1>2
<1> HIDE DEF last
<1>10. Week!convert_week(first, last, 1) = to
  <2>1. Week!convert_week(first, last, 1) = Week!FirstMonday(first) + 7 * (last - 1) + 1 - 1
    BY <1>1, <1>8, ConvertsISOWeeks
  <2> QED  BY <1>8, <2>1 DEF from
<1>11. Week!convert_week(next, 1, 1) = to
  <2>1. Week!convert_week(next, 1, 1) = Week!FirstMonday(next) + 7 * (1 - 1) + 1 - 1
    BY <1>1, ConvertsISOWeeks
  <2> QED  BY <1>9, <2>1 DEF to
<1> QED  BY <1>7, <1>10, <1>11 DEF first, next, weeks, last

(* The year is a number.                                                   *)
LEMMA YearIs == RequestsSpec => [](year \in Int)
<1>1. RequestsInit => year \in Int
  BY DEF RequestsInit, Week!Init
<1>2. year \in Int /\ [RequestsNext]_all => (year \in Int)'
  BY DEF all, RequestsNext, AuthStep, LogNext, JoinNext, WeekNext, Week!Next
<1> QED  BY <1>1, <1>2, PTL DEF RequestsSpec

(* Every week is a Monday to a Sunday, and they follow one another.        *)
THEOREM WeeksOrdered == RequestsSpec => []WeeksInOrder
<1>1. ASSUME year \in Int
      PROVE  Week!WeeksInOrder
  <2> DEFINE first == Week!FirstDay(year)
             monday == Week!FirstMonday(first)
             weeks == Week!WeeksOf(year)
  <2>1. /\ weeks \in {52, 53}
        /\ Week!convert_week(first, weeks + 1, 1) = Week!convert_week(Week!FirstDay(year + 1), 1, 1)
    BY <1>1, WeeksOfEveryYear
  <2>2. first \in Int
    BY <1>1, YearLength
  <2> HIDE DEF first
  <2>3. monday \in Int /\ (monday - 1) % 7 = 0
    BY <2>2, MondayIs
  <2>4. ASSUME NEW week \in Int
        PROVE  /\ Week!convert_week(first, week, 1) = monday + 7 * (week - 1)
               /\ Week!convert_week_daterange(first, week)
                    = <<monday + 7 * (week - 1), monday + 7 * (week - 1) + 6>>
    <3>1. Week!convert_week(first, week, 1) = monday + 7 * (week - 1) + 1 - 1
      BY <2>2, ConvertsISOWeeks
    <3> HIDE DEF monday
    <3>2. Week!convert_week(first, week, 1) = monday + 7 * (week - 1)
      BY <2>3, <3>1
    <3> QED  BY <3>2 DEF Week!convert_week_daterange
  <2> HIDE DEF weeks
  <2>5. Week!InWeekOne(Week!convert_week(first, 1, 1), first)
    <3>1. Week!convert_week(first, 1, 1) = monday + 7 * (1 - 1)
      BY <2>4
    <3> QED  BY <2>3, <3>1 DEF Week!InWeekOne
  <2>6. ASSUME NEW week \in 1 .. weeks
        PROVE  LET range == Week!convert_week_daterange(first, week) IN
               /\ Week!Weekday(range[1]) = 1 /\ Week!Weekday(range[2]) = 7
               /\ range[2] + 1 = Week!convert_week_daterange(first, week + 1)[1]
    <3>1. week \in Int /\ week + 1 \in Int
      BY <2>1
    <3>2. /\ Week!convert_week_daterange(first, week)
               = <<monday + 7 * (week - 1), monday + 7 * (week - 1) + 6>>
          /\ Week!convert_week_daterange(first, week + 1)
               = <<monday + 7 * (week + 1 - 1), monday + 7 * (week + 1 - 1) + 6>>
      BY <2>4, <3>1
    <3> HIDE DEF monday
    <3>3. /\ Week!Weekday(monday + 7 * (week - 1)) = 1
          /\ Week!Weekday(monday + 7 * (week - 1) + 6) = 7
      BY <2>3, <3>1 DEF Week!Weekday
    <3>4. monday + 7 * (week - 1) + 6 + 1 = monday + 7 * (week + 1 - 1)
      BY <2>3, <3>1
    <3> QED  BY <3>2, <3>3, <3>4
  <2> QED  BY <2>1, <2>5, <2>6 DEF Week!WeeksInOrder, first, weeks
<1>2. year \in Int => WeeksInOrder
  BY <1>1 DEF WeeksInOrder
<1> QED  BY <1>2, YearIs, PTL
==============================================================================
