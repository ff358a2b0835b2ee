------------------------------ MODULE TypeJoin ------------------------------
(***************************************************************************)
(* Rows that refer to objects of several models (qx_core/models.py         *)
(* ContentTypeRelated): setting the object of a message, and loading those *)
(* of a list of messages, by one query for each type while others create   *)
(* and delete objects.                                                     *)
(***************************************************************************)
EXTENDS Integers, Sequences

CONSTANTS
  NULL,
  Messages,
  Ids,
  Types,           \* that a message may have, in the map or not
  type_map_model   \* sequence of [type, model], the model NULL where there is none

Mapped == { type_map_model[i] : i \in 1 .. Len(type_map_model) }
Models == { e.model : e \in Mapped } \ {NULL}
Objects == [model : Models, id : Ids]

VARIABLES
  table,       \* the objects that are there
  message,     \* [Messages -> [type, object_id, type_object]]
  given,       \* history: [Messages -> the object that was set, or NULL]
  queried,     \* types that were queried; NULL outside of a join
  objs_data,   \* what the queries found: [key |-> <<id, type>>, object]
  absent       \* history: objects that were not there all the time of the join

vars == <<table, message, given, queried, objs_data, absent>>

Init ==
  /\ table \in SUBSET Objects
  /\ message \in [Messages -> [type : Types, object_id : Ids \cup {NULL}, type_object : {NULL}]]
  /\ given = [m \in Messages |-> NULL]
  /\ queried = NULL /\ objs_data = {} /\ absent = Objects \ table

(* set_type_object: the last type of the map that has the object's model.  *)
(* The object that a join gave the message before stays on it.             *)
SetTypeObject(m, object) ==
  /\ queried = NULL
  /\ object \in table
  /\ \E i \in 1 .. Len(type_map_model) :
       /\ type_map_model[i].model = object.model
       /\ \A j \in i + 1 .. Len(type_map_model) : type_map_model[j].model # object.model
       /\ message' = [message EXCEPT ![m] =
            [message[m] EXCEPT !.type = type_map_model[i].type, !.object_id = object.id]]
  /\ given' = [given EXCEPT ![m] = object]
  /\ UNCHANGED <<table, queried, objs_data, absent>>

(* prefetch_type_object groups the messages by their types.                *)
Group ==
  /\ queried = NULL /\ queried' = {}
  /\ objs_data' = {} /\ absent' = Objects \ table
  /\ UNCHANGED <<table, message, given>>

IdsOf(type) == { message[m].object_id : m \in { n \in Messages : message[n].type = type } }
TypesUsed == { message[m].type : m \in Messages }

(* Mutant: the objects are kept under their ids only.                      *)
LoadIds(type, model) ==
  { [key |-> <<o.id, t>>, object |-> o] :
      o \in { p \in table : p.model = model /\ p.id \in IdsOf(type) }, t \in TypesUsed }

(* load_queryset_type_object.                                              *)
Load(type, model) ==
  { [key |-> <<o.id, type>>, object |-> o] :
      o \in { p \in table : p.model = model /\ p.id \in IdsOf(type) } }

(* Mutant: each query's result replaces that of the one before.            *)
QueryAnew(type) ==
  /\ queried # NULL
  /\ type \in TypesUsed \ queried
  /\ queried' = queried \cup {type}
  /\ objs_data' =
       UNION { Load(type, e.model) : e \in { d \in Mapped : d.type = type /\ d.model # NULL } }
  /\ UNCHANGED <<table, message, given, absent>>

Query(type) ==
  /\ queried # NULL
  /\ type \in TypesUsed \ queried
  /\ queried' = queried \cup {type}
  /\ objs_data' = objs_data \cup
       UNION { Load(type, e.model) : e \in { d \in Mapped : d.type = type /\ d.model # NULL } }
  /\ UNCHANGED <<table, message, given, absent>>

Get(key) ==
  IF \E f \in objs_data : f.key = key
  THEN (CHOOSE f \in objs_data : f.key = key).object ELSE NULL

Join ==
  /\ queried = TypesUsed
  /\ message' = [m \in Messages |->
       [message[m] EXCEPT !.type_object = Get(<<message[m].object_id, message[m].type>>)]]
  /\ queried' = NULL
  /\ UNCHANGED <<table, given, objs_data, absent>>

(* Others create and delete objects.                                       *)
Toggle(object) ==
  /\ table' = IF object \in table THEN table \ {object} ELSE table \cup {object}
  /\ absent' = absent \cup {object}
  /\ UNCHANGED <<message, given, queried, objs_data>>

Next ==
  \/ \E m \in Messages, o \in Objects : SetTypeObject(m, o)
  \/ Group \/ \E t \in Types : Query(t)
  \/ Join
  \/ \E o \in Objects : Toggle(o)

-----------------------------------------------------------------------------
(* What a join leaves on a message, whatever an earlier one had left there *)
(* and whatever other models have the same ids, is an object of its id and *)
(* of the model that its type stands for, and the one that it was set to.  *)
JoinsRight ==
  \A m \in Messages :
    LET o == message'[m].type_object IN
    queried # NULL /\ queried' = NULL /\ o # NULL =>
      /\ o.id = message'[m].object_id
      /\ \E e \in Mapped : e.type = message'[m].type /\ e.model = o.model
      /\ given[m] \in {o, NULL}

(* A join finds the object that a message was set to, unless it was not    *)
(* there all the time.                                                     *)
JoinsAll ==
  \A m \in Messages, o \in Objects \ absent :
    queried # NULL /\ queried' = NULL /\ given[m] = o => message'[m].type_object = o
==============================================================================
