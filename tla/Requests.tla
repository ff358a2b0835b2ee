------------------------------ MODULE Requests ------------------------------
(***************************************************************************)
(* What happens around a request, in parts that share nothing: each        *)
(* behaviour is one of UserAuth, ErrorLog, TypeJoin or Weeks, while the    *)
(* others stay; "json" is for the values that MCRequests adds.             *)
(***************************************************************************)
EXTENDS UserAuth, Sequences

CONSTANTS Threads, Bodies, Messages, ObjectIds, Types, type_map_model

VARIABLES
  part,
  _initial_http_body, request, logged,
  table, message, given, queried, objs_data, absent,
  year

Log == INSTANCE ErrorLog
Join == INSTANCE TypeJoin WITH Ids <- ObjectIds
Week == INSTANCE Weeks

(* The map is a dictionary: a type is in it once.  A request that is kept  *)
(* has a body, which may be the empty one.                                 *)
ASSUME RequestsAssumption ==
  /\ Bodies # {}
  /\ \A i \in 1 .. Len(type_map_model) : type_map_model[i].type \in Types
  /\ \A i, j \in 1 .. Len(type_map_model) : type_map_model[i].type = type_map_model[j].type => i = j
  /\ NULL \notin Join!Objects /\ \A types \in SUBSET Types : types # NULL

joined == <<table, message, given, queried, objs_data, absent>>
all == <<vars, part, _initial_http_body, request, logged, joined, year>>

RequestsInit ==
  /\ part \in {"auth", "log", "join", "weeks", "json"}
  /\ Init /\ (part # "auth" => row = [u \in Ids |-> NULL])
  /\ Log!Init /\ Week!Init
  /\ IF part = "join" THEN Join!Init
     ELSE table = {} /\ message = <<>> /\ given = <<>> /\ queried = NULL /\ objs_data = {} /\ absent = {}

AuthStep(A) == part = "auth" /\ A /\ UNCHANGED <<part, _initial_http_body, request, logged, joined, year>>
LogNext == part = "log" /\ Log!Next /\ UNCHANGED <<vars, part, joined, year>>
JoinNext == part = "join" /\ Join!Next
            /\ UNCHANGED <<vars, part, _initial_http_body, request, logged, year>>
WeekNext == part = "weeks" /\ Week!Next
            /\ UNCHANGED <<vars, part, _initial_http_body, request, logged, joined>>

RequestsNext == AuthStep(Next) \/ LogNext \/ JoinNext \/ WeekNext

RequestsSpec == RequestsInit /\ [][RequestsNext]_all /\ WF_all(AuthStep(Copy))

-----------------------------------------------------------------------------
(* The properties of the parts, of the behaviours that are theirs.         *)

(* Every variable of the log of failed requests has its type.              *)
LogTypeOK == part = "log" => Log!TypeOK

(* A failed request of the interface is logged, with its own body unless   *)
(* another thread's request was kept on the middleware since.              *)
LogsOwnBody == part = "log" => Log!LogsOwnBody

(* A join leaves on a message an object of its id and its type's model.    *)
JoinedRight == [][part = "join" => Join!JoinsRight]_all

(* A join finds every object that was there all the time.                  *)
JoinedAll == [][part = "join" => Join!JoinsAll]_all

(* convert_week and convert_week_daterange number the weeks as ISO 8601.   *)
WeeksInOrder == part = "weeks" => Week!WeeksInOrder
==============================================================================
