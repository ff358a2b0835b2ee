----------------------------- MODULE MCRequests -----------------------------
(***************************************************************************)
(* The instance of Requests in which two types stand for one model, one    *)
(* for none and one is not in the map, with the values that JsonSafety     *)
(* checks, one in each behaviour of the part "json".                       *)
(***************************************************************************)
EXTENDS Requests

CONSTANT Keys
VARIABLE data

MCTypes == {"user", "member", "article", "post", "other"}
MCTypeMap == << [type |-> "user", model |-> "User"], [type |-> "member", model |-> "User"],
                [type |-> "article", model |-> "Article"], [type |-> "post", model |-> NULL] >>

Json == INSTANCE JsonSafety
  WITH include_fields <- {CHOOSE k \in Keys : TRUE}, required_fields <- {CHOOSE k \in Keys : TRUE},
       max_json_length <- 6, max_depth <- 3

MCInit == RequestsInit /\ IF part = "json" THEN Json!Init ELSE data = [kind |-> "number"]
MCSpec == MCInit /\ [][RequestsNext /\ UNCHANGED data]_<<all, data>> /\ WF_all(AuthStep(Copy))

(* check_json_safey accepts what is short and flat enough, without blanks. *)
CheckedIsSafe == part = "json" => Json!CheckedIsSafe
==============================================================================
