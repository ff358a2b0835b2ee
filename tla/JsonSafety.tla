----------------------------- MODULE JsonSafety -----------------------------
(***************************************************************************)
(* The check of a JSON field (qx_rest/serializers.py check_json_safey and  *)
(* SafeJSONField), against what its result should be.  A value is a        *)
(* scalar, a dictionary or a list; a blank one is a string with blanks in  *)
(* it, and its length is the number of its scalars and containers.         *)
(***************************************************************************)
EXTENDS Integers, Sequences, FiniteSetsExt

CONSTANTS Keys, include_fields, required_fields, max_json_length, max_depth

VARIABLE data

Scalars == { [kind |-> k] : k \in {"blank", "string", "number"} }
Dict(f) == [kind |-> "dict", at |-> f]
List(s) == [kind |-> "list", at |-> s]

IsContainer(v) == v.kind \in {"dict", "list"}
Values(v) == { v.at[k] : k \in DOMAIN v.at }

(* Containers of one of the values, or of one and a blank.                 *)
Containers(S) ==
  {Dict(<<>>), List(<<>>)}
    \cup { Dict([k \in {key, other} |-> IF k = key THEN v ELSE [kind |-> "blank"]]) :
             key \in Keys, other \in Keys, v \in S }
    \cup { List(<<v>>) : v \in S } \cup { List(<<[kind |-> "blank"], v>>) : v \in S }

Init == data \in Scalars \cup Containers(Scalars \cup Containers(Scalars \cup Containers(
                   Scalars \cup { List(<<v>>) : v \in Scalars })))

RECURSIVE Length(_)
Length(v) == IF IsContainer(v) THEN 1 + MapThenSumSet(LAMBDA k : Length(v.at[k]), DOMAIN v.at) ELSE 1

Replaced(v) == IF v.kind = "blank" THEN [kind |-> "string"] ELSE v

(* The top level of a dictionary loses the keys that are not among fields. *)
Kept(v, fields) ==
  IF v.kind = "dict" THEN Dict([k \in DOMAIN v.at \cap fields |-> v.at[k]]) ELSE v

(* Mutant: what is too deep counts from the next level.                    *)
TooDeepBelow(depth) == depth > max_depth + 1

TooDeep(depth) == depth > max_depth

(* [ok, data]: a container is copied, value by value, and the answer for   *)
(* one that is refused is that for its container, with what was refused as *)
(* the data; include_fields are for the top level only.                    *)
RECURSIVE check_json_safey(_, _, _)
check_json_safey(v, fields, depth) ==
  LET kept == Kept(v, fields)
      ret == [k \in DOMAIN kept.at |->
                IF IsContainer(kept.at[k]) THEN check_json_safey(kept.at[k], Keys, depth + 1)
                ELSE [ok |-> TRUE, data |-> Replaced(kept.at[k])]]
      refused == [ok |-> FALSE, data |-> v] IN
  IF TooDeep(depth) \/ (depth = 1 /\ Length(v) > max_json_length) \/ ~IsContainer(v) THEN refused
  ELSE IF \E k \in DOMAIN ret : ~ret[k].ok THEN ret[CHOOSE k \in DOMAIN ret : ~ret[k].ok]
  ELSE [ok |-> TRUE, data |-> [v EXCEPT !.at = [k \in DOMAIN ret |-> ret[k].data]]]

(* SafeJSONField: what is required is looked for in the result, and only   *)
(* where it is given as a dictionary; a list of it is not looked at.  The  *)
(* keys of what is no dictionary are an AttributeError.                    *)
to_internal_value(v, required_kind) ==
  LET ret == check_json_safey(v, include_fields, 1)
      looks == required_kind = "dict"
      missing == looks /\ ~(required_fields \subseteq DOMAIN ret.data.at) IN
  [outcome |-> IF looks /\ ret.data.kind # "dict" THEN "raises"
               ELSE IF missing \/ ~ret.ok THEN "refused" ELSE "accepted",
   data |-> ret.data]

-----------------------------------------------------------------------------
RECURSIVE Depth(_)
Depth(v) == IF IsContainer(v) THEN 1 + Max({ Depth(w) : w \in Values(v) } \cup {0}) ELSE 0

RECURSIVE HasBlank(_)
HasBlank(v) == v.kind = "blank" \/ (IsContainer(v) /\ \E w \in Values(v) : HasBlank(w))

(* What is accepted is a container that is short enough and, without the   *)
(* fields that are not included, not too deep; the result has no blanks,   *)
(* is otherwise what was given, and passes the check unchanged.  Such a    *)
(* dictionary is accepted if it has all that is required; a field with a   *)
(* dictionary of required fields accepts nothing else.  Of a value without *)
(* what a list requires nothing is said: the code accepts it, and the      *)
(* docstring ("required_fields: required fields", with a list) would not.  *)
CheckedIsSafe ==
  LET kept == Kept(data, include_fields)
      fits == IsContainer(data) /\ Length(data) <= max_json_length /\ Depth(kept) <= max_depth
      complete == data.kind = "dict" /\ required_fields \subseteq DOMAIN kept.at IN
  \A kind \in {"list", "dict"} :
    LET ret == to_internal_value(data, kind) IN
    /\ fits /\ complete => ret.outcome = "accepted"
    /\ ret.outcome = "accepted" =>
         /\ fits /\ (kind = "dict" => complete)
         /\ ~HasBlank(ret.data)
         /\ DOMAIN ret.data.at = DOMAIN kept.at
         /\ Length(ret.data) = Length(kept) /\ Depth(ret.data) = Depth(kept)
         /\ check_json_safey(ret.data, include_fields, 1) = [ok |-> TRUE, data |-> ret.data]
==============================================================================
