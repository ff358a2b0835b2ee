------------------------- MODULE MCRestCacheConfigs -------------------------
(* RestCache on small viewsets: a retrieve action cleared synchronously by *)
(* its exact name, a list action per user cleared by pattern in a task,    *)
(* and a detail action of another model cleared through a foreign rule.    *)
EXTENDS RestCache

CONSTANTS r1, r2, k1, u1, u2

MCActions == {"retrieve", "list", "kid"}

(* cache_config of the viewsets, as an application writes it.              *)
MCViewConfig ==
  [ retrieve |-> [detail |-> TRUE, lookup |-> "id", opts |-> <<>>],
    list     |-> [detail |-> FALSE, lookup |-> NULL,
                  opts |-> [by_user |-> TRUE]],
    kid      |-> [detail |-> TRUE, lookup |-> "id", opts |-> <<>>] ]

(* The list without pages; having no filters it has no code either.        *)
OneListConfig ==
  [ MCViewConfig EXCEPT !.list.opts = [by_user |-> TRUE, is_paginate |-> FALSE] ]

NoFilters == {}

OnePage == { [page |-> "1"] }

KidOfR1 == [k \in Kids |-> r1]

EachItsOwner == [r \in Rows |-> IF r = r1 THEN {u1} ELSE {u2}]
AnyOwner == [r \in Rows |-> Users]

DefaultRule ==
  [set |-> "default", actions |-> {"retrieve", "list"}, async_actions |-> {"list"},
   skip |-> {}]

ForeignRule(async) ==
  [set |-> "foreign", actions |-> {"kid"}, async_actions |-> async, skip |-> {}]

(* A custom entry whose format names the retrieve keys, with "create":     *)
(* False.                                                                  *)
CustomRule ==
  [set |-> "custom", actions |-> {"retrieve"}, async_actions |-> {}, skip |-> {"create"}]

(* The kids' page is cleared by a task.                                    *)
LateForeign == <<DefaultRule, ForeignRule({"kid"}), CustomRule>>

SyncForeign == <<DefaultRule, ForeignRule({})>>

OnlyDefault == <<DefaultRule>>

OwnActions == {"retrieve", "list"}

NoDelete == {}
==============================================================================
