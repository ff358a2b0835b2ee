--------------------------- MODULE RestCacheKey ---------------------------
(***************************************************************************)
(* The key algebra of the REST cache (qx_rest/caches.py): how a viewset's  *)
(* cache_config is completed with defaults, which Redis key a request      *)
(* reads and writes, and which keys one clearing call removes.             *)
(*                                                                         *)
(* A Redis key "viewset:<class>:<action>[:<user>][:<id>][:<md5>]" is the   *)
(* record of its parts; a part the configuration leaves out is NULL.  The  *)
(* md5 of the ordered query parameters is the tuple of their values.       *)
(***************************************************************************)
EXTENDS Integers, TLC

CONSTANTS
  NULL,          \* Python's None
  Actions,       \* the cached actions of the viewsets, and the custom keys
  ViewConfig,    \* [Actions -> [detail, lookup, opts]]: cache_config as written,
                 \* lookup the viewset's lookup field for retrieve, else NULL
  FilterFields,  \* the viewset's filter fields, with "ordering" if it orders
  Queries        \* the query parameters requests carry: partial functions

(* RestCacheMeta.get_default_detail_action: what an option not written     *)
(* means, for a detail and for a list action.                              *)
get_default_detail_action(detail) ==
  [ query_params |-> ~detail,
    cache_fields |-> IF detail THEN {} ELSE NULL,
    by_user      |-> FALSE,
    is_paginate  |-> ~detail,
    detail_field |-> NULL ]

(* RestCacheMeta.get_cache_fields: the query parameters that tell one list *)
(* response from another.                                                  *)
get_cache_fields(is_paginate) ==
  FilterFields \cup (IF is_paginate THEN {"page", "count"} ELSE {})

(* RestCacheMeta.parse_cache_config, for one action: written options over  *)
(* the defaults; a list action that names no cache_fields gets the computed*)
(* ones, and loses query_params when there are none.                       *)
parse_cache_config(a) ==
  LET raw    == ViewConfig[a]
      cfg    == raw.opts @@ [detail_field |-> raw.lookup]
                         @@ get_default_detail_action(raw.detail)
      fields == get_cache_fields(cfg.is_paginate)
      final  == IF ~raw.detail /\ cfg.cache_fields = NULL
                THEN [cfg EXCEPT !.cache_fields = fields,
                                 !.query_params = @ /\ fields # {}]
                ELSE cfg
  IN  [ detail       |-> raw.detail,
        by_user      |-> final.by_user,
        query_params |-> final.query_params,
        cache_fields |-> final.cache_fields,
        detail_field |-> final.detail_field ]

(* VIEWSET_CACHE_CONFIG, the registry the metaclass fills.                 *)
Cfg == [a \in Actions |-> parse_cache_config(a)]

(* RestCacheMeta.get_query_params_encode: the part of the key that depends *)
(* on the query; it looks at cache_fields only, never at query_params.     *)
get_query_params_encode(q, cfg) ==
  IF cfg.cache_fields = {} THEN NULL
  ELSE [f \in cfg.cache_fields |-> IF f \in DOMAIN q THEN q[f] ELSE NULL]

(* RestCacheKey.get_rest_cache_key.                                        *)
get_rest_cache_key(a, detail_id, user_id, code) ==
  [ action |-> a,
    row    |-> IF Cfg[a].detail THEN detail_id ELSE NULL,
    user   |-> IF Cfg[a].by_user THEN user_id ELSE NULL,
    code   |-> code ]

(* Mutant: the id and the user of a key change places.                     *)
clear_target_swapped(a, o, u) ==
  [ key |-> get_rest_cache_key(a, u, o, NULL), is_pattern |-> Cfg[a].query_params ]

(* The (key, is_pattern) pair the model builds to clear action a for the   *)
(* object o of user u: never a code, a pattern when query_params is set.   *)
clear_target(a, o, u) ==
  [ key        |-> get_rest_cache_key(a, o, u, NULL),
    is_pattern |-> Cfg[a].query_params ]

(* Mutant: a pattern is deleted as if it were a key.                       *)
clears_exactly(t, k) == k = t.key

(* RestCacheKey.clear_cache: the keys a target removes.  The glob "<key>*" *)
(* also removes the keys of a longer id that starts with the same digits;  *)
(* that is an eviction of an unrelated key and Expire below covers it.     *)
clears(t, k) ==
  IF t.is_pattern THEN [k EXCEPT !.code = NULL] = t.key ELSE k = t.key

(* Cached by query parameters but cleared by exact name: keys that carry a *)
(* code are out of clear_cache's reach.                                    *)
EveryCodeCleared ==
  \A a \in Actions : Cfg[a].cache_fields # {} => Cfg[a].query_params
===========================================================================
