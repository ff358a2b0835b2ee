------------------------------ MODULE ErrorLog ------------------------------
(***************************************************************************)
(* The log of failed requests (qx_core/middleware.py ErrorLogMiddleware)   *)
(* around the views and their exception handler (qx_rest/handlers.py).     *)
(* One object of the middleware serves all the threads of a process, and   *)
(* keeps the body of a request in an attribute of its own.                 *)
(***************************************************************************)
EXTENDS Integers

CONSTANTS
  NULL,
  Threads,
  Bodies

VARIABLES
  _initial_http_body,  \* the attribute, NULL when it is not there yet
  request,             \* [Threads -> the request]
  logged               \* [Threads -> the bodies that were logged for the request]

vars == <<_initial_http_body, request, logged>>

(* json: its content type is one whose body is kept; api: its path is      *)
(* below /api/; raced: another request set the attribute since.            *)
HttpRequests == [pc : {"view", "response", "call", "done"}, json : BOOLEAN, api : BOOLEAN,
                 body : Bodies, status : {200, 400, 401, 404, 500}, raced : BOOLEAN]

Nothing == [pc |-> "done", json |-> FALSE, api |-> FALSE, body |-> CHOOSE b \in Bodies : TRUE,
            status |-> 200, raced |-> FALSE]

Goes(t, pc) == request' = [request EXCEPT ![t] = [request[t] EXCEPT !.pc = pc]]

Init ==
  /\ _initial_http_body = NULL
  /\ request = [t \in Threads |-> Nothing]
  /\ logged = [t \in Threads |-> {}]

(* Mutant: the body is not kept.                                           *)
ProcessRequestOnly(t, json, api, body) ==
  /\ request[t].pc = "done"
  /\ request' = [s \in Threads |->
       IF s = t THEN [pc |-> "view", json |-> json, api |-> api, body |-> body,
                      status |-> 200, raced |-> FALSE]
       ELSE [request[s] EXCEPT !.raced = json \/ request[s].raced]]
  /\ logged' = [logged EXCEPT ![t] = {}]
  /\ UNCHANGED _initial_http_body

ProcessRequest(t, json, api, body) ==
  /\ request[t].pc = "done"
  /\ _initial_http_body' = IF json THEN body ELSE _initial_http_body
  /\ request' = [s \in Threads |->
       IF s = t THEN [pc |-> "view", json |-> json, api |-> api, body |-> body,
                      status |-> 200, raced |-> FALSE]
       ELSE [request[s] EXCEPT !.raced = json \/ request[s].raced]]
  /\ logged' = [logged EXCEPT ![t] = {}]

(* rest_exception_handler: nearly every error of the interface answers 200 *)
(* with a code of its own, and what it does not know becomes a 500.        *)
Status == [success |-> 200, api_exception |-> 200, permission_denied |-> 200,
           expired |-> 200, disabled |-> 200, field_error |-> 200,
           authentication_failed |-> 401, not_authenticated |-> 401, not_found |-> 404,
           signature |-> 400, exception |-> 500]

View(t, outcome) ==
  /\ request[t].pc = "view"
  /\ request' = [request EXCEPT ![t] =
       [request[t] EXCEPT !.pc = "response", !.status = Status[outcome]]]
  /\ UNCHANGED <<_initial_http_body, logged>>

Logs(t) == logged' = [logged EXCEPT ![t] = logged[t] \cup {_initial_http_body}]

(* Mutant: a server's error is logged, by the caller, for any path.        *)
CallAny(t) ==
  LET r == request[t] IN
  /\ r.pc = "call"
  /\ Goes(t, "done")
  /\ IF r.json /\ r.status >= 500 THEN Logs(t) ELSE UNCHANGED logged
  /\ UNCHANGED _initial_http_body

(* process_response: the errors of clients.                                *)
ProcessResponse(t) ==
  LET r == request[t] IN
  /\ r.pc = "response"
  /\ Goes(t, "call")
  /\ IF r.json /\ r.api /\ r.status >= 400 /\ r.status < 500 THEN Logs(t) ELSE UNCHANGED logged
  /\ UNCHANGED _initial_http_body

(* __call__: the errors of the server, which are answered like any other.  *)
Call(t) ==
  LET r == request[t] IN
  /\ r.pc = "call"
  /\ Goes(t, "done")
  /\ IF r.json /\ r.api /\ r.status >= 500 THEN Logs(t) ELSE UNCHANGED logged
  /\ UNCHANGED _initial_http_body

Next ==
  \E t \in Threads :
    \/ \E json, api \in BOOLEAN, body \in Bodies : ProcessRequest(t, json, api, body)
    \/ \E outcome \in DOMAIN Status : View(t, outcome)
    \/ ProcessResponse(t) \/ Call(t)

Spec == Init /\ [][Next]_vars

-----------------------------------------------------------------------------
(* Every variable has its type.                                            *)
TypeOK ==
  /\ _initial_http_body \in Bodies \cup {NULL}
  /\ request \in [Threads -> HttpRequests]
  /\ logged \in [Threads -> SUBSET Bodies]

(* A failed request is logged, and only if it is one of the interface with *)
(* a body to show; the body in the log is its own, unless another request  *)
(* with a body started before it was logged.                               *)
LogsOwnBody ==
  \A t \in Threads :
    LET r == request[t] IN
    r.pc = "done" =>
      /\ (logged[t] # {}) = (r.json /\ r.api /\ r.status >= 400)
      /\ logged[t] # {} => logged[t] = {r.body} \/ r.raced
==============================================================================
