----------------------------- MODULE MCSessions -----------------------------
(* Sessions with two keys, two actions, and scopes that run out both ways. *)
EXTENDS Sessions, TLC

CONSTANTS move, attack

\* One operation for a long time, two for a short time, and an empty scope.
SomeScopes ==
    {[allowed_actions |-> {move}, max_operations |-> 1, expires_at |-> 2],
     [allowed_actions |-> {move, attack}, max_operations |-> 2, expires_at |-> 1],
     [allowed_actions |-> {}, max_operations |-> 1, expires_at |-> 1]}
=============================================================================
