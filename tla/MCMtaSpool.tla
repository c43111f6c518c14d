----------------------------- MODULE MCMtaSpool -----------------------------
(* Two recipients in one or in two virtual queues. *)
EXTENDS MtaSpool, TLC

CONSTANTS r1, r2, qa, qb

Apart == {(r1 :> qa) @@ (r2 :> qb)}
Together == {[r \in Rcpts |-> q] : q \in Queues}
Either == Apart \cup Together
OneHome == {[r \in Rcpts |-> qa]}
Stay == (r1 :> {}) @@ (r2 :> {})
Move == (r1 :> {qb}) @@ (r2 :> {})
TtlAndAttempts == (qa :> [kind |-> "attempts", n |-> 2]) @@ (qb :> [kind |-> "ttl", n |-> 1])
TtlBoth == (qa :> [kind |-> "ttl", n |-> 1]) @@ (qb :> [kind |-> "ttl", n |-> 1])
=============================================================================
