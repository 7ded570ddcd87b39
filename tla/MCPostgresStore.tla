-------------------------- MODULE MCPostgresStore --------------------------
(***************************************************************************)
(* PostgresStore for TLC: two streams and the batches that matter for them.*)
(***************************************************************************)
EXTENDS PostgresStore

CONSTANTS s1, s2

W(s, n) == [stream |-> s, n |-> n]

\* One stream; several events; two streams in either order; malformed; empty.
AllShapes == {<<W(s1, 1)>>, <<W(s1, 2), W(s2, 1)>>, <<W(s2, 1), W(s1, 1)>>,
              <<W(s1, 1), W(s1, 1)>>, << >>}
=============================================================================
