-------------------------- MODULE MCPostgresSchema --------------------------
(* An instance of PostgresSchema for TLC. *)
EXTENDS PostgresSchema, TLC

CONSTANTS app, reader, other,    \* backends: the second one only validates
          t1, t2, t3, t4,        \* two calls on the first, one on each other
          narrow, wide           \* contracts

AppHome == t1 :> app @@ t2 :> app @@ t3 :> reader @@ t4 :> other
TheirWants == app :> narrow @@ reader :> narrow @@ other :> wide
TheDim == narrow :> 3 @@ wide :> 4
=============================================================================
