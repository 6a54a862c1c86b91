----------------------------- MODULE MCSession ------------------------------
\* SessionChecker with two clients, of two sessions, one of which owns a
\* well-known name, and two seats.
EXTENDS SessionChecker, TLC

CONSTANTS plain, owner, s1, s2

\* No seat has a part of its own.
Seats == Permutations(Seat)

OneEach == (plain :> s1) @@ (owner :> s2)
=============================================================================
