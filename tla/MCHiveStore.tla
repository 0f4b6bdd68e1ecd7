----------------------------- MODULE MCHiveStore -----------------------------
\* A claim, soon expired, and the claim that replaces it.
EXTENDS HiveStore

first == [n |-> 1, writer |-> "w", d |-> "a", created |-> 1, status |-> "active", exp |-> 1]
second == [n |-> 2, writer |-> "w", d |-> "a", created |-> 2, status |-> "active", exp |-> 0]

TwoClaims == {first, second}
OldClaim == {first}
=============================================================================
