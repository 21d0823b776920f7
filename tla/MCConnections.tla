--------------------------- MODULE MCConnections ---------------------------
EXTENDS Connections
CONSTANTS a, b
MCNodes == {a, b}
Setup(r, k) == [reach |-> r, keyed |-> k]
\* Both can be reached, or one; and one whose key file is missing at first.
MCSetups == {Setup({a, b}, {a, b}), Setup({a}, {a, b}), Setup({a, b}, {a})}
=============================================================================
