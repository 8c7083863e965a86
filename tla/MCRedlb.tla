------------------------------- MODULE MCRedlb ------------------------------
EXTENDS Redlb, TLC

CONSTANTS l1, l2, l3, s, i, x

Registration(id, port) ==
    [service |-> s, ip |-> i, grpc |-> port, http |-> Nothing, id |-> id, pid |-> Nothing]

\* An instance, its successor with the same id, and one without a port.
Requests == l1 :> Registration(x, 9988) @@ l2 :> Registration(x, 65535)
            @@ l3 :> Registration(x, 0)
=============================================================================
