------------------------------ MODULE MCQueue ------------------------------
(* Small instances of IoQueue for TLC. *)
EXTENDS IoQueue

CONSTANTS Reader, Writer, Remover,  \* the clients that make each kind of request
          Updater                   \* the hosts that update their replica

Requests == [c \in Client |-> {k \in IO_Type : \/ k = "READ" /\ c \in Reader
                                               \/ k = "WRITE" /\ c \in Writer
                                               \/ k = "REMOVE" /\ c \in Remover}]

Hosts == [c \in Client |-> IF c \in Updater THEN c ELSE Nobody]

\* Bound: a client makes one request a second at most.
BoundedSpec ==
  Init /\ [][/\ Next
             /\ \A c \in Client : pc[c] = "idle" /\ pc'[c] = "enq_get" =>
                  arrive_time[c] < now]_vars
=============================================================================
