------------------------------ MODULE MCSuper ------------------------------
(* A small instance of SuperNode for TLC. *)
EXTENDS SuperNode

CONSTANTS c1, c2, c3

\* What the clients send: sn_cli's own message, another about the same file,
\* and one about a file whose name xmlNewChild cannot write.
Messages ==
  [c \in Client |->
     [type |-> IF c = c1 THEN "M" ELSE "N", dest_ip |-> "127.0.0.1",
      file_name |-> IF c = c3 THEN "a&b" ELSE "some might say.mp3"]]
Names == {"a&b"}
=============================================================================
