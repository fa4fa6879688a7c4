------------------------------ MODULE IoTurns ------------------------------
(***************************************************************************)
(* What queueing promises the processes that do I/O on one file: they take *)
(* turns, in the order in which they joined the queue, one at a time, and  *)
(* nobody waits for ever unless the file is removed meanwhile.             *)
(***************************************************************************)
EXTENDS Naturals, Sequences

CONSTANTS Client, Nobody

VARIABLES
  queue,  \* the clients that have joined and not left, the first one foremost
  turn,   \* whose turn it is
  gone    \* whether the file has been removed

vars == <<queue, turn, gone>>

Init == queue = <<>> /\ turn = Nobody /\ gone = FALSE

Join(c) == /\ ~gone
           /\ \A i \in 1 .. Len(queue) : queue[i] # c
           /\ queue' = Append(queue, c)
           /\ UNCHANGED <<turn, gone>>

Begin(c) == /\ turn = Nobody
            /\ queue # <<>>
            /\ Head(queue) = c
            /\ turn' = c
            /\ UNCHANGED <<queue, gone>>

End(c) == /\ turn = c
          /\ turn' = Nobody
          /\ queue' = Tail(queue)
          /\ UNCHANGED gone

\* The client whose turn it is removes the file; the others are sent away.
Remove(c) == /\ turn = c
             /\ turn' = Nobody
             /\ queue' = <<>>
             /\ gone' = TRUE

Next == \E c \in Client : Join(c) \/ Begin(c) \/ End(c) \/ Remove(c)

Fairness == \A c \in Client : WF_vars(Begin(c)) /\ WF_vars(End(c) \/ Remove(c))

Spec == Init /\ [][Next]_vars /\ Fairness
=============================================================================
