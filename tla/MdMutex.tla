------------------------------ MODULE MdMutex ------------------------------
(***************************************************************************)
(* What the metadata mutex service promises its users: a name is granted   *)
(* to one user at a time, a grant lasts until its user gives it back, and  *)
(* whatever was asked for is answered.  Neither the connections nor the    *)
(* server's table appear here; MdMutexTable and MdMutexHash implement it.  *)
(***************************************************************************)
CONSTANTS Client, Name, NoName

VARIABLES
  phase,  \* how far the current lock/unlock cycle of each user has got
  on      \* the name that cycle is about

vars == <<phase, on>>

Phase == {"out", "asking", "granted", "refused", "held", "releasing", "released"}

\* From the grant to the release the name belongs to the user, although the
\* user itself only knows between the two answers.
Owning == {"granted", "held", "releasing"}

Init == /\ phase = [c \in Client |-> "out"]
        /\ on = [c \in Client |-> NoName]

Move(c, from, to) == /\ phase[c] = from
                     /\ phase' = [phase EXCEPT ![c] = to]

Ask(c, f) == /\ Move(c, "out", "asking")
             /\ on' = [on EXCEPT ![c] = f]

Grant(c) == /\ Move(c, "asking", "granted")
            /\ \A d \in Client : on[d] = on[c] => phase[d] \notin Owning
            /\ UNCHANGED on

Refuse(c) == Move(c, "asking", "refused") /\ UNCHANGED on

Learn(c) == /\ \/ Move(c, "granted", "held")
               \/ Move(c, "refused", "out")
               \/ Move(c, "released", "out")
            /\ UNCHANGED on

Surrender(c) == Move(c, "held", "releasing") /\ UNCHANGED on

Release(c) == Move(c, "releasing", "released") /\ UNCHANGED on

Next == \E c \in Client :
          \/ \E f \in Name : Ask(c, f)
          \/ Grant(c) \/ Refuse(c) \/ Learn(c)
          \/ Surrender(c) \/ Release(c)

\* A release is carried out and every answer arrives.  A grant is not
\* promised: pthread mutexes are not fair.
Fairness == \A c \in Client : WF_vars(Learn(c)) /\ WF_vars(Release(c))

Spec == Init /\ [][Next]_vars /\ Fairness
=============================================================================
