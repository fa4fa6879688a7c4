------------------------- MODULE MdMutexTable_proofs -------------------------
(***************************************************************************)
(* Proofs about the table server, for every number of users, files and     *)
(* slots.  Types and the uniqueness of taken slots hold whatever the users *)
(* do; mutual exclusion when all are careful, although any may die, from   *)
(* the invariant Surviving; the exact account of the table, and that every *)
(* step is one of the service MdMutex, when none dies, from Consistent.    *)
(*                                                                         *)
(* Every step is one user's: the fields of the other users stay as they    *)
(* are, and the user itself is followed through its call, action by        *)
(* action.                                                                 *)
(***************************************************************************)
EXTENDS MdMutexTable, MdMutexCall_proofs, FiniteSetTheorems

USE DEF Client, Name, Op, ConnState, ThreadStep, callVars, tableVars, vars

-----------------------------------------------------------------------------
(* The table's variables keep their types *)

LEMMA TypeStep == ASSUME TypeOK, [Next]_vars PROVE TypeOK'
<1>1. CASE UNCHANGED vars
  BY <1>1 DEF TypeOK, CallTypeOK
<1>2. ASSUME NEW c \in Client, CallStep(c) PROVE TypeOK'
  BY <1>2, CallTypeStep DEF CallStep, TypeOK
<1>3. ASSUME NEW c \in Client, ThreadStepOf(c) PROVE TypeOK'
  <2> USE TableAssumption DEF TypeOK, CallTypeOK, Step, Slot, NoSlot
  <2>1. ASSUME NEW s \in Slot, GetMatch(c, s) \/ GetFree(c, s) PROVE TypeOK'
    <3>1. Operate(op[c]) \in {"lock", "try", "unlock"}
      BY OperateType
    <3>2. count' \in [Slot -> Int] /\ fname' \in [Slot -> Name]
      BY <2>1 DEF GetMatch, GetFree
    <3>3. Found(c, s)
      BY <2>1 DEF GetMatch, GetFree
    <3> QED BY <3>1, <3>2, <3>3 DEF Found
  <2>2. CASE GetNone(c)
    BY <2>2 DEF GetNone
  <2>3. CASE GetAbort(c)
    BY <2>3 DEF GetAbort
  <2>4. CASE Lock(c)
    BY <2>4 DEF Lock
  <2>5. CASE TryOk(c)
    BY <2>5 DEF TryOk
  <2>6. CASE TryFail(c)
    BY <2>6 DEF TryFail
  <2>7. CASE Unlock(c)
    BY <2>7 DEF Unlock
  <2>8. CASE Put(c)
    <3>1. count' = [r \in Slot |-> IF r = slot[c] THEN count[r] - 1 ELSE count[r]]
      BY <2>8 DEF Put
    <3>2. count' \in [Slot -> Int]
      BY <3>1
    <3> QED BY <2>8, <3>2 DEF Put
  <2>9. CASE Reply(c)
    BY <2>9 DEF Reply
  <2> QED
    BY <1>3, <2>1, <2>2, <2>3, <2>4, <2>5, <2>6, <2>7, <2>8, <2>9 DEF ThreadStepOf
<1> QED BY <1>1, <1>2, <1>3 DEF Next

LEMMA TypeInit == Init => TypeOK
  BY TableAssumption DEF Init, CallInit, TypeOK, CallTypeOK, Slot, NoSlot

(* Whatever the users do, slot and count are only ever set to a slot of    *)
(* the table and to an integer (get_z_mutex, put_z_mutex).                 *)
THEOREM TypeCorrect == Spec => []TypeOK
  BY TypeInit, TypeStep, PTL DEF Spec

-----------------------------------------------------------------------------
(* get_z_mutex never makes a second slot of a name, whoever calls it: the  *)
(* search and the taking of a slot are one step, a match only raises a     *)
(* count that is positive already, and put_z_mutex only lowers one.        *)
LEMMA UniqueStep == ASSUME TypeOK, UniqueTaken, [Next]_vars PROVE UniqueTaken'
<1> USE DEF TypeOK, UniqueTaken
<1>1. CASE UNCHANGED <<count, fname>>
  BY <1>1
<1>2. ASSUME NEW c \in Client, NEW s \in Slot, GetMatch(c, s) PROVE UniqueTaken'
  BY <1>2 DEF GetMatch
<1>3. ASSUME NEW c \in Client, NEW s \in Slot, GetFree(c, s) PROVE UniqueTaken'
  <2>1. \A r \in Slot : count[r] > 0 => fname[r] # file[c]
    BY <1>3 DEF GetFree, Stops
  <2>2. /\ count' = [count EXCEPT ![s] = 1]
        /\ fname' = [fname EXCEPT ![s] = file[c]]
    BY <1>3 DEF GetFree
  <2> QED BY <2>1, <2>2
<1>4. ASSUME NEW c \in Client, Put(c) PROVE UniqueTaken'
  <2>1. fname' = fname /\ \A r \in Slot : count'[r] > 0 => count[r] > 0
    BY <1>4 DEF Put
  <2> QED BY <2>1
<1> QED
  BY <1>1, <1>2, <1>3, <1>4
     DEF Next, CallStep, ThreadStepOf, GetNone, GetAbort, Lock, TryOk, TryFail,
         Unlock, Reply

(* A name never has two taken slots, whatever the users do.                *)
THEOREM TakenOnce == Spec => []UniqueTaken
<1>1. Init => UniqueTaken
  BY DEF Init, UniqueTaken
<1>2. TypeOK /\ UniqueTaken /\ [Next]_vars => UniqueTaken'
  BY UniqueStep
<1> QED BY <1>1, <1>2, TypeCorrect, PTL DEF Spec

-----------------------------------------------------------------------------
(* Users of a slot *)

LEMMA NotASlot == NoSlot \notin Slot
  BY TableAssumption DEF Slot, NoSlot

LEMMA UsersFinite == ASSUME NEW s
                     PROVE  IsFiniteSet(Users(s)) /\ Cardinality(Users(s)) \in Nat
<1>1. Users(s) \subseteq Client
  BY DEF Users
<1> QED BY <1>1, CallAssumption, FS_Subset, FS_CardinalityType

\* A slot somebody uses has a positive count.
LEMMA CountPositive ==
  ASSUME TypeOK, NoEarlyFree
  PROVE  /\ \A s \in Slot : count[s] >= 0
         /\ \A s \in Slot : count[s] = 0 => Users(s) = {}
         /\ \A c \in Client : slot[c] # NoSlot =>
              slot[c] \in Slot /\ count[slot[c]] > 0
<1>1. \A s \in Slot : count[s] \in Int /\ count[s] >= Cardinality(Users(s))
  BY DEF TypeOK, NoEarlyFree
<1>2. \A s : Cardinality(Users(s)) \in Nat
  BY UsersFinite
<1>3. \A s : Cardinality(Users(s)) = 0 => Users(s) = {}
  BY UsersFinite, FS_EmptySet
<1>4. \A s \in Slot : count[s] >= 0 /\ (count[s] = 0 => Users(s) = {})
  BY <1>1, <1>2, <1>3
<1>5. \A c \in Client : slot[c] # NoSlot =>
        slot[c] \in Slot /\ c \in Users(slot[c])
  BY DEF TypeOK, Users
<1> QED BY <1>1, <1>4, <1>5

-----------------------------------------------------------------------------
(* Taking and giving slots *)

LEMMA UsersTake ==
  ASSUME TypeOK, NEW c \in Client, NEW s, slot' = [slot EXCEPT ![c] = s]
  PROVE  /\ Users(s)' = Users(s) \cup {c}
         /\ \A r : r # s => Users(r)' = Users(r) \ {c}
  BY DEF Users, TypeOK

LEMMA CardTake ==
  ASSUME NEW c \in Client, NEW s
  PROVE  /\ Cardinality(Users(s) \cup {c}) \in Nat
         /\ Cardinality(Users(s) \cup {c}) <= Cardinality(Users(s)) + 1
         /\ c \notin Users(s) =>
              Cardinality(Users(s) \cup {c}) = Cardinality(Users(s)) + 1
<1>1. CASE c \in Users(s)
  <2>1. Users(s) \cup {c} = Users(s)
    BY <1>1
  <2> QED BY <1>1, <2>1, UsersFinite
<1>2. CASE c \notin Users(s)
  BY <1>2, UsersFinite, FS_AddElement
<1> QED BY <1>1, <1>2

LEMMA CardGive ==
  ASSUME NEW c \in Client, NEW s
  PROVE  /\ Cardinality(Users(s) \ {c}) \in Nat
         /\ Cardinality(Users(s) \ {c}) <= Cardinality(Users(s))
         /\ c \in Users(s) =>
              Cardinality(Users(s) \ {c}) = Cardinality(Users(s)) - 1
<1>1. CASE c \in Users(s)
  <2>1. /\ Cardinality(Users(s)) \in Nat
        /\ IsFiniteSet(Users(s) \ {c})
        /\ Cardinality(Users(s) \ {c}) = Cardinality(Users(s)) - 1
    BY <1>1, UsersFinite, FS_RemoveElement
  <2>2. Cardinality(Users(s) \ {c}) \in Nat
    BY <2>1, FS_CardinalityType
  <2> QED BY <2>1, <2>2
<1>2. CASE c \notin Users(s)
  <2>1. Users(s) \ {c} = Users(s)
    BY <1>2
  <2> QED BY <1>2, <2>1, UsersFinite
<1> QED BY <1>1, <1>2

\* get_z_mutex: the slot taken gains at most one user, the others none.
LEMMA TakeSlot ==
  ASSUME TypeOK, NEW c \in Client, NEW s \in Slot,
         slot' = [slot EXCEPT ![c] = s],
         count' = [count EXCEPT ![s] = count[s] + 1]
  PROVE  /\ NoEarlyFree => NoEarlyFree'
         /\ RefCount /\ slot[c] = NoSlot => RefCount'
<1>1. /\ Users(s)' = Users(s) \cup {c}
      /\ \A r \in Slot \ {s} : Users(r)' = Users(r) \ {c}
  BY UsersTake
<1>2. /\ count'[s] = count[s] + 1
      /\ \A r \in Slot \ {s} : count'[r] = count[r]
      /\ \A r \in Slot : count[r] \in Int
  BY DEF TypeOK
<1>3. ASSUME NoEarlyFree PROVE NoEarlyFree'
  <2>1. count'[s] >= Cardinality(Users(s)')
    <3>1. count[s] >= Cardinality(Users(s)) /\ Cardinality(Users(s)) \in Nat
      BY <1>3, UsersFinite DEF NoEarlyFree
    <3> QED BY <1>1, <1>2, <3>1, CardTake
  <2>2. ASSUME NEW r \in Slot \ {s} PROVE count'[r] >= Cardinality(Users(r)')
    <3>1. count[r] >= Cardinality(Users(r)) /\ Cardinality(Users(r)) \in Nat
      BY <1>3, UsersFinite DEF NoEarlyFree
    <3>2. /\ Cardinality(Users(r) \ {c}) \in Nat
          /\ Cardinality(Users(r) \ {c}) <= Cardinality(Users(r))
      BY CardGive
    <3>3. Users(r)' = Users(r) \ {c} /\ count'[r] = count[r] /\ count[r] \in Int
      BY <1>1, <1>2
    <3> QED BY <3>1, <3>2, <3>3
  <2> QED BY <2>1, <2>2 DEF NoEarlyFree
<1>4. ASSUME RefCount, slot[c] = NoSlot PROVE RefCount'
  <2>1. \A r \in Slot : c \notin Users(r)
    BY <1>4, NotASlot DEF Users
  <2>2. count'[s] = Cardinality(Users(s)')
    BY <1>1, <1>2, <1>4, <2>1, CardTake DEF RefCount
  <2>3. \A r \in Slot \ {s} : count'[r] = Cardinality(Users(r)')
    <3>1. \A r \in Slot \ {s} : Users(r)' = Users(r)
      BY <1>1, <2>1
    <3> QED BY <1>2, <1>4, <3>1 DEF RefCount
  <2> QED BY <2>2, <2>3 DEF RefCount
<1> QED BY <1>3, <1>4

\* put_z_mutex: the slot loses its user.
LEMMA GiveSlot ==
  ASSUME TypeOK, NEW c \in Client, NEW s \in Slot, slot[c] = s,
         slot' = [slot EXCEPT ![c] = NoSlot],
         count' = [count EXCEPT ![s] = count[s] - 1]
  PROVE  /\ NoEarlyFree => NoEarlyFree'
         /\ RefCount => RefCount'
<1>1. \A r \in Slot : Users(r)' = Users(r) \ {c}
  BY UsersTake, NotASlot
<1>2. c \in Users(s) /\ \A r \in Slot \ {s} : c \notin Users(r)
  BY DEF Users
<1>3. \A r \in Slot \ {s} : Users(r)' = Users(r)
  BY <1>1, <1>2
<1>4. Cardinality(Users(s) \ {c}) = Cardinality(Users(s)) - 1
  BY <1>2, CardGive
<1>5. /\ count'[s] = count[s] - 1
      /\ \A r \in Slot \ {s} : count'[r] = count[r]
      /\ count[s] \in Int /\ Cardinality(Users(s)) \in Nat
  BY UsersFinite DEF TypeOK
<1>6. Users(s)' = Users(s) \ {c}
  BY <1>1
<1>7. ASSUME NoEarlyFree PROVE NoEarlyFree'
  <2>1. count[s] >= Cardinality(Users(s))
    BY <1>7 DEF NoEarlyFree
  <2>2. count'[s] >= Cardinality(Users(s)')
    BY <1>4, <1>5, <1>6, <2>1
  <2> QED BY <1>3, <1>5, <1>7, <2>2 DEF NoEarlyFree
<1>8. ASSUME RefCount PROVE RefCount'
  <2>1. count'[s] = Cardinality(Users(s)')
    BY <1>4, <1>5, <1>6, <1>8 DEF RefCount
  <2> QED BY <1>3, <1>5, <1>8, <2>1 DEF RefCount
<1> QED BY <1>7, <1>8

\* A user that loses its slot without put_z_mutex leaves the counts alone.
LEMMA DropSlot ==
  ASSUME TypeOK, NoEarlyFree, NEW c \in Client,
         slot' = [slot EXCEPT ![c] = NoSlot], count' = count
  PROVE  NoEarlyFree'
<1>1. \A s \in Slot : Users(s)' = Users(s) \ {c}
  BY UsersTake, NotASlot
<1>2. ASSUME NEW s \in Slot PROVE count'[s] >= Cardinality(Users(s)')
  <2>1. count[s] >= Cardinality(Users(s)) /\ Cardinality(Users(s)) \in Nat
    BY UsersFinite DEF NoEarlyFree
  <2>2. /\ Cardinality(Users(s) \ {c}) \in Nat
        /\ Cardinality(Users(s) \ {c}) <= Cardinality(Users(s))
    BY CardGive
  <2>3. count'[s] = count[s] /\ count[s] \in Int
    BY DEF TypeOK
  <2>4. Users(s)' = Users(s) \ {c}
    BY <1>1
  <2> QED BY <2>1, <2>2, <2>3, <2>4
<1> QED BY <1>2 DEF NoEarlyFree

-----------------------------------------------------------------------------
(* What is left to show of a step of c *)

Same(d) == SameCall(d) /\ slot'[d] = slot[d]

LEMMA Others ==
  ASSUME NEW d \in Client, Same(d), Aligned(d), OnTask(d), HasSlot(d),
         slot[d] # NoSlot => fname'[slot[d]] = fname[slot[d]]
  PROVE  Aligned(d)' /\ OnTask(d)' /\ HasSlot(d)'
<1>1. Owns(d)' <=> Owns(d)
  BY SameOwns DEF Same
<1>2. HasSlot(d)'
  BY <1>1 DEF HasSlot, Same, SameCall
<1> QED BY <1>2, SameKept DEF Same

\* Locks and owners still agree when c loses a name, and no owner its lock.
LEMMA OwnersKept ==
  ASSUME OwnersLocked, NEW c \in Client, \A d \in Client \ {c} : Same(d),
         Owns(c)' => Owns(c) /\ slot'[c] = slot[c],
         \A d \in Client : Owns(d)' => locked'[slot[d]] = locked[slot[d]]
  PROVE  OwnersLocked'
<1>1. \A d \in Client : Owns(d)' => Owns(d) /\ slot'[d] = slot[d]
  BY SameOwns DEF Same
<1> QED BY <1>1 DEF OwnersLocked

LEMMA Assemble ==
  ASSUME TypeOK, Surviving, UniqueTaken', NEW c \in Client, up',
         \A d \in Client \ {c} : Same(d),
         \A d \in Client \ {c} :
           slot[d] # NoSlot => fname'[slot[d]] = fname[slot[d]],
         Aligned(c)' /\ OnTask(c)' /\ HasSlot(c)',
         NoEarlyFree', OwnersLocked'
  PROVE  Surviving'
<1>1. ASSUME NEW d \in Client \ {c}
      PROVE  Aligned(d)' /\ OnTask(d)' /\ HasSlot(d)'
  BY <1>1, Others DEF Surviving
<1> QED BY <1>1 DEF Surviving

LEMMA CountsKept ==
  ASSUME UNCHANGED <<count, slot>>
  PROVE  (NoEarlyFree => NoEarlyFree') /\ (RefCount => RefCount')
  BY DEF NoEarlyFree, RefCount, Users

\* A step of c that touches neither the table nor its slot, and after which
\* c owns no more than before.
LEMMA SilentStep ==
  ASSUME TypeOK, Surviving, UniqueTaken', NEW c \in Client, up',
         \A d \in Client \ {c} : Same(d),
         UNCHANGED tableVars,
         Aligned(c)' /\ OnTask(c)' /\ HasSlot(c)',
         Owns(c)' => Owns(c)
  PROVE  Surviving'
<1>1. OwnersLocked'
  BY OwnersKept DEF Surviving
<1>2. NoEarlyFree'
  BY CountsKept DEF Surviving
<1> QED BY <1>1, <1>2, Assemble

-----------------------------------------------------------------------------
(* The steps, one by one *)

LEMMA CallSurvives ==
  ASSUME AllCareful, TypeOK, Surviving, UniqueTaken',
         NEW c \in Client, CallStep(c)
  PROVE  Surviving'
<1>1. up /\ Aligned(c) /\ OnTask(c) /\ HasSlot(c) /\ UNCHANGED tableVars
  BY DEF Surviving, CallStep
<1>2. up' /\ Onwards(c) /\ \A d \in Client \ {c} : SameCall(d)
  BY <1>1, CallStepFacts DEF CallStep, TypeOK
<1>3. \A d \in Client \ {c} : Same(d)
  BY <1>1, <1>2 DEF Same
<1>4. HasSlot(c)'
  BY <1>1, <1>2 DEF HasSlot, Onwards
<1> QED BY <1>1, <1>2, <1>3, <1>4, SilentStep DEF Onwards

\* What every step of a thread but the exit of the server has in common.
LEMMA ThreadFacts ==
  ASSUME TypeOK, Surviving, NEW c \in Client, NEW from, NEW to,
         Step(c, from, to), from # "none"
  PROVE  /\ up /\ th[c] = from /\ th'[c] = to
         /\ conn[c] = "taken" /\ pc[c] \in {"waiting", "dead"} /\ cs[c] # "held"
         /\ UNCHANGED <<pc, cs, op, file>>
         /\ \A d \in Client \ {c} : th'[d] = th[d]
         /\ Aligned(c) /\ OnTask(c) /\ HasSlot(c)
  BY StepFacts DEF TypeOK, Surviving

\* An unlock finds the slot of its user, and finds it first.
LEMMA OwnSlotStops ==
  ASSUME TypeOK, Surviving, NEW c \in Client, Owns(c)
  PROVE  /\ slot[c] \in Slot /\ Stops(c, slot[c])
         /\ \A s \in Slot : Stops(c, s) => s = slot[c]
<1>1. /\ slot[c] \in Slot /\ count[slot[c]] > 0 /\ fname[slot[c]] = file[c]
      /\ \A s \in Slot : count[s] >= 0
  BY CountPositive DEF Surviving, HasSlot
<1>2. \A s \in Slot : Stops(c, s) => count[s] > 0 /\ fname[s] = file[c]
  BY <1>1 DEF Stops, TypeOK
<1> QED BY <1>1, <1>2 DEF Stops, Surviving, UniqueTaken

LEMMA GetSurvives ==
  ASSUME TypeOK, Surviving, UniqueTaken', NEW c \in Client, NEW s \in Slot,
         GetMatch(c, s) \/ GetFree(c, s)
  PROVE  Surviving'
<1> USE DEF TypeOK, CallTypeOK
<1>0. Found(c, s) /\ Step(c, "start", Operate(op[c]))
  BY DEF GetMatch, GetFree, Found
<1>1. /\ up /\ th[c] = "start" /\ th'[c] = Operate(op[c])
      /\ conn[c] = "taken" /\ pc[c] \in {"waiting", "dead"} /\ cs[c] # "held"
      /\ UNCHANGED <<pc, cs, op, file>>
      /\ \A d \in Client \ {c} : th'[d] = th[d]
      /\ Aligned(c) /\ OnTask(c) /\ HasSlot(c)
  BY <1>0, ThreadFacts
<1>2. /\ slot' = [slot EXCEPT ![c] = s]
      /\ UNCHANGED <<conn, ok, up, locked>>
  BY <1>0 DEF Found
<1>3. \A d \in Client \ {c} : Same(d)
  BY <1>1, <1>2 DEF Same, SameCall
<1>4. th'[c] = CASE op[c] = "MD_LOCK" -> "lock"
                 [] op[c] = "MD_TRY_LOCK" -> "try"
                 [] op[c] = "MD_UNLOCK" -> "unlock"
  BY <1>1 DEF Operate
<1>5. Aligned(c)' /\ OnTask(c)'
  BY <1>1, <1>2, <1>4 DEF Aligned, OnTask, Done
<1>6. (Owns(c)' <=> Owns(c)) /\ (Owns(c) <=> op[c] = "MD_UNLOCK")
  BY <1>1, <1>2, <1>4 DEF Owns, Done
<1>7. CASE op[c] = "MD_UNLOCK"
  <2>1. GetMatch(c, s) /\ s = slot[c]
    BY <1>6, <1>7, OwnSlotStops DEF GetMatch, GetFree, FirstStop
  <2>2. UNCHANGED tableVars
    BY <1>2, <1>7, <2>1 DEF GetMatch
  <2>3. HasSlot(c)'
    BY <1>1, <1>6, <1>7, <2>2 DEF HasSlot
  <2> QED BY <1>1, <1>2, <1>3, <1>5, <1>6, <2>2, <2>3, SilentStep
<1>8. CASE op[c] # "MD_UNLOCK"
  <2>1. OwnersLocked'
    BY <1>2, <1>3, <1>6, <1>8, OwnersKept DEF Surviving
  <2>2. CASE GetMatch(c, s)
    <3>1. count' = [count EXCEPT ![s] = count[s] + 1] /\ fname' = fname
      BY <1>8, <2>2 DEF GetMatch
    <3>2. NoEarlyFree'
      BY <1>2, <3>1, TakeSlot DEF Surviving
    <3>3. fname[s] = file[c]
      BY <2>2 DEF GetMatch, FirstStop, Stops
    <3>4. HasSlot(c)'
      BY <1>1, <1>2, <3>1, <3>3, NotASlot DEF HasSlot
    <3> QED BY <1>1, <1>2, <1>3, <1>5, <2>1, <3>1, <3>2, <3>4, Assemble
  <2>3. CASE GetFree(c, s)
    <3>1. /\ count[s] = 0
          /\ count' = [count EXCEPT ![s] = count[s] + 1]
          /\ fname' = [fname EXCEPT ![s] = file[c]]
      BY <2>3 DEF GetFree, FirstFree
    <3>2. NoEarlyFree'
      BY <1>2, <3>1, TakeSlot DEF Surviving
    <3>3. HasSlot(c)'
      BY <1>1, <1>2, <3>1, NotASlot DEF HasSlot
    <3>4. \A d \in Client : slot[d] # s
      BY <3>1, CountPositive DEF Users, Surviving
    <3>5. \A d \in Client \ {c} :
            slot[d] # NoSlot => fname'[slot[d]] = fname[slot[d]]
      BY <3>1, <3>4
    <3> QED BY <1>1, <1>2, <1>3, <1>5, <2>1, <3>2, <3>3, <3>5, Assemble
  <2> QED BY <2>2, <2>3
<1> QED BY <1>7, <1>8

\* The null pointer is never for an unlock.
LEMMA NoneNotUnlock ==
  ASSUME TypeOK, Surviving, NEW c \in Client, GetNone(c)
  PROVE  op[c] # "MD_UNLOCK" /\ ~Owns(c) /\ ~Owns(c)'
<1>1. /\ th[c] = "start" /\ th'[c] = "reply"
      /\ conn[c] = "taken" /\ cs[c] # "held"
      /\ UNCHANGED <<cs, op>>
  BY ThreadFacts DEF GetNone
<1>2. ok' = [ok EXCEPT ![c] = FALSE] /\ conn' = conn
  BY DEF GetNone
<1>3. ~Owns(c)
  BY OwnSlotStops DEF GetNone
<1>4. op[c] # "MD_UNLOCK"
  BY <1>1, <1>3 DEF Owns, Done
<1> QED BY <1>1, <1>2, <1>3, <1>4 DEF Owns, Done, TypeOK, CallTypeOK

LEMMA NoneSurvives ==
  ASSUME TypeOK, Surviving, UniqueTaken', NEW c \in Client, GetNone(c)
  PROVE  Surviving'
<1> USE DEF TypeOK, CallTypeOK
<1>1. /\ up /\ th[c] = "start" /\ th'[c] = "reply"
      /\ conn[c] = "taken" /\ pc[c] \in {"waiting", "dead"} /\ cs[c] # "held"
      /\ UNCHANGED <<pc, cs, op, file>>
      /\ \A d \in Client \ {c} : th'[d] = th[d]
      /\ Aligned(c) /\ OnTask(c) /\ HasSlot(c)
  BY ThreadFacts DEF GetNone
<1>2. /\ ok' = [ok EXCEPT ![c] = FALSE]
      /\ slot' = [slot EXCEPT ![c] = NoSlot]
      /\ UNCHANGED <<conn, up, count, fname, locked>>
  BY DEF GetNone
<1>3. \A d \in Client \ {c} : Same(d)
  BY <1>1, <1>2 DEF Same, SameCall
<1>4. op[c] # "MD_UNLOCK" /\ ~Owns(c)'
  BY NoneNotUnlock
<1>5. Aligned(c)' /\ OnTask(c)' /\ HasSlot(c)'
  BY <1>1, <1>2, <1>4 DEF Aligned, OnTask, Done, HasSlot
<1>6. NoEarlyFree'
  BY <1>2, DropSlot DEF Surviving
<1>7. OwnersLocked'
  BY <1>2, <1>3, <1>4, OwnersKept DEF Surviving
<1> QED BY <1>1, <1>2, <1>3, <1>5, <1>6, <1>7, Assemble

\* The server does not exit.
LEMMA NoAbort == ASSUME TypeOK, Surviving, NEW c \in Client PROVE ~GetAbort(c)
<1>1. \A s \in Slot : count[s] \in Int /\ count[s] >= 0
  BY CountPositive DEF TypeOK, Surviving
<1> QED BY <1>1 DEF GetAbort

LEMMA LockSurvives ==
  ASSUME TypeOK, Surviving, UniqueTaken', NEW c \in Client, Lock(c) \/ TryOk(c)
  PROVE  Surviving'
<1> USE DEF TypeOK, CallTypeOK
<1>0. Step(c, "lock", "reply") \/ Step(c, "try", "reply")
  BY DEF Lock, TryOk
<1>1. /\ up /\ th[c] \in {"lock", "try"} /\ th'[c] = "reply"
      /\ conn[c] = "taken" /\ pc[c] \in {"waiting", "dead"} /\ cs[c] # "held"
      /\ UNCHANGED <<pc, cs, op, file>>
      /\ \A d \in Client \ {c} : th'[d] = th[d]
      /\ Aligned(c) /\ OnTask(c) /\ HasSlot(c)
  <2>1. CASE Step(c, "lock", "reply")
    BY <2>1, ThreadFacts
  <2>2. CASE Step(c, "try", "reply")
    BY <2>2, ThreadFacts
  <2> QED BY <1>0, <2>1, <2>2
<1>2. /\ ~locked[slot[c]]
      /\ locked' = [locked EXCEPT ![slot[c]] = TRUE]
      /\ ok' = [ok EXCEPT ![c] = TRUE]
      /\ UNCHANGED <<conn, up, count, fname, slot>>
  BY DEF Lock, TryOk
<1>3. \A d \in Client \ {c} : Same(d)
  BY <1>1, <1>2 DEF Same, SameCall
<1>4. op[c] # "MD_UNLOCK" /\ slot[c] \in Slot /\ fname[slot[c]] = file[c]
  BY <1>1 DEF OnTask, HasSlot
<1>5. Aligned(c)' /\ OnTask(c)' /\ HasSlot(c)'
  BY <1>1, <1>2, <1>4, NotASlot DEF Aligned, OnTask, Done, HasSlot
<1>6. \A d \in Client \ {c} : Owns(d)' => Owns(d) /\ slot[d] # slot[c]
  BY <1>2, <1>3, SameOwns DEF Same, Surviving, OwnersLocked
<1>7. OwnersLocked'
  <2>1. \A d \in Client \ {c} : Owns(d)' =>
          /\ locked'[slot[d]]
          /\ \A e \in Client \ {c} : Owns(e)' /\ slot[e] = slot[d] => e = d
    <3>1. \A d \in Client \ {c} : Owns(d)' => slot[d] \in Slot
      BY <1>6 DEF Surviving, HasSlot
    <3> QED BY <1>2, <1>6, <3>1 DEF Surviving, OwnersLocked
  <2>2. locked'[slot[c]]
    BY <1>2, <1>4
  <2> QED BY <1>2, <1>6, <2>1, <2>2 DEF OwnersLocked
<1>8. NoEarlyFree'
  BY <1>2, CountsKept DEF Surviving
<1> QED BY <1>1, <1>2, <1>3, <1>5, <1>7, <1>8, Assemble

LEMMA TryFailSurvives ==
  ASSUME TypeOK, Surviving, UniqueTaken', NEW c \in Client, TryFail(c)
  PROVE  Surviving'
<1> USE DEF TypeOK, CallTypeOK
<1>1. /\ up /\ th[c] = "try" /\ th'[c] = "put"
      /\ conn[c] = "taken" /\ pc[c] \in {"waiting", "dead"} /\ cs[c] # "held"
      /\ UNCHANGED <<pc, cs, op, file>>
      /\ \A d \in Client \ {c} : th'[d] = th[d]
      /\ Aligned(c) /\ OnTask(c) /\ HasSlot(c)
  BY ThreadFacts DEF TryFail
<1>2. /\ ok' = [ok EXCEPT ![c] = FALSE]
      /\ UNCHANGED <<conn, up, tableVars>>
  BY DEF TryFail
<1>3. \A d \in Client \ {c} : Same(d)
  BY <1>1, <1>2 DEF Same, SameCall
<1>4. op[c] = "MD_TRY_LOCK"
  BY <1>1 DEF OnTask
<1>5. Aligned(c)' /\ OnTask(c)' /\ ~Owns(c)'
  BY <1>1, <1>2, <1>4 DEF Aligned, OnTask, Owns, Done
<1>6. HasSlot(c)'
  BY <1>1, <1>2 DEF HasSlot
<1> QED BY <1>1, <1>2, <1>3, <1>5, <1>6, SilentStep

\* The unlock of an owner: it is the only one, so no other loses its lock.
LEMMA UnlockSurvives ==
  ASSUME TypeOK, Surviving, UniqueTaken', NEW c \in Client, Unlock(c)
  PROVE  Surviving'
<1> USE DEF TypeOK, CallTypeOK
<1>1. /\ up /\ th[c] = "unlock" /\ th'[c] = "put"
      /\ conn[c] = "taken" /\ pc[c] \in {"waiting", "dead"} /\ cs[c] # "held"
      /\ UNCHANGED <<pc, cs, op, file>>
      /\ \A d \in Client \ {c} : th'[d] = th[d]
      /\ Aligned(c) /\ OnTask(c) /\ HasSlot(c)
  BY ThreadFacts DEF Unlock
<1>2. /\ locked' = [locked EXCEPT ![slot[c]] = FALSE]
      /\ ok' = [ok EXCEPT ![c] = TRUE]
      /\ UNCHANGED <<conn, up, count, fname, slot>>
  BY DEF Unlock
<1>3. \A d \in Client \ {c} : Same(d)
  BY <1>1, <1>2 DEF Same, SameCall
<1>4. op[c] = "MD_UNLOCK" /\ Owns(c)
  BY <1>1 DEF OnTask, Owns, Done
<1>5. Aligned(c)' /\ OnTask(c)' /\ ~Owns(c)'
  BY <1>1, <1>2, <1>4 DEF Aligned, OnTask, Owns, Done
<1>6. HasSlot(c)'
  BY <1>1, <1>2, <1>4 DEF HasSlot
<1>7. OwnersLocked'
  <2>1. \A d \in Client \ {c} :
          Owns(d) => slot[d] \in Slot /\ slot[d] # slot[c]
    BY <1>4 DEF Surviving, OwnersLocked, HasSlot
  <2>2. \A d \in Client : Owns(d)' => locked'[slot[d]] = locked[slot[d]]
    BY <1>2, <1>3, <1>5, <2>1, SameOwns DEF Same
  <2> QED BY <1>3, <1>5, <2>2, OwnersKept DEF Surviving
<1>8. NoEarlyFree'
  BY <1>2, CountsKept DEF Surviving
<1> QED BY <1>1, <1>2, <1>3, <1>5, <1>6, <1>7, <1>8, Assemble

\* put_z_mutex by a user that owns nothing any more, or does not yet.
LEMMA PutSurvives ==
  ASSUME TypeOK, Surviving, UniqueTaken', NEW c \in Client, Put(c)
  PROVE  Surviving'
<1> USE DEF TypeOK, CallTypeOK
<1>1. /\ up /\ th[c] = "put" /\ th'[c] = "reply"
      /\ conn[c] = "taken" /\ pc[c] \in {"waiting", "dead"} /\ cs[c] # "held"
      /\ UNCHANGED <<pc, cs, op, file>>
      /\ \A d \in Client \ {c} : th'[d] = th[d]
      /\ Aligned(c) /\ OnTask(c) /\ HasSlot(c)
  BY ThreadFacts DEF Put
<1>2. /\ count' = [count EXCEPT ![slot[c]] = count[slot[c]] - 1]
      /\ slot' = [slot EXCEPT ![c] = NoSlot]
      /\ UNCHANGED <<conn, ok, up, fname, locked>>
  BY DEF Put
<1>3. \A d \in Client \ {c} : Same(d)
  BY <1>1, <1>2 DEF Same, SameCall
<1>4. slot[c] \in Slot
  BY <1>1 DEF HasSlot
<1>5. Aligned(c)' /\ OnTask(c)' /\ ~Owns(c)'
  BY <1>1, <1>2 DEF Aligned, OnTask, Owns, Done
<1>6. HasSlot(c)'
  BY <1>1, <1>5 DEF HasSlot
<1>7. NoEarlyFree'
  BY <1>2, <1>4, GiveSlot DEF Surviving
<1>8. OwnersLocked'
  BY <1>2, <1>3, <1>5, OwnersKept DEF Surviving
<1> QED BY <1>1, <1>2, <1>3, <1>5, <1>6, <1>7, <1>8, Assemble

LEMMA ReplySurvives ==
  ASSUME TypeOK, Surviving, UniqueTaken', NEW c \in Client, Reply(c)
  PROVE  Surviving'
<1> USE DEF TypeOK, CallTypeOK
<1>1. /\ up /\ th[c] = "reply" /\ th'[c] = "none"
      /\ conn[c] = "taken" /\ pc[c] \in {"waiting", "dead"} /\ cs[c] # "held"
      /\ UNCHANGED <<pc, cs, op, file>>
      /\ \A d \in Client \ {c} : th'[d] = th[d]
      /\ Aligned(c) /\ OnTask(c) /\ HasSlot(c)
  BY ThreadFacts DEF Reply
<1>2. /\ conn' = [conn EXCEPT ![c] = "replied"]
      /\ UNCHANGED <<ok, up, tableVars>>
  BY DEF Reply
<1>3. \A d \in Client \ {c} : Same(d)
  BY <1>1, <1>2 DEF Same, SameCall
<1>4. Owns(c)' <=> Owns(c)
  BY <1>1, <1>2 DEF Owns, Done
<1>5. Aligned(c)' /\ OnTask(c)'
  BY <1>1, <1>2 DEF Aligned, OnTask, Done
<1>6. HasSlot(c)'
  BY <1>1, <1>2, <1>4 DEF HasSlot
<1> QED BY <1>1, <1>2, <1>3, <1>4, <1>5, <1>6, SilentStep

LEMMA SurvivingInit == Init => Surviving
<1> SUFFICES ASSUME Init PROVE Surviving
  OBVIOUS
<1>1. \A s \in Slot : Users(s) = {}
  BY NotASlot DEF Init, Users
<1>2. NoEarlyFree /\ UniqueTaken
  BY <1>1, FS_EmptySet DEF Init, NoEarlyFree, UniqueTaken
<1>3. \A c \in Client : Aligned(c) /\ OnTask(c) /\ HasSlot(c) /\ ~Owns(c)
  BY DEF Init, CallInit, Aligned, OnTask, HasSlot, Owns, Done
<1> QED BY <1>2, <1>3 DEF Init, CallInit, Surviving, OwnersLocked

LEMMA SurvivingStep ==
  ASSUME AllCareful, TypeOK, Surviving, [Next]_vars
  PROVE  Surviving'
<1>0. UniqueTaken'
  BY UniqueStep DEF Surviving
<1>1. CASE UNCHANGED vars
  <2>1. \A d \in Client : Same(d)
    BY <1>1 DEF Same, SameCall
  <2>2. \A d \in Client : Aligned(d)' /\ OnTask(d)' /\ HasSlot(d)'
    BY <1>1, <2>1, Others DEF Surviving
  <2>3. NoEarlyFree'
    BY <1>1, CountsKept DEF Surviving
  <2>4. OwnersLocked'
    BY <1>1, <2>1, SameOwns DEF Same, Surviving, OwnersLocked
  <2> QED BY <1>0, <1>1, <2>2, <2>3, <2>4 DEF Surviving
<1>2. ASSUME NEW c \in Client, CallStep(c) PROVE Surviving'
  BY <1>0, <1>2, CallSurvives
<1>3. ASSUME NEW c \in Client, ThreadStepOf(c) PROVE Surviving'
  BY <1>0, <1>3, GetSurvives, NoneSurvives, NoAbort, LockSurvives,
     TryFailSurvives, UnlockSurvives, PutSurvives, ReplySurvives
     DEF ThreadStepOf
<1> QED BY <1>1, <1>2, <1>3 DEF Next

(* With careful users, any of which may die at any moment, the server does *)
(* not exit, every user that waits or owns has a slot of its name, no slot *)
(* is free under it, and the mutex of an owner is locked and its alone     *)
(* (get_z_mutex, put_z_mutex and thread_func together).                    *)
THEOREM Survives == AllCareful => (Spec => []Surviving)
<1> SUFFICES ASSUME AllCareful PROVE Spec => []Surviving
  OBVIOUS
<1>1. TypeOK /\ Surviving /\ [Next]_vars => Surviving'
  BY SurvivingStep
<1> QED BY <1>1, SurvivingInit, TypeCorrect, PTL DEF Spec

-----------------------------------------------------------------------------
(* What follows for careful users, although others of them die *)

\* Two owners of a name are one user.
LEMMA OneOwner ==
  ASSUME TypeOK, Surviving, NEW c \in Client, NEW d \in Client,
         Owns(c), Owns(d), file[c] = file[d]
  PROVE  c = d
<1>1. slot[c] # NoSlot /\ slot[d] # NoSlot
  BY DEF Surviving, HasSlot
<1>2. /\ slot[c] \in Slot /\ count[slot[c]] > 0 /\ fname[slot[c]] = file[c]
      /\ slot[d] \in Slot /\ count[slot[d]] > 0 /\ fname[slot[d]] = file[d]
  BY <1>1, CountPositive DEF Surviving, HasSlot
<1>3. slot[c] = slot[d]
  BY <1>2 DEF Surviving, UniqueTaken
<1> QED BY <1>3 DEF Surviving, OwnersLocked

(* Two users that both got 0 from md_mutex_lock or md_mutex_try_lock and   *)
(* have not called md_mutex_unlock hold different files, although users    *)
(* die waiting, owning or between connect() and write().                   *)
THEOREM Exclusion == AllCareful => (Spec => []MutualExclusion)
<1>1. TypeOK /\ Surviving => MutualExclusion
  BY OneOwner DEF MutualExclusion, Owns
<1> QED BY <1>1, TypeCorrect, Survives, PTL

(* A count is never below the number of users that depend on the slot: the *)
(* dead leave slots taken, and free none that another user has found.      *)
THEOREM NeverFreedEarly == AllCareful => (Spec => []NoEarlyFree)
<1>1. Surviving => NoEarlyFree
  BY DEF Surviving
<1> QED BY <1>1, Survives, PTL

(* md_mutex_unlock by a holder is answered OK.                             *)
THEOREM UnlockAnsweredOK == AllCareful => (Spec => []UnlockSucceeds)
<1>1. Surviving => UnlockSucceeds
  BY DEF Surviving, OnTask, Done, UnlockSucceeds
<1> QED BY <1>1, Survives, PTL

(* A slot is renamed only while nobody has a pointer to it: the free slot  *)
(* get_z_mutex takes has no user, waiting or owning, dead or alive.        *)
THEOREM NotRecycled == AllCareful => (Spec => NoRecycling)
<1>1. TypeOK /\ Surviving /\ [Next]_vars =>
        [\A s \in Slot : fname'[s] # fname[s] => Users(s) = {}]_vars
  <2> SUFFICES ASSUME TypeOK, Surviving, Next, NEW s \in Slot,
                      fname'[s] # fname[s]
               PROVE  Users(s) = {}
    OBVIOUS
  <2>1. PICK c \in Client, r \in Slot : GetFree(c, r)
    BY DEF Next, CallStep, ThreadStepOf, GetMatch, GetNone, GetAbort, Lock,
           TryOk, TryFail, Unlock, Put, Reply
  <2>2. r = s /\ count[s] = 0
    BY <2>1 DEF GetFree, FirstFree, TypeOK
  <2> QED BY <2>2, CountPositive DEF Surviving
<1> QED BY <1>1, TypeCorrect, Survives, PTL DEF Spec, NoRecycling

-----------------------------------------------------------------------------
(* When nobody dies the table is what its users think it is, no more: what *)
(* Consistent adds to Surviving.                                           *)

Needed(c) == slot[c] # NoSlot => Owns(c) \/ th[c] \in {"lock", "try", "put"}

LockedHeld == \A s \in Slot : locked[s] =>
                \E c \in Client : slot[c] = s /\ Owns(c)

Exact == /\ \A c \in Client : pc[c] # "dead" /\ Needed(c)
         /\ RefCount
         /\ LockedHeld

LEMMA ExactConsistent == ASSUME TypeOK, Surviving, Exact PROVE Consistent
<1>1. \A c \in Client : pc[c] # "dead" /\ Aligned(c) /\ OnTask(c) /\ RightSlot(c)
  BY DEF Surviving, Exact, HasSlot, Needed, RightSlot
<1>2. ASSUME NEW s \in Slot
      PROVE  /\ locked[s] <=> \E c \in Users(s) : Owns(c)
             /\ \A c, d \in Users(s) : Owns(c) /\ Owns(d) => c = d
  BY DEF Surviving, Exact, OwnersLocked, LockedHeld, Users
<1> QED BY <1>1, <1>2 DEF Surviving, Exact, Consistent, LockedByOwner

\* Locks that stay, and their owners.
LEMMA HeldKept ==
  ASSUME LockedHeld, NEW c \in Client, \A d \in Client \ {c} : Same(d),
         Owns(c) => Owns(c)' /\ slot'[c] = slot[c],
         \A s \in Slot : locked'[s] => locked[s]
  PROVE  LockedHeld'
<1>1. \A d \in Client : Owns(d) => Owns(d)' /\ slot'[d] = slot[d]
  BY SameOwns DEF Same
<1> QED BY <1>1 DEF LockedHeld

LEMMA ExactParts ==
  ASSUME Exact, NEW c \in Client, \A d \in Client \ {c} : Same(d),
         pc'[c] # "dead", Needed(c)', RefCount', LockedHeld'
  PROVE  Exact'
<1>1. ASSUME NEW d \in Client \ {c} PROVE pc'[d] # "dead" /\ Needed(d)'
  BY <1>1, SameOwns DEF Exact, Needed, Same, SameCall
<1> QED BY <1>1 DEF Exact

LEMMA CallExact ==
  ASSUME Disciplined, TypeOK, Surviving, Exact, NEW c \in Client, CallStep(c)
  PROVE  Exact'
<1>1. up /\ Aligned(c) /\ OnTask(c) /\ UNCHANGED tableVars
  BY DEF Surviving, CallStep
<1>2. Onwards(c) /\ Alive(c) /\ \A d \in Client \ {c} : SameCall(d)
  BY <1>1, CallStepFacts DEF CallStep, TypeOK, Disciplined
<1>3. \A d \in Client \ {c} : Same(d)
  BY <1>1, <1>2 DEF Same
<1>4. pc'[c] # "dead" /\ (Owns(c)' <=> Owns(c)) /\ Needed(c)'
  BY <1>1, <1>2 DEF Exact, Alive, Onwards, Needed
<1>5. RefCount' /\ LockedHeld'
  BY <1>1, <1>3, <1>4, CountsKept, HeldKept DEF Exact
<1> QED BY <1>3, <1>4, <1>5, ExactParts

LEMMA GetExact ==
  ASSUME TypeOK, Surviving, Exact, NEW c \in Client, NEW s \in Slot,
         GetMatch(c, s) \/ GetFree(c, s)
  PROVE  Exact'
<1> USE DEF TypeOK, CallTypeOK
<1>0. Found(c, s) /\ Step(c, "start", Operate(op[c]))
  BY DEF GetMatch, GetFree, Found
<1>1. /\ th[c] = "start" /\ th'[c] = Operate(op[c])
      /\ conn[c] = "taken" /\ cs[c] # "held"
      /\ UNCHANGED <<pc, cs, op, file>>
      /\ \A d \in Client \ {c} : th'[d] = th[d]
  BY <1>0, ThreadFacts
<1>2. /\ slot' = [slot EXCEPT ![c] = s]
      /\ UNCHANGED <<conn, ok, up, locked>>
  BY <1>0 DEF Found
<1>3. \A d \in Client \ {c} : Same(d)
  BY <1>1, <1>2 DEF Same, SameCall
<1>4. th'[c] = CASE op[c] = "MD_LOCK" -> "lock"
                 [] op[c] = "MD_TRY_LOCK" -> "try"
                 [] op[c] = "MD_UNLOCK" -> "unlock"
  BY <1>1 DEF Operate
<1>5. (Owns(c)' <=> Owns(c)) /\ (Owns(c) <=> op[c] = "MD_UNLOCK")
  BY <1>1, <1>2, <1>4 DEF Owns, Done
<1>6. pc'[c] # "dead" /\ Needed(c)'
  BY <1>1, <1>4, <1>5 DEF Exact, Needed
<1>7. op[c] = "MD_UNLOCK" => GetMatch(c, s) /\ s = slot[c]
  BY <1>5, OwnSlotStops DEF GetMatch, GetFree, FirstStop
<1>8. LockedHeld'
  BY <1>2, <1>3, <1>5, <1>7, HeldKept DEF Exact
<1>9. RefCount'
  <2>1. CASE op[c] = "MD_UNLOCK"
    BY <1>2, <1>7, <2>1, CountsKept DEF Exact, GetMatch
  <2>2. CASE op[c] # "MD_UNLOCK"
    <3>1. slot[c] = NoSlot
      BY <1>1, <1>5, <2>2 DEF Exact, Needed
    <3>2. count' = [count EXCEPT ![s] = count[s] + 1]
      BY <2>2 DEF GetMatch, GetFree, FirstFree
    <3> QED BY <1>2, <3>1, <3>2, TakeSlot DEF Exact
  <2> QED BY <2>1, <2>2
<1> QED BY <1>3, <1>6, <1>8, <1>9, ExactParts

LEMMA NoneExact ==
  ASSUME TypeOK, Surviving, Exact, NEW c \in Client, GetNone(c)
  PROVE  Exact' /\ slot[c] = NoSlot
<1> USE DEF TypeOK, CallTypeOK
<1>1. /\ th[c] = "start" /\ th'[c] = "reply"
      /\ UNCHANGED <<pc, cs, op, file>>
      /\ \A d \in Client \ {c} : th'[d] = th[d]
  BY ThreadFacts DEF GetNone
<1>2. /\ ok' = [ok EXCEPT ![c] = FALSE]
      /\ slot' = [slot EXCEPT ![c] = NoSlot]
      /\ UNCHANGED <<conn, up, count, fname, locked>>
  BY DEF GetNone
<1>3. \A d \in Client \ {c} : Same(d)
  BY <1>1, <1>2 DEF Same, SameCall
<1>4. ~Owns(c)
  BY NoneNotUnlock
<1>5. slot[c] = NoSlot /\ slot' = slot
  BY <1>1, <1>2, <1>4 DEF Exact, Needed
<1>6. pc'[c] # "dead" /\ Needed(c)'
  BY <1>1, <1>5 DEF Exact, Needed
<1>7. RefCount' /\ LockedHeld'
  BY <1>2, <1>3, <1>4, <1>5, CountsKept, HeldKept DEF Exact
<1> QED BY <1>3, <1>5, <1>6, <1>7, ExactParts

LEMMA LockExact ==
  ASSUME TypeOK, Surviving, Exact, NEW c \in Client, Lock(c) \/ TryOk(c)
  PROVE  Exact'
<1> USE DEF TypeOK, CallTypeOK
<1>0. Step(c, "lock", "reply") \/ Step(c, "try", "reply")
  BY DEF Lock, TryOk
<1>1. /\ th[c] \in {"lock", "try"} /\ th'[c] = "reply" /\ conn[c] = "taken"
      /\ UNCHANGED <<pc, cs, op, file>>
      /\ \A d \in Client \ {c} : th'[d] = th[d]
      /\ OnTask(c) /\ HasSlot(c)
  <2>1. CASE Step(c, "lock", "reply")
    BY <2>1, ThreadFacts
  <2>2. CASE Step(c, "try", "reply")
    BY <2>2, ThreadFacts
  <2> QED BY <1>0, <2>1, <2>2
<1>2. /\ locked' = [locked EXCEPT ![slot[c]] = TRUE]
      /\ ok' = [ok EXCEPT ![c] = TRUE]
      /\ UNCHANGED <<conn, up, count, fname, slot>>
  BY DEF Lock, TryOk
<1>3. \A d \in Client \ {c} : Same(d)
  BY <1>1, <1>2 DEF Same, SameCall
<1>4. op[c] # "MD_UNLOCK" /\ Owns(c)'
  BY <1>1, <1>2 DEF OnTask, Owns, Done
<1>5. pc'[c] # "dead" /\ Needed(c)'
  BY <1>1, <1>4 DEF Exact, Needed
<1>6. LockedHeld'
  <2>1. \A d \in Client : Owns(d) => Owns(d)' /\ slot'[d] = slot[d]
    BY <1>2, <1>3, <1>4, SameOwns DEF Same
  <2>2. \A s \in Slot : locked'[s] => locked[s] \/ s = slot[c]
    BY <1>2
  <2> QED BY <1>2, <1>4, <2>1, <2>2 DEF Exact, LockedHeld
<1>7. RefCount'
  BY <1>2, CountsKept DEF Exact
<1> QED BY <1>3, <1>5, <1>6, <1>7, ExactParts

LEMMA TryFailExact ==
  ASSUME TypeOK, Surviving, Exact, NEW c \in Client, TryFail(c)
  PROVE  Exact'
<1> USE DEF TypeOK, CallTypeOK
<1>1. /\ th[c] = "try" /\ th'[c] = "put" /\ conn[c] = "taken" /\ cs[c] # "held"
      /\ UNCHANGED <<pc, cs, op, file>>
      /\ \A d \in Client \ {c} : th'[d] = th[d]
      /\ OnTask(c)
  BY ThreadFacts DEF TryFail
<1>2. /\ ok' = [ok EXCEPT ![c] = FALSE]
      /\ UNCHANGED <<conn, up, tableVars>>
  BY DEF TryFail
<1>3. \A d \in Client \ {c} : Same(d)
  BY <1>1, <1>2 DEF Same, SameCall
<1>4. ~Owns(c)
  BY <1>1 DEF OnTask, Owns, Done
<1>5. pc'[c] # "dead" /\ Needed(c)'
  BY <1>1 DEF Exact, Needed
<1>6. RefCount' /\ LockedHeld'
  BY <1>2, <1>3, <1>4, CountsKept, HeldKept DEF Exact
<1> QED BY <1>3, <1>5, <1>6, ExactParts

LEMMA UnlockExact ==
  ASSUME TypeOK, Surviving, Exact, NEW c \in Client, Unlock(c)
  PROVE  Exact'
<1> USE DEF TypeOK, CallTypeOK
<1>1. /\ th[c] = "unlock" /\ th'[c] = "put" /\ conn[c] = "taken"
      /\ UNCHANGED <<pc, cs, op, file>>
      /\ \A d \in Client \ {c} : th'[d] = th[d]
      /\ OnTask(c) /\ HasSlot(c)
  BY ThreadFacts DEF Unlock
<1>2. /\ locked' = [locked EXCEPT ![slot[c]] = FALSE]
      /\ UNCHANGED <<conn, up, count, fname, slot>>
  BY DEF Unlock
<1>3. \A d \in Client \ {c} : Same(d)
  BY <1>1, <1>2 DEF Unlock, Same, SameCall
<1>4. Owns(c) /\ slot[c] \in Slot
  BY <1>1 DEF OnTask, Owns, Done, HasSlot
<1>5. pc'[c] # "dead" /\ Needed(c)'
  BY <1>1 DEF Exact, Needed
<1>6. LockedHeld'
  <2>1. \A d \in Client \ {c} : Owns(d) => Owns(d)' /\ slot'[d] = slot[d]
    BY <1>3, SameOwns DEF Same
  <2>2. \A s \in Slot : locked'[s] => locked[s] /\ s # slot[c]
    BY <1>2, <1>4
  <2> QED BY <2>1, <2>2 DEF Exact, LockedHeld
<1>7. RefCount'
  BY <1>2, CountsKept DEF Exact
<1> QED BY <1>3, <1>5, <1>6, <1>7, ExactParts

LEMMA PutExact ==
  ASSUME TypeOK, Surviving, Exact, NEW c \in Client, Put(c)
  PROVE  Exact'
<1> USE DEF TypeOK, CallTypeOK
<1>1. /\ th[c] = "put" /\ th'[c] = "reply" /\ conn[c] = "taken" /\ cs[c] # "held"
      /\ UNCHANGED <<pc, cs, op, file>>
      /\ \A d \in Client \ {c} : th'[d] = th[d]
      /\ OnTask(c) /\ HasSlot(c)
  BY ThreadFacts DEF Put
<1>2. /\ count' = [count EXCEPT ![slot[c]] = count[slot[c]] - 1]
      /\ slot' = [slot EXCEPT ![c] = NoSlot]
      /\ UNCHANGED <<conn, ok, up, fname, locked>>
  BY DEF Put
<1>3. \A d \in Client \ {c} : Same(d)
  BY <1>1, <1>2 DEF Same, SameCall
<1>4. ~Owns(c) /\ slot[c] \in Slot
  BY <1>1 DEF OnTask, Owns, Done, HasSlot
<1>5. pc'[c] # "dead" /\ Needed(c)'
  BY <1>1, <1>2 DEF Exact, Needed
<1>6. LockedHeld'
  BY <1>2, <1>3, <1>4, HeldKept DEF Exact
<1>7. RefCount'
  BY <1>2, <1>4, GiveSlot DEF Exact
<1> QED BY <1>3, <1>5, <1>6, <1>7, ExactParts

LEMMA ReplyExact ==
  ASSUME TypeOK, Surviving, Exact, NEW c \in Client, Reply(c)
  PROVE  Exact'
<1> USE DEF TypeOK, CallTypeOK
<1>1. /\ th[c] = "reply" /\ th'[c] = "none" /\ conn[c] = "taken" /\ cs[c] # "held"
      /\ UNCHANGED <<pc, cs, op, file>>
      /\ \A d \in Client \ {c} : th'[d] = th[d]
  BY ThreadFacts DEF Reply
<1>2. /\ conn' = [conn EXCEPT ![c] = "replied"]
      /\ UNCHANGED <<ok, up, tableVars>>
  BY DEF Reply
<1>3. \A d \in Client \ {c} : Same(d)
  BY <1>1, <1>2 DEF Same, SameCall
<1>4. Owns(c)' <=> Owns(c)
  BY <1>1, <1>2 DEF Owns, Done
<1>5. pc'[c] # "dead" /\ Needed(c)'
  BY <1>1, <1>2, <1>4 DEF Exact, Needed
<1>6. RefCount' /\ LockedHeld'
  BY <1>2, <1>3, <1>4, CountsKept, HeldKept DEF Exact
<1> QED BY <1>3, <1>5, <1>6, ExactParts

LEMMA ExactStep ==
  ASSUME Disciplined, TypeOK, Surviving, Exact, [Next]_vars
  PROVE  Exact'
<1>1. CASE UNCHANGED vars
  <2>1. \A d \in Client : Same(d)
    BY <1>1 DEF Same, SameCall
  <2>2. \A d \in Client : pc'[d] # "dead" /\ Needed(d)'
    BY <2>1, SameOwns DEF Exact, Needed, Same, SameCall
  <2>3. LockedHeld'
    BY <1>1, <2>1, SameOwns DEF Same, Exact, LockedHeld
  <2> QED BY <1>1, <2>2, <2>3, CountsKept DEF Exact
<1>2. ASSUME NEW c \in Client, CallStep(c) PROVE Exact'
  BY <1>2, CallExact
<1>3. ASSUME NEW c \in Client, ThreadStepOf(c) PROVE Exact'
  BY <1>3, GetExact, NoneExact, NoAbort, LockExact, TryFailExact, UnlockExact,
     PutExact, ReplyExact DEF ThreadStepOf
<1> QED BY <1>1, <1>2, <1>3 DEF Next

LEMMA AlwaysExact == Disciplined => (Spec => []Exact)
<1> SUFFICES ASSUME Disciplined PROVE Spec => []Exact
  OBVIOUS
<1>1. Init => Exact
  <2> SUFFICES ASSUME Init PROVE Exact
    OBVIOUS
  <2>1. \A s \in Slot : Users(s) = {}
    BY NotASlot DEF Init, Users
  <2>2. RefCount
    BY <2>1, FS_EmptySet DEF Init, RefCount
  <2> QED BY <2>2 DEF Init, CallInit, Exact, Needed, LockedHeld
<1>2. TypeOK /\ Surviving /\ Exact /\ [Next]_vars => Exact'
  BY ExactStep
<1>3. Spec => []Surviving
  BY Survives DEF Disciplined
<1> QED BY <1>1, <1>2, <1>3, TypeCorrect, PTL DEF Spec

(* With disciplined users none of which dies the table and the users stay  *)
(* consistent: each taken slot has one name, as many users as its count    *)
(* says, and a locked mutex exactly while one of them owns it.             *)
THEOREM TableConsistent == Disciplined => (Spec => []Consistent)
<1>1. TypeOK /\ Surviving /\ Exact => Consistent
  BY ExactConsistent
<1>2. Disciplined => (Spec => []Surviving)
  BY Survives DEF Disciplined
<1> QED BY <1>1, <1>2, AlwaysExact, TypeCorrect, PTL

(* The count of a slot is the number of its users, at every moment between *)
(* get_z_mutex and put_z_mutex of any of them.                             *)
THEOREM Counted == Disciplined => (Spec => []RefCount)
<1>1. Consistent => RefCount
  BY DEF Consistent
<1> QED BY <1>1, TableConsistent, PTL

(* A pointer from get_z_mutex points to the mutex of the file until        *)
(* put_z_mutex, although other threads take and give slots meanwhile.      *)
THEOREM PointersValid == Disciplined => (Spec => []PointerValid)
<1>1. TypeOK /\ Surviving /\ Consistent => PointerValid
  BY CountPositive DEF Surviving, Consistent, RightSlot, PointerValid
<1>2. Disciplined => (Spec => []Surviving)
  BY Survives DEF Disciplined
<1> QED BY <1>1, <1>2, TypeCorrect, TableConsistent, PTL

-----------------------------------------------------------------------------
(* The table implements the service *)

LEMMA ThreadServes ==
  ASSUME TypeOK, Surviving, NEW c \in Client, ThreadStepOf(c)
  PROVE  Serves(c)
<1> USE DEF TypeOK, CallTypeOK, Serves
<1>1. ASSUME NEW from, NEW to, Step(c, from, to), from # "none"
      PROVE  /\ conn[c] = "taken" /\ pc[c] \in {"waiting", "dead"}
             /\ th[c] = from /\ th'[c] = to
             /\ UNCHANGED <<pc, cs, op, file>>
             /\ \A d \in Client \ {c} : th'[d] = th[d]
  BY <1>1, ThreadFacts
<1>2. ASSUME NEW s \in Slot, GetMatch(c, s) \/ GetFree(c, s)
      PROVE  /\ Step(c, "start", Operate(op[c])) /\ UNCHANGED <<conn, ok>>
  BY <1>2 DEF GetMatch, GetFree, Found
<1>3. CASE \E s \in Slot : GetMatch(c, s) \/ GetFree(c, s)
  BY <1>1, <1>2, <1>3 DEF Done, SameCall
<1>4. CASE GetNone(c)
  BY <1>1, <1>4 DEF GetNone, Done, SameCall
<1>5. CASE Lock(c) \/ TryOk(c) \/ TryFail(c) \/ Unlock(c)
  <2>1. \E from \in {"lock", "try", "unlock"}, to \in {"put", "reply"} :
          Step(c, from, to)
    BY <1>5 DEF Lock, TryOk, TryFail, Unlock
  <2>2. conn' = conn /\ \E b \in BOOLEAN : ok' = [ok EXCEPT ![c] = b]
    BY <1>5 DEF Lock, TryOk, TryFail, Unlock
  <2> QED BY <1>1, <2>1, <2>2 DEF Done, SameCall
<1>6. CASE Put(c)
  BY <1>1, <1>6 DEF Put, Done, SameCall
<1>7. CASE Reply(c)
  BY <1>1, <1>7 DEF Reply, Done, SameCall
<1> QED BY <1>3, <1>4, <1>5, <1>6, <1>7, NoAbort DEF ThreadStepOf

(* Every step of the table server with disciplined users is one of the     *)
(* service MdMutex or none: it grants a name only while nobody owns it,    *)
(* tells every user what it did, and takes nothing back (md_mutex_func,    *)
(* main and thread_func together).                                         *)
THEOREM TableKeepsPromises == Disciplined => (Spec => KeepsPromises)
<1> SUFFICES ASSUME Disciplined PROVE Spec => KeepsPromises
  OBVIOUS
<1>1. Init => Service!Init
  BY ServiceInit DEF Init
<1>2. /\ TypeOK /\ Surviving /\ Consistent
      /\ SoleOwner'
      /\ [Next]_vars
      => [Service!Next]_(Service!vars)
  <2> SUFFICES ASSUME TypeOK, Surviving, Consistent, SoleOwner', [Next]_vars
               PROVE  [Service!Next]_(Service!vars)
    OBVIOUS
  <2>1. CASE UNCHANGED vars
    BY <2>1 DEF Service!vars, Phase, Done
  <2>2. ASSUME NEW c \in Client, CallStep(c)
        PROVE  [Service!Next]_(Service!vars)
    BY <2>2, CallPromise DEF CallStep, TypeOK, Consistent
  <2>3. ASSUME NEW c \in Client, ThreadStepOf(c)
        PROVE  [Service!Next]_(Service!vars)
    <3>1. \A d \in Client : Aligned(d) /\ pc[d] # "dead"
      BY DEF Consistent
    <3>2. Serves(c) /\ CallTypeOK
      BY <2>3, ThreadServes DEF TypeOK
    <3> QED BY <3>1, <3>2, ThreadPromise
  <2> QED BY <2>1, <2>2, <2>3 DEF Next
<1>3. Disciplined => (Spec => []Surviving)
  BY Survives DEF Disciplined
<1>4. TypeOK /\ Surviving => SoleOwner
  BY OneOwner DEF SoleOwner
<1> QED
  BY <1>1, <1>2, <1>3, <1>4, TypeCorrect, TableConsistent, PTL DEF Spec, KeepsPromises

-----------------------------------------------------------------------------
(* A full table *)

\* A full table has as many users as slots, and one that has not got a slot
\* is one more.
LEMMA RoomForAll ==
  ASSUME TypeOK, RefCount, Cardinality(Client) <= MUTEX_NUM,
         NEW c \in Client, slot[c] = NoSlot
  PROVE  \E s \in Slot : count[s] = 0
<1> SUFFICES ASSUME \A s \in Slot : count[s] # 0 PROVE FALSE
  OBVIOUS
<1> DEFINE Placed == {d \in Client : slot[d] # NoSlot}
           place == [d \in Placed |-> slot[d]]
<1>1. \A s \in Slot : \E d \in Placed : slot[d] = s
  <2>1. \A s \in Slot : Users(s) # {}
    BY FS_EmptySet DEF RefCount
  <2> QED BY NotASlot, <2>1 DEF Users
<1>2. place \in Surjection(Placed, Slot)
  BY <1>1 DEF Surjection, TypeOK
<1>3. Placed \subseteq Client \ {c}
  OBVIOUS
<1>4. /\ IsFiniteSet(Client \ {c})
      /\ Cardinality(Client \ {c}) = Cardinality(Client) - 1
  BY CallAssumption, FS_RemoveElement
<1>5. IsFiniteSet(Placed) /\ Cardinality(Placed) <= Cardinality(Client) - 1
  BY <1>3, <1>4, FS_Subset
<1>6. IsFiniteSet(Slot) /\ Cardinality(Slot) <= Cardinality(Placed)
  BY <1>2, <1>5, FS_Surjection
<1>7. Cardinality(Slot) = MUTEX_NUM
  BY TableAssumption, FS_Interval DEF Slot
<1>8. /\ Cardinality(Client) \in Nat /\ Cardinality(Placed) \in Nat
      /\ MUTEX_NUM \in Nat
  BY CallAssumption, TableAssumption, <1>5, FS_CardinalityType
<1> QED BY <1>5, <1>6, <1>7, <1>8

(* ALLOC_MUTEX_FAIL: with as many slots as users a lock is never refused.  *)
THEOREM NeverFull == Disciplined => (Spec => []EnoughSlots)
<1> SUFFICES ASSUME Disciplined PROVE Spec => []EnoughSlots
  OBVIOUS
<1> DEFINE Granted(c) == (Done(c) /\ op[c] = "MD_LOCK") => ok[c]
           AllGranted == Cardinality(Client) <= MUTEX_NUM =>
                           \A c \in Client : Granted(c)
<1>1. Init => AllGranted
  BY DEF Init, CallInit, Done
<1>2. /\ TypeOK /\ Surviving /\ Exact /\ AllGranted /\ [Next]_vars
      => AllGranted'
  <2> SUFFICES ASSUME TypeOK, Surviving, Exact, [Next]_vars,
                      Cardinality(Client) <= MUTEX_NUM,
                      \A c \in Client : Granted(c),
                      NEW d \in Client
               PROVE  Granted(d)'
    OBVIOUS
  <2> USE DEF TypeOK, CallTypeOK
  <2>1. CASE UNCHANGED vars
    BY <2>1 DEF Done
  <2>2. ASSUME NEW c \in Client, SameCall(d) PROVE Granted(d)'
    BY <2>2, SameOwns DEF SameCall
  <2>3. ASSUME NEW c \in Client, CallStep(c) PROVE Granted(d)'
    <3>1. Onwards(c) /\ \A e \in Client \ {c} : SameCall(e)
      BY <2>3, CallStepFacts DEF Disciplined, CallStep, Surviving
    <3>2. Granted(c)'
      BY <3>1 DEF Onwards
    <3> QED BY <2>2, <3>1, <3>2
  <2>4. ASSUME NEW c \in Client, ThreadStepOf(c) PROVE Granted(d)'
    <3>1. /\ Done(c) => ok'[c] = ok[c]
          /\ op' = op
          /\ \A e \in Client \ {c} : SameCall(e)
      BY <2>4, ThreadServes DEF Serves
    <3>2. CASE Done(c)
      BY <2>2, <3>1, <3>2
    <3>3. CASE ~Done(c)'
      BY <2>2, <3>1, <3>3
    <3>4. CASE ~Done(c) /\ Done(c)' /\ op[c] = "MD_LOCK"
      <4>1. /\ \A s \in Slot : ~GetMatch(c, s) /\ ~GetFree(c, s)
            /\ ~Put(c) /\ ~Reply(c)
        <5>1. Operate(op[c]) = "lock"
          BY <3>4 DEF Operate
        <5> QED BY <3>4, <5>1
                DEF GetMatch, GetFree, Found, Put, Reply, Step, Done
      <4>2. ~TryFail(c)
        BY <3>4, ThreadFacts DEF TryFail, OnTask
      <4>3. ~GetNone(c)
        <5> SUFFICES ASSUME GetNone(c) PROVE FALSE
          OBVIOUS
        <5>1. slot[c] = NoSlot /\ \A s \in Slot : count[s] # 0
          BY <3>4, NoneExact DEF GetNone
        <5> QED BY <5>1, RoomForAll DEF Exact
      <4>4. Lock(c) \/ TryOk(c) \/ Unlock(c)
        BY <2>4, <4>1, <4>2, <4>3, NoAbort DEF ThreadStepOf
      <4>5. ok'[c]
        BY <4>4 DEF Lock, TryOk, Unlock
      <4> QED BY <2>2, <3>1, <4>5
    <3> QED BY <2>2, <3>1, <3>2, <3>3, <3>4
  <2> QED BY <2>1, <2>3, <2>4 DEF Next
<1>3. AllGranted => EnoughSlots
  BY DEF EnoughSlots, Done
<1>4. Spec => []Surviving
  BY Survives DEF Disciplined
<1>5. Spec => []Exact
  BY AlwaysExact
<1> QED BY <1>1, <1>2, <1>3, <1>4, <1>5, TypeCorrect, PTL DEF Spec
=============================================================================
