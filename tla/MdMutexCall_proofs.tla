------------------------- MODULE MdMutexCall_proofs -------------------------
(***************************************************************************)
(* Lemmas about the users and main(), which the proofs about both servers  *)
(* rest on.                                                                *)
(***************************************************************************)
EXTENDS MdMutexCall, TLAPS

USE DEF Client, Name, Op, ConnState, ThreadStep, callVars

-----------------------------------------------------------------------------
(* What Operate and Learnt can return. *)

LEMMA OperateType == ASSUME NEW o \in Op
                     PROVE  Operate(o) \in {"lock", "try", "unlock"}
  BY DEF Operate

LEMMA LearntType == ASSUME NEW o \in Op, NEW b \in BOOLEAN
                    PROVE  Learnt(o, b) \in {"out", "held", "failed"}
  BY DEF Learnt

-----------------------------------------------------------------------------
(* The users, the connections and main() keep their types. *)

LEMMA CallTypeStep ==
  ASSUME CallTypeOK, NEW c \in Client, UserStep(c) \/ MainStep(c)
  PROVE  CallTypeOK'
<1> USE DEF CallTypeOK
<1>1. CASE \E o \in Op, f \in File : Call(c, o, f)
  BY <1>1 DEF Call
<1>2. CASE Send(c)
  BY <1>2 DEF Send
<1>3. CASE Return(c)
  <2>1. Learnt(op[c], ok[c]) \in {"out", "held", "failed"}
    BY LearntType
  <2> QED BY <1>3, <2>1 DEF Return
<1>4. CASE Die(c)
  BY <1>4 DEF Die
<1>5. CASE ConnectRefused(c)
  BY <1>5 DEF ConnectRefused
<1>6. CASE ConnectionLost(c)
  <2>1. Learnt(op[c], FALSE) \in {"out", "held", "failed"}
    BY LearntType
  <2> QED BY <1>6, <2>1 DEF ConnectionLost
<1>7. CASE Accept(c)
  BY <1>7 DEF Accept
<1>8. CASE ReadRequest(c)
  BY <1>8 DEF ReadRequest
<1>9. CASE ReadEof(c)
  BY <1>9 DEF ReadEof
<1> QED
  BY <1>1, <1>2, <1>3, <1>4, <1>5, <1>6, <1>7, <1>8, <1>9 DEF UserStep, MainStep

LEMMA CallTypeInit == CallInit => CallTypeOK
  BY DEF CallInit, CallTypeOK

-----------------------------------------------------------------------------
(* A step of one user leaves the other users as they are. *)

SameCall(d) == /\ pc'[d] = pc[d] /\ cs'[d] = cs[d] /\ op'[d] = op[d]
               /\ file'[d] = file[d] /\ conn'[d] = conn[d] /\ ok'[d] = ok[d]
               /\ th'[d] = th[d]

LEMMA SameOwns == ASSUME NEW d \in Client, SameCall(d)
                  PROVE  (Owns(d)' <=> Owns(d)) /\ (Done(d)' <=> Done(d))
  BY DEF SameCall, Owns, Done

LEMMA SameKept == ASSUME NEW d \in Client, SameCall(d), Aligned(d), OnTask(d)
                  PROVE  Aligned(d)' /\ OnTask(d)'
<1>1. Aligned(d)'
  BY DEF SameCall, Aligned
<1>2. OnTask(d)'
  BY DEF SameCall, OnTask, Done
<1> QED BY <1>1, <1>2

-----------------------------------------------------------------------------
(* The user of a call step goes on with its call, and takes no name, gives *)
(* none back and gets no thread in it: it owns afterwards what it owned    *)
(* before, unless it is dead and main() reads end of file.                 *)

Onwards(c) ==
  /\ Aligned(c)' /\ OnTask(c)'
  /\ th'[c] = th[c] \/ (th[c] = "none" /\ th'[c] = "start")
  /\ th[c] # "none" => file'[c] = file[c]
  /\ Owns(c)' => Owns(c) /\ file'[c] = file[c]
  /\ Done(c)' => Done(c) /\ op'[c] = op[c] /\ ok'[c] = ok[c]

Alive(c) == pc[c] # "dead" => pc'[c] # "dead" /\ (Owns(c)' <=> Owns(c))

LEMMA CallOnwards ==
  ASSUME AllCareful, CallTypeOK, up, NEW c \in Client, Aligned(c), OnTask(c),
         NEW o \in Op, NEW f \in File, Call(c, o, f)
  PROVE  Onwards(c) /\ Alive(c)
<1> USE DEF CallTypeOK
<1>1. c \in Careful \ (ModifyMd \cup Tool)
  BY DEF AllCareful
<1>2. /\ pc[c] = "idle" /\ conn[c] = "closed" /\ th[c] = "none"
      /\ o = "MD_UNLOCK" <=> cs[c] = "held"
      /\ o = "MD_UNLOCK" => f = file[c]
  BY <1>1 DEF Call, Aligned, MayLock, MayTryLock, MayUnlock
<1>3. /\ pc'[c] = "connected" /\ conn'[c] = "open" /\ th'[c] = "none"
      /\ op'[c] = o /\ file'[c] = f /\ cs'[c] = "out" /\ ok'[c] = ok[c]
  BY <1>2 DEF Call
<1>4. Owns(c)' <=> Owns(c)
  BY <1>2, <1>3 DEF Owns, Done
<1>5. Owns(c) => o = "MD_UNLOCK"
  BY <1>2 DEF Owns
<1>6. Aligned(c)' /\ OnTask(c)' /\ ~Done(c)'
  BY <1>3 DEF Aligned, OnTask, Done
<1> QED BY <1>2, <1>3, <1>4, <1>5, <1>6 DEF Onwards, Alive

LEMMA SendOnwards ==
  ASSUME CallTypeOK, NEW c \in Client, Aligned(c), OnTask(c), Send(c)
  PROVE  Onwards(c) /\ Alive(c)
<1> USE DEF CallTypeOK
<1>1. /\ pc[c] = "connected" /\ conn[c] = "open" /\ th[c] = "none"
      /\ pc'[c] = "waiting" /\ conn'[c] = "request"
      /\ UNCHANGED <<cs, op, file, ok, th>>
  BY DEF Send, Aligned
<1>2. (Owns(c)' <=> Owns(c)) /\ ~Done(c)'
  BY <1>1 DEF Owns, Done
<1>3. Aligned(c)' /\ OnTask(c)'
  BY <1>1 DEF Aligned, OnTask, Done
<1> QED BY <1>1, <1>2, <1>3 DEF Onwards, Alive

LEMMA ReturnOnwards ==
  ASSUME CallTypeOK, NEW c \in Client, Aligned(c), OnTask(c), Return(c)
  PROVE  Onwards(c) /\ Alive(c)
<1> USE DEF CallTypeOK
<1>1. /\ pc[c] = "waiting" /\ conn[c] = "replied" /\ th[c] = "none"
      /\ pc'[c] = "idle" /\ conn'[c] = "closed"
      /\ UNCHANGED <<op, file, ok, th>>
  BY DEF Return, Aligned
<1>2. cs'[c] = "held" <=> (op[c] # "MD_UNLOCK" /\ ok[c])
  BY DEF Return, Learnt
<1>3. cs[c] # "held"
  BY <1>1 DEF Aligned
<1>4. (Owns(c)' <=> Owns(c)) /\ ~Done(c)'
  BY <1>1, <1>2, <1>3 DEF Owns, Done
<1>5. Aligned(c)' /\ OnTask(c)'
  BY <1>1, <1>4 DEF Aligned, OnTask, Done
<1> QED BY <1>1, <1>4, <1>5 DEF Onwards, Alive

LEMMA DieOnwards ==
  ASSUME CallTypeOK, NEW c \in Client, Aligned(c), OnTask(c), Die(c)
  PROVE  Onwards(c)
<1> USE DEF CallTypeOK
<1>1. /\ pc'[c] = "dead"
      /\ conn'[c] = IF conn[c] = "open" THEN "eof" ELSE conn[c]
      /\ UNCHANGED <<cs, op, file, ok, th>>
  BY DEF Die
<1>2. (Owns(c)' <=> Owns(c)) /\ (Done(c)' <=> Done(c))
  BY <1>1 DEF Owns, Done
<1>3. Aligned(c)' /\ OnTask(c)'
  BY <1>1, <1>2 DEF Aligned, OnTask, Done
<1> QED BY <1>1, <1>2, <1>3 DEF Onwards

LEMMA AcceptOnwards ==
  ASSUME CallTypeOK, NEW c \in Client, Aligned(c), OnTask(c), Accept(c)
  PROVE  Onwards(c) /\ Alive(c)
<1>1. SameCall(c)
  BY DEF Accept, SameCall
<1> QED BY <1>1, SameKept, SameOwns DEF SameCall, Onwards, Alive

LEMMA ReadOnwards ==
  ASSUME CallTypeOK, NEW c \in Client, Aligned(c), OnTask(c), ReadRequest(c)
  PROVE  Onwards(c) /\ Alive(c)
<1> USE DEF CallTypeOK
<1>1. /\ conn[c] = "request" /\ th[c] = "none"
      /\ conn'[c] = "taken" /\ th'[c] = "start"
      /\ UNCHANGED <<pc, cs, op, file, ok>>
  BY DEF ReadRequest, Aligned
<1>2. (Owns(c)' <=> Owns(c)) /\ ~Done(c)'
  BY <1>1 DEF Owns, Done
<1>3. Aligned(c)' /\ OnTask(c)'
  BY <1>1, <1>2 DEF Aligned, OnTask, Done
<1> QED BY <1>1, <1>2, <1>3 DEF Onwards, Alive

\* Only a dead user's connection ends in end of file.
LEMMA EofOnwards ==
  ASSUME CallTypeOK, NEW c \in Client, Aligned(c), OnTask(c), ReadEof(c)
  PROVE  Onwards(c) /\ pc[c] = "dead"
<1> USE DEF CallTypeOK
<1>1. /\ pc[c] = "dead" /\ conn[c] = "eof" /\ th[c] = "none"
      /\ conn'[c] = "taken" /\ th'[c] = "start"
      /\ op'[c] = "MD_LOCK"
      /\ UNCHANGED <<pc, cs, ok>>
  BY DEF ReadEof, Aligned
<1>2. ~Owns(c)' /\ ~Done(c)'
  BY <1>1 DEF Owns, Done, Aligned
<1>3. Aligned(c)' /\ OnTask(c)'
  BY <1>1, <1>2 DEF Aligned, OnTask, Done
<1> QED BY <1>1, <1>2, <1>3 DEF Onwards

LEMMA CallStepFacts ==
  ASSUME AllCareful, CallTypeOK, up, NEW c \in Client, Aligned(c), OnTask(c),
         UserStep(c) \/ MainStep(c)
  PROVE  /\ up' /\ Onwards(c)
         /\ \A d \in Client \ {c} : SameCall(d)
         /\ Mortal = {} => Alive(c)
<1>1. up' /\ \A d \in Client \ {c} : SameCall(d)
  BY DEF CallTypeOK, SameCall, UserStep, MainStep, Call, Send, Return, Die,
         ConnectRefused, ConnectionLost, Accept, ReadRequest, ReadEof
<1>2. ~ConnectRefused(c) /\ ~ConnectionLost(c) /\ (Mortal = {} => ~Die(c))
  BY DEF ConnectRefused, ConnectionLost, Die
<1>3. ReadEof(c) => Alive(c)
  BY EofOnwards DEF Alive
<1> QED
  BY <1>1, <1>2, <1>3, CallOnwards, SendOnwards, ReturnOnwards, DieOnwards,
     AcceptOnwards, ReadOnwards, EofOnwards DEF UserStep, MainStep

-----------------------------------------------------------------------------
(* What every step of the thread of c but the last of the server has in    *)
(* common.                                                                 *)
LEMMA StepFacts ==
  ASSUME CallTypeOK, NEW c \in Client, Aligned(c), NEW from, NEW to,
         Step(c, from, to), from # "none"
  PROVE  /\ up /\ th[c] = from /\ th'[c] = to
         /\ conn[c] = "taken" /\ pc[c] \in {"waiting", "dead"} /\ cs[c] # "held"
         /\ UNCHANGED <<pc, cs, op, file>>
         /\ \A d \in Client \ {c} : th'[d] = th[d]
  BY DEF CallTypeOK, Step, Aligned

-----------------------------------------------------------------------------
(* The steps as steps of the service MdMutex *)

LEMMA ServiceMove ==
  ASSUME NEW c \in Client, \A d \in Client \ {c} : SameCall(d),
         NEW from, NEW to, Phase(c) = from, Phase(c)' = to
  PROVE  Service!Move(c, from, to)
<1>1. \A d \in Client \ {c} : Phase(d)' = Phase(d)
  BY SameOwns DEF SameCall, Phase
<1> QED BY <1>1 DEF Service!Move

LEMMA ServiceStutter ==
  ASSUME NEW c \in Client, \A d \in Client \ {c} : SameCall(d),
         Phase(c)' = Phase(c), file' = file
  PROVE  UNCHANGED Service!vars
<1>1. \A d \in Client : Phase(d)' = Phase(d)
  BY SameOwns DEF SameCall, Phase
<1> QED BY <1>1 DEF Service!vars

LEMMA ServiceInit == CallInit => Service!Init
<1> SUFFICES ASSUME CallInit PROVE Service!Init
  OBVIOUS
<1>1. \A c \in Client : Phase(c) = "out"
  BY DEF CallInit, Phase
<1> QED BY <1>1 DEF CallInit, Service!Init

\* Only an owner is in a phase of owning.
LEMMA OwningOwns ==
  ASSUME CallTypeOK, NEW c \in Client, Aligned(c), pc[c] # "dead",
         Phase(c) \in Service!Owning
  PROVE  Owns(c)
<1> USE DEF CallTypeOK, Service!Owning
<1>1. CASE pc[c] = "idle"
  BY <1>1 DEF Phase, Owns
<1>2. CASE pc[c] # "idle" /\ op[c] = "MD_UNLOCK"
  <2>1. conn[c] # "closed" /\ ~Done(c)
    BY <1>2 DEF Phase, Aligned
  <2> QED BY <1>2, <2>1 DEF Owns
<1>3. CASE pc[c] # "idle" /\ op[c] # "MD_UNLOCK"
  <2>1. conn[c] # "closed" /\ Done(c) /\ ok[c]
    BY <1>3 DEF Phase, Aligned
  <2> QED BY <1>3, <2>1 DEF Owns
<1> QED BY <1>1, <1>2, <1>3

\* A call asks, surrenders, or learns the answer; the rest of it is unseen.
LEMMA CallPromise ==
  ASSUME Disciplined, CallTypeOK, up, NEW c \in Client, Aligned(c), OnTask(c),
         pc[c] # "dead", UserStep(c) \/ MainStep(c)
  PROVE  [Service!Next]_(Service!vars)
<1> USE DEF CallTypeOK
<1>0. \A d \in Client \ {c} : SameCall(d)
  BY CallStepFacts DEF Disciplined
<1>1. ASSUME NEW o \in Op, NEW f \in File, Call(c, o, f) PROVE Service!Next
  <2>1. c \in Careful \ (ModifyMd \cup Tool)
    BY DEF Disciplined, AllCareful
  <2>2. /\ pc[c] = "idle" /\ th[c] = "none"
        /\ o = "MD_UNLOCK" <=> cs[c] = "held"
        /\ o = "MD_UNLOCK" => f = file[c]
    BY <1>1, <2>1 DEF Call, Aligned, MayLock, MayTryLock, MayUnlock
  <2>3. /\ pc'[c] = "connected" /\ conn'[c] = "open" /\ th'[c] = "none"
        /\ op'[c] = o /\ file' = [file EXCEPT ![c] = f]
    BY <1>1, <2>2 DEF Call
  <2>4. ~Done(c)'
    BY <2>3 DEF Done
  <2>5. CASE o = "MD_UNLOCK"
    <3>1. Phase(c) = "held" /\ Phase(c)' = "releasing" /\ file' = file
      BY <2>2, <2>3, <2>4, <2>5 DEF Phase
    <3> QED BY <1>0, <3>1, ServiceMove DEF Service!Surrender, Service!Next
  <2>6. CASE o # "MD_UNLOCK"
    <3>1. Phase(c) = "out" /\ Phase(c)' = "asking"
      BY <2>2, <2>3, <2>4, <2>6 DEF Phase
    <3>2. Service!Ask(c, f)
      BY <1>0, <2>3, <3>1, ServiceMove DEF Service!Ask
    <3> QED BY <3>2 DEF Service!Next
  <2> QED BY <2>5, <2>6
<1>2. CASE Send(c)
  <2>1. /\ pc[c] = "connected" /\ conn[c] = "open" /\ th[c] = "none"
        /\ pc'[c] = "waiting" /\ conn'[c] = "request"
        /\ UNCHANGED <<cs, op, file, ok, th>>
    BY <1>2 DEF Send, Aligned
  <2>2. Phase(c)' = Phase(c)
    BY <2>1 DEF Phase, Done
  <2> QED BY <1>0, <2>1, <2>2, ServiceStutter
<1>3. CASE Return(c)
  <2>1. /\ pc[c] = "waiting" /\ conn[c] = "replied" /\ pc'[c] = "idle"
        /\ cs'[c] = Learnt(op[c], ok[c]) /\ file' = file
    BY <1>3 DEF Return
  <2>2. Done(c) /\ op[c] \in Op /\ ok[c] \in BOOLEAN
    BY <2>1 DEF Done
  <2>3. \/ Phase(c) = "released" /\ Phase(c)' = "out"
        \/ Phase(c) = "granted" /\ Phase(c)' = "held"
        \/ Phase(c) = "refused" /\ Phase(c)' = "out"
    BY <2>1, <2>2 DEF Phase, Learnt
  <2>4. Service!Learn(c)
    BY <1>0, <2>1, <2>3, ServiceMove DEF Service!Learn
  <2> QED BY <2>4 DEF Service!Next
<1>4. CASE Accept(c)
  <2>1. UNCHANGED <<pc, cs, op, file, conn, ok, th>>
    BY <1>4 DEF Accept
  <2>2. Phase(c)' = Phase(c)
    BY <2>1 DEF Phase, Done
  <2> QED BY <1>0, <2>1, <2>2, ServiceStutter
<1>5. CASE ReadRequest(c)
  <2>1. /\ conn[c] = "request" /\ th[c] = "none"
        /\ conn'[c] = "taken" /\ th'[c] = "start"
        /\ UNCHANGED <<pc, cs, op, file, ok>>
    BY <1>5 DEF ReadRequest, Aligned
  <2>2. Phase(c)' = Phase(c)
    BY <2>1 DEF Phase, Done
  <2> QED BY <1>0, <2>1, <2>2, ServiceStutter
<1>6. ~Die(c) /\ ~ConnectRefused(c) /\ ~ConnectionLost(c) /\ ~ReadEof(c)
  BY EofOnwards DEF Disciplined, Die, ConnectRefused, ConnectionLost
<1> QED BY <1>1, <1>2, <1>3, <1>4, <1>5, <1>6 DEF UserStep, MainStep

\* A step of the thread of c: what it has done stays done, and the answer
\* stays.
Serves(c) == /\ pc[c] \in {"waiting", "dead"}
             /\ UNCHANGED <<pc, cs, op, file>>
             /\ \A d \in Client \ {c} : SameCall(d)
             /\ Done(c) => Done(c)' /\ ok'[c] = ok[c]
             /\ ok'[c] \in BOOLEAN /\ conn'[c] # "closed"

\* Two owners of a name are one user.
SoleOwner == \A c, d \in Client :
               Owns(c) /\ Owns(d) /\ file[c] = file[d] => c = d

\* A thread grants, refuses or releases, once: and it grants only what nobody
\* owns.
LEMMA ThreadPromise ==
  ASSUME CallTypeOK, NEW c \in Client, Serves(c), SoleOwner',
         \A d \in Client : Aligned(d) /\ pc[d] # "dead"
  PROVE  [Service!Next]_(Service!vars)
<1> USE DEF CallTypeOK, Serves
<1>1. CASE Done(c) \/ ~Done(c)'
  <2>1. Phase(c)' = Phase(c)
    BY <1>1 DEF Phase
  <2> QED BY <2>1, ServiceStutter
<1>2. CASE ~Done(c) /\ Done(c)' /\ op[c] = "MD_UNLOCK"
  <2>1. Phase(c) = "releasing" /\ Phase(c)' = "released"
    BY <1>2 DEF Phase
  <2>2. Service!Release(c)
    BY <2>1, ServiceMove DEF Service!Release
  <2> QED BY <2>2 DEF Service!Next
<1>3. CASE ~Done(c) /\ Done(c)' /\ op[c] # "MD_UNLOCK" /\ ~ok'[c]
  <2>1. Phase(c) = "asking" /\ Phase(c)' = "refused"
    BY <1>3 DEF Phase
  <2>2. Service!Refuse(c)
    BY <2>1, ServiceMove DEF Service!Refuse
  <2> QED BY <2>2 DEF Service!Next
<1>4. CASE ~Done(c) /\ Done(c)' /\ op[c] # "MD_UNLOCK" /\ ok'[c]
  <2>1. Phase(c) = "asking" /\ Phase(c)' = "granted"
    BY <1>4 DEF Phase
  <2>2. Owns(c)'
    BY <1>4 DEF Owns
  <2>3. ASSUME NEW d \in Client, file[d] = file[c]
        PROVE  Phase(d) \notin Service!Owning
    <3>1. CASE d = c
      BY <2>1, <3>1 DEF Service!Owning
    <3>2. CASE d # c
      <4>1. ~Owns(d)
        BY <2>2, <2>3, <3>2, SameOwns DEF SoleOwner
      <4> QED BY <4>1, OwningOwns
    <3> QED BY <3>1, <3>2
  <2>4. \A d \in Client : [x \in Client |-> Phase(x)][d] = Phase(d)
    OBVIOUS
  <2>5. Service!Grant(c)
    BY <2>1, <2>3, <2>4, ServiceMove DEF Service!Grant
  <2> QED BY <2>5 DEF Service!Next
<1> QED BY <1>1, <1>2, <1>3, <1>4
=============================================================================
