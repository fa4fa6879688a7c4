------------------------- MODULE MdMutexHash_prompt -------------------------
(***************************************************************************)
(* Proofs about the hash server, for every number of users, files, blocks  *)
(* and chains: in every schedule, a second mutex for a name comes only of  *)
(* the race on the head; in the prompt schedules, where no thread gets     *)
(* between another's reading of a head and its locking of glob_mutex, a    *)
(* name has one mutex, careful users keep theirs although others die, and  *)
(* when none dies every step is one of the service MdMutex.                *)
(***************************************************************************)
EXTENDS MdMutexHash_proofs

USE DEF Client, Name, Op, ConnState, ThreadStep, callVars, fields, hashVars, vars

-----------------------------------------------------------------------------
(* The prompt schedules are schedules *)

LEMMA PromptIsSpec == PromptSpec => Spec
<1>1. [Next /\ Prompt]_vars => [Next]_vars
  OBVIOUS
<1> QED BY <1>1, PTL DEF PromptSpec, Spec

LEMMA AcyclicAlways == Spec => []Acyclic
  BY ChainAlways, AcyclicInit, AcyclicStep, PTL DEF Spec

\* Only ReadHead takes a thread to its walk.
LEMMA HeadSeenStep ==
  ASSUME ChainInv, HeadSeen, [Next /\ Prompt]_vars
  PROVE  HeadSeen'
<1> USE DEF ChainInv, TypeOK, CallTypeOK
<1>1. CASE UNCHANGED vars
  BY <1>1 DEF HeadSeen
<1>2. CASE Next /\ Prompt
  <2> SUFFICES ASSUME NEW d \in Client, th'[d] = "get"
               PROVE  seen'[d] = head'[hash_func[file'[d]]]
    BY DEF HeadSeen
  <2>1. th[d] # "get"
    BY <1>2 DEF Prompt
  <2>2. PICK c \in Client : CallStep(c) \/ ThreadStepOf(c)
    BY <1>2 DEF Next
  <2>3. ~CallStep(c)
    BY <2>1 DEF CallStep, UserStep, MainStep, Call, Send, Return, Die,
       ConnectRefused, ConnectionLost, Accept, ReadRequest, ReadEof
  <2>4. \A b \in Block : ~GetMatch(c, b) /\ ~GetNew(c, b)
    <3>1. Operate(op[c]) # "get"
      BY OperateType
    <3> QED BY <2>1, <3>1 DEF GetMatch, GetNew, Got, Step
  <2>5. /\ ~GetNone(c) /\ ~Dangle(c) /\ ~Lock(c) /\ ~TryOk(c) /\ ~TryFail(c)
        /\ ~Unlock(c) /\ ~PutShared(c) /\ ~PutLast(c) /\ ~Reply(c)
    BY <2>1 DEF GetNone, Got, Dangle, Lock, TryOk, TryFail, Unlock, PutShared,
       PutLast, PutBack, Reply, Step
  <2>6. ReadHead(c)
    BY <2>2, <2>3, <2>4, <2>5 DEF ThreadStepOf
  <2>7. c = d
    BY <2>1, <2>6 DEF ReadHead, Step
  <2> QED BY <2>6, <2>7 DEF ReadHead, Step
<1> QED BY <1>1, <1>2

-----------------------------------------------------------------------------
(* A walk from the head finds the name if it is there *)

\* It never leaves the allocated blocks.
LEMMA WalkLive ==
  ASSUME ChainInv, HeadSeen, NEW c \in Client, th[c] = "get"
  PROVE  Walk(c) = Nil \/ (Walk(c) \in Block /\ live[Walk(c)])
<1> DEFINE N == Cardinality(Block)
           G == {p \in Pointer : p = Nil \/ live[p]}
<1>1. PICK w \in [0 .. N -> Pointer] :
        /\ Iterates(w, N, seen[c], Onward(file[c]))
        /\ Walk(c) = w[N]
  BY WalkPath
<1>2. N \in Nat
  BY HashAssumption, FS_CardinalityType
<1>3. hash_func[file[c]] \in Bucket
  BY HashAssumption DEF ChainInv, TypeOK, CallTypeOK
<1>4. seen[c] \in G
  BY <1>3 DEF HeadSeen, ChainInv, TypeOK, ChainsLinked
<1>5. \A x \in G : Onward(file[c])[x] \in G
  BY DEF Onward, Ends, ChainInv, TypeOK, ChainsLinked, Pointer
<1>6. \A k \in 0 .. N : w[k] \in G
  <2> HIDE DEF G, N
  <2> QED BY <1>1, <1>2, <1>4, <1>5, Carried
<1>7. N \in 0 .. N
  BY <1>2
<1> QED BY <1>1, <1>6, <1>7 DEF Pointer

\* Blocks of a set have one of least number.
LEMMA LeastRank ==
  ASSUME NEW rank \in [Block -> Nat], NEW T \in SUBSET Block, T # {}
  PROVE  \E x \in T : \A y \in T : rank[x] <= rank[y]
<1> DEFINE R == {rank[x] : x \in T}
<1>1. R \in SUBSET Nat /\ R # {}
  OBVIOUS
<1>2. PICK m \in R : \A n \in R : m <= n
  BY <1>1, Least
<1>3. PICK x \in T : rank[x] = m
  BY <1>2
<1> QED BY <1>2, <1>3

\* When it finds nothing there is nothing: it has passed every block of the
\* chain.  The first block it would have missed comes after one it has passed.
LEMMA WalkMisses ==
  ASSUME ChainInv, Acyclic, NEW c \in Client, th[c] = "get",
         seen[c] = head[hash_func[file[c]]], Walk(c) = Nil
  PROVE  \A b \in Block : live[b] => fname[b] # file[c]
<1> DEFINE N == Cardinality(Block)
           h == hash_func[file[c]]
<1>1. PICK w \in [0 .. N -> Pointer] :
        /\ Iterates(w, N, seen[c], Onward(file[c]))
        /\ Walk(c) = w[N]
  BY WalkPath
<1>2. /\ N \in Nat
      /\ w[0] = seen[c]
      /\ \A k \in 0 .. N - 1 :
           w[k + 1] = IF Ends(w[k], file[c]) THEN w[k] ELSE next[w[k]]
  BY <1>1, WalkFacts
<1>3. h \in Bucket /\ Nil \notin Block
  BY HashAssumption DEF ChainInv, TypeOK, CallTypeOK
<1>4. seen[c] = head[h]
  OBVIOUS
<1>5. ASSUME NEW k \in 0 .. N, w[k] # Nil PROVE ~Ends(w[k], file[c])
  BY <1>1, <1>5, WalkStays
<1> DEFINE T == {x \in Block : /\ live[x] /\ hash_func[fname[x]] = h
                               /\ \A k \in 0 .. N : w[k] # x}
<1>6. T = {}
  <2> SUFFICES ASSUME T # {} PROVE FALSE
    OBVIOUS
  <2>1. PICK rank \in [Block -> Nat] : Ordered(rank)
    BY DEF Acyclic
  <2>2. PICK x \in T : \A y \in T : rank[x] <= rank[y]
    BY LeastRank
  <2>3. /\ x \in Block /\ live[x] /\ hash_func[fname[x]] = h
        /\ \A k \in 0 .. N : w[k] # x
    BY <2>2
  <2>4. pre[x] # Nil
    <3> SUFFICES ASSUME pre[x] = Nil PROVE FALSE
      OBVIOUS
    <3>1. head[h] = x
      BY <2>3 DEF ChainInv, ChainsLinked
    <3>2. 0 \in 0 .. N
      BY <1>2
    <3> QED BY <1>2, <1>4, <2>3, <3>1, <3>2
  <2>5. /\ pre[x] \in Block /\ live[pre[x]] /\ next[pre[x]] = x
        /\ rank[pre[x]] < rank[x] /\ rank[pre[x]] \in Nat /\ rank[x] \in Nat
    BY <2>1, <2>3, <2>4 DEF ChainInv, TypeOK, ChainsLinked, Ordered, Pointer
  <2>6. hash_func[fname[pre[x]]] = h
    BY <1>3, <2>3, <2>5 DEF ChainInv, ChainsLinked
  <2>7. pre[x] \notin T
    <3>1. pre[x] \in T => rank[x] <= rank[pre[x]]
      BY <2>2
    <3> HIDE DEF T
    <3> QED BY <2>5, <3>1
  <2>8. PICK k \in 0 .. N : w[k] = pre[x]
    BY <2>5, <2>6, <2>7
  <2>9. k \in 0 .. N - 1
    <3>1. k # N
      BY <1>1, <1>3, <2>5, <2>8
    <3> QED BY <1>2, <2>8, <3>1
  <2>10. ~Ends(w[k], file[c])
    BY <1>3, <1>5, <2>5, <2>8
  <2>11. w[k + 1] = x /\ k + 1 \in 0 .. N
    BY <1>2, <2>5, <2>8, <2>9, <2>10
  <2> QED BY <2>3, <2>11
<1>7. ASSUME NEW b \in Block, live[b], fname[b] = file[c] PROVE FALSE
  <2>1. b \notin T
    BY <1>6
  <2>2. PICK k \in 0 .. N : w[k] = b
    BY <1>7, <2>1
  <2>3. ~Ends(w[k], file[c])
    BY <1>3, <1>5, <2>2
  <2> QED BY <1>7, <2>2, <2>3 DEF Ends
<1> QED BY <1>7

\* When it finds a block, it is one of the name.
LEMMA WalkFinds ==
  ASSUME ChainInv, Acyclic, HeadSeen, NEW c \in Client, th[c] = "get",
         Walk(c) # Nil
  PROVE  Walk(c) \in Block /\ live[Walk(c)] /\ fname[Walk(c)] = file[c]
<1>1. Walk(c) \in Block /\ live[Walk(c)]
  BY WalkLive
<1>2. Ends(Walk(c), file[c])
  BY WalkEnds
<1> HIDE DEF Walk
<1> QED BY <1>1, <1>2 DEF Ends

-----------------------------------------------------------------------------
(* A second mutex for a name, in every schedule *)

(* Whatever the users and the schedule do, get_zz_mutex allocates a mutex  *)
(* for a name that has one only in a thread that read the head of the      *)
(* chain before another moved it (the race between the reading of          *)
(* mutex_hash and the locking of glob_mutex).                              *)
THEOREM SecondNodeOnlyByRace == Spec => SecondNodeByRace
<1> DEFINE Raced(a, b) ==
      live[a] /\ ~live[b] /\ live'[b] /\ fname'[b] = fname[a] =>
        \E c \in Client : /\ th[c] = "get" /\ th'[c] # "get"
                          /\ file[c] = fname[a]
                          /\ seen[c] # head[hash_func[file[c]]]
<1>1. ASSUME ChainInv, Acyclic, [Next]_vars, NEW a \in Block, NEW b \in Block,
             live[a], ~live[b], live'[b], fname'[b] = fname[a]
      PROVE  \E c \in Client : /\ th[c] = "get" /\ th'[c] # "get"
                               /\ file[c] = fname[a]
                               /\ seen[c] # head[hash_func[file[c]]]
  <2> USE DEF ChainInv, TypeOK
  <2>1. ~UNCHANGED live
    BY <1>1
  <2>2. \A c \in Client : ~PutLast(c)
    BY <1>1 DEF PutLast
  <2>3. PICK c \in Client, x \in Block : GetNew(c, x)
    BY <1>1, <2>1, <2>2
       DEF Next, CallStep, ThreadStepOf, ReadHead, GetNone, Dangle, GetMatch, Lock,
           TryOk, TryFail, Unlock, PutShared, Reply
  <2>4. x = b /\ fname'[b] = file[c]
    BY <1>1, <2>3 DEF GetNew
  <2>5. th[c] = "get" /\ Walk(c) = Nil /\ th'[c] # "get"
    <3>1. Operate(op[c]) # "get"
      BY <1>1, OperateType DEF CallTypeOK
    <3> QED BY <1>1, <2>3, <3>1 DEF CallTypeOK, GetNew, Got, Step
  <2>6. seen[c] # head[hash_func[file[c]]]
    BY <1>1, <2>4, <2>5, WalkMisses
  <2> QED BY <1>1, <2>4, <2>5, <2>6
<1>2. ChainInv /\ Acyclic /\ [Next]_vars => [\A a, b \in Block : Raced(a, b)]_vars
  BY <1>1
<1> QED BY <1>2, ChainAlways, AcyclicAlways, PTL DEF Spec, SecondNodeByRace

-----------------------------------------------------------------------------
(* One mutex per name in the prompt schedules, whatever the users do *)

LEMMA UniqueStep ==
  ASSUME ChainInv, Acyclic, HeadSeen, UniqueNode, [Next]_vars
  PROVE  UniqueNode'
<1> USE DEF ChainInv, TypeOK
<1>1. CASE UNCHANGED <<live, fname>>
  BY <1>1 DEF UniqueNode
<1>2. ASSUME NEW c \in Client, NEW b \in Block, GetNew(c, b) PROVE UniqueNode'
  <2>1. th[c] = "get" /\ Walk(c) = Nil
    BY <1>2 DEF GetNew, Got, Step
  <2>2. \A x \in Block : live[x] => fname[x] # file[c]
    BY <2>1, WalkMisses DEF HeadSeen
  <2>3. /\ live' = [live EXCEPT ![b] = TRUE]
        /\ fname' = [fname EXCEPT ![b] = file[c]]
    BY <1>2 DEF GetNew
  <2> QED BY <2>2, <2>3 DEF UniqueNode
<1>3. ASSUME NEW c \in Client, PutLast(c) PROVE UniqueNode'
  <2>1. /\ live' = [live EXCEPT ![mtx[c]] = FALSE]
        /\ fname' = [fname EXCEPT ![mtx[c]] = NoName]
    BY <1>3 DEF PutLast
  <2>2. \A x \in Block : live'[x] => live[x] /\ fname'[x] = fname[x]
    BY <2>1
  <2> QED BY <2>2 DEF UniqueNode
<1> QED
  BY <1>1, <1>2, <1>3
     DEF Next, CallStep, ThreadStepOf, ReadHead, GetNone, Dangle, GetMatch, Lock,
         TryOk, TryFail, Unlock, PutShared, Reply

LEMMA PromptHeads == PromptSpec => []HeadSeen
<1>1. Init => HeadSeen
  BY DEF Init, CallInit, HeadSeen
<1>2. ChainInv /\ HeadSeen /\ [Next /\ Prompt]_vars => HeadSeen'
  BY HeadSeenStep
<1> QED BY <1>1, <1>2, ChainAlways, PromptIsSpec, PTL DEF PromptSpec

(* In the prompt schedules a name has one mutex. *)
LEMMA OneNodePerName == PromptSpec => []UniqueNode
<1>1. Init => UniqueNode
  BY DEF Init, UniqueNode
<1>2. ChainInv /\ Acyclic /\ HeadSeen /\ UniqueNode /\ [Next /\ Prompt]_vars
        => UniqueNode'
  BY UniqueStep
<1> QED
  BY <1>1, <1>2, ChainAlways, AcyclicAlways, PromptHeads, PromptIsSpec, PTL
     DEF PromptSpec

-----------------------------------------------------------------------------
(* Users of a block *)

LEMMA UsersFinite == ASSUME NEW b
                     PROVE  IsFiniteSet(Users(b)) /\ Cardinality(Users(b)) \in Nat
<1>1. Users(b) \subseteq Client
  BY DEF Users
<1> QED BY <1>1, CallAssumption, FS_Subset, FS_CardinalityType

LEMMA UsersTake ==
  ASSUME TypeOK, NEW c \in Client, NEW b, mtx' = [mtx EXCEPT ![c] = b]
  PROVE  /\ Users(b)' = Users(b) \cup {c}
         /\ \A x : x # b => Users(x)' = Users(x) \ {c}
  BY DEF Users, TypeOK

LEMMA CardTake ==
  ASSUME NEW c \in Client, NEW b
  PROVE  /\ Cardinality(Users(b) \cup {c}) \in Nat
         /\ Cardinality(Users(b) \cup {c}) <= Cardinality(Users(b)) + 1
         /\ c \notin Users(b) =>
              Cardinality(Users(b) \cup {c}) = Cardinality(Users(b)) + 1
<1>1. CASE c \in Users(b)
  <2>1. Users(b) \cup {c} = Users(b) /\ Cardinality(Users(b)) \in Nat
    BY <1>1, UsersFinite
  <2>2. Cardinality(Users(b)) <= Cardinality(Users(b)) + 1
    BY <2>1
  <2> QED BY <1>1, <2>1, <2>2
<1>2. CASE c \notin Users(b)
  BY <1>2, UsersFinite, FS_AddElement
<1> QED BY <1>1, <1>2

LEMMA CardGive ==
  ASSUME NEW c \in Client, NEW b
  PROVE  /\ Cardinality(Users(b) \ {c}) \in Nat
         /\ Cardinality(Users(b) \ {c}) <= Cardinality(Users(b))
         /\ c \in Users(b) =>
              Cardinality(Users(b) \ {c}) = Cardinality(Users(b)) - 1
<1>1. CASE c \in Users(b)
  <2>1. /\ Cardinality(Users(b)) \in Nat
        /\ IsFiniteSet(Users(b) \ {c})
        /\ Cardinality(Users(b) \ {c}) = Cardinality(Users(b)) - 1
    BY <1>1, UsersFinite, FS_RemoveElement
  <2>2. Cardinality(Users(b) \ {c}) \in Nat
    BY <2>1, FS_CardinalityType
  <2> QED BY <2>1, <2>2
<1>2. CASE c \notin Users(b)
  <2>1. Users(b) \ {c} = Users(b)
    BY <1>2
  <2> QED BY <1>2, <2>1, UsersFinite
<1> QED BY <1>1, <1>2

\* The users of a block whose count is one.
LEMMA LastUser ==
  ASSUME NEW c \in Client, NEW b, c \in Users(b), Cardinality(Users(b)) <= 1
  PROVE  Users(b) = {c}
<1>1. IsFiniteSet(Users(b)) /\ Cardinality(Users(b)) \in Nat
  BY UsersFinite
<1>2. Cardinality(Users(b)) # 0
  BY <1>1, FS_EmptySet
<1>3. Cardinality(Users(b)) = 1
  BY <1>1, <1>2
<1>4. \E x : Users(b) = {x}
  BY <1>1, <1>3, FS_Singleton
<1> QED BY <1>4

\* A pointer a user keeps is to an allocated block with a positive count.
LEMMA MtxLive ==
  ASSUME TypeOK, NoEarlyFree, NEW c \in Client, mtx[c] # Nil
  PROVE  /\ mtx[c] \in Block /\ live[mtx[c]] /\ c \in Users(mtx[c])
         /\ count[mtx[c]] >= Cardinality(Users(mtx[c]))
<1>1. mtx[c] \in Block /\ c \in Users(mtx[c])
  BY DEF TypeOK, Pointer, Users
<1> QED BY <1>1 DEF NoEarlyFree

\* get_zz_mutex: the block found gains at most one user, the others none.
LEMMA TakeBlock ==
  ASSUME TypeOK, NoEarlyFree, NEW c \in Client, NEW b \in Block,
         mtx' = [mtx EXCEPT ![c] = b],
         live'[b], count'[b] >= Cardinality(Users(b)) + 1,
         count'[b] \in Nat,
         \A x \in Block \ {b} : live'[x] = live[x] /\ count'[x] = count[x]
  PROVE  NoEarlyFree'
<1>1. /\ Users(b)' = Users(b) \cup {c}
      /\ \A x \in Block \ {b} : Users(x)' = Users(x) \ {c}
  BY UsersTake
<1>2. count'[b] >= Cardinality(Users(b)')
  <2>1. /\ Cardinality(Users(b)) \in Nat
        /\ Cardinality(Users(b) \cup {c}) \in Nat
        /\ Cardinality(Users(b) \cup {c}) <= Cardinality(Users(b)) + 1
    BY UsersFinite, CardTake
  <2> QED BY <1>1, <2>1
<1>3. ASSUME NEW x \in Block \ {b}, Users(x)' # {}
      PROVE  live'[x] /\ count'[x] >= Cardinality(Users(x)')
  <2>1. Users(x)' = Users(x) \ {c} /\ Users(x) # {}
    BY <1>1, <1>3
  <2>2. live[x] /\ count[x] >= Cardinality(Users(x))
    BY <2>1 DEF NoEarlyFree
  <2>3. /\ Cardinality(Users(x)) \in Nat /\ Cardinality(Users(x) \ {c}) \in Nat
        /\ Cardinality(Users(x) \ {c}) <= Cardinality(Users(x))
    BY UsersFinite, CardGive
  <2>4. live'[x] = live[x] /\ count'[x] = count[x] /\ count[x] \in Nat
    BY DEF TypeOK
  <2> QED BY <2>1, <2>2, <2>3, <2>4
<1> QED BY <1>2, <1>3 DEF NoEarlyFree

\* put_zz_mutex: the block loses its user, and is freed with the last one.
LEMMA GiveBlock ==
  ASSUME TypeOK, NoEarlyFree, NEW c \in Client, NEW b \in Block, mtx[c] = b,
         mtx' = [mtx EXCEPT ![c] = Nil],
         count' = [count EXCEPT ![b] = count[b] - 1],
         \A x \in Block \ {b} : live'[x] = live[x],
         count[b] # 1 => live'[b] = live[b]
  PROVE  NoEarlyFree'
<1>0. Nil \notin Block
  BY HashAssumption
<1>1. \A x \in Block : Users(x)' = Users(x) \ {c}
  BY <1>0, UsersTake
<1>2. c \in Users(b) /\ \A x \in Block \ {b} : c \notin Users(x)
  BY DEF Users
<1>3. \A x \in Block \ {b} : Users(x)' = Users(x) /\ count'[x] = count[x]
  <2>1. \A x \in Block \ {b} : Users(x)' = Users(x)
    BY <1>1, <1>2
  <2>2. \A x \in Block \ {b} : count'[x] = count[x]
    BY DEF TypeOK
  <2> QED BY <2>1, <2>2
<1>4. /\ live[b] /\ count[b] >= Cardinality(Users(b))
      /\ Cardinality(Users(b)) \in Nat /\ count[b] \in Nat
      /\ count'[b] = count[b] - 1
  BY <1>2, UsersFinite DEF NoEarlyFree, TypeOK
<1>5. ASSUME Users(b)' # {}
      PROVE  live'[b] /\ count'[b] >= Cardinality(Users(b)')
  <2>1. Users(b)' = Users(b) \ {c}
    BY <1>1
  <2>2. Cardinality(Users(b) \ {c}) = Cardinality(Users(b)) - 1
    BY <1>2, CardGive
  <2>3. count[b] # 1
    <3>1. count[b] = 1 => Users(b) = {c}
      BY <1>2, <1>4, LastUser
    <3> QED BY <1>5, <2>1, <3>1
  <2>4. count[b] - 1 >= Cardinality(Users(b)) - 1
    BY <1>4
  <2>5. count'[b] >= Cardinality(Users(b) \ {c})
    BY <1>4, <2>2, <2>4
  <2> QED BY <1>4, <2>1, <2>3, <2>5
<1>6. ASSUME NEW x \in Block \ {b}, Users(x)' # {}
      PROVE  live'[x] /\ count'[x] >= Cardinality(Users(x)')
  BY <1>3, <1>6 DEF NoEarlyFree
<1> QED BY <1>5, <1>6 DEF NoEarlyFree

LEMMA DropBlock ==
  ASSUME TypeOK, NoEarlyFree, UNCHANGED <<mtx, live, count>>
  PROVE  NoEarlyFree'
  BY DEF NoEarlyFree, Users

-----------------------------------------------------------------------------
(* What is left to show of a step of c *)

Same(d) == SameCall(d) /\ mtx'[d] = mtx[d]

LEMMA Others ==
  ASSUME NEW d \in Client, Same(d), Aligned(d), OnTask(d), HasMutex(d),
         mtx[d] # Nil => fname'[mtx[d]] = fname[mtx[d]]
  PROVE  Aligned(d)' /\ OnTask(d)' /\ HasMutex(d)'
<1>1. Owns(d)' <=> Owns(d)
  BY SameOwns DEF Same
<1>2. HasMutex(d)'
  BY <1>1 DEF HasMutex, Same, SameCall
<1> QED BY <1>2, SameKept DEF Same

\* Locks and owners still agree when c loses a name, and no owner its lock.
LEMMA OwnersKept ==
  ASSUME OwnersLocked, NEW c \in Client, \A d \in Client \ {c} : Same(d),
         Owns(c)' => Owns(c) /\ mtx'[c] = mtx[c],
         \A d \in Client : Owns(d)' => locked'[mtx[d]] = locked[mtx[d]]
  PROVE  OwnersLocked'
<1>1. \A d \in Client : Owns(d)' => Owns(d) /\ mtx'[d] = mtx[d]
  BY SameOwns DEF Same
<1> QED BY <1>1 DEF OwnersLocked

LEMMA Assemble ==
  ASSUME Surviving, UniqueNode', NEW c \in Client, up',
         \A d \in Client \ {c} : Same(d),
         \A d \in Client \ {c} :
           mtx[d] # Nil => fname'[mtx[d]] = fname[mtx[d]],
         Aligned(c)' /\ OnTask(c)' /\ HasMutex(c)',
         NoEarlyFree', OwnersLocked'
  PROVE  Surviving'
<1>1. ASSUME NEW d \in Client \ {c}
      PROVE  Aligned(d)' /\ OnTask(d)' /\ HasMutex(d)'
  BY <1>1, Others DEF Surviving
<1> QED BY <1>1 DEF Surviving

\* A step of c that touches neither a block nor its pointer, and after which
\* c owns no more than before.
LEMMA SilentStep ==
  ASSUME TypeOK, Surviving, UniqueNode', NEW c \in Client, up',
         \A d \in Client \ {c} : Same(d),
         UNCHANGED <<live, count, fname, locked, mtx>>,
         Aligned(c)' /\ OnTask(c)' /\ HasMutex(c)',
         Owns(c)' => Owns(c)
  PROVE  Surviving'
<1>1. OwnersLocked'
  BY OwnersKept DEF Surviving
<1>2. NoEarlyFree'
  BY DropBlock DEF Surviving
<1> QED BY <1>1, <1>2, Assemble

-----------------------------------------------------------------------------
(* The steps, one by one *)

LEMMA CallSurvives ==
  ASSUME AllCareful, ChainInv, Surviving, UniqueNode',
         NEW c \in Client, CallStep(c)
  PROVE  Surviving'
<1>1. /\ up /\ Aligned(c) /\ OnTask(c) /\ HasMutex(c) /\ UNCHANGED hashVars
      /\ TypeOK
  BY DEF Surviving, CallStep, ChainInv
<1>2. up' /\ Onwards(c) /\ \A d \in Client \ {c} : SameCall(d)
  BY <1>1, CallStepFacts DEF CallStep, TypeOK
<1>3. \A d \in Client \ {c} : Same(d)
  BY <1>1, <1>2 DEF Same
<1>4. HasMutex(c)'
  BY <1>1, <1>2 DEF HasMutex, Onwards
<1> QED BY <1>1, <1>2, <1>3, <1>4, SilentStep DEF Onwards

\* What every step of a thread has in common.
LEMMA ThreadFacts ==
  ASSUME TypeOK, Surviving, NEW c \in Client, NEW from, NEW to,
         Step(c, from, to), from # "none"
  PROVE  /\ up /\ th[c] = from /\ th'[c] = to
         /\ conn[c] = "taken" /\ pc[c] \in {"waiting", "dead"} /\ cs[c] # "held"
         /\ UNCHANGED <<pc, cs, op, file>>
         /\ \A d \in Client \ {c} : th'[d] = th[d]
         /\ Aligned(c) /\ OnTask(c) /\ HasMutex(c)
  BY StepFacts DEF TypeOK, Surviving

LEMMA ReadHeadSurvives ==
  ASSUME TypeOK, Surviving, UniqueNode', NEW c \in Client, ReadHead(c)
  PROVE  Surviving'
<1> USE DEF TypeOK, CallTypeOK
<1>1. /\ up /\ th[c] = "start" /\ th'[c] = "get"
      /\ conn[c] = "taken" /\ pc[c] \in {"waiting", "dead"} /\ cs[c] # "held"
      /\ UNCHANGED <<pc, cs, op, file>>
      /\ \A d \in Client \ {c} : th'[d] = th[d]
      /\ Aligned(c) /\ OnTask(c) /\ HasMutex(c)
  BY ThreadFacts DEF ReadHead
<1>2. UNCHANGED <<conn, ok, up, head, fields, mtx>>
  BY DEF ReadHead
<1>3. \A d \in Client \ {c} : Same(d)
  BY <1>1, <1>2 DEF Same, SameCall
<1>4. Owns(c)' <=> Owns(c)
  BY <1>1, <1>2 DEF Owns, Done
<1>5. Aligned(c)' /\ OnTask(c)'
  BY <1>1, <1>2 DEF Aligned, OnTask, Done
<1>6. HasMutex(c)'
  BY <1>1, <1>2, <1>4 DEF HasMutex
<1> QED BY <1>1, <1>2, <1>3, <1>4, <1>5, <1>6, SilentStep

\* The thread of an owner finds the mutex it owns.
LEMMA OwnMutexFound ==
  ASSUME ChainInv, Acyclic, HeadSeen, Surviving, NEW c \in Client,
         th[c] = "get", Owns(c)
  PROVE  Walk(c) = mtx[c] /\ mtx[c] \in Block
<1>1. /\ mtx[c] \in Block /\ live[mtx[c]] /\ fname[mtx[c]] = file[c]
  BY MtxLive DEF Surviving, HasMutex, ChainInv
<1>2. Walk(c) # Nil
  BY <1>1, WalkMisses DEF HeadSeen
<1>3. Walk(c) \in Block /\ live[Walk(c)] /\ fname[Walk(c)] = file[c]
  BY <1>2, WalkFinds
<1> HIDE DEF Walk
<1> QED BY <1>1, <1>3 DEF Surviving, UniqueNode

\* Whether a request gets a block: an unlock only from a user that owns one.
LEMMA GotOwns ==
  ASSUME TypeOK, Surviving, NEW c \in Client, NEW b, Got(c, Operate(op[c]), b),
         ok' = ok
  PROVE  /\ up' /\ th[c] = "get" /\ th'[c] = Operate(op[c])
         /\ conn[c] = "taken" /\ pc[c] \in {"waiting", "dead"} /\ cs[c] # "held"
         /\ UNCHANGED <<pc, cs, op, file>>
         /\ \A d \in Client \ {c} : th'[d] = th[d]
         /\ Aligned(c) /\ OnTask(c) /\ HasMutex(c)
         /\ Aligned(c)' /\ OnTask(c)'
         /\ Owns(c)' <=> Owns(c)
         /\ Owns(c) <=> op[c] = "MD_UNLOCK"
         /\ \A d \in Client \ {c} : Same(d)
         /\ mtx' = [mtx EXCEPT ![c] = b]
<1> USE DEF TypeOK, CallTypeOK
<1>0. Step(c, "get", Operate(op[c]))
  BY DEF Got
<1>1. /\ up /\ th[c] = "get" /\ th'[c] = Operate(op[c])
      /\ conn[c] = "taken" /\ pc[c] \in {"waiting", "dead"} /\ cs[c] # "held"
      /\ UNCHANGED <<pc, cs, op, file>>
      /\ \A d \in Client \ {c} : th'[d] = th[d]
      /\ Aligned(c) /\ OnTask(c) /\ HasMutex(c)
  BY <1>0, ThreadFacts
<1>2. mtx' = [mtx EXCEPT ![c] = b] /\ UNCHANGED <<conn, ok, up>>
  BY DEF Got
<1>3. \A d \in Client \ {c} : Same(d)
  BY <1>1, <1>2 DEF Same, SameCall
<1>4. th'[c] = CASE op[c] = "MD_LOCK" -> "lock"
                 [] op[c] = "MD_TRY_LOCK" -> "try"
                 [] op[c] = "MD_UNLOCK" -> "unlock"
  BY <1>1 DEF Operate
<1>5. Aligned(c)' /\ OnTask(c)'
  BY <1>1, <1>2, <1>4 DEF Aligned, OnTask, Done
<1>6. (Owns(c)' <=> Owns(c)) /\ (Owns(c) <=> op[c] = "MD_UNLOCK")
  BY <1>1, <1>2, <1>4 DEF Owns, Done
<1>7. up'
  BY <1>1, <1>2
<1> QED BY <1>1, <1>2, <1>3, <1>5, <1>6, <1>7

LEMMA MatchSurvives ==
  ASSUME ChainInv, Acyclic, HeadSeen, Surviving, UniqueNode',
         NEW c \in Client, NEW b \in Block, GetMatch(c, b)
  PROVE  Surviving'
<1>0. TypeOK /\ Got(c, Operate(op[c]), b) /\ ok' = ok
  <2>1. Got(c, Operate(op[c]), b) /\ UNCHANGED <<ok, head>>
    BY DEF GetMatch
  <2> QED BY <2>1 DEF ChainInv
<1>1. /\ up' /\ th[c] = "get" /\ th'[c] = Operate(op[c])
      /\ UNCHANGED <<op, file>>
      /\ Aligned(c)' /\ OnTask(c)'
      /\ Owns(c)' <=> Owns(c)
      /\ Owns(c) <=> op[c] = "MD_UNLOCK"
      /\ \A d \in Client \ {c} : Same(d)
      /\ mtx' = [mtx EXCEPT ![c] = b]
  BY <1>0, GotOwns
<1>2. /\ b = Walk(c) /\ live[b] /\ fname[b] = file[c]
      /\ count' = IF op[c] = "MD_UNLOCK" THEN count
                                         ELSE [count EXCEPT ![b] = @ + 1]
      /\ UNCHANGED <<head, live, fname, locked, pre, next>>
  <2>1. b = Walk(c) /\ b # Nil /\ live[b]
    BY DEF GetMatch
  <2>2. fname[b] = file[c]
    BY <1>1, <2>1, WalkFinds
  <2> QED BY <2>1, <2>2 DEF GetMatch
<1>3. Nil \notin Block
  BY HashAssumption
<1>4. HasMutex(c)'
  BY <1>0, <1>1, <1>2, <1>3 DEF HasMutex, TypeOK
<1>5. CASE op[c] = "MD_UNLOCK"
  <2>1. b = mtx[c]
    BY <1>1, <1>2, <1>5, OwnMutexFound
  <2>2. mtx' = mtx /\ count' = count
    BY <1>0, <1>1, <1>2, <1>5, <2>1 DEF TypeOK
  <2> QED BY <1>0, <1>1, <1>2, <1>4, <2>2, SilentStep
<1>6. CASE op[c] # "MD_UNLOCK"
  <2>1. OwnersLocked'
    BY <1>1, <1>2, <1>6, OwnersKept DEF Surviving
  <2>2. /\ count'[b] = count[b] + 1 /\ count[b] \in Nat
        /\ \A x \in Block \ {b} : live'[x] = live[x] /\ count'[x] = count[x]
    BY <1>0, <1>2, <1>6 DEF TypeOK
  <2>3. count[b] >= Cardinality(Users(b))
    <3>1. CASE Users(b) # {}
      BY <3>1 DEF Surviving, NoEarlyFree
    <3>2. CASE Users(b) = {}
      <4>1. Cardinality(Users(b)) = 0
        BY <3>2, FS_EmptySet
      <4> QED BY <2>2, <4>1
    <3> QED BY <3>1, <3>2
  <2>4. NoEarlyFree'
    <3>1. Cardinality(Users(b)) \in Nat
      BY UsersFinite
    <3>2. count'[b] \in Nat /\ count'[b] >= Cardinality(Users(b)) + 1
      BY <2>2, <2>3, <3>1
    <3> QED BY <1>0, <1>1, <1>2, <2>2, <3>2, TakeBlock DEF Surviving
  <2> QED BY <1>1, <1>2, <1>4, <2>1, <2>4, Assemble
<1> QED BY <1>5, <1>6

LEMMA NewSurvives ==
  ASSUME ChainInv, Surviving, UniqueNode', NEW c \in Client, NEW b \in Block,
         GetNew(c, b)
  PROVE  Surviving'
<1>0. TypeOK /\ Got(c, Operate(op[c]), b) /\ ok' = ok
  BY DEF ChainInv, GetNew
<1>1. /\ up' /\ th[c] = "get" /\ th'[c] = Operate(op[c])
      /\ UNCHANGED <<op, file>>
      /\ Aligned(c)' /\ OnTask(c)'
      /\ Owns(c)' <=> Owns(c)
      /\ Owns(c) <=> op[c] = "MD_UNLOCK"
      /\ \A d \in Client \ {c} : Same(d)
      /\ mtx' = [mtx EXCEPT ![c] = b]
  BY <1>0, GotOwns
<1>2. /\ op[c] # "MD_UNLOCK" /\ ~live[b]
      /\ live' = [live EXCEPT ![b] = TRUE]
      /\ locked' = [locked EXCEPT ![b] = FALSE]
      /\ fname' = [fname EXCEPT ![b] = file[c]]
      /\ count' = [count EXCEPT ![b] = 1]
  BY DEF GetNew
<1>3. Nil \notin Block
  BY HashAssumption
<1>4. HasMutex(c)'
  BY <1>0, <1>1, <1>2, <1>3 DEF HasMutex, TypeOK
<1>5. \A d \in Client : mtx[d] # b
  BY <1>0, <1>2, <1>3, MtxLive DEF Surviving
<1>6. \A d \in Client \ {c} :
        mtx[d] # Nil => /\ fname'[mtx[d]] = fname[mtx[d]]
                        /\ locked'[mtx[d]] = locked[mtx[d]]
  BY <1>0, <1>2, <1>5 DEF TypeOK, Pointer
<1>7. OwnersLocked'
  <2>1. ~Owns(c)' /\ \A d \in Client : Owns(d)' => d # c /\ Owns(d)
    BY <1>1, <1>2, SameOwns DEF Same
  <2>2. \A d \in Client : Owns(d)' => locked'[mtx[d]] = locked[mtx[d]]
    BY <1>6, <2>1 DEF Surviving, HasMutex
  <2> QED BY <1>1, <2>1, <2>2, OwnersKept DEF Surviving
<1>8. NoEarlyFree'
  <2>1. Users(b) = {}
    BY <1>5 DEF Users
  <2>2. Cardinality(Users(b)) = 0
    BY <2>1, FS_EmptySet
  <2>3. /\ live'[b] /\ count'[b] = 1
        /\ \A x \in Block \ {b} : live'[x] = live[x] /\ count'[x] = count[x]
    BY <1>0, <1>2 DEF TypeOK
  <2>4. count'[b] \in Nat /\ count'[b] >= Cardinality(Users(b)) + 1
    BY <2>2, <2>3
  <2> QED BY <1>0, <1>1, <2>3, <2>4, TakeBlock DEF Surviving
<1> QED BY <1>1, <1>4, <1>6, <1>7, <1>8, Assemble

\* No unlock comes away empty-handed, and no thread meets a freed block.
LEMMA NoNone ==
  ASSUME ChainInv, Acyclic, HeadSeen, Surviving, NEW c \in Client
  PROVE  ~GetNone(c) /\ ~Dangling(c)
<1>0. TypeOK /\ Nil \notin Block
  BY HashAssumption DEF ChainInv
<1>1. ASSUME GetNone(c) PROVE FALSE
  <2>1. Step(c, "get", "reply")
    BY <1>1 DEF GetNone, Got
  <2>2. op[c] = "MD_UNLOCK" /\ Walk(c) = Nil
    BY <1>1 DEF GetNone
  <2>3. th[c] = "get" /\ conn[c] = "taken"
    BY <1>0, <2>1, ThreadFacts
  <2>4. Owns(c)
    BY <2>2, <2>3 DEF Owns, Done
  <2> QED BY <1>0, <2>2, <2>3, <2>4, OwnMutexFound
<1>2. ASSUME th[c] \in {"lock", "try", "unlock", "put"} PROVE live[mtx[c]]
  <2>1. Aligned(c) /\ OnTask(c) /\ HasMutex(c)
    BY DEF Surviving
  <2>2. th[c] = "unlock" => Owns(c)
    BY <1>0, <2>1 DEF Owns, Done, OnTask, Aligned, TypeOK, CallTypeOK
  <2>3. mtx[c] # Nil
    BY <1>2, <2>1, <2>2 DEF HasMutex
  <2> QED BY <1>0, <2>3, MtxLive DEF Surviving
<1>3. th[c] = "get" => Walk(c) = Nil \/ live[Walk(c)]
  BY WalkLive
<1> HIDE DEF Walk
<1> QED BY <1>1, <1>2, <1>3 DEF Dangling

LEMMA LockSurvives ==
  ASSUME TypeOK, Surviving, UniqueNode', NEW c \in Client, Lock(c) \/ TryOk(c)
  PROVE  Surviving'
<1> USE DEF TypeOK, CallTypeOK
<1>0. Step(c, "lock", "reply") \/ Step(c, "try", "reply")
  BY DEF Lock, TryOk
<1>1. /\ up /\ th[c] \in {"lock", "try"} /\ th'[c] = "reply"
      /\ conn[c] = "taken" /\ pc[c] \in {"waiting", "dead"} /\ cs[c] # "held"
      /\ UNCHANGED <<pc, cs, op, file>>
      /\ \A d \in Client \ {c} : th'[d] = th[d]
      /\ Aligned(c) /\ OnTask(c) /\ HasMutex(c)
  <2>1. CASE Step(c, "lock", "reply")
    BY <2>1, ThreadFacts
  <2>2. CASE Step(c, "try", "reply")
    BY <2>2, ThreadFacts
  <2> QED BY <1>0, <2>1, <2>2
<1>2. /\ ~locked[mtx[c]]
      /\ locked' = [locked EXCEPT ![mtx[c]] = TRUE]
      /\ ok' = [ok EXCEPT ![c] = TRUE]
      /\ UNCHANGED <<conn, up, live, count, fname, mtx>>
  BY DEF Lock, TryOk
<1>3. \A d \in Client \ {c} : Same(d)
  BY <1>1, <1>2 DEF Same, SameCall
<1>4. op[c] # "MD_UNLOCK" /\ mtx[c] \in Block /\ mtx[c] # Nil
  BY <1>1 DEF OnTask, HasMutex, Pointer
<1>5. Aligned(c)' /\ OnTask(c)' /\ HasMutex(c)'
  BY <1>1, <1>2, <1>4 DEF Aligned, OnTask, Done, HasMutex
<1>6. \A d \in Client \ {c} : Owns(d)' => Owns(d) /\ mtx[d] # mtx[c]
  BY <1>2, <1>3, SameOwns DEF Same, Surviving, OwnersLocked
<1>7. OwnersLocked'
  <2>1. \A d \in Client \ {c} : Owns(d)' => mtx[d] \in Block
    BY <1>6 DEF Surviving, HasMutex, Pointer
  <2>2. \A d \in Client \ {c} : Owns(d)' =>
          /\ locked'[mtx[d]]
          /\ \A e \in Client \ {c} : Owns(e)' /\ mtx[e] = mtx[d] => e = d
    BY <1>2, <1>6, <2>1 DEF Surviving, OwnersLocked
  <2>3. locked'[mtx[c]]
    BY <1>2, <1>4
  <2> QED BY <1>2, <1>6, <2>2, <2>3 DEF OwnersLocked
<1>8. NoEarlyFree'
  BY <1>2, DropBlock DEF Surviving
<1> QED BY <1>1, <1>2, <1>3, <1>5, <1>7, <1>8, Assemble

LEMMA TryFailSurvives ==
  ASSUME TypeOK, Surviving, UniqueNode', NEW c \in Client, TryFail(c)
  PROVE  Surviving'
<1> USE DEF TypeOK, CallTypeOK
<1>1. /\ up /\ th[c] = "try" /\ th'[c] = "put"
      /\ conn[c] = "taken" /\ pc[c] \in {"waiting", "dead"} /\ cs[c] # "held"
      /\ UNCHANGED <<pc, cs, op, file>>
      /\ \A d \in Client \ {c} : th'[d] = th[d]
      /\ Aligned(c) /\ OnTask(c) /\ HasMutex(c)
  BY ThreadFacts DEF TryFail
<1>2. /\ ok' = [ok EXCEPT ![c] = FALSE]
      /\ UNCHANGED <<conn, up, hashVars>>
  BY DEF TryFail
<1>3. \A d \in Client \ {c} : Same(d)
  BY <1>1, <1>2 DEF Same, SameCall
<1>4. op[c] = "MD_TRY_LOCK"
  BY <1>1 DEF OnTask
<1>5. Aligned(c)' /\ OnTask(c)' /\ ~Owns(c)'
  BY <1>1, <1>2, <1>4 DEF Aligned, OnTask, Owns, Done
<1>6. HasMutex(c)'
  BY <1>1, <1>2 DEF HasMutex
<1> QED BY <1>1, <1>2, <1>3, <1>5, <1>6, SilentStep

\* The unlock of an owner: it is the only one, so no other loses its lock.
LEMMA UnlockSurvives ==
  ASSUME TypeOK, Surviving, UniqueNode', NEW c \in Client, Unlock(c)
  PROVE  Surviving'
<1> USE DEF TypeOK, CallTypeOK
<1>1. /\ up /\ th[c] = "unlock" /\ th'[c] = "put"
      /\ conn[c] = "taken" /\ pc[c] \in {"waiting", "dead"} /\ cs[c] # "held"
      /\ UNCHANGED <<pc, cs, op, file>>
      /\ \A d \in Client \ {c} : th'[d] = th[d]
      /\ Aligned(c) /\ OnTask(c) /\ HasMutex(c)
  BY ThreadFacts DEF Unlock
<1>2. /\ locked' = [locked EXCEPT ![mtx[c]] = FALSE]
      /\ ok' = [ok EXCEPT ![c] = TRUE]
      /\ UNCHANGED <<conn, up, live, count, fname, mtx>>
  BY DEF Unlock
<1>3. \A d \in Client \ {c} : Same(d)
  BY <1>1, <1>2 DEF Same, SameCall
<1>4. op[c] = "MD_UNLOCK" /\ Owns(c)
  BY <1>1 DEF OnTask, Owns, Done
<1>5. Aligned(c)' /\ OnTask(c)' /\ ~Owns(c)'
  BY <1>1, <1>2, <1>4 DEF Aligned, OnTask, Owns, Done
<1>6. HasMutex(c)'
  BY <1>1, <1>2, <1>4 DEF HasMutex
<1>7. OwnersLocked'
  <2>1. \A d \in Client \ {c} :
          Owns(d) => mtx[d] \in Block /\ mtx[d] # mtx[c]
    BY <1>4 DEF Surviving, OwnersLocked, HasMutex, Pointer
  <2>2. \A d \in Client : Owns(d)' => locked'[mtx[d]] = locked[mtx[d]]
    BY <1>2, <1>3, <1>5, <2>1, SameOwns DEF Same
  <2> QED BY <1>3, <1>5, <2>2, OwnersKept DEF Surviving
<1>8. NoEarlyFree'
  BY <1>2, DropBlock DEF Surviving
<1> QED BY <1>1, <1>2, <1>3, <1>5, <1>6, <1>7, <1>8, Assemble

\* put_zz_mutex by a user that owns nothing any more, or does not yet.  The
\* block is freed only when no other user is left.
LEMMA PutSurvives ==
  ASSUME TypeOK, Surviving, UniqueNode', NEW c \in Client,
         PutShared(c) \/ PutLast(c)
  PROVE  Surviving' /\ ~Owns(c) /\ ~Owns(c)'
<1>0. PutBack(c) /\ Step(c, "put", "reply")
  BY DEF PutShared, PutLast, PutBack
<1>1. /\ up /\ th[c] = "put" /\ th'[c] = "reply"
      /\ conn[c] = "taken" /\ pc[c] \in {"waiting", "dead"} /\ cs[c] # "held"
      /\ UNCHANGED <<pc, cs, op, file>>
      /\ \A d \in Client \ {c} : th'[d] = th[d]
      /\ Aligned(c) /\ OnTask(c) /\ HasMutex(c)
  BY <1>0, ThreadFacts
<1>2. /\ count' = [count EXCEPT ![mtx[c]] = count[mtx[c]] - 1]
      /\ mtx' = [mtx EXCEPT ![c] = Nil]
      /\ UNCHANGED <<conn, ok, up>>
  BY <1>0 DEF PutBack
<1>3. \A d \in Client \ {c} : Same(d)
  BY <1>1, <1>2 DEF Same, SameCall, TypeOK
<1>4. mtx[c] \in Block /\ mtx[c] # Nil
  BY <1>1 DEF HasMutex, TypeOK, Pointer
<1>5. Aligned(c)' /\ OnTask(c)' /\ ~Owns(c) /\ ~Owns(c)'
  BY <1>1, <1>2 DEF Aligned, OnTask, Owns, Done, TypeOK, CallTypeOK
<1>6. HasMutex(c)'
  BY <1>1, <1>5 DEF HasMutex
<1>7. \/ UNCHANGED <<live, fname, locked>>
      \/ /\ count[mtx[c]] = 1
         /\ live' = [live EXCEPT ![mtx[c]] = FALSE]
         /\ fname' = [fname EXCEPT ![mtx[c]] = NoName]
         /\ locked' = [locked EXCEPT ![mtx[c]] = FALSE]
  BY DEF PutShared, PutLast
<1>8. NoEarlyFree'
  <2>1. /\ \A x \in Block \ {mtx[c]} : live'[x] = live[x]
        /\ count[mtx[c]] # 1 => live' = live
    BY <1>7 DEF TypeOK
  <2>2. ASSUME NEW b \in Block, mtx[c] = b PROVE NoEarlyFree'
    BY <1>2, <2>1, <2>2, GiveBlock DEF Surviving
  <2> QED BY <1>4, <2>2
<1>9. \A d \in Client \ {c} :
        mtx[d] # Nil => /\ fname'[mtx[d]] = fname[mtx[d]]
                        /\ locked'[mtx[d]] = locked[mtx[d]]
  <2>1. CASE UNCHANGED <<fname, locked>>
    BY <2>1
  <2>2. CASE ~UNCHANGED <<live, fname, locked>>
    <3>1. Users(mtx[c]) = {c}
      <4>1. /\ c \in Users(mtx[c])
            /\ count[mtx[c]] = 1 /\ count[mtx[c]] >= Cardinality(Users(mtx[c]))
        BY <1>4, <1>7, <2>2, MtxLive DEF Surviving
      <4>2. Cardinality(Users(mtx[c])) <= 1
        BY <4>1, UsersFinite
      <4> QED BY <4>1, <4>2, LastUser
    <3>2. \A d \in Client \ {c} : mtx[d] # mtx[c]
      BY <3>1 DEF Users
    <3>3. \A d \in Client : mtx[d] # Nil => mtx[d] \in Block
      BY DEF TypeOK, Pointer
    <3> QED BY <1>7, <2>2, <3>2, <3>3 DEF TypeOK
  <2> QED BY <1>7, <2>1, <2>2
<1>10. OwnersLocked'
  <2>1. \A d \in Client : Owns(d)' => d # c /\ Owns(d)
    BY <1>3, <1>5, SameOwns DEF Same
  <2>2. \A d \in Client : Owns(d)' => locked'[mtx[d]] = locked[mtx[d]]
    BY <1>9, <2>1 DEF Surviving, HasMutex
  <2> QED BY <1>3, <1>5, <2>2, OwnersKept DEF Surviving
<1> QED BY <1>1, <1>2, <1>3, <1>5, <1>6, <1>8, <1>9, <1>10, Assemble

LEMMA ReplySurvives ==
  ASSUME TypeOK, Surviving, UniqueNode', NEW c \in Client, Reply(c)
  PROVE  Surviving'
<1> USE DEF TypeOK, CallTypeOK
<1>1. /\ up /\ th[c] = "reply" /\ th'[c] = "none"
      /\ conn[c] = "taken" /\ pc[c] \in {"waiting", "dead"} /\ cs[c] # "held"
      /\ UNCHANGED <<pc, cs, op, file>>
      /\ \A d \in Client \ {c} : th'[d] = th[d]
      /\ Aligned(c) /\ OnTask(c) /\ HasMutex(c)
  BY ThreadFacts DEF Reply
<1>2. /\ conn' = [conn EXCEPT ![c] = "replied"]
      /\ UNCHANGED <<ok, up, hashVars>>
  BY DEF Reply
<1>3. \A d \in Client \ {c} : Same(d)
  BY <1>1, <1>2 DEF Same, SameCall
<1>4. Owns(c)' <=> Owns(c)
  BY <1>1, <1>2 DEF Owns, Done
<1>5. Aligned(c)' /\ OnTask(c)'
  BY <1>1, <1>2 DEF Aligned, OnTask, Done
<1>6. HasMutex(c)'
  BY <1>1, <1>2, <1>4 DEF HasMutex
<1> QED BY <1>1, <1>2, <1>3, <1>4, <1>5, <1>6, SilentStep

LEMMA SurvivingInit == Init => Surviving
<1> SUFFICES ASSUME Init PROVE Surviving
  OBVIOUS
<1>1. \A b \in Block : Users(b) = {}
  BY HashAssumption DEF Init, Users
<1>2. NoEarlyFree /\ UniqueNode
  BY <1>1 DEF Init, NoEarlyFree, UniqueNode
<1>3. \A c \in Client : Aligned(c) /\ OnTask(c) /\ HasMutex(c) /\ ~Owns(c)
  BY DEF Init, CallInit, Aligned, OnTask, HasMutex, Owns, Done
<1> QED BY <1>2, <1>3 DEF Init, CallInit, Surviving, OwnersLocked

LEMMA SurvivingStep ==
  ASSUME AllCareful, ChainInv, Acyclic, HeadSeen, Surviving, [Next]_vars
  PROVE  Surviving'
<1>0. UniqueNode' /\ TypeOK
  BY UniqueStep DEF Surviving, ChainInv
<1>1. CASE UNCHANGED vars
  <2>1. \A d \in Client : Same(d)
    BY <1>1 DEF Same, SameCall
  <2>2. \A d \in Client : Aligned(d)' /\ OnTask(d)' /\ HasMutex(d)'
    BY <1>1, <2>1, Others DEF Surviving
  <2>3. NoEarlyFree'
    BY <1>1 DEF Surviving, NoEarlyFree, Users
  <2>4. OwnersLocked'
    BY <1>1, <2>1, SameOwns DEF Same, Surviving, OwnersLocked
  <2> QED BY <1>0, <1>1, <2>2, <2>3, <2>4 DEF Surviving
<1>2. ASSUME NEW c \in Client, CallStep(c) PROVE Surviving'
  BY <1>0, <1>2, CallSurvives
<1>3. ASSUME NEW c \in Client, ThreadStepOf(c) PROVE Surviving'
  <2>1. ~GetNone(c) /\ ~Dangle(c)
    BY NoNone DEF Dangle
  <2>2. CASE \E b \in Block : GetMatch(c, b) \/ GetNew(c, b)
    BY <1>0, <2>2, MatchSurvives, NewSurvives
  <2>3. CASE ReadHead(c) \/ Reply(c) \/ TryFail(c)
    BY <1>0, <2>3, ReadHeadSurvives, ReplySurvives, TryFailSurvives
  <2>4. CASE Lock(c) \/ TryOk(c) \/ Unlock(c) \/ PutShared(c) \/ PutLast(c)
    BY <1>0, <2>4, LockSurvives, UnlockSurvives, PutSurvives
  <2> QED BY <1>3, <2>1, <2>2, <2>3, <2>4 DEF ThreadStepOf
<1> QED BY <1>1, <1>2, <1>3 DEF Next

(* With careful users, any of which may die at any moment, the server does *)
(* not use a freed block, every user that waits or owns has a mutex of its *)
(* file, no block is freed under it, and the mutex of an owner is locked   *)
(* and its alone (get_zz_mutex, put_zz_mutex and thread_func together).    *)
THEOREM PromptSurvives == AllCareful => (PromptSpec => []Surviving)
<1> SUFFICES ASSUME AllCareful PROVE PromptSpec => []Surviving
  OBVIOUS
<1>1. ChainInv /\ Acyclic /\ HeadSeen /\ Surviving /\ [Next /\ Prompt]_vars
        => Surviving'
  BY SurvivingStep
<1> QED
  BY <1>1, SurvivingInit, ChainAlways, AcyclicAlways, PromptHeads, PromptIsSpec,
     PTL DEF PromptSpec

(* No thread uses a mutex that another thread has freed: the last user of  *)
(* a block frees it, and a thread that is to use a block is its user.      *)
THEOREM NothingDangles == AllCareful => (PromptSpec => []NoDangling)
<1>1. ChainInv /\ Acyclic /\ HeadSeen /\ Surviving => NoDangling
  BY NoNone DEF NoDangling
<1> QED
  BY <1>1, ChainAlways, AcyclicAlways, PromptHeads, PromptIsSpec, PromptSurvives,
     PTL

\* Two owners of a name are one user.
LEMMA OneOwner ==
  ASSUME TypeOK, Surviving, NEW c \in Client, NEW d \in Client,
         Owns(c), Owns(d), file[c] = file[d]
  PROVE  c = d
<1>1. mtx[c] # Nil /\ mtx[d] # Nil
  BY DEF Surviving, HasMutex
<1>2. /\ mtx[c] \in Block /\ live[mtx[c]] /\ fname[mtx[c]] = file[c]
      /\ mtx[d] \in Block /\ live[mtx[d]] /\ fname[mtx[d]] = file[d]
  BY <1>1, MtxLive DEF Surviving, HasMutex
<1>3. mtx[c] = mtx[d]
  BY <1>2 DEF Surviving, UniqueNode
<1> QED BY <1>3 DEF Surviving, OwnersLocked

(* Two users that both got 0 from md_mutex_lock or md_mutex_try_lock and   *)
(* have not called md_mutex_unlock hold different files, although users    *)
(* die waiting, owning or between connect() and write().                   *)
THEOREM PromptExclusion == AllCareful => (PromptSpec => []MutualExclusion)
<1>1. TypeOK /\ Surviving => MutualExclusion
  BY OneOwner DEF MutualExclusion, Owns
<1> QED BY <1>1, HashTypeCorrect, PromptIsSpec, PromptSurvives, PTL

(* md_mutex_unlock by a holder is answered OK.                             *)
THEOREM PromptUnlockOK == AllCareful => (PromptSpec => []UnlockSucceeds)
<1>1. Surviving => UnlockSucceeds
  BY DEF Surviving, OnTask, Done, UnlockSucceeds
<1> QED BY <1>1, PromptSurvives, PTL

-----------------------------------------------------------------------------
(* When nobody dies the blocks are what their users think they are, no     *)
(* more: what is exact of Surviving then.                                  *)

Needed(c) == mtx[c] # Nil => Owns(c) \/ th[c] \in {"lock", "try", "put"}

LockedHeld == \A b \in Block : locked[b] =>
                \E c \in Client : mtx[c] = b /\ Owns(c)

Exact == /\ \A c \in Client : pc[c] # "dead" /\ Needed(c)
         /\ RefCount
         /\ LockedHeld

\* Locks that stay, and their owners.
LEMMA HeldKept ==
  ASSUME LockedHeld, NEW c \in Client, \A d \in Client \ {c} : Same(d),
         Owns(c) => Owns(c)' /\ mtx'[c] = mtx[c],
         \A b \in Block : locked'[b] => locked[b]
  PROVE  LockedHeld'
<1>1. \A d \in Client : Owns(d) => Owns(d)' /\ mtx'[d] = mtx[d]
  BY SameOwns DEF Same
<1> QED BY <1>1 DEF LockedHeld

LEMMA RefKept ==
  ASSUME RefCount, UNCHANGED <<mtx, live, count>>
  PROVE  RefCount'
  BY DEF RefCount, Users

\* A block gains a user that had none.
LEMMA RefTake ==
  ASSUME TypeOK, RefCount, NEW c \in Client, NEW b \in Block, mtx[c] = Nil,
         mtx' = [mtx EXCEPT ![c] = b], count'[b] = Cardinality(Users(b)) + 1,
         \A x \in Block \ {b} : live'[x] = live[x] /\ count'[x] = count[x]
  PROVE  RefCount'
<1>1. /\ c \notin Users(b)
      /\ Users(b)' = Users(b) \cup {c}
      /\ \A x \in Block \ {b} : Users(x)' = Users(x) \ {c} /\ c \notin Users(x)
  <2>1. \A x \in Block : c \notin Users(x)
    BY HashAssumption DEF Users
  <2> QED BY <2>1, UsersTake
<1>2. count'[b] = Cardinality(Users(b)')
  BY <1>1, CardTake
<1>3. ASSUME NEW x \in Block \ {b}, live'[x]
      PROVE  count'[x] = Cardinality(Users(x)')
  <2>1. Users(x)' = Users(x)
    BY <1>1
  <2> QED BY <1>3, <2>1 DEF RefCount
<1> QED BY <1>2, <1>3 DEF RefCount

\* A block loses a user.
LEMMA RefGive ==
  ASSUME TypeOK, RefCount, NEW c \in Client, NEW b \in Block, mtx[c] = b,
         mtx' = [mtx EXCEPT ![c] = Nil],
         count' = [count EXCEPT ![b] = count[b] - 1],
         \A x \in Block : live'[x] => live[x]
  PROVE  RefCount'
<1>1. /\ c \in Users(b)
      /\ Users(b)' = Users(b) \ {c}
      /\ \A x \in Block \ {b} : Users(x)' = Users(x)
  BY HashAssumption DEF Users, TypeOK
<1>2. live'[b] => count'[b] = Cardinality(Users(b)')
  <2>1. live'[b] => count[b] = Cardinality(Users(b))
    BY DEF RefCount
  <2>2. Cardinality(Users(b)') = Cardinality(Users(b)) - 1
    BY <1>1, CardGive
  <2>3. count'[b] = count[b] - 1
    BY DEF TypeOK
  <2> QED BY <2>1, <2>2, <2>3
<1>3. ASSUME NEW x \in Block \ {b}, live'[x]
      PROVE  count'[x] = Cardinality(Users(x)')
  <2>1. count'[x] = count[x]
    BY DEF TypeOK
  <2> QED BY <1>1, <1>3, <2>1 DEF RefCount
<1> QED BY <1>2, <1>3 DEF RefCount

LEMMA ExactParts ==
  ASSUME Exact, NEW c \in Client, \A d \in Client \ {c} : Same(d),
         pc'[c] # "dead", Needed(c)', RefCount', LockedHeld'
  PROVE  Exact'
<1>1. ASSUME NEW d \in Client \ {c} PROVE pc'[d] # "dead" /\ Needed(d)'
  BY <1>1, SameOwns DEF Exact, Needed, Same, SameCall
<1> QED BY <1>1 DEF Exact

LEMMA CallExact ==
  ASSUME Disciplined, TypeOK, Surviving, Exact, NEW c \in Client, CallStep(c)
  PROVE  Exact'
<1>1. up /\ Aligned(c) /\ OnTask(c) /\ UNCHANGED hashVars
  BY DEF Surviving, CallStep
<1>2. Onwards(c) /\ Alive(c) /\ \A d \in Client \ {c} : SameCall(d)
  BY <1>1, CallStepFacts DEF CallStep, TypeOK, Disciplined
<1>3. \A d \in Client \ {c} : Same(d)
  BY <1>1, <1>2 DEF Same
<1>4. pc'[c] # "dead" /\ (Owns(c)' <=> Owns(c)) /\ Needed(c)'
  BY <1>1, <1>2 DEF Exact, Alive, Onwards, Needed
<1>5. RefCount' /\ LockedHeld'
  BY <1>1, <1>3, <1>4, RefKept, HeldKept DEF Exact
<1> QED BY <1>3, <1>4, <1>5, ExactParts

LEMMA ReadHeadExact ==
  ASSUME TypeOK, Surviving, Exact, NEW c \in Client, ReadHead(c)
  PROVE  Exact'
<1> USE DEF TypeOK, CallTypeOK
<1>1. /\ th[c] = "start" /\ th'[c] = "get" /\ conn[c] = "taken" /\ cs[c] # "held"
      /\ UNCHANGED <<pc, cs, op, file>>
      /\ \A d \in Client \ {c} : th'[d] = th[d]
  BY ThreadFacts DEF ReadHead
<1>2. UNCHANGED <<conn, ok, up, head, fields, mtx>>
  BY DEF ReadHead
<1>3. \A d \in Client \ {c} : Same(d)
  BY <1>1, <1>2 DEF Same, SameCall
<1>4. Owns(c)' <=> Owns(c)
  BY <1>1, <1>2 DEF Owns, Done
<1>5. pc'[c] # "dead" /\ Needed(c)'
  BY <1>1, <1>2, <1>4 DEF Exact, Needed
<1>6. RefCount' /\ LockedHeld'
  BY <1>2, <1>3, <1>4, RefKept, HeldKept DEF Exact
<1> QED BY <1>3, <1>5, <1>6, ExactParts

\* A lock takes a pointer to what it found or allocated; an unlock finds what
\* it has a pointer to.
LEMMA GotExact ==
  ASSUME ChainInv, Acyclic, HeadSeen, Surviving, Exact,
         NEW c \in Client, NEW b \in Block, GetMatch(c, b) \/ GetNew(c, b)
  PROVE  Exact'
<1>0. TypeOK /\ Got(c, Operate(op[c]), b) /\ ok' = ok /\ Nil \notin Block
  BY HashAssumption DEF ChainInv, GetMatch, GetNew
<1>1. /\ th[c] = "get" /\ th'[c] = Operate(op[c])
      /\ UNCHANGED <<pc, cs, op, file>>
      /\ Owns(c)' <=> Owns(c)
      /\ Owns(c) <=> op[c] = "MD_UNLOCK"
      /\ \A d \in Client \ {c} : Same(d)
      /\ mtx' = [mtx EXCEPT ![c] = b]
  BY <1>0, GotOwns
<1>2. mtx'[c] = b /\ b # Nil
  BY <1>0, <1>1 DEF TypeOK
<1>3. pc'[c] # "dead" /\ Needed(c)'
  <2>1. op[c] \in Op
    BY <1>0 DEF TypeOK, CallTypeOK
  <2>2. op[c] # "MD_UNLOCK" => th'[c] \in {"lock", "try"}
    BY <1>1, <2>1 DEF Operate
  <2> QED BY <1>1, <2>2 DEF Exact, Needed
<1>4. CASE op[c] = "MD_UNLOCK"
  <2>1. GetMatch(c, b) /\ b = mtx[c]
    BY <1>1, <1>4, OwnMutexFound DEF GetMatch, GetNew
  <2>2. UNCHANGED <<mtx, live, count, locked>>
    BY <1>0, <1>1, <1>4, <2>1 DEF GetMatch, TypeOK
  <2>3. RefCount' /\ LockedHeld'
    BY <1>1, <2>2, RefKept, HeldKept DEF Exact
  <2> QED BY <1>1, <1>3, <2>3, ExactParts
<1>5. CASE op[c] # "MD_UNLOCK"
  <2>1. mtx[c] = Nil
    BY <1>1, <1>5 DEF Exact, Needed
  <2>2. /\ \A x \in Block \ {b} : live'[x] = live[x] /\ count'[x] = count[x]
        /\ \A x \in Block : locked'[x] => locked[x]
    BY <1>0, <1>5 DEF GetMatch, GetNew, TypeOK
  <2>3. count'[b] = Cardinality(Users(b)) + 1
    <3>1. CASE GetMatch(c, b)
      <4>1. live[b] /\ count'[b] = count[b] + 1
        BY <1>0, <1>5, <3>1 DEF GetMatch, TypeOK
      <4> QED BY <4>1 DEF Exact, RefCount
    <3>2. CASE GetNew(c, b)
      <4>1. ~live[b] /\ count'[b] = 1
        BY <1>0, <3>2 DEF GetNew, TypeOK
      <4>2. Users(b) = {}
        BY <4>1 DEF Surviving, NoEarlyFree
      <4>3. Cardinality(Users(b)) = 0
        BY <4>2, FS_EmptySet
      <4> QED BY <4>1, <4>3
    <3> QED BY <3>1, <3>2
  <2>4. RefCount'
    BY <1>0, <1>1, <2>1, <2>2, <2>3, RefTake DEF Exact
  <2>5. LockedHeld'
    BY <1>1, <1>5, <2>2, HeldKept DEF Exact
  <2> QED BY <1>1, <1>3, <2>4, <2>5, ExactParts
<1> QED BY <1>4, <1>5

LEMMA LockExact ==
  ASSUME TypeOK, Surviving, Exact, NEW c \in Client, Lock(c) \/ TryOk(c)
  PROVE  Exact'
<1> USE DEF TypeOK, CallTypeOK
<1>0. Step(c, "lock", "reply") \/ Step(c, "try", "reply")
  BY DEF Lock, TryOk
<1>1. /\ th[c] \in {"lock", "try"} /\ th'[c] = "reply" /\ conn[c] = "taken"
      /\ UNCHANGED <<pc, cs, op, file>>
      /\ \A d \in Client \ {c} : th'[d] = th[d]
      /\ OnTask(c) /\ HasMutex(c)
  <2>1. CASE Step(c, "lock", "reply")
    BY <2>1, ThreadFacts
  <2>2. CASE Step(c, "try", "reply")
    BY <2>2, ThreadFacts
  <2> QED BY <1>0, <2>1, <2>2
<1>2. /\ locked' = [locked EXCEPT ![mtx[c]] = TRUE]
      /\ ok' = [ok EXCEPT ![c] = TRUE]
      /\ UNCHANGED <<conn, up, live, count, mtx>>
  BY DEF Lock, TryOk
<1>3. \A d \in Client \ {c} : Same(d)
  BY <1>1, <1>2 DEF Same, SameCall
<1>4. op[c] # "MD_UNLOCK" /\ Owns(c)'
  BY <1>1, <1>2 DEF OnTask, Owns, Done
<1>5. pc'[c] # "dead" /\ Needed(c)'
  BY <1>1, <1>4 DEF Exact, Needed
<1>6. LockedHeld'
  <2>1. \A d \in Client : Owns(d) => Owns(d)' /\ mtx'[d] = mtx[d]
    BY <1>2, <1>3, <1>4, SameOwns DEF Same
  <2>2. \A b \in Block : locked'[b] => locked[b] \/ b = mtx[c]
    BY <1>2
  <2> QED BY <1>2, <1>4, <2>1, <2>2 DEF Exact, LockedHeld
<1>7. RefCount'
  BY <1>2, RefKept DEF Exact
<1> QED BY <1>3, <1>5, <1>6, <1>7, ExactParts

LEMMA TryFailExact ==
  ASSUME TypeOK, Surviving, Exact, NEW c \in Client, TryFail(c)
  PROVE  Exact'
<1> USE DEF TypeOK, CallTypeOK
<1>1. /\ th[c] = "try" /\ th'[c] = "put" /\ conn[c] = "taken" /\ cs[c] # "held"
      /\ UNCHANGED <<pc, cs, op, file>>
      /\ \A d \in Client \ {c} : th'[d] = th[d]
      /\ OnTask(c)
  BY ThreadFacts DEF TryFail
<1>2. ok' = [ok EXCEPT ![c] = FALSE] /\ UNCHANGED <<conn, up, hashVars>>
  BY DEF TryFail
<1>3. \A d \in Client \ {c} : Same(d)
  BY <1>1, <1>2 DEF Same, SameCall
<1>4. ~Owns(c)
  BY <1>1 DEF OnTask, Owns, Done
<1>5. pc'[c] # "dead" /\ Needed(c)'
  BY <1>1 DEF Exact, Needed
<1>6. RefCount' /\ LockedHeld'
  BY <1>2, <1>3, <1>4, RefKept, HeldKept DEF Exact
<1> QED BY <1>3, <1>5, <1>6, ExactParts

LEMMA UnlockExact ==
  ASSUME TypeOK, Surviving, Exact, NEW c \in Client, Unlock(c)
  PROVE  Exact'
<1> USE DEF TypeOK, CallTypeOK
<1>1. /\ th[c] = "unlock" /\ th'[c] = "put" /\ conn[c] = "taken"
      /\ UNCHANGED <<pc, cs, op, file>>
      /\ \A d \in Client \ {c} : th'[d] = th[d]
      /\ OnTask(c) /\ HasMutex(c)
  BY ThreadFacts DEF Unlock
<1>2. /\ locked' = [locked EXCEPT ![mtx[c]] = FALSE]
      /\ ok' = [ok EXCEPT ![c] = TRUE]
      /\ UNCHANGED <<conn, up, live, count, mtx>>
  BY DEF Unlock
<1>3. \A d \in Client \ {c} : Same(d)
  BY <1>1, <1>2 DEF Same, SameCall
<1>4. Owns(c) /\ mtx[c] \in Block
  BY <1>1 DEF OnTask, Owns, Done, HasMutex, Pointer
<1>5. pc'[c] # "dead" /\ Needed(c)'
  BY <1>1 DEF Exact, Needed
<1>6. LockedHeld'
  <2>1. \A d \in Client \ {c} : Owns(d) => Owns(d)' /\ mtx'[d] = mtx[d]
    BY <1>3, SameOwns DEF Same
  <2>2. \A b \in Block : locked'[b] => locked[b] /\ b # mtx[c]
    BY <1>2, <1>4
  <2> QED BY <2>1, <2>2 DEF Exact, LockedHeld
<1>7. RefCount'
  BY <1>2, RefKept DEF Exact
<1> QED BY <1>3, <1>5, <1>6, <1>7, ExactParts

LEMMA PutExact ==
  ASSUME TypeOK, Surviving, Exact, NEW c \in Client, PutShared(c) \/ PutLast(c)
  PROVE  Exact'
<1> USE DEF TypeOK, CallTypeOK
<1>0. PutBack(c) /\ Step(c, "put", "reply")
  BY DEF PutShared, PutLast, PutBack
<1>1. /\ th[c] = "put" /\ th'[c] = "reply" /\ conn[c] = "taken" /\ cs[c] # "held"
      /\ UNCHANGED <<pc, cs, op, file>>
      /\ \A d \in Client \ {c} : th'[d] = th[d]
      /\ OnTask(c) /\ HasMutex(c)
  BY <1>0, ThreadFacts
<1>2. /\ count' = [count EXCEPT ![mtx[c]] = count[mtx[c]] - 1]
      /\ mtx' = [mtx EXCEPT ![c] = Nil]
      /\ UNCHANGED <<conn, ok, up>>
  BY <1>0 DEF PutBack
<1>3. \A d \in Client \ {c} : Same(d)
  BY <1>1, <1>2 DEF Same, SameCall
<1>4. ~Owns(c) /\ mtx[c] \in Block
  BY <1>1 DEF OnTask, Owns, Done, HasMutex, Pointer
<1>5. pc'[c] # "dead" /\ Needed(c)'
  BY <1>1, <1>2 DEF Exact, Needed
<1>6. \A b \in Block : (live'[b] => live[b]) /\ (locked'[b] => locked[b])
  BY <1>4 DEF PutShared, PutLast
<1>7. LockedHeld'
  BY <1>3, <1>4, <1>6, HeldKept DEF Exact
<1>8. RefCount'
  BY <1>2, <1>4, <1>6, RefGive DEF Exact
<1> QED BY <1>3, <1>5, <1>7, <1>8, ExactParts

LEMMA ReplyExact ==
  ASSUME TypeOK, Surviving, Exact, NEW c \in Client, Reply(c)
  PROVE  Exact'
<1> USE DEF TypeOK, CallTypeOK
<1>1. /\ th[c] = "reply" /\ th'[c] = "none" /\ conn[c] = "taken" /\ cs[c] # "held"
      /\ UNCHANGED <<pc, cs, op, file>>
      /\ \A d \in Client \ {c} : th'[d] = th[d]
  BY ThreadFacts DEF Reply
<1>2. conn' = [conn EXCEPT ![c] = "replied"] /\ UNCHANGED <<ok, up, hashVars>>
  BY DEF Reply
<1>3. \A d \in Client \ {c} : Same(d)
  BY <1>1, <1>2 DEF Same, SameCall
<1>4. Owns(c)' <=> Owns(c)
  BY <1>1, <1>2 DEF Owns, Done
<1>5. pc'[c] # "dead" /\ Needed(c)'
  BY <1>1, <1>2, <1>4 DEF Exact, Needed
<1>6. RefCount' /\ LockedHeld'
  BY <1>2, <1>3, <1>4, RefKept, HeldKept DEF Exact
<1> QED BY <1>3, <1>5, <1>6, ExactParts

LEMMA ExactStep ==
  ASSUME Disciplined, ChainInv, Acyclic, HeadSeen, Surviving, Exact, [Next]_vars
  PROVE  Exact'
<1>0. TypeOK
  BY DEF ChainInv
<1>1. CASE UNCHANGED vars
  <2>1. \A d \in Client : Same(d)
    BY <1>1 DEF Same, SameCall
  <2>2. \A d \in Client : pc'[d] # "dead" /\ Needed(d)'
    BY <2>1, SameOwns DEF Exact, Needed, Same, SameCall
  <2>3. LockedHeld'
    BY <1>1, <2>1, SameOwns DEF Same, Exact, LockedHeld
  <2>4. RefCount'
    BY <1>1 DEF Exact, RefCount, Users
  <2> QED BY <2>2, <2>3, <2>4 DEF Exact
<1>2. ASSUME NEW c \in Client, CallStep(c) PROVE Exact'
  BY <1>0, <1>2, CallExact
<1>3. ASSUME NEW c \in Client, ThreadStepOf(c) PROVE Exact'
  <2>1. ~GetNone(c) /\ ~Dangle(c)
    BY NoNone DEF Dangle
  <2>2. CASE \E b \in Block : GetMatch(c, b) \/ GetNew(c, b)
    BY <2>2, GotExact
  <2>3. CASE ReadHead(c) \/ Reply(c) \/ TryFail(c)
    BY <1>0, <2>3, ReadHeadExact, ReplyExact, TryFailExact
  <2>4. CASE Lock(c) \/ TryOk(c) \/ Unlock(c) \/ PutShared(c) \/ PutLast(c)
    BY <1>0, <2>4, LockExact, UnlockExact, PutExact
  <2> QED BY <1>3, <2>1, <2>2, <2>3, <2>4 DEF ThreadStepOf
<1> QED BY <1>1, <1>2, <1>3 DEF Next

LEMMA PromptExact == Disciplined => (PromptSpec => []Exact)
<1> SUFFICES ASSUME Disciplined PROVE PromptSpec => []Exact
  OBVIOUS
<1>1. Init => Exact
  <2> SUFFICES ASSUME Init PROVE Exact
    OBVIOUS
  <2>1. RefCount
    BY DEF Init, RefCount
  <2> QED BY <2>1 DEF Init, CallInit, Exact, Needed, LockedHeld
<1>2. /\ ChainInv /\ Acyclic /\ HeadSeen /\ Surviving /\ Exact
      /\ [Next /\ Prompt]_vars
      => Exact'
  BY ExactStep
<1>3. PromptSpec => []Surviving
  BY PromptSurvives DEF Disciplined
<1> QED
  BY <1>1, <1>2, <1>3, ChainAlways, AcyclicAlways, PromptHeads, PromptIsSpec,
     PTL DEF PromptSpec

(* "How many threads are using this mutex" is what zz_mutex.count says: at *)
(* every moment between get_zz_mutex and put_zz_mutex of any of them it is *)
(* the number of users of the block.                                       *)
THEOREM PromptCounted == Disciplined => (PromptSpec => []RefCount)
<1>1. Exact => RefCount
  BY DEF Exact
<1> QED BY <1>1, PromptExact, PTL

-----------------------------------------------------------------------------
(* The hash server, prompt, implements the service *)

LEMMA ThreadServes ==
  ASSUME ChainInv, Acyclic, HeadSeen, Surviving,
         NEW c \in Client, ThreadStepOf(c)
  PROVE  Serves(c)
<1> USE DEF CallTypeOK, Serves
<1>0. TypeOK /\ CallTypeOK
  BY DEF ChainInv, TypeOK
<1>1. ASSUME NEW from, NEW to, Step(c, from, to), from # "none"
      PROVE  /\ conn[c] = "taken" /\ pc[c] \in {"waiting", "dead"}
             /\ th[c] = from /\ th'[c] = to
             /\ UNCHANGED <<pc, cs, op, file>>
             /\ \A d \in Client \ {c} : th'[d] = th[d]
  BY <1>0, <1>1, ThreadFacts
<1>2. CASE ReadHead(c)
  <2>1. Step(c, "start", "get") /\ UNCHANGED <<conn, ok>>
    BY <1>2 DEF ReadHead
  <2> QED BY <1>0, <1>1, <2>1 DEF Done, SameCall
<1>3. CASE \E b \in Block : GetMatch(c, b) \/ GetNew(c, b)
  <2>1. Step(c, "get", Operate(op[c])) /\ UNCHANGED <<conn, ok>>
    BY <1>3 DEF GetMatch, GetNew, Got
  <2> QED BY <1>0, <1>1, <2>1 DEF Done, SameCall
<1>4. CASE Lock(c) \/ TryOk(c) \/ TryFail(c) \/ Unlock(c)
  <2>1. \E from \in {"lock", "try", "unlock"}, to \in {"put", "reply"} :
          Step(c, from, to)
    BY <1>4 DEF Lock, TryOk, TryFail, Unlock
  <2>2. conn' = conn /\ \E b \in BOOLEAN : ok' = [ok EXCEPT ![c] = b]
    BY <1>4 DEF Lock, TryOk, TryFail, Unlock
  <2> QED BY <1>0, <1>1, <2>1, <2>2 DEF Done, SameCall
<1>5. CASE PutShared(c) \/ PutLast(c)
  <2>1. Step(c, "put", "reply") /\ UNCHANGED <<conn, ok>>
    BY <1>5 DEF PutShared, PutLast, PutBack
  <2> QED BY <1>0, <1>1, <2>1 DEF Done, SameCall
<1>6. CASE Reply(c)
  BY <1>0, <1>1, <1>6 DEF Reply, Done, SameCall
<1>7. ~GetNone(c) /\ ~Dangle(c)
  BY NoNone DEF Dangle
<1> QED BY <1>2, <1>3, <1>4, <1>5, <1>6, <1>7 DEF ThreadStepOf

(* Every step of the hash server in the prompt schedules, with disciplined *)
(* users, is one of the service MdMutex or none: what the table promises   *)
(* the chains do too, whichever names share one and whichever blocks are   *)
(* freed and allocated again.                                              *)
THEOREM HashKeepsPromises == Disciplined => (PromptSpec => KeepsPromises)
<1> SUFFICES ASSUME Disciplined PROVE PromptSpec => KeepsPromises
  OBVIOUS
<1>1. Init => Service!Init
  BY ServiceInit DEF Init
<1>2. /\ ChainInv /\ Acyclic /\ HeadSeen /\ Surviving /\ Exact
      /\ SoleOwner'
      /\ [Next /\ Prompt]_vars
      => [Service!Next]_(Service!vars)
  <2> SUFFICES ASSUME ChainInv, Acyclic, HeadSeen, Surviving, Exact, SoleOwner',
                      [Next]_vars
               PROVE  [Service!Next]_(Service!vars)
    OBVIOUS
  <2>0. CallTypeOK /\ up
        /\ \A d \in Client : Aligned(d) /\ OnTask(d) /\ pc[d] # "dead"
    BY DEF ChainInv, TypeOK, Surviving, Exact
  <2>1. CASE UNCHANGED vars
    BY <2>1 DEF Service!vars, Phase, Done
  <2>2. ASSUME NEW c \in Client, CallStep(c)
        PROVE  [Service!Next]_(Service!vars)
    BY <2>0, <2>2, CallPromise DEF CallStep
  <2>3. ASSUME NEW c \in Client, ThreadStepOf(c)
        PROVE  [Service!Next]_(Service!vars)
    <3>1. Serves(c)
      BY <2>3, ThreadServes
    <3> QED BY <2>0, <3>1, ThreadPromise
  <2> QED BY <2>1, <2>2, <2>3 DEF Next
<1>3. PromptSpec => []Surviving
  BY PromptSurvives DEF Disciplined
<1>4. TypeOK /\ Surviving => SoleOwner
  BY OneOwner DEF SoleOwner
<1>5. PromptSpec => []Exact
  BY PromptExact
<1> QED
  BY <1>1, <1>2, <1>3, <1>4, <1>5, ChainAlways, AcyclicAlways, PromptHeads,
     HashTypeCorrect, PromptIsSpec, PTL DEF PromptSpec, KeepsPromises
=============================================================================
