------------------------- MODULE MdMutexHash_proofs -------------------------
(***************************************************************************)
(* Proofs about the hash server in every schedule, up to the first use of  *)
(* a freed block and whatever the users do: the chains stay doubly linked  *)
(* lists of allocated blocks, and a block is freed exactly when its count  *)
(* reaches zero.  The invariant is the conjunction of these with typing:   *)
(* counts are natural numbers because a block with count 1 is freed, and   *)
(* unlinking follows pointers that only linked chains make valid.          *)
(***************************************************************************)
EXTENDS MdMutexHash, MdMutexCall_proofs, Iteration, FiniteSetTheorems

USE DEF Client, Name, Op, ConnState, ThreadStep, callVars, fields, hashVars, vars

-----------------------------------------------------------------------------
(* The invariant *)

\* A thread in the switch or in put_zz_mutex has a mutex.
ThreadsHave == \A c \in Client :
                 th[c] \in {"lock", "try", "unlock", "put"} => mtx[c] \in Block

ChainInv == TypeOK /\ ThreadsHave /\ LiveCounted /\ ChainsLinked

LEMMA ChainInit == Init => ChainInv
<1> SUFFICES ASSUME Init PROVE ChainInv
  OBVIOUS
<1>1. TypeOK
  BY CallTypeInit DEF Init, TypeOK, Pointer
<1>2. ThreadsHave
  BY DEF Init, CallInit, ThreadsHave
<1>3. LiveCounted
  BY DEF Init, LiveCounted
<1>4. ChainsLinked
  BY DEF Init, ChainsLinked
<1> QED BY <1>1, <1>2, <1>3, <1>4 DEF ChainInv

-----------------------------------------------------------------------------
(* Steps that leave the chains alone *)

\* Nothing about a block changes but its count and its lock.
LEMMA ChainsKept ==
  ASSUME ChainsLinked, UNCHANGED <<head, live, fname, pre, next>>
  PROVE  ChainsLinked'
  BY DEF ChainsLinked

\* The users and main() leave the blocks and the threads' pointers alone.
LEMMA CallChain ==
  ASSUME ChainInv, NEW c \in Client, CallStep(c) PROVE ChainInv'
<1>1. /\ UserStep(c) \/ MainStep(c)
      /\ UNCHANGED hashVars
  BY DEF CallStep
<1>2. TypeOK'
  BY <1>1, CallTypeStep DEF ChainInv, TypeOK
<1>3. \A d \in Client : th'[d] = th[d] \/ th'[d] = "start"
  BY <1>1 DEF ChainInv, TypeOK, CallTypeOK, UserStep, MainStep, Call, Send, Return, Die,
     ConnectRefused, ConnectionLost, Accept, ReadRequest, ReadEof
<1>4. ThreadsHave'
  BY <1>1, <1>3 DEF ChainInv, ThreadsHave
<1>5. LiveCounted'
  BY <1>1 DEF ChainInv, LiveCounted
<1>6. ChainsLinked'
  BY <1>1, ChainsKept DEF ChainInv
<1> QED BY <1>2, <1>4, <1>5, <1>6 DEF ChainInv

\* A step of a thread that changes no block but for its lock.
LEMMA QuietChain ==
  ASSUME ChainInv, NEW c \in Client, NEW from, NEW to \in ThreadStep,
         Step(c, from, to),
         to \in {"get", "put", "reply", "none"},
         to = "put" => mtx[c] \in Block,
         conn' \in [Client -> ConnState], ok' \in [Client -> BOOLEAN],
         seen' \in [Client -> Pointer],
         mtx' \in [Client -> Pointer],
         \A d \in Client : mtx'[d] = mtx[d] \/ (d = c /\ to # "put"),
         locked' \in [Block -> BOOLEAN],
         UNCHANGED <<up, head, live, count, fname, pre, next>>
  PROVE  ChainInv'
<1>1. up /\ UNCHANGED <<pc, cs, op, file, main>> /\ th' = [th EXCEPT ![c] = to]
  BY DEF Step
<1>2. TypeOK'
  BY <1>1 DEF ChainInv, TypeOK, CallTypeOK, Step
<1>3. ThreadsHave'
  BY <1>1 DEF ChainInv, TypeOK, CallTypeOK, ThreadsHave
<1>4. LiveCounted'
  BY DEF ChainInv, LiveCounted
<1>5. ChainsLinked'
  BY ChainsKept DEF ChainInv
<1> QED BY <1>2, <1>3, <1>4, <1>5 DEF ChainInv

LEMMA HeadType ==
  ASSUME ChainInv, NEW c \in Client PROVE head[hash_func[file[c]]] \in Pointer
  BY HashAssumption DEF ChainInv, TypeOK, CallTypeOK

LEMMA QuietSteps ==
  ASSUME ChainInv, NEW c \in Client,
         \/ ReadHead(c) \/ GetNone(c) \/ Lock(c) \/ TryOk(c) \/ TryFail(c)
         \/ Unlock(c) \/ Reply(c)
  PROVE  ChainInv'
<1> USE DEF ChainInv, TypeOK, CallTypeOK
<1>1. CASE ReadHead(c)
  <2>1. seen' \in [Client -> Pointer]
    BY <1>1, HeadType DEF ReadHead
  <2> QED BY <1>1, <2>1, QuietChain DEF ReadHead
<1>2. CASE GetNone(c)
  BY <1>2, QuietChain DEF GetNone, Got, Pointer
<1>3. CASE Lock(c) \/ TryOk(c)
  BY <1>3, QuietChain DEF Lock, TryOk
<1>4. CASE TryFail(c)
  BY <1>4, QuietChain DEF TryFail, Step, ThreadsHave
<1>5. CASE Unlock(c)
  BY <1>5, QuietChain DEF Unlock, Step, ThreadsHave
<1>6. CASE Reply(c)
  BY <1>6, QuietChain DEF Reply
<1> QED BY <1>1, <1>2, <1>3, <1>4, <1>5, <1>6

LEMMA DangleChain ==
  ASSUME ChainInv, NEW c \in Client, Dangle(c) PROVE ChainInv'
<1>1. TypeOK'
  BY DEF ChainInv, TypeOK, CallTypeOK, Dangle
<1>2. ThreadsHave'
  BY DEF ChainInv, ThreadsHave, Dangle
<1>3. LiveCounted'
  BY DEF ChainInv, LiveCounted, Dangle
<1>4. ChainsLinked'
  BY ChainsKept DEF ChainInv, Dangle
<1> QED BY <1>1, <1>2, <1>3, <1>4 DEF ChainInv

-----------------------------------------------------------------------------
(* get_zz_mutex *)

\* What the thread that has got a mutex knows, and the others do not notice.
LEMMA GotFacts ==
  ASSUME ChainInv, NEW c \in Client, NEW b \in Block, Got(c, Operate(op[c]), b)
  PROVE  /\ th' \in [Client -> ThreadStep]
         /\ seen' \in [Client -> Pointer]
         /\ mtx' \in [Client -> Pointer]
         /\ ThreadsHave'
         /\ UNCHANGED <<pc, cs, op, file, main, conn, up>>
<1>1. Operate(op[c]) \in {"lock", "try", "unlock"}
  BY OperateType DEF ChainInv, TypeOK, CallTypeOK
<1> QED
  BY <1>1 DEF ChainInv, TypeOK, CallTypeOK, Got, Step, ThreadsHave, Pointer

LEMMA GetMatchChain ==
  ASSUME ChainInv, NEW c \in Client, NEW b \in Block, GetMatch(c, b)
  PROVE  ChainInv'
<1>1. /\ Got(c, Operate(op[c]), b)
      /\ count' \in [Block -> Nat]
      /\ \A x \in Block : count'[x] >= count[x]
      /\ UNCHANGED <<ok, head, live, fname, locked, pre, next>>
  BY DEF ChainInv, TypeOK, GetMatch
<1>2. TypeOK' /\ ThreadsHave'
  BY <1>1, GotFacts DEF ChainInv, TypeOK, CallTypeOK
<1>3. LiveCounted'
  BY <1>1 DEF ChainInv, TypeOK, LiveCounted
<1>4. ChainsLinked'
  BY <1>1, ChainsKept DEF ChainInv
<1> QED BY <1>2, <1>3, <1>4 DEF ChainInv

LEMMA GetNewChain ==
  ASSUME ChainInv, NEW c \in Client, NEW b \in Block, GetNew(c, b)
  PROVE  ChainInv'
<1> DEFINE f == file[c]
           h == hash_func[f]
<1>1. f \in Name /\ h \in Bucket /\ b \in Pointer
  BY HashAssumption DEF ChainInv, TypeOK, CallTypeOK, Pointer
<1>2. /\ Got(c, Operate(op[c]), b)
      /\ ~live[b]
      /\ live' = [live EXCEPT ![b] = TRUE]
      /\ locked' = [locked EXCEPT ![b] = FALSE]
      /\ fname' = [fname EXCEPT ![b] = f]
      /\ count' = [count EXCEPT ![b] = 1]
      /\ next' = [next EXCEPT ![b] = head[h]]
      /\ pre' = [x \in Block |-> IF x = b THEN Nil
                                 ELSE IF x = head[h] THEN b ELSE pre[x]]
      /\ head' = [head EXCEPT ![h] = b]
      /\ UNCHANGED ok
  BY DEF GetNew
<1> HIDE DEF f, h
<1>3. TypeOK' /\ ThreadsHave'
  <2>1. /\ live' \in [Block -> BOOLEAN] /\ locked' \in [Block -> BOOLEAN]
        /\ fname' \in [Block -> Name] /\ count' \in [Block -> Nat]
        /\ next' \in [Block -> Pointer] /\ pre' \in [Block -> Pointer]
        /\ head' \in [Bucket -> Pointer] /\ ok' \in [Client -> BOOLEAN]
    BY <1>1, <1>2 DEF ChainInv, TypeOK, CallTypeOK, Pointer
  <2> QED BY <1>2, <2>1, GotFacts DEF ChainInv, TypeOK, CallTypeOK
<1>4. LiveCounted'
  BY <1>2 DEF ChainInv, TypeOK, LiveCounted
<1>5. ChainsLinked'
  <2> USE DEF ChainInv, TypeOK, ChainsLinked
  <2>1. b # Nil /\ \A x \in Block : x # Nil
    BY HashAssumption
  <2>2. ASSUME NEW g \in Bucket, head'[g] # Nil
        PROVE  /\ live'[head'[g]] /\ pre'[head'[g]] = Nil
               /\ hash_func[fname'[head'[g]]] = g
    <3>1. CASE g = h
      BY <1>1, <1>2, <2>1, <3>1 DEF h
    <3>2. CASE g # h
      <4>1. /\ head'[g] = head[g] /\ head[g] \in Block /\ live[head[g]]
            /\ pre[head[g]] = Nil /\ hash_func[fname[head[g]]] = g
        BY <1>1, <1>2, <2>2, <3>2 DEF Pointer
      <4>2. head[g] # b /\ head[g] # head[h]
        <5>1. ASSUME head[g] = head[h] PROVE FALSE
          <6>1. head[h] # Nil
            BY <2>1, <4>1, <5>1
          <6>2. hash_func[fname[head[h]]] = h
            BY <1>1, <6>1
          <6> QED BY <3>2, <4>1, <5>1, <6>2
        <5> QED BY <1>2, <4>1, <5>1
      <4>3. /\ live'[head[g]] /\ pre'[head[g]] = pre[head[g]]
            /\ fname'[head[g]] = fname[head[g]]
        BY <1>2, <4>1, <4>2
      <4> QED BY <4>1, <4>3
    <3> QED BY <3>1, <3>2
  <2>3. ASSUME NEW x \in Block, live'[x]
        PROVE  IF pre'[x] = Nil THEN head'[hash_func[fname'[x]]] = x
                                ELSE live'[pre'[x]] /\ next'[pre'[x]] = x
    <3>1. CASE x = b
      BY <1>1, <1>2, <3>1 DEF h
    <3>2. CASE x # b /\ x = head[h]
      BY <1>1, <1>2, <2>1, <3>2
    <3>3. CASE x # b /\ x # head[h]
      <4>1. live[x] /\ fname'[x] = fname[x] /\ pre'[x] = pre[x]
        BY <1>1, <1>2, <2>3, <3>3
      <4>2. CASE pre[x] = Nil
        BY <1>1, <1>2, <3>3, <4>1, <4>2, HashAssumption
      <4>3. CASE pre[x] # Nil
        <5>1. pre[x] \in Block /\ live[pre[x]] /\ next[pre[x]] = x
          BY <4>1, <4>3 DEF Pointer
        <5> QED BY <1>2, <4>1, <4>3, <5>1
      <4> QED BY <4>2, <4>3
    <3> QED BY <3>1, <3>2, <3>3
  <2>4. ASSUME NEW x \in Block, live'[x], next'[x] # Nil
        PROVE  /\ live'[next'[x]] /\ pre'[next'[x]] = x
               /\ hash_func[fname'[next'[x]]] = hash_func[fname'[x]]
    <3>1. CASE x = b
      <4>1. next'[x] = head[h] /\ head[h] \in Block /\ live[head[h]] /\ head[h] # b
            /\ hash_func[fname[head[h]]] = h
        BY <1>1, <1>2, <2>4, <3>1 DEF Pointer
      <4> QED BY <1>1, <1>2, <3>1, <4>1 DEF h
    <3>2. CASE x # b
      <4>1. /\ live[x] /\ next'[x] = next[x] /\ next[x] \in Block /\ live[next[x]]
            /\ pre[next[x]] = x /\ fname'[x] = fname[x]
            /\ hash_func[fname[next[x]]] = hash_func[fname[x]]
        BY <1>1, <1>2, <2>4, <3>2 DEF Pointer
      <4>2. next[x] # b /\ next[x] # head[h]
        BY <1>1, <1>2, <2>1, <4>1
      <4> QED BY <1>1, <1>2, <4>1, <4>2
    <3> QED BY <3>1, <3>2
  <2> QED BY <2>2, <2>3, <2>4
<1> QED BY <1>3, <1>4, <1>5 DEF ChainInv
-----------------------------------------------------------------------------
(* put_zz_mutex *)

\* What both forms of put_zz_mutex start from and leave.
LEMMA PutFacts ==
  ASSUME ChainInv, NEW c \in Client, PutBack(c)
  PROVE  /\ mtx[c] \in Block /\ live[mtx[c]] /\ count[mtx[c]] \in Nat \ {0}
         /\ count' \in [Block -> Nat]
         /\ count'[mtx[c]] = count[mtx[c]] - 1
         /\ \A x \in Block : x # mtx[c] => count'[x] = count[x]
         /\ th' \in [Client -> ThreadStep]
         /\ mtx' \in [Client -> Pointer]
         /\ ThreadsHave'
         /\ UNCHANGED <<pc, cs, op, file, main, conn, ok, up, seen>>
<1>1. /\ up /\ th[c] = "put" /\ th' = [th EXCEPT ![c] = "reply"]
      /\ UNCHANGED <<pc, cs, op, file, main>>
      /\ live[mtx[c]]
      /\ count' = [count EXCEPT ![mtx[c]] = count[mtx[c]] - 1]
      /\ mtx' = [mtx EXCEPT ![c] = Nil]
      /\ UNCHANGED <<conn, ok, up, seen>>
  BY DEF PutBack, Step
<1>2. mtx[c] \in Block
  BY <1>1 DEF ChainInv, ThreadsHave
<1>3. count[mtx[c]] \in Nat \ {0}
  BY <1>1, <1>2 DEF ChainInv, TypeOK, LiveCounted
<1>4. count[mtx[c]] - 1 \in Nat
  BY <1>3
<1>5. /\ count' \in [Block -> Nat]
      /\ count'[mtx[c]] = count[mtx[c]] - 1
      /\ \A x \in Block : x # mtx[c] => count'[x] = count[x]
  BY <1>1, <1>2, <1>4 DEF ChainInv, TypeOK
<1>6. /\ th' \in [Client -> ThreadStep]
      /\ mtx' \in [Client -> Pointer]
  BY <1>1 DEF ChainInv, TypeOK, CallTypeOK, Pointer
<1>7. ThreadsHave'
  BY <1>1 DEF ChainInv, TypeOK, CallTypeOK, ThreadsHave
<1> QED BY <1>1, <1>2, <1>3, <1>5, <1>6, <1>7

LEMMA PutSharedChain ==
  ASSUME ChainInv, NEW c \in Client, PutShared(c) PROVE ChainInv'
<1>1. /\ PutBack(c) /\ count[mtx[c]] # 1
      /\ UNCHANGED <<head, live, fname, locked, pre, next>>
  BY DEF PutShared
<1>2. TypeOK' /\ ThreadsHave'
  BY <1>1, PutFacts DEF ChainInv, TypeOK, CallTypeOK
<1>3. count'[mtx[c]] > 0
  BY <1>1, PutFacts
<1>4. LiveCounted'
  BY <1>1, <1>3, PutFacts DEF ChainInv, LiveCounted
<1>5. ChainsLinked'
  BY <1>1, ChainsKept DEF ChainInv
<1> QED BY <1>2, <1>4, <1>5 DEF ChainInv

\* The chains without the block put_zz_mutex takes off.
LEMMA UnlinkChain ==
  ASSUME ChainInv, NEW b \in Block, live[b], Unlink(b),
         live' = [live EXCEPT ![b] = FALSE],
         fname' = [fname EXCEPT ![b] = NoName]
  PROVE  ChainsLinked'
<1> DEFINE h == hash_func[fname[b]]
           p == pre[b]
           n == next[b]
<1> USE DEF ChainInv, TypeOK, ChainsLinked
<1>1. /\ Nil \notin Block /\ h \in Bucket /\ p \in Pointer /\ n \in Pointer
      /\ \A x \in Block : hash_func[fname[x]] \in Bucket
  BY HashAssumption
<1>2. /\ pre' = [x \in Block |-> IF x = b THEN Nil ELSE IF x = n THEN p ELSE pre[x]]
      /\ next' = [x \in Block |-> IF x = b THEN Nil ELSE IF x = p THEN n ELSE next[x]]
      /\ head' = IF p # Nil THEN head ELSE [head EXCEPT ![h] = n]
  BY DEF Unlink
<1>3. \A x \in Block : live'[x] => /\ x # b /\ live[x] /\ fname'[x] = fname[x]
  OBVIOUS
<1>4. \A x \in Block : (x # b /\ live[x]) => (live'[x] /\ fname'[x] = fname[x])
  OBVIOUS
\* What the block's neighbours know of it.
<1>5. p # Nil => /\ p \in Block /\ live[p] /\ next[p] = b
                 /\ hash_func[fname[p]] = h
  <2>1. SUFFICES ASSUME p # Nil PROVE p \in Block /\ live[p] /\ next[p] = b
                                      /\ hash_func[fname[p]] = h
    OBVIOUS
  <2>2. p \in Block /\ live[p] /\ next[p] = b
    BY <1>1, <2>1 DEF Pointer
  <2> QED BY <1>1, <2>2
<1>6. p = Nil => head[h] = b
  OBVIOUS
<1>7. n # Nil => /\ n \in Block /\ live[n] /\ pre[n] = b
                 /\ hash_func[fname[n]] = h
  BY <1>1 DEF Pointer
<1> HIDE DEF h, p, n
<1>8. ASSUME NEW g \in Bucket, head'[g] # Nil
      PROVE  /\ live'[head'[g]] /\ pre'[head'[g]] = Nil
             /\ hash_func[fname'[head'[g]]] = g
  <2>1. CASE p = Nil /\ g = h
    <3>1. head'[g] = n /\ n # Nil
      BY <1>1, <1>2, <1>8, <2>1
    <3>2. n # b
      BY <1>1, <1>7, <2>1, <3>1 DEF p
    <3>3. pre'[n] = Nil
      BY <1>2, <1>7, <2>1, <3>1, <3>2
    <3> QED BY <1>4, <1>7, <2>1, <3>1, <3>2, <3>3
  <2>2. CASE p # Nil \/ g # h
    <3>1. head'[g] = head[g]
      BY <1>1, <1>2, <2>2
    <3>2. /\ head[g] \in Block /\ live[head[g]] /\ pre[head[g]] = Nil
          /\ hash_func[fname[head[g]]] = g
      BY <1>8, <3>1 DEF Pointer
    <3>3. head[g] # b
      BY <2>2, <3>2 DEF p, h
    <3>4. head[g] # n
      BY <1>1, <1>7, <3>2
    <3>5. pre'[head[g]] = Nil
      BY <1>2, <3>2, <3>3, <3>4
    <3> QED BY <1>4, <3>1, <3>2, <3>3, <3>5
  <2> QED BY <2>1, <2>2
<1>9. ASSUME NEW x \in Block, live'[x]
      PROVE  IF pre'[x] = Nil THEN head'[hash_func[fname'[x]]] = x
                              ELSE live'[pre'[x]] /\ next'[pre'[x]] = x
  <2>1. x # b /\ live[x] /\ fname'[x] = fname[x]
    BY <1>3, <1>9
  <2>2. CASE x = n
    <3>1. pre'[x] = p
      BY <1>2, <2>1, <2>2
    <3>2. CASE p = Nil
      <4>1. head'[h] = x /\ hash_func[fname'[x]] = h
        BY <1>1, <1>2, <1>7, <2>1, <2>2, <3>2
      <4> QED BY <3>1, <3>2, <4>1
    <3>3. CASE p # Nil
      <4>1. p # b
        BY <1>5, <2>1, <2>2, <3>3 DEF n
      <4>2. live'[p] /\ next'[p] = x
        BY <1>2, <1>4, <1>5, <2>2, <3>3, <4>1
      <4> QED BY <3>1, <3>3, <4>2
    <3> QED BY <3>2, <3>3
  <2>3. CASE x # n
    <3>1. pre'[x] = pre[x]
      BY <1>2, <2>1, <2>3
    <3>2. CASE pre[x] = Nil
      <4>1. head[hash_func[fname[x]]] = x
        BY <2>1, <3>2
      <4>2. p = Nil => hash_func[fname[x]] # h
        BY <1>6, <2>1, <4>1
      <4>3. head'[hash_func[fname[x]]] = x
        BY <1>1, <1>2, <4>1, <4>2
      <4> QED BY <2>1, <3>1, <3>2, <4>3
    <3>3. CASE pre[x] # Nil
      <4>1. pre[x] \in Block /\ live[pre[x]] /\ next[pre[x]] = x
        BY <2>1, <3>3 DEF Pointer
      <4>2. pre[x] # b /\ pre[x] # p
        BY <1>1, <1>5, <2>1, <2>3, <4>1 DEF n
      <4>3. live'[pre[x]] /\ next'[pre[x]] = x
        BY <1>2, <1>4, <4>1, <4>2
      <4> QED BY <3>1, <3>3, <4>3
    <3> QED BY <3>2, <3>3
  <2> QED BY <2>2, <2>3
<1>10. ASSUME NEW x \in Block, live'[x], next'[x] # Nil
       PROVE  /\ live'[next'[x]] /\ pre'[next'[x]] = x
              /\ hash_func[fname'[next'[x]]] = hash_func[fname'[x]]
  <2>1. x # b /\ live[x] /\ fname'[x] = fname[x]
    BY <1>3, <1>10
  <2>2. CASE x = p
    <3>1. next'[x] = n /\ n # Nil
      BY <1>2, <1>10, <2>1, <2>2
    <3>2. n # b
      BY <1>7, <2>1, <2>2, <3>1 DEF p
    <3>3. pre'[n] = x
      BY <1>2, <1>7, <2>2, <3>1, <3>2
    <3>4. hash_func[fname[x]] = h
      BY <1>1, <1>5, <2>2
    <3> QED BY <1>4, <1>7, <2>1, <3>1, <3>2, <3>3, <3>4
  <2>3. CASE x # p
    <3>1. next'[x] = next[x]
      BY <1>2, <2>1, <2>3
    <3>2. /\ next[x] \in Block /\ live[next[x]] /\ pre[next[x]] = x
          /\ hash_func[fname[next[x]]] = hash_func[fname[x]]
      BY <1>10, <2>1, <3>1 DEF Pointer
    <3>3. next[x] # b /\ next[x] # n
      BY <1>1, <1>7, <2>1, <2>3, <3>2 DEF p
    <3>4. pre'[next[x]] = x
      BY <1>2, <3>2, <3>3
    <3> QED BY <1>4, <2>1, <3>1, <3>2, <3>3, <3>4
  <2> QED BY <2>2, <2>3
<1> QED BY <1>8, <1>9, <1>10

LEMMA PutLastChain ==
  ASSUME ChainInv, NEW c \in Client, PutLast(c) PROVE ChainInv'
<1> DEFINE b == mtx[c]
<1>1. /\ PutBack(c)
      /\ Unlink(b)
      /\ live' = [live EXCEPT ![b] = FALSE]
      /\ fname' = [fname EXCEPT ![b] = NoName]
      /\ locked' = [locked EXCEPT ![b] = FALSE]
  BY DEF PutLast
<1>2. b \in Block /\ live[b]
  BY <1>1, PutFacts
<1> HIDE DEF b
<1>3. /\ pre' \in [Block -> Pointer] /\ next' \in [Block -> Pointer]
      /\ head' \in [Bucket -> Pointer]
  BY <1>1, <1>2, HashAssumption DEF ChainInv, TypeOK, Unlink, Pointer
<1>4. /\ live' \in [Block -> BOOLEAN] /\ locked' \in [Block -> BOOLEAN]
      /\ fname' \in [Block -> Name]
  BY <1>1 DEF ChainInv, TypeOK
<1>5. TypeOK' /\ ThreadsHave'
  BY <1>1, <1>3, <1>4, PutFacts DEF ChainInv, TypeOK, CallTypeOK
<1>6. LiveCounted'
  BY <1>1, <1>2, PutFacts DEF ChainInv, TypeOK, LiveCounted, b
<1>7. ChainsLinked'
  BY <1>1, <1>2, UnlinkChain
<1> QED BY <1>5, <1>6, <1>7 DEF ChainInv

-----------------------------------------------------------------------------
(* The theorems *)

LEMMA ChainStep == ChainInv /\ [Next]_vars => ChainInv'
<1> SUFFICES ASSUME ChainInv, [Next]_vars PROVE ChainInv'
  OBVIOUS
<1>1. CASE Next
  <2>1. PICK c \in Client : CallStep(c) \/ ThreadStepOf(c)
    BY <1>1 DEF Next
  <2>2. CASE CallStep(c)
    BY <2>2, CallChain
  <2>3. CASE \/ ReadHead(c) \/ GetNone(c) \/ Lock(c) \/ TryOk(c) \/ TryFail(c)
             \/ Unlock(c) \/ Reply(c)
    BY <2>3, QuietSteps
  <2>4. CASE Dangle(c)
    BY <2>4, DangleChain
  <2>5. CASE \E b \in Block : GetMatch(c, b) \/ GetNew(c, b)
    BY <2>5, GetMatchChain, GetNewChain
  <2>6. CASE PutShared(c) \/ PutLast(c)
    BY <2>6, PutSharedChain, PutLastChain
  <2> QED BY <2>1, <2>2, <2>3, <2>4, <2>5, <2>6 DEF ThreadStepOf
<1>2. CASE UNCHANGED vars
  <2>1. TypeOK' /\ ThreadsHave' /\ LiveCounted'
    BY <1>2 DEF ChainInv, TypeOK, CallTypeOK, ThreadsHave, LiveCounted
  <2> QED BY <1>2, <2>1, ChainsKept DEF ChainInv
<1> QED BY <1>1, <1>2

LEMMA ChainAlways == Spec => []ChainInv
  BY ChainInit, ChainStep, PTL DEF Spec

(* Every field has its type: in particular no count ever goes below zero,  *)
(* whatever the schedule and the users do (put_zz_mutex of                 *)
(* new_md_mutex_server.c).                                                 *)
THEOREM HashTypeCorrect == Spec => []TypeOK
<1>1. ChainInv => TypeOK
  BY DEF ChainInv
<1> QED BY <1>1, ChainAlways, PTL

(* The chains are doubly linked lists of allocated blocks, each in the     *)
(* chain of its name, in every schedule: the race on the head of a chain   *)
(* can duplicate a name but never damage a chain (get_zz_mutex and         *)
(* put_zz_mutex of new_md_mutex_server.c).                                 *)
THEOREM ChainsAlwaysLinked == Spec => []ChainsLinked
<1>1. ChainInv => ChainsLinked
  BY DEF ChainInv
<1> QED BY <1>1, ChainAlways, PTL

(* An allocated block always has a positive count: put_zz_mutex frees it   *)
(* in the step in which the count reaches zero.                            *)
THEOREM FreedAtZero == Spec => []LiveCounted
<1>1. ChainInv => LiveCounted
  BY DEF ChainInv
<1> QED BY <1>1, ChainAlways, PTL

-----------------------------------------------------------------------------
(* Walks *)

\* The blocks can be numbered such that pre leads from higher numbers to lower
\* ones: no chain leads back into itself.
Ordered(rank) == \A b \in Block :
                   live[b] /\ pre[b] # Nil => rank[pre[b]] < rank[b]
Acyclic == \E rank \in [Block -> Nat] : Ordered(rank)

LEMMA AcyclicInit == Init => Acyclic
<1> SUFFICES ASSUME Init PROVE Acyclic
  OBVIOUS
<1>1. /\ [b \in Block |-> 0] \in [Block -> Nat]
      /\ Ordered([b \in Block |-> 0])
  BY DEF Init, Ordered
<1> QED BY <1>1 DEF Acyclic

\* The new block is numbered below the others.
LEMMA GetNewAcyclic ==
  ASSUME ChainInv, Acyclic, NEW c \in Client, NEW b \in Block, GetNew(c, b)
  PROVE  Acyclic'
<1> DEFINE h == hash_func[file[c]]
<1>1. PICK rank \in [Block -> Nat] : Ordered(rank)
  BY DEF Acyclic
<1>2. /\ ~live[b]
      /\ live' = [live EXCEPT ![b] = TRUE]
      /\ pre' = [x \in Block |-> IF x = b THEN Nil
                                 ELSE IF x = head[h] THEN b ELSE pre[x]]
  BY DEF GetNew
<1> HIDE DEF h
<1> DEFINE higher == [x \in Block |-> IF x = b THEN 0 ELSE rank[x] + 1]
<1>3. higher \in [Block -> Nat]
  OBVIOUS
<1>4. ASSUME NEW x \in Block, live'[x], pre'[x] # Nil
      PROVE  higher[pre'[x]] < higher[x]
  <2>1. x # b /\ live[x]
    BY <1>2, <1>4 DEF ChainInv, TypeOK
  <2>2. CASE x = head[h]
    BY <1>2, <2>1, <2>2
  <2>3. CASE x # head[h]
    <3>1. pre'[x] = pre[x]
      BY <1>2, <2>1, <2>3
    <3>2. pre[x] \in Block /\ live[pre[x]] /\ pre[x] # b
      BY <1>2, <1>4, <2>1, <3>1 DEF ChainInv, TypeOK, ChainsLinked, Pointer
    <3>3. rank[pre[x]] < rank[x]
      BY <1>1, <1>4, <2>1, <3>1 DEF Ordered
    <3>4. higher[pre[x]] = rank[pre[x]] + 1 /\ higher[x] = rank[x] + 1
      BY <2>1, <3>2
    <3> QED BY <3>1, <3>2, <3>3, <3>4
  <2> QED BY <2>2, <2>3
<1> HIDE DEF higher
<1> QED BY <1>3, <1>4 DEF Acyclic, Ordered

\* What is behind a block that is taken off was numbered above what is before.
LEMMA PutLastAcyclic ==
  ASSUME ChainInv, Acyclic, NEW c \in Client, PutLast(c)
  PROVE  Acyclic'
<1> DEFINE b == mtx[c]
<1>1. PICK rank \in [Block -> Nat] : Ordered(rank)
  BY DEF Acyclic
<1>2. b \in Block /\ live[b]
  BY PutFacts DEF PutLast
<1>3. /\ live' = [live EXCEPT ![b] = FALSE]
      /\ pre' = [x \in Block |-> IF x = b THEN Nil
                                 ELSE IF x = next[b] THEN pre[b] ELSE pre[x]]
  BY DEF PutLast, Unlink
<1> HIDE DEF b
<1>4. ASSUME NEW x \in Block, live'[x], pre'[x] # Nil
      PROVE  rank[pre'[x]] < rank[x]
  <2>1. x # b /\ live[x]
    BY <1>2, <1>3, <1>4 DEF ChainInv, TypeOK
  <2>2. CASE x = next[b]
    <3>1. pre[x] = b /\ pre'[x] = pre[b]
      BY <1>2, <1>3, <2>1, <2>2, HashAssumption DEF ChainInv, ChainsLinked
    <3>2. rank[b] < rank[x]
      BY <1>1, <1>2, <2>1, <3>1, HashAssumption DEF Ordered
    <3>3. rank[pre[b]] < rank[b] /\ pre[b] \in Block
      BY <1>1, <1>2, <1>4, <3>1 DEF Ordered, ChainInv, TypeOK, Pointer
    <3> QED BY <1>2, <3>1, <3>2, <3>3
  <2>3. CASE x # next[b]
    <3>1. pre'[x] = pre[x]
      BY <1>3, <2>1, <2>3
    <3> QED BY <1>1, <1>4, <2>1, <3>1 DEF Ordered
  <2> QED BY <2>2, <2>3
<1> QED BY <1>4 DEF Acyclic, Ordered

LEMMA AcyclicStep == ChainInv /\ Acyclic /\ [Next]_vars => Acyclic'
<1> SUFFICES ASSUME ChainInv, Acyclic, [Next]_vars PROVE Acyclic'
  OBVIOUS
<1>1. CASE UNCHANGED <<live, pre>>
  BY <1>1 DEF Acyclic, Ordered
<1>2. CASE \E c \in Client : PutLast(c) \/ \E b \in Block : GetNew(c, b)
  BY <1>2, GetNewAcyclic, PutLastAcyclic
<1> QED
  BY <1>1, <1>2 DEF Next, CallStep, ThreadStepOf, ReadHead, GetNone, Dangle,
     GetMatch, Lock, TryOk, TryFail, Unlock, PutShared, Reply

\* One step of a walk.
Onward(f) == [p \in Pointer |-> IF Ends(p, f) THEN p ELSE next[p]]

(* Walk is where a path from what was seen ends.                           *)
LEMMA WalkPath ==
  ASSUME ChainInv, NEW c \in Client
  PROVE  \E w \in [0 .. Cardinality(Block) -> Pointer] :
           /\ Iterates(w, Cardinality(Block), seen[c], Onward(file[c]))
           /\ Walk(c) = w[Cardinality(Block)]
<1> DEFINE N == Cardinality(Block)
           g == Onward(file[c])
           Path(w) == w = [k \in 0 .. N |->
                             IF k = 0 THEN seen[c]
                             ELSE IF Ends(w[k - 1], file[c]) THEN w[k - 1]
                                  ELSE next[w[k - 1]]]
<1>1. N \in Nat /\ seen[c] \in Pointer
  BY HashAssumption, FS_CardinalityType DEF ChainInv, TypeOK
<1>2. g \in [Pointer -> Pointer]
  BY DEF ChainInv, TypeOK, Onward, Ends, Pointer
<1> HIDE DEF g, N
<1>3. PICK v \in [0 .. N -> Pointer] : Iterates(v, N, seen[c], g)
  BY <1>1, <1>2, Iterated
<1>4. v[0] = seen[c] /\ \A k \in 0 .. N : k # 0 => v[k] = g[v[k - 1]]
  BY <1>1, <1>3 DEF Iterates
<1>5. \A k \in 0 .. N : k # 0 => v[k - 1] \in Pointer
  BY <1>1
<1>6. Path(v)
  <2>1. \A k \in 0 .. N : k # 0 =>
          v[k] = IF Ends(v[k - 1], file[c]) THEN v[k - 1] ELSE next[v[k - 1]]
    BY <1>4, <1>5 DEF g, Onward
  <2> QED BY <1>1, <1>4, <2>1
<1> DEFINE w == CHOOSE x : Path(x)
<1>7. Walk(c) = w[N]
  BY DEF Walk, N
<1>8. Path(w)
  <2>1. \E x : Path(x)
    BY <1>6
  <2> HIDE DEF Path
  <2> QED BY <2>1, Zenon
<1> HIDE DEF w
<1>9. /\ w[0] = seen[c]
      /\ \A k \in 0 .. N : k # 0 =>
           w[k] = IF Ends(w[k - 1], file[c]) THEN w[k - 1] ELSE next[w[k - 1]]
  BY <1>1, <1>8
<1>10. \A k \in 0 .. N : w[k] \in Pointer
  <2> DEFINE T == {k \in Nat : k <= N => w[k] \in Pointer}
  <2>1. 0 \in T
    BY <1>1, <1>9
  <2>2. ASSUME NEW k \in Nat, k \in T PROVE k + 1 \in T
    <3> SUFFICES ASSUME k + 1 <= N PROVE w[k + 1] \in Pointer
      OBVIOUS
    <3>1. w[k] \in Pointer /\ k + 1 \in 0 .. N /\ k + 1 # 0 /\ (k + 1) - 1 = k
      BY <1>1, <2>2
    <3>2. w[k + 1] = IF Ends(w[k], file[c]) THEN w[k] ELSE next[w[k]]
      BY <1>9, <3>1
    <3>3. ~Ends(w[k], file[c]) => next[w[k]] \in Pointer
      BY <3>1 DEF ChainInv, TypeOK, Ends, Pointer
    <3> QED BY <3>1, <3>2, <3>3
  <2> HIDE DEF T
  <2>3. Nat \subseteq T
    BY <2>1, <2>2, Induct
  <2> QED BY <1>1, <2>3 DEF T
<1>11. w \in [0 .. N -> Pointer]
  BY <1>8, <1>10
<1>12. \A k \in 0 .. N : k # 0 => w[k] = g[w[k - 1]]
  <2>1. \A k \in 0 .. N : k # 0 => w[k - 1] \in Pointer
    BY <1>1, <1>10
  <2> QED BY <1>9, <2>1 DEF g, Onward
<1>13. Iterates(w, N, seen[c], g)
  BY <1>8, <1>9, <1>12 DEF Iterates
<1> QED BY <1>7, <1>11, <1>13 DEF g, N

\* Where a walk can be: at the end, at a free block, or going up a chain.
LEMMA WalkFacts ==
  ASSUME ChainInv, NEW c \in Client, NEW N, N = Cardinality(Block),
         NEW w \in [0 .. N -> Pointer], Iterates(w, N, seen[c], Onward(file[c]))
  PROVE  /\ N \in Nat
         /\ w[0] = seen[c]
         /\ \A k \in 0 .. N - 1 :
              w[k + 1] = IF Ends(w[k], file[c]) THEN w[k] ELSE next[w[k]]
<1>1. N \in Nat
  BY HashAssumption, FS_CardinalityType
<1>2. w[0] = seen[c] /\ \A k \in 0 .. N : k # 0 => w[k] = Onward(file[c])[w[k - 1]]
  BY <1>1 DEF Iterates
<1>3. ASSUME NEW k \in 0 .. N - 1
      PROVE  w[k + 1] = IF Ends(w[k], file[c]) THEN w[k] ELSE next[w[k]]
  <2>1. k + 1 \in 0 .. N /\ k + 1 # 0 /\ (k + 1) - 1 = k /\ k \in 0 .. N
    BY <1>1
  <2>2. w[k + 1] = Onward(file[c])[w[k]] /\ w[k] \in Pointer
    BY <1>2, <2>1
  <2> QED BY <2>2 DEF Onward
<1> QED BY <1>1, <1>2, <1>3

\* A walk that has ended stays where it is.
LEMMA WalkStays ==
  ASSUME ChainInv, NEW c \in Client, NEW N, N = Cardinality(Block),
         NEW w \in [0 .. N -> Pointer], Iterates(w, N, seen[c], Onward(file[c])),
         NEW j \in 0 .. N, Ends(w[j], file[c])
  PROVE  w[N] = w[j]
<1> DEFINE T == {k \in Nat : j + k <= N => w[j + k] = w[j]}
<1>1. N \in Nat /\ \A k \in 0 .. N - 1 :
        w[k + 1] = IF Ends(w[k], file[c]) THEN w[k] ELSE next[w[k]]
  BY WalkFacts
<1>2. 0 \in T
  BY <1>1
<1>3. ASSUME NEW k \in Nat, k \in T PROVE k + 1 \in T
  <2> SUFFICES ASSUME j + (k + 1) <= N PROVE w[j + (k + 1)] = w[j]
    OBVIOUS
  <2>1. w[j + k] = w[j] /\ j + k \in 0 .. N - 1 /\ j + (k + 1) = (j + k) + 1
    BY <1>1, <1>3
  <2> QED BY <1>1, <2>1
<1> HIDE DEF T
<1>4. Nat \subseteq T
  BY <1>2, <1>3, Induct
<1>5. N - j \in T /\ j + (N - j) = N
  BY <1>1, <1>4
<1> QED BY <1>1, <1>5 DEF T

\* A walk that has not ended has met a new block in each step: too many.
LEMMA WalkEnds ==
  ASSUME ChainInv, Acyclic, NEW c \in Client
  PROVE  Ends(Walk(c), file[c])
<1> DEFINE N == Cardinality(Block)
<1>0. N \in Nat
  BY HashAssumption, FS_CardinalityType
<1>1. PICK w \in [0 .. N -> Pointer] :
        /\ Iterates(w, N, seen[c], Onward(file[c]))
        /\ Walk(c) = w[N]
  BY WalkPath
<1>2. PICK rank \in [Block -> Nat] : Ordered(rank)
  BY DEF Acyclic
<1> HIDE DEF N
<1>3. /\ w[0] = seen[c]
      /\ \A k \in 0 .. N - 1 :
           w[k + 1] = IF Ends(w[k], file[c]) THEN w[k] ELSE next[w[k]]
  BY <1>1, WalkFacts DEF N
<1> SUFFICES ASSUME ~Ends(w[N], file[c]) PROVE FALSE
  BY <1>1
<1>4. \A j \in 0 .. N : ~Ends(w[j], file[c])
  <2> SUFFICES ASSUME NEW j \in 0 .. N, Ends(w[j], file[c]) PROVE FALSE
    OBVIOUS
  <2>1. Iterates(w, N, seen[c], Onward(file[c])) /\ N = Cardinality(Block)
    BY <1>1 DEF N
  <2>2. w[N] = w[j]
    BY <2>1, WalkStays
  <2> QED BY <2>2
<1>5. \A j \in 0 .. N : w[j] \in Block /\ live[w[j]]
  BY <1>4 DEF Ends, Pointer
<1>6. \A j \in 0 .. N - 1 : rank[w[j]] < rank[w[j + 1]]
  <2> SUFFICES ASSUME NEW j \in 0 .. N - 1 PROVE rank[w[j]] < rank[w[j + 1]]
    OBVIOUS
  <2>1. j \in 0 .. N /\ j + 1 \in 0 .. N
    BY <1>0
  <2>2. w[j + 1] = next[w[j]] /\ next[w[j]] # Nil
    BY <1>3, <1>4, <1>5, <2>1, HashAssumption
  <2>3. pre[w[j + 1]] = w[j] /\ w[j] # Nil /\ live[w[j + 1]] /\ w[j + 1] \in Block
    BY <1>5, <2>1, <2>2, HashAssumption DEF ChainInv, ChainsLinked
  <2> QED BY <1>2, <2>3 DEF Ordered
<1>7. \A i \in 0 .. N : \A j \in 0 .. N : i < j => rank[w[i]] < rank[w[j]]
  <2> SUFFICES ASSUME NEW i \in 0 .. N PROVE \A j \in 0 .. N : i < j => rank[w[i]] < rank[w[j]]
    OBVIOUS
  <2> DEFINE T == {k \in Nat : i + k + 1 <= N => rank[w[i]] < rank[w[i + k + 1]]}
  <2>1. 0 \in T
    BY <1>0, <1>6
  <2>2. ASSUME NEW k \in Nat, k \in T PROVE k + 1 \in T
    <3> SUFFICES ASSUME i + (k + 1) + 1 <= N
                 PROVE  rank[w[i]] < rank[w[i + (k + 1) + 1]]
      OBVIOUS
    <3>1. /\ i + k + 1 \in 0 .. N - 1 /\ i + (k + 1) + 1 = (i + k + 1) + 1
          /\ i + k + 1 \in 0 .. N /\ (i + k + 1) + 1 \in 0 .. N
      BY <1>0
    <3>2. rank[w[i]] < rank[w[i + k + 1]]
      BY <2>2, <3>1
    <3>3. rank[w[i + k + 1]] < rank[w[(i + k + 1) + 1]]
      BY <1>6, <3>1
    <3>4. /\ rank[w[i]] \in Nat /\ rank[w[i + k + 1]] \in Nat
          /\ rank[w[(i + k + 1) + 1]] \in Nat
      BY <1>2, <1>5, <3>1
    <3> QED BY <3>1, <3>2, <3>3, <3>4
  <2> HIDE DEF T
  <2>3. Nat \subseteq T
    BY <2>1, <2>2, Induct
  <2> SUFFICES ASSUME NEW j \in 0 .. N, i < j PROVE rank[w[i]] < rank[w[j]]
    OBVIOUS
  <2>4. (j - i) - 1 \in T /\ i + ((j - i) - 1) + 1 = j
    BY <1>0, <2>3
  <2> QED BY <2>4 DEF T
<1>8. /\ IsFiniteSet(0 .. N) /\ Cardinality(0 .. N) = N + 1
      /\ w \in [0 .. N -> Block]
  BY <1>0, <1>5, FS_Interval
<1>9. PICK i \in 0 .. N, j \in 0 .. N : i # j /\ w[i] = w[j]
  BY <1>0, <1>8, HashAssumption, FS_PigeonHole DEF N
<1>10. rank[w[i]] \in Nat /\ (i < j \/ j < i)
  BY <1>2, <1>5, <1>9
<1> QED BY <1>7, <1>9, <1>10

(* Every walk along a chain ends, in every schedule: get_zz_mutex never    *)
(* keeps glob_mutex for ever, even when the head it starts from has been   *)
(* freed, or taken again for another chain, since it was read.             *)
THEOREM EveryWalkEnds == Spec => []WalksEnd
<1>1. ChainInv /\ Acyclic => WalksEnd
  BY WalkEnds DEF WalksEnd
<1>2. Spec => []Acyclic
  BY AcyclicInit, AcyclicStep, ChainAlways, PTL DEF Spec
<1> QED BY <1>1, <1>2, ChainAlways, PTL
=============================================================================
