----------------------------- MODULE MdMutexHash -----------------------------
(***************************************************************************)
(* new_md_mutex_server: the lock server that allocates a zz_mutex for each *)
(* name in use and links it into the chain of the name's hash.             *)
(*                                                                         *)
(* get_zz_mutex reads the head of the chain before it locks glob_mutex, so *)
(* it is two steps, ReadHead and one of the Get actions; put_zz_mutex is   *)
(* one.  A freed block may be allocated again at once.  Behaviours are     *)
(* followed to the first use of a freed block, which is undefined: the     *)
(* server is modelled as gone from there (Dangle).                         *)
(***************************************************************************)
EXTENDS MdMutexCall

CONSTANTS
  Block,  \* where malloc can put a zz_mutex
  Nil,    \* the null pointer
  NHASH,  \* number of chains
  hash_func

Bucket == 0 .. NHASH - 1

ASSUME HashAssumption == /\ IsFiniteSet(Block)
                         /\ Nil \notin Block
                         /\ NHASH \in Nat \ {0}
                         /\ hash_func \in [Name -> Bucket]

VARIABLES
  head,    \* mutex_hash
  live,    \* whether the block is allocated
  count, fname, locked, pre, next,  \* the fields of the zz_mutex in it
  seen,    \* my_mutex of the thread before the walk: the head it read
  mtx      \* my_mutex after the walk; kept, like slot of MdMutexTable, until
           \* put_zz_mutex

fields == <<live, count, fname, locked, pre, next>>
hashVars == <<head, fields, seen, mtx>>
vars == <<callVars, hashVars>>

Pointer == Block \cup {Nil}

TypeOK == /\ CallTypeOK
          /\ head \in [Bucket -> Pointer]
          /\ live \in [Block -> BOOLEAN]
          /\ count \in [Block -> Nat]
          /\ fname \in [Block -> Name]
          /\ locked \in [Block -> BOOLEAN]
          /\ pre \in [Block -> Pointer]
          /\ next \in [Block -> Pointer]
          /\ seen \in [Client -> Pointer]
          /\ mtx \in [Client -> Pointer]

Init == /\ CallInit
        /\ head = [h \in Bucket |-> Nil]
        /\ live = [b \in Block |-> FALSE]
        /\ count = [b \in Block |-> 0]
        /\ fname = [b \in Block |-> NoName]
        /\ locked = [b \in Block |-> FALSE]
        /\ pre = [b \in Block |-> Nil]
        /\ next = [b \in Block |-> Nil]
        /\ seen = [c \in Client |-> Nil]
        /\ mtx = [c \in Client |-> Nil]

-----------------------------------------------------------------------------
(* get_zz_mutex *)

\* my_mutex = mutex_hash[hash], with glob_mutex not held.
ReadHead(c) ==
  /\ Step(c, "start", "get")
  /\ seen' = [seen EXCEPT ![c] = head[hash_func[file[c]]]]
  /\ UNCHANGED <<conn, ok, up, head, fields, mtx>>

\* Where the walk along next, from what ReadHead saw, ends: at the name, at
\* the end of the chain, or at a block that is not allocated any more.
Ends(b, f) == b = Nil \/ ~live[b] \/ fname[b] = f
Walk(c) ==
  LET from[k \in 0 .. Cardinality(Block)] ==
        IF k = 0 THEN seen[c]
        ELSE IF Ends(from[k - 1], file[c]) THEN from[k - 1] ELSE next[from[k - 1]]
  IN  from[Cardinality(Block)]

Got(c, to, b) == /\ Step(c, "get", to)
                 /\ seen' = [seen EXCEPT ![c] = Nil]
                 /\ mtx' = [mtx EXCEPT ![c] = b]
                 /\ UNCHANGED <<conn, up>>

\* Mutant: a lock does not raise the count of the block it finds.
GetMatchUncounted(c, b) ==
  /\ Got(c, Operate(op[c]), b)
  /\ b = Walk(c) /\ b # Nil /\ live[b]
  /\ UNCHANGED <<ok, head, fields>>

GetMatch(c, b) ==
  /\ Got(c, Operate(op[c]), b)
  /\ b = Walk(c) /\ b # Nil /\ live[b]
  /\ count' = IF op[c] = "MD_UNLOCK" THEN count
                                     ELSE [count EXCEPT ![b] = @ + 1]
  /\ UNCHANGED <<ok, head, live, fname, locked, pre, next>>

\* Mutants: a block is allocated without looking at what the walk found; the
\* head is set before the old head is read from it.
GetNewAlways(c, b) ==
  /\ Got(c, Operate(op[c]), b)
  /\ op[c] # "MD_UNLOCK"
  /\ ~live[b]
  /\ live' = [live EXCEPT ![b] = TRUE]
  /\ fname' = [fname EXCEPT ![b] = file[c]]
  /\ count' = [count EXCEPT ![b] = 1]
  /\ head' = [head EXCEPT ![hash_func[file[c]]] = b]
  /\ UNCHANGED <<ok, locked, pre, next>>
GetNewSelf(c, b) ==
  /\ Got(c, Operate(op[c]), b)
  /\ op[c] # "MD_UNLOCK"
  /\ Walk(c) = Nil
  /\ ~live[b]
  /\ live' = [live EXCEPT ![b] = TRUE]
  /\ fname' = [fname EXCEPT ![b] = file[c]]
  /\ count' = [count EXCEPT ![b] = 1]
  /\ head' = [head EXCEPT ![hash_func[file[c]]] = b]
  /\ next' = [next EXCEPT ![b] = b]
  /\ UNCHANGED <<ok, locked, pre>>

\* alloc_zz_mutex, and the new block becomes the head of the chain as it is
\* now, which need not be the chain that was walked.
GetNew(c, b) ==
  /\ Got(c, Operate(op[c]), b)
  /\ op[c] # "MD_UNLOCK"
  /\ Walk(c) = Nil
  /\ ~live[b]
  /\ live' = [live EXCEPT ![b] = TRUE]
  /\ locked' = [locked EXCEPT ![b] = FALSE]
  /\ fname' = [fname EXCEPT ![b] = file[c]]
  /\ count' = [count EXCEPT ![b] = 1]
  /\ LET h == hash_func[file[c]]
     IN  /\ next' = [next EXCEPT ![b] = head[h]]
         /\ pre' = [x \in Block |-> IF x = b THEN Nil
                                    ELSE IF x = head[h] THEN b ELSE pre[x]]
         /\ head' = [head EXCEPT ![h] = b]
  /\ UNCHANGED ok

GetNone(c) ==
  /\ Got(c, "reply", Nil)
  /\ op[c] = "MD_UNLOCK"
  /\ Walk(c) = Nil
  /\ ok' = [ok EXCEPT ![c] = FALSE]
  /\ UNCHANGED <<head, fields>>

-----------------------------------------------------------------------------
(* The switch of thread_func, put_zz_mutex, and the response *)

\* The thread is about to use a block that is free.
Dangling(c) ==
  \/ th[c] = "get" /\ Walk(c) # Nil /\ ~live[Walk(c)]
  \/ th[c] \in {"lock", "try", "unlock", "put"} /\ ~live[mtx[c]]

Dangle(c) ==
  /\ up
  /\ Dangling(c)
  /\ up' = FALSE
  /\ UNCHANGED <<pc, cs, op, file, conn, ok, main, th, hashVars>>

Lock(c) ==
  /\ Step(c, "lock", "reply")
  /\ live[mtx[c]] /\ ~locked[mtx[c]]
  /\ locked' = [locked EXCEPT ![mtx[c]] = TRUE]
  /\ ok' = [ok EXCEPT ![c] = TRUE]
  /\ UNCHANGED <<conn, up, head, live, count, fname, pre, next, seen, mtx>>

\* Mutant: the value of pthread_mutex_trylock is not looked at.
TryOkUnchecked(c) ==
  /\ Step(c, "try", "reply")
  /\ live[mtx[c]]
  /\ locked' = [locked EXCEPT ![mtx[c]] = TRUE]
  /\ ok' = [ok EXCEPT ![c] = TRUE]
  /\ UNCHANGED <<conn, up, head, live, count, fname, pre, next, seen, mtx>>

TryOk(c) ==
  /\ Step(c, "try", "reply")
  /\ live[mtx[c]] /\ ~locked[mtx[c]]
  /\ locked' = [locked EXCEPT ![mtx[c]] = TRUE]
  /\ ok' = [ok EXCEPT ![c] = TRUE]
  /\ UNCHANGED <<conn, up, head, live, count, fname, pre, next, seen, mtx>>

\* Mutant: try_lock waits like lock.
TryWaits(c) == th[c] = "try" /\ FALSE

TryFail(c) ==
  /\ Step(c, "try", "put")
  /\ live[mtx[c]] /\ locked[mtx[c]]
  /\ ok' = [ok EXCEPT ![c] = FALSE]
  /\ UNCHANGED <<conn, up, hashVars>>

\* Mutant: the block is put back but its mutex not unlocked.
UnlockForgotten(c) ==
  /\ Step(c, "unlock", "put")
  /\ live[mtx[c]]
  /\ ok' = [ok EXCEPT ![c] = TRUE]
  /\ UNCHANGED <<conn, up, hashVars>>

Unlock(c) ==
  /\ Step(c, "unlock", "put")
  /\ live[mtx[c]]
  /\ locked' = [locked EXCEPT ![mtx[c]] = FALSE]
  /\ ok' = [ok EXCEPT ![c] = TRUE]
  /\ UNCHANGED <<conn, up, head, live, count, fname, pre, next, seen, mtx>>

\* put_zz_mutex; the last user takes the block off its chain and frees it.
\* The fields of a free block are never used, and have their initial values.
PutBack(c) ==
  /\ Step(c, "put", "reply")
  /\ live[mtx[c]]
  /\ count' = [count EXCEPT ![mtx[c]] = @ - 1]
  /\ mtx' = [mtx EXCEPT ![c] = Nil]
  /\ UNCHANGED <<conn, ok, up, seen>>

\* Mutant: the next block keeps its pre.
UnlinkHalf(b) ==
  /\ pre' = [pre EXCEPT ![b] = Nil]
  /\ next' = [x \in Block |-> IF x = b THEN Nil
                              ELSE IF x = pre[b] THEN next[b] ELSE next[x]]
  /\ head' = IF pre[b] # Nil THEN head
             ELSE [head EXCEPT ![hash_func[fname[b]]] = next[b]]

Unlink(b) ==
  /\ pre' = [x \in Block |-> IF x = b THEN Nil
                             ELSE IF x = next[b] THEN pre[b] ELSE pre[x]]
  /\ next' = [x \in Block |-> IF x = b THEN Nil
                              ELSE IF x = pre[b] THEN next[b] ELSE next[x]]
  /\ head' = IF pre[b] # Nil THEN head
             ELSE [head EXCEPT ![hash_func[fname[b]]] = next[b]]

\* Mutant: the count is tested before it is lowered.
PutSharedLate(c) == PutBack(c) /\ UNCHANGED <<head, live, fname, locked, pre, next>>

PutShared(c) ==
  /\ PutBack(c)
  /\ count[mtx[c]] # 1
  /\ UNCHANGED <<head, live, fname, locked, pre, next>>

PutLast(c) ==
  /\ PutBack(c)
  /\ count[mtx[c]] = 1
  /\ Unlink(mtx[c])
  /\ live' = [live EXCEPT ![mtx[c]] = FALSE]
  /\ fname' = [fname EXCEPT ![mtx[c]] = NoName]
  /\ locked' = [locked EXCEPT ![mtx[c]] = FALSE]

Reply(c) ==
  /\ Step(c, "reply", "none")
  /\ conn' = [conn EXCEPT ![c] = "replied"]
  /\ UNCHANGED <<ok, up, hashVars>>

ThreadStepOf(c) == \/ ReadHead(c) \/ GetNone(c) \/ Dangle(c)
                   \/ \E b \in Block : GetMatch(c, b) \/ GetNew(c, b)
                   \/ Lock(c) \/ TryOk(c) \/ TryFail(c) \/ Unlock(c)
                   \/ PutShared(c) \/ PutLast(c) \/ Reply(c)

CallStep(c) == (UserStep(c) \/ MainStep(c)) /\ UNCHANGED hashVars

Next == \E c \in Client : CallStep(c) \/ ThreadStepOf(c)

\* As in MdMutexTable.
Fairness ==
  \A c \in Client :
    /\ WF_vars((Send(c) \/ Return(c) \/ ConnectionLost(c)) /\ UNCHANGED hashVars)
    /\ SF_vars(Accept(c) /\ UNCHANGED hashVars)
    /\ WF_vars((ReadRequest(c) \/ ReadEof(c)) /\ UNCHANGED hashVars)
    /\ WF_vars(ThreadStepOf(c))

Spec == Init /\ [][Next]_vars

\* The schedules in which no other thread gets between a thread's reading of
\* a head and its locking of glob_mutex.
Prompt == \A c \in Client : th[c] = "get" => th'[c] # "get"
PromptSpec == Init /\ [][Next /\ Prompt]_vars
PromptFairSpec == PromptSpec /\ Fairness

-----------------------------------------------------------------------------
(* Safety, whatever the schedule *)

(* The chains are doubly linked lists of allocated blocks, each in the     *)
(* chain its name hashes to: what the race on the head breaks is what is   *)
(* in a chain, never the chain (the linking code of get_zz_mutex and the   *)
(* unlinking code of put_zz_mutex).                                        *)
ChainsLinked ==
  /\ \A h \in Bucket : head[h] # Nil =>
       /\ live[head[h]]
       /\ pre[head[h]] = Nil
       /\ hash_func[fname[head[h]]] = h
  /\ \A b \in Block : live[b] =>
       /\ IF pre[b] = Nil THEN head[hash_func[fname[b]]] = b
                          ELSE live[pre[b]] /\ next[pre[b]] = b
       /\ next[b] # Nil => /\ live[next[b]]
                           /\ pre[next[b]] = b
                           /\ hash_func[fname[next[b]]] = hash_func[fname[b]]

(* Every walk ends: a chain never leads back into itself, which would keep *)
(* glob_mutex locked for ever.                                             *)
WalksEnd == \A c \in Client : th[c] = "get" => Ends(Walk(c), file[c])

(* A block is freed exactly when its count reaches zero.                   *)
LiveCounted == \A b \in Block : live[b] => count[b] > 0

(* A name that has a mutex gets a second one only from a thread whose head *)
(* is no longer the head of the chain when it has locked glob_mutex: the   *)
(* walk of get_zz_mutex misses nothing else, whatever others have linked,  *)
(* unlinked and freed in the meantime.                                     *)
SecondNodeByRace ==
  [][\A a, b \in Block :
       live[a] /\ ~live[b] /\ live'[b] /\ fname'[b] = fname[a] =>
         \E c \in Client : /\ th[c] = "get" /\ th'[c] # "get"
                           /\ file[c] = fname[a]
                           /\ seen[c] # head[hash_func[file[c]]]]_vars

-----------------------------------------------------------------------------
(* Safety in the prompt schedules *)

Users(b) == {c \in Client : mtx[c] = b}

(* "How many threads are using this mutex" (the comment on zz_mutex.count). *)
RefCount == \A b \in Block : live[b] => count[b] = Cardinality(Users(b))

(* A name has one mutex: "no match mutex for req, now allocate a new mutex" *)
(* is said only when there is none.                                        *)
UniqueNode ==
  \A a, b \in Block : (a # b /\ live[a] /\ live[b]) => fname[a] # fname[b]

(* No thread uses a mutex that another thread has freed.                   *)
NoDangling == \A c \in Client : ~Dangling(c)

(* What careful users rely on although others of them die, strong enough   *)
(* to be inductive.                                                        *)

\* The head a thread walks from is the head of its chain.
HeadSeen == \A c \in Client : th[c] = "get" => seen[c] = head[hash_func[file[c]]]

\* A user that waits, owns or puts back has a mutex, and it is its file's.
HasMutex(c) == Owns(c) \/ th[c] \in {"lock", "try", "put"} =>
                 mtx[c] # Nil /\ fname[mtx[c]] = file[c]

\* A block that has users is allocated, and its count is not below their number.
NoEarlyFree == \A b \in Block : Users(b) # {} =>
                 live[b] /\ count[b] >= Cardinality(Users(b))

\* The mutex of an owner is locked, and has no second owner.
OwnersLocked ==
  \A c \in Client : Owns(c) =>
    /\ locked[mtx[c]]
    /\ \A d \in Client : Owns(d) /\ mtx[d] = mtx[c] => d = c

Surviving ==
  /\ up
  /\ \A c \in Client : Aligned(c) /\ OnTask(c) /\ HasMutex(c)
  /\ UniqueNode
  /\ NoEarlyFree
  /\ OwnersLocked

(* A name that somebody waits for and nobody owns is granted: there is     *)
(* always a mutex to hand over, a full table there is not.                 *)
HandOver == \A f \in File : Wanted(f) ~> (Owned(f) \/ ~Wanted(f))
=============================================================================
