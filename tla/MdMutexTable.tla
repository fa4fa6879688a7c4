---------------------------- MODULE MdMutexTable ----------------------------
(***************************************************************************)
(* md_mutex_server_process: the lock server that keeps its mutexes in a    *)
(* table of MUTEX_NUM slots.  A slot is taken while its count is not zero; *)
(* the count is raised when a lock or try_lock finds the slot and lowered  *)
(* when a failed try_lock or an unlock puts it back, so it counts the      *)
(* holder and the waiting threads.                                         *)
(*                                                                         *)
(* glob_mutex makes get_z_mutex and put_z_mutex one step each.  Between    *)
(* them a thread keeps only a pointer to its slot.                         *)
(***************************************************************************)
EXTENDS MdMutexCall

CONSTANT MUTEX_NUM

ASSUME TableAssumption == MUTEX_NUM \in Nat \ {0}

Slot == 0 .. MUTEX_NUM - 1
NoSlot == -1

VARIABLES
  count,   \* z_mutex.count
  fname,   \* z_mutex.file_name
  locked,  \* whether z_mutex.p_mutex is locked
  slot     \* the slot the thread of a user found: my_mutex of thread_func.
           \* It is kept after the thread of a granted lock has exited, to
           \* remember where the lock is, until an unlock puts the slot back.

tableVars == <<count, fname, locked, slot>>
vars == <<callVars, tableVars>>

TypeOK == /\ CallTypeOK
          /\ count \in [Slot -> Int]
          /\ fname \in [Slot -> Name]
          /\ locked \in [Slot -> BOOLEAN]
          /\ slot \in [Client -> Slot \cup {NoSlot}]

Init == /\ CallInit
        /\ count = [s \in Slot |-> 0]
        /\ fname = [s \in Slot |-> NoName]
        /\ locked = [s \in Slot |-> FALSE]
        /\ slot = [c \in Client |-> NoSlot]

-----------------------------------------------------------------------------
(* get_z_mutex *)

\* The loop leaves the table at a slot taken for the requested name, or at a
\* negative count, whatever the name.
Stops(c, s) == count[s] < 0 \/ (count[s] > 0 /\ fname[s] = file[c])
FirstStop(c, s) == Stops(c, s) /\ \A r \in Slot : r < s => ~Stops(c, r)
FirstFree(s) == count[s] = 0 /\ \A r \in Slot : r < s => count[r] # 0

Found(c, s) == /\ Step(c, "start", Operate(op[c]))
               /\ slot' = [slot EXCEPT ![c] = s]
               /\ UNCHANGED <<conn, ok, up, locked>>

\* Mutant: a lock does not raise the count of the slot it finds.
GetMatchUncounted(c, s) ==
  Found(c, s) /\ FirstStop(c, s) /\ count[s] > 0 /\ UNCHANGED <<count, fname>>

GetMatch(c, s) ==
  /\ Found(c, s)
  /\ FirstStop(c, s)
  /\ count[s] > 0
  /\ count' = IF op[c] = "MD_UNLOCK" THEN count
                                     ELSE [count EXCEPT ![s] = @ + 1]
  /\ UNCHANGED fname

\* Mutant: the first free slot ends the search.
GetFreeUnsearched(c, s) ==
  /\ Found(c, s)
  /\ op[c] # "MD_UNLOCK"
  /\ FirstFree(s)
  /\ count' = [count EXCEPT ![s] = 1]
  /\ fname' = [fname EXCEPT ![s] = file[c]]

GetFree(c, s) ==
  /\ Found(c, s)
  /\ op[c] # "MD_UNLOCK"
  /\ \A r \in Slot : ~Stops(c, r)
  /\ FirstFree(s)
  /\ count' = [count EXCEPT ![s] = 1]
  /\ fname' = [fname EXCEPT ![s] = file[c]]

\* Mutant: the end of the table is returned for the null pointer.
GetNoneEnd(c) ==
  /\ Step(c, "start", "reply")
  /\ \A s \in Slot : ~Stops(c, s)
  /\ op[c] # "MD_UNLOCK" => \A s \in Slot : count[s] # 0
  /\ ok' = [ok EXCEPT ![c] = FALSE]
  /\ slot' = [slot EXCEPT ![c] = MUTEX_NUM]
  /\ UNCHANGED <<conn, up, count, fname, locked>>

\* The null pointer: nothing to unlock, or a full table (ALLOC_MUTEX_FAIL).
GetNone(c) ==
  /\ Step(c, "start", "reply")
  /\ \A s \in Slot : ~Stops(c, s)
  /\ op[c] # "MD_UNLOCK" => \A s \in Slot : count[s] # 0
  /\ ok' = [ok EXCEPT ![c] = FALSE]
  /\ slot' = [slot EXCEPT ![c] = NoSlot]
  /\ UNCHANGED <<conn, up, count, fname, locked>>

\* A negative count: exit(EXIT_FAILURE), of the whole server.
GetAbort(c) ==
  /\ up
  /\ th[c] = "start"
  /\ \E s \in Slot : FirstStop(c, s) /\ count[s] < 0
  /\ up' = FALSE
  /\ UNCHANGED <<pc, cs, op, file, conn, ok, main, th, tableVars>>

-----------------------------------------------------------------------------
(* The switch of thread_func, put_z_mutex, and the response *)

Lock(c) ==
  /\ Step(c, "lock", "reply")
  /\ ~locked[slot[c]]
  /\ locked' = [locked EXCEPT ![slot[c]] = TRUE]
  /\ ok' = [ok EXCEPT ![c] = TRUE]
  /\ UNCHANGED <<conn, up, count, fname, slot>>

\* Mutant: the value of pthread_mutex_trylock is not looked at.
TryOkUnchecked(c) ==
  /\ Step(c, "try", "reply")
  /\ locked' = [locked EXCEPT ![slot[c]] = TRUE]
  /\ ok' = [ok EXCEPT ![c] = TRUE]
  /\ UNCHANGED <<conn, up, count, fname, slot>>

TryOk(c) ==
  /\ Step(c, "try", "reply")
  /\ ~locked[slot[c]]
  /\ locked' = [locked EXCEPT ![slot[c]] = TRUE]
  /\ ok' = [ok EXCEPT ![c] = TRUE]
  /\ UNCHANGED <<conn, up, count, fname, slot>>

\* Mutants: a failed try_lock keeps the slot; try_lock waits like lock.
TryFailKept(c) ==
  /\ Step(c, "try", "reply")
  /\ locked[slot[c]]
  /\ ok' = [ok EXCEPT ![c] = FALSE]
  /\ UNCHANGED <<conn, up, tableVars>>
TryWaits(c) == th[c] = "try" /\ FALSE

TryFail(c) ==
  /\ Step(c, "try", "put")
  /\ locked[slot[c]]
  /\ ok' = [ok EXCEPT ![c] = FALSE]
  /\ UNCHANGED <<conn, up, tableVars>>

\* Mutants: the slot is put back but not unlocked; unlocked, not put back.
UnlockForgotten(c) ==
  /\ Step(c, "unlock", "put")
  /\ ok' = [ok EXCEPT ![c] = TRUE]
  /\ UNCHANGED <<conn, up, tableVars>>
UnlockKept(c) ==
  /\ Step(c, "unlock", "reply")
  /\ locked' = [locked EXCEPT ![slot[c]] = FALSE]
  /\ ok' = [ok EXCEPT ![c] = TRUE]
  /\ UNCHANGED <<conn, up, count, fname, slot>>

\* No owner is recorded in a default mutex: any thread unlocks it, and
\* unlocking an unlocked one returns 0 as well.
Unlock(c) ==
  /\ Step(c, "unlock", "put")
  /\ locked' = [locked EXCEPT ![slot[c]] = FALSE]
  /\ ok' = [ok EXCEPT ![c] = TRUE]
  /\ UNCHANGED <<conn, up, count, fname, slot>>

\* Mutant: no response after put_z_mutex.
PutSilent(c) ==
  /\ Step(c, "put", "none")
  /\ count' = [count EXCEPT ![slot[c]] = @ - 1]
  /\ slot' = [slot EXCEPT ![c] = NoSlot]
  /\ UNCHANGED <<conn, ok, up, fname, locked>>

Put(c) ==
  /\ Step(c, "put", "reply")
  /\ count' = [count EXCEPT ![slot[c]] = @ - 1]
  /\ slot' = [slot EXCEPT ![c] = NoSlot]
  /\ UNCHANGED <<conn, ok, up, fname, locked>>

Reply(c) ==
  /\ Step(c, "reply", "none")
  /\ conn' = [conn EXCEPT ![c] = "replied"]
  /\ UNCHANGED <<ok, up, tableVars>>

ThreadStepOf(c) == \/ \E s \in Slot : GetMatch(c, s) \/ GetFree(c, s)
                   \/ GetNone(c) \/ GetAbort(c)
                   \/ Lock(c) \/ TryOk(c) \/ TryFail(c)
                   \/ Unlock(c) \/ Put(c) \/ Reply(c)

CallStep(c) == (UserStep(c) \/ MainStep(c)) /\ UNCHANGED tableVars

Next == \E c \in Client : CallStep(c) \/ ThreadStepOf(c)

\* The kernel schedules main() and every thread, a user inside the client
\* library goes on when it can, and the listen queue is first in, first out:
\* a connection is not passed over for ever.  Nothing makes a user call
\* again, and nothing makes pthread_mutex_lock fair: WF of the thread says
\* only that a mutex that stays free is taken.
Fairness ==
  \A c \in Client :
    /\ WF_vars((Send(c) \/ Return(c) \/ ConnectionLost(c)) /\ UNCHANGED tableVars)
    /\ SF_vars(Accept(c) /\ UNCHANGED tableVars)
    /\ WF_vars((ReadRequest(c) \/ ReadEof(c)) /\ UNCHANGED tableVars)
    /\ WF_vars(ThreadStepOf(c))

Spec == Init /\ [][Next]_vars
FairSpec == Spec /\ Fairness
-----------------------------------------------------------------------------
(* Safety.  MutualExclusion and UnlockSucceeds are in MdMutexCall. *)

Users(s) == {c \in Client : slot[c] = s}

(* "How many threads are using this mutex" (the comment on z_mutex.count):  *)
(* the count of a slot is the number of users that wait for its mutex, own *)
(* it, or have yet to put it back.                                         *)
RefCount == \A s \in Slot : count[s] = Cardinality(Users(s))

(* A name never has two taken slots: two threads that look a name up meet  *)
(* at one mutex.  get_z_mutex keeps this by searching and taking under one *)
(* hold of glob_mutex, whatever the users do.                              *)
UniqueTaken ==
  \A r, s \in Slot :
    (r # s /\ count[r] > 0 /\ count[s] > 0) => fname[r] # fname[s]

(* The pointer a thread keeps between get_z_mutex and put_z_mutex stays a  *)
(* pointer to the mutex of its file, although glob_mutex is free meanwhile *)
(* and other threads give slots back and take them for other files.        *)
PointerValid ==
  \A c \in Client : slot[c] # NoSlot =>
    count[slot[c]] > 0 /\ fname[slot[c]] = file[c]

(* p_mutex of a slot is locked exactly while some user owns its name, and  *)
(* that user is the only one: a slot taken afresh is unlocked              *)
(* (mutex_table_init initialises p_mutex once and get_z_mutex does not do  *)
(* it again), and no unlock is lost.                                       *)
LockedByOwner ==
  \A s \in Slot :
    /\ locked[s] <=> \E c \in Users(s) : Owns(c)
    /\ \A c, d \in Users(s) : Owns(c) /\ Owns(d) => c = d

(* With as many slots as users no lock is refused, however many files      *)
(* there are: a slot comes back when the last user of its name unlocks.    *)
EnoughSlots ==
  Cardinality(Client) <= MUTEX_NUM =>
    \A c \in Client : (th[c] = "reply" /\ op[c] = "MD_LOCK") => ok[c]

(* The branch of get_z_mutex for a count below zero, "error", which ends   *)
(* the server for everybody, is never reached.                             *)
CountNotNegative == \A s \in Slot : count[s] >= 0

(* Deaths leave slots behind but take none away too early: a count is      *)
(* never below the number of users that still depend on the slot.          *)
NoEarlyFree == \A s \in Slot : count[s] >= Cardinality(Users(s))

(* A slot is renamed only while nobody has a pointer to it.                *)
NoRecycling ==
  [][\A s \in Slot : fname'[s] # fname[s] => Users(s) = {}]_vars

-----------------------------------------------------------------------------
(* What careful users rely on although others of them die, strong enough   *)
(* to be inductive.                                                        *)

\* A user that waits, owns or puts back has a slot, and it is its file's.
HasSlot(c) == Owns(c) \/ th[c] \in {"lock", "try", "put"} =>
                slot[c] # NoSlot /\ fname[slot[c]] = file[c]

\* The mutex of an owner is locked, and has no second owner.
OwnersLocked ==
  \A c \in Client : Owns(c) =>
    /\ locked[slot[c]]
    /\ \A d \in Client : Owns(d) /\ slot[d] = slot[c] => d = c

Surviving ==
  /\ up
  /\ \A c \in Client : Aligned(c) /\ OnTask(c) /\ HasSlot(c)
  /\ UniqueTaken
  /\ NoEarlyFree
  /\ OwnersLocked

(* What disciplined users rely on, strong enough to be inductive. *)

\* A user has a slot while it waits, owns, or puts back, and it is its file's.
RightSlot(c) ==
  /\ slot[c] # NoSlot <=> (Owns(c) \/ th[c] \in {"lock", "try", "put"})
  /\ slot[c] # NoSlot => fname[slot[c]] = file[c]

(* The table and the users agree: every user follows its own thread, and   *)
(* every slot is what its users think it is.                               *)
Consistent ==
  /\ up
  /\ \A c \in Client : pc[c] # "dead" /\ Aligned(c) /\ OnTask(c) /\ RightSlot(c)
  /\ UniqueTaken
  /\ RefCount
  /\ LockedByOwner

-----------------------------------------------------------------------------
(* Liveness, under FairSpec *)

(* With a slot for every user or for every name, a name that somebody      *)
(* waits for and nobody owns is granted: the hand-over is not lost between *)
(* unlock, put_z_mutex and the next get_z_mutex.  (With fewer slots two    *)
(* users may take turns in being refused.)                                 *)
HandOver ==
  Cardinality(Client) <= MUTEX_NUM \/ Cardinality(File) <= MUTEX_NUM =>
    \A f \in File : Wanted(f) ~> (Owned(f) \/ ~Wanted(f))
=============================================================================
