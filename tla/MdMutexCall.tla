---------------------------- MODULE MdMutexCall ----------------------------
(***************************************************************************)
(* The part both metadata mutex servers share: the users and the client    *)
(* library (md_mutex_func), the connection that carries one request and    *)
(* one response, and the accept loop of main(), which reads each request   *)
(* and starts a thread for it.                                             *)
(*                                                                         *)
(* A user has at most one call under way, so a connection and the server   *)
(* thread that serves it are named by the user that opened it.             *)
(***************************************************************************)
EXTENDS Integers, FiniteSets

CONSTANTS
  Careful,   \* users that unlock exactly what a lock or try_lock gave them
  ModifyMd,  \* modify_md processes: unlock whatever the lock returned
  Tool,      \* people at the lock, try_lock and unlock commands
  Mortal,    \* the users whose process may be killed
  File,      \* the names users lock
  NoName,    \* the empty string
  NoClient   \* no connection

Client == Careful \cup ModifyMd \cup Tool
Name == File \cup {NoName}
Op == {"MD_LOCK", "MD_TRY_LOCK", "MD_UNLOCK"}

ASSUME CallAssumption ==
  /\ IsFiniteSet(Client)
  /\ Careful \cap (ModifyMd \cup Tool) = {}
  /\ ModifyMd \cap Tool = {}
  /\ Mortal \subseteq Client
  /\ NoClient \notin Client
  /\ NoName \notin File

VARIABLES
  pc,    \* user process: idle, connected, waiting for the response, or dead
  cs,    \* what its last call told it: holds nothing, holds file, was refused
  op,    \* op_type of its request packet
  file,  \* file_name of its md_mutex_t, and of the request packet
  conn,  \* the connection, see ConnState
  ok,    \* ok_or_not of the response packet
  main,  \* the connection main() has accepted and is reading from
  up,    \* whether the server process runs
  th     \* where the thread of the connection is

userVars == <<pc, cs, op, file>>
callVars == <<pc, cs, op, file, conn, ok, main, up, th>>

\* open: connected, nothing written; eof: closed with nothing written;
\* taken: read by main(); replied: the response is in the socket.
ConnState == {"closed", "open", "request", "eof", "taken", "replied"}

\* The steps of thread_func, the same in both servers.
ThreadStep == {"none", "start", "get", "lock", "try", "unlock", "put", "reply"}

CallTypeOK ==
  /\ pc \in [Client -> {"idle", "connected", "waiting", "dead"}]
  /\ cs \in [Client -> {"out", "held", "failed"}]
  /\ op \in [Client -> Op]
  /\ file \in [Client -> Name]
  /\ conn \in [Client -> ConnState]
  /\ ok \in [Client -> BOOLEAN]
  /\ main \in Client \cup {NoClient}
  /\ up \in BOOLEAN
  /\ th \in [Client -> ThreadStep]

CallInit ==
  /\ pc = [c \in Client |-> "idle"]
  /\ cs = [c \in Client |-> "out"]
  /\ op = [c \in Client |-> "MD_LOCK"]
  /\ file = [c \in Client |-> NoName]
  /\ conn = [c \in Client |-> "closed"]
  /\ ok = [c \in Client |-> FALSE]
  /\ main = NoClient
  /\ up = TRUE
  /\ th = [c \in Client |-> "none"]

-----------------------------------------------------------------------------
(* The users and md_mutex_func *)

\* Which library call a user makes next: modify_md.c never looks at what the
\* lock returned before it unlocks, the command line tools obey nobody.
MayLock(c) == \/ cs[c] = "out"
              \/ cs[c] = "failed" /\ c \in Careful
              \/ c \in Tool
MayTryLock(c) == c \notin ModifyMd /\ MayLock(c)
MayUnlock(c) == \/ cs[c] = "held"
                \/ cs[c] = "failed" /\ c \in ModifyMd
                \/ c \in Tool

\* md_mutex_func up to connect(); from here on the user no longer counts on
\* a lock it is giving back.
Call(c, o, f) ==
  /\ up
  /\ pc[c] = "idle"
  /\ \/ o = "MD_LOCK" /\ MayLock(c)
     \/ o = "MD_TRY_LOCK" /\ MayTryLock(c)
     \/ o = "MD_UNLOCK" /\ MayUnlock(c) /\ (c \in Tool \/ f = file[c])
  /\ pc' = [pc EXCEPT ![c] = "connected"]
  /\ cs' = [cs EXCEPT ![c] = "out"]
  /\ op' = [op EXCEPT ![c] = o]
  /\ file' = [file EXCEPT ![c] = f]
  /\ conn' = [conn EXCEPT ![c] = "open"]
  /\ UNCHANGED <<ok, main, up, th>>

\* connect() fails because the server is gone: exit(EXIT_FAILURE).
ConnectRefused(c) ==
  /\ ~up
  /\ pc[c] = "idle"
  /\ pc' = [pc EXCEPT ![c] = "dead"]
  /\ UNCHANGED <<cs, op, file, conn, ok, main, up, th>>

\* write() of the request packet.
Send(c) ==
  /\ up
  /\ pc[c] = "connected"
  /\ pc' = [pc EXCEPT ![c] = "waiting"]
  /\ conn' = [conn EXCEPT ![c] = "request"]
  /\ UNCHANGED <<cs, op, file, ok, main, up, th>>

\* What the value md_mutex_func returns tells the user.
Learnt(o, success) == CASE o = "MD_UNLOCK"           -> "out"
                        [] o # "MD_UNLOCK" /\ success  -> "held"
                        [] o # "MD_UNLOCK" /\ ~success -> "failed"

\* read() of the response packet, close(), return.
Return(c) ==
  /\ pc[c] = "waiting"
  /\ conn[c] = "replied"
  /\ pc' = [pc EXCEPT ![c] = "idle"]
  /\ conn' = [conn EXCEPT ![c] = "closed"]
  /\ cs' = [cs EXCEPT ![c] = Learnt(op[c], ok[c])]
  /\ UNCHANGED <<op, file, ok, main, up, th>>

\* The server is gone.  A connection main() had accepted may end in end of
\* file, which leaves the zeroed response packet, and zero is NOT_OK; one with
\* anything unread ends in a reset, and the user exits.
ConnectionLost(c) ==
  /\ ~up
  /\ pc[c] \in {"connected", "waiting"}
  /\ conn[c] # "replied"
  /\ \/ /\ conn[c] = "taken" \/ main = c
        /\ pc' = [pc EXCEPT ![c] = "idle"]
        /\ cs' = [cs EXCEPT ![c] = Learnt(op[c], FALSE)]
     \/ /\ conn[c] # "taken"
        /\ pc' = [pc EXCEPT ![c] = "dead"]
        /\ UNCHANGED cs
  /\ conn' = [conn EXCEPT ![c] = "closed"]
  /\ UNCHANGED <<op, file, ok, main, up, th>>

\* The user's process is killed.  The kernel closes its socket: main() reads
\* end of file from a connection nothing was written to.
Die(c) ==
  /\ c \in Mortal
  /\ pc[c] # "dead"
  /\ pc' = [pc EXCEPT ![c] = "dead"]
  /\ conn' = [conn EXCEPT ![c] = IF @ = "open" THEN "eof" ELSE @]
  /\ UNCHANGED <<cs, op, file, ok, main, up, th>>

UserStep(c) == \/ \E o \in Op, f \in File : Call(c, o, f)
               \/ Send(c) \/ Return(c) \/ Die(c)
               \/ ConnectRefused(c) \/ ConnectionLost(c)

-----------------------------------------------------------------------------
(* main() of the server *)

Accept(c) ==
  /\ up
  /\ main = NoClient
  /\ conn[c] \in {"open", "request", "eof"}
  /\ main' = c
  /\ UNCHANGED <<pc, cs, op, file, conn, ok, up, th>>

\* read() blocks main() until the user has written or is gone.
ReadRequest(c) ==
  /\ up
  /\ main = c
  /\ conn[c] = "request"
  /\ main' = NoClient
  /\ conn' = [conn EXCEPT ![c] = "taken"]
  /\ th' = [th EXCEPT ![c] = "start"]
  /\ UNCHANGED <<pc, cs, op, file, ok, up>>

\* read() returns 0, which main() does not look at: the request packet it
\* zeroed says MD_LOCK on the empty name.
ReadEof(c) ==
  /\ up
  /\ main = c
  /\ conn[c] = "eof"
  /\ main' = NoClient
  /\ conn' = [conn EXCEPT ![c] = "taken"]
  /\ op' = [op EXCEPT ![c] = "MD_LOCK"]
  /\ file' = [file EXCEPT ![c] = NoName]
  /\ th' = [th EXCEPT ![c] = "start"]
  /\ UNCHANGED <<pc, cs, ok, up>>

MainStep(c) == Accept(c) \/ ReadRequest(c) \/ ReadEof(c)

-----------------------------------------------------------------------------
(* thread_func, the same in both servers *)

\* The thread's next step, MD_LOCK, MD_TRY_LOCK or MD_UNLOCK of the switch.
Operate(o) == CASE o = "MD_LOCK"     -> "lock"
                [] o = "MD_TRY_LOCK" -> "try"
                [] o = "MD_UNLOCK"   -> "unlock"

Step(c, from, to) == /\ up
                     /\ th[c] = from
                     /\ th' = [th EXCEPT ![c] = to]
                     /\ UNCHANGED <<pc, cs, op, file, main>>

-----------------------------------------------------------------------------
(* What both servers promise, seen from the users. *)

\* Every user follows the lock, use, unlock discipline; and none dies.
AllCareful == ModifyMd = {} /\ Tool = {}
Disciplined == AllCareful /\ Mortal = {}

\* The thread of the user's call has done what the call asked for.
Done(c) == th[c] \in {"put", "reply"} \/ conn[c] = "replied"

\* The name is the user's: from the moment its lock or try_lock succeeds to
\* the moment its unlock does.  A user that dies keeps it.
Owns(c) ==
  \/ cs[c] = "held"
  \/ conn[c] # "closed" /\ op[c] = "MD_UNLOCK" /\ ~Done(c)
  \/ conn[c] # "closed" /\ op[c] # "MD_UNLOCK" /\ Done(c) /\ ok[c]

(* Two users never both believe they hold the same name: a user believes   *)
(* it from the response that says OK until it calls md_mutex_unlock        *)
(* (md_mutex_lock and md_mutex_try_lock returning 0).                      *)
MutualExclusion ==
  \A c, d \in Client :
    (c # d /\ cs[c] = "held" /\ cs[d] = "held") => file[c] # file[d]

(* The answer to an unlock of what a user holds is OK: the mutex of a      *)
(* holder cannot have been given away before its unlock looks for it.      *)
UnlockSucceeds ==
  \A c \in Client : (th[c] = "reply" /\ op[c] = "MD_UNLOCK") => ok[c]

-----------------------------------------------------------------------------
(* What the invariants of both servers say of each user. *)

\* Where the user, its connection and its thread are agrees.
Aligned(c) ==
  /\ \/ pc[c] = "idle" /\ conn[c] = "closed"
     \/ pc[c] = "connected" /\ conn[c] = "open"
     \/ pc[c] = "waiting" /\ conn[c] \in {"request", "taken", "replied"}
     \/ pc[c] = "dead" /\ conn[c] # "open"
  /\ th[c] = "none" <=> conn[c] # "taken"
  /\ cs[c] = "held" => conn[c] = "closed"

\* The thread does what the request asked for, and an unlock succeeds.
OnTask(c) ==
  /\ th[c] = "lock" => op[c] = "MD_LOCK"
  /\ th[c] = "try" => op[c] = "MD_TRY_LOCK"
  /\ th[c] = "unlock" => op[c] = "MD_UNLOCK"
  /\ th[c] = "put" => op[c] # "MD_LOCK" /\ (ok[c] <=> op[c] = "MD_UNLOCK")
  /\ Done(c) /\ op[c] = "MD_UNLOCK" => ok[c]

-----------------------------------------------------------------------------
(* Liveness: the properties, and the abstract service *)

Waiting(c) == pc[c] = "waiting"

(* md_mutex_try_lock and md_mutex_unlock come back: neither blocks behind  *)
(* a waiting lock or a dead user, whatever the others do, and a server     *)
(* that is gone is noticed.                                                *)
NeverBlocks ==
  \A c \in Client :
    (Waiting(c) /\ op[c] # "MD_LOCK") ~> pc[c] \in {"idle", "dead"}

Wanted(f) == \E c \in Client : Waiting(c) /\ op[c] = "MD_LOCK" /\ file[c] = f
Owned(f) == \E c \in Client : Owns(c) /\ file[c] = f

(* Disciplined users see the service MdMutex promises.                     *)

Phase(c) ==
  CASE pc[c] = "idle" -> IF cs[c] = "held" THEN "held" ELSE "out"
    [] pc[c] # "idle" /\ op[c] = "MD_UNLOCK" ->
         IF Done(c) THEN "released" ELSE "releasing"
    [] pc[c] # "idle" /\ op[c] # "MD_UNLOCK" ->
         IF ~Done(c) THEN "asking" ELSE IF ok[c] THEN "granted" ELSE "refused"

Service == INSTANCE MdMutex
             WITH Name <- File, phase <- [c \in Client |-> Phase(c)], on <- file

(* Every step of the server is one of the abstract service, or none: a     *)
(* grant only when nobody owns the name, an answer that tells what was     *)
(* done.                                                                   *)
KeepsPromises == Service!Init /\ [][Service!Next]_(Service!vars)

(* And every behaviour is: answers and releases come eventually.           *)
ImplementsService == Service!Spec
=============================================================================
