------------------------------ MODULE IoQueue ------------------------------
(***************************************************************************)
(* io_queue.c: the I/O requests on one file line up in a ring of IO_Q_LEN  *)
(* entries kept in the file's metadata record, and each write leaves an    *)
(* io_node behind, linked to the one before it.  A host that keeps a       *)
(* replica of the file follows the io_nodes from a pointer of its own.      *)
(*                                                                         *)
(* Every call of md_get, md_put, md_out, ion_get, ion_put and iod_put is   *)
(* one operation of the key-value store, hence one step; between md_get    *)
(* and md_put a client works on its own copy of the record, and nothing in *)
(* io_queue.c keeps another client from doing the same.  Two history        *)
(* variables remember what comes of that: which copies are outdated, and    *)
(* which of the three things have happened that spoil the ring.             *)
(*                                                                         *)
(* Times stand for what is keyed by them: arrival times, and the names     *)
(* "<file>_<time>" of io_nodes.  stat_info is left out.                    *)
(***************************************************************************)
EXTENDS Integers, FiniteSets, Sequences

CONSTANTS
  Client,    \* processes doing I/O on the file
  Nobody,
  Offered,   \* the kinds of request each of them makes
  Replica,   \* the hosts the record says have a replica
  Host,      \* the host a client updates the replica of, if it does
  IO_Q_LEN,
  MaxTime,   \* bound: the last second requests arrive in
  MaxFail    \* bound: store operations that fail

IO_Type == {"READ", "WRITE", "REMOVE"}

ASSUME QueueAssumption == /\ IsFiniteSet(Client)
                          /\ Nobody \notin Client
                          /\ Offered \in [Client -> SUBSET IO_Type]
                          /\ Nobody \notin Replica
                          /\ Host \in [Client -> Replica \cup {Nobody}]
                          /\ IO_Q_LEN \in Nat \ {0}
                          /\ MaxTime \in Nat
                          /\ MaxFail \in Nat

Place == 0 .. IO_Q_LEN - 1
Time == 1 .. MaxTime
Empty == 0     \* the empty string, and the zero of a zeroed entry
Garbage == -1  \* whatever malloc left in a field nothing is written to
Path == Time \cup {Empty, Garbage}

Entry == [io_type : IO_Type, arrive_time : Time \cup {Empty}]
Meta_Data == [head : Place, tail : Place, io_q_node : [Place -> Entry],
              io_node_q_head : Path, io_node_q_tail : Path,
              my_rep : [Replica -> Path]]
IO_Node == [ion_pre : Path, ion_next : Path]

\* READ is the first of IO_Type, so it is what a zeroed entry says.
NewMeta == [head |-> 0, tail |-> 0,
            io_q_node |-> [p \in Place |-> [io_type |-> "READ", arrive_time |-> Empty]],
            io_node_q_head |-> Empty, io_node_q_tail |-> Empty,
            my_rep |-> [r \in Replica |-> Empty]]
NewNode == [ion_pre |-> Empty, ion_next |-> Empty]

VARIABLES
  now,     \* the clock, in seconds
  fails,   \* store operations that have failed
  exists,  \* whether the store has the file's record
  md,      \* that record
  ion,     \* the io_nodes in the store, by name
  iod,     \* the names under which the store has data
  pc,      \* where a client is
  io_type, arrive_time,  \* its request
  meta_data,             \* its copy of the record
  io_node1,              \* its copy of an io_node
  io_node_ptr,           \* the name of the io_node it has come to
  last,    \* history: the last second a request of each kind arrived in
  stale,   \* history: who has a copy of the record as it no longer is
  harm     \* history: what has happened to the ring, of Harm

store == <<exists, md, ion, iod>>
request == <<io_type, arrive_time, last>>
copies == <<meta_data, io_node1, io_node_ptr>>
history == <<stale, harm>>
vars == <<now, fails, store, pc, request, copies, history>>

Label == {"idle", "enq_get", "enq_put", "wait", "served", "read_put",
          "ion_put", "tail_get", "tail_put", "md_put", "iod_put",
          "rep_ion", "rep_iod", "rep_put"}

\* Between md_get and md_put, and just before md_put.
Updating == {"rep_ion", "rep_iod", "rep_put"}
Holding == {"enq_put", "read_put", "ion_put", "tail_get", "tail_put", "md_put"}
             \cup Updating
Putting == {"enq_put", "read_put", "md_put", "rep_put"}

\* The put of an outdated copy undoes what has been put since; a request like
\* another of its second cannot be told from it; and a ring whose tail has come
\* round to the head looks empty.
Harm == {"undone", "alike", "full"}

StateOK == /\ now \in 0 .. MaxTime
           /\ fails \in 0 .. MaxFail
           /\ exists \in BOOLEAN
           /\ md \in Meta_Data
           /\ DOMAIN ion \subseteq Time
           /\ \A t \in DOMAIN ion : ion[t] \in IO_Node
           /\ iod \subseteq Time
           /\ pc \in [Client -> Label]
           /\ io_type \in [Client -> IO_Type]
           /\ arrive_time \in [Client -> Time \cup {Empty}]
           /\ meta_data \in [Client -> Meta_Data]
           /\ io_node1 \in [Client -> IO_Node]
           /\ io_node_ptr \in [Client -> Path]
           /\ last \in [IO_Type -> 0 .. MaxTime]

TypeOK == /\ StateOK
          /\ stale \subseteq {c \in Client : pc[c] \in Holding}
          /\ harm \subseteq Harm

\* A file nobody has done I/O on.  io_queue_test.c writes head and tail of its
\* record; the rest of a process's first block from malloc is zero.
Init == /\ now = 0
        /\ fails = 0
        /\ exists = TRUE
        /\ md = NewMeta
        /\ ion = [t \in {} |-> NewNode]
        /\ iod = {}
        /\ pc = [c \in Client |-> "idle"]
        /\ io_type = [c \in Client |-> "READ"]
        /\ arrive_time = [c \in Client |-> Empty]
        /\ meta_data = [c \in Client |-> NewMeta]
        /\ io_node1 = [c \in Client |-> NewNode]
        /\ io_node_ptr = [c \in Client |-> Empty]
        /\ last = [k \in IO_Type |-> 0]
        /\ stale = {}
        /\ harm = {}

-----------------------------------------------------------------------------
(* The store and the clock *)

Tick == /\ now < MaxTime
        /\ now' = now + 1
        /\ UNCHANGED <<fails, store, pc, request, copies, history>>

\* A client goes on, or learns of a failure and returns 1 to its caller.
Goto(c, from, to) == /\ pc[c] = from
                     /\ pc' = [pc EXCEPT ![c] = to]
                     /\ UNCHANGED <<now, request>>
GetMeta(c, m) == meta_data' = [meta_data EXCEPT ![c] = m]
Forget(c) == /\ GetMeta(c, NewMeta)
             /\ io_node1' = [io_node1 EXCEPT ![c] = NewNode]
             /\ io_node_ptr' = [io_node_ptr EXCEPT ![c] = Empty]
Works == UNCHANGED fails
Fails == fails < MaxFail /\ fails' = fails + 1

\* The store cannot be reached and the operation is not done; replica_update
\* does not notice when it is iod_get.
StoreDown(c) == /\ pc[c] \notin {"idle", "rep_iod"}
                /\ Goto(c, pc[c], "idle")
                /\ Fails
                /\ Forget(c)
                /\ UNCHANGED store

\* A put that is done goes on to the next step; but a put can be done and yet
\* be reported as failed.
Put(c, from, to) == \/ Goto(c, from, to) /\ Works
                    \/ Goto(c, from, "idle") /\ Fails

-----------------------------------------------------------------------------
(* queue_in_wait *)

\* The caller takes the time, then calls queue_in_wait.
Arrive(c) == /\ now > 0
             /\ pc[c] = "idle"
             /\ pc' = [pc EXCEPT ![c] = "enq_get"]
             /\ \E k \in Offered[c] :
                  /\ io_type' = [io_type EXCEPT ![c] = k]
                  /\ last' = [last EXCEPT ![k] = now]
             /\ arrive_time' = [arrive_time EXCEPT ![c] = now]
             /\ UNCHANGED <<now, fails, store, copies>>

\* What an operation that begins with md_get does when there is no record.
NoRecord(c, at) == /\ ~exists
                   /\ Goto(c, at, "idle")
                   /\ Works
                   /\ UNCHANGED <<store, copies>>

Entered(c) == [io_type |-> io_type[c], arrive_time |-> arrive_time[c]]

\* Mutants: the value of md_get is not looked at; the tail is not taken round
\* the ring.
EnqueueGetUnchecked(c) ==
  /\ Goto(c, "enq_get", "enq_put")
  /\ Works
  /\ GetMeta(c, [md EXCEPT !.io_q_node[md.tail] = Entered(c),
                           !.tail = (@ + 1) % IO_Q_LEN])
  /\ UNCHANGED <<store, io_node1, io_node_ptr>>
EnqueueGetTail(c) ==
  /\ exists
  /\ Goto(c, "enq_get", "enq_put")
  /\ Works
  /\ GetMeta(c, [md EXCEPT !.io_q_node[md.tail] = Entered(c), !.tail = @ + 1])
  /\ UNCHANGED <<store, io_node1, io_node_ptr>>

EnqueueGet(c) ==
  /\ exists
  /\ Goto(c, "enq_get", "enq_put")
  /\ Works
  /\ GetMeta(c, [md EXCEPT !.io_q_node[md.tail] = Entered(c),
                           !.tail = (@ + 1) % IO_Q_LEN])
  /\ UNCHANGED <<store, io_node1, io_node_ptr>>

\* md_put puts the record whether or not there still is one.
PutMeta(c) == /\ exists' = TRUE
              /\ md' = meta_data[c]
              /\ GetMeta(c, NewMeta)

EnqueuePut(c) == /\ Put(c, "enq_put", "wait")
                 /\ PutMeta(c)
                 /\ UNCHANGED <<ion, iod, io_node1, io_node_ptr>>

\* Mutant: only the time of the entry is compared.
WaitOverTime(c) ==
  /\ exists
  /\ md.io_q_node[md.head].arrive_time = arrive_time[c]
  /\ Goto(c, "wait", "served")
  /\ Works
  /\ UNCHANGED <<store, copies>>

\* The loop ends: the entry at the head of the ring looks like the client's.
WaitOver(c) ==
  /\ exists
  /\ md.io_q_node[md.head] = Entered(c)
  /\ Goto(c, "wait", "served")
  /\ Works
  /\ UNCHANGED <<store, copies>>

QueueInWait(c) == \/ Arrive(c) \/ EnqueueGet(c) \/ NoRecord(c, "enq_get")
                  \/ EnqueuePut(c) \/ WaitOver(c) \/ NoRecord(c, "wait")

-----------------------------------------------------------------------------
(* read_queuue_out and remove_queuue_out, called when the I/O is done *)

NextHead(m) == [m EXCEPT !.head = (@ + 1) % IO_Q_LEN]

\* The record is fetched and its head moved on, if there is a record.
HeadPassed(c, to) ==
  /\ IF exists THEN Goto(c, "served", to) /\ GetMeta(c, NextHead(md))
               ELSE Goto(c, "served", "idle") /\ UNCHANGED meta_data
  /\ Works
  /\ UNCHANGED <<store, io_node1, io_node_ptr>>

ReadGet(c) == io_type[c] = "READ" /\ HeadPassed(c, "read_put")

ReadPut(c) == /\ Put(c, "read_put", "idle")
              /\ PutMeta(c)
              /\ UNCHANGED <<ion, iod, io_node1, io_node_ptr>>

\* Removing what is not there is reported as a failure.
RemoveOut(c) == /\ io_type[c] = "REMOVE"
                /\ Put(c, "served", "idle")
                /\ exists' = FALSE
                /\ UNCHANGED <<md, ion, iod, copies>>

-----------------------------------------------------------------------------
(* write_queue_out *)

\* Mutant: the record is put without an io_node.
WriteGetUnput(c) == io_type[c] = "WRITE" /\ HeadPassed(c, "md_put")

WriteGet(c) == io_type[c] = "WRITE" /\ HeadPassed(c, "ion_put")

Stored(path, node) ==
  ion' = [t \in DOMAIN ion \cup {path} |-> IF t = path THEN node ELSE ion[t]]

\* Mutant: the tail never learns of the new io_node.
IonPutUnlinked(c) ==
  /\ Put(c, "ion_put", "md_put")
  /\ \E next \in DOMAIN ion \cup {Empty, Garbage} :
       Stored(arrive_time[c], [ion_pre |-> meta_data[c].io_node_q_tail,
                               ion_next |-> next])
  /\ UNCHANGED <<exists, md, iod, copies>>

\* Nothing is written to ion_next of the new io_node: the block may have been
\* an io_node before, and then a name is left in it.
IonPut(c) ==
  /\ Put(c, "ion_put", IF meta_data[c].io_node_q_tail # Empty THEN "tail_get"
                                                              ELSE "md_put")
  /\ \E next \in DOMAIN ion \cup {Empty, Garbage} :
       Stored(arrive_time[c], [ion_pre |-> meta_data[c].io_node_q_tail,
                               ion_next |-> next])
  /\ UNCHANGED <<exists, md, iod, copies>>

TailGet(c) ==
  LET tail == meta_data[c].io_node_q_tail
  IN  /\ IF tail \in DOMAIN ion
         THEN /\ Goto(c, "tail_get", "tail_put")
              /\ io_node1' = [io_node1 EXCEPT ![c] = ion[tail]]
              /\ UNCHANGED <<meta_data, io_node_ptr>>
         ELSE Goto(c, "tail_get", "idle") /\ Forget(c)
      /\ Works
      /\ UNCHANGED store

TailPut(c) ==
  /\ Put(c, "tail_put", "md_put")
  /\ Stored(meta_data[c].io_node_q_tail,
            [io_node1[c] EXCEPT !.ion_next = arrive_time[c]])
  /\ io_node1' = [io_node1 EXCEPT ![c] = NewNode]
  /\ UNCHANGED <<exists, md, iod, meta_data, io_node_ptr>>

\* Mutant: the data of a write to a list that is not empty is forgotten.
WriteMetaPutOnly(c) ==
  /\ Put(c, "md_put", IF meta_data[c].io_node_q_head = Empty THEN "iod_put"
                                                             ELSE "idle")
  /\ exists' = TRUE
  /\ md' = [meta_data[c] EXCEPT
              !.io_node_q_head = IF @ = Empty THEN arrive_time[c] ELSE @,
              !.io_node_q_tail = arrive_time[c],
              !.my_rep = IF meta_data[c].io_node_q_head = Empty
                         THEN [r \in Replica |-> arrive_time[c]] ELSE @]
  /\ GetMeta(c, NewMeta)
  /\ UNCHANGED <<ion, iod, io_node1, io_node_ptr>>

\* The io_node becomes the tail of the list.  If the list is empty it becomes
\* the head as well, and where every replica is to begin.
WriteMetaPut(c) ==
  /\ Put(c, "md_put", "iod_put")
  /\ exists' = TRUE
  /\ md' = [meta_data[c] EXCEPT
              !.io_node_q_head = IF @ = Empty THEN arrive_time[c] ELSE @,
              !.io_node_q_tail = arrive_time[c],
              !.my_rep = IF meta_data[c].io_node_q_head = Empty
                         THEN [r \in Replica |-> arrive_time[c]] ELSE @]
  /\ GetMeta(c, NewMeta)
  /\ UNCHANGED <<ion, iod, io_node1, io_node_ptr>>

IodPut(c) == /\ Put(c, "iod_put", "idle")
             /\ iod' = iod \cup {arrive_time[c]}
             /\ UNCHANGED <<exists, md, ion, copies>>

QueueOut(c) == \/ ReadGet(c) \/ ReadPut(c) \/ RemoveOut(c)
               \/ WriteGet(c) \/ IonPut(c) \/ TailGet(c) \/ TailPut(c)
               \/ WriteMetaPut(c) \/ IodPut(c)

-----------------------------------------------------------------------------
(* replica_update, called for a host that the record names.  A call that   *)
(* finds no record changes nothing.                                        *)

RepGet(c) ==
  LET ptr == md.my_rep[Host[c]]
  IN  /\ Host[c] # Nobody
      /\ exists
      /\ Goto(c, "idle", IF ptr # Empty THEN "rep_ion" ELSE "rep_put")
      /\ Works
      /\ GetMeta(c, md)
      /\ io_node_ptr' = [io_node_ptr EXCEPT ![c] = ptr]
      /\ UNCHANGED <<store, io_node1>>

RepIon(c) ==
  /\ IF io_node_ptr[c] \in DOMAIN ion
     THEN /\ Goto(c, "rep_ion", "rep_iod")
          /\ io_node1' = [io_node1 EXCEPT ![c] = ion[io_node_ptr[c]]]
          /\ UNCHANGED <<meta_data, io_node_ptr>>
     ELSE Goto(c, "rep_ion", "idle") /\ Forget(c)
  /\ Works
  /\ UNCHANGED store

\* Mutant: the pointers of all replicas are cleared.
RepIodAll(c) ==
  LET next == io_node1[c].ion_next
  IN  /\ Goto(c, "rep_iod", IF next # Empty THEN "rep_ion" ELSE "rep_put")
      /\ Works \/ Fails
      /\ io_node_ptr' = [io_node_ptr EXCEPT ![c] = next]
      /\ meta_data' = IF next # Empty THEN meta_data
                      ELSE [meta_data EXCEPT ![c].my_rep = NewMeta.my_rep]
      /\ UNCHANGED <<store, io_node1>>

\* The data is fetched, and the walk goes on whether or not there is any.  At
\* its end the pointer is cleared.
RepIod(c) ==
  LET next == io_node1[c].ion_next
  IN  /\ Goto(c, "rep_iod", IF next # Empty THEN "rep_ion" ELSE "rep_put")
      /\ Works \/ Fails
      /\ io_node_ptr' = [io_node_ptr EXCEPT ![c] = next]
      /\ meta_data' = IF next # Empty THEN meta_data
                      ELSE [meta_data EXCEPT ![c].my_rep[Host[c]] = Empty]
      /\ UNCHANGED <<store, io_node1>>

\* ion_get copies an io_node into the 8 bytes of malloc(sizeof(IO_Node*)), and
\* iod_get writes the size of the data through a pointer nobody has set: either
\* does no harm or kills the process.
RepCrash(c) == /\ Goto(c, "rep_iod", "idle")
               /\ Works
               /\ Forget(c)
               /\ UNCHANGED store

RepPut(c) == /\ Put(c, "rep_put", "idle")
             /\ exists' = TRUE
             /\ md' = meta_data[c]
             /\ Forget(c)
             /\ UNCHANGED <<ion, iod>>

ReplicaUpdate(c) == \/ RepGet(c) \/ RepIon(c) \/ RepIod(c) \/ RepCrash(c)
                    \/ RepPut(c)

-----------------------------------------------------------------------------
(* What is remembered of a step by client c, and the specification         *)

Touched == <<exists', md'>> # <<exists, md>>

Undoes(c) == c \in stale /\ Touched
ArrivesAlike(c) == /\ pc[c] = "idle" /\ pc'[c] = "enq_get"
                   /\ last[io_type'[c]] = now
Fills(c) == pc[c] = "enq_put" /\ Touched /\ md'.head = md'.tail

Remembered(c) ==
  /\ stale' = {d \in Client : /\ {pc[d], pc'[d]} \subseteq Holding
                              /\ d \in stale \/ Touched}
  /\ harm' = harm \cup {h \in Harm : \/ (h = "undone" /\ Undoes(c))
                                    \/ (h = "alike" /\ ArrivesAlike(c))
                                    \/ (h = "full" /\ Fills(c))}

ClientStep(c) ==
  /\ QueueInWait(c) \/ QueueOut(c) \/ ReplicaUpdate(c) \/ StoreDown(c)
  /\ Remembered(c)

Next == Tick \/ \E c \in Client : ClientStep(c)

Spec == Init /\ [][Next]_vars

\* The schedules in which nothing of Harm happens.
FreshSpec == Init /\ [][Next /\ harm' = {}]_vars

\* What callers get who hold the file's metadata mutex from md_get to md_put:
\* no two of them modify the record at a time.
Serial == \A c \in Client : pc[c] \in Holding =>
            exists /\ \A d \in Client \ {c} : pc[d] \notin Holding
SerialSpec == Init /\ [][Next /\ Serial']_vars

\* If moreover their requests can be told apart, and each gets on with its call
\* (queue_in_wait polls, the caller does its I/O and calls the operation that
\* ends it); nothing makes the caller of a new request come.
OrderlySpec == /\ Init
               /\ [][Next /\ Serial' /\ "alike" \notin harm']_vars
               /\ \A c \in Client : WF_vars(ClientStep(c) /\ pc[c] # "idle")

-----------------------------------------------------------------------------
(* Safety *)

(* Whatever the schedule and whatever fails, the store never names an      *)
(* io_node it does not have, and has no data without an io_node: a write   *)
(* puts its io_node before it links it, lists it and puts its data.        *)
NamesStored ==
  /\ {md.io_node_q_head, md.io_node_q_tail} \subseteq DOMAIN ion \cup {Empty}
  /\ \A r \in Replica : md.my_rep[r] \in DOMAIN ion \cup {Empty}
  /\ \A t \in DOMAIN ion :
       /\ ion[t].ion_pre \in DOMAIN ion \cup {Empty}
       /\ ion[t].ion_next \in DOMAIN ion \cup {Empty, Garbage}
  /\ iod \subseteq DOMAIN ion

\* The client's turn lasts from the return of queue_in_wait to the md_put or
\* md_out of the operation that ends it.
OnTurn(c) == pc[c] \in {"served"} \cup (Holding \ ({"enq_put"} \cup Updating))

(* "queueing when many reads and writes arrive at the same time" (the      *)
(* comment on IO_Q_Node): no two clients have their turn at the same time. *)
OneAtATime == \A c, d \in Client : OnTurn(c) /\ OnTurn(d) => c = d

(* Whatever the schedule and whatever fails, turns overlap only after a    *)
(* put of an outdated copy, requests that look alike, or a full ring.      *)
TurnsApart == harm = {} => OneAtATime

InRing(p) == IF md.head < md.tail THEN md.head <= p /\ p < md.tail
                                  ELSE md.head <= p \/ p < md.tail
HasPlace ==
  \A c \in Client : exists /\ (pc[c] = "wait" \/ OnTurn(c)) =>
    \E p \in Place : /\ InRing(p)
                     /\ \A q \in Place : md.io_q_node[q] = Entered(c) <=> q = p

(* The same three apart, a client that has joined is in the ring, between  *)
(* the head and the tail and in one place only, until it has had its turn: *)
(* what others do to the ring meanwhile, and those among them that stop    *)
(* halfway, never write over its entry or pass it by.                      *)
PlacesKept == harm = {} => HasPlace

\* The io_nodes met on the way from the head of the list to its tail.
From(k) ==
  LET on[i \in 0 .. MaxTime] ==
        IF i = 0 THEN md.io_node_q_head
        ELSE IF on[i - 1] \in DOMAIN ion /\ on[i - 1] # md.io_node_q_tail
             THEN ion[on[i - 1]].ion_next ELSE on[i - 1]
  IN  on[k]
Listed == {From(k) : k \in 0 .. MaxTime}

\* The list of io_nodes in the record leads from its head to its tail, and back
\* along ion_pre.
ListLinked ==
  md.io_node_q_head # Empty =>
    /\ md.io_node_q_tail \in Listed
    /\ Listed \subseteq DOMAIN ion
    /\ ion[md.io_node_q_head].ion_pre = Empty
    /\ \A t \in Listed \ {md.io_node_q_tail} : ion[ion[t].ion_next].ion_pre = t

(* The same three apart, the list stays whole whatever operation of a      *)
(* write fails: a write that stops halfway leaves the list as it was for   *)
(* those who follow it, and a write whose copy is outdated by a request or *)
(* an update in the meantime has the ends of the list right nevertheless.  *)
ListWhole == harm = {} => ListLinked

(* Whatever the schedule, as long as no store operation fails no write     *)
(* stays without its data: whoever finds its io_node finds the data, or    *)
(* the write is on its way to put it.                                      *)
DataFollows ==
  fails = 0 => \A t \in DOMAIN ion :
    \/ t \in iod
    \/ \E c \in Client : /\ arrive_time[c] = t
                        /\ pc[c] \in {"tail_get", "tail_put", "md_put", "iod_put"}

(* Whatever the schedule, a host's pointer is cleared by an update of its  *)
(* own replica, which has come to an io_node that nothing follows, or by   *)
(* the put of an outdated copy: no other host's update, and no enqueue,    *)
(* read or write, makes a host lose what it has not replayed.              *)
OwnPointer ==
  [][\A r \in Replica :
       md.my_rep[r] # Empty /\ md'.my_rep[r] = Empty =>
         \E c \in Client : /\ pc'[c] # pc[c]
                           /\ \/ c \in stale
                              \/ /\ Host[c] = r /\ pc[c] = "rep_put"
                                 /\ io_node1[c].ion_next = Empty]_vars

(* Whatever the schedule, only a client that read the record before it was *)
(* removed brings a removed file back, by the put of its copy: whoever     *)
(* comes after the removal is told that there is no file.                  *)
StaysRemoved ==
  [][~exists /\ exists' =>
       \E c \in stale : pc[c] \in Putting /\ pc'[c] # pc[c]]_vars

-----------------------------------------------------------------------------
(* The queue implements IoTurns. *)

Joined == {c \in Client : pc[c] = "wait" \/ OnTurn(c)}
OwnerOf(p) == CHOOSE c \in Joined : Entered(c) = md.io_q_node[p]
Turns ==
  INSTANCE IoTurns WITH
    queue <- IF exists
             THEN [i \in 1 .. Cardinality(Joined) |->
                     OwnerOf((md.head + i - 1) % IO_Q_LEN)]
             ELSE <<>>,
    turn <- IF exists /\ \E c \in Client : OnTurn(c)
            THEN CHOOSE c \in Client : OnTurn(c) ELSE Nobody,
    gone <- ~exists

(* Clients have their turns in the order in which they joined, and all of  *)
(* them have it, unless the file is removed.                               *)
ImplementsTurns == Turns!Spec

(* No call of io_queue.c lasts for ever: whoever calls queue_in_wait gets  *)
(* its turn or is told that the file is gone.                              *)
Returns == \A c \in Client : pc[c] # "idle" ~> pc[c] = "idle"
=============================================================================
