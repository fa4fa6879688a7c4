# TLA+ verification of cache-file-system

The repository is the start of a cluster file cache (B409, HUST, 2012-2013):
files live in a data centre and are cached on nodes; their metadata is kept in
a Tokyo Tyrant key-value store. The code is a set of small C programs, of which
the mutex service for metadata, the queueing of I/O on a file, and the super
node that keeps a replica up to date carry the concurrency. This directory models
those three and what runs of the namespace server, checks them with TLC, and
proves the main results about the three with TLAPS.

## 1. The system

| Part | Source | State it keeps | Operations | Talks to |
|---|---|---|---|---|
| Mutex client library | `md_distribute_mutex/md_mutex_client_func.c` | one connection per call | `md_mutex_init`, `md_mutex_lock`, `md_mutex_try_lock`, `md_mutex_unlock`, all through `md_mutex_func` | mutex server, one TCP connection, one request, one response |
| Mutex programs | `modify_md.c`, `lock_file.c`, `try_lock_file.c`, `unlock_file.c` | whether they believe they hold the file | lock, work, unlock; or one call each | library |
| Mutex server, table | `md_mutex_server_process.c` | `mutex_table[MUTEX_NUM]`, each slot a count, a name and a `pthread_mutex_t`; `glob_mutex` | accept loop; `thread_func` with `get_z_mutex`, `put_z_mutex` | clients |
| Mutex server, hash | `new_md_mutex_server.c`, `hash.c` | `mutex_hash[NHASH]`, chains of allocated `zz_mutex` | `get_zz_mutex`, `put_zz_mutex`, `alloc_`/`free_zz_mutex` | clients |
| I/O queue | `io_queue.c` | the ring `ioq` and the ends of the `io_node` list in a file's `Meta_Data` | `queue_in_wait`, `read_queuue_out`, `write_queue_out`, `remove_queuue_out`, `replica_update` | store client |
| Store client | `tt_func.c` | none | `md_*`, `ion_*`, `iod_*` : get, put, out | Tokyo Tyrant server |
| Namespace server | `namespace_server.c` | the tree of `ns_node`, current user, working and home directory, `user_info.txt` | `get_ns_node`, `mkfile`, `rmfile`, `cd`, `ls`, `adduser`, `init_ns` | shell commands |
| Super node | `sn_main.c` | nothing between messages; cached files | receive loop, one child process per message | clients over SCTP, `xml_msg.c` |
| Super node client | `sn_cli.c` | one association per call | `sctp_send_sock_recv_rpl` | super node |
| XML messages | `xml_msg.c` | none | message to XML and back, through pipes | libxml2 |
| Utilities | `utility.c` | none | number parsing, paths, `Signal` | |
| POSIX-like functions, tools, experiments | `posix_func.c`, `tokyotyrant/`, `test.d/` | | | |

What is hard in each, and what makes it correct:

* **Mutex servers.** A thread per request, threads waiting in
  `pthread_mutex_lock` for as long as another client likes, and a pointer into
  a shared table that each thread keeps while `glob_mutex` is free. Clients
  die, misuse the calls, leave connections empty. Correct: one owner per name;
  one mutex per name in use; a count that is the number of users, so that
  nothing is recycled or freed under a user; no answer lost; hand-over when the
  owner unlocks; try_lock and unlock never wait for an owner.
* **I/O queue.** Clients on different machines read, modify and write one record
  with no lock of their own, spin until their entry is at the head of a ring,
  and recognise the entry by its type and second. Correct: turns one at a time and in
  order; a list of writes that can be followed from head to tail even when an
  operation fails between two puts; everybody gets a turn; whoever comes after a
  removal finds no file. `replica_update` walks the list while writers extend it.
  Correct: it meets no name that is not stored, and the update of one replica does not
  take another's pointer away. None of this is safe from a client that puts a copy
  of the record which others have changed since it was read: what is to be known is
  what exactly such a put can spoil.
* **Namespace server.** One process and a tree of files. What runs is the start:
  correct would be that `/su` and `/shared` are there afterwards.
* **Super node.** A child for each message, next to a main process that goes on
  to the next one; `SIGCHLD` in the middle of a receive; receives and forks that
  fail; messages written through a standard output that may hold something
  already. Correct: each message acted on as sent and once, each reply to
  its own client, exited children collected, an answer unless something failed.
* **XML messages.** Parse loops with a flag for every field, a document that
  passes through a pipe. Correct: what is parsed is what was written; every
  field or an error.

`PROJECT.json` lists each hazard at its line with the properties that cover it.

## 2. Modules

    MdMutex            the lock service users are promised (abstract)
    MdMutexCall        users, md_mutex_func, connections, main() of the server
     |-- MdMutexCall_proofs       lemmas both servers' proofs rest on
     |-- MdMutexTable  + the table server        -- implements MdMutex
     |     |-- MCTable                instances for TLC
     |     `-- MdMutexTable_proofs    exclusion, counts, the refinement
     `-- MdMutexHash   + the hash server         -- implements MdMutex
           |-- MCHash
           `-- MdMutexHash_proofs     typing, the chains, walks: every schedule
                 `-- MdMutexHash_prompt    one mutex per name, exclusion, the
                                           refinement: prompt schedules
    Iteration          induction and functions by iteration, for proofs
    IoTurns            taking turns on a file (abstract)
    IoQueue            io_queue.c over the store -- implements IoTurns
     |-- MCQueue
     `-- IoQueue_proofs           typing, stored names, fresh copies, removals,
           |                      own pointers, data: every schedule
           `-- IoQueue_order      turns, places, room, the list, the refinement
                                  (extends Iteration too)
    XmlMsg             messages written as XML and read back (operators)
     `-- SuperNode     the super node, its children and its clients
           |-- MCSuper
           `-- SuperNode_proofs       typing, as sent, once, no false success
    Namespace          the start of the namespace server

### The mutex service

`MdMutexCall` is what both servers share. A user makes one call at a time, so
its connection and the thread that serves it carry its name. `Call`, `Send`,
`Return` are `md_mutex_func` up to `connect`, its `write`, and its `read` with
the return to the program; `MayLock`, `MayTryLock`, `MayUnlock` say what a
program calls next. There are three kinds of program: `Careful` ones unlock
exactly what they got (for them the library is made); `ModifyMd` is
`modify_md.c`, which unlocks whatever its lock returned; `Tool` is a person at
the one-shot commands, who may call anything at any time. `Accept`,
`ReadRequest`, `ReadEof` are `main()` of the server: it reads from one
connection before it accepts the next, and it does not look at what `read`
returned, so a connection closed empty is a lock of the empty name. `Die` kills a
user of `Mortal` anywhere; the server's thread goes on for it.

`MdMutexTable` has one action for each outcome of `get_z_mutex` (`GetMatch`,
`GetFree`, `GetNone`, `GetAbort`), which `glob_mutex` makes atomic, one for each
case of the switch in `thread_func` (`Lock`, `TryOk`, `TryFail`, `Unlock`), and
`Put` and `Reply`. `slot[c]` is the thread's `my_mutex`; after the thread of a
granted lock has ended the model keeps it, as the memory of where the lock is.
`p_mutex` has no owner, as a default pthread mutex has none: any thread unlocks
it.

`MdMutexHash` splits `get_zz_mutex` in two, because the head of the chain is
read on the line before `glob_mutex` is locked. Blocks are what `malloc` hands
out, freed ones again. The first use of a freed block is undefined behaviour:
the model follows the program to that point and stops the server there
(`Dangle`), so nothing is claimed of what comes after.

What the model leaves out: failures of `socket`, `malloc`, `pthread_create` and of
`read` with -1; requests with an operation that is none of the three; the
`show_` functions, which print.

### The I/O queue

Each call of `md_get`, `md_put`, `md_out`, `ion_get`, `ion_put`, `iod_put` is one
operation of the store, hence one action: `EnqueueGet`, `EnqueuePut`,
`WaitOver` for `queue_in_wait`; `ReadGet`, `ReadPut`; `WriteGet`, `IonPut`,
`TailGet`, `TailPut`, `WriteMetaPut`, `IodPut`; `RemoveOut`. `meta_data[c]` is
the client's copy of the record between a get and a put, and `io_node1[c]` its
copy of the last io_node. `HeadPassed` is how reads and writes leave the queue;
`NoRecord` is `md_get` of a file that is not there.
`StoreDown` is an operation that fails and is not done, and every put may also be done
and be reported as failed; either way the client returns 1 where it is. Nothing is
ever written to `ion_next` of a new io_node: it is empty, or the name of any io_node there
has been (the block may have been one before), or `Garbage` that names none.

`replica_update` is `RepGet`, then `RepIon` and `RepIod` for each io_node, then
`RepPut`; `io_node_ptr[c]` is the name it has come to. It copies an io_node into
the size of a pointer and has the size of the data stored through a pointer that
was never set: `RepCrash` is the process that dies of it, anywhere in the walk.
It is called for a host that has a replica, as its comment asks. Left out: `stat_info`,
offsets, the data, making a new record for a file that has been removed, and the name of another
file's io_node in an `ion_next`: a walk that strays there would go on along the other file's list.

`io_queue_test.c`, the one caller in the repository, allocates a record and writes `head` and
`tail` of it. The rest of a first block from `malloc` is zero in practice and undefined by the
language. `Init` takes it to be zero (`NewMeta`): with anything else in `io_node_q_tail` the
first write would look for an io_node nobody has put and leave the ring stuck.

`io_queue.c` takes no lock and nothing in it refers to the mutex service, so `Spec` has
every interleaving: two clients enter the same place of the ring, the head moved by one
is put back by another, a file that has been removed is put back. Two history variables
remember this. `stale` is who has a copy of the record that has since changed in the
store. `harm` collects the three things that spoil the ring: `"undone"`, a stale copy put
so that the record changes; `"alike"`, a request of a kind and second that has been used
before; `"full"`, a tail that comes round to the head. The properties of the ring and the list
are stated for every schedule and say that nothing else spoils them (`harm = {} => ...`): not
a failure after any operation, done or not done, not a removal, not a client that dies in an
update, not a stale copy whose put changes nothing.

There are three narrower specifications. `FreshSpec` has the schedules without harm.
`SerialSpec` has those in which modifications of the record do not overlap, which is what
holding the file's metadata mutex from get to put would give. `OrderlySpec` adds that
requests do not look alike, and fairness.

### The super node

`XmlMsg` has the functions of `xml_msg.c` that the two programs call, as operators.
What libxml2 does is external and as small as the properties allow: a document is a root
with children; saving it puts a text node around each child, which the parse
loops have to pass over; a name with an ampersand in it comes out empty; a text that does
not begin with the document has no root element. The last matters because
the document goes through standard output: lines printed before and not yet
written (`Unwritten`: whenever standard output is not a terminal) come first.

`SuperNode` has a process for each client (`CliSend`, `CliRecv`, `CliFail` are
`sctp_send_sock_recv_rpl` and the end of `main`), the main process of the super
node (`SnRecv`, `SnRecvFail`, `SnFork`), its signal handler, which stops the main
process and is begun by a pending `SIGCHLD` (`SigDeliver`, `SigReap`,
`SigReturn`), and the children, by pid (`ChildParse`, `ChildDo`, `ChildSend`). A
child has its own copy of the buffer, the address and the two messages, as after
`fork`. `Signal` of `utility.c` asks for `SA_RESTART`, so an interrupted receive is begun again.
Any call that can fail may fail, `MaxFail` times in all. `ChildDo` says
`RPL_OK` and does nothing, as `do_sock_msg` does; the `do_XXX` functions are not called.

### The namespace server

`Namespace` is what `namespace_server.c` runs: `main`, `init_ns` (`WriteSu`,
`MakeSu`, `MakeShared`, `MarkShared`), `mkfile` with its test of the type, and
`get_ns_node` as the walk over the characters of the path (`At`, `LooksUp`). If a
name were looked up, `get_ns_node` might return anything; none is.
`Start` is the next start of the server.

## 3. What TLC checks

All runs are exhaustive. `table_crash`, `table_negative` and `hash_race`, which check safety
only, use symmetry; the others use none.

| Run | Instance | What it shows |
|---|---|---|
| `table_service` | 1 careful user, 1 `modify_md`, 3 files, 2 slots | `Consistent`, in which table and users agree, and what follows from it (`RefCount`, `PointerValid`, `UnlockSucceeds`, `NoRecycling`); with a slot for each user none is refused (`EnoughSlots`), so even `modify_md` is harmless: the server implements `MdMutex`, fairness included, and hands files over (`HandOver`) |
| `table_crash` | 3 users that may die anywhere, 2 files and the empty name, 2 slots | with three users and refused locks, mutual exclusion survives; slots leak, but a count is never too low (`NoEarlyFree`) |
| `table_misuse` | `modify_md` and a person at the commands, 2 files, 2 slots | counts do go negative and end the server; still a name never has two slots (`UniqueTaken`), and try_lock and unlock come back (`NeverBlocks`) |
| `table_negative` | 3 `modify_md`, 1 slot | *violation*: `modify_md` alone, by its unlock after a refused lock, brings a count to -1 |
| `hash_race` | a careful user, a person at the commands, 2 colliding files, 3 blocks, every schedule | the race on the head spoils what is in a chain, never the chain: `ChainsLinked`, `LiveCounted`, and a walk that has begun anywhere ends (`WalksEnd`); a name gets a second mutex only from a thread whose head another has moved meanwhile (`SecondNodeByRace`) |
| `hash_prompt` | 2 users, 3 files, 2 chains of which one has colliding names | without the race: one mutex per name, no use after free, `MdMutex` implemented, hand-over |
| `hash_duplicate` | 2 users, 1 file | *violation*: two mutexes for one name |
| `q_turns` | 2 clients reading and writing, 1 removing; a ring of 3, 2 seconds | under `OrderlySpec`, `IoTurns` is implemented and every call returns; the ring wraps |
| `q_any` | 2 clients writing, one of which removes and updates one of 2 replicas, 2 seconds, a ring of 3, two failures, every schedule | stale copies, look-alikes and a full ring spoil turns, places and the list, and nothing else does (`TurnsApart`, `PlacesKept`, `ListWhole`); no name without its io_node (`NamesStored`), no io_node without data on its way (`DataFollows`); only a stale copy brings a file back (`StaysRemoved`) or takes the pointer of another's replica (`OwnPointer`) |
| `q_second` | 2 clients, modifications that do not overlap | *violation*: two requests of a kind in one second have their turns together |
| `sn` | 3 clients, one with an ampersand in its file name, one not on a terminal; one failure | messages acted on once and as sent, but for the name with the ampersand, which `xmlNewChild` loses before it is sent; no false success, exited children collected; without a failure, clients on terminals are answered |
| `ns_shared` | 2 starts | *violation*: the start never makes `/shared` |

**Bounds.** In the table, two slots are the least with an order in which the table is
searched, three files the least for which two slots are taken again under
another name, and with three users (`table_crash`) one is refused while two hold. In the
chains, three blocks give a node with a neighbour on both sides; one chain makes all names
collide. In the ring (`q_turns`), a length of 3 with up to six requests wraps twice.
In `q_any` two failures leave two entries behind, so the ring of 3 fills up and overflows;
two clients and one request of each per second (`BoundedSpec`) are enough for every pair of a get
and a put to be overtaken by another's. The invariants are not vacuous there: TLC also finds
turns that overlap after `"undone"` alone and after `"alike"` alone, a place lost after each of the
three alone, and a broken list after `"alike"` alone. Without harm two seconds give lists of two
writes; for longer lists there is `ListAlwaysLinked`. Reads are in `q_turns`: the way out of a read is
a shorter one than a write's. Two replicas, of which one
is updated, show that an update leaves the other alone. For the super node, three
clients are three children, two of which can exit while the handler runs for
the third; one failure loses any one message, fork or reply. `MaxTime`, `MaxFail` and
`MaxStart` are the only bounds inside a guard; when time is used up no new request
can be made and the clients stop, which is why the queue runs do not check deadlock.
Neither do `table_crash`, `table_misuse` and `hash_race`, where dead users and a server
that is gone stop rightly, nor `sn` and `ns_shared`, where the clients and the start are over.
In all others a deadlock would be an error.

**Fairness** (`FairSpec`, `PromptFairSpec`). Threads and `main()` are scheduled by the
kernel: weak fairness of each. A user inside the library goes on when it can; a
user that is stopped for ever between `connect` and `write` would hold up
`main()`, and is excluded by this. The listen queue is first in, first out, so
`Accept` is strongly fair for each user. Nothing is assumed of `pthread_mutex_lock`
but that a mutex that stays free is taken: hence `MdMutex` promises no user a
grant, and `HandOver` only that somebody gets the file. `HandOver` needs a slot for
each user or each file: with fewer, two users can be refused in turns for
ever. For the queue, a client whose call has begun goes on, does its I/O and
calls the operation that ends it, and the turn to modify the record comes to each that
keeps asking (`OrderlySpec`: weak fairness of the steps of a client that has begun, in
schedules that are serial); nobody has to make a request. In
`SuperNode` the main process, the handler, each child and a client with a reply
go on (weak fairness of each, as the kernel schedules processes); no client has
to be started, and nothing has to fail. A client whose reply never comes waits
for ever, as `sn_cli.c` has no timeout: `Answered` is about runs without failures.

**What the runs do not show.** `hash_prompt` and `q_turns` are about
schedules that the code does not enforce. They say that the rest of the design is
right; `hash_race` and `q_any` are about every schedule and say what remains true in it, and
`hash_duplicate` and `q_second` are what happens. That all joined clients get their turn
(`ImplementsTurns`, `Returns`) is checked without failures only: a client that leaves
`queue_in_wait` because an operation failed leaves an entry that nobody takes out.

## 4. What is proved

With TLAPS, for any number of users, files, slots, blocks, chains, clients, hosts and
ring entries. The conditions are in the first column: *every schedule* is none; *careful*
users (`AllCareful`) unlock what they hold and nothing else, and any of them may be killed at any point;
*disciplined* users (`Disciplined`) are careful and live.

| Under | Theorem | What it says |
|---|---|---|
| every schedule, every user | `TypeCorrect`, `TakenOnce` (`MdMutexTable_proofs`) | typing; a name never has two taken slots |
| careful | `Exclusion`, `UnlockAnsweredOK`, `NeverFreedEarly`, `NotRecycled` | one owner per name and an OK for its unlock, whoever else is killed; a slot's count is never too low, and it is renamed only when nobody has a pointer to it |
| disciplined | `TableConsistent`, `Counted`, `PointersValid` | counts are exact, pointers valid, table and users agree |
| disciplined | `NeverFull` | with as many slots as users no lock is refused |
| disciplined | `TableKeepsPromises` | the table server implements the safety part of `MdMutex` |
| every schedule, every user | `HashTypeCorrect`, `ChainsAlwaysLinked`, `FreedAtZero`, `EveryWalkEnds` (`MdMutexHash_proofs`) | up to the first use of a freed block: no count below zero, chains doubly linked lists of allocated blocks, each freed when its count gets to zero; a walk comes to its end |
| every schedule, every user | `SecondNodeOnlyByRace` (`MdMutexHash_prompt`) | a mutex for a name that has one is allocated only by a thread that read the head before another moved it |
| prompt, careful | `NothingDangles`, `PromptExclusion`, `PromptUnlockOK` | no use of a freed block, one owner per name, an OK for its unlock |
| prompt, disciplined | `PromptCounted`, `HashKeepsPromises` | counts are exact; the hash server implements the safety part of `MdMutex` |
| every schedule | `QueueTypeCorrect`, `NamesAreStored` (`IoQueue_proofs`) | whatever fails, every io_node that the store or a client's copy names is in the store |
| every schedule | `RemovedForGood`, `OwnPointerKept` | only the put of a copy read before the removal brings a file back; a replica's pointer is cleared by its own update, at an io_node that nothing follows, or by the put of a stale copy |
| every schedule | `ListedHasData` | while nothing has failed, every io_node has its data or its writer is on the way to put it |
| every schedule | `TurnsOneByOne`, `PlaceKept`, `ListAlwaysLinked` (`IoQueue_order`) | until one of the three harms has happened: no two clients have their turn at a time, each keeps its one place in the ring until then, the list is linked from head to tail and back, whatever fails |
| `RingSuffices` | `RoomEnough` | in a ring with more entries than clients and failures, filling up is never the first harm |
| `FreshSpec`, `MaxFail = 0` | `QueueTakesTurns` | the queue implements the safety part of `IoTurns`: turns in the order of joining |
| every schedule | `SuperTypeCorrect`, `ActedOnAsSent`, `ActedOnOnce`, `OkIsTrue` (`SuperNode_proofs`) | typing; what is acted on is what was sent, once, and a client that ends with success has had its message acted on |

### The arguments

*The table server.* None of `MutualExclusion`, `UnlockSucceeds` and `NoEarlyFree` is inductive.
That an owner is alone needs its `p_mutex` to be locked and to be its own
(`OwnersLocked`); that its unlock finds the slot it locked needs the slot to be taken
still (`NoEarlyFree`) and to be the only one of its name (`UniqueTaken`); that counts
are never too low needs each thread to put back what it took and nothing else, and so
to know where thread, connection and user stand (`Aligned`, `OnTask`, `HasSlot`). `Surviving` is
the conjunction, and `Survives` says that careful users keep it although others are
killed: a thread goes on for its dead user and then nobody unlocks, which leaves
a count too high and never too low. Without deaths counts do not get too high
either: `Exact` adds to `Surviving` what then holds (counts equal to users, a locked mutex
of a taken slot has an owner), and `TableConsistent` follows. Since a step is one
user's, the proofs have a lemma for the users that do not move, lemmas
for taking and giving back a slot (`TakeSlot`, `GiveSlot`), and then a lemma for
each action. `MdMutexCall_proofs` holds what the two servers share: typing and steps of users, connections and
threads, and the steps of `MdMutex` they map to.

*The refinement.* `KeepsPromises` is the safety part of `MdMutex` under the mapping that
`ImplementsService` is checked with: initial states map to initial states, and
each action to one of the service or to a stutter. The grants are where something is
to be shown: a thread that gets `p_mutex` finds it unlocked, so by `Exact` and
`UniqueTaken` nobody owns the name; a `try_lock` that fails has found it locked by
an owner. Liveness stays with TLC.

*The hash server, every schedule.* Typing, `LiveCounted` and `ChainsLinked` need one another: a
count stays a natural number because a block with count 1 is freed, freeing follows
pointers that only linked chains make valid, and the pointer the thread starts from
is one because a thread past `get_zz_mutex` has a mutex (`ThreadsHave`). `ChainInv` is
their conjunction. `UnlinkChain` does the work: taking a block off looks at its two
neighbours and the head of its own chain, and `ChainsLinked` says that no other block
points to it. That walks end is `Acyclic`: the blocks can be numbered so that numbers rise along the
chains. A new block, which comes first, is numbered below all others, and taking off a
block leaves a gap. A walk that had not ended after as many steps as there are blocks
would have been somewhere twice.

*The race on the head.* A walk that starts at the head as it is now meets every
allocated block of its chain: the first block it missed would be the head or come after
one it has met (`WalkMisses`, from `ChainInv` and `Acyclic`, whatever others do). So
`GetNew` of a name that has a block is the work of a thread that has seen another head:
`SecondNodeOnlyByRace`.

*The hash server, prompt schedules.* There every walk starts at the head as it is now
(`HeadSeen`), so a name has one mutex (`UniqueNode`) for users of every kind. From there the argument is the table's, with
blocks for slots and `NoEarlyFree` saying in addition that a block with users is allocated,
which is `NothingDangles`.

*The I/O queue, every schedule.* `NamesStored` alone is not inductive: a client writes back a
record it read earlier. `NamesSound` adds that the names in clients' copies of records and
io_nodes are stored, which holds because nothing in `io_queue.c` ever takes an io_node out
of the store. `Fresh` says what a copy is that is not stale: the record as it is now, but for the
entry its holder adds, the head it moves on, or the pointer it has cleared (`CopyOf`). It is kept
because only five actions touch the record (`RecordTouched`), and a touch makes every other
copy stale. `RemovedForGood` follows at once, since a fresh copy is of a record that exists, and
`OwnPointerKept`, since only an update's own copy differs in a pointer. `ListedHasData` follows a
write from its io_node to its data: `NodeIsNew` and `WriteGoesOn`.

*The ring.* `InOrder` is what holds until there is harm. The
entries from head to tail are `Occupied`. Requests in progress can be told apart from
each other and from every entry of the past (`Apart`, `Past`: this is where `"alike"` matters).
A client that has joined has exactly one entry, an occupied one; a client on its turn has
the head's (`Queued`). What a client puts is fresh, or changes nothing: for an enqueue and for the
end of a turn the second cannot be, since what it puts differs from the record
(`FreshEnqueue`, `FreshDequeue`: this is where `"undone"` matters). So it has the ring of the
record but for the entry it adds or passes by, and overwrites nobody because the ring is not full
(`"full"`). Two clients with their turn would both have
the head's entry, and so be one. `TailGet` returning early would leave an entry without a
failure; it does not happen, since `NamesSound` says that the tail is stored.

*Room.* `RoomEnough` says that the third harm needs one of the others, or too many clients and
failures: an occupied entry belongs to a client that has joined, and to
one only, or was left behind at the cost of a failure (`Abandoned`), so fewer than all entries but
one are occupied when another client is about to join (`NotFull`).

*The turns.* `KeepsTurns` is the safety part of `IoTurns` under the mapping that
`ImplementsTurns` is checked with. When nothing fails nothing is abandoned, so the clients
that have joined and the occupied entries are in a one-to-one correspondence, and the
queue of `IoTurns` is the owners of the entries from head to tail (`Lined`, which
follows from `InOrder`). Then `EnqueuePut` appends, `WaitOver` finds its own entry
foremost, `ReadPut` and `WriteMetaPut` take off the first, `RemoveOut` empties the queue, and everything else
leaves it alone. With a failure the queue would keep an entry whose client has gone, and
nobody after it would have a turn: `IoTurns` does not promise that.

*The list.* `ListLinked` is about a way along pointers, which no step can be compared with
directly. `ListKept` therefore says that there is a sequence of `n` distinct names of which
the record has the first and the last and neighbours have each other's (`Chain`). The name of
a write is in the store only once its io_node is (`Named`, from `Written`: until there is
harm no write had its second before). A write puts its io_node, then links the tail to it, and only
then lists it, so the tail may point to a name that is not listed: one that the client on its turn
is about to list, or that of a write which failed in between. A write's copy may well be stale,
by an enqueue or an update in the meantime; what it has of the ends of the list is right all the
same, because only the client on its turn moves them (`Doing`).
What the way along the pointers meets after `k` steps is the name number
`k`, or the last (`FromIs`, by induction), and `n` is at most `MaxTime` because the names
differ.

*The super node.* `DoneOnce` follows from `OnePlace`: a message is with its client, or
among those that have arrived, or in the buffer of the main process, or with one child, and
never in two of these. It needs that the buffer is empty whenever the main process
receives, and that a child that acts has had something to read (`Progress`), because an
empty text is no message (`NothingRead`). A reply in turn comes only from a child
that has acted (`Informed`). `DoneAsSent` needs that a text stays with the client that
sent it on its way to a child (`AsSent`), that what a child acts on is what it has
read of that text (`HasRead`), and a lemma about `XmlMsg`, `ReadBack`: each field is
found at its own place in the document (`Written`, `Found`) and has what was put there.
The readers are stated without recursion for this: a field has the content of the first
child of its name, which is what the loops that pass over the children compute.

*Assumptions.* The named `ASSUME`s of the modules (finite, disjoint sets of
users, a positive `MUTEX_NUM`, no ampersand in the type of a message or an
address), and the conditions in the table. `table_negative` shows that without careful users
counts go wrong, `hash_duplicate` that without promptness names get two
mutexes, and `q_second` that turns overlap after `"alike"` alone. That deaths make counts too
high is the leak that `table_crash` has in most of its states. The invariants that are not the property of a run
(`Surviving` of both servers, `InOrder`, `ListKept`) were checked with TLC on the instances of
`table_crash`, `hash_prompt` with users that die, and `q_any`, before they were proved.

*Only model-checked.* All liveness (`HandOver`, `NeverBlocks`, `Returns`, `Reaped`, `Answered`, what `MdMutex` and
`IoTurns` promise to happen), which is out of the prover's reach together with `ENABLED`. The provers do not apply the library's
induction theorems, whose parameter is an operator. Where a proof is by induction (a walk as long as the
chain), `Iteration` gives it in terms of sets, from the theorem that
a well-founded relation has minimal elements.

## 5. Findings

* `table_negative`: `modify_md` unlocks after a refused lock, and a count gets
  to -1, which ends the server at the next lookup.
* `hash_duplicate`: `get_zz_mutex` reads the head before it locks
  `glob_mutex`; two mutexes for one name. The same line lets a thread walk from a
  block that is free, which is why `Dangle` is in the model.
* `q_second`: requests of a kind that arrive in one second share a turn, even where
  modifications of the record do not overlap.
* `ns_shared`: `mkfile` takes directories for an illegal type, and `init_ns` uses the
  null pointer it gets for `/shared`. Were the test put right, `get_ns_node`, which
  forgets the start of a name after every character, would still look up
  nothing.

Worth knowing though no line of the repository says otherwise: a client or a super node whose
standard output is not a terminal sends its printed line ahead of the document,
and the other side cannot read it; `io_queue.c` locks nothing, so two clients can enter
the same place of the ring, or undo a removal, by putting copies of the record; a file name with an ampersand arrives empty;
a replica is pointed at new writes once, before its first update, since the list
is never empty again; the messages of one file are acted on in any order until the task queue that
`sn_main.c` speaks of is written.

## 6. Not modelled

* *Namespace server, handlers*: `ls`, `cd`, `rmfile`, `adduser` and the lookup in
  `get_ns_node` with `binary_seach_file`. None has a caller (the login module is
  "to be continue"), and no state the program can be in has a file for them: the
  tree stays empty, and the program ends before it could serve anybody.
* *Super node*: the `do_XXX` functions, which nothing calls and two of which are empty.
* *XML messages*: the readers from standard input and from a file, used by
  `make_xml.c` and `parse_xml.c`, which stand alone.
* *Utilities*: string formatting; `atoi_u32`, `atoi_u64`, called by `adduser`
  only; `init_md`, compiled out.
* `posix_func.c` needs headers that are not in the repository and is in no
  build; `errmsg.c` is a message buffer; `tokyotyrant/` are tools that make one
  call and an older copy of `tt_func.c`; `test.d/` are experiments; the Makefiles
  and `code_lines_counter.sh` build and count.
* *The store*: Tokyo Tyrant is one atomic operation per call. Its replication and
  its files are not in this repository.

Proofs that would add to this: the turns with failures, for an `IoTurns` whose clients may
leave their place behind; and the ring when it is exactly full, which looks empty and is counted
as harm although it is the next entry that overwrites.
