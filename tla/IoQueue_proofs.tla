--------------------------- MODULE IoQueue_proofs ---------------------------
(***************************************************************************)
(* Proofs about the I/O queue, in every schedule and whatever operation of *)
(* the store fails: typing; the store never names an io_node it does not   *)
(* have; who brings a removed record back, and who clears a pointer; every *)
(* write is followed by its data.                                          *)
(***************************************************************************)
EXTENDS IoQueue, TLAPS

-----------------------------------------------------------------------------
(* Records and copies of them *)

LEMMA Wrap == ASSUME NEW p \in Place PROVE (p + 1) % IO_Q_LEN \in Place
  BY QueueAssumption DEF Place

LEMMA NewMetaType == NewMeta \in Meta_Data
  BY QueueAssumption DEF NewMeta, Meta_Data, Entry, IO_Type, Place, Path

LEMMA NewNodeType == NewNode \in IO_Node
  BY DEF NewNode, IO_Node, Path

\* What queue_in_wait makes of the record it has got.
LEMMA EnterType ==
  ASSUME NEW m \in Meta_Data, NEW e \in Entry
  PROVE  [m EXCEPT !.io_q_node[m.tail] = e, !.tail = (@ + 1) % IO_Q_LEN]
           \in Meta_Data
<1>1. m.tail \in Place /\ m.io_q_node \in [Place -> Entry]
  BY DEF Meta_Data
<1>2. (m.tail + 1) % IO_Q_LEN \in Place
  BY <1>1, Wrap
<1>3. [m.io_q_node EXCEPT ![m.tail] = e] \in [Place -> Entry]
  BY <1>1
<1> QED BY <1>2, <1>3 DEF Meta_Data

LEMMA NextHeadType ==
  ASSUME NEW m \in Meta_Data
  PROVE  NextHead(m) \in Meta_Data
<1>1. (m.head + 1) % IO_Q_LEN \in Place
  BY Wrap DEF Meta_Data
<1> QED BY <1>1 DEF NextHead, Meta_Data

-----------------------------------------------------------------------------
(* The invariant *)

Known == DOMAIN ion \cup {Empty}
Names(m) == {m.io_node_q_head, m.io_node_q_tail} \cup {m.my_rep[r] : r \in Replica}
Linked(node) == node.ion_pre \in Known /\ node.ion_next \in Known \cup {Garbage}

\* What a client's copies and its place in the code say of the store: the names
\* it has copied are stored, and from ion_put on so is its own io_node.
Follows(c) ==
  /\ pc[c] \notin {"idle"} \cup Updating => arrive_time[c] \in Time
  /\ Names(meta_data[c]) \subseteq Known
  /\ Linked(io_node1[c])
  /\ io_node_ptr[c] \in Known \cup {Garbage}
  /\ pc[c] \in {"tail_get", "tail_put"} => meta_data[c].io_node_q_tail # Empty
  /\ pc[c] \in {"tail_get", "tail_put", "md_put", "iod_put"} =>
       arrive_time[c] \in DOMAIN ion

NamesSound == StateOK /\ NamesStored /\ \A c \in Client : Follows(c)

LEMMA NamesInit == Init => NamesSound
<1> SUFFICES ASSUME Init PROVE NamesSound
  OBVIOUS
<1>1. DOMAIN ion = {} /\ iod = {}
  BY DEF Init
<1>2. StateOK
  BY <1>1, NewMetaType, NewNodeType, QueueAssumption
     DEF Init, StateOK, Label, IO_Type, Path
<1>3. NamesStored
  BY <1>1 DEF Init, NamesStored, NewMeta
<1>4. \A c \in Client : Follows(c)
  BY <1>1 DEF Init, Follows, Linked, Known, Names, NewMeta, NewNode
<1> QED BY <1>2, <1>3, <1>4 DEF NamesSound

-----------------------------------------------------------------------------
(* What the steps have in common *)

\* The client goes to label l; requests are left alone.
Moves(c, l) == /\ l \in Label
               /\ pc' = [pc EXCEPT ![c] = l]
               /\ fails' \in 0 .. MaxFail
               /\ UNCHANGED <<now, request>>

LEMMA GotoMoves ==
  ASSUME StateOK, NEW c \in Client, NEW from, NEW to \in Label,
         Goto(c, from, to), Works \/ Fails
  PROVE  pc[c] = from /\ Moves(c, to)
  BY QueueAssumption DEF StateOK, Goto, Moves, Works, Fails

LEMMA PutMoves ==
  ASSUME StateOK, NEW c \in Client, NEW from, NEW to \in Label, Put(c, from, to)
  PROVE  pc[c] = from /\ (Moves(c, to) \/ Moves(c, "idle"))
  BY GotoMoves DEF Put, Label

\* The store only ever gets more io_nodes, so what a client knew stays true.
LEMMA Others ==
  ASSUME NEW d \in Client, Follows(d), DOMAIN ion \subseteq DOMAIN ion',
         pc'[d] = pc[d], arrive_time'[d] = arrive_time[d],
         meta_data'[d] = meta_data[d], io_node1'[d] = io_node1[d],
         io_node_ptr'[d] = io_node_ptr[d]
  PROVE  Follows(d)'
  BY DEF Follows, Linked, Known

\* A step of one client that leaves the store alone.
LEMMA StoreKept ==
  ASSUME NamesSound, NEW c \in Client, NEW l, Moves(c, l), UNCHANGED store,
         NEW m \in Meta_Data, NEW n \in IO_Node,
         meta_data' = [meta_data EXCEPT ![c] = m],
         io_node1' = [io_node1 EXCEPT ![c] = n],
         NEW p \in Path, io_node_ptr' = [io_node_ptr EXCEPT ![c] = p],
         Follows(c)'
  PROVE  NamesSound'
<1>1. StateOK'
  BY DEF NamesSound, StateOK, Moves, store, request
<1>2. NamesStored'
  BY DEF NamesSound, NamesStored, store
<1>3. ASSUME NEW d \in Client, d # c PROVE Follows(d)'
  BY <1>3, Others DEF NamesSound, StateOK, Moves, store, request
<1> QED BY <1>1, <1>2, <1>3 DEF NamesSound

\* A client's copies are sound, and are what they were when a step leaves them.
LEMMA OwnCopies ==
  ASSUME NamesSound, NEW c \in Client
  PROVE  /\ io_node1[c] \in IO_Node /\ Linked(io_node1[c])
         /\ io_node_ptr[c] \in Path /\ io_node_ptr[c] \in Known \cup {Garbage}
         /\ UNCHANGED io_node1 => io_node1' = [io_node1 EXCEPT ![c] = io_node1[c]]
         /\ UNCHANGED io_node_ptr =>
              io_node_ptr' = [io_node_ptr EXCEPT ![c] = io_node_ptr[c]]
  BY DEF NamesSound, StateOK, Follows

\* A client that only goes elsewhere.
LEMMA Walks ==
  ASSUME NamesSound, NEW c \in Client, NEW l, Moves(c, l),
         UNCHANGED <<store, copies>>, l \in {"idle", "wait", "served"},
         l # "idle" => pc[c] \notin {"idle"} \cup Updating
  PROVE  NamesSound'
<1>1. /\ meta_data[c] \in Meta_Data
      /\ io_node1[c] \in IO_Node
      /\ meta_data' = [meta_data EXCEPT ![c] = meta_data[c]]
      /\ io_node1' = [io_node1 EXCEPT ![c] = io_node1[c]]
      /\ io_node_ptr[c] \in Path
      /\ io_node_ptr' = [io_node_ptr EXCEPT ![c] = io_node_ptr[c]]
  BY DEF NamesSound, StateOK, copies
<1>2. Follows(c)'
  BY DEF NamesSound, StateOK, Follows, Linked, Known, Moves, store, request, copies
<1> QED BY <1>1, <1>2, StoreKept

\* A client that returns, whatever it had copied.
LEMMA Returned ==
  ASSUME NamesSound, NEW c \in Client, Moves(c, "idle"), Forget(c),
         UNCHANGED store
  PROVE  NamesSound'
<1>1. /\ meta_data' = [meta_data EXCEPT ![c] = NewMeta]
      /\ io_node1' = [io_node1 EXCEPT ![c] = NewNode]
      /\ io_node_ptr' = [io_node_ptr EXCEPT ![c] = Empty]
      /\ Empty \in Path
  BY DEF Forget, GetMeta, Path
<1>2. /\ pc'[c] = "idle"
      /\ meta_data'[c] = NewMeta /\ io_node1'[c] = NewNode /\ io_node_ptr'[c] = Empty
  BY <1>1 DEF NamesSound, StateOK, Moves
<1>3. Follows(c)'
  BY <1>2 DEF Follows, Linked, Known, Names, NewMeta, NewNode
<1> QED BY <1>1, <1>3, NewMetaType, NewNodeType, StoreKept

-----------------------------------------------------------------------------
(* The steps that leave the store alone *)

LEMMA TickSound == ASSUME NamesSound, Tick PROVE NamesSound'
<1>1. StateOK'
  <2>1. MaxTime \in Nat /\ now' \in 0 .. MaxTime
    BY QueueAssumption DEF NamesSound, StateOK, Tick
  <2> QED BY <2>1 DEF NamesSound, StateOK, Tick, store, request, copies
<1>2. NamesStored'
  BY DEF NamesSound, NamesStored, Tick, store
<1>3. ASSUME NEW d \in Client PROVE Follows(d)'
  BY <1>3, Others DEF NamesSound, Tick, store, request, copies
<1> QED BY <1>1, <1>2, <1>3 DEF NamesSound

LEMMA ArriveSound ==
  ASSUME NamesSound, NEW c \in Client, Arrive(c) PROVE NamesSound'
<1>1. now \in Time /\ Offered[c] \subseteq IO_Type
  <2>1. MaxTime \in Nat /\ Offered \in [Client -> SUBSET IO_Type]
    BY QueueAssumption
  <2>2. now \in Time
    BY <2>1 DEF NamesSound, StateOK, Arrive, Time
  <2> QED BY <2>1, <2>2
<1>2. StateOK'
  BY <1>1 DEF NamesSound, StateOK, Arrive, store, copies, Label, Time
<1>3. NamesStored'
  BY DEF NamesSound, NamesStored, Arrive, store
<1>4. Follows(c)'
  BY <1>1 DEF NamesSound, StateOK, Follows, Linked, Known, Arrive, store, copies
<1>5. ASSUME NEW d \in Client, d # c PROVE Follows(d)'
  BY <1>5, Others DEF NamesSound, StateOK, Arrive, store, copies
<1> QED BY <1>2, <1>3, <1>4, <1>5 DEF NamesSound

\* A client that gets the record, changes its copy and goes to put it.
LEMMA CopySound ==
  ASSUME NamesSound, NEW c \in Client, NEW from, NEW to \in Label,
         from \in {"enq_get", "served"}, to \in {"enq_put", "read_put", "ion_put"},
         Goto(c, from, to), Works, NEW m \in Meta_Data, GetMeta(c, m),
         m.io_node_q_head = md.io_node_q_head,
         m.io_node_q_tail = md.io_node_q_tail, m.my_rep = md.my_rep,
         UNCHANGED <<store, io_node1, io_node_ptr>>
  PROVE  NamesSound'
<1>1. pc[c] = from /\ Moves(c, to)
  BY GotoMoves DEF NamesSound
<1>2. /\ io_node1[c] \in IO_Node
      /\ io_node1' = [io_node1 EXCEPT ![c] = io_node1[c]]
      /\ io_node_ptr[c] \in Path
      /\ io_node_ptr' = [io_node_ptr EXCEPT ![c] = io_node_ptr[c]]
      /\ meta_data' = [meta_data EXCEPT ![c] = m]
  BY DEF NamesSound, StateOK, GetMeta
<1>3. meta_data'[c] = m
  BY <1>2 DEF NamesSound, StateOK
<1>4. Follows(c)'
  BY <1>1, <1>3 DEF NamesSound, StateOK, NamesStored, Follows, Linked, Known, Names,
     Moves, store, request, Updating
<1> QED BY <1>1, <1>2, <1>4, StoreKept

LEMMA EnqueueGetSound ==
  ASSUME NamesSound, NEW c \in Client, EnqueueGet(c) PROVE NamesSound'
<1> DEFINE m == [md EXCEPT !.io_q_node[md.tail] = Entered(c),
                           !.tail = (@ + 1) % IO_Q_LEN]
<1>1. md \in Meta_Data /\ Entered(c) \in Entry
  BY DEF NamesSound, StateOK, Entered, Entry
<1>2. m \in Meta_Data
  BY <1>1, EnterType
<1>3. /\ m.io_node_q_head = md.io_node_q_head
      /\ m.io_node_q_tail = md.io_node_q_tail
      /\ m.my_rep = md.my_rep
  BY <1>1 DEF Meta_Data
<1>4. /\ Goto(c, "enq_get", "enq_put") /\ Works /\ GetMeta(c, m)
      /\ UNCHANGED <<store, io_node1, io_node_ptr>>
  BY DEF EnqueueGet
<1> QED BY <1>2, <1>3, <1>4, CopySound DEF Label

LEMMA WaitOverSound ==
  ASSUME NamesSound, NEW c \in Client, WaitOver(c) PROVE NamesSound'
<1>1. pc[c] = "wait" /\ Moves(c, "served")
  BY GotoMoves DEF NamesSound, WaitOver, Label
<1> QED BY <1>1, Walks DEF WaitOver, Updating

LEMMA NoRecordSound ==
  ASSUME NamesSound, NEW c \in Client, NEW at, NoRecord(c, at) PROVE NamesSound'
<1>1. Moves(c, "idle")
  BY GotoMoves DEF NamesSound, NoRecord, Label
<1> QED BY <1>1, Walks DEF NoRecord

LEMMA HeadPassedSound ==
  ASSUME NamesSound, NEW c \in Client, NEW to \in {"read_put", "ion_put"},
         HeadPassed(c, to)
  PROVE NamesSound'
<1>1. CASE exists
  <2>1. md \in Meta_Data
    BY DEF NamesSound, StateOK
  <2>2. NextHead(md) \in Meta_Data
    BY <2>1, NextHeadType
  <2>3. /\ NextHead(md).io_node_q_head = md.io_node_q_head
        /\ NextHead(md).io_node_q_tail = md.io_node_q_tail
        /\ NextHead(md).my_rep = md.my_rep
    BY <2>1 DEF NextHead, Meta_Data
  <2>4. /\ Goto(c, "served", to) /\ Works /\ GetMeta(c, NextHead(md))
        /\ UNCHANGED <<store, io_node1, io_node_ptr>>
    BY <1>1 DEF HeadPassed
  <2> QED BY <2>2, <2>3, <2>4, CopySound DEF Label
<1>2. CASE ~exists
  <2>1. NoRecord(c, "served")
    BY <1>2 DEF HeadPassed, NoRecord, copies
  <2> QED BY <2>1, NoRecordSound
<1> QED BY <1>1, <1>2

LEMMA QueueOutGetSound ==
  ASSUME NamesSound, NEW c \in Client, ReadGet(c) \/ WriteGet(c) PROVE NamesSound'
<1> QED BY HeadPassedSound DEF ReadGet, WriteGet

LEMMA StoreDownSound ==
  ASSUME NamesSound, NEW c \in Client, StoreDown(c) PROVE NamesSound'
<1>1. Moves(c, "idle")
  BY GotoMoves DEF NamesSound, StoreDown, Label
<1> QED BY <1>1, Returned DEF StoreDown

LEMMA TailGetSound ==
  ASSUME NamesSound, NEW c \in Client, TailGet(c) PROVE NamesSound'
<1> DEFINE tail == meta_data[c].io_node_q_tail
<1>1. CASE tail \notin DOMAIN ion
  <2>1. Moves(c, "idle")
    BY <1>1, GotoMoves DEF NamesSound, TailGet, Label
  <2> QED BY <1>1, <2>1, Returned DEF TailGet
<1>2. CASE tail \in DOMAIN ion
  <2>1. pc[c] = "tail_get" /\ Moves(c, "tail_put")
    BY <1>2, GotoMoves DEF NamesSound, TailGet, Label
  <2>2. /\ io_node1' = [io_node1 EXCEPT ![c] = ion[tail]]
        /\ ion[tail] \in IO_Node
        /\ meta_data[c] \in Meta_Data
        /\ meta_data' = [meta_data EXCEPT ![c] = meta_data[c]]
        /\ io_node_ptr[c] \in Path
        /\ io_node_ptr' = [io_node_ptr EXCEPT ![c] = io_node_ptr[c]]
        /\ UNCHANGED <<store, meta_data, io_node_ptr>>
    BY <1>2 DEF NamesSound, StateOK, TailGet
  <2>3. io_node1'[c] = ion[tail] /\ Linked(ion[tail])
    BY <1>2, <2>2 DEF NamesSound, StateOK, NamesStored, Linked, Known
  <2>4. Follows(c)'
    BY <2>1, <2>2, <2>3 DEF NamesSound, StateOK, Follows, Linked, Known, Moves, store,
       request
  <2> QED BY <2>1, <2>2, <2>4, StoreKept
<1> QED BY <1>1, <1>2

LEMMA RepGetSound ==
  ASSUME NamesSound, NEW c \in Client, RepGet(c) PROVE NamesSound'
<1> DEFINE ptr == md.my_rep[Host[c]]
<1>1. Host[c] \in Replica
  BY QueueAssumption DEF RepGet
<1>2. ptr \in Path /\ ptr \in Known /\ md \in Meta_Data
  BY <1>1 DEF NamesSound, StateOK, NamesStored, Known, Meta_Data
<1>3. PICK l \in {"rep_ion", "rep_put"} : Moves(c, l)
  BY GotoMoves DEF NamesSound, RepGet, Label
<1>4. /\ meta_data' = [meta_data EXCEPT ![c] = md]
      /\ io_node_ptr' = [io_node_ptr EXCEPT ![c] = ptr]
      /\ UNCHANGED <<store, io_node1>>
  BY DEF RepGet, GetMeta
<1>5. pc'[c] = l /\ meta_data'[c] = md /\ io_node_ptr'[c] = ptr
  BY <1>3, <1>4 DEF NamesSound, StateOK, Moves
<1>6. Names(md) \subseteq Known
  BY DEF NamesSound, NamesStored, Names, Known
<1> HIDE DEF ptr
<1>7. Follows(c)'
  BY <1>2, <1>4, <1>5, <1>6 DEF NamesSound, Follows, Linked, Known, Updating, store
<1> QED BY <1>2, <1>3, <1>4, <1>7, OwnCopies, StoreKept

LEMMA RepIonSound ==
  ASSUME NamesSound, NEW c \in Client, RepIon(c) PROVE NamesSound'
<1> DEFINE ptr == io_node_ptr[c]
<1>1. CASE ptr \notin DOMAIN ion
  <2>1. Moves(c, "idle")
    BY <1>1, GotoMoves DEF NamesSound, RepIon, Label
  <2> QED BY <1>1, <2>1, Returned DEF RepIon
<1>2. CASE ptr \in DOMAIN ion
  <2>1. Moves(c, "rep_iod")
    BY <1>2, GotoMoves DEF NamesSound, RepIon, Label
  <2>2. /\ io_node1' = [io_node1 EXCEPT ![c] = ion[ptr]]
        /\ ion[ptr] \in IO_Node
        /\ meta_data[c] \in Meta_Data
        /\ meta_data' = [meta_data EXCEPT ![c] = meta_data[c]]
        /\ UNCHANGED <<store, meta_data, io_node_ptr>>
    BY <1>2 DEF NamesSound, StateOK, RepIon
  <2>3. /\ pc'[c] = "rep_iod" /\ io_node1'[c] = ion[ptr]
        /\ Linked(ion[ptr])
    BY <1>2, <2>1, <2>2 DEF NamesSound, StateOK, NamesStored, Linked, Known, Moves
  <2>4. Follows(c)'
    BY <2>2, <2>3 DEF NamesSound, Follows, Linked, Known, Updating, store
  <2> QED BY <2>1, <2>2, <2>4, OwnCopies, StoreKept
<1> QED BY <1>1, <1>2

LEMMA RepIodSound ==
  ASSUME NamesSound, NEW c \in Client, RepIod(c) PROVE NamesSound'
<1> DEFINE next == io_node1[c].ion_next
           m == IF next # Empty THEN meta_data[c]
                ELSE [meta_data[c] EXCEPT !.my_rep[Host[c]] = Empty]
<1>1. PICK l \in {"rep_ion", "rep_put"} : Moves(c, l)
  BY GotoMoves DEF NamesSound, RepIod, Label
<1>2. next \in Path /\ next \in Known \cup {Garbage}
  BY DEF NamesSound, StateOK, IO_Node, Follows, Linked
<1>3. meta_data[c] \in Meta_Data /\ Names(meta_data[c]) \subseteq Known
  BY DEF NamesSound, StateOK, Follows
<1>4. m \in Meta_Data
  BY <1>3 DEF Meta_Data, Path
<1>5. /\ m.io_node_q_head = meta_data[c].io_node_q_head
      /\ m.io_node_q_tail = meta_data[c].io_node_q_tail
      /\ \A r \in Replica : m.my_rep[r] \in {meta_data[c].my_rep[r], Empty}
  BY <1>3 DEF Meta_Data
<1>6. Names(m) \subseteq Known
  BY <1>3, <1>5 DEF Names, Known
<1>7. meta_data' = [meta_data EXCEPT ![c] = m]
  BY DEF NamesSound, StateOK, RepIod
<1>8. /\ io_node_ptr' = [io_node_ptr EXCEPT ![c] = next]
      /\ UNCHANGED <<store, io_node1>>
  BY DEF RepIod
<1> HIDE DEF m
<1>9. pc'[c] = l /\ meta_data'[c] = m /\ io_node_ptr'[c] = next
  BY <1>1, <1>7, <1>8 DEF NamesSound, StateOK, Moves
<1> HIDE DEF next
<1>10. Follows(c)'
  BY <1>2, <1>6, <1>8, <1>9 DEF NamesSound, Follows, Linked, Known, Updating, store
<1> QED BY <1>1, <1>2, <1>4, <1>7, <1>8, <1>10, OwnCopies, StoreKept

LEMMA RepCrashSound ==
  ASSUME NamesSound, NEW c \in Client, RepCrash(c) PROVE NamesSound'
<1>1. Moves(c, "idle")
  BY GotoMoves DEF NamesSound, RepCrash, Label
<1> QED BY <1>1, Returned DEF RepCrash

-----------------------------------------------------------------------------
(* The steps that put into the store *)

\* What is stored under a name that is new or not.
LEMMA StoredFacts ==
  ASSUME NamesSound, NEW path \in Time, NEW node \in IO_Node, Stored(path, node)
  PROVE  /\ DOMAIN ion' = DOMAIN ion \cup {path}
         /\ DOMAIN ion' \subseteq Time
         /\ \A t \in DOMAIN ion' : /\ ion'[t] \in IO_Node
                                   /\ t \in DOMAIN ion \/ t = path
                                   /\ ion'[t] = IF t = path THEN node ELSE ion[t]
  BY DEF NamesSound, StateOK, Stored

\* md_put of a record whose names are stored, then the client's next step.
LEMMA RecordPut ==
  ASSUME NamesSound, NEW c \in Client, NEW l, Moves(c, l), exists' = TRUE,
         l \in {"idle", "wait", "iod_put"},
         l # "idle" => pc[c] \notin {"idle"} \cup Updating,
         l = "iod_put" => arrive_time[c] \in DOMAIN ion,
         md' \in Meta_Data,
         Names(md') \subseteq Known,
         meta_data' = [meta_data EXCEPT ![c] = NewMeta],
         UNCHANGED <<ion, iod>>,
         NEW n \in IO_Node, Linked(n), io_node1' = [io_node1 EXCEPT ![c] = n],
         NEW p \in Path, p \in Known \cup {Garbage},
         io_node_ptr' = [io_node_ptr EXCEPT ![c] = p]
  PROVE  NamesSound'
<1>1. StateOK'
  BY NewMetaType DEF NamesSound, StateOK, Moves, request
<1>2. NamesStored'
  BY DEF NamesSound, NamesStored, Known, Names
<1>3. meta_data'[c] = NewMeta /\ io_node1'[c] = n /\ io_node_ptr'[c] = p
  BY DEF NamesSound, StateOK
<1>4. Names(NewMeta) \subseteq {Empty}
  BY DEF Names, NewMeta
<1>6. Follows(c)'
  BY <1>3, <1>4 DEF NamesSound, StateOK, Follows, Linked, Known, Moves, request
<1>5. ASSUME NEW d \in Client, d # c PROVE Follows(d)'
  BY <1>5, Others DEF NamesSound, StateOK, Moves, request
<1> QED BY <1>1, <1>2, <1>5, <1>6 DEF NamesSound

LEMMA CopyPutSound ==
  ASSUME NamesSound, NEW c \in Client, EnqueuePut(c) \/ ReadPut(c)
  PROVE  NamesSound'
<1>1. /\ pc[c] \notin {"idle"} \cup Updating
      /\ Moves(c, "wait") \/ Moves(c, "idle")
  BY PutMoves DEF NamesSound, EnqueuePut, ReadPut, Label, Updating
<1>2. /\ exists' = TRUE
      /\ md' = meta_data[c]
      /\ meta_data' = [meta_data EXCEPT ![c] = NewMeta]
      /\ UNCHANGED <<ion, iod, io_node1, io_node_ptr>>
  BY DEF EnqueuePut, ReadPut, PutMeta, GetMeta
<1>3. md' \in Meta_Data /\ Names(md') \subseteq Known
  BY <1>2 DEF NamesSound, StateOK, Follows
<1> QED BY <1>1, <1>2, <1>3, OwnCopies, RecordPut

LEMMA RepPutSound ==
  ASSUME NamesSound, NEW c \in Client, RepPut(c) PROVE NamesSound'
<1>1. pc[c] = "rep_put" /\ Moves(c, "idle")
  BY PutMoves DEF NamesSound, RepPut, Label
<1>2. /\ exists' = TRUE
      /\ md' = meta_data[c]
      /\ meta_data' = [meta_data EXCEPT ![c] = NewMeta]
      /\ io_node1' = [io_node1 EXCEPT ![c] = NewNode]
      /\ io_node_ptr' = [io_node_ptr EXCEPT ![c] = Empty]
      /\ UNCHANGED <<ion, iod>>
  BY DEF RepPut, Forget, GetMeta
<1>3. md' \in Meta_Data /\ Names(md') \subseteq Known
  BY <1>2 DEF NamesSound, StateOK, Follows
<1>4. Linked(NewNode) /\ Empty \in Path /\ Empty \in Known
  BY DEF Linked, NewNode, Known, Path
<1> QED BY <1>1, <1>2, <1>3, <1>4, NewNodeType, RecordPut

LEMMA WriteMetaPutSound ==
  ASSUME NamesSound, NEW c \in Client, WriteMetaPut(c) PROVE NamesSound'
<1>1. /\ pc[c] = "md_put"
      /\ Moves(c, "iod_put") \/ Moves(c, "idle")
  BY PutMoves DEF NamesSound, WriteMetaPut, Label
<1>2. arrive_time[c] \in DOMAIN ion /\ arrive_time[c] \in Path
  BY <1>1 DEF NamesSound, StateOK, Follows, Path
<1>3. /\ meta_data[c] \in Meta_Data
      /\ Names(meta_data[c]) \subseteq Known
  BY DEF NamesSound, StateOK, Follows
<1>4. md' \in Meta_Data
  BY <1>2, <1>3 DEF WriteMetaPut, Meta_Data
<1>5. /\ md'.io_node_q_head \in {meta_data[c].io_node_q_head, arrive_time[c]}
      /\ md'.io_node_q_tail = arrive_time[c]
      /\ \A r \in Replica : md'.my_rep[r] \in {meta_data[c].my_rep[r], arrive_time[c]}
  BY <1>3 DEF WriteMetaPut, Meta_Data
<1>6. Names(md') \subseteq Known
  BY <1>2, <1>3, <1>5 DEF Names, Known
<1> QED BY <1>1, <1>2, <1>4, <1>6, OwnCopies, RecordPut
        DEF WriteMetaPut, GetMeta, Updating

LEMMA RemoveOutSound ==
  ASSUME NamesSound, NEW c \in Client, RemoveOut(c) PROVE NamesSound'
<1>1. pc[c] = "served" /\ Moves(c, "idle")
  BY PutMoves DEF NamesSound, RemoveOut, Label
<1>2. StateOK'
  BY <1>1 DEF NamesSound, StateOK, RemoveOut, Moves, request, copies
<1>3. NamesStored'
  BY DEF NamesSound, NamesStored, RemoveOut
<1>4. Follows(c)'
  BY <1>1 DEF NamesSound, StateOK, Follows, Linked, Known, RemoveOut, Moves, request,
     copies
<1>5. ASSUME NEW d \in Client, d # c PROVE Follows(d)'
  BY <1>1, <1>5, Others DEF NamesSound, StateOK, RemoveOut, Moves, request, copies
<1> QED BY <1>2, <1>3, <1>4, <1>5 DEF NamesSound

LEMMA IodPutSound ==
  ASSUME NamesSound, NEW c \in Client, IodPut(c) PROVE NamesSound'
<1>1. pc[c] = "iod_put" /\ Moves(c, "idle")
  BY PutMoves DEF NamesSound, IodPut, Label
<1>2. arrive_time[c] \in DOMAIN ion
  BY <1>1 DEF NamesSound, Follows
<1>3. StateOK'
  BY <1>1, <1>2 DEF NamesSound, StateOK, IodPut, Moves, request, copies
<1>4. NamesStored'
  BY <1>2 DEF NamesSound, NamesStored, IodPut
<1>5. Follows(c)'
  BY <1>1 DEF NamesSound, StateOK, Follows, Linked, Known, IodPut, Moves, request,
     copies
<1>6. ASSUME NEW d \in Client, d # c PROVE Follows(d)'
  BY <1>1, <1>6, Others DEF NamesSound, StateOK, IodPut, Moves, request, copies
<1> QED BY <1>3, <1>4, <1>5, <1>6 DEF NamesSound

\* An io_node is put whose links are stored.
LEMMA NodePut ==
  ASSUME NamesSound, NEW c \in Client, NEW l, Moves(c, l), pc[c] # "idle",
         NEW path \in Time, NEW node \in IO_Node, Stored(path, node),
         node.ion_pre \in Known,
         node.ion_next \in Known \cup {Garbage, path},
         UNCHANGED <<exists, md, iod, meta_data, io_node_ptr>>,
         NEW n \in IO_Node, Linked(n), io_node1' = [io_node1 EXCEPT ![c] = n],
         l \in {"tail_get", "md_put", "idle"},
         l # "idle" => arrive_time[c] \in DOMAIN ion',
         l = "tail_get" => meta_data[c].io_node_q_tail # Empty
  PROVE  NamesSound'
<1>1. /\ DOMAIN ion' = DOMAIN ion \cup {path}
      /\ DOMAIN ion' \subseteq Time
      /\ \A t \in DOMAIN ion' : /\ ion'[t] \in IO_Node
                                /\ t \in DOMAIN ion \/ t = path
                                /\ ion'[t] = IF t = path THEN node ELSE ion[t]
  BY StoredFacts
<1>2. StateOK'
  BY <1>1 DEF NamesSound, StateOK, Moves, request
<1>3. NamesStored'
  BY <1>1 DEF NamesSound, NamesStored, Known
<1>4. Follows(c)'
  BY <1>1 DEF NamesSound, StateOK, Follows, Linked, Known, Moves, request
<1>5. ASSUME NEW d \in Client, d # c PROVE Follows(d)'
  BY <1>1, <1>5, Others DEF NamesSound, StateOK, Moves, request
<1> QED BY <1>2, <1>3, <1>4, <1>5 DEF NamesSound

LEMMA IonPutSound ==
  ASSUME NamesSound, NEW c \in Client, IonPut(c) PROVE NamesSound'
<1> DEFINE tail == meta_data[c].io_node_q_tail
<1>1. PICK next \in DOMAIN ion \cup {Empty, Garbage} :
        Stored(arrive_time[c], [ion_pre |-> tail, ion_next |-> next])
  BY DEF IonPut
<1> DEFINE node == [ion_pre |-> tail, ion_next |-> next]
<1>2. /\ pc[c] = "ion_put"
      /\ Moves(c, IF tail # Empty THEN "tail_get" ELSE "md_put") \/ Moves(c, "idle")
  BY PutMoves DEF NamesSound, IonPut, Label
<1>3. arrive_time[c] \in Time /\ tail \in Known
  BY <1>2 DEF NamesSound, Follows, Names, Updating
<1>4. /\ node \in IO_Node /\ node.ion_pre \in Known
      /\ node.ion_next \in Known \cup {Garbage, arrive_time[c]}
  BY <1>3 DEF NamesSound, StateOK, IO_Node, Meta_Data, Path, Known
<1>5. /\ io_node1[c] \in IO_Node /\ Linked(io_node1[c])
      /\ io_node1' = [io_node1 EXCEPT ![c] = io_node1[c]]
      /\ UNCHANGED <<exists, md, iod, meta_data, io_node_ptr>>
  BY DEF NamesSound, StateOK, Follows, IonPut, copies
<1>6. arrive_time[c] \in DOMAIN ion'
  BY <1>1 DEF Stored
<1> HIDE DEF node, tail
<1> QED BY <1>1, <1>2, <1>3, <1>4, <1>5, <1>6, NodePut DEF node, tail

LEMMA TailPutSound ==
  ASSUME NamesSound, NEW c \in Client, TailPut(c) PROVE NamesSound'
<1> DEFINE tail == meta_data[c].io_node_q_tail
           node == [io_node1[c] EXCEPT !.ion_next = arrive_time[c]]
<1>1. /\ pc[c] = "tail_put"
      /\ Moves(c, "md_put") \/ Moves(c, "idle")
  BY PutMoves DEF NamesSound, TailPut, Label
<1>2. tail \in DOMAIN ion /\ tail \in Time
  BY <1>1 DEF NamesSound, StateOK, Follows, Known, Names
<1>3. /\ arrive_time[c] \in DOMAIN ion /\ arrive_time[c] \in Time
      /\ io_node1[c] \in IO_Node /\ Linked(io_node1[c])
  BY <1>1 DEF NamesSound, StateOK, Follows
<1>4. /\ node \in IO_Node /\ node.ion_pre \in Known
      /\ node.ion_next \in Known \cup {Garbage, tail}
  BY <1>3 DEF IO_Node, Path, Linked, Known
<1>5. Stored(tail, node)
  BY DEF TailPut
<1>6. arrive_time[c] \in DOMAIN ion'
  BY <1>2, <1>3, <1>4, <1>5, StoredFacts
<1>7. Linked(NewNode)
  BY DEF Linked, NewNode, Known
<1> HIDE DEF node, tail
<1> QED BY <1>1, <1>2, <1>4, <1>5, <1>6, <1>7, NewNodeType, NodePut DEF TailPut

-----------------------------------------------------------------------------
(* The theorems *)

LEMMA NamesStep == ASSUME NamesSound, [Next]_vars PROVE NamesSound'
<1>1. CASE UNCHANGED vars
  <2>1. StateOK'
    BY <1>1 DEF NamesSound, StateOK, vars, store, request, copies
  <2>2. NamesStored'
    BY <1>1 DEF NamesSound, NamesStored, vars, store
  <2>3. ASSUME NEW d \in Client PROVE Follows(d)'
    BY <1>1, <2>3, Others DEF NamesSound, vars, store, request, copies
  <2> QED BY <2>1, <2>2, <2>3 DEF NamesSound
<1>2. CASE Tick
  BY <1>2, TickSound
<1>3. ASSUME NEW c \in Client, QueueInWait(c) PROVE NamesSound'
  BY <1>3, ArriveSound, EnqueueGetSound, NoRecordSound, CopyPutSound, WaitOverSound
     DEF QueueInWait
<1>4. ASSUME NEW c \in Client, QueueOut(c) PROVE NamesSound'
  BY <1>4, QueueOutGetSound, CopyPutSound, RemoveOutSound, IonPutSound, TailGetSound,
     TailPutSound, WriteMetaPutSound, IodPutSound DEF QueueOut
<1>5. ASSUME NEW c \in Client, ReplicaUpdate(c) PROVE NamesSound'
  BY <1>5, RepGetSound, RepIonSound, RepIodSound, RepCrashSound, RepPutSound
     DEF ReplicaUpdate
<1>6. ASSUME NEW c \in Client, StoreDown(c) PROVE NamesSound'
  BY <1>6, StoreDownSound
<1> QED BY <1>1, <1>2, <1>3, <1>4, <1>5, <1>6 DEF Next, ClientStep

(* The invariant the next two theorems rest on: what the clients have       *)
(* copied is stored, whatever the schedule of the calls in io_queue.c.     *)
THEOREM NamesAlwaysSound == Spec => []NamesSound
<1> QED BY NamesInit, NamesStep, PTL DEF Spec

(* Every state of the I/O queue, whatever the schedule, the length of the  *)
(* ring and the failures, is well typed: head and tail stay in the ring.   *)
THEOREM QueueTypeCorrect == Spec => []TypeOK
<1>1. Init => TypeOK
  BY NamesInit DEF NamesSound, Init, TypeOK
<1>2. ASSUME TypeOK, StateOK', [Next]_vars PROVE TypeOK'
  <2>1. CASE UNCHANGED <<pc, history>>
    BY <1>2, <2>1 DEF TypeOK, history
  <2>2. ASSUME NEW c \in Client, Remembered(c) PROVE TypeOK'
    BY <1>2, <2>2 DEF TypeOK, Remembered
  <2> QED BY <1>2, <2>1, <2>2 DEF Next, ClientStep, Tick, vars
<1>3. NamesSound => StateOK
  BY DEF NamesSound
<1> QED BY <1>1, <1>2, <1>3, NamesAlwaysSound, PTL DEF Spec

(* The store never names an io_node it does not have, nor has data without *)
(* an io_node, in every schedule of any number of clients and whatever     *)
(* fails (the order of the puts in write_queue_out).                       *)
THEOREM NamesAreStored == Spec => []NamesStored
<1>1. NamesSound => NamesStored
  BY DEF NamesSound
<1> QED BY <1>1, NamesAlwaysSound, PTL

-----------------------------------------------------------------------------
(* What a step of one client leaves alone, and copies that are not         *)
(* outdated                                                                *)

\* A client's request and its copies are its own.
OwnState(d) == <<pc[d], io_type[d], arrive_time[d],
                 meta_data[d], io_node1[d], io_node_ptr[d]>>

LEMMA OthersAlone ==
  ASSUME StateOK, NEW c \in Client, ClientStep(c), NEW d \in Client, d # c
  PROVE  UNCHANGED OwnState(d)
<1>1. CASE QueueInWait(c)
  BY <1>1 DEF StateOK, OwnState, QueueInWait, Arrive, EnqueueGet, NoRecord, EnqueuePut,
     WaitOver, Put, PutMeta, Goto, GetMeta, request, copies
<1>2. CASE ReadGet(c) \/ WriteGet(c) \/ ReadPut(c) \/ RemoveOut(c)
  BY <1>2 DEF StateOK, OwnState, ReadGet, WriteGet, HeadPassed, ReadPut, RemoveOut,
     Put, PutMeta, Goto, GetMeta, request, copies
<1>3. CASE IonPut(c) \/ TailGet(c) \/ TailPut(c)
  BY <1>3 DEF StateOK, OwnState, IonPut, TailGet, TailPut, Put, Goto, Forget, GetMeta,
     request, copies
<1>4. CASE WriteMetaPut(c) \/ IodPut(c)
  BY <1>4 DEF StateOK, OwnState, WriteMetaPut, IodPut, Put, Goto, GetMeta, request,
     copies
<1>5. CASE RepGet(c) \/ RepIon(c) \/ RepCrash(c) \/ RepPut(c)
  BY <1>5 DEF StateOK, OwnState, RepGet, RepIon, RepCrash, RepPut, Put, Goto, Forget,
     GetMeta, request
<1>6. CASE RepIod(c)
  BY <1>6 DEF StateOK, OwnState, RepIod, Goto, request
<1>7. CASE StoreDown(c)
  BY <1>7 DEF StateOK, OwnState, StoreDown, Goto, Forget, GetMeta, request
<1> QED BY <1>1, <1>2, <1>3, <1>4, <1>5, <1>6, <1>7
        DEF ClientStep, QueueOut, ReplicaUpdate

\* Only the puts of the record and md_out touch it.
LEMMA RecordTouched ==
  ASSUME NEW c \in Client, ClientStep(c), Touched
  PROVE  \/ EnqueuePut(c) \/ ReadPut(c) \/ WriteMetaPut(c) \/ RepPut(c)
         \/ RemoveOut(c)
<1>1. QueueInWait(c) => EnqueuePut(c)
  BY DEF Touched, QueueInWait, Arrive, EnqueueGet, NoRecord, WaitOver, store
<1>2. QueueOut(c) => ReadPut(c) \/ RemoveOut(c) \/ WriteMetaPut(c)
  BY DEF Touched, QueueOut, ReadGet, WriteGet, HeadPassed, IonPut, TailGet, TailPut,
     IodPut, store
<1>3. ReplicaUpdate(c) => RepPut(c)
  BY DEF Touched, ReplicaUpdate, RepGet, RepIon, RepIod, RepCrash, store
<1>4. ~StoreDown(c)
  BY DEF Touched, StoreDown, store
<1> QED BY <1>1, <1>2, <1>3, <1>4 DEF ClientStep

\* What a client's copy is made of, when the record is m.
AsEntered(c, m) == [m EXCEPT !.io_q_node[m.tail] = Entered(c),
                             !.tail = (@ + 1) % IO_Q_LEN]
Writing == {"ion_put", "tail_get", "tail_put", "md_put"}
CopyOf(c, m) ==
  /\ pc[c] = "enq_put" => meta_data[c] = AsEntered(c, m)
  /\ pc[c] \in {"read_put"} \cup Writing => meta_data[c] = NextHead(m)
  /\ pc[c] \in {"rep_ion", "rep_iod"} => meta_data[c] = m
  /\ pc[c] = "rep_put" =>
       \/ meta_data[c] = m
       \/ /\ io_node1[c].ion_next = Empty
          /\ meta_data[c] = [m EXCEPT !.my_rep[Host[c]] = Empty]

\* Whose copy is not outdated has one of the record as it is.
Fresh == \A c \in Client : pc[c] \in Holding /\ c \notin stale => exists /\ CopyOf(c, md)

LEMMA CopyMade ==
  ASSUME StateOK, NEW c \in Client, ClientStep(c), pc[c] \notin Holding,
         pc'[c] \in Holding
  PROVE  /\ exists /\ UNCHANGED <<exists, md>>
         /\ CopyOf(c, md)'
<1>1. CASE EnqueueGet(c)
  BY <1>1 DEF StateOK, EnqueueGet, Goto, GetMeta, CopyOf, AsEntered, Entered, Writing,
     store, request
<1>2. CASE HeadPassed(c, "read_put") \/ HeadPassed(c, "ion_put")
  BY <1>2 DEF StateOK, HeadPassed, Goto, GetMeta, CopyOf, Writing, Holding, Updating,
     store
<1>3. CASE RepGet(c)
  BY <1>3 DEF StateOK, RepGet, Goto, GetMeta, CopyOf, Writing, store
<1>4. QueueInWait(c) => EnqueueGet(c)
  BY DEF StateOK, QueueInWait, Arrive, NoRecord, EnqueuePut, WaitOver, Put, Goto, Holding,
     Updating
<1>5. QueueOut(c) => HeadPassed(c, "read_put") \/ HeadPassed(c, "ion_put")
  BY DEF QueueOut, ReadGet, WriteGet, ReadPut, RemoveOut, IonPut, TailGet, TailPut,
     WriteMetaPut, IodPut, Put, Goto, Holding, Updating, StateOK
<1>6. ReplicaUpdate(c) => RepGet(c)
  BY DEF ReplicaUpdate, RepIon, RepIod, RepCrash, RepPut, Put, Goto, Holding, Updating
<1>7. ~StoreDown(c)
  BY DEF StateOK, StoreDown, Goto, Holding, Updating
<1> QED BY <1>1, <1>2, <1>3, <1>4, <1>5, <1>6, <1>7 DEF ClientStep

LEMMA CopyKept ==
  ASSUME StateOK, NEW c \in Client, ClientStep(c), pc[c] \in Holding, pc'[c] \in Holding,
         exists, CopyOf(c, md)
  PROVE  UNCHANGED <<exists, md>> /\ CopyOf(c, md)'
<1>1. CASE IonPut(c) \/ TailPut(c)
  BY <1>1 DEF StateOK, IonPut, TailPut, Put, Goto, CopyOf, Writing, Holding, Updating,
     copies
<1>2. CASE TailGet(c)
  BY <1>2 DEF StateOK, TailGet, Goto, CopyOf, Writing, Holding, Updating, store
<1>3. CASE RepIon(c)
  BY <1>3 DEF StateOK, RepIon, Goto, CopyOf, Writing, Holding, Updating, store
<1>4. CASE RepIod(c)
  <2> DEFINE next == io_node1[c].ion_next
  <2>1. /\ pc[c] = "rep_iod" /\ UNCHANGED <<exists, md, io_node1>>
        /\ pc' = [pc EXCEPT ![c] = IF next # Empty THEN "rep_ion" ELSE "rep_put"]
        /\ meta_data' = IF next # Empty THEN meta_data
                        ELSE [meta_data EXCEPT ![c].my_rep[Host[c]] = Empty]
    BY <1>4 DEF RepIod, Goto, store
  <2>2. meta_data[c] = md
    BY <2>1 DEF CopyOf
  <2>3. CASE next # Empty
    BY <2>1, <2>2, <2>3 DEF StateOK, CopyOf, Writing
  <2>4. CASE next = Empty
    <3>1. /\ pc'[c] = "rep_put"
          /\ meta_data'[c] = [md EXCEPT !.my_rep[Host[c]] = Empty]
      BY <2>1, <2>2, <2>4 DEF StateOK
    <3> QED BY <2>1, <2>4, <3>1 DEF CopyOf, Writing
  <2> QED BY <2>1, <2>3, <2>4
<1>5. ~QueueInWait(c)
  BY DEF StateOK, QueueInWait, Arrive, EnqueueGet, NoRecord, EnqueuePut, WaitOver, Put,
     Goto, Holding, Updating
<1>6. QueueOut(c) => IonPut(c) \/ TailPut(c) \/ TailGet(c)
  BY DEF QueueOut, ReadGet, WriteGet, HeadPassed, ReadPut, RemoveOut, WriteMetaPut,
     IodPut, Put, Goto, Holding, Updating, StateOK
<1>7. ReplicaUpdate(c) => RepIon(c) \/ RepIod(c)
  BY DEF ReplicaUpdate, RepGet, RepCrash, RepPut, Put, Goto, Holding, Updating, StateOK
<1>8. ~StoreDown(c)
  BY DEF StateOK, StoreDown, Goto, Holding, Updating
<1> QED BY <1>1, <1>2, <1>3, <1>4, <1>5, <1>6, <1>7, <1>8 DEF ClientStep

LEMMA FreshStep == ASSUME TypeOK, Fresh, [Next]_vars PROVE Fresh'
<1>1. CASE UNCHANGED vars \/ Tick
  <2>1. UNCHANGED <<exists, md, stale>> /\ \A d \in Client : UNCHANGED OwnState(d)
    BY <1>1 DEF OwnState, vars, Tick, store, request, copies, history
  <2>2. ASSUME NEW d \in Client PROVE CopyOf(d, md)' <=> CopyOf(d, md)
    BY <2>1 DEF OwnState, CopyOf, AsEntered, Entered
  <2> QED BY <2>1, <2>2 DEF OwnState, Fresh
<1>2. ASSUME NEW c \in Client, ClientStep(c) PROVE Fresh'
  <2>1. StateOK
    BY DEF TypeOK
  <2>2. ASSUME NEW d \in Client, pc'[d] \in Holding, d \notin stale'
        PROVE  exists' /\ CopyOf(d, md)'
    <3>1. stale' = {e \in Client : {pc[e], pc'[e]} \subseteq Holding /\ (e \in stale \/ Touched)}
      BY <1>2 DEF ClientStep, Remembered
    <3>2. CASE pc[d] \in Holding
      <4>1. d \notin stale /\ UNCHANGED <<exists, md>> /\ exists /\ CopyOf(d, md)
        BY <2>2, <3>1, <3>2 DEF Fresh, Touched
      <4>2. CASE d = c
        BY <1>2, <2>1, <2>2, <3>2, <4>1, <4>2, CopyKept
      <4>3. CASE d # c
        BY <1>2, <2>1, <4>1, <4>3, OthersAlone
           DEF OwnState, CopyOf, AsEntered, Entered
      <4> QED BY <4>2, <4>3
    <3>3. CASE pc[d] \notin Holding
      <4>1. d = c
        BY <1>2, <2>1, <2>2, <3>3, OthersAlone DEF OwnState
      <4> QED BY <1>2, <2>1, <2>2, <3>3, <4>1, CopyMade
    <3> QED BY <3>2, <3>3
  <2> QED BY <2>2 DEF Fresh
<1> QED BY <1>1, <1>2 DEF Next

LEMMA AlwaysFresh == Spec => []Fresh
<1>1. Init => Fresh
  BY DEF Init, Fresh, Holding, Updating
<1>2. TypeOK /\ Fresh /\ [Next]_vars => Fresh'
  BY FreshStep
<1> QED BY <1>1, <1>2, QueueTypeCorrect, PTL DEF Spec

-----------------------------------------------------------------------------
(* What is put, and by whom *)

(* Only a client that read the record before it was removed puts a removed *)
(* record back (md_put asks nothing): in every schedule, for any clients   *)
(* and failures.                                                           *)
THEOREM RemovedForGood == Spec => StaysRemoved
<1>1. ASSUME TypeOK, Fresh, [Next]_vars, ~exists, exists'
      PROVE  \E c \in stale : pc[c] \in Putting /\ pc'[c] # pc[c]
  <2>1. PICK c \in Client : ClientStep(c)
    BY <1>1 DEF Next, Tick, vars, store
  <2>2. EnqueuePut(c) \/ ReadPut(c) \/ WriteMetaPut(c) \/ RepPut(c)
    BY <1>1, <2>1, RecordTouched DEF Touched, RemoveOut
  <2>3. pc[c] \in Putting /\ pc'[c] # pc[c]
    BY <1>1, <2>2 DEF TypeOK, StateOK, EnqueuePut, ReadPut, WriteMetaPut, RepPut, Put,
       Goto, Putting
  <2>4. c \in stale
    BY <1>1, <2>3 DEF Fresh, Putting, Holding, Updating
  <2> QED BY <2>3, <2>4
<1>2. TypeOK /\ Fresh /\ [Next]_vars =>
        [~exists /\ exists' =>
           \E c \in stale : pc[c] \in Putting /\ pc'[c] # pc[c]]_vars
  BY <1>1
<1> QED BY <1>2, QueueTypeCorrect, AlwaysFresh, PTL DEF Spec, StaysRemoved

\* Who clears a pointer.
LEMMA OwnClears ==
  ASSUME NamesSound, Fresh, [Next]_vars, NEW r \in Replica,
         md.my_rep[r] # Empty, md'.my_rep[r] = Empty
  PROVE  \E c \in Client : /\ pc'[c] # pc[c]
                           /\ \/ c \in stale
                              \/ /\ Host[c] = r /\ pc[c] = "rep_put"
                                 /\ io_node1[c].ion_next = Empty
<1>1. PICK c \in Client : ClientStep(c)
  BY DEF Next, Tick, vars, store
<1>2. EnqueuePut(c) \/ ReadPut(c) \/ WriteMetaPut(c) \/ RepPut(c)
  BY <1>1, RecordTouched DEF Touched, RemoveOut
<1>3. pc[c] \in Putting /\ pc'[c] # pc[c]
  BY <1>2 DEF NamesSound, StateOK, EnqueuePut, ReadPut, WriteMetaPut, RepPut, Put,
     Goto, Putting
<1>4. SUFFICES ASSUME c \notin stale
               PROVE  Host[c] = r /\ pc[c] = "rep_put" /\ io_node1[c].ion_next = Empty
  BY <1>3
<1>5. CopyOf(c, md)
  BY <1>3, <1>4 DEF Fresh, Putting, Holding, Updating
<1>6. md \in Meta_Data /\ meta_data[c] \in Meta_Data
  BY DEF NamesSound, StateOK
<1>7. CASE EnqueuePut(c) \/ ReadPut(c)
  <2>1. md' = meta_data[c] /\ pc[c] \in {"enq_put", "read_put"}
    BY <1>7 DEF EnqueuePut, ReadPut, PutMeta, Put, Goto
  <2>2. meta_data[c].my_rep = md.my_rep
    BY <1>5, <1>6, <2>1 DEF CopyOf, AsEntered, NextHead, Meta_Data
  <2> QED BY <2>1, <2>2
<1>8. CASE WriteMetaPut(c)
  <2>1. pc[c] = "md_put"
    BY <1>8 DEF WriteMetaPut, Put, Goto
  <2>2. meta_data[c].my_rep = md.my_rep
    BY <1>5, <1>6, <2>1 DEF CopyOf, Writing, NextHead, Meta_Data
  <2>3. arrive_time[c] # Empty
    BY <2>1, QueueAssumption DEF NamesSound, Follows, Updating, Time, Empty
  <2>4. md'.my_rep[r] \in {meta_data[c].my_rep[r], arrive_time[c]}
    BY <1>6, <1>8 DEF WriteMetaPut, Meta_Data
  <2> QED BY <2>2, <2>3, <2>4
<1>9. CASE RepPut(c)
  <2>1. md' = meta_data[c] /\ pc[c] = "rep_put"
    BY <1>9 DEF RepPut, Put, Goto
  <2>2. /\ io_node1[c].ion_next = Empty
        /\ meta_data[c] = [md EXCEPT !.my_rep[Host[c]] = Empty]
    BY <1>5, <2>1 DEF CopyOf
  <2>3. r # Host[c] => meta_data[c].my_rep[r] = md.my_rep[r]
    BY <1>6, <2>2 DEF Meta_Data
  <2> QED BY <2>1, <2>2, <2>3
<1> QED BY <1>2, <1>7, <1>8, <1>9

(* In every schedule, a replica's pointer is cleared by an update of its   *)
(* own host at the end of its walk, or by the put of an outdated copy,     *)
(* for any clients, hosts and failures.                                    *)
THEOREM OwnPointerKept == Spec => OwnPointer
<1>1. NamesSound /\ Fresh /\ [Next]_vars =>
        [\A r \in Replica :
           md.my_rep[r] # Empty /\ md'.my_rep[r] = Empty =>
             \E c \in Client : /\ pc'[c] # pc[c]
                               /\ \/ c \in stale
                                  \/ /\ Host[c] = r /\ pc[c] = "rep_put"
                                     /\ io_node1[c].ion_next = Empty]_vars
  BY OwnClears
<1> QED BY <1>1, AlwaysFresh, NamesAlwaysSound, PTL DEF Spec, OwnPointer

-----------------------------------------------------------------------------
(* The data of the writes *)

\* A write whose io_node is stored goes on to put its data.
Writes(t) == \E c \in Client : /\ arrive_time[c] = t
                              /\ pc[c] \in {"tail_get", "tail_put", "md_put", "iod_put"}

LEMMA WriteGoesOn ==
  ASSUME NamesSound, NEW c \in Client, ClientStep(c), fails' = 0,
         pc[c] \in {"tail_get", "tail_put", "md_put", "iod_put"}
  PROVE  /\ UNCHANGED arrive_time
         /\ iod \subseteq iod'
         /\ \/ pc'[c] \in {"tail_get", "tail_put", "md_put", "iod_put"}
            \/ arrive_time[c] \in iod'
<1>1. fails \in Nat
  BY QueueAssumption DEF NamesSound, StateOK
<1>2. ~Fails
  BY <1>1 DEF Fails
<1>3. CASE TailGet(c)
  <2>1. meta_data[c].io_node_q_tail \in DOMAIN ion
    BY <1>3 DEF NamesSound, Follows, Names, Known, TailGet, Goto, Forget
  <2> QED BY <1>3, <2>1 DEF NamesSound, StateOK, TailGet, Goto, store, request
<1>4. CASE TailPut(c) \/ WriteMetaPut(c)
  BY <1>2, <1>4 DEF NamesSound, StateOK, TailPut, WriteMetaPut, Put, Goto, request
<1>5. CASE IodPut(c)
  BY <1>2, <1>5 DEF NamesSound, StateOK, IodPut, Put, Goto, request
<1>6. TailGet(c) \/ TailPut(c) \/ WriteMetaPut(c) \/ IodPut(c)
  BY <1>2 DEF NamesSound, StateOK, ClientStep, QueueInWait, Arrive, EnqueueGet, NoRecord,
     EnqueuePut, WaitOver, QueueOut, ReadGet, WriteGet, HeadPassed, ReadPut, RemoveOut,
     IonPut, ReplicaUpdate, RepGet, RepIon, RepIod, RepCrash, RepPut, StoreDown, Put, Goto
<1> QED BY <1>3, <1>4, <1>5, <1>6

\* A name that is new in the store is that of a write that goes on.
LEMMA NodeIsNew ==
  ASSUME NamesSound, NEW c \in Client, ClientStep(c), fails' = 0
  PROVE  /\ iod \subseteq iod'
         /\ \A t \in DOMAIN ion' : t \in DOMAIN ion \/ Writes(t)'
<1>1. fails \in Nat
  BY QueueAssumption DEF NamesSound, StateOK
<1>2. ~Fails
  BY <1>1 DEF Fails
<1>3. CASE IonPut(c)
  <2>1. /\ pc'[c] \in {"tail_get", "md_put"} /\ UNCHANGED <<iod, arrive_time>>
        /\ DOMAIN ion' = DOMAIN ion \cup {arrive_time[c]}
    BY <1>2, <1>3 DEF NamesSound, StateOK, IonPut, Stored, Put, Goto, request
  <2> QED BY <2>1 DEF Writes
<1>4. CASE TailPut(c)
  <2>1. meta_data[c].io_node_q_tail \in DOMAIN ion
    BY <1>4 DEF NamesSound, Follows, Names, Known, TailPut, Put, Goto
  <2>2. DOMAIN ion' = DOMAIN ion \cup {meta_data[c].io_node_q_tail} /\ UNCHANGED iod
    BY <1>4 DEF TailPut, Stored
  <2> QED BY <2>1, <2>2
<1>5. CASE UNCHANGED ion
  BY <1>5 DEF ClientStep, QueueInWait, Arrive, EnqueueGet, NoRecord, EnqueuePut, WaitOver,
     QueueOut, ReadGet, WriteGet, HeadPassed, ReadPut, RemoveOut, IonPut, TailGet,
     TailPut, WriteMetaPut, IodPut, ReplicaUpdate, RepGet, RepIon, RepIod, RepCrash,
     RepPut, StoreDown, store
<1>6. IonPut(c) \/ TailPut(c) \/ UNCHANGED ion
  BY DEF ClientStep, QueueInWait, Arrive, EnqueueGet, NoRecord, EnqueuePut, WaitOver,
     QueueOut, ReadGet, WriteGet, HeadPassed, ReadPut, RemoveOut, TailGet,
     WriteMetaPut, IodPut, ReplicaUpdate, RepGet, RepIon, RepIod, RepCrash,
     RepPut, StoreDown, store
<1> QED BY <1>3, <1>4, <1>5, <1>6

LEMMA DataStep ==
  ASSUME NamesSound, DataFollows, [Next]_vars PROVE DataFollows'
<1>1. CASE UNCHANGED vars \/ Tick
  BY <1>1 DEF DataFollows, vars, Tick, store, request
<1>2. ASSUME NEW c \in Client, ClientStep(c), fails' = 0, NEW t \in DOMAIN ion'
      PROVE  t \in iod' \/ Writes(t)'
  <2>1. fails = 0
    BY <1>2, QueueAssumption DEF NamesSound, StateOK, ClientStep, QueueInWait, Arrive,
       EnqueueGet, NoRecord, EnqueuePut, WaitOver, QueueOut, ReadGet, WriteGet, HeadPassed,
       ReadPut, RemoveOut, IonPut, TailGet, TailPut, WriteMetaPut, IodPut, ReplicaUpdate,
       RepGet, RepIon, RepIod, RepCrash, RepPut, StoreDown, Put, Works, Fails
  <2>2. CASE t \notin DOMAIN ion
    BY <1>2, <2>2, NodeIsNew
  <2>3. CASE t \in iod
    BY <1>2, <2>3, NodeIsNew
  <2>4. CASE t \in DOMAIN ion /\ t \notin iod
    <3>1. PICK d \in Client : /\ arrive_time[d] = t
                             /\ pc[d] \in {"tail_get", "tail_put", "md_put", "iod_put"}
      BY <2>1, <2>4 DEF DataFollows
    <3>2. CASE d = c
      BY <1>2, <3>1, <3>2, WriteGoesOn DEF Writes
    <3>3. CASE d # c
      BY <1>2, <3>1, <3>3, OthersAlone DEF NamesSound, OwnState, Writes
    <3> QED BY <3>2, <3>3
  <2> QED BY <2>2, <2>3, <2>4
<1> QED BY <1>1, <1>2 DEF Next, DataFollows, Writes

(* In every schedule, as long as no store operation fails, an io_node that *)
(* is in the store has its data there too, or a write about to put it, for *)
(* any clients: write_queue_out returns early only when something failed.  *)
THEOREM ListedHasData == Spec => []DataFollows
<1>1. Init => DataFollows
  BY DEF Init, DataFollows
<1>2. NamesSound /\ DataFollows /\ [Next]_vars => DataFollows'
  BY DataStep
<1> QED BY <1>1, <1>2, NamesAlwaysSound, PTL DEF Spec
=============================================================================
