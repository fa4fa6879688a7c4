---------------------------- MODULE IoQueue_order ----------------------------
(***************************************************************************)
(* Proofs about the order the I/O queue keeps, for any clients, hosts,     *)
(* ring and failures: as long as nothing of Harm has happened, turns come  *)
(* one by one, a client that has joined keeps its place in the ring, and   *)
(* the list of io_nodes is linked both ways; a ring with room enough never *)
(* fills up first; and, if nothing fails, the turns are those of IoTurns.  *)
(***************************************************************************)
EXTENDS IoQueue_proofs, Iteration, FiniteSetTheorems

-----------------------------------------------------------------------------
(* The ring.  The entries from the head up to the tail are occupied, each  *)
(* by a client that has joined or by one that left when an operation       *)
(* failed; there is room as long as clients and failures are fewer than    *)
(* the entries.                                                            *)

Requester == {c \in Client : Offered[c] # {}}
RingSuffices == Cardinality(Requester) + MaxFail < IO_Q_LEN

Succ(p) == IF p = IO_Q_LEN - 1 THEN 0 ELSE p + 1
Occupied(m) == {p \in Place : IF m.head <= m.tail
                              THEN m.head <= p /\ p < m.tail
                              ELSE m.head <= p \/ p < m.tail}

\* What a record says of the ring, compared with another.
SameRing(m, n) == /\ n.head = m.head /\ n.tail = m.tail
                  /\ n.io_q_node = m.io_q_node
Enters(m, n, e) == /\ n.head = m.head /\ n.tail = Succ(m.tail)
                   /\ n.io_q_node = [m.io_q_node EXCEPT ![m.tail] = e]
Passes(m, n) == /\ n.head = Succ(m.head) /\ n.tail = m.tail
                /\ n.io_q_node = m.io_q_node

\* From its call of queue_in_wait to its return from the I/O.
Requesting(c) == pc[c] \notin {"idle"} \cup Updating

\* Requests can be told apart, from each other and from what they follow.
Apart ==
  /\ \A k \in IO_Type : last[k] <= now
  /\ \A c \in Client : Requesting(c) =>
       c \in Requester /\ 1 <= arrive_time[c] /\ arrive_time[c] <= last[io_type[c]]
  /\ \A c, d \in Client :
       Requesting(c) /\ Requesting(d) /\ Entered(c) = Entered(d) => c = d

Past == \A p \in Place :
          md.io_q_node[p].arrive_time <= last[md.io_q_node[p].io_type]

\* Where the client is in the ring, and what its copy says of the ring.  A copy
\* that is not outdated says more (see Fresh).
Placed(c) == \E p \in Occupied(md) :
               \A q \in Place : md.io_q_node[q] = Entered(c) <=> q = p
Queued(c) ==
  /\ c \in Joined => Placed(c)
  /\ OnTurn(c) => md.io_q_node[md.head] = Entered(c)
  /\ pc[c] \in {"enq_get", "enq_put"} =>
       \A q \in Place : md.io_q_node[q] # Entered(c)
  /\ pc[c] = "enq_put" => \E q \in Place : meta_data[c].io_q_node[q] = Entered(c)
  /\ OnTurn(c) /\ pc[c] # "served" => meta_data[c].head = Succ(md.head)

\* Entries whose clients are gone: each has cost a failure.
Abandoned == {p \in Occupied(md) :
                \A c \in Joined : md.io_q_node[p] # Entered(c)}

InOrder == /\ Apart
           /\ OneAtATime
           /\ exists => /\ Past
                        /\ \A c \in Client : Queued(c)
                        /\ Cardinality(Abandoned) <= fails

LEMMA SuccPlace ==
  ASSUME NEW p \in Place
  PROVE  (p + 1) % IO_Q_LEN = Succ(p) /\ Succ(p) \in Place
  BY QueueAssumption DEF Place, Succ

LEMMA RingType ==
  ASSUME StateOK
  PROVE  /\ md.head \in Place /\ md.tail \in Place
         /\ md.io_q_node \in [Place -> Entry]
         /\ IO_Q_LEN \in Nat \ {0}
  BY QueueAssumption DEF StateOK, Meta_Data

LEMMA OccupiedFinite ==
  ASSUME NEW m
  PROVE  IsFiniteSet(Occupied(m)) /\ Cardinality(Occupied(m)) \in Nat
<1>1. IsFiniteSet(Place)
  BY QueueAssumption, FS_Interval DEF Place
<1> QED BY <1>1, FS_Subset, FS_CardinalityType DEF Occupied

LEMMA OccupiedEnter ==
  ASSUME NEW m, NEW n, NEW e, m.head \in Place, m.tail \in Place,
         Enters(m, n, e), Succ(m.tail) # m.head
  PROVE  m.tail \notin Occupied(m) /\ Occupied(n) = Occupied(m) \cup {m.tail}
<1> DEFINE h == m.head
           t == m.tail
           N == IO_Q_LEN
<1>1. h \in 0 .. N - 1 /\ t \in 0 .. N - 1 /\ N \in Nat \ {0} /\ Place = 0 .. N - 1
  BY QueueAssumption DEF Place
<1>2. n.head = h /\ n.tail = IF t = N - 1 THEN 0 ELSE t + 1
  BY DEF Enters, Succ
<1>3. (IF t = N - 1 THEN 0 ELSE t + 1) # h
  BY DEF Succ
<1> HIDE DEF h, t, N
<1>4. /\ Occupied(m) = {p \in 0 .. N - 1 : IF h <= t THEN h <= p /\ p < t
                                                     ELSE h <= p \/ p < t}
      /\ Occupied(n) = {p \in 0 .. N - 1 : IF h <= n.tail THEN h <= p /\ p < n.tail
                                                     ELSE h <= p \/ p < n.tail}
  BY <1>1, <1>2 DEF Occupied, h, t
<1> QED BY <1>1, <1>2, <1>3, <1>4 DEF t

LEMMA OccupiedPass ==
  ASSUME NEW m, NEW n, m.head \in Occupied(m), m.tail \in Place, Passes(m, n)
  PROVE  Occupied(n) = Occupied(m) \ {m.head}
<1> DEFINE h == m.head
           t == m.tail
           N == IO_Q_LEN
<1>1. h \in 0 .. N - 1 /\ t \in 0 .. N - 1 /\ N \in Nat \ {0} /\ Place = 0 .. N - 1
  BY QueueAssumption DEF Place, Occupied
<1>2. n.tail = t /\ n.head = IF h = N - 1 THEN 0 ELSE h + 1
  BY DEF Passes, Succ
<1> HIDE DEF h, t, N
<1>3. /\ Occupied(m) = {p \in 0 .. N - 1 : IF h <= t THEN h <= p /\ p < t
                                                     ELSE h <= p \/ p < t}
      /\ Occupied(n) = {p \in 0 .. N - 1 : IF n.head <= t THEN n.head <= p /\ p < t
                                                     ELSE n.head <= p \/ p < t}
  BY <1>1, <1>2 DEF Occupied, h, t
<1>4. h # t
  BY <1>1, <1>3 DEF h
<1> QED BY <1>1, <1>2, <1>3, <1>4 DEF h

\* When the next entry would close the ring, all but one are occupied.
LEMMA OccupiedFull ==
  ASSUME NEW m, m.head \in Place, m.tail \in Place, Succ(m.tail) = m.head
  PROVE  Cardinality(Occupied(m)) = IO_Q_LEN - 1
<1>1. /\ IsFiniteSet(Place) /\ m.tail \in Place /\ IO_Q_LEN \in Nat \ {0}
      /\ Cardinality(Place) = IO_Q_LEN
  BY QueueAssumption, FS_Interval DEF Place
<1>2. Occupied(m) = Place \ {m.tail}
  BY <1>1 DEF Occupied, Succ, Place
<1>3. Cardinality(Place \ {m.tail}) = IO_Q_LEN - 1
  BY <1>1, FS_RemoveElement
<1> QED BY <1>2, <1>3

LEMMA SameOccupied ==
  ASSUME NEW m, NEW n, SameRing(m, n) PROVE Occupied(n) = Occupied(m)
  BY DEF SameRing, Occupied

\* A finite set grows by one element at most.
LEMMA GrowsByOne ==
  ASSUME NEW S, IsFiniteSet(S), NEW T, NEW x, T \subseteq S \cup {x}
  PROVE  Cardinality(T) <= Cardinality(S) + 1
<1>1. Cardinality(S) \in Nat
  BY FS_CardinalityType
<1>2. IsFiniteSet(S \cup {x}) /\ Cardinality(S \cup {x}) <= Cardinality(S) + 1
  BY <1>1, FS_AddElement
<1>3. Cardinality(T) <= Cardinality(S \cup {x}) /\ IsFiniteSet(T)
  BY <1>2, FS_Subset
<1>4. Cardinality(T) \in Nat /\ Cardinality(S \cup {x}) \in Nat
  BY <1>2, <1>3, FS_CardinalityType
<1> QED BY <1>1, <1>2, <1>3, <1>4

-----------------------------------------------------------------------------
(* What a step of one client leaves of the order *)

\* A step of client c that takes it to label l, whatever its copy becomes.
Takes(c, l) == /\ pc' = [pc EXCEPT ![c] = l]
               /\ fails <= fails'
               /\ UNCHANGED <<now, request>>
               /\ \A d \in Client \ {c} : meta_data'[d] = meta_data[d]

\* The step has met with a failure.
Failed == fails' = fails + 1

Aside == {"idle"} \cup Updating

\* The other clients are where they were, and everybody's request is the same.
LEMMA TakesRest ==
  ASSUME StateOK, NEW c \in Client, NEW l, Takes(c, l)
  PROVE  /\ pc'[c] = l
         /\ \A d \in Client \ {c} : pc'[d] = pc[d]
         /\ \A d \in Client : Entered(d)' = Entered(d)
         /\ \A d \in Client : arrive_time'[d] = arrive_time[d] /\ io_type'[d] = io_type[d]
         /\ last' = last /\ now' = now
BY DEF Takes, StateOK, request, Entered

LEMMA ApartKept ==
  ASSUME StateOK, Apart, NEW c \in Client, NEW l, Takes(c, l),
         l \in Aside \/ pc[c] \notin Aside
  PROVE  Apart'
<1>1. \A d \in Client : Requesting(d)' => Requesting(d)
  BY TakesRest DEF Requesting, Aside
<1> QED BY <1>1, TakesRest DEF Apart

LEMMA TurnsKept ==
  ASSUME StateOK, OneAtATime, NEW c \in Client, NEW l, Takes(c, l),
         OnTurn(c)' => OnTurn(c)
  PROVE  OneAtATime'
<1>1. \A d \in Client : OnTurn(d)' => OnTurn(d)
  BY TakesRest DEF OnTurn
<1> QED BY <1>1 DEF OneAtATime

\* The clients that joined stay, but for c.
LEMMA JoinedKept ==
  ASSUME StateOK, NEW c \in Client, NEW l, Takes(c, l)
  PROVE  /\ \A d \in Client \ {c} : /\ OnTurn(d)' <=> OnTurn(d)
                                    /\ d \in Joined' <=> d \in Joined
         /\ c \in Joined' <=> l = "wait" \/ OnTurn(c)'
BY TakesRest DEF OnTurn, Joined

-----------------------------------------------------------------------------
(* Steps after which the ring is as it was *)

LEMMA OtherQueued ==
  ASSUME StateOK, NEW c \in Client, NEW l, Takes(c, l), SameRing(md, md'),
         NEW d \in Client \ {c}, Queued(d)
  PROVE  Queued(d)'
<1>1. /\ md'.head = md.head /\ md'.tail = md.tail /\ md'.io_q_node = md.io_q_node
      /\ Occupied(md') = Occupied(md)
  BY SameOccupied DEF SameRing
<1>2. /\ pc'[d] = pc[d] /\ Entered(d)' = Entered(d) /\ meta_data'[d] = meta_data[d]
      /\ OnTurn(d)' <=> OnTurn(d)
      /\ d \in Joined' <=> d \in Joined
  BY TakesRest, JoinedKept DEF Takes
<1>3. Placed(d)' <=> Placed(d)
  BY <1>1, <1>2 DEF Placed
<1> QED BY <1>1, <1>2, <1>3 DEF Queued

\* A client that leaves the ring without its turn costs a failure.
LEMMA AbandonedKept ==
  ASSUME StateOK, InOrder, exists, NEW c \in Client, NEW l, Takes(c, l),
         fails' \in Nat, SameRing(md, md'),
         c \in Joined => c \in Joined' \/ Failed
  PROVE  Cardinality(Abandoned') <= fails'
<1>1. Occupied(md') = Occupied(md) /\ md'.io_q_node = md.io_q_node
  BY SameOccupied DEF SameRing
<1>2. /\ Cardinality(Abandoned) <= fails /\ fails <= fails' /\ fails \in Nat
      /\ c \in Joined => Placed(c)
  BY DEF InOrder, Queued, Takes, StateOK
<1>3. IsFiniteSet(Abandoned) /\ Cardinality(Abandoned) \in Nat
  <2>1. Abandoned \subseteq Occupied(md)
    BY DEF Abandoned
  <2> QED BY <2>1, OccupiedFinite, FS_Subset, FS_CardinalityType
<1>4. CASE c \in Joined => c \in Joined'
  <2>1. Joined \subseteq Joined'
    BY <1>4, JoinedKept DEF Joined
  <2>2. \A d \in Client : Entered(d)' = Entered(d)
    BY TakesRest
  <2>3. Abandoned' \subseteq Abandoned
    BY <1>1, <2>1, <2>2 DEF Abandoned, Joined
  <2>4. Cardinality(Abandoned') <= Cardinality(Abandoned) /\ Cardinality(Abandoned') \in Nat
    BY <1>3, <2>3, FS_Subset, FS_CardinalityType
  <2> QED BY <1>2, <1>3, <2>4
<1>5. CASE c \in Joined /\ Failed
  <2>1. PICK p \in Occupied(md) : \A q \in Place : md.io_q_node[q] = Entered(c) <=> q = p
    BY <1>2, <1>5 DEF Placed
  <2>2. \A d \in Joined \ {c} : d \in Joined'
    BY JoinedKept DEF Joined
  <2>3. \A d \in Client : Entered(d)' = Entered(d)
    BY TakesRest
  <2>4. Abandoned' \subseteq Abandoned \cup {p}
    BY <1>1, <2>1, <2>2, <2>3 DEF Abandoned, Occupied, Joined
  <2>5. Cardinality(Abandoned') <= Cardinality(Abandoned) + 1
    BY <1>3, <2>4, GrowsByOne
  <2>6. IsFiniteSet(Abandoned \cup {p})
    BY <1>3, FS_AddElement
  <2>7. Cardinality(Abandoned') \in Nat
    BY <2>4, <2>6, FS_Subset, FS_CardinalityType
  <2> QED BY <1>2, <1>3, <1>5, <2>5, <2>7 DEF Failed
<1> QED BY <1>4, <1>5

LEMMA Stays ==
  ASSUME StateOK, InOrder, NEW c \in Client, NEW l, Takes(c, l), fails' \in Nat,
         l \in Aside \/ pc[c] \notin Aside, OneAtATime',
         exists' => exists /\ SameRing(md, md') /\ Queued(c)',
         exists' /\ c \in Joined => c \in Joined' \/ Failed
  PROVE  InOrder'
<1>1. Apart'
  BY ApartKept DEF InOrder
<1>2. ASSUME exists' PROVE Past'
  <2>1. md'.io_q_node = md.io_q_node /\ last' = last
    BY <1>2, TakesRest DEF SameRing
  <2> QED BY <1>2, <2>1 DEF InOrder, Past
<1>3. ASSUME exists' PROVE \A d \in Client : Queued(d)'
  BY <1>3, OtherQueued DEF InOrder
<1>4. ASSUME exists' PROVE Cardinality(Abandoned') <= fails'
  BY <1>4, AbandonedKept
<1>5. OneAtATime' /\ (Cardinality(Abandoned))' = Cardinality(Abandoned')
  OBVIOUS
<1> QED BY <1>1, <1>2, <1>3, <1>4, <1>5 DEF InOrder

\* A client that returns, or puts the data of its write.
LEMMA StepsAside ==
  ASSUME StateOK, InOrder, NEW c \in Client, NEW l, Takes(c, l), fails' \in Nat,
         l = "idle" \/ (l = "iod_put" /\ pc[c] \notin Aside),
         exists' => exists /\ SameRing(md, md'),
         exists' /\ c \in Joined => Failed
  PROVE  InOrder'
<1>1. pc'[c] = l /\ (~OnTurn(c))' /\ (c \notin Joined)'
  BY TakesRest DEF OnTurn, Joined, Holding, Updating
<1>2. OneAtATime'
  BY <1>1, TurnsKept DEF InOrder
<1>3. Queued(c)'
  BY <1>1 DEF Queued, Updating
<1> QED BY <1>2, <1>3, Stays DEF Aside

\* A client that goes on with its turn.
LEMMA TurnGoesOn ==
  ASSUME StateOK, InOrder, NEW c \in Client, NEW l, Takes(c, l), fails' \in Nat,
         l \in {"read_put", "ion_put", "tail_get", "tail_put", "md_put"}, OnTurn(c),
         UNCHANGED <<exists, md>>, exists => meta_data'[c].head = Succ(md.head)
  PROVE  InOrder'
<1>1. pc'[c] = l /\ OnTurn(c)' /\ (c \in Joined)' /\ l \notin Updating
  BY TakesRest DEF OnTurn, Joined, Holding, Updating
<1>2. OneAtATime' /\ pc[c] \notin Aside
  BY TurnsKept DEF InOrder, OnTurn, Aside, Holding, Updating
<1>3. ASSUME exists PROVE Queued(c)'
  <2>1. c \in Joined /\ Queued(c)
    BY <1>3 DEF InOrder, Joined
  <2>2. Placed(c) /\ md.io_q_node[md.head] = Entered(c)
    BY <2>1 DEF Queued
  <2>3. Entered(c)' = Entered(c)
    BY TakesRest
  <2>4. Placed(c)'
    BY <2>2, <2>3 DEF Placed
  <2> QED BY <1>1, <1>3, <2>2, <2>3, <2>4 DEF Queued
<1>4. SameRing(md, md')
  BY DEF SameRing
<1> QED BY <1>1, <1>2, <1>3, <1>4, Stays

\* A client whose turn it is: the entry at the head is its own, and nobody else's.
LEMMA TurnBegins ==
  ASSUME StateOK, InOrder, NEW c \in Client, Takes(c, "served"), fails' \in Nat,
         pc[c] = "wait", exists, UNCHANGED <<exists, md>>,
         md.io_q_node[md.head] = Entered(c)
  PROVE  InOrder'
<1>1. pc'[c] = "served" /\ (c \in Joined)' /\ "served" \notin Holding \cup Aside
  BY TakesRest DEF OnTurn, Joined, Holding, Updating, Aside
<1>2. OneAtATime'
  <2>1. \A d \in Client : OnTurn(d) => Requesting(d) /\ Entered(d) = Entered(c)
    BY DEF InOrder, Queued, Requesting, OnTurn, Holding, Updating
  <2>2. Requesting(c)
    BY DEF Requesting, Updating
  <2>3. \A d \in Client : OnTurn(d) => d = c
    BY <2>1, <2>2 DEF InOrder, Apart
  <2> QED BY <2>3, JoinedKept DEF OneAtATime
<1>3. Queued(c)'
  <2>1. c \in Joined /\ Queued(c)
    BY DEF InOrder, Joined
  <2>2. Placed(c)
    BY <2>1 DEF Queued
  <2>3. Entered(c)' = Entered(c)
    BY TakesRest
  <2>4. Placed(c)'
    BY <2>2, <2>3 DEF Placed
  <2> QED BY <1>1, <2>3, <2>4 DEF Queued, Aside, Holding
<1>4. SameRing(md, md') /\ pc[c] \notin Aside
  BY DEF SameRing, Aside, Updating
<1> QED BY <1>1, <1>2, <1>3, <1>4, Stays

\* A host that updates its replica.
LEMMA UpdateGoesOn ==
  ASSUME StateOK, InOrder, NEW c \in Client, NEW l \in Updating, Takes(c, l),
         fails' \in Nat, pc[c] \in Aside, UNCHANGED <<exists, md>>
  PROVE  InOrder'
<1>1. pc'[c] = l /\ (~OnTurn(c))' /\ (c \notin Joined)' /\ c \notin Joined
  BY TakesRest DEF OnTurn, Joined, Holding, Updating, Aside
<1>2. OneAtATime' /\ l \in Aside
  BY <1>1, TurnsKept DEF InOrder, Aside
<1>3. ASSUME exists PROVE Queued(c)'
  BY <1>1, <1>3 DEF Queued, Updating
<1>4. SameRing(md, md')
  BY DEF SameRing
<1> QED BY <1>1, <1>2, <1>3, <1>4, Stays

\* A client that has read the record and entered its request in the copy.
LEMMA EntersCopy ==
  ASSUME StateOK, InOrder, NEW c \in Client, Takes(c, "enq_put"), fails' \in Nat,
         pc[c] = "enq_get", exists, UNCHANGED <<exists, md>>,
         \E q \in Place : meta_data'[c].io_q_node[q] = Entered(c)
  PROVE  InOrder'
<1>1. pc'[c] = "enq_put" /\ (~OnTurn(c))' /\ (c \notin Joined)' /\ c \notin Joined
  BY TakesRest DEF OnTurn, Joined, Holding, Updating, Aside
<1>2. OneAtATime' /\ pc[c] \notin Aside
  BY <1>1, TurnsKept DEF InOrder, Aside, Updating
<1>3. Queued(c)'
  <2>1. Queued(c)
    BY DEF InOrder
  <2>2. \A q \in Place : md.io_q_node[q] # Entered(c)
    BY <2>1 DEF Queued
  <2>3. Entered(c)' = Entered(c)
    BY TakesRest
  <2> QED BY <1>1, <2>2, <2>3 DEF Queued, Updating
<1>4. SameRing(md, md')
  BY DEF SameRing
<1> QED BY <1>1, <1>2, <1>3, <1>4, Stays

-----------------------------------------------------------------------------
(* Steps that put the record *)

\* An occupied entry is a joined client's or abandoned, so there is one more free
\* entry when somebody is about to join.
LEMMA NotFull ==
  ASSUME StateOK, InOrder, exists, RingSuffices, NEW c \in Client, pc[c] = "enq_put"
  PROVE  Succ(md.tail) # md.head
<1> DEFINE S == Occupied(md) \ Abandoned
           at == [p \in S |-> CHOOSE d \in Joined : md.io_q_node[p] = Entered(d)]
<1>1. /\ IsFiniteSet(Occupied(md)) /\ Cardinality(Occupied(md)) \in Nat
      /\ Abandoned \subseteq Occupied(md)
  BY OccupiedFinite DEF Abandoned
<1>2. IsFiniteSet(Abandoned) /\ Cardinality(Abandoned) \in Nat
  BY <1>1, FS_Subset, FS_CardinalityType
<1>3. IsFiniteSet(S) /\ Cardinality(S) = Cardinality(Occupied(md)) - Cardinality(Abandoned)
  <2>1. Occupied(md) \cap Abandoned = Abandoned
    BY <1>1
  <2>2. /\ IsFiniteSet(Occupied(md) \ Abandoned)
        /\ Cardinality(Occupied(md) \ Abandoned) =
             Cardinality(Occupied(md)) - Cardinality(Occupied(md) \cap Abandoned)
    BY <1>1, FS_Difference
  <2> QED BY <2>1, <2>2
<1>4. /\ IsFiniteSet(Requester) /\ c \in Requester /\ Joined \subseteq Requester \ {c}
  <2>1. \A d \in Client : d \in Joined \/ d = c => Requesting(d)
    BY DEF Joined, OnTurn, Requesting, Holding, Updating
  <2>2. c \notin Joined
    BY DEF Joined, OnTurn, Updating
  <2>3. IsFiniteSet(Requester)
    BY QueueAssumption, FS_Subset DEF Requester
  <2> QED BY <2>1, <2>2, <2>3 DEF InOrder, Apart, Joined
<1>5. Cardinality(Joined) \in Nat /\ Cardinality(Joined) <= Cardinality(Requester) - 1
      /\ IsFiniteSet(Joined)
  <2>1. /\ IsFiniteSet(Requester \ {c})
        /\ Cardinality(Requester \ {c}) = Cardinality(Requester) - 1
    BY <1>4, FS_RemoveElement
  <2>2. IsFiniteSet(Joined) /\ Cardinality(Joined) <= Cardinality(Requester \ {c})
    BY <1>4, <2>1, FS_Subset
  <2> QED BY <2>1, <2>2, FS_CardinalityType
<1>6. Cardinality(S) <= Cardinality(Joined)
  <2>1. \A p \in S : \E d \in Joined : md.io_q_node[p] = Entered(d)
    BY DEF Abandoned
  <2>2. \A p \in S : at[p] \in Joined /\ md.io_q_node[p] = Entered(at[p])
    BY <2>1
  <2>3. ASSUME NEW p \in S, NEW q \in S, at[p] = at[q] PROVE p = q
    <3>1. Placed(at[p]) /\ p \in Place /\ q \in Place
      BY <2>2 DEF InOrder, Queued, Joined, Occupied
    <3> QED BY <2>2, <2>3, <3>1 DEF Placed
  <2>4. at \in Injection(S, Joined)
    BY <2>2, <2>3 DEF Injection, IsInjective
  <2> QED BY <1>5, <2>4, FS_Injection
<1>7. Cardinality(Abandoned) <= MaxFail /\ fails <= MaxFail
  BY <1>2, QueueAssumption DEF InOrder, StateOK
<1>8. Cardinality(Requester) \in Nat /\ MaxFail \in Nat /\ IO_Q_LEN \in Nat
  BY <1>4, FS_CardinalityType, QueueAssumption
<1>9. Cardinality(Occupied(md)) < IO_Q_LEN - 1
  <2>1. Cardinality(S) \in Nat
    BY <1>3, FS_CardinalityType
  <2> HIDE DEF S
  <2> QED BY <1>1, <1>2, <1>3, <1>5, <1>6, <1>7, <1>8, <2>1 DEF RingSuffices
<1> QED BY <1>1, <1>8, <1>9, OccupiedFull, RingType

\* What a put leaves of the place of a client that does not take part.
LEMMA OtherPlaced ==
  ASSUME StateOK, Apart, NEW c \in Client, NEW l, Takes(c, l), Requesting(c),
         NEW d \in Client \ {c}, Queued(d),
         NEW put \in Place,
         \A q \in Place : \/ md'.io_q_node[q] = md.io_q_node[q]
                          \/ q = put /\ md'.io_q_node[q] = Entered(c),
         put \notin Occupied(md) \/ md'.io_q_node = md.io_q_node,
         Occupied(md') \subseteq Place,
         \A p \in Occupied(md) : \/ p \in Occupied(md')
                                 \/ md.io_q_node[p] = Entered(c),
         OnTurn(d) => md'.head = md.head
  PROVE  Queued(d)'
<1>1. /\ pc'[d] = pc[d] /\ Entered(d)' = Entered(d)
      /\ OnTurn(d)' <=> OnTurn(d)
      /\ d \in Joined' <=> d \in Joined
  BY TakesRest, JoinedKept
<1>2. Requesting(d) => Entered(d) # Entered(c)
  BY DEF Apart
<1>3. d \in Joined => Requesting(d)
  BY DEF Joined, OnTurn, Requesting, Holding, Updating
<1>4. ASSUME Placed(d), d \in Joined
      PROVE  /\ Placed(d)'
             /\ \A q \in Place : md.io_q_node[q] = Entered(d) =>
                  md'.io_q_node[q] = Entered(d)
  <2>1. PICK p \in Occupied(md) : \A q \in Place : md.io_q_node[q] = Entered(d) <=> q = p
    BY <1>4 DEF Placed
  <2>2. p \in Place /\ md.io_q_node[p] = Entered(d)
    BY <2>1 DEF Occupied
  <2>3. p \in Occupied(md')
    BY <1>2, <1>3, <1>4, <2>2
  <2>4. md'.io_q_node[p] = Entered(d)
    BY <2>2
  <2>5. \A q \in Place : md'.io_q_node[q] = Entered(d) <=> q = p
    BY <1>2, <1>3, <1>4, <2>1, <2>4
  <2>6. Placed(d)'
    BY <1>1, <2>3, <2>5 DEF Placed
  <2> QED BY <2>1, <2>4, <2>6
<1>5. d \in Joined => Placed(d) /\ Placed(d)'
  BY <1>4 DEF Queued
<1>6. OnTurn(d) => md'.io_q_node[md'.head] = Entered(d)
  <2> HAVE OnTurn(d)
  <2>1. d \in Joined /\ md.head \in Place /\ md.io_q_node[md.head] = Entered(d)
    BY RingType DEF Joined, Queued
  <2> QED BY <1>4, <1>5, <2>1
<1>7. pc[d] \in {"enq_get", "enq_put"} =>
        \A q \in Place : md'.io_q_node[q] # Entered(d)
  BY <1>2 DEF Queued, Requesting, Updating
<1>8. meta_data'[d] = meta_data[d] /\ (OnTurn(d) => Succ(md'.head) = Succ(md.head))
  BY DEF Takes
<1> QED BY <1>1, <1>5, <1>6, <1>7, <1>8 DEF Queued

\* The md_put of queue_in_wait, which may be reported as failed.
LEMMA JoinsRing ==
  ASSUME StateOK, InOrder, Succ(md.tail) # md.head, NEW c \in Client, NEW l, Takes(c, l),
         fails' \in Nat, pc[c] = "enq_put", exists, exists',
         Enters(md, md', Entered(c)),
         l = "wait" \/ (l = "idle" /\ Failed)
  PROVE  InOrder'
<1>1. /\ md.head \in Place /\ md.tail \in Place /\ md.io_q_node \in [Place -> Entry]
      /\ md.tail \notin Occupied(md)
      /\ Occupied(md') = Occupied(md) \cup {md.tail}
      /\ md'.head = md.head /\ md'.io_q_node = [md.io_q_node EXCEPT ![md.tail] = Entered(c)]
  BY RingType, OccupiedEnter DEF Enters
<1>2. /\ Requesting(c) /\ pc'[c] = l /\ (~OnTurn(c))' /\ c \notin Joined
      /\ c \in Joined' <=> l = "wait"
  BY TakesRest, JoinedKept DEF Requesting, OnTurn, Joined, Holding, Updating
<1>3. Apart'
  BY ApartKept DEF InOrder, Aside, Updating
<1>4. OneAtATime'
  BY <1>2, TurnsKept DEF InOrder
<1>5. Past'
  <2>1. \A p \in Place : \/ md'.io_q_node[p] = md.io_q_node[p]
                         \/ md'.io_q_node[p] = Entered(c)
    BY <1>1
  <2>2. Entered(c).arrive_time <= last[Entered(c).io_type]
    BY <1>2 DEF InOrder, Apart, Entered
  <2> QED BY <2>1, <2>2, TakesRest DEF InOrder, Past
<1>6. ASSUME NEW d \in Client \ {c} PROVE Queued(d)'
  <2>1. \A q \in Place : \/ md'.io_q_node[q] = md.io_q_node[q]
                         \/ q = md.tail /\ md'.io_q_node[q] = Entered(c)
    BY <1>1
  <2>2. Queued(d) /\ Apart
    BY DEF InOrder
  <2>3. Occupied(md') \subseteq Place
    BY DEF Occupied
  <2> QED BY <1>1, <1>2, <2>1, <2>2, <2>3, OtherPlaced
<1>7. Queued(c)'
  <2>1. \A q \in Place : md.io_q_node[q] # Entered(c)
    BY DEF InOrder, Queued
  <2>2. md.tail \in Occupied(md') /\ \A q \in Place : md'.io_q_node[q] = Entered(c) <=> q = md.tail
    BY <1>1, <2>1
  <2>3. Entered(c)' = Entered(c)
    BY TakesRest
  <2>4. Placed(c)'
    BY <2>2, <2>3 DEF Placed
  <2> QED BY <1>2, <2>4 DEF Queued, Updating
<1>8. Cardinality(Abandoned') <= fails'
  <2>1. /\ Cardinality(Abandoned) <= fails /\ fails <= fails' /\ fails \in Nat
        /\ \A d \in Client : Entered(d)' = Entered(d)
        /\ \A d \in Client \ {c} : d \in Joined' <=> d \in Joined
    <3>1. Cardinality(Abandoned) <= fails /\ fails <= fails' /\ fails \in Nat
      BY DEF InOrder, Takes, StateOK
    <3> QED BY <3>1, TakesRest, JoinedKept
  <2>2. IsFiniteSet(Abandoned) /\ Cardinality(Abandoned) \in Nat
    <3>1. Abandoned \subseteq Occupied(md)
      BY DEF Abandoned
    <3> QED BY <3>1, OccupiedFinite, FS_Subset, FS_CardinalityType
  <2>3. \A p \in Occupied(md) : md'.io_q_node[p] = md.io_q_node[p]
    BY <1>1 DEF Occupied
  <2>4. Joined \subseteq Joined' /\ Joined \subseteq Client
    BY <1>2, <2>1 DEF Joined
  <2>5. Abandoned' \subseteq Abandoned \cup {md.tail}
    BY <1>1, <2>1, <2>3, <2>4 DEF Abandoned
  <2>6. CASE l = "wait"
    <3>1. md.tail \notin Abandoned'
      BY <1>1, <1>2, <2>1, <2>6 DEF Abandoned
    <3>2. Abandoned' \subseteq Abandoned
      BY <2>5, <3>1
    <3>3. Cardinality(Abandoned') <= Cardinality(Abandoned) /\ Cardinality(Abandoned') \in Nat
      BY <2>2, <3>2, FS_Subset, FS_CardinalityType
    <3> QED BY <2>1, <2>2, <3>3
  <2>7. CASE Failed
    <3>1. Cardinality(Abandoned') <= Cardinality(Abandoned) + 1
      BY <2>2, <2>5, GrowsByOne
    <3>2. Cardinality(Abandoned') \in Nat
      BY <2>2, <2>5, FS_AddElement, FS_Subset, FS_CardinalityType
    <3> QED BY <2>1, <2>2, <2>7, <3>1, <3>2 DEF Failed
  <2> QED BY <2>6, <2>7
<1>9. (Cardinality(Abandoned))' = Cardinality(Abandoned')
  OBVIOUS
<1> QED BY <1>3, <1>4, <1>5, <1>6, <1>7, <1>8, <1>9 DEF InOrder

\* The md_put that ends a turn: the entry at the head is the client's own.
LEMMA LeavesRing ==
  ASSUME StateOK, InOrder, NEW c \in Client, NEW l, Takes(c, l), fails' \in Nat,
         OnTurn(c), exists, exists', Passes(md, md'),
         l \in {"idle", "iod_put"}
  PROVE  InOrder'
<1>1. /\ c \in Joined /\ md.head \in Place
      /\ md.io_q_node[md.head] = Entered(c)
      /\ md'.io_q_node = md.io_q_node
      /\ \A q \in Place : md.io_q_node[q] = Entered(c) <=> q = md.head
      /\ md.head \in Occupied(md)
      /\ md.tail \in Place
  BY RingType DEF InOrder, Queued, Joined, Placed, Passes
<1>2. Occupied(md') = Occupied(md) \ {md.head}
  BY <1>1, OccupiedPass
<1>3. /\ Requesting(c) /\ pc[c] \notin Aside /\ pc'[c] = l /\ (~OnTurn(c))'
      /\ (c \notin Joined)'
  BY TakesRest DEF Requesting, OnTurn, Joined, Holding, Updating, Aside
<1>4. Apart'
  BY <1>3, ApartKept DEF InOrder
<1>5. OneAtATime'
  BY <1>3, TurnsKept DEF InOrder
<1>6. Past'
  BY <1>1, TakesRest DEF InOrder, Past
<1>7. ASSUME NEW d \in Client \ {c} PROVE Queued(d)'
  <2>1. Queued(d) /\ Apart /\ ~OnTurn(d)
    BY DEF InOrder, OneAtATime
  <2>2. Occupied(md') \subseteq Place
    BY DEF Occupied
  <2>3. \A p \in Occupied(md) : \/ p \in Occupied(md')
                                \/ md.io_q_node[p] = Entered(c)
    BY <1>1, <1>2
  <2> QED BY <1>1, <1>3, <2>1, <2>2, <2>3, OtherPlaced
<1>8. Queued(c)'
  BY <1>3 DEF Queued, Updating
<1>9. Cardinality(Abandoned') <= fails'
  <2>1. /\ Cardinality(Abandoned) <= fails /\ fails <= fails' /\ fails \in Nat
        /\ \A d \in Client : Entered(d)' = Entered(d)
        /\ \A d \in Client \ {c} : d \in Joined' <=> d \in Joined
    <3>1. Cardinality(Abandoned) <= fails /\ fails <= fails' /\ fails \in Nat
      BY DEF InOrder, Takes, StateOK
    <3> QED BY <3>1, TakesRest, JoinedKept
  <2>2. IsFiniteSet(Abandoned) /\ Cardinality(Abandoned) \in Nat
    <3>1. Abandoned \subseteq Occupied(md)
      BY DEF Abandoned
    <3> QED BY <3>1, OccupiedFinite, FS_Subset, FS_CardinalityType
  <2>3. Joined \subseteq Client
    BY DEF Joined
  <2>4. \A p \in Occupied(md') : p \in Place /\ md.io_q_node[p] # Entered(c)
    BY <1>1, <1>2 DEF Occupied
  <2>5. Abandoned' \subseteq Abandoned
    BY <1>1, <1>2, <2>1, <2>3, <2>4 DEF Abandoned
  <2>6. Cardinality(Abandoned') <= Cardinality(Abandoned) /\ Cardinality(Abandoned') \in Nat
    BY <2>2, <2>5, FS_Subset, FS_CardinalityType
  <2> QED BY <2>1, <2>2, <2>6
<1>10. (Cardinality(Abandoned))' = Cardinality(Abandoned')
  OBVIOUS
<1> QED BY <1>4, <1>5, <1>6, <1>7, <1>8, <1>9, <1>10 DEF InOrder

-----------------------------------------------------------------------------
(* Arrivals *)

\* A request can be told from those before it, and takes nobody's turn.
LEMMA Arrival ==
  ASSUME StateOK, Apart, NEW c \in Client, Arrive(c), ~ArrivesAlike(c)
  PROVE  /\ Apart'
         /\ \E k \in IO_Type :
              /\ last[k] < now /\ io_type'[c] = k /\ arrive_time'[c] = now
              /\ Entered(c)' = [io_type |-> k, arrive_time |-> now]
         /\ pc'[c] = "enq_get"
         /\ \A j \in IO_Type : last[j] \in Nat /\ last'[j] \in Nat /\ last[j] <= last'[j]
         /\ \A d \in Client \ {c} : /\ pc'[d] = pc[d] /\ io_type'[d] = io_type[d]
                                   /\ arrive_time'[d] = arrive_time[d]
                                   /\ meta_data'[d] = meta_data[d]
                                   /\ Entered(d)' = Entered(d)
         /\ \A d \in Client : OnTurn(d)' <=> OnTurn(d)
         /\ Joined' = Joined /\ Joined \subseteq Client \ {c}
         /\ UNCHANGED <<fails, exists, md, ion, iod, meta_data, io_node1, io_node_ptr>>
<1>1. PICK k \in Offered[c] : /\ last[k] < now
                              /\ io_type' = [io_type EXCEPT ![c] = k]
                              /\ last' = [last EXCEPT ![k] = now]
  <2>1. PICK k \in Offered[c] : /\ io_type' = [io_type EXCEPT ![c] = k]
                                /\ last' = [last EXCEPT ![k] = now]
    BY DEF Arrive
  <2>2. k \in IO_Type /\ io_type'[c] = k
    BY <2>1, QueueAssumption DEF StateOK
  <2>3. last[k] # now
    BY <2>2 DEF ArrivesAlike, Arrive, StateOK
  <2>4. last[k] \in Nat /\ now \in Nat /\ last[k] <= now
    BY <2>2, QueueAssumption DEF StateOK, Apart
  <2>5. last[k] < now
    BY <2>3, <2>4
  <2> QED BY <2>1, <2>5
<1>2. /\ k \in IO_Type /\ io_type'[c] = k /\ arrive_time'[c] = now /\ pc'[c] = "enq_get"
      /\ now \in Nat /\ now > 0 /\ now' = now /\ pc[c] = "idle"
      /\ last'[k] = now /\ \A j \in IO_Type \ {k} : last'[j] = last[j]
      /\ \A j \in IO_Type : last[j] \in Nat /\ last[j] <= last'[j] /\ last'[j] <= now
      /\ c \in Requester
  <2>1. k \in IO_Type /\ c \in Requester
    BY <1>1, QueueAssumption DEF Requester
  <2>2. \A j \in IO_Type : last[j] \in Nat /\ last[j] <= now
    BY QueueAssumption DEF StateOK, Apart
  <2>3. now \in Nat /\ now > 0 /\ now' = now /\ pc[c] = "idle"
    BY QueueAssumption DEF Arrive, StateOK
  <2>4. io_type'[c] = k /\ arrive_time'[c] = now /\ pc'[c] = "enq_get"
    BY <1>1 DEF Arrive, StateOK
  <2>5. last'[k] = now /\ \A j \in IO_Type \ {k} : last'[j] = last[j]
    BY <1>1, <2>1 DEF StateOK
  <2> QED BY <2>1, <2>2, <2>3, <2>4, <2>5
<1>3. \A d \in Client \ {c} : /\ pc'[d] = pc[d] /\ io_type'[d] = io_type[d]
                              /\ arrive_time'[d] = arrive_time[d]
                              /\ meta_data'[d] = meta_data[d]
                              /\ io_type[d] \in IO_Type /\ arrive_time[d] \in Int
  BY <1>1, QueueAssumption DEF Arrive, StateOK, copies, Time, Empty
<1>4. UNCHANGED <<fails, exists, md, ion, iod, meta_data, io_node1, io_node_ptr>>
  BY DEF Arrive, store, copies
<1>5. /\ \A d \in Client \ {c} : Entered(d)' = Entered(d)
      /\ Entered(c)' = [io_type |-> k, arrive_time |-> now]
  BY <1>2, <1>3 DEF Entered
<1>6. \A d \in Client \ {c} : Requesting(d) => Entered(d) # Entered(c)'
  <2> TAKE d \in Client \ {c}
  <2> HAVE Requesting(d)
  <2>1. arrive_time[d] <= last[io_type[d]]
    BY DEF Apart
  <2>2. ~(io_type[d] = k /\ arrive_time[d] = now)
    BY <1>1, <1>2, <1>3, <2>1
  <2> QED BY <1>5, <2>2 DEF Entered
<1>7. /\ \A d \in Client \ {c} : Requesting(d)' <=> Requesting(d)
      /\ \A d \in Client : OnTurn(d)' <=> OnTurn(d)
      /\ Joined' = Joined /\ Joined \subseteq Client \ {c}
  BY <1>2, <1>3 DEF Requesting, OnTurn, Joined, Holding, Updating
<1>8. Apart'
  <2>1. \A d \in Client : (Requesting(d) =>
          d \in Requester /\ 1 <= arrive_time[d] /\ arrive_time[d] <= last[io_type[d]])'
    BY <1>2, <1>3, <1>7 DEF Apart
  <2>2. \A d, e \in Client :
          (Requesting(d) /\ Requesting(e) /\ Entered(d) = Entered(e) => d = e)'
    BY <1>5, <1>6, <1>7 DEF Apart
  <2> QED BY <1>2, <2>1, <2>2 DEF Apart
<1> QED BY <1>1, <1>2, <1>3, <1>4, <1>5, <1>7, <1>8

\* It is not in the ring yet.
LEMMA ArrivesApart ==
  ASSUME StateOK, InOrder, NEW c \in Client, Arrive(c), ~ArrivesAlike(c)
  PROVE  InOrder'
<1>1. PICK k \in IO_Type : /\ last[k] < now
                           /\ Entered(c)' = [io_type |-> k, arrive_time |-> now]
  BY Arrival DEF InOrder
<1>2. /\ pc'[c] = "enq_get"
      /\ \A j \in IO_Type : last[j] \in Nat /\ last'[j] \in Nat /\ last[j] <= last'[j]
  BY Arrival DEF InOrder
<1>3. /\ \A d \in Client \ {c} : /\ pc'[d] = pc[d] /\ meta_data'[d] = meta_data[d]
                                /\ Entered(d)' = Entered(d)
      /\ \A d \in Client : OnTurn(d)' <=> OnTurn(d)
      /\ Joined' = Joined /\ Joined \subseteq Client \ {c}
  BY Arrival DEF InOrder
<1>4. UNCHANGED <<md, exists, fails>> /\ now \in Nat
  BY QueueAssumption DEF Arrive, store, StateOK
<1>5. Apart'
  BY Arrival DEF InOrder
<1>6. OneAtATime'
  BY <1>3 DEF InOrder, OneAtATime
<1>7. ASSUME exists
      PROVE  Past' /\ (\A d \in Client : Queued(d)') /\ Cardinality(Abandoned') <= fails'
  <2>1. \A p \in Place : md.io_q_node[p] \in Entry
    BY RingType
  <2>2. Past'
    BY <1>2, <1>4, <1>7, <2>1, QueueAssumption DEF InOrder, Past, Entry, Time, Empty
  <2>3. \A d \in Client \ {c} : Queued(d)'
    <3> TAKE d \in Client \ {c}
    <3>1. Queued(d)
      BY <1>7 DEF InOrder
    <3>2. /\ pc'[d] = pc[d] /\ meta_data'[d] = meta_data[d] /\ md' = md
          /\ Entered(d)' = Entered(d) /\ Joined' = Joined
          /\ OnTurn(d)' <=> OnTurn(d)
      BY <1>3, <1>4
    <3>3. Placed(d)' <=> Placed(d)
      BY <3>2 DEF Placed
    <3> QED BY <3>1, <3>2, <3>3 DEF Queued
  <2>4. \A q \in Place : md.io_q_node[q] # Entered(c)'
    <3> TAKE q \in Place
    <3> SUFFICES ASSUME md.io_q_node[q] = Entered(c)' PROVE FALSE
      OBVIOUS
    <3>1. md.io_q_node[q].io_type = k /\ md.io_q_node[q].arrive_time = now
      BY <1>1
    <3>2. md.io_q_node[q].arrive_time <= last[md.io_q_node[q].io_type]
      BY <1>7 DEF InOrder, Past
    <3> QED BY <1>1, <1>2, <1>4, <3>1, <3>2
  <2>5. Queued(c)'
    BY <1>2, <1>4, <2>4 DEF Queued, Joined, OnTurn, Holding, Updating
  <2>6. Abandoned' = Abandoned
    BY <1>3, <1>4 DEF Abandoned
  <2> QED BY <1>4, <1>7, <2>2, <2>3, <2>5, <2>6 DEF InOrder
<1>8. (Cardinality(Abandoned))' = Cardinality(Abandoned')
  OBVIOUS
<1> QED BY <1>4, <1>5, <1>6, <1>7, <1>8 DEF InOrder

-----------------------------------------------------------------------------
(* The steps of io_queue.c *)

LEMMA GotoTakes ==
  ASSUME StateOK, NEW c \in Client, NEW from, NEW to, Goto(c, from, to),
         Works \/ Fails,
         UNCHANGED meta_data \/ \E m : meta_data' = [meta_data EXCEPT ![c] = m]
  PROVE  /\ pc[c] = from /\ Takes(c, to) /\ fails' \in Nat
         /\ Failed \/ Works
<1>1. fails' \in Nat /\ fails <= fails'
  BY QueueAssumption DEF StateOK, Works, Fails
<1>2. Failed \/ Works
  BY DEF Fails, Failed
<1>3. \A d \in Client \ {c} : meta_data'[d] = meta_data[d]
  BY DEF StateOK
<1> QED BY <1>1, <1>2, <1>3 DEF Goto, Takes

LEMMA PutTakes ==
  ASSUME StateOK, NEW c \in Client, NEW from, NEW to, Put(c, from, to),
         UNCHANGED meta_data \/ \E m : meta_data' = [meta_data EXCEPT ![c] = m]
  PROVE  /\ pc[c] = from /\ fails' \in Nat
         /\ \/ Takes(c, to)
            \/ Takes(c, "idle") /\ Failed
<1>1. CASE Goto(c, from, to) /\ Works
  BY <1>1, GotoTakes
<1>2. CASE Goto(c, from, "idle") /\ Fails
  BY <1>2, GotoTakes DEF Fails, Failed
<1> QED BY <1>1, <1>2 DEF Put

\* A step after which nothing of Harm has happened.
LEMMA Harmless ==
  ASSUME NEW c \in Client, ClientStep(c), harm' = {}
  PROVE  /\ harm = {}
         /\ c \in stale => UNCHANGED <<exists, md>>
         /\ ~ArrivesAlike(c) /\ ~Fills(c)
  BY DEF ClientStep, Remembered, Harm, Undoes, Touched

\* The copy queue_in_wait puts is not outdated, or its put is no news: and that
\* cannot be, as its request is new.
LEMMA FreshEnqueue ==
  ASSUME StateOK, Fresh, InOrder, NEW c \in Client, EnqueuePut(c), ~Fills(c),
         c \in stale => UNCHANGED <<exists, md>>
  PROVE  exists /\ Enters(md, md', Entered(c)) /\ Succ(md.tail) # md.head
<1>1. pc[c] = "enq_put" /\ md' = meta_data[c] /\ exists'
  BY DEF EnqueuePut, PutMeta, Put, Goto
<1>2. c \notin stale
  <2> SUFFICES ASSUME c \in stale PROVE FALSE
    OBVIOUS
  <2>1. exists /\ md = meta_data[c]
    BY <1>1
  <2> QED BY <1>1, <2>1 DEF InOrder, Queued
<1>3. exists /\ md' = AsEntered(c, md)
  BY <1>1, <1>2 DEF Fresh, CopyOf, Holding
<1>4. /\ md'.head = md.head /\ md'.tail = Succ(md.tail) /\ md.tail \in Place
      /\ md'.io_q_node = [md.io_q_node EXCEPT ![md.tail] = Entered(c)]
  BY <1>3, RingType, SuccPlace DEF StateOK, Meta_Data, AsEntered
<1>5. md'.io_q_node[md.tail] = Entered(c) /\ md.io_q_node[md.tail] # Entered(c)
  BY <1>1, <1>3, <1>4, RingType DEF InOrder, Queued
<1>6. Touched
  BY <1>5 DEF Touched
<1> QED BY <1>1, <1>3, <1>4, <1>6 DEF Enters, Fills

LEMMA InOrderEnqueue ==
  ASSUME StateOK, Fresh, InOrder, NEW c \in Client, QueueInWait(c),
         ~ArrivesAlike(c), ~Fills(c), c \in stale => UNCHANGED <<exists, md>>
  PROVE  InOrder'
<1>1. CASE Arrive(c)
  BY <1>1, ArrivesApart
<1>2. CASE EnqueueGet(c)
  <2> DEFINE m == [md EXCEPT !.io_q_node[md.tail] = Entered(c),
                             !.tail = (@ + 1) % IO_Q_LEN]
  <2>1. /\ exists /\ UNCHANGED <<exists, md>>
        /\ Goto(c, "enq_get", "enq_put") /\ Works
        /\ meta_data' = [meta_data EXCEPT ![c] = m]
    BY <1>2 DEF EnqueueGet, store, GetMeta
  <2>2. md.tail \in Place /\ m.io_q_node[md.tail] = Entered(c)
    BY DEF StateOK, Meta_Data
  <2>3. meta_data'[c] = m
    BY <2>1 DEF StateOK
  <2> HIDE DEF m
  <2>4. Takes(c, "enq_put") /\ pc[c] = "enq_get" /\ fails' \in Nat
    BY <2>1, GotoTakes
  <2> QED BY <2>1, <2>2, <2>3, <2>4, EntersCopy
<1>3. ASSUME NEW at, NoRecord(c, at)
      PROVE  InOrder'
  <2>1. Goto(c, at, "idle") /\ Works /\ UNCHANGED meta_data /\ ~exists'
    BY <1>3 DEF NoRecord, store, copies
  <2>2. Takes(c, "idle") /\ fails' \in Nat
    BY <2>1, GotoTakes
  <2> QED BY <2>1, <2>2, StepsAside
<1>4. CASE EnqueuePut(c)
  <2>1. /\ Put(c, "enq_put", "wait") /\ exists'
        /\ meta_data' = [meta_data EXCEPT ![c] = NewMeta]
    BY <1>4 DEF EnqueuePut, PutMeta, GetMeta
  <2>2. pc[c] = "enq_put" /\ fails' \in Nat
    BY <2>1, PutTakes
  <2>3. PICK l : Takes(c, l) /\ (l = "wait" \/ (l = "idle" /\ Failed))
    BY <2>1, PutTakes
  <2>4. exists /\ Enters(md, md', Entered(c)) /\ Succ(md.tail) # md.head
    BY <1>4, FreshEnqueue
  <2> QED BY <2>1, <2>2, <2>3, <2>4, JoinsRing
<1>5. CASE WaitOver(c)
  <2>1. /\ exists /\ UNCHANGED <<exists, md, meta_data>>
        /\ Goto(c, "wait", "served") /\ Works
        /\ md.io_q_node[md.head] = Entered(c)
    BY <1>5 DEF WaitOver, store, copies
  <2>2. Takes(c, "served") /\ pc[c] = "wait" /\ fails' \in Nat
    BY <2>1, GotoTakes
  <2> QED BY <2>1, <2>2, TurnBegins
<1> QED BY <1>1, <1>2, <1>3, <1>4, <1>5 DEF QueueInWait

LEMMA InOrderHead ==
  ASSUME StateOK, InOrder, NEW c \in Client, HeadPassed(c, "read_put") \/ HeadPassed(c, "ion_put")
  PROVE  InOrder'
<1>1. CASE exists
  <2>1. PICK to \in {"read_put", "ion_put"} :
          /\ UNCHANGED <<exists, md>> /\ Goto(c, "served", to) /\ Works
          /\ meta_data' = [meta_data EXCEPT ![c] = NextHead(md)]
    BY <1>1 DEF HeadPassed, store, GetMeta
  <2>2. /\ NextHead(md).head = (md.head + 1) % IO_Q_LEN /\ NextHead(md).tail = md.tail
        /\ NextHead(md).io_q_node = md.io_q_node
    BY DEF StateOK, Meta_Data, NextHead
  <2>3. NextHead(md).head = Succ(md.head)
    BY <2>2, RingType, SuccPlace
  <2>4. meta_data'[c] = NextHead(md)
    BY <2>1 DEF StateOK
  <2>5. Takes(c, to) /\ pc[c] = "served" /\ fails' \in Nat
    BY <2>1, GotoTakes
  <2>6. OnTurn(c)
    BY <2>5 DEF OnTurn
  <2> QED BY <2>1, <2>3, <2>4, <2>5, <2>6, TurnGoesOn
<1>2. CASE ~exists
  <2>1. Goto(c, "served", "idle") /\ Works /\ UNCHANGED meta_data /\ ~exists'
    BY <1>2 DEF HeadPassed, store
  <2>2. Takes(c, "idle") /\ fails' \in Nat
    BY <2>1, GotoTakes
  <2> QED BY <2>1, <2>2, StepsAside
<1> QED BY <1>1, <1>2

\* A step of a turn that leaves the record and the copy alone, if it does not fail.
LEMMA InOrderWrite ==
  ASSUME StateOK, InOrder, NEW c \in Client, UNCHANGED <<exists, md, meta_data>>,
         OnTurn(c), pc[c] # "served", fails' \in Nat,
         NEW l \in {"tail_get", "tail_put", "md_put", "idle"}, Takes(c, l),
         l = "idle" => Failed
  PROVE  InOrder'
<1>1. exists => meta_data'[c].head = Succ(md.head)
  BY DEF InOrder, Queued
<1>2. SameRing(md, md')
  BY DEF SameRing
<1>3. CASE l = "idle"
  BY <1>2, <1>3, StepsAside
<1>4. CASE l # "idle"
  BY <1>1, <1>4, TurnGoesOn
<1> QED BY <1>3, <1>4

\* The copy that ends a turn is not outdated, or its put is no news: and that
\* cannot be, as its head has moved on.
LEMMA FreshDequeue ==
  ASSUME StateOK, Fresh, InOrder, NEW c \in Client, pc[c] \in {"read_put", "md_put"},
         exists', md'.head = meta_data[c].head, md'.tail = meta_data[c].tail,
         md'.io_q_node = meta_data[c].io_q_node,
         c \in stale => UNCHANGED <<exists, md>>
  PROVE  c \notin stale /\ exists /\ Passes(md, md')
<1>1. OnTurn(c) /\ c \in Joined /\ pc[c] # "served"
  BY DEF OnTurn, Joined, Holding, Updating
<1>2. c \notin stale
  <2> SUFFICES ASSUME c \in stale PROVE FALSE
    OBVIOUS
  <2>1. exists /\ md.head = Succ(md.head) /\ Placed(c)
    BY <1>1 DEF InOrder, Queued
  <2>2. IO_Q_LEN = 1
    BY <2>1, RingType DEF Succ, Place
  <2>3. Occupied(md) = {}
    BY <2>2, RingType DEF Occupied, Place
  <2> QED BY <2>1, <2>3 DEF Placed
<1>3. exists /\ meta_data[c] = NextHead(md)
  BY <1>2 DEF Fresh, CopyOf, Holding, Writing
<1>4. /\ NextHead(md).head = Succ(md.head) /\ NextHead(md).tail = md.tail
      /\ NextHead(md).io_q_node = md.io_q_node
  BY RingType, SuccPlace DEF StateOK, Meta_Data, NextHead
<1> QED BY <1>2, <1>3, <1>4 DEF Passes

LEMMA InOrderDequeue ==
  ASSUME NamesSound, Fresh, InOrder, NEW c \in Client, QueueOut(c),
         c \in stale => UNCHANGED <<exists, md>>
  PROVE  InOrder'
<1> USE DEF NamesSound
<1>1. CASE ReadGet(c) \/ WriteGet(c)
  BY <1>1, InOrderHead DEF ReadGet, WriteGet
<1>2. CASE ReadPut(c)
  <2>1. /\ Put(c, "read_put", "idle") /\ exists' /\ md' = meta_data[c]
        /\ meta_data' = [meta_data EXCEPT ![c] = NewMeta]
    BY <1>2 DEF ReadPut, PutMeta, GetMeta
  <2>2. pc[c] = "read_put" /\ fails' \in Nat /\ Takes(c, "idle")
    BY <2>1, PutTakes
  <2>3. OnTurn(c)
    BY <2>2 DEF Holding, OnTurn, Updating
  <2>4. exists /\ Passes(md, md')
    BY <2>1, <2>2, FreshDequeue
  <2> QED BY <2>1, <2>2, <2>3, <2>4, LeavesRing
<1>3. CASE RemoveOut(c)
  <2>1. Put(c, "served", "idle") /\ ~exists' /\ UNCHANGED meta_data
    BY <1>3 DEF RemoveOut, copies
  <2>2. Takes(c, "idle") /\ fails' \in Nat
    BY <2>1, PutTakes
  <2> QED BY <2>1, <2>2, StepsAside
<1>4. CASE IonPut(c)
  <2>1. PICK to \in {"tail_get", "md_put"} : Put(c, "ion_put", to)
    BY <1>4 DEF IonPut
  <2>2. UNCHANGED <<exists, md, meta_data>>
    BY <1>4 DEF IonPut, copies
  <2>3. /\ pc[c] = "ion_put" /\ fails' \in Nat
        /\ Takes(c, to) \/ (Takes(c, "idle") /\ Failed)
    BY <2>1, <2>2, PutTakes
  <2>4. OnTurn(c) /\ pc[c] # "served"
    BY <2>3 DEF OnTurn, Holding, Updating
  <2> QED BY <2>2, <2>3, <2>4, InOrderWrite
<1>5. CASE TailGet(c)
  <2>1. UNCHANGED <<exists, md>> /\ Works
    BY <1>5 DEF TailGet, store
  <2>2. pc[c] = "tail_get"
    BY <1>5 DEF TailGet, Goto
  <2>3. meta_data[c].io_node_q_tail \in DOMAIN ion
    BY <2>2 DEF Follows, Names, Known
  <2>4. Goto(c, "tail_get", "tail_put") /\ UNCHANGED meta_data
    BY <1>5, <2>3 DEF TailGet
  <2>5. Takes(c, "tail_put") /\ fails' \in Nat
    BY <2>1, <2>4, GotoTakes
  <2>6. OnTurn(c) /\ pc[c] # "served"
    BY <2>2 DEF OnTurn, Holding, Updating
  <2> QED BY <2>1, <2>4, <2>5, <2>6, InOrderWrite
<1>6. CASE TailPut(c)
  <2>1. Put(c, "tail_put", "md_put") /\ UNCHANGED <<exists, md, meta_data>>
    BY <1>6 DEF TailPut
  <2>2. /\ pc[c] = "tail_put" /\ fails' \in Nat
        /\ Takes(c, "md_put") \/ (Takes(c, "idle") /\ Failed)
    BY <2>1, PutTakes
  <2>3. OnTurn(c) /\ pc[c] # "served"
    BY <2>2 DEF OnTurn, Holding, Updating
  <2> QED BY <2>1, <2>2, <2>3, InOrderWrite
<1>7. CASE WriteMetaPut(c)
  <2>1. /\ Put(c, "md_put", "iod_put") /\ exists'
        /\ meta_data' = [meta_data EXCEPT ![c] = NewMeta]
    BY <1>7 DEF WriteMetaPut, GetMeta
  <2>2. pc[c] = "md_put" /\ fails' \in Nat
    BY <2>1, PutTakes
  <2>3. PICK l \in {"idle", "iod_put"} : Takes(c, l)
    BY <2>1, PutTakes
  <2>4. OnTurn(c)
    BY <2>2 DEF Holding, OnTurn, Updating
  <2>5. /\ md'.head = meta_data[c].head /\ md'.tail = meta_data[c].tail
        /\ md'.io_q_node = meta_data[c].io_q_node
    BY <1>7 DEF WriteMetaPut, StateOK, Meta_Data
  <2>6. exists /\ Passes(md, md')
    BY <2>1, <2>2, <2>5, FreshDequeue
  <2> QED BY <2>1, <2>2, <2>3, <2>4, <2>6, LeavesRing
<1>8. CASE IodPut(c)
  <2>1. Put(c, "iod_put", "idle") /\ UNCHANGED <<exists, md, meta_data>>
    BY <1>8 DEF IodPut, copies
  <2>2. Takes(c, "idle") /\ fails' \in Nat /\ pc[c] = "iod_put"
    BY <2>1, PutTakes
  <2>3. c \notin Joined /\ SameRing(md, md')
    BY <2>1, <2>2 DEF Joined, OnTurn, Holding, Updating, SameRing
  <2> QED BY <2>1, <2>2, <2>3, StepsAside
<1> QED BY <1>1, <1>2, <1>3, <1>4, <1>5, <1>6, <1>7, <1>8 DEF QueueOut

LEMMA InOrderUpdate ==
  ASSUME StateOK, Fresh, InOrder, NEW c \in Client, ReplicaUpdate(c),
         c \in stale => UNCHANGED <<exists, md>>
  PROVE  InOrder'
<1>1. CASE RepGet(c)
  <2>1. PICK to \in {"rep_ion", "rep_put"} : Goto(c, "idle", to)
    BY <1>1 DEF RepGet
  <2>2. /\ Works /\ UNCHANGED <<exists, md>>
        /\ meta_data' = [meta_data EXCEPT ![c] = md]
    BY <1>1 DEF RepGet, store, GetMeta
  <2>3. to \in Updating
    BY DEF Updating
  <2>4. Takes(c, to) /\ pc[c] = "idle" /\ fails' \in Nat
    BY <2>1, <2>2, GotoTakes
  <2>5. pc[c] \in Aside
    BY <2>4 DEF Aside
  <2> QED BY <2>2, <2>3, <2>4, <2>5, UpdateGoesOn
<1>2. CASE RepIon(c)
  <2>1. UNCHANGED <<exists, md>> /\ Works
    BY <1>2 DEF RepIon, store
  <2>2. CASE Goto(c, "rep_ion", "rep_iod") /\ UNCHANGED meta_data
    <3>1. Takes(c, "rep_iod") /\ pc[c] = "rep_ion" /\ fails' \in Nat
      BY <2>1, <2>2, GotoTakes
    <3>2. pc[c] \in Aside /\ "rep_iod" \in Updating
      BY <3>1 DEF Aside, Updating
    <3> QED BY <2>1, <3>1, <3>2, UpdateGoesOn
  <2>3. CASE /\ Goto(c, "rep_ion", "idle")
             /\ meta_data' = [meta_data EXCEPT ![c] = NewMeta]
    <3>1. Takes(c, "idle") /\ pc[c] = "rep_ion" /\ fails' \in Nat
      BY <2>1, <2>3, GotoTakes
    <3>2. c \notin Joined /\ SameRing(md, md')
      BY <2>1, <3>1 DEF Joined, OnTurn, Holding, Updating, SameRing
    <3> QED BY <2>1, <3>1, <3>2, StepsAside
  <2> QED BY <1>2, <2>2, <2>3 DEF RepIon, Forget, GetMeta
<1>3. CASE RepIod(c)
  <2> DEFINE m == [meta_data[c] EXCEPT !.my_rep[Host[c]] = Empty]
  <2>1. UNCHANGED <<exists, md>> /\ (Works \/ Fails)
    BY <1>3 DEF RepIod, store
  <2>2. PICK to \in {"rep_ion", "rep_put"} :
          /\ Goto(c, "rep_iod", to)
          /\ UNCHANGED meta_data \/ meta_data' = [meta_data EXCEPT ![c] = m]
    BY <1>3 DEF RepIod
  <2> HIDE DEF m
  <2>3. Takes(c, to) /\ pc[c] = "rep_iod" /\ fails' \in Nat
    BY <2>1, <2>2, GotoTakes
  <2>4. pc[c] \in Aside /\ to \in Updating
    BY <2>3 DEF Aside, Updating
  <2> QED BY <2>1, <2>3, <2>4, UpdateGoesOn
<1>4. CASE RepCrash(c)
  <2>1. /\ Goto(c, "rep_iod", "idle") /\ Works /\ UNCHANGED <<exists, md>>
        /\ meta_data' = [meta_data EXCEPT ![c] = NewMeta]
    BY <1>4 DEF RepCrash, Forget, GetMeta, store
  <2>2. Takes(c, "idle") /\ pc[c] = "rep_iod" /\ fails' \in Nat
    BY <2>1, GotoTakes
  <2>3. c \notin Joined /\ SameRing(md, md')
    BY <2>1, <2>2 DEF Joined, OnTurn, Holding, Updating, SameRing
  <2> QED BY <2>1, <2>2, <2>3, StepsAside
<1>5. CASE RepPut(c)
  <2>1. /\ Put(c, "rep_put", "idle") /\ md' = meta_data[c]
        /\ meta_data' = [meta_data EXCEPT ![c] = NewMeta]
    BY <1>5 DEF RepPut, Forget, GetMeta
  <2>2. Takes(c, "idle") /\ pc[c] = "rep_put" /\ fails' \in Nat
    BY <2>1, PutTakes
  <2>3. c \notin Joined /\ exists'
    BY <1>5, <2>2 DEF RepPut, Joined, OnTurn, Holding, Updating
  <2>4. exists /\ SameRing(md, md')
    <3>1. CASE c \in stale
      BY <2>3, <3>1 DEF SameRing
    <3>2. CASE c \notin stale
      <4>1. exists /\ CopyOf(c, md) /\ md \in Meta_Data
        BY <2>2, <3>2 DEF Fresh, Holding, Updating, StateOK
      <4>2. \/ md' = md
            \/ md' = [md EXCEPT !.my_rep[Host[c]] = Empty]
        BY <2>1, <2>2, <4>1 DEF CopyOf
      <4> QED BY <4>1, <4>2 DEF SameRing, Meta_Data
    <3> QED BY <3>1, <3>2
  <2> QED BY <2>2, <2>3, <2>4, StepsAside
<1> QED BY <1>1, <1>2, <1>3, <1>4, <1>5 DEF ReplicaUpdate

LEMMA InOrderInit == Init => InOrder
<1> SUFFICES ASSUME Init PROVE InOrder
  OBVIOUS
<1>1. \A c \in Client : pc[c] = "idle" /\ (c \notin Joined) /\ ~OnTurn(c) /\ ~Requesting(c)
  BY DEF Init, Joined, OnTurn, Holding, Updating, Requesting
<1>2. Apart /\ OneAtATime /\ \A c \in Client : Queued(c)
  BY <1>1 DEF Init, Apart, OneAtATime, Queued, Updating, IO_Type
<1>3. Past
  BY DEF Init, Past, NewMeta, IO_Type, Empty
<1>4. Occupied(md) = {}
  BY QueueAssumption DEF Init, Occupied, NewMeta, Place
<1>5. Cardinality(Abandoned) <= fails
  <2>1. Abandoned = {}
    BY <1>4 DEF Abandoned
  <2>2. fails = 0
    BY DEF Init
  <2> QED BY <2>1, <2>2, FS_EmptySet
<1> QED BY <1>2, <1>3, <1>5 DEF InOrder

\* Nothing of the order depends on the clock, but that requests are past.
LEMMA InOrderIdle ==
  ASSUME StateOK, InOrder, now' \in Nat, now <= now', UNCHANGED <<fails, store, pc, request, copies>>
  PROVE  InOrder'
<1>1. /\ UNCHANGED <<fails, exists, md, pc, io_type, arrive_time, last, meta_data>>
      /\ \A c \in Client : Entered(c)' = Entered(c)
      /\ \A c \in Client : OnTurn(c)' <=> OnTurn(c)
      /\ \A c \in Client : Requesting(c)' <=> Requesting(c)
      /\ Joined' = Joined
  <2>1. UNCHANGED <<fails, exists, md, pc, io_type, arrive_time, last, meta_data>>
    BY DEF store, request, copies
  <2>2. \A c \in Client : /\ Entered(c)' = Entered(c)
                          /\ OnTurn(c)' <=> OnTurn(c)
                          /\ Requesting(c)' <=> Requesting(c)
    BY <2>1 DEF Entered, OnTurn, Requesting
  <2>3. Joined' = Joined
    BY <2>1, <2>2 DEF Joined
  <2> QED BY <2>1, <2>2, <2>3
<1>2. Apart'
  <2>1. now \in Nat /\ now' \in Nat /\ \A k \in IO_Type : last[k] \in Nat
    BY QueueAssumption DEF StateOK
  <2>2. Apart
    BY DEF InOrder
  <2> QED BY <1>1, <2>1, <2>2 DEF Apart
<1>3. OneAtATime'
  BY <1>1 DEF InOrder, OneAtATime
<1>4. ASSUME exists PROVE Past' /\ \A c \in Client : Queued(c)'
  <2>1. Past'
    BY <1>1, <1>4 DEF InOrder, Past
  <2>2. ASSUME NEW c \in Client PROVE Queued(c)'
    <3>1. Queued(c)
      BY <1>4 DEF InOrder
    <3>2. Placed(c)' <=> Placed(c)
      BY <1>1 DEF Placed
    <3> QED BY <1>1, <3>1, <3>2 DEF Queued
  <2> QED BY <2>1, <2>2
<1>5. Abandoned' = Abandoned
  BY <1>1 DEF Abandoned, Joined
<1> QED BY <1>1, <1>2, <1>3, <1>4, <1>5 DEF InOrder

LEMMA InOrderNext ==
  ASSUME NamesSound, Fresh, harm = {} => InOrder, [Next]_vars
  PROVE  (harm = {} => InOrder)'
<1> SUFFICES ASSUME harm' = {} PROVE InOrder'
  OBVIOUS
<1>1. StateOK
  BY DEF NamesSound
<1>2. CASE UNCHANGED vars \/ Tick
  <2>1. /\ UNCHANGED <<fails, store, pc, request, copies, harm>>
        /\ now' \in Nat /\ now <= now'
    BY <1>1, <1>2, QueueAssumption DEF vars, history, Tick, StateOK
  <2> QED BY <1>1, <2>1, InOrderIdle
<1>3. ASSUME NEW c \in Client, ClientStep(c)
      PROVE  InOrder'
  <2>1. /\ InOrder
        /\ c \in stale => UNCHANGED <<exists, md>>
        /\ ~ArrivesAlike(c) /\ ~Fills(c)
    BY <1>3, Harmless
  <2>2. CASE StoreDown(c)
    <3>1. /\ Goto(c, pc[c], "idle") /\ Fails /\ UNCHANGED <<exists, md>>
          /\ meta_data' = [meta_data EXCEPT ![c] = NewMeta]
      BY <2>2 DEF StoreDown, Forget, GetMeta, store
    <3>2. Takes(c, "idle") /\ fails' \in Nat /\ Failed
      BY <1>1, <3>1, GotoTakes DEF Fails, Failed
    <3>3. SameRing(md, md')
      BY <3>1 DEF SameRing
    <3> QED BY <1>1, <2>1, <3>1, <3>2, <3>3, StepsAside
  <2> QED BY <1>1, <1>3, <2>1, <2>2, InOrderEnqueue, InOrderDequeue, InOrderUpdate
          DEF ClientStep
<1> QED BY <1>2, <1>3 DEF Next

LEMMA AlwaysInOrder == Spec => [](harm = {} => InOrder)
<1>1. Init => (harm = {} => InOrder)
  BY InOrderInit
<1>2. NamesSound /\ Fresh /\ (harm = {} => InOrder) /\ [Next]_vars =>
        (harm = {} => InOrder)'
  BY InOrderNext
<1> QED BY <1>1, <1>2, AlwaysFresh, NamesAlwaysSound, PTL DEF Spec

(* No two clients have their turn at the same time, for any number of      *)
(* clients, any ring and whatever operations of the store fail, until an   *)
(* outdated copy is put over something newer, a request arrives that looks *)
(* like another, or the ring fills up: nothing else can part the turns.    *)
THEOREM TurnsOneByOne == Spec => []TurnsApart
<1>1. (harm = {} => InOrder) => TurnsApart
  BY DEF InOrder, TurnsApart
<1> QED BY <1>1, AlwaysInOrder, PTL

(* Until then, too, a client that has joined keeps one place in the ring   *)
(* until it has had its turn.                                              *)
THEOREM PlaceKept == Spec => []PlacesKept
<1>1. ASSUME StateOK, InOrder PROVE HasPlace
  <2> SUFFICES ASSUME NEW c \in Client, exists, pc[c] = "wait" \/ OnTurn(c)
               PROVE  \E p \in Place :
                        /\ InRing(p)
                        /\ \A q \in Place : md.io_q_node[q] = Entered(c) <=> q = p
    BY DEF HasPlace
  <2>1. Placed(c)
    BY <1>1 DEF InOrder, Queued, Joined
  <2>2. PICK p \in Occupied(md) :
          \A q \in Place : md.io_q_node[q] = Entered(c) <=> q = p
    BY <2>1 DEF Placed
  <2>3. p \in Place /\ InRing(p)
    BY <1>1, RingType DEF Occupied, InRing, Place
  <2> QED BY <2>2, <2>3
<1>2. StateOK /\ (harm = {} => InOrder) => PlacesKept
  BY <1>1 DEF PlacesKept
<1>3. NamesSound => StateOK
  BY DEF NamesSound
<1> QED BY <1>2, <1>3, AlwaysInOrder, NamesAlwaysSound, PTL

(* A ring with an entry to spare for every client that makes requests and  *)
(* every failure never fills up, unless outdated puts or requests that     *)
(* look alike have spoiled it before.                                      *)
THEOREM RoomEnough == ASSUME RingSuffices PROVE Spec => [](harm # {"full"})
<1>1. Init => harm # {"full"}
  BY DEF Init
<1>2. ASSUME NamesSound, Fresh, harm = {} => InOrder, harm # {"full"}, [Next]_vars
      PROVE  (harm # {"full"})'
  <2> SUFFICES ASSUME harm' = {"full"} PROVE FALSE
    OBVIOUS
  <2>1. StateOK
    BY <1>2 DEF NamesSound
  <2>2. PICK c \in Client : ClientStep(c)
    BY <1>2 DEF Next, Tick, vars, history
  <2>3. harm = {} /\ ~Undoes(c) /\ Fills(c)
    BY <1>2, <2>2 DEF ClientStep, Remembered, Harm
  <2>4. pc[c] = "enq_put" /\ Touched /\ md'.head = md'.tail /\ c \notin stale
    BY <2>3 DEF Fills, Undoes
  <2>5. exists /\ meta_data[c] = AsEntered(c, md)
    BY <1>2, <2>4 DEF Fresh, CopyOf, Holding
  <2>6. md' = meta_data[c]
    BY <2>2, <2>4, RecordTouched DEF EnqueuePut, ReadPut, WriteMetaPut, RepPut, RemoveOut,
       PutMeta, Put, Goto
  <2>7. md'.head = md.head /\ md'.tail = Succ(md.tail)
    BY <2>1, <2>5, <2>6, RingType, SuccPlace DEF StateOK, Meta_Data, AsEntered
  <2> QED BY <1>2, <2>1, <2>3, <2>4, <2>5, <2>7, NotFull
<1> QED BY <1>1, <1>2, AlwaysInOrder, AlwaysFresh, NamesAlwaysSound, PTL DEF Spec

-----------------------------------------------------------------------------
(* The list.  The io_nodes of the record are s[0], s[1] and so on, n of    *)
(* them, each linked to the next and back.  Only a client on its turn      *)
(* links one, and it lists what it has linked: no put that undoes nothing  *)
(* changes the ends of the list meanwhile, so that its copy has them right *)
(* even if it is outdated.                                                 *)

Linking == {"tail_get", "tail_put", "md_put"}
Listing == {"iod_put"} \cup Writing

Members(n, s) == {s[i] : i \in 0 .. n - 1}

BothWays(n, s) ==
  \A i \in 0 .. n - 1 : i + 1 < n => /\ ion[s[i]].ion_next = s[i + 1]
                                     /\ ion[s[i + 1]].ion_pre = s[i]
Ends(n, s, m) == IF n = 0
                 THEN m.io_node_q_head = Empty /\ m.io_node_q_tail = Empty
                 ELSE m.io_node_q_head = s[0] /\ m.io_node_q_tail = s[n - 1]
SameEnds(m, k) == /\ k.io_node_q_head = m.io_node_q_head
                  /\ k.io_node_q_tail = m.io_node_q_tail

Chain(n, s) == /\ n \in Nat
               /\ s \in [0 .. n - 1 -> DOMAIN ion]
               /\ \A i, j \in 0 .. n - 1 : s[i] = s[j] => i = j
               /\ n # 0 => ion[s[0]].ion_pre = Empty
               /\ BothWays(n, s)
               /\ Ends(n, s, md)

\* What a write has done so far.
Doing(c) ==
  /\ pc[c] \in Writing => SameEnds(md, meta_data[c])
  /\ pc[c] \in Linking => ion[arrive_time[c]].ion_pre = md.io_node_q_tail
  /\ pc[c] = "tail_put" => io_node1[c] = ion[md.io_node_q_tail]
  /\ pc[c] = "md_put" /\ md.io_node_q_tail # Empty =>
       ion[md.io_node_q_tail].ion_next = arrive_time[c]

\* A name is stored once its write has put its io_node, and not before.
Named(c) ==
  /\ pc[c] \in Listing => io_type[c] = "WRITE"
  /\ Requesting(c) /\ io_type[c] = "WRITE" /\ pc[c] \notin Linking \cup {"iod_put"} =>
       arrive_time[c] \notin DOMAIN ion
Written == \A t \in DOMAIN ion : t <= last["WRITE"]

ListIs(n, s) ==
  /\ Chain(n, s)
  /\ \A c \in Client : pc[c] \in Linking => arrive_time[c] \notin Members(n, s)
ListKept == /\ Apart /\ Written
            /\ \A c \in Client : Named(c) /\ Doing(c)
            /\ \E n, s : ListIs(n, s)

LEMMA ListInit == Init => ListKept
<1> SUFFICES ASSUME Init PROVE ListKept
  OBVIOUS
<1> DEFINE s == [i \in 0 .. 0 - 1 |-> Empty]
<1>1. /\ DOMAIN ion = {} /\ md = NewMeta
      /\ \A c \in Client : pc[c] = "idle"
  BY DEF Init
<1>2. Written /\ \A c \in Client : Named(c) /\ Doing(c)
  BY <1>1 DEF Written, Named, Doing, Linking, Listing, Writing, Requesting
<1>3. Apart
  BY InOrderInit DEF InOrder
<1>4. Chain(0, s)
  <2>1. s \in [0 .. 0 - 1 -> DOMAIN ion] /\ \A i \in 0 .. 0 - 1 : FALSE
    OBVIOUS
  <2>2. Ends(0, s, md)
    BY <1>1 DEF Ends, NewMeta
  <2> QED BY <2>1, <2>2 DEF Chain, BothWays
<1>5. ListIs(0, s)
  BY <1>1, <1>4 DEF ListIs, Linking
<1> HIDE DEF s
<1> QED BY <1>2, <1>3, <1>5 DEF ListKept

-----------------------------------------------------------------------------
(* Steps that leave the list as it was *)

\* A step of client c that takes it to label l.
Moved(c, l) == /\ Takes(c, l) /\ fails' \in Nat
               /\ \A d \in Client \ {c} : io_node1'[d] = io_node1[d]

LEMMA GotoMoved ==
  ASSUME StateOK, NEW c \in Client, NEW from, NEW to, Goto(c, from, to),
         Works \/ Fails,
         UNCHANGED meta_data \/ \E m : meta_data' = [meta_data EXCEPT ![c] = m],
         UNCHANGED io_node1 \/ \E m : io_node1' = [io_node1 EXCEPT ![c] = m]
  PROVE  pc[c] = from /\ Moved(c, to)
<1>1. pc[c] = from /\ Takes(c, to) /\ fails' \in Nat
  BY GotoTakes
<1>2. \A d \in Client \ {c} : io_node1'[d] = io_node1[d]
  BY DEF StateOK
<1> QED BY <1>1, <1>2 DEF Moved

LEMMA PutMoved ==
  ASSUME StateOK, NEW c \in Client, NEW from, NEW to, Put(c, from, to),
         UNCHANGED meta_data \/ \E m : meta_data' = [meta_data EXCEPT ![c] = m],
         UNCHANGED io_node1 \/ \E m : io_node1' = [io_node1 EXCEPT ![c] = m]
  PROVE  pc[c] = from /\ (Moved(c, to) \/ Moved(c, "idle"))
  BY GotoMoved DEF Put

LEMMA MovedRest ==
  ASSUME StateOK, NEW c \in Client, NEW l, Moved(c, l)
  PROVE  /\ pc'[c] = l
         /\ \A d \in Client \ {c} : /\ pc'[d] = pc[d] /\ meta_data'[d] = meta_data[d]
                                    /\ io_node1'[d] = io_node1[d]
         /\ UNCHANGED <<io_type, arrive_time, last>>
<1>1. /\ pc'[c] = l
      /\ \A d \in Client \ {c} : pc'[d] = pc[d] /\ meta_data'[d] = meta_data[d]
  BY TakesRest DEF Moved, Takes
<1>2. UNCHANGED <<io_type, arrive_time, last>>
  BY DEF Moved, Takes, request
<1> QED BY <1>1, <1>2 DEF Moved

LEMMA ChainSame ==
  ASSUME NEW n, NEW s, Chain(n, s), ion' = ion, SameEnds(md, md')
  PROVE  Chain(n, s)'
<1>1. Ends(n, s, md)'
  BY DEF Chain, Ends, SameEnds
<1>2. BothWays(n, s)'
  BY DEF Chain, BothWays
<1> QED BY <1>1, <1>2 DEF Chain

LEMMA Rests ==
  ASSUME StateOK, ListKept, NEW c \in Client, NEW l, Moved(c, l),
         l \in Aside \/ pc[c] \notin Aside, ion' = ion, SameEnds(md, md'),
         l \in Linking => pc[c] \in Linking, Named(c)', Doing(c)'
  PROVE  ListKept'
<1>1. /\ pc'[c] = l
      /\ \A d \in Client \ {c} : /\ pc'[d] = pc[d] /\ meta_data'[d] = meta_data[d]
                                 /\ io_node1'[d] = io_node1[d]
      /\ UNCHANGED <<io_type, arrive_time, last>>
  BY MovedRest
<1>2. Apart'
  BY ApartKept DEF ListKept, Moved
<1>3. Written'
  BY <1>1 DEF ListKept, Written
<1>4. ASSUME NEW d \in Client \ {c} PROVE Named(d)' /\ Doing(d)'
  <2>1. Named(d) /\ Doing(d)
    BY DEF ListKept
  <2>2. Named(d)'
    BY <1>1, <2>1 DEF Named, Requesting
  <2>3. Doing(d)'
    BY <1>1, <2>1 DEF Doing, SameEnds
  <2> QED BY <2>2, <2>3
<1>5. PICK n, s : ListIs(n, s)
  BY DEF ListKept
<1>6. Chain(n, s)'
  BY <1>5, ChainSame DEF ListIs
<1>7. \A d \in Client : pc'[d] \in Linking => arrive_time'[d] \notin Members(n, s)
  BY <1>1, <1>5 DEF ListIs
<1>8. ListIs(n, s)'
  BY <1>6, <1>7 DEF ListIs, Members
<1> QED BY <1>2, <1>3, <1>4, <1>8 DEF ListKept

\* A client that goes where it is not writing.
LEMMA RestsFree ==
  ASSUME StateOK, ListKept, NEW c \in Client, NEW l, Moved(c, l), l \notin Writing,
         \/ l \in Aside
         \/ l = "iod_put" /\ pc[c] = "md_put"
         \/ l # "iod_put" /\ pc[c] \notin Aside \cup Listing,
         ion' = ion, SameEnds(md, md')
  PROVE  ListKept'
<1>1. pc'[c] = l /\ UNCHANGED <<io_type, arrive_time>>
  BY MovedRest
<1>2. /\ l \in Aside \/ pc[c] \notin Aside
      /\ l \notin Linking
  BY DEF Aside, Updating, Linking, Writing
<1>3. Named(c)'
  <2>1. Named(c)
    BY DEF ListKept
  <2>2. l \in Aside => l \notin Listing
    BY DEF Aside, Updating, Listing, Writing
  <2> QED BY <1>1, <1>2, <2>1, <2>2 DEF Named, Requesting, Linking, Listing, Writing, Aside
<1>4. Doing(c)'
  BY <1>1, <1>2 DEF Doing, Linking
<1> QED BY <1>2, <1>3, <1>4, Rests

\* The puts of the record that are no write's leave the ends of the list alone.
LEMMA PutEnds ==
  ASSUME StateOK, Fresh, NEW c \in Client, EnqueuePut(c) \/ ReadPut(c) \/ RepPut(c),
         c \in stale => UNCHANGED <<exists, md>>
  PROVE  SameEnds(md, md')
<1>1. /\ md' = meta_data[c] /\ md \in Meta_Data
      /\ pc[c] \in {"enq_put", "read_put", "rep_put"}
  BY DEF EnqueuePut, ReadPut, RepPut, PutMeta, Put, Goto, StateOK
<1>2. CASE c \in stale
  BY <1>2 DEF SameEnds
<1>3. CASE c \notin stale
  <2>1. CopyOf(c, md)
    BY <1>1, <1>3 DEF Fresh, Holding, Updating
  <2>2. CASE pc[c] = "enq_put"
    BY <1>1, <2>1, <2>2 DEF CopyOf, AsEntered, Meta_Data, SameEnds
  <2>3. CASE pc[c] = "read_put"
    BY <1>1, <2>1, <2>3 DEF CopyOf, NextHead, Meta_Data, SameEnds
  <2>4. CASE pc[c] = "rep_put"
    <3>1. md' = md \/ md' = [md EXCEPT !.my_rep[Host[c]] = Empty]
      BY <1>1, <2>1, <2>4 DEF CopyOf
    <3> QED BY <1>1, <3>1 DEF Meta_Data, SameEnds
  <2> QED BY <1>1, <2>2, <2>3, <2>4
<1> QED BY <1>2, <1>3

LEMMA ListArrive ==
  ASSUME StateOK, ListKept, NEW c \in Client, Arrive(c), ~ArrivesAlike(c)
  PROVE  ListKept'
<1>1. /\ Apart' /\ pc'[c] = "enq_get"
      /\ \A d \in Client \ {c} : /\ pc'[d] = pc[d] /\ io_type'[d] = io_type[d]
                                 /\ arrive_time'[d] = arrive_time[d]
      /\ UNCHANGED <<md, ion, meta_data, io_node1>>
  BY Arrival DEF ListKept
<1>2. /\ last["WRITE"] \in Nat /\ last'["WRITE"] \in Nat
      /\ last["WRITE"] <= last'["WRITE"]
      /\ io_type'[c] = "WRITE" => last["WRITE"] < now /\ arrive_time'[c] = now
      /\ now \in Nat /\ DOMAIN ion \subseteq Nat /\ pc[c] = "idle"
  <2>1. \A j \in IO_Type : last[j] \in Nat /\ last'[j] \in Nat /\ last[j] <= last'[j]
    BY Arrival DEF ListKept
  <2>2. \E k \in IO_Type : last[k] < now /\ io_type'[c] = k /\ arrive_time'[c] = now
    BY Arrival DEF ListKept
  <2>3. now \in Nat /\ DOMAIN ion \subseteq Nat /\ pc[c] = "idle"
    BY QueueAssumption DEF StateOK, Time, Arrive
  <2> QED BY <2>1, <2>2, <2>3 DEF IO_Type
<1>3. Written'
  BY <1>1, <1>2 DEF ListKept, Written
<1>4. Named(c)' /\ Doing(c)'
  <2>1. \A t \in DOMAIN ion : t <= last["WRITE"]
    BY DEF ListKept, Written
  <2>2. io_type'[c] = "WRITE" => arrive_time'[c] \notin DOMAIN ion
    BY <1>2, <2>1
  <2> QED BY <1>1, <2>2 DEF Named, Doing, Listing, Writing, Linking
<1>5. ASSUME NEW d \in Client \ {c} PROVE Named(d)' /\ Doing(d)'
  <2>1. Named(d) /\ Doing(d)
    BY DEF ListKept
  <2>2. Named(d)'
    BY <1>1, <2>1 DEF Named, Requesting
  <2>3. Doing(d)'
    BY <1>1, <2>1 DEF Doing
  <2> QED BY <2>2, <2>3
<1>6. PICK n, s : ListIs(n, s)
  BY DEF ListKept
<1>7. Chain(n, s)'
  BY <1>1, <1>6, ChainSame DEF ListIs, SameEnds
<1>8. \A d \in Client : pc'[d] \in Linking => arrive_time'[d] \notin Members(n, s)
  BY <1>1, <1>6 DEF ListIs, Linking
<1>9. ListIs(n, s)'
  BY <1>7, <1>8 DEF ListIs, Members
<1> QED BY <1>1, <1>3, <1>4, <1>5, <1>9 DEF ListKept

LEMMA ListEnqueue ==
  ASSUME StateOK, Fresh, ListKept, NEW c \in Client, QueueInWait(c), ~ArrivesAlike(c),
         c \in stale => UNCHANGED <<exists, md>>
  PROVE  ListKept'
<1>1. CASE Arrive(c)
  BY <1>1, ListArrive
<1>2. CASE EnqueueGet(c)
  <2>1. /\ UNCHANGED <<ion, md, io_node1>>
        /\ Goto(c, "enq_get", "enq_put") /\ Works
        /\ \E m : meta_data' = [meta_data EXCEPT ![c] = m]
    BY <1>2 DEF EnqueueGet, GetMeta, store
  <2>2. pc[c] = "enq_get" /\ Moved(c, "enq_put")
    BY <2>1, GotoMoved
  <2> QED BY <2>1, <2>2, RestsFree DEF SameEnds, Writing, Listing, Aside, Updating
<1>3. ASSUME NEW at \in {"enq_get", "wait"}, NoRecord(c, at)
      PROVE  ListKept'
  <2>1. /\ Goto(c, at, "idle") /\ Works
        /\ UNCHANGED <<ion, md, meta_data, io_node1>>
    BY <1>3 DEF NoRecord, store, copies
  <2>2. Moved(c, "idle")
    BY <2>1, GotoMoved
  <2> QED BY <2>1, <2>2, RestsFree DEF SameEnds, Writing, Aside
<1>4. CASE EnqueuePut(c)
  <2>1. /\ Put(c, "enq_put", "wait")
        /\ meta_data' = [meta_data EXCEPT ![c] = NewMeta]
        /\ UNCHANGED <<ion, io_node1>>
    BY <1>4 DEF EnqueuePut, PutMeta, GetMeta
  <2>2. PICK l \in {"wait", "idle"} : Moved(c, l) /\ pc[c] = "enq_put"
    BY <2>1, PutMoved
  <2>3. SameEnds(md, md')
    BY <1>4, PutEnds
  <2> QED BY <2>1, <2>2, <2>3, RestsFree DEF Writing, Listing, Aside, Updating
<1>5. CASE WaitOver(c)
  <2>1. /\ Goto(c, "wait", "served") /\ Works
        /\ UNCHANGED <<ion, md, meta_data, io_node1>>
    BY <1>5 DEF WaitOver, store, copies
  <2>2. Moved(c, "served") /\ pc[c] = "wait"
    BY <2>1, GotoMoved
  <2> QED BY <2>1, <2>2, RestsFree DEF SameEnds, Writing, Listing, Aside, Updating
<1> QED BY <1>1, <1>2, <1>3, <1>4, <1>5 DEF QueueInWait

LEMMA ListHead ==
  ASSUME StateOK, ListKept, NEW c \in Client, NEW to, HeadPassed(c, to),
         to = "read_put" \/ (to = "ion_put" /\ io_type[c] = "WRITE")
  PROVE  ListKept'
<1>1. CASE exists
  <2>1. /\ Goto(c, "served", to) /\ Works
        /\ meta_data' = [meta_data EXCEPT ![c] = NextHead(md)]
        /\ UNCHANGED <<ion, md, io_node1>>
    BY <1>1 DEF HeadPassed, GetMeta, store
  <2>2. pc[c] = "served" /\ Moved(c, to)
    BY <2>1, GotoMoved
  <2>3. /\ pc'[c] = to /\ UNCHANGED <<io_type, arrive_time>>
        /\ meta_data'[c] = NextHead(md) /\ SameEnds(md, NextHead(md))
    BY <2>1, <2>2, MovedRest DEF StateOK, Meta_Data, NextHead, SameEnds
  <2>4. Named(c)'
    <3>1. Named(c)
      BY DEF ListKept
    <3> QED BY <2>1, <2>2, <2>3, <3>1 DEF Named, Requesting, Listing, Writing, Linking,
            Updating
  <2>5. Doing(c)'
    BY <2>1, <2>3 DEF Doing, Linking
  <2>6. SameEnds(md, md') /\ pc[c] \notin Aside /\ to \notin Linking
    BY <2>1, <2>2 DEF SameEnds, Aside, Updating, Linking
  <2> QED BY <2>1, <2>2, <2>4, <2>5, <2>6, Rests
<1>2. CASE ~exists
  <2>1. /\ Goto(c, "served", "idle") /\ Works
        /\ UNCHANGED <<ion, md, meta_data, io_node1>>
    BY <1>2 DEF HeadPassed, store
  <2>2. Moved(c, "idle")
    BY <2>1, GotoMoved
  <2> QED BY <2>1, <2>2, RestsFree DEF SameEnds, Writing, Aside
<1> QED BY <1>1, <1>2

\* The steps of a turn that leave the list alone.
LEMMA ListTurn ==
  ASSUME StateOK, Fresh, ListKept, NEW c \in Client,
         ReadGet(c) \/ WriteGet(c) \/ ReadPut(c) \/ RemoveOut(c) \/ IodPut(c),
         c \in stale => UNCHANGED <<exists, md>>
  PROVE  ListKept'
<1>1. CASE ReadGet(c) \/ WriteGet(c)
  BY <1>1, ListHead DEF ReadGet, WriteGet
<1>2. CASE ReadPut(c)
  <2>1. /\ Put(c, "read_put", "idle")
        /\ meta_data' = [meta_data EXCEPT ![c] = NewMeta]
        /\ UNCHANGED <<ion, io_node1>>
    BY <1>2 DEF ReadPut, PutMeta, GetMeta
  <2>2. Moved(c, "idle") /\ SameEnds(md, md')
    BY <1>2, <2>1, PutMoved, PutEnds
  <2> QED BY <2>1, <2>2, RestsFree DEF Writing, Aside
<1>3. CASE RemoveOut(c) \/ IodPut(c)
  <2>1. /\ \E from : Put(c, from, "idle")
        /\ UNCHANGED <<ion, md, meta_data, io_node1>>
    BY <1>3 DEF RemoveOut, IodPut, copies
  <2>2. Moved(c, "idle")
    BY <2>1, PutMoved
  <2> QED BY <2>1, <2>2, RestsFree DEF SameEnds, Writing, Aside
<1> QED BY <1>1, <1>2, <1>3

-----------------------------------------------------------------------------
(* A write puts its io_node, links and lists it *)

\* A member of the list is stored.
LEMMA MembersKnown ==
  ASSUME StateOK, NEW n, NEW s, Chain(n, s)
  PROVE  /\ n \in Nat
         /\ Members(n, s) \subseteq DOMAIN ion
         /\ DOMAIN ion \subseteq Nat \ {Empty, Garbage}
         /\ \A i \in 0 .. n - 1 : s[i] \in Members(n, s)
         /\ n # 0 => /\ 0 \in 0 .. n - 1 /\ n - 1 \in 0 .. n - 1
                     /\ s[0] \in Members(n, s) /\ s[n - 1] \in Members(n, s)
<1>1. n \in Nat /\ s \in [0 .. n - 1 -> DOMAIN ion]
  BY DEF Chain
<1>2. DOMAIN ion \subseteq Nat \ {Empty, Garbage}
  BY QueueAssumption DEF StateOK, Time, Empty, Garbage
<1>3. n # 0 => 0 \in 0 .. n - 1 /\ n - 1 \in 0 .. n - 1
  BY <1>1
<1> QED BY <1>1, <1>2, <1>3 DEF Members

\* The head and the tail of the list are empty together.
LEMMA EndsEmpty ==
  ASSUME StateOK, NEW n, NEW s, Chain(n, s)
  PROVE  /\ n = 0 <=> md.io_node_q_head = Empty
         /\ n = 0 <=> md.io_node_q_tail = Empty
         /\ n # 0 => md.io_node_q_tail = s[n - 1] /\ md.io_node_q_head = s[0]
<1>1. Ends(n, s, md)
  BY DEF Chain
<1>2. n # 0 => s[0] # Empty /\ s[n - 1] # Empty
  BY MembersKnown
<1> QED BY <1>1, <1>2 DEF Ends

\* The steps of a write that change io_nodes or list one: no other client is on
\* its turn, and so only what this one has done matters.
LEMMA Wrote ==
  ASSUME StateOK, OneAtATime, ListKept, NEW c \in Client, NEW l, Moved(c, l),
         pc[c] \in Writing, Written', Named(c)', Doing(c)',
         DOMAIN ion' \subseteq DOMAIN ion \cup {arrive_time[c]},
         NEW n, NEW s, Chain(n, s)',
         l \in Linking => arrive_time[c] \notin Members(n, s)
  PROVE  ListKept'
<1>1. /\ pc'[c] = l
      /\ \A d \in Client \ {c} : pc'[d] = pc[d]
      /\ UNCHANGED <<io_type, arrive_time, last>>
  BY MovedRest
<1>2. Requesting(c) /\ pc[c] \notin Aside /\ io_type[c] = "WRITE" /\ OnTurn(c)
  BY DEF Requesting, Aside, Writing, Listing, Updating, Holding, OnTurn, ListKept, Named
<1>3. Apart'
  BY <1>2, ApartKept DEF ListKept, Moved
<1>4. ASSUME NEW d \in Client \ {c} PROVE Named(d)' /\ Doing(d)' /\ pc'[d] \notin Linking
  <2>1. Named(d)
    BY DEF ListKept
  <2>2. Requesting(d) /\ io_type[d] = "WRITE" => arrive_time[d] # arrive_time[c]
    <3> SUFFICES ASSUME Requesting(d), io_type[d] = "WRITE", arrive_time[d] = arrive_time[c]
                 PROVE  FALSE
      OBVIOUS
    <3>1. Entered(d) = Entered(c)
      BY <1>2 DEF Entered
    <3> QED BY <1>2, <3>1 DEF ListKept, Apart
  <2>3. Named(d)'
    BY <1>1, <2>1, <2>2 DEF Named, Requesting
  <2>4. ~OnTurn(d)
    BY <1>2 DEF OneAtATime
  <2>5. pc[d] \notin Writing
    BY <2>4 DEF OnTurn, Writing, Holding, Updating
  <2>6. Doing(d)' /\ pc'[d] \notin Linking
    BY <1>1, <2>5 DEF Doing, Writing, Linking
  <2> QED BY <2>3, <2>6
<1>5. \A d \in Client : pc'[d] \in Linking => arrive_time'[d] \notin Members(n, s)
  BY <1>1, <1>4
<1>6. ListIs(n, s)'
  BY <1>5 DEF ListIs, Members
<1> QED BY <1>3, <1>4, <1>6 DEF ListKept

\* The links of the list stay, whatever else becomes of io_nodes.
LEMMA ChainGrows ==
  ASSUME StateOK, NEW n, NEW s, Chain(n, s), md' = md, DOMAIN ion \subseteq DOMAIN ion',
         \A t \in Members(n, s) : ion'[t].ion_pre = ion[t].ion_pre,
         \A i \in 0 .. n - 1 : i + 1 < n => ion'[s[i]].ion_next = ion[s[i]].ion_next
  PROVE  Chain(n, s)'
<1>1. /\ n \in Nat /\ s \in [0 .. n - 1 -> DOMAIN ion']
      /\ \A i, j \in 0 .. n - 1 : s[i] = s[j] => i = j
  BY DEF Chain
<1>2. Ends(n, s, md)'
  BY DEF Chain, Ends
<1>3. n # 0 => ion'[s[0]].ion_pre = Empty
  BY MembersKnown DEF Chain
<1>4. BothWays(n, s)'
  <2> SUFFICES ASSUME NEW i \in 0 .. n - 1, i + 1 < n
               PROVE  ion'[s[i]].ion_next = s[i + 1] /\ ion'[s[i + 1]].ion_pre = s[i]
    BY DEF BothWays
  <2>1. i + 1 \in 0 .. n - 1
    BY <1>1
  <2>2. s[i + 1] \in Members(n, s)
    BY <2>1, MembersKnown
  <2> QED BY <2>2 DEF Chain, BothWays
<1> QED BY <1>1, <1>2, <1>3, <1>4 DEF Chain

LEMMA ListIonPut ==
  ASSUME StateOK, OneAtATime, ListKept, NEW c \in Client, IonPut(c)
  PROVE  ListKept'
<1> DEFINE a == arrive_time[c]
           tail == meta_data[c].io_node_q_tail
<1>1. PICK next :
        ion' = [t \in DOMAIN ion \cup {a} |->
                  IF t = a THEN [ion_pre |-> tail, ion_next |-> next] ELSE ion[t]]
  BY DEF IonPut, Stored
<1>2. /\ Put(c, "ion_put", IF tail # Empty THEN "tail_get" ELSE "md_put")
      /\ UNCHANGED <<md, meta_data, io_node1>>
  BY DEF IonPut, copies
<1>3. PICK l : /\ Moved(c, l) /\ pc[c] = "ion_put"
               /\ \/ l = (IF tail # Empty THEN "tail_get" ELSE "md_put")
                  \/ l = "idle"
  BY <1>2, PutMoved
<1>4. pc'[c] = l /\ UNCHANGED <<io_type, arrive_time, last>>
  BY <1>3, MovedRest
<1>5. pc[c] \in Writing
  BY <1>3 DEF Writing
<1>6. Requesting(c) /\ io_type[c] = "WRITE" /\ a \notin DOMAIN ion
  <2>1. Named(c)
    BY DEF ListKept
  <2> QED BY <1>3, <2>1 DEF Named, Requesting, Listing, Writing, Linking, Updating
<1>7. PICK n, s : ListIs(n, s)
  BY DEF ListKept
<1>8. /\ DOMAIN ion' = DOMAIN ion \cup {a}
      /\ ion'[a].ion_pre = tail
      /\ \A t \in DOMAIN ion : ion'[t] = ion[t]
  BY <1>1, <1>6
<1>9. /\ Chain(n, s) /\ Members(n, s) \subseteq DOMAIN ion
      /\ \A i \in 0 .. n - 1 : s[i] \in DOMAIN ion
      /\ SameEnds(md, meta_data[c]) /\ tail = md.io_node_q_tail
  <2>1. Chain(n, s) /\ SameEnds(md, meta_data[c])
    BY <1>5, <1>7 DEF ListIs, ListKept, Doing
  <2> QED BY <2>1, MembersKnown DEF SameEnds
<1> HIDE DEF a, tail
<1>10. Chain(n, s)'
  BY <1>2, <1>8, <1>9, ChainGrows
<1>11. Named(c)' /\ Doing(c)'
  <2>1. Named(c)'
    BY <1>3, <1>4, <1>6 DEF Named, Listing, Writing, Linking, Requesting
  <2>2. a = arrive_time'[c]
    BY <1>4 DEF a
  <2>3. Doing(c)'
    BY <1>2, <1>3, <1>4, <1>8, <1>9, <2>2 DEF Doing, Linking, SameEnds
  <2> QED BY <2>1, <2>3
<1>12. Written'
  <2>1. a <= last["WRITE"]
    BY <1>6 DEF ListKept, Apart, a
  <2> QED BY <1>4, <1>8, <2>1 DEF ListKept, Written
<1>13. a \notin Members(n, s)
  BY <1>6, <1>9
<1> QED BY <1>3, <1>5, <1>8, <1>10, <1>11, <1>12, <1>13, Wrote DEF a

LEMMA ListTailGet ==
  ASSUME NamesSound, ListKept, NEW c \in Client, TailGet(c)
  PROVE  ListKept'
<1> DEFINE tail == meta_data[c].io_node_q_tail
<1> USE DEF NamesSound
<1>1. pc[c] = "tail_get"
  BY DEF TailGet, Goto
<1>2. tail \in DOMAIN ion
  BY <1>1 DEF Follows, Names, Known
<1>3. /\ Goto(c, "tail_get", "tail_put") /\ Works
      /\ io_node1' = [io_node1 EXCEPT ![c] = ion[tail]]
      /\ UNCHANGED <<ion, md, meta_data>>
  BY <1>2 DEF TailGet, store
<1>4. Moved(c, "tail_put")
  BY <1>3, GotoMoved
<1>5. /\ pc'[c] = "tail_put" /\ io_node1'[c] = ion[tail]
      /\ UNCHANGED <<io_type, arrive_time>>
  BY <1>3, <1>4, MovedRest DEF StateOK
<1>6. Named(c) /\ Doing(c)
  BY DEF ListKept
<1>7. tail = md.io_node_q_tail
  BY <1>1, <1>6 DEF Doing, Writing, SameEnds
<1>8. Named(c)' /\ Doing(c)'
  BY <1>1, <1>3, <1>5, <1>6, <1>7 DEF Named, Doing, Listing, Writing, Linking, SameEnds
<1>9. pc[c] \notin Aside /\ SameEnds(md, md') /\ pc[c] \in Linking
  BY <1>1, <1>3 DEF Aside, Updating, SameEnds, Linking
<1> QED BY <1>3, <1>4, <1>8, <1>9, Rests

LEMMA ListTailPut ==
  ASSUME NamesSound, OneAtATime, ListKept, NEW c \in Client, TailPut(c)
  PROVE  ListKept'
<1> DEFINE a == arrive_time[c]
           tail == meta_data[c].io_node_q_tail
<1> USE DEF NamesSound
<1>1. /\ Put(c, "tail_put", "md_put")
      /\ ion' = [t \in DOMAIN ion \cup {tail} |->
                   IF t = tail THEN [io_node1[c] EXCEPT !.ion_next = a] ELSE ion[t]]
      /\ io_node1' = [io_node1 EXCEPT ![c] = NewNode]
      /\ UNCHANGED <<md, meta_data>>
  BY DEF TailPut, Stored
<1>2. PICK l : Moved(c, l) /\ pc[c] = "tail_put" /\ l \in {"md_put", "idle"}
  BY <1>1, PutMoved
<1>3. pc'[c] = l /\ UNCHANGED <<io_type, arrive_time, last>>
  BY <1>2, MovedRest
<1>4. pc[c] \in Writing
  BY <1>2 DEF Writing
<1>5. PICK n, s : ListIs(n, s)
  BY DEF ListKept
<1>6. /\ Chain(n, s) /\ Members(n, s) \subseteq DOMAIN ion
      /\ SameEnds(md, meta_data[c]) /\ tail = md.io_node_q_tail /\ tail # Empty
      /\ n # 0 /\ tail = s[n - 1] /\ tail \in Members(n, s)
      /\ n \in Nat /\ n - 1 \in 0 .. n - 1
      /\ \A i \in 0 .. n - 1 : s[i] \in DOMAIN ion
  <2>1. Chain(n, s) /\ SameEnds(md, meta_data[c])
    BY <1>4, <1>5 DEF ListIs, ListKept, Doing
  <2>2. tail # Empty /\ tail = md.io_node_q_tail
    BY <1>2, <2>1 DEF Follows, SameEnds
  <2> QED BY <2>1, <2>2, EndsEmpty, MembersKnown
<1>7. /\ a \notin Members(n, s) /\ a \in DOMAIN ion
      /\ ion[a].ion_pre = md.io_node_q_tail
      /\ io_node1[c] = ion[tail] /\ ion[tail] \in IO_Node
  BY <1>2, <1>5, <1>6 DEF ListIs, ListKept, Doing, Linking, StateOK, Follows
<1> HIDE DEF a, tail
<1>8. /\ DOMAIN ion' = DOMAIN ion
      /\ \A t \in DOMAIN ion \ {tail} : ion'[t] = ion[t]
      /\ ion'[tail].ion_pre = ion[tail].ion_pre /\ ion'[tail].ion_next = a
  BY <1>1, <1>6, <1>7 DEF IO_Node
<1>9. Chain(n, s)'
  <2>1. \A i \in 0 .. n - 1 : i + 1 < n => s[i] # tail
    BY <1>6 DEF Chain
  <2> QED BY <1>1, <1>6, <1>8, <2>1, ChainGrows
<1>10. Named(c)' /\ Doing(c)'
  <2>1. Named(c) /\ a = arrive_time'[c]
    BY <1>3 DEF ListKept, a
  <2>2. Named(c)'
    BY <1>2, <1>3, <1>8, <2>1 DEF Named, Listing, Writing, Linking, Requesting, Updating
  <2>3. ion'[a] = ion[a]
    BY <1>6, <1>7, <1>8
  <2>4. Doing(c)'
    BY <1>1, <1>2, <1>3, <1>6, <1>7, <1>8, <2>1, <2>3 DEF Doing, Linking, SameEnds
  <2> QED BY <2>2, <2>4
<1>11. Written'
  BY <1>3, <1>8 DEF ListKept, Written
<1> QED BY <1>2, <1>4, <1>7, <1>8, <1>9, <1>10, <1>11, Wrote DEF a

\* The list with one more io_node at its end.
LEMMA ListMetaPut ==
  ASSUME NamesSound, OneAtATime, ListKept, NEW c \in Client, WriteMetaPut(c)
  PROVE  ListKept'
<1> DEFINE a == arrive_time[c]
<1> USE DEF NamesSound
<1>1. /\ Put(c, "md_put", "iod_put")
      /\ meta_data' = [meta_data EXCEPT ![c] = NewMeta]
      /\ UNCHANGED <<ion, io_node1>>
  BY DEF WriteMetaPut, GetMeta
<1>2. PICK l : Moved(c, l) /\ pc[c] = "md_put" /\ l \in {"iod_put", "idle"}
  BY <1>1, PutMoved
<1>3. pc'[c] = l /\ UNCHANGED <<io_type, arrive_time, last>>
  BY <1>2, MovedRest
<1>4. pc[c] \in Writing /\ l \notin Writing \cup Linking
  BY <1>2 DEF Writing, Linking
<1>5. PICK n, s : ListIs(n, s)
  BY DEF ListKept
<1>6. /\ Chain(n, s) /\ SameEnds(md, meta_data[c])
      /\ n \in Nat /\ s \in [0 .. n - 1 -> DOMAIN ion]
      /\ n = 0 <=> md.io_node_q_head = Empty
      /\ n = 0 <=> md.io_node_q_tail = Empty
      /\ n # 0 => md.io_node_q_tail = s[n - 1] /\ md.io_node_q_head = s[0]
  <2>1. Chain(n, s) /\ SameEnds(md, meta_data[c])
    BY <1>4, <1>5 DEF ListIs, ListKept, Doing
  <2> QED BY <2>1, EndsEmpty DEF Chain
<1>7. /\ a \notin Members(n, s) /\ a \in DOMAIN ion
      /\ ion[a].ion_pre = md.io_node_q_tail
      /\ n # 0 => ion[s[n - 1]].ion_next = a
  BY <1>2, <1>5, <1>6 DEF ListIs, ListKept, Doing, Linking, Follows
<1>8. /\ md'.io_node_q_head = IF md.io_node_q_head = Empty THEN a ELSE md.io_node_q_head
      /\ md'.io_node_q_tail = a
  BY <1>6 DEF WriteMetaPut, StateOK, Meta_Data, SameEnds
<1> HIDE DEF a
<1>9. PICK s1 : /\ s1 \in [0 .. n -> DOMAIN ion] /\ s1[n] = a
                /\ \A i \in 0 .. n - 1 : s1[i] = s[i]
                /\ (n + 1) - 1 = n /\ n + 1 \in Nat /\ n + 1 # 0
  <2> DEFINE s2 == [i \in 0 .. n |-> IF i = n THEN a ELSE s[i]]
  <2>1. /\ s2 \in [0 .. n -> DOMAIN ion] /\ s2[n] = a
        /\ \A i \in 0 .. n - 1 : s2[i] = s[i]
        /\ (n + 1) - 1 = n /\ n + 1 \in Nat /\ n + 1 # 0
    BY <1>6, <1>7
  <2> QED BY <2>1
<1>10. \A i \in 0 .. n - 1 : s[i] \in Members(n, s)
  BY DEF Members
<1>11. Chain(n + 1, s1)'
  <2>1. \A i, j \in 0 .. n : s1[i] = s1[j] => i = j
    <3> SUFFICES ASSUME NEW i \in 0 .. n, NEW j \in 0 .. n, s1[i] = s1[j] PROVE i = j
      OBVIOUS
    <3>1. CASE i # n /\ j # n
      <4>1. i \in 0 .. n - 1 /\ j \in 0 .. n - 1
        BY <1>6, <3>1
      <4> QED BY <1>6, <1>9, <4>1 DEF Chain
    <3>2. CASE i = n \/ j = n
      <4>1. \A k \in 0 .. n : k = n \/ k \in 0 .. n - 1
        BY <1>6
      <4> QED BY <1>7, <1>9, <1>10, <3>2, <4>1
    <3> QED BY <3>1, <3>2
  <2>2. ion[s1[0]].ion_pre = Empty
    <3>1. CASE n = 0
      BY <1>6, <1>7, <1>9, <3>1
    <3>2. CASE n # 0
      <4>1. 0 \in 0 .. n - 1
        BY <1>6, <3>2
      <4> QED BY <1>6, <1>9, <3>2, <4>1 DEF Chain
    <3> QED BY <3>1, <3>2
  <2>3. ASSUME NEW i \in 0 .. n, i + 1 < n + 1
        PROVE  ion[s1[i]].ion_next = s1[i + 1] /\ ion[s1[i + 1]].ion_pre = s1[i]
    <3>1. i \in 0 .. n - 1 /\ s1[i] = s[i] /\ n # 0
      BY <1>6, <1>9, <2>3
    <3>2. CASE i + 1 < n
      <4>1. i + 1 \in 0 .. n - 1 /\ s1[i + 1] = s[i + 1]
        BY <1>6, <1>9, <3>1, <3>2
      <4> QED BY <1>6, <3>1, <3>2, <4>1 DEF Chain, BothWays
    <3>3. CASE ~(i + 1 < n)
      <4>1. i = n - 1 /\ i + 1 = n
        BY <1>6, <3>1, <3>3
      <4> QED BY <1>6, <1>7, <1>9, <3>1, <4>1
    <3> QED BY <3>2, <3>3
  <2>4. Ends(n + 1, s1, md)'
    <3>1. md'.io_node_q_head = s1[0]
      <4>1. n # 0 => 0 \in 0 .. n - 1
        BY <1>6
      <4> QED BY <1>6, <1>8, <1>9, <4>1
    <3> QED BY <1>8, <1>9, <3>1 DEF Ends
  <2>5. BothWays(n + 1, s1)'
    BY <1>1, <1>9, <2>3 DEF BothWays
  <2> QED BY <1>1, <1>9, <2>1, <2>2, <2>4, <2>5 DEF Chain
<1>12. Named(c)' /\ Doing(c)'
  <2>1. Named(c)
    BY DEF ListKept
  <2>2. Named(c)'
    BY <1>2, <1>3, <2>1 DEF Named, Listing, Writing, Linking, Requesting
  <2>3. Doing(c)'
    BY <1>3, <1>4 DEF Doing, Linking
  <2> QED BY <2>2, <2>3
<1>13. Written'
  BY <1>1, <1>3 DEF ListKept, Written
<1> QED BY <1>1, <1>2, <1>4, <1>11, <1>12, <1>13, Wrote

-----------------------------------------------------------------------------
(* The list in all steps *)

LEMMA ListUpdate ==
  ASSUME StateOK, Fresh, ListKept, NEW c \in Client, ReplicaUpdate(c),
         c \in stale => UNCHANGED <<exists, md>>
  PROVE  ListKept'
<1>1. CASE RepPut(c)
  <2>1. Put(c, "rep_put", "idle") /\ Forget(c) /\ UNCHANGED ion
    BY <1>1 DEF RepPut
  <2>2. Moved(c, "idle") /\ SameEnds(md, md')
    BY <1>1, <2>1, PutMoved, PutEnds DEF Forget, GetMeta
  <2> QED BY <2>1, <2>2, RestsFree DEF Writing, Aside
<1>2. CASE RepGet(c) \/ RepIon(c) \/ RepIod(c) \/ RepCrash(c)
  <2>1. /\ UNCHANGED <<ion, md>> /\ (Works \/ Fails)
        /\ \E from : \E to \in Aside : Goto(c, from, to)
        /\ UNCHANGED meta_data \/ \E m : meta_data' = [meta_data EXCEPT ![c] = m]
        /\ UNCHANGED io_node1 \/ \E m : io_node1' = [io_node1 EXCEPT ![c] = m]
    <3>1. CASE RepGet(c)
      BY <3>1 DEF RepGet, GetMeta, store, Aside, Updating
    <3>2. CASE RepIon(c)
      BY <3>2 DEF RepIon, Forget, GetMeta, store, Aside, Updating
    <3>3. CASE RepIod(c)
      <4>1. UNCHANGED meta_data
            \/ meta_data' = [meta_data EXCEPT ![c].my_rep[Host[c]] = Empty]
        BY <3>3 DEF RepIod
      <4>2. UNCHANGED meta_data \/ \E m : meta_data' = [meta_data EXCEPT ![c] = m]
        BY <4>1
      <4> QED BY <3>3, <4>2 DEF RepIod, store, Aside, Updating
    <3>4. CASE RepCrash(c)
      BY <3>4 DEF RepCrash, Forget, GetMeta, store, Aside
    <3> QED BY <1>2, <3>1, <3>2, <3>3, <3>4
  <2>2. PICK l \in Aside : Moved(c, l)
    BY <2>1, GotoMoved
  <2>3. l \notin Writing
    BY DEF Aside, Updating, Writing
  <2> QED BY <2>1, <2>2, <2>3, RestsFree DEF SameEnds
<1> QED BY <1>1, <1>2 DEF ReplicaUpdate

LEMMA ListIdle ==
  ASSUME StateOK, ListKept, now' \in Nat, now <= now',
         UNCHANGED <<store, pc, request, copies>>
  PROVE  ListKept'
<1>1. UNCHANGED <<ion, md, pc, io_type, arrive_time, last, meta_data, io_node1>>
  BY DEF store, request, copies
<1>2. Apart'
  <2>1. now \in Nat /\ \A k \in IO_Type : last[k] \in Nat
    BY QueueAssumption DEF StateOK
  <2>2. \A c \in Client : /\ Entered(c)' = Entered(c)
                          /\ Requesting(c)' <=> Requesting(c)
    BY <1>1 DEF Entered, Requesting
  <2> QED BY <1>1, <2>1, <2>2 DEF ListKept, Apart
<1>3. Written'
  BY <1>1 DEF ListKept, Written
<1>4. ASSUME NEW c \in Client PROVE Named(c)' /\ Doing(c)'
  <2>1. Named(c) /\ Doing(c)
    BY DEF ListKept
  <2>2. Named(c)'
    BY <1>1, <2>1 DEF Named, Requesting
  <2>3. Doing(c)'
    BY <1>1, <2>1 DEF Doing
  <2> QED BY <2>2, <2>3
<1>5. PICK n, s : ListIs(n, s)
  BY DEF ListKept
<1>6. Chain(n, s)'
  BY <1>1, <1>5, ChainSame DEF ListIs, SameEnds
<1>7. ListIs(n, s)'
  BY <1>1, <1>5, <1>6 DEF ListIs, Members
<1> QED BY <1>2, <1>3, <1>4, <1>7 DEF ListKept

LEMMA ListNext ==
  ASSUME NamesSound, Fresh, harm = {} => InOrder /\ ListKept, [Next]_vars
  PROVE  (harm = {} => ListKept)'
<1> SUFFICES ASSUME harm' = {} PROVE ListKept'
  OBVIOUS
<1>1. StateOK
  BY DEF NamesSound
<1>2. CASE UNCHANGED vars \/ Tick
  <2>1. /\ UNCHANGED <<store, pc, request, copies, harm>>
        /\ now' \in Nat /\ now <= now'
    BY <1>1, <1>2, QueueAssumption DEF vars, history, Tick, StateOK
  <2> QED BY <1>1, <2>1, ListIdle
<1>3. ASSUME NEW c \in Client, ClientStep(c)
      PROVE  ListKept'
  <2>1. /\ ListKept /\ OneAtATime
        /\ c \in stale => UNCHANGED <<exists, md>>
        /\ ~ArrivesAlike(c)
    BY <1>3, Harmless DEF InOrder
  <2>2. CASE StoreDown(c)
    <3>1. /\ Goto(c, pc[c], "idle") /\ Fails /\ Forget(c)
          /\ UNCHANGED <<ion, md>>
      BY <2>2 DEF StoreDown, store
    <3>2. Moved(c, "idle")
      BY <1>1, <3>1, GotoMoved DEF Forget, GetMeta
    <3> QED BY <1>1, <2>1, <3>1, <3>2, RestsFree DEF SameEnds, Writing, Aside
  <2>3. CASE QueueOut(c)
    BY <1>1, <2>1, <2>3, ListTurn, ListIonPut, ListTailGet, ListTailPut, ListMetaPut
       DEF QueueOut
  <2> QED BY <1>1, <1>3, <2>1, <2>2, <2>3, ListEnqueue, ListUpdate DEF ClientStep
<1> QED BY <1>2, <1>3 DEF Next

LEMMA AlwaysListed == Spec => [](harm = {} => ListKept)
<1>1. Init => (harm = {} => ListKept)
  BY ListInit
<1>2. NamesSound /\ Fresh /\ (harm = {} => InOrder) /\ (harm = {} => ListKept)
        /\ [Next]_vars => (harm = {} => ListKept)'
  BY ListNext
<1> QED BY <1>1, <1>2, AlwaysInOrder, AlwaysFresh, NamesAlwaysSound, PTL DEF Spec

-----------------------------------------------------------------------------
(* What is met on the way along the list is its members *)

\* An io_node is in the list once, so the list is no longer than the names are.
LEMMA ListShort ==
  ASSUME StateOK, NEW n, NEW s, Chain(n, s) PROVE n <= MaxTime
<1>1. /\ n \in Nat /\ MaxTime \in Nat
      /\ s \in [0 .. n - 1 -> Time] /\ \A i, j \in 0 .. n - 1 : s[i] = s[j] => i = j
  BY QueueAssumption DEF Chain, StateOK
<1>2. /\ IsFiniteSet(0 .. n - 1) /\ Cardinality(0 .. n - 1) = n
      /\ IsFiniteSet(Time) /\ Cardinality(Time) = MaxTime
  <2>1. IsFiniteSet(0 .. n - 1) /\ IsFiniteSet(Time)
    BY <1>1, FS_Interval DEF Time
  <2>2. Cardinality(0 .. n - 1) = n
    BY <1>1, FS_Interval
  <2>3. Cardinality(Time) = MaxTime
    BY <1>1, FS_Interval DEF Time
  <2> QED BY <2>1, <2>2, <2>3
<1>3. ~(Cardinality(Time) < Cardinality(0 .. n - 1))
  BY <1>1, <1>2, FS_PigeonHole
<1> QED BY <1>1, <1>2, <1>3

LEMMA FromIs ==
  ASSUME StateOK, NEW n, NEW s, Chain(n, s), NEW k \in 0 .. MaxTime
  PROVE  From(k) = IF n = 0 THEN Empty ELSE IF k < n THEN s[k] ELSE s[n - 1]
<1> DEFINE head == md.io_node_q_head
           tail == md.io_node_q_tail
           Onto(t) == IF t \in DOMAIN ion /\ t # tail THEN ion[t].ion_next ELSE t
           Way(w) == w = [i \in 0 .. MaxTime |->
                            IF i = 0 THEN head
                            ELSE IF w[i - 1] \in DOMAIN ion /\ w[i - 1] # tail
                                 THEN ion[w[i - 1]].ion_next ELSE w[i - 1]]
           at == [i \in 0 .. MaxTime |->
                    IF n = 0 THEN Empty ELSE IF i < n THEN s[i] ELSE s[n - 1]]
           on == CHOOSE w : Way(w)
<1>1. From(k) = on[k]
  BY DEF From
<1>2. /\ n \in Nat /\ MaxTime \in Nat
      /\ Empty \notin DOMAIN ion
      /\ n = 0 => head = Empty
      /\ n # 0 => head = s[0] /\ tail = s[n - 1]
      /\ \A i \in 0 .. n - 1 : s[i] \in DOMAIN ion
      /\ \A i, j \in 0 .. n - 1 : s[i] = s[j] => i = j
      /\ \A i \in 0 .. n - 1 : i + 1 < n => ion[s[i]].ion_next = s[i + 1]
  BY QueueAssumption, MembersKnown DEF Chain, Ends, BothWays
<1> HIDE DEF head, tail
<1>3. \A i \in 0 .. MaxTime : i # 0 => at[i] = Onto(at[i - 1])
  <2> SUFFICES ASSUME NEW i \in 0 .. MaxTime, i # 0 PROVE at[i] = Onto(at[i - 1])
    OBVIOUS
  <2>1. i - 1 \in 0 .. MaxTime /\ i \in Nat
    BY <1>2
  <2>2. CASE n = 0
    BY <1>2, <2>1, <2>2
  <2>3. CASE n # 0 /\ i < n
    <3>1. i - 1 \in 0 .. n - 1 /\ n - 1 \in 0 .. n - 1 /\ i - 1 # n - 1 /\ (i - 1) + 1 = i
      BY <1>2, <2>1, <2>3
    <3>2. s[i - 1] # tail /\ ion[s[i - 1]].ion_next = s[i] /\ s[i - 1] \in DOMAIN ion
      BY <1>2, <2>3, <3>1
    <3>3. at[i] = s[i] /\ at[i - 1] = s[i - 1]
      BY <1>2, <2>1, <2>3
    <3> QED BY <3>2, <3>3
  <2>4. CASE n # 0 /\ ~(i < n)
    <3>1. at[i] = s[n - 1] /\ at[i - 1] = s[n - 1]
      BY <1>2, <2>1, <2>4
    <3> QED BY <1>2, <2>4, <3>1
  <2> QED BY <2>2, <2>3, <2>4
<1>4. at[0] = head
  BY <1>2
<1> HIDE DEF at
<1>5. at = [i \in 0 .. MaxTime |-> at[i]]
  BY DEF at
<1>6. Way(at)
  BY <1>3, <1>4, <1>5
<1>7. Way(on)
  <2>1. \E w : Way(w)
    BY <1>6
  <2> HIDE DEF Way
  <2> QED BY <2>1, Zenon
<1> HIDE DEF on
<1>8. on[0] = head /\ \A i \in 0 .. MaxTime : i # 0 => on[i] = Onto(on[i - 1])
  BY <1>2, <1>7
<1> DEFINE T == {i \in Nat : i <= MaxTime => on[i] = at[i]}
<1>9. 0 \in T
  BY <1>4, <1>8
<1>10. ASSUME NEW i \in Nat, i \in T PROVE i + 1 \in T
  <2> SUFFICES ASSUME i + 1 <= MaxTime PROVE on[i + 1] = at[i + 1]
    OBVIOUS
  <2>1. i + 1 \in 0 .. MaxTime /\ i + 1 # 0 /\ (i + 1) - 1 = i /\ i <= MaxTime
    BY <1>2
  <2>2. on[i] = at[i]
    BY <1>10, <2>1
  <2> QED BY <1>3, <1>8, <2>1, <2>2
<1> HIDE DEF T
<1>11. Nat \subseteq T
  BY <1>9, <1>10, Induct
<1>12. on[k] = at[k]
  <2>1. k \in Nat /\ k <= MaxTime
    BY <1>2
  <2> QED BY <1>11, <2>1 DEF T
<1> QED BY <1>1, <1>12 DEF at

LEMMA ListedIs ==
  ASSUME StateOK, NEW n, NEW s, Chain(n, s)
  PROVE  Listed = IF n = 0 THEN {Empty} ELSE Members(n, s)
<1>1. n \in Nat /\ MaxTime \in Nat /\ n <= MaxTime
  BY QueueAssumption, ListShort DEF Chain
<1>2. \A k \in 0 .. MaxTime :
        From(k) = IF n = 0 THEN Empty ELSE IF k < n THEN s[k] ELSE s[n - 1]
  BY FromIs
<1>3. CASE n = 0
  BY <1>1, <1>2, <1>3 DEF Listed
<1>4. CASE n # 0
  <2>1. \A k \in 0 .. MaxTime : From(k) \in Members(n, s)
    <3> TAKE k \in 0 .. MaxTime
    <3>1. (k < n => k \in 0 .. n - 1) /\ n - 1 \in 0 .. n - 1
      BY <1>1, <1>4
    <3> QED BY <1>2, <1>4, <3>1 DEF Members
  <2>2. \A i \in 0 .. n - 1 : i \in 0 .. MaxTime /\ i < n
    BY <1>1
  <2>3. \A i \in 0 .. n - 1 : From(i) = s[i]
    BY <1>2, <1>4, <2>2
  <2> QED BY <1>4, <2>1, <2>2, <2>3 DEF Listed, Members
<1> QED BY <1>3, <1>4

-----------------------------------------------------------------------------
(* What the list promises *)

(* The list leads from its head to its tail and back, for any clients and  *)
(* whatever operation fails, until an outdated copy is put over something  *)
(* newer, a request arrives that looks like another, or the ring fills up: *)
(* a write that stops halfway, and a write whose copy is outdated by a     *)
(* request or an update in the meantime, break no link.                    *)
THEOREM ListAlwaysLinked == Spec => []ListWhole
<1>1. ASSUME StateOK, ListKept PROVE ListLinked
  <2>1. PICK n, s : Chain(n, s)
    BY <1>1 DEF ListKept, ListIs
  <2> SUFFICES ASSUME md.io_node_q_head # Empty
               PROVE  /\ md.io_node_q_tail \in Listed
                      /\ Listed \subseteq DOMAIN ion
                      /\ ion[md.io_node_q_head].ion_pre = Empty
                      /\ \A t \in Listed \ {md.io_node_q_tail} :
                           ion[ion[t].ion_next].ion_pre = t
    BY DEF ListLinked
  <2>2. /\ n # 0 /\ n \in Nat
        /\ md.io_node_q_head = s[0] /\ md.io_node_q_tail = s[n - 1]
        /\ ion[s[0]].ion_pre = Empty
    BY <2>1 DEF Chain, Ends
  <2>3. Listed = Members(n, s)
    BY <1>1, <2>1, <2>2, ListedIs
  <2>4. Members(n, s) \subseteq DOMAIN ion /\ s[n - 1] \in Members(n, s)
    BY <1>1, <2>1, <2>2, MembersKnown
  <2>5. ASSUME NEW t \in Members(n, s), t # s[n - 1]
        PROVE  ion[ion[t].ion_next].ion_pre = t
    <3>1. PICK i \in 0 .. n - 1 : t = s[i]
      BY DEF Members
    <3>2. i + 1 < n
      BY <2>2, <2>5, <3>1
    <3> QED BY <2>1, <3>1, <3>2 DEF Chain, BothWays
  <2> QED BY <2>2, <2>3, <2>4, <2>5
<1>2. NamesSound /\ (harm = {} => ListKept) => ListWhole
  BY <1>1 DEF ListWhole, NamesSound
<1> QED BY <1>2, AlwaysListed, NamesAlwaysSound, PTL

-----------------------------------------------------------------------------
(* The queue implements IoTurns when nothing fails: the clients that have  *)
(* joined stand in the ring from its head to its tail, and nobody else.    *)

TurnOrder == IF exists
             THEN [i \in 1 .. Cardinality(Joined) |->
                     OwnerOf((md.head + i - 1) % IO_Q_LEN)]
             ELSE <<>>
WhoseTurn == IF exists /\ \E c \in Client : OnTurn(c)
             THEN CHOOSE c \in Client : OnTurn(c) ELSE Nobody

Span(m) == IF m.head <= m.tail THEN m.tail - m.head ELSE m.tail - m.head + IO_Q_LEN
Around(h, i) == IF h + i - 1 < IO_Q_LEN THEN h + i - 1 ELSE h + i - 1 - IO_Q_LEN
Owners == [p \in Place |-> OwnerOf(p)]

Lined ==
  /\ ~exists => TurnOrder = <<>> /\ WhoseTurn = Nobody
  /\ exists =>
       /\ TurnOrder = [i \in 1 .. Span(md) |-> Owners[Around(md.head, i)]]
       /\ \A p \in Occupied(md) : Owners[p] \in Joined
       /\ \A p \in Occupied(md) : \A c \in Joined :
            md.io_q_node[p] = Entered(c) <=> Owners[p] = c
       /\ \A c \in Client : OnTurn(c) => WhoseTurn = c
       /\ (\A c \in Client : ~OnTurn(c)) => WhoseTurn = Nobody

\* From the head round to the tail.
LEMMA AroundRing ==
  ASSUME NEW m, m.head \in Place, m.tail \in Place
  PROVE  /\ Span(m) \in 0 .. IO_Q_LEN - 1
         /\ \A i \in 1 .. Span(m) : /\ Around(m.head, i) \in Occupied(m)
                                    /\ (m.head + i - 1) % IO_Q_LEN = Around(m.head, i)
         /\ \A i, j \in 1 .. Span(m) : Around(m.head, i) = Around(m.head, j) => i = j
         /\ \A p \in Occupied(m) : \E i \in 1 .. Span(m) : Around(m.head, i) = p
<1> DEFINE h == m.head
           t == m.tail
           N == IO_Q_LEN
           n == Span(m)
<1>1. h \in 0 .. N - 1 /\ t \in 0 .. N - 1 /\ N \in Nat \ {0} /\ Place = 0 .. N - 1
  BY QueueAssumption DEF Place
<1>2. n = IF h <= t THEN t - h ELSE t - h + N
  BY DEF Span
<1> HIDE DEF h, t, N, n
<1>3. Occupied(m) = {p \in 0 .. N - 1 : IF h <= t THEN h <= p /\ p < t
                                                  ELSE h <= p \/ p < t}
  BY <1>1 DEF Occupied, h, t
<1>4. n \in 0 .. N - 1
  BY <1>1, <1>2
<1>5. \A i \in 1 .. n : Around(h, i) = IF h + i - 1 < N THEN h + i - 1 ELSE h + i - 1 - N
  BY DEF Around, N
<1>6. ASSUME NEW i \in 1 .. n
      PROVE  Around(h, i) \in Occupied(m) /\ (h + i - 1) % N = Around(h, i)
  <2>1. Around(h, i) \in Occupied(m)
    BY <1>1, <1>2, <1>3, <1>5
  <2>2. h + i - 1 \in 0 .. N + N - 1
    BY <1>1, <1>4
  <2>3. \A x \in 0 .. N + N - 1 : x % N = IF x < N THEN x ELSE x - N
    BY <1>1
  <2>4. (h + i - 1) % N = IF h + i - 1 < N THEN h + i - 1 ELSE h + i - 1 - N
    <3>1. PICK x \in 0 .. N + N - 1 : x = h + i - 1
      BY <2>2
    <3>2. x % N = IF x < N THEN x ELSE x - N
      BY <2>3
    <3> QED BY <1>1, <1>4, <3>1, <3>2
  <2> QED BY <1>5, <2>1, <2>4
<1>7. \A i, j \in 1 .. n : Around(h, i) = Around(h, j) => i = j
  BY <1>1, <1>2, <1>5
<1>8. ASSUME NEW p \in Occupied(m) PROVE \E i \in 1 .. n : Around(h, i) = p
  <2>1. CASE h <= p
    <3>1. p - h + 1 \in 1 .. n /\ h + (p - h + 1) - 1 = p /\ p < N
      BY <1>1, <1>2, <1>3, <2>1
    <3>2. Around(h, p - h + 1) = p
      BY <1>1, <1>3, <1>5, <3>1
    <3> QED BY <3>1, <3>2
  <2>2. CASE ~(h <= p)
    <3>1. /\ p - h + N + 1 \in 1 .. n /\ h + (p - h + N + 1) - 1 = p + N
          /\ ~(p + N < N) /\ p + N - N = p
      BY <1>1, <1>2, <1>3, <2>2
    <3>2. Around(h, p - h + N + 1) = p
      BY <1>1, <1>3, <1>5, <3>1
    <3> QED BY <3>1, <3>2
  <2> QED BY <2>1, <2>2
<1> QED BY <1>4, <1>6, <1>7, <1>8 DEF h, N, n

LEMMA LinedUp == ASSUME MaxFail = 0, StateOK, InOrder PROVE Lined
<1>1. CASE ~exists
  BY <1>1 DEF Lined, TurnOrder, WhoseTurn
<1>2. CASE exists
  <2>1. Abandoned = {}
    <3>1. Cardinality(Abandoned) <= fails /\ fails = 0
      BY <1>2 DEF InOrder, StateOK
    <3>2. IsFiniteSet(Abandoned)
      BY OccupiedFinite, FS_Subset DEF Abandoned
    <3>3. Cardinality(Abandoned) \in Nat
      BY <3>2, FS_CardinalityType
    <3>4. Cardinality(Abandoned) = 0
      BY <3>1, <3>3
    <3> QED BY <3>2, <3>4, FS_EmptySet
  <2>2. \A p \in Occupied(md) : \E c \in Joined : Entered(c) = md.io_q_node[p]
    BY <2>1 DEF Abandoned
  <2>3. \A p \in Occupied(md) : /\ OwnerOf(p) \in Joined
                                /\ Entered(OwnerOf(p)) = md.io_q_node[p]
    BY <2>2 DEF OwnerOf
  <2>4. \A c, d \in Joined : Entered(c) = Entered(d) => c = d
    BY DEF InOrder, Apart, Joined, OnTurn, Requesting, Holding, Updating
  <2>5. \A p \in Occupied(md) : Owners[p] = OwnerOf(p)
    BY DEF Owners, Occupied
  <2>6. \A p \in Occupied(md) : /\ Owners[p] \in Joined
                                /\ Entered(Owners[p]) = md.io_q_node[p]
    BY <2>3, <2>5
  <2>7. /\ Span(md) \in Nat
        /\ \A i \in 1 .. Span(md) :
             /\ Around(md.head, i) \in Occupied(md)
             /\ (md.head + i - 1) % IO_Q_LEN = Around(md.head, i)
        /\ \A i, j \in 1 .. Span(md) :
             Around(md.head, i) = Around(md.head, j) => i = j
        /\ \A p \in Occupied(md) : \E i \in 1 .. Span(md) : Around(md.head, i) = p
    BY RingType, AroundRing
  <2>8. Cardinality(Joined) = Span(md)
    <3> DEFINE f == [i \in 1 .. Span(md) |-> Owners[Around(md.head, i)]]
    <3>1. f \in [1 .. Span(md) -> Joined]
      BY <2>6, <2>7
    <3>2. ASSUME NEW i \in 1 .. Span(md), NEW j \in 1 .. Span(md), f[i] = f[j]
          PROVE  i = j
      <4>1. /\ Owners[Around(md.head, i)] = Owners[Around(md.head, j)]
            /\ Around(md.head, i) \in Occupied(md) /\ Around(md.head, j) \in Occupied(md)
        BY <2>7, <3>2
      <4>2. Placed(Owners[Around(md.head, i)])
        BY <1>2, <2>6, <4>1 DEF InOrder, Queued, Joined
      <4>3. Around(md.head, i) = Around(md.head, j)
        BY <2>6, <4>1, <4>2 DEF Placed, Occupied
      <4> QED BY <2>7, <4>3
    <3>3. ASSUME NEW c \in Joined PROVE \E i \in 1 .. Span(md) : f[i] = c
      <4>1. Placed(c)
        BY <1>2 DEF InOrder, Queued, Joined
      <4>2. PICK p \in Occupied(md) : md.io_q_node[p] = Entered(c)
        BY <4>1 DEF Placed, Occupied
      <4>3. Owners[p] = c
        BY <2>4, <2>6, <4>2
      <4>4. PICK i \in 1 .. Span(md) : Around(md.head, i) = p
        BY <2>7
      <4> QED BY <4>3, <4>4
    <3> HIDE DEF f
    <3>4. f \in Bijection(1 .. Span(md), Joined)
      BY <3>1, <3>2, <3>3 DEF Bijection, Injection, Surjection, IsInjective
    <3>5. ExistsBijection(1 .. Span(md), Joined)
      BY <3>4 DEF ExistsBijection
    <3>6. IsFiniteSet(1 .. Span(md)) /\ Cardinality(1 .. Span(md)) = Span(md)
      BY <2>7, FS_Interval
    <3> QED BY <3>5, <3>6, FS_Bijection
  <2>9. TurnOrder = [i \in 1 .. Span(md) |-> Owners[Around(md.head, i)]]
    <3>1. \A i \in 1 .. Span(md) :
            OwnerOf((md.head + i - 1) % IO_Q_LEN) = Owners[Around(md.head, i)]
      BY <2>5, <2>7
    <3> QED BY <1>2, <2>8, <3>1 DEF TurnOrder
  <2>10. \A p \in Occupied(md) : \A c \in Joined :
           md.io_q_node[p] = Entered(c) <=> Owners[p] = c
    BY <2>4, <2>6
  <2>11. /\ \A c \in Client : OnTurn(c) => WhoseTurn = c
         /\ (\A c \in Client : ~OnTurn(c)) => WhoseTurn = Nobody
    <3>1. \A c, d \in Client : OnTurn(c) /\ OnTurn(d) => c = d
      BY DEF InOrder, OneAtATime
    <3>2. ASSUME NEW c \in Client, OnTurn(c) PROVE WhoseTurn = c
      <4>1. OnTurn(CHOOSE d \in Client : OnTurn(d)) /\ (CHOOSE d \in Client : OnTurn(d)) \in Client
        BY <3>2
      <4> QED BY <1>2, <3>1, <3>2, <4>1 DEF WhoseTurn
    <3> QED BY <3>2 DEF WhoseTurn
  <2> QED BY <1>2, <2>6, <2>9, <2>10, <2>11 DEF Lined
<1> QED BY <1>1, <1>2

\* A sequence, given by its elements.
LEMMA LongerBy ==
  ASSUME NEW S, NEW n \in Nat, NEW s, NEW c, NEW f,
         s = [i \in 1 .. n |-> f[i]], \A i \in 1 .. n : f[i] \in S
  PROVE  /\ Len(s) = n /\ s \in Seq(S)
         /\ Append(s, c) = [i \in 1 .. n + 1 |-> IF i <= n THEN f[i] ELSE c]
<1>1. s \in Seq(S) /\ Len(s) = n
  OBVIOUS
<1>2. s \in Seq(S \cup {c})
  OBVIOUS
<1>3. Append(s, c) \in Seq(S \cup {c}) /\ Len(Append(s, c)) = n + 1
  BY <1>1, <1>2
<1>4. \A i \in 1 .. n + 1 : Append(s, c)[i] = IF i <= n THEN f[i] ELSE c
  BY <1>1, <1>2
<1> QED BY <1>1, <1>3, <1>4

LEMMA ShorterBy ==
  ASSUME NEW S, NEW n \in Nat, n # 0, NEW s, NEW f,
         s = [i \in 1 .. n |-> f[i]], \A i \in 1 .. n : f[i] \in S
  PROVE  Tail(s) = [i \in 1 .. n - 1 |-> f[i + 1]]
<1>1. s \in Seq(S) /\ Len(s) = n /\ s # <<>>
  OBVIOUS
<1>2. Tail(s) \in Seq(S) /\ Len(Tail(s)) = n - 1
  BY <1>1
<1>3. \A i \in 1 .. n - 1 : Tail(s)[i] = f[i + 1]
  BY <1>1
<1>4. PICK t : t = Tail(s)
  OBVIOUS
<1>5. PICK m \in Nat : m = n - 1
  OBVIOUS
<1>6. t \in Seq(S) /\ Len(t) = m /\ \A i \in 1 .. m : t[i] = f[i + 1]
  BY <1>2, <1>3, <1>4, <1>5
<1>7. t = [i \in 1 .. m |-> f[i + 1]]
  BY <1>6
<1> QED BY <1>4, <1>5, <1>7

\* What Lined says of the state after a step.
LEMMA LinedNext ==
  ASSUME Lined', exists'
  PROVE  /\ TurnOrder' = [i \in 1 .. Span(md') |-> Owners'[Around(md'.head, i)]]
         /\ \A p \in Occupied(md') : Owners'[p] \in Joined'
         /\ \A p \in Occupied(md') : \A c \in Joined' :
              md'.io_q_node[p] = Entered(c)' <=> Owners'[p] = c
         /\ \A c \in Client : OnTurn(c)' => WhoseTurn' = c
         /\ (\A c \in Client : ~OnTurn(c)') => WhoseTurn' = Nobody
<1>1. TurnOrder' = [i \in 1 .. Span(md') |-> Owners'[Around(md'.head, i)]]
  BY DEF Lined, Span, Around
<1>2. /\ \A p \in Occupied(md') : Owners'[p] \in Joined'
      /\ \A p \in Occupied(md') : \A c \in Joined' :
              md'.io_q_node[p] = Entered(c)' <=> Owners'[p] = c
  BY DEF Lined, Occupied
<1>3. /\ \A c \in Client : OnTurn(c)' => WhoseTurn' = c
      /\ (\A c \in Client : ~OnTurn(c)') => WhoseTurn' = Nobody
  BY DEF Lined
<1> QED BY <1>1, <1>2, <1>3

LEMMA TurnsStutter ==
  ASSUME StateOK, Lined, Lined', exists, exists', SameRing(md, md'), Joined' = Joined,
         \A d \in Client : OnTurn(d)' <=> OnTurn(d),
         \A d \in Joined : Entered(d)' = Entered(d)
  PROVE  UNCHANGED <<TurnOrder, WhoseTurn, exists>>
<1>1. /\ Span(md') = Span(md) /\ md'.head = md.head
      /\ Occupied(md') = Occupied(md) /\ md'.io_q_node = md.io_q_node
  BY SameOccupied DEF SameRing, Span
<1>2. \A p \in Occupied(md) : Owners'[p] = Owners[p]
  BY <1>1, LinedNext DEF Lined
<1>3. \A i \in 1 .. Span(md) : Around(md.head, i) \in Occupied(md)
  BY RingType, AroundRing
<1>4. TurnOrder' = TurnOrder
  <2>1. TurnOrder = [i \in 1 .. Span(md) |-> Owners[Around(md.head, i)]]
    BY DEF Lined
  <2>2. TurnOrder' = [i \in 1 .. Span(md) |-> Owners'[Around(md.head, i)]]
    BY <1>1, LinedNext
  <2>3. \A i \in 1 .. Span(md) : Owners'[Around(md.head, i)] = Owners[Around(md.head, i)]
    BY <1>2, <1>3
  <2> QED BY <2>1, <2>2, <2>3
<1>5. WhoseTurn' = WhoseTurn
  BY LinedNext DEF Lined
<1> QED BY <1>4, <1>5

\* The turn of the client whose entry is at the head begins.
LEMMA TurnsBegin ==
  ASSUME StateOK, Lined, Lined', OneAtATime', exists, exists', SameRing(md, md'),
         Joined' = Joined, \A d \in Joined : Entered(d)' = Entered(d),
         NEW c \in Joined, ~OnTurn(c), OnTurn(c)',
         \A d \in Client \ {c} : OnTurn(d)' <=> OnTurn(d),
         md.head \in Occupied(md), md.io_q_node[md.head] = Entered(c)
  PROVE  /\ WhoseTurn = Nobody /\ WhoseTurn' = c
         /\ TurnOrder # <<>> /\ Head(TurnOrder) = c
         /\ UNCHANGED <<TurnOrder, exists>>
<1>1. /\ Span(md') = Span(md) /\ md'.head = md.head
      /\ Occupied(md') = Occupied(md) /\ md'.io_q_node = md.io_q_node
  BY SameOccupied DEF SameRing, Span
<1>2. \A p \in Occupied(md) : Owners'[p] = Owners[p]
  BY <1>1, LinedNext DEF Lined
<1>3. /\ \A i \in 1 .. Span(md) : Around(md.head, i) \in Occupied(md)
      /\ Span(md) \in Nat /\ md.head \in Place
      /\ \E i \in 1 .. Span(md) : Around(md.head, i) = md.head
  BY RingType, AroundRing
<1>4. TurnOrder' = TurnOrder
  <2>1. TurnOrder = [i \in 1 .. Span(md) |-> Owners[Around(md.head, i)]]
    BY DEF Lined
  <2>2. TurnOrder' = [i \in 1 .. Span(md) |-> Owners'[Around(md.head, i)]]
    BY <1>1, LinedNext
  <2>3. \A i \in 1 .. Span(md) : Owners'[Around(md.head, i)] = Owners[Around(md.head, i)]
    BY <1>2, <1>3
  <2> QED BY <2>1, <2>2, <2>3
<1>5. /\ WhoseTurn' = c /\ WhoseTurn = Nobody
  <2>1. c \in Client /\ \A d \in Client : ~OnTurn(d)
    BY DEF OneAtATime, Joined
  <2> QED BY <2>1, LinedNext DEF Lined
<1>6. Head(TurnOrder) = c /\ TurnOrder # <<>>
  <2>1. 1 \in 1 .. Span(md) /\ Around(md.head, 1) = md.head
    BY <1>3, QueueAssumption DEF Around, Place
  <2>2. Owners[md.head] = c
    BY DEF Lined
  <2>3. TurnOrder = [i \in 1 .. Span(md) |-> Owners[Around(md.head, i)]]
    BY DEF Lined
  <2>4. TurnOrder[1] = c
    BY <2>1, <2>2, <2>3
  <2>5. TurnOrder \in Seq(Joined) /\ Len(TurnOrder) = Span(md)
    <3>1. \A i \in 1 .. Span(md) : Owners[Around(md.head, i)] \in Joined
      BY <1>3 DEF Lined
    <3> QED BY <1>3, <2>3, <3>1
  <2> QED BY <1>3, <2>1, <2>4, <2>5
<1> QED BY <1>4, <1>5, <1>6

\* A client joins at the tail.
LEMMA TurnsJoin ==
  ASSUME StateOK, Lined, Lined', exists, exists', NEW c \in Client, c \notin Joined,
         Joined' = Joined \cup {c}, \A d \in Joined' : Entered(d)' = Entered(d),
         Enters(md, md', Entered(c)), Succ(md.tail) # md.head,
         \A d \in Client : OnTurn(d)' <=> OnTurn(d)
  PROVE  /\ \A i \in 1 .. Len(TurnOrder) : TurnOrder[i] # c
         /\ TurnOrder' = Append(TurnOrder, c)
         /\ UNCHANGED <<WhoseTurn, exists>>
<1>1. /\ md.head \in Place /\ md.tail \in Place
      /\ md.io_q_node \in [Place -> Entry] /\ IO_Q_LEN \in Nat \ {0}
  BY RingType
<1>2. /\ md.tail \notin Occupied(md) /\ Occupied(md') = Occupied(md) \cup {md.tail}
      /\ md'.head = md.head
      /\ md'.io_q_node = [md.io_q_node EXCEPT ![md.tail] = Entered(c)]
  BY <1>1, OccupiedEnter DEF Enters
<1>3. /\ Span(md) \in Nat
      /\ \A i \in 1 .. Span(md) : Around(md.head, i) \in Occupied(md)
  BY <1>1, AroundRing
<1>4. Span(md') = Span(md) + 1 /\ Around(md.head, Span(md) + 1) = md.tail
  <2> DEFINE h == md.head
             t == md.tail
             N == IO_Q_LEN
  <2>1. h \in 0 .. N - 1 /\ t \in 0 .. N - 1 /\ N \in Nat
    BY <1>1 DEF Place
  <2>2. md'.head = h /\ md'.tail = IF t = N - 1 THEN 0 ELSE t + 1
    BY <1>2 DEF Enters, Succ
  <2>3. (IF t = N - 1 THEN 0 ELSE t + 1) # h
    BY DEF Succ
  <2>4. Span(md) = IF h <= t THEN t - h ELSE t - h + N
    BY DEF Span
  <2> HIDE DEF h, t, N
  <2>5. Span(md') = IF h <= md'.tail THEN md'.tail - h ELSE md'.tail - h + N
    BY <2>2 DEF Span, N
  <2>6. Span(md') = Span(md) + 1
    BY <2>1, <2>2, <2>3, <2>4, <2>5
  <2>7. Around(h, Span(md) + 1) = t
    BY <2>1, <2>4 DEF Around, N
  <2> QED BY <2>6, <2>7 DEF h, t
<1>5. \A p \in Occupied(md) : Owners'[p] = Owners[p]
  <2> SUFFICES ASSUME NEW p \in Occupied(md) PROVE Owners'[p] = Owners[p]
    OBVIOUS
  <2>1. PICK d \in Joined : Owners[p] = d /\ md.io_q_node[p] = Entered(d)
    BY DEF Lined
  <2>2. md'.io_q_node[p] = md.io_q_node[p] /\ p \in Occupied(md') /\ d \in Joined'
    BY <1>1, <1>2 DEF Occupied
  <2>3. md'.io_q_node[p] = Entered(d)'
    BY <2>1, <2>2
  <2> QED BY <2>1, <2>2, <2>3, LinedNext
<1>6. Owners'[md.tail] = c
  BY <1>1, <1>2, LinedNext
<1>7. TurnOrder = [i \in 1 .. Span(md) |-> Owners[Around(md.head, i)]]
  BY DEF Lined
<1>8. TurnOrder' = [i \in 1 .. Span(md) + 1 |-> Owners'[Around(md.head, i)]]
  BY <1>2, <1>4, LinedNext
<1>9. PICK n \in Nat : n = Span(md)
  BY <1>3
<1>10. PICK h \in Place : h = md.head
  BY <1>1
<1>11. PICK f : f = [i \in 1 .. n |-> Owners[Around(h, i)]]
  OBVIOUS
<1>12. \A i \in 1 .. n : f[i] \in Joined
  BY <1>3, <1>9, <1>10, <1>11 DEF Lined
<1>13. PICK s : s = TurnOrder
  OBVIOUS
<1>14. s = [i \in 1 .. n |-> f[i]]
  BY <1>7, <1>9, <1>10, <1>11, <1>13
<1>15. PICK J : J = Joined
  OBVIOUS
<1>16. \A i \in 1 .. n : f[i] \in J
  BY <1>12, <1>15
<1>17. /\ Len(s) = n
       /\ Append(s, c) = [i \in 1 .. n + 1 |-> IF i <= n THEN f[i] ELSE c]
  BY <1>14, <1>16, LongerBy
<1>18. \A i \in 1 .. n + 1 : Owners'[Around(h, i)] = IF i <= n THEN f[i] ELSE c
  BY <1>3, <1>4, <1>5, <1>6, <1>9, <1>10, <1>11
<1>19. TurnOrder' = Append(TurnOrder, c)
  BY <1>8, <1>9, <1>10, <1>13, <1>17, <1>18
<1>20. \A i \in 1 .. Len(TurnOrder) : TurnOrder[i] # c
  BY <1>13, <1>14, <1>16, <1>15, <1>17
<1>21. WhoseTurn' = WhoseTurn
  BY LinedNext DEF Lined
<1> QED BY <1>19, <1>20, <1>21

\* The client at the head leaves.
LEMMA TurnsEnd ==
  ASSUME StateOK, Lined, Lined', exists, exists', NEW c \in Client, OnTurn(c),
         Joined' = Joined \ {c}, \A d \in Joined : Entered(d)' = Entered(d),
         md.head \in Occupied(md), Passes(md, md'),
         \A d \in Client : ~OnTurn(d)',
         md.io_q_node[md.head] = Entered(c)
  PROVE  /\ WhoseTurn = c /\ WhoseTurn' = Nobody
         /\ TurnOrder' = Tail(TurnOrder)
         /\ UNCHANGED exists
<1>1. /\ md.head \in Place /\ md.tail \in Place /\ IO_Q_LEN \in Nat \ {0}
  BY RingType
<1>2. /\ Occupied(md') = Occupied(md) \ {md.head}
      /\ md'.head = Succ(md.head) /\ md'.io_q_node = md.io_q_node
  BY <1>1, OccupiedPass DEF Passes
<1>3. /\ Span(md) \in Nat
      /\ \A i \in 1 .. Span(md) : Around(md.head, i) \in Occupied(md)
      /\ \E i \in 1 .. Span(md) : Around(md.head, i) = md.head
      /\ \A i, j \in 1 .. Span(md) : Around(md.head, i) = Around(md.head, j) => i = j
  BY <1>1, AroundRing
<1>4. /\ Span(md') = Span(md) - 1 /\ Span(md) # 0
      /\ \A i \in 1 .. Span(md) - 1 : Around(md'.head, i) = Around(md.head, i + 1)
  <2> DEFINE h == md.head
             t == md.tail
             N == IO_Q_LEN
  <2>1. h \in 0 .. N - 1 /\ t \in 0 .. N - 1 /\ N \in Nat
    BY <1>1 DEF Place
  <2>2. md'.tail = t /\ md'.head = IF h = N - 1 THEN 0 ELSE h + 1
    BY DEF Passes, Succ
  <2>3. Span(md) = IF h <= t THEN t - h ELSE t - h + N
    BY DEF Span
  <2>4. Span(md) # 0
    BY <1>3
  <2> HIDE DEF h, t, N
  <2>5. Span(md') = IF md'.head <= t THEN t - md'.head ELSE t - md'.head + N
    BY <2>2 DEF Span, N
  <2>6. Span(md') = Span(md) - 1
    BY <2>1, <2>2, <2>3, <2>4, <2>5
  <2>7. \A i \in 1 .. Span(md) - 1 : Around(md'.head, i) = Around(h, i + 1)
    BY <2>1, <2>2, <2>3 DEF Around, N
  <2> QED BY <2>4, <2>6, <2>7 DEF h
<1>5. \A p \in Occupied(md') : Owners'[p] = Owners[p]
  <2> SUFFICES ASSUME NEW p \in Occupied(md') PROVE Owners'[p] = Owners[p]
    OBVIOUS
  <2>1. PICK d \in Joined' : Owners'[p] = d /\ md'.io_q_node[p] = Entered(d)'
    BY LinedNext
  <2>2. md'.io_q_node[p] = md.io_q_node[p] /\ p \in Occupied(md) /\ d \in Joined
    BY <1>2
  <2>3. md.io_q_node[p] = Entered(d)
    BY <2>1, <2>2
  <2> QED BY <2>1, <2>2, <2>3 DEF Lined
<1>6. \A i \in 1 .. Span(md) - 1 : Around(md'.head, i) \in Occupied(md')
  <2>1. md'.head \in Place /\ md'.tail \in Place
    BY <1>1, <1>2, SuccPlace DEF Passes
  <2> QED BY <1>4, <2>1, AroundRing
<1>7. TurnOrder = [i \in 1 .. Span(md) |-> Owners[Around(md.head, i)]]
  BY DEF Lined
<1>8. TurnOrder' = [i \in 1 .. Span(md) - 1 |-> Owners'[Around(md'.head, i)]]
  BY <1>4, LinedNext
<1>9. PICK n \in Nat : n = Span(md) /\ n # 0
  BY <1>3, <1>4
<1>10. PICK h \in Place : h = md.head
  BY <1>1
<1>11. PICK f : f = [i \in 1 .. n |-> Owners[Around(h, i)]]
  OBVIOUS
<1>12. PICK J : J = Joined
  OBVIOUS
<1>13. \A i \in 1 .. n : f[i] \in J
  BY <1>3, <1>9, <1>10, <1>11, <1>12 DEF Lined
<1>14. PICK s : s = TurnOrder
  OBVIOUS
<1>15. s = [i \in 1 .. n |-> f[i]]
  BY <1>7, <1>9, <1>10, <1>11, <1>14
<1>16. Tail(s) = [i \in 1 .. n - 1 |-> f[i + 1]]
  BY <1>9, <1>13, <1>15, ShorterBy
<1>17. \A i \in 1 .. n - 1 : Owners'[Around(md'.head, i)] = f[i + 1]
  <2> SUFFICES ASSUME NEW i \in 1 .. n - 1
               PROVE  Owners'[Around(md'.head, i)] = f[i + 1]
    OBVIOUS
  <2>1. i + 1 \in 1 .. n /\ Around(md'.head, i) = Around(h, i + 1)
    BY <1>4, <1>9, <1>10
  <2>2. Owners'[Around(md'.head, i)] = Owners[Around(md'.head, i)]
    BY <1>5, <1>6, <1>9
  <2> QED BY <1>11, <2>1, <2>2
<1>18. TurnOrder' = Tail(TurnOrder)
  BY <1>8, <1>9, <1>14, <1>16, <1>17
<1>19. WhoseTurn = c /\ WhoseTurn' = Nobody
  BY LinedNext DEF Lined
<1> QED BY <1>18, <1>19

-----------------------------------------------------------------------------
(* The steps, as steps of IoTurns *)

Turned == [Turns!Next]_(Turns!vars)

\* IoTurns, read in the terms above.
LEMMA TurnsRead ==
  /\ TurnOrder' = TurnOrder /\ WhoseTurn' = WhoseTurn /\ (exists' <=> exists) => Turned
  /\ \A c \in Client :
       /\ /\ exists /\ exists'
          /\ \A i \in 1 .. Len(TurnOrder) : TurnOrder[i] # c
          /\ TurnOrder' = Append(TurnOrder, c) /\ WhoseTurn' = WhoseTurn
          => Turned
       /\ /\ WhoseTurn = Nobody /\ WhoseTurn' = c
          /\ TurnOrder # <<>> /\ Head(TurnOrder) = c
          /\ TurnOrder' = TurnOrder /\ (exists' <=> exists)
          => Turned
       /\ /\ WhoseTurn = c /\ WhoseTurn' = Nobody
          /\ TurnOrder' = Tail(TurnOrder) /\ (exists' <=> exists)
          => Turned
       /\ /\ WhoseTurn = c /\ WhoseTurn' = Nobody
          /\ TurnOrder' = <<>> /\ ~exists'
          => Turned
<1>1. TurnOrder' = TurnOrder /\ WhoseTurn' = WhoseTurn /\ (exists' <=> exists) => Turned
  BY DEF Turned, Turns!vars, TurnOrder, WhoseTurn
<1>2. ASSUME NEW c \in Client,
             Turns!Join(c) \/ Turns!Begin(c) \/ Turns!End(c) \/ Turns!Remove(c)
      PROVE  Turned
  BY <1>2 DEF Turned, Turns!Next
<1>3. ASSUME NEW c \in Client, exists, exists',
             \A i \in 1 .. Len(TurnOrder) : TurnOrder[i] # c,
             TurnOrder' = Append(TurnOrder, c), WhoseTurn' = WhoseTurn
      PROVE  Turns!Join(c)
  BY <1>3 DEF Turns!Join, TurnOrder, WhoseTurn
<1>4. ASSUME NEW c \in Client, WhoseTurn = Nobody, WhoseTurn' = c,
             TurnOrder # <<>>, Head(TurnOrder) = c,
             TurnOrder' = TurnOrder, exists' <=> exists
      PROVE  Turns!Begin(c)
  BY <1>4 DEF Turns!Begin, TurnOrder, WhoseTurn
<1>5. ASSUME NEW c \in Client, WhoseTurn = c, WhoseTurn' = Nobody,
             TurnOrder' = Tail(TurnOrder), exists' <=> exists
      PROVE  Turns!End(c)
  BY <1>5 DEF Turns!End, TurnOrder, WhoseTurn
<1>6. ASSUME NEW c \in Client, WhoseTurn = c, WhoseTurn' = Nobody,
             TurnOrder' = <<>>, ~exists'
      PROVE  Turns!Remove(c)
  BY <1>6 DEF Turns!Remove, TurnOrder, WhoseTurn
<1> QED BY <1>1, <1>2, <1>3, <1>4, <1>5, <1>6

\* What the lemmas about the steps begin with; nothing fails.
Regular == NamesSound /\ Fresh /\ InOrder /\ Lined

LEMMA NoFailure ==
  ASSUME MaxFail = 0, StateOK
  PROVE  /\ ~Fails
         /\ \A c \in Client : ~StoreDown(c)
         /\ \A c \in Client : \A from, to :
              Put(c, from, to) => Goto(c, from, to) /\ Works
BY DEF StateOK, Fails, StoreDown, Put

\* No file, no turns.
LEMMA TurnsNowhere ==
  ASSUME Lined, Lined', ~exists, ~exists' PROVE Turned
BY TurnsRead DEF Lined

\* A client that neither joins nor leaves, nor begins or ends its turn.
LEMMA TurnsStay ==
  ASSUME StateOK, Lined, Lined', exists, exists', UNCHANGED exists,
         SameRing(md, md'), NEW c \in Client, NEW l, Takes(c, l), OnTurn(c)' <=> OnTurn(c),
         l = "wait" <=> pc[c] = "wait"
  PROVE  Turned
<1>1. \A d \in Client : OnTurn(d)' <=> OnTurn(d)
  BY JoinedKept
<1>2. Joined' = Joined
  BY <1>1, TakesRest DEF Joined
<1>3. \A d \in Joined : Entered(d)' = Entered(d)
  BY TakesRest DEF Joined
<1> QED BY <1>1, <1>2, <1>3, TurnsStutter, TurnsRead

\* The entry of the client whose turn it is, or may be, is at the head.
LEMMA AtHead ==
  ASSUME StateOK, InOrder, exists, NEW c \in Joined,
         OnTurn(c) \/ md.io_q_node[md.head] = Entered(c)
  PROVE  md.head \in Occupied(md) /\ md.io_q_node[md.head] = Entered(c)
<1>1. Placed(c) /\ md.io_q_node[md.head] = Entered(c) /\ md.head \in Place
  BY RingType DEF InOrder, Queued, Joined
<1> QED BY <1>1 DEF Placed

\* The client that ends its turn puts the record.
LEMMA TurnsOver ==
  ASSUME StateOK, InOrder, Lined, Lined', exists, exists' = TRUE, NEW c \in Client, OnTurn(c),
         NEW l \in {"idle", "iod_put"}, Takes(c, l), Passes(md, md')
  PROVE  Turned
<1>1. /\ c \in Joined /\ pc'[c] = l /\ ~OnTurn(c)' /\ c \notin Joined'
  BY TakesRest, JoinedKept DEF Joined, OnTurn, Holding, Updating
<1>2. \A d \in Client : ~OnTurn(d)'
  BY <1>1, JoinedKept DEF InOrder, OneAtATime
<1>3. Joined' = Joined \ {c}
  BY <1>1, JoinedKept DEF Joined
<1>4. \A d \in Joined : Entered(d)' = Entered(d)
  BY TakesRest DEF Joined
<1>5. md.head \in Occupied(md) /\ md.io_q_node[md.head] = Entered(c)
  BY <1>1, AtHead
<1>6. /\ WhoseTurn = c /\ WhoseTurn' = Nobody
      /\ TurnOrder' = Tail(TurnOrder) /\ UNCHANGED exists
  BY <1>2, <1>3, <1>4, <1>5, TurnsEnd DEF StateOK
<1> QED BY <1>6, TurnsRead

LEMMA TurnsQueue ==
  ASSUME MaxFail = 0, Regular, Lined', OneAtATime', exists, exists',
         NEW c \in Client, QueueInWait(c), ~ArrivesAlike(c), ~Fills(c),
         c \in stale => UNCHANGED <<exists, md>>
  PROVE  Turned
<1> USE DEF Regular, NamesSound
<1>1. CASE Arrive(c)
  <2>1. /\ \A d \in Client : OnTurn(d)' <=> OnTurn(d)
        /\ \A d \in Client \ {c} : Entered(d)' = Entered(d)
        /\ Joined' = Joined /\ Joined \subseteq Client \ {c}
        /\ UNCHANGED <<exists, md>>
    BY <1>1, Arrival DEF InOrder
  <2>2. SameRing(md, md')
    BY <2>1 DEF SameRing
  <2> QED BY <2>1, <2>2, TurnsStutter, TurnsRead
<1>2. CASE EnqueueGet(c)
  <2>1. /\ UNCHANGED <<exists, md>> /\ Goto(c, "enq_get", "enq_put") /\ Works
        /\ \E m : meta_data' = [meta_data EXCEPT ![c] = m]
    BY <1>2 DEF EnqueueGet, store, GetMeta
  <2>2. Takes(c, "enq_put") /\ pc[c] = "enq_get" /\ pc'[c] = "enq_put"
    BY <2>1, GotoTakes, TakesRest
  <2> QED BY <2>1, <2>2, TurnsStay DEF SameRing, OnTurn, Holding, Updating
<1>3. CASE NoRecord(c, "enq_get") \/ NoRecord(c, "wait")
  BY <1>3 DEF NoRecord
<1>4. CASE EnqueuePut(c)
  <2>1. /\ Goto(c, "enq_put", "wait") /\ Works /\ exists' = TRUE /\ md' = meta_data[c]
        /\ meta_data' = [meta_data EXCEPT ![c] = NewMeta]
    BY <1>4, NoFailure DEF EnqueuePut, PutMeta, GetMeta
  <2>2. Takes(c, "wait") /\ pc[c] = "enq_put" /\ pc'[c] = "wait"
    BY <2>1, GotoTakes, TakesRest
  <2>3. Enters(md, md', Entered(c)) /\ Succ(md.tail) # md.head
    BY <1>4, FreshEnqueue
  <2>4. /\ c \notin Joined /\ Joined' = Joined \cup {c}
        /\ \A d \in Client : OnTurn(d)' <=> OnTurn(d)
        /\ \A d \in Joined' : Entered(d)' = Entered(d)
    BY <2>2, TakesRest DEF Joined, OnTurn, Holding, Updating
  <2> QED BY <2>3, <2>4, TurnsJoin, TurnsRead
<1>5. CASE WaitOver(c)
  <2>1. /\ UNCHANGED <<exists, md, meta_data>> /\ Goto(c, "wait", "served") /\ Works
        /\ md.io_q_node[md.head] = Entered(c)
    BY <1>5 DEF WaitOver, store, copies
  <2>2. Takes(c, "served") /\ pc[c] = "wait" /\ pc'[c] = "served"
    BY <2>1, GotoTakes, TakesRest
  <2>3. c \in Joined /\ ~OnTurn(c) /\ OnTurn(c)' /\ SameRing(md, md')
    BY <2>1, <2>2 DEF Joined, OnTurn, Holding, Updating, SameRing
  <2>4. /\ \A d \in Client \ {c} : OnTurn(d)' <=> OnTurn(d)
        /\ Joined' = Joined
        /\ \A d \in Joined : Entered(d)' = Entered(d)
    BY <2>2, <2>3, TakesRest, JoinedKept DEF Joined
  <2>5. md.head \in Occupied(md)
    BY <2>1, <2>3, AtHead
  <2> QED BY <2>1, <2>3, <2>4, <2>5, TurnsBegin, TurnsRead
<1> QED BY <1>1, <1>2, <1>3, <1>4, <1>5 DEF QueueInWait

LEMMA TurnsHead ==
  ASSUME Regular, Lined', exists, exists', NEW c \in Client,
         NEW to \in {"read_put", "ion_put"}, HeadPassed(c, to)
  PROVE  Turned
<1>1. /\ UNCHANGED <<exists, md>> /\ Goto(c, "served", to) /\ Works
      /\ \E m : meta_data' = [meta_data EXCEPT ![c] = m]
  BY DEF HeadPassed, store, GetMeta
<1>2. Takes(c, to) /\ pc[c] = "served" /\ pc'[c] = to
  BY <1>1, GotoTakes, TakesRest DEF Regular, NamesSound
<1> QED BY <1>1, <1>2, TurnsStay
        DEF SameRing, OnTurn, Holding, Updating, Regular, NamesSound

\* A step of write_queue_out or replica_update that leaves the record alone.
LEMMA TurnsWrite ==
  ASSUME StateOK, Lined, Lined', exists, exists', UNCHANGED <<exists, md>>, Works,
         NEW c \in Client, NEW from, NEW to, Goto(c, from, to),
         \/ UNCHANGED meta_data
         \/ \E m : meta_data' = [meta_data EXCEPT ![c] = m],
         \/ /\ from \in {"ion_put", "tail_get", "tail_put"}
            /\ to \in {"tail_get", "tail_put", "md_put"}
         \/ /\ from \in {"idle", "iod_put"} \cup Updating
            /\ to \in {"idle"} \cup Updating
  PROVE  Turned
<1>1. Takes(c, to) /\ pc[c] = from /\ pc'[c] = to
  BY GotoTakes, TakesRest
<1> QED BY <1>1, TurnsStay DEF SameRing, OnTurn, Holding, Updating

LEMMA TurnsDequeue ==
  ASSUME MaxFail = 0, Regular, Lined', exists, NEW c \in Client, QueueOut(c),
         c \in stale => UNCHANGED <<exists, md>>
  PROVE  Turned
<1> USE DEF Regular, NamesSound
<1>1. CASE ReadGet(c) \/ WriteGet(c)
  <2>1. exists'
    BY <1>1 DEF ReadGet, WriteGet, HeadPassed, store
  <2> QED BY <1>1, <2>1, TurnsHead DEF ReadGet, WriteGet
<1>2. CASE ReadPut(c)
  <2>1. /\ Goto(c, "read_put", "idle") /\ Works /\ exists' = TRUE /\ md' = meta_data[c]
        /\ meta_data' = [meta_data EXCEPT ![c] = NewMeta]
    BY <1>2, NoFailure DEF ReadPut, PutMeta, GetMeta
  <2>2. pc[c] = "read_put" /\ Takes(c, "idle")
    BY <2>1, GotoTakes
  <2>3. OnTurn(c)
    BY <2>2 DEF Holding, OnTurn, Updating
  <2>4. Passes(md, md')
    BY <2>1, <2>2, FreshDequeue
  <2> QED BY <2>1, <2>2, <2>3, <2>4, TurnsOver
<1>3. CASE RemoveOut(c)
  <2>1. Goto(c, "served", "idle") /\ ~exists'
    BY <1>3, NoFailure DEF RemoveOut
  <2>2. OnTurn(c)
    BY <2>1 DEF Goto, OnTurn
  <2>3. WhoseTurn = c /\ WhoseTurn' = Nobody /\ TurnOrder' = <<>>
    BY <2>1, <2>2 DEF Lined
  <2> QED BY <2>1, <2>3, TurnsRead
<1>4. CASE IonPut(c)
  <2>1. PICK to \in {"tail_get", "md_put"} : Goto(c, "ion_put", to) /\ Works
    BY <1>4, NoFailure DEF IonPut
  <2>2. UNCHANGED <<exists, md, meta_data>>
    BY <1>4 DEF IonPut, copies
  <2> QED BY <2>1, <2>2, TurnsWrite
<1>5. CASE TailGet(c)
  <2>1. UNCHANGED <<exists, md>> /\ Works
    BY <1>5 DEF TailGet, store
  <2>2. pc[c] = "tail_get"
    BY <1>5 DEF TailGet, Goto
  <2>3. meta_data[c].io_node_q_tail \in DOMAIN ion
    BY <2>2 DEF Follows, Names, Known
  <2>4. Goto(c, "tail_get", "tail_put") /\ UNCHANGED meta_data
    BY <1>5, <2>3 DEF TailGet
  <2> QED BY <2>1, <2>4, TurnsWrite
<1>6. CASE TailPut(c)
  <2>1. /\ Goto(c, "tail_put", "md_put") /\ Works
        /\ UNCHANGED <<exists, md, meta_data>>
    BY <1>6, NoFailure DEF TailPut
  <2> QED BY <2>1, TurnsWrite
<1>7. CASE WriteMetaPut(c)
  <2>1. /\ Goto(c, "md_put", "iod_put") /\ Works /\ exists' = TRUE
        /\ meta_data' = [meta_data EXCEPT ![c] = NewMeta]
    BY <1>7, NoFailure DEF WriteMetaPut, GetMeta
  <2>2. pc[c] = "md_put" /\ Takes(c, "iod_put")
    BY <2>1, GotoTakes
  <2>3. OnTurn(c)
    BY <2>2 DEF Holding, OnTurn, Updating
  <2>4. /\ md'.head = meta_data[c].head /\ md'.tail = meta_data[c].tail
        /\ md'.io_q_node = meta_data[c].io_q_node
    BY <1>7 DEF WriteMetaPut, StateOK, Meta_Data
  <2>5. Passes(md, md')
    BY <2>1, <2>2, <2>4, FreshDequeue
  <2> QED BY <2>1, <2>2, <2>3, <2>5, TurnsOver
<1>8. CASE IodPut(c)
  <2>1. /\ Goto(c, "iod_put", "idle") /\ Works
        /\ UNCHANGED <<exists, md, meta_data>>
    BY <1>8, NoFailure DEF IodPut, copies
  <2> QED BY <2>1, TurnsWrite
<1> QED BY <1>1, <1>2, <1>3, <1>4, <1>5, <1>6, <1>7, <1>8 DEF QueueOut

LEMMA TurnsUpdate ==
  ASSUME MaxFail = 0, Regular, Lined', exists, NEW c \in Client, ReplicaUpdate(c),
         c \in stale => UNCHANGED <<exists, md>>
  PROVE  Turned
<1> USE DEF Regular, NamesSound, Updating
<1>1. CASE RepGet(c)
  <2>1. PICK to \in Updating : Goto(c, "idle", to)
    BY <1>1 DEF RepGet
  <2>2. /\ Works /\ UNCHANGED <<exists, md>>
        /\ meta_data' = [meta_data EXCEPT ![c] = md]
    BY <1>1 DEF RepGet, store, GetMeta
  <2> QED BY <2>1, <2>2, TurnsWrite
<1>2. CASE RepIon(c)
  <2>1. UNCHANGED <<exists, md>> /\ Works
    BY <1>2 DEF RepIon, store
  <2>2. PICK to \in {"rep_iod", "idle"} :
          /\ Goto(c, "rep_ion", to)
          /\ UNCHANGED meta_data \/ \E m : meta_data' = [meta_data EXCEPT ![c] = m]
    BY <1>2 DEF RepIon, Forget, GetMeta
  <2> QED BY <2>1, <2>2, TurnsWrite
<1>3. CASE RepIod(c)
  <2>1. UNCHANGED <<exists, md>> /\ Works
    BY <1>3, NoFailure DEF RepIod, store
  <2>2. PICK to \in {"rep_ion", "rep_put"} :
          /\ Goto(c, "rep_iod", to)
          /\ UNCHANGED meta_data \/ \E m : meta_data' = [meta_data EXCEPT ![c] = m]
    BY <1>3 DEF RepIod
  <2> QED BY <2>1, <2>2, TurnsWrite
<1>4. CASE RepCrash(c)
  <2>1. /\ Goto(c, "rep_iod", "idle") /\ Works /\ UNCHANGED <<exists, md>>
        /\ meta_data' = [meta_data EXCEPT ![c] = NewMeta]
    BY <1>4 DEF RepCrash, Forget, GetMeta, store
  <2> QED BY <2>1, TurnsWrite
<1>5. CASE RepPut(c)
  <2>1. /\ Goto(c, "rep_put", "idle") /\ Works /\ exists' = TRUE /\ md' = meta_data[c]
        /\ meta_data' = [meta_data EXCEPT ![c] = NewMeta]
    BY <1>5, NoFailure DEF RepPut, Forget, GetMeta
  <2>2. Takes(c, "idle") /\ pc[c] = "rep_put" /\ pc'[c] = "idle"
    BY <2>1, GotoTakes, TakesRest
  <2>3. SameRing(md, md') /\ UNCHANGED exists
    <3>1. CASE c \in stale
      BY <2>1, <3>1 DEF SameRing
    <3>2. CASE c \notin stale
      <4>1. CopyOf(c, md) /\ md \in Meta_Data
        BY <2>2, <3>2 DEF Fresh, Holding, StateOK
      <4>2. \/ md' = md
            \/ md' = [md EXCEPT !.my_rep[Host[c]] = Empty]
        BY <2>1, <2>2, <4>1 DEF CopyOf
      <4> QED BY <2>1, <4>1, <4>2 DEF SameRing, Meta_Data
    <3> QED BY <3>1, <3>2
  <2> QED BY <2>1, <2>2, <2>3, TurnsStay DEF OnTurn, Holding
<1> QED BY <1>1, <1>2, <1>3, <1>4, <1>5 DEF ReplicaUpdate

\* A file that is removed stays removed when nothing undoes the removal.
LEMMA NoReturn ==
  ASSUME StateOK, Fresh, ~exists, NEW c \in Client, ClientStep(c),
         c \in stale => UNCHANGED <<exists, md>>
  PROVE  ~exists'
<1> SUFFICES ASSUME exists' PROVE FALSE
  OBVIOUS
<1>1. EnqueuePut(c) \/ ReadPut(c) \/ WriteMetaPut(c) \/ RepPut(c)
  BY RecordTouched DEF Touched, RemoveOut
<1>2. pc[c] \in Holding
  BY <1>1 DEF EnqueuePut, ReadPut, WriteMetaPut, RepPut, Put, Goto, Holding, Updating
<1> QED BY <1>2 DEF Fresh

LEMMA TurnsNext ==
  ASSUME MaxFail = 0, Regular, harm = {}, Lined', OneAtATime',
         [Next /\ harm' = {}]_vars
  PROVE  Turned
<1>1. StateOK /\ Fresh /\ InOrder /\ Lined
  BY DEF Regular, NamesSound
<1>2. CASE UNCHANGED vars \/ Tick
  <2>1. UNCHANGED <<store, pc, request>>
    BY <1>2 DEF vars, Tick
  <2>2. UNCHANGED <<exists, md, pc, io_type, arrive_time>>
    BY <2>1 DEF store, request
  <2>3. /\ \A d \in Client : OnTurn(d)' <=> OnTurn(d)
        /\ \A d \in Client : Entered(d)' = Entered(d)
    BY <2>2 DEF OnTurn, Entered
  <2>4. Joined' = Joined /\ SameRing(md, md')
    BY <2>2, <2>3 DEF Joined, SameRing
  <2>5. \A d \in Joined : Entered(d)' = Entered(d)
    BY <2>3 DEF Joined
  <2>6. CASE exists
    BY <1>1, <2>2, <2>3, <2>4, <2>5, <2>6, TurnsStutter, TurnsRead
  <2>7. CASE ~exists
    BY <1>1, <2>2, <2>7, TurnsNowhere
  <2> QED BY <2>6, <2>7
<1>3. ASSUME NEW c \in Client, ClientStep(c), harm' = {} PROVE Turned
  <2>1. /\ c \in stale => UNCHANGED <<exists, md>>
        /\ ~ArrivesAlike(c) /\ ~Fills(c)
    BY <1>1, <1>3, Harmless
  <2>2. CASE ~exists
    BY <1>1, <1>3, <2>1, <2>2, NoReturn, TurnsNowhere
  <2>3. CASE QueueInWait(c) /\ exists
    <3>1. exists'
      BY <2>3 DEF QueueInWait, Arrive, EnqueueGet, NoRecord, EnqueuePut, PutMeta, WaitOver,
         store
    <3> QED BY <2>1, <2>3, <3>1, TurnsQueue
  <2>4. ~StoreDown(c)
    BY <1>1, NoFailure
  <2> QED BY <1>3, <2>1, <2>2, <2>3, <2>4, TurnsDequeue, TurnsUpdate DEF ClientStep
<1> QED BY <1>2, <1>3 DEF Next

(* What IoTurns says may happen, as opposed to what must. *)
KeepsTurns == Turns!Init /\ [][Turns!Next]_(Turns!vars)

(* When no store operation fails, then in every schedule without the put   *)
(* of an outdated copy, requests that look alike and a full ring, clients  *)
(* have their turns in the order in which they joined the queue            *)
(* (queue_in_wait, read_queuue_out, write_queue_out, remove_queuue_out):   *)
(* every step is one of IoTurns or leaves it as it is.                     *)
THEOREM QueueTakesTurns == ASSUME MaxFail = 0 PROVE FreshSpec => KeepsTurns
<1>1. Init => Turns!Init
  <2> SUFFICES ASSUME Init PROVE Turns!Init
    OBVIOUS
  <2>1. Joined = {} /\ \A c \in Client : ~OnTurn(c)
    BY DEF Init, Joined, OnTurn, Holding, Updating
  <2>2. Cardinality(Joined) = 0 /\ exists = TRUE
    BY <2>1, FS_EmptySet DEF Init
  <2>3. [i \in 1 .. Cardinality(Joined) |-> OwnerOf((md.head + i - 1) % IO_Q_LEN)] = <<>>
    BY <2>2
  <2> QED BY <2>1, <2>2, <2>3 DEF Turns!Init
<1>2. FreshSpec => Spec
  <2>1. [Next /\ harm' = {}]_vars => [Next]_vars
    OBVIOUS
  <2> QED BY <2>1, PTL DEF FreshSpec, Spec
<1>3. FreshSpec => [](harm = {})
  <2>1. Init => harm = {}
    BY DEF Init
  <2>2. harm = {} /\ [Next /\ harm' = {}]_vars => (harm = {})'
    BY DEF vars, history
  <2> QED BY <2>1, <2>2, PTL DEF FreshSpec
<1>4. StateOK /\ InOrder => Lined
  BY LinedUp
<1>5. NamesSound /\ Fresh /\ InOrder /\ Lined /\ harm = {} /\ Lined' /\ OneAtATime'
        /\ [Next /\ harm' = {}]_vars
        => [Turns!Next]_(Turns!vars)
  BY TurnsNext DEF Regular, Turned
<1>6. InOrder => OneAtATime
  BY DEF InOrder
<1>7. TypeOK => StateOK
  BY DEF TypeOK
<1> QED BY <1>1, <1>2, <1>3, <1>4, <1>5, <1>6, <1>7, AlwaysInOrder, AlwaysFresh,
           NamesAlwaysSound, QueueTypeCorrect, PTL DEF FreshSpec, KeepsTurns
=============================================================================
