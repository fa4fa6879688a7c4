-------------------------- MODULE SuperNode_proofs --------------------------
(***************************************************************************)
(* Proofs about the super node, for any clients, messages, terminals and   *)
(* failures: what is acted on is what a client has sent, no message is     *)
(* acted on twice, and a client is told that all is well only when its     *)
(* message has been acted on.                                              *)
(***************************************************************************)
EXTENDS SuperNode, SequenceTheorems, TLAPS

\* A child that acts has been able to read its buffer, and acts on what it read.
HasRead(k) == /\ k.buf # NoText
              /\ Parse[k.buf].ok
              /\ k.sock_msg = Parse[k.buf].sock_msg
Progress(k) == /\ k.pc = "send" => k.err = RPL_OK
               /\ k.pc = "do" \/ k.err = RPL_OK => HasRead(k)
Progressing == \A p \in DOMAIN child : Progress(child[p])

-----------------------------------------------------------------------------
(* Reading nothing *)

(* An empty buffer is not a message.                                       *)
LEMMA NothingRead == NoText \in Text /\ ~Parse[NoText].ok
<1>1. NoText \in Text
  BY DEF Text
<1>2. xmlReadFd(NoText).root # "sock_msg"
  BY DEF xmlReadFd, NoText, NoDoc, Empty
<1>3. xml_to_sock_msg_parse_from_fd(xmlReadFd(NoText)).parse_ok = {}
  BY <1>2 DEF xml_to_sock_msg_parse_from_fd
<1>4. ~buf_to_sock_msg_parse_from_fd(NoText).ok
  BY <1>3 DEF buf_to_sock_msg_parse_from_fd, Fields
<1> QED
  BY <1>1, <1>4 DEF Parse

-----------------------------------------------------------------------------
(* Reading what a client has written *)

\* What is left of a message: a file name with an ampersand is lost.
Left(m) == IF m.file_name \in Ampersand THEN [m EXCEPT !.file_name = Empty] ELSE m

(* The document of a message has its fields at the even places.            *)
LEMMA Written ==
  ASSUME NEW m
  PROVE  LET doc == sock_msg_to_xml(m)
         IN  /\ doc.root = "sock_msg"
             /\ DOMAIN doc.children = 1 .. 7
             /\ \A i \in {1, 3, 5, 7} : doc.children[i] = Blank
             /\ doc.children[2] = xmlNewChild("type", m.type)
             /\ doc.children[4] = xmlNewChild("dest_ip", m.dest_ip)
             /\ doc.children[6] = xmlNewChild("file_name", m.file_name)
<1> DEFINE ch == <<xmlNewChild("type", m.type), xmlNewChild("dest_ip", m.dest_ip),
                   xmlNewChild("file_name", m.file_name)>>
           at(i) == IF i % 2 = 1 THEN Blank ELSE ch[i \div 2]
<1>1. /\ sock_msg_to_xml(m).root = "sock_msg"
      /\ sock_msg_to_xml(m).children = [i \in 1 .. 2 * Len(ch) + 1 |-> at(i)]
  BY DEF sock_msg_to_xml, Formatted
<1>2. 2 * Len(ch) + 1 = 7
  OBVIOUS
<1>3. /\ \A i \in {1, 3, 5, 7} : at(i) = Blank
      /\ at(2) = ch[1] /\ at(4) = ch[2] /\ at(6) = ch[3]
  OBVIOUS
<1> HIDE DEF at
<1> QED BY <1>1, <1>2, <1>3

(* Each field is found at its place, and nowhere else.                     *)
LEMMA Found ==
  ASSUME NEW m
  PROVE  LET doc == sock_msg_to_xml(m)
         IN  /\ Named(doc, "type") = {2} /\ First(doc, "type") = xmlNewChild("type", m.type).content
             /\ Named(doc, "dest_ip") = {4} /\ First(doc, "dest_ip") = xmlNewChild("dest_ip", m.dest_ip).content
             /\ Named(doc, "file_name") = {6} /\ First(doc, "file_name") = xmlNewChild("file_name", m.file_name).content
<1> DEFINE doc == sock_msg_to_xml(m)
<1> HIDE DEF doc
<1>0. /\ \A i \in {1, 3, 5, 7} : doc.children[i] = Blank
      /\ doc.children[2] = xmlNewChild("type", m.type)
      /\ doc.children[4] = xmlNewChild("dest_ip", m.dest_ip)
      /\ doc.children[6] = xmlNewChild("file_name", m.file_name)
  BY Written, Zenon DEF doc
<1>1. \A i \in {1, 3, 5, 7} : doc.children[i].name = "text"
  <2>1. Blank.name = "text"
    BY Zenon DEF Blank
  <2> QED BY <1>0, <2>1
<1>2. /\ doc.children[2].name = "type" /\ doc.children[4].name = "dest_ip"
      /\ doc.children[6].name = "file_name"
  BY <1>0 DEF xmlNewChild
<1>3. DOMAIN doc.children = {1, 2, 3, 4, 5, 6, 7}
  BY Written DEF doc
<1>4. /\ Named(doc, "type") = {2} /\ Named(doc, "dest_ip") = {4}
      /\ Named(doc, "file_name") = {6}
  BY <1>1, <1>2, <1>3 DEF Named
<1>5. \A n \in Nat : (CHOOSE i \in {n} : \A j \in {n} : i <= j) = n
  OBVIOUS
<1>6. /\ First(doc, "type") = doc.children[2].content
      /\ First(doc, "dest_ip") = doc.children[4].content
      /\ First(doc, "file_name") = doc.children[6].content
  BY <1>4, <1>5 DEF First
<1> QED BY <1>0, <1>4, <1>6 DEF doc

(* On a terminal, a client's message is read as it is, but for ampersands; *)
(* otherwise nothing can be read.                                          *)
LEMMA ReadBack ==
  ASSUME NEW c \in Client, Parse[Sent[c]].ok
  PROVE  Parse[Sent[c]].sock_msg = Left(Message[c])
<1> DEFINE m == Message[c]
           doc == sock_msg_to_xml(m)
           text == Sent[c]
<1>1. /\ text = [printed |-> Unwritten(c), doc |-> doc]
      /\ Parse[text] = buf_to_sock_msg_parse_from_fd(text)
  BY DEF Text, Parse, Sent, sock_msg_to_buf
<1>2. CASE Unwritten(c)
  <2>1. xmlReadFd(text).root # "sock_msg"
    BY <1>1, <1>2 DEF xmlReadFd, NoDoc, Empty
  <2>2. xml_to_sock_msg_parse_from_fd(xmlReadFd(text)).parse_ok = {}
    BY <2>1 DEF xml_to_sock_msg_parse_from_fd
  <2>3. ~buf_to_sock_msg_parse_from_fd(text).ok
    BY <2>2 DEF buf_to_sock_msg_parse_from_fd, Fields
  <2> QED BY <1>1, <2>3
<1>3. CASE ~Unwritten(c)
  <2>1. xmlReadFd(text) = doc
    BY <1>1, <1>3 DEF xmlReadFd
  <2>2. /\ m \in [type : SOCKMSG_TYPE, dest_ip : STRING, file_name : STRING]
        /\ m.type \notin Ampersand /\ m.dest_ip \notin Ampersand
    BY SuperNodeAssumption
  <2>3. /\ First(doc, "type") = m.type
        /\ First(doc, "dest_ip") = m.dest_ip
        /\ First(doc, "file_name") = IF m.file_name \in Ampersand THEN Empty
                                                                  ELSE m.file_name
    BY <2>2, Found DEF xmlNewChild
  <2> HIDE DEF doc, m
  <2>4. \A f \in Fields : Named(doc, f) # {}
    BY Found DEF Fields, doc
  <2>5. doc.root = "sock_msg"
    BY Written DEF doc
  <2>6. {f \in Fields : doc.root = "sock_msg" /\ Named(doc, f) # {}} = Fields
    BY <2>4, <2>5
  <2>7. xml_to_sock_msg_parse_from_fd(doc).sock_msg = [f \in Fields |-> First(doc, f)]
    BY <2>6 DEF xml_to_sock_msg_parse_from_fd
  <2>8. [f \in Fields |-> First(doc, f)] = Left(m)
    BY <2>2, <2>3 DEF Fields, Left
  <2> QED BY <1>1, <2>1, <2>7, <2>8 DEF buf_to_sock_msg_parse_from_fd, m
<1> QED BY <1>2, <1>3

\* What is read of any text that arrives is known.
LEMMA ReadParsed ==
  ASSUME NEW t \in Text, Parse[t].ok PROVE Parse[t].sock_msg \in Parsed
<1>1. PICK c \in Client : t = Sent[c]
  BY NothingRead DEF Text
<1>2. Parse[t].sock_msg = Left(Message[c])
  BY <1>1, ReadBack
<1> QED BY <1>2 DEF Left, Parsed, SentMessage

LEMMA Texts == /\ \A c \in Client : Sent[c] \in Text
               /\ NoText \in Reply
               /\ rpl_msg_to_buf(RPL_OK, Unwritten(SN)) \in Reply
BY DEF Text, Reply

LEMMA OkIsNotEmpty == RPL_OK # Empty
BY DEF RPL_OK, Empty

-----------------------------------------------------------------------------
(* What the steps of the children and of the signal handler have in common *)

Same(q) == /\ child'[q].from = child[q].from
           /\ child'[q].buf = child[q].buf
           /\ child[q].err = RPL_OK => child'[q].err = RPL_OK
Keeps == /\ DOMAIN child' = DOMAIN child
         /\ \A q \in DOMAIN child : Same(q)

(* A child that is replaced by one of the same message keeps all of them.  *)
LEMMA Replace ==
  ASSUME TypeOK, Progressing,
         NEW p \in DOMAIN child, NEW k \in Child,
         k.from = child[p].from, k.buf = child[p].buf,
         child[p].err = RPL_OK => k.err = RPL_OK, Progress(k),
         child' = [child EXCEPT ![p] = k]
  PROVE  child' \in Seq(Child) /\ Progressing' /\ Keeps
<1>1. child \in Seq(Child)
  BY DEF TypeOK
<1>2. DOMAIN child' = DOMAIN child
  OBVIOUS
<1>3. \A q \in DOMAIN child : child'[q] = IF q = p THEN k ELSE child[q]
  OBVIOUS
<1>4. child' \in Seq(Child)
  BY <1>1, ExceptSeq
<1>5. Progressing'
  BY <1>2, <1>3 DEF Progressing, Progress
<1> QED
  BY <1>2, <1>3, <1>4, <1>5 DEF Keeps, Same

LEMMA ChildTyped ==
  ASSUME TypeOK, NEW p \in DOMAIN child
  PROVE  child[p] \in Child
<1>1. child \in Seq(Child) /\ p \in 1 .. Len(child)
  BY DEF TypeOK
<1> QED
  BY <1>1

(* A step of a child leaves every child with its message.                  *)
LEMMA ChildStepKeeps ==
  ASSUME TypeOK, Progressing, NEW p \in DOMAIN child, ChildStep(p)
  PROVE  child' \in Seq(Child) /\ Progressing' /\ Keeps
<1> DEFINE k == child[p]
<1>1. k \in Child /\ Progress(k)
  BY ChildTyped DEF Progressing
<1>2. CASE ChildParse(p)
  <2> DEFINE m == Parse[k.buf]
             read == [k EXCEPT !.sock_msg = m.sock_msg, !.pc = "do"]
  <2>1. k.buf \in Text /\ (m.ok => m.sock_msg \in Parsed)
    BY <1>1, ReadParsed DEF Child
  <2>2. m.ok => k.buf # NoText
    BY NothingRead
  <2>3. \/ m.ok /\ child' = [child EXCEPT ![p] = read]
        \/ child' = [child EXCEPT ![p] = Exits(p)]
    BY <1>2 DEF ChildParse, ChildGoes
  <2>4. CASE m.ok /\ child' = [child EXCEPT ![p] = read]
    <3>1. /\ read \in Child /\ read.from = k.from /\ read.buf = k.buf
          /\ read.err = k.err
      BY <1>1, <2>1, <2>4 DEF Child
    <3>2. Progress(read)
      BY <1>1, <2>2, <2>4 DEF Child, Progress, HasRead
    <3> QED BY <2>4, <3>1, <3>2, Replace
  <2>5. CASE child' = [child EXCEPT ![p] = Exits(p)]
    <3>1. /\ Exits(p) \in Child /\ Exits(p).from = k.from
          /\ Exits(p).buf = k.buf /\ Exits(p).err = k.err
      BY <1>1 DEF Child, Exits
    <3>2. Progress(Exits(p))
      BY <1>1 DEF Child, Progress, HasRead, Exits
    <3> QED BY <2>5, <3>1, <3>2, Replace
  <2> QED BY <2>3, <2>4, <2>5
<1>3. CASE ChildDo(p)
  <2> DEFINE done(pc_) == [[k EXCEPT !.err = RPL_OK] EXCEPT !.pc = pc_]
  <2>1. PICK to \in {"send", "zombie"} : child' = [child EXCEPT ![p] = done(to)]
    BY <1>3 DEF ChildDo, ChildGoes
  <2>2. k.pc = "do"
    BY <1>3 DEF ChildDo, ChildGoes
  <2>3. /\ done(to) \in Child /\ done(to).from = k.from
        /\ done(to).buf = k.buf /\ done(to).err = RPL_OK
    BY <1>1 DEF Child
  <2>4. Progress(done(to))
    BY <1>1, <2>2 DEF Child, Progress, HasRead
  <2> QED BY <2>1, <2>3, <2>4, Replace
<1>4. CASE ChildSend(p)
  <2>1. /\ Exits(p) \in Child /\ Exits(p).from = k.from
        /\ Exits(p).buf = k.buf /\ Exits(p).err = k.err
    BY <1>1 DEF Child, Exits
  <2>2. Progress(Exits(p))
    BY <1>1 DEF Child, Progress, HasRead, Exits
  <2>3. child' = [child EXCEPT ![p] = Exits(p)]
    BY <1>4 DEF ChildSend, ChildGoes
  <2> QED BY <2>1, <2>2, <2>3, Replace
<1> QED BY <1>2, <1>3, <1>4 DEF ChildStep

(* So does the signal handler.                                             *)
LEMMA SigReapKeeps ==
  ASSUME TypeOK, Progressing, SigReap
  PROVE  child' \in Seq(Child) /\ Progressing' /\ Keeps
<1>1. PICK p \in DOMAIN child :
        child[p].pc = "zombie" /\ child' = [child EXCEPT ![p].pc = "gone"]
  BY DEF SigReap
<1> DEFINE k == [child[p] EXCEPT !.pc = "gone"]
<1>2. child[p] \in Child /\ Progress(child[p])
  BY ChildTyped DEF Progressing
<1>3. /\ k \in Child /\ k.from = child[p].from /\ k.buf = child[p].buf
      /\ k.err = child[p].err
  BY <1>2 DEF Child
<1>4. Progress(k)
  BY <1>2 DEF Child, Progress, HasRead
<1> QED BY <1>1, <1>3, <1>4, Replace

(* A new child is at the end and has done nothing.                         *)
LEMMA Forks ==
  ASSUME TypeOK, Progressing, child' = Append(child, Forked)
  PROVE  /\ child' \in Seq(Child) /\ Progressing'
         /\ DOMAIN child' = DOMAIN child \cup {Len(child) + 1}
         /\ \A q \in DOMAIN child : child'[q] = child[q]
         /\ child'[Len(child) + 1] = Forked
         /\ Len(child) + 1 \notin DOMAIN child
<1>1. child \in Seq(Child)
  BY DEF TypeOK
<1>2. Forked \in Child /\ Progress(Forked)
  BY OkIsNotEmpty DEF Forked, Child, TypeOK, Parsed, Progress
<1>3. child' \in Seq(Child) /\ Len(child') = Len(child) + 1
  BY <1>1, <1>2
<1>4. DOMAIN child' = DOMAIN child \cup {Len(child) + 1}
  BY <1>1, <1>3
<1>5. /\ \A q \in DOMAIN child : child'[q] = child[q]
      /\ child'[Len(child) + 1] = Forked
      /\ Len(child) + 1 \notin DOMAIN child
  BY <1>1
<1>6. Progressing'
  BY <1>2, <1>4, <1>5 DEF Progressing, Progress
<1> QED BY <1>3, <1>4, <1>5, <1>6

-----------------------------------------------------------------------------
(* TypeOK, and children that can go on, in every state *)

Typed == TypeOK /\ Progressing

\* The bound on failures is kept.
LEMMA FailsTyped == ASSUME TypeOK, Fails PROVE fails' \in 0 .. MaxFail
  BY SuperNodeAssumption DEF TypeOK, Fails

LEMMA TypedInit == Init => Typed
<1> SUFFICES ASSUME Init PROVE Typed
  OBVIOUS
<1>1. 0 \in 0 .. MaxFail
  BY SuperNodeAssumption
<1>2. /\ cli \in [Client -> {"start", "wait", "ok", "err", "fail"}]
      /\ reply \in [Client -> Reply]
  BY Texts DEF Init
<1>3. inbox = <<>> /\ child = <<>>
  BY DEF Init
<1>4. inbox \in Seq(Letter) /\ child \in Seq(Child) /\ Progressing
  BY <1>3 DEF Progressing
<1> QED
  BY <1>1, <1>2, <1>4, NothingRead DEF Init, Typed, TypeOK

LEMMA TypedClient ==
  ASSUME Typed, NEW c \in Client, CliSend(c) \/ CliRecv(c) \/ CliFail(c)
  PROVE  Typed'
<1>1. Progressing'
  BY DEF Typed, Progressing, Progress, HasRead, CliSend, CliRecv, CliFail
<1>2. cli' \in [Client -> {"start", "wait", "ok", "err", "fail"}]
  BY DEF Typed, TypeOK, CliSend, CliRecv, CliFail, CliGoes
<1>3. /\ UNCHANGED <<reply, main, buf, cliaddr, handling, pending, child>>
      /\ fails' \in 0 .. MaxFail
  BY FailsTyped DEF CliSend, CliRecv, CliFail, node, signal, Typed, TypeOK
<1>4. inbox' \in Seq(Letter)
  <2>1. CASE CliSend(c)
    <3>1. [from |-> c, text |-> Sent[c]] \in Letter
      BY Texts DEF Letter
    <3> QED BY <2>1, <3>1 DEF CliSend, Typed, TypeOK
  <2>2. CASE CliRecv(c) \/ CliFail(c)
    BY <2>2 DEF CliRecv, CliFail, Typed, TypeOK
  <2> QED BY <2>1, <2>2
<1> QED BY <1>1, <1>2, <1>3, <1>4 DEF Typed, TypeOK

\* What receiving takes out of the queue of messages.
LEMMA Received ==
  ASSUME TypeOK, SnRecv
  PROVE  /\ Head(inbox) = inbox[1] /\ 1 \in DOMAIN inbox
         /\ inbox[1] \in Letter
         /\ inbox' \in Seq(Letter)
         /\ \A i \in DOMAIN inbox' :
              i + 1 \in DOMAIN inbox /\ inbox'[i] = inbox[i + 1] /\ i \in Nat \ {0}
<1>1. inbox \in Seq(Letter) /\ inbox # <<>> /\ inbox' = Tail(inbox)
  BY DEF TypeOK, SnRecv
<1>2. Len(inbox) \in Nat \ {0}
  BY <1>1
<1>3. Len(inbox') = Len(inbox) - 1 /\ DOMAIN inbox' = 1 .. Len(inbox')
  BY <1>1, <1>2
<1>4. \A i \in DOMAIN inbox' : inbox'[i] = inbox[i + 1]
  BY <1>1, <1>2, <1>3
<1> QED BY <1>1, <1>2, <1>3, <1>4

LEMMA TypedNode ==
  ASSUME Typed, SnRecv \/ SnRecvFail \/ SnFork
  PROVE  Typed'
<1>1. CASE SnRecv
  <2>1. Progressing'
    BY <1>1 DEF Typed, Progressing, Progress, SnRecv
  <2>2. inbox' \in Seq(Letter) /\ buf' \in Text /\ cliaddr' \in Client
    BY <1>1, Received DEF SnRecv, Letter, Typed
  <2> QED BY <1>1, <2>1, <2>2 DEF SnRecv, Typed, TypeOK, client, signal
<1>2. CASE SnRecvFail
  <2>1. Progressing'
    BY <1>2 DEF Typed, Progressing, Progress, SnRecvFail
  <2> QED BY <1>2, <2>1, FailsTyped DEF SnRecvFail, Typed, TypeOK, client, signal
<1>3. CASE SnFork
  <2>1. child' \in Seq(Child) /\ Progressing'
    <3>1. CASE child' = Append(child, Forked)
      BY <3>1, Forks DEF Typed
    <3>2. CASE UNCHANGED child
      BY <3>2 DEF Typed, TypeOK, Progressing, Progress
    <3> QED BY <1>3, <3>1, <3>2 DEF SnFork
  <2>2. fails' \in 0 .. MaxFail
    BY <1>3, FailsTyped DEF SnFork, Works, Typed, TypeOK
  <2> QED BY <1>3, <2>1, <2>2, NothingRead DEF SnFork, Typed, TypeOK, client, signal
<1> QED BY <1>1, <1>2, <1>3

LEMMA TypedSignal ==
  ASSUME Typed, SigDeliver \/ SigReap \/ SigReturn
  PROVE  Typed'
<1>1. CASE SigReap
  <2>1. child' \in Seq(Child) /\ Progressing'
    BY <1>1, SigReapKeeps DEF Typed
  <2> QED BY <1>1, <2>1 DEF SigReap, Typed, TypeOK, client, node, signal
<1>2. CASE SigDeliver \/ SigReturn
  BY <1>2 DEF SigDeliver, SigReturn, Typed, TypeOK, Progressing, Progress, client, node
<1> QED BY <1>1, <1>2

LEMMA TypedChild ==
  ASSUME Typed, NEW p \in DOMAIN child, ChildStep(p)
  PROVE  Typed'
<1>1. child' \in Seq(Child) /\ Progressing'
  BY ChildStepKeeps DEF Typed
<1>2. UNCHANGED <<cli, inbox, main, buf, cliaddr, handling>>
  BY DEF ChildStep, ChildParse, ChildDo, ChildSend, client, node
<1>3. reply' \in [Client -> Reply]
  <2>1. CASE ChildSend(p)
    <3>1. child[p].err = RPL_OK
      BY <2>1 DEF Typed, Progressing, Progress, ChildSend, ChildGoes
    <3> QED BY <2>1, <3>1, Texts DEF ChildSend, Replies, Typed, TypeOK
  <2>2. CASE ChildParse(p) \/ ChildDo(p)
    BY <2>2 DEF ChildParse, ChildDo, client, Typed, TypeOK
  <2> QED BY <2>1, <2>2 DEF ChildStep
<1>4. pending' \in BOOLEAN
  BY DEF ChildStep, ChildParse, ChildDo, ChildSend, ChildGoes, Typed, TypeOK
<1>5. fails' \in 0 .. MaxFail
  BY FailsTyped DEF ChildStep, ChildParse, ChildDo, ChildSend, Works, Typed, TypeOK
<1> QED BY <1>1, <1>2, <1>3, <1>4, <1>5 DEF Typed, TypeOK

LEMMA TypedNext == Typed /\ [Next]_vars => Typed'
<1> SUFFICES ASSUME Typed, [Next]_vars PROVE Typed'
  OBVIOUS
<1>1. CASE UNCHANGED vars
  BY <1>1 DEF vars, client, node, signal, Typed, TypeOK, Progressing, Progress
<1> QED BY <1>1, TypedClient, TypedNode, TypedSignal, TypedChild DEF Next

LEMMA AlwaysTyped == Spec => []Typed
<1> QED BY TypedInit, TypedNext, PTL DEF Spec

(* Every variable has its type: in particular a child's message is always  *)
(* one that a client has sent, but for a file name that is lost, or none,  *)
(* whatever else has come through its pipe (xml_msg.c).                    *)
THEOREM SuperTypeCorrect == Spec => []TypeOK
<1>1. Typed => TypeOK
  BY DEF Typed
<1> QED BY <1>1, AlwaysTyped, PTL

-----------------------------------------------------------------------------
(* One place for a message: its client before it is sent, the messages     *)
(* that have arrived, the buffer of the main process, or one child.        *)

Sends(p) == child[p].buf # NoText  \* it has a message, and so a client
FromInbox(c) == \E i \in DOMAIN inbox : inbox[i].from = c
FromBuf(c) == buf # NoText /\ cliaddr = c
FromChild(c) == \E p \in DOMAIN child : Sends(p) /\ child[p].from = c

OnePlace ==
  /\ main = "recv" => buf = NoText
  /\ \A c \in Client : cli[c] = "start" =>
       ~FromInbox(c) /\ ~FromBuf(c) /\ ~FromChild(c)
  /\ \A c \in Client \cup {Nobody} :
       /\ FromInbox(c) => ~FromBuf(c) /\ ~FromChild(c)
       /\ FromBuf(c) => ~FromChild(c)
  /\ \A i, j \in DOMAIN inbox : inbox[i].from = inbox[j].from => i = j
  /\ \A p, q \in DOMAIN child :
       Sends(p) /\ Sends(q) /\ child[p].from = child[q].from => p = q

LEMMA OnePlaceInit == Init => OnePlace
BY DEF Init, OnePlace, FromInbox, FromBuf, FromChild, Sends

LEMMA OnePlaceClient ==
  ASSUME Typed, OnePlace, NEW c \in Client, CliSend(c) \/ CliRecv(c) \/ CliFail(c)
  PROVE  OnePlace'
<1>1. CASE CliSend(c)
  <2> DEFINE n == Len(inbox) + 1
  <2>1. /\ DOMAIN inbox' = DOMAIN inbox \cup {n} /\ n \notin DOMAIN inbox
        /\ \A i \in DOMAIN inbox : inbox'[i] = inbox[i]
        /\ inbox'[n] = [from |-> c, text |-> Sent[c]]
    BY <1>1 DEF CliSend, Typed, TypeOK
  <2>2. cli[c] = "start" /\ cli' = [cli EXCEPT ![c] = "wait"]
    BY <1>1 DEF CliSend, CliGoes
  <2>3. UNCHANGED <<main, buf, cliaddr, child>>
    BY <1>1 DEF CliSend, node
  <2>4. \A d \in Client : cli'[d] = "start" => d # c /\ cli[d] = "start"
    BY <2>2 DEF Typed, TypeOK
  <2>5. inbox'[n].from = c
    BY <2>1
  <2>6. ~FromInbox(c) /\ ~FromBuf(c) /\ ~FromChild(c)
    BY <2>2 DEF OnePlace
  <2>7. \A d : FromBuf(d)' = FromBuf(d) /\ FromChild(d)' = FromChild(d)
    BY <2>3 DEF FromBuf, FromChild, Sends
  <2>8. \A d : FromInbox(d)' => FromInbox(d) \/ d = c
    BY <2>1, <2>5 DEF FromInbox
  <2>9. \A i, j \in DOMAIN inbox' : inbox'[i].from = inbox'[j].from => i = j
    BY <2>1, <2>5, <2>6 DEF OnePlace, FromInbox
  <2> QED BY <2>3, <2>4, <2>6, <2>7, <2>8, <2>9 DEF OnePlace, Sends
<1>2. CASE CliRecv(c) \/ CliFail(c)
  <2>1. UNCHANGED <<inbox, main, buf, cliaddr, child>>
    BY <1>2 DEF CliRecv, CliFail, node
  <2>2. \A d \in Client : cli'[d] = "start" => cli[d] = "start"
    BY <1>2 DEF CliRecv, CliFail, CliGoes, Typed, TypeOK
  <2> QED BY <2>1, <2>2 DEF OnePlace, FromInbox, FromBuf, FromChild, Sends
<1> QED BY <1>1, <1>2

LEMMA OnePlaceNode ==
  ASSUME Typed, OnePlace, SnRecv \/ SnRecvFail \/ SnFork
  PROVE  OnePlace'
<1>1. CASE SnRecv
  <2> DEFINE c == inbox[1].from
  <2>1. /\ 1 \in DOMAIN inbox /\ cliaddr' = c
        /\ \A i \in DOMAIN inbox' :
             i + 1 \in DOMAIN inbox /\ inbox'[i] = inbox[i + 1] /\ i + 1 # 1
    BY <1>1, Received DEF SnRecv, Typed
  <2>2. UNCHANGED <<cli, child>> /\ main' = "fork" /\ buf = NoText
    BY <1>1 DEF SnRecv, client, OnePlace
  <2>3. \A d : FromChild(d)' = FromChild(d)
    BY <2>2 DEF FromChild, Sends
  <2>4. \A d : FromInbox(d)' => FromInbox(d) /\ d # c
    BY <2>1 DEF FromInbox, OnePlace
  <2>5. FromInbox(c) /\ ~FromChild(c)
    <3>1. FromInbox(c)
      BY <2>1 DEF FromInbox
    <3>2. c \in Client
      BY <1>1, Received DEF Letter, Typed
    <3> QED BY <3>1, <3>2 DEF OnePlace
  <2>6. \A d : FromBuf(d)' => d = c
    BY <2>1 DEF FromBuf
  <2>7. \A i, j \in DOMAIN inbox' : inbox'[i].from = inbox'[j].from => i = j
    <3> SUFFICES ASSUME NEW i \in DOMAIN inbox', NEW j \in DOMAIN inbox',
                        inbox'[i].from = inbox'[j].from
                 PROVE  i = j
      OBVIOUS
    <3>1. i + 1 = j + 1
      BY <2>1 DEF OnePlace
    <3>2. i \in Nat /\ j \in Nat
      BY <1>1, Received DEF Typed
    <3> QED BY <3>1, <3>2
  <2>8. \A d \in Client : cli'[d] = "start" =>
          ~FromInbox(d)' /\ ~FromBuf(d)' /\ ~FromChild(d)'
    BY <2>2, <2>3, <2>4, <2>5, <2>6 DEF OnePlace
  <2>9. \A d \in Client \cup {Nobody} :
          /\ FromInbox(d)' => ~FromBuf(d)' /\ ~FromChild(d)'
          /\ FromBuf(d)' => ~FromChild(d)'
    BY <2>3, <2>4, <2>5, <2>6 DEF OnePlace
  <2>10. \A p, q \in DOMAIN child' :
           Sends(p)' /\ Sends(q)' /\ child'[p].from = child'[q].from => p = q
    BY <2>2 DEF OnePlace, Sends
  <2> QED BY <2>2, <2>7, <2>8, <2>9, <2>10 DEF OnePlace
<1>2. CASE SnRecvFail
  BY <1>2 DEF SnRecvFail, client, OnePlace, FromInbox, FromBuf, FromChild, Sends
<1>3. CASE SnFork
  <2>1. UNCHANGED <<cli, inbox, cliaddr>> /\ main' = "recv" /\ buf' = NoText
    BY <1>3 DEF SnFork, client
  <2>2. \A d : ~FromBuf(d)' /\ FromInbox(d)' = FromInbox(d)
    BY <2>1 DEF FromBuf, FromInbox
  <2>3. CASE child' = Append(child, Forked)
    <3> DEFINE n == Len(child) + 1
    <3>1. /\ DOMAIN child' = DOMAIN child \cup {n} /\ n \notin DOMAIN child
          /\ \A q \in DOMAIN child : child'[q] = child[q]
          /\ child'[n].from = cliaddr /\ child'[n].buf = buf
      BY <2>3, Forks DEF Typed, Forked
    <3>2. \A d : FromChild(d)' => FromChild(d) \/ FromBuf(d)
      BY <3>1 DEF FromChild, FromBuf, Sends
    <3>3. \A p, q \in DOMAIN child' :
            Sends(p)' /\ Sends(q)' /\ child'[p].from = child'[q].from => p = q
      <4>1. FromBuf(cliaddr) => ~FromChild(cliaddr)
        BY DEF OnePlace, Typed, TypeOK
      <4>2. \A q \in DOMAIN child :
              buf # NoText /\ Sends(q) => child[q].from # cliaddr
        BY <4>1 DEF FromBuf, FromChild
      <4> QED BY <3>1, <4>2 DEF OnePlace, Sends
    <3>4. \A d \in Client : cli'[d] = "start" =>
            ~FromInbox(d)' /\ ~FromBuf(d)' /\ ~FromChild(d)'
      BY <2>1, <2>2, <3>2 DEF OnePlace
    <3>5. \A d \in Client \cup {Nobody} :
            /\ FromInbox(d)' => ~FromBuf(d)' /\ ~FromChild(d)'
            /\ FromBuf(d)' => ~FromChild(d)'
      BY <2>2, <3>2 DEF OnePlace
    <3> QED BY <2>1, <3>3, <3>4, <3>5 DEF OnePlace
  <2>4. CASE UNCHANGED child
    BY <2>1, <2>2, <2>4 DEF OnePlace, FromChild, Sends
  <2> QED BY <1>3, <2>3, <2>4 DEF SnFork
<1> QED BY <1>1, <1>2, <1>3

\* Messages stay where they are when the children keep theirs.
LEMMA OnePlaceKept ==
  ASSUME OnePlace, Keeps, UNCHANGED <<cli, inbox, main, buf, cliaddr>>
  PROVE  OnePlace'
<1>1. \A q \in DOMAIN child : Sends(q)' = Sends(q) /\ child'[q].from = child[q].from
  BY DEF Keeps, Same, Sends
<1>2. DOMAIN child' = DOMAIN child
  BY DEF Keeps
<1>3. \A d : FromChild(d)' = FromChild(d)
  BY <1>1, <1>2 DEF FromChild
<1>4. \A d : FromBuf(d)' = FromBuf(d) /\ FromInbox(d)' = FromInbox(d)
  BY DEF FromBuf, FromInbox
<1>5. \A p, q \in DOMAIN child' :
        Sends(p)' /\ Sends(q)' /\ child'[p].from = child'[q].from => p = q
  BY <1>1, <1>2 DEF OnePlace
<1> QED BY <1>3, <1>4, <1>5 DEF OnePlace

LEMMA OnePlaceNext == Typed /\ OnePlace /\ [Next]_vars => OnePlace'
<1> SUFFICES ASSUME Typed, OnePlace, [Next]_vars PROVE OnePlace'
  OBVIOUS
<1>1. CASE UNCHANGED vars
  BY <1>1 DEF vars, client, node, signal, OnePlace, FromInbox, FromBuf, FromChild, Sends
<1>2. CASE \E c \in Client : CliSend(c) \/ CliRecv(c) \/ CliFail(c)
  BY <1>2, OnePlaceClient
<1>3. CASE SnRecv \/ SnRecvFail \/ SnFork
  BY <1>3, OnePlaceNode
<1>4. CASE SigDeliver \/ SigReturn
  BY <1>4 DEF SigDeliver, SigReturn, client, node, OnePlace, FromInbox, FromBuf,
              FromChild, Sends
<1>5. CASE SigReap
  <2>1. UNCHANGED <<cli, inbox, main, buf, cliaddr>>
    BY <1>5 DEF SigReap, client, node
  <2> QED BY <1>5, <2>1, SigReapKeeps, OnePlaceKept DEF Typed
<1>6. CASE \E p \in DOMAIN child : ChildStep(p)
  <2>1. PICK p \in DOMAIN child : ChildStep(p)
    BY <1>6
  <2>2. UNCHANGED <<cli, inbox, main, buf, cliaddr>>
    BY <2>1 DEF ChildStep, ChildParse, ChildDo, ChildSend, client, node
  <2> QED BY <2>1, <2>2, ChildStepKeeps, OnePlaceKept DEF Typed
<1> QED BY <1>1, <1>2, <1>3, <1>4, <1>5, <1>6 DEF Next

\* Only a child that has read a message has done anything.
LEMMA DoneSends ==
  ASSUME Typed, NEW p \in DOMAIN child, Done(p)
  PROVE  Sends(p)
<1>1. child[p].err = RPL_OK
  BY ChildTyped DEF Typed, Done, Child
<1> QED BY <1>1 DEF Typed, Progressing, Progress, HasRead, Sends

(* No message is acted on twice, whichever receives and forks fail.        *)
THEOREM ActedOnOnce == Spec => []DoneOnce
<1>1. Typed /\ OnePlace => DoneOnce
  BY DoneSends DEF DoneOnce, OnePlace, Sends
<1> QED BY <1>1, OnePlaceInit, OnePlaceNext, AlwaysTyped, PTL DEF Spec

-----------------------------------------------------------------------------
(* A text stays with the client that has sent it. *)

Its(from, text) == text # NoText => from \in Client /\ text = Sent[from]
AsSent == /\ \A i \in DOMAIN inbox : Its(inbox[i].from, inbox[i].text)
          /\ Its(cliaddr, buf)
          /\ \A p \in DOMAIN child : Its(child[p].from, child[p].buf)

LEMMA AsSentInit == Init => AsSent
BY DEF Init, AsSent, Its

LEMMA AsSentNext == Typed /\ AsSent /\ [Next]_vars => AsSent'
<1> SUFFICES ASSUME Typed, AsSent, [Next]_vars PROVE AsSent'
  OBVIOUS
<1>1. CASE UNCHANGED vars
  BY <1>1 DEF vars, node, AsSent, Its
<1>2. ASSUME NEW c \in Client, CliSend(c)
      PROVE  AsSent'
  <2>1. /\ DOMAIN inbox' = DOMAIN inbox \cup {Len(inbox) + 1}
        /\ \A i \in DOMAIN inbox : inbox'[i] = inbox[i]
        /\ inbox'[Len(inbox) + 1] = [from |-> c, text |-> Sent[c]]
    BY <1>2 DEF CliSend, Typed, TypeOK
  <2>2. \A i \in DOMAIN inbox' : Its(inbox'[i].from, inbox'[i].text)
    BY <2>1 DEF AsSent, Its
  <2> QED BY <1>2, <2>2 DEF CliSend, node, AsSent, Its
<1>3. ASSUME NEW c \in Client, CliRecv(c) \/ CliFail(c)
      PROVE  AsSent'
  BY <1>3 DEF CliRecv, CliFail, node, AsSent, Its
<1>4. CASE SnRecv
  <2>1. Its(inbox[1].from, inbox[1].text) /\ buf' = inbox[1].text /\ cliaddr' = inbox[1].from
    BY <1>4, Received DEF SnRecv, AsSent, Typed
  <2>2. \A i \in DOMAIN inbox' : Its(inbox'[i].from, inbox'[i].text)
    BY <1>4, Received DEF AsSent, Typed
  <2> QED BY <1>4, <2>1, <2>2 DEF SnRecv, AsSent, Its
<1>5. CASE SnRecvFail \/ SigDeliver \/ SigReturn
  BY <1>5 DEF SnRecvFail, SigDeliver, SigReturn, client, node, AsSent, Its
<1>6. CASE SnFork
  <2>1. UNCHANGED <<inbox, cliaddr>> /\ buf' = NoText
    BY <1>6 DEF SnFork
  <2>2. CASE child' = Append(child, Forked)
    <3>1. \A p \in DOMAIN child' : Its(child'[p].from, child'[p].buf)
      BY <2>2, Forks DEF AsSent, Forked, Typed
    <3> QED BY <2>1, <3>1 DEF AsSent, Its
  <2>3. CASE UNCHANGED child
    BY <2>1, <2>3 DEF AsSent, Its
  <2> QED BY <1>6, <2>2, <2>3 DEF SnFork
<1>7. ASSUME Keeps, UNCHANGED <<inbox, buf, cliaddr>>
      PROVE  AsSent'
  BY <1>7 DEF Keeps, Same, AsSent, Its
<1>8. CASE SigReap
  BY <1>7, <1>8, SigReapKeeps DEF SigReap, node, Typed
<1>9. ASSUME NEW p \in DOMAIN child, ChildStep(p)
      PROVE  AsSent'
  <2>1. UNCHANGED <<inbox, buf, cliaddr>>
    BY <1>9 DEF ChildStep, ChildParse, ChildDo, ChildSend, client, node
  <2> QED BY <1>7, <1>9, <2>1, ChildStepKeeps DEF Typed
<1> QED BY <1>1, <1>2, <1>3, <1>4, <1>5, <1>6, <1>8, <1>9 DEF Next

(* What is acted on is what a client has sent, whatever else is received   *)
(* and read meanwhile, but for a file name that has an ampersand.          *)
THEOREM ActedOnAsSent == Spec => []DoneAsSent
<1>1. Typed /\ AsSent => DoneAsSent
  <2> SUFFICES ASSUME Typed, AsSent, NEW p \in DOMAIN child, Done(p)
               PROVE  /\ child[p].from \in Client
                      /\ child[p].sock_msg = Left(Message[child[p].from])
    BY DEF DoneAsSent, Left
  <2>1. HasRead(child[p])
    <3>1. child[p].err = RPL_OK
      BY ChildTyped DEF Typed, Done, Child
    <3> QED BY <3>1 DEF Typed, Progressing, Progress
  <2>2. child[p].from \in Client /\ child[p].buf = Sent[child[p].from]
    BY <2>1 DEF HasRead, AsSent, Its
  <2> QED BY <2>1, <2>2, ReadBack DEF HasRead
<1> QED BY <1>1, AsSentInit, AsSentNext, AlwaysTyped, PTL DEF Spec

-----------------------------------------------------------------------------
(* A reply comes from the child of the client's own message. *)

DoneFor(c) == \E p \in DOMAIN child : Done(p) /\ child[p].from = c
Informed == \A c \in Client : reply[c] # NoText \/ cli[c] = "ok" => DoneFor(c)

\* What has been done stays done when the children keep what they have.
LEMMA DoneKept ==
  ASSUME Typed, Keeps, NEW c, DoneFor(c)
  PROVE  DoneFor(c)'
<1>1. PICK p \in DOMAIN child : Done(p) /\ child[p].from = c
  BY DEF DoneFor
<1>2. child[p].err = RPL_OK
  BY <1>1, ChildTyped DEF Typed, Done, Child
<1>3. p \in DOMAIN child' /\ child'[p].err = RPL_OK /\ child'[p].from = c
  BY <1>1, <1>2 DEF Keeps, Same
<1> QED BY <1>3, OkIsNotEmpty DEF DoneFor, Done

LEMMA InformedInit == Init => Informed
BY DEF Init, Informed

LEMMA InformedNext == Typed /\ Informed /\ [Next]_vars => Informed'
<1> SUFFICES ASSUME Typed, Informed, [Next]_vars PROVE Informed'
  OBVIOUS
<1>1. CASE UNCHANGED vars
  BY <1>1 DEF vars, client, Informed, DoneFor, Done
<1>2. ASSUME NEW c \in Client, CliSend(c) \/ CliRecv(c) \/ CliFail(c)
      PROVE  Informed'
  <2>1. UNCHANGED <<reply, child>>
    BY <1>2 DEF CliSend, CliRecv, CliFail, node
  <2>2. \A d \in Client : cli'[d] = "ok" => cli[d] = "ok" \/ reply[d] # NoText
    BY <1>2 DEF CliSend, CliRecv, CliFail, CliGoes, Typed, TypeOK
  <2> QED BY <2>1, <2>2 DEF Informed, DoneFor, Done
<1>3. CASE SnRecv \/ SnRecvFail
  BY <1>3 DEF SnRecv, SnRecvFail, client, Informed, DoneFor, Done
<1>4. CASE SnFork
  <2>1. UNCHANGED <<cli, reply>>
    BY <1>4 DEF SnFork, client
  <2>2. CASE child' = Append(child, Forked)
    <3>1. /\ DOMAIN child \subseteq DOMAIN child'
          /\ \A q \in DOMAIN child : child'[q] = child[q]
      BY <2>2, Forks DEF Typed
    <3> QED BY <2>1, <3>1 DEF Informed, DoneFor, Done
  <2>3. CASE UNCHANGED child
    BY <2>1, <2>3 DEF Informed, DoneFor, Done
  <2> QED BY <1>4, <2>2, <2>3 DEF SnFork
<1>5. CASE SigDeliver \/ SigReturn
  BY <1>5 DEF SigDeliver, SigReturn, client, Informed, DoneFor, Done
<1>6. CASE SigReap
  <2>1. UNCHANGED <<cli, reply>>
    BY <1>6 DEF SigReap, client
  <2> QED BY <1>6, <2>1, SigReapKeeps, DoneKept DEF Typed, Informed
<1>7. ASSUME NEW p \in DOMAIN child, ChildStep(p)
      PROVE  Informed'
  <2>1. Keeps
    BY <1>7, ChildStepKeeps DEF Typed
  <2>2. UNCHANGED cli
    BY <1>7 DEF ChildStep, ChildParse, ChildDo, ChildSend, client
  <2>3. CASE UNCHANGED reply
    BY <2>1, <2>2, <2>3, DoneKept DEF Informed
  <2>4. CASE ChildSend(p) /\ Replies(child[p].from, child[p].err)
    <3>1. child[p].err = RPL_OK
      BY <2>4 DEF Typed, Progressing, Progress, ChildSend, ChildGoes
    <3>2. DoneFor(child[p].from)
      BY <3>1, OkIsNotEmpty DEF DoneFor, Done
    <3>3. \A d \in Client : reply'[d] # NoText => reply[d] # NoText \/ d = child[p].from
      BY <2>4 DEF Replies, Typed, TypeOK
    <3>4. \A d \in Client : reply'[d] # NoText \/ cli'[d] = "ok" => DoneFor(d)
      BY <2>2, <3>2, <3>3 DEF Informed
    <3> QED BY <2>1, <3>4, DoneKept DEF Informed
  <2> QED BY <1>7, <2>3, <2>4 DEF ChildStep, ChildParse, ChildDo, ChildSend, client
<1> QED BY <1>1, <1>2, <1>3, <1>4, <1>5, <1>6, <1>7 DEF Next

(* A client that takes its message to be acted on is right.                *)
THEOREM OkIsTrue == Spec => []OkMeansDone
<1>1. Informed => OkMeansDone
  BY DEF Informed, OkMeansDone, DoneFor
<1> QED BY <1>1, InformedInit, InformedNext, AlwaysTyped, PTL DEF Spec
=============================================================================
