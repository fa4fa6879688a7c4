------------------------------ MODULE SuperNode ------------------------------
(***************************************************************************)
(* sn_main.c and sn_cli.c: a client of a super node sends it one message   *)
(* about a replica and waits for the reply.  The super node's main process *)
(* receives the messages and forks a child for each; the child reads the   *)
(* message, acts on it, replies and exits; a signal handler of the main    *)
(* process collects the children that have exited.                         *)
(***************************************************************************)
EXTENDS XmlMsg, FiniteSets

CONSTANTS
  Client,      \* processes that run sn_cli
  Message,     \* the message each of them sends
  SN,          \* the super node
  Nobody,
  Terminal,    \* the processes whose standard output is a terminal
  MaxFail      \* bound: calls of the system that fail

ASSUME SuperNodeAssumption ==
  /\ SN \notin Client
  /\ Nobody \notin Client
  /\ Message \in [Client -> [type : SOCKMSG_TYPE, dest_ip : STRING, file_name : STRING]]
  /\ \A c \in Client : Message[c].dest_ip \notin Ampersand
  /\ Ampersand \cap (SOCKMSG_TYPE \cup {RPL_OK}) = {}
  /\ Terminal \subseteq Client \cup {SN}
  /\ MaxFail \in Nat

\* Both programs print a line before they write a message.  Only a terminal
\* has it at once: stdio keeps it for anything else.
Unwritten(p) == p \notin Terminal

VARIABLES
  fails,     \* calls that have failed
  cli,       \* where each client is, or how it has ended
  reply,     \* what has arrived for it
  inbox,     \* messages that have arrived at the super node, with their senders
  main,      \* where its main process is
  buf,       \* the buffer of the main process
  cliaddr,   \* the sender of the last message it has received
  handling,  \* whether sig_chld runs
  pending,   \* whether SIGCHLD is pending
  child      \* the processes forked so far, by pid

client == <<cli, reply>>
node == <<main, buf, cliaddr>>
signal == <<handling, pending>>
vars == <<fails, client, inbox, node, signal, child>>

SentMessage == {Message[c] : c \in Client}
Parsed == SentMessage \cup {[m EXCEPT !.file_name = Empty] : m \in SentMessage} \cup {NoMsg}
Sent == [c \in Client |-> sock_msg_to_buf(Message[c], Unwritten(c))]
Text == {NoText} \cup {Sent[c] : c \in Client}
Parse == [t \in Text |-> buf_to_sock_msg_parse_from_fd(t)]
Reply == {NoText, rpl_msg_to_buf(RPL_OK, Unwritten(SN))}
ParseReply == [t \in Reply |-> buf_to_rpl_msg_parse_from_fd(t)]
Letter == [from : Client, text : Text]
Child == [from : Client \cup {Nobody}, buf : Text, sock_msg : Parsed,
          err : {RPL_OK, Empty}, pc : {"parse", "do", "send", "zombie", "gone"}]

TypeOK == /\ fails \in 0 .. MaxFail
          /\ cli \in [Client -> {"start", "wait", "ok", "err", "fail"}]
          /\ reply \in [Client -> Reply]
          /\ inbox \in Seq(Letter)
          /\ main \in {"recv", "fork"}
          /\ buf \in Text
          /\ cliaddr \in Client \cup {Nobody}
          /\ handling \in BOOLEAN
          /\ pending \in BOOLEAN
          /\ child \in Seq(Child)

Init == /\ fails = 0
        /\ cli = [c \in Client |-> "start"]
        /\ reply = [c \in Client |-> NoText]
        /\ inbox = <<>>
        /\ main = "recv"
        /\ buf = NoText
        /\ cliaddr = Nobody
        /\ handling = FALSE
        /\ pending = FALSE
        /\ child = <<>>

Works == UNCHANGED fails
Fails == fails < MaxFail /\ fails' = fails + 1

-----------------------------------------------------------------------------
(* sctp_send_sock_recv_rpl *)

CliGoes(c, from, to) == cli[c] = from /\ cli' = [cli EXCEPT ![c] = to]

CliSend(c) ==
  /\ CliGoes(c, "start", "wait")
  /\ inbox' = Append(inbox, [from |-> c, text |-> Sent[c]])
  /\ UNCHANGED <<fails, reply, node, signal, child>>

CliRecv(c) ==
  LET r == ParseReply[reply[c]]
  IN  /\ reply[c] # NoText
      /\ CliGoes(c, "wait", IF ~r.ok THEN "fail"
                            ELSE IF r.err = RPL_OK THEN "ok" ELSE "err")
      /\ UNCHANGED <<fails, reply, inbox, node, signal, child>>

\* No pipe, or the message is not sent; or no reply can be received or read.
CliFail(c) == /\ cli[c] \in {"start", "wait"}
              /\ CliGoes(c, cli[c], "fail")
              /\ Fails
              /\ UNCHANGED <<reply, inbox, node, signal, child>>

-----------------------------------------------------------------------------
(* main and sig_chld, which interrupts it.  The call it interrupts is      *)
(* begun again (Signal in utility.c).                                      *)

SnRecv == /\ ~handling
          /\ main = "recv"
          /\ inbox # <<>>
          /\ buf' = Head(inbox).text
          /\ cliaddr' = Head(inbox).from
          /\ inbox' = Tail(inbox)
          /\ main' = "fork"
          /\ UNCHANGED <<fails, client, signal, child>>

\* A call of sctp_recvmsg that fails is reported, and no more.
SnRecvFail == /\ ~handling
              /\ main = "recv"
              /\ Fails
              /\ main' = "fork"
              /\ UNCHANGED <<client, inbox, buf, cliaddr, signal, child>>

Forked == [from |-> cliaddr, buf |-> buf, sock_msg |-> NoMsg, err |-> Empty,
           pc |-> "parse"]

\* Mutant: the buffer is not cleared before the next call of sctp_recvmsg.
SnForkDirty == /\ ~handling
               /\ main = "fork"
               /\ \/ child' = Append(child, Forked) /\ Works
                  \/ UNCHANGED child /\ Fails
               /\ main' = "recv"
               /\ UNCHANGED <<client, inbox, buf, cliaddr, signal>>

\* Whether or not there is a child now, the loop goes round.
SnFork == /\ ~handling
          /\ main = "fork"
          /\ \/ child' = Append(child, Forked) /\ Works
             \/ UNCHANGED child /\ Fails
          /\ main' = "recv"
          /\ buf' = NoText
          /\ UNCHANGED <<client, inbox, cliaddr, signal>>

SigDeliver == /\ pending
              /\ ~handling
              /\ handling' = TRUE
              /\ pending' = FALSE
              /\ UNCHANGED <<fails, client, inbox, node, child>>

\* Mutant: waitpid is called once.
SigReapOne == /\ handling
              /\ \E p \in DOMAIN child :
                   /\ child[p].pc = "zombie"
                   /\ child' = [child EXCEPT ![p].pc = "gone"]
              /\ handling' = FALSE
              /\ UNCHANGED <<fails, client, inbox, node, pending>>

SigReap == /\ handling
           /\ \E p \in DOMAIN child :
                /\ child[p].pc = "zombie"
                /\ child' = [child EXCEPT ![p].pc = "gone"]
           /\ UNCHANGED <<fails, client, inbox, node, signal>>

SigReturn == /\ handling
             /\ \A p \in DOMAIN child : child[p].pc # "zombie"
             /\ handling' = FALSE
             /\ UNCHANGED <<fails, client, inbox, node, pending, child>>

-----------------------------------------------------------------------------
(* The children *)

\* The child goes on.  When it exits, its parent gets a signal, or a signal
\* that is pending already stands for both.
ChildGoes(p, from, to) == /\ child[p].pc = from
                          /\ child' = [child EXCEPT ![p] = to]
                          /\ pending' = (pending \/ to.pc = "zombie")
Exits(p) == [child[p] EXCEPT !.pc = "zombie"]

\* Mutant: the child reads the buffer of the main process.
ChildParseShared(p) ==
  LET m == Parse[buf]
  IN  /\ \/ /\ m.ok
            /\ ChildGoes(p, "parse", [child[p] EXCEPT !.sock_msg = m.sock_msg,
                                                      !.pc = "do"])
            /\ Works
         \/ ~m.ok /\ ChildGoes(p, "parse", Exits(p)) /\ Works
         \/ ChildGoes(p, "parse", Exits(p)) /\ Fails
      /\ UNCHANGED <<client, inbox, node, handling>>

ChildParse(p) ==
  LET m == Parse[child[p].buf]
  IN  /\ \/ /\ m.ok
            /\ ChildGoes(p, "parse", [child[p] EXCEPT !.sock_msg = m.sock_msg,
                                                      !.pc = "do"])
            /\ Works
         \/ ~m.ok /\ ChildGoes(p, "parse", Exits(p)) /\ Works
         \/ ChildGoes(p, "parse", Exits(p)) /\ Fails
      /\ UNCHANGED <<client, inbox, node, handling>>

\* Mutant: rpl_msg is not filled in.
ChildDoUnset(p) ==
  /\ \/ ChildGoes(p, "do", [child[p] EXCEPT !.pc = "send"]) /\ Works
     \/ ChildGoes(p, "do", Exits(p)) /\ Fails
  /\ UNCHANGED <<client, inbox, node, handling>>

\* do_sock_msg calls none of the do_XXX functions yet: all is well.  The reply
\* is written into the child's buffer, if there is a pipe to be had.
ChildDo(p) ==
  LET done == [child[p] EXCEPT !.err = RPL_OK]
  IN  /\ \/ ChildGoes(p, "do", [done EXCEPT !.pc = "send"]) /\ Works
         \/ ChildGoes(p, "do", [done EXCEPT !.pc = "zombie"]) /\ Fails
      /\ UNCHANGED <<client, inbox, node, handling>>

Replies(to, err) ==
  reply' = [reply EXCEPT ![to] = rpl_msg_to_buf(err, Unwritten(SN))]

\* Mutant: the reply goes to whoever the main process has heard from last.
ChildSendLast(p) ==
  /\ ChildGoes(p, "send", Exits(p))
  /\ Replies(cliaddr, child[p].err) /\ Works
  /\ UNCHANGED <<cli, inbox, node, handling>>

ChildSend(p) ==
  /\ ChildGoes(p, "send", Exits(p))
  /\ \/ Replies(child[p].from, child[p].err) /\ Works
     \/ UNCHANGED reply /\ Fails
  /\ UNCHANGED <<cli, inbox, node, handling>>

ChildStep(p) == ChildParse(p) \/ ChildDo(p) \/ ChildSend(p)

-----------------------------------------------------------------------------

Next == \/ \E c \in Client : CliSend(c) \/ CliRecv(c) \/ CliFail(c)
        \/ SnRecv \/ SnRecvFail \/ SnFork
        \/ SigDeliver \/ SigReap \/ SigReturn
        \/ \E p \in DOMAIN child : ChildStep(p)

\* Every process that can go on does; no client has to be started, and nothing
\* has to fail.
Pid == 1 .. Cardinality(Client) + MaxFail
Fairness == /\ WF_vars(SnRecv \/ SnFork)
            /\ WF_vars(SigDeliver \/ SigReap \/ SigReturn)
            /\ \A p \in Pid : WF_vars(p \in DOMAIN child /\ ChildStep(p))
            /\ \A c \in Client : WF_vars(CliRecv(c))

Spec == Init /\ [][Next]_vars /\ Fairness

-----------------------------------------------------------------------------
(* Safety *)

Done(p) == child[p].err # Empty

(* What a child acts on is what its client has sent, whatever the main     *)
(* process receives meanwhile; a file name with an ampersand is lost.      *)
DoneAsSent ==
  \A p \in DOMAIN child : Done(p) =>
    /\ child[p].from \in Client
    /\ LET m == Message[child[p].from]
       IN  child[p].sock_msg = IF m.file_name \in Ampersand
                               THEN [m EXCEPT !.file_name = Empty] ELSE m

(* No message is acted on twice, though a child is forked for what is in   *)
(* the buffer even when nothing could be received.                         *)
DoneOnce ==
  \A p, q \in DOMAIN child :
    Done(p) /\ Done(q) /\ child[p].from = child[q].from => p = q

(* A client is told that all is well only when its own message has been    *)
(* acted on: no child's reply goes to another child's client.              *)
OkMeansDone ==
  \A c \in Client : cli[c] = "ok" =>
    \E p \in DOMAIN child : Done(p) /\ child[p].from = c

-----------------------------------------------------------------------------
(* Liveness *)

(* Every child that has exited is collected, although the signals of       *)
(* children that exit at about the same time are one.                      *)
Reaped ==
  \A p \in Pid : p \in DOMAIN child /\ child[p].pc = "zombie"
                   ~> p \in DOMAIN child /\ child[p].pc = "gone"

(* A client that has sent its message is told that all is well, as long as *)
(* no call fails and it and the super node both run on a terminal.         *)
Answered ==
  [](fails = 0) => \A c \in Client : cli[c] = "wait" /\ {c, SN} \subseteq Terminal
                                       ~> cli[c] = "ok"
=============================================================================
