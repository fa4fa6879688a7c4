------------------------------- MODULE XmlMsg -------------------------------
(***************************************************************************)
(* xml_msg.c: how the messages of sn_sckt.h are written as XML and read    *)
(* back.  A message goes through a pipe both ways: libxml2 writes the      *)
(* document to the standard output, which is the pipe meanwhile, and reads *)
(* it from the pipe's other end.                                           *)
(***************************************************************************)
EXTENDS Naturals, Sequences

CONSTANT Ampersand  \* the names that have an ampersand in them

Fields == {"type", "dest_ip", "file_name"}
Empty == ""  \* the empty string
NoMsg == [type |-> Empty, dest_ip |-> Empty, file_name |-> Empty]

RPL_OK == "G"
SOCKMSG_TYPE == {"M", "N", "O", "P"}

-----------------------------------------------------------------------------
(* Documents (libxml2) *)

\* An element with its children; the document of an empty text has none.
NoDoc == [root |-> Empty, children |-> <<>>]

\* Content is taken to be XML: an ampersand that begins no entity loses it all.
xmlNewChild(name, content) ==
  [name |-> name, content |-> IF content \in Ampersand THEN Empty ELSE content]

\* A document saved with indentation has a text node around every child.
Blank == [name |-> "text", content |-> " "]
Formatted(root, children) ==
  [root |-> root,
   children |-> [i \in 1 .. 2 * Len(children) + 1 |->
                   IF i % 2 = 1 THEN Blank ELSE children[i \div 2]]]

\* What is in a buffer: a document, after what was printed before it.  No root
\* element is found when it does not begin with one.
NoText == [printed |-> FALSE, doc |-> NoDoc]
xmlReadFd(text) == IF text.printed THEN NoDoc ELSE text.doc

-----------------------------------------------------------------------------
(* Writing *)

\* Mutant: one of the fields is not written.
sock_msg_no_ip(m) ==
  Formatted("sock_msg", <<xmlNewChild("type", m.type),
                          xmlNewChild("file_name", m.file_name)>>)

sock_msg_to_xml(m) ==
  Formatted("sock_msg", <<xmlNewChild("type", m.type),
                          xmlNewChild("dest_ip", m.dest_ip),
                          xmlNewChild("file_name", m.file_name)>>)

rpl_msg_to_xml(err) == Formatted("rpl_msg", <<xmlNewChild("err", err)>>)

\* The pipe takes the place of the standard output, and what the process has
\* printed and stdio has not written yet goes into it first.
sock_msg_to_buf(m, unwritten) == [printed |-> unwritten, doc |-> sock_msg_to_xml(m)]
rpl_msg_to_buf(err, unwritten) == [printed |-> unwritten, doc |-> rpl_msg_to_xml(err)]

-----------------------------------------------------------------------------
(* Reading *)

\* The loops pass over every child whose name is no field's, or a field's they
\* have found already: a field is what its first child has.
Named(doc, name) == {i \in DOMAIN doc.children : doc.children[i].name = name}
First(doc, name) ==
  doc.children[CHOOSE i \in Named(doc, name) : \A j \in Named(doc, name) : i <= j].content

xml_to_sock_msg_parse_from_fd(doc) ==
  LET parse_ok == {f \in Fields : doc.root = "sock_msg" /\ Named(doc, f) # {}}
  IN  [parse_ok |-> parse_ok,
       sock_msg |-> [f \in Fields |-> IF f \in parse_ok THEN First(doc, f) ELSE Empty]]

xml_to_rpl_msg_parse_from_fd(doc) ==
  LET parse_ok == doc.root = "rpl_msg" /\ Named(doc, "err") # {}
  IN  [parse_ok |-> parse_ok, err |-> IF parse_ok THEN First(doc, "err") ELSE Empty]

\* Whether each returns 0, and the message it fills in.
buf_to_sock_msg_parse_from_fd(text) ==
  LET m == xml_to_sock_msg_parse_from_fd(xmlReadFd(text))
  IN  [ok |-> m.parse_ok = Fields, sock_msg |-> m.sock_msg]
buf_to_rpl_msg_parse_from_fd(text) ==
  LET m == xml_to_rpl_msg_parse_from_fd(xmlReadFd(text))
  IN  [ok |-> m.parse_ok, err |-> m.err]
=============================================================================
