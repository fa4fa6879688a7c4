------------------------------ MODULE Namespace ------------------------------
(***************************************************************************)
(* namespace_server.c, as far as it runs: main() calls init_ns(), which    *)
(* sets up the root directory, adds the super user's record to             *)
(* user_info.txt and makes the directories /su and /shared with mkfile.    *)
(* The handlers ls, cd, rmfile and adduser have no caller yet.             *)
(***************************************************************************)
EXTENDS Naturals, Sequences

CONSTANT MaxStart  \* bound: how often the server is started

\* The bits of a file's type
DIRECTORY_FILE == "DIRECTORY_FILE"
SHARED_FLAG == "SHARED_FLAG"
SHARED_DIR == "SHARED_DIR"

HOME_FOR_SU == <<"/", "s", "u">>
HOME_FOR_SHARED == <<"/", "s", "h", "a", "r", "e", "d">>

VARIABLES
  info,    \* how many times the super user is in user_info.txt
  there,   \* whether user_info.txt is there
  root,    \* the children of cfs_root_dir: paths with their types
  share,   \* for_share, a set of at most one path: empty when it is null
  pc,
  starts

vars == <<info, there, root, share, pc, starts>>

Init == /\ there \in BOOLEAN
        /\ info = IF there THEN 1 ELSE 0
        /\ root = {}
        /\ share = {}
        /\ pc = "init"
        /\ starts = 1

-----------------------------------------------------------------------------
(* get_ns_node *)

\* At each character, and once after the last: a name begins, or ends, and is
\* looked up when it has both ends.  Then the ends are forgotten, wherever in
\* a name that is.  Zero stands for a null pointer.
At(path, w, p) ==
  LET slash == p <= Len(path) /\ path[p] = "/"
      enter == ~w.inword /\ p <= Len(path) /\ ~slash
      inword == w.inword \/ enter
      leave == inword /\ (slash \/ p > Len(path))
      head == IF enter THEN p ELSE w.head
      tail == IF leave THEN p ELSE w.tail
  IN  [inword |-> inword /\ ~leave, head |-> 0, tail |-> 0,
       looked |-> w.looked \/ (head # 0 /\ tail # 0 /\ head < tail)]

\* Whether any name of an absolute path is looked up.
LooksUp(path) ==
  LET walk[p \in 0 .. Len(path) + 1] ==
        IF p = 0
        THEN [inword |-> FALSE, head |-> 0, tail |-> 0, looked |-> FALSE]
        ELSE At(path, walk[p - 1], p)
  IN  walk[Len(path) + 1].looked

\* What it may return: 0 and the node it started from when no name is looked
\* up.  The lookup itself is not modelled; it might return anything.
get_ns_node(path) == IF LooksUp(path) THEN 0 .. 4 ELSE {0}

-----------------------------------------------------------------------------
(* mkfile *)

\* As the code has it: regular files and directories, and nothing special.
\* IS_REG_FILE is true of a type with no bit set.
Illegal(type) == /\ type = {} \/ DIRECTORY_FILE \in type
                 /\ SHARED_FLAG \notin type
                 /\ SHARED_DIR \notin type

\* The files it may make, as a set of sets: empty for the null pointer.
mkfile(path, type) ==
  IF Illegal(type) THEN {{}}
  ELSE {IF r = 3 THEN {[path |-> path, type |-> type]} ELSE {}
          : r \in get_ns_node(path)}

-----------------------------------------------------------------------------
(* init_ns *)

Goes(from, to) == pc = from /\ pc' = to

\* fd is unsigned: a file that is not there is not noticed, and the write to
\* it fails unseen.
WriteSu == /\ Goes("init", "su")
           /\ info' = IF there THEN info + 1 ELSE info
           /\ UNCHANGED <<there, root, share, starts>>

MakeSu == /\ Goes("su", "shared")
          /\ \E new \in mkfile(HOME_FOR_SU, {DIRECTORY_FILE}) : root' = root \cup new
          /\ UNCHANGED <<info, there, share, starts>>

MakeShared ==
  /\ Goes("shared", "mark")
  /\ \E new \in mkfile(HOME_FOR_SHARED, {DIRECTORY_FILE}) :
       root' = root \cup new /\ share' = new
  /\ UNCHANGED <<info, there, starts>>

\* for_share is not compared with the null pointer: using it ends the process.
MarkShared ==
  /\ IF share = {} THEN Goes("mark", "killed") ELSE Goes("mark", "returned")
  /\ root' = (root \ share)
               \cup {[f EXCEPT !.type = @ \cup {SHARED_DIR}] : f \in share}
  /\ UNCHANGED <<info, there, share, starts>>

\* Only user_info.txt outlives the process.
Start == /\ pc \in {"killed", "returned"}
         /\ starts < MaxStart
         /\ starts' = starts + 1
         /\ pc' = "init"
         /\ root' = {}
         /\ share' = {}
         /\ UNCHANGED <<info, there>>

Next == WriteSu \/ MakeSu \/ MakeShared \/ MarkShared \/ Start

Spec == Init /\ [][Next]_vars

-----------------------------------------------------------------------------
(* "/shared DIR WILL BE CREATED WITH SHARED_DIR SET WHEN INITIALIZE        *)
(* SYSTEM": once init_ns is over, the directory is there.                  *)
SharedMade ==
  pc \in {"killed", "returned"} =>
    \E f \in root : f.path = HOME_FOR_SHARED /\ SHARED_DIR \in f.type
=============================================================================
