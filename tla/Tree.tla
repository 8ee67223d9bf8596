-------------------------------- MODULE Tree ---------------------------------
(***************************************************************************)
(* What the calls of fs/namei.c promise: a tree of directories, where a     *)
(* directory gives a name to one node, a directory has one name and only an  *)
(* empty one is removed, and a file may have several names.                 *)
(***************************************************************************)
EXTENDS Integers

CONSTANTS Name, Node, Root, RootDir

VARIABLES
    dirs,    \* the nodes that are directories
    names    \* <<d, x, n>>: in directory d, n has the name x

vars == <<dirs, names>>

Init ==
    /\ dirs = {Root, RootDir}
    /\ \E x \in Name : names = {<<Root, x, RootDir>>}

\* A new name t: its directory has no other node of that name.
NewName(t) ==
    /\ t[1] \in dirs /\ t[2] \in Name /\ t[3] \in Node
    /\ ~ \E u \in names : u[1] = t[1] /\ u[2] = t[2]
    /\ names' = names \cup {t}

Fresh(n) == n \notin dirs /\ \A t \in names : t[3] # n

MakeDir(t) == NewName(t) /\ Fresh(t[3]) /\ dirs' = dirs \cup {t[3]}
AddFile(t) == NewName(t) /\ Fresh(t[3]) /\ dirs' = dirs
Link(t)    == NewName(t) /\ t[3] \notin dirs /\ ~Fresh(t[3]) /\ dirs' = dirs

Unlink(t) ==
    /\ t[3] \notin dirs
    /\ names' = names \ {t}
    /\ dirs' = dirs

RemoveDir(t) ==
    /\ t[3] \in dirs \ {Root, RootDir}
    /\ \A u \in names : u[1] # t[3]
    /\ names' = names \ {t}
    /\ dirs' = dirs \ {t[3]}

Next ==
    \/ \E t \in names' \ names : MakeDir(t) \/ AddFile(t) \/ Link(t)
    \/ \E t \in names \ names' : Unlink(t) \/ RemoveDir(t)

Spec == Init /\ [][Next]_vars
=============================================================================
