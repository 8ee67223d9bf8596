------------------------------- MODULE MCNames -------------------------------
(***************************************************************************)
(* Names below the root directory, below bb (a directory or a file), through *)
(* "..", and with a slash at the end.  A block has room for one name besides *)
(* "." and "..", and the table has fewer entries than there are inodes.      *)
(***************************************************************************)
EXTENDS Names

CONSTANTS a, bb, cc, dot, dotdot, slash, none

MCName    == {a, bb, cc, dot, dotdot, slash}
MCNameLen == [x \in MCName |-> IF x \in {bb, cc, dotdot} THEN 2 ELSE 1]
MCPaths   == {<<a>>, <<bb>>, <<bb, bb>>, <<bb, dotdot, a>>, <<bb, none>>}

\* Two directories that can both get more names than their first blocks hold.
MCGrowPaths == {<<bb>>, <<cc>>, <<bb, bb>>, <<bb, cc>>, <<cc, bb>>, <<cc, cc>>}

\* ".." in the inode above the root directory.
MCDotPaths == {<<a>>, <<bb>>, <<dotdot, dotdot>>}

\* A run ends where the tree may break.
Unharmed == harm = {}
=============================================================================
