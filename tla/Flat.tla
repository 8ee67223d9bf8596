-------------------------------- MODULE Flat ---------------------------------
(***************************************************************************)
(* What reading and writing a file promises: a sequence of bytes, and a      *)
(* position for each open descriptor.  A write may be short, but what it      *)
(* returns is what it wrote; the gap before a write past the end is zeros.    *)
(***************************************************************************)
EXTENDS Integers, Sequences

CONSTANTS Desc, Byte

VARIABLES bytes, pos, ret

vars == <<bytes, pos, ret>>

Closed == -1

Init ==
    /\ bytes = <<>>
    /\ pos = [d \in Desc |-> Closed]
    /\ ret = [n |-> 0, data |-> <<>>]

Open(d) ==
    /\ pos[d] = Closed
    /\ pos' = [pos EXCEPT ![d] = 0]
    /\ bytes' \in {bytes, <<>>}
    /\ ret'.data = <<>>

Close(d) ==
    /\ pos[d] # Closed
    /\ pos' = [pos EXCEPT ![d] = Closed]
    /\ ret'.data = <<>>
    /\ UNCHANGED bytes

Seek(d) ==
    /\ pos[d] # Closed
    /\ pos'[d] >= 0 /\ pos' = [pos EXCEPT ![d] = pos'[d]]
    /\ ret'.data = <<>>
    /\ UNCHANGED bytes

Read(d) ==
    /\ pos[d] # Closed
    /\ ret'.n = 0 \/ pos[d] + ret'.n \in 1 .. Len(bytes)
    /\ ret'.data = SubSeq(bytes, pos[d] + 1, pos[d] + ret'.n)
    /\ pos' = [pos EXCEPT ![d] = @ + ret'.n]
    /\ UNCHANGED bytes

Write(d, c) ==
    LET n   == ret'.n
        end == IF n = 0 \/ pos[d] + n < Len(bytes) THEN Len(bytes) ELSE pos[d] + n
    IN  /\ pos[d] # Closed
        /\ n >= 0 /\ ret'.data = <<>>
        /\ pos' = [pos EXCEPT ![d] = @ + n]
        /\ bytes' = [q \in 1 .. end |-> IF q \in pos[d] + 1 .. pos[d] + n THEN c
                                        ELSE IF q <= Len(bytes) THEN bytes[q] ELSE 0]

\* A call that fails, or one on something else.
Other == ret'.data = <<>> /\ UNCHANGED <<bytes, pos>>

Next ==
    \/ Other
    \/ \E d \in Desc : \/ Open(d) \/ Close(d) \/ Seek(d) \/ Read(d)
                       \/ \E c \in Byte : Write(d, c)

Spec == Init /\ [][Next]_vars
=============================================================================
