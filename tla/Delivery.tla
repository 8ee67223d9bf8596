------------------------------ MODULE Delivery ------------------------------
(***************************************************************************)
(* What the mail system of ipc/ promises: a mail that was accepted stays    *)
(* pending, unchanged, until the thread it is addressed to picks it.  The   *)
(* thread is given that mail, once, and only if it answers what the thread *)
(* has asked for; a user-level mail only if no system-level mail to the     *)
(* thread answers it.  There is no order between mails of one level.        *)
(***************************************************************************)
CONSTANTS
    Thread,
    Ticket,    \* names for accepted mails; the implementation's are its slots
    Mail,      \* records with at least dst, level ("SYS" or "USR") and msg
    Request,   \* what a receiver may ask for
    Matches(_, _),  \* does a mail answer a request?
    None

VARIABLES
    pending,   \* the accepted mails, each a pair of ticket and mail
    served     \* the thread the last step gave a mail to, and what it had asked for

vars == <<pending, served>>

Init == pending = {} /\ served = None

Post(x) ==
    /\ x \in Ticket \X Mail
    /\ \A y \in pending : y[1] # x[1]
    /\ pending' = pending \cup {x}
    /\ served' = None

Pick(t, x, r) ==
    /\ x[2].dst = t
    /\ Matches(x[2], r)
    /\ x[2].level = "USR" =>
          \A y \in pending : y[2].dst = t /\ y[2].level = "SYS" => ~Matches(y[2], r)
    /\ pending' = pending \ {x}
    /\ served' = [thread |-> t, asked |-> r]

Other == pending' = pending /\ served' = None

Next ==
    \/ \E x \in pending' : Post(x)
    \/ \E t \in Thread, x \in pending, r \in Request : Pick(t, x, r)
    \/ Other

Spec == Init /\ [][Next]_vars
=============================================================================
