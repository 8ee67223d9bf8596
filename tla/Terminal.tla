------------------------------ MODULE Terminal ------------------------------
(***************************************************************************)
(* What the keyboard side of the terminal promises: keys that were accepted *)
(* are decoded in the order they were pressed, each once and unaltered; a   *)
(* line collects the characters, backspace takes the last one back unless   *)
(* the cursor is at the start of the screen, enter hands out at most Chunk   *)
(* characters from the front.                                               *)
(***************************************************************************)
EXTENDS Naturals, Sequences

CONSTANTS
    Char,           \* keys that stand for a character
    Backspace, Enter,
    KeyRoom,        \* keys that can wait to be decoded
    LineRoom,       \* characters a line can hold
    Chunk,          \* characters enter hands out at most
    NoKey           \* the decoder has no key in hand

VARIABLES
    keys,    \* keys that wait
    hand,    \* the key the decoder has taken and not yet looked at, or NoKey
    line,    \* characters typed and not handed out
    out,     \* what the last enter handed out
    atStart  \* whether the cursor is at the start of the screen

vars == <<keys, hand, line, out, atStart>>

Init ==
    /\ keys = <<>> /\ hand = NoKey /\ line = <<>> /\ out = <<>>
    /\ atStart \in BOOLEAN

Press(k) ==
    /\ Len(keys) < KeyRoom
    /\ keys' = Append(keys, k)
    /\ UNCHANGED <<hand, line, out, atStart>>

Take ==
    /\ hand = NoKey
    /\ keys # <<>>
    /\ hand' = Head(keys)
    /\ keys' = Tail(keys)
    /\ UNCHANGED <<line, out, atStart>>

Look(effect) ==
    /\ hand # NoKey
    /\ hand' = NoKey
    /\ UNCHANGED keys
    /\ effect

TypeChar ==
    /\ hand \in Char
    /\ line' = IF Len(line) < LineRoom THEN Append(line, hand) ELSE line
    /\ atStart' = FALSE
    /\ UNCHANGED out

RubOut ==
    /\ hand = Backspace
    /\ IF atStart \/ line = <<>>
       THEN UNCHANGED <<line, atStart>>
       ELSE line' = SubSeq(line, 1, Len(line) - 1) /\ atStart' \in BOOLEAN
    /\ UNCHANGED out

HandOut ==
    /\ hand = Enter
    /\ LET n == IF Len(line) < Chunk THEN Len(line) ELSE Chunk
       IN  /\ out'  = SubSeq(line, 1, n)
           /\ line' = SubSeq(line, n + 1, Len(line))
    /\ atStart' = FALSE

Ignore ==
    /\ hand \notin Char \cup {Backspace, Enter}
    /\ atStart' \in BOOLEAN
    /\ UNCHANGED <<line, out>>

\* Others write to the screen.
Output == atStart' = FALSE /\ UNCHANGED <<keys, hand, line, out>>

Next ==
    \/ \E k \in Char \cup {Backspace, Enter, "other"} : Press(k)
    \/ Take
    \/ Output
    \/ Look(TypeChar \/ RubOut \/ HandOut \/ Ignore)

Spec == Init /\ [][Next]_vars
=============================================================================
