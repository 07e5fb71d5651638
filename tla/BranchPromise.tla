--------------------------- MODULE BranchPromise ---------------------------
(***************************************************************************)
(* What the branches of the store promise (docs/architecture.md:41-47):    *)
(* each behaves as a private store that began as a copy of what its parent *)
(* showed at the fork point.  Nobody rewrites what a branch showed, and    *)
(* only its own writes change what it shows next.                          *)
(***************************************************************************)
EXTENDS Naturals

CONSTANTS Main, Branches

VARIABLES
    branches,  \* the branches created so far
    size,      \* entries written so far, to whichever branch
    history    \* history[b][k]: what branch b showed after the first k entries

vars == <<branches, size, history>>

Nothing == [shown |-> {}, live |-> {}, block |-> {}]

Init ==
    /\ branches = {Main} /\ size = 0
    /\ history = [b \in branches |-> [k \in 0..size |-> Nothing]]

\* What an entry n may do to a view: it is shown, and may be a memory, which
\* may supersede what was shown, or the new version of the block.
WithEntry(view, n) ==
    LET grown == [view EXCEPT !.shown = @ \cup {n}]
    IN {grown, [grown EXCEPT !.block = {n}]}
         \cup {[grown EXCEPT !.live = (@ \ {m}) \cup {n}] : m \in {0} \cup view.shown}

Write(b) ==
    /\ size' = size + 1
    /\ UNCHANGED branches
    /\ LET view == history'[b][size + 1]
       IN /\ view \in WithEntry(history[b][size], size + 1)
          /\ history' = [c \in branches |-> [k \in 0..size + 1 |->
                          IF k <= size THEN history[c][k]
                          ELSE IF c = b THEN view ELSE history[c][size]]]

\* The fork has the history of its parent, which stands still from n on.
Fork(b, p) ==
    /\ branches' = branches \cup {b}
    /\ \E n \in 0..size :
        history' = [c \in branches' |->
                     IF c \in branches THEN history[c]
                     ELSE [k \in 0..size |-> history[p][IF k <= n THEN k ELSE n]]]
    /\ UNCHANGED size

Next ==
    \/ \E b \in branches : Write(b)
    \/ \E b \in Branches \ branches, p \in branches : Fork(b, p)

Spec == Init /\ [][Next]_vars
=============================================================================
