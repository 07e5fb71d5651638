-------------------------- MODULE ExtractionPromise --------------------------
(***************************************************************************)
(* What automatic extraction promises, without workers, leases or retries: *)
(* an event may be done, and a content may be published as an automatic    *)
(* memory that cites the event it was extracted from.                      *)
(***************************************************************************)
CONSTANTS Events, Contents

VARIABLES
    done,      \* events with a successful attempt
    published  \* automatic memories: [content, event]

vars == <<done, published>>

Init == done = {} /\ published = {}

Taken == {m.content : m \in published}

(* A success of e publishes contents nobody published before, citing e.    *)
Commit(e) ==
    /\ done' = done \cup {e}
    /\ \E new \in SUBSET (Contents \ Taken) :
        published' = published \cup {[content |-> c, event |-> e] : c \in new}

Next == \E e \in Events : Commit(e)

Spec == Init /\ [][Next]_vars
=============================================================================
