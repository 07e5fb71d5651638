------------------------- MODULE Settlement_proofs -------------------------
(***************************************************************************)
(* What settlement keeps of a task, for any number of branches, entries     *)
(* and deliveries: a detection is consumed once, a closed line stays out of *)
(* the block, no entry vanishes unexplained, and an open line has an open   *)
(* task.                                                                   *)
(*                                                                         *)
(* A transaction changes what one branch sees and, in the shared ledger,    *)
(* candidates of that branch only.  So the invariant is one about the view  *)
(* of a branch, each operation on a view keeps it, and a commit leaves the  *)
(* views of the others alone.  What the four properties lack to be          *)
(* inductive is what reverting needs: the memory that an applied closure    *)
(* completed, or another open one, is still there.  It speaks of the        *)
(* entries of a branch that nobody changed by hand, or not since settlement *)
(* had nothing to say about them (Regular).                                 *)
(***************************************************************************)
EXTENDS Settlement, FiniteSetTheorems, TLAPS

Statuses == {"pending", "applied", "reverted", "contested"}
Keys == {NoClosure} \cup (Branches \X Nat)
Rows == [entry : Entries, id : Nat, anchor : Nat,
         status : {"open", "reopened", "completed"}, by : Keys, listed : BOOLEAN]
Events == [seq : Nat, branch : Branches, entry : Entries]
Candidates == [branch : Branches, entry : Entries, evidence : Nat, detected : Nat,
               task : Nat, status : Statuses, at : Nat]
Views == [lines : SUBSET Entries, tasks : SUBSET Rows, ledger : SUBSET Candidates,
          evidence : SUBSET Events]

Once(led) == \A c, d \in led : Of(c) = Of(d) => c = d

Applied(b, led) == {c \in led : c.branch = b /\ c.status = "applied"}

OneApplied(b, led, X) ==
  \A c, d \in Applied(b, led) : c.entry = d.entry /\ c.entry \in X => c = d

\* The memory that a closure completed, or an open one of its entry.
Kept(v, c) ==
  \E r \in v.tasks : /\ r.entry = c.entry
                     /\ r.status # "completed" \/ r.by = Key(c)

TakenOut(b, v, X) ==
  \A c \in Applied(b, v.ledger) : c.entry \in X => c.entry \notin v.lines /\ Kept(v, c)

HasTask(v, X) == \A x \in v.lines \cap X : Open(v, x)

Explains(b, c) ==
  \/ c.branch = b /\ c.status \in {"applied", "contested"}
  \/ b # Main /\ c.branch = Main /\ c.detected <= cut[b]

Accounted(b, v, X) ==
  \A r \in v.tasks : r.listed /\ r.entry \in X =>
      r.entry \in v.lines \/ \E c \in v.ledger : c.entry = r.entry /\ Explains(b, c)

\* X are the entries that nobody left irregular by hand.
Sound(b, v, X) ==
  /\ v \in Views /\ Once(v.ledger)
  /\ OneApplied(b, v.ledger, X) /\ TakenOut(b, v, X) /\ HasTask(v, X) /\ Accounted(b, v, X)

\* What a transaction of a branch may do to the ledger.
Alike(c, d) ==
  /\ c.branch = d.branch /\ c.entry = d.entry /\ c.evidence = d.evidence
  /\ c.detected = d.detected

Continues(b, old, new, n) ==
  /\ \A d \in new : d \in old \/ d.branch = b
  /\ \A d \in new : (\E c \in old : Alike(c, d)) \/ d.detected <= n
  /\ \A c \in old : \E d \in new : /\ Alike(c, d)
                                   /\ c.branch # b => d = c

TypeOK ==
  /\ seq \in Nat /\ Main \in Alive /\ Alive \subseteq Branches
  /\ cut \in [Alive -> Nat] /\ \A b \in Alive : cut[b] <= seq
  /\ DOMAIN lines = Branches /\ DOMAIN tasks = Branches
  /\ \A b \in Branches : View(b) \in Views
  /\ \A c \in ledger : c.branch \in Alive /\ c.detected <= seq

Orderly(b) == {x \in Entries : <<b, x>> \notin byHand}

IInv ==
  /\ TypeOK
  /\ \A b \in Alive : Sound(b, View(b), Orderly(b))
  /\ \A b \in Branches \ Alive : lines[b] = {} /\ tasks[b] = {}

----------------------------------------------------------------------------
(* The ledger.                                                             *)

LEMMA AlikeIs ==
  ASSUME NEW c \in Candidates, NEW d \in Candidates, Alike(c, d)
  PROVE  Of(c) = Of(d) /\ Key(c) = Key(d)
  BY DEF Alike, Of, Key

LEMMA OfIs ==
  ASSUME NEW c \in Candidates, NEW d \in Candidates, Of(c) = Of(d)
  PROVE  c.branch = d.branch /\ c.entry = d.entry /\ c.evidence = d.evidence
<1>1. Of(c).branch = c.branch /\ Of(c).entry = c.entry /\ Of(c).evidence = c.evidence
  BY DEF Of
<1>2. Of(d).branch = d.branch /\ Of(d).entry = d.entry /\ Of(d).evidence = d.evidence
  BY DEF Of
<1> QED BY <1>1, <1>2

\* A candidate with a new status is the same candidate.
LEMMA RestatedOne ==
  ASSUME NEW c \in Candidates, NEW s \in Statuses, NEW n \in Nat
  PROVE  /\ [c EXCEPT !.status = s, !.at = n] \in Candidates
         /\ Alike(c, [c EXCEPT !.status = s, !.at = n])
         /\ [c EXCEPT !.status = s, !.at = n].status = s
  BY DEF Candidates, Alike

\* Who is in the ledger after candidates of it were restated.
IsRestated(led, C, s, new) ==
  /\ new \in SUBSET Candidates
  /\ \A d \in new : d \in led \ C \/ \E c \in C : Alike(c, d) /\ d.status = s
  /\ \A c \in led \ C : c \in new
  /\ \A c \in C : \E d \in new : Alike(c, d) /\ d.status = s
  /\ Once(led) => Once(new)

LEMMA RestatedIs ==
  ASSUME NEW led \in SUBSET Candidates, NEW C \in SUBSET led, NEW s \in Statuses, NEW n \in Nat
  PROVE  IsRestated(led, C, s, Restated(led, C, s, n))
<1> DEFINE new == Restated(led, C, s, n)
           Re(c) == [c EXCEPT !.status = s, !.at = n]
<1>1. new = (led \ C) \cup {Re(c) : c \in C}
  BY DEF Restated
<1>2. \A c \in Candidates : Re(c) \in Candidates /\ Alike(c, Re(c)) /\ Re(c).status = s
  BY RestatedOne
<1> HIDE DEF new, Re
<1>3. Once(led) => Once(new)
  <2> SUFFICES ASSUME Once(led), NEW d1 \in new, NEW d2 \in new, Of(d1) = Of(d2) PROVE d1 = d2
    BY DEF Once
  <2>1. \A d \in new : \E c \in led : Of(c) = Of(d) /\ (IF c \in C THEN d = Re(c) ELSE d = c)
    <3> SUFFICES ASSUME NEW d \in new
                 PROVE  \E c \in led : Of(c) = Of(d) /\ (IF c \in C THEN d = Re(c) ELSE d = c)
      OBVIOUS
    <3>1. CASE d \in led \ C
      BY <3>1
    <3>2. ASSUME NEW c \in C, d = Re(c)
          PROVE  \E c1 \in led : Of(c1) = Of(d) /\ (IF c1 \in C THEN d = Re(c1) ELSE d = c1)
      BY <1>2, <3>2, AlikeIs
    <3> QED BY <1>1, <3>1, <3>2
  <2>2. PICK c1 \in led : Of(c1) = Of(d1) /\ (IF c1 \in C THEN d1 = Re(c1) ELSE d1 = c1)
    BY <2>1
  <2>3. PICK c2 \in led : Of(c2) = Of(d2) /\ (IF c2 \in C THEN d2 = Re(c2) ELSE d2 = c2)
    BY <2>1
  <2>4. c1 = c2
    BY <2>2, <2>3 DEF Once
  <2> QED BY <2>2, <2>3, <2>4
<1>4. new \in SUBSET Candidates
  BY <1>1, <1>2
<1>5. ASSUME NEW d \in new PROVE d \in led \ C \/ \E c \in C : Alike(c, d) /\ d.status = s
  <2>1. ASSUME NEW c \in C, d = Re(c) PROVE Alike(c, d) /\ d.status = s
    BY <1>2, <2>1
  <2> QED BY <1>1, <2>1
<1>6. (\A c \in led \ C : c \in new) /\ \A c \in C : \E d \in new : Alike(c, d) /\ d.status = s
  BY <1>1, <1>2
<1> QED BY <1>3, <1>4, <1>5, <1>6 DEF new, IsRestated

LEMMA AlikeSteps ==
  ASSUME NEW c, NEW d, NEW e
  PROVE  Alike(c, c) /\ (Alike(c, d) /\ Alike(d, e) => Alike(c, e))
  BY DEF Alike

LEMMA ContinuesRestated ==
  ASSUME NEW led \in SUBSET Candidates, NEW C \in SUBSET led, NEW s \in Statuses, NEW n \in Nat,
         NEW b, NEW m, SettlesIn(b, C)
  PROVE  Continues(b, led, Restated(led, C, s, n), m)
<1> DEFINE new == Restated(led, C, s, n)
<1>1. /\ \A d \in new : d \in led \ C \/ \E c \in C : Alike(c, d)
      /\ \A c \in led \ C : c \in new
      /\ \A c \in C : \E d \in new : Alike(c, d)
  <2>1. IsRestated(led, C, s, new)
    BY RestatedIs
  <2> HIDE DEF new
  <2> QED BY <2>1 DEF IsRestated
<1>2. \A c \in C : c.branch = b
  BY DEF SettlesIn
<1> HIDE DEF new
<1> SUFFICES Continues(b, led, new, m)
  BY DEF new
<1> QED BY <1>1, <1>2 DEF Continues, Alike

LEMMA ContinuesSteps ==
  ASSUME NEW b, NEW l1, NEW l2, NEW l3, NEW m \in Nat, NEW n \in Nat, m <= n,
         \A c \in l2 : c.detected \in Nat, \A c \in l3 : c.detected \in Nat,
         Continues(b, l1, l2, m), Continues(b, l2, l3, n)
  PROVE  Continues(b, l1, l3, n)
<1>1. \A d \in l3 : d \in l1 \/ d.branch = b
  BY DEF Continues
<1>2. ASSUME NEW d \in l3 PROVE (\E c \in l1 : Alike(c, d)) \/ d.detected <= n
  <2>1. CASE d.detected <= n
    BY <2>1
  <2>2. ASSUME NEW e \in l2, Alike(e, d) PROVE (\E c \in l1 : Alike(c, d)) \/ d.detected <= n
    <3>1. (\E c \in l1 : Alike(c, e)) \/ e.detected <= m
      BY DEF Continues
    <3>2. e.detected = d.detected /\ e.detected \in Nat
      BY <2>2 DEF Alike
    <3> QED BY <2>2, <3>1, <3>2, AlikeSteps
  <2> QED BY <2>1, <2>2 DEF Continues
<1>3. ASSUME NEW c \in l1 PROVE \E d \in l3 : Alike(c, d) /\ (c.branch # b => d = c)
  <2>1. PICK e \in l2 : Alike(c, e) /\ (c.branch # b => e = c)
    BY DEF Continues
  <2>2. PICK d \in l3 : Alike(e, d) /\ (e.branch # b => d = e)
    BY DEF Continues
  <2> QED BY <2>1, <2>2, AlikeSteps
<1> QED BY <1>1, <1>2, <1>3 DEF Continues

----------------------------------------------------------------------------
(* Each operation on the view of a branch keeps it sound.                  *)

LEMMA ViewsAre ==
  ASSUME NEW v \in Views
  PROVE  /\ v.lines \in SUBSET Entries /\ v.tasks \in SUBSET Rows
         /\ v.ledger \in SUBSET Candidates /\ v.evidence \in SUBSET Events
  BY DEF Views

\* A candidate that explains a missing line goes on doing so, unless it is reverted.
LEMMA ExplainsAlike ==
  ASSUME NEW b, NEW c, NEW d, Alike(c, d), Explains(b, c),
         c = d \/ d.status \in {"applied", "contested"}
  PROVE  Explains(b, d)
  BY DEF Alike, Explains

ExplainsStill(b, led, new) ==
  \A c \in led : Explains(b, c) => \E d \in new : d.entry = c.entry /\ Explains(b, d)

LEMMA RestatedExplains ==
  ASSUME NEW led \in SUBSET Candidates, NEW C \in SUBSET led,
         NEW s \in {"applied", "contested"}, NEW n \in Nat, NEW b
  PROVE  ExplainsStill(b, led, Restated(led, C, s, n))
<1> SUFFICES ASSUME NEW c \in led, Explains(b, c)
             PROVE  \E d \in Restated(led, C, s, n) : d.entry = c.entry /\ Explains(b, d)
  BY DEF ExplainsStill
<1> s \in Statuses
  BY DEF Statuses
<1>0. IsRestated(led, C, s, Restated(led, C, s, n))
  BY RestatedIs
<1>1. CASE c \in C
  <2>1. PICK d \in Restated(led, C, s, n) : Alike(c, d) /\ d.status = s
    BY <1>0, <1>1 DEF IsRestated
  <2> QED BY <2>1, ExplainsAlike DEF Alike
<1>2. CASE c \notin C
  BY <1>0, <1>2 DEF IsRestated
<1> QED BY <1>1, <1>2

\* Restating candidates as something else than applied leaves fewer applied ones.
LEMMA RestatedApplied ==
  ASSUME NEW led \in SUBSET Candidates, NEW C \in SUBSET led,
         NEW s \in Statuses \ {"applied"}, NEW n \in Nat, NEW b
  PROVE  Applied(b, Restated(led, C, s, n)) \subseteq Applied(b, led) \ C
<1>1. \A d \in Restated(led, C, s, n) : d \in led \ C \/ d.status = s
  <2>1. IsRestated(led, C, s, Restated(led, C, s, n))
    BY RestatedIs
  <2> QED BY <2>1 DEF IsRestated
<1> QED BY <1>1 DEF Applied

\* One branch contests closures whose line is back, or one that it has open.
LEMMA ContestedSound ==
  ASSUME NEW b, NEW v, NEW X, Sound(b, v, X), NEW C \in SUBSET v.ledger, NEW n \in Nat
  PROVE  Sound(b, [v EXCEPT !.ledger = Restated(@, C, "contested", n)], X)
<1> DEFINE new == Restated(v.ledger, C, "contested", n)
           w == [v EXCEPT !.ledger = new]
<1>1. v \in Views /\ v.ledger \in SUBSET Candidates /\ "contested" \in Statuses \ {"applied"}
  BY ViewsAre DEF Sound, Statuses
<1>2. IsRestated(v.ledger, C, "contested", new)
  BY <1>1, RestatedIs
<1>3. Applied(b, new) \subseteq Applied(b, v.ledger)
  BY <1>1, RestatedApplied
<1>4. ExplainsStill(b, v.ledger, new)
  BY <1>1, RestatedExplains
<1> HIDE DEF new
<1>5. w \in Views /\ w.lines = v.lines /\ w.tasks = v.tasks /\ w.ledger = new
  BY <1>1, <1>2 DEF Views, IsRestated
<1> HIDE DEF w
<1>6. OneApplied(b, new, X) /\ TakenOut(b, w, X)
  BY <1>3, <1>5 DEF Sound, OneApplied, TakenOut, Kept
<1>7. HasTask(w, X)
  BY <1>5 DEF Sound, HasTask, Open
<1>8. Accounted(b, w, X)
  BY <1>4, <1>5 DEF Sound, Accounted, ExplainsStill
<1>9. Sound(b, w, X)
  BY <1>2, <1>5, <1>6, <1>7, <1>8 DEF Sound, IsRestated
<1> QED BY <1>9 DEF w, new

\* A memory without its line is one more, of which nothing is said.
LEMMA NotedSound ==
  ASSUME NEW b, NEW v, NEW X, Sound(b, v, X), NEW x \in Entries, NEW n \in Nat,
         NEW listed \in BOOLEAN, listed => x \in v.lines
  PROVE  Sound(b, Noted(v, x, n, listed), X)
<1> DEFINE row == [entry |-> x, id |-> n, anchor |-> n, status |-> "open", by |-> NoClosure,
                   listed |-> listed]
           w == Noted(v, x, n, listed)
<1>1. v \in Views /\ row \in Rows
  BY DEF Sound, Rows, Keys
<1>2. /\ w \in Views /\ w.lines = v.lines /\ w.tasks = v.tasks \cup {row}
      /\ w.ledger = v.ledger
  BY <1>1 DEF Noted, Views
<1>3. row.listed => row.entry \in v.lines
  OBVIOUS
<1> HIDE DEF row, w
<1>4. TakenOut(b, w, X)
  BY <1>2 DEF Sound, TakenOut, Kept
<1>5. HasTask(w, X)
  BY <1>2 DEF Sound, HasTask, Open
<1>6. Accounted(b, w, X)
  BY <1>2, <1>3 DEF Sound, Accounted
<1>7. Sound(b, w, X)
  BY <1>2, <1>4, <1>5, <1>6 DEF Sound
<1> QED BY <1>7 DEF w

LEMMA MarkedSound ==
  ASSUME NEW b, NEW v, NEW X, Sound(b, v, X), NEW x \in Entries, NEW n \in Nat
  PROVE  Sound(b, Marked(v, x, n), X)
<1> DEFINE C == Contested(v, x)
           u == [v EXCEPT !.ledger = Restated(@, C, "contested", n)]
           row == [entry |-> x, id |-> n, anchor |-> n, status |-> "open", by |-> NoClosure,
                   listed |-> TRUE]
           w == Marked(v, x, n)
<1>1. v \in Views /\ v.ledger \in SUBSET Candidates /\ C \in SUBSET v.ledger
      /\ "contested" \in Statuses \ {"applied"}
  BY ViewsAre DEF Sound, Contested, AppliedTo, Statuses
<1>2. Sound(b, u, X)
  BY <1>1, ContestedSound
<1>3. row \in Rows
  BY DEF Rows, Keys
<1>4. u \in Views /\ u.tasks = v.tasks /\ u.lines = v.lines
      /\ u.ledger = Restated(v.ledger, C, "contested", n)
  <2>1. Restated(v.ledger, C, "contested", n) \in SUBSET Candidates
    <3> HIDE DEF C
    <3>1. IsRestated(v.ledger, C, "contested", Restated(v.ledger, C, "contested", n))
      BY <1>1, RestatedIs
    <3> QED BY <3>1 DEF IsRestated
  <2> QED BY <1>1, <2>1 DEF Views
<1>5. /\ w \in Views /\ w.lines = u.lines \cup {x} /\ w.tasks = u.tasks \cup {row}
      /\ w.ledger = u.ledger
  BY <1>1, <1>3, <1>4 DEF Marked, Noted, Views
<1>6. x \in X => \A c \in Applied(b, u.ledger) : c.entry # x
  <2>1. Applied(b, u.ledger) \subseteq Applied(b, v.ledger) \ C
    BY <1>1, <1>4, RestatedApplied
  <2>2. x \in X => \A c \in Applied(b, v.ledger) : c.entry = x => x \notin v.lines
    BY DEF Sound, TakenOut
  <2>3. \A c \in Applied(b, v.ledger) : c.entry = x /\ x \notin v.lines => c \in C
    BY DEF Contested, AppliedTo, Applied
  <2> QED BY <2>1, <2>2, <2>3
<1> HIDE DEF u, w
<1>7. TakenOut(b, w, X)
  BY <1>2, <1>5, <1>6 DEF Sound, TakenOut, Kept
<1>8. HasTask(w, X)
  <2>1. row.entry = x /\ row.status # "completed"
    OBVIOUS
  <2> HIDE DEF row
  <2> QED BY <1>2, <1>5, <2>1 DEF Sound, HasTask, Open
<1>9. Accounted(b, w, X)
  <2>1. row.entry = x
    OBVIOUS
  <2> HIDE DEF row
  <2> QED BY <1>2, <1>5, <2>1 DEF Sound, Accounted
<1>10. Sound(b, w, X)
  BY <1>2, <1>5, <1>7, <1>8, <1>9 DEF Sound
<1> QED BY <1>10 DEF w

\* Reverting brings the line back, and an open memory with it.
LEMMA UndoneSound ==
  ASSUME NEW b, NEW v, NEW X, Sound(b, v, X), NEW n \in Nat,
         NEW C \in SUBSET Applied(b, v.ledger)
  PROVE  Sound(b, Undone(v, C, n), X)
<1> DEFINE new == Restated(v.ledger, C, "reverted", n)
           Back(r) == [r EXCEPT !.id = n, !.anchor = n, !.status = "reopened"]
           w == Undone(v, C, n)
<1>1. /\ v \in Views /\ v.ledger \in SUBSET Candidates /\ v.tasks \in SUBSET Rows
      /\ C \in SUBSET v.ledger /\ "reverted" \in Statuses \ {"applied"}
  BY ViewsAre DEF Sound, Statuses, Applied
<1>2. /\ new \in SUBSET Candidates /\ Once(new) /\ \A c \in v.ledger \ C : c \in new
  <2>1. IsRestated(v.ledger, C, "reverted", new)
    BY <1>1, RestatedIs
  <2> HIDE DEF new
  <2> QED BY <2>1 DEF IsRestated, Sound
<1>3. Applied(b, new) \subseteq Applied(b, v.ledger) \ C
  BY <1>1, RestatedApplied
<1>4. \A r \in Rows : /\ Back(r) \in Rows /\ Back(r).entry = r.entry
                     /\ Back(r).status = "reopened" /\ Back(r).listed = r.listed
  BY DEF Rows
<1>5. \A c \in C : c.entry \in Entries
  BY <1>1 DEF Candidates
<1>6. w = [v EXCEPT !.lines = v.lines \cup {c.entry : c \in C},
                    !.tasks = (v.tasks \ Completed(v, C)) \cup {Back(r) : r \in Completed(v, C)},
                    !.ledger = new]
  BY DEF Undone
<1>7. Completed(v, C) \subseteq v.tasks
  BY DEF Completed
<1> HIDE DEF new, w, Back
<1>8. /\ w \in Views /\ w.lines = v.lines \cup {c.entry : c \in C} /\ w.ledger = new
      /\ w.tasks = (v.tasks \ Completed(v, C)) \cup {Back(r) : r \in Completed(v, C)}
  <2>1. v.lines \cup {c.entry : c \in C} \in SUBSET Entries
    BY <1>1, <1>5, ViewsAre
  <2>2. (v.tasks \ Completed(v, C)) \cup {Back(r) : r \in Completed(v, C)} \in SUBSET Rows
    BY <1>1, <1>4, <1>7
  <2> HIDE DEF Completed
  <2> QED BY <1>1, <1>2, <1>6, <2>1, <2>2 DEF Views
<1>9. \A r \in v.tasks : \E q \in w.tasks :
        q.entry = r.entry /\ (q = r \/ q.status = "reopened")
        /\ (r \in Completed(v, C) => q.status = "reopened")
  BY <1>1, <1>4, <1>7, <1>8
<1>10. \A q \in w.tasks : \E r \in v.tasks : q.entry = r.entry /\ q.listed = r.listed
  BY <1>1, <1>4, <1>7, <1>8
<1>11. OneApplied(b, new, X)
  BY <1>3 DEF Sound, OneApplied
<1>12. TakenOut(b, w, X)
  <2> SUFFICES ASSUME NEW c \in Applied(b, new), c.entry \in X
               PROVE  c.entry \notin w.lines /\ Kept(w, c)
    BY <1>8 DEF TakenOut
  <2>1. c \in Applied(b, v.ledger) /\ c \notin C /\ c.entry \notin v.lines /\ Kept(v, c)
    BY <1>3 DEF Sound, TakenOut
  <2>2. \A d \in C : d.entry # c.entry
    BY <2>1 DEF Sound, OneApplied
  <2>3. PICK r \in v.tasks : r.entry = c.entry /\ (r.status # "completed" \/ r.by = Key(c))
    BY <2>1 DEF Kept
  <2>4. PICK q \in w.tasks : q.entry = r.entry /\ (q = r \/ q.status = "reopened")
    BY <1>9
  <2> QED BY <1>8, <2>1, <2>2, <2>3, <2>4 DEF Kept
<1>13. HasTask(w, X)
  <2>1. ASSUME NEW x \in v.lines \cap X
        PROVE  \E q \in w.tasks : q.entry = x /\ q.status # "completed"
    <3>1. PICK r \in v.tasks : r.entry = x /\ r.status # "completed"
      BY DEF Sound, HasTask, Open
    <3> QED BY <1>9, <3>1
  <2>2. ASSUME NEW c \in C, c.entry \in X
        PROVE  \E q \in w.tasks : q.entry = c.entry /\ q.status # "completed"
    <3>1. PICK r \in v.tasks : r.entry = c.entry /\ (r.status # "completed" \/ r.by = Key(c))
      BY <2>2 DEF Sound, TakenOut, Kept
    <3>2. r.status = "completed" => r \in Completed(v, C)
      BY <3>1 DEF Completed
    <3> QED BY <1>9, <3>1, <3>2
  <2> QED BY <1>8, <2>1, <2>2 DEF HasTask, Open
<1>14. Accounted(b, w, X)
  <2> SUFFICES ASSUME NEW q \in w.tasks, q.listed, q.entry \in X
               PROVE  q.entry \in w.lines
                      \/ \E c \in new : c.entry = q.entry /\ Explains(b, c)
    BY <1>8 DEF Accounted
  <2>1. PICK r \in v.tasks : q.entry = r.entry /\ q.listed = r.listed
    BY <1>10
  <2>2. ASSUME NEW c \in v.ledger, c.entry = r.entry, Explains(b, c)
        PROVE  q.entry \in w.lines
               \/ \E d \in new : d.entry = q.entry /\ Explains(b, d)
    BY <1>2, <1>8, <2>1, <2>2
  <2> QED BY <1>8, <2>1, <2>2 DEF Sound, Accounted
<1>15. Sound(b, w, X)
  BY <1>2, <1>8, <1>11, <1>12, <1>13, <1>14 DEF Sound
<1> QED BY <1>15 DEF w

\* Closing takes the line out, and completes the memory that was detected.
LEMMA ClosedSound ==
  ASSUME NEW b, NEW v, NEW X, Sound(b, v, X), NEW n \in Nat,
         NEW C \in SUBSET v.ledger,
         \A c \in C : c.branch = b /\ c.entry \in v.lines,
         \A c, d \in C : c.entry = d.entry => c = d
  PROVE  Sound(b, Closed(v, C, n), X)
<1> DEFINE new == Restated(v.ledger, C, "applied", n)
           Row(p) == [entry |-> p[1].entry, id |-> n, anchor |-> p[1].detected,
                      status |-> "completed", by |-> Key(p[1]), listed |-> p[2].listed]
           F == Finished(v, C)
           w == Closed(v, C, n)
<1>1. /\ v \in Views /\ v.ledger \in SUBSET Candidates /\ v.tasks \in SUBSET Rows
      /\ v.lines \in SUBSET Entries /\ C \in SUBSET Candidates /\ "applied" \in Statuses
  BY ViewsAre DEF Sound, Statuses
<1>2. IsRestated(v.ledger, C, "applied", new)
  BY <1>1, RestatedIs
<1>3. ExplainsStill(b, v.ledger, new)
  <2>1. \A s \in {"applied", "contested"} : ExplainsStill(b, v.ledger, Restated(v.ledger, C, s, n))
    BY <1>1, RestatedExplains
  <2> QED BY <2>1
<1> HIDE DEF new
<1>4. /\ new \in SUBSET Candidates /\ Once(new)
      /\ \A d \in new : d \in v.ledger \ C \/ \E c \in C : Alike(c, d) /\ d.status = "applied"
      /\ \A c \in C : \E d \in new : Alike(c, d) /\ d.status = "applied"
  BY <1>2 DEF IsRestated, Sound
<1>5. \A p \in F : /\ p[1] \in C /\ p[2] \in v.tasks /\ p[2].entry = p[1].entry
                   /\ p[2].status # "completed"
  BY DEF Finished
<1>6. \A p \in F : Row(p) \in Rows /\ Row(p).entry = p[1].entry /\ Row(p).by = Key(p[1])
  <2> SUFFICES ASSUME NEW p \in F
               PROVE  Row(p) \in Rows /\ Row(p).entry = p[1].entry /\ Row(p).by = Key(p[1])
    OBVIOUS
  <2>1. p[1] \in Candidates
    BY <1>1, <1>5
  <2>2. /\ Key(p[1]) \in Keys /\ p[1].entry \in Entries /\ p[1].detected \in Nat
        /\ p[2].listed \in BOOLEAN
    BY <1>1, <1>5, <2>1 DEF Key, Keys, Candidates, Rows
  <2> HIDE DEF F
  <2> QED BY <2>2 DEF Rows
<1>7. w = [v EXCEPT !.lines = v.lines \ {c.entry : c \in C},
                    !.tasks = (v.tasks \ {p[2] : p \in F}) \cup {Row(p) : p \in F},
                    !.ledger = new]
  BY DEF Closed, new
<1> HIDE DEF w, Row, F
<1>8. /\ w \in Views /\ w.lines = v.lines \ {c.entry : c \in C} /\ w.ledger = new
      /\ w.tasks = (v.tasks \ {p[2] : p \in F}) \cup {Row(p) : p \in F}
  <2>1. v.lines \ {c.entry : c \in C} \in SUBSET Entries
    BY <1>1
  <2>2. (v.tasks \ {p[2] : p \in F}) \cup {Row(p) : p \in F} \in SUBSET Rows
    BY <1>1, <1>6
  <2> QED BY <1>1, <1>4, <1>7, <2>1, <2>2 DEF Views
<1>9. \A r \in v.tasks :
        r \in w.tasks
        \/ /\ r.status # "completed"
           /\ \E c \in C : r.entry = c.entry
                           /\ \E q \in w.tasks : q.entry = c.entry /\ q.by = Key(c)
  BY <1>5, <1>6, <1>8
<1>10. \A q \in w.tasks : q \in v.tasks \/ \E c \in C : q.entry = c.entry
  BY <1>5, <1>6, <1>8
<1>11. OneApplied(b, new, X)
  <2> SUFFICES ASSUME NEW d1 \in Applied(b, new), NEW d2 \in Applied(b, new), d1.entry = d2.entry,
                      d1.entry \in X
               PROVE  d1 = d2
    BY DEF OneApplied
  <2>1. \A d \in Applied(b, new) : d.entry \in X =>
          \/ d \in Applied(b, v.ledger) /\ d.entry \notin v.lines
          \/ \E c \in C : Alike(c, d) /\ d.entry \in v.lines
    BY <1>4 DEF Sound, TakenOut, Applied, Alike
  <2>2. CASE d1 \in Applied(b, v.ledger) /\ d2 \in Applied(b, v.ledger)
    BY <2>2 DEF Sound, OneApplied
  <2>3. ASSUME NEW c1 \in C, NEW c2 \in C, Alike(c1, d1), Alike(c2, d2) PROVE d1 = d2
    <3>1. c1 = c2
      BY <2>3 DEF Alike
    <3>2. d1 \in new /\ d2 \in new /\ d1 \in Candidates /\ d2 \in Candidates /\ c1 \in Candidates
      BY <1>1, <1>4 DEF Applied
    <3>3. Of(d1) = Of(d2)
      BY <2>3, <3>1, <3>2, AlikeIs
    <3> QED BY <1>4, <3>2, <3>3 DEF Once
  <2> QED BY <2>1, <2>2, <2>3
<1>12. TakenOut(b, w, X)
  <2> SUFFICES ASSUME NEW d \in Applied(b, new), d.entry \in X
               PROVE  d.entry \notin w.lines /\ Kept(w, d)
    BY <1>8 DEF TakenOut
  <2>1. CASE d \in Applied(b, v.ledger)
    <3>1. d.entry \notin v.lines /\ Kept(v, d)
      BY <2>1 DEF Sound, TakenOut
    <3>2. PICK r \in v.tasks : r.entry = d.entry /\ (r.status # "completed" \/ r.by = Key(d))
      BY <3>1 DEF Kept
    <3>3. r \in w.tasks
      BY <1>9, <3>1, <3>2
    <3> QED BY <1>8, <3>1, <3>2, <3>3 DEF Kept
  <2>2. ASSUME NEW c \in C, Alike(c, d) PROVE d.entry \notin w.lines /\ Kept(w, d)
    <3>1. PICK r \in v.tasks : r.entry = c.entry /\ r.status # "completed"
      BY <2>2 DEF Sound, HasTask, Open, Alike
    <3>2. c.entry = d.entry /\ Key(c) = Key(d)
      BY <1>1, <1>4, <2>2, AlikeIs DEF Alike, Applied
    <3>3. r \in w.tasks \/ \E q \in w.tasks : q.entry = c.entry /\ q.by = Key(c)
      BY <1>9, <3>1
    <3> QED BY <1>8, <3>1, <3>2, <3>3 DEF Kept
  <2> QED BY <1>4, <2>1, <2>2 DEF Applied
<1>13. HasTask(w, X)
  BY <1>8, <1>9 DEF Sound, HasTask, Open
<1>14. Accounted(b, w, X)
  <2> SUFFICES ASSUME NEW q \in w.tasks, q.listed, q.entry \in X
               PROVE  q.entry \in w.lines
                      \/ \E c \in new : c.entry = q.entry /\ Explains(b, c)
    BY <1>8 DEF Accounted
  <2>1. ASSUME NEW c \in C, q.entry = c.entry
        PROVE  \E d \in new : d.entry = q.entry /\ Explains(b, d)
    <3>1. PICK d \in new : Alike(c, d) /\ d.status = "applied"
      BY <1>4
    <3> QED BY <2>1, <3>1 DEF Alike, Explains
  <2>2. CASE q \in v.tasks /\ q.entry \in v.lines
    BY <1>8, <2>1, <2>2
  <2>3. CASE q \in v.tasks /\ q.entry \notin v.lines
    <3>1. PICK c \in v.ledger : c.entry = q.entry /\ Explains(b, c)
      BY <2>3 DEF Sound, Accounted
    <3> QED BY <1>3, <3>1 DEF ExplainsStill
  <2> QED BY <1>10, <2>1, <2>2, <2>3
<1>15. Sound(b, w, X)
  BY <1>4, <1>8, <1>11, <1>12, <1>13, <1>14 DEF Sound
<1> QED BY <1>15 DEF w

----------------------------------------------------------------------------
(* What a reconcile detects.                                               *)

LEMMA DetectionsAre ==
  ASSUME NEW b \in Branches, NEW v \in Views
  PROVE  /\ \A d \in Detections(b, v) :
              d \in [branch : {b}, entry : v.lines, evidence : Nat]
         /\ \A d1, d2 \in Detections(b, v) : d1.entry = d2.entry => d1 = d2
<1> DEFINE M(x) == First(Matching(b, v, x))
<1>1. \A d \in Detections(b, v) :
        \E x \in v.lines : \E e \in M(x) : d = [branch |-> b, entry |-> x, evidence |-> e.seq]
  BY DEF Detections
<1>2. \A x : \A e \in M(x) : e.seq \in Nat /\ \A f \in M(x) : e.seq <= f.seq
  BY ViewsAre DEF First, Matching, Events
<1> HIDE DEF M
<1>3. ASSUME NEW d1 \in Detections(b, v), NEW d2 \in Detections(b, v), d1.entry = d2.entry
      PROVE  d1 = d2
  <2>1. PICK x \in v.lines :
          \E e \in M(x) : d1 = [branch |-> b, entry |-> x, evidence |-> e.seq]
    BY <1>1
  <2>2. PICK y \in v.lines :
          \E e \in M(y) : d2 = [branch |-> b, entry |-> y, evidence |-> e.seq]
    BY <1>1
  <2>3. x = y
    BY <1>3, <2>1, <2>2
  <2>4. \A e, f \in M(x) : e.seq = f.seq
    BY <1>2
  <2> QED BY <2>1, <2>2, <2>3, <2>4
<1>4. \A d \in Detections(b, v) : d \in [branch : {b}, entry : v.lines, evidence : Nat]
  BY <1>1, <1>2
<1> QED BY <1>3, <1>4

\* A candidate that is found was known, or is a new one of its detection.
LEMMA FoundAre ==
  ASSUME NEW b \in Branches, NEW v \in Views, NEW n \in Nat, NEW c \in Found(b, v, n)
  PROVE  /\ c \in Candidates /\ c.branch = b /\ c.entry \in v.lines
         /\ Of(c) \in Detections(b, v)
         /\ \/ c \in v.ledger
            \/ /\ c.status = "pending" /\ c.detected = n
               /\ \A d \in v.ledger : Of(d) # Of(c)
               /\ \E r \in Oldest(v, c.entry) : c = Candidate(Of(c), r, n)
<1>1. v.ledger \in SUBSET Candidates /\ v.tasks \in SUBSET Rows /\ v.lines \in SUBSET Entries
  BY ViewsAre
<1>2. CASE c \in v.ledger /\ Of(c) \in Detections(b, v)
  <2>1. Of(c) \in [branch : {b}, entry : v.lines, evidence : Nat]
    BY <1>2, DetectionsAre
  <2>2. Of(c).branch = c.branch /\ Of(c).entry = c.entry
    BY DEF Of
  <2> QED BY <1>1, <1>2, <2>1, <2>2
<1>3. ASSUME NEW d \in Detections(b, v), Known(v, {d}) = {}, NEW r \in Oldest(v, d.entry),
             c = Candidate(d, r, n)
      PROVE  /\ c \in Candidates /\ c.branch = b /\ c.entry \in v.lines
             /\ Of(c) \in Detections(b, v) /\ c.status = "pending" /\ c.detected = n
             /\ (\A e \in v.ledger : Of(e) # Of(c))
             /\ c = Candidate(Of(c), r, n) /\ r \in Oldest(v, c.entry)
  <2>1. d \in [branch : {b}, entry : v.lines, evidence : Nat]
    BY DetectionsAre
  <2>2. /\ c.branch = d.branch /\ c.entry = d.entry /\ c.evidence = d.evidence
        /\ c.status = "pending" /\ c.detected = n
    BY <1>3 DEF Candidate
  <2>3. Of(c) = d
    BY <2>1, <2>2 DEF Of
  <2>4. r.id \in Nat
    BY <1>1 DEF Oldest, Rows
  <2>5. c \in Candidates
    BY <1>1, <1>3, <2>1, <2>4 DEF Candidate, Candidates, Statuses
  <2>6. \A e \in v.ledger : Of(e) # d
    BY <1>3 DEF Known
  <2> QED BY <1>3, <2>1, <2>2, <2>3, <2>5, <2>6
<1>4. \/ c \in Known(v, Detections(b, v))
      \/ \E d \in Detections(b, v) :
            Known(v, {d}) = {} /\ \E r \in Oldest(v, d.entry) : c = Candidate(d, r, n)
  BY DEF Found
<1> QED BY <1>2, <1>3, <1>4 DEF Known

LEMMA FoundOnce ==
  ASSUME NEW b \in Branches, NEW v \in Views, Once(v.ledger), NEW n \in Nat
  PROVE  Once(v.ledger \cup Found(b, v, n))
<1> SUFFICES ASSUME NEW c \in v.ledger \cup Found(b, v, n), NEW d \in v.ledger \cup Found(b, v, n),
                    Of(c) = Of(d)
             PROVE  c = d
  BY DEF Once
<1>1. CASE c \in v.ledger /\ d \in v.ledger
  BY <1>1 DEF Once
<1>2. CASE c \notin v.ledger /\ d \notin v.ledger
  <2>1. PICK r \in Oldest(v, c.entry) : c = Candidate(Of(c), r, n)
    BY <1>2, FoundAre
  <2>2. PICK q \in Oldest(v, d.entry) : d = Candidate(Of(d), q, n)
    BY <1>2, FoundAre
  <2>3. c.entry = d.entry
    BY <1>2, FoundAre, OfIs
  <2>4. r.id \in Nat /\ q.id \in Nat /\ r.id <= q.id /\ q.id <= r.id
    BY <2>3, ViewsAre DEF Oldest, Rows
  <2> QED BY <2>1, <2>2, <2>4 DEF Candidate
<1> QED BY <1>1, <1>2, FoundAre

LEMMA RecordedSound ==
  ASSUME NEW b \in Branches, NEW v, NEW X, Sound(b, v, X), NEW n \in Nat,
         NEW D \in SUBSET Found(b, v, n)
  PROVE  /\ Sound(b, Recorded(v, D), X)
         /\ Recorded(v, D).ledger = v.ledger \cup D /\ Recorded(v, D).lines = v.lines
<1> DEFINE w == Recorded(v, D)
<1>1. v \in Views /\ v.ledger \in SUBSET Candidates /\ Once(v.ledger)
  BY ViewsAre DEF Sound
<1>2. \A c \in D : c \in Candidates /\ (c \in v.ledger \/ c.status = "pending")
  BY <1>1, FoundAre
<1>3. /\ w \in Views /\ w.lines = v.lines /\ w.tasks = v.tasks
      /\ w.ledger = v.ledger \cup D
  BY <1>1, <1>2 DEF Recorded, Views
<1> HIDE DEF w
<1>4. Once(w.ledger)
  <2>1. Once(v.ledger \cup Found(b, v, n))
    BY <1>1, FoundOnce
  <2> QED BY <1>3, <2>1 DEF Once
<1>5. Applied(b, w.ledger) = Applied(b, v.ledger)
  BY <1>2, <1>3 DEF Applied
<1>6. OneApplied(b, w.ledger, X) /\ TakenOut(b, w, X) /\ HasTask(w, X) /\ Accounted(b, w, X)
  <2>1. OneApplied(b, w.ledger, X)
    BY <1>5 DEF Sound, OneApplied
  <2>2. TakenOut(b, w, X)
    BY <1>3, <1>5 DEF Sound, TakenOut, Kept
  <2>3. HasTask(w, X)
    BY <1>3 DEF Sound, HasTask, Open
  <2>4. Accounted(b, w, X)
    BY <1>3 DEF Sound, Accounted
  <2> QED BY <2>1, <2>2, <2>3, <2>4
<1>7. Sound(b, w, X)
  BY <1>3, <1>4, <1>6 DEF Sound
<1> QED BY <1>3, <1>7 DEF w

\* Applying what was found keeps the view sound.
LEMMA AppliedSound ==
  ASSUME NEW b \in Branches, NEW v, NEW X, Sound(b, v, X), NEW n \in Nat,
         NEW D \in SUBSET Found(b, v, n), NEW C \in SUBSET Appliable(D)
  PROVE  Sound(b, Closed(Recorded(v, D), C, n), X)
<1> DEFINE u == Recorded(v, D)
<1>1. Sound(b, u, X) /\ u.ledger = v.ledger \cup D /\ u.lines = v.lines
  BY RecordedSound
<1>2. v \in Views /\ Once(u.ledger) /\ C \in SUBSET D
  BY <1>1 DEF Sound, Appliable
<1>3. ASSUME NEW c \in C
      PROVE  /\ c.branch = b /\ c.entry \in v.lines /\ Of(c) \in Detections(b, v)
             /\ Of(c).entry = c.entry
  <2>1. c \in Found(b, v, n)
    BY <1>2
  <2>2. Of(c).entry = c.entry
    BY DEF Of
  <2> QED BY <1>2, <2>1, <2>2, FoundAre
<1>4. ASSUME NEW c \in C, NEW d \in C, c.entry = d.entry PROVE c = d
  <2>1. Of(c) = Of(d)
    BY <1>2, <1>3, <1>4, DetectionsAre
  <2> QED BY <1>1, <1>2, <2>1 DEF Once
<1> HIDE DEF u
<1>5. Sound(b, Closed(u, C, n), X)
  BY <1>1, <1>2, <1>3, <1>4, ClosedSound
<1> QED BY <1>5 DEF u

----------------------------------------------------------------------------
(* What the operations do to the ledger, for the other branches.           *)

LEMMA ContinuesSame ==
  ASSUME NEW b, NEW led, NEW n
  PROVE  Continues(b, led, led, n)
  BY AlikeSteps DEF Continues

LEMMA ContinuesRecorded ==
  ASSUME NEW b \in Branches, NEW v \in Views, NEW n \in Nat, NEW D \in SUBSET Found(b, v, n)
  PROVE  Continues(b, v.ledger, v.ledger \cup D, n)
<1>1. \A d \in D : d \in v.ledger \/ (d.branch = b /\ d.detected <= n)
  BY FoundAre
<1> QED BY <1>1, AlikeSteps DEF Continues

\* Recording and applying: what was found belongs to the branch.
LEMMA ContinuesApplied ==
  ASSUME NEW b \in Branches, NEW v, NEW X, Sound(b, v, X), NEW n \in Nat,
         NEW D \in SUBSET Found(b, v, n), NEW C \in SUBSET Appliable(D)
  PROVE  Continues(b, v.ledger, Closed(Recorded(v, D), C, n).ledger, n)
<1> DEFINE u == Recorded(v, D)
<1>1. v \in Views /\ u \in Views /\ u.ledger = v.ledger \cup D /\ C \in SUBSET u.ledger
      /\ u.ledger \in SUBSET Candidates
  BY RecordedSound, ViewsAre DEF Sound, Appliable
<1>2. Continues(b, v.ledger, u.ledger, n)
  BY <1>1, ContinuesRecorded
<1>3. SettlesIn(b, C)
  BY <1>1, FoundAre DEF SettlesIn, Appliable
<1> HIDE DEF u
<1>4. Closed(u, C, n).ledger = Restated(u.ledger, C, "applied", n)
  BY <1>1 DEF Closed, Views
<1>5. Continues(b, u.ledger, Restated(u.ledger, C, "applied", n), n)
  BY <1>1, <1>3, ContinuesRestated DEF Statuses
<1>6. Restated(u.ledger, C, "applied", n) \in SUBSET Candidates
  <2>1. "applied" \in Statuses
    BY DEF Statuses
  <2>2. IsRestated(u.ledger, C, "applied", Restated(u.ledger, C, "applied", n))
    BY <1>1, <2>1, RestatedIs
  <2> QED BY <2>2 DEF IsRestated
<1>7. Continues(b, v.ledger, Restated(u.ledger, C, "applied", n), n)
  <2>1. \A c \in Candidates : c.detected \in Nat
    BY DEF Candidates
  <2>2. /\ \A c \in u.ledger : c.detected \in Nat
        /\ \A c \in Restated(u.ledger, C, "applied", n) : c.detected \in Nat
    BY <1>1, <1>6, <2>1
  <2> QED BY <1>2, <1>5, <2>2, ContinuesSteps
<1> QED BY <1>4, <1>7 DEF u

LEMMA ContinuesUndone ==
  ASSUME NEW b, NEW v \in Views, NEW C \in SUBSET v.ledger, NEW n \in Nat, NEW m, SettlesIn(b, C)
  PROVE  Continues(b, v.ledger, Undone(v, C, n).ledger, m)
<1>1. Undone(v, C, n).ledger = Restated(v.ledger, C, "reverted", n)
  BY DEF Undone, Views
<1> QED BY <1>1, ViewsAre, ContinuesRestated DEF Statuses

\* The whole of a reconcile that may undo what has lapsed.
Reconciles(b, v, w, n, X) == Sound(b, w, X) /\ Continues(b, v.ledger, w.ledger, n)

LEMMA SweptFirst ==
  ASSUME NEW b \in Branches, NEW v, NEW X, Sound(b, v, X), NEW m \in Nat, NEW n \in Nat, m <= n,
         SettlesIn(b, Lapsed(v)),
         NEW D \in SUBSET Found(b, Undone(v, Lapsed(v), m), n),
         NEW C \in SUBSET Appliable(D)
  PROVE  Reconciles(b, v, Closed(Recorded(Undone(v, Lapsed(v), m), D), C, n), n, X)
<1> DEFINE u == Undone(v, Lapsed(v), m)
           w == Closed(Recorded(u, D), C, n)
<1>1. v \in Views /\ Lapsed(v) \in SUBSET v.ledger
  BY DEF Sound, Lapsed
<1>2. Lapsed(v) \in SUBSET Applied(b, v.ledger)
  BY DEF Lapsed, Applied, SettlesIn
<1>3. Sound(b, u, X)
  BY <1>2, UndoneSound
<1>4. Continues(b, v.ledger, u.ledger, m)
  BY <1>1, ContinuesUndone
<1> HIDE DEF u
<1> D \in SUBSET Found(b, u, n)
  BY DEF u
<1>5. Sound(b, w, X)
  BY <1>3, AppliedSound
<1>6. Continues(b, u.ledger, w.ledger, n)
  BY <1>3, ContinuesApplied
<1> HIDE DEF w
<1>7. (\A c \in u.ledger : c.detected \in Nat) /\ (\A c \in w.ledger : c.detected \in Nat)
  <2>1. u.ledger \in SUBSET Candidates /\ w.ledger \in SUBSET Candidates
    BY <1>3, <1>5, ViewsAre DEF Sound
  <2> QED BY <2>1 DEF Candidates
<1>8. Continues(b, v.ledger, w.ledger, n)
  BY <1>4, <1>6, <1>7, ContinuesSteps
<1>9. Reconciles(b, v, w, n, X)
  BY <1>5, <1>8 DEF Reconciles
<1> QED BY <1>9 DEF u, w

LEMMA ReconciledSound ==
  ASSUME NEW b \in Branches, NEW v, NEW X, Sound(b, v, X), seq \in Nat, SettlesIn(b, Lapsed(v))
  PROVE  Reconciles(b, v, Reconciled(b, v), seq + 3, X)
<1> DEFINE D == Found(b, Undone(v, Lapsed(v), seq + 2), seq + 3)
<1>1. seq + 2 \in Nat /\ seq + 3 \in Nat /\ seq + 2 <= seq + 3
  OBVIOUS
<1>2. Appliable(D) \in SUBSET Appliable(D) /\ D \in SUBSET D
  OBVIOUS
<1>3. Reconciled(b, v) = Closed(Recorded(Undone(v, Lapsed(v), seq + 2), D), Appliable(D), seq + 3)
  BY DEF Reconciled
<1> QED BY <1>1, <1>2, <1>3, SweptFirst

----------------------------------------------------------------------------
(* A commit, a fork and the steps that leave the views alone.              *)

\* A branch whose transaction it is not goes on as it was.
LEMMA OtherSound ==
  ASSUME NEW a, NEW b, a # b, NEW u, NEW X, Sound(a, u, X), NEW n, NEW w \in Views,
         w.lines = u.lines, w.tasks = u.tasks, Once(w.ledger),
         Continues(b, u.ledger, w.ledger, n)
  PROVE  Sound(a, w, X)
<1>1. Applied(a, w.ledger) = Applied(a, u.ledger)
  <2>1. \A d \in w.ledger : d.branch = a => d \in u.ledger
    BY DEF Continues
  <2>2. \A c \in u.ledger : c.branch = a => c \in w.ledger
    BY DEF Continues
  <2> QED BY <2>1, <2>2 DEF Applied
<1>2. OneApplied(a, w.ledger, X) /\ TakenOut(a, w, X)
  BY <1>1 DEF Sound, OneApplied, TakenOut, Kept
<1>3. HasTask(w, X)
  BY DEF Sound, HasTask, Open
<1>4. \A c \in u.ledger : Explains(a, c) => \E d \in w.ledger : d.entry = c.entry /\ Explains(a, d)
  <2> SUFFICES ASSUME NEW c \in u.ledger, Explains(a, c)
               PROVE  \E d \in w.ledger : d.entry = c.entry /\ Explains(a, d)
    OBVIOUS
  <2>1. PICK d \in w.ledger : Alike(c, d) /\ (c.branch # b => d = c)
    BY DEF Continues
  <2>2. d.entry = c.entry /\ Explains(a, d)
    BY <2>1 DEF Alike, Explains
  <2> QED BY <2>2
<1>5. Accounted(a, w, X)
  BY <1>4 DEF Sound, Accounted
<1> QED BY <1>2, <1>3, <1>5 DEF Sound

\* An entry that is regular again needs no more said of it.
LEMMA Widened ==
  ASSUME NEW b, NEW w, NEW X, Sound(b, w, X), NEW Y, \A x \in Y \ X : Regular(b, w, x)
  PROVE  Sound(b, w, Y)
<1>1. \A x \in Y \ X : /\ x \in w.lines /\ Open(w, x)
                       /\ \A c \in Applied(b, w.ledger) : c.entry # x
  BY DEF Regular, AppliedTo, Applied
<1>2. OneApplied(b, w.ledger, Y)
  BY <1>1 DEF Sound, OneApplied
<1>3. TakenOut(b, w, Y)
  BY <1>1 DEF Sound, TakenOut
<1>4. HasTask(w, Y)
  BY <1>1 DEF Sound, HasTask
<1>5. Accounted(b, w, Y)
  BY <1>1 DEF Sound, Accounted
<1> QED BY <1>2, <1>3, <1>4, <1>5 DEF Sound

LEMMA Narrowed ==
  ASSUME NEW b, NEW w, NEW X, Sound(b, w, X), NEW Y \in SUBSET X
  PROVE  Sound(b, w, Y)
  BY DEF Sound, OneApplied, TakenOut, HasTask, Accounted

\* Soundness looks at the view and at where the branch was forked.
LEMMA SoundAgain ==
  ASSUME NEW b \in Branches, NEW w, NEW X, Sound(b, w, X),
         w = View(b)', X = Orderly(b)', cut'[b] = cut[b]
  PROVE  Sound(b, View(b), Orderly(b))'
  BY DEF Sound, Once, OneApplied, Applied, TakenOut, Kept, HasTask, Open, Accounted, Explains

\* What is orderly after a commit was before it and not changed, or is regular.
LEMMA OrderlyAfter ==
  ASSUME NEW b, NEW w, NEW T, Commit(b, w, T)
  PROVE  /\ \A x \in Orderly(b)' : x \in Orderly(b) \ T \/ Regular(b, w, x)
         /\ \A a : a # b => Orderly(a)' = Orderly(a)
<1>1. byHand' = Irregular(b, w, byHand \cup ({b} \X T))
  BY DEF Commit
<1>2. \A x \in Entries : <<b, x>> \notin byHand' =>
             (<<b, x>> \notin byHand /\ x \notin T) \/ Regular(b, w, x)
  BY <1>1 DEF Irregular
<1>3. \A a, x : a # b => (<<a, x>> \in byHand' <=> <<a, x>> \in byHand)
  BY <1>1 DEF Irregular
<1> QED BY <1>2, <1>3 DEF Orderly

LEMMA CommitStep ==
  ASSUME IInv, NEW b \in Alive, NEW w, NEW X, Reconciles(b, View(b), w, seq + 3, X),
         NEW T, Orderly(b) \ T \subseteq X, Commit(b, w, T)
  PROVE  IInv'
<1>1. /\ seq \in Nat /\ Main \in Alive /\ Alive \subseteq Branches
      /\ cut \in [Alive -> Nat] /\ \A a \in Alive : cut[a] <= seq
      /\ DOMAIN lines = Branches /\ DOMAIN tasks = Branches
      /\ \A a \in Branches : View(a) \in Views
      /\ \A c \in ledger : c.branch \in Alive /\ c.detected <= seq
  BY DEF IInv, TypeOK
<1>2. w \in Views /\ Sound(b, w, X) /\ Once(w.ledger) /\ Continues(b, ledger, w.ledger, seq + 3)
  BY DEF Reconciles, Sound, View
<1>3. /\ seq' = seq + 3 /\ cut' = cut /\ ledger' = w.ledger /\ evidence' = w.evidence
      /\ DOMAIN lines' = Branches /\ DOMAIN tasks' = Branches
      /\ lines'[b] = w.lines /\ tasks'[b] = w.tasks
      /\ \A a \in Branches \ {b} : lines'[a] = lines[a] /\ tasks'[a] = tasks[a]
  BY <1>1 DEF Commit
<1>4. View(b)' = w
  BY <1>2, <1>3 DEF View, Views
<1>5. ASSUME NEW a \in Branches \ {b}
      PROVE  /\ View(a)' \in Views /\ View(a)'.lines = View(a).lines
             /\ View(a)'.tasks = View(a).tasks /\ View(a)'.ledger = w.ledger
  <2>1. View(a) \in Views
    BY <1>1
  <2>2. lines[a] \in SUBSET Entries /\ tasks[a] \in SUBSET Rows
    BY <2>1 DEF View, Views
  <2> QED BY <1>2, <1>3, <2>2, ViewsAre DEF View, Views
<1>6. TypeOK'
  <2>1. seq' \in Nat /\ (\A a \in Alive' : cut'[a] <= seq')
    BY <1>1, <1>3 DEF Alive
  <2>2. \A a \in Branches : View(a)' \in Views
    BY <1>2, <1>4, <1>5
  <2>3. ASSUME NEW d \in ledger' PROVE d.branch \in Alive' /\ d.detected <= seq'
    <3>1. d.branch \in Alive'
      BY <1>1, <1>2, <1>3 DEF Continues, Alive
    <3>2. (\E c \in ledger : Alike(c, d)) \/ d.detected <= seq + 3
      BY <1>2, <1>3 DEF Continues
    <3>3. ASSUME NEW c \in ledger, Alike(c, d) PROVE d.detected <= seq + 3
      <4>1. c \in Candidates
        BY <1>1 DEF View, Views
      <4>2. c.detected \in Nat /\ d.detected = c.detected
        BY <3>3, <4>1 DEF Candidates, Alike
      <4> QED BY <1>1, <4>2
    <3> QED BY <1>3, <3>1, <3>2, <3>3
  <2> QED BY <1>1, <1>3, <2>1, <2>2, <2>3 DEF TypeOK, Alive
<1>7. ASSUME NEW a \in Alive' PROVE Sound(a, View(a), Orderly(a))'
  <2>1. a \in Branches /\ a \in Alive /\ cut'[a] = cut[a]
    BY <1>1, <1>3 DEF Alive
  <2>2. CASE a = b
    <3>1. PICK Y : Y = Orderly(b)'
      OBVIOUS
    <3>2. \A x \in Y \ X : Regular(b, w, x)
      BY <3>1, OrderlyAfter
    <3>3. Sound(b, w, Y)
      BY <1>2, <3>2, Widened
    <3> QED BY <1>4, <2>1, <2>2, <3>1, <3>3, SoundAgain
  <2>3. CASE a # b
    <3>1. Sound(a, View(a), Orderly(a)) /\ View(a).ledger = ledger
      BY <2>1 DEF IInv, View
    <3>5. PICK Y : Y = Orderly(a)
      OBVIOUS
    <3>6. Y = Orderly(a)'
      BY <2>3, <3>5, OrderlyAfter
    <3> DEFINE u == View(a)
    <3>2. PICK x : x = View(a)'
      OBVIOUS
    <3>3. /\ x \in Views /\ x.lines = u.lines /\ x.tasks = u.tasks /\ x.ledger = w.ledger
      BY <1>5, <2>1, <2>3, <3>2
    <3> HIDE DEF u
    <3>7. Sound(a, u, Y) /\ u.ledger = ledger
      BY <3>1, <3>5 DEF u
    <3>4. Sound(a, x, Y)
      BY <1>2, <2>3, <3>3, <3>7, OtherSound
    <3> QED BY <2>1, <3>2, <3>4, <3>6, SoundAgain
  <2> QED BY <2>2, <2>3
<1>8. \A a \in Branches \ Alive' : lines'[a] = {} /\ tasks'[a] = {}
  BY <1>1, <1>3 DEF IInv, Alive
<1> QED BY <1>6, <1>7, <1>8 DEF IInv

\* A fork sees what Main shows, and what closed a task there was detected before.
LEMMA ForkStep ==
  ASSUME IInv, NEW b \in Branches, Fork(b)
  PROVE  IInv'
<1>1. /\ seq \in Nat /\ Main \in Alive /\ Alive \subseteq Branches
      /\ cut \in [Alive -> Nat] /\ \A a \in Alive : cut[a] <= seq
      /\ DOMAIN lines = Branches /\ DOMAIN tasks = Branches
      /\ \A a \in Branches : View(a) \in Views
      /\ \A c \in ledger : c.branch \in Alive /\ c.detected <= seq
  BY DEF IInv, TypeOK
<1>2. /\ b \notin Alive /\ b # Main
      /\ Alive' = Alive \cup {b} /\ cut' \in [Alive' -> Nat] /\ cut'[b] = seq
      /\ \A a \in Alive : cut'[a] = cut[a]
      /\ seq' = seq /\ ledger' = ledger /\ evidence' = evidence
      /\ DOMAIN lines' = Branches /\ DOMAIN tasks' = Branches
      /\ \A a \in Branches \ {b} : View(a)' = View(a)
      /\ View(b)' = View(Main)
      /\ \A a \in Branches \ {b} : lines'[a] = lines[a] /\ tasks'[a] = tasks[a]
      /\ byHand' = Irregular(b, View(Main),
                             byHand \cup ({b} \X {x \in Entries : <<Main, x>> \in byHand}))
  <2>1. b \notin Alive /\ b # Main /\ Main \in Branches
    BY <1>1 DEF Fork
  <2>2. cut' = [a \in Alive \cup {b} |-> IF a = b THEN seq ELSE cut[a]]
    BY DEF Fork, ForkPoint
  <2> HIDE DEF Alive
  <2>3. Alive' = Alive \cup {b}
    BY <2>2 DEF Alive
  <2>4. cut' \in [Alive' -> Nat] /\ cut'[b] = seq /\ \A a \in Alive : cut'[a] = cut[a]
    BY <1>1, <2>1, <2>2, <2>3
  <2> QED BY <1>1, <2>1, <2>3, <2>4 DEF Fork, View
<1>3. TypeOK'
  <2>1. Main \in Alive' /\ Alive' \subseteq Branches /\ \A a \in Alive' : cut'[a] <= seq'
    BY <1>1, <1>2
  <2>2. \A a \in Branches : View(a)' \in Views
    BY <1>1, <1>2
  <2> QED BY <1>1, <1>2, <2>1, <2>2 DEF TypeOK
<1>7. /\ \A x \in Entries : <<b, x>> \notin byHand' =>
                <<Main, x>> \notin byHand \/ Regular(b, View(Main), x)
      /\ \A a : a # b => Orderly(a)' = Orderly(a)
  <2>1. \A x \in Entries : <<b, x>> \notin byHand' =>
                <<Main, x>> \notin byHand \/ Regular(b, View(Main), x)
    BY <1>2 DEF Irregular
  <2>2. \A a, x : a # b => (<<a, x>> \in byHand' <=> <<a, x>> \in byHand)
    BY <1>2 DEF Irregular
  <2> QED BY <2>1, <2>2 DEF Orderly
<1>4. ASSUME NEW a \in Alive PROVE Sound(a, View(a), Orderly(a))'
  <2>1. /\ a \in Branches /\ a # b /\ cut'[a] = cut[a] /\ Sound(a, View(a), Orderly(a))
        /\ Orderly(a)' = Orderly(a)
    BY <1>1, <1>2, <1>7 DEF IInv
  <2>2. PICK x, X : x = View(a)' /\ X = Orderly(a)'
    OBVIOUS
  <2>3. Sound(a, x, X)
    BY <1>2, <2>1, <2>2
  <2> QED BY <2>1, <2>2, <2>3, SoundAgain
<1>5. Sound(b, View(b), Orderly(b))'
  <2>1. PICK v, X, Y : v = View(Main) /\ X = Orderly(Main) /\ Y = Orderly(b)'
    OBVIOUS
  <2>2. Sound(Main, v, X) /\ v.ledger = ledger
    BY <1>1, <2>1 DEF IInv, View
  <2>7. \A x \in Y : x \in X \/ (x \in v.lines /\ Open(v, x))
    BY <1>7, <2>1 DEF Orderly, Regular
  <2>3. \A c \in v.ledger : c.branch # b /\ (c.branch = Main => c.detected <= cut'[b])
    BY <1>1, <1>2, <2>2
  <2>4. \A c \in v.ledger : Explains(Main, c) => Explains(b, c)'
    BY <1>2, <2>3 DEF Explains
  <2>5. \A r \in v.tasks : r.listed /\ r.entry \in Y =>
          r.entry \in v.lines \/ \E c \in v.ledger : c.entry = r.entry /\ Explains(b, c)'
    BY <2>2, <2>4, <2>7 DEF Sound, Accounted
  <2>8. Accounted(b, View(b), Orderly(b))'
    BY <1>2, <2>1, <2>5 DEF Accounted
  <2>6. Applied(b, v.ledger) = {}
    BY <2>3 DEF Applied
  <2>9. v \in Views /\ Once(v.ledger) /\ HasTask(v, Y)
    BY <2>2, <2>7 DEF Sound, HasTask
  <2>10. OneApplied(b, v.ledger, Y) /\ TakenOut(b, v, Y)
    BY <2>6 DEF OneApplied, TakenOut
  <2> QED BY <1>2, <2>1, <2>8, <2>9, <2>10
          DEF Sound, Once, OneApplied, Applied, TakenOut, Kept, HasTask, Open
<1>6. \A a \in Branches \ Alive' : lines'[a] = {} /\ tasks'[a] = {}
  BY <1>1, <1>2 DEF IInv
<1> QED BY <1>2, <1>3, <1>4, <1>5, <1>6 DEF IInv

LEMMA StillStep ==
  ASSUME IInv, UNCHANGED <<seq, cut, lines, tasks, evidence, ledger, byHand>>
  PROVE  IInv'
<1>1. TypeOK'
  BY DEF IInv, TypeOK, Alive, View
<1>2. ASSUME NEW b \in Alive' PROVE Sound(b, View(b), Orderly(b))'
  <2>1. /\ b \in Alive /\ b \in Branches /\ cut'[b] = cut[b] /\ Sound(b, View(b), Orderly(b))
        /\ View(b)' = View(b) /\ Orderly(b)' = Orderly(b)
    BY DEF IInv, TypeOK, Alive, View, Orderly
  <2>2. PICK x, X : x = View(b)' /\ X = Orderly(b)'
    OBVIOUS
  <2>3. Sound(b, x, X)
    BY <2>1, <2>2
  <2> QED BY <2>1, <2>2, <2>3, SoundAgain
<1> QED BY <1>1, <1>2 DEF IInv, Alive

----------------------------------------------------------------------------
(* The operations.                                                         *)

LEMMA Turned ==
  ASSUME IInv, NEW b \in Branches, Turn(b)
  PROVE  /\ b \in Alive /\ Sound(b, View(b), Orderly(b)) /\ View(b) \in Views
         /\ View(b).ledger = ledger /\ View(b).lines = lines[b]
         /\ seq \in Nat /\ seq + 1 \in Nat /\ seq + 2 \in Nat /\ seq + 3 \in Nat
<1>1. b \in Alive /\ seq \in Nat /\ Sound(b, View(b), Orderly(b))
  BY DEF Turn, IInv, TypeOK
<1> QED BY <1>1 DEF Sound, View

\* A reconcile after an operation of the same delivery.
LEMMA ReconcilesAfter ==
  ASSUME NEW b, NEW X, NEW v \in Views, NEW u, NEW w, NEW m \in Nat, NEW n \in Nat, m <= n,
         Reconciles(b, v, u, m, X), Reconciles(b, u, w, n, X)
  PROVE  Reconciles(b, v, w, n, X)
<1>1. u.ledger \in SUBSET Candidates /\ w.ledger \in SUBSET Candidates
  BY ViewsAre DEF Reconciles, Sound
<1>2. (\A c \in u.ledger : c.detected \in Nat) /\ (\A c \in w.ledger : c.detected \in Nat)
  BY <1>1 DEF Candidates
<1> QED BY <1>2, ContinuesSteps DEF Reconciles

\* A delivery that left its branch sound reconciles it.
LEMMA DeliveryStep ==
  ASSUME IInv, NEW b \in Branches, Turn(b), UNCHANGED files,
         NEW v, Sound(b, v, Orderly(b)), \A m : Continues(b, ledger, v.ledger, m),
         IF SettlesIn(b, Lapsed(v)) THEN Commit(b, Reconciled(b, v), {}) ELSE Refuse(b)
  PROVE  IInv'
<1>1. /\ b \in Alive /\ View(b) \in Views /\ View(b).ledger = ledger
      /\ seq \in Nat /\ seq + 1 \in Nat /\ seq + 3 \in Nat
  BY Turned
<1>2. CASE Refuse(b)
  BY <1>2, StillStep DEF Refuse
<1>3. CASE SettlesIn(b, Lapsed(v)) /\ Commit(b, Reconciled(b, v), {})
  <2>1. PICK X : X = Orderly(b)
    OBVIOUS
  <2>2. Reconciles(b, View(b), v, seq + 1, X)
    BY <1>1, <2>1 DEF Reconciles
  <2>3. Reconciles(b, v, Reconciled(b, v), seq + 3, X)
    BY <1>1, <1>3, <2>1, ReconciledSound
  <2>4. Reconciles(b, View(b), Reconciled(b, v), seq + 3, X)
    BY <1>1, <2>2, <2>3, ReconcilesAfter
  <2>5. Orderly(b) \ {} \subseteq X
    BY <2>1
  <2> QED BY <1>1, <1>3, <2>4, <2>5, CommitStep
<1> QED BY <1>2, <1>3

LEMMA MarkerStep ==
  ASSUME IInv, NEW b \in Branches, NEW x \in Entries, Marker(b, x)
  PROVE  IInv'
<1> DEFINE v == Marked(View(b), x, seq + 1)
           C == Contested(View(b), x)
<1>1. /\ Turn(b) /\ Sound(b, View(b), Orderly(b)) /\ View(b) \in Views
      /\ View(b).ledger = ledger /\ seq + 1 \in Nat
  BY Turned DEF Marker
<1>2. C \in SUBSET ledger /\ ledger \in SUBSET Candidates /\ "contested" \in Statuses
      /\ SettlesIn(b, C)
  BY <1>1, ViewsAre DEF Contested, AppliedTo, Statuses, Marker
<1>3. v.ledger = Restated(ledger, C, "contested", seq + 1)
  BY <1>1 DEF Marked, Noted, Views
<1>4. Sound(b, v, Orderly(b))
  BY <1>1, MarkedSound
<1>5. IF SettlesIn(b, Lapsed(v)) THEN Commit(b, Reconciled(b, v), {}) ELSE Refuse(b)
  BY DEF Marker
<1>6. UNCHANGED files
  BY DEF Marker
<1> HIDE DEF v, C
<1>7. \A m : Continues(b, ledger, v.ledger, m)
  BY <1>1, <1>2, <1>3, ContinuesRestated
<1> QED BY <1>1, <1>4, <1>5, <1>6, <1>7, DeliveryStep

LEMMA NotedStep ==
  ASSUME IInv, NEW b \in Branches, NEW x \in Entries, UnlistedMarker(b, x) \/ Note(b, x)
  PROVE  IInv'
<1> DEFINE v == Noted(View(b), x, seq + 1, FALSE)
<1>1. /\ Turn(b) /\ UNCHANGED files /\ b \in Alive /\ Sound(b, View(b), Orderly(b))
      /\ View(b) \in Views /\ View(b).ledger = ledger /\ seq + 1 \in Nat
  BY Turned DEF UnlistedMarker, Note
<1>2. Sound(b, v, Orderly(b))
  BY <1>1, NotedSound
<1>3. v.ledger = ledger
  BY <1>1 DEF Noted, Views
<1>4. \/ IF SettlesIn(b, Lapsed(v)) THEN Commit(b, Reconciled(b, v), {}) ELSE Refuse(b)
      \/ Commit(b, v, {})
  BY DEF UnlistedMarker, Note
<1> HIDE DEF v
<1>5. \A m : Continues(b, ledger, v.ledger, m)
  BY <1>3, ContinuesSame
<1>6. CASE Commit(b, v, {})
  <2>1. PICK X : X = Orderly(b)
    OBVIOUS
  <2>2. Reconciles(b, View(b), v, seq + 3, X)
    BY <1>1, <1>2, <1>5, <2>1 DEF Reconciles
  <2>3. Orderly(b) \ {} \subseteq X
    BY <2>1
  <2> QED BY <1>1, <1>6, <2>2, <2>3, CommitStep
<1> QED BY <1>1, <1>2, <1>4, <1>5, <1>6, DeliveryStep

LEMMA WorkStep ==
  ASSUME IInv, NEW b \in Branches, NEW x \in Entries, Work(b, x)
  PROVE  IInv'
<1> DEFINE e == [seq |-> seq + 1, branch |-> b, entry |-> x]
           v == [View(b) EXCEPT !.evidence = @ \cup {e}]
<1>1. /\ Turn(b) /\ UNCHANGED files /\ b \in Alive /\ Sound(b, View(b), Orderly(b))
      /\ View(b) \in Views /\ View(b).ledger = ledger /\ seq + 1 \in Nat
  BY Turned DEF Work
<1>2. e \in Events
  BY <1>1 DEF Events
<1>3. /\ v \in Views /\ v.lines = View(b).lines /\ v.tasks = View(b).tasks
      /\ v.ledger = View(b).ledger
  BY <1>1, <1>2 DEF Views
<1>4. IF SettlesIn(b, Lapsed(v)) THEN Commit(b, Reconciled(b, v), {}) ELSE Refuse(b)
  BY DEF Work
<1> HIDE DEF v
<1>5. Sound(b, v, Orderly(b))
  BY <1>1, <1>3 DEF Sound, TakenOut, Kept, HasTask, Open, Accounted
<1>6. \A m : Continues(b, ledger, v.ledger, m)
  BY <1>1, <1>3, ContinuesSame
<1> QED BY <1>1, <1>4, <1>5, <1>6, DeliveryStep

\* A commit that settlement alone made.
LEMMA SettledStep ==
  ASSUME IInv, NEW b \in Branches, Turn(b), NEW w,
         Reconciles(b, View(b), w, seq + 3, Orderly(b)), Commit(b, w, {})
  PROVE  IInv'
<1>1. PICK X : X = Orderly(b)
  OBVIOUS
<1>2. Reconciles(b, View(b), w, seq + 3, X) /\ Orderly(b) \ {} \subseteq X /\ b \in Alive
  BY <1>1 DEF Turn
<1> QED BY <1>2, CommitStep

LEMMA ReconcileCommandStep ==
  ASSUME IInv, NEW b \in Branches, ReconcileCommand(b)
  PROVE  IInv'
<1> DEFINE v == View(b)
           swept == Undone(v, Lapsed(v), seq + 2)
<1>1. /\ Turn(b) /\ Sound(b, v, Orderly(b)) /\ v \in Views /\ v.ledger = ledger
      /\ seq \in Nat /\ seq + 2 \in Nat /\ seq + 3 \in Nat /\ seq + 2 <= seq + 3
  BY Turned DEF ReconcileCommand
<1>2. ASSUME SettlesIn(b, Lapsed(v)), NEW D \in SUBSET Found(b, swept, seq + 3),
             NEW C \in SUBSET Appliable(D), Commit(b, Closed(Recorded(swept, D), C, seq + 3), {})
      PROVE  IInv'
  <2>1. Reconciles(b, v, Closed(Recorded(swept, D), C, seq + 3), seq + 3, Orderly(b))
    <3> HIDE DEF v
    <3> QED BY <1>1, <1>2, SweptFirst
  <2> QED BY <1>1, <1>2, <2>1, SettledStep
<1>3. ASSUME NEW C \in SUBSET {c \in Lapsed(v) : c.branch = b}, Commit(b, Undone(v, C, seq + 2), {})
      PROVE  IInv'
  <2>1. C \in SUBSET Applied(b, v.ledger) /\ C \in SUBSET v.ledger /\ SettlesIn(b, C)
    BY <1>3 DEF Lapsed, Applied, SettlesIn
  <2> HIDE DEF v
  <2>2. Sound(b, Undone(v, C, seq + 2), Orderly(b))
    BY <1>1, <2>1, UndoneSound
  <2>3. Continues(b, v.ledger, Undone(v, C, seq + 2).ledger, seq + 3)
    BY <1>1, <2>1, ContinuesUndone
  <2>4. Reconciles(b, v, Undone(v, C, seq + 2), seq + 3, Orderly(b))
    BY <2>2, <2>3 DEF Reconciles
  <2> QED BY <1>1, <1>3, <2>4, SettledStep DEF v
<1> QED BY <1>2, <1>3 DEF ReconcileCommand

LEMMA RequestStep ==
  ASSUME IInv, NEW b \in Branches, NEW c \in ledger,
         ApplyRequested(b, c) \/ UndoRequested(b, c) \/ ContestRequested(b, c)
  PROVE  IInv'
<1> DEFINE v == View(b)
<1>1. /\ Turn(b) /\ Sound(b, v, Orderly(b)) /\ v \in Views /\ v.ledger = ledger /\ v.lines = lines[b]
      /\ seq \in Nat /\ seq + 2 \in Nat /\ seq + 3 \in Nat /\ c.branch = b
  BY Turned DEF ApplyRequested, UndoRequested, ContestRequested, Request
<1>2. {c} \in SUBSET v.ledger /\ SettlesIn(b, {c}) /\ v.ledger \in SUBSET Candidates
      /\ "applied" \in Statuses /\ "contested" \in Statuses
  BY <1>1, ViewsAre DEF SettlesIn, Statuses
<1>3. CASE ApplyRequested(b, c)
  <2>1. c.entry \in v.lines /\ Commit(b, Closed(v, {c}, seq + 3), {})
    BY <1>1, <1>3 DEF ApplyRequested
  <2> HIDE DEF v
  <2>2. Sound(b, Closed(v, {c}, seq + 3), Orderly(b))
    <3>1. /\ \A d \in {c} : d.branch = b /\ d.entry \in v.lines
          /\ \A d, e \in {c} : d.entry = e.entry => d = e
      BY <1>1, <2>1
    <3> QED BY <1>1, <1>2, <3>1, ClosedSound
  <2>3. Closed(v, {c}, seq + 3).ledger = Restated(v.ledger, {c}, "applied", seq + 3)
    BY <1>1 DEF Closed, Views
  <2>4. Continues(b, v.ledger, Closed(v, {c}, seq + 3).ledger, seq + 3)
    BY <1>1, <1>2, <2>3, ContinuesRestated
  <2>5. Reconciles(b, v, Closed(v, {c}, seq + 3), seq + 3, Orderly(b))
    BY <2>2, <2>4 DEF Reconciles
  <2> QED BY <1>1, <2>1, <2>5, SettledStep DEF v
<1>4. CASE UndoRequested(b, c)
  <2>1. {c} \in SUBSET Applied(b, v.ledger) /\ Commit(b, Undone(v, {c}, seq + 2), {})
    BY <1>1, <1>4 DEF UndoRequested, Applied
  <2> HIDE DEF v
  <2>2. Sound(b, Undone(v, {c}, seq + 2), Orderly(b))
    BY <1>1, <2>1, UndoneSound
  <2>3. Continues(b, v.ledger, Undone(v, {c}, seq + 2).ledger, seq + 3)
    BY <1>1, <1>2, ContinuesUndone
  <2>4. Reconciles(b, v, Undone(v, {c}, seq + 2), seq + 3, Orderly(b))
    BY <2>2, <2>3 DEF Reconciles
  <2> QED BY <1>1, <2>1, <2>4, SettledStep DEF v
<1>5. CASE ContestRequested(b, c)
  <2> DEFINE w == [v EXCEPT !.ledger = Restated(@, {c}, "contested", seq + 2)]
  <2>1. Commit(b, w, {})
    BY <1>5 DEF ContestRequested
  <2> HIDE DEF v
  <2>2. Sound(b, w, Orderly(b))
    BY <1>1, <1>2, ContestedSound
  <2>3. w.ledger = Restated(v.ledger, {c}, "contested", seq + 2)
    BY <1>1 DEF Views
  <2> HIDE DEF w
  <2>4. Continues(b, v.ledger, w.ledger, seq + 3)
    BY <1>1, <1>2, <2>3, ContinuesRestated
  <2>5. Reconciles(b, v, w, seq + 3, Orderly(b))
    BY <2>2, <2>4 DEF Reconciles
  <2> QED BY <1>1, <2>1, <2>5, SettledStep DEF v
<1> QED BY <1>3, <1>4, <1>5

\* By hand: what was changed is not orderly, the rest is as it was.
LEMMA ByHandStep ==
  ASSUME IInv, NEW b \in Branches,
         \/ \E L \in SUBSET Entries : WriteTasks(b, L)
         \/ \E r \in tasks[b] : Supersede(b, r)
  PROVE  IInv'
<1>1. /\ b \in Alive /\ Sound(b, View(b), Orderly(b)) /\ View(b) \in Views
      /\ View(b).ledger = ledger /\ View(b).lines = lines[b] /\ View(b).tasks = tasks[b]
  BY Turned DEF WriteTasks, Supersede, Request, View
<1>2. PICK v : v = View(b)
  OBVIOUS
<1>3. ASSUME NEW w \in Views, NEW T, w.ledger = v.ledger, Commit(b, w, T),
             \A x \in Entries \ T : x \in w.lines <=> x \in v.lines,
             \A r \in v.tasks : r.entry \notin T => r \in w.tasks,
             w.tasks \subseteq v.tasks
      PROVE  IInv'
  <2>1. PICK X : X = Orderly(b) \ T
    OBVIOUS
  <2>2. X \subseteq Entries \ T /\ Sound(b, v, X)
    <3>1. X \subseteq Orderly(b) /\ X \subseteq Entries \ T
      BY <2>1 DEF Orderly
    <3> QED BY <1>1, <1>2, <3>1, Narrowed
  <2>3. w.lines \subseteq Entries /\ v.ledger \subseteq Candidates /\ v.tasks \subseteq Rows
        /\ v \in Views
    BY <1>1, <1>2, ViewsAre
  <2>4. TakenOut(b, w, X)
    BY <1>3, <2>2, <2>3 DEF Sound, TakenOut, Kept
  <2>5. HasTask(w, X)
    BY <1>3, <2>2, <2>3 DEF Sound, HasTask, Open
  <2>6. Accounted(b, w, X)
    BY <1>3, <2>2, <2>3 DEF Sound, Accounted
  <2>7. Sound(b, w, X)
    BY <1>3, <2>2, <2>4, <2>5, <2>6 DEF Sound
  <2>8. Reconciles(b, View(b), w, seq + 3, X)
    BY <1>2, <1>3, <2>7, ContinuesSame DEF Reconciles
  <2> QED BY <1>1, <1>3, <2>1, <2>8, CommitStep
<1>4. ASSUME NEW L \in SUBSET Entries, WriteTasks(b, L) PROVE IInv'
  <2>1. PICK T : T = (L \ lines[b]) \cup (lines[b] \ L)
    OBVIOUS
  <2>2. PICK w : w = [v EXCEPT !.lines = L]
    OBVIOUS
  <2>3. w \in Views /\ w.lines = L /\ w.tasks = v.tasks /\ w.ledger = v.ledger
    BY <1>1, <1>2, <2>2 DEF Views
  <2>4. Commit(b, w, T)
    BY <1>2, <1>4, <2>1, <2>2 DEF WriteTasks
  <2>5. \A x \in Entries \ T : x \in w.lines <=> x \in v.lines
    BY <1>1, <1>2, <2>1, <2>3
  <2> QED BY <1>3, <2>3, <2>4, <2>5
<1>5. ASSUME NEW r \in tasks[b], Supersede(b, r) PROVE IInv'
  <2>1. PICK w : w = [v EXCEPT !.tasks = @ \ {r}]
    OBVIOUS
  <2>2. w \in Views /\ w.lines = v.lines /\ w.tasks = v.tasks \ {r} /\ w.ledger = v.ledger
    BY <1>1, <1>2, <2>1 DEF Views
  <2>3. Commit(b, w, {r.entry})
    BY <1>2, <1>5, <2>1 DEF Supersede
  <2> QED BY <1>3, <2>2, <2>3
<1> QED BY <1>4, <1>5

----------------------------------------------------------------------------
(* The first state, the steps and what follows.                            *)

LEMMA InitInvariant == Init => IInv
<1> SUFFICES ASSUME Init PROVE IInv
  OBVIOUS
<1>1. Alive = {Main} /\ Main \in Branches /\ cut[Main] = 0
  BY DEF Init, Alive, Branches
<1>2. \A b \in Branches : View(b) = [lines |-> {}, tasks |-> {}, ledger |-> {}, evidence |-> {}]
  BY DEF Init, View
<1>3. TypeOK
  BY <1>1, <1>2 DEF Init, TypeOK, Views
<1>4. Sound(Main, View(Main), Orderly(Main))
  BY <1>1, <1>2
  DEF Sound, Views, Once, OneApplied, Applied, TakenOut, HasTask, Accounted
<1>5. \A b \in Branches \ Alive : lines[b] = {} /\ tasks[b] = {}
  BY DEF Init
<1> QED BY <1>1, <1>3, <1>4, <1>5 DEF IInv

LEMMA NextInvariant == IInv /\ [Next]_vars => IInv'
<1> SUFFICES ASSUME IInv, [Next]_vars PROVE IInv'
  OBVIOUS
<1>1. ASSUME NEW b \in Branches, NEW x \in Entries,
             Marker(b, x) \/ UnlistedMarker(b, x) \/ Note(b, x) \/ Work(b, x)
      PROVE  IInv'
  BY <1>1, MarkerStep, NotedStep, WorkStep
<1>2. ASSUME NEW b \in Branches, ReconcileCommand(b) \/ Fork(b) PROVE IInv'
  BY <1>2, ReconcileCommandStep, ForkStep
<1>3. ASSUME NEW b \in Branches, NEW c \in ledger,
             ApplyRequested(b, c) \/ UndoRequested(b, c) \/ ContestRequested(b, c)
      PROVE  IInv'
  BY <1>3, RequestStep
<1>4. ASSUME NEW x \in Strong, ChangeFile(x) PROVE IInv'
  BY <1>4, StillStep DEF ChangeFile
<1>5. CASE ActivatePolicy
  BY <1>5, StillStep DEF ActivatePolicy
<1>6. CASE UNCHANGED vars
  BY <1>6, StillStep DEF vars
<1>7. ASSUME NEW b \in Branches, (\E L \in SUBSET Entries : WriteTasks(b, L))
                                 \/ (\E r \in tasks[b] : Supersede(b, r))
      PROVE  IInv'
  BY <1>7, ByHandStep
<1> QED BY <1>1, <1>2, <1>3, <1>4, <1>5, <1>6, <1>7 DEF Next

LEMMA Always == Spec => []IInv
  BY InitInvariant, NextInvariant, PTL DEF Spec

\* What the invariant says of the branches that exist and of those that do not.
LEMMA OnceFollows == IInv => ConsumedOnce
<1> SUFFICES ASSUME IInv PROVE ConsumedOnce
  OBVIOUS
<1>1. Once(ledger) /\ \A c \in ledger : c.branch \in Alive
  BY DEF IInv, TypeOK, Sound, View
<1>2. ASSUME NEW b \in Branches, NEW x \in Entries, <<b, x>> \notin byHand
      PROVE  Cardinality({c \in ledger : c.branch = b /\ c.entry = x /\ c.status = "applied"}) <= 1
  <2> DEFINE S == {c \in ledger : c.branch = b /\ c.entry = x /\ c.status = "applied"}
  <2>1. \A c, d \in S : c = d
    <3> SUFFICES ASSUME NEW c \in S, NEW d \in S PROVE c = d
      OBVIOUS
    <3>1. b \in Alive
      BY <1>1
    <3>2. OneApplied(b, ledger, Orderly(b)) /\ x \in Orderly(b)
      BY <1>2, <3>1 DEF IInv, Sound, View, Orderly
    <3> QED BY <3>2 DEF OneApplied, Applied
  <2> HIDE DEF S
  <2>2. ASSUME S = {} PROVE Cardinality(S) <= 1
    <3>1. Cardinality(S) = 0
      BY <2>2, FS_EmptySet
    <3> QED BY <3>1
  <2>3. ASSUME NEW c \in S PROVE Cardinality(S) <= 1
    <3>1. S = {c}
      BY <2>1, <2>3
    <3>2. Cardinality(S) = 1
      BY <3>1, FS_Singleton
    <3> QED BY <3>2
  <2>4. Cardinality(S) <= 1
    <3>1. S = {} \/ \E c : c \in S
      OBVIOUS
    <3> QED BY <2>2, <2>3, <3>1
  <2> QED BY <2>4 DEF S
<1> QED BY <1>1, <1>2 DEF ConsumedOnce, Once

LEMMA OutFollows == IInv => ClosedLinesStayOut
<1> SUFFICES ASSUME IInv, NEW c \in ledger, c.status = "applied",
                    <<c.branch, c.entry>> \notin byHand
             PROVE  c.entry \notin lines[c.branch]
  BY DEF ClosedLinesStayOut
<1>1. c.branch \in Alive /\ c.branch \in Branches /\ View(c.branch) \in Views
  BY DEF IInv, TypeOK
<1>2. TakenOut(c.branch, View(c.branch), Orderly(c.branch))
  BY <1>1 DEF IInv, Sound
<1>3. c.entry \in Orderly(c.branch)
  BY <1>1 DEF Orderly, View, Views, Candidates
<1> QED BY <1>2, <1>3 DEF TakenOut, Applied, View

LEMMA NothingVanishes == IInv => NoEntryVanishes
<1> SUFFICES ASSUME IInv, NEW b \in Alive, NEW r \in tasks[b], r.listed,
                    r.entry \notin lines[b], <<b, r.entry>> \notin byHand
             PROVE  \E c \in ledger :
                      /\ c.entry = r.entry
                      /\ \/ c.branch = b /\ c.status \in {"applied", "contested"}
                         \/ b # Main /\ c.branch = Main /\ c.detected <= cut[b]
  BY DEF NoEntryVanishes
<1>1. Accounted(b, View(b), Orderly(b)) /\ View(b) \in Views
  BY DEF IInv, Sound
<1>2. r.entry \in Orderly(b)
  BY <1>1 DEF Orderly, View, Views, Rows
<1> QED BY <1>1, <1>2 DEF Accounted, Explains, View

LEMMA OpenTaskFollows == IInv => OpenLineHasOpenTask
<1> SUFFICES ASSUME IInv, NEW b \in Branches, NEW x \in lines[b], <<b, x>> \notin byHand
             PROVE  Open(View(b), x)
  BY DEF OpenLineHasOpenTask
<1>1. b \in Alive
  BY DEF IInv
<1>2. HasTask(View(b), Orderly(b)) /\ View(b) \in Views
  BY <1>1 DEF IInv, Sound
<1>3. x \in View(b).lines \cap Orderly(b)
  BY <1>2 DEF Orderly, View, Views
<1> QED BY <1>2, <1>3 DEF HasTask

\* One detection is one candidate, and an entry of a branch that nobody changed by
\* hand has at most one applied closure, whatever sweeps, requests, markers and forks
\* come between (create_settlement_candidate and settle_candidate).
THEOREM DetectionsAreConsumedOnce == Spec => []ConsumedOnce
  BY Always, OnceFollows, PTL

\* A line is out of the block of its branch as long as a closure of it is applied,
\* unless it was put back by hand.
THEOREM ClosuresKeepLinesOut == Spec => []ClosedLinesStayOut
  BY Always, OutFollows, PTL

\* A task memory whose marker found or wrote its line has the line in the block, or a
\* closure that explains why not, or was changed by hand.
THEOREM EntriesAreAccounted == Spec => []NoEntryVanishes
  BY Always, NothingVanishes, PTL

\* Every line in a block that settlement alone moved has an open memory.
THEOREM LinesHaveOpenTasks == Spec => []OpenLineHasOpenTask
  BY Always, OpenTaskFollows, PTL
=============================================================================
