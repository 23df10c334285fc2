--------------------------- MODULE TaskClaimProofs ---------------------------
(***************************************************************************)
(* Proofs about TaskClaim, for any number of tickets, workers, posters,    *)
(* attempts per loop, lost attempts and crashes.                           *)
(*                                                                         *)
(* How many workers can be on a ticket is a matter of who has been         *)
(* forgotten: a holder that is not the ticket's assignee.  A worker is     *)
(* forgotten when somebody takes the assignee out of its ticket, and the   *)
(* invariant says that whoever can still do so is paid for by a loss.      *)
(***************************************************************************)
EXTENDS TaskClaim, FiniteSetTheorems, TLAPS

\* Holders of t that the ticket does not name.
Forgotten(t) == {w \in Holders(t) : board[t].assignee # w}

\* Requests still queued that take the assignee out of t.
Releases(t) == {m \in late : m.task = t /\ m.new.assignee = NoOne}

\* Created and not posted yet.
Fresh(t) == board[t] = Ticket(NoOne, "preparing")

Posting(p, t) == ppc[p] = "post" /\ ptask[p] = t

\* Whether a poster may post t a second time.
Reposts(t) == IF ~Fresh(t) /\ \E p \in Poster : Posting(p, t) THEN 1 ELSE 0

\* Workers only know tickets that were created and posted.
WorkersKnow == \A w \in Worker : wpc[w] \in {"claim", "run", "report"} =>
    /\ wtask[w] \in Task
    /\ board[wtask[w]] # Unborn
    /\ ~Fresh(wtask[w])

\* Posters only know tickets that were created, each its own.
PostersKnow ==
    /\ \A p \in Poster : ppc[p] \in {"post", "poll", "delete"} =>
          /\ ptask[p] \in Task
          /\ board[ptask[p]] # Unborn
    /\ \A p, q \in Poster, t \in Task :
          Posting(p, t) /\ Posting(q, t) => p = q

\* Queued requests are about tickets that were created, and the claims among
\* them about tickets that were posted.
QueueFits ==
    /\ IsFiniteSet(late)
    /\ \A m \in late :
          /\ board[m.task] # Unborn
          /\ m.new.body # "preparing"
          /\ m.new.assignee # NoOne => ~Fresh(m.task)

\* On a live ticket the forgotten holders, and those who may make another
\* one forgotten, are paid for by losses.  A deleted ticket gets no new holder.
DebtIsPaid(t) ==
    /\ IsFiniteSet(Holders(t))
    /\ Live(t) => Cardinality(Forgotten(t)) + Cardinality(Releases(t))
                      + Reposts(t) <= losses
    /\ ~Live(t) => Cardinality(Holders(t)) <= 1 + losses

DebtsArePaid == \A t \in Task : DebtIsPaid(t)

IndInv ==
    /\ TypeOK
    /\ WorkersKnow
    /\ PostersKnow
    /\ QueueFits
    /\ DebtsArePaid

\* What every step leaves of the board: a ticket that exists stays known,
\* and never becomes fresh again.
TicketsStay == \A t \in Task :
    board[t] # Unborn => board'[t] # Unborn /\ (Fresh(t)' => Fresh(t))

-----------------------------------------------------------------------------
(* Sets of holders and requests *)

\* A subset of a finite set is no larger.
LEMMA NoMore ==
    ASSUME NEW S, NEW T, IsFiniteSet(S), T \subseteq S
    PROVE  /\ IsFiniteSet(T)
           /\ Cardinality(T) \in Nat
           /\ Cardinality(S) \in Nat
           /\ Cardinality(T) <= Cardinality(S)
<1>1. IsFiniteSet(T) /\ Cardinality(T) <= Cardinality(S)  BY FS_Subset
<1>2. QED  BY <1>1, FS_CardinalityType

\* One more element makes a set larger by one at most.
LEMMA OneMore ==
    ASSUME NEW S, NEW T, NEW x, IsFiniteSet(S), T \subseteq S \cup {x}
    PROVE  /\ IsFiniteSet(T)
           /\ Cardinality(T) \in Nat
           /\ Cardinality(S) \in Nat
           /\ Cardinality(T) <= Cardinality(S) + 1
<1>1. IsFiniteSet(S \cup {x})  BY FS_AddElement
<1>2. Cardinality(S \cup {x}) <= Cardinality(S) + 1
  <2>1. Cardinality(S \cup {x}) = Cardinality(S) \/ Cardinality(S \cup {x}) = Cardinality(S) + 1
    BY FS_AddElement
  <2>2. QED  BY <2>1, FS_CardinalityType
<1>3. IsFiniteSet(T) /\ Cardinality(T) <= Cardinality(S \cup {x})  BY <1>1, FS_Subset
<1>4. QED  BY <1>1, <1>2, <1>3, FS_CardinalityType

\* A request that is served is one less in the queue.
LEMMA OneLess ==
    ASSUME NEW S, NEW x \in S, IsFiniteSet(S)
    PROVE  /\ IsFiniteSet(S \ {x})
           /\ Cardinality(S \ {x}) \in Nat
           /\ Cardinality(S) \in Nat
           /\ Cardinality(S \ {x}) = Cardinality(S) - 1
<1>1. IsFiniteSet(S \ {x}) /\ Cardinality(S \ {x}) = Cardinality(S) - 1  BY FS_RemoveElement
<1>2. QED  BY <1>1, FS_CardinalityType

\* What the types of the variables say of the numbers, and what the constants
\* are known to be.
LEMMA Typed ==
    ASSUME TypeOK
    PROVE  /\ MaxLosses \in Nat /\ MaxCrashes \in Nat /\ RetryCount \in Nat \ {0}
           /\ losses \in Nat /\ losses <= MaxLosses
           /\ NoTask \notin Task /\ NoOne \notin Worker
           /\ Unborn # Deleted /\ Unborn \notin Desc /\ Deleted \notin Desc
           /\ board \in [Task -> Place]
           /\ {"preparing", "pending", "running", "complete"} \subseteq Body
BY ClaimConstants, MarkersDiffer DEF TypeOK

\* The requests of workers and posters are tickets.
LEMMA TicketsTyped ==
    ASSUME NEW w \in Worker
    PROVE  /\ Ticket(w, "running") \in Desc
           /\ Ticket(NoOne, "complete") \in Desc
           /\ Ticket(NoOne, "pending") \in Desc
           /\ Ticket(NoOne, "preparing") \in Desc
BY ClaimConstants DEF Ticket, Desc

\* The same without a worker.
LEMMA PostingsTyped ==
    /\ Ticket(NoOne, "pending") \in Desc
    /\ Ticket(NoOne, "preparing") \in Desc
BY ClaimConstants DEF Ticket, Desc

\* A worker's move keeps its variables' types and leaves other workers alone.
LEMMA WorkerMoves ==
    ASSUME TypeOK, NEW w \in Worker,
           NEW place \in {"look", "claim", "run", "report", "dead"},
           NEW t \in Task \cup {NoTask},
           WorkerAt(w, place, t)
    PROVE  /\ wpc' \in [Worker -> {"look", "claim", "run", "report", "dead"}]
           /\ wtask' \in [Worker -> Task \cup {NoTask}]
           /\ wtries' \in [Worker -> 0 .. RetryCount - 1]
           /\ wpc'[w] = place
           /\ wtask'[w] = t
           /\ \A x \in Worker \ {w} : wpc'[x] = wpc[x] /\ wtask'[x] = wtask[x]
<1>1. 0 \in 0 .. RetryCount - 1  BY Typed
<1>2. QED  BY <1>1 DEF TypeOK, WorkerAt

\* So does another attempt.
LEMMA WorkerRetries ==
    ASSUME TypeOK, NEW w \in Worker, WorkerTriesAgain(w)
    PROVE  /\ wpc' \in [Worker -> {"look", "claim", "run", "report", "dead"}]
           /\ wtask' \in [Worker -> Task \cup {NoTask}]
           /\ wtries' \in [Worker -> 0 .. RetryCount - 1]
           /\ wpc' = wpc
           /\ wtask' = wtask
<1>1. wtries[w] + 1 \in 0 .. RetryCount - 1
  <2>1. wtries[w] \in 0 .. RetryCount - 1  BY DEF TypeOK
  <2>2. QED  BY <2>1, Typed DEF WorkerTriesAgain, LastAttempt
<1>2. QED  BY <1>1 DEF TypeOK, WorkerTriesAgain

\* A poster's move keeps its variables' types and leaves other posters alone.
LEMMA PosterMoves ==
    ASSUME TypeOK, NEW p \in Poster,
           NEW place \in {"create", "post", "poll", "delete", "done"},
           NEW t \in Task \cup {NoTask},
           PosterAt(p, place, t)
    PROVE  /\ ppc' \in [Poster -> {"create", "post", "poll", "delete", "done"}]
           /\ ptask' \in [Poster -> Task \cup {NoTask}]
           /\ ptries' \in [Poster -> 0 .. RetryCount - 1]
           /\ ppc'[p] = place
           /\ ptask'[p] = t
           /\ \A q \in Poster \ {p} : ppc'[q] = ppc[q] /\ ptask'[q] = ptask[q]
<1>1. 0 \in 0 .. RetryCount - 1  BY Typed
<1>2. QED  BY <1>1 DEF TypeOK, PosterAt

\* A poster that tries again is where it was, or starts over.
LEMMA PosterRetries ==
    ASSUME TypeOK, NEW p \in Poster, PosterTriesAgain(p)
    PROVE  /\ ppc' \in [Poster -> {"create", "post", "poll", "delete", "done"}]
           /\ ptask' \in [Poster -> Task \cup {NoTask}]
           /\ ptries' \in [Poster -> 0 .. RetryCount - 1]
           /\ (ppc'[p] = ppc[p] /\ ptask'[p] = ptask[p]) \/ ppc'[p] = "create"
           /\ \A q \in Poster \ {p} : ppc'[q] = ppc[q] /\ ptask'[q] = ptask[q]
<1>1. CASE LastAttempt(ptries[p]) /\ PosterAt(p, "create", NoTask)
  BY <1>1, PosterMoves
<1>2. CASE /\ ~LastAttempt(ptries[p])
           /\ ptries' = [ptries EXCEPT ![p] = @ + 1]
           /\ UNCHANGED <<ppc, ptask>>
  <2>1. ptries[p] + 1 \in 0 .. RetryCount - 1
    <3>1. ptries[p] \in 0 .. RetryCount - 1  BY DEF TypeOK
    <3>2. QED  BY <1>2, <3>1, Typed DEF LastAttempt
  <2>2. QED  BY <1>2, <2>1 DEF TypeOK
<1>3. QED  BY <1>1, <1>2 DEF PosterTriesAgain

\* Putting a posted or claimed ticket on the board makes no ticket fresh.
LEMMA ReplacedStays ==
    ASSUME TypeOK, NEW t \in Task, NEW d \in Desc, d.body # "preparing",
           Replace(t, d)
    PROVE  /\ board' \in [Task -> Place]
           /\ TicketsStay
           /\ board'[t] = d /\ Live(t) /\ Live(t)' /\ ~Fresh(t)'
           /\ \A u \in Task \ {t} : board'[u] = board[u]
<1>1. board \in [Task -> Place]  BY DEF TypeOK
<1>2. board' = [board EXCEPT ![t] = d] /\ Live(t)  BY DEF Replace
<1>3. board'[t] = d /\ \A u \in Task \ {t} : board'[u] = board[u]  BY <1>1, <1>2
<1>4. board' \in [Task -> Place]  BY <1>1, <1>2 DEF Place
<1>5. d # Ticket(NoOne, "preparing")  BY DEF Ticket
<1>6. TicketsStay  BY <1>3, <1>5, Typed DEF TicketsStay, Fresh
<1>7. QED  BY <1>2, <1>3, <1>4, <1>5, <1>6 DEF Live, Fresh

\* The types after an attempt, whatever became of it; one that failed did
\* nothing, or took effect, or was queued, the latter two at the cost of a loss.
LEMMA AttemptTyped ==
    ASSUME TypeOK, QueueFits, NEW t \in Task, NEW d \in Desc, d.body # "preparing",
           board[t] # Unborn,
           d.assignee # NoOne => ~Fresh(t),
           Accepted(t, d) \/ Failed(t, d)
    PROVE  /\ board' \in [Task -> Place]
           /\ late' \in SUBSET [task : Task, new : Desc, id : 1 .. MaxLosses]
           /\ losses' \in 0 .. MaxLosses
           /\ TicketsStay
           /\ QueueFits'
<1>1. CASE UNCHANGED <<board, late, losses>>
  BY <1>1 DEF TypeOK, TicketsStay, QueueFits, Fresh
<1>2. CASE Replace(t, d) /\ UNCHANGED <<late, losses>>
  <2>1. board' \in [Task -> Place] /\ TicketsStay  BY <1>2, ReplacedStays
  <2>2. QueueFits'
    <3>1. \A m \in late : m.task \in Task  BY DEF TypeOK
    <3>2. QED  BY <1>2, <2>1, <3>1 DEF QueueFits, TicketsStay
  <2>3. QED  BY <1>2, <2>1, <2>2 DEF TypeOK
<1>3. CASE Lost(t, d)
  <2>1. losses' = losses + 1 /\ losses' \in 0 .. MaxLosses /\ losses' \in 1 .. MaxLosses
    BY <1>3, Typed DEF Lost
  <2>2. \A m \in late : m.task \in Task  BY DEF TypeOK
  <2>3. CASE UNCHANGED <<board, late>>
    BY <2>1, <2>3 DEF TypeOK, TicketsStay, QueueFits, Fresh
  <2>4. CASE Replace(t, d) /\ UNCHANGED late
    <3>1. board' \in [Task -> Place] /\ TicketsStay  BY <2>4, ReplacedStays
    <3>2. QueueFits'  BY <2>2, <2>4, <3>1 DEF QueueFits, TicketsStay
    <3>3. QED  BY <2>1, <2>4, <3>1, <3>2 DEF TypeOK
  <2>5. CASE /\ late' = late \cup {[task |-> t, new |-> d, id |-> losses']}
             /\ UNCHANGED board
    <3>1. late' \in SUBSET [task : Task, new : Desc, id : 1 .. MaxLosses]
      BY <2>1, <2>5 DEF TypeOK
    <3>2. IsFiniteSet(late')  BY <2>5, FS_AddElement DEF QueueFits
    <3>3. QueueFits'  BY <2>5, <3>2 DEF QueueFits, Fresh
    <3>4. QED  BY <2>1, <2>5, <3>1, <3>3 DEF TypeOK, TicketsStay, Fresh
  <2>6. QED  BY <1>3, <2>3, <2>4, <2>5 DEF Lost
<1>4. QED  BY <1>1, <1>2, <1>3 DEF Accepted, Failed, Refused

\* Workers still know their tickets if the board is not set back and the one
\* that moves knows its own.
LEMMA WorkersKnowStill ==
    ASSUME TypeOK, WorkersKnow, TicketsStay, NEW w \in Worker, NEW t,
           \A x \in Worker \ {w} : wpc'[x] = wpc[x] /\ wtask'[x] = wtask[x],
           wpc'[w] \in {"claim", "run", "report"} =>
               wtask'[w] = t /\ t \in Task /\ board[t] # Unborn /\ ~Fresh(t)
    PROVE  WorkersKnow'
<1>1. SUFFICES ASSUME NEW x \in Worker, wpc'[x] \in {"claim", "run", "report"}
               PROVE  /\ wtask'[x] \in Task
                      /\ board'[wtask'[x]] # Unborn
                      /\ ~Fresh(wtask[x])'
  BY DEF WorkersKnow
<1>2. PICK u : u = wtask'[x]  OBVIOUS
<1>3. u \in Task /\ board[u] # Unborn /\ ~Fresh(u)  BY <1>1, <1>2 DEF WorkersKnow
<1>4. board'[u] # Unborn /\ board'[u] # Ticket(NoOne, "preparing")
  BY <1>3 DEF TicketsStay, Fresh
<1>5. QED  BY <1>2, <1>3, <1>4 DEF Fresh

\* Posters still know their tickets if none of them gets a new one.
LEMMA PostersKnowStill ==
    ASSUME TypeOK, PostersKnow, TicketsStay,
           \A p \in Poster : ppc'[p] \in {"post", "poll", "delete"} =>
               /\ ptask'[p] = ptask[p]
               /\ ppc[p] \in {"post", "poll", "delete"}
               /\ ppc'[p] = "post" => ppc[p] = "post"
    PROVE  PostersKnow'
<1>1. ASSUME NEW p \in Poster, ppc'[p] \in {"post", "poll", "delete"}
      PROVE  ptask'[p] \in Task /\ board'[ptask'[p]] # Unborn
  BY <1>1 DEF PostersKnow, TicketsStay
<1>2. ASSUME NEW p \in Poster, NEW q \in Poster, NEW t \in Task,
             Posting(p, t)', Posting(q, t)'
      PROVE  p = q
  BY <1>2 DEF PostersKnow, Posting
<1>3. QED  BY <1>1, <1>2 DEF PostersKnow

-----------------------------------------------------------------------------
(* Who is forgotten *)

\* The sets that the debts of a ticket count are finite, and at most one
\* holder is not forgotten.
LEMMA Split ==
    ASSUME IndInv, NEW t \in Task
    PROVE  /\ IsFiniteSet(Holders(t)) /\ Cardinality(Holders(t)) \in Nat
           /\ Forgotten(t) = Holders(t) \ {board[t].assignee}
           /\ IsFiniteSet(Forgotten(t)) /\ Cardinality(Forgotten(t)) \in Nat
           /\ Cardinality(Holders(t)) <= Cardinality(Forgotten(t)) + 1
           /\ IsFiniteSet(Releases(t)) /\ Cardinality(Releases(t)) \in Nat
           /\ Reposts(t) \in {0, 1}
           /\ losses \in Nat
<1>1. IsFiniteSet(Holders(t))  BY DEF IndInv, DebtsArePaid, DebtIsPaid
<1>2. Forgotten(t) = Holders(t) \ {board[t].assignee}  BY DEF Forgotten
<1>3. Holders(t) \subseteq Forgotten(t) \cup {board[t].assignee}  BY <1>2
<1>4. IsFiniteSet(Forgotten(t)) /\ Cardinality(Forgotten(t)) \in Nat
  BY <1>1, <1>2, NoMore
<1>5. /\ Cardinality(Holders(t)) \in Nat
      /\ Cardinality(Holders(t)) <= Cardinality(Forgotten(t)) + 1
  BY <1>3, <1>4, OneMore
<1>6. IsFiniteSet(Releases(t)) /\ Cardinality(Releases(t)) \in Nat
  <2>1. IsFiniteSet(late)  BY DEF IndInv, QueueFits
  <2>2. Releases(t) \subseteq late  BY DEF Releases
  <2>3. QED  BY <2>1, <2>2, NoMore
<1>7. losses \in Nat  BY Typed DEF IndInv
<1>8. QED  BY <1>1, <1>2, <1>4, <1>5, <1>6, <1>7 DEF Reposts

\* Whether or not a ticket is live, it has one holder more than losses at most.
LEMMA HoldersAreFew ==
    ASSUME IndInv, NEW t \in Task
    PROVE  Cardinality(Holders(t)) <= 1 + losses
<1>1. CASE Live(t)
  <2>1. Cardinality(Forgotten(t)) + Cardinality(Releases(t)) + Reposts(t) <= losses
    BY <1>1 DEF IndInv, DebtsArePaid, DebtIsPaid
  <2>2. QED  BY <2>1, Split
<1>2. QED  BY <1>1 DEF IndInv, DebtsArePaid, DebtIsPaid

\* A ticket that was not posted has no holder.
LEMMA FreshIsFree ==
    ASSUME IndInv, NEW t \in Task, Fresh(t) \/ board[t] = Unborn
    PROVE  Holders(t) = {}
BY DEF IndInv, WorkersKnow, Holders

\* A ticket that stays where it is, with no new holder, queued request or
\* poster, is still paid for.
LEMMA DebtStays ==
    ASSUME IndInv, NEW t \in Task,
           board'[t] = board[t],
           Holders(t)' \subseteq Holders(t),
           Releases(t)' \subseteq Releases(t),
           \A p \in Poster : Posting(p, t)' => Posting(p, t),
           losses' \in Nat, losses <= losses'
    PROVE  DebtIsPaid(t)'
<1>1. /\ IsFiniteSet(Holders(t)') /\ Cardinality(Holders(t)') \in Nat
      /\ Cardinality(Holders(t)') <= Cardinality(Holders(t))
  BY Split, NoMore
<1>2. Forgotten(t)' \subseteq Forgotten(t)  BY DEF Forgotten
<1>3. /\ Cardinality(Forgotten(t)') \in Nat
      /\ Cardinality(Forgotten(t)') <= Cardinality(Forgotten(t))
  BY <1>2, Split, NoMore
<1>4. /\ Cardinality(Releases(t)') \in Nat
      /\ Cardinality(Releases(t)') <= Cardinality(Releases(t))
  BY Split, NoMore
<1>5. Reposts(t)' \in {0, 1} /\ Reposts(t)' <= Reposts(t)
  BY DEF Reposts, Fresh
<1>6. /\ Live(t)' <=> Live(t)
      /\ Live(t) => Cardinality(Forgotten(t)) + Cardinality(Releases(t))
                        + Reposts(t) <= losses
      /\ ~Live(t) => Cardinality(Holders(t)) <= 1 + losses
  BY DEF IndInv, DebtsArePaid, DebtIsPaid, Live
<1>7. QED  BY <1>1, <1>3, <1>4, <1>5, <1>6, Split DEF DebtIsPaid

\* An attempt on t that failed: at the cost of a loss it may have made a
\* holder forgotten, posted the ticket, or left a request in the queue.
LEMMA FailedIsPaid ==
    ASSUME IndInv, NEW t \in Task, NEW d \in Desc, d.body # "preparing",
           Failed(t, d),
           Holders(t)' \subseteq Holders(t),
           \A p \in Poster : Posting(p, t)' => Posting(p, t)
    PROVE  DebtIsPaid(t)'
<1>1. losses \in Nat  BY Typed DEF IndInv
<1>2. CASE UNCHANGED <<board, late>> /\ losses' \in {losses, losses + 1}
  <2>1. Releases(t)' = Releases(t)  BY <1>2 DEF Releases
  <2>2. losses' \in Nat /\ losses <= losses'  BY <1>1, <1>2
  <2>3. QED  BY <1>2, <2>1, <2>2, DebtStays
<1>3. CASE Replace(t, d) /\ UNCHANGED late /\ losses' = losses + 1
  <2>1. Live(t) /\ Live(t)' /\ ~Fresh(t)'  BY <1>3, ReplacedStays DEF IndInv
  <2>2. IsFiniteSet(Holders(t)')  BY Split, NoMore
  <2>3. Cardinality(Forgotten(t)) + Cardinality(Releases(t)) + Reposts(t) <= losses
    BY <2>1 DEF IndInv, DebtsArePaid, DebtIsPaid
  <2>4. Releases(t)' = Releases(t)  BY <1>3 DEF Releases
  <2>5. CASE Fresh(t)
    <3>1. Forgotten(t)' = {}  BY <2>5, FreshIsFree DEF Forgotten
    <3>2. Cardinality(Forgotten(t)') = 0  BY <3>1, FS_EmptySet
    <3>3. Reposts(t)' \in {0, 1}  BY DEF Reposts
    <3>4. QED  BY <1>1, <1>3, <2>1, <2>2, <2>3, <2>4, <3>2, <3>3, Split DEF DebtIsPaid
  <2>6. CASE ~Fresh(t)
    <3>1. Forgotten(t)' \subseteq Forgotten(t) \cup {board[t].assignee}
      BY Split DEF Forgotten
    <3>2. /\ Cardinality(Forgotten(t)') \in Nat
          /\ Cardinality(Forgotten(t)') <= Cardinality(Forgotten(t)) + 1
      BY <3>1, Split, OneMore
    <3>3. Reposts(t)' \in {0, 1} /\ Reposts(t)' <= Reposts(t)
      BY <2>1, <2>6 DEF Reposts
    <3>4. QED  BY <1>1, <1>3, <2>1, <2>2, <2>3, <2>4, <3>2, <3>3, Split DEF DebtIsPaid
  <2>7. QED  BY <2>5, <2>6
<1>4. CASE /\ losses' = losses + 1
           /\ late' = late \cup {[task |-> t, new |-> d, id |-> losses']}
           /\ UNCHANGED board
  <2>1. IsFiniteSet(Holders(t)') /\ Cardinality(Holders(t)') \in Nat
        /\ Cardinality(Holders(t)') <= Cardinality(Holders(t))
    BY Split, NoMore
  <2>2. Forgotten(t)' \subseteq Forgotten(t)  BY <1>4 DEF Forgotten
  <2>3. /\ Cardinality(Forgotten(t)') \in Nat
        /\ Cardinality(Forgotten(t)') <= Cardinality(Forgotten(t))
    BY <2>2, Split, NoMore
  <2>4. Releases(t)' \subseteq
            Releases(t) \cup {[task |-> t, new |-> d, id |-> losses']}
    BY <1>4 DEF Releases
  <2>5. /\ Cardinality(Releases(t)') \in Nat
        /\ Cardinality(Releases(t)') <= Cardinality(Releases(t)) + 1
    BY <2>4, Split, OneMore
  <2>6. Reposts(t)' \in {0, 1} /\ Reposts(t)' <= Reposts(t)
    BY <1>4 DEF Reposts, Fresh
  <2>7. /\ Live(t)' <=> Live(t)
        /\ Live(t) => Cardinality(Forgotten(t)) + Cardinality(Releases(t))
                          + Reposts(t) <= losses
        /\ ~Live(t) => Cardinality(Holders(t)) <= 1 + losses
    BY <1>4 DEF IndInv, DebtsArePaid, DebtIsPaid, Live
  <2>8. QED  BY <1>1, <1>4, <2>1, <2>3, <2>5, <2>6, <2>7, Split DEF DebtIsPaid
<1>5. QED  BY <1>2, <1>3, <1>4 DEF Failed, Refused, Lost

\* Nothing else is touched by an attempt, whatever became of it.
LEMMA AttemptLeavesOthers ==
    ASSUME IndInv, NEW t \in Task, NEW d \in Desc, d.body # "preparing",
           Accepted(t, d) \/ Failed(t, d),
           NEW u \in Task \ {t},
           Holders(u)' \subseteq Holders(u),
           \A p \in Poster : Posting(p, u)' => Posting(p, u)
    PROVE  DebtIsPaid(u)'
<1>1. board'[u] = board[u]
  <2>1. CASE Replace(t, d)  BY <2>1, ReplacedStays DEF IndInv
  <2>2. QED  BY <2>1 DEF Accepted, Failed, Refused, Lost
<1>2. Releases(u)' = Releases(u)
  <2>1. CASE late' = late \cup {[task |-> t, new |-> d, id |-> losses']}
    BY <2>1 DEF Releases
  <2>2. QED  BY <2>1 DEF Accepted, Failed, Refused, Lost, Releases
<1>3. losses' \in {losses, losses + 1}  BY DEF Accepted, Failed, Refused, Lost
<1>4. losses' \in Nat /\ losses <= losses'  BY <1>3, Split
<1>5. QED  BY <1>1, <1>2, <1>4, DebtStays

-----------------------------------------------------------------------------
(* One step *)

\* The invariant holds at the start.
LEMMA InvInit == Init => IndInv
<1> SUFFICES ASSUME Init PROVE IndInv  OBVIOUS
<1>1. TypeOK  BY ClaimConstants DEF Init, Empty, TypeOK, Place
<1>2. WorkersKnow  BY DEF Init, WorkersKnow
<1>3. PostersKnow  BY DEF Init, PostersKnow, Posting
<1>4. QueueFits  BY FS_EmptySet DEF Init, QueueFits
<1>5. ASSUME NEW t \in Task PROVE DebtIsPaid(t)
  <2>1. Holders(t) = {}  BY DEF Init, Holders
  <2>2. ~Live(t)  BY MarkersDiffer DEF Init, Empty, Live
  <2>3. QED  BY <2>1, <2>2, FS_EmptySet DEF DebtIsPaid, Init
<1>6. QED  BY <1>1, <1>2, <1>3, <1>4, <1>5 DEF IndInv, DebtsArePaid

\* A worker that looks for a ticket takes on one that was posted.
LEMMA FindStep ==
    ASSUME IndInv, NEW w \in Worker, FindTask(w)
    PROVE  IndInv'
<1> USE DEF IndInv
<1>1. PICK t \in Task : UpForGrabs(board[t]) /\ WorkerAt(w, "claim", t)
  BY DEF FindTask
<1>2. wpc[w] = "look" /\ UNCHANGED <<board, pvars, late, losses, crashes>>
  BY DEF FindTask
<1>3. /\ wpc' \in [Worker -> {"look", "claim", "run", "report", "dead"}]
      /\ wtask' \in [Worker -> Task \cup {NoTask}]
      /\ wtries' \in [Worker -> 0 .. RetryCount - 1]
      /\ wpc'[w] = "claim" /\ wtask'[w] = t
      /\ \A x \in Worker \ {w} : wpc'[x] = wpc[x] /\ wtask'[x] = wtask[x]
  BY <1>1, WorkerMoves
<1>4. TypeOK'  BY <1>2, <1>3 DEF TypeOK, pvars
<1>5. TicketsStay  BY <1>2 DEF TicketsStay, Fresh
<1>6. board[t] # Unborn /\ ~Fresh(t)
  BY <1>1, PostingsTyped, MarkersDiffer DEF UpForGrabs, Fresh, Ticket
<1>7. WorkersKnow'  BY <1>3, <1>5, <1>6, WorkersKnowStill
<1>8. PostersKnow'  BY <1>2, <1>5, PostersKnowStill DEF pvars
<1>9. QueueFits'  BY <1>2 DEF QueueFits, Fresh
<1>10. ASSUME NEW u \in Task PROVE DebtIsPaid(u)'
  <2>1. Holders(u)' \subseteq Holders(u)  BY <1>3 DEF Holders
  <2>2. Releases(u)' = Releases(u)  BY <1>2 DEF Releases
  <2>3. \A p \in Poster : Posting(p, u)' => Posting(p, u)
    BY <1>2 DEF Posting, pvars
  <2>4. QED  BY <1>2, <2>1, <2>2, <2>3, Split, DebtStays
<1>11. QED  BY <1>4, <1>7, <1>8, <1>9, <1>10 DEF DebtsArePaid

\* What a worker does to the invariant when its attempt has failed, wherever
\* that leaves it.
LEMMA WorkerFailed ==
    ASSUME IndInv, NEW w \in Worker, NEW d \in Desc, d.body # "preparing",
           wpc[w] \in {"claim", "report"},
           Failed(wtask[w], d),
           UNCHANGED <<pvars, crashes>>,
           \/ WorkerTriesAgain(w)
           \/ WorkerAt(w, "look", NoTask)
           \/ wpc[w] = "report" /\ WorkerAt(w, "report", wtask[w])
    PROVE  IndInv'
<1> USE DEF IndInv
<1>1. PICK t \in Task : t = wtask[w]  BY DEF WorkersKnow
<1>2. board[t] # Unborn /\ ~Fresh(t)  BY <1>1 DEF WorkersKnow
<1>3. /\ wpc' \in [Worker -> {"look", "claim", "run", "report", "dead"}]
      /\ wtask' \in [Worker -> Task \cup {NoTask}]
      /\ wtries' \in [Worker -> 0 .. RetryCount - 1]
      /\ (wpc'[w] = wpc[w] /\ wtask'[w] = wtask[w]) \/ wpc'[w] = "look"
      /\ \A x \in Worker \ {w} : wpc'[x] = wpc[x] /\ wtask'[x] = wtask[x]
  <2>1. CASE WorkerTriesAgain(w)  BY <2>1, WorkerRetries
  <2>2. CASE WorkerAt(w, "look", NoTask)  BY <2>2, WorkerMoves
  <2>3. CASE wpc[w] = "report" /\ WorkerAt(w, "report", wtask[w])
    BY <1>1, <2>3, WorkerMoves
  <2>4. QED  BY <2>1, <2>2, <2>3
<1>4. /\ board' \in [Task -> Place]
      /\ late' \in SUBSET [task : Task, new : Desc, id : 1 .. MaxLosses]
      /\ losses' \in 0 .. MaxLosses
      /\ TicketsStay
      /\ QueueFits'
  BY <1>1, <1>2, AttemptTyped
<1>5. TypeOK'  BY <1>3, <1>4 DEF TypeOK, pvars
<1>6. WorkersKnow'  BY <1>1, <1>2, <1>3, <1>4, WorkersKnowStill
<1>7. PostersKnow'  BY <1>4, PostersKnowStill DEF pvars
<1>8. ASSUME NEW u \in Task PROVE DebtIsPaid(u)'
  <2>1. Holders(u)' \subseteq Holders(u)  BY <1>3 DEF Holders
  <2>2. \A p \in Poster : Posting(p, u)' => Posting(p, u)
    BY DEF Posting, pvars
  <2>3. CASE u = t  BY <1>1, <2>1, <2>2, <2>3, FailedIsPaid
  <2>4. CASE u # t  BY <1>1, <2>1, <2>2, <2>4, AttemptLeavesOthers
  <2>5. QED  BY <2>3, <2>4
<1>9. QED  BY <1>4, <1>5, <1>6, <1>7, <1>8 DEF DebtsArePaid

\* A claim that is accepted makes its worker the assignee; whoever else holds
\* the ticket was forgotten before.
LEMMA ClaimAccepted ==
    ASSUME IndInv, NEW w \in Worker, wpc[w] = "claim",
           Accepted(wtask[w], Ticket(w, "running")),
           WorkerAt(w, "run", wtask[w]),
           UNCHANGED <<pvars, crashes>>
    PROVE  IndInv'
<1> USE DEF IndInv
<1> DEFINE d == Ticket(w, "running")
<1>1. PICK t \in Task : t = wtask[w]  BY DEF WorkersKnow
<1>2. board[t] # Unborn /\ ~Fresh(t)  BY <1>1 DEF WorkersKnow
<1>3. d \in Desc /\ d.assignee = w /\ d.body = "running"
  BY TicketsTyped DEF Ticket
<1>4. Accepted(t, d)  BY <1>1
<1> HIDE DEF d
<1>5. Replace(t, d) /\ UNCHANGED <<late, losses>>  BY <1>4 DEF Accepted
<1>6. /\ wpc' \in [Worker -> {"look", "claim", "run", "report", "dead"}]
      /\ wtask' \in [Worker -> Task \cup {NoTask}]
      /\ wtries' \in [Worker -> 0 .. RetryCount - 1]
      /\ wpc'[w] = "run" /\ wtask'[w] = t
      /\ \A x \in Worker \ {w} : wpc'[x] = wpc[x] /\ wtask'[x] = wtask[x]
  BY <1>1, WorkerMoves
<1>7. /\ board' \in [Task -> Place]
      /\ late' \in SUBSET [task : Task, new : Desc, id : 1 .. MaxLosses]
      /\ losses' \in 0 .. MaxLosses
      /\ TicketsStay
      /\ QueueFits'
  BY <1>2, <1>3, <1>4, AttemptTyped
<1>8. TypeOK'  BY <1>6, <1>7 DEF TypeOK, pvars
<1>9. WorkersKnow'  BY <1>2, <1>6, <1>7, WorkersKnowStill
<1>10. PostersKnow'  BY <1>7, PostersKnowStill DEF pvars
<1>11. ASSUME NEW u \in Task PROVE DebtIsPaid(u)'
  <2>1. \A p \in Poster : Posting(p, u)' => Posting(p, u)
    BY DEF Posting, pvars
  <2>2. CASE u = t
    <3>1. board'[t] = d /\ Live(t) /\ Live(t)' /\ ~Fresh(t)'
      BY <1>3, <1>5, ReplacedStays
    <3>2. Holders(t)' \subseteq Holders(t) \cup {w}  BY <1>6 DEF Holders
    <3>3. IsFiniteSet(Holders(t)')  BY <3>2, Split, OneMore
    <3>4. board[t].assignee \notin Worker \ {w}
      BY <1>3, <1>5 DEF Replace, Handover
    <3>5. Forgotten(t)' \subseteq Forgotten(t)
      BY <1>3, <3>1, <3>2, <3>4 DEF Forgotten, Holders
    <3>6. /\ Cardinality(Forgotten(t)') \in Nat
          /\ Cardinality(Forgotten(t)') <= Cardinality(Forgotten(t))
      BY <3>5, Split, NoMore
    <3>7. Releases(t)' = Releases(t)  BY <1>5 DEF Releases
    <3>8. Reposts(t)' \in {0, 1} /\ Reposts(t)' <= Reposts(t)
      BY <1>2, <2>1, <2>2 DEF Reposts
    <3>9. Cardinality(Forgotten(t)) + Cardinality(Releases(t)) + Reposts(t) <= losses
      BY <3>1 DEF DebtsArePaid, DebtIsPaid
    <3>10. QED
      BY <1>5, <2>2, <3>1, <3>3, <3>6, <3>7, <3>8, <3>9, Split DEF DebtIsPaid
  <2>3. CASE u # t
    <3>1. Holders(u)' \subseteq Holders(u)  BY <1>6, <2>3 DEF Holders
    <3>2. QED  BY <1>3, <1>4, <2>1, <2>3, <3>1, AttemptLeavesOthers
  <2>4. QED  BY <2>2, <2>3
<1>12. QED  BY <1>7, <1>8, <1>9, <1>10, <1>11 DEF DebtsArePaid

\* A claim attempt, whatever became of it.
LEMMA ClaimStep ==
    ASSUME IndInv, NEW w \in Worker, ClaimTask(w)
    PROVE  IndInv'
<1>1. Ticket(w, "running") \in Desc /\ Ticket(w, "running").body = "running"
  BY TicketsTyped DEF Ticket
<1>2. wpc[w] = "claim" /\ UNCHANGED <<pvars, crashes>>  BY DEF ClaimTask
<1>3. CASE Accepted(wtask[w], Ticket(w, "running")) /\ WorkerAt(w, "run", wtask[w])
  BY <1>2, <1>3, ClaimAccepted
<1>4. CASE /\ Failed(wtask[w], Ticket(w, "running"))
           /\ WorkerTriesAgain(w) \/ WorkerAt(w, "look", NoTask)
  BY <1>1, <1>2, <1>4, WorkerFailed
<1>5. QED  BY <1>3, <1>4 DEF ClaimTask

\* The work itself touches no ticket.
LEMMA WorkStep ==
    ASSUME IndInv, NEW w \in Worker, Work(w)
    PROVE  IndInv'
<1> USE DEF IndInv
<1>1. PICK t \in Task : t = wtask[w] /\ board[t] # Unborn /\ ~Fresh(t)
  BY DEF WorkersKnow, Work
<1>2. wpc[w] = "run" /\ UNCHANGED <<board, pvars, late, losses, crashes>>
  BY DEF Work
<1>3. /\ wpc' \in [Worker -> {"look", "claim", "run", "report", "dead"}]
      /\ wtask' \in [Worker -> Task \cup {NoTask}]
      /\ wtries' \in [Worker -> 0 .. RetryCount - 1]
      /\ wpc'[w] = "report" /\ wtask'[w] = t
      /\ \A x \in Worker \ {w} : wpc'[x] = wpc[x] /\ wtask'[x] = wtask[x]
  BY <1>1, WorkerMoves DEF Work
<1>4. TypeOK'  BY <1>2, <1>3 DEF TypeOK, pvars
<1>5. TicketsStay  BY <1>2 DEF TicketsStay, Fresh
<1>6. WorkersKnow'  BY <1>1, <1>3, <1>5, WorkersKnowStill
<1>7. PostersKnow'  BY <1>2, <1>5, PostersKnowStill DEF pvars
<1>8. QueueFits'  BY <1>2 DEF QueueFits, Fresh
<1>9. ASSUME NEW u \in Task PROVE DebtIsPaid(u)'
  <2>1. Holders(u)' \subseteq Holders(u)  BY <1>1, <1>2, <1>3 DEF Holders
  <2>2. Releases(u)' = Releases(u)  BY <1>2 DEF Releases
  <2>3. \A p \in Poster : Posting(p, u)' => Posting(p, u)
    BY <1>2 DEF Posting, pvars
  <2>4. QED  BY <1>2, <2>1, <2>2, <2>3, Split, DebtStays
<1>10. QED  BY <1>4, <1>6, <1>7, <1>8, <1>9 DEF DebtsArePaid

\* A report that is accepted takes its worker and the assignee off the ticket:
\* if they are two, one is forgotten instead of the other.
LEMMA ReportAccepted ==
    ASSUME IndInv, NEW w \in Worker, wpc[w] = "report",
           Accepted(wtask[w], Ticket(NoOne, "complete")),
           WorkerAt(w, "look", NoTask),
           UNCHANGED <<pvars, crashes>>
    PROVE  IndInv'
<1> USE DEF IndInv
<1> DEFINE d == Ticket(NoOne, "complete")
<1>1. PICK t \in Task : t = wtask[w]  BY DEF WorkersKnow
<1>2. board[t] # Unborn /\ ~Fresh(t)  BY <1>1 DEF WorkersKnow
<1>3. d \in Desc /\ d.body = "complete"
  BY TicketsTyped DEF Ticket
<1>4. Accepted(t, d)  BY <1>1
<1> HIDE DEF d
<1>5. Replace(t, d) /\ UNCHANGED <<late, losses>>  BY <1>4 DEF Accepted
<1>6. /\ wpc' \in [Worker -> {"look", "claim", "run", "report", "dead"}]
      /\ wtask' \in [Worker -> Task \cup {NoTask}]
      /\ wtries' \in [Worker -> 0 .. RetryCount - 1]
      /\ wpc'[w] = "look"
      /\ \A x \in Worker \ {w} : wpc'[x] = wpc[x] /\ wtask'[x] = wtask[x]
  BY WorkerMoves
<1>7. /\ board' \in [Task -> Place]
      /\ late' \in SUBSET [task : Task, new : Desc, id : 1 .. MaxLosses]
      /\ losses' \in 0 .. MaxLosses
      /\ TicketsStay
      /\ QueueFits'
  BY <1>2, <1>3, <1>4, AttemptTyped
<1>8. TypeOK'  BY <1>6, <1>7 DEF TypeOK, pvars
<1>9. WorkersKnow'  BY <1>2, <1>6, <1>7, WorkersKnowStill
<1>10. PostersKnow'  BY <1>7, PostersKnowStill DEF pvars
<1>11. ASSUME NEW u \in Task PROVE DebtIsPaid(u)'
  <2>1. \A p \in Poster : Posting(p, u)' => Posting(p, u)
    BY DEF Posting, pvars
  <2>2. CASE u = t
    <3>1. Live(t) /\ Live(t)' /\ ~Fresh(t)'  BY <1>3, <1>5, ReplacedStays
    <3>2. w \in Holders(t)  BY <1>1 DEF Holders
    <3>3. Holders(t)' = Holders(t) \ {w}  BY <1>6 DEF Holders
    <3>4. /\ IsFiniteSet(Holders(t)') /\ Cardinality(Holders(t)') \in Nat
          /\ Cardinality(Holders(t)') = Cardinality(Holders(t)) - 1
      BY <3>2, <3>3, Split, OneLess
    <3>5. Forgotten(t)' \subseteq Holders(t)'  BY DEF Forgotten
    <3>6. /\ Cardinality(Forgotten(t)') \in Nat
          /\ Cardinality(Forgotten(t)') <= Cardinality(Forgotten(t))
      BY <3>4, <3>5, Split, NoMore
    <3>7. Releases(t)' = Releases(t)  BY <1>5 DEF Releases
    <3>8. Reposts(t)' \in {0, 1} /\ Reposts(t)' <= Reposts(t)
      BY <1>2, <2>1, <2>2 DEF Reposts
    <3>9. Cardinality(Forgotten(t)) + Cardinality(Releases(t)) + Reposts(t) <= losses
      BY <3>1 DEF DebtsArePaid, DebtIsPaid
    <3>10. QED
      BY <1>5, <2>2, <3>1, <3>4, <3>6, <3>7, <3>8, <3>9, Split DEF DebtIsPaid
  <2>3. CASE u # t
    <3>1. Holders(u)' \subseteq Holders(u)  BY <1>6, <2>3 DEF Holders
    <3>2. QED  BY <1>3, <1>4, <2>1, <2>3, <3>1, AttemptLeavesOthers
  <2>4. QED  BY <2>2, <2>3
<1>12. QED  BY <1>7, <1>8, <1>9, <1>10, <1>11 DEF DebtsArePaid

\* A report attempt, whatever became of it.
LEMMA ReportStep ==
    ASSUME IndInv, NEW w \in Worker, ReportTask(w)
    PROVE  IndInv'
<1>1. Ticket(NoOne, "complete") \in Desc /\ Ticket(NoOne, "complete").body = "complete"
  BY TicketsTyped DEF Ticket
<1>2. wpc[w] = "report" /\ UNCHANGED <<pvars, crashes>>  BY DEF ReportTask
<1>3. CASE Accepted(wtask[w], Ticket(NoOne, "complete")) /\ WorkerAt(w, "look", NoTask)
  BY <1>2, <1>3, ReportAccepted
<1>4. CASE /\ Failed(wtask[w], Ticket(NoOne, "complete"))
           /\ WorkerTriesAgain(w) \/ AfterReport(w)
  <2>1. WorkerTriesAgain(w) \/ WorkerAt(w, "look", NoTask) \/ WorkerAt(w, "report", wtask[w])
    BY <1>4 DEF AfterReport
  <2>2. QED  BY <1>1, <1>2, <1>4, <2>1, WorkerFailed
<1>5. QED  BY <1>3, <1>4 DEF ReportTask

\* A worker that dies holds nothing any more.
LEMMA CrashStep ==
    ASSUME IndInv, NEW w \in Worker, CrashWorker(w)
    PROVE  IndInv'
<1> USE DEF IndInv
<1>1. /\ crashes < MaxCrashes /\ crashes' = crashes + 1
      /\ UNCHANGED <<board, pvars, late, losses>>
  BY DEF CrashWorker
<1>2. /\ wpc' \in [Worker -> {"look", "claim", "run", "report", "dead"}]
      /\ wtask' \in [Worker -> Task \cup {NoTask}]
      /\ wtries' \in [Worker -> 0 .. RetryCount - 1]
      /\ wpc'[w] = "dead"
      /\ \A x \in Worker \ {w} : wpc'[x] = wpc[x] /\ wtask'[x] = wtask[x]
  BY WorkerMoves DEF CrashWorker
<1>3. crashes' \in 0 .. MaxCrashes  BY <1>1, Typed DEF TypeOK
<1>4. TypeOK'  BY <1>1, <1>2, <1>3 DEF TypeOK, pvars
<1>5. TicketsStay  BY <1>1 DEF TicketsStay, Fresh
<1>6. WorkersKnow'  BY <1>2, <1>5, WorkersKnowStill
<1>7. PostersKnow'  BY <1>1, <1>5, PostersKnowStill DEF pvars
<1>8. QueueFits'  BY <1>1 DEF QueueFits, Fresh
<1>9. ASSUME NEW u \in Task PROVE DebtIsPaid(u)'
  <2>1. Holders(u)' \subseteq Holders(u)  BY <1>2 DEF Holders
  <2>2. Releases(u)' = Releases(u)  BY <1>1 DEF Releases
  <2>3. \A p \in Poster : Posting(p, u)' => Posting(p, u)
    BY <1>1 DEF Posting, pvars
  <2>4. QED  BY <1>1, <2>1, <2>2, <2>3, Split, DebtStays
<1>10. QED  BY <1>4, <1>6, <1>7, <1>8, <1>9 DEF DebtsArePaid

\* Creating a ticket puts a fresh one on the board, which nobody holds.
LEMMA Created ==
    ASSUME IndInv, NEW t \in Task, Post(t, Ticket(NoOne, "preparing")),
           UNCHANGED <<wvars, late>>,
           losses' \in Nat, losses <= losses',
           \A p \in Poster, u \in Task \ {t} : Posting(p, u)' => Posting(p, u)
    PROVE  /\ board' \in [Task -> Place]
           /\ board[t] = Unborn /\ board'[t] # Unborn
           /\ TicketsStay
           /\ WorkersKnow'
           /\ QueueFits'
           /\ DebtsArePaid'
<1> USE DEF IndInv
<1> DEFINE d == Ticket(NoOne, "preparing")
<1>1. board \in [Task -> Place]  BY DEF TypeOK
<1>2. d \in Desc  BY PostingsTyped
<1>3. board[t] = Unborn /\ board' = [board EXCEPT ![t] = d]  BY DEF Post
<1>4. board' \in [Task -> Place] /\ board'[t] = d
      /\ \A u \in Task \ {t} : board'[u] = board[u]
  BY <1>1, <1>2, <1>3 DEF Place
<1>5. board'[t] # Unborn  BY <1>2, <1>4, MarkersDiffer
<1>6. TicketsStay  BY <1>3, <1>4 DEF TicketsStay, Fresh
<1>7. WorkersKnow'
  <2>1. SUFFICES ASSUME NEW x \in Worker, wpc[x] \in {"claim", "run", "report"}
                 PROVE  /\ wtask[x] \in Task
                        /\ board'[wtask[x]] # Unborn
                        /\ board'[wtask[x]] # d
    BY DEF WorkersKnow, Fresh, wvars
  <2>2. wtask[x] \in Task /\ board[wtask[x]] # Unborn /\ ~Fresh(wtask[x])
    BY <2>1 DEF WorkersKnow
  <2>3. QED  BY <1>3, <1>4, <2>2 DEF Fresh
<1>8. QueueFits'
  <2>1. \A m \in late : m.task \in Task /\ board[m.task] # Unborn
    BY DEF TypeOK, QueueFits
  <2>2. QED  BY <1>6, <2>1 DEF QueueFits, TicketsStay
<1>9. ASSUME NEW u \in Task PROVE DebtIsPaid(u)'
  <2>1. Holders(u)' = Holders(u)  BY DEF Holders, wvars
  <2>2. Releases(u)' = Releases(u)  BY DEF Releases
  <2>3. CASE u # t  BY <1>4, <2>1, <2>2, <2>3, DebtStays
  <2>4. CASE u = t
    <3>1. Holders(t)' = {}  BY <1>3, <2>1, <2>4, FreshIsFree
    <3>2. Forgotten(t)' = {}  BY <3>1 DEF Forgotten
    <3>3. Releases(t)' = {}  BY <1>3, <2>2, <2>4 DEF Releases, QueueFits
    <3>4. Reposts(t)' = 0  BY <1>4 DEF Reposts, Fresh
    <3>5. QED  BY <2>4, <3>1, <3>2, <3>3, <3>4, FS_EmptySet DEF DebtIsPaid
  <2>5. QED  BY <2>3, <2>4
<1>10. QED  BY <1>3, <1>4, <1>5, <1>6, <1>7, <1>8, <1>9 DEF DebtsArePaid

\* A created ticket is its poster's, or nobody's if the reply was lost.
LEMMA CreateStep ==
    ASSUME IndInv, NEW p \in Poster, CreateTask(p)
    PROVE  IndInv'
<1> USE DEF IndInv
<1>1. ppc[p] = "create" /\ UNCHANGED <<wvars, late, crashes>>  BY DEF CreateTask
<1>2. ASSUME NEW t \in Task, Post(t, Ticket(NoOne, "preparing")),
             ptask' = [ptask EXCEPT ![p] = t],
             ppc' = [ppc EXCEPT ![p] = "post"],
             UNCHANGED <<ptries, losses>>
      PROVE  IndInv'
  <2>1. /\ ppc' \in [Poster -> {"create", "post", "poll", "delete", "done"}]
        /\ ptask' \in [Poster -> Task \cup {NoTask}]
        /\ ppc'[p] = "post" /\ ptask'[p] = t
        /\ \A q \in Poster \ {p} : ppc'[q] = ppc[q] /\ ptask'[q] = ptask[q]
    BY <1>2 DEF TypeOK
  <2>2. \A q \in Poster, u \in Task \ {t} : Posting(q, u)' => Posting(q, u)
    BY <2>1 DEF Posting
  <2>3. /\ board' \in [Task -> Place]
        /\ board[t] = Unborn /\ board'[t] # Unborn
        /\ TicketsStay
        /\ WorkersKnow'
        /\ QueueFits'
        /\ DebtsArePaid'
    BY <1>1, <1>2, <2>2, Split, Created
  <2>4. TypeOK'  BY <1>1, <1>2, <2>1, <2>3 DEF TypeOK, wvars
  <2>5. ASSUME NEW q \in Poster, ppc'[q] \in {"post", "poll", "delete"}
        PROVE  ptask'[q] \in Task /\ board'[ptask'[q]] # Unborn
    <3>1. CASE q = p  BY <2>1, <2>3, <3>1
    <3>2. CASE q # p
      <4>1. ptask'[q] = ptask[q] /\ ptask[q] \in Task /\ board[ptask[q]] # Unborn
        BY <2>1, <2>5, <3>2 DEF PostersKnow
      <4>2. QED  BY <2>3, <4>1 DEF TicketsStay
    <3>3. QED  BY <3>1, <3>2
  <2>6. ASSUME NEW q \in Poster, NEW r \in Poster, NEW u \in Task,
               Posting(q, u)', Posting(r, u)'
        PROVE  q = r
    <3>1. CASE u = t
      <4>1. \A x \in Poster \ {p} : ~Posting(x, t)'
        BY <2>1, <2>3 DEF Posting, PostersKnow
      <4>2. QED  BY <2>6, <3>1, <4>1
    <3>2. CASE u # t  BY <2>2, <2>6, <3>2 DEF PostersKnow
    <3>3. QED  BY <3>1, <3>2
  <2>7. PostersKnow'  BY <2>5, <2>6 DEF PostersKnow
  <2>8. QED  BY <2>3, <2>4, <2>7
<1>3. ASSUME losses < MaxLosses, losses' = losses + 1,
             \/ UNCHANGED board
             \/ \E t \in Task : Post(t, Ticket(NoOne, "preparing")),
             PosterTriesAgain(p)
      PROVE  IndInv'
  <2>1. /\ ppc' \in [Poster -> {"create", "post", "poll", "delete", "done"}]
        /\ ptask' \in [Poster -> Task \cup {NoTask}]
        /\ ptries' \in [Poster -> 0 .. RetryCount - 1]
        /\ ppc'[p] = "create"
        /\ \A q \in Poster \ {p} : ppc'[q] = ppc[q] /\ ptask'[q] = ptask[q]
    BY <1>1, <1>3, PosterRetries
  <2>2. losses' \in 0 .. MaxLosses /\ losses' \in Nat /\ losses <= losses'
    BY <1>3, Typed
  <2>3. \A q \in Poster, u \in Task : Posting(q, u)' => Posting(q, u)
    BY <2>1 DEF Posting
  <2>4. /\ board' \in [Task -> Place]
        /\ TicketsStay
        /\ WorkersKnow'
        /\ QueueFits'
        /\ DebtsArePaid'
    <3>1. CASE UNCHANGED board
      <4>1. board' \in [Task -> Place] /\ TicketsStay
        BY <3>1 DEF TypeOK, TicketsStay, Fresh
      <4>2. WorkersKnow'  BY <1>1, <3>1 DEF WorkersKnow, Fresh, wvars
      <4>3. QueueFits'  BY <1>1, <3>1 DEF QueueFits, Fresh
      <4>4. ASSUME NEW u \in Task PROVE DebtIsPaid(u)'
        <5>1. Holders(u)' = Holders(u) /\ Releases(u)' = Releases(u)
          BY <1>1 DEF Holders, Releases, wvars
        <5>2. QED  BY <2>2, <2>3, <3>1, <5>1, DebtStays
      <4>5. QED  BY <4>1, <4>2, <4>3, <4>4 DEF DebtsArePaid
    <3>2. CASE \E t \in Task : Post(t, Ticket(NoOne, "preparing"))
      <4>1. PICK t \in Task : Post(t, Ticket(NoOne, "preparing"))  BY <3>2
      <4>2. QED  BY <1>1, <2>2, <2>3, <4>1, Created
    <3>3. QED  BY <1>3, <3>1, <3>2
  <2>5. TypeOK'  BY <1>1, <2>1, <2>2, <2>4 DEF TypeOK, wvars
  <2>6. PostersKnow'  BY <2>1, <2>4, PostersKnowStill
  <2>7. QED  BY <2>4, <2>5, <2>6
<1>4. QED  BY <1>2, <1>3 DEF CreateTask

\* A posting that is accepted: the first one makes the ticket known to
\* workers, a second one may make a holder forgotten, and the poster will not
\* do it again.
LEMMA PostAccepted ==
    ASSUME IndInv, NEW p \in Poster, ppc[p] = "post",
           Accepted(ptask[p], Ticket(NoOne, "pending")),
           PosterAt(p, "poll", ptask[p]),
           UNCHANGED <<wvars, crashes>>
    PROVE  IndInv'
<1> USE DEF IndInv
<1> DEFINE d == Ticket(NoOne, "pending")
<1>1. PICK t \in Task : t = ptask[p]  BY DEF PostersKnow
<1>2. board[t] # Unborn  BY <1>1 DEF PostersKnow
<1>3. d \in Desc /\ d.body = "pending" /\ d.assignee = NoOne
  BY PostingsTyped DEF Ticket
<1>4. Accepted(t, d)  BY <1>1
<1> HIDE DEF d
<1>5. Replace(t, d) /\ UNCHANGED <<late, losses>>  BY <1>4 DEF Accepted
<1>6. /\ ppc' \in [Poster -> {"create", "post", "poll", "delete", "done"}]
      /\ ptask' \in [Poster -> Task \cup {NoTask}]
      /\ ptries' \in [Poster -> 0 .. RetryCount - 1]
      /\ ppc'[p] = "poll" /\ ptask'[p] = t
      /\ \A q \in Poster \ {p} : ppc'[q] = ppc[q] /\ ptask'[q] = ptask[q]
  BY <1>1, PosterMoves
<1>7. /\ board' \in [Task -> Place]
      /\ late' \in SUBSET [task : Task, new : Desc, id : 1 .. MaxLosses]
      /\ losses' \in 0 .. MaxLosses
      /\ TicketsStay
      /\ QueueFits'
  BY <1>2, <1>3, <1>4, AttemptTyped
<1>8. TypeOK'  BY <1>6, <1>7 DEF TypeOK, wvars
<1>9. WorkersKnow'
  <2>1. SUFFICES ASSUME NEW x \in Worker, wpc[x] \in {"claim", "run", "report"}
                 PROVE  /\ wtask[x] \in Task
                        /\ board'[wtask[x]] # Unborn
                        /\ board'[wtask[x]] # Ticket(NoOne, "preparing")
    BY DEF WorkersKnow, Fresh, wvars
  <2>2. wtask[x] \in Task /\ board[wtask[x]] # Unborn /\ ~Fresh(wtask[x])
    BY <2>1 DEF WorkersKnow
  <2>3. QED  BY <1>7, <2>2 DEF TicketsStay, Fresh
<1>10. PostersKnow'  BY <1>1, <1>6, <1>7, PostersKnowStill
<1>11. ASSUME NEW u \in Task PROVE DebtIsPaid(u)'
  <2>1. Holders(u)' = Holders(u)  BY DEF Holders, wvars
  <2>2. CASE u = t
    <3>1. Live(t) /\ Live(t)'  BY <1>3, <1>5, ReplacedStays
    <3>2. Posting(p, t)  BY <1>1 DEF Posting
    <3>3. \A q \in Poster : ~Posting(q, t)'
      <4>1. \A q \in Poster \ {p} : ~Posting(q, t)  BY <3>2 DEF PostersKnow
      <4>2. QED  BY <1>6, <4>1 DEF Posting
    <3>4. Reposts(t)' = 0  BY <3>3 DEF Reposts
    <3>5. Releases(t)' = Releases(t)  BY <1>5 DEF Releases
    <3>6. Cardinality(Forgotten(t)) + Cardinality(Releases(t)) + Reposts(t) <= losses
      BY <3>1 DEF DebtsArePaid, DebtIsPaid
    <3>7. /\ Cardinality(Forgotten(t)') \in Nat
          /\ Cardinality(Forgotten(t)') <= Cardinality(Forgotten(t)) + Reposts(t)
      <4>1. CASE Fresh(t)
        <5>1. Forgotten(t)' = {}  BY <2>1, <2>2, <4>1, FreshIsFree DEF Forgotten
        <5>2. QED  BY <5>1, FS_EmptySet, Split
      <4>2. CASE ~Fresh(t)
        <5>1. Forgotten(t)' \subseteq Forgotten(t) \cup {board[t].assignee}
          BY <2>1, <2>2, Split DEF Forgotten
        <5>2. Reposts(t) = 1  BY <3>2, <4>2 DEF Reposts
        <5>3. QED  BY <5>1, <5>2, Split, OneMore
      <4>3. QED  BY <4>1, <4>2
    <3>8. QED
      BY <1>5, <2>1, <2>2, <3>1, <3>4, <3>5, <3>6, <3>7, Split DEF DebtIsPaid
  <2>3. CASE u # t
    <3>1. \A q \in Poster : Posting(q, u)' => Posting(q, u)  BY <1>6 DEF Posting
    <3>2. QED  BY <1>3, <1>4, <2>1, <2>3, <3>1, AttemptLeavesOthers
  <2>4. QED  BY <2>2, <2>3
<1>12. QED  BY <1>7, <1>8, <1>9, <1>10, <1>11 DEF DebtsArePaid

\* A posting attempt, whatever became of it.
LEMMA PostStep ==
    ASSUME IndInv, NEW p \in Poster, PostTask(p)
    PROVE  IndInv'
<1> USE DEF IndInv
<1> DEFINE d == Ticket(NoOne, "pending")
<1>1. ppc[p] = "post" /\ UNCHANGED <<wvars, crashes>>  BY DEF PostTask
<1>2. CASE Accepted(ptask[p], d) /\ PosterAt(p, "poll", ptask[p])
  BY <1>1, <1>2, PostAccepted
<1>3. CASE Failed(ptask[p], d) /\ PosterTriesAgain(p)
  <2>1. PICK t \in Task : t = ptask[p]  BY <1>1 DEF PostersKnow
  <2>2. board[t] # Unborn  BY <1>1, <2>1 DEF PostersKnow
  <2>3. d \in Desc /\ d.body = "pending" /\ d.assignee = NoOne
  BY PostingsTyped DEF Ticket
  <2>4. Failed(t, d)  BY <1>3, <2>1
  <2> HIDE DEF d
  <2>5. /\ ppc' \in [Poster -> {"create", "post", "poll", "delete", "done"}]
        /\ ptask' \in [Poster -> Task \cup {NoTask}]
        /\ ptries' \in [Poster -> 0 .. RetryCount - 1]
        /\ (ppc'[p] = ppc[p] /\ ptask'[p] = ptask[p]) \/ ppc'[p] = "create"
        /\ \A q \in Poster \ {p} : ppc'[q] = ppc[q] /\ ptask'[q] = ptask[q]
    BY <1>3, PosterRetries
  <2>6. /\ board' \in [Task -> Place]
        /\ late' \in SUBSET [task : Task, new : Desc, id : 1 .. MaxLosses]
        /\ losses' \in 0 .. MaxLosses
        /\ TicketsStay
        /\ QueueFits'
    BY <2>2, <2>3, <2>4, AttemptTyped
  <2>7. TypeOK'  BY <1>1, <2>5, <2>6 DEF TypeOK, wvars
  <2>8. WorkersKnow'
    <3>1. SUFFICES ASSUME NEW x \in Worker, wpc[x] \in {"claim", "run", "report"}
                   PROVE  /\ wtask[x] \in Task
                          /\ board'[wtask[x]] # Unborn
                          /\ board'[wtask[x]] # Ticket(NoOne, "preparing")
      BY <1>1 DEF WorkersKnow, Fresh, wvars
    <3>2. wtask[x] \in Task /\ board[wtask[x]] # Unborn /\ ~Fresh(wtask[x])
      BY <3>1 DEF WorkersKnow
    <3>3. QED  BY <2>6, <3>2 DEF TicketsStay, Fresh
  <2>9. PostersKnow'  BY <2>5, <2>6, PostersKnowStill
  <2>10. ASSUME NEW u \in Task PROVE DebtIsPaid(u)'
    <3>1. Holders(u)' = Holders(u)  BY <1>1 DEF Holders, wvars
    <3>2. \A q \in Poster : Posting(q, u)' => Posting(q, u)  BY <2>5 DEF Posting
    <3>3. CASE u = t  BY <2>3, <2>4, <3>1, <3>2, <3>3, FailedIsPaid
    <3>4. CASE u # t  BY <2>3, <2>4, <3>1, <3>2, <3>4, AttemptLeavesOthers
    <3>5. QED  BY <3>3, <3>4
  <2>11. QED  BY <2>6, <2>7, <2>8, <2>9, <2>10 DEF DebtsArePaid
<1>4. QED  BY <1>2, <1>3 DEF PostTask

\* Polling reads one ticket and changes none.
LEMMA PollStep ==
    ASSUME IndInv, NEW p \in Poster, PollTask(p)
    PROVE  IndInv'
<1> USE DEF IndInv
<1>1. ppc[p] = "poll" /\ UNCHANGED <<board, wvars, late, losses, crashes>>
  BY DEF PollTask
<1>2. ptask[p] \in Task /\ PosterAt(p, "delete", ptask[p])
  BY <1>1 DEF PollTask, PostersKnow
<1>3. /\ ppc' \in [Poster -> {"create", "post", "poll", "delete", "done"}]
      /\ ptask' \in [Poster -> Task \cup {NoTask}]
      /\ ptries' \in [Poster -> 0 .. RetryCount - 1]
      /\ ppc'[p] = "delete" /\ ptask'[p] = ptask[p]
      /\ \A q \in Poster \ {p} : ppc'[q] = ppc[q] /\ ptask'[q] = ptask[q]
  BY <1>2, PosterMoves
<1>4. TypeOK'  BY <1>1, <1>3 DEF TypeOK, wvars
<1>5. TicketsStay  BY <1>1 DEF TicketsStay, Fresh
<1>6. WorkersKnow'  BY <1>1 DEF WorkersKnow, Fresh, wvars
<1>7. PostersKnow'  BY <1>1, <1>3, <1>5, PostersKnowStill
<1>8. QueueFits'  BY <1>1 DEF QueueFits, Fresh
<1>9. ASSUME NEW u \in Task PROVE DebtIsPaid(u)'
  <2>1. Holders(u)' = Holders(u) /\ Releases(u)' = Releases(u)
    BY <1>1 DEF Holders, Releases, wvars
  <2>2. \A q \in Poster : Posting(q, u)' => Posting(q, u)  BY <1>3 DEF Posting
  <2>3. QED  BY <1>1, <2>1, <2>2, Split, DebtStays
<1>10. QED  BY <1>4, <1>6, <1>7, <1>8, <1>9 DEF DebtsArePaid

\* A deleted ticket keeps the holders it has, which are few enough.
LEMMA Withdrawn ==
    ASSUME IndInv, NEW t \in Task, Withdraw(t),
           UNCHANGED <<wvars, late>>,
           losses' \in Nat, losses <= losses',
           \A p \in Poster, u \in Task : Posting(p, u)' => Posting(p, u)
    PROVE  /\ board' \in [Task -> Place]
           /\ TicketsStay
           /\ QueueFits'
           /\ DebtsArePaid'
<1> USE DEF IndInv
<1>1. board \in [Task -> Place]  BY DEF TypeOK
<1>2. board' = [board EXCEPT ![t] = Deleted]  BY DEF Withdraw
<1>3. board' \in [Task -> Place] /\ board'[t] = Deleted
      /\ \A u \in Task \ {t} : board'[u] = board[u]
  BY <1>1, <1>2 DEF Place
<1>4. Deleted # Unborn /\ Deleted # Ticket(NoOne, "preparing") /\ ~Live(t)'
  BY <1>3, PostingsTyped, MarkersDiffer DEF Live
<1>5. TicketsStay  BY <1>3, <1>4 DEF TicketsStay, Fresh
<1>6. QueueFits'
  <2>1. \A m \in late : m.task \in Task /\ board[m.task] # Unborn
    BY DEF TypeOK, QueueFits
  <2>2. QED  BY <1>5, <2>1 DEF QueueFits, TicketsStay
<1>7. ASSUME NEW u \in Task PROVE DebtIsPaid(u)'
  <2>1. Holders(u)' = Holders(u) /\ Releases(u)' = Releases(u)
    BY DEF Holders, Releases, wvars
  <2>2. CASE u # t  BY <1>3, <2>1, <2>2, DebtStays
  <2>3. CASE u = t
    BY <1>4, <2>1, <2>3, HoldersAreFew, Split DEF DebtIsPaid
  <2>4. QED  BY <2>2, <2>3
<1>8. QED  BY <1>3, <1>5, <1>6, <1>7 DEF DebtsArePaid

\* A poster takes its ticket off the board, or finds that it is not there, or
\* does not learn of the outcome and will come back, or is wrongly told that
\* the ticket is gone.
LEMMA RemoveStep ==
    ASSUME IndInv, NEW p \in Poster, RemoveTask(p)
    PROVE  IndInv'
<1> USE DEF IndInv
<1>1. ppc[p] = "delete" /\ UNCHANGED <<wvars, late, crashes>>  BY DEF RemoveTask
<1>2. PICK t \in Task : t = ptask[p]  BY <1>1 DEF PostersKnow
<1>3. Withdraw(t) \/ UNCHANGED board  BY <1>2 DEF RemoveTask
<1>4. /\ PosterAt(p, "done", NoTask) \/ UNCHANGED pvars
      /\ losses' = losses \/ (losses < MaxLosses /\ losses' = losses + 1)
  BY DEF RemoveTask
<1>5. losses' \in 0 .. MaxLosses /\ losses' \in Nat /\ losses <= losses'
  BY <1>4, Typed
<1>6. /\ ppc' \in [Poster -> {"create", "post", "poll", "delete", "done"}]
      /\ ptask' \in [Poster -> Task \cup {NoTask}]
      /\ ptries' \in [Poster -> 0 .. RetryCount - 1]
      /\ (ppc'[p] = "delete" /\ ptask'[p] = ptask[p]) \/ ppc'[p] = "done"
      /\ \A q \in Poster \ {p} : ppc'[q] = ppc[q] /\ ptask'[q] = ptask[q]
  <2>1. CASE PosterAt(p, "done", NoTask)  BY <2>1, PosterMoves
  <2>2. CASE UNCHANGED pvars  BY <1>1, <2>2 DEF pvars, TypeOK
  <2>3. QED  BY <1>4, <2>1, <2>2
<1>7. \A q \in Poster, u \in Task : Posting(q, u)' => Posting(q, u)
  BY <1>6 DEF Posting
<1>8. /\ board' \in [Task -> Place]
      /\ TicketsStay
      /\ QueueFits'
      /\ DebtsArePaid'
  <2>1. CASE Withdraw(t)  BY <1>1, <1>5, <1>7, <2>1, Withdrawn
  <2>2. CASE UNCHANGED board
    <3>1. board' \in [Task -> Place] /\ TicketsStay
      BY <2>2 DEF TypeOK, TicketsStay, Fresh
    <3>2. QueueFits'  BY <1>1, <2>2 DEF QueueFits, Fresh
    <3>3. ASSUME NEW u \in Task PROVE DebtIsPaid(u)'
      <4>1. Holders(u)' = Holders(u) /\ Releases(u)' = Releases(u)
        BY <1>1 DEF Holders, Releases, wvars
      <4>2. QED  BY <1>5, <1>7, <2>2, <4>1, DebtStays
    <3>4. QED  BY <3>1, <3>2, <3>3 DEF DebtsArePaid
  <2>3. QED  BY <1>3, <2>1, <2>2
<1>9. TypeOK'  BY <1>1, <1>5, <1>6, <1>8 DEF TypeOK, wvars
<1>10. WorkersKnow'
  <2>1. SUFFICES ASSUME NEW x \in Worker, wpc[x] \in {"claim", "run", "report"}
                 PROVE  /\ wtask[x] \in Task
                        /\ board'[wtask[x]] # Unborn
                        /\ board'[wtask[x]] # Ticket(NoOne, "preparing")
    BY <1>1 DEF WorkersKnow, Fresh, wvars
  <2>2. wtask[x] \in Task /\ board[wtask[x]] # Unborn /\ ~Fresh(wtask[x])
    BY <2>1 DEF WorkersKnow
  <2>3. QED  BY <1>8, <2>2 DEF TicketsStay, Fresh
<1>11. PostersKnow'  BY <1>1, <1>6, <1>8, PostersKnowStill
<1>12. QED  BY <1>8, <1>9, <1>10, <1>11

\* A queued request that is served spends what was paid for it: one that takes
\* the assignee out makes one holder forgotten or posts the ticket early, a
\* late claim makes nobody a holder.
LEMMA ServedStep ==
    ASSUME IndInv, ServeLate
    PROVE  IndInv'
<1> USE DEF IndInv
<1>1. PICK m \in late :
          /\ late' = late \ {m}
          /\ \/ Replace(m.task, m.new)
             \/ ~Acceptable(m.task, m.new) /\ UNCHANGED board
  BY DEF ServeLate
<1>2. UNCHANGED <<wvars, pvars, losses, crashes>>  BY DEF ServeLate
<1>3. PICK t \in Task, d \in Desc : t = m.task /\ d = m.new  BY DEF TypeOK
<1>4. d.body # "preparing" /\ board[t] # Unborn  BY <1>1, <1>3 DEF QueueFits
<1>5. late' \subseteq late  BY <1>1
<1>6. /\ board' \in [Task -> Place]
      /\ TicketsStay
      /\ \A u \in Task \ {t} : board'[u] = board[u]
  <2>1. CASE Replace(t, d)  BY <1>4, <2>1, ReplacedStays
  <2>2. CASE UNCHANGED board  BY <2>2 DEF TypeOK, TicketsStay, Fresh
  <2>3. QED  BY <1>1, <1>3, <2>1, <2>2
<1>7. TypeOK'  BY <1>2, <1>5, <1>6 DEF TypeOK, wvars, pvars
<1>8. WorkersKnow'
  <2>1. SUFFICES ASSUME NEW x \in Worker, wpc[x] \in {"claim", "run", "report"}
                 PROVE  /\ wtask[x] \in Task
                        /\ board'[wtask[x]] # Unborn
                        /\ board'[wtask[x]] # Ticket(NoOne, "preparing")
    BY <1>2 DEF WorkersKnow, Fresh, wvars
  <2>2. wtask[x] \in Task /\ board[wtask[x]] # Unborn /\ ~Fresh(wtask[x])
    BY <2>1 DEF WorkersKnow
  <2>3. QED  BY <1>6, <2>2 DEF TicketsStay, Fresh
<1>9. PostersKnow'  BY <1>2, <1>6, PostersKnowStill DEF pvars
<1>10. QueueFits'
  <2>1. \A x \in late : x.task \in Task  BY DEF TypeOK
  <2>2. IsFiniteSet(late')  BY <1>5, NoMore DEF QueueFits
  <2>3. QED  BY <1>5, <1>6, <2>1, <2>2 DEF QueueFits, TicketsStay
<1>11. ASSUME NEW u \in Task PROVE DebtIsPaid(u)'
  <2>1. Holders(u)' = Holders(u)  BY <1>2 DEF Holders, wvars
  <2>2. Releases(u)' \subseteq Releases(u)  BY <1>5 DEF Releases
  <2>3. \A p \in Poster : Posting(p, u)' <=> Posting(p, u)
    BY <1>2 DEF Posting, pvars
  <2>4. losses' \in Nat /\ losses <= losses'  BY <1>2, Split
  <2>5. CASE board'[u] = board[u]  BY <2>1, <2>2, <2>3, <2>4, <2>5, DebtStays
  <2>6. CASE board'[u] # board[u]
    <3>1. u = t /\ Replace(t, d)  BY <1>1, <1>3, <1>6, <2>6
    <3>2. Live(t) /\ Live(t)' /\ board'[t] = d /\ ~Fresh(t)'
      BY <1>4, <3>1, ReplacedStays
    <3>3. Cardinality(Forgotten(t)) + Cardinality(Releases(t)) + Reposts(t) <= losses
      BY <3>2 DEF DebtsArePaid, DebtIsPaid
    <3>4. CASE d.assignee = NoOne
      <4>1. m \in Releases(t)  BY <1>1, <1>3, <3>4 DEF Releases
      <4>2. Releases(t)' = Releases(t) \ {m}  BY <1>1 DEF Releases
      <4>3. /\ Cardinality(Releases(t)') \in Nat
            /\ Cardinality(Releases(t)') = Cardinality(Releases(t)) - 1
        BY <4>1, <4>2, Split, OneLess
      <4>4. Reposts(t)' \in {0, 1}  BY DEF Reposts
      <4>5. CASE Fresh(t)
        <5>1. Forgotten(t)' = {}  BY <2>1, <3>1, <4>5, FreshIsFree DEF Forgotten
        <5>2. Cardinality(Forgotten(t)') = 0  BY <5>1, FS_EmptySet
        <5>3. QED
          BY <1>2, <2>1, <3>1, <3>2, <3>3, <4>3, <4>4, <5>2, Split DEF DebtIsPaid
      <4>6. CASE ~Fresh(t)
        <5>1. Forgotten(t)' \subseteq Forgotten(t) \cup {board[t].assignee}
          BY <2>1, <3>1, Split DEF Forgotten
        <5>2. /\ Cardinality(Forgotten(t)') \in Nat
              /\ Cardinality(Forgotten(t)') <= Cardinality(Forgotten(t)) + 1
          BY <5>1, Split, OneMore
        <5>3. Reposts(t)' <= Reposts(t)  BY <2>3, <3>1, <4>6 DEF Reposts
        <5>4. QED
          BY <1>2, <2>1, <3>1, <3>2, <3>3, <4>3, <4>4, <5>2, <5>3, Split
          DEF DebtIsPaid
      <4>7. QED  BY <4>5, <4>6
    <3>5. CASE d.assignee # NoOne
      <4>1. d.assignee \in Worker  BY <3>5 DEF Desc
      <4>2. board[t].assignee \notin Worker \ {d.assignee}
        BY <3>1, <4>1 DEF Replace, Handover
      <4>3. Forgotten(t)' \subseteq Forgotten(t)
        BY <2>1, <3>1, <3>2, <4>2 DEF Forgotten, Holders
      <4>4. /\ Cardinality(Forgotten(t)') \in Nat
            /\ Cardinality(Forgotten(t)') <= Cardinality(Forgotten(t))
        BY <4>3, Split, NoMore
      <4>5. /\ Cardinality(Releases(t)') \in Nat
            /\ Cardinality(Releases(t)') <= Cardinality(Releases(t))
        BY <2>2, <3>1, Split, NoMore
      <4>6. ~Fresh(t)  BY <1>1, <1>3, <3>5 DEF QueueFits
      <4>7. Reposts(t)' \in {0, 1} /\ Reposts(t)' <= Reposts(t)
        BY <2>3, <3>1, <4>6 DEF Reposts
      <4>8. QED
        BY <1>2, <2>1, <3>1, <3>2, <3>3, <4>4, <4>5, <4>7, Split DEF DebtIsPaid
    <3>6. QED  BY <3>4, <3>5
  <2>7. QED  BY <2>5, <2>6
<1>12. QED  BY <1>7, <1>8, <1>9, <1>10, <1>11 DEF DebtsArePaid

\* One step of anybody keeps the invariant.
LEMMA InvStep == IndInv /\ [Next]_vars => IndInv'
<1> SUFFICES ASSUME IndInv, [Next]_vars PROVE IndInv'  OBVIOUS
<1>1. ASSUME NEW w \in Worker, WorkerStep(w) PROVE IndInv'
  BY <1>1, FindStep, ClaimStep, WorkStep, ReportStep DEF WorkerStep
<1>2. ASSUME NEW w \in Worker, CrashWorker(w) PROVE IndInv'
  BY <1>2, CrashStep
<1>3. ASSUME NEW p \in Poster, PosterStep(p) PROVE IndInv'
  BY <1>3, CreateStep, PostStep, PollStep, RemoveStep DEF PosterStep
<1>4. CASE ServeLate  BY <1>4, ServedStep
<1>5. CASE UNCHANGED vars
  <2> USE <1>5 DEF IndInv, vars, wvars, pvars
  <2>1. TypeOK'  BY DEF TypeOK
  <2>2. WorkersKnow'  BY DEF WorkersKnow, Fresh
  <2>3. PostersKnow'  BY DEF PostersKnow, Posting
  <2>4. QueueFits'  BY DEF QueueFits, Fresh
  <2>5. ASSUME NEW u \in Task PROVE DebtIsPaid(u)'
    <3>1. Holders(u)' = Holders(u) /\ Releases(u)' = Releases(u)
      BY DEF Holders, Releases
    <3>2. \A p \in Poster : Posting(p, u)' => Posting(p, u)  BY DEF Posting
    <3>3. QED  BY <3>1, <3>2, Split, DebtStays
  <2>6. QED  BY <2>1, <2>2, <2>3, <2>4, <2>5 DEF DebtsArePaid
<1>6. QED  BY <1>1, <1>2, <1>3, <1>4, <1>5 DEF Next

\* The inductive invariant holds throughout.
LEMMA Invariance == Spec => []IndInv
BY InvInit, InvStep, PTL DEF Spec

-----------------------------------------------------------------------------
(* Theorems *)

\* Workers, posters and the requests they left behind keep to the places,
\* tickets and attempt counts of their loops (worker_base.py:25-100).
THEOREM TypeCorrect == Spec => []TypeOK
<1>1. IndInv => TypeOK  BY DEF IndInv
<1>2. QED  BY <1>1, Invariance, PTL

\* Each attempt whose outcome its client did not learn puts at most one more
\* worker on a ticket (worker_base.py:36-45, 70-100).
THEOREM HoldersAreBounded == Spec => []HoldersBoundedByLosses
<1>1. IndInv => HoldersBoundedByLosses
  BY HoldersAreFew DEF HoldersBoundedByLosses
<1>2. QED  BY <1>1, Invariance, PTL

\* Over a network that loses nothing, claims exclude each other as the README
\* promises (README.rst:45), however old the reads they rest on.
THEOREM ReliableClaimsExclude ==
    ASSUME MaxLosses = 0
    PROVE  Spec => []OneHolder
<1>1. IndInv => OneHolder
  <2>1. SUFFICES ASSUME IndInv, NEW t \in Task PROVE Cardinality(Holders(t)) <= 1
    BY DEF OneHolder
  <2>2. losses \in Nat /\ losses <= MaxLosses  BY <2>1, Typed DEF IndInv
  <2>3. Cardinality(Holders(t)) \in Nat /\ Cardinality(Holders(t)) <= 1 + losses
    BY <2>1, Split, HoldersAreFew
  <2>4. QED  BY <2>2, <2>3
<1>2. QED  BY <1>1, Invariance, PTL
=============================================================================
