------------------------- MODULE BuildFrontendProofs -------------------------
(***************************************************************************)
(* Proofs about BuildFrontend, for any number of concurrent requests, any  *)
(* number of builds and any number of expired sessions.                    *)
(***************************************************************************)
EXTENDS BuildFrontend, FiniteSetTheorems, TLAPS

\* A handler between try_lock and unlock whose session is open owns the node.
LockFits == \A h \in Handler : Holds(h) => lock = h

\* Without expiries, every handler between try_lock and unlock has its session.
SessionsFit == expiries = 0 => \A h \in Handler : pc[h] \in Section => session[h] = "open"

\* Triggers that will still look for a number.
Waiting == {h \in Handler : \/ pc[h] = "lock" /\ op[h] = "trigger"
                            \/ pc[h] \in {"check", "list"}}

\* A number takes a trigger that asked for it: there are no higher ones.
NumbersFit ==
    /\ IsFiniteSet(Waiting)
    /\ Cardinality(Waiting) <= arrivals
    /\ \A n \in Existing : n + Cardinality(Waiting) <= arrivals
    /\ \A h \in Handler : pc[h] = "mkdir" =>
          number[h] \in Number /\ number[h] + Cardinality(Waiting) <= arrivals

\* Triggers that made the directory of build n and may yet post its ticket.
Making(n) == {h \in Handler : /\ number[h] = n
                              /\ \/ pc[h] \in {"state", "task"}
                                 \/ pc[h] = "unlock" /\ code[h] = "none"}

\* A directory is good for one ticket.
TicketsFit == \A n \in Number :
    /\ IsFiniteSet(Making(n))
    /\ tickets[n] + Cardinality(Making(n)) <= removed[n] + IF n \in Existing THEN 1 ELSE 0

IndInv ==
    /\ TypeOK
    /\ LockFits
    /\ SessionsFit
    /\ NumbersFit
    /\ TicketsFit

\* What a step of h leaves alone.
OthersStay(h) == \A g \in Handler : g # h =>
    /\ pc'[g] = pc[g] /\ op'[g] = op[g] /\ code'[g] = code[g]
    /\ number'[g] = number[g] /\ session'[g] = session[g]

-----------------------------------------------------------------------------
(* Sets of numbers and handlers *)

\* A finite set of numbers has a greatest element.
LEMMA Greatest ==
    ASSUME NEW S \in SUBSET Int, IsFiniteSet(S), S # {}
    PROVE  \E n \in S : \A m \in S : m <= n
<1> DEFINE Above(n) == {m \in S : n < m}
           Aboves == {Above(n) : n \in S}
<1>1. IsWellFoundedOn(StrictSubsetOrdering(S), SUBSET S)
  BY FS_StrictSubsetOrderingWellFounded, FS_FiniteSubsetsOfFinite
<1>2. Aboves \subseteq SUBSET S /\ Aboves # {}  OBVIOUS
<1>3. \E A \in Aboves : \A B \in Aboves : ~ (<<B, A>> \in StrictSubsetOrdering(S))
  <2> HIDE DEF Aboves
  <2>1. QED  BY <1>1, <1>2, WFMin
<1>4. PICK n \in S : \A m \in S : ~ (<<Above(m), Above(n)>> \in StrictSubsetOrdering(S))
  BY <1>3
<1>5. ASSUME NEW m \in S, n < m PROVE FALSE
  <2>1. Above(m) \subseteq Above(n) /\ Above(m) # Above(n)
    <3>1. m \in Above(n) /\ m \notin Above(m)  BY <1>5
    <3>2. \A k \in S : m < k => n < k  BY <1>5
    <3>3. QED  BY <3>1, <3>2
  <2>2. <<Above(m), Above(n)>> \in StrictSubsetOrdering(S)
    BY <2>1 DEF StrictSubsetOrdering
  <2>3. QED  BY <1>4, <2>2
<1>6. QED  BY <1>5

\* A subset is no larger.
LEMMA NoMore ==
    ASSUME NEW S, NEW T, IsFiniteSet(S), T \subseteq S
    PROVE  /\ IsFiniteSet(T)
           /\ Cardinality(T) \in Nat
           /\ Cardinality(S) \in Nat
           /\ Cardinality(T) <= Cardinality(S)
<1>1. IsFiniteSet(T) /\ Cardinality(T) <= Cardinality(S)  BY FS_Subset
<1>2. QED  BY <1>1, FS_CardinalityType

\* One more element makes a set larger by one at most.
LEMMA OneMore ==
    ASSUME NEW S, NEW T, NEW x, IsFiniteSet(S), T \subseteq S \cup {x}
    PROVE  /\ IsFiniteSet(T)
           /\ Cardinality(T) \in Nat
           /\ Cardinality(S) \in Nat
           /\ Cardinality(T) <= Cardinality(S) + 1
<1>1. IsFiniteSet(S \cup {x})  BY FS_AddElement
<1>2. Cardinality(S \cup {x}) <= Cardinality(S) + 1
  <2>1. Cardinality(S \cup {x}) = Cardinality(S) \/ Cardinality(S \cup {x}) = Cardinality(S) + 1
    BY FS_AddElement
  <2>2. QED  BY <2>1, FS_CardinalityType
<1>3. IsFiniteSet(T) /\ Cardinality(T) <= Cardinality(S \cup {x})  BY <1>1, FS_Subset
<1>4. QED  BY <1>1, <1>2, <1>3, FS_CardinalityType

\* A set that loses an element is smaller by one at least.
LEMMA OneLess ==
    ASSUME NEW S, NEW T, NEW x \in S, IsFiniteSet(S), T \subseteq S \ {x}
    PROVE  /\ IsFiniteSet(T)
           /\ Cardinality(T) \in Nat
           /\ Cardinality(S) \in Nat
           /\ Cardinality(T) + 1 <= Cardinality(S)
<1>1. IsFiniteSet(S \ {x}) /\ Cardinality(S \ {x}) = Cardinality(S) - 1  BY FS_RemoveElement
<1>2. IsFiniteSet(T) /\ Cardinality(T) <= Cardinality(S \ {x})  BY <1>1, FS_Subset
<1>3. QED  BY <1>1, <1>2, FS_CardinalityType

\* The number after the greatest one is above them all, and follows one of them.
LEMMA NextNumberDoes ==
    ASSUME NEW taken \in SUBSET Number, MaxRequests \in Nat
    PROVE  /\ NextNumber(taken) \in Nat \ {0}
           /\ \A n \in taken : n < NextNumber(taken)
           /\ taken = {} => NextNumber(taken) = 1
           /\ taken # {} => \E n \in taken : NextNumber(taken) = n + 1
<1>1. CASE taken = {}  BY <1>1 DEF NextNumber
<1>2. CASE taken # {}
  <2>1. IsFiniteSet(taken) /\ taken \in SUBSET Int
    <3>1. IsFiniteSet(1 .. MaxRequests)  BY FS_Interval
    <3>2. IsFiniteSet(taken)  BY <3>1, FS_Subset DEF Number
    <3>3. QED  BY <3>2 DEF Number
  <2>2. \E n \in taken : \A m \in taken : m <= n  BY <1>2, <2>1, Greatest
  <2> DEFINE top == CHOOSE n \in taken : \A m \in taken : m <= n
  <2>3. top \in taken /\ \A m \in taken : m <= top  BY <2>2
  <2>4. NextNumber(taken) = 1 + top  BY <1>2 DEF NextNumber
  <2> HIDE DEF top
  <2>5. top \in Nat /\ \A m \in taken : m \in Nat  BY <2>3 DEF Number
  <2>6. QED  BY <1>2, <2>3, <2>4, <2>5
<1>3. QED  BY <1>1, <1>2

-----------------------------------------------------------------------------
(* What steps of one handler leave alone *)

\* The constants and types that the proofs below need.
LEMMA Typed ==
    ASSUME TypeOK
    PROVE  /\ MaxRequests \in Nat /\ MaxExpiries \in Nat
           /\ arrivals \in Nat /\ arrivals <= MaxRequests
           /\ expiries \in Nat /\ expiries <= MaxExpiries
           /\ MaxRaised \in Nat /\ raised \in 0 .. MaxRaised
           /\ Free \notin Handler /\ Lingering \notin Handler /\ Leaked \notin Handler
           /\ Number \subseteq Nat /\ 0 \notin Number
           /\ \A n \in Number : tickets[n] \in Nat /\ removed[n] \in Nat
BY BuildConstants DEF TypeOK, Number

\* The lock stays with its holder if a step touches no lock but its own or a
\* free one.
LEMMA LockKeeps ==
    ASSUME IndInv, NEW h \in Handler, OthersStay(h),
           \A g \in Handler : g # h /\ lock = g => lock' = g,
           pc'[h] \in Section /\ session'[h] = "open" => lock' = h
    PROVE  LockFits'
<1> SUFFICES ASSUME NEW g \in Handler, pc'[g] \in Section, session'[g] = "open"
             PROVE  lock' = g
  BY DEF LockFits, Holds
<1>1. CASE g = h  BY <1>1
<1>2. CASE g # h
  <2>1. Holds(g)  BY <1>2 DEF OthersStay, Holds
  <2>2. lock = g  BY <2>1 DEF IndInv, LockFits
  <2>3. QED  BY <1>2, <2>2
<1>3. QED  BY <1>1, <1>2

\* Sessions stay if the handler that moved has its own or left the section.
LEMMA SessionsKeep ==
    ASSUME IndInv, NEW h \in Handler, OthersStay(h), expiries' = expiries,
           expiries = 0 /\ pc'[h] \in Section => session'[h] = "open"
    PROVE  SessionsFit'
<1> SUFFICES ASSUME NEW g \in Handler, expiries = 0, pc'[g] \in Section
             PROVE  session'[g] = "open"
  BY DEF SessionsFit
<1>1. CASE g = h  BY <1>1
<1>2. CASE g # h  BY <1>2 DEF OthersStay, IndInv, SessionsFit
<1>3. QED  BY <1>1, <1>2

\* No step but a new trigger, a listing and a new directory changes what
\* numbers are in use.
LEMMA NumbersKeep ==
    ASSUME IndInv, NEW h \in Handler, OthersStay(h), arrivals' = arrivals,
           Existing' \subseteq Existing,
           pc'[h] # "mkdir",
           h \in Waiting' => h \in Waiting
    PROVE  NumbersFit'
<1> USE DEF IndInv
<1>1. Waiting' \subseteq Waiting
  <2>1. \A g \in Handler : g # h => (g \in Waiting' <=> g \in Waiting)
    BY DEF Waiting, OthersStay
  <2>2. QED  BY <2>1 DEF Waiting
<1>2. IsFiniteSet(Waiting)  BY DEF NumbersFit
<1>3. /\ IsFiniteSet(Waiting') /\ Cardinality(Waiting') \in Nat /\ Cardinality(Waiting) \in Nat
      /\ Cardinality(Waiting') <= Cardinality(Waiting)
  BY <1>1, <1>2, NoMore
<1>4. \A n \in Number : n + Cardinality(Waiting) <= arrivals => n + Cardinality(Waiting') <= arrivals'
  BY <1>3, Typed
<1>5. Cardinality(Waiting') <= arrivals'  BY <1>3, Typed DEF NumbersFit
<1>6. \A n \in Existing' : n + Cardinality(Waiting') <= arrivals'
  BY <1>4 DEF NumbersFit, Existing
<1>7. \A g \in Handler : pc'[g] = "mkdir" =>
         number'[g] \in Number /\ number'[g] + Cardinality(Waiting') <= arrivals'
  BY <1>4 DEF NumbersFit, OthersStay
<1>8. QED  BY <1>3, <1>5, <1>6, <1>7 DEF NumbersFit

\* No step but a new directory and a ticket counts.
LEMMA TicketsKeep ==
    ASSUME IndInv, NEW h \in Handler, OthersStay(h), tickets' = tickets,
           \A n \in Number : h \in Making(n)' => h \in Making(n),
           \A n \in Number :
              \/ removed'[n] = removed[n] /\ (n \in Existing => n \in Existing')
              \/ removed'[n] = removed[n] + 1
    PROVE  TicketsFit'
<1> USE DEF IndInv
<1> SUFFICES ASSUME NEW n \in Number
             PROVE  /\ IsFiniteSet(Making(n)')
                    /\ tickets'[n] + Cardinality(Making(n)')
                          <= removed'[n] + IF n \in Existing' THEN 1 ELSE 0
  BY DEF TicketsFit
<1>1. Making(n)' \subseteq Making(n)
  <2>1. \A g \in Handler : g # h => (g \in Making(n)' <=> g \in Making(n))
    BY DEF Making, OthersStay
  <2>2. QED  BY <2>1 DEF Making
<1>2. /\ IsFiniteSet(Making(n))
      /\ tickets[n] + Cardinality(Making(n)) <= removed[n] + IF n \in Existing THEN 1 ELSE 0
  BY DEF TicketsFit
<1>3. /\ IsFiniteSet(Making(n)') /\ Cardinality(Making(n)') \in Nat /\ Cardinality(Making(n)) \in Nat
      /\ Cardinality(Making(n)') <= Cardinality(Making(n))
  BY <1>1, <1>2, NoMore
<1>4. tickets[n] \in Nat /\ removed[n] \in Nat  BY Typed
<1>5. CASE removed'[n] = removed[n] /\ (n \in Existing => n \in Existing')
  <2>1. CASE n \in Existing'  BY <1>2, <1>3, <1>4, <1>5, <2>1
  <2>2. CASE n \notin Existing'  BY <1>2, <1>3, <1>4, <1>5, <2>2
  <2>3. QED  BY <2>1, <2>2
<1>6. CASE removed'[n] = removed[n] + 1
  <2>1. tickets[n] + Cardinality(Making(n)) <= removed[n] + 1  BY <1>2, <1>3, <1>4
  <2>2. CASE n \in Existing'  BY <1>3, <1>4, <1>6, <2>1, <2>2
  <2>3. CASE n \notin Existing'  BY <1>3, <1>4, <1>6, <2>1, <2>3
  <2>4. QED  BY <2>2, <2>3
<1>7. QED  BY <1>5, <1>6

-----------------------------------------------------------------------------
(* Requests, the lock and its sessions *)

\* A request arrives; a trigger among them will look for a number.
LEMMA ReceiveStep ==
    ASSUME IndInv, NEW h \in Handler, Receive(h)
    PROVE  IndInv'
<1> USE DEF IndInv
<1>1. PICK o \in Operation :
         /\ pc[h] = "idle" /\ arrivals < MaxRequests /\ arrivals' = arrivals + 1
         /\ op' = [op EXCEPT ![h] = o]
         /\ pc' = [pc EXCEPT ![h] = FirstCall[o]]
         /\ UNCHANGED <<code, lock, session, jobdir, config, builds, tickets, removed, expiries, raised>>
         /\ IF o = "delete_build"
            THEN \E n \in Number : number' = [number EXCEPT ![h] = n]
            ELSE UNCHANGED number
  BY DEF Receive, GoTo, zk, storage
<1>2. /\ FirstCall[o] \in {"lock", "delete", "remove"}
      /\ FirstCall[o] = "lock" /\ o # "trigger" => o = "configure"
      /\ o \in {"trigger", "configure", "delete_job", "delete_build"}
  BY BuildConstants DEF FirstCall
<1>3. \E m \in Number \cup {0} : number' = [number EXCEPT ![h] = m]
  <2>1. number = [number EXCEPT ![h] = number[h]] /\ number[h] \in Number \cup {0}
    BY DEF TypeOK
  <2>2. QED  BY <1>1, <2>1
<1>4. number' \in [Handler -> Number \cup {0}] /\ \A g \in Handler : g # h => number'[g] = number[g]
  BY <1>3 DEF TypeOK
<1>5. TypeOK'
  <2>1. arrivals' \in 0 .. MaxRequests  BY <1>1, Typed
  <2>2. pc' \in [Handler -> Section \cup {"idle", "lock", "state", "task", "delete",
                                          "rmdir", "remove", "done"}]
    BY <1>1, <1>2 DEF TypeOK
  <2>3. op' \in [Handler -> Operation \cup {"none"}]  BY <1>1 DEF TypeOK
  <2>4. QED  BY <1>1, <1>4, <2>1, <2>2, <2>3 DEF TypeOK, Existing
<1>6. /\ OthersStay(h)
      /\ pc'[h] = FirstCall[o] /\ op'[h] = o
  BY <1>1, <1>4 DEF OthersStay, TypeOK
<1>7. pc'[h] \in {"lock", "delete", "remove"}  BY <1>2, <1>6
<1>8. LockFits'  BY <1>1, <1>6, <1>7, LockKeeps DEF Section
<1>9. SessionsFit'  BY <1>1, <1>6, <1>7, SessionsKeep DEF Section
<1>10. TicketsFit'
  <2>1. \A n \in Number : h \notin Making(n)'  BY <1>7 DEF Making
  <2>2. Existing' = Existing  BY <1>1 DEF Existing
  <2>3. QED  BY <1>1, <1>6, <2>1, <2>2, TicketsKeep
<1>11. NumbersFit'
  <2>1. Waiting' \subseteq Waiting \cup {h}
    <3>1. \A g \in Handler : g # h => (g \in Waiting' <=> g \in Waiting)
      BY <1>6 DEF Waiting, OthersStay
    <3>2. QED  BY <3>1 DEF Waiting
  <2>2. IsFiniteSet(Waiting)  BY DEF NumbersFit
  <2>3. /\ IsFiniteSet(Waiting') /\ Cardinality(Waiting') \in Nat /\ Cardinality(Waiting) \in Nat
        /\ Cardinality(Waiting') <= Cardinality(Waiting) + 1
    BY <2>1, <2>2, OneMore
  <2>4. \A n \in Number : n + Cardinality(Waiting) <= arrivals => n + Cardinality(Waiting') <= arrivals'
    BY <1>1, <2>3, Typed
  <2>5. Cardinality(Waiting') <= arrivals'  BY <1>1, <2>3, Typed DEF NumbersFit
  <2>6. \A n \in Existing' : n + Cardinality(Waiting') <= arrivals'
    BY <1>1, <2>4 DEF NumbersFit, Existing
  <2>7. \A g \in Handler : pc'[g] = "mkdir" =>
           number'[g] \in Number /\ number'[g] + Cardinality(Waiting') <= arrivals'
    BY <1>6, <1>7, <2>4 DEF NumbersFit, OthersStay
  <2>8. QED  BY <2>3, <2>5, <2>6, <2>7 DEF NumbersFit
<1>12. QED  BY <1>5, <1>8, <1>9, <1>10, <1>11

\* A handler that moves without touching builds, tickets or arrivals.
LEMMA HandlerStep ==
    ASSUME IndInv, NEW h \in Handler, OthersStay(h),
           UNCHANGED <<builds, tickets, removed, arrivals, expiries>>,
           raised' \in 0 .. MaxRaised,
           pc' \in [Handler -> Section \cup {"idle", "lock", "state", "task", "delete",
                                             "rmdir", "remove", "done"}],
           op' \in [Handler -> Operation \cup {"none"}],
           code' \in [Handler -> {"none", "ok", "not_found", "locked", "error"}],
           number' \in [Handler -> Number \cup {0}],
           session' \in [Handler -> {"none", "open", "expired"}],
           lock' \in Handler \cup {Free, Lingering, Leaked},
           jobdir' \in BOOLEAN, config' \in BOOLEAN,
           \A g \in Handler : g # h /\ lock = g => lock' = g,
           pc'[h] \in Section /\ session'[h] = "open" => lock' = h,
           expiries = 0 /\ pc'[h] \in Section => session'[h] = "open",
           pc'[h] # "mkdir",
           h \in Waiting' => h \in Waiting,
           \A n \in Number : h \in Making(n)' => h \in Making(n)
    PROVE  IndInv'
<1> USE DEF IndInv
<1>1. TypeOK'  BY DEF TypeOK
<1>2. Existing' = Existing  BY DEF Existing
<1>3. LockFits'  BY LockKeeps
<1>4. SessionsFit'  BY SessionsKeep
<1>5. NumbersFit'  BY <1>2, NumbersKeep
<1>6. TicketsFit'  BY <1>2, TicketsKeep
<1>7. QED  BY <1>1, <1>3, <1>4, <1>5, <1>6

\* Only a free node is taken, and only by one handler.
LEMMA TryLockStep ==
    ASSUME IndInv, NEW h \in Handler, TryLock(h)
    PROVE  IndInv'
<1> USE DEF IndInv
<1>1. pc[h] = "lock" /\ UNCHANGED <<op, number, jobdir, config, builds, tickets, removed, arrivals, expiries, raised>>
  BY DEF TryLock, storage, ghosts
<1>2. \/ /\ lock = Free /\ lock' = h
         /\ session' = [session EXCEPT ![h] = "open"]
         /\ pc' = [pc EXCEPT ![h] = IF op[h] = "trigger" THEN "check" ELSE "ensure"]
         /\ code' = code
      \/ /\ lock' = lock \/ (lock = Free /\ lock' = Lingering)
         /\ session' = session
         /\ pc' = [pc EXCEPT ![h] = "done"]
         /\ \E a \in {"error", "locked"} : code' = [code EXCEPT ![h] = a]
  BY DEF TryLock, NodeCreated, GoTo, Reply, zk
<1> USE <1>1
<1>3. CASE /\ lock = Free /\ lock' = h
           /\ session' = [session EXCEPT ![h] = "open"]
           /\ pc' = [pc EXCEPT ![h] = IF op[h] = "trigger" THEN "check" ELSE "ensure"]
           /\ code' = code
  <2>1. /\ pc'[h] = (IF op[h] = "trigger" THEN "check" ELSE "ensure")
        /\ session'[h] = "open"
        /\ OthersStay(h)
    BY <1>3 DEF OthersStay, TypeOK
  <2>2. pc'[h] \in {"check", "ensure"}  BY <2>1
  <2>3. h \in Waiting' => h \in Waiting  BY <2>1 DEF Waiting
  <2>4. \A n \in Number : h \notin Making(n)'  BY <2>2 DEF Making
  <2>5. pc' \in [Handler -> Section \cup {"idle", "lock", "state", "task", "delete",
                                          "rmdir", "remove", "done"}]
    BY <1>3 DEF TypeOK, Section
  <2>6. session' \in [Handler -> {"none", "open", "expired"}]  BY <1>3 DEF TypeOK
  <2>7. \A g \in Handler : lock # g  BY <1>3, Typed
  <2>8. QED  BY <1>3, <2>1, <2>2, <2>3, <2>4, <2>5, <2>6, <2>7, HandlerStep DEF TypeOK
<1>4. CASE /\ lock' = lock \/ (lock = Free /\ lock' = Lingering)
           /\ session' = session
           /\ pc' = [pc EXCEPT ![h] = "done"]
           /\ \E a \in {"error", "locked"} : code' = [code EXCEPT ![h] = a]
  <2>1. pc'[h] = "done" /\ OthersStay(h)
    BY <1>4 DEF OthersStay, TypeOK
  <2>2. h \notin Waiting' /\ \A n \in Number : h \notin Making(n)'  BY <2>1 DEF Waiting, Making
  <2>3. pc' \in [Handler -> Section \cup {"idle", "lock", "state", "task", "delete",
                                          "rmdir", "remove", "done"}]
    BY <1>4 DEF TypeOK, Section
  <2>4. code' \in [Handler -> {"none", "ok", "not_found", "locked", "error"}]
    BY <1>4 DEF TypeOK
  <2>5. pc'[h] \notin Section  BY <2>1 DEF Section
  <2>6. \A g \in Handler : lock = g => lock' = g  BY <1>4, Typed
  <2>7. lock' \in Handler \cup {Free, Lingering, Leaked}  BY <1>4 DEF TypeOK
  <2>8. QED  BY <1>4, <2>1, <2>2, <2>3, <2>4, <2>5, <2>6, <2>7, HandlerStep DEF TypeOK
<1>5. QED  BY <1>2, <1>3, <1>4

\* Unlocking frees the holder's own node only.
LEMMA UnlockStep ==
    ASSUME IndInv, NEW h \in Handler, Unlock(h)
    PROVE  IndInv'
<1> USE DEF IndInv
<1>1. /\ pc[h] = "unlock"
      /\ UNCHANGED <<code, op, number, jobdir, config, builds, tickets, removed, arrivals, expiries, raised>>
      /\ IF lock = h THEN lock' \in {Free, Lingering} ELSE lock' = lock
      /\ session' = [session EXCEPT ![h] = "none"]
      /\ pc' = [pc EXCEPT ![h] = IF code[h] = "none" THEN "state" ELSE "done"]
  BY DEF Unlock, GoTo, storage, ghosts
<1>2. /\ pc'[h] = (IF code[h] = "none" THEN "state" ELSE "done")
      /\ OthersStay(h)
  BY <1>1 DEF OthersStay, TypeOK
<1>3. h \notin Waiting' /\ pc'[h] \notin Section  BY <1>2 DEF Waiting, Section
<1>4. \A n \in Number : h \in Making(n)' => h \in Making(n)  BY <1>1, <1>2 DEF Making
<1>5. pc' \in [Handler -> Section \cup {"idle", "lock", "state", "task", "delete",
                                        "rmdir", "remove", "done"}]
  BY <1>1 DEF TypeOK, Section
<1>6. session' \in [Handler -> {"none", "open", "expired"}]  BY <1>1 DEF TypeOK
<1>7. lock' \in Handler \cup {Free, Lingering, Leaked}  BY <1>1 DEF TypeOK
<1>8. \A g \in Handler : g # h /\ lock = g => lock' = g  BY <1>1
<1>9. pc'[h] # "mkdir"  BY <1>2
<1>10. QED  BY <1>1, <1>2, <1>3, <1>4, <1>5, <1>6, <1>7, <1>8, <1>9, HandlerStep DEF TypeOK

\* A session that expires takes its own node with it.
LEMMA ExpireStep ==
    ASSUME IndInv, NEW h \in Handler, Expire(h)
    PROVE  IndInv'
<1> USE DEF IndInv
<1>1. /\ session[h] = "open" /\ expiries < MaxExpiries /\ expiries' = expiries + 1
      /\ session' = [session EXCEPT ![h] = "expired"]
      /\ lock' = IF lock = h THEN Free ELSE lock
      /\ UNCHANGED <<jobdir, config, builds, pc, op, code, number, tickets, removed, arrivals, raised>>
  BY DEF Expire, storage
<1>2. session'[h] = "expired" /\ OthersStay(h)
  BY <1>1 DEF OthersStay, TypeOK
<1>3. expiries' \in 0 .. MaxExpiries /\ expiries' # 0  BY <1>1, Typed
<1>4. TypeOK'
  <2>1. session' \in [Handler -> {"none", "open", "expired"}]  BY <1>1 DEF TypeOK
  <2>2. QED  BY <1>1, <1>3, <2>1 DEF TypeOK
<1>5. LockFits'  BY <1>1, <1>2, LockKeeps
<1>6. SessionsFit'  BY <1>3 DEF SessionsFit
<1>7. Waiting' = Waiting /\ Existing' = Existing /\ \A n \in Number : Making(n)' = Making(n)
  BY <1>1 DEF Waiting, Existing, Making
<1>8. NumbersFit'  BY <1>1, <1>7 DEF NumbersFit
<1>9. TicketsFit'  BY <1>1, <1>7 DEF TicketsFit
<1>10. QED  BY <1>4, <1>5, <1>6, <1>8, <1>9

\* A node whose session is gone goes as well, and was nobody's.
LEMMA NodeGoesStep ==
    ASSUME IndInv, ExpireLingering \/ ExpireLeaked
    PROVE  IndInv'
<1> USE DEF IndInv
<1>1. /\ lock \in {Lingering, Leaked} /\ lock' = Free
      /\ UNCHANGED <<session, jobdir, config, builds, pc, op, code, number, tickets, removed,
                     arrivals, expiries, raised>>
  BY DEF ExpireLingering, ExpireLeaked, storage, ghosts
<1>2. TypeOK'  BY <1>1 DEF TypeOK
<1>3. \A h \in Handler : lock # h  BY <1>1, Typed
<1>4. LockFits'  BY <1>1, <1>3 DEF LockFits, Holds
<1>5. SessionsFit'  BY <1>1 DEF SessionsFit
<1>6. Waiting' = Waiting /\ Existing' = Existing /\ \A n \in Number : Making(n)' = Making(n)
  BY <1>1 DEF Waiting, Existing, Making
<1>7. NumbersFit'  BY <1>1, <1>6 DEF NumbersFit
<1>8. TicketsFit'  BY <1>1, <1>6 DEF TicketsFit
<1>9. QED  BY <1>2, <1>4, <1>5, <1>7, <1>8

\* A request that ends holds nothing any more: it is forgotten or answered.
LEMMA RequestEnds ==
    ASSUME IndInv, NEW h \in Handler,
           UNCHANGED <<builds, tickets, removed, arrivals, expiries>>,
           raised' \in 0 .. MaxRaised,
           jobdir' \in BOOLEAN, config' \in BOOLEAN,
           \E place \in {"done", "idle"} : pc' = [pc EXCEPT ![h] = place],
           op' = op \/ op' = [op EXCEPT ![h] = "none"],
           \E a \in {"none", "ok", "not_found", "locked", "error"} : code' = [code EXCEPT ![h] = a],
           number' = number \/ number' = [number EXCEPT ![h] = 0],
           session' = session \/ session' = [session EXCEPT ![h] = "none"],
           lock' = lock \/ (lock = h /\ lock' \in {Leaked, Lingering})
    PROVE  IndInv'
<1> USE DEF IndInv
<1>1. PICK place \in {"done", "idle"} : pc' = [pc EXCEPT ![h] = place]  OBVIOUS
<1>2. pc'[h] = place /\ \A g \in Handler : g # h => pc'[g] = pc[g]  BY <1>1 DEF TypeOK
<1>3. OthersStay(h)  BY <1>2 DEF OthersStay, TypeOK
<1>4. h \notin Waiting' /\ pc'[h] \notin Section /\ \A n \in Number : h \notin Making(n)'
  BY <1>2 DEF Waiting, Section, Making
<1>5. pc' \in [Handler -> Section \cup {"idle", "lock", "state", "task", "delete",
                                        "rmdir", "remove", "done"}]
  BY <1>1 DEF TypeOK
<1>6. /\ op' \in [Handler -> Operation \cup {"none"}]
      /\ code' \in [Handler -> {"none", "ok", "not_found", "locked", "error"}]
      /\ number' \in [Handler -> Number \cup {0}]
      /\ session' \in [Handler -> {"none", "open", "expired"}]
      /\ lock' \in Handler \cup {Free, Lingering, Leaked}
  BY DEF TypeOK
<1>7. pc'[h] # "mkdir"  BY <1>2
<1>8. \A g \in Handler : g # h /\ lock = g => lock' = g  OBVIOUS
<1>9. QED  BY <1>3, <1>4, <1>5, <1>6, <1>7, <1>8, HandlerStep

\* A request that was answered is over, and a process may die at any time.
LEMMA FinishStep ==
    ASSUME IndInv, NEW h \in Handler, Finish(h) \/ Crash(h)
    PROVE  IndInv'
<1> USE DEF IndInv
<1>1. /\ pc' = [pc EXCEPT ![h] = "idle"]
      /\ op' = [op EXCEPT ![h] = "none"]
      /\ code' = [code EXCEPT ![h] = "none"]
      /\ number' = [number EXCEPT ![h] = 0]
      /\ UNCHANGED <<jobdir, config, builds, tickets, removed, arrivals, expiries, raised>>
  BY DEF Finish, Crash, Forget, storage, ghosts
<1>2. /\ session' = session \/ session' = [session EXCEPT ![h] = "none"]
      /\ lock' = lock \/ (lock = h /\ lock' \in {Leaked, Lingering})
  BY DEF Finish, Crash, zk
<1>3. jobdir' \in BOOLEAN /\ config' \in BOOLEAN /\ raised' \in 0 .. MaxRaised
  BY <1>1 DEF TypeOK
<1>4. QED  BY <1>1, <1>2, <1>3, RequestEnds

-----------------------------------------------------------------------------
(* trigger_build *)

\* A missing job ends the request, lock or no lock.
LEMMA CheckJobStep ==
    ASSUME IndInv, NEW h \in Handler, CheckJob(h)
    PROVE  IndInv'
<1> USE DEF IndInv
<1>1. /\ pc[h] = "check"
      /\ UNCHANGED <<op, number, jobdir, config, builds, tickets, removed, arrivals, expiries>>
  BY DEF CheckJob, storage
<1>2. \/ /\ pc' = [pc EXCEPT ![h] = "list"] /\ code' = code
         /\ lock' = lock /\ session' = session
      \/ /\ pc' = [pc EXCEPT ![h] = "done"]
         /\ \E a \in {"not_found", "error"} : code' = [code EXCEPT ![h] = a]
         /\ lock' = (IF lock = h THEN Leaked ELSE lock)
         /\ session' = [session EXCEPT ![h] = "none"]
  BY DEF CheckJob, GoTo, Reply, LeaveLockBehind, Raise, zk
<1>3. raised' = raised \/ (raised < MaxRaised /\ raised' = raised + 1)
  BY DEF CheckJob, Raise
<1>4. raised' \in 0 .. MaxRaised  BY <1>3, Typed
<1> USE <1>1, <1>4
<1>5. CASE /\ pc' = [pc EXCEPT ![h] = "list"] /\ code' = code
           /\ lock' = lock /\ session' = session
  <2>1. pc'[h] = "list" /\ OthersStay(h)  BY <1>5 DEF OthersStay, TypeOK
  <2>2. h \in Waiting /\ \A n \in Number : h \notin Making(n)'  BY <2>1 DEF Waiting, Making
  <2>3. pc' \in [Handler -> Section \cup {"idle", "lock", "state", "task", "delete",
                                          "rmdir", "remove", "done"}]
    BY <1>5 DEF TypeOK, Section
  <2>4. session[h] = "open" => lock = h  BY DEF LockFits, Holds, Section
  <2>5. expiries = 0 => session[h] = "open"  BY DEF SessionsFit, Section
  <2>6. QED  BY <1>5, <2>1, <2>2, <2>3, <2>4, <2>5, HandlerStep DEF TypeOK
<1>6. CASE /\ pc' = [pc EXCEPT ![h] = "done"]
           /\ \E a \in {"not_found", "error"} : code' = [code EXCEPT ![h] = a]
           /\ lock' = (IF lock = h THEN Leaked ELSE lock)
           /\ session' = [session EXCEPT ![h] = "none"]
  BY <1>6, RequestEnds DEF TypeOK
<1>7. QED  BY <1>2, <1>5, <1>6

\* The number of a listing is within the triggers that came so far.
LEMMA ListBuildsStep ==
    ASSUME IndInv, NEW h \in Handler, ListBuilds(h)
    PROVE  IndInv'
<1> USE DEF IndInv
<1>1. /\ pc[h] = "list"
      /\ UNCHANGED <<op, jobdir, config, builds, tickets, removed, arrivals, expiries>>
  BY DEF ListBuilds, storage
<1>2. \/ /\ \E listed \in Listings : number' = [number EXCEPT ![h] = NextNumber(listed)]
         /\ pc' = [pc EXCEPT ![h] = "mkdir"] /\ code' = code
         /\ lock' = lock /\ session' = session
      \/ /\ pc' = [pc EXCEPT ![h] = "done"] /\ code' = [code EXCEPT ![h] = "error"]
         /\ lock' = (IF lock = h THEN Leaked ELSE lock)
         /\ session' = [session EXCEPT ![h] = "none"]
         /\ number' = number
  BY DEF ListBuilds, GoTo, Reply, LeaveLockBehind, Raise, zk
<1>3. raised' = raised \/ (raised < MaxRaised /\ raised' = raised + 1)
  BY DEF ListBuilds, Raise
<1>4. raised' \in 0 .. MaxRaised  BY <1>3, Typed
<1> USE <1>1, <1>4
<1>5. CASE /\ \E listed \in Listings : number' = [number EXCEPT ![h] = NextNumber(listed)]
           /\ pc' = [pc EXCEPT ![h] = "mkdir"] /\ code' = code
           /\ lock' = lock /\ session' = session
  <2>1. PICK listed \in Listings : number' = [number EXCEPT ![h] = NextNumber(listed)]
    BY <1>5
  <2>2. listed \subseteq Existing /\ Existing \subseteq Number  BY DEF Listings, Existing
  <2>3. h \in Waiting /\ IsFiniteSet(Waiting)  BY DEF Waiting, NumbersFit
  <2>4. /\ pc'[h] = "mkdir"
        /\ \A g \in Handler : g # h => pc'[g] = pc[g] /\ number'[g] = number[g]
    BY <1>5, <2>1 DEF TypeOK
  <2>5. Waiting' \subseteq Waiting \ {h}
    BY <2>4 DEF Waiting
  <2>6. /\ IsFiniteSet(Waiting') /\ Cardinality(Waiting') \in Nat /\ Cardinality(Waiting) \in Nat
        /\ Cardinality(Waiting') + 1 <= Cardinality(Waiting)
    BY <2>3, <2>5, OneLess
  <2> DEFINE new == NextNumber(listed)
  <2>7. /\ new \in Nat \ {0}
        /\ listed = {} => new = 1
        /\ listed # {} => \E n \in listed : new = n + 1
    BY <2>2, NextNumberDoes, Typed
  <2> HIDE DEF new
  <2>8. new + Cardinality(Waiting') <= arrivals
    <3>1. CASE listed = {}  BY <2>6, <2>7, <3>1, Typed DEF NumbersFit
    <3>2. CASE listed # {}
      <4>1. PICK n \in listed : new = n + 1  BY <2>7, <3>2
      <4>2. n \in Nat /\ n + Cardinality(Waiting) <= arrivals  BY <2>2, Typed DEF NumbersFit
      <4>3. QED  BY <2>6, <4>1, <4>2, Typed
    <3>3. QED  BY <3>1, <3>2
  <2>9. new \in Number  BY <2>6, <2>7, <2>8, Typed DEF Number
  <2>10. number'[h] = new /\ number' \in [Handler -> Number \cup {0}]
    BY <2>1, <2>9 DEF TypeOK, new
  <2>11. TypeOK'
    <3>1. pc' \in [Handler -> Section \cup {"idle", "lock", "state", "task", "delete",
                                            "rmdir", "remove", "done"}]
      BY <1>5 DEF TypeOK, Section
    <3>2. QED  BY <1>5, <2>10, <3>1 DEF TypeOK
  <2>12. OthersStay(h)  BY <1>5, <2>4 DEF OthersStay
  <2>13. LockFits'
    <3>1. session[h] = "open" => lock = h  BY DEF LockFits, Holds, Section
    <3>2. QED  BY <1>5, <2>12, <3>1, LockKeeps
  <2>14. SessionsFit'
    <3>1. expiries = 0 => session[h] = "open"  BY DEF SessionsFit, Section
    <3>2. QED  BY <1>5, <2>12, <3>1, SessionsKeep
  <2>15. Existing' = Existing  BY DEF Existing
  <2>16. NumbersFit'
    <3>1. \A n \in Number : n + Cardinality(Waiting) <= arrivals => n + Cardinality(Waiting') <= arrivals
      BY <2>6, Typed
    <3>2. Cardinality(Waiting') <= arrivals  BY <2>6, Typed DEF NumbersFit
    <3>3. \A n \in Existing : n + Cardinality(Waiting') <= arrivals
      BY <2>2, <3>1 DEF NumbersFit
    <3>4. \A g \in Handler : pc'[g] = "mkdir" =>
             number'[g] \in Number /\ number'[g] + Cardinality(Waiting') <= arrivals
      BY <2>4, <2>8, <2>9, <2>10, <3>1 DEF NumbersFit
    <3>5. QED  BY <2>6, <2>15, <3>2, <3>3, <3>4 DEF NumbersFit
  <2>17. TicketsFit'
    <3>1. \A n \in Number : h \notin Making(n)'  BY <2>4 DEF Making
    <3>2. QED  BY <2>12, <2>15, <3>1, TicketsKeep
  <2>18. QED  BY <2>11, <2>13, <2>14, <2>16, <2>17
<1>6. CASE /\ pc' = [pc EXCEPT ![h] = "done"] /\ code' = [code EXCEPT ![h] = "error"]
           /\ lock' = (IF lock = h THEN Leaked ELSE lock)
           /\ session' = [session EXCEPT ![h] = "none"]
           /\ number' = number
  BY <1>6, RequestEnds DEF TypeOK
<1>7. QED  BY <1>2, <1>5, <1>6

\* One mkdir succeeds for each number: the handler may post one ticket.
LEMMA MakeBuildDirStep ==
    ASSUME IndInv, NEW h \in Handler, MakeBuildDir(h)
    PROVE  IndInv'
<1> USE DEF IndInv
<1>1. /\ pc[h] = "mkdir"
      /\ UNCHANGED <<lock, session, jobdir, config, op, number, tickets, removed, arrivals, expiries, raised>>
  BY DEF MakeBuildDir, MkdirFailed, zk, ghosts
<1>2. /\ pc' = [pc EXCEPT ![h] = "unlock"]
      /\ \/ /\ builds[number[h]] = "absent"
            /\ builds' = [builds EXCEPT ![number[h]] = "empty"]
            /\ code' = code
         \/ builds' = builds /\ code' = [code EXCEPT ![h] = "error"]
  BY DEF MakeBuildDir, MkdirFailed, ReplyUnlocked, DirectoryIsNew, GoTo
<1> USE <1>1
<1>3. number[h] \in Number /\ number[h] + Cardinality(Waiting) <= arrivals  BY DEF NumbersFit
<1>4. pc'[h] = "unlock" /\ OthersStay(h)  BY <1>2 DEF OthersStay, TypeOK
<1>5. LockFits'
  <2>1. session[h] = "open" => lock = h  BY DEF LockFits, Holds, Section
  <2>2. QED  BY <1>4, <2>1, LockKeeps
<1>6. SessionsFit'
  <2>1. expiries = 0 => session[h] = "open"  BY DEF SessionsFit, Section
  <2>2. QED  BY <1>4, <2>1, SessionsKeep
<1>7. TypeOK'
  <2>1. pc' \in [Handler -> Section \cup {"idle", "lock", "state", "task", "delete",
                                          "rmdir", "remove", "done"}]
    BY <1>2 DEF TypeOK, Section
  <2>2. code' \in [Handler -> {"none", "ok", "not_found", "locked", "error"}]
        /\ builds' \in [Number -> {"absent", "empty", "preparing"}]
    BY <1>2 DEF TypeOK
  <2>3. QED  BY <2>1, <2>2 DEF TypeOK
<1>8. CASE builds' = builds /\ code' = [code EXCEPT ![h] = "error"]
  <2>1. Existing' = Existing  BY <1>8 DEF Existing
  <2>2. h \notin Waiting'  BY <1>4 DEF Waiting
  <2>3. NumbersFit'  BY <1>4, <2>1, <2>2, NumbersKeep
  <2>4. code'[h] = "error"  BY <1>8 DEF TypeOK
  <2>5. \A n \in Number : h \notin Making(n)'  BY <1>4, <2>4 DEF Making
  <2>6. TicketsFit'  BY <1>4, <2>1, <2>5, TicketsKeep
  <2>7. QED  BY <1>5, <1>6, <1>7, <2>3, <2>6
<1>9. CASE /\ builds[number[h]] = "absent"
           /\ builds' = [builds EXCEPT ![number[h]] = "empty"]
           /\ code' = code
  <2>1. Existing' = Existing \cup {number[h]} /\ number[h] \notin Existing
    BY <1>3, <1>9 DEF Existing, TypeOK
  <2>2. Waiting' = Waiting
    <3>1. h \notin Waiting /\ h \notin Waiting'  BY <1>4 DEF Waiting
    <3>2. \A g \in Handler : g # h => (g \in Waiting' <=> g \in Waiting)
      BY <1>4 DEF Waiting, OthersStay
    <3>3. QED  BY <3>1, <3>2 DEF Waiting
  <2>3. NumbersFit'
    <3>1. \A n \in Existing' : n + Cardinality(Waiting') <= arrivals
      BY <1>3, <2>1, <2>2 DEF NumbersFit
    <3>2. \A g \in Handler : pc'[g] = "mkdir" => pc[g] = "mkdir"
      BY <1>4 DEF OthersStay
    <3>3. QED  BY <2>2, <3>1, <3>2 DEF NumbersFit
  <2>4. TicketsFit'
    <3>1. SUFFICES ASSUME NEW n \in Number
                   PROVE  /\ IsFiniteSet(Making(n)')
                          /\ tickets[n] + Cardinality(Making(n)')
                                <= removed[n] + IF n \in Existing' THEN 1 ELSE 0
      BY DEF TicketsFit
    <3>2. \A g \in Handler : g # h => (g \in Making(n)' <=> g \in Making(n))
      BY <1>4 DEF Making, OthersStay
    <3>3. /\ IsFiniteSet(Making(n))
          /\ tickets[n] + Cardinality(Making(n)) <= removed[n] + IF n \in Existing THEN 1 ELSE 0
      BY DEF TicketsFit
    <3>4. tickets[n] \in Nat /\ removed[n] \in Nat  BY Typed
    <3>5. CASE n = number[h]
      <4>1. Making(n)' \subseteq Making(n) \cup {h}  BY <3>2 DEF Making
      <4>2. /\ IsFiniteSet(Making(n)') /\ Cardinality(Making(n)') \in Nat
            /\ Cardinality(Making(n)) \in Nat
            /\ Cardinality(Making(n)') <= Cardinality(Making(n)) + 1
        BY <3>3, <4>1, OneMore
      <4>3. n \in Existing' /\ n \notin Existing  BY <2>1, <3>5
      <4>4. QED  BY <3>3, <3>4, <4>2, <4>3
    <3>6. CASE n # number[h]
      <4>1. Making(n)' \subseteq Making(n)  BY <3>2, <3>6 DEF Making
      <4>2. /\ IsFiniteSet(Making(n)') /\ Cardinality(Making(n)') \in Nat
            /\ Cardinality(Making(n)) \in Nat
            /\ Cardinality(Making(n)') <= Cardinality(Making(n))
        BY <3>3, <4>1, NoMore
      <4>3. n \in Existing' <=> n \in Existing  BY <2>1, <3>6
      <4>4. QED  BY <3>3, <3>4, <4>2, <4>3
    <3>7. QED  BY <3>5, <3>6
  <2>5. QED  BY <1>5, <1>6, <1>7, <2>3, <2>4
<1>10. QED  BY <1>2, <1>8, <1>9

\* The state file goes where the directory is; the build stays one build.
LEMMA WriteStateStep ==
    ASSUME IndInv, NEW h \in Handler, WriteState(h)
    PROVE  IndInv'
<1> USE DEF IndInv
<1>1. /\ pc[h] = "state"
      /\ UNCHANGED <<lock, session, jobdir, config, op, number, tickets, removed, arrivals, expiries, raised>>
  BY DEF WriteState, zk, ghosts
<1>2. \/ /\ builds[number[h]] # "absent"
         /\ builds' = [builds EXCEPT ![number[h]] = "preparing"]
         /\ pc' = [pc EXCEPT ![h] = "task"] /\ code' = code
      \/ /\ pc' = [pc EXCEPT ![h] = "done"] /\ code' = [code EXCEPT ![h] = "error"]
         /\ builds' = builds
  BY DEF WriteState, GoTo, Reply
<1> USE <1>1
<1>3. CASE /\ builds[number[h]] # "absent"
           /\ builds' = [builds EXCEPT ![number[h]] = "preparing"]
           /\ pc' = [pc EXCEPT ![h] = "task"] /\ code' = code
  <2>1. pc'[h] = "task" /\ OthersStay(h)  BY <1>3 DEF OthersStay, TypeOK
  <2>2. builds' \in [Number -> {"absent", "empty", "preparing"}]  BY <1>3 DEF TypeOK
  <2>3. Existing' = Existing  BY <1>3 DEF Existing, TypeOK
  <2>4. TypeOK'
    <3>1. pc' \in [Handler -> Section \cup {"idle", "lock", "state", "task", "delete",
                                            "rmdir", "remove", "done"}]
      BY <1>3 DEF TypeOK
    <3>2. QED  BY <1>3, <2>2, <3>1 DEF TypeOK
  <2>5. h \notin Waiting' /\ pc'[h] \notin Section /\ pc'[h] # "mkdir"
    BY <2>1 DEF Waiting, Section
  <2>6. \A n \in Number : h \in Making(n)' => h \in Making(n)  BY DEF Making
  <2>7. LockFits'  BY <2>1, <2>5, LockKeeps
  <2>8. SessionsFit'  BY <2>1, <2>5, SessionsKeep
  <2>9. NumbersFit'  BY <2>1, <2>3, <2>5, NumbersKeep
  <2>10. TicketsFit'  BY <2>1, <2>3, <2>6, TicketsKeep
  <2>11. QED  BY <2>4, <2>7, <2>8, <2>9, <2>10
<1>4. CASE /\ pc' = [pc EXCEPT ![h] = "done"] /\ code' = [code EXCEPT ![h] = "error"]
           /\ builds' = builds
  BY <1>4, RequestEnds DEF TypeOK
<1>5. QED  BY <1>2, <1>3, <1>4

\* Posting uses up what making the directory allowed.
LEMMA PostTicketStep ==
    ASSUME IndInv, NEW h \in Handler, PostTicket(h)
    PROVE  IndInv'
<1> USE DEF IndInv
<1>1. /\ pc[h] = "task"
      /\ UNCHANGED <<lock, session, jobdir, config, builds, op, number, removed, arrivals, expiries, raised>>
      /\ pc' = [pc EXCEPT ![h] = "done"]
      /\ \E a \in {"ok", "error"} : code' = [code EXCEPT ![h] = a]
  BY DEF PostTicket, Reply, zk, storage
<1>2. tickets' = [tickets EXCEPT ![number[h]] = @ + 1] \/ tickets' = tickets
  BY DEF PostTicket
<1> USE <1>1
<1>3. CASE tickets' = tickets  BY <1>3, RequestEnds DEF TypeOK
<1>4. CASE tickets' = [tickets EXCEPT ![number[h]] = @ + 1]
  <2>1. pc'[h] = "done" /\ OthersStay(h)  BY <1>1 DEF OthersStay, TypeOK
  <2>2. tickets' \in [Number -> Nat]
    <3>1. tickets \in [Number -> Nat]  BY DEF TypeOK
    <3>2. \A n \in Number : tickets[n] + 1 \in Nat  BY <3>1
    <3>3. QED  BY <1>4, <3>1, <3>2
  <2>3. TypeOK'
    <3>1. pc' \in [Handler -> Section \cup {"idle", "lock", "state", "task", "delete",
                                            "rmdir", "remove", "done"}]
          /\ code' \in [Handler -> {"none", "ok", "not_found", "locked", "error"}]
      BY <1>1 DEF TypeOK
    <3>2. QED  BY <2>2, <3>1 DEF TypeOK
  <2>4. h \notin Waiting' /\ pc'[h] \notin Section /\ pc'[h] # "mkdir"
    BY <2>1 DEF Waiting, Section
  <2>5. Existing' = Existing  BY DEF Existing
  <2>6. LockFits'  BY <2>1, <2>4, LockKeeps
  <2>7. SessionsFit'  BY <2>1, <2>4, SessionsKeep
  <2>8. NumbersFit'  BY <2>1, <2>4, <2>5, NumbersKeep
  <2>9. TicketsFit'
    <3>1. SUFFICES ASSUME NEW n \in Number
                   PROVE  /\ IsFiniteSet(Making(n)')
                          /\ tickets'[n] + Cardinality(Making(n)')
                                <= removed[n] + IF n \in Existing THEN 1 ELSE 0
      BY <2>5 DEF TicketsFit
    <3>2. \A g \in Handler : g # h => (g \in Making(n)' <=> g \in Making(n))
      BY <2>1 DEF Making, OthersStay
    <3>3. /\ IsFiniteSet(Making(n))
          /\ tickets[n] + Cardinality(Making(n)) <= removed[n] + IF n \in Existing THEN 1 ELSE 0
      BY DEF TicketsFit
    <3>4. tickets[n] \in Nat /\ removed[n] \in Nat  BY Typed
    <3>5. h \notin Making(n)'  BY <2>1 DEF Making
    <3>6. CASE n = number[h]
      <4>1. h \in Making(n)  BY <3>6 DEF Making
      <4>2. Making(n)' \subseteq Making(n) \ {h}  BY <3>2, <3>5 DEF Making
      <4>3. /\ IsFiniteSet(Making(n)') /\ Cardinality(Making(n)') \in Nat
            /\ Cardinality(Making(n)) \in Nat
            /\ Cardinality(Making(n)') + 1 <= Cardinality(Making(n))
        BY <3>3, <4>1, <4>2, OneLess
      <4>4. tickets'[n] = tickets[n] + 1  BY <1>4, <3>6 DEF TypeOK
      <4>5. tickets'[n] + Cardinality(Making(n)') <= tickets[n] + Cardinality(Making(n))
        BY <3>4, <4>3, <4>4
      <4>6. CASE n \in Existing  BY <3>3, <3>4, <4>3, <4>4, <4>6
      <4>7. CASE n \notin Existing  BY <3>3, <3>4, <4>3, <4>4, <4>7
      <4>8. QED  BY <4>3, <4>6, <4>7
    <3>7. CASE n # number[h]
      <4>1. Making(n)' \subseteq Making(n)  BY <3>2, <3>5 DEF Making
      <4>2. /\ IsFiniteSet(Making(n)') /\ Cardinality(Making(n)') \in Nat
            /\ Cardinality(Making(n)) \in Nat
            /\ Cardinality(Making(n)') <= Cardinality(Making(n))
        BY <3>3, <4>1, NoMore
      <4>3. tickets'[n] = tickets[n]  BY <1>4, <3>7 DEF TypeOK
      <4>4. CASE n \in Existing  BY <3>3, <3>4, <4>2, <4>3, <4>4
      <4>5. CASE n \notin Existing  BY <3>3, <3>4, <4>2, <4>3, <4>5
      <4>6. QED  BY <4>2, <4>4, <4>5
    <3>8. QED  BY <3>6, <3>7
  <2>10. QED  BY <2>3, <2>6, <2>7, <2>8, <2>9
<1>5. QED  BY <1>2, <1>3, <1>4

-----------------------------------------------------------------------------
(* create_or_update_job, delete_job and delete_build *)

\* Configuring a job moves between the calls of its section.
LEMMA ConfigureStep ==
    ASSUME IndInv, NEW h \in Handler, EnsureJobDir(h) \/ WriteConfig(h),
           UNCHANGED zk, raised' = raised
    PROVE  IndInv'
<1> USE DEF IndInv
<1>1. /\ pc[h] \in {"ensure", "config"}
      /\ UNCHANGED <<lock, session, builds, op, number, tickets, removed, arrivals, expiries>>
  BY DEF EnsureJobDir, WriteConfig, zk, ghosts
<1>2. /\ jobdir' \in {jobdir, TRUE} /\ config' \in {config, TRUE}
      /\ \/ pc' = [pc EXCEPT ![h] = "config"] /\ code' = code
         \/ /\ pc' = [pc EXCEPT ![h] = "unlock"]
            /\ \E a \in {"ok", "error"} : code' = [code EXCEPT ![h] = a]
  <2>1. raised # raised + 1  BY Typed
  <2>2. CASE EnsureJobDir(h)  BY <2>1, <2>2 DEF EnsureJobDir, GoTo, ReplyUnlocked, Raise
  <2>3. CASE WriteConfig(h)  BY <2>3 DEF WriteConfig, GoTo, ReplyUnlocked
  <2>4. QED  BY <2>2, <2>3
<1> USE <1>1
<1>3. pc'[h] \in {"config", "unlock"} /\ (pc'[h] = "unlock" => code'[h] \in {"ok", "error"})
      /\ OthersStay(h)
  BY <1>2 DEF OthersStay, TypeOK
<1>4. h \notin Waiting' /\ \A n \in Number : h \notin Making(n)'
  BY <1>3 DEF Waiting, Making
<1>5. /\ pc' \in [Handler -> Section \cup {"idle", "lock", "state", "task", "delete",
                                           "rmdir", "remove", "done"}]
      /\ code' \in [Handler -> {"none", "ok", "not_found", "locked", "error"}]
      /\ jobdir' \in BOOLEAN /\ config' \in BOOLEAN
  <2>1. "config" \in Section /\ "unlock" \in Section  BY DEF Section
  <2>2. pc' = [pc EXCEPT ![h] = "config"] \/ pc' = [pc EXCEPT ![h] = "unlock"]  BY <1>2
  <2>3. pc' \in [Handler -> Section \cup {"idle", "lock", "state", "task", "delete",
                                          "rmdir", "remove", "done"}]
    BY <2>1, <2>2 DEF TypeOK
  <2>4. code' \in [Handler -> {"none", "ok", "not_found", "locked", "error"}]
    BY <1>2 DEF TypeOK
  <2>5. QED  BY <1>2, <2>3, <2>4 DEF TypeOK
<1>6. session[h] = "open" => lock = h  BY DEF LockFits, Holds, Section
<1>7. expiries = 0 => session[h] = "open"  BY DEF SessionsFit, Section
<1>8. pc'[h] # "mkdir"  BY <1>3
<1>9. QED  BY <1>3, <1>4, <1>5, <1>6, <1>7, <1>8, HandlerStep DEF TypeOK

\* A storage call that raises under the lock ends the request, lock or no lock.
LEMMA RaiseStep ==
    ASSUME IndInv, NEW h \in Handler, Raise(h),
           UNCHANGED <<jobdir, config, builds, op, number, tickets, removed, arrivals, expiries>>
    PROVE  IndInv'
<1> USE DEF IndInv
<1>1. /\ raised < MaxRaised /\ raised' = raised + 1
      /\ pc' = [pc EXCEPT ![h] = "done"] /\ code' = [code EXCEPT ![h] = "error"]
      /\ lock' = IF lock = h THEN Leaked ELSE lock
      /\ session' = [session EXCEPT ![h] = "none"]
  BY DEF Raise, Reply, LeaveLockBehind
<1>2. raised' \in 0 .. MaxRaised  BY <1>1, Typed
<1>3. QED  BY <1>1, <1>2, RequestEnds DEF TypeOK

\* Creating the job's directory may raise, or goes on with the lock.
LEMMA EnsureJobDirStep ==
    ASSUME IndInv, NEW h \in Handler, EnsureJobDir(h)
    PROVE  IndInv'
<1>1. CASE UNCHANGED <<zk, raised>>  BY <1>1, ConfigureStep
<1>2. CASE Raise(h) /\ UNCHANGED jobdir
  <2>1. UNCHANGED <<jobdir, config, builds, op, number, tickets, removed, arrivals, expiries>>
    BY <1>2 DEF EnsureJobDir
  <2>2. QED  BY <1>2, <2>1, RaiseStep
<1>3. QED  BY <1>1, <1>2 DEF EnsureJobDir

\* A removal counts each build it removed, and makes none.
LEMMA RemoveDoes ==
    ASSUME TypeOK, NEW gone, Remove(gone)
    PROVE  /\ builds' \in [Number -> {"absent", "empty", "preparing"}]
           /\ Existing' \subseteq Existing
           /\ removed' \in [Number -> Nat]
           /\ \A n \in Number :
                 \/ removed'[n] = removed[n] /\ (n \in Existing => n \in Existing')
                 \/ removed'[n] = removed[n] + 1
<1>1. /\ builds' = [n \in Number |-> IF n \in gone THEN "absent" ELSE builds[n]]
      /\ removed' = [n \in Number |-> IF n \in gone \cap Existing THEN removed[n] + 1 ELSE removed[n]]
  BY DEF Remove
<1>2. \A n \in Number : /\ builds'[n] = IF n \in gone THEN "absent" ELSE builds[n]
                        /\ removed'[n] = IF n \in gone \cap Existing THEN removed[n] + 1 ELSE removed[n]
  BY <1>1
<1>3. \A n \in Number : removed[n] \in Nat /\ builds[n] \in {"absent", "empty", "preparing"}
  BY DEF TypeOK
<1>4. builds' \in [Number -> {"absent", "empty", "preparing"}]  BY <1>1, <1>3
<1>5. removed' \in [Number -> Nat]  BY <1>1, <1>3
<1>6. Existing' \subseteq Existing  BY <1>2 DEF Existing
<1>7. ASSUME NEW n \in Number
      PROVE  \/ removed'[n] = removed[n] /\ (n \in Existing => n \in Existing')
             \/ removed'[n] = removed[n] + 1
  <2>1. CASE n \in gone \cap Existing  BY <1>2, <2>1
  <2>2. CASE n \notin gone \cap Existing  BY <1>2, <2>2 DEF Existing
  <2>3. QED  BY <2>1, <2>2
<1>8. QED  BY <1>4, <1>5, <1>6, <1>7

\* Deletions take no lock and keep to what is there.
LEMMA RemovalStep ==
    ASSUME IndInv, NEW h \in Handler,
           UNCHANGED <<lock, session, op, number, tickets, arrivals, expiries, raised>>,
           jobdir' \in BOOLEAN, config' \in BOOLEAN,
           \E place \in {"done", "rmdir"} : pc' = [pc EXCEPT ![h] = place],
           code' = code
              \/ \E a \in {"ok", "not_found", "error"} : code' = [code EXCEPT ![h] = a],
           builds' \in [Number -> {"absent", "empty", "preparing"}],
           Existing' \subseteq Existing,
           removed' \in [Number -> Nat],
           \A n \in Number :
              \/ removed'[n] = removed[n] /\ (n \in Existing => n \in Existing')
              \/ removed'[n] = removed[n] + 1
    PROVE  IndInv'
<1> USE DEF IndInv
<1>1. PICK place \in {"done", "rmdir"} : pc' = [pc EXCEPT ![h] = place]  OBVIOUS
<1>2. pc'[h] = place /\ OthersStay(h)  BY <1>1 DEF OthersStay, TypeOK
<1>3. h \notin Waiting' /\ pc'[h] \notin Section /\ pc'[h] # "mkdir"
      /\ \A n \in Number : h \notin Making(n)'
  BY <1>2 DEF Waiting, Section, Making
<1>4. TypeOK'
  <2>1. /\ pc' \in [Handler -> Section \cup {"idle", "lock", "state", "task", "delete",
                                             "rmdir", "remove", "done"}]
        /\ code' \in [Handler -> {"none", "ok", "not_found", "locked", "error"}]
    BY <1>1 DEF TypeOK
  <2>2. QED  BY <2>1 DEF TypeOK
<1>5. LockFits'  BY <1>2, <1>3, LockKeeps
<1>6. SessionsFit'  BY <1>2, <1>3, SessionsKeep
<1>7. NumbersFit'  BY <1>2, <1>3, NumbersKeep
<1>8. TicketsFit'  BY <1>2, <1>3, TicketsKeep
<1>9. QED  BY <1>4, <1>5, <1>6, <1>7, <1>8

\* delete_job up to the last rmdir, and the rmdir.
LEMMA DeleteJobStep ==
    ASSUME IndInv, NEW h \in Handler, EmptyJobDir(h) \/ RemoveJobDir(h)
    PROVE  IndInv'
<1> USE DEF IndInv
<1>1. CASE RemoveJobDir(h)
  <2>1. /\ UNCHANGED <<lock, session, config, builds, op, number, tickets, removed, arrivals, expiries, raised>>
        /\ jobdir' \in {jobdir, FALSE}
        /\ pc' = [pc EXCEPT ![h] = "done"]
        /\ \E a \in {"ok", "not_found", "error"} : code' = [code EXCEPT ![h] = a]
    BY <1>1 DEF RemoveJobDir, Reply, zk, ghosts
  <2>2. QED  BY <2>1, RequestEnds DEF TypeOK
<1>2. CASE EmptyJobDir(h)
  <2>1. /\ UNCHANGED <<lock, session, jobdir, op, number, tickets, arrivals, expiries, raised>>
        /\ config' \in {config, FALSE}
        /\ \E place \in {"done", "rmdir"} : pc' = [pc EXCEPT ![h] = place]
        /\ code' = code \/ \E a \in {"ok", "not_found", "error"} : code' = [code EXCEPT ![h] = a]
        /\ UNCHANGED <<builds, removed>> \/ \E gone : Remove(gone)
    BY <1>2 DEF EmptyJobDir, GoTo, Reply, zk
  <2>2. CASE UNCHANGED <<builds, removed>>
    <3>1. Existing' = Existing  BY <2>2 DEF Existing
    <3>2. QED  BY <2>1, <2>2, <3>1, RemovalStep DEF TypeOK
  <2>3. CASE \E gone : Remove(gone)
    <3>1. /\ builds' \in [Number -> {"absent", "empty", "preparing"}]
          /\ Existing' \subseteq Existing
          /\ removed' \in [Number -> Nat]
          /\ \A n \in Number :
                \/ removed'[n] = removed[n] /\ (n \in Existing => n \in Existing')
                \/ removed'[n] = removed[n] + 1
      BY <2>3, RemoveDoes
    <3>2. jobdir' \in BOOLEAN /\ config' \in BOOLEAN  BY <2>1 DEF TypeOK
    <3>3. QED  BY <2>1, <3>1, <3>2, RemovalStep
  <2>4. QED  BY <2>1, <2>2, <2>3
<1>3. QED  BY <1>1, <1>2

\* delete_build, whole or halfway.
LEMMA DeleteBuildStep ==
    ASSUME IndInv, NEW h \in Handler, DeleteBuild(h)
    PROVE  IndInv'
<1> USE DEF IndInv
<1>1. /\ UNCHANGED <<lock, session, jobdir, config, op, number, tickets, arrivals, expiries, raised>>
      /\ pc' = [pc EXCEPT ![h] = "done"]
      /\ \E a \in {"ok", "not_found", "error"} : code' = [code EXCEPT ![h] = a]
      /\ \/ UNCHANGED <<builds, removed>>
         \/ /\ number[h] \in Existing
            /\ builds' = [builds EXCEPT ![number[h]] = "empty"]
            /\ removed' = removed
         \/ \E gone : Remove(gone)
  BY DEF DeleteBuild, Reply, zk
<1>2. jobdir' \in BOOLEAN /\ config' \in BOOLEAN  BY <1>1 DEF TypeOK
<1>3. /\ builds' \in [Number -> {"absent", "empty", "preparing"}]
      /\ Existing' \subseteq Existing
      /\ removed' \in [Number -> Nat]
      /\ \A n \in Number :
            \/ removed'[n] = removed[n] /\ (n \in Existing => n \in Existing')
            \/ removed'[n] = removed[n] + 1
  <2>1. CASE UNCHANGED <<builds, removed>>  BY <2>1 DEF Existing, TypeOK
  <2>2. CASE /\ number[h] \in Existing
             /\ builds' = [builds EXCEPT ![number[h]] = "empty"]
             /\ removed' = removed
    <3>1. builds' \in [Number -> {"absent", "empty", "preparing"}]  BY <2>2 DEF TypeOK
    <3>2. Existing' = Existing  BY <2>2 DEF Existing, TypeOK
    <3>3. QED  BY <2>2, <3>1, <3>2 DEF TypeOK
  <2>3. CASE \E gone : Remove(gone)  BY <2>3, RemoveDoes
  <2>4. QED  BY <1>1, <2>1, <2>2, <2>3
<1>4. QED  BY <1>1, <1>2, <1>3, RemovalStep

-----------------------------------------------------------------------------
(* The invariant *)

\* It holds before the first request.
LEMMA IndInit == Init => IndInv
<1> SUFFICES ASSUME Init PROVE IndInv
  OBVIOUS
<1> USE DEF Init
<1>1. MaxRequests \in Nat /\ MaxExpiries \in Nat /\ MaxRaised \in Nat /\ JobExists \in BOOLEAN  BY BuildConstants
<1>2. TypeOK  BY <1>1 DEF TypeOK
<1>3. LockFits  BY DEF LockFits, Holds, Section
<1>4. SessionsFit  BY DEF SessionsFit, Section
<1>5. Waiting = {} /\ Existing = {}  BY DEF Waiting, Existing
<1>6. \A n \in Number : Making(n) = {}  BY DEF Making
<1>7. IsFiniteSet({}) /\ Cardinality({}) = 0  BY FS_EmptySet
<1>8. NumbersFit
  <2>1. \A h \in Handler : pc[h] # "mkdir"  OBVIOUS
  <2>2. IsFiniteSet(Waiting) /\ Cardinality(Waiting) = 0  BY <1>5, <1>7
  <2>3. QED  BY <1>5, <2>1, <2>2 DEF NumbersFit
<1>9. TicketsFit  BY <1>5, <1>6, <1>7 DEF TicketsFit
<1>10. QED  BY <1>2, <1>3, <1>4, <1>8, <1>9 DEF IndInv

\* A step that changes nothing keeps it.
LEMMA Stutter ==
    ASSUME IndInv, UNCHANGED vars
    PROVE  IndInv'
<1> USE DEF IndInv
<1>1. UNCHANGED <<lock, session, jobdir, config, builds, pc, op, code, number, tickets, removed,
                  arrivals, expiries, raised>>
  BY DEF vars, zk, storage, ghosts
<1> USE <1>1
<1>2. TypeOK'  BY DEF TypeOK
<1>3. LockFits'  BY DEF LockFits, Holds
<1>4. SessionsFit'  BY DEF SessionsFit
<1>5. Waiting' = Waiting /\ Existing' = Existing /\ \A n \in Number : Making(n)' = Making(n)
  BY DEF Waiting, Existing, Making
<1>6. NumbersFit'  BY <1>5 DEF NumbersFit
<1>7. TicketsFit'  BY <1>5 DEF TicketsFit
<1>8. QED  BY <1>2, <1>3, <1>4, <1>6, <1>7

\* Every step of the handlers and of ZooKeeper keeps it.
LEMMA IndStep ==
    ASSUME IndInv, [Next]_vars
    PROVE  IndInv'
<1>1. ASSUME NEW h \in Handler, Handle(h)
      PROVE  IndInv'
  <2>1. CASE TryLock(h)  BY <2>1, TryLockStep
  <2>2. CASE Unlock(h)  BY <2>2, UnlockStep
  <2>3. CASE CheckJob(h)  BY <2>3, CheckJobStep
  <2>4. CASE ListBuilds(h)  BY <2>4, ListBuildsStep
  <2>5. CASE MakeBuildDir(h)  BY <2>5, MakeBuildDirStep
  <2>6. CASE WriteState(h)  BY <2>6, WriteStateStep
  <2>7. CASE PostTicket(h)  BY <2>7, PostTicketStep
  <2>8. CASE EnsureJobDir(h) \/ WriteConfig(h)
    <3>1. CASE EnsureJobDir(h)  BY <3>1, EnsureJobDirStep
    <3>2. CASE WriteConfig(h)  BY <3>2, ConfigureStep DEF WriteConfig, ghosts
    <3>3. QED  BY <2>8, <3>1, <3>2
  <2>9. CASE EmptyJobDir(h) \/ RemoveJobDir(h)  BY <2>9, DeleteJobStep
  <2>10. CASE DeleteBuild(h)  BY <2>10, DeleteBuildStep
  <2>11. CASE Finish(h)  BY <2>11, FinishStep
  <2>12. QED
    BY <1>1, <2>1, <2>2, <2>3, <2>4, <2>5, <2>6, <2>7, <2>8, <2>9, <2>10, <2>11 DEF Handle
<1>2. ASSUME NEW h \in Handler, Receive(h) PROVE IndInv'  BY <1>2, ReceiveStep
<1>3. ASSUME NEW h \in Handler, Expire(h) PROVE IndInv'  BY <1>3, ExpireStep
<1>4. ASSUME NEW h \in Handler, Crash(h) PROVE IndInv'  BY <1>4, FinishStep
<1>5. CASE ExpireLingering \/ ExpireLeaked  BY <1>5, NodeGoesStep
<1>6. CASE UNCHANGED vars  BY <1>6, Stutter
<1>7. QED  BY <1>1, <1>2, <1>3, <1>4, <1>5, <1>6 DEF Next

\* The inductive invariant holds in every state of every behaviour.
LEMMA Invariance == Spec => []IndInv
<1>1. Init => IndInv  BY IndInit
<1>2. IndInv /\ [Next]_vars => IndInv'  BY IndStep
<1>3. QED  BY <1>1, <1>2, PTL DEF Spec

-----------------------------------------------------------------------------
(* Theorems *)

\* Every variable of the frontend's handlers keeps its type; above all, no
\* trigger computes a number beyond the requests that came.
THEOREM TypeCorrect == Spec => []TypeOK
<1>1. IndInv => TypeOK  BY DEF IndInv
<1>2. QED  BY <1>1, Invariance, PTL

\* However many requests come, processes die and sessions expire, two requests
\* with an open session are never between try_lock and unlock at the same time
\* (sync.py:60-89).
THEOREM LockExcludes == Spec => []OneHolder
<1>1. IndInv => OneHolder  BY DEF IndInv, LockFits, OneHolder
<1>2. QED  BY <1>1, Invariance, PTL

\* mkdir decides who may post a ticket for a number: a build gets one ticket,
\* and one more for each deletion that freed its number, expired sessions or
\* not (jobs_builds.py:98-105, 119-140).
THEOREM OneTicketPerBuild == Spec => []TicketsPerBuild
<1>1. ASSUME IndInv PROVE TicketsPerBuild
  <2>1. SUFFICES ASSUME NEW n \in Number PROVE tickets[n] <= 1 + removed[n]
    BY DEF TicketsPerBuild
  <2>2. /\ IsFiniteSet(Making(n))
        /\ tickets[n] + Cardinality(Making(n)) <= removed[n] + IF n \in Existing THEN 1 ELSE 0
    BY <1>1 DEF IndInv, TicketsFit
  <2>3. Cardinality(Making(n)) \in Nat  BY <2>2, FS_CardinalityType
  <2>4. tickets[n] \in Nat /\ removed[n] \in Nat  BY <1>1, Typed DEF IndInv
  <2>5. CASE n \in Existing  BY <2>2, <2>3, <2>4, <2>5
  <2>6. CASE n \notin Existing  BY <2>2, <2>3, <2>4, <2>6
  <2>7. QED  BY <2>5, <2>6
<1>2. QED  BY <1>1, Invariance, PTL

\* With room for all builds, listdir returns all of them.
LEMMA ListingIsWhole ==
    ASSUME MaxRequests <= ListingSize
    PROVE  Listings = {Existing}
<1>1. MaxRequests \in Nat /\ ListingSize \in Nat  BY BuildConstants
<1>2. IsFiniteSet(1 .. MaxRequests) /\ Cardinality(1 .. MaxRequests) = MaxRequests
  BY <1>1, FS_Interval
<1>3. Existing \subseteq 1 .. MaxRequests  BY DEF Existing, Number
<1>4. Cardinality(Existing) \in Nat /\ Cardinality(Existing) <= MaxRequests
  BY <1>2, <1>3, NoMore
<1>5. Cardinality(Existing) <= ListingSize  BY <1>1, <1>4
<1>6. QED  BY <1>5 DEF Listings

\* Builds are made by mkdir only, and only a listing leads to it.
LEMMA NewBuilds ==
    ASSUME IndInv, [Next]_vars
    PROVE  /\ Existing' \subseteq Existing
              \/ \E g \in Handler : /\ pc[g] = "mkdir" /\ pc'[g] # "mkdir"
                                    /\ Existing' \subseteq Existing \cup {number[g]}
           /\ expiries \in Nat /\ expiries' \in {expiries, expiries + 1}
           /\ \A h \in Handler : pc'[h] = "mkdir" =>
                 \/ pc[h] = "mkdir" /\ number'[h] = number[h]
                 \/ /\ Existing' = Existing
                    /\ \E listed \in Listings : number'[h] = NextNumber(listed)
<1> USE DEF IndInv
<1> DEFINE Made == Existing' \subseteq Existing
                      \/ \E g \in Handler : /\ pc[g] = "mkdir" /\ pc'[g] # "mkdir"
                                            /\ Existing' \subseteq Existing \cup {number[g]}
           Counted == expiries' \in {expiries, expiries + 1}
           Listed == \A h \in Handler : pc'[h] = "mkdir" =>
                 \/ pc[h] = "mkdir" /\ number'[h] = number[h]
                 \/ /\ Existing' = Existing
                    /\ \E listed \in Listings : number'[h] = NextNumber(listed)
<1> SUFFICES Made /\ Counted /\ Listed
  BY Typed
<1>1. ASSUME NEW g \in Handler,
             \E place \in {"idle", "lock", "check", "list", "ensure", "config", "unlock", "state",
                           "task", "delete", "rmdir", "remove", "done"} :
                pc' = [pc EXCEPT ![g] = place],
             number' = number \/ \E m : number' = [number EXCEPT ![g] = m],
             expiries' = expiries, Existing' \subseteq Existing
      PROVE  Made /\ Counted /\ Listed
  <2>1. \A h \in Handler : pc'[h] = "mkdir" => h # g /\ pc[h] = "mkdir"
    BY <1>1 DEF TypeOK
  <2>2. \A h \in Handler : h # g => number'[h] = number[h]  BY <1>1 DEF TypeOK
  <2>3. Listed  BY <2>1, <2>2
  <2>4. QED  BY <1>1, <2>3
<1>2. ASSUME NEW g \in Handler, Receive(g)
      PROVE  Made /\ Counted /\ Listed
  <2>1. PICK o \in Operation : pc' = [pc EXCEPT ![g] = FirstCall[o]]
    BY <1>2 DEF Receive, GoTo
  <2>2. FirstCall[o] \in {"lock", "delete", "remove"}  BY BuildConstants DEF FirstCall
  <2>3. /\ number' = number \/ \E m : number' = [number EXCEPT ![g] = m]
        /\ UNCHANGED <<builds, expiries>>
    BY <1>2 DEF Receive, storage
  <2>4. Existing' = Existing  BY <2>3 DEF Existing
  <2>5. QED  BY <1>1, <2>1, <2>2, <2>3, <2>4
<1>3. ASSUME NEW g \in Handler,
             TryLock(g) \/ Unlock(g) \/ CheckJob(g) \/ PostTicket(g)
                \/ EnsureJobDir(g) \/ WriteConfig(g) \/ RemoveJobDir(g) \/ Finish(g) \/ Crash(g)
      PROVE  Made /\ Counted /\ Listed
  <2>1. UNCHANGED <<builds, expiries>>
        /\ (number' = number \/ \E m : number' = [number EXCEPT ![g] = m])
    BY <1>3 DEF TryLock, Unlock, CheckJob, PostTicket, EnsureJobDir, WriteConfig, RemoveJobDir,
                Finish, Crash, Forget, storage, ghosts
  <2>2. \E place \in {"check", "ensure", "state", "done", "list", "config", "unlock", "idle"} :
           pc' = [pc EXCEPT ![g] = place]
    BY <1>3 DEF TryLock, Unlock, CheckJob, PostTicket, EnsureJobDir, WriteConfig, RemoveJobDir,
                Finish, Crash, Forget, GoTo, Reply, ReplyUnlocked, Raise
  <2>3. Existing' = Existing  BY <2>1 DEF Existing
  <2>4. QED  BY <1>1, <2>1, <2>2, <2>3
<1>4. ASSUME NEW g \in Handler, EmptyJobDir(g) \/ DeleteBuild(g)
      PROVE  Made /\ Counted /\ Listed
  <2>1. UNCHANGED <<number, expiries>>
    BY <1>4 DEF EmptyJobDir, DeleteBuild
  <2>2. \E place \in {"done", "rmdir"} : pc' = [pc EXCEPT ![g] = place]
    BY <1>4 DEF EmptyJobDir, DeleteBuild, GoTo, Reply
  <2>3. \/ builds' = builds
        \/ number[g] \in Existing /\ builds' = [builds EXCEPT ![number[g]] = "empty"]
        \/ \E gone : Remove(gone)
    BY <1>4 DEF EmptyJobDir, DeleteBuild
  <2>4. Existing' \subseteq Existing
    <3>1. CASE builds' = builds  BY <3>1 DEF Existing
    <3>2. CASE number[g] \in Existing /\ builds' = [builds EXCEPT ![number[g]] = "empty"]
      BY <3>2 DEF Existing, TypeOK
    <3>3. CASE \E gone : Remove(gone)  BY <3>3, RemoveDoes
    <3>4. QED  BY <2>3, <3>1, <3>2, <3>3
  <2>5. QED  BY <1>1, <2>1, <2>2, <2>4
<1>5. ASSUME NEW g \in Handler, WriteState(g)
      PROVE  Made /\ Counted /\ Listed
  <2>1. /\ UNCHANGED <<number, expiries>>
        /\ \E place \in {"done", "task"} : pc' = [pc EXCEPT ![g] = place]
        /\ \/ builds' = builds
           \/ builds[number[g]] # "absent" /\ builds' = [builds EXCEPT ![number[g]] = "preparing"]
    BY <1>5 DEF WriteState, GoTo, Reply, ghosts
  <2>2. Existing' = Existing  BY <2>1 DEF Existing, TypeOK
  <2>3. QED  BY <1>1, <2>1, <2>2
<1>6. ASSUME NEW g \in Handler, MakeBuildDir(g)
      PROVE  Made /\ Counted /\ Listed
  <2>1. /\ UNCHANGED <<number, expiries>>
        /\ pc[g] = "mkdir" /\ pc' = [pc EXCEPT ![g] = "unlock"]
        /\ builds' = builds \/ builds' = [builds EXCEPT ![number[g]] = "empty"]
    BY <1>6 DEF MakeBuildDir, MkdirFailed, ReplyUnlocked, GoTo, ghosts
  <2>2. pc'[g] = "unlock" /\ \A h \in Handler : h # g => pc'[h] = pc[h]  BY <2>1 DEF TypeOK
  <2>3. Existing' \subseteq Existing \cup {number[g]}  BY <2>1 DEF Existing, TypeOK
  <2>4. Listed  BY <2>1, <2>2
  <2>5. Made  BY <2>1, <2>2, <2>3
  <2>6. QED  BY <2>1, <2>4, <2>5
<1>7. ASSUME NEW g \in Handler, ListBuilds(g)
      PROVE  Made /\ Counted /\ Listed
  <2>1. UNCHANGED <<builds, expiries>>  BY <1>7 DEF ListBuilds, storage
  <2>2. Existing' = Existing  BY <2>1 DEF Existing
  <2>3. \/ /\ pc' = [pc EXCEPT ![g] = "mkdir"]
           /\ \E listed \in Listings : number' = [number EXCEPT ![g] = NextNumber(listed)]
        \/ pc' = [pc EXCEPT ![g] = "done"] /\ number' = number
    BY <1>7 DEF ListBuilds, GoTo, Reply, Raise
  <2>4. CASE /\ pc' = [pc EXCEPT ![g] = "mkdir"]
             /\ \E listed \in Listings : number' = [number EXCEPT ![g] = NextNumber(listed)]
    <3>1. PICK listed \in Listings : number' = [number EXCEPT ![g] = NextNumber(listed)]
      BY <2>4
    <3>2. number'[g] = NextNumber(listed)
          /\ \A h \in Handler : h # g => pc'[h] = pc[h] /\ number'[h] = number[h]
      BY <2>4, <3>1 DEF TypeOK
    <3>3. Listed  BY <2>2, <3>2
    <3>4. QED  BY <2>1, <2>2, <3>3
  <2>5. CASE pc' = [pc EXCEPT ![g] = "done"] /\ number' = number
    BY <1>1, <2>1, <2>2, <2>5
  <2>6. QED  BY <2>3, <2>4, <2>5
<1>8. CASE (\E g \in Handler : Expire(g)) \/ ExpireLingering \/ ExpireLeaked \/ UNCHANGED vars
  <2>1. UNCHANGED <<builds, pc, number>> /\ Counted
    BY <1>8 DEF Expire, ExpireLingering, ExpireLeaked, vars, storage, ghosts
  <2>2. Existing' = Existing  BY <2>1 DEF Existing
  <2>3. QED  BY <2>1, <2>2
<1> HIDE DEF Made, Counted, Listed
<1>9. QED
  BY <1>2, <1>3, <1>4, <1>5, <1>6, <1>7, <1>8 DEF Next, Handle

\* No step of another handler makes a build between a trigger's listing and
\* its mkdir.
LEMMA FreshStep ==
    ASSUME MaxRequests <= ListingSize, IndInv, NumberIsFresh, [Next]_vars
    PROVE  NumberIsFresh'
<1> USE DEF IndInv
<1> SUFFICES ASSUME expiries' = 0, NEW h \in Handler, pc'[h] = "mkdir", NEW n \in Existing'
             PROVE  n < number'[h]
  BY DEF NumberIsFresh
<1>1. expiries = 0  BY NewBuilds
<1>2. CASE /\ Existing' = Existing
           /\ \E listed \in Listings : number'[h] = NextNumber(listed)
  <2>1. number'[h] = NextNumber(Existing)  BY <1>2, ListingIsWhole
  <2>2. Existing \in SUBSET Number /\ MaxRequests \in Nat  BY Typed DEF Existing
  <2>3. n < NextNumber(Existing)  BY <1>2, <2>2, NextNumberDoes
  <2>4. QED  BY <2>1, <2>3
<1>3. CASE pc[h] = "mkdir" /\ number'[h] = number[h]
  <2>1. CASE n \in Existing  BY <1>1, <1>3, <2>1 DEF NumberIsFresh
  <2>2. CASE n \notin Existing
    <3>1. PICK g \in Handler : pc[g] = "mkdir" /\ pc'[g] # "mkdir"  BY <2>2, NewBuilds
    <3>2. Holds(g) /\ Holds(h)  BY <1>1, <1>3, <3>1 DEF SessionsFit, Holds, Section
    <3>3. g = h  BY <3>2 DEF LockFits
    <3>4. QED  BY <3>1, <3>3
  <2>3. QED  BY <2>1, <2>2
<1>4. QED  BY <1>2, <1>3, NewBuilds

\* As long as no session expired under a request, and a listing has room for
\* every build, the number a trigger computed is above all builds of its job
\* until it makes the directory (jobs_builds.py:92-99).  The limit on listings
\* is CephFSStorage's (storage.py); LocalFSStorage has none.
THEOREM FreshNumbers ==
    ASSUME MaxRequests <= ListingSize
    PROVE  Spec => []NumberIsFresh
<1>1. Init => NumberIsFresh  BY DEF Init, NumberIsFresh
<1>2. IndInv /\ NumberIsFresh /\ [Next]_vars => NumberIsFresh'  BY FreshStep
<1>3. QED  BY <1>1, <1>2, Invariance, PTL DEF Spec
=============================================================================
