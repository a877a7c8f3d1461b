---------------------------- MODULE BudgetProofs ----------------------------
(***************************************************************************)
(* What a redelivery can cost, for any number of workers, copies, retries  *)
(* and faults: DuplicateBudget and SendBudget, what the table tells as     *)
(* long as there was none, RecordIsExact and OutcomesStand, and what it    *)
(* takes to cause one or to drop a message, HarmNeedsFault and             *)
(* CrashesDropNothing.                                                     *)
(*                                                                         *)
(* A copy of a message that is queued, or in the hand of a worker that has *)
(* not called Send for it, can still cause one delivery and, counting its  *)
(* retries, MaxRetries - attempts calls of Send.  These are its shares.    *)
(* What was spent and the shares that are left never exceed one allowance  *)
(* and another one for each requeue.  The shares are elements of sets, so  *)
(* that sums over all copies become cardinalities.                         *)
(***************************************************************************)
EXTENDS LifecycleProofs

Budgets == {"deliveries", "sends"}
Allowance(b) == IF b = "deliveries" THEN 1 ELSE MaxRetries
Shares(b, m) == IF b = "deliveries" THEN 0 .. 0 ELSE m.attempts .. MaxRetries - 1
Spent(b, id) == IF b = "deliveries" THEN delivered[id] ELSE sends[id]
Cost(b, m) == IF b = "deliveries" THEN 1 ELSE MaxRetries - m.attempts

(* The shares of id in the queues Q: the n-th copy of a message is a       *)
(* triple of its queue, the message and n.                                 *)
QueueCopies == Queues \X Messages \X Nat
QueuedShares(Q, b, id) ==
    {t \in QueueCopies \X Nat :
        /\ t[1][2].id = id
        /\ t[1][3] < Q[t[1][1]][t[1][2]]
        /\ t[2] \in Shares(b, t[1][2])}

(* The shares of id in the hands of workers that may still send, workers   *)
(* being in states pc with messages h in their hands.                      *)
MaySend == {"checking", "sending", "retrying"}
HandShares(pc, h, b, id) ==
    {t \in Workers \X Nat :
        /\ pc[t[1]] \in MaySend /\ h[t[1]].id = id
        /\ t[2] \in Shares(b, h[t[1]])}
Load(state, m, b, id) ==
    IF state \in MaySend /\ m.id = id THEN Cost(b, m) ELSE 0

QueuesTyped == [Queues -> [Messages -> Nat]]

(* R is Q with another copy of m in queue q.                               *)
OneMore(Q, R, q, m) ==
    /\ Q \in QueuesTyped /\ R \in QueuesTyped
    /\ R[q][m] = Q[q][m] + 1
    /\ \A r \in Queues, l \in Messages : r # q \/ l # m => R[r][l] = Q[r][l]

-----------------------------------------------------------------------------
(* Shares.                                                                 *)

LEMMA ShareFacts ==
    ASSUME NEW b \in Budgets
    PROVE  /\ Allowance(b) \in Nat \ {0}
           /\ \A m \in Messages :
                 /\ Shares(b, m) \subseteq 0 .. Allowance(b) - 1
                 /\ IsFiniteSet(Shares(b, m))
                 /\ Cardinality(Shares(b, m)) = Cost(b, m)
                 /\ Cost(b, m) \in 1 .. Allowance(b)
<1>1. Allowance(b) \in Nat \ {0}
    BY MaxRetriesAssumption DEF Allowance
<1>2. ASSUME NEW m \in Messages
      PROVE  /\ Shares(b, m) \subseteq 0 .. Allowance(b) - 1
             /\ IsFiniteSet(Shares(b, m))
             /\ Cardinality(Shares(b, m)) = Cost(b, m)
             /\ Cost(b, m) \in 1 .. Allowance(b)
  <2>1. m.attempts \in Nat /\ m.attempts < MaxRetries /\ MaxRetries \in Nat
      BY MaxRetriesAssumption DEF Messages
  <2>2. CASE b = "deliveries"
    <3>1. 0 .. 0 = {0}
        OBVIOUS
    <3>2. IsFiniteSet({0}) /\ Cardinality({0}) = 1
        BY FS_Singleton
    <3> QED BY <2>1, <2>2, <3>1, <3>2 DEF Shares, Allowance, Cost
  <2>3. CASE b = "sends"
    <3>1. /\ IsFiniteSet(m.attempts .. MaxRetries - 1)
          /\ Cardinality(m.attempts .. MaxRetries - 1) = MaxRetries - m.attempts
      <4> DEFINE least == m.attempts
                 most == MaxRetries - 1
      <4>1. least \in Int /\ most \in Int /\ ~ (least > most)
          BY <2>1
      <4> HIDE DEF least, most
      <4>2. /\ IsFiniteSet(least .. most)
            /\ Cardinality(least .. most) = most - least + 1
          BY <4>1, FS_Interval
      <4>3. most - least + 1 = MaxRetries - m.attempts
          BY <2>1 DEF least, most
      <4> QED BY <4>2, <4>3 DEF least, most
    <3> QED BY <2>1, <2>3, <3>1 DEF Shares, Allowance, Cost
  <2> QED BY <2>2, <2>3 DEF Budgets
<1> QED BY <1>1, <1>2

(* A set whose pairs all have the same first component.                    *)
LEMMA SharesOf ==
    ASSUME NEW x, NEW b \in Budgets, NEW m \in Messages
    PROVE  /\ IsFiniteSet({x} \X Shares(b, m))
           /\ Cardinality({x} \X Shares(b, m)) = Cost(b, m)
<1>1. IsFiniteSet(Shares(b, m)) /\ Cardinality(Shares(b, m)) = Cost(b, m)
      /\ Cost(b, m) \in Nat
    BY ShareFacts
<1>2. IsFiniteSet({x}) /\ Cardinality({x}) = 1
    BY FS_Singleton
<1>3. /\ IsFiniteSet({x} \X Shares(b, m))
      /\ Cardinality({x} \X Shares(b, m)) = 1 * Cost(b, m)
    BY <1>1, <1>2, FS_Product
<1> QED BY <1>1, <1>3

(* One copy more in a queue is its shares more.                            *)
LEMMA OneCopyMore ==
    ASSUME NEW Q, NEW R, NEW q \in Queues, NEW m \in Messages,
           OneMore(Q, R, q, m), NEW b \in Budgets, NEW id,
           IsFiniteSet(QueuedShares(Q, b, id))
    PROVE  /\ IsFiniteSet(QueuedShares(R, b, id))
           /\ Cardinality(QueuedShares(R, b, id)) =
                 Cardinality(QueuedShares(Q, b, id))
                 + (IF m.id = id THEN Cost(b, m) ELSE 0)
<1> DEFINE n == Q[q][m]
           New == {<<q, m, n>>} \X Shares(b, m)
<1>1. /\ \A r \in Queues, l \in Messages : Q[r][l] \in Nat /\ R[r][l] \in Nat
      /\ n \in Nat /\ R[q][m] = n + 1
      /\ \A r \in Queues, l \in Messages : r # q \/ l # m => R[r][l] = Q[r][l]
    BY DEF QueuesTyped, OneMore
<1>2. Cardinality(QueuedShares(Q, b, id)) \in Nat
    BY FS_CardinalityType
<1>3. CASE m.id = id
  <2>1. IsFiniteSet(New) /\ Cardinality(New) = Cost(b, m)
      BY SharesOf
  <2>2. QueuedShares(R, b, id) = QueuedShares(Q, b, id) \cup New
    <3>1. ASSUME NEW t \in QueuedShares(R, b, id)
          PROVE  t \in QueuedShares(Q, b, id) \cup New
      <4>1. PICK r \in Queues, l \in Messages, k \in Nat, j \in Nat :
              t = <<<<r, l, k>>, j>>
          BY DEF QueuedShares, QueueCopies
      <4>2. l.id = id /\ k < R[r][l] /\ j \in Shares(b, l)
          BY <4>1 DEF QueuedShares
      <4>3. CASE r = q /\ l = m
        <5>1. k < n \/ k = n
            BY <1>1, <4>2, <4>3
        <5> QED BY <4>1, <4>2, <4>3, <5>1 DEF QueuedShares, QueueCopies
      <4>4. CASE r # q \/ l # m
          BY <1>1, <4>1, <4>2, <4>4 DEF QueuedShares, QueueCopies
      <4> QED BY <4>3, <4>4
    <3>2. ASSUME NEW t \in QueuedShares(Q, b, id) PROVE t \in QueuedShares(R, b, id)
      <4>1. PICK r \in Queues, l \in Messages, k \in Nat, j \in Nat :
              t = <<<<r, l, k>>, j>>
          BY DEF QueuedShares, QueueCopies
      <4>2. l.id = id /\ k < Q[r][l] /\ j \in Shares(b, l)
          BY <4>1 DEF QueuedShares
      <4>3. k < R[r][l]
          BY <1>1, <4>2
      <4> QED BY <4>1, <4>2, <4>3 DEF QueuedShares, QueueCopies
    <3>3. ASSUME NEW t \in New PROVE t \in QueuedShares(R, b, id)
      <4>1. PICK j \in Shares(b, m) : t = <<<<q, m, n>>, j>>
          OBVIOUS
      <4>2. j \in Nat
          BY <4>1, ShareFacts
      <4> QED BY <1>1, <1>3, <4>1, <4>2, SMTT(30) DEF QueuedShares, QueueCopies
    <3> QED BY <3>1, <3>2, <3>3
  <2>3. QueuedShares(Q, b, id) \cap New = {}
      BY <1>1 DEF QueuedShares
  <2>4. Cardinality(QueuedShares(Q, b, id) \cap New) = 0
      BY <2>3, FS_EmptySet
  <2>5. Cost(b, m) \in Nat
      BY ShareFacts
  <2> DEFINE Old == QueuedShares(Q, b, id)
  <2>6. /\ IsFiniteSet(Old) /\ Cardinality(Old \cap New) = 0
        /\ Cardinality(Old) \in Nat
      BY <1>2, <2>4
  <2> HIDE DEF Old, New
  <2>7. /\ IsFiniteSet(Old \cup New)
        /\ Cardinality(Old \cup New) = Cardinality(Old) + Cardinality(New) - 0
      BY <2>1, <2>6, FS_Union
  <2>8. QueuedShares(R, b, id) = Old \cup New
      BY <2>2 DEF Old
  <2>9. Cardinality(QueuedShares(R, b, id)) = Cardinality(Old) + Cost(b, m)
      BY <2>1, <2>5, <2>6, <2>7, <2>8
  <2> QED BY <1>1, <1>3, <2>7, <2>8, <2>9 DEF Old
<1>4. CASE m.id # id
  <2>1. QueuedShares(R, b, id) = QueuedShares(Q, b, id)
    <3>1. \A t \in QueueCopies :
            t[2].id = id => R[t[1]][t[2]] = Q[t[1]][t[2]]
        BY <1>1, <1>4 DEF QueueCopies
    <3> QED BY <3>1 DEF QueuedShares
  <2> QED BY <1>1, <1>2, <1>4, <2>1
<1> QED BY <1>3, <1>4

(* One copy less, likewise.                                                *)
LEMMA OneCopyLess ==
    ASSUME NEW Q, NEW R, NEW q \in Queues, NEW m \in Messages,
           OneMore(R, Q, q, m), NEW b \in Budgets, NEW id,
           IsFiniteSet(QueuedShares(Q, b, id))
    PROVE  /\ IsFiniteSet(QueuedShares(R, b, id))
           /\ Cardinality(QueuedShares(Q, b, id)) =
                 Cardinality(QueuedShares(R, b, id))
                 + (IF m.id = id THEN Cost(b, m) ELSE 0)
<1>1. \A t \in QueueCopies : /\ R[t[1]][t[2]] <= Q[t[1]][t[2]]
                              /\ R[t[1]][t[2]] \in Nat /\ Q[t[1]][t[2]] \in Nat
  <2>1. \A r \in Queues, l \in Messages :
            R[r][l] \in Nat /\ Q[r][l] \in Nat /\ R[r][l] <= Q[r][l]
      BY DEF OneMore, QueuesTyped
  <2> QED BY <2>1 DEF QueueCopies
<1>2. \A t \in QueueCopies : t[3] \in Nat
    BY DEF QueueCopies
<1>3. QueuedShares(R, b, id) \subseteq QueuedShares(Q, b, id)
    BY <1>1, <1>2, SMTT(30) DEF QueuedShares
<1>4. IsFiniteSet(QueuedShares(R, b, id))
    BY <1>3, FS_Subset
<1> QED BY <1>4, OneCopyMore

(* Which of workers W hold message m, or a message of id.                  *)
HoldersOf(W, u, m) == {w \in W : u[w] = m}
HoldersOfId(W, u, id) == {w \in W : u[w].id = id}

(* All deliveries that workers W held, back in the processing queue.       *)
LEMMA ManyCopiesMore ==
    ASSUME NEW Q \in QueuesTyped, NEW R \in QueuesTyped,
           NEW W, IsFiniteSet(W), NEW u,
           \A m \in Messages :
              R["process"][m] = Q["process"][m] + Cardinality(HoldersOf(W, u, m)),
           \A r \in Queues \ {"process"}, m \in Messages : R[r][m] = Q[r][m],
           NEW b \in Budgets, NEW id, IsFiniteSet(QueuedShares(Q, b, id))
    PROVE  /\ IsFiniteSet(QueuedShares(R, b, id))
           /\ Cardinality(QueuedShares(R, b, id)) <=
                 Cardinality(QueuedShares(Q, b, id))
                 + Cardinality(HoldersOfId(W, u, id)) * Allowance(b)
<1> DEFINE Back(m) == HoldersOf(W, u, m)
           BackOf == HoldersOfId(W, u, id)
           Slots == BackOf \X (0 .. Allowance(b) - 1)
           Old == QueuedShares(Q, b, id)
           New == QueuedShares(R, b, id) \ Old
           B == [m \in Messages |->
                    CHOOSE f : f \in Bijection(1 .. Cardinality(Back(m)), Back(m))]
           F == [t \in New |->
                   <<B[t[1][2]][t[1][3] - Q["process"][t[1][2]] + 1], t[2]>>]
<1>1. ASSUME NEW m \in Messages
      PROVE  /\ Cardinality(Back(m)) \in Nat
             /\ B[m] \in Bijection(1 .. Cardinality(Back(m)), Back(m))
  <2>1. IsFiniteSet(Back(m))
    <3>1. Back(m) \subseteq W
        BY DEF HoldersOf
    <3> HIDE DEF Back
    <3> QED BY <3>1, FS_Subset
  <2>2. ExistsBijection(1 .. Cardinality(Back(m)), Back(m)) /\ Cardinality(Back(m)) \in Nat
      BY <2>1, FS_CardinalityType
  <2> HIDE DEF Back
  <2>3. \E f : f \in Bijection(1 .. Cardinality(Back(m)), Back(m))
      BY <2>2 DEF ExistsBijection
  <2> QED BY <2>2, <2>3
<1>2. ASSUME NEW m \in Messages
      PROVE  /\ \A k \in 1 .. Cardinality(Back(m)) : B[m][k] \in W /\ u[B[m][k]] = m
             /\ \A k, l \in 1 .. Cardinality(Back(m)) : B[m][k] = B[m][l] => k = l
  <2> DEFINE f == B[m]
             n == Cardinality(Back(m))
  <2>1. f \in Bijection(1 .. n, Back(m))
      BY <1>1
  <2> HIDE DEF f, n
  <2>2. /\ \A k \in 1 .. n : f[k] \in Back(m)
        /\ \A k, l \in 1 .. n : f[k] = f[l] => k = l
      BY <2>1 DEF Bijection, Injection, Surjection, IsInjective
  <2> QED BY <2>2 DEF f, n, HoldersOf
<1>3. ASSUME NEW t \in New
      PROVE  \E m \in Messages, n \in Nat, j \in Nat :
                /\ j \in Shares(b, m)
                /\ t = <<<<"process", m, n>>, j>> /\ m.id = id
                /\ n - Q["process"][m] + 1 \in 1 .. Cardinality(Back(m))
  <2>1. PICK r \in Queues, m \in Messages, n \in Nat, j \in Nat :
          t = <<<<r, m, n>>, j>>
      BY SMTT(30) DEF QueuedShares, QueueCopies
  <2>2. m.id = id /\ n < R[r][m] /\ j \in Shares(b, m)
      BY <2>1 DEF QueuedShares
  <2>3. ~ (n < Q[r][m])
      BY <2>1, <2>2 DEF QueuedShares, QueueCopies
  <2>4. Q[r][m] \in Nat /\ R[r][m] \in Nat
      BY DEF QueuesTyped
  <2>5. r = "process"
      BY <2>2, <2>3
  <2>6. R[r][m] = Q[r][m] + Cardinality(Back(m)) /\ Cardinality(Back(m)) \in Nat
      BY <1>1, <2>5
  <2> HIDE DEF Back
  <2>7. n - Q[r][m] + 1 \in 1 .. Cardinality(Back(m))
      BY <2>2, <2>3, <2>4, <2>6
  <2> QED BY <2>1, <2>2, <2>5, <2>7
<1>4. F \in Injection(New, Slots)
  <2>1. ASSUME NEW t \in New PROVE F[t] \in Slots
    <3>1. PICK m \in Messages, n \in Nat, j \in Nat :
            /\ j \in Shares(b, m)
            /\ t = <<<<"process", m, n>>, j>> /\ m.id = id
            /\ n - Q["process"][m] + 1 \in 1 .. Cardinality(Back(m))
        BY <1>3
    <3>2. F[t] = <<B[m][n - Q["process"][m] + 1], j>>
        BY <3>1
    <3>3. B[m][n - Q["process"][m] + 1] \in BackOf
        BY <1>2, <3>1 DEF HoldersOfId
    <3>4. j \in 0 .. Allowance(b) - 1
        BY <3>1, ShareFacts
    <3> HIDE DEF B, F, New, BackOf
    <3> QED BY <3>2, <3>3, <3>4
  <2>2. ASSUME NEW s \in New, NEW t \in New, F[s] = F[t] PROVE s = t
    <3>1. PICK m \in Messages, n \in Nat, j \in Nat :
            /\ j \in Shares(b, m)
            /\ s = <<<<"process", m, n>>, j>>
            /\ n - Q["process"][m] + 1 \in 1 .. Cardinality(Back(m))
        BY <1>3
    <3>2. PICK l \in Messages, k \in Nat, i \in Nat :
            /\ i \in Shares(b, l)
            /\ t = <<<<"process", l, k>>, i>>
            /\ k - Q["process"][l] + 1 \in 1 .. Cardinality(Back(l))
        BY <1>3
    <3> DEFINE x == n - Q["process"][m] + 1
               y == k - Q["process"][l] + 1
    <3>3. F[s] = <<B[m][x], j>> /\ F[t] = <<B[l][y], i>>
        BY <3>1, <3>2
    <3> HIDE DEF B, F, New, Back, x, y
    <3>4. B[m][x] = B[l][y] /\ j = i
      <4>1. \A a, c, d, e : <<a, c>> = <<d, e>> => a = d /\ c = e
          OBVIOUS
      <4>2. <<B[m][x], j>> = <<B[l][y], i>>
          BY <2>2, <3>3
      <4> QED BY <4>1, <4>2, Zenon
    <3>5. u[B[m][x]] = m /\ u[B[l][y]] = l
        BY <1>2, <3>1, <3>2 DEF x, y
    <3>6. m = l
        BY <3>4, <3>5
    <3>7. x = y
        BY <1>2, <3>1, <3>2, <3>4, <3>6 DEF x, y
    <3>8. n = k
        BY <3>6, <3>7 DEF x, y, QueuesTyped, Queues
    <3> QED BY <3>1, <3>2, <3>4, <3>6, <3>8
  <2>3. F \in [New -> Slots]
      BY <2>1
  <2> HIDE DEF F, New, Slots
  <2> QED BY <2>2, <2>3 DEF Injection, IsInjective
<1>5. IsFiniteSet(BackOf) /\ Cardinality(BackOf) \in Nat
  <2>1. IsFiniteSet(BackOf)
    <3>1. BackOf \subseteq W
        BY DEF HoldersOfId
    <3> HIDE DEF BackOf
    <3> QED BY <3>1, FS_Subset
  <2> QED BY <2>1, FS_CardinalityType
<1>6. Allowance(b) \in Nat
    BY ShareFacts
<1> HIDE DEF BackOf, New, Old, F, Slots
<1>7. /\ IsFiniteSet(0 .. Allowance(b) - 1)
      /\ Cardinality(0 .. Allowance(b) - 1) = Allowance(b)
  <2> DEFINE most == Allowance(b) - 1
  <2>1. most \in Int /\ 0 \in Int /\ (0 > most => Allowance(b) = 0)
        /\ most - 0 + 1 = Allowance(b)
      BY <1>6
  <2> HIDE DEF most
  <2>2. IsFiniteSet(0 .. most) /\ Cardinality(0 .. most) = Allowance(b)
      BY <2>1, FS_Interval
  <2> QED BY <2>2 DEF most
<1>8. /\ IsFiniteSet(Slots)
      /\ Cardinality(Slots) = Cardinality(BackOf) * Allowance(b)
    BY <1>5, <1>7, FS_Product DEF Slots
<1>9. IsFiniteSet(New) /\ Cardinality(New) <= Cardinality(Slots)
    BY <1>4, <1>8, FS_Injection
<1>10. /\ IsFiniteSet(Old) /\ IsFiniteSet(Old \cup New)
       /\ Cardinality(Old \cup New) = Cardinality(Old) + Cardinality(New)
                                      - Cardinality(Old \cap New)
    BY <1>9, FS_Union DEF Old
<1>11. Cardinality(Old \cap New) = 0
  <2>1. Old \cap New = {}
      BY DEF New
  <2> QED BY <2>1, FS_EmptySet
<1>12. /\ IsFiniteSet(QueuedShares(R, b, id))
       /\ Cardinality(QueuedShares(R, b, id)) <= Cardinality(Old \cup New)
  <2>1. QueuedShares(R, b, id) \subseteq Old \cup New
      BY DEF New
  <2> QED BY <1>10, <2>1, FS_Subset
<1>13. /\ Cardinality(QueuedShares(R, b, id)) \in Nat /\ Cardinality(New) \in Nat
       /\ Cardinality(Old) \in Nat /\ Cardinality(Slots) \in Nat
       /\ Cardinality(Old \cup New) \in Nat
    BY <1>8, <1>9, <1>10, <1>12, FS_CardinalityType
<1>14. Cardinality(QueuedShares(R, b, id)) <= Cardinality(Old) + Cardinality(Slots)
    BY <1>9, <1>10, <1>11, <1>12, <1>13
<1> QED BY <1>8, <1>12, <1>14 DEF Old, BackOf

-----------------------------------------------------------------------------
(* What is in the hands of workers.                                        *)

(* Hands are typed as far as their shares are concerned.                   *)
HandsTyped(pc, h) == \A w \in Workers : pc[w] \in MaySend => h[w] \in Messages

LEMMA HandsAreFinite ==
    ASSUME NEW pc, NEW h, HandsTyped(pc, h), NEW b \in Budgets, NEW id
    PROVE  IsFiniteSet(HandShares(pc, h, b, id))
<1> DEFINE All == HandShares(pc, h, b, id)
<1>1. Allowance(b) \in Nat
    BY ShareFacts
<1>2. IsFiniteSet(0 .. Allowance(b) - 1)
  <2> DEFINE most == Allowance(b) - 1
  <2>1. most \in Int /\ 0 \in Int
      BY <1>1
  <2> HIDE DEF most
  <2>2. IsFiniteSet(0 .. most)
      BY <2>1, FS_Interval
  <2> QED BY <2>2 DEF most
<1>3. All \subseteq Workers \X (0 .. Allowance(b) - 1)
  <2>1. ASSUME NEW t \in All PROVE t \in Workers \X (0 .. Allowance(b) - 1)
    <3>1. PICK v \in Workers, j \in Nat : t = <<v, j>>
        BY DEF HandShares
    <3>2. h[v] \in Messages /\ j \in Shares(b, h[v])
        BY <3>1 DEF HandShares, HandsTyped
    <3>3. j \in 0 .. Allowance(b) - 1
        BY <3>2, ShareFacts
    <3> QED BY <3>1, <3>3
  <2> QED BY <2>1
<1>4. IsFiniteSet(Workers \X (0 .. Allowance(b) - 1))
    BY <1>2, WorkersAssumption, FS_Product
<1> HIDE DEF All
<1>5. IsFiniteSet(All)
    BY <1>3, <1>4, FS_Subset
<1> QED BY <1>5 DEF All

(* One worker's shares and those of the rest.                              *)
LEMMA HandSplit ==
    ASSUME NEW pc, NEW h, HandsTyped(pc, h), NEW b \in Budgets, NEW id,
           NEW w \in Workers, NEW Rest,
           Rest = {t \in HandShares(pc, h, b, id) : t[1] # w}
    PROVE  /\ IsFiniteSet(Rest) /\ Cardinality(Rest) \in Nat
           /\ Load(pc[w], h[w], b, id) \in Nat
           /\ Cardinality(HandShares(pc, h, b, id)) =
                 Cardinality(Rest) + Load(pc[w], h[w], b, id)
<1> DEFINE All == HandShares(pc, h, b, id)
           Mine == {t \in All : t[1] = w}
<1>1. IsFiniteSet(All)
    BY HandsAreFinite
<1> HIDE DEF Mine
<1>2. /\ IsFiniteSet(Mine) /\ Load(pc[w], h[w], b, id) \in Nat
      /\ Cardinality(Mine) = Load(pc[w], h[w], b, id)
  <2>1. CASE pc[w] \in MaySend /\ h[w].id = id
    <3>1. PICK m \in Messages : m = h[w]
        BY <2>1 DEF HandsTyped
    <3>2. Mine = {w} \X Shares(b, m)
      <4>1. ASSUME NEW j \in Shares(b, m) PROVE j \in Nat
          BY ShareFacts
      <4>2. ASSUME NEW t \in Mine PROVE t \in {w} \X Shares(b, m)
          BY <3>1 DEF HandShares, Mine
      <4>3. ASSUME NEW t \in {w} \X Shares(b, m) PROVE t \in Mine
          BY <2>1, <3>1, <4>1 DEF HandShares, Mine
      <4> QED BY <4>2, <4>3
    <3>3. Load(pc[w], h[w], b, id) = Cost(b, m) /\ Cost(b, m) \in Nat
        BY <2>1, <3>1, ShareFacts DEF Load
    <3> QED BY <3>2, <3>3, SharesOf
  <2>2. CASE ~ (pc[w] \in MaySend /\ h[w].id = id)
    <3>1. Mine = {} /\ Load(pc[w], h[w], b, id) = 0
        BY <2>2 DEF HandShares, Load, Mine
    <3> QED BY <3>1, FS_EmptySet
  <2> QED BY <2>1, <2>2
<1>3. IsFiniteSet(Rest)
    BY <1>1, FS_Subset
<1>4. All = Rest \cup Mine /\ Rest \cap Mine = {}
    BY DEF Mine
<1>5. Cardinality(Rest \cap Mine) = 0
    BY <1>4, FS_EmptySet
<1>6. Cardinality(Rest) \in Nat
    BY <1>3, FS_CardinalityType
<1> HIDE DEF All
<1>7. Cardinality(Rest \cup Mine) =
        Cardinality(Rest) + Cardinality(Mine) - Cardinality(Rest \cap Mine)
    BY <1>2, <1>3, FS_Union
<1>8. Cardinality(All) = Cardinality(Rest \cup Mine)
    BY <1>4
<1>9. Cardinality(All) = Cardinality(Rest) + Load(pc[w], h[w], b, id)
    BY <1>2, <1>5, <1>6, <1>7, <1>8
<1> QED BY <1>2, <1>3, <1>6, <1>9 DEF All

(* If only w moves, only its load changes.                                 *)
LEMMA OneHandMoves ==
    ASSUME NEW pc, NEW h, HandsTyped(pc, h),
           NEW qc, NEW g, HandsTyped(qc, g),
           NEW w \in Workers,
           \A v \in Workers \ {w} : qc[v] = pc[v] /\ g[v] = h[v],
           NEW b \in Budgets, NEW id
    PROVE  /\ Cardinality(HandShares(pc, h, b, id)) \in Nat
           /\ Cardinality(HandShares(qc, g, b, id)) \in Nat
           /\ Load(pc[w], h[w], b, id) \in Nat
           /\ Load(qc[w], g[w], b, id) \in Nat
           /\ Cardinality(HandShares(qc, g, b, id)) + Load(pc[w], h[w], b, id) =
              Cardinality(HandShares(pc, h, b, id)) + Load(qc[w], g[w], b, id)
<1> DEFINE Rest == {t \in HandShares(pc, h, b, id) : t[1] # w}
           Other == {t \in HandShares(qc, g, b, id) : t[1] # w}
<1>1. Rest = Other
    BY DEF HandShares
<1> HIDE DEF Rest, Other
<1>2. /\ Cardinality(Rest) \in Nat /\ Load(pc[w], h[w], b, id) \in Nat
      /\ Cardinality(HandShares(pc, h, b, id)) =
            Cardinality(Rest) + Load(pc[w], h[w], b, id)
    BY HandSplit DEF Rest
<1>3. /\ Load(qc[w], g[w], b, id) \in Nat
      /\ Cardinality(HandShares(qc, g, b, id)) =
            Cardinality(Other) + Load(qc[w], g[w], b, id)
    BY HandSplit DEF Other
<1> QED BY <1>1, <1>2, <1>3

-----------------------------------------------------------------------------
(* What a step of the broker costs.                                        *)

InQueues(b, id) == QueuedShares(queue, b, id)
Price(m, b, id) == IF m.id = id THEN Cost(b, m) ELSE 0

(* The queues got at most n shares more.                                   *)
QueuesGain(b, id, n) ==
    /\ IsFiniteSet(InQueues(b, id)')
    /\ Cardinality(InQueues(b, id)) \in Nat
    /\ Cardinality(InQueues(b, id)') \in Nat
    /\ Cardinality(InQueues(b, id)') <= Cardinality(InQueues(b, id)) + n

LEMMA QueuesStay ==
    ASSUME UNCHANGED queue, NEW b \in Budgets, NEW id, IsFiniteSet(InQueues(b, id))
    PROVE  QueuesGain(b, id, 0)
<1>1. Cardinality(InQueues(b, id)) \in Nat
    BY FS_CardinalityType
<1>2. InQueues(b, id)' = InQueues(b, id)
    BY DEF InQueues
<1> QED BY <1>1, <1>2 DEF QueuesGain

LEMMA PriceType ==
    ASSUME NEW b \in Budgets, NEW id, NEW m \in Messages
    PROVE  Price(m, b, id) \in Nat
BY ShareFacts DEF Price

LEMMA PublishCosts ==
    ASSUME BrokerTypeOK, NEW s \in Publishers, NEW q \in Queues,
           NEW m \in Messages, Publish(s, q, m),
           NEW b \in Budgets, NEW id, IsFiniteSet(InQueues(b, id))
    PROVE  requeues' = requeues /\ QueuesGain(b, id, Price(m, b, id))
<1>1. Price(m, b, id) \in Nat
    BY PriceType
<1>2. CASE queue' = [queue EXCEPT ![q][m] = @ + 1]
  <2>1. OneMore(queue, queue', q, m)
      BY <1>2 DEF OneMore, QueuesTyped, BrokerTypeOK
  <2>2. /\ IsFiniteSet(QueuedShares(queue', b, id))
        /\ Cardinality(QueuedShares(queue', b, id)) =
              Cardinality(QueuedShares(queue, b, id)) + Price(m, b, id)
      BY <2>1, OneCopyMore DEF InQueues, Price
  <2>3. /\ Cardinality(QueuedShares(queue', b, id)) \in Nat
        /\ Cardinality(QueuedShares(queue, b, id)) \in Nat
      BY <2>2, FS_CardinalityType DEF InQueues
  <2> QED BY <1>1, <2>2, <2>3 DEF Publish, QueuesGain, InQueues
<1>3. CASE UNCHANGED queue
  <2>1. QueuesGain(b, id, 0)
      BY <1>3, QueuesStay
  <2> QED BY <1>1, <2>1 DEF Publish, QueuesGain
<1> QED BY <1>2, <1>3 DEF Publish

LEMMA DeliverCosts ==
    ASSUME BrokerTypeOK, NEW w \in Workers, NEW m \in Messages, Deliver(w, m),
           NEW b \in Budgets, NEW id, IsFiniteSet(InQueues(b, id))
    PROVE  requeues' = requeues /\ QueuesGain(b, id, 0 - Price(m, b, id))
<1>0. PICK q \in Queues : q = "process"
    BY DEF Queues
<1>1. OneMore(queue', queue, q, m)
    BY <1>0 DEF OneMore, QueuesTyped, BrokerTypeOK, Deliver
<1>2. Price(m, b, id) \in Nat
    BY PriceType
<1>3. /\ IsFiniteSet(QueuedShares(queue', b, id))
      /\ Cardinality(QueuedShares(queue, b, id)) =
            Cardinality(QueuedShares(queue', b, id)) + Price(m, b, id)
    BY <1>1, OneCopyLess DEF InQueues, Price
<1>4. /\ Cardinality(QueuedShares(queue', b, id)) \in Nat
      /\ Cardinality(QueuedShares(queue, b, id)) \in Nat
    BY <1>3, FS_CardinalityType DEF InQueues
<1> QED BY <1>2, <1>3, <1>4 DEF Deliver, QueuesGain, InQueues

LEMMA DeadLetterCosts ==
    ASSUME BrokerTypeOK, NEW q \in Queues, NEW m \in Messages, DeadLetter(q, m),
           NEW b \in Budgets, NEW id, IsFiniteSet(InQueues(b, id))
    PROVE  requeues' = requeues /\ QueuesGain(b, id, 0)
<1> DEFINE mid == [queue EXCEPT ![q][m] = @ - 1]
<1>1. OneMore(mid, queue, q, m)
    BY DEF OneMore, QueuesTyped, BrokerTypeOK, DeadLetter
<1>2. PICK p \in Queues : OneMore(mid, queue', p, m)
  <2>1. PICK p \in Queues : p = "process" /\ p # q
      BY DEF DeadLetter, Queues
  <2>2. /\ queue \in QueuesTyped
        /\ queue' = [queue EXCEPT ![q][m] = @ - 1, ![p][m] = @ + 1]
        /\ queue[q][m] > 0
      BY <2>1 DEF DeadLetter, BrokerTypeOK, QueuesTyped
  <2>3. mid \in QueuesTyped /\ mid[p] = queue[p]
      BY <2>1, <2>2 DEF QueuesTyped
  <2>4. queue' = [mid EXCEPT ![p][m] = @ + 1]
      BY <2>1, <2>2, <2>3 DEF QueuesTyped
  <2> HIDE DEF mid
  <2>5. queue' \in QueuesTyped
      BY <2>3, <2>4 DEF QueuesTyped
  <2>6. OneMore(mid, queue', p, m)
      BY <2>3, <2>4, <2>5 DEF OneMore, QueuesTyped
  <2> QED BY <2>6
<1>3. Price(m, b, id) \in Nat
    BY PriceType
<1> HIDE DEF mid
<1>4. /\ IsFiniteSet(QueuedShares(mid, b, id))
      /\ Cardinality(QueuedShares(queue, b, id)) =
            Cardinality(QueuedShares(mid, b, id)) + Price(m, b, id)
    BY <1>1, OneCopyLess DEF InQueues, Price
<1>5. /\ IsFiniteSet(QueuedShares(queue', b, id))
      /\ Cardinality(QueuedShares(queue', b, id)) =
            Cardinality(QueuedShares(mid, b, id)) + Price(m, b, id)
  <2>1. PICK Q, R : Q = mid /\ R = queue'
      OBVIOUS
  <2>2. OneMore(Q, R, p, m) /\ IsFiniteSet(QueuedShares(Q, b, id))
      BY <1>2, <1>4, <2>1
  <2>3. /\ IsFiniteSet(QueuedShares(R, b, id))
        /\ Cardinality(QueuedShares(R, b, id)) =
              Cardinality(QueuedShares(Q, b, id)) + Price(m, b, id)
      BY <2>2, OneCopyMore DEF Price
  <2> QED BY <2>1, <2>3
<1>6. /\ Cardinality(QueuedShares(queue', b, id)) \in Nat
      /\ Cardinality(QueuedShares(queue, b, id)) \in Nat
    BY <1>5, FS_CardinalityType DEF InQueues
<1> QED BY <1>4, <1>5, <1>6 DEF DeadLetter, QueuesGain, InQueues

(* Every delivery that goes back is counted as a requeue, and brings one   *)
(* allowance at most.                                                      *)
LEMMA GiveBackCosts ==
    ASSUME BrokerTypeOK, NEW W \in SUBSET Workers, GiveBack(W),
           NEW b \in Budgets, NEW id \in Ids, IsFiniteSet(InQueues(b, id))
    PROVE  \E k \in Nat : /\ requeues'[id] = requeues[id] + k
                          /\ QueuesGain(b, id, k * Allowance(b))
<1> DEFINE k == Cardinality(HoldersOfId(W, unacked, id))
<1>1. IsFiniteSet(W)
    BY WorkersAssumption, FS_Subset
<1>2. k \in Nat
  <2>1. HoldersOfId(W, unacked, id) \in SUBSET W
      BY DEF HoldersOfId
  <2>2. IsFiniteSet(HoldersOfId(W, unacked, id))
      BY <1>1, <2>1, FS_Subset
  <2> QED BY <2>2, FS_CardinalityType
<1>3. requeues'[id] = requeues[id] + k
    BY DEF GiveBack, HoldersOfId
<1>4. queue \in QueuesTyped /\ queue' \in QueuesTyped
    BY WorkersAssumption, GiveBackEffect DEF QueuesTyped, BrokerTypeOK
<1>5. /\ \A m \in Messages : queue'["process"][m] =
             queue["process"][m] + Cardinality(HoldersOf(W, unacked, m))
      /\ \A r \in Queues \ {"process"}, m \in Messages : queue'[r][m] = queue[r][m]
    BY DEF GiveBack, BrokerTypeOK, Queues, HoldersOf
<1>6. /\ IsFiniteSet(QueuedShares(queue', b, id))
      /\ Cardinality(QueuedShares(queue', b, id)) <=
            Cardinality(QueuedShares(queue, b, id)) + k * Allowance(b)
  <2>1. PICK Q, R, u : Q = queue /\ R = queue' /\ u = unacked
      OBVIOUS
  <2>2. Q \in QueuesTyped /\ R \in QueuesTyped
      BY <1>4, <2>1
  <2>3. /\ \A m \in Messages :
               R["process"][m] = Q["process"][m] + Cardinality(HoldersOf(W, u, m))
        /\ \A r \in Queues \ {"process"}, m \in Messages : R[r][m] = Q[r][m]
      BY <1>5, <2>1
  <2>4. IsFiniteSet(QueuedShares(Q, b, id))
      BY <2>1 DEF InQueues
  <2>5. /\ IsFiniteSet(QueuedShares(R, b, id))
        /\ Cardinality(QueuedShares(R, b, id)) <=
              Cardinality(QueuedShares(Q, b, id))
              + Cardinality(HoldersOfId(W, u, id)) * Allowance(b)
      BY <1>1, <2>2, <2>3, <2>4, ManyCopiesMore
  <2> QED BY <2>1, <2>5
<1>7. /\ Cardinality(QueuedShares(queue', b, id)) \in Nat
      /\ Cardinality(QueuedShares(queue, b, id)) \in Nat
    BY <1>6, FS_CardinalityType DEF InQueues
<1> HIDE DEF k
<1> QED BY <1>2, <1>3, <1>6, <1>7 DEF QueuesGain, InQueues

-----------------------------------------------------------------------------
(* The books are balanced by every step.                                   *)

InHands(b, id) == HandShares(wpc, hand, b, id)
LoadOf(w, b, id) == Load(wpc[w], hand[w], b, id)
Total(b, id) ==
    Spent(b, id) + Cardinality(InQueues(b, id)) + Cardinality(InHands(b, id))

(* What a step adds to the total is covered by the requeues it causes.     *)
Covered(b, id) ==
    /\ IsFiniteSet(InQueues(b, id)')
    /\ \E k \in Nat : /\ requeues'[id] = requeues[id] + k
                      /\ Total(b, id)' <= Total(b, id) + k * Allowance(b)

(* What has been spent on a notification and what can still be spent is    *)
(* within one allowance and one more for each requeue.                     *)
WithinBudget ==
    \A b \in Budgets, id \in Ids :
        /\ IsFiniteSet(InQueues(b, id))
        /\ Total(b, id) <= Allowance(b) * (1 + requeues[id])

LEMMA BudgetTypes ==
    ASSUME TypeOK, NEW b \in Budgets, NEW id \in Ids
    PROVE  HandsTyped(wpc, hand) /\ Spent(b, id) \in Nat /\ requeues[id] \in Nat
BY DEF TypeOK, ConsumerTypeOK, BrokerTypeOK, HandsTyped, MaySend, Spent

(* A worker's step: what it spends and what it puts into the queues comes  *)
(* out of its load, or is paid for by a requeue.                           *)
LEMMA WorkerBalance ==
    ASSUME TypeOK, TypeOK', NEW w \in Workers,
           HandlerStep(w) \/ \E m \in Messages : Receive(w, m),
           NEW b \in Budgets, NEW id \in Ids,
           NEW g \in Int, NEW k \in Nat,
           requeues'[id] = requeues[id] + k,
           QueuesGain(b, id, g),
           Spent(b, id)' + LoadOf(w, b, id)' + g
              <= Spent(b, id) + LoadOf(w, b, id) + k * Allowance(b)
    PROVE  Covered(b, id)
<1>1. \A v \in Workers \ {w} : wpc'[v] = wpc[v] /\ hand'[v] = hand[v]
    BY OtherWorkers DEF StandsStill
<1>2. /\ HandsTyped(wpc, hand) /\ Spent(b, id) \in Nat
      /\ HandsTyped(wpc', hand') /\ Spent(b, id)' \in Nat
    BY BudgetTypes DEF TypeOK, ConsumerTypeOK, BrokerTypeOK, HandsTyped, MaySend, Spent
<1>3. /\ Cardinality(InHands(b, id)) \in Nat
      /\ Cardinality(InHands(b, id)') \in Nat
      /\ LoadOf(w, b, id) \in Nat /\ LoadOf(w, b, id)' \in Nat
      /\ Cardinality(InHands(b, id)') + LoadOf(w, b, id) =
         Cardinality(InHands(b, id)) + LoadOf(w, b, id)'
  <2>1. PICK pc, h, qc, f : pc = wpc /\ h = hand /\ qc = wpc' /\ f = hand'
      OBVIOUS
  <2>2. /\ HandsTyped(pc, h) /\ HandsTyped(qc, f)
        /\ \A v \in Workers \ {w} : qc[v] = pc[v] /\ f[v] = h[v]
      BY <1>1, <1>2, <2>1
  <2>3. /\ Cardinality(HandShares(pc, h, b, id)) \in Nat
        /\ Cardinality(HandShares(qc, f, b, id)) \in Nat
        /\ Load(pc[w], h[w], b, id) \in Nat
        /\ Load(qc[w], f[w], b, id) \in Nat
        /\ Cardinality(HandShares(qc, f, b, id)) + Load(pc[w], h[w], b, id) =
           Cardinality(HandShares(pc, h, b, id)) + Load(qc[w], f[w], b, id)
      BY <2>2, OneHandMoves
  <2> QED BY <2>1, <2>3 DEF InHands, LoadOf
<1>4. /\ IsFiniteSet(InQueues(b, id)')
      /\ Cardinality(InQueues(b, id)) \in Nat
      /\ Cardinality(InQueues(b, id)') \in Nat
      /\ Cardinality(InQueues(b, id)') <= Cardinality(InQueues(b, id)) + g
    BY DEF QueuesGain
<1>5. Allowance(b) \in Nat
    BY ShareFacts
<1>6. k * Allowance(b) \in Nat
    BY <1>5
<1>7. Spent(b, id)' + Cardinality(InQueues(b, id)') + Cardinality(InHands(b, id)')
        <= Spent(b, id) + Cardinality(InQueues(b, id)) + Cardinality(InHands(b, id))
           + k * Allowance(b)
    BY <1>2, <1>3, <1>4, <1>6
<1>8. Total(b, id)' <= Total(b, id) + k * Allowance(b)
    BY <1>7 DEF Total
<1> QED BY <1>4, <1>8 DEF Covered

LEMMA LoadFacts ==
    ASSUME TypeOK, NEW w \in Workers, NEW b \in Budgets, NEW id
    PROVE  /\ LoadOf(w, b, id) \in Nat
           /\ wpc[w] \notin MaySend => LoadOf(w, b, id) = 0
           /\ wpc[w] \in MaySend =>
                 hand[w] \in Messages /\ LoadOf(w, b, id) = Price(hand[w], b, id)
<1>1. wpc[w] \in MaySend => hand[w] \in Messages
    BY DEF TypeOK, ConsumerTypeOK, MaySend
<1> QED BY <1>1, PriceType DEF LoadOf, Load, Price

(* A message is taken out of the queue and into the hand.                  *)
LEMMA ReceiveCovered ==
    ASSUME TypeOK, TypeOK', WithinBudget, NEW w \in Workers, NEW m \in Messages,
           Receive(w, m), NEW b \in Budgets, NEW id \in Ids
    PROVE  Covered(b, id)
<1>1. requeues' = requeues /\ QueuesGain(b, id, 0 - Price(m, b, id))
    BY DeliverCosts DEF TypeOK, Receive, WithinBudget
<1>2. Price(m, b, id) \in Nat /\ Spent(b, id) \in Nat /\ requeues[id] \in Nat
    BY PriceType, BudgetTypes
<1>3. Spent(b, id)' = Spent(b, id)
    BY DEF Receive, KeepSends, Spent
<1>4. LoadOf(w, b, id) = 0
    BY LoadFacts DEF Receive, MaySend
<1>5. LoadOf(w, b, id)' = Price(m, b, id)
  <2>1. wpc'[w] = "checking" /\ hand'[w] = m
      BY DEF Receive, Resume, TypeOK, ConsumerTypeOK
  <2> QED BY <2>1 DEF LoadOf, Load, Price, MaySend
<1>6. Allowance(b) \in Nat
    BY ShareFacts
<1> DEFINE g == 0 - Price(m, b, id)
<1>7. /\ g \in Int /\ QueuesGain(b, id, g) /\ requeues'[id] = requeues[id] + 0
      /\ Spent(b, id)' + LoadOf(w, b, id)' + g
            <= Spent(b, id) + LoadOf(w, b, id) + 0 * Allowance(b)
    BY <1>1, <1>2, <1>3, <1>4, <1>5, <1>6
<1> HIDE DEF g
<1> QED BY <1>7, WorkerBalance

(* The message is settled, and nothing more is sent for it from this hand. *)
LEMMA SettleCovered ==
    ASSUME TypeOK, TypeOK', WithinBudget, NEW w \in Workers,
           HandlerStep(w), wpc'[w] \notin MaySend, KeepSends,
           (UNCHANGED <<queue, requeues>>) \/ GiveBack({w}),
           NEW b \in Budgets, NEW id \in Ids
    PROVE  Covered(b, id)
<1>1. Spent(b, id)' = Spent(b, id) /\ Spent(b, id) \in Nat
      /\ Allowance(b) \in Nat /\ requeues[id] \in Nat
    BY BudgetTypes, ShareFacts DEF KeepSends, Spent
<1>2. LoadOf(w, b, id) \in Nat /\ LoadOf(w, b, id)' = 0
    BY LoadFacts DEF LoadOf, Load
<1>3. CASE UNCHANGED <<queue, requeues>>
  <2>1. QueuesGain(b, id, 0)
      BY <1>3, QueuesStay DEF WithinBudget
  <2>2. /\ requeues'[id] = requeues[id] + 0
        /\ Spent(b, id)' + LoadOf(w, b, id)' + 0
              <= Spent(b, id) + LoadOf(w, b, id) + 0 * Allowance(b)
      BY <1>1, <1>2, <1>3
  <2> QED BY <2>1, <2>2, WorkerBalance
<1>4. CASE GiveBack({w})
  <2>1. PICK k \in Nat : /\ requeues'[id] = requeues[id] + k
                         /\ QueuesGain(b, id, k * Allowance(b))
      BY <1>4, GiveBackCosts DEF TypeOK, WithinBudget
  <2> DEFINE g == k * Allowance(b)
  <2>2. /\ g \in Int /\ QueuesGain(b, id, g)
        /\ Spent(b, id)' + LoadOf(w, b, id)' + g
              <= Spent(b, id) + LoadOf(w, b, id) + k * Allowance(b)
    <3>1. g \in Int
        BY <1>1
    <3>2. g = k * Allowance(b)
        OBVIOUS
    <3> HIDE DEF g
    <3> QED BY <1>1, <1>2, <2>1, <3>1, <3>2
  <2> HIDE DEF g
  <2> QED BY <2>1, <2>2, WorkerBalance
<1> QED BY <1>3, <1>4

(* A call of Send is paid for by the load, which shrinks by it.            *)
LEMMA SendCovered ==
    ASSUME TypeOK, TypeOK', WithinBudget, NEW w \in Workers,
           SendOk(w) \/ SendFailsFinally(w) \/ SendFails(w),
           NEW b \in Budgets, NEW id \in Ids
    PROVE  Covered(b, id)
<1>1. PICK m \in Messages : m = hand[w]
    BY DEF SendOk, SendFailsFinally, SendFails, Sends, TypeOK, ConsumerTypeOK
<1>2. /\ UNCHANGED <<queue, requeues>> /\ HandlerStep(w)
      /\ requeues[id] \in Nat /\ requeues'[id] = requeues[id] + 0
    BY BudgetTypes
    DEF SendOk, SendFailsFinally, SendFails, Sends, brokerVars, HandlerStep
<1>3. QueuesGain(b, id, 0)
    BY <1>2, QueuesStay DEF WithinBudget
<1>4. /\ Spent(b, id) \in Nat /\ Allowance(b) \in Nat
      /\ Cost(b, m) \in Nat /\ Cost(b, m) >= 1
    BY BudgetTypes, ShareFacts
<1>5. LoadOf(w, b, id) = IF m.id = id THEN Cost(b, m) ELSE 0
  <2>1. wpc[w] = "sending"
      BY DEF SendOk, SendFailsFinally, SendFails, Sends
  <2> QED BY <1>1, <2>1 DEF LoadOf, Load, MaySend
<1>6. Spent(b, id)' + LoadOf(w, b, id)' <= Spent(b, id) + LoadOf(w, b, id)
  <2>1. CASE SendOk(w) \/ SendFailsFinally(w)
    <3>1. wpc'[w] = "recording"
        BY <2>1 DEF SendOk, SendFailsFinally, Resume, TypeOK, ConsumerTypeOK
    <3>2. LoadOf(w, b, id)' = 0
        BY <3>1 DEF LoadOf, Load, MaySend
    <3>3. \E o \in {0, 1} :
             /\ sends' = [sends EXCEPT ![m.id] = @ + 1]
             /\ delivered' = [delivered EXCEPT ![m.id] = @ + o]
        BY <1>1, <2>1 DEF SendOk, SendFailsFinally, Sends
    <3>4. Spent(b, id)' <= Spent(b, id) + (IF m.id = id THEN 1 ELSE 0)
          /\ Spent(b, id)' \in Nat
        BY <3>3 DEF Spent, TypeOK, ConsumerTypeOK, Messages
    <3> QED BY <1>4, <1>5, <3>2, <3>4
  <2>2. CASE SendFails(w)
    <3>1. /\ hand'[w] = [id |-> m.id, attempts |-> m.attempts + 1]
          /\ hand'[w] \in Messages
          /\ sends'[m.id] = sends[m.id] + 1
          /\ UNCHANGED delivered
        BY <1>1, <2>2, SendFailsEffect
    <3>2. wpc'[w] = "retrying"
        BY <2>2 DEF SendFails, Resume, TypeOK, ConsumerTypeOK
    <3>3. LoadOf(w, b, id)' =
            IF m.id = id
              THEN IF b = "deliveries" THEN 1 ELSE MaxRetries - (m.attempts + 1)
              ELSE 0
        BY <3>1, <3>2 DEF LoadOf, Load, Cost, MaySend
    <3>4. /\ b = "deliveries" => Spent(b, id)' = Spent(b, id)
          /\ b = "sends" =>
                Spent(b, id)' = Spent(b, id) + (IF m.id = id THEN 1 ELSE 0)
      <4>1. sends' = [sends EXCEPT ![m.id] = @ + 1]
          BY <1>1, <2>2 DEF SendFails, Sends
      <4> QED BY <3>1, <4>1 DEF Spent, TypeOK, ConsumerTypeOK
    <3>5. m.attempts \in Nat /\ MaxRetries \in Nat
        BY MaxRetriesAssumption DEF Messages
    <3>6. CASE b = "deliveries"
        BY <1>4, <1>5, <3>3, <3>4, <3>6 DEF Cost
    <3>7. CASE b = "sends"
        BY <1>4, <1>5, <3>3, <3>4, <3>5, <3>7 DEF Cost
    <3> QED BY <3>6, <3>7 DEF Budgets
  <2> QED BY <2>1, <2>2
<1>7. LoadOf(w, b, id) \in Nat /\ LoadOf(w, b, id)' \in Nat
      /\ Spent(b, id)' \in Nat
  <2>1. LoadOf(w, b, id) \in Nat
      BY LoadFacts
  <2>2. wpc'[w] \in MaySend => hand'[w] \in Messages
      BY DEF TypeOK, ConsumerTypeOK, MaySend
  <2>3. LoadOf(w, b, id)' \in Nat
    <3>1. PICK n : n = hand'[w]
        OBVIOUS
    <3> QED BY <2>2, <3>1, PriceType DEF LoadOf, Load, Price
  <2> QED BY <2>1, <2>3 DEF Spent, TypeOK, ConsumerTypeOK
<1>8. Spent(b, id)' + LoadOf(w, b, id)' + 0
        <= Spent(b, id) + LoadOf(w, b, id) + 0 * Allowance(b)
    BY <1>4, <1>6, <1>7
<1>9. HandlerStep(w) /\ requeues'[id] = requeues[id] + 0
    BY <1>2
<1> QED BY <1>3, <1>8, <1>9, WorkerBalance

LEMMA HandlerCovered ==
    ASSUME TypeOK, TypeOK', WithinBudget, NEW w \in Workers,
           HandlerStep(w), NEW b \in Budgets, NEW id \in Ids
    PROVE  Covered(b, id)
<1>0. /\ Spent(b, id) \in Nat /\ Allowance(b) \in Nat /\ requeues[id] \in Nat
      /\ wpc \in [Workers -> WorkerStates]
    BY BudgetTypes, ShareFacts DEF TypeOK, ConsumerTypeOK
<1>1. CASE \/ Skip(w) \/ Recorded(w) \/ PublishRetryFails(w)
           \/ AckRetried(w) \/ StopWorker(w)
  <2>1. wpc'[w] \notin MaySend /\ KeepSends
      BY <1>0, <1>1 DEF Skip, Recorded, PublishRetryFails, AckRetried, StopWorker,
                        LetGo, Resume, MaySend
  <2>2. (UNCHANGED <<queue, requeues>>) \/ GiveBack({w})
      BY <1>1 DEF Skip, Recorded, PublishRetryFails, AckRetried, StopWorker,
                  Ack, Requeue, SetChannels
  <2> QED BY <2>1, <2>2, SettleCovered
<1>2. CASE Proceed(w)
  <2>1. /\ wpc[w] = "checking" /\ wpc'[w] = "sending"
        /\ UNCHANGED <<hand, queue, requeues, sends, delivered>>
      BY <1>0, <1>2 DEF Proceed, Resume, KeepSends, brokerVars
  <2>2. LoadOf(w, b, id)' = LoadOf(w, b, id) /\ Spent(b, id)' = Spent(b, id)
      BY <2>1 DEF LoadOf, Load, MaySend, Spent
  <2>3. QueuesGain(b, id, 0)
      BY <2>1, QueuesStay DEF WithinBudget
  <2>4. LoadOf(w, b, id) \in Nat
      BY LoadFacts
  <2>5. /\ requeues'[id] = requeues[id] + 0
        /\ Spent(b, id)' + LoadOf(w, b, id)' + 0
              <= Spent(b, id) + LoadOf(w, b, id) + 0 * Allowance(b)
      BY <1>0, <2>1, <2>2, <2>4
  <2> QED BY <2>3, <2>5, WorkerBalance
<1>3. CASE SendOk(w) \/ SendFailsFinally(w) \/ SendFails(w)
    BY <1>3, SendCovered
<1>4. CASE PublishRetry(w)
  <2>1. PICK m \in Messages : m = hand[w]
      BY <1>4 DEF PublishRetry, TypeOK, ConsumerTypeOK
  <2>2. Publish("worker", "retry", m)
      BY <1>4, <2>1 DEF PublishRetry
  <2>3. requeues' = requeues /\ QueuesGain(b, id, Price(m, b, id))
    <3>1. PICK s \in Publishers, q \in Queues : s = "worker" /\ q = "retry"
        BY DEF Publishers, Queues
    <3>2. Publish(s, q, m)
        BY <2>2, <3>1
    <3> QED BY <3>2, PublishCosts DEF TypeOK, WithinBudget
  <2>4. wpc[w] = "retrying" /\ wpc'[w] = "acking" /\ KeepSends
      BY <1>0, <1>4 DEF PublishRetry, Resume
  <2>5. /\ LoadOf(w, b, id)' = 0 /\ LoadOf(w, b, id) = Price(m, b, id)
        /\ Spent(b, id)' = Spent(b, id) /\ Price(m, b, id) \in Nat
      BY <2>1, <2>4, PriceType DEF LoadOf, Load, Price, MaySend, KeepSends, Spent
  <2> DEFINE g == Price(m, b, id)
  <2>6. /\ g \in Int /\ QueuesGain(b, id, g) /\ requeues'[id] = requeues[id] + 0
        /\ Spent(b, id)' + LoadOf(w, b, id)' + g
              <= Spent(b, id) + LoadOf(w, b, id) + 0 * Allowance(b)
      BY <1>0, <2>3, <2>5
  <2> HIDE DEF g
  <2> QED BY <2>6, WorkerBalance
<1> QED BY <1>1, <1>2, <1>3, <1>4 DEF HandlerStep

(* Nobody's step but a worker's: hands stay or are emptied.                *)
LEMMA StepCovered ==
    ASSUME TypeOK, TypeOK', WithinBudget, NEW b \in Budgets, NEW id \in Ids,
           UNCHANGED <<sends, delivered>>,
           \/ UNCHANGED <<wpc, hand>>
           \/ wpc' = [w \in Workers |-> "idle"],
           \E k \in Nat : /\ requeues'[id] = requeues[id] + k
                          /\ QueuesGain(b, id, k * Allowance(b))
    PROVE  Covered(b, id)
<1>1. PICK k \in Nat : /\ requeues'[id] = requeues[id] + k
                       /\ QueuesGain(b, id, k * Allowance(b))
    OBVIOUS
<1>2. /\ Spent(b, id)' = Spent(b, id) /\ Spent(b, id) \in Nat
      /\ Allowance(b) \in Nat
    BY BudgetTypes, ShareFacts DEF Spent
<1>3. /\ Cardinality(InHands(b, id)) \in Nat
      /\ Cardinality(InHands(b, id)') \in Nat
      /\ Cardinality(InHands(b, id)') <= Cardinality(InHands(b, id))
  <2>1. IsFiniteSet(InHands(b, id))
    <3>1. HandsTyped(wpc, hand)
        BY BudgetTypes
    <3> QED BY <3>1, HandsAreFinite DEF InHands
  <2>2. Cardinality(InHands(b, id)) \in Nat
      BY <2>1, FS_CardinalityType
  <2>3. CASE UNCHANGED <<wpc, hand>>
    <3>1. InHands(b, id)' = InHands(b, id)
        BY <2>3 DEF InHands
    <3> QED BY <2>2, <3>1
  <2>4. CASE wpc' = [w \in Workers |-> "idle"]
    <3>1. InHands(b, id)' = {}
        BY <2>4 DEF InHands, HandShares, MaySend
    <3>2. Cardinality(InHands(b, id)') = 0
        BY <3>1, FS_EmptySet
    <3> QED BY <2>2, <3>2
  <2> QED BY <2>3, <2>4
<1>4. k * Allowance(b) \in Nat
    BY <1>2
<1>5. /\ IsFiniteSet(InQueues(b, id)')
      /\ Cardinality(InQueues(b, id)) \in Nat
      /\ Cardinality(InQueues(b, id)') \in Nat
      /\ Cardinality(InQueues(b, id)') <= Cardinality(InQueues(b, id)) + k * Allowance(b)
    BY <1>1 DEF QueuesGain
<1>6. Spent(b, id)' + Cardinality(InQueues(b, id)') + Cardinality(InHands(b, id)')
        <= Spent(b, id) + Cardinality(InQueues(b, id)) + Cardinality(InHands(b, id))
           + k * Allowance(b)
    BY <1>2, <1>3, <1>4, <1>5
<1>7. Total(b, id)' <= Total(b, id) + k * Allowance(b)
    BY <1>6 DEF Total
<1> QED BY <1>1, <1>5, <1>7 DEF Covered

LEMMA QuietStepCovered ==
    ASSUME TypeOK, TypeOK', WithinBudget, NEW b \in Budgets, NEW id \in Ids,
           UNCHANGED <<sends, delivered, wpc, hand, requeues>>,
           QueuesGain(b, id, 0)
    PROVE  Covered(b, id)
<1>1. Allowance(b) \in Nat /\ requeues[id] \in Nat
    BY BudgetTypes, ShareFacts
<1>2. PICK k \in Nat : k = 0
    OBVIOUS
<1>3. k * Allowance(b) = 0 /\ requeues'[id] = requeues[id] + k
    BY <1>1, <1>2
<1> QED BY <1>3, StepCovered

LEMMA FaultCovered ==
    ASSUME TypeOK, TypeOK', WithinBudget, ConsumerFaults,
           NEW b \in Budgets, NEW id \in Ids
    PROVE  Covered(b, id)
<1>1. UNCHANGED <<sends, delivered>>
    BY WorkerFaultEffect
<1>2. (UNCHANGED <<wpc, hand>>) \/ wpc' = [w \in Workers |-> "idle"]
    BY DEF ConsumerFaults, ChannelCloses, ConnectionCloses, PoolContextDone,
           StopHooksRun, WorkerProcessRestarts, consumerVars
<1>3. CASE \E W \in SUBSET Workers : GiveBack(W)
  <2>1. \E k \in Nat : /\ requeues'[id] = requeues[id] + k
                       /\ QueuesGain(b, id, k * Allowance(b))
      BY <1>3, GiveBackCosts DEF TypeOK, WithinBudget
  <2> QED BY <1>1, <1>2, <2>1, StepCovered
<1>4. CASE \/ PoolContextDone \/ StopHooksRun
           \/ PublisherCloses("worker") /\ UNCHANGED consumerVars
  <2>1. UNCHANGED <<queue, requeues, wpc, hand>>
      BY <1>4 DEF PoolContextDone, StopHooksRun, PublisherCloses, brokerVars, consumerVars
  <2>2. QueuesGain(b, id, 0)
      BY <2>1, QueuesStay DEF WithinBudget
  <2> QED BY <1>1, <2>1, <2>2, QuietStepCovered
<1>5. ASSUME NEW w \in Workers, ChannelCloses(w)
      PROVE  \E W \in SUBSET Workers : GiveBack(W)
  <2>1. {w} \in SUBSET Workers /\ GiveBack({w})
      BY <1>5 DEF ChannelCloses, SetChannels
  <2> QED BY <2>1
<1>6. ASSUME ConnectionCloses \/ WorkerProcessRestarts
      PROVE  \E W \in SUBSET Workers : GiveBack(W)
  <2>1. Workers \in SUBSET Workers /\ GiveBack(Workers)
      BY <1>6 DEF ConnectionCloses, WorkerProcessRestarts, SetChannels
  <2> QED BY <2>1
<1> QED BY <1>3, <1>4, <1>5, <1>6 DEF ConsumerFaults

(* The allowance of an id is there from its first message on, and nothing  *)
(* is spent on it before.                                                  *)
LEMMA CreationWithinBudget ==
    ASSUME SystemInv, OnlyAccepted, TypeOK', WithinBudget,
           NEW r \in Requests, PublishCreated(r), UNCHANGED consumerVars,
           NEW b \in Budgets, NEW id \in Ids
    PROVE  \/ Covered(b, id)
           \/ /\ IsFiniteSet(InQueues(b, id)')
              /\ requeues'[id] = requeues[id]
              /\ Total(b, id)' <= Allowance(b)
<1>1. PICK m \in Messages : m.id = call[r].id /\ m.attempts = 0 /\ Publish("api", "wait", m)
  <2>1. call[r].id \in Ids
      BY CreatedEffect
  <2>2. [id |-> call[r].id, attempts |-> 0] \in Messages
      BY <2>1, MaxRetriesAssumption DEF Messages
  <2> QED BY <2>2 DEF PublishCreated, PublishesNew
<1>2. TypeOK /\ OnlyAccepted
    BY DEF SystemInv
<1>3. UNCHANGED requeues /\ QueuesGain(b, id, Price(m, b, id))
  <2>1. PICK s \in Publishers, q \in Queues : s = "api" /\ q = "wait"
      BY DEF Publishers, Queues
  <2>2. Publish(s, q, m)
      BY <1>1, <2>1
  <2> QED BY <1>2, <2>2, PublishCosts DEF TypeOK, WithinBudget
<1>4. UNCHANGED <<sends, delivered, wpc, hand>>
    BY DEF consumerVars
<1>5. CASE m.id # id
  <2>1. Price(m, b, id) = 0
      BY <1>5 DEF Price
  <2> QED BY <1>2, <1>3, <1>4, <2>1, QuietStepCovered
<1>6. CASE m.id = id
  <2>1. id \notin published
    <3>1. r \in Procs /\ call[r].op = "Save"
        BY Participants DEF PublishCreated, Returned
    <3>2. ~ Public(id)
        BY <1>1, <1>6, <3>1 DEF Public
    <3> QED BY <3>2 DEF SystemInv, IdsArePublic
  <2>2. Spent(b, id) = 0
      BY <2>1 DEF OnlyAccepted, OthersAreUntouched, Untouched, Spent
  <2>3. InQueues(b, id) = {}
    <3>1. ASSUME NEW q \in Queues, NEW n \in Messages, n.id = id PROVE queue[q][n] = 0
        BY <1>2, <2>1, <3>1
        DEF OnlyAccepted, MessagesAreAccepted, Accepted, InQueue, TypeOK, BrokerTypeOK
    <3>2. ASSUME NEW t \in InQueues(b, id) PROVE FALSE
      <4>1. PICK q \in Queues, n \in Messages, k \in Nat, j \in Nat :
              t = <<<<q, n, k>>, j>>
          BY DEF InQueues, QueuedShares, QueueCopies
      <4>2. n.id = id /\ k < queue[q][n]
          BY <4>1 DEF InQueues, QueuedShares
      <4> QED BY <3>1, <4>2
    <3> QED BY <3>2
  <2>4. InHands(b, id)' = {}
    <3>1. ASSUME NEW w \in Workers, wpc[w] \in MaySend PROVE hand[w].id # id
        BY <1>2, <2>1, <3>1, LoadFacts, NoMessageIsNone
        DEF OnlyAccepted, HandsAreAccepted, Accepted, TypeOK, ConsumerTypeOK, MaySend
    <3>2. InHands(b, id) = {}
        BY <3>1 DEF InHands, HandShares
    <3>3. InHands(b, id)' = InHands(b, id)
        BY <1>4 DEF InHands
    <3> QED BY <3>2, <3>3
  <2>5. Price(m, b, id) = Allowance(b) /\ Allowance(b) \in Nat
      BY <1>1, <1>6, ShareFacts, MaxRetriesAssumption DEF Price, Cost, Allowance
  <2>6. Cardinality(InQueues(b, id)) = 0 /\ Cardinality(InHands(b, id)') = 0
      BY <2>3, <2>4, FS_EmptySet
  <2>7. /\ IsFiniteSet(InQueues(b, id)') /\ Cardinality(InQueues(b, id)') \in Nat
        /\ Cardinality(InQueues(b, id)') <= Allowance(b)
      BY <1>3, <2>5, <2>6 DEF QueuesGain
  <2>8. Spent(b, id)' = 0
      BY <1>4, <2>2 DEF Spent
  <2>9. Spent(b, id)' + Cardinality(InQueues(b, id)') + Cardinality(InHands(b, id)')
          <= Allowance(b)
      BY <2>5, <2>6, <2>7, <2>8
  <2>10. Total(b, id)' <= Allowance(b)
      BY <2>9 DEF Total
  <2> QED BY <1>3, <2>7, <2>10
<1> QED BY <1>5, <1>6

LEMMA BudgetHolds ==
    ASSUME SystemInv, OnlyAccepted, WithinBudget, [Next]_vars
    PROVE  WithinBudget'
<1>0. TypeOK /\ TypeOK'
    BY TypesHold DEF SystemInv
<1> SUFFICES ASSUME NEW b \in Budgets, NEW id \in Ids
             PROVE  /\ IsFiniteSet(InQueues(b, id)')
                    /\ Total(b, id)' <= Allowance(b) * (1 + requeues'[id])
    BY DEF WithinBudget
<1>1. /\ Allowance(b) \in Nat /\ requeues[id] \in Nat /\ requeues'[id] \in Nat
      /\ Total(b, id) <= Allowance(b) * (1 + requeues[id])
      /\ Total(b, id) \in Int /\ IsFiniteSet(InQueues(b, id))
  <2>1. Cardinality(InQueues(b, id)) \in Nat /\ IsFiniteSet(InQueues(b, id))
      BY FS_CardinalityType DEF WithinBudget
  <2>2. IsFiniteSet(InHands(b, id))
    <3>1. HandsTyped(wpc, hand)
        BY <1>0, BudgetTypes
    <3> QED BY <3>1, HandsAreFinite DEF InHands
  <2>3. Cardinality(InHands(b, id)) \in Nat
      BY <2>2, FS_CardinalityType
  <2>4. Spent(b, id) \in Nat /\ requeues[id] \in Nat
      BY <1>0, BudgetTypes
  <2>5. Total(b, id) \in Int
      BY <2>1, <2>3, <2>4 DEF Total
  <2>6. requeues'[id] \in Nat
      BY <1>0 DEF TypeOK, BrokerTypeOK
  <2> QED BY <2>1, <2>4, <2>5, <2>6, ShareFacts DEF WithinBudget
<1>2. IsFiniteSet(InQueues(b, id)') => Total(b, id)' \in Int
  <2>1. IsFiniteSet(InHands(b, id)')
    <3>1. PICK pc, h : pc = wpc' /\ h = hand'
        OBVIOUS
    <3>2. HandsTyped(pc, h)
        BY <1>0, <3>1 DEF TypeOK, ConsumerTypeOK, HandsTyped, MaySend
    <3>3. IsFiniteSet(HandShares(pc, h, b, id))
        BY <3>2, HandsAreFinite
    <3> QED BY <3>1, <3>3 DEF InHands
  <2>2. Cardinality(InHands(b, id)') \in Nat
      BY <2>1, FS_CardinalityType
  <2>3. IsFiniteSet(InQueues(b, id)') => Cardinality(InQueues(b, id)') \in Nat
      BY FS_CardinalityType
  <2>4. Spent(b, id)' \in Nat
      BY <1>0 DEF TypeOK, ConsumerTypeOK, Spent
  <2> QED BY <2>2, <2>3, <2>4 DEF Total
<1>3. ASSUME Covered(b, id)
      PROVE  /\ IsFiniteSet(InQueues(b, id)')
             /\ Total(b, id)' <= Allowance(b) * (1 + requeues'[id])
  <2>1. PICK k \in Nat : /\ requeues'[id] = requeues[id] + k
                         /\ Total(b, id)' <= Total(b, id) + k * Allowance(b)
      BY <1>3 DEF Covered
  <2>2. Allowance(b) * (1 + requeues'[id]) =
          Allowance(b) * (1 + requeues[id]) + k * Allowance(b)
      BY <1>1, <2>1
  <2>3. IsFiniteSet(InQueues(b, id)') /\ Total(b, id)' \in Int
      BY <1>2, <1>3 DEF Covered
  <2>4. /\ Allowance(b) * (1 + requeues[id]) \in Nat
        /\ k * Allowance(b) \in Nat
      BY <1>1
  <2> QED BY <1>1, <2>1, <2>2, <2>3, <2>4
<1>4. ASSUME UNCHANGED <<sends, delivered, wpc, hand, requeues, queue>>
      PROVE  Covered(b, id)
  <2>1. QueuesGain(b, id, 0)
      BY <1>1, <1>4, QueuesStay
  <2> QED BY <1>0, <1>4, <2>1, QuietStepCovered
<1>5. ASSUME NEW w \in Workers, HandlerStep(w) PROVE Covered(b, id)
    BY <1>0, <1>5, HandlerCovered
<1>6. ASSUME NEW w \in Workers, NEW m \in Messages, Receive(w, m) PROVE Covered(b, id)
    BY <1>0, <1>6, ReceiveCovered
<1>7. ASSUME NEW r \in Requests, PublishCreated(r), UNCHANGED consumerVars
      PROVE  /\ IsFiniteSet(InQueues(b, id)')
             /\ Total(b, id)' <= Allowance(b) * (1 + requeues'[id])
  <2>1. CASE Covered(b, id)
      BY <1>3, <2>1
  <2>2. CASE /\ IsFiniteSet(InQueues(b, id)')
             /\ requeues'[id] = requeues[id]
             /\ Total(b, id)' <= Allowance(b)
    <3>1. Allowance(b) <= Allowance(b) * (1 + requeues'[id])
      <4>1. Allowance(b) * requeues'[id] \in Nat
          BY <1>1
      <4> QED BY <1>1, <4>1
    <3> QED BY <1>1, <1>2, <2>2, <3>1
  <2> QED BY <1>0, <1>7, <2>1, <2>2, CreationWithinBudget
<1>8. ASSUME \/ \E r \in Requests : ApiRequest(r) \/ ApiStep(r)
             \/ ApiFaults /\ UNCHANGED <<consumerVars, late>>,
             ~ \E r \in Requests : PublishCreated(r) /\ UNCHANGED consumerVars
      PROVE  Covered(b, id)
  <2>1. UNCHANGED consumerVars
      BY <1>8 DEF ApiRequest, ApiStep
  <2>2. UNCHANGED <<queue, requeues>>
      BY <1>8 DEF ApiRequest, ApiStep, NewRequest, BeginCreate, BeginGet,
                  BeginCancel, AsksStore, RequestStep, CreateFails,
                  PublishCreatedFails, Rejects, CreateEnds, EndGet, CancelRefused,
                  CancelProceeds, CancelEnds, ApiFaults, ClientDisconnects, ApiProcessRestarts,
                  PublisherCloses, brokerVars
  <2> QED BY <1>4, <2>1, <2>2 DEF consumerVars
<1>9. ASSUME ConsumerFaults PROVE Covered(b, id)
    BY <1>0, <1>9, FaultCovered
<1>10. ASSUME NEW q \in Queues, NEW m \in Messages, Expiry(q, m) PROVE Covered(b, id)
  <2>1. requeues' = requeues /\ QueuesGain(b, id, 0)
      BY <1>0, <1>1, <1>10, DeadLetterCosts DEF Expiry, TypeOK
  <2> QED BY <1>0, <1>10, <2>1, QuietStepCovered DEF Expiry, consumerVars
<1>11. ASSUME \/ \E p \in Procs : StoreStep(p)
              \/ \E i \in Ids : StoreExpiry(i)
              \/ UNCHANGED vars
       PROVE  Covered(b, id)
    BY <1>4, <1>11 DEF StoreStep, StoreExpiry, vars, brokerVars, consumerVars
<1> QED BY <1>3, <1>5, <1>6, <1>7, <1>8, <1>9, <1>10, <1>11
        DEF Next, WorkerReceives, WorkerStep, Faults

LEMMA BudgetInit == Init => WithinBudget
<1> SUFFICES ASSUME Init, NEW b \in Budgets, NEW id \in Ids
             PROVE  /\ IsFiniteSet(InQueues(b, id))
                    /\ Total(b, id) <= Allowance(b) * (1 + requeues[id])
    BY DEF WithinBudget
<1>1. InQueues(b, id) = {}
  <2>1. ASSUME NEW q \in Queues, NEW n \in Messages PROVE queue[q][n] = 0
      BY DEF Init, BrokerInit
  <2>2. ASSUME NEW t \in InQueues(b, id) PROVE FALSE
    <3>1. PICK q \in Queues, n \in Messages, k \in Nat, j \in Nat :
            t = <<<<q, n, k>>, j>>
        BY DEF InQueues, QueuedShares, QueueCopies
    <3>2. k < queue[q][n]
        BY <3>1 DEF InQueues, QueuedShares
    <3> QED BY <2>1, <3>2
  <2> QED BY <2>2
<1>2. InHands(b, id) = {}
    BY DEF Init, ConsumerInit, InHands, HandShares, MaySend
<1>3. /\ IsFiniteSet(InQueues(b, id)) /\ Cardinality(InQueues(b, id)) = 0
      /\ Cardinality(InHands(b, id)) = 0
    BY <1>1, <1>2, FS_EmptySet
<1>4. Spent(b, id) = 0 /\ requeues[id] = 0
    BY DEF Init, ConsumerInit, BrokerInit, Spent
<1>5. Allowance(b) \in Nat
    BY ShareFacts
<1>6. Total(b, id) = 0
    BY <1>3, <1>4 DEF Total
<1> QED BY <1>3, <1>4, <1>5, <1>6

LEMMA BudgetAlways == Spec => []WithinBudget
<1>1. SystemInv /\ OnlyAccepted /\ WithinBudget /\ [Next]_vars => WithinBudget'
    BY BudgetHolds
<1> QED BY <1>1, BudgetInit, SystemInvariant, OnlyAcceptedAlways, PTL DEF Spec

-----------------------------------------------------------------------------
(* What is spent is at most what was spent and can still be spent.         *)

LEMMA SpentWithinBudget ==
    ASSUME SystemInv, WithinBudget, NEW b \in Budgets, NEW id \in Ids
    PROVE  Spent(b, id) <= Allowance(b) * (1 + requeues[id])
<1>1. TypeOK
    BY DEF SystemInv
<1>2. IsFiniteSet(InHands(b, id)) /\ IsFiniteSet(InQueues(b, id))
  <2>1. HandsTyped(wpc, hand)
      BY <1>1, BudgetTypes
  <2> QED BY <2>1, HandsAreFinite DEF InHands, WithinBudget
<1>3. Cardinality(InHands(b, id)) \in Nat /\ Cardinality(InQueues(b, id)) \in Nat
    BY <1>2, FS_CardinalityType
<1>4. /\ Spent(b, id) \in Nat /\ requeues[id] \in Nat /\ Allowance(b) \in Nat
      /\ Allowance(b) * (1 + requeues[id]) \in Nat
  <2>1. Spent(b, id) \in Nat /\ requeues[id] \in Nat /\ Allowance(b) \in Nat
      BY <1>1, BudgetTypes, ShareFacts
  <2> QED BY <2>1
<1>5. Spent(b, id) + Cardinality(InQueues(b, id)) + Cardinality(InHands(b, id))
        <= Allowance(b) * (1 + requeues[id])
    BY DEF WithinBudget, Total
<1> QED BY <1>3, <1>4, <1>5

(* However many workers, copies, crashes, closed channels and failed       *)
(* updates there are: a notification is delivered at most once more than   *)
(* its messages were put back.                                             *)
THEOREM RedeliveriesBoundDuplicates == Spec => []DuplicateBudget
<1>1. SystemInv /\ WithinBudget => DuplicateBudget
  <2> SUFFICES ASSUME SystemInv, WithinBudget, NEW id \in Ids
               PROVE  delivered[id] <= 1 + requeues[id]
      BY DEF DuplicateBudget
  <2>1. PICK b \in Budgets : b = "deliveries"
      BY DEF Budgets
  <2>2. Spent(b, id) <= Allowance(b) * (1 + requeues[id])
      BY SpentWithinBudget
  <2>3. requeues[id] \in Nat
      BY DEF SystemInv, TypeOK, BrokerTypeOK
  <2> QED BY <2>1, <2>2, <2>3 DEF Spent, Allowance
<1> QED BY <1>1, SystemInvariant, BudgetAlways, PTL

(* And each of them costs one more round of MaxRetries calls of Send at    *)
(* most.                                                                   *)
THEOREM RedeliveriesBoundSends == Spec => []SendBudget
<1>1. SystemInv /\ WithinBudget => SendBudget
  <2> SUFFICES ASSUME SystemInv, WithinBudget, NEW id \in Ids
               PROVE  sends[id] <= MaxRetries * (1 + requeues[id])
      BY DEF SendBudget
  <2>1. PICK b \in Budgets : b = "sends"
      BY DEF Budgets
  <2>2. Spent(b, id) <= Allowance(b) * (1 + requeues[id])
      BY SpentWithinBudget
  <2> QED BY <2>1, <2>2 DEF Spent, Allowance
<1> QED BY <1>1, SystemInvariant, BudgetAlways, PTL
-----------------------------------------------------------------------------
(* What the table tells, short of a redelivery: RecordIsExact and          *)
(* OutcomesStand.  A hand that may still send has used up what its budget  *)
(* allowed before it, so nothing was delivered, exactly its attempts have  *)
(* failed, and nobody has reported anything.                               *)

(* A worker is about to write an outcome of id.                            *)
Reports(p, id) == call[p].step = "dbUpdate" /\ call[p].id = id
ReportIsExact(id) ==
    /\ Exact(id, db[id])
    /\ \A p \in Procs :
          Reports(p, id) => Exact(id, call[p].row) /\ ~ Reported(db[id])
    /\ \A p, q \in Procs : Reports(p, id) /\ Reports(q, id) => p = q
ReportsAreExact == \A id \in Ids : requeues[id] = 0 => ReportIsExact(id)

LEMMA ReportFacts ==
    /\ \A row \in ConsumerRows : Reported(row)
    /\ ~ Reported(NewRow) /\ ~ Reported(NoRow)
    /\ \A row \in Rows \cup {NoRow} :
          /\ Cancelled(row).sentAt = row.sentAt
          /\ Cancelled(row).attempts = row.attempts
<1>1. \A row \in ConsumerRows : Reported(row)
    BY DEF ConsumerRows, Reported, SentRow, FailedRow
<1>2. ~ Reported(NewRow) /\ ~ Reported(NoRow)
    BY MaxRetriesAssumption DEF Reported, NewRow, NoRow
<1>3. \A row \in Rows \cup {NoRow} :
          /\ Cancelled(row).sentAt = row.sentAt
          /\ Cancelled(row).attempts = row.attempts
    BY DEF Cancelled, Rows, NoRow
<1> QED BY <1>1, <1>2, <1>3

(* The load of one hand is part of what is within the budget.              *)
LEMMA HandWithinBudget ==
    ASSUME SystemInv, WithinBudget, NEW w \in Workers,
           NEW b \in Budgets, NEW id \in Ids
    PROVE  Spent(b, id) + LoadOf(w, b, id) <= Allowance(b) * (1 + requeues[id])
<1>1. TypeOK
    BY DEF SystemInv
<1>2. HandsTyped(wpc, hand) /\ Spent(b, id) \in Nat /\ requeues[id] \in Nat
    BY <1>1, BudgetTypes
<1>3. PICK Rest : Rest = {t \in HandShares(wpc, hand, b, id) : t[1] # w}
    OBVIOUS
<1>4. /\ Cardinality(Rest) \in Nat /\ LoadOf(w, b, id) \in Nat
      /\ Cardinality(InHands(b, id)) = Cardinality(Rest) + LoadOf(w, b, id)
    BY <1>2, <1>3, HandSplit DEF LoadOf, InHands
<1>5. Cardinality(InQueues(b, id)) \in Nat
    BY FS_CardinalityType DEF WithinBudget
<1>6. Allowance(b) \in Nat
    BY ShareFacts
<1>7. Spent(b, id) + Cardinality(InQueues(b, id)) + Cardinality(InHands(b, id))
        <= Allowance(b) * (1 + requeues[id])
    BY DEF WithinBudget, Total
<1>8. Allowance(b) * (1 + requeues[id]) \in Nat
    BY <1>2, <1>6
<1> QED BY <1>2, <1>4, <1>5, <1>7, <1>8

LEMMA FreshHand ==
    ASSUME SystemInv, WithinBudget, NEW w \in Workers, wpc[w] = "sending",
           NEW m \in Messages, m = hand[w], requeues[m.id] = 0
    PROVE  /\ m.id \in Ids /\ m.attempts \in 0 .. MaxRetries - 1
           /\ delivered[m.id] = 0 /\ sends[m.id] = m.attempts
<1>1. PICK id \in Ids : id = m.id
    BY DEF Messages
<1>2. TypeOK /\ Backed(m) /\ m.attempts \in 0 .. MaxRetries - 1
    BY NoMessageIsNone DEF SystemInv, AttemptsAreBacked, Messages
<1>3. \A b \in Budgets : LoadOf(w, b, id) = Cost(b, m)
    BY <1>1 DEF LoadOf, Load, MaySend
<1>4. \A b \in Budgets : Spent(b, id) + Cost(b, m) <= Allowance(b)
  <2> SUFFICES ASSUME NEW b \in Budgets
               PROVE  Spent(b, id) + Cost(b, m) <= Allowance(b)
      OBVIOUS
  <2>1. Spent(b, id) + LoadOf(w, b, id) <= Allowance(b) * (1 + requeues[id])
      BY HandWithinBudget
  <2>2. Allowance(b) \in Nat
      BY ShareFacts
  <2> QED BY <1>1, <1>3, <2>1, <2>2
<1>5. /\ delivered[id] + 1 <= 1
      /\ sends[id] + (MaxRetries - m.attempts) <= MaxRetries
    BY <1>4 DEF Budgets, Spent, Cost, Allowance
<1>6. sends[id] >= delivered[id] + m.attempts
    BY <1>1, <1>2 DEF Backed
<1>7. delivered[id] \in Nat /\ sends[id] \in Nat /\ MaxRetries \in Nat
    BY <1>2, MaxRetriesAssumption DEF TypeOK, ConsumerTypeOK
<1> QED BY <1>1, <1>2, <1>5, <1>6, <1>7

(* ... and therefore nobody has reported anything.                         *)
LEMMA NothingReported ==
    ASSUME SystemInv, NEW id \in Ids, ReportIsExact(id),
           delivered[id] = 0, sends[id] < MaxRetries
    PROVE  ~ Reported(db[id]) /\ \A p \in Procs : ~ Reports(p, id)
<1>1. sends[id] \in Nat /\ MaxRetries \in Nat
    BY MaxRetriesAssumption DEF SystemInv, TypeOK, ConsumerTypeOK
<1>2. ASSUME NEW row \in Rows \cup {NoRow}, Exact(id, row), Reported(row)
      PROVE  FALSE
  <2>1. ~ row.sentAt
      BY <1>2 DEF Exact
  <2>2. row.attempts = MaxRetries
      BY <1>2, <2>1 DEF Reported
  <2>3. sends[id] = MaxRetries
      BY <1>1, <1>2, <2>2 DEF Exact
  <2> QED BY <1>1, <2>3
<1>3. db[id] \in Rows \cup {NoRow} /\ Exact(id, db[id])
    BY DEF ReportIsExact, SystemInv, RepoInv, RepoTypeOK
<1>4. ASSUME NEW p \in Procs, Reports(p, id) PROVE FALSE
  <2>1. call[p].row \in ConsumerRows /\ Exact(id, call[p].row)
      BY <1>4 DEF Reports, ReportIsExact, SystemInv, RepoInv, RepoTypeOK
  <2>2. call[p].row \in Rows /\ Reported(call[p].row)
      BY <2>1, ReportFacts, RowFacts
  <2> QED BY <1>2, <2>1, <2>2
<1> QED BY <1>2, <1>3, <1>4

(* What neither sends for id nor writes its row leaves the reports alone.  *)
LEMMA ReportFrame ==
    ASSUME NEW id \in Ids, ReportIsExact(id),
           sends'[id] = sends[id], delivered'[id] = delivered[id],
           db'[id] = db[id],
           \A p \in Procs : Reports(p, id)' => call'[p] = call[p]
    PROVE  ReportIsExact(id)'
<1>1. \A p \in Procs : Reports(p, id)' => Reports(p, id) /\ call'[p] = call[p]
    BY DEF Reports
<1>2. \A row : Exact(id, row) =>
          (Reported(row) => /\ delivered'[id] = (IF row.sentAt THEN 1 ELSE 0)
                            /\ sends'[id] = row.attempts + delivered'[id])
    BY DEF Exact
<1>3. Exact(id, db[id])'
    BY <1>2 DEF ReportIsExact, Exact
<1>4. ASSUME NEW p \in Procs, Reports(p, id)'
      PROVE  Exact(id, call[p].row)' /\ ~ Reported(db'[id])
  <2>1. Exact(id, call[p].row) /\ ~ Reported(db[id]) /\ call'[p] = call[p]
      BY <1>1, <1>4 DEF ReportIsExact
  <2> QED BY <1>2, <2>1 DEF Exact
<1>5. \A p, q \in Procs : Reports(p, id)' /\ Reports(q, id)' => p = q
    BY <1>1 DEF ReportIsExact
<1> QED BY <1>3, <1>4, <1>5 DEF ReportIsExact

(* A call of Send: what the worker then writes is the first report.        *)
LEMMA SendsExactly ==
    ASSUME SystemInv, WithinBudget, ReportsAreExact, NEW w \in Workers,
           SendOk(w) \/ SendFailsFinally(w) \/ SendFails(w),
           NEW id \in Ids, requeues[id] = 0
    PROVE  ReportIsExact(id)'
<1> USE Participants
<1>0. TypeOK /\ RepoTypeOK /\ ReportIsExact(id)
    BY DEF SystemInv, RepoInv, ReportsAreExact
<1>1. PICK m \in Messages : m = hand[w] /\ m.id \in Ids /\ m.attempts \in Nat
    BY <1>0 DEF SendOk, SendFailsFinally, SendFails, Sends, TypeOK,
                ConsumerTypeOK, Messages
<1>2. UNCHANGED db /\ wpc[w] = "sending"
    BY DEF SendOk, SendFailsFinally, SendFails, Sends, KeepStore
<1>3. \/ UNCHANGED call
      \/ /\ call'[w].id = m.id /\ call'[w].step = "dbUpdate"
         /\ \A p \in Procs \ {w} : call'[p] = call[p]
    BY <1>0, <1>1 DEF SendOk, SendFailsFinally, SendFails, CallUpdate, Begin,
                      RepoTypeOK
<1>4. CASE m.id # id
  <2>1. sends'[id] = sends[id] /\ delivered'[id] = delivered[id]
      BY <1>0, <1>1, <1>4 DEF SendOk, SendFailsFinally, SendFails, Sends, TypeOK,
                              ConsumerTypeOK
  <2>2. \A p \in Procs : Reports(p, id)' => call'[p] = call[p]
      BY <1>3, <1>4 DEF Reports
  <2> QED BY <1>0, <1>2, <2>1, <2>2, ReportFrame
<1>5. CASE m.id = id
  <2>1. /\ delivered[id] = 0 /\ sends[id] = m.attempts
        /\ m.attempts \in 0 .. MaxRetries - 1
      BY <1>1, <1>2, <1>5, FreshHand
  <2>2. ~ Reported(db[id]) /\ \A p \in Procs : ~ Reports(p, id)
    <3>1. sends[id] < MaxRetries
        BY <2>1, MaxRetriesAssumption
    <3> QED BY <1>0, <2>1, <3>1, NothingReported
  <2>3. sends'[id] = m.attempts + 1
      BY <1>0, <1>1, <1>5, <2>1
      DEF SendOk, SendFailsFinally, SendFails, Sends, TypeOK, ConsumerTypeOK
  <2>4. Exact(id, db[id])' /\ ~ Reported(db'[id])
      BY <1>2, <2>2 DEF Exact
  <2>5. \A p \in Procs : Reports(p, id)' => p = w
      BY <1>3, <2>2 DEF Reports
  <2>6. CASE SendOk(w)
    <3>1. delivered'[id] = 1
        BY <1>0, <1>1, <1>5, <2>1, <2>6 DEF SendOk, Sends, TypeOK, ConsumerTypeOK
    <3>2. call'[w].row = SentRow(m.attempts)
        BY <1>0, <1>1, <2>6 DEF SendOk, CallUpdate, Begin, RepoTypeOK
    <3>3. Exact(id, call[w].row)'
        BY <2>3, <3>1, <3>2 DEF Exact, SentRow
    <3> QED BY <2>4, <2>5, <3>3 DEF ReportIsExact
  <2>7. CASE SendFailsFinally(w)
    <3>1. delivered'[id] = 0
        BY <1>0, <1>1, <1>5, <2>1, <2>7
        DEF SendFailsFinally, Sends, TypeOK, ConsumerTypeOK
    <3>2. call'[w].row = FailedRow(m.attempts + 1)
        BY <1>0, <1>1, <2>7 DEF SendFailsFinally, CallUpdate, Begin, RepoTypeOK
    <3>3. Exact(id, call[w].row)'
        BY <1>1, <2>3, <3>1, <3>2 DEF Exact, FailedRow
    <3> QED BY <2>4, <2>5, <3>3 DEF ReportIsExact
  <2>8. CASE SendFails(w)
    <3>1. \A p \in Procs : ~ Reports(p, id)'
        BY <2>2, <2>8 DEF SendFails, Reports
    <3> QED BY <2>4, <3>1 DEF ReportIsExact
  <2> QED BY <2>6, <2>7, <2>8
<1> QED BY <1>4, <1>5

(* One round trip: the row becomes what its only report says, or is        *)
(* overlaid by a cancellation, or is new.                                  *)
LEMMA RoundTripExact ==
    ASSUME SystemInv, NEW p \in Procs, RepositoryStep(p),
           UNCHANGED <<sends, delivered>>,
           NEW id \in Ids, ReportIsExact(id)
    PROVE  /\ ReportIsExact(id)'
           /\ Reported(db[id]) => db'[id] \in {db[id], Cancelled(db[id])}
<1>0. RepoInv /\ db[id] \in Rows \cup {NoRow}
    BY DEF SystemInv, RepoInv, RepoTypeOK
<1>1. /\ call'[p].step # "dbUpdate"
      /\ \A q \in Procs \ {p} : call'[q] = call[q]
    BY <1>0, StepEffect
<1>2. \A q \in Procs : Reports(q, id)' => q # p /\ call'[q] = call[q] /\ Reports(q, id)
    BY <1>1 DEF Reports
<1>3. CASE db'[id] = db[id]
    BY <1>2, <1>3, ReportFrame
<1>4. ASSUME db'[id] # db[id]
      PROVE  /\ id = call[p].id
             /\ \/ db[id] = NoRow /\ db'[id] = NewRow
                \/ call[p].step = "dbUpdate" /\ db'[id] = call[p].row
                \/ db'[id] = Cancelled(db[id])
    BY <1>0, <1>4, StepEffect
<1>5. \A row : Exact(id, row) =>
          (Reported(row) => /\ delivered'[id] = (IF row.sentAt THEN 1 ELSE 0)
                            /\ sends'[id] = row.attempts + delivered'[id])
    BY DEF Exact
<1>6. \A q, r \in Procs : Reports(q, id)' /\ Reports(r, id)' => q = r
    BY <1>2 DEF ReportIsExact
<1>7. \A q \in Procs : Reports(q, id)' => Exact(id, call[q].row)'
  <2> SUFFICES ASSUME NEW q \in Procs, Reports(q, id)'
               PROVE  Exact(id, call[q].row)'
      OBVIOUS
  <2>1. Exact(id, call[q].row) /\ call'[q] = call[q]
      BY <1>2 DEF ReportIsExact
  <2> QED BY <1>5, <2>1 DEF Exact
<1>8. CASE db[id] = NoRow /\ db'[id] = NewRow
    BY <1>6, <1>7, <1>8, ReportFacts DEF ReportIsExact, Exact
<1>9. CASE id = call[p].id /\ call[p].step = "dbUpdate" /\ db'[id] = call[p].row
  <2>1. Reports(p, id) /\ Exact(id, call[p].row) /\ ~ Reported(db[id])
      BY <1>9 DEF Reports, ReportIsExact
  <2>2. \A q \in Procs : ~ Reports(q, id)'
      BY <1>2, <2>1 DEF ReportIsExact
  <2>3. Exact(id, db[id])'
      BY <1>5, <1>9, <2>1 DEF Exact
  <2> QED BY <2>1, <2>2, <2>3 DEF ReportIsExact
<1>10. CASE db'[id] = Cancelled(db[id])
  <2>1. db'[id].sentAt = db[id].sentAt /\ db'[id].attempts = db[id].attempts
      BY <1>0, <1>10, ReportFacts
  <2>2. Reported(db'[id]) <=> Reported(db[id])
      BY <2>1 DEF Reported
  <2>3. Exact(id, db[id])'
      BY <2>1, <2>2 DEF ReportIsExact, Exact
  <2>4. \A q \in Procs : Reports(q, id)' => ~ Reported(db'[id])
      BY <1>2, <2>2 DEF ReportIsExact
  <2> QED BY <1>6, <1>7, <1>10, <2>3, <2>4 DEF ReportIsExact
<1> QED BY <1>3, <1>4, <1>8, <1>9, <1>10

(* No step takes a requeue back.                                           *)
LEMMA RequeuesStay ==
    ASSUME SystemInv, WithinBudget, [Next]_vars, NEW id \in Ids,
           requeues'[id] = 0
    PROVE  requeues[id] = 0
<1>0. TypeOK
    BY DEF SystemInv
<1>1. CASE UNCHANGED requeues
    BY <1>1
<1>2. ASSUME NEW W \in SUBSET Workers, GiveBack(W) PROVE requeues[id] = 0
  <2>1. PICK b \in Budgets : b = "sends"
      BY DEF Budgets
  <2>2. \E k \in Nat : requeues'[id] = requeues[id] + k
      BY <1>0, <1>2, <2>1, GiveBackCosts DEF TypeOK, WithinBudget
  <2> QED BY <1>0, <2>2 DEF TypeOK, BrokerTypeOK
<1>3. ASSUME NEW w \in Workers, GiveBack({w}) PROVE requeues[id] = 0
    BY <1>2, <1>3
<1>4. CASE \E w \in Workers : HandlerStep(w) \/ \E m \in Messages : Receive(w, m)
    BY <1>1, <1>3, <1>4
    DEF HandlerStep, Receive, Deliver, Skip, Proceed, SendOk, SendFailsFinally,
        SendFails, Sends, Recorded, Requeue, PublishRetry, Publish,
        PublishRetryFails, AckRetried, StopWorker, SetChannels, Ack, brokerVars
<1>5. CASE ConsumerFaults
    BY <1>1, <1>2, <1>3, <1>5
    DEF ConsumerFaults, ChannelCloses, ConnectionCloses, PoolContextDone,
        StopHooksRun, WorkerProcessRestarts, SetChannels, PublisherCloses, brokerVars
<1>6. CASE \/ \E r \in Requests : ApiRequest(r) \/ ApiStep(r)
           \/ ApiFaults /\ UNCHANGED <<consumerVars, late>>
  <2>1. UNCHANGED requeues
      BY <1>6 DEF ApiRequest, ApiStep, NewRequest, BeginCreate, BeginGet,
                  BeginCancel, AsksStore, RequestStep, CreateFails,
                  PublishCreated, PublishesNew, Publish, PublishCreatedFails,
                  Rejects, CreateEnds, EndGet, CancelRefused, CancelProceeds,
                  CancelEnds, ApiFaults,
                  ClientDisconnects, ApiProcessRestarts, PublisherCloses,
                  brokerVars
  <2> QED BY <1>1, <2>1
<1>7. CASE \/ \E p \in Procs : StoreStep(p)
           \/ \E i \in Ids : StoreExpiry(i)
           \/ \E q \in Queues, m \in Messages : Expiry(q, m)
           \/ UNCHANGED vars
    BY <1>1, <1>7 DEF StoreStep, StoreExpiry, Expiry, DeadLetter, vars, brokerVars
<1> QED BY <1>4, <1>5, <1>6, <1>7
        DEF Next, WorkerReceives, WorkerStep, Faults

(* One step of the system, as the reports of a notification see it that    *)
(* was not put back so far.                                                *)
LEMMA StepExact ==
    ASSUME SystemInv, WithinBudget, ReportsAreExact, [Next]_vars,
           NEW id \in Ids, requeues[id] = 0
    PROVE  /\ ReportIsExact(id)'
           /\ Reported(db[id]) => db'[id] \in {db[id], Cancelled(db[id])}
<1>0. TypeOK /\ RepoInv /\ ReportIsExact(id)
    BY DEF SystemInv, ReportsAreExact
<1>1. ASSUME NEW w \in Workers, SendOk(w) \/ SendFailsFinally(w) \/ SendFails(w)
      PROVE  ReportIsExact(id)' /\ db' = db
  <2>1. db' = db
      BY <1>1 DEF SendOk, SendFailsFinally, SendFails, Sends, KeepStore
  <2> QED BY <1>1, <2>1, SendsExactly
<1>2. ASSUME ~ \E w \in Workers : SendOk(w) \/ SendFailsFinally(w) \/ SendFails(w)
      PROVE  /\ UNCHANGED <<sends, delivered>>
             /\ \A p \in Procs : Reports(p, id)' => call'[p] = call[p]
  <2>1. ASSUME NEW w \in Workers, HandlerStep(w) \/ \E m \in Messages : Receive(w, m)
        PROVE  UNCHANGED <<sends, delivered>>
      BY <1>2, <2>1 DEF HandlerStep, Receive, Skip, Proceed, Recorded,
                        PublishRetry, PublishRetryFails, AckRetried,
                        StopWorker, KeepSends
  <2>2. ConsumerFaults => UNCHANGED <<sends, delivered>>
      BY <1>0, WorkerFaultEffect
  <2>3. UNCHANGED <<sends, delivered>>
      BY <2>1, <2>2
      DEF Next, WorkerReceives, WorkerStep, ApiStep, ApiRequest, StoreStep,
          StoreExpiry, Expiry, Faults, vars, consumerVars
  <2>4. \A p \in Procs : Reports(p, id)' => call'[p] = call[p]
      BY <1>2, UpdatesBegin DEF Reports
  <2> QED BY <2>3, <2>4
<1>3. CASE /\ ~ \E w \in Workers : SendOk(w) \/ SendFailsFinally(w) \/ SendFails(w)
           /\ \E p \in Procs : RepositoryStep(p)
    BY <1>0, <1>2, <1>3, RoundTripExact
<1>4. CASE /\ ~ \E w \in Workers : SendOk(w) \/ SendFailsFinally(w) \/ SendFails(w)
           /\ ~ \E p \in Procs : RepositoryStep(p)
  <2>1. [RepoNext]_<<repoVars, faults>>
      BY SystemUsesRepository DEF SystemInv
  <2>2. db' = db
      BY <1>0, <1>4, <2>1, OtherEffect DEF Quiet, CacheExpire
  <2> QED BY <1>0, <1>2, <1>4, <2>2, ReportFrame
<1> QED BY <1>1, <1>3, <1>4

LEMMA ReportsHold ==
    ASSUME SystemInv, WithinBudget, ReportsAreExact, [Next]_vars
    PROVE  ReportsAreExact'
BY RequeuesStay, StepExact DEF ReportsAreExact

LEMMA ReportsInit == Init => ReportsAreExact
BY ReportFacts
DEF Init, RepoInit, NoCall, ReportsAreExact, ReportIsExact, Reports, Exact

LEMMA ReportsAlways == Spec => []ReportsAreExact
<1>1. SystemInv /\ WithinBudget /\ ReportsAreExact /\ [Next]_vars => ReportsAreExact'
    BY ReportsHold
<1> QED BY <1>1, ReportsInit, SystemInvariant, BudgetAlways, PTL DEF Spec

(* However many workers, copies and retries there are: until a delivery is *)
(* put back, a row with an outcome tells exactly how often Send was called *)
(* and whether it succeeded, also when the row says "cancelled".           *)
THEOREM RecordsAreExact == Spec => []RecordIsExact
<1>1. ReportsAreExact => RecordIsExact
    BY DEF ReportsAreExact, ReportIsExact, RecordIsExact
<1> QED BY <1>1, ReportsAlways, PTL

(* And no second outcome is ever written over the first.                   *)
THEOREM OutcomesAreFinal == Spec => OutcomesStand
<1> DEFINE Stand == \A id \in Ids :
               requeues[id] = 0 /\ Reported(db[id]) =>
                   db'[id] \in {db[id], Cancelled(db[id])}
<1>1. SystemInv /\ WithinBudget /\ ReportsAreExact /\ [Next]_vars => [Stand]_vars
    BY StepExact
<1> QED BY <1>1, SystemInvariant, BudgetAlways, ReportsAlways, PTL
        DEF Spec, OutcomesStand
-----------------------------------------------------------------------------
(* HarmNeedsFault.  While nothing has failed and the contexts of the       *)
(* workers are live, every call of a worker that has returned has          *)
(* succeeded, because calls are made for rows that are there.              *)
Fresh == faults = 0 /\ \A w \in Workers : ctx[w] = "live"
WorkerCallsSucceed == \A w \in Workers : call[w].step = "done" => Succeeded(w)
ChannelsAreOpen == publisherOpen["worker"] /\ \A w \in Workers : channelOpen[w]
NothingHarmed == dropped = {} /\ \A id \in Ids : requeues[id] = 0
Healthy == WorkerCallsSucceed /\ ChannelsAreOpen /\ NothingHarmed

(* A context that is done stays so in this life of the process, and only a *)
(* fault ends that life or closes a client.                                *)
NotStopped == faults = 0 => \A w \in Workers : ctx[w] \in {"live", "done"}
Calm == NotStopped /\ (Fresh => Healthy)

LEMMA FaultsAreCounted ==
    ASSUME faults \in Nat, NEW kind, Fault(kind)
    PROVE  faults' # 0
BY DEF Fault

LEMMA FaultsStay ==
    ASSUME faults \in Nat, [RepoNext]_<<repoVars, faults>>, faults' = 0
    PROVE  faults = 0
<1>1. ASSUME NEW kind, Fault(kind) PROVE FALSE
    BY <1>1, FaultsAreCounted
<1>2. ASSUME NEW p \in Procs, RepositoryStep(p) PROVE faults' = faults
    BY <1>1, <1>2
    DEF RepositoryStep, CacheHit, CacheMiss, DbGet, CacheSet, DbInsert, DbUpdate,
        DbCancel, WriteRow, CacheDel, RoundTrip, RoundTripFails
<1>3. Elsewhere => faults' = faults
    BY <1>1 DEF Elsewhere
<1>4. ASSUME NEW p \in Procs, ClientCalls(p) \/ ClientReturns(p) PROVE faults' = faults
    BY <1>3, <1>4 DEF ClientCalls, ClientReturns
<1>5. ASSUME NEW P, CacheCloses(P) \/ StoresClose(P) \/ CrashCalls(P)
      PROVE  faults' = faults
    BY <1>1, <1>5 DEF CacheCloses, StoresClose, CrashCalls
<1> QED BY <1>2, <1>3, <1>4, <1>5 DEF RepoNext, CacheExpire

LEMMA ContextSteps ==
    ASSUME SystemInv, NotStopped, [Next]_vars, faults' = 0, NEW w \in Workers
    PROVE  ctx[w] \in {"live", "done"} /\ ctx'[w] \in {ctx[w], "done"}
<1> USE Participants
<1>0. faults \in Nat /\ ctx \in [Procs -> Contexts]
    BY DEF SystemInv, RepoInv, RepoTypeOK
<1>1. \A kind : ~ Fault(kind)
    BY <1>0, FaultsAreCounted
<1>2. ctx[w] \in {"live", "done"}
  <2>1. [RepoNext]_<<repoVars, faults>>
      BY SystemUsesRepository DEF SystemInv
  <2> QED BY <1>0, <2>1, FaultsStay DEF NotStopped
<1> SUFFICES ctx'[w] \in {ctx[w], "done"}
    BY <1>2
<1>3. CASE ConsumerFaults
    BY <1>0, <1>1, <1>2, <1>3
    DEF ConsumerFaults, ChannelCloses, ConnectionCloses, PoolContextDone,
        StopHooksRun, WorkerProcessRestarts, PublisherCloses, ContextsDone,
        CacheCloses, StoresClose, SetContexts, CrashCalls
<1>4. CASE ApiFaults
    BY <1>0, <1>1, <1>4
    DEF ApiFaults, ClientDisconnects, ApiProcessRestarts, CrashCalls,
        PublisherCloses, repoVars
<1>5. CASE \E r \in Requests : RequestStep(r) \/ NewRequest(r)
  <2>1. PICK r \in Requests : ctx' \in {ctx, [ctx EXCEPT ![r] = "live"]}
      BY <1>5
      DEF RequestStep, NewRequest, BeginCreate, BeginGet, BeginCancel, AsksStore,
          CreateFails, PublishCreated, PublishCreatedFails, Rejects, CreateEnds,
          EndGet, CancelRefused, CancelProceeds, CancelEnds, Respond
  <2> QED BY <1>0, <2>1
<1>6. CASE UNCHANGED ctx
    BY <1>6
<1>7. CASE \E v \in Workers : HandlerStep(v) \/ \E m \in Messages : Receive(v, m)
    BY <1>7
    DEF HandlerStep, Receive, Skip, Proceed, SendOk, SendFailsFinally, SendFails,
        Sends, Recorded, PublishRetry, PublishRetryFails, AckRetried, StopWorker,
        KeepStore
<1> QED BY <1>2, <1>3, <1>4, <1>5, <1>6, <1>7
        DEF Next, WorkerReceives, WorkerStep, ApiStep, ApiRequest, StoreStep,
            RepositoryStep, StoreExpiry, CacheExpire, Expiry, Faults, vars, repoVars

LEMMA RoundTripSucceeds ==
    ASSUME SystemInv, Fresh, WorkerCallsSucceed, faults' = 0,
           NEW p \in Procs, RepositoryStep(p)
    PROVE  WorkerCallsSucceed'
<1> USE Participants
<1>0. /\ RepoInv /\ RepoTypeOK /\ ResultsHold /\ IdsArePublic
      /\ faults \in Nat
    BY DEF SystemInv, RepoInv, RepoTypeOK, CallerInv
<1>1. \A q \in Procs \ {p} : call'[q] = call[q]
    BY <1>0, StepEffect
<1>2. ASSUME p \in Workers, call'[p].step = "done" PROVE call'[p].res = "ok"
  <2>1. ~ RoundTripFails(p)
      BY <1>0, <1>2, FaultsAreCounted DEF RoundTripFails, Reachable, Fresh
  <2>2. call[p].op \in {"GetByID", "Update", "Delete"} => db[call[p].id] # NoRow
      BY <1>0 DEF IdsArePublic, Public
  <2>3. /\ call[p].step = "dbGet" => call[p].op = "GetByID"
        /\ call[p].step \in {"dbUpdate", "dbCancel"} => call[p].op \in {"Update", "Delete"}
      BY <1>0 DEF RepoTypeOK, ResultsHold
  <2> QED BY <1>0, <1>2, <2>1, <2>2, <2>3
          DEF RepositoryStep, CacheHit, CacheMiss, DbGet, CacheSet, DbInsert,
              DbUpdate, DbCancel, WriteRow, CacheDel, Finish, GoTo, Advance,
              RepoTypeOK
<1> QED BY <1>1, <1>2 DEF WorkerCallsSucceed, Succeeded

LEMMA CallsMadeSucceed ==
    ASSUME RepoTypeOK, WorkerCallsSucceed, NEW p \in Procs,
           \/ UNCHANGED call
           \/ Return(p)
           \/ \E id, row : \/ CallSave(p, id) \/ CallGetByID(p, id)
                           \/ CallUpdate(p, id, row) \/ CallDelete(p, id)
    PROVE  WorkerCallsSucceed'
BY Participants
DEF Return, NoCall, CallSave, CallGetByID, CallUpdate, CallDelete, Begin,
    RepoTypeOK, WorkerCallsSucceed, Succeeded

LEMMA PublishesArrive ==
    ASSUME faults \in Nat, faults' = 0, NEW s, NEW q, NEW m, Publish(s, q, m)
    PROVE  UNCHANGED <<dropped, requeues, channelOpen, publisherOpen>>
BY FaultsAreCounted DEF Publish

(* A worker that sees no closed channel and no failed call neither stops,  *)
(* nor drops its message, nor puts it back.                                *)
LEMMA WorkerStaysHealthy ==
    ASSUME SystemInv, Fresh, Healthy, faults' = 0, NEW w \in Workers,
           HandlerStep(w) \/ \E m \in Messages : Receive(w, m)
    PROVE  Healthy'
<1> USE Participants
<1>0. /\ RepoTypeOK /\ faults \in Nat
      /\ ctx[w] = "live" /\ channelOpen[w] /\ publisherOpen["worker"]
      /\ (call[w].step = "done" => Succeeded(w))
    BY DEF SystemInv, RepoInv, RepoTypeOK, Fresh, Healthy, WorkerCallsSucceed,
           ChannelsAreOpen
<1>1. ~ StopWorker(w) /\ ~ PublishRetryFails(w)
    BY <1>0 DEF StopWorker, PublishRetryFails
<1>2. UNCHANGED <<dropped, requeues, channelOpen, publisherOpen>>
    BY <1>0, <1>1, PublishesArrive
    DEF HandlerStep, Receive, Deliver, Skip, Proceed, SendOk, SendFailsFinally,
        SendFails, Sends, Recorded, PublishRetry, AckRetried, Ack, Returned,
        brokerVars
<1>3. \/ UNCHANGED call
      \/ Return(w)
      \/ \E id, row : CallGetByID(w, id) \/ CallUpdate(w, id, row)
    BY <1>1
    DEF HandlerStep, Receive, Skip, Proceed, SendOk, SendFailsFinally, SendFails,
        Recorded, PublishRetry, AckRetried
<1>4. WorkerCallsSucceed'
    BY <1>0, <1>3, CallsMadeSucceed DEF Healthy
<1> QED BY <1>2, <1>4 DEF Healthy, ChannelsAreOpen, NothingHarmed

LEMMA RequestsDoNoHarm ==
    ASSUME SystemInv, Healthy, faults' = 0, NEW r \in Requests,
           RequestStep(r) \/ NewRequest(r)
    PROVE  Healthy'
<1> USE Participants
<1>0. RepoTypeOK /\ faults \in Nat
    BY DEF SystemInv, RepoInv, RepoTypeOK
<1>1. UNCHANGED <<dropped, requeues, channelOpen, publisherOpen>>
    BY <1>0, PublishesArrive
    DEF RequestStep, NewRequest, BeginCreate, BeginGet, BeginCancel, AsksStore,
        CreateFails, PublishCreated, PublishesNew, PublishCreatedFails, Rejects,
        CreateEnds, EndGet, CancelRefused, CancelProceeds, CancelEnds, brokerVars
<1>2. \/ Return(r)
      \/ \E id : CallSave(r, id) \/ CallGetByID(r, id) \/ CallDelete(r, id)
    BY DEF RequestStep, NewRequest, BeginCreate, BeginGet, BeginCancel,
           CreateFails, PublishCreated, PublishCreatedFails, Rejects, CreateEnds,
           EndGet, CancelRefused, CancelProceeds, CancelEnds, Respond
<1>3. WorkerCallsSucceed'
    BY <1>0, <1>2, CallsMadeSucceed DEF Healthy
<1> QED BY <1>1, <1>3 DEF Healthy, ChannelsAreOpen, NothingHarmed

(* Of what is left of the faults when none may happen, only a restart of   *)
(* no worker at all gets past the contexts.                                *)
LEMMA TimeoutsDoNoHarm ==
    ASSUME SystemInv, Fresh, Fresh', Healthy, Faults
    PROVE  Healthy'
<1> USE Participants
<1>0. faults \in Nat /\ \A kind : ~ Fault(kind)
    BY FaultsAreCounted DEF SystemInv, RepoInv, RepoTypeOK, Fresh
<1>1. CASE PoolContextDone \/ StopHooksRun
    BY <1>1
    DEF PoolContextDone, StopHooksRun, ContextsDone, CacheCloses, StoresClose,
        SetContexts, brokerVars, Healthy, WorkerCallsSucceed, Succeeded,
        ChannelsAreOpen, NothingHarmed
<1>2. CASE WorkerProcessRestarts
  <2>1. Workers = {}
      BY <1>0, <1>2 DEF WorkerProcessRestarts, CrashCalls, Fresh
  <2>2. publisherOpen'["worker"]
      BY <1>2 DEF WorkerProcessRestarts, SystemInv, TypeOK, BrokerTypeOK, Publishers
  <2>3. dropped' = {} /\ \A id \in Ids : requeues'[id] = 0
    <3>1. \A id \in Ids : Cardinality({w \in Workers : unacked[w].id = id}) = 0
        BY <2>1, FS_EmptySet
    <3>2. GiveBack(Workers)
        BY <1>2 DEF WorkerProcessRestarts, SetChannels
    <3> QED BY <3>1, <3>2 DEF GiveBack, Healthy, NothingHarmed
  <2> QED BY <2>1, <2>2, <2>3
          DEF Healthy, WorkerCallsSucceed, ChannelsAreOpen, NothingHarmed
<1>3. CASE ApiFaults
  <2>1. CASE ApiProcessRestarts
      BY <2>1
      DEF ApiProcessRestarts, CrashCalls, SystemInv, TypeOK, BrokerTypeOK,
          Publishers, Healthy, WorkerCallsSucceed, Succeeded, ChannelsAreOpen,
          NothingHarmed
  <2> QED BY <1>0, <1>3, <2>1 DEF ApiFaults, ClientDisconnects, PublisherCloses
<1> QED BY <1>0, <1>1, <1>2, <1>3
        DEF Faults, ConsumerFaults, ChannelCloses, ConnectionCloses, PublisherCloses

LEMMA CalmHolds ==
    ASSUME SystemInv, Calm, [Next]_vars
    PROVE  Calm'
<1>0. faults \in Nat /\ [RepoNext]_<<repoVars, faults>>
    BY SystemUsesRepository DEF SystemInv, RepoInv, RepoTypeOK
<1>1. NotStopped'
    BY ContextSteps DEF NotStopped, Calm
<1>2. SUFFICES ASSUME Fresh' PROVE Healthy'
    BY <1>1, <1>2 DEF Calm
<1>3. Fresh /\ Healthy
  <2>1. faults = 0
      BY <1>0, <1>2, FaultsStay DEF Fresh
  <2>2. \A w \in Workers : ctx[w] = "live"
      BY <1>2, ContextSteps DEF Fresh, Calm
  <2> QED BY <2>1, <2>2 DEF Fresh, Calm
<1>4. faults' = 0
    BY <1>2 DEF Fresh
<1>5. ASSUME NEW p \in Procs, StoreStep(p) PROVE Healthy'
    BY <1>3, <1>4, <1>5, RoundTripSucceeds
    DEF StoreStep, brokerVars, Healthy, ChannelsAreOpen, NothingHarmed
<1>6. CASE \/ \E id \in Ids : StoreExpiry(id)
           \/ \E q \in Queues, m \in Messages : Expiry(q, m)
           \/ UNCHANGED vars
  <2>1. UNCHANGED <<call, dropped, requeues, channelOpen, publisherOpen>>
      BY <1>6 DEF StoreExpiry, CacheExpire, Expiry, DeadLetter, vars, repoVars,
                  brokerVars
  <2> QED BY <1>3, <2>1
          DEF Healthy, WorkerCallsSucceed, Succeeded, ChannelsAreOpen, NothingHarmed
<1> QED BY <1>2, <1>3, <1>4, <1>5, <1>6, WorkerStaysHealthy, RequestsDoNoHarm,
           TimeoutsDoNoHarm
        DEF Next, WorkerReceives, WorkerStep, ApiStep, ApiRequest

(* Interleavings alone, of any number of requests, workers, round trips    *)
(* and expiries, put no delivery back and drop no message: that takes a    *)
(* fault, a stop, or the end of the start timeout, which needs neither.    *)
THEOREM OnlyFaultsHarm == Spec => []HarmNeedsFault
<1>1. Init => Calm
    BY Participants
    DEF Init, RepoInit, BrokerInit, NoCall, Calm, NotStopped, Fresh, Healthy,
        WorkerCallsSucceed, ChannelsAreOpen, NothingHarmed, Publishers
<1>2. SystemInv /\ Calm /\ [Next]_vars => Calm'
    BY CalmHolds
<1>3. Calm => HarmNeedsFault
    BY DEF Calm, Fresh, Healthy, NothingHarmed, HarmNeedsFault
<1> QED BY <1>1, <1>2, <1>3, SystemInvariant, PTL DEF Spec
=============================================================================
