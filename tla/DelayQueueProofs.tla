-------------------------- MODULE DelayQueueProofs --------------------------
(***************************************************************************)
(* What the delays promise for every schedule, every base delay and every  *)
(* number of requests, workers and notifications.                          *)
(***************************************************************************)
EXTENDS DelayQueue, SequenceTheorems, FiniteSetTheorems, TLAPS

(* How long a message waits is the longest expiration at or ahead of it.   *)
TurnsSettled(s) ==
    \A i \in 1 .. Len(s) :
        /\ \A j \in 1 .. i : s[j].left <= s[i].turn
        /\ \E j \in 1 .. i : s[i].turn = s[j].left

(* An expiration falls short of its time by less than a millisecond.       *)
Covered(e) == e.due < e.left + TicksPerMs
DueCovered(s) == \A i \in 1 .. Len(s) : Covered(s[i])
Bounded(s) == \A i \in 1 .. Len(s) : s[i].left <= Backoff(MaxRetries - 1)
Timely(s) == \A i \in 1 .. Len(s) : s[i].due < TicksPerMs /\ s[i].turn = 0

DelayInv ==
    /\ DelayTypeOK
    /\ \A r \in Requests : Covered(publishing[r])
    /\ \A q \in DelayQueues : TurnsSettled(delaying[q]) /\ DueCovered(delaying[q])
    /\ Bounded(delaying["retry"])
    /\ Timely(ready)

-----------------------------------------------------------------------------
(* Arithmetic.                                                             *)

LEMMA TruncationIsShort ==
    ASSUME NEW d \in Nat
    PROVE  Truncated(d) \in Nat /\ d < Truncated(d) + TicksPerMs
<1>1. /\ d \div TicksPerMs \in Nat
      /\ d < (d \div TicksPerMs) * TicksPerMs + TicksPerMs
  BY TicksAssumption, SMT
<1>. QED BY <1>1, TicksAssumption DEF Truncated

LEMMA BackoffIsInt == Backoff(MaxRetries - 1) \in Int
<1>1. 2 ^ (MaxRetries - 1) \in Int
  BY MaxRetriesAssumption, SMT
<1>. QED BY <1>1, BaseDelayAssumption, TicksAssumption DEF Backoff

LEMMA BackoffType ==
    ASSUME NEW a \in 1 .. MaxRetries - 1
    PROVE  Backoff(a) \in Nat /\ Backoff(a) <= Backoff(MaxRetries - 1)
<1>1. 2 ^ a \in Int
  BY MaxRetriesAssumption, SMT
<1>2. Backoff(a) \in Int
  BY <1>1, BaseDelayAssumption, TicksAssumption DEF Backoff
<1>. QED BY <1>2, BackoffAssumption

LEMMA MaxOf ==
    ASSUME NEW S \in SUBSET Nat, NEW x \in S, \A y \in S : y <= x
    PROVE  Max(S) = x
<1>1. \A y \in S : x >= y
  OBVIOUS
<1>2. /\ Max(S) \in S
      /\ \A y \in S : Max(S) >= y
  BY <1>1 DEF Max
<1>3. x \in Nat /\ Max(S) \in Nat /\ x >= Max(S) /\ Max(S) >= x
  BY <1>1, <1>2
<1>. QED BY <1>3

LEMMA MaxOfTwo ==
    ASSUME NEW a \in Nat, NEW b \in Nat
    PROVE  /\ Max({a, b}) \in {a, b}
           /\ a <= Max({a, b}) /\ b <= Max({a, b})
<1>1. CASE a <= b
  BY <1>1, MaxOf, Max({a, b}) = b
<1>2. CASE b < a
  BY <1>2, MaxOf, Max({a, b}) = a
<1>. QED BY <1>1, <1>2

-----------------------------------------------------------------------------
(* One queue.                                                              *)

(* The longest expiration in a queue is there to be found: it is what its  *)
(* last message waits for.                                                 *)
LEMMA LongestIsThere ==
    ASSUME NEW q \in DelayQueues, delaying[q] \in Seq(Entries),
           TurnsSettled(delaying[q])
    PROVE  /\ LongestAhead(q) \in Nat
           /\ \A j \in 1 .. Len(delaying[q]) : delaying[q][j].left <= LongestAhead(q)
           /\ \/ LongestAhead(q) = 0
              \/ \E j \in 1 .. Len(delaying[q]) : LongestAhead(q) = delaying[q][j].left
<1> DEFINE s == delaying[q]
           S == {e.left : e \in ToSet(s)} \cup {0}
<1>1. LongestAhead(q) = Max(S)
  BY DEF LongestAhead
<1>2. /\ Len(s) \in Nat /\ DOMAIN s = 1 .. Len(s)
      /\ \A i \in 1 .. Len(s) : s[i] \in Entries
  OBVIOUS
<1>3. \A x : x \in S <=> x = 0 \/ \E i \in 1 .. Len(s) : x = s[i].left
  BY <1>2 DEF ToSet
<1> HIDE DEF S
<1>4. S \in SUBSET Nat
  BY <1>2, <1>3 DEF Entries
<1>5. CASE Len(s) = 0
  <2>1. 0 \in S /\ \A y \in S : y <= 0
    BY <1>3, <1>5
  <2>2. Max(S) = 0
    BY <2>1, <1>4, <1>5, MaxOf
  <2>. QED BY <1>1, <1>5, <2>2
<1>6. CASE Len(s) # 0
  <2> DEFINE n == Len(s)
  <2>1. n \in 1 .. n
    BY <1>2, <1>6
  <2>2. /\ \A j \in 1 .. n : s[j].left <= s[n].turn
        /\ \E j \in 1 .. n : s[n].turn = s[j].left
    BY <2>1 DEF TurnsSettled
  <2>3. PICK k \in 1 .. n : s[n].turn = s[k].left
    BY <2>2
  <2>4. s[k].left \in S /\ s[k].left \in Nat
    BY <1>2, <1>3 DEF Entries
  <2>5. ASSUME NEW y \in S PROVE y <= s[k].left
    <3>1. CASE y = 0
      BY <2>4, <3>1
    <3>2. CASE \E j \in 1 .. n : y = s[j].left
      BY <2>2, <2>3, <3>2
    <3>. QED BY <1>3, <3>1, <3>2
  <2>6. Max(S) = s[k].left
    BY <1>4, <2>4, <2>5, MaxOf
  <2>. QED BY <1>1, <2>2, <2>3, <2>4, <2>6
<1>. QED BY <1>5, <1>6

LEMMA EnqueueKeeps ==
    ASSUME NEW q \in DelayQueues, delaying \in [DelayQueues -> Seq(Entries)],
           TurnsSettled(delaying[q]), DueCovered(delaying[q]),
           NEW m \in Messages, NEW left \in Nat, NEW due \in Nat,
           due < left + TicksPerMs,
           Enqueue(q, m, left, due)
    PROVE  /\ delaying' \in [DelayQueues -> Seq(Entries)]
           /\ TurnsSettled(delaying'[q]) /\ DueCovered(delaying'[q])
           /\ \A p \in DelayQueues : p # q => delaying'[p] = delaying[p]
           /\ Bounded(delaying[q]) /\ left <= Backoff(MaxRetries - 1) => Bounded(delaying'[q])
<1> DEFINE s == delaying[q]
           longest == LongestAhead(q)
           turn == Max({left, longest})
           e == [msg |-> m, left |-> left, due |-> due, turn |-> turn]
           t == Append(s, e)
<1>1. /\ longest \in Nat
      /\ \A j \in 1 .. Len(s) : s[j].left <= longest
      /\ longest = 0 \/ \E j \in 1 .. Len(s) : longest = s[j].left
  BY LongestIsThere
<1>2. /\ turn \in {left, longest}
      /\ left <= turn /\ longest <= turn
  BY <1>1, MaxOfTwo
<1>3. e \in Entries
  BY <1>1, <1>2 DEF Entries
<1>4. /\ delaying'[q] = t
      /\ \A p \in DelayQueues : p # q => delaying'[p] = delaying[p]
      /\ delaying' \in [DelayQueues -> Seq(Entries)]
  BY <1>3 DEF Enqueue
<1>5. /\ e.left = left /\ e.due = due /\ e.turn = turn
      /\ Len(s) \in Nat
      /\ \A i \in 1 .. Len(s) : s[i] \in Entries
  OBVIOUS
<1> HIDE DEF e, turn, longest
<1>6. /\ Len(t) = Len(s) + 1
      /\ \A i \in 1 .. Len(s) : t[i] = s[i]
      /\ t[Len(s) + 1] = e
      /\ t \in Seq(Entries)
  BY <1>3
<1> HIDE DEF t
<1>7. DueCovered(t)
  BY <1>5, <1>6 DEF DueCovered, Covered
<1>8. ASSUME Bounded(s), left <= Backoff(MaxRetries - 1)
      PROVE  Bounded(t)
  BY <1>5, <1>6, <1>8 DEF Bounded
<1>9. TurnsSettled(t)
  <2> SUFFICES ASSUME NEW i \in 1 .. Len(t)
               PROVE  /\ \A j \in 1 .. i : t[j].left <= t[i].turn
                      /\ \E j \in 1 .. i : t[i].turn = t[j].left
    BY DEF TurnsSettled
  <2>1. CASE i \in 1 .. Len(s)
    <3>1. \A j \in 1 .. i : t[j] = s[j]
      BY <1>5, <1>6, <2>1
    <3>2. t[i] = s[i]
      BY <1>6, <2>1
    <3>3. /\ \A j \in 1 .. i : s[j].left <= s[i].turn
          /\ \E j \in 1 .. i : s[i].turn = s[j].left
      BY <2>1 DEF TurnsSettled
    <3>. QED BY <3>1, <3>2, <3>3
  <2>2. CASE i = Len(s) + 1
    <3>1. \A j \in 1 .. i : t[j].left <= t[i].turn
      <4> SUFFICES ASSUME NEW j \in 1 .. i PROVE t[j].left <= turn
        BY <1>5, <1>6, <2>2
      <4>1. CASE j = i
        BY <1>2, <1>5, <1>6, <2>2, <4>1
      <4>2. CASE j \in 1 .. Len(s)
        <5>1. t[j].left = s[j].left /\ s[j].left \in Nat
          BY <1>5, <1>6, <4>2 DEF Entries
        <5>. QED BY <1>1, <1>2, <4>2, <5>1
      <4>. QED BY <1>5, <2>2, <4>1, <4>2
    <3>2. \E j \in 1 .. i : turn = t[j].left
      <4>1. CASE turn = left
        BY <1>5, <1>6, <2>2, <4>1
      <4>2. CASE turn # left
        <5>1. turn = longest /\ longest # 0
          BY <1>1, <1>2, <4>2
        <5>2. PICK j \in 1 .. Len(s) : longest = s[j].left
          BY <1>1, <5>1
        <5>. QED BY <1>5, <1>6, <2>2, <5>1, <5>2
      <4>. QED BY <4>1, <4>2
    <3>. QED BY <1>5, <1>6, <2>2, <3>1, <3>2
  <2>. QED BY <1>5, <1>6, <2>1, <2>2
<1>. QED BY <1>4, <1>7, <1>8, <1>9

LEMMA TailKeeps ==
    ASSUME NEW s \in Seq(Entries), s # <<>>, Head(s).left = 0,
           TurnsSettled(s), DueCovered(s)
    PROVE  /\ Tail(s) \in Seq(Entries)
           /\ TurnsSettled(Tail(s)) /\ DueCovered(Tail(s))
           /\ Bounded(s) => Bounded(Tail(s))
           /\ Head(s) \in Entries /\ Head(s).turn = 0 /\ Head(s).due < TicksPerMs
<1> DEFINE t == Tail(s)
<1>0. /\ Len(s) \in Nat \ {0}
      /\ \A i \in 1 .. Len(s) : s[i] \in Entries
      /\ s[1] = Head(s)
  OBVIOUS
<1>1. /\ Len(s) \in Nat \ {0}
      /\ \A i \in 1 .. Len(s) : s[i] \in Entries /\ s[i].left \in Nat /\ s[i].turn \in Nat
      /\ s[1] = Head(s)
  BY <1>0 DEF Entries
<1>2. /\ t \in Seq(Entries)
      /\ Len(t) = Len(s) - 1
      /\ \A i \in 1 .. Len(t) : t[i] = s[i + 1]
  OBVIOUS
<1> HIDE DEF t
<1>3. \A i \in 1 .. Len(t) : i + 1 \in 1 .. Len(s)
  BY <1>1, <1>2
<1>4. s[1].turn = 0 /\ s[1].due < TicksPerMs
  <2>1. \E j \in 1 .. 1 : s[1].turn = s[j].left
    BY <1>1 DEF TurnsSettled
  <2>2. Covered(s[1])
    BY <1>1 DEF DueCovered
  <2>. QED BY <1>1, <2>1, <2>2, TicksAssumption DEF Covered, Entries
<1>5. DueCovered(t)
  BY <1>2, <1>3 DEF DueCovered
<1>6. ASSUME Bounded(s) PROVE Bounded(t)
  BY <1>2, <1>3, <1>6 DEF Bounded
<1>7. TurnsSettled(t)
  <2> SUFFICES ASSUME NEW i \in 1 .. Len(t)
               PROVE  /\ \A j \in 1 .. i : t[j].left <= t[i].turn
                      /\ \E j \in 1 .. i : t[i].turn = t[j].left
    BY DEF TurnsSettled
  <2>1. /\ i \in Nat /\ i + 1 \in 1 .. Len(s)
        /\ \A j \in 1 .. i : j \in 1 .. Len(t) /\ j + 1 \in 1 .. i + 1
    BY <1>1, <1>2, <1>3
  <2>2. /\ \A j \in 1 .. i + 1 : s[j].left <= s[i + 1].turn
        /\ \E j \in 1 .. i + 1 : s[i + 1].turn = s[j].left
    BY <2>1 DEF TurnsSettled
  <2>3. \A j \in 1 .. i : t[j].left <= t[i].turn
    BY <1>2, <2>1, <2>2
  <2>4. PICK j \in 1 .. i + 1 : s[i + 1].turn = s[j].left
    BY <2>2
  <2>5. CASE j = 1
    <3>1. t[i].turn = 0 /\ t[i].left \in Nat
      BY <1>1, <1>2, <2>1, <2>4, <2>5
    <3>2. t[i].left <= 0
      BY <2>1, <2>3, <3>1
    <3>. QED BY <2>1, <2>3, <3>1, <3>2
  <2>6. CASE j # 1
    <3>1. j - 1 \in 1 .. i /\ (j - 1) + 1 = j
      BY <2>1, <2>6
    <3>2. t[j - 1] = s[j] /\ t[i] = s[i + 1]
      BY <1>2, <2>1, <3>1
    <3>. QED BY <2>3, <2>4, <3>1, <3>2
  <2>. QED BY <2>5, <2>6
<1>. QED BY <1>1, <1>2, <1>4, <1>5, <1>6, <1>7 DEF t

LEMMA OlderKeeps ==
    ASSUME NEW s \in Seq(Entries), s # <<>> => Head(s).left # 0,
           TurnsSettled(s), DueCovered(s)
    PROVE  LET t == [i \in DOMAIN s |-> Older(s[i])]
           IN  /\ t \in Seq(Entries)
               /\ TurnsSettled(t) /\ DueCovered(t)
               /\ Bounded(s) => Bounded(t)
<1> DEFINE t == [i \in DOMAIN s |-> Older(s[i])]
<1>1. /\ Len(s) \in Nat /\ DOMAIN s = 1 .. Len(s)
      /\ \A i \in 1 .. Len(s) : s[i] \in Entries
  OBVIOUS
<1>0. \A n \in Nat : Less(n) \in Nat
  BY DEF Less
<1>2. \A e \in Entries :
         /\ Older(e) \in Entries
         /\ Older(e).left = Less(e.left) /\ Older(e).due = Less(e.due)
         /\ Older(e).turn = Less(e.turn)
         /\ e.left \in Nat /\ e.due \in Nat /\ e.turn \in Nat
  BY <1>0 DEF Entries, Older
<1>3. /\ t \in [1 .. Len(s) -> Entries]
      /\ \A i \in 1 .. Len(s) : t[i] = Older(s[i])
  BY <1>1, <1>2
<1> HIDE DEF t
<1>4. t \in Seq(Entries) /\ Len(t) = Len(s)
  BY <1>1, <1>3
<1>5. DueCovered(t)
  <2> SUFFICES ASSUME NEW i \in 1 .. Len(s) PROVE Covered(t[i])
    BY <1>4 DEF DueCovered
  <2>1. /\ s[i].due < s[i].left + TicksPerMs
        /\ s[i].due \in Nat /\ s[i].left \in Nat
    BY <1>1, <1>2 DEF DueCovered, Covered
  <2>2. t[i].due = Less(s[i].due) /\ t[i].left = Less(s[i].left)
    BY <1>1, <1>2, <1>3
  <2>. QED BY <2>1, <2>2, TicksAssumption DEF Covered, Less
<1>6. ASSUME Bounded(s) PROVE Bounded(t)
  <2> SUFFICES ASSUME NEW i \in 1 .. Len(s)
               PROVE  t[i].left <= Backoff(MaxRetries - 1)
    BY <1>4 DEF Bounded
  <2>1. s[i].left \in Nat /\ s[i].left <= Backoff(MaxRetries - 1)
    BY <1>1, <1>2, <1>6 DEF Bounded
  <2>2. t[i].left = Less(s[i].left)
    BY <1>1, <1>2, <1>3
  <2>3. t[i].left \in Nat /\ t[i].left <= s[i].left
    BY <2>1, <2>2 DEF Less
  <2>. QED BY <2>1, <2>3, BackoffIsInt
<1>7. TurnsSettled(t)
  <2> SUFFICES ASSUME NEW i \in 1 .. Len(s)
               PROVE  /\ \A j \in 1 .. i : t[j].left <= t[i].turn
                      /\ \E j \in 1 .. i : t[i].turn = t[j].left
    BY <1>4 DEF TurnsSettled
  <2>1. /\ \A j \in 1 .. i : s[j].left <= s[i].turn
        /\ \E j \in 1 .. i : s[i].turn = s[j].left
    BY DEF TurnsSettled
  <2>2. \A j \in 1 .. i :
           /\ s[j].left \in Nat /\ s[j].turn \in Nat
           /\ t[j].left = Less(s[j].left) /\ t[j].turn = Less(s[j].turn)
    BY <1>1, <1>2, <1>3
  <2>3. i \in 1 .. i
    BY <1>1
  <2>4. ASSUME NEW j \in 1 .. i PROVE t[j].left <= t[i].turn
    <3>1. s[j].left <= s[i].turn /\ s[j].left \in Nat /\ s[i].turn \in Nat
      BY <2>1, <2>2, <2>3
    <3>2. Less(s[j].left) <= Less(s[i].turn)
      BY <3>1 DEF Less
    <3>. QED BY <2>2, <2>3, <3>2
  <2>5. PICK j \in 1 .. i : s[i].turn = s[j].left
    BY <2>1
  <2>6. t[i].turn = t[j].left
    BY <2>2, <2>3, <2>5
  <2>. QED BY <2>4, <2>6
<1>. QED BY <1>4, <1>5, <1>6, <1>7 DEF t

-----------------------------------------------------------------------------
(* The steps.                                                              *)

LEMMA InitDelays == DelayInit => DelayInv
<1> SUFFICES ASSUME DelayInit PROVE DelayInv
  OBVIOUS
<1>1. \A q \in DelayQueues : delaying[q] = <<>>
  BY DEF DelayInit
<1>2. DelayTypeOK
  <2>1. publishing \in [Requests -> Drafts \cup {NoDraft}]
    BY DEF DelayInit
  <2>2. delaying \in [DelayQueues -> Seq(Entries)]
    BY DEF DelayInit
  <2>3. ready \in Seq(Handed)
    BY DEF DelayInit
  <2>4. /\ unacked \in [Workers -> Messages \cup {NoMessage}]
        /\ retried \subseteq {w \in Workers : unacked[w] # NoMessage}
    BY DEF DelayInit
  <2>5. requeues \in [Ids -> 0 .. MaxRequeues]
    BY MaxRequeuesAssumption DEF DelayInit
  <2>. QED BY <2>1, <2>2, <2>3, <2>4, <2>5 DEF DelayTypeOK
<1>3. \A r \in Requests : Covered(publishing[r])
  BY TicksAssumption DEF DelayInit, NoDraft, Covered
<1>4. /\ TurnsSettled(<<>>) /\ DueCovered(<<>>) /\ Bounded(<<>>) /\ Timely(<<>>)
  BY DEF TurnsSettled, DueCovered, Bounded, Timely
<1>5. "retry" \in DelayQueues /\ ready = <<>>
  BY DEF DelayQueues, DelayInit
<1>. QED BY <1>1, <1>2, <1>3, <1>4, <1>5 DEF DelayInv

LEMMA MessageFacts ==
    /\ NoMessage \notin Messages
    /\ \A m \in Messages : m.id \in Ids /\ m.attempts \in 0 .. MaxRetries - 1
    /\ \A id \in Ids : [id |-> id, attempts |-> 0] \in Messages
<1>1. 0 \in 0 .. MaxRetries - 1
  BY MaxRetriesAssumption
<1>. QED BY <1>1, NoIdAssumption DEF Messages, NoMessage

(* A request draws up a message: its expiration is its delay, short of a   *)
(* fraction of a millisecond.                                              *)
LEMMA ComputeDelayKeeps ==
    ASSUME DelayInv,
           NEW r \in Requests, NEW id \in Ids, NEW until \in Schedules,
           ComputeDelay(r, id, until)
    PROVE  DelayInv'
<1> DEFINE delay == ClampedDelay(until)
           draft == [msg |-> [id |-> id, attempts |-> 0],
                     left |-> Truncated(delay), due |-> delay]
<1>1. delay \in Nat
  BY SchedulesAssumption DEF ClampedDelay
<1>2. Truncated(delay) \in Nat /\ delay < Truncated(delay) + TicksPerMs
  BY <1>1, TruncationIsShort
<1>3. draft \in Drafts /\ Covered(draft)
  BY <1>1, <1>2, MessageFacts DEF Drafts, Covered
<1>4. /\ publishing' = [publishing EXCEPT ![r] = draft]
      /\ UNCHANGED <<delaying, ready, unacked, retried, requeues>>
  BY DEF ComputeDelay, Draft
<1> HIDE DEF draft
<1>5. DelayTypeOK'
  BY <1>3, <1>4 DEF DelayInv, DelayTypeOK
<1>6. (\A p \in Requests : Covered(publishing[p]))'
  BY <1>3, <1>4 DEF DelayInv, DelayTypeOK
<1>. QED BY <1>4, <1>5, <1>6 DEF DelayInv

LEMMA WriteMessageKeeps ==
    ASSUME DelayInv, NEW r \in Requests, WriteMessage(r)
    PROVE  DelayInv'
<1>1. PICK p \in Drafts : p = publishing[r]
  BY DEF DelayInv, DelayTypeOK, WriteMessage
<1>2. /\ Enqueue("wait", p.msg, p.left, p.due)
      /\ publishing' = [publishing EXCEPT ![r] = NoDraft]
      /\ UNCHANGED <<ready, unacked, retried, requeues>>
      /\ Covered(p)
  BY <1>1 DEF WriteMessage, DelayInv
<1>3. /\ p.msg \in Messages /\ p.left \in Nat /\ p.due \in Nat
      /\ p.due < p.left + TicksPerMs
      /\ "wait" \in DelayQueues /\ "retry" \in DelayQueues
  BY <1>2 DEF Drafts, Covered, DelayQueues
<1>4. /\ delaying \in [DelayQueues -> Seq(Entries)]
      /\ \A q \in DelayQueues : TurnsSettled(delaying[q]) /\ DueCovered(delaying[q])
  BY DEF DelayInv, DelayTypeOK
<1>5. PICK q : q = "wait"
  OBVIOUS
<1>6. /\ delaying' \in [DelayQueues -> Seq(Entries)]
      /\ TurnsSettled(delaying'[q]) /\ DueCovered(delaying'[q])
      /\ \A o \in DelayQueues : o # q => delaying'[o] = delaying[o]
  BY <1>2, <1>3, <1>4, <1>5, EnqueueKeeps
<1>7. (\A o \in DelayQueues : TurnsSettled(delaying[o]) /\ DueCovered(delaying[o]))'
  BY <1>4, <1>6
<1>8. delaying'["retry"] = delaying["retry"]
  BY <1>3, <1>5, <1>6
<1>9. (\A o \in Requests : Covered(publishing[o]))'
  BY <1>2, TicksAssumption DEF DelayInv, DelayTypeOK, Covered, NoDraft
<1>10. DelayTypeOK'
  BY <1>2, <1>6 DEF DelayInv, DelayTypeOK
<1>. QED BY <1>2, <1>7, <1>8, <1>9, <1>10 DEF DelayInv

LEMMA TimelyAppend ==
    ASSUME NEW s \in Seq(Handed), Timely(s),
           NEW e \in Handed, e.due < TicksPerMs, e.turn = 0
    PROVE  /\ Append(s, e) \in Seq(Handed) /\ Timely(Append(s, e))
           /\ <<e>> \o s \in Seq(Handed) /\ Timely(<<e>> \o s)
<1>1. /\ Len(Append(s, e)) = Len(s) + 1 /\ Len(s) \in Nat
      /\ \A i \in 1 .. Len(s) : Append(s, e)[i] = s[i]
      /\ Append(s, e)[Len(s) + 1] = e
      /\ Append(s, e) \in Seq(Handed)
  OBVIOUS
<1>2. Timely(Append(s, e))
  BY <1>1 DEF Timely
<1>3. <<e>> \in Seq(Handed) /\ Len(<<e>>) = 1 /\ <<e>>[1] = e
  OBVIOUS
<1>4. PICK h \in Seq(Handed) : h = <<e>>
  BY <1>3
<1>5. /\ h \o s \in Seq(Handed)
      /\ Len(h \o s) = 1 + Len(s)
      /\ \A i \in 1 .. 1 + Len(s) :
            (h \o s)[i] = IF i <= 1 THEN h[i] ELSE s[i - 1]
  BY <1>3, <1>4, ConcatProperties
<1>6. Timely(h \o s)
  <2> SUFFICES ASSUME NEW i \in 1 .. 1 + Len(s)
               PROVE  (h \o s)[i].due < TicksPerMs /\ (h \o s)[i].turn = 0
    BY <1>5 DEF Timely
  <2>1. CASE i = 1
    BY <1>1, <1>3, <1>4, <1>5, <2>1
  <2>2. CASE i # 1
    <3>1. i - 1 \in 1 .. Len(s) /\ (h \o s)[i] = s[i - 1]
      BY <1>1, <1>5, <2>2
    <3>. QED BY <3>1 DEF Timely
  <2>. QED BY <2>1, <2>2
<1>. QED BY <1>1, <1>2, <1>4, <1>5, <1>6

LEMMA TimelyTail ==
    ASSUME NEW s \in Seq(Handed), Timely(s), s # <<>>
    PROVE  Tail(s) \in Seq(Handed) /\ Timely(Tail(s)) /\ Head(s) \in Handed
<1>1. /\ Tail(s) \in Seq(Handed) /\ Head(s) \in Handed
      /\ Len(Tail(s)) = Len(s) - 1 /\ Len(s) \in Nat
      /\ \A i \in 1 .. Len(Tail(s)) : Tail(s)[i] = s[i + 1]
  OBVIOUS
<1>2. Timely(Tail(s))
  <2> SUFFICES ASSUME NEW i \in 1 .. Len(Tail(s))
               PROVE  Tail(s)[i].due < TicksPerMs /\ Tail(s)[i].turn = 0
    BY DEF Timely
  <2>1. i + 1 \in 1 .. Len(s) /\ Tail(s)[i] = s[i + 1]
    BY <1>1
  <2>. QED BY <2>1 DEF Timely
<1>. QED BY <1>1, <1>2

LEMMA ExpireHeadKeeps ==
    ASSUME DelayInv, NEW q \in DelayQueues, ExpireHead(q)
    PROVE  DelayInv'
<1>1. PICK s \in Seq(Entries) : s = delaying[q]
  BY DEF DelayInv, DelayTypeOK
<1>2. /\ s # <<>> /\ Head(s).left = 0
      /\ ready' = Append(ready,
             [msg |-> Head(s).msg, due |-> Head(s).due, turn |-> Head(s).turn])
      /\ delaying' = [delaying EXCEPT ![q] = Tail(s)]
      /\ UNCHANGED <<publishing, unacked, retried, requeues>>
  BY <1>1 DEF ExpireHead, Expired, HandOver
<1>3. /\ Tail(s) \in Seq(Entries)
      /\ TurnsSettled(Tail(s)) /\ DueCovered(Tail(s))
      /\ Bounded(s) => Bounded(Tail(s))
      /\ Head(s) \in Entries /\ Head(s).turn = 0 /\ Head(s).due < TicksPerMs
  BY <1>1, <1>2, TailKeeps DEF DelayInv
<1> DEFINE h == [msg |-> Head(s).msg, due |-> Head(s).due, turn |-> Head(s).turn]
<1>4. h \in Handed /\ h.due < TicksPerMs /\ h.turn = 0
  BY <1>3 DEF Entries, Handed
<1> HIDE DEF h
<1>5. ready' \in Seq(Handed) /\ Timely(ready')
  BY <1>2, <1>4, TimelyAppend DEF h, DelayInv, DelayTypeOK
<1>6. delaying' \in [DelayQueues -> Seq(Entries)]
  BY <1>2, <1>3 DEF DelayInv, DelayTypeOK
<1>7. (\A o \in DelayQueues : TurnsSettled(delaying[o]) /\ DueCovered(delaying[o]))'
  BY <1>2, <1>3 DEF DelayInv, DelayTypeOK
<1>8. Bounded(delaying["retry"])'
  <2>1. "retry" \in DelayQueues
    BY DEF DelayQueues
  <2>2. CASE q = "retry"
    BY <1>1, <1>2, <1>3, <2>1, <2>2 DEF DelayInv, DelayTypeOK
  <2>3. CASE q # "retry"
    BY <1>2, <2>1, <2>3 DEF DelayInv, DelayTypeOK
  <2>. QED BY <2>2, <2>3
<1>9. DelayTypeOK'
  BY <1>2, <1>5, <1>6 DEF DelayInv, DelayTypeOK
<1>. QED BY <1>2, <1>5, <1>7, <1>8, <1>9 DEF DelayInv

LEMMA TickKeeps ==
    ASSUME DelayInv, Tick
    PROVE  DelayInv'
<1>1. ASSUME NEW q \in DelayQueues
      PROVE  /\ delaying'[q] \in Seq(Entries)
             /\ TurnsSettled(delaying'[q]) /\ DueCovered(delaying'[q])
             /\ Bounded(delaying[q]) => Bounded(delaying'[q])
  <2>1. PICK s \in Seq(Entries) : s = delaying[q]
    BY DEF DelayInv, DelayTypeOK
  <2>2. s # <<>> => Head(s).left # 0
    BY <2>1 DEF Tick, Expired
  <2>3. TurnsSettled(s) /\ DueCovered(s)
    BY <2>1 DEF DelayInv
  <2> DEFINE t == [i \in DOMAIN s |-> Older(s[i])]
  <2>4. delaying'[q] = t
    BY <2>1 DEF Tick
  <2>5. /\ t \in Seq(Entries)
        /\ TurnsSettled(t) /\ DueCovered(t)
        /\ Bounded(s) => Bounded(t)
    BY <2>2, <2>3, OlderKeeps
  <2>. QED BY <2>1, <2>4, <2>5
<1>2. /\ publishing' = [r \in Requests |-> [publishing[r] EXCEPT !.due = Less(@)]]
      /\ UNCHANGED <<ready, unacked, retried, requeues>>
      /\ \E f : delaying' = [q \in DelayQueues |-> f[q]]
  <2>1. PICK f : f = delaying'
    OBVIOUS
  <2>2. delaying' = [q \in DelayQueues |-> f[q]]
    BY <2>1 DEF Tick
  <2>. QED BY <2>2 DEF Tick
<1>3. \A d \in Drafts \cup {NoDraft} : Covered(d) =>
         LET e == [d EXCEPT !.due = Less(@)]
         IN  e \in Drafts \cup {NoDraft} /\ Covered(e)
  <2> SUFFICES ASSUME NEW d \in Drafts \cup {NoDraft}, Covered(d)
               PROVE  LET e == [d EXCEPT !.due = Less(@)]
                      IN  e \in Drafts \cup {NoDraft} /\ Covered(e)
    OBVIOUS
  <2>1. CASE d \in Drafts
    <3>1. d.due \in Nat /\ d.left \in Nat /\ Less(d.due) \in Nat /\ Less(d.due) <= d.due
      BY <2>1 DEF Drafts, Less
    <3>2. [d EXCEPT !.due = Less(@)] \in Drafts
      BY <2>1, <3>1 DEF Drafts
    <3>3. /\ [d EXCEPT !.due = Less(@)].due = Less(d.due)
          /\ [d EXCEPT !.due = Less(@)].left = d.left
      BY <2>1 DEF Drafts
    <3>. QED BY <3>1, <3>2, <3>3, TicksAssumption DEF Covered
  <2>2. CASE d = NoDraft
    <3>1. [d EXCEPT !.due = Less(@)] = NoDraft
      BY <2>2 DEF NoDraft, Less
    <3>. QED BY <2>2, <3>1
  <2>. QED BY <2>1, <2>2
<1>4. /\ publishing' \in [Requests -> Drafts \cup {NoDraft}]
      /\ \A r \in Requests : Covered(publishing'[r])
  BY <1>2, <1>3 DEF DelayInv, DelayTypeOK
<1>5. delaying' \in [DelayQueues -> Seq(Entries)]
  BY <1>1, <1>2
<1>6. DelayTypeOK'
  BY <1>2, <1>4, <1>5 DEF DelayInv, DelayTypeOK
<1>7. "retry" \in DelayQueues
  BY DEF DelayQueues
<1>. QED BY <1>1, <1>2, <1>4, <1>6, <1>7 DEF DelayInv

(* The workers leave requests and the order of the queues alone, but for   *)
(* the retries they publish.                                               *)
LEMMA TakeKeeps ==
    ASSUME DelayInv, NEW w \in Workers, Take(w)
    PROVE  DelayInv'
<1>1. /\ ready \in Seq(Handed) /\ Timely(ready) /\ ready # <<>>
      /\ ready' = Tail(ready)
      /\ unacked' = [unacked EXCEPT ![w] = Head(ready).msg]
      /\ unacked[w] = NoMessage
      /\ UNCHANGED <<publishing, delaying, retried, requeues>>
  BY DEF Take, DelayInv, DelayTypeOK
<1>2. /\ ready' \in Seq(Handed) /\ Timely(ready')
      /\ Head(ready).msg \in Messages
  BY <1>1, TimelyTail DEF Handed
<1>3. /\ unacked' \in [Workers -> Messages \cup {NoMessage}]
      /\ retried' \subseteq {x \in Workers : unacked'[x] # NoMessage}
  BY <1>1, <1>2 DEF DelayInv, DelayTypeOK
<1>4. DelayTypeOK'
  BY <1>1, <1>2, <1>3 DEF DelayInv, DelayTypeOK
<1>. QED BY <1>1, <1>2, <1>4 DEF DelayInv

LEMMA PublishRetryKeeps ==
    ASSUME DelayInv, NEW w \in Workers, PublishRetry(w)
    PROVE  DelayInv'
<1>1. PICK m \in Messages : m = unacked[w]
  BY DEF DelayInv, DelayTypeOK, PublishRetry, Retry
<1> DEFINE copy == [m EXCEPT !.attempts = @ + 1]
<1>2. PICK backoff : backoff = Backoff(m.attempts + 1)
  OBVIOUS
<1>3. /\ m.attempts + 1 < MaxRetries
      /\ Enqueue("retry", copy, backoff, backoff)
      /\ retried' = retried \cup {w}
      /\ UNCHANGED <<publishing, ready, unacked, requeues>>
  BY <1>1, <1>2 DEF PublishRetry, Retry
<1>4. m.attempts + 1 \in 1 .. MaxRetries - 1
  BY <1>3, MessageFacts, MaxRetriesAssumption
<1>5. backoff \in Nat /\ backoff <= Backoff(MaxRetries - 1)
  BY <1>2, <1>4, BackoffType
<1>6. copy \in Messages
  BY <1>4, MessageFacts, MaxRetriesAssumption DEF Messages
<1>7. backoff < backoff + TicksPerMs
  BY <1>5, TicksAssumption
<1>8. /\ delaying \in [DelayQueues -> Seq(Entries)]
      /\ \A q \in DelayQueues : TurnsSettled(delaying[q]) /\ DueCovered(delaying[q])
      /\ "retry" \in DelayQueues /\ Bounded(delaying["retry"])
  BY DEF DelayInv, DelayTypeOK, DelayQueues
<1>9. PICK q \in DelayQueues : q = "retry"
  BY <1>8
<1> HIDE DEF copy
<1>10. /\ delaying' \in [DelayQueues -> Seq(Entries)]
       /\ TurnsSettled(delaying'[q]) /\ DueCovered(delaying'[q])
       /\ \A o \in DelayQueues : o # q => delaying'[o] = delaying[o]
       /\ Bounded(delaying'[q])
  BY <1>3, <1>5, <1>6, <1>7, <1>8, <1>9, EnqueueKeeps
<1>11. (\A o \in DelayQueues : TurnsSettled(delaying[o]) /\ DueCovered(delaying[o]))'
  BY <1>8, <1>10
<1>12. unacked[w] # NoMessage
  BY <1>1, MessageFacts
<1>13. DelayTypeOK'
  BY <1>3, <1>10, <1>12 DEF DelayInv, DelayTypeOK
<1>. QED BY <1>3, <1>9, <1>10, <1>11, <1>13 DEF DelayInv

LEMMA SettleKeeps ==
    ASSUME DelayInv, NEW w \in Workers, Settle(w)
    PROVE  DelayInv'
<1>1. DelayTypeOK'
  BY DEF DelayInv, DelayTypeOK, Settle
<1>. QED BY <1>1 DEF DelayInv, Settle

LEMMA GiveUpKeeps ==
    ASSUME DelayInv, NEW w \in Workers, GiveUp(w)
    PROVE  DelayInv'
<1>1. PICK m \in Messages : m = unacked[w]
  BY DEF DelayInv, DelayTypeOK, GiveUp
<1> DEFINE e == [msg |-> m, due |-> 0, turn |-> 0]
<1>2. /\ w \notin retried
      /\ requeues[m.id] < MaxRequeues
      /\ ready' = <<e>> \o ready
      /\ requeues' = [requeues EXCEPT ![m.id] = @ + 1]
      /\ unacked' = [unacked EXCEPT ![w] = NoMessage]
      /\ UNCHANGED <<publishing, delaying, retried>>
  BY <1>1 DEF GiveUp
<1>3. e \in Handed /\ e.due < TicksPerMs /\ e.turn = 0
  BY TicksAssumption DEF Handed
<1> HIDE DEF e
<1>4. ready \in Seq(Handed) /\ Timely(ready)
  BY DEF DelayInv, DelayTypeOK
<1>5. ready' \in Seq(Handed) /\ Timely(ready')
  BY <1>2, <1>3, <1>4, TimelyAppend
<1>6. /\ m.id \in Ids
      /\ requeues \in [Ids -> 0 .. MaxRequeues]
  BY MessageFacts DEF DelayInv, DelayTypeOK
<1>7. requeues' \in [Ids -> 0 .. MaxRequeues]
  BY <1>2, <1>6, MaxRequeuesAssumption
<1>8. DelayTypeOK'
  BY <1>2, <1>5, <1>7 DEF DelayInv, DelayTypeOK
<1>. QED BY <1>2, <1>5, <1>8 DEF DelayInv

-----------------------------------------------------------------------------
(* Every step of every behaviour keeps what is known of the delays.        *)
THEOREM DelayInvariant == DelaySpec => []DelayInv
<1>1. DelayInv /\ UNCHANGED delayVars => DelayInv'
  <2> SUFFICES ASSUME DelayInv, UNCHANGED delayVars PROVE DelayInv'
    OBVIOUS
  <2>1. UNCHANGED <<publishing, delaying, ready, unacked, retried, requeues>>
    BY DEF delayVars
  <2>2. DelayTypeOK'
    BY <2>1 DEF DelayInv, DelayTypeOK
  <2>. QED BY <2>1, <2>2 DEF DelayInv
<1>2. DelayInv /\ [DelayNext]_delayVars => DelayInv'
  <2> SUFFICES ASSUME DelayInv, DelayNext PROVE DelayInv'
    BY <1>1
  <2>1. CASE \E r \in Requests, id \in Ids, until \in Schedules :
                ComputeDelay(r, id, until)
    BY <2>1, ComputeDelayKeeps
  <2>2. CASE \E r \in Requests : WriteMessage(r)
    BY <2>2, WriteMessageKeeps
  <2>3. CASE \E q \in DelayQueues : ExpireHead(q)
    BY <2>3, ExpireHeadKeeps
  <2>4. CASE Tick
    BY <2>4, TickKeeps
  <2>5. CASE \E w \in Workers : Take(w) \/ PublishRetry(w) \/ Settle(w) \/ GiveUp(w)
    BY <2>5, TakeKeeps, PublishRetryKeeps, SettleKeeps, GiveUpKeeps
  <2>. QED BY <2>1, <2>2, <2>3, <2>4, <2>5 DEF DelayNext
<1>. QED BY InitDelays, <1>2, PTL DEF DelaySpec

(* The queues keep their type, and a time in the past never becomes a      *)
(* negative expiration.  The broker's upper limit is not modelled, so this *)
(* says nothing of a scheduled_at too far ahead for it.                    *)
THEOREM DelaysAreTyped == DelaySpec => []DelayTypeOK
<1>1. DelayInv => DelayTypeOK
  BY DEF DelayInv
<1>. QED BY DelayInvariant, <1>1, PTL

(* Nothing reaches the workers a whole millisecond before its time, nor    *)
(* more, for every scheduled_at and every backoff.                         *)
THEOREM NothingIsEarly == DelaySpec => []NeverEarly
<1>1. DelayInv => NeverEarly
  <2> SUFFICES ASSUME DelayInv, NEW e \in ToSet(ready) PROVE e.due < TicksPerMs
    BY DEF NeverEarly
  <2>1. PICK i \in DOMAIN ready : e = ready[i]
    BY DEF ToSet
  <2>2. i \in 1 .. Len(ready)
    BY DEF DelayInv, DelayTypeOK
  <2>. QED BY <2>1, <2>2 DEF DelayInv, Timely
<1>. QED BY DelayInvariant, <1>1, PTL

(* No retry waits longer than the longest backoff, whatever is scheduled   *)
(* and however many retries are ahead of it.                               *)
THEOREM RetriesAreBounded == DelaySpec => []RetryIsBounded
<1>1. DelayInv => RetryIsBounded
  <2> SUFFICES ASSUME DelayInv, NEW e \in ToSet(delaying["retry"])
               PROVE  e.turn <= Backoff(MaxRetries - 1)
    BY DEF RetryIsBounded
  <2>1. "retry" \in DelayQueues
    BY DEF DelayQueues
  <2>2. PICK s \in Seq(Entries) : s = delaying["retry"]
    BY <2>1 DEF DelayInv, DelayTypeOK
  <2>3. PICK i \in 1 .. Len(s) : e = s[i]
    BY <2>2 DEF ToSet
  <2>4. PICK j \in 1 .. i : s[i].turn = s[j].left
    BY <2>1, <2>2 DEF DelayInv, TurnsSettled
  <2>5. j \in 1 .. Len(s)
    OBVIOUS
  <2>. QED BY <2>2, <2>3, <2>4, <2>5 DEF DelayInv, Bounded
<1>. QED BY DelayInvariant, <1>1, PTL

-----------------------------------------------------------------------------
(* The queues implement the bag: copies of messages are all it counts.     *)

Places(s, m) == {i \in DOMAIN s : s[i].msg = m}
CopiesOf(s) == [m \in Messages |-> Copies(s, m)]

LEMMA PlacesAreFinite ==
    ASSUME NEW S, NEW s \in Seq(S), NEW m
    PROVE  /\ IsFiniteSet(Places(s, m))
           /\ Copies(s, m) = Cardinality(Places(s, m))
           /\ Copies(s, m) \in Nat
<1>1. Copies(s, m) = Cardinality(Places(s, m))
  BY DEF Copies, Places
<1>2. Len(s) \in Nat /\ DOMAIN s = 1 .. Len(s)
  OBVIOUS
<1>3. IsFiniteSet(1 .. Len(s))
  BY <1>2, FS_Interval
<1>4. Places(s, m) \in SUBSET (1 .. Len(s))
  BY <1>2 DEF Places
<1>5. IsFiniteSet(Places(s, m))
  BY <1>3, <1>4, FS_Subset
<1>. QED BY <1>1, <1>5, FS_CardinalityType

LEMMA CopiesAppend ==
    ASSUME NEW S, NEW s \in Seq(S), NEW e \in S, NEW m
    PROVE  Copies(Append(s, e), m) =
              IF e.msg = m THEN Copies(s, m) + 1 ELSE Copies(s, m)
<1> DEFINE t == Append(s, e)
<1>1. /\ Len(s) \in Nat /\ DOMAIN s = 1 .. Len(s)
      /\ t \in Seq(S) /\ DOMAIN t = 1 .. Len(s) + 1
      /\ \A i \in 1 .. Len(s) : t[i] = s[i]
      /\ t[Len(s) + 1] = e
  OBVIOUS
<1> HIDE DEF t
<1>2. Len(s) + 1 \notin Places(s, m)
  BY <1>1 DEF Places
<1>3. CASE e.msg = m
  <2>1. Places(t, m) = Places(s, m) \cup {Len(s) + 1}
    BY <1>1, <1>3 DEF Places
  <2>2. Cardinality(Places(s, m) \cup {Len(s) + 1}) = Cardinality(Places(s, m)) + 1
    BY <1>2, PlacesAreFinite, FS_AddElement
  <2>3. Copies(t, m) = Cardinality(Places(t, m))
    BY <1>1, PlacesAreFinite
  <2>4. Copies(s, m) = Cardinality(Places(s, m))
    BY PlacesAreFinite
  <2>. QED BY <1>3, <2>1, <2>2, <2>3, <2>4 DEF t
<1>4. CASE e.msg # m
  <2>1. Places(t, m) = Places(s, m)
    BY <1>1, <1>4 DEF Places
  <2>. QED BY <1>1, <1>4, <2>1, PlacesAreFinite DEF t
<1>. QED BY <1>3, <1>4

LEMMA CopiesTail ==
    ASSUME NEW S, NEW s \in Seq(S), s # <<>>, NEW m
    PROVE  Copies(s, m) =
              IF Head(s).msg = m THEN Copies(Tail(s), m) + 1 ELSE Copies(Tail(s), m)
<1> DEFINE t == Tail(s)
<1>1. /\ Len(s) \in Nat \ {0} /\ DOMAIN s = 1 .. Len(s) /\ s[1] = Head(s)
      /\ t \in Seq(S) /\ DOMAIN t = 1 .. Len(s) - 1
      /\ \A i \in 1 .. Len(s) - 1 : t[i] = s[i + 1]
  OBVIOUS
<1> HIDE DEF t
<1> DEFINE Rest == Places(s, m) \ {1}
<1>2. /\ IsFiniteSet(Places(s, m)) /\ IsFiniteSet(Places(t, m))
      /\ Copies(s, m) = Cardinality(Places(s, m)) /\ Copies(s, m) \in Nat
      /\ Copies(t, m) = Cardinality(Places(t, m)) /\ Copies(t, m) \in Nat
  BY <1>1, PlacesAreFinite
<1>3. \A i : i \in Places(t, m) <=> i \in 1 .. Len(s) - 1 /\ s[i + 1].msg = m
  BY <1>1 DEF Places
<1>4. \A i : i \in Rest <=> i \in 2 .. Len(s) /\ s[i].msg = m
  BY <1>1 DEF Places
<1>5. 1 \in Places(s, m) <=> Head(s).msg = m
  BY <1>1 DEF Places
<1> HIDE DEF Rest
<1> DEFINE f == [i \in Places(t, m) |-> i + 1]
<1>6. f \in Bijection(Places(t, m), Rest)
  <2>1. f \in [Places(t, m) -> Rest]
    BY <1>1, <1>3, <1>4
  <2>2. \A i, j \in Places(t, m) : f[i] = f[j] => i = j
    BY <1>1, <1>3
  <2>3. ASSUME NEW k \in Rest PROVE \E i \in Places(t, m) : f[i] = k
    <3>1. k \in 2 .. Len(s) /\ s[k].msg = m
      BY <1>4
    <3>2. k - 1 \in 1 .. Len(s) - 1 /\ (k - 1) + 1 = k
      BY <1>1, <3>1
    <3>3. k - 1 \in Places(t, m)
      BY <1>3, <3>1, <3>2
    <3>. QED BY <3>2, <3>3
  <2> HIDE DEF f
  <2>. QED BY <2>1, <2>2, <2>3 DEF Bijection, Injection, Surjection, IsInjective
<1>7. Cardinality(Rest) = Copies(t, m)
  BY <1>2, <1>6, FS_Bijection DEF ExistsBijection
<1>8. Cardinality(Rest) = IF Head(s).msg = m THEN Copies(s, m) - 1 ELSE Copies(s, m)
  BY <1>2, <1>5, FS_RemoveElement DEF Rest
<1>. QED BY <1>2, <1>7, <1>8 DEF t

LEMMA CopiesSame ==
    ASSUME NEW S, NEW s \in Seq(S), NEW t, DOMAIN t = DOMAIN s,
           \A i \in DOMAIN s : t[i].msg = s[i].msg
    PROVE  CopiesOf(t) = CopiesOf(s)
<1>1. \A m : Places(t, m) = Places(s, m)
  BY DEF Places
<1>2. \A m : Copies(t, m) = Copies(s, m)
  BY <1>1 DEF Copies, Places
<1>. QED BY <1>2 DEF CopiesOf

LEMMA CopiesOfAppend ==
    ASSUME NEW S, NEW s \in Seq(S), NEW e \in S
    PROVE  CopiesOf(Append(s, e)) = [CopiesOf(s) EXCEPT ![e.msg] = @ + 1]
<1>1. \A m : Copies(Append(s, e), m) = IF m = e.msg THEN Copies(s, m) + 1 ELSE Copies(s, m)
  BY CopiesAppend
<1>. QED BY <1>1 DEF CopiesOf

LEMMA CopiesOfTail ==
    ASSUME NEW S, NEW s \in Seq(S), s # <<>>, Head(s).msg \in Messages
    PROVE  /\ CopiesOf(Tail(s)) = [CopiesOf(s) EXCEPT ![Head(s).msg] = @ - 1]
           /\ CopiesOf(s)[Head(s).msg] > 0
<1>1. Tail(s) \in Seq(S)
  OBVIOUS
<1>2. \A m : Copies(Tail(s), m) \in Nat /\ Copies(s, m) \in Nat
  BY <1>1, PlacesAreFinite
<1>3. \A m : Copies(Tail(s), m) = IF m = Head(s).msg THEN Copies(s, m) - 1 ELSE Copies(s, m)
  BY <1>2, CopiesTail
<1>4. PICK e : e = Head(s).msg
  OBVIOUS
<1>5. PICK f, g : f = CopiesOf(s) /\ g = CopiesOf(Tail(s))
  OBVIOUS
<1>6. /\ f = [m \in Messages |-> Copies(s, m)]
      /\ g = [m \in Messages |-> Copies(Tail(s), m)]
  BY <1>5 DEF CopiesOf
<1>7. \A m \in Messages : f[m] = Copies(s, m) /\ g[m] = Copies(Tail(s), m)
  BY <1>6
<1>8. f[e] = Copies(Tail(s), e) + 1
  BY <1>2, <1>4, <1>7, CopiesTail
<1>9. f[e] > 0 /\ g[e] = f[e] - 1
  BY <1>2, <1>4, <1>7, <1>8
<1>10. \A m \in Messages : m # e => g[m] = f[m]
  BY <1>3, <1>4, <1>7
<1>11. g = [f EXCEPT ![e] = @ - 1]
  BY <1>4, <1>6, <1>9, <1>10
<1>. QED BY <1>4, <1>5, <1>9, <1>11

LEMMA CopiesOfFront ==
    ASSUME NEW S, NEW s \in Seq(S), NEW e \in S, e.msg \in Messages
    PROVE  CopiesOf(<<e>> \o s) =
              [m \in Messages |-> IF m = e.msg THEN Copies(s, m) + 1 ELSE Copies(s, m)]
<1>1. PICK t : t = <<e>> \o s
  OBVIOUS
<1>2. t \in Seq(S) /\ t # <<>> /\ Head(t) = e /\ Tail(t) = s
  BY <1>1
<1>3. \A m : Copies(t, m) = IF m = e.msg THEN Copies(s, m) + 1 ELSE Copies(s, m)
  BY <1>2, CopiesTail
<1>. QED BY <1>1, <1>3 DEF CopiesOf

(* What the refinement puts in the place of the bag.                       *)
Counts == [wait |-> CopiesOf(delaying["wait"]),
           retry |-> CopiesOf(delaying["retry"]),
           process |-> CopiesOf(ready)]

LEMMA SequencesAreTyped ==
    ASSUME DelayInv
    PROVE  /\ delaying["wait"] \in Seq(Entries) /\ delaying["retry"] \in Seq(Entries)
           /\ ready \in Seq(Handed)
           /\ delaying \in [DelayQueues -> Seq(Entries)]
BY DEF DelayInv, DelayTypeOK, DelayQueues

LEMMA ThreeQueues ==
    ASSUME NEW a, NEW b, NEW c, NEW m,
           NEW bag, bag = [wait |-> a, retry |-> b, process |-> c]
    PROVE  /\ [bag EXCEPT !["wait"][m] = @ + 1] =
                 [wait |-> [a EXCEPT ![m] = @ + 1], retry |-> b, process |-> c]
           /\ [bag EXCEPT !["retry"][m] = @ + 1] =
                 [wait |-> a, retry |-> [b EXCEPT ![m] = @ + 1], process |-> c]
           /\ [bag EXCEPT !["wait"][m] = @ - 1, !["process"][m] = @ + 1] =
                 [wait |-> [a EXCEPT ![m] = @ - 1], retry |-> b,
                  process |-> [c EXCEPT ![m] = @ + 1]]
           /\ [bag EXCEPT !["retry"][m] = @ - 1, !["process"][m] = @ + 1] =
                 [wait |-> a, retry |-> [b EXCEPT ![m] = @ - 1],
                  process |-> [c EXCEPT ![m] = @ + 1]]
           /\ [bag EXCEPT !["process"][m] = @ - 1] =
                 [wait |-> a, retry |-> b, process |-> [c EXCEPT ![m] = @ - 1]]
<1>1. [bag EXCEPT !["wait"][m] = @ + 1] =
         [wait |-> [a EXCEPT ![m] = @ + 1], retry |-> b, process |-> c]
  OBVIOUS
<1>2. [bag EXCEPT !["retry"][m] = @ + 1] =
         [wait |-> a, retry |-> [b EXCEPT ![m] = @ + 1], process |-> c]
  OBVIOUS
<1>3. [bag EXCEPT !["wait"][m] = @ - 1, !["process"][m] = @ + 1] =
         [wait |-> [a EXCEPT ![m] = @ - 1], retry |-> b,
          process |-> [c EXCEPT ![m] = @ + 1]]
  OBVIOUS
<1>4. [bag EXCEPT !["retry"][m] = @ - 1, !["process"][m] = @ + 1] =
         [wait |-> a, retry |-> [b EXCEPT ![m] = @ - 1],
          process |-> [c EXCEPT ![m] = @ + 1]]
  OBVIOUS
<1>5. [bag EXCEPT !["process"][m] = @ - 1] =
         [wait |-> a, retry |-> b, process |-> [c EXCEPT ![m] = @ - 1]]
  OBVIOUS
<1>. QED BY <1>1, <1>2, <1>3, <1>4, <1>5

(* Drawing up a message and the passing of time leave the bag alone.       *)
LEMMA TickIsStutter ==
    ASSUME DelayInv, Tick
    PROVE  Counts' = Counts
<1>1. ASSUME NEW q \in DelayQueues
      PROVE  CopiesOf(delaying'[q]) = CopiesOf(delaying[q])
  <2>1. PICK s \in Seq(Entries) : s = delaying[q]
    BY SequencesAreTyped
  <2>2. delaying'[q] = [i \in DOMAIN s |-> Older(s[i])]
    BY <2>1 DEF Tick
  <2> DEFINE t == [i \in DOMAIN s |-> Older(s[i])]
  <2>3. DOMAIN t = DOMAIN s
    OBVIOUS
  <2>4. \A i \in DOMAIN s : s[i] \in Entries
    OBVIOUS
  <2>5. \A e \in Entries : Older(e).msg = e.msg
    BY DEF Entries, Older
  <2>6. \A i \in DOMAIN s : t[i].msg = s[i].msg
    BY <2>4, <2>5
  <2> HIDE DEF t
  <2>7. CopiesOf(t) = CopiesOf(s)
    BY <2>3, <2>6, CopiesSame
  <2>. QED BY <2>1, <2>2, <2>7 DEF t
<1>. QED BY <1>1 DEF Counts, DelayQueues, Tick

LEMMA WriteIsPublish ==
    ASSUME DelayInv, NEW r \in Requests, WriteMessage(r)
    PROVE  \E m \in Messages : Counts' = [Counts EXCEPT !["wait"][m] = @ + 1]
<1>1. PICK p \in Drafts : p = publishing[r]
  BY DEF DelayInv, DelayTypeOK, WriteMessage
<1>2. PICK e : /\ e = [msg |-> p.msg, left |-> p.left, due |-> p.due,
                      turn |-> Max({p.left, LongestAhead("wait")})]
               /\ delaying' = [delaying EXCEPT !["wait"] = Append(@, e)]
               /\ ready' = ready
  BY <1>1 DEF WriteMessage, Enqueue
<1>3. p.msg \in Messages
  BY DEF Drafts
<1>4. /\ delaying'["wait"] = Append(delaying["wait"], e)
      /\ delaying'["retry"] = delaying["retry"]
  BY <1>2, SequencesAreTyped DEF DelayQueues
<1>5. PICK S : S = Entries \cup {e}
  OBVIOUS
<1>6. PICK s \in Seq(S) : s = delaying["wait"]
  BY <1>5, SequencesAreTyped
<1>7. e \in S /\ e.msg = p.msg
  BY <1>2, <1>5
<1>8. CopiesOf(Append(s, e)) = [CopiesOf(s) EXCEPT ![p.msg] = @ + 1]
  BY <1>7, CopiesOfAppend
<1>9. PICK a, b, c : /\ a = CopiesOf(delaying["wait"])
                     /\ b = CopiesOf(delaying["retry"]) /\ c = CopiesOf(ready)
  OBVIOUS
<1>10. Counts' = [wait |-> [a EXCEPT ![p.msg] = @ + 1], retry |-> b, process |-> c]
  BY <1>2, <1>4, <1>6, <1>8, <1>9 DEF Counts
<1>11. Counts = [wait |-> a, retry |-> b, process |-> c]
  BY <1>9 DEF Counts
<1>12. Counts' = [Counts EXCEPT !["wait"][p.msg] = @ + 1]
  <2>1. PICK m : m = p.msg
    OBVIOUS
  <2>. QED BY SMTT(30), <1>10, <1>11, <2>1, ThreeQueues
<1>. QED BY <1>3, <1>12

LEMMA RetryIsPublish ==
    ASSUME DelayInv, NEW w \in Workers, PublishRetry(w)
    PROVE  \E m \in Messages : Counts' = [Counts EXCEPT !["retry"][m] = @ + 1]
<1>1. PICK m \in Messages : m = unacked[w]
  BY DEF DelayInv, DelayTypeOK, PublishRetry, Retry
<1>2. PICK copy : copy = [m EXCEPT !.attempts = @ + 1]
  OBVIOUS
<1>3. m.attempts + 1 < MaxRetries
  BY <1>1 DEF PublishRetry, Retry
<1>4. copy \in Messages
  BY <1>2, <1>3, MessageFacts, MaxRetriesAssumption DEF Messages
<1>5. PICK e : /\ \E backoff : e = [msg |-> copy, left |-> backoff, due |-> backoff,
                      turn |-> Max({backoff, LongestAhead("retry")})]
               /\ delaying' = [delaying EXCEPT !["retry"] = Append(@, e)]
               /\ ready' = ready
  <2>1. PICK backoff : /\ backoff = Backoff(m.attempts + 1)
                       /\ Enqueue("retry", copy, backoff, backoff)
                       /\ ready' = ready
    BY <1>1, <1>2 DEF PublishRetry, Retry
  <2>. QED BY <2>1 DEF Enqueue
<1>6. /\ delaying'["retry"] = Append(delaying["retry"], e)
      /\ delaying'["wait"] = delaying["wait"]
  BY <1>5, SequencesAreTyped DEF DelayQueues
<1>7. PICK S : S = Entries \cup {e}
  OBVIOUS
<1>8. PICK s \in Seq(S) : s = delaying["retry"]
  BY <1>7, SequencesAreTyped
<1>9. e \in S /\ e.msg = copy
  BY <1>5, <1>7
<1>10. CopiesOf(Append(s, e)) = [CopiesOf(s) EXCEPT ![copy] = @ + 1]
  BY <1>9, CopiesOfAppend
<1>11. PICK a, b, c : /\ a = CopiesOf(delaying["wait"])
                     /\ b = CopiesOf(delaying["retry"]) /\ c = CopiesOf(ready)
  OBVIOUS
<1>12. Counts' = [wait |-> a, retry |-> [b EXCEPT ![copy] = @ + 1], process |-> c]
  BY <1>5, <1>6, <1>8, <1>10, <1>11 DEF Counts
<1>13. Counts = [wait |-> a, retry |-> b, process |-> c]
  BY <1>11 DEF Counts
<1>14. Counts' = [Counts EXCEPT !["retry"][copy] = @ + 1]
  BY SMTT(30), <1>12, <1>13, ThreeQueues
<1>. QED BY <1>4, <1>14

LEMMA ExpiryIsDeadLetter ==
    ASSUME DelayInv, NEW q \in DelayQueues, ExpireHead(q)
    PROVE  \E m \in Messages :
              /\ Counts[q][m] > 0
              /\ Counts' = [Counts EXCEPT ![q][m] = @ - 1, !["process"][m] = @ + 1]
<1>1. PICK s \in Seq(Entries) : s = delaying[q]
  BY SequencesAreTyped
<1>2. PICK m : m = Head(s).msg
  OBVIOUS
<1>3. /\ s # <<>>
      /\ delaying' = [delaying EXCEPT ![q] = Tail(s)]
  BY <1>1 DEF ExpireHead, Expired
<1>4. PICK e : e.msg = m /\ ready' = Append(ready, e)
  BY <1>1, <1>2 DEF ExpireHead, HandOver
<1>5. m \in Messages
  <2>1. Head(s) \in Entries
    BY <1>3
  <2>. QED BY <1>2, <2>1 DEF Entries
<1>6. /\ CopiesOf(Tail(s)) = [CopiesOf(s) EXCEPT ![m] = @ - 1]
      /\ CopiesOf(s)[m] > 0
  BY <1>2, <1>3, <1>5, CopiesOfTail
<1>7. PICK r : r = ready /\ r \in Seq(Handed \cup {e})
  BY SequencesAreTyped
<1>8. CopiesOf(ready') = [CopiesOf(ready) EXCEPT ![m] = @ + 1]
  BY <1>4, <1>7, CopiesOfAppend
<1>9. PICK a, b, c : /\ a = CopiesOf(delaying["wait"])
                     /\ b = CopiesOf(delaying["retry"]) /\ c = CopiesOf(ready)
  OBVIOUS
<1>10. Counts = [wait |-> a, retry |-> b, process |-> c]
  BY <1>9 DEF Counts
<1>11. CASE q = "wait"
  <2>1. /\ delaying'["wait"] = Tail(s)
        /\ delaying'["retry"] = delaying["retry"]
    BY <1>3, <1>11, SequencesAreTyped DEF DelayQueues
  <2>2. Counts' = [wait |-> [a EXCEPT ![m] = @ - 1], retry |-> b,
                   process |-> [c EXCEPT ![m] = @ + 1]]
    BY <1>1, <1>6, <1>8, <1>9, <1>11, <2>1 DEF Counts
  <2>3. Counts[q][m] > 0
    BY <1>1, <1>6, <1>9, <1>10, <1>11
  <2>4. Counts' = [Counts EXCEPT !["wait"][m] = @ - 1, !["process"][m] = @ + 1]
    BY SMTT(30), <1>10, <2>2, ThreeQueues
  <2>. QED BY <1>5, <1>11, <2>3, <2>4
<1>12. CASE q = "retry"
  <2>1. /\ delaying'["retry"] = Tail(s)
        /\ delaying'["wait"] = delaying["wait"]
    BY <1>3, <1>12, SequencesAreTyped DEF DelayQueues
  <2>2. Counts' = [wait |-> a, retry |-> [b EXCEPT ![m] = @ - 1],
                   process |-> [c EXCEPT ![m] = @ + 1]]
    BY <1>1, <1>6, <1>8, <1>9, <1>12, <2>1 DEF Counts
  <2>3. Counts[q][m] > 0
    BY <1>1, <1>6, <1>9, <1>10, <1>12
  <2>4. Counts' = [Counts EXCEPT !["retry"][m] = @ - 1, !["process"][m] = @ + 1]
    BY SMTT(30), <1>10, <2>2, ThreeQueues
  <2>. QED BY <1>5, <1>12, <2>3, <2>4
<1>. QED BY <1>11, <1>12 DEF DelayQueues

LEMMA TakeIsDeliver ==
    ASSUME DelayInv, NEW w \in Workers, Take(w)
    PROVE  \E m \in Messages :
              /\ Counts["process"][m] > 0
              /\ Counts' = [Counts EXCEPT !["process"][m] = @ - 1]
              /\ unacked' = [unacked EXCEPT ![w] = m]
<1>1. PICK s \in Seq(Handed) : s = ready
  BY SequencesAreTyped
<1>2. PICK m : m = Head(s).msg
  OBVIOUS
<1>3. /\ s # <<>> /\ ready' = Tail(s) /\ delaying' = delaying
      /\ unacked' = [unacked EXCEPT ![w] = m]
  BY <1>1, <1>2 DEF Take
<1>4. m \in Messages
  <2>1. Head(s) \in Handed
    BY <1>1, <1>3
  <2>. QED BY <1>2, <2>1 DEF Handed
<1>5. /\ CopiesOf(Tail(s)) = [CopiesOf(s) EXCEPT ![m] = @ - 1]
      /\ CopiesOf(s)[m] > 0
  BY <1>2, <1>3, <1>4, CopiesOfTail
<1>6. PICK a, b, c : /\ a = CopiesOf(delaying["wait"])
                     /\ b = CopiesOf(delaying["retry"]) /\ c = CopiesOf(ready)
  OBVIOUS
<1>7. Counts = [wait |-> a, retry |-> b, process |-> c]
  BY <1>6 DEF Counts
<1>8. Counts' = [wait |-> a, retry |-> b, process |-> [c EXCEPT ![m] = @ - 1]]
  BY <1>1, <1>3, <1>5, <1>6 DEF Counts
<1>9. Counts["process"][m] > 0
  BY <1>1, <1>5, <1>6, <1>7
<1>10. Counts' = [Counts EXCEPT !["process"][m] = @ - 1]
  BY <1>7, <1>8, ThreeQueues
<1>. QED BY <1>3, <1>4, <1>9, <1>10

LEMMA SameMessages ==
    /\ Bag!Messages = Messages /\ Bag!NoMessage = NoMessage
    /\ Bag!Publishers = {"api", "worker"}
    /\ Bag!Queues = {"wait", "retry", "process"}
BY DEF Bag!Messages, Messages, Bag!NoMessage, NoMessage, Bag!Publishers, Bag!Queues

LEMMA SameCardinality == \A S : Bag!Cardinality(S) = Cardinality(S)
BY DEF Bag!Cardinality, Cardinality

(* What the bag's Requeue of worker w gives back.                          *)
GivenBack(w) ==
    [m \in Bag!Messages |->
        Counts["process"][m] + Bag!Cardinality({x \in {w} : unacked[x] = m})]
CountedAgain(w) ==
    [id \in Ids |-> requeues[id] + Bag!Cardinality({x \in {w} : unacked[x].id = id})]

LEMMA GiveUpIsRequeue ==
    ASSUME DelayInv, NEW w \in Workers, GiveUp(w)
    PROVE  /\ Counts' = [Counts EXCEPT !["process"] = GivenBack(w)]
           /\ requeues' = CountedAgain(w)
           /\ unacked' = [x \in Workers |-> IF x \in {w} THEN NoMessage ELSE unacked[x]]
<1>1. PICK m \in Messages : m = unacked[w]
  BY DEF DelayInv, DelayTypeOK, GiveUp
<1>2. PICK e \in Handed : e = [msg |-> m, due |-> 0, turn |-> 0]
  BY DEF Handed
<1>3. /\ ready' = <<e>> \o ready /\ delaying' = delaying
      /\ requeues' = [requeues EXCEPT ![m.id] = @ + 1]
      /\ unacked' = [unacked EXCEPT ![w] = NoMessage]
  BY <1>1, <1>2 DEF GiveUp
<1>4. /\ ready \in Seq(Handed)
      /\ requeues \in [Ids -> 0 .. MaxRequeues] /\ m.id \in Ids
      /\ unacked \in [Workers -> Messages \cup {NoMessage}]
  BY MessageFacts DEF DelayInv, DelayTypeOK
<1>5. \A o : /\ o = m => {x \in {w} : unacked[x] = o} = {w}
             /\ o # m => {x \in {w} : unacked[x] = o} = {}
  BY <1>1
<1>6. \A id : /\ id = m.id => {x \in {w} : unacked[x].id = id} = {w}
              /\ id # m.id => {x \in {w} : unacked[x].id = id} = {}
  BY <1>1
<1>7. Cardinality({w}) = 1 /\ Cardinality({}) = 0
  BY FS_Singleton, FS_EmptySet
<1>8. \A o \in Messages : Counts["process"][o] = Copies(ready, o) /\ Copies(ready, o) \in Nat
  BY <1>4, PlacesAreFinite DEF Counts, CopiesOf
<1>9. CopiesOf(ready') = GivenBack(w)
  <2>1. CopiesOf(ready') =
           [o \in Messages |-> IF o = m THEN Copies(ready, o) + 1 ELSE Copies(ready, o)]
    BY <1>2, <1>3, <1>4, CopiesOfFront
  <2>2. ASSUME NEW o \in Messages
        PROVE  GivenBack(w)[o] = IF o = m THEN Copies(ready, o) + 1 ELSE Copies(ready, o)
    <3>1. GivenBack(w)[o] =
             Counts["process"][o] + Cardinality({x \in {w} : unacked[x] = o})
      BY SameMessages, SameCardinality DEF GivenBack
    <3>2. CASE o = m
      <4>1. {x \in {w} : unacked[x] = o} = {w}
        BY <1>5, <3>2
      <4>. QED BY <1>7, <1>8, <3>1, <3>2, <4>1
    <3>3. CASE o # m
      <4>1. {x \in {w} : unacked[x] = o} = {}
        BY <1>5, <3>3
      <4>2. GivenBack(w)[o] = Counts["process"][o] + 0
        BY <1>7, <3>1, <4>1
      <4>. QED BY <1>8, <3>3, <4>2
    <3>. QED BY <3>2, <3>3
  <2>3. GivenBack(w) = [o \in Messages |-> GivenBack(w)[o]]
    BY SameMessages DEF GivenBack
  <2>. QED BY <2>1, <2>2, <2>3
<1>10. requeues' = CountedAgain(w)
  <2>1. ASSUME NEW id \in Ids PROVE CountedAgain(w)[id] = requeues'[id]
    <3>1. CountedAgain(w)[id] =
             requeues[id] + Cardinality({x \in {w} : unacked[x].id = id})
      BY SameCardinality DEF CountedAgain
    <3>2. CASE id = m.id
      <4>1. {x \in {w} : unacked[x].id = id} = {w}
        BY <1>6, <3>2
      <4>. QED BY <1>3, <1>4, <1>7, <3>1, <3>2, <4>1
    <3>3. CASE id # m.id
      <4>1. {x \in {w} : unacked[x].id = id} = {}
        BY <1>6, <3>3
      <4>2. CountedAgain(w)[id] = requeues[id] + 0
        BY <1>7, <3>1, <4>1
      <4>. QED BY <1>3, <1>4, <3>3, <4>2
    <3>. QED BY <3>2, <3>3
  <2>2. /\ CountedAgain(w) = [id \in Ids |-> CountedAgain(w)[id]]
        /\ requeues' = [id \in Ids |-> requeues'[id]]
    BY <1>3, <1>4 DEF CountedAgain
  <2>. QED BY <2>1, <2>2
<1>11. unacked' = [x \in Workers |-> IF x \in {w} THEN NoMessage ELSE unacked[x]]
  BY <1>3, <1>4
<1>12. Counts' = [Counts EXCEPT !["process"] = GivenBack(w)]
  <2>1. PICK g : g = GivenBack(w)
    OBVIOUS
  <2>2. Counts' = [wait |-> CopiesOf(delaying["wait"]),
                   retry |-> CopiesOf(delaying["retry"]), process |-> g]
    BY <1>3, <1>9, <2>1 DEF Counts
  <2>. QED BY <2>1, <2>2 DEF Counts
<1>. QED BY <1>10, <1>11, <1>12

-----------------------------------------------------------------------------
(* First in first out, expirations and time are details: the queues of     *)
(* DelayQueue do nothing that the bag of MessageBroker, on which the model *)
(* of the whole system rests, does not do.                                 *)
THEOREM QueuesImplementBag == DelaySpec => ImplementsBag
<1>1. DelayInit => Bag!BrokerInit
  <2> SUFFICES ASSUME DelayInit PROVE Bag!BrokerInit
    OBVIOUS
  <2>1. \A m : Copies(<<>>, m) = 0
    <3>1. \A m : Places(<<>>, m) = {}
      BY DEF Places
    <3>. QED BY <3>1, FS_EmptySet DEF Copies, Places
  <2>2. CopiesOf(<<>>) = [m \in Messages |-> 0]
    BY <2>1 DEF CopiesOf
  <2>3. delaying["wait"] = <<>> /\ delaying["retry"] = <<>> /\ ready = <<>>
    BY DEF DelayInit, DelayQueues
  <2>4. Counts = [q \in Bag!Queues |-> [m \in Messages |-> 0]]
    BY <2>2, <2>3 DEF Counts, Bag!Queues
  <2>5. /\ unacked = [w \in Workers |-> NoMessage] /\ requeues = [id \in Ids |-> 0]
        /\ Counts = [q \in Bag!Queues |-> [m \in Bag!Messages |-> 0]]
    BY <2>4, SameMessages DEF DelayInit
  <2>. QED BY <2>5, SameMessages DEF Bag!BrokerInit, Counts, CopiesOf
<1>2. DelayInv /\ [DelayNext]_delayVars => [Bag!BrokerNext]_<<Bag!brokerVars, 0>>
  <2> SUFFICES ASSUME DelayInv, [DelayNext]_delayVars
               PROVE  [Bag!BrokerNext]_<<Bag!brokerVars, 0>>
    OBVIOUS
  <2>1. ASSUME Counts' = Counts, unacked' = unacked, requeues' = requeues
        PROVE  UNCHANGED Bag!brokerVars
    BY <2>1 DEF Bag!brokerVars, Counts, CopiesOf
  <2>2. CASE \E r \in Requests, id \in Ids, until \in Schedules :
                ComputeDelay(r, id, until)
    <3>1. UNCHANGED <<delaying, ready, unacked, requeues>>
      BY <2>2 DEF ComputeDelay, Draft
    <3>2. Counts' = Counts
      BY <3>1 DEF Counts
    <3>. QED BY <2>1, <3>1, <3>2
  <2>3. CASE \E r \in Requests : WriteMessage(r)
    <3>1. PICK m \in Messages : Counts' = [Counts EXCEPT !["wait"][m] = @ + 1]
      BY <2>3, WriteIsPublish
    <3>2. UNCHANGED <<unacked, requeues>>
      BY <2>3 DEF WriteMessage
    <3>3. Bag!Publish("api", "wait", m)
      BY <3>1, <3>2, SameMessages DEF Bag!Publish, Counts, CopiesOf
    <3>. QED BY <3>3, SameMessages, SameMessages DEF Bag!BrokerNext
  <2>4. CASE \E q \in DelayQueues : ExpireHead(q)
    <3>1. PICK q \in DelayQueues : ExpireHead(q)
      BY <2>4
    <3>2. PICK m \in Messages :
             /\ Counts[q][m] > 0
             /\ Counts' = [Counts EXCEPT ![q][m] = @ - 1, !["process"][m] = @ + 1]
      BY <3>1, ExpiryIsDeadLetter
    <3>3. UNCHANGED <<unacked, requeues>> /\ q # "process" /\ q \in Bag!Queues
      BY <3>1 DEF ExpireHead, DelayQueues, Bag!Queues
    <3>4. Bag!DeadLetter(q, m)
      BY <3>2, <3>3 DEF Bag!DeadLetter, Counts, CopiesOf
    <3>. QED BY <3>3, <3>4, SameMessages DEF Bag!BrokerNext
  <2>5. CASE Tick
    <3>1. Counts' = Counts
      BY <2>5, TickIsStutter
    <3>2. unacked' = unacked /\ requeues' = requeues
      BY <2>5 DEF Tick
    <3>. QED BY <2>1, <3>1, <3>2
  <2>6. ASSUME NEW w \in Workers, Take(w) PROVE Bag!BrokerNext
    <3>1. PICK m \in Messages :
             /\ Counts["process"][m] > 0
             /\ Counts' = [Counts EXCEPT !["process"][m] = @ - 1]
             /\ unacked' = [unacked EXCEPT ![w] = m]
      BY <2>6, TakeIsDeliver
    <3>2. unacked[w] = NoMessage /\ requeues' = requeues
      BY <2>6 DEF Take
    <3>3. Bag!Deliver(w, m)
      BY <3>1, <3>2, SameMessages DEF Bag!Deliver, Counts, CopiesOf
    <3>. QED BY <3>3, SameMessages DEF Bag!BrokerNext
  <2>7. ASSUME NEW w \in Workers, PublishRetry(w) PROVE Bag!BrokerNext
    <3>1. PICK m \in Messages : Counts' = [Counts EXCEPT !["retry"][m] = @ + 1]
      BY <2>7, RetryIsPublish
    <3>2. UNCHANGED <<unacked, requeues>>
      BY <2>7 DEF PublishRetry, Retry
    <3>3. Bag!Publish("worker", "retry", m)
      BY <3>1, <3>2, SameMessages DEF Bag!Publish, Counts, CopiesOf
    <3>. QED BY <3>3, SameMessages, SameMessages DEF Bag!BrokerNext
  <2>8. ASSUME NEW w \in Workers, Settle(w) PROVE Bag!BrokerNext
    <3>1. /\ unacked' = [unacked EXCEPT ![w] = NoMessage]
          /\ UNCHANGED <<delaying, ready, requeues>>
      BY <2>8 DEF Settle
    <3>2. Bag!Ack(w)
      BY <3>1, SameMessages DEF Bag!Ack
    <3>. QED BY <3>2, SameMessages DEF Bag!BrokerNext
  <2>9. ASSUME NEW w \in Workers, GiveUp(w) PROVE Bag!BrokerNext
    <3>1. /\ Counts' = [Counts EXCEPT !["process"] = GivenBack(w)]
          /\ requeues' = CountedAgain(w)
          /\ unacked' = [x \in Workers |-> IF x \in {w} THEN NoMessage ELSE unacked[x]]
      BY <2>9, GiveUpIsRequeue
    <3>2. unacked' = [x \in Workers |-> IF x \in {w} THEN Bag!NoMessage ELSE unacked[x]]
      BY <3>1, SameMessages
    <3>3. Bag!Requeue(w)
      BY <3>1, <3>2 DEF Bag!Requeue, Bag!GiveBack, GivenBack, CountedAgain, Counts, CopiesOf
    <3>. QED BY <3>3, SameMessages DEF Bag!BrokerNext
  <2>10. CASE UNCHANGED delayVars
    <3>1. UNCHANGED <<delaying, ready, unacked, requeues>>
      BY <2>10 DEF delayVars
    <3>2. Counts' = Counts
      BY <3>1 DEF Counts
    <3>. QED BY <2>1, <3>1, <3>2
  <2>. QED BY <2>2, <2>3, <2>4, <2>5, <2>6, <2>7, <2>8, <2>9, <2>10 DEF DelayNext
<1>3. 0 = 0
  OBVIOUS
<1>. QED BY <1>1, <1>2, <1>3, DelayInvariant, PTL DEF DelaySpec, ImplementsBag, Bag!BrokerSpec
=============================================================================
