---------------------------- MODULE ChannelProofs ----------------------------
(***************************************************************************)
(* The inductive invariant of the synchronization primitives, what parking *)
(* and waking do to the tasks and the wait queues, and the channel: its    *)
(* steps keep the invariant and are steps of a first-in first-out queue.   *)
(***************************************************************************)
EXTENDS Sync, TLAPS

-----------------------------------------------------------------------------
(* The inductive invariant                                                 *)

\* A wake is kept only for a task that is still on its stack, a running task
\* is in no call, and a parked one is; only a channel says CLOSED.
TaskOK(t) ==
    /\ wakePending[t] => executing[t] /\ state[t] = "WAITING"
    /\ executing[t] => state[t] \in {"RUNNING", "WAITING"}
    /\ state[t] = "RUNNING" => executing[t] /\ call[t] = "none"
    /\ state[t] = "WAITING" => call[t] # "none"
    /\ call[t] \in {"lock", "sem_wait", "group_wait"} => waitResult[t] = "OK"

TaskInv == TasksOK /\ \A t \in Tasks : TaskOK(t)

Queues ==
    /\ QueueOf("lock", mutexWaiters)
    /\ QueueOf("sem_wait", semWaiters)
    /\ QueueOf("group_wait", groupWaiters)
    /\ QueueOf("send", senders)
    /\ QueueOf("receive", receivers)

\* The owner is the one task inside, or a task whose lock call has not returned
\* yet, and such a task is in the queue or the owner.
MutexInv ==
    /\ MutexOK
    /\ \A t \in inside : owner = t
    /\ owner \in Tasks /\ owner \notin inside => call[owner] = "lock"
    /\ \A t \in Tasks : call[t] = "lock" /\ t \notin Elems(mutexWaiters)
                          => owner = t /\ t \notin inside
    /\ mutexWaiters # <<>> => owner # None /\ mutexAlive

SemInv ==
    /\ SemOK /\ Conservation
    /\ permits # 0 => semWaiters = <<>>
    /\ semWaiters # <<>> => semAlive

GroupInv ==
    /\ GroupOK
    /\ count = total
    /\ count = 0 => groupWaiters = <<>>
    /\ groupWaiters # <<>> => groupAlive
    /\ \A t \in Tasks : call[t] = "group_wait" /\ t \notin Elems(groupWaiters)
                          => zeroSeen[t]

\* The values that are in the buffer or with a receiver.
Stored == Elems(received) \cup Elems(Contents)

\* The value of a send that has not returned is its own; it is stored if and
\* only if the send has been served.
SenderOK(t) ==
    call[t] = "send" =>
       /\ mine[t] \in 1..sent /\ fate[mine[t]] = "pending"
       /\ t \in Elems(senders) => value[t] = mine[t] /\ mine[t] \notin Stored
       /\ t \notin Elems(senders) => (waitResult[t] = "OK" <=> mine[t] \in Stored)
       /\ \A u \in Tasks : call[u] = "send" /\ mine[u] = mine[t] => u = t

ReceiverOK(t) ==
    /\ call[t] = "receive" /\ t \notin Elems(receivers)
          => (waitResult[t] = "OK" <=> out[t] # None)
    /\ out[t] # None => call[t] = "receive" /\ t \notin Elems(receivers)

ValueOK(v) ==
    /\ fate[v] # "none" <=> v <= sent
    /\ fate[v] = "OK" => v \in Stored
    /\ fate[v] = "CLOSED" => v \notin Stored

WaitsOK ==
    /\ senders # <<>> => length = capacity /\ receivers = <<>>
    /\ receivers # <<>> => length = 0
    /\ senders # <<>> \/ receivers # <<>> => ~closed /\ chanAlive

ChanInv ==
    /\ ChannelOK /\ WaitsOK
    /\ capacity # 0 => head < capacity
    /\ Stored \subseteq 1..sent
    /\ \A v \in Values : ValueOK(v)
    /\ \A t \in Tasks : SenderOK(t) /\ ReceiverOK(t)

IInv == TaskInv /\ Queues /\ MutexInv /\ SemInv /\ GroupInv /\ ChanInv

-----------------------------------------------------------------------------
(* Sequences                                                               *)

\* The length and the elements of a sequence.
LEMMA SeqOf ==
    ASSUME NEW S, NEW s \in Seq(S)
    PROVE  /\ Len(s) \in Nat /\ DOMAIN s = 1..Len(s) /\ s \in [1..Len(s) -> S]
           /\ \A i \in 1..Len(s) : s[i] \in S
OBVIOUS

\* Concatenation.
LEMMA SeqConcat ==
    ASSUME NEW S, NEW s \in Seq(S), NEW t \in Seq(S)
    PROVE  /\ s \o t \in Seq(S) /\ Len(s \o t) = Len(s) + Len(t)
           /\ \A i \in 1..(Len(s) + Len(t)) :
                 (s \o t)[i] = IF i <= Len(s) THEN s[i] ELSE t[i - Len(s)]
OBVIOUS

\* An element at the end.
LEMMA SeqAppend ==
    ASSUME NEW S, NEW s \in Seq(S), NEW e \in S
    PROVE  /\ Append(s, e) \in Seq(S) /\ Len(Append(s, e)) = Len(s) + 1
           /\ \A i \in 1..Len(s) : Append(s, e)[i] = s[i]
           /\ Append(s, e)[Len(s) + 1] = e
OBVIOUS

\* The first element and the others.
LEMMA SeqTail ==
    ASSUME NEW S, NEW s \in Seq(S), s # <<>>
    PROVE  /\ Head(s) \in S /\ Head(s) = s[1] /\ Len(s) \in Nat \ {0}
           /\ Tail(s) \in Seq(S) /\ Len(Tail(s)) = Len(s) - 1
           /\ \A i \in 1..Len(Tail(s)) : Tail(s)[i] = s[i + 1]
OBVIOUS

\* Sequences with the same elements.
LEMMA SeqSame ==
    ASSUME NEW S, NEW s \in Seq(S), NEW t \in Seq(S), Len(s) = Len(t),
           \A i \in 1..Len(s) : s[i] = t[i]
    PROVE  s = t
OBVIOUS

\* A sequence over a set is one over a larger set.
LEMMA SeqWider ==
    ASSUME NEW S, NEW T, S \subseteq T
    PROVE  Seq(S) \subseteq Seq(T)
OBVIOUS

\* Two sequences one after the other: when one of them is empty, ...
LEMMA JoinedEmpty ==
    ASSUME NEW S, NEW c \in Seq(S), NEW b \in Seq(S)
    PROVE  (c = <<>> => c \o b = b) /\ (b = <<>> => c \o b = c)
OBVIOUS

\* ... the first of them, ...
LEMMA JoinedCut ==
    ASSUME NEW S, NEW c \in Seq(S), NEW b \in Seq(S)
    PROVE  SubSeq(c \o b, 1, Len(c)) = c
OBVIOUS

\* ... with one more element at the end, ...
LEMMA JoinedLast ==
    ASSUME NEW S, NEW c \in Seq(S), NEW b \in Seq(S), NEW v \in S
    PROVE  c \o Append(b, v) = Append(c \o b, v)
<1> DEFINE m == Len(c)
           n == Len(b)
           j == c \o b
           p == Append(b, v)
           l == c \o p
           r == Append(j, v)
<1>a. m \in Nat /\ n \in Nat
  OBVIOUS
<1>b. \A i \in 1..(m + n) : j[i] = IF i <= m THEN c[i] ELSE b[i - m]
  OBVIOUS
<1>c. j \in Seq(S) /\ Len(j) = m + n
  OBVIOUS
<1>1. p \in Seq(S) /\ Len(p) = n + 1
  OBVIOUS
<1>2. p[n + 1] = v /\ \A i \in 1..n : p[i] = b[i]
  OBVIOUS
<1> HIDE DEF p
<1>3. Len(l) = m + (n + 1)
  BY <1>1
<1>4. \A i \in 1..(m + (n + 1)) : l[i] = IF i <= m THEN c[i] ELSE p[i - m]
  BY <1>1
<1> HIDE DEF j
<1>5. Len(r) = m + n + 1
  BY <1>c
<1>6. r[m + n + 1] = v /\ \A i \in 1..(m + n) : r[i] = j[i]
  BY <1>c
<1>7. l \in Seq(S) /\ r \in Seq(S)
  BY <1>c, <1>1
<1> HIDE DEF l, r, m, n
<1>8. \A i \in 1..(m + n + 1) : l[i] = r[i]
  BY <1>a, <1>b, <1>2, <1>4, <1>6
<1>9. Len(l) = Len(r) /\ \A i \in 1..Len(l) : l[i] = r[i]
  BY <1>a, <1>3, <1>5, <1>8
<1>10. l = r
  BY Zenon, <1>7, <1>9, SeqSame
<1> QED
  BY Zenon, <1>10 DEF l, r, p, j

\* ... without the first element, ...
LEMMA JoinedFirst ==
    ASSUME NEW S, NEW c \in Seq(S), NEW b \in Seq(S), c # <<>>
    PROVE  Tail(c \o b) = Tail(c) \o b /\ Head(c \o b) = Head(c) /\ c \o b # <<>>
<1> DEFINE m == Len(c)
           n == Len(b)
           j == c \o b
           d == Tail(c)
           l == Tail(j)
           r == d \o b
<1>a. m \in Nat /\ n \in Nat
  OBVIOUS
<1>b. \A i \in 1..(m + n) : j[i] = IF i <= m THEN c[i] ELSE b[i - m]
  OBVIOUS
<1>c. j \in Seq(S) /\ Len(j) = m + n
  OBVIOUS
<1>1. d \in Seq(S) /\ Len(d) = m - 1
  OBVIOUS
<1>2. m # 0 /\ \A i \in 1..(m - 1) : d[i] = c[i + 1]
  OBVIOUS
<1> HIDE DEF d
<1>3. Len(r) = (m - 1) + n
  BY <1>1
<1>4. \A i \in 1..((m - 1) + n) : r[i] = IF i <= m - 1 THEN d[i] ELSE b[i - (m - 1)]
  BY <1>1
<1> HIDE DEF j
<1>5. j # <<>>
  BY <1>a, <1>c, <1>2
<1>6. Len(l) = m + n - 1
  BY <1>c, <1>5
<1>7. \A i \in 1..(m + n - 1) : l[i] = j[i + 1]
  BY <1>c, <1>5
<1>8. l \in Seq(S) /\ r \in Seq(S)
  BY <1>c, <1>1, <1>5
<1>9. Head(j) = j[1] /\ Head(c) = c[1]
  BY <1>c, <1>5
<1> HIDE DEF l, r, m, n
<1>10. j[1] = c[1]
  BY <1>a, <1>b, <1>2
<1>11. \A i \in 1..(m + n - 1) : l[i] = r[i]
  BY <1>a, <1>b, <1>2, <1>4, <1>7
<1>12. Len(l) = Len(r) /\ \A i \in 1..Len(l) : l[i] = r[i]
  BY <1>a, <1>3, <1>6, <1>11
<1>13. l = r
  BY Zenon, <1>8, <1>12, SeqSame
<1> QED
  BY Zenon, <1>5, <1>9, <1>10, <1>13 DEF l, r, d, j

\* ... and when an element moves from the second to the first.
LEMMA JoinedMove ==
    ASSUME NEW S, NEW c \in Seq(S), NEW b \in Seq(S), b # <<>>
    PROVE  Append(c, Head(b)) \o Tail(b) = c \o b
<1> DEFINE m == Len(c)
           n == Len(b)
           j == c \o b
           a == Append(c, Head(b))
           t == Tail(b)
           l == a \o t
<1>a. m \in Nat /\ n \in Nat
  OBVIOUS
<1>b. \A i \in 1..(m + n) : j[i] = IF i <= m THEN c[i] ELSE b[i - m]
  OBVIOUS
<1>c. j \in Seq(S) /\ Len(j) = m + n
  OBVIOUS
<1>1. Head(b) \in S /\ Head(b) = b[1] /\ t \in Seq(S) /\ Len(t) = n - 1
  OBVIOUS
<1>2. n # 0 /\ \A i \in 1..(n - 1) : t[i] = b[i + 1]
  OBVIOUS
<1>3. a \in Seq(S) /\ Len(a) = m + 1
  BY <1>1
<1>4. a[m + 1] = b[1] /\ \A i \in 1..m : a[i] = c[i]
  BY <1>1
<1> HIDE DEF a, t
<1>e. a \in Seq(S) /\ t \in Seq(S)
  BY Zenon, <1>1, <1>3
<1>5. l \in Seq(S) /\ Len(l) = Len(a) + Len(t)
  BY <1>e
<1>6. \A i \in 1..(Len(a) + Len(t)) : l[i] = IF i <= Len(a) THEN a[i] ELSE t[i - Len(a)]
  BY <1>e
<1>7. Len(a) = m + 1 /\ Len(t) = n - 1 /\ Len(l) = Len(a) + Len(t)
  BY Zenon, <1>1, <1>3, <1>5
<1> HIDE DEF l, j, m, n
<1>8. \A i \in 1..(m + n) : l[i] = j[i]
  <2>1. ASSUME NEW i \in 1..m PROVE l[i] = c[i] /\ j[i] = c[i]
    BY <1>a, <1>b, <1>2, <1>4, <1>6, <1>7
  <2>2. l[m + 1] = b[1] /\ j[m + 1] = b[1]
    BY <1>a, <1>b, <1>2, <1>4, <1>6, <1>7
  <2>3. ASSUME NEW i \in (m + 2)..(m + n) PROVE l[i] = b[i - m] /\ j[i] = b[i - m]
    <3>1. /\ i \in 1..(m + n) /\ ~(i <= m) /\ i \in 1..((m + 1) + (n - 1))
          /\ ~(i <= m + 1) /\ i - (m + 1) \in 1..(n - 1) /\ (i - (m + 1)) + 1 = i - m
      BY <1>a
    <3>2. j[i] = b[i - m]
      BY Zenon, <1>b, <3>1
    <3>3. l[i] = t[i - (m + 1)]
      BY Zenon, <1>6, <1>7, <3>1
    <3>4. t[i - (m + 1)] = b[i - m]
      BY Zenon, <1>2, <3>1
    <3> QED
      BY Zenon, <3>2, <3>3, <3>4
  <2>4. \A i \in 1..(m + n) : i \in 1..m \/ i = m + 1 \/ i \in (m + 2)..(m + n)
    BY <1>a
  <2> QED
    BY Zenon, <2>1, <2>2, <2>3, <2>4
<1>9. Len(j) = m + n
  BY Zenon, <1>c
<1>10. Len(l) = Len(j) /\ \A i \in 1..Len(l) : l[i] = j[i]
  BY <1>a, <1>7, <1>8, <1>9
<1>11. l = j
  BY Zenon, <1>c, <1>5, <1>10, SeqSame
<1> QED
  BY Zenon, <1>11 DEF l, j, a, t

\* The elements of a joined sequence.
LEMMA JoinedElems ==
    ASSUME NEW V, NEW c \in Seq(V), NEW b \in Seq(V)
    PROVE  Elems(c \o b) = Elems(c) \cup Elems(b)
<1> DEFINE S == c \o b
<1>1. /\ S \in Seq(V) /\ Len(S) = Len(c) + Len(b)
      /\ \A i \in 1..(Len(c) + Len(b)) :
            S[i] = IF i <= Len(c) THEN c[i] ELSE b[i - Len(c)]
  BY Zenon, SeqConcat
<1>2. /\ DOMAIN c = 1..Len(c) /\ DOMAIN b = 1..Len(b)
      /\ DOMAIN S = 1..(Len(c) + Len(b)) /\ Len(c) \in Nat /\ Len(b) \in Nat
  BY Zenon, <1>1, SeqOf
<1> HIDE DEF S
<1>3. ASSUME NEW i \in DOMAIN S PROVE S[i] \in Elems(c) \cup Elems(b)
  <2>1. CASE i <= Len(c)
    <3>1. i \in DOMAIN c /\ S[i] = c[i]
      BY <1>1, <1>2, <2>1
    <3> QED
      BY Zenon, <3>1 DEF Elems
  <2>2. CASE ~(i <= Len(c))
    <3>1. i - Len(c) \in DOMAIN b /\ S[i] = b[i - Len(c)]
      BY <1>1, <1>2, <2>2
    <3> QED
      BY Zenon, <3>1 DEF Elems
  <2> QED
    BY Zenon, <2>1, <2>2
<1>4. ASSUME NEW i \in DOMAIN c PROVE c[i] \in Elems(S)
  <2>1. i \in DOMAIN S /\ S[i] = c[i]
    BY <1>1, <1>2
  <2> QED
    BY Zenon, <2>1 DEF Elems
<1>5. ASSUME NEW i \in DOMAIN b PROVE b[i] \in Elems(S)
  <2>1. i + Len(c) \in DOMAIN S /\ S[i + Len(c)] = b[i]
    BY <1>1, <1>2
  <2> QED
    BY Zenon, <2>1 DEF Elems
<1>6. Elems(S) = Elems(c) \cup Elems(b)
  BY Zenon, <1>3, <1>4, <1>5 DEF Elems
<1> QED
  BY Zenon, <1>6 DEF S

\* A sequence with an element in front.
LEMMA Front ==
    ASSUME NEW S, NEW x \in S, NEW q \in Seq(S)
    PROVE  <<x>> \o q # <<>> /\ Head(<<x>> \o q) = x /\ Tail(<<x>> \o q) = q
<1>1. <<x>> \in Seq(S) /\ <<x>> # <<>> /\ Head(<<x>>) = x /\ Tail(<<x>>) = <<>>
  OBVIOUS
<1>2. <<>> \in Seq(S) /\ <<>> \o q = q
  BY JoinedEmpty
<1> DEFINE o == <<x>>
<1>3. o \in Seq(S) /\ o # <<>> /\ Head(o) = x /\ Tail(o) = <<>>
  BY Zenon, <1>1
<1> HIDE DEF o
<1>4. Tail(o \o q) = Tail(o) \o q /\ Head(o \o q) = Head(o) /\ o \o q # <<>>
  BY Zenon, <1>3, JoinedFirst
<1>5. o \o q # <<>> /\ Head(o \o q) = x /\ Tail(o \o q) = q
  BY Zenon, <1>2, <1>3, <1>4
<1> QED
  BY Zenon, <1>5 DEF o

\* ... and another one at its end, ...
LEMMA FrontAppend ==
    ASSUME NEW S, NEW x \in S, NEW q \in Seq(S), NEW y \in S
    PROVE  <<x>> \o Append(q, y) = Append(<<x>> \o q, y)
<1> DEFINE o == <<x>>
<1>1. o \in Seq(S)
  OBVIOUS
<1> HIDE DEF o
<1>2. o \o Append(q, y) = Append(o \o q, y)
  BY <1>1, JoinedLast
<1> QED
  BY Zenon, <1>2 DEF o

\* ... and its elements.
LEMMA FrontElems ==
    ASSUME NEW S, NEW x \in S, NEW q \in Seq(S),
           NEW y, y # x, y \notin Elems(q)
    PROVE  y \notin Elems(<<x>> \o q)
<1> DEFINE o == <<x>>
<1>1. o \in Seq(S) /\ DOMAIN o = {1} /\ o[1] = x
  OBVIOUS
<1> HIDE DEF o
<1>2. Elems(o \o q) = Elems(o) \cup Elems(q)
  BY <1>1, JoinedElems
<1>3. Elems(o) = {x}
  BY Zenon, <1>1 DEF Elems
<1> QED
  BY Zenon, <1>2, <1>3 DEF o

\* A sequence put together from its first element and the others.
LEMMA Rejoin ==
    ASSUME NEW S, NEW q \in Seq(S), q # <<>>
    PROVE  <<Head(q)>> \o Tail(q) = q
<1>1. <<>> \in Seq(S) /\ <<>> \o q = q
  BY JoinedEmpty
<1>2. Append(<<>>, Head(q)) \o Tail(q) = <<>> \o q
  BY Zenon, <1>1, JoinedMove
<1>3. Append(<<>>, Head(q)) = <<Head(q)>>
  OBVIOUS
<1> QED
  BY Zenon, <1>1, <1>2, <1>3

-----------------------------------------------------------------------------
(* Wait queues                                                             *)

\* An empty queue has no entry, and a queue with no entry is empty.
LEMMA EmptyQueue ==
    /\ Elems(<<>>) = {} /\ WaitQueue(<<>>)
    /\ \A q : q \in Seq(Tasks) /\ Elems(q) = {} => q = <<>>
<1>1. Elems(<<>>) = {} /\ WaitQueue(<<>>)
  BY DEF Elems, WaitQueue
<1>2. ASSUME NEW q \in Seq(Tasks), q # <<>>
      PROVE  Elems(q) # {}
  <2>1. 1 \in DOMAIN q
    BY <1>2
  <2> QED
    BY Zenon, <2>1 DEF Elems
<1> QED
  BY Zenon, <1>1, <1>2

\* A task that joins a queue is its last entry.
LEMMA JoinQueue ==
    ASSUME NEW q, WaitQueue(q), NEW t \in Tasks
    PROVE  /\ Elems(Append(q, t)) = Elems(q) \cup {t}
           /\ Append(q, t) # <<>>
           /\ t \notin Elems(q) => WaitQueue(Append(q, t))
<1>1. q \in Seq(Tasks)
  BY Zenon DEF WaitQueue
<1>2. /\ Append(q, t) \in Seq(Tasks) /\ Len(Append(q, t)) = Len(q) + 1
      /\ \A i \in 1..Len(q) : Append(q, t)[i] = q[i]
      /\ Append(q, t)[Len(q) + 1] = t
  BY <1>1
<1>3. DOMAIN q = 1..Len(q) /\ DOMAIN Append(q, t) = 1..(Len(q) + 1)
  BY <1>1, <1>2
<1>4. Elems(Append(q, t)) = Elems(q) \cup {t}
  BY <1>1, <1>2, <1>3 DEF Elems
<1>5. t \notin Elems(q) => WaitQueue(Append(q, t))
  BY <1>1, <1>2, <1>3 DEF Elems, WaitQueue
<1> QED
  BY <1>2, <1>4, <1>5

\* The first entry of a queue leaves it, and the others stay.
LEMMA LeaveQueue ==
    ASSUME NEW q, WaitQueue(q), q # <<>>
    PROVE  /\ Head(q) \in Tasks /\ Head(q) \in Elems(q)
           /\ Elems(Tail(q)) = Elems(q) \ {Head(q)}
           /\ WaitQueue(Tail(q))
<1>1. q \in Seq(Tasks) /\ \A i, j \in DOMAIN q : q[i] = q[j] => i = j
  BY Zenon DEF WaitQueue
<1>2. /\ Tail(q) \in Seq(Tasks) /\ Len(Tail(q)) = Len(q) - 1
      /\ \A i \in 1..(Len(q) - 1) : Tail(q)[i] = q[i + 1]
      /\ Head(q) = q[1] /\ Len(q) \in Nat \ {0}
  BY <1>1
<1>3. DOMAIN q = 1..Len(q) /\ DOMAIN Tail(q) = 1..(Len(q) - 1)
  BY <1>1, <1>2
<1>4. Head(q) \in Tasks /\ Head(q) \in Elems(q)
  BY <1>1, <1>2, <1>3 DEF Elems
<1>5. Elems(Tail(q)) = Elems(q) \ {Head(q)}
  <2>1. ASSUME NEW x \in Elems(Tail(q))
        PROVE  x \in Elems(q) \ {Head(q)}
    <3>1. PICK i \in 1..(Len(q) - 1) : x = q[i + 1]
      BY Zenon, <2>1, <1>2, <1>3 DEF Elems
    <3> QED
      BY <3>1, <1>1, <1>2, <1>3 DEF Elems
  <2>2. ASSUME NEW x \in Elems(q), x # Head(q)
        PROVE  x \in Elems(Tail(q))
    <3>1. PICK i \in 1..Len(q) : x = q[i]
      BY Zenon, <2>2, <1>3 DEF Elems
    <3>2. i - 1 \in 1..(Len(q) - 1) /\ Tail(q)[i - 1] = x
      BY <3>1, <2>2, <1>2
    <3> QED
      BY Zenon, <3>2, <1>3 DEF Elems
  <2> QED
    BY Zenon, <2>1, <2>2
<1>6. WaitQueue(Tail(q))
  <2>1. ASSUME NEW i \in DOMAIN Tail(q), NEW j \in DOMAIN Tail(q),
               Tail(q)[i] = Tail(q)[j]
        PROVE  i = j
    <3>1. q[i + 1] = q[j + 1] /\ i + 1 \in DOMAIN q /\ j + 1 \in DOMAIN q
      BY <2>1, <1>2, <1>3
    <3> QED
      BY <3>1, <1>1, <1>2, <1>3
  <2> QED
    BY Zenon, <2>1, <1>2 DEF WaitQueue
<1> QED
  BY Zenon, <1>4, <1>5, <1>6

-----------------------------------------------------------------------------
(* Parking, waking, resuming: what they do to the tasks and to a queue     *)

\* vl_sync_park_locked takes a task that is in no queue.
LEMMA ParkTask ==
    ASSUME TaskInv, NEW t \in Tasks, NEW c \in Calls \ {"none"}, Park(t, c)
    PROVE  /\ TaskInv'
           /\ call[t] = "none" /\ ~Woken(t) /\ call'[t] = c
           /\ waitResult'[t] = "OK"
           /\ \A u \in Tasks \ {t} : call'[u] = call[u] /\ waitResult'[u] = waitResult[u]
<1>1. TasksOK'
  BY Zenon DEF TaskInv, TasksOK, Park
<1>2. ASSUME NEW u \in Tasks PROVE TaskOK(u)'
  BY Zenon DEF TaskInv, TasksOK, TaskOK, Park, Calls
<1>3. /\ call[t] = "none" /\ ~Woken(t) /\ call'[t] = c /\ waitResult'[t] = "OK"
      /\ \A u \in Tasks \ {t} : call'[u] = call[u] /\ waitResult'[u] = waitResult[u]
  BY Zenon DEF TaskInv, TasksOK, TaskOK, Park, Woken
<1> QED
  BY Zenon, <1>1, <1>2, <1>3 DEF TaskInv

\* The parked task joins the queue of its call; the other queues stay.
LEMMA ParkQueue ==
    ASSUME TaskInv, NEW t \in Tasks, NEW c \in Calls \ {"none"}, Park(t, c),
           NEW d \in Calls \ {"none"}, NEW q, WaitQueue(q), QueueOf(d, q)
    PROVE  /\ t \notin Elems(q)
           /\ d = c => QueueOf(d, Append(q, t))'
           /\ d # c => QueueOf(d, q)'
<1>1. t \notin Elems(q) /\ Elems(q) \subseteq Tasks
  BY ParkTask DEF QueueOf, WaitQueue, Elems
<1>2. /\ call[t] = "none" /\ call'[t] = c /\ state'[t] = "WAITING"
      /\ wakePending'[t] = FALSE /\ executing'[t]
      /\ \A u \in Tasks \ {t} : /\ call'[u] = call[u] /\ state'[u] = state[u]
                                /\ wakePending'[u] = wakePending[u]
                                /\ executing'[u] = executing[u]
  BY Zenon DEF TaskInv, TasksOK, TaskOK, Park
<1>3. CASE d = c
  <2>1. Elems(Append(q, t)) = Elems(q) \cup {t}
    BY Zenon, JoinQueue
  <2>2. QueueOf(d, Append(q, t))'
    BY ZenonT(30), <1>1, <1>2, <1>3, <2>1 DEF QueueOf, Woken
  <2> QED
    BY Zenon, <1>1, <1>3, <2>2
<1>4. CASE d # c
  <2>1. QueueOf(d, q)'
    BY Zenon, <1>1, <1>2, <1>4 DEF QueueOf, Woken
  <2> QED
    BY Zenon, <1>1, <1>4, <2>1
<1> QED
  BY Zenon, <1>3, <1>4

\* vl_task_wake_locked changes the results of the tasks it wakes and no call.
LEMMA WakeTasks ==
    ASSUME TaskInv, NEW W \in SUBSET Tasks, NEW r \in {"OK", "CLOSED"}, Wake(W, r),
           r = "CLOSED" => \A t \in W : call[t] \in {"send", "receive"}
    PROVE  /\ TaskInv' /\ call' = call
           /\ \A t \in W : waitResult'[t] = r
           /\ \A t \in Tasks \ W : waitResult'[t] = waitResult[t]
<1>1. TasksOK'
  BY Zenon DEF TaskInv, TasksOK, Wake
<1>2. ASSUME NEW u \in Tasks PROVE TaskOK(u)'
  BY Zenon DEF TaskInv, TasksOK, TaskOK, Wake
<1>3. /\ call' = call
      /\ \A t \in W : waitResult'[t] = r
      /\ \A t \in Tasks \ W : waitResult'[t] = waitResult[t]
  BY Zenon DEF Wake
<1> QED
  BY Zenon, <1>1, <1>2, <1>3 DEF TaskInv

\* The woken tasks leave the queue; a queue that holds none of them stays.
LEMMA WakeQueue ==
    ASSUME TaskInv, NEW W \in SUBSET Tasks, NEW r, Wake(W, r),
           NEW c \in Calls \ {"none"}, NEW q, WaitQueue(q), QueueOf(c, q),
           NEW p, Elems(p) = Elems(q) \ W
    PROVE  QueueOf(c, p)'
<1>1. Elems(q) \subseteq Tasks
  BY DEF WaitQueue, Elems
<1>2. call' = call /\ executing' = executing
  BY Zenon DEF Wake
<1>3. ASSUME NEW t \in Tasks, t \notin W
      PROVE  state'[t] = state[t] /\ wakePending'[t] = wakePending[t]
  BY Zenon, <1>3 DEF TaskInv, TasksOK, Wake
<1>4. ASSUME NEW t \in Tasks, t \in W, state'[t] = "WAITING"
      PROVE  wakePending'[t]
  BY Zenon, <1>4 DEF TaskInv, TasksOK, Wake
<1> QED
  BY Zenon, <1>1, <1>2, <1>3, <1>4 DEF QueueOf, Woken

\* A worker resumes a task: its call has returned, and it is in no queue.
LEMMA ResumeKeeps ==
    ASSUME TaskInv, NEW t \in Tasks, ResumeTask(t)
    PROVE  /\ TaskInv' /\ Woken(t)
           /\ call'[t] = "none" /\ waitResult' = waitResult
           /\ \A u \in Tasks \ {t} : call'[u] = call[u]
           /\ \A c \in Calls \ {"none"} : \A q : WaitQueue(q) /\ QueueOf(c, q)
                 => t \notin Elems(q) /\ QueueOf(c, q)'
<1>1. TasksOK'
  BY Zenon DEF TaskInv, TasksOK, ResumeTask, Calls
<1>2. ASSUME NEW u \in Tasks PROVE TaskOK(u)'
  BY Zenon DEF TaskInv, TasksOK, TaskOK, ResumeTask
<1>3. /\ Woken(t) /\ call'[t] = "none" /\ waitResult' = waitResult
      /\ state'[t] = "RUNNING" /\ wakePending' = wakePending
      /\ \A u \in Tasks \ {t} : /\ call'[u] = call[u] /\ state'[u] = state[u]
                                /\ executing'[u] = executing[u]
  BY Zenon DEF TaskInv, TasksOK, ResumeTask, Woken
<1>4. ASSUME NEW c \in Calls \ {"none"}, NEW q, WaitQueue(q), QueueOf(c, q)
      PROVE  t \notin Elems(q) /\ QueueOf(c, q)'
  <2>1. t \notin Elems(q) /\ Elems(q) \subseteq Tasks
    BY <1>3, <1>4 DEF QueueOf, WaitQueue, Elems
  <2> QED
    BY Zenon, <1>3, <1>4, <2>1 DEF QueueOf, Woken
<1> QED
  BY Zenon, <1>1, <1>2, <1>3, <1>4 DEF TaskInv

\* vl_yield, the end of a resume and vl_task_cancel_all touch no queue.
LEMMA WorkerKeeps ==
    ASSUME TaskInv, (\E t \in Tasks : YieldTask(t) \/ LeaveTask(t)) \/ CancelTasks
    PROVE  /\ TaskInv' /\ call' = call /\ waitResult' = waitResult
           /\ \A c \in Calls \ {"none"} : \A q : WaitQueue(q) /\ QueueOf(c, q)
                 => QueueOf(c, q)'
<1>1. CASE \E t \in Tasks : YieldTask(t)
  <2>1. PICK t \in Tasks : YieldTask(t)
    BY Zenon, <1>1
  <2>2. TasksOK' /\ call' = call /\ waitResult' = waitResult
    BY Zenon, <2>1 DEF TaskInv, TasksOK, YieldTask
  <2>3. ASSUME NEW u \in Tasks PROVE TaskOK(u)'
    BY Zenon, <2>1 DEF TaskInv, TasksOK, TaskOK, YieldTask
  <2>4. /\ call[t] = "none" /\ wakePending' = wakePending
        /\ \A u \in Tasks \ {t} : state'[u] = state[u] /\ executing'[u] = executing[u]
    BY Zenon, <2>1 DEF TaskInv, TasksOK, TaskOK, YieldTask
  <2>5. ASSUME NEW c \in Calls \ {"none"}, NEW q, WaitQueue(q), QueueOf(c, q)
        PROVE  QueueOf(c, q)'
    BY <2>2, <2>4, <2>5 DEF QueueOf, Woken, WaitQueue, Elems
  <2> QED
    BY Zenon, <2>2, <2>3, <2>5 DEF TaskInv
<1>2. CASE \E t \in Tasks : LeaveTask(t)
  <2>1. PICK t \in Tasks : LeaveTask(t)
    BY Zenon, <1>2
  <2>2. TasksOK' /\ call' = call /\ waitResult' = waitResult
    BY Zenon, <2>1 DEF TaskInv, TasksOK, LeaveTask
  <2>3. ASSUME NEW u \in Tasks PROVE TaskOK(u)'
    BY Zenon, <2>1 DEF TaskInv, TasksOK, TaskOK, LeaveTask
  <2>4. /\ \A u \in Tasks \ {t} : /\ state'[u] = state[u]
                                  /\ executing'[u] = executing[u]
                                  /\ wakePending'[u] = wakePending[u]
        /\ ~executing'[t] /\ ~wakePending'[t] /\ executing[t] /\ state[t] = "WAITING"
        /\ state'[t] = IF wakePending[t] THEN "RUNNABLE" ELSE "WAITING"
    BY Zenon, <2>1 DEF TaskInv, TasksOK, TaskOK, LeaveTask
  <2>5. ASSUME NEW c \in Calls \ {"none"}, NEW q, WaitQueue(q), QueueOf(c, q)
        PROVE  QueueOf(c, q)'
    BY <2>2, <2>4, <2>5 DEF QueueOf, Woken, WaitQueue, Elems
  <2> QED
    BY Zenon, <2>2, <2>3, <2>5 DEF TaskInv
<1>3. CASE CancelTasks
  <2>1. TasksOK' /\ call' = call /\ waitResult' = waitResult
    BY Zenon, <1>3 DEF TaskInv, TasksOK, CancelTasks
  <2>2. ASSUME NEW u \in Tasks PROVE TaskOK(u)'
    BY Zenon, <1>3 DEF TaskInv, TasksOK, TaskOK, CancelTasks
  <2>3. ASSUME NEW c \in Calls \ {"none"}, NEW q, WaitQueue(q), QueueOf(c, q)
        PROVE  QueueOf(c, q)'
    BY <1>3, <2>1, <2>3 DEF QueueOf, Woken, WaitQueue, Elems, CancelTasks
  <2> QED
    BY Zenon, <2>1, <2>2, <2>3 DEF TaskInv
<1> QED
  BY Zenon, <1>1, <1>2, <1>3

-----------------------------------------------------------------------------
(* The five queues together                                                *)

\* Each wait queue links each of its tasks once.
LEMMA QueueTypes ==
    ASSUME IInv
    PROVE  /\ WaitQueue(mutexWaiters) /\ WaitQueue(semWaiters) /\ WaitQueue(groupWaiters)
           /\ WaitQueue(senders) /\ WaitQueue(receivers)
BY Zenon DEF IInv, MutexInv, MutexOK, SemInv, SemOK, GroupInv, GroupOK,
   ChanInv, ChannelOK

\* A queued task is in the call of its queue.
LEMMA QueuedCalls ==
    ASSUME IInv
    PROVE  /\ \A t \in Elems(mutexWaiters) : call[t] = "lock"
           /\ \A t \in Elems(semWaiters) : call[t] = "sem_wait"
           /\ \A t \in Elems(groupWaiters) : call[t] = "group_wait"
           /\ \A t \in Elems(senders) : call[t] = "send"
           /\ \A t \in Elems(receivers) : call[t] = "receive"
BY Zenon DEF IInv, Queues, QueueOf

\* A park changes the queue of its call only.
LEMMA ParkQueues ==
    ASSUME IInv, NEW t \in Tasks, NEW c \in Calls \ {"none"}, Park(t, c),
           mutexWaiters' = IF c = "lock" THEN Append(mutexWaiters, t) ELSE mutexWaiters,
           semWaiters' = IF c = "sem_wait" THEN Append(semWaiters, t) ELSE semWaiters,
           groupWaiters' = IF c = "group_wait" THEN Append(groupWaiters, t)
                                               ELSE groupWaiters,
           senders' = IF c = "send" THEN Append(senders, t) ELSE senders,
           receivers' = IF c = "receive" THEN Append(receivers, t) ELSE receivers
    PROVE  Queues'
<1> USE DEF Calls
<1>0. TaskInv /\ Queues
  BY Zenon DEF IInv
<1>1. QueueOf("lock", mutexWaiters)'
  BY Zenon, <1>0, QueueTypes, ParkQueue DEF Queues
<1>2. QueueOf("sem_wait", semWaiters)'
  BY Zenon, <1>0, QueueTypes, ParkQueue DEF Queues
<1>3. QueueOf("group_wait", groupWaiters)'
  BY Zenon, <1>0, QueueTypes, ParkQueue DEF Queues
<1>4. QueueOf("send", senders)'
  BY Zenon, <1>0, QueueTypes, ParkQueue DEF Queues
<1>5. QueueOf("receive", receivers)'
  BY Zenon, <1>0, QueueTypes, ParkQueue DEF Queues
<1> QED
  BY Zenon, <1>1, <1>2, <1>3, <1>4, <1>5 DEF Queues

\* A wake takes the woken tasks from the queues.
LEMMA WakeQueues ==
    ASSUME IInv, NEW W \in SUBSET Tasks, NEW r, Wake(W, r),
           Elems(mutexWaiters') = Elems(mutexWaiters) \ W,
           Elems(semWaiters') = Elems(semWaiters) \ W,
           Elems(groupWaiters') = Elems(groupWaiters) \ W,
           Elems(senders') = Elems(senders) \ W,
           Elems(receivers') = Elems(receivers) \ W
    PROVE  Queues'
<1> USE DEF Calls
<1>0. TaskInv /\ Queues
  BY Zenon DEF IInv
<1>1. QueueOf("lock", mutexWaiters)'
  BY Zenon, <1>0, QueueTypes, WakeQueue DEF Queues
<1>2. QueueOf("sem_wait", semWaiters)'
  BY Zenon, <1>0, QueueTypes, WakeQueue DEF Queues
<1>3. QueueOf("group_wait", groupWaiters)'
  BY Zenon, <1>0, QueueTypes, WakeQueue DEF Queues
<1>4. QueueOf("send", senders)'
  BY Zenon, <1>0, QueueTypes, WakeQueue DEF Queues
<1>5. QueueOf("receive", receivers)'
  BY Zenon, <1>0, QueueTypes, WakeQueue DEF Queues
<1> QED
  BY Zenon, <1>1, <1>2, <1>3, <1>4, <1>5 DEF Queues

\* No call of C starts, ends or gets another result.
Untouched(C) ==
    \A t \in Tasks : \/ call'[t] = call[t] /\ waitResult'[t] = waitResult[t]
                     \/ call[t] \notin C /\ call'[t] \notin C

\* A step of the others leaves the mutex alone.
LEMMA MutexKept ==
    ASSUME MutexInv, UNCHANGED mutexVars, Untouched({"lock"})
    PROVE  MutexInv'
<1>1. MutexOK'
  BY Zenon DEF MutexInv, MutexOK, mutexVars
<1> QED
  BY Zenon, <1>1 DEF MutexInv, MutexOK, mutexVars, Untouched

\* A step of the others leaves the semaphore alone.
LEMMA SemKept ==
    ASSUME SemInv, UNCHANGED semVars, Untouched({"sem_wait"})
    PROVE  SemInv'
<1>1. \A t \in Tasks : call'[t] = "sem_wait" <=> call[t] = "sem_wait"
  BY Zenon DEF Untouched
<1>2. {t \in Tasks : call'[t] = "sem_wait" /\ t \notin Elems(semWaiters)}
        = {t \in Tasks : call[t] = "sem_wait" /\ t \notin Elems(semWaiters)}
  BY Zenon, <1>1
<1>3. Conservation'
  BY Zenon, <1>2 DEF SemInv, Conservation, semVars
<1> QED
  BY Zenon, <1>3 DEF SemInv, SemOK, semVars

\* A step of the others leaves the wait group alone.
LEMMA GroupKept ==
    ASSUME GroupInv, UNCHANGED groupVars, Untouched({"group_wait"})
    PROVE  GroupInv'
<1>1. GroupOK'
  BY Zenon DEF GroupInv, GroupOK, groupVars
<1> QED
  BY Zenon, <1>1 DEF GroupInv, groupVars, Untouched

\* A step of the others leaves the channel alone.
LEMMA ChanKept ==
    ASSUME ChanInv, UNCHANGED chanVars, Untouched({"send", "receive"})
    PROVE  ChanInv'
<1>1. UNCHANGED bufVars /\ UNCHANGED waitVars /\ UNCHANGED history
      /\ UNCHANGED <<closed, senders, receivers, chanAlive>>
  BY Zenon DEF chanVars
<1>2. Stored' = Stored
  BY Zenon, <1>1 DEF Stored, Contents, bufVars, history
<1>3. ChannelOK' /\ WaitsOK'
  BY Zenon, <1>1 DEF ChanInv, ChannelOK, WaitsOK, bufVars, waitVars, history
<1>4. ASSUME NEW t \in Tasks PROVE SenderOK(t)'
  <2>1. SenderOK(t)
    BY Zenon DEF ChanInv
  <2> QED
    BY Zenon, <2>1, <1>1, <1>2 DEF SenderOK, Untouched, waitVars, history
<1>5. ASSUME NEW t \in Tasks PROVE ReceiverOK(t)'
  <2>1. ReceiverOK(t)
    BY Zenon DEF ChanInv
  <2> QED
    BY Zenon, <2>1, <1>1 DEF ReceiverOK, Untouched, waitVars
<1>6. ASSUME NEW v \in Values PROVE ValueOK(v)'
  BY Zenon, <1>1, <1>2 DEF ChanInv, ValueOK, history
<1> QED
  BY Zenon, <1>1, <1>2, <1>3, <1>4, <1>5, <1>6 DEF ChanInv, bufVars, history

\* A step that touches no task and no queue.
LEMMA TasksKept ==
    ASSUME IInv, UNCHANGED taskVars,
           UNCHANGED <<mutexWaiters, semWaiters, groupWaiters, senders, receivers>>
    PROVE  /\ TaskInv' /\ Queues' /\ call' = call /\ waitResult' = waitResult
           /\ \A C : Untouched(C)
<1>1. TaskInv'
  BY Zenon DEF IInv, TaskInv, TasksOK, TaskOK, taskVars
<1>2. Queues'
  BY Zenon DEF IInv, Queues, QueueOf, Woken, taskVars
<1> QED
  BY Zenon, <1>1, <1>2 DEF taskVars, Untouched

\* A park touches no call but the one that it makes.
LEMMA ParkUntouched ==
    ASSUME IInv, NEW t \in Tasks, NEW c \in Calls \ {"none"}, Park(t, c)
    PROVE  \A C : c \notin C /\ "none" \notin C => Untouched(C)
<1>1. TaskInv
  BY Zenon DEF IInv
<1> QED
  BY Zenon, <1>1, ParkTask DEF Untouched

\* A wake touches no call but those of the woken tasks.
LEMMA WakeUntouched ==
    ASSUME IInv, NEW W \in SUBSET Tasks, NEW r \in {"OK", "CLOSED"}, Wake(W, r),
           r = "CLOSED" => \A t \in W : call[t] \in {"send", "receive"}
    PROVE  \A C : (\A t \in W : call[t] \notin C) => Untouched(C)
<1>1. TaskInv
  BY Zenon DEF IInv
<1> QED
  BY Zenon, <1>1, WakeTasks DEF Untouched

-----------------------------------------------------------------------------
(* The ring buffer                                                         *)

\* Append and Tail, element by element.
LEMMA SeqForms ==
    ASSUME NEW S, NEW q \in Seq(S)
    PROVE  /\ \A v \in S : Append(q, v) = [i \in 1..(Len(q) + 1) |->
                                            IF i <= Len(q) THEN q[i] ELSE v]
           /\ q # <<>> => Tail(q) = [i \in 1..(Len(q) - 1) |-> q[i + 1]]
<1>1. ASSUME NEW v \in S
      PROVE  Append(q, v) = [i \in 1..(Len(q) + 1) |-> IF i <= Len(q) THEN q[i] ELSE v]
  <2> DEFINE a == Append(q, v)
  <2>1. /\ a \in Seq(S) /\ Len(a) = Len(q) + 1 /\ a[Len(q) + 1] = v
        /\ \A i \in 1..Len(q) : a[i] = q[i]
    BY SeqAppend
  <2> HIDE DEF a
  <2>2. a \in [1..(Len(q) + 1) -> S] /\ Len(q) \in Nat
    BY Zenon, <2>1, SeqOf
  <2>3. a = [i \in 1..(Len(q) + 1) |-> a[i]]
    BY Zenon, <2>2
  <2>4. \A i \in 1..(Len(q) + 1) : a[i] = IF i <= Len(q) THEN q[i] ELSE v
    BY <2>1, <2>2
  <2>5. a = [i \in 1..(Len(q) + 1) |-> IF i <= Len(q) THEN q[i] ELSE v]
    BY Zenon, <2>3, <2>4
  <2> QED
    BY Zenon, <2>5 DEF a
<1>2. ASSUME q # <<>> PROVE Tail(q) = [i \in 1..(Len(q) - 1) |-> q[i + 1]]
  <2> DEFINE a == Tail(q)
  <2>1. /\ a \in Seq(S) /\ Len(a) = Len(q) - 1
        /\ \A i \in 1..Len(a) : a[i] = q[i + 1]
    BY Zenon, <1>2, SeqTail
  <2> HIDE DEF a
  <2>2. a \in [1..(Len(q) - 1) -> S]
    BY Zenon, <2>1, SeqOf
  <2>3. a = [i \in 1..(Len(q) - 1) |-> a[i]]
    BY Zenon, <2>2
  <2>4. a = [i \in 1..(Len(q) - 1) |-> q[i + 1]]
    BY Zenon, <2>1, <2>3
  <2> QED
    BY Zenon, <2>4 DEF a
<1> QED
  BY Zenon, <1>1, <1>2

\* A position of the ring, without the remainder.
LEMMA Wrap ==
    ASSUME NEW c \in Nat, NEW h \in 0..(c - 1), NEW k \in 0..c
    PROVE  /\ (h + k) % c = IF h + k < c THEN h + k ELSE h + k - c
           /\ (h + k) % c \in 0..(c - 1)
OBVIOUS

\* The k-th value after the head at h, in a buffer of c values.
At(h, k, c) == IF h + k < c THEN h + k ELSE h + k - c

\* The buffered values, the oldest first.
LEMMA ContentsAre ==
    ASSUME ChannelOK, capacity # 0 => head < capacity
    PROVE  /\ Contents \in Seq(Values \cup {None}) /\ Len(Contents) = length
           /\ DOMAIN Contents = 1..length
           /\ \A i \in 1..length : Contents[i] = buffer[At(head, i - 1, capacity)]
<1>1. /\ length \in 0..capacity /\ capacity \in Nat /\ head \in 0..capacity
      /\ buffer \in [0..(capacity - 1) -> Values \cup {None}]
  BY Zenon DEF ChannelOK
<1>2. ASSUME NEW i \in 1..length
      PROVE  /\ (head + i - 1) % capacity = At(head, i - 1, capacity)
             /\ At(head, i - 1, capacity) \in 0..(capacity - 1)
  <2>1. head \in 0..(capacity - 1) /\ i - 1 \in 0..capacity
        /\ head + (i - 1) = head + i - 1
    BY <1>1
  <2> QED
    BY Zenon, <1>1, <2>1, Wrap DEF At
<1>3. Contents = [i \in 1..length |-> buffer[At(head, i - 1, capacity)]]
  BY Zenon, <1>2 DEF Contents
<1>4. ASSUME NEW i \in 1..length PROVE Contents[i] \in Values \cup {None}
  BY Zenon, <1>1, <1>2, <1>3
<1>5. Contents \in [1..length -> Values \cup {None}]
  BY Zenon, <1>3, <1>4
<1> QED
  BY <1>1, <1>3, <1>5

\* vl_channel_buffer_push puts a value behind the others.
LEMMA PushContents ==
    ASSUME ChannelOK, capacity # 0 => head < capacity, length < capacity,
           NEW v \in Values, buffer' = BufferPush(head, length, v),
           length' = length + 1, head' = head, capacity' = capacity
    PROVE  /\ Contents' = Append(Contents, v)
           /\ buffer' \in [0..(capacity - 1) -> Values \cup {None}]
<1>1. /\ length \in 0..capacity /\ capacity \in Nat /\ head \in 0..(capacity - 1)
      /\ buffer \in [0..(capacity - 1) -> Values \cup {None}]
  BY DEF ChannelOK
<1> DEFINE p == At(head, length, capacity)
<1>2. p \in 0..(capacity - 1) /\ buffer' = [buffer EXCEPT ![p] = v]
  BY Zenon, <1>1, Wrap DEF At, BufferPush
<1>3. buffer' \in [0..(capacity - 1) -> Values \cup {None}]
  BY Zenon, <1>1, <1>2
<1>4. ASSUME NEW i \in 1..length
      PROVE  /\ At(head, i - 1, capacity) \in 0..(capacity - 1)
             /\ At(head, i - 1, capacity) # p
  BY <1>1 DEF At
<1>5. Contents' = [i \in 1..(length + 1) |-> buffer'[(head + i - 1) % capacity]]
  BY Zenon DEF Contents
<1>6. ASSUME NEW i \in 1..(length + 1)
      PROVE  (head + i - 1) % capacity = At(head, i - 1, capacity)
  <2>1. i - 1 \in 0..capacity /\ head + (i - 1) = head + i - 1
    BY <1>1
  <2> QED
    BY Zenon, <1>1, <2>1, Wrap DEF At
<1>7. Contents' = [i \in 1..(length + 1) |-> buffer'[At(head, i - 1, capacity)]]
  BY Zenon, <1>5, <1>6
<1>8. /\ Contents \in Seq(Values \cup {None}) /\ Len(Contents) = length
      /\ \A i \in 1..length : Contents[i] = buffer[At(head, i - 1, capacity)]
  BY Zenon, ContentsAre
<1>9. Append(Contents, v) = [i \in 1..(length + 1) |->
                               IF i <= length THEN Contents[i] ELSE v]
  BY <1>8, SeqForms
<1>10. ASSUME NEW i \in 1..(length + 1)
       PROVE  buffer'[At(head, i - 1, capacity)] = IF i <= length THEN Contents[i] ELSE v
  <2>1. CASE i <= length
    <3>1. i \in 1..length
      BY <1>1, <2>1
    <3>2. buffer'[At(head, i - 1, capacity)] = buffer[At(head, i - 1, capacity)]
      BY Zenon, <1>1, <1>2, <1>4, <3>1
    <3> QED
      BY Zenon, <1>8, <2>1, <3>1, <3>2
  <2>2. CASE i = length + 1
    <3>1. At(head, i - 1, capacity) = p
      BY <1>1, <2>2
    <3>2. buffer'[p] = v
      BY Zenon, <1>1, <1>2
    <3> QED
      BY <1>1, <2>2, <3>1, <3>2
  <2> QED
    BY <1>1, <2>1, <2>2
<1> QED
  BY Zenon, <1>3, <1>7, <1>9, <1>10

\* vl_channel_buffer_pop takes the oldest value.
LEMMA PopContents ==
    ASSUME ChannelOK, capacity # 0 => head < capacity, length # 0,
           buffer' = buffer, length' = length - 1,
           head' = (head + 1) % capacity, capacity' = capacity
    PROVE  /\ Contents' = Tail(Contents) /\ Head(Contents) = buffer[head]
           /\ Contents # <<>> /\ head' \in 0..(capacity - 1)
<1>1. /\ length \in 1..capacity /\ capacity \in Nat /\ head \in 0..(capacity - 1)
      /\ buffer \in [0..(capacity - 1) -> Values \cup {None}]
  BY DEF ChannelOK
<1>2. head' = At(head, 1, capacity) /\ head' \in 0..(capacity - 1)
  <2>1. 1 \in 0..capacity
    BY <1>1
  <2> QED
    BY Zenon, <1>1, <2>1, Wrap DEF At
<1>3. /\ Contents \in Seq(Values \cup {None}) /\ Len(Contents) = length
      /\ \A i \in 1..length : Contents[i] = buffer[At(head, i - 1, capacity)]
  BY Zenon, ContentsAre
<1>4. Tail(Contents) = [i \in 1..(length - 1) |-> Contents[i + 1]]
  <2>1. Contents # <<>>
    BY <1>1, <1>3
  <2> QED
    BY Zenon, <1>3, <2>1, SeqForms
<1>5. Contents' = [i \in 1..(length - 1) |-> buffer[(head' + i - 1) % capacity]]
  BY Zenon DEF Contents
<1>6. ASSUME NEW i \in 1..(length - 1)
      PROVE  buffer[(head' + i - 1) % capacity] = Contents[i + 1]
  <2>1. i - 1 \in 0..capacity /\ head' + (i - 1) = head' + i - 1
        /\ i + 1 \in 1..length /\ i + 1 - 1 = i
    BY <1>1, <1>2
  <2>2. (head' + i - 1) % capacity = At(head', i - 1, capacity)
    BY Zenon, <1>1, <1>2, <2>1, Wrap DEF At
  <2>3. At(head', i - 1, capacity) = At(head, i, capacity)
    BY <1>1, <1>2 DEF At
  <2> QED
    BY <1>3, <2>1, <2>2, <2>3
<1>7. Contents' = Tail(Contents)
  BY Zenon, <1>4, <1>5, <1>6
<1>8. Contents # <<>> /\ Head(Contents) = buffer[head]
  <2>1. At(head, 0, capacity) = head
    BY <1>1 DEF At
  <2> QED
    BY <1>1, <1>3, <2>1
<1> QED
  BY Zenon, <1>2, <1>7, <1>8

\* vl_channel_receive takes the oldest value and puts the value of the oldest
\* blocked sender behind the others.
LEMMA RefillContents ==
    ASSUME ChannelOK, capacity # 0 => head < capacity, length # 0, NEW v \in Values,
           buffer' = BufferPush((head + 1) % capacity, length - 1, v),
           length' = length, head' = (head + 1) % capacity, capacity' = capacity
    PROVE  /\ Contents' = Append(Tail(Contents), v) /\ Head(Contents) = buffer[head]
           /\ Contents # <<>> /\ head' \in 0..(capacity - 1)
           /\ buffer' \in [0..(capacity - 1) -> Values \cup {None}]
<1>1. /\ length \in 1..capacity /\ capacity \in Nat /\ head \in 0..(capacity - 1)
      /\ buffer \in [0..(capacity - 1) -> Values \cup {None}]
  BY DEF ChannelOK
<1>2. head' = At(head, 1, capacity) /\ head' \in 0..(capacity - 1)
  <2>1. 1 \in 0..capacity
    BY <1>1
  <2> QED
    BY Zenon, <1>1, <2>1, Wrap DEF At
<1> DEFINE p == At(head', length - 1, capacity)
<1>3. p \in 0..(capacity - 1) /\ buffer' = [buffer EXCEPT ![p] = v]
  <2>1. length - 1 \in 0..capacity
    BY <1>1
  <2> QED
    BY Zenon, <1>1, <1>2, <2>1, Wrap DEF At, BufferPush
<1>4. buffer' \in [0..(capacity - 1) -> Values \cup {None}]
  BY Zenon, <1>1, <1>3
<1>5. /\ Contents \in Seq(Values \cup {None}) /\ Len(Contents) = length
      /\ \A i \in 1..length : Contents[i] = buffer[At(head, i - 1, capacity)]
  BY Zenon, ContentsAre
<1>6. Append(Tail(Contents), v) = [i \in 1..length |->
                                     IF i <= length - 1 THEN Contents[i + 1] ELSE v]
  <2>1. /\ Tail(Contents) \in Seq(Values \cup {None}) /\ Len(Tail(Contents)) = length - 1
        /\ \A i \in 1..(length - 1) : Tail(Contents)[i] = Contents[i + 1]
    BY <1>1, <1>5
  <2> QED
    BY <1>1, <2>1
<1>7. Contents' = [i \in 1..length |-> buffer'[(head' + i - 1) % capacity]]
  BY Zenon DEF Contents
<1>8. ASSUME NEW i \in 1..length
      PROVE  buffer'[(head' + i - 1) % capacity]
               = IF i <= length - 1 THEN Contents[i + 1] ELSE v
  <2>1. i - 1 \in 0..capacity /\ head' + (i - 1) = head' + i - 1
    BY <1>1, <1>2
  <2>2. (head' + i - 1) % capacity = At(head', i - 1, capacity)
    BY Zenon, <1>1, <1>2, <2>1, Wrap DEF At
  <2>3. CASE i <= length - 1
    <3>1. /\ At(head', i - 1, capacity) = At(head, i, capacity)
          /\ At(head', i - 1, capacity) \in 0..(capacity - 1)
          /\ At(head', i - 1, capacity) # p
      BY <1>1, <1>2, <2>3 DEF At
    <3>2. buffer'[At(head', i - 1, capacity)] = buffer[At(head, i, capacity)]
      BY Zenon, <1>1, <1>3, <3>1
    <3>3. i + 1 \in 1..length /\ i + 1 - 1 = i
      BY <1>1, <2>3
    <3> QED
      BY <1>5, <2>2, <2>3, <3>2, <3>3
  <2>4. CASE i = length
    <3>1. buffer'[p] = v
      BY Zenon, <1>1, <1>3
    <3> QED
      BY <1>1, <2>2, <2>4, <3>1
  <2> QED
    BY <1>1, <2>3, <2>4
<1>9. Contents' = Append(Tail(Contents), v)
  BY Zenon, <1>6, <1>7, <1>8
<1>10. Contents # <<>> /\ Head(Contents) = buffer[head]
  <2>1. At(head, 0, capacity) = head
    BY <1>1 DEF At
  <2> QED
    BY <1>1, <1>5, <2>1
<1> QED
  BY Zenon, <1>2, <1>4, <1>9, <1>10

-----------------------------------------------------------------------------
(* The channel                                                             *)

\* The entries of a sequence with one more value, and without the first.
LEMMA SeqElems ==
    ASSUME NEW S, NEW q \in Seq(S)
    PROVE  /\ \A v \in S : Elems(Append(q, v)) = Elems(q) \cup {v}
           /\ q # <<>> => Head(q) \in S /\ Elems(q) = Elems(Tail(q)) \cup {Head(q)}
<1>1. ASSUME NEW v \in S PROVE Elems(Append(q, v)) = Elems(q) \cup {v}
  <2>1. Append(q, v) \in Seq(S) /\ Len(Append(q, v)) = Len(q) + 1
        /\ Append(q, v)[Len(q) + 1] = v /\ \A i \in 1..Len(q) : Append(q, v)[i] = q[i]
    BY SeqAppend
  <2>2. DOMAIN q = 1..Len(q) /\ DOMAIN Append(q, v) = 1..(Len(q) + 1) /\ Len(q) \in Nat
    BY Zenon, <2>1, SeqOf
  <2> QED
    BY <2>1, <2>2 DEF Elems
<1>2. ASSUME q # <<>>
      PROVE  Head(q) \in S /\ Elems(q) = Elems(Tail(q)) \cup {Head(q)}
  <2>1. /\ Tail(q) \in Seq(S) /\ Len(Tail(q)) = Len(q) - 1
        /\ \A i \in 1..Len(Tail(q)) : Tail(q)[i] = q[i + 1]
        /\ Head(q) \in S /\ Head(q) = q[1]
    BY Zenon, <1>2, SeqTail
  <2>2. /\ DOMAIN q = 1..Len(q) /\ DOMAIN Tail(q) = 1..(Len(q) - 1)
        /\ Len(q) \in Nat \ {0}
    BY Zenon, <1>2, <2>1, SeqOf, SeqTail
  <2>3. ASSUME NEW x \in Elems(q), x # Head(q) PROVE x \in Elems(Tail(q))
    <3>1. PICK i \in 1..Len(q) : x = q[i]
      BY Zenon, <2>2, <2>3 DEF Elems
    <3>2. i - 1 \in 1..(Len(q) - 1) /\ Tail(q)[i - 1] = x
      BY <2>1, <2>2, <2>3, <3>1
    <3> QED
      BY Zenon, <2>2, <3>2 DEF Elems
  <2>4. ASSUME NEW x \in Elems(Tail(q)) PROVE x \in Elems(q)
    <3>1. PICK i \in 1..(Len(q) - 1) : x = q[i + 1]
      BY Zenon, <2>1, <2>2, <2>4 DEF Elems
    <3> QED
      BY <2>2, <3>1 DEF Elems
  <2>5. Head(q) \in Elems(q)
    BY <2>1, <2>2 DEF Elems
  <2> QED
    BY Zenon, <2>1, <2>3, <2>4, <2>5
<1> QED
  BY Zenon, <1>1, <1>2

\* A send that returns at once: its value is new, and stored if it went through.
LEMMA SendReturns ==
    ASSUME ChanInv, sent < MaxSends, NEW r \in {"OK", "CLOSED"}, Sent(r),
           UNCHANGED <<senders, value, mine>>, Untouched({"send"}),
           Stored' = IF r = "OK" THEN Stored \cup {sent + 1} ELSE Stored
    PROVE  /\ sent + 1 \in Values /\ sent' \in 0..MaxSends
           /\ fate' \in [Values -> {"none", "pending", "OK", "CLOSED"}]
           /\ Stored' \subseteq 1..sent'
           /\ \A v \in Values : ValueOK(v)'
           /\ \A t \in Tasks : SenderOK(t)'
<1>1. /\ sent \in 0..MaxSends /\ MaxSends \in Nat /\ Stored \subseteq 1..sent
      /\ fate \in [Values -> {"none", "pending", "OK", "CLOSED"}]
  BY Zenon, CapacityAssumption DEF ChanInv, ChannelOK
<1>2. /\ sent + 1 \in Values /\ sent' = sent + 1 /\ sent' \in 0..MaxSends
      /\ fate' = [fate EXCEPT ![sent + 1] = r]
  BY <1>1 DEF Sent, Values
<1>3. fate' \in [Values -> {"none", "pending", "OK", "CLOSED"}]
  BY Zenon, <1>1, <1>2
<1>4. Stored' \subseteq 1..sent'
  BY <1>1, <1>2
<1>5. ASSUME NEW v \in Values PROVE ValueOK(v)'
  <2>1. ValueOK(v)
    BY Zenon DEF ChanInv
  <2>2. v \in Int
    BY DEF Values
  <2> QED
    BY <1>1, <1>2, <2>1, <2>2 DEF ValueOK
<1>6. ASSUME NEW t \in Tasks PROVE SenderOK(t)'
  <2>1. SenderOK(t)
    BY Zenon DEF ChanInv
  <2>2. CASE call'[t] # "send"
    BY Zenon, <2>2 DEF SenderOK
  <2>3. CASE call'[t] = "send"
    <3>1. call[t] = "send" /\ waitResult'[t] = waitResult[t]
      BY Zenon, <2>3 DEF Untouched
    <3>2. mine[t] \in 1..sent /\ mine[t] \in Values /\ mine[t] # sent + 1
      BY <1>1, <2>1, <3>1 DEF SenderOK, Values
    <3>3. fate'[mine[t]] = "pending" /\ (mine[t] \in Stored' <=> mine[t] \in Stored)
      BY Zenon, <1>1, <1>2, <2>1, <3>1, <3>2 DEF SenderOK
    <3>4. \A u \in Tasks : call'[u] = "send" /\ mine[u] = mine[t] => u = t
      BY Zenon, <2>1, <3>1 DEF SenderOK, Untouched
    <3>5. mine[t] \in 1..sent'
      BY <1>1, <1>2, <3>2
    <3> QED
      BY Zenon, <2>1, <3>1, <3>3, <3>4, <3>5 DEF SenderOK
  <2> QED
    BY Zenon, <2>2, <2>3
<1> QED
  BY Zenon, <1>2, <1>3, <1>4, <1>5, <1>6

\* The oldest blocked send is served: its value is stored now.
LEMMA SenderServed ==
    ASSUME ChanInv, NEW s \in Elems(senders), s \in Tasks, call[s] = "send",
           Elems(senders') = Elems(senders) \ {s}, call' = call,
           waitResult'[s] = "OK",
           \A u \in Tasks \ {s} : waitResult'[u] = waitResult[u],
           value' = [value EXCEPT ![s] = None], UNCHANGED <<sent, mine, fate>>,
           Stored' = Stored \cup {value[s]}
    PROVE  /\ value[s] \in Values
           /\ value' \in [Tasks -> Values \cup {None}]
           /\ Stored' \subseteq 1..sent'
           /\ \A v \in Values : ValueOK(v)'
           /\ \A t \in Tasks : SenderOK(t)'
<1>1. /\ sent \in 0..MaxSends /\ MaxSends \in Nat /\ Stored \subseteq 1..sent
      /\ value \in [Tasks -> Values \cup {None}]
  BY Zenon, CapacityAssumption DEF ChanInv, ChannelOK
<1>2. /\ value[s] = mine[s] /\ mine[s] \in 1..sent /\ fate[mine[s]] = "pending"
      /\ \A u \in Tasks : call[u] = "send" /\ mine[u] = mine[s] => u = s
  BY Zenon DEF ChanInv, SenderOK
<1>3. value[s] \in Values
  BY <1>1, <1>2 DEF Values
<1>4. value' \in [Tasks -> Values \cup {None}]
  BY Zenon, <1>1
<1>5. Stored' \subseteq 1..sent'
  BY Zenon, <1>1, <1>2
<1>6. ASSUME NEW v \in Values PROVE ValueOK(v)'
  BY Zenon, <1>2 DEF ChanInv, ValueOK
<1>7. ASSUME NEW t \in Tasks PROVE SenderOK(t)'
  <2>1. SenderOK(t)
    BY Zenon DEF ChanInv
  <2>2. CASE t = s
    BY Zenon, <1>2, <2>2 DEF SenderOK
  <2>3. CASE t # s
    <3>1. value'[t] = value[t] /\ waitResult'[t] = waitResult[t]
      BY Zenon, <1>1, <2>3
    <3>2. call[t] = "send" => mine[t] # value[s]
      BY Zenon, <1>2, <2>3
    <3> QED
      BY Zenon, <2>1, <2>3, <3>1, <3>2 DEF SenderOK
  <2> QED
    BY Zenon, <2>2, <2>3
<1> QED
  BY Zenon, <1>3, <1>4, <1>5, <1>6, <1>7

\* The value in front of the buffer is one that has been sent.
LEMMA OldestStored ==
    ASSUME ChanInv, length # 0
    PROVE  /\ buffer[head] \in Stored /\ buffer[head] \in Values
           /\ head \in 0..(capacity - 1)
<1>1. /\ length \in 1..capacity /\ capacity \in Nat /\ head \in 0..(capacity - 1)
      /\ sent \in 0..MaxSends /\ MaxSends \in Nat
  BY CapacityAssumption DEF ChanInv, ChannelOK
<1>2. 1 \in DOMAIN Contents /\ Contents[1] = buffer[At(head, 0, capacity)]
  BY <1>1, ContentsAre DEF ChanInv
<1>3. At(head, 0, capacity) = head
  BY <1>1 DEF At
<1>4. buffer[head] \in Stored
  BY Zenon, <1>2, <1>3 DEF Stored, Elems
<1>5. buffer[head] \in 1..sent
  BY Zenon, <1>4 DEF ChanInv
<1> QED
  BY <1>1, <1>4, <1>5 DEF Values

\* A send on a closed channel is refused.
LEMMA SendClosedKeeps ==
    ASSUME IInv, NEW t \in Tasks, SendClosed(t)
    PROVE  ChanInv'
<1>1. /\ ChanInv /\ sent < MaxSends /\ Sent("CLOSED") /\ UNCHANGED taskVars
      /\ UNCHANGED bufVars /\ UNCHANGED waitVars
      /\ UNCHANGED <<closed, senders, receivers, chanAlive, received, mine>>
  BY Zenon DEF SendClosed, Sending, IInv
<1>2. /\ UNCHANGED <<capacity, buffer, head, length, value, out>>
      /\ call' = call /\ waitResult' = waitResult
  BY Zenon, <1>1 DEF bufVars, waitVars, taskVars
<1>3. Stored' = Stored /\ Untouched({"send"})
  BY Zenon, <1>1, <1>2 DEF Stored, Contents, Untouched
<1>4. /\ sent' \in 0..MaxSends /\ Stored' \subseteq 1..sent'
      /\ fate' \in [Values -> {"none", "pending", "OK", "CLOSED"}]
      /\ \A v \in Values : ValueOK(v)'
      /\ \A u \in Tasks : SenderOK(u)'
  BY Zenon, <1>1, <1>2, <1>3, SendReturns
<1>5. ChannelOK' /\ WaitsOK'
  BY Zenon, <1>1, <1>2, <1>4 DEF ChanInv, ChannelOK, WaitsOK
<1>6. \A u \in Tasks : ReceiverOK(u)'
  BY Zenon, <1>1, <1>2 DEF ChanInv, ReceiverOK
<1> QED
  BY Zenon, <1>1, <1>2, <1>4, <1>5, <1>6 DEF ChanInv

\* A send meets a receiver that waits.
LEMMA SendMeetKeeps ==
    ASSUME IInv, NEW t \in Tasks, SendMeet(t)
    PROVE  ChanInv'
<1> DEFINE r == Head(receivers)
<1>1. /\ ChanInv /\ sent < MaxSends /\ Sent("OK") /\ ~closed /\ receivers # <<>>
      /\ out' = [out EXCEPT ![r] = sent + 1] /\ Wake({r}, "OK")
      /\ receivers' = Tail(receivers) /\ received' = Append(received, sent + 1)
      /\ UNCHANGED <<closed, senders, chanAlive, value, mine>>
      /\ UNCHANGED <<capacity, buffer, head, length>>
  BY Zenon DEF SendMeet, Sending, IInv, bufVars
<1>2. /\ r \in Tasks /\ r \in Elems(receivers) /\ WaitQueue(receivers')
      /\ Elems(receivers') = Elems(receivers) \ {r}
  BY Zenon, <1>1, QueueTypes, LeaveQueue
<1>3. call[r] = "receive"
  BY Zenon, <1>2, QueuedCalls
<1> HIDE DEF r
<1>4. /\ call' = call /\ waitResult'[r] = "OK"
      /\ \A u \in Tasks \ {r} : waitResult'[u] = waitResult[u]
  <2>1. TaskInv /\ {r} \in SUBSET Tasks
    BY Zenon, <1>2 DEF IInv
  <2> QED
    BY Zenon, <1>1, <2>1, WakeTasks
<1>5. Untouched({"send"})
  BY Zenon, <1>3, <1>4 DEF Untouched
<1>6. sent + 1 \in Values /\ received \in Seq(Values)
  BY <1>1, CapacityAssumption DEF ChanInv, ChannelOK, Values
<1>7. Elems(received') = Elems(received) \cup {sent + 1} /\ received' \in Seq(Values)
  BY <1>1, <1>6, SeqElems, SeqAppend
<1>8. Stored' = Stored \cup {sent + 1}
  BY Zenon, <1>1, <1>7 DEF Stored, Contents
<1>9. /\ sent' \in 0..MaxSends /\ Stored' \subseteq 1..sent'
      /\ fate' \in [Values -> {"none", "pending", "OK", "CLOSED"}]
      /\ \A v \in Values : ValueOK(v)'
      /\ \A u \in Tasks : SenderOK(u)'
  BY Zenon, <1>1, <1>5, <1>8, SendReturns
<1>10. out' \in [Tasks -> Values \cup {None}]
  BY Zenon, <1>1, <1>6 DEF ChanInv, ChannelOK
<1>11. ChannelOK'
  BY Zenon, <1>1, <1>2, <1>7, <1>9, <1>10 DEF ChanInv, ChannelOK
<1>12. WaitsOK'
  BY Zenon, <1>1 DEF ChanInv, WaitsOK
<1>13. ASSUME NEW u \in Tasks PROVE ReceiverOK(u)'
  <2>1. ReceiverOK(u) /\ out \in [Tasks -> Values \cup {None}]
    BY Zenon, <1>1 DEF ChanInv, ChannelOK
  <2>2. CASE u = r
    BY Zenon, <1>1, <1>2, <1>3, <1>4, <1>6, <2>1, <2>2, ValuesAssumption
    DEF ReceiverOK
  <2>3. CASE u # r
    BY Zenon, <1>1, <1>2, <1>4, <2>1, <2>3 DEF ReceiverOK
  <2> QED
    BY Zenon, <2>2, <2>3
<1> QED
  BY Zenon, <1>1, <1>9, <1>11, <1>12, <1>13 DEF ChanInv

\* A send puts its value in the buffer.
LEMMA SendBufferKeeps ==
    ASSUME IInv, NEW t \in Tasks, SendBuffer(t)
    PROVE  ChanInv' /\ Contents' = Append(Contents, sent + 1) /\ sent + 1 \in Values
<1>1. /\ ChanInv /\ sent < MaxSends /\ Sent("OK") /\ ~closed /\ receivers = <<>>
      /\ length < capacity /\ UNCHANGED taskVars
      /\ buffer' = BufferPush(head, length, sent + 1) /\ length' = length + 1
      /\ UNCHANGED <<capacity, head, closed, senders, receivers, chanAlive, value, out,
                     received, mine>>
  BY Zenon DEF SendBuffer, Sending, IInv
<1>2. call' = call /\ waitResult' = waitResult
  BY Zenon, <1>1 DEF taskVars
<1>3. Untouched({"send"})
  BY Zenon, <1>2 DEF Untouched
<1>4. sent + 1 \in Values
  BY <1>1, CapacityAssumption DEF ChanInv, ChannelOK, Values
<1>5. /\ Contents' = Append(Contents, sent + 1)
      /\ buffer' \in [0..(capacity - 1) -> Values \cup {None}]
  BY Zenon, <1>1, <1>4, PushContents DEF ChanInv
<1>6. Contents \in Seq(Values \cup {None})
  BY Zenon, <1>1, ContentsAre DEF ChanInv
<1>7. Elems(Contents') = Elems(Contents) \cup {sent + 1}
  BY <1>4, <1>5, <1>6, SeqElems
<1>8. Stored' = Stored \cup {sent + 1}
  BY Zenon, <1>1, <1>7 DEF Stored
<1>9. /\ sent' \in 0..MaxSends /\ Stored' \subseteq 1..sent'
      /\ fate' \in [Values -> {"none", "pending", "OK", "CLOSED"}]
      /\ \A v \in Values : ValueOK(v)'
      /\ \A u \in Tasks : SenderOK(u)'
  BY Zenon, <1>1, <1>3, <1>8, SendReturns
<1>10. length' \in 0..capacity
  BY <1>1 DEF ChanInv, ChannelOK
<1>11. ChannelOK'
  BY Zenon, <1>1, <1>5, <1>9, <1>10 DEF ChanInv, ChannelOK
<1>12. WaitsOK'
  BY <1>1 DEF ChanInv, WaitsOK, ChannelOK
<1>13. \A u \in Tasks : ReceiverOK(u)'
  BY Zenon, <1>1, <1>2 DEF ChanInv, ReceiverOK
<1> QED
  BY Zenon, <1>1, <1>4, <1>5, <1>9, <1>11, <1>12, <1>13 DEF ChanInv

\* A send parks behind a full buffer.
LEMMA SendParkKeeps ==
    ASSUME IInv, NEW t \in Tasks, SendPark(t)
    PROVE  ChanInv'
<1>1. /\ ChanInv /\ sent < MaxSends /\ Sent("pending") /\ ~closed /\ receivers = <<>>
      /\ length >= capacity /\ Park(t, "send") /\ chanAlive
      /\ value' = [value EXCEPT ![t] = sent + 1]
      /\ mine' = [mine EXCEPT ![t] = sent + 1]
      /\ senders' = Append(senders, t)
      /\ UNCHANGED <<capacity, buffer, head, length, closed, receivers, chanAlive, out,
                     received>>
  BY Zenon DEF SendPark, Sending, IInv, bufVars
<1>2. TaskInv /\ QueueOf("send", senders) /\ WaitQueue(senders)
      /\ "send" \in Calls \ {"none"}
  BY Zenon, QueueTypes DEF IInv, Queues, Calls
<1>3. /\ t \notin Elems(senders) /\ call[t] = "none" /\ call'[t] = "send"
      /\ \A u \in Tasks \ {t} : call'[u] = call[u] /\ waitResult'[u] = waitResult[u]
  BY Zenon, <1>1, <1>2, ParkTask, ParkQueue
<1>4. /\ Elems(senders') = Elems(senders) \cup {t} /\ WaitQueue(senders')
      /\ senders' # <<>>
  BY Zenon, <1>1, <1>2, <1>3, JoinQueue
<1>5. /\ sent \in 0..MaxSends /\ MaxSends \in Nat /\ Stored \subseteq 1..sent
      /\ fate \in [Values -> {"none", "pending", "OK", "CLOSED"}]
      /\ value \in [Tasks -> Values \cup {None}] /\ mine \in [Tasks -> Values \cup {None}]
  BY Zenon, <1>1, CapacityAssumption DEF ChanInv, ChannelOK
<1>6. /\ sent + 1 \in Values /\ sent' = sent + 1 /\ sent' \in 0..MaxSends
      /\ fate' = [fate EXCEPT ![sent + 1] = "pending"]
  BY <1>1, <1>5 DEF Sent, Values
<1>7. Stored' = Stored
  BY Zenon, <1>1 DEF Stored, Contents
<1>8. /\ fate' \in [Values -> {"none", "pending", "OK", "CLOSED"}]
      /\ value' \in [Tasks -> Values \cup {None}] /\ mine' \in [Tasks -> Values \cup {None}]
  BY Zenon, <1>1, <1>5, <1>6
<1>9. ChannelOK'
  BY Zenon, <1>1, <1>4, <1>6, <1>8 DEF ChanInv, ChannelOK
<1>10. WaitsOK'
  BY <1>1 DEF ChanInv, ChannelOK, WaitsOK
<1>11. ASSUME NEW v \in Values PROVE ValueOK(v)'
  <2>1. ValueOK(v) /\ v \in Int
    BY <1>1 DEF ChanInv, Values
  <2> QED
    BY <1>5, <1>6, <1>7, <2>1 DEF ValueOK
<1>12. ASSUME NEW u \in Tasks, call[u] = "send"
       PROVE  u # t /\ mine[u] \in 1..sent /\ mine[u] \in Values /\ mine[u] # sent + 1
              /\ mine'[u] = mine[u] /\ value'[u] = value[u]
  BY <1>1, <1>3, <1>5, <1>12 DEF ChanInv, SenderOK, Values
<1>13. ASSUME NEW u \in Tasks PROVE SenderOK(u)'
  <2>1. SenderOK(u)
    BY Zenon, <1>1 DEF ChanInv
  <2>2. CASE u = t
    <3>1. /\ mine'[t] = sent + 1 /\ value'[t] = sent + 1 /\ fate'[sent + 1] = "pending"
          /\ sent + 1 \in 1..sent' /\ sent + 1 \notin Stored'
      BY <1>1, <1>5, <1>6, <1>7
    <3>2. \A w \in Tasks : call'[w] = "send" /\ mine'[w] = mine'[t] => w = t
      BY Zenon, <1>3, <1>12, <3>1
    <3> QED
      BY Zenon, <1>4, <2>2, <3>1, <3>2 DEF SenderOK
  <2>3. CASE u # t
    <3>1. CASE call[u] = "send"
      <4>1. fate'[mine[u]] = fate[mine[u]] /\ mine[u] \in 1..sent'
        BY <1>5, <1>6, <1>12, <3>1
      <4>2. \A w \in Tasks : call'[w] = "send" /\ mine'[w] = mine'[u] => w = u
        <5>1. mine'[t] = sent + 1
          BY Zenon, <1>1, <1>5
        <5> QED
          BY ZenonT(30), <1>3, <1>12, <2>1, <3>1, <5>1 DEF SenderOK
      <4> QED
        BY Zenon, <1>3, <1>4, <1>7, <1>12, <2>1, <2>3, <3>1, <4>1, <4>2
        DEF SenderOK
    <3>2. CASE call[u] # "send"
      BY Zenon, <1>3, <2>3, <3>2 DEF SenderOK
    <3> QED
      BY Zenon, <3>1, <3>2
  <2> QED
    BY Zenon, <2>2, <2>3
<1>14. ASSUME NEW u \in Tasks PROVE ReceiverOK(u)'
  BY Zenon, <1>1, <1>3 DEF ChanInv, ReceiverOK
<1> QED
  BY <1>1, <1>5, <1>6, <1>7, <1>9, <1>10, <1>11, <1>13, <1>14 DEF ChanInv

\* A receive takes the oldest value of the buffer.
LEMMA ReceiveBufferedKeeps ==
    ASSUME IInv, NEW t \in Tasks, ReceiveBuffered(t)
    PROVE  /\ ChanInv' /\ Contents' = Tail(Contents) /\ Contents # <<>>
           /\ received' = Append(received, Head(Contents))
<1>1. /\ ChanInv /\ length # 0 /\ senders = <<>> /\ UNCHANGED taskVars
      /\ received' = Append(received, buffer[head])
      /\ head' = (head + 1) % capacity /\ length' = length - 1
      /\ UNCHANGED <<capacity, buffer, closed, senders, receivers, chanAlive, value, out,
                     sent, mine, fate>>
  BY Zenon DEF ReceiveBuffered, IInv
<1>2. call' = call /\ waitResult' = waitResult
  BY Zenon, <1>1 DEF taskVars
<1>3. buffer[head] \in Values /\ received \in Seq(Values)
  BY Zenon, <1>1, OldestStored DEF ChanInv, ChannelOK
<1>4. /\ Contents' = Tail(Contents) /\ Head(Contents) = buffer[head]
      /\ Contents # <<>> /\ head' \in 0..(capacity - 1)
  BY Zenon, <1>1, PopContents DEF ChanInv
<1>5. Contents \in Seq(Values \cup {None})
  BY Zenon, <1>1, ContentsAre DEF ChanInv
<1>6. Elems(Contents) = Elems(Contents') \cup {buffer[head]}
  BY Zenon, <1>4, <1>5, SeqElems
<1>7. Elems(received') = Elems(received) \cup {buffer[head]} /\ received' \in Seq(Values)
  BY <1>1, <1>3, SeqElems, SeqAppend
<1>8. Stored' = Stored
  BY Zenon, <1>6, <1>7 DEF Stored
<1>9. /\ length' \in 0..capacity /\ head' \in 0..capacity /\ head' < capacity
      /\ receivers = <<>>
  BY <1>1, <1>4 DEF ChanInv, ChannelOK, WaitsOK
<1>10. ChannelOK'
  BY Zenon, <1>1, <1>7, <1>9 DEF ChanInv, ChannelOK
<1>11. WaitsOK'
  BY Zenon, <1>1, <1>9 DEF WaitsOK
<1>12. \A v \in Values : ValueOK(v)'
  BY Zenon, <1>1, <1>8 DEF ChanInv, ValueOK
<1>13. \A u \in Tasks : SenderOK(u)' /\ ReceiverOK(u)'
  BY Zenon, <1>1, <1>2, <1>8 DEF ChanInv, SenderOK, ReceiverOK
<1> QED
  BY Zenon, <1>1, <1>4, <1>8, <1>9, <1>10, <1>11, <1>12, <1>13 DEF ChanInv

\* The oldest sender that waits, and what waking it does.
LEMMA ServeSender ==
    ASSUME IInv, senders # <<>>, senders' = Tail(senders), Wake({Head(senders)}, "OK")
    PROVE  /\ Head(senders) \in Tasks /\ Head(senders) \in Elems(senders)
           /\ WaitQueue(senders') /\ Elems(senders') = Elems(senders) \ {Head(senders)}
           /\ call[Head(senders)] = "send" /\ call' = call
           /\ waitResult'[Head(senders)] = "OK"
           /\ \A u \in Tasks \ {Head(senders)} : waitResult'[u] = waitResult[u]
           /\ value[Head(senders)] \in Values
<1> DEFINE s == Head(senders)
<1>1. /\ s \in Tasks /\ s \in Elems(senders) /\ WaitQueue(senders')
      /\ Elems(senders') = Elems(senders) \ {s}
  BY Zenon, QueueTypes, LeaveQueue
<1>2. call[s] = "send"
  BY Zenon, <1>1, QueuedCalls
<1>3. Wake({s}, "OK")
  BY Zenon
<1> HIDE DEF s
<1>4. /\ call' = call /\ waitResult'[s] = "OK"
      /\ \A u \in Tasks \ {s} : waitResult'[u] = waitResult[u]
  <2>1. TaskInv /\ {s} \in SUBSET Tasks
    BY Zenon, <1>1 DEF IInv
  <2> QED
    BY Zenon, <1>3, <2>1, WakeTasks
<1>5. value[s] \in Values
  <2>1. SenderOK(s) /\ sent \in 0..MaxSends /\ MaxSends \in Nat
    BY Zenon, <1>1, CapacityAssumption DEF IInv, ChanInv, ChannelOK
  <2>2. value[s] \in 1..sent
    BY Zenon, <1>1, <1>2, <2>1 DEF SenderOK
  <2> QED
    BY <2>1, <2>2 DEF Values
<1> QED
  BY Zenon, <1>1, <1>2, <1>4, <1>5 DEF s

\* A receive takes the oldest value and lets the oldest sender in.
LEMMA ReceiveRefillKeeps ==
    ASSUME IInv, NEW t \in Tasks, ReceiveRefill(t)
    PROVE  /\ ChanInv' /\ Contents' = Append(Tail(Contents), value[Head(senders)])
           /\ Contents # <<>> /\ received' = Append(received, Head(Contents))
<1> DEFINE s == Head(senders)
<1>1. /\ ChanInv /\ length # 0 /\ senders # <<>> /\ senders' = Tail(senders)
      /\ received' = Append(received, buffer[head]) /\ head' = (head + 1) % capacity
      /\ buffer' = BufferPush((head + 1) % capacity, length - 1, value[s])
      /\ value' = [value EXCEPT ![s] = None] /\ Wake({s}, "OK")
      /\ UNCHANGED <<capacity, length, closed, receivers, chanAlive, out, sent, mine, fate>>
  BY Zenon DEF ReceiveRefill, IInv
<1>2. /\ s \in Tasks /\ s \in Elems(senders) /\ WaitQueue(senders')
      /\ Elems(senders') = Elems(senders) \ {s} /\ call[s] = "send" /\ call' = call
      /\ waitResult'[s] = "OK" /\ value[s] \in Values
      /\ \A u \in Tasks \ {s} : waitResult'[u] = waitResult[u]
  BY Zenon, <1>1, ServeSender
<1> HIDE DEF s
<1>3. buffer[head] \in Values /\ received \in Seq(Values)
  BY Zenon, <1>1, OldestStored DEF ChanInv, ChannelOK
<1>4. /\ Contents' = Append(Tail(Contents), value[s]) /\ Head(Contents) = buffer[head]
      /\ Contents # <<>> /\ head' \in 0..(capacity - 1)
      /\ buffer' \in [0..(capacity - 1) -> Values \cup {None}]
  BY Zenon, <1>1, <1>2, RefillContents DEF ChanInv
<1>5. /\ Contents \in Seq(Values \cup {None})
      /\ Tail(Contents) \in Seq(Values \cup {None})
  BY Zenon, <1>1, <1>4, ContentsAre, SeqTail DEF ChanInv
<1>6. /\ Elems(Contents) = Elems(Tail(Contents)) \cup {buffer[head]}
      /\ Elems(Contents') = Elems(Tail(Contents)) \cup {value[s]}
  <2>1. Elems(Contents) = Elems(Tail(Contents)) \cup {buffer[head]}
    BY Zenon, <1>4, <1>5, SeqElems
  <2>2. value[s] \in Values \cup {None}
    BY Zenon, <1>2
  <2>3. \A q \in Seq(Values \cup {None}), v \in Values \cup {None} :
           Elems(Append(q, v)) = Elems(q) \cup {v}
    BY SeqElems
  <2>4. Elems(Append(Tail(Contents), value[s])) = Elems(Tail(Contents)) \cup {value[s]}
    BY Zenon, <1>5, <2>2, <2>3
  <2> QED
    BY Zenon, <1>4, <2>1, <2>4
<1>7. Elems(received') = Elems(received) \cup {buffer[head]} /\ received' \in Seq(Values)
  BY <1>1, <1>3, SeqElems, SeqAppend
<1>8. Stored' = Stored \cup {value[s]}
  BY Zenon, <1>6, <1>7 DEF Stored
<1>9. /\ value' \in [Tasks -> Values \cup {None}] /\ Stored' \subseteq 1..sent'
      /\ \A v \in Values : ValueOK(v)'
      /\ \A u \in Tasks : SenderOK(u)'
  BY Zenon, <1>1, <1>2, <1>8, SenderServed
<1>10. head' \in 0..capacity /\ head' < capacity /\ capacity \in Nat
  BY <1>1, <1>4 DEF ChanInv, ChannelOK
<1>11. ChannelOK'
  BY Zenon, <1>1, <1>2, <1>4, <1>7, <1>9, <1>10 DEF ChanInv, ChannelOK
<1>12. WaitsOK'
  BY Zenon, <1>1 DEF ChanInv, WaitsOK
<1>13. \A u \in Tasks : ReceiverOK(u)'
  BY Zenon, <1>1, <1>2 DEF ChanInv, ReceiverOK
<1>14. ChanInv'
  BY Zenon, <1>1, <1>9, <1>10, <1>11, <1>12, <1>13 DEF ChanInv
<1> QED
  BY Zenon, <1>1, <1>4, <1>14 DEF s

\* A receive meets a sender that waits.
LEMMA ReceiveMeetKeeps ==
    ASSUME IInv, NEW t \in Tasks, ReceiveMeet(t)
    PROVE  ChanInv'
<1> DEFINE s == Head(senders)
<1>1. /\ ChanInv /\ length = 0 /\ senders # <<>> /\ senders' = Tail(senders)
      /\ received' = Append(received, value[s])
      /\ value' = [value EXCEPT ![s] = None] /\ Wake({s}, "OK")
      /\ UNCHANGED <<capacity, buffer, head, length, closed, receivers, chanAlive, out,
                     sent, mine, fate>>
  BY Zenon DEF ReceiveMeet, IInv, bufVars
<1>2. /\ s \in Tasks /\ s \in Elems(senders) /\ WaitQueue(senders')
      /\ Elems(senders') = Elems(senders) \ {s} /\ call[s] = "send" /\ call' = call
      /\ waitResult'[s] = "OK" /\ value[s] \in Values
      /\ \A u \in Tasks \ {s} : waitResult'[u] = waitResult[u]
  BY Zenon, <1>1, ServeSender
<1> HIDE DEF s
<1>3. received \in Seq(Values)
  BY Zenon, <1>1 DEF ChanInv, ChannelOK
<1>4. Elems(received') = Elems(received) \cup {value[s]} /\ received' \in Seq(Values)
  <2>1. ASSUME NEW v \in Values
        PROVE  Elems(Append(received, v)) = Elems(received) \cup {v}
    BY <1>3, SeqElems
  <2>2. ASSUME NEW v \in Values
        PROVE  Append(received, v) \in Seq(Values)
    BY Zenon, <1>3, SeqAppend
  <2> QED
    BY Zenon, <1>1, <1>2, <2>1, <2>2
<1>5. Stored' = Stored \cup {value[s]}
  BY Zenon, <1>1, <1>4 DEF Stored, Contents
<1>6. /\ value' \in [Tasks -> Values \cup {None}] /\ Stored' \subseteq 1..sent'
      /\ \A v \in Values : ValueOK(v)'
      /\ \A u \in Tasks : SenderOK(u)'
  BY Zenon, <1>1, <1>2, <1>5, SenderServed
<1>7. ChannelOK'
  BY Zenon, <1>1, <1>2, <1>4, <1>6 DEF ChanInv, ChannelOK
<1>8. WaitsOK'
  BY Zenon, <1>1 DEF ChanInv, WaitsOK
<1>9. \A u \in Tasks : ReceiverOK(u)'
  BY Zenon, <1>1, <1>2 DEF ChanInv, ReceiverOK
<1> QED
  BY Zenon, <1>1, <1>6, <1>7, <1>8, <1>9 DEF ChanInv

\* A receive parks on an empty channel.
LEMMA ReceiveParkKeeps ==
    ASSUME IInv, NEW t \in Tasks, ReceivePark(t)
    PROVE  ChanInv'
<1>1. /\ ChanInv /\ length = 0 /\ senders = <<>> /\ ~closed /\ chanAlive
      /\ Park(t, "receive") /\ receivers' = Append(receivers, t)
      /\ UNCHANGED <<capacity, buffer, head, length, closed, senders, chanAlive, value, out,
                     sent, received, mine, fate>>
  BY Zenon DEF ReceivePark, IInv, bufVars, history
<1>2. TaskInv /\ QueueOf("receive", receivers) /\ WaitQueue(receivers)
      /\ "receive" \in Calls \ {"none"}
  BY Zenon, QueueTypes DEF IInv, Queues, Calls
<1>3. /\ t \notin Elems(receivers) /\ call[t] = "none" /\ call'[t] = "receive"
      /\ \A u \in Tasks \ {t} : call'[u] = call[u] /\ waitResult'[u] = waitResult[u]
  BY Zenon, <1>1, <1>2, ParkTask, ParkQueue
<1>4. Elems(receivers') = Elems(receivers) \cup {t} /\ WaitQueue(receivers')
  BY Zenon, <1>1, <1>2, <1>3, JoinQueue
<1>5. Stored' = Stored
  BY Zenon, <1>1 DEF Stored, Contents
<1>6. ChannelOK'
  BY Zenon, <1>1, <1>4 DEF ChanInv, ChannelOK
<1>7. WaitsOK'
  BY Zenon, <1>1 DEF WaitsOK
<1>8. \A v \in Values : ValueOK(v)'
  BY Zenon, <1>1, <1>5 DEF ChanInv, ValueOK
<1>9. ASSUME NEW u \in Tasks PROVE SenderOK(u)'
  BY ZenonT(30), <1>1, <1>3, <1>5 DEF ChanInv, SenderOK
<1>10. ASSUME NEW u \in Tasks PROVE ReceiverOK(u)'
  BY Zenon, <1>1, <1>3, <1>4 DEF ChanInv, ReceiverOK
<1> QED
  BY Zenon, <1>1, <1>5, <1>6, <1>7, <1>8, <1>9, <1>10 DEF ChanInv

\* vl_channel_close tells every waiting sender and receiver, and keeps what is
\* in the buffer.
LEMMA CloseKeeps ==
    ASSUME IInv, Close
    PROVE  ChanInv'
<1> DEFINE W == Elems(senders) \cup Elems(receivers)
<1>1. /\ ChanInv /\ closed' = TRUE /\ Wake(W, "CLOSED")
      /\ value' = [t \in Tasks |-> IF t \in Elems(senders) THEN None ELSE value[t]]
      /\ senders' = <<>> /\ receivers' = <<>>
      /\ UNCHANGED <<capacity, buffer, head, length, chanAlive, out, sent, received, mine,
                     fate>>
  BY Zenon DEF Close, IInv, bufVars, history
<1>2. W \in SUBSET Tasks /\ \A t \in W : call[t] \in {"send", "receive"}
  BY QueueTypes, QueuedCalls DEF WaitQueue, Elems
<1>3. /\ call' = call /\ \A t \in W : waitResult'[t] = "CLOSED"
      /\ \A t \in Tasks \ W : waitResult'[t] = waitResult[t]
  <2>1. TaskInv
    BY Zenon DEF IInv
  <2> QED
    BY Zenon, <1>1, <1>2, <2>1, WakeTasks
<1>4. Stored' = Stored
  BY Zenon, <1>1 DEF Stored, Contents
<1>5. Elems(senders') = {} /\ Elems(receivers') = {}
      /\ WaitQueue(senders') /\ WaitQueue(receivers')
  BY Zenon, <1>1, EmptyQueue
<1>6. value' \in [Tasks -> Values \cup {None}]
  BY Zenon, <1>1 DEF ChanInv, ChannelOK
<1>7. ChannelOK'
  BY Zenon, <1>1, <1>5, <1>6 DEF ChanInv, ChannelOK
<1>8. WaitsOK'
  BY Zenon, <1>1 DEF WaitsOK
<1>9. \A v \in Values : ValueOK(v)'
  BY Zenon, <1>1, <1>4 DEF ChanInv, ValueOK
<1>10. ASSUME NEW t \in Tasks PROVE SenderOK(t)'
  <2>1. SenderOK(t)
    BY Zenon, <1>1 DEF ChanInv
  <2>2. CASE t \in Elems(senders)
    BY Zenon, <1>1, <1>3, <1>4, <1>5, <2>1, <2>2 DEF SenderOK
  <2>3. CASE t \notin Elems(senders) /\ call[t] = "send"
    <3>1. t \notin W
      BY Zenon, <2>3, QueuedCalls
    <3> QED
      BY Zenon, <1>1, <1>3, <1>4, <1>5, <2>1, <2>3, <3>1 DEF SenderOK
  <2>4. CASE call[t] # "send"
    BY Zenon, <1>3, <2>4 DEF SenderOK
  <2> QED
    BY Zenon, <2>2, <2>3, <2>4
<1>11. ASSUME NEW t \in Tasks PROVE ReceiverOK(t)'
  <2>1. ReceiverOK(t)
    BY Zenon, <1>1 DEF ChanInv
  <2>2. CASE t \in Elems(receivers)
    BY Zenon, <1>1, <1>3, <1>5, <2>1, <2>2 DEF ReceiverOK
  <2>3. CASE t \notin Elems(receivers) /\ call[t] = "receive"
    <3>1. t \notin W
      BY Zenon, <2>3, QueuedCalls
    <3> QED
      BY Zenon, <1>1, <1>3, <1>5, <2>1, <2>3, <3>1 DEF ReceiverOK
  <2>4. CASE call[t] # "receive"
    BY Zenon, <1>1, <1>3, <2>1, <2>4 DEF ReceiverOK
  <2> QED
    BY Zenon, <2>2, <2>3, <2>4
<1> QED
  BY Zenon, <1>1, <1>4, <1>7, <1>8, <1>9, <1>10, <1>11 DEF ChanInv

\* vl_channel_destroy needs a channel that nobody waits for.
LEMMA ChannelDestroyKeeps ==
    ASSUME IInv, ChannelDestroy
    PROVE  ChanInv'
<1>1. /\ ChanInv /\ senders = <<>> /\ receivers = <<>> /\ chanAlive' = FALSE
      /\ UNCHANGED taskVars
      /\ UNCHANGED <<capacity, buffer, head, length, closed, senders, receivers, value, out,
                     sent, received, mine, fate>>
  BY QueueTypes DEF ChannelDestroy, IInv, bufVars, history, WaitQueue
<1>2. call' = call /\ waitResult' = waitResult
  BY Zenon, <1>1 DEF taskVars
<1>3. Stored' = Stored
  BY Zenon, <1>1 DEF Stored, Contents
<1>4. ChannelOK' /\ WaitsOK'
  BY Zenon, <1>1 DEF ChanInv, ChannelOK, WaitsOK
<1>5. \A v \in Values : ValueOK(v)'
  BY Zenon, <1>1, <1>3 DEF ChanInv, ValueOK
<1>6. \A t \in Tasks : SenderOK(t)' /\ ReceiverOK(t)'
  BY Zenon, <1>1, <1>2, <1>3 DEF ChanInv, SenderOK, ReceiverOK
<1> QED
  BY Zenon, <1>1, <1>3, <1>4, <1>5, <1>6 DEF ChanInv

\* A send or a receive that had parked returns with what happened to it.
LEMMA ChannelReturnKeeps ==
    ASSUME IInv, NEW t \in Tasks, ResumeTask(t), ChannelReturns(t)
    PROVE  ChanInv'
<1>1. /\ ChanInv
      /\ fate' = IF call[t] = "send" THEN [fate EXCEPT ![mine[t]] = waitResult[t]] ELSE fate
      /\ mine' = [mine EXCEPT ![t] = None] /\ out' = [out EXCEPT ![t] = None]
      /\ UNCHANGED <<capacity, buffer, head, length, closed, senders, receivers, chanAlive,
                     value, sent, received>>
  BY Zenon DEF ChannelReturns, IInv, bufVars
<1>2. TaskInv /\ QueueOf("send", senders) /\ WaitQueue(senders)
      /\ "send" \in Calls \ {"none"}
  BY Zenon, QueueTypes DEF IInv, Queues, Calls
<1>3. /\ call'[t] = "none" /\ \A u \in Tasks \ {t} : call'[u] = call[u]
      /\ waitResult' = waitResult /\ t \notin Elems(senders)
  BY Zenon, <1>2, ResumeKeeps
<1>4. Stored' = Stored
  BY Zenon, <1>1 DEF Stored, Contents
<1>5. /\ sent \in 0..MaxSends /\ MaxSends \in Nat /\ waitResult[t] \in {"OK", "CLOSED"}
      /\ fate \in [Values -> {"none", "pending", "OK", "CLOSED"}]
      /\ mine \in [Tasks -> Values \cup {None}] /\ out \in [Tasks -> Values \cup {None}]
  BY Zenon, <1>1, <1>2, CapacityAssumption
  DEF ChanInv, ChannelOK, TaskInv, TasksOK
<1>6. /\ fate' \in [Values -> {"none", "pending", "OK", "CLOSED"}]
      /\ mine' \in [Tasks -> Values \cup {None}] /\ out' \in [Tasks -> Values \cup {None}]
  BY Zenon, <1>1, <1>5
<1>7. ChannelOK' /\ WaitsOK'
  BY Zenon, <1>1, <1>6 DEF ChanInv, ChannelOK, WaitsOK
<1>8. ASSUME call[t] = "send"
      PROVE  /\ mine[t] \in 1..sent /\ mine[t] \in Values
             /\ waitResult[t] = "OK" <=> mine[t] \in Stored
             /\ \A u \in Tasks : call[u] = "send" /\ mine[u] = mine[t] => u = t
  <2>1. SenderOK(t)
    BY Zenon, <1>1 DEF ChanInv
  <2>2. mine[t] \in 1..sent
    BY Zenon, <1>8, <2>1 DEF SenderOK
  <2> QED
    BY <1>3, <1>5, <1>8, <2>1, <2>2 DEF SenderOK, Values
<1>9. ASSUME NEW v \in Values PROVE ValueOK(v)'
  <2>1. ValueOK(v)
    BY Zenon, <1>1 DEF ChanInv
  <2>2. CASE call[t] = "send" /\ v = mine[t]
    <3>1. fate'[v] = waitResult[t] /\ v <= sent
      BY <1>1, <1>5, <1>8, <2>2
    <3> QED
      BY Zenon, <1>1, <1>4, <1>5, <1>8, <2>2, <3>1 DEF ValueOK
  <2>3. CASE ~(call[t] = "send" /\ v = mine[t])
    <3>1. fate'[v] = fate[v]
      BY Zenon, <1>1, <1>5, <2>3
    <3> QED
      BY Zenon, <1>1, <1>4, <2>1, <3>1 DEF ValueOK
  <2> QED
    BY Zenon, <2>2, <2>3
<1>10. ASSUME NEW u \in Tasks PROVE SenderOK(u)'
  <2>1. CASE u = t
    BY Zenon, <1>3, <2>1 DEF SenderOK
  <2>2. CASE u # t /\ call[u] = "send"
    <3>1. SenderOK(u) /\ mine'[u] = mine[u]
      BY Zenon, <1>1, <1>5, <2>2 DEF ChanInv
    <3>2. mine[u] \in Values
      BY <1>5, <2>2, <3>1 DEF SenderOK, Values
    <3>3. fate'[mine[u]] = fate[mine[u]]
      BY Zenon, <1>1, <1>5, <1>8, <2>2, <3>2
    <3>4. \A w \in Tasks : call'[w] = "send" /\ mine'[w] = mine'[u] => w = u
      BY Zenon, <1>1, <1>3, <1>5, <2>2, <3>1 DEF SenderOK
    <3>5. /\ mine[u] \in 1..sent /\ fate[mine[u]] = "pending"
          /\ u \in Elems(senders) => value[u] = mine[u] /\ mine[u] \notin Stored
          /\ u \notin Elems(senders) => (waitResult[u] = "OK" <=> mine[u] \in Stored)
      BY Zenon, <2>2, <3>1 DEF SenderOK
    <3>6. sent' = sent /\ senders' = senders /\ value' = value /\ waitResult' = waitResult
      BY Zenon, <1>1, <1>3
    <3>7. /\ mine'[u] \in 1..sent' /\ fate'[mine'[u]] = "pending"
          /\ u \in Elems(senders') => value'[u] = mine'[u] /\ mine'[u] \notin Stored'
          /\ u \notin Elems(senders') => (waitResult'[u] = "OK" <=> mine'[u] \in Stored')
      BY Zenon, <1>4, <3>1, <3>3, <3>5, <3>6
    <3> QED
      BY Zenon, <3>4, <3>7 DEF SenderOK
  <2>3. CASE u # t /\ call[u] # "send"
    BY Zenon, <1>3, <2>3 DEF SenderOK
  <2> QED
    BY Zenon, <2>1, <2>2, <2>3
<1>11. ASSUME NEW u \in Tasks PROVE ReceiverOK(u)'
  <2>1. CASE u = t
    BY Zenon, <1>1, <1>3, <1>5, <2>1 DEF ReceiverOK
  <2>2. CASE u # t
    <3>1. ReceiverOK(u) /\ out'[u] = out[u]
      BY Zenon, <1>1, <1>5, <2>2 DEF ChanInv
    <3> QED
      BY Zenon, <1>1, <1>3, <2>2, <3>1 DEF ReceiverOK
  <2> QED
    BY Zenon, <2>1, <2>2
<1> QED
  BY Zenon, <1>1, <1>4, <1>7, <1>9, <1>10, <1>11 DEF ChanInv

\* Every step of the channel keeps the invariant.
LEMMA ChanKeeps ==
    ASSUME IInv, Chan
    PROVE  IInv'
<1>0. UNCHANGED <<mutexVars, semVars, groupVars>> /\ ChannelStep
  BY Zenon DEF Chan
<1>q. UNCHANGED <<mutexWaiters, semWaiters, groupWaiters>>
  BY Zenon, <1>0 DEF mutexVars, semVars, groupVars
<1>c. {"send", "receive"} \subseteq Calls \ {"none"}
  BY Zenon DEF Calls
<1>1. ASSUME Untouched({"lock"}), Untouched({"sem_wait"}), Untouched({"group_wait"}),
             TaskInv', Queues', ChanInv'
      PROVE  IInv'
  BY Zenon, <1>0, <1>1, MutexKept, SemKept, GroupKept DEF IInv
<1>2. ASSUME UNCHANGED taskVars, UNCHANGED <<senders, receivers>>, ChanInv' PROVE IInv'
  BY Zenon, <1>q, <1>1, <1>2, TasksKept
<1>3. ASSUME NEW t \in Tasks, NEW c \in {"send", "receive"}, Park(t, c), ChanInv',
             senders' = IF c = "send" THEN Append(senders, t) ELSE senders,
             receivers' = IF c = "receive" THEN Append(receivers, t) ELSE receivers
      PROVE  IInv'
  <2>1. TaskInv'
    BY Zenon, <1>c, <1>3, ParkTask DEF IInv
  <2>2. Queues'
    BY Zenon, <1>c, <1>q, <1>3, ParkQueues
  <2>3. Untouched({"lock"}) /\ Untouched({"sem_wait"}) /\ Untouched({"group_wait"})
    BY Zenon, <1>c, <1>3, ParkUntouched
  <2> QED
    BY Zenon, <1>1, <1>3, <2>1, <2>2, <2>3
<1>4. ASSUME NEW W \in SUBSET Tasks, NEW r \in {"OK", "CLOSED"}, Wake(W, r), ChanInv',
             \A t \in W : call[t] \in {"send", "receive"},
             Elems(senders') = Elems(senders) \ W,
             Elems(receivers') = Elems(receivers) \ W
      PROVE  IInv'
  <2>1. /\ Elems(mutexWaiters) = Elems(mutexWaiters) \ W
        /\ Elems(semWaiters) = Elems(semWaiters) \ W
        /\ Elems(groupWaiters) = Elems(groupWaiters) \ W
    BY Zenon, <1>4, QueuedCalls
  <2>2. TaskInv'
    BY Zenon, <1>4, WakeTasks DEF IInv
  <2>3. Queues'
    BY Zenon, <1>q, <1>4, <2>1, WakeQueues
  <2>4. Untouched({"lock"}) /\ Untouched({"sem_wait"}) /\ Untouched({"group_wait"})
    BY Zenon, <1>4, WakeUntouched
  <2> QED
    BY Zenon, <1>1, <1>4, <2>2, <2>3, <2>4
<1>5. CASE Close
  <2> DEFINE W == Elems(senders) \cup Elems(receivers)
  <2>1. Wake(W, "CLOSED") /\ senders' = <<>> /\ receivers' = <<>>
    BY Zenon, <1>5 DEF Close
  <2>2. W \in SUBSET Tasks /\ \A t \in W : call[t] \in {"send", "receive"}
    BY QueueTypes, QueuedCalls DEF WaitQueue, Elems
  <2>3. Elems(senders') = Elems(senders) \ W /\ Elems(receivers') = Elems(receivers) \ W
    BY Zenon, <2>1, EmptyQueue
  <2>4. ChanInv'
    BY Zenon, <1>5, CloseKeeps
  <2> HIDE DEF W
  <2> QED
    BY Zenon, <1>4, <2>1, <2>2, <2>3, <2>4
<1>6. CASE ChannelDestroy
  BY Zenon, <1>2, <1>6, ChannelDestroyKeeps DEF ChannelDestroy
<1>7. ASSUME NEW t \in Tasks, SendClosed(t) \/ SendBuffer(t) \/ ReceiveBuffered(t)
      PROVE  IInv'
  <2>1. UNCHANGED taskVars /\ UNCHANGED <<senders, receivers>>
    BY Zenon, <1>7 DEF SendClosed, SendBuffer, ReceiveBuffered
  <2> QED
    BY Zenon, <1>2, <1>7, <2>1, SendClosedKeeps, SendBufferKeeps,
       ReceiveBufferedKeeps
<1>8. ASSUME NEW t \in Tasks, SendMeet(t) PROVE IInv'
  <2> DEFINE W == {Head(receivers)}
  <2>1. /\ Wake(W, "OK") /\ receivers # <<>> /\ receivers' = Tail(receivers)
        /\ senders' = senders
    BY Zenon, <1>8 DEF SendMeet
  <2>2. /\ W \in SUBSET Tasks /\ \A u \in W : u \in Elems(receivers)
        /\ Elems(receivers') = Elems(receivers) \ W
    BY Zenon, <2>1, QueueTypes, LeaveQueue
  <2>3. \A u \in W : call[u] = "receive"
    BY Zenon, <2>2, QueuedCalls
  <2>4. Elems(senders') = Elems(senders) \ W
    BY Zenon, <2>1, <2>3, QueuedCalls
  <2>5. ChanInv'
    BY Zenon, <1>8, SendMeetKeeps
  <2> HIDE DEF W
  <2> QED
    BY Zenon, <1>4, <2>1, <2>2, <2>3, <2>4, <2>5
<1>9. ASSUME NEW t \in Tasks, ReceiveRefill(t) \/ ReceiveMeet(t) PROVE IInv'
  <2> DEFINE W == {Head(senders)}
  <2>1. /\ Wake(W, "OK") /\ senders # <<>> /\ senders' = Tail(senders)
        /\ receivers' = receivers
    BY Zenon, <1>9 DEF ReceiveRefill, ReceiveMeet
  <2>2. /\ W \in SUBSET Tasks /\ \A u \in W : u \in Elems(senders)
        /\ Elems(senders') = Elems(senders) \ W
    BY Zenon, <2>1, QueueTypes, LeaveQueue
  <2>3. \A u \in W : call[u] = "send"
    BY Zenon, <2>2, QueuedCalls
  <2>4. Elems(receivers') = Elems(receivers) \ W
    BY Zenon, <2>1, <2>3, QueuedCalls
  <2>5. ChanInv'
    BY Zenon, <1>9, ReceiveRefillKeeps, ReceiveMeetKeeps
  <2> HIDE DEF W
  <2> QED
    BY Zenon, <1>4, <2>1, <2>2, <2>3, <2>4, <2>5
<1>10. ASSUME NEW t \in Tasks, SendPark(t) PROVE IInv'
  <2>1. Park(t, "send") /\ senders' = Append(senders, t) /\ receivers' = receivers
    BY Zenon, <1>10 DEF SendPark
  <2> QED
    BY Zenon, <1>3, <1>10, <2>1, SendParkKeeps
<1>11. ASSUME NEW t \in Tasks, ReceivePark(t) PROVE IInv'
  <2>1. Park(t, "receive") /\ senders' = senders /\ receivers' = Append(receivers, t)
    BY Zenon, <1>11 DEF ReceivePark
  <2> QED
    BY Zenon, <1>3, <1>11, <2>1, ReceiveParkKeeps
<1> QED
  BY Zenon, <1>0, <1>5, <1>6, <1>7, <1>8, <1>9, <1>10, <1>11 DEF ChannelStep

-----------------------------------------------------------------------------
(* The channel is a first-in first-out queue                               *)

\* The values w of the tasks in the queue q.
ValuesIn(q, w) == [i \in DOMAIN q |-> w[q[i]]]

\* The values of the blocked senders, the oldest first.
LEMMA ValuesOf ==
    ASSUME NEW q \in Seq(Tasks), NEW w \in [Tasks -> Values \cup {None}]
    PROVE  /\ ValuesIn(q, w) \in Seq(Values \cup {None})
           /\ Len(ValuesIn(q, w)) = Len(q) /\ Len(q) \in Nat
           /\ \A i \in 1..Len(q) : ValuesIn(q, w)[i] = w[q[i]]
           /\ q = <<>> => ValuesIn(q, w) = <<>>
           /\ q # <<>> => ValuesIn(q, w) # <<>>
<1> DEFINE b == ValuesIn(q, w)
<1>1. /\ Len(q) \in Nat /\ DOMAIN q = 1..Len(q)
      /\ \A i \in 1..Len(q) : q[i] \in Tasks
  BY Zenon, SeqOf
<1>2. /\ b \in [1..Len(q) -> Values \cup {None}]
      /\ \A i \in 1..Len(q) : b[i] = w[q[i]]
  BY <1>1 DEF ValuesIn
<1> HIDE DEF b
<1>3. b \in Seq(Values \cup {None}) /\ Len(b) = Len(q)
  BY <1>1, <1>2
<1>4. (q = <<>> => Len(q) = 0) /\ (q # <<>> => Len(q) # 0)
  OBVIOUS
<1>5. (Len(b) = 0 => b = <<>>) /\ (Len(b) # 0 => b # <<>>)
  BY <1>3
<1> QED
  BY Zenon, <1>1, <1>2, <1>3, <1>4, <1>5 DEF b

\* The blocked values are those of the queue of senders.
LEMMA BlockedIs ==
    Blocked = ValuesIn(senders, value) /\ Blocked' = ValuesIn(senders', value')
BY Zenon DEF Blocked, ValuesIn

\* A sender that parks brings its value to the end.
LEMMA BlockedGrows ==
    ASSUME ChannelOK, ChannelOK', NEW t \in Tasks, t \notin Elems(senders),
           NEW v \in Values, senders' = Append(senders, t),
           value' = [value EXCEPT ![t] = v]
    PROVE  Blocked' = Append(Blocked, v)
<1> DEFINE n == Len(senders)
           a == Append(Blocked, v)
           b == Blocked'
<1>0. senders' \in Seq(Tasks) /\ value' \in [Tasks -> Values \cup {None}]
  BY Zenon DEF ChannelOK, WaitQueue
<1>1. senders \in Seq(Tasks) /\ value \in [Tasks -> Values \cup {None}]
  BY Zenon DEF ChannelOK, WaitQueue
<1>2. /\ n \in Nat /\ Len(senders') = n + 1 /\ senders'[n + 1] = t
      /\ DOMAIN senders = 1..n
  BY <1>1
<1>3. \A i \in 1..n : senders'[i] = senders[i] /\ senders[i] \in Tasks
  BY <1>1
<1>4. \A i \in 1..n : senders[i] # t
  BY Zenon, <1>2 DEF Elems
<1>5. /\ Blocked \in Seq(Values \cup {None}) /\ Len(Blocked) = n
      /\ \A i \in 1..n : Blocked[i] = value[senders[i]]
  BY Zenon, <1>1, ValuesOf, BlockedIs
<1>6. b \in Seq(Values \cup {None}) /\ Len(b) = n + 1
  BY Zenon, <1>0, <1>2, ValuesOf, BlockedIs
<1>7. \A i \in 1..(n + 1) : b[i] = value'[senders'[i]]
  <2>1. \A i \in 1..Len(senders') : ValuesIn(senders', value')[i] = value'[senders'[i]]
    BY Zenon, <1>0, ValuesOf
  <2>2. b = ValuesIn(senders', value')
    BY Zenon, BlockedIs
  <2> QED
    BY Zenon, <1>2, <2>1, <2>2
<1>8. a \in Seq(Values \cup {None}) /\ Len(a) = n + 1
  BY <1>5
<1>9. a[n + 1] = v /\ \A i \in 1..n : a[i] = Blocked[i]
  BY <1>5
<1>10. value'[t] = v /\ \A u \in Tasks : u # t => value'[u] = value[u]
  BY Zenon, <1>1
<1>11. b[n + 1] = v
  <2>1. n + 1 \in 1..(n + 1)
    BY <1>2
  <2> QED
    BY Zenon, <1>2, <1>7, <1>10, <2>1
<1> HIDE DEF a, b, n
<1>12. ASSUME NEW i \in 1..n PROVE b[i] = Blocked[i]
  <2>1. i \in 1..(n + 1)
    BY <1>2
  <2>2. b[i] = value'[senders[i]]
    BY Zenon, <1>3, <1>7, <2>1
  <2>3. value'[senders[i]] = value[senders[i]]
    BY Zenon, <1>3, <1>4, <1>10
  <2> QED
    BY Zenon, <1>5, <2>2, <2>3
<1>13. \A i \in 1..(n + 1) : i \in 1..n \/ i = n + 1
  BY <1>2
<1>14. \A i \in 1..Len(b) : b[i] = a[i]
  BY Zenon, <1>6, <1>9, <1>11, <1>12, <1>13
<1>15. b = a
  BY Zenon, <1>6, <1>8, <1>14, SeqSame
<1> QED
  BY Zenon, <1>15 DEF a, b

\* A sender that is served takes its value away from the front.
LEMMA BlockedShrinks ==
    ASSUME ChannelOK, ChannelOK', senders # <<>>, senders' = Tail(senders),
           value' = [value EXCEPT ![Head(senders)] = None]
    PROVE  /\ Blocked # <<>> /\ Head(Blocked) = value[Head(senders)]
           /\ Blocked' = Tail(Blocked)
<1> DEFINE n == Len(senders)
           a == Tail(Blocked)
           b == Blocked'
           s == Head(senders)
<1>0. senders' \in Seq(Tasks) /\ value' \in [Tasks -> Values \cup {None}]
  BY Zenon DEF ChannelOK, WaitQueue
<1>1. /\ senders \in Seq(Tasks) /\ value \in [Tasks -> Values \cup {None}]
      /\ \A i, k \in DOMAIN senders : senders[i] = senders[k] => i = k
  BY Zenon DEF ChannelOK, WaitQueue
<1>2. /\ n \in Nat \ {0} /\ Len(senders') = n - 1 /\ s = senders[1]
      /\ DOMAIN senders = 1..n
  BY <1>1
<1>3. \A i \in 1..(n - 1) : senders'[i] = senders[i + 1]
  BY <1>1
<1>4. \A i \in 1..(n - 1) : i + 1 \in 1..n /\ i + 1 # 1 /\ 1 \in 1..n
  BY <1>2
<1>5. \A i \in 1..(n - 1) : senders[i + 1] # s /\ senders[i + 1] \in Tasks
  BY Zenon, <1>1, <1>2, <1>4, SeqOf
<1>6. /\ Blocked \in Seq(Values \cup {None}) /\ Len(Blocked) = n /\ Blocked # <<>>
      /\ \A i \in 1..n : Blocked[i] = value[senders[i]]
  BY Zenon, <1>1, ValuesOf, BlockedIs
<1>7. b \in Seq(Values \cup {None}) /\ Len(b) = n - 1
  BY Zenon, <1>0, <1>2, ValuesOf, BlockedIs
<1>8. \A i \in 1..(n - 1) : b[i] = value'[senders'[i]]
  <2>1. \A i \in 1..Len(senders') : ValuesIn(senders', value')[i] = value'[senders'[i]]
    BY Zenon, <1>0, ValuesOf
  <2>2. b = ValuesIn(senders', value')
    BY Zenon, BlockedIs
  <2> QED
    BY Zenon, <1>2, <2>1, <2>2
<1>9. /\ a \in Seq(Values \cup {None}) /\ Len(a) = n - 1 /\ Head(Blocked) = Blocked[1]
  BY <1>6
<1>10. \A i \in 1..(n - 1) : a[i] = Blocked[i + 1]
  BY <1>6
<1>11. \A u \in Tasks : u # s => value'[u] = value[u]
  BY Zenon, <1>1
<1>12. Head(Blocked) = value[s]
  <2>1. 1 \in 1..n
    BY <1>2
  <2> QED
    BY Zenon, <1>2, <1>6, <1>9, <2>1
<1> HIDE DEF a, b, n, s
<1>13. ASSUME NEW i \in 1..(n - 1) PROVE b[i] = a[i]
  <2>1. b[i] = value'[senders[i + 1]]
    BY Zenon, <1>3, <1>8
  <2>2. value'[senders[i + 1]] = value[senders[i + 1]]
    BY Zenon, <1>5, <1>11
  <2>3. a[i] = value[senders[i + 1]]
    BY Zenon, <1>4, <1>6, <1>10
  <2> QED
    BY Zenon, <2>1, <2>2, <2>3
<1>14. b = a
  BY Zenon, <1>7, <1>9, <1>13, SeqSame
<1> QED
  BY Zenon, <1>6, <1>12, <1>14 DEF a, b, s

\* Every step of the primitives is a step of the queue or leaves it unchanged.
LEMMA FifoStep ==
    ASSUME IInv, [Next]_vars
    PROVE  [Fifo!Next]_(Fifo!vars)
<1> DEFINE V == Values \cup {None}
<1>0. /\ ChanInv /\ ChannelOK /\ WaitsOK /\ WaitQueue(senders) /\ senders \in Seq(Tasks)
      /\ value \in [Tasks -> V] /\ capacity \in Nat /\ length \in 0..capacity
  BY Zenon DEF IInv, ChanInv, ChannelOK, WaitQueue
<1>1. Contents \in Seq(V) /\ Len(Contents) = length
  BY Zenon, <1>0, ContentsAre DEF ChanInv
<1>2. /\ Blocked \in Seq(V) /\ Len(Blocked) = Len(senders)
      /\ senders = <<>> => Blocked = <<>>
      /\ senders # <<>> => Blocked # <<>>
  BY Zenon, <1>0, ValuesOf, BlockedIs
<1>3. length = 0 => Contents = <<>>
  BY <1>1
<1>4. ASSUME UNCHANGED <<capacity, buffer, head, length, closed, senders, value, received>>
      PROVE  UNCHANGED Fifo!vars
  BY Zenon, <1>4 DEF Fifo!vars, ValueQueue, Contents, Blocked
<1>5. ASSUME NEW t \in Tasks, SendMeet(t)
      PROVE  Fifo!Next
  <2>1. /\ ~closed /\ receivers # <<>> /\ received' = Append(received, sent + 1)
        /\ sent < MaxSends
        /\ UNCHANGED <<capacity, buffer, head, length, closed, senders, value>>
    BY Zenon, <1>5 DEF SendMeet, Sending, bufVars
  <2>2. sent + 1 \in Values
    BY <1>0, <2>1, CapacityAssumption DEF ChannelOK, Values
  <2>3. length = 0 /\ senders = <<>>
    BY Zenon, <1>0, <2>1 DEF WaitsOK
  <2>4. ValueQueue = <<>>
    BY Zenon, <1>1, <1>2, <1>3, <2>3, JoinedEmpty DEF ValueQueue
  <2>5. ValueQueue' = ValueQueue
    BY Zenon, <2>1 DEF ValueQueue, Contents, Blocked
  <2> QED
    BY Zenon, <2>1, <2>2, <2>4, <2>5 DEF Fifo!Next, Fifo!Meet
<1>6. ASSUME NEW t \in Tasks, SendBuffer(t)
      PROVE  Fifo!Next
  <2>1. /\ ~closed /\ length < capacity
        /\ UNCHANGED <<capacity, closed, senders, value, received>>
    BY Zenon, <1>6 DEF SendBuffer
  <2>2. Contents' = Append(Contents, sent + 1) /\ sent + 1 \in Values
    BY Zenon, <1>6, SendBufferKeeps
  <2>3. senders = <<>>
    BY <1>0, <2>1 DEF WaitsOK
  <2>4. Blocked = <<>> /\ Blocked' = <<>>
    BY Zenon, <1>2, <2>1, <2>3 DEF Blocked
  <2>5. Append(Contents, sent + 1) \in Seq(V) /\ <<>> \in Seq(V)
    BY <1>1, <2>2
  <2>6. ValueQueue = Contents /\ ValueQueue' = Append(Contents, sent + 1)
    BY Zenon, <1>1, <2>2, <2>4, <2>5, JoinedEmpty DEF ValueQueue
  <2> QED
    BY Zenon, <2>1, <2>2, <2>6 DEF Fifo!Next, Fifo!Send
<1>7. ASSUME NEW t \in Tasks, SendPark(t)
      PROVE  Fifo!Next
  <2>1. /\ ~closed /\ Park(t, "send") /\ sent < MaxSends
        /\ value' = [value EXCEPT ![t] = sent + 1] /\ senders' = Append(senders, t)
        /\ UNCHANGED <<capacity, buffer, head, length, closed, received>>
    BY Zenon, <1>7 DEF SendPark, Sending, bufVars
  <2>2. sent + 1 \in Values /\ sent + 1 \in V
    BY <1>0, <2>1, CapacityAssumption DEF ChannelOK, Values
  <2>3. t \notin Elems(senders)
    <3>1. "send" \in Calls \ {"none"}
      BY Zenon DEF Calls
    <3> QED
      BY Zenon, <1>0, <2>1, <3>1, ParkQueue DEF IInv, Queues
  <2>4. ChannelOK'
    BY Zenon, <1>7, SendParkKeeps DEF ChanInv
  <2>5. Blocked' = Append(Blocked, sent + 1)
    BY Zenon, <1>0, <2>1, <2>2, <2>3, <2>4, BlockedGrows
  <2>6. Contents' = Contents
    BY Zenon, <2>1 DEF Contents
  <2>7. ASSUME NEW v \in V
        PROVE  Contents \o Append(Blocked, v) = Append(Contents \o Blocked, v)
    BY <1>1, <1>2, JoinedLast
  <2>8. ValueQueue' = Append(ValueQueue, sent + 1)
    BY Zenon, <2>2, <2>5, <2>6, <2>7 DEF ValueQueue
  <2> QED
    BY Zenon, <2>1, <2>2, <2>8 DEF Fifo!Next, Fifo!Send
<1>8. ASSUME NEW t \in Tasks, ReceiveBuffered(t)
      PROVE  Fifo!Next
  <2>1. senders = <<>> /\ UNCHANGED <<capacity, closed, senders, value>>
    BY Zenon, <1>8 DEF ReceiveBuffered
  <2>2. /\ Contents' = Tail(Contents) /\ Contents # <<>>
        /\ received' = Append(received, Head(Contents))
    BY Zenon, <1>8, ReceiveBufferedKeeps
  <2>3. Blocked' = Blocked
    BY Zenon, <2>1 DEF Blocked
  <2>4. ValueQueue # <<>> /\ Head(ValueQueue) = Head(Contents)
        /\ ValueQueue' = Tail(ValueQueue)
    BY Zenon, <1>1, <1>2, <2>2, <2>3, JoinedFirst DEF ValueQueue
  <2> QED
    BY Zenon, <2>1, <2>2, <2>4 DEF Fifo!Next, Fifo!Receive
<1>9. ASSUME NEW t \in Tasks, ReceiveRefill(t)
      PROVE  Fifo!Next
  <2>1. /\ senders # <<>> /\ senders' = Tail(senders)
        /\ value' = [value EXCEPT ![Head(senders)] = None]
        /\ UNCHANGED <<capacity, closed>>
    BY Zenon, <1>9 DEF ReceiveRefill
  <2>2. /\ Contents' = Append(Tail(Contents), value[Head(senders)]) /\ Contents # <<>>
        /\ received' = Append(received, Head(Contents)) /\ ChannelOK'
    BY Zenon, <1>9, ReceiveRefillKeeps DEF ChanInv
  <2>3. /\ Blocked # <<>> /\ Head(Blocked) = value[Head(senders)]
        /\ Blocked' = Tail(Blocked)
    BY Zenon, <1>0, <2>1, <2>2, BlockedShrinks
  <2>4. Tail(Contents) \in Seq(V)
    BY Zenon, <1>1, <2>2, SeqTail
  <2>5. ValueQueue' = Tail(Contents) \o Blocked
    BY Zenon, <1>2, <2>2, <2>3, <2>4, JoinedMove DEF ValueQueue
  <2>6. ValueQueue # <<>> /\ Head(ValueQueue) = Head(Contents)
        /\ ValueQueue' = Tail(ValueQueue)
    BY Zenon, <1>1, <1>2, <2>2, <2>5, JoinedFirst DEF ValueQueue
  <2> QED
    BY Zenon, <2>1, <2>2, <2>6 DEF Fifo!Next, Fifo!Receive
<1>10. ASSUME NEW t \in Tasks, ReceiveMeet(t)
       PROVE  Fifo!Next
  <2>1. /\ length = 0 /\ senders # <<>> /\ senders' = Tail(senders)
        /\ received' = Append(received, value[Head(senders)])
        /\ value' = [value EXCEPT ![Head(senders)] = None]
        /\ UNCHANGED <<capacity, buffer, head, length, closed>>
    BY Zenon, <1>10 DEF ReceiveMeet, bufVars
  <2>2. ChannelOK'
    BY Zenon, <1>10, ReceiveMeetKeeps DEF ChanInv
  <2>3. /\ Blocked # <<>> /\ Head(Blocked) = value[Head(senders)]
        /\ Blocked' = Tail(Blocked)
    BY Zenon, <1>0, <2>1, <2>2, BlockedShrinks
  <2>4. Contents = <<>> /\ Contents' = <<>>
    BY Zenon, <1>3, <2>1 DEF Contents
  <2>5. Tail(Blocked) \in Seq(V)
    BY Zenon, <1>2, <2>3, SeqTail
  <2>6. ValueQueue = Blocked /\ ValueQueue' = Tail(Blocked)
    BY Zenon, <1>1, <1>2, <2>3, <2>4, <2>5, JoinedEmpty DEF ValueQueue
  <2> QED
    BY Zenon, <2>1, <2>3, <2>6 DEF Fifo!Next, Fifo!Receive
<1>11. ASSUME Close
       PROVE  Fifo!Next
  <2>1. /\ ~closed /\ closed' = TRUE /\ senders' = <<>>
        /\ UNCHANGED <<capacity, buffer, head, length, received>>
    BY Zenon, <1>11 DEF Close, bufVars, history
  <2>2. Contents' = Contents
    BY Zenon, <2>1 DEF Contents
  <2>3. Blocked' = <<>> /\ <<>> \in Seq(V)
    BY <2>1 DEF Blocked
  <2>4. ValueQueue' = Contents
    BY Zenon, <1>1, <2>2, <2>3, JoinedEmpty DEF ValueQueue
  <2>5. CASE senders = <<>>
    <3>1. ValueQueue = Contents
      BY Zenon, <1>1, <1>2, <2>5, JoinedEmpty DEF ValueQueue
    <3>2. ~(Len(ValueQueue) > capacity)
      BY <1>0, <1>1, <3>1
    <3> QED
      BY Zenon, <2>1, <2>4, <3>1, <3>2 DEF Fifo!Next, Fifo!Close
  <2>6. CASE senders # <<>>
    <3>1. length = capacity
      BY Zenon, <1>0, <2>6 DEF WaitsOK
    <3>2. SubSeq(ValueQueue, 1, capacity) = Contents
      BY Zenon, <1>1, <1>2, <3>1, JoinedCut DEF ValueQueue
    <3>3. Len(Blocked) \in Nat \ {0}
      BY Zenon, <1>2, <2>6, SeqTail
    <3>4. Len(ValueQueue) = Len(Contents) + Len(Blocked)
      BY Zenon, <1>1, <1>2, SeqConcat DEF ValueQueue
    <3>5. Len(ValueQueue) > capacity
      BY <1>0, <1>1, <3>1, <3>3, <3>4
    <3> QED
      BY Zenon, <2>1, <2>4, <3>2, <3>5 DEF Fifo!Next, Fifo!Close
  <2> QED
    BY Zenon, <2>5, <2>6
<1>12. ASSUME \E t \in Tasks : SendClosed(t) \/ ReceivePark(t)
       PROVE  UNCHANGED Fifo!vars
  BY Zenon, <1>4, <1>12 DEF SendClosed, ReceivePark, bufVars, waitVars, history
<1>13. ASSUME ChannelDestroy
       PROVE  UNCHANGED Fifo!vars
  BY Zenon, <1>4, <1>13 DEF ChannelDestroy, bufVars, history
<1>14. ASSUME Chan
       PROVE  Fifo!Next \/ UNCHANGED Fifo!vars
  BY Zenon, <1>5, <1>6, <1>7, <1>8, <1>9, <1>10, <1>11, <1>12, <1>13, <1>14
     DEF Chan, ChannelStep
<1>15. ASSUME UNCHANGED chanVars
       PROVE  UNCHANGED Fifo!vars
  BY Zenon, <1>4, <1>15 DEF chanVars, bufVars, waitVars, history
<1>16. ASSUME NEW t \in Tasks, Resume(t)
       PROVE  UNCHANGED Fifo!vars
  BY Zenon, <1>4, <1>16 DEF Resume, ChannelReturns, bufVars
<1>17. CASE Next
  <2>1. Chan \/ UNCHANGED chanVars \/ \E t \in Tasks : Resume(t)
    BY Zenon, <1>17 DEF Next, Mutex, Sem, Group, Cancel, Yield, Leave, objects
  <2> QED
    BY Zenon, <1>14, <1>15, <1>16, <2>1
<1>18. CASE UNCHANGED vars
  BY Zenon, <1>15, <1>18 DEF vars
<1> QED
  BY Zenon, <1>17, <1>18

\* The channel starts as an empty queue.
LEMMA FifoStart == Init => Fifo!Init
<1> SUFFICES ASSUME Init PROVE Fifo!Init
  BY Zenon
<1>1. /\ capacity \in Capacities /\ length = 0 /\ closed = FALSE
      /\ senders = <<>> /\ received = <<>>
  BY Zenon DEF Init, ChannelInit
<1>2. capacity \in Nat
  BY Zenon, <1>1, CapacityAssumption
<1>3. Contents = <<>> /\ Blocked = <<>>
  BY <1>1 DEF Contents, Blocked
<1>4. ValueQueue = <<>>
  BY <1>3 DEF ValueQueue
<1> QED
  BY Zenon, <1>1, <1>2, <1>4 DEF Fifo!Init
=============================================================================
