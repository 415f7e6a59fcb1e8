---------------------------- MODULE EpollCustody -----------------------------
(***************************************************************************)
(* Who holds what in the epoll backend, for any number of handles,         *)
(* requests, descriptors, sockets and generations: the types, each request *)
(* in flight in one place of one handle, what the epoll sets contain, and  *)
(* one claim per descriptor, held by the request that waits for it.        *)
(***************************************************************************)
EXTENDS EpollIo, TLAPS

-----------------------------------------------------------------------------
(* Sequences                                                               *)

\* The length and the elements of a sequence.
LEMMA SeqOf ==
    ASSUME NEW S, NEW s \in Seq(S)
    PROVE  /\ Len(s) \in Nat /\ DOMAIN s = 1..Len(s) /\ s \in [1..Len(s) -> S]
           /\ \A i \in 1..Len(s) : s[i] \in S
OBVIOUS

\* Concatenation.
LEMMA SeqConcat ==
    ASSUME NEW S, NEW s \in Seq(S), NEW t \in Seq(S)
    PROVE  /\ s \o t \in Seq(S) /\ Len(s \o t) = Len(s) + Len(t)
           /\ \A i \in 1..(Len(s) + Len(t)) :
                 (s \o t)[i] = IF i <= Len(s) THEN s[i] ELSE t[i - Len(s)]
OBVIOUS

\* An element at the end.
LEMMA SeqAppend ==
    ASSUME NEW S, NEW s \in Seq(S), NEW e \in S
    PROVE  /\ Append(s, e) \in Seq(S) /\ Len(Append(s, e)) = Len(s) + 1
           /\ \A i \in 1..Len(s) : Append(s, e)[i] = s[i]
           /\ Append(s, e)[Len(s) + 1] = e
OBVIOUS

\* The first element and the others.
LEMMA SeqTail ==
    ASSUME NEW S, NEW s \in Seq(S), s # <<>>
    PROVE  /\ Head(s) \in S /\ Head(s) = s[1] /\ Len(s) \in Nat \ {0}
           /\ Tail(s) \in Seq(S) /\ Len(Tail(s)) = Len(s) - 1
           /\ \A i \in 1..Len(Tail(s)) : Tail(s)[i] = s[i + 1]
OBVIOUS

\* A part of a sequence.
LEMMA SeqCut ==
    ASSUME NEW S, NEW s, NEW m \in Int, NEW n \in Int, \A i \in m..n : s[i] \in S
    PROVE  /\ SubSeq(s, m, n) \in Seq(S)
           /\ Len(SubSeq(s, m, n)) = IF m <= n THEN n - m + 1 ELSE 0
           /\ \A i \in 1..(n - m + 1) : SubSeq(s, m, n)[i] = s[m + i - 1]
OBVIOUS

(* Lists without repetition.                                               *)

Distinct(s) == \A i, j \in 1..Len(s) : s[i] = s[j] => i = j

\* A waiter in front of a list.
LEMMA PushProperties ==
    ASSUME NEW S, NEW s \in Seq(S), Distinct(s), NEW r \in S, r \notin Range(s)
    PROVE  /\ <<r>> \o s \in Seq(S) /\ Distinct(<<r>> \o s)
           /\ Range(<<r>> \o s) = Range(s) \cup {r}
  <1> DEFINE t == <<r>> \o s
  <1>1. <<r>> \in Seq(S) /\ Len(<<r>>) = 1 /\ <<r>>[1] = r
    OBVIOUS
  <1>2. /\ t \in Seq(S) /\ Len(t) = Len(s) + 1
        /\ \A i \in 1 .. Len(s) + 1 : t[i] = IF i <= 1 THEN r ELSE s[i - 1]
    BY <1>1, SeqConcat
  <1>3. Len(s) \in Nat /\ DOMAIN s = 1..Len(s) /\ DOMAIN t = 1..Len(t)
    BY Zenon, <1>2, SeqOf
  <1> HIDE DEF t
  <1>4. \A i \in 1..Len(t) : i # 1 => i - 1 \in 1..Len(s) /\ t[i] = s[i - 1]
    BY <1>2, <1>3
  <1>5. t[1] = r /\ 1 \in 1..Len(t)
    BY <1>2, <1>3
  <1>6. \A i \in 1..Len(s) : i + 1 \in 1..Len(t) /\ t[i + 1] = s[i]
    BY <1>2, <1>3
  <1>7. Distinct(t)
    BY <1>3, <1>4, <1>5 DEF Distinct, Range
  <1>8. Range(t) = Range(s) \cup {r}
    BY <1>3, <1>4, <1>5, <1>6 DEF Range
  <1> QED
    BY Zenon, <1>2, <1>7, <1>8 DEF t

\* A request at the end of a queue.
LEMMA AppendDistinct ==
    ASSUME NEW S, NEW s \in Seq(S), Distinct(s), NEW r \in S, r \notin Range(s)
    PROVE  /\ Append(s, r) \in Seq(S) /\ Distinct(Append(s, r))
           /\ Range(Append(s, r)) = Range(s) \cup {r}
  <1> DEFINE t == Append(s, r)
  <1>1. /\ t \in Seq(S) /\ Len(t) = Len(s) + 1
        /\ \A i \in 1 .. Len(s) : t[i] = s[i]
        /\ t[Len(s) + 1] = r
    BY Zenon, SeqAppend
  <1>2. Len(s) \in Nat /\ DOMAIN s = 1..Len(s) /\ DOMAIN t = 1..Len(t)
    BY Zenon, <1>1, SeqOf
  <1> HIDE DEF t
  <1>3. \A i \in 1..Len(t) : i # Len(s) + 1 => i \in 1..Len(s) /\ t[i] = s[i]
    BY <1>1, <1>2
  <1>4. \A i \in 1..Len(s) : i \in 1..Len(t) /\ t[i] = s[i]
    BY <1>1, <1>2
  <1>5. Len(s) + 1 \in 1..Len(t)
    BY <1>1, <1>2
  <1>6. Distinct(t)
    BY Zenon, <1>1, <1>2, <1>3 DEF Distinct, Range
  <1>7. Range(t) = Range(s) \cup {r}
    BY Zenon, <1>1, <1>2, <1>3, <1>4, <1>5 DEF Range
  <1> QED
    BY Zenon, <1>1, <1>6, <1>7 DEF t

\* A queue without its head.
LEMMA TailDistinct ==
    ASSUME NEW S, NEW s \in Seq(S), Distinct(s), s # << >>
    PROVE  /\ Tail(s) \in Seq(S) /\ Distinct(Tail(s))
           /\ Head(s) \in Range(s)
           /\ Range(Tail(s)) = Range(s) \ {Head(s)}
  <1> DEFINE t == Tail(s)
  <1>1. /\ t \in Seq(S) /\ Len(t) = Len(s) - 1
        /\ \A i \in 1 .. Len(t) : t[i] = s[i + 1]
    BY Zenon, SeqTail
  <1>2. /\ Len(s) \in Nat \ {0} /\ DOMAIN s = 1..Len(s) /\ DOMAIN t = 1..Len(t)
        /\ Head(s) = s[1]
    BY Zenon, <1>1, SeqOf, SeqTail
  <1> HIDE DEF t
  <1>3. \A i \in 1..Len(t) : i + 1 \in 1..Len(s) /\ i + 1 # 1 /\ t[i] = s[i + 1]
    BY <1>1, <1>2
  <1>4. \A i \in 1..Len(s) : i # 1 => i - 1 \in 1..Len(t) /\ t[i - 1] = s[i]
    BY <1>1, <1>2
  <1>5. 1 \in 1..Len(s)
    BY <1>2
  <1>6. Distinct(t)
    BY <1>2, <1>3 DEF Distinct
  <1>7. Head(s) \in Range(s) /\ Range(t) = Range(s) \ {Head(s)}
    <2>1. Head(s) \in Range(s)
      BY Zenon, <1>2, <1>5 DEF Range
    <2>2. ASSUME NEW x \in Range(t) PROVE x \in Range(s) /\ x # Head(s)
      BY <1>2, <1>3, <1>5 DEF Range, Distinct
    <2>3. ASSUME NEW x \in Range(s), x # Head(s) PROVE x \in Range(t)
      BY <1>2, <1>4, <2>3 DEF Range
    <2> QED
      BY Zenon, <2>1, <2>2, <2>3
  <1> QED
    BY Zenon, <1>1, <1>6, <1>7 DEF t

\* A list without one of its waiters.
LEMMA UnlinkProperties ==
    ASSUME NEW S, NEW s \in Seq(S), Distinct(s), NEW r \in Range(s)
    PROVE  /\ Unlink(s, r) \in Seq(S) /\ Distinct(Unlink(s, r))
           /\ Range(Unlink(s, r)) = Range(s) \ {r}
  <1> DEFINE k == CHOOSE i \in DOMAIN s : s[i] = r
             a == SubSeq(s, 1, k - 1)
             b == SubSeq(s, k + 1, Len(s))
             t == a \o b
  <1>1. Len(s) \in Nat /\ DOMAIN s = 1..Len(s) /\ \A i \in 1..Len(s) : s[i] \in S
    BY Zenon, SeqOf
  <1>2. k \in 1..Len(s) /\ s[k] = r
    BY Zenon, <1>1 DEF Range
  <1>3. Unlink(s, r) = t
    BY Zenon DEF Unlink
  <1> HIDE DEF k
  <1>4. /\ a \in Seq(S) /\ Len(a) = k - 1
        /\ \A i \in 1 .. k - 1 : a[i] = s[i]
    <2>1. /\ a \in Seq(S) /\ Len(a) = IF 1 <= k - 1 THEN (k - 1) - 1 + 1 ELSE 0
          /\ \A i \in 1 .. (k - 1) - 1 + 1 : a[i] = s[1 + i - 1]
      BY <1>1, <1>2, SeqCut
    <2> HIDE DEF a
    <2> QED
      BY <1>1, <1>2, <2>1
  <1>5. /\ b \in Seq(S) /\ Len(b) = Len(s) - k
        /\ \A i \in 1 .. Len(s) - k : b[i] = s[k + i]
    <2>1. /\ b \in Seq(S)
          /\ Len(b) = IF k + 1 <= Len(s) THEN Len(s) - (k + 1) + 1 ELSE 0
          /\ \A i \in 1 .. Len(s) - (k + 1) + 1 : b[i] = s[(k + 1) + i - 1]
      BY <1>1, <1>2, SeqCut
    <2> HIDE DEF b
    <2>2. Len(b) = Len(s) - k
      <3>1. CASE k + 1 <= Len(s)
        <4>1. Len(b) = Len(s) - (k + 1) + 1
          BY Zenon, <2>1, <3>1
        <4> QED
          BY <1>1, <1>2, <4>1
      <3>2. CASE ~(k + 1 <= Len(s))
        <4>1. Len(b) = 0
          BY Zenon, <2>1, <3>2
        <4>2. k \in Int /\ Len(s) \in Int /\ k <= Len(s)
          BY <1>1, <1>2
        <4>3. k = Len(s)
          BY <3>2, <4>2
        <4> QED
          BY <4>1, <4>2, <4>3
      <3> QED
        BY Zenon, <3>1, <3>2
    <2>3. ASSUME NEW i \in 1 .. Len(s) - k PROVE b[i] = s[k + i]
      <3>1. i \in 1 .. Len(s) - (k + 1) + 1
        BY <1>1, <1>2
      <3>2. (k + 1) + i - 1 = k + i
        BY <1>1, <1>2
      <3> QED
        BY Zenon, <2>1, <3>1, <3>2
    <2> QED
      BY Zenon, <2>1, <2>2, <2>3
  <1> HIDE DEF a, b
  <1>6. /\ t \in Seq(S) /\ Len(t) = Len(s) - 1
        /\ \A i \in 1 .. Len(s) - 1 : t[i] = IF i < k THEN s[i] ELSE s[i + 1]
    <2>1. /\ t \in Seq(S) /\ Len(t) = Len(a) + Len(b)
          /\ \A i \in 1 .. Len(a) + Len(b) :
                 t[i] = IF i <= Len(a) THEN a[i] ELSE b[i - Len(a)]
      BY Zenon, <1>4, <1>5, SeqConcat
    <2> HIDE DEF t
    <2>2. Len(a) + Len(b) = Len(s) - 1
      BY <1>1, <1>2, <1>4, <1>5
    <2>3. ASSUME NEW i \in 1 .. Len(s) - 1
          PROVE  t[i] = IF i < k THEN s[i] ELSE s[i + 1]
      <3>1. CASE i < k
        BY <1>1, <1>2, <1>4, <2>1, <2>2, <3>1
      <3>2. CASE ~(i < k)
        <4>1. i - (k - 1) \in 1 .. Len(s) - k /\ k + (i - (k - 1)) = i + 1
          BY <1>1, <1>2, <3>2
        <4>2. t[i] = b[i - (k - 1)]
          BY <1>1, <1>2, <1>4, <2>1, <2>2, <3>2
        <4> QED
          BY Zenon, <1>5, <3>2, <4>1, <4>2
      <3> QED
        BY Zenon, <3>1, <3>2
    <2> QED
      BY Zenon, <2>1, <2>2, <2>3
  <1> HIDE DEF t
  <1>7. DOMAIN t = 1 .. Len(s) - 1
    BY Zenon, <1>6, SeqOf
  <1> DEFINE from(i) == IF i < k THEN i ELSE i + 1
             to(i) == IF i < k THEN i ELSE i - 1
  <1>8. \A i \in 1 .. Len(s) - 1 :
            from(i) \in 1..Len(s) /\ from(i) # k /\ t[i] = s[from(i)]
    BY <1>1, <1>2, <1>6
  <1>9. \A i, j \in 1 .. Len(s) - 1 : from(i) = from(j) => i = j
    BY <1>1, <1>2
  <1>10. \A i \in 1..Len(s) : i # k => to(i) \in 1 .. Len(s) - 1 /\ t[to(i)] = s[i]
    BY <1>1, <1>2, <1>6
  <1> HIDE DEF from, to
  <1>11. Distinct(t)
    BY <1>6, <1>8, <1>9 DEF Distinct
  <1>12. Range(t) = Range(s) \ {r}
    <2>1. ASSUME NEW x \in Range(t) PROVE x \in Range(s) /\ x # r
      BY <1>1, <1>2, <1>7, <1>8 DEF Range, Distinct
    <2>2. ASSUME NEW x \in Range(s), x # r PROVE x \in Range(t)
      BY Zenon, <1>1, <1>2, <1>7, <1>10, <2>2 DEF Range
    <2> QED
      BY Zenon, <2>1, <2>2
  <1> QED
    BY Zenon, <1>3, <1>6, <1>11, <1>12 DEF t

-----------------------------------------------------------------------------
(* Who holds a request.                                                    *)

Submitting == {"check", "claim", "add"}
Servicing == {"ready", "operate", "track", "delete"}
Pcs == {"idle", "scan", "deliver"} \cup Submitting \cup Servicing
Watch == [fd: Fds, socket: 0..MaxSockets, request: Requests]

EpollOK ==
    /\ pc \in [Handles -> Pcs]
    /\ waiters \in [Handles -> Seq(Requests)]
    /\ completed \in [Handles -> Seq(Requests)]
    /\ watched \in [Handles -> SUBSET Watch]
    /\ pos \in [Handles -> Nat]

Types == SocketOK /\ RequestOK /\ EpollOK

\* The request that a call of handle h has in hand and on no list.
InCall(h) == IF pc[h] \in Submitting \cup {"deliver"} THEN {cur[h]} ELSE {}

Holds(h) == Range(waiters[h]) \cup Range(completed[h]) \cup InCall(h)

HandleOK(h) ==
    /\ Distinct(waiters[h]) /\ Distinct(completed[h])
    /\ Range(waiters[h]) \cap Range(completed[h]) = {}
    /\ InCall(h) \cap (Range(waiters[h]) \cup Range(completed[h])) = {}
    /\ InCall(h) \subseteq Requests
    /\ pc[h] \in Servicing => cur[h] \in Range(waiters[h])
    /\ pc[h] = "scan" => pos[h] # 0
    /\ \A r \in Holds(h) :
           req[r].state = IF pc[h] \in Submitting /\ r = cur[h]
                          THEN "submitting" ELSE "pending"

Free(r) == req[r].state \in {"new", "done"}

\* A request in flight names a descriptor and a generation, and one handle
\* holds it.
Ownership ==
    /\ \A h \in Handles : HandleOK(h)
    /\ \A g, h \in Handles : g # h => Holds(g) \cap Holds(h) = {}
    /\ \A r \in Requests :
           ~Free(r) => /\ Fd(r) \in Fds /\ req[r].gen # 0 /\ req[r].op # "timeout"
                       /\ \E h \in Handles : r \in Holds(h)

-----------------------------------------------------------------------------
(* Types.                                                                  *)

\* Results in hand.
LEMMA ResultTypes ==
    /\ Nothing \in Outcomes
    /\ \A k \in Kinds : /\ Result(k) \in Outcomes /\ Result(k).kind = k
                        /\ Result(k).fd = NoFd /\ Result(k).on = 0
    BY FdsAssumption DEF Nothing, Outcomes, Kinds, Result, NoFd

\* A request object nobody uses.
LEMMA BlankFields ==
    /\ Blank \in Request /\ Blank.state = "new" /\ Blank.fd = NoFd
    /\ Blank.gen = 0 /\ Blank.socket = 0 /\ Blank.result = Nothing
    BY ResultTypes, FdsAssumption DEF Blank, Object, Request, NoFd

\* An object filled in by a submission or a completion.
LEMMA ObjectFields ==
    ASSUME NEW t \in {"new", "submitting", "pending", "done"},
           NEW f \in Fds \cup {NoFd}, NEW op \in Ops \cup {"none"},
           NEW g \in 0..GenMax, NEW s \in 0..MaxSockets, NEW x \in Outcomes
    PROVE  LET b == Object(t, f, op, g, s, x)
           IN  /\ b \in Request /\ b.state = t /\ b.fd = f /\ b.op = op
               /\ b.gen = g /\ b.socket = s /\ b.result = x
    BY Zenon DEF Object, Request

\* The object after its claim.
LEMMA ClaimedFields ==
    ASSUME NEW q \in Request, NEW s \in 0..MaxSockets
    PROVE  /\ [q EXCEPT !.socket = s] \in Request
           /\ [q EXCEPT !.socket = s].socket = s
           /\ [q EXCEPT !.socket = s].state = q.state
           /\ [q EXCEPT !.socket = s].fd = q.fd
           /\ [q EXCEPT !.socket = s].gen = q.gen
           /\ [q EXCEPT !.socket = s].op = q.op
    BY Zenon DEF Request

\* The object after its waiter was added.
LEMMA PendingFields ==
    ASSUME NEW q \in Request
    PROVE  /\ [q EXCEPT !.state = "pending"] \in Request
           /\ [q EXCEPT !.state = "pending"].state = "pending"
           /\ [q EXCEPT !.state = "pending"].socket = q.socket
           /\ [q EXCEPT !.state = "pending"].fd = q.fd
           /\ [q EXCEPT !.state = "pending"].gen = q.gen
           /\ [q EXCEPT !.state = "pending"].op = q.op
    BY Zenon DEF Request

\* A claim that is given back.
LEMMA ReleaseType ==
    ASSUME pending \in [Fds -> 0..GenMax], NEW f, NEW g, Release(f, g)
    PROVE  pending' \in [Fds -> 0..GenMax]
  <1>1. CASE f \in Fds /\ pending[f] = g
    <2>1. pending' = [pending EXCEPT ![f] = 0]
      BY Zenon, <1>1 DEF Release
    <2>2. 0 \in 0..GenMax
      BY FdsAssumption
    <2> QED
      BY Zenon, <2>1, <2>2
  <1>2. CASE ~(f \in Fds /\ pending[f] = g)
    <2>1. pending' = pending
      BY Zenon, <1>2 DEF Release
    <2> QED
      BY Zenon, <2>1
  <1> QED
    BY Zenon, <1>1, <1>2

\* A close keeps the types.
LEMMA ClosedTypes ==
    ASSUME SocketOK, NEW f, Closed(f)
    PROVE  /\ file' \in [Fds -> 0..MaxSockets] /\ gen' \in [Fds -> 0..GenMax]
           /\ active' \in [Fds -> BOOLEAN]
  <1>1. 0 \in 0..MaxSockets /\ \A g \in 0..GenMax : NextGen(g) \in 0..GenMax
    BY FdsAssumption DEF NextGen
  <1>2. file' \in [Fds -> 0..MaxSockets]
    BY Zenon, <1>1 DEF SocketOK, Closed
  <1>3. gen' \in [Fds -> 0..GenMax]
    BY Zenon, <1>1 DEF SocketOK, Closed
  <1>4. active' \in [Fds -> BOOLEAN]
    BY Zenon DEF SocketOK, Closed
  <1> QED
    BY Zenon, <1>2, <1>3, <1>4

\* What the type proofs know of a handle: the constants, and the request that
\* a call has in hand.
LEMMA Consts ==
    /\ 0 \in 0..GenMax /\ 0 \in 0..MaxSockets
    /\ Nothing \in Outcomes /\ Result("stale") \in Outcomes
    /\ Result("error") \in Outcomes /\ Result("cancelled") \in Outcomes
    /\ "idle" \in Pcs /\ "scan" \in Pcs /\ "deliver" \in Pcs
    /\ "check" \in Pcs /\ "claim" \in Pcs /\ "add" \in Pcs
    /\ "ready" \in Pcs /\ "operate" \in Pcs /\ "track" \in Pcs
    /\ "delete" \in Pcs
    BY ResultTypes, FdsAssumption DEF Kinds, Pcs, Submitting, Servicing

\* Waiters are requests with a descriptor, and so is the request of a call.
LEMMA Held ==
    ASSUME Types, Ownership, NEW h \in Handles
    PROVE  /\ \A r \in Holds(h) : r \in Requests /\ ~Free(r) /\ Fd(r) \in Fds
           /\ \A r \in Range(waiters[h]) : r \in Holds(h)
           /\ pc[h] \in Submitting \cup {"deliver"} => cur[h] \in Holds(h)
           /\ pc[h] \in Servicing => cur[h] \in Range(waiters[h])
  <1>1. EpollOK /\ HandleOK(h)
    BY Zenon DEF Types, Ownership
  <1>2. ASSUME NEW r \in Holds(h) PROVE r \in Requests
    BY <1>1, SeqOf DEF EpollOK, Holds, Range, HandleOK
  <1>3. ASSUME NEW r \in Holds(h) PROVE ~Free(r)
    BY Zenon, <1>1 DEF HandleOK, Free
  <1>4. ASSUME NEW r \in Holds(h) PROVE Fd(r) \in Fds
    BY Zenon, <1>2, <1>3 DEF Ownership
  <1> QED
    BY Zenon, <1>1, <1>2, <1>3, <1>4 DEF Holds, InCall, HandleOK

\* The waiter a scan looks at is on the list.
LEMMA ScanWaiter ==
    ASSUME Types, Ownership, NEW h \in Handles, PollScan(h)
    PROVE  pc[h] = "scan" /\ waiters[h][pos[h]] \in Range(waiters[h])
  <1>1. /\ waiters[h] \in Seq(Requests) /\ pos[h] \in Nat
        /\ pc[h] = "scan" => pos[h] # 0
    BY Zenon DEF Types, EpollOK, Ownership, HandleOK
  <1>2. pc[h] = "scan" /\ pos[h] <= Len(waiters[h])
    BY Zenon DEF PollScan, At
  <1>3. Len(waiters[h]) \in Nat /\ DOMAIN waiters[h] = 1..Len(waiters[h])
    BY Zenon, <1>1, SeqOf
  <1>4. pos[h] \in DOMAIN waiters[h]
    BY <1>1, <1>2, <1>3
  <1> QED
    BY Zenon, <1>2, <1>4 DEF Range

\* A handle is destroyed between calls, and its waiter list is gone.
LEMMA Destroyed ==
    ASSUME Types, NEW h \in Handles, Destroy(h)
    PROVE  pc[h] = "idle" /\ pc' = pc /\ waiters'[h] = << >> /\ Range(waiters'[h]) = {}
  <1>1. waiters' = [waiters EXCEPT ![h] = << >>] /\ pc[h] = "idle" /\ pc' = pc
    BY Zenon DEF Destroy, At, threadVars
  <1>2. waiters'[h] = << >>
    BY Zenon, <1>1 DEF Types, EpollOK
  <1> QED
    BY <1>1, <1>2 DEF Range

\* vl_delete_waiter keeps the types.
LEMMA DeleteTypes ==
    ASSUME Types, Ownership, NEW h \in Handles, NEW r \in Range(waiters[h]),
           DeleteWaiter(h, r)
    PROVE  /\ waiters' \in [Handles -> Seq(Requests)]
           /\ watched' \in [Handles -> SUBSET Watch]
           /\ pending' \in [Fds -> 0..GenMax]
  <1>h. SocketOK /\ EpollOK /\ HandleOK(h)
    BY Zenon DEF Types, Ownership
  <1>1. Unlink(waiters[h], r) \in Seq(Requests)
    BY Zenon, <1>h, UnlinkProperties DEF HandleOK, EpollOK
  <1>2. waiters' \in [Handles -> Seq(Requests)]
    BY Zenon, <1>h, <1>1 DEF DeleteWaiter, EpollOK
  <1>3. watched' \in [Handles -> SUBSET Watch]
    BY Zenon, <1>h DEF DeleteWaiter, EpollOK
  <1>4. pending' \in [Fds -> 0..GenMax]
    BY Zenon, <1>h, ReleaseType DEF DeleteWaiter, SocketOK
  <1> QED
    BY Zenon, <1>2, <1>3, <1>4

\* Reading the generation of a submission keeps the types.
LEMMA SubmitReadTypes ==
    ASSUME Types, Ownership, NEW h \in Handles,
           NEW r \in Requests, NEW f \in Fds, NEW op \in Ops, SubmitRead(h, r, f, op)
    PROVE  Types'
  <1>h. SocketOK /\ RequestOK /\ EpollOK /\ HandleOK(h)
    BY Zenon DEF Types, Ownership
  <1>a. Object("submitting", f, op, gen[f], 0, Nothing) \in Request
    BY <1>h, Consts, ObjectFields DEF SocketOK
  <1>1. SocketOK'
    BY Zenon, <1>h DEF SubmitRead, SocketOK, socketVars
  <1>2. RequestOK'
    BY Zenon, <1>h, <1>a DEF SubmitRead, Capture, RequestOK, Goto, Hold
  <1>3. EpollOK'
    BY Zenon, <1>h, Consts DEF SubmitRead, Capture, EpollOK, Goto, epollVars
  <1> QED
    BY Zenon, <1>1, <1>2, <1>3 DEF Types

\* The tracking test of a submission keeps the types.
LEMMA SubmitCheckTypes ==
    ASSUME Types, Ownership, NEW h \in Handles, SubmitCheck(h)
    PROVE  Types'
  <1>h. SocketOK /\ RequestOK /\ EpollOK /\ HandleOK(h)
    BY Zenon DEF Types, Ownership
  <1>1. SocketOK'
    BY Zenon, <1>h DEF SubmitCheck, SocketOK, socketVars
  <1>2. RequestOK'
    BY <1>h, Consts, BlankFields
    DEF SubmitCheck, Refuse, RequestOK, Goto, Hold, Return
  <1>3. EpollOK'
    BY Zenon, <1>h, Consts
    DEF SubmitCheck, Refuse, EpollOK, Goto, Return, epollVars
  <1> QED
    BY Zenon, <1>1, <1>2, <1>3 DEF Types

\* The claim of a submission keeps the types.
LEMMA SubmitClaimTypes ==
    ASSUME Types, Ownership, NEW h \in Handles, SubmitClaim(h)
    PROVE  Types'
  <1>h. SocketOK /\ RequestOK /\ EpollOK /\ HandleOK(h)
    BY Zenon DEF Types, Ownership
  <1>a. cur[h] \in Requests /\ Fd(cur[h]) \in Fds /\ req[cur[h]] \in Request
    BY Zenon, <1>h, Held DEF SubmitClaim, At, Submitting, RequestOK
  <1>b. file[Fd(cur[h])] \in 0..MaxSockets /\ req[cur[h]].gen \in 0..GenMax
    BY Zenon, <1>h, <1>a DEF SocketOK, Request
  <1>c. [req[cur[h]] EXCEPT !.socket = file[Fd(cur[h])]] \in Request
    BY Zenon, <1>a, <1>b, ClaimedFields
  <1>1. SocketOK'
    BY Zenon, <1>h, <1>a, <1>b
    DEF SubmitClaim, ClaimOrRefuse, Claim, SocketOK, kernelVars
  <1>2. RequestOK'
    BY <1>h, Consts, <1>a, <1>c, BlankFields
    DEF SubmitClaim, ClaimOrRefuse, Refuse, RequestOK, Goto, Hold, Return
  <1>3. EpollOK'
    BY Zenon, <1>h, Consts
    DEF SubmitClaim, ClaimOrRefuse, Refuse, EpollOK, Goto, Return, epollVars
  <1> QED
    BY Zenon, <1>1, <1>2, <1>3 DEF Types

\* Adding the waiter keeps the types.
LEMMA SubmitAddTypes ==
    ASSUME Types, Ownership, NEW h \in Handles, SubmitAdd(h)
    PROVE  Types'
  <1>h. SocketOK /\ RequestOK /\ EpollOK /\ HandleOK(h)
    BY Zenon DEF Types, Ownership
  <1>a. cur[h] \in Requests /\ Fd(cur[h]) \in Fds /\ req[cur[h]] \in Request
    BY Zenon, <1>h, Held DEF SubmitAdd, At, Submitting, RequestOK
  <1>b. [fd |-> Fd(cur[h]), socket |-> file[Fd(cur[h])], request |-> cur[h]]
          \in Watch
    BY Zenon, <1>h, <1>a DEF SocketOK, Watch
  <1>c. [req[cur[h]] EXCEPT !.state = "pending"] \in Request
    BY Zenon, <1>a, PendingFields
  <1>d. <<cur[h]>> \o waiters[h] \in Seq(Requests)
    BY <1>h, <1>a DEF EpollOK
  <1>1. SocketOK'
    BY Zenon, <1>h DEF SubmitAdd, SocketOK, socketVars
  <1>2. RequestOK'
    BY Zenon, <1>h, Consts, <1>a, <1>c
    DEF SubmitAdd, RequestOK, Goto, Hold, Return, ReturnFrom
  <1>3. EpollOK'
    BY Zenon, <1>h, Consts, <1>b, <1>d
    DEF SubmitAdd, EpollOK, Goto, Return, ReturnFrom
  <1> QED
    BY Zenon, <1>1, <1>2, <1>3 DEF Types

\* The error path of a submission keeps the types.
LEMMA SubmitFailsTypes ==
    ASSUME Types, Ownership, NEW h \in Handles, SubmitFails(h)
    PROVE  Types'
  <1>h. SocketOK /\ RequestOK /\ EpollOK /\ HandleOK(h)
    BY Zenon DEF Types, Ownership
  <1>1. SocketOK'
    BY Zenon, <1>h, ReleaseType DEF SubmitFails, SocketOK, kernelVars
  <1>2. RequestOK'
    BY Zenon, <1>h, Consts, BlankFields
    DEF SubmitFails, Refuse, RequestOK, Goto, Hold, Return, handleVars
  <1>3. EpollOK'
    BY Zenon, <1>h, Consts
    DEF SubmitFails, Refuse, EpollOK, Goto, Return, handleVars
  <1> QED
    BY Zenon, <1>1, <1>2, <1>3 DEF Types

\* A cancel keeps the types.
LEMMA CancelRequestTypes ==
    ASSUME Types, Ownership, NEW h \in Handles,
           NEW r \in Requests, CancelRequest(h, r)
    PROVE  Types'
  <1>h. SocketOK /\ RequestOK /\ EpollOK /\ HandleOK(h)
    BY Zenon DEF Types, Ownership
  <1>a. /\ waiters' \in [Handles -> Seq(Requests)]
        /\ watched' \in [Handles -> SUBSET Watch]
        /\ pending' \in [Fds -> 0..GenMax]
    BY Zenon, DeleteTypes DEF CancelRequest
  <1>b. Append(completed[h], r) \in Seq(Requests)
    BY Zenon, <1>h, SeqAppend DEF EpollOK
  <1>1. SocketOK'
    BY Zenon, <1>h, <1>a DEF CancelRequest, SocketOK, kernelVars
  <1>2. RequestOK'
    BY Zenon, <1>h DEF CancelRequest, RequestOK, threadVars
  <1>3. EpollOK'
    <2>1. completed' \in [Handles -> Seq(Requests)]
      BY Zenon, <1>h, <1>b DEF CancelRequest, EpollOK
    <2> QED
      BY Zenon, <1>h, <1>a, <2>1 DEF CancelRequest, EpollOK, threadVars
  <1> QED
    BY Zenon, <1>1, <1>2, <1>3 DEF Types

\* Taking a queued completion keeps the types.
LEMMA PollQueuedTypes ==
    ASSUME Types, Ownership, NEW h \in Handles, PollQueued(h)
    PROVE  Types'
  <1>h. SocketOK /\ RequestOK /\ EpollOK /\ HandleOK(h)
    BY Zenon DEF Types, Ownership
  <1>a. Head(completed[h]) \in Requests /\ Tail(completed[h]) \in Seq(Requests)
    BY Zenon, <1>h, SeqTail DEF PollQueued, EpollOK
  <1>1. SocketOK'
    BY Zenon, <1>h DEF PollQueued, SocketOK, socketVars
  <1>2. RequestOK'
    BY Zenon, <1>h, Consts, <1>a DEF PollQueued, RequestOK, Goto, Hold
  <1>3. EpollOK'
    BY Zenon, <1>h, Consts, <1>a DEF PollQueued, EpollOK, Goto
  <1> QED
    BY Zenon, <1>1, <1>2, <1>3 DEF Types

\* The start of a scan keeps the types.
LEMMA PollBeginTypes ==
    ASSUME Types, Ownership, NEW h \in Handles, PollBegin(h)
    PROVE  Types'
  <1>h. SocketOK /\ RequestOK /\ EpollOK /\ HandleOK(h)
    BY Zenon DEF Types, Ownership
  <1>1. SocketOK'
    BY Zenon, <1>h DEF PollBegin, SocketOK, socketVars
  <1>2. RequestOK'
    BY Zenon, <1>h DEF PollBegin, RequestOK, Goto, handleVars
  <1>3. EpollOK'
    BY Zenon, <1>h, Consts DEF PollBegin, EpollOK, Goto, handleVars
  <1> QED
    BY Zenon, <1>1, <1>2, <1>3 DEF Types

\* One look of a scan keeps the types.
LEMMA PollScanTypes ==
    ASSUME Types, Ownership, NEW h \in Handles, PollScan(h)
    PROVE  Types'
  <1>h. SocketOK /\ RequestOK /\ EpollOK /\ HandleOK(h)
    BY Zenon DEF Types, Ownership
  <1> DEFINE r == waiters[h][pos[h]]
  <1>a. r \in Range(waiters[h])
    BY Zenon, ScanWaiter
  <1>b. r \in Requests
    BY Zenon, <1>a, Held
  <1> HIDE DEF r
  <1>1. CASE Stale(r)
    <2>1. /\ DeleteWaiter(h, r) /\ Hold(h, r) /\ Goto(h, "deliver")
          /\ outcome' = [outcome EXCEPT ![h] = Result("stale")]
          /\ UNCHANGED <<kernelVars, gen, active, opened, owned, req, live,
                         completed, pos>>
      BY Zenon, <1>1 DEF PollScan, r
    <2>2. /\ waiters' \in [Handles -> Seq(Requests)]
          /\ watched' \in [Handles -> SUBSET Watch]
          /\ pending' \in [Fds -> 0..GenMax]
      BY Zenon, <1>a, <2>1, DeleteTypes
    <2>3. SocketOK'
      BY Zenon, <1>h, <2>1, <2>2 DEF SocketOK, kernelVars
    <2>4. RequestOK'
      BY Zenon, <1>h, Consts, <1>b, <2>1 DEF RequestOK, Hold
    <2>5. EpollOK'
      BY Zenon, <1>h, Consts, <2>1, <2>2 DEF EpollOK, Goto
    <2> QED
      BY Zenon, <2>3, <2>4, <2>5 DEF Types
  <1>2. CASE ~Stale(r)
    <2>1. /\ pos' = [pos EXCEPT ![h] = @ + 1]
          /\ UNCHANGED <<kernelVars, gen, active, pending, opened, owned, req,
                         live, waiters, completed, watched, cur, outcome, pc>>
      BY Zenon, <1>2 DEF PollScan, r
    <2>3. SocketOK'
      BY Zenon, <1>h, <2>1 DEF SocketOK, kernelVars
    <2>4. RequestOK'
      BY Zenon, <1>h, <2>1 DEF RequestOK
    <2>5. EpollOK'
      BY <1>h, <2>1 DEF EpollOK
    <2> QED
      BY Zenon, <2>3, <2>4, <2>5 DEF Types
  <1> QED
    BY Zenon, <1>1, <1>2

\* A poll without event keeps the types.
LEMMA PollTimeoutTypes ==
    ASSUME Types, Ownership, NEW h \in Handles, PollTimeout(h)
    PROVE  Types'
  <1>h. SocketOK /\ RequestOK /\ EpollOK /\ HandleOK(h)
    BY Zenon DEF Types, Ownership
  <1>1. SocketOK'
    BY Zenon, <1>h DEF PollTimeout, SocketOK, socketVars
  <1>2. RequestOK'
    BY Zenon, <1>h, Consts
    DEF PollTimeout, RequestOK, Goto, Hold, Return, ReturnFrom, handleVars
  <1>3. EpollOK'
    BY Zenon, <1>h, Consts
    DEF PollTimeout, EpollOK, Goto, Return, ReturnFrom, handleVars
  <1> QED
    BY Zenon, <1>1, <1>2, <1>3 DEF Types

\* An interrupted poll keeps the types.
LEMMA PollInterruptedTypes ==
    ASSUME Types, Ownership, NEW h \in Handles, PollInterrupted(h)
    PROVE  Types'
  <1>h. SocketOK /\ RequestOK /\ EpollOK /\ HandleOK(h)
    BY Zenon DEF Types, Ownership
  <1>1. SocketOK'
    BY Zenon, <1>h DEF PollInterrupted, SocketOK, socketVars
  <1>2. RequestOK'
    BY Zenon, <1>h DEF PollInterrupted, RequestOK, handleVars
  <1>3. EpollOK'
    BY Zenon, <1>h, Consts DEF PollInterrupted, EpollOK, handleVars
  <1> QED
    BY Zenon, <1>1, <1>2, <1>3 DEF Types

\* A poll with an event keeps the types.
LEMMA PollEventTypes ==
    ASSUME Types, Ownership, NEW h \in Handles,
           NEW w \in watched[h], PollEvent(h, w)
    PROVE  Types'
  <1>h. SocketOK /\ RequestOK /\ EpollOK /\ HandleOK(h)
    BY Zenon DEF Types, Ownership
  <1>a. w.request \in Requests
    BY <1>h DEF EpollOK, Watch
  <1>1. SocketOK'
    BY Zenon, <1>h DEF PollEvent, SocketOK, socketVars
  <1>2. RequestOK'
    BY Zenon, <1>h, <1>a DEF PollEvent, RequestOK, Goto, Hold, handleVars
  <1>3. EpollOK'
    BY Zenon, <1>h, Consts DEF PollEvent, EpollOK, Goto, handleVars
  <1> QED
    BY Zenon, <1>1, <1>2, <1>3 DEF Types

\* The staleness test of a ready waiter keeps the types.
LEMMA ReadyCheckTypes ==
    ASSUME Types, Ownership, NEW h \in Handles, ReadyCheck(h)
    PROVE  Types'
  <1>h. SocketOK /\ RequestOK /\ EpollOK /\ HandleOK(h)
    BY Zenon DEF Types, Ownership
  <1>1. SocketOK'
    BY Zenon, <1>h DEF ReadyCheck, SocketOK, socketVars
  <1>2. RequestOK'
    BY Zenon, <1>h, Consts DEF ReadyCheck, RequestOK, Goto, handleVars
  <1>3. EpollOK'
    BY Zenon, <1>h, Consts DEF ReadyCheck, EpollOK, Goto, handleVars
  <1> QED
    BY Zenon, <1>1, <1>2, <1>3 DEF Types

\* An operation that would block keeps the types.
LEMMA OperateAgainTypes ==
    ASSUME Types, Ownership, NEW h \in Handles, OperateAgain(h)
    PROVE  Types'
  <1>h. SocketOK /\ RequestOK /\ EpollOK /\ HandleOK(h)
    BY Zenon DEF Types, Ownership
  <1>1. SocketOK'
    BY Zenon, <1>h DEF OperateAgain, SocketOK, socketVars
  <1>2. RequestOK'
    BY <1>h, Consts
    DEF OperateAgain, RequestOK, Goto, Hold, Return, ReturnFrom, handleVars
  <1>3. EpollOK'
    <2>1. pc' \in [Handles -> Pcs]
      BY Zenon, <1>h, Consts
      DEF OperateAgain, EpollOK, Goto, Return, ReturnFrom
    <2>2. pos' \in [Handles -> Nat]
      <3>1. PICK x \in Nat : pos' = [pos EXCEPT ![h] = x]
        BY Zenon DEF OperateAgain, ReturnFrom
      <3> QED
        BY Zenon, <1>h, <3>1 DEF EpollOK
    <2> QED
      BY Zenon, <1>h, <2>1, <2>2 DEF OperateAgain, EpollOK, handleVars
  <1> QED
    BY Zenon, <1>1, <1>2, <1>3 DEF Types

\* An operation keeps the types.
LEMMA OperateTypes ==
    ASSUME Types, Ownership, NEW h \in Handles, Operate(h)
    PROVE  Types'
  <1>h. SocketOK /\ RequestOK /\ EpollOK /\ HandleOK(h)
    BY Zenon DEF Types, Ownership
  <1>a. Fd(cur[h]) \in Fds
    BY Zenon, Held DEF Operate, At, HandleOK, Servicing
  <1>b. [kind |-> "ok", fd |-> NoFd, on |-> file[Fd(cur[h])]] \in Outcomes
    BY Zenon, <1>h, <1>a DEF Outcomes, Kinds, SocketOK
  <1>1. SocketOK'
    BY Zenon, <1>h DEF Operate, SocketOK, socketVars
  <1>2. RequestOK'
    BY Zenon, <1>h, Consts, <1>b DEF Operate, RequestOK, Goto, handleVars
  <1>3. EpollOK'
    BY Zenon, <1>h, Consts DEF Operate, EpollOK, Goto, handleVars
  <1> QED
    BY Zenon, <1>1, <1>2, <1>3 DEF Types

\* An accept keeps the types.
LEMMA OperateAcceptTypes ==
    ASSUME Types, Ownership, NEW h \in Handles,
           NEW a \in Fds, OperateAccept(h, a)
    PROVE  Types'
  <1>h. SocketOK /\ RequestOK /\ EpollOK /\ HandleOK(h)
    BY Zenon DEF Types, Ownership
  <1>a. Fd(cur[h]) \in Fds
    BY Zenon, Held DEF OperateAccept, At, HandleOK, Servicing
  <1>b. [kind |-> "ok", fd |-> a, on |-> file[Fd(cur[h])]] \in Outcomes
    BY Zenon, <1>h, <1>a DEF Outcomes, Kinds, SocketOK
  <1>1. SocketOK'
    BY <1>h, FdsAssumption DEF OperateAccept, NewFile, SocketOK, slotVars
  <1>2. RequestOK'
    BY Zenon, <1>h, Consts, <1>b DEF OperateAccept, RequestOK, Goto, handleVars
  <1>3. EpollOK'
    BY Zenon, <1>h, Consts DEF OperateAccept, EpollOK, Goto, handleVars
  <1> QED
    BY Zenon, <1>1, <1>2, <1>3 DEF Types

\* Tracking an accepted socket keeps the types.
LEMMA AcceptTrackTypes ==
    ASSUME Types, Ownership, NEW h \in Handles, AcceptTrack(h)
    PROVE  Types'
  <1>h. SocketOK /\ RequestOK /\ EpollOK /\ HandleOK(h)
    BY Zenon DEF Types, Ownership
  <1>1. SocketOK'
    <2>1. file' \in [Fds -> 0..MaxSockets]
      BY <1>h, FdsAssumption DEF AcceptTrack, SocketOK
    <2>2. gen' \in [Fds -> 0..GenMax]
      BY <1>h, FdsAssumption DEF AcceptTrack, Tracked, Trackable, SocketOK
    <2>3. active' \in [Fds -> BOOLEAN]
      BY Zenon, <1>h DEF AcceptTrack, Tracked, SocketOK
    <2> QED
      BY Zenon, <1>h, <2>1, <2>2, <2>3 DEF AcceptTrack, SocketOK
  <1>2. RequestOK'
    BY Zenon, <1>h, Consts DEF AcceptTrack, RequestOK, Goto
  <1>3. EpollOK'
    BY <1>h, Consts DEF AcceptTrack, Unwatched, EpollOK, Goto
  <1> QED
    BY Zenon, <1>1, <1>2, <1>3 DEF Types

\* Deleting a ready waiter keeps the types.
LEMMA ReadyDeleteTypes ==
    ASSUME Types, Ownership, NEW h \in Handles, ReadyDelete(h)
    PROVE  Types'
  <1>h. SocketOK /\ RequestOK /\ EpollOK /\ HandleOK(h)
    BY Zenon DEF Types, Ownership
  <1>a. /\ waiters' \in [Handles -> Seq(Requests)]
        /\ watched' \in [Handles -> SUBSET Watch]
        /\ pending' \in [Fds -> 0..GenMax]
    BY Zenon, Held, DeleteTypes DEF ReadyDelete, At, HandleOK, Servicing
  <1>1. SocketOK'
    BY Zenon, <1>h, <1>a DEF ReadyDelete, SocketOK, kernelVars
  <1>2. RequestOK'
    BY Zenon, <1>h DEF ReadyDelete, RequestOK, Goto
  <1>3. EpollOK'
    BY Zenon, <1>h, Consts, <1>a DEF ReadyDelete, EpollOK, Goto
  <1> QED
    BY Zenon, <1>1, <1>2, <1>3 DEF Types

\* A delivery keeps the types.
LEMMA PollDeliverTypes ==
    ASSUME Types, Ownership, NEW h \in Handles, PollDeliver(h)
    PROVE  Types'
  <1>h. SocketOK /\ RequestOK /\ EpollOK /\ HandleOK(h)
    BY Zenon DEF Types, Ownership
  <1>a. cur[h] \in Requests /\ req[cur[h]].socket \in 0..MaxSockets
    BY Zenon, <1>h, Held DEF PollDeliver, Deliver, At, Request, RequestOK
  <1>b. outcome[h] \in Outcomes /\ outcome[h].fd \in Fds \cup {NoFd}
    BY Zenon, <1>h DEF RequestOK, Outcomes
  <1>c. PICK x \in Outcomes : Answer(cur[h], x)
    BY Zenon, Consts, <1>b DEF PollDeliver, Deliver
  <1>d. Object("done", NoFd, "none", 0, req[cur[h]].socket, x) \in Request
    <2>1. 0 \in 0..GenMax /\ NoFd \in Fds \cup {NoFd}
      BY FdsAssumption
    <2>2. req[cur[h]].socket \in 0..MaxSockets /\ x \in Outcomes
      BY Zenon, <1>a, <1>c
    <2> QED
      BY Zenon, <2>1, <2>2, ObjectFields
  <1>1. SocketOK'
    <2>1. owned' \subseteq Fds
      BY Zenon, <1>h, <1>b DEF PollDeliver, Deliver, SocketOK
    <2>2. Closed(outcome[h].fd) \/ UNCHANGED <<file, gen, active>>
      BY Zenon DEF PollDeliver, Deliver
    <2>3. /\ file' \in [Fds -> 0..MaxSockets] /\ gen' \in [Fds -> 0..GenMax]
          /\ active' \in [Fds -> BOOLEAN]
      <3>1. CASE Closed(outcome[h].fd)
        BY Zenon, <1>h, <3>1, ClosedTypes
      <3>2. CASE UNCHANGED <<file, gen, active>>
        BY Zenon, <1>h, <3>2 DEF SocketOK
      <3> QED
        BY Zenon, <2>2, <3>1, <3>2
    <2> QED
      BY Zenon, <1>h, <2>1, <2>3 DEF PollDeliver, Deliver, SocketOK
  <1>2. RequestOK'
    BY Zenon, <1>h, Consts, <1>c, <1>d
    DEF PollDeliver, Deliver, Answer, Return, Hold, RequestOK
  <1>3. EpollOK'
    BY Zenon, <1>h, Consts
    DEF PollDeliver, Deliver, Return, Goto, Unwatched, EpollOK
  <1> QED
    BY Zenon, <1>1, <1>2, <1>3 DEF Types

\* Destroying a handle keeps the types.
LEMMA DestroyTypes ==
    ASSUME Types, Ownership, NEW h \in Handles, Destroy(h)
    PROVE  Types'
  <1>h. SocketOK /\ RequestOK /\ EpollOK /\ HandleOK(h)
    BY Zenon DEF Types, Ownership
  <1>1. SocketOK'
    <2> DEFINE Cleared(f) ==
            \E r \in Range(waiters[h]) : Fd(r) = f /\ req[r].gen = pending[f]
    <2>1. pending' = [f \in Fds |-> IF Cleared(f) THEN 0 ELSE pending[f]]
      BY Zenon DEF Destroy
    <2> HIDE DEF Cleared
    <2>2. pending' \in [Fds -> 0..GenMax]
      BY <1>h, <2>1, FdsAssumption DEF SocketOK
    <2>3. UNCHANGED <<kernelVars, gen, active, opened, owned>>
      BY Zenon DEF Destroy
    <2> QED
      BY Zenon, <1>h, <2>2, <2>3 DEF SocketOK, kernelVars
  <1>2. RequestOK'
    BY Zenon, <1>h, BlankFields DEF Destroy, RequestOK, threadVars
  <1>3. EpollOK'
    <2>1. << >> \in Seq(Requests)
      OBVIOUS
    <2>2. /\ waiters' \in [Handles -> Seq(Requests)]
          /\ completed' \in [Handles -> Seq(Requests)]
      BY Zenon, <1>h, <2>1 DEF Destroy, EpollOK
    <2>3. watched' \in [Handles -> SUBSET Watch]
      BY Zenon, <1>h DEF Destroy, EpollOK
    <2> QED
      BY Zenon, <1>h, <2>2, <2>3 DEF Destroy, EpollOK, threadVars
  <1> QED
    BY Zenon, <1>1, <1>2, <1>3 DEF Types


\* Every step of a handle keeps the types.
LEMMA StepTypes ==
    ASSUME Types, Ownership, NEW h \in Handles, HandleStep(h)
    PROVE  Types'
    BY Zenon, SubmitReadTypes, SubmitCheckTypes, SubmitClaimTypes,
       SubmitAddTypes,
       SubmitFailsTypes, CancelRequestTypes, PollQueuedTypes, PollBeginTypes,
       PollScanTypes, PollTimeoutTypes, PollInterruptedTypes, PollEventTypes,
       ReadyCheckTypes, OperateAgainTypes, OperateTypes, OperateAcceptTypes,
       AcceptTrackTypes, ReadyDeleteTypes, PollDeliverTypes, DestroyTypes
    DEF HandleStep, SubmitStep, PollStep

-----------------------------------------------------------------------------
(* Ownership: steps that move a request within a handle.                   *)

\* What a step of handle h leaves alone.
Local(h) ==
    /\ \A g \in Handles \ {h} :
         /\ pc'[g] = pc[g] /\ cur'[g] = cur[g] /\ pos'[g] = pos[g]
         /\ waiters'[g] = waiters[g] /\ completed'[g] = completed[g]
    /\ \A r \in Requests : r \in Holds(h) \/ Free(r) \/ req'[r] = req[r]
    /\ Holds(h)' \subseteq Holds(h) \cup {r \in Requests : Free(r)}

\* The requests of h keep their descriptor and generation or become free.
Settled(h) ==
    \A r \in Requests :
        ~Free(r)' => /\ Fd(r)' \in Fds /\ (req[r].gen)' # 0 /\ (req[r].op)' # "timeout"
                     /\ r \in Holds(h)' \/ (r \notin Holds(h) /\ ~Free(r))

\* A step that is local to h and leaves h well-formed keeps the ownership.
LEMMA LocalKeeps ==
    ASSUME Types, Types', Ownership, NEW h \in Handles,
           Local(h), HandleOK(h)', Settled(h)
    PROVE  Ownership'
  <1>1. ASSUME NEW g \in Handles, g # h
        PROVE  Holds(g)' = Holds(g) /\ InCall(g)' = InCall(g)
    BY Zenon, <1>1 DEF Local, Holds, InCall
  <1>2. ASSUME NEW g \in Handles, NEW r \in Holds(g)
        PROVE  r \in Requests /\ ~Free(r)
    <2>1. r \in Requests
      BY SeqOf
      DEF Types, EpollOK, Holds, Ownership, HandleOK, Range
    <2> QED
      BY Zenon, <2>1 DEF Ownership, HandleOK, Free
  <1>3. ASSUME NEW g \in Handles, g # h, NEW r \in Holds(g)
        PROVE  req'[r] = req[r] /\ r \notin Holds(h) /\ r \notin Holds(h)'
    BY Zenon, <1>2, <1>3 DEF Local, Ownership
  <1>4. ASSUME NEW g \in Handles PROVE HandleOK(g)'
    <2>1. CASE g = h
      BY Zenon, <2>1
    <2>2. CASE g # h
      <3>1. HandleOK(g)
        BY Zenon DEF Ownership
      <3>2. /\ waiters'[g] = waiters[g] /\ completed'[g] = completed[g]
            /\ pc'[g] = pc[g] /\ cur'[g] = cur[g] /\ pos'[g] = pos[g]
        BY Zenon, <2>2 DEF Local
      <3>3. \A r \in Holds(g)' :
               req'[r].state = IF pc'[g] \in Submitting /\ r = cur'[g]
                               THEN "submitting" ELSE "pending"
        BY <1>1, <1>3, <2>2, <3>1, <3>2 DEF HandleOK
      <3> QED
        BY Zenon, <1>1, <2>2, <3>1, <3>2, <3>3 DEF HandleOK
    <2> QED
      BY Zenon, <2>1, <2>2
  <1>5. ASSUME NEW f \in Handles, NEW g \in Handles, f # g
        PROVE  Holds(f)' \cap Holds(g)' = {}
    <2>1. CASE f = h
      BY Zenon, <1>1, <1>3, <1>5, <2>1
    <2>2. CASE g = h
      BY Zenon, <1>1, <1>3, <1>5, <2>2
    <2>3. CASE f # h /\ g # h
      BY Zenon, <1>1, <1>5, <2>3 DEF Ownership
    <2> QED
      BY Zenon, <2>1, <2>2, <2>3
  <1>6. ASSUME NEW r \in Requests, ~Free(r)'
        PROVE  /\ Fd(r)' \in Fds /\ (req[r].gen)' # 0 /\ (req[r].op)' # "timeout"
               /\ \E g \in Handles : r \in Holds(g)'
    <2>1. /\ Fd(r)' \in Fds /\ (req[r].gen)' # 0 /\ (req[r].op)' # "timeout"
          /\ r \in Holds(h)' \/ (r \notin Holds(h) /\ ~Free(r))
      BY Zenon, <1>6 DEF Settled
    <2>2. CASE r \in Holds(h)'
      BY Zenon, <2>1, <2>2
    <2>3. CASE r \notin Holds(h) /\ ~Free(r)
      <3>1. PICK g \in Handles : r \in Holds(g)
        BY Zenon, <2>3 DEF Ownership
      <3> QED
        BY Zenon, <1>1, <2>1, <2>3, <3>1
    <2> QED
      BY Zenon, <2>1, <2>2, <2>3
  <1> QED
    BY Zenon, <1>4, <1>5, <1>6 DEF Ownership

\* A step of h that moves no request.
LEMMA QuietKeeps ==
    ASSUME Types, Types', Ownership, NEW h \in Handles,
           req' = req, waiters' = waiters, completed' = completed,
           \A g \in Handles \ {h} :
               pc'[g] = pc[g] /\ cur'[g] = cur[g] /\ pos'[g] = pos[g],
           pc[h] \notin Submitting \cup {"deliver"},
           pc'[h] \notin Submitting \cup {"deliver"},
           pc'[h] \in Servicing => cur'[h] \in Range(waiters[h]),
           pc'[h] = "scan" => pos'[h] # 0
    PROVE  Ownership'
  <1>1. InCall(h) = {} /\ InCall(h)' = {} /\ Holds(h)' = Holds(h)
    BY Zenon DEF InCall, Holds
  <1>2. HandleOK(h)
    BY Zenon DEF Ownership
  <1>3. Local(h)
    BY Zenon, <1>1 DEF Local
  <1>4. HandleOK(h)'
    BY Zenon, <1>1, <1>2 DEF HandleOK
  <1>5. Settled(h)
    BY Zenon, <1>1 DEF Settled, Ownership, Free, Fd
  <1> QED
    BY Zenon, <1>3, <1>4, <1>5, LocalKeeps

\* The steps of a poll that move no request.
LEMMA QuietOwns ==
    ASSUME Types, Types', Ownership, NEW h \in Handles,
           \/ PollBegin(h) \/ PollTimeout(h) \/ PollInterrupted(h)
           \/ ReadyCheck(h) \/ OperateAgain(h) \/ Operate(h)
           \/ \E a \in Fds : OperateAccept(h, a)
           \/ AcceptTrack(h)
    PROVE  Ownership'
  <1>t. /\ pc \in [Handles -> Pcs] /\ pos \in [Handles -> Nat]
        /\ cur \in [Handles -> Requests \cup {NoRequest}]
        /\ pc[h] \in Servicing => cur[h] \in Range(waiters[h])
    BY Zenon, Held DEF Types, EpollOK, RequestOK
  <1> DEFINE Quiet == /\ req' = req /\ waiters' = waiters /\ completed' = completed
                      /\ \A g \in Handles \ {h} : /\ pc'[g] = pc[g] /\ cur'[g] = cur[g]
                                                  /\ pos'[g] = pos[g]
  <1>1. CASE PollBegin(h)
    <2>1. Quiet /\ pc[h] = "idle" /\ pc'[h] = "scan" /\ pos'[h] = 1
      BY Zenon, <1>t, <1>1 DEF PollBegin, At, Goto, handleVars
    <2> QED
      BY <2>1, QuietKeeps DEF Submitting, Servicing
  <1>2. CASE PollTimeout(h)
    <2>1. Quiet /\ pc[h] = "scan" /\ pc'[h] = "idle"
      BY Zenon, <1>t, <1>2
      DEF PollTimeout, At, Goto, Hold, Return, ReturnFrom, handleVars
    <2> QED
      BY Zenon, <2>1, QuietKeeps DEF Submitting, Servicing
  <1>3. CASE PollInterrupted(h)
    <2>1. Quiet /\ pc[h] = "scan" /\ pc'[h] = "scan" /\ pos'[h] = 1
      BY Zenon, <1>t, <1>3 DEF PollInterrupted, At, handleVars
    <2> QED
      BY <2>1, QuietKeeps DEF Submitting, Servicing
  <1>4. CASE ReadyCheck(h)
    <2>1. /\ Quiet /\ pc[h] = "ready" /\ pc'[h] \in {"delete", "operate"}
          /\ cur'[h] = cur[h]
      BY Zenon, <1>t, <1>4 DEF ReadyCheck, At, Goto, handleVars
    <2>2. cur[h] \in Range(waiters[h])
      BY Zenon, <1>t, <2>1 DEF Servicing
    <2> QED
      BY Zenon, <2>1, <2>2, QuietKeeps DEF Submitting, Servicing
  <1>5. CASE OperateAgain(h)
    <2>1. \/ /\ Goto(h, "idle") /\ Hold(h, NoRequest)
             /\ pos' = [pos EXCEPT ![h] = 0]
          \/ /\ Goto(h, "scan") /\ Hold(h, NoRequest)
             /\ pos' = [pos EXCEPT ![h] = 1]
      BY Zenon, <1>5 DEF OperateAgain, ReturnFrom, Return
    <2>2. /\ pc[h] = "operate" /\ req' = req /\ waiters' = waiters
          /\ completed' = completed
      BY Zenon, <1>5 DEF OperateAgain, At, handleVars
    <2>3. /\ Quiet /\ pc'[h] \in {"idle", "scan"}
          /\ pc'[h] = "scan" => pos'[h] # 0
      BY <1>t, <2>1, <2>2 DEF Goto, Hold
    <2> QED
      BY Zenon, <2>2, <2>3, QuietKeeps DEF Submitting, Servicing
  <1>6. CASE Operate(h)
    <2>1. /\ Quiet /\ pc[h] = "operate" /\ pc'[h] = "delete" /\ cur'[h] = cur[h]
      BY Zenon, <1>t, <1>6 DEF Operate, At, Goto, handleVars
    <2>2. cur[h] \in Range(waiters[h])
      BY Zenon, <1>t, <2>1 DEF Servicing
    <2> QED
      BY Zenon, <2>1, <2>2, QuietKeeps DEF Submitting, Servicing
  <1>7. ASSUME NEW a \in Fds, OperateAccept(h, a) PROVE Ownership'
    <2>1. /\ Quiet /\ pc[h] = "operate" /\ pc'[h] = "track" /\ cur'[h] = cur[h]
      BY Zenon, <1>t, <1>7 DEF OperateAccept, At, Goto, handleVars
    <2>2. cur[h] \in Range(waiters[h])
      BY Zenon, <1>t, <2>1 DEF Servicing
    <2> QED
      BY Zenon, <2>1, <2>2, QuietKeeps DEF Submitting, Servicing
  <1>8. CASE AcceptTrack(h)
    <2>1. /\ Quiet /\ pc[h] = "track" /\ pc'[h] = "delete" /\ cur'[h] = cur[h]
      BY Zenon, <1>t, <1>8 DEF AcceptTrack, At, Goto
    <2>2. cur[h] \in Range(waiters[h])
      BY Zenon, <1>t, <2>1 DEF Servicing
    <2> QED
      BY Zenon, <2>1, <2>2, QuietKeeps DEF Submitting, Servicing
  <1> QED
    BY Zenon, <1>1, <1>2, <1>3, <1>4, <1>5, <1>6, <1>7, <1>8

\* A poll takes up the waiter that an event names.
LEMMA PollEventOwns ==
    ASSUME Types, Types', Ownership, NEW h \in Handles,
           NEW w \in watched[h], w.request \in Range(waiters[h]), PollEvent(h, w)
    PROVE  Ownership'
  <1>1. /\ req' = req /\ waiters' = waiters /\ completed' = completed
        /\ pc[h] = "scan" /\ pc'[h] = "ready" /\ cur'[h] = w.request
        /\ \A g \in Handles \ {h} :
               pc'[g] = pc[g] /\ cur'[g] = cur[g] /\ pos'[g] = pos[g]
    BY Zenon DEF PollEvent, At, Goto, Hold, handleVars, Types, EpollOK,
       RequestOK
  <1> QED
    BY Zenon, <1>1, QuietKeeps DEF Submitting, Servicing

\* A submission takes a free request.
LEMMA SubmitReadOwns ==
    ASSUME Types, Types', Ownership, NEW h \in Handles, NEW r \in Requests,
           NEW f \in Fds, NEW op \in Ops, SubmitRead(h, r, f, op)
    PROVE  Ownership'
  <1>1. HandleOK(h) /\ \A s \in Holds(h) : s \in Requests /\ ~Free(s)
    BY Zenon, Held DEF Ownership
  <1>2. /\ pc[h] = "idle" /\ pc'[h] = "check" /\ cur'[h] = r /\ Free(r)
        /\ waiters' = waiters /\ completed' = completed /\ pos' = pos
        /\ \A g \in Handles \ {h} : pc'[g] = pc[g] /\ cur'[g] = cur[g]
        /\ gen[f] # 0 /\ op # "timeout"
    BY Zenon DEF SubmitRead, Capture, At, Goto, Hold, Free, Types, EpollOK,
       RequestOK,
           epollVars
  <1>3. /\ req'[r] = Object("submitting", f, op, gen[f], 0, Nothing)
        /\ \A s \in Requests : s # r => req'[s] = req[s]
    BY Zenon DEF SubmitRead, Capture, Types, RequestOK
  <1>4. /\ req'[r].state = "submitting" /\ req'[r].fd = f
        /\ req'[r].gen = gen[f] /\ req'[r].op = op
    BY <1>3 DEF Object
  <1>5. /\ InCall(h) = {} /\ InCall(h)' = {r} /\ Holds(h)' = Holds(h) \cup {r}
        /\ r \notin Holds(h)
    BY Zenon, <1>1, <1>2 DEF InCall, Holds, Submitting
  <1>6. Local(h)
    BY Zenon, <1>2, <1>3, <1>5 DEF Local
  <1>7. HandleOK(h)'
    <2>1. ASSUME NEW s \in Holds(h)'
          PROVE  req'[s].state = IF pc'[h] \in Submitting /\ s = cur'[h]
                                 THEN "submitting" ELSE "pending"
      <3>1. CASE s = r
        BY Zenon, <1>2, <1>4, <3>1 DEF Submitting
      <3>2. CASE s # r
        BY Zenon, <1>1, <1>2, <1>3, <1>5, <3>2 DEF HandleOK, Submitting
      <3> QED
        BY Zenon, <3>1, <3>2
    <2> QED
      BY <1>1, <1>2, <1>5, <2>1 DEF HandleOK, Holds, Servicing
  <1>8. Settled(h)
    <2>1. ASSUME NEW s \in Requests, ~Free(s)'
          PROVE  /\ Fd(s)' \in Fds /\ (req[s].gen)' # 0
                 /\ (req[s].op)' # "timeout"
                 /\ s \in Holds(h)' \/ (s \notin Holds(h) /\ ~Free(s))
      <3>1. CASE s = r
        BY Zenon, <1>2, <1>4, <1>5, <3>1 DEF Fd
      <3>2. CASE s # r
        BY Zenon, <1>3, <1>5, <2>1, <3>2 DEF Ownership, Free, Fd
      <3> QED
        BY Zenon, <3>1, <3>2
    <2> QED
      BY Zenon, <2>1 DEF Settled
  <1> QED
    BY Zenon, <1>6, <1>7, <1>8, LocalKeeps

\* A submission goes on with its request.
LEMMA PassOwns ==
    ASSUME Types, Types', Ownership, NEW h \in Handles,
           pc[h] \in Submitting, pc'[h] \in Submitting,
           \A g \in Handles \ {h} : pc'[g] = pc[g],
           UNCHANGED <<cur, waiters, completed, pos>>,
           \A r \in Requests :
               /\ req'[r] = req[r] \/ r = cur[h]
               /\ req'[r].state = req[r].state /\ req'[r].fd = req[r].fd
               /\ req'[r].gen = req[r].gen /\ req'[r].op = req[r].op
    PROVE  Ownership'
  <1>1. HandleOK(h) /\ \A s \in Holds(h) : s \in Requests
    BY Zenon, Held DEF Ownership
  <1>2. InCall(h) = {cur[h]} /\ InCall(h)' = {cur[h]} /\ Holds(h)' = Holds(h)
    BY Zenon DEF InCall, Holds
  <1>3. Local(h)
    BY Zenon, <1>2 DEF Local, Holds
  <1>4. HandleOK(h)'
    <2>1. \A s \in Holds(h)' :
              req'[s].state = IF pc'[h] \in Submitting /\ s = cur'[h]
                              THEN "submitting" ELSE "pending"
      BY <1>1, <1>2 DEF HandleOK
    <2>2. pc'[h] \notin Servicing /\ pc'[h] # "scan"
      BY Zenon DEF Submitting, Servicing
    <2> QED
      BY Zenon, <1>1, <1>2, <2>1, <2>2 DEF HandleOK
  <1>5. Settled(h)
    BY Zenon, <1>2 DEF Settled, Ownership, Free, Fd
  <1> QED
    BY Zenon, <1>3, <1>4, <1>5, LocalKeeps

\* A submission that fails frees its request, and so does a delivery.
LEMMA FreedOwns ==
    ASSUME Types, Types', Ownership, NEW h \in Handles,
           pc[h] \in Submitting \cup {"deliver"}, pc'[h] = "idle",
           \A g \in Handles \ {h} :
               pc'[g] = pc[g] /\ cur'[g] = cur[g] /\ pos'[g] = pos[g],
           UNCHANGED <<waiters, completed>>,
           \A r \in Requests : r # cur[h] => req'[r] = req[r],
           req'[cur[h]].state \in {"new", "done"}
    PROVE  Ownership'
  <1>1. HandleOK(h) /\ \A s \in Holds(h) : s \in Requests
    BY Zenon, Held DEF Ownership
  <1>2. /\ InCall(h) = {cur[h]} /\ InCall(h)' = {} /\ Holds(h)' = Holds(h) \ {cur[h]}
        /\ cur[h] \in Holds(h)
    BY Zenon, <1>1 DEF InCall, Holds, Submitting, HandleOK
  <1>3. Local(h)
    BY Zenon, <1>2 DEF Local
  <1>4. HandleOK(h)'
    <2>1. \A s \in Holds(h)' :
              req'[s].state = IF pc'[h] \in Submitting /\ s = cur'[h]
                              THEN "submitting" ELSE "pending"
      BY <1>1, <1>2 DEF HandleOK, Submitting
    <2>2. pc'[h] \notin Servicing /\ pc'[h] # "scan"
      BY Zenon DEF Servicing
    <2> QED
      BY Zenon, <1>1, <1>2, <2>1, <2>2 DEF HandleOK
  <1>5. Settled(h)
    <2>1. ASSUME NEW s \in Requests, ~Free(s)'
          PROVE  /\ Fd(s)' \in Fds /\ (req[s].gen)' # 0
                 /\ (req[s].op)' # "timeout"
                 /\ s \in Holds(h)' \/ (s \notin Holds(h) /\ ~Free(s))
      <3>1. s # cur[h] /\ req'[s] = req[s]
        BY Zenon, <2>1 DEF Free
      <3> QED
        BY Zenon, <1>2, <2>1, <3>1 DEF Ownership, Free, Fd
    <2> QED
      BY Zenon, <2>1 DEF Settled
  <1> QED
    BY Zenon, <1>3, <1>4, <1>5, LocalKeeps

\* The tracking test, the claim, and their failures.
LEMMA SubmitOwns ==
    ASSUME Types, Types', Ownership, NEW h \in Handles,
           SubmitCheck(h) \/ SubmitClaim(h) \/ SubmitFails(h)
    PROVE  Ownership'
  <1>t. /\ pc \in [Handles -> Pcs] /\ req \in [Requests -> Request]
        /\ cur \in [Handles -> Requests \cup {NoRequest}]
        /\ pc[h] \in Submitting => cur[h] \in Requests
    BY Zenon, Held DEF Types, EpollOK, RequestOK
  <1>r. ASSUME pc[h] \in Submitting, Refuse(h), UNCHANGED <<waiters, completed, pos>>
        PROVE  Ownership'
    <2>1. /\ pc'[h] = "idle"
          /\ \A g \in Handles \ {h} : pc'[g] = pc[g] /\ cur'[g] = cur[g]
      BY Zenon, <1>t, <1>r DEF Refuse, Return, Goto, Hold
    <2>2. /\ req'[cur[h]] = Blank
          /\ \A r \in Requests : r # cur[h] => req'[r] = req[r]
      BY Zenon, <1>t, <1>r DEF Refuse
    <2>3. req'[cur[h]].state \in {"new", "done"}
      BY Zenon, <2>2, BlankFields
    <2> QED
      BY Zenon, <1>r, <2>1, <2>2, <2>3, FreedOwns
  <1>1. CASE SubmitCheck(h)
    <2>1. pc[h] = "check" /\ pc[h] \in Submitting
      BY Zenon, <1>1 DEF SubmitCheck, At, Submitting
    <2>2. UNCHANGED <<waiters, completed, pos>>
      BY Zenon, <1>1 DEF SubmitCheck, epollVars
    <2>3. CASE Refuse(h)
      BY Zenon, <1>r, <2>1, <2>2, <2>3
    <2>4. CASE Goto(h, "claim") /\ UNCHANGED <<req, cur, outcome>>
      <3>1. pc'[h] \in Submitting /\ \A g \in Handles \ {h} : pc'[g] = pc[g]
        BY Zenon, <1>t, <2>4 DEF Goto, Submitting
      <3> QED
        BY Zenon, <2>1, <2>2, <2>4, <3>1, PassOwns
    <2> QED
      BY Zenon, <1>1, <2>3, <2>4 DEF SubmitCheck
  <1>2. CASE SubmitClaim(h)
    <2>1. pc[h] = "claim" /\ pc[h] \in Submitting
      BY Zenon, <1>2 DEF SubmitClaim, At, Submitting
    <2>2. UNCHANGED <<waiters, completed, pos>>
      BY Zenon, <1>2 DEF SubmitClaim, epollVars
    <2>3. CASE Refuse(h)
      BY Zenon, <1>r, <2>1, <2>2, <2>3
    <2>4. CASE /\ req' = [req EXCEPT ![cur[h]].socket = file[Fd(cur[h])]]
               /\ Goto(h, "add") /\ UNCHANGED <<cur, outcome>>
      <3>1. pc'[h] \in Submitting /\ \A g \in Handles \ {h} : pc'[g] = pc[g]
        BY Zenon, <1>t, <2>4 DEF Goto, Submitting
      <3>2. cur[h] \in Requests /\ Fd(cur[h]) \in Fds /\ req[cur[h]] \in Request
        BY Zenon, <1>t, <2>1, Held
      <3>3. file[Fd(cur[h])] \in 0..MaxSockets
        BY Zenon, <3>2 DEF Types, SocketOK
      <3>4. /\ req'[cur[h]] = [req[cur[h]] EXCEPT !.socket = file[Fd(cur[h])]]
            /\ \A r \in Requests : r # cur[h] => req'[r] = req[r]
        BY Zenon, <1>t, <2>4, <3>2
      <3>5. /\ req'[cur[h]].state = req[cur[h]].state
            /\ req'[cur[h]].fd = req[cur[h]].fd
            /\ req'[cur[h]].gen = req[cur[h]].gen
            /\ req'[cur[h]].op = req[cur[h]].op
        BY <3>2, <3>3, <3>4, ClaimedFields
      <3> QED
        BY <2>1, <2>2, <2>4, <3>1, <3>4, <3>5, PassOwns
    <2> QED
      BY Zenon, <1>2, <2>3, <2>4 DEF SubmitClaim, ClaimOrRefuse
  <1>3. CASE SubmitFails(h)
    <2>1. /\ pc[h] \in Submitting /\ Refuse(h)
          /\ UNCHANGED <<waiters, completed, pos>>
      BY Zenon, <1>3 DEF SubmitFails, At, Submitting, handleVars
    <2> QED
      BY Zenon, <1>r, <2>1
  <1> QED
    BY Zenon, <1>1, <1>2, <1>3

\* A delivery frees the request.
LEMMA PollDeliverOwns ==
    ASSUME Types, Types', Ownership, NEW h \in Handles, PollDeliver(h)
    PROVE  Ownership'
  <1>t. /\ pc \in [Handles -> Pcs] /\ req \in [Requests -> Request]
        /\ cur \in [Handles -> Requests \cup {NoRequest}]
        /\ pos \in [Handles -> Nat]
    BY Zenon DEF Types, EpollOK, RequestOK
  <1>1. /\ pc[h] = "deliver" /\ Goto(h, "idle") /\ Hold(h, NoRequest)
        /\ pos' = [pos EXCEPT ![h] = 0] /\ UNCHANGED <<waiters, completed>>
    BY Zenon DEF PollDeliver, Deliver, At, Return
  <1>2. cur[h] \in Requests
    BY Zenon, <1>1, Held
  <1>3. PICK x : Answer(cur[h], x)
    BY Zenon DEF PollDeliver, Deliver
  <1>4. /\ req'[cur[h]] = Object("done", NoFd, "none", 0, req[cur[h]].socket, x)
        /\ \A r \in Requests : r # cur[h] => req'[r] = req[r]
    BY Zenon, <1>t, <1>2, <1>3 DEF Answer
  <1>5. req'[cur[h]].state \in {"new", "done"}
    BY <1>4 DEF Object
  <1>6. /\ pc'[h] = "idle"
        /\ \A g \in Handles \ {h} :
               pc'[g] = pc[g] /\ cur'[g] = cur[g] /\ pos'[g] = pos[g]
    BY Zenon, <1>t, <1>1 DEF Goto, Hold
  <1> QED
    BY Zenon, <1>1, <1>4, <1>5, <1>6, FreedOwns

\* A step of h that moves a request from one place of h to another.
LEMMA MoveOwns ==
    ASSUME Types, Types', Ownership, NEW h \in Handles,
           \A g \in Handles \ {h} :
               /\ pc'[g] = pc[g] /\ cur'[g] = cur[g] /\ pos'[g] = pos[g]
               /\ waiters'[g] = waiters[g] /\ completed'[g] = completed[g],
           pc'[h] \in {"idle", "deliver"},
           Holds(h)' = Holds(h),
           Distinct(waiters'[h]), Distinct(completed'[h]),
           Range(waiters'[h]) \cap Range(completed'[h]) = {},
           InCall(h)' \cap (Range(waiters'[h]) \cup Range(completed'[h])) = {},
           \A r \in Requests :
               /\ req'[r].fd = req[r].fd /\ req'[r].gen = req[r].gen
               /\ req'[r].op = req[r].op
               /\ r \notin Holds(h) => req'[r] = req[r]
               /\ r \in Holds(h) => req'[r].state = "pending"
    PROVE  Ownership'
  <1>1. HandleOK(h) /\ \A s \in Holds(h) : s \in Requests /\ ~Free(s)
    BY Zenon, Held DEF Ownership
  <1>2. Local(h)
    BY Zenon DEF Local
  <1>3. HandleOK(h)'
    <2>1. \A s \in Holds(h)' :
              req'[s].state = IF pc'[h] \in Submitting /\ s = cur'[h]
                              THEN "submitting" ELSE "pending"
      BY Zenon, <1>1 DEF Submitting
    <2>2. pc'[h] \notin Servicing /\ pc'[h] # "scan"
      BY Zenon DEF Servicing
    <2>3. InCall(h)' \subseteq Requests
      BY Zenon, <1>1 DEF Holds
    <2> QED
      BY Zenon, <2>1, <2>2, <2>3 DEF HandleOK
  <1>4. Settled(h)
    BY <1>1 DEF Settled, Ownership, Free, Fd
  <1> QED
    BY Zenon, <1>2, <1>3, <1>4, LocalKeeps

\* The waiter list after vl_delete_waiter.
LEMMA Deleted ==
    ASSUME Types, Ownership, NEW h \in Handles, NEW r \in Range(waiters[h]),
           DeleteWaiter(h, r)
    PROVE  /\ \A g \in Handles \ {h} : waiters'[g] = waiters[g]
           /\ Distinct(waiters'[h])
           /\ Range(waiters'[h]) = Range(waiters[h]) \ {r}
  <1>1. waiters[h] \in Seq(Requests) /\ Distinct(waiters[h])
    BY Zenon DEF Types, EpollOK, Ownership, HandleOK
  <1>2. /\ waiters'[h] = Unlink(waiters[h], r)
        /\ \A g \in Handles \ {h} : waiters'[g] = waiters[g]
    BY Zenon DEF DeleteWaiter, Types, EpollOK
  <1> QED
    BY <1>1, <1>2, UnlinkProperties

\* The waiter goes to the poll that will deliver it.
LEMMA TakeOwns ==
    ASSUME Types, Types', Ownership, NEW h \in Handles, NEW r \in Range(waiters[h]),
           pc[h] \notin Submitting \cup {"deliver"},
           DeleteWaiter(h, r), Goto(h, "deliver"),
           cur'[h] = r, \A g \in Handles \ {h} : cur'[g] = cur[g],
           UNCHANGED <<req, completed, pos>>
    PROVE  Ownership'
  <1>1. /\ HandleOK(h) /\ \A s \in Holds(h) : s \in Requests /\ ~Free(s)
        /\ r \in Holds(h) /\ r \in Requests
    BY Zenon, Held DEF Ownership
  <1>2. pc'[h] = "deliver" /\ \A g \in Handles \ {h} : pc'[g] = pc[g]
    BY Zenon DEF Goto, Types, EpollOK
  <1>3. InCall(h) = {} /\ InCall(h)' = {r}
    BY Zenon, <1>2 DEF InCall
  <1>4. /\ Holds(h)' = Holds(h) /\ r \notin Range(completed[h])
        /\ Range(waiters'[h]) = Range(waiters[h]) \ {r}
    <2>1. r \notin Range(completed[h])
      BY Zenon, <1>1 DEF HandleOK
    <2>2. Range(waiters'[h]) = Range(waiters[h]) \ {r}
      BY Zenon, Deleted
    <2> QED
      BY Zenon, <1>3, <2>1, <2>2 DEF Holds
  <1>5. \A s \in Holds(h) : req[s].state = "pending"
    BY Zenon, <1>1 DEF HandleOK
  <1>6. /\ Distinct(waiters'[h]) /\ Distinct(completed'[h])
        /\ \A g \in Handles \ {h} : waiters'[g] = waiters[g]
    BY Zenon, <1>1, Deleted DEF HandleOK
  <1>7. /\ Range(waiters'[h]) \cap Range(completed'[h]) = {}
        /\ InCall(h)' \cap (Range(waiters'[h]) \cup Range(completed'[h])) = {}
    BY <1>1, <1>3, <1>4 DEF HandleOK
  <1>8. /\ pc'[h] \in {"idle", "deliver"}
        /\ \A g \in Handles \ {h} :
               /\ pc'[g] = pc[g] /\ cur'[g] = cur[g] /\ pos'[g] = pos[g]
               /\ waiters'[g] = waiters[g] /\ completed'[g] = completed[g]
    BY Zenon, <1>2, <1>6
  <1> QED
    BY Zenon, <1>4, <1>5, <1>6, <1>7, <1>8, MoveOwns

\* A look that finds a stale waiter, and the deletion of a ready one.
LEMMA DeleteOwns ==
    ASSUME Types, Types', Ownership, NEW h \in Handles,
           PollScan(h) \/ ReadyDelete(h)
    PROVE  Ownership'
  <1>t. /\ cur \in [Handles -> Requests \cup {NoRequest}]
        /\ pos \in [Handles -> Nat] /\ waiters[h] \in Seq(Requests)
        /\ pc[h] = "scan" => pos[h] # 0
    BY Zenon DEF Types, EpollOK, RequestOK, Ownership, HandleOK
  <1>1. CASE PollScan(h)
    <2> DEFINE r == waiters[h][pos[h]]
    <2>1. pc[h] = "scan" /\ r \in Range(waiters[h])
      BY Zenon, <1>1, ScanWaiter
    <2> HIDE DEF r
    <2>2. CASE /\ DeleteWaiter(h, r) /\ Hold(h, r) /\ Goto(h, "deliver")
               /\ UNCHANGED <<req, completed, pos>>
      <3>1. cur'[h] = r /\ \A g \in Handles \ {h} : cur'[g] = cur[g]
        BY Zenon, <1>t, <2>2 DEF Hold
      <3> QED
        BY Zenon, <2>1, <2>2, <3>1, TakeOwns DEF Submitting
    <2>3. CASE /\ pos' = [pos EXCEPT ![h] = @ + 1]
               /\ UNCHANGED <<req, waiters, completed, cur, pc>>
      <3>1. pos'[h] # 0 /\ \A g \in Handles \ {h} : pos'[g] = pos[g]
        BY <1>t, <2>3
      <3> QED
        BY Zenon, <2>1, <2>3, <3>1, QuietKeeps DEF Submitting, Servicing
    <2> QED
      BY Zenon, <1>1, <2>2, <2>3 DEF PollScan, r
  <1>2. CASE ReadyDelete(h)
    <2>1. /\ pc[h] = "delete" /\ DeleteWaiter(h, cur[h]) /\ Goto(h, "deliver")
          /\ UNCHANGED <<req, completed, cur, pos>>
      BY Zenon, <1>2 DEF ReadyDelete, At
    <2>2. cur[h] \in Range(waiters[h])
      BY Zenon, <2>1, Held DEF Servicing
    <2> QED
      BY Zenon, <2>1, <2>2, TakeOwns DEF Submitting
  <1> QED
    BY Zenon, <1>1, <1>2

\* A cancelled request goes from the waiters to the queue.
LEMMA CancelOwns ==
    ASSUME Types, Types', Ownership, NEW h \in Handles, NEW r \in Requests,
           CancelRequest(h, r)
    PROVE  Ownership'
  <1>1. /\ HandleOK(h) /\ \A s \in Holds(h) : s \in Requests /\ ~Free(s)
        /\ completed[h] \in Seq(Requests)
    BY Zenon, Held DEF Ownership, Types, EpollOK
  <1>2. /\ pc[h] = "idle" /\ r \in Range(waiters[h]) /\ DeleteWaiter(h, r)
        /\ UNCHANGED <<req, pc, cur, pos>>
    BY Zenon DEF CancelRequest, At, threadVars
  <1>3. /\ completed'[h] = Append(completed[h], r)
        /\ \A g \in Handles \ {h} : completed'[g] = completed[g]
    BY Zenon DEF CancelRequest, Types, EpollOK
  <1>4. /\ Distinct(completed'[h])
        /\ Range(completed'[h]) = Range(completed[h]) \cup {r}
    BY <1>1, <1>2, <1>3, AppendDistinct DEF HandleOK
  <1>5. /\ Distinct(waiters'[h]) /\ Range(waiters'[h]) = Range(waiters[h]) \ {r}
        /\ \A g \in Handles \ {h} : waiters'[g] = waiters[g]
    BY Zenon, <1>2, Deleted
  <1>6. InCall(h) = {} /\ InCall(h)' = {} /\ Holds(h)' = Holds(h)
    BY Zenon, <1>2, <1>4, <1>5 DEF InCall, Holds, Submitting
  <1>7. \A s \in Holds(h) : req[s].state = "pending"
    BY Zenon, <1>1, <1>2 DEF HandleOK, Submitting
  <1>8. Range(waiters'[h]) \cap Range(completed'[h]) = {}
    BY Zenon, <1>1, <1>4, <1>5 DEF HandleOK
  <1> QED
    BY Zenon, <1>2, <1>3, <1>4, <1>5, <1>6, <1>7, <1>8, MoveOwns

\* A queued request goes to the poll that will deliver it.
LEMMA PollQueuedOwns ==
    ASSUME Types, Types', Ownership, NEW h \in Handles, PollQueued(h)
    PROVE  Ownership'
  <1> DEFINE r == Head(completed[h])
  <1>1. /\ HandleOK(h) /\ \A s \in Holds(h) : s \in Requests /\ ~Free(s)
        /\ completed[h] \in Seq(Requests)
    BY Zenon, Held DEF Ownership, Types, EpollOK
  <1>2. /\ pc[h] = "idle" /\ completed[h] # << >>
        /\ UNCHANGED <<req, waiters, pos>>
        /\ pc'[h] = "deliver" /\ cur'[h] = r
        /\ \A g \in Handles \ {h} : pc'[g] = pc[g] /\ cur'[g] = cur[g]
    BY ZenonT(30) DEF PollQueued, At, Goto, Hold, Types, EpollOK, RequestOK
  <1>3. /\ completed'[h] = Tail(completed[h])
        /\ \A g \in Handles \ {h} : completed'[g] = completed[g]
    BY Zenon DEF PollQueued, Types, EpollOK
  <1>4. /\ Distinct(completed'[h]) /\ r \in Range(completed[h])
        /\ Range(completed'[h]) = Range(completed[h]) \ {r}
    BY Zenon, <1>1, <1>2, <1>3, TailDistinct DEF HandleOK
  <1> HIDE DEF r
  <1>5. InCall(h) = {} /\ InCall(h)' = {r} /\ Holds(h)' = Holds(h)
    BY Zenon, <1>2, <1>4 DEF InCall, Holds, Submitting
  <1>6. \A s \in Holds(h) : req[s].state = "pending"
    BY Zenon, <1>1, <1>2 DEF HandleOK, Submitting
  <1>7. /\ Range(waiters'[h]) \cap Range(completed'[h]) = {}
        /\ InCall(h)' \cap (Range(waiters'[h]) \cup Range(completed'[h])) = {}
        /\ Distinct(waiters'[h])
    BY Zenon, <1>1, <1>2, <1>4, <1>5 DEF HandleOK
  <1> QED
    BY Zenon, <1>2, <1>3, <1>4, <1>5, <1>6, <1>7, MoveOwns

\* A submitted request goes to the waiters.
LEMMA SubmitAddOwns ==
    ASSUME Types, Types', Ownership, NEW h \in Handles, SubmitAdd(h)
    PROVE  Ownership'
  <1> DEFINE r == cur[h]
  <1>1. /\ HandleOK(h) /\ \A s \in Holds(h) : s \in Requests /\ ~Free(s)
        /\ waiters[h] \in Seq(Requests) /\ req \in [Requests -> Request]
    BY Zenon, Held DEF Ownership, Types, EpollOK, RequestOK
  <1>2. /\ pc[h] = "add" /\ pc'[h] = "idle" /\ UNCHANGED completed
        /\ \A g \in Handles \ {h} :
               pc'[g] = pc[g] /\ cur'[g] = cur[g] /\ pos'[g] = pos[g]
    BY DEF SubmitAdd, At, Goto, Hold, Return, ReturnFrom, Types, EpollOK, RequestOK
  <1>3. InCall(h) = {r} /\ InCall(h)' = {} /\ r \in Holds(h) /\ r \in Requests
    BY Zenon, <1>1, <1>2 DEF InCall, Submitting, Holds
  <1>4. /\ waiters'[h] = <<r>> \o waiters[h]
        /\ \A g \in Handles \ {h} : waiters'[g] = waiters[g]
    BY Zenon DEF SubmitAdd, Types, EpollOK
  <1>5. /\ req'[r] = [req[r] EXCEPT !.state = "pending"]
        /\ \A s \in Requests : s # r => req'[s] = req[s]
    BY Zenon, <1>1, <1>3 DEF SubmitAdd
  <1> HIDE DEF r
  <1>6. /\ req'[r].state = "pending" /\ req'[r].fd = req[r].fd
        /\ req'[r].gen = req[r].gen /\ req'[r].op = req[r].op
    BY ZenonT(30), <1>1, <1>3, <1>5, PendingFields
  <1>7. /\ Distinct(waiters'[h]) /\ Range(waiters'[h]) = Range(waiters[h]) \cup {r}
    BY <1>1, <1>3, <1>4, PushProperties DEF HandleOK
  <1>8. Holds(h)' = Holds(h)
    BY Zenon, <1>2, <1>3, <1>7 DEF Holds
  <1>9. \A s \in Holds(h) : req'[s].state = "pending"
    <2>1. \A s \in Holds(h) : s # r => req[s].state = "pending"
      BY Zenon, <1>1, <1>2 DEF HandleOK, r
    <2> QED
      BY Zenon, <1>1, <1>5, <1>6, <2>1
  <1>10. /\ Range(waiters'[h]) \cap Range(completed'[h]) = {}
         /\ Distinct(completed'[h])
    BY Zenon, <1>1, <1>2, <1>3, <1>7 DEF HandleOK
  <1>11. \A g \in Handles \ {h} :
             /\ pc'[g] = pc[g] /\ cur'[g] = cur[g] /\ pos'[g] = pos[g]
             /\ waiters'[g] = waiters[g] /\ completed'[g] = completed[g]
    BY Zenon, <1>2, <1>4
  <1>12. \A s \in Requests :
             /\ req'[s].fd = req[s].fd /\ req'[s].gen = req[s].gen
             /\ req'[s].op = req[s].op
             /\ s \notin Holds(h) => req'[s] = req[s]
             /\ s \in Holds(h) => req'[s].state = "pending"
    BY Zenon, <1>3, <1>5, <1>6, <1>9
  <1>13. /\ pc'[h] \in {"idle", "deliver"} /\ Distinct(waiters'[h])
         /\ InCall(h)' \cap (Range(waiters'[h]) \cup Range(completed'[h])) = {}
    BY Zenon, <1>2, <1>3, <1>7
  <1> QED
    BY Zenon, <1>8, <1>10, <1>11, <1>12, <1>13, MoveOwns

\* The requests of a handle that is destroyed are free.
LEMMA DestroyOwns ==
    ASSUME Types, Types', Ownership, NEW h \in Handles, Destroy(h)
    PROVE  Ownership'
  <1>1. /\ HandleOK(h) /\ \A s \in Holds(h) : s \in Requests /\ ~Free(s)
    BY Zenon, Held DEF Ownership
  <1>2. /\ pc[h] = "idle" /\ UNCHANGED <<pc, cur, pos>>
        /\ waiters'[h] = << >> /\ completed'[h] = << >>
        /\ \A g \in Handles \ {h} :
               waiters'[g] = waiters[g] /\ completed'[g] = completed[g]
    BY Zenon DEF Destroy, At, threadVars, Types, EpollOK
  <1>3. /\ Range(waiters'[h]) = {} /\ Range(completed'[h]) = {}
        /\ Distinct(waiters'[h]) /\ Distinct(completed'[h])
    BY <1>2 DEF Range, Distinct
  <1>4. /\ InCall(h) = {} /\ InCall(h)' = {} /\ Holds(h)' = {}
        /\ Holds(h) = Range(waiters[h]) \cup Range(completed[h])
    BY Zenon, <1>2, <1>3 DEF InCall, Holds, Submitting
  <1>5. \A s \in Requests : req'[s] = IF s \in Holds(h) THEN Blank ELSE req[s]
    BY Zenon, <1>4 DEF Destroy
  <1>6. Local(h)
    BY Zenon, <1>2, <1>4, <1>5 DEF Local
  <1>7. HandleOK(h)'
    BY Zenon, <1>2, <1>3, <1>4 DEF HandleOK, Servicing
  <1>8. Settled(h)
    <2>1. ASSUME NEW s \in Requests, ~Free(s)'
          PROVE  /\ Fd(s)' \in Fds /\ (req[s].gen)' # 0
                 /\ (req[s].op)' # "timeout"
                 /\ s \in Holds(h)' \/ (s \notin Holds(h) /\ ~Free(s))
      <3>1. s \notin Holds(h) /\ req'[s] = req[s]
        BY Zenon, <1>5, <2>1, BlankFields DEF Free
      <3> QED
        BY Zenon, <2>1, <3>1 DEF Ownership, Free, Fd
    <2> QED
      BY Zenon, <2>1 DEF Settled
  <1> QED
    BY Zenon, <1>6, <1>7, <1>8, LocalKeeps

-----------------------------------------------------------------------------
(* Objects, epoll sets and claims.                                         *)

\* The program opens, tracks and closes sockets; handles are left alone.
LEMMA ProgramTypes ==
    ASSUME Types, ProgramStep
    PROVE  /\ Types'
           /\ UNCHANGED <<req, pc, cur, outcome, waiters, completed, pos, pending>>
  <1>h. SocketOK /\ RequestOK /\ EpollOK
    BY Zenon DEF Types
  <1>u. UNCHANGED <<req, live, pc, cur, outcome, waiters, completed, pos, pending>>
    BY Zenon DEF ProgramStep, Open, Track, TrackFails, Close, CloseOwned,
       handleVars,
           threadVars, requestVars, slotVars
  <1>1. RequestOK'
    BY Zenon, <1>h, <1>u DEF RequestOK
  <1>2. EpollOK'
    <2>1. watched' \in [Handles -> SUBSET Watch]
      BY Zenon, <1>h DEF ProgramStep, Close, Unwatched, handleVars, EpollOK
    <2> QED
      BY Zenon, <1>h, <1>u, <2>1 DEF EpollOK
  <1>3. SocketOK'
    <2>1. PICK f \in Fds : Open(f) \/ Track(f) \/ TrackFails(f) \/ CloseOwned(f)
      BY Zenon DEF ProgramStep, Close
    <2>2. CASE Open(f)
      BY <1>h, <2>2, FdsAssumption DEF Open, NewFile, SocketOK, slotVars
    <2>3. CASE Track(f)
      <3>1. gen' \in [Fds -> 0..GenMax]
        BY <1>h, <2>3, FdsAssumption DEF Track, Tracked, Trackable, SocketOK
      <3>2. active' \in [Fds -> BOOLEAN]
        BY Zenon, <1>h, <2>3 DEF Track, Tracked, SocketOK
      <3> QED
        BY Zenon, <1>h, <2>3, <3>1, <3>2 DEF Track, SocketOK, kernelVars
    <2>4. CASE TrackFails(f)
      BY <1>h, <2>4, FdsAssumption DEF TrackFails, SocketOK, slotVars
    <2>5. CASE CloseOwned(f)
      <3>1. /\ file' \in [Fds -> 0..MaxSockets] /\ gen' \in [Fds -> 0..GenMax]
            /\ active' \in [Fds -> BOOLEAN]
        BY Zenon, <1>h, <2>5, ClosedTypes DEF CloseOwned
      <3> QED
        BY Zenon, <1>h, <2>5, <3>1 DEF CloseOwned, SocketOK
    <2> QED
      BY Zenon, <2>1, <2>2, <2>3, <2>4, <2>5
  <1> QED
    BY Zenon, <1>u, <1>1, <1>2, <1>3 DEF Types

\* A step of h changes no request but a free one, the one its call has in hand,
\* and, at the end, its own.
LEMMA Objects ==
    ASSUME Types, Ownership, NEW h \in Handles, HandleStep(h), NEW r \in Requests
    PROVE  \/ req'[r] = req[r] \/ Free(r) \/ r \in InCall(h)
           \/ Destroy(h) /\ r \in Holds(h)
  <1>t. req \in [Requests -> Request]
    BY Zenon DEF Types, RequestOK
  <1>1. CASE UNCHANGED req
    BY Zenon, <1>1
  <1>2. ASSUME NEW s \in Requests, NEW f \in Fds, NEW op \in Ops,
               SubmitRead(h, s, f, op)
        PROVE  req'[r] = req[r] \/ Free(r)
    BY Zenon, <1>t, <1>2 DEF SubmitRead, Capture, Free
  <1>3. ASSUME Refuse(h), pc[h] \in Submitting
        PROVE  req'[r] = req[r] \/ r \in InCall(h)
    BY Zenon, <1>t, <1>3 DEF Refuse, InCall
  <1>4. CASE SubmitCheck(h)
    BY Zenon, <1>3, <1>4 DEF SubmitCheck, At, Submitting
  <1>5. CASE SubmitClaim(h)
    <2>1. CASE req' = [req EXCEPT ![cur[h]].socket = file[Fd(cur[h])]]
      BY Zenon, <1>t, <1>5, <2>1 DEF SubmitClaim, At, InCall, Submitting
    <2> QED
      BY Zenon, <1>3, <1>5, <2>1 DEF SubmitClaim, ClaimOrRefuse, At, Submitting
  <1>6. CASE SubmitAdd(h)
    BY Zenon, <1>t, <1>6 DEF SubmitAdd, At, InCall, Submitting
  <1>7. CASE SubmitFails(h)
    BY Zenon, <1>3, <1>7 DEF SubmitFails, At, Submitting
  <1>8. CASE PollDeliver(h)
    BY Zenon, <1>t, <1>8 DEF PollDeliver, Deliver, At, Answer, InCall
  <1>9. CASE Destroy(h)
    BY Zenon, <1>9 DEF Destroy, Holds
  <1>10. CASE \/ \E s \in Requests : CancelRequest(h, s)
              \/ PollQueued(h) \/ PollBegin(h) \/ PollScan(h)
              \/ PollTimeout(h) \/ PollInterrupted(h)
              \/ \E w \in watched[h] : PollEvent(h, w)
              \/ ReadyCheck(h) \/ OperateAgain(h) \/ Operate(h)
              \/ \E a \in Fds : OperateAccept(h, a)
              \/ AcceptTrack(h) \/ ReadyDelete(h)
    <2>1. UNCHANGED req
      BY Zenon, <1>10
      DEF CancelRequest, PollQueued, PollBegin, PollScan, PollTimeout,
          PollInterrupted, PollEvent, ReadyCheck, OperateAgain, Operate,
          OperateAccept, AcceptTrack, ReadyDelete
    <2> QED
      BY Zenon, <2>1
  <1> QED
    BY Zenon, <1>2, <1>4, <1>5, <1>6, <1>7, <1>8, <1>9, <1>10
    DEF HandleStep, SubmitStep, PollStep

\* A waiter's request changes only when its handle is destroyed.
LEMMA WaiterObjects ==
    ASSUME Types, Ownership, NEW h \in Handles, HandleStep(h),
           NEW g \in Handles, NEW r \in Range(waiters[g]), ~(Destroy(h) /\ g = h)
    PROVE  req'[r] = req[r]
  <1>1. r \in Requests /\ ~Free(r) /\ r \in Holds(g)
    BY Zenon, Held
  <1>2. CASE g = h
    <2>1. r \notin InCall(h)
      BY Zenon, <1>2 DEF Ownership, HandleOK
    <2> QED
      BY Zenon, <1>1, <1>2, <2>1, Objects
  <1>3. CASE g # h
    <2>1. r \notin Holds(h) /\ r \notin InCall(h)
      BY Zenon, <1>1, <1>3 DEF Ownership, Holds
    <2> QED
      BY Zenon, <1>1, <2>1, Objects
  <1> QED
    BY Zenon, <1>2, <1>3

-----------------------------------------------------------------------------
(* The epoll sets.                                                         *)

Watching ==
    \A h \in Handles : \A w \in watched[h] :
        /\ w.request \in Range(waiters[h]) /\ w.fd = Fd(w.request)
        /\ w.socket # 0 /\ w.socket = file[w.fd]

\* What is watched after a step of h was watched before, or is new.
LEMMA WatchedBefore ==
    ASSUME Types, Ownership, Watching, NEW h \in Handles, HandleStep(h),
           ~SubmitAdd(h), NEW g \in Handles, NEW w \in watched'[g]
    PROVE  w \in watched[g] /\ w.request \in Range(waiters'[g])
  <1>t. watched \in [Handles -> SUBSET Watch] /\ waiters \in [Handles -> Seq(Requests)]
    BY Zenon DEF Types, EpollOK
  <1>w. \A k \in Handles : \A v \in watched[k] :
            v.request \in Range(waiters[k]) /\ v.fd = Fd(v.request)
    BY Zenon DEF Watching
  <1>1. ASSUME NEW r \in Range(waiters[h]), DeleteWaiter(h, r)
        PROVE  w \in watched[g] /\ w.request \in Range(waiters'[g])
    <2>1. CASE g = h
      <3>1. w \in watched[h] /\ w.fd # Fd(r)
        BY Zenon, <1>t, <1>1, <2>1 DEF DeleteWaiter
      <3>2. w.request \in Range(waiters[h]) /\ w.request # r
        BY Zenon, <1>w, <3>1
      <3> QED
        BY Zenon, <1>1, <2>1, <3>1, <3>2, Deleted
    <2>2. CASE g # h
      <3>1. watched'[g] = watched[g] /\ waiters'[g] = waiters[g]
        BY Zenon, <1>t, <1>1, <2>2 DEF DeleteWaiter
      <3> QED
        BY Zenon, <1>w, <3>1
    <2> QED
      BY Zenon, <2>1, <2>2
  <1>2. ASSUME NEW r \in Requests, CancelRequest(h, r)
        PROVE  w \in watched[g] /\ w.request \in Range(waiters'[g])
    BY Zenon, <1>1, <1>2 DEF CancelRequest
  <1>3. CASE ReadyDelete(h)
    BY Zenon, <1>1, <1>3, Held DEF ReadyDelete, At, Servicing
  <1>4. CASE PollScan(h)
    <2>1. waiters[h][pos[h]] \in Range(waiters[h])
      BY Zenon, <1>4, ScanWaiter
    <2>2. CASE DeleteWaiter(h, waiters[h][pos[h]])
      BY Zenon, <1>1, <2>1, <2>2
    <2>3. CASE UNCHANGED <<watched, waiters>>
      BY Zenon, <1>w, <2>3
    <2> QED
      BY Zenon, <1>4, <2>2, <2>3 DEF PollScan
  <1>5. CASE Destroy(h)
    <2>1. g # h /\ watched'[g] = watched[g] /\ waiters'[g] = waiters[g]
      BY Zenon, <1>t, <1>5 DEF Destroy
    <2> QED
      BY Zenon, <1>w, <2>1
  <1>6. CASE AcceptTrack(h) \/ PollDeliver(h)
    <2>1. PICK f : watched' = watched \/ watched' = Unwatched(f)
      BY Zenon, <1>6 DEF AcceptTrack, PollDeliver
    <2>2. w \in watched[g]
      BY Zenon, <2>1 DEF Unwatched
    <2>3. waiters' = waiters
      BY Zenon, <1>6 DEF AcceptTrack, PollDeliver
    <2> QED
      BY Zenon, <1>w, <2>2, <2>3
  <1>7. CASE \/ \E r \in Requests, f \in Fds, op \in Ops : SubmitRead(h, r, f, op)
             \/ SubmitCheck(h) \/ SubmitClaim(h) \/ SubmitFails(h)
             \/ PollQueued(h) \/ PollBegin(h)
             \/ PollTimeout(h) \/ PollInterrupted(h)
             \/ \E v \in watched[h] : PollEvent(h, v)
             \/ ReadyCheck(h) \/ OperateAgain(h) \/ Operate(h)
             \/ \E a \in Fds : OperateAccept(h, a)
    <2>1. UNCHANGED <<watched, waiters>>
      BY Zenon, <1>7
      DEF SubmitRead, SubmitCheck, SubmitClaim, SubmitFails, PollQueued, PollBegin,
          PollTimeout, PollInterrupted, PollEvent, ReadyCheck, OperateAgain,
          Operate, OperateAccept, handleVars, epollVars
    <2> QED
      BY Zenon, <1>w, <2>1
  <1> QED
    BY Zenon, <1>2, <1>3, <1>4, <1>5, <1>6, <1>7
    DEF HandleStep, SubmitStep, PollStep

\* The kernel closes no socket that stays in an epoll set.
LEMMA WatchedFile ==
    ASSUME Types, Watching, NEW h \in Handles, HandleStep(h),
           NEW g \in Handles, NEW w \in watched'[g], w \in watched[g]
    PROVE  file'[w.fd] = file[w.fd]
  <1>t. /\ w.fd \in Fds /\ file \in [Fds -> 0..MaxSockets] /\ file[w.fd] # 0
    BY DEF Types, EpollOK, Watch, SocketOK, Watching
  <1>1. ASSUME NEW a \in Fds, OperateAccept(h, a)
        PROVE  file'[w.fd] = file[w.fd]
    BY Zenon, <1>t, <1>1 DEF OperateAccept, NewFile
  <1>2. ASSUME NEW a, file' = [file EXCEPT ![a] = 0], watched' = Unwatched(a)
        PROVE  file'[w.fd] = file[w.fd]
    <2>1. w.fd # a
      BY Zenon, <1>2 DEF Unwatched
    <2> QED
      BY Zenon, <1>t, <1>2, <2>1
  <1>3. CASE AcceptTrack(h)
    BY Zenon, <1>2, <1>3 DEF AcceptTrack
  <1>4. CASE PollDeliver(h)
    <2>1. CASE file' = file
      BY Zenon, <2>1
    <2>2. CASE file' # file
      <3>1. Closed(outcome[h].fd) /\ watched' = Unwatched(outcome[h].fd)
        BY Zenon, <1>4, <2>2 DEF PollDeliver, Deliver
      <3> QED
        BY Zenon, <1>2, <3>1 DEF Closed
    <2> QED
      BY Zenon, <2>1, <2>2
  <1>5. CASE \/ \E r \in Requests, f \in Fds, op \in Ops : SubmitRead(h, r, f, op)
             \/ SubmitStep(h) \/ Destroy(h)
             \/ \E s \in Requests : CancelRequest(h, s)
             \/ PollQueued(h) \/ PollBegin(h) \/ PollScan(h)
             \/ PollTimeout(h) \/ PollInterrupted(h)
             \/ \E v \in watched[h] : PollEvent(h, v)
             \/ ReadyCheck(h) \/ OperateAgain(h) \/ Operate(h) \/ ReadyDelete(h)
    <2>1. UNCHANGED file
      BY Zenon, <1>5
      DEF SubmitRead, SubmitStep, SubmitCheck, SubmitClaim, ClaimOrRefuse,
          SubmitAdd, SubmitFails, Destroy, CancelRequest, PollQueued, PollBegin,
          PollScan, PollTimeout, PollInterrupted, PollEvent, ReadyCheck,
          OperateAgain, Operate, ReadyDelete, socketVars, kernelVars
    <2> QED
      BY Zenon, <2>1
  <1> QED
    BY Zenon, <1>1, <1>3, <1>4, <1>5 DEF HandleStep, PollStep

\* A handle's step keeps the epoll sets right.
LEMMA WatchStep ==
    ASSUME Types, Types', Ownership, Watching, NEW h \in Handles, HandleStep(h)
    PROVE  Watching'
  <1> SUFFICES ASSUME NEW g \in Handles, NEW w \in watched'[g]
               PROVE  /\ w.request \in Range(waiters'[g]) /\ w.fd = Fd(w.request)'
                      /\ w.socket # 0 /\ w.socket = file'[w.fd]
    BY Zenon DEF Watching
  <1>1. ASSUME w \in watched[g], w.request \in Range(waiters'[g])
        PROVE  /\ w.fd = Fd(w.request)'
               /\ w.socket # 0 /\ w.socket = file'[w.fd]
    <2>1. /\ w.request \in Range(waiters[g]) /\ w.fd = Fd(w.request)
          /\ w.socket # 0 /\ w.socket = file[w.fd]
      BY Zenon, <1>1 DEF Watching
    <2>2. ~(Destroy(h) /\ g = h)
      BY Zenon DEF Destroy, Types, EpollOK
    <2>3. Fd(w.request)' = Fd(w.request)
      BY Zenon, <2>1, <2>2, WaiterObjects DEF Fd
    <2> QED
      BY Zenon, <1>1, <2>1, <2>3, WatchedFile
  <1>2. CASE ~SubmitAdd(h)
    BY Zenon, <1>1, <1>2, WatchedBefore
  <1>3. CASE SubmitAdd(h)
    <2> DEFINE new == [fd |-> Fd(cur[h]), socket |-> file[Fd(cur[h])],
                       request |-> cur[h]]
    <2>1. cur[h] \in Holds(h) /\ cur[h] \in Requests /\ waiters[h] \in Seq(Requests)
          /\ cur[h] \in InCall(h)
      BY Zenon, <1>3, Held
      DEF SubmitAdd, At, Submitting, Types, EpollOK, InCall
    <2>2. /\ waiters'[h] = <<cur[h]>> \o waiters[h]
          /\ \A k \in Handles : k # h => waiters'[k] = waiters[k]
      BY Zenon, <1>3 DEF SubmitAdd, Types, EpollOK
    <2>3. Range(waiters'[h]) = Range(waiters[h]) \cup {cur[h]}
      BY <2>1, <2>2, PushProperties DEF Ownership, HandleOK
    <2>4. \/ w \in watched[g]
          \/ g = h /\ w = new
      BY Zenon, <1>3 DEF SubmitAdd, Types, EpollOK
    <2>5. CASE w \in watched[g]
      <3>1. w.request \in Range(waiters[g])
        BY Zenon, <2>5 DEF Watching
      <3> QED
        BY Zenon, <1>1, <2>2, <2>3, <2>5, <3>1
    <2>6. CASE g = h /\ w = new
      <3>1. file[Fd(cur[h])] # 0 /\ file' = file
        BY Zenon, <1>3 DEF SubmitAdd, socketVars
      <3>2. req[cur[h]] \in Request
            /\ req'[cur[h]] = [req[cur[h]] EXCEPT !.state = "pending"]
        BY Zenon, <1>3, <2>1 DEF SubmitAdd, Types, RequestOK
      <3>3. Fd(cur[h]) = req'[cur[h]].fd
        BY Zenon, <3>2, PendingFields DEF Fd
      <3>4. /\ w.request = cur[h] /\ w.fd = Fd(cur[h])
            /\ w.socket = file[Fd(cur[h])]
        BY Zenon, <2>6
      <3> QED
        BY Zenon, <2>3, <2>6, <3>1, <3>3, <3>4 DEF Fd
    <2> QED
      BY Zenon, <2>4, <2>5, <2>6
  <1> QED
    BY Zenon, <1>2, <1>3

\* A step of the program keeps the epoll sets right.
LEMMA WatchProgram ==
    ASSUME Types, Watching, ProgramStep
    PROVE  Watching'
  <1>u. UNCHANGED <<req, waiters>>
    BY Zenon, ProgramTypes
  <1>t. file \in [Fds -> 0..MaxSockets] /\ watched \in [Handles -> SUBSET Watch]
    BY Zenon DEF Types, SocketOK, EpollOK
  <1>1. PICK f \in Fds :
            \/ NewFile(f) /\ UNCHANGED watched
            \/ UNCHANGED <<file, watched>>
            \/ file' = [file EXCEPT ![f] = 0] /\ watched' = Unwatched(f)
    BY Zenon DEF ProgramStep, Open, Track, TrackFails, Close, CloseOwned,
       Closed,
           kernelVars, handleVars
  <1>2. ASSUME NEW g \in Handles, NEW w \in watched'[g]
        PROVE  w \in watched[g] /\ file'[w.fd] = file[w.fd]
    <2>1. CASE NewFile(f) /\ UNCHANGED watched
      <3>1. w \in watched[g] /\ w.fd \in Fds /\ file[w.fd] # 0
        BY <1>t, <2>1 DEF Watching, Watch
      <3> QED
        BY Zenon, <1>t, <2>1, <3>1 DEF NewFile
    <2>2. CASE UNCHANGED <<file, watched>>
      BY Zenon, <2>2
    <2>3. CASE file' = [file EXCEPT ![f] = 0] /\ watched' = Unwatched(f)
      <3>1. w \in watched[g] /\ w.fd # f /\ w.fd \in Fds
        BY <1>t, <2>3 DEF Unwatched, Watch
      <3> QED
        BY Zenon, <1>t, <2>3, <3>1
    <2> QED
      BY Zenon, <1>1, <2>1, <2>2, <2>3
  <1> QED
    BY Zenon, <1>u, <1>2 DEF Watching, Fd

-----------------------------------------------------------------------------
(* Claims.                                                                 *)

Claims(h) == Range(waiters[h]) \cup (IF pc[h] = "add" THEN {cur[h]} ELSE {})

\* Who holds a claim.
LEMMA ClaimantsBy ==
    ASSUME NEW r
    PROVE  r \in Claimants <=> \E h \in Handles : r \in Claims(h)
    BY Zenon DEF Claimants, Claims

\* A claimant is held by its handle, names a descriptor, and has a generation.
LEMMA ClaimantHeld ==
    ASSUME Types, Ownership, NEW h \in Handles, NEW r \in Claims(h)
    PROVE  /\ r \in Holds(h) /\ r \in Requests /\ ~Free(r)
           /\ Fd(r) \in Fds /\ req[r].gen # 0
  <1>1. r \in Holds(h)
    BY Zenon DEF Claims, Holds, InCall, Submitting
  <1>2. r \in Requests /\ ~Free(r)
    BY Zenon, <1>1, Held
  <1> QED
    BY Zenon, <1>1, <1>2 DEF Ownership

\* A step that leaves the claims alone.
LEMMA ClaimSame ==
    ASSUME ClaimExact, pending' = pending, Claimants' = Claimants,
           \A r \in Claimants :
               req'[r].fd = req[r].fd /\ req'[r].gen = req[r].gen
    PROVE  ClaimExact'
    BY DEF ClaimExact, ClaimedBy, Fd

\* A claim given back by its holder.
LEMMA ClaimDrop ==
    ASSUME Types, ClaimExact, NEW r \in Claimants, Fd(r) \in Fds, req[r].gen # 0,
           Release(Fd(r), req[r].gen),
           Claimants' = Claimants \ {r},
           \A s \in Claimants' :
               req'[s].fd = req[s].fd /\ req'[s].gen = req[s].gen
    PROVE  ClaimExact'
  <1>1. pending[Fd(r)] = req[r].gen /\ \A s \in Claimants : Fd(s) = Fd(r) => s = r
    BY DEF ClaimExact, ClaimedBy
  <1>2. /\ pending'[Fd(r)] = 0
        /\ \A f \in Fds : f # Fd(r) => pending'[f] = pending[f]
    BY Zenon, <1>1 DEF Release, Types, SocketOK
  <1>3. ASSUME NEW f \in Fds
        PROVE  /\ (pending'[f] # 0) <=> \E s \in Claimants' : req'[s].fd = f
               /\ \A s, t \in Claimants' :
                    req'[s].fd = f /\ req'[t].fd = f
                        => s = t /\ req'[s].gen = pending'[f]
    <2>1. /\ (pending[f] # 0) <=> \E s \in Claimants : req[s].fd = f
          /\ \A s, t \in Claimants :
               req[s].fd = f /\ req[t].fd = f => s = t /\ req[s].gen = pending[f]
      BY DEF ClaimExact, ClaimedBy, Fd
    <2>2. CASE f = Fd(r)
      <3>1. \A s \in Claimants' : req'[s].fd # f
        BY Zenon, <1>1, <2>2 DEF Fd
      <3> QED
        BY Zenon, <1>2, <2>2, <3>1
    <2>3. CASE f # Fd(r)
      <3>1. pending'[f] = pending[f]
        BY Zenon, <1>2, <2>3
      <3>2. req[r].fd # f
        BY Zenon, <2>3 DEF Fd
      <3> QED
        BY <2>1, <3>1, <3>2
    <2> QED
      BY Zenon, <2>2, <2>3
  <1> QED
    BY <1>3 DEF ClaimExact, ClaimedBy, Fd

\* A new claim of a slot that nobody claims.
LEMMA ClaimNew ==
    ASSUME Types, ClaimExact, NEW r, Fd(r) \in Fds, req[r].gen # 0,
           pending[Fd(r)] = 0, Claim(Fd(r), req[r].gen),
           Claimants' = Claimants \cup {r},
           \A s \in Claimants' :
               req'[s].fd = req[s].fd /\ req'[s].gen = req[s].gen
    PROVE  ClaimExact'
  <1>1. \A s \in Claimants : Fd(s) # Fd(r)
    BY Zenon DEF ClaimExact, ClaimedBy
  <1>2. /\ pending'[Fd(r)] = req[r].gen
        /\ \A f \in Fds : f # Fd(r) => pending'[f] = pending[f]
    BY Zenon DEF Claim, Types, SocketOK
  <1>3. ASSUME NEW f \in Fds
        PROVE  /\ (pending'[f] # 0) <=> \E s \in Claimants' : req'[s].fd = f
               /\ \A s, t \in Claimants' :
                    req'[s].fd = f /\ req'[t].fd = f
                        => s = t /\ req'[s].gen = pending'[f]
    <2>1. /\ (pending[f] # 0) <=> \E s \in Claimants : req[s].fd = f
          /\ \A s, t \in Claimants :
               req[s].fd = f /\ req[t].fd = f => s = t /\ req[s].gen = pending[f]
      BY DEF ClaimExact, ClaimedBy, Fd
    <2>2. CASE f = Fd(r)
      <3>1. \A s \in Claimants' : req'[s].fd = f => s = r
        BY Zenon, <1>1, <2>2 DEF Fd
      <3>2. req'[r].fd = f /\ req'[r].gen = req[r].gen
        BY Zenon, <2>2 DEF Fd
      <3> QED
        BY Zenon, <1>2, <2>2, <3>1, <3>2
    <2>3. CASE f # Fd(r)
      <3>1. pending'[f] = pending[f]
        BY Zenon, <1>2, <2>3
      <3>2. req'[r].fd # f
        BY Zenon, <2>3 DEF Fd
      <3> QED
        BY <2>1, <3>1, <3>2
    <2> QED
      BY Zenon, <2>2, <2>3
  <1> QED
    BY <1>3 DEF ClaimExact, ClaimedBy, Fd

\* The claims of a handle that is destroyed.
LEMMA ClaimDestroy ==
    ASSUME Types, Ownership, ClaimExact, NEW h \in Handles, Destroy(h),
           Claimants' = Claimants \ Range(waiters[h]),
           Range(waiters[h]) \subseteq Claimants,
           \A s \in Claimants' : req'[s] = req[s]
    PROVE  ClaimExact'
  <1> DEFINE mine == Range(waiters[h])
  <1>1. \A r \in mine : Fd(r) \in Fds /\ req[r].gen # 0
    BY Zenon, ClaimantHeld DEF Claims
  <1>2. \A f \in Fds :
            pending'[f] = IF \E r \in mine : Fd(r) = f /\ req[r].gen = pending[f]
                          THEN 0 ELSE pending[f]
    BY Zenon DEF Destroy
  <1> HIDE DEF mine
  <1>3. ASSUME NEW f \in Fds
        PROVE  /\ (pending'[f] # 0) <=> \E s \in Claimants' : req'[s].fd = f
               /\ \A s, t \in Claimants' :
                    req'[s].fd = f /\ req'[t].fd = f
                        => s = t /\ req'[s].gen = pending'[f]
    <2>1. /\ (pending[f] # 0) <=> \E s \in Claimants : req[s].fd = f
          /\ \A s, t \in Claimants :
               req[s].fd = f /\ req[t].fd = f => s = t /\ req[s].gen = pending[f]
      BY DEF ClaimExact, ClaimedBy, Fd
    <2>2. CASE \E r \in mine : Fd(r) = f
      <3>1. PICK r \in mine : Fd(r) = f
        BY Zenon, <2>2
      <3>2. r \in Claimants /\ req[r].fd = f
        BY Zenon, <3>1 DEF mine, Fd
      <3>3. pending'[f] = 0
        BY Zenon, <1>2, <2>1, <3>1, <3>2
      <3>4. \A s \in Claimants' : req'[s].fd # f
        BY <2>1, <3>1, <3>2 DEF mine
      <3> QED
        BY Zenon, <3>3, <3>4
    <2>3. CASE ~(\E r \in mine : Fd(r) = f)
      <3>1. pending'[f] = pending[f]
        BY Zenon, <1>2, <2>3
      <3>2. \A s \in Claimants : req[s].fd = f => s \in Claimants'
        BY Zenon, <2>3 DEF mine, Fd
      <3> QED
        BY <2>1, <3>1, <3>2
    <2> QED
      BY Zenon, <2>2, <2>3
  <1> QED
    BY <1>3 DEF ClaimExact, ClaimedBy, Fd

\* A step of h is felt in no other handle.
LEMMA Elsewhere ==
    ASSUME Types, NEW h \in Handles, HandleStep(h), NEW g \in Handles, g # h
    PROVE  /\ pc'[g] = pc[g] /\ cur'[g] = cur[g] /\ outcome'[g] = outcome[g]
           /\ waiters'[g] = waiters[g]
  <1>t. /\ pc \in [Handles -> Pcs] /\ cur \in [Handles -> Requests \cup {NoRequest}]
        /\ outcome \in [Handles -> Outcomes]
        /\ waiters \in [Handles -> Seq(Requests)]
    BY Zenon DEF Types, RequestOK, EpollOK
  <1> USE <1>t
  <1> USE DEF Goto, Hold, Return, ReturnFrom
  <1>1. ASSUME NEW r \in Requests, NEW f \in Fds, NEW op \in Ops,
               SubmitRead(h, r, f, op)
        PROVE  /\ pc'[g] = pc[g] /\ cur'[g] = cur[g] /\ outcome'[g] = outcome[g]
               /\ waiters'[g] = waiters[g]
    BY Zenon, <1>1 DEF SubmitRead, Capture, epollVars
  <1>2. CASE SubmitCheck(h)
    BY Zenon, <1>2 DEF SubmitCheck, Refuse, epollVars
  <1>3. CASE SubmitClaim(h)
    BY Zenon, <1>3 DEF SubmitClaim, ClaimOrRefuse, Refuse, epollVars
  <1>4. CASE SubmitAdd(h)
    BY Zenon, <1>4 DEF SubmitAdd
  <1>5. CASE SubmitFails(h)
    BY Zenon, <1>5 DEF SubmitFails, Refuse, handleVars
  <1>6. ASSUME NEW r \in Requests, CancelRequest(h, r)
        PROVE  /\ pc'[g] = pc[g] /\ cur'[g] = cur[g] /\ outcome'[g] = outcome[g]
               /\ waiters'[g] = waiters[g]
    BY Zenon, <1>6 DEF CancelRequest, DeleteWaiter, threadVars
  <1>7. CASE PollQueued(h)
    BY Zenon, <1>7 DEF PollQueued
  <1>8. CASE PollBegin(h)
    BY Zenon, <1>8 DEF PollBegin, handleVars
  <1>9. CASE PollScan(h)
    BY Zenon, <1>9 DEF PollScan, DeleteWaiter
  <1>10. CASE PollTimeout(h) \/ PollInterrupted(h)
    BY Zenon, <1>10 DEF PollTimeout, PollInterrupted, handleVars
  <1>11. ASSUME NEW w \in watched[h], PollEvent(h, w)
         PROVE  /\ pc'[g] = pc[g] /\ cur'[g] = cur[g] /\ outcome'[g] = outcome[g]
                /\ waiters'[g] = waiters[g]
    BY Zenon, <1>11 DEF PollEvent, handleVars
  <1>12. CASE ReadyCheck(h)
    BY Zenon, <1>12 DEF ReadyCheck, handleVars
  <1>13. CASE OperateAgain(h)
    BY Zenon, <1>13 DEF OperateAgain, handleVars
  <1>14. CASE Operate(h)
    BY Zenon, <1>14 DEF Operate, handleVars
  <1>15. ASSUME NEW a \in Fds, OperateAccept(h, a)
         PROVE  /\ pc'[g] = pc[g] /\ cur'[g] = cur[g] /\ outcome'[g] = outcome[g]
                /\ waiters'[g] = waiters[g]
    BY Zenon, <1>15 DEF OperateAccept, handleVars
  <1>16. CASE AcceptTrack(h)
    BY Zenon, <1>16 DEF AcceptTrack
  <1>17. CASE ReadyDelete(h)
    BY Zenon, <1>17 DEF ReadyDelete, DeleteWaiter
  <1>18. CASE PollDeliver(h)
    BY Zenon, <1>18 DEF PollDeliver, Deliver
  <1>19. CASE Destroy(h)
    BY Zenon, <1>19 DEF Destroy, threadVars
  <1> QED
    BY ZenonT(30), <1>1, <1>2, <1>3, <1>4, <1>5, <1>6, <1>7, <1>8, <1>9,
       <1>10, <1>11, <1>12,
       <1>13, <1>14, <1>15, <1>16, <1>17, <1>18, <1>19
    DEF HandleStep, SubmitStep, PollStep

\* What a step does to the claimants, from what it does to those of h.
LEMMA ClaimantsMove ==
    ASSUME Types, Ownership, NEW h \in Handles, HandleStep(h),
           NEW Drop \in SUBSET Claims(h), NEW Add,
           Claims(h)' = (Claims(h) \ Drop) \cup Add
    PROVE  Claimants' = (Claimants \ Drop) \cup Add
  <1>1. ASSUME NEW g \in Handles, g # h
        PROVE  Claims(g)' = Claims(g) /\ Claims(g) \cap Claims(h) = {}
    <2>1. Claims(g)' = Claims(g)
      BY Zenon, <1>1, Elsewhere DEF Claims
    <2>2. Claims(g) \subseteq Holds(g) /\ Claims(h) \subseteq Holds(h)
      BY Zenon, ClaimantHeld
    <2> QED
      BY Zenon, <1>1, <2>1, <2>2 DEF Ownership
  <1>2. ASSUME NEW r
        PROVE  r \in Claimants' <=> \E g \in Handles : r \in Claims(g)'
    BY DEF Claimants, Claims
  <1>3. ASSUME NEW r
        PROVE  r \in Claimants <=> \E g \in Handles : r \in Claims(g)
    BY Zenon, ClaimantsBy
  <1>4. ASSUME NEW r \in Claimants' PROVE r \in (Claimants \ Drop) \cup Add
    BY <1>1, <1>2, <1>3
  <1>5. ASSUME NEW r \in (Claimants \ Drop) \cup Add PROVE r \in Claimants'
    BY <1>1, <1>2, <1>3
  <1> QED
    BY Zenon, <1>4, <1>5

\* A claimant's request is left alone, or is the one that a submission of h or
\* the end of h is about.
LEMMA ClaimantObjects ==
    ASSUME Types, Ownership, NEW h \in Handles, HandleStep(h), NEW r \in Claimants
    PROVE  \/ req'[r] = req[r]
           \/ r = cur[h] /\ pc[h] = "add"
           \/ Destroy(h) /\ r \in Range(waiters[h])
  <1>1. PICK g \in Handles : r \in Claims(g)
    BY Zenon, ClaimantsBy
  <1>2. r \in Holds(g) /\ r \in Requests /\ ~Free(r)
    BY Zenon, <1>1, ClaimantHeld
  <1>3. CASE g # h
    <2>1. r \notin Holds(h) /\ r \notin InCall(h)
      BY Zenon, <1>2, <1>3 DEF Ownership, Holds
    <2> QED
      BY Zenon, <1>2, <2>1, Objects
  <1>4. CASE g = h
    <2>1. CASE r \in Range(waiters[h])
      BY Zenon, <2>1, WaiterObjects
    <2>2. CASE r \notin Range(waiters[h])
      BY Zenon, <1>1, <1>4, <2>2 DEF Claims
    <2> QED
      BY Zenon, <2>1, <2>2
  <1> QED
    BY Zenon, <1>3, <1>4

\* A step of h that touches neither claims nor waiters.
LEMMA ClaimQuiet ==
    ASSUME Types, Ownership, ClaimExact, NEW h \in Handles, HandleStep(h),
           UNCHANGED <<waiters, pending>>, pc[h] # "add", pc'[h] # "add"
    PROVE  ClaimExact'
  <1>1. Claims(h)' = (Claims(h) \ {}) \cup {}
    BY Zenon DEF Claims
  <1>2. Claimants' = Claimants
    <2>1. {} \in SUBSET Claims(h)
      BY Zenon
    <2>2. Claimants' = (Claimants \ {}) \cup {}
      BY Zenon, <1>1, <2>1, ClaimantsMove
    <2> QED
      BY Zenon, <2>2
  <1>3. ASSUME NEW r \in Claimants PROVE req'[r] = req[r]
    <2>1. ~(Destroy(h) /\ r \in Range(waiters[h]))
      BY Zenon, Destroyed
    <2> QED
      BY Zenon, <2>1, ClaimantObjects
  <1> QED
    BY Zenon, <1>2, <1>3, ClaimSame

\* A waiter that is deleted gives its claim back.
LEMMA ClaimDeleted ==
    ASSUME Types, Ownership, ClaimExact, NEW h \in Handles, HandleStep(h),
           NEW r \in Range(waiters[h]), DeleteWaiter(h, r), UNCHANGED req,
           pc[h] # "add", pc'[h] # "add"
    PROVE  ClaimExact'
  <1>1. Claims(h)' = (Claims(h) \ {r}) \cup {} /\ r \in Claims(h)
    BY Zenon, Deleted DEF Claims
  <1>2. Claimants' = Claimants \ {r} /\ r \in Claimants
    BY <1>1, ClaimantsMove, ClaimantsBy
  <1>3. Fd(r) \in Fds /\ req[r].gen # 0 /\ Release(Fd(r), req[r].gen)
    BY Zenon, <1>1, ClaimantHeld DEF DeleteWaiter
  <1> QED
    BY Zenon, <1>2, <1>3, ClaimDrop

\* A handle's step keeps one claim per descriptor.
LEMMA ClaimStep ==
    ASSUME Types, Types', Ownership, ClaimExact, NEW h \in Handles, HandleStep(h)
    PROVE  ClaimExact'
  <1>t. /\ pc \in [Handles -> Pcs] /\ cur \in [Handles -> Requests \cup {NoRequest}]
        /\ waiters[h] \in Seq(Requests) /\ req \in [Requests -> Request]
    BY Zenon DEF Types, EpollOK, RequestOK
  <1>1. ASSUME UNCHANGED <<waiters, pending>>, pc[h] # "add",
               NEW p \in {"idle", "check", "scan", "ready", "operate", "track",
                          "delete", "deliver", "claim"},
               Goto(h, p) \/ UNCHANGED pc
        PROVE  ClaimExact'
    BY Zenon, <1>t, <1>1, ClaimQuiet DEF Goto
  <1>2. ASSUME NEW r \in Requests, NEW f \in Fds, NEW op \in Ops,
               SubmitRead(h, r, f, op)
        PROVE  ClaimExact'
    BY Zenon, <1>1, <1>2 DEF SubmitRead, Capture, At, epollVars, socketVars
  <1>3. CASE SubmitCheck(h)
    BY Zenon, <1>1, <1>3
    DEF SubmitCheck, Refuse, Return, At, epollVars, socketVars
  <1>4. CASE SubmitClaim(h)
    <2>0. /\ pc[h] = "claim" /\ UNCHANGED waiters
          /\ cur[h] \in Requests /\ cur[h] \in InCall(h)
          /\ Fd(cur[h]) \in Fds /\ req[cur[h]].gen # 0
      <3>1. pc[h] = "claim" /\ UNCHANGED waiters
        BY Zenon, <1>4 DEF SubmitClaim, At, epollVars
      <3>2. cur[h] \in Requests /\ cur[h] \in InCall(h) /\ ~Free(cur[h])
        BY Zenon, <3>1, Held DEF Submitting, InCall
      <3> QED
        BY Zenon, <3>1, <3>2 DEF Ownership
    <2>1. CASE Refuse(h) /\ UNCHANGED pending
      BY Zenon, <1>1, <2>0, <2>1 DEF Refuse, Return
    <2>2. CASE /\ Claimable(Fd(cur[h]), req[cur[h]].gen)
               /\ Claim(Fd(cur[h]), req[cur[h]].gen)
               /\ req' = [req EXCEPT ![cur[h]].socket = file[Fd(cur[h])]]
               /\ Goto(h, "add") /\ UNCHANGED cur
      <3>1. Claims(h)' = (Claims(h) \ {}) \cup {cur[h]}
        BY Zenon, <1>t, <2>0, <2>2 DEF Claims, Goto
      <3>2. Claimants' = Claimants \cup {cur[h]}
        <4> DEFINE Drop == {}
                   Add == {cur[h]}
        <4>1. Drop \in SUBSET Claims(h) /\ Claims(h)' = (Claims(h) \ Drop) \cup Add
          BY Zenon, <3>1
        <4> HIDE DEF Drop, Add
        <4>2. Claimants' = (Claimants \ Drop) \cup Add
          BY <4>1, ClaimantsMove
        <4> QED
          BY Zenon, <4>2 DEF Drop, Add
      <3>3. /\ req'[cur[h]] = [req[cur[h]] EXCEPT !.socket = file[Fd(cur[h])]]
            /\ req[cur[h]] \in Request /\ file[Fd(cur[h])] \in 0..MaxSockets
        BY Zenon, <1>t, <2>0, <2>2 DEF Types, SocketOK
      <3>4. req'[cur[h]].fd = req[cur[h]].fd /\ req'[cur[h]].gen = req[cur[h]].gen
        BY <3>3, ClaimedFields
      <3>5. ASSUME NEW s \in Claimants' PROVE req'[s].fd = req[s].fd
                                              /\ req'[s].gen = req[s].gen
        <4>1. CASE s = cur[h]
          BY Zenon, <3>4, <4>1
        <4>2. CASE s # cur[h]
          <5>1. s \in Claimants /\ ~(Destroy(h) /\ s \in Range(waiters[h]))
            BY Zenon, <2>0, <3>2, <4>2, Destroyed
          <5> QED
            BY Zenon, <2>0, <5>1, ClaimantObjects
        <4> QED
          BY Zenon, <4>1, <4>2
      <3>6. pending[Fd(cur[h])] = 0
        BY Zenon, <2>2 DEF Claimable
      <3> QED
        BY Zenon, <2>0, <2>2, <3>2, <3>5, <3>6, ClaimNew
    <2> QED
      BY Zenon, <1>4, <2>1, <2>2 DEF SubmitClaim, ClaimOrRefuse
  <1>5. CASE SubmitAdd(h)
    <2>0. /\ pc[h] = "add" /\ pc'[h] = "idle" /\ UNCHANGED pending
          /\ waiters'[h] = <<cur[h]>> \o waiters[h]
          /\ req' = [req EXCEPT ![cur[h]].state = "pending"]
      BY Zenon, <1>5 DEF SubmitAdd, At, ReturnFrom, Return, Goto, socketVars,
         Types, EpollOK
    <2>1. cur[h] \in Requests /\ cur[h] \notin Range(waiters[h])
      BY Zenon, <2>0, Held DEF Submitting, Ownership, HandleOK, InCall
    <2>2. Range(waiters'[h]) = Range(waiters[h]) \cup {cur[h]}
      BY <1>t, <2>0, <2>1, PushProperties DEF Ownership, HandleOK
    <2>3. Claims(h)' = (Claims(h) \ {}) \cup {}
      BY Zenon, <2>0, <2>2 DEF Claims
    <2>4. Claimants' = Claimants
      <3>1. {} \in SUBSET Claims(h)
        BY Zenon
      <3>2. Claimants' = (Claimants \ {}) \cup {}
        BY Zenon, <2>3, <3>1, ClaimantsMove
      <3> QED
        BY Zenon, <3>2
    <2>5. req'[cur[h]].fd = req[cur[h]].fd /\ req'[cur[h]].gen = req[cur[h]].gen
      BY Zenon, <1>t, <2>0, <2>1, PendingFields
    <2>6. ASSUME NEW s \in Claimants
          PROVE  req'[s].fd = req[s].fd /\ req'[s].gen = req[s].gen
      <3>1. ~(Destroy(h) /\ s \in Range(waiters[h]))
        BY Zenon, <2>0, Destroyed
      <3> QED
        BY Zenon, <2>5, <3>1, ClaimantObjects
    <2> QED
      BY Zenon, <2>0, <2>4, <2>6, ClaimSame
  <1>6. CASE SubmitFails(h)
    <2>0. /\ pc[h] = "add" /\ pc'[h] = "idle" /\ UNCHANGED waiters
          /\ Release(Fd(cur[h]), req[cur[h]].gen)
      BY Zenon, <1>6 DEF SubmitFails, At, Refuse, Return, Goto, handleVars,
         Types, EpollOK
    <2>1. cur[h] \in Requests /\ cur[h] \notin Range(waiters[h])
      BY Zenon, <2>0, Held DEF Submitting, Ownership, HandleOK, InCall
    <2>2. Claims(h)' = (Claims(h) \ {cur[h]}) \cup {} /\ cur[h] \in Claims(h)
      BY Zenon, <2>0, <2>1 DEF Claims
    <2>3. Claimants' = Claimants \ {cur[h]} /\ cur[h] \in Claimants
      BY <2>2, ClaimantsMove, ClaimantsBy
    <2>4. Fd(cur[h]) \in Fds /\ req[cur[h]].gen # 0
      BY Zenon, <2>2, ClaimantHeld
    <2>5. ASSUME NEW s \in Claimants' PROVE req'[s] = req[s]
      <3>1. s \in Claimants /\ s # cur[h]
            /\ ~(Destroy(h) /\ s \in Range(waiters[h]))
        BY Zenon, <2>0, <2>3, Destroyed
      <3> QED
        BY Zenon, <3>1, ClaimantObjects
    <2> QED
      BY Zenon, <2>0, <2>3, <2>4, <2>5, ClaimDrop
  <1>7. ASSUME NEW r \in Requests, CancelRequest(h, r) PROVE ClaimExact'
    BY Zenon, <1>7, ClaimDeleted DEF CancelRequest, At, threadVars
  <1>8. CASE ReadyDelete(h)
    <2>1. /\ cur[h] \in Range(waiters[h]) /\ DeleteWaiter(h, cur[h])
          /\ UNCHANGED req /\ pc[h] = "delete" /\ pc'[h] = "deliver"
      BY Zenon, <1>t, <1>8, Held DEF ReadyDelete, At, Goto, Servicing
    <2> QED
      BY Zenon, <2>1, ClaimDeleted
  <1>9. CASE PollScan(h)
    <2>1. waiters[h][pos[h]] \in Range(waiters[h]) /\ pc[h] = "scan"
      BY Zenon, <1>9, ScanWaiter
    <2>2. CASE DeleteWaiter(h, waiters[h][pos[h]]) /\ Goto(h, "deliver")
      <3>1. UNCHANGED req /\ pc'[h] = "deliver"
        BY Zenon, <1>t, <1>9, <2>2 DEF PollScan, Goto
      <3> QED
        BY Zenon, <2>1, <2>2, <3>1, ClaimDeleted
    <2>3. CASE UNCHANGED <<pending, waiters, pc>>
      BY Zenon, <1>1, <2>1, <2>3
    <2> QED
      BY Zenon, <1>9, <2>2, <2>3 DEF PollScan
  <1>10. CASE PollQueued(h)
    BY Zenon, <1>1, <1>10 DEF PollQueued, At, socketVars
  <1>11. CASE PollBegin(h)
    BY Zenon, <1>1, <1>11 DEF PollBegin, At, socketVars, handleVars
  <1>12. CASE PollTimeout(h)
    BY Zenon, <1>1, <1>12
    DEF PollTimeout, At, ReturnFrom, Return, socketVars, handleVars
  <1>13. CASE PollInterrupted(h)
    BY Zenon, <1>1, <1>13 DEF PollInterrupted, At, socketVars, handleVars
  <1>14. ASSUME NEW w \in watched[h], PollEvent(h, w) PROVE ClaimExact'
    BY Zenon, <1>1, <1>14 DEF PollEvent, At, socketVars, handleVars
  <1>15. CASE ReadyCheck(h)
    BY Zenon, <1>1, <1>15 DEF ReadyCheck, At, socketVars, handleVars
  <1>16. CASE OperateAgain(h)
    BY Zenon, <1>1, <1>16
    DEF OperateAgain, At, ReturnFrom, Return, socketVars, handleVars
  <1>17. CASE Operate(h)
    BY Zenon, <1>1, <1>17 DEF Operate, At, socketVars, handleVars
  <1>18. ASSUME NEW a \in Fds, OperateAccept(h, a) PROVE ClaimExact'
    BY Zenon, <1>1, <1>18 DEF OperateAccept, At, slotVars, handleVars
  <1>19. CASE AcceptTrack(h)
    BY Zenon, <1>1, <1>19 DEF AcceptTrack, At
  <1>20. CASE PollDeliver(h)
    BY Zenon, <1>1, <1>20 DEF PollDeliver, Deliver, At, Return
  <1>21. CASE Destroy(h)
    <2>1. pc[h] = "idle" /\ pc' = pc /\ waiters'[h] = << >>
      BY Zenon, <1>21, Destroyed
    <2>2. Claims(h)' = (Claims(h) \ Range(waiters[h])) \cup {}
      BY <2>1 DEF Claims, Range
    <2>3. Claimants' = Claimants \ Range(waiters[h])
      <3> DEFINE Drop == Range(waiters[h])
                 Add == {}
      <3>1. Drop \in SUBSET Claims(h) /\ Claims(h)' = (Claims(h) \ Drop) \cup Add
        BY Zenon, <2>2 DEF Claims
      <3> HIDE DEF Drop, Add
      <3>2. Claimants' = (Claimants \ Drop) \cup Add
        BY <3>1, ClaimantsMove
      <3> QED
        BY Zenon, <3>2 DEF Drop, Add
    <2>4. Range(waiters[h]) \subseteq Claimants
      BY Zenon, ClaimantsBy DEF Claims
    <2>5. ASSUME NEW s \in Claimants' PROVE req'[s] = req[s]
      BY Zenon, <2>1, <2>3, ClaimantObjects
    <2> QED
      BY Zenon, <1>21, <2>3, <2>4, <2>5, ClaimDestroy
  <1> QED
    BY Zenon, <1>2, <1>3, <1>4, <1>5, <1>6, <1>7, <1>8, <1>9, <1>10, <1>11,
       <1>12, <1>13,
       <1>14, <1>15, <1>16, <1>17, <1>18, <1>19, <1>20, <1>21
    DEF HandleStep, SubmitStep, PollStep

-----------------------------------------------------------------------------
(* All three together.                                                     *)

\* A handle's step keeps the ownership of requests.
LEMMA StepOwns ==
    ASSUME Types, Types', Ownership, Watching, NEW h \in Handles, HandleStep(h)
    PROVE  Ownership'
  <1>1. ASSUME NEW w \in watched[h], PollEvent(h, w) PROVE Ownership'
    <2>1. w.request \in Range(waiters[h])
      BY Zenon DEF Watching
    <2> QED
      BY Zenon, <1>1, <2>1, PollEventOwns
  <1> QED
    BY Zenon, <1>1, QuietOwns, SubmitReadOwns, SubmitOwns, PollDeliverOwns,
       DeleteOwns,
       CancelOwns, PollQueuedOwns, SubmitAddOwns, DestroyOwns
    DEF HandleStep, SubmitStep, PollStep

Custody == Types /\ Ownership /\ Watching /\ ClaimExact

\* Nobody holds anything at the start.
LEMMA InitCustody ==
    ASSUME Init
    PROVE  Custody
  <1>i. SocketInit /\ RequestInit /\ EpollInit
    BY Zenon DEF Init
  <1>1. SocketOK
    BY <1>i, FdsAssumption DEF SocketInit, SocketOK
  <1>2. RequestOK
    BY Zenon, <1>i, BlankFields, Consts DEF RequestInit, RequestOK
  <1>3. EpollOK
    <2>1. << >> \in Seq(Requests) /\ 0 \in Nat
      OBVIOUS
    <2> QED
      BY Zenon, <1>i, <2>1, Consts DEF RequestInit, EpollInit, EpollOK
  <1>4. \A h \in Handles :
            /\ pc[h] = "idle" /\ waiters[h] = << >> /\ completed[h] = << >>
            /\ watched[h] = {}
    BY Zenon, <1>i DEF RequestInit, EpollInit
  <1>5. Range(<< >>) = {} /\ Distinct(<< >>)
    BY DEF Range, Distinct
  <1>6. \A h \in Handles : InCall(h) = {} /\ Holds(h) = {} /\ HandleOK(h)
    BY Zenon, <1>4, <1>5 DEF InCall, Holds, HandleOK, Submitting, Servicing
  <1>7. Ownership
    <2>1. \A r \in Requests : Free(r)
      BY Zenon, <1>i, BlankFields DEF RequestInit, Free
    <2> QED
      BY Zenon, <1>6, <2>1 DEF Ownership
  <1>8. Watching
    BY Zenon, <1>4 DEF Watching
  <1>9. Claimants = {}
    BY Zenon, <1>4, <1>5, ClaimantsBy DEF Claims
  <1>10. ClaimExact
    BY Zenon, <1>i, <1>9 DEF ClaimExact, ClaimedBy, SocketInit
  <1> QED
    BY Zenon, <1>1, <1>2, <1>3, <1>7, <1>8, <1>10 DEF Types, Custody

\* A step that leaves requests, handles and claims alone keeps the ownership.
LEMMA AloneOwns ==
    ASSUME Ownership,
           UNCHANGED <<req, pc, cur, outcome, waiters, completed, pos>>
    PROVE  Ownership'
  <1>1. ASSUME NEW h \in Handles
        PROVE  Holds(h)' = Holds(h) /\ HandleOK(h)'
    <2>1. InCall(h)' = InCall(h) /\ Holds(h)' = Holds(h)
      BY Zenon DEF InCall, Holds
    <2>2. HandleOK(h)
      BY Zenon DEF Ownership
    <2>3. /\ waiters'[h] = waiters[h] /\ completed'[h] = completed[h]
          /\ pc'[h] = pc[h] /\ cur'[h] = cur[h] /\ pos'[h] = pos[h]
          /\ \A r \in Holds(h) : req'[r].state = req[r].state
      BY Zenon
    <2>4. \A r \in Holds(h)' :
              req'[r].state = IF pc'[h] \in Submitting /\ r = cur'[h]
                              THEN "submitting" ELSE "pending"
      BY Zenon, <2>1, <2>2, <2>3 DEF HandleOK
    <2> QED
      BY Zenon, <2>1, <2>2, <2>3, <2>4 DEF HandleOK
  <1> QED
    BY <1>1 DEF Ownership, Free, Fd

\* Every step keeps all of it.
LEMMA NextCustody ==
    ASSUME Custody, [Next]_vars
    PROVE  Custody'
  <1>c. Types /\ Ownership /\ Watching /\ ClaimExact
    BY Zenon DEF Custody
  <1>1. ASSUME NEW h \in Handles, HandleStep(h)
        PROVE  Custody'
    <2>1. Types'
      BY Zenon, <1>c, <1>1, StepTypes
    <2> QED
      BY Zenon, <1>c, <1>1, <2>1, StepOwns, WatchStep, ClaimStep DEF Custody
  <1>2. ASSUME UNCHANGED <<req, pc, cur, outcome, waiters, completed, pos, pending>>
        PROVE  Ownership' /\ ClaimExact'
    <2>1. Ownership'
      BY Zenon, <1>c, <1>2, AloneOwns
    <2>2. Claimants' = Claimants
      BY Zenon, <1>2 DEF Claimants
    <2> QED
      BY Zenon, <1>c, <1>2, <2>1, <2>2, ClaimSame
  <1>3. CASE ProgramStep
    BY Zenon, <1>c, <1>2, <1>3, ProgramTypes, WatchProgram DEF Custody
  <1>4. CASE UNCHANGED vars
    <2>1. /\ UNCHANGED <<req, pc, cur, outcome, waiters, completed, pos, pending>>
          /\ UNCHANGED <<file, serial, gen, active, opened, owned, live, watched>>
      BY Zenon, <1>4 DEF vars, socketVars, requestVars, epollVars
    <2>2. Types'
      BY Zenon, <1>c, <2>1 DEF Types, SocketOK, RequestOK, EpollOK
    <2>3. Watching'
      BY Zenon, <1>c, <2>1 DEF Watching, Fd
    <2> QED
      BY Zenon, <1>2, <2>1, <2>2, <2>3 DEF Custody
  <1> QED
    BY Zenon, <1>1, <1>3, <1>4 DEF Next

=============================================================================
