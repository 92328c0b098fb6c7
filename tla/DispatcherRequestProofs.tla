----------------------- MODULE DispatcherRequestProofs ----------------------
(* No request of a dispatcher is lost, duplicated or forgotten: where a    *)
(* request can be, and that every step keeps it in one place.              *)
EXTENDS DispatcherProofs

-----------------------------------------------------------------------------
(* Lists without repetition. *)

\* Appending.
LEMMA AppendElems ==
  ASSUME NEW S, NEW s \in Seq(S), NEW x \in S
  PROVE  /\ Elems(Append(s, x)) = Elems(s) \cup {x}
         /\ IsInjectiveSeq(s) /\ x \notin Elems(s) => IsInjectiveSeq(Append(s, x))
<1>1. /\ Len(s) \in Nat /\ DOMAIN s = 1 .. Len(s)
      /\ DOMAIN Append(s, x) = 1 .. Len(s) + 1
      /\ \A i \in 1 .. Len(s) : Append(s, x)[i] = s[i]
      /\ Append(s, x)[Len(s) + 1] = x
  BY AppendFacts, LenFacts
<1>2. \A i \in 1 .. Len(s) + 1 : i \in 1 .. Len(s) \/ i = Len(s) + 1
  BY <1>1
<1>3. \A i \in 1 .. Len(s) : i \in 1 .. Len(s) + 1 /\ i # Len(s) + 1
  BY <1>1
<1>4. Len(s) + 1 \in 1 .. Len(s) + 1
  BY <1>1
<1>5. Elems(Append(s, x)) = Elems(s) \cup {x}
  BY Zenon, <1>1, <1>2, <1>3, <1>4 DEF Elems
<1>6. ASSUME IsInjectiveSeq(s), x \notin Elems(s) PROVE IsInjectiveSeq(Append(s, x))
  BY Zenon, <1>1, <1>2, <1>6 DEF IsInjectiveSeq, Elems
<1>. QED BY Zenon, <1>5, <1>6

\* Joining two lists.
LEMMA ConcatElems ==
  ASSUME NEW S, NEW s \in Seq(S), NEW u \in Seq(S)
  PROVE  /\ s \o u \in Seq(S)
         /\ Elems(s \o u) = Elems(s) \cup Elems(u)
         /\ IsInjectiveSeq(s) /\ IsInjectiveSeq(u) /\ Elems(s) \cap Elems(u) = {}
              => IsInjectiveSeq(s \o u)
<1>. DEFINE m == Len(s)
            n == Len(u)
            v == s \o u
<1>1. /\ m \in Nat /\ n \in Nat /\ DOMAIN s = 1 .. m /\ DOMAIN u = 1 .. n
      /\ v \in Seq(S) /\ DOMAIN v = 1 .. m + n
  BY ConcatFacts, LenFacts
<1>2. /\ \A i \in 1 .. m : v[i] = s[i]
      /\ \A i \in m + 1 .. m + n : v[i] = u[i - m]
  BY <1>1, ConcatFacts
<1>. HIDE DEF m, n, v
<1>3. ASSUME NEW i \in 1 .. m PROVE i \in 1 .. m + n /\ v[i] = s[i]
  BY <1>1, <1>2
<1>4. ASSUME NEW i \in 1 .. n PROVE m + i \in 1 .. m + n /\ v[m + i] = u[i]
  <2>1. m + i \in 1 .. m + n /\ m + i \in m + 1 .. m + n /\ (m + i) - m = i
    BY <1>1
  <2>. QED BY Zenon, <1>2, <2>1
<1>5. ASSUME NEW i \in 1 .. m + n PROVE i \in 1 .. m \/ \E j \in 1 .. n : i = m + j
  <2>1. i \in 1 .. m \/ (i - m \in 1 .. n /\ i = m + (i - m))
    BY <1>1
  <2>. QED BY Zenon, <2>1
<1>6. Elems(v) = Elems(s) \cup Elems(u)
  <2>1. ASSUME NEW i \in 1 .. m + n PROVE v[i] \in Elems(s) \cup Elems(u)
    BY Zenon, <1>1, <1>3, <1>4, <1>5 DEF Elems
  <2>2. ASSUME NEW i \in 1 .. m PROVE s[i] \in Elems(v)
    BY Zenon, <1>1, <1>3 DEF Elems
  <2>3. ASSUME NEW i \in 1 .. n PROVE u[i] \in Elems(v)
    BY Zenon, <1>1, <1>4 DEF Elems
  <2>. QED BY Zenon, <1>1, <2>1, <2>2, <2>3 DEF Elems
<1>7. ASSUME IsInjectiveSeq(s), IsInjectiveSeq(u), Elems(s) \cap Elems(u) = {}
      PROVE  IsInjectiveSeq(v)
  <2>1. \A i \in 1 .. m, j \in 1 .. n : v[i] # v[m + j]
    BY Zenon, <1>1, <1>3, <1>4, <1>7 DEF Elems
  <2>2. \A i, j \in 1 .. m : v[i] = v[j] => i = j
    BY Zenon, <1>1, <1>3, <1>7 DEF IsInjectiveSeq
  <2>3. \A i, j \in 1 .. n : v[m + i] = v[m + j] => i = j
    BY Zenon, <1>1, <1>4, <1>7 DEF IsInjectiveSeq
  <2>4. ASSUME NEW i \in 1 .. m + n, NEW j \in 1 .. m + n, v[i] = v[j] PROVE i = j
    BY Zenon, <1>5, <2>1, <2>2, <2>3, <2>4
  <2>. QED BY Zenon, <1>1, <2>4 DEF IsInjectiveSeq
<1>. QED BY Zenon, <1>1, <1>6, <1>7 DEF v

\* Splitting a list.
LEMMA SplitElems ==
  ASSUME NEW S, NEW s \in Seq(S), IsInjectiveSeq(s), NEW n \in 0 .. Len(s), NEW k, k = n + 1
  PROVE  LET p == SubSeq(s, 1, n)
             q == SubSeq(s, k, Len(s))
         IN  /\ p \in Seq(S) /\ q \in Seq(S)
             /\ Elems(p) \cup Elems(q) = Elems(s) /\ Elems(p) \cap Elems(q) = {}
             /\ IsInjectiveSeq(p) /\ IsInjectiveSeq(q)
<1>. DEFINE l == Len(s)
            p == SubSeq(s, 1, n)
            q == SubSeq(s, k, Len(s))
<1>1. l \in Nat /\ n \in Nat /\ n <= l /\ DOMAIN s = 1 .. l
  BY LenFacts
<1>2. /\ p \in Seq(S) /\ Len(p) = n /\ DOMAIN p = 1 .. n
      /\ \A i \in 1 .. n : p[i] = s[i]
  BY <1>1, SubSeqFacts, LenFacts
<1>3. /\ q \in Seq(S) /\ Len(q) = l - n /\ DOMAIN q = 1 .. l - n
      /\ \A i \in 1 .. l - n : q[i] = s[n + i]
  <2>1. k \in Nat /\ \A i \in k .. l : s[i] \in S
    BY <1>1
  <2>2. /\ q \in Seq(S) /\ Len(q) = (IF k <= l THEN l - k + 1 ELSE 0)
        /\ \A i \in 1 .. l - k + 1 : q[i] = s[k + i - 1]
    BY <1>1, <2>1, SubSeqFacts
  <2>. HIDE DEF l
  <2>3. l - k + 1 = l - n
    BY <1>1
  <2>4. Len(q) = l - n
    BY <1>1, <2>2
  <2>5. ASSUME NEW i \in 1 .. l - n PROVE k + i - 1 = n + i
    BY <1>1
  <2>. QED BY Zenon, <2>2, <2>3, <2>4, <2>5, LenFacts
<1>. HIDE DEF l, p, q
<1>4. ASSUME NEW i \in 1 .. n PROVE i \in 1 .. l
  BY <1>1
<1>5. ASSUME NEW i \in 1 .. l - n PROVE n + i \in 1 .. l /\ n + i \notin 1 .. n
  BY <1>1
<1>6. ASSUME NEW i \in 1 .. l PROVE i \in 1 .. n \/ \E j \in 1 .. l - n : i = n + j
  <2>1. i \in 1 .. n \/ (i - n \in 1 .. l - n /\ i = n + (i - n))
    BY <1>1
  <2>. QED BY Zenon, <2>1
<1>7. \A i, j \in 1 .. l : s[i] = s[j] => i = j
  BY Zenon, <1>1 DEF IsInjectiveSeq
<1>8. Elems(p) \cup Elems(q) = Elems(s)
  <2>1. ASSUME NEW i \in 1 .. l PROVE s[i] \in Elems(p) \cup Elems(q)
    <3>1. CASE i \in 1 .. n
      BY Zenon, <1>2, <3>1 DEF Elems
    <3>2. ASSUME NEW j \in 1 .. l - n, i = n + j PROVE s[i] \in Elems(q)
      BY Zenon, <1>3, <3>2 DEF Elems
    <3>. QED BY Zenon, <1>6, <3>1, <3>2
  <2>2. Elems(p) \subseteq Elems(s)
    BY Zenon, <1>1, <1>2, <1>4 DEF Elems
  <2>3. Elems(q) \subseteq Elems(s)
    BY Zenon, <1>1, <1>3, <1>5 DEF Elems
  <2>. QED BY Zenon, <1>1, <2>1, <2>2, <2>3 DEF Elems
<1>9. Elems(p) \cap Elems(q) = {}
  BY <1>2, <1>3, <1>4, <1>5, <1>7 DEF Elems
<1>10. IsInjectiveSeq(p)
  BY Zenon, <1>2, <1>4, <1>7 DEF IsInjectiveSeq
<1>11. IsInjectiveSeq(q)
  <2>1. ASSUME NEW i \in 1 .. l - n, NEW j \in 1 .. l - n, q[i] = q[j] PROVE i = j
    <3>1. n + i = n + j
      BY Zenon, <1>3, <1>5, <1>7, <2>1
    <3>. QED BY <1>1, <3>1
  <2>. QED BY Zenon, <1>3, <2>1 DEF IsInjectiveSeq
<1>. QED BY Zenon, <1>2, <1>3, <1>8, <1>9, <1>10, <1>11 DEF p, q

\* Taking the first element.
LEMMA TailElems ==
  ASSUME NEW S, NEW s \in Seq(S), IsInjectiveSeq(s), s # <<>>
  PROVE  /\ Tail(s) \in Seq(S) /\ Head(s) \in Elems(s)
         /\ Elems(Tail(s)) = Elems(s) \ {Head(s)} /\ IsInjectiveSeq(Tail(s))
<1>1. Len(s) \in Nat \ {0} /\ 1 \in 0 .. Len(s) /\ 1 \in 1 .. Len(s)
  OBVIOUS
<1>2. DOMAIN s = 1 .. Len(s) /\ Head(s) = s[1] /\ Tail(s) = SubSeq(s, 2, Len(s))
  BY LenFacts, TailFacts
<1>3. Elems(SubSeq(s, 1, 1)) = {s[1]}
  <2>1. s[1] \in S
    BY <1>1, <1>2
  <2>2. /\ SubSeq(s, 1, 1) \in Seq(S) /\ Len(SubSeq(s, 1, 1)) = 1 /\ SubSeq(s, 1, 1)[1] = s[1]
    BY <2>1, SubSeqFacts
  <2>3. DOMAIN SubSeq(s, 1, 1) = {1}
    BY <2>2, LenFacts
  <2>. QED BY Zenon, <2>2, <2>3 DEF Elems
<1>4. 2 = 1 + 1
  OBVIOUS
<1>5. /\ SubSeq(s, 2, Len(s)) \in Seq(S) /\ IsInjectiveSeq(SubSeq(s, 2, Len(s)))
      /\ Elems(SubSeq(s, 1, 1)) \cup Elems(SubSeq(s, 2, Len(s))) = Elems(s)
      /\ Elems(SubSeq(s, 1, 1)) \cap Elems(SubSeq(s, 2, Len(s))) = {}
  BY ZenonT(30), <1>1, <1>4, SplitElems
<1>. QED BY Zenon, <1>2, <1>3, <1>5

\* The rest of a sequence's end.
LEMMA TailOfPart ==
  ASSUME NEW S, NEW s \in Seq(S), NEW m \in 1 .. Len(s)
  PROVE  Tail(SubSeq(s, m, Len(s))) = SubSeq(s, m + 1, Len(s))
<1>. DEFINE l == Len(s)
            q == SubSeq(s, m, l)
            u == SubSeq(s, m + 1, l)
<1>1. l \in Nat /\ m \in Nat /\ m + 1 \in Nat /\ m >= 1 /\ m <= l
  BY LenFacts
<1>2. \A i \in m .. l : s[i] \in S
  BY LenFacts
<1>3. /\ q \in Seq(S) /\ Len(q) = l - m + 1
      /\ \A i \in 1 .. l - m + 1 : q[i] = s[m + i - 1]
  BY <1>1, <1>2, SubSeqFacts
<1>4. /\ u \in Seq(S) /\ Len(u) = l - m
      /\ \A i \in 1 .. l - m : u[i] = s[m + i]
  <2>1. \A i \in m + 1 .. l : s[i] \in S
    BY <1>1, <1>2
  <2>. QED BY <1>1, <2>1, SubSeqFacts
<1>. HIDE DEF l, q, u
<1>5. /\ Tail(q) \in Seq(S) /\ Len(Tail(q)) = l - m
      /\ \A i \in 1 .. l - m : Tail(q)[i] = q[i + 1]
  <2>1. q # <<>> /\ Len(q) - 1 = l - m
    BY <1>1, <1>3
  <2>. QED BY <1>3, <2>1, TailFacts
<1>6. \A i \in 1 .. l - m : Tail(q)[i] = u[i]
  BY <1>1, <1>3, <1>4, <1>5
<1>7. Tail(q) = u
  BY <1>1, <1>4, <1>5, <1>6
<1>. QED BY Zenon, <1>7 DEF l, q, u

\* Removing an element.
LEMMA RemoveElems ==
  ASSUME NEW S, NEW s \in Seq(S), IsInjectiveSeq(s), NEW i \in DOMAIN s
  PROVE  /\ RemoveIndex(s, i) \in Seq(S) /\ IsInjectiveSeq(RemoveIndex(s, i))
         /\ Elems(RemoveIndex(s, i)) = Elems(s) \ {s[i]}
<1>. DEFINE l == Len(s)
            p == SubSeq(s, 1, i - 1)
            q == SubSeq(s, i, l)
            u == SubSeq(s, i + 1, l)
<1>1. l \in Nat /\ i \in 1 .. l /\ DOMAIN s = 1 .. l
  BY Zenon, LenFacts
<1>2. i - 1 \in 0 .. l /\ i = (i - 1) + 1
  BY <1>1
<1>3. /\ p \in Seq(S) /\ q \in Seq(S) /\ IsInjectiveSeq(p) /\ IsInjectiveSeq(q)
      /\ Elems(p) \cup Elems(q) = Elems(s) /\ Elems(p) \cap Elems(q) = {}
  BY ZenonT(30), <1>1, <1>2, SplitElems
<1>4. q # <<>> /\ Head(q) = s[i] /\ Tail(q) = u
  <2>1. \A j \in i .. l : s[j] \in S
    BY <1>1
  <2>2. /\ Len(q) = IF i <= l THEN l - i + 1 ELSE 0
        /\ \A j \in 1 .. l - i + 1 : q[j] = s[i + j - 1]
    BY <1>1, <2>1, SubSeqFacts
  <2>3. Len(q) = l - i + 1 /\ 1 \in 1 .. l - i + 1 /\ i + 1 - 1 = i
    BY <1>1, <2>2
  <2>4. q # <<>> /\ q[1] = s[i]
    BY <1>1, <2>2, <2>3
  <2>5. i \in 1 .. l /\ l \in i .. l
    BY <1>1
  <2>6. Head(q) = s[i]
    BY <2>4
  <2>7. Tail(q) = u
    BY Zenon, <1>1, TailOfPart
  <2>. QED BY Zenon, <2>4, <2>6, <2>7
<1>. HIDE DEF l, p, q, u
<1>5. u \in Seq(S) /\ Elems(u) = Elems(q) \ {s[i]} /\ s[i] \in Elems(q) /\ IsInjectiveSeq(u)
  BY Zenon, <1>3, <1>4, TailElems
<1>6. /\ p \o u \in Seq(S) /\ Elems(p \o u) = Elems(p) \cup Elems(u)
      /\ Elems(p) \cap Elems(u) = {} => IsInjectiveSeq(p \o u)
  BY <1>3, <1>5, ConcatElems
<1>7. RemoveIndex(s, i) = p \o u
  BY Zenon DEF RemoveIndex, p, u, l
<1>. QED BY Zenon, <1>3, <1>5, <1>6, <1>7

\* Extract removes an element that is there.
LEMMA ExtractElems ==
  ASSUME NEW S, NEW s \in Seq(S), IsInjectiveSeq(s), NEW r, NEW new, Extract(s, r, new)
  PROVE  new \in Seq(S) /\ IsInjectiveSeq(new) /\ Elems(new) = Elems(s) \ {r}
BY RemoveElems DEF Extract

\* Inserting an element.
LEMMA InsertElems ==
  ASSUME NEW S, NEW s \in Seq(S), IsInjectiveSeq(s), NEW r \in S, r \notin Elems(s),
         NEW i \in 1 .. Len(s) + 1
  PROVE  LET new == SubSeq(s, 1, i - 1) \o <<r>> \o SubSeq(s, i, Len(s)) IN
         new \in Seq(S) /\ IsInjectiveSeq(new) /\ Elems(new) = Elems(s) \cup {r}
<1>. DEFINE p == SubSeq(s, 1, i - 1)
            q == SubSeq(s, i, Len(s))
            u == <<r>>
<1>1. i - 1 \in 0 .. Len(s) /\ i = (i - 1) + 1
  BY LenFacts
<1>2. /\ p \in Seq(S) /\ q \in Seq(S) /\ IsInjectiveSeq(p) /\ IsInjectiveSeq(q)
      /\ Elems(p) \cup Elems(q) = Elems(s) /\ Elems(p) \cap Elems(q) = {}
  BY ZenonT(30), <1>1, SplitElems
<1>3. u \in Seq(S) /\ IsInjectiveSeq(u) /\ Elems(u) = {r}
  BY DEF IsInjectiveSeq, Elems
<1>. HIDE DEF p, q, u
<1>. DEFINE w == p \o u
<1>5. w \in Seq(S) /\ IsInjectiveSeq(w) /\ Elems(w) = Elems(p) \cup {r}
  <2>1. Elems(p) \cap Elems(u) = {}
    BY Zenon, <1>2, <1>3
  <2>. QED BY <1>2, <1>3, <2>1, ConcatElems
<1>. HIDE DEF w
<1>6. Elems(w) \cap Elems(q) = {}
  BY Zenon, <1>2, <1>5
<1>7. w \o q \in Seq(S) /\ Elems(w \o q) = Elems(w) \cup Elems(q) /\ IsInjectiveSeq(w \o q)
  BY <1>2, <1>5, <1>6, ConcatElems
<1>. QED BY Zenon, <1>2, <1>5, <1>7 DEF p, q, u, w

-----------------------------------------------------------------------------
(* Where requests live.                                                    *)

\* Each request of P is in exactly one of R, C, S, W, D and the batches B.
Home(P, R, C, S, W, D, B) ==
  \A x :
    /\ x \in P <=> \/ x \in R \/ x \in C \/ x \in S \/ x \in W \/ x \in D
                   \/ \E t \in Threads : x \in B[t]
    /\ x \in R => x \notin C /\ x \notin S /\ x \notin W /\ x \notin D
    /\ x \in C => x \notin S /\ x \notin W /\ x \notin D
    /\ x \in S => x \notin W /\ x \notin D
    /\ x \in W => x \notin D
    /\ \A t \in Threads : x \in B[t] =>
         /\ x \notin R /\ x \notin C /\ x \notin S /\ x \notin W /\ x \notin D
         /\ \A u \in Threads : x \in B[u] => t = u

\* A request is accepted into a list: registered, begun as a wait, or delayed.
LEMMA HomeAccept ==
  ASSUME NEW P, NEW R, NEW C, NEW S, NEW W, NEW D, NEW B, Home(P, R, C, S, W, D, B),
         NEW r, r \notin P
  PROVE  /\ Home(P \cup {r}, R \cup {r}, C, S, W, D, B)
         /\ Home(P \cup {r}, R, C, S, W \cup {r}, D, B)
         /\ Home(P \cup {r}, R, C, S, W, D \cup {r}, B)
<1>1. Home(P \cup {r}, R \cup {r}, C, S, W, D, B)
  BY Zenon DEF Home
<1>2. Home(P \cup {r}, R, C, S, W \cup {r}, D, B)
  BY Zenon DEF Home
<1>3. Home(P \cup {r}, R, C, S, W, D \cup {r}, B)
  BY Zenon DEF Home
<1>. QED BY Zenon, <1>1, <1>2, <1>3

\* A request is run or cancelled: it leaves whichever list it is in.
LEMMA HomeFinish ==
  ASSUME NEW P, NEW R, NEW C, NEW S, NEW W, NEW D, NEW B, Home(P, R, C, S, W, D, B),
         NEW r, NEW A, \A t \in Threads : A[t] = B[t] \ {r}
  PROVE  Home(P \ {r}, R \ {r}, C \ {r}, S \ {r}, W \ {r}, D \ {r}, A)
BY DEF Home

\* A registered request is queued.
LEMMA HomeQueue ==
  ASSUME NEW P, NEW R, NEW C, NEW S, NEW W, NEW D, NEW B, Home(P, R, C, S, W, D, B),
         NEW r \in R
  PROVE  Home(P, R \ {r}, C \cup {r}, S, W, D, B)
BY DEF Home

\* A wait that was signalled is registered, or kept for shutdown.
LEMMA HomeSignal ==
  ASSUME NEW P, NEW R, NEW C, NEW S, NEW W, NEW D, NEW B, Home(P, R, C, S, W, D, B),
         NEW r \in W
  PROVE  /\ Home(P, R \cup {r}, C, S, W \ {r}, D, B)
         /\ Home(P, R, C, S \cup {r}, W \ {r}, D, B)
<1>1. Home(P, R \cup {r}, C, S, W \ {r}, D, B)
  BY DEF Home
<1>2. Home(P, R, C, S \cup {r}, W \ {r}, D, B)
  BY DEF Home
<1>. QED BY Zenon, <1>1, <1>2

\* DispatchCallbacks takes a batch.
LEMMA HomeTake ==
  ASSUME NEW P, NEW R, NEW C, NEW S, NEW W, NEW D, NEW B, Home(P, R, C, S, W, D, B),
         NEW t \in Threads, B[t] = {}, NEW E, NEW F, E \cup F = C, E \cap F = {},
         NEW A, A[t] = E, \A u \in Threads \ {t} : A[u] = B[u]
  PROVE  Home(P, R, F, S, W, D, A)
BY DEF Home

\* CheckDelayedTasks queues the tasks that are due.
LEMMA HomeDue ==
  ASSUME NEW P, NEW R, NEW C, NEW S, NEW W, NEW D, NEW B, Home(P, R, C, S, W, D, B),
         NEW E, NEW F, E \cup F = D, E \cap F = {}
  PROVE  Home(P, R, C \cup E, S, W, F, B)
BY Zenon DEF Home

\* ShutdownAsync moves everything it can to the shutdown queue.
LEMMA HomeShutdown ==
  ASSUME NEW P, NEW R, NEW C, NEW W, NEW D, NEW B, Home(P, R, C, {}, W, D, B),
         NEW K, K \subseteq W
  PROVE  Home(P, {}, {}, C \cup R \cup K \cup D, W \ K, {}, B)
BY Zenon DEF Home

-----------------------------------------------------------------------------
(* The inductive invariant behind RequestsConserved.                       *)

\* Actor a has taken wait w from the loop and is about to remove it from waits_.
Token(a, w) == req[a] = w /\ (pc[a] \in {"signal", "queue_wait"} \/ call[a] = "remove_wait")

\* Such a wait is still in waits_, no longer on the loop, and one actor's alone.
WaitTokens ==
  \A a \in Actors, w \in Waits :
    Token(a, w) => w \in waits /\ w \notin loop_waits /\ \A b \in Actors : Token(b, w) => a = b

\* What the loop waits for is in waits_.
LoopWaits == loop_waits \subseteq waits

\* Only a thread that dispatches has a batch.
BatchOwned == \A t \in Threads : to_call[t] # <<>> => pc[t] \in {"calling", "callback"}

\* The lists of a running dispatcher and of one that shuts down are different.
ListsClosed ==
  /\ Running => shutdown_queue = {}
  /\ ~Running => registered_callbacks = {} /\ callback_queue = <<>>
  /\ ~Running /\ ~LateDelayed => delayed_tasks = <<>>

Batches == [t \in Threads |-> Elems(to_call[t])]
Homes ==
  Home(pending, registered_callbacks, Elems(callback_queue), shutdown_queue, waits,
       Elems(delayed_tasks), Batches)
Injective ==
  /\ IsInjectiveSeq(callback_queue) /\ IsInjectiveSeq(delayed_tasks)
  /\ \A t \in Threads : IsInjectiveSeq(to_call[t])

ReqInv == WaitTokens /\ LoopWaits /\ BatchOwned /\ ListsClosed /\ Homes /\ Injective

\* ReqInv is what RequestsConserved says, and more.
LEMMA HomesConserve == ReqInv => RequestsConserved
<1>. SUFFICES ASSUME Homes, Injective PROVE RequestsConserved
  BY Zenon DEF ReqInv
<1>. DEFINE C == Elems(callback_queue)
            D == Elems(delayed_tasks)
            B == Batches
<1>1. Home(pending, registered_callbacks, C, shutdown_queue, waits, D, B)
  BY Zenon DEF Homes
<1>2. \A t \in Threads : B[t] = Elems(to_call[t])
  BY Zenon DEF Batches
<1>. HIDE DEF C, D, B
<1>3. pending = registered_callbacks \cup C \cup shutdown_queue \cup waits \cup D
                  \cup UNION {B[t] : t \in Threads}
  BY Zenon, <1>1 DEF Home
<1>4. /\ registered_callbacks \cap (C \cup shutdown_queue \cup waits \cup D) = {}
      /\ C \cap (shutdown_queue \cup waits \cup D) = {}
      /\ shutdown_queue \cap (waits \cup D) = {}
  BY Zenon, <1>1 DEF Home
<1>5. \A t \in Threads :
        /\ B[t] \cap (registered_callbacks \cup C \cup shutdown_queue \cup waits \cup D) = {}
        /\ \A u \in Threads : t # u => B[t] \cap B[u] = {}
  BY Zenon, <1>1 DEF Home
<1>6. {B[t] : t \in Threads} = {Elems(to_call[t]) : t \in Threads}
  BY Zenon, <1>2
<1>. QED BY Zenon, <1>2, <1>3, <1>4, <1>5, <1>6 DEF RequestsConserved, Injective, C, D

\* ReqInv holds initially.
LEMMA ReqInit == Init => ReqInv
<1>. SUFFICES ASSUME Init PROVE ReqInv
  BY Zenon
<1>1. WaitTokens /\ LoopWaits /\ BatchOwned /\ ListsClosed
  BY Zenon DEF Init, WaitTokens, Token, LoopWaits, BatchOwned, ListsClosed, Running
<1>2. Elems(<<>>) = {} /\ IsInjectiveSeq(<<>>)
  BY DEF Elems, IsInjectiveSeq
<1>3. Batches = [t \in Threads |-> {}]
  BY Zenon, <1>2 DEF Init, Batches
<1>4. Homes
  BY Zenon, <1>2, <1>3 DEF Init, Homes, Home
<1>5. Injective
  BY Zenon, <1>2 DEF Init, Injective
<1>. QED BY Zenon, <1>1, <1>4, <1>5 DEF ReqInv

\* Steps that move no request.
Still ==
  /\ UNCHANGED <<queues, waits, loop_waits, pending>>
  /\ Running' <=> Running
  /\ \A a \in Actors, w \in Waits : Token(a, w)' => Token(a, w)
  /\ \A t \in Threads :
       pc'[t] = pc[t] \/ pc'[t] \in {"calling", "callback"} \/ to_call[t] = <<>>

\* A step that moves no request keeps ReqInv.
LEMMA StillSteps ==
  ASSUME ReqInv, Still
  PROVE  ReqInv'
<1>0. UNCHANGED <<registered_callbacks, callback_queue, shutdown_queue, delayed_tasks, to_call,
                  waits, loop_waits, pending>>
  BY Zenon DEF Still, queues
<1>1. WaitTokens'
  BY Zenon, <1>0 DEF Still, ReqInv, WaitTokens
<1>2. LoopWaits'
  BY Zenon, <1>0 DEF ReqInv, LoopWaits
<1>3. BatchOwned'
  BY ZenonT(30), <1>0 DEF Still, ReqInv, BatchOwned
<1>4. ListsClosed'
  BY ZenonT(30), <1>0 DEF Still, ReqInv, ListsClosed
<1>5. Batches' = Batches
  BY Zenon, <1>0 DEF Batches
<1>6. Homes' /\ Injective'
  BY Zenon, <1>0, <1>5 DEF ReqInv, Homes, Injective
<1>. QED BY <1>1, <1>2, <1>3, <1>4, <1>6 DEF ReqInv

\* No new token, and those there are keep their waits.
KeepsTokens ==
  /\ \A a \in Actors, w \in Waits : Token(a, w)' => Token(a, w)
  /\ \A a \in Actors, w \in Waits : Token(a, w)' => w \in waits' /\ w \notin loop_waits'

\* Then WaitTokens is kept.
LEMMA KeptTokens ==
  ASSUME ReqInv, KeepsTokens
  PROVE  WaitTokens'
BY Zenon DEF ReqInv, WaitTokens, KeepsTokens

\* Accepting a request keeps ReqInv: PostTask and RegisterRead.
LEMMA RegisterKeeps ==
  ASSUME TypeInv, ReqInv, NEW a \in Actors, NEW r \in Tasks \cup Reads, r \notin pending,
         RegisterCallbackWithoutQueueing(r),
         UNCHANGED <<state, callback_queue, shutdown_queue, delayed_tasks, to_call, loop, pc>>,
         UNCHANGED control \/ Enter(a, "queue", r)
  PROVE  ReqInv'
<1>1. /\ Running /\ registered_callbacks' = registered_callbacks \cup {r}
      /\ pending' = pending \cup {r}
      /\ UNCHANGED <<state, callback_queue, shutdown_queue, delayed_tasks, to_call, waits,
                     loop_waits, pc>>
  BY Zenon DEF RegisterCallbackWithoutQueueing, loop
<1>2. \A b \in Actors, w \in Waits : Token(b, w)' => Token(b, w)
  <2>1. CASE UNCHANGED control
    BY Zenon, <2>1 DEF control, Token
  <2>2. CASE Enter(a, "queue", r)
    <3>1. r \notin Waits
      BY Zenon, RequestsAssumption
    <3>2. /\ req'[a] = r
          /\ \A b \in Actors \ {a} : req'[b] = req[b] /\ call'[b] = call[b]
      BY Zenon, <2>2 DEF Enter, TypeInv, TypeOK, ControlOK
    <3>. QED BY Zenon, <1>1, <3>1, <3>2 DEF Token
  <2>. QED BY Zenon, <2>1, <2>2
<1>3. WaitTokens'
  BY Zenon, <1>1, <1>2, KeptTokens DEF KeepsTokens, ReqInv, WaitTokens
<1>4. LoopWaits' /\ BatchOwned' /\ ListsClosed'
  BY Zenon, <1>1 DEF ReqInv, LoopWaits, BatchOwned, ListsClosed, Running
<1>5. Batches' = Batches
  BY Zenon, <1>1 DEF Batches
<1>6. Homes'
  BY ZenonT(40), <1>1, <1>5, HomeAccept DEF ReqInv, Homes
<1>7. Injective'
  BY Zenon, <1>1 DEF ReqInv, Injective
<1>. QED BY <1>3, <1>4, <1>6, <1>7 DEF ReqInv

\* PostTask with a later deadline keeps ReqInv.
LEMMA PostDelayedTaskKeeps ==
  ASSUME TypeInv, ReqInv, NEW a \in Actors, NEW r \in Tasks, NEW d \in 1 .. MaxTime,
         PostDelayedTask(a, r, d)
  PROVE  ReqInv'
<1>1. /\ r \notin pending
      /\ Running \/ LateDelayed
      /\ pending' = pending \cup {r} /\ InsertDelayedTaskSorted(r, d)
      /\ UNCHANGED <<state, registered_callbacks, callback_queue, shutdown_queue, to_call,
                     waits, loop_waits, pc, call, req>>
  BY Zenon DEF PostDelayedTask, Free, loop, control
<1>2. PICK i \in 1 .. Len(delayed_tasks) + 1 :
        delayed_tasks' = SubSeq(delayed_tasks, 1, i - 1) \o <<r>>
                          \o SubSeq(delayed_tasks, i, Len(delayed_tasks))
  BY ZenonT(30), <1>1 DEF InsertDelayedTaskSorted
<1>3. delayed_tasks \in Seq(Tasks) /\ IsInjectiveSeq(delayed_tasks)
  BY Zenon DEF TypeInv, TypeOK, QueuesOK, ReqInv, Injective
<1>4. r \notin Elems(delayed_tasks)
  BY Zenon, <1>1 DEF ReqInv, Homes, Home
<1>5. IsInjectiveSeq(delayed_tasks') /\ Elems(delayed_tasks') = Elems(delayed_tasks) \cup {r}
  <2>. DEFINE new == SubSeq(delayed_tasks, 1, i - 1) \o <<r>>
                       \o SubSeq(delayed_tasks, i, Len(delayed_tasks))
  <2>0. i \in 1 .. Len(delayed_tasks) + 1 /\ r \in Tasks
    BY Zenon, <1>2
  <2>1. IsInjectiveSeq(new) /\ Elems(new) = Elems(delayed_tasks) \cup {r}
    BY <2>0, <1>3, <1>4, InsertElems
  <2>. QED BY Zenon, <1>2, <2>1
<1>6. WaitTokens'
  BY Zenon, <1>1, KeptTokens DEF KeepsTokens, ReqInv, WaitTokens, Token
<1>7. LoopWaits' /\ BatchOwned' /\ ListsClosed'
  BY Zenon, <1>1 DEF ReqInv, LoopWaits, BatchOwned, ListsClosed, Running
<1>8. Batches' = Batches
  BY Zenon, <1>1 DEF Batches
<1>9. Homes'
  <2>1. Home(pending \cup {r}, registered_callbacks, Elems(callback_queue), shutdown_queue, waits,
             Elems(delayed_tasks) \cup {r}, Batches)
    BY ZenonT(30), <1>1, HomeAccept DEF ReqInv, Homes
  <2>. QED BY Zenon, <1>1, <1>5, <1>8, <2>1 DEF Homes
<1>10. Injective'
  BY Zenon, <1>1, <1>5 DEF ReqInv, Injective
<1>. QED BY Zenon, <1>6, <1>7, <1>9, <1>10 DEF ReqInv

\* What CancelAsyncOperation does to the lists: r leaves the one it is in.
LEMMA CancelRemoves ==
  ASSUME TypeInv, ReqInv, NEW r, CancelAsyncOperation(r)
  PROVE  \/ UNCHANGED <<callback_queue, shutdown_queue, delayed_tasks, pending>>
         \/ /\ r \in Elems(callback_queue) \cup shutdown_queue \cup Elems(delayed_tasks)
            /\ pending' = pending \ {r}
            /\ Elems(callback_queue') = Elems(callback_queue) \ {r}
            /\ shutdown_queue' = shutdown_queue \ {r}
            /\ Elems(delayed_tasks') = Elems(delayed_tasks) \ {r}
            /\ IsInjectiveSeq(callback_queue') /\ IsInjectiveSeq(delayed_tasks')
            /\ callback_queue = <<>> => callback_queue' = <<>>
            /\ delayed_tasks = <<>> => delayed_tasks' = <<>>
<1>1. /\ callback_queue \in Seq(Requests) /\ delayed_tasks \in Seq(Tasks)
      /\ IsInjectiveSeq(callback_queue) /\ IsInjectiveSeq(delayed_tasks)
  BY Zenon DEF TypeInv, TypeOK, QueuesOK, ReqInv, Injective
<1>2. /\ r \in Elems(callback_queue) => r \notin shutdown_queue /\ r \notin Elems(delayed_tasks)
      /\ r \in shutdown_queue => r \notin Elems(callback_queue) /\ r \notin Elems(delayed_tasks)
  BY Zenon DEF ReqInv, Homes, Home
<1>3. Elems(<<>>) = {}
  BY DEF Elems
<1>4. CASE r \in Elems(callback_queue)
  <2>1. /\ Extract(callback_queue, r, callback_queue')
        /\ pending' = pending \ {r} /\ UNCHANGED <<shutdown_queue, delayed_tasks>>
    BY Zenon, <1>4 DEF CancelAsyncOperation
  <2>2. IsInjectiveSeq(callback_queue') /\ Elems(callback_queue') = Elems(callback_queue) \ {r}
    BY Zenon, <1>1, <2>1, ExtractElems
  <2>. QED BY <1>1, <1>2, <1>3, <1>4, <2>1, <2>2
<1>5. CASE r \notin Elems(callback_queue) /\ r \in shutdown_queue
  <2>1. /\ shutdown_queue' = shutdown_queue \ {r}
        /\ pending' = pending \ {r} /\ UNCHANGED <<callback_queue, delayed_tasks>>
    BY Zenon, <1>5 DEF CancelAsyncOperation
  <2>. QED BY Zenon, <1>1, <1>2, <1>5, <2>1
<1>6. CASE r \notin Elems(callback_queue) \cup shutdown_queue /\ r \in Elems(delayed_tasks)
  <2>1. /\ Extract(delayed_tasks, r, delayed_tasks')
        /\ pending' = pending \ {r} /\ UNCHANGED <<shutdown_queue, callback_queue>>
    BY Zenon, <1>6 DEF CancelAsyncOperation
  <2>2. IsInjectiveSeq(delayed_tasks') /\ Elems(delayed_tasks') = Elems(delayed_tasks) \ {r}
    BY Zenon, <1>1, <2>1, ExtractElems
  <2>. QED BY Zenon, <1>1, <1>2, <1>3, <1>6, <2>1, <2>2
<1>7. CASE r \notin Elems(callback_queue) \cup shutdown_queue \cup Elems(delayed_tasks)
  BY Zenon, <1>7 DEF CancelAsyncOperation
<1>. QED BY Zenon, <1>4, <1>5, <1>6, <1>7

\* A cancellation by CancelAsyncOperation keeps ReqInv.
LEMMA CancelKeeps ==
  ASSUME TypeInv, ReqInv, NEW r, CancelAsyncOperation(r),
         UNCHANGED <<state, registered_callbacks, to_call, loop, pc>>,
         \A b \in Actors, w \in Waits : Token(b, w)' => Token(b, w)
  PROVE  ReqInv'
<1>0. UNCHANGED <<waits, loop_waits, registered_callbacks, to_call, pc>> /\ (Running' <=> Running)
  BY Zenon DEF loop, Running
<1>1. CASE UNCHANGED <<callback_queue, shutdown_queue, delayed_tasks, pending>>
  BY Zenon, <1>0, <1>1, StillSteps DEF Still, queues
<1>2. CASE /\ r \in Elems(callback_queue) \cup shutdown_queue \cup Elems(delayed_tasks)
           /\ pending' = pending \ {r}
           /\ Elems(callback_queue') = Elems(callback_queue) \ {r}
           /\ shutdown_queue' = shutdown_queue \ {r}
           /\ Elems(delayed_tasks') = Elems(delayed_tasks) \ {r}
           /\ IsInjectiveSeq(callback_queue') /\ IsInjectiveSeq(delayed_tasks')
           /\ callback_queue = <<>> => callback_queue' = <<>>
           /\ delayed_tasks = <<>> => delayed_tasks' = <<>>
  <2>1. WaitTokens'
    BY Zenon, <1>0, KeptTokens DEF KeepsTokens, ReqInv, WaitTokens
  <2>2. LoopWaits' /\ BatchOwned'
    BY Zenon, <1>0 DEF ReqInv, LoopWaits, BatchOwned
  <2>3. ListsClosed'
    BY ZenonT(30), <1>0, <1>2 DEF ReqInv, ListsClosed
  <2>4. r \notin registered_callbacks /\ r \notin waits /\ \A t \in Threads : r \notin Batches[t]
    BY Zenon, <1>2 DEF ReqInv, Homes, Home
  <2>5. Batches' = Batches /\ \A t \in Threads : Batches[t] = Batches[t] \ {r}
    BY Zenon, <1>0, <2>4 DEF Batches
  <2>6. registered_callbacks = registered_callbacks \ {r} /\ waits = waits \ {r}
    BY Zenon, <2>4
  <2>7. Home(pending \ {r}, registered_callbacks \ {r}, Elems(callback_queue) \ {r},
             shutdown_queue \ {r}, waits \ {r}, Elems(delayed_tasks) \ {r}, Batches)
    BY ZenonT(30), <2>5, HomeFinish DEF ReqInv, Homes
  <2>8. Homes'
    BY ZenonT(40), <1>0, <1>2, <2>5, <2>6, <2>7 DEF Homes
  <2>9. Injective'
    BY Zenon, <1>0, <1>2 DEF ReqInv, Injective
  <2>. QED BY <2>1, <2>2, <2>3, <2>8, <2>9 DEF ReqInv
<1>. QED BY ZenonT(30), <1>1, <1>2, CancelRemoves

\* BeginWait keeps ReqInv.
LEMMA BeginWaitKeeps ==
  ASSUME TypeInv, ReqInv, NEW a \in Actors, NEW w \in Waits, BeginWait(a, w)
  PROVE  ReqInv'
<1>1. /\ w \notin pending /\ (\A b \in Actors : req[b] # w)
      /\ UNCHANGED <<state, registered_callbacks, callback_queue, shutdown_queue, delayed_tasks,
                     to_call, pc, call, req>>
  BY Zenon DEF BeginWait, Free, queues, control
<1>2. CASE UNCHANGED <<loop, pending>>
  BY Zenon, <1>1, <1>2, StillSteps DEF Still, queues, loop, Token, Running
<1>3. CASE /\ waits' = waits \cup {w} /\ loop_waits' = loop_waits \cup {w}
           /\ pending' = pending \cup {w}
  <2>1. WaitTokens'
    BY Zenon, <1>1, <1>3, KeptTokens DEF KeepsTokens, ReqInv, WaitTokens, Token
  <2>2. LoopWaits' /\ BatchOwned' /\ ListsClosed'
    BY Zenon, <1>1, <1>3 DEF ReqInv, LoopWaits, BatchOwned, ListsClosed, Running
  <2>3. Batches' = Batches
    BY Zenon, <1>1 DEF Batches
  <2>4. Home(pending \cup {w}, registered_callbacks, Elems(callback_queue), shutdown_queue,
             waits \cup {w}, Elems(delayed_tasks), Batches)
    BY ZenonT(30), <1>1, HomeAccept DEF ReqInv, Homes
  <2>5. Homes'
    BY Zenon, <1>1, <1>3, <2>3, <2>4 DEF Homes
  <2>6. Injective'
    BY Zenon, <1>1 DEF ReqInv, Injective
  <2>. QED BY Zenon, <2>1, <2>2, <2>5, <2>6 DEF ReqInv
<1>. QED BY Zenon, <1>2, <1>3 DEF BeginWait

\* An actor that may call the API is not handling a wait's signal.
LEMMA CallersHandleNothing ==
  ASSUME OwnPcs, NEW a \in Actors, CanCall(a)
  PROVE  call[a] = "none" /\ pc[a] \notin {"signal", "queue_wait"}
BY Zenon, ActorsAssumption DEF OwnPcs, CanCall, InCallback, ClientPcs

\* AsyncWait::Cancel keeps ReqInv.
LEMMA CancelWaitKeeps ==
  ASSUME TypeInv, ReqInv, OwnPcs, NEW a \in Actors, NEW w \in Waits, CancelWait(a, w)
  PROVE  ReqInv'
<1>1. /\ UNCHANGED <<state, queues, waits, pc, pending>> /\ CanCall(a)
      /\ \/ /\ w \in loop_waits /\ loop_waits' = loop_waits \ {w}
            /\ Enter(a, "remove_wait", w)
         \/ UNCHANGED loop_waits /\ Enter(a, "cancel_op", w)
  BY Zenon DEF CancelWait, WaitCancels
<1>2. /\ req'[a] = w
      /\ \A b \in Actors \ {a} : req'[b] = req[b] /\ call'[b] = call[b]
  BY Zenon, <1>1 DEF Enter, TypeInv, TypeOK, ControlOK
<1>3. call[a] = "none" /\ pc[a] \notin {"signal", "queue_wait"}
  BY Zenon, <1>1, CallersHandleNothing
<1>4. CASE UNCHANGED loop_waits /\ Enter(a, "cancel_op", w)
  <2>1. call'[a] = "cancel_op"
    BY Zenon, <1>4 DEF Enter, TypeInv, TypeOK, ControlOK
  <2>2. \A b \in Actors, v \in Waits : Token(b, v)' => Token(b, v)
    BY Zenon, <1>1, <1>2, <1>3, <2>1 DEF Token
  <2>. QED BY Zenon, <1>1, <1>4, <2>2, StillSteps DEF Still, Running
<1>5. CASE w \in loop_waits /\ loop_waits' = loop_waits \ {w} /\ Enter(a, "remove_wait", w)
  <2>1. \A b \in Actors : ~Token(b, w)
    BY Zenon, <1>5 DEF ReqInv, WaitTokens
  <2>2. \A b \in Actors, v \in Waits : Token(b, v)' => Token(b, v) \/ (b = a /\ v = w)
    BY Zenon, <1>1, <1>2 DEF Token
  <2>3. w \in waits
    BY Zenon, <1>5 DEF ReqInv, LoopWaits
  <2>4. WaitTokens'
    BY <1>1, <1>5, <2>1, <2>2, <2>3 DEF ReqInv, WaitTokens
  <2>5. UNCHANGED <<registered_callbacks, callback_queue, shutdown_queue, delayed_tasks, to_call>>
    BY Zenon, <1>1 DEF queues
  <2>6. LoopWaits' /\ BatchOwned' /\ ListsClosed'
    BY Zenon, <1>1, <1>5, <2>5 DEF ReqInv, LoopWaits, BatchOwned, ListsClosed, Running
  <2>7. Batches' = Batches
    BY Zenon, <2>5 DEF Batches
  <2>8. Homes' /\ Injective'
    BY Zenon, <1>1, <2>5, <2>7 DEF ReqInv, Homes, Injective
  <2>. QED BY Zenon, <2>4, <2>6, <2>8 DEF ReqInv
<1>. QED BY Zenon, <1>1, <1>4, <1>5

\* CancelCallback keeps ReqInv.
LEMMA CancelCallbackKeeps ==
  ASSUME TypeInv, ReqInv, NEW a \in Actors, NEW r \in Reads, CancelCallback(a, r)
  PROVE  ReqInv'
<1>1. /\ registered_callbacks' = registered_callbacks \ {r}
      /\ shutdown_queue' = shutdown_queue \ {r}
      /\ pending' = pending \ {r}
      /\ UNCHANGED <<state, delayed_tasks, waits, loop_waits, pc, call, req>>
  BY Zenon DEF CancelCallback, loop, control
<1>2. /\ callback_queue \in Seq(Requests) /\ to_call \in [Threads -> Seq(Requests)]
      /\ delayed_tasks \in Seq(Tasks) /\ waits \subseteq Waits
      /\ IsInjectiveSeq(callback_queue) /\ \A t \in Threads : IsInjectiveSeq(to_call[t])
  BY Zenon DEF TypeInv, TypeOK, QueuesOK, LoopOK, ReqInv, Injective
<1>3. Elems(<<>>) = {}
  BY DEF Elems
<1>4. /\ Elems(callback_queue') = Elems(callback_queue) \ {r} /\ IsInjectiveSeq(callback_queue')
      /\ callback_queue = <<>> => callback_queue' = <<>>
  <2>1. CASE r \in Elems(callback_queue)
    <3>1. Extract(callback_queue, r, callback_queue')
      BY Zenon, <2>1 DEF CancelCallback
    <3>2. IsInjectiveSeq(callback_queue') /\ Elems(callback_queue') = Elems(callback_queue) \ {r}
      BY Zenon, <1>2, <3>1, ExtractElems
    <3>. QED BY Zenon, <1>3, <2>1, <3>2
  <2>2. CASE r \notin Elems(callback_queue)
    BY Zenon, <1>2, <2>2 DEF CancelCallback
  <2>. QED BY Zenon, <2>1, <2>2
<1>5. /\ \A t \in Threads : Elems(to_call'[t]) = Elems(to_call[t]) \ {r}
      /\ \A t \in Threads : IsInjectiveSeq(to_call'[t])
      /\ \A t \in Threads : to_call[t] = <<>> => to_call'[t] = <<>>
  <2>1. CASE InToCall(r)
    <3>1. PICK t \in Threads : \E i \in DOMAIN to_call[t] :
            /\ to_call[t][i] = r
            /\ to_call' = [to_call EXCEPT ![t] = RemoveIndex(to_call[t], i)]
      BY ZenonT(30), <2>1 DEF CancelCallback
    <3>. PICK i \in DOMAIN to_call[t] :
            /\ to_call[t][i] = r
            /\ to_call' = [to_call EXCEPT ![t] = RemoveIndex(to_call[t], i)]
      BY Zenon, <3>1
    <3>2. r \in Elems(to_call[t])
      BY Zenon, <3>1 DEF Elems
    <3>3. \A u \in Threads \ {t} : r \notin Elems(to_call[u])
      BY Zenon, <3>2 DEF ReqInv, Homes, Home, Batches
    <3>4. /\ to_call'[t] = RemoveIndex(to_call[t], i)
          /\ \A u \in Threads \ {t} : to_call'[u] = to_call[u]
      BY Zenon, <1>2, <3>1
    <3>5. to_call[t] \in Seq(Requests) /\ IsInjectiveSeq(to_call[t]) /\ i \in DOMAIN to_call[t]
      BY Zenon, <1>2, <3>1
    <3>6. /\ Elems(RemoveIndex(to_call[t], i)) = Elems(to_call[t]) \ {to_call[t][i]}
          /\ IsInjectiveSeq(RemoveIndex(to_call[t], i))
      BY Zenon, <3>5, RemoveElems
    <3>7. to_call[t] # <<>>
      BY Zenon, <1>3, <3>2
    <3>. QED BY <1>2, <3>1, <3>3, <3>4, <3>6, <3>7
  <2>2. CASE ~InToCall(r)
    <3>1. UNCHANGED to_call
      BY Zenon, <2>2 DEF CancelCallback
    <3>. QED BY Zenon, <1>2, <2>2, <3>1 DEF InToCall
  <2>. QED BY Zenon, <2>1, <2>2
<1>6. WaitTokens'
  BY Zenon, <1>1, KeptTokens DEF KeepsTokens, ReqInv, WaitTokens, Token
<1>7. LoopWaits' /\ BatchOwned' /\ ListsClosed'
  BY ZenonT(30), <1>1, <1>4, <1>5 DEF ReqInv, LoopWaits, BatchOwned, ListsClosed, Running
<1>8. r \notin waits /\ r \notin Elems(delayed_tasks)
  BY Zenon, <1>2, ElemsType, RequestsAssumption
<1>9. \A t \in Threads : Batches'[t] = Batches[t] \ {r}
  BY Zenon, <1>5 DEF Batches
<1>10. Home(pending \ {r}, registered_callbacks \ {r}, Elems(callback_queue) \ {r},
            shutdown_queue \ {r}, waits \ {r}, Elems(delayed_tasks) \ {r}, Batches')
  BY ZenonT(30), <1>9, HomeFinish DEF ReqInv, Homes
<1>11. Homes'
  BY Zenon, <1>1, <1>4, <1>8, <1>10 DEF Homes
<1>12. Injective'
  BY Zenon, <1>1, <1>4, <1>5 DEF ReqInv, Injective
<1>. QED BY Zenon, <1>6, <1>7, <1>11, <1>12 DEF ReqInv

\* ShutdownAsync keeps ReqInv.
LEMMA ShutdownAsyncKeeps ==
  ASSUME TypeInv, ReqInv, NEW a \in Actors, ShutdownAsync(a)
  PROVE  ReqInv'
<1>. DEFINE K == {w \in waits : WaitCancels(w)}
<1>1. /\ state = "kRunning" /\ state' = "kShuttingDown"
      /\ shutdown_queue' = Elems(callback_queue) \cup registered_callbacks \cup K
                            \cup Elems(delayed_tasks)
      /\ callback_queue' = <<>> /\ registered_callbacks' = {} /\ delayed_tasks' = <<>>
      /\ waits' = waits \ K /\ loop_waits' = loop_waits \ K
      /\ Enter(a, "register_shutdown", None)
      /\ UNCHANGED <<to_call, pc, pending>>
  BY Zenon DEF ShutdownAsync, Running
<1>2. K \subseteq waits /\ K \subseteq loop_waits
  BY Zenon DEF WaitCancels
<1>. HIDE DEF K
<1>3. \A b \in Actors, w \in Waits : Token(b, w)' => Token(b, w)
  <2>1. /\ req'[a] = None
        /\ \A b \in Actors \ {a} : req'[b] = req[b] /\ call'[b] = call[b]
    BY Zenon, <1>1 DEF Enter, TypeInv, TypeOK, ControlOK
  <2>. QED BY Zenon, <1>1, <2>1, RequestsAssumption DEF Token
<1>4. WaitTokens'
  BY Zenon, <1>1, <1>2, <1>3, KeptTokens DEF KeepsTokens, ReqInv, WaitTokens
<1>5. LoopWaits' /\ BatchOwned' /\ ListsClosed'
  BY Zenon, <1>1 DEF ReqInv, LoopWaits, BatchOwned, ListsClosed, Running
<1>6. Elems(<<>>) = {} /\ IsInjectiveSeq(<<>>)
  BY DEF Elems, IsInjectiveSeq
<1>7. Batches' = Batches /\ shutdown_queue = {}
  BY Zenon, <1>1 DEF Batches, ReqInv, ListsClosed, Running
<1>8. Home(pending, registered_callbacks, Elems(callback_queue), {}, waits, Elems(delayed_tasks),
           Batches)
  BY Zenon, <1>7 DEF ReqInv, Homes
<1>9. Home(pending, {}, {}, Elems(callback_queue) \cup registered_callbacks \cup K
             \cup Elems(delayed_tasks), waits \ K, {}, Batches)
  BY ZenonT(30), <1>2, <1>8, HomeShutdown
<1>10. Homes'
  BY ZenonT(40), <1>1, <1>6, <1>7, <1>9 DEF Homes
<1>11. Injective'
  BY Zenon, <1>1, <1>6 DEF ReqInv, Injective
<1>. QED BY Zenon, <1>4, <1>5, <1>10, <1>11 DEF ReqInv

\* Starting an API call keeps ReqInv.
LEMMA ApiCallKeeps ==
  ASSUME TypeInv, ReqInv, OwnPcs, NEW a \in Actors, ApiCall(a)
  PROVE  ReqInv'
<1>1. ASSUME NEW r \in Tasks, PostTask(a, r) PROVE ReqInv'
  BY Zenon, <1>1, RegisterKeeps DEF PostTask, Free
<1>2. ASSUME NEW r \in Tasks, CancelTask(a, r) PROVE ReqInv'
  <2>1. /\ CancelAsyncOperation(r)
        /\ UNCHANGED <<state, registered_callbacks, to_call, loop, pc, call, req>>
    BY Zenon, <1>2 DEF CancelTask, control
  <2>2. \A b \in Actors, w \in Waits : Token(b, w)' => Token(b, w)
    BY Zenon, <2>1 DEF Token
  <2>. QED BY Zenon, <2>1, <2>2, CancelKeeps
<1>3. ASSUME NEW r \in Reads, RegisterRead(a, r) PROVE ReqInv'
  BY Zenon, <1>3, RegisterKeeps DEF RegisterRead, control
<1>4. ASSUME NEW r \in Reads, QueueRead(a, r) PROVE Still
  <2>1. /\ Enter(a, "queue", r)
        /\ UNCHANGED <<state, queues, loop, pc, pending>>
    BY Zenon, <1>4 DEF QueueRead
  <2>2. /\ req'[a] = r /\ r \notin Waits
        /\ \A b \in Actors \ {a} : req'[b] = req[b] /\ call'[b] = call[b]
    BY Zenon, <2>1, RequestsAssumption DEF Enter, TypeInv, TypeOK, ControlOK
  <2>3. \A b \in Actors, w \in Waits : Token(b, w)' => Token(b, w)
    BY Zenon, <2>1, <2>2 DEF Token
  <2>. QED BY Zenon, <2>1, <2>3 DEF Still, loop, Running
<1>5. CASE WaitUntilIdle(a)
  <2>1. /\ Enter(a, "wait_idle", None)
        /\ UNCHANGED <<state, queues, loop, pc, pending>>
    BY Zenon, <1>5 DEF WaitUntilIdle
  <2>2. /\ req'[a] = None
        /\ \A b \in Actors \ {a} : req'[b] = req[b] /\ call'[b] = call[b]
    BY Zenon, <2>1 DEF Enter, TypeInv, TypeOK, ControlOK
  <2>3. \A b \in Actors, w \in Waits : Token(b, w)' => Token(b, w)
    BY Zenon, <2>1, <2>2, RequestsAssumption DEF Token
  <2>. QED BY Zenon, <2>1, <2>3, StillSteps DEF Still, loop, Running
<1>6. CASE Destroy(a)
  BY Zenon, <1>6, StillSteps DEF Destroy, Still, loop, control, Running, Token
<1>. QED BY <1>1, <1>2, <1>3, <1>4, <1>5, <1>6, StillSteps, PostDelayedTaskKeeps, BeginWaitKeeps,
           CancelWaitKeeps, CancelCallbackKeeps, ShutdownAsyncKeeps DEF ApiCall


\* QueueRegisteredCallback keeps ReqInv.
LEMMA QueueKeeps ==
  ASSUME TypeInv, ReqInv, OwnPcs, NEW a \in Actors, QueueRegisteredCallback(a)
  PROVE  ReqInv'
<1>. DEFINE r == req[a]
            direct == Running /\ InContainer(r) /\ r \in registered_callbacks /\ DirectCall(a, r)
<1>1. /\ call[a] = "queue"
      /\ UNCHANGED <<state, shutdown_queue, delayed_tasks, to_call, waits, loop_waits>>
      /\ req' = [req EXCEPT ![a] = None]
      /\ \A b \in Actors \ {a} : call'[b] = call[b] /\ pc'[b] = pc[b]
      /\ pc'[a] \in {pc[a], "direct"}
  <2>1. CASE direct
    BY Zenon, <2>1 DEF QueueRegisteredCallback, Goto, Return, Enter, loop, TypeInv, TypeOK, ControlOK
  <2>2. CASE ~direct
    BY Zenon, <2>2 DEF QueueRegisteredCallback, Enter, loop, TypeInv, TypeOK, ControlOK
  <2>. QED BY ZenonT(40), <2>1, <2>2
<1>2. /\ req'[a] = None /\ None \notin Waits
      /\ \A b \in Actors \ {a} : req'[b] = req[b]
  BY ZenonT(40), <1>1, RequestsAssumption DEF TypeInv, TypeOK, ControlOK
<1>3. \A b \in Actors, w \in Waits : Token(b, w)' => Token(b, w)
  BY ZenonT(40), <1>1, <1>2 DEF Token
<1>4. WaitTokens' /\ LoopWaits'
  BY ZenonT(40), <1>1, <1>3, KeptTokens DEF KeepsTokens, ReqInv, WaitTokens, LoopWaits
<1>5. Batches' = Batches
  BY Zenon, <1>1 DEF Batches
<1>6. /\ callback_queue \in Seq(Requests) /\ IsInjectiveSeq(callback_queue)
      /\ registered_callbacks \subseteq Requests
  BY Zenon DEF TypeInv, TypeOK, QueuesOK, ReqInv, Injective
<1>7. CASE direct
  <2>1. /\ Running /\ r \in registered_callbacks /\ a \in Runtime
        /\ registered_callbacks' = registered_callbacks \ {r}
        /\ pending' = pending \ {r} /\ UNCHANGED callback_queue
    BY ZenonT(40), <1>7 DEF QueueRegisteredCallback, DirectCall
  <2>2. BatchOwned' /\ ListsClosed'
    <3>1. \A t \in Threads : pc'[t] = pc[t]
      BY ZenonT(40), <1>1, <2>1, ActorsAssumption DEF Actors
    <3>. QED BY ZenonT(40), <1>1, <2>1, <3>1 DEF ReqInv, BatchOwned, ListsClosed, Running
  <2>3. /\ r \notin Elems(callback_queue) /\ r \notin shutdown_queue /\ r \notin waits
        /\ r \notin Elems(delayed_tasks) /\ \A t \in Threads : r \notin Batches[t]
    BY Zenon, <2>1 DEF ReqInv, Homes, Home
  <2>4. Home(pending \ {r}, registered_callbacks \ {r}, Elems(callback_queue) \ {r},
             shutdown_queue \ {r}, waits \ {r}, Elems(delayed_tasks) \ {r}, Batches)
    <3>1. \A t \in Threads : Batches[t] = Batches[t] \ {r}
      BY Zenon, <2>3
    <3>. QED BY ZenonT(30), <3>1, HomeFinish DEF ReqInv, Homes
  <2>5. /\ Elems(callback_queue) \ {r} = Elems(callback_queue) /\ waits \ {r} = waits
        /\ shutdown_queue \ {r} = shutdown_queue /\ Elems(delayed_tasks) \ {r} = Elems(delayed_tasks)
    BY Zenon, <2>3
  <2>6. Homes' /\ Injective'
    BY Zenon, <1>1, <1>5, <2>1, <2>4, <2>5 DEF ReqInv, Homes, Injective
  <2>. QED BY Zenon, <1>4, <2>2, <2>6 DEF ReqInv
<1>8. CASE ~direct /\ Running /\ r \in registered_callbacks
  <2>1. /\ registered_callbacks' = registered_callbacks \ {r}
        /\ callback_queue' = Append(callback_queue, r)
        /\ UNCHANGED <<pending, pc>>
    BY ZenonT(40), <1>8 DEF QueueRegisteredCallback
  <2>2. r \notin Elems(callback_queue)
    BY Zenon, <1>8 DEF ReqInv, Homes, Home
  <2>3. /\ Elems(callback_queue') = Elems(callback_queue) \cup {r}
        /\ IsInjectiveSeq(callback_queue')
    BY <1>6, <1>8, <2>1, <2>2, AppendElems
  <2>4. BatchOwned' /\ ListsClosed'
    BY Zenon, <1>1, <1>8, <2>1 DEF ReqInv, BatchOwned, ListsClosed, Running
  <2>5. Home(pending, registered_callbacks \ {r}, Elems(callback_queue) \cup {r}, shutdown_queue,
             waits, Elems(delayed_tasks), Batches)
    BY ZenonT(30), <1>8, HomeQueue DEF ReqInv, Homes
  <2>6. Homes' /\ Injective'
    BY ZenonT(40), <1>1, <1>5, <2>1, <2>3, <2>5 DEF ReqInv, Homes, Injective
  <2>. QED BY <1>4, <2>4, <2>6 DEF ReqInv
<1>9. CASE ~direct /\ ~(Running /\ r \in registered_callbacks)
  <2>1. UNCHANGED <<registered_callbacks, callback_queue, pending, pc>>
    BY Zenon, <1>9 DEF QueueRegisteredCallback
  <2>. QED BY ZenonT(40), <1>1, <1>3, <2>1, StillSteps DEF Still, queues, Running
<1>. QED BY Zenon, <1>7, <1>8, <1>9

\* RemoveWait is called for a wait.
RemovesWaits == \A a \in Actors : call[a] = "remove_wait" => req[a] \in Waits

\* Only CancelWait makes an actor call RemoveWait.
LEMMA RemovesWaitsNext ==
  ASSUME TypeInv, RemovesWaits, [Next]_vars
  PROVE  RemovesWaits'
<1>. USE DEF TypeInv, TypeOK, ControlOK, RemovesWaits
<1>1. CASE UNCHANGED <<call, req>>
  BY Zenon, <1>1
<1>2. ASSUME NEW a \in Actors, NEW c, NEW x, Enter(a, c, x), c = "remove_wait" => x \in Waits
      PROVE  RemovesWaits'
  BY Zenon, <1>2 DEF Enter
<1>3. ASSUME NEW a \in Actors, ApiCall(a) PROVE RemovesWaits'
  <2>1. ASSUME NEW r \in Tasks, PostTask(a, r) PROVE Enter(a, "queue", r)
    BY Zenon, <2>1 DEF PostTask
  <2>2. ASSUME NEW r \in Tasks, CancelTask(a, r) PROVE UNCHANGED <<call, req>>
    BY Zenon, <2>2 DEF CancelTask, control
  <2>3. ASSUME NEW r \in Tasks, NEW d \in 1 .. MaxTime, PostDelayedTask(a, r, d)
        PROVE  UNCHANGED <<call, req>>
    BY Zenon, <2>3 DEF PostDelayedTask, control
  <2>4. ASSUME NEW r \in Reads, QueueRead(a, r) PROVE Enter(a, "queue", r)
    BY Zenon, <2>4 DEF QueueRead
  <2>5. ASSUME NEW r \in Reads, RegisterRead(a, r) \/ CancelCallback(a, r)
        PROVE  UNCHANGED <<call, req>>
    BY ZenonT(30), <2>5 DEF RegisterRead, CancelCallback, control
  <2>6. ASSUME NEW w \in Waits, BeginWait(a, w) PROVE UNCHANGED <<call, req>>
    BY Zenon, <2>6 DEF BeginWait, control
  <2>7. ASSUME NEW w \in Waits, CancelWait(a, w)
        PROVE  Enter(a, "remove_wait", w) \/ Enter(a, "cancel_op", w)
    BY ZenonT(30), <2>7 DEF CancelWait
  <2>8. ASSUME ShutdownAsync(a) PROVE Enter(a, "register_shutdown", None)
    BY Zenon, <2>8 DEF ShutdownAsync
  <2>9. ASSUME WaitUntilIdle(a) PROVE Enter(a, "wait_idle", None)
    BY Zenon, <2>9 DEF WaitUntilIdle
  <2>10. ASSUME Destroy(a) PROVE UNCHANGED <<call, req>>
    BY Zenon, <2>10 DEF Destroy, control
  <2>. QED
    BY <1>1, <1>2, <1>3, <2>1, <2>2, <2>3, <2>4, <2>5, <2>6, <2>7, <2>8, <2>9, <2>10 DEF ApiCall
<1>4. ASSUME NEW a \in Actors, CallStep(a) PROVE RemovesWaits'
  <2>1. ASSUME QueueRegisteredCallback(a)
        PROVE  Enter(a, "none", None) \/ Enter(a, "queue_defer", None)
    BY ZenonT(30), <2>1 DEF QueueRegisteredCallback, Return
  <2>2. ASSUME \/ QueueDefer(a) \/ RemoveWait(a) \/ CancelWaitOperation(a)
               \/ RegisterForCompleteShutdownEvent(a) \/ WaitUntilIdleReturn(a)
        PROVE  Enter(a, "none", None)
    BY ZenonT(30), <2>2 DEF QueueDefer, RemoveWait, CancelWaitOperation,
       RegisterForCompleteShutdownEvent, WaitUntilIdleReturn, Return
  <2>. QED BY Zenon, <1>2, <1>4, <2>1, <2>2 DEF CallStep
<1>5. ASSUME NEW a \in Actors, CallbackEnds(a) PROVE RemovesWaits'
  BY <1>1, <1>2, <1>5 DEF CallbackEnds, DirectCallEnd, CallbackReturns, CancelReturns
<1>6. ASSUME NEW t \in Threads, LoopStep(t) PROVE RemovesWaits'
  <2>1. ASSUME NEW w \in Waits, WaitSignaled(t, w) PROVE RemovesWaits'
    BY Zenon, <2>1 DEF WaitSignaled, Quiet, Actors
  <2>. QED BY <1>1, <1>6, <2>1 DEF LoopStep, HandleEvent, TimerFires, ShutdownEventSignaled
<1>7. ASSUME NEW t \in Threads, HandlerStep(t) PROVE RemovesWaits'
  <2>1. CASE QueueWait(t)
    <3>1. Enter(t, "queue", req[t]) \/ Enter(t, "none", None)
      BY ZenonT(30), <2>1 DEF QueueWait, Return
    <3>. QED BY Zenon, <1>2, <3>1 DEF Actors
  <2>2. ASSUME DispatchCallbacks(t) \/ DispatchCallback(t) \/ DispatchEnd(t) \/ DispatchDefer(t)
        PROVE  UNCHANGED <<call, req>>
    BY ZenonT(30), <2>2 DEF DispatchCallbacks, DispatchCallback, DispatchEnd, DispatchDefer
  <2>3. ASSUME TimerHandler(t) \/ CheckDelayedTasks(t) \/ OnSignal(t) \/ CompleteShutdown(t)
        PROVE  UNCHANGED <<call, req>>
    BY ZenonT(30), <2>3 DEF TimerHandler, CheckDelayedTasks, OnSignal, CompleteShutdown
  <2>4. ASSUME NEW r \in Requests, CancelNext(t, r) PROVE UNCHANGED <<call, req>>
    BY Zenon, <2>4 DEF CancelNext
  <2>5. ASSUME ShutdownQueueEmpty(t) \/ EnterShutdown(t) \/ ObserverReturns(t)
        PROVE  UNCHANGED <<call, req>>
    BY Zenon, <2>5 DEF ShutdownQueueEmpty, EnterShutdown, ObserverReturns
  <2>. QED BY <1>1, <1>7, <2>1, <2>2, <2>3, <2>4, <2>5, ZenonT(30) DEF HandlerStep
<1>8. ASSUME Tick PROVE UNCHANGED <<call, req>>
  BY Zenon, <1>8 DEF Tick, control
<1>9. ASSUME UNCHANGED vars PROVE UNCHANGED <<call, req>>
  BY Zenon, <1>9 DEF vars, control
<1>. HIDE DEF RemovesWaits
<1>. QED BY <1>1, <1>3, <1>4, <1>5, <1>6, <1>7, <1>8, <1>9, ZenonT(30) DEF Next

\* A step that gives up actor a's request, or keeps it, and moves no request.
LEMMA ReturnIsStill ==
  ASSUME TypeInv, NEW a \in Actors, UNCHANGED <<queues, waits, loop_waits, pending>>,
         Running' <=> Running,
         UNCHANGED <<call, req>> \/ \E c : Enter(a, c, None),
         \A b \in Actors \ {a} : pc'[b] = pc[b],
         pc'[a] = pc[a] \/ (pc'[a] \notin {"signal", "queue_wait"}
                            /\ (pc'[a] \in {"calling", "callback"} \/ a \notin Threads \/ to_call[a] = <<>>))
  PROVE  Still
<1>1. \A b \in Actors, w \in Waits : Token(b, w)' => Token(b, w)
  <2>1. CASE UNCHANGED <<call, req>>
    BY ZenonT(40), <2>1 DEF Token
  <2>2. CASE \E c : Enter(a, c, None)
    <3>1. /\ req'[a] = None
          /\ \A b \in Actors \ {a} : req'[b] = req[b] /\ call'[b] = call[b]
      BY Zenon, <2>2 DEF Enter, TypeInv, TypeOK, ControlOK
    <3>. QED BY Zenon, <3>1, RequestsAssumption DEF Token
  <2>. QED BY ZenonT(40), <2>1, <2>2
<1>2. \A t \in Threads :
        pc'[t] = pc[t] \/ pc'[t] \in {"calling", "callback"} \/ to_call[t] = <<>>
  BY Zenon DEF Actors
<1>. QED BY ZenonT(40), <1>1, <1>2 DEF Still

\* The later steps of an API call keep ReqInv.
LEMMA CallStepKeeps ==
  ASSUME TypeInv, ReqInv, OwnPcs, RemovesWaits, NEW a \in Actors, CallStep(a)
  PROVE  ReqInv'
<1>1. CASE QueueDefer(a)
  <2>1. /\ UNCHANGED <<state, queues, waits, loop_waits, pending>> /\ Enter(a, "none", None)
        /\ \A b \in Actors \ {a} : pc'[b] = pc[b]
        /\ pc'[a] = IF pc[a] = "wait_queued" THEN "idle" ELSE pc[a]
    BY Zenon, <1>1 DEF QueueDefer, Return, Goto, loop, TypeInv, TypeOK, ControlOK
  <2>2. pc'[a] = pc[a] \/ (pc'[a] = "idle" /\ pc[a] = "wait_queued")
    BY Zenon, <2>1
  <2>3. pc[a] = "wait_queued" => a \notin Threads \/ to_call[a] = <<>>
    BY Zenon DEF ReqInv, BatchOwned
  <2>4. Still
    BY ZenonT(40), <2>1, <2>2, <2>3, ReturnIsStill DEF Running
  <2>. QED BY Zenon, <2>4, StillSteps
<1>2. CASE RegisterForCompleteShutdownEvent(a) \/ WaitUntilIdleReturn(a)
  <2>1. /\ UNCHANGED <<state, queues, waits, loop_waits, pending, pc>> /\ Enter(a, "none", None)
    BY Zenon, <1>2 DEF RegisterForCompleteShutdownEvent, WaitUntilIdleReturn, Return, loop
  <2>2. Still
    BY Zenon, <2>1, ReturnIsStill DEF Running
  <2>. QED BY <2>2, StillSteps
<1>3. CASE CancelWaitOperation(a)
  <2>1. /\ CancelAsyncOperation(req[a])
        /\ UNCHANGED <<state, registered_callbacks, to_call, loop, pc>>
        /\ Enter(a, "none", None)
    BY Zenon, <1>3 DEF CancelWaitOperation, Return
  <2>2. /\ req'[a] = None
        /\ \A b \in Actors \ {a} : req'[b] = req[b] /\ call'[b] = call[b]
    BY Zenon, <2>1 DEF Enter, TypeInv, TypeOK, ControlOK
  <2>3. \A b \in Actors, w \in Waits : Token(b, w)' => Token(b, w)
    BY Zenon, <2>1, <2>2, RequestsAssumption DEF Token
  <2>. QED BY Zenon, <2>1, <2>3, CancelKeeps
<1>4. CASE RemoveWait(a)
  <2>. DEFINE w == req[a]
  <2>1. /\ call[a] = "remove_wait" /\ Enter(a, "none", None)
        /\ waits' = waits \ {w} /\ pending' = pending \ {w}
        /\ UNCHANGED <<state, registered_callbacks, callback_queue, shutdown_queue, delayed_tasks,
                       to_call, loop_waits, pc>>
    BY Zenon, <1>4 DEF RemoveWait, Return, queues
  <2>2. /\ req'[a] = None
        /\ \A b \in Actors \ {a} : req'[b] = req[b] /\ call'[b] = call[b]
    BY Zenon, <2>1 DEF Enter, TypeInv, TypeOK, ControlOK
  <2>3. \A b \in Actors, v \in Waits : Token(b, v)' => Token(b, v) /\ b # a
    BY Zenon, <2>1, <2>2, RequestsAssumption DEF Token
  <2>4. CASE w \in Waits
    <3>1. Token(a, w)
      BY Zenon, <2>1 DEF Token
    <3>2. w \in waits /\ w \notin loop_waits /\ \A b \in Actors : Token(b, w) => a = b
      BY Zenon, <2>4, <3>1 DEF ReqInv, WaitTokens
    <3>3. \A b \in Actors, v \in Waits : Token(b, v)' => v # w
      BY Zenon, <2>3, <3>2
    <3>4. WaitTokens' /\ LoopWaits'
      BY ZenonT(40), <2>1, <2>3, <3>2, <3>3, KeptTokens DEF KeepsTokens, ReqInv, WaitTokens, LoopWaits
    <3>5. BatchOwned' /\ ListsClosed' /\ Injective'
      BY Zenon, <2>1 DEF ReqInv, BatchOwned, ListsClosed, Running, Injective
    <3>6. /\ w \notin registered_callbacks /\ w \notin Elems(callback_queue)
          /\ w \notin shutdown_queue
          /\ w \notin Elems(delayed_tasks) /\ \A t \in Threads : w \notin Batches[t]
      BY Zenon, <3>2 DEF ReqInv, Homes, Home
    <3>7. Home(pending \ {w}, registered_callbacks \ {w}, Elems(callback_queue) \ {w},
               shutdown_queue \ {w}, waits \ {w}, Elems(delayed_tasks) \ {w}, Batches)
      <4>1. \A t \in Threads : Batches[t] = Batches[t] \ {w}
        BY Zenon, <3>6
      <4>. QED BY ZenonT(30), <4>1, HomeFinish DEF ReqInv, Homes
    <3>8. /\ Elems(callback_queue) \ {w} = Elems(callback_queue)
          /\ registered_callbacks \ {w} = registered_callbacks
          /\ shutdown_queue \ {w} = shutdown_queue /\ Elems(delayed_tasks) \ {w} = Elems(delayed_tasks)
          /\ Batches' = Batches
      BY Zenon, <2>1, <3>6 DEF Batches
    <3>9. Homes'
      BY ZenonT(40), <2>1, <3>7, <3>8 DEF Homes
    <3>. QED BY Zenon, <3>4, <3>5, <3>9 DEF ReqInv
  <2>5. w \in Waits
    BY Zenon, <2>1 DEF RemovesWaits
  <2>. QED BY Zenon, <2>4, <2>5
<1>. QED BY <1>1, <1>2, <1>3, <1>4, QueueKeeps DEF CallStep

\* The end of a callback keeps ReqInv.
LEMMA CallbackEndsKeeps ==
  ASSUME TypeInv, ReqInv, OwnPcs, NEW a \in Actors, CallbackEnds(a)
  PROVE  ReqInv'
<1>. USE DEF TypeInv, TypeOK, ControlOK, Goto
<1>1. UNCHANGED <<state, queues, waits, loop_waits, pending>>
  BY Zenon DEF CallbackEnds, DirectCallEnd, CallbackReturns, CancelReturns, loop
<1>2. UNCHANGED <<call, req>> \/ Enter(a, "queue_defer", None)
  BY Zenon DEF CallbackEnds, DirectCallEnd, CallbackReturns, CancelReturns
<1>3. \A b \in Actors \ {a} : pc'[b] = pc[b]
  BY Zenon DEF CallbackEnds, DirectCallEnd, CallbackReturns, CancelReturns
<1>4. \/ pc'[a] = "idle" /\ pc[a] = "direct"
      \/ pc'[a] = "calling"
      \/ pc'[a] = "drain" /\ pc[a] = "cancelcb"
  BY Zenon DEF CallbackEnds, DirectCallEnd, CallbackReturns, CancelReturns
<1>5. a \notin Threads \/ to_call[a] = <<>> \/ pc'[a] = "calling"
  BY Zenon, <1>4 DEF ReqInv, BatchOwned
<1>6. Still
  BY Zenon, <1>1, <1>2, <1>3, <1>4, <1>5, ReturnIsStill DEF Running
<1>. QED BY Zenon, <1>6, StillSteps

\* The loop's deliveries keep ReqInv.
LEMMA LoopStepKeeps ==
  ASSUME TypeInv, ReqInv, NEW t \in Threads, LoopStep(t)
  PROVE  ReqInv'
<1>0. t \in Actors
  BY Zenon DEF Actors
<1>1. CASE HandleEvent(t) \/ TimerFires(t) \/ ShutdownEventSignaled(t)
  <2>1. /\ UNCHANGED <<state, queues, waits, loop_waits, pending, call, req>>
        /\ pc[t] = "idle"
        /\ \A b \in Actors \ {t} : pc'[b] = pc[b]
        /\ pc'[t] \notin {"signal", "queue_wait"}
    BY Zenon, <1>0, <1>1 DEF HandleEvent, TimerFires, ShutdownEventSignaled, Quiet, Goto, loop, TypeInv,
       TypeOK, ControlOK
  <2>2. to_call[t] = <<>>
    BY ZenonT(40), <2>1 DEF ReqInv, BatchOwned
  <2>3. Still
    BY Zenon, <1>0, <2>1, <2>2, ReturnIsStill DEF Running
  <2>. QED BY Zenon, <2>3, StillSteps
<1>2. ASSUME NEW w \in Waits, WaitSignaled(t, w) PROVE ReqInv'
  <2>1. /\ w \in loop_waits /\ loop_waits' = loop_waits \ {w} /\ pc[t] = "idle" /\ call[t] = "none"
        /\ UNCHANGED <<state, registered_callbacks, callback_queue, shutdown_queue, delayed_tasks,
                       to_call, waits, call, pending>>
    BY Zenon, <1>2 DEF WaitSignaled, Quiet, queues
  <2>2. /\ req'[t] = w /\ pc'[t] = "signal"
        /\ \A b \in Actors \ {t} : req'[b] = req[b] /\ pc'[b] = pc[b]
    BY Zenon, <1>0, <1>2 DEF WaitSignaled, Goto, TypeInv, TypeOK, ControlOK
  <2>3. (\A b \in Actors : ~Token(b, w)) /\ w \in waits
    BY ZenonT(40), <2>1 DEF ReqInv, WaitTokens, LoopWaits
  <2>4. \A b \in Actors, v \in Waits : Token(b, v)' => Token(b, v) \/ (b = t /\ v = w)
    BY Zenon, <2>1, <2>2 DEF Token
  <2>5. WaitTokens'
    BY ZenonT(40), <2>1, <2>3, <2>4 DEF ReqInv, WaitTokens
  <2>6. \A u \in Threads : to_call[u] # <<>> => pc'[u] = pc[u]
    BY ZenonT(40), <2>1, <2>2 DEF ReqInv, BatchOwned, Actors
  <2>7. LoopWaits' /\ BatchOwned' /\ ListsClosed'
    BY Zenon, <2>1, <2>6 DEF ReqInv, LoopWaits, BatchOwned, ListsClosed, Running
  <2>8. Batches' = Batches
    BY Zenon, <2>1 DEF Batches
  <2>9. Homes' /\ Injective'
    BY Zenon, <2>1, <2>8 DEF ReqInv, Homes, Injective
  <2>. QED BY Zenon, <2>5, <2>7, <2>9 DEF ReqInv
<1>. QED BY Zenon, <1>1, <1>2 DEF LoopStep

\* DispatchCallbacks, taking a batch, keeps ReqInv.
LEMMA DispatchCallbacksKeeps ==
  ASSUME TypeInv, ReqInv, NEW t \in Threads, DispatchCallbacks(t)
  PROVE  ReqInv'
<1>. DEFINE blocked == (~Unsynchronized /\ dispatching_sync) \/ ~Running
<1>0. t \in Actors
  BY DEF Actors
<1>1. /\ pc[t] = "dispatch"
      /\ UNCHANGED <<state, registered_callbacks, shutdown_queue, delayed_tasks, waits, loop_waits,
                     call, req, pending>>
      /\ \A b \in Actors \ {t} : pc'[b] = pc[b]
      /\ pc'[t] = IF blocked THEN "dispatch_defer" ELSE "calling"
  BY ZenonT(30), <1>0 DEF DispatchCallbacks, Goto, loop, TypeInv, TypeOK, ControlOK
<1>2. to_call[t] = <<>>
  BY Zenon, <1>1 DEF ReqInv, BatchOwned
<1>3. CASE blocked
  <2>1. UNCHANGED <<callback_queue, to_call>> /\ pc'[t] = "dispatch_defer"
    BY ZenonT(30), <1>1, <1>3 DEF DispatchCallbacks
  <2>2. Still
    BY Zenon, <1>0, <1>1, <1>2, <2>1, ReturnIsStill DEF Running, queues
  <2>. QED BY <2>2, StillSteps
<1>4. CASE ~blocked
  <2>1. PICK n \in 0 .. Len(callback_queue) :
          /\ to_call' = [to_call EXCEPT ![t] = SubSeq(callback_queue, 1, n)]
          /\ callback_queue' = SubSeq(callback_queue, n + 1, Len(callback_queue))
    BY ZenonT(30), <1>4 DEF DispatchCallbacks
  <2>2. pc'[t] = "calling" /\ Running
    BY Zenon, <1>1, <1>4
  <2>. DEFINE p == SubSeq(callback_queue, 1, n)
              q == SubSeq(callback_queue, n + 1, Len(callback_queue))
  <2>3. /\ Elems(p) \cup Elems(q) = Elems(callback_queue) /\ Elems(p) \cap Elems(q) = {}
        /\ IsInjectiveSeq(p) /\ IsInjectiveSeq(q)
    <3>1. callback_queue \in Seq(Requests) /\ IsInjectiveSeq(callback_queue)
      BY Zenon DEF TypeInv, TypeOK, QueuesOK, ReqInv, Injective
    <3>2. n \in 0 .. Len(callback_queue)
      BY Zenon, <2>1
    <3>. QED BY ZenonT(30), <3>1, <3>2, SplitElems
  <2>4. callback_queue' = q
    BY Zenon, <2>1
  <2>5. to_call'[t] = p /\ \A u \in Threads \ {t} : to_call'[u] = to_call[u]
    BY Zenon, <2>1 DEF TypeInv, TypeOK, QueuesOK
  <2>. HIDE DEF p, q
  <2>6. WaitTokens'
    BY ZenonT(40), <1>1, <2>2, KeptTokens DEF KeepsTokens, ReqInv, WaitTokens, Token
  <2>7. LoopWaits' /\ BatchOwned' /\ ListsClosed'
    BY Zenon, <1>1, <2>2, <2>5 DEF ReqInv, LoopWaits, BatchOwned, ListsClosed, Running, Actors
  <2>8. /\ Batches[t] = {} /\ Batches'[t] = Elems(p)
        /\ \A u \in Threads \ {t} : Batches'[u] = Batches[u]
    BY <1>2, <2>5 DEF Batches, Elems
  <2>9. Home(pending, registered_callbacks, Elems(q), shutdown_queue, waits, Elems(delayed_tasks),
             Batches')
    <3>1. PICK A : A = Batches'
      BY Zenon
    <3>2. A[t] = Elems(p) /\ \A u \in Threads \ {t} : A[u] = Batches[u]
      BY Zenon, <2>8, <3>1
    <3>3. Home(pending, registered_callbacks, Elems(callback_queue), shutdown_queue, waits,
               Elems(delayed_tasks), Batches)
      BY ZenonT(40) DEF ReqInv, Homes
    <3>4. Home(pending, registered_callbacks, Elems(q), shutdown_queue, waits,
               Elems(delayed_tasks), A)
      BY SMTT(30), <2>3, <2>8, <3>2, <3>3, HomeTake
    <3>. QED BY Zenon, <3>1, <3>4
  <2>10. Homes'
    BY ZenonT(40), <1>1, <2>4, <2>9 DEF Homes
  <2>11. Injective'
    BY Zenon, <1>1, <2>3, <2>4, <2>5 DEF ReqInv, Injective
  <2>. QED BY Zenon, <2>6, <2>7, <2>10, <2>11 DEF ReqInv
<1>. QED BY Zenon, <1>3, <1>4

\* DispatchCallback and a cancellation callback of CompleteShutdown finish a request.
LEMMA CallbacksKeep ==
  ASSUME TypeInv, ReqInv, NEW t \in Threads,
         DispatchCallback(t) \/ \E r \in Requests : CancelNext(t, r)
  PROVE  ReqInv'
<1>0. t \in Actors
  BY Zenon DEF Actors
<1>1. CASE DispatchCallback(t)
  <2>. DEFINE r == Head(to_call[t])
  <2>1. /\ pc[t] = "calling" /\ to_call[t] # <<>>
        /\ to_call' = [to_call EXCEPT ![t] = Tail(to_call[t])]
        /\ pending' = pending \ {r}
        /\ UNCHANGED <<state, registered_callbacks, callback_queue, shutdown_queue, delayed_tasks,
                       waits, loop_waits, call, req>>
    BY Zenon, <1>1 DEF DispatchCallback, loop
  <2>2. pc'[t] = "callback" /\ \A b \in Actors \ {t} : pc'[b] = pc[b]
    BY Zenon, <1>0, <1>1 DEF DispatchCallback, Goto, TypeInv, TypeOK, ControlOK
  <2>3. to_call[t] \in Seq(Requests) /\ IsInjectiveSeq(to_call[t])
    BY Zenon DEF TypeInv, TypeOK, QueuesOK, ReqInv, Injective
  <2>4. to_call'[t] = Tail(to_call[t]) /\ \A u \in Threads \ {t} : to_call'[u] = to_call[u]
    BY Zenon, <2>1 DEF TypeInv, TypeOK, QueuesOK
  <2>5. /\ r \in Elems(to_call[t]) /\ Elems(Tail(to_call[t])) = Elems(to_call[t]) \ {r}
        /\ IsInjectiveSeq(Tail(to_call[t]))
    BY Zenon, <2>1, <2>3, TailElems
  <2>. HIDE DEF r
  <2>6. /\ r \notin registered_callbacks /\ r \notin Elems(callback_queue)
        /\ r \notin shutdown_queue /\ r \notin waits
        /\ r \notin Elems(delayed_tasks) /\ \A u \in Threads \ {t} : r \notin Batches[u]
    BY Zenon, <2>5 DEF ReqInv, Homes, Home, Batches
  <2>7. \A u \in Threads : Batches'[u] = Batches[u] \ {r}
    BY Zenon, <2>4, <2>5, <2>6 DEF Batches
  <2>8. Home(pending \ {r}, registered_callbacks \ {r}, Elems(callback_queue) \ {r},
             shutdown_queue \ {r}, waits \ {r}, Elems(delayed_tasks) \ {r}, Batches')
    BY ZenonT(30), <2>7, HomeFinish DEF ReqInv, Homes
  <2>9. Homes'
    BY ZenonT(40), <2>1, <2>6, <2>8 DEF Homes
  <2>10. WaitTokens'
    BY ZenonT(40), <2>1, <2>2, KeptTokens DEF KeepsTokens, ReqInv, WaitTokens, Token
  <2>11. LoopWaits' /\ BatchOwned' /\ ListsClosed'
    BY ZenonT(40), <2>1, <2>2, <2>4 DEF ReqInv, LoopWaits, BatchOwned, ListsClosed, Running, Actors
  <2>12. Injective'
    BY Zenon, <2>1, <2>4, <2>5 DEF ReqInv, Injective
  <2>. QED BY Zenon, <2>9, <2>10, <2>11, <2>12 DEF ReqInv
<1>2. ASSUME NEW r \in Requests, CancelNext(t, r) PROVE ReqInv'
  <2>1. /\ pc[t] = "drain" /\ r \in shutdown_queue
        /\ shutdown_queue' = shutdown_queue \ {r}
        /\ pending' = pending \ {r}
        /\ UNCHANGED <<state, registered_callbacks, callback_queue, delayed_tasks, to_call, waits,
                       loop_waits, call, req>>
    BY Zenon, <1>2 DEF CancelNext, loop
  <2>2. pc'[t] = "cancelcb" /\ \A b \in Actors \ {t} : pc'[b] = pc[b]
    BY Zenon, <1>0, <1>2 DEF CancelNext, Goto, TypeInv, TypeOK, ControlOK
  <2>3. /\ r \notin registered_callbacks /\ r \notin Elems(callback_queue) /\ r \notin waits
        /\ r \notin Elems(delayed_tasks) /\ \A u \in Threads : r \notin Batches[u]
    BY ZenonT(40), <2>1 DEF ReqInv, Homes, Home
  <2>4. Batches' = Batches /\ \A u \in Threads : Batches[u] = Batches[u] \ {r}
    BY Zenon, <2>1, <2>3 DEF Batches
  <2>5. Home(pending \ {r}, registered_callbacks \ {r}, Elems(callback_queue) \ {r},
             shutdown_queue \ {r}, waits \ {r}, Elems(delayed_tasks) \ {r}, Batches)
    BY ZenonT(30), <2>4, HomeFinish DEF ReqInv, Homes
  <2>6. Homes'
    BY ZenonT(40), <2>1, <2>3, <2>4, <2>5 DEF Homes
  <2>7. WaitTokens'
    BY ZenonT(40), <2>1, <2>2, KeptTokens DEF KeepsTokens, ReqInv, WaitTokens, Token
  <2>8. LoopWaits' /\ BatchOwned' /\ ListsClosed'
    BY Zenon, <2>1, <2>2 DEF ReqInv, LoopWaits, BatchOwned, ListsClosed, Running, Actors
  <2>9. Injective'
    BY Zenon, <2>1 DEF ReqInv, Injective
  <2>. QED BY Zenon, <2>6, <2>7, <2>8, <2>9 DEF ReqInv
<1>. QED BY Zenon, <1>1, <1>2

\* CheckDelayedTasks, moving the tasks that are due, keeps ReqInv.
LEMMA CheckDelayedTasksKeeps ==
  ASSUME TypeInv, ReqInv, NEW t \in Threads, CheckDelayedTasks(t)
  PROVE  ReqInv'
<1>0. t \in Actors
  BY Zenon DEF Actors
<1>1. /\ pc[t] = "timer_check"
      /\ UNCHANGED <<state, registered_callbacks, shutdown_queue, to_call, waits, loop_waits,
                     call, req, pending>>
      /\ pc'[t] = "idle" /\ \A b \in Actors \ {t} : pc'[b] = pc[b]
  BY ZenonT(30), <1>0 DEF CheckDelayedTasks, Goto, loop, TypeInv, TypeOK, ControlOK
<1>2. CASE ~Running
  <2>1. UNCHANGED <<callback_queue, delayed_tasks>>
    BY ZenonT(30), <1>2 DEF CheckDelayedTasks
  <2>2. to_call[t] = <<>>
    BY ZenonT(40), <1>1 DEF ReqInv, BatchOwned
  <2>3. Still
    BY Zenon, <1>0, <1>1, <2>1, <2>2, ReturnIsStill DEF Running, queues
  <2>. QED BY Zenon, <2>3, StillSteps
<1>3. CASE Running
  <2>1. PICK k \in 0 .. Len(delayed_tasks) :
          /\ callback_queue' = callback_queue \o SubSeq(delayed_tasks, 1, k)
          /\ delayed_tasks' = SubSeq(delayed_tasks, k + 1, Len(delayed_tasks))
    BY ZenonT(30), <1>3 DEF CheckDelayedTasks
  <2>. DEFINE p == SubSeq(delayed_tasks, 1, k)
              q == SubSeq(delayed_tasks, k + 1, Len(delayed_tasks))
  <2>2. /\ callback_queue \in Seq(Requests) /\ IsInjectiveSeq(callback_queue)
        /\ delayed_tasks \in Seq(Requests) /\ IsInjectiveSeq(delayed_tasks)
    <3>1. delayed_tasks \in Seq(Tasks)
      BY Zenon DEF TypeInv, TypeOK, QueuesOK
    <3>2. delayed_tasks \in Seq(Requests)
      BY <3>1 DEF Requests
    <3>. QED BY Zenon, <3>2 DEF TypeInv, TypeOK, QueuesOK, ReqInv, Injective
  <2>3. /\ Elems(p) \cup Elems(q) = Elems(delayed_tasks) /\ Elems(p) \cap Elems(q) = {}
        /\ IsInjectiveSeq(p) /\ IsInjectiveSeq(q) /\ p \in Seq(Requests)
    <3>1. k \in 0 .. Len(delayed_tasks)
      BY Zenon, <2>1
    <3>. QED BY ZenonT(30), <2>2, <3>1, SplitElems
  <2>4. callback_queue' = callback_queue \o p /\ delayed_tasks' = q
    BY Zenon, <2>1
  <2>. HIDE DEF p, q
  <2>5. Elems(callback_queue) \cap Elems(p) = {}
    BY Zenon, <2>3 DEF ReqInv, Homes, Home
  <2>6. /\ Elems(callback_queue \o p) = Elems(callback_queue) \cup Elems(p)
        /\ IsInjectiveSeq(callback_queue \o p)
    BY <2>2, <2>3, <2>5, ConcatElems
  <2>7. Home(pending, registered_callbacks, Elems(callback_queue) \cup Elems(p), shutdown_queue,
             waits, Elems(q), Batches)
    BY ZenonT(30), <2>3, HomeDue DEF ReqInv, Homes
  <2>8. Batches' = Batches
    BY Zenon, <1>1 DEF Batches
  <2>9. Homes'
    BY ZenonT(40), <1>1, <2>4, <2>6, <2>7, <2>8 DEF Homes
  <2>10. WaitTokens'
    BY ZenonT(40), <1>1, KeptTokens DEF KeepsTokens, ReqInv, WaitTokens, Token
  <2>11. LoopWaits' /\ BatchOwned' /\ ListsClosed'
    BY ZenonT(40), <1>1, <1>3 DEF ReqInv, LoopWaits, BatchOwned, ListsClosed, Running, Actors
  <2>12. Injective'
    BY Zenon, <1>1, <2>3, <2>4, <2>6 DEF ReqInv, Injective
  <2>. QED BY Zenon, <2>9, <2>10, <2>11, <2>12 DEF ReqInv
<1>. QED BY Zenon, <1>2, <1>3

\* QueueWait, moving a wait to the registered callbacks or the shutdown queue,
\* keeps ReqInv.
LEMMA QueueWaitKeeps ==
  ASSUME TypeInv, ReqInv, NEW t \in Threads, QueueWait(t)
  PROVE  ReqInv'
<1>. DEFINE w == req[t]
<1>0. t \in Actors
  BY DEF Actors
<1>1. /\ pc[t] = "queue_wait" /\ waits' = waits \ {w}
      /\ UNCHANGED <<state, callback_queue, delayed_tasks, to_call, loop_waits, pending>>
      /\ pc'[t] \in {"wait_queued", "idle"} /\ \A b \in Actors \ {t} : pc'[b] = pc[b]
      /\ call'[t] # "remove_wait"
      /\ \A b \in Actors \ {t} : call'[b] = call[b] /\ req'[b] = req[b]
  BY Zenon, <1>0 DEF QueueWait, Goto, Enter, Return, TypeInv, TypeOK, ControlOK
<1>2. w \in Waits /\ Token(t, w)
  BY Zenon, <1>1 DEF Token, TypeInv, SignalsHaveWaits
<1>3. w \in waits /\ w \notin loop_waits /\ \A b \in Actors : Token(b, w) => b = t
  BY Zenon, <1>0, <1>2 DEF ReqInv, WaitTokens
<1>4. \A b \in Actors, v \in Waits : Token(b, v)' => Token(b, v) /\ b # t
  BY Zenon, <1>1 DEF Token
<1>5. WaitTokens'
  BY <1>1, <1>3, <1>4, KeptTokens DEF KeepsTokens, ReqInv, WaitTokens
<1>6. LoopWaits'
  BY Zenon, <1>1, <1>3 DEF ReqInv, LoopWaits
<1>7. BatchOwned'
  BY ZenonT(40), <1>1 DEF ReqInv, BatchOwned, Actors
<1>8. Batches' = Batches /\ Injective'
  BY Zenon, <1>1 DEF Batches, ReqInv, Injective
<1>9. /\ Home(pending, registered_callbacks \cup {w}, Elems(callback_queue), shutdown_queue,
              waits \ {w}, Elems(delayed_tasks), Batches)
      /\ Home(pending, registered_callbacks, Elems(callback_queue), shutdown_queue \cup {w},
              waits \ {w}, Elems(delayed_tasks), Batches)
  BY ZenonT(30), <1>3, HomeSignal DEF ReqInv, Homes
<1>10. CASE Running
  <2>1. registered_callbacks' = registered_callbacks \cup {w} /\ UNCHANGED shutdown_queue
    BY ZenonT(40), <1>10 DEF QueueWait
  <2>2. Homes'
    BY ZenonT(40), <1>1, <1>8, <1>9, <2>1 DEF Homes
  <2>3. ListsClosed'
    BY Zenon, <1>1, <1>10, <2>1 DEF ReqInv, ListsClosed, Running
  <2>. QED BY <1>5, <1>6, <1>7, <1>8, <2>2, <2>3 DEF ReqInv
<1>11. CASE ~Running
  <2>1. shutdown_queue' = shutdown_queue \cup {w} /\ UNCHANGED registered_callbacks
    BY ZenonT(40), <1>11 DEF QueueWait
  <2>2. Homes'
    BY ZenonT(40), <1>1, <1>8, <1>9, <2>1 DEF Homes
  <2>3. ListsClosed'
    BY Zenon, <1>1, <1>11, <2>1 DEF ReqInv, ListsClosed, Running
  <2>. QED BY <1>5, <1>6, <1>7, <1>8, <2>2, <2>3 DEF ReqInv
<1>. QED BY Zenon, <1>10, <1>11

\* The other steps of a handler move no request.
LEMMA HandlerStepKeeps ==
  ASSUME TypeInv, ReqInv, SerialInv, NEW t \in Threads, HandlerStep(t)
  PROVE  ReqInv'
<1>0. t \in Actors
  BY Zenon DEF Actors
<1>1. CASE OnSignal(t)
  <2>1. /\ pc[t] = "signal" /\ pc'[t] = "queue_wait"
        /\ UNCHANGED <<state, queues, waits, loop_waits, call, req, pending>>
        /\ \A b \in Actors \ {t} : pc'[b] = pc[b]
    BY Zenon, <1>0, <1>1 DEF OnSignal, Goto, TypeInv, TypeOK, ControlOK
  <2>2. \A b \in Actors, w \in Waits : Token(b, w)' => Token(b, w)
    BY Zenon, <2>1 DEF Token
  <2>3. to_call[t] = <<>>
    BY Zenon, <2>1 DEF ReqInv, BatchOwned
  <2>4. Still
    BY Zenon, <2>1, <2>2, <2>3 DEF Still, Running, Actors
  <2>. QED BY Zenon, <2>4, StillSteps
<1>2. CASE \/ DispatchEnd(t) \/ DispatchDefer(t) \/ TimerHandler(t)
           \/ CompleteShutdown(t) \/ ShutdownQueueEmpty(t) \/ ObserverReturns(t)
  <2>1. /\ UNCHANGED <<state, queues, waits, loop_waits, call, req, pending>>
        /\ \/ pc[t] = "calling" /\ to_call[t] = <<>> /\ pc' = [pc EXCEPT ![t] = "dispatch_defer"]
           \/ pc[t] = "dispatch_defer" /\ pc' = [pc EXCEPT ![t] = "idle"]
           \/ pc[t] = "timer" /\ pc' = [pc EXCEPT ![t] = "timer_check"]
           \/ pc[t] = "complete" /\ pc' = [pc EXCEPT ![t] = "drain"]
           \/ pc[t] = "drain" /\ pc' = [pc EXCEPT ![t] = "drained"]
           \/ pc[t] = "observer" /\ pc' = [pc EXCEPT ![t] = "idle"]
    BY ZenonT(30), <1>2 DEF DispatchEnd, DispatchDefer, TimerHandler, CompleteShutdown,
       ShutdownQueueEmpty, ObserverReturns, Goto, loop
  <2>2. /\ \A b \in Actors \ {t} : pc'[b] = pc[b]
        /\ pc'[t] \notin {"signal", "queue_wait"}
    BY ZenonT(40), <1>0, <2>1 DEF TypeInv, TypeOK, ControlOK
  <2>3. to_call[t] = <<>>
    BY ZenonT(40), <2>1 DEF ReqInv, BatchOwned
  <2>4. Still
    BY ZenonT(40), <1>0, <2>1, <2>2, <2>3, ReturnIsStill DEF Running
  <2>. QED BY <2>4, StillSteps
<1>3. CASE EnterShutdown(t)
  <2>1. /\ pc[t] = "drained" /\ state' = "kShutdown" /\ pc' = [pc EXCEPT ![t] = "observer"]
        /\ UNCHANGED <<queues, waits, loop_waits, call, req, pending>>
    BY Zenon, <1>3 DEF EnterShutdown, Goto, loop
  <2>2. /\ \A b \in Actors \ {t} : pc'[b] = pc[b]
        /\ pc'[t] \notin {"signal", "queue_wait"}
    BY Zenon, <1>0, <2>1 DEF TypeInv, TypeOK, ControlOK
  <2>3. to_call[t] = <<>>
    BY Zenon, <2>1 DEF ReqInv, BatchOwned
  <2>4. ~Running /\ ~Running'
    BY Zenon, <1>0, <2>1 DEF SerialInv, ShutdownRunsOnce, Completing, Running
  <2>5. Still
    BY Zenon, <1>0, <2>1, <2>2, <2>3, <2>4, ReturnIsStill
  <2>. QED BY <2>5, StillSteps
<1>. QED BY <1>1, <1>2, <1>3, DispatchCallbacksKeeps, CallbacksKeep, CheckDelayedTasksKeeps,
           QueueWaitKeeps, ZenonT(30) DEF HandlerStep

\* ReqInv is inductive.
LEMMA ReqNext ==
  ASSUME TypeInv, SerialInv, OwnPcs, RemovesWaits, ReqInv, [Next]_vars
  PROVE  ReqInv'
<1>1. ASSUME Tick \/ UNCHANGED vars PROVE Still
  <2>1. UNCHANGED <<state, queues, waits, loop_waits, pending, pc, call, req>>
    BY Zenon, <1>1 DEF Tick, vars, loop, control
  <2>. QED BY Zenon, <2>1 DEF Still, Running, Token
<1>. QED BY <1>1, StillSteps, ApiCallKeeps, CallStepKeeps, CallbackEndsKeeps, LoopStepKeeps,
           HandlerStepKeeps DEF Next

\* ReqInv is an invariant.
THEOREM ReqInvariant == Spec => []ReqInv
<1>1. Init => RemovesWaits
  BY Zenon DEF Init, RemovesWaits
<1>2. WakeInv => OwnPcs
  BY Zenon DEF WakeInv
<1>3. TypeInv /\ RemovesWaits /\ [Next]_vars => TypeInv' /\ RemovesWaits'
  BY Zenon, TypeNext, TypeStutter, RemovesWaitsNext
<1>4. TypeInv /\ SerialInv /\ OwnPcs /\ RemovesWaits /\ ReqInv /\ [Next]_vars => ReqInv'
  BY Zenon, ReqNext
<1>. QED BY <1>1, <1>2, <1>3, <1>4, TypeInit, ReqInit, SerialInvariant, WakeInvariant, PTL DEF Spec

\* No interleaving of registering, queueing, signalling, cancelling, the timer
\* and shutdown loses a request or has it in two of the dispatcher's lists.
THEOREM RequestsKept == Spec => []RequestsConserved
BY ReqInvariant, HomesConserve, PTL

-----------------------------------------------------------------------------
(* Tasks can be cancelled.                                                 *)

\* On a synchronized dispatcher an async operation is alone in its batch, and
\* in the batch only until its callback is called.
OneOpPerBatch ==
  ~Unsynchronized =>
    \A t \in Threads : Elems(to_call[t]) \cap AsyncOps # {} =>
      pc[t] = "calling" /\ \E x : Elems(to_call[t]) = {x}

\* A registered task is about to be queued by the PostTask that registered it.
TasksQueued ==
  \A r \in Tasks : r \in registered_callbacks => \E b \in Actors : call[b] = "queue" /\ req[b] = r

CancelInv == OneOpPerBatch /\ TasksQueued

\* A step that registers no task and leaves no QueueRegisteredCallback keeps
\* TasksQueued.
KeepsQueued ==
  /\ \A r \in Tasks : r \in registered_callbacks' => r \in registered_callbacks
  /\ \A b \in Actors : call[b] = "queue" => call'[b] = "queue" /\ req'[b] = req[b]
LEMMA QueuedKept ==
  ASSUME TasksQueued, KeepsQueued
  PROVE  TasksQueued'
BY Zenon DEF TasksQueued, KeepsQueued

\* A step that changes no batch and moves no thread out of "calling" keeps
\* OneOpPerBatch.
KeepsBatches ==
  UNCHANGED to_call /\ \A t \in Threads : pc[t] = "calling" => pc'[t] = "calling"
LEMMA BatchesKept ==
  ASSUME OneOpPerBatch, KeepsBatches
  PROVE  OneOpPerBatch'
BY Zenon DEF OneOpPerBatch, KeepsBatches

\* A step of actor a, which is not in QueueRegisteredCallback.
LEMMA EnterKeepsQueued ==
  ASSUME TypeInv, NEW a \in Actors, call[a] # "queue", NEW c, NEW x,
         UNCHANGED <<call, req>> \/ Enter(a, c, x),
         \A r \in Tasks : r \in registered_callbacks' => r \in registered_callbacks
  PROVE  KeepsQueued
<1>1. \A b \in Actors \ {a} : call'[b] = call[b] /\ req'[b] = req[b]
  BY Zenon DEF Enter, TypeInv, TypeOK, ControlOK
<1>2. \A b \in Actors : call[b] = "queue" => call'[b] = "queue" /\ req'[b] = req[b]
  BY Zenon, <1>1
<1>. QED BY Zenon, <1>2 DEF KeepsQueued

\* Starting an API call keeps CancelInv.
LEMMA ApiCallCancellable ==
  ASSUME TypeInv, ReqInv, CancelInv, NEW a \in Actors, ApiCall(a)
  PROVE  CancelInv'
<1>. USE DEF CancelInv
<1>0. ASSUME CanCall(a), UNCHANGED <<pc, to_call, registered_callbacks>>, NEW c, NEW x,
             UNCHANGED <<call, req>> \/ Enter(a, c, x)
      PROVE  CancelInv'
  <2>1. KeepsQueued
    BY Zenon, <1>0, EnterKeepsQueued DEF CanCall
  <2>2. KeepsBatches
    BY Zenon, <1>0 DEF KeepsBatches
  <2>. QED BY Zenon, <2>1, <2>2, QueuedKept, BatchesKept
<1>1. ASSUME NEW r \in Tasks, PostTask(a, r) PROVE CancelInv'
  <2>1. /\ call[a] = "none" /\ Enter(a, "queue", r)
        /\ registered_callbacks' = registered_callbacks \cup {r} /\ UNCHANGED <<pc, to_call>>
    BY Zenon, <1>1 DEF PostTask, CanCall, RegisterCallbackWithoutQueueing
  <2>2. /\ call'[a] = "queue" /\ req'[a] = r
        /\ \A b \in Actors \ {a} : call'[b] = call[b] /\ req'[b] = req[b]
    BY Zenon, <2>1 DEF Enter, TypeInv, TypeOK, ControlOK
  <2>3. TasksQueued'
    <3>. SUFFICES ASSUME NEW t \in Tasks, t \in registered_callbacks'
                  PROVE  \E b \in Actors : call'[b] = "queue" /\ req'[b] = t
      BY Zenon DEF TasksQueued
    <3>1. CASE t = r
      BY Zenon, <2>2, <3>1
    <3>2. CASE t # r
      <4>1. PICK b \in Actors : call[b] = "queue" /\ req[b] = t
        BY Zenon, <2>1, <3>2 DEF TasksQueued
      <4>2. b # a
        BY Zenon, <2>1, <4>1
      <4>. QED BY Zenon, <2>2, <4>1, <4>2
    <3>. QED BY Zenon, <3>1, <3>2
  <2>4. OneOpPerBatch'
    BY Zenon, <2>1, BatchesKept DEF KeepsBatches
  <2>. QED BY Zenon, <2>3, <2>4
<1>2. ASSUME NEW r \in Tasks, CancelTask(a, r) PROVE CancelInv'
  BY Zenon, <1>0, <1>2 DEF CancelTask, control
<1>3. ASSUME NEW r \in Tasks, NEW d \in 1 .. MaxTime, PostDelayedTask(a, r, d) PROVE CancelInv'
  BY Zenon, <1>0, <1>3 DEF PostDelayedTask, control
<1>4. ASSUME NEW r \in Reads, RegisterRead(a, r) PROVE CancelInv'
  <2>1. /\ call[a] = "none" /\ UNCHANGED <<call, req, pc, to_call>>
        /\ registered_callbacks' = registered_callbacks \cup {r}
    BY Zenon, <1>4 DEF RegisterRead, CanCall, RegisterCallbackWithoutQueueing, control
  <2>2. KeepsQueued
    BY Zenon, <2>1, RequestsAssumption DEF KeepsQueued
  <2>3. KeepsBatches
    BY Zenon, <2>1 DEF KeepsBatches
  <2>. QED BY Zenon, <2>2, <2>3, QueuedKept, BatchesKept
<1>5. ASSUME NEW r \in Reads, QueueRead(a, r) PROVE CancelInv'
  BY Zenon, <1>0, <1>5 DEF QueueRead, queues
<1>6. ASSUME NEW r \in Reads, CancelCallback(a, r) PROVE CancelInv'
  <2>1. /\ UNCHANGED <<call, req, pc>>
        /\ registered_callbacks' = registered_callbacks \ {r}
    BY Zenon, <1>6 DEF CancelCallback, control
  <2>2. TasksQueued'
    BY ZenonT(40), <2>1, QueuedKept DEF KeepsQueued
  <2>3. CASE ~InToCall(r)
    BY Zenon, <1>6, <2>1, <2>2, <2>3, BatchesKept DEF CancelCallback, KeepsBatches
  <2>4. CASE InToCall(r)
    <3>1. PICK t \in Threads : \E i \in DOMAIN to_call[t] :
            /\ to_call[t][i] = r
            /\ to_call' = [to_call EXCEPT ![t] = RemoveIndex(to_call[t], i)]
      BY ZenonT(30), <1>6, <2>4 DEF CancelCallback
    <3>. PICK i \in DOMAIN to_call[t] :
            /\ to_call[t][i] = r
            /\ to_call' = [to_call EXCEPT ![t] = RemoveIndex(to_call[t], i)]
      BY Zenon, <3>1
    <3>2. to_call \in [Threads -> Seq(Requests)] /\ IsInjectiveSeq(to_call[t])
      BY Zenon DEF TypeInv, TypeOK, QueuesOK, ReqInv, Injective
    <3>3. /\ to_call'[t] = RemoveIndex(to_call[t], i)
          /\ \A u \in Threads \ {t} : to_call'[u] = to_call[u]
      BY Zenon, <3>2
    <3>4. r \in Elems(to_call[t]) /\ r \notin AsyncOps
      BY Zenon, RequestsAssumption DEF Elems, AsyncOps
    <3>5. to_call[t] \in Seq(Requests)
      BY Zenon, <3>2
    <3>6. Elems(RemoveIndex(to_call[t], i)) = Elems(to_call[t]) \ {r}
      BY Zenon, <3>2, <3>5, RemoveElems
    <3>7. ~Unsynchronized => Elems(to_call'[t]) \cap AsyncOps = {}
      BY <3>3, <3>4, <3>6 DEF OneOpPerBatch
    <3>8. OneOpPerBatch'
      BY Zenon, <2>1, <3>3, <3>7 DEF OneOpPerBatch
    <3>. QED BY Zenon, <2>2, <3>8
  <2>. QED BY Zenon, <2>3, <2>4
<1>7. ASSUME NEW w \in Waits, BeginWait(a, w) PROVE CancelInv'
  BY Zenon, <1>0, <1>7 DEF BeginWait, control, queues
<1>8. ASSUME NEW w \in Waits, CancelWait(a, w) PROVE CancelInv'
  BY Zenon, <1>0, <1>8 DEF CancelWait, queues
<1>9. CASE ShutdownAsync(a)
  <2>1. /\ call[a] = "none" /\ Enter(a, "register_shutdown", None)
        /\ registered_callbacks' = {} /\ UNCHANGED <<to_call, pc>>
    BY Zenon, <1>9 DEF ShutdownAsync, CanCall
  <2>2. KeepsQueued
    BY Zenon, <2>1, EnterKeepsQueued
  <2>3. KeepsBatches
    BY Zenon, <2>1 DEF KeepsBatches
  <2>. QED BY Zenon, <2>2, <2>3, QueuedKept, BatchesKept
<1>10. CASE WaitUntilIdle(a)
  BY Zenon, <1>0, <1>10 DEF WaitUntilIdle, queues
<1>11. CASE Destroy(a)
  <2>1. UNCHANGED <<call, req, pc, to_call, registered_callbacks>>
    BY Zenon, <1>11 DEF Destroy, control, queues
  <2>. QED BY Zenon, <2>1, QueuedKept, BatchesKept DEF KeepsQueued, KeepsBatches
<1>. HIDE DEF CancelInv
<1>. QED BY <1>1, <1>2, <1>3, <1>4, <1>5, <1>6, <1>7, <1>8, <1>9, <1>10, <1>11 DEF ApiCall

\* The later steps of an API call and the ends of callbacks keep CancelInv.
LEMMA CallStepCancellable ==
  ASSUME TypeInv, ReqInv, OwnPcs, CancelInv, NEW a \in Actors, CallStep(a) \/ CallbackEnds(a)
  PROVE  CancelInv'
<1>. USE DEF CancelInv
<1>0. ASSUME UNCHANGED <<registered_callbacks, to_call>>, call[a] # "queue", NEW c,
             UNCHANGED <<call, req>> \/ Enter(a, c, None),
             \A t \in Threads : pc[t] = "calling" => pc'[t] = "calling"
      PROVE  CancelInv'
  <2>1. KeepsQueued
    BY Zenon, <1>0, EnterKeepsQueued
  <2>2. KeepsBatches
    BY Zenon, <1>0 DEF KeepsBatches
  <2>. QED BY Zenon, <2>1, <2>2, QueuedKept, BatchesKept
<1>1. CASE QueueRegisteredCallback(a)
  <2>. DEFINE r == req[a]
              direct == Running /\ InContainer(r) /\ r \in registered_callbacks /\ DirectCall(a, r)
  <2>1. /\ UNCHANGED to_call
        /\ \A b \in Actors \ {a} : call'[b] = call[b] /\ req'[b] = req[b] /\ pc'[b] = pc[b]
        /\ pc'[a] = pc[a] \/ (pc'[a] = "direct" /\ a \in Runtime)
        /\ Running => registered_callbacks' = registered_callbacks \ {r}
        /\ ~Running => registered_callbacks' = registered_callbacks
    <3>1. CASE direct
      BY SMTT(30), <1>1, <3>1 DEF QueueRegisteredCallback, Goto, Return, Enter, TypeInv, TypeOK, ControlOK,
         DirectCall
    <3>2. CASE ~direct
      BY <1>1, <3>2 DEF QueueRegisteredCallback, Enter, TypeInv, TypeOK, ControlOK
    <3>. QED BY ZenonT(40), <3>1, <3>2
  <2>2. TasksQueued'
    <3>1. ASSUME NEW x \in Tasks, x \in registered_callbacks'
          PROVE  \E b \in Actors : call'[b] = "queue" /\ req'[b] = x
      <4>1. x \in registered_callbacks /\ x # r
        BY Zenon, <2>1, <3>1 DEF ReqInv, ListsClosed
      <4>2. PICK b \in Actors : call[b] = "queue" /\ req[b] = x
        BY Zenon, <3>1, <4>1 DEF TasksQueued
      <4>. QED BY <2>1, <4>1, <4>2
    <3>. QED BY Zenon, <3>1 DEF TasksQueued
  <2>3. \A t \in Threads : pc'[t] = pc[t]
    BY Zenon, <2>1, ActorsAssumption DEF Actors
  <2>4. KeepsBatches
    BY Zenon, <2>1, <2>3 DEF KeepsBatches
  <2>. QED BY Zenon, <2>2, <2>4, BatchesKept
<1>2. CASE QueueDefer(a)
  <2>1. /\ UNCHANGED <<registered_callbacks, to_call>> /\ call[a] # "queue"
        /\ Enter(a, "none", None)
        /\ pc' = [pc EXCEPT ![a] = IF pc[a] = "wait_queued" THEN "idle" ELSE pc[a]]
    BY Zenon, <1>2 DEF QueueDefer, Return, Goto, queues
  <2>2. \A t \in Threads : pc[t] = "calling" => pc'[t] = "calling"
    BY Zenon, <2>1 DEF Actors, TypeInv, TypeOK, ControlOK
  <2>. QED BY Zenon, <1>0, <2>1, <2>2
<1>3. CASE \/ RemoveWait(a) \/ RegisterForCompleteShutdownEvent(a) \/ WaitUntilIdleReturn(a)
           \/ CancelWaitOperation(a)
  <2>1. UNCHANGED <<registered_callbacks, to_call, pc>> /\ call[a] # "queue" /\ Enter(a, "none", None)
    BY Zenon, <1>3 DEF RemoveWait, RegisterForCompleteShutdownEvent, WaitUntilIdleReturn,
       CancelWaitOperation, Return, queues
  <2>. QED BY Zenon, <1>0, <2>1
<1>4. CASE CallbackEnds(a)
  <2>1. /\ UNCHANGED <<registered_callbacks, to_call>> /\ call[a] = "none"
        /\ UNCHANGED <<call, req>> \/ Enter(a, "queue_defer", None)
        /\ \E l : pc' = [pc EXCEPT ![a] = l]
        /\ pc[a] # "calling"
    BY Zenon, <1>4 DEF CallbackEnds, DirectCallEnd, CallbackReturns, CancelReturns, Goto, queues
  <2>2. \A t \in Threads : pc[t] = "calling" => pc'[t] = "calling"
    BY Zenon, <2>1 DEF Actors, TypeInv, TypeOK, ControlOK
  <2>. QED BY Zenon, <1>0, <2>1, <2>2
<1>. HIDE DEF CancelInv
<1>. QED BY Zenon, <1>1, <1>2, <1>3, <1>4 DEF CallStep

\* The loop's deliveries and the steps of handlers keep CancelInv.
LEMMA LoopCancellable ==
  ASSUME TypeInv, ReqInv, CancelInv, NEW t \in Threads, LoopStep(t) \/ HandlerStep(t)
  PROVE  CancelInv'
<1>. USE DEF CancelInv
<1>0. t \in Actors
  BY Zenon DEF Actors
<1>1. ASSUME UNCHANGED <<registered_callbacks, call, req, to_call>>,
             \E l : pc' = [pc EXCEPT ![t] = l], pc[t] # "calling"
      PROVE  CancelInv'
  <2>1. KeepsQueued
    BY Zenon, <1>1 DEF KeepsQueued
  <2>2. KeepsBatches
    BY Zenon, <1>1 DEF KeepsBatches, Actors, TypeInv, TypeOK, ControlOK
  <2>. QED BY Zenon, <2>1, <2>2, QueuedKept, BatchesKept
<1>2. CASE HandleEvent(t) \/ TimerFires(t) \/ ShutdownEventSignaled(t)
  BY Zenon, <1>1, <1>2 DEF HandleEvent, TimerFires, ShutdownEventSignaled, Quiet, Goto, queues
<1>3. ASSUME NEW w \in Waits, WaitSignaled(t, w) PROVE CancelInv'
  <2>1. /\ pc[t] = "idle" /\ call[t] = "none" /\ pc' = [pc EXCEPT ![t] = "signal"]
        /\ req' = [req EXCEPT ![t] = w]
        /\ UNCHANGED <<registered_callbacks, call, to_call>>
    BY Zenon, <1>3 DEF WaitSignaled, Quiet, Goto, queues
  <2>2. KeepsQueued
    BY <1>0, <2>1 DEF KeepsQueued, TypeInv, TypeOK, ControlOK
  <2>3. KeepsBatches
    BY <2>1 DEF KeepsBatches, Actors, TypeInv, TypeOK, ControlOK
  <2>. QED BY Zenon, <2>2, <2>3, QueuedKept, BatchesKept
<1>4. CASE \/ DispatchDefer(t) \/ TimerHandler(t) \/ OnSignal(t) \/ CompleteShutdown(t)
           \/ ShutdownQueueEmpty(t) \/ EnterShutdown(t) \/ ObserverReturns(t)
  BY <1>1, <1>4, ZenonT(30) DEF DispatchDefer, TimerHandler, OnSignal, CompleteShutdown,
     ShutdownQueueEmpty, EnterShutdown, ObserverReturns, Goto, queues
<1>5. CASE CheckDelayedTasks(t)
  BY <1>1, <1>5, ZenonT(30) DEF CheckDelayedTasks, Goto
<1>6. ASSUME NEW r \in Requests, CancelNext(t, r) PROVE CancelInv'
  BY ZenonT(40), <1>1, <1>6 DEF CancelNext, Goto
<1>7. CASE QueueWait(t)
  <2>1. /\ pc[t] = "queue_wait" /\ UNCHANGED to_call
        /\ Enter(t, "queue", req[t]) \/ Enter(t, "none", None)
        /\ registered_callbacks' \subseteq registered_callbacks \cup {req[t]}
        /\ \E l : pc' = [pc EXCEPT ![t] = l]
    BY ZenonT(30), <1>7 DEF QueueWait, Goto, Return
  <2>2. req[t] \in Waits /\ call[t] = "none"
    BY Zenon, <2>1 DEF TypeInv, SignalsHaveWaits
  <2>3. \A r \in Tasks : r \in registered_callbacks' => r \in registered_callbacks
    BY Zenon, <2>1, <2>2, RequestsAssumption
  <2>4. KeepsQueued
    BY <1>0, <2>1, <2>2, <2>3, EnterKeepsQueued
  <2>5. KeepsBatches
    BY Zenon, <2>1 DEF KeepsBatches, Actors, TypeInv, TypeOK, ControlOK
  <2>. QED BY <2>4, <2>5, QueuedKept, BatchesKept
<1>8. CASE DispatchEnd(t)
  <2>1. /\ to_call[t] = <<>> /\ UNCHANGED <<registered_callbacks, to_call, call, req>>
        /\ pc' = [pc EXCEPT ![t] = "dispatch_defer"]
    BY Zenon, <1>8 DEF DispatchEnd, Goto, queues
  <2>2. Elems(to_call[t]) = {}
    BY <2>1 DEF Elems
  <2>3. \A u \in Threads \ {t} : pc'[u] = pc[u]
    BY Zenon, <2>1 DEF Actors, TypeInv, TypeOK, ControlOK
  <2>4. OneOpPerBatch'
    BY Zenon, <2>1, <2>2, <2>3 DEF OneOpPerBatch
  <2>5. KeepsQueued
    BY Zenon, <2>1 DEF KeepsQueued
  <2>. QED BY Zenon, <2>4, <2>5, QueuedKept
<1>9. CASE DispatchCallback(t)
  <2>1. /\ to_call[t] # <<>> /\ to_call' = [to_call EXCEPT ![t] = Tail(to_call[t])]
        /\ pc' = [pc EXCEPT ![t] = "callback"] /\ UNCHANGED <<registered_callbacks, call, req>>
    BY Zenon, <1>9 DEF DispatchCallback, Goto
  <2>2. to_call[t] \in Seq(Requests) /\ IsInjectiveSeq(to_call[t])
    BY Zenon DEF TypeInv, TypeOK, QueuesOK, ReqInv, Injective
  <2>3. /\ to_call'[t] = Tail(to_call[t])
        /\ \A u \in Threads \ {t} : to_call'[u] = to_call[u] /\ pc'[u] = pc[u]
    BY Zenon, <2>1 DEF Actors, TypeInv, TypeOK, ControlOK, QueuesOK
  <2>4. /\ Head(to_call[t]) \in Elems(to_call[t])
        /\ Elems(Tail(to_call[t])) = Elems(to_call[t]) \ {Head(to_call[t])}
    BY Zenon, <2>1, <2>2, TailElems
  <2>5. ~Unsynchronized => Elems(to_call'[t]) \cap AsyncOps = {}
    BY Zenon, <2>3, <2>4 DEF OneOpPerBatch
  <2>6. OneOpPerBatch'
    BY Zenon, <2>3, <2>5 DEF OneOpPerBatch
  <2>7. KeepsQueued
    BY Zenon, <2>1 DEF KeepsQueued
  <2>. QED BY Zenon, <2>6, <2>7, QueuedKept
<1>10. CASE DispatchCallbacks(t)
  <2>1. /\ pc[t] = "dispatch" /\ UNCHANGED <<registered_callbacks, call, req>>
        /\ \/ UNCHANGED to_call /\ pc' = [pc EXCEPT ![t] = "dispatch_defer"]
           \/ /\ pc' = [pc EXCEPT ![t] = "calling"]
              /\ \E n \in 0 .. Len(callback_queue) :
                   /\ IsBatch(n)
                   /\ to_call' = [to_call EXCEPT ![t] = SubSeq(callback_queue, 1, n)]
    BY ZenonT(30), <1>10 DEF DispatchCallbacks, Goto
  <2>2. CASE UNCHANGED to_call /\ pc' = [pc EXCEPT ![t] = "dispatch_defer"]
    BY Zenon, <1>1, <2>1, <2>2
  <2>3. ASSUME NEW n \in 0 .. Len(callback_queue), IsBatch(n),
               to_call' = [to_call EXCEPT ![t] = SubSeq(callback_queue, 1, n)],
               pc' = [pc EXCEPT ![t] = "calling"]
        PROVE  OneOpPerBatch'
    <3>1. /\ to_call'[t] = SubSeq(callback_queue, 1, n) /\ pc'[t] = "calling"
          /\ \A u \in Threads \ {t} : to_call'[u] = to_call[u] /\ pc'[u] = pc[u]
      BY Zenon, <2>3 DEF Actors, TypeInv, TypeOK, ControlOK, QueuesOK
    <3>2. Elems(SubSeq(callback_queue, 1, n)) = {callback_queue[i] : i \in 1 .. n}
      <4>1. /\ callback_queue \in Seq(Requests) /\ Len(callback_queue) \in Nat
            /\ \A i \in 1 .. n : callback_queue[i] \in Requests
        BY DEF TypeInv, TypeOK, QueuesOK
      <4>2. /\ SubSeq(callback_queue, 1, n) \in Seq(Requests)
            /\ Len(SubSeq(callback_queue, 1, n)) = n
            /\ \A i \in 1 .. n : SubSeq(callback_queue, 1, n)[i] = callback_queue[i]
        BY <4>1, SubSeqFacts
      <4>3. DOMAIN SubSeq(callback_queue, 1, n) = 1 .. n
        BY Zenon, <4>2, LenFacts
      <4>. QED BY ZenonT(40), <4>2, <4>3 DEF Elems
    <3>3. ASSUME ~Unsynchronized, Elems(to_call'[t]) \cap AsyncOps # {}
          PROVE  \E x : Elems(to_call'[t]) = {x}
      <4>1. PICK i \in 1 .. n : callback_queue[i] \in AsyncOps
        BY <3>1, <3>2, <3>3
      <4>2. n = 1
        BY Zenon, <2>3, <3>3, <4>1 DEF IsBatch
      <4>. QED BY SMTT(30), <3>1, <3>2, <4>2
    <3>. QED BY Zenon, <3>1, <3>3 DEF OneOpPerBatch
  <2>4. KeepsQueued
    BY Zenon, <2>1 DEF KeepsQueued
  <2>. QED BY Zenon, <2>1, <2>2, <2>3, <2>4, QueuedKept
<1>. HIDE DEF CancelInv
<1>. QED BY <1>2, <1>3, <1>4, <1>5, <1>6, <1>7, <1>8, <1>9, <1>10, ZenonT(30) DEF LoopStep, HandlerStep

\* CancelInv is an invariant.
THEOREM CancelInvariant == Spec => []CancelInv
<1>1. Init => CancelInv
  BY DEF Init, CancelInv, OneOpPerBatch, TasksQueued, Elems
<1>2. WakeInv => OwnPcs
  BY Zenon DEF WakeInv
<1>3. TypeInv /\ [Next]_vars => TypeInv'
  BY Zenon, TypeNext, TypeStutter
<1>4. TypeInv /\ ReqInv /\ OwnPcs /\ CancelInv /\ [Next]_vars => CancelInv'
  <2>. SUFFICES ASSUME TypeInv, ReqInv, OwnPcs, CancelInv, [Next]_vars PROVE CancelInv'
    BY Zenon
  <2>1. ASSUME Tick \/ UNCHANGED vars PROVE CancelInv'
    <3>1. UNCHANGED <<registered_callbacks, to_call, pc, call, req>>
      BY Zenon, <2>1 DEF Tick, vars, control, queues
    <3>. QED BY Zenon, <3>1, QueuedKept, BatchesKept DEF CancelInv, KeepsQueued, KeepsBatches
  <2>. QED BY Zenon, <2>1, ApiCallCancellable, CallStepCancellable, LoopCancellable DEF Next
<1>. QED BY <1>1, <1>2, <1>3, <1>4, TypeInit, ReqInvariant, WakeInvariant, PTL DEF Spec

\* From every callback of a synchronized dispatcher each task that was posted
\* and has not started can be cancelled: CancelAsyncOperation finds it.
THEOREM TasksAreCancellable == Spec => []TasksCancellable
<1>1. ASSUME TypeInv, ReqInv, SerialInv, CancelInv PROVE TasksCancellable
  <2>. SUFFICES ASSUME ~Unsynchronized, NEW a \in Actors, NEW r \in Tasks, InCallback(a),
                       r \in pending
                PROVE  \/ r \in Elems(callback_queue) \cup shutdown_queue \cup Elems(delayed_tasks)
                       \/ \E b \in Actors : call[b] = "queue" /\ req[b] = r
    BY Zenon DEF TasksCancellable
  <2>1. \/ r \in registered_callbacks
        \/ r \in Elems(callback_queue) \cup shutdown_queue \cup Elems(delayed_tasks)
        \/ r \in waits
        \/ \E t \in Threads : r \in Elems(to_call[t])
    BY Zenon, <1>1 DEF ReqInv, Homes, Home, Batches
  <2>2. r \notin waits
    BY Zenon, <1>1, RequestsAssumption DEF TypeInv, TypeOK, LoopOK
  <2>3. ASSUME NEW t \in Threads, r \in Elems(to_call[t]) PROVE FALSE
    <3>1. pc[t] = "calling"
      BY Zenon, <1>1, <2>3 DEF CancelInv, OneOpPerBatch, AsyncOps
    <3>. QED BY Zenon, <1>1, <3>1 DEF SerialInv, SyncIsALock, DrainsAlone, Busy, InCallback, Actors
  <2>. QED BY Zenon, <1>1, <2>1, <2>2, <2>3 DEF CancelInv, TasksQueued
<1>2. TypeInv /\ [Next]_vars => TypeInv'
  BY TypeNext, TypeStutter
<1>. QED BY <1>1, <1>2, TypeInit, ReqInvariant, SerialInvariant, CancelInvariant, PTL DEF Spec
=============================================================================
