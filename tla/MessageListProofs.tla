-------------------------- MODULE MessageListProofs --------------------------
(***************************************************************************)
(* Proofs about the message list, for any number of messages, payloads and *)
(* lists.                                                                  *)
(***************************************************************************)
EXTENDS MessageList, SequenceTheorems, TLAPS

-----------------------------------------------------------------------------
(* Sequences of messages.                                                  *)

(* What Append and RemoveAt return, element by element. *)
LEMMA AppendElements ==
    ASSUME NEW S, NEW s \in Seq(S), NEW e \in S
    PROVE  /\ Append(s, e) \in Seq(S)
           /\ Len(Append(s, e)) = Len(s) + 1
           /\ \A i \in 1..Len(s) : Append(s, e)[i] = s[i]
           /\ Append(s, e)[Len(s) + 1] = e
BY AppendProperties

LEMMA RemoveAtElements ==
    ASSUME NEW S, NEW s \in Seq(S), NEW i \in 1..Len(s)
    PROVE  /\ RemoveAt(s, i) \in Seq(S)
           /\ Len(RemoveAt(s, i)) = Len(s) - 1
           /\ \A j \in 1..(Len(s) - 1) : RemoveAt(s, i)[j] = IF j < i THEN s[j] ELSE s[j + 1]
<1> DEFINE a == SubSeq(s, 1, i - 1)
           b == SubSeq(s, i + 1, Len(s))
<1>1. Len(s) \in Nat /\ i \in Int /\ \A j \in 1..Len(s) : s[j] \in S
  BY LenProperties, ElementOfSeq
<1>2. /\ a \in Seq(S)
      /\ Len(a) = i - 1
      /\ \A j \in 1..(i - 1) : a[j] = s[j]
  <2>1. /\ a \in Seq(S)
        /\ Len(a) = IF 1 <= i - 1 THEN (i - 1) - 1 + 1 ELSE 0
        /\ \A j \in 1..((i - 1) - 1 + 1) : a[j] = s[1 + j - 1]
    <3>1. 1 \in Int /\ i - 1 \in Int /\ \A j \in 1..(i - 1) : s[j] \in S
      BY <1>1
    <3> HIDE DEF a
    <3>2. QED BY <3>1, SubSeqProperties DEF a
  <2> HIDE DEF a
  <2>2. QED BY <1>1, <2>1
<1>3. /\ b \in Seq(S)
      /\ Len(b) = Len(s) - i
      /\ \A j \in 1..(Len(s) - i) : b[j] = s[j + i]
  <2>1. /\ b \in Seq(S)
        /\ Len(b) = IF i + 1 <= Len(s) THEN Len(s) - (i + 1) + 1 ELSE 0
        /\ \A j \in 1..(Len(s) - (i + 1) + 1) : b[j] = s[(i + 1) + j - 1]
    <3>1. i + 1 \in Int /\ Len(s) \in Int /\ \A j \in (i + 1)..Len(s) : s[j] \in S
      BY <1>1
    <3> HIDE DEF b
    <3>2. QED BY <3>1, SubSeqProperties DEF b
  <2> HIDE DEF b
  <2>2. QED BY <1>1, <2>1
<1> HIDE DEF a, b
<1>4. /\ a \o b \in Seq(S)
      /\ Len(a \o b) = Len(a) + Len(b)
      /\ \A j \in 1..(Len(a) + Len(b)) :
            (a \o b)[j] = IF j <= Len(a) THEN a[j] ELSE b[j - Len(a)]
  BY <1>2, <1>3, ConcatProperties
<1>5. Len(a) + Len(b) = Len(s) - 1
  BY <1>1, <1>2, <1>3
<1>6. ASSUME NEW j \in 1..(Len(s) - 1)
      PROVE (a \o b)[j] = IF j < i THEN s[j] ELSE s[j + 1]
  <2>1. CASE j < i
    BY <1>1, <1>2, <1>4, <1>5, <2>1
  <2>2. CASE ~(j < i)
    <3>1. (a \o b)[j] = b[j - Len(a)]
      BY <1>1, <1>2, <1>4, <1>5, <2>2
    <3>2. j - Len(a) \in 1..(Len(s) - i) /\ (j - Len(a)) + i = j + 1
      BY <1>1, <1>2, <2>2
    <3>3. b[j - Len(a)] = s[(j - Len(a)) + i]
      BY <1>3, <3>2
    <3>4. QED BY <2>2, <3>1, <3>2, <3>3
  <2>3. QED BY <2>1, <2>2
<1>7. RemoveAt(s, i) = a \o b
  BY DEF RemoveAt, a, b
<1>8. QED BY <1>4, <1>5, <1>6, <1>7

(* The messages of a list after either. *)
LEMMA AppendSet ==
    ASSUME NEW S, NEW s \in Seq(S), NEW e \in S
    PROVE  /\ ToSet(Append(s, e)) = ToSet(s) \cup {e}
           /\ IsInjective(s) /\ e \notin ToSet(s) => IsInjective(Append(s, e))
<1>1. /\ DOMAIN s = 1..Len(s) /\ Len(s) \in Nat
      /\ DOMAIN Append(s, e) = 1..(Len(s) + 1)
  BY AppendElements, LenProperties
<1>2. QED BY <1>1, AppendElements DEF ToSet, IsInjective

LEMMA RemoveAtSet ==
    ASSUME NEW S, NEW s \in Seq(S), NEW i \in 1..Len(s), IsInjective(s)
    PROVE  /\ ToSet(RemoveAt(s, i)) = ToSet(s) \ {s[i]}
           /\ IsInjective(RemoveAt(s, i))
<1> DEFINE r == RemoveAt(s, i)
<1>1. /\ DOMAIN s = 1..Len(s) /\ Len(s) \in Nat /\ i \in Nat
      /\ DOMAIN r = 1..(Len(s) - 1)
  <2>1. r \in Seq(S) /\ Len(r) = Len(s) - 1
    BY RemoveAtElements
  <2> HIDE DEF r
  <2>2. DOMAIN s = 1..Len(s) /\ Len(s) \in Nat /\ DOMAIN r = 1..Len(r)
    BY <2>1, LenProperties
  <2>3. QED BY <2>1, <2>2
<1>2. \A j \in 1..(Len(s) - 1) : r[j] = IF j < i THEN s[j] ELSE s[j + 1]
  BY RemoveAtElements
<1> HIDE DEF r
<1>3. \A j, k \in 1..Len(s) : s[j] = s[k] => j = k
  BY <1>1 DEF IsInjective
<1>4. ASSUME NEW j \in 1..(Len(s) - 1)
      PROVE \E k \in 1..Len(s) : k # i /\ r[j] = s[k]
  <2>1. CASE j < i
    BY <1>1, <1>2, <2>1
  <2>2. CASE ~(j < i)
    <3>1. r[j] = s[j + 1] /\ j + 1 \in 1..Len(s) /\ j + 1 # i
      BY <1>1, <1>2, <2>2
    <3>2. QED BY <3>1
  <2>3. QED BY <2>1, <2>2
<1>5. ASSUME NEW k \in 1..Len(s), k # i
      PROVE \E j \in 1..(Len(s) - 1) : r[j] = s[k]
  <2>1. CASE k < i
    <3>1. k \in 1..(Len(s) - 1) /\ r[k] = s[k]
      BY <1>1, <1>2, <2>1
    <3>2. QED BY <3>1
  <2>2. CASE ~(k < i)
    <3>1. k - 1 \in 1..(Len(s) - 1) /\ ~(k - 1 < i) /\ (k - 1) + 1 = k
      BY <1>1, <1>5, <2>2
    <3>2. r[k - 1] = s[k]
      BY <1>2, <3>1
    <3>3. QED BY <3>1, <3>2
  <2>3. QED BY <2>1, <2>2
<1>6. ToSet(r) = ToSet(s) \ {s[i]}
  <2>1. ToSet(r) = {r[j] : j \in 1..(Len(s) - 1)} /\ ToSet(s) = {s[j] : j \in 1..Len(s)}
    BY <1>1 DEF ToSet
  <2>2. \A x : x \in ToSet(r) => x \in ToSet(s) \ {s[i]}
    BY <1>3, <1>4, <2>1
  <2>3. \A x : x \in ToSet(s) \ {s[i]} => x \in ToSet(r)
    BY <1>5, <2>1
  <2>4. QED BY <2>2, <2>3
<1>7. IsInjective(r)
  <2>1. ASSUME NEW j \in 1..(Len(s) - 1), NEW k \in 1..(Len(s) - 1), r[j] = r[k] PROVE j = k
    BY <1>1, <1>2, <1>3, <2>1
  <2>2. QED BY <1>1, <2>1 DEF IsInjective
<1>8. QED BY <1>6, <1>7 DEF r
-----------------------------------------------------------------------------
(* The pointers.                                                           *)

(* The order of a list is a sequence of messages. *)
LEMMA OrderFacts ==
    ASSUME TypeOK, NEW d \in Lists
    PROVE  /\ order[d] \in Seq(Messages)
           /\ Len(order[d]) \in Nat
           /\ DOMAIN order[d] = 1..Len(order[d])
           /\ \A i \in 1..Len(order[d]) : order[d][i] \in Messages /\ order[d][i] # NULL
           /\ ToSet(order[d]) = {order[d][i] : i \in 1..Len(order[d])}
           /\ order[d] = <<>> <=> Len(order[d]) = 0
<1>1. order[d] \in Seq(Messages)
  BY DEF TypeOK
<1>2. /\ Len(order[d]) \in Nat
      /\ DOMAIN order[d] = 1..Len(order[d])
      /\ \A i \in 1..Len(order[d]) : order[d][i] \in Messages
  BY <1>1, LenProperties, ElementOfSeq
<1>3. order[d] = <<>> <=> Len(order[d]) = 0
  BY <1>1, EmptySeq
<1>4. QED BY <1>1, <1>2, <1>3, NullAssumption DEF ToSet

(* No message is twice on the lists. *)
LEMMA Places ==
    ASSUME TypeOK, OnePlace
    PROVE  /\ \A d \in Lists : \A i, j \in 1..Len(order[d]) : order[d][i] = order[d][j] => i = j
           /\ \A d, e \in Lists : \A i \in 1..Len(order[d]), j \in 1..Len(order[e]) :
                 d # e => order[d][i] # order[e][j]
           /\ \A d \in Lists : \A i \in 1..Len(order[d]) : order[d][i] \in Listed
<1>1. ASSUME NEW d \in Lists
      PROVE  /\ DOMAIN order[d] = 1..Len(order[d])
             /\ ToSet(order[d]) = {order[d][i] : i \in 1..Len(order[d])}
  BY OrderFacts
<1>2. \A d \in Lists : \A i, j \in 1..Len(order[d]) : order[d][i] = order[d][j] => i = j
  BY <1>1 DEF OnePlace, IsInjective
<1>3. ASSUME NEW d \in Lists, NEW e \in Lists, d # e,
             NEW i \in 1..Len(order[d]), NEW j \in 1..Len(order[e])
      PROVE  order[d][i] # order[e][j]
  <2>1. order[d][i] \in ToSet(order[d]) /\ order[e][j] \in ToSet(order[e])
    BY <1>1
  <2>2. QED BY <1>3, <2>1 DEF OnePlace
<1>4. \A d \in Lists : \A i \in 1..Len(order[d]) : order[d][i] \in Listed
  BY <1>1 DEF Listed
<1>5. QED BY <1>2, <1>3, <1>4

(* A list is what it was if its pointers are. *)
LEMMA SameShape ==
    ASSUME TypeOK, NEW d \in Lists, Linked(d),
           UNCHANGED <<first[d], last[d], order[d]>>,
           \A i \in 1..Len(order[d]) : next'[order[d][i]] = next[order[d][i]]
    PROVE  Linked(d)'
<1>1. Len(order[d]) \in Nat /\ (order[d] # <<>> => Len(order[d]) \in 1..Len(order[d]))
  BY OrderFacts
<1>2. QED BY <1>1 DEF Linked

(* Appending a message keeps the pointers those of lists. *)
LEMMA LinkShape ==
    ASSUME TypeOK, ListShape, OnePlace, NEW d \in Lists, NEW m \in Messages \ Listed,
           Link(d, m)
    PROVE  ListShape'
<1> DEFINE s == order[d]
<1>1. /\ s \in Seq(Messages) /\ Len(s) \in Nat
      /\ s = <<>> <=> Len(s) = 0
      /\ \A i \in 1..Len(s) : s[i] \in Messages /\ s[i] # NULL /\ s[i] # m
  BY OrderFacts, Places
<1>2. /\ order'[d] = Append(s, m) /\ last'[d] = m
      /\ Len(order'[d]) = Len(s) + 1
      /\ \A i \in 1..Len(s) : order'[d][i] = s[i]
      /\ order'[d][Len(s) + 1] = m
  <2>1. order'[d] = Append(s, m) /\ last'[d] = m
    BY DEF Link, TypeOK
  <2>2. QED BY <1>1, <2>1, AppendElements
<1>3. Linked(d)
  BY DEF ListShape
<1>4. order'[d] # <<>>
  <2>1. order'[d] \in Seq(Messages) /\ Len(order'[d]) # 0
    BY <1>1, <1>2, AppendElements
  <2>2. QED BY <2>1, EmptySeq
<1>5. CASE s = <<>>
  <2>1. first'[d] = m /\ next'[m] = NULL
    BY <1>3, <1>5 DEF Linked, Link, TypeOK
  <2>2. Linked(d)'
    BY <1>1, <1>2, <1>4, <1>5, <2>1 DEF Linked
  <2>3. ASSUME NEW e \in Lists, e # d PROVE Linked(e)'
    <3>1. UNCHANGED <<first[e], last[e], order[e]>>
      BY <1>3, <1>5, <2>3 DEF Linked, Link, TypeOK
    <3>2. \A i \in 1..Len(order[e]) : next'[order[e][i]] = next[order[e][i]]
      BY <1>3, <1>5, OrderFacts, Places DEF Linked, Link, TypeOK
    <3>3. QED BY <3>1, <3>2, SameShape DEF ListShape
  <2>4. QED BY <2>2, <2>3 DEF ListShape
<1>6. CASE s # <<>>
  <2>1. last[d] = s[Len(s)] /\ first[d] = s[1] /\ Len(s) \in 1..Len(s)
    BY <1>1, <1>3, <1>6 DEF Linked
  <2>2. last[d] # NULL /\ last[d] \in Messages /\ last[d] # m
    BY <1>1, <2>1
  <2>3. next' = [next EXCEPT ![last[d]] = m, ![m] = NULL] /\ first' = first
    BY <2>2 DEF Link
  <2>4. next'[last[d]] = m /\ next'[m] = NULL
    BY <2>2, <2>3 DEF TypeOK
  <2>5. \A x \in Messages : x # m /\ x # last[d] => next'[x] = next[x]
    BY <2>3 DEF TypeOK
  <2>6. \A i \in 1..(Len(s) - 1) : next'[s[i]] = s[i + 1]
    <3>1. TAKE i \in 1..(Len(s) - 1)
    <3>2. i \in 1..Len(s) /\ i # Len(s)
      BY <1>1
    <3>3. s[i] # last[d] /\ s[i] # m /\ s[i] \in Messages
      BY <1>1, <2>1, <3>2, Places
    <3>4. next[s[i]] = s[i + 1]
      BY <1>3 DEF Linked
    <3>5. QED BY <2>5, <3>3, <3>4
  <2>7. \A i \in 1..Len(s) : next'[s[i]] = order'[d][i + 1]
    <3>1. TAKE i \in 1..Len(s)
    <3>2. CASE i = Len(s)
      BY <1>2, <2>1, <2>4, <3>2
    <3>3. CASE i # Len(s)
      <4>1. i \in 1..(Len(s) - 1) /\ i + 1 \in 1..Len(s)
        BY <1>1, <3>3
      <4>2. QED BY <1>2, <2>6, <4>1
    <3>4. QED BY <3>2, <3>3
  <2>8. Linked(d)'
    <3>1. first'[d] = order'[d][1] /\ last'[d] = order'[d][Len(order'[d])]
          /\ next'[order'[d][Len(order'[d])]] = NULL
      BY <1>1, <1>2, <2>1, <2>3, <2>4
    <3>2. \A i \in 1..(Len(order'[d]) - 1) : next'[order'[d][i]] = order'[d][i + 1]
      <4>1. Len(order'[d]) - 1 = Len(s)
        BY <1>1, <1>2
      <4>2. QED BY <1>2, <2>7, <4>1
    <3>3. QED BY <1>4, <3>1, <3>2 DEF Linked
  <2>9. ASSUME NEW e \in Lists, e # d PROVE Linked(e)'
    <3>1. UNCHANGED <<first[e], last[e], order[e]>>
      BY <2>3, <2>9 DEF Link, TypeOK
    <3>2. ASSUME NEW i \in 1..Len(order[e]) PROVE next'[order[e][i]] = next[order[e][i]]
      <4>1. order[e][i] \in Messages /\ order[e][i] # m
        BY OrderFacts, Places
      <4>2. order[e][i] # last[d]
        BY <2>1, <2>9, Places
      <4>3. QED BY <2>5, <4>1, <4>2
    <3>3. QED BY <3>1, <3>2, SameShape DEF ListShape
  <2>10. QED BY <2>8, <2>9 DEF ListShape
<1>7. QED BY <1>5, <1>6

(* Taking the first message keeps the pointers those of lists. *)
LEMMA UnlinkFirstShape ==
    ASSUME TypeOK, ListShape, OnePlace, NEW d \in Lists, first[d] # NULL, UnlinkFirst(d)
    PROVE  /\ ListShape'
           /\ order[d] # <<>> /\ first[d] = order[d][1] /\ 1 \in 1..Len(order[d])
<1> DEFINE s == order[d]
<1>1. /\ s \in Seq(Messages) /\ Len(s) \in Nat
      /\ s = <<>> <=> Len(s) = 0
      /\ \A i \in 1..Len(s) : s[i] \in Messages /\ s[i] # NULL
  BY OrderFacts
<1>2. Linked(d)
  BY DEF ListShape
<1>3. s # <<>> /\ first[d] = s[1] /\ last[d] = s[Len(s)] /\ 1 \in 1..Len(s) /\ Len(s) \in 1..Len(s)
  BY <1>1, <1>2 DEF Linked
<1>4. /\ order'[d] \in Seq(Messages)
      /\ Len(order'[d]) = Len(s) - 1
      /\ \A j \in 1..(Len(s) - 1) : order'[d][j] = s[j + 1]
  <2>1. order'[d] = RemoveAt(s, 1)
    BY DEF UnlinkFirst, TypeOK
  <2>2. /\ RemoveAt(s, 1) \in Seq(Messages)
        /\ Len(RemoveAt(s, 1)) = Len(s) - 1
        /\ \A j \in 1..(Len(s) - 1) : RemoveAt(s, 1)[j] = IF j < 1 THEN s[j] ELSE s[j + 1]
    BY <1>1, <1>3, RemoveAtElements
  <2>3. \A j \in 1..(Len(s) - 1) : ~(j < 1)
    OBVIOUS
  <2>4. QED BY <2>1, <2>2, <2>3
<1>5. /\ first'[d] = next[s[1]]
      /\ last'[d] = IF s[Len(s)] = s[1] THEN NULL ELSE s[Len(s)]
      /\ \A x \in Messages : x # s[1] => next'[x] = next[x]
  BY <1>1, <1>3 DEF UnlinkFirst, TypeOK
<1>6. \A i \in 1..Len(s) : s[i] = s[1] => i = 1
  BY <1>3, Places
<1>7. ASSUME Len(s) = 1 PROVE Linked(d)'
  <2>1. order'[d] = <<>>
    BY <1>4, <1>7, EmptySeq
  <2>2. first'[d] = NULL /\ last'[d] = NULL
    BY <1>2, <1>3, <1>5, <1>7 DEF Linked
  <2>3. QED BY <2>1, <2>2, <1>4, <1>7 DEF Linked
<1>8. ASSUME Len(s) # 1 PROVE Linked(d)'
  <2>1. /\ Len(s) - 1 \in 1..(Len(s) - 1) /\ Len(s) - 1 + 1 = Len(s)
        /\ 1 \in 1..(Len(s) - 1) /\ 1 + 1 = 2
    <3> DEFINE n == Len(s)
    <3>1. n \in Nat /\ 1 \in 1..n /\ n # 1
      BY <1>1, <1>3, <1>8
    <3> HIDE DEF n
    <3>2. n - 1 \in 1..(n - 1) /\ 1 \in 1..(n - 1) /\ n - 1 + 1 = n
      BY <3>1
    <3>3. QED BY <3>2 DEF n
  <2>2. order'[d][Len(order'[d])] = s[Len(s)] /\ order'[d][1] = s[2]
    BY <1>4, <2>1
  <2>3. first'[d] = order'[d][1]
    BY <1>2, <1>5, <2>1, <2>2 DEF Linked
  <2>4. s[Len(s)] # s[1]
    BY <1>3, <1>6, <1>8
  <2>5. last'[d] = order'[d][Len(order'[d])] /\ next'[s[Len(s)]] = NULL
    BY <1>1, <1>2, <1>3, <1>5, <2>2, <2>4 DEF Linked
  <2>6. \A j \in 1..(Len(order'[d]) - 1) : next'[order'[d][j]] = order'[d][j + 1]
    <3>1. TAKE j \in 1..(Len(order'[d]) - 1)
    <3>2. /\ j \in 1..(Len(s) - 1) /\ j + 1 \in 1..(Len(s) - 1) /\ j + 1 \in 1..Len(s)
          /\ j + 1 # 1
      BY <1>1, <1>4
    <3>3. next[s[j + 1]] = s[j + 1 + 1] /\ s[j + 1] # s[1] /\ s[j + 1] \in Messages
      BY <1>1, <1>2, <1>6, <3>2 DEF Linked
    <3>4. QED BY <1>4, <1>5, <3>2, <3>3
  <2>7. order'[d] # <<>>
    BY <1>1, <1>4, <1>8, <2>1, EmptySeq
  <2>8. QED BY <2>2, <2>3, <2>5, <2>6, <2>7 DEF Linked
<1>9. Linked(d)'
  BY <1>7, <1>8
<1>10. ASSUME NEW e \in Lists, e # d PROVE Linked(e)'
  <2>1. UNCHANGED <<first[e], last[e], order[e]>>
    BY <1>10 DEF UnlinkFirst, TypeOK
  <2>2. ASSUME NEW i \in 1..Len(order[e]) PROVE next'[order[e][i]] = next[order[e][i]]
    <3>1. order[e][i] \in Messages /\ order[e][i] # s[1]
      BY <1>3, <1>10, OrderFacts, Places
    <3>2. QED BY <1>5, <3>1
  <2>3. QED BY <2>1, <2>2, SameShape DEF ListShape
<1>11. QED BY <1>3, <1>9, <1>10 DEF ListShape

(* So does taking the message behind the k-th. *)
LEMMA UnlinkShape ==
    ASSUME TypeOK, ListShape, OnePlace, NEW d \in Lists,
           NEW k \in 1..(Len(order[d]) - 1),
           Unlink(d, order[d][k + 1], order[d][k])
    PROVE  /\ ListShape'
           /\ order' = [order EXCEPT ![d] = RemoveAt(@, k + 1)]
<1> DEFINE s == order[d]
           n == Len(s)
<1>1. /\ s \in Seq(Messages) /\ n \in Nat
      /\ s = <<>> <=> n = 0
      /\ \A i \in 1..n : s[i] \in Messages /\ s[i] # NULL
  BY OrderFacts
<1>2. Linked(d)
  BY DEF ListShape
<1>3. k \in 1..n /\ k + 1 \in 1..n /\ n \in 1..n /\ s # <<>>
  BY <1>1
<1>4. \A i, j \in 1..n : s[i] = s[j] => i = j
  BY Places
<1>5. order' = [order EXCEPT ![d] = RemoveAt(@, k + 1)]
  <2>1. PICK i \in 1..n : s[i] = s[k + 1] /\ order' = [order EXCEPT ![d] = RemoveAt(@, i)]
    BY DEF Unlink
  <2>2. i = k + 1
    BY <1>3, <1>4, <2>1
  <2>3. QED BY <2>1, <2>2
<1>6. /\ order'[d] \in Seq(Messages)
      /\ Len(order'[d]) = n - 1
      /\ \A j \in 1..(n - 1) : order'[d][j] = IF j < k + 1 THEN s[j] ELSE s[j + 1]
  <2>1. order'[d] = RemoveAt(s, k + 1)
    BY <1>5 DEF TypeOK
  <2> HIDE DEF s
  <2>2. /\ RemoveAt(s, k + 1) \in Seq(Messages)
        /\ Len(RemoveAt(s, k + 1)) = Len(s) - 1
        /\ \A j \in 1..(Len(s) - 1) :
              RemoveAt(s, k + 1)[j] = IF j < k + 1 THEN s[j] ELSE s[j + 1]
    BY <1>1, <1>3, RemoveAtElements
  <2>3. QED BY <2>1, <2>2
<1>7. /\ first'[d] = first[d]
      /\ last'[d] = IF last[d] = s[k + 1] THEN s[k] ELSE last[d]
      /\ next'[s[k]] = next[s[k + 1]]
      /\ \A x \in Messages : x # s[k] /\ x # s[k + 1] => next'[x] = next[x]
  <2>1. s[k] # s[k + 1]
    BY <1>3, <1>4
  <2>2. QED BY <1>1, <1>3, <2>1 DEF Unlink, TypeOK
<1>8. order'[d] # <<>> /\ order'[d][1] = s[1]
  <2>1. 1 \in 1..(n - 1) /\ 1 < k + 1 /\ n - 1 # 0
    BY <1>1
  <2>2. QED BY <1>6, <2>1, EmptySeq
<1>9. first'[d] = order'[d][1]
  BY <1>2, <1>3, <1>7, <1>8 DEF Linked
<1>10. \A i \in 1..(n - 1) : next[s[i]] = s[i + 1]
  BY <1>2 DEF Linked
<1>11. last[d] = s[n] /\ next[s[n]] = NULL
  BY <1>2, <1>3 DEF Linked
<1>12. last'[d] = order'[d][n - 1] /\ next'[order'[d][n - 1]] = NULL
  <2>1. n - 1 \in 1..(n - 1)
    BY <1>1
  <2>2. CASE k + 1 = n
    <3>1. order'[d][n - 1] = s[k]
      BY <1>1, <1>6, <2>1, <2>2
    <3>2. QED BY <1>7, <1>11, <2>2, <3>1
  <2>3. CASE k + 1 # n
    <3>1. order'[d][n - 1] = s[n]
      <4>1. ~(n - 1 < k + 1) /\ n - 1 + 1 = n
        BY <1>1, <1>3, <2>3
      <4>2. QED BY <1>6, <2>1, <4>1
    <3>2. s[n] # s[k + 1] /\ s[n] # s[k]
      BY <1>1, <1>3, <1>4, <2>3
    <3>3. QED BY <1>1, <1>3, <1>7, <1>11, <3>1, <3>2
  <2>4. QED BY <2>2, <2>3
<1>13. ASSUME NEW j \in 1..(n - 1 - 1) PROVE next'[order'[d][j]] = order'[d][j + 1]
  <2>1. j \in 1..(n - 1) /\ j + 1 \in 1..(n - 1) /\ j \in 1..n /\ j + 1 \in 1..n
    BY <1>1
  <2>2. CASE j < k
    <3>1. order'[d][j] = s[j] /\ order'[d][j + 1] = s[j + 1]
      BY <1>1, <1>6, <2>1, <2>2
    <3>2. s[j] # s[k] /\ s[j] # s[k + 1] /\ s[j] \in Messages
      BY <1>1, <1>3, <1>4, <2>1, <2>2
    <3>3. QED BY <1>7, <1>10, <2>1, <3>1, <3>2
  <2>3. CASE j = k
    <3>1. order'[d][j] = s[k] /\ order'[d][j + 1] = s[k + 1 + 1]
      <4>1. j < k + 1 /\ ~(j + 1 < k + 1)
        BY <1>1, <2>3
      <4>2. QED BY <1>6, <2>1, <2>3, <4>1
    <3>2. k + 1 \in 1..(n - 1)
      BY <1>1, <2>1, <2>3
    <3>3. QED BY <1>7, <1>10, <3>1, <3>2
  <2>4. CASE j > k
    <3>1. order'[d][j] = s[j + 1] /\ order'[d][j + 1] = s[j + 1 + 1]
      BY <1>1, <1>6, <2>1, <2>4
    <3>2. s[j + 1] # s[k] /\ s[j + 1] # s[k + 1] /\ s[j + 1] \in Messages
      BY <1>1, <1>3, <1>4, <2>1, <2>4
    <3>3. QED BY <1>7, <1>10, <2>1, <3>1, <3>2
  <2>5. QED BY <1>1, <2>1, <2>2, <2>3, <2>4
<1>14. Linked(d)'
  BY <1>6, <1>8, <1>9, <1>12, <1>13 DEF Linked
<1>15. ASSUME NEW e \in Lists, e # d PROVE Linked(e)'
  <2>1. UNCHANGED <<first[e], last[e], order[e]>>
    BY <1>5, <1>15 DEF Unlink, TypeOK
  <2>2. ASSUME NEW i \in 1..Len(order[e]) PROVE next'[order[e][i]] = next[order[e][i]]
    <3>1. order[e][i] \in Messages /\ order[e][i] # s[k] /\ order[e][i] # s[k + 1]
      BY <1>3, <1>15, OrderFacts, Places
    <3>2. QED BY <1>7, <3>1
  <2>3. QED BY <2>1, <2>2, SameShape DEF ListShape
<1>16. QED BY <1>5, <1>14, <1>15 DEF ListShape

(* What does not touch the lists keeps the pointers those of lists. *)
LEMMA QuietShape ==
    ASSUME TypeOK, ListShape, UNCHANGED <<first, last, order>>,
           \A x \in Listed : next'[x] = next[x]
    PROVE  ListShape'
<1> SUFFICES ASSUME NEW d \in Lists PROVE Linked(d)'
  BY DEF ListShape
<1>1. ASSUME NEW i \in 1..Len(order[d]) PROVE order[d][i] \in Listed
  <2>1. order[d][i] \in ToSet(order[d])
    BY OrderFacts
  <2>2. QED BY <2>1 DEF Listed
<1>2. Linked(d) /\ UNCHANGED <<first[d], last[d], order[d]>>
  BY DEF ListShape
<1>3. QED BY <1>1, <1>2, SameShape

-----------------------------------------------------------------------------
(* Which messages are on the lists.                                        *)

NoSharing ==
    /\ order \in [Lists -> Seq(Messages)]
    /\ \A d \in Lists : IsInjective(order[d])
    /\ \A d, e \in Lists : d # e => ToSet(order[d]) \cap ToSet(order[e]) = {}

LEMMA LinkPlaces ==
    ASSUME TypeOK, OnePlace, NEW d \in Lists, NEW m \in Messages \ Listed, Link(d, m)
    PROVE  NoSharing' /\ Listed' = Listed \cup {m}
<1>1. /\ order[d] \in Seq(Messages) /\ m \notin ToSet(order[d])
      /\ order' = [order EXCEPT ![d] = Append(@, m)]
  BY DEF TypeOK, Listed, Link
<1>2. /\ Append(order[d], m) \in Seq(Messages)
      /\ ToSet(Append(order[d], m)) = ToSet(order[d]) \cup {m}
      /\ IsInjective(Append(order[d], m))
  BY <1>1, AppendElements, AppendSet DEF OnePlace
<1>3. order' \in [Lists -> Seq(Messages)]
  BY <1>1, <1>2 DEF TypeOK
<1>4. \A e \in Lists : order'[e] = IF e = d THEN Append(order[d], m) ELSE order[e]
  BY <1>1 DEF TypeOK
<1>5. \A e \in Lists : ToSet(order'[e]) = IF e = d THEN ToSet(order[e]) \cup {m} ELSE ToSet(order[e])
  BY <1>2, <1>4
<1>6. \A e \in Lists : IsInjective(order'[e])
  BY <1>2, <1>4 DEF OnePlace
<1>7. \A e \in Lists : m \notin ToSet(order[e])
  BY DEF Listed
<1>8. \A e, f \in Lists : e # f => ToSet(order'[e]) \cap ToSet(order'[f]) = {}
  <2>1. \A e, f \in Lists : e # f => ToSet(order[e]) \cap ToSet(order[f]) = {}
    BY DEF OnePlace
  <2> SUFFICES ASSUME NEW e \in Lists, NEW f \in Lists, e # f
               PROVE  ToSet(order'[e]) \cap ToSet(order'[f]) = {}
    OBVIOUS
  <2>2. ~(e = d /\ f = d)
    OBVIOUS
  <2>3. QED BY <1>5, <1>7, <2>1, <2>2
<1>9. Listed' = Listed \cup {m}
  BY <1>5 DEF Listed
<1>10. QED BY <1>3, <1>6, <1>8, <1>9 DEF NoSharing

LEMMA DropPlaces ==
    ASSUME TypeOK, OnePlace, NEW d \in Lists, NEW i \in 1..Len(order[d]),
           order' = [order EXCEPT ![d] = RemoveAt(@, i)]
    PROVE  /\ NoSharing'
           /\ order[d][i] \in Listed /\ order[d][i] \in Messages
           /\ Listed' = Listed \ {order[d][i]}
<1> DEFINE m == order[d][i]
<1>1. order[d] \in Seq(Messages) /\ m \in ToSet(order[d]) /\ m \in Messages
  BY OrderFacts
<1>2. /\ RemoveAt(order[d], i) \in Seq(Messages)
      /\ ToSet(RemoveAt(order[d], i)) = ToSet(order[d]) \ {m}
      /\ IsInjective(RemoveAt(order[d], i))
  BY <1>1, RemoveAtElements, RemoveAtSet DEF OnePlace
<1>3. order' \in [Lists -> Seq(Messages)]
  BY <1>2 DEF TypeOK
<1>4. \A e \in Lists : order'[e] = IF e = d THEN RemoveAt(order[d], i) ELSE order[e]
  BY DEF TypeOK
<1>5. /\ ToSet(order'[d]) = ToSet(order[d]) \ {m}
      /\ \A e \in Lists : e # d => ToSet(order'[e]) = ToSet(order[e])
  BY <1>2, <1>4
<1>6. \A e \in Lists : IsInjective(order'[e])
  BY <1>2, <1>4 DEF OnePlace
<1>7. \A e \in Lists : e # d => m \notin ToSet(order[e])
  BY <1>1 DEF OnePlace
<1> HIDE DEF m
<1>8. ASSUME NEW e \in Lists, NEW f \in Lists, e # f
      PROVE  ToSet(order'[e]) \cap ToSet(order'[f]) = {}
  <2>1. ToSet(order'[e]) \subseteq ToSet(order[e]) /\ ToSet(order'[f]) \subseteq ToSet(order[f])
    BY <1>5
  <2>2. QED BY <1>8, <2>1 DEF OnePlace
<1>9. Listed' = Listed \ {m}
  <2>1. \A x : x \in Listed' <=> \E e \in Lists : x \in ToSet(order'[e])
    BY DEF Listed
  <2>2. \A x : x \in Listed <=> \E e \in Lists : x \in ToSet(order[e])
    BY DEF Listed
  <2>3. \A x : x \in Listed' <=> x \in Listed /\ x # m
    <3>1. ASSUME NEW x, NEW e \in Lists, x \in ToSet(order'[e]) PROVE x \in Listed /\ x # m
      BY <1>5, <1>7, <2>2, <3>1
    <3>2. ASSUME NEW x, NEW e \in Lists, x \in ToSet(order[e]), x # m PROVE x \in Listed'
      BY <1>5, <2>1, <3>2
    <3>3. QED BY <2>1, <2>2, <3>1, <3>2
  <2>4. QED BY <2>3
<1>10. m \in Listed
  BY <1>1 DEF Listed
<1>11. QED BY <1>1, <1>3, <1>6, <1>8, <1>9, <1>10 DEF NoSharing, m

-----------------------------------------------------------------------------
(* What an iteration owes.                                                 *)

(* Messages that are appended are in front of every iterator. *)
LEMMA LinkIter ==
    ASSUME TypeOK, IterInv, NEW d \in Lists, NEW m \in Messages, Link(d, m),
           UNCHANGED <<it, pending, sound>>
    PROVE  IterInv'
<1> SUFFICES ASSUME NEW e \in Lists, sound[e], it[e] # NULL
             PROVE  \E i \in 1..Len(order'[e]) :
                       /\ order'[e][i] = it[e]
                       /\ pending[e] \subseteq {order'[e][j] : j \in (i + 1)..Len(order'[e])}
  BY DEF IterInv
<1>1. PICK i \in 1..Len(order[e]) :
         /\ order[e][i] = it[e]
         /\ pending[e] \subseteq {order[e][j] : j \in (i + 1)..Len(order[e])}
  BY DEF IterInv
<1>2. /\ Len(order[e]) \in Nat /\ Len(order'[e]) \in Nat /\ Len(order[e]) <= Len(order'[e])
      /\ \A j \in 1..Len(order[e]) : order'[e][j] = order[e][j]
  <2>1. order[e] \in Seq(Messages) /\ Len(order[e]) \in Nat
    BY OrderFacts
  <2>2. order'[e] = IF e = d THEN Append(order[e], m) ELSE order[e]
    BY DEF Link, TypeOK
  <2>3. CASE e = d
    BY <2>1, <2>2, <2>3, AppendElements
  <2>4. CASE e # d
    BY <2>1, <2>2, <2>4
  <2>5. QED BY <2>3, <2>4
<1>3. i \in 1..Len(order'[e]) /\ order'[e][i] = it[e]
  BY <1>1, <1>2
<1>4. ASSUME NEW x \in pending[e]
      PROVE \E j \in (i + 1)..Len(order'[e]) : x = order'[e][j]
  <2>1. PICK j \in (i + 1)..Len(order[e]) : x = order[e][j]
    BY <1>1
  <2>2. j \in 1..Len(order[e]) /\ j \in (i + 1)..Len(order'[e])
    BY <1>2
  <2>3. QED BY <1>2, <2>1, <2>2
<1>5. QED BY <1>3, <1>4

(* A message that leaves is owed no longer; unless the iterator stands on  *)
(* it, what is owed stays in front.                                        *)
LEMMA DropIter ==
    ASSUME TypeOK, OnePlace, IterInv, NEW d \in Lists, NEW k \in 1..Len(order[d]),
           order' = [order EXCEPT ![d] = RemoveAt(@, k)],
           Forget(d, order[d][k]),
           \A e \in Lists : it'[e] \in {it[e], NULL}
    PROVE  IterInv'
<1> SUFFICES ASSUME NEW e \in Lists, sound'[e], it'[e] # NULL
             PROVE  \E i \in 1..Len(order'[e]) :
                       /\ order'[e][i] = it'[e]
                       /\ pending'[e] \subseteq {order'[e][j] : j \in (i + 1)..Len(order'[e])}
  BY DEF IterInv
<1>1. it'[e] = it[e] /\ sound[e]
  BY DEF Forget, TypeOK
<1>2. PICK i \in 1..Len(order[e]) :
         /\ order[e][i] = it[e]
         /\ pending[e] \subseteq {order[e][j] : j \in (i + 1)..Len(order[e])}
  BY <1>1 DEF IterInv
<1>3. CASE e # d
  <2>1. order'[e] = order[e] /\ pending'[e] = pending[e]
    BY <1>3 DEF Forget, TypeOK
  <2>2. QED BY <1>1, <1>2, <2>1
<1>4. CASE e = d
  <2> DEFINE n == Len(order[d])
             s == order[d]
             r == order'[d]
  <2>1. /\ n \in Nat /\ s \in Seq(Messages)
        /\ i \in 1..n /\ s[i] = it[e] /\ \A j, l \in 1..n : s[j] = s[l] => j = l
    BY <1>2, <1>4, OrderFacts, Places
  <2>2. pending'[e] = pending[e] \ {s[k]} /\ it[e] # s[k]
    BY <1>4 DEF Forget, TypeOK
  <2>3. /\ Len(r) = n - 1
        /\ \A j \in 1..(n - 1) : r[j] = IF j < k THEN s[j] ELSE s[j + 1]
    <3>1. r = RemoveAt(s, k)
      BY DEF TypeOK
    <3>2. /\ Len(RemoveAt(s, k)) = n - 1
          /\ \A j \in 1..(n - 1) : RemoveAt(s, k)[j] = IF j < k THEN s[j] ELSE s[j + 1]
      <4>1. s \in Seq(Messages) /\ k \in 1..Len(s) /\ n = Len(s)
        BY <2>1
      <4> HIDE DEF s, n
      <4>2. QED BY <4>1, RemoveAtElements
    <3>3. QED BY <3>1, <3>2
  <2> HIDE DEF r
  <2>4. ASSUME NEW l \in 1..n, l # k
        PROVE  LET p == IF l < k THEN l ELSE l - 1 IN p \in 1..(n - 1) /\ r[p] = s[l]
    <3>1. CASE l < k
      <4>1. l \in 1..(n - 1)
        BY <2>1, <3>1
      <4>2. QED BY <2>3, <3>1, <4>1
    <3>2. CASE ~(l < k)
      <4>1. l - 1 \in 1..(n - 1) /\ ~(l - 1 < k) /\ l - 1 + 1 = l
        BY <2>1, <2>4, <3>2
      <4>2. QED BY <2>3, <3>2, <4>1
    <3>3. QED BY <3>1, <3>2
  <2>5. i # k
    BY <2>1, <2>2
  <2> DEFINE q == IF i < k THEN i ELSE i - 1
  <2>6. q \in 1..(n - 1) /\ r[q] = it'[e]
    BY <1>1, <2>1, <2>4, <2>5
  <2>7. ASSUME NEW x \in pending'[e]
        PROVE  \E j \in (q + 1)..(n - 1) : x = r[j]
    <3>1. PICK l \in (i + 1)..n : x = s[l]
      BY <1>2, <1>4, <2>2
    <3>2. x # s[k] /\ l # k
      BY <2>2, <3>1
    <3> DEFINE p == IF l < k THEN l ELSE l - 1
    <3>3. l \in 1..n
      BY <2>1
    <3>4. p \in 1..(n - 1) /\ r[p] = s[l]
      BY <2>4, <3>2, <3>3
    <3>5. p \in (q + 1)..(n - 1)
      BY <2>1, <2>5, <3>2, <3>3, <3>4
    <3>6. QED BY <3>1, <3>4, <3>5
  <2>8. r = order'[e]
    BY <1>4 DEF r
  <2>9. Len(order'[e]) = n - 1 /\ q \in 1..Len(order'[e]) /\ order'[e][q] = it'[e]
    BY <2>3, <2>6, <2>8
  <2>10. pending'[e] \subseteq {order'[e][j] : j \in (q + 1)..Len(order'[e])}
    BY <2>7, <2>8, <2>9
  <2>11. QED BY <2>9, <2>10
<1>5. QED BY <1>3, <1>4

(* The rest does not concern an iteration. *)
LEMMA QuietIter ==
    ASSUME IterInv, UNCHANGED <<order, pending, sound>>,
           \A e \in Lists : it'[e] \in {it[e], NULL}
    PROVE  IterInv'
BY DEF IterInv

-----------------------------------------------------------------------------
(* The steps that leave the lists as they are.                             *)

LEMMA QuietPlaces ==
    ASSUME TypeOK, OnePlace, UNCHANGED order
    PROVE  NoSharing' /\ Listed' = Listed
<1>1. order \in [Lists -> Seq(Messages)]
  BY DEF TypeOK
<1>2. QED BY <1>1 DEF OnePlace, NoSharing, Listed

(* One place for every message, from what a step does to the places. *)
LEMMA PlacesHold ==
    ASSUME NoSharing', held' \cap Listed' = {}, Lent' \cap (held' \cup Listed') = {}
    PROVE  OnePlace'
BY DEF NoSharing, OnePlace

LEMMA Typing ==
    ASSUME LInv
    PROVE  /\ msgs \subseteq Messages /\ objs \subseteq Payloads
           /\ owned \subseteq objs /\ held \subseteq msgs /\ Listed \subseteq msgs
           /\ Lent \subseteq msgs
           /\ \A m \in msgs : payload[m] # NULL => payload[m] \in objs
           /\ TypeOK /\ ListShape /\ OnePlace /\ Ownership /\ CallInv /\ IterInv
BY DEF LInv, TypeOK, Ownership

LEMMA InitStep == ASSUME Init PROVE LInv
<1>1. TypeOK
  BY EmptySeq DEF Init, TypeOK, Pointers, Ops, Idle
<1>2. \A d \in Lists : order[d] = <<>> /\ ToSet(order[d]) = {} /\ Len(order[d]) = 0
  BY DEF Init, ToSet
<1>3. ListShape
  BY <1>2 DEF Init, ListShape, Linked
<1>4. Listed = {}
  BY <1>2 DEF Listed
<1>5. Ownership
  <2>1. \A d \in Lists : IsInjective(order[d])
    BY <1>2 DEF IsInjective
  <2>2. OnePlace
    BY <1>2, <1>4, <2>1 DEF Init, OnePlace, Lent, Idle
  <2>3. QED BY <1>4, <2>2 DEF Init, Ownership, Lent, Idle
<1>6. CallInv /\ IterInv
  BY DEF Init, CallInv, WalkInv, IterInv, Idle
<1>7. QED BY <1>1, <1>3, <1>5, <1>6 DEF LInv

LEMMA ObjectNewStep ==
    ASSUME LInv, NEW p \in Payloads, ObjectNew(p) PROVE LInv'
<1>1. TypeOK'
  BY Typing DEF ObjectNew, TypeOK, ghosts
<1>2. ListShape' /\ NoSharing' /\ Listed' = Listed /\ Lent' = Lent
  BY Typing, QuietShape, QuietPlaces DEF ObjectNew, ghosts, Lent
<1>3. OnePlace'
  BY Typing, <1>2, PlacesHold DEF ObjectNew, OnePlace
<1>4. Ownership'
  BY Typing, <1>2, <1>3, NullAssumption DEF ObjectNew, Ownership
<1>5. CallInv' /\ IterInv'
  BY Typing, QuietIter DEF ObjectNew, ghosts, CallInv, WalkInv, Idle
<1>6. QED BY <1>1, <1>2, <1>4, <1>5 DEF LInv

LEMMA ObjectFreeStep ==
    ASSUME LInv, NEW p \in Payloads, ObjectFree(p) PROVE LInv'
<1>1. TypeOK'
  BY Typing DEF ObjectFree, TypeOK, ghosts
<1>2. ListShape' /\ NoSharing' /\ Listed' = Listed /\ Lent' = Lent
  BY Typing, QuietShape, QuietPlaces DEF ObjectFree, ghosts, Lent
<1>3. OnePlace'
  BY Typing, <1>2, PlacesHold DEF ObjectFree, OnePlace
<1>4. Ownership'
  BY Typing, <1>2, <1>3, NullAssumption DEF ObjectFree, Ownership
<1>5. CallInv' /\ IterInv'
  BY Typing, QuietIter DEF ObjectFree, ghosts, CallInv, WalkInv, Idle
<1>6. QED BY <1>1, <1>2, <1>4, <1>5 DEF LInv

LEMMA MessageNewStep ==
    ASSUME LInv, NEW m \in Messages, NEW p \in Payloads \cup {NULL}, MessageNew(m, p)
    PROVE  LInv'
<1>1. TypeOK'
  BY Typing DEF MessageNew, Allocate, TypeOK, ghosts
<1>2. ListShape' /\ NoSharing' /\ Listed' = Listed /\ Lent' = Lent
  BY Typing, QuietShape, QuietPlaces DEF MessageNew, ghosts, Lent
<1>3. OnePlace'
  BY Typing, <1>2, PlacesHold DEF MessageNew, Allocate, OnePlace
<1>4. Ownership'
  <2>1. /\ m \notin msgs /\ msgs' = msgs \cup {m} /\ held' = held \cup {m}
        /\ payload'[m] = p /\ \A n \in msgs : payload'[n] = payload[n]
        /\ owned' = owned \ {p} /\ objs' = objs /\ p \in owned \cup {NULL}
    BY Typing DEF MessageNew, Allocate, TypeOK
  <2>2. \A n \in msgs : payload[n] # NULL => payload[n] # p
    BY <2>1 DEF Ownership, LInv
  <2>3. msgs' = held' \cup Listed' \cup Lent'
    BY <1>2, <2>1, Typing DEF Ownership
  <2>4. objs' = owned' \cup ({payload'[n] : n \in msgs'} \ {NULL})
    BY <2>1, Typing, NullAssumption DEF Ownership
  <2>5. \A k, n \in msgs' : payload'[k] = payload'[n] /\ payload'[k] # NULL => k = n
    BY <2>1, <2>2, Typing DEF Ownership
  <2>6. \A n \in msgs' : payload'[n] \notin owned'
    BY <2>1, Typing, NullAssumption DEF Ownership
  <2>7. QED BY <1>3, <2>3, <2>4, <2>5, <2>6 DEF Ownership
<1>5. CallInv' /\ IterInv'
  BY Typing, QuietIter DEF MessageNew, ghosts, CallInv, WalkInv, Idle
<1>6. QED BY <1>1, <1>2, <1>4, <1>5 DEF LInv

LEMMA MessageFreeStep ==
    ASSUME LInv, NEW m \in Messages, MessageFree(m) PROVE LInv'
<1>1. TypeOK'
  BY Typing DEF MessageFree, Release, TypeOK, ghosts, Pointers
<1>2. ListShape' /\ NoSharing' /\ Listed' = Listed /\ Lent' = Lent
  <2>1. m \notin Listed
    BY Typing DEF MessageFree, OnePlace
  <2>2. \A x \in Listed : next'[x] = next[x]
    BY <2>1, Typing DEF MessageFree, TypeOK
  <2>3. QED BY <2>2, Typing, QuietShape, QuietPlaces DEF MessageFree, ghosts, Lent
<1>3. OnePlace'
  BY Typing, <1>2, PlacesHold DEF MessageFree, OnePlace
<1>4. Ownership'
  <2>1. /\ m \in msgs /\ msgs' = msgs \ {m} /\ held' = held \ {m}
        /\ \A n \in msgs' : payload'[n] = payload[n]
        /\ owned' = owned /\ objs' = objs \ {payload[m]}
    BY Typing DEF MessageFree, Release, TypeOK
  <2>2. msgs' = held' \cup Listed' \cup Lent'
    <3>1. m \in held /\ m \notin Listed \cup Lent
      BY Typing DEF MessageFree, OnePlace
    <3>2. QED BY <1>2, <2>1, <3>1, Typing DEF Ownership
  <2>3. payload[m] \notin owned
    BY <2>1, Typing DEF Ownership
  <2>4. \A n \in msgs' : payload[n] # NULL => payload[n] # payload[m]
    BY <2>1, Typing DEF Ownership
  <2>5. objs' = owned' \cup ({payload'[n] : n \in msgs'} \ {NULL})
    BY <2>1, <2>3, <2>4, Typing DEF Ownership
  <2>6. \A k, n \in msgs' : payload'[k] = payload'[n] /\ payload'[k] # NULL => k = n
    BY <2>1, Typing DEF Ownership
  <2>7. \A n \in msgs' : payload'[n] \notin owned'
    BY <2>1, Typing DEF Ownership
  <2>8. QED BY <1>3, <2>2, <2>5, <2>6, <2>7 DEF Ownership
<1>5. CallInv' /\ IterInv'
  BY Typing, QuietIter DEF MessageFree, ghosts, CallInv, WalkInv, Idle
<1>6. QED BY <1>1, <1>2, <1>4, <1>5 DEF LInv

LEMMA PayloadRemoveStep ==
    ASSUME LInv, NEW m \in Messages, PayloadRemove(m) PROVE LInv'
<1>1. TypeOK'
  BY Typing DEF PayloadRemove, TypeOK, ghosts
<1>2. ListShape' /\ NoSharing' /\ Listed' = Listed /\ Lent' = Lent
  BY Typing, QuietShape, QuietPlaces DEF PayloadRemove, ghosts, Lent
<1>3. OnePlace'
  BY Typing, <1>2, PlacesHold DEF PayloadRemove, OnePlace
<1>4. Ownership'
  <2>1. /\ m \in msgs /\ msgs' = msgs /\ held' = held /\ payload[m] # NULL
        /\ payload'[m] = NULL /\ \A n \in msgs : n # m => payload'[n] = payload[n]
        /\ owned' = owned \cup {payload[m]} /\ objs' = objs
    BY Typing DEF PayloadRemove, TypeOK
  <2>2. msgs' = held' \cup Listed' \cup Lent'
    BY <1>2, <2>1, Typing DEF Ownership
  <2>3. objs' = owned' \cup ({payload'[n] : n \in msgs'} \ {NULL})
    BY <2>1, Typing DEF Ownership
  <2>4. \A k, n \in msgs' : payload'[k] = payload'[n] /\ payload'[k] # NULL => k = n
    BY <2>1, Typing DEF Ownership
  <2>5. \A n \in msgs' : payload'[n] \notin owned'
    BY <2>1, Typing, NullAssumption DEF Ownership
  <2>6. QED BY <1>3, <2>2, <2>3, <2>4, <2>5 DEF Ownership
<1>5. CallInv' /\ IterInv'
  BY Typing, QuietIter DEF PayloadRemove, ghosts, CallInv, WalkInv, Idle
<1>6. QED BY <1>1, <1>2, <1>4, <1>5 DEF LInv

LEMMA RequestBeginStep ==
    ASSUME LInv, NEW m \in Messages, NEW p \in Payloads, RequestBegin(m, p) PROVE LInv'
<1>1. TypeOK'
  BY Typing DEF RequestBegin, Allocate, TypeOK, ghosts, Idle, Ops, Pointers
<1>2. ListShape' /\ NoSharing' /\ Listed' = Listed
  BY Typing, QuietShape, QuietPlaces DEF RequestBegin, ghosts
<1>3. Lent = {} /\ Lent' = {m}
  BY DEF RequestBegin, Lent, Idle
<1>4. OnePlace'
  BY Typing, <1>2, <1>3, PlacesHold DEF RequestBegin, Allocate, OnePlace
<1>5. /\ m \notin msgs /\ msgs' = msgs \cup {m} /\ held' = held
      /\ payload'[m] = p /\ \A n \in msgs : payload'[n] = payload[n]
      /\ owned' = owned \ {p} /\ objs' = objs /\ p \in owned
  BY Typing DEF RequestBegin, Allocate, TypeOK
<1>6. Ownership'
  <2>1. \A n \in msgs : payload[n] # NULL => payload[n] # p
    BY <1>5 DEF Ownership, LInv
  <2>2. msgs' = held' \cup Listed' \cup Lent'
    BY <1>2, <1>3, <1>5, Typing DEF Ownership
  <2>3. objs' = owned' \cup ({payload'[n] : n \in msgs'} \ {NULL})
    BY <1>5, Typing, NullAssumption DEF Ownership
  <2>4. \A k, n \in msgs' : payload'[k] = payload'[n] /\ payload'[k] # NULL => k = n
    BY <1>5, <2>1, Typing DEF Ownership
  <2>5. \A n \in msgs' : payload'[n] \notin owned'
    BY <1>5, Typing, NullAssumption DEF Ownership
  <2>6. QED BY <1>4, <2>2, <2>3, <2>4, <2>5 DEF Ownership
<1>7. CallInv' /\ IterInv'
  <2>1. call' = [Idle EXCEPT !.op = "request", !.msg = m] /\ payload'[m] # NULL
    BY <1>5, NullAssumption DEF RequestBegin
  <2>2. CallInv'
    BY <2>1 DEF CallInv, WalkInv, Idle
  <2>3. IterInv'
    BY Typing, QuietIter DEF RequestBegin, ghosts
  <2>4. QED BY <2>2, <2>3
<1>8. QED BY <1>1, <1>2, <1>6, <1>7 DEF LInv

LEMMA RequestEndStep ==
    ASSUME LInv, RequestEnd PROVE LInv'
<1> DEFINE m == call.msg
<1>1. /\ m \in Messages /\ payload[m] # NULL /\ Lent = {m} /\ m \in msgs
      /\ Lent' = {}
  BY Typing DEF RequestEnd, CallInv, Lent, Idle
<1>2. /\ msgs' = msgs \ {m} /\ held' = held
      /\ payload' = [payload EXCEPT ![m] = NULL]
      /\ owned' = owned \cup {payload[m]} /\ objs' = objs
      /\ call' = Idle /\ UNCHANGED <<first, last, next, ret, it, order, pending, sound>>
  BY DEF RequestEnd, ghosts
<1> HIDE DEF m
<1>3. TypeOK'
  BY <1>1, <1>2, Typing DEF TypeOK, Idle, Ops, Pointers
<1>4. ListShape' /\ NoSharing' /\ Listed' = Listed
  BY <1>2, Typing, QuietShape, QuietPlaces
<1>5. OnePlace'
  BY Typing, <1>1, <1>2, <1>4, PlacesHold DEF OnePlace
<1>6. Ownership'
  <2>1. \A n \in msgs' : payload'[n] = payload[n] /\ payload[n] # payload[m]
    <3>1. \A n \in msgs' : payload'[n] = payload[n] /\ n # m /\ n \in msgs
      BY <1>2, Typing DEF TypeOK
    <3>2. QED BY <1>1, <3>1, Typing DEF Ownership
  <2>2. msgs' = held' \cup Listed' \cup Lent'
    BY <1>1, <1>2, <1>4, Typing DEF Ownership, OnePlace
  <2>3. objs' = owned' \cup ({payload'[n] : n \in msgs'} \ {NULL})
    BY <1>1, <1>2, <2>1, Typing DEF Ownership
  <2>4. \A k, n \in msgs' : payload'[k] = payload'[n] /\ payload'[k] # NULL => k = n
    BY <1>2, <2>1, Typing DEF Ownership
  <2>5. \A n \in msgs' : payload'[n] \notin owned'
    BY <1>2, <2>1, Typing DEF Ownership
  <2>6. QED BY <1>5, <2>2, <2>3, <2>4, <2>5 DEF Ownership
<1>7. CallInv' /\ IterInv'
  BY <1>2, Typing, QuietIter DEF CallInv, WalkInv, Idle
<1>8. QED BY <1>3, <1>4, <1>6, <1>7 DEF LInv

LEMMA RemoveNothingStep ==
    ASSUME LInv, NEW d \in Lists, RemoveNothing(d) PROVE LInv'
<1>0. UNCHANGED <<first, last, next, payload, msgs, objs, held, owned, call, it, order,
                  pending, sound>> /\ ret' = NULL
  BY DEF RemoveNothing, Return, ghosts
<1>1. TypeOK'
  BY <1>0, Typing DEF TypeOK, Pointers
<1>2. ListShape' /\ NoSharing' /\ Listed' = Listed /\ Lent' = Lent
  BY <1>0, Typing, QuietShape, QuietPlaces DEF Lent
<1>3. Ownership'
  <2>1. OnePlace'
    BY Typing, <1>0, <1>2, PlacesHold DEF OnePlace
  <2>2. QED BY Typing, <1>0, <1>2, <2>1 DEF Ownership
<1>4. CallInv' /\ IterInv'
  BY <1>0, Typing, QuietIter DEF CallInv, WalkInv
<1>5. QED BY <1>1, <1>2, <1>3, <1>4 DEF LInv

(* A step that changes only how far a removal has come. *)
LEMMA CallStep ==
    ASSUME LInv, WalkInv', call'.op \in {"none", "remove"}, call.op \in {"none", "remove"},
           call'.op = "none" => call' = Idle,
           call' \in [op : Ops, data : Lists \cup {NULL}, target : Pointers, msg : Pointers],
           ret' \in Pointers,
           UNCHANGED <<first, last, next, payload, msgs, objs, held, owned, it, order,
                       pending, sound>>
    PROVE  LInv'
<1>1. TypeOK'
  BY Typing DEF TypeOK
<1>2. ListShape' /\ NoSharing' /\ Listed' = Listed /\ Lent' = {} /\ Lent = {}
  BY Typing, QuietShape, QuietPlaces DEF Lent
<1>3. Ownership'
  <2>1. OnePlace'
    BY Typing, <1>2, PlacesHold DEF OnePlace
  <2>2. QED BY Typing, <1>2, <2>1 DEF Ownership
<1>4. CallInv' /\ IterInv'
  BY Typing, QuietIter DEF CallInv
<1>5. QED BY <1>1, <1>2, <1>3, <1>4 DEF LInv

LEMMA RemoveBeginStep ==
    ASSUME LInv, NEW d \in Lists, NEW target \in Pointers, RemoveBegin(d, target) PROVE LInv'
<1>1. /\ call' = [op |-> "remove", data |-> d, target |-> target, msg |-> first[d]]
      /\ call = Idle /\ first[d] # NULL /\ target \in msgs /\ target # first[d]
      /\ UNCHANGED <<first, last, next, payload, msgs, objs, held, owned, ret, it, order,
                     pending, sound>>
  BY DEF RemoveBegin, ghosts
<1>2. first[d] = order[d][1] /\ 1 \in 1..Len(order[d])
  BY <1>1, Typing, OrderFacts DEF ListShape, Linked
<1>3. WalkInv'
  <2>1. \A j \in 1..1 : order[d][j] # target
    BY <1>1, <1>2
  <2>2. QED BY <1>1, <1>2, <2>1 DEF WalkInv
<1>4. QED
  BY <1>1, <1>3, Typing, CallStep DEF TypeOK, Ops, Idle, Pointers

LEMMA RemoveWalkStep ==
    ASSUME LInv, RemoveWalk PROVE LInv'
<1> DEFINE s == order[call.data]
<1>1. /\ call' = [call EXCEPT !.msg = next[@]]
      /\ call.op = "remove" /\ call.msg # NULL /\ next[call.msg] # call.target
      /\ UNCHANGED <<first, last, next, payload, msgs, objs, held, owned, ret, it, order,
                     pending, sound>>
  BY DEF RemoveWalk, ghosts
<1>2. /\ call.data \in Lists /\ call.target \in msgs /\ call.msg \in Messages
      /\ call'.op = "remove" /\ call'.data = call.data /\ call'.target = call.target
      /\ call'.msg = next[call.msg]
  BY <1>1, Typing DEF CallInv, WalkInv, TypeOK, Pointers
<1>3. PICK i \in 1..Len(s) : s[i] = call.msg /\ \A j \in 1..i : s[j] # call.target
  BY <1>1, Typing DEF CallInv, WalkInv
<1>4. Linked(call.data) /\ Len(s) \in Nat /\ s # <<>>
      /\ ToSet(s) = {s[j] : j \in 1..Len(s)} /\ \A j \in 1..Len(s) : s[j] # NULL
  <2>1. /\ Len(s) \in Nat /\ (s = <<>> <=> Len(s) = 0)
        /\ ToSet(s) = {s[j] : j \in 1..Len(s)} /\ \A j \in 1..Len(s) : s[j] # NULL
    BY <1>2, Typing, OrderFacts
  <2>2. Linked(call.data)
    BY <1>2, Typing DEF ListShape
  <2> HIDE DEF s
  <2>3. QED BY <1>3, <2>1, <2>2
<1> HIDE DEF s
<1>5. CASE i = Len(s)
  <2>1. call'.msg = NULL /\ call.target \notin ToSet(s)
    BY <1>2, <1>3, <1>4, <1>5 DEF Linked, s
  <2>2. WalkInv'
    BY <1>1, <1>2, <2>1 DEF WalkInv, s
  <2>3. QED BY <1>1, <1>2, <2>2, Typing, CallStep DEF TypeOK, Ops, Pointers
<1>6. CASE i # Len(s)
  <2>1. i \in 1..(Len(s) - 1) /\ i + 1 \in 1..Len(s)
    BY <1>3, <1>4, <1>6
  <2>2. next[s[i]] = s[i + 1]
    BY <1>4, <2>1 DEF Linked, s
  <2>3. call'.msg = s[i + 1] /\ call'.msg # NULL
    BY <1>2, <1>3, <1>4, <2>1, <2>2
  <2>4. \A j \in 1..(i + 1) : s[j] # call.target
    BY <1>1, <1>3, <2>1, <2>2
  <2>5. WalkInv'
    BY <1>1, <1>2, <2>1, <2>3, <2>4 DEF WalkInv, s
  <2>6. QED BY <1>1, <1>2, <2>5, Typing, CallStep DEF TypeOK, Ops, Pointers
<1>7. QED BY <1>5, <1>6

LEMMA RemoveFailsStep ==
    ASSUME LInv, RemoveFails PROVE LInv'
<1>1. /\ call' = Idle /\ ret' = NULL /\ call.op = "remove"
      /\ UNCHANGED <<first, last, next, payload, msgs, objs, held, owned, it, order,
                     pending, sound>>
  BY DEF RemoveFails, Return, ghosts
<1>2. QED
  BY <1>1, CallStep DEF WalkInv, Idle, Ops, Pointers

LEMMA CleanBeginStep ==
    ASSUME LInv, NEW d \in Lists, CleanBegin(d) PROVE LInv'
<1>0. /\ UNCHANGED <<first, last, next, payload, msgs, objs, held, owned, ret, order>>
      /\ call = Idle /\ call'.op = "clean" /\ call'.data = d
      /\ \A e \in Lists : e # d => it'[e] = it[e] /\ pending'[e] = pending[e] /\ sound'[e] = sound[e]
      /\ sound'[d] = FALSE
  BY Typing DEF CleanBegin, Idle, TypeOK
<1>1. TypeOK'
  BY Typing DEF CleanBegin, TypeOK, Pointers, Idle, Ops
<1>2. ListShape' /\ NoSharing' /\ Listed' = Listed /\ Lent' = {} /\ Lent = {}
  BY <1>0, Typing, QuietShape, QuietPlaces DEF Lent, Idle
<1>3. Ownership'
  <2>1. OnePlace'
    BY Typing, <1>0, <1>2, PlacesHold DEF OnePlace
  <2>2. QED BY Typing, <1>0, <1>2, <2>1 DEF Ownership
<1>4. CallInv'
  BY <1>0 DEF CallInv, WalkInv
<1>5. IterInv'
  BY <1>0, Typing DEF IterInv
<1>6. QED BY <1>1, <1>2, <1>3, <1>4, <1>5 DEF LInv

LEMMA CleanEndStep ==
    ASSUME LInv, CleanEnd PROVE LInv'
<1>1. call.op = "clean" /\ call.data \in Lists /\ first[call.data] = NULL
  BY Typing DEF CleanEnd, CallInv
<1>2. last[call.data] = NULL
  BY <1>1, Typing, OrderFacts DEF ListShape, Linked
<1>3. /\ UNCHANGED <<first, last, next, payload, msgs, objs, held, owned, ret, it, order,
                     pending, sound>>
      /\ call' = Idle
  BY <1>2, Typing DEF CleanEnd, TypeOK, ghosts
<1>4. TypeOK'
  BY <1>3, Typing DEF TypeOK, Idle, Ops, Pointers
<1>5. ListShape' /\ NoSharing' /\ Listed' = Listed /\ Lent' = {} /\ Lent = {}
  BY <1>1, <1>3, Typing, QuietShape, QuietPlaces DEF Lent, Idle
<1>6. Ownership'
  <2>1. OnePlace'
    BY Typing, <1>3, <1>5, PlacesHold DEF OnePlace
  <2>2. QED BY Typing, <1>3, <1>5, <2>1 DEF Ownership
<1>7. CallInv' /\ IterInv'
  BY <1>3, Typing, QuietIter DEF CallInv, WalkInv, Idle
<1>8. QED BY <1>4, <1>5, <1>6, <1>7 DEF LInv

-----------------------------------------------------------------------------
(* The steps that change a list.                                           *)

LEMMA LinkTypes ==
    ASSUME TypeOK, NEW d \in Lists, NEW m \in Messages, Link(d, m)
    PROVE  /\ last' \in [Lists -> Pointers] /\ first' \in [Lists -> Pointers]
           /\ next' \in [Messages -> Pointers]
<1>1. last' = [last EXCEPT ![d] = m]
  BY DEF Link
<1>2. CASE last[d] # NULL
  <2>1. next' = [next EXCEPT ![last[d]] = m, ![m] = NULL] /\ first' = first
    BY <1>2 DEF Link
  <2>2. QED BY <1>1, <2>1 DEF TypeOK, Pointers
<1>3. CASE last[d] = NULL
  <2>1. next' = [next EXCEPT ![m] = NULL] /\ first' = [first EXCEPT ![d] = m]
    BY <1>3 DEF Link
  <2>2. QED BY <1>1, <2>1 DEF TypeOK, Pointers
<1>4. QED BY <1>2, <1>3

LEMMA DataAddStep ==
    ASSUME LInv, NEW d \in Lists, NEW m \in Messages, DataAdd(d, m) PROVE LInv'
<1>1. /\ m \in held /\ m \notin Listed /\ Link(d, m) /\ held' = held \ {m} /\ call = Idle
      /\ UNCHANGED <<payload, msgs, objs, owned, call, ret, it, pending, sound>>
  BY Typing DEF DataAdd, OnePlace
<1>2. ListShape' /\ NoSharing' /\ Listed' = Listed \cup {m} /\ Lent' = {} /\ Lent = {}
  BY <1>1, Typing, LinkShape, LinkPlaces DEF Lent, Idle
<1>3. TypeOK'
  <2>1. last' \in [Lists -> Pointers] /\ first' \in [Lists -> Pointers]
        /\ next' \in [Messages -> Pointers]
    BY <1>1, Typing, LinkTypes
  <2>2. order' \in [Lists -> Seq(Messages)]
    BY <1>2 DEF NoSharing
  <2>3. QED BY <1>1, <2>1, <2>2, Typing DEF TypeOK
<1>4. OnePlace'
  BY Typing, <1>1, <1>2, PlacesHold DEF OnePlace
<1>5. Ownership'
  BY Typing, <1>1, <1>2, <1>4 DEF Ownership
<1>6. CallInv' /\ IterInv'
  BY <1>1, Typing, LinkIter DEF CallInv, WalkInv, Idle
<1>7. QED BY <1>2, <1>3, <1>5, <1>6 DEF LInv

LEMMA ParseStep ==
    ASSUME LInv, NEW d \in Lists, NEW m \in Messages, NEW p \in Payloads, Parse(d, m, p)
    PROVE  LInv'
<1>1. /\ m \notin msgs /\ m \notin Listed /\ Link(d, m) /\ call = Idle
      /\ p \notin objs /\ objs' = objs \cup {p} /\ msgs' = msgs \cup {m}
      /\ payload' = [payload EXCEPT ![m] = p]
      /\ UNCHANGED <<held, owned, call, ret, it, pending, sound>>
  BY Typing DEF Parse, Allocate
<1>2. ListShape' /\ NoSharing' /\ Listed' = Listed \cup {m} /\ Lent' = {} /\ Lent = {}
  BY <1>1, Typing, LinkShape, LinkPlaces DEF Lent, Idle
<1>3. TypeOK'
  <2>1. last' \in [Lists -> Pointers] /\ first' \in [Lists -> Pointers]
        /\ next' \in [Messages -> Pointers]
    BY <1>1, Typing, LinkTypes
  <2>2. order' \in [Lists -> Seq(Messages)]
    BY <1>2 DEF NoSharing
  <2>3. QED BY <1>1, <2>1, <2>2, Typing DEF TypeOK
<1>4. OnePlace'
  BY Typing, <1>1, <1>2, PlacesHold DEF OnePlace
<1>5. Ownership'
  <2>1. payload'[m] = p /\ \A n \in msgs : payload'[n] = payload[n] /\ payload[n] # p
    BY <1>1, Typing, NullAssumption DEF TypeOK
  <2>2. msgs' = held' \cup Listed' \cup Lent'
    BY <1>1, <1>2, Typing DEF Ownership
  <2>3. objs' = owned' \cup ({payload'[n] : n \in msgs'} \ {NULL})
    BY <1>1, <2>1, Typing, NullAssumption DEF Ownership
  <2>4. \A k, n \in msgs' : payload'[k] = payload'[n] /\ payload'[k] # NULL => k = n
    BY <1>1, <2>1, Typing DEF Ownership
  <2>5. \A n \in msgs' : payload'[n] \notin owned'
    BY <1>1, <2>1, Typing DEF Ownership
  <2>6. QED BY <1>4, <2>2, <2>3, <2>4, <2>5 DEF Ownership
<1>6. CallInv' /\ IterInv'
  BY <1>1, Typing, LinkIter DEF CallInv, WalkInv, Idle
<1>7. QED BY <1>2, <1>3, <1>5, <1>6 DEF LInv

LEMMA RemoveHeadStep ==
    ASSUME LInv, NEW d \in Lists, NEW target \in Pointers, RemoveHead(d, target) PROVE LInv'
<1>1. /\ UnlinkFirst(d) /\ first[d] # NULL /\ call = Idle
      /\ ret' = first[d] /\ held' = held \cup ({first[d]} \ {NULL})
      /\ UNCHANGED <<payload, msgs, objs, owned, call, it>>
  BY DEF RemoveHead, Return
<1>2. ListShape' /\ 1 \in 1..Len(order[d]) /\ first[d] = order[d][1]
  BY <1>1, Typing, UnlinkFirstShape
<1>3. order' = [order EXCEPT ![d] = RemoveAt(@, 1)] /\ Forget(d, order[d][1])
  BY <1>1, <1>2 DEF UnlinkFirst
<1>4. /\ NoSharing' /\ first[d] \in Listed /\ first[d] \in Messages
      /\ Listed' = Listed \ {first[d]} /\ Lent' = {} /\ Lent = {}
  BY <1>1, <1>2, <1>3, Typing, DropPlaces DEF Lent, Idle
<1>5. TypeOK'
  <2>1. last' \in [Lists -> Pointers] /\ first' \in [Lists -> Pointers]
        /\ next' \in [Messages -> Pointers] /\ pending' \in [Lists -> SUBSET Messages]
        /\ sound' \in [Lists -> BOOLEAN]
    BY <1>1, <1>4, Typing DEF UnlinkFirst, Forget, TypeOK, Pointers
  <2>2. order' \in [Lists -> Seq(Messages)]
    BY <1>4 DEF NoSharing
  <2>3. QED BY <1>1, <1>4, <2>1, <2>2, Typing DEF TypeOK, Pointers
<1>6. OnePlace'
  BY Typing, <1>1, <1>4, PlacesHold DEF OnePlace
<1>7. Ownership'
  BY Typing, <1>1, <1>4, <1>6 DEF Ownership
<1>8. CallInv' /\ IterInv'
  BY <1>1, <1>2, <1>3, Typing, DropIter DEF CallInv, WalkInv, Idle
<1>9. QED BY <1>2, <1>5, <1>7, <1>8 DEF LInv

LEMMA RemoveFoundStep ==
    ASSUME LInv, RemoveFound PROVE LInv'
<1> DEFINE d == call.data
           s == order[d]
           m == call.target
<1>1. /\ call.op = "remove" /\ Unlink(d, m, call.msg) /\ next[call.msg] = m /\ call' = Idle
      /\ ret' = m /\ held' = held \cup ({m} \ {NULL})
      /\ UNCHANGED <<payload, msgs, objs, owned, it>>
  BY DEF RemoveFound, Return
<1>2. d \in Lists /\ m \in msgs /\ m \in Messages /\ m # NULL
  BY <1>1, Typing, NullAssumption DEF CallInv, WalkInv
<1>3. PICK k \in 1..Len(s) : s[k] = call.msg
  BY <1>1, Typing DEF CallInv, WalkInv, RemoveFound
<1>4. Len(s) \in Nat /\ s # <<>> /\ Linked(d)
  <2>1. Len(s) \in Nat /\ (s = <<>> <=> Len(s) = 0)
    BY <1>2, Typing, OrderFacts
  <2>2. Linked(d)
    BY <1>2, Typing DEF ListShape
  <2> HIDE DEF s
  <2>3. QED BY <1>3, <2>1, <2>2
<1>5. k \in 1..(Len(s) - 1) /\ m = s[k + 1] /\ k + 1 \in 1..Len(s)
  <2>1. k # Len(s)
    BY <1>1, <1>2, <1>3, <1>4 DEF Linked
  <2> HIDE DEF s
  <2>2. k \in 1..(Len(s) - 1) /\ k + 1 \in 1..Len(s)
    BY <1>3, <1>4, <2>1
  <2>3. QED BY <1>1, <1>3, <1>4, <2>2 DEF Linked, s
<1>6. ListShape' /\ order' = [order EXCEPT ![d] = RemoveAt(@, k + 1)]
  BY <1>1, <1>2, <1>3, <1>5, Typing, UnlinkShape
<1>7. Forget(d, order[d][k + 1])
  BY <1>1, <1>5 DEF Unlink
<1>8. /\ NoSharing' /\ m \in Listed /\ Listed' = Listed \ {m} /\ Lent' = {} /\ Lent = {}
  <2>1. k + 1 \in 1..Len(order[d]) /\ order[d][k + 1] = m
    BY <1>5
  <2>2. Lent' = {} /\ Lent = {}
    BY <1>1 DEF Lent, Idle
  <2> HIDE DEF d, m
  <2>3. NoSharing' /\ m \in Listed /\ Listed' = Listed \ {m}
    BY <1>2, <1>6, <2>1, Typing, DropPlaces
  <2>4. QED BY <2>2, <2>3
<1>9. IterInv'
  BY <1>1, <1>2, <1>5, <1>6, <1>7, Typing, DropIter
<1>10. TypeOK'
  <2>1. /\ first' = first
        /\ last' = [last EXCEPT ![d] = IF @ = m THEN call.msg ELSE @]
        /\ next' = [next EXCEPT ![call.msg] = next[m], ![m] = NULL]
        /\ pending' = [pending EXCEPT ![d] = @ \ {m}]
        /\ sound' = [sound EXCEPT ![d] = @ /\ it[d] # m]
    BY <1>1 DEF Unlink, Forget
  <2>2. next' \in [Messages -> Pointers] /\ last' \in [Lists -> Pointers]
    BY <1>2, <2>1, Typing DEF TypeOK, Pointers
  <2>3. pending' \in [Lists -> SUBSET Messages] /\ sound' \in [Lists -> BOOLEAN]
    BY <2>1, Typing DEF TypeOK
  <2>4. order' \in [Lists -> Seq(Messages)]
    BY <1>8 DEF NoSharing
  <2>5. QED BY <1>1, <1>2, <2>1, <2>2, <2>3, <2>4, Typing DEF TypeOK, Pointers, Ops, Idle
<1>11. OnePlace'
  BY Typing, <1>1, <1>2, <1>8, PlacesHold DEF OnePlace
<1>12. Ownership'
  BY Typing, <1>1, <1>2, <1>8, <1>11 DEF Ownership
<1>13. CallInv'
  BY <1>1 DEF CallInv, WalkInv, Idle
<1>14. QED BY <1>6, <1>9, <1>10, <1>12, <1>13 DEF LInv

LEMMA CleanNextStep ==
    ASSUME LInv, CleanNext PROVE LInv'
<1> DEFINE d == call.data
           m == first[d]
<1>1. /\ call.op = "clean" /\ d \in Lists /\ ~sound[d] /\ m # NULL
      /\ UnlinkFirst(d) /\ Release(m)
      /\ it' = [e \in Lists |-> IF it[e] = m THEN NULL ELSE it[e]]
      /\ UNCHANGED <<held, owned, call, ret>>
  BY Typing DEF CleanNext, CallInv
<1>2. ListShape' /\ 1 \in 1..Len(order[d]) /\ m = order[d][1]
  BY <1>1, Typing, UnlinkFirstShape
<1>3. order' = [order EXCEPT ![d] = RemoveAt(@, 1)] /\ Forget(d, order[d][1])
  BY <1>1, <1>2 DEF UnlinkFirst
<1>4. /\ NoSharing' /\ m \in Listed /\ m \in Messages
      /\ Listed' = Listed \ {m} /\ Lent' = {} /\ Lent = {}
  BY <1>1, <1>2, <1>3, Typing, DropPlaces DEF Lent
<1>5. IterInv'
  <2>1. \A e \in Lists : it'[e] \in {it[e], NULL}
    BY <1>1
  <2>2. QED BY <1>1, <1>2, <1>3, <2>1, Typing, DropIter
<1>6. /\ msgs' = msgs \ {m} /\ objs' = objs \ {payload[m]}
      /\ payload' = [payload EXCEPT ![m] = NULL]
  BY <1>1 DEF Release
<1>7. TypeOK'
  <2>1. last' \in [Lists -> Pointers] /\ first' \in [Lists -> Pointers]
        /\ next' \in [Messages -> Pointers] /\ pending' \in [Lists -> SUBSET Messages]
        /\ sound' \in [Lists -> BOOLEAN]
    BY <1>1, <1>4, Typing DEF UnlinkFirst, Forget, TypeOK, Pointers
  <2>2. order' \in [Lists -> Seq(Messages)]
    BY <1>4 DEF NoSharing
  <2>3. it' \in [Lists -> Pointers]
    BY <1>1, Typing DEF TypeOK, Pointers
  <2>4. QED BY <1>1, <1>4, <1>6, <2>1, <2>2, <2>3, Typing DEF TypeOK
<1>8. CallInv'
  <2>1. ~sound'[d]
    BY <1>1, <1>3, Typing DEF Forget, TypeOK
  <2>2. QED BY <1>1, <2>1 DEF CallInv, WalkInv
<1> HIDE DEF m
<1>9. OnePlace'
  BY Typing, <1>1, <1>4, PlacesHold DEF OnePlace
<1>10. Ownership'
  <2>1. \A n \in msgs' : payload'[n] = payload[n] /\ (payload[n] # NULL => payload[n] # payload[m])
    <3>1. \A n \in msgs' : payload'[n] = payload[n] /\ n # m /\ n \in msgs
      BY <1>6, Typing DEF TypeOK
    <3>2. QED BY <1>4, <3>1, Typing DEF Ownership
  <2>2. msgs' = held' \cup Listed' \cup Lent'
    BY <1>1, <1>4, <1>6, Typing DEF Ownership, OnePlace
  <2>3. payload[m] \notin owned
    BY <1>4, Typing DEF Ownership
  <2>4. objs' = owned' \cup ({payload'[n] : n \in msgs'} \ {NULL})
    BY <1>1, <1>4, <1>6, <2>1, <2>3, Typing DEF Ownership
  <2>5. \A k, n \in msgs' : payload'[k] = payload'[n] /\ payload'[k] # NULL => k = n
    BY <1>6, <2>1, Typing DEF Ownership
  <2>6. \A n \in msgs' : payload'[n] \notin owned'
    BY <1>1, <1>6, <2>1, Typing DEF Ownership
  <2>7. QED BY <1>9, <2>2, <2>4, <2>5, <2>6 DEF Ownership
<1>11. QED BY <1>2, <1>5, <1>7, <1>8, <1>10 DEF LInv

(* The iterator goes on to the next message, which it owes no longer.      *)
LEMMA DataIterateStep ==
    ASSUME LInv, NEW d \in Lists, DataIterate(d)
    PROVE  /\ LInv'
           /\ sound[d] /\ it[d] # NULL /\ it'[d] = NULL => pending'[d] = {}
<1> DEFINE s == order[d]
<1>1. /\ call = Idle
      /\ it' = [it EXCEPT ![d] = IF it[d] = NULL THEN first[d] ELSE next[it[d]]]
      /\ UNCHANGED <<first, last, next, payload, msgs, objs, held, owned, call, ret, order>>
  BY DEF DataIterate
<1>2. /\ it'[d] = IF it[d] = NULL THEN first[d] ELSE next[it[d]]
      /\ pending'[d] = (IF it[d] = NULL THEN ToSet(s) ELSE pending[d]) \ {it'[d]}
      /\ sound'[d] = (it[d] = NULL \/ sound[d])
      /\ \A e \in Lists : e # d => it'[e] = it[e] /\ pending'[e] = pending[e] /\ sound'[e] = sound[e]
  BY Typing DEF DataIterate, TypeOK
<1>3. /\ Len(s) \in Nat /\ (s = <<>> <=> Len(s) = 0)
      /\ ToSet(s) = {s[j] : j \in 1..Len(s)}
      /\ \A j \in 1..Len(s) : s[j] # NULL /\ s[j] \in Messages
  BY Typing, OrderFacts
<1>4. Linked(d)
  BY Typing DEF ListShape
<1>5. TypeOK'
  <2>1. it' \in [Lists -> Pointers]
    BY <1>1, Typing DEF TypeOK, Pointers
  <2>2. ToSet(s) \in SUBSET Messages
    BY <1>3
  <2>3. pending' \in [Lists -> SUBSET Messages] /\ sound' \in [Lists -> BOOLEAN]
    BY <2>2, Typing DEF DataIterate, TypeOK
  <2>4. QED BY <1>1, <2>1, <2>3, Typing DEF TypeOK
<1>6. ListShape' /\ NoSharing' /\ Listed' = Listed /\ Lent' = Lent
  BY <1>1, Typing, QuietShape, QuietPlaces DEF Lent
<1>7. Ownership'
  <2>1. OnePlace'
    BY Typing, <1>1, <1>6, PlacesHold DEF OnePlace
  <2>2. QED BY Typing, <1>1, <1>6, <2>1 DEF Ownership
<1>8. CallInv'
  BY <1>1 DEF CallInv, WalkInv, Idle
<1> HIDE DEF s
(* Where the iterator stood, or 0 before the first message. *)
<1>9. sound'[d] =>
        \E i \in 0..Len(s) :
           /\ i = 0 <=> it[d] = NULL
           /\ i # 0 => s[i] = it[d]
           /\ pending'[d] \subseteq {s[j] : j \in (i + 1)..Len(s)} \ {it'[d]}
  <2>1. CASE it[d] = NULL
    <3>1. pending'[d] \subseteq {s[j] : j \in (0 + 1)..Len(s)} \ {it'[d]}
      BY <1>2, <1>3, <2>1
    <3>2. 0 \in 0..Len(s)
      BY <1>3
    <3>3. QED BY <2>1, <3>1, <3>2
  <2>2. CASE it[d] # NULL
    <3>1. SUFFICES ASSUME sound'[d]
                   PROVE \E i \in 0..Len(s) :
                           /\ i = 0 <=> it[d] = NULL
                           /\ i # 0 => s[i] = it[d]
                           /\ pending'[d] \subseteq {s[j] : j \in (i + 1)..Len(s)} \ {it'[d]}
      OBVIOUS
    <3>2. PICK i \in 1..Len(s) : /\ s[i] = it[d]
                                 /\ pending[d] \subseteq {s[j] : j \in (i + 1)..Len(s)}
      BY <1>2, <2>2, <3>1, Typing DEF IterInv, s
    <3>3. i \in 0..Len(s) /\ i # 0
      BY <1>3
    <3>4. pending'[d] \subseteq {s[j] : j \in (i + 1)..Len(s)} \ {it'[d]}
      BY <1>2, <2>2, <3>2
    <3>5. QED BY <2>2, <3>2, <3>3, <3>4
  <2>3. QED BY <2>1, <2>2
<1>10. ASSUME sound'[d], NEW i \in 0..Len(s),
              i = 0 <=> it[d] = NULL,
              i # 0 => s[i] = it[d],
              pending'[d] \subseteq {s[j] : j \in (i + 1)..Len(s)} \ {it'[d]}
       PROVE  /\ it'[d] = NULL => pending'[d] = {}
              /\ it'[d] # NULL =>
                   \E k \in 1..Len(s) :
                      /\ s[k] = it'[d]
                      /\ pending'[d] \subseteq {s[j] : j \in (k + 1)..Len(s)}
  <2>1. CASE i = Len(s)
    <3>1. it'[d] = NULL
      <4>1. CASE i = 0
        BY <1>2, <1>3, <1>4, <1>10, <2>1, <4>1 DEF Linked, s
      <4>2. CASE i # 0
        <5>1. s # <<>> /\ it'[d] = next[s[i]]
          BY <1>2, <1>3, <1>10, <2>1, <4>2
        <5>2. QED BY <1>4, <2>1, <5>1 DEF Linked, s
      <4>3. QED BY <4>1, <4>2
    <3>2. (i + 1)..Len(s) = {}
      BY <1>3, <2>1
    <3>3. QED BY <1>10, <3>1, <3>2
  <2>2. CASE i # Len(s)
    <3>1. i + 1 \in 1..Len(s) /\ (i # 0 => i \in 1..(Len(s) - 1)) /\ Len(s) # 0
      BY <1>3, <2>2
    <3>2. it'[d] = s[i + 1]
      <4>1. CASE i = 0
        BY <1>2, <1>3, <1>4, <1>10, <3>1, <4>1 DEF Linked, s
      <4>2. CASE i # 0
        <5>1. it'[d] = next[s[i]] /\ i \in 1..(Len(s) - 1)
          BY <1>2, <1>10, <3>1, <4>2
        <5>2. QED BY <1>4, <5>1 DEF Linked, s
      <4>3. QED BY <4>1, <4>2
    <3>3. pending'[d] \subseteq {s[j] : j \in (i + 1 + 1)..Len(s)}
      <4>1. ASSUME NEW x \in pending'[d] PROVE \E j \in (i + 1 + 1)..Len(s) : x = s[j]
        <5>1. PICK j \in (i + 1)..Len(s) : x = s[j]
          BY <1>10
        <5>2. j # i + 1
          BY <1>10, <3>2, <5>1
        <5>3. j \in (i + 1 + 1)..Len(s)
          BY <1>3, <5>2
        <5>4. QED BY <5>1, <5>3
      <4>2. QED BY <4>1
    <3>4. it'[d] # NULL
      BY <1>3, <3>1, <3>2
    <3>5. QED BY <3>1, <3>2, <3>3, <3>4
  <2>3. QED BY <2>1, <2>2
<1>11. IterInv'
  <2>1. SUFFICES ASSUME NEW e \in Lists, sound'[e], it'[e] # NULL
                 PROVE  \E k \in 1..Len(order'[e]) :
                           /\ order'[e][k] = it'[e]
                           /\ pending'[e] \subseteq {order'[e][j] : j \in (k + 1)..Len(order'[e])}
    BY DEF IterInv
  <2>2. CASE e = d
    BY <1>1, <1>9, <1>10, <2>1, <2>2 DEF s
  <2>3. CASE e # d
    BY <1>1, <1>2, <2>1, <2>3, Typing DEF IterInv
  <2>4. QED BY <2>2, <2>3
<1>12. sound[d] /\ it[d] # NULL /\ it'[d] = NULL => pending'[d] = {}
  BY <1>2, <1>9, <1>10
<1>13. QED BY <1>5, <1>6, <1>7, <1>8, <1>11, <1>12 DEF LInv

-----------------------------------------------------------------------------
(* The theorems.                                                           *)

LEMMA Step == ASSUME LInv, [Next]_vars PROVE LInv'
<1>1. CASE Objects
  BY <1>1, ObjectNewStep, ObjectFreeStep, MessageFreeStep, PayloadRemoveStep, MessageNewStep,
     RequestBeginStep, DataAddStep, ParseStep DEF Objects
<1>2. CASE Loop
  BY <1>2, RequestEndStep, RemoveWalkStep, RemoveFailsStep, RemoveFoundStep, CleanNextStep,
     CleanEndStep DEF Loop
<1>3. ASSUME NEW d \in Lists, NEW target \in Pointers,
             RemoveHead(d, target) \/ RemoveBegin(d, target)
      PROVE  LInv'
  BY <1>3, RemoveHeadStep, RemoveBeginStep
<1>4. ASSUME NEW d \in Lists, RemoveNothing(d) \/ CleanBegin(d) \/ DataIterate(d) PROVE LInv'
  BY <1>4, RemoveNothingStep, CleanBeginStep, DataIterateStep
<1>5. CASE UNCHANGED vars
  BY <1>5 DEF vars, ghosts, LInv, TypeOK, ListShape, Linked, Ownership, OnePlace, Listed, Lent,
              CallInv, WalkInv, IterInv
<1>6. QED BY <1>1, <1>2, <1>3, <1>4, <1>5 DEF Next

(* The inductive invariant holds of every state the lists can get into.    *)
THEOREM ListInvariance == Spec => []LInv
<1>1. Init => LInv
  BY InitStep
<1>2. LInv /\ [Next]_vars => LInv'
  BY Step
<1>3. QED BY <1>1, <1>2, PTL DEF Spec

(* The variables keep their types. *)
THEOREM ListTypes == Spec => []TypeOK
BY ListInvariance, PTL DEF LInv

(* first, last and next are always those of the list that the calls of     *)
(* mnlxt_data_add(), mnlxt_data_remove() and mnlxt_data_clean() describe.  *)
THEOREM ListsAreLinked == Spec => []ListShape
BY ListInvariance, PTL DEF LInv

(* No message and no payload is leaked, shared or freed twice.             *)
THEOREM OwnershipHolds == Spec => []Ownership
BY ListInvariance, PTL DEF LInv

LEMMA IterationStep ==
    ASSUME LInv, [Next]_vars, NEW d \in Lists, sound[d], it[d] # NULL, it'[d] = NULL
    PROVE  pending'[d] = {}
<1>1. PICK i \in 1..Len(order[d]) : order[d][i] = it[d]
  BY Typing DEF IterInv
<1>2. it[d] \in Listed /\ it[d] \in Messages
  BY <1>1, Typing, OrderFacts, Places
<1>3. ASSUME NEW m \in Messages, MessageFree(m) PROVE FALSE
  BY <1>2, <1>3, Typing DEF MessageFree, OnePlace, TypeOK
<1>4. ASSUME CleanNext PROVE FALSE
  <2>1. /\ call.data \in Lists /\ ~sound[call.data] /\ first[call.data] # NULL
        /\ it[d] = first[call.data]
    BY <1>4, Typing DEF CleanNext, CallInv
  <2>2. first[call.data] = order[call.data][1] /\ 1 \in 1..Len(order[call.data])
    <3>1. Linked(call.data) /\ Len(order[call.data]) \in Nat
          /\ (order[call.data] = <<>> <=> Len(order[call.data]) = 0)
      BY <2>1, Typing, OrderFacts DEF ListShape
    <3>2. QED BY <2>1, <3>1 DEF Linked
  <2>3. QED BY <1>1, <2>1, <2>2, Typing, Places
<1>5. ASSUME NEW e \in Lists, CleanBegin(e) PROVE pending'[d] = {}
  BY <1>5, Typing DEF CleanBegin, TypeOK
<1>6. ASSUME NEW e \in Lists, DataIterate(e) PROVE pending'[d] = {}
  <2>1. e = d
    BY <1>6, Typing DEF DataIterate, TypeOK
  <2>2. QED BY <1>6, <2>1, DataIterateStep
<1>7. CASE UNCHANGED it
  BY <1>7
<1>8. QED
  BY <1>3, <1>4, <1>5, <1>6, <1>7
  DEF Next, Objects, Loop, vars, ObjectNew, ObjectFree, MessageNew, PayloadRemove, RequestBegin,
      RequestEnd, DataAdd, Parse, RemoveHead, RemoveBegin, RemoveWalk, RemoveFails, RemoveFound,
      CleanEnd, RemoveNothing

(* An iteration over a list ends only when every message that stayed on    *)
(* the list since it began was returned.                                   *)
THEOREM IterationIsComplete == Spec => IterationComplete
<1>1. LInv /\ [Next]_vars =>
        [\A d \in Lists :
            sound[d] /\ it[d] # NULL /\ it'[d] = NULL => pending'[d] = {}]_vars
  BY IterationStep
<1>2. QED BY <1>1, ListInvariance, PTL DEF Spec, IterationComplete

-----------------------------------------------------------------------------
(* The loops end: what a liveness property needs beside fairness.          *)

LEMMA WalkAdvances ==
    ASSUME LInv, RemoveWalk
    PROVE  call'.op = call.op /\ Ahead' \subseteq Ahead /\ Ahead' # Ahead
<1> DEFINE s == order[call.data]
           After(m) == {s[j] : j \in {k \in 1..Len(s) : \E i \in 1..k : s[i] = m}}
<1>1. /\ call' = [call EXCEPT !.msg = next[@]] /\ order' = order
      /\ call.op = "remove" /\ call.msg # NULL /\ call.data \in Lists
  BY Typing DEF RemoveWalk, ghosts, CallInv, WalkInv
<1>2. /\ call'.op = "remove" /\ call'.data = call.data /\ call'.msg = next[call.msg]
  BY <1>1, Typing DEF TypeOK
<1>3. PICK i \in 1..Len(s) : s[i] = call.msg
  BY <1>1, Typing DEF CallInv, WalkInv
<1>4. /\ Len(s) \in Nat /\ \A j \in 1..Len(s) : s[j] # NULL
      /\ \A j, k \in 1..Len(s) : s[j] = s[k] => j = k
      /\ s # <<>>
  <2>1. /\ Len(s) \in Nat /\ (s = <<>> <=> Len(s) = 0) /\ \A j \in 1..Len(s) : s[j] # NULL
        /\ \A j, k \in 1..Len(s) : s[j] = s[k] => j = k
    BY <1>1, Typing, OrderFacts, Places
  <2> HIDE DEF s
  <2>2. QED BY <1>3, <2>1
<1>5. Linked(call.data)
  BY <1>1, Typing DEF ListShape
<1>6. Ahead = After(call.msg) /\ Ahead' = After(next[call.msg])
  BY <1>1, <1>2 DEF Ahead
<1>7. /\ i = Len(s) => next[call.msg] = NULL
      /\ i # Len(s) => i + 1 \in 1..Len(s) /\ next[call.msg] = s[i + 1]
  <2>1. CASE i = Len(s)
    BY <1>3, <1>4, <1>5, <2>1 DEF Linked
  <2>2. CASE i # Len(s)
    <3>1. i \in 1..(Len(s) - 1)
      BY <1>3, <1>4, <2>2
    <3>2. QED BY <1>3, <1>5, <2>2, <3>1 DEF Linked
  <2>3. QED BY <2>1, <2>2
<1> HIDE DEF s
<1>8. s[i] \in After(s[i])
  BY <1>3, <1>4
<1>9. CASE i = Len(s)
  <2>1. After(NULL) = {}
    BY <1>4
  <2>2. /\ s[i] = call.msg /\ next[call.msg] = NULL
        /\ call'.op = call.op
    BY <1>1, <1>2, <1>3, <1>7, <1>9
  <2> HIDE DEF After
  <2>3. Ahead = After(s[i]) /\ Ahead' = {}
    BY <1>6, <2>1, <2>2
  <2>4. QED BY <1>8, <2>2, <2>3
<1>10. CASE i # Len(s)
  <2>1. i + 1 \in 1..Len(s) /\ i \in Nat
    BY <1>3, <1>7, <1>10
  <2>2. ASSUME NEW k \in 1..Len(s), NEW j \in 1..k, s[j] = s[i + 1]
        PROVE  i \in 1..k /\ k # i
    BY <1>4, <2>1, <2>2
  <2>3. After(s[i + 1]) \subseteq After(s[i])
    BY <2>1, <2>2
  <2>4. s[i] \notin After(s[i + 1])
    BY <1>3, <1>4, <2>2
  <2>5. /\ s[i] = call.msg /\ next[call.msg] = s[i + 1]
        /\ call'.op = call.op
    BY <1>1, <1>2, <1>3, <1>7, <1>10
  <2> HIDE DEF After
  <2>6. Ahead = After(s[i]) /\ Ahead' = After(s[i + 1])
    BY <1>6, <2>5
  <2>7. QED BY <1>8, <2>3, <2>4, <2>5, <2>6
<1>11. QED BY <1>9, <1>10

LEMMA CleanAdvances ==
    ASSUME LInv, CleanNext
    PROVE  call'.op = call.op /\ Ahead' \subseteq Ahead /\ Ahead' # Ahead
<1> DEFINE d == call.data
<1>1. call.op = "clean" /\ d \in Lists /\ first[d] # NULL /\ UnlinkFirst(d) /\ call' = call
  BY Typing DEF CleanNext, CallInv
<1>2. 1 \in 1..Len(order[d]) /\ order[d] \in Seq(Messages) /\ IsInjective(order[d])
  BY <1>1, Typing, UnlinkFirstShape DEF OnePlace, TypeOK
<1>3. order'[d] = RemoveAt(order[d], 1)
  BY <1>1, Typing DEF UnlinkFirst, TypeOK
<1>4. ToSet(order'[d]) = ToSet(order[d]) \ {order[d][1]} /\ order[d][1] \in ToSet(order[d])
  <2>1. ToSet(order'[d]) = ToSet(order[d]) \ {order[d][1]}
    BY <1>2, <1>3, RemoveAtSet
  <2>2. order[d][1] \in ToSet(order[d])
    <3>1. TypeOK /\ d \in Lists
      BY <1>1, Typing
    <3> HIDE DEF d
    <3>2. ToSet(order[d]) = {order[d][i] : i \in 1..Len(order[d])}
      BY <3>1, OrderFacts
    <3>3. QED BY <1>2, <3>2
  <2>3. QED BY <2>1, <2>2
<1>5. Ahead = ToSet(order[d]) /\ Ahead' = ToSet(order'[d])
  BY <1>1 DEF Ahead, ToSet
<1>6. QED BY <1>1, <1>4, <1>5

(* The walk of mnlxt_data_remove() comes to its target exactly if that is  *)
(* on the list: a pointer that equals message is one of this list, never   *)
(* one left behind in a message, and the walk ends only past every message.*)
RemoveIsExact ==
    call.op = "remove" =>
        /\ call.msg = NULL => call.target \notin ToSet(order[call.data])
        /\ call.msg # NULL /\ next[call.msg] = call.target =>
              call.target \in ToSet(order[call.data])

(* mnlxt_data_remove() takes a message off the list it is given, and       *)
(* returns NULL only for a message that is not there (mnlxt_data.c:257).   *)
THEOREM RemovesWhatIsListed == Spec => []RemoveIsExact
<1>1. LInv => RemoveIsExact
  <2> SUFFICES ASSUME LInv, call.op = "remove" PROVE RemoveIsExact
    BY DEF RemoveIsExact
  <2> DEFINE s == order[call.data]
  <2>1. /\ call.data \in Lists /\ call.target \in msgs
        /\ call.msg = NULL => call.target \notin ToSet(s)
        /\ call.msg # NULL => \E i \in 1..Len(s) : s[i] = call.msg
    BY DEF LInv, CallInv, WalkInv
  <2>2. call.target # NULL
    BY <2>1, NullAssumption DEF LInv, TypeOK
  <2>3. s \in Seq(Messages) /\ Linked(call.data)
    BY <2>1 DEF LInv, TypeOK, ListShape
  <2>4. ASSUME call.msg # NULL, next[call.msg] = call.target
        PROVE  call.target \in ToSet(s)
    <3>1. PICK i \in 1..Len(s) : s[i] = call.msg
      BY <2>1, <2>4
    <3>2. Len(s) \in Nat /\ s # <<>>
      BY <2>3, <3>1
    <3>3. next[s[Len(s)]] = NULL
      BY <2>3, <3>2 DEF Linked
    <3>4. i # Len(s)
      BY <2>2, <2>4, <3>1, <3>3
    <3>5. i \in 1..(Len(s) - 1) /\ i + 1 \in 1..Len(s)
      BY <3>1, <3>2, <3>4
    <3>6. s[i + 1] = call.target
      BY <2>3, <2>4, <3>1, <3>5 DEF Linked
    <3>7. QED BY <3>5, <3>6 DEF ToSet
  <2>5. QED BY <2>1, <2>4 DEF RemoveIsExact
<1>2. QED BY <1>1, ListInvariance, PTL

(* mnlxt_data_remove() and mnlxt_data_clean() have fewer messages in front *)
(* of them with every step, so that fairness is all their end needs.       *)
THEOREM LoopsDoAdvance == Spec => LoopsAdvance
<1>1. LInv /\ [Next]_vars =>
        [call # Idle =>
            \/ call' = Idle
            \/ call'.op = call.op /\ Ahead' \subseteq Ahead /\ Ahead' # Ahead]_vars
  <2>1. SUFFICES ASSUME LInv, Next, call # Idle, call' # Idle
                 PROVE  call'.op = call.op /\ Ahead' \subseteq Ahead /\ Ahead' # Ahead
    OBVIOUS
  <2>2. RemoveWalk \/ CleanNext
    BY <2>1 DEF Next, Objects, Loop, ObjectNew, ObjectFree, MessageNew, MessageFree, PayloadRemove,
       RequestBegin, RequestEnd, DataAdd, Parse, RemoveHead, RemoveNothing, RemoveBegin,
       RemoveFails, RemoveFound, CleanBegin, CleanEnd, DataIterate
  <2>3. QED BY <2>1, <2>2, WalkAdvances, CleanAdvances
<1>2. QED BY <1>1, ListInvariance, PTL DEF Spec, LoopsAdvance

-----------------------------------------------------------------------------
(* The lists implement the queues.                                         *)

LEMMA Visible ==
    ASSUME LInv
    PROVE  /\ call.op # "clean" => visibleOrder = order
           /\ Queue!Listed \subseteq Listed
           /\ visibleOrder \in [Lists -> Seq(Messages)]
<1>1. call.op # "clean" => visibleOrder = order
  BY Typing DEF visibleOrder, TypeOK
<1>2. \A d \in Lists : ToSet(visibleOrder[d]) \subseteq ToSet(order[d])
  BY DEF visibleOrder, ToSet
<1>3. Queue!Listed \subseteq Listed
  BY <1>2 DEF Queue!Listed, Listed, Queue!ToSet, ToSet
<1>4. visibleOrder \in [Lists -> Seq(Messages)]
  BY Typing, EmptySeq DEF visibleOrder, TypeOK
<1>5. QED BY <1>1, <1>3, <1>4

(* A step that changes neither a list nor what the caller holds.           *)
LEMMA VisibleSame ==
    ASSUME LInv, UNCHANGED <<order, held, ret>>, call.op # "clean", call'.op # "clean"
    PROVE  UNCHANGED Queue!vars
BY DEF visibleOrder, Queue!vars

LEMMA QueueInit == ASSUME Init PROVE Queue!Init
<1>1. visibleOrder = [d \in Lists |-> <<>>]
  BY DEF Init, visibleOrder, Idle
<1>2. QED BY <1>1 DEF Init, Queue!Init

LEMMA QueueObjects == ASSUME LInv, Objects PROVE [Queue!Next]_(Queue!vars)
<1>1. ASSUME NEW p \in Payloads, ObjectNew(p) \/ ObjectFree(p) PROVE UNCHANGED Queue!vars
  BY <1>1, VisibleSame DEF ObjectNew, ObjectFree, ghosts, Idle
<1>2. ASSUME NEW m \in Messages, PayloadRemove(m) PROVE UNCHANGED Queue!vars
  BY <1>2, VisibleSame DEF PayloadRemove, ghosts, Idle
<1>3. ASSUME NEW m \in Messages, NEW p \in Payloads, RequestBegin(m, p)
      PROVE  UNCHANGED Queue!vars
  BY <1>3, VisibleSame DEF RequestBegin, ghosts, Idle
<1>4. ASSUME NEW m \in Messages, MessageFree(m) PROVE Queue!Free(m)
  BY <1>4 DEF MessageFree, Release, Queue!Free, visibleOrder, ghosts
<1>5. ASSUME NEW m \in Messages, NEW p \in Payloads \cup {NULL}, MessageNew(m, p)
      PROVE  Queue!New(m)
  <2>1. m \notin held \cup Queue!Listed
    BY <1>5, Typing, Visible DEF MessageNew, Allocate
  <2>2. QED BY <1>5, <2>1 DEF MessageNew, Allocate, Queue!New, visibleOrder, ghosts
<1>6. ASSUME NEW d \in Lists, NEW m \in Messages, DataAdd(d, m) PROVE Queue!Add(d, m)
  <2>1. call.op # "clean" /\ call' = call
    BY <1>6 DEF DataAdd, Idle
  <2>2. visibleOrder = order /\ visibleOrder' = order'
    <3>1. LInv'
      BY <1>6, DataAddStep
    <3>2. order' \in [Lists -> Seq(Messages)]
      BY <3>1 DEF LInv, TypeOK
    <3>3. QED BY <2>1, <3>2, Visible DEF visibleOrder
  <2>3. QED BY <1>6, <2>2 DEF DataAdd, Link, Queue!Add
<1>7. ASSUME NEW d \in Lists, NEW m \in Messages, NEW p \in Payloads, Parse(d, m, p)
      PROVE  Queue!Parse(d, m)
  <2>1. call.op # "clean" /\ call' = call
    BY <1>7 DEF Parse, Idle
  <2>2. visibleOrder = order /\ visibleOrder' = order'
    <3>1. LInv'
      BY <1>7, ParseStep
    <3>2. order' \in [Lists -> Seq(Messages)]
      BY <3>1 DEF LInv, TypeOK
    <3>3. QED BY <2>1, <3>2, Visible DEF visibleOrder
  <2>3. m \notin held \cup Queue!Listed
    BY <1>7, Typing, Visible DEF Parse, Allocate
  <2>4. QED BY <1>7, <2>2, <2>3 DEF Parse, Link, Queue!Parse
<1>8. QED
  BY <1>1, <1>2, <1>3, <1>4, <1>5, <1>6, <1>7 DEF Objects, Queue!Next

LEMMA QueueRemoval ==
    ASSUME LInv, NEW d \in Lists, NEW i \in 1..Len(order[d]), NEW target \in Pointers,
           call.op # "clean", call'.op # "clean",
           order' = [order EXCEPT ![d] = RemoveAt(@, i)], Return(order[d][i]),
           target = order[d][i] \/ (target = NULL /\ i = 1)
    PROVE  Queue!DataRemove(d, target)
<1>1. visibleOrder = order /\ order[d] # <<>> /\ order[d][i] # NULL
  BY Typing, Visible, OrderFacts
<1>2. visibleOrder' = order'
  <2>1. order' \in [Lists -> Seq(Messages)]
    BY Typing, DropPlaces DEF NoSharing
  <2>2. QED BY <2>1 DEF visibleOrder
<1>3. Queue!Take(d, i)
  BY <1>1, <1>2 DEF Queue!Take, Queue!RemoveAt, RemoveAt, Return
<1>4. QED BY <1>1, <1>3 DEF Queue!DataRemove

LEMMA QueueLoop == ASSUME LInv, Loop PROVE [Queue!Next]_(Queue!vars)
<1>1. CASE RequestEnd
  BY <1>1, VisibleSame DEF RequestEnd, ghosts, Idle
<1>2. CASE RemoveWalk
  <2>1. call'.op = "remove" /\ call.op = "remove"
    BY <1>2, Typing DEF RemoveWalk, TypeOK
  <2>2. QED BY <1>2, <2>1, VisibleSame DEF RemoveWalk, ghosts
<1>3. CASE RemoveFails
  <2>1. /\ call.data \in Lists /\ call.target \in msgs /\ call.target \in Messages
        /\ call.target # NULL /\ call.target \notin ToSet(order[call.data])
    BY <1>3, Typing, NullAssumption DEF RemoveFails, CallInv, WalkInv
  <2>2. visibleOrder = order /\ visibleOrder' = visibleOrder
    BY <1>3, Visible DEF RemoveFails, visibleOrder, ghosts, Idle
  <2>3. ret' = NULL /\ held' = held
    BY <1>3 DEF RemoveFails, Return
  <2>4. Queue!DataRemove(call.data, call.target)
    BY <2>1, <2>2, <2>3 DEF Queue!DataRemove, Queue!ToSet, ToSet
  <2>5. QED BY <2>1, <2>4 DEF Queue!Next
<1>4. CASE RemoveFound
  <2> DEFINE d == call.data
             s == order[d]
             m == call.target
  <2>1. /\ d \in Lists /\ m \in Messages /\ call.op # "clean" /\ call'.op # "clean"
        /\ Unlink(d, m, call.msg) /\ Return(m)
    BY <1>4, Typing DEF RemoveFound, CallInv, WalkInv, Idle
  <2>2. PICK i \in 1..Len(s) : s[i] = m /\ order' = [order EXCEPT ![d] = RemoveAt(@, i)]
    BY <2>1 DEF Unlink
  <2>3. Queue!DataRemove(d, m)
    BY <2>1, <2>2, QueueRemoval DEF Pointers
  <2>4. QED BY <2>1, <2>3 DEF Queue!Next
<1>5. CASE CleanNext
  <2>1. /\ order' = [order EXCEPT ![call.data] = RemoveAt(@, 1)]
        /\ call.op = "clean" /\ call' = call /\ UNCHANGED <<held, ret>>
    BY <1>5 DEF CleanNext, UnlinkFirst
  <2>2. visibleOrder' = visibleOrder
    BY <2>1, Typing DEF visibleOrder, TypeOK
  <2>3. QED BY <2>1, <2>2 DEF Queue!vars
<1>6. CASE CleanEnd
  <2>1. /\ call.data \in Lists /\ order[call.data] = <<>> /\ call' = Idle
        /\ UNCHANGED <<order, held, ret>>
    BY <1>6, Typing, OrderFacts DEF CleanEnd, CallInv, ListShape, Linked, ghosts
  <2>2. visibleOrder' = visibleOrder
    BY <2>1 DEF visibleOrder, Idle
  <2>3. QED BY <2>1, <2>2 DEF Queue!vars
<1>7. QED BY <1>1, <1>2, <1>3, <1>4, <1>5, <1>6 DEF Loop

LEMMA QueueStep == ASSUME LInv, [Next]_vars PROVE [Queue!Next]_(Queue!vars)
<1>1. ASSUME NEW d \in Lists, NEW target \in Pointers, RemoveHead(d, target)
      PROVE  Queue!DataRemove(d, target)
  <2>1. /\ UnlinkFirst(d) /\ first[d] # NULL /\ call = Idle /\ call' = call
        /\ Return(first[d]) /\ target \in {NULL, first[d]}
    BY <1>1 DEF RemoveHead
  <2>2. 1 \in 1..Len(order[d]) /\ first[d] = order[d][1]
    BY <2>1, Typing, UnlinkFirstShape
  <2>3. order' = [order EXCEPT ![d] = RemoveAt(@, 1)]
    BY <2>1 DEF UnlinkFirst
  <2>4. call.op # "clean" /\ call'.op # "clean"
    BY <2>1 DEF Idle
  <2>5. QED BY <2>1, <2>2, <2>3, <2>4, QueueRemoval
<1>2. ASSUME NEW d \in Lists, NEW target \in Pointers, RemoveBegin(d, target)
      PROVE  UNCHANGED Queue!vars
  BY <1>2, VisibleSame DEF RemoveBegin, ghosts, Idle
<1>3. ASSUME NEW d \in Lists, RemoveNothing(d) PROVE Queue!DataRemove(d, NULL)
  <2>1. order[d] = <<>> /\ ret' = NULL /\ held' = held /\ call = Idle /\ UNCHANGED <<order, call>>
    BY <1>3, Typing, OrderFacts DEF RemoveNothing, Return, ListShape, Linked, ghosts
  <2>2. visibleOrder = order /\ visibleOrder' = visibleOrder
    BY <2>1, Visible DEF visibleOrder, Idle
  <2>3. NULL \notin ToSet(order[d])
    BY <2>1 DEF ToSet
  <2>4. QED BY <2>1, <2>2, <2>3 DEF Queue!DataRemove, Queue!ToSet, ToSet
<1>4. ASSUME NEW d \in Lists, CleanBegin(d) PROVE Queue!Clean(d)
  <2>1. /\ call = Idle /\ call'.op = "clean" /\ call'.data = d /\ UNCHANGED <<order, held, ret>>
    BY <1>4 DEF CleanBegin, Idle
  <2>2. visibleOrder = order
    BY <2>1, Visible DEF Idle
  <2>3. visibleOrder' = [order EXCEPT ![d] = <<>>]
    BY <2>1, Typing DEF visibleOrder, TypeOK
  <2>4. QED BY <2>1, <2>2, <2>3 DEF Queue!Clean
<1>5. ASSUME NEW d \in Lists, DataIterate(d) PROVE UNCHANGED Queue!vars
  BY <1>5, VisibleSame DEF DataIterate, Idle
<1>6. CASE UNCHANGED vars
  BY <1>6 DEF vars, visibleOrder, Queue!vars, ghosts
<1>7. NULL \in Pointers /\ Pointers = Messages \cup {NULL}
  BY DEF Pointers
<1>8. QED
  BY <1>1, <1>2, <1>3, <1>4, <1>5, <1>6, <1>7, QueueObjects, QueueLoop DEF Next, Queue!Next

(* Whatever the pointers do, the caller sees queues.                       *)
THEOREM ListsAreQueues == Spec => ImplementsQueue
<1>1. Init => Queue!Init
  BY QueueInit
<1>2. LInv /\ [Next]_vars => [Queue!Next]_(Queue!vars)
  BY QueueStep
<1>3. QED BY <1>1, <1>2, ListInvariance, PTL DEF Spec, ImplementsQueue, Queue!Spec
=============================================================================
